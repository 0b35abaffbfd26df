------------------------- MODULE RemoteWatchProofs -------------------------
(***************************************************************************)
(* For any watches, actors and number of faults: every watch ends once,    *)
(* the watcher's record agrees with the system's, an established watch is  *)
(* backed by the far node, nobody is told of an actor that lives, and far  *)
(* keeps no watch that home has given up.                                  *)
(***************************************************************************)
EXTENDS RemoteWatch, TLAPS

(* The invariant, for one watch. *)

\* Before watch() there is no trace of it.
Unused(w) ==
    request[w] = "none" =>
        /\ w \notin adds /\ w \notin removes /\ w \notin notices
        /\ w \notin remoteWatches /\ w \notin remoteWatchers
        /\ w \notin unwatched /\ w \notin late
        /\ \A dead \in BOOLEAN : <<w, dead>> \notin replies
        /\ told[w] = 0

\* far does not know it before its watch:add arrives.
Unknown(w) ==
    w \in adds =>
        /\ request[w] \in {"pending", "failed"}
        /\ w \notin notices /\ w \notin remoteWatchers /\ w \notin late
        /\ \A dead \in BOOLEAN : <<w, dead>> \notin replies

\* It ends at most once; while it stands, it has not ended.
EndsOnce(w) ==
    /\ w \in remoteWatches => told[w] = 0 /\ w \notin unwatched
    /\ w \in removes => w \in unwatched
    /\ told[w] <= 1
    /\ w \in unwatched => told[w] = 0

\* What far says of an actor is true, and it then keeps no watch.
SaysTrue(w) ==
    /\ <<w, TRUE>> \in replies =>
          actor[Target[w]] \notin Present /\ w \notin remoteWatchers
    /\ w \in notices => actor[Target[w]] # "alive" /\ w \notin remoteWatchers
    /\ suspicions = 0 /\ far /\ told[w] > 0 /\ request[w] # "failed"
          => actor[Target[w]] # "alive"

\* From far's positive reply on, the watch is kept there or was noticed.
Stands(w) ==
    /\ Undisturbed /\ far /\ w \in remoteWatches
    /\ request[w] = "answered" \/ <<w, FALSE>> \in replies
    => \/ w \in notices \/ w \in late
       \/ w \in remoteWatchers
          /\ actor[Target[w]] \in {"alive", "closing", "restarting", "replaced"}

\* What far has, or will get, home has too, or has sent a watch:remove for.
Wanted(w) ==
    /\ Undisturbed /\ far /\ request[w] # "failed"
    /\ w \in remoteWatchers \/ w \in adds
    => w \in remoteWatches \/ w \in removes

WatchOK(w) ==
    Unused(w) /\ Unknown(w) /\ EndsOnce(w) /\ SaysTrue(w) /\ Stands(w) /\ Wanted(w)

\* A node that crashed keeps nothing.
CrashForgets == ~far => remoteWatchers = {}

WatchInv == TypeOK /\ ContextAgrees /\ CrashForgets /\ \A w \in Watches : WatchOK(w)

----------------------------------------------------------------------------
\* The invariant holds at the start.
LEMMA InitWatch == Init => WatchInv
<1> SUFFICES ASSUME Init PROVE WatchInv
  OBVIOUS
<1>1. TypeOK
  BY WatchAssumption DEF Init, TypeOK, ActorStates, Present
<1>2. ASSUME NEW w \in Watches PROVE WatchOK(w)
  BY DEF Init, WatchOK, Unused, Unknown, EndsOnce, SaysTrue, Stands, Wanted
<1> QED
  BY <1>1, <1>2 DEF Init, WatchInv, ContextAgrees, CrashForgets

\* handleRemoteDown ends the watches it is given that home still has.
LEMMA DownEnds ==
    ASSUME TypeOK, ContextAgrees, NEW ws \in SUBSET Watches, handleRemoteDown(ws),
           watcher' = watcher
    PROVE  /\ remoteWatches' = remoteWatches \ ws /\ context' \subseteq Watches
           /\ told' \in [Watches -> Nat]
           /\ ContextAgrees'
           /\ \A w \in Watches :
                 \/ told'[w] = told[w]
                 \/ told'[w] = told[w] + 1 /\ w \in ws /\ w \in remoteWatches
  BY DEF handleRemoteDown, TypeOK, ContextAgrees

\* The steps of home keep the invariant.
LEMMA HomeKeeps ==
    ASSUME WatchInv,
           \/ \E w \in Watches :
                 \/ watch(w) \/ Unwatch(w) \/ NoticeArrives(w) \/ RequestFails(w)
                 \/ \E alreadyDead \in BOOLEAN : ReplyArrives(w, alreadyDead)
           \/ WatcherStops \/ WatcherStopped \/ WatcherMigrates
           \/ NodeFailed \/ FalseAlarm \/ GossipLeave \/ GossipJoin
    PROVE  WatchInv'
<1> USE DEF WatchOK, Unused, Unknown, EndsOnce, SaysTrue, Stands, Wanted,
            CrashForgets, Undisturbed
<1>0. TypeOK /\ ContextAgrees /\ CrashForgets /\ \A v \in Watches : WatchOK(v)
  BY DEF WatchInv
<1>1. ASSUME NEW w \in Watches, watch(w) PROVE WatchInv'
  <2>1. TypeOK' /\ ContextAgrees' /\ CrashForgets'
    BY <1>0, <1>1 DEF watch, TypeOK, ContextAgrees, there, endings, counters
  <2>2. ASSUME NEW v \in Watches PROVE WatchOK(v)'
    BY <1>0, <1>1 DEF watch, TypeOK, there, endings, counters
  <2> QED
    BY <2>1, <2>2 DEF WatchInv
<1>2. ASSUME NEW w \in Watches, Unwatch(w) PROVE WatchInv'
  <2>1. TypeOK' /\ ContextAgrees' /\ CrashForgets'
    BY <1>0, <1>2 DEF Unwatch, unwatch, TypeOK, ContextAgrees, there, counters
  <2>2. ASSUME NEW v \in Watches PROVE WatchOK(v)'
    BY <1>0, <1>2 DEF Unwatch, unwatch, TypeOK, there, counters
  <2> QED
    BY <2>1, <2>2 DEF WatchInv
<1>3. ASSUME NEW w \in Watches, NoticeArrives(w) PROVE WatchInv'
  <2>0. /\ remoteWatches' = remoteWatches \ {w} /\ context' \subseteq Watches
        /\ told' \in [Watches -> Nat] /\ ContextAgrees'
        /\ \A v \in Watches :
              \/ told'[v] = told[v]
              \/ told'[v] = told[v] + 1 /\ v \in {w} /\ v \in remoteWatches
    BY <1>0, <1>3, DownEnds DEF NoticeArrives
  <2>1. TypeOK' /\ CrashForgets'
    BY <1>0, <1>3, <2>0 DEF NoticeArrives, TypeOK, there, counters
  <2>2. ASSUME NEW v \in Watches PROVE WatchOK(v)'
    <3>1. told[v] \in Nat /\ WatchOK(v)
      BY <1>0 DEF TypeOK
    <3>2. CASE v = w
      <4>1. told'[w] = told[w] \/ (told'[w] = 1 /\ w \in remoteWatches)
        BY <2>0, <3>1, <3>2
      <4> QED
        BY <1>3, <2>0, <3>1, <3>2, <4>1 DEF NoticeArrives, TypeOK, there, counters
    <3>3. CASE v # w
      <4>1. told'[v] = told[v]
        BY <2>0, <3>3
      <4>2. request'[v] = request[v]
        BY <1>0, <1>3, <3>3 DEF NoticeArrives, TypeOK
      <4> QED
        BY <1>3, <2>0, <3>1, <3>3, <4>1, <4>2 DEF NoticeArrives, there, counters
    <3> QED
      BY <3>2, <3>3
  <2> QED
    BY <2>0, <2>1, <2>2 DEF WatchInv
<1>4. ASSUME NEW w \in Watches, RequestFails(w) PROVE WatchInv'
  <2>0. /\ remoteWatches' = remoteWatches \ {w} /\ context' \subseteq Watches
        /\ told' \in [Watches -> Nat] /\ ContextAgrees'
        /\ \A v \in Watches :
              \/ told'[v] = told[v]
              \/ told'[v] = told[v] + 1 /\ v \in {w} /\ v \in remoteWatches
    BY <1>0, <1>4, DownEnds DEF RequestFails
  <2>1. TypeOK' /\ CrashForgets'
    BY <1>0, <1>4, <2>0 DEF RequestFails, TypeOK, there, network, counters
  <2>2. ASSUME NEW v \in Watches PROVE WatchOK(v)'
    <3>1. told[v] \in Nat /\ WatchOK(v)
      BY <1>0 DEF TypeOK
    <3>2. CASE v = w
      <4>1. told'[w] = told[w] \/ (told'[w] = 1 /\ w \in remoteWatches)
        BY <2>0, <3>1, <3>2
      <4>2. request[w] = "pending" /\ request'[w] = "failed"
        BY <1>0, <1>4 DEF RequestFails, TypeOK
      <4> QED
        BY <1>4, <2>0, <3>1, <3>2, <4>1, <4>2 DEF RequestFails, there, network, counters
    <3>3. CASE v # w
      <4>1. told'[v] = told[v]
        BY <2>0, <3>3
      <4>2. request'[v] = request[v]
        BY <1>0, <1>4, <3>3 DEF RequestFails, TypeOK
      <4> QED
        BY <1>4, <2>0, <3>1, <3>3, <4>1, <4>2 DEF RequestFails, there, network, counters
    <3> QED
      BY <3>2, <3>3
  <2> QED
    BY <2>0, <2>1, <2>2 DEF WatchInv
<1>5. ASSUME NEW w \in Watches, NEW dead \in BOOLEAN, ReplyArrives(w, dead)
      PROVE  WatchInv'
  <2>1. CASE request[w] = "pending" /\ dead
    <3>0. /\ remoteWatches' = remoteWatches \ {w} /\ context' \subseteq Watches
          /\ told' \in [Watches -> Nat] /\ ContextAgrees'
          /\ \A v \in Watches :
                \/ told'[v] = told[v]
                \/ told'[v] = told[v] + 1 /\ v \in {w} /\ v \in remoteWatches
      BY <1>0, <1>5, <2>1, DownEnds DEF ReplyArrives
    <3>1. TypeOK' /\ CrashForgets'
      <4>1. /\ UNCHANGED <<watcher, tracked, far, actor, remoteWatchers, adds, removes,
                           notices, unwatched, late, lost, suspicions, leaves>>
            /\ replies' \subseteq replies
        BY <1>5 DEF ReplyArrives, there, counters
      <4>2. request' \in [Watches -> {"none", "pending", "answered", "failed"}]
        BY <1>0, <1>5, <2>1 DEF ReplyArrives, TypeOK
      <4>3. remoteWatches' \subseteq Watches
        BY <1>0, <3>0 DEF TypeOK
      <4> QED
        BY <1>0, <3>0, <4>1, <4>2, <4>3 DEF TypeOK
    <3>2. ASSUME NEW v \in Watches PROVE WatchOK(v)'
      <4>1. told[v] \in Nat /\ WatchOK(v)
        BY <1>0 DEF TypeOK
      <4>2. CASE v = w
        <5>1. told'[w] = told[w] \/ (told'[w] = 1 /\ w \in remoteWatches)
          BY <3>0, <4>1, <4>2
        <5>2. request'[w] = "answered" /\ <<w, TRUE>> \in replies
          BY <1>0, <1>5, <2>1 DEF ReplyArrives, TypeOK
        <5>3. /\ UNCHANGED <<far, actor, remoteWatchers, adds, removes, notices,
                              unwatched, late, lost, suspicions>>
              /\ replies' \subseteq replies
              /\ actor[Target[w]] \notin Present /\ actor[Target[w]] # "alive"
              /\ w \notin remoteWatches' /\ w \notin adds
          BY <1>5, <3>0, <4>1, <4>2, <5>2 DEF ReplyArrives, there, counters, Present
        <5> QED
          BY <4>1, <4>2, <5>1, <5>2, <5>3
      <4>3. CASE v # w
        <5>1. told'[v] = told[v]
          BY <3>0, <4>3
        <5>2. request'[v] = request[v]
          BY <1>0, <1>5, <4>3 DEF ReplyArrives, TypeOK
        <5> QED
          BY <1>5, <3>0, <4>1, <4>3, <5>1, <5>2 DEF ReplyArrives, there, counters
      <4> QED
        BY <4>2, <4>3
    <3> QED
      BY <3>0, <3>1, <3>2 DEF WatchInv
  <2>2. CASE ~(request[w] = "pending" /\ dead)
    <3>1. TypeOK' /\ ContextAgrees' /\ CrashForgets'
      BY <1>0, <1>5, <2>2 DEF ReplyArrives, TypeOK, ContextAgrees, there, counters
    <3>2. ASSUME NEW v \in Watches PROVE WatchOK(v)'
      BY <1>0, <1>5, <2>2 DEF ReplyArrives, TypeOK, there, counters
    <3> QED
      BY <3>1, <3>2 DEF WatchInv
  <2> QED
    BY <2>1, <2>2
<1>6. CASE WatcherStops
  <2>1. TypeOK' /\ ContextAgrees' /\ CrashForgets'
    BY <1>0, <1>6 DEF WatcherStops, unwatch, TypeOK, ContextAgrees, there, counters
  <2>2. ASSUME NEW v \in Watches PROVE WatchOK(v)'
    BY <1>0, <1>6 DEF WatcherStops, unwatch, TypeOK, there, counters
  <2> QED
    BY <2>1, <2>2 DEF WatchInv
<1>7. CASE WatcherStopped \/ WatcherMigrates
  <2>1. /\ watcher' = "dead"
        /\ UNCHANGED <<remoteWatches, context, request, tracked, far, there,
                       network, endings, late, counters>>
    BY <1>7 DEF WatcherStopped, WatcherMigrates
  <2>2. TypeOK' /\ ContextAgrees' /\ CrashForgets'
    BY <1>0, <2>1 DEF TypeOK, ContextAgrees, there, network, endings, counters
  <2>3. ASSUME NEW v \in Watches PROVE WatchOK(v)'
    BY <1>0, <2>1 DEF there, network, endings, counters
  <2> QED
    BY <2>2, <2>3 DEF WatchInv
<1>8. CASE NodeFailed \/ FalseAlarm
  <2>0. /\ remoteWatches' = {} /\ context' \subseteq Watches
        /\ told' \in [Watches -> Nat] /\ ContextAgrees'
        /\ \A v \in Watches :
              \/ told'[v] = told[v]
              \/ told'[v] = told[v] + 1 /\ v \in remoteWatches
    BY <1>0, <1>8, DownEnds DEF NodeFailed, FalseAlarm, handleNodeFailure, TypeOK
  <2>1. /\ UNCHANGED <<watcher, request, far, there, network, unwatched, late, lost, leaves>>
        /\ tracked' = FALSE
        /\ (~far /\ suspicions' = suspicions) \/ suspicions' = suspicions + 1
    BY <1>8 DEF NodeFailed, FalseAlarm, counters
  <2>3. suspicions \in Nat /\ suspicions' \in Nat
    BY <1>0, <2>1 DEF TypeOK
  <2>2. TypeOK' /\ CrashForgets'
    <3>1. tracked' \in BOOLEAN /\ remoteWatches' \subseteq Watches
      BY <2>0, <2>1
    <3> QED
      BY <1>0, <2>0, <2>1, <2>3, <3>1 DEF TypeOK, there, network
  <2>4. ASSUME NEW v \in Watches PROVE WatchOK(v)'
    <3>1. told[v] \in Nat /\ WatchOK(v)
      BY <1>0 DEF TypeOK
    <3>2. told'[v] = told[v] \/ (told'[v] = 1 /\ v \in remoteWatches)
      BY <2>0, <3>1
    <3> QED
      BY <2>0, <2>1, <2>3, <3>1, <3>2 DEF there, network
  <2> QED
    BY <2>0, <2>2, <2>4 DEF WatchInv
<1>9. CASE GossipLeave \/ GossipJoin
  <2>1. /\ UNCHANGED <<watcher, remoteWatches, context, request, far, there,
                        network, endings, late, lost, suspicions>>
        /\ tracked' \in BOOLEAN
        /\ leaves' = leaves \/ leaves' = leaves + 1
    BY <1>9 DEF GossipLeave, GossipJoin, counters
  <2>2. TypeOK' /\ ContextAgrees' /\ CrashForgets'
    BY <1>0, <2>1 DEF TypeOK, ContextAgrees, there, network, endings
  <2>3. ASSUME NEW v \in Watches PROVE WatchOK(v)'
    BY <1>0, <2>1 DEF there, network, endings
  <2> QED
    BY <2>2, <2>3 DEF WatchInv
<1> QED
  BY <1>1, <1>2, <1>3, <1>4, <1>5, <1>6, <1>7, <1>8, <1>9

\* The steps of far and of the network keep the invariant.
LEMMA FarKeeps ==
    ASSUME WatchInv,
           \/ \E w \in Watches :
                 handleRemoteWatchAdd(w) \/ handleRemoteWatchRemove(w) \/ Lose(w)
           \/ \E a \in Actors :
                 \/ Kill(a) \/ StopBegins(a) \/ StopNotifies(a) \/ StopEnds(a)
                 \/ RestartBegins(a) \/ RestartEnds(a) \/ Migrates(a)
           \/ FarSuspects \/ FarCrashes
    PROVE  WatchInv'
<1> USE DEF WatchOK, Unused, Unknown, EndsOnce, SaysTrue, Stands, Wanted,
            CrashForgets, Undisturbed
<1>0. TypeOK /\ ContextAgrees /\ CrashForgets /\ \A v \in Watches : WatchOK(v)
  BY DEF WatchInv
<1>1. ASSUME NEW w \in Watches, handleRemoteWatchAdd(w) PROVE WatchInv'
  <2> DEFINE state == actor[Target[w]]
  <2>0. /\ far /\ w \in adds /\ adds' = adds \ {w}
        /\ UNCHANGED <<home, far, actor, removes, notices, endings, counters>>
        /\ late' = IF state = "stopping" THEN late \union {w} ELSE late
        /\ \/ /\ state \in Present
              /\ remoteWatchers' = remoteWatchers \union {w}
              /\ replies' = replies \union {<<w, FALSE>>}
           \/ /\ state \notin Present
              /\ remoteWatchers' = remoteWatchers
              /\ replies' = replies \union {<<w, TRUE>>}
    BY <1>1 DEF handleRemoteWatchAdd
  <2>1. TypeOK' /\ ContextAgrees' /\ CrashForgets'
    <3>1. remoteWatchers' \subseteq Watches /\ late' \subseteq Watches
      BY <1>0, <2>0 DEF TypeOK
    <3>2. replies' \subseteq Watches \X BOOLEAN
      <4>1. <<w, TRUE>> \in Watches \X BOOLEAN /\ <<w, FALSE>> \in Watches \X BOOLEAN
        OBVIOUS
      <4> QED
        BY <1>0, <2>0, <4>1 DEF TypeOK
    <3> HIDE DEF state
    <3> QED
      BY <1>0, <2>0, <3>1, <3>2 DEF TypeOK, ContextAgrees, home, endings, counters
  <2>2. ASSUME NEW v \in Watches PROVE WatchOK(v)'
    <3>1. WatchOK(v)
      BY <1>0
    <3>2. CASE v = w
      <4>1. CASE state \in Present
        <5>1. /\ remoteWatchers' = remoteWatchers \union {w}
              /\ replies' = replies \union {<<w, FALSE>>}
          BY <2>0, <4>1
        <5> QED
          BY <2>0, <3>1, <3>2, <4>1, <5>1 DEF home, endings, counters, Present
      <4>2. CASE state \notin Present
        <5>1. remoteWatchers' = remoteWatchers /\ replies' = replies \union {<<w, TRUE>>}
          BY <2>0, <4>2
        <5> QED
          BY <2>0, <3>1, <3>2, <4>2, <5>1 DEF home, endings, counters, Present
      <4> QED
        BY <4>1, <4>2
    <3>3. CASE v # w
      <4>1. /\ \A dead \in BOOLEAN : <<v, dead>> \in replies' <=> <<v, dead>> \in replies
            /\ v \in remoteWatchers' <=> v \in remoteWatchers
        BY <2>0, <3>3
      <4> QED
        BY <2>0, <3>1, <3>3, <4>1 DEF home, endings, counters
    <3> QED
      BY <3>2, <3>3
  <2> QED
    BY <2>1, <2>2 DEF WatchInv
<1>2. ASSUME NEW w \in Watches, handleRemoteWatchRemove(w) PROVE WatchInv'
  <2>1. TypeOK' /\ ContextAgrees' /\ CrashForgets'
    BY <1>0, <1>2 DEF handleRemoteWatchRemove, TypeOK, ContextAgrees, home, endings,
       counters
  <2>2. ASSUME NEW v \in Watches PROVE WatchOK(v)'
    BY <1>0, <1>2 DEF handleRemoteWatchRemove, TypeOK, home, endings, counters
  <2> QED
    BY <2>1, <2>2 DEF WatchInv
<1>3. ASSUME NEW w \in Watches, Lose(w) PROVE WatchInv'
  <2>0. /\ adds' \subseteq adds /\ removes' \subseteq removes
        /\ notices' \subseteq notices /\ replies' \subseteq replies
        /\ lost' = lost + 1
        /\ UNCHANGED <<home, far, there, endings, late, suspicions, leaves>>
    BY <1>3 DEF Lose
  <2>1. TypeOK' /\ ContextAgrees' /\ CrashForgets'
    BY <1>0, <2>0 DEF TypeOK, ContextAgrees, home, there, endings
  <2>2. lost' # 0
    BY <1>0, <2>0 DEF TypeOK
  <2>3. ASSUME NEW v \in Watches PROVE WatchOK(v)'
    BY <1>0, <2>0, <2>2 DEF home, there, endings
  <2> QED
    BY <2>1, <2>3 DEF WatchInv
<1>4. ASSUME NEW a \in Actors, NEW state \in ActorStates, notifyWatchers(a),
             Becomes(a, state), Elsewhere, far, state # "alive",
             actor[a] \in Present
      PROVE  WatchInv'
  <2>1. TypeOK' /\ ContextAgrees' /\ CrashForgets'
    BY <1>0, <1>4 DEF notifyWatchers, About, Becomes, Elsewhere, TypeOK,
       ContextAgrees, home, endings, counters
  <2>2. ASSUME NEW v \in Watches PROVE WatchOK(v)'
    <3>1. Target[v] \in Actors
      BY WatchAssumption
    <3>2. CASE Target[v] = a
      BY <1>0, <1>4, <3>2 DEF notifyWatchers, About, Becomes, Elsewhere, TypeOK,
         home, endings, counters
    <3>3. CASE Target[v] # a
      BY <1>0, <1>4, <3>1, <3>3 DEF notifyWatchers, About, Becomes, Elsewhere, TypeOK,
         home, endings, counters
    <3> QED
      BY <3>2, <3>3
  <2> QED
    BY <2>1, <2>2 DEF WatchInv
<1>5. ASSUME NEW a \in Actors, NEW state \in ActorStates, far,
             UNCHANGED <<remoteWatchers, notices>>, Becomes(a, state), Elsewhere,
             \/ actor[a] = "alive" /\ state \in {"closing", "restarting"}
             \/ actor[a] = "stopping" /\ state = "dead"
             \/ actor[a] = "restarting" /\ state = "replaced"
      PROVE  WatchInv'
  <2>1. TypeOK' /\ ContextAgrees' /\ CrashForgets'
    BY <1>0, <1>5 DEF Becomes, Elsewhere, TypeOK, ContextAgrees, home, endings, counters
  <2>2. ASSUME NEW v \in Watches PROVE WatchOK(v)'
    <3>1. Target[v] \in Actors
      BY WatchAssumption
    <3>2. CASE Target[v] = a
      BY <1>0, <1>5, <3>2 DEF Becomes, Elsewhere, TypeOK, home, endings, counters, Present
    <3>3. CASE Target[v] # a
      BY <1>0, <1>5, <3>1, <3>3 DEF Becomes, Elsewhere, TypeOK, home, endings, counters
    <3> QED
      BY <3>2, <3>3
  <2> QED
    BY <2>1, <2>2 DEF WatchInv
<1>6. ASSUME NEW a \in Actors,
             \/ Kill(a) \/ StopBegins(a) \/ StopNotifies(a) \/ StopEnds(a)
             \/ RestartBegins(a) \/ RestartEnds(a) \/ Migrates(a)
      PROVE  WatchInv'
  <2>1. CASE Kill(a)
    <3> DEFINE state == IF actor[a] = "alive" THEN "closing" ELSE actor[a]
    <3>1. state \in ActorStates /\ state # "alive"
      BY <2>1 DEF Kill, ActorStates, Present
    <3> QED
      BY <1>4, <2>1, <3>1 DEF Kill
  <2>2. CASE StopNotifies(a) \/ Migrates(a)
    BY <1>4, <2>2 DEF StopNotifies, Migrates, notifyWatchersOfMigration, ActorStates, Present
  <2>3. CASE StopBegins(a) \/ StopEnds(a) \/ RestartBegins(a) \/ RestartEnds(a)
    BY <1>5, <2>3 DEF StopBegins, StopEnds, RestartBegins, RestartEnds,
       ActorStates, Present
  <2> QED
    BY <1>6, <2>1, <2>2, <2>3
<1>7. CASE FarSuspects
  <2>1. suspicions' # 0
    BY <1>0, <1>7 DEF FarSuspects, TypeOK
  <2>2. TypeOK' /\ ContextAgrees' /\ CrashForgets'
    BY <1>0, <1>7 DEF FarSuspects, TypeOK, ContextAgrees, home, network, endings
  <2>3. ASSUME NEW v \in Watches PROVE WatchOK(v)'
    BY <1>0, <1>7, <2>1 DEF FarSuspects, home, network, endings
  <2> QED
    BY <2>2, <2>3 DEF WatchInv
<1>8. CASE FarCrashes
  <2>1. TypeOK' /\ ContextAgrees' /\ CrashForgets'
    BY <1>0, <1>8 DEF FarCrashes, TypeOK, ContextAgrees, home, endings, counters
  <2>2. ASSUME NEW v \in Watches PROVE WatchOK(v)'
    BY <1>0, <1>8 DEF FarCrashes, home, endings, counters
  <2> QED
    BY <2>1, <2>2 DEF WatchInv
<1> QED
  BY <1>1, <1>2, <1>3, <1>6, <1>7, <1>8

\* Every step keeps the invariant.
LEMMA StepWatch == WatchInv /\ [Next]_vars => WatchInv'
<1>1. WatchInv /\ Next => WatchInv'
  BY HomeKeeps, FarKeeps DEF Next
<1>2. ASSUME WatchInv, UNCHANGED vars PROVE WatchInv'
  <2>1. TypeOK' /\ ContextAgrees' /\ CrashForgets'
    BY <1>2 DEF WatchInv, TypeOK, ContextAgrees, CrashForgets, vars, home, there,
       network, endings, counters
  <2>2. ASSUME NEW w \in Watches PROVE WatchOK(w)'
    BY <1>2 DEF WatchInv, WatchOK, Unused, Unknown, EndsOnce, SaysTrue, Stands, Wanted,
       Undisturbed, vars, home, there, network, endings, counters
  <2> QED
    BY <2>1, <2>2 DEF WatchInv
<1> QED
  BY <1>1, <1>2

\* The invariant always holds.
LEMMA AlwaysWatch == Spec => []WatchInv
  BY InitWatch, StepWatch, PTL DEF Spec

----------------------------------------------------------------------------
\* A watch never ends twice, whichever of a reply, a timeout, a notice, a node
\* failure and unwatch come first.
THEOREM EveryWatchEndsOnce == Spec => []OneEnding
<1>1. WatchInv => OneEnding
  BY DEF WatchInv, WatchOK, EndsOnce, OneEnding
<1> QED
  BY <1>1, AlwaysWatch, PTL

\* The watcher's context.watches always is what remoteWatches has, so stop()
\* leaves no watch behind that was made before.
THEOREM RecordsAgree == Spec => []ContextAgrees
<1>1. WatchInv => ContextAgrees
  BY DEF WatchInv
<1> QED
  BY <1>1, AlwaysWatch, PTL

\* Without lost messages and false alarms, a watch whose request was answered
\* is kept by the far node or was noticed there, unless it was added after the
\* actor's notification or the actor was restarted.
THEOREM WatchesAreBacked == Spec => []EstablishedIsBacked
<1>1. WatchInv => EstablishedIsBacked
  BY DEF WatchInv, TypeOK, WatchOK, Stands, EstablishedIsBacked
<1> QED
  BY <1>1, AlwaysWatch, PTL

\* Without false alarms and failed requests, nobody is told of a live actor.
THEOREM OnlyEndingsAreTold == Spec => []NoFalseDown
<1>1. WatchInv => NoFalseDown
  BY DEF WatchInv, WatchOK, SaysTrue, NoFalseDown
<1> QED
  BY <1>1, AlwaysWatch, PTL

\* Without lost messages and false alarms, the far node keeps no watch that
\* home has ended, once nothing about it is under way, unless its request
\* failed at home.
THEOREM NoWatchIsOrphaned == Spec => []NoOrphans
<1>1. WatchInv => NoOrphans
  BY DEF WatchInv, TypeOK, CrashForgets, WatchOK, Wanted, Settled, NoOrphans
<1> QED
  BY <1>1, AlwaysWatch, PTL
=============================================================================
