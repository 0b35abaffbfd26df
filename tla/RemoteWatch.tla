---------------------------- MODULE RemoteWatch ----------------------------
(***************************************************************************)
(* One actor (the watcher) watches actors of another node: the watch half  *)
(* of ActorSystem (src/src/actor_system.ts) on both nodes.  Home keeps     *)
(* remoteWatches and the watcher's context.watches, far keeps              *)
(* remoteWatchers.  watch:add is a request and is answered or fails;       *)
(* watch:remove, watch:down and watch:moved are single messages, which may *)
(* be lost.  The failure detector of home (module Heartbeat) reports far's *)
(* failure, and it may be wrong or be forestalled by gossip.               *)
(*                                                                         *)
(* Messages about different watches do not touch the same entries, so only *)
(* the order of those about one watch matters: home's socket delivers its  *)
(* watch:add before its watch:remove; replies and notices of far come over *)
(* different sockets, in any order.                                        *)
(***************************************************************************)
EXTENDS Integers

CONSTANTS
    Watches,         \* the ids of watch references, each used once
    Actors,          \* the actors of the far node
    Target,          \* Target[w]: the actor that watch w is about
    MaxFaults        \* bound of the model: messages lost, live nodes declared
                     \* dead and peers removed by gossip

ASSUME WatchAssumption ==
    /\ Target \in [Watches -> Actors]
    /\ MaxFaults \in Nat

VARIABLES
    watcher,         \* "alive", "stopping" (stop() awaits) or "dead"
    remoteWatches,   \* home: remoteWatches
    context,         \* home: context.watches of the watcher
    request,         \* home: the state of each watch:add request
    tracked,         \* home: its heartbeat tracks far
    far,             \* far is up
    actor,           \* far: the state of each actor, see Present
    remoteWatchers,  \* far: the watches in remoteWatchers
    adds, removes,   \* watch:add and watch:remove messages under way
    replies,         \* replies to watch:add: <<watch, alreadyDead>>
    notices,         \* watch:down and watch:moved messages under way
    told,            \* history: DOWN and MOVED messages the watcher got
    unwatched,       \* history: watches ended by unwatch
    late,            \* history: watches added after their actor's notification
    lost, suspicions, leaves

home     == <<watcher, remoteWatches, context, request, tracked>>
there    == <<actor, remoteWatchers>>
network  == <<adds, removes, replies, notices>>
endings  == <<told, unwatched>>
counters == <<lost, suspicions, leaves>>

vars == <<home, far, there, network, endings, late, counters>>

\* actors.has(id) on far: "closing" is a stop that awaits its children,
\* "stopping" one that has notified the watchers and awaits unregister and
\* terminate, "restarting" the stopSingle of a restart, which notifies nobody.
Present == {"alive", "closing", "stopping", "restarting"}

ActorStates == Present \union {"dead", "replaced", "moved"}

Init ==
    /\ watcher = "alive"
    /\ remoteWatches = {} /\ context = {}
    /\ request = [w \in Watches |-> "none"]
    /\ far = TRUE /\ tracked = TRUE
    /\ actor \in [Actors -> {"alive", "dead"}]
    /\ remoteWatchers = {}
    /\ adds = {} /\ removes = {} /\ replies = {} /\ notices = {}
    /\ told = [w \in Watches |-> 0]
    /\ unwatched = {} /\ late = {}
    /\ lost = 0 /\ suspicions = 0 /\ leaves = 0

----------------------------------------------------------------------------
(* The watcher's node *)

\* watch of a remote actor, _setupRemoteWatch.
watch(w) ==
    /\ request[w] = "none"
    /\ remoteWatches' = remoteWatches \union {w}
    /\ context' = IF watcher = "dead" THEN context ELSE context \union {w}
    /\ request' = [request EXCEPT ![w] = "pending"]
    /\ adds' = adds \union {w}
    /\ UNCHANGED <<watcher, tracked, far, there, removes, replies, notices,
                   endings, late, counters>>

\* Mutant of unwatch: the far node is not told.
unwatchLocally(ws) ==
    /\ remoteWatches' = remoteWatches \ ws
    /\ context' = IF watcher = "dead" THEN context ELSE context \ ws
    /\ unwatched' = unwatched \union ws
    /\ UNCHANGED removes

\* unwatch, of watches that remoteWatches has.
unwatch(ws) ==
    /\ remoteWatches' = remoteWatches \ ws
    /\ context' = IF watcher = "dead" THEN context ELSE context \ ws
    /\ removes' = removes \union ws
    /\ unwatched' = unwatched \union ws

Unwatch(w) ==
    /\ w \in remoteWatches
    /\ unwatch({w})
    /\ UNCHANGED <<watcher, request, tracked, far, there, adds, replies,
                   notices, told, late, counters>>

\* stop() or stopSingle() of the watcher: its children are gone; what it does
\* up to the await of unregister and terminate.
WatcherStops ==
    /\ watcher = "alive"
    /\ watcher' = "stopping"
    /\ unwatch(context \intersect remoteWatches)
    /\ UNCHANGED <<request, tracked, far, there, adds, replies, notices,
                   told, late, counters>>

WatcherStopped ==
    /\ watcher = "stopping"
    /\ watcher' = "dead"
    /\ UNCHANGED <<remoteWatches, context, request, tracked, far, there,
                   network, endings, late, counters>>

\* The watcher migrates: _cleanupActorForMigration leaves its watches behind.
WatcherMigrates ==
    /\ watcher # "dead"
    /\ watcher' = "dead"
    /\ UNCHANGED <<remoteWatches, context, request, tracked, far, there,
                   network, endings, late, counters>>

\* Mutant of handleRemoteDown: it does not look whether the watch still exists.
handleRemoteDownAlways(ws) ==
    /\ remoteWatches' = remoteWatches \ ws
    /\ IF watcher = "dead"
       THEN UNCHANGED <<context, told>>
       ELSE /\ context' = context \ ws
            /\ told' = [w \in Watches |-> IF w \in ws THEN told[w] + 1 ELSE told[w]]

\* _handleRemoteDown, and _handleRemoteWatcherMoved, which differ in the
\* message to the watcher only.
handleRemoteDown(ws) ==
    /\ remoteWatches' = remoteWatches \ ws
    /\ IF watcher = "dead"
       THEN UNCHANGED <<context, told>>
       ELSE /\ context' = context \ (ws \intersect remoteWatches)
            /\ told' = [w \in Watches |->
                           IF w \in ws \intersect remoteWatches
                           THEN told[w] + 1 ELSE told[w]]

NoticeArrives(w) ==
    /\ w \in notices
    /\ notices' = notices \ {w}
    /\ handleRemoteDown({w})
    /\ UNCHANGED <<watcher, request, tracked, far, there, adds, removes,
                   replies, unwatched, late, counters>>

\* Mutant of ReplyArrives: alreadyDead is not looked at.
ReplyArrivesUnread(w, alreadyDead) ==
    /\ <<w, alreadyDead>> \in replies
    /\ replies' = replies \ {<<w, alreadyDead>>}
    /\ request[w] = "pending"
    /\ request' = [request EXCEPT ![w] = "answered"]
    /\ handleRemoteDown({w})
    /\ UNCHANGED <<watcher, tracked, far, there, adds, removes, notices,
                   unwatched, late, counters>>

\* The then of the request; a reply after the timeout finds no request.
ReplyArrives(w, alreadyDead) ==
    /\ <<w, alreadyDead>> \in replies
    /\ replies' = replies \ {<<w, alreadyDead>>}
    /\ IF request[w] = "pending"
       THEN /\ request' = [request EXCEPT ![w] = "answered"]
            /\ IF alreadyDead THEN handleRemoteDown({w})
                              ELSE UNCHANGED <<remoteWatches, context, told>>
       ELSE UNCHANGED <<request, remoteWatches, context, told>>
    /\ UNCHANGED <<watcher, tracked, far, there, adds, removes, notices,
                   unwatched, late, counters>>

\* The catch of the request: it times out or cannot be sent.
RequestFails(w) ==
    /\ request[w] = "pending"
    /\ request' = [request EXCEPT ![w] = "failed"]
    /\ handleRemoteDown({w})
    /\ UNCHANGED <<watcher, tracked, far, there, network, unwatched, late, counters>>

\* Mutant of handleNodeFailure: nothing is done about watches.
handleNodeFailureLinksOnly == UNCHANGED <<remoteWatches, context, told>>

\* handleNodeFailure, on node_failed: every watch of the node ends.
handleNodeFailure == handleRemoteDown(remoteWatches)

NodeFailed ==
    /\ tracked /\ ~far
    /\ tracked' = FALSE
    /\ handleNodeFailure
    /\ UNCHANGED <<watcher, request, far, there, network, unwatched, late, counters>>

\* The heartbeat gives up on a node that is only slow.
FalseAlarm ==
    /\ tracked /\ far
    /\ lost + suspicions + leaves < MaxFaults
    /\ suspicions' = suspicions + 1
    /\ tracked' = FALSE
    /\ handleNodeFailure
    /\ UNCHANGED <<watcher, request, far, there, network, unwatched, late, lost, leaves>>

\* Gossip's member_leave removes the peer from the heartbeat, and nobody is
\* told; member_join puts it back.
GossipLeave ==
    /\ tracked
    /\ lost + suspicions + leaves < MaxFaults
    /\ leaves' = leaves + 1
    /\ tracked' = FALSE
    /\ UNCHANGED <<watcher, remoteWatches, context, request, far, there,
                   network, endings, late, lost, suspicions>>

GossipJoin ==
    /\ ~tracked /\ far
    /\ tracked' = TRUE
    /\ UNCHANGED <<watcher, remoteWatches, context, request, far, there,
                   network, endings, late, counters>>

----------------------------------------------------------------------------
(* The far node *)

\* _handleRemoteWatchAdd: whether the actor is being stopped is not asked.
handleRemoteWatchAdd(w) ==
    LET state == actor[Target[w]]
    IN  /\ far /\ w \in adds
        /\ adds' = adds \ {w}
        /\ IF state \in Present
           THEN /\ remoteWatchers' = remoteWatchers \union {w}
                /\ replies' = replies \union {<<w, FALSE>>}
           ELSE /\ replies' = replies \union {<<w, TRUE>>}
                /\ UNCHANGED remoteWatchers
        /\ late' = IF state = "stopping" THEN late \union {w} ELSE late
        /\ UNCHANGED <<home, far, actor, removes, notices, endings, counters>>

\* _handleRemoteWatchRemove.
handleRemoteWatchRemove(w) ==
    /\ far /\ w \in removes \ adds
    /\ removes' = removes \ {w}
    /\ remoteWatchers' = remoteWatchers \ {w}
    /\ UNCHANGED <<home, far, actor, adds, replies, notices, endings, late, counters>>

About(a) == {w \in remoteWatchers : Target[w] = a}

\* notifyWatchers, of the remote watchers.
notifyWatchers(a) ==
    /\ notices' = notices \union About(a)
    /\ remoteWatchers' = remoteWatchers \ About(a)

\* The same with watch:moved in place of watch:down.
notifyWatchersOfMigration(a) == notifyWatchers(a)

Becomes(a, state) == actor' = [actor EXCEPT ![a] = state]

Elsewhere == UNCHANGED <<home, far, adds, removes, replies, endings, late, counters>>

\* A supervisor gives up on a crashed actor: it notifies and calls stop().
Kill(a) ==
    /\ far /\ actor[a] \in Present
    /\ Becomes(a, IF actor[a] = "alive" THEN "closing" ELSE actor[a])
    /\ notifyWatchers(a)
    /\ Elsewhere

\* stop(): the children are stopped first.
StopBegins(a) ==
    /\ far /\ actor[a] = "alive"
    /\ Becomes(a, "closing")
    /\ UNCHANGED <<remoteWatchers, notices>>
    /\ Elsewhere

StopNotifies(a) ==
    /\ far /\ actor[a] = "closing"
    /\ Becomes(a, "stopping")
    /\ notifyWatchers(a)
    /\ Elsewhere

StopEnds(a) ==
    /\ far /\ actor[a] = "stopping"
    /\ Becomes(a, "dead")
    /\ UNCHANGED <<remoteWatchers, notices>>
    /\ Elsewhere

\* restart(): the instance goes without a notification; its successor has
\* another id.
RestartBegins(a) ==
    /\ far /\ actor[a] = "alive"
    /\ Becomes(a, "restarting")
    /\ UNCHANGED <<remoteWatchers, notices>>
    /\ Elsewhere

RestartEnds(a) ==
    /\ far /\ actor[a] = "restarting"
    /\ Becomes(a, "replaced")
    /\ UNCHANGED <<remoteWatchers, notices>>
    /\ Elsewhere

\* The end of a successful migrate().
Migrates(a) ==
    /\ far /\ actor[a] \in Present
    /\ Becomes(a, "moved")
    /\ notifyWatchersOfMigration(a)
    /\ Elsewhere

\* far's heartbeat gives up on home: handleNodeFailure drops home's watches.
FarSuspects ==
    /\ far /\ lost + suspicions + leaves < MaxFaults
    /\ suspicions' = suspicions + 1
    /\ remoteWatchers' = {}
    /\ UNCHANGED <<home, far, actor, network, endings, late, lost, leaves>>

FarCrashes ==
    /\ far
    /\ far' = FALSE
    /\ remoteWatchers' = {}
    /\ adds' = {} /\ removes' = {}
    /\ UNCHANGED <<home, actor, replies, notices, endings, late, counters>>

\* A message is lost: a send failed, or its socket was closed.
Lose(w) ==
    /\ lost + suspicions + leaves < MaxFaults
    /\ lost' = lost + 1
    /\ \/ w \in adds /\ adds' = adds \ {w} /\ UNCHANGED <<removes, replies, notices>>
       \/ w \in removes /\ removes' = removes \ {w} /\ UNCHANGED <<adds, replies, notices>>
       \/ w \in notices /\ notices' = notices \ {w} /\ UNCHANGED <<adds, removes, replies>>
       \/ \E dead \in BOOLEAN :
             /\ <<w, dead>> \in replies /\ replies' = replies \ {<<w, dead>>}
             /\ UNCHANGED <<adds, removes, notices>>
    /\ UNCHANGED <<home, far, there, endings, late, suspicions, leaves>>

----------------------------------------------------------------------------
Next ==
    \/ \E w \in Watches :
          \/ watch(w) \/ Unwatch(w)
          \/ NoticeArrives(w) \/ RequestFails(w)
          \/ \E alreadyDead \in BOOLEAN : ReplyArrives(w, alreadyDead)
          \/ handleRemoteWatchAdd(w) \/ handleRemoteWatchRemove(w)
          \/ Lose(w)
    \/ \E a \in Actors :
          \/ Kill(a) \/ StopBegins(a) \/ StopNotifies(a) \/ StopEnds(a)
          \/ RestartBegins(a) \/ RestartEnds(a) \/ Migrates(a)
    \/ WatcherStops \/ WatcherStopped \/ WatcherMigrates
    \/ NodeFailed \/ FalseAlarm \/ GossipLeave \/ GossipJoin
    \/ FarSuspects \/ FarCrashes

Spec == Init /\ [][Next]_vars

(* What was sent and not lost arrives, requests are answered or fail, and  *)
(* the heartbeat finds out about a dead node it tracks (SilentAreDropped   *)
(* of module Heartbeat).                                                   *)
Fairness ==
    /\ \A w \in Watches : WF_vars(NoticeArrives(w)) /\ WF_vars(RequestFails(w))
    /\ WF_vars(NodeFailed)

FairSpec == Spec /\ Fairness

----------------------------------------------------------------------------
(* Properties *)

\* The types of all variables.
TypeOK ==
    /\ watcher \in {"alive", "stopping", "dead"}
    /\ remoteWatches \subseteq Watches /\ context \subseteq Watches
    /\ request \in [Watches -> {"none", "pending", "answered", "failed"}]
    /\ tracked \in BOOLEAN /\ far \in BOOLEAN
    /\ actor \in [Actors -> ActorStates]
    /\ remoteWatchers \subseteq Watches
    /\ adds \subseteq Watches /\ removes \subseteq Watches /\ notices \subseteq Watches
    /\ replies \subseteq Watches \X BOOLEAN
    /\ told \in [Watches -> Nat]
    /\ unwatched \subseteq Watches /\ late \subseteq Watches
    /\ lost \in Nat /\ suspicions \in Nat /\ leaves \in Nat

\* A watch ends once: with one DOWN or MOVED, or by unwatch and then without
\* one, although a reply, a timeout, a notice and a node failure may each end
\* the same watch.
OneEnding ==
    \A w \in Watches : told[w] <= 1 /\ (w \in unwatched => told[w] = 0)

\* The watcher's own record of its watches, from which stop() cleans up, is
\* the system's.
ContextAgrees == watcher # "dead" => context = remoteWatches

\* Nobody gave up on a live node, and no message was lost.
Undisturbed == lost = 0 /\ suspicions = 0

\* Once its request is answered, a watch that home keeps is really one: the
\* far node will notify, or has, unless it was added between an actor's
\* notification and its end, or the actor was restarted.
EstablishedIsBacked ==
    Undisturbed /\ far =>
        \A w \in remoteWatches : request[w] = "answered" =>
            \/ w \in remoteWatchers /\ actor[Target[w]] \in {"alive", "closing"}
            \/ w \in notices
            \/ w \in late
            \/ actor[Target[w]] \in {"restarting", "replaced"}

\* A watcher is told only of actors that stop, unless a request failed or a
\* node was declared dead.
NoFalseDown ==
    suspicions = 0 /\ far =>
        \A w \in Watches : told[w] > 0 /\ request[w] # "failed"
            => actor[Target[w]] # "alive"

\* Nothing about the watch is under way.
Settled(w) ==
    /\ request[w] # "pending"
    /\ w \notin adds \union removes \union notices
    /\ \A dead \in BOOLEAN : <<w, dead>> \notin replies

\* far keeps no watch that home has given up, unless the request for it failed.
NoOrphans ==
    Undisturbed => \A w \in remoteWatchers :
        Settled(w) /\ request[w] # "failed" => w \in remoteWatches

\* A watch of an actor that stopped or moved, or of a node that crashed, ends,
\* unless it was added too late, or gossip removed the node first.
EndingsReported ==
    \A w \in Watches :
        (w \in remoteWatches /\ (~far \/ actor[Target[w]] \in {"dead", "moved"}))
            ~> (w \notin remoteWatches \/ w \in late \/ ~Undisturbed \/ leaves > 0)

\* "One-shot notification: You receive exactly one `DownMessage` when the
\* watched actor terminates" (README.md:709): no watch of an actor that has
\* stopped is left when nothing is under way.
ToldOfDeath ==
    Undisturbed /\ far =>
        \A w \in remoteWatches : Settled(w) => actor[Target[w]] # "dead"
=============================================================================
