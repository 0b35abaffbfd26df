------------------------------- MODULE Links -------------------------------
(***************************************************************************)
(* Links between actors of two nodes, and watches within a node: link,     *)
(* unlink, exit signals, the propagation of crashes and of migrations, and *)
(* the messages link:add, link:remove, link:exit and link:moved            *)
(* (src/src/actor_system.ts, with handleCrash of supervisor.ts).           *)
(*                                                                         *)
(* The node of a link's first actor, the linker, keeps the link (links when*)
(* the other actor is on the same node, remoteLinks otherwise); the node of*)
(* a remote linked actor keeps it in remoteLinkers.  Propagation is        *)
(* synchronous: one crash runs through all local links in one step.        *)
(*                                                                         *)
(* Messages from one node to the other about one link keep their order;    *)
(* replies come over another socket than messages.                         *)
(***************************************************************************)
EXTENDS Integers, Sequences, FiniteSets, SequencesExt

CONSTANTS
    Actors, NodeOf,          \* the actors, all root actors, and their nodes
    Links, Linker, Linked,   \* link references, used once, and their actors
    Watches, Watcher, Watched,   \* watches, of two actors of the same node
    MaxRestarts,             \* maxRestarts of the Supervisor
    TrapSets,                \* the sets of actors that may trap exits
    MaxFaults,               \* bound of the model: losses, timeouts, failures
    MaxEvents                \* bound of the model: crashes, stops, exit signals,
                             \* migrations and faults together

ASSUME LinksAssumption ==
    /\ Linker \in [Links -> Actors] /\ Linked \in [Links -> Actors]
    /\ \A l \in Links : Linker[l] # Linked[l]
    /\ Watcher \in [Watches -> Actors] /\ Watched \in [Watches -> Actors]
    /\ \A v \in Watches : NodeOf[Watcher[v]] = NodeOf[Watched[v]]
    /\ TrapSets \subseteq SUBSET Actors
    /\ {MaxRestarts, MaxFaults, MaxEvents} \subseteq Nat

Nodes == {NodeOf[a] : a \in Actors}
IsRemote(l) == NodeOf[Linker[l]] # NodeOf[Linked[l]]
Ends(l) == {Linker[l], Linked[l]}
Other(l, a) == IF Linker[l] = a THEN Linked[l] ELSE Linker[l]

VARIABLES
    policy,      \* the strategy of the Supervisor
    trapExit,    \* the actors whose context.trapExit is set
    s,           \* the tables of both nodes, see Init
    request,     \* the state of each link:add
    up,          \* the nodes that are up
    unlinked,    \* history: links removed by unlink
    late,        \* history: links and watches made to an actor that was ending
    crashes, faults

vars == <<policy, trapExit, s, request, up, unlinked, late, crashes, faults>>

More == crashes + faults < MaxEvents
MoreFaults == More /\ faults < MaxFaults

\* Still in actors: "ending" is a stop or stopSingle that awaits terminate.
Present(st, a) == st.state[a] # "gone"

\* reason: "normal", or "abnormal" for error and killed.
Message(type, l, to, reason) == [type |-> type, link |-> l, to |-> to, reason |-> reason]

Init ==
    /\ policy \in {"Restart", "Stop"}
    /\ trapExit \in TrapSets
    /\ s = [state |-> [a \in Actors |-> "live"],
            count |-> [a \in Actors |-> 0],            \* Supervisor.restartCounts
            links |-> {}, remoteLinks |-> {}, remoteLinkers |-> {},
            linkedWith |-> [a \in Actors |-> <<>>],
            context |-> [a \in Actors |-> {}],         \* context.links
            watches |-> {},                            \* watches and watchedBy
            wire |-> {},
            todo |-> <<>>,                             \* the propagation under way
            told |-> [l \in Links |-> [a \in Actors |-> 0]],   \* history: EXIT, MOVED
            down |-> [v \in Watches |-> 0],            \* history: DOWN, MOVED
            owed |-> {}]           \* history: <<l, a>>, a is to hear of a crash over l
    /\ request = [l \in Links |-> "none"]
    /\ up = Nodes
    /\ unlinked = {} /\ late = {}
    /\ crashes = 0 /\ faults = 0

----------------------------------------------------------------------------
(* unlink, unwatch and what a propagation does, as functions of the tables. *)

Forget(st, l, as) ==
    [st EXCEPT !.linkedWith = [a \in Actors |-> IF a \in as THEN SelectSeq(@[a], LAMBDA k : k # l) ELSE @[a]],
               !.context = [a \in Actors |-> IF a \in as THEN @[a] \ {l} ELSE @[a]]]

\* Mutant: the other node is not told.
unlinkSilently(st, l) ==
    IF l \in st.remoteLinks
    THEN [Forget(st, l, {Linker[l]}) EXCEPT !.remoteLinks = @ \ {l}]
    ELSE IF l \in st.links THEN [Forget(st, l, Ends(l)) EXCEPT !.links = @ \ {l}]
    ELSE st

unlink(st, l) ==
    IF l \in st.remoteLinks
    THEN [Forget(st, l, {Linker[l]}) EXCEPT !.remoteLinks = @ \ {l},
              !.wire = @ \cup {Message("remove", l, "linked", "normal")}]
    ELSE IF l \in st.links THEN [Forget(st, l, Ends(l)) EXCEPT !.links = @ \ {l}]
    ELSE st

\* unlink of all the links ls of a.
unlinkAll(st, a, ls) ==
    [st EXCEPT !.links = @ \ ls, !.remoteLinks = @ \ ls,
               !.linkedWith = [b \in Actors |-> SelectSeq(@[b], LAMBDA l : l \notin ls)],
               !.context = [b \in Actors |-> @[b] \ ls],
               !.wire = @ \cup {Message("remove", l, "linked", "normal") : l \in ls \cap st.remoteLinks}]

unwatchOf(st, a) == [st EXCEPT !.watches = {v \in @ : Watcher[v] # a}]

\* notifyWatchers: a DOWN for each watcher that is there, and the watch ends.
notifyWatchers(st, a) ==
    [st EXCEPT !.watches = {v \in @ : Watched[v] # a},
               !.down = [v \in Watches |-> IF v \in st.watches /\ Watched[v] = a /\ Present(st, Watcher[v])
                                           THEN @[v] + 1 ELSE @[v]]]

\* The items of a propagation: one link of an actor that ends, its remote
\* linkers, the crash of an actor, the stop that follows.
LinkItem(a, l, reason) == [what |-> "link", actor |-> a, link |-> {l}, reason |-> reason]
Item(what, a, reason) == [what |-> what, actor |-> a, link |-> {}, reason |-> reason]

\* notifyLinkedActors: the links as they are now, then the remote linkers.
notifyLinkedActors(st, a, reason) ==
    LET ls == st.linkedWith[a]
    IN  [k \in DOMAIN ls |-> LinkItem(a, ls[k], reason)] \o <<Item("linkers", a, reason)>>

\* The actor a has lost its link l: trapExit, or the crash goes on.
Lost(st, l, a, reason) ==
    IF ~Present(st, a) THEN st
    ELSE IF a \in trapExit THEN [st EXCEPT !.told[l][a] = @ + 1]
    ELSE IF reason = "normal" THEN st
    ELSE [st EXCEPT !.todo = <<Item("crash", a, reason)>> \o @]

\* _notifyLocalLinkedActors, one link.  A link that is gone meanwhile is skipped.
notifyLocalLink(st, a, l, reason) ==
    IF l \in st.links THEN Lost(unlink(st, l), l, Other(l, a), reason)
    ELSE IF l \in st.remoteLinks
    THEN [Forget(st, l, {a}) EXCEPT !.remoteLinks = @ \ {l},
              !.wire = @ \cup {Message("exit", l, "linked", reason)}]
    ELSE st

\* Mutant: the remote linkers are forgotten and not told.
notifyRemoteLinkersSilently(st, a, type, reason) ==
    [st EXCEPT !.remoteLinkers = {l \in @ : Linked[l] # a}]

\* _notifyRemoteLinkers, _notifyRemoteLinkersOfMigration
notifyRemoteLinkers(st, a, type, reason) ==
    LET ls == {l \in st.remoteLinkers : Linked[l] = a}
    IN  [st EXCEPT !.remoteLinkers = @ \ ls,
                   !.wire = @ \cup {Message(type, l, "linker", reason) : l \in ls}]

\* The links over which a crash of a is to be heard of, and by whom.
Owed(st, a) ==
    {<<l, Other(l, a)>> : l \in {k \in st.links \cup st.remoteLinks : a = Linker[k]}
                               \cup {k \in st.links \cup st.remoteLinkers : a = Linked[k]}}

\* stop, up to the await of terminate.
Stop(st, a) ==
    [notifyWatchers(unwatchOf(st, a), a)
        EXCEPT !.state[a] = "ending", !.todo = notifyLinkedActors(st, a, "normal") \o @]

\* stopSingle: watchers and linked actors are not notified, the links just end.
stopSingle(st, a) ==
    [unlinkAll(unwatchOf(st, a), a, st.context[a]) EXCEPT !.state[a] = "ending"]

\* handleCrash of a root actor: restart, or the end (strategy Stop, or killed
\* when maxRestarts is reached).
handleCrash(st, a) ==
    IF policy = "Restart" /\ st.count[a] < MaxRestarts
    THEN stopSingle([st EXCEPT !.count[a] = @ + 1], a)
    ELSE [notifyWatchers(st, a)
             EXCEPT !.count[a] = 0, !.owed = @ \cup Owed(st, a),
                    !.todo = notifyLinkedActors(st, a, "abnormal") \o <<Item("stop", a, "normal")>> \o @]

Step(st) ==
    LET i == Head(st.todo)
        rest == [st EXCEPT !.todo = Tail(@)]
    IN  CASE i.what = "link"    -> LET l == CHOOSE k \in i.link : TRUE
                                   IN  notifyLocalLink(rest, i.actor, l, i.reason)
          [] i.what = "linkers" -> notifyRemoteLinkers(rest, i.actor, "exit", i.reason)
          [] i.what = "crash"   -> handleCrash(rest, i.actor)
          [] i.what = "stop"    -> Stop(rest, i.actor)

\* A crash runs through the links; Fuel steps are enough for it to end.
Fuel == 4 * (Cardinality(Links) + Cardinality(Actors))
Propagate(st) ==
    LET after[n \in 0..Fuel] == IF n = 0 THEN st
                                ELSE LET t == after[n - 1] IN IF t.todo = <<>> THEN t ELSE Step(t)
    IN  IF st.todo = <<>> THEN st ELSE after[Fuel]

\* _handleRemoteLinkExit at the linker's node.
handleRemoteLinkExit(st, l, reason) ==
    IF l \notin st.remoteLinks THEN st
    ELSE Lost([Forget(st, l, {Linker[l]}) EXCEPT !.remoteLinks = @ \ {l}], l, Linker[l], reason)

----------------------------------------------------------------------------
(* The actors.                                                             *)

Here(a) == Present(s, a) /\ NodeOf[a] \in up

link(l) ==
    /\ request[l] = "none" /\ Here(Linker[l])
    /\ ~IsRemote(l) => Here(Linked[l])
    /\ request' = [request EXCEPT ![l] = IF IsRemote(l) THEN "pending" ELSE "answered"]
    /\ LET as == IF IsRemote(l) THEN {Linker[l]} ELSE Ends(l)
           st == [s EXCEPT !.linkedWith = [a \in Actors |-> IF a \in as THEN Append(@[a], l) ELSE @[a]],
                           !.context = [a \in Actors |-> IF a \in as THEN @[a] \cup {l} ELSE @[a]]]
       IN  /\ s' = IF IsRemote(l)
                   THEN [st EXCEPT !.remoteLinks = @ \cup {l},
                                   !.wire = @ \cup {Message("add", l, "linked", "normal")}]
                   ELSE [st EXCEPT !.links = @ \cup {l}]
           /\ late' = IF \E a \in as : s.state[a] = "ending" THEN late \cup {l} ELSE late
    /\ UNCHANGED <<policy, trapExit, up, unlinked, crashes, faults>>

Unlink(l) ==
    /\ l \in s.links \cup s.remoteLinks /\ NodeOf[Linker[l]] \in up
    /\ s' = unlink(s, l)
    /\ unlinked' = unlinked \cup {l}
    /\ UNCHANGED <<policy, trapExit, request, up, late, crashes, faults>>

\* watch: the watch of an actor that is gone is answered at once, and kept.
watch(v) ==
    /\ v \notin s.watches /\ s.down[v] = 0 /\ v \notin late /\ Here(Watcher[v])
    /\ s' = [s EXCEPT !.watches = @ \cup {v},
                      !.down[v] = IF Present(s, Watched[v]) THEN @ ELSE @ + 1]
    /\ late' = IF s.state[Watched[v]] = "ending" THEN late \cup {v} ELSE late
    /\ UNCHANGED <<policy, trapExit, request, up, unlinked, crashes, faults>>

unwatch(v) ==
    /\ v \in s.watches /\ Here(Watcher[v])
    /\ s' = [s EXCEPT !.watches = @ \ {v}]
    /\ UNCHANGED <<policy, trapExit, request, up, unlinked, late, crashes, faults>>

Happens(a) ==
    /\ Here(a) /\ More
    /\ crashes' = crashes + 1
    /\ UNCHANGED <<policy, trapExit, request, up, unlinked, late, faults>>

\* A handler of a throws, or a gets an exit signal other than kill.
Crash(a) == Happens(a) /\ s' = Propagate(handleCrash(s, a))

sendExit(a) ==
    /\ Happens(a)
    /\ s' = IF a \in trapExit THEN s ELSE Propagate(handleCrash(s, a))

\* stop, or the exit signal kill.
stop(a) == Happens(a) /\ s' = Propagate(Stop(s, a))

\* The end of migrate: watchers and linked actors are told, the actor is removed.
\* A link that the actor has to the other node ends without a message.
migrate(a) ==
    LET ls == ToSet(s.linkedWith[a])
        watched == notifyWatchers(s, a)
    IN  /\ Happens(a)
        /\ s' = [notifyRemoteLinkers(watched, a, "moved", "normal")
                   EXCEPT !.links = @ \ ls, !.remoteLinks = @ \ ls,
                          !.linkedWith = [b \in Actors |-> SelectSeq(@[b], LAMBDA l : l \notin ls)],
                          !.context = [b \in Actors |-> IF b = a THEN @[b] ELSE @[b] \ ls],
                          !.told = [l \in Links |-> [b \in Actors |->
                                      IF l \in ls \cap s.links /\ b = Other(l, a) /\ Present(s, b)
                                      THEN @[l][b] + 1 ELSE @[l][b]]],
                          !.state[a] = "gone"]

\* terminate is done: the actor leaves actors.
Terminated(a) ==
    /\ s.state[a] = "ending" /\ NodeOf[a] \in up
    /\ s' = [s EXCEPT !.state[a] = "gone"]
    /\ UNCHANGED <<policy, trapExit, request, up, unlinked, late, crashes, faults>>

----------------------------------------------------------------------------
(* Messages and failures.                                                  *)

Received(m) == [s EXCEPT !.wire = @ \ {m}]

\* A message to the linked actor's node waits for the link:add before it.
Arrives(m, type) ==
    /\ m \in s.wire /\ m.type = type
    /\ NodeOf[IF m.to = "linker" THEN Linker[m.link] ELSE Linked[m.link]] \in up
    /\ type \in {"remove", "exit"} /\ m.to = "linked" =>
          Message("add", m.link, "linked", "normal") \notin s.wire
    /\ UNCHANGED <<policy, trapExit, up, unlinked, crashes, faults>>

\* _handleRemoteLinkAdd: the reply says "abnormal" for alreadyDead.
handleRemoteLinkAdd(m) ==
    LET there == Present(s, Linked[m.link])
    IN  /\ Arrives(m, "add")
        /\ s' = [Received(m) EXCEPT !.remoteLinkers = IF there THEN @ \cup {m.link} ELSE @,
                       !.wire = @ \cup {Message("reply", m.link, "linker",
                                                IF there THEN "normal" ELSE "abnormal")}]
        /\ late' = IF s.state[Linked[m.link]] = "ending" THEN late \cup {m.link} ELSE late
        /\ UNCHANGED request

handleRemoteLinkRemove(m) ==
    /\ Arrives(m, "remove")
    /\ s' = [Received(m) EXCEPT !.remoteLinkers = @ \ {m.link}]
    /\ UNCHANGED <<request, late>>

\* Mutant: what a link:exit ends is not looked up first.
ExitArrivesAlways(m) ==
    /\ Arrives(m, "exit")
    /\ s' = IF m.to = "linked" THEN Received(m)
            ELSE Propagate(Lost([Forget(Received(m), m.link, {Linker[m.link]})
                                    EXCEPT !.remoteLinks = @ \ {m.link}],
                                m.link, Linker[m.link], m.reason))
    /\ UNCHANGED <<request, late>>

\* link:exit.  The linked actor's node has the link in remoteLinkers, not in
\* remoteLinks: there the message does nothing.
ExitArrives(m) ==
    /\ Arrives(m, "exit")
    /\ s' = IF m.to = "linked" THEN Received(m)
            ELSE Propagate(handleRemoteLinkExit(Received(m), m.link, m.reason))
    /\ UNCHANGED <<request, late>>

\* _handleRemoteLinkMoved
MovedArrives(m) ==
    LET l == m.link
        a == Linker[l]
        st == Received(m)
    IN  /\ Arrives(m, "moved")
        /\ s' = IF l \notin st.remoteLinks THEN st
                ELSE [Forget(st, l, {a}) EXCEPT !.remoteLinks = @ \ {l},
                         !.told[l][a] = IF Present(st, a) THEN @ + 1 ELSE @]
        /\ UNCHANGED <<request, late>>

\* The reply to link:add; alreadyDead is a normal exit.
ReplyArrives(m) ==
    /\ Arrives(m, "reply")
    /\ request' = [request EXCEPT ![m.link] = "answered"]
    /\ s' = IF m.reason = "normal" \/ request[m.link] # "pending" THEN Received(m)
            ELSE Propagate(handleRemoteLinkExit(Received(m), m.link, "normal"))
    /\ UNCHANGED late

\* link:add times out or cannot be sent: the linker is told of an error.
RequestFails(l) ==
    /\ request[l] = "pending" /\ NodeOf[Linker[l]] \in up
    /\ MoreFaults \/ NodeOf[Linked[l]] \notin up
    /\ faults' = IF NodeOf[Linked[l]] \in up THEN faults + 1 ELSE faults
    /\ request' = [request EXCEPT ![l] = "failed"]
    /\ s' = Propagate(handleRemoteLinkExit(
                [s EXCEPT !.wire = {m \in @ : ~(m.type = "reply" /\ m.link = l)}], l, "abnormal"))
    /\ UNCHANGED <<policy, trapExit, up, unlinked, late, crashes>>

\* handleNodeFailure at n, about the other node: one link:exit with reason
\* killed for each link to it, and its linkers are forgotten.
handleNodeFailure(n) ==
    LET ls == {l \in s.remoteLinks : NodeOf[Linker[l]] = n}
        others == Nodes \ {n}
    IN  /\ n \in up
        /\ others \cap up = {} \/ MoreFaults
        /\ ls # {} \/ \E l \in s.remoteLinkers : NodeOf[Linked[l]] = n
        /\ faults' = IF others \cap up = {} THEN faults ELSE faults + 1
        /\ s' = FoldLeft(LAMBDA st, l : Propagate(handleRemoteLinkExit(st, l, "abnormal")),
                         [s EXCEPT !.remoteLinkers = {l \in @ : NodeOf[Linked[l]] # n}], SetToSeq(ls))
        /\ UNCHANGED <<policy, trapExit, request, up, unlinked, late, crashes>>

NodeDies(n) ==
    /\ up = Nodes /\ MoreFaults
    /\ up' = up \ {n}
    /\ faults' = faults + 1
    /\ UNCHANGED <<policy, trapExit, s, request, unlinked, late, crashes>>

Lose(m) ==
    /\ m \in s.wire /\ m.type # "reply" /\ MoreFaults
    /\ faults' = faults + 1
    /\ s' = Received(m)
    /\ UNCHANGED <<policy, trapExit, request, up, unlinked, late, crashes>>

Next ==
    \/ \E l \in Links : link(l) \/ Unlink(l) \/ RequestFails(l)
    \/ \E v \in Watches : watch(v) \/ unwatch(v)
    \/ \E a \in Actors : Crash(a) \/ sendExit(a) \/ stop(a) \/ migrate(a) \/ Terminated(a)
    \/ \E m \in s.wire : \/ handleRemoteLinkAdd(m) \/ handleRemoteLinkRemove(m)
                         \/ ExitArrives(m) \/ MovedArrives(m) \/ ReplyArrives(m)
                         \/ Lose(m)
    \/ \E n \in Nodes : handleNodeFailure(n) \/ NodeDies(n)

Spec == Init /\ [][Next]_vars

----------------------------------------------------------------------------
(* Properties.                                                             *)

Quiet == s.wire = {} /\ \A a \in Actors : s.state[a] # "ending"

(* The records of a link agree.  linkedWith holds for every actor the links *)
(* that links and remoteLinks have for it, and an actor that is alive lists *)
(* the same in its context.  Without faults, a remote link that stands and  *)
(* is answered is known to the node of the linked actor while that actor    *)
(* lives, and that node keeps no link of a live linker that has ended.      *)
TablesAgree ==
    /\ \A l \in Links, a \in Actors :
          l \in ToSet(s.linkedWith[a]) <=>
              \/ l \in s.links /\ a \in Ends(l)
              \/ l \in s.remoteLinks /\ a = Linker[l]
    /\ \A a \in Actors : s.state[a] = "live" => s.context[a] = ToSet(s.linkedWith[a])
    /\ faults = 0 => \A l \in Links : IsRemote(l) =>
          /\ l \in s.remoteLinks /\ request[l] = "answered" /\ s.state[Linked[l]] = "live"
                => l \in s.remoteLinkers
          /\ Quiet /\ l \in s.remoteLinkers /\ s.state[Linker[l]] = "live" => l \in s.remoteLinks

\* An actor hears at most once of the end of a link, a watcher at most once of
\* its watch, whichever of exit, reply, timeout, unlink, migration and node
\* failure come first; what an actor has heard of no longer stands.
OneExit ==
    /\ \A l \in Links : \A a \in Actors : s.told[l][a] <= 1
    /\ \A l \in s.links \cup s.remoteLinks : \A a \in Actors : s.told[l][a] = 0
    /\ \A v \in Watches : s.down[v] <= 1

Discharged(l, a) == s.state[a] # "live" \/ s.told[l][a] = 1 \/ l \in unlinked

(* A crash runs through the links of a node and comes to an end, whatever  *)
(* cycles they form (the comment in _notifyLocalLinkedActors).  Without    *)
(* faults, an actor that ends by a crash takes the local actors and the    *)
(* remote linkers linked to it along, or tells them, and its watchers are  *)
(* told.                                                                   *)
CrashesPropagate ==
    /\ s.todo = <<>>
    /\ Quiet /\ faults = 0 =>
          /\ \A o \in s.owed : ~IsRemote(o[1]) \/ o[2] = Linker[o[1]] => Discharged(o[1], o[2])
          /\ \A v \in s.watches \ late :
                s.state[Watched[v]] = "gone" /\ policy = "Stop" => s.down[v] = 1

\* Links are bidirectional: the same for the linked actor of a remote link.
BothWays == Quiet /\ faults = 0 => \A o \in s.owed : Discharged(o[1], o[2])

=============================================================================
