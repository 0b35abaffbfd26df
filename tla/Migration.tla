----------------------------- MODULE Migration -----------------------------
(***************************************************************************)
(* ActorSystem.migrate (src/src/actor_system.ts) and its handlers on the   *)
(* target, over the replicated registry of RegistrySync: one named actor   *)
(* and the copies of it that migrations and restarts make.  Deployments    *)
(* with one LocalRegistry per node are the behaviours in which no registry *)
(* update is ever delivered.                                               *)
(*                                                                         *)
(* A step is a stretch of code without await.  A request may arrive late   *)
(* or never, and the source may give up on an answer at any time.  The     *)
(* class of the actor is registered on every node, and the actor is        *)
(* Migratable and has no children.                                         *)
(***************************************************************************)
EXTENDS RegistrySync

CONSTANTS
    Name,           \* the name of the actor
    Home,           \* the node it was spawned on
    Msgs, NoMsg,    \* messages, each sent at most once
    MaxCopies,      \* bound of the model: instances of the actor
    MaxMigrations,  \* bound of the model: calls of migrate
    MaxEvents       \* bound of the model: migrations, stops and restarts in all

ASSUME MigrationAssumption ==
    /\ Name \in Names /\ Home \in Nodes
    /\ NoMsg \notin Msgs
    /\ MaxCopies \in Nat \ {0}
    /\ {MaxMigrations, MaxEvents} \subseteq Nat

Copies == 1..MaxCopies
Migrations == 1..MaxMigrations

VARIABLES
    copies,       \* the instances: where, whether in `actors`, mailbox, state
    named,        \* the instance each node registered last
    migrations,   \* the locals of each migrate()
    requests,     \* requests of each migration on their way to the target
    reply,        \* the answer on its way to the source, if it still waits
    reservation,  \* the name reservation on the target
    stops,        \* stops and restarts so far
    did,          \* history: the messages each copy handled itself
    direct,       \* history: those it got past its mailbox, handled or being handled
    gaveUp,       \* history: migrations whose execute request failed
    undone,       \* history: those rolled back on the target before it confirmed
    quiet,        \* history: migrations whose drain did not time out
    overlapped    \* history: two migrations of one copy were under way at once

registry == <<localClock, registrations, hosted, wire, counters, named>>
protocol == <<migrations, requests, reply, reservation>>
history  == <<did, direct, gaveUp, undone, quiet, overlapped>>

migrationVars == <<registry, copies, protocol, stops, history>>

Unused == [node |-> Home, status |-> "unused", paused |-> FALSE,
           mailbox |-> <<>>, busy |-> NoMsg, state |-> {}]

Idle == [phase |-> "idle", from |-> Home, to |-> Home, src |-> 1, new |-> 0,
         pending |-> <<>>, state |-> {}]

\* actors.has(id): a copy under construction, or left behind by a failed one, too.
Present(c) == copies[c].status \in {"building", "live", "stopping", "broken"}

\* Copies whose references somebody may hold.
Reachable(c) == copies[c].status \in {"live", "stopping"}

\* Whether another copy is within the bound, and one.
Room == \E c \in Copies : copies[c].status = "unused"
Fresh == CHOOSE c \in Copies : copies[c].status = "unused"

Events == stops + Cardinality({g \in Migrations : migrations[g].phase # "idle"})

UnderWay(g) == migrations[g].phase \notin {"idle", "moved", "failed"}

----------------------------------------------------------------------------
(* The registry, as migrate and its handlers use it *)

\* register(): the node's clock ticks and the registration is published.
Registers(clocks, held, n) ==
    LET clock == increment(clocks[n], n)
    IN  \E generation \in Generations :
          LET reg == [node |-> n, generation |-> generation, vectorClock |-> clock]
          IN  /\ localClock' = [clocks EXCEPT ![n] = clock]
              /\ registrations' = [held EXCEPT ![n][Name] = reg]
              /\ wire' = Published(n, <<[type |-> "register", name |-> Name,
                                         registration |-> reg]>>)
              /\ UNCHANGED <<hosted, counters>>

\* unregister(): whatever the node holds under the name is withdrawn.
Unregisters(n) ==
    LET existing == registrations[n][Name]
        clock    == increment(localClock[n], n)
    IN  /\ IF existing = None
           THEN UNCHANGED <<localClock, registrations, wire>>
           ELSE /\ localClock' = [localClock EXCEPT ![n] = clock]
                /\ registrations' = [registrations EXCEPT ![n][Name] = None]
                /\ wire' = Published(n,
                      <<[type |-> "unregister", name |-> Name,
                         registration |-> [existing EXCEPT !.vectorClock = clock]]>>)
        /\ UNCHANGED <<hosted, counters, named>>

\* reserveName(): refused when another node is known to have the name.  The
\* reservations of a node are all its own, so they never exclude each other.
reserveName(n) ==
    registrations[n][Name] = None \/ registrations[n][Name].node = n

----------------------------------------------------------------------------
(* The actor's copies *)

MigrationInit ==
    /\ localClock = [n \in Nodes |-> NoTicks]
    /\ registrations = [n \in Nodes |-> [a \in Names |-> None]]
    /\ hosted = [n \in Nodes |-> {}]
    /\ wire = [p \in Nodes |-> [s \in Nodes |-> <<>>]]
    /\ republished = 0 /\ lost = 0 /\ leaves = 0
    /\ named = [n \in Nodes |-> 0]
    /\ copies = [c \in Copies |-> Unused]
    /\ migrations = [g \in Migrations |-> Idle]
    /\ requests = [g \in Migrations |-> <<>>]
    /\ reply = [g \in Migrations |-> "none"]
    /\ reservation = [g \in Migrations |-> "none"]
    /\ stops = 0
    /\ did = [c \in Copies |-> {}] /\ direct = [c \in Copies |-> {}]
    /\ gaveUp = {} /\ undone = {} /\ quiet = {} /\ overlapped = FALSE

Spawned(at) == [Unused EXCEPT !.node = at, !.status = "live"]

spawn ==
    /\ copies[1].status = "unused"
    /\ copies' = [copies EXCEPT ![1] = Spawned(Home)]
    /\ named' = [named EXCEPT ![Home] = 1]
    /\ Registers(localClock, registrations, Home)
    /\ UNCHANGED <<protocol, stops, history>>

\* Messages that some copy was ever given.
Sent == {m \in Msgs :
            \/ \E c \in Copies : \/ m \in did[c] \/ m \in direct[c] \/ m = copies[c].busy
                                \/ m \in Range(copies[c].mailbox)
            \/ \E g \in Migrations : m \in Range(migrations[g].pending)}

\* dispatchCast: also to a paused mailbox.
cast(c, m) ==
    /\ Reachable(c) /\ m \notin Sent
    /\ copies' = [copies EXCEPT ![c].mailbox = Append(@, m)]
    /\ UNCHANGED <<registry, protocol, stops, history>>

\* processMailbox takes a message.
Handle(c) ==
    /\ Reachable(c) /\ ~copies[c].paused
    /\ copies[c].busy = NoMsg /\ copies[c].mailbox # <<>>
    /\ copies' = [copies EXCEPT ![c].busy = Head(copies[c].mailbox),
                                ![c].mailbox = Tail(@)]
    /\ UNCHANGED <<registry, protocol, stops, history>>

\* Its handler ends; the actor may be gone by now.
Handled(c) ==
    LET m == copies[c].busy
    IN  /\ m # NoMsg
        /\ copies' = [copies EXCEPT ![c].busy = NoMsg, ![c].state = @ \union {m}]
        /\ did' = [did EXCEPT ![c] = @ \union {m}]
        /\ UNCHANGED <<registry, protocol, stops, direct, gaveUp, undone, quiet, overlapped>>

\* A cast or call from another node: its handler runs at once, on a paused actor
\* too and whatever else is running there.  So does a call of the fast path
\* beside which a pending callback runs the mailbox (ActorMailbox).
handleRpc(c, m) ==
    /\ Reachable(c) /\ m \notin Sent
    /\ direct' = [direct EXCEPT ![c] = @ \union {m}]
    /\ UNCHANGED <<registry, copies, protocol, stops, did, gaveUp, undone, quiet,
                   overlapped>>

\* Its handler ends; nothing has waited for it.
RpcHandled(c, m) ==
    /\ m \in direct[c] \ did[c]
    /\ copies' = [copies EXCEPT ![c].state = @ \union {m}]
    /\ did' = [did EXCEPT ![c] = @ \union {m}]
    /\ UNCHANGED <<registry, protocol, stops, direct, gaveUp, undone, quiet, overlapped>>

\* stopSingle up to the await of terminate.
stop(c) ==
    /\ copies[c].status = "live" /\ Events < MaxEvents
    /\ stops' = stops + 1
    /\ copies' = [copies EXCEPT ![c].status = "stopping"]
    /\ Unregisters(copies[c].node)
    /\ UNCHANGED <<protocol, history>>

\* The rest of it; a restart then spawns the actor anew under its name.
StopEnds(c) ==
    LET n == copies[c].node
        stopped == [copies EXCEPT ![c].status = "gone"]
    IN  /\ copies[c].status = "stopping"
        /\ \/ /\ copies' = stopped
              /\ UNCHANGED registry
           \/ /\ Room
              /\ copies' = [stopped EXCEPT ![Fresh] = Spawned(n)]
              /\ named' = [named EXCEPT ![n] = Fresh]
              /\ Registers(localClock, registrations, n)
        /\ UNCHANGED <<protocol, stops, history>>

----------------------------------------------------------------------------
(* migrate(), on the source *)

Phase(g, p) == [migrations EXCEPT ![g].phase = p]

\* The request goes out; the answer to an earlier one is not waited for.
Request(g, type) ==
    /\ requests' = [requests EXCEPT ![g] = Append(@, type)]
    /\ reply' = [reply EXCEPT ![g] = "none"]

\* resumeMailbox
resumeMailbox(c) == [copies EXCEPT ![c].paused = @ /\ ~Present(c)]

\* Mutant of injectAndResume: only the messages go back.
injectOnly(g) ==
    LET c == migrations[g].src
    IN  [copies EXCEPT ![c].mailbox = IF Present(c) THEN migrations[g].pending \o @ ELSE @]

\* Mutant of injectAndResume: the mailbox is resumed without the messages.
resumeOnly(g) == resumeMailbox(migrations[g].src)

\* injectMessages and resumeMailbox of a migration that failed.
injectAndResume(g) ==
    LET c == migrations[g].src
    IN  [resumeMailbox(c) EXCEPT ![c].mailbox =
            IF Present(c) THEN migrations[g].pending \o @ ELSE @]

\* The checks, pauseMailbox, and the prepare request.  Nothing tells migrate
\* that another migration of the actor is under way.
migrate(g, n, target) ==
    LET c == named[n]
    IN  /\ migrations[g].phase = "idle" /\ Events < MaxEvents
        /\ \A h \in Migrations : h < g => migrations[h].phase # "idle"
        /\ target # n
        /\ registrations[n][Name] # None /\ registrations[n][Name].node = n
        /\ Present(c)
        /\ copies' = [copies EXCEPT ![c].paused = TRUE]
        /\ migrations' = [migrations EXCEPT ![g] =
              [@ EXCEPT !.phase = "preparing", !.from = n, !.to = target, !.src = c]]
        /\ Request(g, "prepare")
        /\ overlapped' = (overlapped \/ \E h \in Migrations : UnderWay(h)
                                                             /\ migrations[h].src = c)
        /\ UNCHANGED <<registry, reservation, stops, did, direct, gaveUp, undone, quiet>>

\* The prepare request is refused, fails or is not answered in time.
PrepareFails(g) ==
    /\ migrations[g].phase = "preparing" /\ reply[g] # "ready"
    /\ migrations' = Phase(g, "failed")
    /\ copies' = resumeMailbox(migrations[g].src)
    /\ reply' = [reply EXCEPT ![g] = "none"]
    /\ UNCHANGED <<registry, requests, reservation, stops, history>>

\* drainMailbox begins; there is nothing to drain when the actor has gone.
PrepareSucceeds(g) ==
    /\ migrations[g].phase = "preparing" /\ reply[g] = "ready"
    /\ reply' = [reply EXCEPT ![g] = "none"]
    /\ IF Present(migrations[g].src)
       THEN /\ migrations' = Phase(g, "draining")
            /\ copies' = [copies EXCEPT ![migrations[g].src].paused = TRUE]
            /\ UNCHANGED quiet
       ELSE /\ migrations' = Phase(g, "serializing")
            /\ quiet' = IF copies[migrations[g].src].busy = NoMsg
                        THEN quiet \union {g} ELSE quiet
            /\ UNCHANGED copies
    /\ UNCHANGED <<registry, requests, reservation, stops, did, direct, gaveUp, undone,
                   overlapped>>

\* No handler is running, or the drain's timeout is over.
drainMailbox(g) ==
    LET c == migrations[g].src
    IN  /\ migrations[g].phase = "draining"
        /\ migrations' = [migrations EXCEPT ![g].phase = "serializing",
                                            ![g].pending = copies[c].mailbox]
        /\ copies' = [copies EXCEPT ![c].mailbox = <<>>]
        /\ quiet' = IF copies[c].busy = NoMsg THEN quiet \union {g} ELSE quiet
        /\ UNCHANGED <<registry, requests, reply, reservation, stops, did, direct,
                       gaveUp, undone, overlapped>>

\* _getStateWithTimeout, then the execute request.
GetState(g) ==
    /\ migrations[g].phase = "serializing"
    /\ migrations' = [migrations EXCEPT ![g].phase = "executing",
                         ![g].state = copies[migrations[g].src].state]
    /\ Request(g, "execute")
    /\ UNCHANGED <<registry, copies, reservation, stops, history>>

\* getState throws or times out: the target is asked to roll back.
GetStateFails(g) ==
    /\ migrations[g].phase = "serializing"
    /\ migrations' = Phase(g, "rollingBack")
    /\ Request(g, "rollback")
    /\ UNCHANGED <<registry, copies, reservation, stops, history>>

\* The execute request fails or times out, whatever the target does with it.
ExecuteFails(g) ==
    /\ migrations[g].phase = "executing" /\ reply[g] = "none"
    /\ migrations' = Phase(g, "rollingBack")
    /\ Request(g, "rollback")
    /\ gaveUp' = gaveUp \union {g}
    /\ UNCHANGED <<registry, copies, reservation, stops, did, direct, undone, quiet,
                   overlapped>>

\* The rollback was answered, failed or timed out; or execute was refused.
RolledBack(g) ==
    /\ \/ migrations[g].phase = "rollingBack"
       \/ migrations[g].phase = "executing" /\ reply[g] = "failure"
    /\ migrations' = Phase(g, "failed")
    /\ copies' = injectAndResume(g)
    /\ reply' = [reply EXCEPT ![g] = "none"]
    /\ UNCHANGED <<registry, requests, reservation, stops, history>>

\* The target has the actor: registry.unregister.
ExecuteSucceeds(g) ==
    /\ migrations[g].phase = "executing" /\ reply[g] = "success"
    /\ migrations' = Phase(g, "unregistering")
    /\ reply' = [reply EXCEPT ![g] = "none"]
    /\ Unregisters(migrations[g].from)
    /\ UNCHANGED <<copies, requests, reservation, stops, history>>

\* _cleanupActorForMigration, with whatever the mailbox has got by now.
cleanupActorForMigration(g) ==
    /\ migrations[g].phase = "unregistering"
    /\ migrations' = Phase(g, "moved")
    /\ copies' = [copies EXCEPT ![migrations[g].src].status = "gone",
                                ![migrations[g].src].paused = FALSE]
    /\ UNCHANGED <<registry, requests, reply, reservation, stops, history>>

----------------------------------------------------------------------------
(* The target *)

Arrives(g, type) ==
    /\ requests[g] # <<>> /\ Head(requests[g]) = type
    /\ requests' = [requests EXCEPT ![g] = Tail(@)]

\* An answer nobody waits for any more is dropped.
Answer(g, phase, answer) ==
    reply' = IF migrations[g].phase = phase THEN [reply EXCEPT ![g] = answer] ELSE reply

handleMigratePrepare(g) ==
    LET ok == reserveName(migrations[g].to)
    IN  /\ Arrives(g, "prepare")
        /\ reservation' = IF ok THEN [reservation EXCEPT ![g] = "held"] ELSE reservation
        /\ Answer(g, "preparing", IF ok THEN "ready" ELSE "refused")
        /\ UNCHANGED <<registry, copies, migrations, stops, history>>

\* The instance is in `actors` before init and setState are awaited.
handleMigrateExecute(g) ==
    /\ Room
    /\ Arrives(g, "execute")
    /\ copies' = [copies EXCEPT ![Fresh] = [Unused EXCEPT !.node = migrations[g].to,
                                                          !.status = "building"]]
    /\ migrations' = [migrations EXCEPT ![g].new = Fresh]
    /\ UNCHANGED <<registry, reply, reservation, stops, history>>

Building(g) == migrations[g].new # 0 /\ copies[migrations[g].new].status = "building"

\* Mutant of confirmReservation: setState is forgotten.
confirmStateless(g) ==
    LET c == migrations[g].new
        n == migrations[g].to
    IN  /\ Building(g) /\ reservation[g] = "held"
        /\ copies' = [copies EXCEPT ![c].status = "live",
                         ![c].mailbox = migrations[g].pending]
        /\ named' = [named EXCEPT ![n] = c]
        /\ reservation' = [reservation EXCEPT ![g] = "confirmed"]
        /\ Registers(localClock, registrations, n)
        /\ Answer(g, "executing", "success")
        /\ UNCHANGED <<migrations, requests, stops, history>>

\* init and setState have returned: the messages are injected and the name is
\* confirmed, or the instance is removed again before it has handled any.
confirmReservation(g) ==
    LET c == migrations[g].new
        n == migrations[g].to
    IN  /\ Building(g)
        /\ \/ /\ reservation[g] = "held"
              /\ copies' = [copies EXCEPT ![c].status = "live",
                               ![c].state = migrations[g].state,
                               ![c].mailbox = migrations[g].pending]
              /\ named' = [named EXCEPT ![n] = c]
              /\ reservation' = [reservation EXCEPT ![g] = "confirmed"]
              /\ Registers(localClock, registrations, n)
              /\ Answer(g, "executing", "success")
           \/ /\ reservation[g] # "held"
              /\ copies' = [copies EXCEPT ![c].status = "gone"]
              /\ Answer(g, "executing", "failure")
              /\ UNCHANGED <<registry, reservation>>
        /\ UNCHANGED <<migrations, requests, stops, history>>

Released(g) == [reservation EXCEPT ![g] = IF @ = "held" THEN "none" ELSE @]

\* init or setState throws: the reservation goes, the instance stays behind.
ExecuteThrows(g) ==
    /\ Building(g)
    /\ copies' = [copies EXCEPT ![migrations[g].new].status = "broken"]
    /\ reservation' = Released(g)
    /\ Answer(g, "executing", "failure")
    /\ UNCHANGED <<registry, migrations, requests, stops, history>>

\* Mutant of handleMigrateRollback: the reservation is kept.
handleRollbackKeeps(g) ==
    /\ Arrives(g, "rollback")
    /\ undone' = IF reservation[g] = "confirmed" THEN undone ELSE undone \union {g}
    /\ UNCHANGED <<registry, copies, migrations, reply, reservation, stops, did, direct,
                   gaveUp, quiet, overlapped>>

handleMigrateRollback(g) ==
    /\ Arrives(g, "rollback")
    /\ reservation' = Released(g)
    /\ undone' = IF reservation[g] = "confirmed" THEN undone ELSE undone \union {g}
    /\ UNCHANGED <<registry, copies, migrations, reply, stops, did, direct, gaveUp,
                   quiet, overlapped>>

\* The reservation's time to live is over.
Expires(g) ==
    /\ reservation[g] = "held"
    /\ reservation' = Released(g)
    /\ UNCHANGED <<registry, copies, migrations, requests, reply, stops, history>>

\* A registry update is delivered.
RegistryUpdate(p, s) ==
    /\ handleRegistryUpdate(p, s)
    /\ UNCHANGED <<named, copies, protocol, stops, history>>

----------------------------------------------------------------------------
SourceStep(g) ==
    \/ PrepareFails(g) \/ PrepareSucceeds(g) \/ drainMailbox(g)
    \/ GetState(g) \/ GetStateFails(g) \/ ExecuteFails(g)
    \/ RolledBack(g) \/ ExecuteSucceeds(g) \/ cleanupActorForMigration(g)

TargetStep(g) ==
    \/ handleMigratePrepare(g) \/ handleMigrateExecute(g) \/ confirmReservation(g)
    \/ ExecuteThrows(g) \/ handleMigrateRollback(g) \/ Expires(g)

MigrationNext ==
    \/ spawn
    \/ \E c \in Copies :
          \/ \E m \in Msgs : cast(c, m) \/ handleRpc(c, m) \/ RpcHandled(c, m)
          \/ Handle(c) \/ Handled(c) \/ stop(c) \/ StopEnds(c)
    \/ \E g \in Migrations :
          \/ \E n, target \in Nodes : migrate(g, n, target)
          \/ SourceStep(g) \/ TargetStep(g)
    \/ \E p, s \in Nodes : RegistryUpdate(p, s)

(* Every await of migrate() ends: each has a timeout of its own.  A loop    *)
(* runs, and the actor's handlers return.                                  *)
MigrationSpec ==
    /\ MigrationInit /\ [][MigrationNext]_migrationVars
    /\ \A g \in Migrations : WF_migrationVars(SourceStep(g))
    /\ \A c \in Copies : WF_migrationVars(Handle(c) \/ Handled(c))

----------------------------------------------------------------------------
(* Properties *)

\* Two copies handle the same message only after the source gave up on an
\* execute request that the target completed, and then only if the rollback
\* did not reach the target before it confirmed the name: an expired or
\* released reservation keeps the second copy from ever running.
HandledOnce ==
    \A m \in Msgs : \A b, c \in Copies :
        b # c /\ m \in did[b] /\ m \in did[c] =>
            \E g \in gaveUp \ undone : /\ m \in Range(migrations[g].pending)
                                       /\ reservation[g] = "confirmed"

\* The new copy has the state that was captured, and in it whatever the old one
\* has handled from its mailbox, unless the drain gave up on a running handler
\* or two migrations overlapped.  Of the messages handled past the mailbox, those
\* whose handlers end after the state is captured are lost with the old copy.
StateCarried ==
    ~overlapped =>
        \A g \in quiet : migrations[g].phase \in {"unregistering", "moved"} =>
            LET old == migrations[g].src
            IN  migrations[g].state \union (did[old] \ direct[old])
                    \subseteq copies[migrations[g].new].state

\* "... migrated between nodes while preserving their state" (README.md:2132)
\* is not so of what other nodes' casts and calls do to the old copy until it
\* is removed.
AllStateCarried ==
    ~overlapped =>
        \A g \in quiet : migrations[g].phase \in {"unregistering", "moved"} =>
            did[migrations[g].src] \subseteq copies[migrations[g].new].state

\* No way out of migrate() leaves an actor paused: a paused mailbox has a
\* migration under way that will resume or remove it.
NotLeftPaused ==
    \A c \in Copies : Present(c) /\ copies[c].paused =>
        \E g \in Migrations : UnderWay(g) /\ migrations[g].src = c

\* "preserving their state and pending messages" (README.md:2132): every
\* message that a migration drains is handled in the end, by the old or by the
\* new copy, whatever fails on the way, unless the actor is stopped or two
\* migrations overlap.
DrainedAreHandled ==
    \A m \in Msgs :
        (\E g \in Migrations : m \in Range(migrations[g].pending))
            ~> (stops > 0 \/ overlapped \/ \E c \in Copies : m \in did[c])

=============================================================================
