# A TLA+ model of libeam

libeam is an actor library for Node.js in the manner of Erlang/OTP: actors with
mailboxes, supervision, watches and links, and a cluster of nodes that share
actor names, detect each other's failure and migrate actors. This directory
models the parts of it whose correctness depends on the order of events, checks
them with TLC on small instances, and proves the main safety properties with
TLAPS for all values of the constants. Paths below are relative to the
repository; `actor_system.ts` and the like are in its `src/`.

Contents: [inventory](#inventory), [modules](#modules), [runs](#runs),
[fairness](#fairness), [proofs](#proofs), [disagreements](#disagreements),
[what is left out](#not-modelled), [plan](#plan).

## Inventory

| Component | State | Operations | Modelled by |
|---|---|---|---|
| Mailbox ring buffer (`mailbox.ts`) | array, head, tail, count, droppedCount | enqueue, dequeue, unshift, drain, clear, replaceWith, grow | `Mailbox`, `BoundedFifo` |
| Mailbox scheduling (`actor_system.ts`, `actor.ts`) | mailboxes, processingActors, mailboxScheduled, pausedMailboxes, context.stash, context.currentMessage | dispatchCast, dispatchCall (queued and fast path), scheduleProcessMailbox, processMailbox, stash, unstash, stop, migrate (source side) | `ActorMailbox` |
| Vector clocks (`vector_clock.ts`) | a counter per node | increment, merge, compare | `VectorClock` |
| Registry synchronisation (`registry_sync.ts`) | localClock, registrations | register, unregister, republishAll, handleRegistryUpdate, handlePeerLeave | `RegistrySync` |
| Failure detector (`heartbeat.ts`) | peerStates, the timers | heartbeatLoop, pingPeer, handlePing, member handlers, stop | `Heartbeat` |
| Remote watches (`actor_system.ts`) | remoteWatches, remoteWatchers, context.watches | watch, unwatch, the watch:* handlers, notifyWatchers, handleNodeFailure | `RemoteWatch` |
| Links and local watches (`actor_system.ts`) | links, linkedWith, remoteLinks, remoteLinkers, context.links, watches, watchedBy | link, unlink, exit signals, trap exit, the link:* handlers, handleNodeFailure | `Links` |
| Lifecycle and supervision (`supervisor.ts`, `child_supervisor.ts`, `dynamic_supervisor.ts`) | actors, actorMetadata, context.children, childOrder, restart counts | spawnChild, stop, restart, the three strategies, handleCrash, startChild, terminateChild | `Supervision` |
| Remote children (`actor_system.ts`) | remoteChildren, the metadata of both sides | spawnChildRemote, stopRemoteChild, restartRemoteChild, crash notices | `Supervision` |
| Gossip membership (`gossip_protocol.ts`, `distributed_cluster.ts`) | peers with heartbeat, generation and status; the transport's peer addresses and connections | gossip round, merge, failure timeout, leave, start, stop | `Membership` |
| Migration (`actor_system.ts`, `distributed_registry.ts`) | paused mailbox, pending messages, reservations, the new actor | migrate, prepare, execute, rollback, expiry | `Migration`, over `RegistrySync` |
| Process groups (`process_group.ts`) | members per group | join, leave, leaveAll, handleUpdate, peer events | `ProcessGroups`, over `Membership` |
| GenStage (`gen_stage.ts`) | demand, buffers, subscriptions, workers | subscribe, ask, dispatch, cancel, stop, demand modes | `GenStage` |
| Timers, idle timeout, shutdown (`actor_system.ts`) | context.timers, idleTimeoutHandle, lastActivityTime, the flags of shutdown and drain | start and cancel timers, setIdleTimeout, their callbacks, drain, shutdown | `Timers` |
| ZeroMQ transport (`zeromq_transport.ts`) | sockets, pending requests, peerAddresses, dealerConnections | request, send, publish, updatePeers | the wires of `RegistrySync`, `Migration`, `Membership`, `ProcessGroups` |
| In-memory transport, local cluster and registry | as their distributed counterparts | | not modelled: stand-ins for tests |
| Placement, agents, functional actors, telemetry, health, authentication, CLI and orchestration | | | not modelled, see below |

**How they interact.** `createSystem` wires a cluster, a transport, a registry
and an `ActorSystem`. Senders call `dispatchCast` and `dispatchCall`, which put
a message into the actor's mailbox and schedule `processMailbox` with
`setImmediate`. Gossip decides who is a member and tells the transport, the
registry (`member_join`: republish; `member_leave`: forget), the heartbeat (track,
untrack) and the process groups. The heartbeat emits `node_failed`, on which
the system ends watches, links and remote children of that node. Supervisors are
called with a crash and call `restart` or `stop`; `stop` notifies watchers and
links and unregisters the name. Migration touches nearly all of it.

**What is hard.** The process is single-threaded, so the hazards are at the
awaits: state read before one and used after it (`stop`, `restart`, `migrate`,
`pingPeer`), callbacks scheduled under a condition that no longer holds when
they run (`setImmediate`, stagger timers, request timeouts), flags that several
owners set and clear (`mailboxScheduled`, `processingActors`). Between nodes,
messages are lost and reordered, requests time out although they were carried
out, and failure detection is wrong now and then. `PROJECT.json` lists every
such place under `hazards`, with the properties that are about it.

**What makes each component correct.**
- Mailbox: it is a bounded queue, whatever the array does; no message is
  lost, doubled or reordered but by the overflow strategy.
- Scheduling: a waiting message has somebody who will look at it; one handler at
  a time; handlers start in the order of dispatch; every call is settled.
- Registry: a node finds its own actors; nodes come to agree; clocks order
  updates.
- Failure detector: nobody is declared dead early, and nobody stays undetected.
- Watches: one notification per watch, of something that happened, and always one.
- Links: both ends agree; the exit reaches the other end, once.
- Supervision: the records of the children agree; siblings come back, once and
  in order; nobody is left behind by a stop.
- Membership: a node that left does not come back by itself; one that lives is
  found; listeners hear what the table says.
- Migration: one copy handles a message; the state and the messages go along or
  come back.
- Process groups: a member that left is not revived.
- GenStage: demand is neither lost nor exceeded; events neither lost, doubled
  nor reordered; nothing stalls.
- Timers: a cancelled timer is silent, an idle actor is told in time, and an actor
  that ended leaves nothing behind.

## Modules

Each component has a specification module and an `MC` module that gives TLC its
constants; all but `Links` and `Supervision` have their proofs in a `Proofs`
module (`MigrationProofs` is also about `RegistrySync` and `VectorClock`, which
`Migration` extends, and `ProcessGroupsProofs` about `Membership`). `PROJECT.json` maps every definition to
the lines it models. Definitions introduced by a comment "Mutant ..." are
plausible mistakes in the code; they are used by no specification and serve to
show that a property would notice the mistake.

A step of a model is a stretch of code without an await, as the event loop runs
it. Messages, names and values are members of small sets; handlers of actors
are choices among what a handler can do to the system.

**`BoundedFifo`, `Mailbox`.** `BoundedFifo` is the queue the mailbox is meant to
be: its operations act on a sequence. `Mailbox` is `BoundedMailbox` itself, with
`buf`, `head`, `tail`, `size` and `cap` (the array's length, which a write past
the end may change, as in JavaScript). `Fifo == INSTANCE BoundedFifo WITH queue
<- Contents` is the refinement. `rejectPendingCalls` is replaceWith in its one
use, `_rejectPendingCallsForMigration`. A maxSize of 0 is excluded by assumption:
no configuration in the repository uses it.

**`ActorMailbox`.** One actor and the code that feeds it. `immediates` counts
scheduled callbacks; each runs one of `Loops`. A loop is "ready" while it holds
the thread, and nothing else happens then, and "suspended" while its handler
awaits. A fast-path call runs its handler at once and is in `direct` while that
handler is suspended. A handler ends in one of six `Outcomes`: return, throw, or
return after one stash operation. `Migrate` collects the source side of
`migrate`: pause, prepare, drain (which may time out on a handler), execute, and
the return to the mailbox on failure. The mailbox is here the plain queue that
`Mailbox` implements, without bound. `overtook` is history: it records that a
fast-path call was made before a pending callback ran, after which handlers may
overlap (see the disagreements).

**`VectorClock`, `RegistrySync`.** All nodes of a cluster. `wire[p][s]` is the
SUB queue of `s` for `p`: in order, and it may lose. `hosted` says where actors
really live; `Homes` says which nodes may host a name. A registration carries
the node, a generation (`Date.now()`, of unsynchronised clocks) and a clock.
Note that the code merges clocks only when it accepts an update.

**`Heartbeat`.** One node's manager and its peers. Every `member_join` makes a
new peer-state object, and stagger timers keep objects, so objects have an
identity here: `obj[p][k]` is that of the k-th join of p. Pongs and timeouts act
on whatever object the peer has when they come, as in the code. `unanswered` is
history: the pings since the last pong, counted independently of the code.

**`RemoteWatch`.** One watcher on node home, any number of watches of actors on
node far. `Target` says what a watch is about. A request ends with a reply or a
failure; `notices` are watch:down and watch:moved, which home treats alike. An
actor on far passes through the states that the awaits of `stop`, `restart` and
`migrate` make visible. Home's heartbeat is abstracted to what `Heartbeat`
shows of it: it tracks far, reports its crash while it does (`NodeFailed`), may be
wrong (`FalseAlarm`), and gossip may remove far first (`GossipLeave`).

**`Links`.** Root actors of two nodes, their links and their local watches. Exit
propagation is synchronous in the code: `notifyLinkedActors` calls the crash
handler of the next actor before it returns. The model keeps the calls that are
still to be made in `s.todo` and `Propagate` runs them to the end in one step.
The variable `s` is the record of all tables, because one propagation goes
through many of them. Messages about one link from one node to another keep
their order; replies travel on another socket.

**`Supervision`.** A parent on home, its children on home and on far, and the
restarts of the parent itself. An async function is a task: what it has left to
do, and what it awaits (terminate, an answer of far). `Run` takes a task from one
await to the next. `home` and `far` are records of the tables of the two nodes.
Each spawn makes an instance, so that identities can be compared before and
after a restart; `overlap` is history: two crashes or stops were handled at once.
The two records of a parent's children differ in how they are searched. `order` is
`childOrder`, searched by id; `children` is `context.children`, a JavaScript Set in
its own order, from which a child is deleted by the identity of the reference. A task's
`own` says whether its references are the ones the parent holds: those that
`_handleRpcCast`, `getRef`, `getActorByName` and `getGroup` make are not, and
`Unlist` then takes the child out of `order` only (`others` is history of that).
Only a parent that is a `DynamicSupervisor` (`dynamic`) has a limit of children.

**`Migration`.** `EXTENDS RegistrySync`: one named actor and its copies. The
source walks through the phases of `migrate`; the target's handlers reserve the
name, make a copy, confirm or release. A request may arrive after the source
gave up on it, and a reservation may expire at any time. `did` and the state of
each copy record which messages it handled. `handleRpc` and `RpcHandled` are the casts
and calls of other nodes, whose handlers run at once, on a paused actor too and
beside the mailbox's own; `direct` is history of them. They stand for a fast-path call
that overlaps a pending callback as well. A deployment with one
`LocalRegistry` per node is the behaviours in which no update is delivered.

**`Membership`.** Every node's gossip table, the datagrams, what listeners were
told (`told`), and the transport's peerAddresses (`transport`) and
dealerConnections (`dealers`); `request` makes a connection. `updatePeers` drops the
address of a peer that is not listed and closes the connection to it. `createSystem`'s
own `member_join` listener passes it a single peer, which drops all others, and
`RegistrySync`'s listener (`syncPeers`) restores their addresses, but not the
connections: `memberJoin` is both in their order. An entry is fresh or has timed out; timing out is possible whenever
nothing arrived.

**`ProcessGroups`.** `EXTENDS Membership`: the members of one group as every node
lists them. Updates go to the subscribers that are connected when they are
published. An actor belongs to one process (`Born`), so that restarts lose it.

**`GenStage`.** A pipeline of stages given by `Up` and `Down` of its subscriptions
(`Tags`). `src[s]` holds what dispatcher and stage keep: demand per subscriber,
the buffer, partition buffers, the mode. Asks and batches are queues; no handler
awaits, so each is one step. `willing` says whether `handleDemand` returns as much
as it was asked for or whatever it likes. Three simplifications: a producer-consumer's
callback returns its whole batch or nothing, although it may return any events
(`gen_stage.ts:1196`); the mailboxes of stages are unbounded; and events discarded
because the consumer has cancelled count as taken. `InOrder` speaks of the subscriptions of
producers, whatever else the pipeline has, and of those of producer-consumers on a
straight path: one that merges several upstreams has no order to keep, one that
broadcasts may let new events overtake its buffer after a cancel, and one that
partitions reorders (see the disagreements).

**`Timers`.** One actor, its timers as what is left of each handle, its idle
timeout, and stop, migration, drain and shutdown. Callbacks run up to `MaxLate`
too late; an idle check may run up to `Early` before `Date.now()` agrees.

## Runs

All runs finish within five minutes with two workers.

| Run | Shows | Bounds |
|---|---|---|
| `mailbox` | `ImplementsFifo` | 3 messages, first array of 2 slots, an unbounded mailbox and one of 2 per strategy, at most 5 messages and 2 drops, batches of 2: wraps, grows twice, evicts and refills in every position |
| `actor_mailbox` | `NoLostWakeup`, `StartOrder`, `OneHandler`, `CapturedAtRest`, `CastsHandled`, `CallsSettle` | 2 casts, 1 call, 2 loops, batches of 1 (so that a batch ends with messages left), 1 migration |
| `registry` | `HeldAreCovered`, `OwnNamesSettle` | 2 nodes, a name with one host and one with two, 2 generations, 3 operations per node, 1 each of republishing, loss and departure |
| `heartbeat` | `DeclaredDeadInTime`, `SilentAreDropped` | 2 peers (staggering needs two), limit 2, 2 unanswered pings under way, one membership per peer |
| `remote_watch` | `OneEnding`, `NoFalseDown`, `NoOrphans`, `EndingsReported` | 1 watch, 1 actor, 3 faults in any combination |
| `links` | `TablesAgree`, `OneExit`, `CrashesPropagate` | 2 actors of one node linked in both directions, a third on another node linked from the first, 1 watch, the first actor trapping exits or not, both root policies, 2 events, 1 fault |
| `supervision` | `ListsAgree`, `RestartsRestore`, `StopsCascade`, `CrashedAreReplaced` | 2 local children (symmetric) and 1 remote, a `DynamicSupervisor` with 1 child at most or another parent, the three strategies, limit 1, 2 instances of the parent, 2 events of which 1 may be a fault |
| `migration` | `HandledOnce`, `StateCarried`, `NotLeftPaused`, `DrainedAreHandled` | 2 nodes, 1 message, through the mailbox or past it, 3 copies, 2 events (migrations, stops, restarts) |
| `membership` | `EventsTrack`, `LeaversStayOut`, `PeersSurviveEvents`, `Converges` | 3 nodes of which 2 stay and the third sends requests, 2 faults (late datagrams, restarts, wrong timeouts) |
| `process_groups` | `OwnMembersKept`, `NoGhosts` | 2 nodes, 1 actor on one and 2 on the other (one of each of its lives), 3 joins or leaves, 2 faults |
| `gen_stage` | `DemandAccounted`, `BackPressure`, `InOrder`, `EventsAccounted`, `NoStall` | a producer, a consumer, a producer-consumer and a consumer supervisor; all dispatchers on the producer; maxDemand 2, buffer 1, 3 events (2 when a broadcasting producer may return fewer or more than it is asked for) and 1 beyond demand, 1 worker crash, 1 cancel or stop |
| `timers` | `CancelledStaysCancelled`, `TimedOutInTime`, `EndsQuietly` | a one-shot timer, an interval, an idle timeout of 3 ticks, checks 1 early and callbacks 1 late, 1 message waiting |

Bounds and why they are enough. Two loops are as many as can overlap with two
tokens (a callback and a call's finally block). Two nodes suffice for concurrent
updates; a name with two hosts is there so that its clocks mix with those of the
name with one. Three nodes are needed for gossip about a third party, and for one
peer's leave to find a connection to another; what one node's requests do has no
influence on the other nodes, so one sender is enough (the run was also made with node 1
as the sender). A heartbeat
run with rejoining peers is larger; `MCHeartbeatStagger.cfg` and the theorem
`OnlySilentPeersFail`, which has no bound on joins, cover them. Watches do not
share state, as `RemoteWatch` explains, so one watch shows the races about one;
the theorems hold for any number, and their invariant was also model-checked with
two. Two events are enough for one crash, stop or migration to hit between the
awaits of another. A maxDemand of 2 with a minDemand of 1 separates the first ask
from re-asks, a buffer of 1 with an overshoot of 1 fills and overflows. Timer
delays of 1 and 2 and an idle timeout of 3 let each expire before, at and after
the others.

Deadlock is not checked where the system may really stop: an actor without
messages, a registry without operations, a watch or link that has ended, a
pipeline without events, supervision at rest. `mailbox`, `heartbeat`,
`membership`, `process_groups` and `timers` check it.

**Properties worth a remark.**
- `NoLostWakeup` is about the flag `mailboxScheduled`, which suppresses
  scheduling; `CastsHandled` is the liveness it is for.
- `StartOrder` excepts messages that were ever stashed; all others start in the
  order of dispatch across the fast path, batches and failed migrations.
- `OneHandler` and `CapturedAtRest` hold until a fast-path call overtakes a pending
  callback; `MCActorMailboxOverlap.cfg` shows what happens then.
- `DeclaredDeadInTime` compares the code's own count with an independent one;
  it excepts failures reached through a stagger timer of an earlier membership.
- `NoOrphans` and `NoFalseDown` assume that nothing was lost and nobody was
  suspected wrongly; the exceptions they name are the code's real gaps.
- `EndingsReported` excepts a gossip departure: `handleMemberLeave` drops the
  peer without `node_failed`, and nothing else ends the watch.
- `ListsAgree` excepts what a stop by another reference leaves in
  `context.children`; `childOrder`, by which siblings are restarted, is exact.
- `RestartsRestore` and `StopsCascade` are about crashes and stops handled one at a
  time and without faults; `ListsAgree` and `CrashedAreReplaced` hold however they
  overlap. The difference is listed below.
- `HandledOnce` says when two copies may handle one message: only if the source
  gave up on an execute that the target went on to complete.
- `StateCarried` excepts messages handled past the mailbox whose handlers end after
  the state was captured; those that ended before are in that state and go along.
- `PeersSurviveEvents` says of the addresses that every event leaves them complete, and of
  the connections, with the requests under way on them, that no sequence of leaves and
  timeouts closes one of another live peer. A join does (`JoinsCloseNoOther`).
- `Converges` is stated for a cluster in which two nodes stay and know each other:
  a lone seed that restarts without seeds of its own finds nobody.
- `NoStall` is restricted to producers that return what they are asked for; it
  excepts partitions, where a full partition rightly holds up the others, and
  broadcasts after a cancel, where the code does stall.
- `TimedOutInTime` allows twice the timeout, because a check that came too early
  is followed by a wait for the rest and then by a whole timeout.

## Fairness

- `ActorMailbox`: the event loop runs scheduled callbacks, microtasks and timers
  (`EventLoop`: weak fairness of callbacks, of the loop that holds the thread, of
  call timeouts, of the rest of `stop` and `migrate`, whose requests have
  timeouts). `HandlersEnd` is an assumption about the user's code; a handler that
  never settles blocks its mailbox, and a fast-path call to it has no timer.
- `Heartbeat`: the interval and stagger timers fire, and requests time out. That
  the loop waits for the stagger timers of the last round is the code's timing:
  they are due within the interval. `SilentAreDropped` needs no fairness of pongs.
- `RemoteWatch`: a notice that is not lost arrives, a request is answered or
  times out, and the detector finds a crashed node it tracks (shown by
  `SilentAreDropped`). No actor is assumed to stop, and no message but notices to
  arrive.
- `Migration`: every await of `migrate` has a timeout, so its steps go on; mailboxes
  that are not paused are processed, and handlers end. Nothing is assumed of the
  network or the target.
- `Membership`: the timers of a node run; `Math.random` chooses every peer again
  and again, and of the datagrams a node keeps sending to another some arrive.
  Entries of nodes that are down time out.
- `Timers`: time passes, due callbacks run, and the two timers of `shutdown` end
  its waits. Handlers and `terminate` need not end.

## Proofs

TLAPS checks every theorem without unproved steps. The constants' assumptions
are the `ASSUME`s of the specification modules. Bounds of a model are used only
for being natural numbers, and `MaxCopies` for not being zero; nodes, actors and
idle timeouts are any finite sets. Every invariant named below was model-checked
on the component's run before it was proved (those of `Migration` with 2 copies).

- **Ring** (`MailboxProofs`): `TypeCorrect`, `RingCorrect`, `RingImplementsFifo`,
  all of `SpecNoExactFill`. The inductive invariant is `TypeOK /\ RingOK`: a slot
  is occupied exactly when its distance from head, modulo the array length, is
  below the count. The work is in a handful of lemmas on remainders (`SlotAfter`,
  `NextSlot`, `PlaceOf`) and in growth, where the modulus changes. The refinement
  computes `Contents` after each step and needs the same invariant.
- **Wake-ups** (`ActorMailboxProofs`): `WakeupNeverLost` from
  `WakeupInv == Typed /\ ScheduledIsTrue /\ NoLostWakeup`. `NoLostWakeup` alone is
  not inductive: a cast that finds `mailboxScheduled` set schedules nothing, so
  the flag's truth has to be part of it.
- **One handler** (`ActorMailboxProofs`): `OneHandlerAtATime` and
  `CapturedStateAtRest`, from `QuietInv`, which holds until a call overtakes a
  callback: there is at most one token (a callback, a loop or a call), the flags
  tell where it is, and the mailbox is paused while it is moved.
- **Order of starts** (`ActorMailboxProofs`): `MessagesStartInOrder` from
  `OrderInv`. What has started, what a migration moves and what is in the mailbox
  are one line (`InLine`): those of its messages that were never stashed are in
  the order of dispatch. It is only inductive together with `Stashing`, that whoever is
  in the stash has been deferred (so that `unstash` may put him in front of
  the others), and `MovedWhilePaused`, that nobody starts while messages are out of
  the mailbox (so that they can be put back in front). Overlapping handlers do
  not disturb it: it holds whether or not a call overtook a callback.
- **Clocks** (`MigrationProofs`): `CompareAntisymmetric`, `AfterIsTransitive`,
  `MergeIsLeastUpperBound`, `OwnUpdateIsAfter` on the operators, then
  `ClocksStayInThePast` and `ClockCoversHeld` from `ClockInv == Typed /\
  NoFutureTicks /\ HeldAreCovered`. The second needs that what is on the wire is in
  the past too.
- **Names with one host** (`MigrationProofs`): `OwnNamesAgree` from `ClockInv`,
  `HostedTyped` and `OwnNamesInv`. Its first half (`FromHome`) holds always: nobody but
  the host withdraws the name on the wire, and never to itself. The second
  (`InStep`) holds until an update is lost, or somebody republishes or leaves:
  `Follows` says that each update on the way has a later clock than the one
  before and than what its reader holds, so that none will be refused, and that
  the last of them is what the host holds. The clocks of names with several
  hosts may mix with it as they like.
- **Failure detector** (`HeartbeatProofs`): `DetectorTyped`, and
  `OnlySilentPeersFail`, an action property, from `DetectorInv`: a peer's object
  never counts more than the pings that went unanswered in its membership, and
  objects not yet made are fresh. Staggered or not, for any number of joins.
- **Watches** (`RemoteWatchProofs`): `EveryWatchEndsOnce`, `RecordsAgree`,
  `WatchesAreBacked`, `OnlyEndingsAreTold`, `NoWatchIsOrphaned`, from `WatchInv`,
  six conjuncts for one watch: unused, unknown to far, ended at most once, truth
  of what far says, backing from far's positive reply on, and what far has home
  wants. Properties of settled states become inductive by saying where the
  watch's message is while they are not settled.

- **Migration** (`MigrationProofs`): three theorems over one base, `BaseInv`: the types,
  which copies have been used, and `Protocol`, which says for each phase of
  `migrate` what may be on the wire, which answer may be back and what the
  target's reservation may be. `MigrationResumes` adds that a paused copy has a
  migration. `MigrationHandlesOnce` adds `PlacesInv`: a message is at one place only (of
  the mailboxes, handlers, handled messages, and messages a migration has drained
  and neither handed over nor returned), unless the source gave up on an
  execute that was confirmed. "Handled twice" is not inductive, because a
  message is in two mailboxes before it is handled twice. `MigrationCarriesState` adds
  `CarryInv`: one migration per copy, and the mailbox of a copy that was quiet when it
  was drained is at rest from then on, so that what it has handled but not past the
  mailbox (`Boxed`) is in the state that was captured. What is handled past
  the mailbox may come at any time: it is a place of its own for a message in `PlacesInv`. The steps of the registry matter too: a copy is named only
  after it has lived (`RegistryKnown`).
- **Membership** (`ProcessGroupsProofs`): `ListenersKnow`, and the action properties
  `LeavesLast` and `EventsKeepPeers` (the lemmas `EventsKeepAddresses` and
  `LeavesKeepConnections`), from `MembershipInv`. `TableInv` says that
  listeners were told of everybody in the table but peers that left. `GossipInv` is about
  everything said of a node, in any table or late datagram: nobody is ahead of the
  node's own heartbeat, and in a generation the leave has the highest one.
  A datagram is merged peer by peer in any order; its effect is proved by
  induction over the set of peers still to be merged: unless one of them joins, each
  leaves every connection to a peer that is live before and after (`MergeEffect`).
- **Process groups** (`ProcessGroupsProofs`): `OwnMembers` and `GhostsAreGone`, from
  `GroupInv`, over `MembershipInv`. `SpreadInv` is the strengthening: whoever lists an
  actor or is about to, hears from the actor's node; and once the node itself no
  longer lists the actor, a leave is on the way behind every join.
- **Timers** (`TimersProofs`): `CancelIsFinal` from `CancelInv`, and `IdleIsTold` from
  `IdleInv`. `Armed` is what makes the latter inductive: the time since the last
  activity and what is left of the handle add up to the timeout, or, after a check
  that came too early, to nearly twice the timeout.
- **Demand** (`GenStageProofs`): `DemandIsAccounted` and `BackPressureHolds`, from
  `DemandInv == Typed /\ Placed /\ \A t \in Tags : Accounts(t)`, for any stages,
  subscriptions, dispatchers, partition options, demand limits, buffers and
  `handleDemand`. `DemandAccounted` alone is not inductive: it says nothing of a
  subscription before its first ask, which must be untouched (nothing asked,
  owed or under way), nor of one that was cancelled, which may still be sent
  what it had asked for. `Accounts` says both, and that the workers, the slots they will
  release and what is pending never exceed maxDemand together. `Placed` says which stations
  of a subscription exclude each other. What each dispatcher does to demand is stated
  once, as a relation between the state before and after (`Pays`, and `Settles` for
  the buffering around it): a subscriber is owed less by exactly the events it
  is sent, and nobody who is owed nothing is sent a batch. The actions see only
  that relation. The demand dispatcher needs that shares of subscribers served one
  after the other are disjoint pieces of the events, the partition dispatcher that a
  partition has one subscriber.
- **Order of events** (`GenStageProofs`): `EventsInOrder` from
  `OrderInv == \A s \in Sources : Orderly(s) => Ordered(s)`, over `DemandInv`. `InOrder` looks
  only at what a subscriber was sent; `Ordered` also at what is yet to be sent. `Tidy`: the
  buffer and every partition buffer of the source are increasing and hold only events it
  has had (`Past`), a partitioning source uses its common buffer only as long as the
  others are empty, and one that accumulates has nothing buffered. `Ahead`: what was
  sent comes before what waits for that subscriber. For a producer that is enough,
  because what it produces next is larger than all of it. A producer-consumer
  dispatches a batch without a look at its buffer, which is in order only if nobody has
  demand while something is buffered; that is `Calm`, and it is why the straight path
  is one of demand dispatchers. What such a stage has had is what it has taken
  from its one upstream, whose own line says that the next batch is larger. As for demand,
  each dispatcher is described once by a relation (`Serves`, `InLine`), and the actions
  see only that.

Two techniques recur. The library's induction theorems take an operator as
a parameter, which the provers cannot instantiate; where a fold over a set is needed,
as in the merge, induction is done over a set of natural numbers, the
sizes for which the claim holds (`SetInduction`), and `Without` of `ActorMailbox` and
`Only`, `Total` and `FlattenSeq` in `GenStage` are reasoned about in the same way. And
`SelectSeq` is opaque to the provers, which is why `ActorMailbox` filters the mailbox, and
`GenStage` the subscribers, with a recursive function of its own.

**Only model-checked:**
- Liveness (`CastsHandled`, `CallsSettle`, `SilentAreDropped`, `EndingsReported`,
  `DrainedAreHandled`, `Converges`, `EndsQuietly`), which is out of the prover's reach.
- `EventsAccounted` and `NoStall` of `GenStage`. The first counts events over sets and
  sequences at once, and says where every event is, which `OrderInv` does not: it would need
  an invariant of its own for each dispatcher. The second is about every queue being empty.
- The properties of `Links` and `Supervision`. Their steps run a whole chain of calls
  to its end (`Propagate`, `Run`) by recursion over a list of what is left to do, so
  that an effect is only known by induction over that list; see the [plan](#plan).

## Disagreements

Places where the code does something else than a document, a comment or the
reader's expectation says. Those with a `.cfg` are states or behaviours that TLC
finds with it, as the violation of the property it names:
`tlc -config <cfg> <MC module>`. Where it says "instead", the property takes the place
of those the file lists (an invariant, or for `JoinsCloseNoOther` a PROPERTY).

| Configuration | Property | What it shows |
|---|---|---|
| `MCMailboxExactFill.cfg` | `CountedAreThere` | `replaceWith` with as many messages as slots leaves `tail` one past the end (`mailbox.ts:143`), although tail is the "index of next write slot" (`mailbox.ts:27`); the next messages land out of order of head |
| `MCActorMailboxOverlap.cfg` | `NeverOverlap` | a fast-path call does not keep out a callback that was already pending, such as that of `spawn` (`actor_system.ts:3106`): two handlers of one actor overlap, although flags are "locked to prevent concurrent processMailbox execution" (`actor_system.ts:3088`) |
| `MCActorMailboxMigration.cfg` | `NothingLeftBehind` | casts between the drain and the cleanup of a successful migration are thrown away (`actor_system.ts:635`), against "preserving their state and pending messages" (`README.md:2132`) |
| `MCRegistryDiverge.cfg` | `Agreement` | a concurrent unregister removes another host's registration on some nodes only (`registry_sync.ts:183`), against "eventual consistency" (`registry_sync.ts:23`) |
| `MCHeartbeatStagger.cfg` | `NeverDeclaredEarly` | a stagger timer of an earlier membership declares a peer dead that has rejoined (`heartbeat.ts:329`), against the number of missed heartbeats (`heartbeat.ts:21`) |
| `MCRemoteWatchLate.cfg` | `ToldOfDeath` | a watch added while `stop` awaits is never told (`actor_system.ts:2738`), against "exactly one `DownMessage`" (`README.md:709`) |
| `MCLinksBothWays.cfg` | `BothWays` | when the linker of a remote link ends, its link:exit is looked up in the wrong table of the linked actor's node and ignored (`actor_system.ts:1792`), against "Bidirectional crash propagation" (`README.md:717`) |
| `MCGenStageSlots.cfg` | `SlotsReturn` | a worker that is restarted gets a new id without a DOWN, and its slot is never released (`gen_stage.ts:994`), against "When a worker exits (normal or crash), its demand slot is released" (`README.md:1127`) |
| `MCMembershipForget.cfg` | `DeadAreForgotten` | a peer removed after its timeout is brought back by the gossip of another, who removed it a little later, for ever (`gossip_protocol.ts:321`), against "Time in ms after which a peer is considered dead" (`gossip_protocol.ts:18`) |
| `MCMembershipReach.cfg` | `LiveAreReachable` | a peer that returns with a new generation is live but not in the transport's peer list, because no event is emitted, against "gossip handles re-joining automatically" (`README.md:2533`) |
| `MCProcessGroupsFound.cfg` | `MembersFound` | a join published before the other node's subscription is connected is never published again, against "propagated across nodes" (`README.md:1749`) |
| `MCSupervision.cfg` (instead) | `ListedAreThere` | a child stopped through a reference that is not the one its parent holds stays in `context.children` (`actor_system.ts:2716`), so that `countChildren` and `maxChildren` count it for ever; against "context.children is the single source of truth" (`dynamic_supervisor.ts:151`) |
| `MCMigration.cfg` (instead) | `AllStateCarried` | casts and calls of other nodes run on a paused actor (`actor_system.ts:4526`, `actor_system.ts:3234`): what they do between the capture of the state and the cleanup is lost, against "preserving their state" (`README.md:2132`) |
| `MCMembership.cfg` (instead) | `JoinsCloseNoOther` | a peer that joins has the connections to all others closed, with the requests under way on them (`create_system.ts:408`, `zeromq_transport.ts:183`), against "DEALER pool (outgoing RPC)" (`README.md:2560`) |
| `MCTimersNobodyLeft.cfg` | `NobodyLeft` | a remote spawn, or the target side of a migration, is not refused during a shutdown, and its actor survives it, against `README.md:1586` |

Met while modelling, without a configuration of their own:

- *Mailboxes.* `unshift` ignores maxSize (`mailbox.ts:99`), although "for bounded
  mailboxes, the ring never exceeds maxSize" (`mailbox.ts:20`). The fast path sets no
  timer, so a call to a handler that never settles hangs despite its timeout
  (`actor_system.ts:2908`).
- *Registry.* `republishAll` publishes everything a node holds, other nodes' names
  too, and revives names that their host has withdrawn meanwhile
  (`registry_sync.ts:105`); its comment speaks of "all local registrations". A node
  that restarts begins with an empty clock, and what it registers is ignored by
  nodes that still hold its earlier registrations.
- *Watches.* A local watch of a dead actor sends DOWN but keeps its entry, against
  `README.md:710`. A watch request that failed at home may still stand at far. A node
  wrongly declared dead is not tracked again while gossip keeps it as a member.
- *Links.* A crash within the restart limits silently drops the links of the
  restarted actor. With two links between two actors the crash is handled twice.
  A linker that migrates does not tell a remote linked actor (`README.md:2200`).
- *Supervision.* A restart of the parent leaves its children behind as orphans, and
  so do children started while `stop(parent)` awaits. Crashes that overlap under
  one-for-all duplicate children, and two crashes of one actor spawn two
  instances. The root supervisor counts restarts per instance id, so
  `maxRestarts` never takes effect (`supervisor.ts:76`, `README.md:1205`). A remote
  child over its limit is only untracked, not "stopped permanently"
  (`README.md:950`). A local crash under one-for-all leaves remote siblings alone
  (`README.md:1356`). A `DynamicSupervisor` may exceed `maxChildren` when starts
  overlap (`README.md:907`).
- *Migration.* Over the replicated registry a successful migration may leave the
  name registered nowhere, because the source unregisters what the target has just
  registered; and a target that knows the name refuses (`distributed_registry.ts:48`).
  An actor stopped while it migrates lives on at the target. Two concurrent
  `migrate` calls of one actor both proceed. An execute that times out and succeeds
  leaves two copies.
- *Membership.* A seed node without seeds of its own that restarts finds nobody by
  itself. With one seed, four nodes may stay split in pairs. `updatePeers` ignores a changed address of a known peer, and `syncPeers`
  never passes an empty list, so the last peer is never dropped.
- *Process groups.* After a quick crash and restart the members of the earlier
  process stay listed. A false `member_leave` drops another node's members for good.
  `joinGroup` of a remote actor is ignored by its home.
- *GenStage.* A broadcast stalls after a cancel until the next ask, because `cancel`
  discards the demand it freed (`gen_stage.ts:310`). A producer-consumer with a
  partition dispatcher reorders events (`gen_stage.ts:1223`) and asks upstream
  whatever its own demand is; partition buffers have no limit. Stopping a producer
  does not tell its consumers, against the comment of `Producer.stop`. The `cancel`
  option of a subscription is never read.
- *Timers and shutdown.* Casts and timers are not refused during a shutdown,
  against "Stops accepting new spawns and messages" (`actor_system.ts:401`).
  `_drainMailboxes` looks at mailboxes only, so that `terminate` may run while a
  handler is suspended. The idle timeout's `handleInfo` does not go through the mailbox
  either. `handleInfo` that stops its actor has the idle timer armed once more.

## Not modelled

- In `ActorMailbox`: overflow (it is in `Mailbox`), `_syncLocalCast`, remote calls
  and casts that bypass the mailbox (their effect on a migration is in `Migration`), messages an actor sends to itself from a
  handler, two concurrent `migrate` calls (they are in `Migration`).
- In `RegistrySync`: nodes that restart with an empty clock.
- In `Heartbeat`: a second `start`, and a disabled manager.
- In `RemoteWatch`: several watchers (their entries are disjoint), a node that
  crashes and comes back under the same id.
- In `Links`: actors with a parent, whose crash goes to `Supervision`.
- In `Supervision`: the crash of a remote child whose node has no record of its
  owner, classes that are not registered on far.
- In `Migration`: classes not registered on the target, actors with children or not
  `Migratable`, calls waiting in the mailbox (which are rejected before the drain; they are
  in `ActorMailbox`), a crash of a node.
- In `Membership`: signatures, metadata, changed addresses, requests themselves and their
  answers (a connection stands for those under way on it), the SUB socket.
- In `GenStage`: crashes of stages, remote stages (whose casts may be lost), bounded
  mailboxes of stages, callbacks of producer-consumers that return part of a batch or more.
- In `Timers`: several actors; timers that are started once more are new ones.
- Cryptography and its nonce cache (`auth.ts`), sockets and key rotation,
  serialisation, telemetry, health, logging, the CLI, orchestration and test
  harness: I/O, or without influence on the others. Placement is a stateless choice
  but for a counter. Agents and functional actors are wrappers around handlers.
  The in-memory transport and local cluster do less than what the models allow.

## Plan

The components that carry the library's concurrency are modelled, and the safety
properties of all but `Links`, `Supervision` and part of `GenStage` are proved. What
is left to prove, in this order:

1. `Links`: `OneExit`, then `TablesAgree`, once the effect of `Propagate` on the tables is
   stated as a relation between its ends.
2. `Supervision`: `ListsAgree`, from the same kind of lemma about `Run`.
3. `GenStage`: `EventsAccounted`, from an invariant over `OrderInv` that says where every
   event is.

Then, where there is room: restarts of nodes in `RegistrySync`, stage crashes in
`GenStage`, several actors in `Timers`.
