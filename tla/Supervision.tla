---------------------------- MODULE Supervision ----------------------------
(***************************************************************************)
(* A parent actor on the node home and its supervised children, on home or *)
(* on the node far: spawnChild and spawnChildRemote, stop, restart and     *)
(* their remote forms, the strategies of ChildSupervisor, the root         *)
(* Supervisor, and the handlers of far (src/src/actor_system.ts,           *)
(* child_supervisor.ts, supervisor.ts, dynamic_supervisor.ts).             *)
(*                                                                         *)
(* A child is a specification (name, class, options); each spawn makes a   *)
(* new instance of it.  An async function runs from one await to the next  *)
(* in one step; a task is what it has left to do.                          *)
(***************************************************************************)
EXTENDS Integers, FiniteSets, Sequences, SequencesExt, FiniteSetsExt

CONSTANTS
    Specs, FarSpecs,    \* the children, and those of them that live on far
    Strategies,         \* the strategies childSupervision may return
    MaxRestarts,        \* maxRestarts, of children and of the parent
    MaxChildren,        \* maxChildren of a DynamicSupervisor
    MaxParents,         \* bound of the model: instances of the parent
    MaxFaults,          \* bound of the model: timeouts, losses, node failures
    MaxEvents           \* bound of the model: crashes, stops and faults together

ASSUME SupervisionAssumption ==
    /\ FarSpecs \subseteq Specs
    /\ Strategies \subseteq {"one-for-one", "one-for-all", "rest-for-one"}
    /\ {MaxRestarts, MaxChildren, MaxFaults, MaxEvents} \subseteq Nat
    /\ MaxParents \in Nat \ {0}

Parents == 1..MaxParents
Slots == 1..(MaxEvents + Cardinality(FarSpecs))

VARIABLES
    strategy,
    home,      \* home's tables: see Init
    tasks,     \* the suspended async functions of home
    far,       \* far's tables: actors, remoteParents, and the stops it awaits
    wire,      \* requests, replies and child:crash messages under way
    asked,     \* history: specs the user has started, in that order
    ended,     \* history: specs stopped by the user or for good
    crashed,   \* history: instances a handler of which threw
    crashes, stops, faults,
    overlap    \* history: an operation began while another was under way

counters == <<crashes, stops, faults>>
local == <<home, tasks, wire, overlap>>
vars == <<strategy, local, far, asked, ended, crashed, counters>>

More == crashes + stops + faults < MaxEvents
MoreFaults == More /\ faults < MaxFaults

Idle == [await |-> "nothing", parent |-> 1, id |-> 0, new |-> 0,
         stops |-> <<>>, own |-> TRUE, spawns |-> <<>>, then |-> "nothing"]

Spec_(h, i) == h.inst[i].spec
ParentOf(h, i) == h.inst[i].parent
IsFar(h, i) == Spec_(h, i) \in FarSpecs
Without(q, i) == SelectSeq(q, LAMBDA j : j # i)
First(K) == CHOOSE k \in K : \A j \in K : k <= j

----------------------------------------------------------------------------
(* Synchronous pieces of the code, as functions of home's tables.          *)

\* Mutant: the child stays in childOrder.
UnlistFromSet(h, i, own) ==
    IF ParentOf(h, i) \notin h.parents \/ ~own THEN h
    ELSE [h EXCEPT !.children[ParentOf(h, i)] = Without(@, i)]

\* stop, stopSingle and stopRemoteChild: the parent, if it is there, forgets i.
\* childOrder is searched by id, context.children for the reference itself: it
\* keeps i when the caller's reference is not its own but one made since, by
\* _handleRpcCast, getRef, getActorByName or getGroup.
Unlist(h, i, own) ==
    LET p == ParentOf(h, i)
        g == [h EXCEPT !.order[p] = Without(@, i)]
    IN  IF p \notin h.parents THEN h
        ELSE IF own THEN [g EXCEPT !.children[p] = Without(@, i)]
        ELSE [g EXCEPT !.others = @ \cup {i}]

\* spawnChild of the specs qs, one after the other.
spawnChild(h, p, qs) ==
    LET ids == [k \in DOMAIN qs |-> Len(h.inst) + k]
    IN  [h EXCEPT !.inst = @ \o [k \in DOMAIN qs |-> [spec |-> qs[k], parent |-> p]],
                  !.actors = @ \cup ToSet(ids),
                  !.order[p] = @ \o ids,
                  !.children[p] = @ \o ids]

\* A spawn on far gets its id first.
NewId(h, p, s) == [h EXCEPT !.inst = Append(@, [spec |-> s, parent |-> p])]

\* The reply to child:spawn: the parent object lists the child, even if it is
\* no longer an actor.
RemoteSpawned(h, i) ==
    LET p == ParentOf(h, i)
    IN  [h EXCEPT !.entries = @ \cup {i}, !.order[p] = Append(@, i),
                  !.children[p] = Append(@, i)]

\* The reply to child:restart: the new instance takes the place of the old.
RemoteRestarted(h, i, new) ==
    LET p == ParentOf(h, i)
        swapped == IF i \in ToSet(h.order[p])
                   THEN [k \in DOMAIN h.order[p] |-> IF h.order[p][k] = i THEN new
                                                     ELSE h.order[p][k]]
                   ELSE Append(h.order[p], new)
        g == [h EXCEPT !.entries = (@ \ {i}) \cup {new}]
    IN  IF p \notin h.parents THEN g
        ELSE [g EXCEPT !.order[p] = swapped, !.children[p] = Append(Without(@, i), new)]

\* removeRemoteChild
removeRemoteChild(h, i) == Unlist([h EXCEPT !.entries = @ \ {i}], i, TRUE)

----------------------------------------------------------------------------
(* Run: a task goes on with tables h to its next await, if any.  The result*)
(* is the tables, the task and the request it has sent.                    *)

\* Stopping a child that is not there, or not in remoteChildren, does not wait.
Waits(h, i) == IF IsFar(h, i) THEN i \in h.entries ELSE i \in h.actors

Result(h, t, sent) == [home |-> h, task |-> t, sent |-> sent]

RunStop(h, t, k) ==
    LET i == t.stops[k]
        rest == [t EXCEPT !.id = i, !.stops = SubSeq(@, k + 1, Len(@)), !.own = TRUE]
    IN  IF IsFar(h, i) THEN Result(h, [rest EXCEPT !.await = "stop"], {[type |-> "stop", id |-> i, new |-> 0]})
        ELSE Result(Unlist(h, i, t.own), [rest EXCEPT !.await = "terminate"], {})

\* The local specs up to the next one on far are spawned at once.  Without its
\* parent a spawn throws, which ends the task.
RunSpawn(h, t) ==
    LET remote == {k \in DOMAIN t.spawns : t.spawns[k] \in FarSpecs}
        n == IF remote = {} THEN Len(t.spawns) ELSE First(remote) - 1
        g == spawnChild(h, t.parent, SubSeq(t.spawns, 1, n))
        i == Len(g.inst) + 1
    IN  IF t.parent \notin h.parents THEN Result(h, Idle, {})
        ELSE IF remote = {} THEN Result(g, Idle, {})
        ELSE Result(NewId(g, t.parent, t.spawns[n + 1]),
                    [t EXCEPT !.await = "spawn", !.id = i,
                              !.spawns = SubSeq(@, n + 2, Len(@))],
                    {[type |-> "spawn", id |-> i, new |-> 0]})

Run(h, t) ==
    LET live == {k \in DOMAIN t.stops : Waits(h, t.stops[k])}
    IN  IF live # {} THEN RunStop(h, t, First(live))
        ELSE IF t.then # "nothing" THEN Result(h, [t EXCEPT !.await = "parent", !.stops = <<>>], {})
        ELSE RunSpawn(h, [t EXCEPT !.stops = <<>>])

Busy(ts) == {k \in Slots : ts[k].await # "nothing"}

Here == [home |-> home, tasks |-> tasks, wire |-> wire, overlap |-> overlap]

Becomes(st) ==
    /\ home' = st.home
    /\ tasks' = st.tasks
    /\ wire' = st.wire
    /\ overlap' = st.overlap

Message(type, i, new, k) == [type |-> type, id |-> i, new |-> new, task |-> k, ok |-> TRUE]

\* The task in slot k goes on; a free slot takes a function that is called.
Go(st, k, h, t) ==
    LET r == Run(h, t)
    IN  [st EXCEPT !.home = r.home, !.tasks[k] = r.task,
                   !.wire = @ \cup {Message(m.type, m.id, m.new, k) : m \in r.sent}]

Begin(st, h, t) ==
    LET k == First(Slots \ Busy(st.tasks))
    IN  Go([st EXCEPT !.overlap = @ \/ Busy(st.tasks) # {}], k, h, t)

Room == Busy(tasks) # Slots

\* own: the references of the job are those the parent holds.
Through(own, t) == [t EXCEPT !.own = own]

Job(p, ids, specs) == [Idle EXCEPT !.parent = p, !.stops = ids, !.spawns = specs]

----------------------------------------------------------------------------
StartOf(dynamic) ==
    [dynamic |-> dynamic,             \* the parent is a DynamicSupervisor
     inst |-> <<>>,                   \* spec and parent of each instance
     actors |-> {},                   \* the children in actors
     parents |-> {1},                 \* the instances of the parent in actors
     born |-> 1,                      \* instances of the parent made so far
     order |-> [p \in Parents |-> <<>>],       \* context.childOrder
     children |-> [p \in Parents |-> <<>>],    \* context.children, in the Set's order
     others |-> {},                   \* history: children stopped by another reference
     entries |-> {},                  \* remoteChildren
     count |-> [p \in Parents |-> [s \in Specs |-> 0]],  \* ChildSupervisor.restartCounts
     rootCount |-> [p \in Parents |-> 0]]      \* Supervisor.restartCounts

Init ==
    /\ strategy \in Strategies
    /\ \E dynamic \in BOOLEAN :
         /\ dynamic => strategy = "one-for-one"
         /\ home = StartOf(dynamic)
    /\ tasks = [k \in Slots |-> Idle]
    /\ far = [actors |-> {}, owned |-> {}, stopping |-> {}, alive |-> TRUE]
    /\ wire = {}
    /\ asked = <<>> /\ ended = {} /\ crashed = {}
    /\ crashes = 0 /\ stops = 0 /\ faults = 0
    /\ overlap = FALSE

\* spawn of an actor's handler, spawnChildRemote, and handleStartChild of a
\* DynamicSupervisor: it alone has a limit, and its children are all on home.
startChild(s) ==
    \E p \in home.parents :
        /\ s \notin ToSet(asked) /\ Room
        /\ asked' = Append(asked, s)
        /\ home.dynamic => s \notin FarSpecs /\ Len(home.children[p]) < MaxChildren
        /\ Becomes(IF s \in FarSpecs THEN Begin(Here, home, Job(p, <<>>, <<s>>))
                   ELSE [Here EXCEPT !.home = spawnChild(home, p, <<s>>),
                                     !.overlap = @ \/ Busy(tasks) # {}])
        /\ UNCHANGED <<strategy, far, ended, crashed, counters>>

\* handleTerminateChild, stop and stopChild, or stopRemoteChild of a child on
\* far.  handleTerminateChild finds the reference in context.children.
terminateChild(i) ==
    /\ More /\ Room
    /\ \E p \in home.parents : i \in ToSet(home.children[p])
    /\ stops' = stops + 1
    /\ ended' = IF Waits(home, i) THEN ended \cup {Spec_(home, i)} ELSE ended
    /\ \E own \in BOOLEAN :
         Becomes(Begin(Here, home, Through(own, Job(ParentOf(home, i), <<i>>, <<>>))))
    /\ UNCHANGED <<strategy, far, asked, crashed, crashes, faults>>

\* stop: first the children the actor has now, then the actor itself.
StopOf(p) == [Job(p, home.children[p], <<>>) EXCEPT !.then = "end"]

stopParent(p) ==
    /\ p \in home.parents /\ More /\ Room
    /\ stops' = stops + 1
    /\ ended' = Specs
    /\ Becomes(Begin(Here, home, StopOf(p)))
    /\ UNCHANGED <<strategy, far, asked, crashed, crashes, faults>>

\* canRestart: the count as it is, or 0 when the period has passed.
Counts(n) == {n, 0}

\* Supervisor.handleCrash of the parent, a root actor.  restart leaves its
\* children alone (stopSingle); the count is that of the instance.
handleCrash(p) ==
    /\ p \in home.parents /\ More /\ Room
    /\ crashes' = crashes + 1
    /\ \E n \in Counts(home.rootCount[p]) :
         IF n >= MaxRestarts
         THEN /\ Becomes(Begin(Here, [home EXCEPT !.rootCount[p] = 0], StopOf(p)))
              /\ ended' = Specs
         ELSE /\ home.born + Cardinality({k \in Busy(tasks) : tasks[k].then = "rebirth"}) < MaxParents
              /\ Becomes(Begin(Here, [home EXCEPT !.rootCount[p] = n + 1],
                               [Job(p, <<>>, <<>>) EXCEPT !.then = "rebirth"]))
              /\ UNCHANGED ended
    /\ UNCHANGED <<strategy, far, asked, crashed, stops, faults>>

----------------------------------------------------------------------------
(* Crashes of children.                                                    *)

\* Mutant: rest-for-one starts after the crashed child.
ConcernedAfter(h, p, i) ==
    LET q == h.order[p]
    IN  IF strategy = "one-for-all" THEN q
        ELSE IF i \notin ToSet(q) THEN <<>>
        ELSE SubSeq(q, First({k \in DOMAIN q : q[k] = i}) + 1, Len(q))

\* One-for-all and rest-for-one: the children concerned, in childOrder.
Concerned(h, p, i) ==
    LET q == h.order[p]
    IN  IF strategy = "one-for-all" THEN q
        ELSE IF i \notin ToSet(q) THEN <<>>
        ELSE SubSeq(q, First({k \in DOMAIN q : q[k] = i}), Len(q))

SpecsOf(h, q) == [k \in DOMAIN q |-> Spec_(h, q[k])]

\* Mutant: rest-for-one and one-for-all spawn the children in the order in
\* which they were stopped.
LocalStrategyReversed(h, p, i) ==
    LET q == SelectSeq(Concerned(h, p, i), LAMBDA j : ~IsFar(h, j))
    IN  IF strategy = "one-for-one" THEN Job(p, <<i>>, <<Spec_(h, i)>>)
        ELSE Job(p, Reverse(q), Reverse(SpecsOf(h, q)))

\* handleOneForOne, handleOneForAll, handleRestForOne.  Children on far have no
\* actor and no metadata here: they are passed over.
LocalStrategy(h, p, i) ==
    LET q == SelectSeq(Concerned(h, p, i), LAMBDA j : ~IsFar(h, j))
    IN  IF strategy = "one-for-one" THEN Job(p, <<i>>, <<Spec_(h, i)>>)
        ELSE Job(p, Reverse(q), SpecsOf(h, q))

\* Without its parent a child that throws is left as it is.  The reference is
\* the child's own, or a new one for a cast from another node.
handleChildCrash(i) ==
    LET p == ParentOf(home, i)
        s == Spec_(home, i)
    IN  /\ i \in home.actors /\ More /\ Room
        /\ crashes' = crashes + 1
        /\ crashed' = crashed \cup {i}
        /\ IF p \notin home.parents THEN UNCHANGED <<local, ended>>
           ELSE \E n \in Counts(home.count[p][s]), own \in BOOLEAN :
                  IF n >= MaxRestarts
                  THEN /\ Becomes(Begin(Here, home, Through(own, Job(p, <<i>>, <<>>))))
                       /\ ended' = ended \cup {s}
                  ELSE /\ Becomes(Begin(Here, [home EXCEPT !.count[p][s] = n + 1],
                                        Through(own \/ strategy # "one-for-one",
                                                LocalStrategy(home, p, i))))
                       /\ UNCHANGED ended
        /\ UNCHANGED <<strategy, far, asked, stops, faults>>

\* A child on far throws: handleCrash there tells the node of the parent.
notifyRemoteParentOfCrash(i) ==
    /\ far.alive /\ i \in far.actors \cap far.owned /\ More
    /\ crashes' = crashes + 1
    /\ crashed' = crashed \cup {i}
    /\ wire' = wire \cup {Message("crash", i, crashes, 0)}
    /\ UNCHANGED <<strategy, home, tasks, overlap, far, asked, ended, stops, faults>>

\* handleRemoteOneForAll, handleRemoteRestForOne: children of both kinds; the
\* first spawns those on home before those on far.
RemoteStrategy(h, p, i) ==
    LET q == Concerned(h, p, i)
        known == SelectSeq(q, LAMBDA j : j \in h.entries \cup h.actors)
        there == SelectSeq(known, LAMBDA j : IsFar(h, j))
        here == SelectSeq(known, LAMBDA j : ~IsFar(h, j))
    IN  Job(p, Reverse(q), SpecsOf(h, IF strategy = "one-for-all" THEN here \o there ELSE known))

\* restartRemoteChild, up to its request.
restartRemoteChild(st, h, p, i) ==
    LET k == First(Slots \ Busy(st.tasks))
        new == Len(h.inst) + 1
    IN  [st EXCEPT !.home = NewId(h, p, Spec_(h, i)),
                   !.tasks[k] = [Idle EXCEPT !.await = "restart", !.parent = p, !.id = i, !.new = new],
                   !.wire = @ \cup {Message("restart", i, new, k)},
                   !.overlap = @ \/ Busy(st.tasks) # {}]

\* _handleRemoteChildCrash and handleRemoteChildCrash, n restarts so far.
\* Beyond the limit the child is no longer tracked; it is not stopped.
remoteCrash(st, i, n) ==
    LET h == st.home
        p == ParentOf(h, i)
        s == Spec_(h, i)
        g == [h EXCEPT !.count[p][s] = n + 1]
    IN  IF i \notin h.entries \/ p \notin h.parents THEN st
        ELSE IF n >= MaxRestarts THEN [st EXCEPT !.home = removeRemoteChild(h, i)]
        ELSE IF strategy = "one-for-one" THEN restartRemoteChild(st, g, p, i)
        ELSE Begin(st, g, RemoteStrategy(h, p, i))

\* The specs a crash of i ends for good.
GivenUp(i, n) == IF i \in home.entries /\ ParentOf(home, i) \in home.parents /\ n >= MaxRestarts
                 THEN {Spec_(home, i)} ELSE {}

handleRemoteChildCrash(m) ==
    /\ m.type = "crash" /\ Room
    /\ \E n \in Counts(home.count[ParentOf(home, m.id)][Spec_(home, m.id)]) :
         /\ Becomes(remoteCrash([Here EXCEPT !.wire = @ \ {m}], m.id, n))
         /\ ended' = ended \cup GivenUp(m.id, n)
    /\ UNCHANGED <<strategy, far, asked, crashed, counters>>

\* handleNodeFailure at home: every child on far is treated as crashed, at once.
\* far is dead, or only believed to be.
HandleNodeFailure ==
    /\ home.entries # {} /\ Cardinality(home.entries) <= Cardinality(Slots \ Busy(tasks))
    /\ ~far.alive \/ MoreFaults
    /\ faults' = IF far.alive THEN faults + 1 ELSE faults
    /\ \E expired \in BOOLEAN :
         LET n(i) == IF expired THEN 0 ELSE home.count[ParentOf(home, i)][Spec_(home, i)]
             one(i, st) == remoteCrash(st, i, n(i))
         IN  /\ Becomes(FoldSet(one, Here, home.entries))
             /\ ended' = ended \cup UNION {GivenUp(i, n(i)) : i \in home.entries}
    /\ UNCHANGED <<strategy, far, asked, crashed, crashes, stops>>

----------------------------------------------------------------------------
(* The awaits of home end.                                                 *)

\* terminate of a local child is done: it leaves actors.
TerminateEnds(k) ==
    /\ tasks[k].await = "terminate"
    /\ Becomes(Go(Here, k, [home EXCEPT !.actors = @ \ {tasks[k].id}], tasks[k]))
    /\ UNCHANGED <<strategy, far, asked, ended, crashed, counters>>

\* terminate of the parent is done; restart then spawns another instance.
ParentEnds(k) ==
    LET t == tasks[k]
        h == [home EXCEPT !.parents = @ \ {t.parent}]
    IN  /\ t.await = "parent"
        /\ Becomes([Here EXCEPT !.tasks[k] = Idle,
                                !.home = IF t.then = "end" THEN h
                                         ELSE [h EXCEPT !.born = @ + 1,
                                                        !.parents = @ \cup {home.born + 1}]])
        /\ UNCHANGED <<strategy, far, asked, ended, crashed, counters>>

\* What the answer ok to the request of task t does to the tables.
Answered(t, ok) ==
    CASE t.await = "spawn"   -> IF ok THEN RemoteSpawned(home, t.id) ELSE home
      [] t.await = "stop"    -> removeRemoteChild(home, t.id)
      [] t.await = "restart" -> IF ok THEN RemoteRestarted(home, t.id, t.new)
                                ELSE [home EXCEPT !.entries = @ \ {t.id}]

Reply(m) ==
    /\ m.type = "reply"
    /\ Becomes(Go([Here EXCEPT !.wire = @ \ {m}], m.task, Answered(tasks[m.task], m.ok), tasks[m.task]))
    /\ UNCHANGED <<strategy, far, asked, ended, crashed, counters>>

\* The request of task k times out, its message lost or only late: the catch
\* clauses.  Only the entry is dropped, the parent keeps the reference.
RequestFails(k) ==
    LET t == tasks[k]
        h == IF t.await = "spawn" THEN home ELSE [home EXCEPT !.entries = @ \ {t.id}]
        mine == {m \in wire : m.task = k}
    IN  /\ t.await \in {"spawn", "stop", "restart"}
        /\ ~far.alive \/ MoreFaults
        /\ faults' = IF far.alive THEN faults + 1 ELSE faults
        /\ \E late \in SUBSET {m \in mine : m.type # "reply"} :
             Becomes(Go([Here EXCEPT !.wire = (@ \ mine) \cup {[m EXCEPT !.task = 0] : m \in late}],
                        k, h, t))
        /\ far' = [far EXCEPT !.stopping = {IF r.task = k THEN [r EXCEPT !.task = 0] ELSE r : r \in @}]
        /\ UNCHANGED <<strategy, asked, ended, crashed, crashes, stops>>

----------------------------------------------------------------------------
(* The node far.                                                           *)

\* The answer to message m; nobody waits for it when the request has timed out.
Answers(m, ok) == IF m.task = 0 THEN {}
                  ELSE {[m EXCEPT !.type = "reply", !.ok = ok]}

FarStep(m, f, replies) ==
    /\ far.alive
    /\ far' = f
    /\ wire' = (wire \ {m}) \cup replies
    /\ UNCHANGED <<strategy, home, tasks, overlap, asked, ended, crashed, counters>>

RemoteChildSpawn(m) ==
    /\ m.type = "spawn"
    /\ FarStep(m, [far EXCEPT !.actors = @ \cup {m.id}, !.owned = @ \cup {m.id}], Answers(m, TRUE))

\* Mutant: the stop is answered before the actor is gone.
RemoteChildStopEarly(m) ==
    /\ m.type = "stop"
    /\ FarStep(m, [far EXCEPT !.owned = @ \ {m.id}], Answers(m, TRUE))

RemoteChildStop(m) ==
    /\ m.type = "stop"
    /\ IF m.id \notin far.actors
       THEN FarStep(m, [far EXCEPT !.owned = @ \ {m.id}], Answers(m, TRUE))
       ELSE FarStep(m, [far EXCEPT !.owned = @ \ {m.id}, !.stopping = @ \cup {m}], {})

RemoteChildRestart(m) ==
    /\ m.type = "restart"
    /\ IF m.id \notin far.actors THEN FarStep(m, far, Answers(m, FALSE))
       ELSE FarStep(m, [far EXCEPT !.stopping = @ \cup {m}], {})

\* The stop that request m waits for is done; a restart spawns the new instance.
FarStopEnds(m) ==
    LET f == [far EXCEPT !.actors = @ \ {m.id}, !.owned = @ \ {m.id}, !.stopping = @ \ {m}]
    IN  /\ m \in far.stopping
        /\ FarStep(m, IF m.type # "restart" THEN f
                      ELSE [f EXCEPT !.actors = @ \cup {m.new}, !.owned = @ \cup {m.new}],
                   IF m.type = "orphan" THEN {} ELSE Answers(m, TRUE))

\* handleNodeFailure at far, which believes home dead: its children are orphans.
FarOrphans ==
    /\ far.alive /\ far.owned # {} /\ MoreFaults
    /\ faults' = faults + 1
    /\ far' = [far EXCEPT !.owned = {},
                          !.stopping = @ \cup {Message("orphan", i, 0, 0) : i \in far.owned \cap far.actors}]
    /\ UNCHANGED <<strategy, local, asked, ended, crashed, crashes, stops>>

FarDies ==
    /\ far.alive /\ MoreFaults
    /\ faults' = faults + 1
    /\ far' = [actors |-> {}, owned |-> {}, stopping |-> {}, alive |-> FALSE]
    /\ UNCHANGED <<strategy, local, asked, ended, crashed, crashes, stops>>

----------------------------------------------------------------------------
Next ==
    \/ \E s \in Specs : startChild(s)
    \/ \E i \in DOMAIN home.inst : \/ terminateChild(i)
                                   \/ handleChildCrash(i)
                                   \/ notifyRemoteParentOfCrash(i)
    \/ \E p \in Parents : stopParent(p) \/ handleCrash(p)
    \/ HandleNodeFailure
    \/ \E k \in Slots : TerminateEnds(k) \/ ParentEnds(k) \/ RequestFails(k)
    \/ \E m \in wire : \/ handleRemoteChildCrash(m)
                         \/ Reply(m)
                         \/ RemoteChildSpawn(m)
                         \/ RemoteChildStop(m)
                         \/ RemoteChildRestart(m)
    \/ \E m \in far.stopping : FarStopEnds(m)
    \/ FarOrphans
    \/ FarDies

Spec == Init /\ [][Next]_vars

----------------------------------------------------------------------------
(* Properties.                                                             *)

Ids == DOMAIN home.inst
Stopping == {tasks[k].id : k \in {j \in Busy(tasks) : tasks[j].await = "terminate"}}

TypeOK ==
    /\ strategy \in Strategies
    /\ \A i \in Ids : home.inst[i] \in [spec : Specs, parent : Parents]
    /\ home.actors \cup home.entries \cup far.actors \cup far.owned \cup crashed \subseteq Ids
    /\ home.born \in Parents /\ home.parents \subseteq 1..home.born
    /\ \A p \in Parents : {home.order[p], home.children[p]} \subseteq Seq(Ids)
    /\ \A p \in Parents, s \in Specs : home.count[p][s] \in 0..MaxRestarts
    /\ \A k \in Busy(tasks) : tasks[k].id \in 0..Len(home.inst)
    /\ ToSet(asked) \cup ended \subseteq Specs

(* The records of a parent's children agree.  childOrder lists each child   *)
(* once, the local ones being exactly the actors of its children that nobody *)
(* is stopping; context.children has these same children, and besides them   *)
(* at most some that were stopped by a reference other than the one it holds;*)
(* and every child in remoteChildren is listed by its parent while it lives. *)
ListsAgree ==
    /\ \A p \in home.parents :
          LET order == ToSet(home.order[p])
              children == ToSet(home.children[p])
          IN  /\ IsInjective(home.order[p]) /\ IsInjective(home.children[p])
              /\ order \subseteq children /\ children \ order \subseteq home.others
              /\ {i \in order : ~IsFar(home, i)}
                   = {i \in home.actors \ Stopping : ParentOf(home, i) = p}
    /\ \A i \in home.entries :
          ParentOf(home, i) \in home.parents => i \in ToSet(home.order[ParentOf(home, i)])

(* Of a DynamicSupervisor the code says that context.children is the single *)
(* source of truth: every child in it is an actor.  It is not so of a child  *)
(* stopped by another reference, which stays there and counts for maxChildren.*)
ListedAreThere ==
    \A p \in home.parents :
        home.dynamic => ToSet(home.children[p]) \subseteq home.actors

Quiet == Busy(tasks) = {} /\ wire = {} /\ far.stopping = {}

Live(s) == {i \in home.actors \cup far.actors : Spec_(home, i) = s}

Undisturbed == Quiet /\ ~overlap /\ faults = 0 /\ home.born = 1

(* Crashes and stops handled one at a time neither lose nor duplicate a     *)
(* child: once all is at rest, every child asked for and not stopped has    *)
(* exactly one live instance, and the parent lists it.  The strategies that *)
(* restart several children restart those on home in their first order.     *)
RestartsRestore ==
    Undisturbed =>
        /\ \A s \in ToSet(asked) \ ended : \E i \in ToSet(home.children[1]) : Live(s) = {i}
        /\ strategy # "one-for-one" /\ home.parents # {} =>
              SelectSeq(SpecsOf(home, home.order[1]), LAMBDA s : s \notin FarSpecs)
                = SelectSeq(asked, LAMBDA s : s \notin FarSpecs \cup ended)

\* A stopped parent leaves no child behind, on either node; a child on far that
\* exceeded its restarts is out of its reach.
StopsCascade ==
    Undisturbed /\ home.parents = {} => home.actors \cup (far.actors \ crashed) = {}

\* However crashes, stops and failures interleave, once all is at rest no child
\* that threw is still running on home, unless its parent is gone.
CrashedAreReplaced ==
    Quiet => \A i \in crashed \cap home.actors : ParentOf(home, i) \notin home.parents

=============================================================================
