---------------------------- MODULE TimersProofs ----------------------------
(***************************************************************************)
(* Proofs about the timers of an actor (Timers.tla): a one-shot timer that *)
(* was cancelled stays silent, and a live actor hears of its idle timeout  *)
(* in time, for every number of timers, every delay and every lateness of  *)
(* the event loop.                                                         *)
(***************************************************************************)
EXTENDS Timers, SequenceTheorems, TLAPS

Waiting == ToSet(mailbox)

(* What the arguments need of the types. *)
Typed ==
    /\ handle \in [Timers -> Int \cup {None}]
    /\ timers \subseteq started /\ cancelled \subseteq started
    /\ started \subseteq Timers
    /\ mailbox \in Seq(Timers \cup {Cast})

(* A one-shot timer that is listed, cancelled or not yet started has sent  *)
(* nothing; only a listed one still has a handle, and none is both listed  *)
(* and cancelled.                                                          *)
Silent ==
    \A t \in Timers \ Intervals :
        /\ t \in timers \cup cancelled \/ t \notin started => t \notin Waiting \cup handled
        /\ handle[t] # None => t \in timers

CancelInv == Typed /\ Silent /\ cancelled \cap timers = {}

(* The check of the idle timeout is on its way: its own wait and the time  *)
(* that has passed add up to the timeout, or, after a check that came too  *)
(* early, to nearly twice the timeout.                                     *)
Armed ==
    /\ idleHandle # None
    /\ idleHandle.left >= -MaxLate
    /\ \/ idleFor + idleHandle.left = idleTimeout
       \/ /\ idleHandle.does = "check"
          /\ idleFor + idleHandle.left \in (2 * idleTimeout - Early)..(2 * idleTimeout + MaxLate)

IdleTyped ==
    /\ idleFor \in Nat
    /\ idleTimeout \in IdleTimeouts \cup {0}
    /\ idleHandle \in [left : Int, does : {"check", "schedule"}] \cup {None}

IdleInv ==
    /\ IdleTyped
    /\ actor = "unborn" => idleTimeout = 0
    /\ actor = "live" /\ idleTimeout > 0 => Armed

----------------------------------------------------------------------------
(* Sequences of messages *)

\* The messages that wait after one more was put in.
LEMMA EnqueuedMessages ==
    ASSUME NEW m \in Timers \cup {Cast}, mailbox \in Seq(Timers \cup {Cast})
    PROVE  /\ Enqueued(m) \in Seq(Timers \cup {Cast})
           /\ ToSet(Enqueued(m)) \subseteq Waiting \cup {m}
<1> DEFINE q == Append(mailbox, m)
<1>1. q \in Seq(Timers \cup {Cast}) /\ DOMAIN q = 1..(Len(mailbox) + 1)
  OBVIOUS
<1>2. \A i \in DOMAIN q : q[i] = m \/ (i \in DOMAIN mailbox /\ q[i] = mailbox[i])
  OBVIOUS
<1>3. ToSet(q) \subseteq Waiting \cup {m}
  BY <1>2 DEF ToSet, Waiting
<1> QED BY <1>1, <1>3 DEF Enqueued, Waiting

\* The first message is one of those that wait, and so are all after it.
LEMMA DequeuedMessages ==
    ASSUME mailbox \in Seq(Timers \cup {Cast}), mailbox # <<>>
    PROVE  /\ Tail(mailbox) \in Seq(Timers \cup {Cast})
           /\ Head(mailbox) \in Waiting
           /\ ToSet(Tail(mailbox)) \subseteq Waiting
<1>1. /\ Tail(mailbox) \in Seq(Timers \cup {Cast})
      /\ Head(mailbox) = mailbox[1] /\ 1 \in DOMAIN mailbox
  OBVIOUS
<1>2. \A i \in DOMAIN Tail(mailbox) :
        i + 1 \in DOMAIN mailbox /\ Tail(mailbox)[i] = mailbox[i + 1]
  OBVIOUS
<1> QED BY <1>1, <1>2 DEF ToSet, Waiting

----------------------------------------------------------------------------
(* Cancelled timers *)

\* A timer that is started has a handle.
LEMMA DelaysAreInts == \A t \in Timers : Delay[t] \in Int
BY TimersAssumption

\* Before the actor is spawned nothing has been started.
LEMMA InitCancel == Init => CancelInv
BY DEF Init, CancelInv, Typed, Silent, Waiting, ToSet, NoHandles

\* A step that cancels all listed timers, or leaves all timers alone, and
\* neither sends nor handles a message of a timer.
LEMMA KeptSilent ==
    ASSUME CancelInv, UNCHANGED <<started, cancelled>>, UNCHANGED <<handle, timers>> \/ CancelAll,
           mailbox' \in Seq(Timers \cup {Cast}),
           Waiting' \cup handled' \subseteq Waiting \cup handled \cup {Cast}
    PROVE  CancelInv'
<1> USE DEF CancelInv, Typed
<1>1. Typed' /\ timers' \subseteq timers
  BY DEF CancelAll
<1>2. ASSUME NEW t \in Timers \ Intervals, handle'[t] # None PROVE t \in timers'
  BY <1>2 DEF CancelAll, Silent
<1>3. ASSUME NEW t \in Timers \ Intervals, t \in timers' \cup cancelled' \/ t \notin started'
      PROVE  t \notin Waiting' \cup handled'
  BY <1>1, <1>3, NoneAssumption DEF Silent
<1>4. Silent'
  BY <1>2, <1>3 DEF Silent
<1> QED BY <1>1, <1>4

\* Every step keeps the timers silent that have to be.
LEMMA StepCancel == CancelInv /\ [Next]_vars => CancelInv'
<1> SUFFICES ASSUME CancelInv, [Next]_vars PROVE CancelInv'
  OBVIOUS
<1> USE DEF clocks, messages, idle
<1>1. CASE spawn \/ remoteSpawn \/ HandlerEnds \/ drain \/ undrain \/ shutdown \/ drainMailboxes
  BY <1>1, KeptSilent DEF spawn, remoteSpawn, HandlerEnds, drain, undrain, shutdown,
                          drainMailboxes, CancelInv, Typed, Waiting
<1>2. ASSUME NEW t \in Timers, startActorTimer(t) PROVE CancelInv'
  <2> USE <1>2 DEF startActorTimer, CancelInv, Typed
  <2>0. Delay[t] \in Int
    BY DelaysAreInts
  <2>1. Typed' /\ (cancelled \cap timers = {})'
    BY <2>0
  <2>2. Silent'
    BY DEF Silent, Waiting
  <2> QED BY <2>1, <2>2
<1>3. ASSUME NEW t \in Timers, cancelActorTimer(t) PROVE CancelInv'
  <2> USE <1>3 DEF cancelActorTimer, CancelInv, Typed
  <2>1. Typed' /\ (cancelled \cap timers = {})'
    OBVIOUS
  <2>2. Silent'
    BY DEF Silent, Waiting
  <2> QED BY <2>1, <2>2
<1>4. CASE cancelAllActorTimers
  <2> USE <1>4 DEF cancelAllActorTimers, CancelAll, CancelInv, Typed
  <2>1. Typed' /\ (cancelled \cap timers = {})'
    OBVIOUS
  <2>2. Silent'
    BY DEF Silent, Waiting
  <2> QED BY <2>1, <2>2
<1>5. ASSUME NEW t \in Timers, TimerFires(t) PROVE CancelInv'
  <2> USE <1>5 DEF TimerFires, CancelInv, Typed
  <2>1. Typed' /\ (cancelled \cap timers = {})'
    BY EnqueuedMessages, TimersAssumption
  <2>2. Waiting' \subseteq Waiting \cup {t} /\ (~Exists => Waiting' = Waiting) /\ UNCHANGED handled
    BY EnqueuedMessages DEF Waiting
  <2>3. ASSUME NEW u \in Timers \ Intervals
        PROVE  /\ u \in timers' \cup cancelled' \/ u \notin started' => u \notin Waiting' \cup handled'
               /\ handle'[u] # None => u \in timers'
    <3>1. CASE u # t
      BY <2>2, <2>3, <3>1 DEF Silent
    <3>2. CASE u = t /\ Exists
      <4>1. t \in timers /\ t \notin timers' /\ t \notin cancelled' /\ t \in started' /\ handle'[t] = None
        BY <2>3, <3>2 DEF Silent
      <4> QED BY <3>2, <4>1
    <3>3. CASE u = t /\ ~Exists
      BY <2>2, <2>3, <3>3 DEF Silent
    <3> QED BY <3>1, <3>2, <3>3
  <2>4. Silent'
    BY <2>3 DEF Silent
  <2> QED BY <2>1, <2>4
<1>6. ASSUME NEW v \in IdleTimeouts, setActorIdleTimeout(v) PROVE CancelInv'
  BY <1>6, KeptSilent DEF setActorIdleTimeout, CancelInv, Typed, Waiting
<1>7. CASE cast
  BY <1>7, KeptSilent, EnqueuedMessages DEF cast, CancelInv, Typed, Waiting
<1>8. CASE HandlerStarts
  BY <1>8, KeptSilent, DequeuedMessages DEF HandlerStarts, CancelInv, Typed, Waiting
<1>9. CASE IdleFires
  <2>1. UNCHANGED <<handle, timers>> \/ CancelAll
    BY <1>9 DEF IdleFires, Checked, Reacts
  <2> QED BY <1>9, <2>1, KeptSilent DEF IdleFires, CancelInv, Typed, Waiting
<1>10. CASE Tick
  <2> USE <1>10 DEF Tick, CancelInv, Typed
  <2>1. Typed' /\ (cancelled \cap timers = {})'
    OBVIOUS
  <2>2. Silent'
    BY DEF Silent, Waiting
  <2> QED BY <2>1, <2>2
<1>11. CASE stop
  BY <1>11, KeptSilent DEF stop, CancelInv, Typed, Waiting
<1>12. CASE StopEnds \/ cleanupActorForMigration \/ ShutdownEnds
  <2>1. mailbox' \in {mailbox, <<>>}
    BY <1>12 DEF StopEnds, cleanupActorForMigration, ShutdownEnds, Deleted
  <2>2. mailbox' \in Seq(Timers \cup {Cast}) /\ Waiting' \subseteq Waiting
    <3>1. CASE mailbox' = mailbox
      BY <3>1 DEF CancelInv, Typed, Waiting
    <3>2. CASE mailbox' = <<>>
      <4>1. Waiting' = {}
        BY <3>2 DEF Waiting, ToSet
      <4> QED BY <3>2, <4>1
    <3> QED BY <2>1, <3>1, <3>2
  <2> QED BY <1>12, <2>2, KeptSilent DEF StopEnds, cleanupActorForMigration, ShutdownEnds
<1>13. CASE UNCHANGED vars
  BY <1>13, KeptSilent DEF vars, CancelInv, Typed, Waiting
<1> QED BY <1>1, <1>2, <1>3, <1>4, <1>5, <1>6, <1>7, <1>8, <1>9, <1>10, <1>11, <1>12, <1>13
        DEF Next

\* For any timers and delays: once cancelTimer has returned true for a one-shot
\* timer, its message was not and will not be delivered, however the cancel
\* races expiry, queueing, stop, migration and shutdown.
THEOREM CancelIsFinal == Spec => []CancelledStaysCancelled
<1>1. CancelInv => CancelledStaysCancelled
  BY DEF CancelInv, Typed, Silent, CancelledStaysCancelled, Waiting
<1> QED BY InitCancel, StepCancel, <1>1, PTL DEF Spec

----------------------------------------------------------------------------
(* The idle timeout *)

\* The longest timeout is as long as any.
LEMMA LongestIsLongest == \A v \in IdleTimeouts \cup {0} : v \in Nat /\ v <= Longest /\ Longest \in Nat
<1>1. Longest \in IdleTimeouts /\ \A w \in IdleTimeouts : w <= Longest
  BY TimersAssumption DEF Longest
<1>2. IdleTimeouts \subseteq Nat
  BY TimersAssumption
<1> QED BY <1>1, <1>2

\* Before the actor is spawned it has no idle timeout.
LEMMA InitIdle == Init => IdleInv
BY DEF Init, IdleInv, IdleTyped

\* A check that was just scheduled is armed.
LEMMA ScheduledIsArmed ==
    ASSUME NEW v \in IdleTimeouts, v > 0, idleTimeout' = v, idleFor' = 0,
           idleHandle' = [left |-> v, does |-> "check"]
    PROVE  Armed'
<1>1. v \in Nat /\ MaxLate \in Nat
  BY TimersAssumption
<1>2. idleHandle' # None
  BY <1>1, NoneAssumption
<1> QED BY <1>1, <1>2 DEF Armed

\* A step that leaves the idle timeout alone and does not revive the actor.
LEMMA KeptIdle ==
    ASSUME IdleInv, UNCHANGED <<idleTimeout, idleFor, idleHandle>>,
           actor' # actor => (actor' = "live" => actor = "unborn") /\ actor' # "unborn"
    PROVE  IdleInv'
<1>1. IdleTyped' /\ (Armed => Armed')
  BY DEF IdleInv, IdleTyped, Armed
<1> QED BY <1>1 DEF IdleInv

\* Every step keeps the check on its way.
LEMMA StepIdle == IdleInv /\ [Next]_vars => IdleInv'
<1> SUFFICES ASSUME IdleInv, [Next]_vars PROVE IdleInv'
  OBVIOUS
<1> USE DEF clocks, messages, idle
<1>0. /\ Early \in Nat /\ MaxLate \in Nat /\ IdleTimeouts \cup {0} \subseteq Nat
      /\ \A v \in IdleTimeouts : v > 0 => v > 2 * Early
  BY TimersAssumption
<1>2. CASE spawn \/ remoteSpawn
  BY <1>2, KeptIdle DEF spawn, remoteSpawn
<1>3. ASSUME NEW t \in Timers, startActorTimer(t) \/ cancelActorTimer(t) \/ TimerFires(t)
      PROVE  IdleInv'
  BY <1>3, KeptIdle DEF startActorTimer, cancelActorTimer, TimerFires
<1>4. CASE cancelAllActorTimers \/ cast \/ HandlerEnds \/ drain \/ undrain \/ shutdown \/ drainMailboxes
  BY <1>4, KeptIdle DEF cancelAllActorTimers, cast, HandlerEnds, drain, undrain, shutdown, drainMailboxes
<1>5. CASE StopEnds \/ cleanupActorForMigration \/ ShutdownEnds
  BY <1>5, KeptIdle DEF StopEnds, cleanupActorForMigration, ShutdownEnds, Deleted
<1>6. ASSUME NEW v \in IdleTimeouts, setActorIdleTimeout(v) PROVE IdleInv'
  <2> USE <1>6 DEF setActorIdleTimeout
  <2>1. IdleTyped'
    BY <1>0 DEF IdleInv, IdleTyped, Scheduled
  <2>2. actor' # "unborn"
    BY DEF Exists
  <2>3. v > 0 => Armed'
    BY ScheduledIsArmed DEF Scheduled
  <2> QED BY <2>1, <2>2, <2>3 DEF IdleInv
<1>7. CASE HandlerStarts
  <2> USE <1>7 DEF HandlerStarts, resetIdleTimeout
  <2>1. IdleTyped'
    BY <1>0 DEF IdleInv, IdleTyped, Scheduled
  <2>2. actor' # "unborn"
    BY DEF Exists
  <2>3. idleTimeout > 0 => Armed'
    BY ScheduledIsArmed DEF Scheduled, IdleInv, IdleTyped
  <2> QED BY <2>1, <2>2, <2>3 DEF IdleInv
<1>8. CASE IdleFires
  <2> USE <1>8 DEF IdleFires
  <2>1. CASE idleHandle.does = "schedule"
    <3>1. idleHandle' = Scheduled(idleTimeout) /\ UNCHANGED <<actor, idleTimeout, idleFor>>
      BY <2>1
    <3>2. IdleTyped'
      BY <1>0, <3>1 DEF IdleInv, IdleTyped, Scheduled
    <3>3. ASSUME actor = "live", idleTimeout > 0 PROVE Armed'
      <4>1. /\ idleFor + idleHandle.left = idleTimeout
            /\ idleHandle.left >= -MaxLate /\ idleHandle.left <= Early
        BY <2>1, <3>3 DEF IdleInv, Armed
      <4>2. idleHandle' = [left |-> idleTimeout, does |-> "check"]
        BY <3>1, <3>3 DEF Scheduled
      <4>3. idleHandle' # None /\ idleHandle.left \in Int /\ idleTimeout \in Nat /\ idleFor \in Nat
        BY <1>0, <4>2, NoneAssumption DEF IdleInv, IdleTyped
      <4>4. idleFor + idleTimeout \in (2 * idleTimeout - Early)..(2 * idleTimeout + MaxLate)
        BY <1>0, <4>1, <4>3
      <4> QED BY <1>0, <3>1, <4>2, <4>3, <4>4 DEF Armed
    <3> QED BY <3>1, <3>2, <3>3 DEF IdleInv
  <2>2. CASE idleHandle.does = "check" /\ ~Exists
    BY <1>0, <2>2 DEF IdleInv, IdleTyped, Exists
  <2>3. CASE idleHandle.does = "check" /\ Exists /\ idleFor >= idleTimeout
    <3>1. idleFor' = 0 /\ Reacts
      BY <2>3 DEF Checked
    <3>2. IdleTyped' /\ actor' # "unborn"
      BY <1>0, <2>3, <3>1 DEF IdleInv, IdleTyped, Reacts, Scheduled, Exists
    <3>3. ASSUME actor' = "live", idleTimeout' > 0 PROVE Armed'
      <4>1. idleTimeout' = idleTimeout /\ idleTimeout \in IdleTimeouts
            /\ idleHandle' = [left |-> idleTimeout, does |-> "check"]
        BY <3>1, <3>3 DEF Reacts, Scheduled, IdleInv, IdleTyped
      <4> QED BY <3>1, <3>3, <4>1, ScheduledIsArmed
    <3> QED BY <3>2, <3>3 DEF IdleInv
  <2>4. CASE idleHandle.does = "check" /\ Exists /\ ~(idleFor >= idleTimeout)
    <3>1. /\ idleHandle' = [left |-> idleTimeout - idleFor, does |-> "schedule"]
          /\ UNCHANGED <<actor, idleTimeout, idleFor>>
      BY <2>4 DEF Checked
    <3>2. IdleTyped' /\ actor' # "unborn"
      BY <1>0, <2>4, <3>1 DEF IdleInv, IdleTyped, Exists
    <3>3. Armed'
      <4>1. idleHandle' # None
        BY <1>0, <3>1, NoneAssumption DEF IdleInv, IdleTyped
      <4> QED BY <1>0, <2>4, <3>1, <4>1 DEF IdleInv, IdleTyped, Armed
    <3> QED BY <3>2, <3>3 DEF IdleInv
  <2> QED BY <2>1, <2>2, <2>3, <2>4 DEF IdleInv, IdleTyped
<1>9. CASE Tick
  <2> USE <1>9 DEF Tick
  <2>1. IdleTyped'
    BY <1>0 DEF IdleInv, IdleTyped
  <2>2. ASSUME actor = "live", idleTimeout > 0 PROVE Armed'
    <3>1. Armed
      BY <2>2 DEF IdleInv
    <3>2. idleFor \in Nat /\ idleTimeout \in Nat /\ idleHandle \in [left : Int, does : {"check", "schedule"}]
      BY <1>0, <3>1 DEF IdleInv, IdleTyped, Armed
    <3>3. idleFor < MaxIdle
      BY <1>0, <3>1, <3>2, LongestIsLongest DEF Armed, MaxIdle, IdleInv, IdleTyped
    <3>4. /\ idleFor' = idleFor + 1 /\ idleHandle'.left = idleHandle.left - 1
          /\ idleHandle'.does = idleHandle.does /\ idleHandle' # None
      BY <2>2, <3>1, <3>2, <3>3, NoneAssumption DEF Armed
    <3>5. idleHandle.left > -MaxLate
      BY <3>1 DEF Armed
    <3>6. idleHandle'.left >= -MaxLate
      BY <1>0, <3>2, <3>4, <3>5
    <3>7. idleFor' + idleHandle'.left = idleFor + idleHandle.left
      BY <3>2, <3>4
    <3> QED BY <3>1, <3>4, <3>6, <3>7 DEF Armed
  <2> QED BY <2>1, <2>2 DEF IdleInv
<1>10. CASE stop
  BY <1>10, <1>0 DEF stop, IdleInv, IdleTyped
<1>11. CASE UNCHANGED vars
  BY <1>11, KeptIdle DEF vars
<1> QED BY <1>2, <1>3, <1>4, <1>5, <1>6, <1>7, <1>8, <1>9, <1>10, <1>11 DEF Next

\* For any timeouts, any rounding of the clock and any lateness of callbacks:
\* a live actor is told within twice its idle timeout and the delays of two
\* callbacks.
THEOREM IdleIsTold == Spec => []TimedOutInTime
<1>1. IdleInv => TimedOutInTime
  <2> SUFFICES ASSUME IdleInv, actor = "live", idleTimeout > 0
               PROVE  idleFor <= 2 * idleTimeout + 2 * MaxLate
    BY DEF TimedOutInTime
  <2>1. Armed /\ idleFor \in Nat /\ idleTimeout \in Nat /\ MaxLate \in Nat /\ Early \in Nat
    BY TimersAssumption DEF IdleInv, IdleTyped
  <2>2. idleHandle.left \in Int
    BY <2>1 DEF IdleInv, IdleTyped, Armed
  <2> QED BY <2>1, <2>2 DEF Armed
<1> QED BY InitIdle, StepIdle, <1>1, PTL DEF Spec
=============================================================================
