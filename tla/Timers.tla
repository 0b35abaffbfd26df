------------------------------- MODULE Timers -------------------------------
(***************************************************************************)
(* The timers and the idle timeout of one actor, and how stop, shutdown,   *)
(* drain and migration end them (src/src/actor_system.ts).                 *)
(*                                                                         *)
(* Time is kept as what is left of each pending setTimeout or setInterval. *)
(* A callback runs at most MaxLate after it is due, and, because Date.now  *)
(* and the event loop's clock are rounded, an idle check may find that up  *)
(* to Early less than the timeout has passed.                              *)
(***************************************************************************)
EXTENDS Integers, FiniteSets, Sequences, SequencesExt

CONSTANTS
    Timers,          \* the timers the actor may start, each once
    Intervals,       \* those of sendInterval; the others are of sendAfter
    Delay,           \* delayMs of each timer
    IdleTimeouts,    \* arguments of setIdleTimeout; 0 turns it off
    Early, MaxLate,
    Cast,            \* a message of somebody else
    None,
    MaxMailbox       \* bound of the model: messages waiting

ASSUME TimersAssumption ==
    /\ Intervals \subseteq Timers
    /\ Delay \in [Timers -> Nat \ {0}]
    /\ Early \in Nat /\ MaxLate \in Nat
    /\ IdleTimeouts \subseteq {0} \cup {v \in Nat : v > 2 * Early}
    /\ \E v \in IdleTimeouts : \A w \in IdleTimeouts : w <= v
    /\ MaxMailbox \in Nat

\* A message of a timer is no cast, and None is no handle.
ASSUME NoneAssumption ==
    /\ Cast \notin Timers
    /\ None \notin Int /\ None \notin [left : Int, does : {"check", "schedule"}]

VARIABLES
    actor,           \* "unborn", "live", "stopping" (stop awaits), "gone"
    system,          \* "running", "draining", "terminating" or "down"
    refusing,        \* _isDraining
    handle,          \* what is left of each timer's handle, or None
    timers,          \* the keys of context.timers
    started,         \* timers started so far
    cancelled,       \* history: timers whose cancel returned true
    mailbox,
    handling,        \* the message of a handler that is suspended, or None
    handled,         \* history: timers a message of which was handled
    idleTimeout,
    idleFor,         \* Date.now() - lastActivityTime
    idleHandle       \* idleTimeoutHandle: what is left and what it will do, or None

clocks == <<handle, timers, started, cancelled>>
idle == <<idleTimeout, idleFor, idleHandle>>
messages == <<mailbox, handling, handled>>
vars == <<actor, system, refusing, clocks, messages, idle>>

\* actors.has(id)
Exists == actor \in {"live", "stopping"}

NoHandles == [t \in Timers |-> None]

Init ==
    /\ actor = "unborn" /\ system = "running" /\ refusing = FALSE
    /\ handle = NoHandles /\ timers = {} /\ started = {} /\ cancelled = {}
    /\ mailbox = <<>> /\ handling = None /\ handled = {}
    /\ idleTimeout = 0 /\ idleFor = 0 /\ idleHandle = None

\* spawn and spawnChild are refused in drain mode and during a shutdown.
spawn ==
    /\ actor = "unborn" /\ system = "running" /\ ~refusing
    /\ actor' = "live"
    /\ UNCHANGED <<system, refusing, clocks, messages, idle>>

\* A parent on another node, or a migration, is not refused.
remoteSpawn ==
    /\ actor = "unborn"
    /\ actor' = "live"
    /\ UNCHANGED <<system, refusing, clocks, messages, idle>>

----------------------------------------------------------------------------
(* What the actor's code may call at any time, from handlers or after an   *)
(* await.                                                                  *)

startActorTimer(t) ==
    /\ Exists /\ t \notin started
    /\ started' = started \cup {t}
    /\ handle' = [handle EXCEPT ![t] = Delay[t]]
    /\ timers' = timers \cup {t}
    /\ UNCHANGED <<actor, system, refusing, cancelled, messages, idle>>

\* It returns false, and changes nothing, for a timer that is not listed.
cancelActorTimer(t) ==
    /\ Exists /\ t \in timers
    /\ handle' = [handle EXCEPT ![t] = None]
    /\ timers' = timers \ {t}
    /\ cancelled' = cancelled \cup {t}
    /\ UNCHANGED <<actor, system, refusing, started, messages, idle>>

CancelAll ==
    /\ handle' = [t \in Timers |-> IF t \in timers THEN None ELSE handle[t]]
    /\ timers' = {}

cancelAllActorTimers ==
    /\ Exists /\ timers # {}
    /\ CancelAll
    /\ cancelled' = cancelled \cup timers
    /\ UNCHANGED <<actor, system, refusing, started, messages, idle>>

\* _scheduleIdleTimeout: a new check after the timeout v, in place of another.
Scheduled(v) == IF v > 0 THEN [left |-> v, does |-> "check"] ELSE idleHandle

setActorIdleTimeout(v) ==
    /\ Exists
    /\ idleTimeout' = v
    /\ idleFor' = IF v > 0 THEN 0 ELSE idleFor
    /\ idleHandle' = IF v > 0 THEN Scheduled(v) ELSE None
    /\ UNCHANGED <<actor, system, refusing, clocks, messages>>

\* _resetIdleTimeout, when a message is taken from the mailbox.
resetIdleTimeout ==
    /\ idleFor' = IF idleTimeout > 0 THEN 0 ELSE idleFor
    /\ idleHandle' = Scheduled(idleTimeout)
    /\ UNCHANGED idleTimeout

----------------------------------------------------------------------------
(* The event loop.                                                         *)

Enqueued(m) == IF Len(mailbox) < MaxMailbox THEN Append(mailbox, m) ELSE mailbox

cast ==
    /\ Exists /\ Len(mailbox) < MaxMailbox
    /\ mailbox' = Enqueued(Cast)
    /\ UNCHANGED <<actor, system, refusing, clocks, handling, handled, idle>>

\* Mutant: a one-shot timer that has fired stays listed.
TimerFiresStaysListed(t) ==
    /\ handle[t] # None /\ handle[t] <= 0
    /\ IF Exists
       THEN /\ mailbox' = Enqueued(t)
            /\ handle' = [handle EXCEPT ![t] = IF t \in Intervals THEN Delay[t] ELSE None]
            /\ UNCHANGED timers
       ELSE /\ handle' = [handle EXCEPT ![t] = None]
            /\ UNCHANGED <<mailbox, timers>>
    /\ UNCHANGED <<actor, system, refusing, started, cancelled, handling, handled, idle>>

\* Mutant: an interval whose actor is gone goes on.
TimerFiresForever(t) ==
    /\ handle[t] # None /\ handle[t] <= 0
    /\ handle' = [handle EXCEPT ![t] = IF t \in Intervals THEN Delay[t] ELSE None]
    /\ IF Exists
       THEN /\ mailbox' = Enqueued(t)
            /\ timers' = IF t \in Intervals THEN timers ELSE timers \ {t}
       ELSE UNCHANGED <<mailbox, timers>>
    /\ UNCHANGED <<actor, system, refusing, started, cancelled, handling, handled, idle>>

\* The callback of startActorTimer.  An interval that outlives its actor finds
\* its own entry and clears itself.
TimerFires(t) ==
    /\ handle[t] # None /\ handle[t] <= 0
    /\ IF Exists
       THEN /\ mailbox' = Enqueued(t)
            /\ handle' = [handle EXCEPT ![t] = IF t \in Intervals THEN Delay[t] ELSE None]
            /\ timers' = IF t \in Intervals THEN timers ELSE timers \ {t}
       ELSE /\ handle' = [handle EXCEPT ![t] =
                  IF t \in Intervals /\ t \notin timers THEN Delay[t] ELSE None]
            /\ UNCHANGED <<mailbox, timers>>
    /\ UNCHANGED <<actor, system, refusing, started, cancelled, handling, handled, idle>>

\* processMailbox takes a message; its handler ends at once or is suspended.
HandlerStarts ==
    /\ Exists /\ handling = None /\ mailbox # <<>>
    /\ handling' \in {None, Head(mailbox)}
    /\ mailbox' = Tail(mailbox)
    /\ handled' = handled \cup ({Head(mailbox)} \ {Cast})
    /\ resetIdleTimeout
    /\ UNCHANGED <<actor, system, refusing, clocks>>

HandlerEnds ==
    /\ handling # None
    /\ handling' = None
    /\ UNCHANGED <<actor, system, refusing, clocks, mailbox, handled, idle>>

\* What handleInfo(timeout) may do before the timeout is scheduled again: the
\* stop it begins has cleared the handle, and a new one is made.
Reacts ==
    \/ /\ idleHandle' = Scheduled(idleTimeout)
       /\ UNCHANGED <<actor, idleTimeout, handle, timers>>
    \/ /\ actor' = "stopping"
       /\ CancelAll
       /\ idleHandle' = Scheduled(idleTimeout)
       /\ UNCHANGED idleTimeout
    \/ /\ 0 \in IdleTimeouts /\ idleTimeout' = 0 /\ idleHandle' = None
       /\ UNCHANGED <<actor, handle, timers>>

\* Mutant: the check that came too early is not followed by another.
CheckedNoMore ==
    IF idleFor >= idleTimeout
    THEN idleFor' = 0 /\ Reacts
    ELSE idleHandle' = None /\ UNCHANGED <<actor, idleTimeout, idleFor, handle, timers>>

\* A check that is due too early waits for the rest, and then once more for
\* the whole timeout.
Checked ==
    IF idleFor >= idleTimeout
    THEN idleFor' = 0 /\ Reacts
    ELSE /\ idleHandle' = [left |-> idleTimeout - idleFor, does |-> "schedule"]
         /\ UNCHANGED <<actor, idleTimeout, idleFor, handle, timers>>

\* The callbacks of _scheduleIdleTimeout.
IdleFires ==
    /\ idleHandle # None /\ idleHandle.left <= Early
    /\ CASE idleHandle.does = "schedule" ->
              /\ idleHandle' = Scheduled(idleTimeout)
              /\ UNCHANGED <<actor, idleTimeout, idleFor, handle, timers>>
         [] idleHandle.does = "check" /\ ~Exists ->
              /\ idleHandle' = None
              /\ UNCHANGED <<actor, idleTimeout, idleFor, handle, timers>>
         [] OTHER -> Checked
    /\ UNCHANGED <<system, refusing, started, cancelled, messages>>

\* idleFor need not be told apart beyond every timeout and delay.
Longest == CHOOSE v \in IdleTimeouts : \A w \in IdleTimeouts : w <= v
MaxIdle == 2 * Longest + 3 * MaxLate + 1

\* Time passes, unless a callback is as late as it can be.
Tick ==
    /\ \A t \in Timers : handle[t] # None => handle[t] > -MaxLate
    /\ idleHandle # None => idleHandle.left > -MaxLate
    /\ handle' = [t \in Timers |-> IF handle[t] = None THEN None ELSE handle[t] - 1]
    /\ idleHandle' = IF idleHandle = None THEN None ELSE [idleHandle EXCEPT !.left = @ - 1]
    /\ idleFor' = IF idleTimeout > 0 /\ idleFor < MaxIdle THEN idleFor + 1 ELSE idleFor
    /\ UNCHANGED <<actor, system, refusing, timers, started, cancelled, messages, idleTimeout>>

----------------------------------------------------------------------------
(* The ends of an actor and of the system.                                 *)

\* stop and stopSingle, up to their awaits.  A second stop does the same.
stop ==
    /\ Exists
    /\ actor' = "stopping"
    /\ CancelAll
    /\ idleHandle' = None
    /\ UNCHANGED <<system, refusing, started, cancelled, messages, idleTimeout, idleFor>>

\* After them: the actor and its mailbox are deleted.
Deleted ==
    /\ actor' = "gone"
    /\ mailbox' = <<>>

StopEnds ==
    /\ actor = "stopping"
    /\ Deleted
    /\ UNCHANGED <<system, refusing, clocks, handling, handled, idle>>

\* _cleanupActorForMigration: the idle timeout is left to find out.
cleanupActorForMigration ==
    /\ Exists
    /\ CancelAll
    /\ Deleted
    /\ UNCHANGED <<system, refusing, started, cancelled, handling, handled, idle>>

drain ==
    /\ ~refusing
    /\ refusing' = TRUE
    /\ UNCHANGED <<actor, system, clocks, messages, idle>>

undrain ==
    /\ refusing
    /\ refusing' = FALSE
    /\ UNCHANGED <<actor, system, clocks, messages, idle>>

shutdown ==
    /\ system = "running"
    /\ system' = "draining"
    /\ UNCHANGED <<actor, refusing, clocks, messages, idle>>

\* _drainMailboxes ends, with empty mailboxes or by its timeout (drainMailboxes
\* may also be false).  The actors that are there then are terminated.
drainMailboxes ==
    /\ system = "draining"
    /\ system' = IF Exists THEN "terminating" ELSE "down"
    /\ UNCHANGED <<actor, refusing, clocks, messages, idle>>

\* Names are unregistered and terminate has ended, failed or timed out: the
\* actor is deleted.  Its timers are not cancelled.
ShutdownEnds ==
    /\ system = "terminating"
    /\ system' = "down"
    /\ IF Exists THEN Deleted ELSE UNCHANGED <<actor, mailbox>>
    /\ UNCHANGED <<refusing, clocks, handling, handled, idle>>

----------------------------------------------------------------------------
Next ==
    \/ spawn \/ remoteSpawn
    \/ \E t \in Timers : startActorTimer(t) \/ cancelActorTimer(t) \/ TimerFires(t)
    \/ cancelAllActorTimers
    \/ \E v \in IdleTimeouts : setActorIdleTimeout(v)
    \/ cast \/ HandlerStarts \/ HandlerEnds \/ IdleFires \/ Tick
    \/ stop \/ StopEnds \/ cleanupActorForMigration
    \/ drain \/ undrain \/ shutdown \/ drainMailboxes \/ ShutdownEnds

\* Time passes and the event loop runs what is due; the shutdown's own timers
\* end its waits.  Handlers need not end.
Fairness ==
    /\ WF_vars(Tick) /\ WF_vars(IdleFires)
    /\ \A t \in Timers : WF_vars(TimerFires(t))
    /\ WF_vars(drainMailboxes) /\ WF_vars(ShutdownEnds)

Spec == Init /\ [][Next]_vars /\ Fairness

----------------------------------------------------------------------------
(* Properties.                                                             *)

(* A timer is cancelled or it fires: once cancelTimer has returned true for*)
(* a sendAfter timer, or cancelAllTimers has cancelled it, its message is  *)
(* not waiting, was not handled, and cannot come any more, although        *)
(* cancels race expiry, queueing, stop and migration.                      *)
CancelledStaysCancelled ==
    \A t \in cancelled \ Intervals :
        handle[t] = None /\ t \notin ToSet(mailbox) \cup handled

(* A live actor with an idle timeout hears of it within twice the timeout, *)
(* and the delays of two callbacks, of its last message or timeout:        *)
(* whatever resets, re-arms and checks that came too early did before.     *)
TimedOutInTime ==
    actor = "live" /\ idleTimeout > 0 => idleFor <= 2 * idleTimeout + 2 * MaxLate

(* Nothing of an actor that is gone stays behind in the event loop, however*)
(* it ended and whatever it started while it was stopping; and a shutdown  *)
(* comes to its end although timers keep filling mailboxes and handlers do *)
(* not return.                                                             *)
EndsQuietly ==
    /\ actor = "gone" ~> handle = NoHandles /\ idleHandle = None
    /\ system = "draining" ~> system = "down"

(* README.md:1586: shutdown "drains mailboxes, calls terminate() on all    *)
(* actors": nobody is left when it has ended.                              *)
NobodyLeft == system = "down" => ~Exists

=============================================================================
