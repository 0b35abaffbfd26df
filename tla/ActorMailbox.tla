---------------------------- MODULE ActorMailbox ----------------------------
(***************************************************************************)
(* How ActorSystem (src/src/actor_system.ts) feeds one actor: dispatch of  *)
(* casts and calls, the call fast path, the processMailbox loops started   *)
(* by setImmediate, stashing, stopping, and the source side of a           *)
(* migration, which pauses, drains and refills the mailbox.                *)
(*                                                                         *)
(* JavaScript runs to completion: a step of the model is a stretch of code *)
(* without await.  A loop in state "ready" holds the thread, so nothing    *)
(* else happens until it suspends in a handler or ends.  A handler may     *)
(* finish at once or suspend (return a promise) and finish later.          *)
(***************************************************************************)
EXTENDS Integers, Sequences, FiniteSets, SequencesExt

CONSTANTS
    Casts, Calls,   \* the messages sent to the actor, each at most once
    Loops,          \* the executions of processMailbox that may overlap
    NoMsg,
    BatchSize,      \* MAILBOX_BATCH_SIZE
    MaxMigrations   \* bound of the model: attempts to migrate the actor

ASSUME ActorMailboxAssumption ==
    /\ Casts \intersect Calls = {}
    /\ NoMsg \notin Casts \union Calls
    /\ BatchSize \in Nat \ {0}
    /\ MaxMigrations \in Nat

Msgs == Casts \union Calls

(* How a handler ends: it throws, or returns after having called at most   *)
(* one of this.stash(), unstash(), unstashAll() and clearStash().          *)
Outcomes == {"return", "throw", "stash", "unstash", "unstashAll", "clearStash"}

VARIABLES
    alive,       \* actors.has(id) and mailboxes.has(id)
    stopping,    \* stop() or a restart has begun and awaits
    mailbox,     \* mailboxes.get(id), oldest first
    stash,       \* context.stash
    currentMessage, \* context.currentMessage, or NoMsg
    paused,      \* pausedMailboxes.has(id)
    processing,  \* processingActors.has(id)
    scheduled,   \* mailboxScheduled.has(id)
    immediates,  \* setImmediate callbacks that will run processMailbox
    loop,        \* each processMailbox: "idle", "ready" or "suspended"
    working,     \* the message a loop's handler works on
    count,       \* messages a loop processed in this batch
    direct,      \* fast-path calls whose handler is suspended
    prevMessage, \* prevMessage of each fast-path call
    replyTo,     \* calls with resolve, reject and a timer
    caller,      \* what the sender of each call knows
    migration,   \* "none", "preparing", "draining", "executing" or "done"
    attempts,    \* migrations started
    quiet,       \* the drain did not time out
    moved,       \* pendingMessages of the migration
    sent,        \* history: messages in the order they were dispatched
    deferred,    \* history: messages that were stashed at least once
    started,     \* history: the others, in the order their handlers started
    overtook     \* history: a fast-path call was made before a pending callback ran

queues    == <<mailbox, stash, currentMessage>>
tokens    == <<scheduled, immediates>>
loops     == <<loop, working, count>>
calls     == <<direct, prevMessage, replyTo, caller>>
migrating == <<migration, attempts, quiet, moved>>
life      == <<alive, stopping>>
history   == <<sent, deferred, started>>

vars == <<life, queues, paused, processing, tokens, loops, calls, migrating, history>>
allVars == <<vars, overtook>>

Init ==
    /\ alive = TRUE /\ stopping = FALSE
    /\ mailbox = <<>> /\ stash = <<>> /\ currentMessage = NoMsg
    /\ paused = FALSE /\ processing = FALSE
    /\ scheduled = TRUE /\ immediates = 1       \* the last line of spawn()
    /\ loop = [l \in Loops |-> "idle"]
    /\ working = [l \in Loops |-> NoMsg]
    /\ count = [l \in Loops |-> 0]
    /\ direct = {} /\ prevMessage = [k \in Calls |-> NoMsg]
    /\ replyTo = {} /\ caller = [k \in Calls |-> "idle"]
    /\ migration = "none" /\ attempts = 0 /\ quiet = TRUE /\ moved = <<>>
    /\ sent = <<>> /\ deferred = {} /\ started = <<>> /\ overtook = FALSE

\* No processMailbox loop holds the JavaScript thread.
ThreadFree == \A l \in Loops : loop[l] # "ready"

\* scheduleProcessMailbox, when pausedMailboxes.has(id) is p.
scheduleProcessMailbox(p) ==
    IF scheduled \/ p \/ ~alive
    THEN UNCHANGED tokens
    ELSE scheduled' = TRUE /\ immediates' = immediates + 1

StartedWith(m) == IF m \in deferred THEN started ELSE Append(started, m)

----------------------------------------------------------------------------
(* The part of a handler's end that is the actor's own doing.  box is the  *)
(* mailbox and cur context.currentMessage at that moment, the message that *)
(* stash() puts aside.                                                     *)

HandlerEnds(box, cur, outcome) ==
    \/ /\ outcome \in {"return", "throw"}
       /\ mailbox' = box
       /\ UNCHANGED <<stash, deferred>>
    \/ /\ outcome = "stash"
       /\ stash' = IF cur = NoMsg THEN stash ELSE Append(stash, cur)
       /\ deferred' = deferred \union ({cur} \ {NoMsg})
       /\ mailbox' = box
    \/ /\ outcome = "unstashAll"
       /\ mailbox' = IF alive THEN stash \o box ELSE box
       /\ stash' = <<>>
       /\ UNCHANGED deferred
    \/ /\ outcome = "unstash"
       /\ stash # <<>>
       /\ mailbox' = IF alive THEN <<Head(stash)>> \o box ELSE box
       /\ stash' = Tail(stash)
       /\ UNCHANGED deferred
    \/ /\ outcome = "clearStash"
       /\ stash' = <<>>
       /\ mailbox' = box
       /\ UNCHANGED deferred

Reschedules(outcome) == outcome \in {"unstash", "unstashAll"} /\ stash # <<>>

\* The callers, once clearStash has rejected the calls it throws away.
CallerAfter(outcome) ==
    [k \in Calls |->
        IF outcome = "clearStash" /\ k \in Range(stash) \intersect replyTo
              /\ caller[k] = "waiting"
        THEN "failed" ELSE caller[k]]

wasStashed(m) == m \in Range(stash')

----------------------------------------------------------------------------
(* dispatchCast and dispatchCall *)

Unsent(m) == m \notin Range(sent)

dispatchCast(m) ==
    /\ ThreadFree /\ alive /\ Unsent(m)
    /\ mailbox' = Append(mailbox, m)
    /\ sent' = Append(sent, m)
    /\ scheduleProcessMailbox(paused)
    /\ UNCHANGED <<life, stash, currentMessage, paused, processing, loops,
                   calls, migrating, deferred, started>>

\* Mutants of FastPath, each without one of the three conditions.
FastPathQueueJumping == ~processing /\ ~paused

FastPathReentrant == ~paused /\ mailbox = <<>>

FastPathWhilePaused == ~processing /\ mailbox = <<>>

FastPath == ~processing /\ ~paused /\ mailbox = <<>>

\* The slow path: the call queues behind the others, with a timer.
CallQueued(k) ==
    /\ ThreadFree /\ alive /\ Unsent(k)
    /\ ~FastPath
    /\ mailbox' = Append(mailbox, k)
    /\ sent' = Append(sent, k)
    /\ replyTo' = replyTo \union {k}
    /\ caller' = [caller EXCEPT ![k] = "waiting"]
    /\ scheduleProcessMailbox(paused)
    /\ UNCHANGED <<life, stash, currentMessage, paused, processing, loops,
                   direct, prevMessage, migrating, deferred, started>>

\* _syncLocalCall up to the await: both flags are set, no timer is.
CallDirectSuspends(k) ==
    /\ ThreadFree /\ alive /\ Unsent(k)
    /\ FastPath
    /\ processing' = TRUE /\ scheduled' = TRUE
    /\ prevMessage' = [prevMessage EXCEPT ![k] = currentMessage]
    /\ currentMessage' = k
    /\ direct' = direct \union {k}
    /\ caller' = [caller EXCEPT ![k] = "direct"]
    /\ sent' = Append(sent, k)
    /\ started' = StartedWith(k)
    /\ UNCHANGED <<life, mailbox, stash, paused, immediates, loops, replyTo,
                   migrating, deferred>>

\* Mutant of DirectSettles: a stashed call gets no resolve, reject and timer.
DirectSettlesForgetfully(k, outcome, s, i) ==
    /\ caller' = [CallerAfter(outcome) EXCEPT ![k] =
                     IF outcome = "throw" THEN "failed"
                     ELSE IF wasStashed(k) THEN "direct" ELSE "answered"]
    /\ processing' = FALSE
    /\ IF mailbox' # <<>> /\ alive /\ ~paused
       THEN immediates' = i + 1 /\ scheduled' = s
       ELSE immediates' = i /\ scheduled' = FALSE
    /\ UNCHANGED replyTo

\* The end of _syncLocalCall.  s and i are mailboxScheduled and the pending
\* callbacks when the finally block begins.
DirectSettles(k, outcome, s, i) ==
    /\ \/ /\ outcome = "throw"
          /\ caller' = [caller EXCEPT ![k] = "failed"]
          /\ UNCHANGED replyTo
       \/ /\ outcome # "throw" /\ wasStashed(k)
          /\ caller' = [CallerAfter(outcome) EXCEPT ![k] = "waiting"]
          /\ replyTo' = replyTo \union {k}
       \/ /\ outcome # "throw" /\ ~wasStashed(k)
          /\ caller' = [CallerAfter(outcome) EXCEPT ![k] = "answered"]
          /\ UNCHANGED replyTo
    /\ processing' = FALSE
    /\ IF mailbox' # <<>> /\ alive /\ ~paused
       THEN immediates' = i + 1 /\ scheduled' = s
       ELSE immediates' = i /\ scheduled' = FALSE

\* _syncLocalCall of a handler that does not suspend.
CallDirectCompletes(k, outcome) ==
    /\ ThreadFree /\ alive /\ Unsent(k)
    /\ FastPath
    /\ HandlerEnds(mailbox, k, outcome)
    /\ DirectSettles(k, outcome, TRUE, immediates)
    /\ sent' = Append(sent, k)
    /\ started' = StartedWith(k)
    /\ UNCHANGED <<life, currentMessage, paused, loops, direct, prevMessage,
                   migrating>>

\* The suspended handler of a fast-path call ends.
DirectResumes(k, outcome) ==
    LET pushes == Reschedules(outcome) /\ ~scheduled /\ ~paused /\ alive
    IN  /\ ThreadFree
        /\ k \in direct
        /\ HandlerEnds(mailbox, currentMessage, outcome)
        /\ DirectSettles(k, outcome, scheduled \/ pushes,
                         immediates + (IF pushes THEN 1 ELSE 0))
        /\ direct' = direct \ {k}
        /\ currentMessage' = prevMessage[k]
        /\ UNCHANGED <<life, paused, loops, prevMessage, migrating, sent, started>>

\* The timer of a call fires first.
CallTimesOut(k) ==
    /\ ThreadFree
    /\ k \in replyTo /\ caller[k] = "waiting"
    /\ caller' = [caller EXCEPT ![k] = "timedOut"]
    /\ UNCHANGED <<life, queues, paused, processing, tokens, loops, direct,
                   prevMessage, replyTo, migrating, history>>

----------------------------------------------------------------------------
(* processMailbox *)

\* The callback finds nothing to do.
ImmediateIdle ==
    /\ ThreadFree /\ immediates > 0
    /\ ~alive \/ paused \/ mailbox = <<>>
    /\ immediates' = immediates - 1
    /\ scheduled' = FALSE
    /\ UNCHANGED <<life, queues, paused, processing, loops, calls, migrating, history>>

ImmediateStarts(l) ==
    /\ ThreadFree /\ immediates > 0
    /\ alive /\ ~paused /\ mailbox # <<>>
    /\ loop[l] = "idle"
    /\ immediates' = immediates - 1
    /\ processing' = TRUE
    /\ loop' = [loop EXCEPT ![l] = "ready"]
    /\ count' = [count EXCEPT ![l] = 0]
    /\ UNCHANGED <<life, queues, paused, scheduled, working, calls, migrating, history>>

LoopGoesOn(l) == count[l] < BatchSize /\ mailbox # <<>> /\ alive /\ ~paused

\* The message's handler suspends: the loop awaits it.
LoopSuspends(l) ==
    /\ loop[l] = "ready" /\ LoopGoesOn(l)
    /\ LET m == Head(mailbox)
       IN  /\ mailbox' = Tail(mailbox)
           /\ currentMessage' = m
           /\ working' = [working EXCEPT ![l] = m]
           /\ started' = StartedWith(m)
    /\ loop' = [loop EXCEPT ![l] = "suspended"]
    /\ UNCHANGED <<life, stash, paused, processing, tokens, count, calls,
                   migrating, sent, deferred>>

\* What the loop does with the end of m's handler.  A call is answered; a
\* failing cast, or call without reject, is a crash: the supervisor begins
\* to stop or restart the actor and the batch is over.
LoopSettles(l, m, outcome) ==
    LET crash == /\ outcome = "throw"
                 /\ m \in Casts \/ (m \notin replyTo /\ ~wasStashed(m))
        now   == CallerAfter(outcome)
    IN  /\ caller' = IF m \in replyTo /\ ~wasStashed(m) /\ now[m] = "waiting"
                     THEN [now EXCEPT ![m] = IF outcome = "throw" THEN "failed"
                                                                 ELSE "answered"]
                     ELSE now
        /\ stopping' = (stopping \/ crash)
        /\ count' = [count EXCEPT ![l] = IF crash THEN BatchSize ELSE @ + 1]
        /\ currentMessage' = NoMsg

\* The message's handler does not suspend.
LoopCompletes(l, outcome) ==
    /\ loop[l] = "ready" /\ LoopGoesOn(l)
    /\ LET m == Head(mailbox)
       IN  /\ HandlerEnds(Tail(mailbox), m, outcome)
           /\ started' = StartedWith(m)
           /\ LoopSettles(l, m, outcome)
    /\ IF Reschedules(outcome) THEN scheduleProcessMailbox(paused) ELSE UNCHANGED tokens
    /\ UNCHANGED <<alive, paused, processing, loop, working, direct,
                   prevMessage, replyTo, migrating, sent>>

\* The awaited handler ends: the loop has the thread again.
LoopResumes(l, outcome) ==
    /\ ThreadFree
    /\ loop[l] = "suspended"
    /\ loop' = [loop EXCEPT ![l] = "ready"]
    /\ working' = [working EXCEPT ![l] = NoMsg]
    /\ HandlerEnds(mailbox, currentMessage, outcome)
    /\ LoopSettles(l, working[l], outcome)
    /\ IF Reschedules(outcome) THEN scheduleProcessMailbox(paused) ELSE UNCHANGED tokens
    /\ UNCHANGED <<alive, paused, processing, direct, prevMessage, replyTo,
                   migrating, sent, started>>

LoopEnds(l) ==
    /\ loop[l] = "ready" /\ ~LoopGoesOn(l)
    /\ loop' = [loop EXCEPT ![l] = "idle"]
    /\ processing' = FALSE
    /\ IF alive /\ ~paused /\ mailbox # <<>>
       THEN immediates' = immediates + 1 /\ UNCHANGED scheduled
       ELSE scheduled' = FALSE /\ UNCHANGED immediates
    /\ UNCHANGED <<life, queues, paused, working, count, calls, migrating, history>>

----------------------------------------------------------------------------
(* stop(), and stopSingle() on behalf of a restart: an awaiting part, then *)
(* the deletion from the maps.  The mailbox object is left to itself.      *)

StopBegins ==
    /\ ThreadFree /\ alive /\ ~stopping
    /\ stopping' = TRUE
    /\ UNCHANGED <<alive, queues, paused, processing, tokens, loops, calls,
                   migrating, history>>

StopEnds ==
    /\ ThreadFree /\ alive /\ stopping
    /\ alive' = FALSE
    /\ scheduled' = FALSE
    /\ UNCHANGED <<stopping, queues, paused, processing, immediates, loops,
                   calls, migrating, history>>

----------------------------------------------------------------------------
(* migrate(), source side.  Every await is a point where others run. *)

\* remainingMessages of _rejectPendingCallsForMigration: q without the calls s.
Without(q, s) ==
    LET remaining[i \in 0..Len(q)] ==
            IF i = 0 THEN <<>>
            ELSE IF q[i] \in s THEN remaining[i - 1] ELSE Append(remaining[i - 1], q[i])
    IN  remaining[Len(q)]

\* pauseMailbox and _rejectPendingCallsForMigration.
MigrateBegins ==
    /\ ThreadFree /\ alive
    /\ migration = "none" /\ attempts < MaxMigrations
    /\ migration' = "preparing"
    /\ attempts' = attempts + 1
    /\ paused' = TRUE
    /\ mailbox' = Without(mailbox, replyTo)
    /\ caller' = [k \in Calls |->
                     IF k \in replyTo /\ k \in Range(mailbox) /\ caller[k] = "waiting"
                     THEN "failed" ELSE caller[k]]
    /\ UNCHANGED <<life, stash, currentMessage, processing, tokens, loops,
                   direct, prevMessage, replyTo, quiet, moved, history>>

\* Mutant of resumeMailbox: the mailbox is not scheduled.
resumeUnscheduled ==
    IF alive THEN paused' = FALSE /\ UNCHANGED tokens
             ELSE UNCHANGED <<paused, tokens>>

\* resumeMailbox.
resumeMailbox ==
    IF alive THEN paused' = FALSE /\ scheduleProcessMailbox(FALSE)
             ELSE UNCHANGED <<paused, tokens>>

\* migrate:prepare is refused, fails or times out.
PrepareFails ==
    /\ ThreadFree /\ migration = "preparing"
    /\ migration' = "none"
    /\ resumeMailbox
    /\ UNCHANGED <<life, queues, processing, loops, calls, attempts, quiet,
                   moved, history>>

\* drainMailbox begins to wait, or finds no actor and returns no message.
PrepareSucceeds ==
    /\ ThreadFree /\ migration = "preparing"
    /\ \/ alive /\ migration' = "draining" /\ UNCHANGED quiet
       \/ ~alive /\ migration' = "executing" /\ quiet' = ~processing
    /\ UNCHANGED <<life, queues, paused, processing, tokens, loops, calls,
                   attempts, moved, history>>

\* The wait ends: no message is being processed, or it timed out.  The
\* mailbox is the one found when the wait began, even if the actor is gone.
Drain ==
    /\ ThreadFree /\ migration = "draining"
    /\ migration' = "executing"
    /\ quiet' = ~processing
    /\ moved' = mailbox
    /\ mailbox' = <<>>
    /\ UNCHANGED <<life, stash, currentMessage, paused, processing, tokens,
                   loops, calls, attempts, history>>

\* getState, or migrate:execute, fails: injectMessages and resumeMailbox.
ExecuteFails ==
    /\ ThreadFree /\ migration = "executing"
    /\ migration' = "none"
    /\ mailbox' = IF alive THEN moved \o mailbox ELSE mailbox
    /\ moved' = <<>>
    /\ resumeMailbox
    /\ UNCHANGED <<life, stash, currentMessage, processing, loops, calls,
                   attempts, quiet, history>>

\* migrate:execute succeeds: _cleanupActorForMigration.
ExecuteSucceeds ==
    /\ ThreadFree /\ migration = "executing"
    /\ migration' = "done"
    /\ alive' = FALSE
    /\ paused' = FALSE /\ processing' = FALSE /\ scheduled' = FALSE
    /\ UNCHANGED <<stopping, queues, immediates, loops, calls, attempts,
                   quiet, moved, history>>

----------------------------------------------------------------------------
\* The fast path.
CallDirect ==
    \E k \in Calls :
        \/ CallDirectSuspends(k)
        \/ \E outcome \in Outcomes : CallDirectCompletes(k, outcome)

Migrate ==
    \/ MigrateBegins \/ PrepareFails \/ PrepareSucceeds
    \/ Drain \/ ExecuteFails \/ ExecuteSucceeds

OtherSteps ==
    \/ \E m \in Casts : dispatchCast(m)
    \/ \E k \in Calls : CallQueued(k) \/ CallTimesOut(k)
    \/ \E k \in Calls, outcome \in Outcomes : DirectResumes(k, outcome)
    \/ ImmediateIdle
    \/ \E l \in Loops : ImmediateStarts(l) \/ LoopSuspends(l) \/ LoopEnds(l)
    \/ \E l \in Loops, outcome \in Outcomes :
          LoopCompletes(l, outcome) \/ LoopResumes(l, outcome)
    \/ StopBegins \/ StopEnds
    \/ Migrate

Step == CallDirect \/ OtherSteps

\* A call may take the fast path while a setImmediate callback for this actor
\* is still pending, as it is right after spawn().
Next ==
    \/ CallDirect /\ overtook' = (overtook \/ immediates # 0)
    \/ OtherSteps /\ UNCHANGED overtook

Spec == Init /\ [][Next]_allVars

(* Fairness: the event loop runs every callback and timer it was given,    *)
(* requests of a migration are answered or time out, and (HandlersEnd) the *)
(* promises that handlers return are settled.                              *)
EventLoop ==
    /\ WF_vars(ImmediateIdle)
    /\ WF_vars(\E l \in Loops : ImmediateStarts(l))
    /\ WF_vars(\E l \in Loops : LoopSuspends(l) \/ LoopEnds(l)
                                \/ \E o \in Outcomes : LoopCompletes(l, o))
    /\ \A k \in Calls : WF_vars(CallTimesOut(k))
    /\ WF_vars(PrepareFails \/ PrepareSucceeds \/ Drain
               \/ ExecuteFails \/ ExecuteSucceeds)
    /\ WF_vars(StopEnds)

HandlersEnd ==
    /\ \A l \in Loops : WF_vars(\E o \in Outcomes : LoopResumes(l, o))
    /\ \A k \in Calls : WF_vars(\E o \in Outcomes : DirectResumes(k, o))

FairSpec == Spec /\ EventLoop /\ HandlersEnd

----------------------------------------------------------------------------
(* Properties *)

\* The types of all variables; a batch never takes more than BatchSize messages.
TypeOK ==
    /\ {alive, stopping, paused, processing, scheduled, quiet, overtook} \subseteq BOOLEAN
    /\ mailbox \in Seq(Msgs) /\ stash \in Seq(Msgs) /\ moved \in Seq(Msgs)
    /\ currentMessage \in Msgs \union {NoMsg}
    /\ immediates \in Nat
    /\ loop \in [Loops -> {"idle", "ready", "suspended"}]
    /\ working \in [Loops -> Msgs \union {NoMsg}]
    /\ count \in [Loops -> 0..BatchSize]
    /\ direct \subseteq Calls /\ replyTo \subseteq Calls
    /\ prevMessage \in [Calls -> Msgs \union {NoMsg}]
    /\ caller \in [Calls -> {"idle", "direct", "waiting", "answered",
                             "failed", "timedOut"}]
    /\ migration \in {"none", "preparing", "draining", "executing", "done"}
    /\ attempts \in 0..MaxMigrations
    /\ sent \in Seq(Msgs) /\ started \in Seq(Msgs)
    /\ deferred \subseteq Msgs

\* Somebody is going to look at the mailbox again: a pending callback, a
\* running loop, or a fast-path call, whose finally block reschedules.
SomebodyWillLook ==
    \/ immediates > 0
    \/ \E l \in Loops : loop[l] # "idle"
    \/ direct # {}

\* No lost wake-up: while messages wait in the mailbox of a live actor that is
\* not paused, somebody will look at it, although scheduleProcessMailbox does
\* nothing when mailboxScheduled is set and several owners clear that flag.
NoLostWakeup == alive /\ ~paused /\ mailbox # <<>> => SomebodyWillLook

\* The flag that suppresses scheduling is only set while somebody will look.
ScheduledIsTrue == scheduled => SomebodyWillLook

Position(m) == CHOOSE i \in 1..Len(sent) : sent[i] = m

\* Messages that were never stashed start in the order they were dispatched,
\* each at most once, across the fast path, batches and failed migrations.
StartOrder ==
    \A i, j \in 1..Len(started) :
        i < j /\ {started[i], started[j]} \intersect deferred = {}
            => Position(started[i]) < Position(started[j])

Running == {l \in Loops : loop[l] # "idle"}

Alone ==
    /\ \A l, n \in Running : l = n
    /\ \A j, k \in direct : j = k
    /\ Running = {} \/ direct = {}

\* As long as no call has taken the fast path before a pending callback, the
\* two flags keep the handlers of one actor apart: no two of them overlap.
OneHandler == ~overtook => Alone

\* "Both processingActors and mailboxScheduled are locked to prevent
\* concurrent processMailbox execution." (actor_system.ts:3088): no two
\* handlers of one actor ever overlap.
NeverOverlap == Alone

\* The state a migration captures is not being changed: unless the drain gave
\* up waiting, or a call overtook a callback, no handler of the actor is
\* suspended once it is drained.
CapturedAtRest ==
    migration = "executing" /\ quiet /\ ~overtook => Running = {} /\ direct = {}

\* "Actors can be migrated between nodes while preserving their state and
\* pending messages." (README.md:2132): unless somebody also stopped it, a
\* migrated actor leaves nothing in the mailbox that is given up.
NothingLeftBehind == migration = "done" /\ ~stopping => mailbox = <<>>

\* Every cast is eventually handled, unless the actor is gone first.
CastsHandled ==
    \A m \in Casts : m \in Range(mailbox) ~> (m \notin Range(mailbox \o moved) \/ ~alive)

\* Every call is answered, fails or times out, provided that handlers end: a
\* call of the fast path has no timer of its own.
CallsSettle ==
    \A k \in Calls : caller[k] # "idle" ~> caller[k] \in {"answered", "failed", "timedOut"}

=============================================================================
