------------------------- MODULE ActorMailboxProofs -------------------------
(***************************************************************************)
(* Proofs about the scheduling of one actor's mailbox (ActorMailbox.tla):  *)
(* no wake-up is lost; when the fast path keeps clear of pending callbacks,*)
(* the actor runs one handler at a time; and messages start in order.      *)
(***************************************************************************)
EXTENDS ActorMailbox, SequenceTheorems, WellFoundedInduction, TLAPS

(* What the arguments need of the types. *)
Typed ==
    /\ immediates \in Nat
    /\ loop \in [Loops -> {"idle", "ready", "suspended"}]
    /\ direct \subseteq Calls

(* NoLostWakeup alone is not inductive: dispatchCast relies on the flag    *)
(* mailboxScheduled, so the flag must be truthful as well.                 *)
WakeupInv == Typed /\ ScheduledIsTrue /\ NoLostWakeup

\* The state spawn() leaves has its wake-up pending.
LEMMA InitWakeup == Init => WakeupInv
BY DEF Init, WakeupInv, Typed, ScheduledIsTrue, NoLostWakeup, SomebodyWillLook

\* A step of the system is one of its actions; the rest is history.
LEMMA NextIsStep == [Next]_allVars => [Step]_vars
BY DEF Next, Step, allVars

\* Every step keeps the types.
LEMMA StepTyped == Typed /\ [Step]_vars => Typed'
<1> SUFFICES ASSUME Typed, [Step]_vars PROVE Typed'
  OBVIOUS
<1> USE DEF Typed, life, queues, tokens, loops, calls, migrating, history
<1>1. CASE CallDirect
  BY <1>1 DEF CallDirect, CallDirectSuspends, CallDirectCompletes, DirectSettles
<1>2. ASSUME NEW m \in Casts, dispatchCast(m) PROVE Typed'
  BY <1>2 DEF dispatchCast, scheduleProcessMailbox
<1>3. ASSUME NEW k \in Calls, CallQueued(k) \/ CallTimesOut(k) PROVE Typed'
  BY <1>3 DEF CallQueued, CallTimesOut, scheduleProcessMailbox
<1>4. ASSUME NEW k \in Calls, NEW outcome \in Outcomes, DirectResumes(k, outcome)
      PROVE Typed'
  BY <1>4 DEF DirectResumes, DirectSettles
<1>5. CASE ImmediateIdle
  BY <1>5 DEF ImmediateIdle
<1>6. ASSUME NEW l \in Loops, ImmediateStarts(l) \/ LoopSuspends(l) \/ LoopEnds(l)
      PROVE Typed'
  BY <1>6 DEF ImmediateStarts, LoopSuspends, LoopEnds
<1>7. ASSUME NEW l \in Loops, NEW outcome \in Outcomes,
             LoopCompletes(l, outcome) \/ LoopResumes(l, outcome)
      PROVE Typed'
  BY <1>7 DEF LoopCompletes, LoopResumes, LoopSettles, scheduleProcessMailbox
<1>8. CASE StopBegins \/ StopEnds
  BY <1>8 DEF StopBegins, StopEnds
<1>9. CASE Migrate
  BY <1>9 DEF Migrate, MigrateBegins, PrepareFails, PrepareSucceeds, Drain,
              ExecuteFails, ExecuteSucceeds, resumeMailbox, scheduleProcessMailbox
<1>10. CASE UNCHANGED vars
  BY <1>10 DEF vars
<1> QED BY <1>1, <1>2, <1>3, <1>4, <1>5, <1>6, <1>7, <1>8, <1>9, <1>10
        DEF Step, OtherSteps

\* Every step keeps the flag truthful and the wake-up pending.
LEMMA StepWakeup == WakeupInv /\ [Step]_vars => WakeupInv'
<1> SUFFICES ASSUME WakeupInv, [Step]_vars PROVE (ScheduledIsTrue /\ NoLostWakeup)'
  BY StepTyped DEF WakeupInv
<1> DEFINE Goal == (ScheduledIsTrue /\ NoLostWakeup)'
<1> USE DEF WakeupInv, Typed, ScheduledIsTrue, NoLostWakeup, SomebodyWillLook,
            life, queues, tokens, loops, calls, migrating, history
<1>1. CASE CallDirect
  BY <1>1 DEF CallDirect, CallDirectSuspends, CallDirectCompletes, DirectSettles
<1>2. ASSUME NEW m \in Casts, dispatchCast(m) PROVE Goal
  BY <1>2 DEF dispatchCast, scheduleProcessMailbox
<1>3. ASSUME NEW k \in Calls, CallQueued(k) \/ CallTimesOut(k) PROVE Goal
  BY <1>3 DEF CallQueued, CallTimesOut, scheduleProcessMailbox
<1>4. ASSUME NEW k \in Calls, NEW outcome \in Outcomes, DirectResumes(k, outcome)
      PROVE Goal
  BY <1>4 DEF DirectResumes, DirectSettles
<1>5. CASE ImmediateIdle
  BY <1>5 DEF ImmediateIdle
<1>6. ASSUME NEW l \in Loops, ImmediateStarts(l) \/ LoopSuspends(l) \/ LoopEnds(l)
      PROVE Goal
  BY <1>6 DEF ImmediateStarts, LoopSuspends, LoopEnds
<1>7. ASSUME NEW l \in Loops, NEW outcome \in Outcomes,
             LoopCompletes(l, outcome) \/ LoopResumes(l, outcome)
      PROVE Goal
  <2>1. loop'[l] = "ready"
    BY <1>7 DEF LoopCompletes, LoopResumes
  <2> QED BY <2>1
<1>8. CASE StopBegins \/ StopEnds
  BY <1>8 DEF StopBegins, StopEnds
<1>9. CASE Migrate
  BY <1>9 DEF Migrate, MigrateBegins, PrepareFails, PrepareSucceeds, Drain,
              ExecuteFails, ExecuteSucceeds, resumeMailbox, scheduleProcessMailbox
<1>10. CASE UNCHANGED vars
  BY <1>10 DEF vars
<1> QED BY <1>1, <1>2, <1>3, <1>4, <1>5, <1>6, <1>7, <1>8, <1>9, <1>10
        DEF Step, OtherSteps

\* No wake-up is lost, for any number of messages, loops and migrations: a
\* message in the mailbox of a live, unpaused actor always has a pending
\* callback, a running processMailbox or a fast-path call to look at it.
THEOREM WakeupNeverLost == Spec => []NoLostWakeup
<1>1. WakeupInv => NoLostWakeup
  BY DEF WakeupInv
<1> QED BY InitWakeup, StepWakeup, NextIsStep, <1>1, PTL DEF Spec

----------------------------------------------------------------------------
(* One handler at a time.  A token is a pending callback, a loop or a      *)
(* fast-path call.  Until a call overtakes a callback there is at most one;*)
(* while the actor lives, mailboxScheduled says whether there is one, and processingActors *)
(* whether it is a loop or a fast-path call.                               *)

NoLoop == \A l \in Loops : loop[l] = "idle"

Idle == NoLoop /\ direct = {}

OneToken ==
    /\ \A l, n \in Loops : loop[l] # "idle" /\ loop[n] # "idle" => l = n
    /\ \A j, k \in direct : j = k
    /\ NoLoop \/ direct = {}
    /\ immediates # 0 => immediates = 1 /\ Idle

FlagsTell ==
    /\ alive /\ ~scheduled => immediates = 0 /\ Idle
    /\ migration # "done" => (~processing <=> Idle)

PausedWhileMoving ==
    /\ migration = "done" => ~alive
    /\ migration \in {"preparing", "draining", "executing"} /\ alive => paused

AtRest == migration = "executing" /\ quiet => Idle

QuietInv == Typed /\ OneToken /\ FlagsTell /\ PausedWhileMoving /\ AtRest

\* After spawn() there is one token, the pending callback.
LEMMA InitQuiet == Init => QuietInv
BY DEF Init, QuietInv, Typed, OneToken, FlagsTell, PausedWhileMoving, AtRest, Idle, NoLoop

\* The steps of a system in which no call overtakes a pending callback.
QuietStep == (CallDirect /\ immediates = 0) \/ OtherSteps

\* Every such step keeps at most one token.
LEMMA StepQuiet == QuietInv /\ [QuietStep]_vars => QuietInv'
<1> SUFFICES ASSUME QuietInv, [QuietStep]_vars
             PROVE  (OneToken /\ FlagsTell /\ PausedWhileMoving /\ AtRest)'
  BY StepTyped DEF QuietInv, QuietStep, Step
<1> DEFINE Goal == (OneToken /\ FlagsTell /\ PausedWhileMoving /\ AtRest)'
<1> USE DEF QuietInv, Typed, OneToken, FlagsTell, PausedWhileMoving, AtRest, Idle,
            NoLoop, life, queues, tokens, loops, calls, migrating, history
<1>1. CASE CallDirect /\ immediates = 0
  BY <1>1 DEF CallDirect, CallDirectSuspends, CallDirectCompletes, DirectSettles, FastPath
<1>2. ASSUME NEW m \in Casts, dispatchCast(m) PROVE Goal
  BY <1>2 DEF dispatchCast, scheduleProcessMailbox
<1>3. ASSUME NEW k \in Calls, CallQueued(k) \/ CallTimesOut(k) PROVE Goal
  BY <1>3 DEF CallQueued, CallTimesOut, scheduleProcessMailbox
<1>4. ASSUME NEW k \in Calls, NEW outcome \in Outcomes, DirectResumes(k, outcome)
      PROVE Goal
  <2>1. k \in direct /\ NoLoop /\ immediates = 0 /\ (alive => scheduled)
    BY <1>4 DEF DirectResumes
  <2>2. /\ direct' = {} /\ loop' = loop
        /\ alive' = alive /\ paused' = paused /\ UNCHANGED migrating
    BY <1>4, <2>1 DEF DirectResumes
  <2>3. /\ ~processing'
        /\ \/ immediates' = 1 /\ (alive => scheduled')
           \/ immediates' = 0
    <3> DEFINE pushes == Reschedules(outcome) /\ ~scheduled /\ ~paused /\ alive
               s      == scheduled \/ pushes
               i      == immediates + (IF pushes THEN 1 ELSE 0)
    <3>1. DirectSettles(k, outcome, s, i)
      BY <1>4, Zenon DEF DirectResumes
    <3>2. i = 0 /\ (alive => s)
      BY <2>1
    <3> HIDE DEF s, i
    <3>3. ~processing'
      BY <3>1, Zenon DEF DirectSettles
    <3>4. \/ immediates' = i + 1 /\ scheduled' = s
          \/ immediates' = i
      BY <3>1, Zenon DEF DirectSettles
    <3>5. CASE immediates' = i + 1 /\ scheduled' = s
      <4>1. immediates' = 1
        BY <3>2, <3>5
      <4>2. alive => scheduled'
        BY <3>2, <3>5, Zenon
      <4> QED BY <3>3, <4>1, <4>2
    <3> QED BY <3>2, <3>3, <3>4, <3>5
  <2> QED BY <2>1, <2>2, <2>3
<1>5. CASE ImmediateIdle
  BY <1>5 DEF ImmediateIdle
<1>6. ASSUME NEW l \in Loops, ImmediateStarts(l) \/ LoopSuspends(l) \/ LoopEnds(l)
      PROVE Goal
  BY <1>6 DEF ImmediateStarts, LoopSuspends, LoopEnds
<1>7. ASSUME NEW l \in Loops, NEW outcome \in Outcomes,
             LoopCompletes(l, outcome) \/ LoopResumes(l, outcome)
      PROVE Goal
  BY <1>7 DEF LoopCompletes, LoopResumes, LoopSettles, scheduleProcessMailbox
<1>8. CASE StopBegins \/ StopEnds
  BY <1>8 DEF StopBegins, StopEnds
<1>9. CASE Migrate
  <2>1. CASE MigrateBegins
    BY <2>1 DEF MigrateBegins
  <2>2. CASE PrepareFails
    BY <2>2 DEF PrepareFails, resumeMailbox, scheduleProcessMailbox
  <2>3. CASE PrepareSucceeds
    BY <2>3 DEF PrepareSucceeds
  <2>4. CASE Drain
    <3>1. quiet' => ~processing
      BY <2>4 DEF Drain
    <3>2. /\ migration = "draining" /\ migration' = "executing"
          /\ UNCHANGED <<alive, paused, processing, tokens, loops, direct>>
      BY <2>4 DEF Drain
    <3> QED BY <3>1, <3>2
  <2>5. CASE ExecuteFails
    BY <2>5 DEF ExecuteFails, resumeMailbox, scheduleProcessMailbox
  <2>6. CASE ExecuteSucceeds
    BY <2>6 DEF ExecuteSucceeds
  <2> QED BY <1>9, <2>1, <2>2, <2>3, <2>4, <2>5, <2>6 DEF Migrate
<1>10. CASE UNCHANGED vars
  BY <1>10 DEF vars
<1> QED BY <1>1, <1>2, <1>3, <1>4, <1>5, <1>6, <1>7, <1>8, <1>9, <1>10
        DEF QuietStep, OtherSteps

UnlessOvertaken == overtook \in BOOLEAN /\ (~overtook => QuietInv)

\* Once a call has overtaken a callback nothing more is claimed; until then
\* every step is a quiet one.
LEMMA StepUnlessOvertaken == UnlessOvertaken /\ [Next]_allVars => UnlessOvertaken'
<1> SUFFICES ASSUME UnlessOvertaken, [Next]_allVars PROVE UnlessOvertaken'
  OBVIOUS
<1>1. overtook' \in BOOLEAN /\ (~overtook' => ~overtook)
  BY DEF UnlessOvertaken, Next, allVars
<1>2. ~overtook' => [QuietStep]_vars
  BY DEF UnlessOvertaken, Next, QuietStep, allVars
<1> QED BY <1>1, <1>2, StepQuiet DEF UnlessOvertaken

\* One handler at a time: as long as no fast-path call is made while a callback
\* is pending, the two flags do lock out concurrent processing, for any number
\* of messages and loops.
THEOREM OneHandlerAtATime == Spec => []OneHandler
<1>1. Init => UnlessOvertaken
  BY InitQuiet DEF UnlessOvertaken, Init
<1>2. UnlessOvertaken => OneHandler
  BY DEF UnlessOvertaken, QuietInv, Typed, OneToken, OneHandler, Alone, Running, NoLoop
<1> QED BY StepUnlessOvertaken, <1>1, <1>2, PTL DEF Spec

\* The state a migration captures after an orderly drain is at rest: no handler
\* of the actor is suspended between the drain and the end of the migration.
THEOREM CapturedStateAtRest == Spec => []CapturedAtRest
<1>1. Init => UnlessOvertaken
  BY InitQuiet DEF UnlessOvertaken, Init
<1>2. UnlessOvertaken => CapturedAtRest
  BY DEF UnlessOvertaken, QuietInv, Typed, AtRest, CapturedAtRest, Running, Idle, NoLoop
<1> QED BY StepUnlessOvertaken, <1>1, <1>2, PTL DEF Spec

----------------------------------------------------------------------------
(* The order in which messages start.  A message passes from the mailbox,  *)
(* perhaps through the messages a migration moves, to those that started:  *)
(* the three are one line, and whoever is not stashed keeps his place.     *)

Before(x, y, s) == \E i, j \in 1..Len(s) : i < j /\ s[i] = x /\ s[j] = y

\* The messages of q that were never stashed (d) are in the order of s.
Lined(q, s, d) ==
    \A i, j \in 1..Len(q) :
        i < j /\ q[i] \notin d /\ q[j] \notin d => Before(q[i], q[j], s)

Ahead(X, Y, s, d) == \A x \in X \ d, y \in Y \ d : Before(x, y, s)

\* s was sent, t started, v is moved by a migration, b is the mailbox.
InLine(s, t, v, b, d) ==
    /\ s \in Seq(Msgs) /\ t \in Seq(Msgs) /\ v \in Seq(Msgs) /\ b \in Seq(Msgs)
    /\ \A i, j \in 1..Len(s) : s[i] = s[j] => i = j
    /\ (Range(t) \union Range(v) \union Range(b)) \ d \subseteq Range(s)
    /\ Lined(t, s, d) /\ Lined(v, s, d) /\ Lined(b, s, d)
    /\ Ahead(Range(t), Range(v), s, d) /\ Ahead(Range(t), Range(b), s, d)
    /\ Ahead(Range(v), Range(b), s, d)

Stashing ==
    /\ stash \in Seq(Msgs) /\ Range(stash) \subseteq deferred
    /\ currentMessage \in Msgs \union {NoMsg}
    /\ prevMessage \in [Calls -> Msgs \union {NoMsg}]

MovedWhilePaused ==
    /\ migration = "done" => ~alive
    /\ migration \in {"preparing", "draining", "executing"} /\ alive => paused
    /\ moved # <<>> => migration \in {"executing", "done"}

OrderInv == InLine(sent, started, moved, mailbox, deferred) /\ Stashing /\ MovedWhilePaused

\* Later messages do not change who was sent before whom.
LEMMA BeforeStays ==
    ASSUME NEW s \in Seq(Msgs), NEW m \in Msgs, NEW x, NEW y, Before(x, y, s)
    PROVE  Before(x, y, Append(s, m))
<1>1. PICK i \in 1..Len(s), j \in 1..Len(s) : i < j /\ s[i] = x /\ s[j] = y
  BY DEF Before
<1>2. /\ Len(Append(s, m)) = Len(s) + 1 /\ Len(s) \in Nat
      /\ Append(s, m)[i] = s[i] /\ Append(s, m)[j] = s[j]
  BY AppendProperties
<1> DEFINE u == Append(s, m)
<1> HIDE DEF u
<1>3. i \in 1..Len(u) /\ j \in 1..Len(u) /\ u[i] = x /\ u[j] = y
  BY <1>1, <1>2 DEF u
<1>4. Before(x, y, u)
  BY <1>1, <1>3 DEF Before
<1> QED BY <1>4 DEF u

\* The last message was sent after all others.
LEMMA BeforeLast ==
    ASSUME NEW s \in Seq(Msgs), NEW m \in Msgs, NEW x \in Range(s)
    PROVE  Before(x, m, Append(s, m))
<1> DEFINE u == Append(s, m)
<1>1. /\ Len(u) = Len(s) + 1 /\ Len(s) \in Nat
      /\ \A i \in 1..Len(s) : u[i] = s[i]
      /\ u[Len(s) + 1] = m
  BY AppendProperties
<1>2. PICK i \in 1..Len(s) : s[i] = x
  BY RangeEquality
<1> HIDE DEF u
<1>3. i \in 1..Len(u) /\ Len(s) + 1 \in 1..Len(u) /\ i < Len(s) + 1 /\ u[i] = x
  BY <1>1, <1>2
<1>4. Before(x, m, u)
  BY <1>1, <1>3 DEF Before
<1> QED BY <1>4 DEF u

\* What Append adds to a range.
LEMMA RangeOfAppend ==
    ASSUME NEW q \in Seq(Msgs), NEW m \in Msgs
    PROVE  Range(Append(q, m)) = Range(q) \union {m}
<1>1. /\ Append(q, m) \in Seq(Msgs) /\ Len(Append(q, m)) = Len(q) + 1 /\ Len(q) \in Nat
      /\ \A i \in 1..Len(q) : Append(q, m)[i] = q[i]
      /\ Append(q, m)[Len(q) + 1] = m
  BY AppendProperties
<1> DEFINE u == Append(q, m)
<1>2. Range(u) = {u[i] : i \in 1..Len(u)} /\ Range(q) = {q[i] : i \in 1..Len(q)}
  BY <1>1, RangeEquality
<1> HIDE DEF u
<1>3. 1..Len(u) = 1..Len(q) \union {Len(u)} /\ Len(u) = Len(q) + 1
  BY <1>1 DEF u
<1>4. u[Len(u)] = m /\ \A i \in 1..Len(q) : u[i] = q[i]
  BY <1>1, <1>3 DEF u
<1>5. Range(u) = Range(q) \union {m}
  BY <1>2, <1>3, <1>4
<1> QED BY <1>5 DEF u

\* The empty line.
LEMMA RangeOfEmpty == <<>> \in Seq(Msgs) /\ Len(<<>>) = 0 /\ Range(<<>>) = {}
<1>1. <<>> \in Seq(Msgs) /\ Len(<<>>) = 0
  OBVIOUS
<1>2. Range(<<>>) = {}
  BY DEF Range
<1> QED BY <1>1, <1>2

\* Head and Tail share out a sequence.
LEMMA RangeOfTail ==
    ASSUME NEW q \in Seq(Msgs), q # <<>>
    PROVE  /\ Head(q) \in Range(q) /\ Range(Tail(q)) \subseteq Range(q)
           /\ Tail(q) \in Seq(Msgs) /\ Head(q) \in Msgs /\ Head(q) = q[1]
           /\ Len(Tail(q)) = Len(q) - 1 /\ Len(q) \in Nat \ {0}
           /\ \A i \in 1..Len(Tail(q)) : Tail(q)[i] = q[i + 1] /\ i + 1 \in 1..Len(q)
<1>1. /\ Tail(q) \in Seq(Msgs) /\ Head(q) \in Msgs /\ Head(q) = q[1]
      /\ Len(Tail(q)) = Len(q) - 1 /\ Len(q) \in Nat \ {0}
      /\ \A i \in 1..Len(Tail(q)) : Tail(q)[i] = q[i + 1] /\ i + 1 \in 1..Len(q)
  OBVIOUS
<1> DEFINE u == Tail(q)
<1>2. Range(u) = {u[i] : i \in 1..Len(u)} /\ Range(q) = {q[i] : i \in 1..Len(q)}
  BY <1>1, RangeEquality, ZenonT(60)
<1>3. 1 \in 1..Len(q)
  BY <1>1
<1> QED BY <1>1, <1>2, <1>3

\* One more at the end of a line.
LEMMA LinedAppend ==
    ASSUME NEW s \in Seq(Msgs), NEW q \in Seq(Msgs), NEW m \in Msgs, NEW d,
           Lined(q, s, d), \A x \in Range(q) \ d : m \notin d => Before(x, m, s)
    PROVE  Lined(Append(q, m), s, d)
<1> DEFINE u == Append(q, m)
<1>1. /\ Len(u) = Len(q) + 1 /\ Len(q) \in Nat
      /\ \A i \in 1..Len(q) : u[i] = q[i]
      /\ u[Len(q) + 1] = m
  BY AppendProperties
<1>2. \A i \in 1..Len(q) : q[i] \in Range(q)
  BY RangeEquality
<1> HIDE DEF u
<1>3. ASSUME NEW i \in 1..Len(u), NEW j \in 1..Len(u), i < j, u[i] \notin d, u[j] \notin d
      PROVE  Before(u[i], u[j], s)
  <2>1. i \in 1..Len(q) /\ u[i] = q[i] /\ u[i] \in Range(q)
    BY <1>1, <1>2, <1>3
  <2>2. CASE j \in 1..Len(q)
    BY <1>1, <1>3, <2>1, <2>2 DEF Lined
  <2>3. CASE j \notin 1..Len(q)
    <3>1. u[j] = m
      BY <1>1, <2>3
    <3> QED BY <1>3, <2>1, <3>1
  <2> QED BY <2>2, <2>3
<1>4. Lined(u, s, d)
  BY <1>3 DEF Lined
<1> QED BY <1>4 DEF u

\* Two lines, one ahead of the other, make one.
LEMMA LinedConcat ==
    ASSUME NEW s \in Seq(Msgs), NEW q \in Seq(Msgs), NEW r \in Seq(Msgs), NEW d,
           Lined(q, s, d), Lined(r, s, d), Ahead(Range(q), Range(r), s, d)
    PROVE  Lined(q \o r, s, d)
<1> DEFINE u == q \o r
<1>1. /\ Len(u) = Len(q) + Len(r) /\ Len(q) \in Nat /\ Len(r) \in Nat
      /\ \A i \in 1..Len(q) : u[i] = q[i]
      /\ \A i \in 1..Len(u) : i > Len(q) => u[i] = r[i - Len(q)] /\ i - Len(q) \in 1..Len(r)
  OBVIOUS
<1>2. (\A i \in 1..Len(q) : q[i] \in Range(q)) /\ (\A i \in 1..Len(r) : r[i] \in Range(r))
  BY RangeEquality
<1> HIDE DEF u
<1>3. ASSUME NEW i \in 1..Len(u), NEW j \in 1..Len(u), i < j, u[i] \notin d, u[j] \notin d
      PROVE  Before(u[i], u[j], s)
  <2>1. CASE j <= Len(q)
    <3>1. i \in 1..Len(q) /\ j \in 1..Len(q)
      BY <1>1, <1>3, <2>1
    <3> QED BY <1>1, <1>3, <3>1 DEF Lined
  <2>2. CASE i <= Len(q) /\ j > Len(q)
    <3>1. i \in 1..Len(q)
      BY <1>1, <2>2
    <3>2. u[i] \in Range(q) /\ u[j] \in Range(r)
      BY <1>1, <1>2, <2>2, <3>1
    <3> QED BY <1>3, <3>2 DEF Ahead
  <2>3. CASE i > Len(q)
    <3>1. /\ i - Len(q) \in 1..Len(r) /\ u[i] = r[i - Len(q)]
          /\ j - Len(q) \in 1..Len(r) /\ u[j] = r[j - Len(q)]
          /\ i - Len(q) < j - Len(q)
      BY <1>1, <1>3, <2>3
    <3> QED BY <1>3, <3>1 DEF Lined
  <2> QED BY <1>1, <2>1, <2>2, <2>3
<1>4. Lined(u, s, d)
  BY <1>3 DEF Lined
<1> QED BY <1>4 DEF u

\* Whoever leaves a line at its head leaves a line.
LEMMA LinedTail ==
    ASSUME NEW s, NEW q \in Seq(Msgs), q # <<>>, NEW d, Lined(q, s, d)
    PROVE  /\ Lined(Tail(q), s, d)
           /\ Head(q) \notin d => \A y \in Range(Tail(q)) \ d : Before(Head(q), y, s)
<1> DEFINE u == Tail(q)
<1>1. /\ u \in Seq(Msgs) /\ Len(u) = Len(q) - 1 /\ Len(q) \in Nat \ {0} /\ Head(q) = q[1]
      /\ \A i \in 1..Len(u) : u[i] = q[i + 1] /\ i + 1 \in 1..Len(q)
  BY RangeOfTail
<1>2. Range(u) = {u[i] : i \in 1..Len(u)}
  BY <1>1, RangeEquality
<1> HIDE DEF u
<1>3. 1 \in 1..Len(q)
  BY <1>1
<1>4. ASSUME NEW i \in 1..Len(u), NEW j \in 1..Len(u), i < j, u[i] \notin d, u[j] \notin d
      PROVE  Before(u[i], u[j], s)
  <2>1. i + 1 < j + 1 /\ u[i] = q[i + 1] /\ u[j] = q[j + 1]
        /\ i + 1 \in 1..Len(q) /\ j + 1 \in 1..Len(q)
    BY <1>1, <1>4
  <2> QED BY <1>4, <2>1 DEF Lined
<1>5. Lined(u, s, d)
  BY <1>4 DEF Lined
<1>6. ASSUME Head(q) \notin d, NEW y \in Range(u) \ d PROVE Before(Head(q), y, s)
  <2>1. PICK j \in 1..Len(u) : u[j] = y
    BY <1>2
  <2>2. 1 < j + 1 /\ j + 1 \in 1..Len(q) /\ q[j + 1] = y
    BY <1>1, <2>1
  <2> QED BY <1>1, <1>3, <1>6, <2>2 DEF Lined
<1> QED BY <1>5, <1>6 DEF u

\* Induction over the natural numbers, for a set of them.
LEMMA SetInduction ==
    ASSUME NEW S, 0 \in S, \A k \in Nat : k \in S => k + 1 \in S
    PROVE  Nat \subseteq S
<1> DEFINE T == Nat \ S
<1>1. SUFFICES ASSUME T # {} PROVE FALSE
  OBVIOUS
<1>2. IsWellFoundedOn(OpToRel(<, Nat), Nat)
  BY NatLessThanWellFounded
<1>3. \E x \in T : \A y \in T : <<y, x>> \notin OpToRel(<, Nat)
  <2> HIDE DEF T
  <2>1. T \subseteq Nat
    BY DEF T
  <2> QED BY <1>1, <1>2, <2>1, WFMin, Zenon
<1>4. PICK x \in T : \A y \in T : <<y, x>> \notin OpToRel(<, Nat)
  BY <1>3
<1>5. \A y \in T : ~ (y < x)
  BY <1>4 DEF OpToRel
<1>6. x # 0
  OBVIOUS
<1>7. x - 1 \in Nat /\ x - 1 < x /\ x - 1 \notin T
  BY <1>5, <1>6
<1> QED BY <1>7

\* v is what is left of the first k messages of q: each of its messages, and
\* each two of them in order, are found there.
LeftOf(v, q, k) ==
    /\ v \in Seq(Msgs)
    /\ \A i \in 1..Len(v) : \E j \in 1..k : v[i] = q[j]
    /\ \A i1, i2 \in 1..Len(v) : i1 < i2 =>
          \E j1, j2 \in 1..k : j1 < j2 /\ v[i1] = q[j1] /\ v[i2] = q[j2]

\* The next message is left out, or stays behind those that stayed.
LEMMA LeftOfNext ==
    ASSUME NEW q \in Seq(Msgs), NEW k \in Nat, k + 1 \in 1..Len(q),
           NEW v, LeftOf(v, q, k)
    PROVE  LeftOf(v, q, k + 1) /\ LeftOf(Append(v, q[k + 1]), q, k + 1)
<1>1. v \in Seq(Msgs) /\ q[k + 1] \in Msgs
  BY DEF LeftOf
<1>2. \A j \in 1..k : j \in 1..k + 1
  OBVIOUS
<1>3. LeftOf(v, q, k + 1)
  BY <1>2 DEF LeftOf
<1> DEFINE m == q[k + 1]
           u == Append(v, m)
<1>4. /\ u \in Seq(Msgs) /\ Len(u) = Len(v) + 1 /\ Len(v) \in Nat
      /\ \A i \in 1..Len(v) : u[i] = v[i]
      /\ u[Len(v) + 1] = m
  BY <1>1, AppendProperties
<1> HIDE DEF u
<1>5. k + 1 \in 1..k + 1
  OBVIOUS
<1>6. ASSUME NEW i \in 1..Len(u) PROVE \E j \in 1..k + 1 : u[i] = q[j]
  <2>1. CASE i \in 1..Len(v)
    <3>1. u[i] = v[i]
      BY <1>4, <2>1
    <3>2. \E j \in 1..k + 1 : v[i] = q[j]
      BY <1>3, <2>1 DEF LeftOf
    <3> QED BY <3>1, <3>2
  <2>2. CASE i \notin 1..Len(v)
    <3>1. u[i] = m
      BY <1>4, <2>2
    <3> QED BY <1>5, <3>1
  <2> QED BY <2>1, <2>2
<1>7. ASSUME NEW i1 \in 1..Len(u), NEW i2 \in 1..Len(u), i1 < i2
      PROVE  \E j1, j2 \in 1..k + 1 : j1 < j2 /\ u[i1] = q[j1] /\ u[i2] = q[j2]
  <2>1. i1 \in 1..Len(v) /\ u[i1] = v[i1]
    BY <1>4, <1>7
  <2>2. CASE i2 \in 1..Len(v)
    <3>1. u[i2] = v[i2]
      BY <1>4, <2>2
    <3>2. \E j1, j2 \in 1..k + 1 : j1 < j2 /\ v[i1] = q[j1] /\ v[i2] = q[j2]
      BY <1>3, <1>7, <2>1, <2>2 DEF LeftOf
    <3> QED BY <2>1, <3>1, <3>2
  <2>3. CASE i2 \notin 1..Len(v)
    <3>1. u[i2] = m
      BY <1>4, <2>3
    <3>2. PICK j \in 1..k : v[i1] = q[j]
      BY <2>1 DEF LeftOf
    <3>3. j < k + 1 /\ j \in 1..k + 1
      BY <3>2
    <3> QED BY <1>5, <2>1, <3>1, <3>2, <3>3
  <2> QED BY <2>2, <2>3
<1>8. LeftOf(u, q, k + 1)
  BY <1>4, <1>6, <1>7 DEF LeftOf
<1> QED BY <1>3, <1>8 DEF u

\* Without() leaves messages of q, in the order of q.
LEMMA WithoutIsLeft ==
    ASSUME NEW q \in Seq(Msgs), NEW s
    PROVE  LeftOf(Without(q, s), q, Len(q))
<1> DEFINE N == Len(q)
           Next1(i, w) == IF q[i] \in s THEN w ELSE Append(w, q[i])
           Good(f, k) == f = [i \in 0..k |-> IF i = 0 THEN <<>> ELSE Next1(i, f[i - 1])]
           remaining == CHOOSE f : f = [i \in 0..Len(q) |->
               IF i = 0 THEN <<>>
               ELSE IF q[i] \in s THEN f[i - 1] ELSE Append(f[i - 1], q[i])]
<1>1. Without(q, s) = remaining[N]
  BY DEF Without
<1>2. N \in Nat
  OBVIOUS
<1>3. \E f : Good(f, N)
  <2> DEFINE S == {k \in Nat : \E f : Good(f, k)}
  <2>1. 0 \in S
    <3>1. Good([i \in 0..0 |-> <<>>], 0)
      OBVIOUS
    <3> QED BY <3>1
  <2>2. ASSUME NEW k \in Nat, k \in S PROVE k + 1 \in S
    <3>1. PICK f : Good(f, k)
      BY <2>2
    <3> DEFINE g == [i \in 0..k + 1 |-> IF i = k + 1 THEN Next1(k + 1, f[k]) ELSE f[i]]
    <3> HIDE DEF Next1
    <3>2. g[k + 1] = Next1(k + 1, f[k]) /\ \A i \in 0..k : g[i] = f[i]
      OBVIOUS
    <3>3. ASSUME NEW i \in 0..k + 1 PROVE g[i] = IF i = 0 THEN <<>> ELSE Next1(i, g[i - 1])
      <4>1. CASE i = k + 1
        <5>1. i # 0 /\ i - 1 = k /\ k \in 0..k
          BY <4>1
        <5>2. g[i - 1] = f[k]
          BY <3>2, <5>1
        <5> HIDE DEF g
        <5> QED BY <3>2, <4>1, <5>1, <5>2
      <4>2. CASE i # k + 1
        <5>1. i \in 0..k /\ g[i] = f[i] /\ (i # 0 => i - 1 \in 0..k)
          BY <3>2, <4>2
        <5>2. f[i] = IF i = 0 THEN <<>> ELSE Next1(i, f[i - 1])
          BY <3>1, <5>1
        <5>3. i # 0 => g[i - 1] = f[i - 1]
          BY <3>2, <5>1
        <5> HIDE DEF g
        <5> QED BY <5>1, <5>2, <5>3
      <4> QED BY <4>1, <4>2
    <3>4. g = [i \in 0..k + 1 |-> IF i = 0 THEN <<>> ELSE Next1(i, g[i - 1])]
      BY <3>3
    <3> HIDE DEF g
    <3>5. \E h : Good(h, k + 1)
      BY <3>4
    <3> QED BY <3>5
  <2> HIDE DEF S
  <2>3. Nat \subseteq S
    BY <2>1, <2>2, SetInduction, SMTT(60)
  <2> QED BY <1>2, <2>3 DEF S
<1>4. Good(remaining, N)
  BY <1>3
<1> HIDE DEF remaining
<1> DEFINE T == {k \in Nat : k <= N => LeftOf(remaining[k], q, k)}
<1>5. 0 \in T
  <2>1. remaining[0] = <<>>
    BY <1>2, <1>4
  <2>2. <<>> \in Seq(Msgs) /\ Len(<<>>) = 0
    OBVIOUS
  <2>3. LeftOf(<<>>, q, 0)
    BY <2>2 DEF LeftOf
  <2> QED BY <2>1, <2>3
<1>6. ASSUME NEW k \in Nat, k \in T PROVE k + 1 \in T
  <2> SUFFICES ASSUME k + 1 <= N PROVE LeftOf(remaining[k + 1], q, k + 1)
    OBVIOUS
  <2>1. k <= N /\ k + 1 \in 0..N /\ k + 1 \in 1..N /\ (k + 1) - 1 = k /\ k + 1 # 0
    BY <1>2
  <2>2. remaining[k + 1] = Next1(k + 1, remaining[k])
    <3> HIDE DEF Next1
    <3> QED BY <1>4, <2>1
  <2>3. LeftOf(remaining[k], q, k)
    BY <1>6, <2>1
  <2>4. LeftOf(remaining[k], q, k + 1) /\ LeftOf(Append(remaining[k], q[k + 1]), q, k + 1)
    BY <2>1, <2>3, LeftOfNext
  <2> QED BY <2>2, <2>4
<1> HIDE DEF T
<1>7. Nat \subseteq T
  BY <1>5, <1>6, SetInduction
<1> QED BY <1>1, <1>2, <1>7 DEF T

\* So a line stays a line.
LEMMA LinedWithout ==
    ASSUME NEW s, NEW d, NEW q \in Seq(Msgs), NEW x, Lined(q, s, d)
    PROVE  /\ Without(q, x) \in Seq(Msgs)
           /\ Range(Without(q, x)) \subseteq Range(q)
           /\ Lined(Without(q, x), s, d)
<1> DEFINE v == Without(q, x)
<1>1. LeftOf(v, q, Len(q))
  BY WithoutIsLeft
<1> HIDE DEF v
<1>2. v \in Seq(Msgs)
  BY <1>1 DEF LeftOf
<1>3. Range(v) = {v[i] : i \in 1..Len(v)} /\ Range(q) = {q[i] : i \in 1..Len(q)}
  BY <1>2, RangeEquality
<1>4. Range(v) \subseteq Range(q)
  BY <1>1, <1>3 DEF LeftOf
<1>5. Lined(v, s, d)
  <2> SUFFICES ASSUME NEW i \in 1..Len(v), NEW j \in 1..Len(v), i < j,
                      v[i] \notin d, v[j] \notin d
               PROVE  Before(v[i], v[j], s)
    BY DEF Lined
  <2>1. PICK i1 \in 1..Len(q), j1 \in 1..Len(q) : i1 < j1 /\ v[i] = q[i1] /\ v[j] = q[j1]
    BY <1>1 DEF LeftOf
  <2> QED BY <2>1 DEF Lined
<1> QED BY <1>2, <1>4, <1>5 DEF v

----------------------------------------------------------------------------
(* What steps do to the line *)

\* More stashed messages, less to keep in order.
LEMMA LineDefers ==
    ASSUME NEW s, NEW t, NEW v, NEW b, NEW d, NEW e, InLine(s, t, v, b, d), d \subseteq e
    PROVE  InLine(s, t, v, b, e)
<1>1. \A q : Lined(q, s, d) => Lined(q, s, e)
  BY DEF Lined
<1>2. \A X, Y : Ahead(X, Y, s, d) => Ahead(X, Y, s, e)
  BY DEF Ahead
<1>3. (Range(t) \union Range(v) \union Range(b)) \ e \subseteq Range(s)
  BY DEF InLine
<1> QED BY <1>1, <1>2, <1>3 DEF InLine

\* A message is dispatched: it queues up behind all others.
LEMMA LineDispatch ==
    ASSUME NEW s, NEW t, NEW v, NEW b, NEW d, InLine(s, t, v, b, d),
           NEW m \in Msgs, m \notin Range(s)
    PROVE  InLine(Append(s, m), t, v, Append(b, m), d)
<1> DEFINE s2 == Append(s, m)
           b2 == Append(b, m)
<1>1. /\ s \in Seq(Msgs) /\ t \in Seq(Msgs) /\ v \in Seq(Msgs) /\ b \in Seq(Msgs)
      /\ (Range(t) \union Range(v) \union Range(b)) \ d \subseteq Range(s)
      /\ Lined(t, s, d) /\ Lined(v, s, d) /\ Lined(b, s, d)
      /\ Ahead(Range(t), Range(v), s, d) /\ Ahead(Range(t), Range(b), s, d)
      /\ Ahead(Range(v), Range(b), s, d)
      /\ \A i, j \in 1..Len(s) : s[i] = s[j] => i = j
  BY DEF InLine
<1>2. s2 \in Seq(Msgs) /\ b2 \in Seq(Msgs)
      /\ Range(s2) = Range(s) \union {m} /\ Range(b2) = Range(b) \union {m}
  BY <1>1, RangeOfAppend, AppendProperties
<1>3. \A x, y : Before(x, y, s) => Before(x, y, s2)
  BY <1>1, BeforeStays
<1>4. \A x \in Range(s) : Before(x, m, s2)
  BY <1>1, BeforeLast
<1>5. \A i, j \in 1..Len(s2) : s2[i] = s2[j] => i = j
  <2>1. /\ Len(s2) = Len(s) + 1 /\ Len(s) \in Nat
        /\ \A i \in 1..Len(s) : s2[i] = s[i]
        /\ s2[Len(s) + 1] = m
    BY <1>1, AppendProperties
  <2>2. \A i \in 1..Len(s) : s[i] \in Range(s)
    BY <1>1, RangeEquality
  <2> HIDE DEF s2
  <2>3. \A i \in 1..Len(s2) : i \in 1..Len(s) \/ i = Len(s) + 1
    BY <2>1
  <2> QED BY <1>1, <2>1, <2>2, <2>3
<1> HIDE DEF s2
<1>6. Lined(t, s2, d) /\ Lined(v, s2, d) /\ Lined(b, s2, d)
  BY <1>1, <1>3 DEF Lined
<1>7. Lined(b2, s2, d)
  <2>1. \A x \in Range(b) \ d : m \notin d => Before(x, m, s2)
    BY <1>1, <1>4
  <2> QED BY <1>1, <1>2, <1>6, <2>1, LinedAppend
<1> HIDE DEF b2
<1>8. Ahead(Range(t), Range(v), s2, d)
  BY <1>1, <1>3 DEF Ahead
<1>9. Ahead(Range(t), Range(b2), s2, d) /\ Ahead(Range(v), Range(b2), s2, d)
  BY <1>1, <1>2, <1>3, <1>4 DEF Ahead
<1>10. (Range(t) \union Range(v) \union Range(b2)) \ d \subseteq Range(s2)
  BY <1>1, <1>2
<1>11. InLine(s2, t, v, b2, d)
  BY <1>1, <1>2, <1>5, <1>6, <1>7, <1>8, <1>9, <1>10 DEF InLine
<1> QED BY <1>11 DEF s2, b2

StartedAfter(t, m, d) == IF m \in d THEN t ELSE Append(t, m)

\* The message at the head of the mailbox starts, while nothing is being moved.
LEMMA LineStarts ==
    ASSUME NEW s, NEW t, NEW b, NEW d, InLine(s, t, <<>>, b, d), b # <<>>
    PROVE  InLine(s, StartedAfter(t, Head(b), d), <<>>, Tail(b), d)
<1> DEFINE m  == Head(b)
           b2 == Tail(b)
           t2 == StartedAfter(t, m, d)
<1>1. /\ s \in Seq(Msgs) /\ t \in Seq(Msgs) /\ b \in Seq(Msgs)
      /\ (Range(t) \union Range(b)) \ d \subseteq Range(s)
      /\ Lined(t, s, d) /\ Lined(b, s, d) /\ Lined(<<>>, s, d)
      /\ Ahead(Range(t), Range(b), s, d)
      /\ \A i, j \in 1..Len(s) : s[i] = s[j] => i = j
  BY DEF InLine
<1>2. /\ m \in Range(b) /\ Range(b2) \subseteq Range(b) /\ b2 \in Seq(Msgs) /\ m \in Msgs
      /\ Lined(b2, s, d)
      /\ m \notin d => \A y \in Range(b2) \ d : Before(m, y, s)
  BY <1>1, RangeOfTail, LinedTail
<1>3. <<>> \in Seq(Msgs) /\ Range(<<>>) = {}
  BY RangeOfEmpty
<1> HIDE DEF m, b2
<1>4. /\ t2 \in Seq(Msgs) /\ Lined(t2, s, d)
      /\ \A x \in Range(t2) \ d : x \in Range(t) \/ (x = m /\ m \notin d)
  <2>1. CASE m \in d
    <3>1. t2 = t
      BY <2>1 DEF StartedAfter
    <3> QED BY <1>1, <3>1
  <2>2. CASE m \notin d
    <3>1. t2 = Append(t, m)
      BY <2>2 DEF StartedAfter
    <3>2. \A x \in Range(t) \ d : m \notin d => Before(x, m, s)
      BY <1>1, <1>2 DEF Ahead
    <3>3. Append(t, m) \in Seq(Msgs) /\ Range(Append(t, m)) = Range(t) \union {m}
      BY <1>1, <1>2, RangeOfAppend, AppendProperties
    <3>4. Lined(Append(t, m), s, d)
      BY <1>1, <1>2, <3>2, LinedAppend
    <3> QED BY <2>2, <3>1, <3>3, <3>4
  <2> QED BY <2>1, <2>2
<1> HIDE DEF t2
<1>5. Ahead(Range(t2), Range(b2), s, d)
  BY <1>1, <1>2, <1>4 DEF Ahead
<1>6. (Range(t2) \union Range(b2)) \ d \subseteq Range(s)
  BY <1>1, <1>2, <1>4
<1>7. Ahead(Range(t2), {}, s, d) /\ Ahead({}, Range(b2), s, d)
  BY DEF Ahead
<1>8. InLine(s, t2, <<>>, b2, d)
  BY <1>1, <1>2, <1>3, <1>4, <1>5, <1>6, <1>7 DEF InLine
<1> QED BY <1>8 DEF t2, b2, m

\* Stashed messages return in front of the others.
LEMMA LineUnstashes ==
    ASSUME NEW s, NEW t, NEW v, NEW b, NEW d, InLine(s, t, v, b, d),
           NEW u \in Seq(Msgs), Range(u) \subseteq d
    PROVE  InLine(s, t, v, u \o b, d)
<1>1. /\ b \in Seq(Msgs) /\ s \in Seq(Msgs) /\ Lined(b, s, d)
      /\ (Range(t) \union Range(v) \union Range(b)) \ d \subseteq Range(s)
      /\ Ahead(Range(t), Range(b), s, d) /\ Ahead(Range(v), Range(b), s, d)
  BY DEF InLine
<1>2. \A i \in 1..Len(u) : u[i] \in d
  BY RangeEquality
<1>3. Lined(u, s, d)
  BY <1>2 DEF Lined
<1>4. Ahead(Range(u), Range(b), s, d)
  BY DEF Ahead
<1>5. u \o b \in Seq(Msgs) /\ Lined(u \o b, s, d)
  BY <1>1, <1>3, <1>4, LinedConcat
<1>6. Range(u \o b) = Range(u) \union Range(b)
  BY <1>1, RangeConcatenation
<1> DEFINE w == u \o b
<1> HIDE DEF w
<1>7. w \in Seq(Msgs) /\ Lined(w, s, d) /\ Range(w) \ d = Range(b) \ d
  BY <1>5, <1>6 DEF w
<1>8. Ahead(Range(t), Range(w), s, d) /\ Ahead(Range(v), Range(w), s, d)
  BY <1>1, <1>7 DEF Ahead
<1>9. (Range(t) \union Range(v) \union Range(w)) \ d \subseteq Range(s)
  BY <1>1, <1>7
<1>10. InLine(s, t, v, w, d)
  BY <1>7, <1>8, <1>9 DEF InLine
<1> QED BY <1>10 DEF w

\* A migration refuses some messages, moves the others, and perhaps puts them
\* back.
LEMMA LineMoves ==
    ASSUME NEW s, NEW t, NEW v, NEW b, NEW d, InLine(s, t, v, b, d)
    PROVE  /\ \A x : InLine(s, t, v, Without(b, x), d)
           /\ v = <<>> => InLine(s, t, b, <<>>, d)
           /\ InLine(s, t, <<>>, v \o b, d)
           /\ InLine(s, t, <<>>, b, d)
<1>1. /\ s \in Seq(Msgs) /\ t \in Seq(Msgs) /\ v \in Seq(Msgs) /\ b \in Seq(Msgs)
      /\ (Range(t) \union Range(v) \union Range(b)) \ d \subseteq Range(s)
      /\ Lined(t, s, d) /\ Lined(v, s, d) /\ Lined(b, s, d)
      /\ Ahead(Range(t), Range(v), s, d) /\ Ahead(Range(t), Range(b), s, d)
      /\ Ahead(Range(v), Range(b), s, d)
  BY DEF InLine
<1>2. <<>> \in Seq(Msgs) /\ Range(<<>>) = {} /\ Lined(<<>>, s, d)
  BY RangeOfEmpty DEF Lined
<1>3. \A X : Ahead(X, {}, s, d) /\ Ahead({}, X, s, d)
  BY DEF Ahead
<1>4. ASSUME NEW x PROVE InLine(s, t, v, Without(b, x), d)
  <2> DEFINE w == Without(b, x)
  <2>1. w \in Seq(Msgs) /\ Range(w) \subseteq Range(b) /\ Lined(w, s, d)
    BY <1>1, LinedWithout
  <2> HIDE DEF w
  <2>2. Ahead(Range(t), Range(w), s, d) /\ Ahead(Range(v), Range(w), s, d)
    BY <1>1, <2>1 DEF Ahead
  <2>3. (Range(t) \union Range(v) \union Range(w)) \ d \subseteq Range(s)
    BY <1>1, <2>1
  <2>4. InLine(s, t, v, w, d)
    BY <2>1, <2>2, <2>3 DEF InLine
  <2> QED BY <2>4 DEF w
<1>5. v = <<>> => InLine(s, t, b, <<>>, d)
  BY <1>1, <1>2, <1>3 DEF InLine
<1>6. InLine(s, t, <<>>, v \o b, d)
  <2> DEFINE w == v \o b
  <2>1. w \in Seq(Msgs) /\ Lined(w, s, d) /\ Range(w) = Range(v) \union Range(b)
    BY <1>1, LinedConcat, RangeConcatenation
  <2> HIDE DEF w
  <2>2. Ahead(Range(t), Range(w), s, d)
    BY <1>1, <2>1 DEF Ahead
  <2>3. (Range(t) \union Range(w)) \ d \subseteq Range(s)
    BY <1>1, <2>1
  <2>4. InLine(s, t, <<>>, w, d)
    BY <1>2, <1>3, <2>1, <2>2, <2>3 DEF InLine
  <2> QED BY <2>4 DEF w
<1>7. InLine(s, t, <<>>, b, d)
  BY <1>1, <1>2, <1>3 DEF InLine
<1> QED BY <1>4, <1>5, <1>6, <1>7

\* However a handler ends, stashed messages are known as such and the line
\* stays in order.
LEMMA LineHandlerEnds ==
    ASSUME NEW s, NEW t, NEW v, NEW box, InLine(s, t, v, box, deferred),
           stash \in Seq(Msgs), Range(stash) \subseteq deferred,
           NEW cur \in Msgs \union {NoMsg}, NEW outcome, HandlerEnds(box, cur, outcome)
    PROVE  /\ InLine(s, t, v, mailbox', deferred')
           /\ stash' \in Seq(Msgs) /\ Range(stash') \subseteq deferred'
<1>1. CASE mailbox' = box /\ UNCHANGED <<stash, deferred>>
  BY <1>1
<1>2. CASE /\ stash' = IF cur = NoMsg THEN stash ELSE Append(stash, cur)
           /\ deferred' = deferred \union ({cur} \ {NoMsg})
           /\ mailbox' = box
  <2>1. InLine(s, t, v, mailbox', deferred')
    <3>1. deferred \subseteq deferred'
      BY <1>2
    <3>2. InLine(s, t, v, box, deferred')
      BY <3>1, LineDefers
    <3> QED BY <1>2, <3>2
  <2>2. CASE cur = NoMsg
    BY <1>2, <2>1, <2>2
  <2>3. CASE cur # NoMsg
    <3>1. cur \in Msgs /\ stash' = Append(stash, cur) /\ deferred' = deferred \union {cur}
      BY <1>2, <2>3
    <3>2. Append(stash, cur) \in Seq(Msgs) /\ Range(Append(stash, cur)) = Range(stash) \union {cur}
      BY <3>1, RangeOfAppend, AppendProperties
    <3> QED BY <2>1, <3>1, <3>2
  <2> QED BY <2>2, <2>3
<1>3. CASE /\ mailbox' = IF alive THEN stash \o box ELSE box
           /\ stash' = <<>>
           /\ UNCHANGED deferred
  <2>1. InLine(s, t, v, stash \o box, deferred)
    BY LineUnstashes
  <2>2. InLine(s, t, v, mailbox', deferred')
    BY <1>3, <2>1
  <2> QED BY <1>3, <2>2, RangeOfEmpty
<1>4. CASE /\ stash # <<>>
           /\ mailbox' = IF alive THEN <<Head(stash)>> \o box ELSE box
           /\ stash' = Tail(stash)
           /\ UNCHANGED deferred
  <2> DEFINE u == <<Head(stash)>>
  <2>1. /\ Head(stash) \in Msgs /\ Head(stash) \in deferred
        /\ Tail(stash) \in Seq(Msgs) /\ Range(Tail(stash)) \subseteq deferred
    BY <1>4, RangeOfTail
  <2>2. u \in Seq(Msgs) /\ Len(u) = 1 /\ u[1] = Head(stash)
    BY <2>1
  <2>3. Range(u) \subseteq deferred
    <3>1. Range(u) = {u[i] : i \in 1..Len(u)}
      BY <2>2, RangeEquality
    <3> QED BY <2>1, <2>2, <3>1
  <2> HIDE DEF u
  <2>4. InLine(s, t, v, u \o box, deferred)
    BY <2>2, <2>3, LineUnstashes
  <2>5. InLine(s, t, v, mailbox', deferred')
    BY <1>4, <2>4 DEF u
  <2> QED BY <1>4, <2>1, <2>5
<1>5. CASE stash' = <<>> /\ mailbox' = box /\ UNCHANGED deferred
  BY <1>5, RangeOfEmpty
<1> QED BY <1>1, <1>2, <1>3, <1>4, <1>5 DEF HandlerEnds

\* spawn() leaves an empty line.
LEMMA InitOrder == Init => OrderInv
<1> SUFFICES ASSUME Init PROVE OrderInv
  OBVIOUS
<1>1. InLine(<<>>, <<>>, <<>>, <<>>, {})
  BY RangeOfEmpty DEF InLine, Lined, Ahead
<1>2. Stashing /\ MovedWhilePaused
  BY RangeOfEmpty DEF Init, Stashing, MovedWhilePaused
<1> QED BY <1>1, <1>2 DEF Init, OrderInv

\* Messages only start while none is being moved.
LEMMA NothingMoves ==
    ASSUME OrderInv, alive, ~paused
    PROVE  moved = <<>> /\ InLine(sent, started, <<>>, mailbox, deferred)
<1>1. moved = <<>>
  BY DEF OrderInv, MovedWhilePaused
<1> QED BY <1>1 DEF OrderInv

\* dispatchCast and the slow path of dispatchCall preserve the line.
LEMMA OrderDispatch ==
    ASSUME OrderInv, NEW m \in Msgs, Unsent(m), mailbox' = Append(mailbox, m),
           sent' = Append(sent, m), UNCHANGED <<started, moved, deferred>>
    PROVE  InLine(sent, started, moved, mailbox, deferred)'
<1>1. InLine(sent, started, moved, mailbox, deferred) /\ m \notin Range(sent)
  BY DEF OrderInv, Unsent
<1>2. InLine(Append(sent, m), started, moved, Append(mailbox, m), deferred)
  BY <1>1, LineDispatch
<1> QED BY <1>2

\* A call of the fast path starts at once: nobody is in front of it.
LEMMA OrderDirect ==
    ASSUME OrderInv, NEW k \in Calls, Unsent(k), alive, FastPath
    PROVE  /\ moved = <<>> /\ mailbox = <<>>
           /\ InLine(Append(sent, k), StartedWith(k), <<>>, <<>>, deferred)
<1>1. moved = <<>> /\ mailbox = <<>> /\ InLine(sent, started, <<>>, <<>>, deferred)
  BY NothingMoves DEF FastPath
<1>2. k \in Msgs /\ k \notin Range(sent)
  BY DEF Unsent, Msgs
<1>3. InLine(Append(sent, k), started, <<>>, Append(<<>>, k), deferred)
  BY <1>1, <1>2, LineDispatch
<1>4. /\ Append(<<>>, k) # <<>> /\ Head(Append(<<>>, k)) = k
      /\ Tail(Append(<<>>, k)) = <<>>
  OBVIOUS
<1>5. InLine(Append(sent, k), StartedAfter(started, k, deferred), <<>>, <<>>, deferred)
  BY <1>3, <1>4, LineStarts
<1> QED BY <1>1, <1>5 DEF StartedAfter, StartedWith

\* A loop takes the head of the mailbox.
LEMMA OrderTakes ==
    ASSUME OrderInv, NEW l \in Loops, LoopGoesOn(l)
    PROVE  /\ moved = <<>> /\ Head(mailbox) \in Msgs
           /\ InLine(sent, StartedWith(Head(mailbox)), <<>>, Tail(mailbox), deferred)
<1>1. moved = <<>> /\ InLine(sent, started, <<>>, mailbox, deferred) /\ mailbox # <<>>
  BY NothingMoves DEF LoopGoesOn
<1>2. mailbox \in Seq(Msgs)
  BY <1>1 DEF InLine
<1>3. InLine(sent, StartedAfter(started, Head(mailbox), deferred), <<>>, Tail(mailbox), deferred)
  BY <1>1, LineStarts
<1>4. Head(mailbox) \in Msgs
  BY <1>1, <1>2, RangeOfTail
<1> QED BY <1>1, <1>3, <1>4 DEF StartedAfter, StartedWith

\* The rest of the invariant, where a handler ends and where none does.
LEMMA RestOfStep ==
    ASSUME OrderInv, UNCHANGED <<migration, alive, paused, moved>>,
           stash' \in Seq(Msgs), Range(stash') \subseteq deferred',
           currentMessage' \in Msgs \union {NoMsg},
           prevMessage' \in [Calls -> Msgs \union {NoMsg}]
    PROVE  Stashing' /\ MovedWhilePaused'
BY DEF OrderInv, Stashing, MovedWhilePaused

\* The fast path preserves the order.
LEMMA OrderCallDirect == OrderInv /\ CallDirect => OrderInv'
<1> SUFFICES ASSUME OrderInv, CallDirect PROVE OrderInv'
  OBVIOUS
<1>0. stash \in Seq(Msgs) /\ Range(stash) \subseteq deferred
      /\ currentMessage \in Msgs \union {NoMsg}
      /\ prevMessage \in [Calls -> Msgs \union {NoMsg}]
  BY DEF OrderInv, Stashing
<1>1. ASSUME NEW k \in Calls, CallDirectSuspends(k) PROVE OrderInv'
  <2>1. /\ Unsent(k) /\ alive /\ FastPath
        /\ sent' = Append(sent, k) /\ started' = StartedWith(k)
        /\ UNCHANGED <<mailbox, moved, deferred, stash, migration, alive, paused>>
        /\ currentMessage' = k
        /\ prevMessage' = [prevMessage EXCEPT ![k] = currentMessage]
    BY <1>1 DEF CallDirectSuspends, life, migrating
  <2>2. InLine(sent, started, moved, mailbox, deferred)'
    BY <2>1, OrderDirect
  <2>3. k \in Msgs
    BY DEF Msgs
  <2>4. prevMessage' \in [Calls -> Msgs \union {NoMsg}]
    BY <1>0, <2>1
  <2>5. Stashing' /\ MovedWhilePaused'
    BY <1>0, <2>1, <2>3, <2>4, RestOfStep
  <2> QED BY <2>2, <2>5 DEF OrderInv
<1>2. ASSUME NEW k \in Calls, NEW outcome \in Outcomes, CallDirectCompletes(k, outcome)
      PROVE  OrderInv'
  <2>1. /\ Unsent(k) /\ alive /\ FastPath
        /\ sent' = Append(sent, k) /\ started' = StartedWith(k)
        /\ HandlerEnds(mailbox, k, outcome)
        /\ UNCHANGED <<moved, migration, alive, paused, currentMessage, prevMessage>>
    BY <1>2 DEF CallDirectCompletes, life, migrating
  <2>2. /\ moved = <<>> /\ mailbox = <<>>
        /\ InLine(Append(sent, k), StartedWith(k), moved, mailbox, deferred)
    BY <2>1, OrderDirect
  <2>3. k \in Msgs \union {NoMsg}
    BY DEF Msgs
  <2>4. /\ InLine(Append(sent, k), StartedWith(k), moved, mailbox', deferred')
        /\ stash' \in Seq(Msgs) /\ Range(stash') \subseteq deferred'
    BY <1>0, <2>1, <2>2, <2>3, LineHandlerEnds
  <2>5. InLine(sent, started, moved, mailbox, deferred)'
    BY <2>1, <2>4
  <2>6. Stashing' /\ MovedWhilePaused'
    BY <1>0, <2>1, <2>4, RestOfStep
  <2> QED BY <2>5, <2>6 DEF OrderInv
<1> QED BY <1>1, <1>2 DEF CallDirect

\* Every step preserves the order.
LEMMA StepOrder == OrderInv /\ [Step]_vars => OrderInv'
<1> SUFFICES ASSUME OrderInv, [Step]_vars PROVE OrderInv'
  OBVIOUS
<1>0. /\ stash \in Seq(Msgs) /\ Range(stash) \subseteq deferred
      /\ currentMessage \in Msgs \union {NoMsg}
      /\ prevMessage \in [Calls -> Msgs \union {NoMsg}]
      /\ InLine(sent, started, moved, mailbox, deferred)
      /\ MovedWhilePaused
  BY DEF OrderInv, Stashing
<1> DEFINE Line == <<sent, started, moved, mailbox, deferred, stash, currentMessage, prevMessage>>
<1>a. ASSUME UNCHANGED Line, MovedWhilePaused' PROVE OrderInv'
  BY <1>0, <1>a DEF OrderInv, Stashing
<1>1. CASE CallDirect
  BY <1>1, OrderCallDirect
<1>2. ASSUME NEW m \in Msgs, dispatchCast(m) \/ CallQueued(m) PROVE OrderInv'
  <2>1. /\ Unsent(m) /\ mailbox' = Append(mailbox, m) /\ sent' = Append(sent, m)
        /\ UNCHANGED <<started, moved, deferred, stash, currentMessage, prevMessage,
                       migration, alive, paused>>
    BY <1>2 DEF dispatchCast, CallQueued, life, migrating, calls
  <2>2. InLine(sent, started, moved, mailbox, deferred)'
    BY <2>1, OrderDispatch
  <2>3. Stashing' /\ MovedWhilePaused'
    BY <1>0, <2>1, RestOfStep
  <2> QED BY <2>2, <2>3 DEF OrderInv
<1>3. ASSUME NEW k \in Calls, CallTimesOut(k) PROVE OrderInv'
  BY <1>0, <1>3, <1>a DEF CallTimesOut, queues, migrating, history, life, MovedWhilePaused
<1>4. ASSUME NEW k \in Calls, NEW outcome \in Outcomes, DirectResumes(k, outcome)
      PROVE  OrderInv'
  <2>1. /\ HandlerEnds(mailbox, currentMessage, outcome)
        /\ currentMessage' = prevMessage[k]
        /\ UNCHANGED <<sent, started, moved, prevMessage, migration, alive, paused>>
    BY <1>4 DEF DirectResumes, life, migrating
  <2>2. /\ InLine(sent, started, moved, mailbox', deferred')
        /\ stash' \in Seq(Msgs) /\ Range(stash') \subseteq deferred'
    BY <1>0, <2>1, LineHandlerEnds
  <2>3. currentMessage' \in Msgs \union {NoMsg}
    BY <1>0, <2>1
  <2>4. Stashing' /\ MovedWhilePaused'
    BY <1>0, <2>1, <2>2, <2>3, RestOfStep
  <2>5. InLine(sent, started, moved, mailbox, deferred)'
    BY <2>1, <2>2
  <2> QED BY <2>4, <2>5 DEF OrderInv
<1>5. CASE ImmediateIdle
  BY <1>0, <1>5, <1>a DEF ImmediateIdle, queues, migrating, history, life, calls, MovedWhilePaused
<1>6. ASSUME NEW l \in Loops, ImmediateStarts(l) \/ LoopEnds(l) PROVE OrderInv'
  BY <1>0, <1>6, <1>a
     DEF ImmediateStarts, LoopEnds, queues, migrating, history, life, calls, MovedWhilePaused
<1>7. ASSUME NEW l \in Loops, LoopSuspends(l) PROVE OrderInv'
  <2>1. /\ LoopGoesOn(l) /\ mailbox' = Tail(mailbox) /\ currentMessage' = Head(mailbox)
        /\ started' = StartedWith(Head(mailbox))
        /\ UNCHANGED <<sent, deferred, stash, prevMessage, moved, migration, alive, paused>>
    BY <1>7 DEF LoopSuspends, life, migrating, calls
  <2>2. /\ moved = <<>> /\ Head(mailbox) \in Msgs
        /\ InLine(sent, StartedWith(Head(mailbox)), <<>>, Tail(mailbox), deferred)
    BY <2>1, OrderTakes
  <2>3. InLine(sent, started, moved, mailbox, deferred)'
    BY <2>1, <2>2
  <2>4. Stashing' /\ MovedWhilePaused'
    BY <1>0, <2>1, <2>2, RestOfStep
  <2> QED BY <2>3, <2>4 DEF OrderInv
<1>8. ASSUME NEW l \in Loops, NEW outcome \in Outcomes, LoopCompletes(l, outcome)
      PROVE  OrderInv'
  <2>1. /\ LoopGoesOn(l) /\ HandlerEnds(Tail(mailbox), Head(mailbox), outcome)
        /\ started' = StartedWith(Head(mailbox))
        /\ currentMessage' = NoMsg
        /\ UNCHANGED <<sent, prevMessage, moved, migration, alive, paused>>
    BY <1>8 DEF LoopCompletes, LoopSettles, migrating
  <2>2. /\ moved = <<>> /\ Head(mailbox) \in Msgs \union {NoMsg}
        /\ InLine(sent, StartedWith(Head(mailbox)), <<>>, Tail(mailbox), deferred)
    BY <2>1, OrderTakes
  <2>3. /\ InLine(sent, StartedWith(Head(mailbox)), <<>>, mailbox', deferred')
        /\ stash' \in Seq(Msgs) /\ Range(stash') \subseteq deferred'
    BY <1>0, <2>1, <2>2, LineHandlerEnds
  <2>4. InLine(sent, started, moved, mailbox, deferred)'
    BY <2>1, <2>2, <2>3
  <2>5. Stashing' /\ MovedWhilePaused'
    BY <1>0, <2>1, <2>3, RestOfStep
  <2> QED BY <2>4, <2>5 DEF OrderInv
<1>9. ASSUME NEW l \in Loops, NEW outcome \in Outcomes, LoopResumes(l, outcome)
      PROVE  OrderInv'
  <2>1. /\ HandlerEnds(mailbox, currentMessage, outcome)
        /\ currentMessage' = NoMsg
        /\ UNCHANGED <<sent, started, moved, prevMessage, migration, alive, paused>>
    BY <1>9 DEF LoopResumes, LoopSettles, migrating
  <2>2. /\ InLine(sent, started, moved, mailbox', deferred')
        /\ stash' \in Seq(Msgs) /\ Range(stash') \subseteq deferred'
    BY <1>0, <2>1, LineHandlerEnds
  <2>3. Stashing' /\ MovedWhilePaused'
    BY <1>0, <2>1, <2>2, RestOfStep
  <2>4. InLine(sent, started, moved, mailbox, deferred)'
    BY <2>1, <2>2
  <2> QED BY <2>3, <2>4 DEF OrderInv
<1>10. CASE StopBegins \/ StopEnds
  BY <1>0, <1>10, <1>a
     DEF StopBegins, StopEnds, queues, migrating, history, calls, MovedWhilePaused
<1>11. CASE PrepareFails \/ PrepareSucceeds \/ ExecuteSucceeds
  <2>1. CASE PrepareFails
    <3>1. /\ migration = "preparing" /\ migration' = "none" /\ moved' = moved
          /\ UNCHANGED Line
      BY <2>1 DEF PrepareFails, queues, history, calls
    <3>2. MovedWhilePaused'
      BY <1>0, <3>1 DEF MovedWhilePaused
    <3> QED BY <3>1, <3>2, <1>a
  <2>2. CASE PrepareSucceeds
    <3>1. /\ migration = "preparing" /\ migration' \in {"draining", "executing"}
          /\ UNCHANGED <<moved, alive, paused>> /\ UNCHANGED Line
      BY <2>2 DEF PrepareSucceeds, queues, history, life, calls
    <3>2. MovedWhilePaused'
      BY <1>0, <3>1 DEF MovedWhilePaused
    <3> QED BY <3>1, <3>2, <1>a
  <2>3. CASE ExecuteSucceeds
    <3>1. /\ migration' = "done" /\ ~alive' /\ moved' = moved
          /\ UNCHANGED Line
      BY <2>3 DEF ExecuteSucceeds, queues, history, calls
    <3>2. MovedWhilePaused'
      BY <1>0, <3>1 DEF MovedWhilePaused
    <3> QED BY <3>1, <3>2, <1>a
  <2> QED BY <1>11, <2>1, <2>2, <2>3
<1>12. CASE MigrateBegins
  <2>1. /\ mailbox' = Without(mailbox, replyTo) /\ migration' = "preparing" /\ paused'
        /\ migration = "none"
        /\ UNCHANGED <<sent, started, moved, deferred, stash, currentMessage, prevMessage, alive>>
    BY <1>12 DEF MigrateBegins, life, history
  <2>2. InLine(sent, started, moved, mailbox, deferred)'
    BY <1>0, <2>1, LineMoves
  <2>3. Stashing' /\ MovedWhilePaused'
    BY <1>0, <2>1 DEF Stashing, MovedWhilePaused
  <2> QED BY <2>2, <2>3 DEF OrderInv
<1>13. CASE Drain
  <2>1. /\ migration = "draining" /\ migration' = "executing" /\ moved' = mailbox
        /\ mailbox' = <<>>
        /\ UNCHANGED <<sent, started, deferred, stash, currentMessage, prevMessage,
                       alive, paused>>
    BY <1>13 DEF Drain, life, history, calls
  <2>2. moved = <<>>
    BY <1>0, <2>1 DEF MovedWhilePaused
  <2>3. InLine(sent, started, moved, mailbox, deferred)'
    BY <1>0, <2>1, <2>2, LineMoves
  <2>4. Stashing' /\ MovedWhilePaused'
    BY <1>0, <2>1 DEF Stashing, MovedWhilePaused
  <2> QED BY <2>3, <2>4 DEF OrderInv
<1>14. CASE ExecuteFails
  <2>1. /\ migration' = "none" /\ moved' = <<>>
        /\ mailbox' = IF alive THEN moved \o mailbox ELSE mailbox
        /\ UNCHANGED <<sent, started, deferred, stash, currentMessage, prevMessage, alive>>
    BY <1>14 DEF ExecuteFails, life, history, calls
  <2>2. InLine(sent, started, <<>>, moved \o mailbox, deferred)
        /\ InLine(sent, started, <<>>, mailbox, deferred)
    BY <1>0, LineMoves
  <2>3. InLine(sent, started, moved, mailbox, deferred)'
    BY <2>1, <2>2
  <2>4. Stashing' /\ MovedWhilePaused'
    BY <1>0, <2>1 DEF Stashing, MovedWhilePaused
  <2> QED BY <2>3, <2>4 DEF OrderInv
<1>15. CASE UNCHANGED vars
  BY <1>0, <1>15, <1>a DEF vars, queues, migrating, history, life, calls, MovedWhilePaused
<1>16. Casts \subseteq Msgs /\ Calls \subseteq Msgs
  BY DEF Msgs
<1> QED BY <1>1, <1>2, <1>3, <1>4, <1>5, <1>6, <1>7, <1>8, <1>9, <1>10, <1>11, <1>12,
           <1>13, <1>14, <1>15, <1>16
        DEF Step, OtherSteps, Migrate

\* Messages that were never stashed start in the order they were dispatched,
\* each at most once, whether they take the fast path, wait for a batch, or are
\* taken out and put back by a migration that fails.
THEOREM MessagesStartInOrder == Spec => []StartOrder
<1>1. OrderInv => StartOrder
  <2> SUFFICES ASSUME OrderInv, NEW i \in 1..Len(started), NEW j \in 1..Len(started),
                      i < j, {started[i], started[j]} \intersect deferred = {}
               PROVE  Position(started[i]) < Position(started[j])
    BY DEF StartOrder
  <2>1. Lined(started, sent, deferred) /\ \A k, l \in 1..Len(sent) : sent[k] = sent[l] => k = l
    BY DEF OrderInv, InLine
  <2>2. PICK k \in 1..Len(sent), l \in 1..Len(sent) :
           k < l /\ sent[k] = started[i] /\ sent[l] = started[j]
    BY <2>1 DEF Lined, Before
  <2>3. \A n \in 1..Len(sent) : Position(sent[n]) = n
    BY <2>1 DEF Position
  <2> QED BY <2>2, <2>3
<1> QED BY InitOrder, StepOrder, NextIsStep, <1>1, PTL DEF Spec

=============================================================================
