--------------------------- MODULE MailboxProofs ---------------------------
(***************************************************************************)
(* Proofs about the ring buffer of Mailbox.tla: its indices and slots stay *)
(* consistent for every capacity, bound and strategy, as long as no        *)
(* replaceWith fills the array to the last slot.                           *)
(***************************************************************************)
EXTENDS Mailbox, SequenceTheorems, TLAPS

IInv == TypeOK /\ RingOK

----------------------------------------------------------------------------
(* Index arithmetic: every index the code computes wraps at most once. *)

\* An index below the length is left alone by the wrap-around.
LEMMA ModSmall ==
    ASSUME NEW n \in Nat \ {0}, NEW a \in 0..(n - 1)
    PROVE  a % n = a
BY Z3

\* An index one turn too far comes back by one turn.
LEMMA ModWrap ==
    ASSUME NEW n \in Nat \ {0}, NEW a \in n..(2 * n - 1)
    PROVE  a % n = a - n
BY Z3

\* (head + k) % buf.length, the slot k places after head.
LEMMA SlotAfter ==
    ASSUME NEW c \in Nat \ {0}, NEW h \in 0..(c - 1), NEW k \in 0..c
    PROVE  (h + k) % c = IF h + k < c THEN h + k ELSE h + k - c
<1>1. CASE h + k < c
  BY <1>1, ModSmall, h + k \in 0..(c - 1)
<1>2. CASE h + k >= c
  <2>1. h + k \in c..(2 * c - 1)
    BY <1>2
  <2>2. (h + k) % c = h + k - c
    BY <2>1, ModWrap
  <2> QED BY <1>2, <2>1, <2>2
<1> QED BY <1>1, <1>2

\* (index + 1) % buf.length, the next slot.
LEMMA NextSlot ==
    ASSUME NEW c \in Nat \ {0}, NEW h \in 0..(c - 1)
    PROVE  (h + 1) % c = IF h + 1 < c THEN h + 1 ELSE 0
<1>1. CASE h + 1 < c
  BY <1>1, ModSmall, h + 1 \in 0..(c - 1)
<1>2. CASE h + 1 = c
  <2>1. c \in c..(2 * c - 1)
    OBVIOUS
  <2> QED BY <1>2, <2>1, ModWrap
<1> QED BY <1>1, <1>2

\* (i - head + buf.length) % buf.length, the place of slot i after head.
LEMMA PlaceOf ==
    ASSUME NEW c \in Nat \ {0}, NEW h \in 0..(c - 1), NEW i \in 0..(c - 1)
    PROVE  (i - h + c) % c = IF i < h THEN i - h + c ELSE i - h
<1>1. CASE i < h
  BY <1>1, ModSmall, i - h + c \in 0..(c - 1)
<1>2. CASE i >= h
  BY <1>2, ModWrap, i - h + c \in c..(2 * c - 1)
<1> QED BY <1>1, <1>2

\* The window between head and tail, without wrap-around arithmetic.
Place(i, h, c) == IF i < h THEN i - h + c ELSE i - h

Plain ==
    /\ tail = IF head + size < cap THEN head + size ELSE head + size - cap
    /\ \A i \in 0..(cap - 1) : buf[i] # Empty <=> Place(i, head, cap) < size

\* RingOK, without the remainders.
LEMMA RingOKPlain ==
    ASSUME TypeOK
    PROVE  RingOK <=> Plain
<1>1. (head + size) % cap = IF head + size < cap THEN head + size ELSE head + size - cap
  BY SlotAfter DEF TypeOK
<1>2. ASSUME NEW i \in 0..(cap - 1)
      PROVE (i - head + cap) % cap = Place(i, head, cap)
  BY PlaceOf DEF TypeOK, Place
<1> QED BY <1>1, <1>2 DEF RingOK, Plain, InWindow

\* The same, of the state after a step.
LEMMA RingOKPlainPrimed ==
    ASSUME TypeOK'
    PROVE  RingOK' <=> Plain'
<1>1. ((head + size) % cap)' = (IF head + size < cap THEN head + size ELSE head + size - cap)'
  BY SlotAfter DEF TypeOK
<1>2. ASSUME NEW i \in (0..(cap - 1))'
      PROVE ((i - head + cap) % cap)' = Place(i, head', cap')
  BY PlaceOf DEF TypeOK, Place
<1> QED BY <1>1, <1>2 DEF RingOK, Plain, InWindow

----------------------------------------------------------------------------
(* Initial states *)

\* The ring the constructor makes is consistent.
LEMMA InitIInv == Init => IInv
<1> SUFFICES ASSUME Init PROVE IInv
  OBVIOUS
<1>1. TypeOK
  BY MailboxAssumption DEF Init, TypeOK, EmptyBuf
<1>2. Plain
  BY <1>1, MailboxAssumption DEF Init, Plain, Place, TypeOK, EmptyBuf
<1> QED BY <1>1, <1>2, RingOKPlain DEF IInv

----------------------------------------------------------------------------
(* enqueue *)

\* enqueue into a free slot keeps the ring consistent.
LEMMA EnqueueInPlaceStep ==
    ASSUME IInv, NEW m \in Msgs, EnqueueAccepted(m), EnqueueInPlace(m),
           UNCHANGED config
    PROVE  IInv'
<1> USE MailboxAssumption
<1>1. Plain /\ TypeOK
  BY RingOKPlain DEF IInv
<1>2. tail < cap /\ size < cap
  BY <1>1 DEF Plain, TypeOK, EnqueueInPlace
<1>3. /\ cap' = cap /\ head' = head /\ size' = size + 1
      /\ buf' = [buf EXCEPT ![tail] = m]
      /\ tail' = (tail + 1) % cap
  BY <1>2, <1>1 DEF EnqueueInPlace, EnqueueAccepted, CapAfterWrite, Written, TypeOK
<1>4. tail' = IF tail + 1 < cap THEN tail + 1 ELSE 0
  BY <1>3, <1>2, <1>1, NextSlot, tail \in 0..(cap - 1) DEF TypeOK
<1>5. TypeOK'
  BY <1>1, <1>2, <1>3, <1>4 DEF TypeOK, EnqueueAccepted
<1>6. Plain'
  BY SMTT(30), <1>1, <1>2, <1>3, <1>4 DEF TypeOK, Plain, Place, Msgs
<1> QED BY <1>5, <1>6, RingOKPlainPrimed DEF IInv

\* enqueue into a full array, after grow(), keeps the ring consistent.
LEMMA EnqueueGrownStep ==
    ASSUME IInv, NEW m \in Msgs, EnqueueAccepted(m), EnqueueGrown(m),
           UNCHANGED config
    PROVE  IInv'
<1> USE MailboxAssumption
<1>1. Plain /\ TypeOK
  BY RingOKPlain DEF IInv
<1>2. ASSUME NEW i \in 0..(size - 1)
      PROVE  (head + i) % cap \in 0..(cap - 1) /\ buf[(head + i) % cap] \in Msgs
  <2>1. (head + i) % cap = IF head + i < cap THEN head + i ELSE head + i - cap
    BY <1>1, SlotAfter, i \in 0..cap DEF TypeOK
  <2> QED BY <2>1, <1>1 DEF TypeOK, Plain, Place
<1>3. /\ cap' = 2 * cap /\ head' = 0 /\ size' = size + 1 /\ size = cap
      /\ tail' = IF size + 1 < cap' THEN size + 1 ELSE 0
  <2>1. 2 * cap \in Nat \ {0} /\ size = cap /\ size \in 0..(2 * cap - 1)
    BY <1>1 DEF TypeOK, EnqueueGrown
  <2>2. (size + 1) % (2 * cap) = IF size + 1 < 2 * cap THEN size + 1 ELSE 0
    BY <2>1, NextSlot
  <2> QED BY <2>1, <2>2 DEF EnqueueGrown, EnqueueAccepted
<1>4. buf' = [i \in 0..(cap' - 1) |->
                 IF i = size THEN m
                 ELSE IF i < size THEN buf[(head + i) % cap] ELSE Empty]
  BY <1>1, <1>3 DEF TypeOK, EnqueueGrown, Grown
<1>5. ASSUME NEW i \in 0..(cap' - 1)
      PROVE  buf'[i] \in Msgs \union {Empty} /\ (buf'[i] # Empty <=> i <= size)
  BY <1>1, <1>2, <1>3, <1>4 DEF TypeOK, Msgs
<1>6. TypeOK'
  <2>1. buf' \in [0..(cap' - 1) -> Msgs \union {Empty}]
    BY <1>4, <1>5
  <2> QED BY <2>1, <1>1, <1>3 DEF TypeOK, EnqueueAccepted
<1>7. Plain'
  BY <1>1, <1>3, <1>5 DEF TypeOK, Plain, Place
<1> QED BY <1>6, <1>7, RingOKPlainPrimed DEF IInv

\* enqueue that evicts the oldest message keeps the ring consistent.
LEMMA EnqueueEvictingStep ==
    ASSUME IInv, NEW m \in Msgs, EnqueueEvicting(m), UNCHANGED config
    PROVE  IInv'
<1> USE MailboxAssumption
<1>1. Plain /\ TypeOK
  BY RingOKPlain DEF IInv
<1>2. tail < cap /\ size > 0
  BY <1>1 DEF Plain, TypeOK, EnqueueEvicting, isFull
<1>3. /\ cap' = cap /\ size' = size
      /\ buf' = [[buf EXCEPT ![head] = Empty] EXCEPT ![tail] = m]
      /\ tail' = (tail + 1) % cap
      /\ head' = (head + 1) % cap
      /\ dropped' \in 0..MaxDropped
  BY <1>2, <1>1 DEF EnqueueEvicting, CapAfterWrite, Written, TypeOK
<1>4. /\ tail' = IF tail + 1 < cap THEN tail + 1 ELSE 0
      /\ head' = IF head + 1 < cap THEN head + 1 ELSE 0
  BY <1>3, <1>2, <1>1, NextSlot, tail \in 0..(cap - 1) DEF TypeOK
<1>5. TypeOK'
  BY <1>1, <1>2, <1>3, <1>4 DEF TypeOK
<1>6. Plain'
  BY <1>1, <1>2, <1>3, <1>4 DEF TypeOK, Plain, Place, Msgs
<1> QED BY <1>5, <1>6, RingOKPlainPrimed DEF IInv

----------------------------------------------------------------------------
(* The other operations *)

\* dequeue keeps the ring consistent.
LEMMA DequeueStep ==
    ASSUME IInv, dequeue, UNCHANGED config
    PROVE  IInv'
<1> USE MailboxAssumption
<1>1. Plain /\ TypeOK
  BY RingOKPlain DEF IInv
<1>2. CASE size = 0
  BY <1>1, <1>2 DEF dequeue, IInv, TypeOK, RingOK, InWindow
<1>3. CASE size # 0
  <2>1. /\ cap' = cap /\ size' = size - 1 /\ tail' = tail
        /\ buf' = [buf EXCEPT ![head] = Empty]
        /\ head' = IF head + 1 < cap THEN head + 1 ELSE 0
    BY <1>1, <1>3, NextSlot DEF dequeue, TypeOK
  <2>2. TypeOK'
    BY <1>1, <1>3, <2>1 DEF TypeOK, dequeue
  <2>3. Plain'
    BY <1>1, <1>3, <2>1 DEF TypeOK, Plain, Place
  <2> QED BY <2>2, <2>3, RingOKPlainPrimed DEF IInv
<1> QED BY <1>2, <1>3

\* A batch of unshift is a non-empty sequence of messages.
LEMMA BatchLen ==
    ASSUME NEW ms \in Batches
    PROVE  ms \in [1..Len(ms) -> Msgs] /\ Len(ms) \in Nat \ {0}
<1>1. PICK k \in 1..MaxBatch : ms \in [1..k -> Msgs]
  BY DEF Batches
<1>2. ms \in Seq(Msgs) /\ Len(ms) = k
  BY <1>1, MailboxAssumption
<1> QED BY <1>1, <1>2, MailboxAssumption

\* unshift of a batch that fits keeps the ring consistent.
LEMMA UnshiftInPlaceStep ==
    ASSUME IInv, NEW ms \in Batches, unshift(ms), UnshiftInPlace(ms),
           UNCHANGED config
    PROVE  IInv'
<1> USE MailboxAssumption
<1> DEFINE n == Len(ms)
           h == (head - n + cap) % cap
<1>1. Plain /\ TypeOK
  BY RingOKPlain DEF IInv
<1>2. ms \in [1..n -> Msgs] /\ n \in Nat \ {0} /\ n <= cap /\ size + n <= cap
  <2>1. ms \in [1..n -> Msgs] /\ n \in Nat \ {0}
    BY BatchLen
  <2>2. size + n <= cap
    BY Zenon DEF UnshiftInPlace
  <2> QED BY <2>1, <2>2, <1>1 DEF TypeOK
<1>3. h = IF head < n THEN head - n + cap ELSE head - n
  <2>1. CASE head < n
    BY <1>1, <1>2, <2>1, ModSmall, head - n + cap \in 0..(cap - 1) DEF TypeOK
  <2>2. CASE head >= n
    <3>1. cap \in Nat \ {0} /\ head - n + cap \in cap..(2 * cap - 1)
      BY <1>1, <1>2, <2>2 DEF TypeOK
    <3>2. h = (head - n + cap) - cap
      BY <3>1, ModWrap
    <3> QED BY <1>1, <1>2, <2>2, <3>2 DEF TypeOK
  <2> QED BY <1>1, <1>2, <2>1, <2>2 DEF TypeOK
<1>4. h \in 0..(cap - 1)
  BY <1>1, <1>2, <1>3 DEF TypeOK
<1>5. ASSUME NEW i \in 0..(cap - 1)
      PROVE  (i - h + cap) % cap = Place(i, h, cap)
  BY <1>1, <1>4, PlaceOf DEF TypeOK, Place
<1>6. /\ cap' = cap /\ tail' = tail /\ head' = h /\ size' = size + n
      /\ buf' = [i \in 0..(cap - 1) |->
                    IF Place(i, h, cap) < n THEN ms[Place(i, h, cap) + 1] ELSE buf[i]]
  BY <1>5 DEF unshift, UnshiftInPlace
<1> HIDE DEF n, h
<1>7. TypeOK'
  BY <1>1, <1>2, <1>4, <1>6 DEF TypeOK, unshift, Place
<1>8. Plain'
  BY <1>1, <1>2, <1>3, <1>4, <1>6 DEF TypeOK, Plain, Place, Msgs
<1> QED BY <1>7, <1>8, RingOKPlainPrimed DEF IInv

\* unshift of a batch that needs grow() keeps the ring consistent.
LEMMA UnshiftGrownStep ==
    ASSUME IInv, NEW ms \in Batches, unshift(ms), UnshiftGrown(ms),
           UNCHANGED config
    PROVE  IInv'
<1> USE MailboxAssumption
<1> DEFINE n == Len(ms)
<1>1. Plain /\ TypeOK
  BY RingOKPlain DEF IInv
<1>2. ms \in [1..n -> Msgs] /\ n \in Nat \ {0}
  BY BatchLen
<1>3. PICK d \in Doublings(cap) :
        /\ FirstToHold(d, cap, size + n)
        /\ cap' = d
        /\ tail' = size
        /\ head' = d - n
        /\ buf' = [i \in 0..(d - 1) |->
                      IF i >= d - n THEN ms[i - (d - n) + 1] ELSE Grown(d)[i]]
  BY Zenon DEF UnshiftGrown
<1>4. d \in Nat /\ d >= size + n /\ size' = size + n /\ dropped' = dropped
  BY <1>3 DEF FirstToHold, unshift
<1> HIDE DEF n
<1>5. ASSUME NEW i \in 0..(size - 1)
      PROVE  (head + i) % cap \in 0..(cap - 1) /\ buf[(head + i) % cap] \in Msgs
  <2>1. (head + i) % cap = IF head + i < cap THEN head + i ELSE head + i - cap
    BY <1>1, SlotAfter, i \in 0..cap DEF TypeOK
  <2> QED BY <2>1, <1>1 DEF TypeOK, Plain, Place
<1>6. buf' = [i \in 0..(d - 1) |->
                 IF i >= d - n THEN ms[i - (d - n) + 1]
                 ELSE IF i < size THEN buf[(head + i) % cap] ELSE Empty]
  BY <1>1, <1>2, <1>3, <1>4 DEF Grown, TypeOK
<1>7. ASSUME NEW i \in 0..(d - 1)
      PROVE  /\ buf'[i] \in Msgs \union {Empty}
             /\ buf'[i] # Empty <=> (i >= d - n \/ i < size)
  BY <1>1, <1>2, <1>4, <1>5, <1>6 DEF TypeOK, Msgs
<1>8. TypeOK'
  <2>1. buf' \in [0..(d - 1) -> Msgs \union {Empty}]
    BY <1>6, <1>7
  <2> QED BY <2>1, <1>1, <1>2, <1>3, <1>4 DEF TypeOK
<1>9. Plain'
  <2>1. cap' = d /\ head' = d - n /\ tail' = size /\ size' = size + n
    BY <1>3, <1>4
  <2>2. tail' = IF head' + size' < cap' THEN head' + size' ELSE head' + size' - cap'
    BY <2>1, <1>1, <1>2, <1>4 DEF TypeOK
  <2>3. ASSUME NEW i \in 0..(d - 1)
        PROVE  buf'[i] # Empty <=> Place(i, d - n, d) < size + n
    BY <1>7, <1>1, <1>2, <1>4 DEF TypeOK, Place
  <2> QED BY <2>1, <2>2, <2>3 DEF Plain
<1> QED BY <1>8, <1>9, RingOKPlainPrimed DEF IInv

\* drain keeps the ring consistent.
LEMMA DrainStep ==
    ASSUME IInv, drain, UNCHANGED config
    PROVE  IInv'
<1> USE MailboxAssumption
<1>1. TypeOK
  BY DEF IInv
<1>2. TypeOK'
  BY <1>1 DEF drain, EmptyBuf, TypeOK
<1>3. Plain'
  BY <1>1, <1>2 DEF drain, EmptyBuf, TypeOK, Plain, Place
<1> QED BY <1>2, <1>3, RingOKPlainPrimed DEF IInv

\* replaceWith keeps the ring consistent, unless it fills the array exactly.
LEMMA RejectPendingCallsStep ==
    ASSUME IInv, rejectPendingCalls, tail' < cap', UNCHANGED config
    PROVE  IInv'
<1> USE MailboxAssumption
<1> DEFINE n == Len(Kept)
<1>1. TypeOK /\ Kept \in Seq(Msgs) /\ dropped' = dropped
  BY DEF IInv, rejectPendingCalls, replaceWith
<1>2. PICK needed \in Doublings(InitCap) :
        /\ FirstToHold(needed, InitCap, n)
        /\ cap' = IF cap < needed THEN needed ELSE cap
        /\ buf' = [i \in 0..(cap' - 1) |-> IF i < n THEN Kept[i + 1] ELSE Empty]
        /\ head' = 0 /\ tail' = n /\ size' = n
  BY Zenon DEF rejectPendingCalls, replaceWith
<1>3. n \in Nat /\ needed \in Nat /\ Kept \in [1..n -> Msgs]
  BY <1>1, <1>2 DEF FirstToHold
<1> HIDE DEF n
<1>4. cap' \in Nat \ {0} /\ n < cap'
  BY <1>1, <1>2, <1>3 DEF TypeOK
<1>5. TypeOK'
  BY <1>1, <1>2, <1>3, <1>4 DEF TypeOK
<1>6. Plain'
  BY <1>1, <1>2, <1>3, <1>4 DEF Plain, Place, Msgs
<1> QED BY <1>5, <1>6, RingOKPlainPrimed DEF IInv

----------------------------------------------------------------------------
(* Every step *)

\* Every operation keeps the ring consistent.
LEMMA StepIInv == IInv /\ [NextNoExactFill]_vars => IInv'
<1> SUFFICES ASSUME IInv, [NextNoExactFill]_vars PROVE IInv'
  OBVIOUS
<1>1. CASE UNCHANGED vars
  BY <1>1 DEF vars, IInv, TypeOK, RingOK, InWindow
<1>2. ASSUME NEW m \in Msgs, enqueue(m), UNCHANGED config PROVE IInv'
  <2>1. CASE EnqueueAccepted(m)
    BY <1>2, <2>1, EnqueueInPlaceStep, EnqueueGrownStep DEF EnqueueAccepted
  <2>2. CASE EnqueueRefused(m)
    BY <1>2, <2>2, MailboxAssumption DEF EnqueueRefused, IInv, TypeOK, RingOK, InWindow
  <2>3. CASE EnqueueEvicting(m)
    BY <1>2, <2>3, EnqueueEvictingStep
  <2> QED BY <1>2, <2>1, <2>2, <2>3 DEF enqueue
<1>3. ASSUME NEW ms \in Batches, unshift(ms), UNCHANGED config PROVE IInv'
  BY <1>3, UnshiftInPlaceStep, UnshiftGrownStep DEF unshift
<1> QED
  BY <1>1, <1>2, <1>3, DequeueStep, DrainStep, RejectPendingCallsStep
  DEF NextNoExactFill, OtherThanReplace

\* Types of the ring's fields: every index the code computes is a slot of the
\* array, and size never exceeds its length.
THEOREM TypeCorrect == SpecNoExactFill => []TypeOK
<1>1. IInv => TypeOK
  BY DEF IInv
<1> QED BY InitIInv, StepIInv, <1>1, PTL DEF SpecNoExactFill

\* The ring of BoundedMailbox is consistent in every reachable state, for every
\* capacity, bound, strategy and set of messages: tail follows the last
\* element, exactly the slots between head and tail are occupied.
THEOREM RingCorrect == SpecNoExactFill => []RingOK
<1>1. IInv => RingOK
  BY DEF IInv
<1> QED BY InitIInv, StepIInv, <1>1, PTL DEF SpecNoExactFill

----------------------------------------------------------------------------
(* The ring implements the queue *)

\* The slot of the k-th element, without wrap-around arithmetic.
Slot(k, h, c) == IF h + k - 1 < c THEN h + k - 1 ELSE h + k - 1 - c

\* b, h, c and s are the fields of a consistent ring, q is its toArray().
RingWith(b, h, c, s, q) ==
    /\ c \in Nat \ {0} /\ h \in 0..(c - 1) /\ s \in 0..c
    /\ b \in [0..(c - 1) -> Msgs \union {Empty}]
    /\ \A i \in 0..(c - 1) : b[i] # Empty <=> Place(i, h, c) < s
    /\ q = [k \in 1..s |-> b[(h + k - 1) % c]]

ReadsAs(b, h, c, s, q) ==
    /\ q \in Seq(Msgs)
    /\ Len(q) = s
    /\ \A k \in 1..s : /\ Slot(k, h, c) \in 0..(c - 1)
                       /\ q[k] = b[Slot(k, h, c)]
                       /\ q[k] \in Msgs

\* toArray() of a consistent ring is a sequence of size messages.
LEMMA RingSequence ==
    ASSUME NEW b, NEW h, NEW c, NEW s, NEW q, RingWith(b, h, c, s, q)
    PROVE  ReadsAs(b, h, c, s, q)
<1> USE DEF RingWith
<1>1. ASSUME NEW k \in 1..s
      PROVE  (h + k - 1) % c = Slot(k, h, c)
  <2>1. k - 1 \in 0..c /\ h + k - 1 = h + (k - 1)
    OBVIOUS
  <2>2. (h + (k - 1)) % c = IF h + (k - 1) < c THEN h + (k - 1) ELSE h + (k - 1) - c
    BY <2>1, SlotAfter
  <2> QED BY <2>1, <2>2 DEF Slot
<1>2. ASSUME NEW k \in 1..s
      PROVE  /\ Slot(k, h, c) \in 0..(c - 1)
             /\ Place(Slot(k, h, c), h, c) < s
  BY DEF Slot, Place
<1>3. ASSUME NEW k \in 1..s
      PROVE  q[k] = b[Slot(k, h, c)] /\ q[k] \in Msgs
  BY <1>1, <1>2
<1>4. q \in [1..s -> Msgs]
  BY <1>3
<1>5. q \in Seq(Msgs) /\ Len(q) = s
  BY <1>4
<1> QED BY <1>2, <1>3, <1>5 DEF ReadsAs

\* toArray() reads the ring from head to tail.
LEMMA ContentsReads ==
    ASSUME IInv
    PROVE  ReadsAs(buf, head, cap, size, Contents)
<1>1. Plain /\ TypeOK
  BY RingOKPlain DEF IInv
<1>2. RingWith(buf, head, cap, size, Contents)
  BY <1>1, Zenon DEF TypeOK, Plain, Contents, RingWith
<1> QED BY <1>2, RingSequence, Zenon

\* The same, of the state after a step.
LEMMA ContentsReadsPrimed ==
    ASSUME IInv'
    PROVE  ReadsAs(buf', head', cap', size', Contents')
<1>1. Plain' /\ TypeOK'
  BY RingOKPlainPrimed DEF IInv
<1>2. RingWith(buf', head', cap', size', Contents')
  BY <1>1, Zenon DEF TypeOK, Plain, Contents, RingWith
<1> QED BY <1>2, RingSequence, Zenon

\* How to recognise that a sequence is another one with a message appended.
LEMMA IsAppend ==
    ASSUME NEW S, NEW s \in Seq(S), NEW t \in Seq(S), NEW m \in S,
           Len(t) = Len(s) + 1,
           \A k \in 1..Len(t) : t[k] = IF k = Len(s) + 1 THEN m ELSE s[k]
    PROVE  t = Append(s, m)
<1>1. Append(s, m) \in Seq(S) /\ Len(Append(s, m)) = Len(s) + 1
  OBVIOUS
<1>2. \A k \in 1..Len(t) : t[k] = Append(s, m)[k]
  OBVIOUS
<1> QED BY <1>1, <1>2, SeqEqual

\* How to recognise that the oldest element made room for a new one.
LEMMA IsAppendTail ==
    ASSUME NEW S, NEW s \in Seq(S), NEW t \in Seq(S), NEW m \in S,
           Len(s) > 0, Len(t) = Len(s),
           \A k \in 1..Len(t) : t[k] = IF k = Len(s) THEN m ELSE s[k + 1]
    PROVE  t = Append(Tail(s), m)
<1>1. Tail(s) \in Seq(S) /\ Len(Tail(s)) = Len(s) - 1
  OBVIOUS
<1>2. \A k \in 1..Len(Tail(s)) : Tail(s)[k] = s[k + 1]
  OBVIOUS
<1> QED BY <1>1, <1>2, IsAppend

\* An accepted message is appended to the queue.
LEMMA AcceptRefines ==
    ASSUME IInv, IInv', NEW m \in Msgs, EnqueueAccepted(m), UNCHANGED config
    PROVE  Fifo!Accept(m)
<1> USE MailboxAssumption
<1>1. Plain /\ TypeOK
  BY RingOKPlain DEF IInv
<1>2. /\ size' = size + 1
      /\ \A k \in 1..size' : Contents'[k] = IF k = size + 1 THEN m ELSE Contents[k]
  <2>1. CASE EnqueueInPlace(m)
    <3>1. tail < cap /\ size < cap
      BY <1>1, <2>1 DEF Plain, TypeOK, EnqueueInPlace
    <3>2. /\ cap' = cap /\ head' = head /\ size' = size + 1
          /\ buf' = [buf EXCEPT ![tail] = m]
      BY <3>1, <1>1, <2>1 DEF EnqueueInPlace, EnqueueAccepted, CapAfterWrite, Written, TypeOK
    <3>3. ASSUME NEW k \in 1..size'
          PROVE  Contents'[k] = IF k = size + 1 THEN m ELSE Contents[k]
      <4>1. Contents'[k] = buf'[Slot(k, head, cap)] /\ Slot(k, head, cap) \in 0..(cap - 1)
        BY <3>2, ContentsReadsPrimed DEF ReadsAs
      <4>2. CASE k = size + 1
        BY <4>1, <4>2, <1>1, <3>1, <3>2 DEF Slot, Plain, TypeOK
      <4>3. CASE k # size + 1
        <5>1. k \in 1..size /\ Slot(k, head, cap) # tail
          BY <4>3, <1>1, <3>1, <3>2 DEF Slot, Plain, TypeOK
        <5> QED BY <5>1, <4>1, <4>3, <1>1, <3>2, ContentsReads DEF ReadsAs, TypeOK
      <4> QED BY <4>2, <4>3
    <3> QED BY <3>2, <3>3
  <2>2. CASE EnqueueGrown(m)
    <3>1. cap' = 2 * cap /\ head' = 0 /\ size' = size + 1 /\ size = cap
      BY <2>2 DEF EnqueueGrown, EnqueueAccepted
    <3>2. buf' = [i \in 0..(cap' - 1) |->
                    IF i = size THEN m
                    ELSE IF i < size THEN buf[(head + i) % cap] ELSE Empty]
      BY <1>1, <2>2, <3>1 DEF TypeOK, EnqueueGrown, Grown
    <3>3. ASSUME NEW k \in 1..size'
          PROVE  Contents'[k] = IF k = size + 1 THEN m ELSE Contents[k]
      <4>1. Contents'[k] = buf'[k - 1]
        BY <3>1, <1>1, ContentsReadsPrimed DEF ReadsAs, Slot, TypeOK
      <4>2. CASE k = size + 1
        BY <4>1, <4>2, <3>1, <3>2, <1>1 DEF TypeOK
      <4>3. CASE k # size + 1
        <5>1. k \in 1..size /\ head + (k - 1) = head + k - 1
          BY <4>3, <3>1, <1>1 DEF TypeOK
        <5> QED BY <4>1, <5>1, <3>1, <3>2, <1>1 DEF TypeOK, Contents
      <4> QED BY <4>2, <4>3
    <3> QED BY <3>1, <3>3
  <2> QED BY <2>1, <2>2 DEF EnqueueAccepted
<1>3. /\ Contents \in Seq(Msgs) /\ Contents' \in Seq(Msgs)
      /\ Len(Contents) = size /\ Len(Contents') = size'
  BY ContentsReads, ContentsReadsPrimed DEF ReadsAs
<1>4. Contents' = Append(Contents, m)
  <2>1. /\ Len(Contents') = Len(Contents) + 1
        /\ \A k \in 1..Len(Contents') :
              Contents'[k] = IF k = Len(Contents) + 1 THEN m ELSE Contents[k]
    BY <1>2, <1>3
  <2> QED BY <2>1, <1>3, IsAppend, Zenon
<1> QED
  BY <1>3, <1>4
  DEF EnqueueAccepted, isFull, Fifo!Accept, Fifo!Full, Answer, Fifo!Answer

\* A refused message leaves the queue alone.
LEMMA RefusedRefines ==
    ASSUME IInv, NEW m \in Msgs, EnqueueRefused(m), UNCHANGED config
    PROVE  Fifo!Overflow(m)
<1>1. Contents' = Contents
  BY DEF EnqueueRefused, Contents
<1> QED
  BY <1>1, ContentsReads
  DEF ReadsAs, EnqueueRefused, isFull, Fifo!Overflow, Fifo!Full, Answer, Fifo!Answer

\* Eviction takes the oldest message and appends the new one.
LEMMA EvictingRefines ==
    ASSUME IInv, IInv', NEW m \in Msgs, EnqueueEvicting(m), UNCHANGED config
    PROVE  Fifo!Overflow(m)
<1> USE MailboxAssumption
<1>1. Plain /\ TypeOK
  BY RingOKPlain DEF IInv
<1>2. tail < cap /\ size > 0
  BY <1>1 DEF Plain, TypeOK, EnqueueEvicting, isFull
<1>3. /\ cap' = cap /\ size' = size
      /\ buf' = [[buf EXCEPT ![head] = Empty] EXCEPT ![tail] = m]
      /\ head' = IF head + 1 < cap THEN head + 1 ELSE 0
  BY <1>2, <1>1, NextSlot DEF EnqueueEvicting, CapAfterWrite, Written, TypeOK
<1>4. Contents # <<>> /\ Head(Contents) = buf[head]
  BY <1>1, <1>2, ContentsReads DEF ReadsAs, Slot, TypeOK
<1>5. ASSUME NEW k \in 1..size
      PROVE  Contents'[k] = IF k = size THEN m ELSE Contents[k + 1]
  <2>1. /\ Contents'[k] = buf'[Slot(k, head', cap)]
        /\ Slot(k, head', cap) \in 0..(cap - 1)
    BY <1>3, ContentsReadsPrimed DEF ReadsAs
  <2>2. CASE k = size
    BY <2>1, <2>2, <1>1, <1>2, <1>3 DEF Slot, Plain, TypeOK
  <2>3. CASE k # size
    <3>1. /\ k + 1 \in 1..size
          /\ Slot(k, head', cap) = Slot(k + 1, head, cap)
          /\ Slot(k, head', cap) # tail /\ Slot(k, head', cap) # head
      BY <2>3, <1>1, <1>2, <1>3 DEF Slot, Plain, TypeOK
    <3> QED BY <2>1, <2>3, <3>1, <1>1, <1>3, ContentsReads DEF ReadsAs, TypeOK
  <2> QED BY <2>2, <2>3
<1>6. Contents' = Append(Tail(Contents), m)
  <2>1. /\ Len(Contents) = size /\ Len(Contents') = Len(Contents)
        /\ Len(Contents) > 0
    BY <1>2, <1>3, ContentsReads, ContentsReadsPrimed DEF ReadsAs
  <2> QED BY <2>1, <1>5, ContentsReads, ContentsReadsPrimed, IsAppendTail, Zenon DEF ReadsAs
<1> QED
  BY <1>4, <1>6, ContentsReads
  DEF ReadsAs, EnqueueEvicting, isFull, Fifo!Overflow, Fifo!Full, Answer, Fifo!Answer

\* dequeue takes the oldest message.
LEMMA DequeueRefines ==
    ASSUME IInv, IInv', dequeue, UNCHANGED config
    PROVE  Fifo!Take
<1>1. Plain /\ TypeOK
  BY RingOKPlain DEF IInv
<1>2. /\ Contents \in Seq(Msgs) /\ Contents' \in Seq(Msgs)
      /\ Len(Contents) = size /\ Len(Contents') = size'
  BY ContentsReads, ContentsReadsPrimed DEF ReadsAs
<1>3. CASE size = 0
  <2>1. Contents = <<>> /\ Contents' = Contents
    BY <1>2, <1>3 DEF dequeue, Contents
  <2> QED BY <1>3, <2>1 DEF dequeue, Fifo!Take, Answer, Fifo!Answer
<1>4. CASE size # 0
  <2>1. /\ cap' = cap /\ size' = size - 1
        /\ buf' = [buf EXCEPT ![head] = Empty]
        /\ head' = IF head + 1 < cap THEN head + 1 ELSE 0
    BY <1>1, <1>4, NextSlot DEF dequeue, TypeOK
  <2>2. Contents # <<>> /\ Head(Contents) = buf[head]
    BY <1>1, <1>2, <1>4, ContentsReads DEF ReadsAs, Slot, TypeOK
  <2>3. ASSUME NEW k \in 1..size'
        PROVE  Contents'[k] = Contents[k + 1]
    <3>1. /\ Contents'[k] = buf'[Slot(k, head', cap)]
          /\ Slot(k, head', cap) \in 0..(cap - 1)
      BY <2>1, ContentsReadsPrimed DEF ReadsAs
    <3>2. /\ k + 1 \in 1..size
          /\ Slot(k, head', cap) = Slot(k + 1, head, cap)
          /\ Slot(k, head', cap) # head
      BY <1>1, <1>4, <2>1 DEF Slot, TypeOK
    <3> QED BY <3>1, <3>2, <1>1, <2>1, ContentsReads DEF ReadsAs, TypeOK
  <2>4. Contents' = Tail(Contents)
    <3>1. /\ Tail(Contents) \in Seq(Msgs) /\ Len(Tail(Contents)) = Len(Contents')
          /\ \A k \in 1..Len(Contents') : Tail(Contents)[k] = Contents'[k]
      BY <1>1, <1>2, <1>4, <2>1, <2>3 DEF TypeOK
    <3> QED BY <3>1, <1>2, SeqEqual
  <2> QED BY <1>4, <2>2, <2>4 DEF dequeue, Fifo!Take, Answer, Fifo!Answer
<1> QED BY <1>3, <1>4

\* How to recognise that a sequence is a batch in front of another one.
LEMMA IsConcat ==
    ASSUME NEW S, NEW r \in Seq(S), NEW s \in Seq(S), NEW t \in Seq(S),
           Len(t) = Len(r) + Len(s),
           \A k \in 1..Len(t) : t[k] = IF k <= Len(r) THEN r[k] ELSE s[k - Len(r)]
    PROVE  t = r \o s
<1>1. r \o s \in Seq(S) /\ Len(r \o s) = Len(t)
  OBVIOUS
<1>2. \A k \in 1..Len(t) : t[k] = (r \o s)[k]
  OBVIOUS
<1> QED BY <1>1, <1>2, SeqEqual

\* unshift puts the batch in front of the queue.
LEMMA UnshiftRefines ==
    ASSUME IInv, IInv', NEW ms \in Batches, unshift(ms), UNCHANGED config
    PROVE  Fifo!PutBack(ms)
<1> USE MailboxAssumption
<1> DEFINE n == Len(ms)
<1>1. Plain /\ TypeOK
  BY RingOKPlain DEF IInv
<1>2. /\ Contents \in Seq(Msgs) /\ Contents' \in Seq(Msgs)
      /\ Len(Contents) = size /\ Len(Contents') = size'
  BY ContentsReads, ContentsReadsPrimed DEF ReadsAs
<1>3. ms \in [1..n -> Msgs] /\ n \in Nat \ {0} /\ ms \in Seq(Msgs)
  BY BatchLen
<1>4. size' = size + n
  BY DEF unshift
<1>5. ASSUME NEW k \in 1..size'
      PROVE  Contents'[k] = IF k <= n THEN ms[k] ELSE Contents[k - n]
  <2>1. Contents'[k] = buf'[Slot(k, head', cap')] /\ Slot(k, head', cap') \in 0..(cap' - 1)
    BY ContentsReadsPrimed DEF ReadsAs
  <2>2. CASE UnshiftInPlace(ms)
    <3> DEFINE h == (head - n + cap) % cap
    <3>1. size + n <= cap
      BY <2>2, Zenon DEF UnshiftInPlace
    <3>2. h = IF head < n THEN head - n + cap ELSE head - n
      <4>1. CASE head < n
        BY <1>1, <1>3, <3>1, <4>1, ModSmall, head - n + cap \in 0..(cap - 1) DEF TypeOK
      <4>2. CASE head >= n
        <5>1. cap \in Nat \ {0} /\ head - n + cap \in cap..(2 * cap - 1)
          BY <1>1, <1>3, <4>2 DEF TypeOK
        <5>2. h = (head - n + cap) - cap
          BY <5>1, ModWrap
        <5> QED BY <1>1, <1>3, <4>2, <5>2 DEF TypeOK
      <4> QED BY <1>1, <1>3, <4>1, <4>2 DEF TypeOK
    <3>3. h \in 0..(cap - 1)
      BY <1>1, <1>3, <3>1, <3>2 DEF TypeOK
    <3>4. ASSUME NEW i \in 0..(cap - 1)
          PROVE  (i - h + cap) % cap = Place(i, h, cap)
      BY <1>1, <3>3, PlaceOf DEF TypeOK, Place
    <3>5. /\ cap' = cap /\ head' = h
          /\ buf' = [i \in 0..(cap - 1) |->
                IF Place(i, h, cap) < n THEN ms[Place(i, h, cap) + 1] ELSE buf[i]]
      BY <2>2, <3>4 DEF UnshiftInPlace
    <3> HIDE DEF h, n
    <3>6. Place(Slot(k, h, cap), h, cap) = k - 1
      BY <1>1, <1>3, <1>4, <3>1, <3>3 DEF Place, Slot, TypeOK
    <3>7. CASE k <= n
      BY <2>1, <3>5, <3>6, <3>7, <1>1, <1>3, <1>4, <3>1 DEF TypeOK
    <3>8. CASE k > n
      <4>1. k - n \in 1..size /\ Slot(k, h, cap) = Slot(k - n, head, cap)
        BY <1>1, <1>3, <1>4, <3>1, <3>2, <3>8 DEF Slot, TypeOK
      <4>2. Contents'[k] = buf[Slot(k, h, cap)]
        BY <2>1, <3>5, <3>6, <3>8, <1>3
      <4> QED BY <4>1, <4>2, <3>8, <1>3, ContentsReads DEF ReadsAs
    <3> QED BY <3>7, <3>8, <1>1, <1>3, <1>4 DEF TypeOK
  <2>3. CASE UnshiftGrown(ms)
    <3>1. PICK d \in Doublings(cap) :
            /\ FirstToHold(d, cap, size + n)
            /\ cap' = d
            /\ tail' = size
            /\ head' = d - n
            /\ buf' = [i \in 0..(d - 1) |->
                          IF i >= d - n THEN ms[i - (d - n) + 1] ELSE Grown(d)[i]]
      BY <2>3, Zenon DEF UnshiftGrown
    <3>2. d \in Nat /\ d >= size + n
      BY <3>1 DEF FirstToHold
    <3> HIDE DEF n
    <3>3. CASE k <= n
      <4>1. Slot(k, d - n, d) = d - n + k - 1
        BY <3>2, <3>3, <1>1, <1>3, <1>4 DEF Slot, TypeOK
      <4>2. /\ d - n + k - 1 \in 0..(d - 1) /\ d - n + k - 1 >= d - n
            /\ d - n + k - 1 - (d - n) + 1 = k
        BY <2>1, <3>2, <3>3, <1>1, <1>3, <1>4 DEF TypeOK
      <4>3. buf'[d - n + k - 1] = ms[k]
        BY <3>1, <4>2
      <4> QED BY <4>1, <4>3, <2>1, <3>1, <3>2, <3>3, <1>1, <1>3, <1>4 DEF TypeOK
    <3>4. CASE k > n
      <4>1. Slot(k, d - n, d) = k - n - 1 /\ k - n \in 1..size
        BY <3>2, <3>4, <1>1, <1>3, <1>4 DEF Slot, TypeOK
      <4>2. Contents'[k] = Grown(d)[k - n - 1]
        BY <4>1, <2>1, <3>1, <3>2, <3>4, <1>1, <1>3, <1>4 DEF TypeOK
      <4>3. Contents'[k] = buf[(head + (k - n - 1)) % cap]
        BY <4>1, <4>2, <3>2, <1>1, <1>3 DEF Grown, TypeOK
      <4>4. head + (k - n - 1) = head + (k - n) - 1
        BY <4>1, <1>1, <1>3 DEF TypeOK
      <4> QED BY <4>1, <4>3, <4>4, <3>4, <1>3 DEF Contents
    <3> QED BY <3>3, <3>4, <1>1, <1>3, <1>4 DEF TypeOK
  <2> QED BY <2>2, <2>3 DEF unshift
<1> HIDE DEF n
<1>6. Contents' = ms \o Contents
  <2>1. /\ Len(Contents') = Len(ms) + Len(Contents)
        /\ \A k \in 1..Len(Contents') :
              Contents'[k] = IF k <= Len(ms) THEN ms[k] ELSE Contents[k - Len(ms)]
    BY <1>1, <1>2, <1>3, <1>4, <1>5 DEF TypeOK, n
  <2> QED BY <2>1, <1>2, <1>3, IsConcat, Zenon
<1> QED BY <1>2, <1>6 DEF unshift, Fifo!PutBack, Answer, Fifo!Answer

\* drain hands out the whole queue.
LEMMA DrainRefines ==
    ASSUME IInv, IInv', drain, UNCHANGED config
    PROVE  Fifo!TakeAll
<1>1. Contents' \in Seq(Msgs) /\ Len(Contents') = 0
  BY ContentsReadsPrimed DEF ReadsAs, drain
<1>2. Contents' = <<>>
  BY <1>1
<1> QED BY <1>2 DEF drain, Fifo!TakeAll, Answer, Fifo!Answer

\* _rejectPendingCallsForMigration removes the calls and keeps the casts.
LEMMA RejectPendingCallsRefines ==
    ASSUME IInv, IInv', rejectPendingCalls, UNCHANGED config
    PROVE  Fifo!RefuseCalls
<1>1. Kept \in Seq(Msgs)
  BY DEF rejectPendingCalls, replaceWith
<1>2. /\ cap' \in Nat \ {0} /\ head' = 0 /\ size' = Len(Kept) /\ size' <= cap'
      /\ buf' = [i \in 0..(cap' - 1) |-> IF i < Len(Kept) THEN Kept[i + 1] ELSE Empty]
  <2>1. cap' \in Nat \ {0} /\ size' <= cap'
    BY DEF IInv, TypeOK
  <2> QED BY <2>1, Zenon DEF rejectPendingCalls, replaceWith
<1>3. ASSUME NEW k \in 1..size'
      PROVE  Contents'[k] = Kept[k]
  <2>1. Contents'[k] = buf'[Slot(k, 0, cap')] /\ Slot(k, 0, cap') = k - 1
    <3>1. Contents'[k] = buf'[Slot(k, head', cap')]
      BY ContentsReadsPrimed DEF ReadsAs
    <3>2. Len(Kept) \in Nat /\ k \in 1..Len(Kept) /\ Len(Kept) <= cap'
      BY <1>1, <1>2
    <3> QED BY <1>2, <3>1, <3>2 DEF Slot
  <2> QED BY <1>1, <1>2, <2>1
<1>4. Contents' = Kept
  BY <1>1, <1>2, <1>3, SeqEqual, ContentsReadsPrimed DEF ReadsAs
<1> QED
  BY <1>4 DEF rejectPendingCalls, Kept, Fifo!RefuseCalls, Answer, Fifo!Answer

\* Every operation of the ring is one of the queue, or a stuttering step.
LEMMA StepRefines ==
    IInv /\ IInv' /\ [NextNoExactFill]_vars => [Fifo!Next]_(Fifo!vars)
<1> SUFFICES ASSUME IInv, IInv', [NextNoExactFill]_vars
             PROVE  [Fifo!Next]_(Fifo!vars)
  OBVIOUS
<1>1. CASE UNCHANGED vars
  BY <1>1 DEF vars, Fifo!vars, Contents
<1>2. ASSUME NEW m \in Msgs, enqueue(m), UNCHANGED config PROVE Fifo!Next
  <2>1. Fifo!Accept(m) \/ Fifo!Overflow(m)
    BY <1>2, AcceptRefines, RefusedRefines, EvictingRefines DEF enqueue
  <2> QED BY <1>2, <2>1 DEF Fifo!Next, Fifo!Msgs, Msgs
<1>3. ASSUME NEW ms \in Batches, unshift(ms), UNCHANGED config PROVE Fifo!Next
  BY <1>3, UnshiftRefines DEF Fifo!Next, Fifo!Batches, Batches, Fifo!Msgs, Msgs
<1>4. ASSUME dequeue \/ drain \/ rejectPendingCalls, UNCHANGED config PROVE Fifo!Next
  BY <1>4, DequeueRefines, DrainRefines, RejectPendingCallsRefines DEF Fifo!Next
<1> QED BY <1>1, <1>2, <1>3, <1>4 DEF NextNoExactFill, OtherThanReplace

\* BoundedMailbox is a bounded queue for every capacity, bound, strategy and
\* set of messages: growth, wrap-around, eviction, unstashing, draining and
\* the rejection of pending calls neither lose, double nor reorder a message.
THEOREM RingImplementsFifo == SpecNoExactFill => ImplementsFifo
<1>1. Init => Fifo!Init
  BY DEF Init, Fifo!Init, Contents, Answer, Fifo!NoAnswer, Fifo!Answer
<1> QED
  BY <1>1, InitIInv, StepIInv, StepRefines, PTL
  DEF SpecNoExactFill, ImplementsFifo, Fifo!Spec

=============================================================================
