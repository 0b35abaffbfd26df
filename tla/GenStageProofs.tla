--------------------------- MODULE GenStageProofs ---------------------------
(***************************************************************************)
(* Proofs about the stages of GenStage.tla: the demand of every            *)
(* subscription is accounted for, back-pressure holds, and events arrive   *)
(* in order, for every set of stages and subscriptions, every dispatcher   *)
(* and every bound.                                                        *)
(***************************************************************************)
EXTENDS GenStage, SequenceTheorems, WellFoundedInduction, TLAPS

----------------------------------------------------------------------------
(* Sequences *)

\* Induction over the naturals, for a set.
LEMMA SetInduction ==
    ASSUME NEW S, 0 \in S, \A k \in Nat : k \in S => k + 1 \in S
    PROVE  Nat \subseteq S
<1> DEFINE T == Nat \ S
<1>1. SUFFICES ASSUME T # {} PROVE FALSE
  OBVIOUS
<1>2. IsWellFoundedOn(OpToRel(<, Nat), Nat)
  BY NatLessThanWellFounded
<1>3. \E x \in T : \A y \in T : <<y, x>> \notin OpToRel(<, Nat)
  <2> HIDE DEF T
  <2>1. T \subseteq Nat
    BY DEF T
  <2> QED BY <1>1, <1>2, <2>1, WFMin, Zenon
<1>4. PICK x \in T : \A y \in T : <<y, x>> \notin OpToRel(<, Nat)
  BY <1>3
<1>5. x - 1 \in T
  OBVIOUS
<1>6. <<x - 1, x>> \in OpToRel(<, Nat)
  BY DEF OpToRel
<1> QED BY <1>4, <1>5, <1>6

\* The running totals of a sequence.
Running(f, q) ==
    /\ f \in [0..Len(q) -> Nat]
    /\ f[0] = 0 /\ \A i \in 1..Len(q) : f[i] = f[i - 1] + q[i]

\* Every sequence of naturals has running totals.
LEMMA RunningExists ==
    ASSUME NEW q \in Seq(Nat)
    PROVE  \E f : Running(f, q)
<1> DEFINE Good(f, k) == /\ f \in [0..k -> Nat]
                         /\ f[0] = 0 /\ \A i \in 1..k : f[i] = f[i - 1] + q[i]
           S == {k \in Nat : k <= Len(q) => \E f : Good(f, k)}
<1>1. 0 \in S
  <2>1. Good([i \in 0..0 |-> 0], 0)
    OBVIOUS
  <2> QED BY <2>1
<1>2. ASSUME NEW k \in Nat, k \in S PROVE k + 1 \in S
  <2> HIDE DEF Good
  <2> SUFFICES ASSUME k + 1 <= Len(q) PROVE \E f : Good(f, k + 1)
    OBVIOUS
  <2> USE DEF Good
  <2>1. k <= Len(q) /\ q[k + 1] \in Nat
    OBVIOUS
  <2>2. PICK f : Good(f, k)
    BY <1>2, <2>1
  <2> DEFINE g == [i \in 0..k + 1 |-> IF i = k + 1 THEN f[k] + q[k + 1] ELSE f[i]]
  <2>3. g \in [0..k + 1 -> Nat]
    <3> SUFFICES ASSUME NEW i \in 0..k + 1 PROVE (IF i = k + 1 THEN f[k] + q[k + 1] ELSE f[i]) \in Nat
      OBVIOUS
    <3>1. f[k] \in Nat
      BY <2>2
    <3>2. i # k + 1 => f[i] \in Nat
      BY <2>2
    <3> QED BY <2>1, <3>1, <3>2
  <2>4. g[k + 1] = f[k] + q[k + 1] /\ \A i \in 0..k : g[i] = f[i]
    OBVIOUS
  <2> HIDE DEF g
  <2>5. ASSUME NEW i \in 1..k + 1 PROVE g[i] = g[i - 1] + q[i]
    <3>1. CASE i = k + 1
      BY <2>4, <3>1
    <3>2. CASE i # k + 1
      <4>1. i \in 1..k /\ i \in 0..k /\ i - 1 \in 0..k
        BY <3>2
      <4> QED BY <2>2, <2>4, <4>1
    <3> QED BY <3>1, <3>2
  <2>6. g[0] = 0
    BY <2>2, <2>4
  <2>7. Good(g, k + 1)
    BY <2>3, <2>5, <2>6
  <2> QED BY <2>7
<1> HIDE DEF S
<1>3. Nat \subseteq S
  BY <1>1, <1>2, SetInduction
<1>4. Len(q) \in S
  BY <1>3
<1>5. \E f : Good(f, Len(q))
  BY <1>4 DEF S
<1> QED BY <1>5 DEF Running

\* The total is the last running total, whichever way those were found.
LEMMA TotalIsLast ==
    ASSUME NEW q \in Seq(Nat), NEW f, Running(f, q)
    PROVE  Total(q) = f[Len(q)]
<1> DEFINE Rec(g) == g = [i \in 0..Len(q) |-> IF i = 0 THEN 0 ELSE g[i - 1] + q[i]]
           total == CHOOSE g : Rec(g)
<1>1. Total(q) = total[Len(q)]
  BY DEF Total
<1>2. Rec(f)
  <2>1. ASSUME NEW i \in 0..Len(q) PROVE f[i] = IF i = 0 THEN 0 ELSE f[i - 1] + q[i]
    BY DEF Running
  <2> QED BY <2>1 DEF Running
<1>3. Rec(total)
  BY <1>2
<1> HIDE DEF total
<1> DEFINE S == {k \in Nat : k <= Len(q) => total[k] = f[k]}
<1>4. 0 \in S
  <2>1. total[0] = 0
    BY <1>3
  <2> QED BY <2>1 DEF Running
<1>5. ASSUME NEW k \in Nat, k \in S PROVE k + 1 \in S
  <2> SUFFICES ASSUME k + 1 <= Len(q) PROVE total[k + 1] = f[k + 1]
    OBVIOUS
  <2>1. k + 1 \in 1..Len(q) /\ k + 1 \in 0..Len(q) /\ (k + 1) - 1 = k /\ k + 1 # 0 /\ k <= Len(q)
    OBVIOUS
  <2>2. total[k + 1] = total[k] + q[k + 1]
    BY <1>3, <2>1
  <2>3. f[k + 1] = f[k] + q[k + 1]
    BY <2>1 DEF Running
  <2> QED BY <1>5, <2>1, <2>2, <2>3
<1> HIDE DEF S
<1>6. Nat \subseteq S
  BY <1>4, <1>5, SetInduction
<1>7. Len(q) \in S
  BY <1>6
<1> QED BY <1>1, <1>7 DEF S

\* A total of naturals is a natural.
LEMMA TotalType ==
    ASSUME NEW q \in Seq(Nat)
    PROVE  Total(q) \in Nat
<1>1. PICK f : Running(f, q)
  BY RunningExists
<1>2. Total(q) = f[Len(q)]
  BY <1>1, TotalIsLast
<1> QED BY <1>1, <1>2 DEF Running

\* The empty sequence adds up to nothing.
LEMMA TotalEmpty == Total(<<>>) = 0
<1>1. <<>> \in Seq(Nat) /\ Len(<<>>) = 0
  OBVIOUS
<1>2. PICK f : Running(f, <<>>)
  BY <1>1, RunningExists
<1>3. Total(<<>>) = f[0]
  BY <1>1, <1>2, TotalIsLast
<1> QED BY <1>2, <1>3 DEF Running

\* One more element adds itself.
LEMMA TotalAppend ==
    ASSUME NEW q \in Seq(Nat), NEW x \in Nat
    PROVE  Total(Append(q, x)) = Total(q) + x
<1>1. PICK f : Running(f, q)
  BY RunningExists
<1>0. PICK u : u = Append(q, x)
  OBVIOUS
<1>2. /\ u \in Seq(Nat) /\ Len(u) = Len(q) + 1 /\ u[Len(q) + 1] = x
      /\ \A i \in 1..Len(q) : u[i] = q[i]
  BY <1>0, AppendProperties
<1>3. PICK g : g = [i \in 0..Len(q) + 1 |-> IF i = Len(q) + 1 THEN f[Len(q)] + x ELSE f[i]]
  OBVIOUS
<1>4. Len(q) \in Nat /\ f[Len(q)] \in Nat /\ \A i \in 0..Len(q) : f[i] \in Nat
  <2>1. \A i \in 0..Len(q) : f[i] \in Nat
    BY <1>1 DEF Running
  <2>2. Len(q) \in Nat /\ Len(q) \in 0..Len(q)
    OBVIOUS
  <2> QED BY <2>1, <2>2
<1>5. g[Len(q) + 1] = f[Len(q)] + x /\ \A i \in 0..Len(q) : g[i] = f[i]
  BY <1>3, <1>4
<1>6. Running(g, u)
  <2>1. g \in [0..Len(u) -> Nat]
    BY <1>2, <1>3, <1>4
  <2>2. g[0] = 0
    BY <1>1, <1>4, <1>5 DEF Running
  <2>3. ASSUME NEW i \in 1..Len(u) PROVE g[i] = g[i - 1] + u[i]
    <3>1. CASE i = Len(q) + 1
      BY <1>2, <1>4, <1>5, <3>1, SMTT(60)
    <3>2. CASE i # Len(q) + 1
      <4>1. i \in 1..Len(q) /\ i \in 0..Len(q) /\ i - 1 \in 0..Len(q)
        BY <1>2, <1>4, <3>2
      <4> QED BY <1>1, <1>2, <1>5, <4>1 DEF Running
    <3> QED BY <3>1, <3>2
  <2> QED BY <2>1, <2>2, <2>3 DEF Running
<1>7. Total(u) = g[Len(u)]
  BY <1>2, <1>6, TotalIsLast
<1>8. Total(q) = f[Len(q)]
  BY <1>1, TotalIsLast
<1> QED BY <1>0, <1>2, <1>5, <1>7, <1>8

\* An element that is taken out is missing from the total.
LEMMA TotalRemoveAt ==
    ASSUME NEW q \in Seq(Nat), NEW i \in DOMAIN q
    PROVE  /\ RemoveAt(q, i) \in Seq(Nat)
           /\ Total(RemoveAt(q, i)) = Total(q) - q[i]
<1>1. PICK f : Running(f, q)
  BY RunningExists
<1>2. PICK n \in Nat : n = Len(q) /\ i \in 1..n /\ DOMAIN q = 1..n
  BY LenProperties
<1>3. PICK u : u = RemoveAt(q, i)
  OBVIOUS
<1>4. /\ u \in Seq(Nat) /\ Len(u) = n - 1
      /\ \A j \in 1..n - 1 : u[j] = IF j < i THEN q[j] ELSE q[j + 1]
  <2>1. PICK v : v = SubSeq(q, 1, i - 1)
    OBVIOUS
  <2>2. PICK w : w = SubSeq(q, i + 1, n)
    OBVIOUS
  <2>3. /\ v \in Seq(Nat) /\ Len(v) = i - 1
        /\ \A j \in 1..i - 1 : v[j] = q[j]
    BY <1>2, <2>1, SubSeqProperties
  <2>4. /\ w \in Seq(Nat) /\ Len(w) = n - i
        /\ \A j \in 1..n - i : w[j] = q[i + j]
    <3> DEFINE m == i + 1
    <3>1. m \in Int /\ n \in Int /\ \A j \in m..n : q[j] \in Nat
      BY <1>2
    <3> HIDE DEF m
    <3>2. /\ w \in Seq(Nat) /\ Len(w) = IF m <= n THEN n - m + 1 ELSE 0
          /\ \A j \in 1..n - m + 1 : w[j] = q[m + j - 1]
      BY <2>2, <3>1, SubSeqProperties, SMTT(60) DEF m
    <3>3. Len(w) = n - i /\ n - m + 1 = n - i
      BY <1>2, <3>2 DEF m
    <3>4. ASSUME NEW j \in 1..n - i PROVE w[j] = q[i + j]
      <4>1. m + j - 1 = i + j
        BY <1>2 DEF m
      <4> QED BY <3>2, <3>3, <4>1
    <3> QED BY <3>2, <3>3, <3>4
  <2>5. u = v \o w
    BY <1>2, <1>3, <2>1, <2>2 DEF RemoveAt
  <2>6. u \in Seq(Nat) /\ Len(u) = n - 1
    BY <1>2, <2>3, <2>4, <2>5, ConcatProperties
  <2>7. ASSUME NEW j \in 1..n - 1 PROVE u[j] = IF j < i THEN q[j] ELSE q[j + 1]
    <3>1. CASE j < i
      <4>1. j \in 1..i - 1
        BY <1>2, <3>1
      <4>2. u[j] = v[j]
        BY <2>3, <2>4, <2>5, <4>1
      <4> QED BY <2>3, <3>1, <4>1, <4>2
    <3>2. CASE ~(j < i)
      <4>1. j - (i - 1) \in 1..n - i /\ i + (j - (i - 1)) = j + 1 /\ j = (i - 1) + (j - (i - 1))
        BY <1>2, <3>2
      <4>2. u[j] = w[j - (i - 1)]
        <5>0. j \in 1..Len(v) + Len(w)
          BY <1>2, <2>3, <2>4
        <5>1. u[j] = IF j <= Len(v) THEN v[j] ELSE w[j - Len(v)]
          BY <2>3, <2>4, <2>5, <5>0, ConcatProperties
        <5> QED BY <1>2, <2>3, <3>2, <5>1
      <4>3. w[j - (i - 1)] = q[j + 1]
        BY <2>4, <4>1
      <4> QED BY <3>2, <4>2, <4>3
    <3> QED BY <3>1, <3>2
  <2> QED BY <2>6, <2>7
<1>5. \A j \in 0..n : f[j] \in Nat
  BY <1>1, <1>2 DEF Running
<1>6. \A j \in 1..n : f[j] = f[j - 1] + q[j] /\ q[j] \in Nat
  BY <1>1, <1>2 DEF Running
<1> DEFINE S == {k \in Nat : i + k <= n => f[i + k] >= q[i]}
<1>7. 0 \in S
  <2>1. i \in 0..n /\ i - 1 \in 0..n /\ i + 0 = i
    BY <1>2
  <2>2. f[i] = f[i - 1] + q[i] /\ q[i] \in Nat /\ f[i - 1] \in Nat
    BY <1>2, <1>5, <1>6, <2>1
  <2> QED BY <2>1, <2>2
<1>8. ASSUME NEW k \in Nat, k \in S PROVE k + 1 \in S
  <2> SUFFICES ASSUME i + (k + 1) <= n PROVE f[i + (k + 1)] >= q[i]
    OBVIOUS
  <2>1. i + (k + 1) \in 1..n /\ (i + (k + 1)) - 1 = i + k /\ i + k \in 0..n /\ i + k <= n
    BY <1>2
  <2>2. f[i + (k + 1)] = f[i + k] + q[i + (k + 1)] /\ q[i + (k + 1)] \in Nat
    BY <1>6, <2>1
  <2>3. f[i + k] >= q[i] /\ f[i + k] \in Nat /\ q[i] \in Nat
    BY <1>2, <1>5, <1>6, <1>8, <2>1
  <2> QED BY <2>2, <2>3, SMTT(60)
<1>9. Nat \subseteq S
  <2> HIDE DEF S
  <2> QED BY <1>7, <1>8, SetInduction
<1>10. ASSUME NEW j \in i..n PROVE f[j] >= q[i]
  <2>1. j - i \in Nat /\ i + (j - i) = j
    BY <1>2
  <2>2. j - i \in S
    BY <1>9, <2>1
  <2> QED BY <2>1, <2>2
<1> HIDE DEF S
<1>11. PICK g : g = [j \in 0..n - 1 |-> IF j < i THEN f[j] ELSE f[j + 1] - q[i]]
  OBVIOUS
<1>12. ASSUME NEW j \in 0..n - 1 PROVE g[j] \in Nat
  <2>1. CASE j < i
    <3>1. g[j] = f[j] /\ j \in 0..n
      BY <1>2, <1>11, <2>1
    <3> QED BY <1>5, <3>1
  <2>2. CASE ~(j < i)
    <3>1. g[j] = f[j + 1] - q[i] /\ j + 1 \in 0..n /\ j + 1 \in i..n /\ q[i] \in Nat
      BY <1>2, <1>6, <1>11, <2>2
    <3>2. f[j + 1] \in Nat /\ f[j + 1] >= q[i]
      BY <1>5, <1>10, <3>1
    <3> QED BY <3>1, <3>2
  <2> QED BY <2>1, <2>2
<1>13. ASSUME NEW j \in 1..n - 1 PROVE g[j] = g[j - 1] + u[j]
  <2>1. /\ j \in 0..n - 1 /\ j - 1 \in 0..n - 1 /\ j \in 1..n /\ j + 1 \in 1..n
        /\ (j - 1) + 1 = j /\ (j + 1) - 1 = j
    BY <1>2
  <2>2. /\ f[j] = f[j - 1] + q[j] /\ f[j + 1] = f[j] + q[j + 1]
        /\ f[j] \in Nat /\ f[j - 1] \in Nat /\ f[j + 1] \in Nat
        /\ q[j] \in Nat /\ q[j + 1] \in Nat /\ q[i] \in Nat
    <3>1. j - 1 \in 0..n /\ j \in 0..n /\ j + 1 \in 0..n
      BY <1>2
    <3>2. f[j] = f[j - 1] + q[j] /\ q[j] \in Nat
      BY <1>6, <2>1
    <3>3. f[j + 1] = f[(j + 1) - 1] + q[j + 1] /\ q[j + 1] \in Nat
      BY <1>6, <2>1
    <3> QED BY <1>2, <1>5, <1>6, <2>1, <3>1, <3>2, <3>3
  <2>3. u[j] = IF j < i THEN q[j] ELSE q[j + 1]
    BY <1>4
  <2>4. /\ g[j] = IF j < i THEN f[j] ELSE f[j + 1] - q[i]
        /\ g[j - 1] = IF j - 1 < i THEN f[j - 1] ELSE f[j] - q[i]
    BY <1>11, <2>1
  <2>5. CASE j < i
    <3>1. j - 1 < i
      BY <1>2, <2>5
    <3> QED BY <2>2, <2>3, <2>4, <2>5, <3>1
  <2>6. CASE j = i
    <3>1. j - 1 < i /\ ~(j < i)
      BY <1>2, <2>6
    <3>2. g[j] = f[j + 1] - q[j] /\ g[j - 1] = f[j - 1] /\ u[j] = q[j + 1]
      BY <2>3, <2>4, <2>6, <3>1
    <3>3. PICK x, y, z, v, w : x = f[j - 1] /\ y = f[j] /\ z = f[j + 1] /\ v = q[j] /\ w = q[j + 1]
      OBVIOUS
    <3>4. y = x + v /\ z = y + w /\ {x, y, z, v, w} \subseteq Nat
      BY <2>2, <3>3
    <3>5. z - v = x + w
      BY <3>4, SMTT(60)
    <3> QED BY <3>2, <3>3, <3>5
  <2>7. CASE j > i
    <3>1. ~(j - 1 < i) /\ ~(j < i)
      BY <1>2, <2>7
    <3>2. g[j] = f[j + 1] - q[i] /\ g[j - 1] = f[j] - q[i] /\ u[j] = q[j + 1]
      BY <2>3, <2>4, <3>1
    <3>3. f[j + 1] - q[i] = (f[j] - q[i]) + q[j + 1]
      BY <1>2, <2>2
    <3> QED BY <3>2, <3>3
  <2> QED BY <1>2, <2>5, <2>6, <2>7
<1>14. Running(g, u)
  <2>1. g \in [0..n - 1 -> Nat]
    BY <1>11, <1>12
  <2>2. g[0] = 0
    BY <1>1, <1>2, <1>11 DEF Running
  <2> QED BY <1>4, <1>13, <2>1, <2>2 DEF Running
<1>15. Total(u) = g[n - 1]
  BY <1>4, <1>14, TotalIsLast
<1>16. Total(q) = f[n]
  BY <1>1, <1>2, TotalIsLast
<1>17. g[n - 1] = f[n] - q[i]
  <2>1. n - 1 \in 0..n - 1 /\ (n - 1) + 1 = n
    BY <1>2
  <2>2. CASE n - 1 < i
    <3>1. i = n /\ f[n] = f[n - 1] + q[n] /\ n - 1 \in 0..n /\ n \in 1..n
      BY <1>2, <1>6, <2>2
    <3> QED BY <1>5, <1>6, <1>11, <2>1, <2>2, <3>1
  <2>3. CASE ~(n - 1 < i)
    BY <1>11, <2>1, <2>3
  <2> QED BY <2>2, <2>3
<1> QED BY <1>3, <1>4, <1>15, <1>16, <1>17

\* The batches of a sequence, joined one by one.
Joining(f, bs) ==
    /\ f \in [0..Len(bs) -> Seq(Nat)]
    /\ f[0] = <<>> /\ \A i \in 1..Len(bs) : f[i] = f[i - 1] \o bs[i]

\* Batches can be joined one by one.
LEMMA JoiningExists ==
    ASSUME NEW bs \in Seq(Seq(Nat))
    PROVE  \E f : Joining(f, bs)
<1> DEFINE Good(f, k) == /\ f \in [0..k -> Seq(Nat)]
                         /\ f[0] = <<>> /\ \A i \in 1..k : f[i] = f[i - 1] \o bs[i]
           S == {k \in Nat : k <= Len(bs) => \E f : Good(f, k)}
<1>1. 0 \in S
  <2>1. <<>> \in Seq(Nat)
    OBVIOUS
  <2>2. Good([i \in 0..0 |-> <<>>], 0)
    BY <2>1
  <2> QED BY <2>2
<1>2. ASSUME NEW k \in Nat, k \in S PROVE k + 1 \in S
  <2> HIDE DEF Good
  <2> SUFFICES ASSUME k + 1 <= Len(bs) PROVE \E f : Good(f, k + 1)
    OBVIOUS
  <2> USE DEF Good
  <2>1. k <= Len(bs) /\ bs[k + 1] \in Seq(Nat)
    <3>1. k + 1 \in 1..Len(bs)
      OBVIOUS
    <3> QED BY <3>1
  <2>2. PICK f : Good(f, k)
    BY <1>2, <2>1
  <2>3. PICK v : v = f[k] \o bs[k + 1]
    OBVIOUS
  <2>4. v \in Seq(Nat)
    <3>1. f[k] \in Seq(Nat)
      BY <2>2
    <3> QED BY <2>1, <2>3, <3>1, ConcatProperties
  <2>5. PICK g : g = [i \in 0..k + 1 |-> IF i = k + 1 THEN v ELSE f[i]]
    OBVIOUS
  <2>6. g \in [0..k + 1 -> Seq(Nat)]
    <3>1. ASSUME NEW i \in 0..k + 1 PROVE (IF i = k + 1 THEN v ELSE f[i]) \in Seq(Nat)
      <4>1. i # k + 1 => i \in 0..k
        OBVIOUS
      <4>2. i # k + 1 => f[i] \in Seq(Nat)
        BY <2>2, <4>1
      <4> QED BY <2>4, <4>2
    <3> QED BY <2>5, <3>1
  <2>7. g[k + 1] = v /\ \A i \in 0..k : g[i] = f[i]
    BY <2>5
  <2>8. ASSUME NEW i \in 1..k + 1 PROVE g[i] = g[i - 1] \o bs[i]
    <3>1. CASE i = k + 1
      <4>1. i - 1 = k /\ k \in 0..k
        BY <3>1
      <4> QED BY <2>3, <2>7, <3>1, <4>1
    <3>2. CASE i # k + 1
      <4>1. i \in 1..k /\ i \in 0..k /\ i - 1 \in 0..k
        BY <3>2
      <4> QED BY <2>2, <2>7, <4>1
    <3> QED BY <3>1, <3>2
  <2>9. g[0] = <<>>
    BY <2>2, <2>7, SMTT(60)
  <2>10. Good(g, k + 1)
    BY <2>6, <2>8, <2>9
  <2> HIDE DEF Good
  <2> QED BY <2>10
<1> HIDE DEF S
<1>3. Nat \subseteq S
  BY <1>1, <1>2, SetInduction
<1>4. Len(bs) \in S
  BY <1>3
<1> HIDE DEF Good
<1>5. \E f : Good(f, Len(bs))
  BY <1>4 DEF S
<1> USE DEF Good
<1> QED BY <1>5 DEF Joining

\* FlattenSeq is the last of the joined sequences.
LEMMA FlattenIsLast ==
    ASSUME NEW bs \in Seq(Seq(Nat)), NEW f, Joining(f, bs)
    PROVE  FlattenSeq(bs) = f[Len(bs)]
<1>1. CASE Len(bs) = 0
  <2>1. FlattenSeq(bs) = bs /\ bs = <<>>
    BY <1>1 DEF FlattenSeq
  <2> QED BY <1>1, <2>1 DEF Joining
<1>2. CASE Len(bs) # 0
  <2> DEFINE Rec(g) == g = [i \in 1..Len(bs) |-> IF i = 1 THEN bs[i] ELSE g[i - 1] \o bs[i]]
             flatten == CHOOSE g : Rec(g)
  <2>1. FlattenSeq(bs) = flatten[Len(bs)]
    BY <1>2 DEF FlattenSeq
  <2>2. Len(bs) \in Nat /\ \A i \in 1..Len(bs) : bs[i] \in Seq(Nat)
    OBVIOUS
  <2>3. f[1] = bs[1]
    <3>1. 1 \in 1..Len(bs) /\ 1 - 1 = 0
      BY <1>2, <2>2
    <3>2. f[1] = f[0] \o bs[1] /\ bs[1] \in Seq(Nat) /\ f[0] = <<>>
      BY <2>2, <3>1 DEF Joining
    <3>3. <<>> \o bs[1] = bs[1]
      BY <3>2, ConcatEmptySeq
    <3> QED BY <3>2, <3>3
  <2>4. PICK g : g = [i \in 1..Len(bs) |-> f[i]]
    OBVIOUS
  <2>5. Rec(g)
    <3>1. ASSUME NEW i \in 1..Len(bs)
          PROVE  f[i] = IF i = 1 THEN bs[i] ELSE g[i - 1] \o bs[i]
      <4>1. i # 1 => i - 1 \in 1..Len(bs)
        BY <2>2
      <4>2. f[i] = f[i - 1] \o bs[i]
        BY DEF Joining
      <4>3. i # 1 => g[i - 1] = f[i - 1]
        BY <2>4, <4>1
      <4> QED BY <2>3, <4>2, <4>3
    <3> QED BY <2>4, <3>1
  <2>6. Rec(flatten)
    BY <2>5
  <2> HIDE DEF flatten
  <2> DEFINE S == {k \in Nat : k + 1 <= Len(bs) => flatten[k + 1] = f[k + 1]}
  <2>7. 0 \in S
    <3>1. 1 \in 1..Len(bs)
      BY <1>2, <2>2
    <3>2. flatten[1] = bs[1]
      BY <2>6, <3>1
    <3> QED BY <2>3, <3>2
  <2>8. ASSUME NEW k \in Nat, k \in S PROVE k + 1 \in S
    <3> SUFFICES ASSUME (k + 1) + 1 <= Len(bs) PROVE flatten[(k + 1) + 1] = f[(k + 1) + 1]
      OBVIOUS
    <3>1. PICK m : m = (k + 1) + 1
      OBVIOUS
    <3>2. m \in 1..Len(bs) /\ m # 1 /\ m - 1 = k + 1 /\ k + 1 <= Len(bs)
      BY <2>2, <3>1
    <3>3. flatten[m] = flatten[m - 1] \o bs[m]
      BY <2>6, <3>2
    <3>4. f[m] = f[m - 1] \o bs[m]
      BY <3>2 DEF Joining
    <3> QED BY <2>8, <3>1, <3>2, <3>3, <3>4
  <2> HIDE DEF S
  <2>9. Nat \subseteq S
    BY <2>7, <2>8, SetInduction
  <2>10. Len(bs) - 1 \in S /\ (Len(bs) - 1) + 1 = Len(bs)
    BY <1>2, <2>2, <2>9
  <2>11. flatten[Len(bs)] = f[Len(bs)]
    BY <2>2, <2>10 DEF S
  <2> QED BY <2>1, <2>11
<1> QED BY <1>1, <1>2

\* Batches of naturals join to a sequence of naturals.
LEMMA FlattenType ==
    ASSUME NEW bs \in Seq(Seq(Nat))
    PROVE  FlattenSeq(bs) \in Seq(Nat)
<1>1. PICK f : Joining(f, bs)
  BY JoiningExists
<1>2. FlattenSeq(bs) = f[Len(bs)]
  BY <1>1, FlattenIsLast
<1>3. Len(bs) \in 0..Len(bs)
  OBVIOUS
<1> QED BY <1>1, <1>2, <1>3 DEF Joining

\* No batches, no events.
LEMMA FlattenEmpty == FlattenSeq(<<>>) = <<>>
BY DEF FlattenSeq

\* A batch at the end adds its events at the end.
LEMMA FlattenAppend ==
    ASSUME NEW bs \in Seq(Seq(Nat)), NEW b \in Seq(Nat)
    PROVE  FlattenSeq(Append(bs, b)) = FlattenSeq(bs) \o b
<1>1. PICK f : Joining(f, bs)
  BY JoiningExists
<1>2. PICK n \in Nat : n = Len(bs)
  OBVIOUS
<1>3. PICK u : u = Append(bs, b)
  OBVIOUS
<1>4. /\ u \in Seq(Seq(Nat)) /\ Len(u) = n + 1 /\ u[n + 1] = b
      /\ \A i \in 1..n : u[i] = bs[i]
  BY <1>2, <1>3, AppendProperties
<1>5. PICK g : Joining(g, u)
  BY <1>4, JoiningExists
<1> DEFINE S == {k \in Nat : k <= n => g[k] = f[k]}
<1>6. 0 \in S
  BY <1>1, <1>5 DEF Joining
<1>7. ASSUME NEW k \in Nat, k \in S PROVE k + 1 \in S
  <2> SUFFICES ASSUME k + 1 <= n PROVE g[k + 1] = f[k + 1]
    OBVIOUS
  <2>1. k + 1 \in 1..n /\ k + 1 \in 1..n + 1 /\ (k + 1) - 1 = k /\ k <= n
    BY <1>2
  <2>2. g[k + 1] = g[k] \o u[k + 1]
    BY <1>4, <1>5, <2>1 DEF Joining
  <2>3. f[k + 1] = f[k] \o bs[k + 1]
    BY <1>1, <1>2, <2>1 DEF Joining
  <2> QED BY <1>4, <1>7, <2>1, <2>2, <2>3
<1> HIDE DEF S
<1>8. Nat \subseteq S
  BY <1>6, <1>7, SetInduction
<1>9. g[n] = f[n]
  BY <1>2, <1>8 DEF S
<1>10. g[n + 1] = g[n] \o b
  <2>1. n + 1 \in 1..Len(u) /\ (n + 1) - 1 = n
    BY <1>2, <1>4
  <2> QED BY <1>4, <1>5, <2>1 DEF Joining
<1>11. FlattenSeq(bs) = f[n] /\ FlattenSeq(u) = g[n + 1]
  BY <1>1, <1>2, <1>4, <1>5, FlattenIsLast
<1> QED BY <1>3, <1>9, <1>10, <1>11

\* Joining sequences is associative.
LEMMA JoinAssociative ==
    ASSUME NEW x \in Seq(Nat), NEW y \in Seq(Nat), NEW z \in Seq(Nat)
    PROVE  (x \o y) \o z = x \o (y \o z)
OBVIOUS

\* Two sequences of batches, one after the other, and their events.
LEMMA FlattenConcat ==
    ASSUME NEW bs \in Seq(Seq(Nat)), NEW cs \in Seq(Seq(Nat))
    PROVE  FlattenSeq(bs \o cs) = FlattenSeq(bs) \o FlattenSeq(cs)
<1> DEFINE S == {k \in Nat : \A ds \in Seq(Seq(Nat)) : Len(ds) = k =>
                   FlattenSeq(bs \o ds) = FlattenSeq(bs) \o FlattenSeq(ds)}
<1>1. 0 \in S
  <2> SUFFICES ASSUME NEW ds \in Seq(Seq(Nat)), Len(ds) = 0
               PROVE  FlattenSeq(bs \o ds) = FlattenSeq(bs) \o FlattenSeq(ds)
    OBVIOUS
  <2>1. ds = <<>>
    OBVIOUS
  <2>2. bs \o ds = bs
    BY <2>1, ConcatEmptySeq
  <2>3. FlattenSeq(bs) \o <<>> = FlattenSeq(bs)
    BY FlattenType, ConcatEmptySeq
  <2> QED BY <2>1, <2>2, <2>3, FlattenEmpty
<1>2. ASSUME NEW k \in Nat, k \in S PROVE k + 1 \in S
  <2> SUFFICES ASSUME NEW ds \in Seq(Seq(Nat)), Len(ds) = k + 1
               PROVE  FlattenSeq(bs \o ds) = FlattenSeq(bs) \o FlattenSeq(ds)
    OBVIOUS
  <2>1. PICK es, e : es = SubSeq(ds, 1, k) /\ e = ds[k + 1]
    OBVIOUS
  <2>2. es \in Seq(Seq(Nat)) /\ Len(es) = k /\ e \in Seq(Nat) /\ ds = Append(es, e)
    <3>1. k + 1 \in 1..Len(ds)
      OBVIOUS
    <3>2. e \in Seq(Nat)
      BY <2>1, <3>1
    <3>3. es \in Seq(Seq(Nat)) /\ Len(es) = k
      BY <2>1
    <3>4. ds = Append(es, e)
      BY <2>1, <3>3
    <3> QED BY <3>2, <3>3, <3>4
  <2>3. bs \o ds = Append(bs \o es, e) /\ bs \o es \in Seq(Seq(Nat))
    BY <2>2, SMTT(60)
  <2>4. FlattenSeq(bs \o ds) = FlattenSeq(bs \o es) \o e
    BY <2>2, <2>3, FlattenAppend
  <2>5. FlattenSeq(ds) = FlattenSeq(es) \o e
    BY <2>2, FlattenAppend
  <2>6. FlattenSeq(bs \o es) = FlattenSeq(bs) \o FlattenSeq(es)
    BY <1>2, <2>2
  <2>7. PICK x, y : x = FlattenSeq(bs) /\ y = FlattenSeq(es)
    OBVIOUS
  <2>8. x \in Seq(Nat) /\ y \in Seq(Nat) /\ e \in Seq(Nat)
    BY <2>2, <2>7, FlattenType
  <2>9. (x \o y) \o e = x \o (y \o e)
    BY <2>8, JoinAssociative
  <2> QED BY <2>4, <2>5, <2>6, <2>7, <2>9
<1> HIDE DEF S
<1>3. Nat \subseteq S
  BY <1>1, <1>2, SetInduction
<1>4. Len(cs) \in S
  BY <1>3
<1> QED BY <1>4 DEF S

\* The first batch holds the first events.
LEMMA FlattenHead ==
    ASSUME NEW bs \in Seq(Seq(Nat)), bs # <<>>
    PROVE  /\ Head(bs) \in Seq(Nat) /\ Tail(bs) \in Seq(Seq(Nat))
           /\ FlattenSeq(bs) = Head(bs) \o FlattenSeq(Tail(bs))
<1>1. PICK h, r : h = Head(bs) /\ r = Tail(bs)
  OBVIOUS
<1>2. h \in Seq(Nat) /\ r \in Seq(Seq(Nat))
  BY <1>1
<1>3. <<h>> \in Seq(Seq(Nat)) /\ bs = <<h>> \o r
  BY <1>1, <1>2
<1>4. FlattenSeq(bs) = FlattenSeq(<<h>>) \o FlattenSeq(r)
  BY <1>2, <1>3, FlattenConcat
<1>5. FlattenSeq(<<h>>) = h
  <2>1. <<>> \in Seq(Seq(Nat)) /\ <<h>> = Append(<<>>, h)
    OBVIOUS
  <2>2. FlattenSeq(<<h>>) = <<>> \o h
    BY <1>2, <2>1, FlattenAppend, FlattenEmpty
  <2> QED BY <1>2, <2>2, ConcatEmptySeq
<1> QED BY <1>1, <1>2, <1>4, <1>5

\* v holds the first k elements of q that are in S, in the order of q.
Kept(v, q, k, S) ==
    /\ ToSet(v) = {q[i] : i \in 1..k} \cap S
    /\ \A i1, i2 \in DOMAIN v : i1 < i2 =>
           \E j1, j2 \in 1..k : j1 < j2 /\ v[i1] = q[j1] /\ v[i2] = q[j2]

\* One more element of q is kept, or not.
LEMMA KeptNext ==
    ASSUME NEW X, NEW q \in Seq(X), NEW S, NEW v \in Seq(X), NEW k \in Nat,
           k + 1 <= Len(q), Kept(v, q, k, S)
    PROVE  /\ q[k + 1] \in X
           /\ q[k + 1] \notin S => Kept(v, q, k + 1, S)
           /\ q[k + 1] \in S => Kept(Append(v, q[k + 1]), q, k + 1, S)
<1>1. PICK x : x = q[k + 1]
  OBVIOUS
<1>2. x \in X
  <2>1. k + 1 \in 1..Len(q)
    OBVIOUS
  <2> QED BY <1>1, <2>1
<1>3. {q[i] : i \in 1..k + 1} = {q[i] : i \in 1..k} \cup {x}
  <2>1. 1..k + 1 = (1..k) \cup {k + 1}
    OBVIOUS
  <2> QED BY <1>1, <2>1
<1>4. 1..k \subseteq 1..k + 1
  OBVIOUS
<1>5. ASSUME x \notin S PROVE Kept(v, q, k + 1, S)
  <2>1. ToSet(v) = {q[i] : i \in 1..k + 1} \cap S
    BY <1>3, <1>5 DEF Kept
  <2>2. ASSUME NEW i1 \in DOMAIN v, NEW i2 \in DOMAIN v, i1 < i2
        PROVE  \E j1, j2 \in 1..k + 1 : j1 < j2 /\ v[i1] = q[j1] /\ v[i2] = q[j2]
    <3>1. \E j1, j2 \in 1..k : j1 < j2 /\ v[i1] = q[j1] /\ v[i2] = q[j2]
      BY <2>2 DEF Kept
    <3> QED BY <1>4, <3>1
  <2> QED BY <2>1, <2>2 DEF Kept
<1>6. ASSUME x \in S PROVE Kept(Append(v, x), q, k + 1, S)
  <2>1. PICK u : u = Append(v, x)
    OBVIOUS
  <2>2. PICK n \in Nat : n = Len(v) /\ DOMAIN v = 1..n
    BY LenProperties
  <2>3. /\ u \in Seq(X) /\ Len(u) = n + 1 /\ u[n + 1] = x
        /\ \A i \in 1..n : u[i] = v[i]
    BY <1>2, <2>1, <2>2, AppendProperties
  <2>4. DOMAIN u = 1..n + 1
    BY <2>3, LenProperties
  <2>5. ToSet(u) = ToSet(v) \cup {x}
    <3>1. 1..n + 1 = (1..n) \cup {n + 1}
      BY <2>2
    <3> QED BY <2>2, <2>3, <2>4, <3>1 DEF ToSet
  <2>6. ASSUME NEW i1 \in DOMAIN u, NEW i2 \in DOMAIN u, i1 < i2
        PROVE  \E j1, j2 \in 1..k + 1 : j1 < j2 /\ u[i1] = q[j1] /\ u[i2] = q[j2]
    <3>1. i1 \in 1..n /\ u[i1] = v[i1]
      BY <2>2, <2>3, <2>4, <2>6
    <3>2. CASE i2 \in 1..n
      <4>1. \E j1, j2 \in 1..k : j1 < j2 /\ v[i1] = q[j1] /\ v[i2] = q[j2]
        BY <2>2, <2>6, <3>1, <3>2 DEF Kept
      <4> QED BY <1>4, <2>3, <3>1, <3>2, <4>1
    <3>3. CASE i2 \notin 1..n
      <4>1. i2 = n + 1
        BY <2>2, <2>4, <3>3
      <4>2. v[i1] \in {q[i] : i \in 1..k}
        BY <2>2, <3>1 DEF Kept, ToSet
      <4>3. PICK j \in 1..k : v[i1] = q[j]
        BY <4>2
      <4>4. j < k + 1 /\ j \in 1..k + 1 /\ k + 1 \in 1..k + 1
        OBVIOUS
      <4> QED BY <1>1, <2>3, <3>1, <4>1, <4>3, <4>4
    <3> QED BY <3>2, <3>3
  <2>7. ToSet(u) = {q[i] : i \in 1..k + 1} \cap S
    BY <1>3, <1>6, <2>5 DEF Kept
  <2> QED BY <2>1, <2>6, <2>7, SMTT(60) DEF Kept
<1> QED BY <1>1, <1>2, <1>5, <1>6

\* Only() keeps the members of S, in order.
LEMMA OnlyKeeps ==
    ASSUME NEW X, NEW q \in Seq(X), NEW S
    PROVE  Only(q, S) \in Seq(X) /\ Kept(Only(q, S), q, Len(q), S)
<1> DEFINE N == Len(q)
           Next1(i, w) == IF q[i] \in S THEN Append(w, q[i]) ELSE w
           Good(f, k) == f = [i \in 0..k |-> IF i = 0 THEN <<>> ELSE Next1(i, f[i - 1])]
           kept == CHOOSE f : f = [i \in 0..Len(q) |->
               IF i = 0 THEN <<>>
               ELSE IF q[i] \in S THEN Append(f[i - 1], q[i]) ELSE f[i - 1]]
<1>1. Only(q, S) = kept[N]
  BY DEF Only
<1>2. N \in Nat
  OBVIOUS
<1>3. \E f : Good(f, N)
  <2> DEFINE R == {k \in Nat : \E f : Good(f, k)}
  <2>1. 0 \in R
    <3>1. Good([i \in 0..0 |-> <<>>], 0)
      OBVIOUS
    <3> QED BY <3>1
  <2>2. ASSUME NEW k \in Nat, k \in R PROVE k + 1 \in R
    <3>1. PICK f : Good(f, k)
      BY <2>2
    <3> DEFINE g == [i \in 0..k + 1 |-> IF i = k + 1 THEN Next1(k + 1, f[k]) ELSE f[i]]
    <3> HIDE DEF Next1
    <3>2. g[k + 1] = Next1(k + 1, f[k]) /\ \A i \in 0..k : g[i] = f[i]
      OBVIOUS
    <3>3. ASSUME NEW i \in 0..k + 1 PROVE g[i] = IF i = 0 THEN <<>> ELSE Next1(i, g[i - 1])
      <4>1. CASE i = k + 1
        <5>1. i # 0 /\ i - 1 = k /\ k \in 0..k
          BY <4>1
        <5>2. g[i - 1] = f[k]
          BY <3>2, <5>1
        <5> HIDE DEF g
        <5> QED BY <3>2, <4>1, <5>1, <5>2
      <4>2. CASE i # k + 1
        <5>1. i \in 0..k /\ g[i] = f[i] /\ (i # 0 => i - 1 \in 0..k)
          BY <3>2, <4>2
        <5>2. f[i] = IF i = 0 THEN <<>> ELSE Next1(i, f[i - 1])
          BY <3>1, <5>1
        <5>3. i # 0 => g[i - 1] = f[i - 1]
          BY <3>2, <5>1
        <5> HIDE DEF g
        <5> QED BY <5>1, <5>2, <5>3
      <4> QED BY <4>1, <4>2
    <3>4. g = [i \in 0..k + 1 |-> IF i = 0 THEN <<>> ELSE Next1(i, g[i - 1])]
      BY <3>3
    <3> HIDE DEF g
    <3>5. \E h : Good(h, k + 1)
      BY <3>4
    <3> QED BY <3>5
  <2> HIDE DEF R
  <2>3. Nat \subseteq R
    BY <2>1, <2>2, SetInduction, SMTT(60)
  <2> QED BY <1>2, <2>3 DEF R
<1>4. Good(kept, N)
  BY <1>3
<1> HIDE DEF kept
<1> DEFINE T == {k \in Nat : k <= N => kept[k] \in Seq(X) /\ Kept(kept[k], q, k, S)}
<1>5. 0 \in T
  <2>1. kept[0] = <<>>
    BY <1>2, <1>4
  <2>2. <<>> \in Seq(X) /\ DOMAIN <<>> = {} /\ ToSet(<<>>) = {}
    BY DEF ToSet
  <2>3. {q[i] : i \in 1..0} = {}
    OBVIOUS
  <2>4. Kept(<<>>, q, 0, S)
    BY <2>2, <2>3 DEF Kept
  <2> QED BY <2>1, <2>2, <2>4
<1>6. ASSUME NEW k \in Nat, k \in T PROVE k + 1 \in T
  <2> SUFFICES ASSUME k + 1 <= N PROVE kept[k + 1] \in Seq(X) /\ Kept(kept[k + 1], q, k + 1, S)
    OBVIOUS
  <2>1. k <= N /\ k + 1 \in 0..N /\ k + 1 \in 1..N /\ (k + 1) - 1 = k /\ k + 1 # 0
    BY <1>2
  <2>2. kept[k + 1] = Next1(k + 1, kept[k])
    <3> HIDE DEF Next1
    <3> QED BY <1>4, <2>1
  <2>3. kept[k] \in Seq(X) /\ Kept(kept[k], q, k, S)
    BY <1>6, <2>1
  <2>4. k + 1 <= Len(q)
    BY <2>1
  <2>5. /\ q[k + 1] \in X
        /\ q[k + 1] \notin S => Kept(kept[k], q, k + 1, S)
        /\ q[k + 1] \in S => Kept(Append(kept[k], q[k + 1]), q, k + 1, S)
    BY <2>3, <2>4, KeptNext
  <2>6. Append(kept[k], q[k + 1]) \in Seq(X)
    BY <2>3, <2>5, AppendProperties
  <2> QED BY <2>2, <2>3, <2>5, <2>6
<1> HIDE DEF T
<1>7. Nat \subseteq T
  BY <1>5, <1>6, SetInduction
<1>8. N \in T
  BY <1>2, <1>7
<1> QED BY <1>1, <1>2, <1>8 DEF T

\* What is left of a sequence are its members in S.
LEMMA OnlySet ==
    ASSUME NEW X, NEW q \in Seq(X), NEW S
    PROVE  Only(q, S) \in Seq(X) /\ ToSet(Only(q, S)) = ToSet(q) \cap S
<1>1. Only(q, S) \in Seq(X) /\ Kept(Only(q, S), q, Len(q), S)
  BY OnlyKeeps
<1>2. {q[i] : i \in 1..Len(q)} = ToSet(q)
  BY DEF ToSet
<1> QED BY <1>1, <1>2 DEF Kept

\* A set of naturals has a least member.
LEMMA MinIsLeast ==
    ASSUME NEW S \in SUBSET Nat, S # {}
    PROVE  Min(S) \in S /\ \A x \in S : Min(S) <= x
<1>1. IsWellFoundedOn(OpToRel(<, Nat), Nat)
  BY NatLessThanWellFounded
<1>2. \E x \in S : \A y \in S : <<y, x>> \notin OpToRel(<, Nat)
  BY <1>1, WFMin, Zenon
<1>3. PICK x \in S : \A y \in S : <<y, x>> \notin OpToRel(<, Nat)
  BY <1>2
<1>4. ASSUME NEW y \in S PROVE x <= y
  <2> SUFFICES ASSUME y < x PROVE FALSE
    OBVIOUS
  <2>1. <<y, x>> \in OpToRel(<, Nat)
    BY DEF OpToRel
  <2> QED BY <1>3, <2>1
<1> QED BY <1>4 DEF Min

----------------------------------------------------------------------------
(* The dispatchers *)

SourceState ==
    [subs : Seq(Tags), demand : [Tags -> Nat], waiting : Nat, requested : Nat,
     parts : [Partitions -> Seq(Nat)], buffer : Seq(Nat),
     mode : {"accumulate", "forward"}, accumulated : Nat, dropped : Nat]

(* A source in order: a broadcast never waits for more than it requested,  *)
(* and a partition has one subscriber.                                     *)
Sound(s, a) ==
    /\ a \in SourceState
    /\ a.waiting <= a.requested
    /\ \A t \in Subs(a) : Up[t] = s
    /\ disp[s] = "partition" => \A t, u \in Subs(a) : part[t] = part[u] => t = u

\* What a source has been asked for by a subscriber and has not sent.
Owe(s, a, t) ==
    IF t \in Subs(a) THEN a.demand[t] + (IF disp[s] = "broadcast" THEN a.waiting ELSE 0) ELSE 0

(* A dispatch pays what it owes: the batches it sends are missing from     *)
(* what it owes afterwards, and nobody is sent a batch who is owed nothing.*)
Pays(s, a, r) ==
    /\ Sound(s, r.state) /\ r.state.subs = a.subs
    /\ r.rest \in Seq(Nat)
    /\ DOMAIN r.sent \subseteq Subs(a)
    /\ \A t \in DOMAIN r.sent :
          /\ r.sent[t] \in Seq(Nat)
          /\ Owe(s, a, t) > 0
          /\ Owe(s, a, t) = Owe(s, r.state, t) + Len(r.sent[t])
    /\ \A t \in Tags \ DOMAIN r.sent : Owe(s, r.state, t) = Owe(s, a, t)

\* A demand is a natural.
LEMMA DemandType ==
    ASSUME NEW a, a.subs \in Seq(Tags), a.demand \in [Tags -> Nat], NEW S
    PROVE  Demand(a, S) \in Nat
<1>1. PICK q : q = [i \in DOMAIN a.subs |-> IF a.subs[i] \in S THEN a.demand[a.subs[i]] ELSE 0]
  OBVIOUS
<1>2. \A i \in DOMAIN a.subs : a.subs[i] \in Tags
  OBVIOUS
<1>3. PICK n \in Nat : DOMAIN a.subs = 1..n
  BY LenProperties
<1>4. \A i \in 1..n : (IF a.subs[i] \in S THEN a.demand[a.subs[i]] ELSE 0) \in Nat
  BY <1>2, <1>3
<1>5. q \in [1..n -> Nat]
  BY <1>1, <1>3, <1>4
<1>6. q \in Seq(Nat)
  BY <1>5
<1> QED BY <1>1, <1>6, TotalType DEF Demand

\* A part of a sequence.
LEMMA PartOf ==
    ASSUME NEW q \in Seq(Nat), NEW m \in Nat \ {0}, NEW n \in Nat, n <= Len(q)
    PROVE  /\ SubSeq(q, m, n) \in Seq(Nat)
           /\ Len(SubSeq(q, m, n)) = IF m <= n THEN n - m + 1 ELSE 0
           /\ \A i \in 1..n - m + 1 : SubSeq(q, m, n)[i] = q[m + i - 1]
<1>1. m \in Int /\ n \in Int
  OBVIOUS
<1>2. \A i \in m..n : q[i] \in Nat
  BY LenProperties
<1> QED BY <1>1, <1>2, SubSeqProperties

\* The fields of a source.
LEMMA Fields ==
    ASSUME NEW a \in SourceState
    PROVE  /\ a.subs \in Seq(Tags) /\ a.demand \in [Tags -> Nat]
           /\ a.waiting \in Nat /\ a.requested \in Nat /\ a.parts \in [Partitions -> Seq(Nat)]
           /\ a.buffer \in Seq(Nat) /\ a.mode \in {"accumulate", "forward"}
           /\ a.accumulated \in Nat /\ a.dropped \in Nat
           /\ Subs(a) \subseteq Tags
           /\ \A t \in Tags : a.demand[t] \in Nat
<1>1. a.subs \in Seq(Tags) /\ a.demand \in [Tags -> Nat]
  BY DEF SourceState
<1>2. Subs(a) \subseteq Tags
  BY <1>1 DEF Subs, ToSet
<1> QED BY <1>1, <1>2 DEF SourceState

\* What is owed is a natural.
LEMMA OweType ==
    ASSUME NEW s, NEW a \in SourceState, NEW t \in Tags
    PROVE  Owe(s, a, t) \in Nat
BY Fields DEF Owe

\* A source whose demands have changed is in order.
LEMMA NewDemand ==
    ASSUME NEW s, NEW a, Sound(s, a), NEW f \in [Tags -> Nat]
    PROVE  /\ Sound(s, [a EXCEPT !.demand = f])
           /\ [a EXCEPT !.demand = f].subs = a.subs
           /\ Subs([a EXCEPT !.demand = f]) = Subs(a)
           /\ [a EXCEPT !.demand = f].demand = f
           /\ [a EXCEPT !.demand = f].waiting = a.waiting
<1>1. a \in SourceState
  BY DEF Sound
<1>2. PICK b : b = [a EXCEPT !.demand = f]
  OBVIOUS
<1>3. /\ b \in SourceState /\ b.subs = a.subs /\ b.demand = f
      /\ b.waiting = a.waiting /\ b.requested = a.requested
  BY <1>1, <1>2 DEF SourceState
<1>4. Subs(b) = Subs(a)
  BY <1>3 DEF Subs
<1>5. Sound(s, b)
  BY <1>3, <1>4 DEF Sound
<1> QED BY <1>2, <1>3, <1>4, <1>5

\* The demand dispatcher sends nobody more than was asked for.
LEMMA DemandPays ==
    ASSUME NEW s, NEW a, Sound(s, a), disp[s] = "demand", NEW events \in Seq(Nat)
    PROVE  Pays(s, a, DemandDispatch(a, events))
<1>1. a \in SourceState
  BY DEF Sound
<1>2. Len(events) \in Nat
  OBVIOUS
<1>3. PICK share : share = [t \in Subs(a) |->
            SubSeq(events, Demand(a, ServedBefore(a, t)) + 1,
                   Smaller(Demand(a, ServedBefore(a, t)) + a.demand[t], Len(events)))]
  OBVIOUS
<1>4. ASSUME NEW t \in Subs(a)
      PROVE  share[t] \in Seq(Nat) /\ Len(share[t]) <= a.demand[t] /\ Len(share[t]) \in Nat
  <2>1. PICK d : d = Demand(a, ServedBefore(a, t))
    OBVIOUS
  <2>2. d \in Nat /\ a.demand[t] \in Nat
    BY <1>1, <1>4, <2>1, Fields, DemandType
  <2>3. PICK n : n = Smaller(d + a.demand[t], Len(events))
    OBVIOUS
  <2>4. n \in Nat /\ n <= Len(events) /\ n <= d + a.demand[t] /\ d + 1 \in Nat \ {0}
    BY <1>2, <2>2, <2>3 DEF Smaller
  <2>5. share[t] = SubSeq(events, d + 1, n)
    BY <1>3, <1>4, <2>1, <2>3
  <2>6. share[t] \in Seq(Nat) /\ Len(share[t]) = IF d + 1 <= n THEN n - (d + 1) + 1 ELSE 0
    BY <2>4, <2>5, PartOf, SMTT(60)
  <2> QED BY <2>2, <2>4, <2>6
<1>5. PICK to : to = {t \in Subs(a) : IF Len(a.subs) = 1 THEN a.demand[t] > 0 ELSE share[t] # <<>>}
  OBVIOUS
<1>6. PICK f : f = [t \in Tags |-> IF t \in Subs(a) THEN a.demand[t] - Len(share[t]) ELSE a.demand[t]]
  OBVIOUS
<1>7. PICK r : r = DemandDispatch(a, events)
  OBVIOUS
<1>8. /\ r.state = [a EXCEPT !.demand = f]
      /\ r.sent = [t \in to |-> share[t]]
      /\ r.rest = SubSeq(events, Demand(a, Subs(a)) + 1, Len(events))
  BY <1>3, <1>5, <1>6, <1>7 DEF DemandDispatch
<1>9. f \in [Tags -> Nat]
  <2>1. ASSUME NEW t \in Tags
        PROVE  (IF t \in Subs(a) THEN a.demand[t] - Len(share[t]) ELSE a.demand[t]) \in Nat
    <3>1. a.demand[t] \in Nat
      BY <1>1, Fields
    <3>2. t \in Subs(a) => Len(share[t]) <= a.demand[t] /\ Len(share[t]) \in Nat
      BY <1>4
    <3> QED BY <3>1, <3>2
  <2> QED BY <1>6, <2>1
<1>10. /\ Sound(s, r.state) /\ r.state.subs = a.subs /\ Subs(r.state) = Subs(a)
       /\ r.state.demand = f /\ r.state.waiting = a.waiting
  BY <1>8, <1>9, NewDemand
<1>11. r.rest \in Seq(Nat)
  <2>1. PICK d : d = Demand(a, Subs(a)) + 1
    OBVIOUS
  <2>2. d \in Nat \ {0}
    BY <1>1, <2>1, Fields, DemandType
  <2> QED BY <1>2, <1>8, <2>1, <2>2, PartOf
<1>12. DOMAIN r.sent = to /\ to \subseteq Subs(a)
  BY <1>5, <1>8
<1>13. Subs(a) \subseteq Tags
  BY <1>1, Fields
<1>14. ASSUME NEW t \in Tags
       PROVE  /\ Owe(s, a, t) = IF t \in Subs(a) THEN a.demand[t] ELSE 0
              /\ Owe(s, r.state, t) = IF t \in Subs(a) THEN a.demand[t] - Len(share[t]) ELSE 0
  <2>1. f[t] = IF t \in Subs(a) THEN a.demand[t] - Len(share[t]) ELSE a.demand[t]
    BY <1>6
  <2>2. a.demand[t] \in Nat /\ a.demand[t] + 0 = a.demand[t] /\ f[t] \in Nat /\ f[t] + 0 = f[t]
    BY <1>1, <1>9, Fields
  <2> QED BY <1>10, <2>1, <2>2 DEF Owe
<1>15. ASSUME NEW t \in to
       PROVE  /\ r.sent[t] \in Seq(Nat) /\ Owe(s, a, t) > 0
              /\ Owe(s, a, t) = Owe(s, r.state, t) + Len(r.sent[t])
  <2>1. t \in Subs(a) /\ t \in Tags
    BY <1>12, <1>13
  <2>2. share[t] \in Seq(Nat) /\ Len(share[t]) <= a.demand[t] /\ Len(share[t]) \in Nat
    BY <1>4, <2>1
  <2>3. a.demand[t] \in Nat
    BY <1>1, <2>1, Fields
  <2>4. a.demand[t] > 0
    <3>1. CASE Len(a.subs) = 1
      BY <1>5, <3>1
    <3>2. CASE Len(a.subs) # 1
      <4>1. share[t] # <<>>
        BY <1>5, <3>2
      <4>2. Len(share[t]) > 0
        BY <2>2, <4>1
      <4> QED BY <2>2, <2>3, <4>2
    <3> QED BY <3>1, <3>2
  <2>5. r.sent[t] = share[t]
    BY <1>8
  <2> QED BY <1>14, <2>1, <2>2, <2>3, <2>4, <2>5
<1>16. ASSUME NEW t \in Tags \ to PROVE Owe(s, r.state, t) = Owe(s, a, t)
  <2>1. CASE t \in Subs(a)
    <3>1. Len(share[t]) <= a.demand[t] /\ Len(share[t]) \in Nat
      BY <1>4, <2>1
    <3>2. a.demand[t] \in Nat
      BY <1>1, Fields
    <3>3. Len(share[t]) = 0
      <4>1. CASE Len(a.subs) = 1
        BY <1>5, <2>1, <3>1, <3>2, <4>1
      <4>2. CASE Len(a.subs) # 1
        BY <1>5, <2>1, <4>2
      <4> QED BY <4>1, <4>2
    <3> QED BY <1>14, <2>1, <3>2, <3>3
  <2>2. CASE t \notin Subs(a)
    BY <1>14, <2>2
  <2> QED BY <2>1, <2>2
<1>17. Pays(s, a, r)
  BY <1>10, <1>11, <1>12, <1>15, <1>16 DEF Pays
<1> QED BY <1>7, <1>17

\* So does the broadcast dispatcher, which sends all subscribers the same.
LEMMA BroadcastPays ==
    ASSUME NEW s, NEW a, Sound(s, a), disp[s] = "broadcast", NEW events \in Seq(Nat)
    PROVE  Pays(s, a, BroadcastDispatch(a, events))
<1>1. a \in SourceState
  BY DEF Sound
<1>2. Len(events) \in Nat
  OBVIOUS
<1>3. PICK r : r = BroadcastDispatch(a, events)
  OBVIOUS
<1>4. CASE a.waiting = 0 \/ a.subs = <<>>
  <2>1. r = [state |-> a, sent |-> <<>>, rest |-> events]
    BY <1>3, <1>4 DEF BroadcastDispatch
  <2>2. r.state = a /\ r.rest = events /\ DOMAIN r.sent = {}
    BY <2>1
  <2> QED BY <1>3, <2>2 DEF Pays
<1>5. CASE ~(a.waiting = 0 \/ a.subs = <<>>)
  <2>1. PICK count : count = Smaller(Len(events), a.waiting)
    OBVIOUS
  <2>2. a.waiting \in Nat /\ a.requested \in Nat /\ a.waiting <= a.requested
    BY <1>1, Fields DEF Sound
  <2>3. count \in Nat /\ count <= Len(events) /\ count <= a.waiting
    BY <1>2, <2>1, <2>2 DEF Smaller
  <2>4. /\ r.state = [a EXCEPT !.waiting = a.waiting - count, !.requested = a.requested - count]
        /\ r.sent = [t \in Subs(a) |-> SubSeq(events, 1, count)]
        /\ r.rest = SubSeq(events, count + 1, Len(events))
    BY <1>3, <1>5, <2>1 DEF BroadcastDispatch
  <2>5. PICK x, y : x = a.waiting - count /\ y = a.requested - count
    OBVIOUS
  <2>6. x \in Nat /\ y \in Nat /\ x <= y
    BY <2>2, <2>3, <2>5
  <2>7. PICK b : b = [a EXCEPT !.waiting = x, !.requested = y]
    OBVIOUS
  <2>8. /\ b \in SourceState /\ b.subs = a.subs /\ b.demand = a.demand
        /\ b.waiting = x /\ b.requested = y
    BY <1>1, <2>6, <2>7 DEF SourceState
  <2>9. Subs(b) = Subs(a)
    BY <2>8 DEF Subs
  <2>10. Sound(s, b)
    BY <2>6, <2>8, <2>9 DEF Sound
  <2>11. r.state = b
    BY <2>4, <2>5, <2>7
  <2>12. r.rest \in Seq(Nat)
    <3>1. count + 1 \in Nat \ {0}
      BY <2>3
    <3> QED BY <1>2, <2>4, <3>1, PartOf
  <2>13. SubSeq(events, 1, count) \in Seq(Nat) /\ Len(SubSeq(events, 1, count)) = count
    BY <2>3, PartOf
  <2>14. DOMAIN r.sent = Subs(a) /\ \A t \in Subs(a) : r.sent[t] = SubSeq(events, 1, count)
    BY <2>4
  <2>15. ASSUME NEW t \in Tags
         PROVE  /\ Owe(s, a, t) = IF t \in Subs(a) THEN a.demand[t] + a.waiting ELSE 0
                /\ Owe(s, b, t) = IF t \in Subs(a) THEN a.demand[t] + x ELSE 0
    BY <2>8, <2>9 DEF Owe
  <2>16. ASSUME NEW t \in Subs(a)
         PROVE  /\ r.sent[t] \in Seq(Nat) /\ Owe(s, a, t) > 0
                /\ Owe(s, a, t) = Owe(s, b, t) + Len(r.sent[t])
    <3>1. t \in Tags /\ a.demand[t] \in Nat
      BY <1>1, <2>16, Fields
    <3>2. a.waiting > 0
      BY <1>5, <2>2
    <3>3. r.sent[t] \in Seq(Nat) /\ Len(r.sent[t]) = count
      BY <2>13, <2>14
    <3>4. Owe(s, a, t) = a.demand[t] + a.waiting /\ Owe(s, b, t) = a.demand[t] + x
      BY <2>15, <3>1
    <3>5. a.demand[t] + a.waiting > 0 /\ a.demand[t] + a.waiting = (a.demand[t] + x) + count
      BY <2>2, <2>3, <2>5, <3>1, <3>2
    <3> QED BY <3>3, <3>4, <3>5
  <2>17. ASSUME NEW t \in Tags \ Subs(a) PROVE Owe(s, b, t) = Owe(s, a, t)
    BY <2>15
  <2>18. Pays(s, a, r)
    BY <2>8, <2>10, <2>11, <2>12, <2>14, <2>16, <2>17 DEF Pays
  <2> QED BY <1>3, <2>18
<1> QED BY <1>4, <1>5

\* The smaller of two naturals.
LEMMA SmallerIs ==
    ASSUME NEW x \in Nat, NEW y \in Nat
    PROVE  Smaller(x, y) \in Nat /\ Smaller(x, y) <= x /\ Smaller(x, y) <= y
BY DEF Smaller

\* What a partition sends, of fresh events and of those it had kept.
LEMMA Bucket ==
    ASSUME NEW d \in Nat, NEW fresh \in Seq(Nat), NEW queue \in Seq(Nat),
           NEW now \in Nat, now <= Len(fresh), now <= d,
           NEW drain \in Nat, drain <= Len(queue), drain <= d - now
    PROVE  /\ SubSeq(fresh, 1, now) \o SubSeq(queue, 1, drain) \in Seq(Nat)
           /\ Len(SubSeq(fresh, 1, now) \o SubSeq(queue, 1, drain)) <= d
           /\ SubSeq(queue, drain + 1, Len(queue)) \in Seq(Nat)
<1>1. PICK v, w : v = SubSeq(fresh, 1, now) /\ w = SubSeq(queue, 1, drain)
  OBVIOUS
<1>2. v \in Seq(Nat) /\ Len(v) = now
  BY <1>1, PartOf, SMTT(60)
<1>3. w \in Seq(Nat) /\ Len(w) = drain
  BY <1>1, PartOf
<1>4. v \o w \in Seq(Nat) /\ Len(v \o w) = now + drain
  BY <1>2, <1>3, ConcatProperties
<1>5. SubSeq(queue, drain + 1, Len(queue)) \in Seq(Nat)
  <2>1. drain + 1 \in Nat \ {0} /\ Len(queue) \in Nat
    OBVIOUS
  <2> QED BY <2>1, PartOf
<1>6. now + drain <= d
  OBVIOUS
<1> QED BY <1>1, <1>4, <1>5, <1>6

\* The partition dispatcher sends a partition's subscriber what it asked for.
LEMMA PartitionPays ==
    ASSUME NEW s, NEW a, Sound(s, a), disp[s] = "partition", NEW events \in Seq(Nat),
           part \in [Tags -> Partitions]
    PROVE  Pays(s, a, PartitionDispatch(a, events))
<1> DEFINE demandOf(p) == IF Entry(a, p) = {} THEN 0
                          ELSE a.demand[CHOOSE t \in Entry(a, p) : TRUE]
           fresh(p) == Only(events, {e \in ToSet(events) : Hash(e) = p})
           now(p) == Smaller(demandOf(p), Len(fresh(p)))
           queue(p) == a.parts[p] \o SubSeq(fresh(p), now(p) + 1, Len(fresh(p)))
           drain(p) == Smaller(demandOf(p) - now(p), Len(queue(p)))
           bucket(p) == SubSeq(fresh(p), 1, now(p)) \o SubSeq(queue(p), 1, drain(p))
           to == {t \in Subs(a) : bucket(part[t]) # <<>>}
           f == [t \in Tags |-> IF t \in to THEN a.demand[t] - Len(bucket(part[t])) ELSE a.demand[t]]
           g == [p \in Partitions |-> SubSeq(queue(p), drain(p) + 1, Len(queue(p)))]
<1>1. a \in SourceState
  BY DEF Sound
<1>2. PICK r : r = PartitionDispatch(a, events)
  BY SMTT(60)
<1>3. r = [state |-> [a EXCEPT !.parts = g, !.demand = f],
           sent |-> [t \in to |-> bucket(part[t])], rest |-> <<>>]
  BY <1>2 DEF PartitionDispatch
<1>4. ASSUME NEW p PROVE demandOf(p) \in Nat
  <2>1. CASE Entry(a, p) = {}
    BY <2>1
  <2>2. CASE Entry(a, p) # {}
    <3>1. PICK u : u = CHOOSE t \in Entry(a, p) : TRUE
      OBVIOUS
    <3>2. u \in Entry(a, p)
      BY <2>2, <3>1
    <3>3. u \in Subs(a)
      BY <3>2 DEF Entry
    <3>4. a.demand[u] \in Nat
      BY <1>1, <3>3, Fields
    <3> QED BY <2>2, <3>1, <3>4
  <2> QED BY <2>1, <2>2
<1>5. ASSUME NEW p \in Partitions
      PROVE  /\ bucket(p) \in Seq(Nat) /\ Len(bucket(p)) <= demandOf(p)
             /\ SubSeq(queue(p), drain(p) + 1, Len(queue(p))) \in Seq(Nat)
  <2>1. fresh(p) \in Seq(Nat)
    BY OnlyKeeps
  <2>2. a.parts[p] \in Seq(Nat)
    BY <1>1, Fields
  <2>3. demandOf(p) \in Nat /\ Len(fresh(p)) \in Nat
    BY <1>4, <2>1
  <2> HIDE DEF demandOf, fresh
  <2>4. now(p) \in Nat /\ now(p) <= Len(fresh(p)) /\ now(p) <= demandOf(p)
    BY <2>3, SmallerIs
  <2>5. demandOf(p) - now(p) \in Nat
    BY <2>3, <2>4
  <2> HIDE DEF now
  <2>6. queue(p) \in Seq(Nat) /\ Len(queue(p)) \in Nat
    <3>1. now(p) + 1 \in Nat \ {0}
      BY <2>4
    <3>2. SubSeq(fresh(p), now(p) + 1, Len(fresh(p))) \in Seq(Nat)
      BY <2>1, <2>3, <3>1, PartOf
    <3> QED BY <2>2, <3>2, ConcatProperties, SMTT(60)
  <2> HIDE DEF queue
  <2>7. drain(p) \in Nat /\ drain(p) <= Len(queue(p)) /\ drain(p) <= demandOf(p) - now(p)
    BY <2>5, <2>6, SmallerIs
  <2> HIDE DEF drain
  <2> QED BY <2>1, <2>3, <2>4, <2>6, <2>7, Bucket
<1>6. ASSUME NEW t \in Subs(a)
      PROVE  /\ t \in Tags /\ part[t] \in Partitions /\ a.demand[t] \in Nat
             /\ demandOf(part[t]) = a.demand[t]
             /\ bucket(part[t]) \in Seq(Nat) /\ Len(bucket(part[t])) <= a.demand[t]
             /\ Len(bucket(part[t])) \in Nat
  <2>1. t \in Tags /\ part[t] \in Partitions /\ a.demand[t] \in Nat
    BY <1>1, <1>6, Fields
  <2>2. Entry(a, part[t]) = {t}
    BY <1>6 DEF Entry, Sound
  <2>3. demandOf(part[t]) = a.demand[t]
    BY <2>2
  <2> HIDE DEF bucket, demandOf
  <2>4. bucket(part[t]) \in Seq(Nat) /\ Len(bucket(part[t])) <= a.demand[t]
    BY <1>5, <2>1, <2>3
  <2> QED BY <2>1, <2>3, <2>4
<1> HIDE DEF bucket, demandOf, fresh, queue, now, drain
<1>7. f \in [Tags -> Nat]
  <2>1. ASSUME NEW t \in Tags
        PROVE  (IF t \in to THEN a.demand[t] - Len(bucket(part[t])) ELSE a.demand[t]) \in Nat
    <3>1. a.demand[t] \in Nat
      BY <1>1, Fields
    <3>2. t \in to => Len(bucket(part[t])) <= a.demand[t] /\ Len(bucket(part[t])) \in Nat
      BY <1>6
    <3> QED BY <3>1, <3>2
  <2> QED BY <2>1
<1>8. g \in [Partitions -> Seq(Nat)]
  BY <1>5
<1>9. to \subseteq Subs(a) /\ Subs(a) \subseteq Tags
  BY <1>1, Fields
<1> HIDE DEF g
<1>10. PICK b : b = [a EXCEPT !.parts = g, !.demand = f]
  OBVIOUS
<1>11. /\ b \in SourceState /\ b.subs = a.subs /\ b.demand = f
       /\ b.waiting = a.waiting /\ b.requested = a.requested
  <2> HIDE DEF f
  <2> QED BY <1>1, <1>7, <1>8, <1>10 DEF SourceState
<1>12. Subs(b) = Subs(a)
  BY <1>11 DEF Subs
<1>13. Sound(s, b)
  BY <1>11, <1>12 DEF Sound
<1>14. r.state = b /\ r.rest = <<>> /\ r.sent = [t \in to |-> bucket(part[t])]
  BY <1>3, <1>10
<1>15. ASSUME NEW t \in Tags
       PROVE  /\ Owe(s, a, t) = IF t \in Subs(a) THEN a.demand[t] ELSE 0
              /\ Owe(s, b, t) = IF t \in Subs(a) THEN f[t] ELSE 0
  <2>1. a.demand[t] \in Nat /\ a.demand[t] + 0 = a.demand[t] /\ f[t] \in Nat /\ f[t] + 0 = f[t]
    <3> HIDE DEF f
    <3> QED BY <1>1, <1>7, Fields
  <2> HIDE DEF f
  <2> QED BY <1>11, <1>12, <2>1 DEF Owe
<1>16. ASSUME NEW t \in to
       PROVE  /\ r.sent[t] \in Seq(Nat) /\ Owe(s, a, t) > 0
              /\ Owe(s, a, t) = Owe(s, b, t) + Len(r.sent[t])
  <2>1. t \in Subs(a) /\ t \in Tags /\ r.sent[t] = bucket(part[t]) /\ bucket(part[t]) # <<>>
    BY <1>9, <1>14
  <2>2. /\ a.demand[t] \in Nat /\ bucket(part[t]) \in Seq(Nat)
        /\ Len(bucket(part[t])) <= a.demand[t] /\ Len(bucket(part[t])) \in Nat
    BY <1>6, <2>1
  <2>3. Len(bucket(part[t])) > 0
    BY <2>1, <2>2
  <2>4. f[t] = a.demand[t] - Len(bucket(part[t]))
    BY <2>1
  <2>5. Owe(s, a, t) = a.demand[t] /\ Owe(s, b, t) = f[t]
    BY <1>15, <2>1
  <2> HIDE DEF f
  <2>6. a.demand[t] > 0 /\ a.demand[t] = (a.demand[t] - Len(bucket(part[t]))) + Len(bucket(part[t]))
    BY <2>2, <2>3
  <2> QED BY <2>1, <2>2, <2>4, <2>5, <2>6
<1>17. ASSUME NEW t \in Tags \ to PROVE Owe(s, b, t) = Owe(s, a, t)
  <2>1. f[t] = a.demand[t]
    OBVIOUS
  <2> HIDE DEF f
  <2> QED BY <1>15, <2>1
<1>18. DOMAIN r.sent = to
  BY <1>14
<1>19. r.rest \in Seq(Nat)
  BY <1>14
<1> HIDE DEF to, f
<1>20. Pays(s, a, r)
  BY <1>9, <1>11, <1>13, <1>14, <1>16, <1>17, <1>18, <1>19 DEF Pays
<1> QED BY <1>2, <1>20

\* So every dispatcher pays.
LEMMA DispatchPays ==
    ASSUME NEW s, NEW a, Sound(s, a), disp[s] \in Kinds, NEW events \in Seq(Nat),
           part \in [Tags -> Partitions]
    PROVE  Pays(s, a, Dispatch(s, a, events))
<1>1. CASE disp[s] = "demand"
  BY <1>1, DemandPays DEF Dispatch
<1>2. CASE disp[s] = "broadcast"
  BY <1>2, BroadcastPays DEF Dispatch
<1>3. CASE disp[s] = "partition"
  BY <1>3, PartitionPays DEF Dispatch
<1> QED BY <1>1, <1>2, <1>3 DEF Kinds

\* A source with the same subscribers and demands is in order and owes the same.
LEMMA SameDebts ==
    ASSUME NEW s, NEW a, Sound(s, a), NEW b, b \in SourceState, b.subs = a.subs,
           b.demand = a.demand, b.waiting = a.waiting, b.requested = a.requested
    PROVE  Sound(s, b) /\ \A t \in Tags : Owe(s, b, t) = Owe(s, a, t)
<1>1. Subs(b) = Subs(a)
  BY DEF Subs
<1>2. Sound(s, b)
  BY <1>1 DEF Sound
<1>3. \A t \in Tags : Owe(s, b, t) = Owe(s, a, t)
  BY <1>1 DEF Owe
<1> QED BY <1>2, <1>3

\* Buffering owes nobody more or less.
LEMMA Buffering ==
    ASSUME NEW s, NEW a, Sound(s, a), NEW events \in Seq(Nat)
    PROVE  /\ Sound(s, addToBuffer(a, events)) /\ addToBuffer(a, events).subs = a.subs
           /\ \A t \in Tags : Owe(s, addToBuffer(a, events), t) = Owe(s, a, t)
<1>1. a \in SourceState
  BY DEF Sound
<1>2. PICK all : all = a.buffer \o events
  OBVIOUS
<1>3. all \in Seq(Nat) /\ Len(all) \in Nat
  <2>1. a.buffer \in Seq(Nat)
    BY <1>1, Fields
  <2> QED BY <1>2, <2>1, ConcatProperties
<1>4. PICK over : over = Len(all) - Smaller(Len(all), BufferSize)
  OBVIOUS
<1>5. BufferSize \in Nat
  BY StagesAssumption
<1>6. over \in Nat /\ over <= Len(all)
  <2>1. Smaller(Len(all), BufferSize) \in Nat /\ Smaller(Len(all), BufferSize) <= Len(all)
    BY <1>3, <1>5, SmallerIs
  <2> QED BY <1>3, <1>4, <2>1
<1>7. PICK q : q = IF BufferKeep = "last" THEN SubSeq(all, over + 1, Len(all))
                   ELSE SubSeq(all, 1, Len(all) - over)
  OBVIOUS
<1>8. q \in Seq(Nat)
  <2>1. over + 1 \in Nat \ {0} /\ Len(all) - over \in Nat /\ Len(all) - over <= Len(all)
    BY <1>3, <1>6
  <2>2. SubSeq(all, over + 1, Len(all)) \in Seq(Nat)
    BY <1>3, <2>1, PartOf
  <2>3. SubSeq(all, 1, Len(all) - over) \in Seq(Nat)
    BY <1>3, <2>1, PartOf
  <2> QED BY <1>7, <2>2, <2>3
<1>9. PICK n : n = a.dropped + over
  OBVIOUS
<1>10. n \in Nat
  BY <1>1, <1>6, <1>9, Fields
<1>11. addToBuffer(a, events) = [a EXCEPT !.buffer = q, !.dropped = n]
  BY <1>2, <1>4, <1>7, <1>9 DEF addToBuffer
<1>12. PICK b : b = addToBuffer(a, events)
  OBVIOUS
<1>13. b = [a EXCEPT !.buffer = q, !.dropped = n]
  BY <1>11, <1>12
<1>14. /\ b \in SourceState /\ b.subs = a.subs /\ b.demand = a.demand
       /\ b.waiting = a.waiting /\ b.requested = a.requested
  BY <1>1, <1>8, <1>10, <1>13 DEF SourceState
<1>15. Sound(s, b) /\ \A t \in Tags : Owe(s, b, t) = Owe(s, a, t)
  BY <1>14, SameDebts
<1> QED BY <1>12, <1>14, <1>15

(* A result of dispatches that began in the state a: what it has sent is   *)
(* missing from what is owed.                                              *)
Settles(s, a, w) ==
    /\ Sound(s, w.state) /\ w.state.subs = a.subs
    /\ w.out \in [Tags -> Seq(Seq(Nat))]
    /\ \A t \in Tags :
          /\ Owe(s, a, t) = Owe(s, w.state, t) + Len(FlattenSeq(w.out[t]))
          /\ w.out[t] # <<>> => Owe(s, a, t) > 0

\* Nothing sent, nothing changed.
LEMMA SettlesNothing ==
    ASSUME NEW s, NEW a, NEW b, Sound(s, a), Sound(s, b), b.subs = a.subs,
           \A t \in Tags : Owe(s, b, t) = Owe(s, a, t)
    PROVE  Settles(s, a, [state |-> b, out |-> Nothing])
<1>1. PICK w : w = [state |-> b, out |-> Nothing]
  OBVIOUS
<1>2. w.state = b /\ w.out = Nothing
  BY <1>1
<1>3. <<>> \in Seq(Seq(Nat))
  OBVIOUS
<1>4. Nothing \in [Tags -> Seq(Seq(Nat))] /\ \A t \in Tags : Nothing[t] = <<>>
  BY <1>3 DEF Nothing
<1>5. ASSUME NEW t \in Tags
      PROVE  /\ Owe(s, a, t) = Owe(s, b, t) + Len(FlattenSeq(Nothing[t]))
             /\ Nothing[t] # <<>> => Owe(s, a, t) > 0
  <2>1. Owe(s, a, t) \in Nat
    BY OweType DEF Sound
  <2>2. FlattenSeq(Nothing[t]) = <<>> /\ Len(<<>>) = 0
    BY <1>4, FlattenEmpty
  <2> QED BY <1>4, <2>1, <2>2
<1>6. Settles(s, a, w)
  BY <1>2, <1>4, <1>5 DEF Settles
<1> QED BY <1>1, <1>6

\* Another dispatch.
LEMMA SettlesMore ==
    ASSUME NEW s, NEW a, Sound(s, a), NEW w, Settles(s, a, w), NEW r, Pays(s, w.state, r),
           NEW b, Sound(s, b), b.subs = a.subs,
           \A t \in Tags : Owe(s, b, t) = Owe(s, r.state, t)
    PROVE  Settles(s, a, [state |-> b, out |-> Sent(w.out, r)])
<1>1. PICK out : out = Sent(w.out, r)
  OBVIOUS
<1>2. PICK v : v = [state |-> b, out |-> out]
  OBVIOUS
<1>3. v.state = b /\ v.out = out
  BY <1>2
<1>4. \A t \in Tags : out[t] = IF t \in DOMAIN r.sent THEN Append(w.out[t], r.sent[t]) ELSE w.out[t]
  BY <1>1 DEF Sent
<1>5. ASSUME NEW t \in Tags
      PROVE  /\ out[t] \in Seq(Seq(Nat))
             /\ Owe(s, a, t) = Owe(s, b, t) + Len(FlattenSeq(out[t]))
             /\ out[t] # <<>> => Owe(s, a, t) > 0
  <2>1. /\ Owe(s, a, t) \in Nat /\ Owe(s, w.state, t) \in Nat /\ Owe(s, r.state, t) \in Nat
        /\ Owe(s, b, t) = Owe(s, r.state, t)
    BY OweType DEF Sound, Settles, Pays
  <2>2. /\ w.out[t] \in Seq(Seq(Nat))
        /\ Owe(s, a, t) = Owe(s, w.state, t) + Len(FlattenSeq(w.out[t]))
        /\ w.out[t] # <<>> => Owe(s, a, t) > 0
    BY DEF Settles
  <2>3. FlattenSeq(w.out[t]) \in Seq(Nat) /\ Len(FlattenSeq(w.out[t])) \in Nat
    BY <2>2, FlattenType
  <2>4. CASE t \in DOMAIN r.sent
    <3>1. /\ r.sent[t] \in Seq(Nat) /\ Owe(s, w.state, t) > 0
          /\ Owe(s, w.state, t) = Owe(s, r.state, t) + Len(r.sent[t])
      BY <2>4 DEF Pays
    <3>2. PICK x, y : x = w.out[t] /\ y = r.sent[t]
      OBVIOUS
    <3>3. x \in Seq(Seq(Nat)) /\ y \in Seq(Nat) /\ out[t] = Append(x, y)
      BY <1>4, <2>2, <2>4, <3>1, <3>2
    <3>4. out[t] \in Seq(Seq(Nat))
      BY <3>3, AppendProperties
    <3>5. FlattenSeq(out[t]) = FlattenSeq(x) \o y
      BY <3>3, FlattenAppend
    <3>6. Len(FlattenSeq(out[t])) = Len(FlattenSeq(x)) + Len(y)
      BY <2>3, <3>2, <3>3, <3>5, ConcatProperties
    <3>7. Len(y) \in Nat
      BY <3>3
    <3>8. PICK k, m \in Nat : k = Len(FlattenSeq(x)) /\ m = Len(y)
      BY <2>3, <3>2, <3>7
    <3>9. Owe(s, a, t) = (Owe(s, r.state, t) + m) + k /\ Owe(s, w.state, t) > 0
      BY <2>2, <3>1, <3>2, <3>8
    <3>10. Owe(s, a, t) = Owe(s, b, t) + (k + m)
      BY <2>1, <3>9
    <3>11. Owe(s, a, t) > 0
      BY <2>1, <2>2, <3>2, <3>8, <3>9
    <3> QED BY <3>4, <3>6, <3>8, <3>10, <3>11
  <2>5. CASE t \notin DOMAIN r.sent
    <3>1. out[t] = w.out[t]
      BY <1>4, <2>5
    <3>2. Owe(s, r.state, t) = Owe(s, w.state, t)
      BY <2>5 DEF Pays
    <3> QED BY <2>1, <2>2, <3>1, <3>2
  <2> QED BY <2>4, <2>5
<1>6. out \in [Tags -> Seq(Seq(Nat))]
  BY <1>1, <1>5 DEF Sent
<1>7. Settles(s, a, v)
  BY <1>3, <1>5, <1>6 DEF Settles
<1> QED BY <1>1, <1>2, <1>7

\* Events that are dispatched, or buffered.
LEMMA DispatchSettles ==
    ASSUME NEW s, disp[s] \in Kinds, part \in [Tags -> Partitions],
           NEW a, Sound(s, a), NEW w, w = [state |-> w.state, out |-> w.out], Settles(s, a, w),
           NEW events \in Seq(Nat)
    PROVE  Settles(s, a, dispatchOrBuffer(s, w, events))
<1>1. Sound(s, w.state)
  BY DEF Settles
<1>2. CASE w.state.subs = <<>>
  <2>1. PICK b : b = addToBuffer(w.state, events)
    OBVIOUS
  <2>2. /\ Sound(s, b) /\ b.subs = w.state.subs
        /\ \A t \in Tags : Owe(s, b, t) = Owe(s, w.state, t)
    BY <1>1, <2>1, Buffering
  <2>3. PICK v : v = [w EXCEPT !.state = b]
    OBVIOUS
  <2>4. v.state = b /\ v.out = w.out
    BY <2>3
  <2>5. Settles(s, a, v)
    BY <2>2, <2>4 DEF Settles
  <2>6. dispatchOrBuffer(s, w, events) = v
    BY <1>2, <2>1, <2>3 DEF dispatchOrBuffer
  <2> QED BY <2>5, <2>6
<1>3. CASE w.state.subs # <<>>
  <2>1. PICK r : r = Dispatch(s, w.state, events)
    OBVIOUS
  <2>2. Pays(s, w.state, r)
    BY <1>1, <2>1, DispatchPays
  <2>3. PICK b : b = addToBuffer(r.state, r.rest)
    OBVIOUS
  <2>4. Sound(s, r.state) /\ r.rest \in Seq(Nat) /\ r.state.subs = w.state.subs
    BY <2>2 DEF Pays
  <2>5. /\ Sound(s, b) /\ b.subs = r.state.subs
        /\ \A t \in Tags : Owe(s, b, t) = Owe(s, r.state, t)
    BY <2>3, <2>4, Buffering
  <2>6. b.subs = a.subs
    BY <2>4, <2>5 DEF Settles
  <2>7. Settles(s, a, [state |-> b, out |-> Sent(w.out, r)])
    BY <2>2, <2>5, <2>6, SettlesMore
  <2>8. dispatchOrBuffer(s, w, events) = [state |-> b, out |-> Sent(w.out, r)]
    BY <1>3, <2>1, <2>3 DEF dispatchOrBuffer
  <2> QED BY <2>7, <2>8
<1> QED BY <1>2, <1>3

\* The buffer is drained.
LEMMA DrainSettles ==
    ASSUME NEW s, disp[s] \in Kinds, part \in [Tags -> Partitions], NEW a, Sound(s, a)
    PROVE  Settles(s, a, drainBuffer(s, a))
<1>1. a.buffer \in Seq(Nat)
  BY Fields DEF Sound
<1>2. PICK r : r = Dispatch(s, a, a.buffer)
  OBVIOUS
<1>3. Pays(s, a, r)
  BY <1>1, <1>2, DispatchPays
<1>4. Sound(s, r.state) /\ r.rest \in Seq(Nat) /\ r.state.subs = a.subs
  BY <1>3 DEF Pays
<1>5. PICK b : b = [r.state EXCEPT !.buffer = r.rest]
  OBVIOUS
<1>8. /\ Sound(s, b) /\ b.subs = r.state.subs
      /\ \A t \in Tags : Owe(s, b, t) = Owe(s, r.state, t)
  <2>1. PICK c, q : c = r.state /\ q = r.rest
    OBVIOUS
  <2>2. Sound(s, c) /\ c \in SourceState /\ q \in Seq(Nat) /\ b = [c EXCEPT !.buffer = q]
    BY <1>4, <1>5, <2>1 DEF Sound
  <2>3. /\ b \in SourceState /\ b.subs = c.subs /\ b.demand = c.demand
        /\ b.waiting = c.waiting /\ b.requested = c.requested
    BY <2>2 DEF SourceState
  <2>4. Sound(s, b) /\ \A t \in Tags : Owe(s, b, t) = Owe(s, c, t)
    BY <2>2, <2>3, SameDebts
  <2> QED BY <2>1, <2>3, <2>4
<1>9. PICK w : w = [state |-> a, out |-> Nothing]
  OBVIOUS
<1>10. Settles(s, a, w) /\ w.state = a /\ w.out = Nothing
  BY <1>9, SettlesNothing
<1>11. Settles(s, a, [state |-> b, out |-> Sent(Nothing, r)])
  BY <1>3, <1>4, <1>8, <1>10, SettlesMore
<1>12. drainBuffer(s, a) = [state |-> b, out |-> Sent(Nothing, r)]
  BY <1>2, <1>5 DEF drainBuffer
<1> QED BY <1>11, <1>12

\* syncDemands() moves what all subscribers ask for into the waiting demand.
LEMMA SyncOwes ==
    ASSUME NEW s, disp[s] = "broadcast", NEW a, Sound(s, a)
    PROVE  /\ Sound(s, syncDemands(a).state) /\ syncDemands(a).state.subs = a.subs
           /\ syncDemands(a).request \in Nat
           /\ \A t \in Tags : Owe(s, syncDemands(a).state, t) = Owe(s, a, t)
<1>1. a \in SourceState
  BY DEF Sound
<1>2. PICK min : min = Min({a.demand[t] : t \in Subs(a)})
  OBVIOUS
<1>3. PICK waiting : waiting = a.waiting + min
  OBVIOUS
<1>4. PICK request : request = IF waiting > a.requested THEN waiting - a.requested ELSE 0
  OBVIOUS
<1>5. PICK r : r = syncDemands(a)
  OBVIOUS
<1>6. CASE a.subs = <<>> \/ min = 0
  <2>1. r = [state |-> a, request |-> 0]
    BY <1>2, <1>5, <1>6 DEF syncDemands
  <2> QED BY <1>5, <2>1
<1>7. CASE ~(a.subs = <<>> \/ min = 0)
  <2>1. PICK f : f = [t \in Tags |-> IF t \in Subs(a) THEN a.demand[t] - min ELSE a.demand[t]]
    OBVIOUS
  <2>2. r = [state |-> [a EXCEPT !.demand = f, !.waiting = waiting,
                                 !.requested = a.requested + request],
             request |-> request]
    BY <1>2, <1>3, <1>4, <1>5, <1>7, <2>1 DEF syncDemands
  <2>3. PICK S : S = {a.demand[t] : t \in Subs(a)}
    OBVIOUS
  <2>4. S \in SUBSET Nat /\ S # {}
    <3>1. \A t \in Subs(a) : a.demand[t] \in Nat
      BY <1>1, Fields
    <3>2. 1 \in DOMAIN a.subs
      BY <1>1, <1>7, Fields
    <3>3. a.subs[1] \in Subs(a)
      BY <3>2 DEF Subs, ToSet
    <3> QED BY <2>3, <3>1, <3>3
  <2>5. min \in Nat /\ \A t \in Subs(a) : min <= a.demand[t]
    BY <1>2, <2>3, <2>4, MinIsLeast
  <2>6. a.waiting \in Nat /\ a.requested \in Nat
    BY <1>1, Fields
  <2>7. PICK y : y = a.requested + request
    OBVIOUS
  <2>8. waiting \in Nat /\ request \in Nat /\ y \in Nat /\ waiting <= y
    BY <1>3, <1>4, <2>5, <2>6, <2>7
  <2>9. f \in [Tags -> Nat]
    <3>1. ASSUME NEW t \in Tags
          PROVE  (IF t \in Subs(a) THEN a.demand[t] - min ELSE a.demand[t]) \in Nat
      <4>1. a.demand[t] \in Nat
        BY <1>1, Fields
      <4> QED BY <2>5, <4>1
    <3> QED BY <2>1, <3>1
  <2>10. PICK b : b = [a EXCEPT !.demand = f, !.waiting = waiting, !.requested = y]
    OBVIOUS
  <2>11. /\ b \in SourceState /\ b.subs = a.subs /\ b.demand = f
         /\ b.waiting = waiting /\ b.requested = y
    BY <1>1, <2>8, <2>9, <2>10 DEF SourceState
  <2>12. Subs(b) = Subs(a)
    BY <2>11 DEF Subs
  <2>13. Sound(s, b)
    BY <2>8, <2>11, <2>12 DEF Sound
  <2>14. ASSUME NEW t \in Tags PROVE Owe(s, b, t) = Owe(s, a, t)
    <3>1. CASE t \in Subs(a)
      <4>1. a.demand[t] \in Nat
        BY <1>1, Fields
      <4>2. f[t] = a.demand[t] - min
        BY <2>1, <3>1
      <4>3. Owe(s, b, t) = f[t] + waiting
        BY <2>11, <2>12, <3>1 DEF Owe
      <4>4. Owe(s, a, t) = a.demand[t] + a.waiting
        BY <3>1 DEF Owe
      <4>5. (a.demand[t] - min) + (a.waiting + min) = a.demand[t] + a.waiting
        BY <2>5, <2>6, <4>1
      <4> QED BY <1>3, <4>2, <4>3, <4>4, <4>5
    <3>2. CASE t \notin Subs(a)
      BY <2>12, <3>2 DEF Owe
    <3> QED BY <3>1, <3>2
  <2>15. r.state = b /\ r.request = request
    BY <2>2, <2>7, <2>10
  <2> QED BY <1>5, <2>8, <2>11, <2>13, <2>14, <2>15
<1> QED BY <1>6, <1>7

\* An ask is owed to the subscriber that made it.
LEMMA AskOwes ==
    ASSUME NEW s, disp[s] \in Kinds, NEW a, Sound(s, a), NEW t \in Tags, NEW d \in Nat
    PROVE  /\ Sound(s, Ask(s, a, t, d).state) /\ Ask(s, a, t, d).state.subs = a.subs
           /\ Ask(s, a, t, d).request \in Nat
           /\ \A u \in Tags : Owe(s, Ask(s, a, t, d).state, u)
                 = Owe(s, a, u) + (IF u = t /\ t \in Subs(a) THEN d ELSE 0)
<1>1. a \in SourceState
  BY DEF Sound
<1>2. PICK r : r = Ask(s, a, t, d)
  OBVIOUS
<1>3. PICK more : more = IF t \in Subs(a) THEN [a EXCEPT !.demand[t] = a.demand[t] + d] ELSE a
  OBVIOUS
<1>4. \A u \in Tags : Owe(s, a, u) \in Nat
  BY <1>1, OweType
<1>5. /\ Sound(s, more) /\ more.subs = a.subs /\ Subs(more) = Subs(a)
      /\ \A u \in Tags : Owe(s, more, u) = Owe(s, a, u) + (IF u = t /\ t \in Subs(a) THEN d ELSE 0)
  <2>1. CASE t \notin Subs(a)
    BY <1>3, <1>4, <2>1
  <2>2. CASE t \in Subs(a)
    <3>1. PICK f : f = [a.demand EXCEPT ![t] = a.demand[t] + d]
      OBVIOUS
    <3>2. a.demand \in [Tags -> Nat] /\ a.demand[t] \in Nat /\ a.waiting \in Nat
      BY <1>1, Fields
    <3>3. f \in [Tags -> Nat]
      BY <3>1, <3>2
    <3>4. more = [a EXCEPT !.demand = f]
      BY <1>1, <1>3, <2>2, <3>1 DEF SourceState
    <3>5. /\ Sound(s, more) /\ more.subs = a.subs /\ Subs(more) = Subs(a)
          /\ more.demand = f /\ more.waiting = a.waiting
      BY <3>3, <3>4, NewDemand
    <3>6. ASSUME NEW u \in Tags
          PROVE  Owe(s, more, u) = Owe(s, a, u) + (IF u = t /\ t \in Subs(a) THEN d ELSE 0)
      <4>1. CASE u = t
        <5>1. f[u] = a.demand[t] + d
          BY <3>1, <3>2, <4>1
        <5>2. PICK x \in Nat : x = IF disp[s] = "broadcast" THEN a.waiting ELSE 0
          BY <3>2
        <5>3. Owe(s, more, u) = f[u] + x /\ Owe(s, a, u) = a.demand[t] + x
          BY <2>2, <3>5, <4>1, <5>2 DEF Owe
        <5>4. (a.demand[t] + d) + x = (a.demand[t] + x) + d
          BY <3>2
        <5> QED BY <2>2, <4>1, <5>1, <5>3, <5>4
      <4>2. CASE u # t
        <5>1. f[u] = a.demand[u]
          BY <3>1, <3>2, <4>2
        <5>2. Owe(s, more, u) = Owe(s, a, u)
          BY <3>5, <5>1 DEF Owe
        <5> QED BY <1>4, <4>2, <5>2
      <4> QED BY <4>1, <4>2
    <3> QED BY <3>5, <3>6
  <2> QED BY <2>1, <2>2
<1>6. CASE disp[s] = "demand"
  <2>1. r = [state |-> more, request |-> Demand(more, Subs(more))]
    BY <1>2, <1>3, <1>6 DEF Ask
  <2>2. Demand(more, Subs(more)) \in Nat
    <3>1. more \in SourceState
      BY <1>5 DEF Sound
    <3> QED BY <3>1, Fields, DemandType
  <2> QED BY <1>2, <1>5, <2>1, <2>2
<1>7. CASE disp[s] = "broadcast"
  <2>1. CASE t \in Subs(a)
    <3>1. r = syncDemands(more)
      BY <1>2, <1>3, <1>7, <2>1 DEF Ask
    <3>2. /\ Sound(s, r.state) /\ r.state.subs = more.subs /\ r.request \in Nat
          /\ \A u \in Tags : Owe(s, r.state, u) = Owe(s, more, u)
      BY <1>5, <1>7, <3>1, SyncOwes
    <3> QED BY <1>2, <1>5, <3>2
  <2>2. CASE t \notin Subs(a)
    <3>1. r = [state |-> a, request |-> 0]
      BY <1>2, <1>7, <2>2 DEF Ask
    <3>2. more = a
      BY <1>3, <2>2
    <3> QED BY <1>2, <1>5, <3>1, <3>2
  <2> QED BY <2>1, <2>2
<1>8. CASE disp[s] = "partition"
  <2>1. r = [state |-> more, request |-> IF t \in Subs(a) THEN d ELSE 0]
    BY <1>2, <1>3, <1>8 DEF Ask
  <2> QED BY <1>2, <1>5, <2>1
<1> QED BY <1>6, <1>7, <1>8 DEF Kinds

\* A new subscriber is owed nothing, and the others what they were owed.
LEMMA SubscribeOwes ==
    ASSUME NEW s, disp[s] \in Kinds, NEW a, Sound(s, a), NEW t \in Tags, Up[t] = s, t \notin Subs(a),
           disp[s] = "partition" => Entry(a, part[t]) = {}
    PROVE  /\ Sound(s, Subscribe(s, a, t)) /\ Subs(Subscribe(s, a, t)) = Subs(a) \cup {t}
           /\ \A u \in Tags : Owe(s, Subscribe(s, a, t), u) = Owe(s, a, u)
<1>1. a \in SourceState
  BY DEF Sound
<1>2. PICK f : f = [u \in Tags |-> IF u = t THEN 0
                        ELSE IF disp[s] = "broadcast" /\ u \in Subs(a)
                        THEN a.demand[u] + a.waiting ELSE a.demand[u]]
  OBVIOUS
<1>3. PICK x : x = IF disp[s] = "broadcast" THEN 0 ELSE a.waiting
  OBVIOUS
<1>4. PICK q : q = Append(a.subs, t)
  OBVIOUS
<1>5. PICK b : b = [a EXCEPT !.subs = q, !.demand = f, !.waiting = x]
  OBVIOUS
<1>6. Subscribe(s, a, t) = b
  BY <1>2, <1>3, <1>4, <1>5 DEF Subscribe
<1>7. a.waiting \in Nat /\ a.subs \in Seq(Tags) /\ \A u \in Tags : a.demand[u] \in Nat
  BY <1>1, Fields
<1>8. f \in [Tags -> Nat]
  BY <1>2, <1>7
<1>9. x \in Nat /\ x <= a.requested
  <2>1. a.waiting <= a.requested /\ a.requested \in Nat
    BY <1>1, Fields DEF Sound
  <2> QED BY <1>3, <1>7, <2>1
<1>10. q \in Seq(Tags) /\ ToSet(q) = ToSet(a.subs) \cup {t}
  <2>1. /\ q \in Seq(Tags) /\ Len(q) = Len(a.subs) + 1 /\ q[Len(a.subs) + 1] = t
        /\ \A i \in 1..Len(a.subs) : q[i] = a.subs[i]
    BY <1>4, <1>7, AppendProperties
  <2>2. PICK n \in Nat : n = Len(a.subs) /\ DOMAIN a.subs = 1..n
    BY <1>7, LenProperties
  <2>3. DOMAIN q = 1..n + 1
    BY <2>1, <2>2, LenProperties
  <2>4. 1..n + 1 = (1..n) \cup {n + 1}
    BY <2>2
  <2> QED BY <2>1, <2>2, <2>3, <2>4 DEF ToSet
<1>11. /\ b \in SourceState /\ b.subs = q /\ b.demand = f
       /\ b.waiting = x /\ b.requested = a.requested
  BY <1>1, <1>5, <1>8, <1>9, <1>10 DEF SourceState
<1>12. Subs(b) = Subs(a) \cup {t}
  BY <1>10, <1>11 DEF Subs
<1>13. Sound(s, b)
  <2>1. \A u \in Subs(b) : Up[u] = s
    BY <1>12 DEF Sound
  <2>2. ASSUME disp[s] = "partition", NEW u \in Subs(b), NEW v \in Subs(b), part[u] = part[v]
        PROVE  u = v
    <3>1. \A w \in Subs(a) : part[w] # part[t]
      BY <2>2 DEF Entry
    <3> QED BY <1>12, <2>2, <3>1 DEF Sound
  <2> QED BY <1>9, <1>11, <2>1, <2>2 DEF Sound
<1>14. ASSUME NEW u \in Tags PROVE Owe(s, b, u) = Owe(s, a, u)
  <2>1. CASE u = t
    <3>1. f[u] = 0
      BY <1>2, <2>1
    <3>2. Owe(s, b, u) = f[u] + (IF disp[s] = "broadcast" THEN x ELSE 0)
      BY <1>11, <1>12, <2>1 DEF Owe
    <3>3. Owe(s, a, u) = 0
      BY <2>1 DEF Owe
    <3> QED BY <1>3, <3>1, <3>2, <3>3
  <2>2. CASE u # t /\ u \in Subs(a)
    <3>1. f[u] = IF disp[s] = "broadcast" THEN a.demand[u] + a.waiting ELSE a.demand[u]
      BY <1>2, <2>2
    <3>2. Owe(s, b, u) = f[u] + (IF disp[s] = "broadcast" THEN x ELSE 0)
      BY <1>11, <1>12, <2>2 DEF Owe
    <3>3. Owe(s, a, u) = a.demand[u] + (IF disp[s] = "broadcast" THEN a.waiting ELSE 0)
      BY <2>2 DEF Owe
    <3> QED BY <1>3, <1>7, <3>1, <3>2, <3>3
  <2>3. CASE u # t /\ u \notin Subs(a)
    BY <1>12, <2>3 DEF Owe
  <2> QED BY <2>1, <2>2, <2>3
<1> QED BY <1>6, <1>12, <1>13, <1>14

\* A subscriber that has left is owed nothing, and the others what they were owed.
LEMMA CancelOwes ==
    ASSUME NEW s, NEW a, Sound(s, a), NEW t \in Tags
    PROVE  /\ Sound(s, Cancel(s, a, t)) /\ Subs(Cancel(s, a, t)) = Subs(a) \ {t}
           /\ \A u \in Tags : Owe(s, Cancel(s, a, t), u) = IF u = t THEN 0 ELSE Owe(s, a, u)
<1>1. a \in SourceState
  BY DEF Sound
<1>2. PICK q, f : q = Only(a.subs, Tags \ {t}) /\ f = [a.demand EXCEPT ![t] = 0]
  OBVIOUS
<1>3. PICK gone : gone = [a EXCEPT !.subs = q, !.demand = f]
  OBVIOUS
<1>4. a.subs \in Seq(Tags) /\ a.demand \in [Tags -> Nat] /\ Subs(a) \subseteq Tags
  BY <1>1, Fields
<1>5. q \in Seq(Tags) /\ ToSet(q) = ToSet(a.subs) \cap (Tags \ {t})
  BY <1>2, <1>4, OnlySet
<1>6. f \in [Tags -> Nat] /\ \A u \in Tags : u # t => f[u] = a.demand[u]
  BY <1>2, <1>4
<1>7. /\ gone \in SourceState /\ gone.subs = q /\ gone.demand = f
      /\ gone.waiting = a.waiting /\ gone.requested = a.requested
  BY <1>1, <1>3, <1>5, <1>6 DEF SourceState
<1>8. Subs(gone) = Subs(a) \ {t}
  BY <1>4, <1>5, <1>7 DEF Subs
<1>9. Sound(s, gone)
  BY <1>7, <1>8 DEF Sound
<1>10. ASSUME NEW u \in Tags PROVE Owe(s, gone, u) = IF u = t THEN 0 ELSE Owe(s, a, u)
  BY <1>6, <1>7, <1>8 DEF Owe
<1>11. gone = [a EXCEPT !.subs = Only(a.subs, Tags \ {t}), !.demand[t] = 0]
  BY <1>1, <1>2, <1>3 DEF SourceState
<1>12. PICK c : c = Cancel(s, a, t)
  OBVIOUS
<1>13. CASE disp[s] # "broadcast"
  <2>1. c = gone
    BY <1>11, <1>12, <1>13 DEF Cancel
  <2> QED BY <1>8, <1>9, <1>10, <1>12, <2>1
<1>14. CASE disp[s] = "broadcast" /\ q = <<>>
  <2>1. c = [gone EXCEPT !.waiting = 0, !.requested = 0]
    BY <1>7, <1>11, <1>12, <1>14 DEF Cancel
  <2>2. /\ c \in SourceState /\ c.subs = q /\ c.demand = f /\ c.waiting = 0 /\ c.requested = 0
    BY <1>7, <2>1 DEF SourceState
  <2>3. Subs(c) = {} /\ Subs(gone) = {}
    BY <1>7, <1>14, <2>2 DEF Subs, ToSet
  <2>4. Sound(s, c)
    BY <2>2, <2>3 DEF Sound
  <2>5. \A u \in Tags : Owe(s, c, u) = Owe(s, gone, u)
    BY <2>3 DEF Owe
  <2> QED BY <1>8, <1>10, <1>12, <2>3, <2>4, <2>5
<1>15. CASE disp[s] = "broadcast" /\ q # <<>>
  <2>1. c = syncDemands(gone).state
    BY <1>7, <1>11, <1>12, <1>15 DEF Cancel
  <2>2. Sound(s, c) /\ c.subs = gone.subs /\ \A u \in Tags : Owe(s, c, u) = Owe(s, gone, u)
    BY <1>9, <1>15, <2>1, SyncOwes
  <2>3. Subs(c) = Subs(gone)
    BY <2>2 DEF Subs
  <2> QED BY <1>8, <1>10, <1>12, <2>2, <2>3
<1> QED BY <1>13, <1>14, <1>15

----------------------------------------------------------------------------
(* The invariant *)

\* t is among the subscribers of its source.
Listed(t) == t \in Subs(src[Up[t]])

\* What its source owes t.
Owing(t) == Owe(Up[t], src[Up[t]], t)

\* What t has asked for and has not been delivered.
Have(t) == Asked(t) + Owing(t) + Len(InFlight(t))

Typed ==
    /\ disp \in [Sources -> Kinds] /\ part \in [Tags -> Partitions] /\ willing \in BOOLEAN
    /\ src \in [Sources -> SourceState] /\ \A s \in Sources : Sound(s, src[s])
    /\ next \in [Producers -> Nat]
    /\ \A s \in Producers : next[s] <= Events(s)
    /\ pending \in [Tags -> Nat] /\ asks \in [Tags -> Seq(Nat)]
    /\ batches \in [Tags -> Seq(Seq(Nat))] /\ taken \in [Tags -> Seq(Nat)]
    /\ released \in [Tags -> Nat] /\ workers \in [Tags -> Nat]
    /\ respawned \in [Tags -> Nat] /\ downs \in [Tags -> Nat] /\ crashes \in Nat

(* The stations of a subscription: it is made, its call is under way, its  *)
(* timer is set, and it is listed by its source until a cancel arrives.    *)
Placed ==
    /\ made \subseteq Tags
    /\ calling \subseteq made /\ deferred \subseteq made /\ active \subseteq made
    /\ cancelling \subseteq made
    /\ cancelling \cap active = {} /\ calling \cap deferred = {}
    /\ \A t \in Tags : Listed(t) => t \in made \ calling
    /\ \A t \in deferred \cap active : Listed(t)

\* A subscription that has not asked for anything yet, or never will.
Fresh(t) ==
    \/ t \notin made \/ t \in calling \/ t \in deferred
    \/ t \in active /\ ~Listed(t)

Untouched(t) ==
    /\ pending[t] = 0 /\ asks[t] = <<>> /\ batches[t] = <<>> /\ Owing(t) = 0
    /\ released[t] = 0 /\ workers[t] = 0 /\ respawned[t] = 0 /\ downs[t] = 0

(* What an active subscription counts as pending is what it has asked for  *)
(* and not been delivered; with the slots its workers hold, or will        *)
(* release, that is never more than maxDemand.                             *)
Accounts(t) ==
    /\ Fresh(t) => Untouched(t)
    /\ t \in active =>
          /\ pending[t] = Have(t)
          /\ pending[t] + released[t] + workers[t] + respawned[t] + downs[t] <= MaxDemand
    /\ Have(t) + workers[t] + respawned[t] <= MaxDemand
    /\ Down[t] \notin Supervisors =>
          released[t] = 0 /\ workers[t] = 0 /\ respawned[t] = 0 /\ downs[t] = 0

DemandInv == Typed /\ Placed /\ \A t \in Tags : Accounts(t)

\* The types of what is counted for a subscription.
LEMMA Counts ==
    ASSUME Typed, NEW t \in Tags
    PROVE  /\ Up[t] \in Sources /\ Sound(Up[t], src[Up[t]]) /\ disp[Up[t]] \in Kinds
           /\ Asked(t) \in Nat /\ Owing(t) \in Nat
           /\ InFlight(t) \in Seq(Nat) /\ Len(InFlight(t)) \in Nat /\ Have(t) \in Nat
           /\ pending[t] \in Nat /\ asks[t] \in Seq(Nat) /\ batches[t] \in Seq(Seq(Nat))
           /\ released[t] \in Nat /\ workers[t] \in Nat /\ respawned[t] \in Nat /\ downs[t] \in Nat
           /\ MaxDemand \in Nat
<1>1. Up[t] \in Sources /\ MaxDemand \in Nat
  BY StagesAssumption
<1>2. Sound(Up[t], src[Up[t]]) /\ disp[Up[t]] \in Kinds
  BY <1>1 DEF Typed
<1>3. asks[t] \in Seq(Nat) /\ batches[t] \in Seq(Seq(Nat))
  BY DEF Typed
<1>4. Asked(t) \in Nat
  BY <1>3, TotalType DEF Asked
<1>5. Owing(t) \in Nat
  BY <1>2, OweType DEF Owing, Sound
<1>6. InFlight(t) \in Seq(Nat)
  BY <1>3, FlattenType DEF InFlight
<1>7. Len(InFlight(t)) \in Nat
  BY <1>6
<1>8. Have(t) \in Nat
  BY <1>4, <1>5, <1>7 DEF Have
<1> QED BY <1>1, <1>2, <1>3, <1>4, <1>5, <1>6, <1>7, <1>8 DEF Typed

\* Counts that stay do not grow.
LEMMA SameCounts ==
    ASSUME Typed, NEW t \in Tags
    PROVE  /\ released[t] <= released[t] /\ workers[t] <= workers[t]
           /\ respawned[t] <= respawned[t] /\ downs[t] <= downs[t]
<1>1. PICK r, w, e, d \in Nat : r = released[t] /\ w = workers[t] /\ e = respawned[t] /\ d = downs[t]
  BY Counts
<1>2. r <= r /\ w <= w /\ e <= e /\ d <= d
  OBVIOUS
<1> QED BY <1>1, <1>2

\* The same after a step.
LEMMA CountsNext ==
    ASSUME Typed', NEW t \in Tags
    PROVE  /\ Asked(t)' \in Nat /\ Owing(t)' \in Nat
           /\ InFlight(t)' \in Seq(Nat) /\ Len(InFlight(t)') \in Nat /\ Have(t)' \in Nat
           /\ pending'[t] \in Nat /\ released'[t] \in Nat /\ workers'[t] \in Nat
           /\ respawned'[t] \in Nat /\ downs'[t] \in Nat
<1>1. Up[t] \in Sources
  BY StagesAssumption
<1>2. src'[Up[t]] \in SourceState
  BY <1>1 DEF Typed
<1>3. asks'[t] \in Seq(Nat) /\ batches'[t] \in Seq(Seq(Nat))
  BY DEF Typed
<1>4. Total(asks'[t]) \in Nat /\ FlattenSeq(batches'[t]) \in Seq(Nat)
  BY <1>3, TotalType, FlattenType
<1>5. Asked(t)' = Total(asks'[t]) /\ InFlight(t)' = FlattenSeq(batches'[t])
  BY DEF Asked, InFlight
<1>6. Owing(t)' \in Nat
  BY <1>2, Fields DEF Owing, Owe, Subs
<1>7. Len(InFlight(t)') \in Nat
  BY <1>4, <1>5
<1>8. Have(t)' = Asked(t)' + Owing(t)' + Len(InFlight(t)')
  BY DEF Have
<1> QED BY <1>4, <1>5, <1>6, <1>7, <1>8 DEF Typed

\* A subscription that is untouched after a step is accounted for.
LEMMA UntouchedAccountsNext ==
    ASSUME Typed', NEW t \in Tags, Untouched(t)'
    PROVE  Accounts(t)'
<1>1. Asked(t)' = 0 /\ InFlight(t)' = <<>>
  BY TotalEmpty, FlattenEmpty DEF Untouched, Asked, InFlight
<1>2. Have(t)' = Asked(t)' + Owing(t)' + Len(InFlight(t)') /\ Owing(t)' = 0
  BY DEF Have, Untouched
<1>3. Len(<<>>) = 0
  OBVIOUS
<1>4. Have(t)' = 0
  BY <1>1, <1>2, <1>3
<1>5. MaxDemand \in Nat
  BY StagesAssumption
<1> QED BY <1>4, <1>5 DEF Accounts, Untouched

\* A subscription that is untouched is accounted for.
LEMMA UntouchedAccounts ==
    ASSUME Typed, NEW t \in Tags, Untouched(t)
    PROVE  Accounts(t)
<1>1. Asked(t) = 0 /\ InFlight(t) = <<>>
  BY TotalEmpty, FlattenEmpty DEF Untouched, Asked, InFlight
<1>2. Have(t) = Asked(t) + Owing(t) + Len(InFlight(t)) /\ Owing(t) = 0
  BY DEF Have, Untouched
<1>3. Len(<<>>) = 0
  OBVIOUS
<1>4. Have(t) = 0
  BY <1>1, <1>2, <1>3
<1>5. MaxDemand \in Nat
  BY StagesAssumption
<1> QED BY <1>4, <1>5 DEF Accounts, Untouched

\* A step that changes nothing for a subscription but what is on its way.
LEMMA AccountsKept ==
    ASSUME Typed, Typed', NEW t \in Tags, Accounts(t),
           Fresh(t)' => Fresh(t), Untouched(t) => Untouched(t)',
           t \in active' => t \in active,
           pending'[t] = pending[t], Have(t)' <= Have(t), t \in active' => Have(t)' = Have(t),
           released'[t] <= released[t], workers'[t] <= workers[t],
           respawned'[t] <= respawned[t], downs'[t] <= downs[t]
    PROVE  Accounts(t)'
<1>1. /\ Have(t) \in Nat /\ pending[t] \in Nat /\ MaxDemand \in Nat
      /\ released[t] \in Nat /\ workers[t] \in Nat /\ respawned[t] \in Nat /\ downs[t] \in Nat
  BY Counts
<1>2. /\ Have(t)' \in Nat /\ released'[t] \in Nat /\ workers'[t] \in Nat
      /\ respawned'[t] \in Nat /\ downs'[t] \in Nat
  BY CountsNext
<1>3. Fresh(t)' => Untouched(t)'
  BY DEF Accounts
<1>4. t \in active' =>
        /\ pending'[t] = Have(t)'
        /\ pending'[t] + released'[t] + workers'[t] + respawned'[t] + downs'[t] <= MaxDemand
  <2> SUFFICES ASSUME t \in active'
               PROVE  /\ pending'[t] = Have(t)'
                      /\ pending'[t] + released'[t] + workers'[t] + respawned'[t] + downs'[t] <= MaxDemand
    OBVIOUS
  <2>1. /\ pending[t] = Have(t) /\ Have(t)' = Have(t)
        /\ pending[t] + released[t] + workers[t] + respawned[t] + downs[t] <= MaxDemand
    BY DEF Accounts
  <2> QED BY <1>1, <1>2, <2>1
<1>5. Have(t)' + workers'[t] + respawned'[t] <= MaxDemand
  <2>1. Have(t) + workers[t] + respawned[t] <= MaxDemand
    BY DEF Accounts
  <2> QED BY <1>1, <1>2, <2>1
<1>6. Down[t] \notin Supervisors =>
         released'[t] = 0 /\ workers'[t] = 0 /\ respawned'[t] = 0 /\ downs'[t] = 0
  <2>1. Down[t] \notin Supervisors =>
           released[t] = 0 /\ workers[t] = 0 /\ respawned[t] = 0 /\ downs[t] = 0
    BY DEF Accounts
  <2> QED BY <1>1, <1>2, <2>1
<1> QED BY <1>3, <1>4, <1>5, <1>6 DEF Accounts

(* A step in which s sends batches on: what it sends is missing from what  *)
(* it owes.  B is what was under way when the dispatches began, which was  *)
(* in the state a.                                                         *)
Sends(s, a, B) ==
    /\ src' \in [Sources -> SourceState] /\ \A z \in Sources : Sound(z, src[z])'
    /\ batches' \in [Tags -> Seq(Seq(Nat))]
    /\ \A u \in Tags :
         /\ Listed(u)' = IF Up[u] = s THEN u \in Subs(a) ELSE Listed(u)
         /\ Owing(u)' + Len(InFlight(u)') = Len(FlattenSeq(B[u])) +
               IF Up[u] = s THEN Owe(s, a, u) ELSE Owing(u)
         /\ Up[u] = s /\ Owe(s, a, u) = 0 => Owing(u)' = 0 /\ batches'[u] = B[u]
         /\ Up[u] # s => Owing(u)' = Owing(u) /\ batches'[u] = B[u]

\* Dispatches send what they have settled.
LEMMA EmitEffect ==
    ASSUME Typed, UNCHANGED <<disp, part>>,
           NEW s \in Sources, NEW a, Sound(s, a), NEW w, Settles(s, a, w),
           NEW B \in [Tags -> Seq(Seq(Nat))],
           src' = [src EXCEPT ![s] = w.state],
           batches' = [t \in Tags |-> B[t] \o w.out[t]]
    PROVE  Sends(s, a, B)
<1>1. Sound(s, w.state) /\ w.state.subs = a.subs /\ w.out \in [Tags -> Seq(Seq(Nat))]
  BY DEF Settles
<1>2. src \in [Sources -> SourceState]
  BY DEF Typed
<1>3. src'[s] = w.state /\ \A z \in Sources : z # s => src'[z] = src[z]
  BY <1>2
<1>4. src' \in [Sources -> SourceState]
  BY <1>1, <1>2 DEF Sound
<1>5. ASSUME NEW z \in Sources PROVE Sound(z, src[z])'
  <2>1. Sound(z, src'[z])
    BY <1>1, <1>3 DEF Typed
  <2> QED BY <2>1 DEF Sound, SourceState, Subs
<1>6. ASSUME NEW u \in Tags
      PROVE  /\ B[u] \in Seq(Seq(Nat)) /\ w.out[u] \in Seq(Seq(Nat))
             /\ batches'[u] = B[u] \o w.out[u]
             /\ FlattenSeq(B[u]) \in Seq(Nat) /\ FlattenSeq(w.out[u]) \in Seq(Nat)
             /\ Len(InFlight(u)') = Len(FlattenSeq(B[u])) + Len(FlattenSeq(w.out[u]))
  <2>1. B[u] \in Seq(Seq(Nat)) /\ w.out[u] \in Seq(Seq(Nat)) /\ batches'[u] = B[u] \o w.out[u]
    BY <1>1
  <2>2. FlattenSeq(B[u]) \in Seq(Nat) /\ FlattenSeq(w.out[u]) \in Seq(Nat)
    BY <2>1, FlattenType
  <2>3. FlattenSeq(batches'[u]) = FlattenSeq(B[u]) \o FlattenSeq(w.out[u])
    BY <2>1, FlattenConcat
  <2>4. InFlight(u)' = FlattenSeq(batches'[u])
    BY DEF InFlight
  <2>5. PICK x, y : x = FlattenSeq(B[u]) /\ y = FlattenSeq(w.out[u])
    OBVIOUS
  <2>6. Len(x \o y) = Len(x) + Len(y)
    BY <2>2, <2>5, ConcatProperties
  <2> QED BY <2>1, <2>2, <2>3, <2>4, <2>5, <2>6
<1>7. batches' \in [Tags -> Seq(Seq(Nat))]
  <2>1. ASSUME NEW u \in Tags PROVE B[u] \o w.out[u] \in Seq(Seq(Nat))
    BY <1>6, ConcatProperties
  <2> QED BY <2>1
<1>8. ASSUME NEW u \in Tags
      PROVE  /\ Listed(u)' = IF Up[u] = s THEN u \in Subs(a) ELSE Listed(u)
             /\ Owing(u)' + Len(InFlight(u)') = Len(FlattenSeq(B[u])) +
                   IF Up[u] = s THEN Owe(s, a, u) ELSE Owing(u)
             /\ Up[u] = s /\ Owe(s, a, u) = 0 => Owing(u)' = 0 /\ batches'[u] = B[u]
             /\ Up[u] # s => Owing(u)' = Owing(u) /\ batches'[u] = B[u]
  <2>1. Up[u] \in Sources
    BY StagesAssumption
  <2>2. /\ Owe(s, a, u) = Owe(s, w.state, u) + Len(FlattenSeq(w.out[u]))
        /\ w.out[u] # <<>> => Owe(s, a, u) > 0
    BY DEF Settles
  <2>3. Owe(s, w.state, u) \in Nat /\ Owe(s, a, u) \in Nat /\ Owing(u) \in Nat
    BY <1>1, Counts, OweType DEF Sound
  <2>4. Len(FlattenSeq(B[u])) \in Nat /\ Len(FlattenSeq(w.out[u])) \in Nat
    BY <1>6
  <2>5. w.out[u] = <<>> => batches'[u] = B[u] /\ Len(FlattenSeq(w.out[u])) = 0
    <3>1. B[u] \o <<>> = B[u]
      BY <1>6, ConcatEmptySeq
    <3>2. Len(<<>>) = 0
      OBVIOUS
    <3> QED BY <1>6, <3>1, <3>2, FlattenEmpty
  <2>6. CASE Up[u] = s
    <3>1. Listed(u)' = (u \in Subs(a))
      BY <1>1, <1>3, <2>6 DEF Listed, Subs
    <3>2. Owing(u)' = Owe(s, w.state, u)
      BY <1>3, <2>6 DEF Owing, Owe, Subs
    <3>3. Owing(u)' + Len(InFlight(u)') = Len(FlattenSeq(B[u])) + Owe(s, a, u)
      <4>1. PICK x, y, z \in Nat : /\ x = Owe(s, w.state, u) /\ y = Len(FlattenSeq(w.out[u]))
                                   /\ z = Len(FlattenSeq(B[u]))
        BY <2>3, <2>4
      <4>2. Owe(s, a, u) = x + y /\ Len(InFlight(u)') = z + y /\ Owing(u)' = x
        BY <1>6, <2>2, <3>2, <4>1
      <4>3. x + (z + y) = z + (x + y)
        OBVIOUS
      <4> QED BY <4>1, <4>2, <4>3
    <3>4. Owe(s, a, u) = 0 => w.out[u] = <<>> /\ Owing(u)' = 0
      BY <2>2, <2>3, <2>4, <3>2
    <3> QED BY <2>5, <2>6, <3>1, <3>3, <3>4
  <2>7. CASE Up[u] # s
    <3>1. src'[Up[u]] = src[Up[u]]
      BY <1>3, <2>1, <2>7
    <3>2. Listed(u)' = Listed(u) /\ Owing(u)' = Owing(u)
      BY <3>1 DEF Listed, Owing, Owe, Subs
    <3>3. u \notin Subs(a)
      BY <2>7 DEF Sound
    <3>4. Owe(s, a, u) = 0
      BY <3>3 DEF Owe
    <3>5. w.out[u] = <<>>
      BY <2>2, <3>4
    <3>6. Len(InFlight(u)') = Len(FlattenSeq(B[u]))
      BY <1>6, <2>4, <2>5, <3>5
    <3> QED BY <2>3, <2>4, <2>5, <2>7, <3>2, <3>5, <3>6
  <2> QED BY <2>6, <2>7
<1> QED BY <1>4, <1>5, <1>7, <1>8 DEF Sends

\* The bound on a producer's events does not change.
LEMMA EventsKept ==
    ASSUME UNCHANGED setup, NEW s
    PROVE  Events(s)' = Events(s)
<1>1. disp' = disp /\ willing' = willing
  BY DEF setup
<1> QED BY <1>1, Zenon DEF Events

\* Sources that do not change owe what they owed.
LEMMA SourceKept ==
    ASSUME Typed, UNCHANGED <<setup, src, next>>
    PROVE  /\ \A s \in Sources : Sound(s, src[s])'
           /\ \A s \in Producers : next'[s] <= Events(s)'
           /\ \A t \in Tags : Listed(t)' = Listed(t) /\ Owing(t)' = Owing(t)
<1>1. disp' = disp /\ part' = part /\ src' = src /\ next' = next
  BY DEF setup
<1>2. \A s \in Sources : Sound(s, src[s])
  BY DEF Typed
<1>3. ASSUME NEW s \in Sources PROVE Sound(s, src[s])'
  BY <1>1, <1>2, <1>3 DEF Sound, Subs, SourceState
<1>4. ASSUME NEW s \in Producers PROVE next'[s] <= Events(s)'
  <2>1. Events(s)' = Events(s)
    BY EventsKept
  <2> QED BY <1>1, <2>1 DEF Typed
<1>5. \A t \in Tags : Listed(t)' = Listed(t) /\ Owing(t)' = Owing(t)
  BY <1>1 DEF Listed, Owing, Owe, Subs
<1> QED BY <1>3, <1>4, <1>5

\* Types after a step that leaves the sources alone.
LEMMA TypedKept ==
    ASSUME Typed, UNCHANGED <<setup, src, next>>,
           pending' \in [Tags -> Nat], asks' \in [Tags -> Seq(Nat)],
           batches' \in [Tags -> Seq(Seq(Nat))], taken' \in [Tags -> Seq(Nat)],
           released' \in [Tags -> Nat], workers' \in [Tags -> Nat],
           respawned' \in [Tags -> Nat], downs' \in [Tags -> Nat], crashes' \in Nat
    PROVE  Typed'
<1>1. /\ \A s \in Sources : Sound(s, src[s])'
      /\ \A s \in Producers : next'[s] <= Events(s)'
  BY SourceKept
<1>2. disp' = disp /\ part' = part /\ src' = src /\ next' = next /\ willing' = willing
  BY DEF setup
<1> QED BY <1>1, <1>2 DEF Typed

\* A step that passes a subscription by.
LEMMA AccountsIdle ==
    ASSUME Typed, Typed', NEW t \in Tags, Accounts(t),
           Listed(t)' = Listed(t), Owing(t)' = Owing(t),
           asks'[t] = asks[t], batches'[t] = batches[t], pending'[t] = pending[t],
           Fresh(t)' => Fresh(t), t \in active' => t \in active,
           released'[t] <= released[t], workers'[t] <= workers[t],
           respawned'[t] <= respawned[t], downs'[t] <= downs[t]
    PROVE  Accounts(t)'
<1>1. Have(t)' = Have(t) /\ Have(t) \in Nat
  BY Counts DEF Have, Asked, InFlight
<1>2. /\ released'[t] \in Nat /\ workers'[t] \in Nat
      /\ respawned'[t] \in Nat /\ downs'[t] \in Nat
  BY DEF Typed
<1>3. Untouched(t) => Untouched(t)'
  BY <1>2 DEF Untouched
<1>4. Have(t)' <= Have(t)
  BY <1>1
<1> QED BY <1>1, <1>3, <1>4, AccountsKept

\* Initially nothing has been asked for.
LEMMA DemandInit ==
    ASSUME Init
    PROVE  DemandInv
<1> USE DEF Init
<1>1. <<>> \in Seq(Nat) /\ <<>> \in Seq(Seq(Nat)) /\ <<>> \in Seq(Tags)
  OBVIOUS
<1>2. ASSUME NEW mode \in {"accumulate", "forward"}, NEW a, a = [Unsubscribed EXCEPT !.mode = mode], NEW s
      PROVE  a \in SourceState /\ Sound(s, a) /\ Subs(a) = {}
  <2>1. a = [subs |-> <<>>, demand |-> [t \in Tags |-> 0], waiting |-> 0, requested |-> 0,
             parts |-> [p \in Partitions |-> <<>>], buffer |-> <<>>,
             mode |-> mode, accumulated |-> 0, dropped |-> 0]
    BY <1>2 DEF Unsubscribed
  <2>2. [t \in Tags |-> 0] \in [Tags -> Nat] /\ [p \in Partitions |-> <<>>] \in [Partitions -> Seq(Nat)]
    BY <1>1
  <2>3. a \in SourceState
    BY <1>1, <2>1, <2>2 DEF SourceState
  <2>4. Subs(a) = {} /\ a.waiting <= a.requested
    BY <2>1 DEF Subs, ToSet
  <2> QED BY <2>3, <2>4 DEF Sound
<1>3. PICK acc \in SUBSET Producers :
          src = [s \in Sources |-> IF s \in acc THEN [Unsubscribed EXCEPT !.mode = "accumulate"]
                                   ELSE Unsubscribed]
  OBVIOUS
<1>4. ASSUME NEW s \in Sources
      PROVE  src[s] \in SourceState /\ Sound(s, src[s]) /\ Subs(src[s]) = {}
  <2>1. PICK mode \in {"accumulate", "forward"} : src[s] = [Unsubscribed EXCEPT !.mode = mode]
    <3>1. Unsubscribed = [Unsubscribed EXCEPT !.mode = "forward"]
      BY DEF Unsubscribed
    <3> QED BY <1>3, <3>1
  <2> QED BY <1>2, <2>1
<1>5. disp \in [Sources -> Kinds] /\ part \in [Tags -> Partitions] /\ willing \in BOOLEAN
  BY StagesAssumption
<1>6. src \in [Sources -> SourceState]
  <2>1. \E g : src = [s \in Sources |-> g[s]]
    <3>1. src = [s \in Sources |-> src[s]]
      BY <1>3
    <3> QED BY <3>1
  <2> QED BY <1>4, <2>1
<1>7. next \in [Producers -> Nat] /\ \A s \in Producers : next[s] <= Events(s)
  <2>1. ASSUME NEW s \in Producers PROVE Events(s) \in Nat
    <3>1. disp[s] \in Kinds
      BY <1>5 DEF Sources
    <3>2. <<disp[s], willing>> \in Kinds \X BOOLEAN
      BY <1>5, <3>1
    <3>3. MaxEvents \in [Kinds \X BOOLEAN -> Nat]
      BY StagesAssumption
    <3>4. Events(s) = MaxEvents[<<disp[s], willing>>]
      BY Zenon DEF Events
    <3> QED BY <3>2, <3>3, <3>4
  <2> QED BY <2>1
<1>8. Typed
  BY <1>1, <1>4, <1>5, <1>6, <1>7 DEF Typed
<1>9. \A t \in Tags : ~Listed(t) /\ Owing(t) = 0
  <2>1. \A t \in Tags : Up[t] \in Sources
    BY StagesAssumption
  <2> QED BY <1>4, <2>1 DEF Listed, Owing, Owe
<1>10. Placed
  BY <1>9 DEF Placed
<1>11. ASSUME NEW t \in Tags PROVE Accounts(t)
  <2>1. Untouched(t)
    BY <1>9 DEF Untouched
  <2> QED BY <1>8, <2>1, UntouchedAccounts
<1> QED BY <1>8, <1>10, <1>11 DEF DemandInv

\* A subscription is made.
LEMMA DemandSubscribe ==
    ASSUME DemandInv, NEW t \in Tags, subscribe(t)
    PROVE  DemandInv'
<1> USE DEF subscribe
<1>1. Typed /\ Placed /\ \A u \in Tags : Accounts(u)
  BY DEF DemandInv
<1>2. Typed'
  BY <1>1, TypedKept DEF Typed, working
<1>3. \A u \in Tags : Listed(u)' = Listed(u) /\ Owing(u)' = Owing(u)
  BY <1>1, SourceKept
<1>4. ~Listed(t)
  BY <1>1 DEF Placed
<1>5. Placed'
  BY <1>1, <1>3, <1>4 DEF Placed
<1>6. ASSUME NEW u \in Tags PROVE Accounts(u)'
  <2>1. CASE u = t
    <3>1. Untouched(t)
      BY <1>1 DEF Accounts, Fresh
    <3>2. Untouched(u)'
      BY <1>3, <2>1, <3>1 DEF Untouched, working
    <3> QED BY <1>2, <3>2, UntouchedAccountsNext
  <2>2. CASE u # t
    <3>1. /\ asks'[u] = asks[u] /\ batches'[u] = batches[u] /\ pending'[u] = pending[u]
          /\ released' = released /\ workers' = workers
          /\ respawned' = respawned /\ downs' = downs
      BY DEF working
    <3>2. (Fresh(u)' => Fresh(u)) /\ (u \in active' => u \in active)
      BY <1>3, <2>2 DEF Fresh
    <3>3. /\ released[u] <= released[u] /\ workers[u] <= workers[u]
          /\ respawned[u] <= respawned[u] /\ downs[u] <= downs[u]
      BY <1>1, SameCounts
    <3> QED BY <1>1, <1>2, <1>3, <3>1, <3>2, <3>3, AccountsIdle
  <2> QED BY <2>1, <2>2
<1> QED BY <1>2, <1>5, <1>6 DEF DemandInv

\* Types after a step of the sources.
LEMMA TypedSource ==
    ASSUME Typed, UNCHANGED setup,
           src' \in [Sources -> SourceState], \A s \in Sources : Sound(s, src[s])',
           next' \in [Producers -> Nat], \A s \in Producers : next'[s] <= Events(s),
           pending' \in [Tags -> Nat], asks' \in [Tags -> Seq(Nat)],
           batches' \in [Tags -> Seq(Seq(Nat))], taken' \in [Tags -> Seq(Nat)],
           released' \in [Tags -> Nat], workers' \in [Tags -> Nat],
           respawned' \in [Tags -> Nat], downs' \in [Tags -> Nat], crashes' \in Nat
    PROVE  Typed'
<1>1. disp' = disp /\ part' = part /\ willing' = willing
  BY DEF setup
<1>2. ASSUME NEW s \in Producers PROVE next'[s] <= Events(s)'
  BY EventsKept
<1> QED BY <1>1, <1>2 DEF Typed

\* One source takes a new state.
LEMMA NewSource ==
    ASSUME Typed, UNCHANGED <<disp, part>>, NEW s \in Sources, NEW b, Sound(s, b),
           src' = [src EXCEPT ![s] = b]
    PROVE  /\ src' \in [Sources -> SourceState] /\ \A z \in Sources : Sound(z, src[z])'
           /\ \A u \in Tags :
                /\ Listed(u)' = IF Up[u] = s THEN u \in Subs(b) ELSE Listed(u)
                /\ Owing(u)' = IF Up[u] = s THEN Owe(s, b, u) ELSE Owing(u)
<1>1. src \in [Sources -> SourceState] /\ b \in SourceState
  BY DEF Typed, Sound
<1>2. src'[s] = b /\ \A z \in Sources : z # s => src'[z] = src[z]
  BY <1>1
<1>3. src' \in [Sources -> SourceState]
  BY <1>1
<1>4. ASSUME NEW z \in Sources PROVE Sound(z, src[z])'
  <2>1. Sound(z, src'[z])
    BY <1>2 DEF Typed
  <2> QED BY <2>1 DEF Sound, SourceState, Subs
<1>5. ASSUME NEW u \in Tags
      PROVE  /\ Listed(u)' = IF Up[u] = s THEN u \in Subs(b) ELSE Listed(u)
             /\ Owing(u)' = IF Up[u] = s THEN Owe(s, b, u) ELSE Owing(u)
  <2>1. Up[u] \in Sources
    BY StagesAssumption
  <2> QED BY <1>2, <2>1 DEF Listed, Owing, Owe, Subs
<1> QED BY <1>3, <1>4, <1>5

\* The producer is called.
LEMMA DemandHandleSubscribe ==
    ASSUME DemandInv, NEW t \in Tags, handleSubscribe(t)
    PROVE  DemandInv'
<1> DEFINE s == Up[t]
           free == disp[s] = "partition" => Entry(src[s], part[t]) = {}
           b == IF free THEN Subscribe(s, src[s], t) ELSE src[s]
<1> USE DEF handleSubscribe
<1>1. Typed /\ Placed /\ \A u \in Tags : Accounts(u)
  BY DEF DemandInv
<1>2. s \in Sources /\ Sound(s, src[s]) /\ disp[s] \in Kinds
  BY <1>1, Counts
<1>3. t \in calling /\ ~Listed(t)
  BY <1>1 DEF Placed
<1>4. t \notin Subs(src[s])
  BY <1>3 DEF Listed
<1>5. /\ Sound(s, b) /\ Subs(b) = IF free THEN Subs(src[s]) \cup {t} ELSE Subs(src[s])
      /\ \A u \in Tags : Owe(s, b, u) = Owe(s, src[s], u)
  <2>1. CASE free
    <3>1. /\ Sound(s, Subscribe(s, src[s], t)) /\ Subs(Subscribe(s, src[s], t)) = Subs(src[s]) \cup {t}
          /\ \A u \in Tags : Owe(s, Subscribe(s, src[s], t), u) = Owe(s, src[s], u)
      BY <1>2, <1>4, <2>1, SubscribeOwes
    <3> QED BY <2>1, <3>1
  <2>2. CASE ~free
    BY <1>2, <2>2
  <2> QED BY <2>1, <2>2
<1>6. src' = [src EXCEPT ![s] = b]
  <2>1. src \in [Sources -> SourceState]
    BY <1>1 DEF Typed
  <2>2. src = [src EXCEPT ![s] = src[s]]
    BY <1>2, <2>1
  <2> QED BY <2>2
<1>7. deferred' = IF free THEN deferred \cup {t} ELSE deferred
  OBVIOUS
<1>8. disp' = disp /\ part' = part
  BY DEF setup
<1> HIDE DEF b, free
<1>9. /\ src' \in [Sources -> SourceState] /\ \A z \in Sources : Sound(z, src[z])'
      /\ \A u \in Tags :
                /\ Listed(u)' = IF Up[u] = s THEN u \in Subs(b) ELSE Listed(u)
                /\ Owing(u)' = IF Up[u] = s THEN Owe(s, b, u) ELSE Owing(u)
  <2> HIDE DEF s
  <2> QED BY <1>1, <1>2, <1>5, <1>6, <1>8, NewSource
<1>10. \A u \in Tags : Owing(u)' = Owing(u)
  BY <1>5, <1>9 DEF Owing
<1>11. \A u \in Tags : Listed(u)' = (Listed(u) \/ (u = t /\ free))
  BY <1>5, <1>9 DEF Listed
<1>12. Typed'
  BY <1>1, <1>9, TypedSource DEF Typed, working
<1>13. Placed'
  <2>1. ASSUME NEW u \in deferred' \cap active' PROVE Listed(u)'
    BY <1>1, <1>7, <1>11 DEF Placed
  <2>2. ASSUME NEW u \in Tags, Listed(u)' PROVE u \in made' \ calling'
    BY <1>1, <1>3, <1>11, <2>2 DEF Placed
  <2>3. calling' \cap deferred' = {}
    BY <1>1, <1>7 DEF Placed
  <2>4. /\ made' \subseteq Tags
        /\ calling' \subseteq made' /\ deferred' \subseteq made' /\ active' \subseteq made'
        /\ cancelling' \subseteq made' /\ cancelling' \cap active' = {}
    BY <1>1, <1>3, <1>7 DEF Placed
  <2> QED BY <2>1, <2>2, <2>3, <2>4 DEF Placed
<1>14. /\ asks' = asks /\ batches' = batches /\ pending' = pending
       /\ released' = released /\ workers' = workers
       /\ respawned' = respawned /\ downs' = downs
  BY DEF working
<1>15. ASSUME NEW u \in Tags PROVE Accounts(u)'
  <2>1. CASE u = t
    <3>1. Untouched(t)
      BY <1>1, <1>3 DEF Accounts, Fresh
    <3>2. Untouched(u)'
      BY <1>10, <1>14, <2>1, <3>1 DEF Untouched
    <3> QED BY <1>12, <3>2, UntouchedAccountsNext
  <2>2. CASE u # t
    <3>1. Listed(u)' = Listed(u) /\ Owing(u)' = Owing(u)
      BY <1>10, <1>11, <2>2 DEF Listed
    <3>2. (Fresh(u)' => Fresh(u)) /\ (u \in active' => u \in active)
      BY <1>7, <2>2, <3>1 DEF Fresh
    <3>3. /\ released[u] <= released[u] /\ workers[u] <= workers[u]
          /\ respawned[u] <= respawned[u] /\ downs[u] <= downs[u]
      BY <1>1, SameCounts
    <3> QED BY <1>1, <1>12, <1>14, <3>1, <3>2, <3>3, AccountsIdle
  <2> QED BY <2>1, <2>2
<1> QED BY <1>12, <1>13, <1>15 DEF DemandInv

\* The first ask.
LEMMA DemandDeferredAsk ==
    ASSUME DemandInv, NEW t \in Tags, DeferredAsk(t)
    PROVE  DemandInv'
<1> USE DEF DeferredAsk
<1>1. Typed /\ Placed /\ \A u \in Tags : Accounts(u)
  BY DEF DemandInv
<1>2. MaxDemand \in Nat
  BY StagesAssumption
<1>3. t \in deferred /\ Untouched(t)
  BY <1>1 DEF Accounts, Fresh
<1>4. /\ pending \in [Tags -> Nat] /\ asks \in [Tags -> Seq(Nat)]
      /\ asks[t] = <<>> /\ pending[t] = 0
  BY <1>1, <1>3 DEF Typed, Untouched
<1>5. \A u \in Tags \ {t} : asks'[u] = asks[u] /\ pending'[u] = pending[u]
  BY <1>4 DEF askProducer
<1>6. t \in active => asks'[t] = <<MaxDemand>> /\ pending'[t] = MaxDemand
  BY <1>2, <1>4 DEF askProducer
<1>7. t \notin active => asks' = asks /\ pending' = pending
  OBVIOUS
<1>8. pending' \in [Tags -> Nat] /\ asks' \in [Tags -> Seq(Nat)]
  <2>1. CASE t \in active
    <3>1. PICK q, n : q = Append(asks[t], MaxDemand) /\ n = pending[t] + MaxDemand
      OBVIOUS
    <3>2. q \in Seq(Nat) /\ n \in Nat
      BY <1>2, <1>4, <3>1
    <3>3. pending' = [pending EXCEPT ![t] = n] /\ asks' = [asks EXCEPT ![t] = q]
      BY <2>1, <3>1 DEF askProducer
    <3> QED BY <1>4, <3>2, <3>3
  <2> QED BY <1>4, <1>7, <2>1
<1>9. Typed'
  BY <1>1, <1>8, TypedKept DEF Typed, working
<1>10. \A u \in Tags : Listed(u)' = Listed(u) /\ Owing(u)' = Owing(u)
  BY <1>1, SourceKept
<1>11. Placed'
  BY <1>1, <1>10 DEF Placed
<1>12. /\ batches' = batches /\ released' = released /\ workers' = workers
       /\ respawned' = respawned /\ downs' = downs
  BY DEF working
<1>13. ASSUME NEW u \in Tags PROVE Accounts(u)'
  <2>1. CASE u = t /\ t \in active
    <3>1. Listed(t) /\ t \in made /\ t \notin calling /\ t \notin deferred'
      BY <1>1, <1>3, <2>1 DEF Placed
    <3>2. ~Fresh(u)'
      BY <1>10, <2>1, <3>1 DEF Fresh
    <3>3. Asked(u)' = MaxDemand
      <4>1. <<MaxDemand>> = Append(<<>>, MaxDemand) /\ <<>> \in Seq(Nat)
        OBVIOUS
      <4>2. Total(<<MaxDemand>>) = 0 + MaxDemand
        BY <1>2, <4>1, TotalAppend, TotalEmpty
      <4> QED BY <1>2, <1>6, <2>1, <4>2 DEF Asked
    <3>4. Owing(u)' = 0 /\ InFlight(u)' = <<>> /\ Len(<<>>) = 0
      BY <1>3, <1>10, <1>12, <2>1, FlattenEmpty DEF Untouched, InFlight
    <3>5. Have(u)' = MaxDemand
      BY <1>2, <3>3, <3>4 DEF Have
    <3>6. /\ pending'[u] = MaxDemand
          /\ released'[u] = 0 /\ workers'[u] = 0 /\ respawned'[u] = 0 /\ downs'[u] = 0
      BY <1>3, <1>6, <1>12, <2>1 DEF Untouched
    <3> QED BY <1>2, <3>2, <3>5, <3>6 DEF Accounts
  <2>2. CASE u # t \/ t \notin active
    <3>1. asks'[u] = asks[u] /\ pending'[u] = pending[u]
      BY <1>5, <1>7, <2>2
    <3>2. (Fresh(u)' => Fresh(u)) /\ (u \in active' => u \in active)
      BY <1>10 DEF Fresh
    <3>3. /\ released[u] <= released[u] /\ workers[u] <= workers[u]
          /\ respawned[u] <= respawned[u] /\ downs[u] <= downs[u]
      BY <1>1, SameCounts
    <3> QED BY <1>1, <1>9, <1>10, <1>12, <3>1, <3>2, <3>3, AccountsIdle
  <2> QED BY <2>1, <2>2
<1> QED BY <1>9, <1>11, <1>13 DEF DemandInv

\* A consumer cancels.
LEMMA DemandCancelSubscription ==
    ASSUME DemandInv, NEW t \in Tags, cancelSubscription(t)
    PROVE  DemandInv'
<1> USE DEF cancelSubscription
<1>1. Typed /\ Placed /\ \A u \in Tags : Accounts(u)
  BY DEF DemandInv
<1>2. released \in [Tags -> Nat] /\ released' = [released EXCEPT ![t] = 0]
  BY <1>1 DEF Typed
<1>3. released' \in [Tags -> Nat] /\ \A u \in Tags : released'[u] <= released[u]
  BY <1>2
<1>4. Typed'
  BY <1>1, <1>3, TypedKept DEF Typed, working
<1>5. \A u \in Tags : Listed(u)' = Listed(u) /\ Owing(u)' = Owing(u)
  BY <1>1, SourceKept
<1>6. Placed'
  BY <1>1, <1>5 DEF Placed
<1>7. ASSUME NEW u \in Tags PROVE Accounts(u)'
  <2>1. /\ asks'[u] = asks[u] /\ batches'[u] = batches[u] /\ pending'[u] = pending[u]
        /\ workers' = workers /\ respawned' = respawned /\ downs' = downs
    BY DEF working
  <2>2. (Fresh(u)' => Fresh(u)) /\ (u \in active' => u \in active)
    BY <1>5 DEF Fresh
  <2>3. workers[u] <= workers[u] /\ respawned[u] <= respawned[u] /\ downs[u] <= downs[u]
    BY <1>1, SameCounts
  <2> QED BY <1>1, <1>3, <1>4, <1>5, <2>1, <2>2, <2>3, AccountsIdle
<1> QED BY <1>4, <1>6, <1>7 DEF DemandInv

\* A stage stops.
LEMMA DemandStop ==
    ASSUME DemandInv, NEW s \in Stages, stop(s)
    PROVE  DemandInv'
<1> USE DEF stop
<1>1. Typed /\ Placed /\ \A u \in Tags : Accounts(u)
  BY DEF DemandInv
<1>2. /\ released \in [Tags -> Nat] /\ workers \in [Tags -> Nat] /\ respawned \in [Tags -> Nat]
  BY <1>1 DEF Typed
<1>3. /\ released' \in [Tags -> Nat] /\ workers' \in [Tags -> Nat] /\ respawned' \in [Tags -> Nat]
      /\ \A u \in Tags : /\ released'[u] <= released[u] /\ workers'[u] <= workers[u]
                         /\ respawned'[u] <= respawned[u]
  BY <1>2
<1>4. Typed'
  BY <1>1, <1>3, TypedKept DEF Typed
<1>5. \A u \in Tags : Listed(u)' = Listed(u) /\ Owing(u)' = Owing(u)
  BY <1>1, SourceKept
<1>6. Placed'
  BY <1>1, <1>5 DEF Placed
<1>7. ASSUME NEW u \in Tags PROVE Accounts(u)'
  <2>1. asks'[u] = asks[u] /\ batches'[u] = batches[u] /\ pending'[u] = pending[u] /\ downs' = downs
    OBVIOUS
  <2>2. (Fresh(u)' => Fresh(u)) /\ (u \in active' => u \in active)
    BY <1>5 DEF Fresh
  <2>3. downs[u] <= downs[u]
    BY <1>1, SameCounts
  <2> QED BY <1>1, <1>3, <1>4, <1>5, <2>1, <2>2, <2>3, AccountsIdle
<1> QED BY <1>4, <1>6, <1>7 DEF DemandInv

\* The cancel arrives.
LEMMA DemandHandleCancel ==
    ASSUME DemandInv, NEW t \in Tags, handleCancel(t)
    PROVE  DemandInv'
<1> DEFINE s == Up[t]
           b == IF t \in Subs(src[s]) THEN Cancel(s, src[s], t) ELSE src[s]
<1> USE DEF handleCancel
<1>1. Typed /\ Placed /\ \A u \in Tags : Accounts(u)
  BY DEF DemandInv
<1>2. s \in Sources /\ Sound(s, src[s]) /\ disp[s] \in Kinds
  BY <1>1, Counts
<1>3. t \notin active
  BY <1>1 DEF Placed
<1>4. /\ Sound(s, b) /\ Subs(b) = Subs(src[s]) \ {t}
      /\ \A u \in Tags : Owe(s, b, u) = IF u = t THEN 0 ELSE Owe(s, src[s], u)
  <2>1. CASE t \in Subs(src[s])
    BY <1>2, <2>1, CancelOwes
  <2>2. CASE t \notin Subs(src[s])
    <3>1. Owe(s, src[s], t) = 0
      BY <2>2 DEF Owe
    <3> QED BY <1>2, <2>2, <3>1
  <2> QED BY <2>1, <2>2
<1>5. src' = [src EXCEPT ![s] = b]
  <2>1. src \in [Sources -> SourceState]
    BY <1>1 DEF Typed
  <2>2. src = [src EXCEPT ![s] = src[s]]
    BY <1>2, <2>1
  <2> QED BY <2>2
<1>6. disp' = disp /\ part' = part
  BY DEF setup
<1> HIDE DEF b
<1>7. /\ src' \in [Sources -> SourceState] /\ \A z \in Sources : Sound(z, src[z])'
      /\ \A u \in Tags :
                /\ Listed(u)' = IF Up[u] = s THEN u \in Subs(b) ELSE Listed(u)
                /\ Owing(u)' = IF Up[u] = s THEN Owe(s, b, u) ELSE Owing(u)
  <2> HIDE DEF s
  <2> QED BY <1>1, <1>2, <1>4, <1>5, <1>6, NewSource
<1>8. \A u \in Tags : Owing(u)' = IF u = t THEN 0 ELSE Owing(u)
  BY <1>4, <1>7 DEF Owing
<1>9. \A u \in Tags : Listed(u)' = (Listed(u) /\ u # t)
  BY <1>4, <1>7 DEF Listed
<1>10. Typed'
  BY <1>1, <1>7, TypedSource DEF Typed, working
<1>11. Placed'
  BY <1>1, <1>3, <1>9 DEF Placed
<1>12. /\ asks' = asks /\ batches' = batches /\ pending' = pending
       /\ released' = released /\ workers' = workers
       /\ respawned' = respawned /\ downs' = downs
  BY DEF working
<1>13. ASSUME NEW u \in Tags PROVE Accounts(u)'
  <2>1. /\ released[u] <= released[u] /\ workers[u] <= workers[u]
        /\ respawned[u] <= respawned[u] /\ downs[u] <= downs[u]
    BY <1>1, SameCounts
  <2>2. u \in active' => u \in active
    OBVIOUS
  <2>3. CASE u = t
    <3>1. Fresh(u)' => Fresh(u)
      BY <1>3, <2>3 DEF Fresh
    <3>2. Untouched(u) => Untouched(u)'
      BY <1>8, <1>12, <2>3 DEF Untouched
    <3>3. Have(u)' <= Have(u)
      <4>1. Have(u)' = Asked(u) + 0 + Len(InFlight(u))
        BY <1>8, <1>12, <2>3 DEF Have, Asked, InFlight
      <4>2. Asked(u) \in Nat /\ Owing(u) \in Nat /\ Len(InFlight(u)) \in Nat
        BY <1>1, Counts
      <4> QED BY <4>1, <4>2 DEF Have
    <3>4. u \notin active'
      BY <1>3, <2>3
    <3> QED BY <1>1, <1>10, <1>12, <2>1, <3>1, <3>2, <3>3, <3>4, AccountsKept
  <2>4. CASE u # t
    <3>1. Listed(u)' = Listed(u) /\ Owing(u)' = Owing(u)
      BY <1>8, <1>9, <2>4 DEF Listed
    <3>2. Fresh(u)' => Fresh(u)
      BY <3>1 DEF Fresh
    <3> QED BY <1>1, <1>10, <1>12, <2>1, <2>2, <3>1, <3>2, AccountsIdle
  <2> QED BY <2>3, <2>4
<1> QED BY <1>10, <1>11, <1>13 DEF DemandInv

\* A step that concerns one subscription and no source.
LEMMA OneSubscription ==
    ASSUME DemandInv, Typed', NEW t \in Tags, UNCHANGED <<setup, src, next, subscribing>>,
           \A u \in Tags \ {t} :
               /\ asks'[u] = asks[u] /\ batches'[u] = batches[u] /\ pending'[u] = pending[u]
               /\ released'[u] = released[u] /\ workers'[u] = workers[u]
               /\ respawned'[u] = respawned[u] /\ downs'[u] = downs[u],
           Accounts(t)'
    PROVE  DemandInv'
<1>1. Typed /\ Placed /\ \A u \in Tags : Accounts(u)
  BY DEF DemandInv
<1>2. \A u \in Tags : Listed(u)' = Listed(u) /\ Owing(u)' = Owing(u)
  BY <1>1, SourceKept
<1>3. /\ made' = made /\ calling' = calling /\ deferred' = deferred /\ active' = active
      /\ cancelling' = cancelling
  BY DEF subscribing
<1>4. Placed'
  BY <1>1, <1>2, <1>3 DEF Placed
<1>5. ASSUME NEW u \in Tags PROVE Accounts(u)'
  <2>1. CASE u # t
    <3>1. Fresh(u)' => Fresh(u)
      BY <1>2, <1>3 DEF Fresh
    <3>2. /\ asks'[u] = asks[u] /\ batches'[u] = batches[u] /\ pending'[u] = pending[u]
          /\ released'[u] <= released[u] /\ workers'[u] <= workers[u]
          /\ respawned'[u] <= respawned[u] /\ downs'[u] <= downs[u]
      BY <1>1, <2>1, SameCounts
    <3> QED BY <1>1, <1>2, <1>3, <3>1, <3>2, AccountsIdle
  <2> QED BY <2>1
<1> QED BY <1>1, <1>4, <1>5 DEF DemandInv

\* What is under way without the batch that arrives.
LEMMA FirstBatch ==
    ASSUME Typed, NEW t \in Tags, batches[t] # <<>>
    PROVE  /\ Head(batches[t]) \in Seq(Nat) /\ Tail(batches[t]) \in Seq(Seq(Nat))
           /\ Len(Head(batches[t])) \in Nat /\ Len(FlattenSeq(Tail(batches[t]))) \in Nat
           /\ InFlight(t) = Head(batches[t]) \o FlattenSeq(Tail(batches[t]))
           /\ Len(InFlight(t)) = Len(Head(batches[t])) + Len(FlattenSeq(Tail(batches[t])))
<1>1. batches[t] \in Seq(Seq(Nat))
  BY DEF Typed
<1>2. Head(batches[t]) \in Seq(Nat) /\ Tail(batches[t]) \in Seq(Seq(Nat))
  BY <1>1, HeadTailProperties
<1>3. FlattenSeq(Tail(batches[t])) \in Seq(Nat)
  BY <1>2, FlattenType
<1>4. InFlight(t) = Head(batches[t]) \o FlattenSeq(Tail(batches[t]))
  BY <1>1, FlattenHead DEF InFlight
<1>5. PICK x, y : x = Head(batches[t]) /\ y = FlattenSeq(Tail(batches[t]))
  OBVIOUS
<1>6. Len(x \o y) = Len(x) + Len(y) /\ Len(x) \in Nat /\ Len(y) \in Nat
  BY <1>2, <1>3, <1>5, ConcatProperties
<1> QED BY <1>2, <1>4, <1>5, <1>6

\* The types after a batch has arrived.
LEMMA BatchTypes ==
    ASSUME Typed, NEW t \in Tags, BatchArrives(t), batches' = [batches EXCEPT ![t] = Tail(@)]
    PROVE  /\ taken' \in [Tags -> Seq(Nat)] /\ batches' \in [Tags -> Seq(Seq(Nat))]
           /\ batches'[t] = Tail(batches[t]) /\ \A u \in Tags \ {t} : batches'[u] = batches[u]
           /\ Len(InFlight(t)) = Len(Head(batches[t])) + Len(InFlight(t)')
           /\ Len(Head(batches[t])) \in Nat /\ Len(InFlight(t)') \in Nat
<1>1. /\ batches[t] # <<>> /\ taken' = [taken EXCEPT ![t] = taken[t] \o Head(batches[t])]
  BY DEF BatchArrives
<1>2. taken \in [Tags -> Seq(Nat)] /\ batches \in [Tags -> Seq(Seq(Nat))]
  BY DEF Typed
<1>3. /\ Head(batches[t]) \in Seq(Nat) /\ Tail(batches[t]) \in Seq(Seq(Nat))
      /\ Len(Head(batches[t])) \in Nat /\ Len(FlattenSeq(Tail(batches[t]))) \in Nat
      /\ Len(InFlight(t)) = Len(Head(batches[t])) + Len(FlattenSeq(Tail(batches[t])))
  BY <1>1, FirstBatch
<1>4. taken[t] \o Head(batches[t]) \in Seq(Nat)
  BY <1>2, <1>3, ConcatProperties
<1>5. taken' \in [Tags -> Seq(Nat)] /\ batches' \in [Tags -> Seq(Seq(Nat))]
  BY <1>1, <1>2, <1>3, <1>4
<1>6. batches'[t] = Tail(batches[t]) /\ \A u \in Tags \ {t} : batches'[u] = batches[u]
  BY <1>2
<1>7. InFlight(t)' = FlattenSeq(Tail(batches[t]))
  BY <1>6 DEF InFlight
<1> QED BY <1>3, <1>5, <1>6, <1>7

\* A batch of no subscription is discarded.
LEMMA DemandDiscard ==
    ASSUME DemandInv, NEW t \in Tags, Discard(t)
    PROVE  DemandInv'
<1> USE DEF Discard
<1>1. Typed /\ Accounts(t)
  BY DEF DemandInv
<1>2. /\ taken' \in [Tags -> Seq(Nat)] /\ batches' \in [Tags -> Seq(Seq(Nat))]
      /\ batches'[t] = Tail(batches[t]) /\ \A u \in Tags \ {t} : batches'[u] = batches[u]
      /\ Len(InFlight(t)) = Len(Head(batches[t])) + Len(InFlight(t)')
      /\ Len(Head(batches[t])) \in Nat /\ Len(InFlight(t)') \in Nat
  BY <1>1, BatchTypes
<1>3. UNCHANGED <<setup, src, next, subscribing, working, pending, asks, released>> /\ batches[t] # <<>>
  BY DEF BatchArrives
<1>4. Typed'
  BY <1>1, <1>2, <1>3, TypedKept DEF Typed, working
<1>5. Listed(t)' = Listed(t) /\ Owing(t)' = Owing(t)
  BY <1>1, <1>3, SourceKept
<1>6. Fresh(t)' => Fresh(t)
  BY <1>3, <1>5 DEF Fresh, subscribing
<1>7. ~Untouched(t) /\ t \notin active'
  BY <1>3 DEF Untouched, subscribing
<1>8. Have(t)' <= Have(t)
  <2>1. Asked(t) \in Nat /\ Owing(t) \in Nat
    BY <1>1, Counts
  <2>2. Asked(t)' = Asked(t)
    BY <1>3 DEF Asked
  <2> QED BY <1>2, <1>5, <2>1, <2>2 DEF Have
<1>9. /\ released'[t] <= released[t] /\ workers'[t] <= workers[t]
      /\ respawned'[t] <= respawned[t] /\ downs'[t] <= downs[t]
  BY <1>1, <1>3, Counts, SMTT(60) DEF working
<1>10. Accounts(t)'
  BY <1>1, <1>3, <1>4, <1>6, <1>7, <1>8, <1>9, AccountsKept
<1> QED BY <1>2, <1>3, <1>4, <1>10, OneSubscription DEF working

\* An ask is sent up and counted.
LEMMA AskCounts ==
    ASSUME Typed, NEW t \in Tags, NEW left \in Nat, NEW extra \in Nat,
           \/ /\ pending' = [pending EXCEPT ![t] = left + extra]
              /\ asks' = [asks EXCEPT ![t] = Append(@, extra)]
           \/ /\ extra = 0 /\ pending' = [pending EXCEPT ![t] = left] /\ asks' = asks
    PROVE  /\ pending' \in [Tags -> Nat] /\ asks' \in [Tags -> Seq(Nat)]
           /\ \A u \in Tags \ {t} : asks'[u] = asks[u] /\ pending'[u] = pending[u]
           /\ pending'[t] = left + extra /\ Asked(t)' = Asked(t) + extra
<1>1. pending \in [Tags -> Nat] /\ asks \in [Tags -> Seq(Nat)]
  BY DEF Typed
<1>2. asks[t] \in Seq(Nat) /\ Asked(t) \in Nat
  BY Counts
<1>3. Append(asks[t], extra) \in Seq(Nat) /\ Total(Append(asks[t], extra)) = Asked(t) + extra
  BY <1>2, TotalAppend DEF Asked
<1>4. PICK q : q = Append(asks[t], extra)
  OBVIOUS
<1>5. Asked(t)' = Total(asks'[t])
  BY DEF Asked
<1>6. CASE /\ pending' = [pending EXCEPT ![t] = left + extra]
           /\ asks' = [asks EXCEPT ![t] = Append(@, extra)]
  <2>1. asks' = [asks EXCEPT ![t] = q] /\ q \in Seq(Nat)
    BY <1>3, <1>4, <1>6
  <2>2. asks' \in [Tags -> Seq(Nat)] /\ asks'[t] = q /\ \A u \in Tags \ {t} : asks'[u] = asks[u]
    BY <1>1, <2>1
  <2>3. left + extra \in Nat
    OBVIOUS
  <2>4. /\ pending' \in [Tags -> Nat] /\ pending'[t] = left + extra
        /\ \A u \in Tags \ {t} : pending'[u] = pending[u]
    BY <1>1, <1>6, <2>3
  <2> QED BY <1>3, <1>4, <1>5, <2>2, <2>4
<1>7. CASE extra = 0 /\ pending' = [pending EXCEPT ![t] = left] /\ asks' = asks
  <2>1. Asked(t)' = Asked(t)
    BY <1>7 DEF Asked
  <2>2. /\ pending' \in [Tags -> Nat] /\ pending'[t] = left
        /\ \A u \in Tags \ {t} : pending'[u] = pending[u]
    BY <1>1, <1>7
  <2> QED BY <1>1, <1>2, <1>7, <2>1, <2>2
<1> QED BY <1>6, <1>7

\* The re-ask fills the pending demand up to maxDemand.
LEMMA ReaskCounts ==
    ASSUME Typed, NEW t \in Tags, NEW left \in Nat, left <= MaxDemand, Reask(t, left)
    PROVE  \E extra \in Nat :
              /\ pending' \in [Tags -> Nat] /\ asks' \in [Tags -> Seq(Nat)]
              /\ \A u \in Tags \ {t} : asks'[u] = asks[u] /\ pending'[u] = pending[u]
              /\ pending'[t] = left + extra /\ Asked(t)' = Asked(t) + extra
              /\ left + extra <= MaxDemand
<1>1. MaxDemand \in Nat
  BY StagesAssumption
<1>2. CASE left <= MinDemand
  <2>1. PICK extra \in Nat : extra = MaxDemand - left
    BY <1>1
  <2>2. left + extra = MaxDemand
    BY <1>1, <2>1
  <2>3. /\ pending' = [pending EXCEPT ![t] = left + extra]
        /\ asks' = [asks EXCEPT ![t] = Append(@, extra)]
    BY <1>2, <2>1, <2>2 DEF Reask
  <2>4. /\ pending' \in [Tags -> Nat] /\ asks' \in [Tags -> Seq(Nat)]
        /\ \A u \in Tags \ {t} : asks'[u] = asks[u] /\ pending'[u] = pending[u]
        /\ pending'[t] = left + extra /\ Asked(t)' = Asked(t) + extra
    BY <2>3, AskCounts
  <2>5. left + extra <= MaxDemand
    BY <1>1, <2>2
  <2> QED BY <2>4, <2>5
<1>3. CASE ~(left <= MinDemand)
  <2>1. 0 \in Nat /\ pending' = [pending EXCEPT ![t] = left] /\ asks' = asks
    BY <1>3 DEF Reask
  <2>2. /\ pending' \in [Tags -> Nat] /\ asks' \in [Tags -> Seq(Nat)]
        /\ \A u \in Tags \ {t} : asks'[u] = asks[u] /\ pending'[u] = pending[u]
        /\ pending'[t] = left + 0 /\ Asked(t)' = Asked(t) + 0
    BY <2>1, AskCounts
  <2>3. left + 0 <= MaxDemand
    OBVIOUS
  <2> QED BY <2>1, <2>2, <2>3
<1> QED BY <1>2, <1>3

\* A step that asks for extra of the slots and keeps the others.
SlotsAsked(t, left, slots, extra) ==
    /\ pending' \in [Tags -> Nat] /\ asks' \in [Tags -> Seq(Nat)]
    /\ \A u \in Tags \ {t} : asks'[u] = asks[u] /\ pending'[u] = pending[u]
    /\ pending'[t] = left + extra /\ Asked(t)' = Asked(t) + extra
    /\ released' \in [Tags -> Nat] /\ \A u \in Tags \ {t} : released'[u] = released[u]
    /\ released'[t] + extra = slots

\* Released slots are asked for again, or kept for later.
LEMMA SlotCounts ==
    ASSUME Typed, NEW t \in Tags, NEW left \in Nat, NEW slots \in Nat, maybeAskForMore(t, left, slots)
    PROVE  \E extra \in Nat : SlotsAsked(t, left, slots, extra)
<1>1. released \in [Tags -> Nat]
  BY DEF Typed
<1>2. CASE slots >= MinDemand
  <2>1. /\ pending' = [pending EXCEPT ![t] = left + slots]
        /\ asks' = [asks EXCEPT ![t] = Append(@, slots)]
        /\ released' = [released EXCEPT ![t] = 0]
    BY <1>2 DEF maybeAskForMore
  <2>2. /\ pending' \in [Tags -> Nat] /\ asks' \in [Tags -> Seq(Nat)]
        /\ \A u \in Tags \ {t} : asks'[u] = asks[u] /\ pending'[u] = pending[u]
        /\ pending'[t] = left + slots /\ Asked(t)' = Asked(t) + slots
    BY <2>1, AskCounts
  <2>3. /\ released' \in [Tags -> Nat] /\ \A u \in Tags \ {t} : released'[u] = released[u]
        /\ released'[t] + slots = slots
    BY <1>1, <2>1
  <2> QED BY <2>2, <2>3 DEF SlotsAsked
<1>3. CASE ~(slots >= MinDemand)
  <2>1. /\ 0 \in Nat /\ pending' = [pending EXCEPT ![t] = left] /\ asks' = asks
        /\ released' = [released EXCEPT ![t] = slots]
    BY <1>3 DEF maybeAskForMore
  <2>2. /\ pending' \in [Tags -> Nat] /\ asks' \in [Tags -> Seq(Nat)]
        /\ \A u \in Tags \ {t} : asks'[u] = asks[u] /\ pending'[u] = pending[u]
        /\ pending'[t] = left + 0 /\ Asked(t)' = Asked(t) + 0
    BY <2>1, AskCounts, ZenonT(60)
  <2>3. /\ released' \in [Tags -> Nat] /\ \A u \in Tags \ {t} : released'[u] = released[u]
        /\ released'[t] + 0 = slots
    BY <1>1, <2>1
  <2> QED BY <2>1, <2>2, <2>3 DEF SlotsAsked
<1> QED BY <1>2, <1>3

\* What is left of the pending demand after a batch.
LEMMA LessIs ==
    ASSUME Typed, NEW t \in Tags, Accounts(t), t \in active, NEW n \in Nat, n <= Len(InFlight(t))
    PROVE  /\ Less(t, n) \in Nat /\ Less(t, n) = pending[t] - n /\ Less(t, n) <= pending[t]
           /\ pending[t] <= MaxDemand
<1>1. /\ pending[t] \in Nat /\ Asked(t) \in Nat /\ Owing(t) \in Nat /\ Len(InFlight(t)) \in Nat
      /\ released[t] \in Nat /\ workers[t] \in Nat /\ respawned[t] \in Nat /\ downs[t] \in Nat
      /\ MaxDemand \in Nat
  BY Counts
<1>2. /\ pending[t] = Asked(t) + Owing(t) + Len(InFlight(t))
      /\ pending[t] + released[t] + workers[t] + respawned[t] + downs[t] <= MaxDemand
  BY DEF Accounts, Have
<1>3. n <= pending[t] /\ pending[t] <= MaxDemand
  <2>1. PICK p, a, o, l, r \in Nat : /\ p = pending[t] /\ a = Asked(t) /\ o = Owing(t)
                                    /\ l = Len(InFlight(t)) /\ r = released[t]
    BY <1>1
  <2>2. PICK w, e, d \in Nat : w = workers[t] /\ e = respawned[t] /\ d = downs[t]
    BY <1>1
  <2>3. p = a + o + l /\ p + r + w + e + d <= MaxDemand /\ n <= l
    BY <1>2, <2>1, <2>2
  <2>4. n <= p /\ p <= MaxDemand
    BY <1>1, <2>3
  <2> QED BY <2>1, <2>4
<1>4. Smaller(pending[t], n) = n
  BY <1>1, <1>3 DEF Smaller
<1> QED BY <1>1, <1>3, <1>4, SMTT(60) DEF Less

\* A consumer receives a batch.
LEMMA DemandHandleEvents ==
    ASSUME DemandInv, NEW t \in Tags, handleEvents(t)
    PROVE  DemandInv'
<1> USE DEF handleEvents
<1>1. Typed /\ Accounts(t)
  BY DEF DemandInv
<1>2. /\ taken' \in [Tags -> Seq(Nat)] /\ batches' \in [Tags -> Seq(Seq(Nat))]
      /\ batches'[t] = Tail(batches[t]) /\ \A u \in Tags \ {t} : batches'[u] = batches[u]
      /\ Len(InFlight(t)) = Len(Head(batches[t])) + Len(InFlight(t)')
      /\ Len(Head(batches[t])) \in Nat /\ Len(InFlight(t)') \in Nat
  BY <1>1, BatchTypes
<1>3. PICK n \in Nat : n = Len(Head(batches[t]))
  BY <1>2
<1>4. /\ UNCHANGED <<setup, src, next, subscribing, working, released>> /\ batches[t] # <<>>
      /\ t \in active
  BY DEF BatchArrives
<1>5. PICK left : left = Less(t, n)
  OBVIOUS
<1>6. /\ pending[t] \in Nat /\ Asked(t) \in Nat /\ Owing(t) \in Nat /\ Len(InFlight(t)) \in Nat
      /\ released[t] \in Nat /\ workers[t] \in Nat /\ respawned[t] \in Nat /\ downs[t] \in Nat
      /\ MaxDemand \in Nat
  BY <1>1, Counts
<1>7. left \in Nat /\ left = pending[t] - n /\ left <= MaxDemand
  <2>1. n <= Len(InFlight(t))
    BY <1>2, <1>3
  <2>2. left \in Nat /\ left = pending[t] - n /\ left <= pending[t] /\ pending[t] <= MaxDemand
    BY <1>1, <1>4, <1>5, <2>1, LessIs
  <2> QED BY <1>6, <2>2
<1>8. PICK extra \in Nat :
         /\ pending' \in [Tags -> Nat] /\ asks' \in [Tags -> Seq(Nat)]
         /\ \A u \in Tags \ {t} : asks'[u] = asks[u] /\ pending'[u] = pending[u]
         /\ pending'[t] = left + extra /\ Asked(t)' = Asked(t) + extra
         /\ left + extra <= MaxDemand
  <2>1. Reask(t, left)
    BY <1>3, <1>5
  <2> QED BY <1>1, <1>7, <2>1, ReaskCounts
<1>9. Typed'
  BY <1>1, <1>2, <1>4, <1>8, TypedKept DEF Typed, working
<1>10. Listed(t)' = Listed(t) /\ Owing(t)' = Owing(t)
  BY <1>1, <1>4, SourceKept
<1>11. ~Fresh(t)'
  <2>1. ~Untouched(t)
    BY <1>4 DEF Untouched
  <2>2. ~Fresh(t)
    BY <1>1, <2>1 DEF Accounts
  <2> QED BY <1>4, <1>10, <2>2 DEF Fresh, subscribing
<1>12. Down[t] \notin Supervisors
  BY StagesAssumption
<1>13. /\ released'[t] = 0 /\ workers'[t] = 0 /\ respawned'[t] = 0 /\ downs'[t] = 0
  BY <1>1, <1>4, <1>12 DEF Accounts, working
<1>14. Have(t)' = pending'[t] /\ pending'[t] <= MaxDemand /\ pending'[t] \in Nat
  <2>1. pending[t] = Asked(t) + Owing(t) + Len(InFlight(t))
    BY <1>1, <1>4 DEF Accounts, Have
  <2>2. Have(t)' = Asked(t) + extra + Owing(t) + Len(InFlight(t)')
    BY <1>8, <1>10 DEF Have
  <2>3. PICK a, o, l, l1 \in Nat : a = Asked(t) /\ o = Owing(t) /\ l = Len(InFlight(t)) /\ l1 = Len(InFlight(t)')
    BY <1>2, <1>6
  <2>4. l = n + l1
    BY <1>2, <1>3, <2>3
  <2>5. left = a + o + l1
    BY <1>7, <2>1, <2>3, <2>4
  <2>6. Have(t)' = a + extra + o + l1
    BY <2>2, <2>3
  <2> QED BY <1>8, <2>5, <2>6
<1>15. Accounts(t)'
  BY <1>6, <1>11, <1>13, <1>14 DEF Accounts
<1> QED BY <1>2, <1>4, <1>8, <1>9, <1>15, OneSubscription DEF working

\* A consumer supervisor starts its workers.
LEMMA DemandSpawnWorkers ==
    ASSUME DemandInv, NEW t \in Tags, SpawnWorkers(t)
    PROVE  DemandInv'
<1> USE DEF SpawnWorkers
<1>1. Typed /\ Accounts(t)
  BY DEF DemandInv
<1>2. /\ taken' \in [Tags -> Seq(Nat)] /\ batches' \in [Tags -> Seq(Seq(Nat))]
      /\ batches'[t] = Tail(batches[t]) /\ \A u \in Tags \ {t} : batches'[u] = batches[u]
      /\ Len(InFlight(t)) = Len(Head(batches[t])) + Len(InFlight(t)')
      /\ Len(Head(batches[t])) \in Nat /\ Len(InFlight(t)') \in Nat
  BY <1>1, BatchTypes
<1>3. PICK n \in Nat : n = Len(Head(batches[t]))
  BY <1>2
<1>4. /\ UNCHANGED <<setup, src, next, subscribing, respawned, downs>> /\ batches[t] # <<>>
      /\ t \in active /\ Down[t] \in Supervisors
  BY DEF BatchArrives
<1>5. PICK left : left = Less(t, n)
  OBVIOUS
<1>6. /\ pending[t] \in Nat /\ Asked(t) \in Nat /\ Owing(t) \in Nat /\ Len(InFlight(t)) \in Nat
      /\ released[t] \in Nat /\ workers[t] \in Nat /\ respawned[t] \in Nat /\ downs[t] \in Nat
      /\ MaxDemand \in Nat
  BY <1>1, Counts
<1>7. left \in Nat /\ left = pending[t] - n
  <2>1. n <= Len(InFlight(t))
    BY <1>2, <1>3
  <2> QED BY <1>1, <1>4, <1>5, <2>1, LessIs
<1>8. crashes \in Nat /\ MaxCrashes \in Nat /\ workers \in [Tags -> Nat]
  BY <1>1, StagesAssumption DEF Typed
<1>9. PICK failed \in 0..Smaller(n, MaxCrashes - crashes) :
         /\ workers' = [workers EXCEPT ![t] = @ + n - failed]
         /\ crashes' = crashes + failed
         /\ maybeAskForMore(t, left, released[t] + failed)
  BY <1>3, <1>5
<1>10. failed \in Nat /\ failed <= n
  BY <1>8 DEF Smaller
<1>19. PICK slots \in Nat : slots = released[t] + failed
  BY <1>6, <1>10
<1>11. PICK extra \in Nat : SlotsAsked(t, left, slots, extra)
  <2>1. maybeAskForMore(t, left, slots)
    BY <1>9, <1>19
  <2> QED BY <1>1, <1>7, <1>19, <2>1, SlotCounts
<1>20. /\ pending' \in [Tags -> Nat] /\ asks' \in [Tags -> Seq(Nat)]
       /\ \A u \in Tags \ {t} : asks'[u] = asks[u] /\ pending'[u] = pending[u]
       /\ pending'[t] = left + extra /\ Asked(t)' = Asked(t) + extra
       /\ released' \in [Tags -> Nat] /\ \A u \in Tags \ {t} : released'[u] = released[u]
       /\ released'[t] + extra = slots
  BY <1>11 DEF SlotsAsked
<1>12. /\ workers' \in [Tags -> Nat] /\ workers'[t] = workers[t] + (n - failed)
       /\ \A u \in Tags \ {t} : workers'[u] = workers[u]
  <2>1. PICK more \in Nat : more = workers[t] + (n - failed)
    BY <1>6, <1>10
  <2>2. workers' = [workers EXCEPT ![t] = more]
    BY <1>6, <1>9, <1>10, <2>1
  <2> QED BY <1>8, <2>1, <2>2
<1>13. crashes' \in Nat
  BY <1>8, <1>9, <1>10
<1>14. Typed'
  BY <1>1, <1>2, <1>4, <1>12, <1>13, <1>20, TypedKept DEF Typed
<1>15. Listed(t)' = Listed(t) /\ Owing(t)' = Owing(t)
  BY <1>1, <1>4, SourceKept
<1>16. ~Fresh(t)'
  <2>1. ~Untouched(t)
    BY <1>4 DEF Untouched
  <2>2. ~Fresh(t)
    BY <1>1, <2>1 DEF Accounts
  <2> QED BY <1>4, <1>15, <2>2 DEF Fresh, subscribing
<1>17. /\ Have(t)' = pending'[t] /\ pending'[t] \in Nat
       /\ pending'[t] + released'[t] + workers'[t] + respawned'[t] + downs'[t] <= MaxDemand
       /\ pending'[t] + workers'[t] + respawned'[t] <= MaxDemand
  <2>1. /\ pending[t] = Asked(t) + Owing(t) + Len(InFlight(t))
        /\ pending[t] + released[t] + workers[t] + respawned[t] + downs[t] <= MaxDemand
    BY <1>1, <1>4 DEF Accounts, Have
  <2>2. Have(t)' = Asked(t) + extra + Owing(t) + Len(InFlight(t)')
    BY <1>20, <1>15 DEF Have
  <2>3. PICK a, o, l, l1 \in Nat : a = Asked(t) /\ o = Owing(t) /\ l = Len(InFlight(t)) /\ l1 = Len(InFlight(t)')
    BY <1>2, <1>6
  <2>4. PICK p, r, w, e, d \in Nat : /\ p = pending[t] /\ r = released[t] /\ w = workers[t]
                                     /\ e = respawned[t] /\ d = downs[t]
    BY <1>6
  <2>5. PICK r1 \in Nat : r1 = released'[t]
    BY <1>20
  <2>6. l = n + l1 /\ left = p - n /\ p = a + o + l /\ p + r + w + e + d <= MaxDemand
    BY <1>2, <1>3, <1>7, <2>1, <2>3, <2>4
  <2>7. left = a + o + l1 /\ r1 + extra = r + failed
    BY <1>20, <1>19, <2>4, <2>5, <2>6, SMTT(60)
  <2>8. /\ left + extra + r1 + (w + (n - failed)) + e + d <= MaxDemand
        /\ left + extra + (w + (n - failed)) + e <= MaxDemand
    <3>1. left \in Nat /\ MaxDemand \in Nat /\ failed \in Nat
      BY <1>6, <1>7, <1>10
    <3>2. PICK m \in Nat : m = n - failed
      BY <1>10
    <3>3. left + extra + r1 + (w + m) + e + d = p + r + w + e + d
      BY <2>6, <2>7, <3>1, <3>2
    <3>4. left + extra + (w + m) + e <= left + extra + r1 + (w + m) + e + d
      BY <3>1
    <3>5. left + extra + (w + m) + e <= MaxDemand
      BY <2>6, <3>1, <3>3, <3>4
    <3> QED BY <2>6, <3>2, <3>3, <3>5
  <2>9. /\ pending'[t] = left + extra /\ workers'[t] = w + (n - failed)
        /\ respawned'[t] = e /\ downs'[t] = d
    BY <1>4, <1>20, <1>12, <2>4
  <2>10. Have(t)' = a + extra + o + l1
    BY <2>2, <2>3
  <2>11. a + extra + o + l1 = left + extra /\ left + extra \in Nat
    BY <2>7
  <2> QED BY <2>5, <2>8, <2>9, <2>10, <2>11
<1>18. Accounts(t)'
  BY <1>4, <1>16, <1>17 DEF Accounts
<1> QED BY <1>2, <1>4, <1>20, <1>12, <1>14, <1>18, OneSubscription

\* A step that moves a worker of a subscription between its counts.
LEMMA WorkersMove ==
    ASSUME DemandInv, NEW t \in Tags,
           UNCHANGED <<setup, src, next, subscribing, pending, asks, batches, taken, released>>,
           crashes' \in Nat, workers' \in [Tags -> Nat], respawned' \in [Tags -> Nat],
           downs' \in [Tags -> Nat],
           \A u \in Tags \ {t} : /\ workers'[u] = workers[u] /\ respawned'[u] = respawned[u]
                                 /\ downs'[u] = downs[u],
           ~Untouched(t), Down[t] \in Supervisors,
           workers'[t] + respawned'[t] <= workers[t] + respawned[t],
           workers'[t] + respawned'[t] + downs'[t] <= workers[t] + respawned[t] + downs[t]
    PROVE  DemandInv'
<1>1. Typed /\ Accounts(t)
  BY DEF DemandInv
<1>2. Typed'
  BY <1>1, TypedKept DEF Typed
<1>3. Listed(t)' = Listed(t) /\ Owing(t)' = Owing(t)
  BY <1>1, SourceKept
<1>4. ~Fresh(t)'
  BY <1>1, <1>3 DEF Fresh, subscribing, Accounts
<1>5. /\ Have(t)' = Have(t) /\ pending'[t] = pending[t] /\ released'[t] = released[t]
      /\ active' = active
  BY <1>3 DEF Have, Asked, InFlight, subscribing
<1>6. /\ Have(t) \in Nat /\ pending[t] \in Nat /\ released[t] \in Nat /\ MaxDemand \in Nat
      /\ workers[t] \in Nat /\ respawned[t] \in Nat /\ downs[t] \in Nat
  BY <1>1, Counts
<1>7. /\ Have(t) + workers'[t] + respawned'[t] <= MaxDemand
      /\ t \in active => pending[t] + released[t] + workers'[t] + respawned'[t] + downs'[t] <= MaxDemand
  <2>1. PICK h, p, r \in Nat : h = Have(t) /\ p = pending[t] /\ r = released[t]
    BY <1>6
  <2>2. PICK w, e, d \in Nat : w = workers[t] /\ e = respawned[t] /\ d = downs[t]
    BY <1>6
  <2>3. PICK w1, e1, d1 \in Nat : w1 = workers'[t] /\ e1 = respawned'[t] /\ d1 = downs'[t]
    OBVIOUS
  <2>4. h + w + e <= MaxDemand /\ (t \in active => p + r + w + e + d <= MaxDemand)
    BY <1>1, <2>1, <2>2 DEF Accounts
  <2>5. w1 + e1 <= w + e /\ w1 + e1 + d1 <= w + e + d
    BY <2>2, <2>3
  <2>6. h + w1 + e1 <= MaxDemand
    BY <1>6, <2>4, <2>5
  <2>7. t \in active => p + r + w1 + e1 + d1 <= MaxDemand
    BY <1>6, <2>4, <2>5
  <2> QED BY <2>1, <2>3, <2>6, <2>7
<1>8. Accounts(t)'
  <2>1. t \in active => pending[t] = Have(t)
    BY <1>1 DEF Accounts
  <2> QED BY <1>4, <1>5, <1>7, <2>1 DEF Accounts
<1> QED BY <1>2, <1>8, OneSubscription

\* Only a consumer supervisor has workers, and a subscription with one is not untouched.
LEMMA HasWorkers ==
    ASSUME DemandInv, NEW t \in Tags, workers[t] > 0 \/ respawned[t] > 0 \/ downs[t] > 0
    PROVE  /\ ~Untouched(t) /\ Down[t] \in Supervisors
           /\ workers \in [Tags -> Nat] /\ respawned \in [Tags -> Nat] /\ downs \in [Tags -> Nat]
           /\ workers[t] \in Nat /\ respawned[t] \in Nat /\ downs[t] \in Nat /\ crashes \in Nat
<1>1. Typed /\ Accounts(t)
  BY DEF DemandInv
<1>2. Untouched(t) => FALSE
  BY DEF Untouched
<1>3. Down[t] \in Supervisors
  BY <1>1 DEF Accounts
<1> QED BY <1>1, <1>2, <1>3 DEF Typed

\* A worker stops.
LEMMA DemandWorkerEnds ==
    ASSUME DemandInv, NEW t \in Tags, WorkerEnds(t)
    PROVE  DemandInv'
<1> USE DEF WorkerEnds
<1>1. /\ ~Untouched(t) /\ Down[t] \in Supervisors
      /\ workers \in [Tags -> Nat] /\ respawned \in [Tags -> Nat] /\ downs \in [Tags -> Nat]
      /\ workers[t] \in Nat /\ respawned[t] \in Nat /\ downs[t] \in Nat /\ crashes \in Nat
  BY HasWorkers
<1>2. PICK w, d \in Nat : w = workers[t] - 1 /\ d = downs[t] + 1
  BY <1>1
<1>3. workers' = [workers EXCEPT ![t] = w] /\ downs' = [downs EXCEPT ![t] = d]
  BY <1>2
<1>4. /\ workers' \in [Tags -> Nat] /\ downs' \in [Tags -> Nat] /\ workers'[t] = w /\ downs'[t] = d
      /\ \A u \in Tags \ {t} : workers'[u] = workers[u] /\ downs'[u] = downs[u]
  BY <1>1, <1>3
<1>5. /\ workers'[t] + respawned'[t] <= workers[t] + respawned[t]
      /\ workers'[t] + respawned'[t] + downs'[t] <= workers[t] + respawned[t] + downs[t]
  BY <1>1, <1>2, <1>4
<1>6. respawned' = respawned /\ crashes' = crashes
  OBVIOUS
<1> QED BY <1>1, <1>4, <1>5, <1>6, WorkersMove

\* A worker is restarted.
LEMMA DemandWorkerRestarts ==
    ASSUME DemandInv, NEW t \in Tags, WorkerRestarts(t)
    PROVE  DemandInv'
<1> USE DEF WorkerRestarts
<1>1. /\ ~Untouched(t) /\ Down[t] \in Supervisors
      /\ workers \in [Tags -> Nat] /\ respawned \in [Tags -> Nat] /\ downs \in [Tags -> Nat]
      /\ workers[t] \in Nat /\ respawned[t] \in Nat /\ downs[t] \in Nat /\ crashes \in Nat
  BY HasWorkers
<1>2. PICK w, e \in Nat : w = workers[t] - 1 /\ e = respawned[t] + 1
  BY <1>1
<1>3. workers' = [workers EXCEPT ![t] = w] /\ respawned' = [respawned EXCEPT ![t] = e]
  BY <1>2
<1>4. /\ workers' \in [Tags -> Nat] /\ respawned' \in [Tags -> Nat]
      /\ workers'[t] = w /\ respawned'[t] = e
      /\ \A u \in Tags \ {t} : workers'[u] = workers[u] /\ respawned'[u] = respawned[u]
  BY <1>1, <1>3
<1>5. /\ workers'[t] + respawned'[t] <= workers[t] + respawned[t]
      /\ workers'[t] + respawned'[t] + downs'[t] <= workers[t] + respawned[t] + downs[t]
  BY <1>1, <1>2, <1>4
<1>6. downs' = downs /\ crashes' \in Nat
  BY <1>1
<1> QED BY <1>1, <1>4, <1>5, <1>6, WorkersMove

\* A restarted worker ends.
LEMMA DemandRespawnedEnds ==
    ASSUME DemandInv, NEW t \in Tags, RespawnedEnds(t)
    PROVE  DemandInv'
<1> USE DEF RespawnedEnds
<1>1. /\ ~Untouched(t) /\ Down[t] \in Supervisors
      /\ workers \in [Tags -> Nat] /\ respawned \in [Tags -> Nat] /\ downs \in [Tags -> Nat]
      /\ workers[t] \in Nat /\ respawned[t] \in Nat /\ downs[t] \in Nat /\ crashes \in Nat
  BY HasWorkers
<1>2. PICK e \in Nat : e = respawned[t] - 1
  BY <1>1
<1>3. respawned' = [respawned EXCEPT ![t] = e]
  BY <1>2
<1>4. /\ respawned' \in [Tags -> Nat] /\ respawned'[t] = e
      /\ \A u \in Tags \ {t} : respawned'[u] = respawned[u]
  BY <1>1, <1>3
<1>5. /\ workers'[t] + respawned'[t] <= workers[t] + respawned[t]
      /\ workers'[t] + respawned'[t] + downs'[t] <= workers[t] + respawned[t] + downs[t]
  BY <1>1, <1>2, <1>4
<1>6. workers' = workers /\ downs' = downs /\ crashes' = crashes
  OBVIOUS
<1> QED BY <1>1, <1>4, <1>5, <1>6, WorkersMove

\* The DOWN of a worker arrives.
LEMMA DemandHandleWorkerDown ==
    ASSUME DemandInv, NEW t \in Tags, handleWorkerDown(t)
    PROVE  DemandInv'
<1> USE DEF handleWorkerDown
<1>1. /\ ~Untouched(t) /\ Down[t] \in Supervisors
      /\ workers \in [Tags -> Nat] /\ respawned \in [Tags -> Nat] /\ downs \in [Tags -> Nat]
      /\ workers[t] \in Nat /\ respawned[t] \in Nat /\ downs[t] \in Nat /\ crashes \in Nat
  BY HasWorkers
<1>2. PICK d1 \in Nat : d1 = downs[t] - 1
  BY <1>1
<1>3. downs' = [downs EXCEPT ![t] = d1]
  BY <1>2
<1>4. /\ downs' \in [Tags -> Nat] /\ downs'[t] = d1 /\ \A u \in Tags \ {t} : downs'[u] = downs[u]
  BY <1>1, <1>3
<1>5. CASE t \notin active
  <2>1. /\ workers'[t] + respawned'[t] <= workers[t] + respawned[t]
        /\ workers'[t] + respawned'[t] + downs'[t] <= workers[t] + respawned[t] + downs[t]
    BY <1>1, <1>2, <1>4
  <2>2. /\ workers' = workers /\ respawned' = respawned /\ crashes' = crashes
        /\ UNCHANGED <<pending, asks, released>>
    BY <1>5
  <2> QED BY <1>1, <1>4, <2>1, <2>2, WorkersMove
<1>6. CASE t \in active
  <2>1. Typed /\ Accounts(t)
    BY DEF DemandInv
  <2>2. /\ pending[t] \in Nat /\ Asked(t) \in Nat /\ Owing(t) \in Nat /\ Len(InFlight(t)) \in Nat
        /\ released[t] \in Nat /\ MaxDemand \in Nat
    BY <2>1, Counts
  <2>3. PICK slots \in Nat : slots = released[t] + 1
    BY <2>2
  <2>10. PICK left \in Nat : left = pending[t]
    BY <2>2
  <2>11. PICK extra \in Nat : SlotsAsked(t, left, slots, extra)
    <3>1. maybeAskForMore(t, left, slots)
      BY <1>6, <2>3, <2>10
    <3> QED BY <2>1, <2>3, <2>10, <3>1, SlotCounts
  <2>4. /\ pending' \in [Tags -> Nat] /\ asks' \in [Tags -> Seq(Nat)]
        /\ \A u \in Tags \ {t} : asks'[u] = asks[u] /\ pending'[u] = pending[u]
        /\ pending'[t] = left + extra /\ Asked(t)' = Asked(t) + extra
        /\ released' \in [Tags -> Nat] /\ \A u \in Tags \ {t} : released'[u] = released[u]
        /\ released'[t] + extra = slots
    BY <2>11 DEF SlotsAsked
  <2>5. Typed'
    BY <1>4, <2>1, <2>4, TypedKept DEF Typed
  <2>6. Listed(t)' = Listed(t) /\ Owing(t)' = Owing(t)
    BY <2>1, SourceKept
  <2>7. ~Fresh(t)'
    BY <1>1, <2>1, <2>6 DEF Fresh, subscribing, Accounts
  <2>8. /\ Have(t)' = pending'[t] /\ pending'[t] \in Nat
        /\ pending'[t] + released'[t] + workers'[t] + respawned'[t] + downs'[t] <= MaxDemand
        /\ pending'[t] + workers'[t] + respawned'[t] <= MaxDemand
    <3>1. /\ pending[t] = Asked(t) + Owing(t) + Len(InFlight(t))
          /\ pending[t] + released[t] + workers[t] + respawned[t] + downs[t] <= MaxDemand
      BY <1>6, <2>1 DEF Accounts, Have
    <3>2. Have(t)' = Asked(t) + extra + Owing(t) + Len(InFlight(t))
      BY <2>4, <2>6 DEF Have, InFlight
    <3>3. PICK a, o, l \in Nat : a = Asked(t) /\ o = Owing(t) /\ l = Len(InFlight(t))
      BY <2>2
    <3>4. PICK p, r, w, e, d \in Nat : /\ p = pending[t] /\ r = released[t] /\ w = workers[t]
                                       /\ e = respawned[t] /\ d = downs[t]
      BY <1>1, <2>2
    <3>5. PICK r1 \in Nat : r1 = released'[t]
      BY <2>4
    <3>6. p = a + o + l /\ p + r + w + e + d <= MaxDemand /\ r1 + extra = r + 1 /\ d1 = d - 1
      BY <1>2, <2>3, <2>4, <3>1, <3>3, <3>4, <3>5
    <3>7. p + extra + r1 + w + e + d1 <= MaxDemand /\ p + extra + w + e <= MaxDemand
      <4>1. MaxDemand \in Nat
        BY <2>2
      <4>2. p + extra + r1 + w + e + d1 = p + r + w + e + d
        BY <3>6
      <4>3. p + extra + w + e <= p + extra + r1 + w + e + d1
        OBVIOUS
      <4> QED BY <3>6, <4>1, <4>2, <4>3
    <3>8. /\ pending'[t] = p + extra /\ workers'[t] = w /\ respawned'[t] = e /\ downs'[t] = d1
      BY <1>4, <2>4, <2>10, <3>4
    <3>9. Have(t)' = a + extra + o + l
      BY <3>2, <3>3
    <3>10. a + extra + o + l = p + extra /\ p + extra \in Nat
      BY <3>6
    <3> QED BY <3>5, <3>7, <3>8, <3>9, <3>10
  <2>9. Accounts(t)'
    BY <1>1, <1>6, <2>7, <2>8 DEF Accounts, subscribing
  <2> QED BY <1>4, <2>4, <2>5, <2>9, OneSubscription
<1> QED BY <1>5, <1>6

(* A step of a source that sends batches: what its subscribers have asked  *)
(* for moves from the asks to what is owed, and from there to the batches. *)
LEMMA SourceStep ==
    ASSUME DemandInv, NEW s \in Sources, NEW a, Sound(s, a), Subs(a) = Subs(src[s]),
           NEW w, Settles(s, a, w),
           UNCHANGED <<setup, subscribing, pending, taken, released, working>>,
           src' = [src EXCEPT ![s] = w.state],
           batches' = [u \in Tags |-> batches[u] \o w.out[u]],
           next' \in [Producers -> Nat], \A z \in Producers : next'[z] <= Events(z),
           asks' \in [Tags -> Seq(Nat)],
           \A u \in Tags : Up[u] # s => asks'[u] = asks[u],
           \A u \in Tags : Up[u] = s =>
               /\ Untouched(u) => asks'[u] = asks[u] /\ Owe(s, a, u) = Owing(u)
               /\ Owe(s, a, u) + Total(asks'[u]) <= Owing(u) + Asked(u)
               /\ u \in active => Owe(s, a, u) + Total(asks'[u]) = Owing(u) + Asked(u)
    PROVE  DemandInv'
<1>1. Typed /\ Placed /\ \A u \in Tags : Accounts(u)
  BY DEF DemandInv
<1>2. disp' = disp /\ part' = part /\ batches \in [Tags -> Seq(Seq(Nat))]
  BY <1>1 DEF Typed, setup
<1>3. /\ src' \in [Sources -> SourceState] /\ \A z \in Sources : Sound(z, src[z])'
      /\ batches' \in [Tags -> Seq(Seq(Nat))]
      /\ \A u \in Tags :
           /\ Listed(u)' = IF Up[u] = s THEN u \in Subs(a) ELSE Listed(u)
           /\ Owing(u)' + Len(InFlight(u)') = Len(FlattenSeq(batches[u])) +
                 IF Up[u] = s THEN Owe(s, a, u) ELSE Owing(u)
           /\ Up[u] = s /\ Owe(s, a, u) = 0 => Owing(u)' = 0 /\ batches'[u] = batches[u]
           /\ Up[u] # s => Owing(u)' = Owing(u) /\ batches'[u] = batches[u]
  <2>1. PICK B \in [Tags -> Seq(Seq(Nat))] : B = batches
    BY <1>2
  <2>2. batches' = [u \in Tags |-> B[u] \o w.out[u]] /\ UNCHANGED <<disp, part>>
    BY <1>2, <2>1
  <2>3. Sends(s, a, B)
    BY <1>1, <2>2, EmitEffect
  <2> QED BY <2>1, <2>3 DEF Sends
<1>4. Typed'
  BY <1>1, <1>3, TypedSource DEF Typed, working
<1>5. \A u \in Tags : Listed(u)' = Listed(u)
  BY <1>3 DEF Listed
<1>6. /\ made' = made /\ calling' = calling /\ deferred' = deferred /\ active' = active
      /\ cancelling' = cancelling
  BY DEF subscribing
<1>7. Placed'
  BY <1>1, <1>5, <1>6 DEF Placed
<1>8. /\ workers' = workers /\ respawned' = respawned /\ downs' = downs
      /\ pending' = pending /\ released' = released
  BY DEF working
<1>9. ASSUME NEW u \in Tags PROVE Accounts(u)'
  <2>1. /\ released'[u] <= released[u] /\ workers'[u] <= workers[u]
        /\ respawned'[u] <= respawned[u] /\ downs'[u] <= downs[u]
    BY <1>1, <1>8, SameCounts
  <2>2. Fresh(u)' => Fresh(u)
    BY <1>5, <1>6 DEF Fresh
  <2>3. Untouched(u) => Untouched(u)'
    <3> SUFFICES ASSUME Untouched(u) PROVE Untouched(u)'
      OBVIOUS
    <3>1. asks'[u] = asks[u]
      OBVIOUS
    <3>2. Owing(u)' = 0 /\ batches'[u] = batches[u]
      BY <1>3 DEF Untouched
    <3> QED BY <1>8, <3>1, <3>2 DEF Untouched
  <2>4. /\ Have(u)' <= Have(u) /\ (u \in active' => Have(u)' = Have(u))
    <3>1. /\ Asked(u) \in Nat /\ Owing(u) \in Nat /\ Len(InFlight(u)) \in Nat
      BY <1>1, Counts
    <3>2. Asked(u)' \in Nat /\ Owing(u)' \in Nat /\ Len(InFlight(u)') \in Nat
      BY <1>4, CountsNext
    <3>3. Asked(u)' = Total(asks'[u]) /\ InFlight(u) = FlattenSeq(batches[u])
      BY DEF Asked, InFlight
    <3>4. PICK p, o, l \in Nat : p = Asked(u) /\ o = Owing(u) /\ l = Len(InFlight(u))
      BY <3>1
    <3>5. PICK p1, o1, l1 \in Nat : p1 = Asked(u)' /\ o1 = Owing(u)' /\ l1 = Len(InFlight(u)')
      BY <3>2
    <3>6. CASE Up[u] = s
      <4>1. PICK v \in Nat : v = Owe(s, a, u)
        BY OweType DEF Sound
      <4>2. o1 + l1 = l + v
        BY <1>3, <3>3, <3>4, <3>5, <3>6, <4>1
      <4>3. v + p1 <= o + p /\ (u \in active => v + p1 = o + p)
        BY <3>3, <3>4, <3>5, <3>6, <4>1
      <4>4. p1 + o1 + l1 <= p + o + l /\ (u \in active => p1 + o1 + l1 = p + o + l)
        BY <4>2, <4>3, SMTT(60)
      <4> QED BY <1>6, <3>4, <3>5, <4>4 DEF Have
    <3>7. CASE Up[u] # s
      <4>1. p1 = p
        BY <3>3, <3>4, <3>5, <3>7 DEF Asked
      <4>2. o1 + l1 = l + o
        BY <1>3, <3>3, <3>4, <3>5, <3>7
      <4>3. p1 + o1 + l1 = p + o + l
        BY <4>1, <4>2
      <4>4. p1 + o1 + l1 <= p + o + l
        BY <4>3
      <4> QED BY <3>4, <3>5, <4>3, <4>4 DEF Have
    <3> QED BY <3>6, <3>7
  <2> QED BY <1>1, <1>4, <1>6, <1>8, <2>1, <2>2, <2>3, <2>4, AccountsKept
<1> QED BY <1>4, <1>7, <1>9 DEF DemandInv

\* The events that are new, and the numbers that are left.
LEMMA HandleDemandSettles ==
    ASSUME Typed, NEW s \in Producers, NEW a, Sound(s, a), NEW w,
           w = [state |-> w.state, out |-> w.out], Settles(s, a, w),
           NEW d \in Nat, handleDemand(s, w, d)
    PROVE  /\ next' \in [Producers -> Nat] /\ \A z \in Producers : next'[z] <= Events(z)
           /\ \E v : /\ Settles(s, a, v) /\ src' = [src EXCEPT ![s] = v.state]
                     /\ batches' = [u \in Tags |-> batches[u] \o v.out[u]]
<1>1. PICK k \in Supply(s, d) :
         LET events == [i \in 1..k |-> next[s] + i - 1]
         IN  /\ Emit(s, IF k > 0 THEN dispatchOrBuffer(s, w, events) ELSE w)
             /\ next' = [next EXCEPT ![s] = @ + k]
  BY DEF handleDemand
<1>2. /\ s \in Sources /\ disp[s] \in Kinds /\ part \in [Tags -> Partitions]
      /\ next \in [Producers -> Nat] /\ \A z \in Producers : next[z] <= Events(z)
      /\ willing \in BOOLEAN /\ disp \in [Sources -> Kinds]
  BY DEF Typed, Sources
<1>3. Events(s) \in Nat
  <2>1. <<disp[s], willing>> \in Kinds \X BOOLEAN
    BY <1>2
  <2>2. MaxEvents \in [Kinds \X BOOLEAN -> Nat]
    BY StagesAssumption
  <2>3. Events(s) = MaxEvents[<<disp[s], willing>>]
    BY Zenon DEF Events
  <2> QED BY <2>1, <2>2, <2>3
<1>4. k \in Nat /\ next[s] + k <= Events(s)
  <2>1. PICK e, n, o \in Nat : e = Events(s) /\ n = next[s] /\ o = Overshoot /\ n <= e
    BY <1>2, <1>3, StagesAssumption
  <2>2. k \in IF willing THEN {Smaller(d, e - n)} ELSE 0..Smaller(d + o, e - n)
    BY <2>1 DEF Supply
  <2>3. k \in Nat /\ n + k <= e
    BY <2>1, <2>2 DEF Smaller
  <2> QED BY <2>1, <2>3
<1>5. next' \in [Producers -> Nat] /\ \A z \in Producers : next'[z] <= Events(z)
  <2>1. PICK m \in Nat : m = next[s] + k
    BY <1>2, <1>4
  <2>2. next' = [next EXCEPT ![s] = m]
    BY <1>1, <2>1
  <2> QED BY <1>2, <1>4, <2>1, <2>2
<1>6. PICK events : events = [i \in 1..k |-> next[s] + i - 1]
  OBVIOUS
<1>7. events \in Seq(Nat)
  <2>1. PICK n \in Nat : n = next[s]
    BY <1>2
  <2>2. \A i \in 1..k : n + i - 1 \in Nat
    BY <1>4
  <2>3. events \in [1..k -> Nat]
    BY <1>6, <2>1, <2>2
  <2> QED BY <1>4, <2>3
<1>8. PICK v : v = IF k > 0 THEN dispatchOrBuffer(s, w, events) ELSE w
  OBVIOUS
<1>9. Settles(s, a, dispatchOrBuffer(s, w, events))
  BY <1>2, <1>7, DispatchSettles
<1>10. Settles(s, a, v)
  BY <1>8, <1>9
<1>11. Emit(s, v)
  BY <1>1, <1>6, <1>8
<1> QED BY <1>5, <1>10, <1>11 DEF Emit

\* Demand is switched to "forward".
LEMMA DemandSwitch ==
    ASSUME DemandInv, NEW s \in Producers, switchDemandMode(s)
    PROVE  DemandInv'
<1> USE DEF switchDemandMode
<1>1. Typed
  BY DEF DemandInv
<1>2. s \in Sources
  BY DEF Sources
<1>3. Sound(s, src[s]) /\ src[s] \in SourceState
  BY <1>1, <1>2 DEF Typed
<1>4. PICK a, b : a = src[s] /\ b = [src[s] EXCEPT !.mode = "forward", !.accumulated = 0]
  OBVIOUS
<1>5. /\ b \in SourceState /\ b.subs = a.subs /\ b.demand = a.demand
      /\ b.waiting = a.waiting /\ b.requested = a.requested
  BY <1>3, <1>4 DEF SourceState
<1>6. Sound(s, a) /\ Sound(s, b) /\ \A t \in Tags : Owe(s, b, t) = Owe(s, a, t)
  <2>1. Sound(s, a)
    BY <1>3, <1>4
  <2> QED BY <1>5, <2>1, SameDebts
<1>7. PICK w : w = [state |-> b, out |-> Nothing]
  OBVIOUS
<1>8. Settles(s, a, w) /\ w = [state |-> w.state, out |-> w.out]
  BY <1>5, <1>6, <1>7, SettlesNothing
<1>9. /\ next' \in [Producers -> Nat] /\ \A z \in Producers : next'[z] <= Events(z)
      /\ \E v : /\ Settles(s, a, v) /\ src' = [src EXCEPT ![s] = v.state]
                /\ batches' = [u \in Tags |-> batches[u] \o v.out[u]]
  <2>1. CASE src[s].accumulated > 0
    <3>1. PICK d \in Nat : d = src[s].accumulated
      BY <1>3, Fields
    <3>2. handleDemand(s, w, d)
      BY <1>4, <1>7, <2>1, <3>1
    <3> QED BY <1>1, <1>6, <1>8, <3>2, HandleDemandSettles
  <2>2. CASE ~(src[s].accumulated > 0)
    <3>1. Emit(s, w) /\ next' = next
      BY <1>4, <1>7, <2>2
    <3> QED BY <1>1, <1>8, <3>1 DEF Emit, Typed
  <2> QED BY <2>1, <2>2
<1>10. PICK v : /\ Settles(s, a, v) /\ src' = [src EXCEPT ![s] = v.state]
                /\ batches' = [u \in Tags |-> batches[u] \o v.out[u]]
  BY <1>9
<1>11. asks' = asks /\ asks \in [Tags -> Seq(Nat)] /\ Subs(a) = Subs(src[s])
  BY <1>1, <1>4 DEF Typed
<1>12. ASSUME NEW u \in Tags, Up[u] = s
       PROVE  /\ Untouched(u) => asks'[u] = asks[u] /\ Owe(s, a, u) = Owing(u)
              /\ Owe(s, a, u) + Total(asks'[u]) <= Owing(u) + Asked(u)
              /\ u \in active => Owe(s, a, u) + Total(asks'[u]) = Owing(u) + Asked(u)
  <2>1. Owe(s, a, u) = Owing(u)
    BY <1>4, <1>12 DEF Owing
  <2>2. Total(asks'[u]) = Asked(u)
    BY <1>11 DEF Asked
  <2>3. PICK x, y \in Nat : x = Owing(u) /\ y = Asked(u)
    BY <1>1, Counts
  <2>4. x + y <= x + y
    OBVIOUS
  <2> QED BY <1>11, <2>1, <2>2, <2>3, <2>4
<1> QED BY <1>2, <1>6, <1>9, <1>10, <1>11, <1>12, SourceStep, ZenonT(60)

(* An ask of t arrives at its source, whose state becomes a: what was      *)
(* asked for is owed.                                                      *)
AskMoves(t, a) ==
    /\ asks' \in [Tags -> Seq(Nat)]
    /\ \A u \in Tags : Up[u] # Up[t] => asks'[u] = asks[u]
    /\ \A u \in Tags : Up[u] = Up[t] =>
          /\ Untouched(u) => asks'[u] = asks[u] /\ Owe(Up[t], a, u) = Owing(u)
          /\ Owe(Up[t], a, u) + Total(asks'[u]) <= Owing(u) + Asked(u)
          /\ u \in active => Owe(Up[t], a, u) + Total(asks'[u]) = Owing(u) + Asked(u)

\* An ask that the source records, or ignores, moves.
LEMMA AskEffect ==
    ASSUME DemandInv, NEW t \in Tags, NEW i, AskArrives(t, i), NEW a,
           \A u \in Tags : Owe(Up[t], a, u) = Owe(Up[t], src[Up[t]], u)
                             + (IF u = t /\ t \in Subs(src[Up[t]]) THEN asks[t][i] ELSE 0)
    PROVE  AskMoves(t, a)
<1>1. Typed /\ Accounts(t)
  BY DEF DemandInv
<1>2. /\ i \in DOMAIN asks[t] /\ asks' = [asks EXCEPT ![t] = RemoveAt(@, i)]
      /\ asks \in [Tags -> Seq(Nat)] /\ asks[t] \in Seq(Nat)
  BY <1>1 DEF AskArrives, Typed
<1>3. RemoveAt(asks[t], i) \in Seq(Nat) /\ Total(RemoveAt(asks[t], i)) = Total(asks[t]) - asks[t][i]
  BY <1>2, TotalRemoveAt
<1>4. PICK q : q = RemoveAt(asks[t], i)
  OBVIOUS
<1>5. asks' = [asks EXCEPT ![t] = q] /\ q \in Seq(Nat)
  BY <1>2, <1>3, <1>4
<1>6. asks' \in [Tags -> Seq(Nat)] /\ asks'[t] = q /\ \A u \in Tags \ {t} : asks'[u] = asks[u]
  BY <1>2, <1>5
<1>7. asks[t][i] \in Nat /\ asks[t] # <<>>
  BY <1>2
<1>8. ASSUME NEW u \in Tags, Up[u] = Up[t]
      PROVE  /\ Untouched(u) => asks'[u] = asks[u] /\ Owe(Up[t], a, u) = Owing(u)
             /\ Owe(Up[t], a, u) + Total(asks'[u]) <= Owing(u) + Asked(u)
             /\ u \in active => Owe(Up[t], a, u) + Total(asks'[u]) = Owing(u) + Asked(u)
  <2>1. PICK o, p \in Nat : o = Owing(u) /\ p = Asked(u)
    BY <1>1, Counts
  <2>2. Owe(Up[t], src[Up[t]], u) = o /\ Total(asks[u]) = p
    BY <1>8, <2>1 DEF Owing, Asked
  <2>3. CASE u # t
    <3>1. Owe(Up[t], a, u) = o
      BY <2>2, <2>3
    <3>2. asks'[u] = asks[u]
      BY <1>6, <2>3
    <3>3. o + p <= o + p
      OBVIOUS
    <3> QED BY <2>1, <2>2, <3>1, <3>2, <3>3
  <2>4. CASE u = t
    <3>1. ~Untouched(u)
      BY <1>7, <2>4 DEF Untouched
    <3>2. PICK d \in Nat : d = asks[t][i]
      BY <1>7
    <3>3. Total(asks'[u]) = p - d
      BY <1>3, <1>4, <1>6, <2>2, <2>4, <3>2
    <3>4. PICK p1 \in Nat : p1 = Total(asks'[u])
      BY <1>6, TotalType
    <3>5. CASE t \in Subs(src[Up[t]])
      <4>1. Owe(Up[t], a, u) = o + d
        BY <2>2, <2>4, <3>2, <3>5
      <4>2. o + d + p1 = o + p
        BY <3>3, <3>4
      <4>3. o + d + p1 <= o + p
        BY <4>2
      <4> QED BY <2>1, <3>1, <3>4, <4>1, <4>2, <4>3
    <3>6. CASE t \notin Subs(src[Up[t]])
      <4>1. Owe(Up[t], a, u) = o
        BY <2>2, <2>4, <3>6
      <4>2. o + p1 <= o + p
        BY <3>3, <3>4
      <4>3. u \notin active
        BY <1>1, <2>4, <3>1, <3>6 DEF Accounts, Fresh, Listed
      <4> QED BY <2>1, <3>1, <3>4, <4>1, <4>2, <4>3
    <3> QED BY <3>5, <3>6
  <2> QED BY <2>3, <2>4
<1>9. \A u \in Tags : Up[u] # Up[t] => asks'[u] = asks[u]
  BY <1>6
<1> QED BY <1>6, <1>8, <1>9 DEF AskMoves

\* A source handles an ask; w is what it dispatches from the state a.
LEMMA AskStep ==
    ASSUME DemandInv, NEW t \in Tags, NEW i, AskArrives(t, i),
           NEW a, Sound(Up[t], a), Subs(a) = Subs(src[Up[t]]), AskMoves(t, a),
           NEW w, Settles(Up[t], a, w), src' = [src EXCEPT ![Up[t]] = w.state],
           batches' = [u \in Tags |-> batches[u] \o w.out[u]],
           next' \in [Producers -> Nat], \A z \in Producers : next'[z] <= Events(z)
    PROVE  DemandInv'
<1>1. PICK s \in Sources : s = Up[t]
  BY StagesAssumption
<1>2. UNCHANGED <<setup, subscribing, pending, taken, released, working>>
  BY DEF AskArrives
<1>3. /\ Sound(s, a) /\ Subs(a) = Subs(src[s]) /\ Settles(s, a, w)
      /\ src' = [src EXCEPT ![s] = w.state]
  BY <1>1
<1>4. /\ asks' \in [Tags -> Seq(Nat)]
      /\ \A u \in Tags : Up[u] # s => asks'[u] = asks[u]
      /\ \A u \in Tags : Up[u] = s =>
            /\ Untouched(u) => asks'[u] = asks[u] /\ Owe(s, a, u) = Owing(u)
            /\ Owe(s, a, u) + Total(asks'[u]) <= Owing(u) + Asked(u)
            /\ u \in active => Owe(s, a, u) + Total(asks'[u]) = Owing(u) + Asked(u)
  BY <1>1 DEF AskMoves
<1> QED BY <1>2, <1>3, <1>4, SourceStep

\* An ask for nothing leaves the source as it is.
LEMMA AskForNothing ==
    ASSUME DemandInv, NEW t \in Tags, NEW i, AskArrives(t, i), asks[t][i] = 0,
           UNCHANGED <<src, batches, next>>
    PROVE  DemandInv'
<1>1. Typed
  BY DEF DemandInv
<1>2. PICK a : a = src[Up[t]]
  OBVIOUS
<1>3. Up[t] \in Sources /\ Sound(Up[t], a) /\ src \in [Sources -> SourceState]
  BY <1>1, <1>2, Counts DEF Typed
<1>4. PICK w : w = [state |-> a, out |-> Nothing]
  OBVIOUS
<1>5. Settles(Up[t], a, w)
  BY <1>3, <1>4, SettlesNothing
<1>6. w.state = a /\ \A u \in Tags : w.out[u] = <<>>
  BY <1>4 DEF Nothing
<1>7. src' = [src EXCEPT ![Up[t]] = w.state]
  BY <1>2, <1>3, <1>6
<1>8. batches \in [Tags -> Seq(Seq(Nat))]
  BY <1>1 DEF Typed
<1>9. \A u \in Tags : batches[u] \o w.out[u] = batches[u]
  BY <1>6, <1>8, ConcatEmptySeq
<1>10. batches' = [u \in Tags |-> batches[u] \o w.out[u]]
  BY <1>8, <1>9
<1>11. next' \in [Producers -> Nat] /\ \A z \in Producers : next'[z] <= Events(z)
  BY <1>1 DEF Typed
<1>12. AskMoves(t, a)
  <2>1. ASSUME NEW u \in Tags
        PROVE  Owe(Up[t], a, u) = Owe(Up[t], src[Up[t]], u)
                 + (IF u = t /\ t \in Subs(src[Up[t]]) THEN asks[t][i] ELSE 0)
    <3>1. Owe(Up[t], a, u) \in Nat
      BY <1>3, OweType DEF Sound
    <3> QED BY <1>2, <3>1
  <2> QED BY <2>1, AskEffect
<1>13. Subs(a) = Subs(src[Up[t]])
  BY <1>2
<1> QED BY <1>3, <1>5, <1>7, <1>10, <1>11, <1>12, <1>13, AskStep

\* What the dispatcher does with an ask.
LEMMA AskRecorded ==
    ASSUME DemandInv, NEW t \in Tags, NEW i, AskArrives(t, i), NEW r,
           r = Ask(Up[t], src[Up[t]], t, asks[t][i])
    PROVE  /\ Sound(Up[t], r.state) /\ Subs(r.state) = Subs(src[Up[t]]) /\ r.request \in Nat
           /\ AskMoves(t, r.state)
<1>1. Typed
  BY DEF DemandInv
<1>2. PICK s, a : s = Up[t] /\ a = src[s]
  OBVIOUS
<1>3. s \in Sources /\ Sound(s, a) /\ disp[s] \in Kinds
  BY <1>1, <1>2, Counts
<1>4. PICK d \in Nat : d = asks[t][i]
  BY <1>1 DEF AskArrives, Typed
<1>5. r = Ask(s, a, t, d)
  BY <1>2, <1>4
<1>6. /\ Sound(s, r.state) /\ r.state.subs = a.subs /\ r.request \in Nat
      /\ \A u \in Tags : Owe(s, r.state, u) = Owe(s, a, u) + (IF u = t /\ t \in Subs(a) THEN d ELSE 0)
  BY <1>3, <1>5, AskOwes
<1>7. Subs(r.state) = Subs(a)
  BY <1>6 DEF Subs
<1>8. AskMoves(t, r.state)
  <2>1. \A u \in Tags : Owe(Up[t], r.state, u) = Owe(Up[t], src[Up[t]], u)
                 + (IF u = t /\ t \in Subs(src[Up[t]]) THEN asks[t][i] ELSE 0)
    BY <1>2, <1>4, <1>6
  <2> QED BY <2>1, AskEffect
<1> QED BY <1>2, <1>6, <1>7, <1>8

\* A producer handles an ask.
LEMMA DemandHandleAsk ==
    ASSUME DemandInv, NEW t \in Tags, NEW i, handleAsk(t, i)
    PROVE  DemandInv'
<1> USE DEF handleAsk
<1>1. Typed
  BY DEF DemandInv
<1>2. PICK s, r : s = Up[t] /\ r = Ask(s, src[s], t, asks[t][i])
  OBVIOUS
<1>3. s \in Producers /\ AskArrives(t, i) /\ s \in Sources /\ disp[s] \in Kinds /\ part \in [Tags -> Partitions]
  BY <1>1, <1>2, Counts DEF Typed
<1>4. /\ Sound(s, r.state) /\ Subs(r.state) = Subs(src[s]) /\ r.request \in Nat
      /\ AskMoves(t, r.state)
  BY <1>2, <1>3, AskRecorded
<1>5. PICK a : a = r.state
  OBVIOUS
<1>6. Sound(s, a) /\ Subs(a) = Subs(src[s]) /\ AskMoves(t, a)
  BY <1>4, <1>5
<1>7. PICK w : w = drainBuffer(s, a)
  OBVIOUS
<1>8. Settles(s, a, w)
  BY <1>3, <1>6, <1>7, DrainSettles, SMTT(60)
<1>9. w = [state |-> w.state, out |-> w.out]
  BY <1>7 DEF drainBuffer
<1>10. CASE asks[t][i] = 0
  <2>1. UNCHANGED <<src, batches, next>>
    BY <1>10, SMTT(60)
  <2> QED BY <1>3, <1>10, <2>1, AskForNothing
<1>11. CASE asks[t][i] # 0
  <2>1. \/ Emit(s, w) /\ next' = next
        \/ /\ Emit(s, [w EXCEPT !.state.accumulated = @ + r.request]) /\ next' = next
        \/ handleDemand(s, w, r.request)
    BY <1>2, <1>5, <1>7, <1>11
  <2>2. /\ next' \in [Producers -> Nat] /\ \A z \in Producers : next'[z] <= Events(z)
        /\ \E v : /\ Settles(s, a, v) /\ src' = [src EXCEPT ![s] = v.state]
                  /\ batches' = [u \in Tags |-> batches[u] \o v.out[u]]
    <3>1. CASE Emit(s, w) /\ next' = next
      BY <1>1, <1>8, <3>1 DEF Emit, Typed
    <3>2. CASE Emit(s, [w EXCEPT !.state.accumulated = @ + r.request]) /\ next' = next
      <4>1. PICK b, c : b = w.state /\ c = [b EXCEPT !.accumulated = @ + r.request]
        OBVIOUS
      <4>2. Sound(s, b) /\ b \in SourceState /\ b.subs = a.subs
        BY <1>8, <4>1 DEF Settles, Sound
      <4>3. b.accumulated + r.request \in Nat
        BY <1>4, <4>2, Fields
      <4>4. /\ c \in SourceState /\ c.subs = b.subs /\ c.demand = b.demand
            /\ c.waiting = b.waiting /\ c.requested = b.requested
        BY <4>1, <4>2, <4>3 DEF SourceState
      <4>5. Sound(s, c) /\ \A u \in Tags : Owe(s, c, u) = Owe(s, b, u)
        BY <4>2, <4>4, SameDebts
      <4>6. PICK v : v = [w EXCEPT !.state.accumulated = @ + r.request]
        OBVIOUS
      <4>7. v.state = c /\ v.out = w.out
        BY <1>9, <4>1, <4>6
      <4>8. Settles(s, a, v)
        BY <1>8, <4>1, <4>2, <4>4, <4>5, <4>7, ZenonT(60) DEF Settles
      <4>9. Emit(s, v)
        BY <3>2, <4>6
      <4> QED BY <1>1, <3>2, <4>8, <4>9 DEF Emit, Typed
    <3>3. CASE handleDemand(s, w, r.request)
      <4>1. PICK d \in Nat : d = r.request
        BY <1>4
      <4> QED BY <1>1, <1>3, <1>6, <1>8, <1>9, <3>3, <4>1, HandleDemandSettles
    <3> QED BY <2>1, <3>1, <3>2, <3>3, ZenonT(60)
  <2>3. PICK v : /\ Settles(s, a, v) /\ src' = [src EXCEPT ![s] = v.state]
                 /\ batches' = [u \in Tags |-> batches[u] \o v.out[u]]
    BY <2>2
  <2>4. /\ Sound(Up[t], a) /\ Subs(a) = Subs(src[Up[t]]) /\ Settles(Up[t], a, v)
        /\ src' = [src EXCEPT ![Up[t]] = v.state]
    BY <1>2, <1>6, <2>3
  <2> QED BY <1>3, <1>6, <2>2, <2>3, <2>4, AskStep
<1> QED BY <1>10, <1>11

\* A producer-consumer handles an ask.
LEMMA DemandHandleDownstreamAsk ==
    ASSUME DemandInv, NEW t \in Tags, NEW i, handleDownstreamAsk(t, i)
    PROVE  DemandInv'
<1> USE DEF handleDownstreamAsk
<1>1. Typed
  BY DEF DemandInv
<1>2. PICK s, r : s = Up[t] /\ r = Ask(s, src[s], t, asks[t][i])
  OBVIOUS
<1>3. /\ AskArrives(t, i) /\ s \in Sources /\ disp[s] \in Kinds /\ part \in [Tags -> Partitions]
      /\ next' = next
  BY <1>1, <1>2, Counts DEF Typed
<1>4. /\ Sound(s, r.state) /\ Subs(r.state) = Subs(src[s]) /\ AskMoves(t, r.state)
  BY <1>2, <1>3, AskRecorded
<1>5. PICK a : a = r.state
  OBVIOUS
<1>6. Sound(s, a) /\ Subs(a) = Subs(src[s]) /\ AskMoves(t, a)
  BY <1>4, <1>5
<1>7. next' \in [Producers -> Nat] /\ \A z \in Producers : next'[z] <= Events(z)
  BY <1>1, <1>3 DEF Typed
<1>8. CASE asks[t][i] = 0
  <2>1. UNCHANGED <<src, batches, next>>
    BY <1>8
  <2> QED BY <1>3, <1>8, <2>1, AskForNothing
<1>9. CASE asks[t][i] # 0
  <2>1. \/ src' = [src EXCEPT ![s] = a] /\ batches' = batches
        \/ Emit(s, drainBuffer(s, a))
    BY <1>2, <1>5, <1>9
  <2>2. \E v : /\ Settles(s, a, v) /\ src' = [src EXCEPT ![s] = v.state]
               /\ batches' = [u \in Tags |-> batches[u] \o v.out[u]]
    <3>1. CASE src' = [src EXCEPT ![s] = a] /\ batches' = batches
      <4>1. PICK v : v = [state |-> a, out |-> Nothing]
        OBVIOUS
      <4>2. Settles(s, a, v)
        BY <1>6, <4>1, SettlesNothing
      <4>3. v.state = a /\ \A u \in Tags : v.out[u] = <<>>
        BY <4>1 DEF Nothing
      <4>4. batches \in [Tags -> Seq(Seq(Nat))]
        BY <1>1 DEF Typed
      <4>5. \A u \in Tags : batches[u] \o v.out[u] = batches[u]
        BY <4>3, <4>4, ConcatEmptySeq
      <4>6. batches' = [u \in Tags |-> batches[u] \o v.out[u]]
        BY <3>1, <4>4, <4>5
      <4> QED BY <3>1, <4>2, <4>3, <4>6
    <3>2. CASE Emit(s, drainBuffer(s, a))
      <4>1. Settles(s, a, drainBuffer(s, a))
        BY <1>3, <1>6, DrainSettles
      <4> QED BY <3>2, <4>1 DEF Emit
    <3> QED BY <2>1, <3>1, <3>2
  <2>3. PICK v : /\ Settles(s, a, v) /\ src' = [src EXCEPT ![s] = v.state]
                 /\ batches' = [u \in Tags |-> batches[u] \o v.out[u]]
    BY <2>2
  <2>4. /\ Sound(Up[t], a) /\ Subs(a) = Subs(src[Up[t]]) /\ Settles(Up[t], a, v)
        /\ src' = [src EXCEPT ![Up[t]] = v.state]
    BY <1>2, <1>6, <2>3
  <2> QED BY <1>3, <1>6, <1>7, <2>3, <2>4, AskStep
<1> QED BY <1>8, <1>9

\* A producer-consumer passes on what it received, or nothing.
LEMMA UpstreamSettles ==
    ASSUME Typed, NEW t \in Tags, handleUpstreamEvents(t)
    PROVE  /\ Down[t] \in Sources
           /\ \E w : /\ Settles(Down[t], src[Down[t]], w)
                     /\ src' = [src EXCEPT ![Down[t]] = w.state]
                     /\ batches' = [u \in Tags |-> (IF u = t THEN Tail(batches[u]) ELSE batches[u]) \o w.out[u]]
<1> USE DEF handleUpstreamEvents
<1>1. PICK s, a : s = Down[t] /\ a = src[s]
  OBVIOUS
<1>2. s \in Sources /\ batches[t] # <<>>
  BY <1>1 DEF Sources, BatchArrives
<1>3. Sound(s, a) /\ disp[s] \in Kinds /\ part \in [Tags -> Partitions]
  BY <1>1, <1>2 DEF Typed
<1>4. PICK idle : idle = [state |-> a, out |-> Nothing]
  OBVIOUS
<1>5. Settles(s, a, idle) /\ idle = [state |-> idle.state, out |-> idle.out]
  BY <1>3, <1>4, SettlesNothing
<1>6. Head(batches[t]) \in Seq(Nat)
  BY <1>2, FirstBatch
<1>7. PICK events \in {Head(batches[t]), <<>>} :
         LET w == IF events = <<>> THEN idle ELSE dispatchOrBuffer(s, idle, events)
         IN  /\ src' = [src EXCEPT ![s] = w.state]
             /\ batches' = [u \in Tags |-> (IF u = t THEN Tail(batches[u])
                                            ELSE batches[u]) \o w.out[u]]
  BY <1>1, <1>4
<1>8. events \in Seq(Nat)
  <2>1. <<>> \in Seq(Nat)
    OBVIOUS
  <2> QED BY <1>6, <1>7, <2>1
<1>9. PICK w : w = IF events = <<>> THEN idle ELSE dispatchOrBuffer(s, idle, events)
  OBVIOUS
<1>10. Settles(s, a, dispatchOrBuffer(s, idle, events))
  BY <1>3, <1>5, <1>8, DispatchSettles
<1>11. Settles(s, a, w)
  BY <1>5, <1>9, <1>10
<1>12. /\ src' = [src EXCEPT ![s] = w.state]
       /\ batches' = [u \in Tags |-> (IF u = t THEN Tail(batches[u]) ELSE batches[u]) \o w.out[u]]
  BY <1>7, <1>9
<1> QED BY <1>1, <1>2, <1>11, <1>12

\* A producer-consumer receives a batch.
LEMMA DemandHandleUpstreamEvents ==
    ASSUME DemandInv, NEW t \in Tags, handleUpstreamEvents(t)
    PROVE  DemandInv'
<1>1. Typed /\ Placed /\ \A u \in Tags : Accounts(u)
  BY DEF DemandInv
<1>2. PICK s, w :
         /\ s \in Sources /\ s = Down[t] /\ Settles(s, src[s], w) /\ src' = [src EXCEPT ![s] = w.state]
         /\ batches' = [u \in Tags |-> (IF u = t THEN Tail(batches[u]) ELSE batches[u]) \o w.out[u]]
  <2>1. /\ Down[t] \in Sources
        /\ \E w : /\ Settles(Down[t], src[Down[t]], w)
                  /\ src' = [src EXCEPT ![Down[t]] = w.state]
                  /\ batches' = [u \in Tags |-> (IF u = t THEN Tail(batches[u]) ELSE batches[u]) \o w.out[u]]
    BY <1>1, UpstreamSettles
  <2> QED BY <2>1
<1>3. /\ BatchArrives(t) /\ batches[t] # <<>> /\ t \in active /\ Down[t] \in ProducerConsumers
      /\ Reask(t, Less(t, Len(Head(batches[t]))))
      /\ UNCHANGED <<setup, next, subscribing, released, working>>
  BY DEF handleUpstreamEvents, BatchArrives
<1>4. /\ Head(batches[t]) \in Seq(Nat) /\ Tail(batches[t]) \in Seq(Seq(Nat))
      /\ Len(Head(batches[t])) \in Nat /\ Len(FlattenSeq(Tail(batches[t]))) \in Nat
      /\ Len(InFlight(t)) = Len(Head(batches[t])) + Len(FlattenSeq(Tail(batches[t])))
  BY <1>1, <1>3, FirstBatch
<1>5. batches \in [Tags -> Seq(Seq(Nat))] /\ taken \in [Tags -> Seq(Nat)]
  BY <1>1 DEF Typed
<1>6. PICK B \in [Tags -> Seq(Seq(Nat))] : B = [u \in Tags |-> IF u = t THEN Tail(batches[u]) ELSE batches[u]]
  BY <1>4, <1>5
<1>7. B[t] = Tail(batches[t]) /\ \A u \in Tags \ {t} : B[u] = batches[u]
  BY <1>6
<1>8. Sends(s, src[s], B)
  <2>1. batches' = [u \in Tags |-> B[u] \o w.out[u]]
    BY <1>2, <1>6
  <2>2. UNCHANGED <<disp, part>>
    BY <1>3 DEF setup
  <2>3. PICK a : a = src[s]
    OBVIOUS
  <2>4. Sound(s, a) /\ Settles(s, a, w)
    BY <1>1, <1>2, <2>3 DEF Typed
  <2>5. Sends(s, a, B)
    BY <1>1, <1>2, <2>1, <2>2, <2>4, EmitEffect
  <2> QED BY <2>3, <2>5
<1>9. PICK n \in Nat : n = Len(Head(batches[t]))
  BY <1>4
<1>10. PICK left : left = Less(t, n)
  OBVIOUS
<1>11. /\ pending[t] \in Nat /\ Asked(t) \in Nat /\ Owing(t) \in Nat /\ Len(InFlight(t)) \in Nat
       /\ MaxDemand \in Nat
  BY <1>1, Counts
<1>12. left \in Nat /\ left = pending[t] - n /\ left <= MaxDemand
  <2>1. n <= Len(InFlight(t))
    <3>1. PICK m \in Nat : m = Len(FlattenSeq(Tail(batches[t])))
      BY <1>4
    <3>2. Len(InFlight(t)) = n + m
      BY <1>4, <1>9, <3>1
    <3> QED BY <3>2
  <2>2. left \in Nat /\ left = pending[t] - n /\ left <= pending[t] /\ pending[t] <= MaxDemand
    BY <1>1, <1>3, <1>10, <2>1, LessIs
  <2> QED BY <1>11, <2>2
<1>13. PICK extra \in Nat :
         /\ pending' \in [Tags -> Nat] /\ asks' \in [Tags -> Seq(Nat)]
         /\ \A u \in Tags \ {t} : asks'[u] = asks[u] /\ pending'[u] = pending[u]
         /\ pending'[t] = left + extra /\ Asked(t)' = Asked(t) + extra
         /\ left + extra <= MaxDemand
  <2>1. Reask(t, left)
    BY <1>3, <1>9, <1>10
  <2> QED BY <1>1, <1>12, <2>1, ReaskCounts
<1>14. taken' \in [Tags -> Seq(Nat)]
  <2>1. PICK q : q = taken[t] \o Head(batches[t])
    OBVIOUS
  <2>2. q \in Seq(Nat) /\ taken' = [taken EXCEPT ![t] = q]
    BY <1>3, <1>4, <1>5, <2>1, ConcatProperties DEF BatchArrives
  <2> QED BY <1>5, <2>2
<1>15. Typed'
  BY <1>1, <1>3, <1>8, <1>13, <1>14, TypedSource DEF Sends, Typed, working
<1>16. ASSUME NEW u \in Tags
       PROVE  /\ Listed(u)' = Listed(u)
              /\ Owing(u)' + Len(InFlight(u)') = Len(FlattenSeq(B[u])) + Owing(u)
              /\ Owing(u) = 0 => Owing(u)' = 0 /\ batches'[u] = B[u]
  BY <1>8 DEF Sends, Listed, Owing
<1>17. /\ made' = made /\ calling' = calling /\ deferred' = deferred /\ active' = active
       /\ cancelling' = cancelling
       /\ workers' = workers /\ respawned' = respawned /\ downs' = downs /\ released' = released
  BY <1>3 DEF subscribing, working
<1>18. Placed'
  BY <1>1, <1>16, <1>17 DEF Placed
<1>19. ASSUME NEW u \in Tags PROVE Accounts(u)'
  <2>1. PICK p, o, l \in Nat : p = Asked(u) /\ o = Owing(u) /\ l = Len(InFlight(u))
    BY <1>1, Counts
  <2>2. PICK p1, o1, l1 \in Nat : p1 = Asked(u)' /\ o1 = Owing(u)' /\ l1 = Len(InFlight(u)')
    BY <1>15, CountsNext
  <2>3. Fresh(u)' => Fresh(u)
    BY <1>16, <1>17 DEF Fresh
  <2>4. CASE u # t
    <3>1. /\ released'[u] <= released[u] /\ workers'[u] <= workers[u]
          /\ respawned'[u] <= respawned[u] /\ downs'[u] <= downs[u]
      <4>1. /\ released[u] \in Nat /\ workers[u] \in Nat /\ respawned[u] \in Nat
            /\ downs[u] \in Nat
        BY <1>1, Counts
      <4> QED BY <1>17, <4>1
    <3>2. B[u] = batches[u] /\ asks'[u] = asks[u] /\ pending'[u] = pending[u]
      BY <1>7, <1>13, <2>4
    <3>3. Untouched(u) => Untouched(u)'
      BY <1>16, <1>17, <3>2 DEF Untouched
    <3>4. o1 + l1 = l + o /\ p1 = p
      BY <1>16, <2>1, <2>2, <3>2 DEF InFlight, Asked
    <3>5. p1 + o1 + l1 = p + o + l
      BY <3>4
    <3>6. Have(u)' = Have(u) /\ Have(u) <= Have(u)
      BY <2>1, <2>2, <3>5 DEF Have
    <3> QED BY <1>1, <1>15, <1>17, <2>3, <3>1, <3>2, <3>3, <3>6, AccountsKept
  <2>5. CASE u = t
    <3>1. ~Fresh(u)'
      <4>1. ~Untouched(u)
        BY <1>3, <2>5 DEF Untouched
      <4> QED BY <1>1, <2>3, <4>1 DEF Accounts
    <3>2. Down[u] \notin Supervisors
      BY <1>3, <2>5, StagesAssumption DEF Sources
    <3>3. released'[u] = 0 /\ workers'[u] = 0 /\ respawned'[u] = 0 /\ downs'[u] = 0
      BY <1>1, <1>17, <3>2 DEF Accounts
    <3>4. PICK m \in Nat : m = Len(FlattenSeq(Tail(batches[t])))
      BY <1>4
    <3>5. o1 + l1 = m + o /\ l = n + m /\ p1 = p + extra
      BY <1>4, <1>7, <1>9, <1>13, <1>16, <2>1, <2>2, <2>5, <3>4
    <3>6. pending[t] = p + o + l
      BY <1>1, <1>3, <2>1, <2>5 DEF Accounts, Have
    <3>7. left = p + o + m
      BY <1>12, <3>5, <3>6
    <3>8. p1 + o1 + l1 = left + extra /\ left + extra \in Nat
      BY <3>5, <3>7
    <3>9. Have(u)' = pending'[u] /\ pending'[u] <= MaxDemand /\ pending'[u] \in Nat
      BY <1>13, <2>2, <2>5, <3>8 DEF Have
    <3> QED BY <1>11, <3>1, <3>3, <3>9 DEF Accounts
  <2> QED BY <2>4, <2>5
<1> QED BY <1>15, <1>18, <1>19 DEF DemandInv

\* Every step keeps the accounts.
LEMMA DemandStep ==
    ASSUME DemandInv, [Next]_vars
    PROVE  DemandInv'
<1>1. CASE UNCHANGED vars
  <2>1. Typed /\ Placed /\ \A u \in Tags : Accounts(u)
    BY DEF DemandInv
  <2>2. UNCHANGED <<setup, src, next, subscribing, pending, asks, batches, taken, released, working>>
    BY <1>1 DEF vars
  <2>3. Typed'
    BY <2>1, <2>2, TypedKept DEF Typed, working
  <2>4. \A u \in Tags : Listed(u)' = Listed(u) /\ Owing(u)' = Owing(u)
    BY <2>1, <2>2, SourceKept
  <2>5. Placed'
    BY <2>1, <2>2, <2>4 DEF Placed, subscribing
  <2>6. ASSUME NEW u \in Tags PROVE Accounts(u)'
    <3>1. Fresh(u)' => Fresh(u)
      BY <2>2, <2>4 DEF Fresh, subscribing
    <3>2. /\ released[u] \in Nat /\ workers[u] \in Nat /\ respawned[u] \in Nat /\ downs[u] \in Nat
      BY <2>1, Counts
    <3>3. /\ released'[u] <= released[u] /\ workers'[u] <= workers[u]
          /\ respawned'[u] <= respawned[u] /\ downs'[u] <= downs[u]
      BY <2>2, <3>2 DEF working
    <3> QED BY <2>1, <2>2, <2>3, <2>4, <3>1, <3>3, AccountsIdle DEF subscribing
  <2> QED BY <2>3, <2>5, <2>6 DEF DemandInv
<1>2. CASE Next
  <2>1. ASSUME NEW t \in Tags,
               \/ subscribe(t) \/ handleSubscribe(t) \/ DeferredAsk(t)
               \/ cancelSubscription(t) \/ handleCancel(t) \/ Discard(t)
               \/ handleEvents(t) \/ handleUpstreamEvents(t) \/ SpawnWorkers(t)
               \/ WorkerEnds(t) \/ handleWorkerDown(t) \/ WorkerRestarts(t) \/ RespawnedEnds(t)
        PROVE  DemandInv'
    BY <2>1, DemandSubscribe, DemandHandleSubscribe, DemandDeferredAsk, DemandCancelSubscription,
       DemandHandleCancel, DemandDiscard, DemandHandleEvents, DemandHandleUpstreamEvents,
       DemandSpawnWorkers, DemandWorkerEnds, DemandHandleWorkerDown, DemandWorkerRestarts,
       DemandRespawnedEnds
  <2>2. ASSUME NEW t \in Tags, NEW i, handleAsk(t, i) \/ handleDownstreamAsk(t, i)
        PROVE  DemandInv'
    BY <2>2, DemandHandleAsk, DemandHandleDownstreamAsk
  <2>3. ASSUME NEW s \in Producers, switchDemandMode(s)
        PROVE  DemandInv'
    BY <2>3, DemandSwitch
  <2>4. ASSUME NEW s \in Stages, stop(s)
        PROVE  DemandInv'
    BY <2>4, DemandStop
  <2> QED BY <1>2, <2>1, <2>2, <2>3, <2>4 DEF Next
<1> QED BY <1>1, <1>2

\* Demand is accounted for in every reachable state.
LEMMA DemandInvariant == Spec => []DemandInv
<1>1. Init => DemandInv
  BY DemandInit
<1>2. DemandInv /\ [Next]_vars => DemandInv'
  BY DemandStep
<1> QED BY <1>1, <1>2, PTL DEF Spec

(* What a subscriber counts as pending is what it has asked for and not    *)
(* received: asks on their way, what the dispatcher of its source owes it, *)
(* events on their way (the pendingDemand of gen_stage.ts and the demand   *)
(* maps of its dispatchers, which are different processes' state).         *)
THEOREM DemandIsAccounted == Spec => []DemandAccounted
<1>1. DemandInv => DemandAccounted
  <2> SUFFICES ASSUME DemandInv, NEW t \in Tags, Registered(t)
               PROVE  pending[t] = Asked(t) + Owed(t) + Len(InFlight(t))
    BY DEF DemandAccounted
  <2>1. t \in active /\ t \in Subs(src[Up[t]])
    BY DEF Registered
  <2>2. Owed(t) = Owing(t)
    BY <2>1 DEF Owed, Owing, Owe
  <2>3. pending[t] = Have(t)
    BY <2>1 DEF DemandInv, Accounts
  <2> QED BY <2>2, <2>3 DEF Have
<1> QED BY <1>1, DemandInvariant, PTL

(* A consumer never has more than maxDemand events on their way, and a     *)
(* consumer supervisor never more than maxDemand workers, running and      *)
(* restarted, and events on their way.                                     *)
THEOREM BackPressureHolds == Spec => []BackPressure
<1>1. DemandInv => BackPressure
  <2> SUFFICES ASSUME DemandInv, NEW t \in Tags
               PROVE  Len(InFlight(t)) + workers[t] + respawned[t] <= MaxDemand
    BY DEF BackPressure
  <2>1. Typed /\ Have(t) + workers[t] + respawned[t] <= MaxDemand
    BY DEF DemandInv, Accounts
  <2>2. PICK p, o, l \in Nat : p = Asked(t) /\ o = Owing(t) /\ l = Len(InFlight(t))
    BY <2>1, Counts
  <2>3. PICK w, e, m \in Nat : w = workers[t] /\ e = respawned[t] /\ m = MaxDemand
    BY <2>1, Counts
  <2>4. p + o + l + w + e <= m
    BY <2>1, <2>2, <2>3 DEF Have
  <2>5. l + w + e <= m
    BY <2>4
  <2> QED BY <2>2, <2>3, <2>5
<1> QED BY <1>1, DemandInvariant, PTL

----------------------------------------------------------------------------
(* Order.  What a subscriber was sent, what waits for it at its source and  *)
(* what the source will produce are one increasing line.                    *)

\* All events that were sent on a subscription.
Out(t) == taken[t] \o InFlight(t)

\* The events in q come before those in r.
Before(q, r) == \A x \in ToSet(q), y \in ToSet(r) : x < y

\* The stages that keep the order.
Orderly(s) == s \in Producers \/ Straight

\* The events a source has ever had.
Past(s) == IF s \in Producers THEN 0..(next[s] - 1)
           ELSE UNION {ToSet(taken[u]) : u \in {v \in Tags : Down[v] = s}}

Unparted(a) == \A p \in Partitions : a.parts[p] = <<>>

(* What a source keeps is in order and from the set P; a partitioning one  *)
(* uses its common buffer only as long as it has no others.                *)
Tidy(s, a, P) ==
    /\ Increasing(a.buffer) /\ ToSet(a.buffer) \subseteq P
    /\ \A p \in Partitions : Increasing(a.parts[p]) /\ ToSet(a.parts[p]) \subseteq P
    /\ disp[s] = "partition" /\ a.buffer # <<>> => Unparted(a)
    /\ a.mode = "accumulate" => a.buffer = <<>> /\ Unparted(a)

\* The events q that were sent to t come before those that wait for it.
Ahead(s, a, t, q, P) ==
    /\ Increasing(q) /\ ToSet(q) \subseteq P
    /\ Before(q, a.buffer)
    /\ disp[s] = "partition" => Before(q, a.parts[part[t]])

\* Nothing waits that a subscriber has asked for.
Calm(s, a) ==
    /\ disp[s] = "demand" /\ a.buffer # <<>> => \A t \in Subs(a) : a.demand[t] = 0
    /\ disp[s] = "broadcast" /\ a.buffer # <<>> => a.waiting = 0 \/ a.subs = <<>>
    /\ disp[s] = "partition" =>
          /\ a.buffer = <<>>
          /\ \A t \in Subs(a) : a.parts[part[t]] # <<>> => a.demand[t] = 0

(* A source in order is tidy and its subscribers are in line; one that     *)
(* passes on events is calm between two batches, because it sends a batch  *)
(* without a look at its buffer.                                           *)
Ordered(s) ==
    /\ Tidy(s, src[s], Past(s))
    /\ \A t \in Tags : Up[t] = s => Ahead(s, src[s], t, Out(t), Past(s))
    /\ s \notin Producers => Calm(s, src[s]) /\ src[s].mode = "forward"

OrderInv == \A s \in Sources : Orderly(s) => Ordered(s)

----------------------------------------------------------------------------
(* Increasing sequences *)

\* The members of a sequence put behind another.
LEMMA ConcatSet ==
    ASSUME NEW q \in Seq(Nat), NEW r \in Seq(Nat)
    PROVE  q \o r \in Seq(Nat) /\ ToSet(q \o r) = ToSet(q) \cup ToSet(r)
<1>1. PICK m, n : m = Len(q) /\ n = Len(r)
  OBVIOUS
<1>2. /\ m \in Nat /\ n \in Nat /\ DOMAIN q = 1..m /\ DOMAIN r = 1..n
      /\ q \o r \in Seq(Nat) /\ DOMAIN (q \o r) = 1..(m + n)
      /\ \A i \in 1..m : (q \o r)[i] = q[i]
      /\ \A i \in 1..n : (q \o r)[m + i] = r[i]
  BY <1>1
<1>3. PICK c : c = q \o r
  OBVIOUS
<1>4. ASSUME NEW x \in ToSet(c) PROVE x \in ToSet(q) \cup ToSet(r)
  <2>1. PICK i \in 1..(m + n) : x = c[i]
    BY <1>2, <1>3, <1>4 DEF ToSet
  <2>2. CASE i \in 1..m
    BY <1>2, <1>3, <2>1, <2>2 DEF ToSet
  <2>3. CASE i \notin 1..m
    <3>1. i - m \in 1..n /\ m + (i - m) = i
      BY <1>2, <2>1, <2>3
    <3>2. c[i] = r[i - m]
      BY <1>2, <1>3, <3>1
    <3> QED BY <1>2, <2>1, <3>1, <3>2 DEF ToSet
  <2> QED BY <2>2, <2>3
<1>5. ASSUME NEW x \in ToSet(q) PROVE x \in ToSet(c)
  <2>1. PICK i \in 1..m : x = q[i]
    BY <1>2, <1>5 DEF ToSet
  <2>2. i \in 1..(m + n) /\ c[i] = x
    BY <1>2, <1>3, <2>1
  <2> QED BY <1>2, <1>3, <2>2 DEF ToSet
<1>6. ASSUME NEW x \in ToSet(r) PROVE x \in ToSet(c)
  <2>1. PICK i \in 1..n : x = r[i]
    BY <1>2, <1>6 DEF ToSet
  <2>2. m + i \in 1..(m + n) /\ c[m + i] = x
    BY <1>2, <1>3, <2>1
  <2> QED BY <1>2, <1>3, <2>2 DEF ToSet
<1> QED BY <1>2, <1>3, <1>4, <1>5, <1>6

\* Two increasing sequences, one before the other, make one.
LEMMA IncreasingConcat ==
    ASSUME NEW q \in Seq(Nat), NEW r \in Seq(Nat), Increasing(q), Increasing(r), Before(q, r)
    PROVE  Increasing(q \o r)
<1>1. PICK m, n, c : m = Len(q) /\ n = Len(r) /\ c = q \o r
  OBVIOUS
<1>2. /\ m \in Nat /\ n \in Nat /\ DOMAIN q = 1..m /\ DOMAIN r = 1..n
      /\ DOMAIN c = 1..(m + n)
      /\ \A i \in 1..m : c[i] = q[i]
      /\ \A i \in 1..n : c[m + i] = r[i]
  BY <1>1
<1>3. ASSUME NEW i \in 1..(m + n), NEW j \in 1..(m + n), i < j PROVE c[i] < c[j]
  <2>1. CASE j \in 1..m
    <3>1. i \in 1..m
      BY <1>2, <1>3, <2>1
    <3> QED BY <1>2, <1>3, <2>1, <3>1 DEF Increasing
  <2>2. CASE j \notin 1..m
    <3>1. j - m \in 1..n /\ m + (j - m) = j
      BY <1>2, <2>2
    <3>2. c[j] = r[j - m] /\ r[j - m] \in ToSet(r)
      BY <1>2, <3>1 DEF ToSet
    <3>3. CASE i \in 1..m
      <4>1. c[i] = q[i] /\ q[i] \in ToSet(q)
        BY <1>2, <3>3 DEF ToSet
      <4> QED BY <3>2, <4>1 DEF Before
    <3>4. CASE i \notin 1..m
      <4>1. i - m \in 1..n /\ m + (i - m) = i /\ i - m < j - m
        BY <1>2, <1>3, <2>2, <3>4
      <4>2. c[i] = r[i - m]
        BY <1>2, <4>1
      <4> QED BY <1>2, <3>1, <3>2, <4>1, <4>2 DEF Increasing
    <3> QED BY <3>3, <3>4
  <2> QED BY <2>1, <2>2
<1> QED BY <1>1, <1>2, <1>3 DEF Increasing

\* A part of an increasing sequence is increasing.
LEMMA IncreasingPart ==
    ASSUME NEW q \in Seq(Nat), Increasing(q), NEW m \in Nat \ {0}, NEW n \in Nat, n <= Len(q)
    PROVE  /\ SubSeq(q, m, n) \in Seq(Nat)
           /\ Increasing(SubSeq(q, m, n))
           /\ ToSet(SubSeq(q, m, n)) = {q[i] : i \in m..n}
           /\ ToSet(SubSeq(q, m, n)) \subseteq ToSet(q)
<1>1. PICK v : v = SubSeq(q, m, n)
  OBVIOUS
<1>2. /\ v \in Seq(Nat) /\ Len(v) = IF m <= n THEN n - m + 1 ELSE 0
      /\ \A i \in 1..n - m + 1 : v[i] = q[m + i - 1]
  BY <1>1, PartOf
<1>3. Len(q) \in Nat /\ DOMAIN q = 1..Len(q)
  OBVIOUS
<1>4. DOMAIN v = 1..n - m + 1
  <2>1. DOMAIN v = 1..Len(v)
    BY <1>2
  <2>2. 1..Len(v) = 1..n - m + 1
    BY <1>2
  <2> QED BY <2>1, <2>2
<1>5. ASSUME NEW i \in 1..n - m + 1, NEW j \in 1..n - m + 1, i < j PROVE v[i] < v[j]
  <2>1. m + i - 1 \in 1..Len(q) /\ m + j - 1 \in 1..Len(q) /\ m + i - 1 < m + j - 1
    BY <1>3, <1>5
  <2>2. v[i] = q[m + i - 1] /\ v[j] = q[m + j - 1]
    BY <1>2
  <2> QED BY <1>3, <2>1, <2>2 DEF Increasing
<1>6. ToSet(v) = {q[i] : i \in m..n}
  <2>1. ASSUME NEW x \in ToSet(v) PROVE x \in {q[i] : i \in m..n}
    <3>1. PICK i \in 1..n - m + 1 : x = v[i]
      BY <1>4, <2>1 DEF ToSet
    <3>2. m + i - 1 \in m..n /\ x = q[m + i - 1]
      BY <1>2, <3>1, SMTT(60)
    <3> QED BY <3>2
  <2>2. ASSUME NEW x \in {q[i] : i \in m..n} PROVE x \in ToSet(v)
    <3>1. PICK i \in m..n : x = q[i]
      BY <2>2
    <3>2. i - m + 1 \in 1..n - m + 1 /\ m + (i - m + 1) - 1 = i
      BY <3>1
    <3>3. v[i - m + 1] = x
      BY <1>2, <3>1, <3>2
    <3> QED BY <1>4, <3>2, <3>3 DEF ToSet
  <2> QED BY <2>1, <2>2
<1>7. {q[i] : i \in m..n} \subseteq ToSet(q)
  <2>1. m..n \subseteq DOMAIN q
    BY <1>3
  <2> QED BY <2>1 DEF ToSet
<1> QED BY <1>1, <1>2, <1>4, <1>5, <1>6, <1>7 DEF Increasing

\* Of two parts, the one that begins behind the end of the other comes later.
LEMMA PartsInOrder ==
    ASSUME NEW q \in Seq(Nat), Increasing(q), NEW m \in Nat \ {0}, NEW n \in Nat, n <= Len(q),
           NEW k \in Nat, n < k
    PROVE  Before(SubSeq(q, m, n), SubSeq(q, k, Len(q)))
<1>1. Len(q) \in Nat /\ DOMAIN q = 1..Len(q) /\ k \in Nat \ {0} /\ Len(q) <= Len(q)
  OBVIOUS
<1>2. ToSet(SubSeq(q, m, n)) = {q[i] : i \in m..n}
  BY IncreasingPart
<1>3. ToSet(SubSeq(q, k, Len(q))) = {q[i] : i \in k..Len(q)}
  BY <1>1, IncreasingPart
<1>4. ASSUME NEW i \in m..n, NEW j \in k..Len(q) PROVE q[i] < q[j]
  <2>1. i \in 1..Len(q) /\ j \in 1..Len(q) /\ i < j
    BY <1>1, <1>4
  <2> QED BY <1>1, <2>1 DEF Increasing
<1> QED BY <1>2, <1>3, <1>4 DEF Before

\* Taking members out of an increasing sequence leaves it increasing.
LEMMA IncreasingOnly ==
    ASSUME NEW q \in Seq(Nat), Increasing(q), NEW S
    PROVE  Increasing(Only(q, S))
<1>1. PICK v : v = Only(q, S)
  OBVIOUS
<1>2. Kept(v, q, Len(q), S)
  BY <1>1, OnlyKeeps
<1>3. DOMAIN q = 1..Len(q)
  OBVIOUS
<1>4. ASSUME NEW i \in DOMAIN v, NEW j \in DOMAIN v, i < j PROVE v[i] < v[j]
  <2>1. PICK i1 \in 1..Len(q), j1 \in 1..Len(q) : i1 < j1 /\ v[i] = q[i1] /\ v[j] = q[j1]
    BY <1>2, <1>4 DEF Kept
  <2> QED BY <1>3, <2>1 DEF Increasing
<1> QED BY <1>1, <1>4 DEF Increasing

\* The empty sequence is in every order.
LEMMA NothingOrdered ==
    /\ Increasing(<<>>) /\ ToSet(<<>>) = {}
    /\ \A q : Before(<<>>, q) /\ Before(q, <<>>)
BY DEF Increasing, ToSet, Before

(* A sum of smaller parts is smaller; and if one is smaller by x, so is    *)
(* the sum.                                                                *)
LEMMA TotalLess ==
    ASSUME NEW q \in Seq(Nat), NEW r \in Seq(Nat), Len(q) = Len(r),
           \A i \in DOMAIN q : q[i] <= r[i],
           NEW k \in DOMAIN q, NEW x \in Nat, q[k] + x <= r[k]
    PROVE  Total(q) + x <= Total(r)
<1>1. PICK f : Running(f, q)
  BY RunningExists
<1>2. PICK g : Running(g, r)
  BY RunningExists
<1>3. PICK n \in Nat : n = Len(q) /\ n = Len(r) /\ DOMAIN q = 1..n /\ DOMAIN r = 1..n
  OBVIOUS
<1>4. /\ f \in [0..n -> Nat] /\ f[0] = 0 /\ \A i \in 1..n : f[i] = f[i - 1] + q[i]
      /\ g \in [0..n -> Nat] /\ g[0] = 0 /\ \A i \in 1..n : g[i] = g[i - 1] + r[i]
  BY <1>1, <1>2, <1>3 DEF Running
<1> DEFINE T == {i \in Nat : i <= n => f[i] <= g[i] /\ (k <= i => f[i] + x <= g[i])}
<1>5. 0 \in T
  BY <1>3, <1>4
<1>6. ASSUME NEW i \in Nat, i \in T PROVE i + 1 \in T
  <2> SUFFICES ASSUME i + 1 <= n
               PROVE  f[i + 1] <= g[i + 1] /\ (k <= i + 1 => f[i + 1] + x <= g[i + 1])
    OBVIOUS
  <2>1. i <= n /\ i \in 0..n /\ i + 1 \in 1..n /\ (i + 1) - 1 = i
    BY <1>3
  <2>2. PICK a, b, c, d \in Nat : a = f[i] /\ b = g[i] /\ c = q[i + 1] /\ d = r[i + 1]
    <3>1. f[i] \in Nat /\ g[i] \in Nat
      BY <1>4, <2>1
    <3>2. q[i + 1] \in Nat /\ r[i + 1] \in Nat
      BY <1>3, <2>1
    <3> QED BY <3>1, <3>2
  <2>3. f[i + 1] = a + c /\ g[i + 1] = b + d
    BY <1>4, <2>1, <2>2
  <2>7. a <= b
    BY <1>6, <2>1, <2>2
  <2>8. c <= d
    BY <1>3, <2>1, <2>2
  <2>9. a \in Nat /\ b \in Nat /\ c \in Nat /\ d \in Nat
    BY <2>2
  <2>4. CASE k <= i
    <3>1. a + x <= b
      BY <1>6, <2>1, <2>2, <2>4
    <3>2. a + c <= b + d /\ (a + c) + x <= b + d
      BY <2>7, <2>8, <2>9, <3>1
    <3> QED BY <2>3, <3>2
  <2>5. CASE k = i + 1
    <3>1. c + x <= d
      BY <2>2, <2>5
    <3>2. a + c <= b + d /\ (a + c) + x <= b + d
      BY <2>7, <2>8, <2>9, <3>1
    <3> QED BY <2>3, <3>2
  <2>6. CASE ~(k <= i) /\ k # i + 1
    <3>1. ~(k <= i + 1)
      BY <1>3, <2>6
    <3>2. a + c <= b + d
      BY <2>7, <2>8, <2>9
    <3> QED BY <2>3, <3>1, <3>2
  <2> QED BY <2>4, <2>5, <2>6
<1> HIDE DEF T
<1>7. n \in T
  BY <1>3, <1>5, <1>6, SetInduction
<1>8. f[n] + x <= g[n]
  BY <1>3, <1>7 DEF T
<1>9. Total(q) = f[n] /\ Total(r) = g[n]
  BY <1>1, <1>2, <1>3, TotalIsLast
<1> QED BY <1>8, <1>9

\* What is asked for by those served before, and by the next, is part of all.
LEMMA ServedInTurn ==
    ASSUME NEW a \in SourceState, NEW t \in Subs(a)
    PROVE  Demand(a, ServedBefore(a, t)) + a.demand[t] <= Demand(a, Subs(a))
<1>1. PICK S : S = ServedBefore(a, t)
  OBVIOUS
<1>2. S \subseteq Subs(a)
  BY <1>1 DEF ServedBefore
<1>3. /\ a.subs \in Seq(Tags) /\ a.demand \in [Tags -> Nat] /\ t \in Tags
  BY Fields
<1>4. t \notin S
  <2>1. a.demand[t] \in Nat
    BY <1>3
  <2>2. ~(a.demand[t] > a.demand[t])
    BY <2>1
  <2>3. PICK i : i = Place(a.subs, t)
    OBVIOUS
  <2>4. i \in DOMAIN a.subs
    <3>1. \E j \in DOMAIN a.subs : a.subs[j] = t
      BY DEF Subs, ToSet
    <3> QED BY <2>3, <3>1 DEF Place
  <2>5. i \in Int
    BY <1>3, <2>4
  <2>6. ~(i < i)
    BY <2>5
  <2> QED BY <1>1, <2>2, <2>3, <2>6 DEF ServedBefore
<1>5. PICK k \in DOMAIN a.subs : a.subs[k] = t
  BY DEF Subs, ToSet
<1>6. PICK q : q = [i \in DOMAIN a.subs |-> IF a.subs[i] \in S THEN a.demand[a.subs[i]] ELSE 0]
  OBVIOUS
<1>7. PICK r : r = [i \in DOMAIN a.subs |-> IF a.subs[i] \in Subs(a) THEN a.demand[a.subs[i]] ELSE 0]
  OBVIOUS
<1>8. ASSUME NEW i \in DOMAIN a.subs
      PROVE  a.subs[i] \in Tags /\ a.subs[i] \in Subs(a) /\ a.demand[a.subs[i]] \in Nat
  BY <1>3 DEF Subs, ToSet
<1>9. PICK n \in Nat : n = Len(a.subs) /\ DOMAIN a.subs = 1..n
  BY <1>3
<1>10. q \in Seq(Nat) /\ Len(q) = n /\ DOMAIN q = 1..n
  <2>1. q \in [1..n -> Nat]
    BY <1>6, <1>8, <1>9
  <2> QED BY <1>9, <2>1
<1>11. r \in Seq(Nat) /\ Len(r) = n /\ DOMAIN r = 1..n
  <2>1. r \in [1..n -> Nat]
    BY <1>7, <1>8, <1>9
  <2> QED BY <1>9, <2>1
<1>12. \A i \in DOMAIN q : q[i] <= r[i]
  <2> SUFFICES ASSUME NEW i \in 1..n PROVE q[i] <= r[i]
    BY <1>10
  <2>1. PICK x \in Nat : x = a.demand[a.subs[i]]
    BY <1>8, <1>9
  <2>2. r[i] = x /\ (q[i] = x \/ q[i] = 0)
    BY <1>6, <1>7, <1>8, <1>9, <2>1
  <2> QED BY <2>1, <2>2
<1>13. PICK d \in Nat : d = a.demand[t]
  BY <1>3
<1>14. q[k] = 0 /\ r[k] = d
  BY <1>4, <1>5, <1>6, <1>7, <1>13
<1>15. k \in DOMAIN q /\ q[k] + d <= r[k]
  BY <1>5, <1>9, <1>10, <1>13, <1>14
<1>16. Total(q) + d <= Total(r)
  BY <1>10, <1>11, <1>12, <1>13, <1>15, TotalLess
<1>17. Demand(a, S) = Total(q) /\ Demand(a, Subs(a)) = Total(r)
  BY <1>6, <1>7 DEF Demand
<1> QED BY <1>1, <1>13, <1>16, <1>17

----------------------------------------------------------------------------
(* The dispatchers keep the order *)

(* Events may be dispatched if they come after those in the partitions,    *)
(* and nobody is owed one of those.                                        *)
InTurn(s, a, events) ==
    /\ Increasing(events)
    /\ \A p \in Partitions : Increasing(a.parts[p])
    /\ disp[s] = "partition" =>
          /\ \A p \in Partitions : Before(a.parts[p], events)
          /\ \A t \in Subs(a) : \/ events = <<>> \/ a.parts[part[t]] = <<>>
                                \/ a.demand[t] = 0

(* A dispatch of events serves its subscribers in order: what each is sent *)
(* comes before all that is left.                                          *)
Serves(s, a, events, r) ==
    /\ r.state.buffer = a.buffer /\ r.state.mode = a.mode
    /\ Increasing(r.rest) /\ ToSet(r.rest) \subseteq ToSet(events)
    /\ \A p \in Partitions : /\ Increasing(r.state.parts[p])
                             /\ ToSet(r.state.parts[p]) \subseteq ToSet(events) \cup ToSet(a.parts[p])
    /\ \A t \in DOMAIN r.sent :
          /\ Increasing(r.sent[t]) /\ Before(r.sent[t], r.rest)
          /\ ToSet(r.sent[t]) \subseteq
                 ToSet(events) \cup (IF disp[s] = "partition" THEN ToSet(a.parts[part[t]]) ELSE {})
          /\ disp[s] = "partition" => Before(r.sent[t], r.state.parts[part[t]])
    /\ disp[s] = "partition" => r.rest = <<>>
    /\ Calm(s, [r.state EXCEPT !.buffer = r.rest])

\* The fields of a source with another buffer.
LEMMA NewBuffer ==
    ASSUME NEW a \in SourceState, NEW q \in Seq(Nat), NEW b, b = [a EXCEPT !.buffer = q]
    PROVE  /\ b \in SourceState /\ b.buffer = q /\ b.subs = a.subs /\ b.demand = a.demand
           /\ b.waiting = a.waiting /\ b.requested = a.requested /\ b.parts = a.parts
           /\ b.mode = a.mode /\ Subs(b) = Subs(a)
BY DEF SourceState, Subs

\* The demand dispatcher cuts the events into shares, one after the other.
LEMMA DemandServes ==
    ASSUME NEW s, NEW a, Sound(s, a), disp[s] = "demand", NEW events \in Seq(Nat),
           InTurn(s, a, events)
    PROVE  Serves(s, a, events, DemandDispatch(a, events))
<1>1. a \in SourceState /\ Increasing(events) /\ \A p \in Partitions : Increasing(a.parts[p])
  BY DEF Sound, InTurn
<1>2. PICK N \in Nat : N = Len(events)
  OBVIOUS
<1>3. PICK share : share = [t \in Subs(a) |->
            SubSeq(events, Demand(a, ServedBefore(a, t)) + 1,
                   Smaller(Demand(a, ServedBefore(a, t)) + a.demand[t], Len(events)))]
  OBVIOUS
<1>4. PICK D \in Nat : D = Demand(a, Subs(a))
  BY <1>1, Fields, DemandType
<1>5. PICK to : to = {t \in Subs(a) : IF Len(a.subs) = 1 THEN a.demand[t] > 0 ELSE share[t] # <<>>}
  OBVIOUS
<1>6. PICK f : f = [t \in Tags |-> IF t \in Subs(a) THEN a.demand[t] - Len(share[t]) ELSE a.demand[t]]
  OBVIOUS
<1>7. PICK r : r = DemandDispatch(a, events)
  OBVIOUS
<1>8. /\ r.state = [a EXCEPT !.demand = f]
      /\ r.sent = [t \in to |-> share[t]]
      /\ r.rest = SubSeq(events, D + 1, N)
  BY <1>2, <1>3, <1>4, <1>5, <1>6, <1>7 DEF DemandDispatch
<1>9. Pays(s, a, r)
  BY <1>7, DemandPays
<1>10. /\ r.state \in SourceState /\ r.state.subs = a.subs /\ r.state.demand = f
       /\ r.state.parts = a.parts /\ r.state.buffer = a.buffer /\ r.state.mode = a.mode
       /\ r.rest \in Seq(Nat)
  <2>1. r.state \in SourceState /\ r.rest \in Seq(Nat)
    BY <1>9 DEF Pays, Sound
  <2> QED BY <1>1, <1>8, <2>1 DEF SourceState
<1>11. DOMAIN r.sent = to /\ to \subseteq Subs(a) /\ Subs(a) \subseteq Tags
  BY <1>1, <1>5, <1>8, Fields
<1>12. Increasing(r.rest) /\ ToSet(r.rest) \subseteq ToSet(events)
  <2>1. D + 1 \in Nat \ {0} /\ N <= Len(events)
    BY <1>2
  <2> QED BY <1>1, <1>8, <2>1, IncreasingPart
<1>13. ASSUME NEW t \in Subs(a)
       PROVE  /\ Increasing(share[t]) /\ ToSet(share[t]) \subseteq ToSet(events)
              /\ Before(share[t], r.rest)
              /\ r.rest # <<>> => f[t] = 0
  <2>1. PICK d \in Nat : d = Demand(a, ServedBefore(a, t))
    BY <1>1, Fields, DemandType
  <2>2. PICK x \in Nat : x = a.demand[t]
    BY <1>1, <1>11, <1>13, Fields
  <2>3. PICK n : n = Smaller(d + x, N)
    OBVIOUS
  <2>4. n \in Nat /\ n <= N /\ n <= d + x /\ (d + x <= N => n = d + x) /\ d + 1 \in Nat \ {0}
    BY <2>3 DEF Smaller
  <2>5. share[t] = SubSeq(events, d + 1, n)
    BY <1>2, <1>3, <1>13, <2>1, <2>2, <2>3
  <2>6. Increasing(share[t]) /\ ToSet(share[t]) \subseteq ToSet(events)
    BY <1>1, <1>2, <2>4, <2>5, IncreasingPart
  <2>7. d + x <= D
    BY <1>1, <1>4, <2>1, <2>2, ServedInTurn
  <2>8. Before(share[t], r.rest)
    <3>1. D + 1 \in Nat /\ n < D + 1 /\ n <= Len(events)
      BY <1>2, <2>4, <2>7
    <3> QED BY <1>1, <1>2, <1>8, <2>4, <2>5, <3>1, PartsInOrder, SMTT(60)
  <2>9. ASSUME r.rest # <<>> PROVE f[t] = 0
    <3>1. D + 1 <= N
      <4>1. Len(r.rest) = IF D + 1 <= N THEN N - (D + 1) + 1 ELSE 0
        BY <1>2, <1>8, PartOf
      <4> QED BY <1>10, <2>9, <4>1
    <3>2. n = d + x
      BY <2>4, <2>7, <3>1
    <3>3. Len(share[t]) = IF d + 1 <= n THEN n - (d + 1) + 1 ELSE 0
      BY <1>2, <2>4, <2>5, PartOf
    <3>4. Len(share[t]) = x
      BY <3>2, <3>3
    <3>5. f[t] = x - Len(share[t])
      BY <1>6, <1>11, <1>13, <2>2
    <3> QED BY <3>4, <3>5
  <2> QED BY <2>6, <2>8, <2>9
<1>14. Calm(s, [r.state EXCEPT !.buffer = r.rest])
  <2>1. PICK b : b = [r.state EXCEPT !.buffer = r.rest]
    OBVIOUS
  <2>2. b.buffer = r.rest /\ b.demand = f /\ Subs(b) = Subs(a)
    BY <1>10, <2>1, NewBuffer DEF Subs
  <2>3. Calm(s, b)
    BY <1>13, <2>2 DEF Calm
  <2> QED BY <2>1, <2>3
<1>15. \A t \in DOMAIN r.sent : r.sent[t] = share[t]
  BY <1>8
<1>16. Serves(s, a, events, r)
  BY <1>1, <1>10, <1>11, <1>12, <1>13, <1>14, <1>15 DEF Serves
<1> QED BY <1>7, <1>16

\* The broadcast dispatcher cuts them once.
LEMMA BroadcastServes ==
    ASSUME NEW s, NEW a, Sound(s, a), disp[s] = "broadcast", NEW events \in Seq(Nat),
           InTurn(s, a, events)
    PROVE  Serves(s, a, events, BroadcastDispatch(a, events))
<1>1. a \in SourceState /\ Increasing(events) /\ \A p \in Partitions : Increasing(a.parts[p])
  BY DEF Sound, InTurn
<1>2. PICK N \in Nat : N = Len(events)
  OBVIOUS
<1>3. PICK r : r = BroadcastDispatch(a, events)
  OBVIOUS
<1>4. CASE a.waiting = 0 \/ a.subs = <<>>
  <2>1. r = [state |-> a, sent |-> <<>>, rest |-> events]
    BY <1>3, <1>4 DEF BroadcastDispatch
  <2>2. r.state = a /\ r.rest = events /\ DOMAIN r.sent = {}
    BY <2>1
  <2>3. PICK b : b = [r.state EXCEPT !.buffer = r.rest]
    OBVIOUS
  <2>4. b.waiting = a.waiting /\ b.subs = a.subs
    BY <1>1, <2>2, <2>3, NewBuffer
  <2>5. Calm(s, b)
    BY <1>4, <2>4 DEF Calm
  <2>6. Serves(s, a, events, r)
    BY <1>1, <2>2, <2>3, <2>5 DEF Serves
  <2> QED BY <1>3, <2>6
<1>5. CASE ~(a.waiting = 0 \/ a.subs = <<>>)
  <2>1. PICK count : count = Smaller(N, a.waiting)
    OBVIOUS
  <2>2. a.waiting \in Nat
    BY <1>1, Fields
  <2>3. count \in Nat /\ count <= N /\ count <= a.waiting /\ (count = N \/ count = a.waiting)
    BY <2>1, <2>2 DEF Smaller
  <2>4. /\ r.state = [a EXCEPT !.waiting = a.waiting - count, !.requested = a.requested - count]
        /\ r.sent = [t \in Subs(a) |-> SubSeq(events, 1, count)]
        /\ r.rest = SubSeq(events, count + 1, N)
    BY <1>2, <1>3, <1>5, <2>1 DEF BroadcastDispatch
  <2>5. Pays(s, a, r)
    BY <1>3, BroadcastPays
  <2>6. /\ r.state \in SourceState /\ r.state.subs = a.subs /\ r.state.waiting = a.waiting - count
        /\ r.state.parts = a.parts /\ r.state.buffer = a.buffer /\ r.state.mode = a.mode
        /\ r.rest \in Seq(Nat)
    <3>1. r.state \in SourceState /\ r.rest \in Seq(Nat)
      BY <2>5 DEF Pays, Sound
    <3> QED BY <1>1, <2>4, <3>1 DEF SourceState
  <2>7. Increasing(r.rest) /\ ToSet(r.rest) \subseteq ToSet(events)
    <3>1. count + 1 \in Nat \ {0} /\ N <= Len(events)
      BY <1>2, <2>3
    <3> QED BY <1>1, <2>4, <3>1, IncreasingPart
  <2>8. PICK v : v = SubSeq(events, 1, count)
    OBVIOUS
  <2>9. Increasing(v) /\ ToSet(v) \subseteq ToSet(events)
    BY <1>1, <1>2, <2>3, <2>8, IncreasingPart
  <2>10. Before(v, r.rest)
    <3>1. PICK k \in Nat : k = count + 1
      BY <2>3
    <3>2. 1 \in Nat \ {0} /\ count \in Nat /\ count <= Len(events) /\ count < k
      BY <1>2, <2>3, <3>1
    <3>3. Before(SubSeq(events, 1, count), SubSeq(events, k, Len(events)))
      BY <1>1, <3>2, PartsInOrder
    <3> QED BY <1>2, <2>4, <2>8, <3>1, <3>3
  <2>11. Calm(s, [r.state EXCEPT !.buffer = r.rest])
    <3>1. PICK b : b = [r.state EXCEPT !.buffer = r.rest]
      OBVIOUS
    <3>2. b.buffer = r.rest /\ b.waiting = a.waiting - count
      BY <2>6, <3>1, NewBuffer
    <3>3. ASSUME r.rest # <<>> PROVE count = a.waiting
      <4>1. Len(r.rest) = IF count + 1 <= N THEN N - (count + 1) + 1 ELSE 0
        <5>1. count + 1 \in Nat \ {0} /\ N <= Len(events)
          BY <1>2, <2>3
        <5> QED BY <2>4, <5>1, PartOf
      <4> QED BY <2>3, <2>6, <3>3, <4>1
    <3>4. b.buffer # <<>> => b.waiting = 0
      BY <2>2, <2>3, <3>2, <3>3
    <3>5. Calm(s, b)
      BY <3>4 DEF Calm
    <3> QED BY <3>1, <3>5
  <2>12. \A t \in DOMAIN r.sent : r.sent[t] = v
    BY <2>4, <2>8
  <2>13. Serves(s, a, events, r)
    BY <1>1, <2>6, <2>7, <2>9, <2>10, <2>11, <2>12 DEF Serves
  <2> QED BY <1>3, <2>13
<1> QED BY <1>4, <1>5

\* Members of earlier events come before members of later ones.
LEMMA BeforeMembers ==
    ASSUME NEW q, NEW r, Before(q, r), NEW v, NEW w,
           ToSet(v) \subseteq ToSet(q), ToSet(w) \subseteq ToSet(r)
    PROVE  Before(v, w)
BY DEF Before

\* A sequence without members is empty.
LEMMA NoMembers ==
    ASSUME NEW q \in Seq(Nat), ToSet(q) = {}
    PROVE  q = <<>>
<1>1. Len(q) \in Nat /\ DOMAIN q = 1..Len(q)
  OBVIOUS
<1>2. 1 \notin DOMAIN q
  BY DEF ToSet
<1>3. Len(q) = 0
  BY <1>1, <1>2
<1> QED BY <1>3

\* v and w are the first n members of q and the others.
Split(q, n, v, w) ==
    /\ v \in Seq(Nat) /\ Len(v) = n /\ w \in Seq(Nat) /\ Len(w) = Len(q) - n
    /\ Increasing(v) /\ Increasing(w) /\ Before(v, w)
    /\ ToSet(v) \subseteq ToSet(q) /\ ToSet(w) \subseteq ToSet(q)

\* An increasing sequence cut in two.
LEMMA CutInTwo ==
    ASSUME NEW q \in Seq(Nat), Increasing(q), NEW n \in Nat, n <= Len(q)
    PROVE  Split(q, n, SubSeq(q, 1, n), SubSeq(q, n + 1, Len(q)))
<1>1. PICK N \in Nat : N = Len(q)
  OBVIOUS
<1>2. PICK k \in Nat : k = n + 1
  OBVIOUS
<1>3. PICK v, w : v = SubSeq(q, 1, n) /\ w = SubSeq(q, k, N)
  OBVIOUS
<1>4. 1 \in Nat \ {0} /\ k \in Nat \ {0} /\ N <= Len(q) /\ n < k
  BY <1>1, <1>2
<1>5. v \in Seq(Nat) /\ Increasing(v) /\ ToSet(v) \subseteq ToSet(q)
  BY <1>3, <1>4, IncreasingPart
<1>6. w \in Seq(Nat) /\ Increasing(w) /\ ToSet(w) \subseteq ToSet(q)
  BY <1>3, <1>4, IncreasingPart
<1>7. Before(v, w)
  <2>1. Before(SubSeq(q, 1, n), SubSeq(q, k, Len(q)))
    BY <1>4, PartsInOrder
  <2> QED BY <1>1, <1>3, <2>1
<1>8. Len(v) = n
  <2>1. Len(v) = IF 1 <= n THEN n - 1 + 1 ELSE 0
    BY <1>3, <1>4, PartOf
  <2> QED BY <2>1
<1>9. Len(w) = N - n
  <2>1. Len(w) = IF k <= N THEN N - k + 1 ELSE 0
    BY <1>3, <1>4, PartOf
  <2>2. n <= N
    BY <1>1
  <2> QED BY <1>2, <2>1, <2>2
<1>10. Split(q, n, v, w)
  BY <1>1, <1>5, <1>6, <1>7, <1>8, <1>9 DEF Split
<1> QED BY <1>1, <1>2, <1>3, <1>10

\* What is sent, b, is the beginning of what there was, in two sequences, and
\* l is left: only if b is as long as what was asked for.
Served(d, fresh, kept, b, l) ==
    /\ Increasing(b) /\ Increasing(l) /\ Before(b, l)
    /\ ToSet(b) \subseteq ToSet(fresh) \cup ToSet(kept)
    /\ ToSet(l) \subseteq ToSet(fresh) \cup ToSet(kept)
    /\ l # <<>> => Len(b) = d

(* What a partition sends when its subscriber is owed nothing or it has    *)
(* kept nothing, or has nothing new, is the beginning of what it has.      *)
LEMMA BucketInOrder ==
    ASSUME NEW d \in Nat, NEW fresh \in Seq(Nat), NEW kept \in Seq(Nat),
           Increasing(fresh), Increasing(kept), Before(kept, fresh),
           d = 0 \/ kept = <<>> \/ fresh = <<>>,
           NEW now \in Nat, now <= d, now = Len(fresh) \/ now = d,
           NEW v, NEW u, Split(fresh, now, v, u),
           NEW drain \in Nat, drain <= Len(kept \o u), drain <= d - now,
           drain = Len(kept \o u) \/ drain = d - now,
           NEW w, NEW rest, Split(kept \o u, drain, w, rest)
    PROVE  Served(d, fresh, kept, v \o w, rest)
<1>1. PICK queue : queue = kept \o u
  OBVIOUS
<1>2. /\ v \in Seq(Nat) /\ Len(v) = now /\ u \in Seq(Nat) /\ Len(u) = Len(fresh) - now
      /\ Increasing(v) /\ Increasing(u) /\ Before(v, u)
      /\ ToSet(v) \subseteq ToSet(fresh) /\ ToSet(u) \subseteq ToSet(fresh)
  BY DEF Split
<1>3. queue \in Seq(Nat) /\ ToSet(queue) = ToSet(kept) \cup ToSet(u)
  BY <1>1, <1>2, ConcatSet
<1>4. /\ w \in Seq(Nat) /\ Len(w) = drain /\ rest \in Seq(Nat) /\ Len(rest) = Len(queue) - drain
      /\ Increasing(w) /\ Increasing(rest) /\ Before(w, rest)
      /\ ToSet(w) \subseteq ToSet(queue) /\ ToSet(rest) \subseteq ToSet(queue)
  BY <1>1 DEF Split
<1>5. PICK M \in Nat : M = Len(queue)
  BY <1>3
<1>6. PICK N \in Nat : N = Len(fresh)
  OBVIOUS
<1>7. drain <= M /\ (drain = M \/ drain = d - now)
  BY <1>1, <1>5
<1>8. v \o w \in Seq(Nat) /\ ToSet(v \o w) = ToSet(v) \cup ToSet(w)
  BY <1>2, <1>4, ConcatSet
<1>9. ToSet(v \o w) \subseteq ToSet(fresh) \cup ToSet(kept)
  BY <1>2, <1>3, <1>4, <1>8
<1>10. ToSet(rest) \subseteq ToSet(fresh) \cup ToSet(kept)
  BY <1>2, <1>3, <1>4
<1>11. Len(v \o w) = now + drain
  <2>1. v \in Seq(Nat) /\ w \in Seq(Nat)
    BY <1>2, <1>4
  <2>2. Len(v \o w) = Len(v) + Len(w)
    BY <2>1, ConcatProperties
  <2> QED BY <1>2, <1>4, <2>2
<1>12. rest # <<>> => Len(v \o w) = d
  <2>1. ASSUME rest # <<>> PROVE drain = d - now
    <3>1. Len(rest) # 0
      BY <1>4, <2>1
    <3>2. Len(rest) = M - drain
      BY <1>4, <1>5
    <3>3. M - drain # 0
      BY <3>1, <3>2
    <3>4. drain # M
      BY <3>3
    <3> QED BY <1>7, <3>4
  <2>2. now + (d - now) = d
    OBVIOUS
  <2> QED BY <1>11, <2>1, <2>2
<1>13. CASE now = 0
  <2>1. v = <<>>
    BY <1>2, <1>13
  <2>2. v \o w = w
    BY <1>4, <2>1, ConcatEmptySeq
  <2> QED BY <1>4, <1>9, <1>10, <1>12, <2>2 DEF Served
<1>14. CASE now # 0
  <2>1. kept = <<>>
    <3>1. d # 0
      BY <1>14
    <3>2. Len(fresh) # 0
      <4>1. now <= N
        <5>1. Len(u) \in Nat /\ Len(u) = N - now
          BY <1>2, <1>6
        <5> QED BY <5>1, <1>6
      <4> QED BY <1>6, <1>14, <4>1
    <3> QED BY <3>1, <3>2
  <2>2. queue = u
    BY <1>1, <1>2, <2>1, ConcatEmptySeq
  <2>3. M = N - now
    BY <1>2, <1>5, <1>6, <2>2
  <2>4. drain = 0
    <3>1. CASE now = d
      <4>1. drain <= 0
        BY <3>1
      <4> QED BY <4>1
    <3>2. CASE now = N
      <4>1. M = 0
        BY <1>6, <2>3, <3>2
      <4> QED BY <1>7, <4>1
    <3> QED BY <1>6, <3>1, <3>2
  <2>5. w = <<>>
    BY <1>4, <2>4
  <2>6. v \o w = v
    BY <1>2, <2>5, ConcatEmptySeq
  <2>7. Before(v, rest)
    BY <1>2, <1>4, <2>2, BeforeMembers
  <2> QED BY <1>2, <1>4, <1>9, <1>10, <1>12, <2>6, <2>7 DEF Served
<1> QED BY <1>13, <1>14

(* The partition dispatcher sends each subscriber the beginning of what    *)
(* its partition has.                                                      *)
LEMMA PartitionServes ==
    ASSUME NEW s, NEW a, Sound(s, a), disp[s] = "partition", NEW events \in Seq(Nat),
           part \in [Tags -> Partitions], InTurn(s, a, events)
    PROVE  Serves(s, a, events, PartitionDispatch(a, events))
<1> DEFINE demandOf(p) == IF Entry(a, p) = {} THEN 0
                          ELSE a.demand[CHOOSE t \in Entry(a, p) : TRUE]
           fresh(p) == Only(events, {e \in ToSet(events) : Hash(e) = p})
           now(p) == Smaller(demandOf(p), Len(fresh(p)))
           queue(p) == a.parts[p] \o SubSeq(fresh(p), now(p) + 1, Len(fresh(p)))
           drain(p) == Smaller(demandOf(p) - now(p), Len(queue(p)))
           bucket(p) == SubSeq(fresh(p), 1, now(p)) \o SubSeq(queue(p), 1, drain(p))
           left(p) == SubSeq(queue(p), drain(p) + 1, Len(queue(p)))
           to == {t \in Subs(a) : bucket(part[t]) # <<>>}
           f == [t \in Tags |-> IF t \in to THEN a.demand[t] - Len(bucket(part[t])) ELSE a.demand[t]]
           g == [p \in Partitions |-> left(p)]
<1>1. /\ a \in SourceState /\ Increasing(events)
      /\ \A p \in Partitions : Increasing(a.parts[p]) /\ Before(a.parts[p], events)
      /\ \A t \in Subs(a) : events = <<>> \/ a.parts[part[t]] = <<>> \/ a.demand[t] = 0
  BY DEF Sound, InTurn
<1>2. PICK r : r = PartitionDispatch(a, events)
  BY SMTT(60)
<1>3. r = [state |-> [a EXCEPT !.parts = g, !.demand = f],
           sent |-> [t \in to |-> bucket(part[t])], rest |-> <<>>]
  BY <1>2 DEF PartitionDispatch
<1>4. ASSUME NEW p \in Partitions
      PROVE  /\ demandOf(p) \in Nat
             /\ events = <<>> \/ a.parts[p] = <<>> \/ demandOf(p) = 0
             /\ \A t \in Subs(a) : part[t] = p => demandOf(p) = a.demand[t]
  <2>1. CASE Entry(a, p) = {}
    <3>1. \A t \in Subs(a) : part[t] # p
      BY <2>1 DEF Entry
    <3> QED BY <2>1, <3>1
  <2>2. CASE Entry(a, p) # {}
    <3>1. PICK u : u = CHOOSE t \in Entry(a, p) : TRUE
      OBVIOUS
    <3>2. u \in Entry(a, p)
      BY <2>2, <3>1
    <3>3. u \in Subs(a) /\ part[u] = p
      BY <3>2 DEF Entry
    <3>4. demandOf(p) = a.demand[u]
      BY <2>2, <3>1
    <3> HIDE DEF demandOf
    <3>5. a.demand[u] \in Nat
      BY <1>1, <3>3, Fields
    <3>6. \A t \in Subs(a) : part[t] = p => t = u
      BY <3>3 DEF Sound
    <3> QED BY <1>1, <3>3, <3>4, <3>5, <3>6
  <2> QED BY <2>1, <2>2
<1>5. ASSUME NEW p \in Partitions
      PROVE  /\ Increasing(bucket(p)) /\ Increasing(left(p)) /\ Before(bucket(p), left(p))
             /\ ToSet(bucket(p)) \subseteq ToSet(events) \cup ToSet(a.parts[p])
             /\ ToSet(left(p)) \subseteq ToSet(events) \cup ToSet(a.parts[p])
             /\ left(p) # <<>> => Len(bucket(p)) = demandOf(p)
             /\ bucket(p) \in Seq(Nat) /\ left(p) \in Seq(Nat)
  <2>1. fresh(p) \in Seq(Nat) /\ Increasing(fresh(p)) /\ ToSet(fresh(p)) \subseteq ToSet(events)
    BY <1>1, IncreasingOnly, OnlySet
  <2>2. PICK kept : kept = a.parts[p]
    OBVIOUS
  <2>3. kept \in Seq(Nat) /\ Increasing(kept) /\ Before(kept, events)
    BY <1>1, <2>2, Fields
  <2>4. Before(kept, fresh(p))
    BY <2>1, <2>3, BeforeMembers
  <2>5. PICK d \in Nat : d = demandOf(p)
    BY <1>4
  <2>6. d = 0 \/ kept = <<>> \/ fresh(p) = <<>>
    <3>1. CASE events = <<>>
      <4>1. ToSet(events) = {}
        BY <3>1 DEF ToSet
      <4>2. ToSet(fresh(p)) = {}
        BY <2>1, <4>1
      <4> QED BY <2>1, <4>2, NoMembers
    <3>2. CASE a.parts[p] = <<>>
      BY <2>2, <3>2
    <3>3. CASE demandOf(p) = 0
      BY <2>5, <3>3
    <3> QED BY <1>4, <3>1, <3>2, <3>3
  <2>7. PICK F : F = fresh(p)
    OBVIOUS
  <2>8. PICK n : n = now(p)
    OBVIOUS
  <2>9. F \in Seq(Nat) /\ Increasing(F) /\ ToSet(F) \subseteq ToSet(events) /\ Before(kept, F)
        /\ (d = 0 \/ kept = <<>> \/ F = <<>>)
    BY <2>1, <2>4, <2>6, <2>7
  <2>10. n = Smaller(d, Len(F))
    BY <2>5, <2>7, <2>8
  <2> HIDE DEF demandOf, fresh
  <2>11. n \in Nat /\ n <= d /\ n <= Len(F) /\ (n = Len(F) \/ n = d)
    <3>1. Len(F) \in Nat
      BY <2>9
    <3> QED BY <2>10, <3>1 DEF Smaller
  <2>12. PICK v, u : v = SubSeq(F, 1, n) /\ u = SubSeq(F, n + 1, Len(F))
    OBVIOUS
  <2>13. Split(F, n, v, u)
    BY <2>9, <2>11, <2>12, CutInTwo
  <2>14. PICK q : q = queue(p)
    OBVIOUS
  <2>15. q = kept \o u
    BY <2>2, <2>7, <2>8, <2>12, <2>14
  <2> HIDE DEF now
  <2>16. q \in Seq(Nat) /\ Increasing(q)
    <3>1. u \in Seq(Nat) /\ Increasing(u) /\ ToSet(u) \subseteq ToSet(F)
      BY <2>13 DEF Split
    <3>2. Before(kept, u)
      BY <2>9, <3>1, BeforeMembers
    <3> QED BY <2>3, <2>15, <3>1, <3>2, ConcatSet, IncreasingConcat
  <2>17. PICK m : m = drain(p)
    OBVIOUS
  <2>18. m = Smaller(d - n, Len(q))
    BY <2>5, <2>8, <2>14, <2>17
  <2> HIDE DEF queue
  <2>19. m \in Nat /\ m <= d - n /\ m <= Len(q) /\ (m = Len(q) \/ m = d - n)
    <3>1. Len(q) \in Nat /\ d - n \in Nat
      BY <2>11, <2>16
    <3> QED BY <2>18, <3>1 DEF Smaller
  <2>20. PICK w, z : w = SubSeq(q, 1, m) /\ z = SubSeq(q, m + 1, Len(q))
    OBVIOUS
  <2>21. Split(q, m, w, z)
    BY <2>16, <2>19, <2>20, CutInTwo
  <2>22. bucket(p) = v \o w /\ left(p) = z
    BY <2>7, <2>8, <2>12, <2>14, <2>17, <2>20
  <2> HIDE DEF drain, bucket, left
  <2>23. /\ m \in Nat /\ m <= Len(kept \o u) /\ m <= d - n /\ (m = Len(kept \o u) \/ m = d - n)
         /\ Split(kept \o u, m, w, z)
    BY <2>15, <2>19, <2>21
  <2>24. Served(d, F, kept, v \o w, z)
    <3>1. kept \in Seq(Nat) /\ F \in Seq(Nat) /\ Increasing(F) /\ Increasing(kept) /\ Before(kept, F)
      BY <2>3, <2>9
    <3>2. d = 0 \/ kept = <<>> \/ F = <<>>
      BY <2>9
    <3>3. n \in Nat /\ n <= d /\ (n = Len(F) \/ n = d) /\ Split(F, n, v, u)
      BY <2>11, <2>13
    <3> QED BY <2>5, <2>23, <3>1, <3>2, <3>3, BucketInOrder
  <2>25. v \in Seq(Nat) /\ w \in Seq(Nat) /\ z \in Seq(Nat)
    BY <2>13, <2>21 DEF Split
  <2>26. v \o w \in Seq(Nat)
    BY <2>25, ConcatProperties
  <2> QED BY <2>2, <2>5, <2>9, <2>22, <2>24, <2>25, <2>26 DEF Served
<1>6. Pays(s, a, r)
  BY <1>2, PartitionPays
<1> HIDE DEF demandOf, fresh, now, queue, drain, bucket, left
<1>7. ASSUME NEW t \in Subs(a) PROVE t \in Tags /\ part[t] \in Partitions /\ a.demand[t] \in Nat
  BY <1>1, <1>7, Fields
<1>8. /\ r.state \in SourceState /\ r.state.subs = a.subs /\ r.state.demand = f
      /\ r.state.parts = g /\ r.state.buffer = a.buffer /\ r.state.mode = a.mode
      /\ r.rest = <<>> /\ r.sent = [t \in to |-> bucket(part[t])]
  <2>1. r.state \in SourceState
    BY <1>6 DEF Pays, Sound
  <2>2. r.state = [a EXCEPT !.parts = g, !.demand = f] /\ r.rest = <<>>
        /\ r.sent = [t \in to |-> bucket(part[t])]
    BY <1>3
  <2> HIDE DEF f, g, to
  <2> QED BY <1>1, <2>1, <2>2 DEF SourceState
<1>9. ASSUME NEW p \in Partitions PROVE r.state.parts[p] = left(p)
  BY <1>8
<1>10. ASSUME NEW t \in DOMAIN r.sent
       PROVE  t \in Subs(a) /\ part[t] \in Partitions /\ r.sent[t] = bucket(part[t])
  BY <1>7, <1>8
<1>11. Calm(s, [r.state EXCEPT !.buffer = r.rest])
  <2>1. PICK b : b = [r.state EXCEPT !.buffer = r.rest]
    OBVIOUS
  <2>2. <<>> \in Seq(Nat)
    OBVIOUS
  <2>3. b.buffer = <<>> /\ b.demand = f /\ b.parts = r.state.parts /\ Subs(b) = Subs(a)
    <3> HIDE DEF f, g, to
    <3> QED BY <1>8, <2>1, <2>2, NewBuffer DEF Subs
  <2>4. ASSUME NEW t \in Subs(a), r.state.parts[part[t]] # <<>> PROVE f[t] = 0
    <3>1. left(part[t]) # <<>>
      BY <1>7, <1>9, <2>4
    <3>2. Len(bucket(part[t])) = a.demand[t]
      BY <1>4, <1>5, <1>7, <3>1
    <3>3. CASE t \in to
      <4>1. f[t] = a.demand[t] - Len(bucket(part[t]))
        BY <1>7, <3>3
      <4> QED BY <1>7, <3>2, <4>1
    <3>4. CASE t \notin to
      <4>1. bucket(part[t]) = <<>>
        BY <3>4
      <4>2. f[t] = a.demand[t]
        BY <1>7, <3>4
      <4> QED BY <3>2, <4>1, <4>2
    <3> QED BY <3>3, <3>4
  <2>5. Calm(s, b)
    <3> HIDE DEF f, g, to
    <3> QED BY <2>3, <2>4 DEF Calm
  <2> QED BY <2>1, <2>5
<1> HIDE DEF f, g, to
<1>12. ASSUME NEW t \in DOMAIN r.sent
       PROVE  /\ Increasing(r.sent[t]) /\ Before(r.sent[t], r.rest)
              /\ ToSet(r.sent[t]) \subseteq ToSet(events) \cup ToSet(a.parts[part[t]])
              /\ Before(r.sent[t], r.state.parts[part[t]])
  <2>1. part[t] \in Partitions /\ r.sent[t] = bucket(part[t]) /\ r.state.parts[part[t]] = left(part[t])
    BY <1>9, <1>10
  <2> QED BY <1>5, <1>8, <2>1, NothingOrdered
<1>13. ASSUME NEW p \in Partitions
       PROVE  /\ Increasing(r.state.parts[p])
              /\ ToSet(r.state.parts[p]) \subseteq ToSet(events) \cup ToSet(a.parts[p])
  BY <1>5, <1>9
<1>14. Increasing(r.rest) /\ ToSet(r.rest) \subseteq ToSet(events)
  BY <1>8, NothingOrdered
<1>15. Serves(s, a, events, r)
  BY <1>8, <1>11, <1>12, <1>13, <1>14 DEF Serves
<1> QED BY <1>2, <1>15

\* So every dispatcher serves in order.
LEMMA DispatchServes ==
    ASSUME NEW s, NEW a, Sound(s, a), disp[s] \in Kinds, NEW events \in Seq(Nat),
           part \in [Tags -> Partitions], InTurn(s, a, events)
    PROVE  Serves(s, a, events, Dispatch(s, a, events))
<1>1. CASE disp[s] = "demand"
  BY <1>1, DemandServes DEF Dispatch
<1>2. CASE disp[s] = "broadcast"
  BY <1>2, BroadcastServes DEF Dispatch
<1>3. CASE disp[s] = "partition"
  BY <1>3, PartitionServes DEF Dispatch
<1> QED BY <1>1, <1>2, <1>3 DEF Kinds

----------------------------------------------------------------------------
(* The lines of the subscribers *)

\* The line v of a subscriber whose line was q, after a dispatch.
Follows(s, a, events, r, t, q, v) ==
    /\ v \in Seq(Nat) /\ Increasing(v) /\ Before(v, r.rest)
    /\ disp[s] = "partition" => Before(v, r.state.parts[part[t]])
    /\ ToSet(v) \subseteq ToSet(q) \cup ToSet(events)
                          \cup (IF disp[s] = "partition" THEN ToSet(a.parts[part[t]]) ELSE {})
    /\ t \notin DOMAIN r.sent => v = q

\* The line u of a subscriber with what a dispatch has sent it.
Grown(u, r, t) == IF t \in DOMAIN r.sent THEN u \o r.sent[t] ELSE u

\* What a subscriber is sent follows what it was sent before.
LEMMA LineFollows ==
    ASSUME NEW s, NEW a, NEW events \in Seq(Nat), NEW r, Serves(s, a, events, r),
           NEW t \in Tags, part[t] \in Partitions,
           t \in DOMAIN r.sent => r.sent[t] \in Seq(Nat),
           NEW q \in Seq(Nat), Increasing(q), Before(q, events),
           disp[s] = "partition" => Before(q, a.parts[part[t]]),
           NEW v, v = Grown(q, r, t)
    PROVE  Follows(s, a, events, r, t, q, v)
<1> USE DEF Grown
<1>1. PICK M : M = IF disp[s] = "partition" THEN ToSet(a.parts[part[t]]) ELSE {}
  OBVIOUS
<1>2. /\ ToSet(r.rest) \subseteq ToSet(events)
      /\ ToSet(r.state.parts[part[t]]) \subseteq ToSet(events) \cup ToSet(a.parts[part[t]])
  BY DEF Serves
<1>3. Before(q, r.rest)
  BY <1>2, BeforeMembers
<1>4. \A x \in ToSet(q), y \in ToSet(events) \cup M : x < y
  BY <1>1 DEF Before
<1>5. disp[s] = "partition" => Before(q, r.state.parts[part[t]])
  BY <1>1, <1>2, <1>4 DEF Before
<1>6. CASE t \notin DOMAIN r.sent
  BY <1>3, <1>5, <1>6 DEF Follows
<1>7. CASE t \in DOMAIN r.sent
  <2>1. PICK b : b = r.sent[t]
    OBVIOUS
  <2>2. /\ b \in Seq(Nat) /\ Increasing(b) /\ Before(b, r.rest)
        /\ ToSet(b) \subseteq ToSet(events) \cup M
        /\ disp[s] = "partition" => Before(b, r.state.parts[part[t]])
    BY <1>1, <1>7, <2>1 DEF Serves
  <2>3. Before(q, b)
    BY <1>4, <2>2 DEF Before
  <2>4. v = q \o b
    BY <1>7, <2>1
  <2>5. v \in Seq(Nat) /\ ToSet(v) = ToSet(q) \cup ToSet(b) /\ Increasing(v)
    BY <2>2, <2>3, <2>4, ConcatSet, IncreasingConcat
  <2>6. Before(v, r.rest)
    BY <1>3, <2>2, <2>5 DEF Before
  <2>7. disp[s] = "partition" => Before(v, r.state.parts[part[t]])
    BY <1>5, <2>2, <2>5 DEF Before
  <2>8. ToSet(v) \subseteq (ToSet(q) \cup ToSet(events)) \cup M
    BY <2>2, <2>5
  <2> QED BY <1>1, <1>7, <2>5, <2>6, <2>7, <2>8 DEF Follows
<1> QED BY <1>6, <1>7

\* A batch that is sent is put at the end of its subscriber's line.
LEMMA SentAtTheEnd ==
    ASSUME NEW out \in [Tags -> Seq(Seq(Nat))], NEW r, NEW t \in Tags,
           t \in DOMAIN r.sent => r.sent[t] \in Seq(Nat), NEW q \in Seq(Nat)
    PROVE  q \o FlattenSeq(Sent(out, r)[t]) = Grown(q \o FlattenSeq(out[t]), r, t)
<1> USE DEF Grown
<1>1. PICK x : x = out[t]
  OBVIOUS
<1>2. x \in Seq(Seq(Nat))
  BY <1>1
<1>3. FlattenSeq(x) \in Seq(Nat)
  BY <1>2, FlattenType
<1>4. q \o FlattenSeq(x) \in Seq(Nat)
  BY <1>3, ConcatProperties
<1>5. Sent(out, r)[t] = IF t \in DOMAIN r.sent THEN Append(x, r.sent[t]) ELSE x
  BY <1>1 DEF Sent
<1>6. CASE t \in DOMAIN r.sent
  <2>1. PICK b : b = r.sent[t]
    OBVIOUS
  <2>2. b \in Seq(Nat)
    BY <1>6, <2>1
  <2>3. FlattenSeq(Append(x, b)) = FlattenSeq(x) \o b
    BY <1>2, <2>2, FlattenAppend
  <2>4. q \o (FlattenSeq(x) \o b) = (q \o FlattenSeq(x)) \o b
    BY <1>3, <2>2, JoinAssociative
  <2> QED BY <1>1, <1>4, <1>5, <1>6, <2>1, <2>3, <2>4
<1>7. CASE t \notin DOMAIN r.sent
  BY <1>1, <1>4, <1>5, <1>7
<1> QED BY <1>6, <1>7

\* The buffer after more events, which may have pushed some out.
LEMMA BufferInOrder ==
    ASSUME NEW a \in SourceState, NEW events \in Seq(Nat), Increasing(a.buffer), Increasing(events),
           Before(a.buffer, events), NEW b, b = addToBuffer(a, events)
    PROVE  /\ b.buffer \in Seq(Nat) /\ Increasing(b.buffer)
           /\ ToSet(b.buffer) \subseteq ToSet(a.buffer) \cup ToSet(events)
           /\ b.subs = a.subs /\ b.demand = a.demand /\ b.waiting = a.waiting
           /\ b.parts = a.parts /\ b.mode = a.mode
<1>1. PICK all : all = a.buffer \o events
  OBVIOUS
<1>2. /\ all \in Seq(Nat) /\ ToSet(all) = ToSet(a.buffer) \cup ToSet(events) /\ Increasing(all)
  <2>1. a.buffer \in Seq(Nat)
    BY Fields
  <2> QED BY <1>1, <2>1, ConcatSet, IncreasingConcat
<1>3. PICK N \in Nat : N = Len(all)
  BY <1>2
<1>4. PICK over : over = N - Smaller(N, BufferSize)
  OBVIOUS
<1>5. over \in Nat /\ over <= N
  <2>1. BufferSize \in Nat
    BY StagesAssumption
  <2>2. Smaller(N, BufferSize) \in Nat /\ Smaller(N, BufferSize) <= N
    BY <2>1, SmallerIs
  <2> QED BY <1>4, <2>2
<1>6. PICK q : q = IF BufferKeep = "last" THEN SubSeq(all, over + 1, N)
                   ELSE SubSeq(all, 1, N - over)
  OBVIOUS
<1>7. q \in Seq(Nat) /\ Increasing(q) /\ ToSet(q) \subseteq ToSet(all)
  <2>1. PICK k, n \in Nat : k = over + 1 /\ n = N - over
    BY <1>5
  <2>2. k \in Nat \ {0} /\ N <= Len(all) /\ n <= Len(all) /\ 1 \in Nat \ {0}
    BY <1>3, <1>5, <2>1
  <2>3. /\ SubSeq(all, k, N) \in Seq(Nat) /\ Increasing(SubSeq(all, k, N))
        /\ ToSet(SubSeq(all, k, N)) \subseteq ToSet(all)
    BY <1>2, <2>2, IncreasingPart
  <2>4. /\ SubSeq(all, 1, n) \in Seq(Nat) /\ Increasing(SubSeq(all, 1, n))
        /\ ToSet(SubSeq(all, 1, n)) \subseteq ToSet(all)
    BY <1>2, <2>2, IncreasingPart
  <2> QED BY <1>6, <2>1, <2>3, <2>4
<1>8. PICK n : n = a.dropped + over
  OBVIOUS
<1>9. b = [a EXCEPT !.buffer = q, !.dropped = n]
  BY <1>1, <1>3, <1>4, <1>6, <1>8 DEF addToBuffer
<1>10. /\ b.buffer = q /\ b.subs = a.subs /\ b.demand = a.demand /\ b.waiting = a.waiting
       /\ b.parts = a.parts /\ b.mode = a.mode
  BY <1>9 DEF SourceState
<1> QED BY <1>2, <1>7, <1>10

(* A source after some dispatches: it is tidy, and what has been sent, to   *)
(* its own subscribers, comes before what is left.  Q are the lines of the  *)
(* subscribers before.                                                      *)
InLine(s, w, Q, P) ==
    /\ Tidy(s, w.state, P)
    /\ w.out \in [Tags -> Seq(Seq(Nat))]
    /\ \A t \in Tags : Up[t] # s => w.out[t] = <<>>
    /\ \A t \in Tags : Up[t] = s => Ahead(s, w.state, t, Q[t] \o FlattenSeq(w.out[t]), P)

\* Batches to subscribers of s only.
ToOwn(s, out) ==
    /\ out \in [Tags -> Seq(Seq(Nat))]
    /\ \A t \in Tags : Up[t] # s => out[t] = <<>>

\* A dispatch sends to the subscribers of its source.
LEMMA SentToOwn ==
    ASSUME NEW s, NEW a, Sound(s, a), NEW r, Pays(s, a, r), NEW out, ToOwn(s, out)
    PROVE  ToOwn(s, Sent(out, r))
<1>0. out \in [Tags -> Seq(Seq(Nat))] /\ \A t \in Tags : Up[t] # s => out[t] = <<>>
  BY DEF ToOwn
<1>1. \A t \in DOMAIN r.sent : r.sent[t] \in Seq(Nat) /\ Up[t] = s
  BY DEF Pays, Sound
<1>2. ASSUME NEW t \in Tags
      PROVE  (IF t \in DOMAIN r.sent THEN Append(out[t], r.sent[t]) ELSE out[t]) \in Seq(Seq(Nat))
  <2>1. PICK v : v = out[t]
    OBVIOUS
  <2>2. v \in Seq(Seq(Nat))
    BY <1>0, <2>1
  <2>3. ASSUME t \in DOMAIN r.sent PROVE Append(v, r.sent[t]) \in Seq(Seq(Nat))
    BY <1>1, <2>2, <2>3, AppendProperties
  <2> QED BY <2>1, <2>2, <2>3
<1>3. PICK g : g = Sent(out, r)
  OBVIOUS
<1>4. g = [t \in Tags |-> IF t \in DOMAIN r.sent THEN Append(out[t], r.sent[t]) ELSE out[t]]
  BY <1>3 DEF Sent
<1>5. g \in [Tags -> Seq(Seq(Nat))] /\ \A t \in Tags : Up[t] # s => g[t] = <<>>
  BY <1>0, <1>1, <1>2, <1>4
<1> QED BY <1>3, <1>5 DEF ToOwn

\* A tidy source may dispatch its buffer.
LEMMA BufferInTurn ==
    ASSUME NEW s, NEW a, NEW P, Tidy(s, a, P), \A t \in Subs(a) : part[t] \in Partitions
    PROVE  InTurn(s, a, a.buffer)
<1>1. /\ Increasing(a.buffer) /\ \A p \in Partitions : Increasing(a.parts[p])
      /\ disp[s] = "partition" /\ a.buffer # <<>> => Unparted(a)
  BY DEF Tidy
<1>2. CASE disp[s] = "partition" /\ a.buffer # <<>>
  <2>1. \A p \in Partitions : a.parts[p] = <<>>
    BY <1>1, <1>2 DEF Unparted
  <2>2. \A p \in Partitions : Before(a.parts[p], a.buffer)
    BY <2>1, NothingOrdered
  <2> QED BY <1>1, <2>1, <2>2 DEF InTurn
<1>3. CASE a.buffer = <<>>
  <2>1. \A p \in Partitions : Before(a.parts[p], a.buffer)
    BY <1>3, NothingOrdered
  <2> QED BY <1>1, <1>3, <2>1 DEF InTurn
<1>4. CASE disp[s] # "partition"
  BY <1>1, <1>4 DEF InTurn
<1> QED BY <1>2, <1>3, <1>4

\* What a drained source has sent and kept is in line.
LEMMA DrainInLine ==
    ASSUME NEW s, disp[s] \in Kinds, part \in [Tags -> Partitions], NEW a, Sound(s, a),
           NEW P, Tidy(s, a, P), NEW Q \in [Tags -> Seq(Nat)],
           \A t \in Tags : Up[t] = s => Ahead(s, a, t, Q[t], P),
           NEW w, w = drainBuffer(s, a)
    PROVE  InLine(s, w, Q, P) /\ Calm(s, w.state) /\ w.state.mode = a.mode
<1>1. PICK E : E = a.buffer
  OBVIOUS
<1>2. a \in SourceState /\ E \in Seq(Nat) /\ Subs(a) \subseteq Tags
  BY <1>1, Fields DEF Sound
<1>3. PICK r : r = Dispatch(s, a, E)
  OBVIOUS
<1>4. Pays(s, a, r)
  BY <1>2, <1>3, DispatchPays
<1>5. InTurn(s, a, E)
  BY <1>1, <1>2, BufferInTurn
<1>6. Serves(s, a, E, r)
  BY <1>2, <1>3, <1>5, DispatchServes
<1>7. PICK b : b = [r.state EXCEPT !.buffer = r.rest]
  OBVIOUS
<1>8. w.state = b /\ w.out = Sent(Nothing, r)
  BY <1>1, <1>3, <1>7 DEF drainBuffer
<1>9. r.state \in SourceState /\ r.rest \in Seq(Nat)
  BY <1>4 DEF Pays, Sound
<1>10. b.buffer = r.rest /\ b.parts = r.state.parts /\ b.mode = r.state.mode
  BY <1>7, <1>9, NewBuffer
<1>11. /\ r.state.mode = a.mode /\ Increasing(r.rest) /\ ToSet(r.rest) \subseteq ToSet(E)
       /\ \A p \in Partitions : /\ Increasing(r.state.parts[p])
                                /\ ToSet(r.state.parts[p]) \subseteq ToSet(E) \cup ToSet(a.parts[p])
       /\ disp[s] = "partition" => r.rest = <<>>
       /\ Calm(s, b)
  BY <1>6, <1>7 DEF Serves
<1>12. /\ ToSet(E) \subseteq P /\ \A p \in Partitions : ToSet(a.parts[p]) \subseteq P
       /\ a.mode = "accumulate" => E = <<>> /\ Unparted(a)
  BY <1>1 DEF Tidy
<1>13. ASSUME b.mode = "accumulate" PROVE b.buffer = <<>> /\ Unparted(b)
  <2>1. E = <<>> /\ \A p \in Partitions : a.parts[p] = <<>>
    BY <1>10, <1>11, <1>12, <1>13 DEF Unparted
  <2>2. ToSet(E) = {} /\ \A p \in Partitions : ToSet(a.parts[p]) = {}
    BY <2>1, NothingOrdered
  <2>3. b.buffer = <<>>
    BY <1>9, <1>10, <1>11, <2>2, NoMembers
  <2>4. ASSUME NEW p \in Partitions PROVE b.parts[p] = <<>>
    <3>1. PICK x : x = r.state.parts[p]
      OBVIOUS
    <3>2. x \in Seq(Nat) /\ ToSet(x) = {}
      BY <1>9, <1>11, <2>2, <3>1, Fields
    <3>3. x = <<>>
      BY <3>2, NoMembers
    <3> QED BY <1>10, <3>1, <3>3
  <2> QED BY <2>3, <2>4 DEF Unparted
<1>14. Tidy(s, b, P)
  <2>1. Increasing(b.buffer) /\ ToSet(b.buffer) \subseteq P
    BY <1>10, <1>11, <1>12
  <2>2. ASSUME NEW p \in Partitions
        PROVE  Increasing(b.parts[p]) /\ ToSet(b.parts[p]) \subseteq P
    BY <1>10, <1>11, <1>12
  <2>3. disp[s] = "partition" => b.buffer = <<>>
    BY <1>10, <1>11
  <2> QED BY <1>13, <2>1, <2>2, <2>3 DEF Tidy
<1>15. ASSUME NEW t \in Tags, Up[t] = s
       PROVE  Ahead(s, b, t, Q[t] \o FlattenSeq(Sent(Nothing, r)[t]), P)
  <2>1. PICK q : q = Q[t]
    OBVIOUS
  <2>2. /\ q \in Seq(Nat) /\ Increasing(q) /\ ToSet(q) \subseteq P /\ Before(q, E)
        /\ disp[s] = "partition" => Before(q, a.parts[part[t]])
    BY <1>1, <1>15, <2>1 DEF Ahead
  <2>3. Nothing \in [Tags -> Seq(Seq(Nat))] /\ Nothing[t] = <<>>
    <3>1. <<>> \in Seq(Seq(Nat))
      OBVIOUS
    <3> QED BY <3>1 DEF Nothing
  <2>4. t \in DOMAIN r.sent => r.sent[t] \in Seq(Nat)
    BY <1>4 DEF Pays
  <2>5. q \o FlattenSeq(Nothing[t]) = q
    <3>1. FlattenSeq(Nothing[t]) = <<>>
      BY <2>3, FlattenEmpty
    <3> QED BY <2>2, <3>1, ConcatEmptySeq
  <2>6. PICK v : v = q \o FlattenSeq(Sent(Nothing, r)[t])
    OBVIOUS
  <2>7. v = Grown(q, r, t)
    <3>1. PICK out : out = Nothing
      OBVIOUS
    <3>2. out \in [Tags -> Seq(Seq(Nat))] /\ q \in Seq(Nat)
      BY <2>2, <2>3, <3>1
    <3>3. q \o FlattenSeq(Sent(out, r)[t]) = Grown(q \o FlattenSeq(out[t]), r, t)
      BY <2>4, <3>2, SentAtTheEnd
    <3> QED BY <2>5, <2>6, <3>1, <3>3
  <2>8. part[t] \in Partitions
    OBVIOUS
  <2>9. Follows(s, a, E, r, t, q, v)
    BY <1>2, <1>6, <2>2, <2>4, <2>7, <2>8, LineFollows
  <2>10. /\ Increasing(v) /\ Before(v, r.rest)
         /\ disp[s] = "partition" => Before(v, r.state.parts[part[t]])
         /\ ToSet(v) \subseteq ToSet(q) \cup ToSet(E)
                          \cup (IF disp[s] = "partition" THEN ToSet(a.parts[part[t]]) ELSE {})
    BY <2>9 DEF Follows
  <2>11. ToSet(v) \subseteq P
    BY <1>12, <2>2, <2>8, <2>10
  <2> QED BY <1>10, <2>1, <2>6, <2>10, <2>11 DEF Ahead
<1>16. /\ Sent(Nothing, r) \in [Tags -> Seq(Seq(Nat))]
       /\ \A t \in Tags : Up[t] # s => Sent(Nothing, r)[t] = <<>>
  <2>1. <<>> \in Seq(Seq(Nat))
    OBVIOUS
  <2>2. ToOwn(s, Nothing)
    BY <2>1 DEF ToOwn, Nothing
  <2>3. Sound(s, a) /\ Pays(s, a, r)
    BY <1>4
  <2>4. ToOwn(s, Sent(Nothing, r))
    BY ONLY <2>2, <2>3, SentToOwn, Zenon
  <2> QED BY <2>4 DEF ToOwn
<1> QED BY <1>8, <1>10, <1>11, <1>14, <1>15, <1>16 DEF InLine

\* A calm source whose buffer is not empty sends nothing.
LEMMA CalmSendsNothing ==
    ASSUME NEW s, disp[s] \in Kinds, part \in [Tags -> Partitions], NEW a, Sound(s, a),
           Calm(s, a), a.buffer # <<>>, NEW events \in Seq(Nat)
    PROVE  DOMAIN Dispatch(s, a, events).sent = {}
<1>1. PICK r : r = Dispatch(s, a, events)
  OBVIOUS
<1>2. Pays(s, a, r)
  BY <1>1, DispatchPays
<1>3. CASE disp[s] = "demand"
  <2> SUFFICES ASSUME NEW t \in DOMAIN r.sent PROVE FALSE
    BY <1>1
  <2>1. t \in Subs(a) /\ Owe(s, a, t) > 0
    BY <1>2 DEF Pays
  <2>2. a.demand[t] = 0
    BY <1>3, <2>1 DEF Calm
  <2>3. Owe(s, a, t) = 0
    BY <1>3, <2>1, <2>2 DEF Owe
  <2> QED BY <2>1, <2>3
<1>4. CASE disp[s] = "broadcast"
  <2>1. a.waiting = 0 \/ a.subs = <<>>
    BY <1>4 DEF Calm
  <2>2. r = [state |-> a, sent |-> <<>>, rest |-> events]
    BY <1>1, <1>4, <2>1 DEF Dispatch, BroadcastDispatch
  <2> QED BY <1>1, <2>2
<1>5. CASE disp[s] = "partition"
  BY <1>5 DEF Calm
<1> QED BY <1>3, <1>4, <1>5 DEF Kinds

(* New events are put in line behind all earlier ones, by a calm source:   *)
(* dispatched to those who have asked, and kept behind what is kept.       *)
LEMMA DispatchInLine ==
    ASSUME NEW s, disp[s] \in Kinds, part \in [Tags -> Partitions],
           NEW w, Sound(s, w.state),
           NEW Q \in [Tags -> Seq(Nat)], NEW P, InLine(s, w, Q, P), Calm(s, w.state),
           w.state.mode = "forward",
           disp[s] = "partition" /\ w.state.subs = <<>> => Unparted(w.state),
           NEW events \in Seq(Nat), Increasing(events), \A x \in P, y \in ToSet(events) : x < y,
           NEW z, z = dispatchOrBuffer(s, w, events)
    PROVE  /\ InLine(s, z, Q, P \cup ToSet(events))
           /\ z.state.mode = "forward"
           /\ disp[s] = "demand" => Calm(s, z.state)
<1>1. PICK a : a = w.state
  OBVIOUS
<1>2. a \in SourceState /\ Sound(s, a) /\ Calm(s, a) /\ a.mode = "forward" /\ Subs(a) \subseteq Tags
      /\ (disp[s] = "partition" /\ a.subs = <<>> => Unparted(a))
  BY <1>1, Fields DEF Sound
<1>3. /\ Tidy(s, a, P) /\ w.out \in [Tags -> Seq(Seq(Nat))]
      /\ \A t \in Tags : Up[t] = s => Ahead(s, a, t, Q[t] \o FlattenSeq(w.out[t]), P)
  BY <1>1 DEF InLine
<1>4. /\ Increasing(a.buffer) /\ ToSet(a.buffer) \subseteq P /\ a.buffer \in Seq(Nat)
      /\ \A p \in Partitions : Increasing(a.parts[p]) /\ ToSet(a.parts[p]) \subseteq P
  BY <1>2, <1>3, Fields DEF Tidy
<1>5. Before(a.buffer, events) /\ \A p \in Partitions : Before(a.parts[p], events)
  BY <1>4 DEF Before
<1>6. PICK R : R = P \cup ToSet(events)
  OBVIOUS
<1>7. ASSUME NEW t \in Tags, Up[t] = s
      PROVE  /\ Q[t] \o FlattenSeq(w.out[t]) \in Seq(Nat)
             /\ Increasing(Q[t] \o FlattenSeq(w.out[t]))
             /\ ToSet(Q[t] \o FlattenSeq(w.out[t])) \subseteq P
             /\ Before(Q[t] \o FlattenSeq(w.out[t]), a.buffer)
             /\ Before(Q[t] \o FlattenSeq(w.out[t]), events)
             /\ disp[s] = "partition" => Before(Q[t] \o FlattenSeq(w.out[t]), a.parts[part[t]])
  <2>1. PICK q : q = Q[t] \o FlattenSeq(w.out[t])
    OBVIOUS
  <2>2. Ahead(s, a, t, q, P)
    BY <1>3, <1>7, <2>1
  <2>3. q \in Seq(Nat)
    <3>1. FlattenSeq(w.out[t]) \in Seq(Nat)
      BY <1>3, FlattenType
    <3> QED BY <2>1, <3>1, ConcatProperties
  <2>4. Before(q, events)
    BY <2>2 DEF Ahead, Before
  <2> QED BY <2>1, <2>2, <2>3, <2>4 DEF Ahead
<1>8. CASE a.subs = <<>>
  <2>1. PICK b : b = addToBuffer(a, events)
    OBVIOUS
  <2>2. z = [w EXCEPT !.state = b]
    BY <1>1, <1>8, <2>1 DEF dispatchOrBuffer
  <2>3. z.state = b /\ z.out = w.out
    BY <2>1, <2>2 DEF InLine
  <2>4. /\ Increasing(b.buffer) /\ ToSet(b.buffer) \subseteq ToSet(a.buffer) \cup ToSet(events)
        /\ b.subs = a.subs /\ b.parts = a.parts /\ b.mode = a.mode
    BY <1>2, <1>4, <1>5, <2>1, BufferInOrder
  <2>5. Tidy(s, b, R)
    <3>1. ToSet(b.buffer) \subseteq R
      BY <1>4, <1>6, <2>4
    <3>2. \A p \in Partitions : Increasing(b.parts[p]) /\ ToSet(b.parts[p]) \subseteq R
      BY <1>4, <1>6, <2>4
    <3>3. disp[s] = "partition" => Unparted(b)
      BY <1>2, <1>8, <2>4 DEF Unparted
    <3>4. b.mode # "accumulate"
      BY <1>2, <2>4
    <3> QED BY <2>4, <3>1, <3>2, <3>3, <3>4 DEF Tidy
  <2>6. ASSUME NEW t \in Tags, Up[t] = s
        PROVE  Ahead(s, b, t, Q[t] \o FlattenSeq(w.out[t]), R)
    <3>1. PICK q : q = Q[t] \o FlattenSeq(w.out[t])
      OBVIOUS
    <3>2. /\ Increasing(q) /\ ToSet(q) \subseteq P /\ Before(q, a.buffer) /\ Before(q, events)
          /\ disp[s] = "partition" => Before(q, a.parts[part[t]])
      BY <1>7, <2>6, <3>1
    <3>3. Before(q, b.buffer)
      BY <2>4, <3>2 DEF Before
    <3> QED BY <1>6, <2>4, <3>1, <3>2, <3>3 DEF Ahead
  <2>7. Calm(s, b) \/ disp[s] # "demand"
    <3>1. Subs(b) = {}
      BY <1>8, <2>4 DEF Subs, ToSet
    <3> QED BY <3>1 DEF Calm
  <2>8. InLine(s, z, Q, R)
    BY <2>3, <2>5, <2>6 DEF InLine
  <2> QED BY <1>2, <1>6, <2>3, <2>4, <2>7, <2>8
<1>9. CASE a.subs # <<>>
  <2>1. PICK r : r = Dispatch(s, a, events)
    OBVIOUS
  <2>2. PICK b : b = addToBuffer(r.state, r.rest)
    OBVIOUS
  <2>3. z = [state |-> b, out |-> Sent(w.out, r)]
    BY <1>1, <1>9, <2>1, <2>2 DEF dispatchOrBuffer
  <2>4. z.state = b /\ z.out = Sent(w.out, r)
    BY <2>3
  <2>5. Pays(s, a, r)
    BY <1>2, <2>1, DispatchPays
  <2>6. InTurn(s, a, events)
    BY <1>2, <1>4, <1>5 DEF InTurn, Calm
  <2>7. Serves(s, a, events, r)
    BY <1>2, <2>1, <2>6, DispatchServes
  <2>8. /\ r.state.buffer = a.buffer /\ r.state.mode = a.mode
        /\ Increasing(r.rest) /\ ToSet(r.rest) \subseteq ToSet(events)
        /\ \A p \in Partitions : /\ Increasing(r.state.parts[p])
                                 /\ ToSet(r.state.parts[p]) \subseteq ToSet(events) \cup ToSet(a.parts[p])
        /\ disp[s] = "partition" => r.rest = <<>>
    BY <2>7 DEF Serves
  <2>9. r.state \in SourceState /\ r.rest \in Seq(Nat) /\ r.state.subs = a.subs
    BY <2>5 DEF Pays, Sound
  <2>10. /\ Increasing(b.buffer) /\ ToSet(b.buffer) \subseteq ToSet(a.buffer) \cup ToSet(r.rest)
         /\ b.buffer \in Seq(Nat)
         /\ b.subs = a.subs /\ b.parts = r.state.parts /\ b.mode = a.mode
         /\ b.demand = r.state.demand
    <3>1. PICK c, q : c = r.state /\ q = r.rest
      OBVIOUS
    <3>2. c \in SourceState /\ q \in Seq(Nat) /\ Increasing(q) /\ Increasing(c.buffer)
      BY <1>4, <2>8, <2>9, <3>1
    <3>3. Before(c.buffer, q)
      BY <1>5, <2>8, <3>1 DEF Before
    <3>4. b = addToBuffer(c, q)
      BY <2>2, <3>1
    <3>5. /\ b.buffer \in Seq(Nat) /\ Increasing(b.buffer)
          /\ ToSet(b.buffer) \subseteq ToSet(c.buffer) \cup ToSet(q)
          /\ b.subs = c.subs /\ b.demand = c.demand /\ b.parts = c.parts /\ b.mode = c.mode
      BY <3>2, <3>3, <3>4, BufferInOrder
    <3> QED BY <2>8, <2>9, <3>1, <3>5
  <2>11. Tidy(s, b, R)
    <3>1. ToSet(b.buffer) \subseteq R
      BY <1>4, <1>6, <2>8, <2>10
    <3>2. ASSUME NEW p \in Partitions
          PROVE  Increasing(b.parts[p]) /\ ToSet(b.parts[p]) \subseteq R
      BY <1>4, <1>6, <2>8, <2>10
    <3>3. disp[s] = "partition" => b.buffer = <<>>
      <4> SUFFICES ASSUME disp[s] = "partition" PROVE b.buffer = <<>>
        OBVIOUS
      <4>1. a.buffer = <<>> /\ r.rest = <<>>
        BY <1>2, <2>8 DEF Calm
      <4>2. ToSet(b.buffer) = {}
        BY <2>10, <4>1, NothingOrdered
      <4> QED BY <2>10, <4>2, NoMembers
    <3>4. b.mode # "accumulate"
      BY <1>2, <2>10
    <3> QED BY <2>10, <3>1, <3>2, <3>3, <3>4 DEF Tidy
  <2>12. a.buffer # <<>> => DOMAIN r.sent = {}
    BY <1>2, <2>1, CalmSendsNothing
  <2>13. ASSUME NEW t \in Tags, Up[t] = s
         PROVE  Ahead(s, b, t, Q[t] \o FlattenSeq(Sent(w.out, r)[t]), R)
    <3>1. PICK q : q = Q[t] \o FlattenSeq(w.out[t])
      OBVIOUS
    <3>2. /\ q \in Seq(Nat) /\ Increasing(q) /\ ToSet(q) \subseteq P
          /\ Before(q, a.buffer) /\ Before(q, events)
          /\ disp[s] = "partition" => Before(q, a.parts[part[t]])
      BY <1>7, <2>13, <3>1
    <3>3. t \in DOMAIN r.sent => r.sent[t] \in Seq(Nat)
      BY <2>5 DEF Pays
    <3>4. PICK v : v = Q[t] \o FlattenSeq(Sent(w.out, r)[t])
      OBVIOUS
    <3>5. v = Grown(q, r, t)
      <4>1. PICK out, x : out = w.out /\ x = Q[t]
        OBVIOUS
      <4>2. out \in [Tags -> Seq(Seq(Nat))] /\ x \in Seq(Nat)
        BY <1>3, <4>1
      <4>3. x \o FlattenSeq(Sent(out, r)[t]) = Grown(x \o FlattenSeq(out[t]), r, t)
        BY <3>3, <4>2, SentAtTheEnd
      <4> QED BY <3>1, <3>4, <4>1, <4>3
    <3>6. part[t] \in Partitions
      OBVIOUS
    <3>7. Follows(s, a, events, r, t, q, v)
      BY <2>7, <3>2, <3>3, <3>5, <3>6, LineFollows
    <3>8. /\ Increasing(v) /\ Before(v, r.rest)
          /\ disp[s] = "partition" => Before(v, r.state.parts[part[t]])
          /\ ToSet(v) \subseteq ToSet(q) \cup ToSet(events)
                          \cup (IF disp[s] = "partition" THEN ToSet(a.parts[part[t]]) ELSE {})
          /\ t \notin DOMAIN r.sent => v = q
      BY <3>7 DEF Follows
    <3>9. ToSet(v) \subseteq R
      BY <1>4, <1>6, <3>2, <3>6, <3>8
    <3>10. Before(v, b.buffer)
      <4>1. CASE a.buffer = <<>>
        <5>1. ToSet(b.buffer) \subseteq ToSet(r.rest)
          BY <2>10, <4>1, NothingOrdered
        <5> QED BY <3>8, <5>1 DEF Before
      <4>2. CASE a.buffer # <<>>
        <5>1. v = q
          BY <2>12, <3>8, <4>2
        <5> QED BY <2>10, <3>2, <3>8, <5>1 DEF Before
      <4> QED BY <4>1, <4>2
    <3> QED BY <2>10, <3>4, <3>8, <3>9, <3>10 DEF Ahead
  <2>14. ASSUME disp[s] = "demand" PROVE Calm(s, b)
    <3> SUFFICES ASSUME b.buffer # <<>>, NEW t \in Subs(b) PROVE b.demand[t] = 0
      BY <2>14 DEF Calm
    <3>1. t \in Subs(a) /\ Subs(r.state) = Subs(a)
      BY <2>9, <2>10 DEF Subs
    <3>2. CASE r.rest # <<>>
      <4>1. PICK c : c = [r.state EXCEPT !.buffer = r.rest]
        OBVIOUS
      <4>2. c.buffer = r.rest /\ c.demand = r.state.demand /\ Subs(c) = Subs(r.state)
        BY <2>9, <4>1, NewBuffer
      <4>3. Calm(s, c)
        BY <2>7, <4>1 DEF Serves
      <4>4. c.demand[t] = 0
        BY <2>14, <3>1, <3>2, <4>2, <4>3 DEF Calm
      <4> QED BY <2>10, <4>2, <4>4
    <3>3. CASE r.rest = <<>>
      <4>1. ToSet(b.buffer) # {}
        BY <2>10, NoMembers
      <4>2. a.buffer # <<>>
        BY <2>10, <3>3, <4>1, NothingOrdered
      <4>3. DOMAIN r.sent = {} /\ a.demand[t] = 0
        BY <1>2, <2>12, <2>14, <3>1, <4>2 DEF Calm
      <4>4. t \in Tags
        BY <1>2, <3>1
      <4>5. Owe(s, r.state, t) = Owe(s, a, t)
        BY <2>5, <4>3, <4>4 DEF Pays
      <4>6. Owe(s, r.state, t) = r.state.demand[t] + 0 /\ Owe(s, a, t) = a.demand[t] + 0
        BY <2>14, <3>1 DEF Owe
      <4>7. r.state.demand[t] \in Nat
        BY <2>9, <4>4, Fields
      <4>8. PICK x \in Nat : x = r.state.demand[t]
        BY <4>7
      <4>9. x + 0 = 0 + 0
        BY <4>3, <4>5, <4>6, <4>8
      <4>10. x = 0
        BY <4>9
      <4> QED BY <2>10, <4>8, <4>10
    <3> QED BY <3>2, <3>3
  <2>15. InLine(s, z, Q, R)
    <3>1. /\ Sent(w.out, r) \in [Tags -> Seq(Seq(Nat))]
          /\ \A t \in Tags : Up[t] # s => Sent(w.out, r)[t] = <<>>
      <4>1. ToOwn(s, w.out)
        BY DEF InLine, ToOwn
      <4>2. Sound(s, a) /\ Pays(s, a, r)
        BY <1>2, <2>5
      <4>3. ToOwn(s, Sent(w.out, r))
        BY ONLY <4>1, <4>2, SentToOwn, Zenon
      <4> QED BY <4>3 DEF ToOwn
    <3> QED BY <2>4, <2>11, <2>13, <3>1 DEF InLine
  <2> QED BY <1>2, <1>6, <2>4, <2>10, <2>14, <2>15
<1> QED BY <1>8, <1>9

----------------------------------------------------------------------------
(* Steps that move no events *)

\* The events of a source wait where they waited.
SameEvents(a, b) == b.buffer = a.buffer /\ b.parts = a.parts /\ b.mode = a.mode

\* syncDemands() moves no events.
LEMMA SyncRests ==
    ASSUME NEW a \in SourceState
    PROVE  SameEvents(a, syncDemands(a).state) /\ syncDemands(a).state.subs = a.subs
<1>1. PICK min : min = Min({a.demand[t] : t \in Subs(a)})
  OBVIOUS
<1>2. PICK waiting : waiting = a.waiting + min
  OBVIOUS
<1>3. PICK request : request = IF waiting > a.requested THEN waiting - a.requested ELSE 0
  OBVIOUS
<1>4. PICK r : r = syncDemands(a)
  OBVIOUS
<1>5. CASE a.subs = <<>> \/ min = 0
  <2>1. r = [state |-> a, request |-> 0]
    BY <1>1, <1>4, <1>5 DEF syncDemands
  <2> QED BY <1>4, <2>1 DEF SameEvents
<1>6. CASE ~(a.subs = <<>> \/ min = 0)
  <2>1. PICK f : f = [t \in Tags |-> IF t \in Subs(a) THEN a.demand[t] - min ELSE a.demand[t]]
    OBVIOUS
  <2>2. PICK n : n = a.requested + request
    OBVIOUS
  <2>3. a.demand \in [Tags -> Nat]
    BY Fields
  <2>4. r = [state |-> [a EXCEPT !.demand = f, !.waiting = waiting, !.requested = n],
             request |-> request]
    BY <1>1, <1>2, <1>3, <1>4, <1>6, <2>1, <2>2 DEF syncDemands, SourceState
  <2>5. r.state = [a EXCEPT !.demand = f, !.waiting = waiting, !.requested = n]
    BY <2>4
  <2>6. SameEvents(a, r.state) /\ r.state.subs = a.subs
    BY <2>5 DEF SameEvents, SourceState
  <2> QED BY <1>4, <2>6
<1> QED BY <1>5, <1>6

\* An ask moves no events; a partition is asked by its subscriber only.
LEMMA AskRests ==
    ASSUME NEW s, disp[s] \in Kinds, NEW a \in SourceState, NEW t \in Tags, NEW d \in Nat,
           NEW r, r = Ask(s, a, t, d)
    PROVE  /\ SameEvents(a, r.state)
           /\ disp[s] = "partition" /\ r.request > 0 => t \in Subs(a)
<1>1. PICK more : more = IF t \in Subs(a) THEN [a EXCEPT !.demand[t] = @ + d] ELSE a
  OBVIOUS
<1>2. more \in SourceState /\ SameEvents(a, more)
  <2>1. CASE t \in Subs(a)
    <3>1. PICK f : f = [a.demand EXCEPT ![t] = a.demand[t] + d]
      OBVIOUS
    <3>2. a.demand \in [Tags -> Nat] /\ a.demand[t] \in Nat
      BY Fields
    <3>3. f \in [Tags -> Nat]
      BY <3>1, <3>2
    <3>4. more = [a EXCEPT !.demand = f]
      BY <1>1, <2>1, <3>1 DEF SourceState
    <3> QED BY <3>3, <3>4 DEF SourceState, SameEvents
  <2>2. CASE t \notin Subs(a)
    BY <1>1, <2>2 DEF SameEvents
  <2> QED BY <2>1, <2>2
<1>3. CASE disp[s] = "demand"
  <2>1. r = [state |-> more, request |-> Demand(more, Subs(more))]
    BY <1>1, <1>3 DEF Ask
  <2> QED BY <1>2, <1>3, <2>1
<1>4. CASE disp[s] = "broadcast"
  <2>1. CASE t \in Subs(a)
    <3>1. r = syncDemands(more)
      BY <1>1, <1>4, <2>1 DEF Ask
    <3>2. SameEvents(more, r.state)
      BY <1>2, <3>1, SyncRests
    <3> QED BY <1>2, <1>4, <3>2 DEF SameEvents
  <2>2. CASE t \notin Subs(a)
    <3>1. r = [state |-> a, request |-> 0]
      BY <1>4, <2>2 DEF Ask
    <3> QED BY <1>4, <3>1 DEF SameEvents
  <2> QED BY <2>1, <2>2
<1>5. CASE disp[s] = "partition"
  <2>1. r = [state |-> more, request |-> IF t \in Subs(a) THEN d ELSE 0]
    BY <1>1, <1>5 DEF Ask
  <2> QED BY <1>2, <2>1
<1> QED BY <1>3, <1>4, <1>5 DEF Kinds

\* A new subscriber moves no events, and has asked for none.
LEMMA SubscribeRests ==
    ASSUME NEW s, NEW a, Sound(s, a), NEW t \in Tags, Up[t] = s, t \notin Subs(a),
           disp[s] \in Kinds, disp[s] = "partition" => Entry(a, part[t]) = {},
           NEW b, b = Subscribe(s, a, t)
    PROVE  SameEvents(a, b) /\ (disp[s] = "demand" /\ Calm(s, a) => Calm(s, b))
<1>1. a \in SourceState
  BY DEF Sound
<1>2. PICK f : f = [u \in Tags |-> IF u = t THEN 0
                       ELSE IF disp[s] = "broadcast" /\ u \in Subs(a)
                       THEN a.demand[u] + a.waiting ELSE a.demand[u]]
  OBVIOUS
<1>3. PICK q, n : q = Append(a.subs, t) /\ n = IF disp[s] = "broadcast" THEN 0 ELSE a.waiting
  OBVIOUS
<1>4. b = [a EXCEPT !.subs = q, !.demand = f, !.waiting = n]
  BY <1>1, <1>2, <1>3 DEF Subscribe, SourceState
<1>5. SameEvents(a, b) /\ b.demand = f
  BY <1>1, <1>4 DEF SameEvents, SourceState
<1>6. Subs(b) = Subs(a) \cup {t} /\ Subs(a) \subseteq Tags
  <2>1. Subs(Subscribe(s, a, t)) = Subs(a) \cup {t}
    BY SubscribeOwes
  <2> QED BY <1>1, <2>1, Fields
<1>7. ASSUME disp[s] = "demand", Calm(s, a) PROVE Calm(s, b)
  <2>1. \A u \in Subs(b) : b.demand[u] = IF u = t THEN 0 ELSE a.demand[u]
    BY <1>2, <1>5, <1>6, <1>7
  <2>2. a.buffer # <<>> => \A u \in Subs(a) : a.demand[u] = 0
    BY <1>7 DEF Calm
  <2> QED BY <1>5, <1>6, <1>7, <2>1, <2>2 DEF Calm, SameEvents
<1> QED BY <1>5, <1>7

\* Nor does one that leaves.
LEMMA CancelRests ==
    ASSUME NEW s, NEW a, Sound(s, a), NEW t \in Tags, NEW b, b = Cancel(s, a, t)
    PROVE  SameEvents(a, b) /\ (disp[s] = "demand" /\ Calm(s, a) => Calm(s, b))
<1>1. a \in SourceState
  BY DEF Sound
<1>2. PICK q, f : q = Only(a.subs, Tags \ {t}) /\ f = [a.demand EXCEPT ![t] = 0]
  OBVIOUS
<1>3. PICK gone : gone = [a EXCEPT !.subs = q, !.demand = f]
  OBVIOUS
<1>4. a.subs \in Seq(Tags) /\ a.demand \in [Tags -> Nat] /\ Subs(a) \subseteq Tags
  BY <1>1, Fields
<1>5. q \in Seq(Tags) /\ ToSet(q) = ToSet(a.subs) \cap (Tags \ {t})
  BY <1>2, <1>4, OnlySet
<1>6. f \in [Tags -> Nat] /\ \A u \in Tags : u # t => f[u] = a.demand[u]
  BY <1>2, <1>4
<1>7. gone \in SourceState /\ gone.subs = q /\ gone.demand = f /\ SameEvents(a, gone)
  BY <1>1, <1>3, <1>5, <1>6 DEF SourceState, SameEvents
<1>8. gone = [a EXCEPT !.subs = Only(@, Tags \ {t}), !.demand[t] = 0]
  BY <1>1, <1>2, <1>3 DEF SourceState
<1>9. \/ b = gone
      \/ disp[s] = "broadcast" /\ b = [gone EXCEPT !.waiting = 0, !.requested = 0]
      \/ disp[s] = "broadcast" /\ b = syncDemands(gone).state
  BY <1>8 DEF Cancel
<1>10. SameEvents(a, b)
  <2>1. CASE b = gone
    BY <1>7, <2>1
  <2>2. CASE b = [gone EXCEPT !.waiting = 0, !.requested = 0]
    BY <1>7, <2>2 DEF SameEvents, SourceState
  <2>3. CASE b = syncDemands(gone).state
    BY <1>7, <2>3, SyncRests DEF SameEvents
  <2> QED BY <1>9, <2>1, <2>2, <2>3
<1>11. ASSUME disp[s] = "demand", Calm(s, a) PROVE Calm(s, b)
  <2>1. b = gone
    BY <1>9, <1>11
  <2>2. Subs(b) = Subs(a) \ {t}
    BY <1>4, <1>5, <1>7, <2>1 DEF Subs
  <2>3. \A u \in Subs(b) : b.demand[u] = a.demand[u]
    BY <1>4, <1>6, <1>7, <2>1, <2>2
  <2>4. a.buffer # <<>> => \A u \in Subs(a) : a.demand[u] = 0
    BY <1>11 DEF Calm
  <2> QED BY <1>10, <1>11, <2>2, <2>3, <2>4 DEF Calm, SameEvents
<1> QED BY <1>10, <1>11

\* A step that sends nothing for s and leaves its events where they are.
Rests(s) ==
    /\ SameEvents(src[s], src'[s])
    /\ \A t \in Tags : Up[t] = s => Out(t)' = Out(t)
    /\ Past(s) \subseteq Past(s)'
    /\ s \notin Producers /\ Calm(s, src[s]) => Calm(s, src'[s])

\* The stages that keep the order are the same all the time.
LEMMA OrderlyKept ==
    ASSUME UNCHANGED setup, NEW s
    PROVE  Orderly(s)' = Orderly(s)
BY DEF setup, Orderly, Straight

\* What a source has had, when no event moves.
LEMMA PastKept ==
    ASSUME UNCHANGED <<next, taken>>, NEW s
    PROVE  Past(s)' = Past(s)
BY DEF Past

\* An orderly source that rests is in order.
LEMMA RestsOrdered ==
    ASSUME UNCHANGED setup, NEW s, Ordered(s), Rests(s)
    PROVE  Ordered(s)'
<1>1. disp' = disp /\ part' = part
  BY DEF setup
<1>2. PICK a, b, P, R : a = src[s] /\ b = src'[s] /\ P = Past(s) /\ R = Past(s)'
  OBVIOUS
<1>3. /\ b.buffer = a.buffer /\ b.parts = a.parts /\ b.mode = a.mode
      /\ P \subseteq R
      /\ s \notin Producers /\ Calm(s, a) => Calm(s, b)
  BY <1>2 DEF Rests, SameEvents
<1>4. /\ Tidy(s, a, P)
      /\ \A t \in Tags : Up[t] = s => Ahead(s, a, t, Out(t), P)
      /\ s \notin Producers => Calm(s, a) /\ a.mode = "forward"
  BY <1>2 DEF Ordered
<1>5. Tidy(s, b, R)
  BY <1>3, <1>4 DEF Tidy, Unparted
<1>6. ASSUME NEW t \in Tags, Up[t] = s PROVE Ahead(s, b, t, Out(t)', R)
  <2>1. Out(t)' = Out(t)
    BY <1>6 DEF Rests
  <2>2. Ahead(s, a, t, Out(t), P)
    BY <1>4, <1>6
  <2>3. PICK q : q = Out(t)
    OBVIOUS
  <2>4. Ahead(s, b, t, q, R)
    BY <1>3, <2>2, <2>3 DEF Ahead
  <2> QED BY <2>1, <2>3, <2>4
<1>7. s \notin Producers => Calm(s, b) /\ b.mode = "forward"
  BY <1>3, <1>4
<1>8. Tidy(s, src[s], Past(s))'
  BY <1>1, <1>2, <1>5 DEF Tidy, Unparted
<1>9. ASSUME NEW t \in Tags, Up[t] = s PROVE Ahead(s, src[s], t, Out(t), Past(s))'
  <2>1. Ahead(s, b, t, Out(t)', R)
    BY <1>6, <1>9
  <2> QED BY <1>1, <1>2, <2>1 DEF Ahead
<1>10. s \notin Producers => Calm(s, src[s])' /\ src'[s].mode = "forward"
  BY <1>1, <1>2, <1>7 DEF Calm, Subs
<1> QED BY <1>8, <1>9, <1>10 DEF Ordered

\* A step in which all sources rest keeps the order.
LEMMA AllRest ==
    ASSUME OrderInv, UNCHANGED setup, \A s \in Sources : Rests(s)
    PROVE  OrderInv'
<1> SUFFICES ASSUME NEW s \in Sources, Orderly(s)' PROVE Ordered(s)'
  BY DEF OrderInv
<1>1. Orderly(s)
  BY OrderlyKept
<1>2. Ordered(s) /\ Rests(s)
  BY <1>1 DEF OrderInv
<1> QED BY <1>2, RestsOrdered

\* A step without events.
LEMMA OrderIdle ==
    ASSUME OrderInv, UNCHANGED <<setup, src, next, batches, taken>>
    PROVE  OrderInv'
<1> SUFFICES ASSUME NEW s \in Sources PROVE Rests(s)
  BY AllRest
<1>1. SameEvents(src[s], src'[s]) /\ (Calm(s, src[s]) => Calm(s, src'[s]))
  BY DEF SameEvents
<1>2. \A t \in Tags : Out(t)' = Out(t)
  BY DEF Out, InFlight
<1>3. Past(s)' = Past(s)
  BY PastKept
<1> QED BY <1>1, <1>2, <1>3 DEF Rests

\* A source takes a new state, in which its events are where they were.
LEMMA OrderRestated ==
    ASSUME Typed, OrderInv, UNCHANGED <<setup, next, batches, taken>>,
           NEW s \in Sources, NEW b, src' = [src EXCEPT ![s] = b],
           SameEvents(src[s], b), Orderly(s) /\ s \notin Producers => disp[s] = "demand",
           disp[s] = "demand" /\ Calm(s, src[s]) => Calm(s, b)
    PROVE  OrderInv'
<1> SUFFICES ASSUME NEW z \in Sources, Orderly(z)' PROVE Ordered(z)'
  BY DEF OrderInv
<1>1. Orderly(z)
  BY OrderlyKept
<1>2. src'[s] = b /\ \A y \in Sources : y # s => src'[y] = src[y]
  BY DEF Typed
<1>3. SameEvents(src[z], src'[z])
  BY <1>2 DEF SameEvents
<1>4. z \notin Producers /\ Calm(z, src[z]) => Calm(z, src'[z])
  <2>1. CASE z = s
    BY <1>1, <1>2, <2>1
  <2>2. CASE z # s
    BY <1>2, <2>2
  <2> QED BY <2>1, <2>2
<1>5. \A t \in Tags : Out(t)' = Out(t)
  BY DEF Out, InFlight
<1>6. Past(z)' = Past(z)
  BY PastKept
<1>7. Rests(z)
  BY <1>3, <1>4, <1>5, <1>6 DEF Rests
<1>8. Ordered(z)
  BY <1>1 DEF OrderInv
<1> QED BY <1>7, <1>8, RestsOrdered

\* A producer-consumer that keeps the order has the demand dispatcher.
LEMMA StraightDemand ==
    ASSUME NEW s \in Sources, Orderly(s), s \notin Producers
    PROVE  disp[s] = "demand"
BY DEF Orderly, Straight, Sources

\* A subscriber joins.
LEMMA OrderHandleSubscribe ==
    ASSUME DemandInv, OrderInv, NEW t \in Tags, handleSubscribe(t)
    PROVE  OrderInv'
<1> DEFINE free == disp[Up[t]] = "partition" => Entry(src[Up[t]], part[t]) = {}
<1> USE DEF handleSubscribe
<1>1. Typed /\ Placed
  BY DEF DemandInv
<1>2. PICK s, a : s = Up[t] /\ a = src[s]
  OBVIOUS
<1>3. s \in Sources /\ Sound(s, a) /\ disp[s] \in Kinds
  BY <1>1, <1>2, Counts
<1>4. t \notin Subs(a)
  BY <1>1, <1>2 DEF Placed, Listed
<1>5. CASE free
  <2>1. PICK b : b = Subscribe(s, a, t)
    OBVIOUS
  <2>2. disp[s] = "partition" => Entry(a, part[t]) = {}
    BY <1>2, <1>5
  <2>3. SameEvents(a, b) /\ (disp[s] = "demand" /\ Calm(s, a) => Calm(s, b))
    BY <1>2, <1>3, <1>4, <2>1, <2>2, SubscribeRests
  <2>4. src' = [src EXCEPT ![s] = b] /\ UNCHANGED <<setup, next, batches, taken>>
    BY <1>2, <1>5, <2>1
  <2>5. SameEvents(src[s], b) /\ (disp[s] = "demand" /\ Calm(s, src[s]) => Calm(s, b))
    BY <1>2, <2>3
  <2> QED BY <1>1, <1>3, <2>4, <2>5, StraightDemand, OrderRestated
<1>6. CASE ~free
  <2>1. UNCHANGED <<setup, src, next, batches, taken>>
    BY <1>6
  <2> QED BY <2>1, OrderIdle
<1> QED BY <1>5, <1>6

\* A subscriber leaves.
LEMMA OrderHandleCancel ==
    ASSUME DemandInv, OrderInv, NEW t \in Tags, handleCancel(t)
    PROVE  OrderInv'
<1> USE DEF handleCancel
<1>1. Typed
  BY DEF DemandInv
<1>2. PICK s, a : s = Up[t] /\ a = src[s]
  OBVIOUS
<1>3. s \in Sources /\ Sound(s, a) /\ disp[s] \in Kinds
  BY <1>1, <1>2, Counts
<1>4. CASE t \in Subs(a)
  <2>1. PICK b : b = Cancel(s, a, t)
    OBVIOUS
  <2>2. SameEvents(a, b) /\ (disp[s] = "demand" /\ Calm(s, a) => Calm(s, b))
    BY <1>3, <2>1, CancelRests
  <2>3. src' = [src EXCEPT ![s] = b] /\ UNCHANGED <<setup, next, batches, taken>>
    BY <1>2, <1>4, <2>1
  <2>4. SameEvents(src[s], b) /\ (disp[s] = "demand" /\ Calm(s, src[s]) => Calm(s, b))
    BY <1>2, <2>2
  <2> QED BY <1>1, <1>3, <2>3, <2>4, StraightDemand, OrderRestated
<1>5. CASE t \notin Subs(a)
  <2>1. UNCHANGED <<setup, src, next, batches, taken>>
    BY <1>2, <1>5
  <2> QED BY <2>1, OrderIdle
<1> QED BY <1>4, <1>5

\* What the consumer has and what is under way, when a batch arrives.
LEMMA BatchMoves ==
    ASSUME Typed, NEW t \in Tags, BatchArrives(t), NEW B,
           B = [u \in Tags |-> IF u = t THEN Tail(batches[u]) ELSE batches[u]]
    PROVE  /\ B \in [Tags -> Seq(Seq(Nat))] /\ taken' \in [Tags -> Seq(Nat)]
           /\ \A u \in Tags : /\ taken'[u] \o FlattenSeq(B[u]) = Out(u)
                              /\ ToSet(taken[u]) \subseteq ToSet(taken'[u])
           /\ ToSet(taken'[t]) = ToSet(taken[t]) \cup ToSet(Head(batches[t]))
           /\ \A u \in Tags \ {t} : taken'[u] = taken[u]
<1>1. /\ batches[t] # <<>> /\ taken' = [taken EXCEPT ![t] = taken[t] \o Head(batches[t])]
  BY DEF BatchArrives
<1>2. taken \in [Tags -> Seq(Nat)] /\ batches \in [Tags -> Seq(Seq(Nat))]
  BY DEF Typed
<1>3. PICK x, y, z : x = taken[t] /\ y = Head(batches[t]) /\ z = FlattenSeq(Tail(batches[t]))
  OBVIOUS
<1>4. /\ y \in Seq(Nat) /\ Tail(batches[t]) \in Seq(Seq(Nat)) /\ x \in Seq(Nat)
      /\ InFlight(t) = y \o z
  BY <1>1, <1>2, <1>3, FirstBatch
<1>5. z \in Seq(Nat)
  BY <1>3, <1>4, FlattenType
<1>6. x \o y \in Seq(Nat) /\ ToSet(x \o y) = ToSet(x) \cup ToSet(y)
  BY <1>4, ConcatSet
<1>7. PICK v : v = x \o y
  OBVIOUS
<1>8. taken' = [taken EXCEPT ![t] = v] /\ v \in Seq(Nat)
  BY <1>1, <1>3, <1>6, <1>7
<1>9. taken' \in [Tags -> Seq(Nat)] /\ taken'[t] = v /\ \A u \in Tags \ {t} : taken'[u] = taken[u]
  BY <1>2, <1>8
<1>10. /\ B \in [Tags -> Seq(Seq(Nat))] /\ B[t] = Tail(batches[t])
       /\ \A u \in Tags \ {t} : B[u] = batches[u]
  BY <1>2, <1>4
<1>11. ASSUME NEW u \in Tags
       PROVE  /\ taken'[u] \o FlattenSeq(B[u]) = Out(u)
              /\ ToSet(taken[u]) \subseteq ToSet(taken'[u])
  <2>1. CASE u = t
    <3>1. (x \o y) \o z = x \o (y \o z)
      BY <1>4, <1>5, JoinAssociative
    <3>2. Out(u) = x \o (y \o z)
      BY <1>3, <1>4, <2>1 DEF Out
    <3>3. taken'[u] \o FlattenSeq(B[u]) = v \o z
      BY <1>3, <1>9, <1>10, <2>1
    <3>4. ToSet(taken[u]) \subseteq ToSet(taken'[u])
      BY <1>3, <1>6, <1>7, <1>9, <2>1
    <3> QED BY <1>7, <3>1, <3>2, <3>3, <3>4
  <2>2. CASE u # t
    BY <1>9, <1>10, <2>2 DEF Out, InFlight
  <2> QED BY <2>1, <2>2
<1>12. ToSet(taken'[t]) = ToSet(taken[t]) \cup ToSet(Head(batches[t]))
  BY <1>3, <1>6, <1>7, <1>9
<1> QED BY <1>9, <1>10, <1>11, <1>12

\* What a source has had only grows.
LEMMA PastGrows ==
    ASSUME next' = next, \A u \in Tags : ToSet(taken[u]) \subseteq ToSet(taken'[u]), NEW s
    PROVE  Past(s) \subseteq Past(s)'
BY DEF Past

\* A batch arrives at a stage that passes nothing on.
LEMMA OrderBatch ==
    ASSUME DemandInv, OrderInv, NEW t \in Tags, BatchArrives(t), src' = src,
           batches' = [batches EXCEPT ![t] = Tail(@)]
    PROVE  OrderInv'
<1>1. Typed
  BY DEF DemandInv
<1>2. UNCHANGED <<setup, next>>
  BY DEF BatchArrives
<1>3. PICK B : B = [u \in Tags |-> IF u = t THEN Tail(batches[u]) ELSE batches[u]]
  OBVIOUS
<1>4. batches \in [Tags -> Seq(Seq(Nat))]
  BY <1>1 DEF Typed
<1>5. batches' = B
  BY <1>3, <1>4
<1>6. \A u \in Tags : /\ taken'[u] \o FlattenSeq(B[u]) = Out(u)
                      /\ ToSet(taken[u]) \subseteq ToSet(taken'[u])
  BY <1>1, <1>3, BatchMoves
<1>7. \A u \in Tags : Out(u)' = Out(u)
  BY <1>5, <1>6 DEF Out, InFlight
<1> SUFFICES ASSUME NEW s \in Sources PROVE Rests(s)
  BY <1>2, AllRest
<1>8. SameEvents(src[s], src'[s]) /\ (Calm(s, src[s]) => Calm(s, src'[s]))
  BY DEF SameEvents
<1>9. Past(s) \subseteq Past(s)'
  BY <1>2, <1>6, PastGrows
<1> QED BY <1>7, <1>8, <1>9 DEF Rests

----------------------------------------------------------------------------
(* Steps that send events *)

\* An increasing sequence in two parts.
LEMMA IncreasingSplit ==
    ASSUME NEW q \in Seq(Nat), NEW r \in Seq(Nat), Increasing(q \o r)
    PROVE  Increasing(q) /\ Increasing(r) /\ Before(q, r)
<1>1. PICK m \in Nat, n \in Nat : m = Len(q) /\ n = Len(r)
  OBVIOUS
<1> PICK c : c = q \o r
  OBVIOUS
<1>2. /\ DOMAIN q = 1..m /\ DOMAIN r = 1..n /\ DOMAIN c = 1..(m + n)
      /\ \A i \in 1..m : c[i] = q[i] /\ q[i] \in Nat
      /\ \A i \in 1..n : c[m + i] = r[i] /\ r[i] \in Nat
  BY <1>1
<1>3. \A i, j \in 1..(m + n) : i < j => c[i] < c[j]
  BY <1>1, <1>2 DEF Increasing
<1>4. ASSUME NEW i \in 1..m, NEW j \in 1..m, i < j PROVE q[i] < q[j]
  <2>1. i \in 1..(m + n) /\ j \in 1..(m + n)
    OBVIOUS
  <2> QED BY <1>2, <1>3, <1>4, <2>1
<1>5. ASSUME NEW i \in 1..n, NEW j \in 1..n, i < j PROVE r[i] < r[j]
  <2>1. m + i \in 1..(m + n) /\ m + j \in 1..(m + n) /\ m + i < m + j
    BY <1>5
  <2> QED BY <1>2, <1>3, <2>1
<1>6. ASSUME NEW x \in ToSet(q), NEW y \in ToSet(r) PROVE x < y
  <2>1. PICK i \in 1..m, j \in 1..n : x = q[i] /\ y = r[j]
    BY <1>2 DEF ToSet
  <2>2. i \in 1..(m + n) /\ m + j \in 1..(m + n) /\ i < m + j
    OBVIOUS
  <2> QED BY <1>2, <1>3, <2>1, <2>2
<1> QED BY <1>2, <1>4, <1>5, <1>6 DEF Increasing, Before

\* Where the events wait is all that counts for the order.
LEMMA SameOrder ==
    ASSUME NEW s, NEW a, NEW b, SameEvents(a, b), NEW P, Tidy(s, a, P),
           NEW Q \in [Tags -> Seq(Nat)],
           \A t \in Tags : Up[t] = s => Ahead(s, a, t, Q[t], P)
    PROVE  Tidy(s, b, P) /\ \A t \in Tags : Up[t] = s => Ahead(s, b, t, Q[t], P)
<1>1. b.buffer = a.buffer /\ b.parts = a.parts /\ b.mode = a.mode
  BY DEF SameEvents
<1>2. Tidy(s, b, P)
  BY <1>1 DEF Tidy, Unparted
<1>3. ASSUME NEW t \in Tags, Up[t] = s PROVE Ahead(s, b, t, Q[t], P)
  <2>1. PICK q : q = Q[t]
    OBVIOUS
  <2>2. Ahead(s, a, t, q, P)
    BY <1>3, <2>1
  <2> QED BY <1>1, <2>1, <2>2 DEF Ahead
<1> QED BY <1>2, <1>3

\* A tidy source that has not sent anything yet is in line.
LEMMA InLineStart ==
    ASSUME NEW s, NEW a, NEW P, Tidy(s, a, P), NEW Q \in [Tags -> Seq(Nat)],
           \A t \in Tags : Up[t] = s => Ahead(s, a, t, Q[t], P),
           NEW w, w = [state |-> a, out |-> Nothing]
    PROVE  InLine(s, w, Q, P)
<1>1. PICK out : out = Nothing
  OBVIOUS
<1>2. <<>> \in Seq(Seq(Nat))
  OBVIOUS
<1>3. out \in [Tags -> Seq(Seq(Nat))] /\ \A t \in Tags : out[t] = <<>>
  BY <1>1, <1>2 DEF Nothing
<1>4. w.state = a /\ w.out = out
  BY <1>1
<1>5. ASSUME NEW t \in Tags, Up[t] = s PROVE Ahead(s, a, t, Q[t] \o FlattenSeq(out[t]), P)
  <2>1. PICK q \in Seq(Nat) : q = Q[t]
    OBVIOUS
  <2>2. FlattenSeq(out[t]) = <<>>
    BY <1>3, FlattenEmpty
  <2>3. q \o FlattenSeq(out[t]) = q
    BY <2>2, ConcatEmptySeq
  <2>4. Ahead(s, a, t, q, P)
    BY <1>5, <2>1
  <2> QED BY <2>1, <2>3, <2>4
<1> QED BY <1>3, <1>4, <1>5 DEF InLine

\* A source that is in line remains so as it gets more events to come.
LEMMA InLineMore ==
    ASSUME NEW s, NEW w, NEW Q, NEW P, InLine(s, w, Q, P), NEW R, P \subseteq R
    PROVE  InLine(s, w, Q, R)
<1>1. Tidy(s, w.state, P)
  BY DEF InLine
<1>2. Tidy(s, w.state, R)
  BY <1>1 DEF Tidy
<1>3. ASSUME NEW t \in Tags, Up[t] = s PROVE Ahead(s, w.state, t, Q[t] \o FlattenSeq(w.out[t]), R)
  <2>1. PICK a, q : a = w.state /\ q = Q[t] \o FlattenSeq(w.out[t])
    OBVIOUS
  <2>2. Ahead(s, a, t, q, P)
    BY <1>3, <2>1 DEF InLine
  <2>3. Ahead(s, a, t, q, R)
    BY <2>2 DEF Ahead
  <2> QED BY <2>1, <2>3
<1> QED BY <1>2, <1>3 DEF InLine

\* Dispatches that settle what they owe send to their own subscribers.
LEMMA SettlesOwn ==
    ASSUME NEW s, NEW a, Sound(s, a), NEW w, Settles(s, a, w)
    PROVE  /\ w.out \in [Tags -> Seq(Seq(Nat))]
           /\ \A t \in Tags : Up[t] # s => w.out[t] = <<>>
<1>1. ASSUME NEW t \in Tags, Up[t] # s PROVE w.out[t] = <<>>
  <2>1. t \notin Subs(a)
    BY <1>1 DEF Sound
  <2>2. Owe(s, a, t) = 0
    BY <2>1 DEF Owe
  <2>3. ~(Owe(s, a, t) > 0)
    BY <2>2
  <2> QED BY <2>3 DEF Settles
<1> QED BY <1>1 DEF Settles

(* A source s dispatches, and the others rest.  B is what was under way    *)
(* when the dispatches began.                                              *)
LEMMA OrderSends ==
    ASSUME Typed, OrderInv, UNCHANGED setup, NEW s \in Sources, NEW w,
           w.out \in [Tags -> Seq(Seq(Nat))], \A u \in Tags : Up[u] # s => w.out[u] = <<>>,
           NEW B \in [Tags -> Seq(Seq(Nat))], taken' \in [Tags -> Seq(Nat)],
           \A u \in Tags : /\ taken'[u] \o FlattenSeq(B[u]) = Out(u)
                           /\ ToSet(taken[u]) \subseteq ToSet(taken'[u]),
           src' = [src EXCEPT ![s] = w.state],
           batches' = [u \in Tags |-> B[u] \o w.out[u]],
           \A z \in Producers \ {s} : next'[z] = next[z],
           NEW Q, Q = [u \in Tags |-> Out(u)],
           Orderly(s) => InLine(s, w, Q, Past(s)'),
           Orderly(s) /\ s \notin Producers => Calm(s, w.state) /\ w.state.mode = "forward"
    PROVE  OrderInv'
<1> SUFFICES ASSUME NEW z \in Sources, Orderly(z)' PROVE Ordered(z)'
  BY DEF OrderInv
<1>1. Orderly(z)
  BY OrderlyKept
<1>2. disp' = disp /\ part' = part
  BY DEF setup
<1>3. src'[s] = w.state /\ \A y \in Sources : y # s => src'[y] = src[y]
  BY DEF Typed
<1>4. ASSUME NEW u \in Tags
      PROVE  /\ Out(u)' = Out(u) \o FlattenSeq(w.out[u])
             /\ Up[u] # s => Out(u)' = Out(u)
  <2>1. PICK x, y, v : x = B[u] /\ y = w.out[u] /\ v = taken'[u]
    OBVIOUS
  <2>2. x \in Seq(Seq(Nat)) /\ y \in Seq(Seq(Nat)) /\ v \in Seq(Nat) /\ batches'[u] = x \o y
    BY <2>1
  <2>3. FlattenSeq(x) \in Seq(Nat) /\ FlattenSeq(y) \in Seq(Nat)
    BY <2>2, FlattenType
  <2>4. FlattenSeq(x \o y) = FlattenSeq(x) \o FlattenSeq(y)
    BY <2>2, FlattenConcat
  <2>5. (v \o FlattenSeq(x)) \o FlattenSeq(y) = v \o (FlattenSeq(x) \o FlattenSeq(y))
    BY <2>2, <2>3, JoinAssociative
  <2>6. Out(u)' = v \o (FlattenSeq(x) \o FlattenSeq(y))
    BY <2>1, <2>2, <2>4 DEF Out, InFlight
  <2>7. v \o FlattenSeq(x) = Out(u)
    BY <2>1
  <2>8. Out(u)' = Out(u) \o FlattenSeq(y)
    BY <2>5, <2>6, <2>7
  <2>9. Up[u] # s => FlattenSeq(y) = <<>>
    BY <2>1, FlattenEmpty
  <2>10. Out(u) \in Seq(Nat)
    BY <2>2, <2>3, <2>7, ConcatProperties, ZenonT(60)
  <2>11. Out(u) \o <<>> = Out(u)
    BY <2>10, ConcatEmptySeq
  <2> QED BY <2>1, <2>8, <2>9, <2>11
<1>5. CASE z = s
  <2>1. PICK a, R : a = w.state /\ R = Past(s)'
    OBVIOUS
  <2>2. InLine(s, w, Q, R) /\ (s \notin Producers => Calm(s, a) /\ a.mode = "forward")
    BY <1>1, <1>5, <2>1
  <2>3. Tidy(s, src[s], Past(s))'
    <3>1. Tidy(s, a, R)
      BY <2>1, <2>2 DEF InLine
    <3> QED BY <1>2, <1>3, <2>1, <3>1 DEF Tidy, Unparted
  <2>4. ASSUME NEW t \in Tags, Up[t] = s PROVE Ahead(s, src[s], t, Out(t), Past(s))'
    <3>1. Ahead(s, a, t, Q[t] \o FlattenSeq(w.out[t]), R)
      BY <2>1, <2>2, <2>4 DEF InLine
    <3>2. Q[t] \o FlattenSeq(w.out[t]) = Out(t)'
      BY <1>4
    <3>3. Ahead(s, a, t, Out(t)', R)
      BY <3>1, <3>2
    <3> QED BY <1>2, <1>3, <2>1, <3>3 DEF Ahead
  <2>5. s \notin Producers => Calm(s, src[s])' /\ src'[s].mode = "forward"
    BY <1>2, <1>3, <2>1, <2>2 DEF Calm, Subs
  <2> QED BY <1>5, <2>3, <2>4, <2>5 DEF Ordered
<1>6. CASE z # s
  <2>1. SameEvents(src[z], src'[z]) /\ (Calm(z, src[z]) => Calm(z, src'[z]))
    BY <1>3, <1>6 DEF SameEvents
  <2>2. \A t \in Tags : Up[t] = z => Out(t)' = Out(t)
    BY <1>4, <1>6
  <2>3. Past(z) \subseteq Past(z)'
    <3>1. CASE z \in Producers
      BY <1>6, <3>1 DEF Past
    <3>2. CASE z \notin Producers
      BY <3>2 DEF Past
    <3> QED BY <3>1, <3>2
  <2>4. Rests(z)
    BY <2>1, <2>2, <2>3 DEF Rests
  <2>5. Ordered(z)
    BY <1>1 DEF OrderInv
  <2> QED BY <2>4, <2>5, RestsOrdered
<1> QED BY <1>5, <1>6

\* All that was sent so far, and what is under way.
Lines == [t \in Tags |-> Out(t)]

\* The lines are sequences of events.
LEMMA LinesType ==
    ASSUME Typed
    PROVE  Lines \in [Tags -> Seq(Nat)] /\ \A t \in Tags : Lines[t] = Out(t)
<1>1. ASSUME NEW t \in Tags PROVE Out(t) \in Seq(Nat)
  <2>1. InFlight(t) \in Seq(Nat) /\ taken[t] \in Seq(Nat)
    BY Counts DEF Typed
  <2> QED BY <2>1, ConcatProperties DEF Out
<1> QED BY <1>1 DEF Lines

\* A producer dispatches.
LEMMA ProducerSends ==
    ASSUME Typed, OrderInv, UNCHANGED <<setup, taken>>, NEW s \in Producers, NEW w,
           InLine(s, w, Lines, Past(s)'),
           src' = [src EXCEPT ![s] = w.state],
           batches' = [u \in Tags |-> batches[u] \o w.out[u]],
           \A z \in Producers \ {s} : next'[z] = next[z]
    PROVE  OrderInv'
<1>1. PICK B : B = batches
  OBVIOUS
<1>2. B \in [Tags -> Seq(Seq(Nat))] /\ taken' \in [Tags -> Seq(Nat)] /\ taken' = taken
  BY <1>1 DEF Typed
<1>3. \A u \in Tags : /\ taken'[u] \o FlattenSeq(B[u]) = Out(u)
                      /\ ToSet(taken[u]) \subseteq ToSet(taken'[u])
  BY <1>1, <1>2 DEF Out, InFlight
<1>4. /\ w.out \in [Tags -> Seq(Seq(Nat))]
      /\ \A u \in Tags : Up[u] # s => w.out[u] = <<>>
  BY DEF InLine
<1>5. PICK Q : Q = Lines
  OBVIOUS
<1>6. Q = [u \in Tags |-> Out(u)] /\ InLine(s, w, Q, Past(s)')
  BY <1>5 DEF Lines
<1>7. batches' = [u \in Tags |-> B[u] \o w.out[u]]
  BY <1>1
<1>8. s \in Sources
  BY DEF Sources
<1>9. UNCHANGED setup
  OBVIOUS
<1> QED BY <1>2, <1>3, <1>4, <1>6, <1>7, <1>8, <1>9, OrderSends

\* A producer has had the events below the next one.
LEMMA ProducerPast ==
    ASSUME NEW s \in Producers
    PROVE  Past(s) = 0..(next[s] - 1) /\ Past(s)' = 0..(next'[s] - 1)
BY DEF Past

\* The events that handleDemand returns come after all earlier ones.
LEMMA HandleDemandInLine ==
    ASSUME Typed, NEW s \in Producers, NEW w, Sound(s, w.state),
           NEW Q \in [Tags -> Seq(Nat)], InLine(s, w, Q, Past(s)),
           Calm(s, w.state), w.state.mode = "forward",
           disp[s] = "partition" /\ w.state.subs = <<>> => Unparted(w.state),
           NEW d \in Nat, handleDemand(s, w, d)
    PROVE  /\ \A z \in Producers \ {s} : next'[z] = next[z]
           /\ \E v : /\ InLine(s, v, Q, Past(s)')
                     /\ src' = [src EXCEPT ![s] = v.state]
                     /\ batches' = [u \in Tags |-> batches[u] \o v.out[u]]
<1>1. PICK k \in Supply(s, d) :
         LET events == [i \in 1..k |-> next[s] + i - 1]
         IN  /\ Emit(s, IF k > 0 THEN dispatchOrBuffer(s, w, events) ELSE w)
             /\ next' = [next EXCEPT ![s] = @ + k]
  BY DEF handleDemand
<1>2. /\ s \in Sources /\ disp[s] \in Kinds /\ part \in [Tags -> Partitions]
      /\ next \in [Producers -> Nat] /\ \A z \in Producers : next[z] <= Events(z)
      /\ willing \in BOOLEAN /\ disp \in [Sources -> Kinds]
  BY DEF Typed, Sources
<1>3. Events(s) \in Nat
  <2>1. <<disp[s], willing>> \in Kinds \X BOOLEAN
    BY <1>2
  <2>2. MaxEvents \in [Kinds \X BOOLEAN -> Nat]
    BY StagesAssumption
  <2>3. Events(s) = MaxEvents[<<disp[s], willing>>]
    BY Zenon DEF Events
  <2> QED BY <2>1, <2>2, <2>3
<1>4. k \in Nat
  <2>1. PICK e, n, o \in Nat : e = Events(s) /\ n = next[s] /\ o = Overshoot /\ n <= e
    BY <1>2, <1>3, StagesAssumption
  <2>2. k \in IF willing THEN {Smaller(d, e - n)} ELSE 0..Smaller(d + o, e - n)
    BY <2>1 DEF Supply
  <2> QED BY <2>1, <2>2 DEF Smaller
<1>5. PICK n \in Nat : n = next[s]
  BY <1>2
<1>6. PICK events : events = [i \in 1..k |-> n + i - 1]
  OBVIOUS
<1>7. /\ events \in Seq(Nat) /\ DOMAIN events = 1..k
      /\ \A i \in 1..k : events[i] = n + i - 1
  <2>1. \A i \in 1..k : n + i - 1 \in Nat
    BY <1>4
  <2>2. events \in [1..k -> Nat]
    BY <1>6, <2>1
  <2> QED BY <1>4, <1>6, <2>2
<1>8. Increasing(events) /\ ToSet(events) = n..(n + k - 1)
  <2>1. Increasing(events)
    BY <1>4, <1>7 DEF Increasing
  <2>2. ASSUME NEW x \in n..(n + k - 1) PROVE x \in ToSet(events)
    <3>1. x - n + 1 \in 1..k /\ n + (x - n + 1) - 1 = x
      BY <1>4
    <3>2. events[x - n + 1] = x
      BY <1>7, <3>1
    <3> QED BY <1>7, <3>1, <3>2 DEF ToSet
  <2>3. ASSUME NEW x \in ToSet(events) PROVE x \in n..(n + k - 1)
    <3>1. PICK i \in 1..k : x = events[i]
      BY <1>7 DEF ToSet
    <3>2. x = n + i - 1
      BY <1>7, <3>1
    <3> QED BY <1>4, <3>2
  <2> QED BY <2>1, <2>2, <2>3
<1>9. next'[s] = n + k /\ \A z \in Producers \ {s} : next'[z] = next[z]
  BY <1>1, <1>2, <1>5
<1>10. Past(s) = 0..(n - 1) /\ Past(s)' = 0..(n + k - 1)
  <2>1. Past(s) = 0..(next[s] - 1) /\ Past(s)' = 0..(next'[s] - 1)
    BY ProducerPast
  <2>2. Past(s) = 0..(n - 1)
    BY <1>5, <2>1
  <2>3. PICK m \in Int : m = n + k - 1
    BY <1>4
  <2>4. next'[s] - 1 = m
    BY <1>4, <1>9, <2>3
  <2>5. Past(s)' = 0..m
    BY <2>1, <2>4
  <2> QED BY <2>2, <2>3, <2>5
<1>11. PICK P, R : P = 0..(n - 1) /\ R = 0..(n + k - 1)
  OBVIOUS
<1>12. P \subseteq R /\ R = P \cup ToSet(events) /\ \A x \in P, y \in ToSet(events) : x < y
  BY <1>4, <1>8, <1>11
<1>13. InLine(s, w, Q, P)
  BY <1>10, <1>11
<1>14. CASE k > 0
  <2>1. PICK v : v = dispatchOrBuffer(s, w, events)
    OBVIOUS
  <2>2. InLine(s, v, Q, P \cup ToSet(events))
    BY <1>2, <1>7, <1>8, <1>12, <1>13, <2>1, DispatchInLine
  <2>3. InLine(s, v, Q, Past(s)')
    BY <1>10, <1>11, <1>12, <2>2
  <2>4. Emit(s, v)
    BY <1>1, <1>5, <1>6, <1>14, <2>1
  <2> QED BY <1>9, <2>3, <2>4 DEF Emit
<1>15. CASE ~(k > 0)
  <2>1. InLine(s, w, Q, R)
    BY <1>12, <1>13, InLineMore
  <2>2. InLine(s, w, Q, Past(s)')
    BY <1>10, <1>11, <2>1
  <2>3. Emit(s, w)
    BY <1>1, <1>15
  <2> QED BY <1>9, <2>2, <2>3 DEF Emit
<1> QED BY <1>14, <1>15

\* Demand is switched to "forward": nothing has waited so far.
LEMMA OrderSwitch ==
    ASSUME DemandInv, OrderInv, NEW s \in Producers, switchDemandMode(s)
    PROVE  OrderInv'
<1> USE DEF switchDemandMode
<1>1. Typed /\ s \in Sources /\ Orderly(s)
  BY DEF DemandInv, Sources, Orderly
<1>2. Sound(s, src[s]) /\ src[s] \in SourceState
  BY <1>1 DEF Typed
<1>3. PICK a, b : a = src[s] /\ b = [src[s] EXCEPT !.mode = "forward", !.accumulated = 0]
  OBVIOUS
<1>4. /\ b \in SourceState /\ b.subs = a.subs /\ b.demand = a.demand
      /\ b.waiting = a.waiting /\ b.requested = a.requested
      /\ b.buffer = a.buffer /\ b.parts = a.parts /\ b.mode = "forward"
  BY <1>2, <1>3 DEF SourceState
<1>5. Sound(s, b)
  <2>1. Sound(s, a)
    BY <1>2, <1>3
  <2> QED BY <1>4, <2>1, SameDebts
<1>6. PICK P, Q : P = Past(s) /\ Q = Lines
  OBVIOUS
<1>7. /\ Tidy(s, a, P) /\ Q \in [Tags -> Seq(Nat)]
      /\ \A t \in Tags : Up[t] = s => Ahead(s, a, t, Q[t], P)
  BY <1>1, <1>3, <1>6, LinesType DEF OrderInv, Ordered
<1>8. a.buffer = <<>> /\ Unparted(a) /\ a.mode = "accumulate"
  BY <1>3, <1>7 DEF Tidy
<1>9. Tidy(s, b, P) /\ Unparted(b) /\ b.buffer = <<>>
  BY <1>4, <1>7, <1>8 DEF Tidy, Unparted
<1>10. ASSUME NEW t \in Tags, Up[t] = s PROVE Ahead(s, b, t, Q[t], P)
  <2>1. PICK q : q = Q[t]
    OBVIOUS
  <2>2. Ahead(s, a, t, q, P)
    BY <1>7, <1>10, <2>1
  <2> QED BY <1>4, <2>1, <2>2 DEF Ahead
<1>11. Calm(s, b)
  <2>1. part \in [Tags -> Partitions] /\ Subs(b) \subseteq Tags
    BY <1>1, <1>4, Fields DEF Typed
  <2>2. \A t \in Subs(b) : b.parts[part[t]] = <<>>
    BY <1>9, <2>1 DEF Unparted
  <2> QED BY <1>9, <2>2 DEF Calm
<1>12. PICK w : w = [state |-> b, out |-> Nothing]
  OBVIOUS
<1>13. InLine(s, w, Q, P) /\ w.state = b
  BY <1>7, <1>9, <1>10, <1>12, InLineStart
<1>14. /\ \A z \in Producers \ {s} : next'[z] = next[z]
       /\ \E v : /\ InLine(s, v, Q, Past(s)')
                 /\ src' = [src EXCEPT ![s] = v.state]
                 /\ batches' = [u \in Tags |-> batches[u] \o v.out[u]]
  <2>1. CASE src[s].accumulated > 0
    <3>1. PICK d \in Nat : d = src[s].accumulated
      BY <1>2, Fields
    <3>2. handleDemand(s, w, d)
      BY <1>3, <1>12, <2>1, <3>1
    <3>3. Sound(s, w.state) /\ Calm(s, w.state) /\ w.state.mode = "forward" /\ Unparted(w.state)
      BY <1>4, <1>5, <1>9, <1>11, <1>13
    <3>4. InLine(s, w, Q, Past(s))
      BY <1>6, <1>13
    <3> QED BY <1>1, <1>7, <3>2, <3>3, <3>4, HandleDemandInLine
  <2>2. CASE ~(src[s].accumulated > 0)
    <3>1. Emit(s, w) /\ next' = next
      BY <1>3, <1>12, <2>2
    <3>2. Past(s)' = P
      BY <1>6, <3>1, PastKept
    <3> QED BY <1>13, <3>1, <3>2 DEF Emit
  <2> QED BY <2>1, <2>2
<1>15. PICK v : /\ InLine(s, v, Lines, Past(s)')
                /\ src' = [src EXCEPT ![s] = v.state]
                /\ batches' = [u \in Tags |-> batches[u] \o v.out[u]]
  BY <1>6, <1>14
<1>16. UNCHANGED <<setup, taken>>
  OBVIOUS
<1> QED BY <1>1, <1>14, <1>15, <1>16, ProducerSends

(* A source that has recorded an ask, and drained its buffer, is in line   *)
(* and calm.                                                               *)
LEMMA AskDrained ==
    ASSUME DemandInv, OrderInv, NEW t \in Tags, NEW i, AskArrives(t, i),
           NEW s, s = Up[t], Orderly(s), NEW r, r = Ask(s, src[s], t, asks[t][i]),
           NEW w, w = drainBuffer(s, r.state)
    PROVE  /\ InLine(s, w, Lines, Past(s)) /\ Calm(s, w.state) /\ w.state.mode = src[s].mode
           /\ Sound(s, w.state) /\ Subs(w.state) = Subs(src[s])
           /\ r.request \in Nat
           /\ disp[s] = "partition" /\ r.request > 0 => t \in Subs(src[s])
<1>1. Typed
  BY DEF DemandInv
<1>2. s \in Sources /\ Sound(s, src[s]) /\ disp[s] \in Kinds /\ part \in [Tags -> Partitions]
  BY <1>1, Counts DEF Typed
<1>3. PICK c : c = src[s]
  OBVIOUS
<1>4. PICK d \in Nat : d = asks[t][i]
  BY <1>1 DEF AskArrives, Typed
<1>5. Sound(s, c) /\ c \in SourceState /\ r = Ask(s, c, t, d)
  BY <1>2, <1>3, <1>4 DEF Sound
<1>6. PICK a : a = r.state
  OBVIOUS
<1>7. Sound(s, a) /\ a.subs = c.subs /\ r.request \in Nat
  BY <1>2, <1>6, <1>5, AskOwes
<1>8. SameEvents(c, a) /\ (disp[s] = "partition" /\ r.request > 0 => t \in Subs(c))
  BY <1>2, <1>6, <1>5, AskRests
<1>9. PICK P, Q : P = Past(s) /\ Q = Lines
  OBVIOUS
<1>10. /\ Tidy(s, c, P) /\ Q \in [Tags -> Seq(Nat)]
      /\ \A u \in Tags : Up[u] = s => Ahead(s, c, u, Q[u], P)
  BY <1>1, <1>2, <1>3, <1>9, LinesType DEF OrderInv, Ordered
<1>11. Tidy(s, a, P) /\ \A u \in Tags : Up[u] = s => Ahead(s, a, u, Q[u], P)
  BY <1>8, <1>10, SameOrder
<1>12. w = drainBuffer(s, a)
  BY <1>6
<1>13. InLine(s, w, Q, P) /\ Calm(s, w.state) /\ w.state.mode = a.mode
  <2>1. disp[s] \in Kinds /\ part \in [Tags -> Partitions] /\ Sound(s, a) /\ Tidy(s, a, P)
    BY <1>2, <1>7, <1>11
  <2>2. Q \in [Tags -> Seq(Nat)] /\ \A u \in Tags : Up[u] = s => Ahead(s, a, u, Q[u], P)
    BY <1>10, <1>11
  <2> QED BY ONLY <1>12, <2>1, <2>2, DrainInLine, ZenonT(60)
<1>14. Settles(s, a, w)
  BY <1>2, <1>7, <1>12, DrainSettles
<1>15. Sound(s, w.state) /\ Subs(w.state) = Subs(c)
  BY <1>7, <1>14 DEF Settles, Subs
<1>16. w.state.mode = c.mode
  BY <1>8, <1>13 DEF SameEvents
<1> QED BY <1>3, <1>7, <1>8, <1>9, <1>13, <1>15, <1>16

\* A producer handles an ask.
LEMMA OrderHandleAsk ==
    ASSUME DemandInv, OrderInv, NEW t \in Tags, NEW i, handleAsk(t, i)
    PROVE  OrderInv'
<1> USE DEF handleAsk
<1>1. Typed
  BY DEF DemandInv
<1>2. PICK s, r : s = Up[t] /\ r = Ask(s, src[s], t, asks[t][i])
  OBVIOUS
<1>3. PICK w : w = drainBuffer(s, r.state)
  OBVIOUS
<1>4. /\ s \in Producers /\ AskArrives(t, i) /\ s \in Sources /\ Orderly(s)
      /\ UNCHANGED <<setup, taken>>
  BY <1>2 DEF Sources, Orderly, AskArrives
<1>5. /\ InLine(s, w, Lines, Past(s)) /\ Calm(s, w.state) /\ w.state.mode = src[s].mode
      /\ Sound(s, w.state) /\ Subs(w.state) = Subs(src[s])
      /\ r.request \in Nat
      /\ disp[s] = "partition" /\ r.request > 0 => t \in Subs(src[s])
  BY <1>2, <1>3, <1>4, AskDrained
<1>6. CASE asks[t][i] = 0
  <2>1. UNCHANGED <<setup, src, next, batches, taken>>
    BY <1>4, <1>6
  <2> QED BY <2>1, OrderIdle
<1>7. CASE asks[t][i] # 0
  <2>1. \/ Emit(s, w) /\ next' = next
        \/ Emit(s, [w EXCEPT !.state.accumulated = @ + r.request]) /\ next' = next
        \/ r.request # 0 /\ src[s].mode # "accumulate" /\ handleDemand(s, w, r.request)
    BY <1>2, <1>3, <1>7, SMTT(60)
  <2>2. CASE Emit(s, w) /\ next' = next
    <3>1. Past(s)' = Past(s)
      BY <1>4, <2>2, PastKept
    <3>2. InLine(s, w, Lines, Past(s)')
      BY <1>5, <3>1, SMTT(60)
    <3> QED BY <1>1, <1>4, <2>2, <3>2, ProducerSends DEF Emit
  <2>3. CASE Emit(s, [w EXCEPT !.state.accumulated = @ + r.request]) /\ next' = next
    <3>1. PICK b, c : b = w.state /\ c = [b EXCEPT !.accumulated = @ + r.request]
      OBVIOUS
    <3>2. w = [state |-> w.state, out |-> w.out]
      BY <1>3 DEF drainBuffer
    <3>3. PICK v : v = [w EXCEPT !.state.accumulated = @ + r.request]
      OBVIOUS
    <3>4. v.state = c /\ v.out = w.out
      BY <3>1, <3>2, <3>3
    <3>5. SameEvents(b, c)
      BY <1>5, <3>1 DEF SameEvents, Sound, SourceState
    <3>6. InLine(s, v, Lines, Past(s))
      <4>1. Tidy(s, b, Past(s))
        BY <1>5, <3>1 DEF InLine
      <4>2. Tidy(s, c, Past(s))
        BY <3>5, <4>1 DEF Tidy, Unparted, SameEvents
      <4>3. ASSUME NEW u \in Tags, Up[u] = s
            PROVE  Ahead(s, c, u, Lines[u] \o FlattenSeq(v.out[u]), Past(s))
        <5>1. PICK q : q = Lines[u] \o FlattenSeq(w.out[u])
          OBVIOUS
        <5>2. Ahead(s, b, u, q, Past(s))
          BY <1>5, <3>1, <4>3, <5>1 DEF InLine
        <5>3. Ahead(s, c, u, q, Past(s))
          BY <3>5, <5>2 DEF Ahead, SameEvents
        <5> QED BY <3>4, <5>1, <5>3
      <4> QED BY <1>5, <3>4, <4>2, <4>3 DEF InLine
    <3>7. Past(s)' = Past(s)
      BY <1>4, <2>3, PastKept
    <3>8. InLine(s, v, Lines, Past(s)')
      BY <3>6, <3>7
    <3>9. Emit(s, v)
      BY <2>3, <3>3
    <3> QED BY <1>1, <1>4, <2>3, <3>8, <3>9, ProducerSends DEF Emit
  <2>4. CASE r.request # 0 /\ src[s].mode # "accumulate" /\ handleDemand(s, w, r.request)
    <3>1. PICK d \in Nat : d = r.request
      BY <1>5
    <3>2. d > 0 /\ handleDemand(s, w, d)
      BY <2>4, <3>1
    <3>3. w.state.mode = "forward"
      BY <1>1, <1>4, <1>5, <2>4, Fields DEF Typed
    <3>4. disp[s] = "partition" => w.state.subs # <<>>
      <4>1. disp[s] = "partition" => Subs(w.state) # {}
        BY <1>5, <3>1, <3>2
      <4> QED BY <4>1, NothingOrdered DEF Subs
    <3>5. PICK Q : Q = Lines
      OBVIOUS
    <3>6. Q \in [Tags -> Seq(Nat)] /\ InLine(s, w, Q, Past(s))
      BY <1>1, <1>5, <3>5, LinesType
    <3>7. /\ \A z \in Producers \ {s} : next'[z] = next[z]
          /\ \E v : /\ InLine(s, v, Q, Past(s)')
                    /\ src' = [src EXCEPT ![s] = v.state]
                    /\ batches' = [u \in Tags |-> batches[u] \o v.out[u]]
      BY <1>1, <1>4, <1>5, <3>2, <3>3, <3>4, <3>6, HandleDemandInLine
    <3>8. PICK v : /\ InLine(s, v, Lines, Past(s)')
                   /\ src' = [src EXCEPT ![s] = v.state]
                   /\ batches' = [u \in Tags |-> batches[u] \o v.out[u]]
      BY <3>5, <3>7
    <3> QED BY <1>1, <1>4, <3>7, <3>8, ProducerSends
  <2> QED BY <2>1, <2>2, <2>3, <2>4
<1> QED BY <1>6, <1>7

\* A producer-consumer handles an ask.
LEMMA OrderHandleDownstreamAsk ==
    ASSUME DemandInv, OrderInv, NEW t \in Tags, NEW i, handleDownstreamAsk(t, i)
    PROVE  OrderInv'
<1> USE DEF handleDownstreamAsk
<1>1. Typed
  BY DEF DemandInv
<1>2. PICK s, r : s = Up[t] /\ r = Ask(s, src[s], t, asks[t][i])
  OBVIOUS
<1>3. PICK a : a = r.state
  OBVIOUS
<1>4. PICK w : w = drainBuffer(s, a)
  OBVIOUS
<1>5. /\ AskArrives(t, i) /\ s \in Sources /\ s \in ProducerConsumers /\ s \notin Producers
      /\ disp[s] \in Kinds /\ part \in [Tags -> Partitions]
      /\ Sound(s, src[s]) /\ src[s] \in SourceState
      /\ UNCHANGED <<setup, taken, next>>
  <2>1. AskArrives(t, i) /\ s \in ProducerConsumers /\ next' = next
    BY <1>2
  <2>2. s \in Sources /\ s \notin Producers
    BY <2>1, StagesAssumption DEF Sources
  <2>3. UNCHANGED <<setup, taken>>
    BY <2>1 DEF AskArrives
  <2>4. /\ disp[s] \in Kinds /\ part \in [Tags -> Partitions]
        /\ Sound(s, src[s]) /\ src[s] \in SourceState
    BY <1>1, <2>2 DEF Typed
  <2> QED BY <2>1, <2>2, <2>3, <2>4
<1>6. CASE asks[t][i] = 0
  <2>1. UNCHANGED <<setup, src, next, batches, taken>>
    BY <1>5, <1>6
  <2> QED BY <2>1, OrderIdle
<1>7. CASE asks[t][i] # 0 /\ a.buffer = <<>>
  <2>1. src' = [src EXCEPT ![s] = a] /\ batches' = batches
    BY <1>2, <1>3, <1>7
  <2>2. SameEvents(src[s], a)
    <3>1. PICK d \in Nat : d = asks[t][i]
      BY <1>1, <1>5 DEF AskArrives, Typed
    <3>2. PICK c : c = src[s]
      OBVIOUS
    <3>3. c \in SourceState /\ r = Ask(s, c, t, d)
      BY <1>2, <1>5, <3>1, <3>2
    <3>4. SameEvents(c, r.state)
      BY <1>5, <3>3, AskRests
    <3> QED BY <1>3, <3>2, <3>4
  <2>3. disp[s] = "demand" => Calm(s, a)
    BY <1>7 DEF Calm
  <2>4. UNCHANGED <<setup, next, batches, taken>>
    BY <1>5, <2>1
  <2> QED BY <1>1, <1>5, <2>1, <2>2, <2>3, <2>4, StraightDemand, OrderRestated
<1>8. CASE asks[t][i] # 0 /\ a.buffer # <<>>
  <2>1. Emit(s, w)
    BY <1>2, <1>3, <1>4, <1>8
  <2>2. Sound(s, a)
    BY <1>2, <1>3, <1>5, AskRecorded
  <2>3. Settles(s, a, w)
    BY <1>4, <1>5, <2>2, DrainSettles
  <2>4. w.out \in [Tags -> Seq(Seq(Nat))] /\ \A u \in Tags : Up[u] # s => w.out[u] = <<>>
    BY <2>2, <2>3, SettlesOwn
  <2>5. PICK B, Q : B = batches /\ Q = Lines
    OBVIOUS
  <2>6. B \in [Tags -> Seq(Seq(Nat))] /\ taken' \in [Tags -> Seq(Nat)] /\ taken' = taken
    BY <1>1, <1>5, <2>5 DEF Typed
  <2>7. \A u \in Tags : /\ taken'[u] \o FlattenSeq(B[u]) = Out(u)
                        /\ ToSet(taken[u]) \subseteq ToSet(taken'[u])
    BY <2>5, <2>6 DEF Out, InFlight
  <2>8. Past(s)' = Past(s)
    BY <1>5, PastKept
  <2>9. ASSUME Orderly(s)
        PROVE  InLine(s, w, Q, Past(s)') /\ Calm(s, w.state) /\ w.state.mode = "forward"
    <3>1. InLine(s, w, Lines, Past(s)) /\ Calm(s, w.state) /\ w.state.mode = src[s].mode
      BY <1>2, <1>3, <1>4, <1>5, <2>9, AskDrained
    <3>2. src[s].mode = "forward"
      BY <1>5, <2>9, SMTT(60) DEF OrderInv, Ordered
    <3> QED BY <2>5, <2>8, <3>1, <3>2
  <2>10. /\ src' = [src EXCEPT ![s] = w.state]
         /\ batches' = [u \in Tags |-> B[u] \o w.out[u]]
         /\ Q = [u \in Tags |-> Out(u)]
    BY <2>1, <2>5 DEF Emit, Lines
  <2>11. UNCHANGED setup /\ \A z \in Producers \ {s} : next'[z] = next[z]
    BY <1>5
  <2> QED BY <1>1, <1>5, <2>4, <2>6, <2>7, <2>9, <2>10, <2>11, OrderSends
<1> QED BY <1>6, <1>7, <1>8

\* On a straight path a batch comes after all that its stage has had.
LEMMA StraightBatch ==
    ASSUME Typed, OrderInv, NEW t \in Tags, BatchArrives(t), Straight,
           Down[t] \in ProducerConsumers
    PROVE  /\ Past(Down[t]) = ToSet(taken[t])
           /\ Past(Down[t])' = ToSet(taken[t]) \cup ToSet(Head(batches[t]))
           /\ Increasing(Head(batches[t]))
           /\ \A x \in ToSet(taken[t]), y \in ToSet(Head(batches[t])) : x < y
<1>1. PICK s : s = Down[t]
  OBVIOUS
<1>2. s \notin Producers /\ \A u \in Tags : Down[u] = s <=> u = t
  BY <1>1, StagesAssumption DEF Straight
<1>3. PICK B : B = [u \in Tags |-> IF u = t THEN Tail(batches[u]) ELSE batches[u]]
  OBVIOUS
<1>4. ToSet(taken'[t]) = ToSet(taken[t]) \cup ToSet(Head(batches[t]))
  BY <1>3, BatchMoves
<1>5. {v \in Tags : Down[v] = s} = {t}
  BY <1>2
<1>6. Past(s) = ToSet(taken[t]) /\ Past(s)' = ToSet(taken'[t])
  BY <1>2, <1>5 DEF Past
<1>7. PICK x, y, z : x = taken[t] /\ y = Head(batches[t]) /\ z = FlattenSeq(Tail(batches[t]))
  OBVIOUS
<1>8. x \in Seq(Nat) /\ y \in Seq(Nat) /\ z \in Seq(Nat) /\ InFlight(t) = y \o z
  <2>1. batches[t] # <<>>
    BY DEF BatchArrives
  <2>2. y \in Seq(Nat) /\ Tail(batches[t]) \in Seq(Seq(Nat)) /\ InFlight(t) = y \o z
    BY <1>7, <2>1, FirstBatch
  <2> QED BY <1>7, <2>2, FlattenType DEF Typed
<1>9. Increasing(x \o (y \o z))
  <2>1. Up[t] \in Sources /\ Orderly(Up[t])
    BY StagesAssumption DEF Orderly
  <2>2. Ordered(Up[t])
    BY <2>1 DEF OrderInv
  <2>3. Increasing(Out(t))
    BY <2>2 DEF Ordered, Ahead
  <2> QED BY <1>7, <1>8, <2>3 DEF Out
<1>10. y \o z \in Seq(Nat) /\ ToSet(y \o z) = ToSet(y) \cup ToSet(z)
  BY <1>8, ConcatSet
<1>11. Increasing(y \o z) /\ Before(x, y \o z)
  BY <1>8, <1>9, <1>10, IncreasingSplit
<1>12. Increasing(y) /\ Before(x, y)
  BY <1>8, <1>10, <1>11, IncreasingSplit DEF Before
<1> QED BY <1>1, <1>4, <1>6, <1>7, <1>12 DEF Before

\* A producer-consumer passes on a batch.
LEMMA OrderHandleUpstreamEvents ==
    ASSUME DemandInv, OrderInv, NEW t \in Tags, handleUpstreamEvents(t)
    PROVE  OrderInv'
<1>1. Typed
  BY DEF DemandInv
<1>2. PICK s, a : s = Down[t] /\ a = src[s]
  OBVIOUS
<1>3. /\ BatchArrives(t) /\ batches[t] # <<>> /\ UNCHANGED <<setup, next>>
      /\ s \in ProducerConsumers /\ s \in Sources /\ s \notin Producers
  BY <1>2, StagesAssumption DEF handleUpstreamEvents, BatchArrives, Sources
<1>4. Sound(s, a) /\ disp[s] \in Kinds /\ part \in [Tags -> Partitions]
  BY <1>1, <1>2, <1>3 DEF Typed
<1>5. PICK idle : idle = [state |-> a, out |-> Nothing]
  OBVIOUS
<1>6. Settles(s, a, idle) /\ idle = [state |-> idle.state, out |-> idle.out] /\ idle.state = a
  BY <1>4, <1>5, SettlesNothing
<1>7. Head(batches[t]) \in Seq(Nat)
  BY <1>1, <1>3, FirstBatch
<1>8. PICK events \in {Head(batches[t]), <<>>} :
         LET w == IF events = <<>> THEN idle ELSE dispatchOrBuffer(s, idle, events)
         IN  /\ src' = [src EXCEPT ![s] = w.state]
             /\ batches' = [u \in Tags |-> (IF u = t THEN Tail(batches[u])
                                            ELSE batches[u]) \o w.out[u]]
  BY <1>2, <1>5 DEF handleUpstreamEvents
<1>9. events \in Seq(Nat)
  <2>1. <<>> \in Seq(Nat)
    OBVIOUS
  <2> QED BY <1>7, <1>8, <2>1
<1>10. PICK w : w = IF events = <<>> THEN idle ELSE dispatchOrBuffer(s, idle, events)
  OBVIOUS
<1>11. Settles(s, a, w)
  <2>1. Settles(s, a, dispatchOrBuffer(s, idle, events))
    BY <1>4, <1>6, <1>9, DispatchSettles
  <2> QED BY <1>6, <1>10, <2>1
<1>12. w.out \in [Tags -> Seq(Seq(Nat))] /\ \A u \in Tags : Up[u] # s => w.out[u] = <<>>
  BY <1>4, <1>11, SettlesOwn
<1>13. PICK B : B = [u \in Tags |-> IF u = t THEN Tail(batches[u]) ELSE batches[u]]
  OBVIOUS
<1>14. /\ B \in [Tags -> Seq(Seq(Nat))] /\ taken' \in [Tags -> Seq(Nat)]
       /\ \A u \in Tags : /\ taken'[u] \o FlattenSeq(B[u]) = Out(u)
                          /\ ToSet(taken[u]) \subseteq ToSet(taken'[u])
  BY <1>1, <1>3, <1>13, BatchMoves
<1>15. /\ src' = [src EXCEPT ![s] = w.state]
       /\ batches' = [u \in Tags |-> B[u] \o w.out[u]]
  BY <1>8, <1>10, <1>13
<1>16. PICK Q : Q = Lines
  OBVIOUS
<1>17. Q = [u \in Tags |-> Out(u)] /\ Q \in [Tags -> Seq(Nat)] /\ \A u \in Tags : Q[u] = Out(u)
  BY <1>1, <1>16, LinesType DEF Lines
<1>18. ASSUME Orderly(s)
       PROVE  InLine(s, w, Q, Past(s)') /\ Calm(s, w.state) /\ w.state.mode = "forward"
  <2>1. Straight /\ disp[s] = "demand"
    BY <1>3, <1>18, StraightDemand DEF Orderly
  <2>2. PICK P, E : P = ToSet(taken[t]) /\ E = Head(batches[t])
    OBVIOUS
  <2>3. /\ Past(s) = P /\ Past(s)' = P \cup ToSet(E) /\ Increasing(E)
        /\ \A x \in P, y \in ToSet(E) : x < y
    BY <1>1, <1>2, <1>3, <2>1, <2>2, StraightBatch
  <2>4. /\ Tidy(s, a, P) /\ Calm(s, a) /\ a.mode = "forward"
        /\ \A u \in Tags : Up[u] = s => Ahead(s, a, u, Q[u], P)
    BY <1>2, <1>3, <1>17, <1>18, <2>3 DEF OrderInv, Ordered
  <2>5. InLine(s, idle, Q, P)
    BY <1>5, <1>17, <2>4, InLineStart
  <2>6. CASE events = <<>>
    <3>1. w = idle /\ P \subseteq P \cup ToSet(E)
      BY <1>10, <2>6
    <3>2. InLine(s, idle, Q, P \cup ToSet(E))
      BY <2>5, <3>1, InLineMore
    <3> QED BY <1>6, <2>3, <2>4, <3>1, <3>2
  <2>7. CASE events # <<>>
    <3>1. events = E /\ w = dispatchOrBuffer(s, idle, E) /\ E \in Seq(Nat)
      BY <1>8, <1>9, <1>10, <2>2, <2>7
    <3>2. Sound(s, idle.state) /\ Calm(s, idle.state) /\ idle.state.mode = "forward"
      BY <1>4, <1>6, <2>4
    <3>3. disp[s] = "partition" /\ idle.state.subs = <<>> => Unparted(idle.state)
      BY <2>1
    <3>4. /\ InLine(s, w, Q, P \cup ToSet(E)) /\ w.state.mode = "forward"
          /\ disp[s] = "demand" => Calm(s, w.state)
      <4>1. disp[s] \in Kinds /\ part \in [Tags -> Partitions] /\ E \in Seq(Nat)
        BY <1>4, <3>1
      <4>2. Q \in [Tags -> Seq(Nat)] /\ w = dispatchOrBuffer(s, idle, E)
        BY <1>17, <3>1
      <4>3. Increasing(E) /\ \A x \in P, y \in ToSet(E) : x < y
        BY <2>3
      <4>4. InLine(s, w, Q, P \cup ToSet(E))
        BY <2>5, <3>2, <3>3, <4>1, <4>2, <4>3, DispatchInLine
      <4>5. w.state.mode = "forward"
        BY <2>5, <3>2, <3>3, <4>1, <4>2, <4>3, DispatchInLine
      <4>6. disp[s] = "demand" => Calm(s, w.state)
        BY <2>5, <3>2, <3>3, <4>1, <4>2, <4>3, DispatchInLine
      <4> QED BY <4>4, <4>5, <4>6
    <3> QED BY <2>1, <2>3, <3>2, <3>4
  <2> QED BY <2>6, <2>7
<1>19. UNCHANGED setup /\ \A z \in Producers \ {s} : next'[z] = next[z]
  BY <1>3
<1> QED BY <1>1, <1>3, <1>12, <1>14, <1>15, <1>17, <1>18, <1>19, OrderSends

----------------------------------------------------------------------------
(* The order of events *)

\* Initially there are no events.
LEMMA OrderInit ==
    ASSUME Init
    PROVE  OrderInv
<1> SUFFICES ASSUME NEW s \in Sources PROVE Ordered(s)
  BY DEF OrderInv
<1>1. PICK acc \in SUBSET Producers :
          src = [z \in Sources |-> IF z \in acc THEN [Unsubscribed EXCEPT !.mode = "accumulate"]
                                   ELSE Unsubscribed]
  BY DEF Init
<1>2. /\ src[s].buffer = <<>> /\ src[s].parts = [p \in Partitions |-> <<>>]
      /\ s \notin Producers => src[s].mode = "forward"
  BY <1>1 DEF Unsubscribed
<1>3. part \in [Tags -> Partitions]
  BY StagesAssumption DEF Init
<1>4. Unparted(src[s])
  BY <1>2 DEF Unparted
<1>5. Tidy(s, src[s], Past(s))
  BY <1>2, <1>4, NothingOrdered DEF Tidy, Unparted
<1>6. ASSUME NEW t \in Tags PROVE Ahead(s, src[s], t, Out(t), Past(s))
  <2>1. taken[t] = <<>> /\ batches[t] = <<>>
    BY DEF Init
  <2>2. Out(t) = <<>>
    BY <2>1, FlattenEmpty DEF Out, InFlight
  <2>3. PICK q : q = Out(t)
    OBVIOUS
  <2>4. Ahead(s, src[s], t, q, Past(s))
    BY <2>2, <2>3, NothingOrdered DEF Ahead
  <2> QED BY <2>3, <2>4
<1>7. Calm(s, src[s])
  <2>1. ASSUME NEW t \in Subs(src[s]) PROVE FALSE
    <3>1. src[s].subs = <<>>
      BY <1>1 DEF Unsubscribed
    <3> QED BY <2>1, <3>1 DEF Subs, ToSet
  <2> QED BY <1>2, <2>1 DEF Calm
<1> QED BY <1>2, <1>5, <1>6, <1>7 DEF Ordered

\* Every step keeps the order.
LEMMA OrderStep ==
    ASSUME DemandInv, OrderInv, [Next]_vars
    PROVE  OrderInv'
<1>1. CASE UNCHANGED vars
  <2>1. UNCHANGED <<setup, src, next, batches, taken>>
    BY <1>1 DEF vars
  <2> QED BY <2>1, OrderIdle
<1>2. ASSUME NEW t \in Tags,
             \/ subscribe(t) \/ DeferredAsk(t) \/ cancelSubscription(t)
             \/ WorkerEnds(t) \/ handleWorkerDown(t) \/ WorkerRestarts(t) \/ RespawnedEnds(t)
      PROVE  OrderInv'
  <2>1. UNCHANGED <<setup, src, next, batches, taken>>
    BY <1>2 DEF subscribe, DeferredAsk, cancelSubscription, WorkerEnds, handleWorkerDown,
                WorkerRestarts, RespawnedEnds
  <2> QED BY <2>1, OrderIdle
<1>3. ASSUME NEW t \in Tags, Discard(t) \/ handleEvents(t) \/ SpawnWorkers(t)
      PROVE  OrderInv'
  <2>1. BatchArrives(t) /\ src' = src /\ batches' = [batches EXCEPT ![t] = Tail(@)]
    BY <1>3 DEF Discard, handleEvents, SpawnWorkers
  <2> QED BY <2>1, OrderBatch
<1>4. ASSUME NEW t \in Tags, handleSubscribe(t) \/ handleCancel(t) \/ handleUpstreamEvents(t)
      PROVE  OrderInv'
  BY <1>4, OrderHandleSubscribe, OrderHandleCancel, OrderHandleUpstreamEvents
<1>5. ASSUME NEW t \in Tags, NEW i, handleAsk(t, i) \/ handleDownstreamAsk(t, i)
      PROVE  OrderInv'
  BY <1>5, OrderHandleAsk, OrderHandleDownstreamAsk
<1>6. ASSUME NEW s \in Producers, switchDemandMode(s)
      PROVE  OrderInv'
  BY <1>6, OrderSwitch
<1>7. ASSUME NEW s \in Stages, stop(s)
      PROVE  OrderInv'
  <2>1. UNCHANGED <<setup, src, next, batches, taken>>
    BY <1>7 DEF stop
  <2> QED BY <2>1, OrderIdle
<1> QED BY <1>1, <1>2, <1>3, <1>4, <1>5, <1>6, <1>7 DEF Next

\* Every source is in order in every reachable state.
LEMMA OrderInvariant == Spec => [](DemandInv /\ OrderInv)
<1>1. Init => DemandInv /\ OrderInv
  BY DemandInit, OrderInit
<1>2. DemandInv /\ OrderInv /\ [Next]_vars => DemandInv' /\ OrderInv'
  BY DemandStep, OrderStep
<1> QED BY <1>1, <1>2, PTL DEF Spec

(* A subscriber of a producer gets its events in the order in which they   *)
(* were produced, and none twice, through the buffer of gen_stage.ts, the  *)
(* buffers of its partition dispatcher and any number of asks and cancels; *)
(* and so does one behind producer-consumers on a straight path.           *)
THEOREM EventsInOrder == Spec => []InOrder
<1>1. DemandInv /\ OrderInv => InOrder
  <2> SUFFICES ASSUME OrderInv, NEW t \in Tags, Up[t] \in Producers \/ Straight
               PROVE  Increasing(taken[t] \o InFlight(t))
    BY DEF InOrder
  <2>1. Up[t] \in Sources /\ Orderly(Up[t])
    BY StagesAssumption DEF Orderly
  <2>2. Ordered(Up[t])
    BY <2>1 DEF OrderInv
  <2>3. Increasing(Out(t))
    BY <2>2 DEF Ordered, Ahead
  <2> QED BY <2>3 DEF Out
<1> QED BY <1>1, OrderInvariant, PTL

=============================================================================
