----------------------------- MODULE LoopProofs ------------------------------
(***************************************************************************)
(* What the event queue does, for any events: the lemmas that the proofs   *)
(* about handlers and about arrivals rest on, and which spare them a look  *)
(* into the queue.                                                         *)
(*                                                                         *)
(* schedule keeps the queue in order of time, and events of the same time  *)
(* in the order in which they were scheduled.                              *)
(*                                                                         *)
(* Induction over data is by least counterexample: the provers cannot      *)
(* instantiate the induction theorems of the library, but its statement    *)
(* that < is well founded gives every nonempty set of naturals a least     *)
(* member.                                                                 *)
(***************************************************************************)
EXTENDS EventLoop, FiniteSetTheorems, SequenceTheorems, WellFoundedInduction, TLAPS

-----------------------------------------------------------------------------
(* The event queue.                                                          *)

(* Every nonempty set of natural numbers has a least member.                 *)
LEMMA LeastNatural ==
  ASSUME NEW T \in SUBSET Nat, T # {}
  PROVE  \E x \in T : \A y \in T : x <= y
<1> DEFINE R == {ss \in Nat \X Nat : ss[1] < ss[2]}
<1>1. OpToRel(<, Nat) = R
  BY DEF OpToRel
<1>2. IsWellFoundedOn(R, Nat)
  BY <1>1, NatLessThanWellFounded
<1>3. PICK x \in T : \A y \in T : ~ (<<y, x>> \in R)
  <2> HIDE DEF R
  <2> QED
    BY <1>2, WFMin
<1>4. ASSUME NEW y \in T
      PROVE  x <= y
  <2>1. ~(y < x)
    BY <1>3
  <2> QED
    BY <2>1
<1> QED
  BY <1>4

(* Induction up to N, for the members of a set.                              *)
LEMMA InductionUpTo ==
  ASSUME NEW N \in Nat, NEW G, 0 \in G, \A n \in 1..N : n - 1 \in G => n \in G
  PROVE  \A n \in 0..N : n \in G
<1> DEFINE Bad == (0..N) \ G
<1> SUFFICES ASSUME Bad # {}
             PROVE  FALSE
  OBVIOUS
<1>1. PICK n \in Bad : \A m \in Bad : n <= m
  <2>1. Bad \in SUBSET Nat
    OBVIOUS
  <2> HIDE DEF Bad
  <2> QED
    BY <2>1, LeastNatural
<1>2. n \in 1..N /\ n - 1 \in 0..N /\ ~(n <= n - 1)
  BY <1>1
<1>3. n - 1 \notin Bad
  <2> HIDE DEF Bad
  <2> QED
    BY <1>1, <1>2
<1> QED
  BY <1>2, <1>3

-----------------------------------------------------------------------------
(* One event.                                                                *)

Timed(E) == \A f \in E : f.time \in Nat

InTimeOrder(q) == \A i, j \in DOMAIN q : i < j => q[i].time <= q[j].time

(* Two events related by R are queued in that order.                         *)
Respects(q, R) == \A i, j \in DOMAIN q : <<q[i], q[j]>> \in R => i < j

(* No two events of the queue are related by R.                              *)
Apart(q, R) == \A i, j \in DOMAIN q : i # j => <<q[i], q[j]>> \notin R

(* InsertAt puts the element at its index and moves the later ones by one.   *)
LEMMA InsertAtFacts ==
  ASSUME NEW E, NEW q \in Seq(E), NEW e \in E, NEW k \in 1..Len(q) + 1
  PROVE  /\ InsertAt(q, k, e) \in Seq(E)
         /\ Len(InsertAt(q, k, e)) = Len(q) + 1
         /\ DOMAIN InsertAt(q, k, e) = 1..Len(q) + 1
         /\ \A i \in 1..Len(q) + 1 :
              InsertAt(q, k, e)[i] = IF i < k THEN q[i] ELSE IF i = k THEN e ELSE q[i - 1]
<1> DEFINE a == SubSeq(q, 1, k - 1)
           b == SubSeq(q, k, Len(q))
<1>1. /\ Len(q) \in Nat /\ k \in Int /\ k - 1 \in Int
      /\ \A i \in 1..Len(q) : q[i] \in E
  OBVIOUS
<1>2. /\ a \in Seq(E) /\ Len(a) = k - 1
      /\ \A i \in 1..k - 1 : a[i] = q[i]
  <2>1. \A i \in 1..k - 1 : q[i] \in E
    BY <1>1
  <2> QED
    BY <1>1, <2>1, SubSeqProperties
<1>3. /\ b \in Seq(E) /\ Len(b) = Len(q) - k + 1
      /\ \A i \in 1..Len(q) - k + 1 : b[i] = q[k + i - 1]
  <2>1. \A i \in k..Len(q) : q[i] \in E
    BY <1>1
  <2> QED
    BY <1>1, <2>1, SubSeqProperties
<1>4. InsertAt(q, k, e) = a \o <<e>> \o b
  BY DEF InsertAt
<1> HIDE DEF a, b
<1>5. <<e>> \in Seq(E) /\ Len(<<e>>) = 1 /\ <<e>>[1] = e
  OBVIOUS
<1>6. /\ a \o <<e>> \in Seq(E) /\ Len(a \o <<e>>) = k
      /\ \A i \in 1..k : (a \o <<e>>)[i] = IF i < k THEN q[i] ELSE e
  BY <1>1, <1>2, <1>5, ConcatProperties
<1>7. /\ InsertAt(q, k, e) \in Seq(E)
      /\ Len(InsertAt(q, k, e)) = Len(q) + 1
      /\ \A i \in 1..Len(q) + 1 :
           InsertAt(q, k, e)[i] = IF i <= k THEN (a \o <<e>>)[i] ELSE b[i - k]
  <2> DEFINE c == a \o <<e>>
  <2>1. c \in Seq(E) /\ Len(c) = k /\ InsertAt(q, k, e) = c \o b
    BY <1>4, <1>6
  <2> HIDE DEF c
  <2>2. Len(c) + Len(b) = Len(q) + 1
    <3>1. Len(b) = Len(q) - k + 1 /\ Len(c) = k
      BY <1>3, <2>1
    <3> QED
      BY <1>1, <3>1
  <2>3. /\ c \o b \in Seq(E)
        /\ Len(c \o b) = Len(c) + Len(b)
        /\ \A i \in 1..Len(c) + Len(b) :
             (c \o b)[i] = IF i <= Len(c) THEN c[i] ELSE b[i - Len(c)]
    BY <1>3, <2>1, ConcatProperties
  <2> QED
    BY <1>1, <1>3, <2>1, <2>2, <2>3 DEF c
<1>8. ASSUME NEW i \in 1..Len(q) + 1, i > k
      PROVE  b[i - k] = q[i - 1]
  <2>1. i - k \in 1..Len(q) - k + 1 /\ k + (i - k) - 1 = i - 1
    BY <1>1, <1>8
  <2> QED
    BY <1>3, <2>1
<1> QED
  BY <1>1, <1>6, <1>7, <1>8, SMTT(40)

(* schedule puts the event behind those that are not later than it.          *)
LEMMA SchedulePosition ==
  ASSUME NEW E, Timed(E),
         NEW q \in Seq(E), NEW e \in E, InTimeOrder(q)
  PROVE  /\ Schedule(q, e) \in Seq(E)
         /\ DOMAIN Schedule(q, e) = 1..Len(q) + 1
         /\ \E k \in 1..Len(q) + 1 :
              /\ \A i \in 1..Len(q) : i < k <=> q[i].time <= e.time
              /\ \A i \in 1..Len(q) + 1 :
                   Schedule(q, e)[i] =
                     IF i < k THEN q[i] ELSE IF i = k THEN e ELSE q[i - 1]
<1> DEFINE T == {i \in 1..Len(q) : q[i].time > e.time} \cup {Len(q) + 1}
           S == {i \in DOMAIN q : q[i].time <= e.time}
<1>1. /\ Len(q) \in Nat /\ e.time \in Nat /\ DOMAIN q = 1..Len(q)
      /\ \A i \in 1..Len(q) : q[i].time \in Nat
  BY DEF Timed
<1>2. T \in SUBSET Nat /\ T # {}
  BY <1>1
<1>3. PICK k \in T : \A y \in T : k <= y
  BY <1>2, LeastNatural
<1>4. k \in 1..Len(q) + 1
  BY <1>1, <1>3
<1>5. ASSUME NEW i \in 1..Len(q)
      PROVE  i < k <=> q[i].time <= e.time
  <2>1. CASE i < k
    BY <1>1, <1>3, <2>1
  <2>2. CASE ~(i < k)
    <3>1. k \in 1..Len(q) /\ q[k].time > e.time
      BY <1>1, <1>3, <1>4, <2>2
    <3>2. q[k].time <= q[i].time
      BY <1>1, <1>4, <2>2, <3>1 DEF InTimeOrder
    <3> QED
      BY <1>1, <2>2, <3>1, <3>2
  <2> QED
    BY <2>1, <2>2
<1>6. S = 1..k - 1
  BY <1>1, <1>4, <1>5
<1>7. Cardinality(S) = k - 1
  <2>1. k - 1 \in Nat
    BY <1>1, <1>4
  <2>2. \A m \in Nat : Cardinality(1..m) = m
    BY FS_Interval
  <2> QED
    BY <1>6, <2>1, <2>2
<1>8. Schedule(q, e) = InsertAt(q, 1 + Cardinality(S), e)
  BY DEF Schedule
<1>9. 1 + Cardinality(S) = k
  BY <1>1, <1>4, <1>7
<1>10. Schedule(q, e) = InsertAt(q, k, e)
  BY <1>8, <1>9
<1> HIDE DEF T, S
<1>11. /\ InsertAt(q, k, e) \in Seq(E)
       /\ DOMAIN InsertAt(q, k, e) = 1..Len(q) + 1
       /\ \A i \in 1..Len(q) + 1 :
            InsertAt(q, k, e)[i] = IF i < k THEN q[i] ELSE IF i = k THEN e ELSE q[i - 1]
  BY <1>4, InsertAtFacts
<1> QED
  BY <1>4, <1>5, <1>10, <1>11

(* What one schedule call does: the queue stays in order of time and gains   *)
(* the event, and nothing else.                                              *)
LEMMA ScheduleFacts ==
  ASSUME NEW E, Timed(E),
         NEW q \in Seq(E), NEW e \in E, InTimeOrder(q)
  PROVE  /\ Schedule(q, e) \in Seq(E)
         /\ InTimeOrder(Schedule(q, e))
         /\ ToSet(Schedule(q, e)) = ToSet(q) \cup {e}
<1> DEFINE p == Schedule(q, e)
<1>1. PICK k \in 1..Len(q) + 1 :
        /\ \A i \in 1..Len(q) : i < k <=> q[i].time <= e.time
        /\ \A i \in 1..Len(q) + 1 :
             p[i] = IF i < k THEN q[i] ELSE IF i = k THEN e ELSE q[i - 1]
  BY SchedulePosition, ZenonT(40)
<1>2. p \in Seq(E) /\ DOMAIN p = 1..Len(q) + 1
  BY SchedulePosition
<1>3. /\ Len(q) \in Nat /\ k \in Nat /\ DOMAIN q = 1..Len(q) /\ e.time \in Nat
      /\ \A i \in 1..Len(q) : q[i].time \in Nat
  BY DEF Timed
<1> HIDE DEF p
<1>4. InTimeOrder(p)
  <2> SUFFICES ASSUME NEW i \in 1..Len(q) + 1, NEW j \in 1..Len(q) + 1, i < j
               PROVE  p[i].time <= p[j].time
    BY <1>2 DEF InTimeOrder
  <2>1. CASE j < k
    <3>1. i \in 1..Len(q) /\ j \in 1..Len(q) /\ p[i] = q[i] /\ p[j] = q[j]
      BY <1>1, <1>3, <2>1
    <3> QED
      BY <1>3, <3>1 DEF InTimeOrder
  <2>2. CASE j = k
    <3>1. i \in 1..Len(q) /\ p[i] = q[i] /\ p[j] = e /\ i < k
      BY <1>1, <1>3, <2>2
    <3> QED
      BY <1>1, <3>1
  <2>3. CASE i = k
    <3>1. j - 1 \in 1..Len(q) /\ p[j] = q[j - 1] /\ p[i] = e /\ ~(j - 1 < k)
      BY <1>1, <1>3, <2>3
    <3> QED
      BY <1>1, <1>3, <3>1
  <2>4. CASE i < k /\ k < j
    <3>1. /\ i \in 1..Len(q) /\ p[i] = q[i] /\ j - 1 \in 1..Len(q) /\ p[j] = q[j - 1]
      BY <1>1, <1>3, <2>4
    <3>2. q[i].time <= q[j - 1].time
      <4>1. CASE i = j - 1
        BY <1>3, <3>1, <4>1
      <4>2. CASE i < j - 1
        BY <1>3, <3>1, <4>2 DEF InTimeOrder
      <4> QED
        BY <2>4, <3>1, <4>1, <4>2
    <3> QED
      BY <3>1, <3>2
  <2>5. CASE k < i
    <3>1. /\ i - 1 \in 1..Len(q) /\ p[i] = q[i - 1] /\ j - 1 \in 1..Len(q) /\ p[j] = q[j - 1]
          /\ i - 1 < j - 1
      BY <1>1, <1>3, <2>5
    <3> QED
      BY <1>3, <3>1 DEF InTimeOrder
  <2> QED
    BY <1>3, <2>1, <2>2, <2>3, <2>4, <2>5
<1>5. ToSet(p) = ToSet(q) \cup {e}
  <2>1. ASSUME NEW i \in 1..Len(q) + 1
        PROVE  p[i] \in ToSet(q) \cup {e}
    <3>1. i < k => i \in 1..Len(q) /\ p[i] = q[i]
      BY <1>1, <1>2, <1>3
    <3>2. k < i => i - 1 \in 1..Len(q) /\ p[i] = q[i - 1]
      BY <1>1, <1>2, <1>3
    <3>3. i = k => p[i] = e
      BY <1>1, <1>2, <1>3
    <3> QED
      BY <1>3, <3>1, <3>2, <3>3 DEF ToSet
  <2>2. ASSUME NEW i \in 1..Len(q)
        PROVE  q[i] \in ToSet(p)
    <3>1. i < k => i \in DOMAIN p /\ p[i] = q[i]
      BY <1>1, <1>2, <1>3
    <3>2. ~(i < k) => i + 1 \in DOMAIN p /\ p[i + 1] = q[i]
      BY <1>1, <1>2, <1>3
    <3> QED
      BY <3>1, <3>2 DEF ToSet
  <2>3. e \in ToSet(p)
    BY <1>1, <1>2, <1>3 DEF ToSet
  <2>4. ToSet(p) \subseteq ToSet(q) \cup {e}
    BY <1>2, <2>1 DEF ToSet
  <2>5. ToSet(q) \subseteq ToSet(p)
    BY <1>3, <2>2 DEF ToSet
  <2> QED
    BY <2>3, <2>4, <2>5
<1> QED
  BY <1>2, <1>4, <1>5 DEF p

(* Events that were not related stay unrelated if the new one is not.        *)
LEMMA ScheduleApart ==
  ASSUME NEW E, Timed(E),
         NEW q \in Seq(E), NEW e \in E, InTimeOrder(q),
         NEW R, Apart(q, R),
         \A f \in ToSet(q) : <<e, f>> \notin R /\ <<f, e>> \notin R
  PROVE  Apart(Schedule(q, e), R)
<1> DEFINE p == Schedule(q, e)
<1>1. PICK k \in 1..Len(q) + 1 : \A i \in 1..Len(q) + 1 :
        p[i] = IF i < k THEN q[i] ELSE IF i = k THEN e ELSE q[i - 1]
  BY SchedulePosition
<1>2. DOMAIN p = 1..Len(q) + 1
  BY SchedulePosition
<1>3. Len(q) \in Nat /\ k \in Nat /\ DOMAIN q = 1..Len(q)
  OBVIOUS
<1> HIDE DEF p
<1> DEFINE old(i) == IF i < k THEN i ELSE i - 1
<1>4. ASSUME NEW i \in 1..Len(q) + 1, i # k
      PROVE  old(i) \in 1..Len(q) /\ p[i] = q[old(i)] /\ q[old(i)] \in ToSet(q)
  <2>1. old(i) \in 1..Len(q) /\ p[i] = q[old(i)]
    BY <1>1, <1>3, <1>4
  <2> QED
    BY <1>3, <2>1 DEF ToSet
<1>5. p[k] = e
  BY <1>1, <1>3
<1> SUFFICES ASSUME NEW i \in 1..Len(q) + 1, NEW j \in 1..Len(q) + 1, i # j
             PROVE  <<p[i], p[j]>> \notin R
  BY <1>2 DEF Apart, p
<1>6. CASE i = k
  BY <1>4, <1>5, <1>6
<1>7. CASE j = k
  BY <1>4, <1>5, <1>7
<1>8. CASE i # k /\ j # k
  <2>1. old(i) # old(j)
    BY <1>3, <1>8
  <2> QED
    BY <1>3, <1>4, <1>8, <2>1 DEF Apart
<1> QED
  BY <1>6, <1>7, <1>8

(* An order between events is kept if the new one comes before none of the   *)
(* queued ones and is not earlier than those it comes after.                 *)
LEMMA ScheduleRespects ==
  ASSUME NEW E, Timed(E),
         NEW q \in Seq(E), NEW e \in E, InTimeOrder(q),
         NEW R, Respects(q, R), <<e, e>> \notin R,
         \A f \in ToSet(q) : <<e, f>> \notin R /\ (<<f, e>> \in R => f.time <= e.time)
  PROVE  Respects(Schedule(q, e), R)
<1> DEFINE p == Schedule(q, e)
<1>1. PICK k \in 1..Len(q) + 1 :
        /\ \A i \in 1..Len(q) : i < k <=> q[i].time <= e.time
        /\ \A i \in 1..Len(q) + 1 :
             p[i] = IF i < k THEN q[i] ELSE IF i = k THEN e ELSE q[i - 1]
  BY SchedulePosition
<1>2. DOMAIN p = 1..Len(q) + 1
  BY SchedulePosition
<1>3. Len(q) \in Nat /\ k \in Nat /\ DOMAIN q = 1..Len(q)
  OBVIOUS
<1> HIDE DEF p
<1> DEFINE old(i) == IF i < k THEN i ELSE i - 1
<1>4. ASSUME NEW i \in 1..Len(q) + 1, i # k
      PROVE  old(i) \in 1..Len(q) /\ p[i] = q[old(i)] /\ q[old(i)] \in ToSet(q)
  <2>1. old(i) \in 1..Len(q) /\ p[i] = q[old(i)]
    BY <1>1, <1>3, <1>4
  <2> QED
    BY <1>3, <2>1 DEF ToSet
<1>5. p[k] = e
  BY <1>1, <1>3
<1> SUFFICES ASSUME NEW i \in 1..Len(q) + 1, NEW j \in 1..Len(q) + 1, <<p[i], p[j]>> \in R
             PROVE  i < j
  BY <1>2 DEF Respects, p
<1>6. i # k
  BY <1>4, <1>5
<1>7. CASE j = k
  <2>1. q[old(i)].time <= e.time
    BY <1>4, <1>5, <1>6, <1>7
  <2>2. old(i) < k
    BY <1>1, <1>4, <1>6, <2>1
  <2> QED
    BY <1>3, <1>6, <1>7, <2>2
<1>8. CASE j # k
  <2>1. old(i) < old(j)
    BY <1>3, <1>4, <1>6, <1>8 DEF Respects
  <2> QED
    BY <1>3, <2>1
<1> QED
  BY <1>7, <1>8

-----------------------------------------------------------------------------
(* The schedule calls of one handler.                                        *)

(* The queue after the first n of the calls.                                 *)
IsAfter(after, queue, es) ==
  after = [n \in 0..Len(es) |-> IF n = 0 THEN queue ELSE Schedule(after[n - 1], es[n])]

(* The recursion of ScheduleAll defines a function.                          *)
LEMMA AfterExists ==
  ASSUME NEW E, NEW queue, NEW es \in Seq(E)
  PROVE  \E after : IsAfter(after, queue, es) /\ ScheduleAll(queue, es) = after[Len(es)]
<1> DEFINE G(n, f) ==
      f = [m \in 0..n |-> IF m = 0 THEN queue ELSE Schedule(f[m - 1], es[m])]
           Good == {n \in Nat : \E f : G(n, f)}
<1>1. 0 \in Good
  <2> DEFINE f == [m \in 0..0 |-> queue]
  <2>1. G(0, f)
    OBVIOUS
  <2> QED
    BY <2>1
<1>2. Len(es) \in Nat
  OBVIOUS
<1>3. ASSUME NEW n \in 1..Len(es), n - 1 \in Good
      PROVE  n \in Good
  <2>1. n \in Nat /\ n # 0
    BY <1>2
  <2>2. PICK f : G(n - 1, f)
    BY <1>3
  <2> DEFINE g == [m \in 0..n |-> IF m = n THEN Schedule(f[n - 1], es[n]) ELSE f[m]]
  <2>3. ASSUME NEW m \in 0..n
        PROVE  g[m] = IF m = 0 THEN queue ELSE Schedule(g[m - 1], es[m])
    <3>1. CASE m = n
      BY <2>1, <3>1
    <3>2. CASE m # n
      <4>1. m \in 0..n - 1 /\ (m # 0 => m - 1 \in 0..n /\ m - 1 # n)
        BY <2>1, <3>2
      <4>2. f[m] = IF m = 0 THEN queue ELSE Schedule(f[m - 1], es[m])
        BY <2>2, <4>1
      <4> QED
        BY <3>2, <4>1, <4>2
    <3> QED
      BY <3>1, <3>2
  <2>4. G(n, g)
    <3> DEFINE h == [m \in 0..n |-> IF m = 0 THEN queue ELSE Schedule(g[m - 1], es[m])]
    <3>1. \A m \in 0..n : g[m] = h[m]
      BY <2>3
    <3> QED
      BY <3>1
  <2> QED
    BY <2>1, <2>4
<1>4. Len(es) \in Good
  <2> HIDE DEF Good
  <2>1. \A n \in 0..Len(es) : n \in Good
    BY <1>1, <1>2, <1>3, InductionUpTo
  <2> QED
    BY <1>2, <2>1
<1>5. \E f : IsAfter(f, queue, es)
  BY <1>4 DEF IsAfter
<1> DEFINE c == CHOOSE f : IsAfter(f, queue, es)
<1>6. IsAfter(c, queue, es)
  BY <1>5
<1>7. ScheduleAll(queue, es) = c[Len(es)]
  BY DEF ScheduleAll, IsAfter
<1> QED
  BY <1>6, <1>7

(* A queue p in order of time that has gained the first n events of es.      *)
HasGained(p, q, es, n, E) ==
  /\ p \in Seq(E)
  /\ InTimeOrder(p)
  /\ ToSet(p) = ToSet(q) \cup {es[i] : i \in 1..n}

(* After n calls the queue is in order of time and has gained n events.      *)
LEMMA AfterFacts ==
  ASSUME NEW E, Timed(E),
         NEW q \in Seq(E), NEW es \in Seq(E), InTimeOrder(q),
         NEW after, IsAfter(after, q, es)
  PROVE  \A n \in 0..Len(es) : HasGained(after[n], q, es, n, E)
<1> DEFINE Good == {n \in Nat : HasGained(after[n], q, es, n, E)}
<1>1. Len(es) \in Nat /\ DOMAIN es = 1..Len(es) /\ \A i \in 1..Len(es) : es[i] \in E
  OBVIOUS
<1>2. 0 \in Good
  <2>1. after[0] = q
    BY <1>1 DEF IsAfter
  <2>2. {es[i] : i \in 1..0} = {}
    OBVIOUS
  <2> QED
    BY <2>1, <2>2 DEF HasGained
<1>3. ASSUME NEW n \in 1..Len(es), n - 1 \in Good
      PROVE  n \in Good
  <2>1. after[n] = Schedule(after[n - 1], es[n])
    BY <1>1, SMTT(40) DEF IsAfter
  <2>2. es[n] \in E /\ n \in Nat
    BY <1>1
  <2> DEFINE p == after[n - 1]
             e == es[n]
  <2>3. p \in Seq(E) /\ InTimeOrder(p) /\ e \in E
    BY <1>3, <2>2 DEF HasGained
  <2>6. ToSet(p) = ToSet(q) \cup {es[i] : i \in 1..n - 1}
    BY <1>3 DEF HasGained
  <2> HIDE DEF p, e, Good
  <2>4. /\ Schedule(p, e) \in Seq(E)
        /\ InTimeOrder(Schedule(p, e))
        /\ ToSet(Schedule(p, e)) = ToSet(p) \cup {e}
    BY <2>3, ScheduleFacts
  <2>5. {es[i] : i \in 1..n} = {es[i] : i \in 1..n - 1} \cup {es[n]}
    BY <1>1
  <2> QED
    BY <2>1, <2>2, <2>4, <2>5, <2>6 DEF p, e, Good, HasGained
<1>4. \A n \in 0..Len(es) : n \in Good
  <2> HIDE DEF Good
  <2> QED
    BY <1>1, <1>2, <1>3, InductionUpTo
<1> QED
  BY <1>4

(* What the calls of one handler do: the queue stays in order of time and    *)
(* gains the events, and nothing else.                                       *)
LEMMA ScheduleAllFacts ==
  ASSUME NEW E, Timed(E),
         NEW q \in Seq(E), NEW es \in Seq(E), InTimeOrder(q)
  PROVE  /\ ScheduleAll(q, es) \in Seq(E)
         /\ InTimeOrder(ScheduleAll(q, es))
         /\ ToSet(ScheduleAll(q, es)) = ToSet(q) \cup ToSet(es)
<1>1. PICK after : IsAfter(after, q, es) /\ ScheduleAll(q, es) = after[Len(es)]
  BY AfterExists
<1>2. Len(es) \in Nat /\ DOMAIN es = 1..Len(es)
  OBVIOUS
<1>3. \A n \in 0..Len(es) : HasGained(after[n], q, es, n, E)
  BY <1>1, AfterFacts
<1>4. ToSet(es) = {es[i] : i \in 1..Len(es)} 
  BY <1>2 DEF ToSet
<1>5. HasGained(after[Len(es)], q, es, Len(es), E)
  BY <1>2, <1>3
<1> QED
  BY <1>1, <1>4, <1>5 DEF HasGained

(* The calls bring no related events together that were apart.               *)
LEMMA ScheduleAllApart ==
  ASSUME NEW E, Timed(E),
         NEW q \in Seq(E), NEW es \in Seq(E), InTimeOrder(q),
         NEW R, Apart(q, R), Apart(es, R),
         \A f \in ToSet(q), e \in ToSet(es) : <<e, f>> \notin R /\ <<f, e>> \notin R
  PROVE  Apart(ScheduleAll(q, es), R)
<1>1. PICK after : IsAfter(after, q, es) /\ ScheduleAll(q, es) = after[Len(es)]
  BY AfterExists
<1> DEFINE Good == {n \in Nat : Apart(after[n], R)}
<1>2. Len(es) \in Nat /\ DOMAIN es = 1..Len(es) /\ \A i \in 1..Len(es) : es[i] \in E
  OBVIOUS
<1>a. \A n \in 0..Len(es) : HasGained(after[n], q, es, n, E)
  BY <1>1, AfterFacts
<1>b. \A n \in 1..Len(es) : after[n] = Schedule(after[n - 1], es[n])
  BY <1>1, <1>2 DEF IsAfter
<1>3. 0 \in Good
  BY <1>1, <1>2 DEF IsAfter
<1>4. ASSUME NEW n \in 1..Len(es), n - 1 \in Good
      PROVE  n \in Good
  <2>1. after[n] = Schedule(after[n - 1], es[n])
    BY <1>b
  <2>2. es[n] \in E /\ n \in Nat /\ n - 1 \in 0..Len(es)
    BY <1>2
  <2> DEFINE p == after[n - 1]
  <2>3. /\ p \in Seq(E) /\ InTimeOrder(p)
        /\ ToSet(p) = ToSet(q) \cup {es[i] : i \in 1..n - 1}
    BY <1>a, <2>2 DEF HasGained
  <2>4. Apart(p, R)
    BY <1>4
  <2> HIDE DEF p, Good
  <2>5. ASSUME NEW f \in ToSet(p)
        PROVE  <<es[n], f>> \notin R /\ <<f, es[n]>> \notin R
    <3>1. es[n] \in ToSet(es)
      BY <1>2 DEF ToSet
    <3>2. CASE f \in ToSet(q)
      BY <3>1, <3>2
    <3>3. CASE f \in {es[i] : i \in 1..n - 1}
      <4>1. PICK i \in 1..n - 1 : f = es[i]
        BY <3>3
      <4>2. i \in 1..Len(es) /\ i # n
        BY <1>2
      <4> QED
        BY <1>2, <4>1, <4>2 DEF Apart
    <3> QED
      BY <2>3, <3>2, <3>3
  <2>6. Apart(Schedule(p, es[n]), R)
    BY <2>2, <2>3, <2>4, <2>5, ScheduleApart
  <2> QED
    BY <2>1, <2>2, <2>6 DEF p, Good
<1>5. \A n \in 0..Len(es) : n \in Good
  <2> HIDE DEF Good
  <2> QED
    BY <1>2, <1>3, <1>4, InductionUpTo
<1> QED
  BY <1>1, <1>2, <1>5

(* The calls keep an order between events.                                   *)
LEMMA ScheduleAllRespects ==
  ASSUME NEW E, Timed(E),
         NEW q \in Seq(E), NEW es \in Seq(E), InTimeOrder(q),
         NEW R, Respects(q, R), Respects(es, R),
         \A i, j \in DOMAIN es : <<es[i], es[j]>> \in R => es[i].time <= es[j].time,
         \A f \in ToSet(q), e \in ToSet(es) :
           <<e, f>> \notin R /\ (<<f, e>> \in R => f.time <= e.time)
  PROVE  Respects(ScheduleAll(q, es), R)
<1>1. PICK after : IsAfter(after, q, es) /\ ScheduleAll(q, es) = after[Len(es)]
  BY AfterExists
<1> DEFINE Good == {n \in Nat : Respects(after[n], R)}
<1>2. Len(es) \in Nat /\ DOMAIN es = 1..Len(es) /\ \A i \in 1..Len(es) : es[i] \in E
  OBVIOUS
<1>a. \A n \in 0..Len(es) : HasGained(after[n], q, es, n, E)
  BY <1>1, AfterFacts
<1>b. \A n \in 1..Len(es) : after[n] = Schedule(after[n - 1], es[n])
  BY <1>1, <1>2 DEF IsAfter
<1>3. 0 \in Good
  BY <1>1, <1>2 DEF IsAfter
<1>4. ASSUME NEW n \in 1..Len(es), n - 1 \in Good
      PROVE  n \in Good
  <2>1. after[n] = Schedule(after[n - 1], es[n])
    BY <1>b
  <2>2. es[n] \in E /\ n \in Nat /\ n - 1 \in 0..Len(es)
    BY <1>2
  <2> DEFINE p == after[n - 1]
  <2>3. /\ p \in Seq(E) /\ InTimeOrder(p)
        /\ ToSet(p) = ToSet(q) \cup {es[i] : i \in 1..n - 1}
    BY <1>a, <2>2 DEF HasGained
  <2>4. Respects(p, R)
    BY <1>4
  <2> HIDE DEF p, Good
  <2>5. ASSUME NEW f \in ToSet(p)
        PROVE  <<es[n], f>> \notin R /\ (<<f, es[n]>> \in R => f.time <= es[n].time)
    <3>1. es[n] \in ToSet(es)
      BY <1>2 DEF ToSet
    <3>2. CASE f \in ToSet(q)
      BY <3>1, <3>2
    <3>3. CASE f \in {es[i] : i \in 1..n - 1}
      <4>1. PICK i \in 1..n - 1 : f = es[i]
        BY <3>3
      <4>2. i \in 1..Len(es) /\ ~(n < i)
        BY <1>2
      <4> QED
        BY <1>2, <4>1, <4>2 DEF Respects
    <3> QED
      BY <2>3, <3>2, <3>3
  <2>6. <<es[n], es[n]>> \notin R
    <3>1. n \in DOMAIN es /\ ~(n < n)
      BY <1>2
    <3> QED
      BY <3>1 DEF Respects
  <2>7. Respects(Schedule(p, es[n]), R)
    BY <2>2, <2>3, <2>4, <2>5, <2>6, ScheduleRespects
  <2> QED
    BY <2>1, <2>2, <2>7 DEF p, Good
<1>5. \A n \in 0..Len(es) : n \in Good
  <2> HIDE DEF Good
  <2> QED
    BY <1>2, <1>3, <1>4, InductionUpTo
<1> QED
  BY <1>1, <1>2, <1>5

(* Popping the head of the queue.                                            *)
LEMMA PopFacts ==
  ASSUME NEW E, NEW q \in Seq(E), q # <<>>
  PROVE  /\ Head(q) \in E /\ Tail(q) \in Seq(E)
         /\ ToSet(q) = {Head(q)} \cup ToSet(Tail(q))
         /\ InTimeOrder(q) =>
              InTimeOrder(Tail(q)) /\ \A f \in ToSet(Tail(q)) : Head(q).time <= f.time
         /\ \A R : Apart(q, R) =>
              /\ Apart(Tail(q), R)
              /\ \A f \in ToSet(Tail(q)) : <<Head(q), f>> \notin R /\ <<f, Head(q)>> \notin R
         /\ \A R : Respects(q, R) =>
              Respects(Tail(q), R) /\ \A f \in ToSet(Tail(q)) : <<f, Head(q)>> \notin R
<1> DEFINE h == Head(q)
           t == Tail(q)
<1>1. /\ t \in Seq(E) /\ h \in E /\ h = q[1] /\ Len(q) \in Nat \ {0}
      /\ DOMAIN t = 1..Len(q) - 1 /\ DOMAIN q = 1..Len(q)
      /\ \A i \in 1..Len(q) - 1 : t[i] = q[i + 1]
  OBVIOUS
<1>2. \A i \in 1..Len(q) - 1 : i + 1 \in 1..Len(q) /\ 1 < i + 1 /\ ~(i + 1 < 1) /\ i + 1 # 1
  BY <1>1
<1>3. 1 \in 1..Len(q)
  BY <1>1
<1> HIDE DEF h, t
<1>4. ToSet(q) = {h} \cup ToSet(t)
  <2>1. ASSUME NEW i \in 1..Len(q)
        PROVE  q[i] \in {h} \cup ToSet(t)
    <3>1. CASE i = 1
      BY <1>1, <3>1
    <3>2. CASE i # 1
      <4>1. i - 1 \in 1..Len(q) - 1 /\ q[i] = t[i - 1]
        BY <1>1, <3>2
      <4> QED
        BY <1>1, <4>1 DEF ToSet
    <3> QED
      BY <3>1, <3>2
  <2>2. ToSet(q) \subseteq {h} \cup ToSet(t)
    BY <1>1, <2>1 DEF ToSet
  <2>3. ToSet(t) \subseteq ToSet(q)
    BY <1>1, <1>2 DEF ToSet
  <2>4. h \in ToSet(q)
    BY <1>1, <1>3 DEF ToSet
  <2> QED
    BY <2>2, <2>3, <2>4
<1>5. ASSUME InTimeOrder(q)
      PROVE  InTimeOrder(t) /\ \A f \in ToSet(t) : h.time <= f.time
  <2>1. \A f \in ToSet(t) : h.time <= f.time
    BY <1>1, <1>2, <1>3, <1>5 DEF ToSet, InTimeOrder
  <2>2. ASSUME NEW i \in 1..Len(q) - 1, NEW j \in 1..Len(q) - 1, i < j
        PROVE  t[i].time <= t[j].time
    <3>1. i + 1 < j + 1 /\ i + 1 \in DOMAIN q /\ j + 1 \in DOMAIN q
      BY <1>1, <2>2
    <3> QED
      BY <1>1, <1>5, <3>1 DEF InTimeOrder
  <2> QED
    BY <1>1, <2>1, <2>2 DEF InTimeOrder
<1>6. ASSUME NEW R, Apart(q, R)
      PROVE  /\ Apart(t, R)
             /\ \A f \in ToSet(t) : <<h, f>> \notin R /\ <<f, h>> \notin R
  <2>1. ASSUME NEW f \in ToSet(t)
        PROVE  <<h, f>> \notin R /\ <<f, h>> \notin R
    <3>1. PICK i \in 1..Len(q) - 1 : f = q[i + 1]
      BY <1>1 DEF ToSet
    <3>2. i + 1 \in DOMAIN q /\ 1 \in DOMAIN q /\ i + 1 # 1
      BY <1>1, <1>2, <1>3
    <3> QED
      BY <1>1, <1>6, <3>1, <3>2 DEF Apart
  <2>2. ASSUME NEW i \in 1..Len(q) - 1, NEW j \in 1..Len(q) - 1, i # j
        PROVE  <<t[i], t[j]>> \notin R
    <3>1. i + 1 # j + 1 /\ i + 1 \in DOMAIN q /\ j + 1 \in DOMAIN q
      BY <1>1, <2>2
    <3> QED
      BY <1>1, <1>6, <3>1 DEF Apart
  <2> QED
    BY <1>1, <2>1, <2>2 DEF Apart
<1>7. ASSUME NEW R, Respects(q, R)
      PROVE  Respects(t, R) /\ \A f \in ToSet(t) : <<f, h>> \notin R
  <2>1. ASSUME NEW f \in ToSet(t)
        PROVE  <<f, h>> \notin R
    <3>1. PICK i \in 1..Len(q) - 1 : f = q[i + 1]
      BY <1>1 DEF ToSet
    <3>2. i + 1 \in DOMAIN q /\ 1 \in DOMAIN q /\ ~(i + 1 < 1)
      BY <1>1, <1>2, <1>3
    <3> QED
      BY <1>1, <1>7, <3>1, <3>2 DEF Respects
  <2>2. ASSUME NEW i \in 1..Len(q) - 1, NEW j \in 1..Len(q) - 1, <<t[i], t[j]>> \in R
        PROVE  i < j
    <3>1. i + 1 \in DOMAIN q /\ j + 1 \in DOMAIN q
      BY <1>1
    <3>2. i + 1 < j + 1
      BY <1>1, <1>7, <2>2, <3>1 DEF Respects
    <3> QED
      BY <3>2
  <2> QED
    BY <1>1, <2>1, <2>2 DEF Respects
<1> QED
  BY <1>1, <1>4, <1>5, <1>6, <1>7 DEF h, t

-----------------------------------------------------------------------------
(* The lists of events that a handler schedules.                             *)

(* No event and a single event.                                              *)
LEMMA ShortLists ==
  ASSUME NEW E, NEW e \in E
  PROVE  /\ <<>> \in Seq(E) /\ ToSet(<<>>) = {}
         /\ <<e>> \in Seq(E) /\ ToSet(<<e>>) = {e}
         /\ \A R : Apart(<<>>, R) /\ Apart(<<e>>, R) /\ Respects(<<>>, R)
         /\ \A R : <<e, e>> \notin R => Respects(<<e>>, R)
BY DEF ToSet, Apart, Respects

(* One list behind another.                                                  *)
LEMMA JoinedLists ==
  ASSUME NEW E, NEW s \in Seq(E), NEW t \in Seq(E)
  PROVE  /\ s \o t \in Seq(E) /\ ToSet(s \o t) = ToSet(s) \cup ToSet(t)
         /\ \A R : /\ Apart(s, R) /\ Apart(t, R)
                   /\ \A e \in ToSet(s), f \in ToSet(t) : <<e, f>> \notin R /\ <<f, e>> \notin R
                   => Apart(s \o t, R)
         /\ \A R : /\ Respects(s, R) /\ Respects(t, R)
                   /\ \A e \in ToSet(s), f \in ToSet(t) : <<f, e>> \notin R
                   => Respects(s \o t, R)
<1> DEFINE q == s \o t
           m == Len(s)
           n == Len(t)
<1>1. /\ q \in Seq(E) /\ DOMAIN q = 1..m + n /\ m \in Nat /\ n \in Nat
      /\ DOMAIN s = 1..m /\ DOMAIN t = 1..n
      /\ \A i \in 1..m + n : q[i] = IF i <= m THEN s[i] ELSE t[i - m]
  OBVIOUS
<1> HIDE DEF q, m, n
<1>2. \A i \in DOMAIN q : \/ i <= m /\ i \in DOMAIN s /\ q[i] = s[i]
                          \/ m < i /\ i - m \in DOMAIN t /\ q[i] = t[i - m]
  BY <1>1
<1>3. \A i \in DOMAIN s : i \in DOMAIN q /\ q[i] = s[i]
  BY <1>1
<1>4. \A i \in DOMAIN t : i + m \in DOMAIN q /\ q[i + m] = t[i]
  BY <1>1
<1>5. ToSet(q) = ToSet(s) \cup ToSet(t)
  <2>1. \A i \in DOMAIN q : q[i] \in ToSet(s) \cup ToSet(t)
    BY <1>2 DEF ToSet
  <2>2. \A i \in DOMAIN s : s[i] \in ToSet(q)
    BY <1>3 DEF ToSet
  <2>3. \A i \in DOMAIN t : t[i] \in ToSet(q)
    BY <1>4 DEF ToSet
  <2> QED
    BY <2>1, <2>2, <2>3 DEF ToSet
<1>6. ASSUME NEW R, Apart(s, R), Apart(t, R),
             \A e \in ToSet(s), f \in ToSet(t) : <<e, f>> \notin R /\ <<f, e>> \notin R
      PROVE  Apart(q, R)
  <2> SUFFICES ASSUME NEW i \in DOMAIN q, NEW j \in DOMAIN q, i # j
               PROVE  <<q[i], q[j]>> \notin R
    BY DEF Apart
  <2>1. CASE i <= m /\ j <= m
    BY <1>1, <1>2, <1>6, <2>1 DEF Apart
  <2>2. CASE m < i /\ m < j
    <3>1. i - m # j - m
      BY <1>1
    <3> QED
      BY <1>1, <1>2, <1>6, <2>2, <3>1 DEF Apart
  <2>3. CASE i <= m /\ m < j
    <3>1. q[i] \in ToSet(s) /\ q[j] \in ToSet(t)
      BY <1>1, <1>2, <2>3 DEF ToSet
    <3> QED
      BY <1>6, <3>1
  <2>4. CASE m < i /\ j <= m
    <3>1. q[j] \in ToSet(s) /\ q[i] \in ToSet(t)
      BY <1>1, <1>2, <2>4 DEF ToSet
    <3> QED
      BY <1>6, <3>1
  <2> QED
    BY <1>1, <2>1, <2>2, <2>3, <2>4
<1>7. ASSUME NEW R, Respects(s, R), Respects(t, R),
             \A e \in ToSet(s), f \in ToSet(t) : <<f, e>> \notin R
      PROVE  Respects(q, R)
  <2> SUFFICES ASSUME NEW i \in DOMAIN q, NEW j \in DOMAIN q, <<q[i], q[j]>> \in R
               PROVE  i < j
    BY DEF Respects
  <2>1. CASE i <= m /\ j <= m
    BY <1>1, <1>2, <1>7, <2>1 DEF Respects
  <2>2. CASE m < i /\ m < j
    <3>1. i \in Int /\ j \in Int /\ m \in Int
      BY <1>1
    <3>2. i - m \in DOMAIN t /\ j - m \in DOMAIN t /\ <<t[i - m], t[j - m]>> \in R
      <4>1. ~(i <= m) /\ ~(j <= m)
        BY <2>2, <3>1
      <4> QED
        BY <1>2, <4>1
    <3>3. i - m < j - m
      BY <1>7, <3>2 DEF Respects
    <3> QED
      BY <3>1, <3>3
  <2>3. CASE i <= m /\ m < j
    BY <1>1, <2>3
  <2>4. CASE m < i /\ j <= m
    <3>1. q[j] \in ToSet(s) /\ q[i] \in ToSet(t)
      BY <1>1, <1>2, <2>4 DEF ToSet
    <3> QED
      BY <1>7, <3>1
  <2> QED
    BY <1>1, <2>1, <2>2, <2>3, <2>4
<1> QED
  BY <1>1, <1>5, <1>6, <1>7 DEF q

(* SetToSeq lists every member once.                                         *)
LEMMA SetToSeqFacts ==
  ASSUME NEW S, IsFiniteSet(S)
  PROVE  SetToSeq(S) \in Seq(S) /\ ToSet(SetToSeq(S)) = S /\ IsInjective(SetToSeq(S))
<1> DEFINE c == Cardinality(S)
           f == SetToSeq(S)
<1>1. c \in Nat /\ ExistsBijection(1..c, S)
  BY FS_CardinalityType
<1>2. \E g \in [1..c -> S] : IsInjective(g)
  BY <1>1 DEF ExistsBijection, Bijection, Injection, IsInjective
<1>3. f \in [1..c -> S] /\ IsInjective(f)
  BY <1>2 DEF SetToSeq
<1> HIDE DEF f
<1>4. f \in Seq(S)
  BY <1>1, <1>3
<1>5. f \in Injection(1..c, S)
  BY <1>3 DEF Injection
<1>6. IsFiniteSet(1..c) /\ Cardinality(1..c) = c
  <2> HIDE DEF c
  <2> QED
    BY <1>1, FS_Interval
<1>7. f \in Surjection(1..c, S)
  BY <1>5, <1>6, FS_Injection
<1>8. ToSet(f) = S
  BY <1>3, <1>7 DEF ToSet, Surjection
<1> QED
  BY <1>3, <1>4, <1>8 DEF f

(* One list behind another, without clashes.                                 *)
LEMMA JoinedApart ==
  ASSUME NEW E, NEW s \in Seq(E), NEW t \in Seq(E), NEW R, Apart(s, R), Apart(t, R),
         \A e \in ToSet(s), f \in ToSet(t) : <<e, f>> \notin R /\ <<f, e>> \notin R
  PROVE  s \o t \in Seq(E) /\ ToSet(s \o t) = ToSet(s) \cup ToSet(t) /\ Apart(s \o t, R)
BY JoinedLists

(* One list behind another, in an order that respects R.                     *)
LEMMA JoinedRespects ==
  ASSUME NEW E, NEW s \in Seq(E), NEW t \in Seq(E), NEW R, Respects(s, R), Respects(t, R),
         \A e \in ToSet(s), f \in ToSet(t) : <<f, e>> \notin R
  PROVE  Respects(s \o t, R)
BY JoinedLists

-----------------------------------------------------------------------------
(* Sequences without repetition, as the sets of their elements.              *)

(* Append adds one element at the end.                                       *)
LEMMA AppendSet ==
  ASSUME NEW S, NEW s \in Seq(S), NEW x \in S
  PROVE  /\ Append(s, x) \in Seq(S) /\ Len(Append(s, x)) = Len(s) + 1
         /\ ToSet(Append(s, x)) = ToSet(s) \cup {x}
         /\ IsInjective(s) /\ x \notin ToSet(s) => IsInjective(Append(s, x))
<1> DEFINE t == Append(s, x)
<1>1. /\ t \in Seq(S) /\ Len(t) = Len(s) + 1 /\ Len(s) \in Nat
      /\ DOMAIN t = 1..Len(s) + 1 /\ DOMAIN s = 1..Len(s)
      /\ t[Len(s) + 1] = x /\ \A i \in 1..Len(s) : t[i] = s[i]
  OBVIOUS
<1> HIDE DEF t
<1>2. Len(s) + 1 \in DOMAIN t /\ \A i \in DOMAIN s : i \in DOMAIN t
  BY <1>1
<1>3. \A i \in DOMAIN t : i \in DOMAIN s \/ i = Len(s) + 1
  BY <1>1
<1>4. ToSet(t) = ToSet(s) \cup {x}
  BY <1>1, <1>2, <1>3 DEF ToSet
<1>5. IsInjective(s) /\ x \notin ToSet(s) => IsInjective(t)
  BY <1>1, <1>2, <1>3 DEF ToSet, IsInjective
<1> QED
  BY <1>1, <1>4, <1>5 DEF t

(* Taking the head off leaves the other elements.                            *)
LEMMA TailSet ==
  ASSUME NEW S, NEW s \in Seq(S), s # <<>>, IsInjective(s)
  PROVE  /\ Tail(s) \in Seq(S) /\ Head(s) \in S /\ Head(s) \in ToSet(s)
         /\ ToSet(Tail(s)) = ToSet(s) \ {Head(s)}
         /\ IsInjective(Tail(s))
<1> DEFINE t == Tail(s)
           h == Head(s)
<1>1. /\ t \in Seq(S) /\ h \in S /\ h = s[1] /\ Len(s) \in Nat \ {0}
      /\ DOMAIN t = 1..Len(s) - 1 /\ DOMAIN s = 1..Len(s)
      /\ \A i \in 1..Len(s) - 1 : t[i] = s[i + 1]
  OBVIOUS
<1> HIDE DEF t, h
<1>2. \A i \in DOMAIN t : i + 1 \in DOMAIN s /\ i + 1 # 1
  BY <1>1
<1>3. \A i \in DOMAIN s : i # 1 => i - 1 \in DOMAIN t /\ t[i - 1] = s[i]
  BY <1>1
<1>4. 1 \in DOMAIN s
  BY <1>1
<1>5. h \in ToSet(s)
  BY <1>1, <1>4 DEF ToSet
<1>6. ASSUME NEW y \in ToSet(t)
      PROVE  y \in ToSet(s) \ {h}
  <2>1. PICK i \in DOMAIN t : y = t[i]
    BY DEF ToSet
  <2>2. y = s[i + 1] /\ i + 1 \in DOMAIN s /\ i + 1 # 1
    BY <1>1, <1>2, <2>1
  <2> QED
    BY <1>1, <1>4, <2>2 DEF ToSet, IsInjective
<1>7. ASSUME NEW y \in ToSet(s) \ {h}
      PROVE  y \in ToSet(t)
  <2>1. PICK i \in DOMAIN s : y = s[i]
    BY DEF ToSet
  <2>2. i # 1
    BY <1>1, <1>7, <2>1
  <2> QED
    BY <1>3, <2>1, <2>2 DEF ToSet
<1>8. IsInjective(t)
  <2> SUFFICES ASSUME NEW i \in DOMAIN t, NEW j \in DOMAIN t, t[i] = t[j]
               PROVE  i = j
    BY DEF IsInjective
  <2>1. i + 1 = j + 1
    BY <1>1, <1>2 DEF IsInjective
  <2> QED
    BY <1>1, <2>1
<1> QED
  BY <1>1, <1>5, <1>6, <1>7, <1>8 DEF t, h

(* list.remove takes out the one element it names.                           *)
LEMMA RemoveFirstSet ==
  ASSUME NEW S, NEW s \in Seq(S), IsInjective(s), NEW x \in ToSet(s)
  PROVE  /\ RemoveFirst(s, x) \in Seq(S)
         /\ Len(RemoveFirst(s, x)) = Len(s) - 1
         /\ ToSet(RemoveFirst(s, x)) = ToSet(s) \ {x}
         /\ IsInjective(RemoveFirst(s, x))
<1> DEFINE I == {i \in 1..Len(s) : s[i] = x}
<1>1. /\ DOMAIN s = 1..Len(s) /\ Len(s) \in Nat
      /\ \A i \in 1..Len(s) : s[i] \in S
  OBVIOUS
<1>2. PICK k \in 1..Len(s) : s[k] = x
  BY <1>1 DEF ToSet
<1>3. I = {k}
  BY <1>1, <1>2 DEF IsInjective
<1>4. Min(I) = k
  BY <1>1, <1>3 DEF Min
<1>5. RemoveFirst(s, x) = RemoveAt(s, k)
  <2>1. SelectInSeq(s, LAMBDA v : v = x) = k
    BY <1>3, <1>4 DEF SelectInSeq
  <2> QED
    BY <1>2, <2>1 DEF RemoveFirst
<1> DEFINE a == SubSeq(s, 1, k - 1)
           b == SubSeq(s, k + 1, Len(s))
           t == a \o b
<1>6. /\ a \in Seq(S) /\ Len(a) = k - 1
      /\ \A i \in 1..k - 1 : a[i] = s[i]
  <2>1. \A i \in 1..k - 1 : s[i] \in S
    BY <1>1
  <2> QED
    BY <1>1, <2>1, SubSeqProperties
<1>7. /\ b \in Seq(S) /\ Len(b) = Len(s) - k
      /\ \A i \in 1..Len(s) - k : b[i] = s[k + i]
  <2> DEFINE m == k + 1
             n == Len(s)
  <2>1. m \in Int /\ n \in Int /\ \A i \in m..n : s[i] \in S
    BY <1>1
  <2>2. b = SubSeq(s, m, n)
    OBVIOUS
  <2> HIDE DEF m, n, b
  <2>3. /\ b \in Seq(S)
        /\ Len(b) = IF m <= n THEN n - m + 1 ELSE 0
        /\ \A i \in 1..n - m + 1 : b[i] = s[m + i - 1]
    BY <2>1, <2>2, SubSeqProperties
  <2>4. n - m + 1 = Len(s) - k
    BY <1>1 DEF m, n
  <2>5. Len(b) = Len(s) - k
    <3>1. CASE m <= n
      BY <2>3, <2>4, <3>1, Zenon
    <3>2. CASE ~(m <= n)
      <4>1. ~(k + 1 <= Len(s))
        BY <3>2, Zenon DEF m, n
      <4>2. Len(s) - k = 0
        <5>1. Len(s) \in Nat /\ k \in Nat /\ k <= Len(s)
          BY <1>1
        <5> HIDE DEF I
        <5> QED
          BY <5>1, <4>1
      <4> QED
        BY <2>3, <3>2, <4>2, Zenon
    <3> QED
      BY <3>1, <3>2
  <2>6. ASSUME NEW i \in 1..Len(s) - k
        PROVE  b[i] = s[k + i]
    <3>1. m + i - 1 = k + i
      BY <1>1 DEF m
    <3>2. b[i] = s[m + i - 1]
      BY <2>3, <2>4
    <3> QED
      BY <3>1, <3>2
  <2> QED
    BY <2>3, <2>5, <2>6
<1> HIDE DEF a, b
<1>8. /\ t \in Seq(S) /\ Len(t) = Len(a) + Len(b)
      /\ \A i \in 1..Len(a) + Len(b) : t[i] = IF i <= Len(a) THEN a[i] ELSE b[i - Len(a)]
  BY <1>6, <1>7, ConcatProperties
<1> HIDE DEF t
<1>9. Len(a) + Len(b) = Len(s) - 1
  BY <1>1, <1>6, <1>7
<1>10. DOMAIN t = 1..Len(s) - 1
  BY <1>8, <1>9
<1> DEFINE old(i) == IF i < k THEN i ELSE i + 1
<1>11. ASSUME NEW i \in 1..Len(s) - 1
       PROVE  old(i) \in 1..Len(s) /\ old(i) # k /\ t[i] = s[old(i)]
  <2>1. CASE i < k
    <3>1. t[i] = a[i] /\ a[i] = s[i]
      BY <1>1, <1>6, <1>8, <1>9, <2>1
    <3> QED
      BY <1>1, <2>1, <3>1
  <2>2. CASE ~(i < k)
    <3>1. t[i] = b[i - (k - 1)]
      BY <1>1, <1>6, <1>8, <1>9, <2>2, SMTT(40)
    <3>2. i - (k - 1) \in 1..Len(s) - k /\ k + (i - (k - 1)) = i + 1
      BY <1>1, <2>2
    <3>3. b[i - (k - 1)] = s[i + 1]
      BY <1>7, <3>2
    <3> QED
      BY <1>1, <2>2, <3>1, <3>3
  <2> QED
    BY <2>1, <2>2
<1>12. ToSet(t) = ToSet(s) \ {x}
  <2>1. ASSUME NEW y \in ToSet(t)
        PROVE  y \in ToSet(s) \ {x}
    <3>1. PICK i \in 1..Len(s) - 1 : y = t[i]
      BY <1>10 DEF ToSet
    <3> QED
      BY <1>1, <1>2, <1>11, <3>1 DEF ToSet, IsInjective
  <2>2. ASSUME NEW y \in ToSet(s) \ {x}
        PROVE  y \in ToSet(t)
    <3>1. PICK j \in 1..Len(s) : y = s[j]
      BY <1>1 DEF ToSet
    <3>2. j # k
      BY <1>2, <2>2, <3>1
    <3> DEFINE i == IF j < k THEN j ELSE j - 1
    <3>3. i \in 1..Len(s) - 1 /\ old(i) = j
      BY <1>1, <3>2
    <3> QED
      BY <1>10, <1>11, <3>1, <3>3 DEF ToSet
  <2> QED
    BY <2>1, <2>2
<1>13. IsInjective(t)
  <2> SUFFICES ASSUME NEW i \in 1..Len(s) - 1, NEW j \in 1..Len(s) - 1, t[i] = t[j]
               PROVE  i = j
    BY <1>10 DEF IsInjective
  <2>1. old(i) = old(j)
    BY <1>1, <1>11 DEF IsInjective
  <2> QED
    BY <1>1, <2>1
<1>14. RemoveFirst(s, x) = t
  BY <1>5 DEF RemoveAt, t, a, b
<1> QED
  BY <1>8, <1>9, <1>12, <1>13, <1>14
=============================================================================
