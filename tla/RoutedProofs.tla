----------------------------- MODULE RoutedProofs -----------------------------
(***************************************************************************)
(* The serving path with the policies that route it (RoutedServing), for   *)
(* any set of requests and nodes, any prompts and any cache answers.       *)
(*                                                                         *)
(* RoutedServing replaces the free choices of Serving (which decode node,  *)
(* which prefill node) by what a policy computes from a snapshot of the    *)
(* cluster.  That it implements Serving needs an invariant: a policy must  *)
(* find numbers where it reads them, so that a least one exists and the    *)
(* node it picks is a node of the cluster.  Every theorem of ServingProofs *)
(* and LedgerProofs then holds for each of the five policies.              *)
(***************************************************************************)
EXTENDS RoutedServing, LedgerProofs

-----------------------------------------------------------------------------
(* The estimate of a node is a number.                                       *)

(* A nonempty set of indices has a largest one, which Max finds.             *)
LEMMA LargestIndex ==
  ASSUME NEW n \in Nat, NEW s \in SUBSET (1..n), s # {}
  PROVE  Max(s) \in s /\ \A x \in s : Max(s) >= x
<1> DEFINE T == {n - x : x \in s}
<1>1. T \in SUBSET Nat /\ T # {}
  <2>1. PICK x \in s : TRUE
    OBVIOUS
  <2>2. n - x \in T
    BY <2>1
  <2>3. \A y \in s : n - y \in Nat
    OBVIOUS
  <2> QED
    BY <2>2, <2>3
<1>2. PICK m \in T : \A y \in T : m <= y
  <2> HIDE DEF T
  <2> QED
    BY <1>1, LeastNatural
<1>3. PICK z \in s : m = n - z
  BY <1>2
<1>4. \A x \in s : z >= x
  <2> SUFFICES ASSUME NEW x \in s
               PROVE  z >= x
    OBVIOUS
  <2>1. n - x \in T
    OBVIOUS
  <2>2. m <= n - x
    BY <1>2, <2>1
  <2>3. x \in 1..n /\ z \in 1..n
    OBVIOUS
  <2> QED
    BY <1>3, <2>2, <2>3
<1> QED
  BY <1>4 DEF Max

(* A list of numbers has a least one.                                        *)
LEMMA LeastOfList ==
  ASSUME NEW n \in Nat \ {0}, NEW k \in [1..n -> Nat]
  PROVE  \E i \in 1..n : \A j \in 1..n : k[i] <= k[j]
<1> DEFINE T == {k[j] : j \in 1..n}
<1>1. T \in SUBSET Nat /\ T # {}
  <2>1. k[1] \in T
    OBVIOUS
  <2> QED
    BY <2>1
<1>2. PICK m \in T : \A y \in T : m <= y
  <2> HIDE DEF T
  <2> QED
    BY <1>1, LeastNatural
<1>3. PICK i \in 1..n : m = k[i]
  BY <1>2
<1>4. \A j \in 1..n : k[j] \in T
  OBVIOUS
<1> HIDE DEF T
<1> QED
  BY <1>2, <1>3, <1>4

(* Of numbers that are bounded below, the listed ones have a first least     *)
(* one.                                                                      *)
LEMMA FirstOfLeast ==
  ASSUME NEW n \in Nat, NEW k \in [1..n -> Int], NEW b \in Int,
         \A i \in 1..n : k[i] >= b, NEW I \in SUBSET (1..n), I # {}
  PROVE  \E i \in I : \A j \in I : k[i] < k[j] \/ (k[i] = k[j] /\ i <= j)
<1> DEFINE T == {k[j] - b : j \in I}
<1>1. T \in SUBSET Nat /\ T # {}
  <2>1. PICK j \in I : TRUE
    OBVIOUS
  <2>2. k[j] - b \in T
    OBVIOUS
  <2>3. \A i \in I : k[i] - b \in Nat
    OBVIOUS
  <2> QED
    BY <2>2, <2>3
<1>2. PICK x \in T : \A y \in T : x <= y
  <2> HIDE DEF T
  <2> QED
    BY <1>1, LeastNatural
<1>3. PICK m \in I : x = k[m] - b
  BY <1>2
<1>4. \A j \in I : k[m] <= k[j]
  <2> SUFFICES ASSUME NEW j \in I
               PROVE  k[m] <= k[j]
    OBVIOUS
  <2>1. k[j] - b \in T
    OBVIOUS
  <2>2. k[m] - b <= k[j] - b
    BY <1>2, <1>3, <2>1
  <2>3. k[m] \in Int /\ k[j] \in Int
    OBVIOUS
  <2> QED
    BY <2>2, <2>3
<1> DEFINE E == {j \in I : k[j] = k[m]}
<1>5. E \in SUBSET Nat /\ E # {}
  <2>1. m \in E
    OBVIOUS
  <2>2. \A j \in I : j \in Nat
    OBVIOUS
  <2> QED
    BY <2>1, <2>2
<1>6. PICK i \in E : \A j \in E : i <= j
  <2> HIDE DEF E
  <2> QED
    BY <1>5, LeastNatural
<1>7. ASSUME NEW j \in I
      PROVE  k[i] < k[j] \/ (k[i] = k[j] /\ i <= j)
  <2>1. CASE k[j] = k[m]
    BY <1>6, <2>1
  <2>2. CASE k[j] # k[m]
    BY <1>4, <1>6, <2>2
  <2> QED
    BY <2>1, <2>2
<1> QED
  BY <1>6, <1>7

(* Every list of numbers is bounded below.                                   *)
LEMMA BoundedBelow ==
  ASSUME NEW n \in Nat, NEW k \in [1..n -> Int]
  PROVE  \E b \in Int : \A i \in 1..n : k[i] >= b
<1> DEFINE G == {m \in Nat : \E b \in Int : \A i \in 1..m : i <= n => k[i] >= b}
<1>1. 0 \in G
  <2>1. \A i \in 1..0 : i <= n => k[i] >= 0
    OBVIOUS
  <2> QED
    BY <2>1
<1>2. ASSUME NEW m \in 1..n, m - 1 \in G
      PROVE  m \in G
  <2>1. PICK b \in Int : \A i \in 1..m - 1 : i <= n => k[i] >= b
    BY <1>2
  <2> DEFINE c == IF k[m] >= b THEN b ELSE k[m]
  <2>2. c \in Int
    OBVIOUS
  <2>3. \A i \in 1..m : i <= n => k[i] >= c
    <3> SUFFICES ASSUME NEW i \in 1..m, i <= n
                 PROVE  k[i] >= c
      OBVIOUS
    <3>1. i = m \/ i \in 1..m - 1
      OBVIOUS
    <3>2. k[i] \in Int /\ k[m] \in Int
      OBVIOUS
    <3> QED
      BY <2>1, <3>1, <3>2
  <2>4. m \in Nat
    OBVIOUS
  <2> HIDE DEF c
  <2> QED
    BY <2>2, <2>3, <2>4
<1>3. \A m \in 0..n : m \in G
  <2> HIDE DEF G
  <2> QED
    BY <1>1, <1>2, InductionUpTo
<1>4. n \in G
  <2> HIDE DEF G
  <2> QED
    BY <1>3
<1> QED
  BY <1>4

(* So min(S, key = ...) finds a node: a first least one exists.             *)
LEMMA FirstLeast ==
  ASSUME NEW n \in Nat, NEW k \in [1..n -> Int], NEW I \in SUBSET (1..n), I # {}
  PROVE  \E i \in I : \A j \in I : k[i] < k[j] \/ (k[i] = k[j] /\ i <= j)
<1>1. PICK b \in Int : \A i \in 1..n : k[i] >= b
  BY BoundedBelow
<1> QED
  BY <1>1, FirstOfLeast

-----------------------------------------------------------------------------
(* queue_wait_time.                                                          *)

(* The parts of QueueWaitTime.                                               *)
Release(N) == [i \in DOMAIN N.running |-> RemainingLifecycle(N, N.running[i])]
EarliestSlot(s) == CHOOSE i \in DOMAIN s : \A j \in DOMAIN s : s[i] <= s[j]
Occupied(N, s, r) == [s EXCEPT ![EarliestSlot(s)] = @ + RemainingLifecycle(N, r)]
IsOccupation(t, N, U) ==
  t = [s \in U |-> IF s = {} THEN Release(N)
                   ELSE Occupied(N, t[s \ {Max(s)}], N.queue[Max(s)])]
SlotsAfter(N) == FoldLeft(LAMBDA s, r : Occupied(N, s, r), Release(N), N.queue)

(* The recursion of its fold defines a function.                             *)
LEMMA OccupationExists ==
  ASSUME NEW N, N.queue \in Seq(Requests)
  PROVE  \E t : /\ IsOccupation(t, N, SUBSET DOMAIN N.queue)
                /\ SlotsAfter(N) = t[DOMAIN N.queue]
<1> DEFINE S == DOMAIN N.queue
           n == Len(N.queue)
           Level(m) == {s \in SUBSET S : \A x \in s : x <= m}
           Good == {m \in Nat : \E t : IsOccupation(t, N, Level(m))}
<1>1. S = 1..n /\ n \in Nat
  OBVIOUS
<1> HIDE DEF S, n
<1>2. 0 \in Good
  <2>1. \A s \in Level(0) : s = {}
    BY <1>1
  <2> DEFINE t == [s \in Level(0) |-> Release(N)]
  <2>2. IsOccupation(t, N, Level(0))
    <3> HIDE DEF Level
    <3> QED
      BY <2>1 DEF IsOccupation
  <2> QED
    BY <2>2
<1>3. ASSUME NEW m \in 1..n, m - 1 \in Good
      PROVE  m \in Good
  <2>1. m \in Nat /\ m # 0
    BY <1>1
  <2>2. PICK t : IsOccupation(t, N, Level(m - 1))
    BY <1>3
  <2> DEFINE g == [s \in Level(m) |-> IF m \in s
                     THEN Occupied(N, t[s \ {Max(s)}], N.queue[Max(s)]) ELSE t[s]]
  <2>3. ASSUME NEW s \in Level(m)
        PROVE  g[s] = IF s = {} THEN Release(N)
                      ELSE Occupied(N, g[s \ {Max(s)}], N.queue[Max(s)])
    <3>1. s \in SUBSET (1..n) /\ \A x \in s : x <= m
      BY <1>1
    <3>2. m \notin s => s \in Level(m - 1)
      BY <1>1, <2>1, <3>1
    <3>3. CASE s = {}
      <4>1. t[s] = Release(N)
        <5> HIDE DEF Level
        <5> QED
          BY <2>2, <3>2, <3>3 DEF IsOccupation
      <4> QED
        BY <3>3, <4>1
    <3>4. CASE s # {}
      <4> DEFINE u == s \ {Max(s)}
      <4>1. Max(s) \in s /\ \A x \in s : Max(s) >= x
        BY <1>1, <3>1, <3>4, LargestIndex
      <4>2. \A x \in u : x \in 1..n /\ x <= m - 1
        <5> SUFFICES ASSUME NEW x \in u
                     PROVE  x \in 1..n /\ x <= m - 1
          OBVIOUS
        <5>1. x \in s /\ x # Max(s) /\ x \in 1..n /\ Max(s) \in 1..n
          BY <3>1, <4>1
        <5>2. x <= Max(s) /\ Max(s) <= m
          BY <3>1, <4>1, <5>1
        <5>3. x \in Nat /\ Max(s) \in Nat
          BY <1>1, <5>1
        <5> HIDE DEF u
        <5> QED
          BY <2>1, <5>1, <5>2, <5>3
      <4>3. u \in Level(m) /\ u \in Level(m - 1) /\ m \notin u
        <5>1. \A x \in u : x \in S /\ x \in Nat /\ x <= m /\ x <= m - 1 /\ x # m
          BY <1>1, <2>1, <4>2
        <5> HIDE DEF u
        <5> QED
          BY <5>1
      <4>4. g[u] = t[u]
        BY <4>3
      <4>5. s \in Level(m - 1) => t[s] = Occupied(N, t[u], N.queue[Max(s)])
        <5> HIDE DEF Level
        <5> QED
          BY <2>2, <3>4 DEF IsOccupation
      <4> HIDE DEF u, Level
      <4> QED
        BY <3>2, <3>4, <4>4, <4>5 DEF u
    <3> QED
      BY <3>3, <3>4
  <2>4. IsOccupation(g, N, Level(m))
    <3> HIDE DEF Level
    <3> DEFINE h == [s \in Level(m) |-> IF s = {} THEN Release(N)
                       ELSE Occupied(N, g[s \ {Max(s)}], N.queue[Max(s)])]
    <3>1. \A s \in Level(m) : g[s] = h[s]
      BY <2>3
    <3> QED
      BY <3>1 DEF IsOccupation
  <2> QED
    BY <2>1, <2>4
<1>4. n \in Good
  <2> HIDE DEF Good
  <2>1. \A m \in 0..n : m \in Good
    BY <1>1, <1>2, <1>3, InductionUpTo
  <2> QED
    BY <1>1, <2>1
<1>5. Level(n) = SUBSET S
  BY <1>1
<1>6. \E t : IsOccupation(t, N, SUBSET S)
  BY <1>4, <1>5
<1> DEFINE c == CHOOSE t : IsOccupation(t, N, SUBSET S)
<1>7. IsOccupation(c, N, SUBSET S)
  BY <1>6
<1>8. SlotsAfter(N) = c[S]
  BY DEF SlotsAfter, FoldLeft, MapThenFoldSet, IsOccupation, S
<1> QED
  BY <1>7, <1>8 DEF S

(* A request whose phase is "prefilling" is in the prefill list.             *)
Phased(N) == \A r \in Requests : N.phase[r] = "prefilling" => r \in Prefilling(N)

(* What a request still needs of its slot is a number.                       *)
LEMMA RemainingIsNumber ==
  ASSUME NEW N, WellFormed(N), Phased(N), NEW r \in Requests
  PROVE  RemainingLifecycle(N, r) \in Nat
<1>1. /\ N.running \in Seq(Requests) /\ N.prefill \in Seq(PrefillEntry)
      /\ N.tokens \in [Requests -> Nat] /\ N.phase \in [Requests -> Phases]
      /\ N.uncached \in [Requests -> Nat]
  BY NodeTypes
<1>2. /\ NodeCapacity \in Nat /\ PrefillCost \in Nat /\ DecodeBase \in Nat
      /\ MarginalDecode \in Nat /\ ExpectedOutput[r] \in Nat
  BY NodeAssumption
<1> DEFINE w == WaitDecodeStep(N)
           x == ExpectedOutput[r] - N.tokens[r]
           y == Max({0, x})
           L == {N.prefill[i].left : i \in {i \in DOMAIN N.prefill : N.prefill[i].req = r}}
           left == CHOOSE l \in L : TRUE
<1>3. w \in Nat
  <2>1. Len(N.running) \in Nat
    BY <1>1
  <2>2. PICK k \in Nat : k = IF N.running = <<>> THEN 1 ELSE Len(N.running)
    BY <2>1
  <2>3. k * MarginalDecode \in Nat
    BY <1>2
  <2> QED
    BY <1>2, <2>2, <2>3 DEF WaitDecodeStep
<1>4. y \in Nat
  <2>1. x \in Int
    BY <1>1, <1>2
  <2> HIDE DEF x
  <2>2. \E m \in {0, x} : \A z \in {0, x} : m >= z
    BY <2>1
  <2>3. y \in {0, x} /\ \A z \in {0, x} : y >= z
    BY <2>2 DEF Max
  <2> QED
    BY <2>1, <2>3
<1>5. y * w \in Nat
  <2> HIDE DEF y, w
  <2> QED
    BY <1>3, <1>4
<1>6. N.phase[r] = "prefilling" => left \in Nat
  <2> SUFFICES ASSUME N.phase[r] = "prefilling"
               PROVE  left \in Nat
    OBVIOUS
  <2>1. r \in Prefilling(N)
    BY DEF Phased
  <2>2. PICK i \in DOMAIN N.prefill : N.prefill[i].req = r
    BY <2>1 DEF Prefilling
  <2>3. N.prefill[i].left \in L
    BY <2>2
  <2>4. left \in L
    BY <2>3
  <2>5. \A j \in DOMAIN N.prefill : N.prefill[j] \in PrefillEntry
    BY <1>1
  <2>6. L \in SUBSET Nat
    BY <2>5 DEF PrefillEntry
  <2> HIDE DEF left, L
  <2> QED
    BY <2>4, <2>6
<1>7. N.phase[r] = "prefilling" => left * PrefillCost + y * w \in Nat
  <2> HIDE DEF left, y, w
  <2> SUFFICES ASSUME N.phase[r] = "prefilling"
               PROVE  left * PrefillCost + y * w \in Nat
    OBVIOUS
  <2>1. left * PrefillCost \in Nat
    BY <1>2, <1>6
  <2> QED
    BY <1>5, <2>1
<1>8. N.uncached[r] * PrefillCost + y * w \in Nat
  <2>1. N.uncached[r] \in Nat
    BY <1>1
  <2>2. N.uncached[r] * PrefillCost \in Nat
    BY <1>2, <2>1
  <2> HIDE DEF y, w
  <2> QED
    BY <1>5, <2>2
<1>9. RemainingLifecycle(N, r) =
        CASE N.phase[r] = "prefill_done" -> 0
          [] N.phase[r] = "decoding" -> y * w
          [] N.phase[r] = "prefilling" -> left * PrefillCost + y * w
          [] OTHER -> N.uncached[r] * PrefillCost + y * w
  BY DEF RemainingLifecycle
<1> HIDE DEF left, y, w
<1> QED
  BY <1>5, <1>7, <1>8, <1>9

(* The slots are numbers after each of the queued requests.                  *)
LEMMA SlotsAreNumbers ==
  ASSUME NEW N, WellFormed(N), Phased(N), Len(N.running) # 0,
         NEW t, IsOccupation(t, N, SUBSET DOMAIN N.queue)
  PROVE  t[DOMAIN N.queue] \in [DOMAIN N.running -> Nat]
<1> DEFINE S == DOMAIN N.queue
           D == DOMAIN N.running
           n == Len(N.queue)
           G == {m \in Nat : \A s \in SUBSET S : (\A x \in s : x <= m) => t[s] \in [D -> Nat]}
<1>1. N.running \in Seq(Requests) /\ N.queue \in Seq(Requests)
  BY NodeTypes
<1>2. /\ S = 1..n /\ n \in Nat /\ \A i \in S : N.queue[i] \in Requests
      /\ D = 1..Len(N.running) /\ Len(N.running) \in Nat \ {0}
      /\ \A i \in D : N.running[i] \in Requests
  BY <1>1
<1>3. Release(N) \in [D -> Nat]
  <2>1. \A i \in D : RemainingLifecycle(N, N.running[i]) \in Nat
    BY <1>2, RemainingIsNumber
  <2> QED
    BY <2>1 DEF Release
<1>4. ASSUME NEW f \in [D -> Nat], NEW r \in Requests
      PROVE  Occupied(N, f, r) \in [D -> Nat]
  <2>1. \E i \in D : \A j \in D : f[i] <= f[j]
    BY <1>2, LeastOfList
  <2>2. EarliestSlot(f) \in D
    BY <2>1 DEF EarliestSlot
  <2>3. RemainingLifecycle(N, r) \in Nat
    BY RemainingIsNumber
  <2>4. f[EarliestSlot(f)] + RemainingLifecycle(N, r) \in Nat
    BY <2>2, <2>3
  <2> QED
    BY <2>2, <2>4 DEF Occupied
<1> HIDE DEF S, D, n
<1>5. 0 \in G
  <2> SUFFICES ASSUME NEW s \in SUBSET S, \A x \in s : x <= 0
               PROVE  t[s] \in [D -> Nat]
    OBVIOUS
  <2>1. s = {}
    BY <1>2
  <2> QED
    BY <1>3, <2>1 DEF IsOccupation, S
<1>6. ASSUME NEW m \in 1..n, m - 1 \in G
      PROVE  m \in G
  <2>1. m \in Nat
    BY <1>2
  <2> SUFFICES ASSUME NEW s \in SUBSET S, \A x \in s : x <= m
               PROVE  t[s] \in [D -> Nat]
    BY <2>1
  <2>2. CASE s = {}
    BY <1>3, <2>2 DEF IsOccupation, S
  <2>3. CASE s # {}
    <3>1. Max(s) \in s /\ \A x \in s : Max(s) >= x
      BY <1>2, <2>3, LargestIndex
    <3>2. PICK u : u = s \ {Max(s)}
      OBVIOUS
    <3>3. ASSUME NEW x \in u
          PROVE  x <= m - 1
      <4>1. x \in Nat /\ Max(s) \in Nat /\ x # Max(s) /\ x <= Max(s) /\ Max(s) <= m
        <5>1. x \in s /\ x # Max(s) /\ s \subseteq 1..n
          BY <1>2, <3>2
        <5>2. x \in 1..n /\ Max(s) \in 1..n
          BY <3>1, <5>1
        <5>3. x <= Max(s) /\ Max(s) <= m
          BY <3>1, <5>1
        <5> QED
          BY <1>2, <5>1, <5>2, <5>3
      <4> QED
        BY <2>1, <4>1
    <3>4. u \in SUBSET S
      BY <3>2
    <3>5. t[u] \in [D -> Nat]
      BY <1>6, <3>3, <3>4
    <3>6. N.queue[Max(s)] \in Requests
      BY <1>2, <3>1
    <3>7. t[s] = Occupied(N, t[u], N.queue[Max(s)])
      BY <2>3, <3>2 DEF IsOccupation, S
    <3> QED
      BY <1>4, <3>5, <3>6, <3>7
  <2> QED
    BY <2>2, <2>3
<1>7. n \in G
  <2> HIDE DEF G
  <2>1. \A m \in 0..n : m \in G
    BY <1>2, <1>5, <1>6, InductionUpTo
  <2> QED
    BY <1>2, <2>1
<1> QED
  BY <1>2, <1>7 DEF S, D, n

(* The estimate of a node is a number.                                       *)
LEMMA WaitIsNumber ==
  ASSUME NEW N, WellFormed(N), Phased(N)
  PROVE  QueueWaitTime(N) \in Nat
<1>1. QueueWaitTime(N) = IF HasRoom(N) THEN 0 ELSE SlotsAfter(N)[EarliestSlot(SlotsAfter(N))]
  BY DEF QueueWaitTime, SlotsAfter, EarliestSlot, Occupied, Release
<1>2. CASE HasRoom(N)
  BY <1>1, <1>2
<1>3. CASE ~HasRoom(N)
  <2>1. N.running \in Seq(Requests) /\ N.queue \in Seq(Requests)
    BY NodeTypes
  <2>2. Len(N.running) \in Nat \ {0} /\ DOMAIN N.running = 1..Len(N.running)
    BY <1>3, <2>1, NodeAssumption DEF HasRoom
  <2>3. PICK t : /\ IsOccupation(t, N, SUBSET DOMAIN N.queue)
                 /\ SlotsAfter(N) = t[DOMAIN N.queue]
    BY <2>1, OccupationExists
  <2>4. PICK f : f = SlotsAfter(N)
    OBVIOUS
  <2>5. f \in [1..Len(N.running) -> Nat]
    BY <2>2, <2>3, <2>4, SlotsAreNumbers
  <2>6. \E i \in 1..Len(N.running) : \A j \in 1..Len(N.running) : f[i] <= f[j]
    BY <2>2, <2>5, LeastOfList
  <2>7. EarliestSlot(f) \in 1..Len(N.running)
    BY <2>5, <2>6 DEF EarliestSlot
  <2> QED
    BY <1>1, <1>3, <2>4, <2>5, <2>7
<1> QED
  BY <1>2, <1>3

-----------------------------------------------------------------------------
(* min(pool, key = (key, node_id)).                                          *)

(* The listed nodes of S, when the pool lists each of them.                  *)
Listed(pool, S) == {i \in DOMAIN pool : pool[i] \in S}

(* There is one, for each node of S.                                         *)
LEMMA ListedFacts ==
  ASSUME NEW P, NEW pool \in Seq(P), ToSet(pool) = P, NEW S \in SUBSET P, S # {}
  PROVE  /\ Listed(pool, S) \in SUBSET (1..Len(pool)) /\ Listed(pool, S) # {}
         /\ Len(pool) \in Nat /\ \A i \in Listed(pool, S) : pool[i] \in S
         /\ \A i \in 1..Len(pool) : pool[i] \in P
         /\ \A n \in S : \E i \in Listed(pool, S) : pool[i] = n
<1>1. DOMAIN pool = 1..Len(pool) /\ Len(pool) \in Nat /\ \A i \in 1..Len(pool) : pool[i] \in P
  OBVIOUS
<1>2. \A n \in S : \E i \in DOMAIN pool : pool[i] = n
  BY DEF ToSet
<1>3. \A n \in S : \E i \in Listed(pool, S) : pool[i] = n
  BY <1>2 DEF Listed
<1> QED
  BY <1>1, <1>3 DEF Listed

(* The least loaded node of S.                                               *)
LEMMA LeastLoadedFacts ==
  ASSUME NEW P \in SUBSET Nodes, NEW pool \in Seq(P), ToSet(pool) = P,
         NEW S \in SUBSET P, S # {}, \A n \in P : WellFormed(nodes[n])
  PROVE  /\ LeastLoaded(pool, S) \in S
         /\ \A n \in S : Len(nodes[LeastLoaded(pool, S)].running) <= Len(nodes[n].running)
<1> DEFINE k == [i \in 1..Len(pool) |-> Len(nodes[pool[i]].running)]
           Q(i) == \A j \in Listed(pool, S) :
                     \/ Len(nodes[pool[i]].running) < Len(nodes[pool[j]].running)
                     \/ Len(nodes[pool[i]].running) = Len(nodes[pool[j]].running) /\ i <= j
           c == CHOOSE i \in Listed(pool, S) : Q(i)
<1>1. /\ Listed(pool, S) \in SUBSET (1..Len(pool)) /\ Listed(pool, S) # {}
      /\ Len(pool) \in Nat /\ \A i \in Listed(pool, S) : pool[i] \in S
      /\ \A i \in 1..Len(pool) : pool[i] \in P
      /\ \A n \in S : \E i \in Listed(pool, S) : pool[i] = n
  BY ListedFacts, ZenonT(40)
<1>2. \A i \in 1..Len(pool) : Len(nodes[pool[i]].running) \in Nat
  BY <1>1, NodeTypes
<1>3. k \in [1..Len(pool) -> Int]
  BY <1>2
<1>4. PICK i \in Listed(pool, S) :
        \A j \in Listed(pool, S) : k[i] < k[j] \/ (k[i] = k[j] /\ i <= j)
  <2> HIDE DEF k
  <2> QED
    BY <1>1, <1>3, FirstLeast
<1>5. Q(i)
  BY <1>1, <1>4
<1>6. c \in Listed(pool, S) /\ Q(c)
  <2> HIDE DEF Q
  <2> QED
    BY <1>5
<1>7. LeastLoaded(pool, S) = pool[c]
  BY DEF LeastLoaded, FirstMin, Listed
<1>8. \A j \in Listed(pool, S) : Len(nodes[pool[c]].running) <= Len(nodes[pool[j]].running)
  <2> SUFFICES ASSUME NEW j \in Listed(pool, S)
               PROVE  Len(nodes[pool[c]].running) <= Len(nodes[pool[j]].running)
    OBVIOUS
  <2>1. \/ Len(nodes[pool[c]].running) < Len(nodes[pool[j]].running)
        \/ Len(nodes[pool[c]].running) = Len(nodes[pool[j]].running)
    BY <1>6
  <2>2. Len(nodes[pool[c]].running) \in Nat /\ Len(nodes[pool[j]].running) \in Nat
    <3> HIDE DEF c, Q
    <3> QED
      BY <1>1, <1>2, <1>6
  <2> HIDE DEF c, Q
  <2> QED
    BY <2>1, <2>2
<1> HIDE DEF c, Q
<1> QED
  BY <1>1, <1>6, <1>7, <1>8

(* A list that names every node of a pool and is as long as the pool is      *)
(* large names each once.                                                    *)
LEMMA PoolList ==
  ASSUME NEW S, S # {}, NEW pool \in Seq(S), ToSet(pool) = S, Len(pool) = Cardinality(S)
  PROVE  pool # <<>> /\ Len(pool) \in Nat \ {0} /\ IsInjective(pool)
<1>1. DOMAIN pool = 1..Len(pool) /\ Len(pool) \in Nat /\ pool \in [1..Len(pool) -> S]
  OBVIOUS
<1>2. pool # <<>>
  BY DEF ToSet
<1>3. \A y \in S : \E x \in 1..Len(pool) : pool[x] = y
  BY <1>1 DEF ToSet
<1>4. pool \in Surjection(1..Len(pool), S)
  BY <1>1, <1>3 DEF Surjection
<1>5. IsFiniteSet(1..Len(pool)) /\ Cardinality(1..Len(pool)) = Len(pool)
  <2>1. 1 \in Int /\ Len(pool) \in Int
    OBVIOUS
  <2> QED
    BY <1>1, FS_Interval
<1>6. pool \in Injection(1..Len(pool), S)
  BY <1>4, <1>5, FS_Surjection
<1>7. IsInjective(pool)
  BY <1>1, <1>6 DEF Injection, IsInjective
<1> QED
  BY <1>1, <1>2, <1>7

(* The pools as lists.                                                       *)
LEMMA Pools ==
  /\ PrefillOrder \in Seq(PrefillNodes) /\ PrefillOrder # <<>>
  /\ ToSet(PrefillOrder) = PrefillNodes /\ Len(PrefillOrder) = Cardinality(PrefillNodes)
  /\ Len(PrefillOrder) \in Nat \ {0} /\ IsInjective(PrefillOrder)
  /\ DecodeOrder \in Seq(DecodeNodes) /\ DecodeOrder # <<>>
  /\ ToSet(DecodeOrder) = DecodeNodes /\ Len(DecodeOrder) = Cardinality(DecodeNodes)
  /\ Len(DecodeOrder) \in Nat \ {0} /\ IsInjective(DecodeOrder)
<1>1. /\ PrefillNodes # {} /\ DecodeNodes # {}
      /\ PrefillOrder \in Seq(PrefillNodes) /\ DecodeOrder \in Seq(DecodeNodes)
      /\ ToSet(PrefillOrder) = PrefillNodes /\ Len(PrefillOrder) = Cardinality(PrefillNodes)
      /\ ToSet(DecodeOrder) = DecodeNodes /\ Len(DecodeOrder) = Cardinality(DecodeNodes)
  BY PolicyAssumption
<1> QED
  BY <1>1, PoolList

(* The weights and the costs are numbers.                                    *)
LEMMA Numbers ==
  /\ {PromptLen, BlockSize} \subseteq Nat \ {0}
  /\ {MinHitPercent, Alpha, Beta, Gamma, WHistorical, WEviction, WRun, SloTtft, SloTbt} \subseteq Nat
  /\ {NodeCapacity, ChunkSize, PrefillCost, DecodeBase, MarginalDecode} \subseteq Nat \ {0}
  /\ TransferCost \in Nat
BY PolicyAssumption, NodeAssumption, Constants

(* What a lookup answers.                                                    *)
Hit(hit) == hit.matched \in 0..PromptLen /\ hit.cost \in Nat /\ hit.free \in Nat

(* Every answer is a hit, and leaves one of the uncached token counts.       *)
LEMMA LookupFacts ==
  ASSUME NEW l \in Lookups
  PROVE  /\ \A d \in DecodeNodes : Hit(l[d]) /\ PromptLen - l[d].matched \in Uncached
         /\ \A hit \in Answers : Hit(hit)
<1>1. PromptLen \div BlockSize \in Nat /\ PromptLen \in Nat
  BY Numbers
<1>2. Hit(Cold)
  BY <1>1 DEF Hit, Cold
<1>3. \A hit \in Answers : Hit(hit)
  BY AnswerAssumption DEF Hit
<1>4. \A d \in DecodeNodes : l[d] \in Answers \cup {Cold}
  BY DEF Lookups
<1>5. \A a \in Answers \cup {Cold} : PromptLen - a.matched \in Uncached
  BY AnswerAssumption
<1> QED
  BY <1>2, <1>3, <1>4, <1>5

(* What the policies read of the cluster: well-formed nodes, whose phases    *)
(* agree with their prefill lists, and lanes.                                *)
Readable ==
  /\ \A n \in Nodes : WellFormed(nodes[n]) /\ Phased(nodes[n])
  /\ egressAvailableAt \in [Nodes -> Nat] /\ ingressAvailableAt \in [Nodes -> Nat]

(* The estimates are numbers.                                                *)
LEMMA EstimateParts ==
  ASSUME NEW u \in Nat, NEW b \in Nat
  PROVE  EstimatePrefillTime(u, b) \in Int /\ EstimateDecodeTime(b) \in Int
<1>1. ChunkSize \in Nat \ {0} /\ PrefillCost \in Nat /\ DecodeBase \in Nat /\ MarginalDecode \in Nat
  BY Numbers
<1>2. (u + ChunkSize - 1) \div ChunkSize \in Int
  BY <1>1
<1>3. ChunkSize * PrefillCost \in Int /\ b * MarginalDecode \in Int
  BY <1>1
<1>4. ChunkSize * PrefillCost + DecodeBase + b * MarginalDecode \in Int
  BY <1>1, <1>3
<1>5. PICK x \in Int : x = (u + ChunkSize - 1) \div ChunkSize
  BY <1>2
<1>6. PICK y \in Int : y = ChunkSize * PrefillCost + DecodeBase + b * MarginalDecode
  BY <1>4
<1>7. x * y \in Int
  OBVIOUS
<1>8. EstimateDecodeTime(b) \in Int
  BY <1>1, <1>3 DEF EstimateDecodeTime
<1> QED
  BY <1>5, <1>6, <1>7, <1>8 DEF EstimatePrefillTime

(* So is the time to the first token.                                        *)
LEMMA EstimateIsNumber ==
  ASSUME Readable, NEW p \in PrefillNodes, NEW d \in DecodeNodes, NEW hit, Hit(hit), NEW t \in Nat
  PROVE  EstTtft(p, d, hit, t) \in Int
<1>1. p \in Nodes /\ d \in Nodes
  BY Constants
<1>2. QueueWaitTime(nodes[p]) \in Nat
  BY <1>1, WaitIsNumber DEF Readable
<1>3. /\ IsFiniteSet(nodes[p].decoding) /\ IsFiniteSet(nodes[d].decoding)
  BY <1>1, NodeTypes, FS_Subset, Constants DEF Readable
<1>4. PICK bp \in Nat : bp = Cardinality(nodes[p].decoding) + 1
  BY <1>3, FS_CardinalityType
<1>5. PICK bd \in Nat : bd = Cardinality(nodes[d].decoding) + 1
  BY <1>3, FS_CardinalityType
<1>6. LaneWait(p, d, t) \in Int
  BY <1>1 DEF LaneWait, Later, Readable
<1>7. PICK u \in Nat : u = PromptLen - hit.matched
  BY Numbers DEF Hit
<1>8. EstimatePrefillTime(u, bp) \in Int /\ EstimateDecodeTime(bd) \in Int
  BY EstimateParts
<1>9. TransferCost \in Nat
  BY Numbers
<1> QED
  BY <1>2, <1>4, <1>5, <1>6, <1>7, <1>8, <1>9 DEF EstTtft, Hit

(* The node at the cursor.                                                   *)
LEMMA AtCursorFacts ==
  ASSUME NEW S, NEW pool \in Seq(S), pool # <<>>, NEW c \in Nat
  PROVE  AtCursor(pool, c) \in S
<1>1. Len(pool) \in Nat \ {0} /\ DOMAIN pool = 1..Len(pool)
  OBVIOUS
<1>2. (c % Len(pool)) + 1 \in 1..Len(pool)
  <2>1. c % Len(pool) \in 0..Len(pool) - 1
    BY <1>1
  <2> QED
    BY <1>1, <2>1
<1> QED
  BY <1>1, <1>2 DEF AtCursor

(* PrefixGreedy takes a best hit, the least loaded of those, or when no hit  *)
(* is good enough the least loaded node.                                     *)
LEMMA GreedyFacts ==
  ASSUME Readable, NEW l \in Lookups, NEW c, c = GreedyDecode(l)
  PROVE  /\ c \in DecodeNodes
         /\ \/ \A d \in DecodeNodes : /\ 100 * l[d].matched < MinHitPercent * PromptLen
                                      /\ Len(nodes[c].running) <= Len(nodes[d].running)
            \/ \A d \in DecodeNodes : /\ l[d].matched <= l[c].matched
                                      /\ l[d].matched = l[c].matched =>
                                           Len(nodes[c].running) <= Len(nodes[d].running)
<1> DEFINE A == {l[d].matched : d \in DecodeNodes}
           best == Max(A)
<1>1. \A d \in DecodeNodes : l[d].matched \in 0..PromptLen
  BY LookupFacts DEF Hit
<1>2. PICK n \in Nat : n = PromptLen + 1
  BY Numbers
<1>3. PICK B : B = {x + 1 : x \in A}
  OBVIOUS
<1>4. PICK e \in DecodeNodes : TRUE
  BY PolicyAssumption
<1>5. /\ DecodeOrder \in Seq(DecodeNodes) /\ ToSet(DecodeOrder) = DecodeNodes
      /\ DecodeNodes \in SUBSET Nodes /\ DecodeNodes # {}
      /\ \A d \in DecodeNodes : WellFormed(nodes[d])
  BY Pools, Constants, PolicyAssumption DEF Readable
<1>6. best \in A /\ \A x \in A : best >= x
  <2>1. PromptLen \in Nat
    BY Numbers
  <2>2. B \in SUBSET (1..n) /\ B # {}
    BY <1>1, <1>2, <1>3, <1>4, <2>1
  <2>3. Max(B) \in B /\ \A x \in B : Max(B) >= x
    BY <2>2, LargestIndex
  <2>4. PICK m \in A : Max(B) = m + 1
    BY <1>3, <2>3
  <2>5. \A x \in A : m >= x
    <3> SUFFICES ASSUME NEW x \in A
                 PROVE  m >= x
      OBVIOUS
    <3>1. x + 1 \in B
      BY <1>3
    <3>2. m + 1 >= x + 1
      BY <2>3, <2>4, <3>1
    <3>3. m \in Int /\ x \in Int
      BY <1>1, <2>1
    <3> QED
      BY <3>2, <3>3
  <2> HIDE DEF A
  <2> QED
    BY <2>5 DEF Max
<1>7. {d \in DecodeNodes : l[d].matched = best} # {}
  BY <1>6
<1>8. \A d \in DecodeNodes : l[d].matched \in Nat /\ l[d].matched <= best /\ best \in Nat
  <2>1. \A x \in A : x \in Nat
    BY <1>1, Numbers
  <2>2. \A d \in DecodeNodes : l[d].matched \in A
    OBVIOUS
  <2> HIDE DEF A, best
  <2> QED
    BY <1>6, <2>1, <2>2
<1>9. CASE 100 * best < MinHitPercent * PromptLen
  <2>1. c = LeastLoaded(DecodeOrder, DecodeNodes)
    BY <1>9 DEF GreedyDecode
  <2>2. c \in DecodeNodes /\ \A d \in DecodeNodes : Len(nodes[c].running) <= Len(nodes[d].running)
    BY <1>5, <2>1, LeastLoadedFacts
  <2>3. ASSUME NEW d \in DecodeNodes
        PROVE  100 * l[d].matched < MinHitPercent * PromptLen
    <3>1. PICK x \in Nat, y \in Nat, z \in Nat :
            x = l[d].matched /\ y = best /\ z = MinHitPercent * PromptLen
      <4>1. MinHitPercent * PromptLen \in Nat
        BY Numbers
      <4> QED
        BY <1>8, <4>1
    <3>2. x <= y /\ 100 * y < z
      BY <1>8, <1>9, <3>1
    <3>3. 100 * x < z
      BY <3>2
    <3> QED
      BY <3>1, <3>3
  <2> QED
    BY <2>2, <2>3
<1>10. CASE ~(100 * best < MinHitPercent * PromptLen)
  <2> DEFINE S == {d \in DecodeNodes : l[d].matched = best}
  <2>1. S \in SUBSET DecodeNodes /\ S # {}
    BY <1>7
  <2>2. c = LeastLoaded(DecodeOrder, S)
    BY <1>10 DEF GreedyDecode
  <2>3. c \in S /\ \A d \in S : Len(nodes[c].running) <= Len(nodes[d].running)
    <3> HIDE DEF S
    <3> QED
      BY <1>5, <2>1, <2>2, LeastLoadedFacts
  <2>4. c \in DecodeNodes /\ l[c].matched = best
    BY <2>3
  <2>5. \A d \in DecodeNodes : l[d].matched = best => d \in S
    OBVIOUS
  <2> HIDE DEF S, A, best
  <2> QED
    BY <1>8, <2>3, <2>4, <2>5
<1> QED
  BY <1>9, <1>10

(* The scores of E2, part by part.                                           *)
NewBlocks(l, d) == Later(0, PromptLen \div BlockSize - l[d].matched \div BlockSize)
Shortage(l, d) == Later(0, NewBlocks(l, d) - l[d].free)
E2Score(p, l, t, d) ==
  WHistorical * Len(nodes[d].running) * PromptLen * PrefillCost
    + NodeCapacity * (WEviction * Shortage(l, d) * BlockSize * PrefillCost
                       + WRun * EstTtft(p, d, l[d], t))

(* E2 takes a node with the least score.                                     *)
LEMMA E2Facts ==
  ASSUME Readable, NEW p \in PrefillNodes, NEW l \in Lookups, NEW t \in Nat
  PROVE  /\ E2Decode(p, l, t) \in DecodeNodes
         /\ \A d \in DecodeNodes : E2Score(p, l, t, E2Decode(p, l, t)) <= E2Score(p, l, t, d)
<1> DEFINE score(d) == E2Score(p, l, t, d)
           n == Len(DecodeOrder)
           k == [i \in 1..n |-> score(DecodeOrder[i])]
           I == Listed(DecodeOrder, DecodeNodes)
           Q(i) == \A j \in I : \/ score(DecodeOrder[i]) < score(DecodeOrder[j])
                                \/ score(DecodeOrder[i]) = score(DecodeOrder[j]) /\ i <= j
           c == CHOOSE i \in I : Q(i)
<1>1. /\ I \in SUBSET (1..n) /\ I # {} /\ n \in Nat /\ \A i \in 1..n : DecodeOrder[i] \in DecodeNodes
  BY Pools, ListedFacts, PolicyAssumption
<1>2. ASSUME NEW d \in DecodeNodes
      PROVE  score(d) \in Int
  <2>1. /\ Hit(l[d]) /\ d \in Nodes
    BY LookupFacts, Constants
  <2>2. EstTtft(p, d, l[d], t) \in Int
    BY <2>1, EstimateIsNumber
  <2>3. Len(nodes[d].running) \in Nat
    BY <2>1, NodeTypes DEF Readable
  <2>4. /\ PromptLen \in Nat /\ BlockSize \in Nat \ {0} /\ WHistorical \in Nat /\ WEviction \in Nat
        /\ WRun \in Nat /\ NodeCapacity \in Nat /\ PrefillCost \in Nat
    BY Numbers
  <2>5. Shortage(l, d) \in Int
    <3>1. PICK x \in Int : x = PromptLen \div BlockSize
      BY <2>4
    <3>2. PICK y \in Int : y = l[d].matched \div BlockSize
      BY <2>1, <2>4 DEF Hit
    <3>3. NewBlocks(l, d) \in Int
      BY <3>1, <3>2 DEF NewBlocks, Later
    <3>4. l[d].free \in Int
      BY <2>1 DEF Hit
    <3> QED
      BY <3>3, <3>4 DEF Shortage, Later
  <2>6. PICK a \in Int : a = WHistorical * Len(nodes[d].running)
    BY <2>3, <2>4
  <2>7. PICK b \in Int : b = a * PromptLen
    BY <2>4
  <2>8. PICK e \in Int : e = b * PrefillCost
    BY <2>4
  <2>9. PICK f \in Int : f = WEviction * Shortage(l, d)
    BY <2>4, <2>5
  <2>10. PICK g \in Int : g = f * BlockSize
    BY <2>4
  <2>11. PICK h \in Int : h = g * PrefillCost
    BY <2>4
  <2>12. PICK u \in Int : u = WRun * EstTtft(p, d, l[d], t)
    BY <2>2, <2>4
  <2>13. PICK v \in Int : v = NodeCapacity * (h + u)
    BY <2>4
  <2> QED
    BY <2>6, <2>7, <2>8, <2>9, <2>10, <2>11, <2>12, <2>13, SMTT(40) DEF E2Score
<1>3. k \in [1..n -> Int]
  <2> HIDE DEF score, n
  <2> QED
    BY <1>1, <1>2
<1>4. PICK i \in I : \A j \in I : k[i] < k[j] \/ (k[i] = k[j] /\ i <= j)
  <2> HIDE DEF k, n, I
  <2> QED
    BY <1>1, <1>3, FirstLeast
<1>5. Q(i)
  <2> HIDE DEF score, n, I
  <2> QED
    BY <1>1, <1>4
<1>6. c \in I /\ Q(c)
  <2> HIDE DEF Q
  <2> QED
    BY <1>5
<1>7. E2Decode(p, l, t) = DecodeOrder[c]
  BY DEF E2Decode, FirstMin, Listed, E2Score, Shortage, NewBlocks
<1>8. ASSUME NEW d \in DecodeNodes
      PROVE  score(DecodeOrder[c]) <= score(d)
  <2>1. PICK j \in I : DecodeOrder[j] = d
    BY <1>8, Pools, ListedFacts, PolicyAssumption
  <2>2. score(DecodeOrder[c]) < score(d) \/ score(DecodeOrder[c]) = score(d)
    <3> HIDE DEF score, c, I
    <3> QED
      BY <1>6, <2>1
  <2>3. score(DecodeOrder[c]) \in Int /\ score(d) \in Int
    <3> HIDE DEF score, c, I, n
    <3> QED
      BY <1>1, <1>2, <1>6
  <2> HIDE DEF score, c
  <2> QED
    BY <2>2, <2>3
<1> HIDE DEF c, n, I, Q
<1> QED
  BY <1>1, <1>6, <1>7, <1>8

(* The scores of the Conductor.                                              *)
LoadScore(d) ==
  Len(nodes[d].running) * PromptLen * PrefillCost + NodeCapacity * QueueWaitTime(nodes[d])
ConductorScore(l, d) ==
  NodeCapacity * (Alpha * l[d].matched * PrefillCost - Gamma * l[d].cost) - Beta * LoadScore(d)

(* The Conductor takes a node with the highest score.                        *)
LEMMA ConductorFacts ==
  ASSUME Readable, NEW l \in Lookups
  PROVE  /\ ConductorDecode(l) \in DecodeNodes
         /\ \A d \in DecodeNodes : ConductorScore(l, d) <= ConductorScore(l, ConductorDecode(l))
<1> DEFINE score(d) == ConductorScore(l, d)
           n == Len(DecodeOrder)
           k == [i \in 1..n |-> -score(DecodeOrder[i])]
           I == Listed(DecodeOrder, DecodeNodes)
           Q(i) == \A j \in I : \/ -score(DecodeOrder[i]) < -score(DecodeOrder[j])
                                \/ -score(DecodeOrder[i]) = -score(DecodeOrder[j]) /\ i <= j
           c == CHOOSE i \in I : Q(i)
<1>1. /\ I \in SUBSET (1..n) /\ I # {} /\ n \in Nat /\ \A i \in 1..n : DecodeOrder[i] \in DecodeNodes
  BY Pools, ListedFacts, PolicyAssumption
<1>2. ASSUME NEW d \in DecodeNodes
      PROVE  score(d) \in Int
  <2>1. /\ Hit(l[d]) /\ d \in Nodes
    BY LookupFacts, Constants
  <2>2. QueueWaitTime(nodes[d]) \in Nat
    BY <2>1, WaitIsNumber DEF Readable
  <2>3. Len(nodes[d].running) \in Nat
    BY <2>1, NodeTypes DEF Readable
  <2>4. /\ PromptLen \in Nat /\ Alpha \in Nat /\ Beta \in Nat
        /\ Gamma \in Nat /\ NodeCapacity \in Nat /\ PrefillCost \in Nat
    BY Numbers
  <2>5. l[d].matched \in Int /\ l[d].cost \in Int
    BY <2>1, <2>4 DEF Hit
  <2>6. PICK a \in Int : a = Len(nodes[d].running) * PromptLen
    BY <2>3, <2>4
  <2>7. PICK b \in Int : b = a * PrefillCost
    BY <2>4
  <2>8. PICK e \in Int : e = NodeCapacity * QueueWaitTime(nodes[d])
    BY <2>2, <2>4
  <2>9. PICK f \in Int : f = Alpha * l[d].matched
    BY <2>4, <2>5
  <2>10. PICK g \in Int : g = f * PrefillCost
    BY <2>4
  <2>11. PICK h \in Int : h = Gamma * l[d].cost
    BY <2>4, <2>5
  <2>12. PICK u \in Int : u = NodeCapacity * (g - h)
    BY <2>4
  <2>13. PICK v \in Int : v = Beta * (b + e)
    BY <2>4
  <2> QED
    BY <2>6, <2>7, <2>8, <2>9, <2>10, <2>11, <2>12, <2>13 DEF ConductorScore, LoadScore
<1>3. k \in [1..n -> Int]
  <2>1. \A i \in 1..n : -score(DecodeOrder[i]) \in Int
    <3> HIDE DEF score, n
    <3> QED
      BY <1>1, <1>2
  <2> HIDE DEF score, n
  <2> QED
    BY <2>1
<1>4. PICK i \in I : \A j \in I : k[i] < k[j] \/ (k[i] = k[j] /\ i <= j)
  <2> HIDE DEF k, n, I
  <2> QED
    BY <1>1, <1>3, FirstLeast
<1>5. Q(i)
  <2> HIDE DEF score, n, I
  <2> QED
    BY <1>1, <1>4
<1>6. c \in I /\ Q(c)
  <2> HIDE DEF Q
  <2> QED
    BY <1>5
<1>7. ConductorDecode(l) = DecodeOrder[c]
  BY DEF ConductorDecode, FirstMin, Listed, ConductorScore, LoadScore
<1>8. ASSUME NEW d \in DecodeNodes
      PROVE  score(d) <= score(DecodeOrder[c])
  <2>1. PICK j \in I : DecodeOrder[j] = d
    BY <1>8, Pools, ListedFacts, PolicyAssumption
  <2>2. -score(DecodeOrder[c]) < -score(d) \/ -score(DecodeOrder[c]) = -score(d)
    <3> HIDE DEF score, c, I
    <3> QED
      BY <1>6, <2>1
  <2>3. score(DecodeOrder[c]) \in Int /\ score(d) \in Int
    <3> HIDE DEF score, c, I, n
    <3> QED
      BY <1>1, <1>2, <1>6
  <2> HIDE DEF score, c
  <2> QED
    BY <2>2, <2>3
<1> HIDE DEF c, n, I, Q
<1> QED
  BY <1>1, <1>6, <1>7, <1>8

(* Whatever the policy and the state, the nodes are of the right pools.      *)
LEMMA ChoiceFacts ==
  ASSUME Readable, policy \in Names, cursors \in [prefill : Nat, decode : Nat],
         NEW l \in Lookups, NEW t \in Nat
  PROVE  ChosenPrefill \in PrefillNodes /\ ChosenDecode(l, t) \in DecodeNodes
<1>1. /\ PrefillOrder \in Seq(PrefillNodes) /\ ToSet(PrefillOrder) = PrefillNodes
      /\ PrefillNodes \in SUBSET Nodes /\ PrefillNodes # {} /\ PrefillOrder # <<>>
      /\ DecodeOrder \in Seq(DecodeNodes) /\ ToSet(DecodeOrder) = DecodeNodes
      /\ DecodeNodes \in SUBSET Nodes /\ DecodeNodes # {} /\ DecodeOrder # <<>>
      /\ \A d \in Nodes : WellFormed(nodes[d])
  BY Pools, Constants, PolicyAssumption DEF Readable
<1>2. cursors.prefill \in Nat /\ cursors.decode \in Nat
  OBVIOUS
<1>3. ChosenPrefill \in PrefillNodes
  <2>1. AtCursor(PrefillOrder, cursors.prefill) \in PrefillNodes
    BY <1>1, <1>2, AtCursorFacts
  <2>2. LeastLoaded(PrefillOrder, PrefillNodes) \in PrefillNodes
    BY <1>1, LeastLoadedFacts
  <2> QED
    BY <2>1, <2>2 DEF ChosenPrefill
<1>4. AtCursor(DecodeOrder, cursors.decode) \in DecodeNodes
  BY <1>1, <1>2, AtCursorFacts
<1>5. LeastLoaded(DecodeOrder, DecodeNodes) \in DecodeNodes
  BY <1>1, LeastLoadedFacts
<1>6. /\ GreedyDecode(l) \in DecodeNodes /\ ConductorDecode(l) \in DecodeNodes
      /\ E2Decode(ChosenPrefill, l, t) \in DecodeNodes
  BY <1>3, GreedyFacts, ConductorFacts, E2Facts
<1> QED
  BY <1>3, <1>4, <1>5, <1>6 DEF ChosenDecode, Names

(* The node operations other than enter_prefill leave no request in phase    *)
(* "prefilling" that is not in the prefill list.                             *)
LEMMA PhasedOperations ==
  ASSUME NEW N, WellFormed(N), Phased(N), NEW r \in Requests, NEW u \in Nat
  PROVE  /\ Phased(Admit(N, r, u)) /\ Phased(StartDecode(N, r))
         /\ Phased(MarkPrefillDone(N, r)) /\ Phased(InitPromoted(N, r, u))
         /\ Phased(Woken(N)) /\ Phased(Cleared(N))
<1>1. N.phase \in [Requests -> Phases]
  BY NodeTypes
<1>2. N \in NodeValue
  BY DEF WellFormed
<1> DEFINE Kept(P) == /\ P.prefill = N.prefill
                      /\ \A q \in Requests : P.phase[q] = N.phase[q] \/ P.phase[q] # "prefilling"
<1>3. \A P : Kept(P) => Phased(P)
  BY DEF Phased, Prefilling
<1>4. Kept(Admit(N, r, u))
  BY <1>1, <1>2 DEF Admit, NodeValue
<1>5. Kept(StartDecode(N, r))
  BY <1>1, <1>2 DEF StartDecode, NodeValue
<1>6. Kept(MarkPrefillDone(N, r))
  BY <1>1, <1>2 DEF MarkPrefillDone, NodeValue
<1>7. Kept(InitPromoted(N, r, u))
  BY <1>1, <1>2 DEF InitPromoted, NodeValue
<1>8. Kept(Woken(N)) /\ Kept(Cleared(N))
  BY <1>1, <1>2 DEF Woken, Cleared, NodeValue
<1> HIDE DEF Kept
<1> QED
  BY <1>3, <1>4, <1>5, <1>6, <1>7, <1>8

(* enter_prefill puts the request in the list as it sets its phase.          *)
LEMMA PhasedEnter ==
  ASSUME NEW N, WellFormed(N), Phased(N), NEW r \in Running(N),
         r \notin Prefilling(N) \cup N.decoding, NEW u \in Nat \ {0}
  PROVE  Phased(EnterPrefill(N, r, u))
<1> DEFINE P == EnterPrefill(N, r, u)
<1>1. N.phase \in [Requests -> Phases]
  BY NodeTypes
<1>2. N \in NodeValue
  BY DEF WellFormed
<1>3. \A q \in Requests : q # r => P.phase[q] = N.phase[q]
  BY <1>1, <1>2 DEF EnterPrefill, NodeValue
<1>4. Prefilling(P) = Prefilling(N) \cup {r}
  BY EnterPrefillFacts
<1> HIDE DEF P
<1> QED
  BY <1>3, <1>4 DEF Phased, P

(* complete takes its request out, and what it promotes is only admitted.    *)
LEMMA PhasedComplete ==
  ASSUME NEW N, WellFormed(N), Phased(N), NEW r \in Running(N),
         r \notin Prefilling(N) \cup N.decoding
  PROVE  Phased(Complete(N, r))
<1> DEFINE P == Complete(N, r)
           rest == RemoveFirst(N.running, r)
           left == RemoveFirstMatch(N.prefill, LAMBDA e : e.req = r)
           h == Head(N.queue)
<1>1. N.phase \in [Requests -> Phases] /\ N.queue \in Seq(Requests)
  BY NodeTypes
<1>2. N \in NodeValue
  BY DEF WellFormed
<1>3. P.prefill = N.prefill
  BY CompleteFacts
<1> DEFINE gone == [N EXCEPT !.running = rest,
                        !.tokens[r] = 0, !.phase[r] = "none", !.uncached[r] = 0,
                        !.decoding = @ \ {r}, !.prefill = left]
<1>4. P = IF N.queue = <<>> THEN gone
          ELSE [gone EXCEPT !.running = Append(rest, h), !.queue = Tail(@), !.phase[h] = "admitted"]
  BY Zenon DEF Complete
<1>5. gone.phase = [N.phase EXCEPT ![r] = "none"] /\ DOMAIN gone = DOMAIN N
  BY <1>2 DEF NodeValue
<1>6. "phase" \in DOMAIN gone
  BY <1>2, <1>5 DEF NodeValue
<1> HIDE DEF gone, P, rest, left, h
<1>7. P.phase = IF N.queue = <<>> THEN gone.phase ELSE [gone.phase EXCEPT ![h] = "admitted"]
  BY <1>4, <1>6
<1>8. \A q \in Requests : P.phase[q] = N.phase[q] \/ P.phase[q] # "prefilling"
  BY <1>1, <1>5, <1>7
<1> QED
  BY <1>3, <1>8 DEF Phased, P, Prefilling

(* A step marks the request whose last chunk it was done.                    *)
LEMMA PhasedTick ==
  ASSUME NEW N, WellFormed(N), Phased(N)
  PROVE  Phased(TickBatchStep(N))
<1> DEFINE toks == [r \in Requests |-> IF r \in N.decoding THEN N.tokens[r] + 1 ELSE N.tokens[r]]
           ticked == [N EXCEPT !.tokens = toks, !.decoding = N.decoding \ DecodeFinished(N)]
           left == Head(N.prefill).left - Chunk(N)
           first == Head(N.prefill).req
           A == TickBatchStep(N)
<1>1. /\ N.prefill \in Seq(PrefillEntry) /\ N.phase \in [Requests -> Phases]
  BY NodeTypes
<1>2. N \in NodeValue
  BY DEF WellFormed
<1>3. Prefilling(A) = Prefilling(N) \ PrefillFinished(N)
  BY TickFacts
<1>4. /\ ticked.phase = N.phase /\ ticked.uncached = N.uncached /\ ticked.prefill = N.prefill
      /\ DOMAIN ticked = DOMAIN N
  BY <1>2 DEF NodeValue
<1>5. A = IF N.prefill = <<>> THEN ticked
          ELSE IF left = 0
               THEN MarkPrefillDone([ticked EXCEPT !.prefill = Tail(@)], first)
          ELSE [ticked EXCEPT !.prefill[1].left = left]
  BY Zenon DEF TickBatchStep
<1>6. {"phase", "uncached", "prefill"} \subseteq DOMAIN ticked
  BY <1>2, <1>4 DEF NodeValue
<1>7. N.prefill # <<>> /\ left # 0 => PrefillFinished(N) = {}
  <2> SUFFICES ASSUME N.prefill # <<>>, left # 0
               PROVE  PrefillFinished(N) = {}
    OBVIOUS
  <2>1. Head(N.prefill) \in PrefillEntry
    BY <1>1
  <2>2. Head(N.prefill).left \in Nat /\ ChunkSize \in Nat
    BY <2>1, NodeAssumption DEF PrefillEntry
  <2>3. ~(Head(N.prefill).left <= ChunkSize)
    <3> DEFINE l == Head(N.prefill).left
    <3>1. Chunk(N) = IF l < ChunkSize THEN l ELSE ChunkSize
      BY Zenon DEF Chunk
    <3> HIDE DEF l
    <3>2. l <= ChunkSize => l - Chunk(N) = 0
      BY <2>2, <3>1 DEF l
    <3> QED
      BY <3>2 DEF l
  <2> QED
    BY <2>3 DEF PrefillFinished
<1>8. PrefillFinished(N) \subseteq {first} /\ (N.prefill = <<>> => PrefillFinished(N) = {})
  BY DEF PrefillFinished
<1>9. \A q \in Requests :
        /\ A.phase[q] = N.phase[q] \/ A.phase[q] # "prefilling"
        /\ q \in PrefillFinished(N) => A.phase[q] # "prefilling"
  <2>1. CASE N.prefill = <<>>
    <3> HIDE DEF ticked, A
    <3> QED
      BY <1>4, <1>5, <1>8, <2>1
  <2>2. CASE N.prefill # <<>> /\ left = 0
    <3> DEFINE T == [ticked EXCEPT !.prefill = Tail(N.prefill)]
    <3> HIDE DEF ticked, A, left, first
    <3>1. T.phase = N.phase /\ DOMAIN T = DOMAIN ticked
      BY <1>4, <1>6
    <3>2. A = MarkPrefillDone(T, first)
      BY <1>4, <1>5, <1>6, <2>2
    <3> HIDE DEF T
    <3>3. A.phase = [N.phase EXCEPT ![first] = "prefill_done"]
      BY <1>6, <3>1, <3>2 DEF MarkPrefillDone
    <3> QED
      BY <1>1, <1>8, <3>3
  <2>3. CASE N.prefill # <<>> /\ left # 0
    <3> HIDE DEF ticked, A, left, first
    <3>1. A.phase = N.phase
      BY <1>4, <1>5, <1>6, <2>3
    <3> QED
      BY <1>7, <2>3, <3>1
  <2> QED
    BY <2>1, <2>2, <2>3
<1> HIDE DEF A
<1> QED
  BY <1>3, <1>9 DEF Phased, A

(* The phases of all nodes agree with their prefill lists.                   *)
PhasesAgree == \A n \in Nodes : Phased(nodes[n])

(* A handler that changes one node keeps the phases of the others.           *)
LEMMA OneNodePhases ==
  ASSUME Typed, PhasesAgree, NEW n \in Nodes, NEW A, Phased(A),
         nodes' = [nodes EXCEPT ![n] = A]
  PROVE  PhasesAgree'
BY DEF Typed, PhasesAgree

(* Phases and prefill lists agree after every step.                          *)
LEMMA NextPhases == Inv /\ PhasesAgree /\ [Next]_vars => PhasesAgree'
<1> SUFFICES ASSUME Inv, PhasesAgree, [Next]_vars
             PROVE  PhasesAgree'
  OBVIOUS
<1>0. Typed /\ Apart(events, Clash)
  BY DEF Inv
<1>1. CASE UNCHANGED nodes
  BY <1>1 DEF PhasesAgree
<1>2. ASSUME NEW p \in PrefillNodes, NEW d \in DecodeNodes, ArriveRouted(p, d)
      PROVE  PhasesAgree'
  <2>1. Pop("REQUEST_ARRIVE") /\ "REQUEST_ARRIVE" \in Carriers
    BY <1>2 DEF ArriveRouted, Carriers
  <2>2. PICK r \in Requests : r = Req
    BY <2>1, HeadAt
  <2>3. PICK u \in Uncached : nodes' = [nodes EXCEPT ![p] = Admit(nodes[p], r, u)]
    BY <1>2, <2>2 DEF ArriveRouted
  <2>4. WellFormed(nodes[p]) /\ Phased(nodes[p]) /\ p \in Nodes /\ u \in Nat
    BY <1>0, Constants DEF Typed, PhasesAgree
  <2>5. Phased(Admit(nodes[p], r, u))
    BY <2>4, PhasedOperations
  <2> QED
    BY <1>0, <2>3, <2>4, <2>5, OneNodePhases
<1>3. CASE PrefillStartCached \/ PrefillStartChunked
  <2>1. Pop("PREFILL_START") /\ "PREFILL_START" \in Carriers
    BY <1>3 DEF PrefillStartCached, PrefillStartChunked, Carriers
  <2>2. PICK r \in Requests : r = Req /\ At(r, "starting")
    BY <2>1, HeadAt
  <2>3. PICK p : p = Node
    OBVIOUS
  <2>4. p = decisions[r].prefill /\ p \in Nodes
    <3>1. Fits(Head(events)) /\ Head(events).type = "PREFILL_START"
      BY <1>0, <2>1, HeadAt, HeadIsAlone
    <3>2. p = decisions[r].prefill
      BY <2>2, <2>3, <3>1 DEF Fits, Req, Node
    <3>3. r \in Decided
      BY <2>2 DEF At, Booked, Outside
    <3> QED
      BY <1>0, <3>2, <3>3, Constants DEF Typed
  <2>5. /\ WellFormed(nodes[p]) /\ Phased(nodes[p]) /\ r \in Running(nodes[p])
        /\ r \notin Prefilling(nodes[p]) \cup nodes[p].decoding
    BY <1>0, <2>2, <2>4 DEF Typed, PhasesAgree, At, Placed
  <2>6. CASE PrefillStartCached
    <3>1. nodes' = [nodes EXCEPT ![p] = MarkPrefillDone(nodes[p], r)]
      BY <2>2, <2>3, <2>6 DEF PrefillStartCached
    <3>2. Phased(MarkPrefillDone(nodes[p], r))
      BY <2>5, PhasedOperations
    <3> QED
      BY <1>0, <2>4, <3>1, <3>2, OneNodePhases
  <2>7. CASE PrefillStartChunked
    <3>1. PICK u \in Uncached \ {0} :
            nodes' = [nodes EXCEPT ![p] = Woken(EnterPrefill(nodes[p], r, u))]
      BY <2>2, <2>3, <2>7 DEF PrefillStartChunked
    <3>2. u \in Nat \ {0}
      BY Constants
    <3>3. /\ WellFormed(EnterPrefill(nodes[p], r, u))
          /\ Phased(EnterPrefill(nodes[p], r, u))
      BY <2>5, <3>2, EnterPrefillFacts, PhasedEnter
    <3>4. Phased(Woken(EnterPrefill(nodes[p], r, u)))
      BY <3>2, <3>3, PhasedOperations
    <3> QED
      BY <1>0, <2>4, <3>1, <3>4, OneNodePhases
  <2> QED
    BY <1>3, <2>6, <2>7
<1>4. CASE PrefillComplete
  <2>1. Pop("PREFILL_COMPLETE") /\ "PREFILL_COMPLETE" \in Carriers
    BY <1>4 DEF PrefillComplete, Carriers
  <2>2. PICK r \in Requests : r = Req /\ At(r, "prefilled")
    BY <2>1, HeadAt
  <2>3. PICK p : p = Node
    OBVIOUS
  <2>4. p = decisions[r].prefill /\ p \in Nodes
    <3>1. Fits(Head(events)) /\ Head(events).type = "PREFILL_COMPLETE"
      BY <1>0, <2>1, HeadAt, HeadIsAlone
    <3>2. p = decisions[r].prefill
      BY <2>2, <2>3, <3>1 DEF Fits, Req, Node
    <3>3. r \in Decided
      BY <2>2 DEF At, Booked, Outside
    <3> QED
      BY <1>0, <3>2, <3>3, Constants DEF Typed
  <2>5. /\ WellFormed(nodes[p]) /\ Phased(nodes[p]) /\ r \in Running(nodes[p])
        /\ r \notin Prefilling(nodes[p]) \cup nodes[p].decoding
    BY <1>0, <2>2, <2>4 DEF Typed, PhasesAgree, At, Placed
  <2>6. PICK u \in Uncached :
          nodes' = [nodes EXCEPT ![p] = IF Promoted(nodes[p]) = {} THEN Complete(nodes[p], r)
                      ELSE InitPromoted(Complete(nodes[p], r), Head(nodes[p].queue), u)]
    BY <1>4, <2>2, <2>3 DEF PrefillComplete
  <2>7. WellFormed(Complete(nodes[p], r)) /\ Phased(Complete(nodes[p], r))
    BY <2>5, CompleteFacts, PhasedComplete
  <2>8. CASE Promoted(nodes[p]) = {}
    BY <1>0, <2>4, <2>6, <2>7, <2>8, OneNodePhases
  <2>9. CASE Promoted(nodes[p]) # {}
    <3>1. nodes[p].queue # <<>> /\ nodes[p].queue \in Seq(Requests)
      BY <2>5, <2>9, NodeTypes DEF Promoted
    <3>2. Head(nodes[p].queue) \in Requests /\ u \in Nat
      BY <3>1, Constants
    <3>3. Phased(InitPromoted(Complete(nodes[p], r), Head(nodes[p].queue), u))
      BY <2>7, <3>2, PhasedOperations
    <3> QED
      BY <1>0, <2>4, <2>6, <2>9, <3>3, OneNodePhases
  <2> QED
    BY <2>8, <2>9
<1>5. CASE TransferAdmitted
  <2>1. Pop("KV_TRANSFER_COMPLETE") /\ "KV_TRANSFER_COMPLETE" \in Carriers
    BY <1>5 DEF TransferAdmitted, Carriers
  <2>2. PICK r \in Requests : r = Req /\ At(r, "transfer")
    BY <2>1, HeadAt
  <2>3. PICK d : d = decisions[r].decode
    OBVIOUS
  <2>4. d \in Nodes
    <3>1. r \in Decided
      BY <2>2 DEF At, Booked, Outside
    <3> QED
      BY <1>0, <2>3, <3>1, Constants DEF Typed
  <2>5. PICK C, B : C = Admit(nodes[d], r, 0) /\ B = StartDecode(C, r)
    OBVIOUS
  <2>6. nodes' = [nodes EXCEPT ![d] = Woken(B)] /\ HasRoom(nodes[d])
    BY <1>5, <2>2, <2>3, <2>5 DEF TransferAdmitted
  <2>7. /\ WellFormed(nodes[d]) /\ Phased(nodes[d])
        /\ r \notin Running(nodes[d]) \cup Waiting(nodes[d]) /\ r \notin Prefilling(nodes[d])
    BY <1>0, <2>2, <2>4 DEF Typed, PhasesAgree, At, Placed
  <2>8. /\ WellFormed(C) /\ r \in Running(C) /\ C.prefill = nodes[d].prefill /\ Phased(C)
    BY <2>5, <2>6, <2>7, AdmitFacts, PhasedOperations
  <2>9. r \notin Prefilling(C)
    BY <2>7, <2>8 DEF Prefilling
  <2>10. WellFormed(B) /\ Phased(B)
    BY <2>5, <2>8, <2>9, StartDecodeFacts, PhasedOperations
  <2>11. Phased(Woken(B))
    BY <2>10, PhasedOperations
  <2> QED
    BY <1>0, <2>4, <2>6, <2>11, OneNodePhases
<1>6. CASE BatchStep
  <2>1. Pop("DECODE_BATCH_STEP")
    BY <1>6 DEF BatchStep
  <2>2. PICK n : n = Node
    OBVIOUS
  <2>3. n \in Nodes
    <3>1. Head(events) \in Queued /\ Head(events).type = "DECODE_BATCH_STEP"
      BY <1>0, <2>1, HeadIsAlone
    <3>2. Fits(Head(events))
      BY <3>1 DEF Inv
    <3> QED
      BY <2>2, <3>1, <3>2 DEF Fits, Node
  <2>4. PICK W, T : W = Cleared(nodes[n]) /\ T = TickBatchStep(W)
    OBVIOUS
  <2>5. nodes' = [nodes EXCEPT ![n] = Woken(T)]
    BY <1>6, <2>2, <2>4 DEF BatchStep, Cleared
  <2>6. WellFormed(nodes[n]) /\ Phased(nodes[n])
    BY <1>0, <2>3 DEF Typed, PhasesAgree
  <2>7. PICK r \in Requests : TRUE
    BY Constants
  <2>8. WellFormed(W) /\ Phased(W)
    BY <2>4, <2>6, <2>7, ClearedFacts, PhasedOperations
  <2>9. WellFormed(T) /\ Phased(T)
    BY <2>4, <2>8, TickFacts, PhasedTick
  <2>10. Phased(Woken(T))
    BY <2>7, <2>9, PhasedOperations
  <2> QED
    BY <1>0, <2>3, <2>5, <2>10, OneNodePhases
<1>7. CASE DecodeComplete
  <2>1. Pop("DECODE_COMPLETE") /\ "DECODE_COMPLETE" \in Carriers
    BY <1>7 DEF DecodeComplete, Carriers
  <2>2. PICK r \in Requests : r = Req /\ At(r, "decoded")
    BY <2>1, HeadAt
  <2>3. PICK d : d = Node
    OBVIOUS
  <2>4. d = decisions[r].decode /\ d \in Nodes
    <3>1. Fits(Head(events)) /\ Head(events).type = "DECODE_COMPLETE"
      BY <1>0, <2>1, HeadAt, HeadIsAlone
    <3>2. d = decisions[r].decode
      BY <2>2, <2>3, <3>1 DEF Fits, Req, Node
    <3>3. r \in Decided
      BY <2>2 DEF At, Booked, Outside
    <3> QED
      BY <1>0, <3>2, <3>3, Constants DEF Typed
  <2>5. /\ WellFormed(nodes[d]) /\ Phased(nodes[d]) /\ r \in Running(nodes[d])
        /\ r \notin Prefilling(nodes[d]) \cup nodes[d].decoding
    BY <1>0, <2>2, <2>4 DEF Typed, PhasesAgree, At, Placed
  <2>6. nodes' = [nodes EXCEPT ![d] = Woken(Complete(nodes[d], r))]
    BY <1>7, <2>2, <2>3 DEF DecodeComplete
  <2>7. WellFormed(Complete(nodes[d], r)) /\ Phased(Complete(nodes[d], r))
    BY <2>5, CompleteFacts, PhasedComplete
  <2>8. Phased(Woken(Complete(nodes[d], r)))
    BY <2>7, PhasedOperations, 0 \in Nat
  <2> QED
    BY <1>0, <2>4, <2>6, <2>8, OneNodePhases
<1> QED
  BY <1>1, <1>2, <1>3, <1>4, <1>5, <1>6, <1>7
     DEF Next, vars, ArriveRejected, Scheduled, Rejected, TransferStarts, TransferRejected,
         TokenGenerated

(* No request has a phase at the start.                                      *)
LEMMA InitPhases == Init => PhasesAgree
BY DEF Init, PhasesAgree, Phased, EmptyNode

(* The steps that are no arrival.                                            *)
Onward ==
  \/ Scheduled \/ Rejected
  \/ PrefillStartCached \/ PrefillStartChunked \/ PrefillComplete
  \/ TransferStarts \/ TransferRejected \/ TransferAdmitted
  \/ BatchStep \/ TokenGenerated \/ DecodeComplete

(* They put nobody into a queue, decide nothing and count no arrival.        *)
LEMMA OnwardFacts ==
  ASSUME Inv, metrics \in Collected, Onward
  PROVE  /\ \A n \in Nodes : Len(nodes'[n].queue) <= Len(nodes[n].queue)
         /\ \A r \in Requests : decisions'[r] = decisions[r] \/ decisions'[r] = NoDecision
         /\ metrics'.arrived = metrics.arrived
<1>0. /\ DOMAIN nodes = Nodes /\ DOMAIN decisions = Requests
      /\ \A n \in Nodes : WellFormed(nodes[n])
  BY DEF Inv, Typed
<1>1. \A n \in Nodes : nodes[n].queue \in Seq(Requests) /\ Len(nodes[n].queue) \in Nat
  BY <1>0, NodeTypes
<1>2. ASSUME NEW n \in Nodes, NEW A, nodes' = [nodes EXCEPT ![n] = A],
             \/ A.queue = nodes[n].queue
             \/ nodes[n].queue # <<>> /\ A.queue = Tail(nodes[n].queue)
      PROVE  \A k \in Nodes : Len(nodes'[k].queue) <= Len(nodes[k].queue)
  <2>1. nodes[n].queue # <<>> => Len(Tail(nodes[n].queue)) <= Len(nodes[n].queue)
    BY <1>1
  <2>0. Len(nodes[n].queue) \in Nat /\ Len(nodes[n].queue) <= Len(nodes[n].queue)
    BY <1>1
  <2>2. Len(A.queue) <= Len(nodes[n].queue)
    BY <1>2, <2>0, <2>1, Zenon
  <2>3. \A k \in Nodes : nodes'[k] = IF k = n THEN A ELSE nodes[k]
    BY <1>0, <1>2
  <2>4. \A k \in Nodes : Len(nodes[k].queue) <= Len(nodes[k].queue)
    BY <1>1
  <2> QED
    BY <2>2, <2>3, <2>4
<1>3. PICK m : m = metrics
  OBVIOUS
<1>4. PICK t : t = now'
  OBVIOUS
<1>5. CASE Scheduled \/ TransferStarts \/ TokenGenerated \/ Rejected
  <2>1. UNCHANGED <<nodes, decisions>>
    BY <1>5 DEF Scheduled, TransferStarts, TokenGenerated, Rejected
  <2>2. metrics'.arrived = m.arrived
    <3>1. CASE Scheduled
      BY <1>3, <3>1 DEF Scheduled
    <3>2. CASE TransferStarts
      <4>1. Pop("KV_TRANSFER_START") /\ metrics' = M!CountTransferStart(m, Req)
        BY <1>3, <3>2 DEF TransferStarts
      <4>2. Req \in Requests
        BY <4>1, PopEffect DEF Fits, Req
      <4> QED
        BY <1>3, <4>1, <4>2, CountTransferStartFacts DEF SameCounts
    <3>3. CASE TokenGenerated
      <4>0. PICK s : s = Head(events).step
        OBVIOUS
      <4>1. Pop("TOKEN_GENERATED") /\ metrics' = M!CountToken(m, Req, s, t)
        BY <1>3, <1>4, <3>3, <4>0 DEF TokenGenerated
      <4>2. Req \in Requests /\ s \in Nat /\ t \in Nat
        BY <1>4, <4>0, <4>1, PopEffect DEF Fits, Req, Event
      <4> QED
        BY <1>3, <4>1, <4>2, CountTokenFacts DEF SameCounts
    <3>4. CASE Rejected
      <4>1. Pop("REQUEST_REJECTED") /\ metrics' = M!CountRejected(m, Req)
        BY <1>3, <3>4 DEF Rejected
      <4>2. Req \in Requests
        BY <4>1, PopEffect DEF Fits, Req
      <4> QED
        BY <1>3, <4>1, <4>2, CountRejectedFacts
    <3> QED
      BY <1>5, <3>1, <3>2, <3>3, <3>4
  <2> QED
    BY <1>1, <1>3, <2>1, <2>2
<1>6. CASE PrefillStartCached \/ PrefillStartChunked
  <2>1. /\ Req \in Requests /\ Node \in Nodes
        /\ metrics' = M!CountPrefillStart(m, Req) /\ UNCHANGED decisions
        /\ \E A : nodes' = [nodes EXCEPT ![Node] = A] /\ A.queue = nodes[Node].queue
    BY <1>3, <1>6, PrefillStartEffect, Constants DEF SameSlots
  <2>2. metrics'.arrived = m.arrived
    BY <1>3, <2>1, CountPrefillStartFacts DEF SameCounts
  <2> QED
    BY <1>2, <1>3, <2>1, <2>2
<1>7. CASE PrefillComplete
  <2>1. /\ Req \in Requests /\ Node \in Nodes
        /\ metrics' = M!CountPrefillComplete(m, Req) /\ UNCHANGED decisions
        /\ \E A : /\ nodes' = [nodes EXCEPT ![Node] = A]
                  /\ \/ A.queue = nodes[Node].queue
                     \/ nodes[Node].queue # <<>> /\ A.queue = Tail(nodes[Node].queue)
    BY <1>3, <1>7, PrefillCompleteEffect, Constants
  <2>2. metrics'.arrived = m.arrived
    BY <1>3, <2>1, CountPrefillCompleteFacts DEF SameCounts
  <2> QED
    BY <1>2, <1>3, <2>1, <2>2
<1>8. CASE TransferRejected
  <2>1. /\ Req \in Requests /\ metrics' = M!CountTransferComplete(m, Req)
        /\ decisions' = [decisions EXCEPT ![Req] = NoDecision] /\ UNCHANGED nodes
    BY <1>3, <1>8, TransferRejectedEffect
  <2>2. metrics'.arrived = m.arrived
    BY <1>3, <2>1, CountTransferCompleteFacts DEF SameCounts
  <2> QED
    BY <1>0, <1>1, <1>3, <2>1, <2>2
<1>9. CASE TransferAdmitted
  <2>1. /\ Req \in Requests /\ metrics' = M!CountTransferComplete(m, Req) /\ UNCHANGED decisions
        /\ \E d \in Nodes : \E A :
             nodes' = [nodes EXCEPT ![d] = A] /\ A.queue = nodes[d].queue
    BY <1>3, <1>9, TransferAdmittedEffect, Constants
  <2>2. metrics'.arrived = m.arrived
    BY <1>3, <2>1, CountTransferCompleteFacts DEF SameCounts
  <2> QED
    BY <1>2, <1>3, <2>1, <2>2
<1>10. CASE BatchStep
  <2>1. /\ Node \in Nodes /\ UNCHANGED decisions
        /\ metrics' = M!CountBatchStep(m, Cardinality(nodes[Node].decoding))
        /\ \E A : nodes' = [nodes EXCEPT ![Node] = A] /\ A.queue = nodes[Node].queue
    BY <1>3, <1>10, BatchStepEffect DEF SameSlots
  <2>2. Cardinality(nodes[Node].decoding) \in Nat
    BY <1>0, <2>1, NodeTypes, FS_Subset, FS_CardinalityType, Constants
  <2>3. metrics'.arrived = m.arrived
    BY <1>3, <2>1, <2>2, CountBatchStepFacts DEF SameCounts
  <2> QED
    BY <1>2, <1>3, <2>1, <2>3
<1>11. CASE DecodeComplete
  <2>1. /\ Req \in Requests /\ Node \in Nodes
        /\ metrics' = M!CountDecodeComplete(m, Req, t)
        /\ decisions' = [decisions EXCEPT ![Req] = NoDecision]
        /\ \E A : nodes' = [nodes EXCEPT ![Node] = A] /\ A.queue = nodes[Node].queue
    BY <1>3, <1>4, <1>11, DecodeCompleteEffect, Constants
  <2>2. t \in Nat
    BY <1>4, <1>11, DecodeCompleteEffect, PopEffect
  <2>3. metrics'.arrived = m.arrived
    BY <1>3, <2>1, <2>2, CountDecodeCompleteFacts
  <2> QED
    BY <1>0, <1>2, <1>3, <2>1, <2>3
<1> QED
  BY <1>5, <1>6, <1>7, <1>8, <1>9, <1>10, <1>11 DEF Onward

-----------------------------------------------------------------------------
(* Serving under the policies is serving.                                    *)

(* The cluster is consistent, and so is what the policies keep.              *)
RoutedInv ==
  /\ Inv /\ PhasesAgree
  /\ policy \in Names /\ cursors \in [prefill : Nat, decode : Nat]

(* The policies can read a consistent cluster.                               *)
LEMMA RoutedReadable == RoutedInv => Readable
BY DEF RoutedInv, Inv, Typed, Readable, PhasesAgree

(* An arrival that is routed takes nodes of the right pools.                 *)
LEMMA RouteFacts ==
  ASSUME RoutedInv, Route
  PROVE  \E l \in Lookups, p \in PrefillNodes, d \in DecodeNodes, t \in Nat :
           /\ t = Head(events).time /\ p = ChosenPrefill /\ d = ChosenDecode(l, t)
           /\ ArriveRouted(p, d)
           /\ cursors' = IF policy = "round_robin" THEN Cursors(p) ELSE cursors
<1>1. Pop("REQUEST_ARRIVE")
  BY DEF Route
<1>2. Head(events).time \in Nat
  BY <1>1, PopEffect DEF RoutedInv
<1>3. PICK t \in Nat : t = Head(events).time
  BY <1>2
<1>4. PICK l \in Lookups :
        /\ ArriveRouted(ChosenPrefill, ChosenDecode(l, t))
        /\ cursors' = IF policy = "round_robin" THEN Cursors(ChosenPrefill) ELSE cursors
  BY <1>3 DEF Route
<1>5. ChosenPrefill \in PrefillNodes /\ ChosenDecode(l, t) \in DecodeNodes
  BY RoutedReadable, ChoiceFacts DEF RoutedInv
<1> QED
  BY <1>3, <1>4, <1>5

(* Each step is one of Serving.                                              *)
LEMMA RoutedIsNext == RoutedInv /\ [RoutedNext]_routedVars => [Next]_vars
<1> SUFFICES ASSUME RoutedInv, [RoutedNext]_routedVars
             PROVE  [Next]_vars
  OBVIOUS
<1>1. CASE Route
  <2>1. PICK p \in PrefillNodes, d \in DecodeNodes : ArriveRouted(p, d)
    BY <1>1, RouteFacts
  <2> QED
    BY <2>1 DEF Next
<1>2. CASE RouteRejected
  BY <1>2 DEF RouteRejected, Next
<1>3. CASE PrefillStart
  BY <1>3 DEF PrefillStart, Next
<1>4. CASE Materialize
  BY <1>4 DEF Materialize, Next
<1>5. CASE Others
  BY <1>5 DEF Others, Next
<1>6. CASE UNCHANGED routedVars
  BY <1>6 DEF routedVars
<1> QED
  BY <1>1, <1>2, <1>3, <1>4, <1>5, <1>6 DEF RoutedNext

(* What the policies keep stays of its type.                                 *)
LEMMA RoutedNextInv == RoutedInv /\ [RoutedNext]_routedVars => RoutedInv'
<1> SUFFICES ASSUME RoutedInv, [RoutedNext]_routedVars
             PROVE  RoutedInv'
  OBVIOUS
<1>1. Inv' /\ PhasesAgree'
  BY RoutedIsNext, NextInv, NextPhases DEF RoutedInv
<1>2. policy' = policy
  BY DEF RoutedNext, Route, RouteRejected, PrefillStart, Materialize, Others, routedVars
<1>3. \A p : Cursors(p) \in [prefill : Nat, decode : Nat]
  BY DEF RoutedInv, Cursors
<1>4. cursors' = cursors \/ \E p : cursors' = Cursors(p)
  BY DEF RoutedNext, Route, RouteRejected, PrefillStart, Materialize, Others, routedVars
<1>5. cursors' \in [prefill : Nat, decode : Nat]
  BY <1>3, <1>4 DEF RoutedInv
<1> QED
  BY <1>1, <1>2, <1>5 DEF RoutedInv

(* The policies start with nothing.                                          *)
LEMMA RoutedInitInv == RoutedInit => RoutedInv
<1>1. RoutedInit => Inv /\ PhasesAgree
  BY InitInv, InitPhases DEF RoutedInit
<1>2. RoutedInit => policy \in Names /\ cursors \in [prefill : Nat, decode : Nat]
  BY DEF RoutedInit
<1> QED
  BY <1>1, <1>2 DEF RoutedInv

(* The cluster under any of the five policies behaves as the cluster of      *)
(* Serving does, whose policy may choose any nodes: schedule() always names  *)
(* a node of each pool, and all that is proved of Serving holds.             *)
THEOREM RoutedIsServing == RoutedSpec => Spec
<1>1. RoutedInit => Init
  BY DEF RoutedInit
<1> QED
  BY <1>1, RoutedInitInv, RoutedNextInv, RoutedIsNext, PTL DEF RoutedSpec, Spec

-----------------------------------------------------------------------------
(* What follows for the policies.                                            *)

(* An arrival waits only when all prefill nodes are full, under a policy     *)
(* that looks at the load.                                                   *)
LEMMA WaitIsNeeded ==
  ASSUME RoutedInv, metrics \in Collected, [RoutedNext]_routedVars, policy # "round_robin",
         NEW p \in PrefillNodes, Len(nodes'[p].queue) > Len(nodes[p].queue),
         NEW q \in PrefillNodes
  PROVE  ~HasRoom(nodes[q])
<1>0. Inv /\ Typed /\ p \in Nodes /\ q \in Nodes
  BY Constants DEF RoutedInv, Inv
<1>1. Len(nodes[p].queue) \in Nat
  BY <1>0, NodeTypes DEF Typed
<1>2. nodes'[p] # nodes[p]
  BY <1>1
<1>3. ~Onward
  <2> SUFFICES ASSUME Onward
               PROVE  FALSE
    OBVIOUS
  <2>1. Len(nodes'[p].queue) <= Len(nodes[p].queue)
    BY <1>0, OnwardFacts
  <2> QED
    BY <1>1, <2>1
<1>4. Route
  <2>1. ~RouteRejected
    BY <1>2 DEF RouteRejected, ArriveRejected
  <2>2. ~(PrefillStart \/ Materialize \/ Others)
    BY <1>3 DEF PrefillStart, Materialize, Others, Onward
  <2>3. ~(UNCHANGED routedVars)
    BY <1>2 DEF routedVars, vars
  <2> QED
    BY <2>1, <2>2, <2>3 DEF RoutedNext
<1>5. PICK c \in PrefillNodes, d \in DecodeNodes : c = ChosenPrefill /\ ArriveRouted(c, d)
  BY <1>4, RouteFacts
<1>6. c = LeastLoaded(PrefillOrder, PrefillNodes)
  BY <1>5 DEF ChosenPrefill
<1>7. Len(nodes[c].running) <= Len(nodes[q].running)
  BY <1>0, <1>6, Pools, Constants, PolicyAssumption, LeastLoadedFacts DEF Typed
<1>8. ~HasRoom(nodes[c])
  <2> SUFFICES ASSUME HasRoom(nodes[c])
               PROVE  FALSE
    OBVIOUS
  <2>1. PICK A : nodes' = [nodes EXCEPT ![c] = A] /\ A.queue = nodes[c].queue
    BY <1>0, <1>5, ArriveRoutedEffect
  <2>2. nodes'[p].queue = nodes[p].queue
    BY <1>0, <2>1 DEF Typed
  <2> QED
    BY <1>1, <2>2
<1>9. Len(nodes[c].running) \in Nat /\ Len(nodes[q].running) \in Nat /\ NodeCapacity \in Nat
  BY <1>0, <1>5, Constants, NodeTypes DEF Typed
<1> QED
  BY <1>7, <1>8, <1>9 DEF HasRoom

(* Under the load-aware policies an arrival queues only when every prefill   *)
(* node is full.                                                             *)
THEOREM WaitsAreNeeded == RoutedSpec => NoNeedlessWait
<1>1. RoutedInv /\ (Inv /\ Ledger) /\ [RoutedNext]_routedVars =>
        [policy # "round_robin" =>
           \A p \in PrefillNodes :
             Len(nodes'[p].queue) > Len(nodes[p].queue) =>
               \A q \in PrefillNodes : ~HasRoom(nodes[q])]_routedVars
  BY WaitIsNeeded DEF Ledger
<1> QED
  BY <1>1, RoutedInitInv, RoutedNextInv, RoutedIsServing, LedgerAgrees, PTL
     DEF RoutedSpec, NoNeedlessWait

(* A positive multiple of n is at least n.                                   *)
LEMMA MultipleBound ==
  ASSUME NEW n \in Nat \ {0}, NEW k \in Int, NEW s \in Int, s = n * k, -n < s, s < n
  PROVE  s = 0
<1>1. CASE k >= 1
  <2>1. PICK j \in Nat : k = j + 1
    BY <1>1
  <2>2. n * j \in Nat /\ n * k = n * j + n
    BY <2>1
  <2> QED
    BY <2>2
<1>2. CASE k <= -1
  <2>1. PICK j \in Nat : k = -j - 1
    BY <1>2
  <2>2. n * j \in Nat /\ n * k = -(n * j) - n
    BY <2>1
  <2> QED
    BY <2>2
<1>3. CASE k = 0
  BY <1>3
<1> QED
  BY <1>1, <1>2, <1>3

(* Two numbers have the same remainder when and only when n divides their    *)
(* difference.                                                               *)
LEMMA SameRemainder ==
  ASSUME NEW n \in Nat \ {0}, NEW a \in Nat, NEW b \in Nat
  PROVE  a % n = b % n <=> (b - a) % n = 0
<1>1. ASSUME NEW x \in Int
      PROVE  \E q \in Int, r \in 0..n - 1, m \in Int : m = n * q /\ x = m + r /\ r = x % n
  <2>1. x \div n \in Int
    OBVIOUS
  <2>2. x % n \in 0..n - 1
    OBVIOUS
  <2>3. x = n * (x \div n) + (x % n)
    OBVIOUS
  <2>4. PICK q \in Int, r \in 0..n - 1 : q = x \div n /\ r = x % n
    BY <2>1, <2>2
  <2>5. n * q \in Int
    OBVIOUS
  <2> QED
    BY <2>3, <2>4, <2>5
<1>0. a \in Int /\ b \in Int
  OBVIOUS
<1>2. PICK qa \in Int, ra \in 0..n - 1, ma \in Int :
        ma = n * qa /\ a = ma + ra /\ ra = a % n
  BY <1>0, <1>1, Zenon
<1>3. PICK qb \in Int, rb \in 0..n - 1, mb \in Int :
        mb = n * qb /\ b = mb + rb /\ rb = b % n
  BY <1>0, <1>1, Zenon
<1>4. PICK x \in Int : x = b - a
  OBVIOUS
<1>5. PICK qd \in Int, rd \in 0..n - 1, md \in Int :
        md = n * qd /\ x = md + rd /\ rd = x % n
  BY <1>1, Zenon
<1>6. PICK k \in Int : k = qb - qa - qd
  OBVIOUS
<1>7. n * k = n * qb - n * qa - n * qd
  BY <1>6
<1>8. PICK s \in Int : s = n * k
  OBVIOUS
<1>9. s = mb - ma - md
  BY <1>2, <1>3, <1>5, <1>7, <1>8
<1>10. s = rd - rb + ra
  <2>1. a = ma + ra /\ b = mb + rb /\ x = md + rd /\ x = b - a
    BY <1>2, <1>3, <1>4, <1>5, Zenon
  <2>2. ra \in Int /\ rb \in Int /\ rd \in Int
    OBVIOUS
  <2> QED
    BY <1>0, <1>9, <2>1, <2>2
<1>11. ASSUME ra = rb
       PROVE  rd = 0
  <2>1. s = rd /\ -n < s /\ s < n
    BY <1>10, <1>11
  <2> QED
    BY <1>8, <2>1, MultipleBound
<1>12. ASSUME rd = 0
       PROVE  ra = rb
  <2>1. s = ra - rb /\ -n < s /\ s < n
    BY <1>10, <1>12
  <2>2. s = 0
    BY <1>8, <2>1, MultipleBound
  <2> QED
    BY <2>1, <2>2
<1> QED
  BY <1>2, <1>3, <1>4, <1>5, <1>11, <1>12

(* The cursor meets the same node again after whole turns.                   *)
LEMMA CursorTurns ==
  ASSUME NEW S, NEW pool \in Seq(S), Len(pool) \in Nat \ {0}, IsInjective(pool),
         NEW a \in Nat, NEW b \in Nat
  PROVE  AtCursor(pool, a) = AtCursor(pool, b) <=> (b - a) % Len(pool) = 0
<1>1. PICK n \in Nat \ {0} : n = Len(pool)
  OBVIOUS
<1>2. a % n \in 0..n - 1 /\ b % n \in 0..n - 1
  OBVIOUS
<1>3. PICK x \in 0..n - 1, y \in 0..n - 1 : x = a % n /\ y = b % n
  BY <1>2
<1>4. x + 1 \in 1..n /\ y + 1 \in 1..n /\ DOMAIN pool = 1..n
  BY <1>1
<1>5. pool[x + 1] = pool[y + 1] <=> x + 1 = y + 1
  BY <1>4 DEF IsInjective
<1>6. x = y <=> (b - a) % n = 0
  BY <1>3, SameRemainder
<1>7. x + 1 = y + 1 <=> x = y
  OBVIOUS
<1> QED
  BY <1>1, <1>3, <1>5, <1>6, <1>7 DEF AtCursor

(* Under round_robin the cursors count the arrivals, and a request has the   *)
(* nodes that were its turn.                                                 *)
Turns ==
  policy = "round_robin" =>
    /\ cursors.prefill = metrics.arrived /\ cursors.decode = metrics.arrived
    /\ \A r \in Decided : /\ decisions[r].prefill = AtCursor(PrefillOrder, r - 1)
                          /\ decisions[r].decode = AtCursor(DecodeOrder, r - 1)

(* Nothing has arrived at the start.                                         *)
LEMMA InitTurns == RoutedInit => Turns
<1> SUFFICES ASSUME RoutedInit
             PROVE  Turns
  OBVIOUS
<1>1. cursors.prefill = 0 /\ cursors.decode = 0
  BY DEF RoutedInit
<1>2. metrics.arrived = 0 /\ Decided = {}
  BY DEF RoutedInit, Init, Decided, M!NoMetrics
<1> QED
  BY <1>1, <1>2 DEF Turns

(* The turns are kept by every step.                                         *)
LEMMA NextTurns ==
  ASSUME RoutedInv, Ledger, Turns, [RoutedNext]_routedVars
  PROVE  Turns'
<1>0. Inv /\ metrics \in Collected /\ metrics.arrived \in Nat /\ policy' = policy
      /\ DOMAIN decisions = Requests
  BY DEF RoutedInv, Ledger, Collected, Inv, Typed, RoutedNext, Route, RouteRejected, PrefillStart,
         Materialize, Others, routedVars
<1> SUFFICES ASSUME policy = "round_robin"
             PROVE  Turns'
  BY <1>0 DEF Turns
<1>1. /\ cursors.prefill = metrics.arrived /\ cursors.decode = metrics.arrived
      /\ \A r \in Decided : /\ decisions[r].prefill = AtCursor(PrefillOrder, r - 1)
                            /\ decisions[r].decode = AtCursor(DecodeOrder, r - 1)
  BY DEF Turns
<1>2. CASE cursors' = cursors /\ Onward
  <2>1. metrics'.arrived = metrics.arrived
    BY <1>0, <1>2, OnwardFacts
  <2>2. \A r \in Requests : decisions'[r] = decisions[r] \/ decisions'[r] = NoDecision
    BY <1>0, <1>2, OnwardFacts
  <2>3. \A r \in Decided' : r \in Decided /\ decisions'[r] = decisions[r]
    BY <2>2 DEF Decided
  <2> QED
    BY <1>1, <1>2, <2>1, <2>3 DEF Turns, AtCursor
<1>3. CASE Route
  <2>1. PICK l \in Lookups, p \in PrefillNodes, d \in DecodeNodes, t \in Nat :
          /\ p = ChosenPrefill /\ d = ChosenDecode(l, t) /\ ArriveRouted(p, d)
          /\ cursors' = Cursors(p)
    BY <1>3, RouteFacts
  <2>2. p = AtCursor(PrefillOrder, cursors.prefill) /\ d = AtCursor(DecodeOrder, cursors.decode)
    BY <2>1 DEF ChosenPrefill, ChosenDecode
  <2>3. PICK r \in Requests : r = Req
    BY <1>0, <2>1, ArriveRoutedEffect
  <2>4. PICK D : /\ decisions' = [decisions EXCEPT ![r] = D]
                 /\ D.prefill = p /\ D.decode = d
    BY <1>0, <2>1, <2>3, ArriveRoutedEffect
  <2>5. Pop("REQUEST_ARRIVE") /\ metrics' = M!CountArrive(metrics, r, now')
    BY <1>0, <2>1, <2>3, ArriveRoutedEffect
  <2>6. r = metrics.arrived + 1
    <3>1. Head(events) \in Queued /\ Head(events).type = "REQUEST_ARRIVE"
      BY <1>0, <2>5, PopEffect
    <3> QED
      BY <2>3, <3>1 DEF Ledger, Counts, Req
  <2>7. metrics'.arrived = metrics.arrived + 1
    <3>1. PICK m, k : m = metrics /\ k = M!CountArrive(m, r, now')
      OBVIOUS
    <3>2. PICK u \in Nat : u = now'
      BY <1>0, <2>5, PopEffect
    <3>3. k.arrived = m.arrived + 1
      BY <1>0, <3>1, <3>2, CountArriveFacts
    <3> QED
      BY <2>5, <3>1, <3>3
  <2>8. cursors'.prefill = cursors.prefill + 1 /\ cursors'.decode = cursors.decode + 1
    BY <2>1 DEF Cursors
  <2>9. r - 1 = metrics.arrived
    BY <1>0, <2>6
  <2>10. \A q \in Decided' : \/ q = r /\ decisions'[q] = D
                             \/ q \in Decided /\ decisions'[q] = decisions[q]
    BY <1>0, <2>4 DEF Decided
  <2>11. \A q \in Decided' : /\ decisions'[q].prefill = AtCursor(PrefillOrder, q - 1)
                             /\ decisions'[q].decode = AtCursor(DecodeOrder, q - 1)
    BY <1>1, <2>2, <2>4, <2>9, <2>10
  <2> QED
    BY <1>1, <2>7, <2>8, <2>11 DEF Turns, AtCursor
<1>4. CASE UNCHANGED routedVars
  BY <1>1, <1>4 DEF routedVars, vars, Turns, Decided, AtCursor
<1>5. ~RouteRejected
  BY DEF RouteRejected
<1> QED
  BY <1>2, <1>3, <1>4, <1>5 DEF RoutedNext, PrefillStart, Materialize, Others, Onward

(* Under round_robin two requests share a node only whole turns apart.       *)
THEOREM RotationExact == RoutedSpec => []RotationIsExact
<1>1. Turns => RotationIsExact
  <2> SUFFICES ASSUME Turns, policy = "round_robin", NEW q \in Decided, NEW r \in Decided
               PROVE  /\ decisions[q].prefill = decisions[r].prefill
                           <=> (r - q) % Cardinality(PrefillNodes) = 0
                      /\ decisions[q].decode = decisions[r].decode
                           <=> (r - q) % Cardinality(DecodeNodes) = 0
    BY DEF RotationIsExact
  <2>1. q \in Requests /\ r \in Requests
    BY DEF Decided
  <2>2. q \in Nat \ {0} /\ r \in Nat \ {0}
    BY <2>1, Constants
  <2>3. PICK a \in Nat, b \in Nat : a = q - 1 /\ b = r - 1
    BY <2>2
  <2>4. b - a = r - q
    BY <2>2, <2>3
  <2>5. /\ AtCursor(PrefillOrder, a) = AtCursor(PrefillOrder, b)
             <=> (b - a) % Len(PrefillOrder) = 0
        /\ AtCursor(DecodeOrder, a) = AtCursor(DecodeOrder, b)
             <=> (b - a) % Len(DecodeOrder) = 0
    BY Pools, CursorTurns
  <2>6. /\ decisions[q].prefill = AtCursor(PrefillOrder, a)
        /\ decisions[r].prefill = AtCursor(PrefillOrder, b)
        /\ decisions[q].decode = AtCursor(DecodeOrder, a)
        /\ decisions[r].decode = AtCursor(DecodeOrder, b)
    BY <2>3 DEF Turns
  <2> QED
    BY <2>4, <2>5, <2>6, Pools
<1>2. RoutedInv /\ (Inv /\ Ledger) /\ Turns /\ [RoutedNext]_routedVars => Turns'
  BY NextTurns
<1> QED
  BY <1>1, <1>2, InitTurns, RoutedInitInv, RoutedNextInv, RoutedIsServing, LedgerAgrees, PTL
     DEF RoutedSpec

-----------------------------------------------------------------------------
(* The backlog of the lanes.                                                 *)

(* A lane is taken beyond the present only by a transfer whose completion    *)
(* is still queued.                                                          *)
Backlogged(t) ==
  t > now => \E e \in Queued : e.type = "KV_TRANSFER_COMPLETE" /\ e.time >= t
Backlog ==
  \A n \in Nodes : Backlogged(egressAvailableAt[n]) /\ Backlogged(ingressAvailableAt[n])

(* on_prefill_complete queues the completion for the end of the transfer.    *)
LEMMA TransferQueued ==
  ASSUME Inv, PrefillComplete
  PROVE  \E s \in Nodes, d \in Nodes, x \in Nat :
           /\ PerNodeLane =>
                /\ egressAvailableAt' = [egressAvailableAt EXCEPT ![s] = x]
                /\ ingressAvailableAt' = [ingressAvailableAt EXCEPT ![d] = x]
           /\ ~PerNodeLane => UNCHANGED laneVars
           /\ \E e \in Queued' : e.type = "KV_TRANSFER_COMPLETE" /\ e.time = x
           /\ Rest \subseteq Queued'
<1>1. Pop("PREFILL_COMPLETE") /\ Req \in Requests /\ At(Req, "prefilled")
  BY PrefillCompleteEffect
<1>2. PICK r \in Requests, p \in Nodes : r = Req /\ p = Node /\ p = decisions[r].prefill
  BY PrefillCompleteEffect, Constants
<1>3. PICK d : d = decisions[r].decode
  OBVIOUS
<1>4. d \in Nodes
  <2>1. r \in Decided
    BY <1>1, <1>2 DEF At, Booked, Outside
  <2> QED
    BY <1>3, <2>1, Constants DEF Inv, Typed
<1>5. now' \in Nat /\ WellFormed(nodes[p]) /\ Typed
  BY <1>1, PopEffect
<1>6. PICK start : start = TransferStart(p, d, now')
  OBVIOUS
<1>7. RequestTransfer(p, d, now', TransferCost)
  BY <1>2, <1>3 DEF PrefillComplete
<1>8. /\ start \in Nat /\ start >= now' /\ start + TransferCost \in Nat
      /\ start + TransferCost >= now'
  BY <1>4, <1>5, <1>6, <1>7, LaneFacts
<1>9. PICK a, b : /\ a = Ev(start, "KV_TRANSFER_START", r, "none")
                  /\ b = Ev(start + TransferCost, "KV_TRANSFER_COMPLETE", r, "none")
  OBVIOUS
<1>10. PICK h : h = Head(nodes[p].queue)
  OBVIOUS
<1>11. PICK ps : ps = IF Promoted(nodes[p]) = {} THEN <<>>
                      ELSE <<Ev(now', "PREFILL_START", h, p)>>
  OBVIOUS
<1>12. Handle(ps \o <<a, b>>)
  BY <1>2, <1>3, <1>6, <1>9, <1>10, <1>11 DEF PrefillComplete
<1>13. /\ a \in Event /\ a.time = start
       /\ b \in Event /\ b.time = start + TransferCost /\ b.type = "KV_TRANSFER_COMPLETE"
  <2>1. /\ r \in Nat /\ "none" \in Nodes \cup {"none"}
        /\ "KV_TRANSFER_START" \in Types /\ "KV_TRANSFER_COMPLETE" \in Types
    BY Constants DEF Types
  <2> QED
    BY <1>8, <1>9, <2>1, EventFacts
<1>14. ps \in Seq(Event) /\ \A e \in ToSet(ps) : e.time >= now'
  <2>1. CASE Promoted(nodes[p]) = {}
    BY <1>11, <1>13, <2>1, ShortLists
  <2>2. CASE Promoted(nodes[p]) # {}
    <3>1. PICK c : c = Ev(now', "PREFILL_START", h, p)
      OBVIOUS
    <3>2. nodes[p].queue # <<>> /\ nodes[p].queue \in Seq(Requests)
      BY <1>5, <2>2, NodeTypes DEF Promoted
    <3>3. h \in Requests
      BY <1>10, <3>2
    <3>4. h \in Nat /\ p \in Nodes \cup {"none"} /\ "PREFILL_START" \in Types
      BY <3>3, Constants DEF Types
    <3>5. c \in Event /\ c.time = now'
      BY <1>5, <3>1, <3>4, EventFacts
    <3>6. ps = <<c>>
      BY <1>11, <2>2, <3>1
    <3>7. ps \in Seq(Event) /\ ToSet(ps) = {c}
      BY <3>5, <3>6, ShortLists
    <3> QED
      BY <1>5, <3>5, <3>7
  <2> QED
    BY <2>1, <2>2
<1>15. PICK ts : ts = <<a, b>>
  OBVIOUS
<1>16. ts \in Seq(Event) /\ ToSet(ts) = {a, b}
  <2>1. ts \in Seq(Event) /\ DOMAIN ts = {1, 2} /\ ts[1] = a /\ ts[2] = b
    BY <1>13, <1>15
  <2>2. ToSet(ts) = {a, b}
    BY <2>1 DEF ToSet
  <2> QED
    BY <2>1, <2>2
<1>17. PICK es : /\ es = ps \o <<a, b>> /\ es \in Seq(Event)
                 /\ ToSet(es) = ToSet(ps) \cup {a, b}
  <2>1. ps \o ts \in Seq(Event) /\ ToSet(ps \o ts) = ToSet(ps) \cup {a, b}
    BY <1>14, <1>16, JoinedLists
  <2> QED
    BY <1>15, <2>1
<1>18. \A e \in ToSet(es) : e.time >= now'
  BY <1>8, <1>13, <1>14, <1>17
<1>19. Queued' = Rest \cup ToSet(es)
  BY <1>1, <1>5, <1>12, <1>17, <1>18, QueueStep
<1>20. PICK x \in Nat : x = start + TransferCost
  BY <1>8
<1>21. /\ PerNodeLane =>
            /\ egressAvailableAt' = [egressAvailableAt EXCEPT ![p] = x]
            /\ ingressAvailableAt' = [ingressAvailableAt EXCEPT ![d] = x]
       /\ ~PerNodeLane => UNCHANGED laneVars
  BY <1>6, <1>7, <1>20 DEF RequestTransfer
<1>22. b \in Queued' /\ b.type = "KV_TRANSFER_COMPLETE" /\ b.time = x /\ Rest \subseteq Queued'
  BY <1>13, <1>17, <1>19, <1>20
<1> QED
  BY <1>4, <1>21, <1>22

(* The other handlers queue their events behind the head and leave the lanes *)
(* alone.                                                                    *)
LEMMA LanesLeftAlone ==
  ASSUME Inv, Next, ~PrefillComplete
  PROVE  UNCHANGED laneVars /\ (\E type : Pop(type)) /\ Rest \subseteq Queued'
<1>1. CASE Scheduled \/ Rejected \/ TransferStarts \/ TokenGenerated
  <2>1. PICK type : Pop(type) /\ Handle(<<>>) /\ UNCHANGED laneVars
    BY <1>1 DEF Scheduled, Rejected, TransferStarts, TokenGenerated
  <2> QED
    BY <2>1, QuietEffect DEF Scheduling
<1>2. CASE ArriveRejected
  BY <1>2, ArriveRejectedEffect DEF Scheduling, ArriveRejected
<1>3. ASSUME NEW p \in PrefillNodes, NEW d \in DecodeNodes, ArriveRouted(p, d)
      PROVE  UNCHANGED laneVars /\ (\E type : Pop(type)) /\ Rest \subseteq Queued'
  BY <1>3, ArriveRoutedEffect DEF Scheduling, ArriveRouted
<1>4. CASE PrefillStartCached \/ PrefillStartChunked
  <2>1. UNCHANGED laneVars
    BY <1>4 DEF PrefillStartCached, PrefillStartChunked
  <2>2. Pop("PREFILL_START") /\ \E es : Scheduling(es)
    BY <1>4, PrefillStartEffect
  <2> QED
    BY <2>1, <2>2 DEF Scheduling
<1>5. CASE TransferRejected
  BY <1>5, TransferRejectedEffect DEF Scheduling, TransferRejected
<1>6. CASE TransferAdmitted
  <2>1. UNCHANGED laneVars
    BY <1>6 DEF TransferAdmitted
  <2>2. Pop("KV_TRANSFER_COMPLETE") /\ \E es : Scheduling(es)
    BY <1>6, TransferAdmittedEffect
  <2> QED
    BY <2>1, <2>2 DEF Scheduling
<1>7. CASE BatchStep
  <2>1. UNCHANGED laneVars
    BY <1>7 DEF BatchStep
  <2>2. Pop("DECODE_BATCH_STEP") /\ \E es : Scheduling(es)
    BY <1>7, BatchStepEffect
  <2> QED
    BY <2>1, <2>2 DEF Scheduling
<1>8. CASE DecodeComplete
  <2>1. UNCHANGED laneVars
    BY <1>8 DEF DecodeComplete
  <2>2. Pop("DECODE_COMPLETE") /\ \E es : Scheduling(es)
    BY <1>8, DecodeCompleteEffect
  <2> QED
    BY <2>1, <2>2 DEF Scheduling
<1> QED
  BY <1>1, <1>2, <1>3, <1>4, <1>5, <1>6, <1>7, <1>8 DEF Next

(* Time passes the end of a transfer only with its completion.               *)
LEMMA BacklogKept ==
  ASSUME Inv, NEW type, Pop(type), Rest \subseteq Queued', NEW t \in Nat, Backlogged(t)
  PROVE  Backlogged(t)'
<1> SUFFICES ASSUME t > now'
             PROVE  \E e \in Queued' : e.type = "KV_TRANSFER_COMPLETE" /\ e.time >= t
  BY DEF Backlogged
<1>1. /\ now' \in Nat /\ now <= now' /\ now' = Head(events).time
      /\ Queued = {Head(events)} \cup Rest /\ now \in Nat
  BY PopEffect DEF Inv, Typed
<1>2. t > now
  BY <1>1
<1>3. PICK e \in Queued : e.type = "KV_TRANSFER_COMPLETE" /\ e.time >= t
  BY <1>2 DEF Backlogged
<1>4. e # Head(events)
  <2> SUFFICES ASSUME e = Head(events)
               PROVE  FALSE
    OBVIOUS
  <2>1. now' >= t
    BY <1>1, <1>3
  <2> QED
    BY <1>1, <2>1
<1>5. e \in Queued'
  BY <1>1, <1>3, <1>4
<1> QED
  BY <1>3, <1>5

(* The lanes are free at the start, and every step keeps the backlog.        *)
LEMMA BacklogAlways == (Init => Backlog) /\ (Inv /\ Backlog /\ [Next]_vars => Backlog')
<1>1. Init => Backlog
  <2> SUFFICES ASSUME Init
               PROVE  Backlog
    OBVIOUS
  <2>1. now = 0 /\ \A n \in Nodes : egressAvailableAt[n] = 0 /\ ingressAvailableAt[n] = 0
    BY DEF Init, LaneInit
  <2> QED
    BY <2>1 DEF Backlog, Backlogged
<1>2. ASSUME Inv, Backlog, [Next]_vars
      PROVE  Backlog'
  <2>1. \A n \in Nodes : egressAvailableAt[n] \in Nat /\ ingressAvailableAt[n] \in Nat
    BY <1>2 DEF Inv, Typed
  <2>2. CASE UNCHANGED vars
    BY <1>2, <2>2 DEF vars, laneVars, Backlog, Backlogged, Queued
  <2>3. CASE Next /\ ~PrefillComplete
    <3>1. UNCHANGED laneVars /\ (\E type : Pop(type)) /\ Rest \subseteq Queued'
      BY <1>2, <2>3, LanesLeftAlone
    <3>2. \A n \in Nodes : /\ Backlogged(egressAvailableAt[n])'
                           /\ Backlogged(ingressAvailableAt[n])'
      <4> SUFFICES ASSUME NEW n \in Nodes
                   PROVE  /\ Backlogged(egressAvailableAt[n])'
                          /\ Backlogged(ingressAvailableAt[n])'
        OBVIOUS
      <4>1. PICK x \in Nat, y \in Nat : x = egressAvailableAt[n] /\ y = ingressAvailableAt[n]
        BY <2>1
      <4>2. Backlogged(x) /\ Backlogged(y)
        BY <1>2, <4>1 DEF Backlog
      <4>3. Backlogged(x)' /\ Backlogged(y)'
        BY <1>2, <3>1, <4>2, BacklogKept
      <4>4. egressAvailableAt'[n] = x /\ ingressAvailableAt'[n] = y
        BY <3>1, <4>1 DEF laneVars
      <4> QED
        BY <4>3, <4>4 DEF Backlogged
    <3> QED
      BY <3>2 DEF Backlog
  <2>4. CASE PrefillComplete
    <3>1. PICK s \in Nodes, d \in Nodes, z \in Nat :
            /\ PerNodeLane =>
                 /\ egressAvailableAt' = [egressAvailableAt EXCEPT ![s] = z]
                 /\ ingressAvailableAt' = [ingressAvailableAt EXCEPT ![d] = z]
            /\ ~PerNodeLane => UNCHANGED laneVars
            /\ \E e \in Queued' : e.type = "KV_TRANSFER_COMPLETE" /\ e.time = z
            /\ Rest \subseteq Queued'
      BY <1>2, <2>4, TransferQueued
    <3>2. Backlogged(z)'
      BY <3>1 DEF Backlogged
    <3>3. Pop("PREFILL_COMPLETE")
      BY <1>2, <2>4, PrefillCompleteEffect
    <3>4. ASSUME NEW n \in Nodes
          PROVE  Backlogged(egressAvailableAt[n])' /\ Backlogged(ingressAvailableAt[n])'
      <4>1. PICK x \in Nat, y \in Nat : x = egressAvailableAt[n] /\ y = ingressAvailableAt[n]
        BY <2>1
      <4>2. Backlogged(x) /\ Backlogged(y)
        BY <1>2, <4>1 DEF Backlog
      <4>3. Backlogged(x)' /\ Backlogged(y)'
        BY <1>2, <3>1, <3>3, <4>2, BacklogKept
      <4>4. /\ egressAvailableAt'[n] = x \/ egressAvailableAt'[n] = z
            /\ ingressAvailableAt'[n] = y \/ ingressAvailableAt'[n] = z
        BY <1>2, <3>1, <4>1 DEF laneVars, Inv, Typed
      <4> QED
        BY <3>2, <4>3, <4>4 DEF Backlogged
    <3> QED
      BY <3>4 DEF Backlog
  <2> QED
    BY <1>2, <2>2, <2>3, <2>4
<1> QED
  BY <1>1, <1>2

-----------------------------------------------------------------------------
(* The gate recovers.                                                        *)

(* A cluster without requests is idle: no slot is taken, no stream decodes   *)
(* and no lane is busy.                                                      *)
LEMMA IdleCluster ==
  ASSUME Inv, Backlog, Decided = {}, NEW n \in Nodes
  PROVE  /\ nodes[n].decoding = {} /\ HasRoom(nodes[n])
         /\ egressAvailableAt[n] <= now /\ ingressAvailableAt[n] <= now
<1>1. /\ WellFormed(nodes[n]) /\ now \in Nat
      /\ egressAvailableAt[n] \in Nat /\ ingressAvailableAt[n] \in Nat
  BY DEF Inv, Typed
<1>2. \A r \in Requests : /\ r \notin Running(nodes[n]) /\ r \notin nodes[n].decoding
                          /\ ~Has(r, "KV_TRANSFER_COMPLETE")
  <2> SUFFICES ASSUME NEW r \in Requests
               PROVE  /\ r \notin Running(nodes[n]) /\ r \notin nodes[n].decoding
                      /\ ~Has(r, "KV_TRANSFER_COMPLETE")
    OBVIOUS
  <2>1. PICK k \in Positions : At(r, k)
    BY DEF Inv
  <2>2. k \in Outside
    BY <2>1 DEF At, Booked
  <2> QED
    BY <2>1, <2>2 DEF At, Placed, Carried, Outside
<1>3. nodes[n].decoding = {} /\ Running(nodes[n]) = {}
  BY <1>1, <1>2, NodeTypes
<1>4. Len(nodes[n].running) = 0 /\ NodeCapacity \in Nat \ {0}
  <2>1. nodes[n].running \in Seq(Requests) /\ NodeCapacity \in Nat \ {0}
    BY <1>1, NodeTypes
  <2>2. nodes[n].running = <<>>
    <3> SUFFICES ASSUME nodes[n].running # <<>>
                 PROVE  FALSE
      OBVIOUS
    <3>1. 1 \in DOMAIN nodes[n].running
      BY <2>1
    <3>2. nodes[n].running[1] \in Running(nodes[n])
      BY <3>1 DEF Running, ToSet
    <3> QED
      BY <1>3, <3>2
  <2> QED
    BY <2>1, <2>2
<1>5. \A e \in Queued : e.type # "KV_TRANSFER_COMPLETE"
  <2> SUFFICES ASSUME NEW e \in Queued, e.type = "KV_TRANSFER_COMPLETE"
               PROVE  FALSE
    OBVIOUS
  <2>1. e.req \in Requests
    BY DEF Inv, Fits
  <2> QED
    BY <1>2, <2>1 DEF Has, HasIn
<1>6. ~(egressAvailableAt[n] > now) /\ ~(ingressAvailableAt[n] > now)
  BY <1>5 DEF Backlog, Backlogged
<1> QED
  BY <1>1, <1>3, <1>4, <1>6 DEF HasRoom

(* When no request is left in the cluster the estimates, and with them the   *)
(* Conductor's gate, are those of a fresh one.                               *)
THEOREM GateAlwaysRecovers == RoutedSpec => []GateRecovers
<1>1. ASSUME Inv, Backlog
      PROVE  GateRecovers
  <2> SUFFICES ASSUME Decided = {}, NEW p \in PrefillNodes, NEW d \in DecodeNodes,
                      NEW hit \in Answers
               PROVE  EstTtft(p, d, hit, now)
                        = EstimatePrefillTime(PromptLen - hit.matched, 1) + TransferCost
                            + hit.cost + EstimateDecodeTime(1)
    BY DEF GateRecovers
  <2>1. /\ p \in Nodes /\ d \in Nodes /\ now \in Nat
        /\ egressAvailableAt[p] \in Nat /\ ingressAvailableAt[d] \in Nat
    BY <1>1, Constants DEF Inv, Typed
  <2>2. /\ nodes[p].decoding = {} /\ nodes[d].decoding = {} /\ HasRoom(nodes[p])
        /\ egressAvailableAt[p] <= now /\ ingressAvailableAt[d] <= now
    BY <1>1, <2>1, IdleCluster
  <2>3. LaneWait(p, d, now) = 0
    <3>1. egressAvailableAt[p] - now <= 0 /\ ingressAvailableAt[d] - now <= 0
      BY <2>1, <2>2
    <3>2. Later(0, egressAvailableAt[p] - now) = 0 /\ Later(0, ingressAvailableAt[d] - now) = 0
      BY <2>1, <3>1 DEF Later
    <3> QED
      BY <3>2 DEF LaneWait, Later
  <2>4. QueueWaitTime(nodes[p]) = 0
    BY <2>2, Zenon DEF QueueWaitTime
  <2>5. Cardinality(nodes[p].decoding) + 1 = 1 /\ Cardinality(nodes[d].decoding) + 1 = 1
    <3>1. Cardinality({}) = 0
      BY FS_EmptySet
    <3> QED
      BY <2>2, <3>1
  <2>6. Hit(hit)
    BY AnswerAssumption DEF Hit
  <2>7. PICK u \in Nat : u = PromptLen - hit.matched
    BY <2>6, Numbers DEF Hit
  <2>8. PICK x \in Int, y \in Int : x = EstimatePrefillTime(u, 1) /\ y = EstimateDecodeTime(1)
    BY EstimateParts, 1 \in Nat
  <2>9. EstTtft(p, d, hit, now) = x + 0 + TransferCost + 0 + hit.cost + y
    BY <2>3, <2>4, <2>5, <2>7, <2>8, Zenon DEF EstTtft
  <2>10. TransferCost \in Nat /\ hit.cost \in Nat
    BY <2>6, Numbers DEF Hit
  <2> QED
    BY <2>7, <2>8, <2>9, <2>10
<1> QED
  BY <1>1, RoutedIsServing, InitInv, NextInv, BacklogAlways, PTL DEF Spec

-----------------------------------------------------------------------------
(* The weighted scores never pass over a better node.                        *)

(* A factor keeps the order, a positive one strictly.                        *)
LEMMA ScaledOrder ==
  ASSUME NEW k \in Nat, NEW a \in Int, NEW b \in Int, a <= b
  PROVE  /\ k * a \in Int /\ k * b \in Int /\ k * a <= k * b
         /\ k > 0 /\ a < b => k * a < k * b
<1>1. PICK j \in Nat : b = a + j
  BY b - a \in Nat
<1>2. k * j \in Nat /\ k * b = k * a + k * j /\ k * a \in Int
  BY <1>1
<1>3. ASSUME k > 0, a < b
      PROVE  k * j > 0
  BY <1>1, <1>3
<1> QED
  BY <1>2, <1>3

(* So does division.                                                         *)
LEMMA DividedOrder ==
  ASSUME NEW n \in Nat \ {0}, NEW a \in Int, NEW b \in Int, a <= b
  PROVE  a \div n \in Int /\ b \div n \in Int /\ a \div n <= b \div n
<1>1. PICK x \in Int, y \in Int, v \in 0..n - 1, w \in 0..n - 1 :
        x = a \div n /\ y = b \div n /\ a = n * x + v /\ b = n * y + w
  <2>1. a \div n \in Int /\ b \div n \in Int
    OBVIOUS
  <2>2. a % n \in 0..n - 1 /\ b % n \in 0..n - 1
    OBVIOUS
  <2>3. a = n * (a \div n) + (a % n)
    OBVIOUS
  <2>4. b = n * (b \div n) + (b % n)
    OBVIOUS
  <2> QED
    BY <2>1, <2>2, <2>3, <2>4
<1>2. ASSUME x > y
      PROVE  FALSE
  <2>1. PICK j \in Nat : x = y + 1 + j
    BY <1>2, x - y - 1 \in Nat
  <2>2. n * j \in Nat /\ n * x = n * y + n + n * j /\ n * y \in Int
    BY <2>1
  <2> QED
    BY <1>1, <2>2
<1> QED
  BY <1>1, <1>2

(* The estimate of a decode node that is no worse is no later, and is        *)
(* earlier when a prefill chunk is saved.                                    *)
LEMMA EstimateOrder ==
  ASSUME Readable, NEW p \in PrefillNodes, NEW d \in DecodeNodes, NEW c \in DecodeNodes,
         NEW g, Hit(g), NEW h, Hit(h), NEW t \in Nat,
         g.matched >= h.matched, g.cost <= h.cost,
         Cardinality(nodes[d].decoding) <= Cardinality(nodes[c].decoding),
         ingressAvailableAt[d] <= ingressAvailableAt[c]
  PROVE  /\ Chunks(g) \in Int /\ Chunks(h) \in Int /\ Chunks(g) <= Chunks(h)
         /\ EstTtft(p, d, g, t) <= EstTtft(p, c, h, t)
         /\ Chunks(g) < Chunks(h) => EstTtft(p, d, g, t) < EstTtft(p, c, h, t)
<1>1. /\ ChunkSize \in Nat \ {0} /\ PrefillCost \in Nat \ {0} /\ DecodeBase \in Nat
      /\ MarginalDecode \in Nat /\ TransferCost \in Nat /\ PromptLen \in Nat
  BY Numbers
<1>2. /\ p \in Nodes /\ d \in Nodes /\ c \in Nodes
      /\ egressAvailableAt[p] \in Nat /\ ingressAvailableAt[d] \in Nat /\ ingressAvailableAt[c] \in Nat
  BY Constants DEF Readable
<1>3. PICK w \in Nat : w = QueueWaitTime(nodes[p])
  BY <1>2, WaitIsNumber DEF Readable
<1>4. /\ IsFiniteSet(nodes[p].decoding) /\ IsFiniteSet(nodes[d].decoding)
      /\ IsFiniteSet(nodes[c].decoding)
  BY <1>2, NodeTypes, FS_Subset, Constants DEF Readable
<1>5. PICK bp \in Nat : bp = Cardinality(nodes[p].decoding) + 1
  BY <1>4, FS_CardinalityType
<1>6. PICK bd \in Nat, bc \in Nat :
        bd = Cardinality(nodes[d].decoding) + 1 /\ bc = Cardinality(nodes[c].decoding) + 1
  BY <1>4, FS_CardinalityType
<1>7. bd <= bc
  BY <1>4, <1>6, FS_CardinalityType
<1>8. PICK x \in Int, y \in Int : x = Chunks(g) /\ y = Chunks(h) /\ x <= y
  <2>1. PICK a \in Int, b \in Int :
          /\ a = PromptLen - g.matched + ChunkSize - 1 /\ b = PromptLen - h.matched + ChunkSize - 1
          /\ a <= b
    BY <1>1 DEF Hit
  <2>2. a \div ChunkSize \in Int /\ b \div ChunkSize \in Int /\ a \div ChunkSize <= b \div ChunkSize
    BY <1>1, <2>1, DividedOrder
  <2> QED
    BY <2>1, <2>2 DEF Chunks
<1>9. PICK m \in Nat \ {0} : m = ChunkSize * PrefillCost + DecodeBase + bp * MarginalDecode
  <2>1. PICK i \in Nat \ {0} : i = ChunkSize * PrefillCost
    BY <1>1
  <2>2. PICK j \in Nat : j = bp * MarginalDecode
    BY <1>1
  <2> QED
    BY <1>1, <2>1, <2>2
<1>10. /\ EstimatePrefillTime(PromptLen - g.matched, bp) = m * x
       /\ EstimatePrefillTime(PromptLen - h.matched, bp) = m * y
  <2>1. x * m = m * x /\ y * m = m * y
    OBVIOUS
  <2> QED
    BY <1>8, <1>9, <2>1 DEF EstimatePrefillTime, Chunks
<1>11. PICK v \in Int, z \in Int : v = m * x /\ z = m * y /\ v <= z /\ (x < y => v < z)
  BY <1>8, ScaledOrder
<1>12. PICK i \in Int, j \in Int : i = LaneWait(p, d, t) /\ j = LaneWait(p, c, t) /\ i <= j
  BY <1>2 DEF LaneWait, Later
<1>13. PICK q \in Int, s \in Int : q = EstimateDecodeTime(bd) /\ s = EstimateDecodeTime(bc) /\ q <= s
  <2>1. PICK a \in Int, b \in Int : a = MarginalDecode * bd /\ b = MarginalDecode * bc /\ a <= b
    BY <1>1, <1>7, ScaledOrder
  <2>2. bd * MarginalDecode = MarginalDecode * bd /\ bc * MarginalDecode = MarginalDecode * bc
    BY <1>1
  <2> QED
    BY <1>1, <2>1, <2>2 DEF EstimateDecodeTime
<1>14. /\ EstTtft(p, d, g, t) = v + w + TransferCost + i + g.cost + q
       /\ EstTtft(p, c, h, t) = z + w + TransferCost + j + h.cost + s
  BY <1>3, <1>5, <1>6, <1>10, <1>11, <1>12, <1>13, Zenon DEF EstTtft
<1>15. g.cost \in Nat /\ h.cost \in Nat
  BY DEF Hit
<1> QED
  BY <1>1, <1>8, <1>11, <1>12, <1>13, <1>14, <1>15

(* The weights that a better node must count in are not zero: with a weight  *)
(* of zero the nodes tie and the order of the list decides.                  *)
Weighted == {Alpha, Beta, WHistorical, WRun} \subseteq Nat \ {0}

(* A better node has a lower score of E2.                                    *)
LEMMA E2Order ==
  ASSUME Weighted, Readable, NEW p \in PrefillNodes, NEW l \in Lookups, NEW t \in Nat,
         NEW d \in DecodeNodes, NEW c \in DecodeNodes, Better(d, c, l)
  PROVE  ~(E2Score(p, l, t, c) <= E2Score(p, l, t, d))
<1>1. /\ PromptLen \in Nat \ {0} /\ BlockSize \in Nat \ {0} /\ PrefillCost \in Nat \ {0}
      /\ NodeCapacity \in Nat \ {0} /\ WEviction \in Nat
      /\ WHistorical \in Nat \ {0} /\ WRun \in Nat \ {0}
  BY Numbers DEF Weighted
<1>2. Hit(l[d]) /\ Hit(l[c]) /\ d \in Nodes /\ c \in Nodes
  BY LookupFacts, Constants
<1>3. PICK i \in Nat, j \in Nat : i = Len(nodes[d].running) /\ j = Len(nodes[c].running) /\ i <= j
  BY <1>2, NodeTypes DEF Readable, Better
<1>4. PICK e \in Int, f \in Int :
        /\ e = EstTtft(p, d, l[d], t) /\ f = EstTtft(p, c, l[c], t) /\ e <= f
        /\ Chunks(l[d]) < Chunks(l[c]) => e < f
  <2>1. EstTtft(p, d, l[d], t) \in Int /\ EstTtft(p, c, l[c], t) \in Int
    BY <1>2, EstimateIsNumber
  <2>2. /\ l[d].matched >= l[c].matched /\ l[d].cost <= l[c].cost
        /\ Cardinality(nodes[d].decoding) <= Cardinality(nodes[c].decoding)
        /\ ingressAvailableAt[d] <= ingressAvailableAt[c]
    BY DEF Better
  <2>3. /\ EstTtft(p, d, l[d], t) <= EstTtft(p, c, l[c], t)
        /\ Chunks(l[d]) < Chunks(l[c]) => EstTtft(p, d, l[d], t) < EstTtft(p, c, l[c], t)
    BY <1>2, <2>2, EstimateOrder
  <2> QED
    BY <2>1, <2>3
<1>5. i < j \/ e < f
  BY <1>3, <1>4 DEF Better
<1>6. PICK g \in Int, h \in Int : g = Shortage(l, d) /\ h = Shortage(l, c) /\ g <= h
  <2>1. PICK a \in Int, b \in Int :
          a = l[d].matched \div BlockSize /\ b = l[c].matched \div BlockSize /\ b <= a
    <3>1. /\ l[d].matched \in Int /\ l[c].matched \in Int /\ l[c].matched <= l[d].matched
      BY <1>1, <1>2 DEF Hit, Better
    <3> QED
      BY <1>1, <3>1, DividedOrder
  <2>2. PICK b0 \in Int : b0 = PromptLen \div BlockSize
    BY <1>1
  <2>3. PICK x \in Int, y \in Int : x = NewBlocks(l, d) /\ y = NewBlocks(l, c) /\ x <= y
    BY <2>1, <2>2 DEF NewBlocks, Later
  <2>4. l[d].free \in Nat /\ l[c].free \in Nat /\ l[d].free >= l[c].free
    BY <1>2 DEF Hit, Better
  <2> QED
    BY <2>3, <2>4 DEF Shortage, Later
<1>7. PICK x \in Int, y \in Int :
        /\ x = WHistorical * i * PromptLen * PrefillCost
        /\ y = WHistorical * j * PromptLen * PrefillCost
        /\ x <= y /\ (i < j => x < y)
  <2>1. PICK k \in Nat \ {0} : k = WHistorical * PromptLen * PrefillCost
    <3>1. PICK k \in Nat \ {0} : k = WHistorical * PromptLen
      BY <1>1
    <3> QED
      BY <1>1, <3>1
  <2>2. /\ WHistorical * i * PromptLen * PrefillCost = k * i
        /\ WHistorical * j * PromptLen * PrefillCost = k * j
    BY <1>1, <2>1
  <2> QED
    BY <1>3, <2>1, <2>2, ScaledOrder, SMTT(40)
<1>8. PICK v \in Int, w \in Int :
        /\ v = WEviction * g * BlockSize * PrefillCost /\ w = WEviction * h * BlockSize * PrefillCost
        /\ v <= w
  <2>1. PICK k \in Nat : k = WEviction * BlockSize * PrefillCost
    <3>1. PICK k \in Nat : k = WEviction * BlockSize
      BY <1>1
    <3> QED
      BY <1>1, <3>1
  <2>2. /\ WEviction * g * BlockSize * PrefillCost = k * g
        /\ WEviction * h * BlockSize * PrefillCost = k * h
    BY <1>1, <2>1
  <2> QED
    BY <1>6, <2>1, <2>2, ScaledOrder
<1>9. PICK r \in Int, s \in Int : r = WRun * e /\ s = WRun * f /\ r <= s /\ (e < f => r < s)
  BY <1>1, <1>4, ScaledOrder
<1>10. PICK a \in Int, b \in Int :
         /\ a = NodeCapacity * (v + r) /\ b = NodeCapacity * (w + s)
         /\ a <= b /\ (e < f => a < b)
  <2>1. v + r \in Int /\ w + s \in Int /\ v + r <= w + s /\ (e < f => v + r < w + s)
    BY <1>8, <1>9
  <2> QED
    BY <1>1, <2>1, ScaledOrder
<1>11. E2Score(p, l, t, d) = x + a /\ E2Score(p, l, t, c) = y + b
  BY <1>3, <1>4, <1>6, <1>7, <1>8, <1>9, <1>10, Zenon DEF E2Score
<1> QED
  BY <1>5, <1>7, <1>10, <1>11

(* And a higher one of the Conductor.                                        *)
LEMMA ConductorOrder ==
  ASSUME Weighted, Readable, NEW l \in Lookups,
         NEW d \in DecodeNodes, NEW c \in DecodeNodes, Better(d, c, l)
  PROVE  ~(ConductorScore(l, d) <= ConductorScore(l, c))
<1>1. /\ PromptLen \in Nat \ {0} /\ PrefillCost \in Nat \ {0} /\ NodeCapacity \in Nat \ {0}
      /\ Gamma \in Nat /\ Alpha \in Nat \ {0} /\ Beta \in Nat \ {0} /\ ChunkSize \in Nat \ {0}
  BY Numbers DEF Weighted
<1>2. Hit(l[d]) /\ Hit(l[c]) /\ d \in Nodes /\ c \in Nodes
  BY LookupFacts, Constants
<1>3. PICK i \in Nat, j \in Nat : i = Len(nodes[d].running) /\ j = Len(nodes[c].running) /\ i <= j
  BY <1>2, NodeTypes DEF Readable, Better
<1>4. PICK e \in Int, f \in Int : e = l[d].matched /\ f = l[c].matched /\ f <= e
  BY <1>1, <1>2 DEF Hit, Better
<1>5. i < j \/ f < e
  <2>1. e = f => Chunks(l[d]) = Chunks(l[c])
    BY <1>4 DEF Chunks
  <2>2. PICK m \in Int : m = Chunks(l[c])
    <3>1. PICK a \in Int : a = PromptLen - f + ChunkSize - 1
      BY <1>1
    <3>2. a \div ChunkSize \in Int
      BY <1>1
    <3> QED
      BY <1>4, <3>1, <3>2 DEF Chunks
  <2>3. i < j \/ Chunks(l[d]) < Chunks(l[c])
    BY <1>3 DEF Better
  <2> QED
    BY <1>4, <2>1, <2>2, <2>3
<1>6. PICK g \in Nat, h \in Nat :
        g = QueueWaitTime(nodes[d]) /\ h = QueueWaitTime(nodes[c]) /\ g <= h
  BY <1>2, WaitIsNumber DEF Readable, Better
<1>7. PICK x \in Int, y \in Int :
        /\ x = i * PromptLen * PrefillCost /\ y = j * PromptLen * PrefillCost
        /\ x <= y /\ (i < j => x < y)
  <2>1. PICK k \in Nat \ {0} : k = PromptLen * PrefillCost
    BY <1>1
  <2>2. i * PromptLen * PrefillCost = k * i /\ j * PromptLen * PrefillCost = k * j
    BY <1>1, <2>1
  <2> QED
    BY <1>3, <2>1, <2>2, ScaledOrder, SMTT(40)
<1>8. PICK v \in Int, w \in Int : v = NodeCapacity * g /\ w = NodeCapacity * h /\ v <= w
  BY <1>1, <1>6, ScaledOrder
<1>9. PICK q \in Int, s \in Int :
        q = Beta * (x + v) /\ s = Beta * (y + w) /\ q <= s /\ (i < j => q < s)
  <2>1. x + v \in Int /\ y + w \in Int /\ x + v <= y + w /\ (i < j => x + v < y + w)
    BY <1>7, <1>8
  <2> QED
    BY <1>1, <2>1, ScaledOrder
<1>10. PICK a \in Int, b \in Int :
         /\ a = Alpha * e * PrefillCost /\ b = Alpha * f * PrefillCost
         /\ b <= a /\ (f < e => b < a)
  <2>1. PICK k \in Nat \ {0} : k = Alpha * PrefillCost
    BY <1>1
  <2>2. Alpha * e * PrefillCost = k * e /\ Alpha * f * PrefillCost = k * f
    BY <1>1, <2>1
  <2> QED
    BY <1>4, <2>1, <2>2, ScaledOrder
<1>11. PICK m \in Int, n \in Int : m = Gamma * l[d].cost /\ n = Gamma * l[c].cost /\ m <= n
  <2>1. l[d].cost \in Int /\ l[c].cost \in Int /\ l[d].cost <= l[c].cost
    BY <1>2 DEF Hit, Better
  <2> QED
    BY <1>1, <2>1, ScaledOrder
<1>12. PICK r \in Int, u \in Int :
         /\ r = NodeCapacity * (a - m) /\ u = NodeCapacity * (b - n)
         /\ u <= r /\ (f < e => u < r)
  <2>1. a - m \in Int /\ b - n \in Int /\ b - n <= a - m /\ (f < e => b - n < a - m)
    BY <1>10, <1>11
  <2> QED
    BY <1>1, <2>1, ScaledOrder
<1>13. ConductorScore(l, d) = r - q /\ ConductorScore(l, c) = u - s
  BY <1>3, <1>4, <1>6, <1>7, <1>8, <1>9, <1>10, <1>11, <1>12, Zenon DEF ConductorScore, LoadScore
<1> QED
  BY <1>5, <1>9, <1>12, <1>13

(* PrefixGreedy leaves out a better node only below its threshold, and then  *)
(* for one that is no busier.                                                *)
LEMMA GreedyOrder ==
  ASSUME Readable, NEW l \in Lookups, NEW c, c = GreedyDecode(l),
         NEW d \in DecodeNodes, Better(d, c, l)
  PROVE  /\ 100 * l[d].matched < MinHitPercent * PromptLen
         /\ Len(nodes[d].running) >= Len(nodes[c].running)
<1>1. c \in DecodeNodes
  BY GreedyFacts
<1>2. Hit(l[d]) /\ Hit(l[c]) /\ d \in Nodes /\ c \in Nodes
  BY <1>1, LookupFacts, Constants
<1>3. PICK i \in Nat, j \in Nat : i = Len(nodes[d].running) /\ j = Len(nodes[c].running)
  BY <1>2, NodeTypes DEF Readable
<1>4. PICK e \in Int, f \in Int : e = l[d].matched /\ f = l[c].matched /\ f <= e
  <2>1. PromptLen \in Nat
    BY Numbers
  <2> QED
    BY <1>2, <2>1 DEF Hit, Better
<1>5. CASE e <= f /\ (e = f => j <= i)
  <2>1. e = f
    BY <1>4, <1>5
  <2>2. Chunks(l[d]) = Chunks(l[c]) /\ Chunks(l[c]) \in Int
    <3>1. ChunkSize \in Nat \ {0} /\ PromptLen \in Int
      BY Numbers
    <3>2. PICK a \in Int : a = PromptLen - f + ChunkSize - 1
      BY <3>1
    <3>3. a \div ChunkSize \in Int
      BY <3>1
    <3> QED
      BY <1>4, <2>1, <3>2, <3>3 DEF Chunks
  <2>3. i < j
    BY <1>3, <2>2 DEF Better
  <2> QED
    BY <1>5, <2>1, <2>3
<1>6. CASE 100 * l[d].matched < MinHitPercent * PromptLen /\ j <= i
  BY <1>3, <1>6
<1>7. \/ 100 * l[d].matched < MinHitPercent * PromptLen /\ j <= i
      \/ e <= f /\ (e = f => j <= i)
  BY <1>3, <1>4, GreedyFacts
<1> QED
  BY <1>5, <1>6, <1>7

(* No cache-aware policy passes over a decode node that is at least as good  *)
(* in all it looks at and less loaded, or a prefill chunk cheaper: E2 and    *)
(* the Conductor never, when the weights of load and hits are not zero, and  *)
(* PrefixGreedy not once a hit reaches its threshold.                        *)
THEOREM NoBetterNode ==
  ASSUME Weighted
  PROVE  RoutedSpec => []NeverTheWorse
<1>1. RoutedInv => NeverTheWorse
  <2> SUFFICES ASSUME RoutedInv, events # <<>>, Head(events).type = "REQUEST_ARRIVE",
                      policy \in {"prefix_greedy", "e2_policy", "conductor"},
                      NEW l \in Lookups, NEW d \in DecodeNodes,
                      Better(d, ChosenDecode(l, Head(events).time), l)
               PROVE  /\ policy = "prefix_greedy" /\ 100 * l[d].matched < MinHitPercent * PromptLen
                      /\ Len(nodes[d].running)
                           >= Len(nodes[ChosenDecode(l, Head(events).time)].running)
    BY DEF NeverTheWorse
  <2>1. Readable
    BY RoutedReadable
  <2>2. PICK t \in Nat : t = Head(events).time
    <3>1. events \in Seq(Event)
      BY DEF RoutedInv, Inv, Typed
    <3>2. Head(events) \in Event
      BY <3>1
    <3> QED
      BY <3>2 DEF Event
  <2>3. PICK c \in DecodeNodes : c = ChosenDecode(l, t)
    BY <2>1, ChoiceFacts DEF RoutedInv
  <2>4. Better(d, c, l)
    BY <2>2, <2>3
  <2>5. ChosenPrefill \in PrefillNodes
    BY <2>1, ChoiceFacts DEF RoutedInv
  <2>6. CASE policy = "e2_policy"
    <3>1. PICK p \in PrefillNodes : p = ChosenPrefill
      BY <2>5
    <3>2. c = E2Decode(p, l, t)
      BY <2>3, <2>6, <3>1 DEF ChosenDecode
    <3>3. E2Score(p, l, t, c) <= E2Score(p, l, t, d)
      BY <2>1, <3>2, E2Facts
    <3> QED
      BY <2>1, <2>4, <3>3, E2Order
  <2>7. CASE policy = "conductor"
    <3>1. c = ConductorDecode(l)
      BY <2>3, <2>7 DEF ChosenDecode
    <3>2. ConductorScore(l, d) <= ConductorScore(l, c)
      BY <2>1, <3>1, ConductorFacts
    <3> QED
      BY <2>1, <2>4, <3>2, ConductorOrder
  <2>8. CASE policy = "prefix_greedy"
    <3>1. c = GreedyDecode(l)
      BY <2>3, <2>8 DEF ChosenDecode
    <3>2. /\ 100 * l[d].matched < MinHitPercent * PromptLen
          /\ Len(nodes[d].running) >= Len(nodes[c].running)
      BY <2>1, <2>4, <3>1, GreedyOrder
    <3> QED
      BY <2>2, <2>3, <2>8, <3>2
  <2> QED
    BY <2>6, <2>7, <2>8
<1> QED
  BY <1>1, RoutedInitInv, RoutedNextInv, PTL DEF RoutedSpec

-----------------------------------------------------------------------------
(* The estimate of the first token.                                          *)
(*                                                                           *)
(* A request that shares no node is followed from its arrival: every event   *)
(* or list that holds it leaves time for what is still to do before its      *)
(* deadline, the arrival plus the estimate.                                  *)

(* The first decode step of a request that decodes alone, and the least time *)
(* between the end of a prefill and the first token.                         *)
FirstStep == EstimateDecodeTime(1)
Lag == TransferCost + FirstStep

(* The queued event e leaves r, with nodes p and d and u tokens to prefill,  *)
(* time for what comes behind it.                                            *)
OnTime(e, r, p, d, u, due) ==
  /\ e.type = "PREFILL_START" /\ e.req = r => e.time + u * PrefillCost + Lag <= due
  /\ e.type = "PREFILL_COMPLETE" /\ e.req = r => e.time + Lag <= due
  /\ e.type = "KV_TRANSFER_COMPLETE" /\ e.req = r => e.time + FirstStep <= due
  /\ e.type = "TOKEN_GENERATED" /\ e.req = r /\ e.step = 0 => e.time <= due
  /\ e.type = "DECODE_BATCH_STEP" /\ e.node = p =>
       \A i \in DOMAIN nodes[p].prefill : e.time + nodes[p].prefill[i].left * PrefillCost + Lag <= due
  /\ e.type = "DECODE_BATCH_STEP" /\ e.node = d /\ r \in nodes[d].decoding /\ nodes[d].tokens[r] = 0
       => e.time + FirstStep <= due

(* The events of r are on time, and the lanes are free in time for its       *)
(* transfer.                                                                 *)
Punctual(r, p, d, u, due) ==
  /\ \A e \in Queued : OnTime(e, r, p, d, u, due)
  /\ r \in Running(nodes[p]) \cup Waiting(nodes[p]) =>
       egressAvailableAt[p] + Lag <= due /\ ingressAvailableAt[d] + Lag <= due

(* r is in the cluster, alone on its nodes p and d.                          *)
Alone(r, p, d) ==
  /\ r \in Decided /\ p = decisions[r].prefill /\ d = decisions[r].decode
  /\ \A q \in Decided \ {r} : decisions[q].prefill # p /\ decisions[q].decode # d

Forecast == [arrived : Nat, ttft : Int, uncached : Nat, alone : BOOLEAN]

(* r is on time by its forecast, and so are all that are alone.              *)
TimelyAt(r) ==
  \E p \in PrefillNodes, d \in DecodeNodes :
    /\ Alone(r, p, d)
    /\ Punctual(r, p, d, forecast[r].uncached, forecast[r].arrived + forecast[r].ttft)

Timely ==
  /\ forecast \in [Requests -> Forecast]
  /\ \A r \in Requests : forecast[r].alone => TimelyAt(r)

(* The estimate covers the prefill, the transfer and the first step, and so  *)
(* does it behind what the lanes have to carry first.                        *)
LEMMA EstimateCovers ==
  ASSUME Readable, NEW p \in PrefillNodes, NEW d \in DecodeNodes, NEW hit, Hit(hit), NEW t \in Nat,
         NEW u \in Nat, u = PromptLen - hit.matched
  PROVE  /\ EstTtft(p, d, hit, t) \in Int
         /\ t + u * PrefillCost + Lag <= t + EstTtft(p, d, hit, t)
         /\ egressAvailableAt[p] + Lag <= t + EstTtft(p, d, hit, t)
         /\ ingressAvailableAt[d] + Lag <= t + EstTtft(p, d, hit, t)
<1>1. /\ ChunkSize \in Nat \ {0} /\ PrefillCost \in Nat \ {0} /\ DecodeBase \in Nat
      /\ MarginalDecode \in Nat /\ TransferCost \in Nat
  BY Numbers
<1>2. /\ p \in Nodes /\ d \in Nodes
      /\ egressAvailableAt[p] \in Nat /\ ingressAvailableAt[d] \in Nat
  BY Constants DEF Readable
<1>3. PICK w \in Nat : w = QueueWaitTime(nodes[p])
  BY <1>2, WaitIsNumber DEF Readable
<1>4. IsFiniteSet(nodes[p].decoding) /\ IsFiniteSet(nodes[d].decoding)
  BY <1>2, NodeTypes, FS_Subset, Constants DEF Readable
<1>5. PICK bp \in Nat : bp = Cardinality(nodes[p].decoding) + 1
  BY <1>4, FS_CardinalityType
<1>6. PICK b \in Nat : b = Cardinality(nodes[d].decoding) + 1 /\ 1 <= b
  BY <1>4, FS_CardinalityType
<1>7. PICK f \in Nat, g \in Nat : f = FirstStep /\ g = EstimateDecodeTime(b) /\ f <= g
  <2>1. PICK x \in Int, y \in Int : x = MarginalDecode * 1 /\ y = MarginalDecode * b /\ x <= y
    BY <1>1, <1>6, ScaledOrder
  <2>2. b * MarginalDecode = MarginalDecode * b /\ 1 * MarginalDecode = MarginalDecode * 1
    BY <1>1
  <2>3. MarginalDecode * 1 = MarginalDecode
    BY <1>1
  <2> QED
    BY <1>1, <2>1, <2>2, <2>3 DEF EstimateDecodeTime, FirstStep
<1>8. PICK v \in Nat, z \in Nat :
        v = u * PrefillCost /\ z = EstimatePrefillTime(u, bp) /\ v <= z
  <2>1. PICK a \in Nat : a = u + ChunkSize - 1
    BY <1>1
  <2>2. PICK x \in Int : x = a \div ChunkSize
    BY <1>1
  <2>3. PICK m \in 0..ChunkSize - 1 : a = ChunkSize * x + m
    <3>1. a % ChunkSize \in 0..ChunkSize - 1
      BY <1>1
    <3>2. a = ChunkSize * (a \div ChunkSize) + (a % ChunkSize)
      BY <1>1
    <3> QED
      BY <2>2, <3>1, <3>2
  <2>4. PICK c \in Int : c = ChunkSize * x /\ u <= c
    BY <1>1, <2>1, <2>3
  <2>5. x \in Nat
    <3> SUFFICES ASSUME x < 0
                 PROVE  FALSE
      OBVIOUS
    <3>1. PICK j \in Nat : x = -1 - j
      BY -1 - x \in Nat
    <3>2. ChunkSize * j \in Nat /\ ChunkSize * x = -ChunkSize - ChunkSize * j
      BY <1>1, <3>1
    <3> QED
      BY <1>1, <2>4, <3>2
  <2>6. PICK k \in Nat : k = DecodeBase + bp * MarginalDecode
    <3>1. bp * MarginalDecode \in Nat
      BY <1>1
    <3> QED
      BY <1>1, <3>1
  <2>7. k * x \in Nat
    BY <2>5, <2>6
  <2>8. x * (ChunkSize * PrefillCost + k) = PrefillCost * c + k * x
    BY <1>1, <2>4, <2>5, <2>6
  <2>9. PICK e \in Int, h \in Int : e = PrefillCost * u /\ h = PrefillCost * c /\ e <= h
    BY <1>1, <2>4, ScaledOrder
  <2>10. u * PrefillCost = PrefillCost * u /\ u * PrefillCost \in Nat
    BY <1>1
  <2>11. EstimatePrefillTime(u, bp) = x * (ChunkSize * PrefillCost + k)
    <3>1. ChunkSize * PrefillCost \in Nat /\ bp * MarginalDecode \in Nat
      BY <1>1
    <3>2. ChunkSize * PrefillCost + DecodeBase + bp * MarginalDecode = ChunkSize * PrefillCost + k
      BY <1>1, <2>6, <3>1
    <3> QED
      BY <2>1, <2>2, <3>2 DEF EstimatePrefillTime
  <2> QED
    BY <2>7, <2>8, <2>9, <2>10, <2>11
<1>9. PICK i \in Nat : /\ i = LaneWait(p, d, t)
                       /\ egressAvailableAt[p] - t <= i /\ ingressAvailableAt[d] - t <= i
  BY <1>2 DEF LaneWait, Later
<1>10. EstTtft(p, d, hit, t) = z + w + TransferCost + i + hit.cost + g
  BY <1>3, <1>5, <1>6, <1>7, <1>8, <1>9, Zenon DEF EstTtft
<1>11. hit.cost \in Nat /\ Lag = TransferCost + f
  BY <1>7 DEF Hit, Lag
<1> QED
  BY <1>1, <1>2, <1>7, <1>8, <1>9, <1>10, <1>11

(* A request on a node was sent there.                                       *)
LEMMA OnNode ==
  ASSUME Inv, NEW n \in Nodes, NEW q,
         q \in Running(nodes[n]) \cup Waiting(nodes[n]) \cup Prefilling(nodes[n]) \cup nodes[n].decoding
  PROVE  /\ q \in Decided
         /\ n \in PrefillNodes => n = decisions[q].prefill /\ q \notin nodes[n].decoding
         /\ n \in DecodeNodes => /\ n = decisions[q].decode
                                 /\ q \notin Prefilling(nodes[n]) /\ q \notin Waiting(nodes[n])
<1>1. q \in Requests
  BY NodeTypes DEF Inv, Typed
<1>2. PICK k \in Positions : At(q, k)
  BY <1>1 DEF Inv
<1>3. k \notin Outside
  BY <1>2 DEF At, Placed, Outside
<1>4. q \in Decided
  BY <1>2, <1>3 DEF At, Booked
<1>5. /\ decisions[q].prefill \in PrefillNodes /\ decisions[q].decode \in DecodeNodes
      /\ \A x \in PrefillNodes, y \in DecodeNodes : x # y
  BY <1>4, Constants DEF Inv, Typed
<1> QED
  BY <1>2, <1>4, <1>5 DEF At, Placed

(* Nobody else is on the nodes of a request that is alone.                   *)
OnlyOn(r, p, d) ==
  /\ r \in Requests /\ p \in PrefillNodes /\ d \in DecodeNodes
  /\ p \in Nodes /\ d \in Nodes /\ p # d
  /\ Prefilling(nodes[p]) \subseteq {r} /\ nodes[p].decoding = {}
  /\ nodes[d].decoding \subseteq {r} /\ nodes[d].prefill = <<>>

(* What Alone says of the nodes, of which only r can be on p and d.          *)
LEMMA AloneOnNodes == \A r, p, d : Inv /\ Alone(r, p, d) => OnlyOn(r, p, d)
<1> SUFFICES ASSUME NEW r, NEW p, NEW d, Inv, Alone(r, p, d)
             PROVE  OnlyOn(r, p, d)
  OBVIOUS
<1>1. /\ r \in Decided /\ p = decisions[r].prefill /\ d = decisions[r].decode
      /\ \A q \in Decided \ {r} : decisions[q].prefill # p /\ decisions[q].decode # d
  BY DEF Alone
<1>2. /\ r \in Requests /\ p \in PrefillNodes /\ d \in DecodeNodes
      /\ p \in Nodes /\ d \in Nodes /\ p # d
  BY <1>1, Constants DEF Inv, Typed, Decided
<1>3. \A q \in Prefilling(nodes[p]) \cup nodes[p].decoding : q = r /\ q \notin nodes[p].decoding
  BY <1>1, <1>2, OnNode
<1>4. \A q \in Prefilling(nodes[d]) \cup nodes[d].decoding : q = r /\ q \notin Prefilling(nodes[d])
  BY <1>1, <1>2, OnNode
<1>5. nodes[d].prefill = <<>>
  <2>1. nodes[d].prefill \in Seq(PrefillEntry)
    BY <1>2, NodeTypes DEF Inv, Typed
  <2> SUFFICES ASSUME nodes[d].prefill # <<>>
               PROVE  FALSE
    OBVIOUS
  <2>2. 1 \in DOMAIN nodes[d].prefill
    BY <2>1
  <2>3. nodes[d].prefill[1].req \in Prefilling(nodes[d])
    BY <2>2 DEF Prefilling
  <2> QED
    BY <1>4, <2>3
<1> QED
  BY <1>2, <1>3, <1>4, <1>5 DEF OnlyOn

(* The same after a step.                                                    *)
LEMMA AloneOnNodesNext == (\A r, p, d : Inv /\ Alone(r, p, d) => OnlyOn(r, p, d))'
BY AloneOnNodes, PTL

(* A node whose prefills are of r alone has none, or one entry.              *)
LEMMA OnePrefill ==
  ASSUME NEW N, WellFormed(N), NEW r, Prefilling(N) \subseteq {r}
  PROVE  /\ r \notin Prefilling(N) => N.prefill = <<>>
         /\ N.prefill # <<>> => Len(N.prefill) = 1 /\ N.prefill[1].req = r
<1>1. N.prefill \in Seq(PrefillEntry)
  BY NodeTypes
<1>2. \A i \in DOMAIN N.prefill : N.prefill[i].req \in Prefilling(N)
  BY DEF Prefilling
<1>3. \A i, j \in DOMAIN N.prefill : i = j
  BY <1>2 DEF WellFormed
<1>4. N.prefill # <<>> => 1 \in DOMAIN N.prefill
  BY <1>1
<1>5. PICK n \in Nat : n = Len(N.prefill) /\ DOMAIN N.prefill = 1..n
  BY <1>1
<1>6. N.prefill # <<>> => n # 0
  BY <1>4, <1>5
<1>7. ~(n > 1)
  <2> SUFFICES ASSUME n > 1
               PROVE  FALSE
    OBVIOUS
  <2>1. 1 \in DOMAIN N.prefill /\ 2 \in DOMAIN N.prefill
    BY <1>5
  <2> QED
    BY <1>3, <2>1
<1>8. N.prefill # <<>> => Len(N.prefill) = 1
  <2>1. n # 0 => n = 1
    BY <1>7
  <2> QED
    BY <1>5, <1>6, <2>1
<1>9. N.prefill # <<>> => N.prefill[1].req \in Prefilling(N)
  BY <1>2, <1>4
<1>10. N.prefill # <<>> => N.prefill[1].req = r /\ r \in Prefilling(N)
  BY <1>9
<1> QED
  BY <1>8, <1>10

(* A list of one entry.                                                      *)
LEMMA OneEntry ==
  ASSUME NEW S, NEW s \in Seq(S), Len(s) = 1
  PROVE  /\ s # <<>> /\ 1 \in DOMAIN s /\ Head(s) = s[1] /\ s[1] \in S
         /\ Tail(s) = <<>> /\ DOMAIN s = {1}
<1>1. DOMAIN s = {1} /\ s[1] \in S
  OBVIOUS
<1>2. s # <<>>
  OBVIOUS
<1>3. Head(s) = s[1]
  BY <1>2
<1>4. Tail(s) \in Seq(S) /\ Len(Tail(s)) = 0
  BY <1>2, HeadTailProperties
<1>5. Tail(s) = <<>>
  BY <1>4, EmptySeq
<1> QED
  BY <1>1, <1>2, <1>3, <1>5

(* A step of a node that only prefills one request takes the time of its     *)
(* chunk, and that much less is left.                                        *)
LEMMA TickLeft ==
  ASSUME NEW N, WellFormed(N), N.decoding = {}, Len(N.prefill) = 1
  PROVE  \E c \in Nat, left \in Nat :
           /\ left = N.prefill[1].left /\ c <= left
           /\ StepTime(Cleared(N)) = c * PrefillCost
           /\ PrefillFinished(N) # {} => c = left
           /\ \A i \in DOMAIN TickBatchStep(Cleared(N)).prefill :
                TickBatchStep(Cleared(N)).prefill[i].left = left - c
<1>1. PICK W : W = Cleared(N)
  OBVIOUS
<1>2. WellFormed(W) /\ W.decoding = {} /\ W.prefill = N.prefill
  BY <1>1, ClearedFacts
<1>3. W.prefill \in Seq(PrefillEntry) /\ ChunkSize \in Nat \ {0} /\ PrefillCost \in Nat \ {0}
  BY <1>2, NodeTypes, Numbers
<1>4. /\ W.prefill # <<>> /\ 1 \in DOMAIN W.prefill /\ Head(W.prefill) = W.prefill[1]
      /\ W.prefill[1] \in PrefillEntry /\ Tail(W.prefill) = <<>> /\ DOMAIN W.prefill = {1}
  BY <1>2, <1>3, OneEntry
<1>5. PICK left \in Nat \ {0} : left = W.prefill[1].left
  BY <1>4 DEF PrefillEntry
<1>6. PICK c \in Nat : c = Chunk(W) /\ c <= left /\ (left <= ChunkSize => c = left)
  BY <1>3, <1>4, <1>5 DEF Chunk
<1>7. StepTime(W) = c * PrefillCost
  <2>1. c * PrefillCost \in Nat
    BY <1>3
  <2> QED
    BY <1>2, <1>6, <2>1 DEF StepTime
<1>8. PrefillFinished(N) # {} => c = left
  BY <1>2, <1>4, <1>5, <1>6 DEF PrefillFinished
<1>9. ASSUME NEW i \in DOMAIN TickBatchStep(W).prefill
      PROVE  TickBatchStep(W).prefill[i].left = left - c
  <2>1. W \in NodeValue
    BY <1>2 DEF WellFormed
  <2> DEFINE ticked == [W EXCEPT !.tokens = [q \in Requests |->
                                   IF q \in W.decoding THEN W.tokens[q] + 1 ELSE W.tokens[q]],
                                 !.decoding = W.decoding \ DecodeFinished(W)]
  <2>2. TickBatchStep(W) =
          IF left - c = 0
          THEN MarkPrefillDone([ticked EXCEPT !.prefill = Tail(W.prefill)], Head(W.prefill).req)
          ELSE [ticked EXCEPT !.prefill = [W.prefill EXCEPT ![1].left = left - c]]
    BY <1>4, <1>5, <1>6, <2>1 DEF TickBatchStep, NodeValue
  <2>3. CASE left - c = 0
    <3>1. TickBatchStep(W).prefill = <<>>
      BY <1>4, <2>1, <2>2, <2>3 DEF MarkPrefillDone, NodeValue
    <3> QED
      BY <1>9, <3>1
  <2>4. CASE left - c # 0
    <3>1. TickBatchStep(W).prefill = [W.prefill EXCEPT ![1].left = left - c]
      BY <2>1, <2>2, <2>4 DEF NodeValue
    <3>2. i = 1
      BY <1>4, <1>9, <3>1
    <3> QED
      BY <1>4, <3>1, <3>2 DEF PrefillEntry
  <2> QED
    BY <2>3, <2>4
<1>10. c \in Nat /\ left \in Nat /\ left = N.prefill[1].left
  BY <1>2, <1>5
<1> QED
  BY <1>1, <1>6, <1>7, <1>8, <1>9, <1>10

-----------------------------------------------------------------------------
(* Steps that do not concern the request.                                    *)

(* The event e is not one that OnTime looks at.                              *)
Aside(e, r, p, d) ==
  /\ e.type = "DECODE_BATCH_STEP" => e.node # p /\ e.node # d
  /\ e.req = r => e.type \notin {"PREFILL_START", "PREFILL_COMPLETE", "KV_TRANSFER_COMPLETE",
                                 "TOKEN_GENERATED"}

(* A step leaves the nodes and the lanes of r alone.                         *)
Undisturbed(r, p, d) ==
  /\ nodes'[p] = nodes[p] /\ nodes'[d] = nodes[d]
  /\ egressAvailableAt'[p] = egressAvailableAt[p] /\ ingressAvailableAt'[d] = ingressAvailableAt[d]
  /\ \E es : Scheduling(es) /\ \A e \in ToSet(es) : Aside(e, r, p, d)

(* An event that stays is on time unless it is a step of a node that has     *)
(* changed.                                                                  *)
LEMMA StaysOnTime ==
  ASSUME NEW CONSTANT e, NEW CONSTANT r, NEW CONSTANT p, NEW CONSTANT d, NEW CONSTANT u,
         NEW CONSTANT due, OnTime(e, r, p, d, u, due),
         nodes'[p] = nodes[p] \/ e.type # "DECODE_BATCH_STEP" \/ e.node # p,
         nodes'[d] = nodes[d] \/ e.type # "DECODE_BATCH_STEP" \/ e.node # d
  PROVE  OnTime(e, r, p, d, u, due)'
<1>1. e.type = "DECODE_BATCH_STEP" /\ e.node = p => nodes'[p] = nodes[p]
  OBVIOUS
<1>2. e.type = "DECODE_BATCH_STEP" /\ e.node = d => nodes'[d] = nodes[d]
  OBVIOUS
<1> QED
  BY <1>1, <1>2 DEF OnTime

(* A request that a step does not disturb stays on time.                     *)
LEMMA UndisturbedPunctual ==
  ASSUME NEW CONSTANT r, NEW CONSTANT p, NEW CONSTANT d, NEW CONSTANT u, NEW CONSTANT due,
         Inv, NEW CONSTANT type, Pop(type), Punctual(r, p, d, u, due), Undisturbed(r, p, d)
  PROVE  Punctual(r, p, d, u, due)'
<1>1. PICK es : Scheduling(es) /\ \A e \in ToSet(es) : Aside(e, r, p, d)
  BY DEF Undisturbed
<1>2. Queued = {Head(events)} \cup Rest /\ Queued' = Rest \cup ToSet(es)
  BY <1>1, PopEffect DEF Scheduling
<1>3. ASSUME NEW e \in Rest
      PROVE  OnTime(e, r, p, d, u, due)'
  <2>1. OnTime(e, r, p, d, u, due)
    BY <1>2 DEF Punctual
  <2> QED
    BY <2>1, StaysOnTime DEF Undisturbed
<1>4. ASSUME NEW e \in ToSet(es)
      PROVE  OnTime(e, r, p, d, u, due)'
  BY <1>1 DEF OnTime, Aside
<1> QED
  BY <1>2, <1>3, <1>4 DEF Punctual, Undisturbed

(* Handlers that only tell, or refuse an arrival.                            *)
LEMMA TellingUndisturbed ==
  ASSUME NEW CONSTANT r, NEW CONSTANT p, NEW CONSTANT d, Inv,
         Scheduled \/ Rejected \/ TransferStarts \/ TokenGenerated \/ ArriveRejected
  PROVE  Undisturbed(r, p, d)
<1>1. UNCHANGED nodes /\ UNCHANGED laneVars
  BY DEF Scheduled, Rejected, TransferStarts, TokenGenerated, ArriveRejected
<1>2. \E es : Scheduling(es) /\ \A e \in ToSet(es) : Aside(e, r, p, d)
  <2>1. CASE Scheduled \/ Rejected \/ TransferStarts \/ TokenGenerated
    <3>1. \E type : Pop(type) /\ Handle(<<>>)
      BY <2>1 DEF Scheduled, Rejected, TransferStarts, TokenGenerated
    <3>2. \E es : Scheduling(es) /\ ToSet(es) = {}
      BY <3>1, QuietEffect
    <3> QED
      BY <3>2
  <2>2. CASE ArriveRejected
    <3>1. PICK es : /\ Scheduling(es)
                    /\ \A e \in ToSet(es) : e.type = "REQUEST_REJECTED" \/ e.type = "REQUEST_ARRIVE"
      BY <2>2, ArriveRejectedEffect
    <3>2. \A e \in ToSet(es) : Aside(e, r, p, d)
      BY <3>1 DEF Aside
    <3> QED
      BY <3>1, <3>2
  <2> QED
    BY <2>1, <2>2
<1> QED
  BY <1>1, <1>2 DEF Undisturbed, laneVars

(* Another request is routed, to other nodes.                                *)
LEMMA RoutedUndisturbed ==
  ASSUME NEW CONSTANT r, NEW CONSTANT p, NEW CONSTANT d, Inv, Alone(r, p, d), Alone(r, p, d)',
         NEW CONSTANT s \in PrefillNodes, NEW CONSTANT t \in DecodeNodes, ArriveRouted(s, t)
  PROVE  Undisturbed(r, p, d)
<1>1. OnlyOn(r, p, d)
  BY AloneOnNodes
<1>2. PICK q \in Requests : q = Req /\ At(q, "announced")
  BY ArriveRoutedEffect
<1>3. q # r /\ q \notin Decided
  BY <1>2 DEF At, Booked, Outside, Alone
<1>4. PICK D : /\ decisions' = [decisions EXCEPT ![q] = D]
               /\ D.prefill = s /\ D.decode = t /\ D # NoDecision
  BY <1>2, ArriveRoutedEffect
<1>5. DOMAIN decisions = Requests
  BY DEF Inv, Typed
<1>6. q \in Decided' /\ decisions'[q].prefill = s
  BY <1>4, <1>5 DEF Decided
<1>7. s # p /\ s # d
  BY <1>1, <1>3, <1>6, Constants DEF Alone, OnlyOn
<1>8. PICK A : nodes' = [nodes EXCEPT ![s] = A]
  BY ArriveRoutedEffect
<1>9. nodes'[p] = nodes[p] /\ nodes'[d] = nodes[d]
  BY <1>1, <1>7, <1>8 DEF OnlyOn, Inv, Typed
<1>10. PICK es : /\ Scheduling(es)
                 /\ \A e \in ToSet(es) : \/ e.type = "SCHEDULED" \/ e.type = "REQUEST_ARRIVE"
                                         \/ e.type = "PREFILL_START" /\ e.req = q
  BY <1>2, ArriveRoutedEffect
<1>11. \A e \in ToSet(es) : Aside(e, r, p, d)
  BY <1>3, <1>10 DEF Aside
<1>12. UNCHANGED laneVars
  BY DEF ArriveRouted
<1> QED
  BY <1>9, <1>10, <1>11, <1>12 DEF Undisturbed, laneVars

(* The nodes of another request of the cluster are other nodes.              *)
LEMMA OtherNodes ==
  ASSUME NEW r, NEW p, NEW d, Inv, Alone(r, p, d), NEW q \in Decided, q # r
  PROVE  /\ decisions[q].prefill # p /\ decisions[q].prefill # d
         /\ decisions[q].decode # p /\ decisions[q].decode # d
<1>1. OnlyOn(r, p, d)
  BY AloneOnNodes
<1>2. decisions[q].prefill \in PrefillNodes /\ decisions[q].decode \in DecodeNodes
  BY DEF Inv, Typed
<1> QED
  BY <1>1, <1>2, Constants DEF OnlyOn, Alone

(* Another request is carried on.                                            *)
LEMMA CarriedUndisturbed ==
  ASSUME NEW CONSTANT r, NEW CONSTANT p, NEW CONSTANT d, Inv, Alone(r, p, d), Req # r,
         \/ PrefillStartCached \/ PrefillStartChunked \/ PrefillComplete
         \/ TransferRejected \/ TransferAdmitted \/ DecodeComplete
  PROVE  Undisturbed(r, p, d)
<1>1. OnlyOn(r, p, d) /\ DOMAIN nodes = Nodes
  BY AloneOnNodes DEF Inv, Typed
<1>2. CASE PrefillStartCached \/ PrefillStartChunked
  <2>1. PICK q \in Requests, n \in PrefillNodes :
          q = Req /\ n = Node /\ At(q, "starting") /\ n = decisions[q].prefill
    BY <1>2, PrefillStartEffect
  <2>2. q \in Decided
    BY <2>1 DEF At, Booked, Outside
  <2>3. n # p /\ n # d
    BY <2>1, <2>2, OtherNodes
  <2>4. PICK A : nodes' = [nodes EXCEPT ![n] = A]
    BY <1>2, <2>1, PrefillStartEffect
  <2>5. PICK es : /\ Scheduling(es)
                  /\ \A e \in ToSet(es) : \/ e.type = "PREFILL_COMPLETE" /\ e.req = q
                                          \/ e.type = "DECODE_BATCH_STEP" /\ e.node = n
    BY <1>2, <2>1, PrefillStartEffect
  <2>6. \A e \in ToSet(es) : Aside(e, r, p, d)
    BY <2>1, <2>3, <2>5 DEF Aside
  <2>7. UNCHANGED laneVars
    BY <1>2 DEF PrefillStartCached, PrefillStartChunked
  <2>8. nodes'[p] = nodes[p] /\ nodes'[d] = nodes[d]
    BY <1>1, <2>3, <2>4 DEF OnlyOn
  <2> QED
    BY <2>5, <2>6, <2>7, <2>8 DEF Undisturbed, laneVars
<1>3. CASE PrefillComplete
  <2>1. PICK q \in Requests, n \in PrefillNodes :
          q = Req /\ n = Node /\ At(q, "prefilled") /\ n = decisions[q].prefill
    BY <1>3, PrefillCompleteEffect
  <2>2. q \in Decided
    BY <2>1 DEF At, Booked, Outside
  <2>3. PICK m : m = decisions[q].decode
    OBVIOUS
  <2>4. n # p /\ n # d /\ m # d
    BY <2>1, <2>2, <2>3, OtherNodes
  <2>5. PICK A : nodes' = [nodes EXCEPT ![n] = A]
    BY <1>3, <2>1, PrefillCompleteEffect
  <2>6. PICK es : /\ Scheduling(es)
                  /\ \A e \in ToSet(es) :
                       \/ e.type = "PREFILL_START" /\ e.req \in Waiting(nodes[n])
                       \/ e.type = "KV_TRANSFER_START" /\ e.req = q
                       \/ e.type = "KV_TRANSFER_COMPLETE" /\ e.req = q
    BY <1>3, <2>1, PrefillCompleteEffect
  <2>7. r \notin Waiting(nodes[n])
    <3> SUFFICES ASSUME r \in Waiting(nodes[n])
                 PROVE  FALSE
      OBVIOUS
    <3>1. n \in Nodes
      BY Constants
    <3>2. n = decisions[r].prefill
      BY <3>1, OnNode
    <3> QED
      BY <2>4, <3>2 DEF Alone
  <2>8. \A e \in ToSet(es) : Aside(e, r, p, d)
    BY <2>1, <2>6, <2>7 DEF Aside
  <2>9. egressAvailableAt'[p] = egressAvailableAt[p] /\ ingressAvailableAt'[d] = ingressAvailableAt[d]
    <3>1. RequestTransfer(n, m, now', TransferCost)
      BY <1>3, <2>1, <2>3, PrefillCompleteEffect
    <3>2. egressAvailableAt \in [Nodes -> Nat] /\ ingressAvailableAt \in [Nodes -> Nat]
      BY DEF Inv, Typed
    <3> QED
      BY <1>1, <2>4, <3>1, <3>2 DEF RequestTransfer, laneVars, OnlyOn
  <2>10. nodes'[p] = nodes[p] /\ nodes'[d] = nodes[d]
    BY <1>1, <2>4, <2>5 DEF OnlyOn
  <2> QED
    BY <2>6, <2>8, <2>9, <2>10 DEF Undisturbed
<1>4. CASE TransferRejected
  <2>1. PICK es : Scheduling(es) /\ \A e \in ToSet(es) : e.type = "REQUEST_REJECTED"
    BY <1>4, TransferRejectedEffect
  <2>2. UNCHANGED nodes /\ UNCHANGED laneVars
    BY <1>4 DEF TransferRejected
  <2>3. \A e \in ToSet(es) : Aside(e, r, p, d)
    BY <2>1 DEF Aside
  <2> QED
    BY <2>1, <2>2, <2>3 DEF Undisturbed, laneVars
<1>5. CASE TransferAdmitted
  <2>1. PICK q \in Requests : q = Req /\ At(q, "transfer")
    BY <1>5, TransferAdmittedEffect
  <2>2. q \in Decided
    BY <2>1 DEF At, Booked, Outside
  <2>3. PICK n \in DecodeNodes :
          /\ n = decisions[q].decode
          /\ \E A : nodes' = [nodes EXCEPT ![n] = A]
          /\ \E es : /\ Scheduling(es)
                     /\ \A e \in ToSet(es) : e.type = "DECODE_BATCH_STEP" /\ e.node = n
    BY <1>5, <2>1, TransferAdmittedEffect
  <2>4. n # p /\ n # d
    BY <2>1, <2>2, <2>3, OtherNodes
  <2>5. nodes'[p] = nodes[p] /\ nodes'[d] = nodes[d]
    BY <1>1, <2>3, <2>4 DEF OnlyOn
  <2>6. PICK es : /\ Scheduling(es)
                  /\ \A e \in ToSet(es) : e.type = "DECODE_BATCH_STEP" /\ e.node = n
    BY <2>3
  <2>7. \A e \in ToSet(es) : Aside(e, r, p, d)
    BY <2>4, <2>6 DEF Aside
  <2>8. UNCHANGED laneVars
    BY <1>5 DEF TransferAdmitted
  <2> QED
    BY <2>5, <2>6, <2>7, <2>8 DEF Undisturbed, laneVars
<1>6. CASE DecodeComplete
  <2>1. PICK q \in Requests, n \in DecodeNodes :
          q = Req /\ n = Node /\ At(q, "decoded") /\ n = decisions[q].decode
    BY <1>6, DecodeCompleteEffect
  <2>2. q \in Decided
    BY <2>1 DEF At, Booked, Outside
  <2>3. n # p /\ n # d
    BY <2>1, <2>2, OtherNodes
  <2>4. PICK A : nodes' = [nodes EXCEPT ![n] = A]
    BY <1>6, <2>1, DecodeCompleteEffect
  <2>5. PICK es : Scheduling(es) /\ ToSet(es) = {}
    BY <1>6, DecodeCompleteEffect
  <2>6. UNCHANGED laneVars
    BY <1>6 DEF DecodeComplete
  <2>7. nodes'[p] = nodes[p] /\ nodes'[d] = nodes[d]
    BY <1>1, <2>3, <2>4 DEF OnlyOn
  <2> QED
    BY <2>5, <2>6, <2>7 DEF Undisturbed, laneVars
<1> QED
  BY <1>2, <1>3, <1>4, <1>5, <1>6

(* Another node takes a batch step.                                          *)
LEMMA StepUndisturbed ==
  ASSUME NEW CONSTANT r, NEW CONSTANT p, NEW CONSTANT d, Inv, Alone(r, p, d), BatchStep,
         Node # p, Node # d
  PROVE  Undisturbed(r, p, d)
<1>1. OnlyOn(r, p, d) /\ DOMAIN nodes = Nodes
  BY AloneOnNodes DEF Inv, Typed
<1>2. PICK n \in Nodes : n = Node
  BY BatchStepEffect
<1>3. PICK A : nodes' = [nodes EXCEPT ![n] = A]
  BY <1>2, BatchStepEffect
<1>4. PICK es, end : Scheduling(es) /\ StepList(es, nodes[n], n, end)
  BY <1>2, BatchStepEffect
<1>5. r \notin Prefilling(nodes[n]) /\ r \notin nodes[n].decoding
  <2> SUFFICES ASSUME r \in Prefilling(nodes[n]) \cup nodes[n].decoding
               PROVE  FALSE
    OBVIOUS
  <2>1. n = decisions[r].prefill \/ n = decisions[r].decode
    BY <1>2, OnNode, Constants
  <2> QED
    BY <1>2, <2>1 DEF Alone
<1>6. PrefillFinished(nodes[n]) \subseteq Prefilling(nodes[n])
  BY TickFacts DEF Inv, Typed
<1>7. \A e \in ToSet(es) : Aside(e, r, p, d)
  BY <1>2, <1>4, <1>5, <1>6 DEF StepList, Aside
<1>8. UNCHANGED laneVars
  BY DEF BatchStep
<1>9. nodes'[p] = nodes[p] /\ nodes'[d] = nodes[d]
  BY <1>1, <1>2, <1>3 DEF OnlyOn
<1> QED
  BY <1>4, <1>7, <1>8, <1>9 DEF Undisturbed, laneVars

-----------------------------------------------------------------------------
(* The steps of the request itself.                                          *)

(* The times of the first step and of the transfer are numbers.              *)
LEMMA LagFacts == FirstStep \in Nat /\ Lag \in Nat /\ Lag = TransferCost + FirstStep
<1>1. DecodeBase \in Nat /\ MarginalDecode \in Nat /\ TransferCost \in Nat
  BY Numbers
<1>2. 1 * MarginalDecode \in Nat
  BY <1>1
<1>3. FirstStep \in Nat
  BY <1>1, <1>2 DEF FirstStep, EstimateDecodeTime
<1> QED
  BY <1>1, <1>3 DEF Lag

(* An idle node has no step queued, and a node whose step is popped no       *)
(* other.                                                                    *)
LEMMA NoOtherStep ==
  ASSUME Inv, NEW n \in Nodes, NEW type, Pop(type),
         \/ nodes[n].prefill = <<>> /\ nodes[n].decoding = {}
         \/ type = "DECODE_BATCH_STEP" /\ Node = n
  PROVE  \A e \in Rest : e.type # "DECODE_BATCH_STEP" \/ e.node # n
<1>1. Typed /\ Apart(events, Clash) /\ Awake(n)
  BY DEF Inv
<1>2. /\ type = "DECODE_BATCH_STEP" => \A f \in Rest : f.type = "DECODE_BATCH_STEP" => f.node # Node
      /\ Queued = {Head(events)} \cup Rest
  BY <1>1, HeadIsAlone
<1>3. CASE nodes[n].prefill = <<>> /\ nodes[n].decoding = {}
  BY <1>1, <1>2, <1>3 DEF Awake, HasWork, StepIn
<1>4. CASE type = "DECODE_BATCH_STEP" /\ Node = n
  BY <1>2, <1>4
<1> QED
  BY <1>3, <1>4

(* What the steps of r start from.                                           *)
Begins(r, p, d, u, due) ==
  /\ Inv /\ Alone(r, p, d) /\ OnlyOn(r, p, d) /\ Punctual(r, p, d, u, due)
  /\ u \in Nat /\ due \in Int

(* The queue after a step, on time if what stays and what is new is.         *)
LEMMA PunctualAfter ==
  ASSUME NEW CONSTANT r, NEW CONSTANT p, NEW CONSTANT d, NEW CONSTANT u, NEW CONSTANT due,
         Begins(r, p, d, u, due), NEW CONSTANT type, Pop(type), NEW es, Scheduling(es),
         nodes'[p] = nodes[p] \/ \A e \in Rest : e.type # "DECODE_BATCH_STEP" \/ e.node # p,
         nodes'[d] = nodes[d] \/ \A e \in Rest : e.type # "DECODE_BATCH_STEP" \/ e.node # d,
         \A e \in ToSet(es) : OnTime(e, r, p, d, u, due)',
         r \in Running(nodes'[p]) \cup Waiting(nodes'[p]) =>
           egressAvailableAt'[p] + Lag <= due /\ ingressAvailableAt'[d] + Lag <= due
  PROVE  Punctual(r, p, d, u, due)'
<1>1. Queued = {Head(events)} \cup Rest /\ Queued' = Rest \cup ToSet(es)
  BY PopEffect DEF Scheduling, Begins
<1>2. ASSUME NEW e \in Rest
      PROVE  OnTime(e, r, p, d, u, due)'
  <2>1. OnTime(e, r, p, d, u, due)
    BY <1>1 DEF Punctual, Begins
  <2> QED
    BY <2>1, StaysOnTime
<1> QED
  BY <1>1, <1>2 DEF Punctual

(* on_prefill_start, which finds as many tokens to prefill as on arrival.    *)
LEMMA PrefillStartPunctual ==
  ASSUME NEW CONSTANT r, NEW CONSTANT p, NEW CONSTANT d, NEW CONSTANT u, NEW CONSTANT due,
         Begins(r, p, d, u, due), PrefillStartCached \/ PrefillStartChunked,
         Req = r, nodes'[p].uncached[r] = u
  PROVE  Punctual(r, p, d, u, due)'
<1>0. /\ Inv /\ Alone(r, p, d) /\ OnlyOn(r, p, d) /\ Punctual(r, p, d, u, due)
      /\ u \in Nat /\ due \in Int /\ DOMAIN nodes = Nodes
  BY DEF Begins, Inv, Typed
<1>1. Pop("PREFILL_START") /\ At(r, "starting") /\ Node = p
  BY <1>0, PrefillStartEffect DEF Alone
<1>2. PICK A : /\ nodes' = [nodes EXCEPT ![p] = A] /\ SameSlots(nodes[p], A)
               /\ \/ A.prefill = nodes[p].prefill
                  \/ A.prefill = Append(nodes[p].prefill, [req |-> r, left |-> A.uncached[r]])
  BY <1>0, <1>1, PrefillStartEffect
<1>3. PICK es : /\ Scheduling(es)
                /\ \A e \in ToSet(es) : /\ e.time = now'
                                        /\ \/ e.type = "PREFILL_COMPLETE" /\ e.req = r
                                           \/ e.type = "DECODE_BATCH_STEP" /\ e.node = p
  BY <1>0, <1>1, PrefillStartEffect
<1>4. nodes'[p] = A /\ nodes'[d] = nodes[d]
  BY <1>0, <1>2 DEF OnlyOn
<1>5. nodes[p].prefill = <<>> /\ nodes[p].decoding = {}
  <2>1. r \notin Prefilling(nodes[p]) /\ WellFormed(nodes[p])
    BY <1>0, <1>1 DEF At, Placed, OnlyOn, Inv, Typed
  <2> QED
    BY <1>0, <2>1, OnePrefill DEF OnlyOn
<1>6. \A e \in Rest : e.type # "DECODE_BATCH_STEP" \/ e.node # p
  BY <1>0, <1>1, <1>5, NoOtherStep DEF OnlyOn
<1>7. PICK v \in Nat, t \in Nat : v = u * PrefillCost /\ t = now' /\ t + v + Lag <= due
  <2>1. u * PrefillCost \in Nat
    BY <1>0, Numbers
  <2>2. /\ Head(events) \in Queued /\ Head(events).type = "PREFILL_START"
        /\ now' = Head(events).time /\ now' \in Nat
    BY <1>0, <1>1, PopEffect
  <2>3. OnTime(Head(events), r, p, d, u, due)
    BY <1>0, <2>2 DEF Punctual
  <2>4. now' + u * PrefillCost + Lag <= due
    BY <2>2, <2>3 DEF OnTime, Req
  <2> QED
    BY <2>1, <2>2, <2>4
<1>8. t + Lag <= due
  BY <1>0, <1>7, LagFacts
<1>9. \A i \in DOMAIN A.prefill : A.prefill[i].left = u
  <2>1. A.uncached[r] = u
    BY <1>4
  <2>2. A.prefill = <<>> \/ A.prefill = <<[req |-> r, left |-> u]>>
    BY <1>2, <1>5, <2>1
  <2> QED
    BY <2>2
<1>10. ASSUME NEW e \in ToSet(es)
       PROVE  OnTime(e, r, p, d, u, due)'
  <2>1. CASE e.type = "PREFILL_COMPLETE" /\ e.time = now'
    BY <1>7, <1>8, <2>1 DEF OnTime
  <2>2. CASE e.type = "DECODE_BATCH_STEP" /\ e.node = p /\ e.time = now'
    <3>1. \A i \in DOMAIN nodes'[p].prefill : e.time + nodes'[p].prefill[i].left * PrefillCost + Lag <= due
      BY <1>4, <1>7, <1>9, <2>2
    <3>2. e.node # d
      BY <1>0, <2>2 DEF OnlyOn
    <3> QED
      BY <2>2, <3>1, <3>2 DEF OnTime
  <2> QED
    BY <1>3, <2>1, <2>2
<1>11. r \in Running(nodes'[p]) \cup Waiting(nodes'[p]) =>
         egressAvailableAt'[p] + Lag <= due /\ ingressAvailableAt'[d] + Lag <= due
  <2>1. UNCHANGED laneVars
    BY DEF PrefillStartCached, PrefillStartChunked
  <2>2. Running(nodes'[p]) = Running(nodes[p]) /\ Waiting(nodes'[p]) = Waiting(nodes[p])
    BY <1>2, <1>4 DEF SameSlots, Running, Waiting
  <2> QED
    BY <1>0, <2>1, <2>2 DEF Punctual, laneVars
<1> QED
  BY <1>1, <1>3, <1>4, <1>6, <1>10, <1>11, PunctualAfter

(* on_prefill_complete: the lanes are free in time.                          *)
LEMMA PrefillCompletePunctual ==
  ASSUME NEW CONSTANT r, NEW CONSTANT p, NEW CONSTANT d, NEW CONSTANT u, NEW CONSTANT due,
         Begins(r, p, d, u, due), PrefillComplete, Req = r, Inv', Alone(r, p, d)', OnlyOn(r, p, d)'
  PROVE  Punctual(r, p, d, u, due)'
<1>0. /\ Inv /\ Alone(r, p, d) /\ OnlyOn(r, p, d) /\ Punctual(r, p, d, u, due)
      /\ u \in Nat /\ due \in Int /\ DOMAIN nodes = Nodes
  BY DEF Begins, Inv, Typed
<1>1. Pop("PREFILL_COMPLETE") /\ At(r, "prefilled") /\ Node = p /\ r \in Requests
  BY <1>0, PrefillCompleteEffect DEF Alone
<1>2. PICK A : nodes' = [nodes EXCEPT ![p] = A]
  BY <1>0, <1>1, PrefillCompleteEffect
<1>3. PICK start : start = TransferStart(p, d, now')
  OBVIOUS
<1>4. PICK es : /\ Scheduling(es) /\ HasIn(ToSet(es), r, "KV_TRANSFER_COMPLETE")
                /\ \A e \in ToSet(es) :
                     \/ e.type = "PREFILL_START" /\ e.req \in Waiting(nodes[p])
                     \/ e.type = "KV_TRANSFER_START" /\ e.req = r
                     \/ /\ e.type = "KV_TRANSFER_COMPLETE" /\ e.req = r
                        /\ e.time = start + TransferCost
  BY <1>0, <1>1, <1>3, PrefillCompleteEffect DEF Alone
<1>5. nodes'[d] = nodes[d]
  BY <1>0, <1>2 DEF OnlyOn
<1>6. r \in Running(nodes[p]) /\ r \notin Waiting(nodes[p])
  BY <1>0, <1>1 DEF At, Placed, OnlyOn, Alone
<1>7. /\ r \notin Running(nodes'[p]) \cup Waiting(nodes'[p])
      /\ r \notin Prefilling(nodes'[p])
  <2>1. PICK k \in Positions : At(r, k)'
    BY <1>1 DEF Inv
  <2>2. Has(r, "KV_TRANSFER_COMPLETE")'
    BY <1>4 DEF Scheduling, Has, HasIn
  <2>3. k = "transfer"
    BY <2>1, <2>2 DEF At, Carried
  <2> QED
    BY <1>0, <2>1, <2>3 DEF At, Placed, OnlyOn
<1>8. nodes'[p].prefill = <<>>
  <2>1. WellFormed(nodes'[p]) /\ Prefilling(nodes'[p]) \subseteq {r}
    BY DEF OnlyOn, Inv, Typed
  <2> QED
    BY <1>7, <2>1, OnePrefill
<1>9. start + TransferCost + FirstStep <= due
  <2>1. /\ Head(events) \in Queued /\ Head(events).type = "PREFILL_COMPLETE"
        /\ now' = Head(events).time /\ now' \in Nat
    BY <1>0, <1>1, PopEffect
  <2>2. OnTime(Head(events), r, p, d, u, due)
    BY <1>0, <2>1 DEF Punctual
  <2>3. now' + Lag <= due
    BY <2>1, <2>2 DEF OnTime, Req
  <2>4. egressAvailableAt[p] + Lag <= due /\ ingressAvailableAt[d] + Lag <= due
    BY <1>0, <1>6 DEF Punctual
  <2>5. egressAvailableAt[p] \in Nat /\ ingressAvailableAt[d] \in Nat
    BY <1>0 DEF Inv, Typed, OnlyOn
  <2>6. start \in Nat /\ start + Lag <= due
    BY <1>3, <2>1, <2>3, <2>4, <2>5 DEF TransferStart, Later
  <2> QED
    BY <2>6, <1>0, LagFacts, Numbers
<1>10. ASSUME NEW e \in ToSet(es)
       PROVE  OnTime(e, r, p, d, u, due)'
  <2>1. CASE e.type = "PREFILL_START" /\ e.req # r
    BY <2>1 DEF OnTime
  <2>2. CASE e.type = "KV_TRANSFER_START"
    BY <2>2 DEF OnTime
  <2>3. CASE e.type = "KV_TRANSFER_COMPLETE" /\ e.time = start + TransferCost
    BY <1>9, <2>3 DEF OnTime
  <2> QED
    BY <1>4, <1>6, <2>1, <2>2, <2>3
<1>11. Queued = {Head(events)} \cup Rest /\ Queued' = Rest \cup ToSet(es)
  BY <1>0, <1>1, <1>4, PopEffect DEF Scheduling
<1>12. ASSUME NEW e \in Rest
       PROVE  OnTime(e, r, p, d, u, due)'
  <2>1. OnTime(e, r, p, d, u, due)
    BY <1>0, <1>11 DEF Punctual
  <2>2. \A i \in DOMAIN nodes'[p].prefill : FALSE
    BY <1>8
  <2> QED
    BY <1>5, <2>1, <2>2 DEF OnTime
<1> QED
  BY <1>7, <1>10, <1>11, <1>12 DEF Punctual

(* on_kv_transfer_complete: the decode node is idle, so that the first step  *)
(* begins at once.                                                           *)
LEMMA TransferAdmittedPunctual ==
  ASSUME NEW CONSTANT r, NEW CONSTANT p, NEW CONSTANT d, NEW CONSTANT u, NEW CONSTANT due,
         Begins(r, p, d, u, due), TransferAdmitted, Req = r
  PROVE  Punctual(r, p, d, u, due)'
<1>0. /\ Inv /\ Alone(r, p, d) /\ OnlyOn(r, p, d) /\ Punctual(r, p, d, u, due)
      /\ u \in Nat /\ due \in Int /\ DOMAIN nodes = Nodes
  BY DEF Begins, Inv, Typed
<1>1. Pop("KV_TRANSFER_COMPLETE") /\ At(r, "transfer")
  BY <1>0, TransferAdmittedEffect
<1>2. /\ \E A : nodes' = [nodes EXCEPT ![d] = A]
      /\ \E es : /\ Scheduling(es)
                 /\ \A e \in ToSet(es) : /\ e.type = "DECODE_BATCH_STEP" /\ e.node = d
                                         /\ e.time = now'
  BY <1>0, TransferAdmittedEffect DEF Alone
<1>3. PICK es : /\ Scheduling(es)
                /\ \A e \in ToSet(es) : e.type = "DECODE_BATCH_STEP" /\ e.node = d /\ e.time = now'
  BY <1>2
<1>4. nodes'[p] = nodes[p]
  BY <1>0, <1>2 DEF OnlyOn
<1>5. nodes[d].prefill = <<>> /\ nodes[d].decoding = {}
  BY <1>0, <1>1 DEF At, Placed, OnlyOn
<1>6. \A e \in Rest : e.type # "DECODE_BATCH_STEP" \/ e.node # d
  BY <1>0, <1>1, <1>5, NoOtherStep DEF OnlyOn
<1>7. now' + FirstStep <= due
  <2>1. /\ Head(events) \in Queued /\ Head(events).type = "KV_TRANSFER_COMPLETE"
        /\ now' = Head(events).time
    BY <1>0, <1>1, PopEffect
  <2>2. OnTime(Head(events), r, p, d, u, due)
    BY <1>0, <2>1 DEF Punctual
  <2> QED
    BY <2>1, <2>2 DEF OnTime, Req
<1>8. ASSUME NEW e \in ToSet(es)
      PROVE  OnTime(e, r, p, d, u, due)'
  <2>1. e.type = "DECODE_BATCH_STEP" /\ e.node # p /\ e.time + FirstStep <= due
    BY <1>0, <1>3, <1>7 DEF OnlyOn
  <2> QED
    BY <2>1 DEF OnTime
<1>9. r \in Running(nodes'[p]) \cup Waiting(nodes'[p]) =>
        egressAvailableAt'[p] + Lag <= due /\ ingressAvailableAt'[d] + Lag <= due
  <2>1. UNCHANGED laneVars
    BY DEF TransferAdmitted
  <2> QED
    BY <1>0, <1>4, <2>1 DEF Punctual, laneVars
<1> QED
  BY <1>1, <1>3, <1>4, <1>6, <1>8, <1>9, PunctualAfter

(* A batch step of the prefill node: a chunk of r and nothing else.          *)
LEMMA PrefillStepPunctual ==
  ASSUME NEW CONSTANT r, NEW CONSTANT p, NEW CONSTANT d, NEW CONSTANT u, NEW CONSTANT due,
         Begins(r, p, d, u, due), BatchStep, Node = p
  PROVE  Punctual(r, p, d, u, due)'
<1>0. /\ Inv /\ Alone(r, p, d) /\ OnlyOn(r, p, d) /\ Punctual(r, p, d, u, due)
      /\ u \in Nat /\ due \in Int /\ DOMAIN nodes = Nodes
  BY DEF Begins, Inv, Typed
<1>1. Pop("DECODE_BATCH_STEP")
  BY <1>0, BatchStepEffect
<1>2. PICK A : /\ nodes' = [nodes EXCEPT ![p] = A] /\ SameSlots(nodes[p], A)
               /\ A.prefill = TickBatchStep(Cleared(nodes[p])).prefill
  BY <1>0, BatchStepEffect
<1>3. PICK es, end : /\ Scheduling(es) /\ StepList(es, nodes[p], p, end)
                     /\ end = now' + StepTime(Cleared(nodes[p]))
  BY <1>0, BatchStepEffect
<1>4. nodes'[p] = A /\ nodes'[d] = nodes[d] /\ WellFormed(nodes[p]) /\ nodes[p].decoding = {}
  BY <1>0, <1>2 DEF OnlyOn, Inv, Typed
<1>5. /\ Head(events) \in Queued /\ Head(events).type = "DECODE_BATCH_STEP"
      /\ now' = Head(events).time /\ now' \in Nat
  BY <1>0, <1>1, PopEffect
<1>6. Len(nodes[p].prefill) = 1
  <2>1. StepIn(Queued, p)
    BY <1>5 DEF StepIn, Node
  <2>2. HasWork(nodes[p])
    BY <1>0, <2>1 DEF Inv, Awake, OnlyOn
  <2>3. nodes[p].prefill # <<>>
    BY <1>4, <2>2 DEF HasWork
  <2> QED
    BY <1>0, <1>4, <2>3, OnePrefill DEF OnlyOn
<1>7. PICK c \in Nat, left \in Nat :
        /\ left = nodes[p].prefill[1].left /\ c <= left
        /\ StepTime(Cleared(nodes[p])) = c * PrefillCost
        /\ PrefillFinished(nodes[p]) # {} => c = left
        /\ \A i \in DOMAIN TickBatchStep(Cleared(nodes[p])).prefill :
             TickBatchStep(Cleared(nodes[p])).prefill[i].left = left - c
  BY <1>4, <1>6, TickLeft
<1>8. PICK v \in Nat, w \in Nat : v = c * PrefillCost /\ w = (left - c) * PrefillCost
  <2>1. PrefillCost \in Nat /\ left - c \in Nat
    BY <1>7, Numbers
  <2>2. c * PrefillCost \in Nat /\ (left - c) * PrefillCost \in Nat
    BY <2>1
  <2> QED
    BY <2>2
<1>9. left * PrefillCost = v + w
  BY <1>7, <1>8, Numbers
<1>10. now' + v + w + Lag <= due
  <2>1. OnTime(Head(events), r, p, d, u, due)
    BY <1>0, <1>5 DEF Punctual
  <2>2. 1 \in DOMAIN nodes[p].prefill
    <3>1. nodes[p].prefill \in Seq(PrefillEntry)
      BY <1>4, NodeTypes
    <3> QED
      BY <1>6, <3>1
  <2>3. now' + left * PrefillCost + Lag <= due
    BY <1>5, <1>7, <2>1, <2>2 DEF OnTime, Node
  <2> QED
    BY <1>5, <1>8, <1>9, <2>3, LagFacts
<1>11. end = now' + v
  BY <1>3, <1>7, <1>8
<1>12. ASSUME NEW e \in ToSet(es)
       PROVE  OnTime(e, r, p, d, u, due)'
  <2>1. /\ e.time = end
        /\ \/ e.type = "PREFILL_COMPLETE" /\ e.req \in PrefillFinished(nodes[p])
           \/ e.type = "DECODE_COMPLETE"
           \/ e.type = "DECODE_BATCH_STEP" /\ e.node = p
    BY <1>3, <1>4 DEF StepList
  <2>2. CASE e.type = "PREFILL_COMPLETE" /\ e.req \in PrefillFinished(nodes[p])
    <3>1. c = left
      BY <1>7, <2>2
    <3>2. end + Lag <= due
      BY <1>0, <1>5, <1>8, <1>10, <1>11, LagFacts
    <3> QED
      BY <2>1, <2>2, <3>2 DEF OnTime
  <2>3. CASE e.type = "DECODE_COMPLETE"
    BY <2>3 DEF OnTime
  <2>4. CASE e.type = "DECODE_BATCH_STEP" /\ e.node = p
    <3>1. \A i \in DOMAIN nodes'[p].prefill : nodes'[p].prefill[i].left * PrefillCost = w
      BY <1>2, <1>4, <1>7, <1>8
    <3>2. end + w + Lag <= due
      BY <1>0, <1>5, <1>8, <1>10, <1>11, LagFacts
    <3>3. \A i \in DOMAIN nodes'[p].prefill : e.time + nodes'[p].prefill[i].left * PrefillCost + Lag <= due
      BY <2>1, <3>1, <3>2
    <3>4. e.node # d
      BY <1>0, <2>4 DEF OnlyOn
    <3> QED
      BY <2>4, <3>3, <3>4 DEF OnTime
  <2> QED
    BY <2>1, <2>2, <2>3, <2>4
<1>13. \A e \in Rest : e.type # "DECODE_BATCH_STEP" \/ e.node # p
  BY <1>0, <1>1, NoOtherStep DEF OnlyOn
<1>14. r \in Running(nodes'[p]) \cup Waiting(nodes'[p]) =>
         egressAvailableAt'[p] + Lag <= due /\ ingressAvailableAt'[d] + Lag <= due
  <2>1. UNCHANGED laneVars
    BY DEF BatchStep
  <2>2. Running(nodes'[p]) = Running(nodes[p]) /\ Waiting(nodes'[p]) = Waiting(nodes[p])
    BY <1>2, <1>4 DEF SameSlots, Running, Waiting
  <2> QED
    BY <1>0, <2>1, <2>2 DEF Punctual, laneVars
<1> QED
  BY <1>1, <1>3, <1>4, <1>12, <1>13, <1>14, PunctualAfter

(* A batch step of the decode node: r alone decodes.                         *)
LEMMA DecodeStepPunctual ==
  ASSUME NEW CONSTANT r, NEW CONSTANT p, NEW CONSTANT d, NEW CONSTANT u, NEW CONSTANT due,
         Begins(r, p, d, u, due), BatchStep, Node = d
  PROVE  Punctual(r, p, d, u, due)'
<1>0. /\ Inv /\ Alone(r, p, d) /\ OnlyOn(r, p, d) /\ Punctual(r, p, d, u, due)
      /\ u \in Nat /\ due \in Int /\ DOMAIN nodes = Nodes /\ r \in Requests
  BY DEF Begins, Inv, Typed, OnlyOn
<1>1. Pop("DECODE_BATCH_STEP")
  BY <1>0, BatchStepEffect
<1>2. PICK A : /\ nodes' = [nodes EXCEPT ![d] = A]
               /\ A.decoding = nodes[d].decoding \ DecodeFinished(nodes[d])
               /\ \A q \in Requests :
                    A.tokens[q] = IF q \in nodes[d].decoding
                                  THEN nodes[d].tokens[q] + 1 ELSE nodes[d].tokens[q]
  BY <1>0, BatchStepEffect
<1>3. PICK es, end : /\ Scheduling(es) /\ StepList(es, nodes[d], d, end)
                     /\ end = now' + StepTime(Cleared(nodes[d]))
  BY <1>0, BatchStepEffect
<1>4. /\ nodes'[d] = A /\ nodes'[p] = nodes[p] /\ WellFormed(nodes[d])
      /\ nodes[d].prefill = <<>> /\ nodes[d].decoding \subseteq {r}
  BY <1>0, <1>2 DEF OnlyOn, Inv, Typed
<1>5. /\ Head(events) \in Queued /\ Head(events).type = "DECODE_BATCH_STEP"
      /\ now' = Head(events).time /\ now' \in Nat
  BY <1>0, <1>1, PopEffect
<1>6. r \in nodes[d].decoding => StepTime(Cleared(nodes[d])) = FirstStep
  <2> SUFFICES ASSUME r \in nodes[d].decoding
               PROVE  StepTime(Cleared(nodes[d])) = FirstStep
    OBVIOUS
  <2>1. PICK W : W = Cleared(nodes[d]) /\ W.decoding = {r} /\ W.prefill = <<>>
    <3>1. nodes[d].decoding = {r}
      BY <1>4
    <3>2. Cleared(nodes[d]).decoding = nodes[d].decoding /\ Cleared(nodes[d]).prefill = nodes[d].prefill
      BY <1>4, ClearedFacts
    <3> QED
      BY <1>4, <3>1, <3>2
  <2>2. Cardinality({r}) = 1
    BY FS_Singleton
  <2>3. PrefillCost \in Nat /\ 0 * PrefillCost = 0
    BY Numbers
  <2>4. Chunk(W) * PrefillCost = 0 /\ W.decoding # {}
    BY <2>1, <2>3 DEF Chunk
  <2>5. DecodeBase \in Nat /\ MarginalDecode \in Nat /\ 1 * MarginalDecode \in Nat
    BY Numbers
  <2> QED
    BY <2>1, <2>2, <2>4, <2>5 DEF StepTime, FirstStep, EstimateDecodeTime
<1>7. ASSUME NEW e \in ToSet(es)
      PROVE  OnTime(e, r, p, d, u, due)'
  <2>1. /\ e.time = end
        /\ \/ e.type = "PREFILL_COMPLETE" /\ e.req \in PrefillFinished(nodes[d])
           \/ /\ e.type = "TOKEN_GENERATED" /\ e.req \in nodes[d].decoding
              /\ e.step = nodes[d].tokens[e.req]
           \/ e.type = "DECODE_COMPLETE"
           \/ e.type = "DECODE_BATCH_STEP" /\ e.node = d
    BY <1>3 DEF StepList
  <2>2. PrefillFinished(nodes[d]) = {}
    BY <1>4 DEF PrefillFinished
  <2>3. CASE /\ e.type = "TOKEN_GENERATED" /\ e.req \in nodes[d].decoding
             /\ e.step = nodes[d].tokens[e.req]
    <3>1. e.req = r /\ r \in nodes[d].decoding
      BY <1>4, <2>3
    <3>2. OnTime(Head(events), r, p, d, u, due)
      BY <1>0, <1>5 DEF Punctual
    <3>3. e.step = 0 => now' + FirstStep <= due
      BY <1>5, <2>3, <3>1, <3>2 DEF OnTime, Node
    <3>4. e.time = now' + FirstStep
      BY <1>3, <1>6, <2>1, <3>1
    <3> QED
      BY <2>3, <3>3, <3>4 DEF OnTime
  <2>4. CASE e.type = "DECODE_COMPLETE"
    BY <2>4 DEF OnTime
  <2>5. CASE e.type = "DECODE_BATCH_STEP" /\ e.node = d
    <3>1. nodes[d].tokens[r] \in Nat
      BY <1>0, <1>4, NodeTypes
    <3>2. r \in nodes'[d].decoding => nodes'[d].tokens[r] # 0
      BY <1>0, <1>2, <1>4, <3>1
    <3>3. e.node # p
      BY <1>0, <2>5 DEF OnlyOn
    <3> QED
      BY <2>5, <3>2, <3>3 DEF OnTime
  <2> QED
    BY <2>1, <2>2, <2>3, <2>4, <2>5
<1>8. \A e \in Rest : e.type # "DECODE_BATCH_STEP" \/ e.node # d
  BY <1>0, <1>1, NoOtherStep DEF OnlyOn
<1>9. r \in Running(nodes'[p]) \cup Waiting(nodes'[p]) =>
        egressAvailableAt'[p] + Lag <= due /\ ingressAvailableAt'[d] + Lag <= due
  <2>1. UNCHANGED laneVars
    BY DEF BatchStep
  <2> QED
    BY <1>0, <1>4, <2>1 DEF Punctual, laneVars
<1> QED
  BY <1>1, <1>3, <1>4, <1>7, <1>8, <1>9, PunctualAfter

(* on_arrive: the estimate covers what is to be done.                        *)
LEMMA ArrivalPunctual ==
  ASSUME NEW CONSTANT r, NEW CONSTANT p \in PrefillNodes, NEW CONSTANT d \in DecodeNodes,
         NEW CONSTANT u, NEW CONSTANT due, Inv, Ledger, ArriveRouted(p, d), Req = r,
         OnlyOn(r, p, d)', now' + u * PrefillCost + Lag <= due,
         egressAvailableAt[p] + Lag <= due, ingressAvailableAt[d] + Lag <= due
  PROVE  Punctual(r, p, d, u, due)'
<1>1. Pop("REQUEST_ARRIVE") /\ r \in Requests /\ At(r, "announced")
  BY ArriveRoutedEffect
<1>2. PICK es : /\ Scheduling(es)
                /\ \A e \in ToSet(es) : \/ e.type = "SCHEDULED" \/ e.type = "REQUEST_ARRIVE"
                                        \/ e.type = "PREFILL_START" /\ e.req = r /\ e.time = now'
  BY ArriveRoutedEffect
<1>3. /\ DOMAIN nodes = Nodes /\ p \in Nodes /\ d \in Nodes /\ p # d
      /\ WellFormed(nodes[p]) /\ WellFormed(nodes[d])
  BY Constants DEF Inv, Typed
<1>4. /\ r \notin Running(nodes[p]) \cup Waiting(nodes[p])
      /\ r \notin Prefilling(nodes[p]) /\ r \notin nodes[d].decoding
  BY <1>1, <1>3 DEF At, Placed
<1>5. PICK v \in Nat : nodes' = [nodes EXCEPT ![p] = Admit(nodes[p], r, v)]
  BY Constants DEF ArriveRouted
<1>6. WellFormed(nodes'[p]) /\ nodes'[p].prefill = nodes[p].prefill
  BY <1>1, <1>3, <1>4, <1>5, AdmitFacts
<1>7. nodes'[p].prefill = <<>>
  <2>1. r \notin Prefilling(nodes'[p])
    BY <1>4, <1>6 DEF Prefilling
  <2>2. Prefilling(nodes'[p]) \subseteq {r}
    BY DEF OnlyOn
  <2> QED
    BY <1>6, <2>1, <2>2, OnePrefill
<1>8. nodes'[d] = nodes[d]
  BY <1>3, <1>5
<1>9. Queued = {Head(events)} \cup Rest /\ Queued' = Rest \cup ToSet(es)
  BY <1>1, <1>2, PopEffect DEF Scheduling
<1>10. \A e \in Queued : e.req = r =>
         e.type \notin {"PREFILL_START", "PREFILL_COMPLETE", "KV_TRANSFER_COMPLETE", "TOKEN_GENERATED"}
  <2>1. ~Has(r, "PREFILL_START") /\ ~Has(r, "PREFILL_COMPLETE") /\ ~Has(r, "KV_TRANSFER_COMPLETE")
    BY <1>1 DEF At, Carried
  <2>2. r \notin Decided
    BY <1>1 DEF At, Booked, Outside
  <2>3. \A e \in Queued : e.type = "TOKEN_GENERATED" => e.req \in Decided
    BY DEF Ledger, Marks, InDecode
  <2> QED
    BY <2>1, <2>2, <2>3 DEF Has, HasIn
<1>11. ASSUME NEW e \in Rest
       PROVE  OnTime(e, r, p, d, u, due)'
  <2>1. e.req = r =>
          e.type \notin {"PREFILL_START", "PREFILL_COMPLETE", "KV_TRANSFER_COMPLETE", "TOKEN_GENERATED"}
    BY <1>9, <1>10
  <2>2. \A i \in DOMAIN nodes'[p].prefill : FALSE
    BY <1>7
  <2> QED
    BY <1>4, <1>8, <2>1, <2>2 DEF OnTime
<1>12. ASSUME NEW e \in ToSet(es)
       PROVE  OnTime(e, r, p, d, u, due)'
  <2>1. CASE e.type = "SCHEDULED" \/ e.type = "REQUEST_ARRIVE"
    BY <2>1 DEF OnTime
  <2>2. CASE e.type = "PREFILL_START" /\ e.req = r /\ e.time = now'
    BY <2>2 DEF OnTime
  <2> QED
    BY <1>2, <2>1, <2>2
<1>13. UNCHANGED laneVars
  BY DEF ArriveRouted
<1> QED
  BY <1>9, <1>11, <1>12, <1>13 DEF Punctual, laneVars

(* Every other step keeps a request that stays alone on time.                *)
LEMMA StepsKeepTime ==
  ASSUME NEW CONSTANT r, NEW CONSTANT p, NEW CONSTANT d, NEW CONSTANT u, NEW CONSTANT due,
         Begins(r, p, d, u, due), Inv', Alone(r, p, d)', OnlyOn(r, p, d)',
         PrefillStart \/ Materialize \/ Others,
         PrefillStart /\ Req = r => nodes'[Node].uncached[r] = u
  PROVE  Punctual(r, p, d, u, due)'
<1>0. /\ Inv /\ Alone(r, p, d) /\ OnlyOn(r, p, d) /\ Punctual(r, p, d, u, due)
  BY DEF Begins
<1>1. ASSUME Undisturbed(r, p, d)
      PROVE  Punctual(r, p, d, u, due)'
  <2>1. \E type : Pop(type)
    BY DEF PrefillStart, Materialize, Others, PrefillStartCached, PrefillStartChunked, TransferAdmitted,
           Scheduled, Rejected, PrefillComplete, TransferStarts, TransferRejected, BatchStep,
           TokenGenerated, DecodeComplete
  <2> QED
    BY <1>0, <1>1, <2>1, UndisturbedPunctual
<1>2. CASE Scheduled \/ Rejected \/ TransferStarts \/ TokenGenerated
  BY <1>0, <1>1, <1>2, TellingUndisturbed
<1>3. ASSUME Req # r, \/ PrefillStartCached \/ PrefillStartChunked \/ PrefillComplete
                      \/ TransferRejected \/ TransferAdmitted \/ DecodeComplete
      PROVE  Punctual(r, p, d, u, due)'
  BY <1>0, <1>1, <1>3, CarriedUndisturbed
<1>4. CASE PrefillStart /\ Req = r
  <2>1. PrefillStartCached \/ PrefillStartChunked
    BY <1>4 DEF PrefillStart
  <2>2. Node = p
    BY <1>0, <1>4, <2>1, PrefillStartEffect DEF Alone
  <2> QED
    BY <1>4, <2>1, <2>2, PrefillStartPunctual
<1>5. CASE PrefillComplete /\ Req = r
  BY <1>5, PrefillCompletePunctual
<1>6. CASE TransferAdmitted /\ Req = r
  BY <1>6, TransferAdmittedPunctual
<1>7. CASE (TransferRejected \/ DecodeComplete) /\ Req = r
  <2>1. r \in Requests /\ decisions' = [decisions EXCEPT ![r] = NoDecision]
    BY <1>0, <1>7, TransferRejectedEffect, DecodeCompleteEffect
  <2>2. DOMAIN decisions = Requests
    BY <1>0 DEF Inv, Typed
  <2>3. r \notin Decided'
    BY <2>1, <2>2 DEF Decided
  <2> QED
    BY <2>3 DEF Alone
<1>8. CASE BatchStep
  <2>1. CASE Node = p
    BY <1>8, <2>1, PrefillStepPunctual
  <2>2. CASE Node = d
    BY <1>8, <2>2, DecodeStepPunctual
  <2>3. CASE Node # p /\ Node # d
    BY <1>0, <1>1, <1>8, <2>3, StepUndisturbed
  <2> QED
    BY <2>1, <2>2, <2>3
<1>9. CASE PrefillStart
  <2>1. PrefillStartCached \/ PrefillStartChunked
    BY <1>9 DEF PrefillStart
  <2> QED
    BY <1>3, <1>4, <1>9, <2>1
<1>10. CASE Materialize
  <2>1. TransferAdmitted
    BY <1>10 DEF Materialize
  <2> QED
    BY <1>3, <1>6, <2>1
<1>11. CASE Others
  <2>1. \/ Scheduled \/ Rejected \/ PrefillComplete \/ TransferStarts \/ TransferRejected
        \/ BatchStep \/ TokenGenerated \/ DecodeComplete
    BY <1>11 DEF Others
  <2> QED
    BY <1>2, <1>3, <1>5, <1>7, <1>8, <2>1
<1> QED
  BY <1>9, <1>10, <1>11

-----------------------------------------------------------------------------
(* The forecasts.                                                            *)

(* A forecast of a request alone is as it was, and the request is still      *)
(* alone.                                                                    *)
LEMMA ObservedFacts ==
  ASSUME NEW f \in [Requests -> Forecast], Observed(f)
  PROVE  /\ forecast' \in [Requests -> Forecast]
         /\ \A r \in Requests : forecast'[r].alone =>
              /\ f[r].alone
              /\ forecast'[r].uncached = f[r].uncached
              /\ forecast'[r].arrived = f[r].arrived /\ forecast'[r].ttft = f[r].ttft
              /\ r \in Decided' /\ ~SharesNode(r)'
<1> DEFINE g(r) == IF r \in Decided' THEN [f[r] EXCEPT !.alone = f[r].alone /\ ~SharesNode(r)']
                   ELSE NoForecast
<1>1. forecast' = [r \in Requests |-> g(r)]
  BY Zenon DEF Observed
<1>2. ASSUME NEW r \in Requests
      PROVE  /\ g(r) \in Forecast
             /\ g(r).alone => /\ f[r].alone
                              /\ g(r).uncached = f[r].uncached
                              /\ g(r).arrived = f[r].arrived /\ g(r).ttft = f[r].ttft
                              /\ r \in Decided' /\ ~SharesNode(r)'
  <2>1. PICK b \in BOOLEAN : b = (f[r].alone /\ ~SharesNode(r)')
    OBVIOUS
  <2>2. f[r] \in Forecast
    OBVIOUS
  <2>3. CASE r \in Decided'
    <3>1. g(r) = [f[r] EXCEPT !.alone = b]
      BY <2>1, <2>3
    <3>2. [f[r] EXCEPT !.alone = b] \in Forecast /\ [f[r] EXCEPT !.alone = b].alone = b
      BY <2>2 DEF Forecast
    <3>3. LET h == [f[r] EXCEPT !.alone = b]
          IN h.uncached = f[r].uncached /\ h.arrived = f[r].arrived /\ h.ttft = f[r].ttft
      BY <2>2 DEF Forecast
    <3> HIDE DEF g
    <3> QED
      BY <2>1, <2>3, <3>1, <3>2, <3>3
  <2>4. CASE r \notin Decided'
    <3>1. g(r) = NoForecast
      BY <2>4
    <3>2. NoForecast \in Forecast /\ ~NoForecast.alone
      BY DEF NoForecast, Forecast
    <3> HIDE DEF g
    <3> QED
      BY <3>1, <3>2
  <2> QED
    BY <2>3, <2>4
<1> HIDE DEF g
<1> QED
  BY <1>1, <1>2

(* Nobody shares a node with a request that is still forecast to be alone.   *)
LEMMA StillAlone ==
  ASSUME NEW f \in [Requests -> Forecast], Observed(f), Inv', NEW r \in Requests, forecast'[r].alone
  PROVE  \E p \in PrefillNodes, d \in DecodeNodes :
           /\ p = decisions'[r].prefill /\ d = decisions'[r].decode
           /\ Alone(r, p, d)' /\ OnlyOn(r, p, d)'
<1>1. r \in Decided' /\ ~SharesNode(r)'
  BY ObservedFacts
<1>2. PICK p, d : p = decisions'[r].prefill /\ d = decisions'[r].decode
  OBVIOUS
<1>3. Alone(r, p, d)'
  BY <1>1, <1>2 DEF SharesNode, Alone
<1>5. OnlyOn(r, p, d)'
  BY <1>3, AloneOnNodesNext
<1>6. p \in PrefillNodes /\ d \in DecodeNodes
  BY <1>5 DEF OnlyOn
<1> QED
  BY <1>2, <1>3, <1>5, <1>6

(* What a forecast of a request alone says.                                  *)
LEMMA ForecastFacts ==
  ASSUME Timely, Inv, NEW r \in Requests, forecast[r].alone
  PROVE  \E p \in PrefillNodes, d \in DecodeNodes, u \in Nat, due \in Int :
           /\ Begins(r, p, d, u, due)
           /\ u = forecast[r].uncached /\ due = forecast[r].arrived + forecast[r].ttft
           /\ p = decisions[r].prefill /\ d = decisions[r].decode
<1>1. PICK p \in PrefillNodes, d \in DecodeNodes :
        /\ Alone(r, p, d)
        /\ Punctual(r, p, d, forecast[r].uncached, forecast[r].arrived + forecast[r].ttft)
  BY DEF Timely, TimelyAt
<1>2. forecast[r].uncached \in Nat /\ forecast[r].arrived \in Nat /\ forecast[r].ttft \in Int
  BY DEF Timely, Forecast
<1>3. PICK u \in Nat, due \in Int :
        u = forecast[r].uncached /\ due = forecast[r].arrived + forecast[r].ttft
  BY <1>2
<1>4. OnlyOn(r, p, d)
  BY <1>1, AloneOnNodes
<1>5. Begins(r, p, d, u, due)
  BY <1>1, <1>3, <1>4 DEF Begins
<1>6. p = decisions[r].prefill /\ d = decisions[r].decode
  BY <1>1 DEF Alone
<1> QED
  BY <1>3, <1>5, <1>6

(* Steps other than arrivals.                                                *)
LEMMA StepsKeepTimely ==
  ASSUME Timely, Inv, Inv', PrefillStart \/ Materialize \/ Others
  PROVE  Timely'
<1>1. forecast \in [Requests -> Forecast]
  BY DEF Timely
<1>2. Observed(forecast)
  BY DEF PrefillStart, Materialize, Others
<1>3. forecast' \in [Requests -> Forecast]
  BY <1>1, <1>2, ObservedFacts
<1>4. ASSUME NEW CONSTANT r \in Requests, forecast'[r].alone
      PROVE  TimelyAt(r)'
  <2>1. /\ forecast[r].alone /\ forecast'[r].uncached = forecast[r].uncached
        /\ forecast'[r].arrived = forecast[r].arrived /\ forecast'[r].ttft = forecast[r].ttft
    BY <1>1, <1>2, <1>4, ObservedFacts
  <2>2. PICK p \in PrefillNodes, d \in DecodeNodes, u \in Nat, due \in Int :
          /\ Begins(r, p, d, u, due)
          /\ u = forecast[r].uncached /\ due = forecast[r].arrived + forecast[r].ttft
          /\ p = decisions[r].prefill /\ d = decisions[r].decode
    BY <2>1, ForecastFacts
  <2>3. PICK x \in PrefillNodes, y \in DecodeNodes :
          /\ x = decisions'[r].prefill /\ y = decisions'[r].decode
          /\ Alone(r, x, y)' /\ OnlyOn(r, x, y)'
    BY <1>1, <1>2, <1>4, StillAlone
  <2>4. decisions'[r] = decisions[r]
    <3>1. r \in Decided'
      BY <2>3 DEF Alone
    <3>2. \/ decisions' = decisions
          \/ Req \in Requests /\ decisions' = [decisions EXCEPT ![Req] = NoDecision]
      BY TransferRejectedEffect, DecodeCompleteEffect
         DEF PrefillStart, Materialize, Others, PrefillStartCached, PrefillStartChunked,
             TransferAdmitted, Scheduled, Rejected, PrefillComplete, TransferStarts, BatchStep,
             TokenGenerated
    <3>3. DOMAIN decisions = Requests
      BY DEF Inv, Typed
    <3> QED
      BY <3>1, <3>2, <3>3 DEF Decided
  <2>5. x = p /\ y = d
    BY <2>2, <2>3, <2>4
  <2>6. Alone(r, p, d)' /\ OnlyOn(r, p, d)'
    BY <2>3, <2>5
  <2>7. PrefillStart /\ Req = r => nodes'[Node].uncached[r] = u
    BY <2>1, <2>2 DEF PrefillStart
  <2>8. Punctual(r, p, d, u, due)'
    BY <2>2, <2>6, <2>7, StepsKeepTime
  <2>9. u = forecast'[r].uncached /\ due = forecast'[r].arrived + forecast'[r].ttft
    BY <2>1, <2>2
  <2> QED
    BY <2>6, <2>8, <2>9 DEF TimelyAt
<1> QED
  BY <1>3, <1>4 DEF Timely

(* A rejected arrival changes no forecast.                                   *)
LEMMA RejectionKeepsTimely ==
  ASSUME Timely, Inv, RouteRejected
  PROVE  Timely'
<1>1. /\ Pop("REQUEST_ARRIVE") /\ ArriveRejected /\ forecast' = forecast /\ decisions' = decisions
  BY DEF RouteRejected, ArriveRejected
<1>2. ASSUME NEW CONSTANT r \in Requests, forecast'[r].alone
      PROVE  TimelyAt(r)'
  <2>1. PICK p \in PrefillNodes, d \in DecodeNodes, u \in Nat, due \in Int :
          /\ Begins(r, p, d, u, due)
          /\ u = forecast[r].uncached /\ due = forecast[r].arrived + forecast[r].ttft
          /\ p = decisions[r].prefill /\ d = decisions[r].decode
    BY <1>1, <1>2, ForecastFacts
  <2>2. Undisturbed(r, p, d)
    BY <1>1, TellingUndisturbed
  <2>3. Alone(r, p, d) /\ Punctual(r, p, d, u, due)
    BY <2>1 DEF Begins
  <2>4. Punctual(r, p, d, u, due)'
    BY <1>1, <2>2, <2>3, UndisturbedPunctual
  <2>5. Alone(r, p, d)'
    BY <1>1, <2>3 DEF Alone, Decided
  <2> QED
    BY <1>1, <2>1, <2>4, <2>5 DEF TimelyAt
<1> QED
  BY <1>1, <1>2 DEF Timely

(* An arrival that is routed gets a forecast it can keep, and disturbs none  *)
(* of those that stay alone.                                                 *)
LEMMA RouteKeepsTimely ==
  ASSUME Timely, RoutedInv, Inv', Ledger, Route
  PROVE  Timely'
<1>1. Inv /\ Readable /\ forecast \in [Requests -> Forecast]
  BY RoutedReadable DEF RoutedInv, Timely
<1>2. Pop("REQUEST_ARRIVE")
  BY DEF Route
<1>3. PICK t \in Nat : t = Head(events).time /\ t = now'
  BY <1>1, <1>2, PopEffect
<1>4. PICK l \in Lookups :
        LET s == ChosenPrefill
            c == ChosenDecode(l, t)
        IN /\ ArriveRouted(s, c)
           /\ Observed([forecast EXCEPT ![Req] =
                          [arrived |-> t, ttft |-> EstTtft(s, c, l[c], t),
                           uncached |-> PromptLen - l[c].matched, alone |-> TRUE]])
  BY <1>3 DEF Route
<1>5. PICK s \in PrefillNodes, c \in DecodeNodes : s = ChosenPrefill /\ c = ChosenDecode(l, t)
  BY <1>1, ChoiceFacts DEF RoutedInv
<1>6. ArriveRouted(s, c)
  BY <1>4, <1>5
<1>7. Hit(l[c])
  BY LookupFacts
<1>8. PICK v \in Nat : v = PromptLen - l[c].matched
  BY <1>7, Numbers DEF Hit
<1>9. PICK est \in Int :
        /\ est = EstTtft(s, c, l[c], t) /\ t + v * PrefillCost + Lag <= t + est
        /\ egressAvailableAt[s] + Lag <= t + est /\ ingressAvailableAt[c] + Lag <= t + est
  BY <1>1, <1>7, <1>8, EstimateCovers
<1>10. PICK q \in Requests : q = Req
  BY <1>1, <1>6, ArriveRoutedEffect
<1>11. PICK F : F = [arrived |-> t, ttft |-> est, uncached |-> v, alone |-> TRUE]
  OBVIOUS
<1>12. F \in Forecast /\ F.arrived = t /\ F.ttft = est /\ F.uncached = v
  BY <1>11 DEF Forecast
<1>13. PICK f : f = [forecast EXCEPT ![q] = F]
  OBVIOUS
<1>14. /\ f \in [Requests -> Forecast] /\ f[q] = F
       /\ \A r \in Requests : r # q => f[r] = forecast[r]
  BY <1>1, <1>12, <1>13
<1>15. Observed(f)
  BY <1>4, <1>5, <1>8, <1>9, <1>10, <1>11, <1>13
<1>16. forecast' \in [Requests -> Forecast]
  BY <1>14, <1>15, ObservedFacts
<1>17. PICK D : /\ decisions' = [decisions EXCEPT ![q] = D]
                /\ D.prefill = s /\ D.decode = c
  BY <1>1, <1>6, <1>10, ArriveRoutedEffect
<1>18. DOMAIN decisions = Requests
  BY <1>1 DEF Inv, Typed
<1>19. ASSUME NEW CONSTANT r \in Requests, forecast'[r].alone
       PROVE  TimelyAt(r)'
  <2>1. /\ f[r].alone /\ forecast'[r].uncached = f[r].uncached
        /\ forecast'[r].arrived = f[r].arrived /\ forecast'[r].ttft = f[r].ttft
    BY <1>14, <1>15, <1>19, ObservedFacts
  <2>2. PICK x \in PrefillNodes, y \in DecodeNodes :
          /\ x = decisions'[r].prefill /\ y = decisions'[r].decode
          /\ Alone(r, x, y)' /\ OnlyOn(r, x, y)'
    BY <1>14, <1>15, <1>19, StillAlone
  <2>3. CASE r = q
    <3>1. x = s /\ y = c
      BY <1>17, <1>18, <2>2, <2>3
    <3>2. PICK due \in Int : due = t + est
      OBVIOUS
    <3>3. Punctual(r, s, c, v, due)'
      <4>1. OnlyOn(r, s, c)' /\ Req = r
        BY <1>10, <2>2, <2>3, <3>1
      <4>2. /\ now' + v * PrefillCost + Lag <= due
            /\ egressAvailableAt[s] + Lag <= due /\ ingressAvailableAt[c] + Lag <= due
        BY <1>3, <1>9, <3>2
      <4> QED
        BY <1>1, <1>6, <4>1, <4>2, ArrivalPunctual
    <3>4. v = forecast'[r].uncached /\ due = forecast'[r].arrived + forecast'[r].ttft
      BY <1>12, <1>14, <2>1, <2>3, <3>2
    <3>5. Alone(r, s, c)'
      BY <2>2, <3>1
    <3> QED
      BY <3>3, <3>4, <3>5 DEF TimelyAt
  <2>4. CASE r # q
    <3>1. f[r] = forecast[r]
      BY <1>14, <2>4
    <3>2. PICK p \in PrefillNodes, d \in DecodeNodes, u \in Nat, due \in Int :
            /\ Begins(r, p, d, u, due)
            /\ u = forecast[r].uncached /\ due = forecast[r].arrived + forecast[r].ttft
            /\ p = decisions[r].prefill /\ d = decisions[r].decode
      BY <1>1, <2>1, <3>1, ForecastFacts
    <3>3. x = p /\ y = d
      BY <1>17, <1>18, <2>2, <2>4, <3>2
    <3>4. Alone(r, p, d) /\ Punctual(r, p, d, u, due) /\ Alone(r, p, d)'
      BY <2>2, <3>2, <3>3 DEF Begins
    <3>5. Undisturbed(r, p, d)
      BY <1>1, <1>6, <3>4, RoutedUndisturbed
    <3>6. Punctual(r, p, d, u, due)'
      BY <1>1, <1>2, <3>4, <3>5, UndisturbedPunctual
    <3>7. u = forecast'[r].uncached /\ due = forecast'[r].arrived + forecast'[r].ttft
      BY <2>1, <3>1, <3>2
    <3> QED
      BY <3>4, <3>6, <3>7 DEF TimelyAt
  <2> QED
    BY <2>3, <2>4
<1> QED
  BY <1>16, <1>19 DEF Timely

(* Every step of the routed cluster keeps the forecasts.                     *)
LEMMA NextTimely ==
  RoutedInv /\ Inv /\ Ledger /\ RoutedInv' /\ Timely /\ [RoutedNext]_routedVars => Timely'
<1> SUFFICES ASSUME RoutedInv, Inv, Ledger, RoutedInv', Timely, [RoutedNext]_routedVars
             PROVE  Timely'
  OBVIOUS
<1>1. Inv'
  BY DEF RoutedInv
<1>2. CASE Route
  BY <1>1, <1>2, RouteKeepsTimely
<1>3. CASE RouteRejected
  BY <1>3, RejectionKeepsTimely
<1>4. CASE PrefillStart \/ Materialize \/ Others
  BY <1>1, <1>4, StepsKeepTimely
<1>5. CASE UNCHANGED routedVars
  <2>1. /\ events' = events /\ nodes' = nodes /\ decisions' = decisions /\ forecast' = forecast
        /\ egressAvailableAt' = egressAvailableAt /\ ingressAvailableAt' = ingressAvailableAt
    BY <1>5 DEF routedVars, vars, laneVars
  <2> QED
    BY <2>1 DEF Timely, TimelyAt, Alone, Punctual, OnTime, Queued, Decided
<1> QED
  BY <1>2, <1>3, <1>4, <1>5 DEF RoutedNext

(* At the start nothing is forecast.                                         *)
LEMMA InitTimely == RoutedInit => Timely
<1>1. NoForecast \in Forecast /\ ~NoForecast.alone
  BY DEF NoForecast, Forecast
<1> QED
  BY <1>1 DEF RoutedInit, Timely

(* compute_est_ttft errs on the safe side for a request that shares neither  *)
(* of its nodes until its first token: the token comes within the estimate   *)
(* that its decision carries, whatever the policy, the load of the other     *)
(* nodes and what earlier requests left in the lanes.                        *)
THEOREM EstimateIsSafe == RoutedSpec => []AloneMeetsEstimate
<1>1. ASSUME Inv, Timely
      PROVE  AloneMeetsEstimate
  <2> SUFFICES ASSUME NEW i \in EventsOf("TOKEN_GENERATED"), events[i].step = 0,
                      forecast[events[i].req].alone
               PROVE  events[i].time - forecast[events[i].req].arrived
                        <= forecast[events[i].req].ttft
    BY DEF AloneMeetsEstimate
  <2>1. PICK e \in Event : e = events[i] /\ e \in Queued /\ e.type = "TOKEN_GENERATED"
    BY <1>1 DEF EventsOf, Inv, Typed, Queued, ToSet
  <2>2. PICK r \in Requests : r = e.req
    BY <1>1, <2>1 DEF Inv, Fits
  <2>3. PICK p \in PrefillNodes, d \in DecodeNodes, u \in Nat, due \in Int :
          Begins(r, p, d, u, due) /\ due = forecast[r].arrived + forecast[r].ttft
    BY <1>1, <2>1, <2>2, ForecastFacts
  <2>4. OnTime(e, r, p, d, u, due)
    BY <2>1, <2>3 DEF Begins, Punctual
  <2>5. e.time <= due
    BY <2>1, <2>2, <2>4 DEF OnTime
  <2>6. e.time \in Nat /\ forecast[r].arrived \in Nat /\ forecast[r].ttft \in Int
    BY <1>1, <2>1 DEF Event, Timely, Forecast
  <2> QED
    BY <2>1, <2>2, <2>3, <2>5, <2>6
<1> QED
  BY <1>1, RoutedInitInv, RoutedNextInv, RoutedIsServing, LedgerAgrees, InitTimely, NextTimely, PTL
     DEF RoutedSpec
=============================================================================
