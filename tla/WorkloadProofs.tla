---------------------------- MODULE WorkloadProofs ---------------------------
(***************************************************************************)
(* The workload: for any traces and logs, any prefix mode, any gaps,       *)
(* sizes, layers and outcomes of the random choices, the requests that     *)
(* reach the cluster are those of the trace.                               *)
(*                                                                         *)
(* ReplayInv carries everything.  Chain says that an open file has its     *)
(* next arrival queued and only then; Numbered, that all requests but the  *)
(* last have arrived, in order; Traced, that each request stands for one   *)
(* record and arrives at its time.  Which record is the i-th is said by    *)
(* counting (RecordsTo), so that reading on does not change it.            *)
(*                                                                         *)
(* Three invariants stand on it.  WindowInv: the window holds buckets of   *)
(* requests made before, in order of time, and the latest of them.         *)
(* SharingInv: buckets have no token in common at the same place, and a    *)
(* prompt begins as its bucket does, however long that has become.         *)
(* SourceOK: the rows that a script keeps are in order, so that no record  *)
(* of a converted log lies in the past.                                    *)
(***************************************************************************)
EXTENDS Workload, LoopProofs

-----------------------------------------------------------------------------
(* Arithmetic.                                                               *)

(* A multiple of b.                                                          *)
LEMMA ExactDivision ==
  ASSUME NEW a \in Int, NEW b \in Nat \ {0}, a % b = 0
  PROVE  a \div b \in Int /\ (a \div b) * b = a
<1>1. a = b * (a \div b) + (a % b) /\ a \div b \in Int
  OBVIOUS
<1>2. PICK k : k = a \div b
  OBVIOUS
<1>3. k \in Int /\ a = b * k
  BY <1>1, <1>2
<1>4. b * k = k * b
  BY <1>3
<1> QED
  BY <1>2, <1>3, <1>4

(* What division does.                                                       *)
LEMMA DivisionFacts ==
  ASSUME NEW b \in Nat \ {0}, NEW n \in Nat
  PROVE  n \div b \in Nat /\ (n \div b) * b <= n /\ n < (n \div b) * b + b
<1>1. n \div b \in Int
  OBVIOUS
<1>2. n % b \in 0..b - 1
  OBVIOUS
<1>3. n = b * (n \div b) + (n % b)
  OBVIOUS
<1>4. PICK k : k = n \div b
  OBVIOUS
<1>5. k \in Int /\ n = b * k + (n % b) /\ b * k = k * b
  BY <1>1, <1>3, <1>4
<1>6. k * b <= n /\ n < k * b + b
  BY <1>2, <1>5
<1>7. k >= 0
  <2> SUFFICES ASSUME k < 0 PROVE FALSE
    BY <1>5
  <2>1. k + 1 <= 0 /\ k + 1 \in Int
    BY <1>5
  <2>2. PICK p : p = k * b
    OBVIOUS
  <2>3. p \in Int /\ (k + 1) * b = p + b
    BY <1>5, <2>2
  <2>4. PICK d \in Nat : k + 1 = -d
    <3>1. -(k + 1) \in Nat /\ k + 1 = -(-(k + 1))
      BY <2>1
    <3> QED
      BY <3>1
  <2>5. (k + 1) * b = -(d * b) /\ d * b \in Nat
    BY <2>4
  <2>6. n < p + b
    BY <1>6, <2>2
  <2> QED
    BY <2>3, <2>5, <2>6
<1> QED
  BY <1>4, <1>5, <1>6, <1>7

(* Products compare as their factors do.                                     *)
LEMMA FactorOrder ==
  ASSUME NEW b \in Nat \ {0}, NEW m \in Int, NEW n \in Int
  PROVE  (m * b <= n * b => m <= n) /\ (m * b < n * b => m < n) /\ (m <= n => m * b <= n * b)
<1>1. ASSUME m <= n PROVE m * b <= n * b
  BY <1>1
<1>2. ASSUME n + 1 <= m PROVE n * b + b <= m * b
  <2>1. (n + 1) * b <= m * b
    BY <1>2
  <2> QED
    BY <2>1
<1>3. ASSUME n <= m PROVE n * b <= m * b
  BY <1>3
<1>4. m * b \in Int /\ n * b \in Int
  OBVIOUS
<1> QED
  BY <1>1, <1>2, <1>3, <1>4

(* Rounding down to whole blocks.                                            *)
LEMMA WholeBlocks ==
  ASSUME NEW n \in Nat, NEW m, m = (n \div BlockSize) * BlockSize
  PROVE  m \in Nat /\ m <= n /\ m \div BlockSize = n \div BlockSize /\ m % BlockSize = 0
<1>1. BlockSize \in Nat \ {0}
  BY SynthesisAssumption
<1>2. PICK b, k : b = BlockSize /\ k = n \div b
  OBVIOUS
<1>3. k \in Nat /\ m = k * b /\ m <= n /\ b \in Nat \ {0}
  BY <1>1, <1>2, DivisionFacts
<1>4. m \in Nat
  BY <1>3
<1>5. m \div b = k
  <2>1. PICK j : j = m \div b
    OBVIOUS
  <2>2. j \in Nat /\ j * b <= m /\ m < j * b + b
    BY <1>3, <1>4, <2>1, DivisionFacts
  <2>3. j * b + b = (j + 1) * b
    BY <1>3, <2>2
  <2>4. j <= k /\ k < j + 1
    BY <1>3, <2>2, <2>3, FactorOrder
  <2> QED
    BY <1>3, <2>1, <2>2, <2>4
<1>6. m % b = 0
  <2>1. m = b * (m \div b) + (m % b) /\ m % b \in Nat
    BY <1>3, <1>4
  <2>2. b * k = k * b
    BY <1>3
  <2> QED
    BY <1>3, <1>5, <2>1, <2>2
<1> QED
  BY <1>2, <1>3, <1>4, <1>5, <1>6

(* A ratio of a length, aligned down, is not more than the length.           *)
LEMMA PrefixLength ==
  ASSUME NEW ratio \in Ratios \cup {SharingRatio}, NEW len \in Nat,
         NEW n, n = AlignedPrefixLen(ratio, len)
  PROVE  n \in Nat /\ n <= len /\ n % BlockSize = 0
<1>1. ratio \in Nat \X (Nat \ {0}) /\ ratio[1] <= ratio[2]
  BY WorkloadAssumption
<1>2. PICK a, b, p : a = ratio[1] /\ b = ratio[2] /\ p = a * len
  OBVIOUS
<1>3. a \in Nat /\ b \in Nat \ {0} /\ a <= b
  BY <1>1, <1>2
<1>4. p \in Nat /\ p <= b * len /\ b * len = len * b
  BY <1>2, <1>3
<1>5. PICK k : k = p \div b
  OBVIOUS
<1>6. k \in Nat /\ k * b <= p
  BY <1>3, <1>4, <1>5, DivisionFacts
<1>7. k * b <= len * b
  BY <1>3, <1>4, <1>6
<1>8. k <= len
  BY <1>3, <1>6, <1>7, FactorOrder
<1>9. n = (k \div BlockSize) * BlockSize
  BY <1>2, <1>5 DEF AlignedPrefixLen
<1>10. n \in Nat /\ n <= k /\ n % BlockSize = 0
  BY <1>6, <1>9, WholeBlocks
<1> QED
  BY <1>6, <1>8, <1>10

-----------------------------------------------------------------------------
(* The conversion scripts.                                                   *)

(* The rows kept after each row of a log.                                    *)
IsKept(kept, l, valid) ==
  kept = [n \in 0..Len(l) |->
            IF n = 0 THEN <<>>
            ELSE IF n \in valid THEN Append(kept[n - 1], l[n])
            ELSE kept[n - 1]]

(* The loop of a script defines a function.                                  *)
LEMMA KeptExists ==
  ASSUME NEW E, NEW l \in Seq(E), NEW valid
  PROVE  \E kept : IsKept(kept, l, valid) /\ RowsIn(l, valid) = kept[Len(l)]
<1> DEFINE S(f, m) == IF m \in valid THEN Append(f[m - 1], l[m]) ELSE f[m - 1]
           G(n, f) == f = [m \in 0..n |-> IF m = 0 THEN <<>> ELSE S(f, m)]
           Good == {n \in Nat : \E f : G(n, f)}
<1>1. 0 \in Good
  <2> DEFINE f == [m \in 0..0 |-> <<>>]
  <2>1. G(0, f)
    OBVIOUS
  <2> QED
    BY <2>1
<1>2. Len(l) \in Nat
  OBVIOUS
<1>3. ASSUME NEW n \in 1..Len(l), n - 1 \in Good
      PROVE  n \in Good
  <2>1. n \in Nat /\ n # 0
    BY <1>2
  <2>2. PICK f : G(n - 1, f)
    BY <1>3
  <2> DEFINE g == [m \in 0..n |-> IF m = n THEN S(f, n) ELSE f[m]]
  <2>3. ASSUME NEW m \in 0..n
        PROVE  g[m] = IF m = 0 THEN <<>> ELSE S(g, m)
    <3>1. CASE m = n
      <4>1. n - 1 \in 0..n /\ n - 1 # n
        BY <2>1
      <4>2. g[n - 1] = f[n - 1] /\ g[n] = S(f, n)
        BY <2>1, <4>1
      <4> QED
        BY <2>1, <3>1, <4>2
    <3>2. CASE m # n
      <4>1. m \in 0..n - 1 /\ (m # 0 => m - 1 \in 0..n /\ m - 1 # n)
        BY <2>1, <3>2
      <4>2. f[m] = IF m = 0 THEN <<>> ELSE S(f, m)
        BY <2>2, <4>1
      <4> QED
        BY <3>2, <4>1, <4>2
    <3> QED
      BY <3>1, <3>2
  <2>4. G(n, g)
    <3> DEFINE h == [m \in 0..n |-> IF m = 0 THEN <<>> ELSE S(g, m)]
    <3>1. \A m \in 0..n : g[m] = h[m]
      BY <2>3
    <3> QED
      BY <3>1
  <2> QED
    BY <2>1, <2>4
<1>4. Len(l) \in Good
  <2> HIDE DEF Good
  <2>1. \A n \in 0..Len(l) : n \in Good
    BY <1>1, <1>2, <1>3, InductionUpTo
  <2> QED
    BY <1>2, <2>1
<1>5. \E f : IsKept(f, l, valid)
  BY <1>4 DEF IsKept
<1> DEFINE c == CHOOSE f : IsKept(f, l, valid)
<1>6. IsKept(c, l, valid)
  BY <1>5
<1>7. RowsIn(l, valid) = c[Len(l)]
  BY DEF RowsIn, IsKept
<1> QED
  BY <1>6, <1>7

(* Rows or lines in order of time.                                           *)
InOrder(l) == \A i, j \in DOMAIN l : i < j => l[i].ts <= l[j].ts

(* s has been kept from the first n rows of a log.                           *)
KeptFrom(s, l, valid, n, E) ==
  /\ s \in Seq(E)
  /\ \A i \in DOMAIN s : \E j \in 1..n : j \in valid /\ s[i] = l[j]
  /\ InOrder(l) => InOrder(s)

(* A script keeps valid rows only, and in their order.                       *)
LEMMA RowsKept ==
  ASSUME NEW E, NEW l \in Seq(E), NEW valid
  PROVE  KeptFrom(RowsIn(l, valid), l, valid, Len(l), E)
<1>1. PICK kept : IsKept(kept, l, valid) /\ RowsIn(l, valid) = kept[Len(l)]
  BY KeptExists
<1> DEFINE Good == {n \in Nat : KeptFrom(kept[n], l, valid, n, E)}
<1>2. Len(l) \in Nat /\ DOMAIN l = 1..Len(l) /\ \A i \in 1..Len(l) : l[i] \in E
  OBVIOUS
<1>3. 0 \in Good
  <2>1. kept[0] = <<>>
    BY <1>1, <1>2 DEF IsKept
  <2>2. <<>> \in Seq(E) /\ DOMAIN <<>> = {}
    OBVIOUS
  <2> QED
    BY <2>1, <2>2 DEF KeptFrom, InOrder
<1>4. ASSUME NEW n \in 1..Len(l), n - 1 \in Good
      PROVE  n \in Good
  <2>1. n \in Nat /\ n # 0 /\ n \in 0..Len(l) /\ l[n] \in E /\ n \in DOMAIN l
    BY <1>2
  <2>2. kept[n] = IF n \in valid THEN Append(kept[n - 1], l[n]) ELSE kept[n - 1]
    BY <1>1, <2>1 DEF IsKept
  <2>3. KeptFrom(kept[n - 1], l, valid, n - 1, E)
    BY <1>4
  <2>4. PICK s, x : s = kept[n - 1] /\ x = l[n]
    OBVIOUS
  <2>5. /\ s \in Seq(E) /\ x \in E
        /\ \A i \in DOMAIN s : \E j \in 1..n - 1 : j \in valid /\ s[i] = l[j]
        /\ InOrder(l) => InOrder(s)
    BY <2>1, <2>3, <2>4 DEF KeptFrom
  <2>6. \A j \in 1..n - 1 : j \in 1..n /\ j < n /\ j \in DOMAIN l
    BY <1>2, <2>1
  <2>7. CASE n \notin valid
    <3>1. kept[n] = s
      BY <2>2, <2>4, <2>7
    <3> QED
      BY <2>1, <2>5, <2>6, <3>1 DEF KeptFrom
  <2>8. CASE n \in valid
    <3>1. PICK t : t = Append(s, x)
      OBVIOUS
    <3>2. /\ t \in Seq(E) /\ Len(s) \in Nat /\ DOMAIN s = 1..Len(s) /\ DOMAIN t = 1..Len(s) + 1
          /\ t[Len(s) + 1] = x /\ \A i \in 1..Len(s) : t[i] = s[i]
      BY <2>5, <3>1
    <3>3. \A i \in DOMAIN t : (i \in DOMAIN s /\ t[i] = s[i]) \/ i = Len(s) + 1
      BY <3>2
    <3>4. \A i \in DOMAIN t : \E j \in 1..n : j \in valid /\ t[i] = l[j]
      <4>1. n \in 1..n
        BY <2>1
      <4> QED
        BY <2>4, <2>5, <2>6, <2>8, <3>2, <3>3, <4>1
    <3>5. ASSUME InOrder(l), NEW i \in DOMAIN t, NEW k \in DOMAIN t, i < k
          PROVE  t[i].ts <= t[k].ts
      <4>1. i \in DOMAIN s /\ t[i] = s[i]
        BY <3>2, <3>5
      <4>2. CASE k \in DOMAIN s /\ t[k] = s[k]
        BY <2>5, <3>5, <4>1, <4>2 DEF InOrder
      <4>3. CASE k = Len(s) + 1
        <5>1. PICK j \in 1..n - 1 : s[i] = l[j]
          BY <2>5, <4>1
        <5>2. l[j].ts <= l[n].ts
          BY <2>1, <2>6, <3>5, <5>1 DEF InOrder
        <5> QED
          BY <2>4, <3>2, <4>1, <4>3, <5>1, <5>2
      <4> QED
        BY <3>3, <4>2, <4>3
    <3>6. kept[n] = t
      BY <2>2, <2>4, <2>8, <3>1
    <3>7. InOrder(l) => InOrder(t)
      BY <3>5 DEF InOrder
    <3> QED
      BY <2>1, <3>2, <3>4, <3>6, <3>7 DEF KeptFrom
  <2> QED
    BY <2>7, <2>8
<1>5. \A n \in 0..Len(l) : n \in Good
  <2> HIDE DEF Good
  <2> QED
    BY <1>2, <1>3, <1>4, InductionUpTo
<1>6. Len(l) \in Good
  BY <1>2, <1>5
<1> QED
  BY <1>1, <1>6

(* The first n elements of a sequence.                                       *)
LEMMA FirstPart ==
  ASSUME NEW S, NEW s \in Seq(S), NEW n \in 0..Len(s)
  PROVE  /\ SubSeq(s, 1, n) \in Seq(S) /\ Len(SubSeq(s, 1, n)) = n
         /\ DOMAIN SubSeq(s, 1, n) = 1..n
         /\ \A i \in 1..n : SubSeq(s, 1, n)[i] = s[i]
<1>1. Len(s) \in Nat /\ n \in Int /\ 1 \in Int /\ \A i \in 1..n : s[i] \in S
  OBVIOUS
<1>2. PICK t : t = SubSeq(s, 1, n)
  OBVIOUS
<1>3. /\ t \in Seq(S) /\ Len(t) = (IF 1 <= n THEN n - 1 + 1 ELSE 0)
      /\ \A i \in 1..n - 1 + 1 : t[i] = s[1 + i - 1]
  BY <1>1, <1>2, SubSeqProperties
<1>4. n - 1 + 1 = n /\ \A i \in 1..n : 1 + i - 1 = i
  BY <1>1
<1>5. \A i \in 1..n : t[i] = s[i]
  BY <1>3, <1>4
<1>6. Len(t) = n
  BY <1>1, <1>3
<1> QED
  BY <1>2, <1>3, <1>5, <1>6

(* A multiple leaves no remainder.                                           *)
LEMMA NoRemainder ==
  ASSUME NEW k \in Int, NEW s \in Nat \ {0}
  PROVE  (k * s) % s = 0
<1>1. PICK x, q, r : x = k * s /\ q = x \div s /\ r = x % s
  OBVIOUS
<1>2. x \in Int
  BY <1>1
<1>3. q \in Int /\ r \in 0..s - 1 /\ x = s * q + r
  BY <1>1, <1>2
<1>4. PICK d \in Int : d = k - q
  BY <1>3
<1>5. d * s = r
  <2>1. d * s = k * s - q * s /\ s * q = q * s /\ k * s \in Int /\ q * s \in Int
    BY <1>3, <1>4
  <2> QED
    BY <1>1, <1>3, <2>1
<1>6. CASE d >= 1
  <2>1. s <= d * s
    <3>1. PICK e \in Nat : d = e + 1
      <4>1. d - 1 \in Nat /\ d = (d - 1) + 1
        BY <1>6
      <4> QED
        BY <4>1
    <3>2. d * s = e * s + s /\ e * s \in Nat
      BY <3>1
    <3> QED
      BY <3>2
  <2> QED
    BY <1>3, <1>5, <2>1
<1>7. CASE d <= -1
  <2>1. PICK e \in Nat : d = -(e + 1)
    <3>1. -d - 1 \in Nat /\ d = -((-d - 1) + 1)
      BY <1>7
    <3> QED
      BY <3>1
  <2>2. d * s = -(e * s + s) /\ e * s \in Nat
    BY <2>1
  <2> QED
    BY <1>3, <1>5, <2>2
<1>8. CASE d = 0
  BY <1>1, <1>5, <1>8
<1> QED
  BY <1>6, <1>7, <1>8

(* Differences and multiples of multiples.                                   *)
LEMMA MultiplesClosed ==
  ASSUME NEW s \in Nat \ {0}, NEW a \in Int, NEW b \in Int, NEW m \in Int,
         a % s = 0, b % s = 0
  PROVE  (a - b) % s = 0 /\ (m * (a - b)) % s = 0
<1>1. PICK j, k : j = a \div s /\ k = b \div s
  OBVIOUS
<1>2. j \in Int /\ k \in Int /\ j * s = a /\ k * s = b
  BY <1>1, ExactDivision
<1>3. a - b = (j - k) * s /\ j - k \in Int
  BY <1>2
<1>4. PICK d \in Int : d = j - k /\ a - b = d * s
  BY <1>3
<1>5. m * (a - b) = (m * d) * s /\ m * d \in Int
  BY <1>4
<1> QED
  BY <1>4, <1>5, NoRemainder

(* A line of a trace, as the generator reads it.                             *)
LineOK(l) ==
  /\ l.kind \in {"malformed", "broken", "record"}
  /\ l.kind = "record" =>
       /\ l.at \in Int /\ l.at % Speedup = 0 /\ l.len \in Nat
       /\ l.hashes = NoHashes \/ l.hashes \in Seq(Nat)
FileOK(f) == Len(f) \in Nat /\ DOMAIN f = 1..Len(f) /\ \A i \in DOMAIN f : LineOK(f[i])

(* What a converted file looks like: records only, as far apart as the rows. *)
Converted(f, kept, ticks) ==
  /\ Len(f) = Len(kept)
  /\ \A i \in DOMAIN f : /\ f[i].kind = "record"
                         /\ f[i].at = ticks * (kept[i].ts - kept[1].ts)

LEMMA TracesOK ==
  ASSUME NEW f \in Traces
  PROVE  FileOK(f)
<1>1. f \in Seq(ToSet(f))
  BY WorkloadAssumption
<1>2. Len(f) \in Nat /\ DOMAIN f = 1..Len(f)
  BY <1>1
<1>3. \A i \in DOMAIN f : f[i] \in Lines
  BY DEF Lines, ToSet
<1>4. \A i \in DOMAIN f : LineOK(f[i])
  BY <1>3, WorkloadAssumption DEF LineOK
<1> QED
  BY <1>2, <1>4 DEF FileOK

(* The rows that are kept are full ones.                                     *)
LEMMA FullRows ==
  ASSUME NEW l \in Logs, NEW valid,
         \A i \in DOMAIN l : i \in valid => l[i].kind = "full"
  PROVE  /\ RowsIn(l, valid) \in Seq(ToSet(l))
         /\ \A i \in DOMAIN RowsIn(l, valid) :
              LET row == RowsIn(l, valid)[i]
              IN /\ row.ts \in Int /\ row.ts % Speedup = 0
                 /\ row.len \in Nat /\ row.hashes \in Seq(Nat)
         /\ InOrder(l) => InOrder(RowsIn(l, valid))
<1>1. l \in Seq(ToSet(l))
  BY WorkloadAssumption
<1>2. KeptFrom(RowsIn(l, valid), l, valid, Len(l), ToSet(l))
  BY <1>1, RowsKept
<1>3. DOMAIN l = 1..Len(l)
  BY <1>1
<1>4. PICK s : s = RowsIn(l, valid)
  OBVIOUS
<1>5. ASSUME NEW i \in DOMAIN s
      PROVE  /\ s[i].ts \in Int /\ s[i].ts % Speedup = 0
             /\ s[i].len \in Nat /\ s[i].hashes \in Seq(Nat)
  <2>1. PICK j \in 1..Len(l) : j \in valid /\ s[i] = l[j]
    BY <1>2, <1>4, <1>5 DEF KeptFrom
  <2>2. l[j] \in Rows /\ l[j].kind = "full"
    BY <1>3, <2>1 DEF Rows, ToSet
  <2> QED
    BY <2>1, <2>2, WorkloadAssumption
<1> QED
  BY <1>2, <1>4, <1>5 DEF KeptFrom

LEMMA MooncakeFile ==
  ASSUME NEW l \in Logs
  PROVE  /\ FileOK(ConvertMooncake(l))
         /\ Converted(ConvertMooncake(l), MooncakeRows(l), 1)
         /\ \A i \in DOMAIN ConvertMooncake(l) : ConvertMooncake(l)[i].hashes \in Seq(Nat)
         /\ InOrder(l) => InOrder(MooncakeRows(l))
         /\ MooncakeRows(l) \in Seq(ToSet(l))
         /\ \A i \in DOMAIN MooncakeRows(l) : MooncakeRows(l)[i].ts \in Int
<1> DEFINE valid == {i \in DOMAIN l : MooncakeValid(l[i])}
<1>1. \A i \in DOMAIN l : i \in valid => l[i].kind = "full"
  BY DEF MooncakeValid
<1>2. MooncakeRows(l) = RowsIn(l, valid)
  BY DEF MooncakeRows
<1>3. PICK s : s = MooncakeRows(l)
  OBVIOUS
<1> HIDE DEF valid
<1>4. /\ s \in Seq(ToSet(l))
      /\ \A i \in DOMAIN s :
           /\ s[i].ts \in Int /\ s[i].ts % Speedup = 0
           /\ s[i].len \in Nat /\ s[i].hashes \in Seq(Nat)
      /\ InOrder(l) => InOrder(s)
  BY <1>1, <1>2, <1>3, FullRows
<1>5. PICK f : f = ConvertMooncake(l)
  OBVIOUS
<1>6. f = [i \in DOMAIN s |-> Line(s[i], ZeroBased(s, l, i), s[i].hashes)]
  BY <1>3, <1>5 DEF ConvertMooncake
<1>7. Len(s) \in Nat /\ DOMAIN s = 1..Len(s)
  BY <1>4
<1>8. DOMAIN f = 1..Len(s) /\ Len(f) = Len(s)
  BY <1>6, <1>7
<1>9. ASSUME NEW i \in DOMAIN f
      PROVE  /\ LineOK(f[i]) /\ f[i].kind = "record" /\ f[i].hashes \in Seq(Nat)
             /\ f[i].at = 1 * (s[i].ts - s[1].ts)
  <2>1. i \in DOMAIN s /\ 1 \in DOMAIN s
    BY <1>7, <1>8, <1>9
  <2>2. /\ f[i].kind = "record" /\ f[i].at = s[i].ts - s[1].ts
        /\ f[i].len = s[i].len /\ f[i].hashes = s[i].hashes
    BY <1>6, <2>1 DEF Line, ZeroBased
  <2>3. PICK a \in Int, b \in Int : a = s[i].ts /\ b = s[1].ts
    BY <1>4, <2>1
  <2>4. a % Speedup = 0 /\ b % Speedup = 0
    BY <1>4, <2>1, <2>3
  <2>5. (a - b) % Speedup = 0
    <3>1. Speedup \in Nat \ {0} /\ 1 \in Int
      BY WorkloadAssumption
    <3> QED
      BY <2>4, <3>1, MultiplesClosed
  <2>6. a - b \in Int /\ a - b = 1 * (a - b)
    OBVIOUS
  <2> QED
    BY <1>4, <2>1, <2>2, <2>3, <2>5, <2>6 DEF LineOK
<1>10. FileOK(f)
  BY <1>7, <1>8, <1>9 DEF FileOK
<1>11. Converted(f, s, 1)
  BY <1>7, <1>8, <1>9 DEF Converted
<1> QED
  BY <1>3, <1>4, <1>5, <1>9, <1>10, <1>11

LEMMA BurstFile ==
  ASSUME NEW l \in Logs
  PROVE  /\ FileOK(ConvertBurstGPT(l))
         /\ Len(ConvertBurstGPT(l)) <= Len(BurstRows(l))
         /\ \A i \in DOMAIN ConvertBurstGPT(l) :
              /\ ConvertBurstGPT(l)[i].kind = "record"
              /\ ConvertBurstGPT(l)[i].at = MsPerSecond * (BurstRows(l)[i].ts - BurstRows(l)[1].ts)
         /\ InOrder(l) => InOrder(BurstRows(l))
         /\ BurstRows(l) \in Seq(ToSet(l))
         /\ \A i \in DOMAIN BurstRows(l) : BurstRows(l)[i].ts \in Int
<1> DEFINE valid == {i \in DOMAIN l : BurstValid(l[i])}
<1>1. \A i \in DOMAIN l : i \in valid => l[i].kind = "full"
  BY DEF BurstValid
<1>2. BurstRows(l) = RowsIn(l, valid)
  BY DEF BurstRows
<1>3. PICK s : s = BurstRows(l)
  OBVIOUS
<1> HIDE DEF valid
<1>4. /\ s \in Seq(ToSet(l))
      /\ \A i \in DOMAIN s :
           /\ s[i].ts \in Int /\ s[i].ts % Speedup = 0
           /\ s[i].len \in Nat /\ s[i].hashes \in Seq(Nat)
      /\ InOrder(l) => InOrder(s)
  BY <1>1, <1>2, <1>3, FullRows
<1>5. PICK f, m, k : f = ConvertBurstGPT(l) /\ m = Min({Limit, Len(s)}) /\ k = SubSeq(s, 1, m)
  OBVIOUS
<1>6. f = [i \in DOMAIN k |-> Line(k[i], MsPerSecond * ZeroBased(k, l, i), NoHashes)]
  BY <1>3, <1>5 DEF ConvertBurstGPT
<1>7. Len(s) \in Nat /\ DOMAIN s = 1..Len(s)
  BY <1>4
<1>8. m \in Nat /\ m <= Len(s)
  <2>1. Limit \in Nat
    BY ConversionAssumption
  <2> QED
    BY <1>5, <1>7, <2>1 DEF Min
<1>9. DOMAIN k = 1..m /\ \A i \in 1..m : k[i] = s[i]
  <2>1. m \in 0..Len(s)
    BY <1>7, <1>8
  <2> QED
    BY <1>4, <1>5, <2>1, FirstPart
<1>10. DOMAIN f = 1..m /\ Len(f) = m
  BY <1>6, <1>8, <1>9
<1>11. ASSUME NEW i \in DOMAIN f
      PROVE  /\ LineOK(f[i]) /\ f[i].kind = "record"
             /\ f[i].at = MsPerSecond * (s[i].ts - s[1].ts)
  <2>1. i \in DOMAIN s /\ 1 \in DOMAIN s /\ i \in DOMAIN k /\ 1 \in DOMAIN k /\ i \in 1..m /\ 1 \in 1..m
    BY <1>7, <1>8, <1>9, <1>10, <1>11
  <2>2. /\ f[i].kind = "record" /\ f[i].at = MsPerSecond * (s[i].ts - s[1].ts)
        /\ f[i].len = s[i].len /\ f[i].hashes = NoHashes
    BY <1>6, <1>9, <2>1 DEF Line, ZeroBased
  <2>3. PICK a \in Int, b \in Int : a = s[i].ts /\ b = s[1].ts
    BY <1>4, <2>1
  <2>4. a % Speedup = 0 /\ b % Speedup = 0
    BY <1>4, <2>1, <2>3
  <2>5. (MsPerSecond * (a - b)) % Speedup = 0 /\ MsPerSecond * (a - b) \in Int
    <3>1. Speedup \in Nat \ {0} /\ MsPerSecond \in Int
      BY WorkloadAssumption, ConversionAssumption
    <3>2. MsPerSecond * (a - b) \in Int
      BY <3>1
    <3> QED
      BY <2>4, <3>1, <3>2, MultiplesClosed
  <2> QED
    BY <1>4, <2>1, <2>2, <2>3, <2>5 DEF LineOK
<1>12. FileOK(f)
  BY <1>8, <1>10, <1>11 DEF FileOK
<1> QED
  BY <1>3, <1>4, <1>5, <1>8, <1>10, <1>11, <1>12

-----------------------------------------------------------------------------
(* Token lists.                                                              *)

(* The greater and the lesser of two numbers.                                *)
LEMMA OfTwo ==
  ASSUME NEW a \in Int, NEW b \in Int
  PROVE  /\ Max({a, b}) = (IF a >= b THEN a ELSE b)
         /\ Min({a, b}) = (IF a <= b THEN a ELSE b)
<1>1. CASE a <= b
  BY <1>1 DEF Max, Min
<1>2. CASE b <= a
  BY <1>2 DEF Max, Min
<1> QED
  BY <1>1, <1>2

(* Bucket tokens: n draws that follow the first d.                           *)
LEMMA BucketFacts ==
  ASSUME NEW d \in Nat, NEW n \in Nat
  PROVE  /\ BucketDraws(d, n) \in Seq(Nat) /\ Len(BucketDraws(d, n)) = n
         /\ DOMAIN BucketDraws(d, n) = 1..n
         /\ \A i \in 1..n : BucketDraws(d, n)[i] = d + i - 1
<1>1. PICK s : s = BucketDraws(d, n)
  OBVIOUS
<1>2. s = [i \in 1..n |-> d + i - 1]
  BY <1>1 DEF BucketDraws
<1>3. \A i \in 1..n : d + i - 1 \in Nat
  OBVIOUS
<1>4. s \in Seq(Nat) /\ Len(s) = n
  BY <1>2, <1>3
<1> QED
  BY <1>1, <1>2, <1>4

(* v is the token of one of the draws lo..hi - 1 for suffixes, which have a  *)
(* stream of their own unless there is one seed.                             *)
DrawnToken(same, v, lo, hi) ==
  IF same THEN lo <= v /\ v < hi ELSE -hi <= v /\ v < -lo

(* Suffix tokens: n draws that follow the first d.                           *)
LEMMA SuffixFacts ==
  ASSUME NEW same, NEW d \in Nat, NEW n \in Nat
  PROVE  /\ SuffixDraws(same, d, n) \in Seq(Int) /\ Len(SuffixDraws(same, d, n)) = n
         /\ DOMAIN SuffixDraws(same, d, n) = 1..n
         /\ \A i \in 1..n : DrawnToken(same, SuffixDraws(same, d, n)[i], d, d + n)
<1>1. PICK s : s = SuffixDraws(same, d, n)
  OBVIOUS
<1>2. CASE same
  <2>1. s = BucketDraws(d, n)
    BY <1>1, <1>2 DEF SuffixDraws
  <2>2. s \in Seq(Nat) /\ Len(s) = n /\ DOMAIN s = 1..n /\ \A i \in 1..n : s[i] = d + i - 1
    BY <2>1, BucketFacts
  <2>3. Seq(Nat) \subseteq Seq(Int)
    OBVIOUS
  <2>4. \A i \in 1..n : d <= s[i] /\ s[i] < d + n
    BY <2>2
  <2> QED
    BY <1>1, <1>2, <2>2, <2>3, <2>4 DEF DrawnToken
<1>3. CASE ~same
  <2>1. s = [i \in 1..n |-> -(d + i)]
    BY <1>1, <1>3 DEF SuffixDraws
  <2>2. \A i \in 1..n : -(d + i) \in Int
    OBVIOUS
  <2>3. s \in Seq(Int) /\ Len(s) = n /\ DOMAIN s = 1..n
    BY <2>1, <2>2
  <2>4. \A i \in 1..n : -(d + n) <= s[i] /\ s[i] < -d
    BY <2>1
  <2> QED
    BY <1>1, <1>3, <2>3, <2>4 DEF DrawnToken
<1> QED
  BY <1>2, <1>3

(* A prompt of p shared tokens whose suffix is drawn after the first d.      *)
IsPrompt(same, tokens, p, d, len) ==
  /\ tokens \in Seq(Int) /\ Len(tokens) = len /\ DOMAIN tokens = 1..len
  /\ p \in 0..len
  /\ \A k \in 1..len : IF k <= p THEN tokens[k] >= 0
                       ELSE DrawnToken(same, tokens[k], d, d + len - p)

(* A shared part and a suffix.                                               *)
LEMMA PromptFacts ==
  ASSUME NEW same,
         NEW pre \in Seq(Nat), NEW d \in Nat, NEW len \in Nat, Len(pre) <= len
  PROVE  /\ IsPrompt(same, pre \o SuffixDraws(same, d, len - Len(pre)), Len(pre), d, len)
         /\ \A k \in 1..Len(pre) : (pre \o SuffixDraws(same, d, len - Len(pre)))[k] = pre[k]
<1>1. PICK p, n, s, t : p = Len(pre) /\ n = len - p /\ s = SuffixDraws(same, d, n) /\ t = pre \o s
  OBVIOUS
<1>2. p \in Nat /\ n \in Nat /\ p <= len
  BY <1>1
<1>3. s \in Seq(Int) /\ Len(s) = n /\ \A i \in 1..n : DrawnToken(same, s[i], d, d + n)
  <2>1. /\ SuffixDraws(same, d, n) \in Seq(Int) /\ Len(SuffixDraws(same, d, n)) = n
        /\ \A i \in 1..n : DrawnToken(same, SuffixDraws(same, d, n)[i], d, d + n)
    BY <1>2, SuffixFacts
  <2> QED
    BY <1>1, <2>1, Zenon
<1>4. pre \in Seq(Int) /\ \A k \in 1..p : pre[k] \in Nat
  <2>1. Seq(Nat) \subseteq Seq(Int)
    OBVIOUS
  <2> QED
    BY <1>1, <2>1
<1>5. t \in Seq(Int) /\ Len(t) = p + n
  BY <1>1, <1>3, <1>4
<1>6. \A k \in 1..p + n : t[k] = IF k <= p THEN pre[k] ELSE s[k - p]
  BY <1>1, <1>2, <1>3, <1>4
<1>7. p + n = len /\ DOMAIN t = 1..len
  BY <1>1, <1>2, <1>5
<1>8. ASSUME NEW k \in 1..len
      PROVE  IF k <= p THEN t[k] >= 0 ELSE DrawnToken(same, t[k], d, d + len - p)
  <2>1. CASE k <= p
    <3>1. k \in 1..p /\ t[k] = pre[k]
      BY <1>2, <1>6, <1>7, <2>1
    <3> QED
      BY <1>4, <2>1, <3>1
  <2>2. CASE ~(k <= p)
    <3>1. k - p \in 1..n /\ t[k] = s[k - p]
      BY <1>2, <1>6, <1>7, <2>2
    <3>2. DrawnToken(same, t[k], d, d + n)
      BY <1>3, <3>1
    <3>3. d + len - p = d + n
      BY <1>1, <1>2
    <3> QED
      BY <2>2, <3>2, <3>3
  <2> QED
    BY <2>1, <2>2
<1>9. IsPrompt(same, t, p, d, len)
  BY <1>2, <1>5, <1>7, <1>8 DEF IsPrompt
<1>10. \A k \in 1..p : t[k] = pre[k]
  BY <1>2, <1>6, <1>7
<1> QED
  BY <1>1, <1>9, <1>10

(* A prompt that shares nothing.                                             *)
LEMMA UnsharedPrompt ==
  ASSUME NEW same, NEW d \in Nat, NEW len \in Nat
  PROVE  IsPrompt(same, SuffixDraws(same, d, len), 0, d, len)
<1>1. PICK s : s = SuffixDraws(same, d, len)
  OBVIOUS
<1>2. /\ s \in Seq(Int) /\ Len(s) = len /\ DOMAIN s = 1..len
      /\ \A i \in 1..len : DrawnToken(same, s[i], d, d + len)
  BY <1>1, SuffixFacts
<1>3. \A k \in 1..len : ~(k <= 0) /\ DrawnToken(same, s[k], d, d + len - 0)
  <2>1. d + len - 0 = d + len /\ \A k \in 1..len : ~(k <= 0)
    OBVIOUS
  <2> QED
    BY <1>2, <2>1
<1> QED
  BY <1>1, <1>2, <1>3 DEF IsPrompt

(* Hash ids expanded.                                                        *)
LEMMA HashPrompt ==
  ASSUME NEW same, ~same, NEW h \in Seq(Nat), NEW len \in Nat, NEW d \in Nat,
         NEW e, e = Expanded(h, len), NEW t, t = BuildTokenIds(h, len, d)
  PROVE  /\ IsPrompt(same, t, e, d, len)
         /\ e % BlockSize = 0 /\ e \div BlockSize <= Len(h)
         /\ \A k \in 1..e : t[k] = HashToken(h[(k - 1) \div BlockSize + 1], (k - 1) % BlockSize)
<1>1. PICK b, q, n : b = BlockSize /\ q = len \div b /\ n = Min({Len(h), q})
  OBVIOUS
<1>2. b \in Nat \ {0} /\ Len(h) \in Nat
  BY <1>1, SynthesisAssumption
<1>3. q \in Nat /\ q * b <= len
  BY <1>1, <1>2, DivisionFacts
<1>4. n \in Nat /\ n <= Len(h) /\ n <= q
  BY <1>1, <1>2, <1>3, SMTT(40) DEF Min
<1>5. e = n * b
  BY <1>1 DEF Expanded
<1>6. e \in Nat /\ e <= len
  <2>1. n * b <= q * b /\ n * b \in Nat /\ q * b \in Nat
    BY <1>2, <1>3, <1>4, FactorOrder
  <2> QED
    BY <1>3, <1>5, <2>1
<1>7. e % b = 0
  BY <1>2, <1>4, <1>5, NoRemainder
<1>8. e \div b = n
  <2>1. PICK j : j = e \div b
    OBVIOUS
  <2>2. j \in Nat /\ j * b = e
    <3>1. j \in Int /\ j * b = e
      <4>1. e \in Int
        BY <1>6
      <4> QED
        BY <1>2, <1>7, <2>1, <4>1, ExactDivision
    <3>2. j \in Nat
      BY <1>2, <1>6, <2>1, DivisionFacts
    <3> QED
      BY <3>1, <3>2
  <2>3. j <= n /\ n <= j
    <3>1. j * b <= n * b /\ n * b <= j * b
      BY <1>5, <1>6, <2>2
    <3> QED
      BY <1>2, <1>4, <2>2, <3>1, FactorOrder
  <2> QED
    BY <1>4, <2>1, <2>2, <2>3
<1> DEFINE tok(k) == HashToken(h[(k - 1) \div b + 1], (k - 1) % b)
<1>9. ASSUME NEW k \in 1..e
      PROVE  tok(k) \in Nat
  <2>1. PICK m, j, r : m = k - 1 /\ j = m \div b /\ r = m % b
    OBVIOUS
  <2>2. m \in Nat /\ m < n * b
    BY <1>5, <1>6, <2>1
  <2>3. j \in Nat /\ j * b <= m /\ r \in Nat
    BY <1>2, <2>1, <2>2, DivisionFacts
  <2>4. j < n
    <3>1. j * b < n * b
      <4>1. j * b \in Int /\ n * b \in Int
        BY <1>2, <1>4, <2>3
      <4> QED
        BY <2>2, <2>3, <4>1
    <3> QED
      BY <1>2, <1>4, <2>3, <3>1, FactorOrder
  <2>5. j + 1 \in 1..Len(h)
    BY <1>2, <1>4, <2>3, <2>4
  <2>6. h[j + 1] \in Nat
    BY <2>5
  <2>7. h[j + 1] * b + r \in Nat
    <3>1. PICK x \in Nat : x = h[j + 1]
      BY <2>6
    <3>2. x * b \in Nat
      BY <1>2
    <3> QED
      BY <2>3, <3>1, <3>2
  <2>8. tok(k) = h[j + 1] * b + r
    BY <1>1, <2>1 DEF HashToken
  <2> QED
    BY <2>7, <2>8
<1>10. PICK pre : pre = [k \in 1..e |-> tok(k)]
  OBVIOUS
<1>11. pre \in Seq(Nat) /\ Len(pre) = e
  <2> HIDE DEF tok
  <2>1. \A k \in 1..e : tok(k) \in Nat
    BY <1>9
  <2> QED
    BY <1>6, <1>10, <2>1
<1>12. t = pre \o SuffixDraws(same, d, len - Len(pre))
  BY <1>1, <1>10, <1>11 DEF BuildTokenIds, SuffixDraws
<1>13. /\ IsPrompt(same, t, e, d, len)
       /\ \A k \in 1..e : t[k] = pre[k]
  <2>1. Len(pre) <= len /\ pre \in Seq(Nat)
    BY <1>6, <1>11
  <2>2. /\ IsPrompt(same, pre \o SuffixDraws(same, d, len - Len(pre)), Len(pre), d, len)
        /\ \A k \in 1..Len(pre) : (pre \o SuffixDraws(same, d, len - Len(pre)))[k] = pre[k]
    BY <2>1, PromptFacts
  <2> QED
    BY <1>11, <1>12, <2>2
<1>14. \A k \in 1..e : pre[k] = tok(k)
  BY <1>10
<1>15. e % BlockSize = 0 /\ e \div BlockSize <= Len(h)
  BY <1>1, <1>4, <1>7, <1>8
<1>16. \A k \in 1..e : t[k] = HashToken(h[(k - 1) \div BlockSize + 1], (k - 1) % BlockSize)
  <2>1. \A k \in 1..e : t[k] = pre[k]
    BY <1>13
  <2> QED
    BY <1>1, <1>14, <2>1
<1> QED
  BY <1>13, <1>15, <1>16

(* A bucket t that has become at least n tokens long by m new draws.         *)
IsExtended(t, s, n, d, m) ==
  /\ m \in Nat
  /\ t \in Seq(Nat) /\ Len(s) <= Len(t) /\ n <= Len(t) /\ DOMAIN t = 1..Len(t)
  /\ \A k \in 1..Len(s) : t[k] = s[k]
  /\ \A k \in 1..Len(t) : k > Len(s) => d <= t[k] /\ t[k] < d + m

(* A bucket that is extended to n tokens.                                    *)
LEMMA ExtendedFacts ==
  ASSUME NEW s \in Seq(Nat), NEW n \in Nat, NEW d \in Nat,
         NEW t, t = Extended(s, n, d), NEW m, m = Max({0, n - Len(s)})
  PROVE  IsExtended(t, s, n, d, m)
<1>1. Len(s) \in Nat
  OBVIOUS
<1>2. m \in Nat /\ n - Len(s) <= m
  <2>1. PICK v \in Int : v = n - Len(s)
    BY <1>1
  <2>2. m = IF 0 >= v THEN 0 ELSE v
    BY <2>1, OfTwo
  <2> QED
    BY <2>1, <2>2
<1>3. PICK x : x = BucketDraws(d, m)
  OBVIOUS
<1>4. x \in Seq(Nat) /\ Len(x) = m /\ \A i \in 1..m : x[i] = d + i - 1
  BY <1>2, <1>3, BucketFacts
<1>5. t = s \o x
  BY <1>3 DEF Extended
<1>6. t \in Seq(Nat) /\ Len(t) = Len(s) + m
  <2>1. s \o x \in Seq(Nat) /\ Len(s \o x) = Len(s) + Len(x)
    BY <1>4, ConcatProperties
  <2> QED
    BY <1>4, <1>5, <2>1
<1>7. \A k \in 1..Len(t) : t[k] = IF k <= Len(s) THEN s[k] ELSE x[k - Len(s)]
  BY <1>4, <1>5, <1>6
<1>8. ASSUME NEW k \in 1..Len(t), k > Len(s)
      PROVE  d <= t[k] /\ t[k] < d + m
  <2>1. k - Len(s) \in 1..m
    BY <1>1, <1>2, <1>6, <1>8
  <2>2. t[k] = x[k - Len(s)]
    BY <1>1, <1>7, <1>8
  <2>3. PICK v \in 1..m : v = k - Len(s)
    BY <2>1
  <2>4. t[k] = d + v - 1
    BY <1>4, <2>2, <2>3
  <2> QED
    BY <1>2, <2>4
<1>9. \A k \in 1..Len(s) : t[k] = s[k]
  <2>1. \A k \in 1..Len(s) : k \in 1..Len(t) /\ k <= Len(s)
    BY <1>1, <1>2, <1>6
  <2> QED
    BY <1>7, <2>1
<1>10. Len(s) <= Len(t) /\ n <= Len(t)
  BY <1>1, <1>2, <1>6
<1>11. DOMAIN t = 1..Len(t)
  BY <1>6
<1> QED
  BY <1>2, <1>6, <1>8, <1>9, <1>10, <1>11 DEF IsExtended

-----------------------------------------------------------------------------
(* The window.                                                               *)

Entries == [bucket : Buckets, at : Int]
AtsInOrder(r) == \A i, j \in DOMAIN r : i < j => r[i].at <= r[j].at

(* What _purge_expired leaves: the end of the list, from the first entry     *)
(* that is recent.                                                           *)
Purged(live, r, at) ==
  /\ live \in Seq(Entries)
  /\ (\E i \in DOMAIN r : r[i].at >= at - Window) => live # <<>> /\ live[Len(live)] = r[Len(r)]
  /\ \A i \in DOMAIN live : \E j \in DOMAIN r : live[i] = r[j]
  /\ AtsInOrder(r) =>
       /\ AtsInOrder(live)
       /\ \A i \in DOMAIN live : live[i].at >= at - Window

LEMMA PurgeFacts ==
  ASSUME NEW r \in Seq(Entries), NEW at \in Int
  PROVE  Purged(PurgeExpired(r, at), r, at)
<1> SUFFICES ASSUME NEW live, live = PurgeExpired(r, at)
             PROVE  Purged(live, r, at)
  OBVIOUS
<1> DEFINE kept == {i \in DOMAIN r : r[i].at >= at - Window}
<1>1. Len(r) \in Nat /\ DOMAIN r = 1..Len(r) /\ \A i \in 1..Len(r) : r[i] \in Entries /\ r[i].at \in Int
  <2>1. Len(r) \in Nat /\ DOMAIN r = 1..Len(r) /\ \A i \in 1..Len(r) : r[i] \in Entries
    OBVIOUS
  <2>2. \A e \in Entries : e.at \in Int
    BY DEF Entries
  <2> QED
    BY <2>1, <2>2
<1>2. at - Window \in Int
  BY SynthesisAssumption
<1>3. CASE kept = {}
  <2>1. live = <<>>
    BY <1>3 DEF PurgeExpired
  <2>2. <<>> \in Seq(Entries) /\ DOMAIN <<>> = {}
    OBVIOUS
  <2> QED
    BY <1>3, <2>1, <2>2 DEF AtsInOrder, Purged
<1>4. CASE kept # {}
  <2>1. kept \in SUBSET Nat
    BY <1>1
  <2>2. PICK m \in kept : \A y \in kept : m <= y
    <3> HIDE DEF kept
    <3> QED
      BY <1>4, <2>1, LeastNatural
  <2>3. Min(kept) = m
    <3>1. \A x \in kept : (\A y \in kept : x <= y) => x = m
      <4> SUFFICES ASSUME NEW x \in kept, \A y \in kept : x <= y
                   PROVE  x = m
        OBVIOUS
      <4>1. x <= m /\ m <= x /\ x \in Nat /\ m \in Nat
        BY <2>1, <2>2
      <4> QED
        BY <4>1
    <3> HIDE DEF kept
    <3> QED
      BY <2>2, <3>1 DEF Min
  <2>4. live = SubSeq(r, m, Len(r))
    BY <1>4, <2>3 DEF PurgeExpired
  <2>5. m \in 1..Len(r) /\ r[m].at >= at - Window
    BY <1>1, <2>2
  <2>6. PICK n \in Nat : n = Len(r) - m + 1
    BY <1>1, <2>5
  <2>7. /\ live \in Seq(Entries) /\ Len(live) = n
        /\ \A i \in 1..n : live[i] = r[m + i - 1]
    <3>1. m \in Int /\ Len(r) \in Int /\ m <= Len(r) /\ \A i \in m..Len(r) : r[i] \in Entries
      BY <1>1, <2>5
    <3> QED
      BY <2>4, <2>6, <3>1, SubSeqProperties
  <2>8. DOMAIN live = 1..n /\ n >= 1
    BY <1>1, <2>5, <2>6, <2>7
  <2>9. \A i \in 1..n : m + i - 1 \in 1..Len(r) /\ m <= m + i - 1
    BY <1>1, <2>5, <2>6
  <2>10. live # <<>> /\ live[Len(live)] = r[Len(r)]
    <3>1. n \in 1..n /\ m + n - 1 = Len(r)
      BY <1>1, <2>5, <2>6, <2>8
    <3>2. live[n] = r[Len(r)]
      BY <2>7, <3>1
    <3>3. live # <<>>
      BY <2>7, <2>8
    <3> QED
      BY <2>7, <3>2, <3>3
  <2>11. ASSUME AtsInOrder(r)
         PROVE  /\ AtsInOrder(live)
                /\ \A i \in DOMAIN live : live[i].at >= at - Window
    <3>1. ASSUME NEW i \in DOMAIN live
          PROVE  live[i].at >= at - Window
      <4>1. PICK j \in 1..Len(r) : j = m + i - 1 /\ m <= j
        BY <2>8, <2>9, <3>1
      <4>2. live[i] = r[j]
        BY <2>7, <2>8, <3>1, <4>1
      <4>3. m = j \/ m < j
        BY <2>5, <4>1
      <4>4. r[m].at <= r[j].at
        <5>1. CASE m = j
          BY <1>1, <5>1
        <5>2. CASE m < j
          BY <1>1, <2>5, <2>11, <5>2 DEF AtsInOrder
        <5> QED
          BY <4>3, <5>1, <5>2
      <4>5. r[m].at \in Int /\ r[j].at \in Int
        BY <1>1, <2>5
      <4> QED
        BY <1>2, <2>5, <4>2, <4>4, <4>5
    <3>2. ASSUME NEW i \in DOMAIN live, NEW j \in DOMAIN live, i < j
          PROVE  live[i].at <= live[j].at
      <4>1. m + i - 1 < m + j - 1 /\ m + i - 1 \in DOMAIN r /\ m + j - 1 \in DOMAIN r
        BY <1>1, <2>5, <2>8, <2>9, <3>2
      <4>2. live[i] = r[m + i - 1] /\ live[j] = r[m + j - 1]
        BY <2>7, <2>8, <3>2
      <4> QED
        BY <2>11, <4>1, <4>2 DEF AtsInOrder
    <3> QED
      BY <3>1, <3>2 DEF AtsInOrder
  <2>12. \A i \in DOMAIN live : \E j \in DOMAIN r : live[i] = r[j]
    BY <1>1, <2>7, <2>8, <2>9
  <2> QED
    BY <2>7, <2>10, <2>11, <2>12 DEF Purged
<1> QED
  BY <1>3, <1>4

-----------------------------------------------------------------------------
(* Making a request.                                                         *)

RequestSet ==
  [at : Int, tokens : Seq(Int), bucket : Buckets \cup {NoBucket}, shared : Nat, local : BOOLEAN]

(* The prompts made so far, the buckets, the window and the draws.           *)
DrawsTyped ==
  /\ made \in Seq(RequestSet) /\ recent \in Seq(Entries)
  /\ buckets \in [Buckets -> Seq(Nat)] /\ drawn \in [bucket : Nat, suffix : Nat]
  /\ mode = "poisson" => \A b \in Buckets : Len(buckets[b]) = PrefixLen
  /\ oneSeed => mode = "synthesis"

(* The shared part of a prompt is the beginning of its bucket.               *)
Prefixed(m, bs) ==
  IF m.bucket = NoBucket THEN mode # "hash_ids" => m.shared = 0
  ELSE /\ m.shared <= Len(bs[m.bucket])
       /\ \A k \in 1..m.shared : m.tokens[k] = bs[m.bucket][k]

(* Buckets grow at their end and by new draws, one at a time.                *)
Grown ==
  /\ buckets' \in [Buckets -> Seq(Nat)] /\ drawn' \in [bucket : Nat, suffix : Nat]
  /\ drawn.bucket <= drawn'.bucket
  /\ \A b \in Buckets :
       /\ Len(buckets[b]) <= Len(buckets'[b])
       /\ \A k \in 1..Len(buckets[b]) : buckets'[b][k] = buckets[b][k]
       /\ \A k \in 1..Len(buckets'[b]) : k > Len(buckets[b]) =>
            drawn.bucket <= buckets'[b][k] /\ buckets'[b][k] < drawn'.bucket
  /\ \E c \in Buckets : \A b \in Buckets \ {c} : buckets'[b] = buckets[b]

(* A request m with len tokens has been made, its suffix from new draws.     *)
Added(m, at, len) ==
  /\ m \in RequestSet /\ made' = Append(made, m)
  /\ m.at = at /\ len \in Nat
  /\ IsPrompt(oneSeed, m.tokens, m.shared, drawn.suffix, len)
  /\ m.shared % BlockSize = 0
  /\ drawn'.suffix = drawn.suffix + len - m.shared
  /\ Prefixed(m, buckets') /\ Grown

(* It has the hash ids of its line.                                          *)
Hashed(m, h, len) ==
  /\ h \in Seq(Nat)
  /\ m.shared = Expanded(h, len) /\ m.shared \div BlockSize <= Len(h)
  /\ \A k \in 1..m.shared :
       m.tokens[k] = HashToken(h[(k - 1) \div BlockSize + 1], (k - 1) % BlockSize)

(* It has taken its bucket from the window if it could.                      *)
Windowed(m, at) ==
  LET live == PurgeExpired(recent, at)
  IN IF m.bucket = NoBucket THEN recent' = recent
     ELSE /\ recent' = Append(live, [bucket |-> m.bucket, at |-> at])
          /\ m.local => \E i \in DOMAIN live : live[i].bucket = m.bucket
          /\ LocalDraws = {TRUE} => (m.local <=> live # <<>>)

(* A line that is a record.                                                  *)
IsRecord(line) == LineOK(line) /\ line.kind = "record"

(* Buckets that stay as they are.                                            *)
LEMMA UngrownBuckets ==
  ASSUME DrawsTyped, UNCHANGED buckets, NEW c \in Nat, NEW n \in Nat, Draw(c, n)
  PROVE  Grown /\ drawn'.suffix = drawn.suffix + n
<1>1. drawn' = [bucket |-> drawn.bucket + c, suffix |-> drawn.suffix + n] /\ buckets' = buckets
  BY DEF Draw
<1>2. drawn.bucket \in Nat /\ drawn.suffix \in Nat /\ drawn \in [bucket : Nat, suffix : Nat]
  BY DEF DrawsTyped
<1>3. drawn' \in [bucket : Nat, suffix : Nat] /\ drawn'.bucket = drawn.bucket + c
      /\ drawn'.suffix = drawn.suffix + n
  BY <1>1, <1>2
<1>4. 0 \in Buckets
  BY SynthesisAssumption DEF Buckets
<1>5. \A b \in Buckets : Len(buckets[b]) \in Nat
  BY DEF DrawsTyped
<1> QED
  BY <1>1, <1>2, <1>3, <1>4, <1>5 DEF Grown, DrawsTyped

(* Without a shared part: no prefix mode, or a layer without a whole block.  *)
LEMMA UnsharedAdded ==
  ASSUME DrawsTyped, NEW line, IsRecord(line), mode # "hash_ids",
         made' = Append(made, Request(line.at, SuffixDraws(oneSeed, drawn.suffix, line.len), NoBucket, 0, FALSE)),
         NEW choice \in Nat, Draw(choice, line.len), UNCHANGED <<buckets, recent>>
  PROVE  \E m : Added(m, line.at, line.len) /\ Windowed(m, line.at)
<1>1. line.at \in Int /\ line.len \in Nat
  BY DEF IsRecord, LineOK
<1>2. drawn.suffix \in Nat
  BY DEF DrawsTyped
<1>3. PICK t : t = SuffixDraws(oneSeed, drawn.suffix, line.len)
  OBVIOUS
<1>4. IsPrompt(oneSeed, t, 0, drawn.suffix, line.len)
  BY <1>1, <1>2, <1>3, UnsharedPrompt
<1>5. Grown /\ drawn'.suffix = drawn.suffix + line.len
  BY <1>1, UngrownBuckets
<1>6. PICK m : m = Request(line.at, t, NoBucket, 0, FALSE)
  OBVIOUS
<1>7. /\ m \in RequestSet /\ m.at = line.at /\ m.tokens = t /\ m.shared = 0 /\ m.bucket = NoBucket
  BY <1>1, <1>4, <1>6 DEF Request, RequestSet, IsPrompt
<1>8. 0 % BlockSize = 0
  BY SynthesisAssumption
<1>9. drawn'.suffix = drawn.suffix + line.len - m.shared
  BY <1>1, <1>2, <1>5, <1>7
<1>10. Prefixed(m, buckets')
  BY <1>7 DEF Prefixed
<1>11. Added(m, line.at, line.len)
  BY <1>1, <1>3, <1>4, <1>5, <1>6, <1>7, <1>8, <1>9, <1>10 DEF Added
<1>12. Windowed(m, line.at)
  BY <1>7 DEF Windowed
<1> QED
  BY <1>11, <1>12

(* From hash ids.                                                            *)
LEMMA HashAdded ==
  ASSUME DrawsTyped, NEW line, IsRecord(line), line.hashes \in Seq(Nat), BuildFromHashes(line)
  PROVE  \E m : Added(m, line.at, line.len) /\ Hashed(m, line.hashes, line.len)
<1>1. line.at \in Int /\ line.len \in Nat /\ mode = "hash_ids"
  BY DEF IsRecord, LineOK, BuildFromHashes
<1>2. drawn.suffix \in Nat /\ ~oneSeed
  BY <1>1 DEF DrawsTyped
<1>3. PICK t, e : t = BuildTokenIds(line.hashes, line.len, drawn.suffix) /\ e = Expanded(line.hashes, line.len)
  OBVIOUS
<1>4. PICK h \in Seq(Nat), len \in Nat, d \in Nat : h = line.hashes /\ len = line.len /\ d = drawn.suffix
  BY <1>1, <1>2
<1>5. /\ IsPrompt(oneSeed, t, e, d, len)
      /\ e % BlockSize = 0 /\ e \div BlockSize <= Len(h)
      /\ \A k \in 1..e : t[k] = HashToken(h[(k - 1) \div BlockSize + 1], (k - 1) % BlockSize)
  <2>1. e = Expanded(h, len) /\ t = BuildTokenIds(h, len, d)
    BY <1>3, <1>4
  <2> QED
    BY <1>2, <2>1, HashPrompt
<1>6. e \in Nat /\ len - e \in Nat
  BY <1>5 DEF IsPrompt
<1>7. Grown /\ drawn'.suffix = d + (len - e)
  <2>1. Draw(0, len - e) /\ UNCHANGED buckets
    BY <1>3, <1>4 DEF BuildFromHashes
  <2> QED
    BY <1>4, <1>6, <2>1, UngrownBuckets
<1>8. PICK m : m = Request(line.at, t, NoBucket, e, FALSE)
  OBVIOUS
<1>9. /\ m \in RequestSet /\ m.at = line.at /\ m.tokens = t /\ m.shared = e /\ m.bucket = NoBucket
  BY <1>1, <1>5, <1>6, <1>8 DEF Request, RequestSet, IsPrompt
<1>10. drawn'.suffix = d + len - e
  BY <1>6, <1>7
<1>11. Prefixed(m, buckets')
  BY <1>1, <1>9 DEF Prefixed
<1>12. made' = Append(made, m)
  BY <1>3, <1>8 DEF BuildFromHashes
<1>13. Added(m, line.at, line.len)
  BY <1>2, <1>4, <1>5, <1>7, <1>9, <1>10, <1>11, <1>12 DEF Added
<1>14. Hashed(m, line.hashes, line.len)
  BY <1>3, <1>4, <1>5, <1>9 DEF Hashed
<1> QED
  BY <1>13, <1>14

(* The beginning of a bucket, extended where it is too short.                *)
LEMMA BucketAdded ==
  ASSUME DrawsTyped, NEW line, IsRecord(line), BuildFromBucket(line)
  PROVE  \E m : /\ Added(m, line.at, line.len) /\ Windowed(m, line.at)
                /\ m.bucket # NoBucket
<1>1. line.at \in Int /\ line.len \in Nat /\ mode = "synthesis"
  BY DEF IsRecord, LineOK, BuildFromBucket
<1>2. PICK at, len : at = line.at /\ len = line.len
  OBVIOUS
<1>3. PICK ratio \in Ratios, drawLocal \in LocalDraws, choice \in ChoiceDraws :
        LET n == AlignedPrefixLen(ratio, line.len)
            live == PurgeExpired(recent, line.at)
            local == drawLocal /\ live # <<>>
        IN /\ n > 0
           /\ \E b \in IF local THEN {live[i].bucket : i \in DOMAIN live} ELSE Buckets :
                LET bucket == Extended(buckets[b], n, drawn.bucket + choice)
                IN /\ buckets' = [buckets EXCEPT ![b] = bucket]
                   /\ recent' = Append(live, [bucket |-> b, at |-> line.at])
                   /\ made' = Append(made,
                        Request(line.at,
                                SubSeq(bucket, 1, n) \o SuffixDraws(oneSeed, drawn.suffix, line.len - n),
                                b, n, local))
                   /\ Draw(choice + Max({0, n - Len(buckets[b])}), line.len - n)
  BY Zenon DEF BuildFromBucket
<1>4. PICK n, live, local :
        n = AlignedPrefixLen(ratio, len) /\ live = PurgeExpired(recent, at)
        /\ local = (drawLocal /\ live # <<>>)
  OBVIOUS
<1>5. PICK b \in IF local THEN {live[i].bucket : i \in DOMAIN live} ELSE Buckets :
        /\ buckets' = [buckets EXCEPT ![b] = Extended(buckets[b], n, drawn.bucket + choice)]
        /\ recent' = Append(live, [bucket |-> b, at |-> at])
        /\ made' = Append(made,
             Request(at, SubSeq(Extended(buckets[b], n, drawn.bucket + choice), 1, n)
                           \o SuffixDraws(oneSeed, drawn.suffix, len - n), b, n, local))
        /\ Draw(choice + Max({0, n - Len(buckets[b])}), len - n)
  BY <1>2, <1>3, <1>4
<1>6. n \in Nat /\ n <= len /\ n % BlockSize = 0
  BY <1>1, <1>2, <1>4, PrefixLength
<1>7. local \in BOOLEAN /\ drawLocal \in BOOLEAN
  BY <1>4, WorkloadAssumption
<1>8. live \in Seq(Entries)
  <2>1. recent \in Seq(Entries) /\ at \in Int
    BY <1>1, <1>2 DEF DrawsTyped
  <2> QED
    BY <1>4, <2>1, PurgeFacts DEF Purged
<1>9. b \in Buckets /\ (local => \E i \in DOMAIN live : live[i].bucket = b)
  <2>1. \A i \in DOMAIN live : live[i].bucket \in Buckets
    <3>1. \A i \in DOMAIN live : live[i] \in Entries
      BY <1>8
    <3> QED
      BY <3>1 DEF Entries
  <2>2. CASE local
    <3>1. b \in {live[i].bucket : i \in DOMAIN live}
      BY <1>5, <2>2
    <3> QED
      BY <2>1, <3>1
  <2>3. CASE ~local
    BY <1>5, <2>3
  <2> QED
    BY <2>2, <2>3
<1>10. PICK s, a, d, g : s = buckets[b] /\ a = drawn.bucket /\ d = a + choice /\ g = drawn.suffix
  OBVIOUS
<1>11. s \in Seq(Nat) /\ a \in Nat /\ d \in Nat /\ a <= d /\ g \in Nat
  <2>1. s \in Seq(Nat) /\ a \in Nat /\ g \in Nat
    BY <1>9, <1>10 DEF DrawsTyped
  <2>2. choice \in Nat
    BY <1>3, WorkloadAssumption
  <2> QED
    BY <1>10, <2>1, <2>2
<1>12. PICK t, x : t = Extended(s, n, d) /\ x = Max({0, n - Len(s)})
  OBVIOUS
<1>13. /\ x \in Nat
       /\ t \in Seq(Nat) /\ Len(s) <= Len(t) /\ n <= Len(t) /\ DOMAIN t = 1..Len(t)
       /\ \A k \in 1..Len(s) : t[k] = s[k]
       /\ \A k \in 1..Len(t) : k > Len(s) => d <= t[k] /\ t[k] < d + x
  <2>1. n \in Nat /\ s \in Seq(Nat) /\ d \in Nat
    BY <1>6, <1>11
  <2>2. IsExtended(t, s, n, d, x)
    BY <1>12, <2>1, ExtendedFacts
  <2> QED
    BY <2>2 DEF IsExtended
<1>14. PICK pre : pre = SubSeq(t, 1, n)
  OBVIOUS
<1>15. pre \in Seq(Nat) /\ Len(pre) = n /\ \A i \in 1..n : pre[i] = t[i]
  <2>1. n \in 0..Len(t)
    BY <1>6, <1>13
  <2> QED
    BY <1>13, <1>14, <2>1, FirstPart
<1>16. PICK tokens : tokens = pre \o SuffixDraws(oneSeed, g, len - n)
  OBVIOUS
<1>17. IsPrompt(oneSeed, tokens, n, g, len) /\ \A k \in 1..n : tokens[k] = pre[k]
  <2>1. len \in Nat /\ Len(pre) <= len
    BY <1>1, <1>2, <1>6, <1>15
  <2>2. /\ IsPrompt(oneSeed, pre \o SuffixDraws(oneSeed, g, len - Len(pre)), Len(pre), g, len)
        /\ \A k \in 1..Len(pre) : (pre \o SuffixDraws(oneSeed, g, len - Len(pre)))[k] = pre[k]
    BY <1>11, <1>15, <2>1, PromptFacts
  <2> QED
    BY <1>15, <1>16, <2>2
<1>18. PICK m : m = Request(at, tokens, b, n, local)
  OBVIOUS
<1>19. /\ m \in RequestSet /\ m.at = at /\ m.tokens = tokens /\ m.shared = n /\ m.bucket = b
       /\ m.local = local /\ b # NoBucket
  <2>1. b # NoBucket
    BY <1>9, SynthesisAssumption DEF Buckets, NoBucket
  <2> QED
    BY <1>1, <1>2, <1>6, <1>7, <1>9, <1>17, <1>18, <2>1 DEF Request, RequestSet, IsPrompt
<1>20. made' = Append(made, m) /\ buckets' = [buckets EXCEPT ![b] = t]
  BY <1>5, <1>10, <1>12, <1>14, <1>16, <1>18
<1>21. drawn'.bucket = d + x /\ drawn'.suffix = g + len - n /\ drawn' \in [bucket : Nat, suffix : Nat]
  <2>1. drawn' = [bucket |-> d + x, suffix |-> g + len - n]
    <3>1. drawn' = [bucket |-> a + (choice + x), suffix |-> g + (len - n)]
      BY <1>5, <1>10, <1>12 DEF Draw
    <3>2. choice \in Nat
      BY <1>3, WorkloadAssumption
    <3>3. a + (choice + x) = d + x /\ g + (len - n) = g + len - n
      BY <1>1, <1>2, <1>6, <1>10, <1>11, <1>13, <3>2
    <3> QED
      BY <3>1, <3>3
  <2>2. d + x \in Nat /\ g + len - n \in Nat
    BY <1>1, <1>2, <1>6, <1>11, <1>13
  <2> QED
    BY <2>1, <2>2
<1>22. buckets' \in [Buckets -> Seq(Nat)] /\ buckets'[b] = t
       /\ \A c \in Buckets \ {b} : buckets'[c] = buckets[c]
  BY <1>9, <1>13, <1>20 DEF DrawsTyped
<1>23. Grown
  <2>1. ASSUME NEW c \in Buckets
        PROVE  /\ Len(buckets[c]) <= Len(buckets'[c])
               /\ \A k \in 1..Len(buckets[c]) : buckets'[c][k] = buckets[c][k]
               /\ \A k \in 1..Len(buckets'[c]) : k > Len(buckets[c]) =>
                    a <= buckets'[c][k] /\ buckets'[c][k] < drawn'.bucket
    <3>1. CASE c = b
      <4>1. \A k \in 1..Len(t) : k > Len(s) => a <= t[k] /\ t[k] < d + x
        <5>1. \A k \in 1..Len(t) : t[k] \in Nat
          BY <1>13
        <5> QED
          BY <1>11, <1>13, <5>1
      <4> QED
        BY <1>10, <1>13, <1>21, <1>22, <3>1, <4>1
    <3>2. CASE c # b
      <4>1. buckets'[c] = buckets[c] /\ Len(buckets[c]) \in Nat
        BY <1>22, <3>2 DEF DrawsTyped
      <4> QED
        BY <4>1
    <3> QED
      BY <3>1, <3>2
  <2>2. a <= drawn'.bucket
    BY <1>11, <1>13, <1>21
  <2> QED
    BY <1>9, <1>10, <1>21, <1>22, <2>1, <2>2 DEF Grown
<1>24. Prefixed(m, buckets')
  <2>1. \A k \in 1..n : tokens[k] = t[k]
    BY <1>15, <1>17
  <2> QED
    BY <1>13, <1>19, <1>22, <2>1 DEF Prefixed
<1>25. Added(m, line.at, line.len)
  BY <1>1, <1>2, <1>6, <1>10, <1>17, <1>19, <1>20, <1>21, <1>23, <1>24 DEF Added
<1>26. Windowed(m, line.at)
  <2>1. LocalDraws = {TRUE} => (local <=> live # <<>>)
    BY <1>4, <1>7
  <2> QED
    BY <1>2, <1>4, <1>5, <1>9, <1>19, <2>1 DEF Windowed
<1> QED
  BY <1>19, <1>25, <1>26

(* The Poisson generator: a whole bucket prefix.                             *)
LEMMA PoissonAdded ==
  ASSUME DrawsTyped, mode = "poisson", NEW at \in Int, BuildRequest(at)
  PROVE  \E m : Added(m, at, PromptLen)
<1>1. PICK b \in Buckets :
        /\ made' = Append(made, Request(at,
             buckets[b] \o SuffixDraws(oneSeed, drawn.suffix, PromptLen - PrefixLen), b, PrefixLen, FALSE))
        /\ Draw(0, PromptLen - PrefixLen)
        /\ UNCHANGED <<buckets, recent>>
  BY DEF BuildRequest
<1>2. PICK n, g, pre, len : n = PrefixLen /\ g = drawn.suffix /\ pre = buckets[b] /\ len = PromptLen
  OBVIOUS
<1>3. n \in Nat /\ n <= len /\ n % BlockSize = 0 /\ len \in Nat
  BY <1>2, PrefixLength, WorkloadAssumption DEF PrefixLen
<1>4. g \in Nat /\ pre \in Seq(Nat) /\ Len(pre) = n
  BY <1>2 DEF DrawsTyped
<1>5. PICK tokens : tokens = pre \o SuffixDraws(oneSeed, g, len - n)
  OBVIOUS
<1>6. IsPrompt(oneSeed, tokens, n, g, len) /\ \A k \in 1..n : tokens[k] = pre[k]
  <2>1. Len(pre) <= len
    BY <1>3, <1>4
  <2>2. /\ IsPrompt(oneSeed, pre \o SuffixDraws(oneSeed, g, len - Len(pre)), Len(pre), g, len)
        /\ \A k \in 1..Len(pre) : (pre \o SuffixDraws(oneSeed, g, len - Len(pre)))[k] = pre[k]
    BY <1>3, <1>4, <2>1, PromptFacts
  <2> QED
    BY <1>4, <1>5, <2>2
<1>7. PICK m : m = Request(at, tokens, b, n, FALSE)
  OBVIOUS
<1>8. /\ m \in RequestSet /\ m.at = at /\ m.tokens = tokens /\ m.shared = n /\ m.bucket = b
      /\ b # NoBucket
  <2>1. b # NoBucket
    BY SynthesisAssumption DEF Buckets, NoBucket
  <2> QED
    BY <1>3, <1>6, <1>7, <2>1 DEF Request, RequestSet, IsPrompt
<1>9. made' = Append(made, m)
  BY <1>1, <1>2, <1>5, <1>7
<1>10. Grown /\ drawn'.suffix = g + (len - n)
  <2>1. len - n \in Nat /\ Draw(0, len - n) /\ UNCHANGED buckets
    BY <1>1, <1>2, <1>3
  <2> QED
    BY <1>2, <2>1, UngrownBuckets
<1>11. drawn'.suffix = g + len - n
  BY <1>3, <1>4, <1>10
<1>12. Prefixed(m, buckets')
  <2>1. buckets' = buckets /\ n <= Len(pre)
    BY <1>1, <1>3, <1>4
  <2> QED
    BY <1>2, <1>6, <1>8, <2>1 DEF Prefixed
<1> QED
  BY <1>2, <1>3, <1>6, <1>8, <1>9, <1>10, <1>11, <1>12 DEF Added

-----------------------------------------------------------------------------
(* Reading the file.                                                         *)

(* The lines between the last one read and the next are malformed.           *)
LEMMA NextLineFacts ==
  ASSUME FileOK(file), pos \in 0..Len(file)
  PROVE  /\ NextLine \in (pos + 1)..(Len(file) + 1)
         /\ NextLine <= Len(file) => file[NextLine].kind # "malformed"
         /\ \A j \in (pos + 1)..(NextLine - 1) : file[j].kind = "malformed"
<1> DEFINE ahead == {i \in (pos + 1)..Len(file) : file[i].kind # "malformed"}
<1>1. Len(file) \in Nat /\ pos \in Nat /\ pos <= Len(file)
  BY DEF FileOK
<1>2. CASE ahead = {}
  <2>1. NextLine = Len(file) + 1
    BY <1>2 DEF NextLine
  <2>2. \A j \in (pos + 1)..Len(file) : file[j].kind = "malformed"
    BY <1>2
  <2>3. (Len(file) + 1) - 1 = Len(file)
    BY <1>1
  <2> HIDE DEF ahead
  <2> QED
    BY <1>1, <2>1, <2>2, <2>3
<1>3. CASE ahead # {}
  <2>1. ahead \in SUBSET Nat
    BY <1>1
  <2>2. PICK m \in ahead : \A y \in ahead : m <= y
    <3> HIDE DEF ahead
    <3> QED
      BY <1>3, <2>1, LeastNatural
  <2>3. Min(ahead) = m
    <3>1. \A x \in ahead : (\A y \in ahead : x <= y) => x = m
      <4> SUFFICES ASSUME NEW x \in ahead, \A y \in ahead : x <= y
                   PROVE  x = m
        OBVIOUS
      <4>1. x <= m /\ m <= x /\ x \in Nat /\ m \in Nat
        BY <2>1, <2>2
      <4> QED
        BY <4>1
    <3> HIDE DEF ahead
    <3> QED
      BY <2>2, <3>1 DEF Min
  <2>4. NextLine = m
    BY <1>3, <2>3 DEF NextLine
  <2>5. m \in (pos + 1)..Len(file) /\ file[m].kind # "malformed"
    BY <2>2
  <2>6. ASSUME NEW j \in (pos + 1)..(m - 1)
        PROVE  file[j].kind = "malformed"
    <3>1. j \in (pos + 1)..Len(file) /\ ~(m <= j)
      BY <1>1, <2>5
    <3> QED
      BY <2>2, <3>1
  <2>7. m \in (pos + 1)..(Len(file) + 1)
    BY <1>1, <2>5
  <2> HIDE DEF ahead
  <2> QED
    BY <2>4, <2>5, <2>6, <2>7
<1> QED
  BY <1>2, <1>3

(* Counting records, up to a line.                                           *)
Counted(k) == {j \in 1..k : file[j].kind = "record"}

LEMMA CountFacts ==
  ASSUME NEW k \in Nat
  PROVE  IsFiniteSet(Counted(k)) /\ RecordsTo(k) \in Nat /\ RecordsTo(k) = Cardinality(Counted(k))
<1>1. IsFiniteSet(1..k)
  BY FS_Interval
<1>2. Counted(k) \subseteq 1..k
  BY DEF Counted
<1>3. IsFiniteSet(Counted(k))
  BY <1>1, <1>2, FS_Subset
<1>4. RecordsTo(k) = Cardinality(Counted(k))
  BY DEF RecordsTo, Counted
<1> QED
  BY <1>3, <1>4, FS_CardinalityType

(* Lines that are no records do not count; a record counts one.              *)
LEMMA CountOn ==
  ASSUME NEW k \in Nat, NEW n \in Nat, k < n,
         \A j \in (k + 1)..(n - 1) : file[j].kind # "record"
  PROVE  /\ file[n].kind = "record" => RecordsTo(n) = RecordsTo(k) + 1
         /\ file[n].kind # "record" => RecordsTo(n) = RecordsTo(k)
<1>1. ASSUME NEW j \in 1..n
      PROVE  j \in 1..k \/ j \in (k + 1)..(n - 1) \/ j = n
  OBVIOUS
<1>2. \A j \in 1..k : j \in 1..n /\ j # n
  OBVIOUS
<1>3. n \in 1..n
  OBVIOUS
<1>4. CASE file[n].kind = "record"
  <2>1. Counted(n) = Counted(k) \cup {n} /\ n \notin Counted(k)
    BY <1>1, <1>2, <1>3, <1>4 DEF Counted
  <2>2. IsFiniteSet(Counted(k)) /\ RecordsTo(k) = Cardinality(Counted(k)) /\ RecordsTo(n) = Cardinality(Counted(n))
    BY CountFacts
  <2> QED
    BY <1>4, <2>1, <2>2, FS_AddElement
<1>5. CASE file[n].kind # "record"
  <2>1. Counted(n) = Counted(k)
    BY <1>1, <1>2, <1>5 DEF Counted
  <2>2. RecordsTo(k) = Cardinality(Counted(k)) /\ RecordsTo(n) = Cardinality(Counted(n))
    BY CountFacts
  <2> QED
    BY <1>5, <2>1, <2>2
<1> QED
  BY <1>4, <1>5

(* Records have different numbers.                                           *)
LEMMA CountGrows ==
  ASSUME NEW j \in Nat, NEW k \in Nat, j < k, file[k].kind = "record"
  PROVE  RecordsTo(j) < RecordsTo(k)
<1>1. Counted(j) \subseteq Counted(k) /\ k \in Counted(k) /\ k \notin Counted(j)
  BY DEF Counted
<1>2. /\ IsFiniteSet(Counted(k)) /\ RecordsTo(k) = Cardinality(Counted(k))
      /\ IsFiniteSet(Counted(j)) /\ RecordsTo(j) = Cardinality(Counted(j))
      /\ RecordsTo(j) \in Nat /\ RecordsTo(k) \in Nat
  BY CountFacts
<1>3. Counted(j) \cup {k} \subseteq Counted(k)
  BY <1>1
<1>4. IsFiniteSet(Counted(j) \cup {k}) /\ Cardinality(Counted(j) \cup {k}) = Cardinality(Counted(j)) + 1
  BY <1>1, <1>2, FS_AddElement
<1>5. Cardinality(Counted(j) \cup {k}) <= Cardinality(Counted(k))
  BY <1>2, <1>3, FS_Subset
<1> QED
  BY <1>2, <1>4, <1>5

(* The i-th record read is the line that counts to i.                        *)
LEMMA RecordIs ==
  ASSUME pos \in Nat, NEW i, NEW k \in 1..pos, file[k].kind = "record", RecordsTo(k) = i
  PROVE  RecordOf(i) = file[k]
<1> DEFINE P(x) == file[x].kind = "record" /\ RecordsTo(x) = i
<1>1. P(k)
  OBVIOUS
<1>2. ASSUME NEW x \in 1..pos, P(x)
      PROVE  x = k
  <2>1. x \in Nat /\ k \in Nat /\ RecordsTo(x) \in Nat /\ RecordsTo(k) \in Nat
    BY CountFacts
  <2>2. ~(x < k)
    <3>1. x < k => RecordsTo(x) < RecordsTo(k)
      BY <2>1, CountGrows
    <3> QED
      BY <1>2, <2>1, <3>1
  <2>3. ~(k < x)
    <3>1. k < x => RecordsTo(k) < RecordsTo(x)
      BY <1>2, <2>1, CountGrows
    <3> QED
      BY <1>2, <2>1, <3>1
  <2> QED
    BY <2>1, <2>2, <2>3
<1>3. (CHOOSE x \in 1..pos : P(x)) = k
  <2> HIDE DEF P
  <2> QED
    BY <1>1, <1>2
<1> QED
  BY <1>3 DEF RecordOf

-----------------------------------------------------------------------------
(* The queue.                                                                *)

Events == [time : Nat, type : {"REQUEST_ARRIVE", "WORK"}, req : Nat]
TwoArrivals ==
  {p \in Events \X Events : p[1].type = "REQUEST_ARRIVE" /\ p[2].type = "REQUEST_ARRIVE"}

Queued == ToSet(events)
HasArrival == \E e \in Queued : e.type = "REQUEST_ARRIVE"

(* Never two arrivals in the queue.                                          *)
LoopInv ==
  /\ now \in Nat /\ events \in Seq(Events) /\ InTimeOrder(events)
  /\ Apart(events, TwoArrivals)

(* A queue without an arrival.                                               *)
Ready(q) ==
  /\ q \in Seq(Events) /\ InTimeOrder(q) /\ Apart(q, TwoArrivals)
  /\ \A e \in ToSet(q) : e.type # "REQUEST_ARRIVE"

LEMMA EventsTimed == Timed(Events)
BY DEF Timed, Events

(* After an arrival is popped and on_arrive has run, none is queued.         *)
LEMMA ReadyAfterArrival ==
  ASSUME LoopInv, PopArrival
  PROVE  Ready(AfterOnArrive) /\ Head(events) \in Queued /\ Head(events) \in Events /\ now' \in Nat
<1>1. events \in Seq(Events) /\ events # <<>> /\ InTimeOrder(events) /\ Apart(events, TwoArrivals)
      /\ Head(events).type = "REQUEST_ARRIVE" /\ now' = Head(events).time
  BY DEF LoopInv, PopArrival
<1>2. PICK h, t : h = Head(events) /\ t = Tail(events)
  OBVIOUS
<1>3. /\ h \in Events /\ t \in Seq(Events) /\ ToSet(events) = {h} \cup ToSet(t)
      /\ InTimeOrder(t) /\ Apart(t, TwoArrivals)
      /\ \A f \in ToSet(t) : <<h, f>> \notin TwoArrivals
  BY <1>1, <1>2, PopFacts
<1>4. \A f \in ToSet(t) : f \in Events
  BY <1>3 DEF ToSet
<1>5. \A f \in ToSet(t) : f.type # "REQUEST_ARRIVE"
  BY <1>1, <1>2, <1>3, <1>4 DEF TwoArrivals
<1>6. PICK w : w = Work(now' + WorkDelay, h.req)
  OBVIOUS
<1>7. h.time \in Nat /\ h.req \in Nat
  BY <1>3 DEF Events
<1>8. w \in Events /\ w.type = "WORK"
  <2>1. now' + WorkDelay \in Nat
    BY <1>1, <1>2, <1>7, WorkloadAssumption
  <2> QED
    BY <1>6, <1>7, <2>1 DEF Work, Events
<1>9. AfterOnArrive = Schedule(t, w)
  BY <1>2, <1>6 DEF AfterOnArrive
<1>10. Schedule(t, w) \in Seq(Events) /\ InTimeOrder(Schedule(t, w)) /\ ToSet(Schedule(t, w)) = ToSet(t) \cup {w}
  BY <1>3, <1>8, EventsTimed, ScheduleFacts
<1>11. Apart(Schedule(t, w), TwoArrivals)
  <2>1. \A f \in ToSet(t) : <<w, f>> \notin TwoArrivals /\ <<f, w>> \notin TwoArrivals
    BY <1>8 DEF TwoArrivals
  <2> QED
    BY <1>3, <1>8, <2>1, EventsTimed, ScheduleApart
<1>12. h \in Queued
  BY <1>3 DEF Queued
<1> QED
  BY <1>1, <1>2, <1>3, <1>5, <1>7, <1>8, <1>9, <1>10, <1>11, <1>12 DEF Ready

(* Scheduling an arrival in such a queue.                                    *)
LEMMA ReadySchedule ==
  ASSUME NEW q, Ready(q), NEW time \in Nat, NEW id \in Nat
  PROVE  /\ Schedule(q, Arrival(time, id)) \in Seq(Events)
         /\ InTimeOrder(Schedule(q, Arrival(time, id)))
         /\ Apart(Schedule(q, Arrival(time, id)), TwoArrivals)
         /\ ToSet(Schedule(q, Arrival(time, id))) = ToSet(q) \cup {Arrival(time, id)}
<1>1. PICK a : a = Arrival(time, id)
  OBVIOUS
<1>2. a \in Events /\ a.type = "REQUEST_ARRIVE"
  BY <1>1 DEF Arrival, Events
<1>3. q \in Seq(Events) /\ InTimeOrder(q) /\ Apart(q, TwoArrivals) /\ \A e \in ToSet(q) : e.type # "REQUEST_ARRIVE"
  BY DEF Ready
<1>4. Schedule(q, a) \in Seq(Events) /\ InTimeOrder(Schedule(q, a)) /\ ToSet(Schedule(q, a)) = ToSet(q) \cup {a}
  BY <1>2, <1>3, EventsTimed, ScheduleFacts
<1>5. Apart(Schedule(q, a), TwoArrivals)
  <2>1. \A f \in ToSet(q) : <<a, f>> \notin TwoArrivals /\ <<f, a>> \notin TwoArrivals
    BY <1>3 DEF TwoArrivals
  <2> QED
    BY <1>2, <1>3, <2>1, EventsTimed, ScheduleApart
<1> QED
  BY <1>1, <1>4, <1>5

-----------------------------------------------------------------------------
(* The cases of _schedule_next.                                              *)

(* Lines before the next one are skipped and the file is closed.             *)
Ended(q) ==
  /\ pos' \in pos..Len(file) /\ \A j \in (pos + 1)..pos' : file[j].kind = "malformed"
  /\ open' = FALSE /\ raised' = raised /\ events' = q
  /\ UNCHANGED <<made, buckets, recent, drawn>>

(* A record that lacks a field, or whose first hash id is too large.         *)
Failed(q) ==
  /\ pos' \in (pos + 1)..Len(file)
  /\ \/ Lacks(file[pos']) /\ raised' = "record"
     \/ Overflows(file[pos']) /\ raised' = "struct"
  /\ \A j \in (pos + 1)..(pos' - 1) : file[j].kind = "malformed"
  /\ file[pos'].kind # "malformed"
  /\ open' = FALSE /\ events' = q
  /\ UNCHANGED <<made, buckets, recent, drawn>>

(* A record becomes the request m.                                           *)
Replayed(q, t, m) ==
  /\ pos' \in (pos + 1)..Len(file) /\ IsRecord(file[pos'])
  /\ ~Lacks(file[pos']) /\ ~Overflows(file[pos'])
  /\ \A j \in (pos + 1)..(pos' - 1) : file[j].kind = "malformed"
  /\ open' = TRUE
  /\ Added(m, file[pos'].at, file[pos'].len)
  /\ mode = "hash_ids" => Hashed(m, file[pos'].hashes, file[pos'].len)
  /\ mode = "synthesis" => Windowed(m, file[pos'].at)
  /\ \/ /\ SimTime(file[pos']) >= t /\ raised' = raised
        /\ events' = Schedule(q, Arrival(SimTime(file[pos']), Len(made')))
     \/ SimTime(file[pos']) < t /\ raised' = "past" /\ events' = q
  /\ recent' \in Seq(Entries)

LEMMA ScheduleNextCases ==
  ASSUME FileOK(file), pos \in 0..Len(file), DrawsTyped, mode # "poisson",
         NEW q, NEW t, ScheduleNext(q, t)
  PROVE  Ended(q) \/ Failed(q) \/ \E m : Replayed(q, t, m)
<1>1. Len(file) \in Nat /\ pos \in Nat /\ pos <= Len(file) /\ \A i \in 1..Len(file) : LineOK(file[i])
  BY DEF FileOK
<1>2. PICK n : n = NextLine
  OBVIOUS
<1>3. /\ n \in (pos + 1)..(Len(file) + 1)
      /\ n <= Len(file) => file[n].kind # "malformed"
      /\ \A j \in (pos + 1)..(n - 1) : file[j].kind = "malformed"
  BY <1>2, NextLineFacts
<1>4. ASSUME TraceEnds(q, t)
      PROVE  Ended(q)
  <2>1. CASE AtCap
    <3>1. pos' = pos
      BY <1>4, <2>1 DEF TraceEnds
    <3>2. pos \in pos..Len(file) /\ (pos + 1)..pos = {}
      BY <1>1
    <3> QED
      BY <1>4, <3>1, <3>2 DEF TraceEnds, Ended
  <2>2. CASE ~AtCap
    <3>1. pos' = Len(file) /\ n > Len(file)
      BY <1>2, <1>4, <2>2 DEF TraceEnds, AtEof
    <3>2. n - 1 = Len(file) /\ Len(file) \in pos..Len(file)
      BY <1>1, <1>3, <3>1
    <3> QED
      BY <1>3, <1>4, <3>1, <3>2 DEF TraceEnds, Ended
  <2> QED
    BY <2>1, <2>2
<1>5. ASSUME ~AtCap, ~AtEof
      PROVE  n \in (pos + 1)..Len(file) /\ LineOK(file[n]) /\ file[n].kind # "malformed"
  <2>1. n \in (pos + 1)..Len(file) /\ n \in 1..Len(file)
    BY <1>1, <1>2, <1>3, <1>5 DEF AtEof
  <2> QED
    BY <1>1, <1>3, <2>1
<1>6. ASSUME RecordRaises(q, t)
      PROVE  Failed(q)
  <2>1. ~AtCap /\ ~AtEof /\ pos' = n
    BY <1>2, <1>6 DEF RecordRaises
  <2>2. \/ Lacks(file[n]) /\ raised' = "record"
        \/ Overflows(file[n]) /\ raised' = "struct"
    <3>1. /\ Lacks(file[n]) \/ Overflows(file[n])
          /\ raised' = IF Lacks(file[n]) THEN "record" ELSE "struct"
      BY <1>2, <1>6 DEF RecordRaises
    <3> QED
      BY <3>1
  <2>3. open' = FALSE /\ events' = q /\ UNCHANGED <<made, buckets, recent, drawn>>
    BY <1>6 DEF RecordRaises
  <2> QED
    BY <1>3, <1>5, <2>1, <2>2, <2>3 DEF Failed
<1>7. ASSUME RecordScheduled(q, t)
      PROVE  \E m : Replayed(q, t, m)
  <2>1. ~AtCap /\ ~AtEof /\ pos' = n /\ ~Lacks(file[n]) /\ ~Overflows(file[n]) /\ open' = TRUE
    BY <1>2, <1>7 DEF RecordScheduled
  <2>2. \/ /\ SimTime(file[n]) >= t /\ raised' = raised
           /\ events' = Schedule(q, Arrival(SimTime(file[n]), Len(made')))
        \/ SimTime(file[n]) < t /\ raised' = "past" /\ events' = q
    BY <1>2, <1>7 DEF RecordScheduled
  <2>3. PICK line : line = file[n]
    OBVIOUS
  <2>4. IsRecord(line)
    BY <1>5, <2>1, <2>3 DEF IsRecord, Lacks, LineOK
  <2>5. BuildUnshared(line) \/ BuildFromHashes(line) \/ BuildWithoutPrefix(line) \/ BuildFromBucket(line)
    BY <1>2, <1>7, <2>3 DEF RecordScheduled
  <2>6. recent \in Seq(Entries)
    BY DEF DrawsTyped
  <2>7. \E m : /\ Added(m, line.at, line.len)
               /\ mode = "hash_ids" => Hashed(m, line.hashes, line.len)
               /\ mode = "synthesis" => Windowed(m, line.at)
               /\ recent' \in Seq(Entries)
    <3>1. CASE BuildUnshared(line)
      <4>1. \E m : Added(m, line.at, line.len) /\ Windowed(m, line.at)
        <5>1. 0 \in Nat /\ mode # "hash_ids"
          BY <3>1 DEF BuildUnshared
        <5>2. /\ made' = Append(made, Request(line.at, SuffixDraws(oneSeed, drawn.suffix, line.len), NoBucket, 0, FALSE))
              /\ Draw(0, line.len) /\ UNCHANGED <<buckets, recent>>
          BY <3>1 DEF BuildUnshared
        <5> QED
          BY <2>4, <5>1, <5>2, UnsharedAdded
      <4> QED
        BY <2>6, <3>1, <4>1 DEF BuildUnshared
    <3>2. CASE BuildWithoutPrefix(line)
      <4>1. \E m : Added(m, line.at, line.len) /\ Windowed(m, line.at)
        <5>1. PICK choice \in ChoiceDraws : Draw(choice, line.len)
          BY <3>2 DEF BuildWithoutPrefix
        <5>2. choice \in Nat /\ mode # "hash_ids"
          BY <3>2, WorkloadAssumption DEF BuildWithoutPrefix
        <5>3. /\ made' = Append(made, Request(line.at, SuffixDraws(oneSeed, drawn.suffix, line.len), NoBucket, 0, FALSE))
              /\ UNCHANGED <<buckets, recent>>
          BY <3>2 DEF BuildWithoutPrefix
        <5> QED
          BY <2>4, <5>1, <5>2, <5>3, UnsharedAdded
      <4> QED
        BY <2>6, <3>2, <4>1 DEF BuildWithoutPrefix
    <3>3. CASE BuildFromHashes(line)
      <4>1. line.hashes \in Seq(Nat)
        BY <2>1, <2>3, <2>4, <3>3 DEF BuildFromHashes, Lacks, IsRecord, LineOK
      <4>2. \E m : Added(m, line.at, line.len) /\ Hashed(m, line.hashes, line.len)
        BY <2>4, <3>3, <4>1, HashAdded
      <4> QED
        BY <2>6, <3>3, <4>2 DEF BuildFromHashes
    <3>4. CASE BuildFromBucket(line)
      <4>1. PICK m : Added(m, line.at, line.len) /\ Windowed(m, line.at) /\ m.bucket # NoBucket
        BY <2>4, <3>4, BucketAdded
      <4>2. recent' \in Seq(Entries)
        <5>1. recent' = Append(PurgeExpired(recent, line.at), [bucket |-> m.bucket, at |-> line.at])
          BY <4>1 DEF Windowed
        <5>2. line.at \in Int
          BY <2>4 DEF IsRecord, LineOK
        <5>3. PurgeExpired(recent, line.at) \in Seq(Entries)
          BY <2>6, <5>2, PurgeFacts DEF Purged
        <5>4. m.bucket \in Buckets
          BY <4>1 DEF Added, RequestSet
        <5>5. [bucket |-> m.bucket, at |-> line.at] \in Entries
          BY <5>2, <5>4 DEF Entries
        <5> QED
          BY <5>1, <5>3, <5>5
      <4> QED
        BY <3>4, <4>1, <4>2 DEF BuildFromBucket
    <3> QED
      BY <2>5, <3>1, <3>2, <3>3, <3>4
  <2> QED
    BY <1>3, <1>5, <2>1, <2>2, <2>3, <2>4, <2>7 DEF Replayed
<1> QED
  BY <1>4, <1>6, <1>7 DEF ScheduleNext

-----------------------------------------------------------------------------
(* The chain of arrivals.                                                    *)

Deliveries == [id : Nat, time : Nat]

Core ==
  /\ FileOK(file) /\ pos \in 0..Len(file)
  /\ mode \in {"poisson", "none", "hash_ids", "synthesis"}
  /\ LoopInv /\ DrawsTyped
  /\ delivered \in Seq(Deliveries)
  /\ open \in BOOLEAN /\ attached \in BOOLEAN /\ raised \in {"none", "record", "struct", "past"}

(* An open file has its next arrival queued, and only then.                  *)
Chain ==
  /\ ~attached => /\ events = <<>> /\ ~open /\ raised = "none" /\ pos = 0 /\ now = 0
                  /\ made = <<>> /\ delivered = <<>>
  /\ mode # "poisson" /\ raised = "none" => (open <=> HasArrival)
  /\ raised # "none" => ~HasArrival
  /\ raised \in {"record", "struct"} => ~open
  /\ mode = "poisson" => ~open /\ raised = "none"

(* Requests are numbered as they are made; all but the last have arrived.    *)
Numbered ==
  /\ Len(made) = Len(delivered) + (IF HasArrival THEN 1 ELSE 0) + (IF raised = "past" THEN 1 ELSE 0)
  /\ \A e \in Queued : e.type = "REQUEST_ARRIVE" => e.req = Len(made)
  /\ \A i \in DOMAIN delivered : delivered[i].id = i

(* The request m was made from line k, the i-th record.                      *)
IsRead(m, i, k) ==
  /\ file[k].kind = "record" /\ RecordsTo(k) = i
  /\ m.at = file[k].at /\ Len(m.tokens) = file[k].len
  /\ mode = "hash_ids" => Hashed(m, file[k].hashes, file[k].len)

(* Each request stands for a record, and arrives at its time.                *)
Traced ==
  mode # "poisson" =>
    /\ \A e \in Queued : e.type = "REQUEST_ARRIVE" => e.time * Speedup = made[Len(made)].at
    /\ \A i \in DOMAIN delivered : delivered[i].time * Speedup = made[i].at
    /\ \A i \in DOMAIN made : \E k \in 1..pos : IsRead(made[i], i, k)
    /\ raised \notin {"record", "struct"} => RecordsTo(pos) = Len(made)

ReplayInv == Core /\ Chain /\ Numbered /\ Traced

(* All the requests made so far have arrived.                                *)
AllArrived(dl) ==
  /\ dl \in Seq(Deliveries) /\ Len(dl) = Len(made)
  /\ \A i \in DOMAIN dl : dl[i].id = i /\ (mode # "poisson" => dl[i].time * Speedup = made[i].at)

(* The request popped is the last one made.                                  *)
LEMMA PopDelivers ==
  ASSUME ReplayInv, PopArrival
  PROVE  AllArrived(delivered')
<1>1. /\ Head(events) \in Queued /\ Head(events) \in Events
      /\ Head(events).type = "REQUEST_ARRIVE" /\ raised = "none"
  BY ReadyAfterArrival DEF ReplayInv, Core, PopArrival
<1>2. PICK h : h = Head(events)
  OBVIOUS
<1>3. h \in Events /\ h.req \in Nat /\ h.time \in Nat
  BY <1>1, <1>2 DEF Events
<1>4. HasArrival
  BY <1>1 DEF HasArrival
<1>5. delivered \in Seq(Deliveries) /\ Len(delivered) \in Nat /\ DOMAIN delivered = 1..Len(delivered)
  BY DEF ReplayInv, Core
<1>6. Len(made) = Len(delivered) + 1 /\ h.req = Len(made)
  BY <1>1, <1>2, <1>4, <1>5 DEF ReplayInv, Numbered
<1>7. PICK x : x = [id |-> h.req, time |-> h.time]
  OBVIOUS
<1>8. x \in Deliveries /\ x.id = h.req /\ x.time = h.time
  BY <1>3, <1>7 DEF Deliveries
<1>9. delivered' = Append(delivered, x)
  BY <1>2, <1>7 DEF PopArrival
<1>10. /\ delivered' \in Seq(Deliveries) /\ DOMAIN delivered' = 1..Len(delivered) + 1
       /\ Len(delivered') = Len(delivered) + 1
       /\ delivered'[Len(delivered) + 1] = x
       /\ \A i \in 1..Len(delivered) : delivered'[i] = delivered[i]
  BY <1>5, <1>8, <1>9
<1>11. ASSUME NEW i \in DOMAIN delivered'
       PROVE  delivered'[i].id = i /\ (mode # "poisson" => delivered'[i].time * Speedup = made[i].at)
  <2>1. CASE i = Len(delivered) + 1
    <3>1. mode # "poisson" => h.time * Speedup = made[Len(made)].at
      BY <1>1, <1>2 DEF ReplayInv, Traced
    <3> QED
      BY <1>6, <1>8, <1>10, <2>1, <3>1
  <2>2. CASE i \in 1..Len(delivered)
    <3>1. delivered[i].id = i /\ (mode # "poisson" => delivered[i].time * Speedup = made[i].at)
      BY <1>5, <2>2 DEF ReplayInv, Numbered, Traced
    <3> QED
      BY <1>10, <2>2, <3>1
  <2> QED
    BY <1>5, <1>10, <2>1, <2>2
<1> QED
  BY <1>6, <1>10, <1>11 DEF AllArrived

(* Reading goes on in the same file.                                         *)
LEMMA SameFile ==
  ASSUME UNCHANGED setup
  PROVE  /\ mode' = mode /\ oneSeed' = oneSeed /\ file' = file /\ origin' = origin /\ log' = log
         /\ FileOK(file) <=> FileOK(file')
         /\ \A k \in Nat : RecordsTo(k)' = RecordsTo(k)
BY DEF setup, RecordsTo

(* What is read stays read.                                                  *)
LEMMA StillRead ==
  ASSUME UNCHANGED setup, Core, pos' \in pos..Len(file), NEW CONSTANT m, NEW CONSTANT i,
         \E k \in 1..pos : IsRead(m, i, k)
  PROVE  (\E k \in 1..pos : IsRead(m, i, k))'
<1>1. PICK k \in 1..pos : IsRead(m, i, k)
  OBVIOUS
<1>2. k \in 1..pos' /\ k \in Nat
  BY DEF Core, FileOK
<1>3. IsRead(m, i, k)'
  BY <1>1, <1>2, SameFile DEF IsRead, Hashed
<1> QED
  BY <1>2, <1>3

(* A record that is read next counts one more.                               *)
LEMMA NextRead ==
  ASSUME UNCHANGED setup, Core, NEW q, NEW t, NEW CONSTANT m, Replayed(q, t, m),
         NEW CONSTANT c, c = RecordsTo(pos) + 1
  PROVE  RecordsTo(pos)' = c /\ IsRead(m, c, pos)'
<1>1. PICK n : n = pos'
  OBVIOUS
<1>2. /\ n \in (pos + 1)..Len(file) /\ IsRecord(file[n])
      /\ \A j \in (pos + 1)..(n - 1) : file[j].kind = "malformed"
  BY <1>1 DEF Replayed
<1>3. pos \in Nat /\ n \in Nat /\ pos < n
  BY <1>2 DEF Core, FileOK
<1>4. RecordsTo(n) = RecordsTo(pos) + 1
  BY <1>2, <1>3, CountOn DEF IsRecord
<1>5. RecordsTo(n)' = c
  BY <1>3, <1>4, SameFile
<1>6. /\ m.at = file[n].at /\ Len(m.tokens) = file[n].len
      /\ mode = "hash_ids" => Hashed(m, file[n].hashes, file[n].len)
  BY <1>1 DEF Replayed, Added, IsPrompt
<1>7. RecordsTo(pos)' = RecordsTo(n)'
  BY <1>1, SameFile DEF RecordsTo
<1>8. IsRead(m, c, pos)'
  BY <1>1, <1>2, <1>5, <1>6, <1>7, SameFile DEF IsRead, Hashed, IsRecord
<1> QED
  BY <1>5, <1>7, <1>8

(* _schedule_next, called when all requests have arrived, goes on with the   *)
(* chain or ends it.                                                         *)
LEMMA TraceGoesOn ==
  ASSUME ReplayInv, mode # "poisson", raised = "none", UNCHANGED setup,
         attached' = TRUE, now' \in Nat,
         NEW q, Ready(q), NEW t, t \in Nat, ScheduleNext(q, t), AllArrived(delivered')
  PROVE  ReplayInv'
<1>1. Core /\ Traced
  BY DEF ReplayInv
<1>2. /\ FileOK(file) /\ pos \in 0..Len(file) /\ DrawsTyped
      /\ Len(file) \in Nat /\ pos \in Nat
  BY <1>1 DEF Core, FileOK
<1>3. /\ q \in Seq(Events) /\ InTimeOrder(q) /\ Apart(q, TwoArrivals)
      /\ \A e \in ToSet(q) : e.type # "REQUEST_ARRIVE"
  BY DEF Ready
<1>4. /\ delivered' \in Seq(Deliveries) /\ Len(delivered') = Len(made)
      /\ \A i \in DOMAIN delivered' : delivered'[i].id = i /\ delivered'[i].time * Speedup = made[i].at
  BY DEF AllArrived
<1>5. mode' = mode /\ oneSeed' = oneSeed /\ file' = file
  BY SameFile
<1>6. Len(made) \in Nat /\ DOMAIN made = 1..Len(made) /\ made \in Seq(RequestSet)
  BY <1>2 DEF DrawsTyped
<1>7. ASSUME events' = q
      PROVE  LoopInv' /\ ~HasArrival'
  BY <1>3, <1>7 DEF LoopInv, HasArrival, Queued
<1>8. ASSUME pos' \in pos..Len(file), UNCHANGED <<made, buckets, recent, drawn>>
      PROVE  /\ DrawsTyped'
             /\ (\A i \in DOMAIN made : \E k \in 1..pos : IsRead(made[i], i, k))'
  <2>1. DrawsTyped'
    BY <1>2, <1>5, <1>8 DEF DrawsTyped
  <2>2. ASSUME NEW i \in DOMAIN made
        PROVE  (\E k \in 1..pos : IsRead(made[i], i, k))'
    <3>1. PICK m : m = made[i]
      OBVIOUS
    <3>2. \E k \in 1..pos : IsRead(m, i, k)
      BY <1>1, <3>1 DEF Traced
    <3>3. (\E k \in 1..pos : IsRead(m, i, k))'
      BY <1>1, <1>8, <3>2, StillRead
    <3>4. made'[i] = m
      BY <1>8, <3>1
    <3> QED
      BY <3>3, <3>4
  <2> QED
    BY <1>8, <2>1, <2>2
<1>9. CASE Ended(q)
  <2>1. /\ pos' \in pos..Len(file) /\ \A j \in (pos + 1)..pos' : file[j].kind = "malformed"
        /\ open' = FALSE /\ raised' = "none" /\ events' = q /\ UNCHANGED <<made, buckets, recent, drawn>>
    BY <1>9 DEF Ended
  <2>2. LoopInv' /\ ~HasArrival' /\ DrawsTyped' /\ (\A i \in DOMAIN made : \E k \in 1..pos : IsRead(made[i], i, k))'
    BY <1>7, <1>8, <2>1
  <2>3. Core'
    <3>1. pos' \in 0..Len(file')
      BY <1>2, <1>5, <2>1
    <3> QED
      BY <1>1, <1>2, <1>4, <1>5, <2>1, <2>2, <3>1 DEF Core
  <2>4. Chain'
    BY <1>5, <2>1, <2>2 DEF Chain
  <2>5. Numbered'
    <3>1. Len(made') = Len(delivered') + 0 + 0
      BY <1>4, <1>6, <2>1
    <3> QED
      BY <1>4, <2>1, <2>2, <3>1 DEF Numbered, HasArrival
  <2>6. RecordsTo(pos)' = Len(made)
    <3>1. RecordsTo(pos) = Len(made)
      BY <1>1 DEF Traced
    <3>2. PICK n : n = pos'
      OBVIOUS
    <3>3. n \in Nat /\ pos <= n /\ \A j \in (pos + 1)..n : file[j].kind = "malformed"
      BY <1>2, <2>1, <3>2
    <3>4. RecordsTo(n) = RecordsTo(pos)
      <4>1. CASE n = pos
        BY <4>1
      <4>2. CASE n # pos
        <5>1. pos < n /\ n \in (pos + 1)..n /\ \A j \in (pos + 1)..(n - 1) : j \in (pos + 1)..n
          BY <1>2, <3>3, <4>2
        <5>2. /\ \A j \in (pos + 1)..(n - 1) : file[j].kind # "record"
              /\ file[n].kind # "record"
          BY <3>3, <5>1
        <5> QED
          BY <1>2, <3>3, <5>1, <5>2, CountOn
      <4> QED
        BY <4>1, <4>2
    <3>5. RecordsTo(n)' = RecordsTo(n)
      BY <3>3, SameFile
    <3>6. RecordsTo(pos)' = RecordsTo(n)'
      BY <3>2 DEF RecordsTo
    <3> QED
      BY <3>1, <3>4, <3>5, <3>6
  <2>7. Traced'
    BY <1>4, <2>1, <2>2, <2>6 DEF Traced, HasArrival
  <2> QED
    BY <2>3, <2>4, <2>5, <2>7 DEF ReplayInv
<1>10. CASE Failed(q)
  <2>1. /\ pos' \in (pos + 1)..Len(file)
        /\ open' = FALSE /\ raised' \in {"record", "struct"} /\ events' = q
        /\ UNCHANGED <<made, buckets, recent, drawn>>
    BY <1>10 DEF Failed
  <2>2. pos' \in pos..Len(file) /\ pos' \in 0..Len(file')
    BY <1>2, <1>5, <2>1
  <2>3. LoopInv' /\ ~HasArrival' /\ DrawsTyped' /\ (\A i \in DOMAIN made : \E k \in 1..pos : IsRead(made[i], i, k))'
    BY <1>7, <1>8, <2>1, <2>2
  <2>4. Core'
    BY <1>1, <1>2, <1>4, <1>5, <2>1, <2>2, <2>3 DEF Core
  <2>5. Chain'
    BY <1>5, <2>1, <2>3 DEF Chain
  <2>6. Numbered'
    <3>1. Len(made') = Len(delivered') + 0 + 0
      BY <1>4, <1>6, <2>1
    <3> QED
      BY <1>4, <2>1, <2>3, <3>1 DEF Numbered, HasArrival
  <2>7. Traced'
    BY <1>4, <2>1, <2>3 DEF Traced, HasArrival
  <2> QED
    BY <2>4, <2>5, <2>6, <2>7 DEF ReplayInv
<1>11. ASSUME NEW m, Replayed(q, t, m)
       PROVE  ReplayInv'
  <2>1. /\ pos' \in (pos + 1)..Len(file) /\ IsRecord(file[pos']) /\ open' = TRUE
        /\ Added(m, file[pos'].at, file[pos'].len) /\ recent' \in Seq(Entries)
        /\ raised' \in {"none", "past"}
    BY <1>11 DEF Replayed
  <2>2. PICK n, line, at : n = pos' /\ line = file[n] /\ at = SimTime(line)
    OBVIOUS
  <2>3. pos' \in pos..Len(file) /\ pos' \in 0..Len(file')
    BY <1>2, <1>5, <2>1
  <2>4. m \in RequestSet /\ made' = Append(made, m) /\ Grown /\ m.at = line.at
    BY <2>1, <2>2 DEF Added
  <2>5. /\ made' \in Seq(RequestSet) /\ Len(made') = Len(made) + 1 /\ DOMAIN made' = 1..Len(made) + 1
        /\ made'[Len(made) + 1] = m /\ \A i \in 1..Len(made) : made'[i] = made[i]
    BY <1>6, <2>4
  <2>6. DrawsTyped'
    BY <1>2, <1>5, <2>1, <2>4, <2>5 DEF DrawsTyped, Grown
  <2>7. at \in Int /\ at * Speedup = line.at
    <3>1. line.at \in Int /\ line.at % Speedup = 0
      BY <2>1, <2>2 DEF IsRecord, LineOK
    <3>2. Speedup \in Nat \ {0}
      BY WorkloadAssumption
    <3> QED
      BY <2>2, <3>1, <3>2, ExactDivision DEF SimTime
  <2>8. PICK c : c = Len(made) + 1
    OBVIOUS
  <2>9. RecordsTo(pos)' = c /\ IsRead(m, c, pos)'
    <3>1. c = RecordsTo(pos) + 1
      BY <1>1, <2>8 DEF Traced
    <3> QED
      BY <1>1, <1>11, <3>1, NextRead
  <2>10. (\A i \in DOMAIN made : \E k \in 1..pos : IsRead(made[i], i, k))'
    <3>1. ASSUME NEW i \in 1..Len(made) + 1
          PROVE  (\E k \in 1..pos : IsRead(made[i], i, k))'
      <4>1. CASE i \in 1..Len(made)
        <5>1. PICK x : x = made[i]
          OBVIOUS
        <5>2. \E k \in 1..pos : IsRead(x, i, k)
          BY <1>1, <1>6, <4>1, <5>1 DEF Traced
        <5>3. (\E k \in 1..pos : IsRead(x, i, k))'
          BY <1>1, <2>3, <5>2, StillRead
        <5>4. made'[i] = x
          BY <2>5, <4>1, <5>1
        <5> QED
          BY <5>3, <5>4
      <4>2. CASE i = Len(made) + 1
        <5>1. made'[i] = m /\ i = c
          BY <2>5, <2>8, <4>2
        <5>2. pos' \in 1..pos'
          BY <1>2, <2>1
        <5> QED
          BY <2>9, <5>1, <5>2
      <4> QED
        BY <1>6, <4>1, <4>2
    <3> QED
      BY <2>5, <3>1
  <2>11. \A i \in DOMAIN delivered' : delivered'[i].id = i /\ delivered'[i].time * Speedup = made'[i].at
    <3>1. DOMAIN delivered' = 1..Len(made)
      BY <1>4
    <3> QED
      BY <1>4, <2>5, <3>1
  <2>12. CASE at >= t /\ raised' = "none" /\ events' = Schedule(q, Arrival(at, Len(made')))
    <3>1. at \in Nat /\ c \in Nat /\ Len(made') = c
      BY <1>6, <2>5, <2>7, <2>8, <2>12
    <3>2. PICK a : a = Arrival(at, c)
      OBVIOUS
    <3>3. /\ events' \in Seq(Events) /\ InTimeOrder(events') /\ Apart(events', TwoArrivals)
          /\ ToSet(events') = ToSet(q) \cup {a}
      <4>1. /\ Schedule(q, Arrival(at, c)) \in Seq(Events)
            /\ InTimeOrder(Schedule(q, Arrival(at, c)))
            /\ Apart(Schedule(q, Arrival(at, c)), TwoArrivals)
            /\ ToSet(Schedule(q, Arrival(at, c))) = ToSet(q) \cup {Arrival(at, c)}
        <5>1. Ready(q) /\ at \in Nat /\ c \in Nat
          BY <3>1
        <5> QED
          BY ONLY <5>1, ReadySchedule
      <4>2. events' = Schedule(q, Arrival(at, c))
        BY <2>12, <3>1
      <4> QED
        BY <3>2, <4>1, <4>2
    <3>4. a.type = "REQUEST_ARRIVE" /\ a.req = c /\ a.time = at
      BY <3>2 DEF Arrival
    <3>5. HasArrival' /\ \A e \in Queued' : e.type = "REQUEST_ARRIVE" => e = a
      BY <1>3, <3>3, <3>4 DEF HasArrival, Queued
    <3>6. LoopInv'
      BY <3>3 DEF LoopInv
    <3>7. Core'
      BY <1>1, <1>2, <1>4, <1>5, <2>1, <2>3, <2>6, <3>6 DEF Core
    <3>8. Chain'
      BY <1>5, <2>1, <2>12, <3>5 DEF Chain
    <3>9. Numbered'
      <4>1. Len(made') = Len(delivered') + 1 + 0
        BY <1>4, <1>6, <2>5
      <4> QED
        BY <2>11, <2>12, <3>1, <3>4, <3>5, <4>1 DEF Numbered
    <3>10. Traced'
      <4>1. \A e \in Queued' : e.type = "REQUEST_ARRIVE" => e.time * Speedup = made'[Len(made')].at
        BY <2>4, <2>5, <2>7, <3>4, <3>5
      <4> QED
        BY <2>9, <2>10, <2>11, <3>1, <4>1 DEF Traced
    <3> QED
      BY <3>7, <3>8, <3>9, <3>10 DEF ReplayInv
  <2>13. CASE raised' = "past" /\ events' = q
    <3>1. LoopInv' /\ ~HasArrival'
      BY <1>7, <2>13
    <3>2. Core'
      BY <1>1, <1>2, <1>4, <1>5, <2>1, <2>3, <2>6, <3>1 DEF Core
    <3>3. Chain'
      BY <1>5, <2>1, <2>13, <3>1 DEF Chain
    <3>4. Numbered'
      <4>1. Len(made') = Len(delivered') + 0 + 1
        BY <1>4, <1>6, <2>5
      <4> QED
        BY <2>11, <2>13, <3>1, <4>1 DEF Numbered, HasArrival
    <3>5. Len(made') = c
      BY <2>5, <2>8
    <3>6. Traced'
      BY <2>9, <2>10, <2>11, <3>1, <3>5 DEF Traced, HasArrival
    <3> QED
      BY <3>2, <3>3, <3>4, <3>6 DEF ReplayInv
  <2> QED
    BY <1>11, <2>2, <2>12, <2>13 DEF Replayed
<1> QED
  BY <1>2, <1>9, <1>10, <1>11, ScheduleNextCases

(* _enqueue_arrival, called when all requests have arrived.                  *)
LEMMA PoissonGoesOn ==
  ASSUME ReplayInv, mode = "poisson", raised = "none", UNCHANGED <<setup, pos, open, raised>>,
         attached' = TRUE, now' \in Nat,
         NEW q, Ready(q), NEW at, at \in Nat, EnqueueArrival(q, at), AllArrived(delivered')
  PROVE  ReplayInv'
<1>1. Core /\ Chain /\ DrawsTyped /\ ~open
  BY DEF ReplayInv, Core, Chain
<1>2. FileOK(file) /\ pos \in 0..Len(file)
  BY <1>1 DEF Core
<1>3. /\ q \in Seq(Events) /\ InTimeOrder(q) /\ Apart(q, TwoArrivals)
      /\ \A e \in ToSet(q) : e.type # "REQUEST_ARRIVE"
  BY DEF Ready
<1>4. /\ delivered' \in Seq(Deliveries) /\ Len(delivered') = Len(made)
      /\ \A i \in DOMAIN delivered' : delivered'[i].id = i
  BY DEF AllArrived
<1>5. mode' = mode /\ oneSeed' = oneSeed /\ file' = file /\ pos' = pos /\ open' = open /\ raised' = raised
  BY SameFile
<1>6. Len(made) \in Nat /\ DOMAIN made = 1..Len(made) /\ made \in Seq(RequestSet)
  BY <1>1 DEF DrawsTyped
<1>7. Traced'
  BY <1>5 DEF Traced
<1>8. CASE events' = q /\ UNCHANGED <<made, buckets, recent, drawn>>
  <2>1. LoopInv' /\ ~HasArrival'
    BY <1>3, <1>8 DEF LoopInv, HasArrival, Queued
  <2>2. DrawsTyped'
    BY <1>1, <1>5, <1>8 DEF DrawsTyped
  <2>3. Core'
    BY <1>1, <1>2, <1>4, <1>5, <2>1, <2>2 DEF Core
  <2>4. Chain'
    BY <1>1, <1>5, <2>1 DEF Chain
  <2>5. Numbered'
    <3>1. Len(made') = Len(delivered') + 0 + 0
      BY <1>4, <1>6, <1>8
    <3> QED
      BY <1>4, <1>5, <2>1, <3>1 DEF Numbered, HasArrival
  <2> QED
    BY <1>7, <2>3, <2>4, <2>5 DEF ReplayInv
<1>9. CASE BuildRequest(at) /\ events' = Schedule(q, Arrival(at, Len(made')))
  <2>1. PICK m : Added(m, at, PromptLen)
    <3>1. at \in Int
      OBVIOUS
    <3> QED
      BY <1>1, <1>9, <3>1, PoissonAdded
  <2>2. m \in RequestSet /\ made' = Append(made, m) /\ Grown
    BY <2>1 DEF Added
  <2>3. made' \in Seq(RequestSet) /\ Len(made') = Len(made) + 1
    BY <1>6, <2>2
  <2>4. buckets' = buckets /\ recent' = recent
    BY <1>9 DEF BuildRequest
  <2>5. DrawsTyped'
    BY <1>1, <1>5, <2>2, <2>3, <2>4 DEF DrawsTyped, Grown
  <2>6. PICK c : c = Len(made) + 1
    OBVIOUS
  <2>7. c \in Nat /\ Len(made') = c
    BY <1>6, <2>3, <2>6
  <2>8. PICK a : a = Arrival(at, c)
    OBVIOUS
  <2>9. /\ events' \in Seq(Events) /\ InTimeOrder(events') /\ Apart(events', TwoArrivals)
        /\ ToSet(events') = ToSet(q) \cup {a}
    <3>1. /\ Schedule(q, Arrival(at, c)) \in Seq(Events)
          /\ InTimeOrder(Schedule(q, Arrival(at, c)))
          /\ Apart(Schedule(q, Arrival(at, c)), TwoArrivals)
          /\ ToSet(Schedule(q, Arrival(at, c))) = ToSet(q) \cup {Arrival(at, c)}
      BY <2>7, ReadySchedule
    <3>2. events' = Schedule(q, Arrival(at, c))
      BY <1>9, <2>7
    <3> QED
      BY <2>8, <3>1, <3>2
  <2>10. a.type = "REQUEST_ARRIVE" /\ a.req = c
    BY <2>8 DEF Arrival
  <2>11. HasArrival' /\ \A e \in Queued' : e.type = "REQUEST_ARRIVE" => e = a
    BY <1>3, <2>9, <2>10 DEF HasArrival, Queued
  <2>12. LoopInv'
    BY <2>9 DEF LoopInv
  <2>13. Core'
    BY <1>1, <1>2, <1>4, <1>5, <2>5, <2>12 DEF Core
  <2>14. Chain'
    BY <1>1, <1>5 DEF Chain
  <2>15. Numbered'
    <3>1. Len(made') = Len(delivered') + 1 + 0
      BY <1>4, <1>6, <2>3
    <3> QED
      BY <1>4, <1>5, <2>7, <2>10, <2>11, <3>1 DEF Numbered
  <2> QED
    BY <1>7, <2>13, <2>14, <2>15 DEF ReplayInv
<1> QED
  BY <1>8, <1>9 DEF EnqueueArrival

(* Before attach everything is empty.                                        *)
LEMMA Unattached ==
  ASSUME ReplayInv, ~attached, UNCHANGED delivered
  PROVE  /\ Ready(events) /\ AllArrived(delivered') /\ raised = "none" /\ now \in Nat /\ now = 0
<1>1. /\ events = <<>> /\ raised = "none" /\ made = <<>> /\ delivered = <<>> /\ now = 0
  BY DEF ReplayInv, Chain
<1>2. events \in Seq(Events) /\ DOMAIN events = {}
  BY <1>1
<1>3. Ready(events)
  BY <1>2 DEF Ready, InTimeOrder, Apart, ToSet
<1>4. AllArrived(delivered')
  BY <1>1 DEF AllArrived
<1> QED
  BY <1>1, <1>3, <1>4

(* The end of a request's work.                                              *)
LEMMA WorkKeeps ==
  ASSUME ReplayInv, WorkDone
  PROVE  ReplayInv'
<1>1. /\ events # <<>> /\ Head(events).type = "WORK" /\ now' = Head(events).time /\ events' = Tail(events)
      /\ UNCHANGED setup
      /\ UNCHANGED <<pos, open, attached, made, delivered, buckets, recent, drawn, raised>>
  BY DEF WorkDone
<1>2. Core /\ Chain /\ Numbered /\ Traced /\ LoopInv
  BY DEF ReplayInv, Core
<1>3. PICK h, t : h = Head(events) /\ t = Tail(events)
  OBVIOUS
<1>4. /\ h \in Events /\ t \in Seq(Events) /\ ToSet(events) = {h} \cup ToSet(t)
      /\ InTimeOrder(t) /\ Apart(t, TwoArrivals)
  <2>1. events \in Seq(Events) /\ InTimeOrder(events) /\ Apart(events, TwoArrivals)
    BY <1>2 DEF LoopInv
  <2> QED
    BY <1>1, <1>3, <2>1, PopFacts
<1>5. h.time \in Nat
  BY <1>4 DEF Events
<1>6. LoopInv'
  BY <1>1, <1>3, <1>4, <1>5 DEF LoopInv
<1>7. \A e : e \in Queued' <=> e \in ToSet(t)
  BY <1>1, <1>3 DEF Queued
<1>8. \A e : e.type = "REQUEST_ARRIVE" => (e \in Queued' <=> e \in Queued)
  BY <1>1, <1>3, <1>4, <1>7 DEF Queued
<1>9. HasArrival' <=> HasArrival
  BY <1>8 DEF HasArrival
<1>10. mode' = mode /\ oneSeed' = oneSeed /\ file' = file /\ \A k \in Nat : RecordsTo(k)' = RecordsTo(k)
  BY <1>1, SameFile
<1>11. DrawsTyped'
  BY <1>1, <1>2, <1>10 DEF Core, DrawsTyped
<1>12. Core'
  BY <1>1, <1>2, <1>6, <1>10, <1>11 DEF Core
<1>13. attached
  BY <1>1, <1>2 DEF Chain
<1>14. Chain'
  BY <1>1, <1>2, <1>9, <1>10, <1>13 DEF Chain
<1>15. Numbered'
  BY <1>1, <1>2, <1>8, <1>9 DEF Numbered
<1>16. Traced'
  <2>1. pos \in Nat /\ pos' = pos
    BY <1>1, <1>2 DEF Core, FileOK
  <2>2. RecordsTo(pos)' = RecordsTo(pos)
    BY <1>1, <1>10 DEF RecordsTo
  <2>3. mode # "poisson" => (\A i \in DOMAIN made : \E k \in 1..pos : IsRead(made[i], i, k))'
    BY <1>1, <1>2, <1>10, <2>1 DEF Traced, IsRead, Hashed
  <2> QED
    BY <1>1, <1>2, <1>8, <1>10, <2>2, <2>3 DEF Traced
<1> QED
  BY <1>12, <1>14, <1>15, <1>16 DEF ReplayInv

(* The initial length of the buckets.                                        *)
LEMMA InitialLength ==
  ASSUME mode \in {"poisson", "none", "hash_ids", "synthesis"}
  PROVE  InitialLen \in Nat /\ (mode = "poisson" => InitialLen = PrefixLen)
<1>1. CASE mode = "poisson"
  <2>1. PrefixLen \in Nat
    BY PrefixLength, WorkloadAssumption DEF PrefixLen
  <2> QED
    BY <1>1, <2>1 DEF InitialLen
<1>2. CASE mode # "poisson"
  <2>1. PICK b, x, y : b = BlockSize /\ x = PromptLen + b - 1 /\ y = x \div b
    OBVIOUS
  <2>2. b \in Nat \ {0} /\ PromptLen \in Nat
    BY <2>1, SynthesisAssumption, WorkloadAssumption
  <2>3. x \in Nat
    BY <2>1, <2>2
  <2>4. y \in Nat
    BY <2>1, <2>2, <2>3, DivisionFacts
  <2>5. PICK z : z = Max({1, y})
    OBVIOUS
  <2>6. z \in Nat
    <3>1. 1 \in Int /\ y \in Int
      BY <2>4
    <3>2. z = IF 1 >= y THEN 1 ELSE y
      BY <2>5, <3>1, OfTwo
    <3> QED
      BY <2>4, <3>2
  <2>7. b * z \in Nat
    BY <2>2, <2>6
  <2>8. InitialLen = b * z
    BY <1>2, <2>1, <2>5 DEF InitialLen, InitialPrefixLen
  <2> QED
    BY <1>2, <2>7, <2>8
<1> QED
  BY <1>1, <1>2

(* The bucket prefixes drawn at the start.                                   *)
LEMMA InitialBuckets ==
  ASSUME NEW n \in Nat
  PROVE  /\ BucketPrefixes(n) \in [Buckets -> Seq(Nat)]
         /\ \A b \in Buckets :
              /\ Len(BucketPrefixes(n)[b]) = n
              /\ \A k \in 1..n : BucketPrefixes(n)[b][k] = b * n + k - 1
<1>1. \A b \in Buckets : b \in Nat
  BY SynthesisAssumption DEF Buckets
<1>2. ASSUME NEW b \in Buckets
      PROVE  /\ BucketDraws(b * n, n) \in Seq(Nat) /\ Len(BucketDraws(b * n, n)) = n
             /\ \A k \in 1..n : BucketDraws(b * n, n)[k] = b * n + k - 1
  <2>1. PICK d : d = b * n
    OBVIOUS
  <2>2. d \in Nat
    BY <1>1, <2>1
  <2> QED
    BY <2>1, <2>2, BucketFacts
<1>3. BucketPrefixes(n) = [b \in Buckets |-> BucketDraws(b * n, n)]
  BY DEF BucketPrefixes
<1> QED
  BY <1>2, <1>3

LEMMA InitReplay == Init => ReplayInv
<1> SUFFICES ASSUME Init PROVE ReplayInv
  OBVIOUS
<1>1. mode \in {"poisson", "none", "hash_ids", "synthesis"} /\ (oneSeed => mode = "synthesis")
  BY DEF Init
<1>2. /\ pos = 0 /\ open = FALSE /\ attached = FALSE /\ made = <<>> /\ delivered = <<>>
      /\ now = 0 /\ events = <<>> /\ recent = <<>> /\ raised = "none"
      /\ buckets = BucketPrefixes(InitialLen)
      /\ drawn = [bucket |-> NumBuckets * InitialLen, suffix |-> 0]
  BY DEF Init
<1>3. FileOK(file)
  <2>1. CASE file = <<>>
    BY <2>1 DEF FileOK
  <2>2. CASE file \in Traces
    BY <2>2, TracesOK
  <2>3. CASE log \in Logs /\ file = ConvertMooncake(log)
    BY <2>3, MooncakeFile
  <2>4. CASE log \in Logs /\ file = ConvertBurstGPT(log)
    BY <2>4, BurstFile
  <2> QED
    BY <2>1, <2>2, <2>3, <2>4 DEF Init
<1>4. Len(file) \in Nat /\ pos \in 0..Len(file)
  BY <1>2, <1>3 DEF FileOK
<1>5. events \in Seq(Events) /\ DOMAIN events = {} /\ Queued = {}
  BY <1>2 DEF Queued, ToSet
<1>6. LoopInv /\ ~HasArrival
  BY <1>2, <1>5 DEF LoopInv, HasArrival, InTimeOrder, Apart
<1>7. DrawsTyped
  <2>1. PICK n : n = InitialLen
    OBVIOUS
  <2>2. n \in Nat /\ (mode = "poisson" => n = PrefixLen)
    BY <1>1, <2>1, InitialLength
  <2>3. buckets \in [Buckets -> Seq(Nat)] /\ \A b \in Buckets : Len(buckets[b]) = n
    BY <1>2, <2>1, <2>2, InitialBuckets
  <2>4. NumBuckets * n \in Nat
    BY <2>2, SynthesisAssumption
  <2>5. drawn \in [bucket : Nat, suffix : Nat]
    BY <1>2, <2>1, <2>4
  <2>6. <<>> \in Seq(RequestSet) /\ <<>> \in Seq(Entries)
    OBVIOUS
  <2> QED
    BY <1>1, <1>2, <2>2, <2>3, <2>5, <2>6 DEF DrawsTyped
<1>8. Core
  <2>1. <<>> \in Seq(Deliveries)
    OBVIOUS
  <2>2. delivered \in Seq(Deliveries)
    BY <1>2, <2>1
  <2> QED
    BY <1>1, <1>2, <1>3, <1>4, <1>6, <1>7, <2>2 DEF Core
<1>9. Chain
  BY <1>2, <1>6 DEF Chain
<1>10. Numbered
  BY <1>2, <1>5, <1>6 DEF Numbered
<1>11. Traced
  <2>1. RecordsTo(0) = 0
    <3>1. {j \in 1..0 : file[j].kind = "record"} = {}
      OBVIOUS
    <3> QED
      BY <3>1, FS_EmptySet DEF RecordsTo
  <2> QED
    BY <1>2, <1>5, <2>1 DEF Traced
<1> QED
  BY <1>8, <1>9, <1>10, <1>11 DEF ReplayInv

LEMMA NextReplay == ReplayInv /\ [Next]_vars => ReplayInv'
<1> SUFFICES ASSUME ReplayInv, [Next]_vars PROVE ReplayInv'
  OBVIOUS
<1>1. LoopInv
  BY DEF ReplayInv, Core
<1>2. CASE AttachPoisson
  <2>1. /\ mode = "poisson" /\ ~attached /\ attached' = TRUE
        /\ UNCHANGED <<setup, pos, open, raised>> /\ UNCHANGED delivered /\ now' = now
    BY <1>2 DEF AttachPoisson
  <2>2. PICK gap \in Gaps : EnqueueArrival(events, gap)
    BY <1>2 DEF AttachPoisson
  <2>3. gap \in Nat
    BY WorkloadAssumption
  <2>4. Ready(events) /\ AllArrived(delivered') /\ raised = "none" /\ now \in Nat
    BY <2>1, Unattached
  <2>5. now' \in Nat
    BY <2>1, <2>4
  <2> QED
    BY <2>1, <2>2, <2>3, <2>4, <2>5, PoissonGoesOn
<1>3. CASE ArrivePoisson
  <2>1. /\ mode = "poisson" /\ PopArrival /\ UNCHANGED <<setup, pos, open, raised>> /\ raised = "none"
        /\ UNCHANGED attached
    BY <1>3 DEF ArrivePoisson, PopArrival
  <2>2. PICK gap \in Gaps : EnqueueArrival(AfterOnArrive, now' + gap)
    BY <1>3 DEF ArrivePoisson
  <2>3. Ready(AfterOnArrive) /\ now' \in Nat
    BY <1>1, <2>1, ReadyAfterArrival
  <2>4. now' + gap \in Nat
    <3>1. gap \in Nat
      BY WorkloadAssumption
    <3>2. PICK x : x = now'
      OBVIOUS
    <3>3. x \in Nat
      BY <2>3, <3>2
    <3>4. x + gap \in Nat
      BY ONLY <3>1, <3>3
    <3> QED
      BY <3>2, <3>4
  <2>5. AllArrived(delivered')
    BY <2>1, PopDelivers
  <2>6. attached' = TRUE
    BY <2>1 DEF ReplayInv, Core, Chain, PopArrival
  <2> QED
    BY <2>1, <2>2, <2>3, <2>4, <2>5, <2>6, PoissonGoesOn
<1>4. CASE AttachTrace
  <2>1. /\ mode # "poisson" /\ ~attached /\ attached' = TRUE
        /\ UNCHANGED setup /\ UNCHANGED delivered /\ now' = now /\ ScheduleNext(events, now)
    BY <1>4 DEF AttachTrace
  <2>2. Ready(events) /\ AllArrived(delivered') /\ raised = "none" /\ now \in Nat
    BY <2>1, Unattached
  <2>3. now' \in Nat
    BY <2>1, <2>2
  <2> QED
    BY <2>1, <2>2, <2>3, TraceGoesOn
<1>5. CASE ArriveTrace
  <2>1. /\ mode # "poisson" /\ PopArrival /\ UNCHANGED setup /\ raised = "none"
        /\ UNCHANGED attached /\ ScheduleNext(AfterOnArrive, now')
    BY <1>5 DEF ArriveTrace, PopArrival
  <2>2. Ready(AfterOnArrive) /\ now' \in Nat
    BY <1>1, <2>1, ReadyAfterArrival
  <2>3. AllArrived(delivered')
    BY <2>1, PopDelivers
  <2>4. attached' = TRUE
    BY <2>1 DEF ReplayInv, Core, Chain, PopArrival
  <2> QED
    BY <2>1, <2>2, <2>3, <2>4, TraceGoesOn
<1>6. CASE WorkDone
  BY <1>6, WorkKeeps
<1>7. CASE UNCHANGED vars
  <2>1. /\ mode' = mode /\ oneSeed' = oneSeed /\ file' = file /\ pos' = pos /\ open' = open /\ attached' = attached
        /\ made' = made /\ now' = now /\ events' = events /\ delivered' = delivered
        /\ buckets' = buckets /\ recent' = recent /\ drawn' = drawn /\ raised' = raised
    BY <1>7 DEF vars, setup
  <2>2. Queued' = Queued /\ (HasArrival' <=> HasArrival)
    BY <2>1 DEF Queued, HasArrival
  <2>3. Core'
    BY <2>1 DEF ReplayInv, Core, LoopInv, DrawsTyped
  <2>4. Chain' /\ Numbered'
    BY <2>1, <2>2 DEF ReplayInv, Chain, Numbered
  <2>5. Traced'
    <3>1. RecordsTo(pos)' = RecordsTo(pos)
      BY <2>1 DEF RecordsTo
    <3>2. (\A i \in DOMAIN made : \E k \in 1..pos : IsRead(made[i], i, k))'
            <=> (\A i \in DOMAIN made : \E k \in 1..pos : IsRead(made[i], i, k))
      BY <2>1 DEF IsRead, RecordsTo, Hashed
    <3> QED
      BY <2>1, <2>2, <3>1, <3>2 DEF ReplayInv, Traced
  <2> QED
    BY <2>3, <2>4, <2>5 DEF ReplayInv
<1> QED
  BY <1>2, <1>3, <1>4, <1>5, <1>6, <1>7 DEF Next

(* The inductive invariant of the replay holds: for any traces, logs, prefix *)
(* modes and gaps.                                                           *)
THEOREM ReplayAgrees == Spec => []ReplayInv
<1>1. Init => ReplayInv
  BY InitReplay
<1>2. ReplayInv /\ [Next]_vars => ReplayInv'
  BY NextReplay
<1> QED
  BY <1>1, <1>2, PTL DEF Spec

(* The arrivals that are queued.                                             *)
LEMMA PendingFacts ==
  ASSUME LoopInv
  PROVE  Cardinality(Pending) = IF HasArrival THEN 1 ELSE 0
<1>1. events \in Seq(Events) /\ DOMAIN events = 1..Len(events) /\ \A i \in DOMAIN events : events[i] \in Events
  BY DEF LoopInv
<1>2. ASSUME NEW i \in Pending, NEW j \in Pending
      PROVE  i = j
  <2>1. i \in DOMAIN events /\ j \in DOMAIN events /\ events[i].type = "REQUEST_ARRIVE" /\ events[j].type = "REQUEST_ARRIVE"
    BY DEF Pending
  <2>2. <<events[i], events[j]>> \in TwoArrivals
    BY <1>1, <2>1 DEF TwoArrivals
  <2> QED
    BY <2>1, <2>2 DEF LoopInv, Apart
<1>3. CASE HasArrival
  <2>1. PICK i \in DOMAIN events : events[i].type = "REQUEST_ARRIVE"
    BY <1>3 DEF HasArrival, Queued, ToSet
  <2>2. i \in Pending
    BY <2>1 DEF Pending
  <2>3. Pending = {i}
    BY <1>2, <2>2
  <2> QED
    BY <1>3, <2>3, FS_Singleton
<1>4. CASE ~HasArrival
  <2>1. Pending = {}
    BY <1>4 DEF HasArrival, Queued, ToSet, Pending
  <2> QED
    BY <1>4, <2>1, FS_EmptySet
<1> QED
  BY <1>3, <1>4

(* The arrivals form one chain, which lives as long as the file is open.     *)
THEOREM OneChain == Spec => []OneAhead
<1>1. ReplayInv => OneAhead
  <2> SUFFICES ASSUME ReplayInv PROVE OneAhead
    OBVIOUS
  <2>1. Cardinality(Pending) = IF HasArrival THEN 1 ELSE 0
    BY PendingFacts DEF ReplayInv, Core
  <2>2. Pending # {} => HasArrival
    BY DEF Pending, HasArrival, Queued, ToSet
  <2>3. Chain /\ raised \in {"none", "record", "struct", "past"} /\ mode \in {"poisson", "none", "hash_ids", "synthesis"}
    BY DEF ReplayInv, Core
  <2>4. open /\ raised # "past" => HasArrival
    BY <2>3 DEF Chain
  <2>5. mode # "poisson" /\ HasArrival => open
    BY <2>3 DEF Chain
  <2> QED
    BY <2>1, <2>2, <2>4, <2>5 DEF OneAhead
<1> QED
  BY <1>1, ReplayAgrees, PTL

(* A trace is replayed record by record, each at its time.                   *)
THEOREM ReplayExact == Spec => []ReplayIsExact
<1>1. ReplayInv => ReplayIsExact
  <2> SUFFICES ASSUME ReplayInv PROVE ReplayIsExact
    OBVIOUS
  <2>1. Cardinality(Pending) = IF HasArrival THEN 1 ELSE 0
    BY PendingFacts DEF ReplayInv, Core
  <2>2. /\ \A i \in DOMAIN delivered : delivered[i].id = i
        /\ Len(made) = Len(delivered) + Cardinality(Pending) + (IF raised = "past" THEN 1 ELSE 0)
    BY <2>1 DEF ReplayInv, Numbered
  <2>3. pos \in Nat
    BY DEF ReplayInv, Core, FileOK
  <2>4. ASSUME mode # "poisson", NEW i \in DOMAIN made
        PROVE  made[i].at = RecordOf(i).at /\ Len(made[i].tokens) = RecordOf(i).len
    <3>1. PICK k \in 1..pos : IsRead(made[i], i, k)
      BY <2>4 DEF ReplayInv, Traced
    <3>2. RecordOf(i) = file[k]
      BY <2>3, <3>1, RecordIs DEF IsRead
    <3> QED
      BY <3>1, <3>2 DEF IsRead
  <2>5. \A i \in DOMAIN delivered : i \in DOMAIN made
    <3>1. Len(delivered) \in Nat /\ DOMAIN delivered = 1..Len(delivered) /\ Len(made) \in Nat /\ DOMAIN made = 1..Len(made)
      BY DEF ReplayInv, Core, DrawsTyped
    <3>2. Len(delivered) <= Len(made)
      <4>1. PICK x, y : x = (IF HasArrival THEN 1 ELSE 0) /\ y = (IF raised = "past" THEN 1 ELSE 0)
        OBVIOUS
      <4>2. x \in Nat /\ y \in Nat
        BY <4>1
      <4>3. Len(made) = Len(delivered) + x + y
        BY <4>1 DEF ReplayInv, Numbered
      <4> QED
        BY <3>1, <4>2, <4>3
    <3> QED
      BY <3>1, <3>2
  <2>6. ASSUME mode # "poisson", NEW i \in DOMAIN delivered
        PROVE  delivered[i].time * Speedup = RecordOf(i).at
    <3>1. delivered[i].time * Speedup = made[i].at
      BY <2>6 DEF ReplayInv, Traced
    <3> QED
      BY <2>4, <2>5, <2>6, <3>1
  <2> QED
    BY <2>2, <2>4, <2>6 DEF ReplayIsExact
<1> QED
  BY <1>1, ReplayAgrees, PTL

-----------------------------------------------------------------------------
(* What a step adds to the prompts.                                          *)

(* The request m is added; while nothing is raised it is not before the last *)
(* one.                                                                      *)
Appended(m) ==
  /\ raised = "none"
  /\ \E at, len : Added(m, at, len)
  /\ mode = "synthesis" => Windowed(m, m.at)
  /\ mode # "poisson" /\ made # <<>> /\ raised' = "none" => made[Len(made)].at <= m.at

NothingMade == UNCHANGED <<made, buckets, recent, drawn>> /\ (raised' = "none" => raised = "none")

(* The last arrival was that of the last request made.                       *)
LEMMA LastArrival ==
  ASSUME ReplayInv, PopArrival, mode # "poisson"
  PROVE  made # <<>> => now' * Speedup = made[Len(made)].at
<1>1. AllArrived(delivered')
  BY PopDelivers
<1>2. delivered' = Append(delivered, [id |-> Head(events).req, time |-> now'])
  BY DEF PopArrival
<1>3. delivered \in Seq(Deliveries) /\ Len(delivered) \in Nat
  BY DEF ReplayInv, Core
<1>4. PICK x : x = [id |-> Head(events).req, time |-> now']
  OBVIOUS
<1>5. Len(delivered') = Len(delivered) + 1 /\ delivered'[Len(delivered) + 1] = x
  <2>1. delivered \in Seq(Deliveries \cup {x}) /\ x \in Deliveries \cup {x}
    BY <1>3
  <2> QED
    BY <1>2, <1>4, <2>1
<1>6. x.time = now'
  BY <1>4
<1>7. /\ Len(delivered') = Len(made)
      /\ \A i \in DOMAIN delivered' : delivered'[i].time * Speedup = made[i].at
      /\ DOMAIN delivered' = 1..Len(delivered')
  BY <1>1 DEF AllArrived
<1>8. Len(made) \in DOMAIN delivered' /\ delivered'[Len(made)] = x
  BY <1>3, <1>5, <1>7
<1> QED
  BY <1>6, <1>7, <1>8

(* A trace step, for a request that is made.                                 *)
LEMMA ReplayedAppends ==
  ASSUME ReplayInv, mode # "poisson", raised = "none", NEW q, NEW t, t \in Nat, NEW m, Replayed(q, t, m),
         made # <<>> => t * Speedup = made[Len(made)].at
  PROVE  Appended(m)
<1>1. PICK line, at : line = file[pos'] /\ at = SimTime(line)
  OBVIOUS
<1>2. /\ IsRecord(line) /\ Added(m, line.at, line.len) /\ (mode = "synthesis" => Windowed(m, line.at))
      /\ raised' = "none" => at >= t
  BY <1>1 DEF Replayed
<1>3. m.at = line.at
  BY <1>2 DEF Added
<1>4. line.at \in Int /\ line.at % Speedup = 0 /\ Speedup \in Nat \ {0}
  BY <1>2, WorkloadAssumption DEF IsRecord, LineOK
<1>5. at \in Int /\ at * Speedup = line.at
  BY <1>1, <1>4, ExactDivision DEF SimTime
<1>6. raised' = "none" => t * Speedup <= at * Speedup
  <2>1. t \in Int
    OBVIOUS
  <2>2. raised' = "none" => t <= at
    BY <1>2, <1>5, <2>1
  <2> QED
    BY <1>4, <1>5, <2>1, <2>2, FactorOrder
<1> QED
  BY <1>2, <1>3, <1>5, <1>6 DEF Appended

LEMMA StepMakes ==
  ASSUME ReplayInv, [Next]_vars
  PROVE  UNCHANGED setup /\ (NothingMade \/ \E m : Appended(m))
<1>1. LoopInv /\ DrawsTyped /\ FileOK(file) /\ pos \in 0..Len(file)
  BY DEF ReplayInv, Core
<1>2. ASSUME NEW q, NEW at \in Nat, EnqueueArrival(q, at), mode = "poisson", UNCHANGED raised, raised = "none"
      PROVE  NothingMade \/ \E m : Appended(m)
  <2>1. CASE BuildRequest(at)
    <3>1. at \in Int
      OBVIOUS
    <3>2. PICK m : Added(m, at, PromptLen)
      BY <1>1, <1>2, <2>1, <3>1, PoissonAdded
    <3> QED
      BY <1>2, <3>2 DEF Appended
  <2>2. CASE UNCHANGED <<made, buckets, recent, drawn>>
    BY <1>2, <2>2 DEF NothingMade
  <2> QED
    BY <1>2, <2>1, <2>2 DEF EnqueueArrival
<1>3. ASSUME NEW q, NEW t, t \in Nat, ScheduleNext(q, t), mode # "poisson", raised = "none",
             made # <<>> => t * Speedup = made[Len(made)].at
      PROVE  NothingMade \/ \E m : Appended(m)
  <2>1. Ended(q) \/ Failed(q) \/ \E m : Replayed(q, t, m)
    BY <1>1, <1>3, ScheduleNextCases
  <2>2. ASSUME Ended(q) \/ Failed(q)
        PROVE  NothingMade
    BY <1>3, <2>2 DEF Ended, Failed, NothingMade
  <2>3. ASSUME NEW m, Replayed(q, t, m)
        PROVE  Appended(m)
    BY <1>3, <2>3, ReplayedAppends
  <2> QED
    BY <2>1, <2>2, <2>3
<1>4. CASE AttachPoisson
  <2>1. mode = "poisson" /\ ~attached /\ UNCHANGED setup /\ UNCHANGED raised
    BY <1>4 DEF AttachPoisson
  <2>2. raised = "none"
    BY <2>1 DEF ReplayInv, Chain
  <2>3. PICK gap \in Gaps : EnqueueArrival(events, gap)
    BY <1>4 DEF AttachPoisson
  <2>4. gap \in Nat
    BY WorkloadAssumption
  <2> QED
    BY <1>2, <2>1, <2>2, <2>3, <2>4
<1>5. CASE ArrivePoisson
  <2>1. mode = "poisson" /\ PopArrival /\ UNCHANGED setup /\ UNCHANGED raised /\ raised = "none"
    BY <1>5 DEF ArrivePoisson, PopArrival
  <2>2. PICK gap \in Gaps : EnqueueArrival(AfterOnArrive, now' + gap)
    BY <1>5 DEF ArrivePoisson
  <2>3. PICK x : x = now' + gap
    OBVIOUS
  <2>4. x \in Nat
    <3>1. now' \in Nat /\ gap \in Nat
      BY <1>1, <2>1, ReadyAfterArrival, WorkloadAssumption
    <3>2. PICK y : y = now'
      OBVIOUS
    <3>3. y \in Nat /\ gap \in Nat
      BY <3>1, <3>2
    <3>4. y + gap \in Nat
      BY ONLY <3>3
    <3> QED
      BY <2>3, <3>2, <3>4
  <2> QED
    BY <1>2, <2>1, <2>2, <2>3, <2>4
<1>6. CASE AttachTrace
  <2>1. mode # "poisson" /\ ~attached /\ UNCHANGED setup /\ ScheduleNext(events, now)
    BY <1>6 DEF AttachTrace
  <2>2. raised = "none" /\ made = <<>> /\ now \in Nat
    BY <1>1, <2>1 DEF ReplayInv, Chain, LoopInv
  <2> QED
    BY <1>3, <2>1, <2>2
<1>7. CASE ArriveTrace
  <2>1. /\ mode # "poisson" /\ PopArrival /\ UNCHANGED setup /\ raised = "none"
        /\ ScheduleNext(AfterOnArrive, now')
    BY <1>7 DEF ArriveTrace, PopArrival
  <2>2. now' \in Nat
    BY <1>1, <2>1, ReadyAfterArrival
  <2>3. made # <<>> => now' * Speedup = made[Len(made)].at
    BY <2>1, LastArrival
  <2> QED
    BY <1>3, <2>1, <2>2, <2>3
<1>8. CASE WorkDone
  BY <1>8 DEF WorkDone, NothingMade
<1>9. CASE UNCHANGED vars
  BY <1>9 DEF vars, NothingMade
<1> QED
  BY <1>4, <1>5, <1>6, <1>7, <1>8, <1>9 DEF Next

-----------------------------------------------------------------------------
(* The locality window.                                                      *)

Used == {j \in DOMAIN made : made[j].bucket # NoBucket}

(* The window holds requests that took a bucket, the last of them included.  *)
WindowInv ==
  mode = "synthesis" =>
    /\ raised = "none" => AtsInOrder(made) /\ AtsInOrder(recent)
    /\ \A i \in DOMAIN recent : \E j \in Used :
         recent[i].bucket = made[j].bucket /\ recent[i].at = made[j].at
    /\ raised = "none" => \A j \in Used : recent # <<>> /\ made[j].at <= recent[Len(recent)].at
    /\ WindowIsExact

(* A request that comes next.                                                *)
LEMMA WindowNext ==
  ASSUME ReplayInv, WindowInv, UNCHANGED setup, NEW CONSTANT m, Appended(m)
  PROVE  WindowInv'
<1> SUFFICES ASSUME mode = "synthesis"
             PROVE  WindowInv'
  BY SameFile DEF WindowInv
<1>1. /\ raised = "none" /\ AtsInOrder(made) /\ AtsInOrder(recent) /\ WindowIsExact
      /\ \A i \in DOMAIN recent : \E j \in Used :
           recent[i].bucket = made[j].bucket /\ recent[i].at = made[j].at
      /\ \A j \in Used : recent # <<>> /\ made[j].at <= recent[Len(recent)].at
  BY DEF WindowInv, Appended
<1>2. made \in Seq(RequestSet) /\ recent \in Seq(Entries)
  BY DEF ReplayInv, Core, DrawsTyped
<1>3. m \in RequestSet /\ made' = Append(made, m) /\ m.at \in Int /\ m.local \in BOOLEAN
  BY DEF Appended, Added, RequestSet
<1>4. PICK n \in Nat : n = Len(made)
  BY <1>2
<1>5. /\ Len(made') = n + 1 /\ DOMAIN made' = 1..n + 1 /\ DOMAIN made = 1..n
      /\ made'[n + 1] = m /\ \A i \in 1..n : made'[i] = made[i]
  BY <1>2, <1>3, <1>4
<1>6. \A i \in 1..n : made[i].at \in Int
  <2>1. \A i \in 1..n : made[i] \in RequestSet
    BY <1>2, <1>5
  <2> QED
    BY <2>1 DEF RequestSet
<1>7. ASSUME raised' = "none", NEW i \in 1..n
      PROVE  made[i].at <= m.at
  <2>1. made # <<>> /\ n \in 1..n
    BY <1>4, <1>5, <1>7
  <2>2. made[n].at <= m.at
    BY <1>4, <1>7, <2>1 DEF Appended
  <2>3. made[i].at <= made[n].at
    <3>1. CASE i = n
      BY <1>6, <3>1
    <3>2. CASE i < n
      BY <1>1, <1>5, <2>1, <3>2 DEF AtsInOrder
    <3> QED
      BY <3>1, <3>2
  <2> QED
    BY <1>3, <1>6, <2>1, <2>2, <2>3
<1>8. ASSUME raised' = "none"
      PROVE  AtsInOrder(made')
  <2> SUFFICES ASSUME NEW i \in DOMAIN made', NEW j \in DOMAIN made', i < j
               PROVE  made'[i].at <= made'[j].at
    BY DEF AtsInOrder
  <2>1. i \in 1..n /\ made'[i] = made[i]
    BY <1>5
  <2>2. CASE j \in 1..n
    BY <1>1, <1>5, <2>1, <2>2 DEF AtsInOrder
  <2>3. CASE j = n + 1
    BY <1>5, <1>7, <1>8, <2>1, <2>3
  <2> QED
    BY <1>5, <2>2, <2>3
<1>9. /\ \A j \in Used : j \in Used' /\ j \in 1..n
      /\ \A j \in Used' : j \in Used \/ (j = n + 1 /\ m.bucket # NoBucket)
      /\ m.bucket # NoBucket => n + 1 \in Used'
  BY <1>5 DEF Used
<1>10. ASSUME NEW i \in 1..n
       PROVE  UsedBefore(i)' = UsedBefore(i)
  <2>1. \A j \in 1..(i - 1) : j \in 1..n /\ made'[j] = made[j]
    BY <1>5
  <2>2. made'[i] = made[i]
    BY <1>5
  <2> QED
    BY <2>1, <2>2 DEF UsedBefore
<1>11. PICK live : live = PurgeExpired(recent, m.at)
  OBVIOUS
<1>12. /\ live \in Seq(Entries)
       /\ (\E i \in DOMAIN recent : recent[i].at >= m.at - Window) =>
             live # <<>> /\ live[Len(live)] = recent[Len(recent)]
       /\ \A i \in DOMAIN live : \E j \in DOMAIN recent : live[i] = recent[j]
       /\ AtsInOrder(live)
       /\ \A i \in DOMAIN live : live[i].at >= m.at - Window
  <2>1. PICK r \in Seq(Entries), x \in Int : r = recent /\ x = m.at
    BY <1>2, <1>3
  <2>2. live = PurgeExpired(r, x) /\ AtsInOrder(r)
    BY <1>1, <1>11, <2>1
  <2>3. /\ live \in Seq(Entries)
        /\ (\E i \in DOMAIN r : r[i].at >= x - Window) => live # <<>> /\ live[Len(live)] = r[Len(r)]
        /\ \A i \in DOMAIN live : \E j \in DOMAIN r : live[i] = r[j]
        /\ AtsInOrder(r) => /\ AtsInOrder(live)
                            /\ \A i \in DOMAIN live : live[i].at >= x - Window
    BY <2>2, PurgeFacts DEF Purged
  <2> QED
    BY <2>1, <2>2, <2>3
<1>13. ASSUME m.bucket # NoBucket
       PROVE  /\ m.local => m.bucket \in UsedBefore(n + 1)'
              /\ LocalDraws = {TRUE} => (m.local <=> UsedBefore(n + 1)' # {})
  <2>1. /\ m.local => \E i \in DOMAIN live : live[i].bucket = m.bucket
        /\ LocalDraws = {TRUE} => (m.local <=> live # <<>>)
    BY <1>11, <1>13 DEF Appended, Windowed
  <2>2. (n + 1) - 1 = n /\ Window \in Nat
    BY SynthesisAssumption
  <2>3. UsedBefore(n + 1)' = {made[j].bucket : j \in {j \in 1..n : made[j].bucket # NoBucket /\ m.at - made[j].at <= Window}}
    <3>1. UsedBefore(n + 1)' = {made'[j].bucket : j \in {j \in 1..n : made'[j].bucket # NoBucket /\ made'[n + 1].at - made'[j].at <= Window}}
      BY <2>2 DEF UsedBefore
    <3> QED
      BY <1>5, <3>1
  <2>4. ASSUME NEW i \in DOMAIN live
        PROVE  live[i].bucket \in UsedBefore(n + 1)'
    <3>1. PICK j \in Used : live[i].bucket = made[j].bucket /\ live[i].at = made[j].at
      BY <1>1, <1>12, <2>4
    <3>2. j \in 1..n /\ made[j].bucket # NoBucket /\ made[j].at \in Int
      BY <1>5, <1>6, <3>1 DEF Used
    <3>3. live[i].at >= m.at - Window
      BY <1>12, <2>4
    <3>4. m.at - made[j].at <= Window
      <4>1. PICK x \in Int, y \in Int : x = m.at /\ y = made[j].at
        BY <1>3, <3>2
      <4>2. y >= x - Window
        BY <3>1, <3>3, <4>1
      <4>3. x - y <= Window
        BY <2>2, <4>2
      <4> QED
        BY <4>1, <4>3
    <3> QED
      BY <2>3, <3>1, <3>2, <3>4
  <2>5. ASSUME UsedBefore(n + 1)' # {}
        PROVE  live # <<>>
    <3>1. PICK j \in 1..n : made[j].bucket # NoBucket /\ m.at - made[j].at <= Window
      BY <2>3, <2>5
    <3>2. j \in Used
      BY <1>5, <3>1 DEF Used
    <3>3. recent # <<>> /\ made[j].at <= recent[Len(recent)].at
      BY <1>1, <3>2
    <3>4. Len(recent) \in DOMAIN recent /\ recent[Len(recent)] \in Entries
      BY <1>2, <3>3
    <3>5. recent[Len(recent)].at \in Int
      BY <3>4 DEF Entries
    <3>6. recent[Len(recent)].at >= m.at - Window
      <4>1. PICK x \in Int, y \in Int, z \in Int : x = m.at /\ y = made[j].at /\ z = recent[Len(recent)].at
        BY <1>3, <1>6, <3>5
      <4>2. y <= z /\ x - y <= Window
        BY <3>1, <3>3, <4>1
      <4>3. z >= x - Window
        BY <2>2, <4>2
      <4> QED
        BY <4>1, <4>3
    <3> QED
      BY <1>12, <3>4, <3>6
  <2>6. live # <<>> => UsedBefore(n + 1)' # {}
    <3> SUFFICES ASSUME live # <<>>
                 PROVE  UsedBefore(n + 1)' # {}
      OBVIOUS
    <3>1. 1 \in DOMAIN live
      BY <1>12
    <3> QED
      BY <2>4, <3>1
  <2> QED
    BY <2>1, <2>4, <2>5, <2>6
<1>14. WindowIsExact'
  <2>1. mode' = mode
    BY SameFile
  <2>2. ASSUME NEW i \in 1..n, made[i].bucket # NoBucket
        PROVE  /\ made[i].local => made[i].bucket \in UsedBefore(i)
               /\ LocalDraws = {TRUE} => (made[i].local <=> UsedBefore(i) # {})
    BY <1>1, <1>5, <2>2 DEF WindowIsExact
  <2>3. ASSUME NEW i \in DOMAIN made', made'[i].bucket # NoBucket
        PROVE  /\ made'[i].local => made'[i].bucket \in UsedBefore(i)'
               /\ LocalDraws = {TRUE} => (made'[i].local <=> UsedBefore(i)' # {})
    <3>1. CASE i \in 1..n
      BY <1>5, <1>10, <2>2, <2>3, <3>1
    <3>2. CASE i = n + 1
      BY <1>5, <1>13, <2>3, <3>2
    <3>3. i \in 1..n \/ i = n + 1
      BY <1>5
    <3> QED
      BY <3>1, <3>2, <3>3
  <2> QED
    BY <2>3 DEF WindowIsExact
<1>15. CASE m.bucket = NoBucket
  <2>1. recent' = recent
    BY <1>15 DEF Appended, Windowed
  <2>2. \A i \in DOMAIN recent' : \E j \in Used' : recent'[i].bucket = made'[j].bucket /\ recent'[i].at = made'[j].at
    BY <1>1, <1>5, <1>9, <2>1
  <2>3. \A j \in Used' : recent' # <<>> /\ made'[j].at <= recent'[Len(recent')].at
    BY <1>1, <1>5, <1>9, <1>15, <2>1
  <2> QED
    BY <1>1, <1>8, <1>14, <2>1, <2>2, <2>3 DEF WindowInv
<1>16. CASE m.bucket # NoBucket
  <2>1. PICK e : e = [bucket |-> m.bucket, at |-> m.at]
    OBVIOUS
  <2>2. recent' = Append(live, e) /\ e.bucket = m.bucket /\ e.at = m.at
    BY <1>11, <1>16, <2>1 DEF Appended, Windowed
  <2>3. PICK l \in Nat : l = Len(live)
    BY <1>12
  <2>4. e \in Entries
    BY <1>3, <1>16, <2>1 DEF RequestSet, Entries
  <2>5. /\ Len(recent') = l + 1 /\ DOMAIN recent' = 1..l + 1 /\ DOMAIN live = 1..l
        /\ recent'[l + 1] = e /\ \A i \in 1..l : recent'[i] = live[i]
    BY <1>12, <2>2, <2>3, <2>4
  <2>6. ASSUME NEW i \in 1..l
        PROVE  \E j \in Used : live[i].bucket = made[j].bucket /\ live[i].at = made[j].at
    BY <1>1, <1>12, <2>5
  <2>7. \A i \in DOMAIN recent' : \E j \in Used' : recent'[i].bucket = made'[j].bucket /\ recent'[i].at = made'[j].at
    <3>1. ASSUME NEW i \in 1..l
          PROVE  \E j \in Used' : recent'[i].bucket = made'[j].bucket /\ recent'[i].at = made'[j].at
      BY <1>5, <1>9, <2>5, <2>6, SMTT(40)
    <3>2. n + 1 \in Used' /\ recent'[l + 1].bucket = made'[n + 1].bucket /\ recent'[l + 1].at = made'[n + 1].at
      BY <1>5, <1>9, <1>16, <2>2, <2>5
    <3>3. \A i \in DOMAIN recent' : i \in 1..l \/ i = l + 1
      BY <2>5
    <3> QED
      BY <3>1, <3>2, <3>3
  <2>8. ASSUME raised' = "none"
        PROVE  \A j \in Used' : recent' # <<>> /\ made'[j].at <= recent'[Len(recent')].at
    <3>1. recent' # <<>> /\ recent'[Len(recent')].at = m.at
      BY <2>2, <2>5
    <3> QED
      BY <1>3, <1>5, <1>7, <1>9, <2>8, <3>1
  <2>9. ASSUME raised' = "none"
        PROVE  AtsInOrder(recent')
    <3> SUFFICES ASSUME NEW i \in DOMAIN recent', NEW j \in DOMAIN recent', i < j
                 PROVE  recent'[i].at <= recent'[j].at
      BY DEF AtsInOrder
    <3>1. i \in 1..l /\ recent'[i] = live[i]
      BY <2>5
    <3>2. CASE j \in 1..l
      BY <1>12, <2>5, <3>1, <3>2 DEF AtsInOrder
    <3>3. CASE j = l + 1
      <4>1. PICK k \in Used : live[i].at = made[k].at
        BY <2>6, <3>1
      <4> QED
        BY <1>7, <1>9, <2>2, <2>5, <2>9, <3>1, <3>3, <4>1
    <3> QED
      BY <2>5, <3>2, <3>3
  <2> QED
    BY <1>8, <1>14, <2>7, <2>8, <2>9 DEF WindowInv
<1> QED
  BY <1>15, <1>16

(* With p_local = 1 a prompt takes up a bucket of the window exactly when    *)
(* there is one.                                                             *)
THEOREM WindowExact == Spec => []WindowIsExact
<1>1. Init => WindowInv
  <2> SUFFICES ASSUME Init PROVE WindowInv
    OBVIOUS
  <2>1. made = <<>> /\ recent = <<>>
    BY DEF Init
  <2> QED
    BY <2>1 DEF WindowInv, AtsInOrder, Used, WindowIsExact
<1>2. ReplayInv /\ WindowInv /\ [Next]_vars => WindowInv'
  <2> SUFFICES ASSUME ReplayInv, WindowInv, [Next]_vars PROVE WindowInv'
    OBVIOUS
  <2>1. UNCHANGED setup /\ (NothingMade \/ \E m : Appended(m))
    BY StepMakes
  <2>2. CASE NothingMade
    <3>1. made' = made /\ recent' = recent /\ mode' = mode /\ (raised' = "none" => raised = "none")
      BY <2>1, <2>2, SameFile DEF NothingMade
    <3>2. Used' = Used /\ (WindowIsExact' <=> WindowIsExact)
      BY <3>1 DEF Used, WindowIsExact, UsedBefore
    <3> QED
      BY <3>1, <3>2 DEF WindowInv
  <2>3. ASSUME NEW m, Appended(m)
        PROVE  WindowInv'
    BY <2>1, <2>3, WindowNext
  <2> QED
    BY <2>1, <2>2, <2>3
<1>3. WindowInv => WindowIsExact
  BY DEF WindowInv, WindowIsExact
<1> QED
  BY <1>1, <1>2, <1>3, ReplayAgrees, PTL DEF Spec

-----------------------------------------------------------------------------
(* Converted logs.                                                           *)

(* The file is what the script has made of the log.                          *)
SourceOK ==
  /\ origin \in {"none", "mooncake", "burstgpt"}
  /\ origin # "none" => log \in Logs /\ mode # "poisson"
  /\ origin = "mooncake" => file = ConvertMooncake(log)
  /\ origin = "burstgpt" => file = ConvertBurstGPT(log)

(* A log in order of time, replayed with what it has.                        *)
CleanLog ==
  /\ origin # "none" /\ InOrder(log)
  /\ origin = "burstgpt" => mode # "hash_ids"

(* Then the trace has records only, complete and in order of time.           *)
LEMMA CleanFile ==
  ASSUME SourceOK, CleanLog
  PROVE  /\ \A i \in DOMAIN file :
              /\ file[i].kind = "record" /\ ~Lacks(file[i]) /\ file[i].at \in Nat
              /\ file[i].at = Ticks * (Source[i].ts - Source[1].ts)
         /\ \A i, j \in DOMAIN file : i < j => file[i].at <= file[j].at
<1>1. log \in Logs /\ InOrder(log) /\ origin \in {"mooncake", "burstgpt"}
  BY DEF SourceOK, CleanLog
<1>2. /\ Source \in Seq(ToSet(log)) /\ \A i \in DOMAIN Source : Source[i].ts \in Int
      /\ Len(file) <= Len(Source) /\ FileOK(file) /\ InOrder(Source)
      /\ \A i \in DOMAIN file : /\ file[i].kind = "record" /\ ~Lacks(file[i])
                                /\ file[i].at = Ticks * (Source[i].ts - Source[1].ts)
  <2>1. CASE origin = "mooncake"
    <3>1. file = ConvertMooncake(log) /\ Source = MooncakeRows(log) /\ Ticks = 1
      BY <2>1 DEF SourceOK, Source, Ticks
    <3>2. /\ FileOK(file) /\ Converted(file, Source, 1)
          /\ \A i \in DOMAIN file : file[i].hashes \in Seq(Nat)
          /\ InOrder(Source) /\ Source \in Seq(ToSet(log)) /\ \A i \in DOMAIN Source : Source[i].ts \in Int
      BY <1>1, <3>1, MooncakeFile
    <3>3. NoHashes \notin Seq(Nat)
      <4>1. NoHashes[1] = -1 /\ 1 \in DOMAIN NoHashes
        BY DEF NoHashes
      <4>2. -1 \notin Nat
        OBVIOUS
      <4> QED
        BY <4>1, <4>2
    <3>4. \A i \in DOMAIN file : file[i].kind = "record" /\ ~Lacks(file[i])
      BY <3>2, <3>3 DEF Lacks, Converted
    <3>5. Len(file) <= Len(Source)
      BY <3>2 DEF Converted, FileOK
    <3> QED
      BY <3>1, <3>2, <3>4, <3>5 DEF Converted
  <2>2. CASE origin = "burstgpt"
    <3>1. file = ConvertBurstGPT(log) /\ Source = BurstRows(log) /\ Ticks = MsPerSecond /\ mode # "hash_ids"
      BY <2>2 DEF SourceOK, Source, Ticks, CleanLog
    <3>2. /\ FileOK(file) /\ Len(file) <= Len(Source)
          /\ \A i \in DOMAIN file : /\ file[i].kind = "record"
                                    /\ file[i].at = MsPerSecond * (Source[i].ts - Source[1].ts)
          /\ InOrder(Source) /\ Source \in Seq(ToSet(log)) /\ \A i \in DOMAIN Source : Source[i].ts \in Int
      BY <1>1, <3>1, BurstFile
    <3>3. \A i \in DOMAIN file : ~Lacks(file[i])
      BY <3>1, <3>2 DEF Lacks
    <3> QED
      BY <3>1, <3>2, <3>3
  <2> QED
    BY <1>1, <2>1, <2>2
<1>3. Ticks \in Nat
  BY ConversionAssumption DEF Ticks
<1>4. PICK s, n : s = Source /\ n = Len(file)
  OBVIOUS
<1>5. /\ n \in Nat /\ DOMAIN file = 1..n /\ n <= Len(s) /\ DOMAIN s = 1..Len(s) /\ Len(s) \in Nat
  BY <1>2, <1>4 DEF FileOK
<1>6. \A i \in 1..n : i \in DOMAIN s /\ 1 \in DOMAIN s /\ (1 < i => s[1].ts <= s[i].ts)
  BY <1>2, <1>4, <1>5 DEF InOrder
<1>7. ASSUME NEW i \in 1..n
      PROVE  file[i].at \in Nat
  <2>1. PICK x \in Int, y \in Int : x = s[i].ts /\ y = s[1].ts
    BY <1>2, <1>4, <1>6
  <2>2. y <= x
    <3>1. CASE i = 1
      BY <2>1, <3>1
    <3>2. CASE 1 < i
      BY <1>6, <2>1, <3>2
    <3> QED
      BY <3>1, <3>2
  <2>3. x - y \in Nat
    BY <2>2
  <2>4. PICK d \in Nat : d = x - y
    BY <2>3
  <2>5. Ticks * d \in Nat
    BY <1>3
  <2> QED
    BY <1>2, <1>4, <1>5, <2>1, <2>4, <2>5
<1>8. ASSUME NEW i \in 1..n, NEW j \in 1..n, i < j
      PROVE  file[i].at <= file[j].at
  <2>1. s[i].ts <= s[j].ts
    BY <1>2, <1>4, <1>6, <1>8 DEF InOrder
  <2>2. PICK x \in Int, y \in Int, z \in Int : x = s[i].ts /\ y = s[1].ts /\ z = s[j].ts
    BY <1>2, <1>4, <1>6
  <2>3. PICK a \in Int, b \in Int : a = x - y /\ b = z - y
    OBVIOUS
  <2>4. a <= b
    BY <2>1, <2>2, <2>3
  <2>5. PICK e \in Nat : b = a + e
    <3>1. b - a \in Nat /\ b = a + (b - a)
      BY <2>4
    <3> QED
      BY <3>1
  <2>6. Ticks * b = Ticks * a + Ticks * e /\ Ticks * e \in Nat /\ Ticks * a \in Int
    BY <1>3, <2>5
  <2>7. Ticks * a <= Ticks * b
    BY <2>6
  <2> QED
    BY <1>2, <1>4, <1>5, <2>2, <2>3, <2>7
<1> QED
  BY <1>2, <1>5, <1>7, <1>8

(* In a file of records, the i-th record is the i-th line.                   *)
LEMMA AllCount ==
  ASSUME FileOK(file), \A i \in DOMAIN file : file[i].kind = "record", NEW k \in 0..Len(file)
  PROVE  RecordsTo(k) = k
<1>1. Len(file) \in Nat /\ DOMAIN file = 1..Len(file)
  BY DEF FileOK
<1>2. {j \in 1..k : file[j].kind = "record"} = 1..k
  BY <1>1
<1>3. Cardinality(1..k) = k
  <2>1. k \in Nat /\ 1 \in Int /\ k \in Int
    BY <1>1
  <2>2. Cardinality(1..k) = IF 1 > k THEN 0 ELSE k - 1 + 1
    BY <2>1, FS_Interval
  <2> QED
    BY <2>1, <2>2
<1> QED
  BY <1>2, <1>3 DEF RecordsTo

(* What can end its replay is a first hash id that is too large.             *)
CleanEnd == raised = "none" \/ (raised = "struct" /\ Overflows(file[pos]))

(* No record of it is in the past or lacks a field.                          *)
LEMMA CleanStep ==
  ASSUME ReplayInv, SourceOK, CleanLog, raised = "none", UNCHANGED setup,
         NEW q, NEW t, t \in Nat, ScheduleNext(q, t),
         IF made = <<>> THEN t = 0 ELSE t * Speedup = made[Len(made)].at
  PROVE  CleanEnd'
<1> USE DEF CleanEnd
<1>1. FileOK(file) /\ pos \in 0..Len(file) /\ DrawsTyped /\ mode # "poisson" /\ Traced
  BY DEF ReplayInv, Core, SourceOK, CleanLog
<1>2. Ended(q) \/ Failed(q) \/ \E m : Replayed(q, t, m)
  BY <1>1, ScheduleNextCases
<1>3. /\ \A i \in DOMAIN file : file[i].kind = "record" /\ ~Lacks(file[i]) /\ file[i].at \in Nat
      /\ \A i, j \in DOMAIN file : i < j => file[i].at <= file[j].at
  BY CleanFile
<1>4. Len(file) \in Nat /\ DOMAIN file = 1..Len(file) /\ pos \in Nat
  BY <1>1 DEF FileOK
<1>5. CASE Ended(q)
  BY <1>5 DEF Ended
<1>6. CASE Failed(q)
  <2>1. /\ pos' \in (pos + 1)..Len(file)
        /\ \/ Lacks(file[pos']) /\ raised' = "record"
           \/ Overflows(file[pos']) /\ raised' = "struct"
    BY <1>6 DEF Failed
  <2>2. pos' \in DOMAIN file
    BY <1>4, <2>1
  <2>3. Overflows(file[pos']) /\ raised' = "struct"
    BY <1>3, <2>1, <2>2
  <2>4. PICK l : l = file[pos']
    OBVIOUS
  <2>5. file'[pos'] = l /\ mode' = mode
    BY <2>4 DEF setup
  <2>6. Overflows(l)' <=> Overflows(l)
    BY <2>5 DEF Overflows, Lacks
  <2> QED
    BY <2>3, <2>4, <2>5, <2>6
<1>7. ASSUME NEW m, Replayed(q, t, m)
      PROVE  raised' = "none"
  <2>1. pos' \in (pos + 1)..Len(file)
    BY <1>7 DEF Replayed
  <2>2. PICK n, line, at : n = pos' /\ line = file[n] /\ at = SimTime(line)
    OBVIOUS
  <2>3. n \in DOMAIN file /\ n \in Nat /\ pos < n /\ IsRecord(line)
    BY <1>4, <1>7, <2>1, <2>2 DEF Replayed
  <2>4. line.at \in Nat /\ line.at \in Int /\ line.at % Speedup = 0 /\ Speedup \in Nat \ {0}
    BY <1>3, <2>2, <2>3, WorkloadAssumption DEF IsRecord, LineOK
  <2>5. at \in Int /\ at * Speedup = line.at
    BY <2>2, <2>4, ExactDivision DEF SimTime
  <2>6. t * Speedup <= line.at
    <3>1. CASE made = <<>>
      <4>1. t * Speedup = 0
        BY <2>4, <3>1
      <4> QED
        BY <2>4, <4>1
    <3>2. CASE made # <<>>
      <4>1. Len(made) \in DOMAIN made /\ Len(made) \in Nat
        BY <1>1, <3>2 DEF DrawsTyped
      <4>2. PICK k \in 1..pos : IsRead(made[Len(made)], Len(made), k)
        BY <1>1, <4>1 DEF Traced
      <4>3. k \in DOMAIN file /\ k < n
        BY <1>1, <1>4, <2>3
      <4>4. t * Speedup = file[k].at
        BY <3>2, <4>2 DEF IsRead
      <4> QED
        BY <1>3, <2>2, <2>3, <4>3, <4>4
    <3> QED
      BY <3>1, <3>2
  <2>7. t <= at
    <3>1. t \in Int /\ t * Speedup <= at * Speedup
      BY <2>5, <2>6
    <3> QED
      BY <2>4, <2>5, <3>1, FactorOrder
  <2>8. ~(at < t)
    BY <2>5, <2>7
  <2> QED
    BY <1>7, <2>2, <2>8 DEF Replayed
<1> QED
  BY <1>2, <1>5, <1>6, <1>7

(* A log in order of time is replayed to its end, or to the first row whose  *)
(* first hash id struct refuses, and as far apart as its rows.               *)
THEOREM ConvertedReplays == Spec => []ConversionReplays
<1> DEFINE Clean == SourceOK /\ (CleanLog => CleanEnd)
<1>1. Init => Clean
  BY DEF Init, SourceOK, CleanEnd
<1>2. ReplayInv /\ Clean /\ [Next]_vars => Clean'
  <2> SUFFICES ASSUME ReplayInv, SourceOK, CleanLog => CleanEnd, [Next]_vars
               PROVE  Clean'
    OBVIOUS
  <2>1. UNCHANGED setup
    BY StepMakes
  <2>2. SourceOK' /\ (CleanLog' <=> CleanLog)
    BY <2>1, SameFile DEF SourceOK, CleanLog, InOrder
  <2> SUFFICES ASSUME CleanLog
               PROVE  CleanEnd'
    BY <2>2
  <2>3. CleanEnd /\ mode # "poisson"
    BY DEF SourceOK, CleanLog
  <2>4. CASE AttachTrace
    <3>1. ~attached /\ ScheduleNext(events, now)
      BY <2>4 DEF AttachTrace
    <3>2. made = <<>> /\ now = 0 /\ raised = "none"
      BY <3>1 DEF ReplayInv, Chain
    <3> QED
      BY <2>1, <2>3, <3>1, <3>2, CleanStep
  <2>5. CASE ArriveTrace
    <3>1. PopArrival /\ ScheduleNext(AfterOnArrive, now') /\ raised = "none"
      BY <2>5 DEF ArriveTrace, PopArrival
    <3>2. now' \in Nat
      BY <3>1, ReadyAfterArrival DEF ReplayInv, Core
    <3>3. made # <<>> => now' * Speedup = made[Len(made)].at
      BY <2>3, <3>1, LastArrival
    <3>4. made # <<>>
      <4>1. HasArrival
        BY <3>1, ReadyAfterArrival DEF ReplayInv, Core, HasArrival, PopArrival
      <4>2. Len(delivered) \in Nat
        BY DEF ReplayInv, Core
      <4>3. Len(made) = Len(delivered) + 1
        BY <3>1, <4>1, <4>2 DEF ReplayInv, Numbered
      <4>4. made = <<>> => Len(made) = 0
        OBVIOUS
      <4> QED
        BY <4>2, <4>3, <4>4
    <3> QED
      BY <2>1, <2>3, <3>1, <3>2, <3>3, <3>4, CleanStep
  <2>6. CASE AttachPoisson \/ ArrivePoisson
    BY <2>3, <2>6 DEF AttachPoisson, ArrivePoisson
  <2>7. CASE WorkDone \/ UNCHANGED vars
    <3>1. UNCHANGED <<mode, file, pos, raised>>
      BY <2>7 DEF WorkDone, vars, setup
    <3> QED
      BY <2>3, <3>1 DEF CleanEnd, Overflows, Lacks
  <2> QED
    BY <2>4, <2>5, <2>6, <2>7 DEF Next
<1>3. ReplayInv /\ Clean => ConversionReplays
  <2> SUFFICES ASSUME ReplayInv, Clean, CleanLog
               PROVE  /\ CleanEnd
                      /\ \A i \in DOMAIN delivered :
                           delivered[i].time * Speedup = Ticks * (Source[i].ts - Source[1].ts)
    BY DEF ConversionReplays, CleanLog, CleanEnd, InOrder
  <2>1. /\ \A i \in DOMAIN file : file[i].kind = "record"
                                  /\ file[i].at = Ticks * (Source[i].ts - Source[1].ts)
    BY CleanFile
  <2>2. Traced /\ FileOK(file) /\ pos \in 0..Len(file) /\ DrawsTyped /\ mode # "poisson" /\ Numbered
    BY DEF ReplayInv, Core, SourceOK, CleanLog
  <2>3. ASSUME NEW i \in DOMAIN delivered
        PROVE  delivered[i].time * Speedup = Ticks * (Source[i].ts - Source[1].ts)
    <3>1. i \in DOMAIN made
      <4>1. Len(delivered) \in Nat /\ DOMAIN delivered = 1..Len(delivered) /\ Len(made) \in Nat /\ DOMAIN made = 1..Len(made)
        BY DEF ReplayInv, Core, DrawsTyped
      <4>2. Len(delivered) <= Len(made)
        <5>1. PICK x, y : x = (IF HasArrival THEN 1 ELSE 0) /\ y = (IF raised = "past" THEN 1 ELSE 0)
          OBVIOUS
        <5>2. x \in Nat /\ y \in Nat
          BY <5>1
        <5>3. Len(made) = Len(delivered) + x + y
          BY <2>2, <5>1 DEF Numbered
        <5> QED
          BY <4>1, <5>2, <5>3
      <4> QED
        BY <4>1, <4>2
    <3>2. PICK k \in 1..pos : IsRead(made[i], i, k)
      BY <2>2, <3>1 DEF Traced
    <3>3. k \in 0..Len(file) /\ k \in DOMAIN file
      BY <2>2 DEF FileOK
    <3>4. RecordsTo(k) = k
      BY <2>1, <2>2, <3>3, AllCount
    <3>5. k = i /\ made[i].at = file[i].at
      BY <3>2, <3>4 DEF IsRead
    <3>6. delivered[i].time * Speedup = made[i].at
      BY <2>2 DEF Traced
    <3> QED
      BY <2>1, <3>3, <3>5, <3>6
  <2> QED
    BY <2>3
<1> HIDE DEF Clean
<1> QED
  BY <1>1, <1>2, <1>3, ReplayAgrees, PTL DEF Spec

-----------------------------------------------------------------------------
(* What two prompts share.                                                   *)

(* The greatest of a set of naturals up to n.                                *)
LEMMA Greatest ==
  ASSUME NEW n \in Nat, NEW S \in SUBSET (0..n), S # {}
  PROVE  Max(S) \in S /\ \A y \in S : y <= Max(S)
<1> DEFINE T == {x \in 0..n : n - x \in S}
<1>1. T \in SUBSET Nat
  OBVIOUS
<1>2. T # {}
  <2>1. PICK s \in S : TRUE
    OBVIOUS
  <2>2. n - s \in 0..n /\ n - (n - s) = s
    OBVIOUS
  <2> QED
    BY <2>1, <2>2
<1>3. PICK x \in T : \A y \in T : x <= y
  <2> HIDE DEF T
  <2> QED
    BY <1>1, <1>2, LeastNatural
<1>4. n - x \in S /\ x \in 0..n
  BY <1>3
<1>5. ASSUME NEW y \in S
      PROVE  n - x >= y
  <2>1. n - y \in 0..n /\ n - (n - y) = y
    OBVIOUS
  <2>2. n - y \in T
    BY <2>1
  <2>3. x <= n - y
    BY <1>3, <2>2
  <2> QED
    BY <1>4, <2>3
<1>6. \E z \in S : \A y \in S : z >= y
  BY <1>4, <1>5
<1>7. Max(S) \in S /\ \A y \in S : Max(S) >= y
  BY <1>6 DEF Max
<1>8. PICK z : z = Max(S)
  OBVIOUS
<1>9. z \in S /\ \A y \in S : z >= y
  BY <1>7, <1>8
<1>10. \A y \in S : y \in Nat
  OBVIOUS
<1>11. \A y \in S : y <= z
  BY <1>9, <1>10
<1> QED
  BY <1>8, <1>9, <1>11

(* What CommonBlocks finds: the most whole blocks in which two lists agree.  *)
LEMMA CommonFacts ==
  ASSUME NEW s \in Seq(Int), NEW t \in Seq(Int), NEW c, c = CommonBlocks(s, t)
  PROVE  /\ c \in Nat /\ c * BlockSize <= Len(s) /\ c * BlockSize <= Len(t)
         /\ \A i \in 1..(c * BlockSize) : s[i] = t[i]
         /\ \A x \in Nat :
              /\ x * BlockSize <= Len(s) /\ x * BlockSize <= Len(t)
              /\ \A i \in 1..(x * BlockSize) : s[i] = t[i]
              => x <= c
<1>1. PICK b, m, q : b = BlockSize /\ m = Min({Len(s), Len(t)}) /\ q = m \div b
  OBVIOUS
<1>2. b \in Nat \ {0} /\ Len(s) \in Nat /\ Len(t) \in Nat
  BY <1>1, SynthesisAssumption
<1>3. m \in Nat /\ m <= Len(s) /\ m <= Len(t) /\ (m = Len(s) \/ m = Len(t))
  <2>1. Len(s) \in Int /\ Len(t) \in Int
    BY <1>2
  <2>2. m = IF Len(s) <= Len(t) THEN Len(s) ELSE Len(t)
    BY <1>1, <2>1, OfTwo
  <2> QED
    BY <1>2, <2>2
<1>4. q \in Nat /\ q * b <= m /\ m < q * b + b
  BY <1>1, <1>2, <1>3, DivisionFacts
<1> DEFINE S == {x \in 0..q : \A i \in 1..(x * b) : s[i] = t[i]}
<1>5. c = Max(S)
  BY <1>1 DEF CommonBlocks
<1>6. S \in SUBSET (0..q) /\ S # {}
  <2>1. 0 \in 0..q /\ 1..(0 * b) = {}
    BY <1>2, <1>4
  <2>2. 0 \in S
    BY <2>1
  <2> QED
    BY <2>2
<1>7. c \in S /\ \A y \in S : y <= c
  <2> HIDE DEF S
  <2> QED
    BY <1>4, <1>5, <1>6, Greatest
<1>8. c \in Nat /\ c <= q /\ \A i \in 1..(c * b) : s[i] = t[i]
  BY <1>4, <1>7
<1>9. c * b <= Len(s) /\ c * b <= Len(t)
  <2>1. c * b <= q * b
    BY <1>2, <1>4, <1>8, FactorOrder
  <2>2. PICK y, z : y = c * b /\ z = q * b
    OBVIOUS
  <2>3. y \in Nat /\ z \in Nat
    BY <1>2, <1>4, <1>8, <2>2
  <2>4. y <= z /\ z <= m
    BY <1>4, <2>1, <2>2
  <2>5. PICK u, v : u = Len(s) /\ v = Len(t)
    OBVIOUS
  <2>6. y <= u /\ y <= v
    BY <1>2, <1>3, <2>3, <2>4, <2>5
  <2> QED
    BY <2>2, <2>5, <2>6
<1>10. ASSUME NEW x \in Nat, x * b <= Len(s), x * b <= Len(t), \A i \in 1..(x * b) : s[i] = t[i]
       PROVE  x <= c
  <2>1. PICK y, z : y = x * b /\ z = (q + 1) * b
    OBVIOUS
  <2>2. z = q * b + b
    BY ONLY <1>2, <1>4, <2>1
  <2>3. y \in Nat /\ z \in Nat
    BY <1>2, <1>4, <2>1
  <2>4. y <= m
    BY <1>3, <1>10, <2>1
  <2>5. y < z
    <3>1. PICK w : w = q * b
      OBVIOUS
    <3>2. w \in Nat /\ m < w + b /\ z = w + b
      BY <1>2, <1>4, <2>2, <3>1
    <3> QED
      BY ONLY <1>2, <1>3, <2>3, <2>4, <3>2
  <2>6. x < q + 1
    <3>1. x \in Int /\ q + 1 \in Int
      BY <1>4
    <3> QED
      BY <1>2, <2>1, <2>5, <3>1, FactorOrder
  <2>7. x \in S
    BY <1>4, <1>10, <2>6
  <2> HIDE DEF S
  <2> QED
    BY <1>7, <2>7
<1> HIDE DEF S
<1> QED
  BY <1>1, <1>8, <1>9, <1>10

(* Two prompts that agree for n blocks.                                      *)
LEMMA CommonAtLeast ==
  ASSUME NEW s \in Seq(Int), NEW t \in Seq(Int), NEW n \in Nat, NEW p, p = n * BlockSize,
         p <= Len(s), p <= Len(t), \A i \in 1..p : s[i] = t[i]
  PROVE  n <= CommonBlocks(s, t)
<1>1. PICK c : c = CommonBlocks(s, t)
  OBVIOUS
<1>2. \A x \in Nat :
        /\ x * BlockSize <= Len(s) /\ x * BlockSize <= Len(t)
        /\ \A i \in 1..(x * BlockSize) : s[i] = t[i]
        => x <= c
  BY <1>1, CommonFacts
<1> QED
  BY <1>1, <1>2

(* Two prompts that differ in the token after n blocks, or have none there.  *)
LEMMA CommonAtMost ==
  ASSUME NEW s \in Seq(Int), NEW t \in Seq(Int), NEW n \in Nat, NEW p, p = n * BlockSize,
         p < Len(s) /\ p < Len(t) => s[p + 1] # t[p + 1]
  PROVE  CommonBlocks(s, t) <= n
<1>1. PICK c, b : c = CommonBlocks(s, t) /\ b = BlockSize
  OBVIOUS
<1>2. b \in Nat \ {0} /\ Len(s) \in Nat /\ Len(t) \in Nat /\ p = n * b /\ p \in Nat
  BY <1>1, SynthesisAssumption
<1>3. /\ c \in Nat /\ c * b <= Len(s) /\ c * b <= Len(t)
      /\ \A i \in 1..(c * b) : s[i] = t[i]
  BY <1>1, CommonFacts
<1>4. ASSUME n < c
      PROVE  FALSE
  <2>1. n + 1 \in Int /\ c \in Int /\ n + 1 <= c
    BY <1>3, <1>4
  <2>2. (n + 1) * b <= c * b
    BY <1>2, <2>1, FactorOrder
  <2>3. (n + 1) * b = p + b
    <3>1. (n + 1) * b = n * b + b
      BY ONLY n \in Nat, <1>2
    <3> QED
      BY <1>2, <3>1
  <2>4. PICK y, u, v : y = c * b /\ u = Len(s) /\ v = Len(t)
    OBVIOUS
  <2>5. y \in Nat /\ u \in Nat /\ v \in Nat /\ p + b <= y /\ y <= u /\ y <= v
    <3>1. c * b \in Nat
      <4>1. c \in Nat /\ b \in Nat
        BY <1>2, <1>3
      <4> QED
        BY ONLY <4>1
    <3>2. p + b <= y
      BY ONLY <2>2, <2>3, <2>4
    <3> QED
      BY ONLY <1>2, <1>3, <2>4, <3>1, <3>2
  <2>6. p + 1 \in 1..y /\ p < u /\ p < v
    BY ONLY <1>2, <2>5
  <2>7. s[p + 1] = t[p + 1]
    BY <1>3, <2>4, <2>6
  <2> QED
    BY <2>4, <2>6, <2>7
<1> QED
  BY <1>1, <1>3, <1>4

(* Two prompts that agree for n blocks and differ in the token after them.   *)
LEMMA CommonIs ==
  ASSUME NEW s \in Seq(Int), NEW t \in Seq(Int), NEW n \in Nat, NEW p, p = n * BlockSize,
         p <= Len(s), p <= Len(t), \A i \in 1..p : s[i] = t[i],
         p < Len(s) /\ p < Len(t) => s[p + 1] # t[p + 1]
  PROVE  CommonBlocks(s, t) = n
<1>1. PICK c : c = CommonBlocks(s, t)
  OBVIOUS
<1>2. c \in Nat
  BY <1>1, CommonFacts
<1>3. n <= c
  BY <1>1, CommonAtLeast
<1>4. c <= n
  BY <1>1, CommonAtMost
<1> QED
  BY <1>1, <1>2, <1>3, <1>4

(* The hash ids that two records have in common.                             *)
LEMMA CommonHashFacts ==
  ASSUME NEW g \in Seq(Nat), NEW h \in Seq(Nat), NEW c, c = CommonHashes(g, h)
  PROVE  /\ c \in Nat /\ c <= Len(g) /\ c <= Len(h)
         /\ \A i \in 1..c : g[i] = h[i]
         /\ c < Len(g) /\ c < Len(h) => g[c + 1] # h[c + 1]
<1>1. PICK m : m = Min({Len(g), Len(h)})
  OBVIOUS
<1>2. m \in Nat /\ m <= Len(g) /\ m <= Len(h) /\ (m = Len(g) \/ m = Len(h))
  <2>1. Len(g) \in Int /\ Len(h) \in Int
    OBVIOUS
  <2>2. m = IF Len(g) <= Len(h) THEN Len(g) ELSE Len(h)
    BY <1>1, <2>1, OfTwo
  <2> QED
    BY <2>2
<1> DEFINE S == {x \in 0..m : \A i \in 1..x : g[i] = h[i]}
<1>3. c = Max(S)
  BY <1>1 DEF CommonHashes
<1>4. 0 \in S
  BY <1>2
<1>5. c \in S /\ \A y \in S : y <= c
  <2>1. S \in SUBSET (0..m) /\ S # {}
    BY <1>4
  <2> HIDE DEF S
  <2> QED
    BY <1>2, <1>3, <2>1, Greatest
<1>6. c \in 0..m /\ \A i \in 1..c : g[i] = h[i]
  BY <1>5
<1>7. ASSUME c < Len(g), c < Len(h), g[c + 1] = h[c + 1]
      PROVE  FALSE
  <2>1. c + 1 \in 0..m
    BY <1>2, <1>6, <1>7
  <2>2. \A i \in 1..c + 1 : i \in 1..c \/ i = c + 1
    BY <1>6
  <2>3. c + 1 \in S
    BY <1>6, <1>7, <2>1, <2>2
  <2>4. c + 1 <= c
    BY <1>5, <2>3
  <2> QED
    BY <1>6, <2>4
<1> QED
  BY <1>2, <1>6, <1>7

(* No two buckets have a token in common at the same place.                  *)
BucketsApart ==
  \A b \in Buckets : \A k \in 1..Len(buckets[b]) :
    /\ buckets[b][k] < drawn.bucket
    /\ \A c \in Buckets : c # b /\ k <= Len(buckets[c]) => buckets[b][k] # buckets[c][k]

(* A prompt is its bucket's or its hash ids' tokens, then drawn ones.        *)
Shares(m) ==
  /\ m.shared \in 0..Len(m.tokens) /\ m.shared % BlockSize = 0
  /\ Prefixed(m, buckets)
  /\ \A k \in 1..Len(m.tokens) : IF k <= m.shared THEN m.tokens[k] >= 0
                                 ELSE DrawnToken(oneSeed, m.tokens[k], 0, drawn.suffix)

(* Two prompts whose own tokens differ.                                      *)
Unlike(l, m) ==
  \A k \in 1..Len(l.tokens) :
    k <= Len(m.tokens) /\ l.shared < k /\ m.shared < k => l.tokens[k] # m.tokens[k]

SharingInv ==
  /\ BucketsApart
  /\ \A i \in DOMAIN made : Shares(made[i])
  /\ \A i, j \in DOMAIN made : i < j => Unlike(made[i], made[j])

(* Buckets stay apart as one of them grows.                                  *)
LEMMA GrownApart ==
  ASSUME DrawsTyped, BucketsApart, Grown
  PROVE  BucketsApart'
<1>1. PICK d, e : d = drawn.bucket /\ e = drawn'.bucket
  OBVIOUS
<1>2. d \in Nat /\ e \in Nat /\ d <= e
  BY <1>1 DEF DrawsTyped, Grown
<1>3. PICK c0 \in Buckets : \A b \in Buckets \ {c0} : buckets'[b] = buckets[b]
  BY DEF Grown
<1>4. \A b \in Buckets :
        /\ buckets[b] \in Seq(Nat) /\ buckets'[b] \in Seq(Nat)
        /\ Len(buckets[b]) \in Nat /\ Len(buckets'[b]) \in Nat
        /\ \A k \in 1..Len(buckets'[b]) : buckets'[b][k] \in Nat
  <2> SUFFICES ASSUME NEW b \in Buckets
               PROVE  /\ buckets[b] \in Seq(Nat) /\ buckets'[b] \in Seq(Nat)
                      /\ Len(buckets[b]) \in Nat /\ Len(buckets'[b]) \in Nat
                      /\ \A k \in 1..Len(buckets'[b]) : buckets'[b][k] \in Nat
    OBVIOUS
  <2>1. PICK s, t : s = buckets[b] /\ t = buckets'[b]
    OBVIOUS
  <2>2. s \in Seq(Nat) /\ t \in Seq(Nat)
    BY <2>1 DEF DrawsTyped, Grown
  <2>3. Len(s) \in Nat /\ Len(t) \in Nat /\ \A k \in 1..Len(t) : t[k] \in Nat
    BY ONLY <2>2
  <2> QED
    BY <2>1, <2>2, <2>3
<1>5. \A b \in Buckets :
        /\ \A k \in 1..Len(buckets[b]) : buckets'[b][k] = buckets[b][k]
        /\ \A k \in 1..Len(buckets'[b]) : k > Len(buckets[b]) => d <= buckets'[b][k] /\ buckets'[b][k] < e
  BY <1>1 DEF Grown
<1>6. \A b \in Buckets : \A k \in 1..Len(buckets[b]) :
        /\ buckets[b][k] < d
        /\ \A c \in Buckets : c # b /\ k <= Len(buckets[c]) => buckets[b][k] # buckets[c][k]
  BY <1>1 DEF BucketsApart
<1>7. ASSUME NEW b \in Buckets, NEW k \in 1..Len(buckets'[b]), NEW c \in Buckets, c # b,
             k <= Len(buckets'[c]), k > Len(buckets[b])
      PROVE  buckets'[b][k] # buckets'[c][k]
  <2>1. b = c0
    <3>1. b # c0 => buckets'[b] = buckets[b]
      BY <1>3
    <3> QED
      BY <1>4, <1>7, <3>1
  <2>2. buckets'[c] = buckets[c]
    BY <1>3, <1>7, <2>1
  <2>3. k \in 1..Len(buckets[c])
    BY <1>4, <1>7, <2>2
  <2>4. buckets'[c][k] < d /\ buckets'[c][k] \in Nat
    BY <1>4, <1>6, <2>2, <2>3
  <2>5. d <= buckets'[b][k] /\ buckets'[b][k] \in Nat
    BY <1>4, <1>5, <1>7
  <2> QED
    BY <1>2, <2>4, <2>5
<1>8. ASSUME NEW b \in Buckets, NEW k \in 1..Len(buckets'[b])
      PROVE  buckets'[b][k] < e
  <2>1. CASE k > Len(buckets[b])
    BY <1>5, <2>1
  <2>2. CASE ~(k > Len(buckets[b]))
    <3>1. k \in 1..Len(buckets[b])
      BY <1>4, <2>2
    <3>2. buckets'[b][k] < d /\ buckets'[b][k] \in Nat
      BY <1>4, <1>5, <1>6, <3>1
    <3> QED
      BY <1>2, <3>2
  <2> QED
    BY <2>1, <2>2
<1>9. ASSUME NEW b \in Buckets, NEW k \in 1..Len(buckets'[b]), NEW c \in Buckets, c # b,
             k <= Len(buckets'[c])
      PROVE  buckets'[b][k] # buckets'[c][k]
  <2>1. CASE k > Len(buckets[b])
    BY <1>7, <1>9, <2>1
  <2>2. CASE k > Len(buckets[c])
    <3>1. k \in 1..Len(buckets'[c])
      BY <1>4, <1>9
    <3> QED
      BY <1>7, <1>9, <2>2, <3>1
  <2>3. CASE ~(k > Len(buckets[b])) /\ ~(k > Len(buckets[c]))
    <3>1. k \in 1..Len(buckets[b]) /\ k \in 1..Len(buckets[c]) /\ k <= Len(buckets[c])
      BY <1>4, <2>3
    <3> QED
      BY <1>5, <1>6, <1>9, <3>1
  <2> QED
    BY <2>1, <2>2, <2>3
<1> QED
  BY <1>1, <1>8, <1>9 DEF BucketsApart

(* A prompt made before keeps its bucket's tokens.                           *)
LEMMA SharesOn ==
  ASSUME DrawsTyped, Grown, UNCHANGED <<mode, oneSeed>>, drawn.suffix <= drawn'.suffix,
         NEW CONSTANT m \in RequestSet, Shares(m)
  PROVE  Shares(m)'
<1>1. drawn.suffix \in Nat /\ drawn'.suffix \in Nat
  BY DEF DrawsTyped, Grown
<1>2. m.tokens \in Seq(Int) /\ m.bucket \in Buckets \cup {NoBucket} /\ m.shared \in Nat
  BY DEF RequestSet
<1>3. \A k \in 1..Len(m.tokens) : m.tokens[k] \in Int
  BY <1>2
<1>4. (\A k \in 1..Len(m.tokens) : IF k <= m.shared THEN m.tokens[k] >= 0
                                   ELSE DrawnToken(oneSeed, m.tokens[k], 0, drawn.suffix))'
  <2>1. PICK same, d, e : same = oneSeed /\ d = drawn.suffix /\ e = drawn'.suffix
    OBVIOUS
  <2>2. \A k \in 1..Len(m.tokens) : IF k <= m.shared THEN m.tokens[k] >= 0
                                    ELSE DrawnToken(same, m.tokens[k], 0, d)
    BY <2>1 DEF Shares
  <2>3. d \in Nat /\ e \in Nat /\ d <= e
    BY <1>1, <2>1
  <2>4. ASSUME NEW v \in Int, DrawnToken(same, v, 0, d)
        PROVE  DrawnToken(same, v, 0, e)
    BY <2>3, <2>4 DEF DrawnToken
  <2>5. \A k \in 1..Len(m.tokens) : IF k <= m.shared THEN m.tokens[k] >= 0
                                    ELSE DrawnToken(same, m.tokens[k], 0, e)
    BY <1>3, <2>2, <2>4
  <2>6. oneSeed' = same
    BY <2>1
  <2> QED
    BY <2>1, <2>5, <2>6
<1>5. Prefixed(m, buckets)'
  <2>1. CASE m.bucket = NoBucket
    BY <2>1 DEF Shares, Prefixed
  <2>2. CASE m.bucket # NoBucket
    <3>1. PICK b \in Buckets : b = m.bucket
      BY <1>2, <2>2
    <3>2. m.shared <= Len(buckets[b]) /\ \A k \in 1..m.shared : m.tokens[k] = buckets[b][k]
      BY <2>2, <3>1 DEF Shares, Prefixed
    <3>3. /\ Len(buckets[b]) <= Len(buckets'[b]) /\ \A k \in 1..Len(buckets[b]) : buckets'[b][k] = buckets[b][k]
          /\ Len(buckets[b]) \in Nat /\ Len(buckets'[b]) \in Nat
      BY DEF Grown, DrawsTyped
    <3>4. m.shared <= Len(buckets'[b]) /\ \A k \in 1..m.shared : m.tokens[k] = buckets'[b][k]
      <4>1. m.shared <= Len(buckets'[b])
        BY <1>2, <3>2, <3>3
      <4>2. \A k \in 1..m.shared : k \in 1..Len(buckets[b])
        BY <1>2, <3>2, <3>3
      <4> QED
        BY <3>2, <3>3, <4>1, <4>2
    <3> QED
      BY <2>2, <3>1, <3>4 DEF Prefixed
  <2> QED
    BY <2>1, <2>2
<1> QED
  BY <1>4, <1>5 DEF Shares

(* A request that comes next.                                                *)
LEMMA SharingNext ==
  ASSUME ReplayInv, SharingInv, UNCHANGED setup, NEW CONSTANT m, Appended(m)
  PROVE  SharingInv'
<1>1. DrawsTyped /\ made \in Seq(RequestSet)
  BY DEF ReplayInv, Core, DrawsTyped
<1>2. PICK at, len : Added(m, at, len)
  BY DEF Appended
<1>3. /\ m \in RequestSet /\ made' = Append(made, m) /\ len \in Nat
      /\ IsPrompt(oneSeed, m.tokens, m.shared, drawn.suffix, len) /\ m.shared % BlockSize = 0
      /\ drawn'.suffix = drawn.suffix + len - m.shared
      /\ Prefixed(m, buckets') /\ Grown /\ UNCHANGED <<mode, oneSeed>>
  BY <1>2, SameFile DEF Added
<1>4. PICK same, d, e, p, t :
        same = oneSeed /\ d = drawn.suffix /\ e = drawn'.suffix /\ p = m.shared /\ t = m.tokens
  OBVIOUS
<1>5. /\ d \in Nat /\ t \in Seq(Int) /\ Len(t) = len /\ p \in 0..len /\ e = d + len - p
      /\ \A k \in 1..len : IF k <= p THEN t[k] >= 0 ELSE DrawnToken(same, t[k], d, e)
  BY <1>1, <1>3, <1>4 DEF IsPrompt, DrawsTyped
<1>6. \A k \in 1..len : t[k] \in Int
  BY <1>5
<1>7. d <= e /\ e \in Nat
  BY <1>3, <1>5
<1>8. Shares(m)'
  <2>1. ASSUME NEW v \in Int, DrawnToken(same, v, d, e)
        PROVE  DrawnToken(same, v, 0, e)
    BY <1>5, <1>7, <2>1 DEF DrawnToken
  <2>2. \A k \in 1..len : IF k <= p THEN t[k] >= 0 ELSE DrawnToken(same, t[k], 0, e)
    BY <1>5, <1>6, <2>1
  <2>3. Prefixed(m, buckets)'
    BY <1>3 DEF Prefixed
  <2>4. oneSeed' = same
    BY <1>3, <1>4
  <2> QED
    BY <1>3, <1>4, <1>5, <2>2, <2>3, <2>4 DEF Shares
<1>9. BucketsApart'
  BY <1>1, <1>3, GrownApart DEF SharingInv
<1>10. PICK n \in Nat : n = Len(made)
  BY <1>1
<1>11. /\ DOMAIN made' = 1..n + 1 /\ DOMAIN made = 1..n
       /\ made'[n + 1] = m /\ \A i \in 1..n : made'[i] = made[i] /\ made[i] \in RequestSet
  BY <1>1, <1>3, <1>10
<1>12. ASSUME NEW i \in 1..n
       PROVE  Shares(made[i])' /\ Unlike(made[i], m)
  <2>1. PICK l \in RequestSet : l = made[i] /\ l = made'[i]
    BY <1>11
  <2>2. Shares(l)
    BY <1>11, <2>1 DEF SharingInv
  <2>3. Shares(l)'
    BY <1>1, <1>3, <1>4, <1>7, <2>2, SharesOn
  <2>4. Shares(made[i])'
    BY <2>1, <2>3
  <2>5. Unlike(l, m)
    <3> SUFFICES ASSUME NEW k \in 1..Len(l.tokens), k <= Len(m.tokens), l.shared < k, m.shared < k
                 PROVE  l.tokens[k] # m.tokens[k]
      BY DEF Unlike
    <3>1. l.tokens \in Seq(Int) /\ l.shared \in Nat
      BY DEF RequestSet
    <3>2. l.tokens[k] \in Int /\ k \in Nat /\ Len(l.tokens) \in Nat
      BY <3>1
    <3>3. DrawnToken(same, l.tokens[k], 0, d)
      BY <1>4, <2>2, <3>1, <3>2 DEF Shares
    <3>4. k \in 1..len /\ ~(k <= p)
      BY <1>3, <1>4, <1>5, <3>2
    <3>5. DrawnToken(same, t[k], d, e) /\ t[k] \in Int
      BY <1>5, <1>6, <3>4
    <3>6. ASSUME NEW v \in Int, NEW w \in Int, DrawnToken(same, v, 0, d), DrawnToken(same, w, d, e)
          PROVE  v # w
      BY <1>5, <1>7, <3>6 DEF DrawnToken
    <3> QED
      BY <1>4, <3>2, <3>3, <3>5, <3>6
  <2> QED
    BY <2>1, <2>4, <2>5
<1>13. ASSUME NEW i \in DOMAIN made'
       PROVE  Shares(made[i])'
  <2>1. CASE i \in 1..n
    BY <1>12, <2>1
  <2>2. CASE i = n + 1
    BY <1>8, <1>11, <2>2
  <2> QED
    BY <1>11, <2>1, <2>2
<1>14. ASSUME NEW i \in DOMAIN made', NEW j \in DOMAIN made', i < j
       PROVE  Unlike(made'[i], made'[j])
  <2>1. i \in 1..n /\ made'[i] = made[i]
    BY <1>11, <1>14
  <2>2. CASE j \in 1..n
    BY <1>11, <1>14, <2>1, <2>2 DEF SharingInv
  <2>3. CASE j = n + 1
    BY <1>11, <1>12, <2>1, <2>3
  <2> QED
    BY <1>11, <2>2, <2>3
<1>15. (\A i, j \in DOMAIN made : i < j => Unlike(made[i], made[j]))'
  BY <1>14 DEF Unlike
<1>16. (\A i \in DOMAIN made : Shares(made[i]))'
  BY <1>13
<1> QED
  BY <1>9, <1>15, <1>16 DEF SharingInv

(* The bucket prefixes drawn at the start have no token in common.           *)
LEMMA InitSharing == Init => SharingInv
<1> SUFFICES ASSUME Init PROVE SharingInv
  OBVIOUS
<1>1. made = <<>> /\ buckets = BucketPrefixes(InitialLen) /\ drawn.bucket = NumBuckets * InitialLen
  BY DEF Init
<1>2. PICK n : n = InitialLen
  OBVIOUS
<1>3. n \in Nat
  <2>1. mode \in {"poisson", "none", "hash_ids", "synthesis"}
    BY DEF Init
  <2> QED
    BY <1>2, <2>1, InitialLength
<1>4. \A b \in Buckets : Len(buckets[b]) = n /\ \A k \in 1..n : buckets[b][k] = b * n + k - 1
  BY <1>1, <1>2, <1>3, InitialBuckets
<1>5. NumBuckets \in Nat \ {0} /\ Buckets = 0..NumBuckets - 1 /\ drawn.bucket = NumBuckets * n
  BY <1>1, <1>2, SynthesisAssumption DEF Buckets
<1>6. ASSUME NEW b \in Nat, NEW c \in Nat, b < c, NEW k \in 1..n
      PROVE  b * n + k - 1 < c * n
  <2>1. n \in Nat \ {0} /\ b + 1 <= c
    BY <1>3, <1>6
  <2>2. b + 1 \in Int /\ c \in Int
    OBVIOUS
  <2>3. (b + 1) * n <= c * n
    BY <2>1, <2>2, FactorOrder
  <2>4. PICK x, y : x = b * n /\ y = c * n
    OBVIOUS
  <2>5. x \in Nat /\ y \in Nat /\ (b + 1) * n = x + n
    BY <1>3, <2>4
  <2>6. x + n <= y
    BY <2>3, <2>4, <2>5
  <2>7. x + k - 1 < y
    BY <1>3, <2>5, <2>6
  <2> QED
    BY <2>4, <2>7
<1>7. ASSUME NEW b \in Buckets, NEW k \in 1..n
      PROVE  buckets[b][k] < drawn.bucket
  <2>1. b \in Nat /\ NumBuckets \in Nat /\ b < NumBuckets
    BY <1>5
  <2>2. b * n + k - 1 < NumBuckets * n
    BY <1>6, <2>1
  <2> QED
    BY <1>4, <1>5, <2>2
<1>8. ASSUME NEW b \in Nat, NEW c \in Nat, b < c, NEW k \in 1..n
      PROVE  b * n + k - 1 # c * n + k - 1
  <2>1. PICK x, y : x = b * n /\ y = c * n
    OBVIOUS
  <2>2. x \in Nat /\ y \in Nat /\ k \in Nat /\ 1 <= k
    BY <1>3, <2>1
  <2>3. x + k - 1 < y
    BY <1>6, <1>8, <2>1
  <2>4. x + k - 1 # y + k - 1
    BY ONLY <2>2, <2>3
  <2> QED
    BY <2>1, <2>4
<1>9. ASSUME NEW b \in Buckets, NEW c \in Buckets, b # c, NEW k \in 1..n
      PROVE  buckets[b][k] # buckets[c][k]
  <2>1. b \in Nat /\ c \in Nat
    BY <1>5
  <2>2. b < c \/ c < b
    BY <1>9, <2>1
  <2>3. b * n + k - 1 # c * n + k - 1
    <3>1. CASE b < c
      BY <1>8, <2>1, <3>1
    <3>2. CASE c < b
      <4>1. c * n + k - 1 # b * n + k - 1
        BY <1>8, <2>1, <3>2
      <4> QED
        BY <4>1
    <3> QED
      BY <2>2, <3>1, <3>2
  <2>4. buckets[b][k] = b * n + k - 1 /\ buckets[c][k] = c * n + k - 1
    BY <1>4
  <2> QED
    BY <2>3, <2>4
<1>10. BucketsApart
  BY <1>4, <1>7, <1>9 DEF BucketsApart
<1> QED
  BY <1>1, <1>10 DEF SharingInv

(* The shorter of the shared parts, in whole blocks.                         *)
LEMMA SharedBlocks ==
  ASSUME NEW p \in Nat, NEW q \in Nat, p % BlockSize = 0, q % BlockSize = 0,
         NEW n, n = Min({p, q}) \div BlockSize
  PROVE  n \in Nat /\ n * BlockSize <= p /\ n * BlockSize <= q
         /\ (n * BlockSize = p \/ n * BlockSize = q)
         /\ n <= p \div BlockSize /\ n <= q \div BlockSize
<1>1. PICK b, m : b = BlockSize /\ m = Min({p, q})
  OBVIOUS
<1>2. b \in Nat \ {0}
  BY <1>1, SynthesisAssumption
<1>3. m = IF p <= q THEN p ELSE q
  <2>1. p \in Int /\ q \in Int
    OBVIOUS
  <2> QED
    BY <1>1, <2>1, OfTwo
<1>4. m \in Nat /\ m % b = 0 /\ m <= p /\ m <= q /\ (m = p \/ m = q)
  BY <1>1, <1>3
<1>5. n \in Nat /\ n * b = m
  <2>1. m \in Int
    BY <1>4
  <2>2. n * b = m
    BY <1>1, <1>2, <1>4, <2>1, ExactDivision
  <2>3. n \in Nat
    BY <1>1, <1>2, <1>4, DivisionFacts
  <2> QED
    BY <2>2, <2>3
<1>6. PICK x, y : x = p \div b /\ y = q \div b
  OBVIOUS
<1>7. x \in Int /\ y \in Int /\ x * b = p /\ y * b = q
  <2>1. p \in Int /\ q \in Int
    OBVIOUS
  <2> QED
    BY <1>1, <1>2, <1>6, <2>1, ExactDivision
<1>8. n <= x /\ n <= y
  <2>1. n \in Int
    BY <1>5
  <2>2. n * b <= x * b /\ n * b <= y * b
    BY <1>4, <1>5, <1>7
  <2> QED
    BY <1>2, <1>7, <2>1, <2>2, FactorOrder
<1> QED
  BY <1>1, <1>4, <1>5, <1>6, <1>8

(* With two streams, prompts differ beyond a shared part.                    *)
LEMMA OwnTokensDiffer ==
  ASSUME ~oneSeed, NEW l \in RequestSet, NEW m \in RequestSet, Shares(l), Shares(m), Unlike(l, m),
         NEW k \in 1..Len(l.tokens), k <= Len(m.tokens), l.shared < k \/ m.shared < k
  PROVE  l.tokens[k] # m.tokens[k]
<1>1. /\ l.tokens \in Seq(Int) /\ m.tokens \in Seq(Int) /\ l.shared \in Nat /\ m.shared \in Nat
  BY DEF RequestSet
<1>2. k \in 1..Len(m.tokens) /\ l.tokens[k] \in Int /\ m.tokens[k] \in Int
  BY <1>1
<1>3. /\ IF k <= l.shared THEN l.tokens[k] >= 0 ELSE l.tokens[k] < 0
      /\ IF k <= m.shared THEN m.tokens[k] >= 0 ELSE m.tokens[k] < 0
  BY <1>2 DEF Shares, DrawnToken
<1>4. CASE l.shared < k /\ m.shared < k
  BY <1>4 DEF Unlike
<1>5. CASE l.shared < k /\ k <= m.shared
  <2>1. ~(k <= l.shared)
    BY <1>1, <1>2, <1>5
  <2>2. l.tokens[k] < 0 /\ m.tokens[k] >= 0
    BY <1>3, <1>5, <2>1
  <2> QED
    BY <1>2, <2>2
<1>6. CASE m.shared < k /\ k <= l.shared
  <2>1. ~(k <= m.shared)
    BY <1>1, <1>2, <1>6
  <2>2. m.tokens[k] < 0 /\ l.tokens[k] >= 0
    BY <1>3, <1>6, <2>1
  <2> QED
    BY <1>2, <2>2
<1> QED
  BY <1>1, <1>4, <1>5, <1>6

(* Two prompts made from buckets, or without one, with two streams.          *)
LEMMA BucketSharing ==
  ASSUME ~oneSeed, DrawsTyped, BucketsApart, mode # "hash_ids",
         NEW l \in RequestSet, NEW m \in RequestSet, Shares(l), Shares(m), Unlike(l, m),
         NEW n, n = Min({l.shared, m.shared}) \div BlockSize
  PROVE  CommonBlocks(l.tokens, m.tokens) = IF l.bucket = m.bucket THEN n ELSE 0
<1>1. /\ l.tokens \in Seq(Int) /\ m.tokens \in Seq(Int) /\ l.shared \in Nat /\ m.shared \in Nat
      /\ l.bucket \in Buckets \cup {NoBucket} /\ m.bucket \in Buckets \cup {NoBucket}
      /\ Len(l.tokens) \in Nat /\ Len(m.tokens) \in Nat
  BY DEF RequestSet
<1>2. /\ l.shared <= Len(l.tokens) /\ m.shared <= Len(m.tokens)
      /\ l.shared % BlockSize = 0 /\ m.shared % BlockSize = 0
      /\ Prefixed(l, buckets) /\ Prefixed(m, buckets)
  BY <1>1 DEF Shares
<1>3. PICK p : p = n * BlockSize
  OBVIOUS
<1>4. n \in Nat /\ p <= l.shared /\ p <= m.shared /\ (p = l.shared \/ p = m.shared)
  <2>1. PICK x \in Nat, y \in Nat : x = l.shared /\ y = m.shared
    BY <1>1
  <2>2. x % BlockSize = 0 /\ y % BlockSize = 0 /\ n = Min({x, y}) \div BlockSize
    BY <1>2, <2>1
  <2>3. n \in Nat /\ n * BlockSize <= x /\ n * BlockSize <= y /\ (n * BlockSize = x \/ n * BlockSize = y)
    BY <2>2, SharedBlocks
  <2> QED
    BY <1>3, <2>1, <2>3
<1>5. p \in Nat
  BY <1>1, <1>4
<1>6. ASSUME NEW k \in Nat \ {0}, k <= Len(l.tokens), k <= Len(m.tokens), p < k
      PROVE  l.tokens[k] # m.tokens[k]
  <2>1. k \in 1..Len(l.tokens) /\ (l.shared < k \/ m.shared < k)
    BY <1>1, <1>4, <1>6
  <2> QED
    BY <1>6, <2>1, OwnTokensDiffer
<1>7. CASE l.bucket = m.bucket
  <2>1. ASSUME NEW k \in 1..p
        PROVE  l.tokens[k] = m.tokens[k]
    <3>1. k \in 1..l.shared /\ k \in 1..m.shared
      BY <1>1, <1>4, <1>5
    <3>2. l.bucket # NoBucket
      BY <1>1, <1>2, <3>1 DEF Prefixed
    <3> QED
      BY <1>2, <1>7, <3>1, <3>2 DEF Prefixed
  <2>2. p <= Len(l.tokens) /\ p <= Len(m.tokens)
    BY <1>1, <1>2, <1>4, <1>5
  <2>3. p < Len(l.tokens) /\ p < Len(m.tokens) => l.tokens[p + 1] # m.tokens[p + 1]
    <3> SUFFICES ASSUME p < Len(l.tokens), p < Len(m.tokens)
                 PROVE  l.tokens[p + 1] # m.tokens[p + 1]
      OBVIOUS
    <3>1. p + 1 \in Nat \ {0} /\ p + 1 <= Len(l.tokens) /\ p + 1 <= Len(m.tokens) /\ p < p + 1
      BY <1>1, <1>5
    <3> QED
      BY <1>6, <3>1
  <2>4. CommonBlocks(l.tokens, m.tokens) = n
    <3>1. PICK s \in Seq(Int), t \in Seq(Int) : s = l.tokens /\ t = m.tokens
      BY <1>1
    <3>2. /\ p <= Len(s) /\ p <= Len(t) /\ \A k \in 1..p : s[k] = t[k]
          /\ p < Len(s) /\ p < Len(t) => s[p + 1] # t[p + 1]
      BY <2>1, <2>2, <2>3, <3>1
    <3>3. CommonBlocks(s, t) = n
      BY <1>3, <1>4, <3>2, CommonIs
    <3> QED
      BY <3>1, <3>3
  <2> QED
    BY <1>7, <2>4
<1>8. CASE l.bucket # m.bucket
  <2>1. 0 * BlockSize = 0 /\ 0 \in Nat
    BY SynthesisAssumption
  <2>2. ASSUME 0 < Len(l.tokens), 0 < Len(m.tokens)
        PROVE  l.tokens[1] # m.tokens[1]
    <3>1. 1 <= Len(l.tokens) /\ 1 <= Len(m.tokens)
      BY <1>1, <2>2
    <3>2. CASE p < 1
      BY <1>6, <3>1, <3>2
    <3>3. CASE ~(p < 1)
      <4>1. 1 \in 1..l.shared /\ 1 \in 1..m.shared
        BY <1>1, <1>4, <1>5, <3>3
      <4>2. l.bucket # NoBucket /\ m.bucket # NoBucket
        BY <1>1, <1>2, <4>1 DEF Prefixed
      <4>3. PICK b \in Buckets, c \in Buckets : b = l.bucket /\ c = m.bucket
        BY <1>1, <4>2
      <4>4. /\ l.shared <= Len(buckets[b]) /\ l.tokens[1] = buckets[b][1]
            /\ m.shared <= Len(buckets[c]) /\ m.tokens[1] = buckets[c][1]
        BY <1>2, <4>1, <4>2, <4>3 DEF Prefixed
      <4>5. Len(buckets[b]) \in Nat /\ Len(buckets[c]) \in Nat
        BY DEF DrawsTyped
      <4>6. 1 \in 1..Len(buckets[b]) /\ 1 <= Len(buckets[c])
        BY <1>1, <4>1, <4>4, <4>5
      <4> QED
        BY <1>8, <4>3, <4>4, <4>6 DEF BucketsApart
    <3> QED
      BY <3>2, <3>3
  <2>3. CommonBlocks(l.tokens, m.tokens) = 0
    <3>1. 0 <= Len(l.tokens) /\ 0 <= Len(m.tokens) /\ \A k \in 1..0 : l.tokens[k] = m.tokens[k]
      BY <1>1
    <3>2. 0 < Len(l.tokens) /\ 0 < Len(m.tokens) => l.tokens[0 + 1] # m.tokens[0 + 1]
      BY <2>2
    <3> QED
      BY <1>1, <2>1, <3>1, <3>2, CommonIs
  <2> QED
    BY <1>8, <2>3
<1> QED
  BY <1>7, <1>8

(* Two prompts in prefix synthesis, with one stream: they agree where they   *)
(* are meant to, and differ after the longer prefix, where both are drawn.   *)
LEMMA OneStreamSharing ==
  ASSUME DrawsTyped, BucketsApart, mode # "hash_ids",
         NEW l \in RequestSet, NEW m \in RequestSet, Shares(l), Shares(m), Unlike(l, m),
         NEW n, n = Min({l.shared, m.shared}) \div BlockSize
  PROVE  /\ (IF l.bucket = m.bucket THEN n ELSE 0) <= CommonBlocks(l.tokens, m.tokens)
         /\ CommonBlocks(l.tokens, m.tokens) <=
              IF l.bucket = m.bucket \/ 0 \in {l.shared, m.shared}
              THEN Max({l.shared, m.shared}) \div BlockSize ELSE 0
<1>1. /\ l.tokens \in Seq(Int) /\ m.tokens \in Seq(Int) /\ l.shared \in Nat /\ m.shared \in Nat
      /\ l.bucket \in Buckets \cup {NoBucket} /\ m.bucket \in Buckets \cup {NoBucket}
      /\ Len(l.tokens) \in Nat /\ Len(m.tokens) \in Nat
  BY DEF RequestSet
<1>2. /\ l.shared <= Len(l.tokens) /\ m.shared <= Len(m.tokens)
      /\ l.shared % BlockSize = 0 /\ m.shared % BlockSize = 0
      /\ Prefixed(l, buckets) /\ Prefixed(m, buckets)
  BY <1>1 DEF Shares
<1>3. PICK s \in Seq(Int), t \in Seq(Int), x \in Nat, y \in Nat :
        s = l.tokens /\ t = m.tokens /\ x = l.shared /\ y = m.shared
  BY <1>1
<1>4. PICK c : c = CommonBlocks(s, t)
  OBVIOUS
<1>5. c \in Nat
  BY <1>4, CommonFacts
<1>6. PICK p : p = n * BlockSize
  OBVIOUS
<1>7. n \in Nat /\ p \in Nat /\ p <= x /\ p <= y
  <2>1. x % BlockSize = 0 /\ y % BlockSize = 0 /\ n = Min({x, y}) \div BlockSize
    BY <1>2, <1>3
  <2>2. n \in Nat /\ n * BlockSize <= x /\ n * BlockSize <= y /\ (n * BlockSize = x \/ n * BlockSize = y)
    BY <2>1, SharedBlocks
  <2> QED
    BY <1>6, <2>2
<1>8. ASSUME l.bucket = m.bucket
      PROVE  n <= c
  <2>1. ASSUME NEW k \in 1..p
        PROVE  s[k] = t[k]
    <3>1. k \in 1..l.shared /\ k \in 1..m.shared
      BY <1>3, <1>7
    <3>2. l.bucket # NoBucket
      BY <1>1, <1>2, <3>1 DEF Prefixed
    <3> QED
      BY <1>2, <1>3, <1>8, <3>1, <3>2 DEF Prefixed
  <2>2. p <= Len(s) /\ p <= Len(t)
    BY <1>1, <1>2, <1>3, <1>7
  <2> QED
    BY <1>4, <1>6, <1>7, <2>1, <2>2, CommonAtLeast
<1>9. c <= Max({x, y}) \div BlockSize
  <2>1. PICK z, q : z = Max({x, y}) /\ q = z \div BlockSize
    OBVIOUS
  <2>2. z = IF x >= y THEN x ELSE y
    <3>1. x \in Int /\ y \in Int
      OBVIOUS
    <3> QED
      BY <2>1, <3>1, OfTwo
  <2>3. z \in Nat /\ x <= z /\ y <= z /\ z % BlockSize = 0
    BY <1>2, <1>3, <2>2
  <2>4. q \in Nat /\ z = q * BlockSize
    <3>1. BlockSize \in Nat \ {0} /\ z \in Int
      BY <2>3, SynthesisAssumption
    <3>2. q * BlockSize = z
      BY <2>1, <2>3, <3>1, ExactDivision
    <3>3. q \in Nat
      BY <2>1, <2>3, <3>1, DivisionFacts
    <3> QED
      BY <3>2, <3>3
  <2>5. ASSUME z < Len(s), z < Len(t)
        PROVE  s[z + 1] # t[z + 1]
    <3>1. PICK k : k = z + 1
      OBVIOUS
    <3>2. k \in 1..Len(l.tokens) /\ k <= Len(m.tokens) /\ l.shared < k /\ m.shared < k
      BY <1>1, <1>3, <2>3, <2>5, <3>1
    <3> QED
      BY <1>3, <3>1, <3>2 DEF Unlike
  <2>6. c <= q
    BY <1>4, <2>4, <2>5, CommonAtMost
  <2> QED
    BY <2>1, <2>6
<1>10. ASSUME l.bucket # m.bucket, x # 0, y # 0
       PROVE  c <= 0
  <2>1. 0 * BlockSize = 0 /\ 0 \in Nat
    BY SynthesisAssumption
  <2>2. 1 \in 1..l.shared /\ 1 \in 1..m.shared
    BY <1>3, <1>10
  <2>3. l.bucket # NoBucket /\ m.bucket # NoBucket
    BY <1>1, <1>2, <2>2 DEF Prefixed
  <2>4. PICK b \in Buckets, d \in Buckets : b = l.bucket /\ d = m.bucket
    BY <1>1, <2>3
  <2>5. /\ l.shared <= Len(buckets[b]) /\ l.tokens[1] = buckets[b][1]
        /\ m.shared <= Len(buckets[d]) /\ m.tokens[1] = buckets[d][1]
    BY <1>2, <2>2, <2>3, <2>4 DEF Prefixed
  <2>6. Len(buckets[b]) \in Nat /\ Len(buckets[d]) \in Nat
    BY DEF DrawsTyped
  <2>7. 1 \in 1..Len(buckets[b]) /\ 1 <= Len(buckets[d])
    <3>1. l.shared \in Nat /\ m.shared \in Nat
      BY <1>3
    <3>2. PICK i, j, u, v : /\ i = l.shared /\ j = m.shared
                            /\ u = Len(buckets[b]) /\ v = Len(buckets[d])
      OBVIOUS
    <3>3. /\ i \in Nat /\ j \in Nat /\ u \in Nat /\ v \in Nat
          /\ i <= u /\ j <= v /\ 1 \in 1..i /\ 1 \in 1..j
      BY <2>2, <2>5, <2>6, <3>1, <3>2
    <3>4. 1 \in 1..u /\ 1 <= v
      BY ONLY <3>3
    <3> QED
      BY <3>2, <3>4
  <2>8. s[0 + 1] # t[0 + 1]
    BY <1>3, <1>10, <2>4, <2>5, <2>7 DEF BucketsApart
  <2> QED
    BY <1>4, <2>1, <2>8, CommonAtMost
<1>11. (IF l.bucket = m.bucket THEN n ELSE 0) <= c
  BY <1>5, <1>8
<1>12. c <= IF l.bucket = m.bucket \/ 0 \in {x, y} THEN Max({x, y}) \div BlockSize ELSE 0
  <2>1. CASE l.bucket = m.bucket \/ 0 \in {x, y}
    BY <1>9, <2>1
  <2>2. CASE ~(l.bucket = m.bucket \/ 0 \in {x, y})
    BY <1>10, <2>2
  <2> QED
    BY <2>1, <2>2
<1> QED
  BY <1>3, <1>4, <1>11, <1>12

(* Tokens of different hash ids differ.                                      *)
LEMMA HashTokenFacts ==
  ASSUME NEW c \in Nat, NEW p, p = c * BlockSize, NEW x \in Nat, NEW y \in Nat, x # y
  PROVE  /\ ((p + 1) - 1) \div BlockSize + 1 = c + 1 /\ ((p + 1) - 1) % BlockSize = 0
         /\ HashToken(x, 0) # HashToken(y, 0)
<1>1. PICK b : b = BlockSize
  OBVIOUS
<1>2. b \in Nat \ {0} /\ p = c * b
  BY <1>1, SynthesisAssumption
<1>3. p \in Nat /\ (p + 1) - 1 = p
  BY <1>2
<1>4. p % b = 0
  <2>1. c \in Int
    OBVIOUS
  <2> QED
    BY <1>2, <2>1, NoRemainder
<1>5. p \div b = c
  <2>1. PICK j : j = p \div b
    OBVIOUS
  <2>2. j \in Int /\ j * b = c * b
    <3>1. p \in Int
      BY <1>3
    <3> QED
      BY <1>2, <1>4, <2>1, <3>1, ExactDivision
  <2>3. j <= c /\ c <= j
    <3>1. j * b <= c * b /\ c * b <= j * b
      BY <1>2, <1>3, <2>2
    <3> QED
      BY <1>2, <2>2, <3>1, FactorOrder
  <2> QED
    BY <2>1, <2>2, <2>3
<1>6. x * b + 0 # y * b + 0
  <2>1. x * b \in Nat /\ y * b \in Nat
    BY <1>2
  <2>2. ASSUME x * b = y * b PROVE FALSE
    <3>1. x <= y /\ y <= x
      <4>1. x * b <= y * b /\ y * b <= x * b
        BY <2>1, <2>2
      <4> QED
        BY <1>2, <4>1, FactorOrder
    <3> QED
      BY <3>1
  <2> QED
    BY <2>1, <2>2
<1> QED
  BY <1>1, <1>3, <1>4, <1>5, <1>6 DEF HashToken

(* Two prompts made from hash ids.                                           *)
LEMMA HashSharing ==
  ASSUME ~oneSeed, NEW l \in RequestSet, NEW m \in RequestSet, Shares(l), Shares(m), Unlike(l, m),
         NEW g, NEW h, NEW a, NEW b, Hashed(l, g, a), Hashed(m, h, b),
         NEW n, n = Min({l.shared, m.shared}) \div BlockSize
  PROVE  CommonBlocks(l.tokens, m.tokens) = Min({CommonHashes(g, h), n})
<1>1. PICK s, t, x, y, d : s = l.tokens /\ t = m.tokens /\ x = l.shared /\ y = m.shared /\ d = BlockSize
  OBVIOUS
<1>2. /\ s \in Seq(Int) /\ t \in Seq(Int) /\ x \in Nat /\ y \in Nat
      /\ Len(s) \in Nat /\ Len(t) \in Nat /\ d \in Nat \ {0}
  BY <1>1, SynthesisAssumption DEF RequestSet
<1>3. /\ x <= Len(s) /\ y <= Len(t) /\ x % d = 0 /\ y % d = 0
  BY <1>1, <1>2 DEF Shares
<1>4. /\ g \in Seq(Nat) /\ h \in Seq(Nat) /\ x \div d <= Len(g) /\ y \div d <= Len(h)
      /\ \A k \in 1..x : s[k] = HashToken(g[(k - 1) \div d + 1], (k - 1) % d)
      /\ \A k \in 1..y : t[k] = HashToken(h[(k - 1) \div d + 1], (k - 1) % d)
  BY <1>1 DEF Hashed
<1>5. /\ n \in Nat /\ n * d <= x /\ n * d <= y /\ (n * d = x \/ n * d = y)
      /\ n <= x \div d /\ n <= y \div d
  <2>1. n = Min({x, y}) \div BlockSize /\ x % BlockSize = 0 /\ y % BlockSize = 0
    BY <1>1, <1>3
  <2>2. /\ n \in Nat /\ n * BlockSize <= x /\ n * BlockSize <= y
        /\ (n * BlockSize = x \/ n * BlockSize = y)
        /\ n <= x \div BlockSize /\ n <= y \div BlockSize
    BY <1>2, <2>1, SharedBlocks
  <2> QED
    BY <1>1, <2>2
<1>6. n <= Len(g) /\ n <= Len(h)
  <2>1. x \div d \in Nat /\ y \div d \in Nat
    BY <1>2, DivisionFacts
  <2> QED
    BY <1>4, <1>5, <2>1
<1>7. PICK c : c = CommonHashes(g, h)
  OBVIOUS
<1>8. /\ c \in Nat /\ c <= Len(g) /\ c <= Len(h)
      /\ \A i \in 1..c : g[i] = h[i]
      /\ c < Len(g) /\ c < Len(h) => g[c + 1] # h[c + 1]
  BY <1>4, <1>7, CommonHashFacts
<1>9. PICK r : r = Min({c, n})
  OBVIOUS
<1>10. r \in Nat /\ r <= c /\ r <= n /\ (r = n \/ (r = c /\ c < n))
  <2>1. c \in Int /\ n \in Int
    BY <1>5, <1>8
  <2>2. r = IF c <= n THEN c ELSE n
    BY <1>9, <2>1, OfTwo
  <2> QED
    BY <1>5, <1>8, <2>2
<1>11. PICK p, q : p = r * d /\ q = n * d
  OBVIOUS
<1>12. p \in Nat /\ q \in Nat /\ p <= q /\ p <= x /\ p <= y
  <2>1. p \in Nat /\ q \in Nat
    BY <1>2, <1>5, <1>10, <1>11
  <2>2. r \in Int /\ n \in Int /\ r <= n
    BY <1>5, <1>10
  <2>3. r * d <= n * d
    BY <1>2, <2>2, FactorOrder
  <2>4. p <= q /\ q <= x /\ q <= y
    BY <1>5, <1>11, <2>3
  <2> QED
    BY ONLY <1>2, <2>1, <2>4
<1>13. ASSUME NEW k \in 1..p
       PROVE  s[k] = t[k]
  <2>1. PICK i, j, v : i = k - 1 /\ j = i \div d /\ v = i % d
    OBVIOUS
  <2>2. i \in Nat /\ i < p
    BY <1>12, <2>1
  <2>3. j \in Nat /\ j * d <= i
    BY <1>2, <2>1, <2>2, DivisionFacts
  <2>4. j < r
    <3>1. j * d \in Nat
      BY <1>2, <2>3
    <3>2. j * d < r * d
      BY <1>11, <1>12, <2>2, <2>3, <3>1
    <3> QED
      BY <1>2, <1>10, <2>3, <3>2, FactorOrder
  <2>5. j + 1 \in 1..c
    BY <1>8, <1>10, <2>3, <2>4
  <2>6. k \in 1..x /\ k \in 1..y
    BY <1>2, <1>12
  <2>7. s[k] = HashToken(g[j + 1], v) /\ t[k] = HashToken(h[j + 1], v)
    BY <1>4, <2>1, <2>6
  <2> QED
    BY <1>8, <2>5, <2>7
<1>14. ASSUME p < Len(s), p < Len(t)
       PROVE  s[p + 1] # t[p + 1]
  <2>1. CASE r = n
    <3>1. l.shared < p + 1 \/ m.shared < p + 1
      BY <1>1, <1>2, <1>5, <1>11, <1>12, <2>1
    <3>2. p + 1 \in 1..Len(l.tokens) /\ p + 1 <= Len(m.tokens)
      BY <1>1, <1>2, <1>12, <1>14
    <3> QED
      BY <1>1, <3>1, <3>2, OwnTokensDiffer
  <2>2. CASE r = c /\ c < n
    <3>1. c < Len(g) /\ c < Len(h) /\ c + 1 \in 1..Len(g) /\ c + 1 \in 1..Len(h)
      BY <1>4, <1>5, <1>6, <1>8, <2>2
    <3>2. PICK u \in Nat, w \in Nat : u = g[c + 1] /\ w = h[c + 1]
      <4>1. PICK e : e = c + 1
        OBVIOUS
      <4>2. e \in 1..Len(g) /\ e \in 1..Len(h)
        BY <3>1, <4>1
      <4>3. g[e] \in Nat /\ h[e] \in Nat
        BY ONLY <1>4, <4>2
      <4> QED
        BY <4>1, <4>3
    <3>3. u # w
      BY <1>8, <3>1, <3>2
    <3>4. p = c * BlockSize
      BY <1>1, <1>11, <2>2
    <3>5. /\ ((p + 1) - 1) \div d + 1 = c + 1 /\ ((p + 1) - 1) % d = 0
          /\ HashToken(u, 0) # HashToken(w, 0)
      BY <1>1, <1>8, <3>3, <3>4, HashTokenFacts
    <3>6. p + 1 \in 1..x /\ p + 1 \in 1..y
      <4>1. p + d <= q
        <5>1. c + 1 \in Int /\ n \in Int /\ c + 1 <= n
          BY <1>5, <1>8, <2>2
        <5>2. (c + 1) * d <= n * d
          BY <1>2, <5>1, FactorOrder
        <5>3. (c + 1) * d = c * d + d
          BY ONLY <1>2, <1>8
        <5> QED
          BY <1>11, <2>2, <5>2, <5>3
      <4>2. q <= x /\ q <= y
        BY <1>5, <1>11
      <4> QED
        BY ONLY <1>2, <1>12, <4>1, <4>2
    <3>7. s[p + 1] = HashToken(u, 0) /\ t[p + 1] = HashToken(w, 0)
      BY <1>4, <3>2, <3>5, <3>6
    <3> QED
      BY <3>5, <3>7
  <2> QED
    BY <1>10, <2>1, <2>2
<1>15. CommonBlocks(s, t) = r
  <2>1. p = r * BlockSize /\ p <= Len(s) /\ p <= Len(t)
    BY <1>1, <1>2, <1>3, <1>11, <1>12
  <2> QED
    BY <1>2, <1>10, <1>13, <1>14, <2>1, CommonIs
<1> QED
  BY <1>1, <1>7, <1>9, <1>15

(* Two prompts share the blocks they are meant to, however the buckets have  *)
(* grown in between: exactly these when suffixes and buckets are drawn from  *)
(* streams of their own, and with one seed for both only such others as one  *)
(* prompt's suffix repeats of the other's bucket.  This is for any trace,    *)
(* block size, number of buckets and layers.                                 *)
THEOREM SharingAsMeant == Spec => []SharesAsMeant
<1>1. Init => SharingInv
  BY InitSharing
<1>2. ReplayInv /\ SharingInv /\ [Next]_vars => SharingInv'
  <2> SUFFICES ASSUME ReplayInv, SharingInv, [Next]_vars PROVE SharingInv'
    OBVIOUS
  <2>1. UNCHANGED setup /\ (NothingMade \/ \E m : Appended(m))
    BY StepMakes
  <2>2. CASE NothingMade
    <3>1. made' = made /\ buckets' = buckets /\ drawn' = drawn /\ mode' = mode /\ oneSeed' = oneSeed
      BY <2>1, <2>2, SameFile DEF NothingMade
    <3>2. BucketsApart'
      BY <3>1 DEF SharingInv, BucketsApart
    <3>3. (\A i \in DOMAIN made : Shares(made[i]))'
      BY <3>1 DEF SharingInv, Shares, Prefixed
    <3>4. (\A i, j \in DOMAIN made : i < j => Unlike(made[i], made[j]))'
      BY <3>1 DEF SharingInv, Unlike
    <3> QED
      BY <3>2, <3>3, <3>4 DEF SharingInv
  <2>3. ASSUME NEW m, Appended(m)
        PROVE  SharingInv'
    BY <2>1, <2>3, SharingNext
  <2> QED
    BY <2>1, <2>2, <2>3
<1>3. ReplayInv /\ SharingInv => SharesAsMeant
  <2> SUFFICES ASSUME ReplayInv, SharingInv, NEW i \in DOMAIN made, NEW j \in DOMAIN made, i < j
               PROVE  LET common == CommonBlocks(made[i].tokens, made[j].tokens)
                      IN IF oneSeed THEN Meant(i, j) <= common /\ common <= AtMost(i, j)
                         ELSE common = Meant(i, j)
    BY DEF SharesAsMeant
  <2>1. /\ DrawsTyped /\ BucketsApart /\ pos \in Nat
        /\ oneSeed => mode = "synthesis"
    BY DEF ReplayInv, Core, DrawsTyped, FileOK, SharingInv
  <2>2. PICK l \in RequestSet, m \in RequestSet : l = made[i] /\ m = made[j]
    BY <2>1 DEF DrawsTyped
  <2>3. Shares(l) /\ Shares(m) /\ Unlike(l, m)
    BY <2>2 DEF SharingInv
  <2>4. PICK n : n = Min({l.shared, m.shared}) \div BlockSize
    OBVIOUS
  <2>5. CASE oneSeed
    <3>1. /\ (IF l.bucket = m.bucket THEN n ELSE 0) <= CommonBlocks(l.tokens, m.tokens)
          /\ CommonBlocks(l.tokens, m.tokens) <=
               IF l.bucket = m.bucket \/ 0 \in {l.shared, m.shared}
               THEN Max({l.shared, m.shared}) \div BlockSize ELSE 0
      BY <2>1, <2>3, <2>4, <2>5, OneStreamSharing
    <3>2. Meant(i, j) = (IF l.bucket = m.bucket THEN n ELSE 0)
      BY <2>1, <2>2, <2>4, <2>5 DEF Meant
    <3>3. AtMost(i, j) = IF l.bucket = m.bucket \/ 0 \in {l.shared, m.shared}
                         THEN Max({l.shared, m.shared}) \div BlockSize ELSE 0
      BY <2>2 DEF AtMost
    <3> QED
      BY <2>2, <2>5, <3>1, <3>2, <3>3
  <2>6. CASE ~oneSeed /\ mode = "hash_ids"
    <3>1. PICK u \in 1..pos : IsRead(l, i, u)
      BY <2>2, <2>6 DEF ReplayInv, Traced
    <3>2. PICK w \in 1..pos : IsRead(m, j, w)
      BY <2>2, <2>6 DEF ReplayInv, Traced
    <3>3. RecordOf(i) = file[u] /\ RecordOf(j) = file[w]
      BY <2>1, <3>1, <3>2, RecordIs DEF IsRead
    <3>4. Hashed(l, file[u].hashes, file[u].len) /\ Hashed(m, file[w].hashes, file[w].len)
      BY <2>6, <3>1, <3>2 DEF IsRead
    <3>5. PICK g, h, a, b : g = file[u].hashes /\ h = file[w].hashes /\ a = file[u].len /\ b = file[w].len
      OBVIOUS
    <3>6. Hashed(l, g, a) /\ Hashed(m, h, b)
      BY <3>4, <3>5
    <3>7. CommonBlocks(l.tokens, m.tokens) = Min({CommonHashes(g, h), n})
      BY <2>3, <2>4, <2>6, <3>6, HashSharing
    <3> QED
      BY <2>2, <2>4, <2>6, <3>3, <3>5, <3>7 DEF Meant
  <2>7. CASE ~oneSeed /\ mode # "hash_ids"
    <3>1. CommonBlocks(l.tokens, m.tokens) = IF l.bucket = m.bucket THEN n ELSE 0
      BY <2>1, <2>3, <2>4, <2>7, BucketSharing
    <3> QED
      BY <2>2, <2>4, <2>7, <3>1 DEF Meant
  <2> QED
    BY <2>5, <2>6, <2>7
<1> QED
  BY <1>1, <1>2, <1>3, ReplayAgrees, PTL DEF Spec
=============================================================================
