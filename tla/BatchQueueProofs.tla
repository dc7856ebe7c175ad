--------------------------- MODULE BatchQueueProofs ---------------------------
(***************************************************************************)
(* Theorems about BatchQueue for every number of chunks and of cells in a  *)
(* chunk, as long as malloc does not fail: the chunks are owned once, and  *)
(* with addresses for positions the queue is SpscQueue.                    *)
(***************************************************************************)
EXTENDS BatchQueue, FiniteSetTheorems, WellFoundedInduction, TLAPS

\* SpscQueue with its theorems, under the mapping of BatchQueue's Spsc.  The history of
\* the memory orders plays no part in those that are cited here.
Queue == INSTANCE SpscQueueProofs WITH
  front <- Len(delivered) + 1,
  w <- Position(w), f <- Position(f), r <- Position(r), c <- Position(c),
  wpc <- IF wpc \in {"spare", "malloc"} THEN "idle" ELSE wpc,
  rpc <- IF rpc \in {"spare", "free"} THEN "run" ELSE rpc,
  carried <- 0, visible <- 0, look <- "due"

(***************************************************************************)
(* The chunks that the list ever has are numbered in the order in which    *)
(* they join it: g[j] is the j-th one, and those from lo to hi are linked. *)
(***************************************************************************)
Linked(g, lo, hi, b, nx, e) ==
  /\ lo \in Nat /\ hi \in Nat /\ lo <= hi
  /\ g \in [Nat -> Chunks]
  /\ \A j, k \in lo..hi : g[j] = g[k] => j = k
  /\ g[lo] = b /\ g[hi] = e
  /\ \A j \in lo..(hi - 1) : nx[g[j]] = g[j + 1]

\* The position of cell x of the chunk that has number j.
CellNo(j, x) == j * N + x + 1

\* Address a is that of position p (of none: NULL) in the list.
At(g, lo, hi, a, p) ==
  \/ a = Null /\ p = 0
  \/ \E j \in lo..hi, x \in 0..(N - 1) : a = <<g[j], x>> /\ p = CellNo(j, x)

-----------------------------------------------------------------------------
(* Positions. *)

(* Every cell of a chunk lies in front of every cell of the next ones. *)
LEMMA CellOrder ==
  ASSUME NEW j \in Nat, NEW k \in Nat, NEW x \in 0..(N - 1), NEW y \in 0..(N - 1)
  PROVE  /\ CellNo(j, x) \in Nat \ {0}
         /\ j < k => CellNo(j, x) < CellNo(k, y)
         /\ CellNo(j, x) = CellNo(k, y) => j = k /\ x = y
  <1>1. N \in Nat /\ N >= 2
    BY BatchAssumption
  <1>2. ASSUME NEW m \in Nat, NEW n \in Nat, m < n PROVE m * N + N <= n * N
    <2>1. PICK d \in Nat : n = m + 1 + d
      <3>1. n - m - 1 \in Nat /\ n = m + 1 + (n - m - 1)
        BY <1>2
      <3> QED BY <3>1
    <2>2. n * N = m * N + N + d * N /\ d * N \in Nat /\ m * N \in Nat
      BY <1>1, <2>1
    <2> QED BY <1>1, <2>2
  <1>3. j * N \in Nat /\ k * N \in Nat
    BY <1>1
  <1>4. j < k => j * N + N <= k * N
    BY <1>2
  <1>5. k < j => k * N + N <= j * N
    BY <1>2
  <1> DEFINE jn == j * N
             kn == k * N
  <1>6. /\ jn \in Nat /\ kn \in Nat /\ (j < k => jn + N <= kn) /\ (k < j => kn + N <= jn)
        /\ (j = k => jn = kn)
    BY <1>3, <1>4, <1>5
  <1> HIDE DEF jn, kn
  <1>7. /\ jn + x + 1 \in Nat \ {0} /\ (j < k => jn + x + 1 < kn + y + 1)
        /\ (jn + x + 1 = kn + y + 1 => j = k /\ x = y)
    BY <1>1, <1>6
  <1> QED BY <1>7 DEF CellNo, jn, kn

(* The cell behind the last one of a chunk is the first one of the next. *)
LEMMA CellStep ==
  ASSUME NEW j \in Nat
  PROVE  /\ CellNo(j + 1, 0) = CellNo(j, N - 1) + 1
         /\ \A x \in Int : CellNo(j, x) + 1 = CellNo(j, x + 1)
         /\ \A x \in Nat : CellNo(j, x) \in Nat \ {0}
         /\ \A x \in Int : CellNo(j, x) = CellNo(j, 0) + x
  <1>1. N \in Nat /\ N >= 2
    BY BatchAssumption
  <1>2. (j + 1) * N = j * N + N /\ j * N \in Nat
    BY <1>1
  <1> DEFINE jn == j * N
             kn == (j + 1) * N
  <1>3. jn \in Nat /\ kn = jn + N
    BY <1>2
  <1> HIDE DEF jn, kn
  <1>4. /\ kn + 0 + 1 = jn + (N - 1) + 1 + 1
        /\ \A x \in Int : jn + x + 1 + 1 = jn + (x + 1) + 1
        /\ \A x \in Nat : jn + x + 1 \in Nat \ {0}
        /\ \A x \in Int : jn + x + 1 = jn + 0 + 1 + x
    BY <1>1, <1>3
  <1> QED BY <1>4 DEF CellNo, jn, kn

(* In one list, two addresses are the same where their positions are. *)
LEMMA SameAddress ==
  ASSUME NEW g, NEW lo \in Nat, NEW hi \in Nat, NEW a, NEW b, NEW p, NEW q,
         g \in [Nat -> Chunks], \A j, k \in lo..hi : g[j] = g[k] => j = k,
         At(g, lo, hi, a, p), At(g, lo, hi, b, q)
  PROVE  a = b <=> p = q
  <1>0. NoChunk \notin Chunks
    BY BatchAssumption
  <1>1. CASE a = Null /\ p = 0
    <2>1. CASE b = Null /\ q = 0
      BY <1>1, <2>1
    <2>2. CASE \E k \in lo..hi, y \in 0..(N - 1) : b = <<g[k], y>> /\ q = CellNo(k, y)
      <3>1. PICK k \in lo..hi, y \in 0..(N - 1) : b = <<g[k], y>> /\ q = CellNo(k, y)
        BY <2>2
      <3>2. q # 0
        BY <3>1, CellOrder
      <3>3. b # Null
        BY <1>0, <3>1 DEF Null
      <3> QED BY <1>1, <3>2, <3>3
    <2> QED BY <2>1, <2>2 DEF At
  <1>2. CASE \E j \in lo..hi, x \in 0..(N - 1) : a = <<g[j], x>> /\ p = CellNo(j, x)
    <2>0. PICK j \in lo..hi, x \in 0..(N - 1) : a = <<g[j], x>> /\ p = CellNo(j, x)
      BY <1>2
    <2>1. CASE b = Null /\ q = 0
      <3>1. p # 0
        BY <2>0, CellOrder
      <3>2. a # Null
        BY <1>0, <2>0 DEF Null
      <3> QED BY <2>1, <3>1, <3>2
    <2>2. CASE \E k \in lo..hi, y \in 0..(N - 1) : b = <<g[k], y>> /\ q = CellNo(k, y)
      <3>1. PICK k \in lo..hi, y \in 0..(N - 1) : b = <<g[k], y>> /\ q = CellNo(k, y)
        BY <2>2
      <3>2. j \in Nat /\ k \in Nat
        OBVIOUS
      <3>3. CellNo(j, x) = CellNo(k, y) => j = k /\ x = y
        BY <3>2, CellOrder
      <3>4. <<g[j], x>> = <<g[k], y>> => j = k /\ x = y
        OBVIOUS
      <3>5. ASSUME j = k, x = y PROVE <<g[j], x>> = <<g[k], y>> /\ CellNo(j, x) = CellNo(k, y)
        BY <3>5
      <3> QED BY <2>0, <3>1, <3>3, <3>4, <3>5
    <2> QED BY <2>1, <2>2 DEF At
  <1> QED BY <1>1, <1>2 DEF At

(* An address keeps its position in a list that still has its chunk. *)
LEMMA StaysAt ==
  ASSUME NEW g, NEW lo \in Nat, NEW hi \in Nat, NEW a, NEW p,
         NEW h, NEW lo2 \in Nat, NEW hi2 \in Nat,
         At(g, lo, hi, a, p),
         p # 0 => CellNo(lo2, 0) <= p /\ p <= CellNo(hi2, N - 1),
         \A j \in lo..hi : j \in lo2..hi2 => h[j] = g[j]
  PROVE  At(h, lo2, hi2, a, p)
  <1>1. CASE a = Null /\ p = 0
    BY <1>1 DEF At
  <1>2. CASE \E j \in lo..hi, x \in 0..(N - 1) : a = <<g[j], x>> /\ p = CellNo(j, x)
    <2>1. PICK j \in lo..hi, x \in 0..(N - 1) : a = <<g[j], x>> /\ p = CellNo(j, x)
      BY <1>2
    <2>2. j \in Nat /\ 0 \in 0..(N - 1) /\ N - 1 \in 0..(N - 1)
      BY BatchAssumption
    <2> DEFINE z == N - 1
    <2> HIDE DEF z
    <2>2_. z \in 0..(N - 1) /\ z = N - 1
      BY <2>2 DEF z
    <2>3. CellNo(j, x) \in Nat \ {0} /\ CellNo(lo2, 0) \in Nat /\ CellNo(hi2, z) \in Nat
      <3>1. \A k \in Nat, y \in 0..(N - 1) : CellNo(k, y) \in Nat \ {0}
        BY CellOrder
      <3> QED BY <2>2, <2>2_, <3>1
    <2>3a. j < lo2 => CellNo(j, x) < CellNo(lo2, 0)
      BY <2>2, CellOrder
    <2>3b. hi2 < j => CellNo(hi2, z) < CellNo(j, x)
      BY <2>2, <2>2_, CellOrder
    <2>4. ~(j < lo2) /\ ~(hi2 < j)
      BY <2>1, <2>3, <2>3a, <2>3b DEF z
    <2>5. j \in lo2..hi2
      BY <2>2, <2>4
    <2> QED BY <2>1, <2>5 DEF At
  <1> QED BY <1>1, <1>2 DEF At

-----------------------------------------------------------------------------
(* The walk along the next pointers. *)

\* ChunkAt, IndexOf, Chain and Position, in the variables they read.
WalkOf(b, nx, e) ==
  LET g[i \in 1..Cardinality(Chunks)] ==
        IF i = 1 THEN b
        ELSE IF g[i - 1] \in Chunks \ {e} THEN nx[g[i - 1]] ELSE g[i - 1]
  IN  g
IndexIn(walk, k) == CHOOSE i \in 1..Cardinality(Chunks) :
                      walk[i] = k /\ \A j \in 1..(i - 1) : walk[j] # k
PlaceIn(walk, start, a) ==
  IF a = Null THEN 0 ELSE start + (IndexIn(walk, a[1]) - 1) * N + a[2]

(* Positions before and after a step. *)
LEMMA Walks ==
  /\ ChunkAt = WalkOf(begin, next, end)
  /\ Chain = {WalkOf(begin, next, end)[i] : i \in 1..Cardinality(Chunks)}
  /\ \A a : Position(a) = PlaceIn(WalkOf(begin, next, end), Len(delivered) + 1 - beginPos, a)
  <1>1. ChunkAt = WalkOf(begin, next, end)
    BY DEF ChunkAt, WalkOf
  <1> QED BY <1>1 DEF Chain, Position, IndexOf, PlaceIn, IndexIn

(* The same in the next state. *)
LEMMA WalksNext ==
  /\ ChunkAt' = WalkOf(begin', next', end')
  /\ Chain' = {WalkOf(begin', next', end')[i] : i \in 1..Cardinality(Chunks)}
  /\ Position(w)' = PlaceIn(WalkOf(begin', next', end'), Len(delivered') + 1 - beginPos', w')
  /\ Position(f)' = PlaceIn(WalkOf(begin', next', end'), Len(delivered') + 1 - beginPos', f')
  /\ Position(r)' = PlaceIn(WalkOf(begin', next', end'), Len(delivered') + 1 - beginPos', r')
  /\ Position(c)' = PlaceIn(WalkOf(begin', next', end'), Len(delivered') + 1 - beginPos', c')
  <1>1. ChunkAt' = WalkOf(begin', next', end')
    BY DEF ChunkAt, WalkOf
  <1> QED BY <1>1 DEF Chain, Position, IndexOf, PlaceIn, IndexIn

(* A set of natural numbers that is not empty has a least element. *)
LEMMA LeastElement ==
  ASSUME NEW T \in SUBSET Nat, T # {}
  PROVE  \E x \in T : \A y \in T : x <= y
  <1> DEFINE R == {ss \in Nat \X Nat : ss[1] < ss[2]}
  <1>1. IsWellFoundedOn(R, Nat)
    BY NatLessThanWellFounded, Zenon DEF OpToRel
  <1>2. T \subseteq Nat /\ T # {}
    OBVIOUS
  <1>3. PICK x \in T : \A y \in T : ~ (<<y, x>> \in R)
    <2> HIDE DEF R
    <2> QED BY <1>1, <1>2, WFMin
  <1>4. \A y \in T : ~(y < x)
    BY <1>2, <1>3
  <1> QED BY <1>2, <1>3, <1>4

(* The list has no more chunks than there are addresses. *)
LEMMA LinkedLength ==
  ASSUME NEW g, NEW lo, NEW hi, NEW b, NEW nx, NEW e, Linked(g, lo, hi, b, nx, e)
  PROVE  Cardinality(Chunks) \in Nat /\ hi - lo + 1 <= Cardinality(Chunks)
  <1>1. IsFiniteSet(Chunks) /\ Cardinality(Chunks) \in Nat
    BY BatchAssumption, FS_CardinalityType
  <1>2. IsFiniteSet(lo..hi) /\ Cardinality(lo..hi) = hi - lo + 1
    BY FS_Interval DEF Linked
  <1> DEFINE m == [j \in lo..hi |-> g[j]]
  <1>3. m \in [lo..hi -> Chunks] /\ \A j, k \in lo..hi : m[j] = m[k] => j = k
    BY DEF Linked
  <1>4. m \in Injection(lo..hi, Chunks)
    BY <1>3 DEF Injection, IsInjective
  <1>5. Cardinality(lo..hi) <= Cardinality(Chunks)
    <2> HIDE DEF m
    <2> QED BY <1>1, <1>2, <1>4, FS_Injection
  <1> QED BY <1>1, <1>2, <1>5

(***************************************************************************)
(* The walk visits the list from its front to its end, and stays there.    *)
(***************************************************************************)
LEMMA WalkIs ==
  ASSUME NEW g, NEW lo, NEW hi, NEW b, NEW nx, NEW e, Linked(g, lo, hi, b, nx, e)
  PROVE  \A i \in 1..Cardinality(Chunks) :
           WalkOf(b, nx, e)[i] = IF lo + i - 1 <= hi THEN g[lo + i - 1] ELSE e
  <1> DEFINE n == Cardinality(Chunks)
             F(u, i) == IF i = 1 THEN b
                        ELSE IF u[i - 1] \in Chunks \ {e} THEN nx[u[i - 1]] ELSE u[i - 1]
             h == [i \in 1..n |-> IF lo + i - 1 <= hi THEN g[lo + i - 1] ELSE e]
  <1>0. /\ n \in Nat /\ lo \in Nat /\ hi \in Nat /\ lo <= hi /\ g \in [Nat -> Chunks]
        /\ \A j, k \in lo..hi : g[j] = g[k] => j = k
        /\ g[lo] = b /\ g[hi] = e
        /\ \A j \in lo..(hi - 1) : nx[g[j]] = g[j + 1]
    <2>1. n \in Nat
      BY LinkedLength
    <2> QED BY <2>1 DEF Linked
  <1>1. \A i \in 1..n : h[i] = F(h, i)
    <2> SUFFICES ASSUME NEW i \in 1..n PROVE h[i] = F(h, i)
      OBVIOUS
    <2> HIDE DEF n
    <2>1. CASE i = 1
      BY <1>0, <2>1
    <2>2. CASE i # 1
      <3>1. i - 1 \in 1..n /\ i \in Nat
        BY <1>0, <2>2
      <3> DEFINE j == lo + (i - 1) - 1
      <3>2. j \in Nat /\ lo <= j /\ lo + i - 1 = j + 1
        BY <1>0, <2>2, <3>1
      <3>3. h[i - 1] = IF j <= hi THEN g[j] ELSE e
        BY <3>1
      <3>4. h[i] = IF j + 1 <= hi THEN g[j + 1] ELSE e
        BY <3>1, <3>2
      <3> HIDE DEF h, j
      <3>5. CASE j + 1 <= hi
        <4>1. j \in lo..(hi - 1) /\ j \in lo..hi /\ hi \in lo..hi /\ j # hi /\ j <= hi
          BY <1>0, <3>2, <3>5
        <4>2. g[j] # e /\ g[j] \in Chunks
          BY <1>0, <3>2, <4>1
        <4>3. h[i - 1] = g[j] /\ h[i] = g[j + 1] /\ nx[g[j]] = g[j + 1]
          BY <1>0, <3>3, <3>4, <3>5, <4>1
        <4>4. h[i - 1] \in Chunks \ {e} /\ h[i] = nx[h[i - 1]]
          BY <4>2, <4>3
        <4> QED BY <2>2, <4>4
      <3>6. CASE ~(j + 1 <= hi)
        <4>1. h[i - 1] = e
          BY <1>0, <3>2, <3>3, <3>6
        <4>2. h[i] = e
          BY <3>4, <3>6
        <4> QED BY <2>2, <4>1, <4>2
      <3> QED BY <3>5, <3>6
    <2> QED BY <2>1, <2>2
  <1>2. h = [i \in 1..n |-> F(h, i)]
    <2>1. h = [i \in 1..n |-> h[i]]
      OBVIOUS
    <2> HIDE DEF h, F
    <2> QED BY <1>1, <2>1
  <1> HIDE DEF h
  <1> DEFINE v == WalkOf(b, nx, e)
  <1>3. v = [i \in 1..n |-> F(v, i)]
    BY <1>2, Zenon DEF WalkOf
  <1> HIDE DEF v
  <1>4. \A i \in 1..n : v[i] = F(v, i)
    <2> HIDE DEF F
    <2> QED BY <1>3
  <1>5. \A i \in 1..n : v[i] = h[i]
    <2> DEFINE T == {i \in 1..n : v[i] # h[i]}
    <2> SUFFICES ASSUME T # {} PROVE FALSE
      OBVIOUS
    <2>1. T \in SUBSET Nat
      BY <1>0
    <2>2. PICK i \in T : \A y \in T : i <= y
      <3> HIDE DEF T
      <3> QED BY <2>1, LeastElement
    <2>3. i \in 1..n /\ v[i] # h[i]
      OBVIOUS
    <2>4. i # 1
      BY <1>1, <1>4, <2>3
    <2>5. i - 1 \in 1..n /\ i - 1 \notin T
      BY <1>0, <2>1, <2>2, <2>3, <2>4
    <2>6. v[i - 1] = h[i - 1]
      BY <2>5
    <2>7. F(v, i) = F(h, i)
      BY <2>6
    <2> QED BY <1>1, <1>4, <2>3, <2>7
  <1> QED BY <1>5 DEF h, v

(* What the walk gives: the chunks of the list, each at its own index. *)
LEMMA WalkedChunks ==
  ASSUME NEW g, NEW lo, NEW hi, NEW b, NEW nx, NEW e, Linked(g, lo, hi, b, nx, e)
  PROVE  /\ {WalkOf(b, nx, e)[i] : i \in 1..Cardinality(Chunks)} = {g[j] : j \in lo..hi}
         /\ \A j \in lo..hi : IndexIn(WalkOf(b, nx, e), g[j]) = j - lo + 1
  <1> DEFINE n == Cardinality(Chunks)
             v == WalkOf(b, nx, e)
  <1>0. /\ lo \in Nat /\ hi \in Nat /\ lo <= hi /\ g \in [Nat -> Chunks]
        /\ \A j, k \in lo..hi : g[j] = g[k] => j = k
        /\ g[hi] = e
    BY DEF Linked
  <1>1. n \in Nat /\ hi - lo + 1 <= n
    BY LinkedLength
  <1>2. \A i \in 1..n : v[i] = IF lo + i - 1 <= hi THEN g[lo + i - 1] ELSE e
    BY WalkIs
  <1> HIDE DEF n, v
  <1>3. ASSUME NEW j \in lo..hi PROVE j - lo + 1 \in 1..n /\ v[j - lo + 1] = g[j]
    <2>1. j - lo + 1 \in 1..n /\ lo + (j - lo + 1) - 1 = j
      BY <1>0, <1>1
    <2> QED BY <1>0, <1>2, <2>1
  <1>4. ASSUME NEW i \in 1..n PROVE \E j \in lo..hi : v[i] = g[j]
    <2>1. CASE lo + i - 1 <= hi
      <3>1. lo + i - 1 \in lo..hi /\ v[i] = g[lo + i - 1]
        BY <1>0, <1>2, <2>1
      <3> QED BY <3>1
    <2>2. CASE ~(lo + i - 1 <= hi)
      BY <1>0, <1>2, <2>2
    <2> QED BY <2>1, <2>2
  <1>5. {v[i] : i \in 1..n} = {g[j] : j \in lo..hi}
    BY <1>3, <1>4
  <1>6. ASSUME NEW j \in lo..hi PROVE IndexIn(v, g[j]) = j - lo + 1
    <2> DEFINE First(i) == v[i] = g[j] /\ \A k \in 1..(i - 1) : v[k] # g[j]
               m == j - lo + 1
    <2>1. m \in 1..n /\ v[m] = g[j] /\ m <= hi - lo + 1
      BY <1>0, <1>3
    <2>2. ASSUME NEW k \in 1..(m - 1) PROVE v[k] # g[j]
      <3>1. lo + k - 1 \in lo..hi /\ lo + k - 1 # j /\ k \in 1..n
        BY <1>0, <1>1, <2>1, <2>2
      <3>2. v[k] = g[lo + k - 1]
        BY <1>0, <1>2, <3>1
      <3> QED BY <1>0, <3>1, <3>2
    <2>3. First(m)
      BY <2>1, <2>2
    <2>4. ASSUME NEW i \in 1..n, First(i) PROVE i = m
      <3>1. ~(i < m)
        BY <1>1, <2>1, <2>2, <2>4
      <3>2. ~(m < i)
        BY <1>1, <2>1, <2>4
      <3> QED BY <1>1, <2>1, <3>1, <3>2
    <2>5. IndexIn(v, g[j]) = CHOOSE i \in 1..n : First(i)
      BY DEF IndexIn, n
    <2> HIDE DEF First, m
    <2>6. (CHOOSE i \in 1..n : First(i)) = m
      BY <2>1, <2>3, <2>4
    <2> QED BY <2>5, <2>6 DEF m
  <1> QED BY <1>5, <1>6 DEF n, v

(* The position of an address of the list, counted from its first chunk. *)
LEMMA PlaceIs ==
  ASSUME NEW g, NEW lo, NEW hi, NEW b, NEW nx, NEW e, Linked(g, lo, hi, b, nx, e),
         NEW a, NEW p, At(g, lo, hi, a, p)
  PROVE  PlaceIn(WalkOf(b, nx, e), CellNo(lo, 0), a) = p
  <1>1. CASE a = Null /\ p = 0
    BY <1>1 DEF PlaceIn
  <1>2. CASE \E j \in lo..hi, x \in 0..(N - 1) : a = <<g[j], x>> /\ p = CellNo(j, x)
    <2>1. PICK j \in lo..hi, x \in 0..(N - 1) : a = <<g[j], x>> /\ p = CellNo(j, x)
      BY <1>2
    <2>2. lo \in Nat /\ hi \in Nat /\ j \in Nat /\ lo <= j /\ g[j] \in Chunks
      BY DEF Linked
    <2>3. a # Null
      BY <2>1, <2>2, BatchAssumption DEF Null
    <2>4. IndexIn(WalkOf(b, nx, e), g[j]) = j - lo + 1
      BY WalkedChunks
    <2> DEFINE k == IndexIn(WalkOf(b, nx, e), a[1])
    <2>5. k = j - lo + 1 /\ a[2] = x
      BY <2>1, <2>4
    <2>6. PlaceIn(WalkOf(b, nx, e), CellNo(lo, 0), a) = CellNo(lo, 0) + (k - 1) * N + a[2]
      BY <2>3 DEF PlaceIn
    <2> HIDE DEF k
    <2>7. (k - 1) * N = j * N - lo * N /\ lo * N \in Int /\ j * N \in Int
      BY <2>2, <2>5, BatchAssumption
    <2>8. CellNo(lo, 0) + (k - 1) * N + a[2] = CellNo(j, x)
      <3> DEFINE ln == lo * N
                 jn == j * N
                 kn == (k - 1) * N
      <3>1. kn = jn - ln /\ ln \in Int /\ jn \in Int /\ x \in Int
        BY <2>7, BatchAssumption
      <3> HIDE DEF ln, jn, kn
      <3>2. ln + 0 + 1 + kn + x = jn + x + 1
        BY <3>1
      <3> QED BY <2>5, <3>2 DEF ln, jn, kn, CellNo
    <2> QED BY <2>1, <2>6, <2>8
  <1> QED BY <1>1, <1>2 DEF At

-----------------------------------------------------------------------------
(* The invariant. *)

\* Push stored the item and is getting the next chunk.
Filling == wpc \in {"spare", "malloc"}

\* Every allocated chunk is in the list, or the spare one, or in Pop's hand.
Owned(g, lo, hi) ==
  /\ allocated = {g[j] : j \in lo..hi} \cup ({spare, hand} \ {NoChunk})
  /\ \A j \in lo..hi : g[j] # spare /\ g[j] # hand
  /\ spare = hand => spare = NoChunk

\* The list begins at the first item not read; its end is a cell behind Back.
Ends(g, lo, hi) ==
  /\ Len(delivered) + 1 = CellNo(lo, beginPos)
  /\ Filling => /\ CellNo(hi, endPos) = Len(cells) + 3 /\ endPos = N
                /\ writing \in Items /\ Len(cells) < MaxItems
  /\ ~Filling => CellNo(hi, endPos) = Len(cells) + 2 /\ endPos < N
  /\ endPos # 0 => back = end /\ backPos = endPos - 1
  /\ endPos = 0 => lo < hi /\ back = g[hi - 1] /\ backPos = N - 1

Pointers(g, lo, hi) ==
  /\ At(g, lo, hi, w, Position(w)) /\ At(g, lo, hi, f, Position(f))
  /\ At(g, lo, hi, r, Position(r)) /\ At(g, lo, hi, c, Position(c))

\* The items that are not read are in their cells.
Contents(g, lo, hi) ==
  \A j \in lo..hi, x \in 0..(N - 1) :
    /\ Len(delivered) < CellNo(j, x) /\ CellNo(j, x) <= Len(cells) =>
         values[g[j]][x] = cells[CellNo(j, x)]
    /\ Filling /\ CellNo(j, x) = Len(cells) + 1 => values[g[j]][x] = writing

\* What Unpush walks along.
LinkedBack(g, lo, hi) == \A j \in lo..(hi - 1) : prev[g[j + 1]] = g[j]

ListInv(g, lo, hi) ==
  /\ Linked(g, lo, hi, begin, next, end) /\ LinkedBack(g, lo, hi)
  /\ Owned(g, lo, hi) /\ Ends(g, lo, hi) /\ Pointers(g, lo, hi) /\ Contents(g, lo, hi)

\* Where the threads are when they hold something.
Threads ==
  /\ rpc \in {"spare", "free"} => hand # NoChunk
  /\ rpc \notin {"spare", "free"} => hand = NoChunk
  /\ wpc = "store" => w = Null

Gone == allocated = {} /\ wpc = "idle" /\ rpc \in {"run", "empty"}

Storage ==
  /\ TypeOK /\ Threads
  /\ alive => \E g, lo, hi : ListInv(g, lo, hi)
  /\ ~alive => Gone

BatchInv == Queue!IInv /\ Storage

-----------------------------------------------------------------------------
(* What the invariant says in one state. *)

(* The types, without the history. *)
LEMMA Types ==
  ASSUME TypeOK
  PROVE  /\ Len(cells) \in Nat /\ Len(delivered) \in Nat
         /\ beginPos \in 0..(N - 1) /\ backPos \in 0..(N - 1) /\ endPos \in 0..N
         /\ begin \in Chunks /\ back \in Chunks /\ end \in Chunks
         /\ N \in Nat /\ N >= 2 /\ MaxItems \in Nat
         /\ NoChunk \notin Chunks /\ Wild \notin Chunks
  BY BatchAssumption DEF TypeOK, Front, Back, Addresses

(* Every pointer that is not null lies between the reader and f. *)
LEMMA Between ==
  ASSUME Queue!IInv, wpc = "store" => Position(w) = 0
  PROVE  /\ Position(w) \in Nat /\ Position(f) \in Nat /\ Position(r) \in Nat
         /\ Position(c) \in Nat /\ Len(delivered) \in Nat /\ Len(cells) \in Nat
         /\ Position(f) # 0 /\ Len(delivered) + 1 <= Position(f)
         /\ Position(f) <= Len(cells) + 1
         /\ Position(w) # 0 => Len(delivered) + 1 <= Position(w) /\ Position(w) <= Position(f)
         /\ Position(r) # 0 => Len(delivered) + 1 <= Position(r) /\ Position(r) <= Position(f)
         /\ Position(c) # 0 => Len(delivered) + 1 <= Position(c) /\ Position(c) <= Position(f)
         /\ wpc = "store" => Position(c) = 0
         /\ wpc # "store" => Position(c) = Position(w) \/ Position(c) = 0
         /\ rpc = "take" =>
              /\ Len(delivered) + 1 < Position(f) /\ Len(delivered) + 1 < Position(r)
              /\ Len(delivered) + 1 < Position(w) /\ Len(delivered) + 1 < Position(c)
  BY DEF Queue!IInv, Queue!TypeOK, Queue!PointerOrder, Queue!Contention, Queue!ReaderState,
         Queue!Back, Queue!NULL

(* The two ends of the queue are cells of the list. *)
LEMMA EndsAt ==
  ASSUME TypeOK, NEW g, NEW lo, NEW hi, Linked(g, lo, hi, begin, next, end), Ends(g, lo, hi)
  PROVE  /\ At(g, lo, hi, Front, Len(delivered) + 1)
         /\ ~Filling => At(g, lo, hi, Back, Len(cells) + 1)
         /\ Filling => At(g, lo, hi, Back, Len(cells) + 2)
         /\ lo \in Nat /\ hi \in Nat /\ lo <= hi
  <1>0. /\ lo \in Nat /\ hi \in Nat /\ lo <= hi /\ g[lo] = begin /\ g[hi] = end
        /\ lo \in lo..hi /\ hi \in lo..hi
    BY DEF Linked
  <1>1. At(g, lo, hi, Front, Len(delivered) + 1)
    BY <1>0, Types DEF At, Ends, Front
  <1>2. At(g, lo, hi, Back, CellNo(hi, endPos) - 1)
    <2>1. CASE endPos # 0
      <3>1. backPos \in 0..(N - 1) /\ Back = <<g[hi], backPos>> /\ backPos = endPos - 1
        BY <1>0, <2>1, Types DEF Ends, Back
      <3>2. CellNo(hi, endPos) = CellNo(hi, backPos) + 1 /\ CellNo(hi, backPos) \in Nat
        <4>1. backPos \in Nat /\ backPos + 1 = endPos
          BY <3>1, Types
        <4>2. /\ \A x \in Int : CellNo(hi, x) + 1 = CellNo(hi, x + 1)
              /\ \A x \in Nat : CellNo(hi, x) \in Nat
          BY <1>0, CellStep
        <4>3. CellNo(hi, backPos) + 1 = CellNo(hi, backPos + 1)
          BY <4>1, <4>2
        <4> QED BY <4>1, <4>2, <4>3
      <3>3. CellNo(hi, endPos) - 1 = CellNo(hi, backPos)
        BY <3>2
      <3> QED BY <1>0, <3>1, <3>3 DEF At
    <2>2. CASE endPos = 0
      <3>1. /\ hi - 1 \in lo..hi /\ hi - 1 \in Nat /\ hi - 1 + 1 = hi
            /\ backPos \in 0..(N - 1) /\ Back = <<g[hi - 1], backPos>> /\ backPos = N - 1
        BY <1>0, <2>2, Types DEF Ends, Back
      <3>2. CellNo(hi, endPos) = CellNo(hi - 1, backPos) + 1 /\ CellNo(hi - 1, backPos) \in Nat
        <4>1. CellNo(hi - 1 + 1, 0) = CellNo(hi - 1, N - 1) + 1
          BY <3>1, CellStep
        <4>2. \A x \in Nat : CellNo(hi - 1, x) \in Nat
          BY <3>1, CellStep
        <4>3. backPos \in Nat
          BY Types
        <4> QED BY <2>2, <3>1, <4>1, <4>2, <4>3
      <3>3. CellNo(hi, endPos) - 1 = CellNo(hi - 1, backPos)
        BY <3>2
      <3> QED BY <3>1, <3>3 DEF At
    <2> QED BY <2>1, <2>2
  <1>3. Len(cells) \in Nat
    BY Types
  <1>4. ~Filling => CellNo(hi, endPos) - 1 = Len(cells) + 1
    BY <1>3 DEF Ends
  <1>5. Filling => CellNo(hi, endPos) - 1 = Len(cells) + 2
    BY <1>3 DEF Ends
  <1> QED BY <1>0, <1>1, <1>2, <1>4, <1>5

(* Comparing addresses is comparing positions. *)
LEMMA SameCells ==
  ASSUME TypeOK, NEW g, NEW lo, NEW hi, ListInv(g, lo, hi)
  PROVE  /\ w = f <=> Position(w) = Position(f)
         /\ c = w <=> Position(c) = Position(w)
         /\ Front = r <=> Len(delivered) + 1 = Position(r)
         /\ c = Front <=> Position(c) = Len(delivered) + 1
         /\ w = Null <=> Position(w) = 0
         /\ r = Null <=> Position(r) = 0
         /\ c = Null <=> Position(c) = 0
         /\ ~Filling => (f = Back <=> Position(f) = Len(cells) + 1)
  <1>1. /\ lo \in Nat /\ hi \in Nat /\ g \in [Nat -> Chunks]
        /\ \A j, k \in lo..hi : g[j] = g[k] => j = k
    BY DEF ListInv, Linked
  <1>2. \A a, b, p, q : At(g, lo, hi, a, p) /\ At(g, lo, hi, b, q) => (a = b <=> p = q)
    BY <1>1, SameAddress
  <1>3. /\ At(g, lo, hi, w, Position(w)) /\ At(g, lo, hi, f, Position(f))
        /\ At(g, lo, hi, r, Position(r)) /\ At(g, lo, hi, c, Position(c))
    BY DEF ListInv, Pointers
  <1>4. /\ At(g, lo, hi, Front, Len(delivered) + 1)
        /\ ~Filling => At(g, lo, hi, Back, Len(cells) + 1)
    BY EndsAt DEF ListInv
  <1>5. At(g, lo, hi, Null, 0)
    BY DEF At
  <1> DEFINE first == Len(delivered) + 1
             last == Len(cells) + 1
  <1> HIDE DEF first, last
  <1>4a. At(g, lo, hi, Front, first)
    BY <1>4 DEF first
  <1>4b. ~Filling => At(g, lo, hi, Back, last)
    BY <1>4 DEF last
  <1>6. /\ w = f <=> Position(w) = Position(f)
        /\ c = w <=> Position(c) = Position(w)
    BY <1>2, <1>3, Zenon
  <1>7. /\ Front = r <=> first = Position(r)
        /\ c = Front <=> Position(c) = first
    BY <1>2, <1>3, <1>4a, Zenon
  <1>8. /\ w = Null <=> Position(w) = 0
        /\ r = Null <=> Position(r) = 0
        /\ c = Null <=> Position(c) = 0
    BY <1>2, <1>3, <1>5, Zenon
  <1>9. ~Filling => (f = Back <=> Position(f) = last)
    BY <1>2, <1>3, <1>4b, Zenon
  <1> QED BY <1>6, <1>7, <1>8, <1>9 DEF first, last

(* Where an address of the next list lies. *)
LEMMA NextPositions ==
  ASSUME NEW g, NEW lo, NEW hi, Linked(g, lo, hi, begin', next', end'),
         Len(delivered') \in Nat, beginPos' \in 0..(N - 1),
         Len(delivered') + 1 = CellNo(lo, beginPos')
  PROVE  /\ \A p : At(g, lo, hi, w', p) => Position(w)' = p
         /\ \A p : At(g, lo, hi, f', p) => Position(f)' = p
         /\ \A p : At(g, lo, hi, r', p) => Position(r)' = p
         /\ \A p : At(g, lo, hi, c', p) => Position(c)' = p
  <1>1. Len(delivered') + 1 - beginPos' = CellNo(lo, 0)
    <2>1. lo \in Nat /\ beginPos' \in Int
      BY BatchAssumption DEF Linked
    <2>2. CellNo(lo, beginPos') = CellNo(lo, 0) + beginPos' /\ CellNo(lo, 0) \in Nat
      BY <2>1, CellStep
    <2> QED BY <2>1, <2>2
  <1>2. \A a, p : At(g, lo, hi, a, p) =>
          PlaceIn(WalkOf(begin', next', end'), Len(delivered') + 1 - beginPos', a) = p
    BY <1>1, PlaceIs
  <1> QED BY <1>2, WalksNext

-----------------------------------------------------------------------------
(* The steps that leave the list alone. *)

(* Pointers that move within the list keep the rest of the invariant. *)
LEMMA QuietStep ==
  ASSUME TypeOK, NEW g, NEW lo, NEW hi, ListInv(g, lo, hi),
         UNCHANGED <<listVars, readEnd, writeEnd, spare, writing, hand, cells, delivered>>,
         Filling' <=> Filling,
         NEW pw, NEW pf, NEW pr, NEW pc,
         At(g, lo, hi, w', pw), At(g, lo, hi, f', pf),
         At(g, lo, hi, r', pr), At(g, lo, hi, c', pc)
  PROVE  /\ ListInv(g, lo, hi)'
         /\ Position(w)' = pw /\ Position(f)' = pf /\ Position(r)' = pr /\ Position(c)' = pc
  <1> USE DEF listVars, readEnd, writeEnd
  <1>1. Linked(g, lo, hi, begin, next, end)' /\ LinkedBack(g, lo, hi)' /\ Owned(g, lo, hi)'
    BY DEF ListInv, Linked, LinkedBack, Owned
  <1>2. Ends(g, lo, hi)'
    BY DEF ListInv, Ends
  <1>3. Contents(g, lo, hi)'
    BY DEF ListInv, Contents
  <1>4. /\ Linked(g, lo, hi, begin', next', end')
        /\ Len(delivered') \in Nat /\ beginPos' \in 0..(N - 1)
        /\ Len(delivered') + 1 = CellNo(lo, beginPos')
    BY Types DEF ListInv, Linked, Ends
  <1>5. Position(w)' = pw /\ Position(f)' = pf /\ Position(r)' = pr /\ Position(c)' = pc
    BY <1>4, NextPositions
  <1>6. Pointers(g, lo, hi)'
    BY <1>5 DEF Pointers
  <1> QED BY <1>1, <1>2, <1>3, <1>5, <1>6 DEF ListInv

\* One step of the mapped queue, or none.
QueueStep == [Queue!Next]_(Queue!vars)

(* Where the threads hold something the queue is not destroyed. *)
LEMMA StillAlive ==
  ASSUME Storage, wpc # "idle" \/ rpc \in {"take", "spare", "free"}
  PROVE  alive
  BY DEF Storage, Gone

(* The facts that every step starts from. *)
LEMMA InThisState ==
  ASSUME BatchInv, alive
  PROVE  \E g, lo, hi : ListInv(g, lo, hi) /\ Pointers(g, lo, hi) /\ (wpc = "store" => Position(w) = 0)
  <1>1. PICK g, lo, hi : ListInv(g, lo, hi)
    BY DEF BatchInv, Storage
  <1>2. wpc = "store" => Position(w) = 0
    BY <1>1, SameCells DEF BatchInv, Storage, Threads
  <1> QED BY <1>1, <1>2 DEF ListInv

(* Flush's compare-and-swap. *)
LEMMA StepFlushCas == BatchInv /\ FlushCas => Storage' /\ QueueStep
  <1> SUFFICES ASSUME BatchInv, FlushCas PROVE Storage' /\ QueueStep
    OBVIOUS
  <1>0. TypeOK /\ Queue!IInv /\ Threads
    BY DEF BatchInv, Storage
  <1>1. PICK g, lo, hi : ListInv(g, lo, hi) /\ Pointers(g, lo, hi) /\ (wpc = "store" => Position(w) = 0)
    BY InThisState DEF FlushCas
  <1>2. /\ w = f <=> Position(w) = Position(f)
        /\ c = w <=> Position(c) = Position(w)
        /\ c = Null <=> Position(c) = 0
    BY <1>0, <1>1, SameCells
  <1>3. Position(c) = Position(w) \/ Position(c) = 0
    BY <1>0, <1>1, Between DEF FlushCas
  <1>4. /\ wpc = "idle" /\ Position(w) # Position(f)
        /\ UNCHANGED <<listVars, readEnd, writeEnd, spare, f, r, rpc, writing, hand, alive, cells,
                       delivered>>
        /\ alive
    BY <1>2 DEF FlushCas
  <1>5. CASE c = w /\ c' = f /\ w' = f /\ UNCHANGED wpc
    <2>1. Filling' <=> Filling
      BY <1>5 DEF Filling
    <2>2. /\ At(g, lo, hi, w', Position(f)) /\ At(g, lo, hi, f', Position(f))
          /\ At(g, lo, hi, r', Position(r)) /\ At(g, lo, hi, c', Position(f))
      BY <1>1, <1>4, <1>5 DEF Pointers
    <2>3. /\ ListInv(g, lo, hi)'
          /\ Position(w)' = Position(f) /\ Position(f)' = Position(f)
          /\ Position(r)' = Position(r) /\ Position(c)' = Position(f)
      BY <1>0, <1>1, <1>4, <2>1, <2>2, QuietStep
    <2>4. Queue!FlushCas
      BY <1>2, <1>4, <1>5, <2>3 DEF Queue!FlushCas, Queue!readerVars
    <2>5. TypeOK' /\ Threads'
      BY <1>0, <1>4, <1>5 DEF TypeOK, Threads, listVars, readEnd, writeEnd, Front, Back
    <2> QED BY <1>4, <2>3, <2>4, <2>5 DEF Storage, QueueStep, Queue!Next, Queue!WriterStep
  <1>6. CASE c # w /\ w' = c /\ wpc' = "store" /\ UNCHANGED c
    <2>1. Filling' <=> Filling
      BY <1>4, <1>6 DEF Filling
    <2>2. /\ At(g, lo, hi, w', Position(c)) /\ At(g, lo, hi, f', Position(f))
          /\ At(g, lo, hi, r', Position(r)) /\ At(g, lo, hi, c', Position(c))
      BY <1>1, <1>4, <1>6 DEF Pointers
    <2>3. /\ ListInv(g, lo, hi)'
          /\ Position(w)' = Position(c) /\ Position(f)' = Position(f)
          /\ Position(r)' = Position(r) /\ Position(c)' = Position(c)
      BY <1>0, <1>1, <1>4, <2>1, <2>2, QuietStep
    <2>4. Queue!FlushCas
      BY <1>2, <1>4, <1>6, <2>3 DEF Queue!FlushCas, Queue!readerVars
    <2>5. TypeOK' /\ Threads'
      BY <1>0, <1>2, <1>3, <1>4, <1>6 DEF TypeOK, Threads, listVars, readEnd, writeEnd, Front, Back
    <2> QED BY <1>4, <2>3, <2>4, <2>5 DEF Storage, QueueStep, Queue!Next, Queue!WriterStep
  <1> QED BY <1>5, <1>6 DEF FlushCas

(* Flush's store after the failed swap. *)
LEMMA StepFlushStore == BatchInv /\ FlushStore => Storage' /\ QueueStep
  <1> SUFFICES ASSUME BatchInv, FlushStore PROVE Storage' /\ QueueStep
    OBVIOUS
  <1>0. TypeOK /\ Threads /\ alive
    BY StillAlive DEF BatchInv, Storage, FlushStore
  <1>1. PICK g, lo, hi : ListInv(g, lo, hi) /\ Pointers(g, lo, hi) /\ (wpc = "store" => Position(w) = 0)
    BY <1>0, InThisState
  <1>2. Filling' <=> Filling
    BY DEF Filling, FlushStore
  <1>3. /\ At(g, lo, hi, w', Position(f)) /\ At(g, lo, hi, f', Position(f))
        /\ At(g, lo, hi, r', Position(r)) /\ At(g, lo, hi, c', Position(f))
    BY <1>1 DEF Pointers, FlushStore
  <1>4. /\ ListInv(g, lo, hi)'
        /\ Position(w)' = Position(f) /\ Position(f)' = Position(f)
        /\ Position(r)' = Position(r) /\ Position(c)' = Position(f)
    BY <1>0, <1>1, <1>2, <1>3, QuietStep DEF FlushStore
  <1>5. Queue!FlushStore
    BY <1>4 DEF FlushStore, Queue!FlushStore, Queue!readerVars
  <1>6. TypeOK' /\ Threads'
    BY <1>0 DEF FlushStore, TypeOK, Threads, listVars, readEnd, writeEnd, Front, Back
  <1> QED BY <1>0, <1>4, <1>5, <1>6
           DEF FlushStore, Storage, QueueStep, Queue!Next, Queue!WriterStep

(* The steps of the threads that move no pointer: Wake and Retry. *)
LEMMA StepWake == BatchInv /\ Wake => Storage' /\ QueueStep
  <1> SUFFICES ASSUME BatchInv, Wake PROVE Storage' /\ QueueStep
    OBVIOUS
  <1>0. TypeOK /\ Threads /\ alive
    BY StillAlive DEF BatchInv, Storage, Wake
  <1>1. PICK g, lo, hi : ListInv(g, lo, hi) /\ Pointers(g, lo, hi) /\ (wpc = "store" => Position(w) = 0)
    BY <1>0, InThisState
  <1>2. Filling' <=> Filling
    BY DEF Filling, Wake
  <1>3. /\ At(g, lo, hi, w', Position(w)) /\ At(g, lo, hi, f', Position(f))
        /\ At(g, lo, hi, r', Position(r)) /\ At(g, lo, hi, c', Position(c))
    BY <1>1 DEF Pointers, Wake
  <1>4. /\ ListInv(g, lo, hi)'
        /\ Position(w)' = Position(w) /\ Position(f)' = Position(f)
        /\ Position(r)' = Position(r) /\ Position(c)' = Position(c)
    BY <1>0, <1>1, <1>2, <1>3, QuietStep DEF Wake
  <1>5. Queue!Wake
    BY <1>4 DEF Wake, Queue!Wake
  <1>6. TypeOK' /\ Threads'
    BY <1>0 DEF Wake, TypeOK, Threads, listVars, readEnd, writeEnd, Front, Back
  <1> QED BY <1>0, <1>4, <1>5, <1>6
           DEF Wake, Storage, QueueStep, Queue!Next, Queue!WriterStep

(* A reader that looks again touches no chunk. *)
LEMMA StepRetry == BatchInv /\ Retry => Storage' /\ QueueStep
  <1> SUFFICES ASSUME BatchInv, Retry PROVE Storage' /\ QueueStep
    OBVIOUS
  <1>0. TypeOK /\ Threads /\ alive
    BY DEF BatchInv, Storage, Retry
  <1>1. PICK g, lo, hi : ListInv(g, lo, hi) /\ Pointers(g, lo, hi) /\ (wpc = "store" => Position(w) = 0)
    BY <1>0, InThisState
  <1>2. Filling' <=> Filling
    BY DEF Filling, Retry
  <1>3. /\ At(g, lo, hi, w', Position(w)) /\ At(g, lo, hi, f', Position(f))
        /\ At(g, lo, hi, r', Position(r)) /\ At(g, lo, hi, c', Position(c))
    BY <1>1 DEF Pointers, Retry
  <1>4. /\ ListInv(g, lo, hi)'
        /\ Position(w)' = Position(w) /\ Position(f)' = Position(f)
        /\ Position(r)' = Position(r) /\ Position(c)' = Position(c)
    BY <1>0, <1>1, <1>2, <1>3, QuietStep DEF Retry
  <1>5. Queue!Retry
    BY <1>4 DEF Retry, Queue!Retry, Queue!writerVars
  <1>6. TypeOK' /\ Threads'
    BY <1>0 DEF Retry, TypeOK, Threads, listVars, readEnd, writeEnd, Front, Back
  <1> QED BY <1>0, <1>4, <1>5, <1>6
           DEF Retry, Storage, QueueStep, Queue!Next, Queue!ReaderStep

(* CheckRead's swap. *)
LEMMA StepCheckRead == BatchInv /\ CheckRead => Storage' /\ QueueStep
  <1> SUFFICES ASSUME BatchInv, CheckRead PROVE Storage' /\ QueueStep
    OBVIOUS
  <1>0. TypeOK /\ Threads /\ alive
    BY DEF BatchInv, Storage, CheckRead
  <1>1. PICK g, lo, hi : ListInv(g, lo, hi) /\ Pointers(g, lo, hi) /\ (wpc = "store" => Position(w) = 0)
    BY <1>0, InThisState
  <1>2. /\ Front = r <=> Len(delivered) + 1 = Position(r)
        /\ c = Front <=> Position(c) = Len(delivered) + 1
        /\ r = Null <=> Position(r) = 0
        /\ c = Null <=> Position(c) = 0
    BY <1>0, <1>1, SameCells
  <1>3. /\ UNCHANGED <<listVars, readEnd, writeEnd, spare, w, f, wpc, writing, hand, alive, cells,
                       delivered>>
        /\ rpc = "run"
    BY DEF CheckRead
  <1>4. Filling' <=> Filling
    BY <1>3 DEF Filling
  <1>5. CASE Front # r /\ r # Null /\ rpc' = "take" /\ UNCHANGED <<r, c>>
    <2>1. /\ At(g, lo, hi, w', Position(w)) /\ At(g, lo, hi, f', Position(f))
          /\ At(g, lo, hi, r', Position(r)) /\ At(g, lo, hi, c', Position(c))
      BY <1>1, <1>3, <1>5 DEF Pointers
    <2>2. /\ ListInv(g, lo, hi)'
          /\ Position(w)' = Position(w) /\ Position(f)' = Position(f)
          /\ Position(r)' = Position(r) /\ Position(c)' = Position(c)
      BY <1>0, <1>1, <1>3, <1>4, <2>1, QuietStep
    <2>3. Queue!CheckRead
      BY <1>2, <1>3, <1>5, <2>2
         DEF Queue!CheckRead, Queue!Prefetched, Queue!NULL, Queue!writerVars
    <2>4. TypeOK' /\ Threads'
      BY <1>0, <1>3, <1>5 DEF TypeOK, Threads, listVars, readEnd, writeEnd, Front, Back
    <2> QED BY <1>0, <1>3, <2>2, <2>3, <2>4 DEF Storage, QueueStep, Queue!Next, Queue!ReaderStep
  <1>6. CASE /\ ~(Front # r /\ r # Null) /\ r' = c
             /\ c' = IF c = Front THEN Null ELSE c
             /\ rpc' = IF r' \in {Front, Null} THEN "empty" ELSE "take"
    <2> DEFINE pc == IF Position(c) = Len(delivered) + 1 THEN 0 ELSE Position(c)
    <2>0. At(g, lo, hi, Null, 0)
      BY DEF At
    <2>1. At(g, lo, hi, c', pc)
      <3>1. CASE c = Front
        BY <1>2, <1>6, <2>0, <3>1
      <3>2. CASE c # Front
        BY <1>1, <1>2, <1>6, <3>2 DEF Pointers
      <3> QED BY <3>1, <3>2
    <2> HIDE DEF pc
    <2>2. /\ At(g, lo, hi, w', Position(w)) /\ At(g, lo, hi, f', Position(f))
          /\ At(g, lo, hi, r', Position(c))
      BY <1>1, <1>3, <1>6 DEF Pointers
    <2>3. /\ ListInv(g, lo, hi)'
          /\ Position(w)' = Position(w) /\ Position(f)' = Position(f)
          /\ Position(r)' = Position(c) /\ Position(c)' = pc
      BY <1>0, <1>1, <1>3, <1>4, <2>1, <2>2, QuietStep
    <2>4. r' \in {Front, Null} <=> Position(r)' \in {Len(delivered) + 1, 0}
      BY <1>2, <1>6, <2>3
    <2>5. rpc' = IF Position(r)' \in {Len(delivered) + 1, 0} THEN "empty" ELSE "take"
      BY <1>6, <2>4
    <2>6. ~(Len(delivered) + 1 # Position(r) /\ Position(r) # 0)
      BY <1>2, <1>6
    <2>7. Queue!CheckRead
      BY <1>3, <2>3, <2>5, <2>6
         DEF Queue!CheckRead, Queue!Prefetched, Queue!NULL, Queue!writerVars, pc
    <2>8. TypeOK' /\ Threads'
      <3>1. rpc' \in {"empty", "take"} /\ c' \in {c, Null} /\ r' = c
        BY <1>6
      <3>2. TypeOK'
        BY <1>0, <1>3, <3>1 DEF TypeOK, listVars, readEnd, writeEnd, Front, Back
      <3> QED BY <1>0, <1>3, <3>1, <3>2 DEF Threads
    <2> QED BY <1>0, <1>3, <2>3, <2>7, <2>8 DEF Storage, QueueStep, Queue!Next, Queue!ReaderStep
  <1> QED BY <1>5, <1>6 DEF CheckRead

(* A step that moves no pointer and counts no item is none of the queue's. *)
LEMMA SilentStep ==
  ASSUME UNCHANGED <<begin, beginPos, next, end, delivered, cells, w, f, r, c>>,
         wpc' = wpc \/ (wpc \in {"idle", "spare", "malloc"} /\ wpc' \in {"idle", "spare", "malloc"}),
         rpc' = rpc \/ (rpc \in {"run", "spare", "free"} /\ rpc' \in {"run", "spare", "free"})
  PROVE  /\ QueueStep
         /\ Position(w)' = Position(w) /\ Position(f)' = Position(f)
         /\ Position(r)' = Position(r) /\ Position(c)' = Position(c)
  <1>1. ChunkAt' = ChunkAt
    BY Walks, WalksNext
  <1>2. /\ Position(w)' = Position(w) /\ Position(f)' = Position(f)
        /\ Position(r)' = Position(r) /\ Position(c)' = Position(c)
    BY <1>1 DEF Position, IndexOf
  <1>3. UNCHANGED Queue!vars
    BY <1>2 DEF Queue!vars
  <1> QED BY <1>2, <1>3 DEF QueueStep

(* Pop's exchange of the spare chunk. *)
LEMMA StepPopSpare == BatchInv /\ PopSpare => Storage' /\ QueueStep
  <1> SUFFICES ASSUME BatchInv, PopSpare PROVE Storage' /\ QueueStep
    OBVIOUS
  <1>0. TypeOK /\ Threads /\ alive
    BY StillAlive DEF BatchInv, Storage, PopSpare
  <1>1. PICK g, lo, hi : ListInv(g, lo, hi)
    BY <1>0, InThisState
  <1>2. /\ UNCHANGED <<listVars, readEnd, writeEnd, w, f, r, c, wpc, writing, alive, cells,
                       delivered>>
        /\ rpc = "spare" /\ spare' = hand /\ hand' = spare
        /\ rpc' \in {"run", "free"} /\ (rpc' = "run" <=> spare = NoChunk)
    BY DEF PopSpare
  <1>3. /\ QueueStep
        /\ Position(w)' = Position(w) /\ Position(f)' = Position(f)
        /\ Position(r)' = Position(r) /\ Position(c)' = Position(c)
    BY <1>2, SilentStep DEF listVars, readEnd, writeEnd
  <1>4. Owned(g, lo, hi)'
    <2>1. {spare', hand'} = {spare, hand}
      BY <1>2
    <2> QED BY <1>1, <1>2, <2>1 DEF ListInv, Owned, listVars
  <1>5. Linked(g, lo, hi, begin, next, end)' /\ LinkedBack(g, lo, hi)' /\ Ends(g, lo, hi)'
    BY <1>1, <1>2 DEF ListInv, Linked, LinkedBack, Ends, Filling, listVars, readEnd, writeEnd
  <1>6. Contents(g, lo, hi)'
    BY <1>1, <1>2 DEF ListInv, Contents, Filling, listVars
  <1>7. Pointers(g, lo, hi)'
    BY <1>1, <1>2, <1>3 DEF ListInv, Pointers
  <1>8. ListInv(g, lo, hi)'
    BY <1>4, <1>5, <1>6, <1>7 DEF ListInv
  <1>9. TypeOK' /\ Threads'
    <2>1. TypeOK'
      BY <1>0, <1>2 DEF TypeOK, Front, Back, listVars, readEnd, writeEnd
    <2> QED BY <1>0, <1>2, <2>1 DEF Threads
  <1> QED BY <1>0, <1>2, <1>3, <1>8, <1>9 DEF Storage

(* Pop's free of the old spare chunk. *)
LEMMA StepPopFree == BatchInv /\ PopFree => Storage' /\ QueueStep
  <1> SUFFICES ASSUME BatchInv, PopFree PROVE Storage' /\ QueueStep
    OBVIOUS
  <1>0. TypeOK /\ Threads /\ alive
    BY StillAlive DEF BatchInv, Storage, PopFree
  <1>1. PICK g, lo, hi : ListInv(g, lo, hi)
    BY <1>0, InThisState
  <1>2. /\ UNCHANGED <<values, prev, next, readEnd, writeEnd, spare, w, f, r, c, wpc, writing,
                       alive, cells, delivered>>
        /\ rpc = "free" /\ rpc' = "run" /\ hand' = NoChunk /\ hand # NoChunk
        /\ allocated' = allocated \ {hand}
    BY <1>0 DEF PopFree, Threads
  <1>3. /\ QueueStep
        /\ Position(w)' = Position(w) /\ Position(f)' = Position(f)
        /\ Position(r)' = Position(r) /\ Position(c)' = Position(c)
    BY <1>2, SilentStep DEF readEnd, writeEnd
  <1>4. Owned(g, lo, hi)'
    <2>0. /\ Owned(g, lo, hi) /\ g \in [Nat -> Chunks] /\ lo..hi \subseteq Nat
          /\ NoChunk \notin Chunks
      BY <1>0, <1>1, Types DEF ListInv, Linked
    <2>1. spare # hand
      BY <1>2, <2>0 DEF Owned
    <2>2. \A j \in lo..hi : g[j] # hand /\ g[j] \in Chunks /\ g[j] # spare
      BY <2>0 DEF Owned
    <2>3. allocated' = {g[j] : j \in lo..hi} \cup ({spare', hand'} \ {NoChunk})
      <3> DEFINE list == {g[j] : j \in lo..hi}
      <3>1. allocated = list \cup ({spare, hand} \ {NoChunk}) /\ hand \notin list
        BY <2>0, <2>2 DEF Owned
      <3> HIDE DEF list
      <3>2. allocated' = list \cup ({spare', hand'} \ {NoChunk})
        BY <1>2, <2>1, <3>1
      <3> QED BY <3>2 DEF list
    <2>4. \A j \in lo..hi : g[j] # spare' /\ g[j] # hand'
      BY <1>2, <2>0, <2>2
    <2> QED BY <1>2, <2>3, <2>4 DEF Owned
  <1>5. Linked(g, lo, hi, begin, next, end)' /\ LinkedBack(g, lo, hi)' /\ Ends(g, lo, hi)'
    BY <1>1, <1>2 DEF ListInv, Linked, LinkedBack, Ends, Filling, readEnd, writeEnd
  <1>6. Contents(g, lo, hi)'
    BY <1>1, <1>2 DEF ListInv, Contents, Filling
  <1>7. Pointers(g, lo, hi)'
    BY <1>1, <1>2, <1>3 DEF ListInv, Pointers
  <1>8. ListInv(g, lo, hi)'
    BY <1>4, <1>5, <1>6, <1>7 DEF ListInv
  <1>9. TypeOK' /\ Threads'
    <2>1. TypeOK'
      BY <1>0, <1>2 DEF TypeOK, Front, Back, readEnd, writeEnd
    <2> QED BY <1>0, <1>2, <2>1 DEF Threads
  <1> QED BY <1>0, <1>2, <1>3, <1>8, <1>9 DEF Storage

(* The destructor: what it walks over and the spare chunk are all there is. *)
LEMMA StepDestroy == BatchInv /\ Destroy => Storage' /\ QueueStep
  <1> SUFFICES ASSUME BatchInv, Destroy PROVE Storage' /\ QueueStep
    OBVIOUS
  <1>0. TypeOK /\ Threads /\ alive
    BY DEF BatchInv, Storage, Destroy
  <1>1. PICK g, lo, hi : ListInv(g, lo, hi)
    BY <1>0, InThisState
  <1>2. /\ UNCHANGED <<values, prev, next, readEnd, writeEnd, w, f, r, c, wpc, rpc, writing, hand,
                       cells, delivered>>
        /\ wpc = "idle" /\ rpc \in {"run", "empty"} /\ spare' = NoChunk /\ ~alive'
        /\ alive' \in BOOLEAN
        /\ allocated' = allocated \ (Chain \cup {spare})
    BY DEF Destroy
  <1>3. QueueStep
    BY <1>2, SilentStep DEF readEnd, writeEnd
  <1>4. Chain = {g[j] : j \in lo..hi}
    <2>1. Linked(g, lo, hi, begin, next, end)
      BY <1>1 DEF ListInv
    <2>2. {WalkOf(begin, next, end)[i] : i \in 1..Cardinality(Chunks)} = {g[j] : j \in lo..hi}
      BY <2>1, WalkedChunks
    <2> QED BY <2>2, Walks, Zenon
  <1>5. allocated' = {}
    <2>1. hand = NoChunk
      BY <1>0, <1>2 DEF Threads
    <2> QED BY <1>1, <1>2, <1>4, <2>1 DEF ListInv, Owned
  <1>6. TypeOK' /\ Threads'
    BY <1>0, <1>2, <1>5 DEF TypeOK, Threads, Front, Back, readEnd, writeEnd
  <1> QED BY <1>2, <1>3, <1>5, <1>6 DEF Storage, Gone

-----------------------------------------------------------------------------
(* The writer's steps. *)

\* Write's store.
Stores(x) == values' = [values EXCEPT ![back][backPos] = x]

(* Write puts the item into the cell that was the terminator's. *)
LEMMA StoredAtBack ==
  ASSUME TypeOK, NEW g, NEW lo, NEW hi, ListInv(g, lo, hi), ~Filling,
         NEW x, Stores(x),
         NEW j \in lo..hi, NEW y \in 0..(N - 1)
  PROVE  /\ CellNo(j, y) = Len(cells) + 1 => values'[g[j]][y] = x
         /\ Len(delivered) < CellNo(j, y) /\ CellNo(j, y) <= Len(cells) =>
              values'[g[j]][y] = cells[CellNo(j, y)]
  <1>1. /\ lo \in Nat /\ hi \in Nat /\ g \in [Nat -> Chunks] /\ j \in Nat
        /\ \A i, k \in lo..hi : g[i] = g[k] => i = k
    BY DEF ListInv, Linked
  <1>2. Len(cells) \in Nat /\ backPos \in 0..(N - 1) /\ back \in Chunks
    BY Types
  <1>3. At(g, lo, hi, Back, Len(cells) + 1)
    BY EndsAt DEF ListInv
  <1>4. PICK k \in lo..hi, z \in 0..(N - 1) : Back = <<g[k], z>> /\ Len(cells) + 1 = CellNo(k, z)
    <2>1. Len(cells) + 1 # 0
      BY <1>2
    <2> QED BY <1>3, <2>1 DEF At
  <1>5. k \in Nat /\ back = g[k] /\ backPos = z
    BY <1>1, <1>4 DEF Back
  <1>6. CellNo(j, y) \in Nat /\ (CellNo(j, y) = CellNo(k, z) => j = k /\ y = z)
    BY <1>1, <1>5, CellOrder
  <1>7. values \in [Chunks -> [0..(N - 1) -> Items \cup {Wild}]]
    BY DEF TypeOK
  <1>8. ASSUME j = k, y = z PROVE values'[g[j]][y] = x
    BY <1>1, <1>2, <1>5, <1>7, <1>8 DEF Stores
  <1>9. ASSUME ~(j = k /\ y = z) PROVE values'[g[j]][y] = values[g[j]][y]
    <2>1. CASE j # k
      <3>1. g[j] # back /\ g[j] \in Chunks
        BY <1>1, <1>5, <2>1
      <3> QED BY <1>2, <1>7, <3>1 DEF Stores
    <2>2. CASE j = k
      <3>1. g[j] = back /\ y # backPos
        BY <1>5, <1>9, <2>2
      <3> QED BY <1>2, <1>7, <3>1 DEF Stores
    <2> QED BY <2>1, <2>2
  <1>10. CellNo(j, y) = Len(cells) + 1 => j = k /\ y = z
    BY <1>4, <1>6
  <1>11. CellNo(j, y) <= Len(cells) => ~(j = k /\ y = z)
    BY <1>2, <1>4, <1>6
  <1>12. Len(delivered) < CellNo(j, y) /\ CellNo(j, y) <= Len(cells) =>
           values[g[j]][y] = cells[CellNo(j, y)]
    BY DEF ListInv, Contents
  <1> QED BY <1>8, <1>9, <1>10, <1>11, <1>12

(* Where the terminator goes, in the chunk that is at the end. *)
LEMMA NextBack ==
  ASSUME TypeOK, NEW g, NEW lo, NEW hi, ListInv(g, lo, hi), ~Filling
  PROVE  /\ endPos \in 0..(N - 1) /\ lo \in Nat /\ hi \in Nat /\ hi \in lo..hi /\ g[hi] = end
         /\ CellNo(hi, endPos) = Len(cells) + 2
         /\ CellNo(hi, endPos + 1) = Len(cells) + 3
         /\ At(g, lo, hi, <<end, endPos>>, Len(cells) + 2)
  <1>1. /\ endPos \in 0..(N - 1) /\ lo \in Nat /\ hi \in Nat /\ hi \in lo..hi /\ g[hi] = end
        /\ CellNo(hi, endPos) = Len(cells) + 2 /\ Len(cells) \in Nat
    BY Types DEF ListInv, Linked, Ends
  <1>2. CellNo(hi, endPos) + 1 = CellNo(hi, endPos + 1)
    <2>1. \A x \in Int : CellNo(hi, x) + 1 = CellNo(hi, x + 1)
      BY <1>1, CellStep
    <2> QED BY <1>1, <2>1
  <1>3. At(g, lo, hi, <<end, endPos>>, Len(cells) + 2)
    <2>1. <<end, endPos>> = <<g[hi], endPos>> /\ Len(cells) + 2 = CellNo(hi, endPos)
      BY <1>1
    <2> QED BY <1>1, <2>1 DEF At
  <1>4. CellNo(hi, endPos + 1) = Len(cells) + 3
    BY <1>1, <1>2
  <1> QED BY <1>1, <1>3, <1>4

(* Write in the middle of a chunk. *)
LEMMA StepWriteHere ==
  ASSUME BatchInv, NEW x \in Items, Write(x), endPos' # N, Written(x)
  PROVE  Storage' /\ QueueStep
  <1>0. TypeOK /\ Threads /\ alive /\ ~Filling /\ ~Filling'
    BY DEF BatchInv, Storage, Write, Written, Filling
  <1>1. PICK g, lo, hi : ListInv(g, lo, hi)
    BY <1>0, InThisState
  <1>2. /\ UNCHANGED <<allocated, prev, next, readEnd, end, spare, w, r, c, rpc, hand, alive,
                       delivered>>
        /\ wpc = "idle" /\ wpc' = "idle" /\ Len(cells) < MaxItems
        /\ values' = [values EXCEPT ![back][backPos] = x]
        /\ back' = end /\ backPos' = endPos /\ endPos' = endPos + 1
        /\ cells' = Append(cells, x) /\ writing' = Wild
        /\ f' = IF x.more THEN f ELSE Back'
    BY DEF Write, Written
  <1>3. /\ endPos \in 0..(N - 1) /\ lo \in Nat /\ hi \in Nat /\ hi \in lo..hi /\ g[hi] = end
        /\ CellNo(hi, endPos) = Len(cells) + 2 /\ CellNo(hi, endPos + 1) = Len(cells) + 3
        /\ At(g, lo, hi, <<end, endPos>>, Len(cells) + 2)
    BY <1>0, <1>1, NextBack
  <1>4. /\ Len(cells) \in Nat /\ Len(delivered) \in Nat /\ beginPos \in 0..(N - 1)
        /\ N \in Nat /\ N >= 2 /\ end \in Chunks
    BY <1>0, Types
  <1>5. /\ cells' \in Seq(Items) /\ Len(cells') = Len(cells) + 1 /\ cells'[Len(cells) + 1] = x
        /\ \A i \in 1..Len(cells) : cells'[i] = cells[i]
    BY <1>0, <1>2 DEF TypeOK
  <1>6. Linked(g, lo, hi, begin, next, end)' /\ LinkedBack(g, lo, hi)' /\ Owned(g, lo, hi)'
    BY <1>1, <1>2 DEF ListInv, Linked, LinkedBack, Owned, readEnd
  <1>7. Ends(g, lo, hi)'
    <2>1. Len(delivered') + 1 = CellNo(lo, beginPos')
      BY <1>1, <1>2 DEF ListInv, Ends, readEnd
    <2>2. CellNo(hi, endPos') = Len(cells') + 2 /\ endPos' < N /\ endPos' # 0
      BY <1>2, <1>3, <1>4, <1>5
    <2>3. back' = end' /\ backPos' = endPos' - 1
      BY <1>2, <1>3, <1>4
    <2> QED BY <1>0, <2>1, <2>2, <2>3 DEF Ends
  <1>8. Contents(g, lo, hi)'
    <2> SUFFICES ASSUME NEW j \in lo..hi, NEW y \in 0..(N - 1),
                        Len(delivered) < CellNo(j, y), CellNo(j, y) <= Len(cells')
                 PROVE  values'[g[j]][y] = cells'[CellNo(j, y)]
      BY <1>0, <1>2 DEF Contents
    <2>1. /\ CellNo(j, y) = Len(cells) + 1 => values'[g[j]][y] = x
          /\ Len(delivered) < CellNo(j, y) /\ CellNo(j, y) <= Len(cells) =>
               values'[g[j]][y] = cells[CellNo(j, y)]
      <3>1. Stores(x) /\ TypeOK /\ ~Filling
        BY <1>0, <1>2 DEF Stores
      <3> QED BY <1>1, <3>1, StoredAtBack
    <2>2. CellNo(j, y) \in Nat
      <3>1. j \in Nat /\ y \in Nat
        BY <1>3, <1>4
      <3> QED BY <3>1, CellStep
    <2> QED BY <1>4, <1>5, <2>1, <2>2
  <1>9. /\ At(g, lo, hi, w', Position(w)) /\ At(g, lo, hi, r', Position(r))
        /\ At(g, lo, hi, c', Position(c))
        /\ At(g, lo, hi, f', IF x.more THEN Position(f) ELSE Len(cells) + 2)
    <2>1. Back' = <<end, endPos>>
      BY <1>2 DEF Back
    <2> QED BY <1>1, <1>2, <1>3, <2>1 DEF ListInv, Pointers
  <1>10. /\ Position(w)' = Position(w) /\ Position(r)' = Position(r) /\ Position(c)' = Position(c)
         /\ Position(f)' = IF x.more THEN Position(f) ELSE Len(cells) + 2
    <2>1. Linked(g, lo, hi, begin', next', end') /\ Len(delivered') + 1 = CellNo(lo, beginPos')
      BY <1>6, <1>7 DEF Linked, Ends
    <2>2. Len(delivered') \in Nat /\ beginPos' \in 0..(N - 1)
      BY <1>2, <1>4 DEF readEnd
    <2> QED BY <1>9, <2>1, <2>2, NextPositions
  <1>11. Pointers(g, lo, hi)'
    BY <1>9, <1>10 DEF Pointers
  <1>12. Queue!Write(x)
    BY <1>2, <1>4, <1>10 DEF Queue!Write, Queue!Back, Queue!readerVars
  <1>13. TypeOK' /\ Threads'
    <2>1. values' \in [Chunks -> [0..(N - 1) -> Items \cup {Wild}]]
      BY <1>0, <1>2 DEF TypeOK
    <2>2. Back' \in Addresses /\ f' \in Addresses /\ endPos' \in 0..N
      BY <1>0, <1>2, <1>3, <1>4 DEF TypeOK, Back, Addresses
    <2> QED BY <1>0, <1>2, <1>5, <2>1, <2>2 DEF TypeOK, Threads, Front, readEnd
  <1> QED BY <1>0, <1>2, <1>6, <1>7, <1>8, <1>11, <1>12, <1>13
           DEF ListInv, Storage, QueueStep, Queue!Next, Queue!WriterStep, Queue!Items, Items

(* Write in the last cell of a chunk: the item does not count yet. *)
LEMMA StepWriteLast ==
  ASSUME BatchInv, NEW x \in Items, Write(x), endPos' = N, wpc' = "spare", writing' = x,
         UNCHANGED <<f, cells>>
  PROVE  Storage' /\ QueueStep
  <1>0. TypeOK /\ Threads /\ alive /\ ~Filling /\ Filling'
    BY DEF BatchInv, Storage, Write, Filling
  <1>1. PICK g, lo, hi : ListInv(g, lo, hi)
    BY <1>0, InThisState
  <1>2. /\ UNCHANGED <<allocated, prev, next, readEnd, end, spare, f, w, r, c, rpc, hand, alive,
                       cells, delivered>>
        /\ wpc = "idle" /\ wpc' = "spare" /\ Len(cells) < MaxItems
        /\ Stores(x) /\ writing' = x
        /\ back' = end /\ backPos' = endPos /\ endPos' = endPos + 1 /\ endPos' = N
    BY DEF Write, Stores
  <1>3. /\ endPos \in 0..(N - 1) /\ lo \in Nat /\ hi \in Nat /\ hi \in lo..hi /\ g[hi] = end
        /\ CellNo(hi, endPos) = Len(cells) + 2 /\ CellNo(hi, endPos + 1) = Len(cells) + 3
    BY <1>0, <1>1, NextBack
  <1>4. /\ Len(cells) \in Nat /\ Len(delivered) \in Nat /\ N \in Nat /\ N >= 2 /\ end \in Chunks
    BY <1>0, Types
  <1>5. /\ QueueStep
        /\ Position(w)' = Position(w) /\ Position(f)' = Position(f)
        /\ Position(r)' = Position(r) /\ Position(c)' = Position(c)
    BY <1>2, SilentStep DEF readEnd
  <1>6. Linked(g, lo, hi, begin, next, end)' /\ LinkedBack(g, lo, hi)' /\ Owned(g, lo, hi)'
    BY <1>1, <1>2 DEF ListInv, Linked, LinkedBack, Owned, readEnd
  <1>7. Ends(g, lo, hi)'
    <2>1. Len(delivered') + 1 = CellNo(lo, beginPos')
      BY <1>1, <1>2 DEF ListInv, Ends, readEnd
    <2>2. /\ CellNo(hi, endPos') = Len(cells') + 3 /\ endPos' = N /\ endPos' # 0
          /\ writing' \in Items /\ Len(cells') < MaxItems
      BY <1>2, <1>3, <1>4
    <2>3. back' = end' /\ backPos' = endPos' - 1
      BY <1>2, <1>3, <1>4
    <2> QED BY <1>0, <2>1, <2>2, <2>3 DEF Ends
  <1>8. Contents(g, lo, hi)'
    <2> SUFFICES ASSUME NEW j \in lo..hi, NEW y \in 0..(N - 1)
                 PROVE  /\ CellNo(j, y) = Len(cells) + 1 => values'[g[j]][y] = x
                        /\ Len(delivered) < CellNo(j, y) /\ CellNo(j, y) <= Len(cells) =>
                             values'[g[j]][y] = cells[CellNo(j, y)]
      BY <1>0, <1>2 DEF Contents
    <2> QED BY <1>0, <1>1, <1>2, StoredAtBack
  <1>9. Pointers(g, lo, hi)'
    BY <1>1, <1>2, <1>5 DEF ListInv, Pointers
  <1>10. TypeOK' /\ Threads'
    <2>1. values' \in [Chunks -> [0..(N - 1) -> Items \cup {Wild}]]
      BY <1>0, <1>2 DEF TypeOK, Stores
    <2>2. Back' \in Addresses /\ endPos' \in 0..N
      BY <1>2, <1>3, <1>4 DEF Back, Addresses
    <2> QED BY <1>0, <1>2, <2>1, <2>2 DEF TypeOK, Threads, Front, readEnd
  <1> QED BY <1>0, <1>2, <1>5, <1>6, <1>7, <1>8, <1>9, <1>10 DEF ListInv, Storage

(* Push puts a chunk that was nowhere behind the end, and the item counts. *)
LEMMA Linking ==
  ASSUME TypeOK, NEW g, NEW lo, NEW hi, ListInv(g, lo, hi), Filling,
         NEW k \in Chunks, \A j \in lo..hi : g[j] # k,
         end' = k, endPos' = 0, Written(writing),
         UNCHANGED <<back, backPos, readEnd, w, r, c, rpc, delivered>>,
         next'[end] = k, \A j \in lo..(hi - 1) : next'[g[j]] = next[g[j]],
         prev'[k] = end, \A j \in (lo + 1)..hi : prev'[g[j]] = prev[g[j]],
         \A j \in lo..hi : values'[g[j]] = values[g[j]]
  PROVE  /\ \E h : /\ \A j \in lo..hi : h[j] = g[j]
                   /\ h[hi + 1] = k
                   /\ Linked(h, lo, hi + 1, begin, next, end)' /\ LinkedBack(h, lo, hi + 1)'
                   /\ Ends(h, lo, hi + 1)' /\ Contents(h, lo, hi + 1)' /\ Pointers(h, lo, hi + 1)'
         /\ Queue!Write(writing)
         /\ cells' \in Seq(Items) /\ f' \in {f, Back} /\ wpc' = "idle" /\ writing' = Wild
  <1>1. /\ lo \in Nat /\ hi \in Nat /\ lo <= hi /\ g \in [Nat -> Chunks] /\ g[lo] = begin
        /\ g[hi] = end /\ hi + 1 \in Nat /\ hi \in lo..hi
        /\ \A i, j \in lo..hi : g[i] = g[j] => i = j
        /\ \A j \in lo..(hi - 1) : next[g[j]] = g[j + 1]
        /\ \A j \in lo..(hi - 1) : prev[g[j + 1]] = g[j]
    BY DEF ListInv, Linked, LinkedBack
  <1>2. PICK h : h \in [Nat -> Chunks] /\ h[hi + 1] = k /\ \A j \in lo..hi : h[j] = g[j]
    <2> DEFINE m == [g EXCEPT ![hi + 1] = k]
    <2>1. m \in [Nat -> Chunks] /\ m[hi + 1] = k /\ \A j \in lo..hi : m[j] = g[j]
      BY <1>1
    <2> QED BY <2>1
  <1>3. /\ Len(cells) \in Nat /\ Len(delivered) \in Nat /\ beginPos \in 0..(N - 1)
        /\ N \in Nat /\ N >= 2 /\ end \in Chunks
    BY Types
  <1>4. /\ ~Filling' /\ cells' = Append(cells, writing) /\ writing \in Items
        /\ wpc' = "idle" /\ writing' = Wild /\ Len(cells) < MaxItems
        /\ f' = IF writing.more THEN f ELSE Back
        /\ endPos = N /\ CellNo(hi, N) = Len(cells) + 3
        /\ back = end /\ backPos = N - 1
        /\ Len(delivered) + 1 = CellNo(lo, beginPos)
    BY <1>3 DEF Written, Filling, ListInv, Ends, Back
  <1>5. /\ cells' \in Seq(Items) /\ Len(cells') = Len(cells) + 1
        /\ cells'[Len(cells) + 1] = writing /\ \A i \in 1..Len(cells) : cells'[i] = cells[i]
    BY <1>4 DEF TypeOK
  <1>6. CellNo(hi + 1, 0) = Len(cells) + 3
    <2>1. CellNo(hi + 1, 0) = CellNo(hi, N - 1) + 1 /\ \A x \in Int : CellNo(hi, x) + 1 = CellNo(hi, x + 1)
      BY <1>1, CellStep
    <2>2. CellNo(hi, N - 1) + 1 = CellNo(hi, N)
      <3>1. N - 1 \in Int /\ N - 1 + 1 = N
        BY <1>3
      <3> QED BY <2>1, <3>1
    <2> QED BY <1>4, <2>1, <2>2
  <1>7. Linked(h, lo, hi + 1, begin, next, end)'
    <2>1. \A i, j \in lo..(hi + 1) : h[i] = h[j] => i = j
      <3> SUFFICES ASSUME NEW i \in lo..(hi + 1), NEW j \in lo..(hi + 1), h[i] = h[j] PROVE i = j
        OBVIOUS
      <3>1. (i \in lo..hi \/ i = hi + 1) /\ (j \in lo..hi \/ j = hi + 1)
        BY <1>1
      <3>2. CASE i \in lo..hi /\ j \in lo..hi
        BY <1>1, <1>2, <3>2
      <3>3. CASE i = hi + 1 /\ j \in lo..hi
        BY <1>2, <3>3
      <3>4. CASE i \in lo..hi /\ j = hi + 1
        BY <1>2, <3>4
      <3> QED BY <3>1, <3>2, <3>3, <3>4
    <2>2. \A j \in lo..((hi + 1) - 1) : next'[h[j]] = h[j + 1]
      <3> SUFFICES ASSUME NEW j \in lo..hi PROVE next'[h[j]] = h[j + 1]
        BY <1>1
      <3>1. CASE j = hi
        BY <1>1, <1>2, <3>1
      <3>2. CASE j # hi
        <4>1. j \in lo..(hi - 1) /\ j + 1 \in lo..hi
          BY <1>1, <3>2
        <4> QED BY <1>1, <1>2, <4>1
      <3> QED BY <3>1, <3>2
    <2>3. h[lo] = begin' /\ h[hi + 1] = end'
      BY <1>1, <1>2 DEF readEnd
    <2> QED BY <1>1, <1>2, <2>1, <2>2, <2>3 DEF Linked
  <1>8. LinkedBack(h, lo, hi + 1)'
    <2> SUFFICES ASSUME NEW j \in lo..hi PROVE prev'[h[j + 1]] = h[j]
      BY <1>1 DEF LinkedBack
    <2>1. CASE j = hi
      BY <1>1, <1>2, <2>1
    <2>2. CASE j # hi
      <3>1. j \in lo..(hi - 1) /\ j + 1 \in lo..hi /\ j + 1 \in (lo + 1)..hi
        BY <1>1, <2>2
      <3> QED BY <1>1, <1>2, <3>1
    <2> QED BY <2>1, <2>2
  <1>9. Ends(h, lo, hi + 1)'
    <2>1. Len(delivered') + 1 = CellNo(lo, beginPos')
      BY <1>4 DEF readEnd
    <2>2. endPos' = 0 /\ 0 < N /\ CellNo(hi + 1, endPos') = Len(cells') + 2
      BY <1>3, <1>5, <1>6
    <2>3. lo < hi + 1 /\ back' = h[(hi + 1) - 1] /\ backPos' = N - 1
      <3>1. (hi + 1) - 1 = hi /\ back' = h[hi]
        BY <1>1, <1>2, <1>4
      <3> QED BY <1>1, <1>4, <3>1
    <2>4. endPos' = 0 /\ endPos' < N
      BY <2>2
    <2>5. ~Filling'
      BY <1>4
    <2> QED BY <2>1, <2>2, <2>3, <2>4, <2>5 DEF Ends
  <1>10. Contents(h, lo, hi + 1)'
    <2> SUFFICES ASSUME NEW j \in lo..(hi + 1), NEW y \in 0..(N - 1),
                        Len(delivered) < CellNo(j, y), CellNo(j, y) <= Len(cells')
                 PROVE  values'[h[j]][y] = cells'[CellNo(j, y)]
      BY <1>4 DEF Contents
    <2>1. j \in Nat /\ y \in Nat
      BY <1>1, <1>3
    <2>2. CellNo(j, y) \in Nat \ {0} /\ CellNo(j, y) = CellNo(j, 0) + y
      <3>1. \A i \in Nat : CellNo(j, i) \in Nat \ {0}
        BY <2>1, CellStep
      <3>2. \A i \in Int : CellNo(j, i) = CellNo(j, 0) + i
        BY <2>1, CellStep
      <3> QED BY <2>1, <3>1, <3>2
    <2>3. j # hi + 1
      BY <1>3, <1>5, <1>6, <2>1, <2>2
    <2>4. j \in lo..hi
      BY <1>1, <2>3
    <2>5. /\ CellNo(j, y) <= Len(cells) => values[g[j]][y] = cells[CellNo(j, y)]
          /\ CellNo(j, y) = Len(cells) + 1 => values[g[j]][y] = writing
      BY <2>4 DEF ListInv, Contents
    <2>6. values'[h[j]][y] = values[g[j]][y]
      BY <1>2, <2>4
    <2> QED BY <1>3, <1>5, <2>2, <2>5, <2>6
  <1>11. At(g, lo, hi, Back, Len(cells) + 2)
    BY EndsAt DEF ListInv
  <1>12. \A a, p : At(g, lo, hi, a, p) => At(h, lo, hi + 1, a, p)
    BY <1>1, <1>2 DEF At
  <1>13. /\ At(h, lo, hi + 1, w', Position(w)) /\ At(h, lo, hi + 1, r', Position(r))
         /\ At(h, lo, hi + 1, c', Position(c))
         /\ At(h, lo, hi + 1, f', IF writing.more THEN Position(f) ELSE Len(cells) + 2)
    <2>1. /\ At(g, lo, hi, w, Position(w)) /\ At(g, lo, hi, r, Position(r))
          /\ At(g, lo, hi, c, Position(c)) /\ At(g, lo, hi, f, Position(f))
      BY DEF ListInv, Pointers
    <2>2. At(g, lo, hi, f', IF writing.more THEN Position(f) ELSE Len(cells) + 2)
      BY <1>4, <1>11, <2>1
    <2> QED BY <1>12, <2>1, <2>2
  <1>14. /\ Position(w)' = Position(w) /\ Position(r)' = Position(r) /\ Position(c)' = Position(c)
         /\ Position(f)' = IF writing.more THEN Position(f) ELSE Len(cells) + 2
    <2>1. Linked(h, lo, hi + 1, begin', next', end') /\ Len(delivered') + 1 = CellNo(lo, beginPos')
      BY <1>7, <1>9 DEF Linked, Ends
    <2>2. Len(delivered') \in Nat /\ beginPos' \in 0..(N - 1)
      BY <1>3 DEF readEnd
    <2> QED BY <1>13, <2>1, <2>2, NextPositions
  <1>15. Pointers(h, lo, hi + 1)'
    BY <1>13, <1>14 DEF Pointers
  <1>16. Queue!Write(writing)
    BY <1>3, <1>4, <1>14 DEF Queue!Write, Queue!Back, Queue!readerVars, Filling
  <1>17. f' \in {f, Back}
    BY <1>4
  <1> QED BY <1>2, <1>4, <1>5, <1>7, <1>8, <1>9, <1>10, <1>15, <1>16, <1>17

(* Push with the spare chunk, or without one. *)
LEMMA StepPushSpare == BatchInv /\ PushSpare => Storage' /\ QueueStep
  <1> SUFFICES ASSUME BatchInv, PushSpare PROVE Storage' /\ QueueStep
    OBVIOUS
  <1>0. TypeOK /\ Threads /\ alive /\ Filling
    BY StillAlive DEF BatchInv, Storage, PushSpare, Filling
  <1>1. PICK g, lo, hi : ListInv(g, lo, hi)
    BY <1>0, InThisState
  <1>2. /\ UNCHANGED <<allocated, values, readEnd, w, r, c, rpc, hand, alive, delivered>>
        /\ wpc = "spare" /\ spare' = NoChunk
    BY DEF PushSpare
  <1>3. /\ lo \in Nat /\ hi \in Nat /\ lo <= hi /\ g \in [Nat -> Chunks]
        /\ \A i, j \in lo..hi : g[i] = g[j] => i = j
        /\ g[hi] = end /\ NoChunk \notin Chunks /\ end \in Chunks
        /\ Owned(g, lo, hi)
    BY <1>0, <1>1, Types DEF ListInv, Linked
  <1>4. CASE spare # NoChunk /\ Link(spare) /\ Written(writing)
    <2>1. spare \in Chunks /\ \A j \in lo..hi : g[j] # spare
      BY <1>0, <1>3, <1>4 DEF TypeOK, Owned
    <2>2. /\ next' = [next EXCEPT ![end] = spare] /\ prev' = [prev EXCEPT ![spare] = end]
          /\ end' = spare /\ endPos' = 0 /\ UNCHANGED <<back, backPos>>
          /\ next \in [Chunks -> Chunks \cup {NoChunk, Wild}]
          /\ prev \in [Chunks -> Chunks \cup {NoChunk, Wild}]
      BY <1>0, <1>4 DEF Link, TypeOK
    <2>3. \A j \in lo..hi : g[j] \in Chunks /\ (j # hi => g[j] # end)
      BY <1>3
    <2>4. next'[end] = spare /\ \A j \in lo..(hi - 1) : next'[g[j]] = next[g[j]]
      <3>1. \A j \in lo..(hi - 1) : j \in lo..hi /\ j # hi
        BY <1>3
      <3> QED BY <1>3, <2>2, <2>3, <3>1
    <2>5. prev'[spare] = end /\ \A j \in (lo + 1)..hi : prev'[g[j]] = prev[g[j]]
      <3>1. \A j \in (lo + 1)..hi : j \in lo..hi
        BY <1>3
      <3> QED BY <1>3, <2>1, <2>2, <2>3, <3>1
    <2>6. \A j \in lo..hi : values'[g[j]] = values[g[j]]
      BY <1>2
    <2>7. /\ \E h : /\ \A j \in lo..hi : h[j] = g[j]
                    /\ h[hi + 1] = spare
                    /\ Linked(h, lo, hi + 1, begin, next, end)' /\ LinkedBack(h, lo, hi + 1)'
                    /\ Ends(h, lo, hi + 1)' /\ Contents(h, lo, hi + 1)' /\ Pointers(h, lo, hi + 1)'
          /\ Queue!Write(writing)
          /\ cells' \in Seq(Items) /\ f' \in {f, Back} /\ wpc' = "idle" /\ writing' = Wild
      <3>1. UNCHANGED <<back, backPos, readEnd, w, r, c, rpc, delivered>> /\ end' = spare /\ endPos' = 0
        BY <1>2, <2>2
      <3> QED BY <1>0, <1>1, <1>4, <2>1, <2>4, <2>5, <2>6, <3>1, Linking
    <2>8. PICK h : /\ \A j \in lo..hi : h[j] = g[j]
                   /\ h[hi + 1] = spare
                   /\ Linked(h, lo, hi + 1, begin, next, end)' /\ LinkedBack(h, lo, hi + 1)'
                   /\ Ends(h, lo, hi + 1)' /\ Contents(h, lo, hi + 1)' /\ Pointers(h, lo, hi + 1)'
      BY <2>7
    <2>9. Owned(h, lo, hi + 1)'
      <3> DEFINE list == {g[j] : j \in lo..hi}
                 longer == {h[j] : j \in lo..(hi + 1)}
      <3>1. \A j \in lo..(hi + 1) : j \in lo..hi \/ j = hi + 1
        BY <1>3
      <3>2. \A j \in lo..hi : j \in lo..(hi + 1)
        BY <1>3
      <3>3. hi + 1 \in lo..(hi + 1)
        BY <1>3
      <3>4. longer = list \cup {spare}
        BY <2>8, <3>1, <3>2, <3>3
      <3>5. allocated = list \cup ({spare, hand} \ {NoChunk}) /\ (spare = hand => spare = NoChunk)
        BY <1>3 DEF Owned
      <3> HIDE DEF list, longer
      <3>6. allocated' = longer \cup ({spare', hand'} \ {NoChunk})
        BY <1>2, <1>4, <3>4, <3>5
      <3>7. \A j \in lo..(hi + 1) : h[j] # spare' /\ h[j] # hand'
        <4>1. \A j \in lo..hi : h[j] # NoChunk /\ h[j] # hand
          BY <1>3, <2>3, <2>8 DEF Owned
        <4>2. h[hi + 1] # NoChunk /\ h[hi + 1] # hand
          BY <1>4, <2>8, <3>5
        <4> QED BY <1>2, <3>1, <4>1, <4>2
      <3> QED BY <1>2, <3>6, <3>7 DEF Owned, longer
    <2>10. TypeOK' /\ Threads'
      <3>1. next' \in [Chunks -> Chunks \cup {NoChunk, Wild}] /\ prev' \in [Chunks -> Chunks \cup {NoChunk, Wild}]
        BY <1>3, <2>1, <2>2
      <3>2. Back' \in Addresses /\ f' \in Addresses /\ endPos' \in 0..N
        <4>1. Back' = Back
          BY <2>2 DEF Back
        <4>2. Back \in Addresses /\ f \in Addresses
          BY <1>0 DEF TypeOK
        <4>3. endPos' \in 0..N
          BY <1>0, <2>2, Types
        <4> QED BY <2>7, <4>1, <4>2, <4>3
      <3> QED BY <1>0, <1>2, <2>1, <2>2, <2>7, <3>1, <3>2 DEF TypeOK, Threads, Front, readEnd
    <2>11. QueueStep
      <3>1. writing \in Items
        BY <1>0, <1>1 DEF ListInv, Ends
      <3> QED BY <2>7, <3>1 DEF QueueStep, Queue!Next, Queue!WriterStep, Queue!Items, Items
    <2>12. ListInv(h, lo, hi + 1)'
      BY <2>8, <2>9 DEF ListInv
    <2> QED BY <1>0, <1>2, <2>10, <2>11, <2>12 DEF Storage
  <1>5. CASE spare = NoChunk /\ wpc' = "malloc" /\ UNCHANGED <<prev, next, writeEnd, f, writing, cells>>
    <2>1. /\ QueueStep
          /\ Position(w)' = Position(w) /\ Position(f)' = Position(f)
          /\ Position(r)' = Position(r) /\ Position(c)' = Position(c)
      BY <1>2, <1>5, SilentStep DEF readEnd, writeEnd
    <2>2. Filling'
      BY <1>5 DEF Filling
    <2>3. Linked(g, lo, hi, begin, next, end)' /\ LinkedBack(g, lo, hi)' /\ Owned(g, lo, hi)'
      BY <1>1, <1>2, <1>5 DEF ListInv, Linked, LinkedBack, Owned, readEnd, writeEnd
    <2>4. Ends(g, lo, hi)'
      BY <1>0, <1>1, <1>2, <1>5, <2>2 DEF ListInv, Ends, readEnd, writeEnd
    <2>5. Contents(g, lo, hi)'
      BY <1>0, <1>1, <1>2, <1>5, <2>2 DEF ListInv, Contents
    <2>6. Pointers(g, lo, hi)'
      BY <1>1, <1>2, <1>5, <2>1 DEF ListInv, Pointers
    <2>7. TypeOK' /\ Threads'
      BY <1>0, <1>2, <1>5 DEF TypeOK, Threads, Front, Back, readEnd, writeEnd
    <2> QED BY <1>0, <1>2, <2>1, <2>3, <2>4, <2>5, <2>6, <2>7 DEF ListInv, Storage
  <1> QED BY <1>4, <1>5 DEF PushSpare

(* Push with a chunk from malloc: none that is still in use. *)
LEMMA StepPushMalloc == BatchInv /\ PushMalloc /\ ~MallocFails => Storage' /\ QueueStep
  <1> SUFFICES ASSUME BatchInv, PushMalloc, ~MallocFails PROVE Storage' /\ QueueStep
    OBVIOUS
  <1>0. TypeOK /\ Threads /\ alive /\ Filling
    BY StillAlive DEF BatchInv, Storage, PushMalloc, Filling
  <1>1. PICK g, lo, hi : ListInv(g, lo, hi)
    BY <1>0, InThisState
  <1>2. /\ UNCHANGED <<back, backPos, readEnd, spare, w, r, c, rpc, hand, alive, delivered>>
        /\ wpc = "malloc" /\ Written(writing)
    BY DEF PushMalloc
  <1>3. PICK k \in Chunks \ allocated :
          /\ allocated' = allocated \cup {k}
          /\ values' = [values EXCEPT ![k] = [i \in 0..(N - 1) |-> Wild]]
          /\ next' = [next EXCEPT ![k] = Wild, ![end] = k]
          /\ prev' = [prev EXCEPT ![k] = end]
          /\ end' = k
          /\ endPos' = 0
    BY DEF PushMalloc
  <1>4. /\ lo \in Nat /\ hi \in Nat /\ lo <= hi /\ g \in [Nat -> Chunks]
        /\ \A i, j \in lo..hi : g[i] = g[j] => i = j
        /\ g[hi] = end /\ NoChunk \notin Chunks /\ end \in Chunks
        /\ Owned(g, lo, hi) /\ hi \in lo..hi
    BY <1>0, <1>1, Types DEF ListInv, Linked
  <1>5. k \in Chunks /\ k # spare /\ k # hand /\ k # NoChunk /\ \A j \in lo..hi : g[j] # k
    BY <1>3, <1>4 DEF Owned
  <1>6. /\ next \in [Chunks -> Chunks \cup {NoChunk, Wild}]
        /\ prev \in [Chunks -> Chunks \cup {NoChunk, Wild}]
        /\ values \in [Chunks -> [0..(N - 1) -> Items \cup {Wild}]]
    BY <1>0 DEF TypeOK
  <1>7. \A j \in lo..hi : g[j] \in Chunks /\ g[j] # k /\ (j # hi => g[j] # end)
    BY <1>4, <1>5
  <1>8. end # k
    BY <1>4, <1>5
  <1>9. next'[end] = k /\ \A j \in lo..(hi - 1) : next'[g[j]] = next[g[j]]
    <2>1. \A j \in lo..(hi - 1) : j \in lo..hi /\ j # hi
      BY <1>4
    <2> DEFINE n1 == [next EXCEPT ![k] = Wild]
    <2>2. n1 \in [Chunks -> Chunks \cup {NoChunk, Wild}] /\ \A m \in Chunks : m # k => n1[m] = next[m]
      BY <1>5, <1>6
    <2>3. next' = [n1 EXCEPT ![end] = k]
      BY <1>3
    <2> HIDE DEF n1
    <2> QED BY <1>4, <1>7, <2>1, <2>2, <2>3
  <1>10. prev'[k] = end /\ \A j \in (lo + 1)..hi : prev'[g[j]] = prev[g[j]]
    <2>1. \A j \in (lo + 1)..hi : j \in lo..hi
      BY <1>4
    <2> QED BY <1>3, <1>5, <1>6, <1>7, <2>1
  <1>11. \A j \in lo..hi : values'[g[j]] = values[g[j]]
    BY <1>3, <1>5, <1>6, <1>7
  <1>12. /\ \E h : /\ \A j \in lo..hi : h[j] = g[j]
                   /\ h[hi + 1] = k
                   /\ Linked(h, lo, hi + 1, begin, next, end)' /\ LinkedBack(h, lo, hi + 1)'
                   /\ Ends(h, lo, hi + 1)' /\ Contents(h, lo, hi + 1)' /\ Pointers(h, lo, hi + 1)'
         /\ Queue!Write(writing)
         /\ cells' \in Seq(Items) /\ f' \in {f, Back} /\ wpc' = "idle" /\ writing' = Wild
    <2>1. UNCHANGED <<back, backPos, readEnd, w, r, c, rpc, delivered>> /\ end' = k /\ endPos' = 0
          /\ Written(writing)
      BY <1>2, <1>3
    <2> QED BY <1>0, <1>1, <1>5, <1>9, <1>10, <1>11, <2>1, Linking
  <1>13. PICK h : /\ \A j \in lo..hi : h[j] = g[j]
                  /\ h[hi + 1] = k
                  /\ Linked(h, lo, hi + 1, begin, next, end)' /\ LinkedBack(h, lo, hi + 1)'
                  /\ Ends(h, lo, hi + 1)' /\ Contents(h, lo, hi + 1)' /\ Pointers(h, lo, hi + 1)'
    BY <1>12
  <1>14. Owned(h, lo, hi + 1)'
    <2> DEFINE list == {g[j] : j \in lo..hi}
               longer == {h[j] : j \in lo..(hi + 1)}
    <2>1. \A j \in lo..(hi + 1) : j \in lo..hi \/ j = hi + 1
      BY <1>4
    <2>2. \A j \in lo..hi : j \in lo..(hi + 1)
      BY <1>4
    <2>3. hi + 1 \in lo..(hi + 1)
      BY <1>4
    <2>4. longer = list \cup {k}
      BY <1>13, <2>1, <2>2, <2>3
    <2>5. allocated = list \cup ({spare, hand} \ {NoChunk}) /\ (spare = hand => spare = NoChunk)
      BY <1>4 DEF Owned
    <2> HIDE DEF list, longer
    <2>6. allocated' = longer \cup ({spare', hand'} \ {NoChunk})
      BY <1>2, <1>3, <2>4, <2>5
    <2>7. \A j \in lo..(hi + 1) : h[j] # spare' /\ h[j] # hand'
      <3>1. \A j \in lo..hi : h[j] # spare /\ h[j] # hand
        BY <1>4, <1>13 DEF Owned
      <3>2. h[hi + 1] # spare /\ h[hi + 1] # hand
        BY <1>5, <1>13
      <3> QED BY <1>2, <2>1, <3>1, <3>2
    <2> QED BY <1>2, <2>5, <2>6, <2>7 DEF Owned, longer
  <1>15. TypeOK' /\ Threads'
    <2>1. next' \in [Chunks -> Chunks \cup {NoChunk, Wild}]
      <3> DEFINE n1 == [next EXCEPT ![k] = Wild]
      <3>1. n1 \in [Chunks -> Chunks \cup {NoChunk, Wild}]
        BY <1>5, <1>6
      <3>2. next' = [n1 EXCEPT ![end] = k]
        BY <1>3
      <3> HIDE DEF n1
      <3> QED BY <1>4, <1>5, <3>1, <3>2
    <2>2. prev' \in [Chunks -> Chunks \cup {NoChunk, Wild}]
      BY <1>3, <1>4, <1>5, <1>6
    <2>3. values' \in [Chunks -> [0..(N - 1) -> Items \cup {Wild}]]
      BY <1>3, <1>5, <1>6
    <2>4. Back' \in Addresses /\ f' \in Addresses /\ endPos' \in 0..N
      <3>1. Back' = Back
        BY <1>2 DEF Back
      <3>2. Back \in Addresses /\ f \in Addresses
        BY <1>0 DEF TypeOK
      <3>3. endPos' \in 0..N
        BY <1>0, <1>3, Types
      <3> QED BY <1>12, <3>1, <3>2, <3>3
    <2>5. allocated' \subseteq Chunks
      BY <1>0, <1>3 DEF TypeOK
    <2> QED BY <1>0, <1>2, <1>3, <1>12, <2>1, <2>2, <2>3, <2>4, <2>5 DEF TypeOK, Threads, Front, readEnd
  <1>16. QueueStep
    <2>1. writing \in Items
      BY <1>0, <1>1 DEF ListInv, Ends
    <2> QED BY <1>12, <2>1 DEF QueueStep, Queue!Next, Queue!WriterStep, Queue!Items, Items
  <1>17. ListInv(h, lo, hi + 1)'
    BY <1>13, <1>14 DEF ListInv
  <1> QED BY <1>0, <1>2, <1>15, <1>16, <1>17 DEF Storage

(* Unpush goes one cell back, to the end of the chunk before if need be. *)
LEMMA StepUnwrite == BatchInv /\ Unwrite => Storage' /\ QueueStep
  <1> SUFFICES ASSUME BatchInv, Unwrite PROVE Storage' /\ QueueStep
    OBVIOUS
  <1>0. TypeOK /\ Threads /\ alive /\ ~Filling /\ ~Filling' /\ Queue!IInv
    BY DEF BatchInv, Storage, Unwrite, Filling
  <1>1. PICK g, lo, hi : ListInv(g, lo, hi) /\ Pointers(g, lo, hi) /\ (wpc = "store" => Position(w) = 0)
    BY <1>0, InThisState
  <1>2. /\ UNCHANGED <<values, prev, readEnd, spare, w, f, r, c, wpc, rpc, writing, hand, alive,
                       delivered>>
        /\ wpc = "idle" /\ f # Back /\ UnpushBack /\ UnpushEnd
        /\ cells' = SubSeq(cells, 1, Len(cells) - 1)
    BY DEF Unwrite
  <1>3. /\ Len(cells) \in Nat /\ Len(delivered) \in Nat /\ beginPos \in 0..(N - 1)
        /\ endPos \in 0..(N - 1) /\ N \in Nat /\ N >= 2 /\ NoChunk \notin Chunks /\ end \in Chunks
        /\ back \in Chunks /\ MaxItems \in Nat
    BY <1>0, <1>1, Types DEF ListInv, Ends
  <1>4. /\ lo \in Nat /\ hi \in Nat /\ lo <= hi /\ g \in [Nat -> Chunks] /\ hi \in lo..hi
        /\ \A i, j \in lo..hi : g[i] = g[j] => i = j
        /\ g[lo] = begin /\ g[hi] = end
        /\ \A j \in lo..(hi - 1) : next[g[j]] = g[j + 1]
        /\ \A j \in lo..(hi - 1) : prev[g[j + 1]] = g[j]
        /\ Owned(g, lo, hi)
    BY <1>1 DEF ListInv, Linked, LinkedBack
  <1>5. /\ CellNo(lo, beginPos) = Len(delivered) + 1 /\ CellNo(hi, endPos) = Len(cells) + 2
        /\ endPos # 0 => back = end /\ backPos = endPos - 1
        /\ endPos = 0 => lo < hi /\ back = g[hi - 1] /\ backPos = N - 1
    BY <1>0, <1>1 DEF ListInv, Ends
  <1>6. /\ Position(f) \in Nat /\ Len(delivered) + 1 <= Position(f) /\ Position(f) <= Len(cells)
        /\ Position(w) \in Nat /\ Position(r) \in Nat /\ Position(c) \in Nat
        /\ \A p \in {Position(w), Position(r), Position(c)} :
             p # 0 => Len(delivered) + 1 <= p /\ p <= Position(f)
    <2>1. Position(f) # Len(cells) + 1
      BY <1>0, <1>1, <1>2, SameCells
    <2> QED BY <1>0, <1>1, <1>3, <2>1, Between
  <1>7. /\ cells' \in Seq(Items) /\ Len(cells') = Len(cells) - 1 /\ Len(cells') \in Nat
        /\ \A i \in 1..Len(cells') : cells'[i] = cells[i]
    <2>1. cells \in Seq(Items) /\ Len(cells) > 0
      BY <1>0, <1>3, <1>6 DEF TypeOK
    <2>2. /\ SubSeq(cells, 1, Len(cells) - 1) \in Seq(Items)
          /\ Len(SubSeq(cells, 1, Len(cells) - 1)) = Len(cells) - 1
          /\ \A i \in 1..(Len(cells) - 1) : SubSeq(cells, 1, Len(cells) - 1)[i] = cells[i]
      BY <1>3, <2>1, Queue!WithdrawKeeps
    <2> QED BY <1>2, <1>3, <2>1, <2>2
  <1>8. /\ values \in [Chunks -> [0..(N - 1) -> Items \cup {Wild}]]
        /\ prev \in [Chunks -> Chunks \cup {NoChunk, Wild}]
        /\ next \in [Chunks -> Chunks \cup {NoChunk, Wild}]
    BY <1>0 DEF TypeOK
  <1>9. CASE endPos # 0
    <2>0. /\ endPos' = endPos - 1 /\ UNCHANGED <<end, allocated, next>>
          /\ back = end /\ backPos = endPos - 1
      BY <1>2, <1>5, <1>9 DEF UnpushEnd
    <2>1. CellNo(hi, endPos') + 1 = CellNo(hi, endPos) /\ CellNo(hi, endPos') \in Nat
      <3>1. /\ \A x \in Int : CellNo(hi, x) + 1 = CellNo(hi, x + 1)
            /\ \A x \in Nat : CellNo(hi, x) \in Nat
        BY <1>4, CellStep
      <3>2. endPos' \in Nat /\ endPos' + 1 = endPos
        BY <1>3, <1>9, <2>0
      <3> QED BY <3>1, <3>2
    <2>2. CellNo(hi, endPos') = Len(cells') + 2 /\ endPos' < N
      BY <1>3, <1>5, <1>7, <2>0, <2>1
    <2>3. endPos' # 0 => back' = end' /\ backPos' = endPos' - 1
      BY <1>2, <1>3, <2>0 DEF UnpushBack
    <2>4. endPos' = 0 => lo < hi /\ back' = g[hi - 1] /\ backPos' = N - 1
      <3> SUFFICES ASSUME endPos' = 0 PROVE lo < hi /\ back' = g[hi - 1] /\ backPos' = N - 1
        OBVIOUS
      <3>1. CellNo(hi, 0) = Len(cells) + 1
        BY <1>3, <1>5, <1>7, <2>2
      <3>2. CellNo(lo, beginPos) = CellNo(lo, 0) + beginPos /\ CellNo(lo, 0) \in Nat
        <4>1. \A x \in Int : CellNo(lo, x) = CellNo(lo, 0) + x
          BY <1>4, CellStep
        <4>2. \A x \in Nat : CellNo(lo, x) \in Nat
          BY <1>4, CellStep
        <4> QED BY <1>3, <4>1, <4>2
      <3>3. lo # hi
        BY <1>3, <1>5, <1>6, <3>1, <3>2
      <3>4. lo < hi /\ hi - 1 \in lo..(hi - 1) /\ (hi - 1) + 1 = hi
        BY <1>4, <3>3
      <3>5. prev[g[hi]] = g[hi - 1]
        BY <1>4, <3>4
      <3>6. back' = prev[back] /\ backPos' = N - 1
        BY <1>2, <1>3, <2>0 DEF UnpushBack
      <3> QED BY <1>4, <2>0, <3>4, <3>5, <3>6
    <2>5. Ends(g, lo, hi)'
      <3>1. Len(delivered') + 1 = CellNo(lo, beginPos')
        BY <1>2, <1>5 DEF readEnd
      <3> QED BY <1>0, <2>2, <2>3, <2>4, <3>1 DEF Ends
    <2>6. Linked(g, lo, hi, begin, next, end)' /\ LinkedBack(g, lo, hi)' /\ Owned(g, lo, hi)'
      BY <1>1, <1>2, <2>0 DEF ListInv, Linked, LinkedBack, Owned, readEnd
    <2>7. /\ Position(w)' = Position(w) /\ Position(f)' = Position(f)
          /\ Position(r)' = Position(r) /\ Position(c)' = Position(c)
      <3>1. ChunkAt' = ChunkAt
        BY <1>2, <2>0, Walks, WalksNext DEF readEnd
      <3> QED BY <1>2, <3>1 DEF Position, IndexOf, readEnd
    <2>8. Pointers(g, lo, hi)'
      BY <1>1, <1>2, <2>7 DEF Pointers
    <2>9. Contents(g, lo, hi)'
      <3> SUFFICES ASSUME NEW j \in lo..hi, NEW y \in 0..(N - 1),
                          Len(delivered) < CellNo(j, y), CellNo(j, y) <= Len(cells')
                   PROVE  values[g[j]][y] = cells'[CellNo(j, y)]
        BY <1>0, <1>2 DEF Contents
      <3>1. CellNo(j, y) \in Nat \ {0}
        <4>1. j \in Nat /\ y \in Nat
          BY <1>3, <1>4
        <4> QED BY <4>1, CellStep
      <3>2. CellNo(j, y) <= Len(cells) /\ CellNo(j, y) \in 1..Len(cells')
        BY <1>3, <1>7, <3>1
      <3>3. values[g[j]][y] = cells[CellNo(j, y)]
        BY <1>1, <3>2 DEF ListInv, Contents
      <3> QED BY <1>7, <3>2, <3>3
    <2>10. Queue!Unwrite
      BY <1>2, <1>3, <1>6, <2>7 DEF Queue!Unwrite, Queue!Back, Queue!readerVars
    <2>11. TypeOK' /\ Threads'
      <3>1. Back' \in Addresses /\ endPos' \in 0..N
        <4>1. endPos' \in 0..(N - 1)
          BY <1>3, <1>9, <2>0
        <4>2. back' \in Chunks /\ backPos' \in 0..(N - 1)
          <5>1. CASE endPos' # 0
            BY <1>3, <2>0, <2>3, <4>1, <5>1
          <5>2. CASE endPos' = 0
            <6>1. hi - 1 \in Nat
              BY <1>4, <2>4, <5>2
            <6> QED BY <1>3, <1>4, <2>4, <5>2, <6>1
          <5> QED BY <5>1, <5>2
        <4> QED BY <1>3, <4>1, <4>2 DEF Back, Addresses
      <3> QED BY <1>0, <1>2, <1>7, <2>0, <3>1 DEF TypeOK, Threads, Front, readEnd
    <2> QED BY <1>0, <1>2, <2>5, <2>6, <2>8, <2>9, <2>10, <2>11
             DEF ListInv, Storage, QueueStep, Queue!Next, Queue!WriterStep
  <1>10. CASE endPos = 0
    <2> DEFINE m == hi - 1
    <2>0. /\ m \in Nat /\ lo <= m /\ m + 1 = hi /\ m \in lo..(hi - 1) /\ m \in lo..hi
          /\ lo < hi /\ back = g[m] /\ backPos = N - 1
          /\ \A j \in lo..m : j \in lo..(hi - 1) /\ j \in lo..hi /\ j # hi
          /\ \A j \in lo..(m - 1) : j \in lo..(hi - 1) /\ j \in lo..hi /\ j # m /\ j + 1 \in lo..m
      BY <1>4, <1>5, <1>10
    <2> HIDE DEF m
    <2>1. next[g[m]] = g[hi] /\ prev[g[hi]] = g[m] /\ g[m] \in Chunks /\ g[hi] \in Chunks
      BY <1>4, <2>0
    <2>2. /\ end' = g[m] /\ endPos' = N - 1 /\ allocated' = allocated \ {g[hi]}
          /\ next' = [next EXCEPT ![g[m]] = NoChunk]
      BY <1>2, <1>4, <1>10, <2>1 DEF UnpushEnd
    <2>3. back' = g[m] /\ backPos' = N - 2
      BY <1>2, <1>3, <2>0 DEF UnpushBack
    <2>4. CellNo(m, N - 1) = Len(cells) + 1
      <3>1. CellNo(m + 1, 0) = CellNo(m, N - 1) + 1
        BY <2>0, CellStep
      <3>2. CellNo(m, N - 1) \in Nat
        <4>1. \A x \in Nat : CellNo(m, x) \in Nat
          BY <2>0, CellStep
        <4>2. N - 1 \in Nat
          BY <1>3
        <4> QED BY <4>1, <4>2
      <3> QED BY <1>3, <1>5, <1>10, <2>0, <3>1, <3>2
    <2>5. Ends(g, lo, m)'
      <3>1. Len(delivered') + 1 = CellNo(lo, beginPos')
        BY <1>2, <1>5 DEF readEnd
      <3>2. CellNo(m, endPos') = Len(cells') + 2 /\ endPos' < N /\ endPos' # 0
        BY <1>3, <1>7, <2>2, <2>4
      <3>3. back' = end' /\ backPos' = endPos' - 1
        BY <1>3, <2>2, <2>3
      <3> QED BY <1>0, <3>1, <3>2, <3>3 DEF Ends
    <2>6. Linked(g, lo, m, begin, next, end)'
      <3>1. \A j \in lo..(m - 1) : next'[g[j]] = g[j + 1]
        <4> SUFFICES ASSUME NEW j \in lo..(m - 1) PROVE next'[g[j]] = g[j + 1]
          OBVIOUS
        <4>1. g[j] # g[m] /\ g[j] \in Chunks /\ next[g[j]] = g[j + 1]
          BY <1>4, <2>0
        <4> QED BY <1>8, <2>2, <4>1
      <3>2. \A i, j \in lo..m : g[i] = g[j] => i = j
        BY <1>4, <2>0
      <3> QED BY <1>2, <1>4, <2>0, <2>2, <3>1, <3>2 DEF Linked, readEnd
    <2>7. LinkedBack(g, lo, m)'
      BY <1>2, <1>4, <2>0 DEF LinkedBack
    <2>8. Owned(g, lo, m)'
      <3> DEFINE list == {g[j] : j \in lo..hi}
                 shorter == {g[j] : j \in lo..m}
      <3>1. \A j \in lo..m : g[j] # g[hi]
        BY <1>4, <2>0
      <3>2. \A j \in lo..hi : j \in lo..m \/ j = hi
        BY <1>4, <2>0
      <3>3. shorter = list \ {g[hi]}
        BY <2>0, <3>1, <3>2
      <3>4. /\ allocated = list \cup ({spare, hand} \ {NoChunk}) /\ (spare = hand => spare = NoChunk)
            /\ g[hi] # spare /\ g[hi] # hand
            /\ \A j \in lo..m : g[j] # spare /\ g[j] # hand
        BY <1>4, <2>0 DEF Owned
      <3> HIDE DEF list, shorter
      <3>5. allocated' = shorter \cup ({spare', hand'} \ {NoChunk})
        BY <1>2, <2>2, <3>3, <3>4
      <3> QED BY <1>2, <3>4, <3>5 DEF Owned, shorter
    <2>9. \A a, p : At(g, lo, hi, a, p) /\ (p # 0 => Len(delivered) + 1 <= p /\ p <= Len(cells)) /\ p \in Nat
                    => At(g, lo, m, a, p)
      <3> SUFFICES ASSUME NEW a, NEW p \in Nat, At(g, lo, hi, a, p),
                          p # 0 => Len(delivered) + 1 <= p /\ p <= Len(cells)
                   PROVE  At(g, lo, m, a, p)
        OBVIOUS
      <3>1. CellNo(lo, beginPos) = CellNo(lo, 0) + beginPos /\ CellNo(lo, 0) \in Nat
        <4>1. \A x \in Int : CellNo(lo, x) = CellNo(lo, 0) + x
          BY <1>4, CellStep
        <4>2. \A x \in Nat : CellNo(lo, x) \in Nat
          BY <1>4, CellStep
        <4> QED BY <1>3, <4>1, <4>2
      <3>2. p # 0 => CellNo(lo, 0) <= p /\ p <= CellNo(m, N - 1)
        BY <1>3, <1>5, <2>4, <3>1
      <3>3. \A j \in lo..hi : j \in lo..m => g[j] = g[j]
        OBVIOUS
      <3> QED BY <1>4, <2>0, <3>2, <3>3, StaysAt
    <2>10. /\ At(g, lo, m, w', Position(w)) /\ At(g, lo, m, f', Position(f))
           /\ At(g, lo, m, r', Position(r)) /\ At(g, lo, m, c', Position(c))
      <3>1. \A p \in {Position(w), Position(f), Position(r), Position(c)} :
              p \in Nat /\ (p # 0 => Len(delivered) + 1 <= p /\ p <= Len(cells))
        BY <1>3, <1>6
      <3> QED BY <1>1, <1>2, <2>9, <3>1 DEF Pointers
    <2>11. /\ Position(w)' = Position(w) /\ Position(f)' = Position(f)
           /\ Position(r)' = Position(r) /\ Position(c)' = Position(c)
      <3>1. Linked(g, lo, m, begin', next', end') /\ Len(delivered') + 1 = CellNo(lo, beginPos')
        BY <2>5, <2>6 DEF Linked, Ends
      <3>2. Len(delivered') \in Nat /\ beginPos' \in 0..(N - 1)
        BY <1>2, <1>3 DEF readEnd
      <3> QED BY <2>10, <3>1, <3>2, NextPositions
    <2>12. Pointers(g, lo, m)'
      BY <2>10, <2>11 DEF Pointers
    <2>13. Contents(g, lo, m)'
      <3> SUFFICES ASSUME NEW j \in lo..m, NEW y \in 0..(N - 1),
                          Len(delivered) < CellNo(j, y), CellNo(j, y) <= Len(cells')
                   PROVE  values[g[j]][y] = cells'[CellNo(j, y)]
        BY <1>0, <1>2 DEF Contents
      <3>0. j \in lo..hi /\ j \in Nat /\ y \in Nat
        BY <1>3, <1>4, <2>0
      <3>1. CellNo(j, y) \in Nat \ {0}
        BY <3>0, CellStep
      <3>2. CellNo(j, y) <= Len(cells) /\ CellNo(j, y) \in 1..Len(cells')
        BY <1>3, <1>7, <3>1
      <3>3. values[g[j]][y] = cells[CellNo(j, y)]
        BY <1>1, <3>0, <3>2 DEF ListInv, Contents
      <3> QED BY <1>7, <3>2, <3>3
    <2>14. Queue!Unwrite
      BY <1>2, <1>3, <1>6, <2>11 DEF Queue!Unwrite, Queue!Back, Queue!readerVars
    <2>15. TypeOK' /\ Threads'
      <3>1. Back' \in Addresses /\ endPos' \in 0..N /\ end' \in Chunks
        BY <1>3, <2>1, <2>2, <2>3 DEF Back, Addresses
      <3>2. next' \in [Chunks -> Chunks \cup {NoChunk, Wild}]
        BY <1>8, <2>1, <2>2
      <3>3. allocated' \subseteq Chunks
        BY <1>0, <2>2 DEF TypeOK
      <3> QED BY <1>0, <1>2, <1>7, <3>1, <3>2, <3>3 DEF TypeOK, Threads, Front, readEnd
    <2> QED BY <1>0, <1>2, <2>5, <2>6, <2>7, <2>8, <2>12, <2>13, <2>14, <2>15
             DEF ListInv, Storage, QueueStep, Queue!Next, Queue!WriterStep
  <1> QED BY <1>9, <1>10

-----------------------------------------------------------------------------
(* The reader's steps. *)

(* Read takes the front item; behind the last cell it leaves the chunk. *)
LEMMA StepTakeFront == BatchInv /\ TakeFront => Storage' /\ QueueStep
  <1> SUFFICES ASSUME BatchInv, TakeFront PROVE Storage' /\ QueueStep
    OBVIOUS
  <1>0. TypeOK /\ Threads /\ alive /\ Queue!IInv /\ (Filling' <=> Filling)
    BY StillAlive DEF BatchInv, Storage, TakeFront, Filling
  <1>1. PICK g, lo, hi : ListInv(g, lo, hi) /\ Pointers(g, lo, hi) /\ (wpc = "store" => Position(w) = 0)
    BY <1>0, InThisState
  <1>2. /\ UNCHANGED <<allocated, values, next, writeEnd, spare, w, f, r, c, wpc, writing, alive,
                       cells>>
        /\ rpc = "take" /\ hand = NoChunk
        /\ delivered' = Append(delivered, values[begin][beginPos])
    BY <1>0 DEF TakeFront, Threads
  <1>3. /\ Len(cells) \in Nat /\ Len(delivered) \in Nat /\ beginPos \in 0..(N - 1)
        /\ N \in Nat /\ N >= 2 /\ NoChunk \notin Chunks /\ begin \in Chunks /\ end \in Chunks
        /\ back \in Chunks /\ backPos \in 0..(N - 1) /\ endPos \in 0..N
    BY <1>0, Types
  <1>4. /\ lo \in Nat /\ hi \in Nat /\ lo <= hi /\ g \in [Nat -> Chunks] /\ lo \in lo..hi
        /\ \A i, j \in lo..hi : g[i] = g[j] => i = j
        /\ g[lo] = begin /\ g[hi] = end
        /\ \A j \in lo..(hi - 1) : next[g[j]] = g[j + 1]
        /\ \A j \in lo..(hi - 1) : prev[g[j + 1]] = g[j]
        /\ Owned(g, lo, hi) /\ CellNo(lo, beginPos) = Len(delivered) + 1
    BY <1>1 DEF ListInv, Linked, LinkedBack, Ends
  <1>5. /\ Len(delivered) + 1 < Position(f) /\ Position(f) <= Len(cells) + 1
        /\ Len(delivered) + 1 < Position(r) /\ Len(delivered) + 1 < Position(w)
        /\ Len(delivered) + 1 < Position(c)
        /\ \A p \in {Position(w), Position(f), Position(r), Position(c)} :
             p \in Nat /\ Len(delivered) + 1 < p /\ p <= Len(cells) + 1
    BY <1>0, <1>1, <1>2, <1>3, Between
  <1>6. values[begin][beginPos] = cells[Len(delivered) + 1] /\ cells[Len(delivered) + 1] \in Items
    <2>1. Len(delivered) + 1 \in 1..Len(cells)
      BY <1>3, <1>5
    <2>2. values[g[lo]][beginPos] = cells[CellNo(lo, beginPos)]
      BY <1>1, <1>3, <1>4, <2>1 DEF ListInv, Contents
    <2> QED BY <1>0, <1>4, <2>1, <2>2 DEF TypeOK
  <1>7. delivered' \in Seq(Items) /\ Len(delivered') = Len(delivered) + 1
    BY <1>0, <1>2, <1>6 DEF TypeOK
  <1>8. CASE beginPos + 1 # N /\ beginPos' = beginPos + 1 /\ rpc' = "run" /\ UNCHANGED <<begin, prev, hand>>
    <2>1. beginPos' \in 0..(N - 1) /\ Len(delivered') + 1 = CellNo(lo, beginPos')
      <3>1. \A x \in Int : CellNo(lo, x) + 1 = CellNo(lo, x + 1)
        BY <1>4, CellStep
      <3> QED BY <1>3, <1>4, <1>7, <1>8, <3>1
    <2>2. Linked(g, lo, hi, begin, next, end)' /\ LinkedBack(g, lo, hi)' /\ Owned(g, lo, hi)'
      BY <1>1, <1>2, <1>8 DEF ListInv, Linked, LinkedBack, Owned, writeEnd
    <2>3. Ends(g, lo, hi)'
      BY <1>0, <1>1, <1>2, <2>1 DEF ListInv, Ends, writeEnd
    <2>4. /\ At(g, lo, hi, w', Position(w)) /\ At(g, lo, hi, f', Position(f))
          /\ At(g, lo, hi, r', Position(r)) /\ At(g, lo, hi, c', Position(c))
      BY <1>1, <1>2 DEF Pointers
    <2>5. /\ Position(w)' = Position(w) /\ Position(f)' = Position(f)
          /\ Position(r)' = Position(r) /\ Position(c)' = Position(c)
      <3>1. Linked(g, lo, hi, begin', next', end') /\ Len(delivered') \in Nat
        BY <1>3, <1>7, <2>2 DEF Linked
      <3> QED BY <2>1, <2>4, <3>1, NextPositions
    <2>6. Pointers(g, lo, hi)'
      BY <2>4, <2>5 DEF Pointers
    <2>7. Contents(g, lo, hi)'
      <3> SUFFICES ASSUME NEW j \in lo..hi, NEW y \in 0..(N - 1)
                   PROVE  /\ Len(delivered') < CellNo(j, y) /\ CellNo(j, y) <= Len(cells) =>
                               values[g[j]][y] = cells[CellNo(j, y)]
                          /\ Filling /\ CellNo(j, y) = Len(cells) + 1 => values[g[j]][y] = writing
        BY <1>0, <1>2 DEF Contents
      <3>1. CellNo(j, y) \in Nat
        <4>1. j \in Nat /\ y \in Nat
          BY <1>3, <1>4
        <4> QED BY <4>1, CellStep
      <3>2. Len(delivered') < CellNo(j, y) => Len(delivered) < CellNo(j, y)
        BY <1>3, <1>7, <3>1
      <3> QED BY <1>1, <3>2 DEF ListInv, Contents
    <2>8. Queue!TakeFront
      BY <1>2, <1>3, <1>6, <1>7, <1>8, <2>5 DEF Queue!TakeFront, Queue!writerVars
    <2>9. TypeOK' /\ Threads'
      <3>1. Front' \in Addresses /\ Back' = Back
        BY <1>2, <1>3, <1>8, <2>1 DEF Front, Back, Addresses, writeEnd
      <3> QED BY <1>0, <1>2, <1>7, <1>8, <3>1 DEF TypeOK, Threads, writeEnd
    <2> QED BY <1>0, <1>2, <2>2, <2>3, <2>6, <2>7, <2>8, <2>9
             DEF ListInv, Storage, QueueStep, Queue!Next, Queue!ReaderStep
  <1>9. CASE /\ beginPos + 1 = N /\ beginPos' = 0 /\ begin' = next[begin]
             /\ prev' = [prev EXCEPT ![next[begin]] = NoChunk]
             /\ hand' = begin /\ rpc' = "spare"
    <2> DEFINE m == lo + 1
    <2>0. m \in Nat /\ m = lo + 1
      BY <1>4
    <2>1. CellNo(m, 0) = Len(delivered) + 2
      <3>1. CellNo(lo + 1, 0) = CellNo(lo, N - 1) + 1
        BY <1>4, CellStep
      <3>2. beginPos = N - 1
        BY <1>3, <1>9
      <3> QED BY <1>3, <1>4, <3>1, <3>2
    <2> HIDE DEF m
    <2>2. lo < hi
      <3> SUFFICES ASSUME lo = hi PROVE FALSE
        BY <1>4
      <3>1. At(g, lo, hi, f, Position(f))
        BY <1>1 DEF Pointers
      <3>2. PICK j \in lo..hi, x \in 0..(N - 1) : Position(f) = CellNo(j, x)
        BY <1>3, <1>5, <3>1 DEF At
      <3>3. j = lo /\ x \in Nat /\ x <= N - 1 /\ x \in Int
        BY <1>3, <1>4
      <3>4. /\ CellNo(lo, x) = CellNo(lo, 0) + x
            /\ CellNo(lo, beginPos) = CellNo(lo, 0) + beginPos
            /\ CellNo(lo, 0) \in Nat
        <4>1. \A i \in Int : CellNo(lo, i) = CellNo(lo, 0) + i
          BY <1>4, CellStep
        <4>2. \A i \in Nat : CellNo(lo, i) \in Nat
          BY <1>4, CellStep
        <4>3. x \in Int /\ beginPos \in Int
          BY <1>3, <3>3
        <4>4. CellNo(lo, 0) \in Nat
          BY <4>2
        <4> QED BY <4>1, <4>3, <4>4, Zenon
      <3> QED BY <1>3, <1>4, <1>5, <1>9, <3>2, <3>3, <3>4
    <2>3. /\ m <= hi /\ m \in lo..hi /\ m # lo /\ lo \in lo..(hi - 1)
          /\ \A j \in m..hi : j \in lo..hi /\ j # lo
          /\ \A j \in m..(hi - 1) : j \in lo..(hi - 1) /\ j + 1 \in m..hi /\ j + 1 # m
      BY <1>4, <2>0, <2>2
    <2>4. next[begin] = g[m] /\ g[m] \in Chunks /\ g[m] # begin
      BY <1>4, <2>0, <2>3
    <2>5. /\ begin' = g[m] /\ prev' = [prev EXCEPT ![g[m]] = NoChunk] /\ hand' = g[lo]
      BY <1>4, <1>9, <2>4
    <2>6. Linked(g, m, hi, begin, next, end)'
      BY <1>2, <1>4, <2>0, <2>3, <2>5 DEF Linked, writeEnd
    <2>7. LinkedBack(g, m, hi)'
      <3> SUFFICES ASSUME NEW j \in m..(hi - 1) PROVE prev'[g[j + 1]] = g[j]
        BY DEF LinkedBack
      <3>1. g[j + 1] # g[m] /\ g[j + 1] \in Chunks /\ prev[g[j + 1]] = g[j]
        <4>1. j \in lo..(hi - 1) /\ j + 1 \in lo..hi /\ j + 1 # m /\ j + 1 \in Nat
          BY <1>4, <2>3
        <4> QED BY <1>4, <2>3, <4>1
      <3>2. prev \in [Chunks -> Chunks \cup {NoChunk, Wild}]
        BY <1>0 DEF TypeOK
      <3> QED BY <2>5, <3>1, <3>2
    <2>8. Owned(g, m, hi)'
      <3> DEFINE list == {g[j] : j \in lo..hi}
                 shorter == {g[j] : j \in m..hi}
      <3>1. \A j \in m..hi : g[j] # g[lo]
        BY <1>4, <2>3
      <3>2. \A j \in lo..hi : j \in m..hi \/ j = lo
        BY <1>4, <2>0
      <3>3. list = shorter \cup {g[lo]}
        BY <1>4, <2>3, <3>2
      <3>4. /\ allocated = list \cup ({spare, hand} \ {NoChunk})
            /\ g[lo] # spare /\ \A j \in m..hi : g[j] # spare
        BY <1>4, <2>3 DEF Owned
      <3>5. g[lo] # NoChunk
        BY <1>3, <1>4
      <3> HIDE DEF list, shorter
      <3>6. allocated' = shorter \cup ({spare', hand'} \ {NoChunk})
        BY <1>2, <2>5, <3>3, <3>4, <3>5
      <3> QED BY <1>2, <2>5, <3>1, <3>4, <3>6 DEF Owned, shorter
    <2>9. Ends(g, m, hi)'
      <3>1. Len(delivered') + 1 = CellNo(m, beginPos')
        BY <1>3, <1>7, <1>9, <2>1
      <3>2. endPos = 0 => m < hi /\ back = g[hi - 1] /\ backPos = N - 1
        <4> SUFFICES ASSUME endPos = 0 PROVE m < hi /\ back = g[hi - 1] /\ backPos = N - 1
          OBVIOUS
        <4>1. back = g[hi - 1] /\ backPos = N - 1
          BY <1>1 DEF ListInv, Ends
        <4>2. m # hi
          <5> SUFFICES ASSUME m = hi PROVE FALSE
            OBVIOUS
          <5>1. CellNo(hi, 0) >= Len(cells) + 2
            BY <1>1, <1>3 DEF ListInv, Ends
          <5> QED BY <1>3, <1>5, <2>1, <5>1
        <4> QED BY <2>0, <2>3, <1>4, <4>1, <4>2
      <3> QED BY <1>0, <1>1, <1>2, <3>1, <3>2 DEF ListInv, Ends, writeEnd
    <2>10. \A a, p : At(g, lo, hi, a, p) /\ p \in Nat /\ Len(delivered) + 1 < p => At(g, m, hi, a, p)
      <3> SUFFICES ASSUME NEW a, NEW p \in Nat, At(g, lo, hi, a, p), Len(delivered) + 1 < p
                   PROVE  At(g, m, hi, a, p)
        OBVIOUS
      <3>1. PICK j \in lo..hi, x \in 0..(N - 1) : a = <<g[j], x>> /\ p = CellNo(j, x)
        BY <1>3 DEF At
      <3>2. j # lo
        <4> SUFFICES ASSUME j = lo PROVE FALSE
          OBVIOUS
        <4>1. x \in Nat /\ x <= N - 1
          BY <1>3
        <4>2. /\ CellNo(lo, x) = CellNo(lo, 0) + x
              /\ CellNo(lo, beginPos) = CellNo(lo, 0) + beginPos
              /\ CellNo(lo, 0) \in Nat
          <5>1. \A i \in Int : CellNo(lo, i) = CellNo(lo, 0) + i
            BY <1>4, CellStep
          <5>2. \A i \in Nat : CellNo(lo, i) \in Nat
            BY <1>4, CellStep
          <5>3. x \in Int /\ beginPos \in Int
            BY <1>3, <4>1
          <5>4. CellNo(lo, 0) \in Nat
            BY <5>2
          <5> QED BY <5>1, <5>3, <5>4, Zenon
        <4> QED BY <1>3, <1>4, <1>9, <3>1, <4>1, <4>2
      <3>3. j \in m..hi
        BY <1>4, <2>0, <3>2
      <3> QED BY <3>1, <3>3 DEF At
    <2>11. /\ At(g, m, hi, w', Position(w)) /\ At(g, m, hi, f', Position(f))
           /\ At(g, m, hi, r', Position(r)) /\ At(g, m, hi, c', Position(c))
      BY <1>1, <1>2, <1>5, <2>10 DEF Pointers
    <2>12. /\ Position(w)' = Position(w) /\ Position(f)' = Position(f)
           /\ Position(r)' = Position(r) /\ Position(c)' = Position(c)
      <3>1. Linked(g, m, hi, begin', next', end') /\ Len(delivered') + 1 = CellNo(m, beginPos')
        BY <2>6, <2>9 DEF Linked, Ends
      <3>2. Len(delivered') \in Nat /\ beginPos' \in 0..(N - 1)
        BY <1>3, <1>7, <1>9
      <3> QED BY <2>11, <3>1, <3>2, NextPositions
    <2>13. Pointers(g, m, hi)'
      BY <2>11, <2>12 DEF Pointers
    <2>14. Contents(g, m, hi)'
      <3> SUFFICES ASSUME NEW j \in m..hi, NEW y \in 0..(N - 1)
                   PROVE  /\ Len(delivered') < CellNo(j, y) /\ CellNo(j, y) <= Len(cells) =>
                               values[g[j]][y] = cells[CellNo(j, y)]
                          /\ Filling /\ CellNo(j, y) = Len(cells) + 1 => values[g[j]][y] = writing
        BY <1>0, <1>2 DEF Contents
      <3>0. j \in lo..hi /\ j \in Nat /\ y \in Nat
        BY <1>3, <1>4, <2>3
      <3>1. CellNo(j, y) \in Nat
        BY <3>0, CellStep
      <3>2. Len(delivered') < CellNo(j, y) => Len(delivered) < CellNo(j, y)
        BY <1>3, <1>7, <3>1
      <3> QED BY <1>1, <3>0, <3>2 DEF ListInv, Contents
    <2>15. Queue!TakeFront
      BY <1>2, <1>3, <1>6, <1>7, <1>9, <2>12 DEF Queue!TakeFront, Queue!writerVars
    <2>16. TypeOK' /\ Threads'
      <3>1. Front' \in Addresses /\ Back' = Back
        BY <1>2, <1>3, <1>9, <2>4, <2>5 DEF Front, Back, Addresses, writeEnd
      <3>2. prev' \in [Chunks -> Chunks \cup {NoChunk, Wild}]
        BY <1>0, <2>4, <2>5 DEF TypeOK
      <3>3. hand' \in Chunks /\ hand' # NoChunk
        BY <1>3, <1>9
      <3>4. TypeOK'
        BY <1>0, <1>2, <1>7, <1>9, <3>1, <3>2, <3>3 DEF TypeOK, writeEnd
      <3>5. Threads'
        BY <1>0, <1>2, <1>9, <3>3 DEF Threads
      <3> QED BY <3>4, <3>5
    <2> QED BY <1>0, <1>2, <2>6, <2>7, <2>8, <2>9, <2>13, <2>14, <2>15, <2>16
             DEF ListInv, Storage, QueueStep, Queue!Next, Queue!ReaderStep
  <1> QED BY <1>8, <1>9 DEF TakeFront

-----------------------------------------------------------------------------
(* The theorems. *)

(* The queue's invariant is kept by the mapped steps. *)
LEMMA QueueKept == Queue!IInv /\ QueueStep => Queue!IInv'
  BY BatchAssumption, Queue!StepIInv DEF QueueStep

(* The constructor leaves one chunk, which all the pointers are in. *)
LEMMA InitBatchInv == Init => BatchInv /\ Queue!Init
  <1> SUFFICES ASSUME Init PROVE BatchInv /\ Queue!Init
    OBVIOUS
  <1> USE DEF Init
  <1>1. /\ begin \in Chunks /\ N \in Nat /\ N >= 2 /\ NoChunk \notin Chunks /\ Wild \notin Chunks
    BY BatchAssumption
  <1> DEFINE g == [j \in Nat |-> begin]
  <1>2. Linked(g, 0, 0, begin, next, end)
    <2>1. g \in [Nat -> Chunks] /\ g[0] = begin
      BY <1>1
    <2>2. \A j \in 0..(0 - 1) : FALSE
      OBVIOUS
    <2>3. \A j, k \in 0..0 : j = k
      OBVIOUS
    <2> HIDE DEF g
    <2> QED BY <2>1, <2>2, <2>3 DEF Linked
  <1>3. \A j \in 0..0 : j = 0 /\ g[j] = begin
    OBVIOUS
  <1> HIDE DEF g
  <1>4. CellNo(0, 0) = 1 /\ CellNo(0, 1) = 2
    <2>1. 0 * N = 0
      BY <1>1
    <2> QED BY <2>1 DEF CellNo
  <1>5. At(g, 0, 0, <<begin, 0>>, 1)
    <2>1. 0 \in 0..0 /\ 0 \in 0..(N - 1) /\ <<begin, 0>> = <<g[0], 0>>
      BY <1>1, <1>3
    <2> QED BY <1>4, <2>1 DEF At
  <1>6. Position(w) = 1 /\ Position(f) = 1 /\ Position(r) = 1 /\ Position(c) = 1
    <2>1. PlaceIn(WalkOf(begin, next, end), CellNo(0, 0), <<begin, 0>>) = 1
      BY <1>2, <1>5, PlaceIs
    <2>2. Len(delivered) + 1 - beginPos = CellNo(0, 0)
      BY <1>4
    <2>3. Position(<<begin, 0>>) = 1
      BY <2>1, <2>2, Walks
    <2> QED BY <2>3 DEF Back
  <1>7. Pointers(g, 0, 0)
    BY <1>5, <1>6 DEF Pointers, Back
  <1>8. LinkedBack(g, 0, 0)
    BY DEF LinkedBack
  <1>9. Ends(g, 0, 0)
    BY <1>1, <1>4 DEF Ends, Filling
  <1>10. Owned(g, 0, 0)
    BY <1>1, <1>3 DEF Owned
  <1>11. Contents(g, 0, 0)
    <2> SUFFICES ASSUME NEW j \in 0..0, NEW x \in 0..(N - 1)
                 PROVE  ~(Len(delivered) < CellNo(j, x) /\ CellNo(j, x) <= Len(cells))
      BY DEF Contents, Filling
    <2>1. CellNo(j, x) \in Nat /\ Len(cells) = 0 /\ Len(delivered) = 0
      <3>1. j \in Nat /\ x \in Nat
        BY <1>1
      <3> QED BY <3>1, CellStep
    <2> QED BY <2>1
  <1>12. ListInv(g, 0, 0)
    BY <1>2, <1>7, <1>8, <1>9, <1>10, <1>11 DEF ListInv
  <1>13. TypeOK /\ Threads
    <2>1. <<begin, 0>> \in Addresses /\ NoChunk \in Chunks \cup {NoChunk}
      BY <1>1 DEF Addresses
    <2>2. /\ values \in [Chunks -> [0..(N - 1) -> Items \cup {Wild}]]
          /\ prev \in [Chunks -> Chunks \cup {NoChunk, Wild}]
          /\ next \in [Chunks -> Chunks \cup {NoChunk, Wild}]
      OBVIOUS
    <2>3. cells \in Seq(Items) /\ delivered \in Seq(Items)
      OBVIOUS
    <2> QED BY <1>1, <2>1, <2>2, <2>3 DEF TypeOK, Threads, Front, Back
  <1>14. Queue!Init
    BY <1>6 DEF Queue!Init
  <1>15. Queue!IInv
    BY <1>14, BatchAssumption, Queue!InitIInv
  <1> QED BY <1>12, <1>13, <1>14, <1>15 DEF BatchInv, Storage

(* Every step keeps the storage, and is one of the queue or none. *)
LEMMA StepStorage == ~MallocFails /\ BatchInv /\ [Next]_vars => Storage' /\ QueueStep
  <1> SUFFICES ASSUME ~MallocFails, BatchInv, [Next]_vars PROVE Storage' /\ QueueStep
    OBVIOUS
  <1>1. ASSUME NEW x \in Items, Write(x) PROVE Storage' /\ QueueStep
    <2>1. CASE endPos' # N /\ Written(x)
      BY <1>1, <2>1, StepWriteHere
    <2>2. CASE endPos' = N /\ wpc' = "spare" /\ writing' = x /\ UNCHANGED <<f, cells>>
      BY <1>1, <2>2, StepWriteLast
    <2> QED BY <1>1, <2>1, <2>2 DEF Write
  <1>2. CASE UNCHANGED vars
    <2>1. QueueStep
      BY <1>2, SilentStep DEF vars, readEnd, writeEnd, listVars
    <2>2. Storage'
      <3> USE DEF vars, readEnd, writeEnd, listVars
      <3>1. TypeOK' /\ Threads' /\ (~alive' => Gone')
        BY <1>2 DEF BatchInv, Storage, TypeOK, Threads, Gone, Front, Back
      <3>2. ASSUME alive PROVE \E g, lo, hi : ListInv(g, lo, hi)'
        <4>1. PICK g, lo, hi : ListInv(g, lo, hi)
          BY <3>2, InThisState
        <4>2. /\ Linked(g, lo, hi, begin, next, end)' /\ LinkedBack(g, lo, hi)'
              /\ Owned(g, lo, hi)' /\ Ends(g, lo, hi)' /\ Contents(g, lo, hi)'
          BY <1>2, <4>1 DEF ListInv, Linked, LinkedBack, Owned, Ends, Contents, Filling
        <4>3. /\ Position(w)' = Position(w) /\ Position(f)' = Position(f)
              /\ Position(r)' = Position(r) /\ Position(c)' = Position(c)
          BY <1>2, SilentStep
        <4>4. Pointers(g, lo, hi)'
          BY <1>2, <4>1, <4>3 DEF ListInv, Pointers
        <4> QED BY <4>2, <4>4 DEF ListInv
      <3> QED BY <1>2, <3>1, <3>2 DEF Storage
    <2> QED BY <2>1, <2>2
  <1> QED
    BY <1>1, <1>2, StepPushSpare, StepPushMalloc, StepUnwrite, StepFlushCas, StepFlushStore,
       StepWake, StepCheckRead, StepTakeFront, StepPopSpare, StepPopFree, StepRetry, StepDestroy
       DEF Next

(* The storage and the queue's own invariant carry each other. *)
THEOREM BatchInvariance ==
  ASSUME ~MallocFails
  PROVE  Spec => []BatchInv
  <1>1. BatchInv /\ [Next]_vars => BatchInv'
    BY StepStorage, QueueKept DEF BatchInv
  <1> QED BY InitBatchInv, <1>1, PTL DEF Spec

(***************************************************************************)
(* The chunks, the pointers and the history keep their types.              *)
(***************************************************************************)
THEOREM BatchTypeCorrect ==
  ASSUME ~MallocFails
  PROVE  Spec => []TypeOK
  BY BatchInvariance, PTL DEF BatchInv, Storage

(***************************************************************************)
(* No chunk leaks, is freed twice or is used after it was freed: every     *)
(* allocated chunk is in one place, and the destructor gives back all.     *)
(***************************************************************************)
THEOREM OwnedOnce ==
  ASSUME ~MallocFails
  PROVE  Spec => []ChunksOwnedOnce
  <1>1. BatchInv => ChunksOwnedOnce
    <2> SUFFICES ASSUME BatchInv PROVE ChunksOwnedOnce
      OBVIOUS
    <2>1. CASE alive
      <3>1. PICK g, lo, hi : ListInv(g, lo, hi)
        BY <2>1, InThisState
      <3>2. Linked(g, lo, hi, begin, next, end) /\ Owned(g, lo, hi)
        BY <3>1 DEF ListInv
      <3>3. {WalkOf(begin, next, end)[i] : i \in 1..Cardinality(Chunks)} = {g[j] : j \in lo..hi}
        BY <3>2, WalkedChunks
      <3>4. Chain = {g[j] : j \in lo..hi}
        BY <3>3, Walks, Zenon
      <3>5. spare \notin Chain /\ hand \notin Chain
        BY <3>2, <3>4 DEF Owned
      <3> QED BY <2>1, <3>2, <3>4, <3>5 DEF ChunksOwnedOnce, Owned
    <2>2. CASE ~alive
      BY <2>2 DEF BatchInv, Storage, Gone, ChunksOwnedOnce
    <2> QED BY <2>1, <2>2
  <1> QED BY <1>1, BatchInvariance, PTL

(***************************************************************************)
(* The addresses that Flush, Unwrite and CheckRead compare are of cells of *)
(* the list, between the front and the back: comparing them is comparing   *)
(* the positions, whatever chunk was freed and allocated again.            *)
(***************************************************************************)
THEOREM PointersStay ==
  ASSUME ~MallocFails
  PROVE  Spec => []PointersInList
  <1>1. BatchInv => PointersInList
    <2> SUFFICES ASSUME BatchInv, alive, wpc \in {"idle", "wake"}, NEW a \in {w, f, r, c} \ {Null}
                 PROVE  a[1] \in Chain /\ Position(a) \in Position(Front)..Position(Back)
      BY DEF PointersInList
    <2>0. TypeOK /\ Queue!IInv
      BY DEF BatchInv, Storage
    <2>1. PICK g, lo, hi : ListInv(g, lo, hi) /\ Pointers(g, lo, hi) /\ (wpc = "store" => Position(w) = 0)
      BY InThisState
    <2>2. Linked(g, lo, hi, begin, next, end) /\ Ends(g, lo, hi)
      BY <2>1 DEF ListInv
    <2>3. {WalkOf(begin, next, end)[i] : i \in 1..Cardinality(Chunks)} = {g[j] : j \in lo..hi}
      BY <2>2, WalkedChunks
    <2>4. Chain = {g[j] : j \in lo..hi}
      BY <2>3, Walks, Zenon
    <2>5. At(g, lo, hi, a, Position(a))
      BY <2>1 DEF Pointers
    <2>6. a[1] \in Chain
      BY <2>4, <2>5 DEF At
    <2>7. At(g, lo, hi, Front, Len(delivered) + 1) /\ At(g, lo, hi, Back, Len(cells) + 1)
      BY <2>0, <2>2, EndsAt DEF Filling
    <2>8. \A b, p : At(g, lo, hi, b, p) => Position(b) = p
      <3>1. Len(delivered) + 1 - beginPos = CellNo(lo, 0)
        <4>1. lo \in Nat /\ beginPos \in Int /\ Len(delivered) + 1 = CellNo(lo, beginPos)
          BY <2>0, <2>2, Types DEF Linked, Ends
        <4>2. CellNo(lo, beginPos) = CellNo(lo, 0) + beginPos /\ CellNo(lo, 0) \in Nat
          BY <4>1, CellStep
        <4> QED BY <4>1, <4>2
      <3>2. \A b, p : At(g, lo, hi, b, p) => PlaceIn(WalkOf(begin, next, end), CellNo(lo, 0), b) = p
        BY <2>2, PlaceIs
      <3> QED BY <3>1, <3>2, Walks
    <2>9. Position(Front) = Len(delivered) + 1 /\ Position(Back) = Len(cells) + 1
      BY <2>7, <2>8
    <2>10. Position(a) # 0
      <3>1. /\ w = Null <=> Position(w) = 0
            /\ r = Null <=> Position(r) = 0
            /\ c = Null <=> Position(c) = 0
        BY <2>0, <2>1, SameCells
      <3>2. Position(f) # 0
        BY <2>0, <2>1, Between
      <3> QED BY <3>1, <3>2
    <2>11. Position(a) \in Nat /\ Len(delivered) + 1 <= Position(a) /\ Position(a) <= Len(cells) + 1
      BY <2>0, <2>1, <2>10, Between
    <2>12. Len(delivered) \in Nat /\ Len(cells) \in Nat
      BY <2>0, Types
    <2> QED BY <2>6, <2>9, <2>11, <2>12
  <1> QED BY <1>1, BatchInvariance, PTL

(***************************************************************************)
(* Unpush only walks back to chunks of the list, although Pop clears prev  *)
(* pointers in the other thread.                                           *)
(***************************************************************************)
THEOREM UnpushStays ==
  ASSUME ~MallocFails
  PROVE  Spec => []UnpushStaysInList
  <1>1. BatchInv => UnpushStaysInList
    <2> SUFFICES ASSUME BatchInv, alive, wpc = "idle", f # Back
                 PROVE  /\ backPos = 0 => prev[back] \in Chain /\ next[prev[back]] = back
                        /\ endPos = 0 => prev[end] = back /\ next[back] = end
      BY DEF UnpushStaysInList
    <2>0. TypeOK /\ Queue!IInv /\ ~Filling
      BY DEF BatchInv, Storage, Filling
    <2>1. PICK g, lo, hi : ListInv(g, lo, hi) /\ Pointers(g, lo, hi) /\ (wpc = "store" => Position(w) = 0)
      BY InThisState
    <2>2. /\ lo \in Nat /\ hi \in Nat /\ lo <= hi /\ g[hi] = end
          /\ \A j \in lo..(hi - 1) : next[g[j]] = g[j + 1]
          /\ \A j \in lo..(hi - 1) : prev[g[j + 1]] = g[j]
          /\ CellNo(lo, beginPos) = Len(delivered) + 1 /\ CellNo(hi, endPos) = Len(cells) + 2
          /\ endPos # 0 => back = end /\ backPos = endPos - 1
          /\ endPos = 0 => lo < hi /\ back = g[hi - 1] /\ backPos = N - 1
      BY <2>0, <2>1 DEF ListInv, Linked, LinkedBack, Ends
    <2>3. /\ Len(cells) \in Nat /\ Len(delivered) \in Nat /\ beginPos \in 0..(N - 1)
          /\ endPos \in 0..N /\ N \in Nat /\ N >= 2
      BY <2>0, Types
    <2>4. lo < hi => hi - 1 \in lo..(hi - 1) /\ (hi - 1) + 1 = hi
      BY <2>2
    <2>5. lo < hi => prev[end] = g[hi - 1] /\ next[g[hi - 1]] = end
      BY <2>2, <2>4
    <2>6. endPos = 0 => prev[end] = back /\ next[back] = end
      BY <2>2, <2>5
    <2>7. ASSUME backPos = 0 PROVE prev[back] \in Chain /\ next[prev[back]] = back
      <3>1. endPos = 1 /\ back = end
        BY <2>2, <2>3, <2>7
      <3>2. Len(delivered) + 1 <= Len(cells)
        <4>1. Position(f) # Len(cells) + 1
          BY <2>0, <2>1, SameCells
        <4> QED BY <2>0, <2>1, <2>3, <4>1, Between
      <3>3. lo # hi
        <4> SUFFICES ASSUME lo = hi PROVE FALSE
          OBVIOUS
        <4>1. CellNo(hi, 1) = CellNo(hi, 0) + 1 /\ CellNo(hi, 0) \in Nat
          BY <2>2, CellStep
        <4>2. CellNo(lo, beginPos) = CellNo(lo, 0) + beginPos
          <5>1. \A x \in Int : CellNo(lo, x) = CellNo(lo, 0) + x
            BY <2>2, CellStep
          <5> QED BY <2>3, <5>1
        <4> QED BY <2>2, <2>3, <3>1, <3>2, <4>1, <4>2
      <3>4. lo < hi
        BY <2>2, <3>3
      <3>5. Chain = {g[j] : j \in lo..hi}
        <4>1. {WalkOf(begin, next, end)[i] : i \in 1..Cardinality(Chunks)} = {g[j] : j \in lo..hi}
          BY <2>1, WalkedChunks DEF ListInv
        <4> QED BY <4>1, Walks, Zenon
      <3>6. hi - 1 \in lo..hi
        BY <2>2, <3>4
      <3> QED BY <2>5, <3>1, <3>4, <3>5, <3>6
    <2> QED BY <2>6, <2>7
  <1> QED BY <1>1, BatchInvariance, PTL

(***************************************************************************)
(* With addresses for positions the chunk list is SpscQueue, step by step: *)
(* Push, Pop and Unpush, the spare chunk and the frees are invisible.      *)
(***************************************************************************)
THEOREM BatchRefinement ==
  ASSUME ~MallocFails
  PROVE  Spec => ImplementsSpscQueue
  <1>1. BatchInv /\ [Next]_vars => [Queue!Next]_(Queue!vars)
    BY StepStorage DEF QueueStep
  <1>2. Queue!Init => Spsc!Init
    BY DEF Queue!Init, Spsc!Init
  <1>3. [Queue!Next]_(Queue!vars) => [Spsc!Next]_(Spsc!vars)
    BY DEF Queue!Next, Queue!WriterStep, Queue!ReaderStep, Queue!Write, Queue!Unwrite,
           Queue!FlushCas, Queue!FlushStore, Queue!Wake, Queue!CheckRead, Queue!Prefetched,
           Queue!TakeFront, Queue!Retry, Queue!Back, Queue!NULL, Queue!Items,
           Queue!readerVars, Queue!writerVars, Queue!vars,
           Spsc!Next, Spsc!WriterStep, Spsc!ReaderStep, Spsc!Write, Spsc!Unwrite,
           Spsc!FlushCas, Spsc!FlushStore, Spsc!Wake, Spsc!CheckRead, Spsc!Prefetched,
           Spsc!TakeFront, Spsc!Retry, Spsc!Back, Spsc!NULL, Spsc!Items,
           Spsc!readerVars, Spsc!writerVars, Spsc!vars
  <1> QED BY InitBatchInv, BatchInvariance, <1>1, <1>2, <1>3, PTL
           DEF Spec, Spsc!Spec, ImplementsSpscQueue

(***************************************************************************)
(* So what is proved of SpscQueue holds of the chunks: Read returns the    *)
(* accepted items in order, and what Flush handed over is not withdrawn.   *)
(***************************************************************************)
THEOREM BatchInOrder ==
  ASSUME ~MallocFails
  PROVE  Spec => []DeliveredAsWritten
  <1>1. BatchInv /\ [Next]_vars => [Queue!Next]_(Queue!vars)
    BY StepStorage DEF QueueStep
  <1>2. Queue!Spec => []Queue!DeliveredInOrder
    BY BatchAssumption, Queue!InOrder
  <1>3. Queue!DeliveredInOrder => DeliveredAsWritten
    BY DEF Queue!DeliveredInOrder, DeliveredAsWritten
  <1> QED BY InitBatchInv, BatchInvariance, <1>1, <1>2, <1>3, PTL DEF Spec, Queue!Spec
=============================================================================
