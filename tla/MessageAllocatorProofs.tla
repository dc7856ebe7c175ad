------------------------ MODULE MessageAllocatorProofs ------------------------
(***************************************************************************)
(* Theorems about MessageAllocator: the list of every capacity is the one  *)
(* it should be, no message is lost or in two places, and what is recycled *)
(* is used again and has room.                                             *)
(***************************************************************************)
EXTENDS MessageAllocator, FiniteSetTheorems, WellFoundedInduction, TLAPS

(* A set of natural numbers that is not empty has a least element. *)
LEMMA LeastElement ==
  ASSUME NEW T \in SUBSET Nat, T # {}
  PROVE  \E x \in T : \A y \in T : x <= y
  <1> DEFINE R == {ss \in Nat \X Nat : ss[1] < ss[2]}
  <1>1. IsWellFoundedOn(R, Nat)
    BY NatLessThanWellFounded, Zenon DEF OpToRel
  <1>2. T \subseteq Nat /\ T # {}
    OBVIOUS
  <1>3. PICK x \in T : \A y \in T : ~ (<<y, x>> \in R)
    <2> HIDE DEF R
    <2> QED BY <1>1, <1>2, WFMin
  <1>4. \A y \in T : ~(y < x)
    BY <1>2, <1>3
  <1> QED BY <1>2, <1>3, <1>4

-----------------------------------------------------------------------------
(* Sums over finite sets: what MapThenSumSet adds up, in the order of CHOOSE. *)

Any(s) == CHOOSE x \in s : TRUE

\* g is the sum of f over each set of S, taken apart as the fold does.
Sums(g, f, S) ==
  /\ g \in [SUBSET S -> Nat]
  /\ \A s \in SUBSET S : g[s] = IF s = {} THEN 0 ELSE f[Any(s)] + g[s \ {Any(s)}]

\* The same for the sets of at most n members.
SumsUpTo(g, f, S, n) ==
  /\ g \in [SUBSET S -> Nat]
  /\ \A s \in SUBSET S : Cardinality(s) <= n =>
       g[s] = IF s = {} THEN 0 ELSE f[Any(s)] + g[s \ {Any(s)}]

(* What CHOOSE takes from a set that is not empty, and what is left. *)
LEMMA AnyIs ==
  ASSUME NEW S, IsFiniteSet(S), NEW s \in SUBSET S, s # {}
  PROVE  /\ Any(s) \in s /\ s \ {Any(s)} \in SUBSET S
         /\ Cardinality(s) \in Nat \ {0}
         /\ Cardinality(s \ {Any(s)}) = Cardinality(s) - 1
  <1>1. Any(s) \in s
    BY DEF Any
  <1>2. IsFiniteSet(s)
    BY FS_Subset
  <1>3. Cardinality(s) \in Nat /\ Cardinality(s) # 0
    BY <1>2, FS_CardinalityType, FS_EmptySet
  <1>4. Cardinality(s \ {Any(s)}) = Cardinality(s) - 1
    BY <1>1, <1>2, FS_RemoveElement
  <1> QED BY <1>1, <1>3, <1>4

(* A sum for the small sets extends to sets of one member more. *)
LEMMA SumsGrow ==
  ASSUME NEW S, IsFiniteSet(S), NEW f \in [S -> Nat], NEW n \in Nat,
         NEW g, SumsUpTo(g, f, S, n)
  PROVE  \E h : SumsUpTo(h, f, S, n + 1)
  <1> DEFINE h == [s \in SUBSET S |->
                     IF s = {} THEN 0
                     ELSE IF Cardinality(s) <= n THEN g[s] ELSE f[Any(s)] + g[s \ {Any(s)}]]
  <1>1. h \in [SUBSET S -> Nat]
    <2>1. ASSUME NEW s \in SUBSET S, s # {} PROVE f[Any(s)] + g[s \ {Any(s)}] \in Nat /\ g[s] \in Nat
      <3>1. Any(s) \in S /\ s \ {Any(s)} \in SUBSET S
        BY <2>1, AnyIs
      <3>2. f[Any(s)] \in Nat /\ g[s \ {Any(s)}] \in Nat /\ g[s] \in Nat
        BY <3>1 DEF SumsUpTo
      <3> QED BY <3>2
    <2> QED BY <2>1
  <1>2. ASSUME NEW s \in SUBSET S, s # {}, Cardinality(s) <= n + 1
        PROVE  h[s] = f[Any(s)] + h[s \ {Any(s)}]
    <2> DEFINE t == s \ {Any(s)}
    <2>1. /\ t \in SUBSET S /\ Cardinality(s) \in Nat /\ Cardinality(t) = Cardinality(s) - 1
      BY <1>2, AnyIs
    <2>2. Cardinality(t) <= n /\ Cardinality({}) = 0
      BY <1>2, <2>1, FS_EmptySet
    <2>3. h[t] = g[t]
      BY <2>1, <2>2 DEF SumsUpTo
    <2>4. h[s] = f[Any(s)] + g[t]
      BY <1>2, <2>1 DEF SumsUpTo
    <2> QED BY <2>3, <2>4
  <1>3. h[{}] = 0
    OBVIOUS
  <1> HIDE DEF h
  <1>4. SumsUpTo(h, f, S, n + 1)
    BY <1>1, <1>2, <1>3 DEF SumsUpTo
  <1> QED BY <1>4

(* There is such a sum. *)
LEMMA SumsExist ==
  ASSUME NEW S, IsFiniteSet(S), NEW f \in [S -> Nat]
  PROVE  \E g : Sums(g, f, S)
  <1> DEFINE T == {n \in Nat : ~ \E g : SumsUpTo(g, f, S, n)}
  <1>1. 0 \notin T
    <2> DEFINE g == [s \in SUBSET S |-> 0]
    <2>1. ASSUME NEW s \in SUBSET S, Cardinality(s) <= 0 PROVE s = {}
      <3>1. s # {} => Cardinality(s) \in Nat \ {0}
        BY AnyIs
      <3> QED BY <2>1, <3>1
    <2>2. SumsUpTo(g, f, S, 0)
      BY <2>1 DEF SumsUpTo
    <2> QED BY <2>2
  <1>2. T = {}
    <2> SUFFICES ASSUME T # {} PROVE FALSE
      OBVIOUS
    <2>1. PICK n \in T : \A k \in T : n <= k
      <3>1. T \in SUBSET Nat
        OBVIOUS
      <3> HIDE DEF T
      <3> QED BY <3>1, LeastElement
    <2>2. n - 1 \in Nat /\ n - 1 \notin T /\ (n - 1) + 1 = n
      BY <1>1, <2>1
    <2>3. PICK g : SumsUpTo(g, f, S, n - 1)
      BY <2>2
    <2>4. \E h : SumsUpTo(h, f, S, (n - 1) + 1)
      BY <2>2, <2>3, SumsGrow
    <2> QED BY <2>1, <2>2, <2>4
  <1>3. Cardinality(S) \in Nat
    BY FS_CardinalityType
  <1>4. PICK g : SumsUpTo(g, f, S, Cardinality(S))
    BY <1>2, <1>3
  <1>5. \A s \in SUBSET S : Cardinality(s) <= Cardinality(S)
    BY FS_Subset
  <1> QED BY <1>4, <1>5 DEF Sums, SumsUpTo

(* A sum is any member's share and the sum of the rest. *)
LEMMA SumsAdd ==
  ASSUME NEW S, IsFiniteSet(S), NEW f \in [S -> Nat], NEW g, Sums(g, f, S),
         NEW s \in SUBSET S, NEW x \in s
  PROVE  g[s] = f[x] + g[s \ {x}]
  <1> DEFINE Wrong(t, y) == g[t] # f[y] + g[t \ {y}]
             T == {n \in Nat : \E t \in SUBSET S : \E y \in t : Cardinality(t) = n /\ Wrong(t, y)}
  <1>1. T = {}
    <2> SUFFICES ASSUME T # {} PROVE FALSE
      OBVIOUS
    <2>1. PICK n \in T : \A k \in T : n <= k
      <3>1. T \in SUBSET Nat
        OBVIOUS
      <3> HIDE DEF T
      <3> QED BY <3>1, LeastElement
    <2>2a. PICK t \in SUBSET S : \E y \in t : Cardinality(t) = n /\ Wrong(t, y)
      BY <2>1
    <2>2. PICK y \in t : Cardinality(t) = n /\ Wrong(t, y)
      BY <2>2a
    <2> DEFINE c == Any(t)
    <2>3. /\ c \in t /\ n \in Nat \ {0} /\ t \ {c} \in SUBSET S
          /\ Cardinality(t \ {c}) = n - 1 /\ t # {}
      BY <2>2, AnyIs
    <2>4. g[t] = f[c] + g[t \ {c}]
      BY <2>3 DEF Sums
    <2>5. c # y
      BY <2>2, <2>4
    <2>6. t \ {y} \in SUBSET S /\ Cardinality(t \ {y}) = n - 1
      <3>1. IsFiniteSet(t)
        BY FS_Subset
      <3> QED BY <2>2, <3>1, FS_RemoveElement
    <2>7. n - 1 \notin T /\ n - 1 \in Nat
      <3> HIDE DEF T
      <3> QED BY <2>1, <2>3
    <2>8. y \in t \ {c} /\ c \in t \ {y}
      BY <2>3, <2>5
    <2>9. g[t \ {c}] = f[y] + g[(t \ {c}) \ {y}]
      BY <2>3, <2>7, <2>8
    <2>10. g[t \ {y}] = f[c] + g[(t \ {y}) \ {c}]
      BY <2>6, <2>7, <2>8
    <2>11. (t \ {c}) \ {y} = (t \ {y}) \ {c}
      OBVIOUS
    <2>12. /\ f[c] \in Nat /\ f[y] \in Nat /\ g[(t \ {y}) \ {c}] \in Nat
      BY <2>2, <2>3 DEF Sums
    <2>13. ~ Wrong(t, y)
      <3> DEFINE both == g[(t \ {y}) \ {c}]
                 withoutC == g[t \ {c}]
                 withoutY == g[t \ {y}]
                 shareC == f[c]
                 shareY == f[y]
      <3>1. g[t] = shareC + withoutC /\ withoutC = shareY + both /\ withoutY = shareC + both
        BY <2>4, <2>9, <2>10, <2>11
      <3>2. both \in Nat /\ shareC \in Nat /\ shareY \in Nat
        BY <2>12
      <3> HIDE DEF both, withoutC, withoutY, shareC, shareY
      <3>3. g[t] = shareY + withoutY
        BY <3>1, <3>2
      <3> QED BY <3>3 DEF shareY, withoutY
    <2> QED BY <2>2, <2>13
  <1>2. Cardinality(s) \in Nat
    BY AnyIs
  <1>3. Cardinality(s) \notin T
    BY <1>1
  <1> QED BY <1>2, <1>3

\* g adds up f over the sets of numbers up to m.
SumsOver(g, f, m) == f \in [0..m -> Nat] /\ Sums(g, f, 0..m)

(* A sum over an interval grows by its last member. *)
LEMMA SumsTo ==
  ASSUME NEW m \in Nat, NEW f, NEW g, SumsOver(g, f, m)
  PROVE  /\ g[0..0] = f[0]
         /\ \A k \in 1..m : g[0..k] = f[k] + g[0..(k - 1)]
         /\ \A k \in 0..m : g[0..k] \in Nat
  <1> DEFINE S == 0..m
  <1>0a. IsFiniteSet(S)
    BY FS_Interval
  <1>0. f \in [S -> Nat] /\ Sums(g, f, S)
    BY DEF SumsOver
  <1>1. \A s \in SUBSET S : \A x \in s : g[s] = f[x] + g[s \ {x}]
    <2>1. f \in [S -> Nat]
      BY <1>0
    <2>2. Sums(g, f, S)
      BY <1>0
    <2> HIDE DEF S
    <2> TAKE s \in SUBSET S
    <2> TAKE x \in s
    <2> QED BY <1>0a, <2>1, <2>2, SumsAdd
  <1>2. ASSUME NEW k \in 0..m PROVE g[0..k] = f[k] + g[(0..k) \ {k}]
    <2>1. 0..k \in SUBSET S /\ k \in 0..k
      BY <1>2
    <2> QED BY <1>1, <2>1, Zenon
  <1>3. (0..0) \ {0} = {} /\ g[{}] = 0
    <2>1. (0..0) \ {0} = {}
      OBVIOUS
    <2>2. {} \in SUBSET S
      OBVIOUS
    <2>3. g[{}] = 0
      BY <1>0, <2>2 DEF Sums
    <2> QED BY <2>1, <2>3
  <1>4. g[0..0] = f[0]
    <2>0. 0 \in 0..m
      OBVIOUS
    <2>1. g[0..0] = f[0] + g[(0..0) \ {0}]
      BY <1>2, <2>0, Zenon
    <2>2. g[(0..0) \ {0}] = 0
      BY <1>3, Zenon
    <2>3. f[0] \in Nat
      BY <1>0, <2>0
    <2> QED BY <2>1, <2>2, <2>3
  <1>5. ASSUME NEW k \in 1..m PROVE g[0..k] = f[k] + g[0..(k - 1)]
    <2>1. (0..k) \ {k} = 0..(k - 1) /\ k \in 0..m
      OBVIOUS
    <2> QED BY <1>2, <2>1, Zenon
  <1>6. ASSUME NEW k \in 0..m PROVE g[0..k] \in Nat
    <2>1. 0..k \in SUBSET S
      OBVIOUS
    <2> QED BY <1>0, <2>1 DEF Sums
  <1> QED BY <1>4, <1>5, <1>6

(* There is such a sum up to every number. *)
LEMMA SumsOverExist ==
  ASSUME NEW m \in Nat, NEW f \in [0..m -> Nat]
  PROVE  \E g : SumsOver(g, f, m)
  <1>1. IsFiniteSet(0..m)
    BY FS_Interval
  <1> QED BY <1>1, SumsExist DEF SumsOver


\* h is taken apart as the fold does it, which is how the fold is defined.
FoldOf(h, f, S) ==
  h = [s \in SUBSET S |-> IF s = {} THEN 0 ELSE f[Any(s)] + h[s \ {Any(s)}]]

(* A sum is a fold. *)
LEMMA SumsAreFolds ==
  ASSUME NEW S, NEW f, NEW g, Sums(g, f, S)
  PROVE  FoldOf(g, f, S)
  <1>1. g = [s \in SUBSET S |-> g[s]]
    BY DEF Sums
  <1> QED BY <1>1 DEF Sums, FoldOf

(* There is one fold, whatever the order of CHOOSE. *)
LEMMA FoldIsSum ==
  ASSUME NEW S, IsFiniteSet(S), NEW f, NEW g, Sums(g, f, S), NEW h, FoldOf(h, f, S)
  PROVE  h = g
  <1> DEFINE T == {n \in Nat : \E t \in SUBSET S : Cardinality(t) = n /\ h[t] # g[t]}
  <1>1. T = {}
    <2> SUFFICES ASSUME T # {} PROVE FALSE
      OBVIOUS
    <2>1. PICK n \in T : \A k \in T : n <= k
      <3>1. T \in SUBSET Nat
        OBVIOUS
      <3> HIDE DEF T
      <3> QED BY <3>1, LeastElement
    <2>2. PICK t \in SUBSET S : Cardinality(t) = n /\ h[t] # g[t]
      BY <2>1
    <2>3. h[t] = IF t = {} THEN 0 ELSE f[Any(t)] + h[t \ {Any(t)}]
      BY DEF FoldOf
    <2>4. g[t] = IF t = {} THEN 0 ELSE f[Any(t)] + g[t \ {Any(t)}]
      BY DEF Sums
    <2>5. t # {} /\ h[t \ {Any(t)}] # g[t \ {Any(t)}]
      BY <2>2, <2>3, <2>4
    <2>6. /\ n \in Nat \ {0} /\ t \ {Any(t)} \in SUBSET S /\ Cardinality(t \ {Any(t)}) = n - 1
      BY <2>2, <2>5, AnyIs
    <2>7. n - 1 \in T
      BY <2>5, <2>6
    <2> HIDE DEF T
    <2> QED BY <2>1, <2>6, <2>7
  <1>2. ASSUME NEW t \in SUBSET S PROVE h[t] = g[t]
    <2>1. Cardinality(t) \in Nat
      BY FS_Subset, FS_CardinalityType
    <2> QED BY <1>1, <2>1
  <1>3. h = [t \in SUBSET S |-> h[t]] /\ g = [t \in SUBSET S |-> g[t]]
    BY DEF FoldOf, Sums
  <1> QED BY <1>2, <1>3, Zenon

-----------------------------------------------------------------------------
(* Powers of two, one by one: the provers know them for numerals only. *)

Doubles(b) == 2^b \in Nat \ {0} /\ 2^(b + 1) = 2 * 2^b

(* Each power of two is twice the one before. *)
LEMMA Doubling == 2^0 = 1 /\ \A b \in 0..30 : Doubles(b)
  <1>1. 2^0 = 1
    OBVIOUS
  <1>2. /\ Doubles(0) /\ Doubles(1) /\ Doubles(2) /\ Doubles(3) /\ Doubles(4)
        /\ Doubles(5) /\ Doubles(6) /\ Doubles(7) /\ Doubles(8) /\ Doubles(9)
        /\ Doubles(10) /\ Doubles(11) /\ Doubles(12) /\ Doubles(13) /\ Doubles(14)
    BY DEF Doubles
  <1>3. /\ Doubles(15) /\ Doubles(16) /\ Doubles(17) /\ Doubles(18) /\ Doubles(19)
        /\ Doubles(20) /\ Doubles(21) /\ Doubles(22) /\ Doubles(23) /\ Doubles(24)
        /\ Doubles(25) /\ Doubles(26) /\ Doubles(27) /\ Doubles(28) /\ Doubles(29)
        /\ Doubles(30)
    BY DEF Doubles
  <1>4. ASSUME NEW b \in 0..14 PROVE Doubles(b)
    BY <1>2
  <1>5. ASSUME NEW b \in 15..30 PROVE Doubles(b)
    BY <1>3
  <1> QED BY <1>1, <1>4, <1>5

(* A higher power is no smaller. *)
LEMMA PowersGrow ==
  ASSUME NEW k \in 0..30, NEW b \in 0..30, k <= b
  PROVE  2^k <= 2^b
  <1> DEFINE T == {n \in k..30 : ~(2^k <= 2^n)}
  <1>1. \A n \in 0..30 : 2^n \in Nat /\ 2^(n + 1) = 2 * 2^n
    BY Doubling DEF Doubles
  <1>2. T = {}
    <2> SUFFICES ASSUME T # {} PROVE FALSE
      OBVIOUS
    <2>1. PICK n \in T : \A j \in T : n <= j
      <3>1. T \in SUBSET Nat
        OBVIOUS
      <3> HIDE DEF T
      <3> QED BY <3>1, LeastElement
    <2>2. n # k /\ n \in k..30
      BY <1>1
    <2>3. n - 1 \notin T /\ n - 1 \in k..30 /\ (n - 1) + 1 = n
      <3>1. n - 1 \in k..30 /\ (n - 1) + 1 = n
        BY <2>2
      <3> HIDE DEF T
      <3> QED BY <2>1, <3>1
    <2>4. 2^k <= 2^(n - 1)
      BY <2>3
    <2>5. 2^((n - 1) + 1) = 2 * 2^(n - 1) /\ 2^(n - 1) \in Nat /\ 2^k \in Nat
      <3>1. n - 1 \in 0..30
        BY <2>3
      <3> QED BY <1>1, <3>1, Zenon
    <2>6. ~(2^k <= 2^n)
      OBVIOUS
    <2> DEFINE p == 2^k  q == 2^(n - 1)  r == 2^n
    <2>7. p <= q /\ r = 2 * q /\ q \in Nat /\ p \in Nat
      BY <2>3, <2>4, <2>5
    <2> HIDE DEF p, q, r
    <2>8. p <= r
      BY <2>7
    <2> QED BY <2>6, <2>8 DEF p, r
  <1> QED BY <1>2

\* The powers of two of a set of bits, added up.
PowerSum(S) == MapThenSumSet(LAMBDA b : 2^b, S)

\* The fold that does so.
PowersOf(h, S) ==
  h = [s \in SUBSET S |-> IF s = {} THEN 0 ELSE 2^Any(s) + h[s \ {Any(s)}]]

(* The bits 0 to k make 2^(k + 1) - 1. *)
LEMMA AllOnes ==
  ASSUME NEW k \in 0..30
  PROVE  PowerSum(0..k) = 2^(k + 1) - 1
  <1> DEFINE S == 0..k
             f == [b \in S |-> 2^b]
  <1>1. \A b \in S : 2^b \in Nat /\ 2^(b + 1) = 2 * 2^b /\ f[b] = 2^b
    <2> SUFFICES ASSUME NEW b \in S PROVE 2^b \in Nat /\ 2^(b + 1) = 2 * 2^b
      OBVIOUS
    <2>1. b \in 0..30
      OBVIOUS
    <2>2. Doubles(b)
      BY <2>1, Doubling, Zenon
    <2> QED BY <2>2 DEF Doubles
  <1>2. f \in [0..k -> Nat] /\ k \in Nat /\ k \in S
    BY <1>1
  <1>3. PICK g : SumsOver(g, f, k)
    <2> HIDE DEF f
    <2> QED BY <1>2, SumsOverExist
  <1>4. Sums(g, f, S) /\ IsFiniteSet(S) /\ f \in [S -> Nat]
    BY <1>2, <1>3, FS_Interval DEF SumsOver
  <1>5. ASSUME NEW h PROVE PowersOf(h, S) <=> FoldOf(h, f, S)
    <2>1. ASSUME NEW s \in SUBSET S, s # {} PROVE f[Any(s)] = 2^Any(s)
      BY <1>1, <2>1 DEF Any
    <2> HIDE DEF S, f
    <2> QED BY <2>1, Zenon DEF PowersOf, FoldOf
  <1>6. PICK h : PowersOf(h, S) /\ PowerSum(S) = h[S]
    <2>1. PowersOf(g, S)
      BY <1>4, <1>5, SumsAreFolds
    <2> HIDE DEF S
    <2> QED BY <2>1, Zenon DEF PowerSum, MapThenSumSet, MapThenFoldSet, PowersOf, Any
  <1>7. h = g
    <2> HIDE DEF S, f
    <2> QED BY <1>4, <1>5, <1>6, FoldIsSum
  <1> DEFINE T == {j \in S : g[0..j] # 2^(j + 1) - 1}
  <1>8. /\ g[0..0] = f[0]
        /\ \A j \in 1..k : g[0..j] = f[j] + g[0..(j - 1)]
    <2> HIDE DEF f
    <2> QED BY <1>2, <1>3, SumsTo
  <1>9. 0 \notin T
    BY <1>1, <1>8, 2^0 = 1
  <1>10. T = {}
    <2> SUFFICES ASSUME T # {} PROVE FALSE
      OBVIOUS
    <2>1. PICK j \in T : \A i \in T : j <= i
      <3>1. T \in SUBSET Nat
        OBVIOUS
      <3> HIDE DEF T
      <3> QED BY <3>1, LeastElement
    <2>2. j \in S /\ j # 0
      BY <1>9
    <2>3. j \in 1..k /\ j - 1 \in S /\ (j - 1) + 1 = j
      BY <2>2
    <2>4. j - 1 \notin T
      <3> HIDE DEF T
      <3> QED BY <2>1, <2>3
    <2>5. g[0..(j - 1)] = 2^((j - 1) + 1) - 1
      BY <2>3, <2>4
    <2>6. g[0..(j - 1)] = 2^j - 1
      BY <2>3, <2>5
    <2>7. g[0..j] = f[j] + g[0..(j - 1)] /\ f[j] = 2^j /\ 2^j \in Nat /\ 2^(j + 1) = 2 * 2^j
      BY <1>1, <1>8, <2>2, <2>3
    <2>8. g[0..j] = 2^(j + 1) - 1
      <3> DEFINE p == 2^j  q == 2^(j + 1)  u == g[0..j]  w == g[0..(j - 1)]
      <3>1. u = p + w /\ w = p - 1 /\ p \in Nat /\ q = 2 * p
        BY <2>6, <2>7
      <3> HIDE DEF p, q, u, w
      <3>2. u = q - 1
        BY <3>1
      <3> QED BY <3>2 DEF u, q
    <2> QED BY <2>8
  <1>11. g[S] = 2^(k + 1) - 1
    BY <1>2, <1>10
  <1> QED BY <1>6, <1>7, <1>11, Zenon

-----------------------------------------------------------------------------
(* The de Bruijn product, byte by byte. *)

kDeBruijn == 130329821

Column(a, n) == MapThenSumSet(LAMBDA i : Byte(a, i) * Byte(kDeBruijn, n - i), 0..n)

\* The fold that adds up a column.
ColumnOf(h, S, a, n) ==
  h = [s \in SUBSET S |->
         IF s = {} THEN 0
         ELSE Byte(a, Any(s)) * Byte(kDeBruijn, n - Any(s)) + h[s \ {Any(s)}]]

(* A byte is a number. *)
LEMMA ByteType ==
  ASSUME NEW a \in Nat, NEW i \in 0..3
  PROVE  Byte(a, i) \in Nat
  <1>1. 256^0 = 1 /\ 256^1 = 256 /\ 256^2 = 65536 /\ 256^3 = 16777216
    OBVIOUS
  <1>2. i = 0 \/ i = 1 \/ i = 2 \/ i = 3
    OBVIOUS
  <1>3. 256^i \in Nat \ {0}
    <2>1. CASE i = 0 BY <1>1, <2>1
    <2>2. CASE i = 1 BY <1>1, <2>2
    <2>3. CASE i = 2 BY <1>1, <2>3
    <2>4. CASE i = 3 BY <1>1, <2>4
    <2> QED BY <1>2, <2>1, <2>2, <2>3, <2>4
  <1> DEFINE p == 256^i
  <1> HIDE DEF p
  <1>4. (a \div p) % 256 \in Nat
    BY <1>3 DEF p
  <1> QED BY <1>4 DEF Byte, p

(* A column is added up from its first byte to its last. *)
LEMMA ColumnSum ==
  ASSUME NEW a \in Nat, NEW n \in 0..3
  PROVE  \E u \in [0..n -> Nat] :
           /\ u[0] = Byte(a, 0) * Byte(kDeBruijn, n - 0)
           /\ \A i \in 1..n : u[i] = Byte(a, i) * Byte(kDeBruijn, n - i) + u[i - 1]
           /\ Column(a, n) = u[n]
  <1> DEFINE S == 0..n
             f == [i \in S |-> Byte(a, i) * Byte(kDeBruijn, n - i)]
  <1>1. \A i \in S : f[i] \in Nat
    <2> SUFFICES ASSUME NEW i \in S PROVE f[i] \in Nat
      OBVIOUS
    <2>1. i \in 0..3 /\ n - i \in 0..3 /\ kDeBruijn \in Nat
      BY DEF kDeBruijn
    <2>2. Byte(a, i) \in Nat /\ Byte(kDeBruijn, n - i) \in Nat
      BY <2>1, ByteType
    <2> QED BY <2>2
  <1>2. f \in [0..n -> Nat] /\ n \in Nat
    BY <1>1
  <1>3. PICK g : SumsOver(g, f, n)
    <2> HIDE DEF f
    <2> QED BY <1>2, SumsOverExist
  <1>4. Sums(g, f, S) /\ IsFiniteSet(S) /\ f \in [S -> Nat]
    <2>1. IsFiniteSet(S)
      BY <1>2, FS_Interval
    <2> HIDE DEF f
    <2> QED BY <1>2, <1>3, <2>1 DEF SumsOver
  <1>5. ASSUME NEW h PROVE ColumnOf(h, S, a, n) <=> FoldOf(h, f, S)
    <2>1. ASSUME NEW s \in SUBSET S, s # {}
          PROVE  f[Any(s)] = Byte(a, Any(s)) * Byte(kDeBruijn, n - Any(s))
      <3>1. Any(s) \in S
        BY <2>1 DEF Any
      <3> QED BY <3>1
    <2> HIDE DEF S, f
    <2> QED BY <2>1, Zenon DEF ColumnOf, FoldOf
  <1>6. PICK h : ColumnOf(h, S, a, n) /\ Column(a, n) = h[S]
    <2>1. ColumnOf(g, S, a, n)
      BY <1>4, <1>5, SumsAreFolds
    <2>2. Column(a, n) = MapThenSumSet(LAMBDA i : Byte(a, i) * Byte(kDeBruijn, n - i), S)
      BY Zenon DEF Column
    <2> HIDE DEF S
    <2>3. \E h : /\ ColumnOf(h, S, a, n)
                 /\ MapThenSumSet(LAMBDA i : Byte(a, i) * Byte(kDeBruijn, n - i), S) = h[S]
      BY <2>1, Zenon DEF MapThenSumSet, MapThenFoldSet, ColumnOf, Any
    <2> QED BY <2>2, <2>3, Zenon
  <1>7. h = g
    <2> HIDE DEF S, f
    <2> QED BY <1>4, <1>5, <1>6, FoldIsSum
  <1>8. /\ g[0..0] = f[0]
        /\ \A i \in 1..n : g[0..i] = f[i] + g[0..(i - 1)]
        /\ \A i \in 0..n : g[0..i] \in Nat
    <2> HIDE DEF f
    <2> QED BY <1>2, <1>3, SumsTo
  <1>9. /\ f[0] = Byte(a, 0) * Byte(kDeBruijn, n - 0)
        /\ \A i \in 1..n : f[i] = Byte(a, i) * Byte(kDeBruijn, n - i)
    <2>1. 0 \in S /\ \A i \in 1..n : i \in S
      OBVIOUS
    <2> QED BY <2>1
  <1> DEFINE u == [i \in 0..n |-> g[0..i]]
  <1>10. u \in [0..n -> Nat] /\ u[0] = g[0..0] /\ u[n] = g[S]
         /\ \A i \in 1..n : u[i] = g[0..i] /\ u[i - 1] = g[0..(i - 1)]
    <2>1. u \in [0..n -> Nat]
      BY <1>8
    <2>2. 0 \in 0..n /\ n \in 0..n /\ \A i \in 1..n : i \in 0..n /\ i - 1 \in 0..n
      OBVIOUS
    <2> HIDE DEF f
    <2> QED BY <2>1, <2>2
  <1> HIDE DEF u, f
  <1> QED BY <1>6, <1>7, <1>8, <1>9, <1>10, Zenon

(* The four columns, with the bytes of 0x07C4ACDD. *)
LEMMA Columns ==
  ASSUME NEW a \in Nat
  PROVE  /\ Column(a, 0) = Byte(a, 0) * 221
         /\ Column(a, 1) = Byte(a, 1) * 221 + Byte(a, 0) * 172
         /\ Column(a, 2) = Byte(a, 2) * 221 + (Byte(a, 1) * 172 + Byte(a, 0) * 196)
         /\ Column(a, 3) =
              Byte(a, 3) * 221 + (Byte(a, 2) * 172 + (Byte(a, 1) * 196 + Byte(a, 0) * 7))
  <1>1. /\ Byte(kDeBruijn, 0) = 221 /\ Byte(kDeBruijn, 1) = 172
        /\ Byte(kDeBruijn, 2) = 196 /\ Byte(kDeBruijn, 3) = 7
    BY DEF Byte, kDeBruijn
  <1> DEFINE b(i) == Byte(a, i)  c(i) == Byte(kDeBruijn, i)
  <1>2. Column(a, 0) = b(0) * 221
    <2>1. PICK u \in [0..0 -> Nat] : u[0] = b(0) * c(0 - 0) /\ Column(a, 0) = u[0]
      BY ColumnSum
    <2> HIDE DEF b
    <2> QED BY <1>1, <2>1
  <1>3. Column(a, 1) = b(1) * 221 + b(0) * 172
    <2>1. PICK u \in [0..1 -> Nat] : /\ u[0] = b(0) * c(1 - 0)
                                     /\ \A i \in 1..1 : u[i] = b(i) * c(1 - i) + u[i - 1]
                                     /\ Column(a, 1) = u[1]
      <3>1. 1 \in 0..3
        OBVIOUS
      <3> QED BY <3>1, ColumnSum, Zenon
    <2>2. u[1] = b(1) * c(1 - 1) + u[1 - 1]
      BY <2>1
    <2> HIDE DEF b
    <2> QED BY <1>1, <2>1, <2>2
  <1>4. Column(a, 2) = b(2) * 221 + (b(1) * 172 + b(0) * 196)
    <2>1. PICK u \in [0..2 -> Nat] : /\ u[0] = b(0) * c(2 - 0)
                                     /\ \A i \in 1..2 : u[i] = b(i) * c(2 - i) + u[i - 1]
                                     /\ Column(a, 2) = u[2]
      <3>1. 2 \in 0..3
        OBVIOUS
      <3> QED BY <3>1, ColumnSum, Zenon
    <2>2. u[2] = b(2) * c(2 - 2) + u[2 - 1] /\ u[1] = b(1) * c(2 - 1) + u[1 - 1]
      BY <2>1
    <2> HIDE DEF b
    <2> QED BY <1>1, <2>1, <2>2
  <1>5. Column(a, 3) = b(3) * 221 + (b(2) * 172 + (b(1) * 196 + b(0) * 7))
    <2>1. PICK u \in [0..3 -> Nat] : /\ u[0] = b(0) * c(3 - 0)
                                     /\ \A i \in 1..3 : u[i] = b(i) * c(3 - i) + u[i - 1]
                                     /\ Column(a, 3) = u[3]
      <3>1. 3 \in 0..3
        OBVIOUS
      <3> QED BY <3>1, ColumnSum, Zenon
    <2>2. /\ u[3] = b(3) * c(3 - 3) + u[3 - 1] /\ u[2] = b(2) * c(3 - 2) + u[2 - 1]
          /\ u[1] = b(1) * c(3 - 1) + u[1 - 1]
      BY <2>1
    <2> HIDE DEF b
    <2> QED BY <1>1, <2>1, <2>2
  <1> QED BY <1>2, <1>3, <1>4, <1>5

\* The top five bits of the sum of four columns.
TopFive(c0, c1, c2, c3) == ((c3 + (c2 + (c1 + c0 \div 256) \div 256) \div 256) % 256) \div 8

(* What the table is looked up with. *)
LEMMA Product ==
  ASSUME NEW a \in Nat
  PROVE  MulTopFive(a, kDeBruijn) =
           TopFive(Column(a, 0), Column(a, 1), Column(a, 2), Column(a, 3))
  BY Zenon DEF MulTopFive, TopFive, Column

\* The table's answer for the bits 0 to k.
Found(k) == MultiplyDeBruijnBitPosition[MulTopFive(2^(k + 1) - 1, kDeBruijn) + 1] = k

\* The bits 0 to k make the bytes b0 to b3, and these are found in the table.
Ones(k, b0, b1, b2, b3) ==
  /\ b0 \in 0..255 /\ b1 \in 0..255 /\ b2 \in 0..255 /\ b3 \in 0..255
  /\ 2^(k + 1) - 1 = b0 + 256 * b1 + 65536 * b2 + 16777216 * b3
  /\ MultiplyDeBruijnBitPosition[
       TopFive(b0 * 221, b1 * 221 + b0 * 172, b2 * 221 + (b1 * 172 + b0 * 196),
               b3 * 221 + (b2 * 172 + (b1 * 196 + b0 * 7))) + 1] = k

(* The bytes are all that matters. *)
LEMMA OnesFound ==
  ASSUME NEW k, NEW b0, NEW b1, NEW b2, NEW b3, Ones(k, b0, b1, b2, b3)
  PROVE  Found(k)
  <1> DEFINE a == 2^(k + 1) - 1
  <1>1. /\ b0 \in 0..255 /\ b1 \in 0..255 /\ b2 \in 0..255 /\ b3 \in 0..255
        /\ a = b0 + 256 * b1 + 65536 * b2 + 16777216 * b3
    BY DEF Ones
  <1>2. a \in Nat
    BY <1>1
  <1> HIDE DEF a
  <1>3. /\ a \div 1 = a /\ a \div 256 = b1 + 256 * b2 + 65536 * b3
        /\ a \div 65536 = b2 + 256 * b3 /\ a \div 16777216 = b3
    BY <1>1
  <1>4. 256^0 = 1 /\ 256^1 = 256 /\ 256^2 = 65536 /\ 256^3 = 16777216
    OBVIOUS
  <1>5. Byte(a, 0) = b0 /\ Byte(a, 1) = b1 /\ Byte(a, 2) = b2 /\ Byte(a, 3) = b3
    BY <1>1, <1>3, <1>4 DEF Byte
  <1>6. MulTopFive(a, kDeBruijn) =
          TopFive(b0 * 221, b1 * 221 + b0 * 172, b2 * 221 + (b1 * 172 + b0 * 196),
                  b3 * 221 + (b2 * 172 + (b1 * 196 + b0 * 7)))
    <2>1. /\ Column(a, 0) = b0 * 221
          /\ Column(a, 1) = b1 * 221 + b0 * 172
          /\ Column(a, 2) = b2 * 221 + (b1 * 172 + b0 * 196)
          /\ Column(a, 3) = b3 * 221 + (b2 * 172 + (b1 * 196 + b0 * 7))
      <3>1. /\ Column(a, 0) = Byte(a, 0) * 221
            /\ Column(a, 1) = Byte(a, 1) * 221 + Byte(a, 0) * 172
            /\ Column(a, 2) = Byte(a, 2) * 221 + (Byte(a, 1) * 172 + Byte(a, 0) * 196)
            /\ Column(a, 3) =
                 Byte(a, 3) * 221 + (Byte(a, 2) * 172 + (Byte(a, 1) * 196 + Byte(a, 0) * 7))
        BY <1>2, Columns
      <3> QED BY <1>5, <3>1, Zenon
    <2>2. MulTopFive(a, kDeBruijn) =
            TopFive(Column(a, 0), Column(a, 1), Column(a, 2), Column(a, 3))
      BY <1>2, Product, Zenon
    <2> QED BY <2>1, <2>2, Zenon
  <1>7. MultiplyDeBruijnBitPosition[
          TopFive(b0 * 221, b1 * 221 + b0 * 172, b2 * 221 + (b1 * 172 + b0 * 196),
                  b3 * 221 + (b2 * 172 + (b1 * 196 + b0 * 7))) + 1] = k
    BY DEF Ones
  <1>8. MultiplyDeBruijnBitPosition[MulTopFive(a, kDeBruijn) + 1] = k
    BY <1>6, <1>7, Zenon
  <1> QED BY <1>8, Zenon DEF Found, a

(* All that is looked up for capacities that are not too big. *)
LEMMA TableIsRight == \A k \in 0..22 : Found(k)
  <1>1. /\ Ones(0, 1, 0, 0, 0) /\ Ones(1, 3, 0, 0, 0) /\ Ones(2, 7, 0, 0, 0)
        /\ Ones(3, 15, 0, 0, 0) /\ Ones(4, 31, 0, 0, 0) /\ Ones(5, 63, 0, 0, 0)
        /\ Ones(6, 127, 0, 0, 0) /\ Ones(7, 255, 0, 0, 0)
    BY DEF Ones, TopFive, MultiplyDeBruijnBitPosition
  <1>2. /\ Ones(8, 255, 1, 0, 0) /\ Ones(9, 255, 3, 0, 0) /\ Ones(10, 255, 7, 0, 0)
        /\ Ones(11, 255, 15, 0, 0) /\ Ones(12, 255, 31, 0, 0) /\ Ones(13, 255, 63, 0, 0)
        /\ Ones(14, 255, 127, 0, 0) /\ Ones(15, 255, 255, 0, 0)
    BY DEF Ones, TopFive, MultiplyDeBruijnBitPosition
  <1>3. /\ Ones(16, 255, 255, 1, 0) /\ Ones(17, 255, 255, 3, 0) /\ Ones(18, 255, 255, 7, 0)
        /\ Ones(19, 255, 255, 15, 0) /\ Ones(20, 255, 255, 31, 0) /\ Ones(21, 255, 255, 63, 0)
        /\ Ones(22, 255, 255, 127, 0)
    BY DEF Ones, TopFive, MultiplyDeBruijnBitPosition
  <1>4. /\ Found(0) /\ Found(1) /\ Found(2) /\ Found(3) /\ Found(4) /\ Found(5) /\ Found(6) /\ Found(7)
    BY <1>1, OnesFound
  <1>5. /\ Found(8) /\ Found(9) /\ Found(10) /\ Found(11) /\ Found(12) /\ Found(13) /\ Found(14) /\ Found(15)
    BY <1>2, OnesFound
  <1>6. /\ Found(16) /\ Found(17) /\ Found(18) /\ Found(19) /\ Found(20) /\ Found(21) /\ Found(22)
    BY <1>3, OnesFound
  <1>7. \A k \in 0..7 : Found(k)
    BY <1>4
  <1>8. \A k \in 8..15 : Found(k)
    BY <1>5
  <1>9. \A k \in 16..22 : Found(k)
    BY <1>6
  <1> QED BY <1>7, <1>8, <1>9

-----------------------------------------------------------------------------
(* The highest bit. *)

\* k is the place of the highest bit of v.
Highest(k, v) == 2^k <= v /\ v < 2^(k + 1)

(* A quotient is the number of whole times. *)
LEMMA QuotientSmall ==
  ASSUME NEW v \in Nat, NEW p \in Nat \ {0}, NEW q \in Nat, NEW r \in Nat, v = p * q + r, r < p
  PROVE  v \div p = q
  OBVIOUS

(* The bits of v end at its highest one. *)
LEMMA HighestBit ==
  ASSUME NEW k \in 0..30, NEW v \in Nat, Highest(k, v)
  PROVE  BitsOf(v) \subseteq 0..k /\ k \in BitsOf(v)
  <1>1. 2^k \in Nat \ {0} /\ 2^(k + 1) = 2 * 2^k
    BY Doubling DEF Doubles
  <1>2. k \in BitsOf(v)
    <2> DEFINE p == 2^k
    <2>1. p \in Nat \ {0} /\ p <= v /\ v < 2 * p
      BY <1>1 DEF Highest
    <2> HIDE DEF p
    <2>2. v - p \in Nat /\ v = p * 1 + (v - p) /\ v - p < p
      BY <2>1
    <2>3. v \div p = 1
      BY <2>1, <2>2, QuotientSmall
    <2>4. (v \div 2^k) % 2 = 1
      <3>1. (v \div p) % 2 = 1
        BY <2>3
      <3> QED BY <3>1, Zenon DEF p
    <2> QED BY <2>4 DEF BitsOf
  <1>3. ASSUME NEW b \in 0..30, k < b PROVE b \notin BitsOf(v)
    <2>1. k + 1 \in 0..30 /\ k + 1 <= b
      BY <1>3
    <2>2. 2^(k + 1) <= 2^b
      BY <2>1, PowersGrow
    <2>3. 2^b \in Nat \ {0}
      BY Doubling DEF Doubles
    <2> DEFINE p == 2^b
    <2>4. v < p /\ p \in Nat \ {0}
      <3>1. 2^(k + 1) \in Nat /\ v < 2^(k + 1)
        BY <1>1 DEF Highest
      <3> QED BY <2>2, <2>3, <3>1
    <2> HIDE DEF p
    <2>5. v \div p = 0
      <3>1. v = p * 0 + v /\ 0 \in Nat
        BY <2>4
      <3> QED BY <2>4, <3>1, QuotientSmall
    <2>6. (v \div 2^b) % 2 = 0
      <3>1. (v \div p) % 2 = 0
        BY <2>5
      <3> QED BY <3>1, Zenon DEF p
    <2> QED BY <2>6 DEF BitsOf
  <1>4. BitsOf(v) \subseteq 0..30
    BY DEF BitsOf
  <1> QED BY <1>2, <1>3, <1>4

\* The n highest places up to k are in bits, and none above.
FilledTo(bits, k, n) == bits \subseteq 0..k /\ \A b \in 0..k : k - b < n => b \in bits

(* Each turn doubles how far the highest bit has spread. *)
LEMMA ShiftFills ==
  ASSUME NEW k \in Nat, NEW n \in Nat, NEW bits, FilledTo(bits, k, n)
  PROVE  FilledTo(OrShifted(bits, n), k, 2 * n)
  <1>1. bits \subseteq 0..k /\ \A b \in 0..k : k - b < n => b \in bits
    BY DEF FilledTo
  <1>2. ASSUME NEW b \in OrShifted(bits, n) PROVE b \in 0..k
    BY <1>1 DEF OrShifted
  <1>3. ASSUME NEW b \in 0..k, k - b < 2 * n PROVE b \in OrShifted(bits, n)
    <2>1. CASE k - b < n
      BY <1>1, <2>1 DEF OrShifted
    <2>2. CASE ~(k - b < n)
      <3>1. b + n \in 0..k /\ k - (b + n) < n
        BY <1>3, <2>2
      <3>2. b + n \in bits /\ b + n >= n /\ (b + n) - n = b
        BY <1>1, <3>1
      <3> QED BY <3>2 DEF OrShifted
    <2> QED BY <2>1, <2>2
  <1> QED BY <1>2, <1>3 DEF FilledTo

(* Five turns fill an int. *)
LEMMA SpreadFills ==
  ASSUME NEW k \in 0..30, NEW bits, bits \subseteq 0..k, k \in bits
  PROVE  Spread(bits) = 0..k
  <1>1. FilledTo(bits, k, 1)
    BY DEF FilledTo
  <1> DEFINE b1 == OrShifted(bits, 1)  b2 == OrShifted(b1, 2)  b4 == OrShifted(b2, 4)
             b8 == OrShifted(b4, 8)    b16 == OrShifted(b8, 16)
  <1>2. k \in Nat /\ 2 * 1 = 2 /\ 2 * 2 = 4 /\ 2 * 4 = 8 /\ 2 * 8 = 16 /\ 2 * 16 = 32
    OBVIOUS
  <1>3. FilledTo(b1, k, 2)
    BY <1>1, <1>2, ShiftFills
  <1> HIDE DEF b1
  <1>4. FilledTo(b2, k, 4)
    BY <1>2, <1>3, ShiftFills
  <1> HIDE DEF b2
  <1>5. FilledTo(b4, k, 8)
    BY <1>2, <1>4, ShiftFills
  <1> HIDE DEF b4
  <1>6. FilledTo(b8, k, 16)
    BY <1>2, <1>5, ShiftFills
  <1> HIDE DEF b8
  <1>7. FilledTo(b16, k, 32)
    BY <1>2, <1>6, ShiftFills
  <1> HIDE DEF b16
  <1>8. b16 = 0..k
    <2>1. b16 \subseteq 0..k /\ \A b \in 0..k : k - b < 32 => b \in b16
      BY <1>7 DEF FilledTo
    <2>2. \A b \in 0..k : k - b < 32
      OBVIOUS
    <2> QED BY <2>1, <2>2
  <1> QED BY <1>8 DEF Spread, b1, b2, b4, b8, b16

(* FloorLog2 is what its name says. *)
LEMMA FloorLog2Is ==
  ASSUME NEW k \in 0..22, NEW v \in Nat, Highest(k, v)
  PROVE  FloorLog2(v) = k
  <1>1. k \in 0..30
    OBVIOUS
  <1>2. Spread(BitsOf(v)) = 0..k
    BY <1>1, HighestBit, SpreadFills
  <1>3. PowerSum(Spread(BitsOf(v))) = 2^(k + 1) - 1
    BY <1>1, <1>2, AllOnes
  <1>4. Found(k)
    BY TableIsRight
  <1>5. FloorLog2(v) =
          MultiplyDeBruijnBitPosition[MulTopFive(PowerSum(Spread(BitsOf(v))), kDeBruijn) + 1]
    BY DEF FloorLog2, PowerSum, kDeBruijn, MapThenSumSet, MapThenFoldSet
  <1> QED BY <1>3, <1>4, <1>5, Zenon DEF Found

(* Every capacity that is not too big has a highest bit, but for 0. *)
LEMMA HighestExists ==
  ASSUME NEW v \in Nat, v # 0, ~TooBig(v)
  PROVE  \E k \in 0..22 : Highest(k, v)
  <1>0. 2^0 = 1 /\ v < 2^23
    BY DEF TooBig, kAllocateStop
  <1>1. ASSUME NEW b \in 0..30 PROVE 2^b \in Nat
    <2>1. Doubles(b)
      BY Doubling, Zenon
    <2> QED BY <2>1 DEF Doubles
  <1> DEFINE T == {b \in 0..23 : v < 2^b}
  <1>2. 23 \in T /\ 0 \notin T /\ T \in SUBSET Nat
    BY <1>0
  <1>3. PICK b \in T : \A j \in T : b <= j
    <2> HIDE DEF T
    <2> QED BY <1>2, LeastElement
  <1>4. b \in 0..23 /\ v < 2^b /\ b # 0
    <2>1. b \in 0..23 /\ v < 2^b
      OBVIOUS
    <2> HIDE DEF T
    <2> QED BY <1>2, <2>1
  <1>5. b - 1 \in 0..23 /\ b - 1 \in 0..22 /\ b - 1 \in 0..30 /\ (b - 1) + 1 = b
    BY <1>4
  <1>6. b - 1 \notin T
    <2> HIDE DEF T
    <2> QED BY <1>3, <1>4
  <1>7. ~(v < 2^(b - 1))
    BY <1>5, <1>6
  <1>8. 2^(b - 1) \in Nat
    <2>1. Doubles(b - 1)
      BY <1>5, Doubling
    <2> QED BY <2>1 DEF Doubles
  <1> HIDE DEF T
  <1>9. Highest(b - 1, v)
    <2> DEFINE p == 2^(b - 1)
    <2>1. p <= v
      <3> HIDE DEF p
      <3>1. ~(v < p) /\ p \in Nat
        BY <1>7, <1>8 DEF p
      <3> QED BY <3>1
    <2>2. 2^((b - 1) + 1) = 2^b
      BY <1>5
    <2> QED BY <1>4, <2>1, <2>2 DEF Highest
  <1> QED BY <1>5, <1>9

(* 0 has no bit, and is found at the beginning of the table. *)
LEMMA FloorLog2OfZero == FloorLog2(0) = 0
  <1>1. Spread(BitsOf(0)) = {}
    <2>1. \A b \in 0..30 : (0 \div 2^b) % 2 = 0
      <3>1. \A p \in Nat \ {0} : (0 \div p) % 2 = 0
        OBVIOUS
      <3>2. \A b \in 0..30 : 2^b \in Nat \ {0}
        BY Doubling DEF Doubles
      <3> QED BY <3>1, <3>2, Zenon
    <2>2. BitsOf(0) = {}
      <3> SUFFICES ASSUME NEW b \in BitsOf(0) PROVE FALSE
        OBVIOUS
      <3>1. b \in 0..30 /\ (0 \div 2^b) % 2 = 1
        BY DEF BitsOf
      <3>2. (0 \div 2^b) % 2 = 0
        BY <2>1, <3>1
      <3> QED BY <3>1, <3>2
    <2>3. \A n : OrShifted({}, n) = {}
      BY DEF OrShifted
    <2> QED BY <2>2, <2>3, Zenon DEF Spread
  <1>2. PowerSum({}) = 0
    <2> DEFINE h == [s \in SUBSET {} |-> 0]
    <2>1. PowersOf(h, {})
      BY DEF PowersOf
    <2> HIDE DEF h
    <2>2. \E g : PowersOf(g, {}) /\ PowerSum({}) = g[{}]
      BY <2>1, Zenon DEF PowerSum, MapThenSumSet, MapThenFoldSet, PowersOf, Any
    <2> QED BY <2>2 DEF PowersOf
  <1>3. MulTopFive(0, kDeBruijn) = 0
    <2>1. Byte(0, 0) = 0 /\ Byte(0, 1) = 0 /\ Byte(0, 2) = 0 /\ Byte(0, 3) = 0
      BY DEF Byte
    <2>2. Column(0, 0) = 0 /\ Column(0, 1) = 0 /\ Column(0, 2) = 0 /\ Column(0, 3) = 0
      BY <2>1, Columns
    <2>3. TopFive(0, 0, 0, 0) = 0
      BY DEF TopFive
    <2>4. MulTopFive(0, kDeBruijn) =
            TopFive(Column(0, 0), Column(0, 1), Column(0, 2), Column(0, 3))
      BY Product
    <2> QED BY <2>2, <2>3, <2>4, Zenon
  <1>4. MultiplyDeBruijnBitPosition[0 + 1] = 0
    BY DEF MultiplyDeBruijnBitPosition
  <1>5. FloorLog2(0) =
          MultiplyDeBruijnBitPosition[MulTopFive(PowerSum(Spread(BitsOf(0))), kDeBruijn) + 1]
    BY DEF FloorLog2, PowerSum, kDeBruijn, MapThenSumSet, MapThenFoldSet
  <1> QED BY <1>1, <1>2, <1>3, <1>4, <1>5, Zenon

(***************************************************************************)
(* message_allocator.cpp:41-60, for every capacity that is cached, where a *)
(* run can try a few: its list exists, the messages of that list hold it,  *)
(* and they are at most twice as big, but for the first list.              *)
(***************************************************************************)
THEOREM EveryListFits == \A c \in Nat : Fits(c)
  <1> SUFFICES ASSUME NEW c \in Nat, ~TooBig(c)
               PROVE  /\ ListIndex(c) \in ListIndices
                      /\ c < ListCapacity(ListIndex(c))
                      /\ ListIndex(c) > 0 => ListCapacity(ListIndex(c)) <= 2 * c
    BY DEF Fits
  <1>1. ListIndices = 0..17 /\ c <= 4194304 /\ ListCapacity(0) = 64
    <2>1. 2^22 = 4194304 /\ 2^(5 + 0 + 1) = 64
      OBVIOUS
    <2> QED BY <2>1 DEF ListIndices, kAllocateStart, kAllocateStop, TooBig, ListCapacity
  <1>2. CASE c = 0
    <2>1. ListIndex(c) = 0
      BY <1>2, FloorLog2OfZero DEF ListIndex, kAllocateStart
    <2> QED BY <1>1, <1>2, <2>1
  <1>3. CASE c # 0
    <2>1. PICK k \in 0..22 : Highest(k, c)
      BY <1>1, <1>3, HighestExists
    <2>2. FloorLog2(c) = k
      BY <2>1, FloorLog2Is
    <2>3. 2^k \in Nat /\ 2^(k + 1) = 2 * 2^k /\ 2^k <= c /\ c < 2^(k + 1)
      <3>1. k \in 0..30
        OBVIOUS
      <3> QED BY <2>1, <3>1, Doubling DEF Doubles, Highest
    <2>4. CASE k > kAllocateStart
      <3>1. ListIndex(c) = k - 5 /\ k - 5 \in 1..17
        BY <2>2, <2>4 DEF ListIndex, kAllocateStart
      <3>2. ListCapacity(k - 5) = 2^(k + 1)
        <4>1. 5 + (k - 5) + 1 = k + 1
          OBVIOUS
        <4> QED BY <4>1, Zenon DEF ListCapacity, kAllocateStart
      <3>3. 2^(k + 1) <= 2 * c
        BY <2>3
      <3> QED BY <1>1, <2>3, <3>1, <3>2, <3>3
    <2>5. CASE ~(k > kAllocateStart)
      <3>1. ListIndex(c) = 0
        BY <2>2, <2>5 DEF ListIndex, kAllocateStart
      <3>2. 2^(k + 1) <= 2^6 /\ 2^6 = 64
        <4>1. k + 1 \in 0..30 /\ k + 1 <= 6 /\ 6 \in 0..30
          BY <2>5 DEF kAllocateStart
        <4>2. 2^(k + 1) <= 2^6
          BY <4>1, PowersGrow
        <4> QED BY <4>2
      <3> QED BY <1>1, <2>3, <3>1, <3>2
    <2> QED BY <2>4, <2>5
  <1> QED BY <1>2, <1>3

-----------------------------------------------------------------------------
(* The idle queue. *)

Queues == [items : Seq(Msgs), complete : Nat, published : Nat, taken : Nat,
           reader : {"awake", "asleep"}]

Carried(q) == {q.items[k] : k \in (q.taken + 1)..Len(q.items)}
Readable(q) == {q.items[k] : k \in (q.taken + 1)..q.published}

\* Recycle writes complete items only, and no message twice.
Orderly(q) ==
  /\ q \in Queues
  /\ q.taken <= q.published /\ q.published <= Len(q.items) /\ q.complete = Len(q.items)
  /\ \A j, k \in (q.taken + 1)..Len(q.items) : q.items[j] = q.items[k] => j = k

(* A queue is its five fields. *)
LEMMA QueueFields ==
  ASSUME NEW q \in Queues
  PROVE  /\ q.items \in Seq(Msgs) /\ Len(q.items) \in Nat /\ q.complete \in Nat
         /\ q.published \in Nat /\ q.taken \in Nat /\ q.reader \in {"awake", "asleep"}
         /\ \A k \in 1..Len(q.items) : q.items[k] \in Msgs
  BY DEF Queues

(* What is carried is messages; what may be read is part of it. *)
LEMMA CarriedType ==
  ASSUME NEW q, Orderly(q)
  PROVE  Carried(q) \subseteq Msgs /\ Readable(q) \subseteq Carried(q)
  BY QueueFields DEF Orderly, Carried, Readable

(* Put writes one more. *)
LEMMA PutCarries ==
  ASSUME NEW q, Orderly(q), NEW m \in Msgs, m \notin Carried(q)
  PROVE  /\ Orderly(Put(q, m, FALSE))
         /\ Carried(Put(q, m, FALSE)) = Carried(q) \cup {m}
         /\ Readable(Put(q, m, FALSE)) = Readable(q)
  <1> DEFINE a == q.items  n == Len(q.items)  b == Append(q.items, m)
             p == Put(q, m, FALSE)
             c == q.published  d == q.taken  e == q.reader
  <1>1. /\ a \in Seq(Msgs) /\ n \in Nat /\ c \in Nat /\ d \in Nat /\ e \in {"awake", "asleep"}
        /\ d <= c /\ c <= n /\ q.complete = n /\ q.complete \in Nat
        /\ \A j, k \in (d + 1)..n : a[j] = a[k] => j = k
    BY QueueFields DEF Orderly
  <1>2. /\ b \in Seq(Msgs) /\ Len(b) = n + 1 /\ b[n + 1] = m
        /\ \A k \in 1..n : b[k] = a[k]
    BY <1>1
  <1>3. p = [items |-> b, complete |-> n + 1, published |-> c, taken |-> d, reader |-> e]
    <2> DEFINE f == q.complete
    <2>1. [q EXCEPT !.items = b]
          = [items |-> b, complete |-> f, published |-> c, taken |-> d, reader |-> e]
      <3> HIDE DEF b
      <3> QED BY DEF Orderly, Queues
    <2>2. p = [[q EXCEPT !.items = b] EXCEPT !.complete = n + 1]
      BY DEF Put
    <2> HIDE DEF b, c, d, e, f, n, p
    <2>3. [[items |-> b, complete |-> f, published |-> c, taken |-> d, reader |-> e]
              EXCEPT !.complete = n + 1]
          = [items |-> b, complete |-> n + 1, published |-> c, taken |-> d, reader |-> e]
      OBVIOUS
    <2> QED BY <2>1, <2>2, <2>3, Zenon
  <1>4. Carried(q) = {a[k] : k \in (d + 1)..n} /\ Readable(q) = {a[k] : k \in (d + 1)..c}
    BY DEF Carried, Readable
  <1> HIDE DEF a, n, b, c, d, e, p
  <1>5. /\ p \in Queues /\ p.items = b /\ p.complete = n + 1 /\ p.published = c /\ p.taken = d
    BY <1>1, <1>2, <1>3 DEF Queues
  <1>6. Carried(p) = Carried(q) \cup {m}
    <2>1. Carried(p) = {b[k] : k \in (d + 1)..(n + 1)}
      BY <1>2, <1>5 DEF Carried
    <2>2. ASSUME NEW k \in (d + 1)..n PROVE k \in 1..n /\ k \in (d + 1)..(n + 1) /\ b[k] = a[k]
      BY <1>1, <1>2
    <2>3. ASSUME NEW k \in (d + 1)..(n + 1) PROVE k = n + 1 \/ k \in (d + 1)..n
      BY <1>1
    <2>4. n + 1 \in (d + 1)..(n + 1)
      BY <1>1
    <2> QED BY <1>2, <1>4, <2>1, <2>2, <2>3, <2>4
  <1>7. Readable(p) = Readable(q)
    <2>1. Readable(p) = {b[k] : k \in (d + 1)..c}
      BY <1>5 DEF Readable
    <2>2. ASSUME NEW k \in (d + 1)..c PROVE b[k] = a[k]
      BY <1>1, <1>2
    <2> QED BY <1>4, <2>1, <2>2
  <1>8. ASSUME NEW j \in (d + 1)..(n + 1), NEW k \in (d + 1)..(n + 1), b[j] = b[k]
        PROVE  j = k
    <2>1. ASSUME NEW i \in (d + 1)..n PROVE i \in 1..n /\ b[i] = a[i] /\ a[i] # m
      <3>1. i \in 1..n
        BY <1>1
      <3> QED BY <1>2, <1>4, <3>1
    <2>2. (j = n + 1 \/ j \in (d + 1)..n) /\ (k = n + 1 \/ k \in (d + 1)..n)
      BY <1>1
    <2> QED BY <1>1, <1>2, <1>8, <2>1, <2>2
  <1>9. Orderly(p)
    BY <1>1, <1>2, <1>5, <1>8 DEF Orderly
  <1> QED BY <1>6, <1>7, <1>9 DEF p

(* Flush lets all of them be read. *)
LEMMA FlushCarries ==
  ASSUME NEW q, Orderly(q)
  PROVE  /\ Orderly(Flushed(q)) /\ Carried(Flushed(q)) = Carried(q)
         /\ Readable(q) \subseteq Readable(Flushed(q))
         /\ Flushed(q).published = Len(Flushed(q).items)
  <1> DEFINE a == q.items  n == Len(q.items)  d == q.taken  f == q.complete
             r == IF q.published = q.complete THEN q.reader ELSE "awake"
             p == Flushed(q)
  <1>1. /\ a \in Seq(Msgs) /\ n \in Nat /\ d \in Nat /\ q.published \in Nat
        /\ r \in {"awake", "asleep"} /\ f \in Nat /\ f = n
        /\ d <= q.published /\ q.published <= n /\ n = Len(a)
        /\ \A j, k \in (d + 1)..n : a[j] = a[k] => j = k
    BY QueueFields DEF Orderly
  <1>2. p = [items |-> a, complete |-> f, published |-> f, taken |-> d, reader |-> r]
    <2> DEFINE e == q.reader
    <2>1. [q EXCEPT !.published = f]
          = [items |-> a, complete |-> f, published |-> f, taken |-> d, reader |-> e]
      <3> HIDE DEF f
      <3>1. [q EXCEPT !.published = f]
            = [items |-> a, complete |-> q.complete, published |-> f, taken |-> d, reader |-> e]
        BY DEF Orderly, Queues
      <3> QED BY <3>1, Zenon DEF f
    <2>2. p = [[q EXCEPT !.published = f] EXCEPT !.reader = r]
      BY DEF Flushed
    <2> HIDE DEF a, d, e, f, r, p
    <2>3. [[items |-> a, complete |-> f, published |-> f, taken |-> d, reader |-> e]
              EXCEPT !.reader = r]
          = [items |-> a, complete |-> f, published |-> f, taken |-> d, reader |-> r]
      OBVIOUS
    <2> QED BY <2>1, <2>2, <2>3, Zenon
  <1>3. Carried(q) = {a[k] : k \in (d + 1)..n} /\ Readable(q) = {a[k] : k \in (d + 1)..q.published}
    BY DEF Carried, Readable
  <1> HIDE DEF a, n, d, f, r, p
  <1>4. p \in Queues /\ p.items = a /\ p.complete = n /\ p.published = n /\ p.taken = d
    BY <1>1, <1>2 DEF Queues
  <1>5. Carried(p) = {a[k] : k \in (d + 1)..n} /\ Readable(p) = {a[k] : k \in (d + 1)..n}
    BY <1>1, <1>4 DEF Carried, Readable
  <1>6. (d + 1)..q.published \subseteq (d + 1)..n
    BY <1>1
  <1>7. Orderly(p) /\ p.published = Len(p.items)
    BY <1>1, <1>4 DEF Orderly
  <1> QED BY <1>3, <1>5, <1>6, <1>7 DEF p

(* Read takes the first of them, *)
LEMMA TakeCarries ==
  ASSUME NEW q, Orderly(q), HasItem(q)
  PROVE  /\ Orderly(Take(q)) /\ NextItem(q) \in Readable(q)
         /\ Carried(Take(q)) = Carried(q) \ {NextItem(q)}
         /\ Readable(q) \subseteq Readable(Take(q)) \cup {NextItem(q)}
         /\ Take(q).published = q.published /\ Take(q).items = q.items
  <1> DEFINE a == q.items  n == Len(q.items)  d == q.taken  c == q.published
             f == q.complete  e == q.reader  m == NextItem(q)  p == Take(q)
  <1>1. /\ a \in Seq(Msgs) /\ n \in Nat /\ d \in Nat /\ c \in Nat /\ f \in Nat /\ f = n
        /\ e \in {"awake", "asleep"} /\ d < c /\ c <= n /\ m = a[d + 1] /\ n = Len(a)
        /\ \A j, k \in (d + 1)..n : a[j] = a[k] => j = k
    BY QueueFields DEF Orderly, HasItem, NextItem
  <1>2. p = [items |-> a, complete |-> f, published |-> c, taken |-> d + 1, reader |-> e]
    BY DEF Orderly, Queues, Take
  <1>3. Carried(q) = {a[k] : k \in (d + 1)..n} /\ Readable(q) = {a[k] : k \in (d + 1)..c}
    BY DEF Carried, Readable
  <1> HIDE DEF a, n, d, c, f, e, m, p
  <1>4. p \in Queues /\ p.items = a /\ p.complete = n /\ p.published = c /\ p.taken = d + 1
    BY <1>1, <1>2 DEF Queues
  <1>5. /\ Carried(p) = {a[k] : k \in (d + 1 + 1)..n}
        /\ Readable(p) = {a[k] : k \in (d + 1 + 1)..c}
    BY <1>1, <1>4 DEF Carried, Readable
  <1>6. /\ d + 1 \in (d + 1)..c /\ d + 1 \in (d + 1)..n
        /\ \A k \in (d + 1)..n : k = d + 1 \/ k \in (d + 1 + 1)..n
        /\ \A k \in (d + 1)..c : k = d + 1 \/ k \in (d + 1 + 1)..c
        /\ \A k \in (d + 1 + 1)..n : k \in (d + 1)..n /\ k # d + 1
    BY <1>1
  <1>7. Carried(p) = Carried(q) \ {m}
    BY <1>1, <1>3, <1>5, <1>6
  <1>8. m \in Readable(q) /\ Readable(q) \subseteq Readable(p) \cup {m}
    BY <1>1, <1>3, <1>5, <1>6
  <1>9. Orderly(p)
    BY <1>1, <1>4, <1>6 DEF Orderly
  <1> QED BY <1>4, <1>7, <1>8, <1>9 DEF p, m, c, a

(* and CheckRead changes none of them. *)
LEMMA CheckCarries ==
  ASSUME NEW q, Orderly(q)
  PROVE  /\ Orderly(Checked(q)) /\ Carried(Checked(q)) = Carried(q)
         /\ Readable(Checked(q)) = Readable(q)
         /\ Checked(q).published = q.published /\ Checked(q).items = q.items
         /\ Checked(q).taken = q.taken
  <1> DEFINE r == IF HasItem(q) THEN q.reader ELSE "asleep"
  <1>1. q \in Queues /\ r \in {"awake", "asleep"}
    BY QueueFields DEF Orderly
  <1>2. Checked(q) = [q EXCEPT !.reader = r]
    BY DEF Checked
  <1> HIDE DEF r
  <1>3. /\ Checked(q) \in Queues /\ Checked(q).items = q.items /\ Checked(q).taken = q.taken
        /\ Checked(q).published = q.published /\ Checked(q).complete = q.complete
    BY <1>1, <1>2 DEF Queues
  <1> QED BY <1>3 DEF Orderly, Carried, Readable

-----------------------------------------------------------------------------
(* The free lists: a message lies pos[m] deep in the list of its index_, *)
(* counted from the last one, and list i has size[i] messages.           *)

Chained(pos, size, F, ix, h, nx) ==
  /\ pos \in [Msgs -> Nat] /\ size \in [ListIndices -> Nat]
  /\ \A m \in F :
       /\ ix[m] \in ListIndices /\ 1 <= pos[m] /\ pos[m] <= size[ix[m]]
       /\ pos[m] = 1 => nx[m] = Nil
       /\ pos[m] # 1 => nx[m] \in F /\ ix[nx[m]] = ix[m] /\ pos[nx[m]] = pos[m] - 1
  /\ \A m, n \in F : ix[m] = ix[n] /\ pos[m] = pos[n] => m = n
  /\ \A i \in ListIndices :
       /\ size[i] = 0 => h[i] = Nil
       /\ size[i] # 0 => h[i] \in F /\ ix[h[i]] = i /\ pos[h[i]] = size[i]

\* The messages of F are in the lists that begin with h and go on with nx.
InLists(F, ix, h, nx) ==
  /\ F \subseteq Msgs
  /\ h \in [ListIndices -> Msgs \cup {Nil}] /\ nx \in [Msgs -> Msgs \cup {Nil}]
  /\ \E pos, size : Chained(pos, size, F, ix, h, nx)

\* What Release and ConsumeIdleQueue do to a list, and what Allocate does.
PushedTo(i, m, h, nx, h2, nx2) ==
  h2 = [h EXCEPT ![i] = m] /\ nx2 = [nx EXCEPT ![m] = h[i]]
PoppedFrom(i, m, h, nx, h2, nx2) ==
  h2 = [h EXCEPT ![i] = nx[m]] /\ nx2 = [nx EXCEPT ![m] = Nil]

(* A message that is in no list goes in front of its own. *)
LEMMA PushLists ==
  ASSUME NEW F, NEW ix, NEW h, NEW nx, InLists(F, ix, h, nx),
         NEW m \in Msgs, m \notin F, ix[m] \in ListIndices,
         NEW h2, NEW nx2, PushedTo(ix[m], m, h, nx, h2, nx2)
  PROVE  InLists(F \cup {m}, ix, h2, nx2)
  <1> DEFINE i == ix[m]  G == F \cup {m}
  <1>1. PICK pos, size : Chained(pos, size, F, ix, h, nx)
    BY DEF InLists
  <1>2. /\ F \subseteq Msgs /\ i \in ListIndices
        /\ h \in [ListIndices -> Msgs \cup {Nil}] /\ nx \in [Msgs -> Msgs \cup {Nil}]
        /\ pos \in [Msgs -> Nat] /\ size \in [ListIndices -> Nat]
    BY <1>1 DEF InLists, Chained
  <1>3. /\ h2[i] = m /\ \A j \in ListIndices : j # i => h2[j] = h[j]
        /\ nx2[m] = h[i] /\ \A n \in Msgs : n # m => nx2[n] = nx[n]
        /\ h2 \in [ListIndices -> Msgs \cup {Nil}] /\ nx2 \in [Msgs -> Msgs \cup {Nil}]
    BY <1>2 DEF PushedTo
  <1> DEFINE s2 == [size EXCEPT ![i] = size[i] + 1]
             p2 == [pos EXCEPT ![m] = size[i] + 1]
  <1>4. /\ s2 \in [ListIndices -> Nat] /\ p2 \in [Msgs -> Nat]
        /\ s2[i] = size[i] + 1 /\ \A j \in ListIndices : j # i => s2[j] = size[j]
        /\ p2[m] = size[i] + 1 /\ \A n \in Msgs : n # m => p2[n] = pos[n]
        /\ size[i] \in Nat
    BY <1>2
  <1>5. /\ \A n \in F : /\ ix[n] \in ListIndices /\ 1 <= pos[n] /\ pos[n] <= size[ix[n]]
                        /\ pos[n] = 1 => nx[n] = Nil
                        /\ pos[n] # 1 => nx[n] \in F /\ ix[nx[n]] = ix[n] /\ pos[nx[n]] = pos[n] - 1
                        /\ n # m /\ n \in Msgs /\ pos[n] \in Nat /\ size[ix[n]] \in Nat
        /\ \A n, o \in F : ix[n] = ix[o] /\ pos[n] = pos[o] => n = o
        /\ \A j \in ListIndices :
             /\ size[j] = 0 => h[j] = Nil
             /\ size[j] # 0 => h[j] \in F /\ ix[h[j]] = j /\ pos[h[j]] = size[j]
    BY <1>1, <1>2 DEF Chained
  <1> HIDE DEF s2, p2
  <1>6. ASSUME NEW n \in G
        PROVE  /\ ix[n] \in ListIndices /\ 1 <= p2[n] /\ p2[n] <= s2[ix[n]]
               /\ p2[n] = 1 => nx2[n] = Nil
               /\ p2[n] # 1 => nx2[n] \in G /\ ix[nx2[n]] = ix[n] /\ p2[nx2[n]] = p2[n] - 1
    <2>1. CASE n = m
      <3>1. size[i] = 0 => h[i] = Nil
        BY <1>2, <1>5
      <3>2. size[i] # 0 => h[i] \in F /\ ix[h[i]] = i /\ pos[h[i]] = size[i]
        BY <1>2, <1>5
      <3>3. size[i] # 0 => p2[h[i]] = size[i]
        BY <1>4, <1>5, <3>2
      <3> QED BY <1>2, <1>3, <1>4, <2>1, <3>1, <3>2, <3>3
    <2>2. CASE n # m
      <3>1. n \in F /\ p2[n] = pos[n] /\ nx2[n] = nx[n]
        BY <1>2, <1>3, <1>4, <2>2
      <3>2. size[ix[n]] <= s2[ix[n]] /\ s2[ix[n]] \in Nat
        BY <1>4, <1>5, <3>1
      <3>3. pos[n] # 1 => nx[n] \in F /\ ix[nx[n]] = ix[n] /\ p2[nx[n]] = pos[n] - 1
        BY <1>4, <1>5, <3>1
      <3> QED BY <1>5, <3>1, <3>2, <3>3
    <2> QED BY <2>1, <2>2
  <1>7. ASSUME NEW n \in G, NEW o \in G, ix[n] = ix[o], p2[n] = p2[o] PROVE n = o
    <2>1. ASSUME NEW x \in F PROVE p2[x] = pos[x] /\ (ix[x] = i => pos[x] < size[i] + 1)
      BY <1>4, <1>5
    <2>2. (n = m \/ n \in F) /\ (o = m \/ o \in F)
      OBVIOUS
    <2>3. CASE n \in F /\ o \in F
      BY <1>5, <1>7, <2>1, <2>3
    <2>4. CASE n = m /\ o \in F
      BY <1>4, <1>5, <1>7, <2>1, <2>4
    <2>5. CASE n \in F /\ o = m
      BY <1>4, <1>5, <1>7, <2>1, <2>5
    <2> QED BY <2>2, <2>3, <2>4, <2>5
  <1>8. ASSUME NEW j \in ListIndices
        PROVE  /\ s2[j] = 0 => h2[j] = Nil
               /\ s2[j] # 0 => h2[j] \in G /\ ix[h2[j]] = j /\ p2[h2[j]] = s2[j]
    <2>1. CASE j = i
      BY <1>3, <1>4, <2>1
    <2>2. CASE j # i
      <3>1. s2[j] = size[j] /\ h2[j] = h[j]
        BY <1>3, <1>4, <2>2
      <3>2. size[j] # 0 => h[j] \in F /\ ix[h[j]] = j /\ p2[h[j]] = size[j]
        BY <1>4, <1>5
      <3> QED BY <1>5, <3>1, <3>2
    <2> QED BY <2>1, <2>2
  <1> HIDE DEF G
  <1>9. Chained(p2, s2, G, ix, h2, nx2)
    BY <1>4, <1>6, <1>7, <1>8 DEF Chained
  <1>10. G \subseteq Msgs
    BY <1>2 DEF G
  <1> QED BY <1>3, <1>9, <1>10 DEF InLists, G

(* The first message of a list is one of it, and leaves it. *)
LEMMA PopLists ==
  ASSUME NEW F, NEW ix, NEW h, NEW nx, InLists(F, ix, h, nx),
         NEW i \in ListIndices, h[i] # Nil,
         NEW h2, NEW nx2, PoppedFrom(i, h[i], h, nx, h2, nx2)
  PROVE  /\ h[i] \in F /\ ix[h[i]] = i
         /\ InLists(F \ {h[i]}, ix, h2, nx2)
  <1> DEFINE m == h[i]  G == F \ {m}
  <1>1. PICK pos, size : Chained(pos, size, F, ix, h, nx)
    BY DEF InLists
  <1>2. /\ F \subseteq Msgs
        /\ h \in [ListIndices -> Msgs \cup {Nil}] /\ nx \in [Msgs -> Msgs \cup {Nil}]
        /\ pos \in [Msgs -> Nat] /\ size \in [ListIndices -> Nat]
    BY <1>1 DEF InLists, Chained
  <1>3. /\ \A n \in F : /\ ix[n] \in ListIndices /\ 1 <= pos[n] /\ pos[n] <= size[ix[n]]
                        /\ pos[n] = 1 => nx[n] = Nil
                        /\ pos[n] # 1 => nx[n] \in F /\ ix[nx[n]] = ix[n] /\ pos[nx[n]] = pos[n] - 1
                        /\ n \in Msgs /\ pos[n] \in Nat /\ size[ix[n]] \in Nat
        /\ \A n, o \in F : ix[n] = ix[o] /\ pos[n] = pos[o] => n = o
        /\ \A j \in ListIndices :
             /\ size[j] = 0 => h[j] = Nil
             /\ size[j] # 0 => h[j] \in F /\ ix[h[j]] = j /\ pos[h[j]] = size[j]
    BY <1>1, <1>2 DEF Chained
  <1>4. m \in F /\ ix[m] = i /\ pos[m] = size[i] /\ size[i] \in Nat \ {0} /\ m \in Msgs
    <2>1. size[i] \in Nat /\ size[i] # 0
      BY <1>2, <1>3
    <2> QED BY <1>2, <1>3, <2>1
  <1>5. /\ h2[i] = nx[m] /\ \A j \in ListIndices : j # i => h2[j] = h[j]
        /\ \A n \in Msgs : n # m => nx2[n] = nx[n]
        /\ h2 \in [ListIndices -> Msgs \cup {Nil}] /\ nx2 \in [Msgs -> Msgs \cup {Nil}]
    BY <1>2, <1>4 DEF PoppedFrom
  <1> DEFINE s2 == [size EXCEPT ![i] = size[i] - 1]
  <1>6. /\ s2 \in [ListIndices -> Nat]
        /\ s2[i] = size[i] - 1 /\ \A j \in ListIndices : j # i => s2[j] = size[j]
    BY <1>2, <1>4
  <1> HIDE DEF s2, m
  <1>7. ASSUME NEW n \in G
        PROVE  /\ ix[n] \in ListIndices /\ 1 <= pos[n] /\ pos[n] <= s2[ix[n]]
               /\ pos[n] = 1 => nx2[n] = Nil
               /\ pos[n] # 1 => nx2[n] \in G /\ ix[nx2[n]] = ix[n] /\ pos[nx2[n]] = pos[n] - 1
    <2>1. n \in F /\ n # m /\ n \in Msgs /\ nx2[n] = nx[n]
      BY <1>3, <1>5
    <2>2. ix[n] = i => pos[n] # size[i] /\ pos[n] <= size[i]
      BY <1>3, <1>4, <2>1
    <2>3. pos[n] <= s2[ix[n]]
      <3>1. CASE ix[n] = i
        <4>1. pos[n] \in Nat /\ pos[n] # size[i] /\ pos[n] <= size[i] /\ s2[ix[n]] = size[i] - 1
          BY <1>3, <1>6, <2>1, <2>2, <3>1
        <4> QED BY <1>4, <4>1
      <3>2. CASE ix[n] # i
        <4>1. ix[n] \in ListIndices /\ pos[n] <= size[ix[n]]
          BY <1>3, <2>1
        <4> QED BY <1>6, <3>2, <4>1
      <3> QED BY <3>1, <3>2
    <2>4. pos[n] # 1 => nx[n] # m
      <3> SUFFICES ASSUME pos[n] # 1, nx[n] = m PROVE FALSE
        OBVIOUS
      <3>1. ix[n] = i /\ size[i] = pos[n] - 1
        BY <1>3, <1>4, <2>1
      <3> QED BY <1>3, <1>4, <2>1, <2>2, <3>1
    <2> QED BY <1>3, <2>1, <2>3, <2>4
  <1>8. ASSUME NEW j \in ListIndices
        PROVE  /\ s2[j] = 0 => h2[j] = Nil
               /\ s2[j] # 0 => h2[j] \in G /\ ix[h2[j]] = j /\ pos[h2[j]] = s2[j]
    <2>1. CASE j = i
      <3>1. s2[j] = 0 => nx[m] = Nil
        BY <1>3, <1>4, <1>6, <2>1
      <3>2. s2[j] # 0 => nx[m] \in F /\ ix[nx[m]] = i /\ pos[nx[m]] = pos[m] - 1
        BY <1>3, <1>4, <1>6, <2>1
      <3>3. s2[j] # 0 => nx[m] # m
        BY <1>3, <1>4, <3>2
      <3> QED BY <1>4, <1>5, <1>6, <2>1, <3>1, <3>2, <3>3
    <2>2. CASE j # i
      <3>1. s2[j] = size[j] /\ h2[j] = h[j]
        BY <1>5, <1>6, <2>2
      <3>2. size[j] # 0 => h[j] \in F /\ h[j] # m /\ ix[h[j]] = j /\ pos[h[j]] = size[j]
        BY <1>3, <1>4, <2>2
      <3> QED BY <1>3, <3>1, <3>2
    <2> QED BY <2>1, <2>2
  <1>9. \A n, o \in G : ix[n] = ix[o] /\ pos[n] = pos[o] => n = o
    BY <1>3
  <1>10. G \subseteq Msgs
    BY <1>2
  <1> HIDE DEF G
  <1>11. Chained(pos, s2, G, ix, h2, nx2)
    BY <1>2, <1>6, <1>7, <1>8, <1>9 DEF Chained
  <1> QED BY <1>4, <1>5, <1>10, <1>11 DEF InLists, G, m

(* Indices of messages that are in no list do not matter. *)
LEMMA OtherIndices ==
  ASSUME NEW F, NEW ix, NEW h, NEW nx, InLists(F, ix, h, nx),
         NEW ix2, \A m \in F : ix2[m] = ix[m]
  PROVE  InLists(F, ix2, h, nx)
  <1>1. PICK pos, size : Chained(pos, size, F, ix, h, nx)
    BY DEF InLists
  <1>2. Chained(pos, size, F, ix2, h, nx)
    BY <1>1 DEF Chained
  <1> QED BY <1>2 DEF InLists

(* There is a message at every depth of a list, *)
LEMMA EveryDepth ==
  ASSUME NEW pos, NEW size, NEW F, NEW ix, NEW h, NEW nx, Chained(pos, size, F, ix, h, nx),
         NEW i \in ListIndices, NEW p \in 1..size[i]
  PROVE  \E m \in F : ix[m] = i /\ pos[m] = p
  <1> DEFINE T == {d \in Nat : size[i] - d >= 1
                               /\ ~ \E m \in F : ix[m] = i /\ pos[m] = size[i] - d}
  <1>1. size[i] \in Nat /\ p \in Nat /\ 1 <= p /\ p <= size[i]
    BY DEF Chained
  <1>2. T = {}
    <2> SUFFICES ASSUME T # {} PROVE FALSE
      OBVIOUS
    <2>1. T \in SUBSET Nat
      OBVIOUS
    <2>2. PICK d \in T : \A e \in T : d <= e
      <3> HIDE DEF T
      <3> QED BY <2>1, LeastElement
    <2>3. /\ d \in Nat /\ size[i] - d >= 1
          /\ ~ \E m \in F : ix[m] = i /\ pos[m] = size[i] - d
      OBVIOUS
    <2>4. d # 0
      <3>1. h[i] \in F /\ ix[h[i]] = i /\ pos[h[i]] = size[i]
        BY <1>1 DEF Chained
      <3> QED BY <1>1, <2>3, <3>1
    <2>5. d - 1 \in Nat /\ size[i] - (d - 1) >= 1 /\ size[i] - (d - 1) # 1
          /\ (size[i] - (d - 1)) - 1 = size[i] - d
      BY <1>1, <2>3, <2>4
    <2>6. d - 1 \notin T
      BY <2>2, <2>3, <2>4
    <2>7. PICK m \in F : ix[m] = i /\ pos[m] = size[i] - (d - 1)
      BY <2>5, <2>6
    <2>8. nx[m] \in F /\ ix[nx[m]] = i /\ pos[nx[m]] = pos[m] - 1
      BY <2>5, <2>7 DEF Chained
    <2> QED BY <2>3, <2>5, <2>7, <2>8
  <1>3. size[i] - p \in Nat /\ size[i] - (size[i] - p) = p
    BY <1>1
  <1>4. size[i] - p \notin T
    BY <1>2
  <1> QED BY <1>1, <1>3, <1>4

(* so that no list is longer than there are messages. *)
LEMMA ListsAreShort ==
  ASSUME NEW pos, NEW size, NEW F, F \subseteq Msgs, NEW ix, NEW h, NEW nx,
         Chained(pos, size, F, ix, h, nx), NEW i \in ListIndices
  PROVE  size[i] \in Nat /\ Cardinality(Msgs) \in Nat /\ size[i] <= Cardinality(Msgs)
  <1> DEFINE f == [p \in 1..size[i] |-> CHOOSE m \in F : ix[m] = i /\ pos[m] = p]
             D == 1..size[i]
  <1>1. size[i] \in Nat
    BY DEF Chained
  <1>2. \A p \in D : f[p] \in F /\ pos[f[p]] = p
    <2> SUFFICES ASSUME NEW p \in D PROVE f[p] \in F /\ pos[f[p]] = p
      OBVIOUS
    <2>1. \E m \in F : ix[m] = i /\ pos[m] = p
      BY EveryDepth
    <2>2. f[p] = CHOOSE m \in F : ix[m] = i /\ pos[m] = p
      OBVIOUS
    <2> HIDE DEF f
    <2> QED BY <2>1, <2>2
  <1>3. f \in [D -> Msgs]
    <2>1. f = [p \in D |-> f[p]]
      OBVIOUS
    <2> HIDE DEF f, D
    <2> QED BY <1>2, <2>1
  <1>4. f \in Injection(D, Msgs)
    <2> HIDE DEF f, D
    <2> QED BY <1>2, <1>3 DEF Injection, IsInjective
  <1>5. IsFiniteSet(Msgs) /\ Cardinality(Msgs) \in Nat
    BY AllocatorAssumption, FS_CardinalityType
  <1>6. Cardinality(D) <= Cardinality(Msgs)
    <2> HIDE DEF f, D
    <2> QED BY <1>4, <1>5, FS_Injection
  <1>7. Cardinality(D) = size[i]
    <2>1. 1 \in Int /\ size[i] \in Int /\ (1 > size[i] => size[i] = 0)
      BY <1>1
    <2>2. Cardinality(1..size[i]) = IF 1 > size[i] THEN 0 ELSE size[i] - 1 + 1
      BY <2>1, FS_Interval
    <2> QED BY <1>1, <2>1, <2>2
  <1> QED BY <1>1, <1>5, <1>6, <1>7

\* Walk, for any links.
WalkFrom(m, nx) ==
  LET at[i \in 0..Cardinality(Msgs)] ==
        IF i = 0 THEN m ELSE IF at[i - 1] = Nil THEN Nil ELSE nx[at[i - 1]]
  IN  at

(* The walk from the head of a list meets the messages of that list, and *)
(* ends.                                                                 *)
LEMMA Walked ==
  ASSUME NEW F, NEW ix, NEW h, NEW nx, InLists(F, ix, h, nx), NEW i \in ListIndices
  PROVE  /\ {WalkFrom(h[i], nx)[n] : n \in 0..Cardinality(Msgs)} \ {Nil}
            = {m \in F : ix[m] = i}
         /\ WalkFrom(h[i], nx)[Cardinality(Msgs)] = Nil
  <1>1. PICK pos, size : Chained(pos, size, F, ix, h, nx)
    BY DEF InLists
  <1> DEFINE c == Cardinality(Msgs)  s == size[i]
             At(n) == CHOOSE m \in F : ix[m] = i /\ pos[m] = s - n
             u == [n \in 0..c |-> IF n < s THEN At(n) ELSE Nil]
             G(w, n) == IF n = 0 THEN h[i] ELSE IF w[n - 1] = Nil THEN Nil ELSE nx[w[n - 1]]
  <1>2. s \in Nat /\ c \in Nat /\ s <= c /\ F \subseteq Msgs /\ Nil \notin Msgs
    BY <1>1, ListsAreShort, AllocatorAssumption DEF InLists
  <1>3. /\ \A m \in F : /\ pos[m] \in Nat /\ 1 <= pos[m] /\ (ix[m] = i => pos[m] <= s)
                        /\ pos[m] = 1 => nx[m] = Nil
                        /\ pos[m] # 1 => nx[m] \in F /\ ix[nx[m]] = ix[m] /\ pos[nx[m]] = pos[m] - 1
        /\ \A m, n \in F : ix[m] = ix[n] /\ pos[m] = pos[n] => m = n
        /\ s = 0 => h[i] = Nil
        /\ s # 0 => h[i] \in F /\ ix[h[i]] = i /\ pos[h[i]] = s
    BY <1>1, <1>2 DEF Chained
  <1>4. ASSUME NEW n \in Nat, n < s PROVE At(n) \in F /\ ix[At(n)] = i /\ pos[At(n)] = s - n
    <2>1. s - n \in 1..s
      BY <1>2, <1>4
    <2>2. \E m \in F : ix[m] = i /\ pos[m] = s - n
      BY <1>1, <2>1, EveryDepth
    <2> QED BY <2>2
  <1>5. \A n \in 0..c : u[n] = IF n < s THEN At(n) ELSE Nil
    OBVIOUS
  <1> HIDE DEF At, c, s
  <1>6. \A n \in 0..c : u[n] = G(u, n)
    <2> SUFFICES ASSUME NEW n \in 0..c PROVE u[n] = G(u, n)
      OBVIOUS
    <2> HIDE DEF u
    <2>1. CASE n = 0
      <3>1. CASE s = 0
        BY <1>2, <1>3, <1>5, <2>1, <3>1
      <3>2. CASE s # 0
        <4>1. At(0) \in F /\ ix[At(0)] = i /\ pos[At(0)] = s
          <5>1. 0 \in Nat /\ 0 < s /\ s - 0 = s
            BY <1>2, <3>2
          <5> QED BY <1>4, <5>1
        <4>2. At(0) = h[i]
          BY <1>3, <3>2, <4>1
        <4>3. u[n] = At(0)
          BY <1>2, <1>5, <2>1, <3>2
        <4> QED BY <2>1, <4>2, <4>3
      <3> QED BY <3>1, <3>2
    <2>2. CASE n # 0
      <3>1. n - 1 \in 0..c /\ n - 1 \in Nat /\ n \in Nat /\ s - (n - 1) = (s - n) + 1
        BY <1>2, <2>2
      <3>2. u[n - 1] = IF n - 1 < s THEN At(n - 1) ELSE Nil
        BY <1>5, <3>1
      <3>3. CASE n - 1 < s
        <4>1. /\ At(n - 1) \in F /\ ix[At(n - 1)] = i /\ pos[At(n - 1)] = s - (n - 1)
              /\ u[n - 1] = At(n - 1)
          BY <1>4, <3>1, <3>2, <3>3
        <4>2. u[n - 1] # Nil
          BY <1>2, <4>1
        <4>3. CASE n < s
          <5>1. At(n) \in F /\ ix[At(n)] = i /\ pos[At(n)] = s - n /\ u[n] = At(n)
            BY <1>4, <1>5, <3>1, <4>3
          <5>2. pos[At(n - 1)] # 1 /\ pos[At(n - 1)] - 1 = s - n
            BY <1>2, <3>1, <4>1, <4>3
          <5>3. /\ nx[At(n - 1)] \in F /\ ix[nx[At(n - 1)]] = i
                /\ pos[nx[At(n - 1)]] = s - n
            BY <1>3, <4>1, <5>2
          <5>4. nx[At(n - 1)] = At(n)
            BY <1>3, <5>1, <5>3
          <5> QED BY <2>2, <4>1, <4>2, <5>1, <5>4
        <4>4. CASE ~(n < s)
          <5>1. pos[At(n - 1)] = 1 /\ u[n] = Nil
            BY <1>2, <1>5, <3>1, <3>3, <4>1, <4>4
          <5> QED BY <1>3, <2>2, <4>1, <4>2, <5>1
        <4> QED BY <4>3, <4>4
      <3>4. CASE ~(n - 1 < s)
        <4>1. ~(n < s)
          BY <1>2, <3>1, <3>4
        <4> QED BY <1>5, <2>2, <3>2, <3>4, <4>1
      <3> QED BY <3>3, <3>4
    <2> QED BY <2>1, <2>2
  <1>7. u = [n \in 0..c |-> G(u, n)]
    <2>1. u = [n \in 0..c |-> u[n]]
      OBVIOUS
    <2> HIDE DEF u, G
    <2> QED BY <1>6, <2>1
  <1> HIDE DEF u
  <1> DEFINE v == WalkFrom(h[i], nx)
  <1>8. v = [n \in 0..c |-> G(v, n)]
    BY <1>7, Zenon DEF WalkFrom, c
  <1> HIDE DEF v
  <1>9. \A n \in 0..c : v[n] = G(v, n)
    <2> HIDE DEF G
    <2> QED BY <1>8
  <1>10. \A n \in 0..c : v[n] = u[n]
    <2> DEFINE T == {n \in 0..c : v[n] # u[n]}
    <2> SUFFICES ASSUME T # {} PROVE FALSE
      OBVIOUS
    <2>1. T \in SUBSET Nat
      BY <1>2
    <2>2. PICK n \in T : \A k \in T : n <= k
      <3> HIDE DEF T
      <3> QED BY <2>1, LeastElement
    <2>3. n \in 0..c /\ v[n] # u[n]
      OBVIOUS
    <2>4. n # 0
      BY <1>6, <1>9, <2>3
    <2>5. n - 1 \in 0..c /\ n - 1 \notin T
      BY <1>2, <2>1, <2>2, <2>3, <2>4
    <2>6. v[n - 1] = u[n - 1]
      BY <2>5
    <2>7. G(v, n) = G(u, n)
      BY <2>6
    <2> QED BY <1>6, <1>9, <2>3, <2>7
  <1>11. {v[n] : n \in 0..c} \ {Nil} = {m \in F : ix[m] = i}
    <2>1. ASSUME NEW n \in 0..c, v[n] # Nil PROVE v[n] \in F /\ ix[v[n]] = i
      <3>1. n < s /\ v[n] = At(n) /\ n \in Nat
        BY <1>2, <1>5, <1>10, <2>1
      <3> QED BY <1>4, <3>1
    <2>2. ASSUME NEW m \in F, ix[m] = i PROVE m # Nil /\ \E n \in 0..c : v[n] = m
      <3> DEFINE n == s - pos[m]
      <3>1. n \in 0..c /\ n < s /\ s - n = pos[m] /\ n \in Nat
        BY <1>2, <1>3, <2>2
      <3>2. v[n] = At(n)
        BY <1>5, <1>10, <3>1
      <3>3. At(n) \in F /\ ix[At(n)] = i /\ pos[At(n)] = pos[m]
        <4> HIDE DEF n
        <4> QED BY <1>4, <3>1
      <3>4. At(n) = m
        <4> HIDE DEF n
        <4> QED BY <1>3, <2>2, <3>3
      <3> QED BY <1>2, <3>1, <3>2, <3>4
    <2> QED BY <2>1, <2>2
  <1>12. v[c] = Nil
    BY <1>2, <1>5, <1>10
  <1> QED BY <1>11, <1>12 DEF v, c

-----------------------------------------------------------------------------
(* The invariant. *)

\* The messages that should be in the free lists.
Free == live \ (owned \cup away \cup Carried(idle))

\* The index_ of a message that was given for a request.
Suits(want, i) == i = IF TooBig(want) THEN -1 ELSE ListIndex(want)

\* What is true of the messages, whatever the two threads are about to do.
StateInv ==
  /\ index \in [Msgs -> ListIndices \cup {-1}] /\ capacity \in [Msgs -> Nat]
  /\ asked \in [Msgs -> Requests \cup {0}]
  /\ live \subseteq Msgs /\ dirty \subseteq live
  /\ owned \subseteq live /\ away \subseteq live /\ Carried(idle) \subseteq live
  /\ owned \cap away = {} /\ (owned \cup away) \cap Carried(idle) = {}
  /\ Orderly(idle)
  /\ InLists(Free, index, heads, nxt)
  /\ \A m \in live \ (owned \cup away) : index[m] \in ListIndices
  /\ \A m \in live : index[m] \in ListIndices => capacity[m] = ListCapacity(index[m])
  /\ \A m \in owned \cup away : asked[m] <= capacity[m]
  /\ \A m \in owned \cup away : Suits(asked[m], index[m])

\* What the threads know where they are.
ControlInv ==
  /\ opc \in {"idle", "consume", "pick", "closing", "closed"}
  /\ rpc \in {"idle", "flush"} /\ rpMsg \in Msgs \cup {Nil}
  /\ opWant \in Requests \cup {0} /\ wasIdle \subseteq Msgs
  /\ opc \in {"consume", "pick"} => opWant \in Requests /\ ~TooBig(opWant)
  /\ opc = "consume" => wasIdle \subseteq Readable(idle) \cup Free
  /\ opc = "pick" => wasIdle \subseteq Free
  /\ rpc = "idle" => idle.published = Len(idle.items)
  /\ opc \in {"closing", "closed"} => rpc = "idle"
  /\ opc = "closed" => Free = {} /\ idle.taken = Len(idle.items)

AllocInv == StateInv /\ ControlInv

(* The capacity of a list is a number. *)
LEMMA CapacityType == \A i \in ListIndices : ListCapacity(i) \in Nat
  <1>1. ASSUME NEW i \in ListIndices PROVE ListCapacity(i) \in Nat
    <2>1. i \in 0..17 /\ 5 + i + 1 \in 0..30
      BY DEF ListIndices, kAllocateStart, kAllocateStop
    <2>2. 2^(5 + i + 1) \in Nat
      BY <2>1, Doubling DEF Doubles
    <2> QED BY <2>2, Zenon DEF ListCapacity, kAllocateStart
  <1> QED BY <1>1

(* An index_ is negative or that of a list. *)
LEMMA IndexSign ==
  ASSUME NEW i \in ListIndices \cup {-1}
  PROVE  (i < 0 => i = -1 /\ i \notin ListIndices) /\ (i >= 0 => i \in ListIndices)
  BY DEF ListIndices, kAllocateStart, kAllocateStop

(* Lists without messages. *)
LEMMA NoLists ==
  ASSUME NEW ix, NEW nx \in [Msgs -> Msgs \cup {Nil}]
  PROVE  InLists({}, ix, [i \in ListIndices |-> Nil], nx)
  <1> DEFINE pos == [m \in Msgs |-> 0]  size == [i \in ListIndices |-> 0]
             h == [i \in ListIndices |-> Nil]
  <1>1. Chained(pos, size, {}, ix, h, nx)
    BY DEF Chained
  <1> HIDE DEF pos, size
  <1> QED BY <1>1 DEF InLists

(* A list whose head is nullptr has no message. *)
LEMMA EmptyList ==
  ASSUME NEW F, NEW ix, NEW h, NEW nx, InLists(F, ix, h, nx),
         NEW i \in ListIndices, h[i] = Nil
  PROVE  \A m \in F : ix[m] # i
  <1>1. PICK pos, size : Chained(pos, size, F, ix, h, nx)
    BY DEF InLists
  <1>2. F \subseteq Msgs /\ Nil \notin Msgs
    BY AllocatorAssumption DEF InLists
  <1>3. size[i] = 0
    BY <1>1, <1>2 DEF Chained
  <1>4. ASSUME NEW m \in F, ix[m] = i PROVE FALSE
    <2>1. 1 <= pos[m] /\ pos[m] <= 0 /\ pos[m] \in Nat
      BY <1>1, <1>2, <1>3, <1>4 DEF Chained
    <2> QED BY <2>1
  <1> QED BY <1>4

-----------------------------------------------------------------------------
(* The initial state, and every step. *)

(* A queue nothing was written to. *)
LEMMA EmptyQueue ==
  /\ Orderly(EmptyChannel) /\ Carried(EmptyChannel) = {}
  /\ EmptyChannel.published = Len(EmptyChannel.items)
  <1>1. /\ EmptyChannel \in Queues /\ EmptyChannel.items = <<>> /\ EmptyChannel.taken = 0
        /\ EmptyChannel.published = 0 /\ EmptyChannel.complete = 0 /\ Len(<<>>) = 0
    BY DEF EmptyChannel, Queues
  <1> QED BY <1>1 DEF Orderly, Carried

(* The invariant holds of an allocator that is new. *)
LEMMA InitAllocInv == Init => AllocInv
  <1> SUFFICES ASSUME Init PROVE AllocInv
    OBVIOUS
  <1> USE DEF Init
  <1>1. Orderly(idle) /\ Carried(idle) = {} /\ idle.published = Len(idle.items)
    BY EmptyQueue
  <1>2. Free = {}
    BY DEF Free
  <1>3. 0 \in ListIndices
    BY DEF ListIndices, kAllocateStart, kAllocateStop
  <1>4. InLists(Free, index, heads, nxt)
    <2>1. nxt \in [Msgs -> Msgs \cup {Nil}]
      OBVIOUS
    <2> QED BY <1>2, <2>1, NoLists
  <1>5. StateInv
    BY <1>1, <1>3, <1>4 DEF StateInv
  <1>6. ControlInv
    BY <1>1 DEF ControlInv
  <1> QED BY <1>5, <1>6 DEF AllocInv

(* A new message belongs to the owner, and no list changes. *)
LEMMA StepNew ==
  ASSUME StateInv, NEW i \in ListIndices \cup {-1}, NEW c \in Nat, NEW want \in Requests,
         want <= c, i \in ListIndices => c = ListCapacity(i), Suits(want, i),
         New(i, c, want), UNCHANGED <<away, idle>>
  PROVE  StateInv' /\ Free' = Free
  <1>1. PICK m \in Msgs \ live :
          /\ live' = live \cup {m} /\ owned' = owned \cup {m}
          /\ index' = [index EXCEPT ![m] = i]
          /\ capacity' = [capacity EXCEPT ![m] = c]
          /\ asked' = [asked EXCEPT ![m] = want]
          /\ UNCHANGED <<heads, nxt, dirty>>
    BY DEF New
  <1>2. /\ index \in [Msgs -> ListIndices \cup {-1}] /\ capacity \in [Msgs -> Nat]
        /\ asked \in [Msgs -> Requests \cup {0}]
        /\ live \subseteq Msgs /\ dirty \subseteq live
        /\ owned \subseteq live /\ away \subseteq live /\ Carried(idle) \subseteq live
        /\ owned \cap away = {} /\ (owned \cup away) \cap Carried(idle) = {}
        /\ Orderly(idle)
        /\ InLists(Free, index, heads, nxt)
        /\ \A n \in live \ (owned \cup away) : index[n] \in ListIndices
        /\ \A n \in live : index[n] \in ListIndices => capacity[n] = ListCapacity(index[n])
        /\ \A n \in owned \cup away : asked[n] <= capacity[n]
        /\ \A n \in owned \cup away : Suits(asked[n], index[n])
    BY DEF StateInv
  <1>3. /\ index' \in [Msgs -> ListIndices \cup {-1}] /\ capacity' \in [Msgs -> Nat]
        /\ asked' \in [Msgs -> Requests \cup {0}]
        /\ index'[m] = i /\ capacity'[m] = c /\ asked'[m] = want
        /\ \A n \in live : index'[n] = index[n] /\ capacity'[n] = capacity[n] /\ asked'[n] = asked[n]
    BY <1>1, <1>2
  <1>4. Free' = Free
    <2>1. Free' = (live \cup {m}) \ ((owned \cup {m}) \cup away \cup Carried(idle))
      BY <1>1 DEF Free
    <2> QED BY <1>1, <1>2, <2>1 DEF Free
  <1>5. InLists(Free, index', heads, nxt)
    <2>1. \A n \in Free : index'[n] = index[n]
      BY <1>3 DEF Free
    <2> QED BY <1>2, <2>1, OtherIndices
  <1>6. InLists(Free', index', heads', nxt')
    BY <1>1, <1>4, <1>5
  <1>7. /\ live' \subseteq Msgs /\ dirty' \subseteq live' /\ owned' \subseteq live'
        /\ away' \subseteq live' /\ Carried(idle') \subseteq live'
        /\ owned' \cap away' = {} /\ (owned' \cup away') \cap Carried(idle') = {}
        /\ Orderly(idle')
    BY <1>1, <1>2
  <1>8. /\ \A n \in live' \ (owned' \cup away') : index'[n] \in ListIndices
        /\ \A n \in live' : index'[n] \in ListIndices => capacity'[n] = ListCapacity(index'[n])
        /\ \A n \in owned' \cup away' : asked'[n] <= capacity'[n]
        /\ \A n \in owned' \cup away' : Suits(asked'[n], index'[n])
    BY <1>1, <1>2, <1>3
  <1> QED BY <1>3, <1>4, <1>6, <1>7, <1>8 DEF StateInv

(* The head of a list, with room for the request, goes to the owner. *)
LEMMA StepPop ==
  ASSUME StateInv, NEW i \in ListIndices, NEW want \in Requests, want <= ListCapacity(i),
         Suits(want, i), heads[i] # Nil, PopList(i, want), UNCHANGED <<away, idle>>
  PROVE  StateInv'
  <1> DEFINE m == heads[i]
  <1>1. /\ PoppedFrom(i, m, heads, nxt, heads', nxt')
        /\ owned' = owned \cup {m} /\ asked' = [asked EXCEPT ![m] = want]
        /\ UNCHANGED <<index, capacity, live, dirty>>
    BY DEF PopList, PoppedFrom, fields
  <1>2. /\ index \in [Msgs -> ListIndices \cup {-1}] /\ capacity \in [Msgs -> Nat]
        /\ asked \in [Msgs -> Requests \cup {0}]
        /\ live \subseteq Msgs /\ dirty \subseteq live
        /\ owned \subseteq live /\ away \subseteq live /\ Carried(idle) \subseteq live
        /\ owned \cap away = {} /\ (owned \cup away) \cap Carried(idle) = {}
        /\ Orderly(idle)
        /\ InLists(Free, index, heads, nxt)
        /\ \A n \in live \ (owned \cup away) : index[n] \in ListIndices
        /\ \A n \in live : index[n] \in ListIndices => capacity[n] = ListCapacity(index[n])
        /\ \A n \in owned \cup away : asked[n] <= capacity[n]
        /\ \A n \in owned \cup away : Suits(asked[n], index[n])
    BY DEF StateInv
  <1>3. m \in Free /\ index[m] = i /\ InLists(Free \ {m}, index, heads', nxt')
    BY <1>1, <1>2, PopLists
  <1> HIDE DEF m
  <1>4. m \in live /\ m \notin away /\ m \notin Carried(idle) /\ m \in Msgs
    BY <1>2, <1>3 DEF Free
  <1>5. /\ asked' \in [Msgs -> Requests \cup {0}] /\ asked'[m] = want
        /\ \A n \in Msgs : n # m => asked'[n] = asked[n]
    BY <1>1, <1>2, <1>4
  <1>6. Free' = Free \ {m}
    <2>1. Free' = live \ ((owned \cup {m}) \cup away \cup Carried(idle))
      BY <1>1 DEF Free
    <2> QED BY <2>1 DEF Free
  <1>7. InLists(Free', index', heads', nxt')
    BY <1>1, <1>3, <1>6
  <1>8. /\ owned' \subseteq live' /\ owned' \cap away' = {}
        /\ (owned' \cup away') \cap Carried(idle') = {}
    BY <1>1, <1>2, <1>4
  <1>9. capacity[m] = ListCapacity(i)
    BY <1>2, <1>3, <1>4
  <1>10. \A n \in owned' \cup away' : asked'[n] <= capacity'[n]
    <2> SUFFICES ASSUME NEW n \in owned' \cup away' PROVE asked'[n] <= capacity[n]
      BY <1>1
    <2>1. CASE n = m
      BY <1>5, <1>9, <2>1
    <2>2. CASE n # m
      BY <1>1, <1>2, <1>5, <2>2
    <2> QED BY <2>1, <2>2
  <1>11. \A n \in live' \ (owned' \cup away') : index'[n] \in ListIndices
    BY <1>1, <1>2
  <1>12. \A n \in owned' \cup away' : Suits(asked'[n], index'[n])
    <2> SUFFICES ASSUME NEW n \in owned' \cup away' PROVE Suits(asked'[n], index[n])
      BY <1>1
    <2>1. CASE n = m
      BY <1>3, <1>5, <2>1
    <2>2. CASE n # m
      BY <1>1, <1>2, <1>5, <2>2
    <2> QED BY <2>1, <2>2
  <1> QED BY <1>1, <1>2, <1>5, <1>7, <1>8, <1>10, <1>11, <1>12 DEF StateInv

(* A request that is not too big fits its list. *)
LEMMA RequestFits ==
  ASSUME NEW want \in Requests, ~TooBig(want)
  PROVE  /\ ListIndex(want) \in ListIndices /\ want <= ListCapacity(ListIndex(want))
         /\ want \in Nat /\ ListCapacity(ListIndex(want)) \in Nat
         /\ Suits(want, ListIndex(want))
  <1>1. want \in Nat
    BY AllocatorAssumption
  <1>2. ListIndex(want) \in ListIndices /\ want < ListCapacity(ListIndex(want))
    BY <1>1, EveryListFits DEF Fits
  <1>3. ListCapacity(ListIndex(want)) \in Nat
    BY <1>2, CapacityType
  <1>4. Suits(want, ListIndex(want))
    BY DEF Suits
  <1> QED BY <1>1, <1>2, <1>3, <1>4

(* Allocate *)
LEMMA StepAllocate ==
  ASSUME AllocInv, NEW want \in Requests, Allocate(want)
  PROVE  AllocInv'
  <1>1. StateInv /\ ControlInv /\ opc = "idle" /\ UNCHANGED <<away, idle, rpc, rpMsg>>
    BY DEF AllocInv, Allocate
  <1>2. want \in Nat
    BY AllocatorAssumption
  <1>3. CASE TooBig(want) /\ New(-1, want, want) /\ UNCHANGED <<opc, opWant, wasIdle>>
    <2>1. -1 \notin ListIndices /\ want <= want /\ Suits(want, -1)
      BY <1>2, <1>3 DEF ListIndices, Suits
    <2>2. StateInv'
      BY <1>1, <1>2, <1>3, <2>1, StepNew
    <2>3. ControlInv'
      BY <1>1, <1>3 DEF ControlInv
    <2> QED BY <2>2, <2>3 DEF AllocInv
  <1>4. CASE /\ ~TooBig(want) /\ heads[ListIndex(want)] # Nil
             /\ PopList(ListIndex(want), want)
             /\ UNCHANGED <<opc, opWant, wasIdle>>
    <2>1. StateInv'
      BY <1>1, <1>4, RequestFits, StepPop
    <2>2. ControlInv'
      BY <1>1, <1>4 DEF ControlInv
    <2> QED BY <2>1, <2>2 DEF AllocInv
  <1>5. CASE /\ ~TooBig(want) /\ heads[ListIndex(want)] = Nil
             /\ opc' = "consume" /\ opWant' = want
             /\ wasIdle' = IdleReadable
             /\ UNCHANGED <<heads, nxt, fields, dirty, owned, asked>>
    <2>1. Free' = Free
      BY <1>1, <1>5 DEF Free, fields
    <2>2. StateInv'
      BY <1>1, <1>5, <2>1 DEF StateInv, fields
    <2>3. wasIdle' = Readable(idle) /\ Readable(idle) \subseteq Msgs
      <3>1. wasIdle' = Readable(idle)
        BY <1>5 DEF IdleReadable, Readable
      <3> QED BY <1>1, <3>1, CarriedType DEF StateInv
    <2>4. ControlInv'
      BY <1>1, <1>5, <2>1, <2>3 DEF ControlInv
    <2> QED BY <2>2, <2>4 DEF AllocInv
  <1> QED BY <1>3, <1>4, <1>5 DEF Allocate

(* A turn of ConsumeIdleQueue *)
LEMMA StepConsumeIdle ==
  ASSUME AllocInv, ConsumeIdle
  PROVE  AllocInv'
  <1> DEFINE m == NextItem(idle)
  <1>1. /\ StateInv /\ ControlInv /\ opc \in {"consume", "closing"} /\ HasItem(idle)
        /\ idle' = Take(idle)
        /\ UNCHANGED <<index, capacity, live, dirty, owned, away, opc, opWant, rpc, rpMsg,
                       asked, wasIdle>>
    BY DEF AllocInv, ConsumeIdle, fields
  <1>2. PushedTo(index[m], m, heads, nxt, heads', nxt')
    BY DEF ConsumeIdle, PushedTo
  <1>3. /\ Orderly(idle') /\ m \in Readable(idle)
        /\ Carried(idle') = Carried(idle) \ {m}
        /\ Readable(idle) \subseteq Readable(idle') \cup {m}
        /\ idle'.published = idle.published /\ idle'.items = idle.items
        /\ Readable(idle) \subseteq Carried(idle)
    BY <1>1, TakeCarries, CarriedType DEF StateInv
  <1> HIDE DEF m
  <1>4. /\ m \in Carried(idle) /\ m \in live /\ m \in Msgs
        /\ m \notin owned \cup away /\ m \notin Free /\ index[m] \in ListIndices
    <2>1. m \in Carried(idle) /\ m \in live /\ m \in Msgs /\ m \notin owned \cup away
      BY <1>1, <1>3 DEF StateInv
    <2> QED BY <1>1, <2>1 DEF StateInv, Free
  <1>5. Free' = Free \cup {m}
    <2>1. Free' = live \ (owned \cup away \cup (Carried(idle) \ {m}))
      BY <1>1, <1>3 DEF Free
    <2> QED BY <1>4, <2>1 DEF Free
  <1>6. InLists(Free', index', heads', nxt')
    <2>1. InLists(Free, index, heads, nxt)
      BY <1>1 DEF StateInv
    <2>2. InLists(Free \cup {m}, index, heads', nxt')
      BY <1>2, <1>4, <2>1, PushLists
    <2> QED BY <1>1, <1>5, <2>2
  <1>7. StateInv'
    BY <1>1, <1>3, <1>6 DEF StateInv
  <1>8. ControlInv'
    BY <1>1, <1>3, <1>5 DEF ControlInv
  <1> QED BY <1>7, <1>8 DEF AllocInv

(* and its end, *)
LEMMA StepConsumeEnd ==
  ASSUME AllocInv, ConsumeEnd
  PROVE  AllocInv'
  <1>1. /\ StateInv /\ ControlInv /\ opc = "consume" /\ opc' = "pick" /\ ~HasItem(idle)
        /\ idle' = Checked(idle)
        /\ UNCHANGED <<heads, nxt, index, capacity, live, dirty, owned, away, opWant, rpc,
                       rpMsg, asked, wasIdle>>
    BY DEF AllocInv, ConsumeEnd, fields
  <1>2. /\ Orderly(idle') /\ Carried(idle') = Carried(idle)
        /\ Readable(idle') = Readable(idle)
        /\ idle'.published = idle.published /\ idle'.items = idle.items
    BY <1>1, CheckCarries DEF StateInv
  <1>3. Free' = Free
    BY <1>1, <1>2 DEF Free
  <1>4. StateInv'
    BY <1>1, <1>2, <1>3 DEF StateInv
  <1>5. Readable(idle) = {}
    <2>1. Orderly(idle) /\ idle.taken \in Nat /\ idle.published \in Nat
      BY <1>1, QueueFields DEF StateInv, Orderly
    <2>2. (idle.taken + 1)..idle.published = {}
      BY <1>1, <2>1 DEF HasItem
    <2> QED BY <2>2 DEF Readable
  <1>6. ControlInv'
    BY <1>1, <1>2, <1>3, <1>5 DEF ControlInv
  <1> QED BY <1>4, <1>6 DEF AllocInv

(* after which Allocate has its message. *)
LEMMA StepPick ==
  ASSUME AllocInv, Pick
  PROVE  AllocInv'
  <1> DEFINE i == ListIndex(opWant)
  <1>1. /\ StateInv /\ ControlInv /\ opc = "pick" /\ opc' = "idle" /\ opWant' = 0
        /\ wasIdle' = {} /\ UNCHANGED <<away, idle, rpc, rpMsg>>
        /\ IF heads[i] # Nil THEN PopList(i, opWant) ELSE New(i, ListCapacity(i), opWant)
    BY DEF AllocInv, Pick
  <1>2. opWant \in Requests /\ ~TooBig(opWant)
    BY <1>1 DEF ControlInv
  <1>3. /\ i \in ListIndices /\ opWant <= ListCapacity(i) /\ ListCapacity(i) \in Nat
        /\ Suits(opWant, i)
    BY <1>2, RequestFits
  <1> HIDE DEF i
  <1>4. StateInv'
    <2>1. CASE heads[i] # Nil
      BY <1>1, <1>2, <1>3, <2>1, StepPop
    <2>2. CASE heads[i] = Nil
      BY <1>1, <1>2, <1>3, <2>2, StepNew
    <2> QED BY <2>1, <2>2
  <1>5. ControlInv'
    BY <1>1 DEF ControlInv
  <1> QED BY <1>4, <1>5 DEF AllocInv

(* Release *)
LEMMA StepRelease ==
  ASSUME AllocInv, NEW m \in Msgs, Release(m)
  PROVE  AllocInv'
  <1>1. /\ StateInv /\ ControlInv /\ opc = "idle" /\ m \in owned /\ owned' = owned \ {m}
        /\ dirty' = dirty \ {m} /\ asked' = [asked EXCEPT ![m] = 0]
        /\ UNCHANGED <<index, capacity, away, idle, opc, opWant, rpc, rpMsg, wasIdle>>
    BY DEF AllocInv, Release
  <1>2. /\ m \in live /\ m \notin away /\ m \notin Carried(idle) /\ m \notin Free
        /\ index[m] \in ListIndices \cup {-1} /\ InLists(Free, index, heads, nxt)
    BY <1>1 DEF StateInv, Free
  <1>3. /\ asked' \in [Msgs -> Requests \cup {0}]
        /\ \A n \in owned' \cup away' : asked'[n] = asked[n]
    <2>1. owned' \cup away' \subseteq Msgs \ {m} /\ asked \in [Msgs -> Requests \cup {0}]
      BY <1>1, <1>2 DEF StateInv
    <2> QED BY <1>1, <2>1
  <1>4. ControlInv'
    BY <1>1 DEF ControlInv
  <1>5. CASE index[m] < 0 /\ live' = live \ {m} /\ UNCHANGED <<heads, nxt>>
    <2>1. Free' = Free
      <3>1. Free' = (live \ {m}) \ ((owned \ {m}) \cup away \cup Carried(idle))
        BY <1>1, <1>5 DEF Free
      <3> QED BY <1>1, <1>2, <3>1 DEF Free
    <2>2. StateInv'
      BY <1>1, <1>2, <1>3, <1>5, <2>1 DEF StateInv
    <2> QED BY <1>4, <2>2 DEF AllocInv
  <1>6. CASE /\ index[m] >= 0
             /\ nxt' = [nxt EXCEPT ![m] = heads[index[m]]]
             /\ heads' = [heads EXCEPT ![index[m]] = m]
             /\ UNCHANGED live
    <2>1. Free' = Free \cup {m}
      <3>1. Free' = live \ ((owned \ {m}) \cup away \cup Carried(idle))
        BY <1>1, <1>6 DEF Free
      <3> QED BY <1>1, <1>2, <3>1 DEF Free
    <2>2. index[m] \in ListIndices
      BY <1>2, <1>6, IndexSign
    <2>3. PushedTo(index[m], m, heads, nxt, heads', nxt')
      BY <1>6 DEF PushedTo
    <2>4. InLists(Free \cup {m}, index, heads', nxt')
      BY <1>2, <2>2, <2>3, PushLists
    <2>5. InLists(Free', index', heads', nxt')
      BY <1>1, <2>1, <2>4
    <2>6. StateInv'
      BY <1>1, <1>2, <1>3, <1>6, <2>2, <2>5 DEF StateInv
    <2> QED BY <1>4, <2>6 DEF AllocInv
  <1> QED BY <1>5, <1>6 DEF Release

(* The owner fills a message, *)
LEMMA StepFill ==
  ASSUME AllocInv, NEW m \in Msgs, Fill(m)
  PROVE  AllocInv'
  <1>1. /\ StateInv /\ ControlInv /\ m \in owned /\ dirty' = dirty \cup {m}
        /\ UNCHANGED <<heads, nxt, index, capacity, live, owned, away, idle, opc, opWant,
                       rpc, rpMsg, asked, wasIdle>>
    BY DEF AllocInv, Fill, fields
  <1>2. Free' = Free
    BY <1>1 DEF Free
  <1>3. StateInv'
    BY <1>1, <1>2 DEF StateInv
  <1>4. ControlInv'
    BY <1>1, <1>2 DEF ControlInv
  <1> QED BY <1>3, <1>4 DEF AllocInv

(* and lets the pipe have it. *)
LEMMA StepHandOver ==
  ASSUME AllocInv, NEW m \in Msgs, HandOver(m)
  PROVE  AllocInv'
  <1>1. /\ StateInv /\ ControlInv /\ m \in owned /\ owned' = owned \ {m}
        /\ away' = away \cup {m}
        /\ UNCHANGED <<heads, nxt, index, capacity, live, dirty, idle, opc, opWant,
                       rpc, rpMsg, asked, wasIdle>>
    BY DEF AllocInv, HandOver, fields
  <1>2. owned' \cup away' = owned \cup away
    BY <1>1
  <1>3. Free' = Free
    BY <1>1, <1>2 DEF Free
  <1>4. owned' \subseteq live' /\ away' \subseteq live' /\ owned' \cap away' = {}
    BY <1>1 DEF StateInv
  <1>5. StateInv'
    BY <1>1, <1>2, <1>3, <1>4 DEF StateInv
  <1>6. ControlInv'
    BY <1>1, <1>3 DEF ControlInv
  <1> QED BY <1>5, <1>6 DEF AllocInv

(* Recycle *)
LEMMA StepRecycle ==
  ASSUME AllocInv, opc \notin {"closing", "closed"}, NEW m \in Msgs, Recycle(m)
  PROVE  AllocInv'
  <1>1. /\ StateInv /\ ControlInv /\ rpc = "idle" /\ m \in away /\ away' = away \ {m}
        /\ asked' = [asked EXCEPT ![m] = 0]
        /\ UNCHANGED <<heads, nxt, index, capacity, owned, opc, opWant, wasIdle>>
    BY DEF AllocInv, Recycle
  <1>2. /\ m \in live /\ m \notin owned /\ m \notin Carried(idle) /\ m \notin Free
        /\ index[m] \in ListIndices \cup {-1} /\ InLists(Free, index, heads, nxt)
        /\ Orderly(idle)
    BY <1>1 DEF StateInv, Free
  <1>3. /\ asked' \in [Msgs -> Requests \cup {0}]
        /\ \A n \in owned' \cup away' : asked'[n] = asked[n]
    <2>1. owned' \cup away' \subseteq Msgs \ {m} /\ asked \in [Msgs -> Requests \cup {0}]
      BY <1>1, <1>2 DEF StateInv
    <2> QED BY <1>1, <2>1
  <1>4. CASE /\ index[m] < 0
             /\ live' = live \ {m} /\ dirty' = dirty \ {m}
             /\ UNCHANGED <<idle, rpc, rpMsg>>
    <2>1. Free' = Free
      <3>1. Free' = (live \ {m}) \ (owned \cup (away \ {m}) \cup Carried(idle))
        BY <1>1, <1>4 DEF Free
      <3> QED BY <1>1, <1>2, <3>1 DEF Free
    <2>2. StateInv'
      BY <1>1, <1>2, <1>3, <1>4, <2>1 DEF StateInv
    <2>3. ControlInv'
      BY <1>1, <1>4, <2>1 DEF ControlInv
    <2> QED BY <2>2, <2>3 DEF AllocInv
  <1>5. CASE /\ index[m] >= 0
             /\ Len(idle.items) < MaxIdle
             /\ idle' = Put(idle, m, FALSE)
             /\ rpc' = "flush" /\ rpMsg' = m
             /\ UNCHANGED <<live, dirty>>
    <2>1. /\ Orderly(idle') /\ Carried(idle') = Carried(idle) \cup {m}
          /\ Readable(idle') = Readable(idle)
      BY <1>2, <1>5, PutCarries
    <2>2. Free' = Free
      <3>1. Free' = live \ (owned \cup (away \ {m}) \cup (Carried(idle) \cup {m}))
        BY <1>1, <1>5, <2>1 DEF Free
      <3> QED BY <1>1, <3>1 DEF Free
    <2>3. index[m] \in ListIndices
      BY <1>2, <1>5, IndexSign
    <2>4. /\ away' \subseteq live' /\ Carried(idle') \subseteq live'
          /\ owned' \cap away' = {} /\ (owned' \cup away') \cap Carried(idle') = {}
      <3>1. /\ away \subseteq live /\ Carried(idle) \subseteq live /\ owned \cap away = {}
            /\ (owned \cup away) \cap Carried(idle) = {}
        BY <1>1 DEF StateInv
      <3>2. live' = live /\ owned' = owned
        BY <1>1, <1>5
      <3> QED BY <1>1, <1>2, <2>1, <3>1, <3>2
    <2>5. \A n \in live' \ (owned' \cup away') : index'[n] \in ListIndices
      BY <1>1, <1>5, <2>3 DEF StateInv
    <2>6. \A n \in owned' \cup away' : asked'[n] <= capacity'[n] /\ Suits(asked'[n], index'[n])
      BY <1>1, <1>3 DEF StateInv
    <2>7. StateInv'
      BY <1>1, <1>3, <1>5, <2>1, <2>2, <2>4, <2>5, <2>6 DEF StateInv
    <2>8. ControlInv'
      BY <1>1, <1>5, <2>1, <2>2 DEF ControlInv
    <2> QED BY <2>7, <2>8 DEF AllocInv
  <1> QED BY <1>4, <1>5 DEF Recycle

(* and its flush *)
LEMMA StepRecycleFlush ==
  ASSUME AllocInv, opc \notin {"closing", "closed"}, RecycleFlush
  PROVE  AllocInv'
  <1>1. /\ StateInv /\ ControlInv /\ idle' = Flushed(idle) /\ rpc' = "idle" /\ rpMsg' = Nil
        /\ UNCHANGED <<heads, nxt, index, capacity, live, dirty, owned, away, opc, opWant,
                       asked, wasIdle>>
    BY DEF AllocInv, RecycleFlush, fields
  <1>2. /\ Orderly(idle') /\ Carried(idle') = Carried(idle)
        /\ Readable(idle) \subseteq Readable(idle') /\ idle'.published = Len(idle'.items)
    BY <1>1, FlushCarries DEF StateInv
  <1>3. Free' = Free
    BY <1>1, <1>2 DEF Free
  <1>4. StateInv'
    BY <1>1, <1>2, <1>3 DEF StateInv
  <1>5. ControlInv'
    BY <1>1, <1>2, <1>3 DEF ControlInv
  <1> QED BY <1>4, <1>5 DEF AllocInv

(* The destructor *)
LEMMA StepClose ==
  ASSUME AllocInv, Close
  PROVE  AllocInv'
  <1>1. /\ StateInv /\ ControlInv /\ opc' = "closing" /\ rpc = "idle"
        /\ UNCHANGED <<heads, nxt, index, capacity, live, dirty, owned, away, idle, opWant,
                       rpc, rpMsg, asked, wasIdle>>
    BY DEF AllocInv, Close, fields
  <1>2. Free' = Free
    BY <1>1 DEF Free
  <1>3. StateInv'
    BY <1>1, <1>2 DEF StateInv
  <1>4. ControlInv'
    BY <1>1, <1>2 DEF ControlInv
  <1> QED BY <1>3, <1>4 DEF AllocInv

(* What a free list holds is what should be in it. *)
LEMMA ListsHoldFree ==
  ASSUME StateInv
  PROVE  \A i \in ListIndices :
           ListOf(i) = {m \in Free : index[m] = i} /\ Walk(heads[i])[Cardinality(Msgs)] = Nil
  <1>1. ASSUME NEW i \in ListIndices
        PROVE  ListOf(i) = {m \in Free : index[m] = i}
               /\ Walk(heads[i])[Cardinality(Msgs)] = Nil
    <2>1. Walk(heads[i]) = WalkFrom(heads[i], nxt)
      BY DEF Walk, WalkFrom
    <2>2. /\ {WalkFrom(heads[i], nxt)[n] : n \in 0..Cardinality(Msgs)} \ {Nil}
             = {m \in Free : index[m] = i}
          /\ WalkFrom(heads[i], nxt)[Cardinality(Msgs)] = Nil
      BY Walked DEF StateInv
    <2>3. ListOf(i) = {WalkFrom(heads[i], nxt)[n] : n \in 0..Cardinality(Msgs)} \ {Nil}
      BY <2>1, Zenon DEF ListOf
    <2> QED BY <2>1, <2>2, <2>3, Zenon
  <1> QED BY <1>1

(* It deletes them all. *)
LEMMA StepDeleteLists ==
  ASSUME AllocInv, DeleteLists
  PROVE  AllocInv'
  <1> DEFINE Lists == UNION {ListOf(i) : i \in ListIndices}
  <1>1. /\ StateInv /\ ControlInv /\ opc = "closing" /\ ~HasItem(idle)
        /\ live' = live \ Lists /\ dirty' = dirty \cap live'
        /\ heads' = [i \in ListIndices |-> Nil]
        /\ idle' = Checked(idle) /\ opc' = "closed"
        /\ UNCHANGED <<nxt, index, capacity, owned, away, opWant, rpc, rpMsg, asked, wasIdle>>
    BY DEF AllocInv, DeleteLists
  <1>2. /\ Orderly(idle') /\ Carried(idle') = Carried(idle)
        /\ idle'.published = idle.published /\ idle'.items = idle.items
        /\ idle'.taken = idle.taken
    BY <1>1, CheckCarries DEF StateInv
  <1>3. Lists = Free
    <2>1. \A i \in ListIndices : ListOf(i) = {m \in Free : index[m] = i}
      BY <1>1, ListsHoldFree
    <2>2. \A m \in Free : index[m] \in ListIndices
      BY <1>1 DEF StateInv, Free
    <2> QED BY <2>1, <2>2
  <1> HIDE DEF Lists
  <1>4. live' = owned \cup away \cup Carried(idle)
    BY <1>1, <1>3 DEF StateInv, Free
  <1>5. Free' = {}
    BY <1>1, <1>2, <1>4 DEF Free
  <1>6. InLists(Free', index', heads', nxt')
    <2>1. nxt \in [Msgs -> Msgs \cup {Nil}]
      BY <1>1 DEF StateInv, InLists
    <2>2. InLists({}, index, [i \in ListIndices |-> Nil], nxt)
      BY <2>1, NoLists
    <2> QED BY <1>1, <1>5, <2>2
  <1>7. StateInv'
    <2>1. live' \subseteq live
      BY <1>1
    <2>2. /\ live' \subseteq Msgs /\ dirty' \subseteq live' /\ owned' \subseteq live'
          /\ away' \subseteq live' /\ Carried(idle') \subseteq live'
      BY <1>1, <1>2, <1>4, <2>1 DEF StateInv
    <2> QED BY <1>1, <1>2, <1>6, <2>1, <2>2 DEF StateInv
  <1>8. rpc = "idle" /\ idle.published = Len(idle.items) /\ idle.taken = Len(idle.items)
    <2>1. rpc = "idle" /\ idle.published = Len(idle.items)
      BY <1>1 DEF ControlInv
    <2>2. idle.taken \in Nat /\ idle.published \in Nat /\ idle.taken <= idle.published
      BY <1>1, QueueFields DEF StateInv, Orderly
    <2> QED BY <1>1, <2>1, <2>2 DEF HasItem
  <1>9. ControlInv'
    BY <1>1, <1>2, <1>5, <1>8 DEF ControlInv
  <1> QED BY <1>7, <1>9 DEF AllocInv

(* Every step keeps the invariant. *)
LEMMA NextAllocInv == AllocInv /\ [Next]_vars => AllocInv'
  <1> SUFFICES ASSUME AllocInv, [Next]_vars PROVE AllocInv'
    OBVIOUS
  <1>1. CASE OwnerStep
    BY <1>1, StepAllocate, StepConsumeIdle, StepConsumeEnd, StepPick, StepRelease, StepFill,
       StepHandOver DEF OwnerStep
  <1>2. CASE OtherStep
    BY <1>2, StepRecycle, StepRecycleFlush DEF OtherStep
  <1>3. CASE Close
    BY <1>3, StepClose
  <1>4. CASE DeleteLists
    BY <1>4, StepDeleteLists
  <1>5. CASE UNCHANGED vars
    <2>1. UNCHANGED <<heads, nxt, index, capacity, dirty, live, owned, away, idle, opc, opWant,
                      rpc, rpMsg, asked, wasIdle>>
      BY <1>5 DEF vars
    <2>2. Free' = Free
      BY <2>1 DEF Free
    <2> QED BY <2>1, <2>2 DEF AllocInv, StateInv, ControlInv
  <1> QED BY <1>1, <1>2, <1>3, <1>4, <1>5 DEF Next

-----------------------------------------------------------------------------
(* The theorems. *)

(***************************************************************************)
(* The invariant they all follow from: every message that is not deleted   *)
(* is with one of the threads, in the idle queue or in the list of its     *)
(* index_, linked from the head down to nullptr.                           *)
(***************************************************************************)
THEOREM AllocatorInvariance == Spec => []AllocInv
  BY InitAllocInv, NextAllocInv, PTL DEF Spec

(* The variables have their types. *)
THEOREM AllocatorTypeCorrect == Spec => []TypeOK
  <1>1. AllocInv => TypeOK
    <2> SUFFICES ASSUME AllocInv PROVE TypeOK
      OBVIOUS
    <2>1. StateInv /\ ControlInv
      BY DEF AllocInv
    <2>2. /\ idle.taken \in 0..idle.published /\ idle.published \in 0..Len(idle.items)
      <3>1. Orderly(idle) /\ idle.taken \in Nat /\ idle.published \in Nat
            /\ Len(idle.items) \in Nat
        BY <2>1, QueueFields DEF StateInv, Orderly
      <3> QED BY <3>1 DEF Orderly
    <2>3. heads \in [ListIndices -> Msgs \cup {Nil}] /\ nxt \in [Msgs -> Msgs \cup {Nil}]
      BY <2>1 DEF StateInv, InLists
    <2> QED BY <2>1, <2>2, <2>3 DEF TypeOK, StateInv, ControlInv
  <1> QED BY <1>1, AllocatorInvariance, PTL

(* As many messages wait in the idle queue as it has cells in use. *)
LEMMA CarriedOnce ==
  ASSUME NEW q, Orderly(q)
  PROVE  Cardinality(Carried(q)) = Len(q.items) - q.taken
  <1> DEFINE n == Len(q.items)  d == q.taken  D == (d + 1)..n
             f == [k \in D |-> q.items[k]]
  <1>1. /\ n \in Nat /\ d \in Nat /\ d <= n
        /\ \A j, k \in D : q.items[j] = q.items[k] => j = k
    BY QueueFields DEF Orderly
  <1>2. f \in [D -> Carried(q)] /\ \A k \in D : f[k] = q.items[k]
    BY DEF Carried
  <1>3. Carried(q) = {f[k] : k \in D}
    BY <1>2 DEF Carried
  <1>4. IsFiniteSet(D) /\ Cardinality(D) = n - d
    <2> HIDE DEF n, d
    <2>1. d + 1 \in Int /\ n \in Int
      BY <1>1
    <2>2. IsFiniteSet(D) /\ Cardinality(D) = IF d + 1 > n THEN 0 ELSE n - (d + 1) + 1
      BY <2>1, FS_Interval
    <2> HIDE DEF D
    <2> QED BY <1>1, <2>2
  <1>5. f \in Surjection(D, Carried(q)) /\ f \in Injection(D, Carried(q))
    <2> HIDE DEF f, D
    <2> QED BY <1>1, <1>2, <1>3 DEF Surjection, Injection, IsInjective
  <1>6. Cardinality(Carried(q)) = Cardinality(D)
    <2> HIDE DEF f, D
    <2> QED BY <1>4, <1>5, FS_Surjection
  <1> QED BY <1>4, <1>6

(***************************************************************************)
(* Allocate, Release, Recycle, ConsumeIdleQueue: a message that is not     *)
(* deleted is in one place, and none is lost, however many messages and    *)
(* threads' turns there are.                                               *)
(***************************************************************************)
THEOREM NoMessageLost == Spec => []EachInOnePlace
  <1>1. AllocInv => EachInOnePlace
    <2> SUFFICES ASSUME AllocInv PROVE EachInOnePlace
      OBVIOUS
    <2>1. StateInv /\ ControlInv
      BY DEF AllocInv
    <2>2. IdleAll = Carried(idle)
      BY DEF IdleAll, Carried
    <2>3. \A i \in ListIndices : /\ ListOf(i) = {m \in Free : index[m] = i}
                                 /\ Walk(heads[i])[Cardinality(Msgs)] = Nil
      BY <2>1, ListsHoldFree
    <2>4. /\ owned \subseteq live /\ away \subseteq live /\ Carried(idle) \subseteq live
          /\ owned \cap away = {} /\ (owned \cup away) \cap Carried(idle) = {}
          /\ \A m \in Free : index[m] \in ListIndices
          /\ InLists(Free, index, heads, nxt) /\ Orderly(idle)
      BY <2>1 DEF StateInv, Free
    <2> DEFINE Full == {x \in ListIndices : heads[x] # Nil}
    <2>5. \A m \in Free : index[m] \in Full
      BY <2>4, EmptyList
    <2>6. Free \cap (owned \cup away \cup Carried(idle)) = {} /\ Free \subseteq live
          /\ live \subseteq owned \cup away \cup Carried(idle) \cup Free
      BY DEF Free
    <2>7. UNION {P[2] : P \in Places} = live
      <3>1. UNION {P[2] : P \in Places}
            = owned \cup away \cup Carried(idle) \cup UNION {ListOf(i) : i \in Full}
        <4> DEFINE L == {<<3 + i, ListOf(i)>> : i \in Full}
        <4>1. Places = {<<0, owned>>, <<1, away>>, <<2, Carried(idle)>>} \cup L
          BY <2>2, Zenon DEF Places
        <4>2. UNION {P[2] : P \in L} = UNION {ListOf(i) : i \in Full}
          <5>1. ASSUME NEW i \in Full PROVE <<3 + i, ListOf(i)>>[2] = ListOf(i)
            OBVIOUS
          <5>2. {P[2] : P \in L} = {<<3 + i, ListOf(i)>>[2] : i \in Full}
            <6> HIDE DEF Full
            <6> QED BY Zenon
          <5> HIDE DEF L, Full
          <5> QED BY <5>1, <5>2
        <4>3. {P[2] : P \in Places}
              = {owned, away, Carried(idle)} \cup {P[2] : P \in L}
          <5> DEFINE a == <<0, owned>>  b == <<1, away>>  c == <<2, Carried(idle)>>
          <5>1. a[2] = owned /\ b[2] = away /\ c[2] = Carried(idle)
            OBVIOUS
          <5>2. Places = {a, b, c} \cup L
            BY <4>1
          <5> HIDE DEF L, a, b, c
          <5> QED BY <5>1, <5>2
        <4> HIDE DEF L
        <4> QED BY <4>2, <4>3
      <3>2. UNION {ListOf(i) : i \in Full} = Free
        BY <2>3, <2>5
      <3> QED BY <2>4, <2>6, <3>1, <3>2
    <2>8. ASSUME NEW P \in Places, NEW Q \in Places, P # Q PROVE P[2] \cap Q[2] = {}
      <3>1. /\ P \in {<<0, owned>>, <<1, away>>, <<2, Carried(idle)>>}
               \/ \E i \in ListIndices : P = <<3 + i, ListOf(i)>>
            /\ Q \in {<<0, owned>>, <<1, away>>, <<2, Carried(idle)>>}
               \/ \E i \in ListIndices : Q = <<3 + i, ListOf(i)>>
        BY <2>2 DEF Places
      <3>2. CASE /\ P \in {<<0, owned>>, <<1, away>>, <<2, Carried(idle)>>}
                 /\ Q \in {<<0, owned>>, <<1, away>>, <<2, Carried(idle)>>}
        BY <2>4, <2>8, <3>2
      <3>3. CASE /\ P \in {<<0, owned>>, <<1, away>>, <<2, Carried(idle)>>}
                 /\ \E i \in ListIndices : Q = <<3 + i, ListOf(i)>>
        <4>1. P[2] \subseteq owned \cup away \cup Carried(idle)
          BY <3>3
        <4>2. Q[2] \subseteq Free
          BY <2>3, <3>3
        <4> QED BY <2>6, <4>1, <4>2
      <3>4. CASE /\ \E i \in ListIndices : P = <<3 + i, ListOf(i)>>
                 /\ Q \in {<<0, owned>>, <<1, away>>, <<2, Carried(idle)>>}
        <4>1. Q[2] \subseteq owned \cup away \cup Carried(idle)
          BY <3>4
        <4>2. P[2] \subseteq Free
          BY <2>3, <3>4
        <4> QED BY <2>6, <4>1, <4>2
      <3>5. CASE /\ \E i \in ListIndices : P = <<3 + i, ListOf(i)>>
                 /\ \E i \in ListIndices : Q = <<3 + i, ListOf(i)>>
        <4>1. PICK i \in ListIndices : P = <<3 + i, ListOf(i)>>
          BY <3>5
        <4>2. PICK j \in ListIndices : Q = <<3 + j, ListOf(j)>>
          BY <3>5
        <4>3. i # j
          BY <2>8, <4>1, <4>2
        <4>4. P[2] = {m \in Free : index[m] = i} /\ Q[2] = {m \in Free : index[m] = j}
          BY <2>3, <4>1, <4>2
        <4> QED BY <4>3, <4>4
      <3> QED BY <3>1, <3>2, <3>3, <3>4, <3>5
    <2>9. Cardinality(IdleAll) = Len(idle.items) - idle.taken
      BY <2>2, <2>4, CarriedOnce
    <2>10. opc = "closed" => live = owned \cup away
      <3> SUFFICES ASSUME opc = "closed" PROVE live = owned \cup away
        OBVIOUS
      <3>1. Free = {} /\ idle.taken = Len(idle.items)
        BY <2>1 DEF ControlInv
      <3>2. Carried(idle) = {}
        <4>1. idle.taken \in Nat /\ Len(idle.items) \in Nat
          BY <2>4, QueueFields DEF Orderly
        <4>2. (idle.taken + 1)..Len(idle.items) = {}
          BY <3>1, <4>1
        <4> QED BY <4>2 DEF Carried
      <3> QED BY <2>4, <2>6, <3>1, <3>2
    <2>11. \A i \in ListIndices : heads[i] # Nil => Walk(heads[i])[Cardinality(Msgs)] = Nil
      BY <2>3
    <2> QED BY <2>7, <2>8, <2>9, <2>10, <2>11 DEF EachInOnePlace
  <1> QED BY <1>1, AllocatorInvariance, PTL

(***************************************************************************)
(* Allocate makes a new message only if none of that list was waiting in   *)
(* the idle queue when it began, and what it gives has room for the        *)
(* request, whichever requests there are.                                  *)
(***************************************************************************)
THEOREM RecycledFirst == Spec => []ReusedBeforeNew
  <1>1. AllocInv => ReusedBeforeNew
    <2> SUFFICES ASSUME AllocInv PROVE ReusedBeforeNew
      OBVIOUS
    <2>1. StateInv /\ ControlInv
      BY DEF AllocInv
    <2>2. ASSUME opc = "pick", heads[ListIndex(opWant)] = Nil, NEW m \in wasIdle
          PROVE  index[m] # ListIndex(opWant)
      <3>1. opWant \in Requests /\ ~TooBig(opWant) /\ m \in Free
        BY <2>1, <2>2 DEF ControlInv
      <3>2. ListIndex(opWant) \in ListIndices /\ InLists(Free, index, heads, nxt)
        BY <2>1, <3>1, RequestFits DEF StateInv
      <3> QED BY <2>2, <3>1, <3>2, EmptyList
    <2>3. \A m \in owned \cup away : capacity[m] >= asked[m]
      <3> SUFFICES ASSUME NEW m \in owned \cup away PROVE capacity[m] >= asked[m]
        OBVIOUS
      <3>1. asked[m] <= capacity[m] /\ m \in Msgs
        BY <2>1 DEF StateInv
      <3>2. asked[m] \in Int /\ capacity[m] \in Int
        <4>1. asked[m] \in Requests \cup {0} /\ capacity[m] \in Nat
          BY <2>1, <3>1 DEF StateInv
        <4>2. \A n \in Requests : n \in Nat
          BY AllocatorAssumption
        <4> HIDE DEF AllocatorAssumption
        <4>3. asked[m] = 0 \/ asked[m] \in Nat
          BY <4>1, <4>2
        <4> QED BY <4>1, <4>3
      <3> QED BY <3>1, <3>2
    <2> QED BY <2>2, <2>3 DEF ReusedBeforeNew
  <1> QED BY <1>1, AllocatorInvariance, PTL

(***************************************************************************)
(* The de Bruijn table gives the list of every capacity, and what a thread *)
(* holds is of the list of its request, newly made, taken from the list or *)
(* recycled.                                                               *)
(***************************************************************************)
THEOREM MessagesOfTheirList == Spec => []ListFits
  <1>1. EachFits
    BY EveryListFits, SizeAssumption DEF EachFits
  <1>2. AllocInv => ListFits
    <2> SUFFICES ASSUME AllocInv, NEW m \in owned \cup away, ~TooBig(asked[m])
                 PROVE  index[m] = ListIndex(asked[m]) /\ capacity[m] = ListCapacity(index[m])
      BY <1>1 DEF ListFits
    <2>1. index[m] = ListIndex(asked[m]) /\ m \in Msgs /\ m \in live
      BY DEF AllocInv, StateInv, Suits
    <2>2. asked[m] \in Nat
      <3>1. asked[m] \in Requests \cup {0}
        BY <2>1 DEF AllocInv, StateInv
      <3>2. \A n \in Requests : n \in Nat
        BY AllocatorAssumption
      <3> HIDE DEF AllocatorAssumption
      <3> QED BY <3>1, <3>2
    <2>3. index[m] \in ListIndices
      BY <2>1, <2>2, EveryListFits DEF Fits
    <2> QED BY <2>1, <2>3 DEF AllocInv, StateInv
  <1> QED BY <1>2, AllocatorInvariance, PTL
=============================================================================
