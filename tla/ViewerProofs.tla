---------------------------- MODULE ViewerProofs ----------------------------
(***************************************************************************)
(* Theorems about the viewer's pages, for any nodes, markets and hosts and *)
(* any size of the charts: the list's rows, its record of nodes and its    *)
(* count of errors agree, the points of a chart are in order, and the      *)
(* charts are those of the host in the page bar.                           *)
(***************************************************************************)
EXTENDS Viewer, FiniteSetTheorems, WellFoundedInduction, TLAPS

(* A set of natural numbers that is not empty has a least element. *)
LEMMA LeastElement ==
  ASSUME NEW T \in SUBSET Nat, T # {}
  PROVE  \E x \in T : \A y \in T : x <= y
  <1> DEFINE R == {ss \in Nat \X Nat : ss[1] < ss[2]}
  <1>1. IsWellFoundedOn(R, Nat)
    BY NatLessThanWellFounded, Zenon DEF OpToRel
  <1>2. T \subseteq Nat /\ T # {}
    OBVIOUS
  <1>3. PICK x \in T : \A y \in T : ~ (<<y, x>> \in R)
    <2> HIDE DEF R
    <2> QED BY <1>1, <1>2, WFMin
  <1>4. \A y \in T : ~(y < x)
    BY <1>2, <1>3
  <1> QED BY <1>2, <1>3, <1>4

-----------------------------------------------------------------------------
(* Folds from the left, for steps that are functions. *)

\* g folds step over each set of 1..n, the greatest member last.
Folds(g, S, step, base, n) ==
  /\ g \in [SUBSET (1..n) -> S]
  /\ \A t \in SUBSET (1..n) :
       g[t] = IF t = {} THEN base ELSE step[<<g[t \ {Max(t)}], Max(t)>>]

(* The greatest of the numbers up to n, and of a set that has n. *)
LEMMA MaxIs ==
  ASSUME NEW n \in Nat \ {0}, NEW t \in SUBSET (1..n), n \in t
  PROVE  Max(t) = n
  <1>1. n \in t /\ \A y \in t : n >= y
    OBVIOUS
  <1>2. \A x \in t : (\A y \in t : x >= y) => x = n
    BY <1>1
  <1> QED BY <1>1, <1>2 DEF Max

(* A step that stays in S can be folded over any number of turns. *)
LEMMA FoldsExist ==
  ASSUME NEW S, NEW n \in Nat, NEW step, NEW base \in S,
         \A s \in S : \A i \in 1..n : step[<<s, i>>] \in S
  PROVE  \E g : Folds(g, S, step, base, n)
  <1> DEFINE T == {k \in Nat : k <= n /\ ~ \E g : Folds(g, S, step, base, k)}
  <1>1. 0 \notin T
    <2> DEFINE g == [t \in SUBSET (1..0) |-> base]
    <2>1. \A t \in SUBSET (1..0) : t = {}
      OBVIOUS
    <2>2. Folds(g, S, step, base, 0)
      BY <2>1 DEF Folds
    <2> QED BY <2>2
  <1>2. T = {}
    <2> SUFFICES ASSUME T # {} PROVE FALSE
      OBVIOUS
    <2>1. PICK k \in T : \A j \in T : k <= j
      <3>1. T \in SUBSET Nat
        OBVIOUS
      <3> HIDE DEF T
      <3> QED BY <3>1, LeastElement
    <2>2. /\ k \in Nat \ {0} /\ k <= n /\ ~ \E g : Folds(g, S, step, base, k)
          /\ k - 1 \in Nat /\ k - 1 <= n /\ k - 1 \notin T
      BY <1>1, <2>1
    <2>3. PICK g : Folds(g, S, step, base, k - 1)
      BY <2>2
    <2> HIDE DEF T
    <2> DEFINE h == [t \in SUBSET (1..k) |->
                       IF k \in t THEN step[<<g[t \ {k}], k>>] ELSE g[t]]
    <2>4. \A t \in SUBSET (1..k) :
            /\ t \ {k} \in SUBSET (1..(k - 1)) /\ k \notin t \ {k}
            /\ k \notin t => t \in SUBSET (1..(k - 1)) /\ t \ {k} = t
            /\ k \in t => Max(t) = k /\ t # {}
      <3> SUFFICES ASSUME NEW t \in SUBSET (1..k)
                   PROVE  /\ t \ {k} \in SUBSET (1..(k - 1)) /\ k \notin t \ {k}
                          /\ k \notin t => t \in SUBSET (1..(k - 1)) /\ t \ {k} = t
                          /\ k \in t => Max(t) = k /\ t # {}
        OBVIOUS
      <3>1. \A i \in t : i # k => i \in 1..(k - 1)
        BY <2>2
      <3> QED BY <2>2, <3>1, MaxIs
    <2>5. k \in 1..n
      BY <2>2
    <2>6. \A t \in SUBSET (1..k) : h[t] \in S
      <3> SUFFICES ASSUME NEW t \in SUBSET (1..k) PROVE h[t] \in S
        OBVIOUS
      <3>1. g[t \ {k}] \in S
        BY <2>3, <2>4 DEF Folds
      <3>2. k \notin t => g[t] \in S
        BY <2>3, <2>4 DEF Folds
      <3> QED BY <2>5, <3>1, <3>2
    <2>7. \A t \in SUBSET (1..k) : h[t] = IF k \in t THEN step[<<g[t \ {k}], k>>] ELSE g[t]
      OBVIOUS
    <2>8. h \in [SUBSET (1..k) -> S]
      <3>1. h = [t \in SUBSET (1..k) |-> h[t]]
        OBVIOUS
      <3> HIDE DEF h
      <3> QED BY <2>6, <3>1
    <2>9. \A s \in SUBSET (1..(k - 1)) : s \in SUBSET (1..k) /\ k \notin s
      BY <2>2
    <2> HIDE DEF h
    <2>10. \A s \in SUBSET (1..(k - 1)) : h[s] = g[s]
      BY <2>7, <2>9
    <2>11. ASSUME NEW t \in SUBSET (1..k)
           PROVE  h[t] = IF t = {} THEN base ELSE step[<<h[t \ {Max(t)}], Max(t)>>]
      <3>1. CASE k \in t
        <4>1. h[t] = step[<<g[t \ {k}], k>>] /\ h[t \ {k}] = g[t \ {k}]
          BY <2>4, <2>7, <2>10, <3>1
        <4>2. Max(t) = k /\ t # {}
          BY <2>4, <3>1
        <4> QED BY <4>1, <4>2, Zenon
      <3>2. CASE k \notin t
        <4>1. t \in SUBSET (1..(k - 1)) /\ t \ {Max(t)} \in SUBSET (1..(k - 1))
          BY <2>4, <3>2
        <4>2. h[t] = g[t] /\ h[t \ {Max(t)}] = g[t \ {Max(t)}]
          BY <2>10, <4>1
        <4>3. g[t] = IF t = {} THEN base ELSE step[<<g[t \ {Max(t)}], Max(t)>>]
          BY <2>3, <4>1 DEF Folds
        <4> QED BY <4>2, <4>3, Zenon
      <3> QED BY <3>1, <3>2
    <2>12. Folds(h, S, step, base, k)
      BY <2>8, <2>11 DEF Folds
    <2> QED BY <2>2, <2>12
  <1> QED BY <1>2

(* The greatest of a set of numbers is one of them. *)
LEMMA MaxIn ==
  ASSUME NEW n \in Nat, NEW t \in SUBSET (1..n), t # {}
  PROVE  Max(t) \in t
  <1> DEFINE T == {n - y : y \in t}
  <1>1. T \in SUBSET Nat /\ T # {}
    <2>1. \A y \in t : n - y \in Nat
      OBVIOUS
    <2> QED BY <2>1
  <1>2. PICK x \in T : \A z \in T : x <= z
    <2> HIDE DEF T
    <2> QED BY <1>1, LeastElement
  <1>3. PICK y \in t : x = n - y
    OBVIOUS
  <1>4. \A z \in t : y >= z
    <2> SUFFICES ASSUME NEW z \in t PROVE y >= z
      OBVIOUS
    <2>1. n - z \in T
      OBVIOUS
    <2>2. n - y <= n - z
      BY <1>2, <1>3, <2>1
    <2>3. y \in Nat /\ z \in Nat
      OBVIOUS
    <2> HIDE DEF T
    <2> QED BY <2>2, <2>3
  <1>5. \E z \in t : \A w \in t : z >= w
    BY <1>4
  <1> QED BY <1>5 DEF Max

\* A step that stays in S, a function that folds it over 1..i, and the run that it makes.
Closed(S, step, n) == \A s \in S : \A i \in 1..n : step[<<s, i>>] \in S
Stepwise(f, S, step, base, n) ==
  /\ f[1..0] = base
  /\ \A i \in 1..n : f[1..(i - 1)] \in S => f[1..i] = step[<<f[1..(i - 1)], i>>]
RunOf(h, f, S, step, base, n) ==
  /\ h \in [0..n -> S]
  /\ h[0] = base /\ h[n] = f[1..n]
  /\ \A i \in 1..n : h[i] = step[<<h[i - 1], i>>]

(* A fold runs through 1..n from the left. *)
LEMMA FoldRuns ==
  ASSUME NEW S, NEW n \in Nat, NEW step, NEW base \in S, NEW f,
         Closed(S, step, n), Stepwise(f, S, step, base, n)
  PROVE  \E h : RunOf(h, f, S, step, base, n)
  <1> USE DEF Closed, Stepwise
  <1> DEFINE T == {k \in Nat : k <= n /\ f[1..k] \notin S}
             h == [i \in 0..n |-> f[1..i]]
  <1>1. T = {}
    <2> SUFFICES ASSUME T # {} PROVE FALSE
      OBVIOUS
    <2>1. PICK k \in T : \A j \in T : k <= j
      <3>1. T \in SUBSET Nat
        OBVIOUS
      <3> HIDE DEF T
      <3> QED BY <3>1, LeastElement
    <2>2. /\ k \in 1..n /\ f[1..k] \notin S
          /\ k - 1 \in Nat /\ k - 1 <= n /\ k - 1 \notin T
      <3>1. k \in Nat /\ k <= n /\ f[1..k] \notin S /\ k # 0
        OBVIOUS
      <3> QED BY <2>1, <3>1
    <2>3. f[1..(k - 1)] \in S
      BY <2>2
    <2> QED BY <2>2, <2>3
  <1>2. \A i \in 0..n : h[i] = f[1..i] /\ f[1..i] \in S
    BY <1>1
  <1>3. h \in [0..n -> S]
    <2>1. h = [i \in 0..n |-> h[i]]
      OBVIOUS
    <2> HIDE DEF h
    <2> QED BY <1>2, <2>1
  <1> HIDE DEF h
  <1>4. ASSUME NEW i \in 1..n PROVE h[i] = step[<<h[i - 1], i>>]
    <2>1. i \in 0..n /\ i - 1 \in 0..n
      OBVIOUS
    <2> QED BY <1>2, <2>1
  <1>5. 0 \in 0..n /\ n \in 0..n
    OBVIOUS
  <1> QED BY <1>2, <1>3, <1>4, <1>5 DEF RunOf

(* The intervals of a fold. *)
LEMMA Intervals ==
  ASSUME NEW n \in Nat
  PROVE  /\ 1..0 = {}
         /\ \A i \in 1..n : /\ 1..i \in SUBSET (1..n) /\ 1..i # {}
                            /\ Max(1..i) = i /\ (1..i) \ {i} = 1..(i - 1)
  <1>1. ASSUME NEW i \in 1..n
        PROVE  /\ 1..i \in SUBSET (1..n) /\ 1..i # {}
               /\ Max(1..i) = i /\ (1..i) \ {i} = 1..(i - 1)
    <2>1. i \in Nat \ {0} /\ 1..i \in SUBSET (1..i) /\ i \in 1..i
      OBVIOUS
    <2>2. Max(1..i) = i
      BY <2>1, MaxIs
    <2>3. \A j \in 1..i : j \in 1..n /\ (j # i => j \in 1..(i - 1))
      OBVIOUS
    <2>4. \A j \in 1..(i - 1) : j \in 1..i /\ j # i
      OBVIOUS
    <2> QED BY <2>1, <2>2, <2>3, <2>4
  <1> QED BY <1>1

-----------------------------------------------------------------------------
(* The rows that are kept. *)

\* Rows of the list: of a node, and with a market it serves or in error.
Bazaars == {ErrorMarket} \union UNION {UNION Statuses[n] : n \in Nodes}
Rows == [pk : Nodes, bazaar : Bazaars]

Keep(kept, row, gone) == IF row \in gone THEN kept ELSE Append(kept, row)

\* The fold of Kept.
KeepFold(h, gone, q) ==
  h = [s \in SUBSET DOMAIN q |->
         IF s = {} THEN <<>> ELSE Keep(h[s \ {Max(s)}], q[Max(s)], gone)]

(* A row more or none keeps a sequence of rows one. *)
LEMMA KeepType ==
  ASSUME NEW kept \in Seq(Rows), NEW row \in Rows, NEW gone
  PROVE  Keep(kept, row, gone) \in Seq(Rows)
  BY DEF Keep

(* Kept runs through the rows, one after the other. *)
LEMMA KeptRuns ==
  ASSUME NEW q \in Seq(Rows), NEW gone
  PROVE  \E h \in [0..Len(q) -> Seq(Rows)] :
           /\ h[0] = <<>> /\ h[Len(q)] = Kept(q, gone)
           /\ \A i \in 1..Len(q) : h[i] = Keep(h[i - 1], q[i], gone)
  <1> DEFINE n == Len(q)
             S == Seq(Rows)
             base == <<>>
             step == [si \in S \X (1..n) |-> Keep(si[1], q[si[2]], gone)]
  <1>1. n \in Nat /\ DOMAIN q = 1..n /\ \A i \in 1..n : q[i] \in Rows
    OBVIOUS
  <1>3. ASSUME NEW s \in S, NEW i \in 1..n
        PROVE  step[<<s, i>>] = Keep(s, q[i], gone) /\ step[<<s, i>>] \in S
    <2>1. step[<<s, i>>] = Keep(s, q[i], gone)
      <3> HIDE DEF S, n
      <3> QED OBVIOUS
    <2>2. Keep(s, q[i], gone) \in S
      BY <1>1, KeepType
    <2> QED BY <2>1, <2>2
  <1> HIDE DEF S, n, step, base
  <1>2. base \in S
    BY DEF S, base
  <1>4. PICK g : Folds(g, S, step, base, n)
    BY <1>1, <1>2, <1>3, FoldsExist
  <1>5. KeepFold(g, gone, q)
    <2>1. g = [s \in SUBSET (1..n) |-> g[s]]
      BY <1>4 DEF Folds
    <2>2. ASSUME NEW s \in SUBSET (1..n), s # {}
          PROVE  g[s] = Keep(g[s \ {Max(s)}], q[Max(s)], gone)
      <3>1. Max(s) \in 1..n /\ s \ {Max(s)} \in SUBSET (1..n)
        BY <1>1, <2>2, MaxIn
      <3>2. g[s \ {Max(s)}] \in S
        BY <1>4, <3>1 DEF Folds
      <3>3. g[s] = step[<<g[s \ {Max(s)}], Max(s)>>]
        BY <1>4, <2>2 DEF Folds
      <3> QED BY <1>3, <3>1, <3>2, <3>3
    <2>3. g[{}] = base
      <3>1. {} \in SUBSET (1..n)
        OBVIOUS
      <3> QED BY <1>4, <3>1 DEF Folds
    <2>4. \A s \in SUBSET (1..n) :
            g[s] = IF s = {} THEN base ELSE Keep(g[s \ {Max(s)}], q[Max(s)], gone)
      BY <2>2, <2>3
    <2> QED BY <1>1, <2>1, <2>4, Zenon DEF KeepFold, base
  <1>6. PICK h : KeepFold(h, gone, q) /\ Kept(q, gone) = h[DOMAIN q]
    BY <1>5, Zenon DEF Kept, Keep, FoldLeft, MapThenFoldSet, KeepFold, base
  <1>7. \A s \in SUBSET (1..n) :
          h[s] = IF s = {} THEN base ELSE Keep(h[s \ {Max(s)}], q[Max(s)], gone)
    BY <1>1, <1>6, Zenon DEF KeepFold, base
  <1>8. h[1..0] = base
    <2>1. 1..0 \in SUBSET (1..n) /\ 1..0 = {}
      BY Intervals, <1>1
    <2> QED BY <1>7, <2>1
  <1>9. \A i \in 1..n : h[1..i] = Keep(h[1..(i - 1)], q[i], gone)
    <2> SUFFICES ASSUME NEW i \in 1..n PROVE h[1..i] = Keep(h[1..(i - 1)], q[i], gone)
      OBVIOUS
    <2>1. /\ 1..i \in SUBSET (1..n) /\ 1..i # {} /\ Max(1..i) = i /\ (1..i) \ {i} = 1..(i - 1)
      BY <1>1, Intervals
    <2>2. h[1..i] = Keep(h[(1..i) \ {Max(1..i)}], q[Max(1..i)], gone)
      BY <1>7, <2>1, Zenon
    <2> QED BY <2>1, <2>2
  <1>10. Closed(S, step, n) /\ Stepwise(h, S, step, base, n)
    BY <1>3, <1>8, <1>9 DEF Closed, Stepwise
  <1>11. PICK v : RunOf(v, h, S, step, base, n)
    <2>1. n \in Nat
      BY <1>1
    <2> QED BY <1>2, <1>10, <2>1, FoldRuns
  <1>12. ASSUME NEW i \in 1..n PROVE v[i] = Keep(v[i - 1], q[i], gone)
    <2>1. v[i - 1] \in S
      <3>1. i - 1 \in 0..n
        BY <1>1
      <3> QED BY <1>11, <3>1 DEF RunOf
    <2> QED BY <1>3, <1>11, <2>1 DEF RunOf
  <1>13. v[n] = Kept(q, gone)
    <2>1. h[DOMAIN q] = h[1..n]
      BY <1>1, Zenon
    <2>2. v[n] = h[1..n]
      BY <1>11 DEF RunOf
    <2> QED BY <1>6, <2>1, <2>2, Zenon
  <1> QED BY <1>11, <1>12, <1>13 DEF RunOf, n, S, base

(* What is kept: the rows that do not have to go, each once, and no more of them. *)
LEMMA KeptRows ==
  ASSUME NEW q \in Seq(Rows), IsInjective(q), NEW gone
  PROVE  /\ Kept(q, gone) \in Seq(Rows) /\ Len(Kept(q, gone)) <= Len(q)
         /\ IsInjective(Kept(q, gone))
         /\ ToSet(Kept(q, gone)) = ToSet(q) \ gone
  <1> DEFINE n == Len(q)
             Sound(x, i) == /\ Len(x) <= i /\ IsInjective(x)
                            /\ ToSet(x) = {q[j] : j \in 1..i} \ gone
  <1>1. n \in Nat /\ DOMAIN q = 1..n /\ \A i \in 1..n : q[i] \in Rows
    OBVIOUS
  <1>2. PICK h \in [0..n -> Seq(Rows)] :
          /\ h[0] = <<>> /\ h[n] = Kept(q, gone)
          /\ \A i \in 1..n : h[i] = Keep(h[i - 1], q[i], gone)
    BY KeptRuns
  <1> HIDE DEF n
  <1>3. Sound(h[0], 0)
    <2>1. ToSet(<<>>) = {} /\ IsInjective(<<>>) /\ 1..0 = {}
      BY DEF ToSet, IsInjective
    <2> QED BY <1>2, <2>1
  <1>4. ASSUME NEW i \in 1..n, Sound(h[i - 1], i - 1) PROVE Sound(h[i], i)
    <2> DEFINE x == h[i - 1]
    <2>1. x \in Seq(Rows) /\ q[i] \in Rows /\ i \in 1..n /\ i - 1 \in Nat
      BY <1>1, <1>2
    <2>2. Sound(x, i - 1)
      BY <1>4
    <2>3. h[i] = Keep(x, q[i], gone)
      BY <1>2
    <2>4. {q[j] : j \in 1..i} = {q[j] : j \in 1..(i - 1)} \union {q[i]}
      <3>1. 1..i = (1..(i - 1)) \union {i}
        BY <2>1
      <3> QED BY <3>1, Zenon
    <2>5. q[i] \notin {q[j] : j \in 1..(i - 1)}
      <3> SUFFICES ASSUME NEW j \in 1..(i - 1) PROVE q[i] # q[j]
        OBVIOUS
      <3>1. j \in 1..n /\ j # i
        BY <1>1, <2>1
      <3> QED BY <1>1, <2>1, <3>1 DEF IsInjective
    <2> HIDE DEF x
    <2>6. CASE q[i] \in gone
      <3>1. h[i] = x
        BY <2>3, <2>6 DEF Keep
      <3>2. Len(x) <= i
        BY <2>1, <2>2
      <3> QED BY <2>2, <2>4, <2>6, <3>1, <3>2
    <2>7. CASE q[i] \notin gone
      <3>1. h[i] = Append(x, q[i])
        BY <2>3, <2>7 DEF Keep
      <3> DEFINE l == Len(x)
      <3>2. /\ l \in Nat /\ DOMAIN x = 1..l /\ DOMAIN h[i] = 1..(l + 1) /\ Len(h[i]) = l + 1
            /\ \A k \in 1..l : h[i][k] = x[k]
            /\ h[i][l + 1] = q[i]
        BY <2>1, <3>1
      <3>3. ToSet(x) = {q[j] : j \in 1..(i - 1)} \ gone /\ IsInjective(x) /\ l <= i - 1
        BY <2>2
      <3> HIDE DEF l
      <3>4. ToSet(h[i]) = ToSet(x) \union {q[i]}
        <4>1. \A k \in 1..(l + 1) : k \in 1..l \/ k = l + 1
          BY <3>2
        <4>2. \A k \in 1..l : k \in 1..(l + 1)
          BY <3>2
        <4>3. l + 1 \in 1..(l + 1)
          BY <3>2
        <4> QED BY <3>2, <4>1, <4>2, <4>3 DEF ToSet
      <3>5. IsInjective(h[i])
        <4>1. q[i] \notin ToSet(x)
          BY <2>5, <3>3
        <4>2. \A k \in 1..l : x[k] # q[i]
          BY <3>2, <4>1 DEF ToSet
        <4>3. \A k \in 1..(l + 1) : k \in 1..l \/ k = l + 1
          BY <3>2
        <4>4. \A k \in 1..l : \A m \in 1..l : x[k] = x[m] => k = m
          BY <3>2, <3>3 DEF IsInjective
        <4>5. \A k \in 1..(l + 1) : \A m \in 1..(l + 1) : h[i][k] = h[i][m] => k = m
          BY <3>2, <4>2, <4>3, <4>4
        <4> QED BY <3>2, <4>5 DEF IsInjective
      <3>6. Len(h[i]) <= i
        BY <2>1, <3>2, <3>3
      <3>7. ToSet(h[i]) = {q[j] : j \in 1..i} \ gone
        BY <2>4, <2>7, <3>3, <3>4
      <3> QED BY <3>5, <3>6, <3>7
    <2> QED BY <2>6, <2>7
  <1> DEFINE T == {i \in 0..n : ~Sound(h[i], i)}
  <1>5. T = {}
    <2> SUFFICES ASSUME T # {} PROVE FALSE
      OBVIOUS
    <2>1. T \in SUBSET Nat
      BY <1>1
    <2>2. PICK i \in T : \A j \in T : i <= j
      <3> HIDE DEF T
      <3> QED BY <2>1, LeastElement
    <2> HIDE DEF Sound
    <2>3. i \in 1..n /\ i - 1 \in 0..n
      BY <1>1, <1>3, <2>2
    <2>4. i - 1 \notin T
      <3>1. i \in Nat
        BY <2>1
      <3> HIDE DEF T
      <3> QED BY <2>2, <3>1
    <2> QED BY <1>4, <2>2, <2>3, <2>4
  <1>6. Sound(h[n], n)
    <2>1. n \in 0..n
      BY <1>1
    <2> HIDE DEF Sound
    <2> QED BY <1>5, <2>1
  <1>7. h[n] \in Seq(Rows)
    BY <1>1, <1>2
  <1>8. ToSet(q) = {q[j] : j \in 1..n}
    BY <1>1 DEF ToSet
  <1> QED BY <1>2, <1>6, <1>7, <1>8 DEF n

-----------------------------------------------------------------------------
(* The effects of the list's handlers. *)

\* The fields of the page, and rows that are each there once.
ListFields == {"listing", "calls", "ResultData", "recordPk", "errorCounter", "alarmShow",
               "playing", "totalItems", "emptied"}
Table(s) ==
  /\ DOMAIN s = ListFields
  /\ s.ResultData \in Seq(Rows) /\ IsInjective(s.ResultData)

\* The fields beside the rows.
Beside(s, recordPk, errorCounter, emptied) ==
  s.recordPk = recordPk /\ s.errorCounter = errorCounter /\ s.emptied = emptied

\* The other nodes keep their rows.
OthersStay(s, t, pk) == \A m \in Nodes \ {pk} : Markets(t, m) = Markets(s, m)

(* A market of a node is one that a row has. *)
LEMMA InMarkets ==
  ASSUME NEW s, NEW m, NEW b
  PROVE  b \in Markets(s, m) <=> \E row \in ToSet(s.ResultData) : row.pk = m /\ row.bazaar = b
  BY DEF Markets, RowsOf

(* The names of a finite set, each once. *)
LEMMA NamesOf ==
  ASSUME NEW markets, IsFiniteSet(markets)
  PROVE  /\ Cardinality(markets) \in Nat
         /\ SetToSeq(markets) \in [1..Cardinality(markets) -> markets]
         /\ IsInjective(SetToSeq(markets))
  <1>1. Cardinality(markets) \in Nat /\ ExistsBijection(1..Cardinality(markets), markets)
    BY FS_CardinalityType
  <1>2. \E f \in [1..Cardinality(markets) -> markets] : IsInjective(f)
    BY <1>1, Zenon DEF ExistsBijection, Bijection, Injection
  <1> QED BY <1>1, <1>2, Zenon DEF SetToSeq

(* A row is known by its node and its market. *)
LEMMA RowIs ==
  /\ \A row \in Rows : row = Row(row.pk, row.bazaar)
  /\ \A pk \in Nodes : \A b \in Bazaars :
       Row(pk, b) \in Rows /\ Row(pk, b).pk = pk /\ Row(pk, b).bazaar = b
  BY DEF Rows, Row

(* Rows of one node that go. *)
LEMMA RowsGo ==
  ASSUME NEW s, Table(s), NEW pk \in Nodes, NEW gone, gone \subseteq RowsOf(s, pk)
  PROVE  LET t == Without(s, gone)
         IN  /\ Table(t) /\ OthersStay(s, t, pk)
             /\ Len(t.ResultData) <= Len(s.ResultData) /\ t.totalItems = s.totalItems
             /\ Beside(t, s.recordPk, s.errorCounter, s.emptied)
             /\ Markets(t, pk) = {row.bazaar : row \in RowsOf(s, pk) \ gone}
  <1> DEFINE t == Without(s, gone)
             q == s.ResultData
  <1>1. /\ DOMAIN t = ListFields /\ t.ResultData = Kept(q, gone) /\ t.totalItems = s.totalItems
        /\ Beside(t, s.recordPk, s.errorCounter, s.emptied)
    BY DEF Table, Without, ListFields, Beside
  <1>2. /\ t.ResultData \in Seq(Rows) /\ Len(t.ResultData) <= Len(q)
        /\ IsInjective(t.ResultData) /\ ToSet(t.ResultData) = ToSet(q) \ gone
    BY <1>1, KeptRows DEF Table
  <1> HIDE DEF t
  <1>3. ASSUME NEW m \in Nodes \ {pk} PROVE Markets(t, m) = Markets(s, m)
    <2>1. RowsOf(t, m) = RowsOf(s, m)
      BY <1>2, <1>3 DEF RowsOf
    <2> QED BY <2>1, Zenon DEF Markets
  <1>4. Markets(t, pk) = {row.bazaar : row \in RowsOf(s, pk) \ gone}
    <2>1. RowsOf(t, pk) = RowsOf(s, pk) \ gone
      BY <1>2 DEF RowsOf
    <2> QED BY <2>1, Zenon DEF Markets
  <1>5. Table(t) /\ OthersStay(s, t, pk)
    BY <1>1, <1>2, <1>3 DEF Table, OthersStay
  <1> QED BY <1>1, <1>2, <1>4, <1>5, Zenon DEF t

(* Rows of one node that come: for each of its markets, once it has none. *)
LEMMA RowsCome ==
  ASSUME NEW s, Table(s), NEW pk \in Nodes, Markets(s, pk) = {},
         NEW new \in Seq(Rows), IsInjective(new), \A i \in DOMAIN new : new[i].pk = pk,
         NEW t, DOMAIN t = ListFields, t.ResultData = s.ResultData \o new
  PROVE  /\ Table(t) /\ OthersStay(s, t, pk)
         /\ Markets(t, pk) = {new[i].bazaar : i \in DOMAIN new}
  <1> DEFINE q == s.ResultData
             n == Len(q)
             c == Len(new)
  <1>1. /\ q \in Seq(Rows) /\ n \in Nat /\ c \in Nat /\ IsInjective(q)
        /\ DOMAIN q = 1..n /\ DOMAIN new = 1..c
    BY DEF Table
  <1>2. /\ t.ResultData \in Seq(Rows) /\ DOMAIN t.ResultData = 1..(n + c)
        /\ \A i \in 1..n : t.ResultData[i] = q[i]
        /\ \A i \in 1..c : t.ResultData[n + i] = new[i]
    BY <1>1
  <1> HIDE DEF q, n, c
  <1>3. \A k \in 1..(n + c) : k \in 1..n \/ (k - n \in 1..c /\ n + (k - n) = k)
    BY <1>1
  <1>4. \A i \in 1..c : n + i \in 1..(n + c)
    BY <1>1
  <1>5. \A i \in 1..n : i \in 1..(n + c)
    BY <1>1
  <1>6. ToSet(t.ResultData) = ToSet(q) \union ToSet(new)
    <2>1. ToSet(t.ResultData) \subseteq ToSet(q) \union ToSet(new)
      <3> SUFFICES ASSUME NEW k \in 1..(n + c)
                   PROVE  t.ResultData[k] \in ToSet(q) \union ToSet(new)
        BY <1>2 DEF ToSet
      <3>1. CASE k \in 1..n
        BY <1>1, <1>2, <3>1 DEF ToSet
      <3>2. CASE k - n \in 1..c /\ n + (k - n) = k
        <4>1. t.ResultData[k] = new[k - n]
          BY <1>2, <3>2, Zenon
        <4> QED BY <1>1, <3>2, <4>1 DEF ToSet
      <3> QED BY <1>3, <3>1, <3>2
    <2>2. ToSet(q) \subseteq ToSet(t.ResultData)
      BY <1>1, <1>2, <1>5, Zenon DEF ToSet
    <2>3. ToSet(new) \subseteq ToSet(t.ResultData)
      BY <1>1, <1>2, <1>4, Zenon DEF ToSet
    <2> QED BY <2>1, <2>2, <2>3
  <1>7. \A row \in ToSet(q) : row.pk # pk
    <2> SUFFICES ASSUME NEW row \in ToSet(q), row.pk = pk PROVE FALSE
      OBVIOUS
    <2>0. row \in ToSet(q) /\ row.pk = pk
      OBVIOUS
    <2>1. row.bazaar \in Markets(s, pk)
      <3>1. row \in ToSet(s.ResultData) /\ row.pk = pk /\ row.bazaar = row.bazaar
        BY <2>0 DEF q
      <3> QED BY <3>1, InMarkets, Zenon
    <2> QED BY <2>1
  <1>8. \A row \in ToSet(new) : row.pk = pk
    BY <1>1 DEF ToSet
  <1>9. IsInjective(t.ResultData)
    <2>1. \A i \in 1..n : \A j \in 1..c : q[i] # new[j]
      BY <1>1, <1>7, <1>8 DEF ToSet
    <2>2. \A i \in 1..n : \A j \in 1..n : q[i] = q[j] => i = j
      BY <1>1 DEF IsInjective
    <2>3. \A i \in 1..c : \A j \in 1..c : new[i] = new[j] => i = j
      BY <1>1 DEF IsInjective
    <2> SUFFICES ASSUME NEW k \in 1..(n + c), NEW m \in 1..(n + c),
                        t.ResultData[k] = t.ResultData[m]
                 PROVE  k = m
      BY <1>2, Zenon DEF IsInjective
    <2>4. CASE k \in 1..n /\ m \in 1..n
      BY <1>2, <2>2, <2>4
    <2>5. CASE k \in 1..n /\ m - n \in 1..c /\ n + (m - n) = m
      <3>1. t.ResultData[k] = q[k] /\ t.ResultData[m] = new[m - n]
        BY <1>2, <2>5, Zenon
      <3> QED BY <2>1, <2>5, <3>1, Zenon
    <2>6. CASE m \in 1..n /\ k - n \in 1..c /\ n + (k - n) = k
      <3>1. t.ResultData[m] = q[m] /\ t.ResultData[k] = new[k - n]
        BY <1>2, <2>6, Zenon
      <3> QED BY <2>1, <2>6, <3>1, Zenon
    <2>7. CASE k - n \in 1..c /\ n + (k - n) = k /\ m - n \in 1..c /\ n + (m - n) = m
      <3>1. t.ResultData[k] = new[k - n] /\ t.ResultData[m] = new[m - n]
        BY <1>2, <2>7, Zenon
      <3>2. k - n = m - n
        BY <2>3, <2>7, <3>1, Zenon
      <3> QED BY <1>1, <3>2
    <2> QED BY <1>3, <2>4, <2>5, <2>6, <2>7
  <1>10. Table(t)
    BY <1>2, <1>9 DEF Table
  <1>11. ASSUME NEW m \in Nodes \ {pk} PROVE Markets(t, m) = Markets(s, m)
    <2>1. RowsOf(t, m) = RowsOf(s, m)
      BY <1>6, <1>8, <1>11 DEF RowsOf, q
    <2> QED BY <2>1, Zenon DEF Markets
  <1>12. Markets(t, pk) = {new[i].bazaar : i \in DOMAIN new}
    <2>1. RowsOf(t, pk) = ToSet(new)
      BY <1>6, <1>7, <1>8 DEF RowsOf
    <2> QED BY <2>1 DEF Markets, ToSet
  <1> QED BY <1>10, <1>11, <1>12 DEF OthersStay

-----------------------------------------------------------------------------
(* The list: rows, record and count agree. *)

Counted(s) == {m \in Nodes : ErrorMarket \in Markets(s, m)}

NodeSound(s, m) ==
  /\ ErrorMarket \in Markets(s, m) => Markets(s, m) = {ErrorMarket}
  /\ Markets(s, m) # {} => m \in s.recordPk
  /\ m \in s.recordPk => Markets(s, m) # {} \/ m \in s.emptied

ListInv(s) ==
  /\ Table(s)
  /\ s.recordPk \subseteq Nodes
  /\ s.errorCounter = Cardinality(Counted(s))
  /\ s.totalItems \in Nat /\ Len(s.ResultData) <= s.totalItems
  /\ \A m \in Nodes : NodeSound(s, m)

\* One more when a node comes to be in error, one less when it recovers.
CountFollows(s, t, pk) ==
  LET was == ErrorMarket \in Markets(s, pk)
      is == ErrorMarket \in Markets(t, pk)
  IN  /\ is /\ ~was => t.errorCounter = s.errorCounter + 1
      /\ was /\ ~is => t.errorCounter = s.errorCounter - 1
      /\ (was <=> is) => t.errorCounter = s.errorCounter

(* A handler that is about one node, and leaves that one sound and counted. *)
LEMMA HandlerSound ==
  ASSUME NEW s, ListInv(s), NEW t, NEW pk \in Nodes,
         Table(t), OthersStay(s, t, pk), NodeSound(t, pk), CountFollows(s, t, pk),
         t.totalItems \in Nat, Len(t.ResultData) <= t.totalItems,
         t.recordPk \subseteq Nodes, t.recordPk \ {pk} = s.recordPk \ {pk},
         s.emptied \subseteq t.emptied
  PROVE  ListInv(t)
  <1>1. ASSUME NEW m \in Nodes PROVE NodeSound(t, m)
    <2>1. CASE m = pk
      BY <2>1
    <2>2. CASE m # pk
      <3>1. Markets(t, m) = Markets(s, m) /\ (m \in t.recordPk <=> m \in s.recordPk)
        BY <2>2 DEF OthersStay
      <3>2. NodeSound(s, m)
        BY DEF ListInv
      <3> QED BY <3>1, <3>2 DEF NodeSound
    <2> QED BY <2>1, <2>2
  <1>2. t.errorCounter = Cardinality(Counted(t))
    <2>1. IsFiniteSet(Counted(s)) /\ s.errorCounter = Cardinality(Counted(s))
      <3>1. Counted(s) \subseteq Nodes
        BY DEF Counted
      <3> QED BY <3>1, StatusAssumption, FS_Subset DEF ListInv
    <2>2. \A m \in Nodes \ {pk} : m \in Counted(t) <=> m \in Counted(s)
      BY DEF OthersStay, Counted
    <2>3. \A m \in Counted(t) \union Counted(s) : m \in Nodes
      BY DEF Counted
    <2>4. CASE pk \in Counted(t) /\ pk \notin Counted(s)
      <3>1. Counted(t) = Counted(s) \union {pk}
        BY <2>2, <2>3, <2>4
      <3>2. t.errorCounter = s.errorCounter + 1
        BY <2>4 DEF CountFollows, Counted
      <3>3. Cardinality(Counted(s) \union {pk}) = Cardinality(Counted(s)) + 1
        BY <2>1, <2>4, FS_AddElement
      <3> QED BY <2>1, <3>1, <3>2, <3>3, Zenon
    <2>5. CASE pk \notin Counted(t) /\ pk \in Counted(s)
      <3>1. Counted(t) = Counted(s) \ {pk}
        BY <2>2, <2>3, <2>5
      <3>2. t.errorCounter = s.errorCounter - 1
        BY <2>5 DEF CountFollows, Counted
      <3>3. Cardinality(Counted(s) \ {pk}) = Cardinality(Counted(s)) - 1
        BY <2>1, <2>5, FS_RemoveElement
      <3> QED BY <2>1, <3>1, <3>2, <3>3, Zenon
    <2>6. CASE pk \in Counted(t) <=> pk \in Counted(s)
      <3>1. Counted(t) = Counted(s)
        <4>1. \A m \in Nodes : m \in Counted(t) <=> m \in Counted(s)
          BY <2>2, <2>6
        <4> QED BY <2>3, <4>1
      <3>2. t.errorCounter = s.errorCounter
        BY <2>6 DEF CountFollows, Counted
      <3> QED BY <2>1, <3>1, <3>2, Zenon
    <2> QED BY <2>4, <2>5, <2>6
  <1> QED BY <1>1, <1>2 DEF ListInv

(* ComStatusData, for a node without rows. *)
LEMMA Placed ==
  ASSUME NEW s, Table(s), NEW pk \in Nodes, Markets(s, pk) = {},
         NEW markets \in Statuses[pk]
  PROVE  LET t == ComStatusData(s, pk, markets)
         IN  /\ Table(t) /\ OthersStay(s, t, pk) /\ ErrorMarket \notin Markets(t, pk)
             /\ t.errorCounter = s.errorCounter /\ t.emptied = s.emptied
             /\ markets = {} => t = s
             /\ markets # {} => /\ Markets(t, pk) # {}
                                /\ t.recordPk = s.recordPk \union {pk}
                                /\ t.totalItems = Len(t.ResultData)
  <1> DEFINE names == SetToSeq(markets)
             c == Cardinality(markets)
             new == [i \in DOMAIN names |-> Row(pk, names[i])]
             x == s.ResultData \o new
             y == s.recordPk \union {pk}
             u == [s EXCEPT !.ResultData = x, !.recordPk = y]
             t == [u EXCEPT !.totalItems = Len(x)]
  <1>1. CASE markets = {}
    <2>1. ComStatusData(s, pk, markets) = s
      BY <1>1 DEF ComStatusData
    <2>2. OthersStay(s, s, pk) /\ ErrorMarket \notin Markets(s, pk)
      BY DEF OthersStay
    <2> QED BY <1>1, <2>1, <2>2
  <1>2. CASE markets # {}
    <2>1. IsFiniteSet(markets) /\ markets \subseteq Bazaars /\ ErrorMarket \notin markets
      BY StatusAssumption DEF Bazaars
    <2>2. /\ c \in Nat /\ names \in [1..c -> markets] /\ IsInjective(names)
      BY <2>1, NamesOf
    <2>3. c # 0
      BY <1>2, <2>1, FS_EmptySet
    <2> HIDE DEF names, c
    <2>4. \A i \in 1..c : names[i] \in markets /\ names[i] \in Bazaars
      BY <2>1, <2>2
    <2>5. DOMAIN new = 1..c /\ \A i \in 1..c : new[i] = Row(pk, names[i])
      BY <2>2
    <2>6. \A i \in 1..c : new[i] \in Rows /\ new[i].pk = pk /\ new[i].bazaar = names[i]
      BY <2>4, <2>5, RowIs
    <2>7. new \in Seq(Rows)
      <3>1. new = [i \in 1..c |-> new[i]]
        BY <2>2
      <3> HIDE DEF new
      <3> QED BY <2>2, <2>6, <3>1
    <2> HIDE DEF new
    <2>8. IsInjective(new)
      <3> SUFFICES ASSUME NEW i \in 1..c, NEW j \in 1..c, new[i] = new[j] PROVE i = j
        BY <2>5, Zenon DEF IsInjective
      <3>1. names[i] = names[j]
        BY <2>6
      <3> QED BY <2>2, <3>1 DEF IsInjective
    <2> HIDE DEF x, y
    <2>9. /\ DOMAIN u = ListFields /\ u.ResultData = x /\ u.recordPk = y
          /\ u.errorCounter = s.errorCounter /\ u.emptied = s.emptied
      BY DEF Table, ListFields
    <2> HIDE DEF u
    <2>10. /\ DOMAIN t = ListFields /\ t.ResultData = x /\ t.recordPk = y
           /\ t.errorCounter = s.errorCounter /\ t.emptied = s.emptied
           /\ t.totalItems = Len(x)
      BY <2>9 DEF ListFields
    <2>11. ComStatusData(s, pk, markets) = t
      <3>1. ComStatusData(s, pk, markets) = Watched(u)
        BY <1>2, Zenon DEF ComStatusData, u, x, y, new, names
      <3>2. Watched(u) = t
        BY <2>9 DEF Watched
      <3> QED BY <3>1, <3>2
    <2> HIDE DEF t
    <2>12. \A i \in DOMAIN new : new[i].pk = pk
      BY <2>5, <2>6
    <2>13. /\ Table(t) /\ OthersStay(s, t, pk)
           /\ Markets(t, pk) = {new[i].bazaar : i \in DOMAIN new}
      <3>1. t.ResultData = s.ResultData \o new
        BY <2>10 DEF x
      <3> QED BY <2>7, <2>8, <2>10, <2>12, <3>1, RowsCome
    <2>14. Markets(t, pk) # {} /\ ErrorMarket \notin Markets(t, pk)
      <3>1. 1 \in 1..c
        BY <2>2, <2>3
      <3>2. \A i \in 1..c : new[i].bazaar # ErrorMarket
        BY <2>1, <2>4, <2>6
      <3> QED BY <2>5, <2>13, <3>1, <3>2
    <2> QED BY <1>2, <2>10, <2>11, <2>13, <2>14 DEF y
  <1> QED BY <1>1, <1>2

(* A success: ComStatusData, ComSameStatusData, or the error row goes first. *)
LEMMA SucceededSound ==
  ASSUME NEW s, ListInv(s), NEW pk \in Nodes, NEW markets \in Statuses[pk]
  PROVE  ListInv(Succeeded(s, pk, markets))
  <1>0. /\ Table(s) /\ NodeSound(s, pk) /\ s.recordPk \subseteq Nodes /\ DOMAIN s = ListFields
        /\ s.totalItems \in Nat /\ Len(s.ResultData) <= s.totalItems
    BY DEF ListInv, Table
  <1>1. CASE pk \notin s.recordPk
    <2> DEFINE t == ComStatusData(s, pk, markets)
    <2>1. Succeeded(s, pk, markets) = t
      BY <1>1 DEF Succeeded
    <2>2. Markets(s, pk) = {}
      BY <1>0, <1>1 DEF NodeSound
    <2>3. /\ Table(t) /\ OthersStay(s, t, pk) /\ ErrorMarket \notin Markets(t, pk)
          /\ t.errorCounter = s.errorCounter /\ t.emptied = s.emptied
          /\ markets = {} => t = s
          /\ markets # {} => /\ Markets(t, pk) # {}
                             /\ t.recordPk = s.recordPk \union {pk}
                             /\ t.totalItems = Len(t.ResultData)
      BY <1>0, <2>2, Placed
    <2> HIDE DEF t
    <2>4. CASE markets = {}
      BY <2>1, <2>3, <2>4
    <2>5. CASE markets # {}
      <3>1. NodeSound(t, pk) /\ CountFollows(s, t, pk)
        BY <2>2, <2>3, <2>5 DEF NodeSound, CountFollows
      <3>2. t.totalItems \in Nat /\ Len(t.ResultData) <= t.totalItems
        BY <2>3, <2>5 DEF Table
      <3>3. /\ t.recordPk \subseteq Nodes /\ t.recordPk \ {pk} = s.recordPk \ {pk}
            /\ s.emptied \subseteq t.emptied
        BY <1>0, <2>3, <2>5
      <3> QED BY <2>1, <2>3, <3>1, <3>2, <3>3, HandlerSound
    <2> QED BY <2>4, <2>5
  <1>2. CASE pk \in s.recordPk /\ isError(s, pk)
    <2> DEFINE gone == {Row(pk, ErrorMarket)}
               u == Without(s, gone)
               w == ComStatusData(u, pk, markets)
               lost == IF markets = {} THEN w.emptied \union {pk} ELSE w.emptied
               v == [w EXCEPT !.errorCounter = w.errorCounter - 1]
               t == [v EXCEPT !.emptied = lost]
    <2>1. ErrorMarket \in Markets(s, pk) /\ Markets(s, pk) = {ErrorMarket}
      BY <1>0, <1>2 DEF isError, NodeSound
    <2>2. RowsOf(s, pk) = gone
      <3>1. \A row \in RowsOf(s, pk) : row \in Rows /\ row.pk = pk /\ row.bazaar = ErrorMarket
        <4>1. \A row \in RowsOf(s, pk) : row.bazaar \in Markets(s, pk)
          BY DEF Markets
        <4>2. \A row \in ToSet(s.ResultData) : row \in Rows
          BY <1>0 DEF Table, ToSet
        <4> QED BY <2>1, <4>1, <4>2 DEF RowsOf
      <3>2. \A row \in RowsOf(s, pk) : row = Row(pk, ErrorMarket)
        BY <3>1, RowIs, Zenon
      <3>3. RowsOf(s, pk) # {}
        BY <2>1 DEF Markets
      <3> QED BY <3>2, <3>3
    <2>3. /\ Table(u) /\ OthersStay(s, u, pk)
          /\ Len(u.ResultData) <= Len(s.ResultData) /\ u.totalItems = s.totalItems
          /\ u.recordPk = s.recordPk /\ u.errorCounter = s.errorCounter /\ u.emptied = s.emptied
          /\ Markets(u, pk) = {}
      <3>1. {row.bazaar : row \in RowsOf(s, pk) \ gone} = {}
        BY <2>2
      <3> QED BY <1>0, <2>2, <3>1, RowsGo DEF Beside
    <2> HIDE DEF u
    <2>4. /\ Table(w) /\ OthersStay(u, w, pk) /\ ErrorMarket \notin Markets(w, pk)
          /\ w.errorCounter = u.errorCounter /\ w.emptied = u.emptied
          /\ markets = {} => w = u
          /\ markets # {} => /\ Markets(w, pk) # {}
                             /\ w.recordPk = u.recordPk \union {pk}
                             /\ w.totalItems = Len(w.ResultData)
      BY <2>3, Placed
    <2> HIDE DEF w, lost
    <2>5. /\ DOMAIN v = ListFields /\ v.ResultData = w.ResultData /\ v.recordPk = w.recordPk
          /\ v.errorCounter = w.errorCounter - 1 /\ v.totalItems = w.totalItems
      BY <2>4 DEF Table, ListFields
    <2>6. [w EXCEPT !.errorCounter = w.errorCounter - 1, !.emptied = lost] = t
      OBVIOUS
    <2> HIDE DEF v
    <2>7. /\ DOMAIN t = ListFields /\ t.ResultData = w.ResultData /\ t.recordPk = w.recordPk
          /\ t.errorCounter = w.errorCounter - 1 /\ t.totalItems = w.totalItems
          /\ t.emptied = lost
      BY <2>5 DEF ListFields
    <2>8. Succeeded(s, pk, markets) = t
      <3>1. Succeeded(s, pk, markets) = Recovered(s, pk, markets)
        BY <1>2 DEF Succeeded
      <3>2. Recovered(s, pk, markets)
              = [w EXCEPT !.errorCounter = w.errorCounter - 1, !.emptied = lost]
        BY Zenon DEF Recovered, w, u, lost
      <3> QED BY <2>6, <3>1, <3>2, Zenon
    <2> HIDE DEF t
    <2>9. \A m \in Nodes : Markets(t, m) = Markets(w, m)
      BY <2>7, Zenon DEF Markets, RowsOf
    <2>10. Table(t) /\ OthersStay(s, t, pk)
      BY <2>3, <2>4, <2>7, <2>9 DEF Table, OthersStay
    <2>11. NodeSound(t, pk)
      BY <2>3, <2>4, <2>7, <2>9 DEF NodeSound, lost
    <2>12. CountFollows(s, t, pk)
      BY <2>1, <2>3, <2>4, <2>7, <2>9 DEF CountFollows
    <2>13. t.totalItems \in Nat /\ Len(t.ResultData) <= t.totalItems
      <3>1. Len(s.ResultData) \in Nat /\ Len(u.ResultData) \in Nat /\ Len(w.ResultData) \in Nat
        BY <1>0, <2>3, <2>4 DEF Table
      <3>2. CASE markets = {}
        BY <1>0, <2>3, <2>4, <2>7, <3>1, <3>2
      <3>3. CASE markets # {}
        BY <2>4, <2>7, <3>1, <3>3
      <3> QED BY <3>2, <3>3
    <2>14. t.recordPk \subseteq Nodes /\ t.recordPk \ {pk} = s.recordPk \ {pk}
      BY <1>0, <2>3, <2>4, <2>7
    <2>15. s.emptied \subseteq t.emptied
      BY <2>3, <2>4, <2>7 DEF lost
    <2> QED BY <2>8, <2>10, <2>11, <2>12, <2>13, <2>14, <2>15, HandlerSound
  <1>3. CASE pk \in s.recordPk /\ ~isError(s, pk)
    <2>1. Succeeded(s, pk, markets) = s \/ Succeeded(s, pk, markets) = Watched(s)
      BY <1>3 DEF Succeeded, ComSameStatusData
    <2> DEFINE t == Watched(s)
    <2>2. /\ DOMAIN t = ListFields /\ t.ResultData = s.ResultData /\ t.recordPk = s.recordPk
          /\ t.errorCounter = s.errorCounter /\ t.emptied = s.emptied
          /\ t.totalItems = Len(s.ResultData)
      BY <1>0 DEF Watched, ListFields
    <2> HIDE DEF t
    <2>3. \A m \in Nodes : Markets(t, m) = Markets(s, m)
      BY <2>2, Zenon DEF Markets, RowsOf
    <2>4. Table(t) /\ OthersStay(s, t, pk) /\ NodeSound(t, pk) /\ CountFollows(s, t, pk)
      BY <1>0, <2>2, <2>3 DEF Table, OthersStay, NodeSound, CountFollows
    <2>5. t.totalItems \in Nat /\ Len(t.ResultData) <= t.totalItems
      BY <1>0, <2>2 DEF Table
    <2>6. ListInv(t)
      <3>1. /\ t.recordPk \subseteq Nodes /\ t.recordPk \ {pk} = s.recordPk \ {pk}
            /\ s.emptied \subseteq t.emptied
        BY <1>0, <2>2
      <3> QED BY <2>4, <2>5, <3>1, HandlerSound
    <2> QED BY <2>1, <2>6 DEF t
  <1> QED BY <1>1, <1>2, <1>3

(* A failure: an error row for a node that is not recorded, else DeleteGrid. *)
LEMMA RefusedSound ==
  ASSUME NEW s, ListInv(s), NEW pk \in Nodes
  PROVE  ListInv(Refused(s, pk))
  <1>0. /\ Table(s) /\ NodeSound(s, pk) /\ s.recordPk \subseteq Nodes /\ DOMAIN s = ListFields
        /\ s.totalItems \in Nat /\ Len(s.ResultData) <= s.totalItems
        /\ s.ResultData \in Seq(Rows)
    BY DEF ListInv, Table
  <1>1. CASE pk \in s.recordPk
    <2> DEFINE normal == {row \in RowsOf(s, pk) : row.bazaar # ErrorMarket}
               u == Without(s, normal)
               t == [u EXCEPT !.recordPk = u.recordPk \ {pk}]
    <2>1. CASE normal = {}
      <3>1. Refused(s, pk) = s
        BY <1>1, <2>1, Zenon DEF Refused, DeleteGrid
      <3> QED BY <3>1
    <2>2. CASE normal # {}
      <3>1. Refused(s, pk) = t
        BY <1>1, <2>2, Zenon DEF Refused, DeleteGrid
      <3>2. ErrorMarket \notin Markets(s, pk)
        BY <1>0, <2>2 DEF NodeSound, Markets
      <3>3. RowsOf(s, pk) \ normal = {}
        BY <3>2 DEF Markets
      <3>4. normal \subseteq RowsOf(s, pk)
        OBVIOUS
      <3> HIDE DEF normal
      <3>5. /\ Table(u) /\ OthersStay(s, u, pk)
            /\ Len(u.ResultData) <= Len(s.ResultData) /\ u.totalItems = s.totalItems
            /\ u.recordPk = s.recordPk /\ u.errorCounter = s.errorCounter /\ u.emptied = s.emptied
            /\ Markets(u, pk) = {}
        <4>1. {row.bazaar : row \in RowsOf(s, pk) \ normal} = {}
          BY <3>3
        <4>2. /\ Table(u) /\ OthersStay(s, u, pk)
              /\ Len(u.ResultData) <= Len(s.ResultData) /\ u.totalItems = s.totalItems
              /\ Beside(u, s.recordPk, s.errorCounter, s.emptied)
              /\ Markets(u, pk) = {row.bazaar : row \in RowsOf(s, pk) \ normal}
          BY <1>0, <3>4, RowsGo, Zenon
        <4> HIDE DEF u
        <4> QED BY <4>1, <4>2 DEF Beside
      <3> HIDE DEF u
      <3>6. /\ DOMAIN t = ListFields /\ t.ResultData = u.ResultData
            /\ t.recordPk = u.recordPk \ {pk}
            /\ t.errorCounter = u.errorCounter /\ t.emptied = u.emptied
            /\ t.totalItems = u.totalItems
        BY <3>5 DEF Table, ListFields
      <3> HIDE DEF t
      <3>7. \A m \in Nodes : Markets(t, m) = Markets(u, m)
        BY <3>6, Zenon DEF Markets, RowsOf
      <3>8. Table(t) /\ OthersStay(s, t, pk)
        BY <3>5, <3>6, <3>7 DEF Table, OthersStay
      <3>9. NodeSound(t, pk) /\ CountFollows(s, t, pk)
        BY <3>2, <3>5, <3>6, <3>7 DEF NodeSound, CountFollows
      <3>10. t.totalItems \in Nat /\ Len(t.ResultData) <= t.totalItems
        <4>1. Len(s.ResultData) \in Nat /\ Len(u.ResultData) \in Nat
          BY <1>0, <3>5 DEF Table
        <4> QED BY <1>0, <3>5, <3>6, <4>1
      <3>11. /\ t.recordPk \subseteq Nodes /\ t.recordPk \ {pk} = s.recordPk \ {pk}
             /\ s.emptied \subseteq t.emptied
        BY <1>0, <3>5, <3>6
      <3> QED BY <3>1, <3>8, <3>9, <3>10, <3>11, HandlerSound
    <2> QED BY <2>1, <2>2
  <1>2. CASE pk \notin s.recordPk
    <2> DEFINE new == <<Row(pk, ErrorMarket)>>
               x == Append(s.ResultData, Row(pk, ErrorMarket))
               y == s.recordPk \union {pk}
               k == s.errorCounter + 1
               v == [s EXCEPT !.errorCounter = k]
               u == [v EXCEPT !.recordPk = y]
               w == [u EXCEPT !.ResultData = x]
               t == [w EXCEPT !.totalItems = Len(x)]
    <2>1. Row(pk, ErrorMarket) \in Rows /\ Row(pk, ErrorMarket).pk = pk
          /\ Row(pk, ErrorMarket).bazaar = ErrorMarket
      <3>1. ErrorMarket \in Bazaars
        BY DEF Bazaars
      <3> QED BY <3>1, RowIs
    <2>2. /\ new \in Seq(Rows) /\ DOMAIN new = {1} /\ new[1] = Row(pk, ErrorMarket)
          /\ x = s.ResultData \o new
      BY <1>0, <2>1
    <2> HIDE DEF x, y, k, new
    <2>3. DOMAIN v = ListFields /\ v.errorCounter = k /\ v.ResultData = s.ResultData
          /\ v.recordPk = s.recordPk /\ v.emptied = s.emptied
      BY <1>0 DEF ListFields
    <2>4. [s EXCEPT !.errorCounter = k, !.recordPk = y, !.ResultData = x] = w
      OBVIOUS
    <2> HIDE DEF v
    <2>5. DOMAIN u = ListFields /\ u.errorCounter = k /\ u.ResultData = s.ResultData
          /\ u.recordPk = y /\ u.emptied = s.emptied
      BY <2>3 DEF ListFields
    <2> HIDE DEF u
    <2>6. DOMAIN w = ListFields /\ w.errorCounter = k /\ w.ResultData = x
          /\ w.recordPk = y /\ w.emptied = s.emptied
      BY <2>5 DEF ListFields
    <2> HIDE DEF w
    <2>7. DOMAIN t = ListFields /\ t.errorCounter = k /\ t.ResultData = x
          /\ t.recordPk = y /\ t.emptied = s.emptied /\ t.totalItems = Len(x)
      BY <2>6 DEF ListFields
    <2>8. Refused(s, pk) = t
      <3>1. Refused(s, pk) = Watched([s EXCEPT !.errorCounter = k, !.recordPk = y, !.ResultData = x])
        BY <1>2, Zenon DEF Refused, k, y, x
      <3>2. Watched(w) = t
        BY <2>6 DEF Watched
      <3> QED BY <2>4, <3>1, <3>2, Zenon
    <2> HIDE DEF t
    <2>9. Markets(s, pk) = {}
      BY <1>0, <1>2 DEF NodeSound
    <2>10. /\ Table(t) /\ OthersStay(s, t, pk)
           /\ Markets(t, pk) = {new[i].bazaar : i \in DOMAIN new}
      <3>1. IsInjective(new)
        BY <2>2 DEF IsInjective
      <3>2. \A i \in DOMAIN new : new[i].pk = pk
        BY <2>1, <2>2
      <3>3. t.ResultData = s.ResultData \o new
        BY <2>2, <2>7
      <3>4. new \in Seq(Rows) /\ DOMAIN t = ListFields /\ Table(s)
        BY <1>0, <2>2, <2>7
      <3> QED BY <2>9, <3>1, <3>2, <3>3, <3>4, RowsCome
    <2>11. Markets(t, pk) = {ErrorMarket}
      BY <2>1, <2>2, <2>10
    <2>12. NodeSound(t, pk) /\ CountFollows(s, t, pk)
      BY <2>7, <2>9, <2>11 DEF NodeSound, CountFollows, y, k
    <2>13. t.totalItems \in Nat /\ Len(t.ResultData) <= t.totalItems
      BY <2>7, <2>10 DEF Table
    <2>14. /\ t.recordPk \subseteq Nodes /\ t.recordPk \ {pk} = s.recordPk \ {pk}
           /\ s.emptied \subseteq t.emptied
      BY <1>0, <2>7 DEF y
    <2> QED BY <2>8, <2>10, <2>12, <2>13, <2>14, HandlerSound
  <1> QED BY <1>1, <1>2


(* What the list's invariant does not look at: requests, alarm and sound. *)
LEMMA SameRows ==
  ASSUME NEW s, ListInv(s), NEW t, DOMAIN t = DOMAIN s, t.ResultData = s.ResultData,
         t.recordPk = s.recordPk, t.errorCounter = s.errorCounter,
         t.totalItems = s.totalItems, t.emptied = s.emptied
  PROVE  ListInv(t)
  <1>1. \A m \in Nodes : Markets(t, m) = Markets(s, m)
    BY Zenon DEF Markets, RowsOf
  <1>2. Counted(t) = Counted(s)
    BY <1>1 DEF Counted
  <1>3. Table(t)
    BY DEF ListInv, Table
  <1>4. \A m \in Nodes : NodeSound(t, m)
    BY <1>1 DEF ListInv, NodeSound
  <1> QED BY <1>2, <1>3, <1>4 DEF ListInv

(* A page that was just loaded. *)
LEMMA BlankListSound == ListInv(BlankList)
  <1> DEFINE b == BlankList
  <1>1. /\ DOMAIN b = ListFields /\ b.ResultData = <<>> /\ b.recordPk = {}
        /\ b.errorCounter = 0 /\ b.totalItems = 0
    BY DEF BlankList, ListFields
  <1> HIDE DEF b
  <1>2. Len(b.ResultData) = 0 /\ b.ResultData \in Seq(Rows) /\ IsInjective(b.ResultData)
    BY <1>1 DEF IsInjective
  <1>3. \A m \in Nodes : Markets(b, m) = {}
    BY <1>1 DEF Markets, RowsOf, ToSet
  <1>4. Counted(b) = {}
    BY <1>3 DEF Counted
  <1>5. Cardinality(Counted(b)) = 0
    BY <1>4, FS_EmptySet
  <1>6. \A m \in Nodes : NodeSound(b, m)
    BY <1>1, <1>3 DEF NodeSound
  <1>7. ListInv(b)
    BY <1>1, <1>2, <1>5, <1>6 DEF ListInv, Table
  <1> QED BY <1>7 DEF b

(* One such field at a time. *)
LEMMA FieldsBeside ==
  ASSUME NEW s, ListInv(s), NEW v
  PROVE  /\ ListInv([s EXCEPT !.listing = v]) /\ ListInv([s EXCEPT !.calls = v])
         /\ ListInv([s EXCEPT !.playing = v]) /\ ListInv([s EXCEPT !.alarmShow = v])
  <1>0. DOMAIN s = ListFields
    BY DEF ListInv, Table
  <1>1. ListInv([s EXCEPT !.listing = v])
    <2> DEFINE t == [s EXCEPT !.listing = v]
    <2>1. DOMAIN t = DOMAIN s /\ t.ResultData = s.ResultData /\ t.recordPk = s.recordPk
          /\ t.errorCounter = s.errorCounter /\ t.totalItems = s.totalItems /\ t.emptied = s.emptied
      BY <1>0 DEF ListFields
    <2> HIDE DEF t
    <2>2. ListInv(t)
      BY <2>1, SameRows
    <2> QED BY <2>2 DEF t
  <1>2. ListInv([s EXCEPT !.calls = v])
    <2> DEFINE t == [s EXCEPT !.calls = v]
    <2>1. DOMAIN t = DOMAIN s /\ t.ResultData = s.ResultData /\ t.recordPk = s.recordPk
          /\ t.errorCounter = s.errorCounter /\ t.totalItems = s.totalItems /\ t.emptied = s.emptied
      BY <1>0 DEF ListFields
    <2> HIDE DEF t
    <2>2. ListInv(t)
      BY <2>1, SameRows
    <2> QED BY <2>2 DEF t
  <1>3. ListInv([s EXCEPT !.playing = v])
    <2> DEFINE t == [s EXCEPT !.playing = v]
    <2>1. DOMAIN t = DOMAIN s /\ t.ResultData = s.ResultData /\ t.recordPk = s.recordPk
          /\ t.errorCounter = s.errorCounter /\ t.totalItems = s.totalItems /\ t.emptied = s.emptied
      BY <1>0 DEF ListFields
    <2> HIDE DEF t
    <2>2. ListInv(t)
      BY <2>1, SameRows
    <2> QED BY <2>2 DEF t
  <1>4. ListInv([s EXCEPT !.alarmShow = v])
    <2> DEFINE t == [s EXCEPT !.alarmShow = v]
    <2>1. DOMAIN t = DOMAIN s /\ t.ResultData = s.ResultData /\ t.recordPk = s.recordPk
          /\ t.errorCounter = s.errorCounter /\ t.totalItems = s.totalItems /\ t.emptied = s.emptied
      BY <1>0 DEF ListFields
    <2> HIDE DEF t
    <2>2. ListInv(t)
      BY <2>1, SameRows
    <2> QED BY <2>2 DEF t
  <1> QED BY <1>1, <1>2, <1>3, <1>4, Zenon

(* RequestHttp asks, and leaves the rows as they are. *)
LEMMA AskedSound ==
  ASSUME NEW s, ListInv(s)
  PROVE  ListInv(Asked(s))
  <1> DEFINE p == s.errorCounter # 0 /\ s.alarmShow
             c == s.calls (+) SetToBag({Call(pk, Waiting) : pk \in Nodes})
             u == [s EXCEPT !.playing = p]
             t == [u EXCEPT !.calls = c]
  <1>1. Asked(s) = [s EXCEPT !.playing = p, !.calls = c]
    BY Zenon DEF Asked
  <1> HIDE DEF p, c
  <1>2. [s EXCEPT !.playing = p, !.calls = c] = t
    OBVIOUS
  <1>3. ListInv(u)
    BY FieldsBeside
  <1> HIDE DEF u
  <1>4. ListInv(t)
    BY <1>3, FieldsBeside
  <1> HIDE DEF t
  <1> QED BY <1>1, <1>2, <1>4, Zenon

(* Every step of the open list. *)
LEMMA ListStepSound ==
  ASSUME ListInv(list), ListStep
  PROVE  ListInv(list')
  <1>1. CASE ListAnswered
    <2> DEFINE u == [list EXCEPT !.listing = "loaded"]
    <2>1. list' = Asked(u)
      BY <1>1, Zenon DEF ListAnswered
    <2>2. ListInv(u)
      BY FieldsBeside
    <2> HIDE DEF u
    <2>3. ListInv(Asked(u))
      BY <2>2, AskedSound
    <2> QED BY <2>1, <2>3, Zenon
  <1>2. CASE ListRefused
    <2>1. list' = [list EXCEPT !.listing = "dead"]
      BY <1>2, Zenon DEF ListRefused
    <2> QED BY <2>1, FieldsBeside
  <1>3. CASE RequestHttp
    <2>1. list' = Asked(list)
      BY <1>3, Zenon DEF RequestHttp
    <2> QED BY <2>1, AskedSound
  <1>4. ASSUME NEW pk \in Nodes, Answer(pk) PROVE ListInv(list')
    <2> DEFINE c == (list.calls (-) SetToBag({Call(pk, Waiting)})) (+) SetToBag({Call(pk, node[pk])})
    <2>1. list' = [list EXCEPT !.calls = c]
      BY <1>4, Zenon DEF Answer, Replaced
    <2> HIDE DEF c
    <2> QED BY <2>1, FieldsBeside
  <1>5. ASSUME NEW pk \in Nodes, NEW answer \in Statuses[pk] \cup {Failed}, Settle(pk, answer)
        PROVE  ListInv(list')
    <2> DEFINE c == list.calls (-) SetToBag({Call(pk, answer)})
               s == [list EXCEPT !.calls = c]
    <2>1. list' = IF answer = Failed THEN Refused(s, pk) ELSE Succeeded(s, pk, answer)
      BY <1>5, Zenon DEF Settle
    <2> HIDE DEF c
    <2>2. ListInv(s)
      BY FieldsBeside
    <2> HIDE DEF s
    <2>3. CASE answer = Failed
      <3>1. ListInv(Refused(s, pk))
        BY <2>2, RefusedSound
      <3> QED BY <2>1, <2>3, <3>1, Zenon
    <2>4. CASE answer # Failed
      <3>1. answer \in Statuses[pk]
        BY <2>4
      <3>2. ListInv(Succeeded(s, pk, answer))
        BY <2>2, <3>1, SucceededSound
      <3> QED BY <2>1, <2>4, <3>2, Zenon
    <2> QED BY <2>3, <2>4
  <1>6. CASE SwitchAlarm
    <2> DEFINE a == ~list.alarmShow
               p == IF list.alarmShow THEN FALSE ELSE list.playing
               u == [list EXCEPT !.alarmShow = a]
               t == [u EXCEPT !.playing = p]
    <2>1. list' = [list EXCEPT !.alarmShow = a, !.playing = p]
      BY <1>6, Zenon DEF SwitchAlarm
    <2> HIDE DEF a, p
    <2>2. [list EXCEPT !.alarmShow = a, !.playing = p] = t
      OBVIOUS
    <2>3. ListInv(u)
      BY FieldsBeside
    <2> HIDE DEF u
    <2>4. ListInv(t)
      BY <2>3, FieldsBeside
    <2> HIDE DEF t
    <2> QED BY <2>1, <2>2, <2>4, Zenon
  <1> QED BY <1>1, <1>2, <1>3, <1>4, <1>5, <1>6, Zenon DEF ListStep


-----------------------------------------------------------------------------
(* The dashboard: where the points of a chart lie, and whose chart it is. *)

Horizon(i) == IF i < Points THEN i + 1 ELSE i

\* At most one point from every answer, none ahead of the last, and none behind another.
ChartSound(i, xs) ==
  /\ xs \in Seq(Nat) /\ Len(xs) <= i
  /\ \A k \in 1..Len(xs) : xs[k] <= i
  /\ NotDecreasing(xs)

\* Every point has a place of its own, and the next will have one.
ChartComplete(i, xs) ==
  /\ Increasing(xs) /\ Len(xs) >= i - 1
  /\ Len(xs) < Points => \A k \in 1..Len(xs) : xs[k] < i

HostSound(s, h) ==
  ChartSound(s.i, s.statusArray[h].visitors1) /\ ChartSound(s.i, s.statusArray[h].visitors3)

HostComplete(s, h) ==
  /\ h \in DOMAIN s.statusArray
  /\ ChartComplete(s.i, s.statusArray[h].visitors1)
  /\ ChartComplete(s.i, s.statusArray[h].visitors3)
  /\ Len(s.statusArray[h].visitors3) >= s.i

PointsInv(s) ==
  /\ s.i \in 0..Points
  /\ \A h \in DOMAIN s.statusArray : HostSound(s, h) /\ h \in UNION Statuses[s.uri]
  /\ s.i = 0 => DOMAIN s.statusArray = {}
  /\ s.i # 0 => \A h \in (UNION Statuses[s.uri]) \ s.missed : HostComplete(s, h)

\* There are charts only where there is a heading, and theirs, unless they are the first host's.
ChartsInv(s) ==
  /\ s.phase = "config" => s.heading = None
  /\ s.phase \in {"asked", "armed"} => s.heading # None
  /\ s.heading = None => s.online = None /\ ~s.early
  /\ s.online # None => s.online \in DOMAIN s.statusArray
  /\ s.early => s.online \in {s.heading, None, hostName}
  /\ ~s.early => \/ s.heading \in {None, hostName} /\ s.online \in {None, s.heading}
                 \/ s.online = s.heading /\ s.statusArray[s.online].visitors1 # <<>>

DashFields == {"uri", "phase", "i", "statusArray", "heading", "online", "early", "missed"}
DashInv(s) == DOMAIN s = DashFields /\ PointsInv(s) /\ ChartsInv(s)

NodesSound == DOMAIN node = Nodes /\ \A n \in Nodes : node[n] \in Statuses[n] \cup {Failed}

ViewerInv ==
  /\ NodesSound
  /\ ListInv(list)
  /\ DashInv(dash)
  /\ page = "dashboard" => dash.uri \in Nodes

(* A point that is pushed onto a chart; a chart that is full starts over. *)
LEMMA PushedSound ==
  ASSUME NEW i \in 0..Points, NEW xs, ChartSound(i, xs)
  PROVE  /\ ChartSound(Horizon(i), Pushed(xs, i))
         /\ Len(Pushed(xs, i)) >= 1
         /\ Len(Pushed(xs, i)) = IF Len(xs) < Points THEN Len(xs) + 1 ELSE Len(xs)
  <1> DEFINE n == Len(xs)
             ys == Pushed(xs, i)
             j == Horizon(i)
  <1>1. /\ xs \in Seq(Nat) /\ n \in Nat /\ n <= i /\ DOMAIN xs = 1..n
        /\ \A k \in 1..n : xs[k] \in Nat /\ xs[k] <= i
        /\ \A k \in 2..n : xs[k - 1] <= xs[k]
    BY DEF ChartSound, NotDecreasing
  <1>2. /\ i \in Nat /\ i <= Points /\ Points \in Nat /\ Points > 0
        /\ j \in Nat /\ j <= Points /\ i <= j
        /\ (i < Points => j = i + 1) /\ (i = Points => j = i)
    BY DashboardAssumption DEF Horizon
  <1>3. CASE n < Points
    <2>1. /\ ys \in Seq(Nat) /\ Len(ys) = n + 1
          /\ \A k \in 1..n : ys[k] = xs[k]
          /\ ys[n + 1] = i
      BY <1>1, <1>2, <1>3 DEF Pushed
    <2> HIDE DEF ys, j, n
    <2>2. \A k \in 1..(n + 1) : (k \in 1..n /\ ys[k] = xs[k]) \/ (k = n + 1 /\ ys[k] = i)
      BY <1>1, <2>1
    <2>3. \A k \in 1..(n + 1) : ys[k] \in Nat /\ ys[k] <= i /\ ys[k] <= j
      BY <1>1, <1>2, <2>2
    <2>4. n + 1 <= j
      BY <1>1, <1>2, <1>3
    <2>5. \A k \in 2..(n + 1) : ys[k - 1] <= ys[k]
      <3> SUFFICES ASSUME NEW k \in 2..(n + 1) PROVE ys[k - 1] <= ys[k]
        OBVIOUS
      <3>1. k - 1 \in 1..n /\ ys[k - 1] = xs[k - 1]
        BY <1>1, <2>1
      <3>2. CASE k = n + 1
        BY <1>1, <2>1, <3>1, <3>2
      <3>3. CASE k \in 2..n
        BY <1>1, <2>1, <3>1, <3>3
      <3> QED BY <1>1, <3>2, <3>3
    <2>6. ChartSound(j, ys) /\ Len(ys) >= 1
      BY <1>1, <2>1, <2>3, <2>4, <2>5 DEF ChartSound, NotDecreasing
    <2> QED BY <1>3, <2>1, <2>6 DEF ys, j, n
  <1>4. CASE ~(n < Points)
    <2>1. n = Points /\ i = Points /\ j = Points
      <3> HIDE DEF n, j
      <3> QED BY <1>1, <1>2, <1>4
    <2>2. ys = [k \in 1..n |-> k - 1]
      BY <1>1, <1>4 DEF Pushed
    <2>3. \A k \in 1..n : k - 1 \in Nat /\ k - 1 <= j
      BY <1>1, <1>2, <2>1
    <2>4. ys \in Seq(Nat) /\ Len(ys) = n /\ \A k \in 1..n : ys[k] = k - 1
      <3> HIDE DEF n, ys
      <3> QED BY <1>1, <2>2, <2>3
    <2> HIDE DEF ys, j, n
    <2>5. \A k \in 2..n : ys[k - 1] <= ys[k]
      BY <1>1, <2>4
    <2>6. ChartSound(j, ys) /\ Len(ys) >= 1
      BY <1>1, <1>2, <2>1, <2>3, <2>4, <2>5 DEF ChartSound, NotDecreasing
    <2> QED BY <1>4, <2>4, <2>6 DEF ys, j, n
  <1> QED BY <1>3, <1>4

(* The chart of a host that no answer lacked stays complete. *)
LEMMA PushedComplete ==
  ASSUME NEW i \in 0..Points, NEW xs, ChartSound(i, xs), ChartComplete(i, xs)
  PROVE  ChartComplete(Horizon(i), Pushed(xs, i))
  <1> DEFINE n == Len(xs)
             ys == Pushed(xs, i)
             j == Horizon(i)
  <1>1. /\ xs \in Seq(Nat) /\ n \in Nat /\ n <= i /\ DOMAIN xs = 1..n /\ n >= i - 1
        /\ \A k \in 1..n : xs[k] \in Nat
        /\ \A k \in 2..n : xs[k - 1] < xs[k]
        /\ n < Points => \A k \in 1..n : xs[k] < i
    BY DEF ChartSound, ChartComplete, Increasing
  <1>2. /\ i \in Nat /\ i <= Points /\ Points \in Nat /\ Points > 0
        /\ j \in Nat /\ j <= Points /\ (i < Points => j = i + 1) /\ (i = Points => j = i)
    BY DashboardAssumption DEF Horizon
  <1>3. CASE n < Points
    <2>1. /\ ys \in Seq(Nat) /\ Len(ys) = n + 1
          /\ \A k \in 1..n : ys[k] = xs[k]
          /\ ys[n + 1] = i
      BY <1>1, <1>2, <1>3 DEF Pushed
    <2> HIDE DEF ys, j, n
    <2>2. \A k \in 2..(n + 1) : ys[k - 1] < ys[k]
      <3> SUFFICES ASSUME NEW k \in 2..(n + 1) PROVE ys[k - 1] < ys[k]
        OBVIOUS
      <3>1. k - 1 \in 1..n /\ ys[k - 1] = xs[k - 1]
        BY <1>1, <2>1
      <3>2. CASE k = n + 1
        BY <1>1, <1>3, <2>1, <3>1, <3>2
      <3>3. CASE k \in 2..n
        BY <1>1, <2>1, <3>1, <3>3
      <3> QED BY <1>1, <3>2, <3>3
    <2>3. n + 1 >= j - 1
      BY <1>1, <1>2
    <2>4. ASSUME n + 1 < Points PROVE \A k \in 1..(n + 1) : ys[k] < j
      <3>1. i < Points /\ j = i + 1
        BY <1>1, <1>2, <2>4
      <3> SUFFICES ASSUME NEW k \in 1..(n + 1) PROVE ys[k] < j
        OBVIOUS
      <3>2. CASE k = n + 1
        BY <1>2, <2>1, <3>1, <3>2
      <3>3. CASE k \in 1..n
        BY <1>1, <1>2, <1>3, <2>1, <3>1, <3>3
      <3> QED BY <1>1, <3>2, <3>3
    <2>5. ChartComplete(j, ys)
      BY <1>1, <2>1, <2>2, <2>3, <2>4 DEF ChartComplete, Increasing
    <2> QED BY <2>5 DEF ys, j
  <1>4. CASE ~(n < Points)
    <2>1. n = Points /\ i = Points /\ j = Points
      <3> HIDE DEF n, j
      <3> QED BY <1>1, <1>2, <1>4
    <2>2. ys = [k \in 1..n |-> k - 1]
      BY <1>1, <1>4 DEF Pushed
    <2>3. ys \in Seq(Nat) /\ Len(ys) = n /\ \A k \in 1..n : ys[k] = k - 1
      <3>1. \A k \in 1..n : k - 1 \in Nat
        BY <1>1
      <3> HIDE DEF n, ys
      <3> QED BY <1>1, <2>2, <3>1
    <2> HIDE DEF ys, j, n
    <2>4. \A k \in 2..n : ys[k - 1] < ys[k]
      BY <1>1, <2>3
    <2>5. ChartComplete(j, ys)
      BY <1>1, <1>2, <2>1, <2>3, <2>4 DEF ChartComplete, Increasing
    <2> QED BY <2>5 DEF ys, j
  <1> QED BY <1>3, <1>4

(* A chart that does not grow stays where it was. *)
LEMMA KeptSound ==
  ASSUME NEW i \in 0..Points, NEW xs, ChartSound(i, xs)
  PROVE  ChartSound(Horizon(i), xs)
  <1>1. Horizon(i) \in Nat /\ i <= Horizon(i) /\ i \in Nat
    BY DashboardAssumption DEF Horizon
  <1> DEFINE j == Horizon(i)
  <1> HIDE DEF j
  <1>2. j \in Nat /\ i <= j /\ i \in Nat
    BY <1>1 DEF j
  <1>3. xs \in Seq(Nat) /\ Len(xs) \in Nat /\ \A k \in 1..Len(xs) : xs[k] \in Nat
    BY DEF ChartSound
  <1>4. ChartSound(j, xs)
    BY <1>2, <1>3 DEF ChartSound
  <1> QED BY <1>4 DEF j

(* The first points of a host. *)
LEMMA FirstPoints ==
  ASSUME NEW i \in 0..Points
  PROVE  /\ ChartSound(Horizon(i), <<>>) /\ ChartSound(Horizon(i), <<i>>)
         /\ Len(<<>>) = 0 /\ Len(<<i>>) = 1
         /\ i = 0 => ChartComplete(Horizon(i), <<>>) /\ ChartComplete(Horizon(i), <<i>>)
  <1>1. /\ i \in Nat /\ Horizon(i) \in Nat /\ i <= Horizon(i) /\ Horizon(i) >= 1 /\ Points \in Nat
        /\ i = 0 => Horizon(i) = 1
    BY DashboardAssumption DEF Horizon
  <1>2. <<i>> \in Seq(Nat) /\ Len(<<i>>) = 1 /\ <<i>>[1] = i
    BY <1>1
  <1> DEFINE j == Horizon(i)
             xs == <<i>>
             ys == <<>>
  <1>3. ys \in Seq(Nat) /\ Len(ys) = 0
    OBVIOUS
  <1>4. /\ j \in Nat /\ i <= j /\ j >= 1 /\ (i = 0 => j = 1)
        /\ xs \in Seq(Nat) /\ Len(xs) = 1 /\ xs[1] = i
    BY <1>1, <1>2
  <1> HIDE DEF j, xs, ys
  <1>5. ChartSound(j, ys) /\ ChartSound(j, xs)
    BY <1>1, <1>3, <1>4 DEF ChartSound, NotDecreasing
  <1>6. ASSUME i = 0 PROVE ChartComplete(j, ys) /\ ChartComplete(j, xs)
    BY <1>1, <1>3, <1>4, <1>6 DEF ChartComplete, Increasing
  <1> QED BY <1>3, <1>4, <1>5, <1>6 DEF j, xs, ys


(* What the arrays of a host become with an answer that has it. *)
LEMMA GrownArrays ==
  ASSUME NEW s, NEW h
  PROVE  /\ h \notin DOMAIN s.statusArray =>
              Grown(s, h).visitors1 = <<>> /\ Grown(s, h).visitors3 = <<s.i>>
         /\ h \in DOMAIN s.statusArray =>
              /\ Grown(s, h).visitors1 = Pushed(s.statusArray[h].visitors1, s.i)
              /\ Grown(s, h).visitors3 = Pushed(s.statusArray[h].visitors3, s.i)
  <1> DEFINE e == <<>>
             x == <<s.i>>
  <1>1. CASE h \notin DOMAIN s.statusArray
    <2>1. Grown(s, h) = [NewArrays EXCEPT !.visitors3 = x]
      BY <1>1 DEF Grown
    <2>2. NewArrays = [visitors1 |-> e, visitors3 |-> e]
      BY DEF NewArrays
    <2> HIDE DEF e, x
    <2>3. Grown(s, h).visitors1 = e /\ Grown(s, h).visitors3 = x
      BY <2>1, <2>2
    <2> QED BY <1>1, <2>3 DEF e, x
  <1>2. CASE h \in DOMAIN s.statusArray
    <2> DEFINE p == Pushed(s.statusArray[h].visitors1, s.i)
               q == Pushed(s.statusArray[h].visitors3, s.i)
    <2>1. Grown(s, h) = [visitors1 |-> p, visitors3 |-> q]
      BY <1>2 DEF Grown
    <2> HIDE DEF p, q
    <2>2. Grown(s, h).visitors1 = p /\ Grown(s, h).visitors3 = q
      BY <2>1
    <2> QED BY <1>2, <2>2 DEF p, q
  <1> QED BY <1>1, <1>2

Remembers(t, s, hosts) ==
  /\ DOMAIN t = DashFields
  /\ t.uri = s.uri /\ t.phase = s.phase /\ t.heading = s.heading
  /\ t.online = s.online /\ t.early = s.early
  /\ t.i = Horizon(s.i)
  /\ t.missed = s.missed \cup ((UNION Statuses[s.uri]) \ hosts)
  /\ DOMAIN t.statusArray = DOMAIN s.statusArray \cup hosts
  /\ \A h \in hosts : t.statusArray[h] = Grown(s, h)
  /\ \A h \in DOMAIN s.statusArray \ hosts : t.statusArray[h] = s.statusArray[h]

(* What the page remembers of an answer. *)
LEMMA StoredFields ==
  ASSUME NEW s, DOMAIN s = DashFields, NEW hosts
  PROVE  Remembers(Stored(s, hosts), s, hosts)
  <1> DEFINE a == [h \in DOMAIN s.statusArray \cup hosts |->
                     IF h \in hosts THEN Grown(s, h) ELSE s.statusArray[h]]
             j == Horizon(s.i)
             m == s.missed \cup ((UNION Statuses[s.uri]) \ hosts)
             u == [s EXCEPT !.statusArray = a]
             v == [u EXCEPT !.i = j]
             t == [v EXCEPT !.missed = m]
  <1>1. Stored(s, hosts) = [s EXCEPT !.statusArray = a, !.i = j, !.missed = m]
    BY Zenon DEF Stored, Horizon
  <1>2. /\ DOMAIN a = DOMAIN s.statusArray \cup hosts
        /\ \A h \in hosts : a[h] = Grown(s, h)
        /\ \A h \in DOMAIN s.statusArray \ hosts : a[h] = s.statusArray[h]
    OBVIOUS
  <1> HIDE DEF a, j, m
  <1>3. [s EXCEPT !.statusArray = a, !.i = j, !.missed = m] = t
    OBVIOUS
  <1>4. /\ DOMAIN u = DashFields /\ u.uri = s.uri /\ u.phase = s.phase /\ u.heading = s.heading
        /\ u.online = s.online /\ u.early = s.early /\ u.statusArray = a
    BY DEF DashFields
  <1> HIDE DEF u
  <1>5. /\ DOMAIN v = DashFields /\ v.uri = s.uri /\ v.phase = s.phase /\ v.heading = s.heading
        /\ v.online = s.online /\ v.early = s.early /\ v.statusArray = a /\ v.i = j
    BY <1>4 DEF DashFields
  <1> HIDE DEF v
  <1>6. /\ DOMAIN t = DashFields /\ t.uri = s.uri /\ t.phase = s.phase /\ t.heading = s.heading
        /\ t.online = s.online /\ t.early = s.early /\ t.statusArray = a /\ t.i = j /\ t.missed = m
    BY <1>5 DEF DashFields
  <1> HIDE DEF t
  <1>7. Stored(s, hosts) = t
    BY <1>1, <1>3, Zenon
  <1>8. Remembers(t, s, hosts)
    BY <1>2, <1>6, Zenon DEF j, m, Remembers
  <1> QED BY <1>7, <1>8, Zenon

(* An answer puts its points where they belong. *)
LEMMA StoredPoints ==
  ASSUME NEW s, DOMAIN s = DashFields, PointsInv(s), NEW hosts \in Statuses[s.uri]
  PROVE  /\ PointsInv(Stored(s, hosts))
         /\ \A h \in DOMAIN s.statusArray :
              s.statusArray[h].visitors1 # <<>> =>
                Stored(s, hosts).statusArray[h].visitors1 # <<>>
  <1> DEFINE t == Stored(s, hosts)
             i == s.i
             j == Horizon(i)
             all == UNION Statuses[s.uri]
  <1>1. /\ t.uri = s.uri /\ t.i = j
        /\ t.missed = s.missed \cup (all \ hosts)
        /\ DOMAIN t.statusArray = DOMAIN s.statusArray \cup hosts
        /\ \A h \in hosts : t.statusArray[h] = Grown(s, h)
        /\ \A h \in DOMAIN s.statusArray \ hosts : t.statusArray[h] = s.statusArray[h]
    <2>1. Remembers(t, s, hosts)
      BY StoredFields, Zenon
    <2> HIDE DEF t
    <2> QED BY <2>1, Zenon DEF Remembers
  <1>2. /\ i \in 0..Points /\ i \in Nat /\ j \in 0..Points /\ j # 0
        /\ i = 0 => j = 1
        /\ i < Points => j = i + 1
        /\ ~(i < Points) => j = i /\ i = Points
    BY DashboardAssumption DEF PointsInv, Horizon
  <1>3. hosts \subseteq all
    OBVIOUS
  <1> HIDE DEF t
  <1>4. ASSUME NEW h \in DOMAIN t.statusArray PROVE HostSound(t, h) /\ h \in UNION Statuses[t.uri]
    <2> DEFINE v1 == t.statusArray[h].visitors1
               v3 == t.statusArray[h].visitors3
               w1 == s.statusArray[h].visitors1
               w3 == s.statusArray[h].visitors3
    <2>1. h \in all
      BY <1>1, <1>3 DEF PointsInv
    <2>2. h \in DOMAIN s.statusArray => ChartSound(i, w1) /\ ChartSound(i, w3)
      BY DEF PointsInv, HostSound
    <2>3. CASE h \in hosts /\ h \notin DOMAIN s.statusArray
      <3>1. v1 = <<>> /\ v3 = <<i>>
        BY <1>1, <2>3, GrownArrays
      <3>2. ChartSound(j, v1) /\ ChartSound(j, v3)
        BY <1>2, <3>1, FirstPoints
      <3> QED BY <1>1, <2>1, <3>2 DEF HostSound
    <2>4. CASE h \in hosts /\ h \in DOMAIN s.statusArray
      <3>1. v1 = Pushed(w1, i) /\ v3 = Pushed(w3, i)
        BY <1>1, <2>4, GrownArrays
      <3>2. ChartSound(j, v1) /\ ChartSound(j, v3)
        BY <1>2, <2>2, <2>4, <3>1, PushedSound
      <3> QED BY <1>1, <2>1, <3>2 DEF HostSound
    <2>5. CASE h \notin hosts
      <3>1. h \in DOMAIN s.statusArray /\ v1 = w1 /\ v3 = w3
        BY <1>1, <2>5
      <3>2. ChartSound(j, v1) /\ ChartSound(j, v3)
        BY <1>2, <2>2, <3>1, KeptSound
      <3> QED BY <1>1, <2>1, <3>2 DEF HostSound
    <2> QED BY <2>3, <2>4, <2>5
  <1>5. ASSUME NEW h \in (UNION Statuses[t.uri]) \ t.missed PROVE HostComplete(t, h)
    <2> DEFINE v1 == t.statusArray[h].visitors1
               v3 == t.statusArray[h].visitors3
               w1 == s.statusArray[h].visitors1
               w3 == s.statusArray[h].visitors3
    <2>1. h \in all /\ h \in hosts /\ h \notin s.missed /\ h \in DOMAIN t.statusArray
      <3>1. h \in UNION Statuses[t.uri] /\ h \notin t.missed
        OBVIOUS
      <3>2. h \in all
        BY <1>1, <3>1, Zenon
      <3> HIDE DEF all
      <3> QED BY <1>1, <3>1, <3>2
    <2>2. CASE i = 0
      <3>1. h \notin DOMAIN s.statusArray
        BY <2>2 DEF PointsInv
      <3>2. v1 = <<>> /\ v3 = <<i>>
        BY <1>1, <2>1, <3>1, GrownArrays
      <3>3. ChartComplete(j, v1) /\ ChartComplete(j, v3) /\ Len(v3) >= j
        BY <1>2, <2>2, <3>2, FirstPoints
      <3> QED BY <1>1, <2>1, <3>3 DEF HostComplete
    <2>3. CASE i # 0
      <3>1. /\ h \in DOMAIN s.statusArray
            /\ ChartComplete(i, w1) /\ ChartComplete(i, w3) /\ Len(w3) >= i
        <4>1. HostComplete(s, h)
          <5>1. h \in (UNION Statuses[s.uri]) \ s.missed
            BY <2>1, Zenon
          <5> QED BY <2>3, <5>1, Zenon DEF PointsInv
        <4> QED BY <4>1, Zenon DEF HostComplete
      <3>2. ChartSound(i, w1) /\ ChartSound(i, w3)
        BY <3>1 DEF PointsInv, HostSound
      <3>3. v1 = Pushed(w1, i) /\ v3 = Pushed(w3, i)
        BY <1>1, <2>1, <3>1, GrownArrays
      <3>4. ChartComplete(j, v1) /\ ChartComplete(j, v3)
        BY <1>2, <3>1, <3>2, <3>3, PushedComplete
      <3>5. Len(v3) = IF Len(w3) < Points THEN Len(w3) + 1 ELSE Len(w3)
        BY <1>2, <3>2, <3>3, PushedSound
      <3>6. Len(w3) \in Nat
        BY <3>2 DEF ChartSound
      <3> DEFINE n == Len(w3)
      <3> HIDE DEF n, j, i
      <3>7. Len(v3) >= j
        BY <1>2, <3>1, <3>5, <3>6, DashboardAssumption DEF n
      <3> QED BY <1>1, <2>1, <3>4, <3>7 DEF HostComplete
    <2> QED BY <2>2, <2>3
  <1>6. ASSUME NEW h \in DOMAIN s.statusArray, s.statusArray[h].visitors1 # <<>>
        PROVE  t.statusArray[h].visitors1 # <<>>
    <2> DEFINE w1 == s.statusArray[h].visitors1
    <2>1. CASE h \in hosts
      <3>1. t.statusArray[h].visitors1 = Pushed(w1, i)
        BY <1>1, <2>1, GrownArrays
      <3>2. ChartSound(i, w1)
        BY DEF PointsInv, HostSound
      <3>3. Len(Pushed(w1, i)) >= 1
        BY <1>2, <3>2, PushedSound
      <3>4. Len(<<>>) = 0
        OBVIOUS
      <3> QED BY <3>1, <3>3, <3>4
    <2>2. CASE h \notin hosts
      BY <1>1, <1>6, <2>2
    <2> QED BY <2>1, <2>2
  <1>7. PointsInv(t)
    BY <1>1, <1>2, <1>4, <1>5 DEF PointsInv
  <1> QED BY <1>6, <1>7 DEF t


(* Where the points lie does not depend on the phase or on the choice of a host. *)
LEMMA SamePoints ==
  ASSUME NEW s, PointsInv(s), NEW t, t.i = s.i, t.uri = s.uri,
         t.statusArray = s.statusArray, t.missed = s.missed
  PROVE  PointsInv(t)
  BY Zenon DEF PointsInv, HostSound, HostComplete

(* An answer: points, then the first host's charts where there were none. *)
LEMMA AnsweredSound ==
  ASSUME NEW s, DashInv(s), s.phase = "asked", NEW hosts \in Statuses[s.uri]
  PROVE  LET d == Defaulted(Stored(s, hosts))
             r == [d EXCEPT !.phase = IF d.online = None THEN "stopped" ELSE "armed"]
         IN  DashInv(r) /\ r.uri = s.uri
  <1> DEFINE t == Stored(s, hosts)
             o == IF hostName \in DOMAIN t.statusArray THEN hostName ELSE None
             d == Defaulted(t)
             p == IF d.online = None THEN "stopped" ELSE "armed"
             r == [d EXCEPT !.phase = p]
  <1>1. DOMAIN s = DashFields /\ PointsInv(s) /\ ChartsInv(s)
    BY DEF DashInv
  <1>2. Remembers(t, s, hosts)
    BY <1>1, StoredFields, Zenon
  <1>3. /\ PointsInv(t)
        /\ \A h \in DOMAIN s.statusArray :
             s.statusArray[h].visitors1 # <<>> => t.statusArray[h].visitors1 # <<>>
    BY <1>1, StoredPoints, Zenon
  <1> HIDE DEF t
  <1>4. /\ DOMAIN t = DashFields /\ t.uri = s.uri /\ t.heading = s.heading
        /\ t.online = s.online /\ t.early = s.early
        /\ DOMAIN t.statusArray = DOMAIN s.statusArray \cup hosts
    BY <1>2 DEF Remembers
  <1>5. hostName # None
    BY DashboardAssumption DEF Hosts, hostName
  <1>6. /\ DOMAIN d = DashFields /\ d.uri = s.uri /\ d.heading = s.heading /\ d.early = s.early
        /\ d.i = t.i /\ d.statusArray = t.statusArray /\ d.missed = t.missed
        /\ NothingToShow(t) => d.online = o
        /\ ~NothingToShow(t) => d.online = s.online
    <2>1. CASE NothingToShow(t)
      <3>1. d = [t EXCEPT !.online = o]
        BY <2>1, Zenon DEF Defaulted
      <3> HIDE DEF d, o
      <3> QED BY <1>4, <2>1, <3>1 DEF DashFields
    <2>2. CASE ~NothingToShow(t)
      <3>1. d = t
        BY <2>2, Zenon DEF Defaulted
      <3> HIDE DEF d
      <3> QED BY <1>4, <2>2, <3>1, Zenon
    <2> QED BY <2>1, <2>2
  <1> HIDE DEF d
  <1>7. p \in {"stopped", "armed"}
    OBVIOUS
  <1> HIDE DEF p
  <1>8. /\ DOMAIN r = DashFields /\ r.uri = s.uri /\ r.heading = s.heading /\ r.early = s.early
        /\ r.i = t.i /\ r.statusArray = t.statusArray /\ r.missed = t.missed
        /\ r.online = d.online /\ r.phase = p
    BY <1>6 DEF DashFields
  <1> HIDE DEF r
  <1>9. PointsInv(r)
    BY <1>3, <1>4, <1>8, SamePoints
  <1>10. r.heading # None /\ r.phase \notin {"config", "asked"}
    BY <1>1, <1>7, <1>8 DEF ChartsInv
  <1>11. r.online # None => r.online \in DOMAIN r.statusArray
    <2>1. CASE NothingToShow(t)
      BY <1>6, <1>8, <2>1 DEF o
    <2>2. CASE ~NothingToShow(t)
      BY <1>1, <1>4, <1>6, <1>8, <2>2 DEF ChartsInv
    <2> QED BY <2>1, <2>2
  <1>12. CASE s.early
    <2>1. s.online \in {s.heading, None, hostName}
      BY <1>1, <1>12, Zenon DEF ChartsInv
    <2>2. o \in {None, hostName}
      BY DEF o
    <2>3. r.online \in {r.heading, None, hostName}
      BY <1>6, <1>8, <2>1, <2>2
    <2>4. r.early
      BY <1>8, <1>12, Zenon
    <2>5. ChartsInv(r)
      BY <1>10, <1>11, <2>3, <2>4, Zenon DEF ChartsInv
    <2> QED BY <1>8, <1>9, <2>5 DEF DashInv, r, p, d, t
  <1>13. CASE ~s.early
    <2>1. ~r.early
      BY <1>8, <1>13, Zenon
    <2>2. \/ s.heading = hostName /\ s.online \in {None, s.heading}
          \/ s.online = s.heading /\ s.statusArray[s.online].visitors1 # <<>>
      <3>1. s.heading # None
        BY <1>8, <1>10
      <3>2. \/ s.heading \in {None, hostName} /\ s.online \in {None, s.heading}
            \/ s.online = s.heading /\ s.statusArray[s.online].visitors1 # <<>>
        BY <1>1, <1>13, Zenon DEF ChartsInv
      <3> QED BY <3>1, <3>2
    <2>3. CASE s.heading = hostName /\ s.online \in {None, s.heading}
      <3>1. r.heading \in {None, hostName} /\ r.online \in {None, r.heading}
        BY <1>6, <1>8, <2>3 DEF o
      <3>2. ChartsInv(r)
        BY <1>10, <1>11, <2>1, <3>1, Zenon DEF ChartsInv
      <3> QED BY <1>8, <1>9, <3>2 DEF DashInv, r, p, d, t
    <2>4. CASE s.online = s.heading /\ s.statusArray[s.online].visitors1 # <<>>
      <3>1. s.online # None /\ s.online \in DOMAIN s.statusArray
        BY <1>1, <1>8, <1>10, <2>4 DEF ChartsInv
      <3>2. t.statusArray[s.online].visitors1 # <<>>
        BY <1>3, <2>4, <3>1
      <3>3. ~NothingToShow(t)
        BY <1>4, <3>1, <3>2 DEF NothingToShow
      <3>4. r.online = r.heading /\ r.statusArray[r.online].visitors1 # <<>>
        BY <1>6, <1>8, <2>4, <3>2, <3>3
      <3>5. ChartsInv(r)
        BY <1>10, <1>11, <2>1, <3>4, Zenon DEF ChartsInv
      <3> QED BY <1>8, <1>9, <3>5 DEF DashInv, r, p, d, t
    <2> QED BY <2>2, <2>3, <2>4
  <1> QED BY <1>12, <1>13


(* A page that was just loaded. *)
LEMMA BlankDashSound ==
  ASSUME NEW n
  PROVE  DashInv(BlankDash(n)) /\ BlankDash(n).uri = n
  <1> DEFINE b == BlankDash(n)
             none == [h \in {} |-> <<>>]
  <1>1. DOMAIN none = {}
    OBVIOUS
  <1>2. b = [uri |-> n, phase |-> "config", i |-> 0, statusArray |-> none, heading |-> None,
             online |-> None, early |-> FALSE, missed |-> {}]
    BY Zenon DEF BlankDash
  <1> HIDE DEF b, none
  <1>3. /\ DOMAIN b = DashFields /\ b.uri = n /\ b.phase = "config" /\ b.i = 0
        /\ b.statusArray = none /\ b.heading = None /\ b.online = None /\ ~b.early
    BY <1>2 DEF DashFields
  <1>4. PointsInv(b)
    BY <1>1, <1>3, DashboardAssumption DEF PointsInv
  <1>5. ChartsInv(b)
    BY <1>3 DEF ChartsInv
  <1> QED BY <1>3, <1>4, <1>5 DEF DashInv, b

(* The phase moves on between answers. *)
LEMMA PhaseSound ==
  ASSUME NEW s, DashInv(s), NEW p,
         p = "config" => s.heading = None, p \in {"asked", "armed"} => s.heading # None
  PROVE  LET t == [s EXCEPT !.phase = p] IN DashInv(t) /\ t.uri = s.uri
  <1> DEFINE t == [s EXCEPT !.phase = p]
  <1>1. DOMAIN s = DashFields /\ PointsInv(s) /\ ChartsInv(s)
    BY DEF DashInv
  <1>2. /\ DOMAIN t = DashFields /\ t.uri = s.uri /\ t.heading = s.heading /\ t.early = s.early
        /\ t.i = s.i /\ t.statusArray = s.statusArray /\ t.missed = s.missed
        /\ t.online = s.online /\ t.phase = p
    BY <1>1 DEF DashFields
  <1> HIDE DEF t
  <1>3. PointsInv(t)
    BY <1>1, <1>2, SamePoints
  <1>4. ChartsInv(t)
    BY <1>1, <1>2 DEF ChartsInv
  <1> QED BY <1>2, <1>3, <1>4 DEF DashInv, t

(* A choice from the menu. *)
LEMMA ClickSound ==
  ASSUME DashInv(dash), NEW h \in Hosts, Click(h)
  PROVE  DashInv(dash') /\ dash'.uri = dash.uri
  <1> DEFINE o == ArraysOf(h)
             e == h \notin DOMAIN dash.statusArray \/ dash.statusArray[h].visitors1 = <<>>
             u == [dash EXCEPT !.heading = h]
             v == [u EXCEPT !.online = o]
             t == [v EXCEPT !.early = e]
  <1>1. DOMAIN dash = DashFields /\ PointsInv(dash) /\ ChartsInv(dash) /\ dash.heading # None
    BY DEF DashInv, Click
  <1>2. dash' = [dash EXCEPT !.heading = h, !.online = o, !.early = e]
    BY Zenon DEF Click
  <1>3. h # None
    BY DashboardAssumption
  <1>4. o = IF h \in DOMAIN dash.statusArray THEN h ELSE None
    BY DEF ArraysOf
  <1>5. e <=> (h \notin DOMAIN dash.statusArray \/ dash.statusArray[h].visitors1 = <<>>)
    OBVIOUS
  <1> HIDE DEF o, e
  <1>6. [dash EXCEPT !.heading = h, !.online = o, !.early = e] = t
    OBVIOUS
  <1>7. /\ DOMAIN u = DashFields /\ u.uri = dash.uri /\ u.phase = dash.phase /\ u.i = dash.i
        /\ u.statusArray = dash.statusArray /\ u.missed = dash.missed /\ u.heading = h
    BY <1>1 DEF DashFields
  <1> HIDE DEF u
  <1>8. /\ DOMAIN v = DashFields /\ v.uri = dash.uri /\ v.phase = dash.phase /\ v.i = dash.i
        /\ v.statusArray = dash.statusArray /\ v.missed = dash.missed /\ v.heading = h
        /\ v.online = o
    BY <1>7 DEF DashFields
  <1> HIDE DEF v
  <1>9. /\ DOMAIN t = DashFields /\ t.uri = dash.uri /\ t.phase = dash.phase /\ t.i = dash.i
        /\ t.statusArray = dash.statusArray /\ t.missed = dash.missed /\ t.heading = h
        /\ t.online = o
    BY <1>8 DEF DashFields
  <1>10. t.early = e
    BY <1>8, Zenon DEF DashFields
  <1> HIDE DEF t
  <1>11. PointsInv(t)
    BY <1>1, <1>9, SamePoints
  <1>12. t.phase # "config" /\ t.heading # None
    BY <1>1, <1>3, <1>9 DEF ChartsInv
  <1>13. t.online # None => t.online \in DOMAIN t.statusArray
    BY <1>4, <1>9
  <1>14. CASE e
    <2>1. t.online \in {t.heading, None, hostName}
      BY <1>4, <1>9
    <2>2. ChartsInv(t)
      BY <1>10, <1>12, <1>13, <1>14, <2>1, Zenon DEF ChartsInv
    <2> QED BY <1>2, <1>6, <1>9, <1>11, <2>2 DEF DashInv
  <1>15. CASE ~e
    <2>1. t.online = t.heading /\ t.statusArray[t.online].visitors1 # <<>>
      BY <1>4, <1>5, <1>9, <1>15
    <2>2. ChartsInv(t)
      BY <1>10, <1>12, <1>13, <1>15, <2>1, Zenon DEF ChartsInv
    <2> QED BY <1>2, <1>6, <1>9, <1>11, <2>2 DEF DashInv
  <1> QED BY <1>14, <1>15

(* Every step of the open dashboard. *)
LEMMA DashStepSound ==
  ASSUME DashInv(dash), dash.uri \in Nodes, NodesSound, DashStep
  PROVE  DashInv(dash') /\ dash'.uri = dash.uri
  <1>0. ChartsInv(dash) /\ DOMAIN dash = DashFields /\ PointsInv(dash)
    BY DEF DashInv
  <1>1. CASE ConfigAnswered
    <2>1. CASE node[dash.uri] = Failed
      <3>1. dash' = [dash EXCEPT !.phase = "stopped"]
        BY <1>1, <2>1, Zenon DEF ConfigAnswered
      <3> QED BY <3>1, PhaseSound
    <2>2. CASE node[dash.uri] # Failed
      <3> DEFINE u == [dash EXCEPT !.phase = "asked"]
                 t == [u EXCEPT !.heading = hostName]
      <3>1. dash' = [dash EXCEPT !.phase = "asked", !.heading = hostName]
        BY <1>1, <2>2, Zenon DEF ConfigAnswered
      <3>2. [dash EXCEPT !.phase = "asked", !.heading = hostName] = t
        OBVIOUS
      <3>3. hostName # None
        BY DashboardAssumption DEF Hosts, hostName
      <3>4. dash.phase = "config" /\ dash.heading = None /\ dash.online = None /\ ~dash.early
        BY <1>0, <1>1 DEF ConfigAnswered, ChartsInv
      <3>5. /\ DOMAIN u = DashFields /\ u.uri = dash.uri /\ u.early = dash.early
            /\ u.i = dash.i /\ u.statusArray = dash.statusArray /\ u.missed = dash.missed
            /\ u.online = dash.online /\ u.phase = "asked"
        BY <1>0 DEF DashFields
      <3> HIDE DEF u
      <3>6. /\ DOMAIN t = DashFields /\ t.uri = dash.uri /\ t.early = dash.early
            /\ t.i = dash.i /\ t.statusArray = dash.statusArray /\ t.missed = dash.missed
            /\ t.online = dash.online /\ t.phase = "asked" /\ t.heading = hostName
        BY <3>5 DEF DashFields
      <3> HIDE DEF t
      <3>7. PointsInv(t)
        BY <1>0, <3>6, SamePoints
      <3>8. ChartsInv(t)
        BY <3>3, <3>4, <3>6 DEF ChartsInv
      <3> QED BY <3>1, <3>2, <3>6, <3>7, <3>8 DEF DashInv
    <2> QED BY <2>1, <2>2
  <1>2. CASE StatusRefused
    <2>1. dash' = [dash EXCEPT !.phase = "stopped"]
      BY <1>2, Zenon DEF StatusRefused
    <2> QED BY <2>1, PhaseSound
  <1>3. CASE StatusAnswered
    <2> DEFINE d == Defaulted(Stored(dash, node[dash.uri]))
               r == [d EXCEPT !.phase = IF d.online = None THEN "stopped" ELSE "armed"]
    <2>1. dash.phase = "asked" /\ dash' = r
      BY <1>3, Zenon DEF StatusAnswered
    <2>2. node[dash.uri] \in Statuses[dash.uri]
      BY <1>3 DEF StatusAnswered, NodesSound
    <2>3. DashInv(r) /\ r.uri = dash.uri
      BY <2>1, <2>2, AnsweredSound, Zenon
    <2> HIDE DEF r
    <2> QED BY <2>1, <2>3, Zenon
  <1>4. CASE Update
    <2>1. dash.phase = "armed" /\ dash' = [dash EXCEPT !.phase = "asked"]
      BY <1>4, Zenon DEF Update
    <2>2. dash.heading # None
      BY <1>0, <2>1 DEF ChartsInv
    <2> QED BY <2>1, <2>2, PhaseSound
  <1>5. ASSUME NEW h \in Hosts, Click(h) PROVE DashInv(dash') /\ dash'.uri = dash.uri
    BY <1>5, ClickSound
  <1> QED BY <1>1, <1>2, <1>3, <1>4, <1>5, Zenon DEF DashStep


-----------------------------------------------------------------------------
(* The viewer. *)

(* The first page, before a node was asked. *)
LEMMA ViewerInit ==
  ASSUME Init
  PROVE  ViewerInv
  <1>1. NodesSound
    BY DEF Init, NodesInit, NodesSound
  <1>2. ListInv(list) /\ DashInv(dash)
    BY BlankListSound, BlankDashSound DEF Init
  <1> QED BY <1>1, <1>2 DEF Init, ViewerInv

(* A page that is loaded starts over. *)
LEMMA LoadSound ==
  ASSUME ViewerInv, NEW p, NEW n, Load(p, n), p = "dashboard" => n \in Nodes
  PROVE  ViewerInv'
  <1>1. ListInv(list') /\ DashInv(dash') /\ dash'.uri = n
    BY BlankListSound, BlankDashSound, Zenon DEF Load
  <1>2. page' = "dashboard" => p = "dashboard"
    BY DEF Load
  <1>3. NodesSound'
    BY DEF Load, ViewerInv, NodesSound
  <1> QED BY <1>1, <1>2, <1>3 DEF ViewerInv

(* Every step of the viewer, its service and the nodes. *)
LEMMA ViewerNext ==
  ASSUME ViewerInv, [Next]_vars
  PROVE  ViewerInv'
  <1>0. NodesSound /\ ListInv(list) /\ DashInv(dash) /\ (page = "dashboard" => dash.uri \in Nodes)
    BY DEF ViewerInv
  <1>1. CASE Bind
    BY <1>0, <1>1, Zenon DEF Bind, ViewerInv, NodesSound
  <1>2. CASE BindFails
    BY <1>0, <1>2, Zenon DEF BindFails, ViewerInv, NodesSound
  <1>3. CASE PollEnds
    BY <1>0, <1>3, Zenon DEF PollEnds, ViewerInv, NodesSound
  <1>4. CASE OnContextInitialized
    BY <1>4, LoadSound DEF OnContextInitialized
  <1>5. ASSUME NEW n \in Nodes, Follow(n) PROVE ViewerInv'
    BY <1>5, LoadSound DEF Follow
  <1>6. CASE Back
    BY <1>6, LoadSound DEF Back
  <1>7. CASE Reload
    <2>1. CASE Load("list", ANode)
      BY <2>1, LoadSound
    <2>2. CASE page = "dashboard" /\ Load("dashboard", dash.uri)
      BY <1>0, <2>2, LoadSound
    <2> QED BY <1>7, <2>1, <2>2 DEF Reload
  <1>8. CASE Close
    <2>1. ListInv(list') /\ DashInv(dash') /\ page' # "dashboard"
      BY <1>8, BlankListSound, BlankDashSound DEF Close
    <2>2. NodesSound'
      BY <1>0, <1>8 DEF Close, NodesSound
    <2> QED BY <2>1, <2>2 DEF ViewerInv
  <1>9. CASE Exit
    <2>1. page' # "dashboard"
      BY <1>9 DEF Exit
    <2> QED BY <1>0, <1>9, <2>1, Zenon DEF Exit, ViewerInv, NodesSound
  <1>10. CASE NodeStep
    <2>1. UNCHANGED <<list, dash, service, stopping, page>>
      BY <1>10, Zenon DEF NodeStep
    <2>2. PICK n \in Nodes : NodeChanges(n)
      BY <1>10, Zenon DEF NodeStep
    <2>3. PICK status \in Statuses[n] \cup {Failed} : node' = [node EXCEPT ![n] = status]
      BY <2>2 DEF NodeChanges
    <2>4. NodesSound'
      BY <1>0, <2>3 DEF NodesSound
    <2> QED BY <1>0, <2>1, <2>4, Zenon DEF ViewerInv
  <1>11. CASE InList(ListStep)
    <2>1. ListInv(list')
      BY <1>0, <1>11, ListStepSound DEF InList
    <2>2. UNCHANGED <<node, dash, page>>
      BY <1>11 DEF InList
    <2> QED BY <1>0, <2>1, <2>2, Zenon DEF ViewerInv, NodesSound
  <1>12. CASE InDashboard(DashStep)
    <2>1. page = "dashboard" /\ DashStep /\ UNCHANGED <<node, list, page>>
      BY <1>12 DEF InDashboard
    <2>2. DashInv(dash') /\ dash'.uri = dash.uri
      BY <1>0, <2>1, DashStepSound
    <2> QED BY <1>0, <2>1, <2>2, Zenon DEF ViewerInv, NodesSound
  <1>13. CASE UNCHANGED vars
    BY <1>0, <1>13, Zenon DEF vars, ViewerInv, NodesSound
  <1> QED BY <1>1, <1>2, <1>3, <1>4, <1>5, <1>6, <1>7, <1>8, <1>9, <1>10, <1>11, <1>12, <1>13,
             Zenon DEF Next

(* The viewer's state is sound, whatever is clicked and whenever an answer comes. *)
THEOREM ViewerAlwaysSound == Spec => []ViewerInv
  <1>1. Init => ViewerInv
    BY ViewerInit
  <1>2. ViewerInv /\ [Next]_vars => ViewerInv'
    BY ViewerNext
  <1> QED BY <1>1, <1>2, PTL DEF Spec

(***************************************************************************)
(* comStatusData, comSameStatusData, isError, DeleteGrid: the rows are     *)
(* those of the nodes on record, each once and on some page, an error row  *)
(* stands alone, and errorCounter counts the nodes that have one.          *)
(***************************************************************************)
THEOREM RowsAlwaysKnown == Spec => []RowsKnown
  <1>1. ViewerInv => RowsKnown
    <2> SUFFICES ASSUME ViewerInv PROVE RowsKnown
      OBVIOUS
    <2>1. ListInv(list)
      BY DEF ViewerInv
    <2>2. list.errorCounter = Cardinality({pk \in Nodes : ErrorMarket \in Markets(list, pk)})
      BY <2>1, Zenon DEF ListInv, Counted
    <2> QED BY <2>1, <2>2 DEF ListInv, Table, NodeSound, RowsKnown
  <1> QED BY <1>1, ViewerAlwaysSound, PTL

(***************************************************************************)
(* update and XControl: the points of a chart never go back, and those of  *)
(* a host that no answer lacked have a place each.                         *)
(***************************************************************************)
THEOREM PointsAlwaysInOrder == Spec => []PointsInOrder
  <1>1. ViewerInv => PointsInOrder
    <2> SUFFICES ASSUME ViewerInv, NEW h \in DOMAIN dash.statusArray,
                        NEW xs \in {dash.statusArray[h].visitors1, dash.statusArray[h].visitors3}
                 PROVE  /\ Len(xs) <= Points /\ NotDecreasing(xs)
                        /\ h \notin dash.missed => Increasing(xs)
      BY DEF PointsInOrder
    <2>1. PointsInv(dash)
      BY DEF ViewerInv, DashInv
    <2>2. /\ dash.i \in 0..Points /\ dash.i # 0 /\ Points \in Nat
          /\ ChartSound(dash.i, xs) /\ h \in UNION Statuses[dash.uri]
      BY <2>1, DashboardAssumption DEF PointsInv, HostSound
    <2>3. Len(xs) <= Points /\ NotDecreasing(xs)
      <3>1. Len(xs) \in Nat /\ Len(xs) <= dash.i
        BY <2>2 DEF ChartSound
      <3> QED BY <2>2, <3>1 DEF ChartSound
    <2>4. ASSUME h \notin dash.missed PROVE Increasing(xs)
      <3>1. h \in (UNION Statuses[dash.uri]) \ dash.missed
        BY <2>2, <2>4, Zenon
      <3>2. HostComplete(dash, h)
        BY <2>1, <2>2, <3>1, Zenon DEF PointsInv
      <3> QED BY <3>2 DEF HostComplete, ChartComplete
    <2> QED BY <2>3, <2>4
  <1> QED BY <1>1, ViewerAlwaysSound, PTL

(***************************************************************************)
(* clickFunction, initChartArray and update: the charts are those of the   *)
(* host in the page bar, or of none; only a host that was chosen before it *)
(* had a speed keeps its name above the first one's.                       *)
(***************************************************************************)
THEOREM ChartsAlwaysUnderTheirName == Spec => []ChartsUnderTheirName
  <1>1. ViewerInv => ChartsUnderTheirName
    <2> SUFFICES ASSUME ViewerInv PROVE ChartsUnderTheirName
      OBVIOUS
    <2>1. ChartsInv(dash)
      BY DEF ViewerInv, DashInv
    <2>2. CASE dash.early
      BY <2>1, <2>2 DEF ChartsInv, ChartsUnderTheirName
    <2>3. CASE ~dash.early
      BY <2>1, <2>3 DEF ChartsInv, ChartsUnderTheirName
    <2> QED BY <2>2, <2>3
  <1> QED BY <1>1, ViewerAlwaysSound, PTL
=============================================================================
