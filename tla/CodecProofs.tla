----------------------------- MODULE CodecProofs -----------------------------
(***************************************************************************)
(* Theorems about what cuts and packs data.  The compressor: as long as no *)
(* record of an entry is lost, both contexts agree on it and messages come *)
(* out as they went in.  The exchange's decoder: whatever the pieces in    *)
(* which a stream is read, it hands over the messages that are complete.   *)
(* The integers of the wire: what is written as a varint is read back.     *)
(***************************************************************************)
EXTENDS Compressor, SzBinaryDecoder, WireFormat,
        FiniteSetTheorems, WellFoundedInduction, SequenceTheorems, TLAPS

(* A set of natural numbers that is not empty has a least element. *)
LEMMA LeastElement ==
  ASSUME NEW T \in SUBSET Nat, T # {}
  PROVE  \E x \in T : \A y \in T : x <= y
  <1> DEFINE R == {ss \in Nat \X Nat : ss[1] < ss[2]}
  <1>1. IsWellFoundedOn(R, Nat)
    BY NatLessThanWellFounded, Zenon DEF OpToRel
  <1>2. T \subseteq Nat /\ T # {}
    OBVIOUS
  <1>3. PICK x \in T : \A y \in T : ~ (<<y, x>> \in R)
    <2> HIDE DEF R
    <2> QED BY <1>1, <1>2, WFMin
  <1>4. \A y \in T : ~(y < x)
    BY <1>2, <1>3
  <1> QED BY <1>2, <1>3, <1>4

-----------------------------------------------------------------------------
(* Folds from the left, for steps that are functions. *)

\* g folds step over each set of 1..n, the greatest member last.
Folds(g, S, step, base, n) ==
  /\ g \in [SUBSET (1..n) -> S]
  /\ \A t \in SUBSET (1..n) :
       g[t] = IF t = {} THEN base ELSE step[<<g[t \ {Max(t)}], Max(t)>>]

(* The greatest of the numbers up to n, and of a set that has n. *)
LEMMA MaxIs ==
  ASSUME NEW n \in Nat \ {0}, NEW t \in SUBSET (1..n), n \in t
  PROVE  Max(t) = n
  <1>1. n \in t /\ \A y \in t : n >= y
    OBVIOUS
  <1>2. \A x \in t : (\A y \in t : x >= y) => x = n
    BY <1>1
  <1> QED BY <1>1, <1>2 DEF Max

(* A step that stays in S can be folded over any number of turns. *)
LEMMA FoldsExist ==
  ASSUME NEW S, NEW n \in Nat, NEW step, NEW base \in S,
         \A s \in S : \A i \in 1..n : step[<<s, i>>] \in S
  PROVE  \E g : Folds(g, S, step, base, n)
  <1> DEFINE T == {k \in Nat : k <= n /\ ~ \E g : Folds(g, S, step, base, k)}
  <1>1. 0 \notin T
    <2> DEFINE g == [t \in SUBSET (1..0) |-> base]
    <2>1. \A t \in SUBSET (1..0) : t = {}
      OBVIOUS
    <2>2. Folds(g, S, step, base, 0)
      BY <2>1 DEF Folds
    <2> QED BY <2>2
  <1>2. T = {}
    <2> SUFFICES ASSUME T # {} PROVE FALSE
      OBVIOUS
    <2>1. PICK k \in T : \A j \in T : k <= j
      <3>1. T \in SUBSET Nat
        OBVIOUS
      <3> HIDE DEF T
      <3> QED BY <3>1, LeastElement
    <2>2. /\ k \in Nat \ {0} /\ k <= n /\ ~ \E g : Folds(g, S, step, base, k)
          /\ k - 1 \in Nat /\ k - 1 <= n /\ k - 1 \notin T
      BY <1>1, <2>1
    <2>3. PICK g : Folds(g, S, step, base, k - 1)
      BY <2>2
    <2> HIDE DEF T
    <2> DEFINE h == [t \in SUBSET (1..k) |->
                       IF k \in t THEN step[<<g[t \ {k}], k>>] ELSE g[t]]
    <2>4. \A t \in SUBSET (1..k) :
            /\ t \ {k} \in SUBSET (1..(k - 1)) /\ k \notin t \ {k}
            /\ k \notin t => t \in SUBSET (1..(k - 1)) /\ t \ {k} = t
            /\ k \in t => Max(t) = k /\ t # {}
      <3> SUFFICES ASSUME NEW t \in SUBSET (1..k)
                   PROVE  /\ t \ {k} \in SUBSET (1..(k - 1)) /\ k \notin t \ {k}
                          /\ k \notin t => t \in SUBSET (1..(k - 1)) /\ t \ {k} = t
                          /\ k \in t => Max(t) = k /\ t # {}
        OBVIOUS
      <3>1. \A i \in t : i # k => i \in 1..(k - 1)
        BY <2>2
      <3> QED BY <2>2, <3>1, MaxIs
    <2>5. k \in 1..n
      BY <2>2
    <2>6. \A t \in SUBSET (1..k) : h[t] \in S
      <3> SUFFICES ASSUME NEW t \in SUBSET (1..k) PROVE h[t] \in S
        OBVIOUS
      <3>1. g[t \ {k}] \in S
        BY <2>3, <2>4 DEF Folds
      <3>2. k \notin t => g[t] \in S
        BY <2>3, <2>4 DEF Folds
      <3> QED BY <2>5, <3>1, <3>2
    <2>7. \A t \in SUBSET (1..k) : h[t] = IF k \in t THEN step[<<g[t \ {k}], k>>] ELSE g[t]
      OBVIOUS
    <2>8. h \in [SUBSET (1..k) -> S]
      <3>1. h = [t \in SUBSET (1..k) |-> h[t]]
        OBVIOUS
      <3> HIDE DEF h
      <3> QED BY <2>6, <3>1
    <2>9. \A s \in SUBSET (1..(k - 1)) : s \in SUBSET (1..k) /\ k \notin s
      BY <2>2
    <2> HIDE DEF h
    <2>10. \A s \in SUBSET (1..(k - 1)) : h[s] = g[s]
      BY <2>7, <2>9
    <2>11. ASSUME NEW t \in SUBSET (1..k)
           PROVE  h[t] = IF t = {} THEN base ELSE step[<<h[t \ {Max(t)}], Max(t)>>]
      <3>1. CASE k \in t
        <4>1. h[t] = step[<<g[t \ {k}], k>>] /\ h[t \ {k}] = g[t \ {k}]
          BY <2>4, <2>7, <2>10, <3>1
        <4>2. Max(t) = k /\ t # {}
          BY <2>4, <3>1
        <4> QED BY <4>1, <4>2, Zenon
      <3>2. CASE k \notin t
        <4>1. t \in SUBSET (1..(k - 1)) /\ t \ {Max(t)} \in SUBSET (1..(k - 1))
          BY <2>4, <3>2
        <4>2. h[t] = g[t] /\ h[t \ {Max(t)}] = g[t \ {Max(t)}]
          BY <2>10, <4>1
        <4>3. g[t] = IF t = {} THEN base ELSE step[<<g[t \ {Max(t)}], Max(t)>>]
          BY <2>3, <4>1 DEF Folds
        <4> QED BY <4>2, <4>3, Zenon
      <3> QED BY <3>1, <3>2
    <2>12. Folds(h, S, step, base, k)
      BY <2>8, <2>11 DEF Folds
    <2> QED BY <2>2, <2>12
  <1> QED BY <1>2

(* The greatest of a set of numbers is one of them. *)
LEMMA MaxIn ==
  ASSUME NEW n \in Nat, NEW t \in SUBSET (1..n), t # {}
  PROVE  Max(t) \in t
  <1> DEFINE T == {n - y : y \in t}
  <1>1. T \in SUBSET Nat /\ T # {}
    <2>1. \A y \in t : n - y \in Nat
      OBVIOUS
    <2> QED BY <2>1
  <1>2. PICK x \in T : \A z \in T : x <= z
    <2> HIDE DEF T
    <2> QED BY <1>1, LeastElement
  <1>3. PICK y \in t : x = n - y
    OBVIOUS
  <1>4. \A z \in t : y >= z
    <2> SUFFICES ASSUME NEW z \in t PROVE y >= z
      OBVIOUS
    <2>1. n - z \in T
      OBVIOUS
    <2>2. n - y <= n - z
      BY <1>2, <1>3, <2>1
    <2>3. y \in Nat /\ z \in Nat
      OBVIOUS
    <2> HIDE DEF T
    <2> QED BY <2>2, <2>3
  <1>5. \E z \in t : \A w \in t : z >= w
    BY <1>4
  <1> QED BY <1>5 DEF Max

\* A step that stays in S, a function that folds it over 1..i, and the run that it makes.
Closed(S, step, n) == \A s \in S : \A i \in 1..n : step[<<s, i>>] \in S
Stepwise(f, S, step, base, n) ==
  /\ f[1..0] = base
  /\ \A i \in 1..n : f[1..(i - 1)] \in S => f[1..i] = step[<<f[1..(i - 1)], i>>]
RunOf(h, f, S, step, base, n) ==
  /\ h \in [0..n -> S]
  /\ h[0] = base /\ h[n] = f[1..n]
  /\ \A i \in 1..n : h[i] = step[<<h[i - 1], i>>]

(* A fold runs through 1..n from the left. *)
LEMMA FoldRuns ==
  ASSUME NEW S, NEW n \in Nat, NEW step, NEW base \in S, NEW f,
         Closed(S, step, n), Stepwise(f, S, step, base, n)
  PROVE  \E h : RunOf(h, f, S, step, base, n)
  <1> USE DEF Closed, Stepwise
  <1> DEFINE T == {k \in Nat : k <= n /\ f[1..k] \notin S}
             h == [i \in 0..n |-> f[1..i]]
  <1>1. T = {}
    <2> SUFFICES ASSUME T # {} PROVE FALSE
      OBVIOUS
    <2>1. PICK k \in T : \A j \in T : k <= j
      <3>1. T \in SUBSET Nat
        OBVIOUS
      <3> HIDE DEF T
      <3> QED BY <3>1, LeastElement
    <2>2. /\ k \in 1..n /\ f[1..k] \notin S
          /\ k - 1 \in Nat /\ k - 1 <= n /\ k - 1 \notin T
      <3>1. k \in Nat /\ k <= n /\ f[1..k] \notin S /\ k # 0
        OBVIOUS
      <3> QED BY <2>1, <3>1
    <2>3. f[1..(k - 1)] \in S
      BY <2>2
    <2> QED BY <2>2, <2>3
  <1>2. \A i \in 0..n : h[i] = f[1..i] /\ f[1..i] \in S
    BY <1>1
  <1>3. h \in [0..n -> S]
    <2>1. h = [i \in 0..n |-> h[i]]
      OBVIOUS
    <2> HIDE DEF h
    <2> QED BY <1>2, <2>1
  <1> HIDE DEF h
  <1>4. ASSUME NEW i \in 1..n PROVE h[i] = step[<<h[i - 1], i>>]
    <2>1. i \in 0..n /\ i - 1 \in 0..n
      OBVIOUS
    <2> QED BY <1>2, <2>1
  <1>5. 0 \in 0..n /\ n \in 0..n
    OBVIOUS
  <1> QED BY <1>2, <1>3, <1>4, <1>5 DEF RunOf

(* The intervals of a fold. *)
LEMMA Intervals ==
  ASSUME NEW n \in Nat
  PROVE  /\ 1..0 = {}
         /\ \A i \in 1..n : /\ 1..i \in SUBSET (1..n) /\ 1..i # {}
                            /\ Max(1..i) = i /\ (1..i) \ {i} = 1..(i - 1)
  <1>1. ASSUME NEW i \in 1..n
        PROVE  /\ 1..i \in SUBSET (1..n) /\ 1..i # {}
               /\ Max(1..i) = i /\ (1..i) \ {i} = 1..(i - 1)
    <2>1. i \in Nat \ {0} /\ 1..i \in SUBSET (1..i) /\ i \in 1..i
      OBVIOUS
    <2>2. Max(1..i) = i
      BY <2>1, MaxIs
    <2>3. \A j \in 1..i : j \in 1..n /\ (j # i => j \in 1..(i - 1))
      OBVIOUS
    <2>4. \A j \in 1..(i - 1) : j \in 1..i /\ j # i
      OBVIOUS
    <2> QED BY <2>1, <2>2, <2>3, <2>4
  <1> QED BY <1>1

-----------------------------------------------------------------------------
(* The values, and what one instruction makes of them. *)

Values == 0..(Width - 1)
Cached(t) == [Fields(t) -> Values]

\* What decoding a record of template t passes from field to field.
States(t) == [rest : Seq(Values), out : Cached(t), cache : Cached(t), result : {0, -1}]

(* A template has at least one field, and less than 32. *)
LEMMA TemplateType ==
  ASSUME NEW t \in DOMAIN Template
  PROVE  /\ Len(Template[t]) \in 1..31 /\ Fields(t) = 1..Len(Template[t])
         /\ \A i \in Fields(t) : Template[t][i] \in FieldKinds
  <1>1. Template[t] \in Seq(FieldKinds) /\ Template[t] # <<>> /\ Len(Template[t]) < 32
    BY CompressorAssumption DEF FullBit
  <1>2. Len(Template[t]) \in Nat /\ Len(Template[t]) # 0 /\ Fields(t) = 1..Len(Template[t])
    BY <1>1 DEF Fields
  <1> DEFINE q == Template[t]
  <1>3. \A i \in 1..Len(q) : q[i] \in FieldKinds
    <2> HIDE DEF q
    <2>1. q \in Seq(FieldKinds)
      BY <1>1 DEF q
    <2> QED BY <2>1
  <1>4. Len(Template[t]) \in 1..31
    <2> DEFINE n == Len(Template[t])
    <2>1. n \in Nat /\ n # 0 /\ n < 32
      BY <1>1, <1>2
    <2> HIDE DEF n
    <2>2. n \in 1..31
      BY <2>1
    <2> QED BY <2>2 DEF n
  <1> QED BY <1>2, <1>3, <1>4, Zenon

(* Numbers wrap around. *)
LEMMA ValueType ==
  /\ 0 \in Values
  /\ \A v, c \in Values : (v - c) % Width \in Values /\ (c + v) % Width \in Values
  /\ \A v, c \in Values : (c + ((v - c) % Width)) % Width = v
  <1>0. Width \in Nat \ {0}
    BY CompressorAssumption
  <1> DEFINE m == Width
  <1>1. m \in Nat \ {0} /\ Values = 0..(m - 1)
    BY <1>0 DEF Values
  <1> HIDE DEF m
  <1>2. ASSUME NEW v \in Values, NEW c \in Values
        PROVE  /\ (v - c) % m \in Values /\ (c + v) % m \in Values
               /\ (c + ((v - c) % m)) % m = v
    <2>1. v \in Nat /\ c \in Nat /\ v < m /\ c < m
      BY <1>1, <1>2
    <2>2. CASE v >= c
      <3>1. (v - c) % m = v - c
        BY <1>1, <2>1, <2>2
      <3> QED BY <1>1, <2>1, <2>2, <3>1
    <2>3. CASE v < c
      <3>1. (v - c) % m = v - c + m
        BY <1>1, <2>1, <2>3
      <3>2. (v + m) % m = v
        BY <1>1, <2>1
      <3> QED BY <1>1, <2>1, <2>3, <3>1, <3>2
    <2> QED BY <2>1, <2>2, <2>3
  <1>3. 0 \in Values
    BY <1>1
  <1> QED BY <1>2, <1>3, Zenon DEF m

(* A state is its four parts. *)
LEMMA StateParts ==
  ASSUME NEW t, NEW s \in States(t)
  PROVE  /\ s.rest \in Seq(Values) /\ s.out \in Cached(t) /\ s.cache \in Cached(t)
         /\ s.result \in {0, -1}
         /\ s = [rest |-> s.rest, out |-> s.out, cache |-> s.cache, result |-> s.result]
  BY DEF States

\* What a field stores where its value may be stored.
Stored(field, values, i, value) ==
  IF Accessible(field) THEN [values EXCEPT ![i] = value] ELSE values

(* The four things an instruction does: nothing after a failure; *)
(* take a value; fail; or leave the field as it is.              *)
LEMMA FieldSteps ==
  ASSUME NEW r, NEW t, r.template = t, NEW i, NEW s \in States(t)
  PROVE  LET field == Template[t][i]
             takes == Takes(field, i, r.pmap)
             value == Restored(field, r.pmap, Head(s.rest), s.cache[i])
             d == DecodeField(r, s, i)
         IN  /\ s.result = -1 => d = s
             /\ s.result # -1 /\ takes /\ s.rest # <<>> =>
                  d = [rest |-> Tail(s.rest), out |-> Stored(field, s.out, i, value),
                       cache |-> Stored(field, s.cache, i, value), result |-> 0]
             /\ s.result # -1 /\ ((takes /\ s.rest = <<>>) \/ (~takes /\ field.action = "delta")) =>
                  d = [rest |-> s.rest, out |-> s.out, cache |-> s.cache, result |-> -1]
             /\ s.result # -1 /\ ~takes /\ field.action # "delta" =>
                  d = [rest |-> s.rest, cache |-> s.cache, result |-> s.result,
                       out |-> [s.out EXCEPT ![i] = Unchanged(field, s.cache[i], @)]]
  <1> DEFINE field == Template[t][i]
             takes == Takes(field, i, r.pmap)
             value == Restored(field, r.pmap, Head(s.rest), s.cache[i])
             o == [s.out EXCEPT ![i] = Unchanged(field, s.cache[i], s.out[i])]
  <1>1. [s EXCEPT !.result = -1]
        = [rest |-> s.rest, out |-> s.out, cache |-> s.cache, result |-> -1]
    BY DEF States
  <1>2. [s EXCEPT !.out[i] = Unchanged(field, s.cache[i], @)]
        = [rest |-> s.rest, out |-> o, cache |-> s.cache, result |-> s.result]
    <2>1. [s EXCEPT !.out[i] = Unchanged(field, s.cache[i], @)] = [s EXCEPT !.out = o]
      OBVIOUS
    <2> HIDE DEF o
    <2>2. [s EXCEPT !.out = o]
          = [rest |-> s.rest, out |-> o, cache |-> s.cache, result |-> s.result]
      BY DEF States
    <2> QED BY <2>1, <2>2
  <1> QED BY <1>1, <1>2, Zenon DEF DecodeField, Stored

(* A field's value is one. *)
LEMMA RestoredType ==
  ASSUME NEW field, NEW pmap, NEW x \in Values, NEW c \in Values
  PROVE  Restored(field, pmap, x, c) \in Values
  BY ValueType DEF Restored

(* An instruction keeps the parts in their sets. *)
LEMMA FieldType ==
  ASSUME NEW t, NEW r, r.template = t, NEW i \in Fields(t), NEW s \in States(t)
  PROVE  DecodeField(r, s, i) \in States(t)
  <1> DEFINE field == Template[t][i]
             takes == Takes(field, i, r.pmap)
             value == Restored(field, r.pmap, Head(s.rest), s.cache[i])
             d == DecodeField(r, s, i)
             u == Unchanged(field, s.cache[i], s.out[i])
  <1>1. /\ s.rest \in Seq(Values) /\ s.out \in Cached(t) /\ s.cache \in Cached(t)
        /\ s.result \in {0, -1}
    BY StateParts
  <1>2. s.cache[i] \in Values /\ s.out[i] \in Values
    BY <1>1 DEF Cached
  <1>3. /\ s.result = -1 => d = s
        /\ s.result # -1 /\ takes /\ s.rest # <<>> =>
             d = [rest |-> Tail(s.rest), out |-> Stored(field, s.out, i, value),
                  cache |-> Stored(field, s.cache, i, value), result |-> 0]
        /\ s.result # -1 /\ ((takes /\ s.rest = <<>>) \/ (~takes /\ field.action = "delta")) =>
             d = [rest |-> s.rest, out |-> s.out, cache |-> s.cache, result |-> -1]
        /\ s.result # -1 /\ ~takes /\ field.action # "delta" =>
             d = [rest |-> s.rest, cache |-> s.cache, result |-> s.result,
                  out |-> [s.out EXCEPT ![i] = u]]
    BY FieldSteps
  <1>4. s.rest # <<>> => Tail(s.rest) \in Seq(Values) /\ value \in Values
    <2>1. s.rest # <<>> => Tail(s.rest) \in Seq(Values) /\ Head(s.rest) \in Values
      BY <1>1
    <2> QED BY <1>2, <2>1, RestoredType
  <1>5. u \in Values
    BY <1>2 DEF Unchanged
  <1>12. \/ s.result = -1
         \/ s.result # -1 /\ takes /\ s.rest # <<>>
         \/ s.result # -1 /\ ((takes /\ s.rest = <<>>) \/ (~takes /\ field.action = "delta"))
         \/ s.result # -1 /\ ~takes /\ field.action # "delta"
    OBVIOUS
  <1> HIDE DEF field, takes, value, d, u
  <1>6. value \in Values => /\ Stored(field, s.out, i, value) \in Cached(t)
                            /\ Stored(field, s.cache, i, value) \in Cached(t)
    BY <1>1 DEF Stored, Cached
  <1>7. [s.out EXCEPT ![i] = u] \in Cached(t)
    BY <1>1, <1>5 DEF Cached
  <1>8. CASE s.result = -1
    BY <1>3, <1>8 DEF d
  <1>9. CASE s.result # -1 /\ takes /\ s.rest # <<>>
    BY <1>3, <1>4, <1>6, <1>9 DEF d, States
  <1>10. CASE s.result # -1 /\ ((takes /\ s.rest = <<>>) \/ (~takes /\ field.action = "delta"))
    BY <1>1, <1>3, <1>10 DEF d, States
  <1>11. CASE s.result # -1 /\ ~takes /\ field.action # "delta"
    BY <1>1, <1>3, <1>7, <1>11 DEF d, States
  <1> QED BY <1>8, <1>9, <1>10, <1>11, <1>12, Zenon

\* The fold of DecodeMessage, over the sets of field numbers.
DecodeFold(h, r, cache, q) ==
  h = [s \in SUBSET DOMAIN q |->
         IF s = {} THEN [rest |-> r.body, out |-> Zeros(r.template), cache |-> cache,
                         result |-> 0]
         ELSE DecodeField(r, h[s \ {Max(s)}], q[Max(s)])]

(* DecodeMessage runs through the fields, one after the other. *)
LEMMA DecodeRuns ==
  ASSUME NEW t \in DOMAIN Template, NEW r, r.template = t, r.body \in Seq(Values),
         NEW cache \in Cached(t)
  PROVE  \E h \in [0..Len(Template[t]) -> States(t)] :
           /\ h[0] = [rest |-> r.body, out |-> Zeros(t), cache |-> cache, result |-> 0]
           /\ h[Len(Template[t])] = DecodeMessage(r, cache)
           /\ \A i \in 1..Len(Template[t]) : h[i] = DecodeField(r, h[i - 1], i)
  <1> DEFINE n == Len(Template[t])
             q == [j \in DOMAIN Template[r.template] |-> j]
             S == States(t)
             base == [rest |-> r.body, out |-> Zeros(t), cache |-> cache, result |-> 0]
             step == [si \in S \X (1..n) |-> DecodeField(r, si[1], si[2])]
  <1>1. n \in Nat /\ Fields(t) = 1..n /\ DOMAIN q = 1..n /\ \A i \in 1..n : q[i] = i
    <2>1. n \in 1..31 /\ Fields(t) = 1..n
      BY TemplateType
    <2> HIDE DEF n
    <2> QED BY <2>1 DEF Fields
  <1>2. base \in S
    <2>1. Zeros(t) \in Cached(t)
      BY ValueType DEF Zeros, Cached
    <2> QED BY <2>1 DEF States
  <1>3. ASSUME NEW s \in S, NEW i \in 1..n
        PROVE  step[<<s, i>>] = DecodeField(r, s, i) /\ step[<<s, i>>] \in S
    <2>1. step[<<s, i>>] = DecodeField(r, s, i)
      <3> HIDE DEF S, n
      <3> QED OBVIOUS
    <2>2. DecodeField(r, s, i) \in States(t)
      BY <1>1, FieldType
    <2> QED BY <2>1, <2>2
  <1>b. base = [rest |-> r.body, out |-> Zeros(r.template), cache |-> cache, result |-> 0]
    OBVIOUS
  <1> HIDE DEF S, n, base, step, q
  <1>4. PICK g : Folds(g, S, step, base, n)
    BY <1>1, <1>2, <1>3, FoldsExist
  <1>5. DecodeFold(g, r, cache, q)
    <2>1. g = [s \in SUBSET (1..n) |-> g[s]]
      BY <1>4 DEF Folds
    <2>2. ASSUME NEW s \in SUBSET (1..n), s # {}
          PROVE  g[s] = DecodeField(r, g[s \ {Max(s)}], q[Max(s)])
      <3>1. Max(s) \in 1..n /\ s \ {Max(s)} \in SUBSET (1..n)
        BY <1>1, <2>2, MaxIn
      <3>2. g[s \ {Max(s)}] \in S
        BY <1>4, <3>1 DEF Folds
      <3>3. g[s] = step[<<g[s \ {Max(s)}], Max(s)>>]
        BY <1>4, <2>2 DEF Folds
      <3> QED BY <1>1, <1>3, <3>1, <3>2, <3>3
    <2>3. g[{}] = base
      <3>1. {} \in SUBSET (1..n)
        OBVIOUS
      <3> QED BY <1>4, <3>1 DEF Folds
    <2>4. \A s \in SUBSET (1..n) :
            g[s] = IF s = {} THEN base ELSE DecodeField(r, g[s \ {Max(s)}], q[Max(s)])
      BY <2>2, <2>3
    <2>5. g = [s \in SUBSET DOMAIN q |->
                IF s = {} THEN base ELSE DecodeField(r, g[s \ {Max(s)}], q[Max(s)])]
      BY <1>1, <2>1, <2>4, Zenon
    <2> QED BY <1>b, <2>5, Zenon DEF DecodeFold
  <1>6. PICK h : DecodeFold(h, r, cache, q) /\ DecodeMessage(r, cache) = h[DOMAIN q]
    BY <1>5, Zenon DEF DecodeMessage, FoldLeftDomain, FoldLeft, MapThenFoldSet, DecodeFold, q
  <1>7. \A s \in SUBSET (1..n) :
          h[s] = IF s = {} THEN base ELSE DecodeField(r, h[s \ {Max(s)}], q[Max(s)])
    BY <1>1, <1>6, <1>b, Zenon DEF DecodeFold
  <1>8. h[1..0] = base
    <2>1. 1..0 \in SUBSET (1..n) /\ 1..0 = {}
      BY Intervals, <1>1
    <2> QED BY <1>7, <2>1
  <1>9. \A i \in 1..n : h[1..i] = DecodeField(r, h[1..(i - 1)], i)
    <2> SUFFICES ASSUME NEW i \in 1..n PROVE h[1..i] = DecodeField(r, h[1..(i - 1)], i)
      OBVIOUS
    <2>1. /\ 1..i \in SUBSET (1..n) /\ 1..i # {} /\ Max(1..i) = i /\ (1..i) \ {i} = 1..(i - 1)
      BY <1>1, Intervals
    <2>2. h[1..i] = DecodeField(r, h[(1..i) \ {Max(1..i)}], q[Max(1..i)])
      BY <1>7, <2>1, Zenon
    <2> QED BY <1>1, <2>1, <2>2
  <1>10. \A i \in 1..n : h[1..(i - 1)] \in S => h[1..i] = step[<<h[1..(i - 1)], i>>]
    BY <1>3, <1>9
  <1>11. PICK v : RunOf(v, h, S, step, base, n)
    <2>1. Closed(S, step, n)
      BY <1>3 DEF Closed
    <2>2. n \in Nat
      BY <1>1
    <2>3. Stepwise(h, S, step, base, n)
      BY <1>8, <1>10 DEF Stepwise
    <2> QED BY <1>2, <2>1, <2>2, <2>3, FoldRuns
  <1>12. ASSUME NEW i \in 1..n PROVE v[i] = DecodeField(r, v[i - 1], i)
    <2>1. v[i - 1] \in S
      <3>1. i - 1 \in 0..n
        BY <1>1
      <3> QED BY <1>11, <3>1 DEF RunOf
    <2> QED BY <1>3, <1>11, <2>1 DEF RunOf
  <1>13. v[n] = DecodeMessage(r, cache)
    BY <1>1, <1>6, <1>11 DEF RunOf
  <1> QED BY <1>11, <1>12, <1>13 DEF RunOf, n, S, base

\* The fold of Body.
BodyFold(h, t, written, values, cached, q) ==
  h = [s \in SUBSET DOMAIN q |->
         IF s = {} THEN <<>>
         ELSE IF q[Max(s)] \in written
              THEN Append(h[s \ {Max(s)}],
                          Written(Template[t][q[Max(s)]], values[q[Max(s)]], cached[q[Max(s)]]))
              ELSE h[s \ {Max(s)}]]

(* What is written is a value. *)
LEMMA WrittenType ==
  ASSUME NEW field, NEW x \in Values, NEW c \in Values
  PROVE  Written(field, x, c) \in Values
  BY ValueType DEF Written, Delta

\* The turns of a body.
Turns(b, t, written, values, cached) ==
  \A i \in 1..Len(Template[t]) :
    b[i] = IF i \in written
           THEN Append(b[i - 1], Written(Template[t][i], values[i], cached[i]))
           ELSE b[i - 1]

(* Body pushes one field after the other. *)
LEMMA BodyRuns ==
  ASSUME NEW t \in DOMAIN Template, NEW written, NEW values \in Cached(t),
         NEW cached \in Cached(t)
  PROVE  \E b \in [0..Len(Template[t]) -> Seq(Values)] :
           /\ b[0] = <<>>
           /\ b[Len(Template[t])] = Body(t, written, values, cached)
           /\ Turns(b, t, written, values, cached)
  <1> DEFINE n == Len(Template[t])
             q == [j \in DOMAIN Template[t] |-> j]
             S == Seq(Values)
             w(i) == Written(Template[t][i], values[i], cached[i])
             turn(s, i) == IF i \in written THEN Append(s, w(i)) ELSE s
             step == [si \in S \X (1..n) |-> turn(si[1], si[2])]
  <1>1. n \in Nat /\ Fields(t) = 1..n /\ DOMAIN q = 1..n /\ \A i \in 1..n : q[i] = i
    <2>1. n \in 1..31 /\ Fields(t) = 1..n
      BY TemplateType
    <2> HIDE DEF n
    <2> QED BY <2>1 DEF Fields
  <1>2. <<>> \in S
    OBVIOUS
  <1>3. ASSUME NEW s \in S, NEW i \in 1..n
        PROVE  step[<<s, i>>] = turn(s, i) /\ step[<<s, i>>] \in S
    <2>1. step[<<s, i>>] = turn(s, i)
      <3> HIDE DEF S, n, turn
      <3> QED OBVIOUS
    <2>2. values[i] \in Values /\ cached[i] \in Values
      BY <1>1 DEF Cached
    <2>3. w(i) \in Values
      BY <2>2, WrittenType
    <2> HIDE DEF w
    <2>4. turn(s, i) \in S
      BY <2>3
    <2> QED BY <2>1, <2>4
  <1>t. \A s, i : turn(s, i) = IF i \in written THEN Append(s, w(i)) ELSE s
    OBVIOUS
  <1> HIDE DEF S, n, step, q, turn
  <1>4. PICK g : Folds(g, S, step, <<>>, n)
    BY <1>1, <1>2, <1>3, FoldsExist
  <1>5. BodyFold(g, t, written, values, cached, q)
    <2>1. g = [s \in SUBSET (1..n) |-> g[s]]
      BY <1>4 DEF Folds
    <2>2. ASSUME NEW s \in SUBSET (1..n), s # {}
          PROVE  g[s] = turn(g[s \ {Max(s)}], q[Max(s)])
      <3>1. Max(s) \in 1..n /\ s \ {Max(s)} \in SUBSET (1..n)
        BY <1>1, <2>2, MaxIn
      <3>2. g[s \ {Max(s)}] \in S
        BY <1>4, <3>1 DEF Folds
      <3>3. g[s] = step[<<g[s \ {Max(s)}], Max(s)>>]
        BY <1>4, <2>2 DEF Folds
      <3> QED BY <1>1, <1>3, <3>1, <3>2, <3>3
    <2>3. g[{}] = <<>>
      <3>1. {} \in SUBSET (1..n)
        OBVIOUS
      <3> QED BY <1>4, <3>1 DEF Folds
    <2>4. \A s \in SUBSET (1..n) : g[s] = IF s = {} THEN <<>> ELSE turn(g[s \ {Max(s)}], q[Max(s)])
      BY <2>2, <2>3
    <2>5. g = [s \in SUBSET DOMAIN q |-> IF s = {} THEN <<>> ELSE turn(g[s \ {Max(s)}], q[Max(s)])]
      BY <1>1, <2>1, <2>4, Zenon
    <2> QED BY <1>t, <2>5, Zenon DEF BodyFold, turn
  <1>6. PICK h : BodyFold(h, t, written, values, cached, q)
                 /\ Body(t, written, values, cached) = h[DOMAIN q]
    BY <1>5, Zenon DEF Body, FoldLeftDomain, FoldLeft, MapThenFoldSet, BodyFold, q
  <1>7. \A s \in SUBSET (1..n) : h[s] = IF s = {} THEN <<>> ELSE turn(h[s \ {Max(s)}], q[Max(s)])
    BY <1>1, <1>6, <1>t, Zenon DEF BodyFold, turn
  <1>8. h[1..0] = <<>>
    <2>1. 1..0 \in SUBSET (1..n) /\ 1..0 = {}
      BY Intervals, <1>1
    <2> QED BY <1>7, <2>1
  <1>9. \A i \in 1..n : h[1..i] = turn(h[1..(i - 1)], i)
    <2> SUFFICES ASSUME NEW i \in 1..n PROVE h[1..i] = turn(h[1..(i - 1)], i)
      OBVIOUS
    <2>1. /\ 1..i \in SUBSET (1..n) /\ 1..i # {} /\ Max(1..i) = i /\ (1..i) \ {i} = 1..(i - 1)
      BY <1>1, Intervals
    <2>2. h[1..i] = turn(h[(1..i) \ {Max(1..i)}], q[Max(1..i)])
      BY <1>7, <2>1, Zenon
    <2> QED BY <1>1, <2>1, <2>2
  <1>10. \A i \in 1..n : h[1..(i - 1)] \in S => h[1..i] = step[<<h[1..(i - 1)], i>>]
    BY <1>3, <1>9
  <1>11. PICK v : RunOf(v, h, S, step, <<>>, n)
    <2>1. Closed(S, step, n)
      BY <1>3 DEF Closed
    <2>2. n \in Nat
      BY <1>1
    <2>3. Stepwise(h, S, step, <<>>, n)
      BY <1>8, <1>10 DEF Stepwise
    <2> QED BY <1>2, <2>1, <2>2, <2>3, FoldRuns
  <1>12. ASSUME NEW i \in 1..n PROVE v[i] = turn(v[i - 1], i)
    <2>1. v[i - 1] \in S
      <3>1. i - 1 \in 0..n
        BY <1>1
      <3> QED BY <1>11, <3>1 DEF RunOf
    <2> QED BY <1>3, <1>11, <2>1 DEF RunOf
  <1>13. v[n] = Body(t, written, values, cached)
    BY <1>1, <1>6, <1>11 DEF RunOf
  <1>14. Turns(v, t, written, values, cached)
    BY <1>12, Zenon DEF Turns, n, turn
  <1> QED BY <1>11, <1>13, <1>14 DEF RunOf, n, S

-----------------------------------------------------------------------------
(* One record, written against one cache and read against an equal one. *)

Records == [template : DOMAIN Template, index : Nat \ {0}, pmap : SUBSET (1..FullBit),
            body : Seq(Values), sent : Seq(Values)]

\* Field i of record r takes from the body what was meant for it, x[i] values are taken
\* up to it, and with this cache it makes what was sent of it.
FieldFits(r, cache, x, i) ==
  LET field == Template[r.template][i] IN
  IF Takes(field, i, r.pmap)
  THEN /\ x[i] = x[i - 1] + 1
       /\ Accessible(field) => Restored(field, r.pmap, r.body[x[i]], cache[i]) = r.sent[i]
  ELSE /\ x[i] = x[i - 1]
       /\ Accessible(field) /\ field.action # "delta" => cache[i] = r.sent[i]

Fits(r, cache, x) ==
  LET n == Len(Template[r.template]) IN
    /\ x \in [0..n -> 0..Len(r.body)] /\ x[0] = 0 /\ x[n] = Len(r.body)
    /\ \A i \in 1..n : FieldFits(r, cache, x, i)

\* What DecodedAsEncoded says of one field.
FieldGood(r, value, i) ==
  LET field == Template[r.template][i] IN
  IF ~Accessible(field) THEN value = 0
  ELSE \/ value = r.sent[i]
       \/ /\ field.action = "copy" /\ field.type # "string"
          /\ r.pmap \cap {i, FullBit} = {} /\ value = 0

\* Decoding fails at a DELTA field that takes nothing: a string, which is never written.
Passes(r, i) ==
  LET field == Template[r.template][i] IN
  field.action # "delta" \/ Takes(field, i, r.pmap)

AllPass(r) == \A i \in Fields(r.template) : Passes(r, i)

\* The state behind the first k fields, unless one of them failed.
ReadTo(s, k, r, cache, x) ==
  /\ Len(s.rest) = Len(r.body) - x[k]
  /\ \A j \in 1..Len(s.rest) : s.rest[j] = r.body[x[k] + j]
  /\ \A i \in 1..k : /\ Accessible(Template[r.template][i]) => s.cache[i] = r.sent[i]
                     /\ FieldGood(r, s.out[i], i)
                     /\ Passes(r, i)
  /\ \A i \in Fields(r.template) : i > k => s.cache[i] = cache[i] /\ s.out[i] = 0

(* The next field. *)
LEMMA FieldDecoded ==
  ASSUME NEW t \in DOMAIN Template, NEW r \in Records, r.template = t,
         NEW cache \in Cached(t), NEW x, Fits(r, cache, x),
         NEW k \in 1..Len(Template[t]), NEW s \in States(t),
         s.result = -1 \/ ReadTo(s, k - 1, r, cache, x)
  PROVE  LET d == DecodeField(r, s, k) IN d.result = -1 \/ ReadTo(d, k, r, cache, x)
  <1> DEFINE n == Len(Template[t])
             field == Template[t][k]
             takes == Takes(field, k, r.pmap)
             value == Restored(field, r.pmap, Head(s.rest), s.cache[k])
             d == DecodeField(r, s, k)
             u == Unchanged(field, s.cache[k], s.out[k])
  <1>1. /\ s.rest \in Seq(Values) /\ s.out \in Cached(t) /\ s.cache \in Cached(t)
        /\ s.result \in {0, -1}
    BY StateParts
  <1>2. /\ n \in 1..31 /\ Fields(t) = 1..n /\ k \in Fields(t) /\ k \in Nat
        /\ field \in FieldKinds
    BY TemplateType
  <1>3. /\ s.result = -1 => d = s
        /\ s.result # -1 /\ takes /\ s.rest # <<>> =>
             d = [rest |-> Tail(s.rest), out |-> Stored(field, s.out, k, value),
                  cache |-> Stored(field, s.cache, k, value), result |-> 0]
        /\ s.result # -1 /\ ((takes /\ s.rest = <<>>) \/ (~takes /\ field.action = "delta")) =>
             d = [rest |-> s.rest, out |-> s.out, cache |-> s.cache, result |-> -1]
        /\ s.result # -1 /\ ~takes /\ field.action # "delta" =>
             d = [rest |-> s.rest, cache |-> s.cache, result |-> s.result,
                  out |-> [s.out EXCEPT ![k] = u]]
    BY FieldSteps
  <1>4. FieldFits(r, cache, x, k) /\ x \in [0..n -> 0..Len(r.body)]
    BY DEF Fits
  <1>5. /\ k \in 0..n /\ k - 1 \in 0..n /\ r.body \in Seq(Values) /\ Len(r.body) \in Nat
        /\ x[k] \in Nat /\ x[k - 1] \in Nat /\ x[k] <= Len(r.body)
    <2>1. k \in 0..n /\ k - 1 \in 0..n
      BY <1>2
    <2>2. r.body \in Seq(Values)
      BY DEF Records
    <2> HIDE DEF n
    <2>3. Len(r.body) \in Nat /\ x[k] \in 0..Len(r.body) /\ x[k - 1] \in 0..Len(r.body)
      BY <1>4, <2>1, <2>2
    <2> QED BY <2>1, <2>2, <2>3
  <1>6. CASE s.result = -1
    BY <1>3, <1>6
  <1>7. CASE s.result # -1 /\ takes
    <2>1. ReadTo(s, k - 1, r, cache, x)
      BY <1>7
    <2>2. /\ x[k] = x[k - 1] + 1
          /\ Accessible(field) => Restored(field, r.pmap, r.body[x[k]], cache[k]) = r.sent[k]
      BY <1>4, <1>7 DEF FieldFits
    <2>3. Len(s.rest) = Len(r.body) - x[k - 1] /\ Len(s.rest) >= 1
      BY <1>5, <2>1, <2>2 DEF ReadTo
    <2>4. s.rest # <<>> /\ Head(s.rest) = s.rest[1] /\ s.rest[1] = r.body[x[k]]
      <3>1. s.rest # <<>> /\ Head(s.rest) = s.rest[1] /\ 1 \in 1..Len(s.rest)
        BY <1>1, <2>3
      <3>2. s.rest[1] = r.body[x[k - 1] + 1]
        BY <2>1, <3>1 DEF ReadTo
      <3> QED BY <2>2, <3>1, <3>2
    <2>5. /\ Tail(s.rest) \in Seq(Values) /\ Len(Tail(s.rest)) = Len(r.body) - x[k]
          /\ \A j \in 1..Len(Tail(s.rest)) : Tail(s.rest)[j] = r.body[x[k] + j]
      <3>1. /\ Tail(s.rest) \in Seq(Values) /\ Len(Tail(s.rest)) = Len(s.rest) - 1
            /\ \A j \in 1..Len(Tail(s.rest)) : Tail(s.rest)[j] = s.rest[j + 1]
        BY <1>1, <2>4
      <3>2. ASSUME NEW j \in 1..Len(Tail(s.rest)) PROVE Tail(s.rest)[j] = r.body[x[k] + j]
        <4>1. j + 1 \in 1..Len(s.rest)
          BY <1>1, <3>1
        <4>2. s.rest[j + 1] = r.body[x[k - 1] + (j + 1)]
          BY <2>1, <4>1 DEF ReadTo
        <4>0. j \in Int
          OBVIOUS
        <4>3. x[k - 1] + (j + 1) = x[k] + j
          <5> DEFINE y == x[k - 1]
                     z == x[k]
          <5>1. y \in Int /\ z = y + 1
            BY <1>5, <2>2
          <5> HIDE DEF y, z
          <5>2. y + (j + 1) = z + j
            BY <4>0, <5>1
          <5> QED BY <5>2 DEF y, z
        <4> QED BY <3>1, <4>2, <4>3
      <3> QED BY <1>5, <2>2, <2>3, <3>1, <3>2
    <2>6. s.cache[k] = cache[k] /\ s.out[k] = 0
      BY <1>2, <2>1 DEF ReadTo
    <2>7. Accessible(field) => value = r.sent[k]
      BY <2>2, <2>4, <2>6
    <2>8. d = [rest |-> Tail(s.rest), out |-> Stored(field, s.out, k, value),
               cache |-> Stored(field, s.cache, k, value), result |-> 0]
      BY <1>3, <1>7, <2>4
    <2> DEFINE o == Stored(field, s.out, k, value)
               c == Stored(field, s.cache, k, value)
    <2>9. /\ Accessible(field) => o[k] = value /\ c[k] = value
          /\ ~Accessible(field) => o[k] = 0
          /\ \A j \in Fields(t) : j # k => o[j] = s.out[j] /\ c[j] = s.cache[j]
      <3>1. /\ Accessible(field) => o[k] = value /\ c[k] = value
            /\ ~Accessible(field) => o[k] = s.out[k]
            /\ \A j \in Fields(t) : j # k => o[j] = s.out[j] /\ c[j] = s.cache[j]
        <4> HIDE DEF value, field
        <4>1. /\ Accessible(field) => o[k] = value
              /\ ~Accessible(field) => o[k] = s.out[k]
              /\ \A j \in Fields(t) : j # k => o[j] = s.out[j]
          BY <1>1, <1>2, Zenon DEF o, Stored, Cached
        <4>2. /\ Accessible(field) => c[k] = value
              /\ \A j \in Fields(t) : j # k => c[j] = s.cache[j]
          BY <1>1, <1>2, Zenon DEF c, Stored, Cached
        <4> QED BY <4>1, <4>2
      <3> HIDE DEF o, c
      <3> QED BY <2>6, <3>1
    <2>10. d.rest = Tail(s.rest) /\ d.out = o /\ d.cache = c
      <3>1. d = [rest |-> Tail(s.rest), out |-> o, cache |-> c, result |-> 0]
        BY <2>8
      <3> HIDE DEF o, c, d
      <3> QED BY <3>1
    <2>11. ASSUME NEW i \in 1..k
           PROVE  /\ Accessible(Template[t][i]) => c[i] = r.sent[i]
                  /\ FieldGood(r, o[i], i)
                  /\ Passes(r, i)
      <3>1. CASE i = k
        <4>1. Passes(r, k)
          BY <1>7 DEF Passes
        <4> HIDE DEF o, c, value
        <4> QED BY <2>7, <2>9, <3>1, <4>1 DEF FieldGood
      <3>2. CASE i # k
        <4>1. i \in 1..(k - 1) /\ i \in Fields(t)
          BY <1>2, <3>2
        <4>2. o[i] = s.out[i] /\ c[i] = s.cache[i]
          BY <2>9, <3>2, <4>1
        <4> HIDE DEF o, c
        <4> QED BY <2>1, <4>1, <4>2 DEF ReadTo
      <3> QED BY <3>1, <3>2
    <2>12. ASSUME NEW i \in Fields(t), i > k PROVE c[i] = cache[i] /\ o[i] = 0
      <3>1. i # k /\ i > k - 1
        BY <1>2, <2>12
      <3>2. s.cache[i] = cache[i] /\ s.out[i] = 0
        BY <2>1, <3>1 DEF ReadTo
      <3> HIDE DEF o, c
      <3> QED BY <2>9, <3>1, <3>2
    <2> HIDE DEF o, c, d
    <2>13. ReadTo(d, k, r, cache, x)
      BY <2>5, <2>10, <2>11, <2>12 DEF ReadTo
    <2> QED BY <2>13 DEF d
  <1>8. CASE s.result # -1 /\ ~takes /\ field.action = "delta"
    BY <1>3, <1>8
  <1>9. CASE s.result # -1 /\ ~takes /\ field.action # "delta"
    <2>1. ReadTo(s, k - 1, r, cache, x)
      BY <1>9
    <2>2. /\ x[k] = x[k - 1]
          /\ Accessible(field) => cache[k] = r.sent[k]
      BY <1>4, <1>9 DEF FieldFits
    <2>3. s.cache[k] = cache[k] /\ s.out[k] = 0
      BY <1>2, <2>1 DEF ReadTo
    <2> DEFINE o == [s.out EXCEPT ![k] = u]
    <2>4. o[k] = u /\ \A j \in Fields(t) : j # k => o[j] = s.out[j]
      <3> HIDE DEF u
      <3> QED BY <1>1, <1>2 DEF Cached
    <2>5. FieldGood(r, u, k)
      <3>1. field.action = "copy"
        BY <1>2, <1>9 DEF FieldKinds
      <3>2. CASE field.type = "string"
        <4>1. u = cache[k] /\ Accessible(field)
          BY <2>3, <3>2 DEF Unchanged, Accessible, InstructionType
        <4> HIDE DEF u
        <4> QED BY <2>2, <4>1 DEF FieldGood
      <3>3. CASE field.type # "string"
        <4>1. u = 0
          BY <2>3, <3>3 DEF Unchanged
        <4>2. k \notin r.pmap /\ FullBit \notin r.pmap
          BY <1>9, <3>1, <3>3 DEF Takes, IsFull
        <4>3. r.pmap \cap {k, FullBit} = {}
          BY <4>2
        <4> HIDE DEF u
        <4> QED BY <3>1, <3>3, <4>1, <4>3 DEF FieldGood
      <3> QED BY <3>2, <3>3
    <2>6. d = [rest |-> s.rest, cache |-> s.cache, result |-> s.result, out |-> o]
      BY <1>3, <1>9
    <2> HIDE DEF u
    <2>7. d.rest = s.rest /\ d.out = o /\ d.cache = s.cache
      <3> HIDE DEF o, d
      <3> QED BY <2>6
    <2>8. ASSUME NEW i \in 1..k
          PROVE  /\ Accessible(Template[t][i]) => s.cache[i] = r.sent[i]
                 /\ FieldGood(r, o[i], i)
                 /\ Passes(r, i)
      <3>1. CASE i = k
        <4>1. Passes(r, k)
          BY <1>9 DEF Passes
        <4> HIDE DEF o
        <4> QED BY <2>2, <2>3, <2>4, <2>5, <3>1, <4>1
      <3>2. CASE i # k
        <4>1. i \in 1..(k - 1) /\ i \in Fields(t)
          BY <1>2, <3>2
        <4>2. o[i] = s.out[i]
          BY <2>4, <3>2, <4>1
        <4> HIDE DEF o
        <4> QED BY <2>1, <4>1, <4>2 DEF ReadTo
      <3> QED BY <3>1, <3>2
    <2>9. ASSUME NEW i \in Fields(t), i > k PROVE s.cache[i] = cache[i] /\ o[i] = 0
      <3>1. i # k /\ i > k - 1
        BY <1>2, <2>9
      <3>2. s.cache[i] = cache[i] /\ s.out[i] = 0
        BY <2>1, <3>1 DEF ReadTo
      <3> HIDE DEF o
      <3> QED BY <2>4, <3>1, <3>2
    <2>10. /\ Len(s.rest) = Len(r.body) - x[k]
           /\ \A j \in 1..Len(s.rest) : s.rest[j] = r.body[x[k] + j]
      BY <2>1, <2>2 DEF ReadTo
    <2> HIDE DEF o, d
    <2>11. ReadTo(d, k, r, cache, x)
      BY <2>7, <2>8, <2>9, <2>10 DEF ReadTo
    <2> QED BY <2>11 DEF d
  <1>10. takes \/ ~takes
    OBVIOUS
  <1> QED BY <1>6, <1>7, <1>8, <1>9, <1>10

(* A record that fits the cache is decoded as it was meant, unless a field fails. *)
LEMMA MessageDecoded ==
  ASSUME NEW t \in DOMAIN Template, NEW r \in Records, r.template = t,
         NEW cache \in Cached(t), NEW x, Fits(r, cache, x),
         DecodeMessage(r, cache).result # -1
  PROVE  LET d == DecodeMessage(r, cache) IN
           /\ d.rest = <<>> /\ AllPass(r)
           /\ \A i \in Fields(t) : /\ Accessible(Template[t][i]) => d.cache[i] = r.sent[i]
                                   /\ FieldGood(r, d.out[i], i)
  <1> DEFINE n == Len(Template[t])
             d == DecodeMessage(r, cache)
  <1>1. n \in Nat /\ Fields(t) = 1..n
    <2>1. n \in 1..31 /\ Fields(t) = 1..n
      BY TemplateType
    <2> HIDE DEF n
    <2> QED BY <2>1
  <1>2. r.body \in Seq(Values)
    BY DEF Records
  <1>3. PICK h \in [0..n -> States(t)] :
           /\ h[0] = [rest |-> r.body, out |-> Zeros(t), cache |-> cache, result |-> 0]
           /\ h[n] = d
           /\ \A i \in 1..n : h[i] = DecodeField(r, h[i - 1], i)
    BY <1>2, DecodeRuns
  <1>4. x[0] = 0 /\ x[n] = Len(r.body)
    BY DEF Fits
  <1> DEFINE T == {k \in Nat : k <= n /\ ~(h[k].result = -1 \/ ReadTo(h[k], k, r, cache, x))}
  <1> HIDE DEF d
  <1>5. 0 \notin T
    <2>1. h[0].rest = r.body /\ h[0].out = Zeros(t) /\ h[0].cache = cache
      BY <1>3
    <2>2. \A i \in Fields(t) : h[0].out[i] = 0
      BY <2>1 DEF Zeros
    <2>3. \A j \in 1..Len(r.body) : r.body[x[0] + j] = r.body[j]
      <3>1. \A j \in 1..Len(r.body) : 0 + j = j
        BY <1>2
      <3> QED BY <1>4, <3>1
    <2>4. Len(r.body) = Len(r.body) - x[0]
      BY <1>2, <1>4
    <2>5. ReadTo(h[0], 0, r, cache, x)
      BY <2>1, <2>2, <2>3, <2>4 DEF ReadTo
    <2> QED BY <2>5
  <1>6. T = {}
    <2> SUFFICES ASSUME T # {} PROVE FALSE
      OBVIOUS
    <2>1. PICK k \in T : \A j \in T : k <= j
      <3>1. T \in SUBSET Nat
        OBVIOUS
      <3> HIDE DEF T
      <3> QED BY <3>1, LeastElement
    <2>2. /\ k \in 1..n /\ k - 1 \in Nat /\ k - 1 <= n /\ k - 1 \notin T /\ k - 1 \in 0..n
          /\ ~(h[k].result = -1 \/ ReadTo(h[k], k, r, cache, x))
      <3>1. k \in Nat /\ k <= n /\ k # 0 /\ ~(h[k].result = -1 \/ ReadTo(h[k], k, r, cache, x))
        BY <1>5, <2>1
      <3>2. k - 1 \notin T
        <4> HIDE DEF T
        <4> QED BY <2>1, <3>1
      <3> QED BY <1>1, <3>1, <3>2
    <2>3. h[k - 1].result = -1 \/ ReadTo(h[k - 1], k - 1, r, cache, x)
      BY <2>2
    <2>4. h[k - 1] \in States(t) /\ h[k] = DecodeField(r, h[k - 1], k)
      BY <1>3, <2>2
    <2>5. DecodeField(r, h[k - 1], k).result = -1 \/ ReadTo(DecodeField(r, h[k - 1], k), k, r, cache, x)
      BY <2>2, <2>3, <2>4, FieldDecoded
    <2> QED BY <2>2, <2>4, <2>5
  <1>7. ReadTo(d, n, r, cache, x)
    <2>1. n \notin T
      BY <1>6
    <2>2. d.result = -1 \/ ReadTo(d, n, r, cache, x)
      BY <1>1, <1>3, <2>1
    <2> QED BY <2>2 DEF d
  <1>8. d.rest = <<>>
    <2>1. d \in States(t)
      <3>1. n \in 0..n
        BY <1>1
      <3> QED BY <1>3, <3>1
    <2>2. d.rest \in Seq(Values)
      BY <2>1 DEF States
    <2>3. Len(d.rest) = 0
      BY <1>2, <1>4, <1>7 DEF ReadTo
    <2> QED BY <2>2, <2>3
  <1>9. \A i \in Fields(t) : /\ Accessible(Template[t][i]) => d.cache[i] = r.sent[i]
                             /\ FieldGood(r, d.out[i], i)
    BY <1>1, <1>7 DEF ReadTo
  <1>10. AllPass(r)
    BY <1>1, <1>7 DEF ReadTo, AllPass
  <1> QED BY <1>8, <1>9, <1>10 DEF d

(* Whatever becomes of a record, the message and the cache are of the template. *)
LEMMA MessageType ==
  ASSUME NEW t \in DOMAIN Template, NEW r \in Records, r.template = t, NEW cache \in Cached(t)
  PROVE  DecodeMessage(r, cache) \in States(t)
  <1> DEFINE n == Len(Template[t])
  <1>1. n \in Nat
    <2>1. n \in 1..31
      BY TemplateType
    <2> HIDE DEF n
    <2> QED BY <2>1
  <1>2. r.body \in Seq(Values) /\ n \in 0..n
    BY <1>1 DEF Records
  <1>3. PICK h \in [0..n -> States(t)] :
           /\ h[0] = [rest |-> r.body, out |-> Zeros(t), cache |-> cache, result |-> 0]
           /\ h[n] = DecodeMessage(r, cache)
           /\ \A i \in 1..n : h[i] = DecodeField(r, h[i - 1], i)
    BY <1>2, DecodeRuns
  <1> QED BY <1>2, <1>3

(* A full record fits every cache. *)
LEMMA FullFits ==
  ASSUME NEW t \in DOMAIN Template, NEW r \in Records, r.template = t, r.pmap = {FullBit},
         r.body = r.sent, Len(r.body) = Len(Template[t]), NEW cache \in Cached(t)
  PROVE  \E x : Fits(r, cache, x)
  <1> DEFINE n == Len(Template[t])
             x == [i \in 0..n |-> i]
  <1>1. n \in Nat
    <2>1. n \in 1..31
      BY TemplateType
    <2> HIDE DEF n
    <2> QED BY <2>1
  <1>2. x \in [0..n -> 0..Len(r.body)] /\ x[0] = 0 /\ x[n] = Len(r.body)
    <2> HIDE DEF n
    <2>1. n = Len(r.body)
      BY DEF n
    <2> QED BY <1>1, <2>1
  <1>3. \A i \in 1..n : x[i] = i /\ x[i] = x[i - 1] + 1
    <2> HIDE DEF n
    <2> QED BY <1>1
  <1> HIDE DEF x
  <1>4. ASSUME NEW i \in 1..n PROVE FieldFits(r, cache, x, i)
    <2>1. IsFull(Template[t][i], r.pmap)
      BY DEF IsFull
    <2>2. Restored(Template[t][i], r.pmap, r.body[x[i]], cache[i]) = r.sent[i]
      BY <1>3, <2>1 DEF Restored
    <2>3. Takes(Template[t][i], i, r.pmap)
      BY <2>1 DEF Takes
    <2> QED BY <1>3, <2>2, <2>3 DEF FieldFits
  <1>5. Fits(r, cache, x)
    BY <1>2, <1>4 DEF Fits
  <1> QED BY <1>5

(* What a field has pushed stays where it is. *)
LEMMA BodyPrefix ==
  ASSUME NEW t \in DOMAIN Template, NEW written, NEW values \in Cached(t), NEW cached \in Cached(t),
         NEW b \in [0..Len(Template[t]) -> Seq(Values)], Turns(b, t, written, values, cached),
         NEW i \in 0..Len(Template[t])
  PROVE  LET B == b[Len(Template[t])]
         IN  Len(b[i]) <= Len(B) /\ \A j \in 1..Len(b[i]) : B[j] = b[i][j]
  <1> DEFINE n == Len(Template[t])
             T == {k \in Nat : i + k <= n /\
                     ~(/\ Len(b[i]) <= Len(b[i + k])
                       /\ \A j \in 1..Len(b[i]) : b[i + k][j] = b[i][j])}
  <1>1. n \in Nat /\ Fields(t) = 1..n /\ i \in Nat /\ i <= n /\ n - i \in Nat
    <2>1. n \in 1..31 /\ Fields(t) = 1..n /\ i \in 0..n
      BY TemplateType
    <2> HIDE DEF n
    <2> QED BY <2>1
  <1>2. T = {}
    <2> SUFFICES ASSUME T # {} PROVE FALSE
      OBVIOUS
    <2>1. PICK k \in T : \A j \in T : k <= j
      <3>1. T \in SUBSET Nat
        OBVIOUS
      <3> HIDE DEF T
      <3> QED BY <3>1, LeastElement
    <2>2. /\ k \in Nat /\ i + k <= n
          /\ ~(/\ Len(b[i]) <= Len(b[i + k])
               /\ \A j \in 1..Len(b[i]) : b[i + k][j] = b[i][j])
      BY <2>1
    <2>3. i + 0 = i /\ Len(b[i]) <= Len(b[i])
      BY <1>1
    <2>4. k # 0
      BY <2>2, <2>3
    <2>5. k - 1 \in Nat /\ i + (k - 1) <= n /\ k - 1 \notin T
      <3>1. k - 1 \in Nat /\ i + (k - 1) <= n /\ ~(k <= k - 1)
        BY <1>1, <2>2, <2>4
      <3> HIDE DEF T
      <3> QED BY <2>1, <3>1
    <2> DEFINE m == i + (k - 1)
    <2>6. /\ Len(b[i]) <= Len(b[m])
          /\ \A j \in 1..Len(b[i]) : b[m][j] = b[i][j]
      BY <2>5
    <2>7. m \in Nat /\ m \in 0..n /\ i + k = m + 1 /\ m + 1 \in 1..n /\ (m + 1) - 1 = m
      BY <1>1, <2>2, <2>4
    <2> HIDE DEF m, T
    <2>8. b[i] \in Seq(Values) /\ b[m] \in Seq(Values)
      BY <2>7
    <2>9. values[m + 1] \in Values /\ cached[m + 1] \in Values
      BY <1>1, <2>7 DEF Cached
    <2> DEFINE w == Written(Template[t][m + 1], values[m + 1], cached[m + 1])
    <2>10. w \in Values
      BY <2>9, WrittenType
    <2>11. b[m + 1] = IF m + 1 \in written THEN Append(b[m], w) ELSE b[m]
      BY <2>7 DEF Turns
    <2> HIDE DEF w
    <2>12. /\ Len(b[m]) <= Len(b[m + 1])
           /\ \A j \in 1..Len(b[m]) : b[m + 1][j] = b[m][j]
      BY <2>8, <2>10, <2>11
    <2>13. \A j \in 1..Len(b[i]) : j \in 1..Len(b[m])
      BY <2>6, <2>8
    <2> QED BY <2>2, <2>6, <2>7, <2>8, <2>12, <2>13
  <1>3. n - i \notin T /\ i + (n - i) = n /\ i + (n - i) <= n
    <2> HIDE DEF T, n
    <2> QED BY <1>1, <1>2
  <1> QED BY <1>1, <1>3

(* A record of a known entry fits every cache that agrees with the encoder's. *)
LEMMA KnownFits ==
  ASSUME NEW t \in DOMAIN Template, NEW r \in Records, r.template = t, NEW noise,
         NEW cached \in Cached(t), NEW cache \in Cached(t), r.sent \in Cached(t),
         r.pmap = {i \in Fields(t) : Sends(Template[t][i], r.sent[i], cached[i], noise)},
         r.body = Body(t, r.pmap, r.sent, cached),
         \A i \in Fields(t) : Accessible(Template[t][i]) => cache[i] = cached[i]
  PROVE  \E x : Fits(r, cache, x)
  <1> DEFINE n == Len(Template[t])
             W == r.pmap
  <1>1. n \in Nat /\ n <= 31 /\ Fields(t) = 1..n
    <2>1. n \in 1..31 /\ Fields(t) = 1..n
      BY TemplateType
    <2> HIDE DEF n
    <2> QED BY <2>1
  <1>2. PICK b \in [0..n -> Seq(Values)] :
          /\ b[0] = <<>>
          /\ b[n] = r.body
          /\ Turns(b, t, W, r.sent, cached)
    <2>1. PICK b \in [0..n -> Seq(Values)] :
            /\ b[0] = <<>>
            /\ b[n] = Body(t, W, r.sent, cached)
            /\ Turns(b, t, W, r.sent, cached)
      BY BodyRuns
    <2> QED BY <2>1
  <1> DEFINE x == [i \in 0..n |-> Len(b[i])]
  <1> HIDE DEF W
  <1>3. ASSUME NEW i \in 0..n
        PROVE  Len(b[i]) <= Len(r.body) /\ \A j \in 1..Len(b[i]) : r.body[j] = b[i][j]
    <2>1. Turns(b, t, W, r.sent, cached)
      BY <1>2
    <2>2. Len(b[i]) <= Len(b[n]) /\ \A j \in 1..Len(b[i]) : b[n][j] = b[i][j]
      BY <2>1, BodyPrefix
    <2> QED BY <1>2, <2>2
  <1>4. ASSUME NEW i \in 0..n PROVE b[i] \in Seq(Values) /\ Len(b[i]) \in Nat /\ x[i] = Len(b[i])
    <2>1. b[i] \in Seq(Values)
      BY <1>2
    <2> HIDE DEF n
    <2> QED BY <2>1
  <1>5. 0 \in 0..n /\ n \in 0..n
    BY <1>1
  <1>6. x \in [0..n -> 0..Len(r.body)]
    <2>1. x = [i \in 0..n |-> x[i]]
      OBVIOUS
    <2>2. ASSUME NEW i \in 0..n PROVE x[i] \in 0..Len(r.body)
      <3>1. Len(r.body) \in Nat
        BY <1>2, <1>4, <1>5
      <3> HIDE DEF n, x
      <3> QED BY <1>3, <1>4, <3>1
    <2> HIDE DEF n, x
    <2> QED BY <2>1, <2>2
  <1>7. x[0] = 0 /\ x[n] = Len(r.body)
    <2> HIDE DEF x
    <2> QED BY <1>2, <1>4, <1>5
  <1>8. ASSUME NEW i \in 1..n PROVE FieldFits(r, cache, x, i)
    <2> DEFINE field == Template[t][i]
               w == Written(field, r.sent[i], cached[i])
    <2>1. i \in Fields(t) /\ i \in 0..n /\ i - 1 \in 0..n /\ i # FullBit /\ field \in FieldKinds
      <3>0. i \in Fields(t)
        BY <1>1
      <3>1. i \in 1..31 /\ i \in 0..n /\ i - 1 \in 0..n /\ i \in Fields(t)
        <4>1. n \in Nat /\ n <= 31
          BY <1>1
        <4> HIDE DEF n
        <4>2. i \in 1..31 /\ i \in 0..n /\ i - 1 \in 0..n
          BY <4>1
        <4> QED BY <3>0, <4>2
      <3>2. field \in FieldKinds
        BY <3>1, TemplateType
      <3> QED BY <3>1, <3>2 DEF FullBit
    <2>2. r.sent[i] \in Values /\ cached[i] \in Values
      BY <2>1 DEF Cached
    <2>3. w \in Values
      BY <2>2, WrittenType
    <2>4. FullBit \notin r.pmap
      BY <1>1 DEF FullBit
    <2>5. ~IsFull(field, r.pmap)
      BY <2>4 DEF IsFull
    <2>6. i \in r.pmap <=> Sends(field, r.sent[i], cached[i], noise)
      BY <2>1
    <2>7. field.action \in {"copy", "delta"}
      BY <2>1 DEF FieldKinds
    <2>8. Takes(field, i, r.pmap) <=> i \in r.pmap
      BY <2>5, <2>6, <2>7 DEF Takes, Sends
    <2>9. b[i] = IF i \in r.pmap THEN Append(b[i - 1], w) ELSE b[i - 1]
      BY <1>2 DEF Turns, W
    <2>10. CASE i \in r.pmap
      <3> HIDE DEF w
      <3>1. Len(b[i]) = Len(b[i - 1]) + 1 /\ b[i][Len(b[i])] = w /\ Len(b[i]) \in 1..Len(b[i])
        BY <1>4, <2>1, <2>3, <2>9, <2>10
      <3>2. x[i] = x[i - 1] + 1 /\ r.body[x[i]] = w
        <4> HIDE DEF x
        <4>1. x[i] = Len(b[i]) /\ x[i - 1] = Len(b[i - 1])
          BY <1>4, <2>1
        <4>2. r.body[Len(b[i])] = b[i][Len(b[i])]
          BY <1>3, <2>1, <3>1
        <4> QED BY <3>1, <4>1, <4>2
      <3>3. ASSUME Accessible(field)
            PROVE  Restored(field, r.pmap, w, cache[i]) = r.sent[i]
        <4>1. cache[i] = cached[i]
          BY <2>1, <3>3
        <4>2. CASE field.action = "copy"
          BY <4>2 DEF Restored, w, Written
        <4>3. CASE field.action = "delta"
          <5>1. Restored(field, r.pmap, w, cache[i])
                = (cached[i] + ((r.sent[i] - cached[i]) % Width)) % Width
            BY <2>5, <4>1, <4>3 DEF Restored, w, Written, Delta
          <5> QED BY <2>2, <5>1, ValueType
        <4> QED BY <2>7, <4>2, <4>3
      <3> HIDE DEF x
      <3> QED BY <2>8, <2>10, <3>2, <3>3 DEF FieldFits
    <2>11. CASE i \notin r.pmap
      <3>1. x[i] = x[i - 1]
        <4> HIDE DEF x
        <4> QED BY <1>4, <2>1, <2>9, <2>11
      <3>2. ASSUME Accessible(field), field.action # "delta" PROVE cache[i] = r.sent[i]
        BY <2>1, <2>6, <2>7, <2>11, <3>2 DEF Sends
      <3> HIDE DEF x
      <3> QED BY <2>8, <2>11, <3>1, <3>2 DEF FieldFits
    <2> QED BY <2>10, <2>11
  <1> HIDE DEF x
  <1>9. Fits(r, cache, x)
    BY <1>6, <1>7, <1>8 DEF Fits
  <1> QED BY <1>9

-----------------------------------------------------------------------------
(* Both contexts' caches, and what one record does to them. *)

EncoderCaches(e) ==
  /\ e \in [DOMAIN Template -> Seq([token : Tokens, values : Seq(Values)])]
  /\ \A t \in DOMAIN Template : \A i \in 1..Len(e[t]) : e[t][i].values \in Cached(t)

\* What an array of template t holds: entries, and nulls for those that were skipped.
Entries(t, caches) ==
  caches \in Seq(Seq(Values)) /\ \A i \in 1..Len(caches) : caches[i] = Null \/ caches[i] \in Cached(t)

DecoderCaches ==
  {d \in [DecoderKnows -> Seq(Seq(Values))] : \A t \in DecoderKnows : Entries(t, d[t])}

Agree(t, cache, values) ==
  \A i \in Fields(t) : Accessible(Template[t][i]) => cache[i] = values[i]

\* The decoder has no more entries than the encoder, and those that are not in
\* sp it has, with the encoder's values.
InStep(d, e, sp) ==
  \A t \in DecoderKnows :
    /\ Len(d[t]) <= Len(e[t])
    /\ \A i \in 1..Len(e[t]) :
         <<t, i>> \notin sp => i <= Len(d[t]) /\ d[t][i] # Null /\ Agree(t, d[t][i], e[t][i].values)

\* Encoding record r takes the encoder's caches from e to e2.
Encodes(e, r, e2) ==
  LET t == r.template IN
  /\ r \in Records /\ r.index \in 1..Len(e2[t])
  /\ \A u \in DOMAIN Template : u # t => e2[u] = e[u]
  /\ Len(e[t]) <= Len(e2[t])
  /\ \A i \in 1..Len(e[t]) : i # r.index => e2[t][i] = e[t][i]
  /\ \A i \in 1..Len(e2[t]) : i > Len(e[t]) => i = r.index
  /\ AllPass(r) => Agree(t, r.sent, e2[t][r.index].values)
  /\ \A cache \in Cached(t) :
       (r.index <= Len(e[t]) => Agree(t, cache, e[t][r.index].values)) => \E x : Fits(r, cache, x)

(* A cached message is a sequence of values, and not a null pointer. *)
LEMMA CachedValues ==
  ASSUME NEW t \in DOMAIN Template, NEW cache \in Cached(t)
  PROVE  cache \in Seq(Values) /\ cache # Null /\ DOMAIN cache = Fields(t)
  <1> DEFINE n == Len(Template[t])
  <1>1. n \in Nat /\ n # 0 /\ Fields(t) = 1..n
    <2>1. n \in 1..31 /\ Fields(t) = 1..n
      BY TemplateType
    <2> HIDE DEF n
    <2> QED BY <2>1
  <1> HIDE DEF n
  <1>2. cache \in [1..n -> Values]
    BY <1>1 DEF Cached
  <1>3. cache \in Seq(Values) /\ Len(cache) = n
    BY <1>1, <1>2
  <1> QED BY <1>1, <1>2, <1>3 DEF Null

(* The sizes of the arrays are numbers. *)
LEMMA ArraySizes ==
  /\ \A e : EncoderCaches(e) => \A t \in DOMAIN Template : Len(e[t]) \in Nat
  /\ \A d \in DecoderCaches : \A t \in DecoderKnows : Len(d[t]) \in Nat
  /\ DecoderKnows \subseteq DOMAIN Template
  <1>1. ASSUME NEW e, EncoderCaches(e), NEW t \in DOMAIN Template PROVE Len(e[t]) \in Nat
    <2>1. e[t] \in Seq([token : Tokens, values : Seq(Values)])
      BY <1>1 DEF EncoderCaches
    <2> QED BY <2>1
  <1>2. ASSUME NEW d \in DecoderCaches, NEW t \in DecoderKnows PROVE Len(d[t]) \in Nat
    <2>1. d[t] \in Seq(Seq(Values))
      BY DEF DecoderCaches
    <2> QED BY <2>1
  <1> QED BY <1>1, <1>2, CompressorAssumption

(* A record that is not decoded leaves its own entry behind, and no other. *)
LEMMA Skipped ==
  ASSUME NEW e, EncoderCaches(e), NEW e2, EncoderCaches(e2), NEW r, Encodes(e, r, e2),
         NEW d \in DecoderCaches, NEW sp, InStep(d, e, sp)
  PROVE  InStep(d, e2, sp \cup {Entry(r)})
  <1> SUFFICES ASSUME NEW t \in DecoderKnows
               PROVE  /\ Len(d[t]) <= Len(e2[t])
                      /\ \A i \in 1..Len(e2[t]) : <<t, i>> \notin sp \cup {Entry(r)} =>
                           i <= Len(d[t]) /\ d[t][i] # Null /\ Agree(t, d[t][i], e2[t][i].values)
    BY DEF InStep
  <1>1. /\ Len(e[t]) \in Nat /\ Len(e2[t]) \in Nat /\ Len(d[t]) \in Nat /\ t \in DOMAIN Template
        /\ Len(d[t]) <= Len(e[t])
    BY ArraySizes DEF InStep
  <1>2. CASE t # r.template
    BY <1>1, <1>2 DEF InStep, Encodes
  <1>3. CASE t = r.template
    <2>1. Len(e[t]) <= Len(e2[t])
      BY <1>3 DEF Encodes
    <2>2. ASSUME NEW i \in 1..Len(e2[t]), <<t, i>> \notin sp \cup {Entry(r)}
          PROVE  i <= Len(d[t]) /\ d[t][i] # Null /\ Agree(t, d[t][i], e2[t][i].values)
      <3>1. i # r.index
        BY <1>3, <2>2 DEF Entry
      <3>2. i \in 1..Len(e[t])
        BY <1>1, <1>3, <3>1 DEF Encodes
      <3>3. e2[t][i] = e[t][i]
        BY <1>3, <3>1, <3>2 DEF Encodes
      <3> QED BY <2>2, <3>2, <3>3 DEF InStep
    <2> QED BY <1>1, <2>1, <2>2
  <1> QED BY <1>2, <1>3

(* The array reaches up to the record's entry. *)
LEMMA ResizedTo ==
  ASSUME NEW t \in DOMAIN Template, NEW r \in Records, r.template = t,
         NEW old, Entries(t, old)
  PROVE  LET caches == Resized(old, r)
         IN  /\ Entries(t, caches) /\ r.index \in 1..Len(caches)
             /\ Len(caches) = IF r.index <= Len(old) THEN Len(old) ELSE r.index
             /\ \A i \in 1..Len(old) : caches[i] = old[i]
             /\ r.index > Len(old) => caches[r.index] = Zeros(t)
  <1> DEFINE k == r.index
             caches == Resized(old, r)
  <1>1. k \in Nat \ {0} /\ old \in Seq(Seq(Values)) /\ Len(old) \in Nat
    <2>1. old \in Seq(Seq(Values))
      BY DEF Entries
    <2> QED BY <2>1 DEF Records
  <1>2. CASE k <= Len(old)
    <2>1. caches = old
      BY <1>2 DEF Resized
    <2> HIDE DEF caches
    <2>2. k \in 1..Len(old) /\ ~(k > Len(old))
      <3> HIDE DEF k
      <3> QED BY <1>1, <1>2
    <2> QED BY <1>2, <2>1, <2>2 DEF caches
  <1>3. CASE ~(k <= Len(old))
    <2> DEFINE at(i) == IF i <= Len(old) THEN old[i] ELSE IF i = k THEN Zeros(t) ELSE Null
    <2>1. caches = [i \in 1..k |-> at(i)]
      BY <1>3 DEF Resized
    <2>2. Zeros(t) \in Cached(t)
      BY ValueType DEF Zeros, Cached
    <2>3. Zeros(t) \in Seq(Values) /\ Null \in Seq(Values)
      BY <2>2, CachedValues DEF Null
    <2>4. ASSUME NEW i \in 1..k
          PROVE  at(i) \in Seq(Values) /\ (at(i) = Null \/ at(i) \in Cached(t))
      <3>1. i \in Nat /\ (i <= Len(old) => i \in 1..Len(old))
        <4> HIDE DEF k
        <4> QED BY <1>1
      <3>2. i <= Len(old) => old[i] \in Seq(Values) /\ (old[i] = Null \/ old[i] \in Cached(t))
        BY <1>1, <3>1 DEF Entries
      <3> QED BY <2>2, <2>3, <3>2
    <2> HIDE DEF at, caches, k
    <2>5. caches \in Seq(Seq(Values)) /\ Len(caches) = k
      <3>1. caches \in [1..k -> Seq(Values)]
        BY <2>1, <2>4
      <3> QED BY <1>1, <3>1
    <2>6. \A i \in 1..k : caches[i] = at(i)
      BY <2>1
    <2>7. Entries(t, caches)
      BY <2>4, <2>5, <2>6 DEF Entries
    <2>8. \A i \in 1..Len(old) : i \in 1..k /\ at(i) = old[i]
      BY <1>1, <1>3 DEF at
    <2>9. k \in 1..k /\ at(k) = Zeros(t)
      BY <1>1, <1>3 DEF at
    <2>10. /\ k \in 1..Len(caches)
           /\ \A i \in 1..Len(old) : caches[i] = old[i]
           /\ caches[k] = Zeros(t)
      BY <2>5, <2>6, <2>8, <2>9
    <2> QED BY <1>3, <2>5, <2>7, <2>10 DEF k, caches
  <1> QED BY <1>2, <1>3

(* A null entry is one that was lost; another one that was not lost fits the record. *)
LEMMA EntryMet ==
  ASSUME NEW e, EncoderCaches(e), NEW e2, EncoderCaches(e2), NEW r, Encodes(e, r, e2),
         NEW d \in DecoderCaches, NEW sp, InStep(d, e, sp), NEW t \in DecoderKnows, r.template = t
  PROVE  LET c == Resized(d[t], r)[r.index]
         IN  /\ c = Null => Entry(r) \in sp
             /\ c # Null => c \in Cached(t)
             /\ c # Null /\ Entry(r) \notin sp => \E x : Fits(r, c, x)
  <1> DEFINE caches == Resized(d[t], r)
             c == caches[r.index]
             k == r.index
  <1>1. /\ r \in Records /\ t \in DOMAIN Template /\ Entries(t, d[t])
        /\ Len(e[t]) \in Nat /\ Len(d[t]) \in Nat /\ Len(d[t]) <= Len(e[t])
    BY ArraySizes DEF Encodes, DecoderCaches, InStep
  <1>2. k \in Nat \ {0}
    BY <1>1 DEF Records
  <1>3. /\ Entries(t, caches) /\ k \in 1..Len(caches)
        /\ \A i \in 1..Len(d[t]) : caches[i] = d[t][i]
        /\ k > Len(d[t]) => caches[k] = Zeros(t)
    BY <1>1, ResizedTo
  <1>4. Zeros(t) \in Cached(t)
    BY ValueType DEF Zeros, Cached
  <1>5. Zeros(t) # Null
    BY <1>1, <1>4, CachedValues
  <1> HIDE DEF caches
  <1>6. ASSUME c = Null PROVE Entry(r) \in sp
    <2>1. ~(k > Len(d[t]))
      BY <1>3, <1>5, <1>6
    <2>2. k \in 1..Len(d[t]) /\ k \in 1..Len(e[t])
      <3> HIDE DEF k
      <3> QED BY <1>1, <1>2, <2>1
    <2>3. d[t][k] = Null
      BY <1>3, <1>6, <2>2
    <2> QED BY <2>2, <2>3 DEF InStep, Entry
  <1>7. ASSUME c # Null PROVE c \in Cached(t)
    BY <1>3, <1>7 DEF Entries
  <1>8. ASSUME c # Null, Entry(r) \notin sp PROVE \E x : Fits(r, c, x)
    <2>1. ASSUME k <= Len(e[t]) PROVE Agree(t, c, e[t][k].values)
      <3>1. k \in 1..Len(e[t])
        <4> HIDE DEF k
        <4> QED BY <1>1, <1>2, <2>1
      <3>2. k <= Len(d[t]) /\ Agree(t, d[t][k], e[t][k].values)
        BY <1>8, <3>1 DEF InStep, Entry
      <3>3. k \in 1..Len(d[t])
        <4> HIDE DEF k
        <4> QED BY <1>1, <1>2, <3>2
      <3> QED BY <1>3, <3>2, <3>3
    <2>2. c \in Cached(t)
      BY <1>7, <1>8
    <2> HIDE DEF c
    <2> QED BY <2>1, <2>2 DEF Encodes
  <1> QED BY <1>6, <1>7, <1>8 DEF caches

(* A cached message that is stored in an entry leaves the arrays what they are. *)
LEMMA EntryStored ==
  ASSUME NEW d \in DecoderCaches, NEW t \in DecoderKnows, NEW r \in Records, r.template = t,
         NEW c \in Cached(t)
  PROVE  LET caches == Resized(d[t], r)
             new == [caches EXCEPT ![r.index] = c]
         IN  /\ [d EXCEPT ![t] = new] \in DecoderCaches
             /\ new \in Seq(Seq(Values)) /\ Len(new) = Len(caches)
             /\ \A i \in 1..Len(caches) : new[i] = IF i = r.index THEN c ELSE caches[i]
             /\ \A u \in DecoderKnows :
                  [d EXCEPT ![t] = new][u] = IF u = t THEN new ELSE d[u]
  <1> DEFINE caches == Resized(d[t], r)
             k == r.index
             new == [caches EXCEPT ![k] = c]
             d2 == [d EXCEPT ![t] = new]
  <1>1. t \in DOMAIN Template /\ Entries(t, d[t])
    BY ArraySizes DEF DecoderCaches
  <1>2. Entries(t, caches) /\ k \in 1..Len(caches)
    BY <1>1, ResizedTo
  <1>3. c \in Seq(Values) /\ c # Null
    BY <1>1, CachedValues
  <1> HIDE DEF caches, k
  <1>4. /\ new \in Seq(Seq(Values)) /\ Len(new) = Len(caches)
        /\ \A i \in 1..Len(caches) : new[i] = IF i = k THEN c ELSE caches[i]
    <2>1. caches \in Seq(Seq(Values))
      BY <1>2 DEF Entries
    <2> QED BY <1>2, <1>3, <2>1
  <1> HIDE DEF new
  <1>5. Entries(t, new)
    BY <1>2, <1>4 DEF Entries
  <1>6. \A u \in DecoderKnows : d2[u] = IF u = t THEN new ELSE d[u]
    BY DEF DecoderCaches
  <1>7. d2 \in DecoderCaches
    <2>1. d2 \in [DecoderKnows -> Seq(Seq(Values))]
      BY <1>4 DEF DecoderCaches
    <2>2. \A u \in DecoderKnows : Entries(u, d2[u])
      BY <1>5, <1>6 DEF DecoderCaches
    <2> HIDE DEF d2
    <2> QED BY <2>1, <2>2 DEF DecoderCaches
  <1> QED BY <1>4, <1>6, <1>7 DEF new, k, caches

(* The caches behind a record that was decoded, or failed, in an entry that is not null. *)
LEMMA EntryUpdated ==
  ASSUME NEW e, EncoderCaches(e), NEW e2, EncoderCaches(e2), NEW r, Encodes(e, r, e2),
         NEW d \in DecoderCaches, NEW sp, InStep(d, e, sp), NEW t \in DecoderKnows, r.template = t,
         NEW c \in Cached(t), NEW sq, sp \subseteq sq,
         Entry(r) \notin sq => Agree(t, c, r.sent) /\ AllPass(r)
  PROVE  LET d2 == [d EXCEPT ![t] = [Resized(d[t], r) EXCEPT ![r.index] = c]]
         IN  d2 \in DecoderCaches /\ InStep(d2, e2, sq)
  <1> DEFINE caches == Resized(d[t], r)
             k == r.index
             new == [caches EXCEPT ![k] = c]
             d2 == [d EXCEPT ![t] = new]
  <1>1. /\ r \in Records /\ t \in DOMAIN Template /\ Entries(t, d[t])
        /\ \A u \in DecoderKnows : /\ Len(e[u]) \in Nat /\ Len(e2[u]) \in Nat /\ Len(d[u]) \in Nat
                                   /\ Len(d[u]) <= Len(e[u]) /\ u \in DOMAIN Template
    BY ArraySizes DEF Encodes, DecoderCaches, InStep
  <1>2. /\ Entries(t, caches) /\ k \in 1..Len(caches)
        /\ Len(caches) = IF k <= Len(d[t]) THEN Len(d[t]) ELSE k
        /\ \A i \in 1..Len(d[t]) : caches[i] = d[t][i]
    <2>1. r \in Records /\ t \in DOMAIN Template /\ Entries(t, d[t])
      BY <1>1
    <2> QED BY <2>1, ResizedTo
  <1>3. c \in Seq(Values) /\ c # Null
    BY <1>1, CachedValues
  <1>4. /\ d2 \in DecoderCaches
        /\ new \in Seq(Seq(Values)) /\ Len(new) = Len(caches)
        /\ \A i \in 1..Len(caches) : new[i] = IF i = k THEN c ELSE caches[i]
        /\ \A u \in DecoderKnows : d2[u] = IF u = t THEN new ELSE d[u]
    <2>1. r \in Records
      BY <1>1
    <2> QED BY <2>1, EntryStored
  <1> HIDE DEF caches, k, new
  <1>6. d2[t] = new /\ \A u \in DecoderKnows : u # t => d2[u] = d[u]
    BY <1>4
  <1>7. d2 \in DecoderCaches
    BY <1>4
  <1> HIDE DEF d2
  <1>8. ASSUME NEW u \in DecoderKnows
        PROVE  /\ Len(d2[u]) <= Len(e2[u])
               /\ \A i \in 1..Len(e2[u]) : <<u, i>> \notin sq =>
                    i <= Len(d2[u]) /\ d2[u][i] # Null /\ Agree(u, d2[u][i], e2[u][i].values)
    <2>1. CASE u # t
      <3>1. d2[u] = d[u] /\ e2[u] = e[u]
        BY <1>1, <1>6, <2>1 DEF Encodes
      <3>2. \A i : <<u, i>> \notin sq => <<u, i>> \notin sp
        OBVIOUS
      <3> QED BY <3>1, <3>2 DEF InStep
    <2>2. CASE u = t
      <3>1. /\ k \in 1..Len(e2[t]) /\ Len(e[t]) <= Len(e2[t])
            /\ AllPass(r) => Agree(t, r.sent, e2[t][k].values)
        BY DEF Encodes, k
      <3>2. Len(d2[t]) <= Len(e2[t])
        BY <1>1, <1>2, <1>4, <1>6, <3>1
      <3>3. ASSUME NEW i \in 1..Len(e2[t]), <<t, i>> \notin sq
            PROVE  i <= Len(d2[t]) /\ d2[t][i] # Null /\ Agree(t, d2[t][i], e2[t][i].values)
        <4>1. CASE i = k
          <5>1. Entry(r) \notin sq
            BY <3>3, <4>1 DEF Entry, k
          <5>2. d2[t][i] = c /\ i <= Len(d2[t])
            BY <1>2, <1>4, <1>6, <4>1
          <5> QED BY <1>3, <3>1, <4>1, <5>1, <5>2 DEF Agree
        <4>2. CASE i # k
          <5>1. i \in 1..Len(e[t])
            BY <1>1, <4>2 DEF Encodes, k
          <5>2. e2[t][i] = e[t][i]
            BY <4>2, <5>1 DEF Encodes, k
          <5>3. <<t, i>> \notin sp
            BY <3>3
          <5>4. i <= Len(d[t]) /\ d[t][i] # Null /\ Agree(t, d[t][i], e[t][i].values)
            BY <5>1, <5>3 DEF InStep
          <5>5. i \in 1..Len(d[t]) /\ i \in 1..Len(caches) /\ i <= Len(new)
            BY <1>1, <1>2, <1>4, <5>1, <5>4
          <5>6. d2[t][i] = d[t][i]
            BY <1>2, <1>4, <1>6, <4>2, <5>5
          <5> QED BY <1>6, <5>2, <5>4, <5>5, <5>6
        <4> QED BY <4>1, <4>2
      <3> QED BY <2>2, <3>2, <3>3
    <2> QED BY <2>1, <2>2
  <1>9. InStep(d2, e2, sq)
    BY <1>8 DEF InStep
  <1> QED BY <1>7, <1>9 DEF d2, new, caches, k

-----------------------------------------------------------------------------
(* The loop of Context::decode. *)

Messages == [record : Records, out : Seq(Values), rest : Seq(Values)]

LoopStates == [caches : DecoderCaches, messages : Seq(Messages),
               end : {"none", "unknown", "failed", "crash"}, left : Seq(Records)]

EntriesOf(records) == {Entry(r) : r \in ToSet(records)}

\* What DecodedAsEncoded says of a message.
Faithful(m) ==
  /\ m.rest = <<>>
  /\ \A i \in DOMAIN m.out : FieldGood(m.record, m.out[i], i)

LoopInv(s, e, sp) ==
  /\ s \in LoopStates
  /\ s.end = "none" <=> s.left = <<>>
  /\ InStep(s.caches, e, sp \cup EntriesOf(s.left))
  /\ \A k \in 1..Len(s.messages) :
       Entry(s.messages[k].record) \notin sp => Faithful(s.messages[k])
  /\ s.end = "crash" => Entry(Head(s.left)) \in sp

(* The entries of a sequence of records. *)
LEMMA EntriesIn ==
  /\ EntriesOf(<<>>) = {}
  /\ \A r \in Records : EntriesOf(<<r>>) = {Entry(r)}
  /\ \A q \in Seq(Records), r \in Records : EntriesOf(Append(q, r)) = EntriesOf(q) \cup {Entry(r)}
  <1>1. EntriesOf(<<>>) = {}
    BY DEF EntriesOf, ToSet
  <1>2. ASSUME NEW r \in Records PROVE EntriesOf(<<r>>) = {Entry(r)}
    <2>1. ToSet(<<r>>) = {r}
      BY DEF ToSet
    <2> QED BY <2>1 DEF EntriesOf
  <1>3. ASSUME NEW q \in Seq(Records), NEW r \in Records
        PROVE  EntriesOf(Append(q, r)) = EntriesOf(q) \cup {Entry(r)}
    <2> DEFINE p == Append(q, r)
    <2>1. /\ p \in Seq(Records) /\ Len(p) = Len(q) + 1 /\ p[Len(q) + 1] = r
          /\ \A i \in 1..Len(q) : p[i] = q[i]
          /\ DOMAIN p = 1..Len(p) /\ DOMAIN q = 1..Len(q) /\ Len(q) \in Nat
      OBVIOUS
    <2> HIDE DEF p
    <2>2. \A i \in 1..Len(p) : i \in 1..Len(q) \/ i = Len(q) + 1
      BY <2>1
    <2>3. \A i \in 1..Len(q) : i \in 1..Len(p)
      BY <2>1
    <2>4. Len(q) + 1 \in 1..Len(p)
      BY <2>1
    <2>5. ToSet(p) = ToSet(q) \cup {r}
      BY <2>1, <2>2, <2>3, <2>4 DEF ToSet
    <2> QED BY <2>5 DEF EntriesOf, p
  <1> QED BY <1>1, <1>2, <1>3

(* What one turn of the loop makes of its state. *)
LEMMA LoopTurns ==
  ASSUME NEW s \in LoopStates, NEW r, NEW t, r.template = t
  PROVE  LET caches == Resized(s.caches[t], r)
             d == DecodeMessage(r, caches[r.index])
             kept == [s.caches EXCEPT ![t] = [caches EXCEPT ![r.index] = d.cache]]
             out == DecodeRecord(s, r)
         IN  /\ s.end # "none" =>
                  out = [caches |-> s.caches, messages |-> s.messages, end |-> s.end,
                         left |-> Append(s.left, r)]
             /\ s.end = "none" /\ t \notin DecoderKnows =>
                  out = [caches |-> s.caches, messages |-> s.messages, end |-> "unknown",
                         left |-> <<r>>]
             /\ s.end = "none" /\ t \in DecoderKnows /\ caches[r.index] = Null =>
                  out = [caches |-> s.caches, messages |-> s.messages, end |-> "crash",
                         left |-> <<r>>]
             /\ /\ s.end = "none" /\ t \in DecoderKnows /\ caches[r.index] # Null
                /\ d.result = -1
                => out = [caches |-> kept, messages |-> <<>>, end |-> "failed", left |-> <<r>>]
             /\ /\ s.end = "none" /\ t \in DecoderKnows /\ caches[r.index] # Null
                /\ d.result # -1
                => out = [caches |-> kept, end |-> s.end, left |-> s.left,
                          messages |-> Append(s.messages,
                                              [record |-> r, out |-> d.out, rest |-> d.rest])]
  <1> DEFINE caches == Resized(s.caches[t], r)
             d == DecodeMessage(r, caches[r.index])
             kept == [s.caches EXCEPT ![t] = [caches EXCEPT ![r.index] = d.cache]]
             msgs == Append(s.messages, [record |-> r, out |-> d.out, rest |-> d.rest])
             k == [s EXCEPT !.caches[t] = [caches EXCEPT ![r.index] = d.cache]]
  <1>1. /\ [s EXCEPT !.left = Append(@, r)]
           = [caches |-> s.caches, messages |-> s.messages, end |-> s.end, left |-> Append(s.left, r)]
        /\ \A x : [s EXCEPT !.end = x, !.left = <<r>>]
                  = [caches |-> s.caches, messages |-> s.messages, end |-> x, left |-> <<r>>]
    <2>1. [s EXCEPT !.left = Append(@, r)]
          = [caches |-> s.caches, messages |-> s.messages, end |-> s.end, left |-> Append(s.left, r)]
      <3> DEFINE y == Append(s.left, r)
      <3> HIDE DEF y
      <3>1. [s EXCEPT !.left = y]
            = [caches |-> s.caches, messages |-> s.messages, end |-> s.end, left |-> y]
        BY DEF LoopStates
      <3> QED BY <3>1 DEF y
    <2>2. ASSUME NEW x
          PROVE  [s EXCEPT !.end = x, !.left = <<r>>]
                 = [caches |-> s.caches, messages |-> s.messages, end |-> x, left |-> <<r>>]
      <3> DEFINE y == <<r>>  a == s.caches  m == s.messages  l == s.left
      <3> HIDE DEF y
      <3>1. [s EXCEPT !.end = x] = [caches |-> a, messages |-> m, end |-> x, left |-> l]
        BY DEF LoopStates
      <3> HIDE DEF a, m, l
      <3>2. [[caches |-> a, messages |-> m, end |-> x, left |-> l] EXCEPT !.left = y]
            = [caches |-> a, messages |-> m, end |-> x, left |-> y]
        OBVIOUS
      <3>3. [s EXCEPT !.end = x, !.left = y] = [[s EXCEPT !.end = x] EXCEPT !.left = y]
        OBVIOUS
      <3> QED BY <3>1, <3>2, <3>3, Zenon DEF y, a, m, l
    <2> QED BY <2>1, <2>2
  <1>2. k = [caches |-> kept, messages |-> s.messages, end |-> s.end, left |-> s.left]
    <2>1. k = [s EXCEPT !.caches = kept]
      <3> HIDE DEF caches, d
      <3> QED OBVIOUS
    <2> HIDE DEF kept
    <2>2. [s EXCEPT !.caches = kept]
          = [caches |-> kept, messages |-> s.messages, end |-> s.end, left |-> s.left]
      BY DEF LoopStates
    <2> HIDE DEF k
    <2> QED BY <2>1, <2>2
  <1>3. /\ [k EXCEPT !.end = "failed", !.messages = <<>>, !.left = <<r>>]
           = [caches |-> kept, messages |-> <<>>, end |-> "failed", left |-> <<r>>]
        /\ [k EXCEPT !.messages = Append(@, [record |-> r, out |-> d.out, rest |-> d.rest])]
           = [caches |-> kept, messages |-> msgs, end |-> s.end, left |-> s.left]
    <2> DEFINE m == s.messages  f == s.end  l == s.left  y == <<r>>
               x == [record |-> r, out |-> d.out, rest |-> d.rest]
    <2>1. k = [caches |-> kept, messages |-> m, end |-> f, left |-> l]
      BY <1>2
    <2> HIDE DEF k, kept, m, f, l, y, x
    <2>2. [k EXCEPT !.end = "failed"]
          = [caches |-> kept, messages |-> m, end |-> "failed", left |-> l]
      BY <2>1
    <2>3. [[caches |-> kept, messages |-> m, end |-> "failed", left |-> l] EXCEPT !.messages = <<>>]
          = [caches |-> kept, messages |-> <<>>, end |-> "failed", left |-> l]
      OBVIOUS
    <2>4. [[caches |-> kept, messages |-> <<>>, end |-> "failed", left |-> l] EXCEPT !.left = y]
          = [caches |-> kept, messages |-> <<>>, end |-> "failed", left |-> y]
      OBVIOUS
    <2>5. [k EXCEPT !.end = "failed", !.messages = <<>>, !.left = y]
          = [[[k EXCEPT !.end = "failed"] EXCEPT !.messages = <<>>] EXCEPT !.left = y]
      OBVIOUS
    <2>6. [k EXCEPT !.end = "failed", !.messages = <<>>, !.left = y]
          = [caches |-> kept, messages |-> <<>>, end |-> "failed", left |-> y]
      BY <2>2, <2>3, <2>4, <2>5, Zenon
    <2>7. [k EXCEPT !.messages = Append(@, x)]
          = [caches |-> kept, messages |-> Append(m, x), end |-> f, left |-> l]
      BY <2>1
    <2> QED BY <2>6, <2>7, Zenon DEF m, f, l, y, x
  <1> HIDE DEF msgs
  <1>4. DecodeRecord(s, r)
        = IF s.end # "none" THEN [s EXCEPT !.left = Append(@, r)]
          ELSE IF t \notin DecoderKnows THEN [s EXCEPT !.end = "unknown", !.left = <<r>>]
          ELSE IF caches[r.index] = Null THEN [s EXCEPT !.end = "crash", !.left = <<r>>]
          ELSE IF d.result = -1
               THEN [k EXCEPT !.end = "failed", !.messages = <<>>, !.left = <<r>>]
               ELSE [k EXCEPT !.messages = Append(@, [record |-> r, out |-> d.out, rest |-> d.rest])]
    BY Zenon DEF DecodeRecord
  <1> QED BY <1>1, <1>3, <1>4, Zenon DEF msgs

(* Whatever records come, the state of the loop is one. *)
LEMMA LoopType ==
  ASSUME NEW s \in LoopStates, NEW r \in Records
  PROVE  DecodeRecord(s, r) \in LoopStates
  <1> DEFINE t == r.template
             caches == Resized(s.caches[t], r)
             c == caches[r.index]
             d == DecodeMessage(r, c)
             kept == [s.caches EXCEPT ![t] = [caches EXCEPT ![r.index] = d.cache]]
             m == [record |-> r, out |-> d.out, rest |-> d.rest]
             out == DecodeRecord(s, r)
  <1>1. /\ s.caches \in DecoderCaches /\ s.messages \in Seq(Messages)
        /\ s.end \in {"none", "unknown", "failed", "crash"} /\ s.left \in Seq(Records)
    BY DEF LoopStates
  <1>2. /\ s.end # "none" =>
             out = [caches |-> s.caches, messages |-> s.messages, end |-> s.end,
                    left |-> Append(s.left, r)]
        /\ s.end = "none" /\ t \notin DecoderKnows =>
             out = [caches |-> s.caches, messages |-> s.messages, end |-> "unknown",
                    left |-> <<r>>]
        /\ s.end = "none" /\ t \in DecoderKnows /\ c = Null =>
             out = [caches |-> s.caches, messages |-> s.messages, end |-> "crash",
                    left |-> <<r>>]
        /\ s.end = "none" /\ t \in DecoderKnows /\ c # Null /\ d.result = -1 =>
             out = [caches |-> kept, messages |-> <<>>, end |-> "failed", left |-> <<r>>]
        /\ s.end = "none" /\ t \in DecoderKnows /\ c # Null /\ d.result # -1 =>
             out = [caches |-> kept, end |-> s.end, left |-> s.left,
                    messages |-> Append(s.messages, m)]
    BY LoopTurns
  <1>3. ASSUME t \in DecoderKnows, c # Null
        PROVE  kept \in DecoderCaches /\ m \in Messages
    <2>1. t \in DOMAIN Template /\ Entries(t, s.caches[t])
      BY <1>1, <1>3, ArraySizes DEF DecoderCaches
    <2>2. Entries(t, caches) /\ r.index \in 1..Len(caches)
      BY <2>1, ResizedTo
    <2>3. c \in Cached(t)
      <3> HIDE DEF caches
      <3> QED BY <1>3, <2>2 DEF Entries
    <2>4. d \in States(t)
      <3> HIDE DEF c
      <3> QED BY <2>1, <2>3, MessageType
    <2> HIDE DEF d, c
    <2>5. d.cache \in Cached(t) /\ d.out \in Cached(t) /\ d.rest \in Seq(Values)
      BY <2>4 DEF States
    <2>6. kept \in DecoderCaches
      <3> DEFINE dc == d.cache
      <3>1. dc \in Cached(t)
        BY <2>5
      <3> HIDE DEF dc
      <3>2. [s.caches EXCEPT ![t] = [caches EXCEPT ![r.index] = dc]] \in DecoderCaches
        BY <1>1, <1>3, <3>1, EntryStored
      <3> QED BY <3>2 DEF dc
    <2>7. d.out \in Seq(Values)
      BY <2>1, <2>5, CachedValues
    <2> QED BY <2>5, <2>6, <2>7 DEF Messages
  <1>4. /\ Append(s.left, r) \in Seq(Records) /\ <<r>> \in Seq(Records)
        /\ <<>> \in Seq(Messages)
        /\ m \in Messages => Append(s.messages, m) \in Seq(Messages)
    <2> HIDE DEF m
    <2> QED BY <1>1
  <1>5. \/ s.end # "none"
        \/ s.end = "none" /\ t \notin DecoderKnows
        \/ s.end = "none" /\ t \in DecoderKnows /\ c = Null
        \/ s.end = "none" /\ t \in DecoderKnows /\ c # Null /\ d.result = -1
        \/ s.end = "none" /\ t \in DecoderKnows /\ c # Null /\ d.result # -1
    OBVIOUS
  <1> HIDE DEF caches, c, d, kept, m, out, t
  <1>6. out \in LoopStates
    <2>0. \A dc \in DecoderCaches, ms \in Seq(Messages), q \in Seq(Records),
             f \in {"none", "unknown", "failed", "crash"} :
            [caches |-> dc, messages |-> ms, end |-> f, left |-> q] \in LoopStates
      BY DEF LoopStates
    <2>1. CASE s.end # "none"
      BY <1>1, <1>2, <1>4, <2>0, <2>1
    <2>2. CASE s.end = "none" /\ t \notin DecoderKnows
      BY <1>1, <1>2, <1>4, <2>0, <2>2
    <2>3. CASE s.end = "none" /\ t \in DecoderKnows /\ c = Null
      BY <1>1, <1>2, <1>4, <2>0, <2>3
    <2>4. CASE s.end = "none" /\ t \in DecoderKnows /\ c # Null /\ d.result = -1
      BY <1>1, <1>2, <1>3, <1>4, <2>0, <2>4
    <2>5. CASE s.end = "none" /\ t \in DecoderKnows /\ c # Null /\ d.result # -1
      BY <1>1, <1>2, <1>3, <1>4, <2>0, <2>5
    <2> QED BY <1>5, <2>1, <2>2, <2>3, <2>4, <2>5
  <1> QED BY <1>6 DEF out

(* One record, and everything behind the first that is not decoded is left. *)
LEMMA LoopStep ==
  ASSUME NEW e, EncoderCaches(e), NEW e2, EncoderCaches(e2), NEW r, Encodes(e, r, e2),
         NEW sp, NEW s, LoopInv(s, e, sp)
  PROVE  LoopInv(DecodeRecord(s, r), e2, sp)
  <1> DEFINE t == r.template
             caches == Resized(s.caches[t], r)
             c == caches[r.index]
             d == DecodeMessage(r, c)
             kept == [s.caches EXCEPT ![t] = [caches EXCEPT ![r.index] = d.cache]]
             m == [record |-> r, out |-> d.out, rest |-> d.rest]
             out == DecodeRecord(s, r)
  <1>0. /\ s \in LoopStates /\ r \in Records /\ t \in DOMAIN Template
        /\ s.end = "none" <=> s.left = <<>>
        /\ InStep(s.caches, e, sp \cup EntriesOf(s.left))
        /\ \A k \in 1..Len(s.messages) :
             Entry(s.messages[k].record) \notin sp => Faithful(s.messages[k])
        /\ s.end = "crash" => Entry(Head(s.left)) \in sp
    BY DEF LoopInv, Encodes, Records
  <1>1. /\ s.caches \in DecoderCaches /\ s.messages \in Seq(Messages)
        /\ s.end \in {"none", "unknown", "failed", "crash"} /\ s.left \in Seq(Records)
    BY <1>0 DEF LoopStates
  <1>2. /\ s.end # "none" =>
             out = [caches |-> s.caches, messages |-> s.messages, end |-> s.end,
                    left |-> Append(s.left, r)]
        /\ s.end = "none" /\ t \notin DecoderKnows =>
             out = [caches |-> s.caches, messages |-> s.messages, end |-> "unknown",
                    left |-> <<r>>]
        /\ s.end = "none" /\ t \in DecoderKnows /\ c = Null =>
             out = [caches |-> s.caches, messages |-> s.messages, end |-> "crash",
                    left |-> <<r>>]
        /\ s.end = "none" /\ t \in DecoderKnows /\ c # Null /\ d.result = -1 =>
             out = [caches |-> kept, messages |-> <<>>, end |-> "failed", left |-> <<r>>]
        /\ s.end = "none" /\ t \in DecoderKnows /\ c # Null /\ d.result # -1 =>
             out = [caches |-> kept, end |-> s.end, left |-> s.left,
                    messages |-> Append(s.messages, m)]
    BY <1>0, LoopTurns
  <1>3. out \in LoopStates
    BY <1>0, LoopType
  <1>4. InStep(s.caches, e2, sp \cup EntriesOf(s.left) \cup {Entry(r)})
    BY <1>0, <1>1, Skipped
  <1>5. s.end = "none" => EntriesOf(s.left) = {} /\ InStep(s.caches, e, sp)
    <2> SUFFICES ASSUME s.end = "none"
                 PROVE  EntriesOf(s.left) = {} /\ InStep(s.caches, e, sp)
      OBVIOUS
    <2>1. EntriesOf(s.left) = {}
      BY <1>0, EntriesIn
    <2>2. sp \cup EntriesOf(s.left) = sp
      BY <2>1
    <2> QED BY <1>0, <2>1, <2>2
  <1>6. EntriesOf(<<r>>) = {Entry(r)} /\ EntriesOf(Append(s.left, r)) = EntriesOf(s.left) \cup {Entry(r)}
    BY <1>0, <1>1, EntriesIn
  <1>7. ASSUME s.end = "none", t \in DecoderKnows
        PROVE  /\ c = Null => Entry(r) \in sp
               /\ c # Null => c \in Cached(t)
               /\ c # Null /\ Entry(r) \notin sp => \E x : Fits(r, c, x)
    BY <1>1, <1>5, <1>7, EntryMet
  <1>8. ASSUME s.end = "none", t \in DecoderKnows, c # Null
        PROVE  /\ InStep(kept, e2, sp \cup {Entry(r)})
               /\ d.result # -1 => /\ InStep(kept, e2, sp)
                                   /\ Entry(r) \notin sp => Faithful(m)
    <2>1. c \in Cached(t)
      BY <1>7, <1>8
    <2> HIDE DEF c
    <2>2. d \in States(t)
      BY <1>0, <2>1, MessageType
    <2> DEFINE dc == d.cache
    <2>3. dc \in Cached(t) /\ d.out \in Cached(t)
      <3> HIDE DEF d
      <3> QED BY <2>2 DEF States
    <2>4. ASSUME d.result # -1, Entry(r) \notin sp
          PROVE  Agree(t, dc, r.sent) /\ AllPass(r) /\ Faithful(m)
      <3>1. PICK x : Fits(r, c, x)
        BY <1>7, <1>8, <2>4
      <3>2. /\ d.rest = <<>> /\ AllPass(r)
            /\ \A i \in Fields(t) : /\ Accessible(Template[t][i]) => d.cache[i] = r.sent[i]
                                    /\ FieldGood(r, d.out[i], i)
        BY <1>0, <2>1, <2>4, <3>1, MessageDecoded
      <3> HIDE DEF d
      <3>3. DOMAIN d.out = Fields(t)
        BY <1>0, <2>3, CachedValues
      <3>4. m.record = r /\ m.out = d.out /\ m.rest = d.rest
        OBVIOUS
      <3> QED BY <3>2, <3>3, <3>4 DEF Faithful, Agree
    <2> HIDE DEF dc, m, d
    <2>5. InStep([s.caches EXCEPT ![t] = [caches EXCEPT ![r.index] = dc]], e2, sp \cup {Entry(r)})
      <3>1. sp \subseteq sp \cup {Entry(r)} /\ Entry(r) \in sp \cup {Entry(r)}
        OBVIOUS
      <3> QED BY <1>1, <1>5, <1>8, <2>3, <3>1, EntryUpdated
    <2>6. ASSUME d.result # -1
          PROVE  InStep([s.caches EXCEPT ![t] = [caches EXCEPT ![r.index] = dc]], e2, sp)
      <3>1. Entry(r) \notin sp => Agree(t, dc, r.sent) /\ AllPass(r)
        BY <2>4, <2>6
      <3> QED BY <1>1, <1>5, <1>8, <2>3, <3>1, EntryUpdated
    <2> QED BY <2>4, <2>5, <2>6 DEF dc
  <1>9. \/ s.end # "none"
        \/ s.end = "none" /\ t \notin DecoderKnows
        \/ s.end = "none" /\ t \in DecoderKnows /\ c = Null
        \/ s.end = "none" /\ t \in DecoderKnows /\ c # Null /\ d.result = -1
        \/ s.end = "none" /\ t \in DecoderKnows /\ c # Null /\ d.result # -1
    OBVIOUS
  <1>10. m.record = r
    OBVIOUS
  <1> HIDE DEF caches, c, d, kept, m, out, t
  <1>11. s.end = "none" => InStep(s.caches, e2, sp \cup {Entry(r)})
    <2>1. s.end = "none" => sp \cup EntriesOf(s.left) \cup {Entry(r)} = sp \cup {Entry(r)}
      BY <1>5
    <2> QED BY <1>4, <2>1
  <1>12. LoopInv(out, e2, sp)
    <2>1. CASE s.end # "none"
      <3>1. /\ out.caches = s.caches /\ out.messages = s.messages /\ out.end = s.end
            /\ out.left = Append(s.left, r)
        BY <1>2, <2>1
      <3>2. Head(out.left) = Head(s.left) /\ out.left # <<>>
        <4>1. s.left # <<>>
          BY <1>0, <2>1
        <4> QED BY <1>0, <1>1, <3>1, <4>1
      <3>3. sp \cup EntriesOf(out.left) = sp \cup EntriesOf(s.left) \cup {Entry(r)}
        BY <1>6, <3>1
      <3> QED BY <1>0, <1>3, <1>4, <2>1, <3>1, <3>2, <3>3 DEF LoopInv
    <2>2. CASE s.end = "none" /\ t \notin DecoderKnows
      <3>1. /\ out.caches = s.caches /\ out.messages = s.messages /\ out.end = "unknown"
            /\ out.left = <<r>> /\ out.left # <<>>
        BY <1>2, <2>2
      <3> QED BY <1>0, <1>3, <1>6, <1>11, <2>2, <3>1 DEF LoopInv
    <2>3. CASE s.end = "none" /\ t \in DecoderKnows /\ c = Null
      <3>1. /\ out.caches = s.caches /\ out.messages = s.messages /\ out.end = "crash"
            /\ out.left = <<r>> /\ out.left # <<>> /\ Head(out.left) = r
        BY <1>2, <2>3
      <3>2. Entry(r) \in sp
        BY <1>7, <2>3
      <3> QED BY <1>0, <1>3, <1>6, <1>11, <2>3, <3>1, <3>2 DEF LoopInv
    <2>4. CASE s.end = "none" /\ t \in DecoderKnows /\ c # Null /\ d.result = -1
      <3>1. /\ out.caches = kept /\ out.messages = <<>> /\ out.end = "failed"
            /\ out.left = <<r>> /\ out.left # <<>> /\ Len(out.messages) = 0
        BY <1>2, <2>4
      <3>2. InStep(out.caches, e2, sp \cup EntriesOf(out.left))
        BY <1>6, <1>8, <2>4, <3>1
      <3> QED BY <1>3, <3>1, <3>2 DEF LoopInv
    <2>5. CASE s.end = "none" /\ t \in DecoderKnows /\ c # Null /\ d.result # -1
      <3>1. /\ out.caches = kept /\ out.messages = Append(s.messages, m) /\ out.end = "none"
            /\ out.left = <<>>
        BY <1>0, <1>2, <2>5
      <3>2. EntriesOf(out.left) = {} /\ sp \cup EntriesOf(out.left) = sp
        BY <3>1, EntriesIn
      <3>3. ASSUME NEW k \in 1..Len(out.messages), Entry(out.messages[k].record) \notin sp
            PROVE  Faithful(out.messages[k])
        <4>1. CASE k \in 1..Len(s.messages)
          <5>1. out.messages[k] = s.messages[k]
            BY <1>1, <3>1, <4>1
          <5> QED BY <1>0, <3>3, <4>1, <5>1
        <4>2. CASE k \notin 1..Len(s.messages)
          <5>1. out.messages[k] = m
            BY <1>1, <3>1, <4>2
          <5> QED BY <1>8, <1>10, <2>5, <3>3, <5>1
        <4> QED BY <4>1, <4>2
      <3>4. InStep(out.caches, e2, sp)
        BY <1>8, <2>5, <3>1
      <3> QED BY <1>3, <3>1, <3>2, <3>3, <3>4 DEF LoopInv
    <2> QED BY <1>9, <2>1, <2>2, <2>3, <2>4, <2>5
  <1> QED BY <1>12 DEF out

\* The fold of Decode.
LoopFold(h, base, q) ==
  h = [s \in SUBSET DOMAIN q |->
         IF s = {} THEN base ELSE DecodeRecord(h[s \ {Max(s)}], q[Max(s)])]

(* Decode runs through the records of a buffer, one after the other. *)
LEMMA LoopRuns ==
  ASSUME NEW q \in Seq(Records), NEW base \in LoopStates
  PROVE  \E h \in [0..Len(q) -> LoopStates] :
           /\ h[0] = base /\ h[Len(q)] = FoldLeft(DecodeRecord, base, q)
           /\ \A i \in 1..Len(q) : h[i] = DecodeRecord(h[i - 1], q[i])
  <1> DEFINE n == Len(q)
             S == LoopStates
             step == [si \in S \X (1..n) |-> DecodeRecord(si[1], q[si[2]])]
  <1>1. n \in Nat /\ DOMAIN q = 1..n /\ \A i \in 1..n : q[i] \in Records
    OBVIOUS
  <1>3. ASSUME NEW s \in S, NEW i \in 1..n
        PROVE  step[<<s, i>>] = DecodeRecord(s, q[i]) /\ step[<<s, i>>] \in S
    <2>1. step[<<s, i>>] = DecodeRecord(s, q[i])
      <3> HIDE DEF S, n
      <3> QED OBVIOUS
    <2>2. DecodeRecord(s, q[i]) \in S
      BY <1>1, LoopType
    <2> QED BY <2>1, <2>2
  <1> HIDE DEF S, n, step
  <1>2. base \in S
    BY DEF S
  <1>4. PICK g : Folds(g, S, step, base, n)
    BY <1>1, <1>2, <1>3, FoldsExist
  <1>5. LoopFold(g, base, q)
    <2>1. g = [s \in SUBSET (1..n) |-> g[s]]
      BY <1>4 DEF Folds
    <2>2. ASSUME NEW s \in SUBSET (1..n), s # {}
          PROVE  g[s] = DecodeRecord(g[s \ {Max(s)}], q[Max(s)])
      <3>1. Max(s) \in 1..n /\ s \ {Max(s)} \in SUBSET (1..n)
        BY <1>1, <2>2, MaxIn
      <3>2. g[s \ {Max(s)}] \in S
        BY <1>4, <3>1 DEF Folds
      <3>3. g[s] = step[<<g[s \ {Max(s)}], Max(s)>>]
        BY <1>4, <2>2 DEF Folds
      <3> QED BY <1>3, <3>1, <3>2, <3>3
    <2>3. g[{}] = base
      <3>1. {} \in SUBSET (1..n)
        OBVIOUS
      <3> QED BY <1>4, <3>1 DEF Folds
    <2>4. \A s \in SUBSET (1..n) :
            g[s] = IF s = {} THEN base ELSE DecodeRecord(g[s \ {Max(s)}], q[Max(s)])
      BY <2>2, <2>3
    <2> QED BY <1>1, <2>1, <2>4, Zenon DEF LoopFold
  <1>6. PICK h : LoopFold(h, base, q) /\ FoldLeft(DecodeRecord, base, q) = h[DOMAIN q]
    BY <1>5, Zenon DEF FoldLeft, MapThenFoldSet, LoopFold
  <1>7. \A s \in SUBSET (1..n) :
          h[s] = IF s = {} THEN base ELSE DecodeRecord(h[s \ {Max(s)}], q[Max(s)])
    BY <1>1, <1>6, Zenon DEF LoopFold
  <1>8. h[1..0] = base
    <2>1. 1..0 \in SUBSET (1..n) /\ 1..0 = {}
      BY Intervals, <1>1
    <2> QED BY <1>7, <2>1
  <1>9. \A i \in 1..n : h[1..i] = DecodeRecord(h[1..(i - 1)], q[i])
    <2> SUFFICES ASSUME NEW i \in 1..n PROVE h[1..i] = DecodeRecord(h[1..(i - 1)], q[i])
      OBVIOUS
    <2>1. /\ 1..i \in SUBSET (1..n) /\ 1..i # {} /\ Max(1..i) = i /\ (1..i) \ {i} = 1..(i - 1)
      BY <1>1, Intervals
    <2>2. h[1..i] = DecodeRecord(h[(1..i) \ {Max(1..i)}], q[Max(1..i)])
      BY <1>7, <2>1, Zenon
    <2> QED BY <2>1, <2>2
  <1>10. Closed(S, step, n) /\ Stepwise(h, S, step, base, n)
    BY <1>3, <1>8, <1>9 DEF Closed, Stepwise
  <1>11. PICK v : RunOf(v, h, S, step, base, n)
    <2>1. n \in Nat
      BY <1>1
    <2> QED BY <1>2, <1>10, <2>1, FoldRuns
  <1>12. ASSUME NEW i \in 1..n PROVE v[i] = DecodeRecord(v[i - 1], q[i])
    <2>1. v[i - 1] \in S
      <3>1. i - 1 \in 0..n
        BY <1>1
      <3> QED BY <1>11, <3>1 DEF RunOf
    <2> QED BY <1>3, <1>11, <2>1 DEF RunOf
  <1>13. v[n] = FoldLeft(DecodeRecord, base, q)
    <2>1. h[DOMAIN q] = h[1..n]
      BY <1>1, Zenon
    <2>2. v[n] = h[1..n]
      BY <1>11 DEF RunOf
    <2> QED BY <1>6, <2>1, <2>2, Zenon
  <1> QED BY <1>11, <1>12, <1>13 DEF RunOf, n, S

-----------------------------------------------------------------------------
(* The records of a buffer, and the encoder's caches between them. *)

\* Buffer q is records n + 1, n + 2, ...
Piece(q, rec, n) == \A k \in 1..Len(q) : q[k] = rec[n + k]

\* c[i] are the encoder's caches behind record i.
Chain(c, rec, n, m) ==
  /\ \A i \in n..m : EncoderCaches(c[i])
  /\ \A i \in (n + 1)..m : Encodes(c[i - 1], rec[i], c[i])

(* The records of a buffer that is lost. *)
LEMMA SkippedAll ==
  ASSUME NEW q \in Seq(Records), NEW n \in Nat, NEW c, NEW rec, Piece(q, rec, n),
         Chain(c, rec, n, n + Len(q)), NEW d \in DecoderCaches, NEW sp, InStep(d, c[n], sp)
  PROVE  InStep(d, c[n + Len(q)], sp \cup EntriesOf(q))
  <1> DEFINE sq == sp \cup EntriesOf(q)
             T == {j \in Nat : j <= Len(q) /\ ~InStep(d, c[n + j], sq)}
  <1>1. Len(q) \in Nat /\ n + 0 = n
    OBVIOUS
  <1>2. InStep(d, c[n], sq)
    <2>1. \A x : x \notin sq => x \notin sp
      OBVIOUS
    <2> HIDE DEF sq
    <2> QED BY <2>1 DEF InStep
  <1>3. \A i \in 1..Len(q) : Entry(q[i]) \in sq
    <2>1. \A i \in 1..Len(q) : q[i] \in ToSet(q)
      BY DEF ToSet
    <2> QED BY <2>1 DEF EntriesOf
  <1> HIDE DEF sq
  <1>4. T = {}
    <2> SUFFICES ASSUME T # {} PROVE FALSE
      OBVIOUS
    <2>1. PICK j \in T : \A k \in T : j <= k
      <3>1. T \in SUBSET Nat
        OBVIOUS
      <3> HIDE DEF T
      <3> QED BY <3>1, LeastElement
    <2>2. j \in Nat /\ j <= Len(q) /\ ~InStep(d, c[n + j], sq) /\ j # 0
      BY <1>1, <1>2
    <2>3. j - 1 \in Nat /\ j - 1 <= Len(q) /\ j - 1 \notin T
      <3> HIDE DEF T
      <3> QED BY <1>1, <2>1, <2>2
    <2>4. InStep(d, c[n + (j - 1)], sq)
      BY <2>3
    <2> HIDE DEF T
    <2>5. /\ n + (j - 1) \in n..(n + Len(q)) /\ n + j \in (n + 1)..(n + Len(q))
          /\ n + j \in n..(n + Len(q)) /\ (n + j) - 1 = n + (j - 1) /\ j \in 1..Len(q)
      BY <1>1, <2>2
    <2>6. /\ EncoderCaches(c[n + (j - 1)]) /\ EncoderCaches(c[n + j])
          /\ Encodes(c[n + (j - 1)], q[j], c[n + j])
      <3>1. Encodes(c[(n + j) - 1], rec[n + j], c[n + j])
        BY <2>5 DEF Chain
      <3> QED BY <2>5, <3>1 DEF Chain, Piece
    <2>7. InStep(d, c[n + j], sq \cup {Entry(q[j])})
      BY <2>4, <2>6, Skipped
    <2>8. sq \cup {Entry(q[j])} = sq
      BY <1>3, <2>5
    <2> QED BY <2>2, <2>7, <2>8
  <1>5. InStep(d, c[n + Len(q)], sq)
    <2>1. Len(q) \in Nat /\ Len(q) <= Len(q)
      BY <1>1
    <2> QED BY <1>4, <2>1
  <1> QED BY <1>5 DEF sq

(* The records of a buffer that is decoded. *)
LEMMA LoopAll ==
  ASSUME NEW q \in Seq(Records), NEW n \in Nat, NEW c, NEW rec, Piece(q, rec, n),
         Chain(c, rec, n, n + Len(q)), NEW d \in DecoderCaches, NEW sp, InStep(d, c[n], sp)
  PROVE  LoopInv(FoldLeft(DecodeRecord,
                          [caches |-> d, messages |-> <<>>, end |-> "none", left |-> <<>>], q),
                 c[n + Len(q)], sp)
  <1> DEFINE base == [caches |-> d, messages |-> <<>>, end |-> "none", left |-> <<>>]
  <1>1. Len(q) \in Nat /\ n + 0 = n
    OBVIOUS
  <1>2. base \in LoopStates
    BY DEF LoopStates
  <1>3. PICK h \in [0..Len(q) -> LoopStates] :
          /\ h[0] = base /\ h[Len(q)] = FoldLeft(DecodeRecord, base, q)
          /\ \A i \in 1..Len(q) : h[i] = DecodeRecord(h[i - 1], q[i])
    BY <1>2, LoopRuns
  <1>4. LoopInv(base, c[n], sp)
    <2>1. /\ base.caches = d /\ base.messages = <<>> /\ base.end = "none" /\ base.left = <<>>
          /\ Len(base.messages) = 0
      OBVIOUS
    <2>2. sp \cup EntriesOf(base.left) = sp
      BY <2>1, EntriesIn
    <2> HIDE DEF base
    <2>3. InStep(base.caches, c[n], sp \cup EntriesOf(base.left))
      BY <2>1, <2>2, Zenon
    <2>4. \A k \in 1..Len(base.messages) :
            Entry(base.messages[k].record) \notin sp => Faithful(base.messages[k])
      BY <2>1
    <2>5. (base.end = "none" <=> base.left = <<>>) /\ base.end # "crash"
      BY <2>1
    <2> QED BY <1>2, <2>3, <2>4, <2>5 DEF LoopInv
  <1> HIDE DEF base
  <1> DEFINE T == {j \in Nat : j <= Len(q) /\ ~LoopInv(h[j], c[n + j], sp)}
  <1>5. T = {}
    <2> SUFFICES ASSUME T # {} PROVE FALSE
      OBVIOUS
    <2>1. PICK j \in T : \A k \in T : j <= k
      <3>1. T \in SUBSET Nat
        OBVIOUS
      <3> HIDE DEF T
      <3> QED BY <3>1, LeastElement
    <2>2. j \in Nat /\ j <= Len(q) /\ ~LoopInv(h[j], c[n + j], sp) /\ j # 0
      BY <1>1, <1>3, <1>4
    <2>3. j - 1 \in Nat /\ j - 1 <= Len(q) /\ j - 1 \notin T
      <3> HIDE DEF T
      <3> QED BY <1>1, <2>1, <2>2
    <2>4. LoopInv(h[j - 1], c[n + (j - 1)], sp)
      BY <2>3
    <2> HIDE DEF T
    <2>5. /\ n + (j - 1) \in n..(n + Len(q)) /\ n + j \in (n + 1)..(n + Len(q))
          /\ n + j \in n..(n + Len(q)) /\ (n + j) - 1 = n + (j - 1) /\ j \in 1..Len(q)
      BY <1>1, <2>2
    <2>6. /\ EncoderCaches(c[n + (j - 1)]) /\ EncoderCaches(c[n + j])
          /\ Encodes(c[n + (j - 1)], q[j], c[n + j])
      <3>1. Encodes(c[(n + j) - 1], rec[n + j], c[n + j])
        BY <2>5 DEF Chain
      <3> QED BY <2>5, <3>1 DEF Chain, Piece
    <2>7. LoopInv(DecodeRecord(h[j - 1], q[j]), c[n + j], sp)
      BY <2>4, <2>6, LoopStep
    <2> QED BY <1>3, <2>2, <2>5, <2>7
  <1>6. LoopInv(h[Len(q)], c[n + Len(q)], sp)
    BY <1>1, <1>5
  <1> QED BY <1>3, <1>6 DEF base


-----------------------------------------------------------------------------
(* What encoding does. *)

\* The record and the caches of EncodeNew.
NewRecord(m, e) ==
  [template |-> m.template, index |-> Len(e[m.template]) + 1, pmap |-> {FullBit},
   body |-> m.values, sent |-> m.values]

(* Every field has a bit of its own, and none has the full message's. *)
LEMMA FieldBits ==
  ASSUME NEW t \in DOMAIN Template
  PROVE  \A i \in Fields(t) : i \in 1..FullBit /\ i # FullBit
  <1> DEFINE n == Len(Template[t])
  <1>1. n \in 1..31 /\ Fields(t) = 1..n
    BY TemplateType
  <1> HIDE DEF n
  <1>2. \A i \in 1..n : i \in 1..32 /\ i # 32
    BY <1>1
  <1> QED BY <1>1, <1>2, Zenon DEF FullBit

(* An input is a message of a template. *)
LEMMA InputType ==
  ASSUME NEW m \in Inputs
  PROVE  /\ m.template \in DOMAIN Template /\ m.values \in Cached(m.template)
         /\ m.values \in Seq(Values) /\ Len(m.values) = Len(Template[m.template])
  <1> DEFINE t == m.template
             n == Len(Template[t])
  <1>1. t \in DOMAIN Template /\ m.values \in [1..n -> Values]
    BY CompressorAssumption DEF Values
  <1>2. n \in Nat /\ Fields(t) = 1..n
    <2>1. n \in 1..31 /\ Fields(t) = 1..n
      BY <1>1, TemplateType
    <2> HIDE DEF n
    <2> QED BY <2>1
  <1> HIDE DEF n, t
  <1>3. m.values \in Seq(Values) /\ Len(m.values) = n
    BY <1>1, <1>2
  <1> QED BY <1>1, <1>2, <1>3 DEF Cached, t, n

(* A message that is cached and written in full. *)
LEMMA EncodesNew ==
  ASSUME NEW e, EncoderCaches(e), NEW m \in Inputs, NEW token \in Tokens, NEW e2,
         e2 = [e EXCEPT ![m.template] = Append(@, [token |-> token, values |-> m.values])]
  PROVE  EncoderCaches(e2) /\ Encodes(e, NewRecord(m, e), e2)
  <1> DEFINE t == m.template
             a == e[t]
             n == Len(a)
             entry == [token |-> token, values |-> m.values]
             A == [token : Tokens, values : Seq(Values)]
             r == NewRecord(m, e)
  <1>1. t \in DOMAIN Template /\ m.values \in Cached(t) /\ m.values \in Seq(Values)
        /\ Len(m.values) = Len(Template[t])
    BY InputType
  <1>2. e \in [DOMAIN Template -> Seq(A)] /\ a \in Seq(A) /\ n \in Nat
        /\ \A u \in DOMAIN Template : \A i \in 1..Len(e[u]) : e[u][i].values \in Cached(u)
    <2>1. e \in [DOMAIN Template -> Seq(A)]
          /\ \A u \in DOMAIN Template : \A i \in 1..Len(e[u]) : e[u][i].values \in Cached(u)
      BY DEF EncoderCaches
    <2> HIDE DEF A
    <2>2. a \in Seq(A)
      BY <1>1, <2>1
    <2> HIDE DEF a
    <2>3. n \in Nat
      BY <2>2
    <2> QED BY <2>1, <2>2, <2>3
  <1>3. entry \in A /\ entry.values = m.values
    BY <1>1
  <1>4. /\ r.template = t /\ r.index = n + 1 /\ r.pmap = {FullBit} /\ r.body = m.values
        /\ r.sent = m.values
    BY DEF NewRecord
  <1>5. r \in Records
    <2>1. FullBit \in 1..FullBit
      BY DEF FullBit
    <2>2. Len(e[m.template]) + 1 \in Nat \ {0}
      <3> HIDE DEF A
      <3> QED BY <1>2
    <2> QED BY <1>1, <2>1, <2>2 DEF NewRecord, Records
  <1>6. /\ Append(a, entry) \in Seq(A) /\ Len(Append(a, entry)) = n + 1
        /\ \A i \in 1..n : Append(a, entry)[i] = a[i]
        /\ Append(a, entry)[n + 1] = entry
    <2> HIDE DEF A, a, entry
    <2> QED BY <1>2, <1>3
  <1>7. /\ e2[t] = Append(a, entry) /\ e2 \in [DOMAIN Template -> Seq(A)]
        /\ \A u \in DOMAIN Template : u # t => e2[u] = e[u]
    <2> DEFINE b == Append(a, entry)
    <2>1. b \in Seq(A) /\ e2 = [e EXCEPT ![t] = b]
      BY <1>6
    <2> HIDE DEF A, b
    <2> QED BY <1>1, <1>2, <2>1
  <1>8. ASSUME NEW cache \in Cached(t) PROVE \E x : Fits(r, cache, x)
    <2> HIDE DEF r
    <2> QED BY <1>1, <1>4, <1>5, <1>8, FullFits
  <1> HIDE DEF r, entry, A, a, n
  <1>9. EncoderCaches(e2)
    <2>1. ASSUME NEW u \in DOMAIN Template, NEW i \in 1..Len(e2[u])
          PROVE  e2[u][i].values \in Cached(u)
      <3>1. CASE u # t
        BY <1>2, <1>7, <3>1
      <3>2. CASE u = t
        <4>1. i \in 1..n \/ i = n + 1
          BY <1>2, <1>6, <1>7, <3>2
        <4>2. \A j \in 1..n : a[j].values \in Cached(t)
          BY <1>1, <1>2 DEF a, n
        <4> QED BY <1>1, <1>3, <1>6, <1>7, <3>2, <4>1, <4>2
      <3> QED BY <3>1, <3>2
    <2> QED BY <1>7, <2>1 DEF EncoderCaches, A
  <1>10. Encodes(e, r, e2)
    <2>1. /\ r.index \in 1..Len(e2[t]) /\ Len(e[t]) <= Len(e2[t])
          /\ \A i \in 1..Len(e[t]) : e2[t][i] = e[t][i]
          /\ \A i \in 1..Len(e2[t]) : i > Len(e[t]) => i = r.index
      <3>1. Len(e2[t]) = n + 1 /\ Len(e[t]) = n /\ n \in Nat
        BY <1>2, <1>6, <1>7 DEF n, a
      <3>2. \A i \in 1..n : e2[t][i] = e[t][i]
        BY <1>6, <1>7 DEF a
      <3> HIDE DEF t
      <3> QED BY <1>4, <3>1, <3>2
    <2>2. Agree(t, r.sent, e2[t][r.index].values)
      BY <1>3, <1>4, <1>6, <1>7 DEF Agree
    <2> QED BY <1>4, <1>5, <1>7, <1>8, <2>1, <2>2 DEF Encodes
  <1> QED BY <1>9, <1>10 DEF r

\* The record and the entry of EncodeKnown.
KnownRecord(m, e, index, noise) ==
  LET t == m.template
      cached == e[t][index].values
      written == {i \in Fields(t) : Sends(Template[t][i], m.values[i], cached[i], noise)}
  IN  [template |-> t, index |-> index, pmap |-> written,
       body |-> Body(t, written, m.values, cached), sent |-> m.values]

KnownValues(m, e, index, noise) ==
  LET t == m.template
      cached == e[t][index].values
      written == {i \in Fields(t) : Sends(Template[t][i], m.values[i], cached[i], noise)}
  IN  CacheUpdated({i \in written : Accessible(Template[t][i])}, m.values, cached)

(* Unless decoding it must fail, a record leaves what was sent in the encoder's cache. *)
LEMMA KnownAgrees ==
  ASSUME NEW m \in Inputs, NEW cached \in Cached(m.template), NEW noise, NEW r,
         r.template = m.template,
         r.pmap = {i \in Fields(m.template) :
                     Sends(Template[m.template][i], m.values[i], cached[i], noise)},
         AllPass(r)
  PROVE  Agree(m.template, m.values,
               CacheUpdated({i \in r.pmap : Accessible(Template[m.template][i])}, m.values, cached))
  <1> DEFINE t == m.template
             W == r.pmap
             v == CacheUpdated({i \in W : Accessible(Template[t][i])}, m.values, cached)
  <1>1. t \in DOMAIN Template /\ m.values \in Cached(t) /\ DOMAIN m.values = Fields(t)
    BY InputType, CachedValues
  <1>2. \A i \in Fields(t) :
          v[i] = IF i \in W /\ Accessible(Template[t][i]) THEN m.values[i] ELSE cached[i]
    BY <1>1 DEF CacheUpdated
  <1>3. FullBit \notin W
    BY <1>1, FieldBits, Zenon
  <1> HIDE DEF v
  <1>4. ASSUME NEW i \in Fields(t), Accessible(Template[t][i]) PROVE m.values[i] = v[i]
    <2> DEFINE field == Template[t][i]
    <2>1. field \in FieldKinds
      BY <1>1, TemplateType
    <2>2. i \in W <=> Sends(field, m.values[i], cached[i], noise)
      OBVIOUS
    <2>3. Passes(r, i)
      BY DEF AllPass
    <2>4. field.action \in {"copy", "delta"}
      BY <2>1 DEF FieldKinds
    <2>5. CASE i \in W
      BY <1>2, <1>4, <2>5
    <2>6. CASE i \notin W
      <3>1. v[i] = cached[i]
        BY <1>2, <2>6
      <3>2. CASE field.action = "copy"
        <4>1. ~(m.values[i] # cached[i])
          BY <1>4, <2>2, <2>6, <3>2 DEF Sends
        <4> QED BY <3>1, <4>1
      <3>3. CASE field.action = "delta"
        <4>1. field.type = "string"
          BY <2>2, <2>6, <3>3 DEF Sends
        <4>2. Takes(field, i, W)
          BY <2>3, <3>3 DEF Passes
        <4>3. W = {FullBit}
          BY <3>3, <4>1, <4>2 DEF Takes, IsFull
        <4> QED BY <1>3, <4>3
      <3> QED BY <2>4, <3>2, <3>3
    <2> QED BY <2>5, <2>6
  <1>5. Agree(t, m.values, v)
    BY <1>4 DEF Agree
  <1> QED BY <1>5 DEF v

(* A message of an entry that is cached: only some fields are written. *)
LEMMA EncodesKnown ==
  ASSUME NEW e, EncoderCaches(e), NEW m \in Inputs, NEW index \in DOMAIN e[m.template],
         NEW noise, NEW e2,
         e2 = [e EXCEPT ![m.template][index].values = KnownValues(m, e, index, noise)]
  PROVE  EncoderCaches(e2) /\ Encodes(e, KnownRecord(m, e, index, noise), e2)
  <1> DEFINE t == m.template
             a == e[t]
             n == Len(a)
             cached == a[index].values
             W == {i \in Fields(t) : Sends(Template[t][i], m.values[i], cached[i], noise)}
             v == KnownValues(m, e, index, noise)
             entry == [a[index] EXCEPT !.values = v]
             b == [a EXCEPT ![index] = entry]
             A == [token : Tokens, values : Seq(Values)]
             r == KnownRecord(m, e, index, noise)
  <1>1. t \in DOMAIN Template /\ m.values \in Cached(t) /\ m.values \in Seq(Values)
        /\ DOMAIN m.values = Fields(t)
    BY InputType, CachedValues
  <1>2. e \in [DOMAIN Template -> Seq(A)] /\ a \in Seq(A) /\ n \in Nat
        /\ \A u \in DOMAIN Template : \A i \in 1..Len(e[u]) : e[u][i].values \in Cached(u)
    <2>1. e \in [DOMAIN Template -> Seq(A)]
          /\ \A u \in DOMAIN Template : \A i \in 1..Len(e[u]) : e[u][i].values \in Cached(u)
      BY DEF EncoderCaches
    <2> HIDE DEF A
    <2>2. a \in Seq(A)
      BY <1>1, <2>1
    <2> HIDE DEF a
    <2>3. n \in Nat
      BY <2>2
    <2> QED BY <2>1, <2>2, <2>3
  <1>3. index \in 1..n /\ a[index] \in A /\ cached \in Cached(t)
    <2>1. index \in DOMAIN a
      OBVIOUS
    <2> HIDE DEF A, a
    <2>2. index \in 1..n /\ a[index] \in A
      BY <1>2, <2>1
    <2> QED BY <1>1, <1>2, <2>2 DEF a
  <1>4. /\ r.template = t /\ r.index = index /\ r.pmap = W /\ r.sent = m.values
        /\ r.body = Body(t, W, m.values, cached)
    BY DEF KnownRecord
  <1>5. v = CacheUpdated({i \in W : Accessible(Template[t][i])}, m.values, cached)
    BY DEF KnownValues
  <1>6. v \in Cached(t) /\ v \in Seq(Values)
    <2>1. v = [i \in Fields(t) |-> IF i \in W /\ Accessible(Template[t][i])
                                   THEN m.values[i] ELSE cached[i]]
      <3> HIDE DEF v, W, cached
      <3> QED BY <1>1, <1>5 DEF CacheUpdated
    <2>2. v \in Cached(t)
      <3> HIDE DEF v, W, cached
      <3> QED BY <1>1, <1>3, <2>1 DEF Cached
    <2> HIDE DEF v
    <2> QED BY <1>1, <2>2, CachedValues
  <1> HIDE DEF v
  <1>7. entry \in A /\ entry.values = v
    <2> HIDE DEF a
    <2> QED BY <1>3, <1>6
  <1>8. e2 = [e EXCEPT ![t] = b]
    BY Zenon DEF v
  <1> HIDE DEF entry
  <1>9. /\ b \in Seq(A) /\ Len(b) = n /\ b[index] = entry
        /\ \A i \in 1..n : i # index => b[i] = a[i]
    <2> HIDE DEF A, a
    <2> QED BY <1>2, <1>3, <1>7
  <1> HIDE DEF b, A, a
  <1>10. /\ e2[t] = b /\ e2 \in [DOMAIN Template -> Seq(A)]
         /\ \A u \in DOMAIN Template : u # t => e2[u] = e[u]
    BY <1>1, <1>2, <1>8, <1>9
  <1>11. r \in Records
    <2>1. W \in SUBSET (1..FullBit)
      <3>1. \A i \in W : i \in 1..FullBit
        BY <1>1, FieldBits, Zenon
      <3> QED BY <3>1, Zenon
    <2> HIDE DEF W, cached
    <2>2. Body(t, W, m.values, cached) \in Seq(Values)
      <3>1. PICK f \in [0..Len(Template[t]) -> Seq(Values)] :
              f[Len(Template[t])] = Body(t, W, m.values, cached)
        BY <1>1, <1>3, BodyRuns
      <3>2. Len(Template[t]) \in 0..Len(Template[t])
        BY <1>1, TemplateType
      <3> QED BY <3>1, <3>2
    <2>3. index \in Nat \ {0}
      BY <1>2, <1>3
    <2> DEFINE bd == Body(t, W, m.values, cached)
               vs == m.values
    <2>4. r = [template |-> t, index |-> index, pmap |-> W, body |-> bd, sent |-> vs]
      BY DEF KnownRecord, W, cached, a
    <2>5. bd \in Seq(Values) /\ vs \in Seq(Values)
      BY <1>1, <2>2
    <2> HIDE DEF bd, vs, r, t
    <2> QED BY <1>1, <2>1, <2>3, <2>4, <2>5 DEF Records
  <1>12. ASSUME NEW cache \in Cached(t), Agree(t, cache, cached) PROVE \E x : Fits(r, cache, x)
    <2>1. r.sent \in Cached(t)
      BY <1>1, <1>4
    <2>2. \A i \in Fields(t) : Accessible(Template[t][i]) => cache[i] = cached[i]
      BY <1>12 DEF Agree
    <2>3. r.pmap = {i \in Fields(t) : Sends(Template[t][i], r.sent[i], cached[i], noise)}
      BY <1>4
    <2>4. r.body = Body(t, r.pmap, r.sent, cached)
      BY <1>4
    <2> HIDE DEF r, W, cached
    <2> QED BY <1>1, <1>3, <1>4, <1>11, <2>1, <2>2, <2>3, <2>4, KnownFits
  <1>13. AllPass(r) => Agree(t, r.sent, v)
    <2> SUFFICES ASSUME AllPass(r) PROVE Agree(t, m.values, v)
      BY <1>4
    <2>1. r.pmap = {i \in Fields(m.template) :
                      Sends(Template[m.template][i], m.values[i], cached[i], noise)}
      BY <1>4
    <2>2. r.template = m.template /\ cached \in Cached(m.template)
      BY <1>3, <1>4
    <2> HIDE DEF r, cached, W
    <2>3. Agree(m.template, m.values,
                CacheUpdated({i \in r.pmap : Accessible(Template[m.template][i])},
                             m.values, cached))
      BY <2>1, <2>2, KnownAgrees
    <2> QED BY <1>4, <1>5, <2>3
  <1> HIDE DEF r, n, W, cached
  <1>14. EncoderCaches(e2)
    <2>1. ASSUME NEW u \in DOMAIN Template, NEW i \in 1..Len(e2[u])
          PROVE  e2[u][i].values \in Cached(u)
      <3>1. CASE u # t
        BY <1>2, <1>10, <3>1
      <3>2. CASE u = t
        <4>1. \A j \in 1..n : a[j].values \in Cached(t)
          BY <1>1, <1>2 DEF a, n
        <4>2. i \in 1..n
          BY <1>9, <1>10, <3>2
        <4> QED BY <1>6, <1>7, <1>9, <1>10, <3>2, <4>1, <4>2
      <3> QED BY <3>1, <3>2
    <2> QED BY <1>10, <2>1 DEF EncoderCaches, A
  <1>15. Encodes(e, r, e2)
    <2>1. /\ r.index \in 1..Len(e2[t]) /\ Len(e[t]) <= Len(e2[t])
          /\ \A i \in 1..Len(e[t]) : i # r.index => e2[t][i] = e[t][i]
          /\ \A i \in 1..Len(e2[t]) : i > Len(e[t]) => i = r.index
      <3>1. Len(e2[t]) = n /\ Len(e[t]) = n /\ n \in Nat
        BY <1>2, <1>9, <1>10 DEF n, a
      <3>2. \A i \in 1..n : i # index => e2[t][i] = e[t][i]
        BY <1>9, <1>10 DEF a
      <3> HIDE DEF t
      <3> QED BY <1>3, <1>4, <3>1, <3>2
    <2>2. e2[t][r.index].values = v /\ e[t][r.index].values = cached /\ r.index <= Len(e[t])
      <3>1. index <= Len(e[t])
        BY <1>2, <1>3 DEF n, a
      <3> QED BY <1>4, <1>7, <1>9, <1>10, <3>1 DEF cached, a
    <2> QED BY <1>4, <1>10, <1>11, <1>12, <1>13, <2>1, <2>2 DEF Encodes
  <1> QED BY <1>14, <1>15 DEF r


-----------------------------------------------------------------------------
(* The buffers between both contexts. *)

\* w are the buffers under way, b is the caller's, n records were encoded up to the
\* encoder's caches e; at[k] is the number of the last record of buffer k.
Links(c, rec, at, w, b, n, e) ==
  /\ \A k \in 0..Len(w) : at[k] \in 0..n
  /\ \A k \in 1..Len(w) : at[k] = at[k - 1] + Len(w[k]) /\ Piece(w[k], rec, at[k - 1])
  /\ n = at[Len(w)] + Len(b) /\ Piece(b, rec, at[Len(w)])
  /\ c[n] = e /\ Chain(c, rec, at[0], n)

(* The sizes of buffers are numbers. *)
LEMMA BufferSizes ==
  ASSUME NEW w \in Seq(Seq(Records))
  PROVE  Len(w) \in Nat /\ \A k \in 1..Len(w) : w[k] \in Seq(Records) /\ Len(w[k]) \in Nat
  <1>1. Len(w) \in Nat /\ \A k \in 1..Len(w) : w[k] \in Seq(Records)
    OBVIOUS
  <1>2. \A q \in Seq(Records) : Len(q) \in Nat
    OBVIOUS
  <1> QED BY <1>1, <1>2

(* One more record is encoded. *)
LEMMA LinksEncode ==
  ASSUME NEW c, NEW rec, NEW at, NEW w \in Seq(Seq(Records)), NEW b \in Seq(Records),
         NEW n \in Nat, NEW e, Links(c, rec, at, w, b, n, e),
         NEW r \in Records, NEW e2, EncoderCaches(e2), Encodes(e, r, e2)
  PROVE  \E c2, rec2 : Links(c2, rec2, at, w, Append(b, r), n + 1, e2) /\ c2[at[0]] = c[at[0]]
  <1> DEFINE c2 == [i \in 0..(n + 1) |-> IF i = n + 1 THEN e2 ELSE c[i]]
             rec2 == [i \in 0..(n + 1) |-> IF i = n + 1 THEN r ELSE rec[i]]
             l == Len(w)
  <1>1. l \in Nat /\ Len(b) \in Nat /\ \A k \in 1..l : Len(w[k]) \in Nat
    <2>1. Len(b) \in Nat
      OBVIOUS
    <2> QED BY <2>1, BufferSizes
  <1>2. /\ \A i \in 0..n : c2[i] = c[i] /\ rec2[i] = rec[i]
        /\ c2[n + 1] = e2 /\ rec2[n + 1] = r
    OBVIOUS
  <1>3. /\ \A k \in 0..l : at[k] \in 0..n
        /\ \A k \in 1..l : at[k] = at[k - 1] + Len(w[k]) /\ Piece(w[k], rec, at[k - 1])
        /\ n = at[l] + Len(b) /\ Piece(b, rec, at[l])
        /\ c[n] = e /\ Chain(c, rec, at[0], n)
    BY DEF Links
  <1>4. at[0] \in 0..n /\ at[l] \in 0..n
    <2> HIDE DEF l
    <2> QED BY <1>1, <1>3
  <1> HIDE DEF c2, rec2
  <1>5. ASSUME NEW k \in 1..l PROVE Piece(w[k], rec2, at[k - 1])
    <2>1. /\ k - 1 \in 0..l /\ at[k - 1] \in 0..n /\ at[k] \in 0..n
          /\ at[k] = at[k - 1] + Len(w[k]) /\ Len(w[k]) \in Nat /\ Piece(w[k], rec, at[k - 1])
      <3> HIDE DEF l
      <3>1. k - 1 \in 0..l /\ k \in 0..l
        BY <1>1
      <3> QED BY <1>1, <1>3, <3>1
    <2> DEFINE q == w[k]
               z == at[k - 1]
               x == Len(q)
    <2>2. z \in 0..n /\ x \in Nat /\ z + x <= n
      <3> DEFINE y == at[k]
      <3>1. y \in 0..n /\ y = z + x /\ x \in Nat /\ z \in 0..n
        BY <2>1
      <3> HIDE DEF y, z, x
      <3> QED BY <3>1
    <2> HIDE DEF z, x
    <2>3. \A j \in 1..x : z + j \in 0..n
      BY <2>2
    <2> QED BY <1>2, <2>1, <2>3 DEF Piece, x, z
  <1>6. Len(Append(b, r)) = Len(b) + 1 /\ Append(b, r)[Len(b) + 1] = r
        /\ \A j \in 1..Len(b) : Append(b, r)[j] = b[j]
    OBVIOUS
  <1>7. Piece(Append(b, r), rec2, at[l])
    <2> DEFINE x == Len(b)
               z == at[l]
               q == Append(b, r)
    <2>1. /\ x \in Nat /\ z \in 0..n /\ n = z + x /\ Len(q) = x + 1 /\ q[x + 1] = r
          /\ \A j \in 1..x : q[j] = b[j] /\ b[j] = rec[z + j]
      BY <1>1, <1>3, <1>4, <1>6 DEF Piece
    <2> HIDE DEF x, z, q
    <2>2. \A j \in 1..x : z + j \in 0..n
      BY <2>1
    <2>3. \A j \in 1..(x + 1) : j \in 1..x \/ j = x + 1
      BY <2>1
    <2>4. z + (x + 1) = n + 1
      BY <2>1
    <2>5. Piece(q, rec2, z)
      BY <1>2, <2>1, <2>2, <2>3, <2>4 DEF Piece
    <2> QED BY <2>5 DEF q, z
  <1>8. Chain(c2, rec2, at[0], n + 1)
    <2> DEFINE z == at[0]
    <2>1. z \in 0..n /\ Chain(c, rec, z, n) /\ c[n] = e
      BY <1>3, <1>4
    <2> HIDE DEF z
    <2>2. /\ \A i \in z..(n + 1) : (i \in z..n /\ i \in 0..n) \/ i = n + 1
          /\ \A i \in (z + 1)..(n + 1) : \/ i \in (z + 1)..n /\ i \in 0..n /\ i - 1 \in 0..n
                                         \/ i = n + 1
          /\ (n + 1) - 1 = n /\ n \in 0..n
      BY <2>1
    <2>3. \A i \in z..(n + 1) : EncoderCaches(c2[i])
      BY <1>2, <2>1, <2>2 DEF Chain
    <2>4. \A i \in (z + 1)..(n + 1) : Encodes(c2[i - 1], rec2[i], c2[i])
      BY <1>2, <2>1, <2>2 DEF Chain
    <2>5. Chain(c2, rec2, z, n + 1)
      BY <2>3, <2>4 DEF Chain
    <2> QED BY <2>5 DEF z
  <1>9. /\ \A k \in 0..l : at[k] \in 0..(n + 1)
        /\ n + 1 = at[l] + Len(Append(b, r))
    <2>1. \A i \in 0..n : i \in 0..(n + 1)
      OBVIOUS
    <2> DEFINE x == Len(b)
               z == at[l]
    <2>2. x \in Nat /\ z \in 0..n /\ n = z + x /\ Len(Append(b, r)) = x + 1
      BY <1>1, <1>3, <1>4, <1>6
    <2> HIDE DEF x, z
    <2>3. n + 1 = z + (x + 1)
      BY <2>2
    <2> HIDE DEF l
    <2> QED BY <1>3, <2>1, <2>2, <2>3 DEF z
  <1>10. Links(c2, rec2, at, w, Append(b, r), n + 1, e2)
    BY <1>2, <1>3, <1>5, <1>7, <1>8, <1>9, Zenon DEF Links, l
  <1>11. c2[at[0]] = c[at[0]]
    BY <1>2, <1>4
  <1> QED BY <1>10, <1>11

(* The caller's buffer is sent. *)
LEMMA LinksSend ==
  ASSUME NEW c, NEW rec, NEW at, NEW w \in Seq(Seq(Records)), NEW b \in Seq(Records),
         NEW n \in Nat, NEW e, Links(c, rec, at, w, b, n, e)
  PROVE  \E at2 : Links(c, rec, at2, Append(w, b), <<>>, n, e) /\ at2[0] = at[0]
  <1> DEFINE l == Len(w)
             at2 == [k \in 0..(l + 1) |-> IF k = l + 1 THEN n ELSE at[k]]
             w2 == Append(w, b)
  <1>1. l \in Nat /\ Len(b) \in Nat /\ \A k \in 1..l : Len(w[k]) \in Nat
    <2>1. Len(b) \in Nat
      OBVIOUS
    <2> QED BY <2>1, BufferSizes
  <1>2. Len(w2) = l + 1 /\ w2[l + 1] = b /\ \A k \in 1..l : w2[k] = w[k]
    OBVIOUS
  <1>3. /\ \A k \in 0..l : at[k] \in 0..n
        /\ \A k \in 1..l : at[k] = at[k - 1] + Len(w[k]) /\ Piece(w[k], rec, at[k - 1])
        /\ n = at[l] + Len(b) /\ Piece(b, rec, at[l])
        /\ c[n] = e /\ Chain(c, rec, at[0], n)
    BY DEF Links
  <1> HIDE DEF l, w2
  <1>4. at2[l + 1] = n /\ \A k \in 0..l : at2[k] = at[k]
    BY <1>1
  <1> HIDE DEF at2
  <1>5. /\ \A k \in 0..(l + 1) : k \in 0..l \/ k = l + 1
        /\ \A k \in 1..(l + 1) : \/ k \in 1..l /\ k \in 0..l /\ k - 1 \in 0..l
                                 \/ k = l + 1
        /\ (l + 1) - 1 = l /\ l \in 0..l /\ 0 \in 0..l /\ n \in 0..n
    BY <1>1
  <1>6. \A k \in 0..(l + 1) : at2[k] \in 0..n
    BY <1>3, <1>4, <1>5
  <1>7. \A k \in 1..(l + 1) : at2[k] = at2[k - 1] + Len(w2[k]) /\ Piece(w2[k], rec, at2[k - 1])
    <2> SUFFICES ASSUME NEW k \in 1..(l + 1)
                 PROVE  at2[k] = at2[k - 1] + Len(w2[k]) /\ Piece(w2[k], rec, at2[k - 1])
      OBVIOUS
    <2>1. CASE k \in 1..l /\ k \in 0..l /\ k - 1 \in 0..l
      BY <1>2, <1>3, <1>4, <2>1, Zenon
    <2>2. CASE k = l + 1
      <3>1. at2[k] = n /\ at2[k - 1] = at[l] /\ w2[k] = b
        BY <1>2, <1>4, <1>5, <2>2
      <3> QED BY <1>3, <3>1
    <2> QED BY <1>5, <2>1, <2>2
  <1>8. n = at2[l + 1] + Len(<<>>) /\ Piece(<<>>, rec, at2[l + 1])
    BY <1>4 DEF Piece
  <1>9. at2[0] = at[0]
    BY <1>4, <1>5
  <1>10. Links(c, rec, at2, w2, <<>>, n, e)
    BY <1>2, <1>3, <1>6, <1>7, <1>8, <1>9, Zenon DEF Links
  <1> QED BY <1>9, <1>10 DEF w2

(* The first of the buffers arrives, or is lost. *)
LEMMA LinksTake ==
  ASSUME NEW c, NEW rec, NEW at, NEW w \in Seq(Seq(Records)), w # <<>>,
         NEW b \in Seq(Records), NEW n \in Nat, NEW e, Links(c, rec, at, w, b, n, e)
  PROVE  /\ at[0] \in Nat /\ Head(w) \in Seq(Records) /\ Piece(Head(w), rec, at[0])
         /\ Chain(c, rec, at[0], at[0] + Len(Head(w)))
         /\ \E at2 : /\ Links(c, rec, at2, Tail(w), b, n, e)
                     /\ at2[0] = at[0] + Len(Head(w))
  <1> DEFINE l == Len(w)
             at2 == [k \in 0..(l - 1) |-> at[k + 1]]
             w2 == Tail(w)
  <1>1. l \in Nat \ {0} /\ \A k \in 1..l : w[k] \in Seq(Records) /\ Len(w[k]) \in Nat
    <2>1. l # 0
      OBVIOUS
    <2> QED BY <2>1, BufferSizes
  <1>2. Len(w2) = l - 1 /\ Head(w) = w[1] /\ \A k \in 1..(l - 1) : w2[k] = w[k + 1]
    OBVIOUS
  <1>3. /\ \A k \in 0..l : at[k] \in 0..n
        /\ \A k \in 1..l : at[k] = at[k - 1] + Len(w[k]) /\ Piece(w[k], rec, at[k - 1])
        /\ n = at[l] + Len(b) /\ Piece(b, rec, at[l])
        /\ c[n] = e /\ Chain(c, rec, at[0], n)
    BY DEF Links
  <1> HIDE DEF l, w2
  <1>4. \A k \in 0..(l - 1) : at2[k] = at[k + 1]
    OBVIOUS
  <1> HIDE DEF at2
  <1>5. /\ \A k \in 0..(l - 1) : k + 1 \in 0..l
        /\ \A k \in 1..(l - 1) : /\ k \in 0..(l - 1) /\ k - 1 \in 0..(l - 1)
                                 /\ k + 1 \in 1..l /\ (k - 1) + 1 = k /\ (k + 1) - 1 = k
        /\ l - 1 \in 0..(l - 1) /\ (l - 1) + 1 = l /\ 0 \in 0..(l - 1) /\ 0 + 1 = 1
        /\ 1 \in 1..l /\ 1 \in 0..l /\ 0 \in 0..l /\ 1 - 1 = 0
    BY <1>1
  <1>6. at[1] = at[0] + Len(w[1]) /\ Piece(w[1], rec, at[0]) /\ w[1] \in Seq(Records)
        /\ at[0] \in 0..n /\ at[1] \in 0..n /\ at2[0] = at[1] /\ at2[l - 1] = at[l]
    <2>1. at[1] = at[1 - 1] + Len(w[1]) /\ Piece(w[1], rec, at[1 - 1]) /\ w[1] \in Seq(Records)
      BY <1>1, <1>3, <1>5, Zenon
    <2>2. at2[0] = at[0 + 1] /\ at2[l - 1] = at[(l - 1) + 1]
      BY <1>4, <1>5, Zenon
    <2>3. at[0] \in 0..n /\ at[1] \in 0..n
      BY <1>3, <1>5, Zenon
    <2> QED BY <1>5, <2>1, <2>2, <2>3
  <1>7. \A k \in 0..(l - 1) : at2[k] \in 0..n
    BY <1>3, <1>4, <1>5, Zenon
  <1>8. \A k \in 1..(l - 1) : at2[k] = at2[k - 1] + Len(w2[k]) /\ Piece(w2[k], rec, at2[k - 1])
    <2> SUFFICES ASSUME NEW k \in 1..(l - 1)
                 PROVE  at2[k] = at2[k - 1] + Len(w2[k]) /\ Piece(w2[k], rec, at2[k - 1])
      OBVIOUS
    <2>1. at2[k] = at[k + 1] /\ at2[k - 1] = at[(k - 1) + 1] /\ (k - 1) + 1 = k
      BY <1>4, <1>5, Zenon
    <2>2. at[k + 1] = at[(k + 1) - 1] + Len(w[k + 1]) /\ Piece(w[k + 1], rec, at[(k + 1) - 1])
          /\ (k + 1) - 1 = k
      BY <1>3, <1>5, Zenon
    <2> QED BY <1>2, <2>1, <2>2
  <1>9. /\ Chain(c, rec, at[1], n) /\ Chain(c, rec, at[0], at[1])
    <2> DEFINE x == at[0]
               y == at[1]
               z == Len(w[1])
    <2>1. x \in 0..n /\ y \in 0..n /\ y = x + z /\ z \in Nat /\ Chain(c, rec, x, n)
      BY <1>1, <1>3, <1>5, <1>6
    <2> HIDE DEF x, y, z
    <2>2. /\ \A i \in y..n : i \in x..n
          /\ \A i \in (y + 1)..n : i \in (x + 1)..n
          /\ \A i \in x..y : i \in x..n
          /\ \A i \in (x + 1)..y : i \in (x + 1)..n
      BY <2>1
    <2>3. Chain(c, rec, y, n) /\ Chain(c, rec, x, y)
      BY <2>1, <2>2 DEF Chain
    <2> QED BY <2>3 DEF x, y
  <1>10. Links(c, rec, at2, w2, b, n, e)
    <2>1. Chain(c, rec, at2[0], n)
      BY <1>6, <1>9
    <2>2. n = at2[l - 1] + Len(b) /\ Piece(b, rec, at2[l - 1])
      BY <1>3, <1>6
    <2> QED BY <1>2, <1>3, <1>7, <1>8, <2>1, <2>2, Zenon DEF Links
  <1>11. at[0] \in Nat
    BY <1>6
  <1>12. at2[0] = at[0] + Len(Head(w)) /\ Chain(c, rec, at[0], at[0] + Len(Head(w)))
    BY <1>2, <1>6, <1>9
  <1> QED BY <1>2, <1>6, <1>10, <1>11, <1>12, Zenon DEF w2


-----------------------------------------------------------------------------
(* The inductive invariant. *)

CompressorType ==
  /\ EncoderCaches(encoder) /\ decoder \in DecoderCaches
  /\ buffer \in Seq(Records) /\ way \in Seq(Seq(Records)) /\ received \in Seq(Messages)
  /\ encoded \in Nat

Truthful ==
  \A k \in 1..Len(received) : Intact(Entry(received[k].record)) => Faithful(received[k])

\* The caches the encoder has had, and the records that led from one to the next: the
\* decoder is in step with those before the first buffer under way.
History(c, rec, at) ==
  /\ Links(c, rec, at, way, buffer, encoded, encoder)
  /\ crashed = <<>> => InStep(decoder, c[at[0]], spoiled)

CompressorInv ==
  /\ CompressorType /\ Truthful /\ NullOnlyAfterLoss
  /\ \E c, rec, at : History(c, rec, at)

(* Both contexts begin without entries. *)
LEMMA CompressorStarts == Init => CompressorInv
  <1> SUFFICES ASSUME Init PROVE CompressorInv
    OBVIOUS
  <1>1. /\ encoder = [t \in DOMAIN Template |-> <<>>] /\ decoder = [t \in DecoderKnows |-> <<>>]
        /\ buffer = <<>> /\ way = <<>> /\ received = <<>>
        /\ crashed = <<>> /\ spoiled = {} /\ encoded = 0
    BY DEF Init
  <1>2. EncoderCaches(encoder)
    <2>1. encoder \in [DOMAIN Template -> Seq([token : Tokens, values : Seq(Values)])]
      BY <1>1
    <2>2. \A t \in DOMAIN Template : Len(encoder[t]) = 0
      BY <1>1
    <2> QED BY <2>1, <2>2 DEF EncoderCaches
  <1>3. decoder \in DecoderCaches
    <2>1. decoder \in [DecoderKnows -> Seq(Seq(Values))]
      BY <1>1
    <2>2. \A t \in DecoderKnows : decoder[t] = <<>> /\ Len(decoder[t]) = 0
      BY <1>1
    <2> QED BY <2>1, <2>2 DEF DecoderCaches, Entries
  <1>4. CompressorType
    BY <1>1, <1>2, <1>3 DEF CompressorType
  <1>5. Truthful /\ NullOnlyAfterLoss
    BY <1>1 DEF Truthful, NullOnlyAfterLoss
  <1> DEFINE c == [i \in {0} |-> encoder]
             at == [i \in {0} |-> 0]
  <1>6. c[0] = encoder /\ at[0] = 0
    OBVIOUS
  <1> HIDE DEF c, at
  <1>7. Chain(c, <<>>, 0, 0)
    BY <1>2, <1>6 DEF Chain
  <1>8. Links(c, <<>>, at, way, buffer, encoded, encoder)
    <2>1. Len(way) = 0 /\ Len(buffer) = 0
      BY <1>1
    <2> QED BY <1>1, <1>6, <1>7, <2>1 DEF Links, Piece
  <1>9. InStep(decoder, c[at[0]], spoiled)
    <2>1. \A t \in DecoderKnows : t \in DOMAIN Template
      BY CompressorAssumption
    <2>2. \A t \in DecoderKnows : Len(decoder[t]) = 0 /\ Len(encoder[t]) = 0
      BY <1>1, <2>1
    <2> QED BY <1>6, <2>2 DEF InStep
  <1> QED BY <1>4, <1>5, <1>8, <1>9 DEF CompressorInv, History

(* What is in step stays so when more entries are excepted. *)
LEMMA InStepMore ==
  ASSUME NEW d, NEW e, NEW sp, NEW sp2, InStep(d, e, sp), sp \subseteq sp2
  PROVE  InStep(d, e, sp2)
  <1>1. \A x : x \notin sp2 => x \notin sp
    OBVIOUS
  <1> QED BY <1>1 DEF InStep

(* A record is encoded: the caches behind it are the encoder's new ones. *)
LEMMA EncodeStep ==
  ASSUME CompressorInv, NEW r, EncodedBuffer(r), EncoderCaches(encoder'),
         Encodes(encoder, r, encoder')
  PROVE  CompressorInv'
  <1>1. CompressorType /\ Truthful /\ NullOnlyAfterLoss /\ r \in Records
    BY DEF CompressorInv, Encodes
  <1>2. PICK c, rec, at : History(c, rec, at)
    BY DEF CompressorInv
  <1>3. /\ buffer' = Append(buffer, r) /\ encoded' = encoded + 1 /\ received' = <<>>
        /\ decoder' = decoder /\ way' = way /\ crashed' = crashed /\ spoiled' = spoiled
    BY DEF EncodedBuffer
  <1>4. /\ decoder \in DecoderCaches /\ buffer \in Seq(Records) /\ way \in Seq(Seq(Records))
        /\ encoded \in Nat
    BY <1>1 DEF CompressorType
  <1>5. PICK c2, rec2 : /\ Links(c2, rec2, at, way, Append(buffer, r), encoded + 1, encoder')
                        /\ c2[at[0]] = c[at[0]]
    BY <1>1, <1>2, <1>4, LinksEncode DEF History
  <1>6. CompressorType'
    <2>1. Append(buffer, r) \in Seq(Records) /\ encoded + 1 \in Nat /\ <<>> \in Seq(Messages)
      BY <1>1, <1>4
    <2> QED BY <1>3, <1>4, <2>1 DEF CompressorType
  <1>7. Truthful' /\ NullOnlyAfterLoss'
    BY <1>1, <1>3 DEF Truthful, NullOnlyAfterLoss
  <1>8. History(c2, rec2, at)'
    BY <1>2, <1>3, <1>5 DEF History
  <1> QED BY <1>6, <1>7, <1>8 DEF CompressorInv

(* The buffer becomes the last one under way. *)
LEMMA SendStep ==
  ASSUME CompressorInv, Send
  PROVE  CompressorInv'
  <1>1. CompressorType /\ Truthful /\ NullOnlyAfterLoss
    BY DEF CompressorInv
  <1>2. PICK c, rec, at : History(c, rec, at)
    BY DEF CompressorInv
  <1>3. /\ way' = Append(way, buffer) /\ buffer' = <<>> /\ received' = <<>>
        /\ encoder' = encoder /\ decoder' = decoder /\ crashed' = crashed /\ spoiled' = spoiled
        /\ encoded' = encoded
    BY DEF Send
  <1>4. /\ EncoderCaches(encoder) /\ decoder \in DecoderCaches /\ buffer \in Seq(Records)
        /\ way \in Seq(Seq(Records)) /\ encoded \in Nat
    BY <1>1 DEF CompressorType
  <1>5. PICK at2 : /\ Links(c, rec, at2, Append(way, buffer), <<>>, encoded, encoder)
                   /\ at2[0] = at[0]
    BY <1>2, <1>4, LinksSend DEF History
  <1>6. CompressorType'
    <2>1. Append(way, buffer) \in Seq(Seq(Records)) /\ <<>> \in Seq(Records)
          /\ <<>> \in Seq(Messages)
      BY <1>4
    <2> QED BY <1>3, <1>4, <2>1 DEF CompressorType
  <1>7. Truthful' /\ NullOnlyAfterLoss'
    BY <1>1, <1>3 DEF Truthful, NullOnlyAfterLoss
  <1>8. History(c, rec, at2)'
    BY <1>2, <1>3, <1>5 DEF History
  <1> QED BY <1>6, <1>7, <1>8 DEF CompressorInv

(* A buffer is lost, and the entries of its records with it. *)
LEMMA LoseStep ==
  ASSUME CompressorInv, Lose
  PROVE  CompressorInv'
  <1>1. CompressorType /\ Truthful /\ NullOnlyAfterLoss
    BY DEF CompressorInv
  <1>2. PICK c, rec, at : History(c, rec, at)
    BY DEF CompressorInv
  <1>3. /\ way # <<>> /\ way' = Tail(way) /\ received' = <<>>
        /\ spoiled' = spoiled \cup EntriesOf(Head(way))
        /\ encoder' = encoder /\ decoder' = decoder /\ buffer' = buffer /\ crashed' = crashed
        /\ encoded' = encoded
    BY DEF Lose, EntriesOf
  <1>4. /\ EncoderCaches(encoder) /\ decoder \in DecoderCaches /\ buffer \in Seq(Records)
        /\ way \in Seq(Seq(Records)) /\ encoded \in Nat
    BY <1>1 DEF CompressorType
  <1>5. /\ at[0] \in Nat /\ Head(way) \in Seq(Records) /\ Piece(Head(way), rec, at[0])
        /\ Chain(c, rec, at[0], at[0] + Len(Head(way)))
        /\ \E at2 : /\ Links(c, rec, at2, Tail(way), buffer, encoded, encoder)
                    /\ at2[0] = at[0] + Len(Head(way))
    BY <1>2, <1>3, <1>4, LinksTake DEF History
  <1>6. PICK at2 : /\ Links(c, rec, at2, Tail(way), buffer, encoded, encoder)
                   /\ at2[0] = at[0] + Len(Head(way))
    BY <1>5
  <1>7. CompressorType'
    <2>1. Tail(way) \in Seq(Seq(Records)) /\ <<>> \in Seq(Messages)
      BY <1>3, <1>4
    <2> QED BY <1>3, <1>4, <2>1 DEF CompressorType
  <1>8. Truthful' /\ NullOnlyAfterLoss'
    BY <1>1, <1>3 DEF Truthful, NullOnlyAfterLoss
  <1>9. crashed = <<>> => InStep(decoder, c[at[0] + Len(Head(way))], spoiled')
    <2> SUFFICES ASSUME crashed = <<>>
                 PROVE  InStep(decoder, c[at[0] + Len(Head(way))],
                               spoiled \cup EntriesOf(Head(way)))
      BY <1>3
    <2>1. InStep(decoder, c[at[0]], spoiled)
      BY <1>2 DEF History
    <2> QED BY <1>4, <1>5, <2>1, SkippedAll
  <1>10. History(c, rec, at2)'
    BY <1>3, <1>6, <1>9 DEF History
  <1> QED BY <1>7, <1>8, <1>10 DEF CompressorInv

(* A buffer is decoded, as far as it can be. *)
LEMMA DecodeStep ==
  ASSUME CompressorInv, Decode
  PROVE  CompressorInv'
  <1> DEFINE base == [caches |-> decoder, messages |-> <<>>, end |-> "none", left |-> <<>>]
             s == FoldLeft(DecodeRecord, base, Head(way))
  <1>1. CompressorType /\ Truthful /\ NullOnlyAfterLoss
    BY DEF CompressorInv
  <1>2. PICK c, rec, at : History(c, rec, at)
    BY DEF CompressorInv
  <1>3. /\ way # <<>> /\ crashed = <<>> /\ way' = Tail(way) /\ decoder' = s.caches
        /\ encoder' = encoder /\ buffer' = buffer /\ encoded' = encoded
    BY DEF Decode
  <1>4. /\ s.end = "crash" => /\ crashed' = Entry(Head(s.left)) /\ received' = <<>>
                              /\ spoiled' = spoiled
        /\ s.end # "crash" => /\ received' = s.messages /\ crashed' = <<>>
                              /\ spoiled' = spoiled \cup EntriesOf(s.left)
    BY DEF Decode, EntriesOf
  <1>5. /\ EncoderCaches(encoder) /\ decoder \in DecoderCaches /\ buffer \in Seq(Records)
        /\ way \in Seq(Seq(Records)) /\ encoded \in Nat
    BY <1>1 DEF CompressorType
  <1>6. /\ at[0] \in Nat /\ Head(way) \in Seq(Records) /\ Piece(Head(way), rec, at[0])
        /\ Chain(c, rec, at[0], at[0] + Len(Head(way)))
        /\ \E at2 : /\ Links(c, rec, at2, Tail(way), buffer, encoded, encoder)
                    /\ at2[0] = at[0] + Len(Head(way))
    BY <1>2, <1>3, <1>5, LinksTake DEF History
  <1>7. PICK at2 : /\ Links(c, rec, at2, Tail(way), buffer, encoded, encoder)
                   /\ at2[0] = at[0] + Len(Head(way))
    BY <1>6
  <1>8. LoopInv(s, c[at2[0]], spoiled)
    <2>1. InStep(decoder, c[at[0]], spoiled)
      BY <1>2, <1>3 DEF History
    <2>2. LoopInv(s, c[at[0] + Len(Head(way))], spoiled)
      BY <1>5, <1>6, <2>1, LoopAll
    <2> HIDE DEF s
    <2> QED BY <1>7, <2>2
  <1> HIDE DEF s
  <1>9. /\ s.caches \in DecoderCaches /\ s.messages \in Seq(Messages)
        /\ InStep(s.caches, c[at2[0]], spoiled \cup EntriesOf(s.left))
        /\ \A k \in 1..Len(s.messages) :
             Entry(s.messages[k].record) \notin spoiled => Faithful(s.messages[k])
        /\ s.end = "crash" => Entry(Head(s.left)) \in spoiled
    BY <1>8 DEF LoopInv, LoopStates
  <1>10. CompressorType'
    <2>1. Tail(way) \in Seq(Seq(Records)) /\ <<>> \in Seq(Messages)
      BY <1>3, <1>5
    <2>2. received' \in Seq(Messages)
      BY <1>4, <1>9, <2>1
    <2> QED BY <1>3, <1>5, <1>9, <2>1, <2>2 DEF CompressorType
  <1>11. CASE s.end = "crash"
    <2>1. crashed' = Entry(Head(s.left)) /\ received' = <<>> /\ spoiled' = spoiled
      BY <1>4, <1>11
    <2>2. crashed' # <<>>
      BY <2>1 DEF Entry
    <2>3. Truthful' /\ NullOnlyAfterLoss'
      BY <1>9, <1>11, <2>1 DEF Truthful, NullOnlyAfterLoss
    <2>4. History(c, rec, at2)'
      BY <1>3, <1>7, <2>2 DEF History
    <2> QED BY <1>10, <2>3, <2>4 DEF CompressorInv
  <1>12. CASE s.end # "crash"
    <2>1. /\ received' = s.messages /\ crashed' = <<>>
          /\ spoiled' = spoiled \cup EntriesOf(s.left)
      BY <1>4, <1>12
    <2>2. Truthful' /\ NullOnlyAfterLoss'
      <3>1. \A k \in 1..Len(received') :
              Entry(received'[k].record) \notin spoiled' => Faithful(received'[k])
        BY <1>9, <2>1
      <3> QED BY <2>1, <3>1 DEF Truthful, NullOnlyAfterLoss, Intact
    <2>3. History(c, rec, at2)'
      BY <1>3, <1>7, <1>9, <2>1 DEF History
    <2> QED BY <1>10, <2>2, <2>3 DEF CompressorInv
  <1> QED BY <1>11, <1>12

(***************************************************************************)
(* The encoder's caches and records form one history, and as long as it    *)
(* has not met a null entry the decoder is in step with the point of it    *)
(* that has arrived (Context::encode and Context::decode).                 *)
(***************************************************************************)
THEOREM CompressorInvariance == Spec => []CompressorInv
  <1>1. Init => CompressorInv
    BY CompressorStarts
  <1>2. CompressorInv /\ [Next]_vars => CompressorInv'
    <2> SUFFICES ASSUME CompressorInv, [Next]_vars PROVE CompressorInv'
      OBVIOUS
    <2>1. ASSUME NEW m \in Inputs, NEW token \in Tokens, EncodeNew(m, token)
          PROVE  CompressorInv'
      <3>1. /\ encoder' = [encoder EXCEPT ![m.template] =
                             Append(@, [token |-> token, values |-> m.values])]
            /\ EncodedBuffer(NewRecord(m, encoder))
        BY <2>1, Zenon DEF EncodeNew, NewRecord
      <3>2. EncoderCaches(encoder)
        BY DEF CompressorInv, CompressorType
      <3>3. EncoderCaches(encoder') /\ Encodes(encoder, NewRecord(m, encoder), encoder')
        BY <3>1, <3>2, EncodesNew
      <3> QED BY <3>1, <3>3, EncodeStep
    <2>2. ASSUME NEW m \in Inputs, NEW token \in Tokens, NEW noise \in BOOLEAN,
                 EncodeKnown(m, token, noise)
          PROVE  CompressorInv'
      <3>1. PICK index \in DOMAIN encoder[m.template] :
              /\ encoder' = [encoder EXCEPT ![m.template][index].values =
                               KnownValues(m, encoder, index, noise)]
              /\ EncodedBuffer(KnownRecord(m, encoder, index, noise))
        BY <2>2, Zenon DEF EncodeKnown, KnownValues, KnownRecord
      <3>2. EncoderCaches(encoder)
        BY DEF CompressorInv, CompressorType
      <3>3. /\ EncoderCaches(encoder')
            /\ Encodes(encoder, KnownRecord(m, encoder, index, noise), encoder')
        BY <3>1, <3>2, EncodesKnown
      <3> QED BY <3>1, <3>3, EncodeStep
    <2>3. ASSUME UNCHANGED vars PROVE CompressorInv'
      BY <2>3 DEF vars, CompressorInv, CompressorType, Truthful, NullOnlyAfterLoss, History, Intact
    <2> QED BY <2>1, <2>2, <2>3, SendStep, LoseStep, DecodeStep DEF Next
  <1> QED BY <1>1, <1>2, PTL DEF Spec

(***************************************************************************)
(* Once everything has arrived both contexts agree on every entry of which *)
(* no record was lost: encode and decode update their caches alike.        *)
(***************************************************************************)
THEOREM CachesStayEqual == Spec => []CachesAgree
  <1>1. CompressorInv => CachesAgree
    <2> SUFFICES ASSUME CompressorInv, buffer = <<>>, way = <<>>, crashed = <<>>,
                        NEW t \in DecoderKnows, NEW index \in DOMAIN encoder[t],
                        Intact(<<t, index>>)
                 PROVE  /\ index \in DOMAIN decoder[t] /\ decoder[t][index] # Null
                        /\ \A i \in Fields(t) : Accessible(Template[t][i]) =>
                             decoder[t][index][i] = encoder[t][index].values[i]
      BY DEF CachesAgree
    <2>1. PICK c, rec, at : History(c, rec, at)
      BY DEF CompressorInv
    <2>2. EncoderCaches(encoder) /\ decoder \in DecoderCaches
      BY DEF CompressorInv, CompressorType
    <2>3. c[at[0]] = encoder
      <3>1. Len(way) = 0 /\ Len(buffer) = 0
        OBVIOUS
      <3>2. at[0] \in 0..encoded /\ encoded = at[0] + 0 /\ c[encoded] = encoder
        BY <2>1, <3>1 DEF History, Links
      <3> QED BY <3>2
    <2>4. InStep(decoder, encoder, spoiled)
      BY <2>1, <2>3 DEF History
    <2>5. t \in DOMAIN Template /\ index \in 1..Len(encoder[t])
      <3>1. t \in DOMAIN Template
        BY CompressorAssumption
      <3>2. encoder[t] \in Seq([token : Tokens, values : Seq(Values)])
        BY <2>2, <3>1 DEF EncoderCaches
      <3> QED BY <3>1, <3>2
    <2>6. /\ index <= Len(decoder[t]) /\ decoder[t][index] # Null
          /\ Agree(t, decoder[t][index], encoder[t][index].values)
      BY <2>4, <2>5 DEF InStep, Intact
    <2>7. index \in DOMAIN decoder[t]
      <3>1. decoder[t] \in Seq(Seq(Values))
        BY <2>2 DEF DecoderCaches
      <3>2. index \in Nat \ {0}
        BY <2>5, <2>2, ArraySizes
      <3> QED BY <2>6, <3>1, <3>2
    <2> QED BY <2>6, <2>7 DEF Agree
  <1> QED BY <1>1, CompressorInvariance, PTL

(***************************************************************************)
(* A message that is decoded from an intact entry has the values that were *)
(* encoded, but for the integers that decode leaves at 0, and nothing of   *)
(* its record is left over.                                                *)
(***************************************************************************)
THEOREM DecodedIsEncoded == Spec => []DecodedAsEncoded
  <1>1. CompressorInv => DecodedAsEncoded
    <2> SUFFICES ASSUME CompressorInv PROVE DecodedAsEncoded
      OBVIOUS
    <2>1. received \in Seq(Messages) /\ Truthful
      BY DEF CompressorInv, CompressorType
    <2>2. DOMAIN received = 1..Len(received)
      BY <2>1
    <2>3. \A k \in DOMAIN received : Intact(Entry(received[k].record)) => Faithful(received[k])
      BY <2>1, <2>2 DEF Truthful
    <2> QED BY <2>3, Zenon DEF DecodedAsEncoded, Faithful, FieldGood
  <1> QED BY <1>1, CompressorInvariance, PTL

(***************************************************************************)
(* The entry that decode finds to be a null pointer has lost a record.     *)
(***************************************************************************)
THEOREM NullIsLoss == Spec => []NullOnlyAfterLoss
  <1>1. CompressorInv => NullOnlyAfterLoss
    BY DEF CompressorInv
  <1> QED BY <1>1, CompressorInvariance, PTL

-----------------------------------------------------------------------------
(* The exchange's decoder: what one turn of its loop does. *)

Decoders ==
  [state : {"HEAD", "BODY", "TAIL"}, buffer : Seq(Nat), bodySize : Nat,
   handed : Seq(Seq(Nat)), rest : Seq(Nat), ret : {0, -1}]

Decoder(s, b, z, h, r, e) ==
  [state |-> s, buffer |-> b, bodySize |-> z, handed |-> h, rest |-> r, ret |-> e]

(* A decoder is its parts. *)
LEMMA DecoderParts ==
  ASSUME NEW d \in Decoders
  PROVE  /\ d = Decoder(d.state, d.buffer, d.bodySize, d.handed, d.rest, d.ret)
         /\ d.state \in {"HEAD", "BODY", "TAIL"} /\ d.buffer \in Seq(Nat) /\ d.bodySize \in Nat
         /\ d.handed \in Seq(Seq(Nat)) /\ d.rest \in Seq(Nat) /\ d.ret \in {0, -1}
  BY DEF Decoders, Decoder

(* The parts of a decoder that is written out. *)
LEMMA DecoderFields ==
  ASSUME NEW s, NEW b, NEW z, NEW h, NEW r, NEW e
  PROVE  LET d == Decoder(s, b, z, h, r, e)
         IN  /\ d.state = s /\ d.buffer = b /\ d.bodySize = z
             /\ d.handed = h /\ d.rest = r /\ d.ret = e
  BY DEF Decoder

(* A decoder starts again, and gives up the piece. *)
LEMMA RefusedSteps ==
  ASSUME NEW st, NEW b, NEW z, NEW h, NEW r, NEW e
  PROVE  /\ reset(Decoder(st, b, z, h, r, e)) = Decoder("HEAD", <<>>, 0, h, r, e)
         /\ Refused(Decoder(st, b, z, h, r, e)) = Decoder("HEAD", <<>>, 0, h, <<>>, -1)
  <1>1. reset(Decoder(st, b, z, h, r, e)) = Decoder("HEAD", <<>>, 0, h, r, e)
    <2> DEFINE d == Decoder(st, b, z, h, r, e)
    <2>1. /\ [d EXCEPT !.state = "HEAD"] = Decoder("HEAD", b, z, h, r, e)
          /\ [Decoder("HEAD", b, z, h, r, e) EXCEPT !.buffer = <<>>]
               = Decoder("HEAD", <<>>, z, h, r, e)
          /\ [Decoder("HEAD", <<>>, z, h, r, e) EXCEPT !.bodySize = 0]
               = Decoder("HEAD", <<>>, 0, h, r, e)
      BY DEF Decoder
    <2> HIDE DEF d
    <2>2. reset(d) = [[[d EXCEPT !.state = "HEAD"] EXCEPT !.buffer = <<>>] EXCEPT !.bodySize = 0]
      BY DEF reset
    <2> QED BY <2>1, <2>2, Zenon DEF d
  <1> DEFINE f == Decoder("HEAD", <<>>, 0, h, r, e)
  <1>2. [f EXCEPT !.ret = -1, !.rest = <<>>] = Decoder("HEAD", <<>>, 0, h, <<>>, -1)
    <2>1. /\ [f EXCEPT !.ret = -1] = Decoder("HEAD", <<>>, 0, h, r, -1)
          /\ [Decoder("HEAD", <<>>, 0, h, r, -1) EXCEPT !.rest = <<>>]
               = Decoder("HEAD", <<>>, 0, h, <<>>, -1)
      BY DEF Decoder
    <2> HIDE DEF f
    <2>2. [f EXCEPT !.ret = -1, !.rest = <<>>] = [[f EXCEPT !.ret = -1] EXCEPT !.rest = <<>>]
      OBVIOUS
    <2> QED BY <2>1, <2>2, Zenon
  <1>3. ASSUME NEW d, d = Decoder(st, b, z, h, r, e)
        PROVE  Refused(d) = Decoder("HEAD", <<>>, 0, h, <<>>, -1)
    <2>1. reset(d) = f
      BY <1>1, <1>3
    <2>2. Refused(d) = [reset(d) EXCEPT !.ret = -1, !.rest = <<>>]
      BY DEF Refused
    <2> HIDE DEF f
    <2> QED BY <1>2, <2>1, <2>2, Zenon
  <1> QED BY <1>1, <1>3

(* A state is complete. *)
LEMMA CompletedSteps ==
  ASSUME NEW b, NEW z, NEW h, NEW r, NEW e
  PROVE  /\ Completed(Decoder("HEAD", b, z, h, r, e)) = Decoder("BODY", b, BodyLength(b), h, r, e)
         /\ Completed(Decoder("BODY", b, z, h, r, e)) = Decoder("TAIL", b, z, h, r, e)
         /\ Right(b) => Completed(Decoder("TAIL", b, z, h, r, e))
                          = Decoder("HEAD", <<>>, 0, Append(h, b), r, e)
         /\ ~Right(b) => Completed(Decoder("TAIL", b, z, h, r, e))
                           = Decoder("HEAD", <<>>, 0, h, <<>>, -1)
  <1>0. ASSUME NEW s, NEW x, NEW y
        PROVE [Decoder(s, b, z, h, r, e) EXCEPT !.state = x, !.bodySize = y]
                = Decoder(x, b, y, h, r, e)
    <2> DEFINE d == Decoder(s, b, z, h, r, e)
    <2>1. [d EXCEPT !.state = x] = Decoder(x, b, z, h, r, e)
      BY DEF Decoder
    <2> HIDE DEF d
    <2>2. [d EXCEPT !.state = x, !.bodySize = y] = [[d EXCEPT !.state = x] EXCEPT !.bodySize = y]
      OBVIOUS
    <2>3. [Decoder(x, b, z, h, r, e) EXCEPT !.bodySize = y] = Decoder(x, b, y, h, r, e)
      BY DEF Decoder
    <2> QED BY <2>1, <2>2, <2>3, Zenon DEF d
  <1>1. Completed(Decoder("HEAD", b, z, h, r, e)) = Decoder("BODY", b, BodyLength(b), h, r, e)
    <2> DEFINE d == Decoder("HEAD", b, z, h, r, e)
    <2>1. d.state = "HEAD" /\ d.buffer = b
      BY DecoderFields
    <2>2. [d EXCEPT !.state = "BODY", !.bodySize = BodyLength(b)]
            = Decoder("BODY", b, BodyLength(b), h, r, e)
      BY <1>0, Zenon
    <2> HIDE DEF d
    <2>3. Completed(d) = [d EXCEPT !.state = "BODY", !.bodySize = BodyLength(d.buffer)]
      BY <2>1 DEF Completed
    <2> QED BY <2>1, <2>2, <2>3 DEF d
  <1>2. Completed(Decoder("BODY", b, z, h, r, e)) = Decoder("TAIL", b, z, h, r, e)
    <2> DEFINE d == Decoder("BODY", b, z, h, r, e)
    <2>1. d.state = "BODY"
      BY DecoderFields
    <2>2. [d EXCEPT !.state = "TAIL"] = Decoder("TAIL", b, z, h, r, e)
      BY DEF Decoder
    <2> HIDE DEF d
    <2>3. Completed(d) = [d EXCEPT !.state = "TAIL"]
      BY <2>1 DEF Completed
    <2> QED BY <2>2, <2>3 DEF d
  <1>4. ASSUME NEW d, d = Decoder("TAIL", b, z, h, r, e)
        PROVE  /\ d.state = "TAIL" /\ d.buffer = b
               /\ ~Right(b) => Completed(d) = Refused(d)
               /\ Right(b) => Completed(d) = [reset(d) EXCEPT !.handed = Append(@, b)]
    <2>1. d.state = "TAIL" /\ d.buffer = b
      BY <1>4, DecoderFields
    <2> QED BY <2>1 DEF Completed
  <1> DEFINE f == Decoder("HEAD", <<>>, 0, h, r, e)
  <1>6. [f EXCEPT !.handed = Append(@, b)] = Decoder("HEAD", <<>>, 0, Append(h, b), r, e)
    <2>1. f.handed = h
      BY DecoderFields
    <2>2. ASSUME NEW x PROVE [f EXCEPT !.handed = x] = Decoder("HEAD", <<>>, 0, x, r, e)
      BY DEF Decoder
    <2>3. [f EXCEPT !.handed = Append(h, b)] = Decoder("HEAD", <<>>, 0, Append(h, b), r, e)
      <3> HIDE DEF f
      <3> QED BY <2>2, Zenon
    <2> HIDE DEF f
    <2> QED BY <2>1, <2>3
  <1>7. ASSUME NEW d, d = Decoder("TAIL", b, z, h, r, e)
        PROVE  /\ Right(b) => Completed(d) = Decoder("HEAD", <<>>, 0, Append(h, b), r, e)
               /\ ~Right(b) => Completed(d) = Decoder("HEAD", <<>>, 0, h, <<>>, -1)
    <2>1. reset(d) = f /\ Refused(d) = Decoder("HEAD", <<>>, 0, h, <<>>, -1)
      BY <1>7, RefusedSteps
    <2> HIDE DEF f
    <2> QED BY <1>4, <1>6, <1>7, <2>1, Zenon
  <1> QED BY <1>1, <1>2, <1>7

\* The first n bytes of r are added to b, which gives b2, and r2 is left.
Copies(b, r, n, b2, r2) ==
  /\ b2 \in Seq(Nat) /\ Len(b2) = Len(b) + n
  /\ \A j \in 1..Len(b) : b2[j] = b[j]
  /\ \A j \in 1..n : b2[Len(b) + j] = r[j]
  /\ r2 \in Seq(Nat) /\ Len(r2) = Len(r) - n
  /\ \A j \in 1..Len(r2) : r2[j] = r[n + j]

(* The first bytes of a piece are added to the buffer. *)
LEMMA BytesCopied ==
  ASSUME NEW b \in Seq(Nat), NEW r \in Seq(Nat), NEW n \in 0..Len(r)
  PROVE  Copies(b, r, n, b \o SubSeq(r, 1, n), SubSeq(r, n + 1, Len(r)))
  <1>0. Len(r) \in Nat /\ Len(b) \in Nat
    OBVIOUS
  <1> DEFINE t == SubSeq(r, 1, n)
             b2 == b \o t
             r2 == SubSeq(r, n + 1, Len(r))
  <1>1. t \in Seq(Nat) /\ Len(t) = n /\ \A j \in 1..n : t[j] = r[j]
    <2>1. \A j \in 1..n : r[j] \in Nat
      BY <1>0
    <2>2. n \in Int /\ 1 \in Int
      BY <1>0
    <2>3. /\ t \in Seq(Nat) /\ Len(t) = (IF 1 <= n THEN n - 1 + 1 ELSE 0)
          /\ \A j \in 1..(n - 1 + 1) : t[j] = r[1 + j - 1]
      BY <2>1, <2>2, SubSeqProperties
    <2> HIDE DEF t
    <2> QED BY <1>0, <2>3
  <1>2. r2 \in Seq(Nat) /\ Len(r2) = Len(r) - n /\ \A j \in 1..Len(r2) : r2[j] = r[n + j]
    <2>1. \A j \in (n + 1)..Len(r) : r[j] \in Nat
      BY <1>0
    <2>2. n + 1 \in Int /\ Len(r) \in Int
      BY <1>0
    <2>3. /\ r2 \in Seq(Nat)
          /\ Len(r2) = (IF n + 1 <= Len(r) THEN Len(r) - (n + 1) + 1 ELSE 0)
          /\ \A j \in 1..(Len(r) - (n + 1) + 1) : r2[j] = r[(n + 1) + j - 1]
      BY <2>1, <2>2, SubSeqProperties
    <2> HIDE DEF r2
    <2>4. Len(r2) = Len(r) - n
      BY <1>0, <2>3
    <2>5. ASSUME NEW j \in 1..Len(r2) PROVE r2[j] = r[n + j]
      <3>1. j \in 1..(Len(r) - (n + 1) + 1) /\ (n + 1) + j - 1 = n + j
        BY <1>0, <2>4
      <3> QED BY <2>3, <3>1
    <2> QED BY <2>3, <2>4, <2>5
  <1> HIDE DEF t, r2
  <1>3. /\ b2 \in Seq(Nat) /\ Len(b2) = Len(b) + n
        /\ \A j \in 1..(Len(b) + n) : b2[j] = IF j <= Len(b) THEN b[j] ELSE t[j - Len(b)]
    BY <1>1, ConcatProperties
  <1> HIDE DEF b2
  <1>4. \A j \in 1..n : b2[Len(b) + j] = r[j]
    <2> SUFFICES ASSUME NEW j \in 1..n PROVE b2[Len(b) + j] = r[j]
      OBVIOUS
    <2>1. Len(b) + j \in 1..(Len(b) + n) /\ ~(Len(b) + j <= Len(b)) /\ (Len(b) + j) - Len(b) = j
      BY <1>0
    <2>2. b2[Len(b) + j] = t[j]
      BY <1>3, <2>1
    <2> QED BY <1>1, <2>2
  <1>5. \A j \in 1..Len(b) : b2[j] = b[j]
    <2> SUFFICES ASSUME NEW j \in 1..Len(b) PROVE b2[j] = b[j]
      OBVIOUS
    <2>1. j \in 1..(Len(b) + n) /\ j <= Len(b)
      BY <1>0
    <2> QED BY <1>3, <2>1
  <1>6. Copies(b, r, n, b2, r2)
    BY <1>2, <1>3, <1>4, <1>5 DEF Copies
  <1> QED BY <1>6 DEF t, r2, b2

\* The buffer holds what the state says.
Shape(d) ==
  /\ d.state = "HEAD" => Len(d.buffer) < headSize
  /\ d.state = "BODY" => Len(d.buffer) \in headSize..(headSize + d.bodySize)
  /\ d.state = "TAIL" => /\ headSize + d.bodySize <= Len(d.buffer)
                         /\ Len(d.buffer) < headSize + d.bodySize + tailSize
  /\ d.state # "HEAD" => d.bodySize = BodyLength(d.buffer)

Shaped == {d \in Decoders : Shape(d)}

\* d takes n bytes of the piece: its buffer becomes b, what is left of the piece r.
TakesUp(d, n, b, r) == Copies(d.buffer, d.rest, n, b, r)

\* What the loop makes of a decoder with b in its buffer and r left of the piece.
Outcome(d, b, r, e) ==
  \/ /\ r = <<>> /\ Len(b) < Target(d)
     /\ e = Decoder(d.state, b, d.bodySize, d.handed, r, d.ret)
  \/ /\ d.state = "HEAD" /\ Len(b) = Target(d)
     /\ e = Decoder("BODY", b, BodyLength(b), d.handed, r, d.ret)
  \/ /\ d.state = "BODY" /\ Len(b) = Target(d)
     /\ e = Decoder("TAIL", b, d.bodySize, d.handed, r, d.ret)
  \/ /\ d.state = "TAIL" /\ Len(b) = Target(d) /\ Right(b)
     /\ e = Decoder("HEAD", <<>>, 0, Append(d.handed, b), r, d.ret)
  \/ /\ d.state = "TAIL" /\ Len(b) = Target(d) /\ ~Right(b)
     /\ e = Decoder("HEAD", <<>>, 0, d.handed, <<>>, -1)
  \/ /\ d.state = "BODY" /\ d.bodySize > MaxInt /\ r = <<>>
     /\ e = Decoder("HEAD", <<>>, 0, d.handed, <<>>, -1)

(* What a state aims at, and what it lacks. *)
LEMMA Aims ==
  ASSUME NEW d \in Shaped
  PROVE  /\ Target(d) \in Nat /\ Len(d.buffer) \in Nat /\ Len(d.buffer) <= Target(d)
         /\ Lack(d) = Target(d) - Len(d.buffer) /\ Lack(d) \in Nat
         /\ d.state = "HEAD" => Target(d) = headSize /\ Lack(d) # 0
         /\ d.state = "BODY" => Target(d) = headSize + d.bodySize
         /\ d.state = "TAIL" => Target(d) = headSize + d.bodySize + tailSize /\ Lack(d) # 0
  <1>1. d \in Decoders /\ Shape(d)
    BY DEF Shaped
  <1>2. /\ d.state \in {"HEAD", "BODY", "TAIL"} /\ d.bodySize \in Nat /\ Len(d.buffer) \in Nat
        /\ headSize \in Nat /\ tailSize \in Nat
    BY <1>1, DecoderParts, DecoderAssumption
  <1>3. /\ d.state = "HEAD" => Target(d) = headSize
        /\ d.state = "BODY" => Target(d) = headSize + d.bodySize
        /\ d.state = "TAIL" => Target(d) = headSize + d.bodySize + tailSize
    BY DEF Target
  <1>4. Lack(d) = Target(d) - Len(d.buffer)
    BY DEF Lack
  <1>5. CASE d.state = "HEAD"
    BY <1>1, <1>2, <1>3, <1>4, <1>5 DEF Shape
  <1>6. CASE d.state = "BODY"
    BY <1>1, <1>2, <1>3, <1>4, <1>6 DEF Shape
  <1>7. CASE d.state = "TAIL"
    BY <1>1, <1>2, <1>3, <1>4, <1>7 DEF Shape
  <1> QED BY <1>2, <1>5, <1>6, <1>7


(* consume takes what is lacking, or all there is, *)
LEMMA ConsumeCopies ==
  ASSUME NEW d \in Shaped, ~(d.state = "BODY" /\ d.bodySize > MaxInt)
  PROVE  \E n \in 0..Len(d.rest), b \in Seq(Nat), r \in Seq(Nat) :
           /\ TakesUp(d, n, b, r) /\ Outcome(d, b, r, consume(d))
           /\ d.rest # <<>> /\ n = 0 => Lack(d) = 0
  <1> DEFINE n == IF Len(d.rest) >= Lack(d) THEN Lack(d) ELSE Len(d.rest)
             b == d.buffer \o SubSeq(d.rest, 1, n)
             r == SubSeq(d.rest, n + 1, Len(d.rest))
             copied == [d EXCEPT !.buffer = @ \o SubSeq(d.rest, 1, n),
                                 !.rest = SubSeq(@, n + 1, Len(@))]
  <1>1. d \in Decoders /\ d.buffer \in Seq(Nat) /\ d.rest \in Seq(Nat) /\ Len(d.rest) \in Nat
    BY DecoderParts DEF Shaped
  <1>2. /\ Lack(d) \in Nat /\ Lack(d) = Target(d) - Len(d.buffer)
        /\ Target(d) \in Nat /\ Len(d.buffer) \in Nat
    BY Aims
  <1>3. n \in 0..Len(d.rest) /\ (n = 0 => Lack(d) = 0 \/ Len(d.rest) = 0)
    BY <1>1, <1>2
  <1>4. consume(d) = IF Len(d.rest) >= Lack(d) THEN Completed(copied) ELSE copied
    BY DEF consume
  <1>5. copied = Decoder(d.state, b, d.bodySize, d.handed, r, d.ret)
    <2> HIDE DEF n
    <2>1. copied = [d EXCEPT !.buffer = b, !.rest = r]
      BY <1>1 DEF Decoders
    <2> HIDE DEF b, r, copied
    <2>2. [d EXCEPT !.buffer = b] = Decoder(d.state, b, d.bodySize, d.handed, d.rest, d.ret)
      <3> DEFINE f == Decoder(d.state, d.buffer, d.bodySize, d.handed, d.rest, d.ret)
      <3>1. [f EXCEPT !.buffer = b] = Decoder(d.state, b, d.bodySize, d.handed, d.rest, d.ret)
        BY DEF Decoder
      <3>2. d = f
        BY <1>1, DecoderParts
      <3> HIDE DEF f
      <3> QED BY <3>1, <3>2, Zenon
    <2>3. [d EXCEPT !.buffer = b, !.rest = r] = [[d EXCEPT !.buffer = b] EXCEPT !.rest = r]
      OBVIOUS
    <2>4. [Decoder(d.state, b, d.bodySize, d.handed, d.rest, d.ret) EXCEPT !.rest = r]
            = Decoder(d.state, b, d.bodySize, d.handed, r, d.ret)
      BY DEF Decoder
    <2> QED BY <2>1, <2>2, <2>3, <2>4, Zenon
  <1> HIDE DEF copied
  <1>6. TakesUp(d, n, b, r)
    <2> HIDE DEF n
    <2>1. n \in 0..Len(d.rest)
      BY <1>3
    <2> QED BY <1>1, <2>1, BytesCopied DEF TakesUp
  <1>a. n = (IF Len(d.rest) >= Lack(d) THEN Lack(d) ELSE Len(d.rest))
    OBVIOUS
  <1> HIDE DEF b, r, n
  <1>7. b \in Seq(Nat) /\ r \in Seq(Nat) /\ Len(b) = Len(d.buffer) + n
        /\ Len(r) = Len(d.rest) - n
    BY <1>6 DEF TakesUp, Copies
  <1>8. Outcome(d, b, r, consume(d))
    <2>1. CASE Len(d.rest) >= Lack(d)
      <3>1. Len(b) = Target(d) /\ consume(d) = Completed(copied)
        BY <1>2, <1>4, <1>7, <1>a, <2>1
      <3>2. CASE d.state = "HEAD"
        <4>1. consume(d) = Decoder("BODY", b, BodyLength(b), d.handed, r, d.ret)
          <5>1. copied = Decoder("HEAD", b, d.bodySize, d.handed, r, d.ret)
            BY <1>5, <3>2, Zenon
          <5> QED BY <3>1, <3>2, <5>1, CompletedSteps
        <4> QED BY <3>1, <3>2, <4>1 DEF Outcome
      <3>3. CASE d.state = "BODY"
        <4>1. consume(d) = Decoder("TAIL", b, d.bodySize, d.handed, r, d.ret)
          <5>1. copied = Decoder("BODY", b, d.bodySize, d.handed, r, d.ret)
            BY <1>5, <3>3, Zenon
          <5> QED BY <3>1, <3>3, <5>1, CompletedSteps
        <4> QED BY <3>1, <3>3, <4>1 DEF Outcome
      <3>4. CASE d.state = "TAIL" /\ Right(b)
        <4>1. consume(d) = Decoder("HEAD", <<>>, 0, Append(d.handed, b), r, d.ret)
          <5>1. copied = Decoder("TAIL", b, d.bodySize, d.handed, r, d.ret)
            BY <1>5, <3>4, Zenon
          <5> QED BY <3>1, <3>4, <5>1, CompletedSteps
        <4> QED BY <3>1, <3>4, <4>1 DEF Outcome
      <3>5. CASE d.state = "TAIL" /\ ~Right(b)
        <4>1. consume(d) = Decoder("HEAD", <<>>, 0, d.handed, <<>>, -1)
          <5>1. copied = Decoder("TAIL", b, d.bodySize, d.handed, r, d.ret)
            BY <1>5, <3>5, Zenon
          <5> QED BY <3>1, <3>5, <5>1, CompletedSteps
        <4> QED BY <3>1, <3>5, <4>1 DEF Outcome
      <3>6. d.state \in {"HEAD", "BODY", "TAIL"}
        BY <1>1, DecoderParts
      <3> QED BY <3>2, <3>3, <3>4, <3>5, <3>6
    <2>2. CASE ~(Len(d.rest) >= Lack(d))
      <3>1. n = Len(d.rest) /\ Len(r) = 0 /\ Len(b) < Target(d)
        <4>1. n = Len(d.rest)
          BY <1>a, <2>2
        <4>2. Len(d.rest) < Lack(d)
          BY <1>1, <1>2, <2>2
        <4>3. Len(d.rest) \in Nat /\ Len(r) = Len(d.rest) - n /\ Len(b) = Len(d.buffer) + n
          BY <1>1, <1>7
        <4>4. Len(r) = 0
          BY <4>1, <4>3
        <4>5. Len(b) < Len(d.buffer) + Lack(d)
          <5> DEFINE x == Len(d.rest)  l == Lack(d)  u == Len(d.buffer)  v == Len(b)
          <5>1. x \in Nat /\ l \in Nat /\ u \in Nat /\ x < l /\ v = u + x
            BY <1>2, <4>1, <4>2, <4>3
          <5> HIDE DEF x, l, u, v
          <5>2. v < u + l
            BY <5>1
          <5> QED BY <5>2 DEF l, u, v
        <4>6. Len(d.buffer) + Lack(d) = Target(d)
          BY <1>2
        <4> QED BY <4>1, <4>4, <4>5, <4>6
      <3>2. r = <<>>
        BY <1>7, <3>1
      <3> QED BY <1>4, <1>5, <2>2, <3>1, <3>2 DEF Outcome
    <2> QED BY <2>1, <2>2
  <1>9. d.rest # <<>> /\ n = 0 => Lack(d) = 0
    <2>1. d.rest # <<>> => Len(d.rest) # 0
      BY <1>1
    <2> QED BY <1>3, <2>1
  <1> QED BY <1>3, <1>6, <1>7, <1>8, <1>9

(* or gives up the piece at a length that is no int. *)
LEMMA ConsumeSteps ==
  ASSUME NEW d \in Shaped
  PROVE  \E n \in 0..Len(d.rest), b \in Seq(Nat), r \in Seq(Nat) :
           /\ TakesUp(d, n, b, r) /\ Outcome(d, b, r, consume(d))
           /\ d.rest # <<>> /\ n = 0 => Lack(d) = 0
  <1>1. CASE ~(d.state = "BODY" /\ d.bodySize > MaxInt)
    BY <1>1, ConsumeCopies
  <1>2. CASE d.state = "BODY" /\ d.bodySize > MaxInt
    <2> DEFINE n == Len(d.rest)
               b == d.buffer \o SubSeq(d.rest, 1, n)
               r == SubSeq(d.rest, n + 1, Len(d.rest))
    <2>1. d \in Decoders /\ d.buffer \in Seq(Nat) /\ d.rest \in Seq(Nat) /\ n \in Nat
      BY DecoderParts DEF Shaped
    <2>2. n \in 0..Len(d.rest) /\ (d.rest # <<>> => n # 0)
      BY <2>1
    <2>3. TakesUp(d, n, b, r)
      BY <2>1, <2>2, BytesCopied DEF TakesUp
    <2>4. consume(d) = Decoder("HEAD", <<>>, 0, d.handed, <<>>, -1)
      <3>1. d = Decoder(d.state, d.buffer, d.bodySize, d.handed, d.rest, d.ret)
        BY <2>1, DecoderParts
      <3>2. consume(d) = Refused(d)
        BY <1>2 DEF consume
      <3>3. Refused(Decoder(d.state, d.buffer, d.bodySize, d.handed, d.rest, d.ret))
              = Decoder("HEAD", <<>>, 0, d.handed, <<>>, -1)
        BY RefusedSteps
      <3> QED BY <3>1, <3>2, <3>3, Zenon
    <2> HIDE DEF b, r
    <2>5. b \in Seq(Nat) /\ r \in Seq(Nat) /\ r = <<>>
      <3>1. b \in Seq(Nat) /\ r \in Seq(Nat) /\ Len(r) = Len(d.rest) - n
        BY <2>3 DEF TakesUp, Copies
      <3> QED BY <2>1, <3>1
    <2>6. Outcome(d, b, r, consume(d))
      BY <1>2, <2>4, <2>5 DEF Outcome
    <2> QED BY <2>2, <2>3, <2>5, <2>6
  <1> QED BY <1>1, <1>2

(* A turn leaves a decoder whose buffer holds what its state says. *)
LEMMA OutcomeShaped ==
  ASSUME NEW d \in Shaped, NEW n \in 0..Len(d.rest), NEW b \in Seq(Nat), NEW r \in Seq(Nat),
         NEW e, TakesUp(d, n, b, r), Outcome(d, b, r, e)
  PROVE  e \in Shaped
  <1>1. /\ d.state \in {"HEAD", "BODY", "TAIL"} /\ d.buffer \in Seq(Nat) /\ d.bodySize \in Nat
        /\ d.handed \in Seq(Seq(Nat)) /\ d.rest \in Seq(Nat) /\ d.ret \in {0, -1}
        /\ Shape(d)
    BY DecoderParts DEF Shaped
  <1>2. /\ Target(d) \in Nat /\ Len(d.buffer) \in Nat /\ Len(d.buffer) <= Target(d)
        /\ d.state = "HEAD" => Target(d) = headSize
        /\ d.state = "BODY" => Target(d) = headSize + d.bodySize
        /\ d.state = "TAIL" => Target(d) = headSize + d.bodySize + tailSize
    BY Aims
  <1>3. /\ Len(b) \in Nat /\ Len(b) = Len(d.buffer) + n /\ n \in Nat
        /\ headSize \in Nat /\ headSize # 0 /\ tailSize \in Nat /\ tailSize # 0
        /\ \A j \in 1..Len(d.buffer) : b[j] = d.buffer[j]
    <2>1. headSize \in Nat /\ headSize # 0 /\ tailSize \in Nat /\ tailSize # 0
      BY DecoderAssumption
    <2>2. Len(b) = Len(d.buffer) + n /\ (\A j \in 1..Len(d.buffer) : b[j] = d.buffer[j])
      BY Zenon DEF TakesUp, Copies
    <2>3. Len(b) \in Nat /\ n \in Nat
      OBVIOUS
    <2> QED BY <2>1, <2>2, <2>3, Zenon
  <1>s. /\ d.state = "HEAD" => Len(d.buffer) < headSize
        /\ d.state = "BODY" => headSize <= Len(d.buffer)
        /\ d.state = "TAIL" => headSize + d.bodySize <= Len(d.buffer)
    <2>1. Shape(d)
      BY <1>1
    <2> QED BY <2>1, <1>2, <1>3 DEF Shape
  <1>z. d.bodySize \in Nat
    BY <1>1
  <1>4. d.state # "HEAD" => d.bodySize = BodyLength(b) /\ headSize <= Len(d.buffer)
    <2> SUFFICES ASSUME d.state # "HEAD"
                 PROVE d.bodySize = BodyLength(b) /\ headSize <= Len(d.buffer)
      OBVIOUS
    <2>1. headSize <= Len(d.buffer) /\ d.bodySize = BodyLength(d.buffer)
      BY <1>1, <1>2, <1>3 DEF Shape
    <2>2. headSize \in 1..Len(d.buffer)
      BY <1>2, <1>3, <2>1
    <2> QED BY <1>3, <2>1, <2>2 DEF BodyLength
  <1>5. ASSUME NEW s \in {"HEAD", "BODY", "TAIL"}, NEW c \in Seq(Nat), NEW z \in Nat,
               NEW h \in Seq(Seq(Nat)), NEW q \in Seq(Nat), NEW t \in {0, -1},
               e = Decoder(s, c, z, h, q, t),
               s = "HEAD" => Len(c) < headSize,
               s = "BODY" => headSize <= Len(c) /\ Len(c) <= headSize + z,
               s = "TAIL" => headSize + z <= Len(c) /\ Len(c) < headSize + z + tailSize,
               s # "HEAD" => z = BodyLength(c)
        PROVE  e \in Shaped
    <2>1. e \in Decoders
      BY <1>5 DEF Decoders, Decoder
    <2>2. e.state = s /\ e.buffer = c /\ e.bodySize = z
      BY <1>5, DecoderFields
    <2>3. Len(c) \in Nat
      OBVIOUS
    <2>4. Shape(e)
      BY <1>3, <1>5, <2>2, <2>3 DEF Shape
    <2> QED BY <2>1, <2>4 DEF Shaped
  <1>6. CASE /\ r = <<>> /\ Len(b) < Target(d)
             /\ e = Decoder(d.state, b, d.bodySize, d.handed, r, d.ret)
    <2>1. /\ d.state = "HEAD" => Len(b) < headSize
          /\ d.state = "BODY" => headSize <= Len(b) /\ Len(b) <= headSize + d.bodySize
          /\ d.state = "TAIL" => /\ headSize + d.bodySize <= Len(b)
                                 /\ Len(b) < headSize + d.bodySize + tailSize
      <3>1. Len(b) < Target(d) /\ Len(b) >= Len(d.buffer) /\ Len(b) \in Nat
        BY <1>2, <1>3, <1>6
      <3>2. d.state = "HEAD" => Len(b) < headSize
        BY <1>2, <3>1
      <3>3. d.state = "BODY" => headSize <= Len(b) /\ Len(b) <= headSize + d.bodySize
        BY <1>2, <1>3, <1>s, <1>z, <3>1
      <3>4. d.state = "TAIL" => /\ headSize + d.bodySize <= Len(b)
                                /\ Len(b) < headSize + d.bodySize + tailSize
        <4> SUFFICES ASSUME d.state = "TAIL"
                     PROVE  /\ headSize + d.bodySize <= Len(b)
                            /\ Len(b) < headSize + d.bodySize + tailSize
          OBVIOUS
        <4>1. headSize + d.bodySize <= Len(d.buffer)
          BY <1>s
        <4>2. Target(d) = headSize + d.bodySize + tailSize
          BY <1>2
        <4> QED BY <1>2, <1>3, <1>z, <3>1, <4>1, <4>2
      <3> QED BY <3>2, <3>3, <3>4
    <2> QED BY <1>1, <1>4, <1>5, <1>6, <2>1
  <1>7. CASE /\ d.state = "HEAD" /\ Len(b) = Target(d)
             /\ e = Decoder("BODY", b, BodyLength(b), d.handed, r, d.ret)
    <2>1. BodyLength(b) \in Nat /\ headSize <= Len(b) /\ Len(b) <= headSize + BodyLength(b)
      <3>1. headSize \in 1..Len(b)
        BY <1>2, <1>3, <1>7
      <3>2. BodyLength(b) \in Nat
        BY <3>1 DEF BodyLength
      <3> QED BY <1>2, <1>3, <1>7, <3>2
    <2> QED BY <1>1, <1>5, <1>7, <2>1
  <1>8. CASE /\ d.state = "BODY" /\ Len(b) = Target(d)
             /\ e = Decoder("TAIL", b, d.bodySize, d.handed, r, d.ret)
    <2>1. /\ headSize + d.bodySize <= Len(b) /\ Len(b) < headSize + d.bodySize + tailSize
      <3> DEFINE x == Len(b)  z == d.bodySize
      <3>1. x \in Nat /\ z \in Nat /\ headSize \in Nat /\ tailSize \in Nat /\ tailSize # 0
        BY <1>z, <1>3
      <3>2. x = headSize + z
        BY <1>2, <1>8, Zenon
      <3> HIDE DEF x, z
      <3>3. headSize + z <= x /\ x < headSize + z + tailSize
        BY <3>1, <3>2
      <3> QED BY <3>3 DEF x, z
    <2> QED BY <1>1, <1>4, <1>5, <1>8, <2>1
  <1>9. CASE /\ d.state = "TAIL" /\ Len(b) = Target(d) /\ Right(b)
             /\ e = Decoder("HEAD", <<>>, 0, Append(d.handed, b), r, d.ret)
    <2>1. /\ <<>> \in Seq(Nat) /\ Len(<<>>) < headSize /\ Append(d.handed, b) \in Seq(Seq(Nat))
          /\ 0 \in Nat
      BY <1>1, <1>3
    <2> QED BY <1>1, <1>5, <1>9, <2>1
  <1>10. CASE /\ d.state = "TAIL" /\ Len(b) = Target(d) /\ ~Right(b)
              /\ e = Decoder("HEAD", <<>>, 0, d.handed, <<>>, -1)
    <2>1. <<>> \in Seq(Nat) /\ Len(<<>>) < headSize /\ 0 \in Nat /\ -1 \in {0, -1}
      BY <1>3
    <2> QED BY <1>1, <1>5, <1>10, <2>1
  <1>11. CASE /\ d.state = "BODY" /\ d.bodySize > MaxInt /\ r = <<>>
              /\ e = Decoder("HEAD", <<>>, 0, d.handed, <<>>, -1)
    <2>1. <<>> \in Seq(Nat) /\ Len(<<>>) < headSize /\ 0 \in Nat /\ -1 \in {0, -1}
      BY <1>3
    <2> QED BY <1>1, <1>5, <1>11, <2>1
  <1> QED BY <1>6, <1>7, <1>8, <1>9, <1>10, <1>11 DEF Outcome


-----------------------------------------------------------------------------
(* Where the decoder is in the stream. *)

\* Where message i ends, if the messages are s.
EndOf(s, i) == IF i = 0 THEN 0 ELSE s[i].end

\* The messages s, one behind the other, are the stream.
Streamed(s, str) ==
  /\ s \in Seq([message : Seq(Nat), end : Nat]) /\ str \in Seq(Nat)
  /\ Len(str) = EndOf(s, Len(s))
  /\ \A i \in 0..Len(s) : EndOf(s, i) \in Nat
  /\ \A i, k \in 0..Len(s) : i <= k => EndOf(s, i) <= EndOf(s, k)
  /\ \A i \in 1..Len(s) :
       /\ s[i].message \in Frames
       /\ EndOf(s, i) = EndOf(s, i - 1) + Len(s[i].message)
       /\ \A j \in 1..Len(s[i].message) : s[i].message[j] = str[EndOf(s, i - 1) + j]

\* What is left of the piece ends at q.
Behind(d, q, str) ==
  /\ Len(d.rest) <= q /\ q <= Len(str)
  /\ \A j \in 1..Len(d.rest) : d.rest[j] = str[(q - Len(d.rest)) + j]

\* The messages up to p are handed over, and the buffer has the rest up to p.
OnTrack(d, p, s, str) ==
  /\ Len(d.handed) <= Len(s)
  /\ \A i \in 1..Len(d.handed) : d.handed[i] = s[i].message /\ Right(s[i].message)
  /\ p = EndOf(s, Len(d.handed)) + Len(d.buffer)
  /\ \A j \in 1..Len(d.buffer) : d.buffer[j] = str[EndOf(s, Len(d.handed)) + j]
  /\ Len(d.handed) < Len(s) => p < EndOf(s, Len(d.handed) + 1)

\* Or a message with a wrong checksum has passed, and those before it are handed over.
Lost(d, p, s) ==
  \E k \in 1..Len(s) :
    /\ ~Right(s[k].message) /\ EndOf(s, k) <= p
    /\ \A i \in 1..(k - 1) : i <= Len(d.handed) /\ d.handed[i] = s[i].message

Sound(d) == \A k \in 1..Len(d.handed) : WellFormed(d.handed[k])

At(d, p, s, str) == OnTrack(d, p, s, str) \/ Lost(d, p, s)

DecodeInv(d, q, s, str) ==
  /\ d \in Shaped /\ Sound(d) /\ Behind(d, q, str)
  /\ At(d, q - Len(d.rest), s, str)

(* A message has a head, its body and a tail. *)
LEMMA FrameType ==
  ASSUME NEW m \in Frames
  PROVE  /\ m \in Seq(Nat) /\ Len(m) \in Nat \ {0} /\ headSize \in 1..Len(m)
         /\ BodyLength(m) \in Nat /\ Len(m) = headSize + BodyLength(m) + tailSize
  <1>1. /\ m \in Seq(Nat) /\ headSize <= Len(m) /\ headSize \in Nat \ {0}
        /\ Len(m) = headSize + BodyLength(m) + tailSize
    BY DecoderAssumption
  <1>2. headSize \in 1..Len(m) /\ Len(m) \in Nat \ {0}
    BY <1>1
  <1>3. m[headSize] \in Nat
    BY <1>1, <1>2
  <1> QED BY <1>1, <1>2, <1>3 DEF BodyLength

(* The parts a turn may change. *)
LEMMA OutcomeParts ==
  ASSUME NEW d, NEW b, NEW r, NEW e, Outcome(d, b, r, e)
  PROVE  /\ e.rest = r \/ e.rest = <<>>
         /\ \/ e.handed = d.handed
            \/ /\ e.handed = Append(d.handed, b) /\ d.state = "TAIL"
               /\ Len(b) = Target(d) /\ Right(b)
  <1>1. ASSUME NEW st, NEW c, NEW z, NEW h, NEW v, NEW t, e = Decoder(st, c, z, h, v, t)
        PROVE  e.handed = h /\ e.rest = v
    BY <1>1 DEF Decoder
  <1> QED BY <1>1 DEF Outcome

(* What is left of the piece still ends at q. *)
LEMMA RestKept ==
  ASSUME NEW d, NEW q \in Nat, NEW str \in Seq(Nat), Behind(d, q, str),
         d.rest \in Seq(Nat), NEW n \in 0..Len(d.rest), NEW b, NEW r, NEW e,
         TakesUp(d, n, b, r), e.rest = r \/ e.rest = <<>>
  PROVE  Behind(e, q, str) /\ Len(e.rest) <= Len(d.rest) - n /\ Len(e.rest) \in Nat
         /\ (e.rest = r => Len(e.rest) = Len(d.rest) - n)
  <1>1. /\ Len(d.rest) \in Nat /\ n \in Nat /\ n <= Len(d.rest) /\ Len(str) \in Nat
        /\ Len(d.rest) <= q /\ q <= Len(str)
        /\ \A j \in 1..Len(d.rest) : d.rest[j] = str[(q - Len(d.rest)) + j]
    <2>1. Len(d.rest) \in Nat /\ Len(str) \in Nat
      OBVIOUS
    <2>2. n \in Nat /\ n <= Len(d.rest)
      BY <2>1
    <2> QED BY <2>1, <2>2 DEF Behind
  <1>2. /\ r \in Seq(Nat) /\ Len(r) = Len(d.rest) - n
        /\ \A j \in 1..Len(r) : r[j] = d.rest[n + j]
    BY DEF TakesUp, Copies
  <1>3. ASSUME NEW j \in 1..Len(r) PROVE r[j] = str[(q - Len(r)) + j]
    <2>1. n + j \in 1..Len(d.rest) /\ (q - Len(d.rest)) + (n + j) = (q - Len(r)) + j
      BY <1>1, <1>2
    <2>2. r[j] = d.rest[n + j]
      BY <1>2
    <2>3. d.rest[n + j] = str[(q - Len(d.rest)) + (n + j)]
      BY <1>1, <2>1
    <2> QED BY <2>1, <2>2, <2>3, Zenon
  <1>4. CASE e.rest = r
    <2>1. Len(r) <= q
      BY <1>1, <1>2
    <2>2. Behind(e, q, str)
      BY <1>1, <1>3, <1>4, <2>1 DEF Behind
    <2>3. Len(r) \in Nat /\ Len(r) = Len(d.rest) - n
      BY <1>1, <1>2
    <2>4. Len(r) <= Len(d.rest) - n
      BY <1>1, <2>3
    <2> QED BY <1>4, <2>2, <2>3, <2>4
  <1>5. CASE e.rest = <<>> /\ e.rest # r
    <2>1. Len(e.rest) = 0
      BY <1>5
    <2> QED BY <1>1, <1>5, <2>1 DEF Behind
  <1> QED BY <1>4, <1>5

(* Every message that is handed over is one. *)
LEMMA SoundKept ==
  ASSUME NEW d \in Shaped, Sound(d), NEW n \in 0..Len(d.rest), NEW b \in Seq(Nat),
         NEW r \in Seq(Nat), NEW e, TakesUp(d, n, b, r), Outcome(d, b, r, e)
  PROVE  Sound(e)
  <1>1. d.handed \in Seq(Seq(Nat)) /\ Shape(d) /\ Len(d.buffer) \in Nat /\ d.bodySize \in Nat
    BY DecoderParts DEF Shaped
  <1>2. CASE e.handed = d.handed
    BY <1>2 DEF Sound
  <1>3. CASE /\ e.handed = Append(d.handed, b) /\ d.state = "TAIL"
             /\ Len(b) = Target(d) /\ Right(b)
    <2>1. Target(d) = headSize + d.bodySize + tailSize /\ headSize \in Nat \ {0}
      BY <1>3, Aims, DecoderAssumption
    <2>2. headSize + d.bodySize <= Len(d.buffer) /\ d.bodySize = BodyLength(d.buffer)
      BY <1>1, <1>3 DEF Shape
    <2>3. headSize \in 1..Len(d.buffer)
      BY <1>1, <2>1, <2>2
    <2>4. b[headSize] = d.buffer[headSize]
      BY <2>3 DEF TakesUp, Copies
    <2>5. WellFormed(b)
      BY <1>3, <2>1, <2>2, <2>4 DEF WellFormed, BodyLength
    <2>6. /\ Len(e.handed) = Len(d.handed) + 1 /\ e.handed[Len(d.handed) + 1] = b
          /\ \A i \in 1..Len(d.handed) : e.handed[i] = d.handed[i]
      BY <1>1, <1>3
    <2>7. Len(d.handed) \in Nat
      BY <1>1
    <2>8. ASSUME NEW k \in 1..Len(e.handed) PROVE WellFormed(e.handed[k])
      <3>1. k \in 1..Len(d.handed) \/ k = Len(d.handed) + 1
        BY <2>6, <2>7
      <3> QED BY <2>5, <2>6, <3>1 DEF Sound
    <2> QED BY <2>8 DEF Sound
  <1> QED BY <1>2, <1>3, OutcomeParts

(* What was handed over before stays. *)
LEMMA LostKept ==
  ASSUME NEW d \in Shaped, NEW s, NEW p \in Nat, NEW p2 \in Nat, p <= p2,
         \A i \in 0..Len(s) : EndOf(s, i) \in Nat, Len(s) \in Nat,
         Lost(d, p, s), NEW b \in Seq(Nat), NEW r, NEW e, Outcome(d, b, r, e)
  PROVE  Lost(e, p2, s)
  <1>1. PICK k \in 1..Len(s) :
          /\ ~Right(s[k].message) /\ EndOf(s, k) <= p
          /\ \A i \in 1..(k - 1) : i <= Len(d.handed) /\ d.handed[i] = s[i].message
    BY DEF Lost
  <1>2. EndOf(s, k) <= p2
    <2>1. EndOf(s, k) \in Nat
      OBVIOUS
    <2> QED BY <1>1, <2>1
  <1>3. d.handed \in Seq(Seq(Nat)) /\ Len(d.handed) \in Nat
    BY DecoderParts DEF Shaped
  <1>4. ASSUME NEW i \in 1..(k - 1) PROVE i <= Len(e.handed) /\ e.handed[i] = s[i].message
    <2>1. i <= Len(d.handed) /\ d.handed[i] = s[i].message /\ i \in 1..Len(d.handed)
      BY <1>1, <1>3
    <2>2. CASE e.handed = d.handed
      BY <2>1, <2>2
    <2>3. CASE e.handed = Append(d.handed, b)
      <3>1. Len(e.handed) = Len(d.handed) + 1 /\ e.handed[i] = d.handed[i]
        BY <1>3, <2>1, <2>3
      <3> QED BY <1>3, <2>1, <3>1
    <2> QED BY <2>2, <2>3, OutcomeParts
  <1> QED BY <1>1, <1>2, <1>4 DEF Lost


\* With n more bytes at position p, the buffer b is the beginning of the next message.
Begins(d, b, n, p, s, str) ==
  LET h == Len(d.handed)
      m == s[h + 1].message
  IN  /\ h + 1 \in 1..Len(s) /\ m \in Frames /\ EndOf(s, h + 1) = EndOf(s, h) + Len(m)
      /\ EndOf(s, h) \in Nat
      /\ p + n = EndOf(s, h) + Len(b)
      /\ Len(b) <= Len(m) /\ Target(d) <= Len(m)
      /\ \A j \in 1..Len(b) : b[j] = str[EndOf(s, h) + j] /\ b[j] = m[j]
      /\ headSize <= Len(b) => BodyLength(b) = BodyLength(m)
      /\ d.state # "HEAD" => d.bodySize = BodyLength(m)

(* Sums of three. *)
LEMMA Sums == \A x, y, z \in Nat : (x + y) + z = x + (y + z)
  OBVIOUS

(* A decoder on track, with something to read, is in a message. *)
LEMMA InMessage ==
  ASSUME NEW s, NEW str, Streamed(s, str), NEW d \in Shaped, NEW q \in Nat,
         Behind(d, q, str), NEW p \in Nat, p = q - Len(d.rest), OnTrack(d, p, s, str),
         d.rest # <<>>, NEW n \in 0..Len(d.rest), NEW b \in Seq(Nat), NEW r \in Seq(Nat),
         TakesUp(d, n, b, r), Len(b) <= Target(d)
  PROVE  Begins(d, b, n, p, s, str)
  <1> DEFINE h == Len(d.handed)
             m == s[h + 1].message
             E == EndOf(s, h)
             l == Len(d.buffer)
  <1>1. /\ h \in Nat /\ l \in Nat /\ Len(d.rest) \in Nat \ {0} /\ d.rest \in Seq(Nat)
        /\ Len(b) \in Nat /\ Shape(d) /\ d.bodySize \in Nat
        /\ d.state \in {"HEAD", "BODY", "TAIL"}
    BY DecoderParts DEF Shaped
  <1>2. Len(s) \in Nat /\ Len(str) \in Nat /\ s \in Seq([message : Seq(Nat), end : Nat])
    BY DEF Streamed
  <1>3. p < Len(str) /\ n \in Nat /\ n <= Len(d.rest) /\ p + n <= Len(str)
    <2> DEFINE x == Len(d.rest)  y == Len(str)
    <2>1. x \in Nat \ {0} /\ y \in Nat /\ p = q - x /\ n \in 0..x
      BY <1>1, <1>2
    <2>2. q <= y
      BY Zenon DEF Behind
    <2> HIDE DEF x, y
    <2>3. p < y /\ n \in Nat /\ n <= x /\ p + n <= y
      BY <2>1, <2>2
    <2> QED BY <2>3 DEF x, y
  <1>4. h <= Len(s) /\ p = E + l /\ E \in Nat
    <2>1. h <= Len(s) /\ p = E + l
      BY DEF OnTrack
    <2>2. h \in 0..Len(s)
      BY <1>1, <1>2, <2>1
    <2> QED BY <2>1, <2>2 DEF Streamed
  <1>5. h < Len(s)
    <2>1. Len(str) = EndOf(s, Len(s))
      BY DEF Streamed
    <2>2. h = Len(s) => E = Len(str)
      BY <2>1
    <2> HIDE DEF h, E, l
    <2> QED BY <1>1, <1>2, <1>3, <1>4, <2>2
  <1>6. h + 1 \in 1..Len(s)
    <2>1. h \in Nat /\ Len(s) \in Nat
      BY <1>1, <1>2
    <2> HIDE DEF h
    <2> QED BY <1>5, <2>1
  <1>7. /\ m \in Frames /\ EndOf(s, h + 1) = E + Len(m)
        /\ \A j \in 1..Len(m) : m[j] = str[E + j]
    <2>1. (h + 1) - 1 = h
      BY <1>1
    <2>2. /\ s[h + 1].message \in Frames
          /\ EndOf(s, h + 1) = EndOf(s, (h + 1) - 1) + Len(s[h + 1].message)
          /\ \A j \in 1..Len(s[h + 1].message) :
               s[h + 1].message[j] = str[EndOf(s, (h + 1) - 1) + j]
      BY <1>6, Zenon DEF Streamed
    <2> QED BY <2>1, <2>2, Zenon
  <1>8. p < EndOf(s, h + 1)
    BY <1>5 DEF OnTrack
  <1>9. /\ Len(m) \in Nat /\ headSize \in Nat \ {0} /\ headSize <= Len(m) /\ BodyLength(m) \in Nat
        /\ Len(m) = headSize + BodyLength(m) + tailSize /\ tailSize \in Nat \ {0}
    BY <1>7, FrameType, DecoderAssumption
  <1>10. l < Len(m)
    <2>1. l \in Nat /\ E \in Nat /\ Len(m) \in Nat /\ p = E + l /\ p < E + Len(m)
      BY <1>1, <1>4, <1>7, <1>8, <1>9
    <2> HIDE DEF h, l, m, E
    <2> QED BY <2>1
  <1>11. \A j \in 1..l : d.buffer[j] = str[E + j]
    BY DEF OnTrack
  <1>12. Len(b) = l + n /\ (\A j \in 1..l : b[j] = d.buffer[j])
         /\ \A j \in 1..n : b[l + j] = d.rest[j]
    BY DEF TakesUp, Copies
  <1>13. \A j \in 1..n : d.rest[j] = str[p + j]
    <2> SUFFICES ASSUME NEW j \in 1..n PROVE d.rest[j] = str[p + j]
      OBVIOUS
    <2>1. j \in 1..Len(d.rest)
      BY <1>1, <1>3
    <2> QED BY <2>1 DEF Behind
  <1> HIDE DEF h, l, m, E
  <1>14. ASSUME NEW j \in 1..Len(b) PROVE b[j] = str[E + j]
    <2>1. CASE j <= l
      <3>1. j \in 1..l
        BY <1>1, <1>14, <2>1
      <3> QED BY <1>11, <1>12, <3>1
    <2>2. CASE ~(j <= l)
      <3>1. j - l \in 1..n /\ l + (j - l) = j /\ p + (j - l) = E + j
        <4>1. j \in Nat /\ j <= Len(b)
          BY <1>1, <1>14
        <4>2. l \in Nat /\ n \in Nat /\ E \in Nat /\ Len(b) = l + n /\ p = E + l
          BY <1>1, <1>3, <1>4, <1>12, Zenon
        <4>3. j - l \in 1..n
          BY <2>2, <4>1, <4>2
        <4>0. \A x, y, z \in Nat : y + (x - y) = x /\ (z + y) + (x - y) = z + x
          OBVIOUS
        <4>4. l + (j - l) = j /\ p + (j - l) = E + j
          <5>1. l + (j - l) = j /\ (E + l) + (j - l) = E + j
            BY <4>0, <4>1, <4>2
          <5> QED BY <4>2, <5>1
        <4> QED BY <4>3, <4>4
      <3>2. b[l + (j - l)] = str[p + (j - l)]
        BY <1>12, <1>13, <3>1
      <3> QED BY <3>1, <3>2
    <2> QED BY <2>1, <2>2
  <1>15. d.state # "HEAD" => d.bodySize = BodyLength(m)
    <2> SUFFICES ASSUME d.state # "HEAD" PROVE d.bodySize = BodyLength(m)
      OBVIOUS
    <2>1. d.bodySize = BodyLength(d.buffer) /\ headSize <= l
      <3>1. d.state \in {"BODY", "TAIL"} /\ Shape(d)
        BY <1>1
      <3>2. d.bodySize = BodyLength(d.buffer)
        BY <3>1, Zenon DEF Shape
      <3>3. d.state = "BODY" => headSize <= Len(d.buffer)
        BY <3>1, <1>1, <1>9 DEF Shape, l
      <3>4. d.state = "TAIL" => headSize <= Len(d.buffer)
        <4> DEFINE x == Len(d.buffer)  z == d.bodySize
        <4>1. x \in Nat /\ z \in Nat /\ headSize \in Nat
          BY <1>1, <1>9 DEF l
        <4>2. d.state = "TAIL" => headSize + z <= x
          BY <3>1, Zenon DEF Shape
        <4> HIDE DEF x, z
        <4>3. d.state = "TAIL" => headSize <= x
          BY <4>1, <4>2
        <4> QED BY <4>3 DEF x
      <3> QED BY <3>1, <3>2, <3>3, <3>4 DEF l
    <2>2. headSize \in 1..l /\ headSize \in 1..Len(m)
      BY <1>1, <1>9, <2>1
    <2>3. d.buffer[headSize] = m[headSize]
      BY <1>7, <1>11, <2>2
    <2> QED BY <2>1, <2>3 DEF BodyLength
  <1>16. Len(b) <= Len(m) /\ Target(d) <= Len(m)
    <2>1. Target(d) <= Len(m) /\ Target(d) \in Nat
      <3>1. /\ Target(d) \in Nat
            /\ d.state = "HEAD" => Target(d) = headSize
            /\ d.state = "BODY" => Target(d) = headSize + d.bodySize
            /\ d.state = "TAIL" => Target(d) = headSize + d.bodySize + tailSize
        BY Aims
      <3> QED BY <1>1, <1>9, <1>15, <3>1
    <2> QED BY <1>1, <1>9, <2>1
  <1>17. \A j \in 1..Len(b) : b[j] = m[j]
    <2> SUFFICES ASSUME NEW j \in 1..Len(b) PROVE b[j] = m[j]
      OBVIOUS
    <2>1. j \in 1..Len(m)
      BY <1>1, <1>9, <1>16
    <2> QED BY <1>7, <1>14, <2>1
  <1>18. headSize <= Len(b) => BodyLength(b) = BodyLength(m)
    <2>1. headSize <= Len(b) => headSize \in 1..Len(b)
      BY <1>1, <1>9
    <2> QED BY <1>17, <2>1 DEF BodyLength
  <1>19. p + n = E + Len(b)
    <2>1. p = E + l /\ Len(b) = l + n /\ E \in Nat /\ l \in Nat /\ n \in Nat
      BY <1>1, <1>3, <1>4, <1>12, Zenon
    <2>2. (E + l) + n = E + (l + n)
      BY <2>1, Sums
    <2> QED BY <2>1, <2>2, Zenon
  <1> QED BY <1>4, <1>6, <1>7, <1>14, <1>15, <1>16, <1>17, <1>18, <1>19 DEF Begins, h, m, E


(* A turn leaves the decoder on track, or lost behind a wrong checksum. *)
LEMMA PlaceKept ==
  ASSUME NEW s, NEW str, Streamed(s, str), NEW d \in Shaped, NEW q \in Nat,
         Behind(d, q, str), At(d, q - Len(d.rest), s, str),
         d.rest # <<>>, NEW n \in 0..Len(d.rest), NEW b \in Seq(Nat), NEW r \in Seq(Nat),
         TakesUp(d, n, b, r), NEW e \in Shaped, Outcome(d, b, r, e)
  PROVE  At(e, q - Len(e.rest), s, str)
  <1> DEFINE p == q - Len(d.rest)
             p2 == q - Len(e.rest)
             h == Len(d.handed)
             m == s[h + 1].message
             E == EndOf(s, h)
  <1>1. /\ d.handed \in Seq(Seq(Nat)) /\ h \in Nat /\ d.rest \in Seq(Nat) /\ Len(d.rest) \in Nat
        /\ n \in Nat /\ n <= Len(d.rest) /\ Len(b) \in Nat /\ Len(s) \in Nat
        /\ d.state \in {"HEAD", "BODY", "TAIL"}
    BY DecoderParts DEF Shaped, Streamed
  <1>2. /\ Behind(e, q, str) /\ Len(e.rest) <= Len(d.rest) - n /\ Len(e.rest) \in Nat
        /\ (e.rest = r => Len(e.rest) = Len(d.rest) - n)
    <2>1. e.rest = r \/ e.rest = <<>>
      BY OutcomeParts
    <2>2. str \in Seq(Nat)
      BY DEF Streamed
    <2>3. d.rest \in Seq(Nat)
      BY <1>1
    <2> HIDE DEF p, p2, h, m, E
    <2>4. Behind(d, q, str) /\ TakesUp(d, n, b, r) /\ q \in Nat /\ n \in 0..Len(d.rest)
      OBVIOUS
    <2> QED BY <2>1, <2>2, <2>3, <2>4, RestKept
  <1>3. p \in Nat /\ p2 \in Nat /\ p + n <= p2 /\ (e.rest = r => p2 = p + n)
    <2>1. Len(d.rest) <= q
      BY DEF Behind
    <2> DEFINE x == Len(d.rest)  y == Len(e.rest)
    <2>2. /\ x \in Nat /\ y \in Nat /\ n \in Nat /\ x <= q /\ n <= x /\ y <= x - n
          /\ e.rest = r => y = x - n
      BY <1>1, <1>2, <2>1
    <2> HIDE DEF x, y
    <2>3. q - x \in Nat /\ q - y \in Nat /\ (q - x) + n <= q - y
      BY <2>2
    <2>4. e.rest = r => q - y = (q - x) + n
      BY <2>2
    <2> QED BY <2>3, <2>4 DEF x, y
  <1> HIDE DEF p2
  <1>4. CASE Lost(d, p, s)
    <2>1. p <= p2
      BY <1>1, <1>3
    <2>2. \A i \in 0..Len(s) : EndOf(s, i) \in Nat
      BY DEF Streamed
    <2> HIDE DEF p
    <2>3. Lost(e, p2, s)
      BY <1>1, <1>3, <1>4, <2>1, <2>2, LostKept
    <2> QED BY <2>3 DEF At, p2
  <1>5. CASE OnTrack(d, p, s, str)
    <2>0. ~(d.state = "BODY" /\ d.bodySize > MaxInt)
      <3>1. d.buffer \in Seq(Nat) /\ d.rest \in Seq(Nat) /\ Len(d.rest) \in Nat
            /\ Len(d.buffer) \in Nat /\ Len(d.buffer) <= Target(d)
        BY Aims, DecoderParts DEF Shaped
      <3>2. TakesUp(d, 0, d.buffer, d.rest)
        BY <3>1 DEF TakesUp, Copies
      <3>3. 0 \in 0..Len(d.rest)
        BY <3>1
      <3>4. Begins(d, d.buffer, 0, p, s, str)
        <4> HIDE DEF p
        <4> QED BY <1>3, <1>5, <3>1, <3>2, <3>3, InMessage DEF p
      <3>5. m \in Frames /\ (d.state # "HEAD" => d.bodySize = BodyLength(m))
        BY <3>4 DEF Begins
      <3>6. BodyLength(m) \in Nat /\ BodyLength(m) <= MaxInt /\ MaxInt \in Nat
        <4> HIDE DEF m
        <4> QED BY <3>5, FrameType, DecoderAssumption
      <3> HIDE DEF m
      <3> QED BY <3>5, <3>6
    <2>1. Begins(d, b, n, p, s, str)
      <3>1. Len(b) <= Target(d)
        <4>1. Target(d) \in Nat
          BY Aims
        <4> QED BY <1>1, <2>0, <4>1 DEF Outcome
      <3> QED BY <1>3, <1>5, <3>1, InMessage
    <2>2. /\ h + 1 \in 1..Len(s) /\ m \in Frames /\ EndOf(s, h + 1) = E + Len(m) /\ E \in Nat
          /\ p + n = E + Len(b)
          /\ Len(b) <= Len(m) /\ Target(d) <= Len(m)
          /\ \A j \in 1..Len(b) : b[j] = str[E + j] /\ b[j] = m[j]
          /\ d.state # "HEAD" => d.bodySize = BodyLength(m)
      BY <2>1 DEF Begins
    <2>3. h <= Len(s) /\ \A i \in 1..h : d.handed[i] = s[i].message /\ Right(s[i].message)
      BY <1>5 DEF OnTrack
    <2>4. /\ m \in Seq(Nat) /\ Len(m) \in Nat /\ tailSize \in Nat \ {0} /\ headSize \in Nat
          /\ BodyLength(m) \in Nat /\ Len(m) = headSize + BodyLength(m) + tailSize
      BY <2>2, FrameType, DecoderAssumption
    <2> HIDE DEF p, h, m, E
    <2>5. ASSUME Len(b) < Len(m), e.handed = d.handed, e.buffer = b, e.rest = r
          PROVE  OnTrack(e, p2, s, str)
      <3>1. p2 = E + Len(b) /\ p2 < EndOf(s, h + 1)
        <4>1. p2 = E + Len(b)
          BY <1>3, <2>2, <2>5
        <4> QED BY <1>1, <2>2, <2>4, <2>5, <4>1
      <3> QED BY <2>2, <2>3, <2>5, <3>1 DEF OnTrack, h, E
    <2>6. CASE /\ r = <<>> /\ Len(b) < Target(d)
               /\ e = Decoder(d.state, b, d.bodySize, d.handed, r, d.ret)
      <3>1. e.handed = d.handed /\ e.buffer = b /\ e.rest = r
        BY <2>6 DEF Decoder
      <3>2. Len(b) < Len(m)
        <4>1. Target(d) \in Nat
          BY Aims
        <4> QED BY <1>1, <2>2, <2>4, <2>6, <4>1
      <3> QED BY <2>5, <3>1, <3>2 DEF At, p2
    <2>7. CASE /\ d.state = "HEAD" /\ Len(b) = Target(d)
               /\ e = Decoder("BODY", b, BodyLength(b), d.handed, r, d.ret)
      <3>1. e.handed = d.handed /\ e.buffer = b /\ e.rest = r
        BY <2>7 DEF Decoder
      <3>2. Len(b) < Len(m)
        <4>1. Target(d) = headSize
          BY <2>7, Aims
        <4> QED BY <2>4, <2>7, <4>1
      <3> QED BY <2>5, <3>1, <3>2 DEF At, p2
    <2>8. CASE /\ d.state = "BODY" /\ Len(b) = Target(d)
               /\ e = Decoder("TAIL", b, d.bodySize, d.handed, r, d.ret)
      <3>1. e.handed = d.handed /\ e.buffer = b /\ e.rest = r
        BY <2>8 DEF Decoder
      <3>2. Len(b) < Len(m)
        <4>1. Target(d) = headSize + BodyLength(m)
          BY <2>2, <2>8, Aims
        <4> QED BY <2>4, <2>8, <4>1
      <3> QED BY <2>5, <3>1, <3>2 DEF At, p2
    <2>9. d.state = "TAIL" /\ Len(b) = Target(d) => b = m
      <3> SUFFICES ASSUME d.state = "TAIL", Len(b) = Target(d) PROVE b = m
        OBVIOUS
      <3>1. Target(d) = headSize + BodyLength(m) + tailSize
        BY <2>2, Aims
      <3>2. Len(b) = Len(m)
        BY <2>4, <3>1
      <3> QED BY <2>2, <2>4, <3>2, SeqEqual
    <2>10. CASE /\ d.state = "TAIL" /\ Len(b) = Target(d) /\ Right(b)
                /\ e = Decoder("HEAD", <<>>, 0, Append(d.handed, b), r, d.ret)
      <3>1. e.handed = Append(d.handed, b) /\ e.buffer = <<>> /\ e.rest = r
        BY <2>10 DEF Decoder
      <3>2. /\ Len(e.handed) = h + 1 /\ e.handed[h + 1] = b
            /\ \A i \in 1..h : e.handed[i] = d.handed[i]
        BY <1>1, <3>1 DEF h
      <3>3. b = m
        BY <2>9, <2>10
      <3>4. \A i \in 1..(h + 1) : e.handed[i] = s[i].message /\ Right(s[i].message)
        <4>1. \A i \in 1..(h + 1) : i \in 1..h \/ i = h + 1
          BY <1>1
        <4>2. e.handed[h + 1] = s[h + 1].message /\ Right(s[h + 1].message)
          BY <2>10, <3>2, <3>3 DEF m
        <4> QED BY <2>3, <3>2, <4>1, <4>2
      <3>5. p2 = EndOf(s, h + 1) + 0
        BY <1>3, <2>2, <3>1, <3>3
      <3>6. h + 1 < Len(s) => p2 < EndOf(s, (h + 1) + 1)
        <4> SUFFICES ASSUME h + 1 < Len(s) PROVE p2 < EndOf(s, (h + 1) + 1)
          OBVIOUS
        <4>1. (h + 1) + 1 \in 1..Len(s) /\ ((h + 1) + 1) - 1 = h + 1 /\ h + 1 \in 0..Len(s)
          BY <1>1
        <4>2. /\ s[(h + 1) + 1].message \in Frames
              /\ EndOf(s, (h + 1) + 1) = EndOf(s, ((h + 1) + 1) - 1) + Len(s[(h + 1) + 1].message)
          BY <4>1, Zenon DEF Streamed
        <4>3. Len(s[(h + 1) + 1].message) \in Nat \ {0}
          BY <4>2, FrameType
        <4>4. EndOf(s, h + 1) \in Nat
          BY <4>1 DEF Streamed
        <4> QED BY <3>5, <4>1, <4>2, <4>3, <4>4
      <3>7. h + 1 <= Len(s) /\ Len(<<>>) = 0
        BY <1>1, <2>2
      <3>8. OnTrack(e, p2, s, str)
        BY <3>1, <3>2, <3>4, <3>5, <3>6, <3>7 DEF OnTrack
      <3> QED BY <3>8 DEF At, p2
    <2>11. CASE /\ d.state = "TAIL" /\ Len(b) = Target(d) /\ ~Right(b)
                /\ e = Decoder("HEAD", <<>>, 0, d.handed, <<>>, -1)
      <3>1. e.handed = d.handed
        BY <2>11 DEF Decoder
      <3>2. b = m
        BY <2>9, <2>11
      <3>3. EndOf(s, h + 1) <= p2
        BY <1>1, <1>3, <2>2, <2>4, <3>2
      <3>4. \A i \in 1..((h + 1) - 1) : i <= Len(e.handed) /\ e.handed[i] = s[i].message
        <4>1. \A i \in 1..((h + 1) - 1) : i \in 1..h /\ i <= h
          BY <1>1
        <4> QED BY <2>3, <3>1, <4>1 DEF h
      <3>5. ~Right(s[h + 1].message)
        BY <2>11, <3>2 DEF m
      <3>6. Lost(e, p2, s)
        BY <2>2, <3>3, <3>4, <3>5 DEF Lost
      <3> QED BY <3>6 DEF At, p2
    <2> QED BY <2>0, <2>6, <2>7, <2>8, <2>10, <2>11 DEF Outcome
  <1> QED BY <1>4, <1>5 DEF At


-----------------------------------------------------------------------------
(* The loop of decode. *)

Turn(d) == IF d.rest = <<>> THEN d ELSE consume(d)

\* Twice the bytes that are left, and one for a body without bytes.
Measure(d) == 2 * Len(d.rest) + (IF Lack(d) = 0 THEN 1 ELSE 0)

(* A turn keeps the shape, *)
LEMMA TurnShaped ==
  ASSUME NEW d \in Shaped
  PROVE  Turn(d) \in Shaped
  <1>1. PICK n \in 0..Len(d.rest), b \in Seq(Nat), r \in Seq(Nat) :
          TakesUp(d, n, b, r) /\ Outcome(d, b, r, consume(d))
    BY ConsumeSteps
  <1>2. consume(d) \in Shaped
    BY <1>1, OutcomeShaped
  <1> QED BY <1>2 DEF Turn

(* and the place in the stream; and it gets on. *)
LEMMA TurnKept ==
  ASSUME NEW s, NEW str, Streamed(s, str), NEW q \in Nat, NEW d, DecodeInv(d, q, s, str),
         d.rest # <<>>
  PROVE  DecodeInv(Turn(d), q, s, str) /\ Measure(Turn(d)) < Measure(d)
         /\ Measure(d) \in Nat /\ Measure(Turn(d)) \in Nat
  <1>1. d \in Shaped /\ Sound(d) /\ Behind(d, q, str) /\ At(d, q - Len(d.rest), s, str)
    BY DEF DecodeInv
  <1>2. PICK n \in 0..Len(d.rest), b \in Seq(Nat), r \in Seq(Nat) :
          /\ TakesUp(d, n, b, r) /\ Outcome(d, b, r, consume(d))
          /\ d.rest # <<>> /\ n = 0 => Lack(d) = 0
    BY <1>1, ConsumeSteps
  <1> DEFINE e == consume(d)
  <1>3. Turn(d) = e
    BY DEF Turn
  <1> HIDE DEF e
  <1>4. Outcome(d, b, r, e)
    BY <1>2 DEF e
  <1>5. e \in Shaped
    BY <1>1, <1>2, <1>4, OutcomeShaped
  <1>6. Sound(e)
    BY <1>1, <1>2, <1>4, SoundKept
  <1>7. str \in Seq(Nat) /\ d.rest \in Seq(Nat) /\ Len(d.rest) \in Nat \ {0}
    BY <1>1, DecoderParts DEF Streamed, Shaped
  <1>8. /\ Behind(e, q, str) /\ Len(e.rest) <= Len(d.rest) - n /\ Len(e.rest) \in Nat
    <2>1. e.rest = r \/ e.rest = <<>>
      BY <1>4, OutcomeParts
    <2> QED BY <1>1, <1>2, <1>7, <2>1, RestKept
  <1>9. At(e, q - Len(e.rest), s, str)
    BY <1>1, <1>2, <1>4, <1>5, PlaceKept
  <1>10. n = 0 => Lack(d) = 0 /\ Lack(e) # 0
    <2> SUFFICES ASSUME n = 0 PROVE Lack(d) = 0 /\ Lack(e) # 0
      OBVIOUS
    <2>1. Lack(d) = 0
      BY <1>2
    <2>2. d.state \in {"HEAD", "BODY", "TAIL"}
      BY <1>1, DecoderParts DEF Shaped
    <2>3. d.state = "BODY" /\ Len(d.buffer) = Target(d) /\ Len(d.buffer) \in Nat
      BY <1>1, <2>1, <2>2, Aims
    <2>4. Len(b) = Target(d)
      BY <1>2, <2>3 DEF TakesUp, Copies
    <2>5. e = Decoder("TAIL", b, d.bodySize, d.handed, r, d.ret)
      <3>1. Len(r) = Len(d.rest)
        BY <1>2, <1>7 DEF TakesUp, Copies
      <3>2. r # <<>>
        BY <1>7, <3>1
      <3>3. Len(b) \in Nat
        OBVIOUS
      <3> QED BY <1>4, <2>3, <2>4, <3>2, <3>3 DEF Outcome
    <2>6. e.state = "TAIL"
      BY <2>5 DEF Decoder
    <2> QED BY <1>5, <2>1, <2>6, Aims
  <1>11. Measure(e) < Measure(d) /\ Measure(d) \in Nat /\ Measure(e) \in Nat
    <2> DEFINE x == Len(d.rest)  y == Len(e.rest)
               u == IF Lack(d) = 0 THEN 1 ELSE 0
               v == IF Lack(e) = 0 THEN 1 ELSE 0
    <2>1. x \in Nat /\ y \in Nat /\ n \in Nat /\ y <= x - n /\ u \in {0, 1} /\ v \in {0, 1}
      BY <1>7, <1>8
    <2>2. n = 0 => u = 1 /\ v = 0
      BY <1>10
    <2> HIDE DEF x, y, u, v
    <2>3. 2 * y + v < 2 * x + u /\ 2 * x + u \in Nat /\ 2 * y + v \in Nat
      BY <2>1, <2>2
    <2> QED BY <2>3 DEF x, y, u, v, Measure
  <1> QED BY <1>3, <1>5, <1>6, <1>8, <1>9, <1>11 DEF DecodeInv

\* The fold of decode.
TurnFold(h, base, q) ==
  h = [s \in SUBSET DOMAIN q |->
         IF s = {} THEN base ELSE Loop(h[s \ {Max(s)}], q[Max(s)])]

(* decode begins with the piece, and makes two turns for each byte of it. *)
LEMMA TurnRuns ==
  ASSUME NEW d \in Shaped, NEW piece \in Seq(Nat)
  PROVE  \E h \in [0..(2 * Len(piece)) -> Shaped] :
           /\ h[0] = Decoder(d.state, d.buffer, d.bodySize, d.handed, piece, 0)
           /\ h[2 * Len(piece)] = decode(d, piece)
           /\ \A i \in 1..(2 * Len(piece)) : h[i] = Turn(h[i - 1])
  <1> DEFINE n == 2 * Len(piece)
             q == [turn \in 1..(2 * Len(piece)) |-> turn]
             S == Shaped
             base == [d EXCEPT !.rest = piece, !.ret = 0]
             step == [si \in S \X (1..n) |-> Turn(si[1])]
  <1>1. n \in Nat /\ DOMAIN q = 1..n
    <2>1. Len(piece) \in Nat
      OBVIOUS
    <2> QED BY <2>1
  <1>2. base = Decoder(d.state, d.buffer, d.bodySize, d.handed, piece, 0)
    <2> DEFINE f == Decoder(d.state, d.buffer, d.bodySize, d.handed, d.rest, d.ret)
    <2>1. /\ [f EXCEPT !.rest = piece]
               = Decoder(d.state, d.buffer, d.bodySize, d.handed, piece, d.ret)
          /\ [Decoder(d.state, d.buffer, d.bodySize, d.handed, piece, d.ret) EXCEPT !.ret = 0]
               = Decoder(d.state, d.buffer, d.bodySize, d.handed, piece, 0)
      BY DEF Decoder
    <2>2. d = f
      BY DecoderParts DEF Shaped
    <2>3. base = [[d EXCEPT !.rest = piece] EXCEPT !.ret = 0]
      OBVIOUS
    <2> HIDE DEF f, base
    <2> QED BY <2>1, <2>2, <2>3, Zenon
  <1>3. base \in S
    <2> DEFINE f == Decoder(d.state, d.buffer, d.bodySize, d.handed, piece, 0)
    <2>1. f \in Decoders
      <3>1. /\ d.state \in {"HEAD", "BODY", "TAIL"} /\ d.buffer \in Seq(Nat) /\ d.bodySize \in Nat
            /\ d.handed \in Seq(Seq(Nat)) /\ 0 \in {0, -1}
        BY DecoderParts DEF Shaped
      <3> QED BY <3>1 DEF Decoders, Decoder
    <2>2. f.state = d.state /\ f.buffer = d.buffer /\ f.bodySize = d.bodySize
      BY DEF Decoder
    <2>3. Shape(d)
      BY DEF Shaped
    <2> HIDE DEF f
    <2>4. Shape(f)
      BY <2>2, <2>3 DEF Shape
    <2> HIDE DEF base
    <2> QED BY <1>2, <2>1, <2>4 DEF Shaped, f
  <1>4. ASSUME NEW s \in S, NEW i \in 1..n
        PROVE  step[<<s, i>>] = Turn(s) /\ step[<<s, i>>] \in S
    <2>1. step[<<s, i>>] = Turn(s)
      <3> HIDE DEF S, n
      <3> QED OBVIOUS
    <2>2. Turn(s) \in S
      BY TurnShaped
    <2> QED BY <2>1, <2>2
  <1> HIDE DEF S, n, step, q, base
  <1>5. PICK g : Folds(g, S, step, base, n)
    BY <1>1, <1>3, <1>4, FoldsExist
  <1>6. TurnFold(g, base, q)
    <2>1. g = [s \in SUBSET (1..n) |-> g[s]]
      BY <1>5 DEF Folds
    <2>2. ASSUME NEW s \in SUBSET (1..n), s # {}
          PROVE  g[s] = Loop(g[s \ {Max(s)}], q[Max(s)])
      <3>1. Max(s) \in 1..n /\ s \ {Max(s)} \in SUBSET (1..n)
        BY <1>1, <2>2, MaxIn
      <3>2. g[s \ {Max(s)}] \in S
        BY <1>5, <3>1 DEF Folds
      <3>3. g[s] = step[<<g[s \ {Max(s)}], Max(s)>>]
        BY <1>5, <2>2 DEF Folds
      <3>4. g[s] = Turn(g[s \ {Max(s)}])
        BY <1>4, <3>1, <3>2, <3>3
      <3> QED BY <3>4 DEF Turn, Loop
    <2>3. g[{}] = base
      <3>1. {} \in SUBSET (1..n)
        OBVIOUS
      <3> QED BY <1>5, <3>1 DEF Folds
    <2>4. \A s \in SUBSET (1..n) :
            g[s] = IF s = {} THEN base
                   ELSE Loop(g[s \ {Max(s)}], q[Max(s)])
      BY <2>2, <2>3
    <2> QED BY <1>1, <2>1, <2>4, Zenon DEF TurnFold
  <1>7. PICK h : TurnFold(h, base, q) /\ decode(d, piece) = h[DOMAIN q]
    <2>1. PICK h : TurnFold(h, base, q) /\ FoldLeft(Loop, base, q) = h[DOMAIN q]
      BY <1>6, Zenon DEF FoldLeft, MapThenFoldSet, TurnFold
    <2>2. decode(d, piece) = FoldLeft(Loop, base, q)
      BY DEF decode, base, q
    <2> QED BY <2>1, <2>2
  <1>8. \A s \in SUBSET (1..n) :
          h[s] = IF s = {} THEN base
                 ELSE Loop(h[s \ {Max(s)}], q[Max(s)])
    BY <1>1, <1>7, Zenon DEF TurnFold
  <1>9. h[1..0] = base
    <2>1. 1..0 \in SUBSET (1..n) /\ 1..0 = {}
      BY Intervals, <1>1
    <2> QED BY <1>8, <2>1
  <1>10. \A i \in 1..n : h[1..i] = Turn(h[1..(i - 1)])
    <2> SUFFICES ASSUME NEW i \in 1..n PROVE h[1..i] = Turn(h[1..(i - 1)])
      OBVIOUS
    <2>1. /\ 1..i \in SUBSET (1..n) /\ 1..i # {} /\ Max(1..i) = i /\ (1..i) \ {i} = 1..(i - 1)
      BY <1>1, Intervals
    <2>2. h[1..i] = Turn(h[(1..i) \ {Max(1..i)}])
      BY <1>8, <2>1, Zenon DEF Turn, Loop
    <2> QED BY <2>1, <2>2
  <1>11. Closed(S, step, n) /\ Stepwise(h, S, step, base, n)
    BY <1>4, <1>9, <1>10 DEF Closed, Stepwise
  <1>12. PICK v : RunOf(v, h, S, step, base, n)
    <2>1. n \in Nat
      BY <1>1
    <2> QED BY <1>3, <1>11, <2>1, FoldRuns
  <1>13. ASSUME NEW i \in 1..n PROVE v[i] = Turn(v[i - 1])
    <2>1. v[i - 1] \in S
      <3>1. i - 1 \in 0..n
        BY <1>1
      <3> QED BY <1>12, <3>1 DEF RunOf
    <2> QED BY <1>4, <1>12, <2>1 DEF RunOf
  <1>14. v[n] = decode(d, piece)
    <2>1. h[DOMAIN q] = h[1..n]
      BY <1>1, Zenon
    <2>2. v[n] = h[1..n]
      BY <1>12 DEF RunOf
    <2> QED BY <1>7, <2>1, <2>2, Zenon
  <1> QED BY <1>2, <1>12, <1>13, <1>14 DEF RunOf, n, S


\* After i turns of the loop over a piece of n bytes.
ReadingInv(d, i, n, q, s, str) ==
  DecodeInv(d, q, s, str) /\ (d.rest # <<>> => Measure(d) + i <= 2 * n + 1)

(* The loop reads the piece to its end, and stays in its place of the stream: *)
(* the measure, at most 2 n + 1 at first, falls with every turn.              *)
LEMMA DecodeKept ==
  ASSUME NEW s, NEW str, Streamed(s, str), NEW p \in Nat, NEW n \in Nat \ {0}, p + n <= Len(str),
         NEW d, DecodeInv(d, p, s, str), d.rest = <<>>
  PROVE  /\ DecodeInv(decode(d, SubSeq(str, p + 1, p + n)), p + n, s, str)
         /\ decode(d, SubSeq(str, p + 1, p + n)).rest = <<>>
  <1> DEFINE piece == SubSeq(str, p + 1, p + n)
             base == Decoder(d.state, d.buffer, d.bodySize, d.handed, piece, 0)
  <1>1. str \in Seq(Nat) /\ Len(str) \in Nat
    BY DEF Streamed
  <1>2. /\ piece \in Seq(Nat) /\ Len(piece) = n
        /\ \A j \in 1..n : piece[j] = str[p + j]
    <2>1. p + 1 \in 1..(Len(str) + 1) /\ p + n \in 0..Len(str) /\ p + n >= p + 1
      BY <1>1
    <2>2. /\ piece \in Seq(Nat) /\ Len(piece) = (p + n) - (p + 1) + 1
          /\ \A j \in 1..n : piece[j] = str[(p + 1) + j - 1]
      <3> DEFINE u == p + 1  v == p + n  z == Len(str)
      <3>1. /\ u \in 1..(z + 1) /\ v \in 0..z /\ v >= u /\ piece = SubSeq(str, u, v)
            /\ u \in Int /\ v \in Int
        BY <2>1
      <3>2. u \in 1..(Len(str) + 1) /\ v \in (u - 1)..Len(str)
        BY <1>1, <3>1
      <3>4. v - u + 1 = n
        OBVIOUS
      <3> HIDE DEF u, v, piece
      <3>3. /\ piece \in Seq(Nat) /\ Len(piece) = v - u + 1
            /\ \A j \in 1..(v - u + 1) : piece[j] = str[u + j - 1]
        <4>1. SubSeq(str, u, v) \in Seq(Nat)
          BY <1>1, <3>1, <3>2
        <4> QED BY <1>1, <3>1, <3>2, <4>1, SubSeqProperties
      <3> QED BY <3>3, <3>4, Zenon DEF u, v
    <2>3. \A j \in 1..n : (p + 1) + j - 1 = p + j
      OBVIOUS
    <2>4. (p + n) - (p + 1) + 1 = n
      OBVIOUS
    <2> HIDE DEF piece
    <2> QED BY <2>2, <2>3, <2>4
  <1>3. d \in Shaped /\ Sound(d) /\ Behind(d, p, str) /\ At(d, p - Len(d.rest), s, str)
    BY DEF DecodeInv
  <1>4. Len(d.rest) = 0 /\ p - Len(d.rest) = p
    <2>1. Len(d.rest) = 0
      OBVIOUS
    <2> QED BY <2>1
  <1> HIDE DEF piece
  <1>5. PICK h \in [0..(2 * n) -> Shaped] :
          /\ h[0] = base /\ h[2 * n] = decode(d, piece)
          /\ \A i \in 1..(2 * n) : h[i] = Turn(h[i - 1])
    BY <1>2, <1>3, TurnRuns
  <1>6. base.rest = piece /\ base.handed = d.handed /\ base.buffer = d.buffer
    BY DEF Decoder
  <1>7. base \in Shaped
    <2>1. 0 \in 0..(2 * n)
      OBVIOUS
    <2> QED BY <1>5, <2>1
  <1> HIDE DEF base
  <1>8. DecodeInv(base, p + n, s, str)
    <2>1. Sound(base)
      BY <1>3, <1>6 DEF Sound
    <2>2. (p + n) - Len(base.rest) = p
      <3>1. Len(base.rest) = n
        BY <1>2, <1>6, Zenon
      <3>2. (p + n) - n = p
        OBVIOUS
      <3> QED BY <3>1, <3>2, Zenon
    <2>3. Behind(base, p + n, str)
      BY <1>2, <1>6, <2>2 DEF Behind
    <2>4. At(base, p, s, str)
      <3>1. OnTrack(d, p, s, str) => OnTrack(base, p, s, str)
        BY <1>6, Zenon DEF OnTrack
      <3>2. Lost(d, p, s) => Lost(base, p, s)
        BY <1>6, Zenon DEF Lost
      <3> QED BY <1>3, <1>4, <3>1, <3>2 DEF At
    <2> QED BY <1>7, <2>1, <2>2, <2>3, <2>4 DEF DecodeInv
  <1>9. ReadingInv(h[0], 0, n, p + n, s, str)
    <2>1. Measure(base) + 0 <= 2 * n + 1
      <3> DEFINE u == IF Lack(base) = 0 THEN 1 ELSE 0
      <3>1. u \in {0, 1} /\ Measure(base) = 2 * n + u
        BY <1>2, <1>6 DEF Measure
      <3> HIDE DEF u
      <3> QED BY <3>1
    <2> QED BY <1>5, <1>8, <2>1 DEF ReadingInv
  <1>10. ASSUME NEW i \in 1..(2 * n), ReadingInv(h[i - 1], i - 1, n, p + n, s, str)
         PROVE  ReadingInv(h[i], i, n, p + n, s, str)
    <2> DEFINE x == h[i - 1]
    <2>1. h[i] = Turn(x)
      BY <1>5
    <2>2. DecodeInv(x, p + n, s, str) /\ (x.rest # <<>> => Measure(x) + (i - 1) <= 2 * n + 1)
      BY <1>10 DEF ReadingInv
    <2> HIDE DEF x
    <2>3. CASE x.rest = <<>>
      <3>1. Turn(x) = x
        BY <2>3 DEF Turn
      <3> QED BY <2>1, <2>2, <2>3, <3>1 DEF ReadingInv
    <2>4. CASE x.rest # <<>>
      <3>1. /\ DecodeInv(Turn(x), p + n, s, str) /\ Measure(Turn(x)) < Measure(x)
            /\ Measure(x) \in Nat /\ Measure(Turn(x)) \in Nat
        <4>1. p + n \in Nat
          OBVIOUS
        <4> QED BY <2>2, <2>4, <4>1, TurnKept
      <3>2. Measure(Turn(x)) + i <= 2 * n + 1
        BY <2>2, <2>4, <3>1
      <3> QED BY <2>1, <3>1, <3>2 DEF ReadingInv
    <2> QED BY <2>3, <2>4
  <1>11. \A i \in 0..(2 * n) : ReadingInv(h[i], i, n, p + n, s, str)
    <2> DEFINE T == {i \in 0..(2 * n) : ~ReadingInv(h[i], i, n, p + n, s, str)}
    <2> SUFFICES ASSUME T # {} PROVE FALSE
      OBVIOUS
    <2>1. PICK i \in T : \A y \in T : i <= y
      <3>1. T \in SUBSET Nat
        OBVIOUS
      <3> HIDE DEF T
      <3> QED BY <3>1, LeastElement
    <2>2. i \in 0..(2 * n) /\ i # 0
      BY <1>9
    <2>3. i \in 1..(2 * n) /\ i - 1 \in 0..(2 * n) /\ i - 1 < i
      BY <2>2
    <2>4. i - 1 \notin T
      <3> HIDE DEF T
      <3>1. ~(i <= i - 1)
        BY <2>3
      <3> QED BY <2>1, <3>1
    <2>5. ReadingInv(h[i - 1], i - 1, n, p + n, s, str)
      BY <2>3, <2>4
    <2> QED BY <1>10, <2>3, <2>5
  <1>12. DecodeInv(h[2 * n], p + n, s, str) /\ h[2 * n].rest = <<>>
    <2> DEFINE x == h[2 * n]
    <2>1. 2 * n \in 0..(2 * n)
      OBVIOUS
    <2>2. DecodeInv(x, p + n, s, str) /\ (x.rest # <<>> => Measure(x) + 2 * n <= 2 * n + 1)
      BY <1>11, <2>1 DEF ReadingInv
    <2>3. x.rest \in Seq(Nat)
      BY <2>2, DecoderParts DEF DecodeInv, Shaped
    <2> HIDE DEF x
    <2>4. ASSUME x.rest # <<>> PROVE FALSE
      <3> DEFINE l == Len(x.rest)
                 u == IF Lack(x) = 0 THEN 1 ELSE 0
      <3>1. l \in Nat \ {0} /\ u \in {0, 1}
        BY <2>3, <2>4
      <3>2. 2 * l + u + 2 * n <= 2 * n + 1
        BY <2>2, <2>4 DEF Measure
      <3> HIDE DEF l, u
      <3> QED BY <3>1, <3>2
    <2>5. x.rest = <<>>
      BY <2>4
    <2> QED BY <2>2, <2>5 DEF x
  <1> QED BY <1>5, <1>12 DEF piece


-----------------------------------------------------------------------------
(* The connection. *)

DecoderInv ==
  /\ Streamed(sent, stream) /\ arrived \in 0..Len(stream)
  /\ DecodeInv(reader, arrived, sent, stream) /\ reader.rest = <<>>

\* SendFrame.
Longer(s, str, m, s2, str2) ==
  /\ str2 = str \o m
  /\ s2 = Append(s, [message |-> m, end |-> Len(str) + Len(m)])

(* The bytes of two sequences joined. *)
LEMMA Joined ==
  ASSUME NEW u \in Seq(Nat), NEW v \in Seq(Nat)
  PROVE  /\ u \o v \in Seq(Nat) /\ Len(u \o v) = Len(u) + Len(v)
         /\ \A j \in 1..Len(u) : (u \o v)[j] = u[j]
         /\ \A j \in 1..Len(v) : (u \o v)[Len(u) + j] = v[j]
  <1>1. Len(u) \in Nat /\ Len(v) \in Nat
    OBVIOUS
  <1>2. \A j \in 1..(Len(u) + Len(v)) :
          (u \o v)[j] = IF j <= Len(u) THEN u[j] ELSE v[j - Len(u)]
    BY ConcatProperties
  <1>3. \A j \in 1..Len(u) : j \in 1..(Len(u) + Len(v)) /\ j <= Len(u)
    BY <1>1
  <1>4. \A j \in 1..Len(v) : /\ Len(u) + j \in 1..(Len(u) + Len(v)) /\ ~(Len(u) + j <= Len(u))
                             /\ (Len(u) + j) - Len(u) = j
    BY <1>1
  <1>5. u \o v \in Seq(Nat) /\ Len(u \o v) = Len(u) + Len(v)
    BY ConcatProperties
  <1>6. ASSUME NEW j \in 1..Len(v) PROVE (u \o v)[Len(u) + j] = v[j]
    <2>1. (u \o v)[Len(u) + j] = v[(Len(u) + j) - Len(u)]
      BY <1>2, <1>4
    <2> QED BY <1>4, <2>1
  <1> QED BY <1>2, <1>3, <1>5, <1>6

(* A place before the end of a part is one of the whole. *)
LEMMA Inside ==
  \A e, x, t \in Nat : \A j \in 1..x : e + x <= t => e + j \in 1..t
  OBVIOUS

(* Another message lengthens the stream and changes nothing of it. *)
LEMMA StreamGrows ==
  ASSUME NEW s, NEW str, Streamed(s, str), NEW m \in Frames,
         NEW s2, NEW str2, Longer(s, str, m, s2, str2)
  PROVE  /\ Streamed(s2, str2) /\ Len(s2) = Len(s) + 1 /\ Len(str2) = Len(str) + Len(m)
         /\ Len(m) \in Nat \ {0} /\ EndOf(s2, Len(s) + 1) = Len(str2)
         /\ \A i \in 1..Len(s) : s2[i] = s[i]
         /\ \A i \in 0..Len(s) : EndOf(s2, i) = EndOf(s, i)
         /\ \A j \in 1..Len(str) : str2[j] = str[j]
  <1> DEFINE w == [message |-> m, end |-> Len(str) + Len(m)]
  <1>1. m \in Seq(Nat) /\ Len(m) \in Nat \ {0}
    BY FrameType
  <1>2. /\ s \in Seq([message : Seq(Nat), end : Nat]) /\ str \in Seq(Nat)
        /\ Len(s) \in Nat /\ Len(str) \in Nat /\ Len(str) = EndOf(s, Len(s))
    BY DEF Streamed
  <1>a. Len(s) + 1 \in Nat /\ 1..(Len(s) + 1) = 1..Len(s) \cup {Len(s) + 1}
    BY <1>2
  <1>3. w \in [message : Seq(Nat), end : Nat] /\ w.message = m /\ w.end = Len(str) + Len(m)
    BY <1>1, <1>2
  <1> HIDE DEF w
  <1>4. /\ s2 \in Seq([message : Seq(Nat), end : Nat]) /\ Len(s2) = Len(s) + 1
        /\ s2[Len(s) + 1] = w /\ \A i \in 1..Len(s) : s2[i] = s[i]
    <2>1. s2 = Append(s, w)
      BY DEF w, Longer
    <2> QED BY <1>2, <1>3, <2>1
  <1>5. /\ str2 \in Seq(Nat) /\ Len(str2) = Len(str) + Len(m)
        /\ \A j \in 1..Len(str) : str2[j] = str[j]
        /\ \A j \in 1..Len(m) : str2[Len(str) + j] = m[j]
    <2>1. str2 = str \o m
      BY DEF Longer
    <2> QED BY <1>1, <1>2, <2>1, Joined, Zenon
  <1>6. \A i \in 0..Len(s) : EndOf(s2, i) = EndOf(s, i)
    <2> SUFFICES ASSUME NEW i \in 0..Len(s) PROVE EndOf(s2, i) = EndOf(s, i)
      OBVIOUS
    <2>1. i = 0 \/ i \in 1..Len(s)
      BY <1>2
    <2> QED BY <1>4, <2>1 DEF EndOf
  <1>7. EndOf(s2, Len(s) + 1) = Len(str2)
    <2>1. Len(s) + 1 # 0
      BY <1>2
    <2> QED BY <1>3, <1>4, <1>5, <2>1 DEF EndOf
  <1>8. \A i \in 0..Len(s2) : i \in 0..Len(s) \/ i = Len(s) + 1
    BY <1>2, <1>4
  <1>9. \A i \in 0..Len(s2) : EndOf(s2, i) \in Nat
    <2>1. \A i \in 0..Len(s) : EndOf(s2, i) \in Nat
      BY <1>6 DEF Streamed
    <2> QED BY <1>1, <1>2, <1>5, <1>7, <1>8, <2>1
  <1>10. \A i, k \in 0..Len(s2) : i <= k => EndOf(s2, i) <= EndOf(s2, k)
    <2> SUFFICES ASSUME NEW i \in 0..Len(s2), NEW k \in 0..Len(s2), i <= k
                 PROVE  EndOf(s2, i) <= EndOf(s2, k)
      OBVIOUS
    <2>1. CASE k \in 0..Len(s)
      <3>1. i \in 0..Len(s)
        BY <1>2, <1>4, <2>1
      <3>2. EndOf(s, i) <= EndOf(s, k)
        BY <2>1, <3>1 DEF Streamed
      <3> QED BY <1>6, <2>1, <3>1, <3>2
    <2>2. CASE k = Len(s) + 1 /\ i \in 0..Len(s)
      <3>1. EndOf(s, i) <= EndOf(s, Len(s)) /\ EndOf(s, i) \in Nat
        <4>1. Len(s) \in 0..Len(s) /\ i <= Len(s)
          BY <1>2, <2>2
        <4> QED BY <2>2, <4>1 DEF Streamed
      <3>2. EndOf(s2, i) = EndOf(s, i) /\ EndOf(s2, k) = Len(str2)
        BY <1>6, <1>7, <2>2
      <3> QED BY <1>1, <1>2, <1>5, <3>1, <3>2
    <2>3. CASE i = k
      <3>1. EndOf(s2, i) \in Nat
        BY <1>9
      <3> QED BY <2>3, <3>1
    <2> QED BY <1>8, <2>1, <2>2, <2>3
  <1>11. ASSUME NEW i \in 1..Len(s2)
         PROVE  /\ s2[i].message \in Frames
                /\ EndOf(s2, i) = EndOf(s2, i - 1) + Len(s2[i].message)
                /\ \A j \in 1..Len(s2[i].message) :
                     s2[i].message[j] = str2[EndOf(s2, i - 1) + j]
    <2>1. CASE i \in 1..Len(s)
      <3>1. /\ s[i].message \in Frames
            /\ EndOf(s, i) = EndOf(s, i - 1) + Len(s[i].message)
            /\ \A j \in 1..Len(s[i].message) : s[i].message[j] = str[EndOf(s, i - 1) + j]
        BY <2>1, Zenon DEF Streamed
      <3>2. i \in 0..Len(s) /\ i - 1 \in 0..Len(s) /\ Len(s) \in 0..Len(s) /\ i <= Len(s)
        BY <1>2, <2>1
      <3>3. EndOf(s2, i) = EndOf(s, i) /\ EndOf(s2, i - 1) = EndOf(s, i - 1) /\ s2[i] = s[i]
        BY <1>4, <1>6, <2>1, <3>2
      <3>4. EndOf(s, i) <= Len(str) /\ EndOf(s, i - 1) \in Nat
        BY <1>2, <3>2 DEF Streamed
      <3>5. Len(s[i].message) \in Nat
        BY <3>1, FrameType
      <3>6. \A j \in 1..Len(s[i].message) : EndOf(s, i - 1) + j \in 1..Len(str)
        <4> DEFINE e == EndOf(s, i - 1)  x == Len(s[i].message)  t == Len(str)
        <4>1. e \in Nat /\ x \in Nat /\ t \in Nat /\ e + x <= t
          BY <1>2, <3>1, <3>4, <3>5
        <4> HIDE DEF e, x, t
        <4>2. \A j \in 1..x : e + j \in 1..t
          BY <4>1, Inside
        <4> QED BY <4>2 DEF e, x, t
      <3>7. \A j \in 1..Len(s[i].message) : s[i].message[j] = str2[EndOf(s, i - 1) + j]
        BY <1>5, <3>1, <3>6
      <3> QED BY <3>1, <3>3, <3>7, Zenon
    <2>2. CASE i = Len(s) + 1
      <3>1. i - 1 = Len(s) /\ Len(s) \in 0..Len(s)
        BY <1>2, <2>2
      <3>2. EndOf(s2, i - 1) = Len(str) /\ EndOf(s2, i) = Len(str) + Len(m) /\ s2[i].message = m
        BY <1>2, <1>3, <1>4, <1>5, <1>6, <1>7, <2>2, <3>1
      <3> QED BY <1>5, <3>2, Zenon
    <2>3. i \in 1..Len(s) \/ i = Len(s) + 1
      BY <1>4, <1>a
    <2> QED BY <2>1, <2>2, <2>3
  <1>12. Len(str2) = EndOf(s2, Len(s2))
    BY <1>4, <1>7
  <1> QED BY <1>1, <1>4, <1>5, <1>6, <1>7, <1>9, <1>10, <1>11, <1>12, Zenon DEF Streamed

(* The decoder stays where it is in the longer stream. *)
LEMMA PlaceInLonger ==
  ASSUME NEW s, NEW str, Streamed(s, str), NEW m \in Frames,
         NEW s2, NEW str2, Longer(s, str, m, s2, str2),
         NEW p \in 0..Len(str), NEW d, DecodeInv(d, p, s, str), d.rest = <<>>
  PROVE  DecodeInv(d, p, s2, str2)
  <1> DEFINE h == Len(d.handed)
  <1>1. /\ Len(s2) = Len(s) + 1 /\ Len(str2) = Len(str) + Len(m) /\ Len(m) \in Nat \ {0}
        /\ EndOf(s2, Len(s) + 1) = Len(str2)
        /\ \A i \in 1..Len(s) : s2[i] = s[i]
        /\ \A i \in 0..Len(s) : EndOf(s2, i) = EndOf(s, i)
        /\ \A j \in 1..Len(str) : str2[j] = str[j]
    BY StreamGrows
  <1>2. d \in Shaped /\ Sound(d) /\ At(d, p - Len(d.rest), s, str)
    BY DEF DecodeInv
  <1>3. /\ s \in Seq([message : Seq(Nat), end : Nat]) /\ str \in Seq(Nat)
        /\ Len(s) \in Nat /\ Len(str) \in Nat /\ Len(str) = EndOf(s, Len(s)) /\ p \in Nat
    BY DEF Streamed
  <1>4. Len(d.rest) = 0 /\ p - Len(d.rest) = p
    <2>1. Len(d.rest) = 0
      OBVIOUS
    <2> QED BY <1>3, <2>1
  <1>5. Behind(d, p, str2)
    BY <1>1, <1>3, <1>4 DEF Behind
  <1>6. d.handed \in Seq(Seq(Nat)) /\ d.buffer \in Seq(Nat) /\ h \in Nat /\ Len(d.buffer) \in Nat
    BY <1>2, DecoderParts DEF Shaped
  <1>7. CASE OnTrack(d, p, s, str)
    <2>1. /\ h <= Len(s)
          /\ \A i \in 1..h : d.handed[i] = s[i].message /\ Right(s[i].message)
          /\ p = EndOf(s, h) + Len(d.buffer)
          /\ \A j \in 1..Len(d.buffer) : d.buffer[j] = str[EndOf(s, h) + j]
          /\ h < Len(s) => p < EndOf(s, h + 1)
      BY <1>7, Zenon DEF OnTrack
    <2>2. h \in 0..Len(s) /\ h <= Len(s2)
      BY <1>1, <1>3, <1>6, <2>1
    <2>3. \A i \in 1..h : d.handed[i] = s2[i].message /\ Right(s2[i].message)
      <3>1. \A i \in 1..h : i \in 1..Len(s)
        BY <2>2
      <3> QED BY <1>1, <2>1, <3>1, Zenon
    <2>4. EndOf(s2, h) = EndOf(s, h) /\ EndOf(s, h) \in Nat
      BY <1>1, <2>2 DEF Streamed
    <2>5. \A j \in 1..Len(d.buffer) : d.buffer[j] = str2[EndOf(s2, h) + j]
      <3>1. \A j \in 1..Len(d.buffer) : EndOf(s, h) + j \in 1..Len(str)
        <4> DEFINE e == EndOf(s, h)  x == Len(d.buffer)  t == Len(str)
        <4>1. e \in Nat /\ x \in Nat /\ t \in Nat /\ e + x <= t
          BY <1>3, <1>6, <2>1, <2>4
        <4> HIDE DEF e, x, t
        <4>2. \A j \in 1..x : e + j \in 1..t
          BY <4>1, Inside
        <4> QED BY <4>2 DEF e, x, t
      <3> QED BY <1>1, <2>1, <2>4, <3>1
    <2>6. p < EndOf(s2, h + 1)
      <3>1. CASE h < Len(s)
        <4>1. h + 1 \in 0..Len(s)
          BY <1>3, <1>6, <3>1
        <4> QED BY <1>1, <2>1, <3>1, <4>1
      <3>2. CASE h = Len(s)
        BY <1>1, <1>3, <3>2
      <3> QED BY <1>3, <2>2, <3>1, <3>2
    <2>7. OnTrack(d, p, s2, str2)
      BY <2>1, <2>2, <2>3, <2>4, <2>5, <2>6, Zenon DEF OnTrack
    <2> QED BY <1>2, <1>4, <1>5, <2>7 DEF DecodeInv, At
  <1>8. CASE Lost(d, p, s)
    <2>1. PICK k \in 1..Len(s) :
            /\ ~Right(s[k].message) /\ EndOf(s, k) <= p
            /\ \A i \in 1..(k - 1) : i <= h /\ d.handed[i] = s[i].message
      BY <1>8 DEF Lost
    <2>2. k \in 0..Len(s) /\ k \in 1..Len(s2) /\ \A i \in 1..(k - 1) : i \in 1..Len(s)
      BY <1>1, <1>3, <2>1
    <2>3. /\ ~Right(s2[k].message) /\ EndOf(s2, k) <= p
          /\ \A i \in 1..(k - 1) : i <= h /\ d.handed[i] = s2[i].message
      BY <1>1, <2>1, <2>2, Zenon
    <2>4. Lost(d, p, s2)
      BY <2>2, <2>3 DEF Lost
    <2> QED BY <1>2, <1>4, <1>5, <2>4 DEF DecodeInv, At
  <1> QED BY <1>2, <1>4, <1>7, <1>8 DEF At

(* The invariant of the connection holds from the beginning, *)
LEMMA DecoderInvInit == DecoderInit => DecoderInv
  <1> SUFFICES ASSUME DecoderInit PROVE DecoderInv
    OBVIOUS
  <1>1. sent = <<>> /\ stream = <<>> /\ arrived = 0 /\ reader = NewDecoder
    BY DEF DecoderInit
  <1>2. Streamed(sent, stream)
    BY <1>1 DEF Streamed, EndOf
  <1>3. /\ reader.state = "HEAD" /\ reader.buffer = <<>> /\ reader.bodySize = 0
        /\ reader.handed = <<>> /\ reader.rest = <<>> /\ reader.ret = 0
    BY <1>1 DEF NewDecoder
  <1>4. reader \in Decoders
    <2>1. NewDecoder \in Decoders
      BY DEF NewDecoder, Decoders
    <2> QED BY <1>1, <2>1
  <1>5. reader \in Shaped
    <2>1. Len(<<>>) = 0 /\ headSize \in Nat \ {0}
      BY DecoderAssumption
    <2>2. Shape(reader)
      BY <1>3, <2>1 DEF Shape
    <2> QED BY <1>4, <2>2 DEF Shaped
  <1>6. Sound(reader)
    BY <1>3 DEF Sound
  <1>7. Behind(reader, arrived, stream)
    BY <1>1, <1>3 DEF Behind
  <1>8. At(reader, arrived - Len(reader.rest), sent, stream)
    <2>1. arrived - Len(reader.rest) = 0
      <3>1. Len(reader.rest) = 0
        BY <1>3
      <3> QED BY <1>1, <3>1
    <2>2. OnTrack(reader, 0, sent, stream)
      BY <1>1, <1>3 DEF OnTrack, EndOf
    <2> QED BY <2>1, <2>2 DEF At
  <1>9. arrived \in 0..Len(stream)
    BY <1>1
  <1> QED BY <1>2, <1>3, <1>5, <1>6, <1>7, <1>8, <1>9 DEF DecoderInv, DecodeInv

(* and every step keeps it. *)
LEMMA DecoderInvStep == DecoderInv /\ [DecoderNext]_decoderVars => DecoderInv'
  <1> SUFFICES ASSUME DecoderInv, [DecoderNext]_decoderVars PROVE DecoderInv'
    OBVIOUS
  <1>1. /\ Streamed(sent, stream) /\ arrived \in 0..Len(stream)
        /\ DecodeInv(reader, arrived, sent, stream) /\ reader.rest = <<>>
    BY DEF DecoderInv
  <1>2. stream \in Seq(Nat) /\ Len(stream) \in Nat /\ arrived \in Nat
    BY <1>1 DEF Streamed
  <1>3. ASSUME NEW m \in Frames, SendFrame(m) PROVE DecoderInv'
    <2>1. /\ stream' = stream \o m
          /\ sent' = Append(sent, [message |-> m, end |-> Len(stream) + Len(m)])
          /\ arrived' = arrived /\ reader' = reader
      BY <1>3 DEF SendFrame
    <2>a. Longer(sent, stream, m, sent', stream')
      BY <2>1 DEF Longer
    <2>2. Streamed(sent', stream') /\ Len(stream') = Len(stream) + Len(m) /\ Len(m) \in Nat
      <3>1. /\ Streamed(sent', stream') /\ Len(stream') = Len(stream) + Len(m)
            /\ Len(m) \in Nat \ {0}
        BY <1>1, <2>a, StreamGrows
      <3> QED BY <3>1
    <2>3. DecodeInv(reader, arrived, sent', stream')
      BY <1>1, <2>a, PlaceInLonger
    <2>4. arrived \in 0..Len(stream')
      BY <1>1, <1>2, <2>2
    <2> QED BY <1>1, <2>1, <2>2, <2>3, <2>4 DEF DecoderInv
  <1>4. ASSUME NEW n \in 1..(Len(stream) - arrived), ReadPiece(n) PROVE DecoderInv'
    <2>1. /\ arrived' = arrived + n /\ sent' = sent /\ stream' = stream
          /\ reader' = decode(reader, SubSeq(stream, arrived + 1, arrived + n))
      BY <1>4 DEF ReadPiece
    <2>2. n \in Nat \ {0} /\ arrived + n <= Len(stream) /\ arrived + n \in 0..Len(stream)
      BY <1>2
    <2>3. /\ DecodeInv(decode(reader, SubSeq(stream, arrived + 1, arrived + n)),
                       arrived + n, sent, stream)
          /\ decode(reader, SubSeq(stream, arrived + 1, arrived + n)).rest = <<>>
      BY <1>1, <1>2, <2>2, DecodeKept
    <2> QED BY <1>1, <2>1, <2>2, <2>3 DEF DecoderInv
  <1>5. CASE UNCHANGED decoderVars
    BY <1>1, <1>5 DEF DecoderInv, decoderVars
  <1> QED BY <1>3, <1>4, <1>5 DEF DecoderNext

(***************************************************************************)
(* At any time the decoder is either at the place of the stream that the   *)
(* bytes it handed over and buffered say, with every message it passed     *)
(* handed over, or it passed a message with a wrong checksum, with every   *)
(* message before that one handed over (szBinary_decoder_t::decode).       *)
(***************************************************************************)
THEOREM DecoderInvariance == DecoderSpec => []DecoderInv
  <1> QED BY DecoderInvInit, DecoderInvStep, PTL DEF DecoderSpec

(* What the invariant says of the messages. *)
LEMMA InvTellsPieces == DecoderInv => PiecesDoNotMatter
  <1> SUFFICES ASSUME DecoderInv PROVE PiecesDoNotMatter
    OBVIOUS
  <1> DEFINE complete == {i \in DOMAIN sent : sent[i].end <= arrived}
             expected == {i \in complete : \A j \in 1..i : Right(sent[j].message)}
             h == Len(reader.handed)
  <1>1. /\ Streamed(sent, stream) /\ arrived \in 0..Len(stream)
        /\ reader \in Shaped /\ Sound(reader) /\ reader.rest = <<>>
        /\ At(reader, arrived - Len(reader.rest), sent, stream)
    BY DEF DecoderInv, DecodeInv
  <1>2. /\ DOMAIN sent = 1..Len(sent) /\ Len(sent) \in Nat /\ arrived \in Nat
        /\ Len(stream) \in Nat
    BY <1>1 DEF Streamed
  <1>3. h \in Nat /\ DOMAIN reader.handed = 1..h /\ Len(reader.buffer) \in Nat
    BY <1>1, DecoderParts DEF Shaped
  <1>4. arrived - Len(reader.rest) = arrived
    <2>1. Len(reader.rest) = 0
      BY <1>1
    <2> QED BY <1>2, <2>1
  <1>5. /\ \A i \in 1..Len(sent) : sent[i].end = EndOf(sent, i) /\ EndOf(sent, i) \in Nat
        /\ EndOf(sent, h) \in Nat \/ h > Len(sent)
    <2>1. \A i \in 1..Len(sent) : i # 0 /\ i \in 0..Len(sent)
      BY <1>2
    <2>2. h \in 0..Len(sent) \/ h > Len(sent)
      BY <1>2, <1>3
    <2> QED BY <1>1, <2>1, <2>2 DEF EndOf, Streamed
  <1>6. \A k \in DOMAIN reader.handed : WellFormed(reader.handed[k])
    BY <1>1, <1>3 DEF Sound
  <1>7. /\ \A i \in expected : i \in DOMAIN reader.handed /\ reader.handed[i] = sent[i].message
        /\ expected = complete => DOMAIN reader.handed = complete
    <2>1. CASE OnTrack(reader, arrived, sent, stream)
      <3>1. /\ h <= Len(sent)
            /\ \A i \in 1..h : reader.handed[i] = sent[i].message /\ Right(sent[i].message)
            /\ arrived = EndOf(sent, h) + Len(reader.buffer)
            /\ h < Len(sent) => arrived < EndOf(sent, h + 1)
        BY <2>1, Zenon DEF OnTrack
      <3>2. \A i \in 1..h : i \in 1..Len(sent)
        BY <1>2, <1>3, <3>1
      <3>3. ASSUME NEW i \in 1..h PROVE i \in complete
        <4>1. i \in 0..Len(sent) /\ h \in 0..Len(sent) /\ i <= h /\ i \in 1..Len(sent)
          BY <1>2, <1>3, <3>1
        <4>2. EndOf(sent, i) <= EndOf(sent, h)
          BY <1>1, <4>1 DEF Streamed
        <4>3. sent[i].end = EndOf(sent, i) /\ EndOf(sent, i) \in Nat /\ EndOf(sent, h) \in Nat
          BY <1>1, <1>5, <4>1 DEF Streamed
        <4>4. EndOf(sent, i) <= arrived
          BY <1>3, <3>1, <4>2, <4>3
        <4> QED BY <1>2, <4>1, <4>3, <4>4
      <3>4. ASSUME NEW i \in complete PROVE i \in 1..h
        <4>1. i \in 1..Len(sent) /\ EndOf(sent, i) <= arrived
          BY <1>2, <1>5
        <4>2. ASSUME ~(i <= h) PROVE FALSE
          <5>1. h + 1 \in 0..Len(sent) /\ i \in 0..Len(sent) /\ h + 1 <= i /\ h < Len(sent)
            BY <1>2, <1>3, <4>1, <4>2
          <5>2. EndOf(sent, h + 1) <= EndOf(sent, i)
            BY <1>1, <5>1 DEF Streamed
          <5>3. EndOf(sent, h + 1) \in Nat /\ EndOf(sent, i) \in Nat
            BY <1>1, <5>1 DEF Streamed
          <5> QED BY <1>2, <3>1, <4>1, <5>1, <5>2, <5>3
        <4> QED BY <1>3, <4>1, <4>2
      <3>5. complete = 1..h
        BY <3>3, <3>4
      <3> HIDE DEF complete
      <3> QED BY <1>3, <3>1, <3>5
    <2>2. CASE Lost(reader, arrived, sent)
      <3>1. PICK k \in 1..Len(sent) :
              /\ ~Right(sent[k].message) /\ EndOf(sent, k) <= arrived
              /\ \A i \in 1..(k - 1) : i <= h /\ reader.handed[i] = sent[i].message
        BY <2>2 DEF Lost
      <3>2. k \in complete
        BY <1>2, <1>5, <3>1
      <3>3. k \notin expected
        <4>1. k \in 1..k
          BY <1>2
        <4> QED BY <3>1, <4>1
      <3>4. ASSUME NEW i \in expected
            PROVE  i \in DOMAIN reader.handed /\ reader.handed[i] = sent[i].message
        <4>1. i \in 1..Len(sent) /\ \A j \in 1..i : Right(sent[j].message)
          BY <1>2
        <4>2. i \in 1..(k - 1)
          <5>1. ~(k \in 1..i)
            BY <3>1, <4>1
          <5> QED BY <1>2, <4>1, <5>1
        <4>3. i <= h /\ reader.handed[i] = sent[i].message
          BY <3>1, <4>2
        <4> QED BY <1>3, <4>1, <4>3
      <3> QED BY <3>2, <3>3, <3>4
    <2> QED BY <1>1, <1>4, <2>1, <2>2 DEF At
  <1> QED BY <1>6, <1>7 DEF PiecesDoNotMatter

(***************************************************************************)
(* Whatever the exchange sends and however TCP cuts it into pieces, the    *)
(* decoder hands over the complete messages, in order, up to the first     *)
(* with a wrong checksum, and never what is not a message.                 *)
(***************************************************************************)
THEOREM MessagesWhole == DecoderSpec => []PiecesDoNotMatter
  <1> QED BY DecoderInvariance, InvTellsPieces, PTL

-----------------------------------------------------------------------------
(* Shifts, bit by bit. *)

(* What is shifted to the right. *)
LEMMA ShrIs ==
  ASSUME NEW v \in SUBSET Nat, NEW k \in Nat, NEW x
  PROVE  x \in Shr(v, k) <=> x \in Nat /\ x + k \in v
  <1>1. ASSUME x \in Shr(v, k) PROVE x \in Nat /\ x + k \in v
    <2>1. PICK b \in v \ Bits(k) : x = b - k
      BY <1>1 DEF Shr
    <2>2. b \in Nat /\ ~(b < k)
      BY <2>1 DEF Bits
    <2>3. b - k \in Nat /\ (b - k) + k = b
      BY <2>2
    <2> QED BY <2>1, <2>3
  <1>2. ASSUME x \in Nat, x + k \in v PROVE x \in Shr(v, k)
    <2>1. x + k \in v \ Bits(k) /\ x = (x + k) - k
      BY <1>2 DEF Bits
    <2> QED BY <2>1 DEF Shr
  <1> QED BY <1>1, <1>2

(* What is shifted to the left. *)
LEMMA ShlIs ==
  ASSUME NEW v \in SUBSET Nat, NEW k \in Nat, NEW w \in Nat, NEW x
  PROVE  x \in Shl(v, k, w) <=> x \in Nat /\ x < w /\ k <= x /\ x - k \in v
  <1>1. ASSUME x \in Shl(v, k, w) PROVE x \in Nat /\ x < w /\ k <= x /\ x - k \in v
    <2>1. x \in {b + k : b \in v} /\ x \in Bits(w)
      BY <1>1 DEF Shl, Cast
    <2>2. PICK b \in v : x = b + k
      BY <2>1
    <2>3. (b + k) - k = b /\ k <= b + k /\ b + k \in Nat
      BY <2>2
    <2> QED BY <2>1, <2>2, <2>3 DEF Bits
  <1>2. ASSUME x \in Nat, x < w, k <= x, x - k \in v PROVE x \in Shl(v, k, w)
    <2>1. x = (x - k) + k /\ x \in Bits(w)
      BY <1>2 DEF Bits
    <2>2. x \in {b + k : b \in v}
      BY <1>2, <2>1
    <2> QED BY <2>1, <2>2 DEF Shl, Cast
  <1> QED BY <1>1, <1>2

-----------------------------------------------------------------------------
(* Varints. *)

\* The seven bits of the i-th byte.
Digit(v, i) == {b \in 0..6 : 7 * (i - 1) + b \in v}

\* What the writers of varints write: v in n bytes.
VarintOf(bytes, v, n) ==
  /\ n \in Nat \ {0} /\ bytes \in Seq(SUBSET Nat) /\ Len(bytes) = n
  /\ \A i \in 1..n : bytes[i] \ {7} = Digit(v, i)
  /\ \A i \in 1..n : 7 \in bytes[i] <=> i # n

(* A reader takes a varint apart, *)
LEMMA GroupsOf ==
  ASSUME NEW v, NEW n, NEW bytes, VarintOf(bytes, v, n), NEW most \in Nat, n <= most
  PROVE  Groups(bytes, most) = [i \in 1..n |-> Digit(v, i)]
  <1> DEFINE ends == {i \in 1..most : i <= Len(bytes) /\ 7 \notin bytes[i]}
  <1>1. /\ n \in Nat \ {0} /\ Len(bytes) = n
        /\ \A i \in 1..n : bytes[i] \ {7} = Digit(v, i)
        /\ \A i \in 1..n : 7 \in bytes[i] <=> i # n
    BY DEF VarintOf
  <1>2. \A i : i \in ends <=> i = n
    <2>1. \A i \in 1..most : i <= n => i \in 1..n
      BY <1>1
    <2>2. n \in 1..n /\ n \in 1..most /\ n <= n
      BY <1>1
    <2> QED BY <1>1, <2>1, <2>2
  <1>3. ends = {n}
    BY <1>2
  <1> HIDE DEF ends
  <1>4. (CHOOSE e \in ends : \A f \in ends : e <= f) = n
    BY <1>1, <1>3
  <1>5. Groups(bytes, most) = [i \in 1..n |-> bytes[i] \ {7}]
    BY <1>3, <1>4, Zenon DEF Groups, ends
  <1> QED BY <1>1, <1>5

(* and finds no end in one that is cut. *)
LEMMA CutIsEndless ==
  ASSUME NEW v, NEW n, NEW bytes, VarintOf(bytes, v, n), NEW most \in Nat, NEW m \in 0..(n - 1)
  PROVE  Groups(SubSeq(bytes, 1, m), most) = <<>>
  <1> DEFINE cut == SubSeq(bytes, 1, m)
             ends == {i \in 1..most : i <= Len(cut) /\ 7 \notin cut[i]}
  <1>1. /\ n \in Nat \ {0} /\ Len(bytes) = n /\ bytes \in Seq(SUBSET Nat)
        /\ \A i \in 1..n : 7 \in bytes[i] <=> i # n
    BY DEF VarintOf
  <1>2. Len(cut) = m /\ \A i \in 1..m : cut[i] = bytes[i]
    BY <1>1
  <1>3. \A i \in 1..m : i \in 1..n /\ i # n
    BY <1>1
  <1> HIDE DEF cut
  <1>4. ASSUME NEW i \in ends PROVE FALSE
    <2>1. i \in 1..m
      BY <1>1, <1>2
    <2> QED BY <1>1, <1>2, <1>3, <2>1
  <1>5. ends = {}
    BY <1>4
  <1> QED BY <1>5, Zenon DEF Groups, ends, cut

(* A uint32_t collects some of the bits. *)
LEMMA PartOf ==
  ASSUME NEW v \in SUBSET Nat, NEW n \in Nat, NEW f \in Nat \ {0}, NEW l \in Nat, NEW x
  PROVE  x \in Part([i \in 1..n |-> Digit(v, i)], f, l)
           <=> /\ x \in Nat /\ x < 32 /\ x + 7 * (f - 1) \in v
               /\ x < 7 * ((l - f) + 1) /\ x < 7 * ((n - f) + 1)
  <1> DEFINE g == [i \in 1..n |-> Digit(v, i)]
             P == Part(g, f, l)
  <1>0. \A i \in 1..n : g[i] = Digit(v, i) /\ g[i] \in SUBSET Nat
    BY DEF Digit
  <1>a. DOMAIN g = 1..n
    OBVIOUS
  <1> HIDE DEF g
  <1>1. ASSUME x \in P
        PROVE  /\ x \in Nat /\ x < 32 /\ x + 7 * (f - 1) \in v
               /\ x < 7 * ((l - f) + 1) /\ x < 7 * ((n - f) + 1)
    <2>1. PICK i \in (f..l) \cap (1..n) : x \in Shl(g[i], 7 * (i - f), 32)
      BY <1>1, <1>a DEF Part
    <2>2. i \in Nat /\ f <= i /\ i <= l /\ i <= n /\ i \in 1..n /\ 7 * (i - f) \in Nat /\ 32 \in Nat
      BY <2>1
    <2>3. x \in Nat /\ x < 32 /\ 7 * (i - f) <= x /\ x - 7 * (i - f) \in Digit(v, i)
      BY <1>0, <2>1, <2>2, ShlIs
    <2>4. x - 7 * (i - f) \in 0..6 /\ 7 * (i - 1) + (x - 7 * (i - f)) \in v
      BY <2>3 DEF Digit
    <2>5. 7 * (i - 1) + (x - 7 * (i - f)) = x + 7 * (f - 1)
      BY <2>2, <2>3
    <2> QED BY <2>2, <2>3, <2>4, <2>5
  <1>2. ASSUME x \in Nat, x < 32, x + 7 * (f - 1) \in v,
               x < 7 * ((l - f) + 1), x < 7 * ((n - f) + 1)
        PROVE  x \in P
    <2> DEFINE c == x \div 7
               i == f + c
    <2>1. c \in Nat /\ 7 * c <= x /\ x < 7 * c + 7
      BY <1>2
    <2> HIDE DEF c
    <2>2. i \in Nat /\ f <= i /\ i <= l /\ i <= n /\ i \in 1..n /\ i - f = c
      BY <1>2, <2>1
    <2>3. x - 7 * c \in 0..6 /\ 7 * (i - 1) + (x - 7 * c) = x + 7 * (f - 1)
      BY <1>2, <2>1
    <2>4. x - 7 * c \in Digit(v, i)
      BY <1>2, <2>3 DEF Digit
    <2> HIDE DEF i
    <2>5. x \in Shl(g[i], 7 * (i - f), 32)
      <3>1. 7 * c \in Nat /\ 32 \in Nat /\ 7 * (i - f) = 7 * c
        BY <2>1, <2>2
      <3> QED BY <1>0, <1>2, <2>1, <2>2, <2>4, <3>1, ShlIs
    <2>6. i \in (f..l) \cap DOMAIN g
      BY <1>a, <2>2
    <2> QED BY <2>5, <2>6 DEF Part
  <1> QED BY <1>1, <1>2 DEF g

-----------------------------------------------------------------------------
(* Sizes. *)

(* The cardinalities of small sets. *)
LEMMA CardsThree ==
  ASSUME NEW a, NEW b, NEW c, a # b, a # c, b # c
  PROVE  /\ Cardinality({}) = 0 /\ Cardinality({a}) = 1 /\ Cardinality({b, a}) = 2
         /\ Cardinality({c, b, a}) = 3 /\ IsFiniteSet({c, b, a})
  <1>1. IsFiniteSet({}) /\ Cardinality({}) = 0
    BY FS_EmptySet
  <1>2. IsFiniteSet({a}) /\ Cardinality({a}) = 1
    BY FS_Singleton
  <1>3. IsFiniteSet({b, a}) /\ Cardinality({b, a}) = 2
    <2>1. {a} \cup {b} = {b, a} /\ b \notin {a}
      OBVIOUS
    <2>2. IsFiniteSet({a} \cup {b}) /\ Cardinality({a} \cup {b}) = Cardinality({a}) + 1
      BY <1>2, <2>1, FS_AddElement
    <2> QED BY <1>2, <2>1, <2>2
  <1>4. IsFiniteSet({c, b, a}) /\ Cardinality({c, b, a}) = 3
    <2>1. {b, a} \cup {c} = {c, b, a} /\ c \notin {b, a}
      OBVIOUS
    <2>2. /\ IsFiniteSet({b, a} \cup {c})
          /\ Cardinality({b, a} \cup {c}) = Cardinality({b, a}) + 1
      BY <1>3, <2>1, FS_AddElement
    <2> QED BY <1>3, <2>1, <2>2
  <1> QED BY <1>1, <1>2, <1>3, <1>4

(* What is below a bound is below a higher one. *)
LEMMA BelowMore ==
  ASSUME NEW v, NEW a \in Nat, NEW b \in Nat, a <= b, Below(v, a)
  PROVE  Below(v, b)
  BY DEF Below, Bits

(* How many of four thresholds an integer reaches says which. *)
LEMMA ReachedFour ==
  ASSUME NEW v, NEW a \in Nat, NEW b \in Nat, NEW c \in Nat, NEW d \in Nat, a < b, b < c, c < d
  PROVE  \/ Reached(v, {a, b, c, d}) = 0 /\ Below(v, a)
         \/ Reached(v, {a, b, c, d}) = 1 /\ ~Below(v, a) /\ Below(v, b)
         \/ Reached(v, {a, b, c, d}) = 2 /\ ~Below(v, b) /\ Below(v, c)
         \/ Reached(v, {a, b, c, d}) = 3 /\ ~Below(v, c) /\ Below(v, d)
         \/ Reached(v, {a, b, c, d}) = 4 /\ ~Below(v, d)
  <1> DEFINE R == {k \in {a, b, c, d} : ~Below(v, k)}
  <1>1. Below(v, a) => Below(v, b)
    BY BelowMore
  <1>2. Below(v, b) => Below(v, c)
    BY BelowMore
  <1>3. Below(v, c) => Below(v, d)
    BY BelowMore
  <1>4. /\ Below(v, a) => R = {}
        /\ ~Below(v, a) /\ Below(v, b) => R = {a}
        /\ ~Below(v, b) /\ Below(v, c) => R = {b, a}
        /\ ~Below(v, c) /\ Below(v, d) => R = {c, b, a}
        /\ ~Below(v, d) => R = {d, c, b, a}
    BY <1>1, <1>2, <1>3
  <1>5. /\ Cardinality({}) = 0 /\ Cardinality({a}) = 1 /\ Cardinality({b, a}) = 2
        /\ Cardinality({c, b, a}) = 3 /\ Cardinality({d, c, b, a}) = 4
    <2>1. a # b /\ a # c /\ b # c /\ d # a /\ d # b /\ d # c
      OBVIOUS
    <2>2. /\ Cardinality({}) = 0 /\ Cardinality({a}) = 1 /\ Cardinality({b, a}) = 2
          /\ Cardinality({c, b, a}) = 3 /\ IsFiniteSet({c, b, a})
      BY <2>1, CardsThree, Zenon
    <2>3. Cardinality({d, c, b, a}) = 4
      <3> DEFINE C == {c, b, a}
      <3>1. d \notin C /\ C \cup {d} = {d, c, b, a} /\ IsFiniteSet(C) /\ Cardinality(C) = 3
        BY <2>1, <2>2
      <3> HIDE DEF C
      <3>2. Cardinality(C \cup {d}) = Cardinality(C) + 1
        BY <3>1, FS_AddElement
      <3>3. 3 + 1 = 4
        OBVIOUS
      <3> QED BY <3>1, <3>2, <3>3, Zenon
    <2> QED BY <2>2, <2>3
  <1>6. Reached(v, {a, b, c, d}) = Cardinality(R)
    BY DEF Reached
  <1> HIDE DEF R
  <1>7. CASE Below(v, a)
    BY <1>4, <1>5, <1>6, <1>7
  <1>8. CASE ~Below(v, a) /\ Below(v, b)
    BY <1>4, <1>5, <1>6, <1>8
  <1>9. CASE ~Below(v, b) /\ Below(v, c)
    BY <1>4, <1>5, <1>6, <1>9
  <1>10. CASE ~Below(v, c) /\ Below(v, d)
    BY <1>4, <1>5, <1>6, <1>10
  <1>11. CASE ~Below(v, d)
    BY <1>4, <1>5, <1>6, <1>11
  <1> QED BY <1>1, <1>2, <1>3, <1>7, <1>8, <1>9, <1>10, <1>11

(* The same for three, and for one. *)
LEMMA ReachedThree ==
  ASSUME NEW v, NEW a \in Nat, NEW b \in Nat, NEW c \in Nat, a < b, b < c
  PROVE  \/ Reached(v, {a, b, c}) = 0 /\ Below(v, a)
         \/ Reached(v, {a, b, c}) = 1 /\ ~Below(v, a) /\ Below(v, b)
         \/ Reached(v, {a, b, c}) = 2 /\ ~Below(v, b) /\ Below(v, c)
         \/ Reached(v, {a, b, c}) = 3 /\ ~Below(v, c)
  <1> DEFINE R == {k \in {a, b, c} : ~Below(v, k)}
  <1>1. Below(v, a) => Below(v, b)
    BY BelowMore
  <1>2. Below(v, b) => Below(v, c)
    BY BelowMore
  <1>4. /\ Below(v, a) => R = {}
        /\ ~Below(v, a) /\ Below(v, b) => R = {a}
        /\ ~Below(v, b) /\ Below(v, c) => R = {b, a}
        /\ ~Below(v, c) => R = {c, b, a}
    BY <1>1, <1>2
  <1>5. /\ Cardinality({}) = 0 /\ Cardinality({a}) = 1 /\ Cardinality({b, a}) = 2
        /\ Cardinality({c, b, a}) = 3
    <2>1. a # b /\ a # c /\ b # c
      OBVIOUS
    <2>2. /\ Cardinality({}) = 0 /\ Cardinality({a}) = 1 /\ Cardinality({b, a}) = 2
          /\ Cardinality({c, b, a}) = 3 /\ IsFiniteSet({c, b, a})
      BY <2>1, CardsThree, Zenon
    <2> QED BY <2>2
  <1>6. Reached(v, {a, b, c}) = Cardinality(R)
    BY DEF Reached
  <1> HIDE DEF R
  <1>7. CASE Below(v, a)
    BY <1>4, <1>5, <1>6, <1>7
  <1>8. CASE ~Below(v, a) /\ Below(v, b)
    BY <1>4, <1>5, <1>6, <1>8
  <1>9. CASE ~Below(v, b) /\ Below(v, c)
    BY <1>4, <1>5, <1>6, <1>9
  <1>10. CASE ~Below(v, c)
    BY <1>4, <1>5, <1>6, <1>10
  <1> QED BY <1>1, <1>2, <1>7, <1>8, <1>9, <1>10

(* One threshold is reached or not. *)
LEMMA ReachedOne ==
  ASSUME NEW v, NEW a
  PROVE  \/ Reached(v, {a}) = 0 /\ Below(v, a)
         \/ Reached(v, {a}) = 1 /\ ~Below(v, a)
  <1> DEFINE R == {k \in {a} : ~Below(v, k)}
  <1>1. (Below(v, a) => R = {}) /\ (~Below(v, a) => R = {a})
    OBVIOUS
  <1>2. Cardinality({}) = 0 /\ Cardinality({a}) = 1
    BY FS_EmptySet, FS_Singleton
  <1>3. Reached(v, {a}) = Cardinality(R)
    BY DEF Reached
  <1> HIDE DEF R
  <1> QED BY <1>1, <1>2, <1>3

\* n is the number of groups of seven bits that v needs.
Needs(v, n) == n \in Nat \ {0} /\ Below(v, 7 * n) /\ (n # 1 => ~Below(v, 7 * (n - 1)))

(* There is one such number. *)
LEMMA NeedsOne ==
  ASSUME NEW v, NEW n, NEW m, Needs(v, n), Needs(v, m)
  PROVE  n = m
  <1>1. n \in Nat \ {0} /\ m \in Nat \ {0}
    BY DEF Needs
  <1>2. ASSUME n < m PROVE FALSE
    <2>1. 7 * n <= 7 * (m - 1) /\ m # 1 /\ 7 * n \in Nat /\ 7 * (m - 1) \in Nat
      BY <1>1, <1>2
    <2> QED BY <2>1, BelowMore DEF Needs
  <1>3. ASSUME m < n PROVE FALSE
    <2>1. 7 * m <= 7 * (n - 1) /\ n # 1 /\ 7 * m \in Nat /\ 7 * (n - 1) \in Nat
      BY <1>1, <1>3
    <2> QED BY <2>1, BelowMore DEF Needs
  <1> QED BY <1>1, <1>2, <1>3

(* The sizes that the thresholds give. *)
LEMMA Size32Is ==
  ASSUME NEW v, Below(v, 35)
  PROVE  Needs(v, 1 + Reached(v, {7, 14, 21, 28})) /\ 1 + Reached(v, {7, 14, 21, 28}) \in 1..5
  <1> DEFINE r == Reached(v, {7, 14, 21, 28})
  <1>1. \/ r = 0 /\ Below(v, 7)
        \/ r = 1 /\ ~Below(v, 7) /\ Below(v, 14)
        \/ r = 2 /\ ~Below(v, 14) /\ Below(v, 21)
        \/ r = 3 /\ ~Below(v, 21) /\ Below(v, 28)
        \/ r = 4 /\ ~Below(v, 28)
    BY ReachedFour
  <1> HIDE DEF r
  <1>2. /\ 7 * 1 = 7 /\ 7 * 2 = 14 /\ 7 * 3 = 21 /\ 7 * 4 = 28 /\ 7 * 5 = 35
    OBVIOUS
  <1>3. \/ 1 + r = 1 /\ Below(v, 7 * 1)
        \/ 1 + r = 2 /\ ~Below(v, 7 * 1) /\ Below(v, 7 * 2)
        \/ 1 + r = 3 /\ ~Below(v, 7 * 2) /\ Below(v, 7 * 3)
        \/ 1 + r = 4 /\ ~Below(v, 7 * 3) /\ Below(v, 7 * 4)
        \/ 1 + r = 5 /\ ~Below(v, 7 * 4) /\ Below(v, 7 * 5)
    BY <1>1, <1>2
  <1>4. 2 - 1 = 1 /\ 3 - 1 = 2 /\ 4 - 1 = 3 /\ 5 - 1 = 4
    OBVIOUS
  <1>5. Needs(v, 1 + r)
    BY <1>3, <1>4 DEF Needs
  <1> QED BY <1>3, <1>5 DEF r

\* The part of v that begins at the bit s.
From(v, s) == Cast(Shr(v, s), 32)

(* It has the bits from there on. *)
LEMMA FromIs ==
  ASSUME NEW v \in SUBSET Nat, NEW s \in Nat, NEW x
  PROVE  x \in From(v, s) <=> x \in Nat /\ x < 32 /\ x + s \in v
  <1>1. x \in From(v, s) <=> x \in Shr(v, s) /\ x \in 0..31
    BY DEF From, Cast, Bits
  <1> QED BY <1>1, ShrIs

(* If it is all that is left, it is below what v is below. *)
LEMMA FromBelow ==
  ASSUME NEW v \in SUBSET Nat, NEW s \in Nat, NEW k \in Nat, Below(v, s + 32)
  PROVE  Below(From(v, s), k) <=> Below(v, s + k)
  <1>1. ASSUME Below(v, s + k) PROVE Below(From(v, s), k)
    <2>1. ASSUME NEW x \in From(v, s) PROVE x \in Bits(k)
      <3>1. x \in Nat /\ x + s \in v
        BY FromIs
      <3>2. x + s \in 0..((s + k) - 1)
        BY <1>1, <3>1 DEF Below, Bits
      <3> QED BY <3>1, <3>2 DEF Bits
    <2> QED BY <2>1 DEF Below
  <1>2. ASSUME Below(From(v, s), k) PROVE Below(v, s + k)
    <2>1. ASSUME NEW y \in v PROVE y \in Bits(s + k)
      <3>1. y \in Nat /\ y < s + 32
        BY DEF Below, Bits
      <3>2. CASE y < s
        BY <3>1, <3>2 DEF Bits
      <3>3. CASE ~(y < s)
        <4>1. y - s \in Nat /\ y - s < 32 /\ (y - s) + s = y
          BY <3>1, <3>3
        <4>2. y - s \in From(v, s)
          BY <4>1, FromIs
        <4>3. y - s \in 0..(k - 1)
          BY <1>2, <4>2 DEF Below, Bits
        <4> QED BY <3>1, <4>3 DEF Bits
      <3> QED BY <3>2, <3>3
    <2> QED BY <2>1 DEF Below
  <1> QED BY <1>1, <1>2

(* The parts that WriteVarint64 takes v apart into. *)
LEMMA PartsAre ==
  ASSUME NEW v \in SUBSET Nat
  PROVE  /\ Parts(v)[1] = From(v, 0) /\ Parts(v)[2] = From(v, 28) /\ Parts(v)[3] = From(v, 56)
  <1>1. Shr(v, 0) = v
    <2>1. \A x : x \in Shr(v, 0) <=> x \in Nat /\ x + 0 \in v
      BY ShrIs
    <2>2. \A x \in Nat : x + 0 = x
      OBVIOUS
    <2>3. \A x : x \in Shr(v, 0) <=> x \in v
      BY <2>1, <2>2
    <2> QED BY <2>3
  <1>2. Parts(v) = <<From(v, 0), From(v, 28), From(v, 56)>>
    BY <1>1 DEF Parts, From
  <1> QED BY <1>2

(* The search tree of WriteVarint64 finds the size, *)
LEMMA WrittenSizeIs ==
  ASSUME NEW v \in SUBSET Bits(64)
  PROVE  Needs(v, WrittenSize64(v)) /\ WrittenSize64(v) \in 1..10
  <1> DEFINE w == WrittenSize64(v)
             p1 == From(v, 0)
             p2 == From(v, 28)
             p3 == From(v, 56)
  <1>1. v \in SUBSET Nat /\ Below(v, 64) /\ Below(v, 70) /\ Below(v, 56 + 32)
    BY DEF Below, Bits
  <1>2. w = IF p3 # {} THEN 9 + Reached(p3, {7})
            ELSE IF p2 # {} THEN 5 + Reached(p2, {7, 14, 21})
            ELSE 1 + Reached(p1, {7, 14, 21})
    BY <1>1, PartsAre DEF WrittenSize64
  <1>3. (p3 = {} <=> Below(v, 56)) /\ (Below(p3, 7) <=> Below(v, 63))
    <2>1. (Below(p3, 0) <=> Below(v, 56 + 0)) /\ (Below(p3, 7) <=> Below(v, 56 + 7))
      BY <1>1, FromBelow
    <2>2. p3 = {} <=> Below(p3, 0)
      BY DEF Below, Bits
    <2>3. 56 + 0 = 56 /\ 56 + 7 = 63
      OBVIOUS
    <2> HIDE DEF p3
    <2> QED BY <2>1, <2>2, <2>3
  <1>4. ASSUME Below(v, 56)
        PROVE  /\ p2 = {} <=> Below(v, 28)
               /\ Below(p2, 7) <=> Below(v, 35)
               /\ Below(p2, 14) <=> Below(v, 42)
               /\ Below(p2, 21) <=> Below(v, 49)
    <2>0. Below(v, 28 + 32)
      BY <1>4 DEF Below, Bits
    <2>1. /\ Below(p2, 0) <=> Below(v, 28 + 0)
          /\ Below(p2, 7) <=> Below(v, 28 + 7)
          /\ Below(p2, 14) <=> Below(v, 28 + 14)
          /\ Below(p2, 21) <=> Below(v, 28 + 21)
      BY <1>1, <2>0, FromBelow
    <2>2. p2 = {} <=> Below(p2, 0)
      BY DEF Below, Bits
    <2>3. 28 + 0 = 28 /\ 28 + 7 = 35 /\ 28 + 14 = 42 /\ 28 + 21 = 49
      OBVIOUS
    <2> HIDE DEF p2
    <2> QED BY <2>1, <2>2, <2>3
  <1>5. ASSUME Below(v, 28)
        PROVE  /\ Below(p1, 7) <=> Below(v, 7)
               /\ Below(p1, 14) <=> Below(v, 14)
               /\ Below(p1, 21) <=> Below(v, 21)
    <2>0. Below(v, 0 + 32)
      BY <1>5 DEF Below, Bits
    <2>1. /\ Below(p1, 7) <=> Below(v, 0 + 7)
          /\ Below(p1, 14) <=> Below(v, 0 + 14)
          /\ Below(p1, 21) <=> Below(v, 0 + 21)
      BY <1>1, <2>0, FromBelow
    <2>3. 0 + 7 = 7 /\ 0 + 14 = 14 /\ 0 + 21 = 21
      OBVIOUS
    <2> HIDE DEF p1
    <2> QED BY <2>1, <2>3
  <1> HIDE DEF p1, p2, p3, w
  <1>6. /\ 7 * 1 = 7 /\ 7 * 2 = 14 /\ 7 * 3 = 21 /\ 7 * 4 = 28 /\ 7 * 5 = 35
        /\ 7 * 6 = 42 /\ 7 * 7 = 49 /\ 7 * 8 = 56 /\ 7 * 9 = 63 /\ 7 * 10 = 70
    OBVIOUS
  <1>7. \/ w = 1 /\ Below(v, 7)
        \/ w = 2 /\ ~Below(v, 7) /\ Below(v, 14)
        \/ w = 3 /\ ~Below(v, 14) /\ Below(v, 21)
        \/ w = 4 /\ ~Below(v, 21) /\ Below(v, 28)
        \/ w = 5 /\ ~Below(v, 28) /\ Below(v, 35)
        \/ w = 6 /\ ~Below(v, 35) /\ Below(v, 42)
        \/ w = 7 /\ ~Below(v, 42) /\ Below(v, 49)
        \/ w = 8 /\ ~Below(v, 49) /\ Below(v, 56)
        \/ w = 9 /\ ~Below(v, 56) /\ Below(v, 63)
        \/ w = 10 /\ ~Below(v, 63) /\ Below(v, 70)
    <2>1. CASE p3 # {}
      <3> DEFINE r == Reached(p3, {7})
      <3>1. (r = 0 /\ Below(p3, 7)) \/ (r = 1 /\ ~Below(p3, 7))
        BY ReachedOne
      <3>2. w = 9 + r
        BY <1>2, <2>1
      <3> HIDE DEF r
      <3> QED BY <1>1, <1>3, <2>1, <3>1, <3>2
    <2>2. CASE p3 = {} /\ p2 # {}
      <3> DEFINE r == Reached(p2, {7, 14, 21})
      <3>1. \/ r = 0 /\ Below(p2, 7)
            \/ r = 1 /\ ~Below(p2, 7) /\ Below(p2, 14)
            \/ r = 2 /\ ~Below(p2, 14) /\ Below(p2, 21)
            \/ r = 3 /\ ~Below(p2, 21)
        BY ReachedThree
      <3>2. w = 5 + r
        BY <1>2, <2>2
      <3> HIDE DEF r
      <3> QED BY <1>3, <1>4, <2>2, <3>1, <3>2
    <2>3. CASE p3 = {} /\ p2 = {}
      <3> DEFINE r == Reached(p1, {7, 14, 21})
      <3>1. \/ r = 0 /\ Below(p1, 7)
            \/ r = 1 /\ ~Below(p1, 7) /\ Below(p1, 14)
            \/ r = 2 /\ ~Below(p1, 14) /\ Below(p1, 21)
            \/ r = 3 /\ ~Below(p1, 21)
        BY ReachedThree
      <3>2. w = 1 + r
        BY <1>2, <2>3
      <3>3. Below(v, 28)
        BY <1>3, <1>4, <2>3
      <3> HIDE DEF r
      <3> QED BY <1>5, <3>1, <3>2, <3>3
    <2> QED BY <2>1, <2>2, <2>3
  <1>8. w \in 1..10 /\ Needs(v, w)
    <2>1. /\ 2 - 1 = 1 /\ 3 - 1 = 2 /\ 4 - 1 = 3 /\ 5 - 1 = 4 /\ 6 - 1 = 5 /\ 7 - 1 = 6
          /\ 8 - 1 = 7 /\ 9 - 1 = 8 /\ 10 - 1 = 9
      OBVIOUS
    <2> QED BY <1>6, <1>7, <2>1 DEF Needs
  <1> QED BY <1>8 DEF w

(* and so does VarintSize64. *)
LEMMA Size64Is ==
  ASSUME NEW v \in SUBSET Bits(64)
  PROVE  Needs(v, VarintSize64(v))
  <1>1. Below(v, 70)
    BY DEF Below, Bits
  <1>2. CASE Below(v, 35)
    BY <1>2, Size32Is DEF VarintSize64
  <1>3. CASE ~Below(v, 35)
    <2> DEFINE r == Reached(v, {42, 49, 56, 63})
    <2>1. \/ r = 0 /\ Below(v, 42)
          \/ r = 1 /\ ~Below(v, 42) /\ Below(v, 49)
          \/ r = 2 /\ ~Below(v, 49) /\ Below(v, 56)
          \/ r = 3 /\ ~Below(v, 56) /\ Below(v, 63)
          \/ r = 4 /\ ~Below(v, 63)
      BY ReachedFour
    <2>2. VarintSize64(v) = 6 + r
      BY <1>3 DEF VarintSize64
    <2> HIDE DEF r
    <2>3. /\ 7 * 5 = 35 /\ 7 * 6 = 42 /\ 7 * 7 = 49 /\ 7 * 8 = 56 /\ 7 * 9 = 63 /\ 7 * 10 = 70
          /\ 6 - 1 = 5 /\ 7 - 1 = 6 /\ 8 - 1 = 7 /\ 9 - 1 = 8 /\ 10 - 1 = 9
      OBVIOUS
    <2>4. \/ 6 + r = 6 /\ ~Below(v, 7 * 5) /\ Below(v, 7 * 6)
          \/ 6 + r = 7 /\ ~Below(v, 7 * 6) /\ Below(v, 7 * 7)
          \/ 6 + r = 8 /\ ~Below(v, 7 * 7) /\ Below(v, 7 * 8)
          \/ 6 + r = 9 /\ ~Below(v, 7 * 8) /\ Below(v, 7 * 9)
          \/ 6 + r = 10 /\ ~Below(v, 7 * 9) /\ Below(v, 7 * 10)
      BY <1>1, <1>3, <2>1, <2>3
    <2> QED BY <2>2, <2>3, <2>4 DEF Needs
  <1> QED BY <1>2, <1>3

(* Groups that are marked, and the last one unmarked, are a varint. *)
LEMMA Unmarked ==
  ASSUME NEW v, NEW n \in Nat \ {0}, NEW f, f \in [1..n -> SUBSET Nat],
         \A i \in 1..n : f[i] \ {7} = Digit(v, i) /\ 7 \in f[i]
  PROVE  VarintOf(WithLastUnmarked(f), v, n)
  <1> DEFINE g == WithLastUnmarked(f)
  <1>1. Len(f) = n /\ f \in Seq(SUBSET Nat) /\ n \in 1..n
    OBVIOUS
  <1>2. g = [f EXCEPT ![n] = f[n] \ {7}]
    BY <1>1 DEF WithLastUnmarked
  <1> HIDE DEF g
  <1>3. /\ g \in [1..n -> SUBSET Nat] /\ g[n] = f[n] \ {7}
        /\ \A i \in 1..n : i # n => g[i] = f[i]
    BY <1>1, <1>2
  <1>4. g \in Seq(SUBSET Nat) /\ Len(g) = n
    BY <1>3
  <1>5. \A i \in 1..n : g[i] \ {7} = Digit(v, i)
    <2> SUFFICES ASSUME NEW i \in 1..n PROVE g[i] \ {7} = Digit(v, i)
      OBVIOUS
    <2>1. (f[n] \ {7}) \ {7} = f[n] \ {7}
      OBVIOUS
    <2> QED BY <1>1, <1>3, <2>1
  <1>6. \A i \in 1..n : 7 \in g[i] <=> i # n
    BY <1>3
  <1> QED BY <1>4, <1>5, <1>6 DEF VarintOf, g

(* A group has seven bits and the mark. *)
LEMMA GroupIs ==
  ASSUME NEW v \in SUBSET Nat, NEW k \in Nat
  PROVE  /\ Group(v, k) \in SUBSET Nat /\ 7 \in Group(v, k)
         /\ \A x : x \in Group(v, k) \ {7} <=> x \in 0..6 /\ x + k \in v
  <1>1. \A x : x \in Group(v, k) <=> x = 7 \/ (x \in Shr(v, k) /\ x \in 0..7)
    BY DEF Group, Cast, Bits
  <1>2. \A x : x \in Shr(v, k) <=> x \in Nat /\ x + k \in v
    BY ShrIs
  <1>3. \A x : x \in Group(v, k) \ {7} <=> x \in 0..6 /\ x + k \in v
    <2> SUFFICES ASSUME NEW x
                 PROVE  x \in Group(v, k) \ {7} <=> x \in 0..6 /\ x + k \in v
      OBVIOUS
    <2>1. x \in 0..7 /\ x # 7 <=> x \in 0..6
      OBVIOUS
    <2> QED BY <1>1, <1>2, <2>1
  <1> QED BY <1>1, <1>3

(* WriteVarint32 writes a varint, *)
LEMMA Writes32 ==
  ASSUME NEW v \in SUBSET Bits(32)
  PROVE  \E n \in 1..5 : /\ VarintOf(WriteVarint32(v), v, n) /\ Below(v, 7 * n)
                         /\ n = VarintSize32(v)
  <1> DEFINE n == VarintSize32(v)
             f == [i \in 1..n |-> Group(v, 7 * (i - 1))]
  <1>1. v \in SUBSET Nat /\ Below(v, 35)
    BY DEF Below, Bits
  <1>2. Needs(v, n) /\ n \in 1..5
    BY <1>1, Size32Is DEF VarintSize32
  <1>3. WriteVarint32(v) = WithLastUnmarked(f)
    BY DEF WriteVarint32, VarintSize32
  <1> HIDE DEF n
  <1>4. ASSUME NEW i \in 1..n
        PROVE  /\ f[i] \in SUBSET Nat /\ 7 \in f[i]
               /\ f[i] \ {7} = Digit(v, i)
    <2>1. 7 * (i - 1) \in Nat /\ f[i] = Group(v, 7 * (i - 1))
      BY <1>2
    <2>2. \A x : x \in f[i] \ {7} <=> x \in 0..6 /\ x + 7 * (i - 1) \in v
      BY <1>1, <2>1, GroupIs
    <2>3. \A x \in 0..6 : x + 7 * (i - 1) = 7 * (i - 1) + x
      BY <1>2
    <2>4. \A x : x \in f[i] \ {7} <=> x \in Digit(v, i)
      BY <2>2, <2>3 DEF Digit
    <2>5. f[i] \in SUBSET Nat /\ 7 \in f[i]
      BY <1>1, <2>1, GroupIs
    <2> QED BY <2>4, <2>5
  <1>5. f \in [1..n -> SUBSET Nat]
    BY <1>4
  <1> HIDE DEF f
  <1>6. VarintOf(WithLastUnmarked(f), v, n)
    BY <1>2, <1>4, <1>5, Unmarked
  <1> QED BY <1>2, <1>3, <1>6 DEF Needs, n

(* and WriteVarint64 does. *)
LEMMA Writes64 ==
  ASSUME NEW v \in SUBSET Bits(64)
  PROVE  \E n \in 1..10 : /\ VarintOf(WriteVarint64(v), v, n) /\ Below(v, 7 * n)
                          /\ n = VarintSize64(v)
  <1> DEFINE n == WrittenSize64(v)
             f == [i \in 1..n |-> Group(Parts(v)[1 + (i - 1) \div 4], 7 * ((i - 1) % 4))]
  <1>1. v \in SUBSET Nat
    BY DEF Bits
  <1>2. Needs(v, n) /\ n \in 1..10
    BY WrittenSizeIs
  <1>3. WriteVarint64(v) = WithLastUnmarked(f)
    BY DEF WriteVarint64
  <1>s. n = VarintSize64(v)
    BY <1>2, Size64Is, NeedsOne
  <1> HIDE DEF n
  <1>4. ASSUME NEW i \in 1..n
        PROVE  /\ f[i] \in SUBSET Nat /\ 7 \in f[i]
               /\ f[i] \ {7} = Digit(v, i)
    <2> DEFINE q == (i - 1) \div 4
               j == (i - 1) % 4
               part == From(v, 28 * q)
    <2>1. q \in 0..2 /\ j \in 0..3 /\ i - 1 = 4 * q + j
      BY <1>2
    <2>2. f[i] = Group(Parts(v)[1 + q], 7 * j)
      OBVIOUS
    <2> HIDE DEF q, j, f
    <2>3. Parts(v)[1 + q] = part
      <3>1. q = 0 \/ q = 1 \/ q = 2
        BY <2>1
      <3>2. CASE q = 0
        <4>1. 1 + q = 1 /\ 28 * q = 0
          BY <3>2
        <4> QED BY <1>1, <4>1, PartsAre
      <3>3. CASE q = 1
        <4>1. 1 + q = 2 /\ 28 * q = 28
          BY <3>3
        <4> QED BY <1>1, <4>1, PartsAre
      <3>4. CASE q = 2
        <4>1. 1 + q = 3 /\ 28 * q = 56
          BY <3>4
        <4> QED BY <1>1, <4>1, PartsAre
      <3> QED BY <3>1, <3>2, <3>3, <3>4
    <2>4. \A x : x \in part <=> x \in Nat /\ x < 32 /\ x + 28 * q \in v
      <3>1. 28 * q \in Nat
        BY <2>1
      <3> QED BY <1>1, <3>1, FromIs
    <2> HIDE DEF part
    <2>5. part \in SUBSET Nat /\ 7 * j \in Nat
      BY <2>1, <2>4
    <2>6. /\ f[i] \in SUBSET Nat /\ 7 \in f[i]
          /\ \A x : x \in f[i] \ {7} <=> x \in 0..6 /\ x + 7 * j \in part
      BY <2>2, <2>3, <2>5, GroupIs
    <2>7. \A x \in 0..6 : x + 7 * j \in part <=> 7 * (i - 1) + x \in v
      <3> SUFFICES ASSUME NEW x \in 0..6
                   PROVE  x + 7 * j \in part <=> 7 * (i - 1) + x \in v
        OBVIOUS
      <3>1. /\ x + 7 * j \in Nat /\ x + 7 * j < 32
            /\ (x + 7 * j) + 28 * q = 7 * (i - 1) + x
        BY <1>2, <2>1
      <3> QED BY <2>4, <3>1
    <2>8. \A x : x \in f[i] \ {7} <=> x \in Digit(v, i)
      BY <2>6, <2>7 DEF Digit
    <2> QED BY <2>6, <2>8
  <1>5. f \in [1..n -> SUBSET Nat]
    BY <1>4
  <1> HIDE DEF f
  <1>6. VarintOf(WithLastUnmarked(f), v, n)
    BY <1>2, <1>4, <1>5, Unmarked
  <1> QED BY <1>2, <1>3, <1>6, <1>s DEF Needs

(* A varint of 32 bits is read back, *)
LEMMA Reads32 ==
  ASSUME NEW v \in SUBSET Bits(32), NEW bytes, NEW n \in 1..5, VarintOf(bytes, v, n), Below(v, 7 * n)
  PROVE  /\ ReadVarint32(bytes) = [size |-> Len(bytes), value |-> v]
         /\ \A m \in 0..(Len(bytes) - 1) : ReadVarint32(SubSeq(bytes, 1, m)) = Corrupt
  <1> DEFINE g == [i \in 1..n |-> Digit(v, i)]
  <1>1. v \in SUBSET Nat /\ n \in Nat \ {0} /\ n <= 5 /\ Len(bytes) = n
    BY DEF Bits, VarintOf
  <1>n. 1 \in Nat \ {0} /\ 5 \in Nat /\ n \in Nat
    OBVIOUS
  <1>2. Groups(bytes, 5) = g
    BY <1>1, GroupsOf
  <1>3. Part(g, 1, 5) = v
    <2>1. ASSUME NEW x PROVE x \in Part(g, 1, 5) <=> x \in v
      <3>1. x \in Part(g, 1, 5)
              <=> /\ x \in Nat /\ x < 32 /\ x + 7 * (1 - 1) \in v
                  /\ x < 7 * ((5 - 1) + 1) /\ x < 7 * ((n - 1) + 1)
        BY <1>1, <1>n, PartOf, Zenon
      <3>2. x \in v => x \in Nat /\ x < 32 /\ x < 7 * n
        BY <1>1 DEF Below, Bits
      <3>3. 7 * ((5 - 1) + 1) = 35 /\ 7 * ((n - 1) + 1) = 7 * n /\ 7 * (1 - 1) = 0
        BY <1>1
      <3>4. x \in Nat => x + 0 = x /\ (x < 32 => x < 35)
        OBVIOUS
      <3> HIDE DEF g
      <3> QED BY <3>1, <3>2, <3>3, <3>4
    <2> QED BY <2>1
  <1>4. g # <<>> /\ Len(g) = n
    <2>1. Len(g) = n
      BY <1>1
    <2> HIDE DEF g
    <2> QED BY <1>1, <2>1
  <1>5. ASSUME NEW m \in 0..(Len(bytes) - 1) PROVE ReadVarint32(SubSeq(bytes, 1, m)) = Corrupt
    <2>1. Groups(SubSeq(bytes, 1, m), 5) = <<>>
      BY <1>1, CutIsEndless
    <2> QED BY <2>1 DEF ReadVarint32, Read
  <1> HIDE DEF g
  <1>6. ReadVarint32(bytes) = [size |-> Len(bytes), value |-> v]
    BY <1>1, <1>2, <1>3, <1>4 DEF ReadVarint32, Read
  <1> QED BY <1>5, <1>6

(* and so is one of 64 bits. *)
LEMMA Reads64 ==
  ASSUME NEW v \in SUBSET Bits(64), NEW bytes, NEW n \in 1..10, VarintOf(bytes, v, n),
         Below(v, 7 * n)
  PROVE  /\ ReadVarint64(bytes) = [size |-> Len(bytes), value |-> v]
         /\ \A m \in 0..(Len(bytes) - 1) : ReadVarint64(SubSeq(bytes, 1, m)) = Corrupt
  <1> DEFINE g == [i \in 1..n |-> Digit(v, i)]
             a == Part(g, 1, 4)
             b == Part(g, 5, 8)
             c == Part(g, 9, 10)
             all == a \cup Shl(b, 28, 64) \cup Shl(c, 56, 64)
  <1>1. v \in SUBSET Nat /\ n \in Nat \ {0} /\ n <= 10 /\ Len(bytes) = n
    BY DEF Bits, VarintOf
  <1>n. /\ 1 \in Nat \ {0} /\ 5 \in Nat \ {0} /\ 9 \in Nat \ {0}
        /\ 4 \in Nat /\ 8 \in Nat /\ 10 \in Nat /\ n \in Nat
    OBVIOUS
  <1>2. Groups(bytes, 10) = g
    BY <1>1, GroupsOf
  <1>3. \A x : x \in a <=> x \in Nat /\ x < 28 /\ x \in v /\ x < 7 * n
    <2> SUFFICES ASSUME NEW x PROVE x \in a <=> x \in Nat /\ x < 28 /\ x \in v /\ x < 7 * n
      OBVIOUS
    <2>1. x \in a <=> /\ x \in Nat /\ x < 32 /\ x + 7 * (1 - 1) \in v
                      /\ x < 7 * ((4 - 1) + 1) /\ x < 7 * ((n - 1) + 1)
      BY <1>1, <1>n, PartOf, Zenon
    <2> HIDE DEF a
    <2>2. 7 * ((4 - 1) + 1) = 28 /\ 7 * ((n - 1) + 1) = 7 * n /\ 7 * (1 - 1) = 0
      BY <1>1
    <2>3. x \in Nat => x + 0 = x /\ (x < 28 => x < 32)
      OBVIOUS
    <2> QED BY <2>1, <2>2, <2>3
  <1>4. \A x : x \in b <=> x \in Nat /\ x < 28 /\ x + 28 \in v /\ x + 28 < 7 * n
    <2> SUFFICES ASSUME NEW x
                 PROVE  x \in b <=> x \in Nat /\ x < 28 /\ x + 28 \in v /\ x + 28 < 7 * n
      OBVIOUS
    <2>1. x \in b <=> /\ x \in Nat /\ x < 32 /\ x + 7 * (5 - 1) \in v
                      /\ x < 7 * ((8 - 5) + 1) /\ x < 7 * ((n - 5) + 1)
      BY <1>1, <1>n, PartOf, Zenon
    <2> HIDE DEF b
    <2>2. 7 * ((8 - 5) + 1) = 28 /\ 7 * ((n - 5) + 1) = 7 * n - 28 /\ 7 * (5 - 1) = 28
      BY <1>1
    <2>3. x \in Nat => (x < 28 => x < 32) /\ (x < 7 * n - 28 <=> x + 28 < 7 * n)
      BY <1>1
    <2> QED BY <2>1, <2>2, <2>3
  <1>5. \A x : x \in c <=> x \in Nat /\ x < 14 /\ x + 56 \in v /\ x + 56 < 7 * n
    <2> SUFFICES ASSUME NEW x
                 PROVE  x \in c <=> x \in Nat /\ x < 14 /\ x + 56 \in v /\ x + 56 < 7 * n
      OBVIOUS
    <2>1. x \in c <=> /\ x \in Nat /\ x < 32 /\ x + 7 * (9 - 1) \in v
                      /\ x < 7 * ((10 - 9) + 1) /\ x < 7 * ((n - 9) + 1)
      BY <1>1, <1>n, PartOf, Zenon
    <2> HIDE DEF c
    <2>2. 7 * ((10 - 9) + 1) = 14 /\ 7 * ((n - 9) + 1) = 7 * n - 56 /\ 7 * (9 - 1) = 56
      BY <1>1
    <2>3. x \in Nat => (x < 14 => x < 32) /\ (x < 7 * n - 56 <=> x + 56 < 7 * n)
      BY <1>1
    <2> QED BY <2>1, <2>2, <2>3
  <1>6. a \in SUBSET Nat /\ b \in SUBSET Nat /\ c \in SUBSET Nat
    <2> HIDE DEF a, b, c
    <2> QED BY <1>3, <1>4, <1>5
  <1> HIDE DEF a, b, c
  <1>7. ASSUME NEW x PROVE x \in all <=> x \in v
    <2>1. x \in Shl(b, 28, 64) <=> x \in Nat /\ x < 64 /\ 28 <= x /\ x - 28 \in b
      BY <1>6, ShlIs
    <2>2. x \in Shl(c, 56, 64) <=> x \in Nat /\ x < 64 /\ 56 <= x /\ x - 56 \in c
      BY <1>6, ShlIs
    <2>3. x \in v => x \in Nat /\ x < 64 /\ x < 7 * n
      BY <1>1 DEF Below, Bits
    <2>4. ASSUME x \in Nat, 28 <= x
          PROVE  x - 28 \in b <=> x < 56 /\ x \in v /\ x < 7 * n
      <3>1. x - 28 \in Nat /\ (x - 28) + 28 = x /\ (x - 28 < 28 <=> x < 56)
        BY <2>4
      <3> QED BY <1>4, <3>1
    <2>5. ASSUME x \in Nat, 56 <= x
          PROVE  x - 56 \in c <=> x < 70 /\ x \in v /\ x < 7 * n
      <3>1. x - 56 \in Nat /\ (x - 56) + 56 = x /\ (x - 56 < 14 <=> x < 70)
        BY <2>5
      <3> QED BY <1>5, <3>1
    <2>6. x \in a <=> x \in Nat /\ x < 28 /\ x \in v /\ x < 7 * n
      BY <1>3
    <2>7. x \in all <=> x \in a \/ x \in Shl(b, 28, 64) \/ x \in Shl(c, 56, 64)
      OBVIOUS
    <2> HIDE DEF all
    <2>8. x \in Nat /\ x < 64 => x < 28 \/ (28 <= x /\ x < 56) \/ (56 <= x /\ x < 70)
      OBVIOUS
    <2> QED BY <2>1, <2>2, <2>3, <2>4, <2>5, <2>6, <2>7, <2>8
  <1>8. all = v
    BY <1>7
  <1>9. g # <<>> /\ Len(g) = n
    <2>1. Len(g) = n
      BY <1>1
    <2> HIDE DEF g
    <2> QED BY <1>1, <2>1
  <1>10. ASSUME NEW m \in 0..(Len(bytes) - 1) PROVE ReadVarint64(SubSeq(bytes, 1, m)) = Corrupt
    <2>1. Groups(SubSeq(bytes, 1, m), 10) = <<>>
      BY <1>1, CutIsEndless
    <2> QED BY <2>1 DEF ReadVarint64, Read
  <1> HIDE DEF g
  <1>11. ReadVarint64(bytes) = [size |-> Len(bytes), value |-> v]
    BY <1>1, <1>2, <1>8, <1>9 DEF ReadVarint64, Read, a, b, c
  <1> QED BY <1>10, <1>11

-----------------------------------------------------------------------------
(* Zig-zag. *)

(* The sign goes to the lowest bit, and turns the others over. *)
LEMMA ZigZagIs ==
  ASSUME NEW w \in Nat \ {0}, NEW v \in SUBSET Bits(w), NEW x
  PROVE  x \in ZigZagEncode(v, w)
           <=> /\ x \in Nat /\ x < w
               /\ IF w - 1 \in v THEN ~(1 <= x /\ x - 1 \in v) ELSE 1 <= x /\ x - 1 \in v
  <1>1. v \in SUBSET Nat /\ w - 1 \in Nat
    BY DEF Bits
  <1> DEFINE sign == ShrSigned(v, w - 1, w)
             up == Shl(v, 1, w)
  <1>2. x \in up <=> x \in Nat /\ x < w /\ 1 <= x /\ x - 1 \in v
    BY <1>1, ShlIs
  <1>3. x \in Shr(v, w - 1) <=> x = 0 /\ w - 1 \in v
    <2>1. x \in Shr(v, w - 1) <=> x \in Nat /\ x + (w - 1) \in v
      BY <1>1, ShrIs
    <2>2. \A y \in v : y < w
      BY DEF Bits
    <2>3. x \in Nat /\ x + (w - 1) < w => x = 0
      OBVIOUS
    <2>4. 0 + (w - 1) = w - 1
      OBVIOUS
    <2> QED BY <2>1, <2>2, <2>3, <2>4
  <1>4. x \in sign <=> x \in Nat /\ x < w /\ w - 1 \in v
    <2>1. (w - (w - 1))..(w - 1) = 1..(w - 1)
      OBVIOUS
    <2>2. x \in sign <=> x \in Shr(v, w - 1) \/ (w - 1 \in v /\ x \in 1..(w - 1))
      BY <2>1 DEF ShrSigned
    <2>3. x \in Nat /\ x < w <=> x = 0 \/ x \in 1..(w - 1)
      OBVIOUS
    <2> QED BY <1>3, <2>2, <2>3
  <1>5. x \in ZigZagEncode(v, w) <=> ~(x \in up <=> x \in sign)
    BY DEF ZigZagEncode, Xor
  <1> HIDE DEF up, sign
  <1> QED BY <1>2, <1>4, <1>5

(* Decoding gives back what was encoded. *)
LEMMA ZigZagBack ==
  ASSUME NEW w \in Nat \ {0}, NEW v \in SUBSET Bits(w)
  PROVE  /\ ZigZagEncode(v, w) \in SUBSET Bits(w)
         /\ ZigZagDecode(ZigZagEncode(v, w), w) = v
  <1> DEFINE u == ZigZagEncode(v, w)
             back == ZigZagDecode(u, w)
             S == w - 1 \in v
  <1>1. \A x : x \in u <=> /\ x \in Nat /\ x < w
                           /\ IF S THEN ~(1 <= x /\ x - 1 \in v) ELSE 1 <= x /\ x - 1 \in v
    BY ZigZagIs
  <1> HIDE DEF u
  <1>2. u \in SUBSET Nat /\ u \in SUBSET Bits(w)
    BY <1>1 DEF Bits
  <1>3. 0 \in u <=> S
    BY <1>1
  <1>4. \A x : x \in v => x \in Nat /\ x < w
    BY DEF Bits
  <1>5. ASSUME NEW x PROVE x \in back <=> x \in v
    <2>1. x \in Shr(u, 1) <=> x \in Nat /\ x + 1 \in u
      BY <1>2, ShrIs
    <2>2. x \in back <=> ~(x \in Shr(u, 1) <=> (x \in Nat /\ x < w /\ S))
      <3>1. x \in Bits(w) <=> x \in Nat /\ x < w
        BY DEF Bits
      <3>2. x \in back <=> ~(x \in Shr(u, 1) <=> x \in (IF 0 \in u THEN Bits(w) ELSE {}))
        BY DEF ZigZagDecode, Xor
      <3> HIDE DEF back, S
      <3> QED BY <1>3, <3>1, <3>2
    <2>3. x \in Nat => (x + 1 \in u <=> x + 1 < w /\ (IF S THEN x \notin v ELSE x \in v))
      <3> SUFFICES ASSUME x \in Nat
                   PROVE  x + 1 \in u <=> x + 1 < w /\ (IF S THEN x \notin v ELSE x \in v)
        OBVIOUS
      <3>1. x + 1 \in Nat /\ 1 <= x + 1 /\ (x + 1) - 1 = x
        OBVIOUS
      <3> HIDE DEF S
      <3> QED BY <1>1, <3>1
    <2>4. x \in Nat => (x < w <=> x + 1 < w \/ x = w - 1)
      OBVIOUS
    <2>5. x \in Nat => ~(x + 1 < w /\ x = w - 1)
      OBVIOUS
    <2> HIDE DEF back
    <2> QED BY <1>4, <2>1, <2>2, <2>3, <2>4, <2>5
  <1>6. back = v
    BY <1>5
  <1> QED BY <1>2, <1>6 DEF u

(* A small magnitude has a small encoding. *)
LEMMA ZigZagSmall ==
  ASSUME NEW w \in Nat \ {0}, NEW v \in SUBSET Bits(w), NEW k \in Bits(w), SmallMagnitude(v, w, k)
  PROVE  Below(ZigZagEncode(v, w), k + 1)
  <1>1. k \in Nat /\ k < w /\ v \in SUBSET Nat /\ w - 1 \in Bits(w) /\ ~(w - 1 < k)
    BY DEF Bits
  <1>2. ASSUME NEW x \in ZigZagEncode(v, w) PROVE x \in Bits(k + 1)
    <2>1. /\ x \in Nat /\ x < w
          /\ IF w - 1 \in v THEN ~(1 <= x /\ x - 1 \in v) ELSE 1 <= x /\ x - 1 \in v
      BY ZigZagIs
    <2>2. CASE Below(v, k)
      <3>1. w - 1 \notin v
        BY <1>1, <2>2 DEF Below, Bits
      <3>2. x - 1 \in Bits(k) /\ 1 <= x
        BY <2>1, <2>2, <3>1 DEF Below
      <3> QED BY <1>1, <2>1, <3>2 DEF Bits
    <2>3. CASE Below(Bits(w) \ v, k)
      <3>1. w - 1 \in v
        BY <1>1, <2>3 DEF Below, Bits
      <3>2. CASE x = 0
        BY <1>1, <3>2 DEF Bits
      <3>3. CASE 1 <= x
        <4>1. x - 1 \in Bits(w) \ v
          BY <2>1, <3>1, <3>3 DEF Bits
        <4>2. x - 1 \in Bits(k)
          BY <2>3, <4>1 DEF Below
        <4> QED BY <1>1, <2>1, <4>2 DEF Bits
      <3> QED BY <2>1, <3>2, <3>3
    <2> QED BY <2>2, <2>3 DEF SmallMagnitude
  <1> QED BY <1>2 DEF Below

-----------------------------------------------------------------------------
(* Network byte order. *)

(* The bytes that are put are what is got. *)
LEMMA PutGet ==
  ASSUME NEW n \in Nat \ {0}, NEW v \in SUBSET Bits(8 * n)
  PROVE  GetUint(PutUint(v, n)) = v
  <1> DEFINE p == PutUint(v, n)
  <1>1. v \in SUBSET Nat /\ \A x \in v : x < 8 * n
    BY DEF Bits
  <1>2. Len(p) = n /\ \A i \in 1..n : p[i] = Cast(Shr(v, 8 * (n - i)), 8)
    BY DEF PutUint
  <1> HIDE DEF p
  <1>3. ASSUME NEW i \in 1..n, NEW x
        PROVE  x \in p[i] <=> x \in 0..7 /\ x + 8 * (n - i) \in v
    <2>1. 8 * (n - i) \in Nat
      OBVIOUS
    <2>2. x \in Shr(v, 8 * (n - i)) <=> x \in Nat /\ x + 8 * (n - i) \in v
      BY <1>1, <2>1, ShrIs
    <2>3. x \in p[i] <=> x \in Shr(v, 8 * (n - i)) /\ x \in 0..7
      BY <1>2 DEF Cast, Bits
    <2>4. x \in 0..7 => x \in Nat
      OBVIOUS
    <2> QED BY <2>2, <2>3, <2>4
  <1>4. \A i \in 1..n : p[i] \in SUBSET Nat
    BY <1>3
  <1>5. ASSUME NEW i \in 1..n, NEW x
        PROVE  x \in Shl(p[i], 8 * (n - i), 8 * n)
                 <=> x \in v /\ 8 * (n - i) <= x /\ x < 8 * (n - i) + 8
    <2> DEFINE k == 8 * (n - i)
    <2>1. k \in Nat /\ 8 * n \in Nat
      OBVIOUS
    <2> HIDE DEF k
    <2>2. x \in Shl(p[i], k, 8 * n) <=> x \in Nat /\ x < 8 * n /\ k <= x /\ x - k \in p[i]
      BY <1>4, <2>1, ShlIs
    <2>3. x - k \in p[i] <=> x - k \in 0..7 /\ (x - k) + k \in v
      BY <1>3 DEF k
    <2>4. x \in Nat => (x - k) + k = x /\ (k <= x => (x - k \in 0..7 <=> x < k + 8))
      BY <2>1
    <2> QED BY <1>1, <2>2, <2>3, <2>4 DEF k
  <1>6. ASSUME NEW x PROVE x \in GetUint(p) <=> x \in v
    <2>1. x \in GetUint(p) <=> \E i \in 1..n : x \in Shl(p[i], 8 * (n - i), 8 * n)
      BY <1>2 DEF GetUint
    <2>2. ASSUME x \in v PROVE \E i \in 1..n : 8 * (n - i) <= x /\ x < 8 * (n - i) + 8
      <3> DEFINE c == x \div 8
      <3>1. x \in Nat /\ x < 8 * n
        BY <1>1, <2>2
      <3>2. c \in Nat /\ 8 * c <= x /\ x < 8 * c + 8
        BY <3>1
      <3> HIDE DEF c
      <3>3. n - c \in 1..n /\ n - (n - c) = c
        BY <3>1, <3>2
      <3> QED BY <3>2, <3>3
    <2> QED BY <1>5, <2>1, <2>2
  <1> QED BY <1>6 DEF p

-----------------------------------------------------------------------------
(* Every integer. *)

\* What WireRoundTrip says of an integer.
ComesBack(v) ==
  LET v32 == Cast(v, 32)
  IN  /\ ReadsBack(WriteVarint64(v), v, ReadVarint64)
      /\ ReadsBack(WriteSignedVarint64(v), v, ReadSignedVarint64)
      /\ Len(WriteVarint64(v)) = VarintSize64(v)
      /\ ReadsBack(WriteVarint32(v32), v32, ReadVarint32)
      /\ ReadsBack(WriteSignedVarint32(v32), v32, ReadSignedVarint32)
      /\ Len(WriteVarint32(v32)) = VarintSize32(v32)
      /\ \A k \in Bits(64) : SmallMagnitude(v, 64, k) => Below(ZigZagEncode(v, 64), k + 1)
      /\ GetUint(PutUint(v, 8)) = v /\ GetUint(PutUint(v32, 4)) = v32

(* The varints of 64 bits, *)
LEMMA Varint64Back ==
  ASSUME NEW v \in SUBSET Bits(64)
  PROVE  ReadsBack(WriteVarint64(v), v, ReadVarint64) /\ Len(WriteVarint64(v)) = VarintSize64(v)
  <1>1. PICK n \in 1..10 : /\ VarintOf(WriteVarint64(v), v, n) /\ Below(v, 7 * n)
                           /\ n = VarintSize64(v)
    BY Writes64
  <1> DEFINE bytes == WriteVarint64(v)
  <1> HIDE DEF bytes
  <1>2. /\ ReadVarint64(bytes) = [size |-> Len(bytes), value |-> v]
        /\ \A m \in 0..(Len(bytes) - 1) : ReadVarint64(SubSeq(bytes, 1, m)) = Corrupt
    BY <1>1, Reads64 DEF bytes
  <1>3. ReadsBack(bytes, v, ReadVarint64)
    BY <1>2 DEF ReadsBack
  <1>4. Len(bytes) = n
    BY <1>1 DEF VarintOf, bytes
  <1> QED BY <1>1, <1>3, <1>4 DEF bytes

(* those of 32 bits, *)
LEMMA Varint32Back ==
  ASSUME NEW v \in SUBSET Bits(32)
  PROVE  ReadsBack(WriteVarint32(v), v, ReadVarint32) /\ Len(WriteVarint32(v)) = VarintSize32(v)
  <1>1. PICK n \in 1..5 : /\ VarintOf(WriteVarint32(v), v, n) /\ Below(v, 7 * n)
                          /\ n = VarintSize32(v)
    BY Writes32
  <1> DEFINE bytes == WriteVarint32(v)
  <1> HIDE DEF bytes
  <1>2. /\ ReadVarint32(bytes) = [size |-> Len(bytes), value |-> v]
        /\ \A m \in 0..(Len(bytes) - 1) : ReadVarint32(SubSeq(bytes, 1, m)) = Corrupt
    BY <1>1, Reads32 DEF bytes
  <1>3. ReadsBack(bytes, v, ReadVarint32)
    BY <1>2 DEF ReadsBack
  <1>4. Len(bytes) = n
    BY <1>1 DEF VarintOf, bytes
  <1> QED BY <1>1, <1>3, <1>4 DEF bytes

(* and what is corrupt stays so when it is decoded. *)
LEMMA CorruptStays ==
  ASSUME NEW w \in Nat
  PROVE  [Corrupt EXCEPT !.value = ZigZagDecode(@, w)] = Corrupt
  <1>1. \A x : x \notin ZigZagDecode({}, w)
    <2>1. Shr({}, 1) = {}
      BY DEF Shr
    <2> QED BY <2>1 DEF ZigZagDecode, Xor
  <1>2. ZigZagDecode({}, w) = {}
    BY <1>1
  <1> QED BY <1>2 DEF Corrupt

(* The signed ones of 64 bits, *)
LEMMA Signed64Back ==
  ASSUME NEW v \in SUBSET Bits(64)
  PROVE  ReadsBack(WriteSignedVarint64(v), v, ReadSignedVarint64)
  <1> DEFINE u == ZigZagEncode(v, 64)
             bytes == WriteVarint64(u)
  <1>1. u \in SUBSET Bits(64) /\ ZigZagDecode(u, 64) = v
    BY ZigZagBack
  <1> HIDE DEF u
  <1>2. ReadsBack(bytes, u, ReadVarint64)
    BY <1>1, Varint64Back
  <1> HIDE DEF bytes
  <1>3. /\ ReadVarint64(bytes) = [size |-> Len(bytes), value |-> u]
        /\ \A m \in 0..(Len(bytes) - 1) : ReadVarint64(SubSeq(bytes, 1, m)) = Corrupt
    BY <1>2 DEF ReadsBack
  <1>4. ReadSignedVarint64(bytes) = [size |-> Len(bytes), value |-> v]
    BY <1>1, <1>3 DEF ReadSignedVarint64
  <1>5. \A m \in 0..(Len(bytes) - 1) : ReadSignedVarint64(SubSeq(bytes, 1, m)) = Corrupt
    BY <1>3, CorruptStays DEF ReadSignedVarint64
  <1>6. ReadsBack(bytes, v, ReadSignedVarint64)
    BY <1>4, <1>5 DEF ReadsBack
  <1> QED BY <1>6 DEF bytes, u, WriteSignedVarint64

(* and of 32. *)
LEMMA Signed32Back ==
  ASSUME NEW v \in SUBSET Bits(32)
  PROVE  ReadsBack(WriteSignedVarint32(v), v, ReadSignedVarint32)
  <1> DEFINE u == ZigZagEncode(v, 32)
             bytes == WriteVarint32(u)
  <1>1. u \in SUBSET Bits(32) /\ ZigZagDecode(u, 32) = v
    BY ZigZagBack
  <1> HIDE DEF u
  <1>2. ReadsBack(bytes, u, ReadVarint32)
    BY <1>1, Varint32Back
  <1> HIDE DEF bytes
  <1>3. /\ ReadVarint32(bytes) = [size |-> Len(bytes), value |-> u]
        /\ \A m \in 0..(Len(bytes) - 1) : ReadVarint32(SubSeq(bytes, 1, m)) = Corrupt
    BY <1>2 DEF ReadsBack
  <1>4. ReadSignedVarint32(bytes) = [size |-> Len(bytes), value |-> v]
    BY <1>1, <1>3 DEF ReadSignedVarint32
  <1>5. \A m \in 0..(Len(bytes) - 1) : ReadSignedVarint32(SubSeq(bytes, 1, m)) = Corrupt
    BY <1>3, CorruptStays DEF ReadSignedVarint32
  <1>6. ReadsBack(bytes, v, ReadSignedVarint32)
    BY <1>4, <1>5 DEF ReadsBack
  <1> QED BY <1>6 DEF bytes, u, WriteSignedVarint32

(***************************************************************************)
(* Every integer of 64 bits, and its lower half as one of 32, is read back *)
(* as it was written, in each of the forms (wire_format-inl.h, wire.hpp).  *)
(***************************************************************************)
THEOREM EveryIntegerComesBack == \A v \in SUBSET Bits(64) : ComesBack(v)
  <1> SUFFICES ASSUME NEW v \in SUBSET Bits(64) PROVE ComesBack(v)
    OBVIOUS
  <1> DEFINE v32 == Cast(v, 32)
  <1>1. v32 \in SUBSET Bits(32)
    BY DEF Cast
  <1> HIDE DEF v32
  <1>2. \A k \in Bits(64) : SmallMagnitude(v, 64, k) => Below(ZigZagEncode(v, 64), k + 1)
    BY ZigZagSmall
  <1>3. GetUint(PutUint(v, 8)) = v
    <2>1. 8 * 8 = 64
      OBVIOUS
    <2> QED BY <2>1, PutGet
  <1>4. GetUint(PutUint(v32, 4)) = v32
    <2>1. 8 * 4 = 32
      OBVIOUS
    <2> QED BY <1>1, <2>1, PutGet
  <1>5. /\ ReadsBack(WriteVarint64(v), v, ReadVarint64)
        /\ ReadsBack(WriteSignedVarint64(v), v, ReadSignedVarint64)
        /\ Len(WriteVarint64(v)) = VarintSize64(v)
    BY Varint64Back, Signed64Back
  <1>6. /\ ReadsBack(WriteVarint32(v32), v32, ReadVarint32)
        /\ ReadsBack(WriteSignedVarint32(v32), v32, ReadSignedVarint32)
        /\ Len(WriteVarint32(v32)) = VarintSize32(v32)
    BY <1>1, Varint32Back, Signed32Back
  <1> QED BY <1>2, <1>3, <1>4, <1>5, <1>6, Zenon DEF ComesBack, v32

\* There is one integer at most, of those that are written.
WireInv == integer = <<>> \/ \E v \in Numbers : integer = <<v>>

(* What is written is read back, whatever the numbers. *)
THEOREM IntegersComeBack == WireSpec => []WireRoundTrip
  <1>1. WireInit => WireInv
    BY DEF WireInit, WireInv
  <1>2. WireInv /\ [WireNext]_integer => WireInv'
    BY DEF WireInv, WireNext
  <1>3. WireInv => WireRoundTrip
    <2> SUFFICES ASSUME WireInv, NEW i \in DOMAIN integer PROVE ComesBack(integer[i])
      BY Zenon DEF WireRoundTrip, ComesBack
    <2>1. PICK v \in Numbers : integer = <<v>>
      BY DEF WireInv
    <2>2. integer[i] = v /\ v \in SUBSET Bits(64)
      BY <2>1, WireAssumption
    <2> QED BY <2>2, EveryIntegerComesBack
  <1> QED BY <1>1, <1>2, <1>3, PTL DEF WireSpec

=============================================================================
