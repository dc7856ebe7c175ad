----------------------------- MODULE InputProofs -----------------------------
(***************************************************************************)
(* Theorems about the two ways in which data come in.                      *)
(*                                                                         *)
(* InputService, for every number of connections and writes: what the      *)
(* handlers of one connection may rely on, and what is left of it when a   *)
(* timer met another completion.                                           *)
(*                                                                         *)
(* PgmReceiver, for every number of senders and packets and every size of  *)
(* packets, vectors and indices: where a peer joins, what a parser may     *)
(* miss, and that Select has the timer the receiver knows of.              *)
(***************************************************************************)
EXTENDS InputService, PgmReceiver, SequenceTheorems, FiniteSetTheorems, TLAPS

Kinds == {"connect", "connectError", "readError", "writeError", "reconnect", "heartbeat",
          "close"}

ReadEntries == [type : {"read"}, old : BOOLEAN, msg : {"none", "logon", "logout"},
                begins : BOOLEAN, ends : BOOLEAN]

Entries == ReadEntries \union [type : Kinds, old : BOOLEAN]

Writes == [type : {"logon", "heartbeat"}, buf : {0, 1}, torn : BOOLEAN]

Typed == TypeOK /\ queue \in Seq(Entries) /\ writes \in Seq(Writes)

\* The completions that make up the chain connect, read, read, ...
Steps == {"connect", "connectError", "read", "readError"}
Errors == {"readError", "writeError"}

\* What is in a queue, and in which order.
Types(q) == {q[i].type : i \in DOMAIN q}
ReadsOf(q) == {e \in {q[i] : i \in DOMAIN q} : e.type = "read"}
Carries(msg) == \E e \in ReadsOf(queue) : e.msg = msg
OneStep(q) == \A i, j \in DOMAIN q : q[i].type \in Steps /\ q[j].type \in Steps => i = j
ReadsFirst(q) == \A i, j \in DOMAIN q : i < j /\ q[i].type \in Errors => q[j].type # "read"
Aged(q) == [i \in DOMAIN q |-> [q[i] EXCEPT !.old = TRUE]]

NewState == user = "new" => link = "closed" /\ queue = <<>> /\ armed = {} /\ held = "nothing"

Bounded ==
  /\ "close" \in Types(queue) => user = "stopped"
  /\ user = "running" /\ link = "closed" =>
       "connect" \notin Types(queue) /\ "connectError" \notin Types(queue)
  /\ Crowded(queue) \subseteq raced

\* The chain is in one place only: being connected, outstanding, or queued.
OneReader ==
  /\ OneStep(queue)
  /\ reads <= 1
  /\ Types(queue) \intersect Steps # {} => reads = 0 /\ link # "connecting"
  /\ link = "connecting" => reads = 0

\* The decoder is where the stream is, or is where the queued bytes begin.
Connecting == link = "connecting" \/
  (link # "closed" /\ ("connect" \in Types(queue) \/ "connectError" \in Types(queue)))

Decoder ==
  /\ Connecting => ~inside /\ held = "nothing"
  /\ reads = 1 => held = IF inside THEN "new" ELSE "nothing"
  /\ \A e \in ReadsOf(queue) :
       InStep(e) /\ IF link = "closed" THEN e.old ELSE ~e.old /\ (inside <=> e.ends)
  /\ held # "garbage" /\ (held = "old" => link = "closed")

ReadInv == "reconnect" \in raced \/ (OneReader /\ Decoder)

\* A new connection begins with nothing left of the one before.
Alone ==
  /\ link = "connecting" => armed = {} /\ writes = <<>> /\ Types(queue) \subseteq {"close"}
  /\ "connect" \in Types(queue) \/ "connectError" \in Types(queue) =>
       armed = {} /\ writes = <<>> /\ "writeError" \notin Types(queue)
  /\ "connectError" \in Types(queue) => link \in {"broken", "closed"}

ErrorsLast ==
  /\ ReadsFirst(queue)
  /\ Types(queue) \intersect Errors # {} => link \in {"broken", "closed"}

\* Once the next connection is planned, nothing more comes of this one.
Planned == "reconnect" \in armed \/ "reconnect" \in Types(queue)

Over ==
  Planned =>
    /\ "heartbeat" \notin armed /\ "heartbeat" \notin Types(queue)
    /\ "connect" \notin Types(queue) /\ ~Carries("logon")
    /\ link \in {"broken", "closed"} \/ session = "off"

Session ==
  /\ "heartbeat" \in armed \/ "heartbeat" \in Types(queue) \/ Carries("logon") =>
       user = "stopped" \/ session \in {"on", "off"}
  /\ Carries("logout") => session = "off" \/ link = "closed"

\* The encoder's buffers alternate, and only an earlier write can be torn.
Buffers ==
  /\ writes # <<>> => writes[Len(writes)].buf = 1 - waitBuf \/ Planned
  /\ \A i \in DOMAIN writes : writes[i].torn => Len(writes) >= i + 2

CalmInv == raced # {} \/ (Alone /\ ErrorsLast /\ Over /\ Session /\ Buffers)

ServiceInv == Typed /\ NewState /\ Bounded /\ NeverSilent /\ ReadInv /\ CalmInv


-----------------------------------------------------------------------------
(* Queues: what an entry is, and what each change of the queue does to it. *)

(* The completion of an operation or a timer. *)
LEMMA DoneEntry ==
  ASSUME NEW t \in Kinds
  PROVE  Done(t) \in Entries /\ Done(t).type = t /\ t # "read"
  BY DEF Done, Entries, Kinds

(* An entry has one of these types, and the reads have their fields. *)
LEMMA EntryFields ==
  ASSUME NEW e \in Entries
  PROVE  /\ e.type \in Kinds \union {"read"}
         /\ e.type = "read" => /\ e.old \in BOOLEAN /\ e.msg \in {"none", "logon", "logout"}
                               /\ e.begins \in BOOLEAN /\ e.ends \in BOOLEAN
  BY DEF Entries, ReadEntries, Kinds

(* An entry of a connection that was given up is the same but for that. *)
LEMMA Aging ==
  ASSUME NEW e \in Entries
  PROVE  LET a == [e EXCEPT !.old = TRUE]
         IN  /\ a \in Entries /\ a.type = e.type
             /\ e.type = "read" => a.old /\ a.msg = e.msg /\ a.begins = e.begins /\ a.ends = e.ends
  BY DEF Entries, ReadEntries, Kinds

(* A completion that is queued. *)
LEMMA Appended ==
  ASSUME NEW q \in Seq(Entries), NEW x \in Entries
  PROVE  LET p == Append(q, x)
         IN  /\ p \in Seq(Entries) /\ Types(p) = Types(q) \union {x.type}
             /\ ReadsOf(p) = ReadsOf(q) \union (IF x.type = "read" THEN {x} ELSE {})
             /\ OneStep(q) /\ (x.type \in Steps => Types(q) \intersect Steps = {}) => OneStep(p)
             /\ ReadsFirst(q) /\ (x.type = "read" => Types(q) \intersect Errors = {})
                  => ReadsFirst(p)
  <1> DEFINE p == Append(q, x)
  <1>1. p \in Seq(Entries) /\ Len(p) = Len(q) + 1 /\ Len(q) \in Nat
        /\ DOMAIN p = 1..(Len(q) + 1) /\ DOMAIN q = 1..Len(q)
        /\ p[Len(q) + 1] = x /\ \A i \in 1..Len(q) : p[i] = q[i]
    OBVIOUS
  <1> HIDE DEF p
  <1>2. \A i \in DOMAIN p : i \in DOMAIN q \/ i = Len(q) + 1
    BY <1>1
  <1>3. Types(p) = Types(q) \union {x.type}
    BY <1>1, <1>2 DEF Types
  <1>4. ReadsOf(p) = ReadsOf(q) \union (IF x.type = "read" THEN {x} ELSE {})
    BY <1>1, <1>2 DEF ReadsOf
  <1>5. OneStep(q) /\ (x.type \in Steps => Types(q) \intersect Steps = {}) => OneStep(p)
    BY <1>1, <1>2 DEF OneStep, Types
  <1>6. ReadsFirst(q) /\ (x.type = "read" => Types(q) \intersect Errors = {}) => ReadsFirst(p)
    BY <1>1, <1>2 DEF ReadsFirst, Types
  <1> QED BY <1>1, <1>3, <1>4, <1>5, <1>6 DEF p

(* A completion that is taken to be handled. *)
LEMMA Taken ==
  ASSUME NEW q \in Seq(Entries), q # <<>>
  PROVE  LET p == Tail(q)  h == Head(q)
         IN  /\ h \in Entries /\ p \in Seq(Entries) /\ Types(q) = Types(p) \union {h.type}
             /\ ReadsOf(q) = ReadsOf(p) \union (IF h.type = "read" THEN {h} ELSE {})
             /\ OneStep(q) => OneStep(p) /\ (h.type \in Steps => Types(p) \intersect Steps = {})
             /\ ReadsFirst(q) => ReadsFirst(p) /\ (h.type \in Errors => ReadsOf(p) = {})
  <1> DEFINE p == Tail(q)  h == Head(q)
  <1>1. /\ p \in Seq(Entries) /\ Len(p) = Len(q) - 1 /\ Len(q) \in Nat \ {0}
        /\ DOMAIN p = 1..(Len(q) - 1) /\ DOMAIN q = 1..Len(q)
        /\ h = q[1] /\ \A i \in 1..(Len(q) - 1) : p[i] = q[i + 1]
        /\ h \in Entries
    BY HeadTailProperties, EmptySeq
  <1> HIDE DEF p, h
  <1>2. /\ \A i \in DOMAIN p : i + 1 \in DOMAIN q /\ p[i] = q[i + 1] /\ 1 < i + 1
        /\ \A i \in DOMAIN q : i = 1 \/ (i - 1 \in DOMAIN p /\ p[i - 1] = q[i])
        /\ 1 \in DOMAIN q
        /\ \A i, j \in DOMAIN p : (i = j <=> i + 1 = j + 1) /\ (i < j => i + 1 < j + 1)
    BY <1>1
  <1>3. Types(q) = Types(p) \union {h.type}
    BY <1>1, <1>2 DEF Types
  <1>4. ReadsOf(q) = ReadsOf(p) \union (IF h.type = "read" THEN {h} ELSE {})
    BY <1>1, <1>2 DEF ReadsOf
  <1>5. OneStep(q) => OneStep(p)
    BY <1>2 DEF OneStep
  <1>6. OneStep(q) => (h.type \in Steps => Types(p) \intersect Steps = {})
    <2> SUFFICES ASSUME OneStep(q), h.type \in Steps, NEW t \in Steps, t \in Types(p) PROVE FALSE
      OBVIOUS
    <2>1. PICK i \in DOMAIN p : p[i].type = t
      BY DEF Types
    <2>2. i + 1 \in DOMAIN q /\ q[i + 1].type \in Steps /\ q[1].type \in Steps /\ i + 1 # 1
      BY <2>1, <1>1, <1>2
    <2> QED BY <2>2, <1>2 DEF OneStep
  <1>7. ReadsFirst(q) => ReadsFirst(p)
    BY <1>2 DEF ReadsFirst
  <1>8. ReadsFirst(q) => (h.type \in Errors => ReadsOf(p) = {})
    <2> SUFFICES ASSUME ReadsFirst(q), h.type \in Errors, NEW i \in DOMAIN p, p[i].type = "read"
                 PROVE  FALSE
      BY DEF ReadsOf
    <2>1. i + 1 \in DOMAIN q /\ q[i + 1].type = "read" /\ q[1].type \in Errors /\ 1 < i + 1
      BY <1>1, <1>2
    <2> QED BY <2>1, <1>2 DEF ReadsFirst
  <1> QED BY <1>1, <1>3, <1>4, <1>5, <1>6, <1>7, <1>8 DEF p, h

(* The completions of a connection that is given up stay in the queue. *)
LEMMA GivenUp ==
  ASSUME NEW q \in Seq(Entries)
  PROVE  /\ Aged(q) \in Seq(Entries) /\ Types(Aged(q)) = Types(q)
         /\ \A e \in ReadsOf(Aged(q)) : \E d \in ReadsOf(q) :
              e.old /\ e.msg = d.msg /\ e.begins = d.begins /\ e.ends = d.ends
         /\ OneStep(q) => OneStep(Aged(q))
         /\ ReadsFirst(q) => ReadsFirst(Aged(q))
         /\ q = <<>> => Aged(q) = <<>>
  <1> DEFINE p == Aged(q)
  <1>1. /\ DOMAIN p = DOMAIN q /\ DOMAIN q = 1..Len(q) /\ Len(q) \in Nat
        /\ \A i \in DOMAIN q : q[i] \in Entries /\ p[i] = [q[i] EXCEPT !.old = TRUE]
    BY DEF Aged
  <1>2. \A i \in DOMAIN q :
          /\ p[i] \in Entries /\ p[i].type = q[i].type
          /\ q[i].type = "read" => /\ p[i].old /\ p[i].msg = q[i].msg
                                   /\ p[i].begins = q[i].begins /\ p[i].ends = q[i].ends
    BY <1>1, Aging
  <1>3. p \in Seq(Entries)
    <2>1. p = [i \in 1..Len(q) |-> p[i]]
      BY <1>1 DEF Aged
    <2> HIDE DEF p
    <2> QED BY <2>1, <1>1, <1>2, IsASeq
  <1>4. q = <<>> => p = <<>>
    <2>1. p \in Seq(Entries) /\ DOMAIN p = 1..Len(p) /\ Len(p) \in Nat
      BY <1>3
    <2>2. q = <<>> => Len(q) = 0
      OBVIOUS
    <2>3. q = <<>> => Len(p) = 0
      <3> HIDE DEF p
      <3> QED BY <1>1, <2>1, <2>2
    <2> QED BY <2>1, <2>3, EmptySeq
  <1> HIDE DEF p
  <1>5. Types(p) = Types(q)
    BY <1>1, <1>2 DEF Types
  <1>6. \A e \in ReadsOf(p) : \E d \in ReadsOf(q) :
              e.old /\ e.msg = d.msg /\ e.begins = d.begins /\ e.ends = d.ends
    BY <1>1, <1>2 DEF ReadsOf
  <1>7. OneStep(q) => OneStep(p)
    BY <1>1, <1>2 DEF OneStep
  <1>8. ReadsFirst(q) => ReadsFirst(p)
    BY <1>1, <1>2 DEF ReadsFirst
  <1> QED BY <1>3, <1>4, <1>5, <1>6, <1>7, <1>8 DEF p

(* Connecting gives the old connection up. *)
LEMMA Connected ==
  ASSUME NEW q \in Seq(Entries), Connect(q)
  PROVE  /\ link' = "connecting" /\ attempts' = attempts + 1
         /\ reads' = 0 /\ writes' = <<>> /\ session' = "none"
         /\ ~inside' /\ inside' \in BOOLEAN
         /\ queue' = Aged(q) /\ queue' \in Seq(Entries) /\ Types(queue') = Types(q)
         /\ OneStep(q) => OneStep(queue')
         /\ ReadsFirst(q) => ReadsFirst(queue')
         /\ q = <<>> => queue' = <<>>
  <1>1. queue' = Aged(q)
    BY DEF Connect, Aged
  <1> QED BY <1>1, GivenUp DEF Connect, Abort

(* An operation that fails at once queues its completion. *)
LEMMA Failed ==
  ASSUME NEW q \in Seq(Entries), NEW t
  PROVE  /\ q \o Failure(t, TRUE) = Append(q, Done(t))
         /\ q \o Failure(t, FALSE) = q
  BY ConcatEmptySeq DEF Failure

(* An empty queue has nothing in it, *)
LEMMA NothingQueued ==
  Types(<<>>) = {} /\ ReadsOf(<<>>) = {} /\ OneStep(<<>>) /\ ReadsFirst(<<>>)
  BY DEF Types, ReadsOf, OneStep, ReadsFirst

(* and the reads are entries of the queue. *)
LEMMA ReadsAreQueued ==
  ASSUME NEW q \in Seq(Entries), NEW e \in ReadsOf(q)
  PROVE  e \in Entries /\ e.type = "read" /\ "read" \in Types(q)
  BY DEF ReadsOf, Types

(* A timer that did not race is alone in the queue. *)
LEMMA TimerAlone ==
  ASSUME NEW q \in Seq(Entries), q # <<>>, Head(q).type \in Timers,
         Head(q).type \notin Crowded(q)
  PROVE  Tail(q) = <<>>
  <1>1. Len(q) \in Nat /\ Len(q) > 0 /\ Head(q) = q[1] /\ 1 \in DOMAIN q
        /\ Tail(q) \in Seq(Entries) /\ Len(Tail(q)) = Len(q) - 1
    BY HeadTailProperties, EmptySeq
  <1>2. ~(Len(q) > 1)
    BY <1>1 DEF Crowded
  <1> QED BY <1>1, <1>2, EmptySeq


-----------------------------------------------------------------------------
(* What the parts of the actions do. *)

(* A completion of an operation or a timer is queued, *)
LEMMA FinishDone ==
  ASSUME Typed, NEW t \in Kinds, Finish(Done(t))
  PROVE  /\ queue' \in Seq(Entries) /\ Types(queue') = Types(queue) \union {t}
         /\ ReadsOf(queue') = ReadsOf(queue)
         /\ OneStep(queue) /\ (t \in Steps => Types(queue) \intersect Steps = {})
              => OneStep(queue')
         /\ ReadsFirst(queue) => ReadsFirst(queue')
  <1> DEFINE x == Done(t)
  <1>1. x \in Entries /\ x.type = t /\ t # "read"
    BY DoneEntry
  <1>2. queue \in Seq(Entries) /\ queue' = Append(queue, x)
    BY DEF Typed, Finish
  <1> HIDE DEF x
  <1> QED BY <1>1, <1>2, Appended

(* and one of a read, with what was read. *)
LEMMA FinishRead ==
  ASSUME Typed, inside \in BOOLEAN, ReadSucceeds
  PROVE  /\ queue' \in Seq(Entries) /\ Types(queue') = Types(queue) \union {"read"}
         /\ \E x \in Entries :
              /\ x.type = "read" /\ ~x.old /\ (x.begins <=> inside) /\ (x.ends <=> inside')
              /\ ReadsOf(queue') = ReadsOf(queue) \union {x}
              /\ x.msg = "logon" => session = "asked"
              /\ session' = CASE x.msg = "logon" -> "on" [] x.msg = "logout" -> "off"
                              [] OTHER -> session
         /\ OneStep(queue) /\ Types(queue) \intersect Steps = {} => OneStep(queue')
         /\ ReadsFirst(queue) /\ Types(queue) \intersect Errors = {} => ReadsFirst(queue')
  <1>1. PICK msg \in {"none", "logon", "logout"}, ends \in BOOLEAN :
          /\ msg = "logon" => session = "asked"
          /\ session' = CASE msg = "logon" -> "on" [] msg = "logout" -> "off" [] OTHER -> session
          /\ Finish(Read(msg, inside, ends)) /\ inside' = ends
    BY DEF ReadSucceeds
  <1> DEFINE x == [type |-> "read", old |-> FALSE, msg |-> msg, begins |-> inside,
                   ends |-> ends]
  <1>2. x \in Entries /\ x.type = "read" /\ ~x.old /\ (x.begins <=> inside)
        /\ (x.ends <=> inside') /\ x.msg = msg
    BY <1>1 DEF Entries, ReadEntries
  <1>3. queue \in Seq(Entries) /\ queue' = Append(queue, x)
    BY <1>1 DEF Typed, Finish, Read
  <1> HIDE DEF x
  <1>4. /\ queue' \in Seq(Entries) /\ Types(queue') = Types(queue) \union {"read"}
        /\ ReadsOf(queue') = ReadsOf(queue) \union {x}
        /\ OneStep(queue) /\ Types(queue) \intersect Steps = {} => OneStep(queue')
        /\ ReadsFirst(queue) /\ Types(queue) \intersect Errors = {} => ReadsFirst(queue')
    BY <1>2, <1>3, Appended DEF Steps
  <1> QED BY <1>1, <1>2, <1>4

(* A handler takes the first completion. *)
LEMMA Handling ==
  ASSUME Typed, NEW t, Handle(t)
  PROVE  /\ alive /\ t \in Types(queue)
         /\ Head(queue) \in Entries /\ Head(queue).type = t
         /\ Rest \in Seq(Entries) /\ Types(queue) = Types(Rest) \union {t}
         /\ ReadsOf(queue) = ReadsOf(Rest) \union (IF t = "read" THEN {Head(queue)} ELSE {})
         /\ OneStep(queue) =>
              OneStep(Rest) /\ (t \in Steps => Types(Rest) \intersect Steps = {})
         /\ ReadsFirst(queue) => ReadsFirst(Rest) /\ (t \in Errors => ReadsOf(Rest) = {})
         /\ t \in Timers /\ t \notin Crowded(queue) => Rest = <<>>
  <1>1. queue \in Seq(Entries) /\ queue # <<>> /\ Head(queue).type = t /\ alive
    BY DEF Typed, Handle
  <1>2. Types(queue) = Types(Rest) \union {t}
    BY <1>1, Taken DEF Rest
  <1>3. t \in Timers /\ t \notin Crowded(queue) => Rest = <<>>
    BY <1>1, TimerAlone DEF Rest
  <1>4. ReadsOf(queue) = ReadsOf(Rest) \union (IF t = "read" THEN {Head(queue)} ELSE {})
    BY <1>1, Taken DEF Rest
  <1>5. /\ Head(queue) \in Entries /\ Rest \in Seq(Entries)
        /\ OneStep(queue) =>
              OneStep(Rest) /\ (t \in Steps => Types(Rest) \intersect Steps = {})
        /\ ReadsFirst(queue) => ReadsFirst(Rest) /\ (t \in Errors => ReadsOf(Rest) = {})
    BY <1>1, Taken DEF Rest
  <1> QED BY <1>1, <1>2, <1>3, <1>4, <1>5, Zenon

(* A handler that starts an operation may queue its failure behind the rest. *)
LEMMA Trailing ==
  ASSUME NEW q \in Seq(Entries), NEW t \in Errors, NEW refused \in BOOLEAN
  PROVE  LET p == q \o Failure(t, refused)
         IN  /\ p \in Seq(Entries)
             /\ refused => Types(p) = Types(q) \union {t}
             /\ ~refused => p = q
             /\ ReadsOf(p) = ReadsOf(q)
             /\ OneStep(q) /\ (t \in Steps => Types(q) \intersect Steps = {}) => OneStep(p)
             /\ ReadsFirst(q) => ReadsFirst(p)
  <1> DEFINE p == q \o Failure(t, refused)  x == Done(t)
  <1>1. x \in Entries /\ x.type = t /\ t # "read"
    BY DoneEntry DEF Errors, Kinds
  <1>2. refused => p = Append(q, x)
    BY Failed
  <1>3. ~refused => p = q
    BY Failed
  <1> HIDE DEF p, x
  <1>4. CASE refused
    BY <1>1, <1>2, <1>4, Appended DEF p
  <1>5. CASE ~refused
    BY <1>3, <1>5 DEF p
  <1> QED BY <1>4, <1>5

(* When an operation fails at once. *)
LEMMA Refusal ==
  ASSUME NEW r \in Refused
  PROVE  /\ r \in BOOLEAN
         /\ link = "closed" => r
         /\ link \notin {"closed", "connecting"} => ~r
  BY DEF Refused

(* The encoder uses its waiting buffer, which outstanding writes may still use. *)
LEMMA Sending ==
  ASSUME Typed, NEW t \in {"logon", "heartbeat"}, NEW r \in BOOLEAN, Send(t, r)
  PROVE  /\ writes' \in Seq(Writes) /\ waitBuf' \in {0, 1} /\ waitBuf' = 1 - waitBuf
         /\ r => Len(writes') = Len(writes)
         /\ ~r => Len(writes') = Len(writes) + 1
         /\ ~r => writes'[Len(writes')].buf = waitBuf /\ ~writes'[Len(writes')].torn
         /\ \A i \in DOMAIN writes : i \in DOMAIN writes' /\ writes'[i].buf = writes[i].buf
              /\ (writes'[i].torn => writes[i].torn \/ writes[i].buf = waitBuf)
  <1>1. /\ writes \in Seq(Writes) /\ DOMAIN writes = 1..Len(writes) /\ Len(writes) \in Nat
        /\ waitBuf \in {0, 1}
    BY DEF Typed, TypeOK
  <1> DEFINE w == Overwritten
             n == [type |-> t, buf |-> waitBuf, torn |-> FALSE]
  <1>2. n \in Writes /\ n.buf = waitBuf /\ ~n.torn
    BY <1>1 DEF Writes
  <1>3. \A i \in DOMAIN writes : /\ w[i] \in Writes /\ w[i].buf = writes[i].buf
                                 /\ w[i].torn <=> writes[i].torn \/ writes[i].buf = waitBuf
    <2> SUFFICES ASSUME NEW i \in DOMAIN writes
                 PROVE  /\ w[i] \in Writes /\ w[i].buf = writes[i].buf
                        /\ w[i].torn <=> writes[i].torn \/ writes[i].buf = waitBuf
      OBVIOUS
    <2> DEFINE b == writes[i].torn \/ writes[i].buf = waitBuf
    <2>1. w[i] = [writes[i] EXCEPT !.torn = b] /\ b \in BOOLEAN
      BY DEF Overwritten
    <2>2. writes[i] \in Writes
      BY <1>1
    <2> HIDE DEF b
    <2>3. [writes[i] EXCEPT !.torn = b] \in Writes /\ [writes[i] EXCEPT !.torn = b].torn = b
          /\ [writes[i] EXCEPT !.torn = b].buf = writes[i].buf
      BY <2>1, <2>2 DEF Writes
    <2> HIDE DEF w
    <2>4. w[i] \in Writes /\ w[i].torn = b /\ w[i].buf = writes[i].buf
      BY <2>1, <2>3, Zenon
    <2> QED BY <2>4 DEF b
  <1>4. w = [i \in 1..Len(writes) |-> w[i]]
    BY <1>1 DEF Overwritten
  <1>5. writes' = IF r THEN w ELSE Append(w, n)
    BY DEF Send
  <1>6. waitBuf' = 1 - waitBuf
    BY DEF Send
  <1> HIDE DEF w, n
  <1>7. w \in Seq(Writes) /\ Len(w) = Len(writes)
    <2>1. w \in Seq(Writes)
      BY <1>1, <1>3, <1>4, IsASeq
    <2>2. DOMAIN w = 1..Len(writes) /\ DOMAIN w = 1..Len(w) /\ Len(w) \in Nat
      BY <1>4, <2>1
    <2> QED BY <2>1, <2>2, <1>1
  <1>8. CASE r
    BY <1>1, <1>3, <1>5, <1>6, <1>7, <1>8
  <1>9. CASE ~r
    <2>1. /\ writes' = Append(w, n) /\ writes' \in Seq(Writes) /\ Len(writes') = Len(w) + 1
          /\ writes'[Len(w) + 1] = n /\ DOMAIN writes' = 1..(Len(w) + 1)
          /\ \A i \in 1..Len(w) : writes'[i] = w[i]
      BY <1>2, <1>5, <1>7, <1>9, AppendProperties
    <2>2. Len(writes') = Len(writes) + 1 /\ writes'[Len(writes')] = n
      BY <1>1, <1>7, <2>1
    <2>3. \A i \in DOMAIN writes : i \in DOMAIN writes' /\ writes'[i] = w[i]
      BY <1>1, <1>7, <2>1
    <2>4. writes'[Len(writes')].buf = waitBuf /\ ~writes'[Len(writes')].torn
      BY <1>2, <2>2, Zenon
    <2>5. \A i \in DOMAIN writes : i \in DOMAIN writes' /\ writes'[i].buf = writes[i].buf
            /\ (writes'[i].torn => writes[i].torn \/ writes[i].buf = waitBuf)
      BY <1>3, <2>3, Zenon
    <2>6. waitBuf' \in {0, 1}
      BY <1>1, <1>6
    <2> QED BY <1>6, <1>9, <2>1, <2>2, <2>4, <2>5, <2>6, Zenon
  <1> QED BY <1>8, <1>9


-----------------------------------------------------------------------------
(* Each step keeps the types. *)

(* Only timers are crowded. *)
LEMMA CrowdedTimers ==
  ASSUME NEW q
  PROVE  Crowded(q) \subseteq Timers
  BY DEF Crowded

(* A step is one of these. *)
LEMMA Actions ==
  ASSUME Next
  PROVE  \/ Run \/ Stop \/ ConnectSucceeds \/ ConnectFails \/ PeerCloses
         \/ ReadSucceeds \/ ReadFails \/ WriteSucceeds \/ WriteFails
         \/ Expire("reconnect") \/ Expire("heartbeat")
         \/ HandleConnect \/ HandleConnectNull \/ HandleConnectError \/ HandleConnectClosed
         \/ HandleRead \/ HandleError("readError") \/ HandleError("writeError")
         \/ HandleReconnect \/ HandleHeartbeat \/ DoClose
  BY DEF Next, Timers

(* The variables keep their types. *)
LEMMA TypedStep ==
  ASSUME Typed, Next
  PROVE  Typed'
  <1> USE DEF Typed, TypeOK
  <1>0. /\ Crowded(queue') \subseteq Timers /\ {"reconnect", "heartbeat"} = Timers
        /\ <<>> \in Seq(Writes)
    BY CrowdedTimers DEF Timers
  <1>1. CASE Run
    <2>1. CASE Connect(queue) /\ UNCHANGED armed
      <3>1. /\ link' = "connecting" /\ attempts' = attempts + 1 /\ queue' \in Seq(Entries)
            /\ reads' = 0 /\ writes' = <<>> /\ session' = "none"
         /\ ~inside' /\ inside' \in BOOLEAN
        BY <2>1, Connected
      <3> QED BY <1>0, <1>1, <2>1, <3>1 DEF Run, Note
    <2>2. CASE CannotResolve(queue) /\ armed' = {"reconnect"}
      BY <1>0, <1>1, <2>2 DEF Run, CannotResolve, peerVars, Note
    <2> QED BY <1>1, <2>1, <2>2 DEF Run
  <1>2. CASE Stop
    <2>1. Finish(Done("close"))
      BY <1>2 DEF Stop, Finish
    <2> QED BY <1>0, <1>2, <2>1, FinishDone DEF Stop, peerVars, Note, Kinds
  <1>3. CASE ConnectSucceeds
    BY <1>0, <1>3, FinishDone DEF ConnectSucceeds, peerVars, Note, Kinds
  <1>4. CASE ConnectFails
    BY <1>0, <1>4, FinishDone DEF ConnectFails, peerVars, Note, Kinds
  <1>5. CASE PeerCloses
    BY <1>5 DEF PeerCloses, peerVars
  <1>6. CASE ReadSucceeds
    <2>1. queue' \in Seq(Entries)
      BY <1>6, FinishRead
    <2> QED BY <1>0, <1>6, <2>1 DEF ReadSucceeds, Note
  <1>7. CASE ReadFails
    BY <1>0, <1>7, FinishDone DEF ReadFails, peerVars, Note, Kinds
  <1>8. CASE WriteSucceeds
    <2>1. writes' \in Seq(Writes)
      BY <1>8, HeadTailProperties DEF WriteSucceeds
    <2> QED BY <1>8, <2>1 DEF WriteSucceeds
  <1>9. CASE WriteFails
    <2>1. writes' \in Seq(Writes)
      BY <1>9, HeadTailProperties DEF WriteFails
    <2> QED BY <1>0, <1>9, <2>1, FinishDone DEF WriteFails, peerVars, Note, Kinds
  <1>10. ASSUME NEW t \in {"reconnect", "heartbeat"}, Expire(t) PROVE Typed'
    BY <1>0, <1>10, FinishDone DEF Expire, peerVars, Note, Kinds
  <1>11. CASE HandleConnect
    <2>1. PICK noWrite, noRead \in Refused :
            /\ Send("logon", noWrite) /\ StartRead(noRead)
            /\ queue' = Rest \o Failure("writeError", noWrite) \o Failure("readError", noRead)
      BY <1>11 DEF HandleConnect
    <2>2. noWrite \in BOOLEAN /\ noRead \in BOOLEAN
      BY Refusal
    <2>3. Rest \in Seq(Entries)
      BY <1>11, Handling DEF HandleConnect
    <2>4. queue' \in Seq(Entries)
      BY <2>1, <2>2, <2>3, Trailing DEF Errors
    <2>5. writes' \in Seq(Writes) /\ waitBuf' \in {0, 1}
      BY <2>1, <2>2, Sending
    <2>6. reads' \in Nat
      BY <2>1 DEF StartRead
    <2> QED BY <1>0, <1>11, <2>4, <2>5, <2>6 DEF HandleConnect, peerVars, Note
  <1>12. CASE HandleConnectNull
    BY <1>12 DEF HandleConnectNull, peerVars
  <1>13. CASE HandleConnectError
    BY <1>0, <1>13, Handling DEF HandleConnectError, peerVars, Note
  <1>14. CASE HandleConnectClosed
    BY <1>0, <1>14, Handling DEF HandleConnectClosed, peerVars, Note
  <1>15. CASE HandleRead
    <2>1. PICK noRead \in Refused :
            StartRead(noRead) /\ queue' = Rest \o Failure("readError", noRead)
      BY <1>15 DEF HandleRead
    <2>2. noRead \in BOOLEAN /\ (link = "closed" => noRead)
      BY Refusal
    <2>3. Rest \in Seq(Entries)
      BY <1>15, Handling DEF HandleRead
    <2>4. queue' \in Seq(Entries)
      BY <2>1, <2>2, <2>3, Trailing DEF Errors
    <2>5. reads' \in Nat /\ (link = "closed" => reads' = reads)
      BY <2>1, <2>2 DEF StartRead
    <2>6. armed' \subseteq Timers /\ held' \in {"nothing", "new", "old", "garbage"}
      BY <1>15, <1>0 DEF HandleRead, Message, Decoded
    <2> QED BY <1>0, <1>15, <2>4, <2>5, <2>6 DEF HandleRead, peerVars, Note
  <1>16. ASSUME NEW t \in Errors, HandleError(t) PROVE Typed'
    BY <1>0, <1>16, Handling DEF HandleError, peerVars, Note
  <1>17. CASE HandleReconnect
    <2>1. Rest \in Seq(Entries)
      BY <1>17, Handling DEF HandleReconnect
    <2>2. CASE Connect(Rest) /\ armed' = armed \ {"reconnect"} /\ Note
      <3>1. /\ link' = "connecting" /\ attempts' = attempts + 1 /\ queue' \in Seq(Entries)
            /\ reads' = 0 /\ writes' = <<>> /\ session' = "none"
         /\ ~inside' /\ inside' \in BOOLEAN
        BY <2>1, <2>2, Connected
      <3> QED BY <1>0, <1>17, <2>2, <3>1 DEF HandleReconnect, ResetCodec, Note
    <2>3. CASE ~Note \/ ~Connect(Rest) \/ armed' # armed \ {"reconnect"}
      BY <1>0, <1>17, <2>1, <2>3
         DEF HandleReconnect, ResetCodec, CannotResolve, peerVars
    <2> QED BY <2>2, <2>3
  <1>18. CASE HandleHeartbeat
    <2>1. Rest \in Seq(Entries)
      BY <1>18, Handling DEF HandleHeartbeat
    <2>2. CASE queue' = Rest /\ UNCHANGED <<writes, waitBuf>>
      BY <1>0, <1>18, <2>1, <2>2 DEF HandleHeartbeat, peerVars, Note
    <2>3. CASE \E noWrite \in Refused :
                 Send("heartbeat", noWrite) /\ queue' = Rest \o Failure("writeError", noWrite)
      <3>1. PICK noWrite \in Refused :
              Send("heartbeat", noWrite) /\ queue' = Rest \o Failure("writeError", noWrite)
        BY <2>3
      <3>2. noWrite \in BOOLEAN /\ (link = "closed" => noWrite)
        BY Refusal
      <3>3. queue' \in Seq(Entries)
        BY <2>1, <3>1, <3>2, Trailing DEF Errors
      <3>4. writes' \in Seq(Writes) /\ waitBuf' \in {0, 1}
        BY <3>1, <3>2, Sending
      <3>5. link = "closed" => writes' = <<>>
        <4> SUFFICES ASSUME link = "closed" PROVE writes' = <<>>
          OBVIOUS
        <4>1. writes = <<>> /\ Len(writes) = 0
          OBVIOUS
        <4>2. Len(writes') = Len(writes)
          BY <3>1, <3>2, Sending
        <4> QED BY <3>4, <4>1, <4>2, EmptySeq
      <3> QED BY <1>0, <1>18, <3>3, <3>4, <3>5 DEF HandleHeartbeat, peerVars, Note
    <2> QED BY <1>18, <2>2, <2>3 DEF HandleHeartbeat
  <1>19. CASE DoClose
    <2>1. Aged(Rest) \in Seq(Entries)
      BY <1>19, Handling, GivenUp DEF DoClose
    <2> QED BY <1>0, <1>19, <2>1 DEF DoClose, Abort, Note, Aged, Former
  <1> QED BY <1>1, <1>2, <1>3, <1>4, <1>5, <1>6, <1>7, <1>8, <1>9, <1>10, <1>11, <1>12, <1>13,
             <1>14, <1>15, <1>16, <1>17, <1>18, <1>19, Actions DEF Errors


-----------------------------------------------------------------------------
(* What the handlers that start operations leave in the queue. *)

(* A read is started: it is outstanding, or has failed. *)
LEMMA ReadStarted ==
  ASSUME Typed, NEW q \in Seq(Entries), NEW r \in Refused, StartRead(r),
         queue' = q \o Failure("readError", r)
  PROVE  /\ queue' \in Seq(Entries) /\ ReadsOf(queue') = ReadsOf(q)
         /\ \/ Types(queue') = Types(q) \union {"readError"} /\ reads' = reads
               /\ link \in {"closed", "connecting"}
            \/ queue' = q /\ reads' = reads + 1 /\ link # "closed"
         /\ OneStep(q) /\ Types(q) \intersect Steps = {} => OneStep(queue')
         /\ ReadsFirst(q) => ReadsFirst(queue')
  <1>1. r \in BOOLEAN /\ (link = "closed" => r) /\ (link \notin {"closed", "connecting"} => ~r)
    BY Refusal
  <1>2. "readError" \in Errors /\ reads \in Nat
    BY DEF Errors, Typed, TypeOK
  <1>3. CASE r
    <2>1. Types(queue') = Types(q) \union {"readError"}
      BY <1>1, <1>2, <1>3, Trailing
    <2>2. reads' = reads
      BY <1>2, <1>3 DEF StartRead
    <2>3. /\ queue' \in Seq(Entries) /\ ReadsOf(queue') = ReadsOf(q)
          /\ OneStep(q) /\ Types(q) \intersect Steps = {} => OneStep(queue')
          /\ ReadsFirst(q) => ReadsFirst(queue')
      BY <1>1, <1>2, Trailing
    <2>4. link \in {"closed", "connecting"}
      BY <1>1, <1>3
    <2> QED BY <2>1, <2>2, <2>3, <2>4, Zenon
  <1>4. CASE ~r
    <2>1. queue' = q
      BY <1>1, <1>2, <1>4, Trailing
    <2>2. reads' = reads + 1
      BY <1>2, <1>4 DEF StartRead
    <2>3. link # "closed"
      BY <1>1, <1>4
    <2> QED BY <2>1, <2>2, <2>3, Zenon
  <1> QED BY <1>3, <1>4

(* The connection is made: what else is queued is the failure of the logon. *)
LEMMA LogsOn ==
  ASSUME Typed, HandleConnect
  PROVE  \E noWrite \in Refused, q \in Seq(Entries) :
           /\ Send("logon", noWrite)
           /\ ReadsOf(q) = ReadsOf(Rest)
           /\ \/ Types(q) = Types(Rest) \union {"writeError"} /\ link = "connecting"
              \/ q = Rest
           /\ OneStep(Rest) => OneStep(q)
           /\ ReadsFirst(Rest) => ReadsFirst(q)
           /\ \E noRead \in Refused :
                StartRead(noRead) /\ queue' = q \o Failure("readError", noRead)
  <1>1. PICK noWrite, noRead \in Refused :
          /\ Send("logon", noWrite) /\ StartRead(noRead)
          /\ queue' = Rest \o Failure("writeError", noWrite) \o Failure("readError", noRead)
    BY DEF HandleConnect
  <1> DEFINE q == Rest \o Failure("writeError", noWrite)
  <1>2. noWrite \in BOOLEAN /\ (link \notin {"closed", "connecting"} => ~noWrite)
        /\ link # "closed"
    BY Refusal DEF HandleConnect
  <1>3. Rest \in Seq(Entries) /\ "writeError" \in Errors /\ "writeError" \notin Steps
    BY Handling DEF HandleConnect, Errors, Steps
  <1>4. /\ q \in Seq(Entries) /\ ReadsOf(q) = ReadsOf(Rest)
        /\ OneStep(Rest) => OneStep(q)
        /\ ReadsFirst(Rest) => ReadsFirst(q)
    BY <1>2, <1>3, Trailing
  <1>5. noWrite => Types(q) = Types(Rest) \union {"writeError"}
    BY <1>2, <1>3, Trailing
  <1>6. ~noWrite => q = Rest
    BY <1>2, <1>3, Trailing
  <1>7. queue' = q \o Failure("readError", noRead)
    BY <1>1
  <1> HIDE DEF q
  <1>8. \/ Types(q) = Types(Rest) \union {"writeError"} /\ link = "connecting"
        \/ q = Rest
    BY <1>2, <1>5, <1>6
  <1> QED BY <1>1, <1>4, <1>7, <1>8, Zenon

(* The next read is started. *)
LEMMA ReadsOn ==
  ASSUME Typed, HandleRead
  PROVE  \E r \in Refused : StartRead(r) /\ queue' = Rest \o Failure("readError", r)
  BY DEF HandleRead

(* A heartbeat is sent, or nothing. *)
LEMMA Beats ==
  ASSUME Typed, HandleHeartbeat
  PROVE  /\ queue' \in Seq(Entries) /\ ReadsOf(queue') = ReadsOf(Rest)
         /\ \/ Types(queue') = Types(Rest) \union {"writeError"}
               /\ link \in {"closed", "connecting"}
            \/ queue' = Rest
         /\ OneStep(Rest) => OneStep(queue')
         /\ ReadsFirst(Rest) => ReadsFirst(queue')
  <1>1. Rest \in Seq(Entries) /\ "writeError" \in Errors /\ "writeError" \notin Steps
    BY Handling DEF HandleHeartbeat, Errors, Steps
  <1>2. CASE queue' = Rest
    BY <1>1, <1>2
  <1>3. CASE queue' # Rest
    <2>1. PICK r \in Refused : queue' = Rest \o Failure("writeError", r)
      BY <1>3 DEF HandleHeartbeat
    <2>2. r \in BOOLEAN /\ (link \notin {"closed", "connecting"} => ~r)
      BY Refusal
    <2>3. r /\ Types(queue') = Types(Rest) \union {"writeError"}
      BY <1>1, <1>3, <2>1, <2>2, Trailing
    <2>4. /\ queue' \in Seq(Entries) /\ ReadsOf(queue') = ReadsOf(Rest)
          /\ OneStep(Rest) => OneStep(queue')
          /\ ReadsFirst(Rest) => ReadsFirst(queue')
      BY <1>1, <2>1, <2>2, Trailing
    <2>5. link \in {"closed", "connecting"}
      BY <2>2, <2>3
    <2> QED BY <2>3, <2>4, <2>5, Zenon
  <1> QED BY <1>2, <1>3


-----------------------------------------------------------------------------
(* What stop and an open socket bound, and what keeps the service going. *)

(* Before run there is nothing, afterwards the past stays the past. *)
LEMMA NewStep ==
  ASSUME Typed, NewState, Next
  PROVE  NewState'
  <1>1. CASE user' = "new"
    <2>1. user = "new" /\ link = "closed" /\ queue = <<>> /\ armed = {} /\ held = "nothing"
          /\ reads = 0 /\ writes = <<>>
      <3>1. user = "new"
        BY <1>1, Actions
           DEF Run, Stop, ConnectSucceeds, ConnectFails, PeerCloses, ReadSucceeds, ReadFails,
               WriteSucceeds, WriteFails, Expire, HandleConnect, HandleConnectNull,
               HandleConnectError, HandleConnectClosed, HandleRead, HandleError,
               HandleReconnect, HandleHeartbeat, DoClose
      <3> QED BY <3>1 DEF NewState, Typed, TypeOK
    <2>2. FALSE
      BY <2>1, <1>1, Actions
         DEF Run, Stop, ConnectSucceeds, ConnectFails, PeerCloses, ReadSucceeds, ReadFails,
             WriteSucceeds, WriteFails, Expire, HandleConnect, HandleConnectNull,
             HandleConnectError, HandleConnectClosed, HandleRead, HandleError,
             HandleReconnect, HandleHeartbeat, DoClose, Handle
    <2> QED BY <2>2
  <1> QED BY <1>1 DEF NewState

(* The completions that a handler leaves behind. *)
LEMMA BoundedStep ==
  ASSUME Typed, NewState, Bounded, Next
  PROVE  Bounded'
  <1> USE DEF Bounded
  <1> DEFINE Now == Types(queue)
             Then == Types(queue')
  <1>0. Note => Crowded(queue') \subseteq raced'
    BY DEF Note
  <1>1. CASE Run
    <2>1. queue = <<>> /\ Now = {} /\ link = "closed"
      BY <1>1, NothingQueued DEF Run, NewState
    <2>2. CASE Connect(queue)
      <3>1. Then = Now /\ link' = "connecting"
        BY <2>2, Connected DEF Typed
      <3> QED BY <1>0, <1>1, <2>1, <3>1 DEF Run
    <2>3. CASE CannotResolve(queue)
      BY <1>0, <1>1, <2>1, <2>3 DEF Run, CannotResolve
    <2> QED BY <1>1, <2>2, <2>3 DEF Run
  <1>2. CASE Stop
    <2>1. Finish(Done("close"))
      BY <1>2 DEF Stop, Finish
    <2>2. Then = Now \union {"close"}
      BY <2>1, FinishDone DEF Kinds
    <2> QED BY <1>0, <1>2, <2>2 DEF Stop
  <1>3. CASE ConnectSucceeds
    <2>1. Then = Now \union {"connect"}
      BY <1>3, FinishDone DEF ConnectSucceeds, Kinds
    <2> QED BY <1>0, <1>3, <2>1 DEF ConnectSucceeds
  <1>4. CASE ConnectFails
    <2>1. Then = Now \union {"connectError"}
      BY <1>4, FinishDone DEF ConnectFails, Kinds
    <2> QED BY <1>0, <1>4, <2>1 DEF ConnectFails
  <1>5. CASE PeerCloses
    BY <1>5 DEF PeerCloses
  <1>6. CASE ReadSucceeds
    <2>1. Then = Now \union {"read"}
      BY <1>6, FinishRead DEF Typed, TypeOK
    <2> QED BY <1>0, <1>6, <2>1 DEF ReadSucceeds
  <1>7. CASE ReadFails
    <2>1. Then = Now \union {"readError"}
      BY <1>7, FinishDone DEF ReadFails, Kinds
    <2> QED BY <1>0, <1>7, <2>1 DEF ReadFails
  <1>8. CASE WriteSucceeds
    BY <1>8 DEF WriteSucceeds
  <1>9. CASE WriteFails
    <2>1. Then = Now \union {"writeError"}
      BY <1>9, FinishDone DEF WriteFails, Kinds
    <2> QED BY <1>0, <1>9, <2>1 DEF WriteFails
  <1>10. ASSUME NEW t \in {"reconnect", "heartbeat"}, Expire(t) PROVE Bounded'
    <2>1. Then = Now \union {t}
      BY <1>10, FinishDone DEF Expire, Kinds
    <2> QED BY <1>0, <1>10, <2>1 DEF Expire
  <1>11. CASE HandleConnect
    <2>1. Now = Types(Rest) \union {"connect"}
      BY <1>11, Handling DEF HandleConnect
    <2>2. PICK q \in Seq(Entries), r \in Refused :
            /\ Types(q) \subseteq Types(Rest) \union {"writeError"}
            /\ StartRead(r) /\ queue' = q \o Failure("readError", r)
      BY <1>11, LogsOn
    <2>3. Then \subseteq Types(q) \union {"readError"}
      BY <2>2, ReadStarted
    <2>4. Then \subseteq Now \union {"readError", "writeError"}
      BY <2>1, <2>2, <2>3
    <2> HIDE DEF Now, Then
    <2>5. UNCHANGED <<user, link>> /\ Note
      BY <1>11 DEF HandleConnect
    <2> QED BY <1>0, <2>4, <2>5 DEF Now, Then
  <1>12. CASE HandleConnectNull
    BY <1>12 DEF HandleConnectNull
  <1>13. CASE HandleConnectError
    <2>1. Then \subseteq Now
      BY <1>13, Handling DEF HandleConnectError
    <2> QED BY <1>0, <1>13, <2>1 DEF HandleConnectError
  <1>14. CASE HandleConnectClosed
    <2>1. Then \subseteq Now
      BY <1>14, Handling DEF HandleConnectClosed
    <2> QED BY <1>0, <1>14, <2>1 DEF HandleConnectClosed
  <1>15. CASE HandleRead
    <2>1. Types(Rest) \subseteq Now /\ Rest \in Seq(Entries)
      BY <1>15, Handling DEF HandleRead
    <2>2. PICK r \in Refused : StartRead(r) /\ queue' = Rest \o Failure("readError", r)
      BY <1>15, ReadsOn
    <2>3. Then \subseteq Types(Rest) \union {"readError"}
      BY <2>1, <2>2, ReadStarted
    <2>4. UNCHANGED <<user, link>> /\ Note
      BY <1>15 DEF HandleRead
    <2> QED BY <1>0, <2>1, <2>3, <2>4
  <1>16. ASSUME NEW t \in Errors, HandleError(t) PROVE Bounded'
    <2>1. Then \subseteq Now
      BY <1>16, Handling DEF HandleError
    <2> QED BY <1>0, <1>16, <2>1 DEF HandleError
  <1>17. CASE HandleReconnect
    <2>1. Types(Rest) \subseteq Now /\ Rest \in Seq(Entries)
      BY <1>17, Handling DEF HandleReconnect
    <2>2. CASE Connect(Rest) /\ Note
      <3>1. Then = Types(Rest) /\ link' = "connecting"
        BY <2>1, <2>2, Connected
      <3> QED BY <1>0, <1>17, <2>1, <2>2, <3>1 DEF HandleReconnect
    <2>3. CASE ~Connect(Rest) \/ ~Note
      <3>1. queue' = Rest /\ UNCHANGED <<user, link>> /\ Crowded(queue') \subseteq raced'
        BY <1>17, <2>3 DEF HandleReconnect, CannotResolve
      <3> QED BY <2>1, <3>1
    <2> QED BY <2>2, <2>3
  <1>18. CASE HandleHeartbeat
    <2>1. Types(Rest) \subseteq Now
      BY <1>18, Handling DEF HandleHeartbeat
    <2>2. Then \subseteq Types(Rest) \union {"writeError"}
      BY <1>18, Beats
    <2> QED BY <1>0, <1>18, <2>1, <2>2 DEF HandleHeartbeat
  <1>19. CASE DoClose
    <2>1. Types(Rest) \subseteq Now /\ Rest \in Seq(Entries) /\ "close" \in Now
      BY <1>19, Handling DEF DoClose
    <2>2. queue' = Aged(Rest)
      BY <1>19 DEF DoClose, Aged
    <2>3. Then \subseteq Now
      BY <2>1, <2>2, GivenUp
    <2> QED BY <1>0, <1>19, <2>1, <2>3 DEF DoClose
  <1> QED BY <1>1, <1>2, <1>3, <1>4, <1>5, <1>6, <1>7, <1>8, <1>9, <1>10, <1>11, <1>12, <1>13,
             <1>14, <1>15, <1>16, <1>17, <1>18, <1>19, Actions DEF Errors


\* The completions that keep the service going.
Lively == {"connect", "connectError", "read", "readError", "reconnect"}

(* What NeverSilent says of the types in the queue. *)
LEMMA Going ==
  ASSUME NEW q
  PROVE  (\E i \in DOMAIN q : q[i].type \in Lively) <=> Types(q) \intersect Lively # {}
  BY DEF Types

(* No handler of a running service is the last one. *)
LEMMA SilentStep ==
  ASSUME Typed, Typed', NewState, Bounded, NeverSilent, Next
  PROVE  NeverSilent'
  <1> DEFINE Now == Types(queue)
             Then == Types(queue')
  <1>1. user = "running" /\ alive =>
          link = "connecting" \/ reads > 0 \/ "reconnect" \in armed \/ Now \intersect Lively # {}
    BY Going DEF NeverSilent, Lively
  <1> SUFFICES ASSUME user' = "running", alive',
                      link' # "connecting", ~(reads' > 0), "reconnect" \notin armed'
               PROVE  Then \intersect Lively # {}
    BY Going DEF NeverSilent, Lively
  <1>2. reads \in Nat /\ reads' \in Nat
    BY DEF Typed, TypeOK
  <1> USE DEF Lively
  <1>3. CASE Run
    BY <1>3 DEF Run, Connect, CannotResolve
  <1>4. CASE Stop
    BY <1>4 DEF Stop
  <1>5. CASE ConnectSucceeds
    <2>1. Then = Now \union {"connect"}
      BY <1>5, FinishDone DEF ConnectSucceeds, Kinds
    <2> QED BY <2>1
  <1>6. CASE ConnectFails
    <2>1. Then = Now \union {"connectError"}
      BY <1>6, FinishDone DEF ConnectFails, Kinds
    <2> QED BY <2>1
  <1>7. CASE PeerCloses
    BY <1>1, <1>7 DEF PeerCloses
  <1>8. CASE ReadSucceeds
    <2>1. Then = Now \union {"read"}
      BY <1>8, FinishRead DEF Typed, TypeOK
    <2> QED BY <2>1
  <1>9. CASE ReadFails
    <2>1. Then = Now \union {"readError"}
      BY <1>9, FinishDone DEF ReadFails, Kinds
    <2> QED BY <2>1
  <1>10. CASE WriteSucceeds
    BY <1>1, <1>10 DEF WriteSucceeds
  <1>11. CASE WriteFails
    <2>1. Then = Now \union {"writeError"}
      BY <1>11, FinishDone DEF WriteFails, Kinds
    <2> QED BY <1>1, <1>11, <2>1 DEF WriteFails
  <1>12. ASSUME NEW t \in {"reconnect", "heartbeat"}, Expire(t)
         PROVE  Then \intersect Lively # {}
    <2>1. Then = Now \union {t}
      BY <1>12, FinishDone DEF Expire, Kinds
    <2> QED BY <1>1, <1>12, <2>1 DEF Expire
  <1>13. CASE HandleConnect
    <2>1. PICK q \in Seq(Entries), r \in Refused :
            StartRead(r) /\ queue' = q \o Failure("readError", r)
      BY <1>13, LogsOn
    <2>2. "readError" \in Then \/ reads' = reads + 1
      BY <2>1, ReadStarted
    <2> QED BY <1>2, <2>2
  <1>14. CASE HandleConnectNull
    BY <1>14 DEF HandleConnectNull
  <1>15. CASE HandleConnectError
    BY <1>15 DEF HandleConnectError
  <1>16. CASE HandleConnectClosed
    <2>1. user = "running" /\ link = "closed"
          /\ ("connect" \in Now \/ "connectError" \in Now)
      BY <1>16, Handling DEF HandleConnectClosed
    <2> QED BY <2>1 DEF Bounded
  <1>17. CASE HandleRead
    <2>1. PICK r \in Refused : StartRead(r) /\ queue' = Rest \o Failure("readError", r)
      BY <1>17, ReadsOn
    <2>2. Rest \in Seq(Entries)
      BY <1>17, Handling DEF HandleRead
    <2>3. "readError" \in Then \/ reads' = reads + 1
      BY <2>1, <2>2, ReadStarted
    <2> QED BY <1>2, <2>3
  <1>18. ASSUME NEW t \in Errors, HandleError(t) PROVE Then \intersect Lively # {}
    BY <1>18 DEF HandleError
  <1>19. CASE HandleReconnect
    BY <1>19 DEF HandleReconnect, Connect, CannotResolve
  <1>20. CASE HandleHeartbeat
    <2>1. Now = Types(Rest) \union {"heartbeat"}
      BY <1>20, Handling DEF HandleHeartbeat
    <2>2. Types(Rest) \subseteq Then
      BY <1>20, Beats
    <2>3. link' = link /\ reads' = reads /\ armed' = armed \union {"heartbeat"} /\ user' = user
          /\ alive' = alive
      BY <1>20 DEF HandleHeartbeat
    <2> QED BY <1>1, <2>1, <2>2, <2>3
  <1>21. CASE DoClose
    <2>1. user = "stopped"
      BY <1>21, Handling DEF DoClose, Bounded
    <2> QED BY <1>21, <2>1 DEF DoClose
  <1> QED BY <1>3, <1>4, <1>5, <1>6, <1>7, <1>8, <1>9, <1>10, <1>11, <1>12, <1>13, <1>14, <1>15,
             <1>16, <1>17, <1>18, <1>19, <1>20, <1>21, Actions DEF Errors


-----------------------------------------------------------------------------
(* One read at a time, and the decoder where the stream is. *)

(* The history only grows. *)
LEMMA RacedGrows ==
  ASSUME Next
  PROVE  raced \subseteq raced'
  BY Actions
     DEF Run, Stop, ConnectSucceeds, ConnectFails, PeerCloses, ReadSucceeds, ReadFails,
         WriteSucceeds, WriteFails, Expire, HandleConnect, HandleConnectNull,
         HandleConnectError, HandleConnectClosed, HandleRead, HandleError,
         HandleReconnect, HandleHeartbeat, DoClose, Note

(* The chain of connect and reads is in one place. *)
LEMMA OneReaderStep ==
  ASSUME Typed, NewState, Bounded, OneReader, Next, "reconnect" \notin raced'
  PROVE  OneReader'
  <1> USE DEF OneReader, Steps
  <1> DEFINE Now == Types(queue)
             Then == Types(queue')
  <1>0. /\ reads \in Nat /\ queue \in Seq(Entries)
        /\ "reconnect" \notin raced /\ "reconnect" \notin Crowded(queue)
    BY RacedGrows DEF Typed, TypeOK, Bounded
  <1>1. CASE Run
    <2>1. queue = <<>> /\ reads = 0
      BY <1>1 DEF Run, NewState, Typed, TypeOK
    <2>2. CASE Connect(queue)
      <3>1. queue' = <<>> /\ reads' = 0
        BY <2>1, <2>2, <1>0, Connected
      <3> QED BY <3>1, NothingQueued
    <2>3. CASE CannotResolve(queue)
      BY <2>1, <2>3, NothingQueued DEF CannotResolve
    <2> QED BY <1>1, <2>2, <2>3 DEF Run
  <1>2. CASE Stop
    <2>1. Finish(Done("close"))
      BY <1>2 DEF Stop, Finish
    <2>2. Then = Now \union {"close"} /\ OneStep(queue')
      BY <2>1, FinishDone DEF Kinds
    <2> QED BY <1>2, <2>2 DEF Stop
  <1>3. CASE ConnectSucceeds
    <2>1. Then = Now \union {"connect"} /\ OneStep(queue')
      BY <1>3, FinishDone DEF ConnectSucceeds, Kinds
    <2> QED BY <1>3, <2>1 DEF ConnectSucceeds
  <1>4. CASE ConnectFails
    <2>1. Then = Now \union {"connectError"} /\ OneStep(queue')
      BY <1>4, FinishDone DEF ConnectFails, Kinds
    <2> QED BY <1>4, <2>1 DEF ConnectFails
  <1>5. CASE PeerCloses
    BY <1>5 DEF PeerCloses
  <1>6. CASE ReadSucceeds
    <2>1. Now \intersect Steps = {}
      BY <1>6 DEF ReadSucceeds
    <2>2. Then = Now \union {"read"} /\ OneStep(queue')
      BY <1>6, <2>1, FinishRead DEF Typed, TypeOK
    <2> QED BY <1>0, <1>6, <2>2 DEF ReadSucceeds
  <1>7. CASE ReadFails
    <2>1. Now \intersect Steps = {}
      BY <1>7 DEF ReadFails
    <2>2. Then = Now \union {"readError"} /\ OneStep(queue')
      BY <1>7, <2>1, FinishDone DEF ReadFails, Kinds
    <2> QED BY <1>0, <1>7, <2>2 DEF ReadFails
  <1>8. CASE WriteSucceeds
    BY <1>8 DEF WriteSucceeds
  <1>9. CASE WriteFails
    <2>1. Then = Now \union {"writeError"} /\ OneStep(queue')
      BY <1>9, FinishDone DEF WriteFails, Kinds
    <2> QED BY <1>9, <2>1 DEF WriteFails
  <1>10. ASSUME NEW t \in {"reconnect", "heartbeat"}, Expire(t) PROVE OneReader'
    <2>1. Then = Now \union {t} /\ OneStep(queue')
      BY <1>10, FinishDone DEF Expire, Kinds
    <2> QED BY <1>10, <2>1 DEF Expire
  <1>11. CASE HandleConnect
    <2>1. /\ Now = Types(Rest) \union {"connect"} /\ OneStep(Rest)
          /\ Types(Rest) \intersect Steps = {} /\ reads = 0 /\ link # "connecting"
          /\ link # "closed"
      BY <1>11, Handling DEF HandleConnect
    <2>2. PICK q \in Seq(Entries), r \in Refused :
            /\ (Types(q) = Types(Rest) \union {"writeError"} /\ link = "connecting") \/ q = Rest
            /\ StartRead(r) /\ queue' = q \o Failure("readError", r)
      BY <1>11, LogsOn
    <2>3. queue' = Rest /\ reads' = reads + 1
      BY <2>1, <2>2, ReadStarted
    <2>4. link' = link
      BY <1>11 DEF HandleConnect
    <2> QED BY <2>1, <2>3, <2>4
  <1>12. CASE HandleConnectNull
    BY <1>12 DEF HandleConnectNull
  <1>13. CASE HandleConnectError
    <2>1. Then \subseteq Now /\ OneStep(queue')
      BY <1>13, Handling DEF HandleConnectError
    <2> QED BY <1>13, <2>1 DEF HandleConnectError
  <1>14. CASE HandleConnectClosed
    <2>1. Then \subseteq Now /\ OneStep(queue')
      BY <1>14, Handling DEF HandleConnectClosed
    <2> QED BY <1>14, <2>1 DEF HandleConnectClosed
  <1>15. CASE HandleRead
    <2>1. /\ OneStep(Rest) /\ Types(Rest) \intersect Steps = {} /\ Rest \in Seq(Entries)
          /\ reads = 0 /\ link # "connecting"
      BY <1>15, Handling DEF HandleRead
    <2>2. PICK r \in Refused : StartRead(r) /\ queue' = Rest \o Failure("readError", r)
      BY <1>15, ReadsOn
    <2>3. OneStep(queue')
      BY <2>1, <2>2, ReadStarted
    <2>4. \/ Then = Types(Rest) \union {"readError"} /\ reads' = reads
          \/ queue' = Rest /\ reads' = reads + 1
      BY <2>1, <2>2, ReadStarted
    <2>5. link' = link
      BY <1>15 DEF HandleRead
    <2> QED BY <2>1, <2>3, <2>4, <2>5
  <1>16. ASSUME NEW t \in Errors, HandleError(t) PROVE OneReader'
    <2>1. Then \subseteq Now /\ OneStep(queue')
      BY <1>16, Handling DEF HandleError
    <2> QED BY <1>16, <2>1 DEF HandleError
  <1>17. CASE HandleReconnect
    <2>1. Rest = <<>> /\ Rest \in Seq(Entries)
      BY <1>0, <1>17, Handling DEF HandleReconnect, Timers
    <2>2. CASE Connect(Rest)
      <3>1. queue' = <<>> /\ reads' = 0
        BY <2>1, <2>2, Connected
      <3> QED BY <3>1, NothingQueued
    <2>3. CASE ~Connect(Rest)
      BY <1>17, <2>1, <2>3, NothingQueued DEF HandleReconnect, CannotResolve
    <2> QED BY <2>2, <2>3
  <1>18. CASE HandleHeartbeat
    <2>1. Types(Rest) \subseteq Now /\ OneStep(Rest)
      BY <1>18, Handling DEF HandleHeartbeat
    <2>2. Then \subseteq Types(Rest) \union {"writeError"} /\ OneStep(queue')
      BY <1>18, <2>1, Beats
    <2> QED BY <1>18, <2>1, <2>2 DEF HandleHeartbeat
  <1>19. CASE DoClose
    <2>1. Types(Rest) \subseteq Now /\ OneStep(Rest) /\ Rest \in Seq(Entries)
      BY <1>19, Handling DEF DoClose
    <2>2. queue' = Aged(Rest)
      BY <1>19 DEF DoClose, Aged
    <2>3. Then \subseteq Now /\ OneStep(queue')
      BY <2>1, <2>2, GivenUp
    <2> QED BY <1>19, <2>1, <2>3 DEF DoClose, Abort
  <1> QED BY <1>1, <1>2, <1>3, <1>4, <1>5, <1>6, <1>7, <1>8, <1>9, <1>10, <1>11, <1>12, <1>13,
             <1>14, <1>15, <1>16, <1>17, <1>18, <1>19, Actions DEF Errors


(* What a step that neither reads nor resets the decoder leaves true. *)
LEMMA DecoderFrame ==
  ASSUME Decoder, inside' = inside, held' = held, reads' \in {0, reads},
         Connecting' => Connecting, link' = "closed" <=> link = "closed",
         ReadsOf(queue') \subseteq ReadsOf(queue)
  PROVE  Decoder'
  <1>1. Connecting' => ~inside' /\ held' = "nothing"
    BY DEF Decoder
  <1>2. reads' = 1 => held' = IF inside' THEN "new" ELSE "nothing"
    BY DEF Decoder
  <1>3. ASSUME NEW e \in ReadsOf(queue')
        PROVE  InStep(e)' /\ IF link' = "closed" THEN e.old ELSE ~e.old /\ (inside' <=> e.ends)
    <2>1. InStep(e) /\ IF link = "closed" THEN e.old ELSE ~e.old /\ (inside <=> e.ends)
      BY <1>3 DEF Decoder
    <2>2. InStep(e)'
      BY <2>1 DEF InStep
    <2> QED BY <2>1, <2>2
  <1>4. held' # "garbage" /\ (held' = "old" => link' = "closed")
    BY DEF Decoder
  <1> QED BY <1>1, <1>2, <1>3, <1>4 DEF Decoder

(* The decoder follows the chain. *)
LEMMA DecoderStep ==
  ASSUME Typed, NewState, Bounded, OneReader, Decoder, Next, "reconnect" \notin raced'
  PROVE  Decoder'
  <1> USE DEF Steps
  <1> DEFINE Now == Types(queue)
             Then == Types(queue')
  <1>0. /\ reads \in Nat /\ queue \in Seq(Entries) /\ inside \in BOOLEAN
        /\ "reconnect" \notin raced /\ "reconnect" \notin Crowded(queue)
    BY RacedGrows DEF Typed, TypeOK, Bounded
  <1>1. CASE Run
    <2>1. queue = <<>> /\ reads = 0 /\ link = "closed" /\ held' = "nothing"
      BY <1>1 DEF Run, NewState, Typed, TypeOK
    <2>2. CASE Connect(queue)
      <3>1. queue' = <<>> /\ reads' = 0 /\ ~inside'
        BY <2>1, <2>2, <1>0, Connected
      <3> QED BY <2>1, <3>1, NothingQueued DEF Decoder, Connecting
    <2>3. CASE CannotResolve(queue)
      <3>1. queue' = <<>> /\ reads' = 0 /\ link' = "closed"
        BY <2>1, <2>3 DEF CannotResolve
      <3> QED BY <2>1, <3>1, NothingQueued DEF Decoder, Connecting
    <2> QED BY <1>1, <2>2, <2>3 DEF Run
  <1>2. CASE Stop
    <2>1. Finish(Done("close"))
      BY <1>2 DEF Stop, Finish
    <2>2. Then = Now \union {"close"} /\ ReadsOf(queue') = ReadsOf(queue)
      BY <2>1, FinishDone DEF Kinds
    <2> QED BY <1>2, <2>2, DecoderFrame DEF Stop, Connecting, peerVars
  <1>3. CASE ConnectSucceeds
    <2>1. Then = Now \union {"connect"} /\ ReadsOf(queue') = ReadsOf(queue)
      BY <1>3, FinishDone DEF ConnectSucceeds, Kinds
    <2> QED BY <1>3, <2>1, DecoderFrame DEF ConnectSucceeds, Connecting, peerVars
  <1>4. CASE ConnectFails
    <2>1. Then = Now \union {"connectError"} /\ ReadsOf(queue') = ReadsOf(queue)
      BY <1>4, FinishDone DEF ConnectFails, Kinds
    <2> QED BY <1>4, <2>1, DecoderFrame DEF ConnectFails, Connecting, peerVars
  <1>5. CASE PeerCloses
    BY <1>5, DecoderFrame DEF PeerCloses, Connecting, peerVars
  <1>6. CASE ReadSucceeds
    <2>1. reads = 1 /\ Now \intersect Steps = {} /\ reads' = 0 /\ link = "open" /\ link' = "open"
          /\ held' = held
      BY <1>0, <1>6 DEF ReadSucceeds, OneReader
    <2>2. ReadsOf(queue) = {}
      BY <1>0, <2>1, ReadsAreQueued
    <2>3. PICK x \in Entries :
            /\ ~x.old /\ (x.begins <=> inside) /\ (x.ends <=> inside')
            /\ ReadsOf(queue') = ReadsOf(queue) \union {x}
      BY <1>0, <1>6, FinishRead
    <2>4. Then = Now \union {"read"}
      BY <1>0, <1>6, FinishRead
    <2>5. held = IF inside THEN "new" ELSE "nothing"
      BY <2>1 DEF Decoder
    <2>6. InStep(x)'
      BY <2>1, <2>3, <2>5 DEF InStep
    <2>7. ~Connecting'
      BY <2>1, <2>4 DEF Connecting
    <2>8. \A e \in ReadsOf(queue') : e = x
      BY <2>2, <2>3
    <2>9. \A e \in ReadsOf(queue') :
            InStep(e)' /\ IF link' = "closed" THEN e.old ELSE ~e.old /\ (inside' <=> e.ends)
      BY <2>1, <2>3, <2>6, <2>8
    <2>10. held' # "garbage" /\ (held' = "old" => link' = "closed")
      BY <2>1, <2>5
    <2> QED BY <2>1, <2>7, <2>9, <2>10 DEF Decoder
  <1>7. CASE ReadFails
    <2>1. Then = Now \union {"readError"} /\ ReadsOf(queue') = ReadsOf(queue)
      BY <1>7, FinishDone DEF ReadFails, Kinds
    <2>2. reads' = 0
      BY <1>0, <1>7 DEF ReadFails, OneReader
    <2> QED BY <1>7, <2>1, <2>2, DecoderFrame DEF ReadFails, Connecting, peerVars
  <1>8. CASE WriteSucceeds
    BY <1>8, DecoderFrame DEF WriteSucceeds, Connecting
  <1>9. CASE WriteFails
    <2>1. Then = Now \union {"writeError"} /\ ReadsOf(queue') = ReadsOf(queue)
      BY <1>9, FinishDone DEF WriteFails, Kinds
    <2> QED BY <1>9, <2>1, DecoderFrame DEF WriteFails, Connecting, peerVars
  <1>10. ASSUME NEW t \in {"reconnect", "heartbeat"}, Expire(t) PROVE Decoder'
    <2>1. Then = Now \union {t} /\ ReadsOf(queue') = ReadsOf(queue)
      BY <1>10, FinishDone DEF Expire, Kinds
    <2> QED BY <1>10, <2>1, DecoderFrame DEF Expire, Connecting, peerVars
  <1>11. CASE HandleConnect
    <2>1. /\ Now = Types(Rest) \union {"connect"} /\ Types(Rest) \intersect Steps = {}
          /\ reads = 0 /\ link # "connecting" /\ link # "closed"
          /\ Rest \in Seq(Entries) /\ link' = link /\ inside' = inside /\ held' = held
      BY <1>11, Handling DEF HandleConnect, OneReader, peerVars
    <2>2. PICK q \in Seq(Entries), r \in Refused :
            /\ (Types(q) = Types(Rest) \union {"writeError"} /\ link = "connecting") \/ q = Rest
            /\ StartRead(r) /\ queue' = q \o Failure("readError", r)
      BY <1>11, LogsOn
    <2>3. queue' = Rest
      BY <2>1, <2>2, ReadStarted
    <2>4. ReadsOf(queue') = {} /\ ~Connecting'
      BY <2>1, <2>3, ReadsAreQueued DEF Connecting
    <2>5. ~inside /\ held = "nothing"
      BY <2>1 DEF Decoder, Connecting
    <2> QED BY <2>1, <2>4, <2>5 DEF Decoder
  <1>12. CASE HandleConnectNull
    BY <1>12, DecoderFrame DEF HandleConnectNull, Connecting, peerVars
  <1>13. CASE HandleConnectError
    <2>1. Then \subseteq Now /\ ReadsOf(queue') \subseteq ReadsOf(queue)
      BY <1>13, Handling DEF HandleConnectError
    <2> QED BY <1>13, <2>1, DecoderFrame DEF HandleConnectError, Connecting, peerVars
  <1>14. CASE HandleConnectClosed
    <2>1. Then \subseteq Now /\ ReadsOf(queue') \subseteq ReadsOf(queue)
      BY <1>14, Handling DEF HandleConnectClosed
    <2> QED BY <1>14, <2>1, DecoderFrame DEF HandleConnectClosed, Connecting, peerVars
  <1>15. CASE HandleRead
    <2> DEFINE e == Head(queue)
    <2>1. /\ Now = Types(Rest) \union {"read"} /\ Types(Rest) \intersect Steps = {}
          /\ Rest \in Seq(Entries) /\ reads = 0 /\ link # "connecting" /\ e \in ReadsOf(queue)
      BY <1>15, Handling DEF HandleRead, OneReader
    <2>2. PICK r \in Refused : StartRead(r) /\ queue' = Rest \o Failure("readError", r)
      BY <1>15, ReadsOn
    <2>3. ReadsOf(queue') = ReadsOf(Rest) /\ Then \subseteq Types(Rest) \union {"readError"}
      BY <2>1, <2>2, ReadStarted
    <2>4. reads' = reads \/ (reads' = reads + 1 /\ link # "closed")
      BY <2>1, <2>2, ReadStarted
    <2>5. ReadsOf(queue') = {}
      BY <2>1, <2>3, ReadsAreQueued
    <2>6. link' = link /\ inside' = inside
      BY <1>15 DEF HandleRead, peerVars
    <2>7. ~Connecting'
      BY <2>1, <2>3, <2>6 DEF Connecting
    <2>8. InStep(e) /\ IF link = "closed" THEN e.old ELSE ~e.old /\ (inside <=> e.ends)
      BY <2>1 DEF Decoder
    <2>9. held' = IF e.ends THEN (IF e.old THEN "old" ELSE "new") ELSE "nothing"
      BY <1>15, <2>8 DEF HandleRead, Decoded
    <2>10. reads' = 1 => held' = IF inside' THEN "new" ELSE "nothing"
      BY <2>1, <2>4, <2>6, <2>8, <2>9
    <2>11. held' # "garbage" /\ (held' = "old" => link' = "closed")
      BY <2>6, <2>8, <2>9
    <2> QED BY <2>5, <2>7, <2>10, <2>11 DEF Decoder
  <1>16. ASSUME NEW t \in Errors, HandleError(t) PROVE Decoder'
    <2>1. Then \subseteq Now /\ ReadsOf(queue') \subseteq ReadsOf(queue)
      BY <1>16, Handling DEF HandleError
    <2> QED BY <1>16, <2>1, DecoderFrame DEF HandleError, Connecting, peerVars
  <1>17. CASE HandleReconnect
    <2>1. Rest = <<>> /\ Rest \in Seq(Entries) /\ held' = "nothing"
      BY <1>0, <1>17, Handling DEF HandleReconnect, Timers, ResetCodec
    <2>2. CASE Connect(Rest)
      <3>1. queue' = <<>> /\ reads' = 0 /\ ~inside' /\ link' = "connecting"
        BY <2>1, <2>2, Connected
      <3> QED BY <2>1, <3>1, NothingQueued DEF Decoder
    <2>3. CASE ~Connect(Rest)
      <3>1. /\ queue' = <<>> /\ reads' = reads /\ inside' = inside /\ link' = link
            /\ ~(reads > 0)
        BY <1>17, <2>1, <2>3 DEF HandleReconnect, CannotResolve, peerVars
      <3>2. Connecting' => ~inside'
        BY <3>1, NothingQueued DEF Connecting, Decoder
      <3> QED BY <1>0, <2>1, <3>1, <3>2, NothingQueued DEF Decoder
    <2> QED BY <2>2, <2>3
  <1>18. CASE HandleHeartbeat
    <2>1. Types(Rest) \subseteq Now /\ ReadsOf(Rest) \subseteq ReadsOf(queue)
      BY <1>18, Handling DEF HandleHeartbeat
    <2>2. Then \subseteq Types(Rest) \union {"writeError"} /\ ReadsOf(queue') = ReadsOf(Rest)
      BY <1>18, <2>1, Beats
    <2> QED BY <1>18, <2>1, <2>2, DecoderFrame DEF HandleHeartbeat, Connecting, peerVars
  <1>19. CASE DoClose
    <2>1. ReadsOf(Rest) \subseteq ReadsOf(queue) /\ Rest \in Seq(Entries)
      BY <1>19, Handling DEF DoClose
    <2>2. queue' = Aged(Rest) /\ link' = "closed" /\ reads' = 0 /\ held' = Former(held)
      BY <1>19 DEF DoClose, Aged, Abort
    <2>3. \A e \in ReadsOf(queue') : InStep(e)' /\ e.old
      <3> SUFFICES ASSUME NEW e \in ReadsOf(queue') PROVE InStep(e)' /\ e.old
        OBVIOUS
      <3>1. PICK d \in ReadsOf(Rest) : e.old /\ e.begins = d.begins
        BY <2>1, <2>2, GivenUp
      <3>2. d.begins \in BOOLEAN /\ d.old \in BOOLEAN
        BY <2>1, ReadsAreQueued, EntryFields
      <3>3. held = IF ~d.begins THEN "nothing" ELSE IF d.old THEN "old" ELSE "new"
        BY <2>1 DEF Decoder, InStep
      <3>4. held' = IF ~e.begins THEN "nothing" ELSE "old"
        BY <2>2, <3>1, <3>2, <3>3 DEF Former
      <3> QED BY <3>1, <3>4 DEF InStep
    <2>4. held' # "garbage"
      BY <2>2 DEF Decoder, Former
    <2> QED BY <2>2, <2>3, <2>4 DEF Decoder, Connecting
  <1> QED BY <1>1, <1>2, <1>3, <1>4, <1>5, <1>6, <1>7, <1>8, <1>9, <1>10, <1>11, <1>12, <1>13,
             <1>14, <1>15, <1>16, <1>17, <1>18, <1>19, Actions DEF Errors


-----------------------------------------------------------------------------
(* While no timer raced, one connection follows the other. *)

(* A timer that did not race is all there is in the queue. *)
LEMMA TimerOnly ==
  ASSUME NEW q \in Seq(Entries), Crowded(q) = {}, NEW t \in Timers, t \in Types(q)
  PROVE  Types(q) = {t} /\ ReadsOf(q) = {}
  <1>1. PICK i \in DOMAIN q : q[i].type = t
    BY DEF Types
  <1>2. Len(q) \in Nat /\ DOMAIN q = 1..Len(q) /\ ~(Len(q) > 1)
    BY <1>1 DEF Crowded
  <1>3. \A j \in DOMAIN q : j = i
    BY <1>1, <1>2
  <1> QED BY <1>1, <1>3 DEF Types, ReadsOf, Timers

(* What the queued reads say. *)
LEMMA CarriesLess ==
  ASSUME NEW m, \A e \in ReadsOf(queue') : \E d \in ReadsOf(queue) : e.msg = d.msg
  PROVE  Carries(m)' => Carries(m)
  BY DEF Carries

(* A step that leaves these alone keeps what is between the connections. *)
LEMMA CalmFrame ==
  ASSUME Alone, ErrorsLast, Over, Session,
         link' = link, session' = session, user' \in {user, "stopped"}, armed' = armed,
         writes' = <<>> \/ writes' = writes,
         NEW T \in SUBSET {"close", "writeError", "readError"},
         Types(queue') \subseteq Types(queue) \union T,
         T = {} \/ T = {"close"} \/
           (link \in {"broken", "closed"} /\ "connect" \notin Types(queue')
              /\ "connectError" \notin Types(queue')),
         ReadsFirst(queue'), ReadsOf(queue') \subseteq ReadsOf(queue)
  PROVE  Alone' /\ ErrorsLast' /\ Over' /\ Session'
  <1>1. (Carries("logon")' => Carries("logon")) /\ (Carries("logout")' => Carries("logout"))
    BY CarriesLess
  <1>2. Alone'
    BY DEF Alone
  <1>3. ErrorsLast'
    BY DEF ErrorsLast, Errors
  <1>4. Over'
    BY <1>1 DEF Over, Planned
  <1>5. Session'
    BY <1>1 DEF Session
  <1> QED BY <1>2, <1>3, <1>4, <1>5

(* Each step leaves nothing of the connection before. *)
LEMMA CalmStep ==
  ASSUME Typed, NewState, Bounded, OneReader, Alone, ErrorsLast, Over, Session, Next,
         raced' = {}, Typed', Bounded'
  PROVE  Alone' /\ ErrorsLast' /\ Over' /\ Session'
  <1> DEFINE Now == Types(queue)
             Then == Types(queue')
             Goal == Alone' /\ ErrorsLast' /\ Over' /\ Session'
  <1>0. /\ reads \in Nat /\ queue \in Seq(Entries) /\ queue' \in Seq(Entries)
        /\ raced = {} /\ Crowded(queue) = {} /\ Crowded(queue') = {}
        /\ "reconnect" \in Timers /\ "heartbeat" \in Timers
        /\ OneStep(queue) /\ ReadsFirst(queue)
    BY RacedGrows DEF Typed, TypeOK, Bounded, Timers, OneReader, ErrorsLast
  <1>a. /\ "reconnect" \in Now => Now = {"reconnect"} /\ ReadsOf(queue) = {}
        /\ "heartbeat" \in Now => Now = {"heartbeat"} /\ ReadsOf(queue) = {}
    BY <1>0, TimerOnly
  <1>b. /\ "reconnect" \in Then => Then = {"reconnect"} /\ ReadsOf(queue') = {}
        /\ "heartbeat" \in Then => Then = {"heartbeat"} /\ ReadsOf(queue') = {}
    BY <1>0, TimerOnly
  <1>c. /\ "read" \notin Now => ReadsOf(queue) = {}
        /\ "read" \notin Then => ReadsOf(queue') = {}
    BY <1>0, ReadsAreQueued
  <1>d. ReadsOf(queue') \subseteq ReadsOf(queue) =>
          (Carries("logon")' => Carries("logon")) /\ (Carries("logout")' => Carries("logout"))
    BY CarriesLess
  <1>1. CASE Run
    <2>1. queue = <<>> /\ link = "closed" /\ armed = {} /\ session = "none"
      BY <1>1 DEF Run, NewState, Typed, TypeOK
    <2>2. CASE Connect(queue) /\ UNCHANGED armed
      <3>1. queue' = <<>> /\ writes' = <<>> /\ link' = "connecting" /\ armed' = {}
        BY <2>1, <2>2, <1>0, Connected
      <3> QED BY <3>1, NothingQueued
              DEF Alone, ErrorsLast, Over, Planned, Session, Carries
    <2>3. CASE CannotResolve(queue) /\ armed' = {"reconnect"}
      <3>1. queue' = <<>> /\ link' = "closed" /\ armed' = {"reconnect"} /\ session' = "none"
        BY <2>1, <2>3 DEF CannotResolve, peerVars
      <3> QED BY <3>1, NothingQueued
              DEF Alone, ErrorsLast, Over, Planned, Session, Carries
    <2> QED BY <1>1, <2>2, <2>3 DEF Run
  <1>2. CASE Stop
    <2>1. Finish(Done("close"))
      BY <1>2 DEF Stop, Finish
    <2>2. Then = Now \union {"close"} /\ ReadsOf(queue') = ReadsOf(queue)
          /\ ReadsFirst(queue')
      BY <1>0, <2>1, FinishDone DEF Kinds
    <2>3. link' = link /\ session' = session /\ user' \in {user, "stopped"} /\ armed' = armed
          /\ writes' = writes
      BY <1>2 DEF Stop, peerVars
    <2>4. {"close"} \in SUBSET {"close", "writeError", "readError"}
      OBVIOUS
    <2> QED BY <2>2, <2>3, <2>4, CalmFrame
  <1>3. CASE ConnectSucceeds
    <2>1. Then = Now \union {"connect"} /\ ReadsFirst(queue')
      BY <1>0, <1>3, FinishDone DEF ConnectSucceeds, Kinds
    <2>2. armed' = {} /\ writes' = <<>> /\ Now \subseteq {"close"} /\ link' = "open"
      BY <1>3 DEF ConnectSucceeds, Alone
    <2>3. ReadsOf(queue') = {}
      BY <1>c, <2>1, <2>2
    <2> QED BY <2>1, <2>2, <2>3 DEF Alone, ErrorsLast, Errors, Over, Planned, Session, Carries
  <1>4. CASE ConnectFails
    <2>1. Then = Now \union {"connectError"} /\ ReadsFirst(queue')
      BY <1>0, <1>4, FinishDone DEF ConnectFails, Kinds
    <2>2. armed' = {} /\ writes' = <<>> /\ Now \subseteq {"close"} /\ link' = "broken"
      BY <1>4 DEF ConnectFails, Alone
    <2>3. ReadsOf(queue') = {}
      BY <1>c, <2>1, <2>2
    <2> QED BY <2>1, <2>2, <2>3 DEF Alone, ErrorsLast, Errors, Over, Planned, Session, Carries
  <1>5. CASE PeerCloses
    <2>1. /\ link = "open" /\ link' = "broken" /\ queue' = queue /\ session' = session
          /\ armed' = armed /\ writes' = writes /\ user' = user
      BY <1>5 DEF PeerCloses, peerVars
    <2>2. Carries("logon")' = Carries("logon") /\ Carries("logout")' = Carries("logout")
      BY <2>1 DEF Carries
    <2> QED BY <2>1, <2>2 DEF Alone, ErrorsLast, Over, Planned, Session
  <1>6. CASE ReadSucceeds
    <2>1. Now \intersect Steps = {} /\ Now \intersect Errors = {}
      BY <1>6 DEF ReadSucceeds, OneReader, ErrorsLast
    <2>2. Then = Now \union {"read"} /\ ReadsFirst(queue')
      BY <1>0, <1>6, <2>1, FinishRead DEF Typed, TypeOK
    <2>3. PICK x \in Entries :
            /\ x.msg = "logon" => session = "asked"
            /\ session' = CASE x.msg = "logon" -> "on" [] x.msg = "logout" -> "off"
                              [] OTHER -> session
            /\ ReadsOf(queue') = ReadsOf(queue) \union {x}
      BY <1>0, <1>6, FinishRead DEF Typed, TypeOK
    <2>4. /\ link = "open" /\ link' = "open" /\ armed' = armed /\ user' = user
          /\ "read" \notin Now /\ "connect" \notin Now /\ "connectError" \notin Now
      BY <1>6, <2>1 DEF ReadSucceeds, Steps
    <2>5. ReadsOf(queue') = {x}
      BY <1>c, <2>3, <2>4
    <2>6. /\ Carries("logon")' <=> x.msg = "logon"
          /\ Carries("logout")' <=> x.msg = "logout"
      BY <2>5 DEF Carries
    <2>7. session' \in {"on", "off"} \/ (session' = session /\ x.msg # "logout" /\ x.msg # "logon")
      BY <2>3
    <2>8. session = "off" => session' = "off" /\ x.msg # "logon"
      BY <2>3
    <2>9. (x.msg = "logon" => session' = "on") /\ (x.msg = "logout" => session' = "off")
      BY <2>3
    <2>10. Alone'
      BY <2>2, <2>4 DEF Alone
    <2>11. ErrorsLast'
      BY <2>1, <2>2, <2>4 DEF ErrorsLast, Errors
    <2>12. Over'
      BY <2>2, <2>4, <2>6, <2>8 DEF Over, Planned
    <2>13. Session'
      <3>1. "heartbeat" \in armed' \/ "heartbeat" \in Then =>
              user' = "stopped" \/ session' \in {"on", "off"}
        BY <2>2, <2>4, <2>7 DEF Session
      <3> QED BY <2>6, <2>9, <3>1 DEF Session
    <2> QED BY <2>10, <2>11, <2>12, <2>13
  <1>7. CASE ReadFails
    <2>1. Now \intersect Steps = {}
      BY <1>7 DEF ReadFails, OneReader
    <2>2. Then = Now \union {"readError"} /\ ReadsOf(queue') = ReadsOf(queue)
          /\ ReadsFirst(queue')
      BY <1>0, <1>7, FinishDone DEF ReadFails, Kinds
    <2>3. link = "broken" /\ link' = link /\ session' = session /\ user' = user /\ armed' = armed
          /\ writes' = writes
      BY <1>7 DEF ReadFails, peerVars
    <2>4. {"readError"} \in SUBSET {"close", "writeError", "readError"}
      OBVIOUS
    <2>5. "connect" \notin Then /\ "connectError" \notin Then
      BY <2>1, <2>2 DEF Steps
    <2> QED BY <2>2, <2>3, <2>4, <2>5, CalmFrame
  <1>8. CASE WriteSucceeds
    <2>1. /\ link = "open" /\ link' = "open" /\ queue' = queue /\ armed' = armed
          /\ writes # <<>> /\ user' = user
          /\ session' = session \/ (session = "none" /\ session' = "asked")
      BY <1>8 DEF WriteSucceeds
    <2>2. Carries("logon")' = Carries("logon") /\ Carries("logout")' = Carries("logout")
      BY <2>1 DEF Carries
    <2> QED BY <2>1, <2>2 DEF Alone, ErrorsLast, Over, Planned, Session
  <1>9. CASE WriteFails
    <2>1. Then = Now \union {"writeError"} /\ ReadsOf(queue') = ReadsOf(queue)
          /\ ReadsFirst(queue')
      BY <1>0, <1>9, FinishDone DEF WriteFails, Kinds
    <2>2. link = "broken" /\ link' = link /\ session' = session /\ user' = user /\ armed' = armed
          /\ writes # <<>>
      BY <1>9 DEF WriteFails, peerVars
    <2>3. "connect" \notin Then /\ "connectError" \notin Then
      BY <2>1, <2>2 DEF Alone
    <2>4. Alone'
      BY <2>2, <2>3 DEF Alone
    <2>5. ErrorsLast'
      BY <2>1, <2>2 DEF ErrorsLast
    <2>6. Over'
      BY <1>d, <2>1, <2>2 DEF Over, Planned
    <2>7. Session'
      BY <1>d, <2>1, <2>2 DEF Session
    <2> QED BY <2>4, <2>5, <2>6, <2>7
  <1>10. ASSUME NEW t \in {"reconnect", "heartbeat"}, Expire(t) PROVE Goal
    <2>1. Then = Now \union {t}
      BY <1>10, FinishDone DEF Expire, Kinds
    <2>2. Then = {t} /\ ReadsOf(queue') = {} /\ ReadsFirst(queue')
      <3>1. ReadsFirst(queue')
        BY <1>0, <1>10, FinishDone DEF Expire, Kinds
      <3> QED BY <1>b, <2>1, <3>1
    <2>3. link' = link /\ session' = session /\ user' = user /\ t \in armed
          /\ armed' = armed \ {t}
      BY <1>10 DEF Expire, peerVars
    <2>4. ~Carries("logon")' /\ ~Carries("logout")'
      BY <2>2 DEF Carries
    <2>5. link # "connecting"
      BY <2>3 DEF Alone
    <2>6. Alone' /\ ErrorsLast'
      BY <2>2, <2>3, <2>5 DEF Alone, ErrorsLast, Errors
    <2>7. Over'
      BY <2>2, <2>3, <2>4 DEF Over, Planned
    <2>8. Session'
      BY <2>2, <2>3, <2>4 DEF Session
    <2> QED BY <2>6, <2>7, <2>8
  <1>11. CASE HandleConnect
    <2>1. /\ Now = Types(Rest) \union {"connect"} /\ Types(Rest) \intersect Steps = {}
          /\ link # "connecting" /\ link # "closed" /\ Rest \in Seq(Entries)
          /\ ReadsFirst(Rest)
      BY <1>0, <1>11, Handling DEF HandleConnect, OneReader, Steps
    <2>2. PICK q \in Seq(Entries), r \in Refused :
            /\ (Types(q) = Types(Rest) \union {"writeError"} /\ link = "connecting") \/ q = Rest
            /\ StartRead(r) /\ queue' = q \o Failure("readError", r)
      BY <1>11, LogsOn
    <2>3. queue' = Rest
      BY <2>1, <2>2, ReadStarted
    <2>4. link' = link /\ session' = session /\ user' = user /\ armed' = armed
      BY <1>11 DEF HandleConnect, peerVars
    <2>5. "connect" \in Now /\ armed = {} /\ "writeError" \notin Now
      BY <2>1 DEF Alone
    <2>6. "heartbeat" \notin Then /\ "reconnect" \notin Then /\ "connect" \notin Then
          /\ "connectError" \notin Then /\ "read" \notin Then /\ Then \intersect Errors = {}
      BY <1>a, <2>1, <2>3, <2>5 DEF Steps, Errors
    <2>7. ~Carries("logon")' /\ ~Carries("logout")'
      BY <1>c, <2>6 DEF Carries
    <2> QED BY <2>1, <2>3, <2>4, <2>5, <2>6, <2>7 DEF Alone, ErrorsLast, Over, Planned, Session
  <1>12. CASE HandleConnectNull
    <2>1. queue' = queue /\ link' = link /\ session' = session /\ user' = user /\ armed' = armed
          /\ writes' = writes
      BY <1>12 DEF HandleConnectNull, peerVars
    <2>2. {} \in SUBSET {"close", "writeError", "readError"}
      OBVIOUS
    <2> QED BY <1>0, <2>1, <2>2, CalmFrame
  <1>13. CASE HandleConnectError
    <2>1. /\ Now = Types(Rest) \union {"connectError"} /\ Types(Rest) \intersect Steps = {}
          /\ ReadsFirst(Rest) /\ queue' = Rest
      BY <1>0, <1>13, Handling DEF HandleConnectError, Steps
    <2>2. link' = link /\ session' = session /\ user' = user /\ link # "closed"
          /\ armed' = armed \union {"reconnect"}
      BY <1>13 DEF HandleConnectError, peerVars
    <2>3. armed = {} /\ link = "broken"
      BY <2>1, <2>2 DEF Alone
    <2>4. "heartbeat" \notin Then /\ "connect" \notin Then /\ "connectError" \notin Then
          /\ "read" \notin Then
      BY <1>a, <2>1 DEF Steps
    <2>5. ~Carries("logon")' /\ ~Carries("logout")'
      BY <1>c, <2>4 DEF Carries
    <2> QED BY <2>1, <2>2, <2>3, <2>4, <2>5
            DEF Alone, ErrorsLast, Over, Planned, Session
  <1>14. CASE HandleConnectClosed
    <2>1. queue' = Rest /\ link' = link /\ session' = session /\ user' = user /\ armed' = armed
          /\ writes' = writes
      BY <1>14 DEF HandleConnectClosed, peerVars
    <2>2. {} \in SUBSET {"close", "writeError", "readError"}
      OBVIOUS
    <2>3. Then \subseteq Now /\ ReadsFirst(queue') /\ ReadsOf(queue') \subseteq ReadsOf(queue)
      BY <1>0, <1>14, <2>1, Handling DEF HandleConnectClosed
    <2> QED BY <2>1, <2>2, <2>3, CalmFrame
  <1>15. CASE HandleRead
    <2> DEFINE e == Head(queue)
    <2>1. /\ Now = Types(Rest) \union {"read"} /\ Types(Rest) \intersect Steps = {}
          /\ Rest \in Seq(Entries) /\ link # "connecting" /\ e \in ReadsOf(queue)
          /\ ReadsFirst(Rest)
      BY <1>0, <1>15, Handling DEF HandleRead, OneReader, Steps
    <2>2. PICK r \in Refused : StartRead(r) /\ queue' = Rest \o Failure("readError", r)
      BY <1>15, ReadsOn
    <2>3. /\ ReadsFirst(queue')
          /\ \/ Then = Types(Rest) \union {"readError"} /\ link \in {"closed", "connecting"}
             \/ Then = Types(Rest)
      BY <2>1, <2>2, ReadStarted
    <2>4. link' = link /\ session' = session /\ user' = user
      BY <1>15 DEF HandleRead, peerVars
    <2>5. "heartbeat" \notin Then /\ "reconnect" \notin Then /\ "connect" \notin Then
          /\ "connectError" \notin Then /\ "read" \notin Then
      BY <1>a, <2>1, <2>3 DEF Steps
    <2>6. ~Carries("logon")' /\ ~Carries("logout")'
      BY <1>c, <2>5 DEF Carries
    <2>7. Alone' /\ ErrorsLast'
      <3>1. Alone'
        BY <2>1, <2>4, <2>5 DEF Alone
      <3>2. Then \intersect Errors # {} => link' \in {"broken", "closed"}
        BY <2>1, <2>3, <2>4 DEF ErrorsLast
      <3> QED BY <2>3, <3>1, <3>2 DEF ErrorsLast
    <2>8. armed' = armed \/ Message(e.msg)
      BY <1>15 DEF HandleRead
    <2>9. CASE armed' = armed
      BY <2>4, <2>5, <2>6, <2>7, <2>9 DEF Over, Planned, Session
    <2>10. CASE e.msg = "logon" /\ armed' = armed \union {"heartbeat"}
      <3>1. Carries("logon")
        BY <2>1, <2>10 DEF Carries
      <3> QED BY <2>4, <2>5, <2>6, <2>7, <2>10, <3>1 DEF Over, Planned, Session
    <2>11. CASE e.msg = "logout" /\ armed' = (armed \ {"heartbeat"}) \union {"reconnect"}
      <3>1. Carries("logout")
        BY <2>1, <2>11 DEF Carries
      <3> QED BY <2>4, <2>5, <2>6, <2>7, <2>11, <3>1 DEF Over, Planned, Session
    <2> QED BY <2>8, <2>9, <2>10, <2>11 DEF Message
  <1>16. ASSUME NEW t \in Errors, HandleError(t) PROVE Goal
    <2>1. /\ Now = Types(Rest) \union {t} /\ queue' = Rest /\ ReadsFirst(queue')
          /\ ReadsOf(queue') = {}
          /\ t \in Steps => Types(Rest) \intersect Steps = {}
      BY <1>0, <1>16, Handling DEF HandleError
    <2>2. link' = link /\ session' = session /\ user' = user
          /\ armed' = (armed \ {"heartbeat"}) \union {"reconnect"}
      BY <1>16 DEF HandleError, peerVars
    <2>3. link \in {"broken", "closed"}
      BY <2>1 DEF ErrorsLast
    <2>4. "heartbeat" \notin Then /\ "connect" \notin Then /\ "connectError" \notin Then
      BY <1>a, <2>1 DEF Steps, Errors, Alone
    <2>5. ~Carries("logon")' /\ ~Carries("logout")'
      BY <2>1 DEF Carries
    <2> QED BY <2>1, <2>2, <2>3, <2>4, <2>5
            DEF Alone, ErrorsLast, Over, Planned, Session
  <1>17. CASE HandleReconnect
    <2>1. Rest = <<>> /\ Rest \in Seq(Entries) /\ "reconnect" \in Now
      BY <1>0, <1>17, Handling DEF HandleReconnect
    <2>2. Now = {"reconnect"} /\ "heartbeat" \notin armed /\ armed \subseteq Timers
      BY <1>a, <2>1 DEF Over, Planned, Typed, TypeOK
    <2>3. CASE Connect(Rest) /\ armed' = armed \ {"reconnect"}
      <3>1. queue' = <<>> /\ writes' = <<>> /\ link' = "connecting"
        BY <2>1, <2>3, Connected
      <3>2. armed' = {}
        BY <2>2, <2>3 DEF Timers
      <3> QED BY <3>1, <3>2, NothingQueued
              DEF Alone, ErrorsLast, Over, Planned, Session, Carries
    <2>4. CASE ~Connect(Rest) \/ armed' # armed \ {"reconnect"}
      <3>1. queue' = <<>> /\ link' = link /\ session' = session
            /\ armed' = armed \union {"reconnect"}
        BY <1>17, <2>1, <2>4 DEF HandleReconnect, CannotResolve, peerVars
      <3>2. (link \in {"broken", "closed"} \/ session = "off") /\ link # "connecting"
        BY <2>1, <2>2 DEF Over, Planned, Alone
      <3> QED BY <2>2, <3>1, <3>2, NothingQueued
              DEF Alone, ErrorsLast, Over, Planned, Session, Carries
    <2> QED BY <2>3, <2>4
  <1>18. CASE HandleHeartbeat
    <2>1. Rest = <<>> /\ Rest \in Seq(Entries) /\ "heartbeat" \in Now
      BY <1>0, <1>18, Handling DEF HandleHeartbeat
    <2>2. Now = {"heartbeat"} /\ "reconnect" \notin armed /\ link # "connecting"
      BY <1>a, <2>1 DEF Over, Planned, Alone
    <2>3. /\ ReadsFirst(queue') /\ ReadsOf(queue') = {}
          /\ Then = {} \/ (Then = {"writeError"} /\ link = "closed")
      BY <1>18, <2>1, <2>2, Beats, NothingQueued
    <2>4. link' = link /\ session' = session /\ user' = user
          /\ armed' = armed \union {"heartbeat"}
      BY <1>18 DEF HandleHeartbeat, peerVars
    <2> QED BY <2>1, <2>2, <2>3, <2>4 DEF Alone, ErrorsLast, Over, Planned, Session, Carries
  <1>19. CASE DoClose
    <2>1. /\ ReadsOf(Rest) \subseteq ReadsOf(queue) /\ Rest \in Seq(Entries)
          /\ Types(Rest) \subseteq Now /\ ReadsFirst(Rest) /\ user = "stopped"
      BY <1>0, <1>19, Handling DEF DoClose, Bounded
    <2>2. queue' = Aged(Rest) /\ link' = "closed" /\ armed' = armed /\ writes' = <<>>
          /\ user' = user
      BY <1>19 DEF DoClose, Aged, Abort
    <2>3. Then \subseteq Now /\ ReadsFirst(queue')
      BY <2>1, <2>2, GivenUp
    <2>4. \A e \in ReadsOf(queue') : \E d \in ReadsOf(queue) : e.msg = d.msg
      BY <2>1, <2>2, GivenUp
    <2>5. Carries("logon")' => Carries("logon")
      BY <2>4, CarriesLess
    <2> QED BY <2>1, <2>2, <2>3, <2>5 DEF Alone, ErrorsLast, Over, Planned, Session
  <1> QED BY <1>1, <1>2, <1>3, <1>4, <1>5, <1>6, <1>7, <1>8, <1>9, <1>10, <1>11, <1>12, <1>13,
             <1>14, <1>15, <1>16, <1>17, <1>18, <1>19, Actions DEF Errors


(* The encoder's buffers alternate until the next connection is planned. *)
LEMMA BuffersStep ==
  ASSUME Typed, NewState, Bounded, OneReader, Alone, Over, Buffers, Next, raced' = {},
         Typed', Bounded'
  PROVE  Buffers'
  <1> DEFINE Now == Types(queue)
             Then == Types(queue')
  <1>0. /\ queue \in Seq(Entries) /\ writes \in Seq(Writes) /\ Len(writes) \in Nat
        /\ DOMAIN writes = 1..Len(writes)
        /\ waitBuf \in {0, 1} /\ Crowded(queue) = {}
        /\ "reconnect" \in Timers /\ "heartbeat" \in Timers
    <2>1. writes \in Seq(Writes) /\ queue \in Seq(Entries) /\ waitBuf \in {0, 1}
      BY DEF Typed, TypeOK
    <2>2. Len(writes) \in Nat /\ DOMAIN writes = 1..Len(writes)
      BY <2>1
    <2>3. Crowded(queue) = {}
      BY RacedGrows DEF Bounded
    <2> QED BY <2>1, <2>2, <2>3 DEF Timers
  <1>a. ASSUME UNCHANGED <<writes, waitBuf>>, Planned => Planned' PROVE Buffers'
    BY <1>a DEF Buffers
  <1>b. ASSUME writes' = <<>> PROVE Buffers'
    <2>1. DOMAIN writes' = {}
      BY <1>b
    <2> QED BY <1>b, <2>1 DEF Buffers
  <1>c. ASSUME writes # <<>>, writes' = Tail(writes), waitBuf' = waitBuf, Planned => Planned'
        PROVE  Buffers'
    <2>1. /\ writes' \in Seq(Writes) /\ Len(writes') = Len(writes) - 1
          /\ \A i \in 1..Len(writes') : i + 1 \in DOMAIN writes /\ writes'[i] = writes[i + 1]
      BY <1>0, <1>c, HeadTailProperties
    <2>2. ASSUME writes' # <<>> PROVE writes'[Len(writes')] = writes[Len(writes)]
      <3>1. Len(writes') \in 1..Len(writes') /\ Len(writes') + 1 = Len(writes)
        BY <1>0, <2>1, <2>2, EmptySeq
      <3> QED BY <2>1, <3>1
    <2>3. writes' # <<>> => writes'[Len(writes')].buf = 1 - waitBuf' \/ Planned'
      BY <1>c, <2>2 DEF Buffers
    <2>4. ASSUME NEW i \in DOMAIN writes', writes'[i].torn PROVE Len(writes') >= i + 2
      <3>1. i \in Nat /\ i + 1 \in DOMAIN writes /\ writes[i + 1].torn
        BY <2>1, <2>4
      <3>2. Len(writes) >= (i + 1) + 2
        BY <3>1 DEF Buffers
      <3> QED BY <1>0, <2>1, <3>1, <3>2
    <2> QED BY <2>3, <2>4 DEF Buffers
  <1>d. ASSUME ~Planned, NEW t \in {"logon", "heartbeat"}, Send(t, FALSE)
        PROVE  Buffers'
    <2> DEFINE r == FALSE
    <2>1. r \in BOOLEAN /\ ~r /\ Send(t, r)
      BY <1>d
    <2> HIDE DEF r
    <2>2. /\ writes' \in Seq(Writes) /\ waitBuf' = 1 - waitBuf
          /\ Len(writes') = Len(writes) + 1
          /\ writes'[Len(writes')].buf = waitBuf /\ ~writes'[Len(writes')].torn
          /\ \A i \in DOMAIN writes : writes'[i].torn => writes[i].torn \/ writes[i].buf = waitBuf
      BY <2>1, Sending
    <2>3. writes'[Len(writes')].buf = 1 - waitBuf'
      BY <1>0, <2>2
    <2>4. ASSUME NEW i \in DOMAIN writes', writes'[i].torn PROVE Len(writes') >= i + 2
      <3>1. i \in 1..(Len(writes) + 1) /\ i # Len(writes) + 1
        BY <1>0, <2>2, <2>4
      <3>2. i \in DOMAIN writes
        BY <1>0, <3>1
      <3>3. CASE writes[i].torn
        <4>1. Len(writes) >= i + 2
          BY <3>2, <3>3 DEF Buffers
        <4> QED BY <1>0, <2>2, <3>1, <4>1
      <3>4. CASE writes[i].buf = waitBuf
        <4>1. writes # <<>>
          BY <1>0, <3>2
        <4>2. writes[Len(writes)].buf = 1 - waitBuf
          BY <1>d, <4>1 DEF Buffers
        <4>3. writes[Len(writes)].buf # writes[i].buf
          BY <1>0, <3>4, <4>2
        <4>4. i # Len(writes)
          BY <4>3
        <4> QED BY <1>0, <2>2, <3>1, <4>4
      <3> QED BY <2>2, <2>4, <3>2, <3>3, <3>4
    <2> QED BY <2>3, <2>4 DEF Buffers
  <1>1. CASE Run
    <2>1. writes = <<>>
      BY <1>1 DEF Run, NewState, Typed, TypeOK
    <2>2. writes' = <<>>
      BY <1>1, <2>1 DEF Run, Connect, CannotResolve, Abort
    <2> QED BY <1>b, <2>2
  <1>2. CASE Stop
    <2>1. Finish(Done("close"))
      BY <1>2 DEF Stop, Finish
    <2>2. Then = Now \union {"close"}
      BY <2>1, FinishDone DEF Kinds
    <2> QED BY <1>2, <1>a, <2>2 DEF Stop, Planned
  <1>3. CASE ConnectSucceeds
    <2>1. writes' = <<>>
      BY <1>3 DEF ConnectSucceeds, Alone
    <2> QED BY <1>b, <2>1
  <1>4. CASE ConnectFails
    <2>1. writes' = <<>>
      BY <1>4 DEF ConnectFails, Alone
    <2> QED BY <1>b, <2>1
  <1>5. CASE PeerCloses
    BY <1>5, <1>a DEF PeerCloses, Planned
  <1>6. CASE ReadSucceeds
    <2>1. Then = Now \union {"read"}
      BY <1>6, FinishRead DEF Typed, TypeOK
    <2> QED BY <1>6, <1>a, <2>1 DEF ReadSucceeds, Planned
  <1>7. CASE ReadFails
    <2>1. Then = Now \union {"readError"}
      BY <1>7, FinishDone DEF ReadFails, Kinds
    <2> QED BY <1>7, <1>a, <2>1 DEF ReadFails, Planned
  <1>8. CASE WriteSucceeds
    BY <1>8, <1>c DEF WriteSucceeds, Planned
  <1>9. CASE WriteFails
    <2>1. Then = Now \union {"writeError"}
      BY <1>9, FinishDone DEF WriteFails, Kinds
    <2> QED BY <1>9, <1>c, <2>1 DEF WriteFails, Planned
  <1>10. ASSUME NEW t \in {"reconnect", "heartbeat"}, Expire(t) PROVE Buffers'
    <2>1. Then = Now \union {t}
      BY <1>10, FinishDone DEF Expire, Kinds
    <2> QED BY <1>10, <1>a, <2>1 DEF Expire, Planned
  <1>11. CASE HandleConnect
    <2>1. "connect" \in Now /\ link # "closed"
      BY <1>11, Handling DEF HandleConnect
    <2>2. link # "connecting" /\ ~Planned
      BY <2>1 DEF OneReader, Steps, Over
    <2>3. Send("logon", FALSE)
      <3>1. PICK r \in Refused : Send("logon", r)
        BY <1>11, LogsOn
      <3>2. r = FALSE
        BY <2>1, <2>2, Refusal
      <3> QED BY <3>1, <3>2
    <2> QED BY <1>d, <2>2, <2>3
  <1>12. CASE HandleConnectNull
    BY <1>12, <1>a DEF HandleConnectNull, Planned
  <1>13. CASE HandleConnectError
    BY <1>13, <1>a DEF HandleConnectError, Planned
  <1>14. CASE HandleConnectClosed
    <2>1. writes' = <<>>
      BY <1>14 DEF HandleConnectClosed, Typed, TypeOK
    <2> QED BY <1>b, <2>1
  <1>15. CASE HandleRead
    <2>1. Now = Types(Rest) \union {"read"} /\ Rest \in Seq(Entries)
      BY <1>15, Handling DEF HandleRead
    <2>2. PICK r \in Refused : StartRead(r) /\ queue' = Rest \o Failure("readError", r)
      BY <1>15, ReadsOn
    <2>3. Types(Rest) \subseteq Then
      BY <2>1, <2>2, ReadStarted
    <2>4. "reconnect" \in armed => "reconnect" \in armed'
      BY <1>15 DEF HandleRead, Message
    <2>5. UNCHANGED <<writes, waitBuf>>
      BY <1>15 DEF HandleRead
    <2> QED BY <1>a, <2>1, <2>3, <2>4, <2>5 DEF Planned
  <1>16. ASSUME NEW t \in Errors, HandleError(t) PROVE Buffers'
    BY <1>16, <1>a DEF HandleError, Planned
  <1>17. CASE HandleReconnect
    <2>1. CASE Connect(Rest)
      BY <1>b, <2>1 DEF Connect, Abort
    <2>2. CASE ~Connect(Rest)
      <3>1. Planned' /\ writes' = writes /\ "reconnect" \in Now
        BY <1>17, <2>2, Handling DEF HandleReconnect, CannotResolve, Planned
      <3>2. \A i \in DOMAIN writes' : writes'[i].torn => Len(writes') >= i + 2
        BY <3>1 DEF Buffers
      <3> QED BY <3>1, <3>2 DEF Buffers
    <2> QED BY <2>1, <2>2
  <1>18. CASE HandleHeartbeat
    <2>1. Rest = <<>> /\ "heartbeat" \in Now
      BY <1>0, <1>18, Handling DEF HandleHeartbeat
    <2>2. ~Planned /\ link # "connecting"
      BY <2>1 DEF Over, Alone
    <2>3. CASE UNCHANGED <<writes, waitBuf>>
      BY <1>a, <2>2, <2>3
    <2>4. CASE ~UNCHANGED <<writes, waitBuf>>
      <3>1. PICK r \in Refused : Send("heartbeat", r)
        BY <1>18, <2>4 DEF HandleHeartbeat
      <3>2. CASE link = "closed"
        <4>1. r \in BOOLEAN /\ r /\ writes = <<>> /\ Len(writes) = 0
          BY <3>2, Refusal DEF Typed, TypeOK
        <4>2. writes' \in Seq(Writes) /\ Len(writes') = Len(writes)
          BY <3>1, <4>1, Sending
        <4>3. writes' = <<>>
          BY <4>1, <4>2, EmptySeq
        <4> QED BY <1>b, <4>3
      <3>3. CASE link # "closed"
        <4>1. r = FALSE
          BY <2>2, <3>3, Refusal
        <4>2. Send("heartbeat", FALSE)
          BY <3>1, <4>1
        <4> QED BY <1>d, <2>2, <4>2
      <3> QED BY <3>2, <3>3
    <2> QED BY <2>3, <2>4
  <1>19. CASE DoClose
    BY <1>19, <1>b DEF DoClose, Abort
  <1> QED BY <1>1, <1>2, <1>3, <1>4, <1>5, <1>6, <1>7, <1>8, <1>9, <1>10, <1>11, <1>12, <1>13,
             <1>14, <1>15, <1>16, <1>17, <1>18, <1>19, Actions DEF Errors

-----------------------------------------------------------------------------
(* The invariant, and what follows from it. *)

(* The strengthened invariant is inductive. *)
THEOREM ServiceInvariance == Spec => []ServiceInv
  <1>1. Init => ServiceInv
    <2> SUFFICES ASSUME Init PROVE ServiceInv
      OBVIOUS
    <2> USE DEF Init
    <2>1. Types(queue) = {} /\ ReadsOf(queue) = {} /\ OneStep(queue) /\ ReadsFirst(queue)
          /\ Crowded(queue) = {}
      BY NothingQueued DEF Crowded
    <2>2. Typed
      <3>1. queue \in Seq(Entries) /\ writes \in Seq(Writes)
        OBVIOUS
      <3>2. TypeOK
        BY DEF TypeOK
      <3> QED BY <3>1, <3>2 DEF Typed
    <2>3. NewState /\ Bounded /\ NeverSilent
      BY <2>1 DEF NewState, Bounded, NeverSilent
    <2>4. ReadInv
      BY <2>1 DEF ReadInv, OneReader, Decoder, Connecting
    <2>5. CalmInv
      BY <2>1 DEF CalmInv, Alone, ErrorsLast, Over, Planned, Session, Carries, Buffers
    <2> QED BY <2>2, <2>3, <2>4, <2>5 DEF ServiceInv
  <1>2. ServiceInv /\ [Next]_vars => ServiceInv'
    <2> SUFFICES ASSUME ServiceInv, [Next]_vars PROVE ServiceInv'
      OBVIOUS
    <2>1. CASE Next
      <3>1. Typed /\ NewState /\ Bounded /\ NeverSilent /\ ReadInv /\ CalmInv
        BY DEF ServiceInv
      <3>2. Typed'
        BY <2>1, <3>1, TypedStep
      <3>3. NewState' /\ Bounded' /\ NeverSilent'
        BY <2>1, <3>1, <3>2, NewStep, BoundedStep, SilentStep
      <3>4. raced \subseteq raced'
        BY <2>1, RacedGrows
      <3>5. ReadInv'
        <4> SUFFICES ASSUME "reconnect" \notin raced' PROVE OneReader' /\ Decoder'
          BY DEF ReadInv
        <4>1. OneReader /\ Decoder
          BY <3>1, <3>4 DEF ReadInv
        <4> QED BY <2>1, <3>1, <4>1, OneReaderStep, DecoderStep
      <3>6. CalmInv'
        <4> SUFFICES ASSUME raced' = {}
                     PROVE  Alone' /\ ErrorsLast' /\ Over' /\ Session' /\ Buffers'
          BY DEF CalmInv
        <4>1. raced = {}
          BY <3>4
        <4>2. OneReader /\ Alone /\ ErrorsLast /\ Over /\ Session /\ Buffers
          BY <3>1, <4>1 DEF ReadInv, CalmInv
        <4> QED BY <2>1, <3>1, <3>2, <3>3, <4>2, CalmStep, BuffersStep
      <3> QED BY <3>2, <3>3, <3>5, <3>6 DEF ServiceInv
    <2>2. CASE UNCHANGED vars
      BY <2>2 DEF vars, ServiceInv, Typed, TypeOK, NewState, Bounded, NeverSilent, ReadInv,
                  OneReader, Decoder, Connecting, InStep, CalmInv, Alone, ErrorsLast, Over,
                  Planned, Session, Carries, Buffers
    <2> QED BY <2>1, <2>2
  <1> QED BY <1>1, <1>2, PTL DEF Spec

(* The variables have their types, for every number of connections. *)
THEOREM ServiceTypeCorrect == Spec => []TypeOK
  <1>1. ServiceInv => TypeOK
    BY DEF ServiceInv, Typed
  <1> QED BY <1>1, ServiceInvariance, PTL

(***************************************************************************)
(* A running service always has an operation, a completion or the          *)
(* reconnect timer left, whatever the timers meet.                         *)
(***************************************************************************)
THEOREM AlwaysGoesOn == Spec => []NeverSilent
  <1>1. ServiceInv => NeverSilent
    BY DEF ServiceInv
  <1> QED BY <1>1, ServiceInvariance, PTL

(***************************************************************************)
(* One read at a time fills inputBuffer_, and the decoder is where the     *)
(* stream is, until a reconnect timer meets another completion.            *)
(***************************************************************************)
THEOREM ReadsKeepOrder == Spec => []ReadsInOrder
  <1>1. ServiceInv => ReadsInOrder
    <2> SUFFICES ASSUME ServiceInv, "reconnect" \notin raced
                 PROVE  /\ reads + (IF \E i \in DOMAIN queue :
                                         queue[i].type \in {"read", "readError"}
                                      THEN 1 ELSE 0) <= 1
                        /\ held # "garbage" /\ (held = "old" => link \in {"closed", "broken"})
      BY DEF ReadsInOrder
    <2>1. OneReader /\ Decoder /\ reads \in Nat
      BY DEF ServiceInv, ReadInv, Typed, TypeOK
    <2>2. (\E i \in DOMAIN queue : queue[i].type \in {"read", "readError"}) => reads = 0
      BY <2>1 DEF OneReader, Types, Steps
    <2>3. held # "garbage" /\ (held = "old" => link \in {"closed", "broken"})
      BY <2>1 DEF Decoder
    <2>4. reads <= 1
      BY <2>1 DEF OneReader
    <2> QED BY <2>1, <2>2, <2>3, <2>4
  <1> QED BY <1>1, ServiceInvariance, PTL

(***************************************************************************)
(* The heartbeat timer is armed only in a session that was logged on,      *)
(* until one of the timers meets another completion.                       *)
(***************************************************************************)
THEOREM HeartbeatsOfASession == Spec => []HeartbeatAfterLogon
  <1>1. ServiceInv => HeartbeatAfterLogon
    BY DEF ServiceInv, CalmInv, Session, HeartbeatAfterLogon
  <1> QED BY <1>1, ServiceInvariance, PTL

(***************************************************************************)
(* The encoder's two buffers do: only a write with two younger ones behind *)
(* it can be overwritten before it completes.                              *)
(***************************************************************************)
THEOREM OnlyOldWritesTorn == Spec => []WritesKept
  <1>1. ServiceInv => WritesKept
    BY DEF ServiceInv, CalmInv, Buffers, WritesKept
  <1> QED BY <1>1, ServiceInvariance, PTL

-----------------------------------------------------------------------------
(* PgmReceiver: the invariant. *)

\* A packet as its sender made it: its header points at the beginning of a block, or
\* at none, and its index counts the packets before it.
Whole(p) ==
  /\ p.tsi \in Tsis /\ p.number \in Nat \ {0}
  /\ p.index = (p.number - 1) % IndexMod
  /\ LET offset == Stream!OffsetOf(p.header)
     IN  offset # Stream!kNonExistOffset => p.data[offset + 1].begins = TRUE

\* Sequences of such packets.
Packet == [tsi : Tsis, number : Nat \ {0}, index : 0..(IndexMod - 1), header : Nat,
           data : Seq([at : Int, begins : BOOLEAN])]
WholePackets(s) == s \in Seq(Packet) /\ \A i \in 1..Len(s) : Whole(s[i])

\* A peer: one that has a parser knows the index of what that was given last, or 0.
Tracked(peer) ==
  /\ peer \in [joined : BOOLEAN, lastIndex : 0..(IndexMod - 1), parser : Nat]
  /\ peer.joined <=> peer.parser # NoParser
  /\ peer.joined => peer.lastIndex \in {0, (peer.parser - 1) % IndexMod}

PeersKnown ==
  /\ peers = <<>> \/ \E t \in Tsis : DOMAIN peers = {t}
  /\ \A t \in DOMAIN peers : Tracked(peers[t])

\* has_rx_timer_ says whether Select has the timer; it is off while InEvent runs.
RxTimerTracked ==
  /\ hasRx \in BOOLEAN /\ armedRx = (IF hasRx THEN 1 ELSE 0)
  /\ rpc = "in" => ~hasRx

\* The packets under way, and the vector that InEvent works on.
PacketsKnown ==
  /\ WholePackets(net) /\ Len(net) <= NetBound
  /\ WholePackets(vector) /\ Len(vector) <= MsgvLen /\ processed \in 0..Len(vector)
  /\ made \in [Tsis -> 0..MaxPackets]
  /\ rpc \in {"idle", "in"} /\ (rpc = "idle" => vector = <<>>)

ReceiverInv == PacketsKnown /\ PeersKnown /\ RxTimerTracked /\ JoinsAtBlock /\ GapsSeen

-----------------------------------------------------------------------------
(* What is assumed of the constants. *)
LEMMA Constants ==
  /\ MaxPackets \in Nat /\ NetBound \in Nat /\ MsgvLen \in Nat /\ IndexMod \in Nat \ {0}
  /\ Options \in Nat /\ Capacity \in Nat /\ Capacity >= 2
  /\ Capacity <= Stream!kNonExistOffset /\ Stream!kNonExistOffset \in Nat
  BY ReceiverAssumption DEF Stream!kNonExistOffset

(* The offset is what is left of a header without the options. *)
LEMMA HeaderValue ==
  ASSUME NEW n \in Nat, n <= Stream!kNonExistOffset
  PROVE  Stream!Header(n) \in Nat /\ Stream!OffsetOf(Stream!Header(n)) = n
  <1>1. 2^13 = 8192
    OBVIOUS
  <1>2. Stream!Header(n) = Options * 8192 + n
    BY <1>1 DEF Stream!Header, Stream!kOffsetBitCount
  <1>3. Options * 8192 \in Nat /\ (Options * 8192 + n) % 8192 = n
    BY Constants DEF Stream!kNonExistOffset
  <1> QED BY <1>1, <1>2, <1>3 DEF Stream!OffsetOf, Stream!kOffsetBitCount

(* A remainder is less than the divisor, *)
LEMMA Remainder ==
  ASSUME NEW a \in Nat, NEW m \in Nat \ {0}
  PROVE  a % m \in 0..(m - 1)
  OBVIOUS

(* and is what is left over. *)
LEMMA LeftOver ==
  ASSUME NEW m \in Nat \ {0}, NEW q \in Nat, NEW r \in Nat, r < m
  PROVE  (m * q + r) % m = r
  OBVIOUS

(* The index behind the last one, in a ring. *)
LEMMA NextIndex ==
  ASSUME NEW a \in Nat, NEW m \in Nat \ {0}
  PROVE  ((a % m) + 1) % m = (a + 1) % m
  <1> DEFINE r == a % m  q == a \div m
  <1>r. r \in 0..(m - 1)
    OBVIOUS
  <1>q. a = m * q + r /\ q \in Nat
    OBVIOUS
  <1> HIDE DEF r, q
  <1>1. r \in 0..(m - 1) /\ a = m * q + r /\ q \in Nat
    BY <1>r, <1>q
  <1>2. CASE r + 1 < m
    <2>1. a + 1 = m * q + (r + 1) /\ r + 1 \in Nat /\ m * 0 + (r + 1) = r + 1
      BY <1>1
    <2>2. (m * q + (r + 1)) % m = r + 1 /\ (m * 0 + (r + 1)) % m = r + 1
      BY <1>1, <1>2, <2>1, LeftOver
    <2> QED BY <2>1, <2>2 DEF r
  <1>3. CASE r + 1 = m
    <2>1. a + 1 = m * (q + 1) + 0 /\ q + 1 \in Nat /\ m * 1 + 0 = r + 1 /\ 0 < m
      BY <1>1, <1>3
    <2>2. (m * (q + 1) + 0) % m = 0 /\ (m * 1 + 0) % m = 0
      BY <2>1, LeftOver
    <2> QED BY <2>1, <2>2 DEF r
  <1> QED BY <1>1, <1>2, <1>3

(* A number is a quotient and a rest. *)
LEMMA Quotient ==
  ASSUME NEW a \in Nat, NEW m \in Nat \ {0}
  PROVE  \E q \in Nat : a = m * q + (a % m)
  <1>1. a = m * (a \div m) + (a % m) /\ a \div m \in Nat
    OBVIOUS
  <1> QED BY <1>1, Zenon

(* Numbers with the same rest are whole rounds apart. *)
LEMMA SameRest ==
  ASSUME NEW a \in Nat, NEW b \in Nat, NEW m \in Nat \ {0}, a <= b, a % m = b % m
  PROVE  (b - a) % m = 0
  <1> DEFINE r == a % m
  <1>1. PICK q \in Nat : a = m * q + r
    BY Quotient, Zenon
  <1>2. PICK p \in Nat : b = m * p + r
    BY Quotient, Zenon
  <1>3. r \in 0..(m - 1)
    OBVIOUS
  <1> HIDE DEF r
  <1>4. q <= p
    <2> SUFFICES ASSUME p + 1 <= q PROVE FALSE
      OBVIOUS
    <2>1. m * (p + 1) <= m * q
      OBVIOUS
    <2> QED BY <1>1, <1>2, <1>3, <2>1
  <1>5. b - a = m * (p - q) + 0 /\ p - q \in Nat /\ 0 < m /\ 0 \in Nat
    BY <1>1, <1>2, <1>3, <1>4
  <1>6. (m * (p - q) + 0) % m = 0
    BY <1>5, LeftOver, Zenon
  <1> QED BY <1>5, <1>6, Zenon

-----------------------------------------------------------------------------
(* What a sender sends next is whole: the beginning its header names is one. *)
LEMMA MadeWhole ==
  ASSUME NEW t \in Tsis, made[t] \in Nat, NEW p \in Packets(t)
  PROVE  p \in Packet /\ Whole(p)
  <1> DEFINE number == made[t] + 1
             first == (number - 1) * Capacity + 1
             bytes(B) == [i \in 1..Capacity |-> Stream!Byte(first + i - 1, i \in B)]
             offsets == IF number = 1 THEN {{1}} ELSE {{}, {1}, {Capacity}}
             packet(B) == [tsi |-> t, number |-> number, index |-> made[t] % IndexMod,
                           data |-> bytes(B),
                           header |-> Stream!Header(Stream!FirstBlock(bytes(B)))]
  <1>1. PICK B \in offsets : p = packet(B)
    BY Zenon DEF Packets
  <1>2. Capacity \in Nat /\ Capacity >= 2 /\ IndexMod \in Nat \ {0}
    BY Constants
  <1>3. B = {} \/ \E c \in 1..Capacity : B = {c}
    BY <1>2
  <1>4. number \in Nat \ {0} /\ number - 1 = made[t] /\ first \in Int
    <2>1. \A a, b \in Int : a * b + 1 \in Int
      OBVIOUS
    <2>2. number \in Nat \ {0} /\ number - 1 = made[t]
      OBVIOUS
    <2>3. number - 1 \in Int /\ Capacity \in Int
      BY <1>2
    <2> QED BY <2>1, <2>2, <2>3, Zenon
  <1>5. made[t] % IndexMod \in 0..(IndexMod - 1)
    BY <1>2, Remainder, Zenon
  <1> DEFINE d == bytes(B)  n == Stream!FirstBlock(d)
  <1> HIDE DEF number, first
  <1>6. d \in Seq([at : Int, begins : BOOLEAN]) /\ DOMAIN d = 1..Capacity
    <2>1. \A i \in 1..Capacity : Stream!Byte(first + i - 1, i \in B) \in [at : Int, begins : BOOLEAN]
      BY <1>2, <1>4 DEF Stream!Byte
    <2> QED BY <1>2, <2>1
  <1>7. \A i \in 1..Capacity : d[i].begins = (i \in B)
    BY DEF Stream!Byte
  <1> HIDE DEF d
  <1>8. /\ n \in Nat /\ n <= Stream!kNonExistOffset
        /\ n # Stream!kNonExistOffset => d[n + 1].begins = TRUE
    <2>1. CASE B = {}
      <3>1. ~\E i \in DOMAIN d : d[i].begins
        BY <1>6, <1>7, <2>1
      <3>2. n = Stream!kNonExistOffset
        BY <3>1 DEF Stream!FirstBlock
      <3> QED BY <3>2, Constants
    <2>2. ASSUME NEW c \in 1..Capacity, B = {c}
          PROVE  /\ n \in Nat /\ n <= Stream!kNonExistOffset /\ d[n + 1].begins = TRUE
      <3> DEFINE P(i) == d[i].begins /\ \A j \in 1..(i - 1) : ~d[j].begins
      <3>1. \A i \in 1..Capacity : d[i].begins <=> i = c
        BY <1>7, <2>2
      <3>2. P(c)
        <4>1. \A j \in 1..(c - 1) : j \in 1..Capacity /\ j # c
          BY <1>2
        <4> QED BY <3>1, <4>1
      <3>3. \A i \in DOMAIN d : P(i) => i = c
        BY <1>6, <3>1
      <3>4. (CHOOSE i \in DOMAIN d : P(i)) = c
        <4> HIDE DEF P
        <4> QED BY <1>6, <3>2, <3>3
      <3>5. n = (CHOOSE i \in DOMAIN d : P(i)) - 1
        <4>1. \E i \in DOMAIN d : d[i].begins
          BY <1>6, <3>1
        <4> QED BY <4>1, Zenon DEF Stream!FirstBlock
      <3>6. n = c - 1
        BY <3>4, <3>5, Zenon
      <3> HIDE DEF n
      <3>7. n \in Nat /\ n + 1 = c /\ n <= Stream!kNonExistOffset
        BY <1>2, <3>6, Constants
      <3>8. d[c].begins = TRUE
        BY <1>7, <2>2
      <3> QED BY <3>7, <3>8, Zenon
    <2> QED BY <1>3, <2>1, <2>2
  <1> HIDE DEF n
  <1>9. Stream!Header(n) \in Nat /\ Stream!OffsetOf(Stream!Header(n)) = n
    BY <1>8, HeaderValue
  <1>10. p = [tsi |-> t, number |-> number, index |-> made[t] % IndexMod, data |-> d,
              header |-> Stream!Header(n)]
    BY <1>1, Zenon DEF d, n
  <1> DEFINE h == Stream!Header(n)  x == made[t] % IndexMod
  <1>h. Stream!OffsetOf(h) = n /\ h \in Nat /\ x \in 0..(IndexMod - 1) /\ x = made[t] % IndexMod
    BY <1>5, <1>9
  <1>p. p = [tsi |-> t, number |-> number, index |-> x, data |-> d, header |-> h]
    BY <1>10
  <1> HIDE DEF h, x
  <1>11. /\ p.tsi = t /\ p.number = number /\ p.index = x /\ p.data = d /\ p.header = h
    BY <1>p
  <1>12. p \in Packet
    BY <1>4, <1>6, <1>h, <1>p DEF Packet
  <1>13. Whole(p)
    BY <1>4, <1>8, <1>h, <1>11, Zenon DEF Whole
  <1> QED BY <1>12, <1>13

-----------------------------------------------------------------------------
(* A peer that replaces the others is the only one. *)
LEMMA OnlyPeer ==
  ASSUME PeersKnown, NEW t \in Tsis, NEW peer, Tracked(peer), SetPeer(t, peer)
  PROVE  PeersKnown'
  <1>1. CASE t \in DOMAIN peers
    <2>1. peers' = [peers EXCEPT ![t] = peer]
      BY <1>1 DEF SetPeer
    <2>2. DOMAIN peers' = DOMAIN peers
      BY <2>1
    <2>3. peers # <<>>
      <3>1. DOMAIN <<>> = {}
        OBVIOUS
      <3> QED BY <1>1, <3>1
    <2>4. \A s \in DOMAIN peers' : Tracked(peers'[s])
      BY <2>1, <2>2 DEF PeersKnown
    <2> QED BY <2>2, <2>3, <2>4 DEF PeersKnown
  <1>2. CASE t \notin DOMAIN peers
    <2>1. peers' = [s \in {t} |-> peer]
      BY <1>2 DEF SetPeer
    <2> QED BY <2>1 DEF PeersKnown
  <1> QED BY <1>1, <1>2

(* What InEvent does with one packet. *)
LEMMA PacketHandled ==
  ASSUME PeersKnown, JoinsAtBlock, GapsSeen, NEW p \in Packet, Whole(p), HandlePacket(p)
  PROVE  (PeersKnown /\ JoinsAtBlock /\ GapsSeen)'
  <1> DEFINE peer == HeardOf(p)  old == peers[p.tsi]  m == IndexMod
             skip == IF peer.joined THEN 0 ELSE Skipped(p)
  <1>0. /\ m \in Nat \ {0} /\ p.tsi \in Tsis /\ p.number \in Nat \ {0}
        /\ p.index = (p.number - 1) % m /\ p.index \in 0..(m - 1)
    BY Constants DEF Packet, Whole
  <1>1. NewPeer.joined = FALSE /\ NewPeer.lastIndex = 0 /\ NewPeer.parser = 0 /\ Tracked(NewPeer)
    BY <1>0 DEF NewPeer, NoParser, Tracked
  <1>2. p.tsi \in DOMAIN peers => Tracked(old)
    BY DEF PeersKnown
  <1> DEFINE gap == old.lastIndex # 0 /\ (old.lastIndex + 1) % m # p.index
             base == IF gap THEN NewPeer ELSE old
  <1>3. peer = IF p.tsi \notin DOMAIN peers THEN NewPeer ELSE [base EXCEPT !.lastIndex = p.index]
    BY Zenon DEF HeardOf
  <1> HIDE DEF peer
  <1>4. \/ peer = NewPeer
        \/ /\ p.tsi \in DOMAIN peers /\ gap
           /\ peer.joined = FALSE /\ peer.parser = 0 /\ peer.lastIndex = p.index
        \/ /\ p.tsi \in DOMAIN peers /\ ~gap
           /\ peer.joined = old.joined /\ peer.parser = old.parser /\ peer.lastIndex = p.index
    <2>1. CASE p.tsi \notin DOMAIN peers
      BY <1>3, <2>1
    <2>2. CASE p.tsi \in DOMAIN peers /\ gap
      <3>1. peer = [NewPeer EXCEPT !.lastIndex = p.index]
        BY <1>3, <2>2, Zenon
      <3>2. peer.joined = FALSE /\ peer.parser = 0 /\ peer.lastIndex = p.index
        BY <3>1 DEF NewPeer, NoParser
      <3> QED BY <2>2, <3>2
    <2>3. CASE p.tsi \in DOMAIN peers /\ ~gap
      <3>1. peer = [old EXCEPT !.lastIndex = p.index]
        BY <1>3, <2>3, Zenon
      <3>2. old \in [joined : BOOLEAN, lastIndex : 0..(IndexMod - 1), parser : Nat]
        BY <1>2, <2>3 DEF Tracked
      <3> HIDE DEF old
      <3>3. peer.joined = old.joined /\ peer.parser = old.parser /\ peer.lastIndex = p.index
        BY <3>1, <3>2
      <3> QED BY <2>3, <3>3
    <2> QED BY <2>1, <2>2, <2>3
  <1>5. peer.joined \in BOOLEAN /\ peer.lastIndex \in {0, p.index} /\ peer.parser \in Nat
        /\ (peer.joined <=> peer.parser # 0)
    BY <1>1, <1>2, <1>4 DEF Tracked, NoParser
  <1>r. peer \in [joined : BOOLEAN, lastIndex : 0..(IndexMod - 1), parser : Nat]
    <2> DEFINE R == [joined : BOOLEAN, lastIndex : 0..(m - 1), parser : Nat]
    <2>1. NewPeer \in R /\ (p.tsi \in DOMAIN peers => base \in R)
      BY <1>1, <1>2 DEF Tracked
    <2>2. \A q \in R, x \in 0..(m - 1) : [q EXCEPT !.lastIndex = x] \in R
      <3> HIDE DEF m
      <3> QED OBVIOUS
    <2> HIDE DEF R, m, base
    <2>3. peer \in R
      BY <1>0, <1>3, <2>1, <2>2, Zenon
    <2> QED BY <2>3 DEF R, m
  <1>6. CASE ~peer.joined /\ SetPeer(p.tsi, peer) /\ UNCHANGED lastParse
    <2>1. Tracked(peer)
      BY <1>0, <1>5, <1>6, <1>r DEF Tracked, NoParser
    <2>2. PeersKnown'
      BY <1>0, <1>6, <2>1, OnlyPeer
    <2> QED BY <1>6, <2>2 DEF JoinsAtBlock, GapsSeen
  <1>7. ASSUME peer.joined \/ Stream!OffsetOf(p.header) # Stream!kNonExistOffset,
               NEW parsed \in BOOLEAN,
               SetPeer(p.tsi, IF parsed THEN [joined |-> TRUE, lastIndex |-> peer.lastIndex,
                                              parser |-> p.number]
                                        ELSE NewPeer),
               lastParse' =
                 [fresh |-> ~peer.joined,
                  begins |-> p.data[skip + 1].begins,
                  missing |-> IF peer.joined THEN p.number - peer.parser - 1 ELSE 0,
                  blind |-> peer.joined /\ peers[p.tsi].lastIndex = 0]
        PROVE  (PeersKnown /\ JoinsAtBlock /\ GapsSeen)'
    <2>1. Tracked([joined |-> TRUE, lastIndex |-> peer.lastIndex, parser |-> p.number])
      BY <1>0, <1>5 DEF Tracked, NoParser
    <2>2. PeersKnown'
      BY <1>0, <1>1, <1>7, <2>1, OnlyPeer
    <2> DEFINE fresh == ~peer.joined  begins == p.data[skip + 1].begins
               missing == IF peer.joined THEN p.number - peer.parser - 1 ELSE 0
               blind == peer.joined /\ old.lastIndex = 0
    <2>3. lastParse' = [fresh |-> fresh, begins |-> begins, missing |-> missing, blind |-> blind]
      BY <1>7, Zenon
    <2>4. fresh => begins
      <3> SUFFICES ASSUME fresh PROVE begins
        OBVIOUS
      <3>1. skip = Stream!OffsetOf(p.header)
        BY DEF Skipped
      <3>2. p.data[Stream!OffsetOf(p.header) + 1].begins = TRUE
        BY <1>7 DEF Whole
      <3> QED BY <3>1, <3>2, Zenon
    <2>5. missing > 0 => blind \/ missing % m = 0
      <3> SUFFICES ASSUME missing > 0, ~blind PROVE missing % m = 0
        OBVIOUS
      <3>1. peer.joined /\ missing = p.number - peer.parser - 1
        OBVIOUS
      <3>2. /\ p.tsi \in DOMAIN peers /\ ~gap
            /\ peer.joined = old.joined /\ peer.parser = old.parser
        BY <1>1, <1>4, <3>1
      <3>3. old.joined /\ old.lastIndex # 0 /\ (old.lastIndex + 1) % m = p.index
        BY <3>1, <3>2
      <3>4. /\ old.lastIndex = (old.parser - 1) % m /\ old.parser \in Nat \ {0}
        BY <1>2, <3>2, <3>3 DEF Tracked, NoParser
      <3> DEFINE a == old.parser  b == p.number - 1
      <3>5. a - 1 \in Nat /\ (a - 1) + 1 = a /\ a \in Nat /\ b \in Nat /\ a <= b /\ missing = b - a
        BY <1>0, <3>1, <3>2, <3>4
      <3>6. p.index = b % m /\ old.lastIndex = (a - 1) % m
        BY <1>0, <3>4
      <3> HIDE DEF a, b, missing, m
      <3>7. (((a - 1) % m) + 1) % m = ((a - 1) + 1) % m
        BY <1>0, <3>5, NextIndex, Zenon
      <3>8. a % m = b % m
        BY <3>3, <3>5, <3>6, <3>7, Zenon
      <3>9. (b - a) % m = 0
        BY <1>0, <3>5, <3>8, SameRest, Zenon
      <3> QED BY <3>5, <3>9, Zenon
    <2> HIDE DEF fresh, begins, missing, blind, m
    <2>6. lastParse'.fresh = fresh /\ lastParse'.begins = begins
      BY <2>3
    <2>7. lastParse'.missing = missing /\ lastParse'.blind = blind
      BY <2>3
    <2>8. JoinsAtBlock'
      BY <2>4, <2>6, Zenon DEF JoinsAtBlock
    <2>9. GapsSeen'
      BY <2>5, <2>7, Zenon DEF GapsSeen, m
    <2> QED BY <2>2, <2>8, <2>9
  <1>8. \/ ~peer.joined /\ SetPeer(p.tsi, peer) /\ UNCHANGED lastParse
        \/ /\ peer.joined \/ Stream!OffsetOf(p.header) # Stream!kNonExistOffset
           /\ \E parsed \in BOOLEAN :
                SetPeer(p.tsi, IF parsed THEN [joined |-> TRUE, lastIndex |-> peer.lastIndex,
                                               parser |-> p.number]
                                         ELSE NewPeer)
           /\ lastParse' =
                 [fresh |-> ~peer.joined,
                  begins |-> p.data[skip + 1].begins,
                  missing |-> IF peer.joined THEN p.number - peer.parser - 1 ELSE 0,
                  blind |-> peer.joined /\ peers[p.tsi].lastIndex = 0]
    BY Zenon DEF HandlePacket, peer
  <1> QED BY <1>6, <1>7, <1>8, Zenon

-----------------------------------------------------------------------------
(* A part of a sequence of whole packets is one, *)
LEMMA PartWhole ==
  ASSUME NEW s, WholePackets(s), NEW a \in 1..(Len(s) + 1), NEW b \in 0..Len(s), a <= b + 1
  PROVE  WholePackets(SubSeq(s, a, b)) /\ Len(SubSeq(s, a, b)) = b - a + 1
  <1>1. s \in Seq(Packet) /\ Len(s) \in Nat /\ a \in Int /\ b \in Int
    BY DEF WholePackets
  <1>2. \A i \in a..b : s[i] \in Packet
    BY <1>1, ElementOfSeq
  <1> DEFINE u == SubSeq(s, a, b)
  <1>3. CASE a <= b
    <2>1. /\ u \in Seq(Packet) /\ Len(u) = b - a + 1
          /\ \A i \in 1..(b - a + 1) : u[i] = s[a + i - 1]
      BY <1>1, <1>2, <1>3, SubSeqProperties
    <2>2. \A i \in 1..(b - a + 1) : a + i - 1 \in 1..Len(s)
      BY <1>1
    <2> HIDE DEF u
    <2>3. \A i \in 1..Len(u) : Whole(u[i])
      BY <2>1, <2>2 DEF WholePackets
    <2> QED BY <2>1, <2>3 DEF u, WholePackets
  <1>4. CASE a = b + 1
    <2>1. u = <<>> /\ b - a + 1 = 0 /\ Len(<<>>) = 0 /\ <<>> \in Seq(Packet)
      BY <1>1, <1>4, SubSeqProperties
    <2> HIDE DEF u
    <2> QED BY <2>1 DEF u, WholePackets
  <1> QED BY <1>1, <1>3, <1>4

(* and so is one with another packet. *)
LEMMA MoreWhole ==
  ASSUME NEW s, WholePackets(s), NEW p \in Packet, Whole(p)
  PROVE  WholePackets(Append(s, p)) /\ Len(Append(s, p)) = Len(s) + 1
  <1>1. /\ Append(s, p) \in Seq(Packet) /\ Len(Append(s, p)) = Len(s) + 1
        /\ \A i \in 1..Len(s) : Append(s, p)[i] = s[i]
        /\ Append(s, p)[Len(s) + 1] = p /\ Len(s) \in Nat
    BY DEF WholePackets
  <1> DEFINE u == Append(s, p)
  <1>2. \A i \in 1..Len(u) : Whole(u[i])
    <2> HIDE DEF u
    <2>1. \A i \in 1..(Len(s) + 1) : i \in 1..Len(s) \/ i = Len(s) + 1
      BY <1>1
    <2> QED BY <1>1, <2>1 DEF WholePackets, u
  <1> QED BY <1>1, <1>2 DEF WholePackets

-----------------------------------------------------------------------------
(* The invariant holds at first, *)
LEMMA InitReceiverInv == ReceiverInit => ReceiverInv
  <1> SUFFICES ASSUME ReceiverInit PROVE ReceiverInv
    OBVIOUS
  <1>0. Len(<<>>) = 0 /\ <<>> \in Seq(Packet) /\ DOMAIN <<>> = {}
    OBVIOUS
  <1>1. WholePackets(<<>>)
    BY <1>0 DEF WholePackets
  <1>2. PacketsKnown
    BY <1>0, <1>1, Constants DEF ReceiverInit, PacketsKnown
  <1>3. PeersKnown
    <2>1. peers = <<>> /\ DOMAIN peers = {}
      BY <1>0, Zenon DEF ReceiverInit
    <2> QED BY <2>1, Zenon DEF PeersKnown
  <1>r. RxTimerTracked
    BY DEF ReceiverInit, RxTimerTracked
  <1>4. JoinsAtBlock /\ GapsSeen
    BY DEF ReceiverInit, JoinsAtBlock, GapsSeen
  <1> QED BY <1>2, <1>3, <1>r, <1>4 DEF ReceiverInv

(* and every step keeps it. *)
LEMMA NextReceiverInv == ReceiverInv /\ [ReceiverNext]_receiverVars => ReceiverInv'
  <1> SUFFICES ASSUME ReceiverInv, [ReceiverNext]_receiverVars PROVE ReceiverInv'
    OBVIOUS
  <1>0. PacketsKnown /\ PeersKnown /\ RxTimerTracked /\ JoinsAtBlock /\ GapsSeen
    BY DEF ReceiverInv
  <1>c. Len(<<>>) = 0 /\ WholePackets(<<>>)
    BY DEF WholePackets
  <1>p. UNCHANGED <<peers, lastParse>> => (PeersKnown /\ JoinsAtBlock /\ GapsSeen)'
    BY <1>0 DEF PeersKnown, JoinsAtBlock, GapsSeen
  <1>1. ASSUME NEW t \in Tsis, SendPacket(t) PROVE ReceiverInv'
    <2>1. /\ UNCHANGED <<hasRx, armedRx, rpc, vector, processed, peers, lastParse>>
          /\ made' = [made EXCEPT ![t] = @ + 1] /\ made[t] < MaxPackets /\ Len(net) < NetBound
      BY <1>1 DEF SendPacket, selectVars
    <2>2. made' \in [Tsis -> 0..MaxPackets] /\ made[t] \in Nat
      BY <1>0, <2>1, Constants DEF PacketsKnown
    <2> PICK p \in Packets(t) : net' = Append(net, p)
      BY <1>1 DEF SendPacket
    <2>3. WholePackets(net') /\ Len(net') = Len(net) + 1
      BY <1>0, <2>2, MadeWhole, MoreWhole DEF PacketsKnown
    <2>4. Len(net) \in Nat
      BY <1>0 DEF PacketsKnown, WholePackets
    <2>5. Len(net') <= NetBound
      BY <2>1, <2>3, <2>4, Constants
    <2>6. PacketsKnown'
      BY <1>0, <2>1, <2>2, <2>3, <2>5 DEF PacketsKnown
    <2> QED BY <1>0, <1>p, <2>1, <2>6 DEF ReceiverInv, RxTimerTracked
  <1>2. CASE LosePacket
    <2>1. /\ UNCHANGED <<made, hasRx, armedRx, rpc, vector, processed, peers, lastParse>>
          /\ net # <<>> /\ net' = Tail(net)
      BY <1>2 DEF LosePacket, selectVars
    <2>2. net \in Seq(Packet) /\ Len(net) \in Nat \ {0} /\ Len(net) <= NetBound
      BY <1>0, <2>1, EmptySeq DEF PacketsKnown, WholePackets
    <2>3. Tail(net) = SubSeq(net, 2, Len(net))
      BY <2>2
    <2>4. WholePackets(net') /\ Len(net') = Len(net) - 1
      <3>1. WholePackets(net)
        BY <1>0 DEF PacketsKnown
      <3>2. 2 \in 1..(Len(net) + 1) /\ Len(net) \in 0..Len(net) /\ 2 <= Len(net) + 1
            /\ Len(net) - 2 + 1 = Len(net) - 1
        BY <2>2
      <3> QED BY <2>1, <2>3, <3>1, <3>2, PartWhole, Zenon
    <2>5. Len(net') <= NetBound
      BY <2>2, <2>4, Constants
    <2>6. PacketsKnown'
      BY <1>0, <2>1, <2>4, <2>5 DEF PacketsKnown
    <2> QED BY <1>0, <1>p, <2>1, <2>6 DEF ReceiverInv, RxTimerTracked
  <1>3. CASE Plug \/ StopReceiver
    <2>1. UNCHANGED <<netVars, hasRx, armedRx, rpc, vector, processed, peers, lastParse>>
      BY <1>3 DEF Plug, StopReceiver
    <2> QED BY <1>0, <1>p, <2>1 DEF ReceiverInv, RxTimerTracked, PacketsKnown, netVars
  <1>4. CASE Terminate
    <2>1. /\ UNCHANGED <<netVars, rpc, vector, processed, lastParse>>
          /\ peers' = <<>> /\ hasRx' = FALSE /\ armedRx' = 0 /\ rpc = "idle"
      BY <1>0, <1>4 DEF Terminate, RxTimerTracked
    <2>2. PeersKnown'
      <3>1. DOMAIN <<>> = {}
        OBVIOUS
      <3> QED BY <2>1, <3>1 DEF PeersKnown
    <2> QED BY <1>0, <2>1, <2>2 DEF ReceiverInv, RxTimerTracked, PacketsKnown, netVars,
               JoinsAtBlock, GapsSeen
  <1>5. CASE InEvent \/ RxTimerEvent
    <2>1. /\ UNCHANGED <<netVars, vector, processed, peers, lastParse>>
          /\ hasRx' = FALSE /\ armedRx' = 0 /\ rpc' = "in"
      BY <1>0, <1>5 DEF InEvent, RxTimerEvent, RxTimerTracked
    <2> QED BY <1>0, <1>p, <2>1 DEF ReceiverInv, RxTimerTracked, PacketsKnown, netVars
  <1>6. CASE BatchDone
    <2>1. /\ UNCHANGED <<netVars, hasRx, armedRx, peers, lastParse>>
          /\ vector' = <<>> /\ processed' = 0 /\ rpc' = "idle"
      BY <1>6 DEF BatchDone, selectVars
    <2>2. PacketsKnown'
      BY <1>0, <1>c, <2>1, Constants DEF PacketsKnown, netVars
    <2> QED BY <1>0, <1>p, <2>1, <2>2 DEF ReceiverInv, RxTimerTracked
  <1>7. CASE ReceiveLater \/ ReceiveNothing \/ ReceiveLoss
    <2>1. /\ UNCHANGED <<net, made, vector, processed, peers, lastParse>>
          /\ rpc = "in" /\ vector = <<>> /\ rpc' = "idle"
          /\ \/ armedRx' = armedRx + 1 /\ hasRx' = TRUE
             \/ UNCHANGED <<hasRx, armedRx>>
      BY <1>7 DEF ReceiveLater, ReceiveNothing, ReceiveLoss, netVars, selectVars
    <2>2. RxTimerTracked'
      <3>1. hasRx = FALSE /\ armedRx = 0 /\ rpc' # "in"
        BY <1>0, <2>1 DEF RxTimerTracked
      <3>2. CASE armedRx' = armedRx + 1 /\ hasRx' = TRUE
        BY <3>1, <3>2 DEF RxTimerTracked
      <3>3. CASE UNCHANGED <<hasRx, armedRx>>
        BY <3>1, <3>3 DEF RxTimerTracked
      <3> QED BY <2>1, <3>2, <3>3
    <2>3. PacketsKnown'
      BY <1>0, <2>1 DEF PacketsKnown
    <2> QED BY <1>p, <2>1, <2>2, <2>3 DEF ReceiverInv
  <1>8. CASE ReceiveBatch
    <2>1. /\ UNCHANGED <<made, hasRx, armedRx, rpc>> /\ rpc = "in" /\ processed' = 1
          /\ HandlePacket(vector'[1])
      BY <1>8 DEF ReceiveBatch, selectVars
    <2> PICK n \in 1..MsgvLen :
               /\ n <= Len(net)
               /\ vector' = SubSeq(net, 1, n) /\ net' = SubSeq(net, n + 1, Len(net))
      BY <1>8 DEF ReceiveBatch
    <2>2. WholePackets(net) /\ Len(net) \in Nat /\ Len(net) <= NetBound
      BY <1>0 DEF PacketsKnown, WholePackets
    <2>3. WholePackets(vector') /\ Len(vector') = n
      <3>1. 1 \in 1..(Len(net) + 1) /\ n \in 0..Len(net) /\ 1 <= n + 1 /\ n - 1 + 1 = n
        BY <2>2, Constants
      <3> QED BY <2>2, <3>1, PartWhole
    <2>4. WholePackets(net') /\ Len(net') = Len(net) - n
      <3>1. n + 1 \in 1..(Len(net) + 1) /\ Len(net) \in 0..Len(net) /\ n + 1 <= Len(net) + 1
            /\ Len(net) - (n + 1) + 1 = Len(net) - n
        BY <2>2, Constants
      <3> QED BY <2>2, <3>1, PartWhole
    <2>5. vector'[1] \in Packet /\ Whole(vector'[1])
      <3>1. 1 \in 1..Len(vector')
        BY <2>3, Constants
      <3> QED BY <2>3, <3>1, ElementOfSeq DEF WholePackets
    <2>6. (PeersKnown /\ JoinsAtBlock /\ GapsSeen)'
      BY <1>0, <2>1, <2>5, PacketHandled
    <2>7. PacketsKnown'
      <3>1. Len(net') <= NetBound /\ Len(vector') <= MsgvLen /\ processed' \in 0..Len(vector')
        BY <2>1, <2>2, <2>3, <2>4, Constants
      <3> QED BY <1>0, <2>1, <2>3, <2>4, <3>1 DEF PacketsKnown
    <2> QED BY <1>0, <2>1, <2>6, <2>7 DEF ReceiverInv, RxTimerTracked
  <1>9. CASE ReceiveNext
    <2>1. /\ UNCHANGED <<netVars, hasRx, armedRx, rpc, vector>> /\ processed < Len(vector)
          /\ processed' = processed + 1 /\ HandlePacket(vector[processed + 1])
      BY <1>9 DEF ReceiveNext, selectVars
    <2>2. processed + 1 \in 1..Len(vector) /\ WholePackets(vector)
      BY <1>0, <2>1 DEF PacketsKnown, WholePackets
    <2>3. vector[processed + 1] \in Packet /\ Whole(vector[processed + 1])
      BY <2>2, ElementOfSeq DEF WholePackets
    <2>4. (PeersKnown /\ JoinsAtBlock /\ GapsSeen)'
      BY <1>0, <2>1, <2>3, PacketHandled
    <2>5. PacketsKnown'
      BY <1>0, <2>1, <2>2 DEF PacketsKnown, netVars
    <2> QED BY <1>0, <2>1, <2>4, <2>5 DEF ReceiverInv, RxTimerTracked
  <1>10. CASE UNCHANGED receiverVars
    BY <1>0, <1>p, <1>10 DEF receiverVars, netVars, selectVars, ReceiverInv, RxTimerTracked, PacketsKnown
  <1> QED BY <1>1, <1>2, <1>3, <1>4, <1>5, <1>6, <1>7, <1>8, <1>9, <1>10 DEF ReceiverNext

(* The inductive invariant holds in every state the receiver reaches. *)
THEOREM ReceiverInvariance == ReceiverSpec => []ReceiverInv
  BY InitReceiverInv, NextReceiverInv, PTL DEF ReceiverSpec

(* Every variable stays in its type and its bounds; there is never more than one peer. *)
THEOREM ReceiverTypeCorrect == ReceiverSpec => []ReceiverTypeOK
  <1>1. ReceiverInv => ReceiverTypeOK
    <2> SUFFICES ASSUME ReceiverInv PROVE ReceiverTypeOK
      OBVIOUS
    <2>1. PacketsKnown /\ PeersKnown
      BY DEF ReceiverInv
    <2>2. DOMAIN peers \subseteq Tsis /\ Cardinality(DOMAIN peers) <= 1
      <3>1. CASE peers = <<>>
        <4>1. DOMAIN peers = {}
          BY <3>1
        <4> QED BY <4>1, FS_EmptySet
      <3>2. ASSUME NEW t \in Tsis, DOMAIN peers = {t}
            PROVE  DOMAIN peers \subseteq Tsis /\ Cardinality(DOMAIN peers) <= 1
        <4>1. Cardinality({t}) = 1
          BY FS_Singleton
        <4> QED BY <3>2, <4>1
      <3> QED BY <2>1, <3>1, <3>2 DEF PeersKnown
    <2>3. \A t \in DOMAIN peers : /\ peers[t].lastIndex \in 0..(IndexMod - 1)
                                  /\ peers[t].joined <=> peers[t].parser # NoParser
      BY <2>1 DEF PeersKnown, Tracked
    <2> QED BY <2>1, <2>2, <2>3 DEF ReceiverTypeOK, PacketsKnown
  <1> QED BY <1>1, ReceiverInvariance, PTL

(* A peer joins the stream of its sender at a byte with which a block begins. *)
THEOREM PeersJoinAtBlocks == ReceiverSpec => []JoinsAtBlock
  <1>1. ReceiverInv => JoinsAtBlock
    BY DEF ReceiverInv
  <1> QED BY <1>1, ReceiverInvariance, PTL

(* A gap goes unseen only behind a last_index of 0, or when all indices were lost at once. *)
THEOREM GapsAreSeen == ReceiverSpec => []GapsSeen
  <1>1. ReceiverInv => GapsSeen
    BY DEF ReceiverInv
  <1> QED BY <1>1, ReceiverInvariance, PTL

(* Select has at most one rx timer, which is the one the receiver knows of. *)
THEOREM OneRxTimer == ReceiverSpec => []RxTimerTracked
  <1>1. ReceiverInv => RxTimerTracked
    BY DEF ReceiverInv
  <1> QED BY <1>1, ReceiverInvariance, PTL
=============================================================================
