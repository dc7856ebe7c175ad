------------------------------ MODULE PipeProofs ------------------------------
(***************************************************************************)
(* Theorems about Pipe for every Quota: what each thread may rely on while *)
(* the other one reads, writes, terminates or lets go.                     *)
(***************************************************************************)
EXTENDS Pipe, SequenceTheorems, TLAPS

Items == Writable \cup {Delimiter}

Channels == [items : Seq(Items), complete : Nat, published : Nat, taken : Nat,
             reader : {"awake", "asleep"}]

\* A reader is asleep only while nothing is there for it.
Sound(q) ==
  /\ q.taken <= q.published /\ q.published <= q.complete /\ q.complete <= Len(q.items)
  /\ q.reader = "asleep" => q.taken = q.published

\* A delimiter is the last item, and complete.
DelimiterLast(q) ==
  \A i \in 1..Len(q.items) : q.items[i] = Delimiter => i = Len(q.items) /\ q.complete = i

HasDelimiter(q) == Len(q.items) > 0 /\ q.items[Len(q.items)] = Delimiter

Typed ==
  /\ terminated \in [Sides -> BOOLEAN] /\ peerTerminated \in [Sides -> BOOLEAN]
  /\ userRef \in [Sides -> BOOLEAN] /\ peerRef \in [Sides -> BOOLEAN]
  /\ alive \in [Sides -> BOOLEAN]
  /\ closing \in [Sides -> BOOLEAN] /\ mutex \in [Sides -> BOOLEAN]
  /\ pc \in [Sides -> Places]
  /\ mode \in [Sides -> {"poll", "timed", "forever"}]
  /\ held \in [Sides -> SUBSET (Nat \ {0})]
  /\ out \in [Sides -> Channels]

HeldTaken == \A s \in Sides : \A m \in held[s] : m <= in(s).taken

\* Who holds whom: an object lives as long as its user or its peer holds it.
Lifetimes ==
  \A s \in Sides :
    /\ alive[s] <=> userRef[s] \/ peerRef[Other(s)]
    /\ peerRef[s] <=> alive[s] /\ ~terminated[s]

\* A thread is inside a method of an object its user holds; Write needs the peer.
Callers ==
  \A s \in Sides :
    /\ pc[s] # "idle" => userRef[s]
    /\ pc[s] \in {"flush", "notify", "close"} => ~terminated[s]
    /\ closing[s] => pc[s] \in {"flush", "notify", "close"}
    /\ pc[s] = "close" => closing[s]

\* A reader that waits left word in the queue, or is about to be notified.
Waiting ==
  \A s \in Sides : pc[s] = "wait" => in(s).reader = "asleep" \/ pc[Other(s)] = "notify"

\* Where a delimiter is, and that all is published once Terminate has flushed it.
Ends ==
  \A s \in Sides :
    /\ DelimiterLast(out[s])
    /\ HasDelimiter(out[s]) <=> terminated[s] \/ closing[s]
    /\ terminated[s] \/ (closing[s] /\ pc[s] \in {"notify", "close"}) =>
         out[s].published = Len(out[s].items)

\* The end is the first null that was taken.
EndTaken(q, ended) ==
  /\ ended => q.taken # 0
  /\ \A i \in 1..q.taken : IsNull(q.items[i]) <=> ended /\ i = q.taken

Ended == \A s \in Sides : EndTaken(out[s], peerTerminated[Other(s)])

PipeInv ==
  /\ Typed /\ HeldTaken /\ Lifetimes /\ Callers /\ Waiting /\ Ends /\ Ended
  /\ \A s \in Sides : Sound(out[s])

-----------------------------------------------------------------------------
(* Each side has one other side. *)
LEMMA OtherSide ==
  ASSUME NEW s \in Sides
  PROVE  /\ Other(s) \in Sides /\ Other(s) # s /\ Other(Other(s)) = s
         /\ \A t \in Sides : t = s \/ t = Other(s)
  BY DEF Sides, Other

(* Write is not given the delimiter. *)
LEMMA ItemKinds ==
  ASSUME NEW item \in Writable
  PROVE  item \in Items /\ item # Delimiter /\ Delimiter \in Items
  BY DEF Writable, Delimiter, Items

(* What a reader has taken stays as it was, whatever follows. *)
LEMMA EndTakenKept ==
  ASSUME NEW q, NEW p, NEW ended, EndTaken(q, ended), p.taken = q.taken,
         \A i \in 1..q.taken : p.items[i] = q.items[i]
  PROVE  EndTaken(p, ended)
  BY DEF EndTaken

(* A channel is its five fields; Unwrite changes one of them, *)
LEMMA UndoFields ==
  ASSUME NEW q \in Channels, NEW i
  PROVE  [q EXCEPT !.items = i] = [items |-> i, complete |-> q.complete,
            published |-> q.published, taken |-> q.taken, reader |-> q.reader]
  BY DEF Channels

(* a write two, *)
LEMMA PutFields ==
  ASSUME NEW q \in Channels, NEW i, NEW n
  PROVE  [q EXCEPT !.items = i, !.complete = n] = [items |-> i, complete |-> n,
            published |-> q.published, taken |-> q.taken, reader |-> q.reader]
  <1> DEFINE c == q.published  d == q.taken  e == q.reader  b == q.complete
  <1>1. [q EXCEPT !.items = i]
        = [items |-> i, complete |-> b, published |-> c, taken |-> d, reader |-> e]
    BY UndoFields
  <1> HIDE DEF b, c, d, e
  <1>2. [[items |-> i, complete |-> b, published |-> c, taken |-> d, reader |-> e]
            EXCEPT !.complete = n]
        = [items |-> i, complete |-> n, published |-> c, taken |-> d, reader |-> e]
    OBVIOUS
  <1> QED BY <1>1, <1>2, Zenon DEF b, c, d, e

(* and so does a flush. *)
LEMMA FlushFields ==
  ASSUME NEW q \in Channels, NEW n, NEW m
  PROVE  [q EXCEPT !.published = n, !.reader = m] = [items |-> q.items,
            complete |-> q.complete, published |-> n, taken |-> q.taken, reader |-> m]
  <1> DEFINE a == q.items  b == q.complete  d == q.taken  e == q.reader
  <1>1. [q EXCEPT !.published = n]
        = [items |-> a, complete |-> b, published |-> n, taken |-> d, reader |-> e]
    BY DEF Channels
  <1> HIDE DEF a, b, d, e
  <1>2. [[items |-> a, complete |-> b, published |-> n, taken |-> d, reader |-> e]
            EXCEPT !.reader = m]
        = [items |-> a, complete |-> b, published |-> n, taken |-> d, reader |-> m]
    OBVIOUS
  <1> QED BY <1>1, <1>2, Zenon DEF a, b, d, e

(* What Write leaves in the queue. *)
LEMMA PutKeeps ==
  ASSUME NEW q \in Channels, Sound(q), DelimiterLast(q), ~HasDelimiter(q),
         NEW x \in Items, NEW more \in BOOLEAN, x = Delimiter => ~more
  PROVE  /\ Put(q, x, more) \in Channels
         /\ Sound(Put(q, x, more)) /\ DelimiterLast(Put(q, x, more))
         /\ HasDelimiter(Put(q, x, more)) <=> x = Delimiter
         /\ Put(q, x, more).taken = q.taken /\ Put(q, x, more).reader = q.reader
         /\ \A i \in 1..q.taken : Put(q, x, more).items[i] = q.items[i]
  <1> DEFINE p == Put(q, x, more)
             n == IF more THEN q.complete ELSE Len(q.items) + 1
  <1>1. /\ q.items \in Seq(Items) /\ q.complete \in Nat /\ q.published \in Nat
        /\ q.taken \in Nat /\ q.reader \in {"awake", "asleep"}
        /\ Len(q.items) \in Nat /\ n \in Nat /\ n <= Len(q.items) + 1 /\ q.complete <= n
        /\ x = Delimiter => n = Len(q.items) + 1
    BY DEF Channels, Sound
  <1>2. p = [items |-> Append(q.items, x), complete |-> n, published |-> q.published,
             taken |-> q.taken, reader |-> q.reader]
    BY PutFields, Zenon DEF Put
  <1>3. /\ Append(q.items, x) \in Seq(Items)
        /\ Len(Append(q.items, x)) = Len(q.items) + 1
        /\ \A i \in 1..Len(q.items) : Append(q.items, x)[i] = q.items[i]
        /\ Append(q.items, x)[Len(q.items) + 1] = x
    BY <1>1
  <1>4. \A i \in 1..Len(q.items) : q.items[i] # Delimiter
    BY <1>1 DEF DelimiterLast, HasDelimiter
  <1> HIDE DEF p, n
  <1>5. p \in Channels /\ Sound(p) /\ p.taken = q.taken /\ p.reader = q.reader
    BY <1>1, <1>2, <1>3 DEF Channels, Sound
  <1>6. DelimiterLast(p) /\ (HasDelimiter(p) <=> x = Delimiter)
    BY <1>1, <1>2, <1>3, <1>4 DEF DelimiterLast, HasDelimiter
  <1>7. \A i \in 1..q.taken : p.items[i] = q.items[i]
    BY <1>1, <1>2, <1>3 DEF Sound
  <1> QED BY <1>5, <1>6, <1>7 DEF p

(* What Unwrite leaves there: it never takes a delimiter back. *)
LEMMA UndoKeeps ==
  ASSUME NEW q \in Channels, Sound(q), DelimiterLast(q), CanUndo(q)
  PROVE  /\ Undo(q) \in Channels
         /\ Sound(Undo(q)) /\ DelimiterLast(Undo(q))
         /\ ~HasDelimiter(q) /\ ~HasDelimiter(Undo(q))
         /\ Undo(q).taken = q.taken /\ Undo(q).reader = q.reader
         /\ \A i \in 1..q.taken : Undo(q).items[i] = q.items[i]
  <1> DEFINE p == Undo(q)
             n == Len(q.items) - 1
  <1>1. /\ q.items \in Seq(Items) /\ q.complete \in Nat /\ q.published \in Nat
        /\ q.taken \in Nat /\ q.reader \in {"awake", "asleep"}
        /\ Len(q.items) \in Nat /\ n \in Nat /\ q.complete <= n
    BY DEF Channels, Sound, CanUndo
  <1>2. p = [items |-> SubSeq(q.items, 1, n), complete |-> q.complete,
             published |-> q.published, taken |-> q.taken, reader |-> q.reader]
    BY UndoFields, Zenon DEF Undo
  <1>3. /\ SubSeq(q.items, 1, n) \in Seq(Items)
        /\ Len(SubSeq(q.items, 1, n)) = n
        /\ \A i \in 1..n : SubSeq(q.items, 1, n)[i] = q.items[i]
    <2>1. \A i \in 1..n : q.items[i] \in Items
      BY <1>1
    <2> HIDE DEF n
    <2> QED BY <1>1, <2>1, SubSeqProperties
  <1>4. \A i \in 1..Len(q.items) : q.items[i] # Delimiter
    BY <1>1 DEF DelimiterLast
  <1>5. ~HasDelimiter(q)
    BY <1>1, <1>4 DEF HasDelimiter
  <1>6. \A i \in 1..n : q.items[i] # Delimiter
    BY <1>1, <1>4
  <1> HIDE DEF p, n
  <1>7. p \in Channels /\ Sound(p) /\ p.taken = q.taken /\ p.reader = q.reader
    BY <1>1, <1>2, <1>3 DEF Channels, Sound
  <1>8. DelimiterLast(p) /\ ~HasDelimiter(p)
    BY <1>1, <1>2, <1>3, <1>6 DEF DelimiterLast, HasDelimiter
  <1>9. \A i \in 1..q.taken : p.items[i] = q.items[i]
    BY <1>1, <1>2, <1>3 DEF Sound
  <1> QED BY <1>5, <1>7, <1>8, <1>9 DEF p

(* Flush touches no item, and leaves a sleeping reader only with nothing new. *)
LEMMA FlushKeeps ==
  ASSUME NEW q \in Channels, Sound(q)
  PROVE  /\ Flushed(q) \in Channels /\ Sound(Flushed(q))
         /\ Flushed(q).items = q.items /\ Flushed(q).complete = q.complete
         /\ Flushed(q).taken = q.taken /\ Flushed(q).published = q.complete
         /\ FlushResult(q) /\ q.reader = "asleep" => Flushed(q).reader = "asleep"
  <1> DEFINE m == IF q.published = q.complete THEN q.reader ELSE "awake"
  <1>1. m \in {"awake", "asleep"}
    BY DEF Channels
  <1>2. Flushed(q) = [items |-> q.items, complete |-> q.complete, published |-> q.complete,
                      taken |-> q.taken, reader |-> m]
    BY FlushFields, Zenon DEF Flushed
  <1> QED BY <1>1, <1>2 DEF Channels, Sound, FlushResult

(* A look at the queue leaves a reader that finds nothing asleep. *)
LEMMA CheckKeeps ==
  ASSUME NEW q \in Channels, Sound(q)
  PROVE  /\ Checked(q) \in Channels /\ Sound(Checked(q))
         /\ Checked(q).items = q.items /\ Checked(q).complete = q.complete
         /\ Checked(q).taken = q.taken /\ Checked(q).published = q.published
         /\ ~HasItem(q) \/ q.reader = "asleep" => Checked(q).reader = "asleep"
  <1> DEFINE m == IF HasItem(q) THEN q.reader ELSE "asleep"
  <1>1. m \in {"awake", "asleep"}
    BY DEF Channels
  <1>2. Checked(q) = [items |-> q.items, complete |-> q.complete, published |-> q.published,
                      taken |-> q.taken, reader |-> m]
    BY DEF Checked, Channels
  <1> QED BY <1>1, <1>2 DEF Channels, Sound, HasItem

(* The item a reader takes; it may be the end. *)
LEMMA TakeKeeps ==
  ASSUME NEW q \in Channels, Sound(q), HasItem(q), EndTaken(q, FALSE)
  PROVE  /\ Take(q) \in Channels /\ Sound(Take(q))
         /\ Take(q).items = q.items /\ Take(q).complete = q.complete
         /\ Take(q).taken = q.taken + 1 /\ Take(q).reader = q.reader
         /\ Take(q).published = q.published
         /\ q.taken \in Nat /\ q.taken < Len(q.items)
         /\ EndTaken(Take(q), IsNull(NextItem(q)))
  <1>1. Take(q) = [items |-> q.items, complete |-> q.complete, published |-> q.published,
                   taken |-> q.taken + 1, reader |-> q.reader]
    BY DEF Take, Channels
  <1>2. /\ q.taken \in Nat /\ q.items \in Seq(Items) /\ q.published \in Nat /\ q.complete \in Nat
        /\ q.taken < Len(q.items)
    BY DEF Channels, Sound, HasItem
  <1> DEFINE p == Take(q)  ended == IsNull(NextItem(q))
  <1>3. p.items = q.items /\ p.taken = q.taken + 1
    BY <1>1
  <1>4. EndTaken(p, ended)
    <2>1. ASSUME NEW i \in 1..p.taken PROVE IsNull(p.items[i]) <=> ended /\ i = p.taken
      <3>1. CASE i = p.taken
        BY <1>3, <3>1 DEF NextItem
      <3>2. CASE i # p.taken
        <4>1. i \in 1..q.taken
          BY <1>2, <1>3, <3>2
        <4> QED BY <1>3, <3>2, <4>1 DEF EndTaken
      <3> QED BY <3>1, <3>2
    <2>2. p.taken # 0
      BY <1>2, <1>3
    <2> HIDE DEF p, ended
    <2> QED BY <2>1, <2>2 DEF EndTaken
  <1> QED BY <1>1, <1>2, <1>4 DEF Channels, Sound, HasItem

(* shared_ptr: who is left when users and peers have let go. *)
LEMMA DropKeeps ==
  ASSUME NEW users \in [Sides -> BOOLEAN], NEW peers \in [Sides -> BOOLEAN],
         DropRefs(users, peers)
  PROVE  /\ userRef' = users
         /\ peerRef' \in [Sides -> BOOLEAN] /\ alive' \in [Sides -> BOOLEAN]
         /\ \A s \in Sides : /\ alive'[s] <=> users[s] \/ peerRef'[Other(s)]
                             /\ peerRef'[s] <=> peers[s] /\ alive'[s]
  <1> DEFINE gone == Unheld(users, peers)
  <1>1. \A s \in Sides :
          s \in gone <=> ~users[s] /\ (~peers[Other(s)] \/ (~users[Other(s)] /\ ~peers[s]))
    BY OtherSide, Zenon DEF Unheld
  <1>2. /\ userRef' = users
        /\ peerRef' = [s \in Sides |-> peers[s] /\ s \notin gone]
        /\ alive' = [s \in Sides |-> s \notin gone]
    BY DEF DropRefs
  <1> HIDE DEF gone
  <1>3. peerRef' \in [Sides -> BOOLEAN] /\ alive' \in [Sides -> BOOLEAN]
    BY <1>2
  <1>4. ASSUME NEW s \in Sides
        PROVE  /\ alive'[s] <=> users[s] \/ peerRef'[Other(s)]
               /\ peerRef'[s] <=> peers[s] /\ alive'[s]
    <2> DEFINE o == Other(s)
    <2>1. o \in Sides /\ Other(o) = s
      BY OtherSide
    <2>2. s \in gone <=> ~users[s] /\ (~peers[o] \/ (~users[o] /\ ~peers[s]))
      BY <1>1
    <2>3. o \in gone <=> ~users[o] /\ (~peers[s] \/ (~users[s] /\ ~peers[o]))
      BY <1>1, <2>1
    <2> HIDE DEF o
    <2>4. /\ alive'[s] <=> s \notin gone
          /\ peerRef'[s] <=> peers[s] /\ s \notin gone
          /\ peerRef'[o] <=> peers[o] /\ o \notin gone
      BY <1>2, <2>1
    <2>5. /\ alive'[s] <=> users[s] \/ peerRef'[o]
          /\ peerRef'[s] <=> peers[s] /\ alive'[s]
      BY <2>2, <2>3, <2>4
    <2> QED BY <2>5 DEF o
  <1> QED BY <1>2, <1>3, <1>4

(* The pair starts in the invariant. *)
LEMMA InitPipeInv == Init => PipeInv
  <1> SUFFICES ASSUME Init PROVE PipeInv
    OBVIOUS
  <1>1. \A s \in Sides : out[s] = EmptyChannel /\ in(s) = EmptyChannel
    BY OtherSide DEF Init, Everywhere, in
  <1>2. EmptyChannel \in Channels /\ Sound(EmptyChannel) /\ DelimiterLast(EmptyChannel)
        /\ ~HasDelimiter(EmptyChannel) /\ EndTaken(EmptyChannel, FALSE)
    BY DEF EmptyChannel, Channels, Sound, DelimiterLast, HasDelimiter, EndTaken
  <1>3. Typed
    BY <1>2 DEF Init, Everywhere, Typed, Places
  <1>4. HeldTaken /\ Callers /\ Waiting /\ Ends /\ Ended
    BY <1>1, <1>2, OtherSide DEF Init, Everywhere, HeldTaken, Callers, Waiting, Ends, Ended
  <1>5. Lifetimes
    BY OtherSide DEF Init, Everywhere, Lifetimes
  <1> QED BY <1>1, <1>2, <1>3, <1>4, <1>5 DEF PipeInv

(* A step that changes nothing keeps it. *)
LEMMA UnchangedKeeps == PipeInv /\ UNCHANGED vars => PipeInv'
  BY DEF vars, refs, PipeInv, Typed, HeldTaken, Lifetimes, Callers, Waiting, Ends, Ended, in

(* Every step of either thread keeps it: first the writing half, *)
LEMMA WriterKeeps ==
  ASSUME PipeInv, NEW s \in Sides,
         \/ \E item \in Writable, more \in BOOLEAN : Write(s, item, more)
         \/ Unwrite(s) \/ Flush(s) \/ Notify(s) \/ Terminate(s) \/ Close(s) \/ Drop(s)
  PROVE  PipeInv'
  <1> DEFINE o == Other(s)
  <1>0. /\ o \in Sides /\ o # s /\ Other(o) = s /\ Other(s) = o
        /\ \A t \in Sides : t = s \/ t = o
    BY OtherSide
  <1>q. /\ out[s] \in Channels /\ Sound(out[s]) /\ DelimiterLast(out[s])
        /\ ~terminated[s] /\ ~closing[s] <=> ~HasDelimiter(out[s])
        /\ EndTaken(out[s], peerTerminated[o])
    BY DEF PipeInv, Typed, Ends, Ended
  <1> HIDE DEF o
  <1> USE DEF PipeInv
  <1>1. ASSUME NEW x \in Items, NEW more \in BOOLEAN, x = Delimiter => ~more,
               out' = [out EXCEPT ![s] = Put(@, x, more)],
               Free(s), ~terminated[s],
               closing' = [closing EXCEPT ![s] = @ \/ x = Delimiter],
               pc' = [pc EXCEPT ![s] = IF more THEN "idle" ELSE "flush"],
               UNCHANGED <<terminated, peerTerminated, refs, mode, mutex, held>>
        PROVE  PipeInv'
    <2>0. ~closing[s] /\ ~HasDelimiter(out[s])
      BY <1>1, <1>q DEF Free, Callers
    <2>1. /\ out'[s] \in Channels /\ Sound(out'[s]) /\ DelimiterLast(out'[s])
          /\ HasDelimiter(out'[s]) <=> x = Delimiter
          /\ EndTaken(out'[s], peerTerminated[o])
          /\ out'[s].taken = out[s].taken /\ out'[s].reader = out[s].reader
          /\ out'[o] = out[o]
      <3> DEFINE p == Put(out[s], x, more)
      <3>1. /\ p \in Channels /\ Sound(p) /\ DelimiterLast(p)
            /\ HasDelimiter(p) <=> x = Delimiter
            /\ p.taken = out[s].taken /\ p.reader = out[s].reader
            /\ \A i \in 1..out[s].taken : p.items[i] = out[s].items[i]
        BY <1>1, <1>q, <2>0, PutKeeps
      <3>2. out'[s] = p /\ out'[o] = out[o]
        BY <1>0, <1>1 DEF Typed
      <3> HIDE DEF p
      <3>3. EndTaken(p, peerTerminated[o])
        BY <1>q, <3>1, EndTakenKept
      <3> QED BY <3>1, <3>2, <3>3
    <2>2. Typed'
      BY <1>0, <1>1, <2>1 DEF Typed, refs, Places
    <2>3. (HeldTaken /\ \A t \in Sides : Sound(out[t]))'
      BY <1>0, <1>1, <2>1 DEF HeldTaken, in
    <2>4. (Lifetimes /\ Callers)'
      BY <1>0, <1>1, <2>0 DEF Lifetimes, Callers, Typed, Free, refs
    <2>5. Waiting'
      BY <1>0, <1>1, <2>1 DEF Waiting, Typed, Free, in
    <2>6. Ends'
      BY <1>0, <1>1, <2>0, <2>1 DEF Ends, Typed
    <2>7. Ended'
      BY <1>0, <1>1, <2>1 DEF Ended
    <2> QED BY <2>2, <2>3, <2>4, <2>5, <2>6, <2>7
  <1>2. ASSUME NEW item \in Writable, NEW more \in BOOLEAN, Write(s, item, more) PROVE PipeInv'
    <2>1. item \in Items /\ item # Delimiter
      BY ItemKinds
    <2>2. closing' = [closing EXCEPT ![s] = @ \/ item = Delimiter]
      BY <1>2, <2>1 DEF Write, Typed
    <2> QED BY <1>1, <1>2, <2>1, <2>2 DEF Write
  <1>3. CASE Terminate(s)
    <2>1. Delimiter \in Items
      BY DEF Items
    <2>2. closing' = [closing EXCEPT ![s] = @ \/ Delimiter = Delimiter]
      BY <1>3 DEF Terminate, Typed
    <2> QED BY <1>1, <1>3, <2>1, <2>2 DEF Terminate
  <1>4. CASE Unwrite(s) /\ ~CanUndo(out[s])
    <2>1. UNCHANGED vars
      BY <1>4 DEF Unwrite, Typed, vars, refs
    <2> QED BY <2>1, UnchangedKeeps
  <1>5. CASE Flush(s)
    <2>1. /\ out'[s] \in Channels /\ Sound(out'[s])
          /\ out'[s].items = out[s].items /\ out'[s].complete = out[s].complete
          /\ out'[s].taken = out[s].taken /\ out'[s].published = out[s].complete
          /\ FlushResult(out[s]) /\ out[s].reader = "asleep" => out'[s].reader = "asleep"
          /\ out'[o] = out[o] /\ out' \in [Sides -> Channels]
      BY <1>0, <1>5, <1>q, FlushKeeps DEF Typed, Flush
    <2>2. (Typed /\ Lifetimes)'
      BY <1>5, <2>1 DEF Typed, Lifetimes, Flush, AfterWrite, Places, refs
    <2>3. Callers'
      BY <1>0, <1>5 DEF Callers, Typed, Flush, AfterWrite, refs
    <2>4. Waiting'
      BY <1>0, <1>5, <2>1 DEF Waiting, Typed, in, Flush, AfterWrite
    <2>5. (HeldTaken /\ Ended /\ \A t \in Sides : Sound(out[t]))'
      BY <1>0, <1>5, <2>1 DEF HeldTaken, Ended, EndTaken, in, Flush
    <2>6. Ends'
      <3>1. HasDelimiter(out[s]) => out[s].complete = Len(out[s].items)
        BY <1>q DEF HasDelimiter, DelimiterLast, Channels
      <3> QED BY <1>0, <1>5, <2>1, <3>1
               DEF Ends, Callers, Typed, HasDelimiter, DelimiterLast, Flush, AfterWrite
    <2> QED BY <2>2, <2>3, <2>4, <2>5, <2>6
  <1>6. CASE Notify(s)
    <2>1. (Typed /\ Lifetimes /\ HeldTaken /\ Ended /\ \A t \in Sides : Sound(out[t]))'
      BY <1>6 DEF Typed, Lifetimes, HeldTaken, Ended, in, Notify, AfterWrite, Places, refs
    <2>2. (Callers /\ Waiting /\ Ends)'
      BY <1>0, <1>6 DEF Callers, Waiting, Ends, Typed, in, Notify, AfterWrite, refs
    <2> QED BY <2>1, <2>2
  <1>7. CASE Close(s)
    <2> DEFINE peers == [peerRef EXCEPT ![s] = FALSE]
    <2>1. /\ userRef' = userRef /\ peerRef' \in [Sides -> BOOLEAN]
          /\ alive' \in [Sides -> BOOLEAN]
          /\ \A t \in Sides : /\ alive'[t] <=> userRef[t] \/ peerRef'[Other(t)]
                              /\ peerRef'[t] <=> peers[t] /\ alive'[t]
      <3>1. userRef \in [Sides -> BOOLEAN] /\ peers \in [Sides -> BOOLEAN]
        BY DEF Typed
      <3> QED BY <1>7, <3>1, DropKeeps DEF Close
    <2>2. Typed'
      BY <1>7, <2>1 DEF Typed, Close, Places
    <2>6. (HeldTaken /\ Ended /\ \A t \in Sides : Sound(out[t]))'
      BY <1>7, <2>1 DEF HeldTaken, Ended, in, Close
    <2>3. (Callers /\ Waiting)'
      BY <1>0, <1>7, <2>1 DEF Callers, Waiting, Typed, in, Close
    <2>4. Ends'
      BY <1>0, <1>7 DEF Ends, Callers, Typed, Close
    <2>5. Lifetimes'
      BY <1>0, <1>7, <2>1 DEF Lifetimes, Typed, Close
    <2> QED BY <2>2, <2>3, <2>4, <2>5, <2>6
  <1>8. CASE Drop(s)
    <2> DEFINE users == [userRef EXCEPT ![s] = FALSE]
    <2>1. /\ userRef' = users /\ peerRef' \in [Sides -> BOOLEAN]
          /\ alive' \in [Sides -> BOOLEAN]
          /\ \A t \in Sides : /\ alive'[t] <=> users[t] \/ peerRef'[Other(t)]
                              /\ peerRef'[t] <=> peerRef[t] /\ alive'[t]
      <3>1. peerRef \in [Sides -> BOOLEAN] /\ users \in [Sides -> BOOLEAN]
        BY DEF Typed
      <3> QED BY <1>8, <3>1, DropKeeps DEF Drop
    <2>2. (Typed /\ HeldTaken /\ Waiting /\ Ends /\ Ended /\ \A t \in Sides : Sound(out[t]))'
      BY <1>8, <2>1 DEF Typed, HeldTaken, Waiting, Ends, Ended, in, Drop
    <2>3. Callers'
      BY <1>0, <1>8, <2>1 DEF Callers, Typed, Drop, Free
    <2>4. Lifetimes'
      BY <1>0, <1>8, <2>1 DEF Lifetimes, Typed, Drop
    <2> QED BY <2>2, <2>3, <2>4
  <1>9. CASE Unwrite(s) /\ CanUndo(out[s])
    <2>1. /\ out'[s] \in Channels /\ Sound(out'[s]) /\ DelimiterLast(out'[s])
          /\ ~HasDelimiter(out[s]) /\ ~HasDelimiter(out'[s])
          /\ out'[s].taken = out[s].taken /\ out'[s].reader = out[s].reader
          /\ out'[o] = out[o] /\ out' \in [Sides -> Channels]
          /\ \A i \in 1..out[s].taken : out'[s].items[i] = out[s].items[i]
      BY <1>0, <1>9, <1>q, UndoKeeps DEF Typed, Unwrite
    <2>2. (Typed /\ Lifetimes /\ Callers)'
      BY <1>9, <2>1 DEF Typed, Lifetimes, Callers, Unwrite, refs
    <2>3. (HeldTaken /\ Waiting /\ Ends /\ \A t \in Sides : Sound(out[t]))'
      BY <1>0, <1>9, <1>q, <2>1 DEF HeldTaken, Waiting, Ends, in, Unwrite
    <2>4. EndTaken(out'[s], peerTerminated[o])
      BY <1>q, <2>1, EndTakenKept
    <2>5. Ended'
      BY <1>0, <1>9, <2>1, <2>4 DEF Ended, Unwrite
    <2> QED BY <2>2, <2>3, <2>5
  <1> QED BY <1>2, <1>3, <1>4, <1>5, <1>6, <1>7, <1>8, <1>9

(* A look of the reader at its queue: what DoRead and DoReadNothing change. *)
LEMMA LookKeeps ==
  ASSUME PipeInv, NEW s \in Sides, DoRead(s) \/ DoReadNothing(s)
  PROVE  /\ out' \in [Sides -> Channels] /\ \A t \in Sides : Sound(out'[t])
         /\ peerTerminated' \in [Sides -> BOOLEAN]
         /\ held' \in [Sides -> SUBSET (Nat \ {0})]
         /\ out'[s] = out[s]
         /\ out'[Other(s)].items = out[Other(s)].items
         /\ out'[Other(s)].complete = out[Other(s)].complete
         /\ out'[Other(s)].published = out[Other(s)].published
         /\ DoReadNothing(s) \/ out[Other(s)].reader = "asleep"
              => out'[Other(s)].reader = "asleep"
         /\ \A m \in held'[s] : m <= out'[Other(s)].taken
         /\ held'[Other(s)] = held[Other(s)]
         /\ EndTaken(out'[Other(s)], peerTerminated'[s])
         /\ peerTerminated'[Other(s)] = peerTerminated[Other(s)]
  <1> DEFINE o == Other(s)
  <1>0. /\ o \in Sides /\ o # s /\ Other(o) = s
        /\ \A t \in Sides : t = s \/ t = o
    BY OtherSide
  <1>1. /\ out[o] \in Channels /\ Sound(out[o]) /\ DelimiterLast(out[o])
        /\ EndTaken(out[o], peerTerminated[s])
        /\ \A m \in held[s] : m \in Nat /\ m <= out[o].taken
        /\ out[o].taken \in Nat
    BY <1>0 DEF PipeInv, Typed, Ends, Ended, HeldTaken, in, Channels
  <1>2. in(s) = out[o]
    BY DEF in
  <1> HIDE DEF o
  <1> USE DEF PipeInv
  <1>3. CASE peerTerminated[s] /\ UNCHANGED <<out, peerTerminated, held>>
    <2>1. ~DoReadNothing(s)
      BY <1>3 DEF DoReadNothing
    <2> QED BY <1>0, <1>1, <1>3, <2>1 DEF Typed, o
  <1>4. CASE DoRead(s) /\ ~peerTerminated[s]
    <2>1. /\ HasItem(out[o])
          /\ out' = [out EXCEPT ![o] = Take(@)]
          /\ \/ /\ IsNull(NextItem(out[o]))
                /\ peerTerminated' = [peerTerminated EXCEPT ![s] = TRUE] /\ UNCHANGED held
             \/ /\ ~IsNull(NextItem(out[o]))
                /\ held' = [held EXCEPT ![s] = @ \cup {out[o].taken + 1}]
                /\ UNCHANGED peerTerminated
      BY <1>2, <1>4 DEF DoRead, o
    <2>2. /\ out'[o] \in Channels /\ Sound(out'[o])
          /\ out'[o].items = out[o].items /\ out'[o].complete = out[o].complete
          /\ out'[o].taken = out[o].taken + 1 /\ out'[o].reader = out[o].reader
          /\ out'[o].published = out[o].published
          /\ EndTaken(out'[o], IsNull(NextItem(out[o])))
          /\ out'[s] = out[s] /\ out' \in [Sides -> Channels]
      <3>1. EndTaken(out[o], FALSE)
        BY <1>1, <1>4 DEF EndTaken
      <3> QED BY <1>0, <1>1, <2>1, <3>1, TakeKeeps DEF Typed
    <2>3. ~DoReadNothing(s)
      BY <1>2, <2>1 DEF DoReadNothing
    <2>4. /\ held' \in [Sides -> SUBSET (Nat \ {0})] /\ held'[o] = held[o]
          /\ \A m \in held'[s] : m <= out'[o].taken
      BY <1>0, <1>1, <2>1, <2>2 DEF Typed
    <2>5. /\ peerTerminated' \in [Sides -> BOOLEAN]
          /\ peerTerminated'[s] <=> IsNull(NextItem(out[o]))
          /\ peerTerminated'[o] = peerTerminated[o]
      BY <1>0, <1>4, <2>1 DEF Typed
    <2>6. EndTaken(out'[o], peerTerminated'[s])
      BY <2>2, <2>5 DEF EndTaken
    <2> QED BY <1>0, <2>2, <2>3, <2>4, <2>5, <2>6 DEF o
  <1>5. CASE DoReadNothing(s)
    <2>1. /\ out' = [out EXCEPT ![o] = Checked(@)] /\ ~HasItem(out[o]) /\ ~peerTerminated[s]
          /\ UNCHANGED <<peerTerminated, held>>
      BY <1>2, <1>5 DEF DoReadNothing, o
    <2>2. /\ out'[o] \in Channels /\ Sound(out'[o])
          /\ out'[o].items = out[o].items /\ out'[o].complete = out[o].complete
          /\ out'[o].taken = out[o].taken /\ out'[o].reader = "asleep"
          /\ out'[o].published = out[o].published
          /\ out'[s] = out[s] /\ out' \in [Sides -> Channels]
      BY <1>0, <1>1, <2>1, CheckKeeps DEF Typed
    <2>3. EndTaken(out'[o], peerTerminated'[s])
      BY <1>1, <2>1, <2>2 DEF EndTaken
    <2> QED BY <1>0, <1>1, <2>1, <2>2, <2>3 DEF Typed, o
  <1> QED BY <1>3, <1>4, <1>5 DEF DoRead

(* and then the reading half. *)
LEMMA ReaderKeeps ==
  ASSUME PipeInv, NEW s \in Sides,
         \/ \E timeout \in {"poll", "timed", "forever"} : Read(s, timeout)
         \/ Lock(s) \/ ReadLocked(s) \/ WakeUp(s) \/ CheckRead(s) \/ Recycle(s)
  PROVE  PipeInv'
  <1> DEFINE o == Other(s)
  <1>0. /\ o \in Sides /\ o # s /\ Other(o) = s /\ Other(s) = o
        /\ \A t \in Sides : t = s \/ t = o
    BY OtherSide
  <1> HIDE DEF o
  <1> USE DEF PipeInv
  <1>1. ASSUME DoRead(s) \/ DoReadNothing(s),
               UNCHANGED <<terminated, refs, closing>>,
               mode' \in [Sides -> {"poll", "timed", "forever"}],
               mutex' \in [Sides -> BOOLEAN],
               pc' = pc \/ \E place \in {"idle", "lock", "wait"} :
                             pc' = [pc EXCEPT ![s] = place],
               Free(s) \/ pc[s] \in {"locked", "recheck"},
               pc'[s] = "wait" => DoReadNothing(s)
        PROVE  PipeInv'
    <2>1. /\ out' \in [Sides -> Channels] /\ \A t \in Sides : Sound(out'[t])
          /\ peerTerminated' \in [Sides -> BOOLEAN]
          /\ held' \in [Sides -> SUBSET (Nat \ {0})]
          /\ out'[s] = out[s]
          /\ out'[o].items = out[o].items /\ out'[o].complete = out[o].complete
          /\ out'[o].published = out[o].published
          /\ DoReadNothing(s) \/ out[o].reader = "asleep" => out'[o].reader = "asleep"
          /\ \A m \in held'[s] : m <= out'[o].taken
          /\ held'[o] = held[o]
          /\ EndTaken(out'[o], peerTerminated'[s])
          /\ peerTerminated'[o] = peerTerminated[o]
      BY <1>0, <1>1, LookKeeps
    <2>2. (Typed /\ Lifetimes)'
      BY <1>1, <2>1 DEF Typed, Lifetimes, Places, refs
    <2>3. (HeldTaken /\ \A t \in Sides : Sound(out[t]))'
      BY <1>0, <2>1 DEF HeldTaken, in
    <2>4. Callers'
      BY <1>0, <1>1 DEF Callers, Typed, Free, refs
    <2>5. Waiting'
      BY <1>0, <1>1, <2>1 DEF Waiting, Typed, Free, in
    <2>6. Ends'
      BY <1>0, <1>1, <2>1 DEF Ends, Callers, Typed, Free, HasDelimiter, DelimiterLast
    <2>7. Ended'
      BY <1>0, <2>1 DEF Ended
    <2> QED BY <2>2, <2>3, <2>4, <2>5, <2>6, <2>7
  <1>2. ASSUME NEW timeout \in {"poll", "timed", "forever"}, Read(s, timeout)
        PROVE  PipeInv'
    <2>1. pc'[s] # "wait" /\ pc[s] = "idle"
      BY <1>2 DEF Read, Free, Typed
    <2> QED BY <1>1, <1>2, <2>1 DEF Read, Typed
  <1>3. CASE ReadLocked(s)
    <2>1. pc'[s] = "wait" => DoReadNothing(s)
      BY <1>3 DEF ReadLocked, Typed
    <2> QED BY <1>1, <1>3, <2>1 DEF ReadLocked, Typed
  <1>4. CASE Lock(s) \/ WakeUp(s)
    <2>1. (HeldTaken /\ Lifetimes /\ Ended /\ \A t \in Sides : Sound(out[t]))'
      BY <1>4 DEF HeldTaken, Lifetimes, Ended, in, Lock, WakeUp, refs
    <2>3. Typed'
      BY <1>4 DEF Typed, Lock, WakeUp, Places, refs
    <2>2. (Callers /\ Waiting /\ Ends)'
      BY <1>0, <1>4 DEF Callers, Waiting, Ends, Typed, in, Lock, WakeUp, refs
    <2> QED BY <2>1, <2>2, <2>3
  <1>5. CASE CheckRead(s)
    <2>1. out[o] \in Channels /\ Sound(out[o])
      BY <1>0 DEF Typed
    <2>2. /\ out'[o] \in Channels /\ Sound(out'[o])
          /\ out'[o].items = out[o].items /\ out'[o].complete = out[o].complete
          /\ out'[o].taken = out[o].taken /\ out'[o].published = out[o].published
          /\ out[o].reader = "asleep" => out'[o].reader = "asleep"
          /\ out'[s] = out[s] /\ out' \in [Sides -> Channels]
      BY <1>0, <1>5, <2>1, CheckKeeps DEF Typed, CheckRead
    <2>3. (Typed /\ Lifetimes /\ Callers)'
      BY <1>5, <2>2 DEF Typed, Lifetimes, Callers, CheckRead, refs
    <2>4. (HeldTaken /\ Waiting /\ \A t \in Sides : Sound(out[t]))'
      BY <1>0, <1>5, <2>2 DEF HeldTaken, Waiting, in, CheckRead
    <2>5. (Ends /\ Ended)'
      BY <1>0, <1>5, <2>2 DEF Ends, Ended, EndTaken, HasDelimiter, DelimiterLast, CheckRead
    <2> QED BY <2>3, <2>4, <2>5
  <1>6. CASE Recycle(s)
    <2>1. (Typed /\ Lifetimes /\ Callers /\ Waiting /\ Ends /\ Ended)'
      BY <1>6 DEF Typed, Lifetimes, Callers, Waiting, Ends, Ended, in, Recycle, refs
    <2>2. (HeldTaken /\ \A t \in Sides : Sound(out[t]))'
      BY <1>6 DEF Typed, HeldTaken, in, Recycle
    <2> QED BY <2>1, <2>2
  <1> QED BY <1>2, <1>3, <1>4, <1>5, <1>6

(* The invariant of the pair holds in every reachable state. *)
THEOREM PipeInvariance == Spec => []PipeInv
  <1>1. PipeInv /\ [Next]_vars => PipeInv'
    <2> SUFFICES ASSUME PipeInv, [Next]_vars PROVE PipeInv'
      OBVIOUS
    <2>1. CASE Next
      BY <2>1, WriterKeeps, ReaderKeeps DEF Next
    <2>2. CASE UNCHANGED vars
      BY <2>2, UnchangedKeeps
    <2> QED BY <2>1, <2>2
  <1> QED BY <1>1, InitPipeInv, PTL DEF Spec

(***************************************************************************)
(* The flags, references and positions of both objects keep their types.   *)
(***************************************************************************)
THEOREM PipeTypeCorrect == Spec => []TypeOK
  <1>1. ASSUME PipeInv PROVE TypeOK
    <2>1. ASSUME NEW s \in Sides
          PROVE  /\ out[s].taken \in 0..out[s].published
                 /\ out[s].published \in 0..out[s].complete
                 /\ out[s].complete \in 0..Len(out[s].items)
      BY <1>1 DEF PipeInv, Typed, Channels, Sound
    <2>2. ASSUME NEW s \in Sides PROVE held[s] \subseteq 1..out[Other(s)].taken
      BY <1>1, OtherSide DEF PipeInv, Typed, Channels, HeldTaken, in
    <2> QED BY <1>1, <2>1, <2>2 DEF PipeInv, Typed, TypeOK
  <1> QED BY <1>1, PipeInvariance, PTL

(***************************************************************************)
(* A reader that waits although something is there for it is about to be   *)
(* notified: no notification falls between its last look and its wait.     *)
(***************************************************************************)
THEOREM NotificationNotLost == Spec => []NoLostNotification
  <1>1. ASSUME PipeInv PROVE NoLostNotification
    <2> SUFFICES ASSUME NEW s \in Sides, pc[s] = "wait", HasItem(in(s))
                 PROVE  pc[Other(s)] = "notify"
      BY DEF NoLostNotification
    <2>1. Sound(in(s)) /\ in(s) \in Channels
      BY <1>1, OtherSide DEF PipeInv, Typed, in
    <2>2. in(s).reader # "asleep"
      BY <2>1 DEF Sound, HasItem, Channels
    <2> QED BY <1>1, <2>2 DEF PipeInv, Waiting
  <1> QED BY <1>1, PipeInvariance, PTL

(***************************************************************************)
(* Write and Terminate never touch a peer that is destroyed.               *)
(***************************************************************************)
THEOREM PeerAlive == Spec => []PeerOutlivesWriter
  <1>1. PipeInv => PeerOutlivesWriter
    BY OtherSide DEF PipeInv, Typed, Lifetimes, Callers, PeerOutlivesWriter
  <1> QED BY <1>1, PipeInvariance, PTL

(***************************************************************************)
(* Two objects that hold each other are destroyed once both users have let *)
(* go and one side was terminated.                                         *)
(***************************************************************************)
THEOREM NoCycle == Spec => []CycleBroken
  <1>1. PipeInv => CycleBroken
    BY OtherSide DEF PipeInv, Typed, Lifetimes, CycleBroken
  <1> QED BY <1>1, PipeInvariance, PTL

(***************************************************************************)
(* The end is the first null that is read; when it is Terminate's, all was *)
(* read before it, and nothing follows.  A Terminate that is over leaves   *)
(* nothing unpublished.                                                    *)
(***************************************************************************)
THEOREM EndComesAtNull == Spec => []EndAtNull
  <1>1. ASSUME PipeInv PROVE EndAtNull
    <2> SUFFICES ASSUME NEW s \in Sides
                 PROVE  LET q == in(s)
                            last == Len(q.items)
                        IN  /\ peerTerminated[s] => q.taken # 0
                            /\ \A i \in 1..q.taken :
                                 IsNull(q.items[i]) <=> peerTerminated[s] /\ i = q.taken
                            /\ peerTerminated[s] /\ q.items[q.taken] = Delimiter =>
                                 q.taken = last /\ (terminated[Other(s)] \/ closing[Other(s)])
                            /\ terminated[Other(s)] =>
                                 q.published = last /\ last # 0 /\ q.items[last] = Delimiter
      BY Zenon DEF EndAtNull
    <2> DEFINE o == Other(s)  q == in(s)
    <2>1. o \in Sides /\ Other(o) = s /\ q = out[o]
      BY OtherSide DEF in
    <2> HIDE DEF o, q
    <2>2. /\ q \in Channels /\ Sound(q) /\ DelimiterLast(q) /\ EndTaken(q, peerTerminated[s])
          /\ HasDelimiter(q) <=> terminated[o] \/ closing[o]
          /\ terminated[o] => q.published = Len(q.items)
      BY <1>1, <2>1 DEF PipeInv, Typed, Ends, Ended
    <2>3. /\ q.taken \in Nat /\ q.taken <= Len(q.items) /\ Len(q.items) \in Nat
      BY <2>2 DEF Channels, Sound
    <2>4. peerTerminated[s] /\ q.items[q.taken] = Delimiter =>
            q.taken = Len(q.items) /\ HasDelimiter(q)
      BY <2>2, <2>3 DEF EndTaken, DelimiterLast, HasDelimiter
    <2>5. terminated[o] => Len(q.items) # 0 /\ q.items[Len(q.items)] = Delimiter
      BY <2>2, <2>3 DEF HasDelimiter
    <2>6. /\ peerTerminated[s] => q.taken # 0
          /\ \A i \in 1..q.taken : IsNull(q.items[i]) <=> peerTerminated[s] /\ i = q.taken
      BY <2>2 DEF EndTaken
    <2> QED BY <2>2, <2>4, <2>5, <2>6 DEF o, q
  <1> QED BY <1>1, PipeInvariance, PTL
=============================================================================
