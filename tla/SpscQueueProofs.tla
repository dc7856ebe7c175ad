--------------------------- MODULE SpscQueueProofs ---------------------------
(***************************************************************************)
(* Theorems about SpscQueue for every set of payloads and every bound, and *)
(* about QueueOrder: under the memory orders of the code the reader        *)
(* acquires every cell it takes.                                           *)
(***************************************************************************)
EXTENDS QueueOrder, SequenceTheorems, TLAPS

\* A message ends right before position p.
Boundary(p) == p = 1 \/ ~cells[p - 1].more

\* The order of the pointers along the queue.
PointerOrder ==
  /\ front <= f /\ f <= Back
  /\ wpc # "store" => front <= w /\ w <= f
  /\ r # NULL => front <= r /\ r <= f
  /\ c # NULL => r <= c

\* What c says about the two threads.
Contention ==
  /\ wpc # "store" => c = w \/ (c = NULL /\ w = front)
  /\ wpc = "store" => c = NULL /\ front < f
  /\ c = NULL => r \in {front, NULL}

\* What the reader may rely on at each of its positions.
ReaderState ==
  /\ rpc = "take" => r # NULL /\ front < r
  /\ rpc = "empty" /\ wpc # "wake" => c = NULL

\* The pointers that are published stand between messages.
Boundaries ==
  /\ Boundary(f)
  /\ wpc # "store" => Boundary(w)
  /\ c # NULL => Boundary(c)
  /\ (c = NULL \/ rpc = "empty") => Boundary(front)

\* The reader's history is what lies in front of its pointer.
History ==
  /\ Len(delivered) = front - 1
  /\ \A i \in 1..(front - 1) : delivered[i] = cells[i]

IInv == TypeOK /\ PointerOrder /\ Contention /\ ReaderState /\ Boundaries /\ History

-----------------------------------------------------------------------------
(* Appending an item leaves the older ones where they are. *)
LEMMA AppendKeeps ==
  ASSUME NEW S, NEW s \in Seq(S), NEW x \in S
  PROVE  /\ Append(s, x) \in Seq(S)
         /\ Len(Append(s, x)) = Len(s) + 1
         /\ \A i \in 1..Len(s) : Append(s, x)[i] = s[i]
         /\ Append(s, x)[Len(s) + 1] = x
  OBVIOUS

(* So does withdrawing the last one. *)
LEMMA WithdrawKeeps ==
  ASSUME NEW S, NEW s \in Seq(S), Len(s) > 0
  PROVE  /\ SubSeq(s, 1, Len(s) - 1) \in Seq(S)
         /\ Len(SubSeq(s, 1, Len(s) - 1)) = Len(s) - 1
         /\ \A i \in 1..(Len(s) - 1) : SubSeq(s, 1, Len(s) - 1)[i] = s[i]
  <1> DEFINE n == Len(s) - 1
  <1>1. n \in Nat /\ \A i \in 1..n : s[i] \in S
    OBVIOUS
  <1> HIDE DEF n
  <1>2. /\ SubSeq(s, 1, n) \in Seq(S)
        /\ Len(SubSeq(s, 1, n)) = IF 1 <= n THEN n - 1 + 1 ELSE 0
        /\ \A i \in 1..(n - 1 + 1) : SubSeq(s, 1, n)[i] = s[1 + i - 1]
    BY <1>1, SubSeqProperties
  <1>3. Len(SubSeq(s, 1, n)) = n
    BY <1>1, <1>2
  <1>4. \A i \in 1..n : SubSeq(s, 1, n)[i] = s[i]
    BY <1>1, <1>2
  <1> QED BY <1>2, <1>3, <1>4 DEF n

(* The queue starts in the invariant. *)
LEMMA InitIInv == Init => IInv
  BY DEF Init, IInv, TypeOK, PointerOrder, Contention, ReaderState, Boundaries,
         Boundary, History, Back, NULL

(* Every step of either thread keeps it. *)
LEMMA StepIInv == IInv /\ [Next]_vars => IInv'
  <1> SUFFICES ASSUME IInv, [Next]_vars PROVE IInv'
    OBVIOUS
  <1> USE DEF IInv, NULL
  <1>1. ASSUME NEW x \in Items, Write(x) PROVE IInv'
    <2>1. /\ cells' \in Seq(Items) /\ Len(cells') = Len(cells) + 1
          /\ \A i \in 1..Len(cells) : cells'[i] = cells[i]
          /\ cells'[Len(cells) + 1] = x
      BY <1>1, AppendKeeps DEF Write, TypeOK
    <2>2. (TypeOK /\ PointerOrder /\ Contention /\ ReaderState /\ History)'
      BY <1>1, <2>1 DEF Write, TypeOK, PointerOrder, Contention, ReaderState, History,
                        Back, readerVars
    <2>3. Boundaries'
      BY <1>1, <2>1 DEF Write, TypeOK, PointerOrder, Contention, Boundaries, Boundary,
                        Back, readerVars
    <2> QED BY <2>2, <2>3
  <1>2. CASE Unwrite
    <2>0. Len(cells) \in Nat /\ Len(cells) > 0 /\ f <= Len(cells)
      BY <1>2 DEF Unwrite, TypeOK, PointerOrder, Back
    <2>1. /\ cells' \in Seq(Items) /\ Len(cells') = Len(cells) - 1
          /\ \A i \in 1..(Len(cells) - 1) : cells'[i] = cells[i]
      BY <1>2, <2>0, WithdrawKeeps DEF Unwrite, TypeOK
    <2>2. (TypeOK /\ PointerOrder /\ Contention /\ ReaderState /\ History)'
      BY <1>2, <2>0, <2>1 DEF Unwrite, TypeOK, PointerOrder, Contention, ReaderState,
                              History, Back, readerVars
    <2>3. Boundaries'
      BY <1>2, <2>0, <2>1 DEF Unwrite, TypeOK, PointerOrder, Contention, Boundaries,
                              Boundary, Back, readerVars
    <2> QED BY <2>2, <2>3
  <1>3. CASE FlushCas
    BY <1>3 DEF FlushCas, TypeOK, PointerOrder, Contention, ReaderState, Boundaries,
                Boundary, History, Back, readerVars
  <1>4. CASE FlushStore
    BY <1>4 DEF FlushStore, TypeOK, PointerOrder, Contention, ReaderState, Boundaries,
                Boundary, History, Back, readerVars
  <1>5. CASE Wake
    BY <1>5 DEF Wake, TypeOK, PointerOrder, Contention, ReaderState, Boundaries,
                Boundary, History, Back
  <1>6. CASE CheckRead
    <2>1. (TypeOK /\ PointerOrder /\ Contention /\ ReaderState)'
      BY <1>6 DEF CheckRead, Prefetched, TypeOK, PointerOrder, Contention, ReaderState,
                  Back, writerVars
    <2>2. (Boundaries /\ History)'
      BY <1>6 DEF CheckRead, Prefetched, TypeOK, Boundaries, Boundary, History, Back,
                  writerVars
    <2> QED BY <2>1, <2>2
  <1>7. CASE TakeFront
    <2>0. front \in 1..Len(cells) /\ cells[front] \in Items /\ c # NULL
      BY <1>7 DEF TakeFront, TypeOK, ReaderState, PointerOrder, Contention, Back
    <2>1. /\ delivered' \in Seq(Items) /\ Len(delivered') = Len(delivered) + 1
          /\ \A i \in 1..Len(delivered) : delivered'[i] = delivered[i]
          /\ delivered'[Len(delivered) + 1] = cells[front]
      BY <1>7, <2>0, AppendKeeps DEF TakeFront, TypeOK
    <2>2. (TypeOK /\ PointerOrder /\ Contention /\ ReaderState /\ Boundaries)'
      BY <1>7, <2>0, <2>1 DEF TakeFront, TypeOK, PointerOrder, Contention, ReaderState,
                              Boundaries, Boundary, Back, writerVars
    <2>3. History'
      BY <1>7, <2>0, <2>1 DEF TakeFront, TypeOK, History, writerVars
    <2> QED BY <2>2, <2>3
  <1>8. CASE Retry
    BY <1>8 DEF Retry, TypeOK, PointerOrder, Contention, ReaderState, Boundaries,
                Boundary, History, Back, writerVars
  <1>9. CASE UNCHANGED vars
    BY <1>9 DEF vars, TypeOK, PointerOrder, Contention, ReaderState, Boundaries,
                Boundary, History, Back
  <1> QED
    BY <1>1, <1>2, <1>3, <1>4, <1>5, <1>6, <1>7, <1>8, <1>9 DEF Next, WriterStep, ReaderStep

(* The inductive invariant holds in every reachable state. *)
THEOREM Invariance == Spec => []IInv
  BY InitIInv, StepIInv, PTL DEF Spec

(***************************************************************************)
(* The pointers, program counters and sequences keep their types.          *)
(***************************************************************************)
THEOREM TypeCorrect == Spec => []TypeOK
  BY Invariance, PTL DEF IInv

(***************************************************************************)
(* Read returns a prefix of what was written, in order and without         *)
(* repetition, whatever the writer withdraws and rewrites.                 *)
(***************************************************************************)
THEOREM InOrder == Spec => []DeliveredInOrder
  <1>1. ASSUME IInv PROVE DeliveredInOrder
    <2> DEFINE n == Len(delivered)
    <2>1. /\ n \in Nat /\ n <= Len(cells) /\ Len(cells) \in Nat
          /\ \A i \in 1..n : delivered[i] = cells[i]
          /\ \A i \in 1..n : cells[i] \in Items
      BY <1>1 DEF IInv, TypeOK, PointerOrder, History, Back
    <2>2. /\ SubSeq(cells, 1, n) \in Seq(Items)
          /\ Len(SubSeq(cells, 1, n)) = n
          /\ \A i \in 1..n : SubSeq(cells, 1, n)[i] = cells[i]
      BY <2>1, SubSeqProperties
    <2>3. delivered = SubSeq(cells, 1, n)
      BY <1>1, <2>1, <2>2, SeqEqual DEF IInv, TypeOK
    <2> QED BY <2>1, <2>3 DEF DeliveredInOrder
  <1> QED BY <1>1, Invariance, PTL

(***************************************************************************)
(* A failed compare-and-swap in Flush means that c is NULL.                *)
(***************************************************************************)
THEOREM ContentionValues == Spec => []ContentionIsWOrNull
  <1>1. IInv => ContentionIsWOrNull
    BY DEF IInv, Contention, ContentionIsWOrNull
  <1> QED BY <1>1, Invariance, PTL

(***************************************************************************)
(* A reader that was told "nothing" has read everything flushed, or the    *)
(* writer is about to wake it.                                             *)
(***************************************************************************)
THEOREM WakeupNotLost == Spec => []NoLostWakeup
  <1>1. IInv => NoLostWakeup
    BY DEF IInv, TypeOK, PointerOrder, Contention, ReaderState, NoLostWakeup, NULL
  <1> QED BY <1>1, Invariance, PTL

(***************************************************************************)
(* The cell the reader copies is never one the writer may change.          *)
(***************************************************************************)
THEOREM CellsDisjoint == Spec => []CellsNotShared
  <1>1. IInv => CellsNotShared
    BY DEF IInv, TypeOK, PointerOrder, ReaderState, CellsNotShared, NULL
  <1> QED BY <1>1, Invariance, PTL

(***************************************************************************)
(* Inside a message of several items the reader never finds the queue      *)
(* empty.                                                                  *)
(***************************************************************************)
THEOREM MessagesWhole == Spec => []WholeMessages
  <1>1. ASSUME IInv, delivered # <<>>, delivered[Len(delivered)].more
        PROVE  rpc # "empty" /\ Len(delivered) < Published
    <2>1. /\ Len(delivered) = front - 1 /\ front - 1 \in 1..(front - 1)
          /\ delivered[front - 1] = cells[front - 1]
      <3>1. Len(delivered) \in Nat /\ Len(delivered) # 0
        BY <1>1, EmptySeq DEF IInv, TypeOK
      <3> QED BY <1>1, <3>1 DEF IInv, TypeOK, History
    <2>2. ~Boundary(front)
      BY <1>1, <2>1 DEF Boundary
    <2> QED
      BY <1>1, <2>1, <2>2 DEF IInv, TypeOK, Boundaries, PointerOrder, Contention,
                              Published, NULL
  <1>2. IInv => WholeMessages
    BY <1>1 DEF WholeMessages
  <1> QED BY <1>2, Invariance, PTL

(***************************************************************************)
(* Flushed items are never withdrawn, changed or hidden again.             *)
(***************************************************************************)
THEOREM FlushedNeverWithdrawn == Spec => FlushedStays
  <1>1. ASSUME IInv, [Next]_vars
        PROVE  FlushedKept
    <2> USE DEF NULL, FlushedKept
    <2>1. Published <= f - 1 /\ Published <= Len(cells) /\ Published \in Nat
      BY <1>1 DEF IInv, TypeOK, PointerOrder, Contention, Published, Back
    <2>2. ASSUME NEW x \in Items, Write(x)
          PROVE  FlushedKept
      BY <1>1, <2>1, <2>2, AppendKeeps DEF IInv, TypeOK, Write, Published, readerVars
    <2>3. CASE Unwrite
      <3>1. Len(cells) > 0 /\ f <= Len(cells) /\ f \in Nat
        BY <1>1, <2>3 DEF IInv, TypeOK, PointerOrder, Unwrite, Back
      <3>2. \A i \in 1..(Len(cells) - 1) : cells'[i] = cells[i]
        BY <1>1, <2>3, <3>1, WithdrawKeeps DEF IInv, TypeOK, Unwrite
      <3>4. Len(cells') = Len(cells) - 1
        BY <1>1, <2>3, <3>1, WithdrawKeeps DEF IInv, TypeOK, Unwrite
      <3>3. Published' = Published
        BY <2>3 DEF Unwrite, Published, readerVars
      <3> QED BY <2>1, <3>1, <3>2, <3>3, <3>4
    <2>4. CASE FlushCas \/ FlushStore \/ Wake
      BY <1>1, <2>1, <2>4 DEF IInv, TypeOK, PointerOrder, Contention, FlushCas,
                              FlushStore, Wake, Published, readerVars
    <2>5. CASE CheckRead \/ TakeFront \/ Retry
      BY <1>1, <2>1, <2>5 DEF IInv, TypeOK, PointerOrder, Contention, ReaderState, CheckRead,
                              Prefetched, TakeFront, Retry, Published, writerVars
    <2>6. CASE UNCHANGED vars
      <3>1. cells' = cells /\ Published' = Published
        BY <2>6 DEF vars, Published
      <3> QED BY <2>1, <3>1
    <2> QED
      BY <1>1, <2>2, <2>3, <2>4, <2>5, <2>6 DEF Next, WriterStep, ReaderStep
  <1> QED BY <1>1, Invariance, PTL DEF Spec, FlushedStays

-----------------------------------------------------------------------------
\* The abstract channel the queue stands for.
ChannelOf == [items |-> cells, complete |-> f - 1, published |-> Published,
              taken |-> front - 1,
              reader |-> ReaderMode]

(* A flush changes two fields of the channel and keeps the others. *)
LEMMA FlushFields ==
  ASSUME NEW n, NEW m
  PROVE  [ChannelOf EXCEPT !.published = n, !.reader = m]
         = [items |-> cells, complete |-> f - 1, published |-> n, taken |-> front - 1,
            reader |-> m]
  <1> DEFINE e == f - 1  t == front - 1
  <1>1. ChannelOf = [items |-> cells, complete |-> e, published |-> Published, taken |-> t,
                     reader |-> ReaderMode]
    BY DEF ChannelOf
  <1> HIDE DEF e, t
  <1>2. [ChannelOf EXCEPT !.published = n]
        = [items |-> cells, complete |-> e, published |-> n, taken |-> t,
           reader |-> ReaderMode]
    BY <1>1
  <1>3. [[items |-> cells, complete |-> e, published |-> n, taken |-> t,
           reader |-> ReaderMode] EXCEPT !.reader = m]
        = [items |-> cells, complete |-> e, published |-> n, taken |-> t, reader |-> m]
    OBVIOUS
  <1> QED BY <1>2, <1>3, Zenon DEF e, t

(* So does a write. *)
LEMMA PutFields ==
  ASSUME NEW i, NEW n, NEW p, NEW t, NEW m, NEW i2, NEW n2
  PROVE  [[items |-> i, complete |-> n, published |-> p, taken |-> t, reader |-> m]
            EXCEPT !.items = i2, !.complete = n2]
         = [items |-> i2, complete |-> n2, published |-> p, taken |-> t, reader |-> m]
  <1>1. [[items |-> i, complete |-> n, published |-> p, taken |-> t, reader |-> m]
            EXCEPT !.items = i2]
        = [items |-> i2, complete |-> n, published |-> p, taken |-> t, reader |-> m]
    OBVIOUS
  <1>2. [[items |-> i2, complete |-> n, published |-> p, taken |-> t, reader |-> m]
            EXCEPT !.complete = n2]
        = [items |-> i2, complete |-> n2, published |-> p, taken |-> t, reader |-> m]
    OBVIOUS
  <1> QED BY <1>1, <1>2, Zenon

(* What is published moves exactly with Flush's effective step. *)
LEMMA PublishedValue ==
  ASSUME IInv
  PROVE  /\ wpc # "store" => Published = w - 1
         /\ wpc = "store" => Published = front - 1
         /\ c = NULL => Published = front - 1
         /\ c # NULL => Published = c - 1
  BY DEF IInv, TypeOK, PointerOrder, Contention, Published, NULL

(* Every step of the queue is a step of the channel, or leaves it alone. *)
LEMMA StepRefines ==
  ASSUME IInv, IInv', [Next]_vars
  PROVE  [Abstract!ChNext]_(Abstract!chvars)
  <1> USE DEF Abstract!chvars, Abstract!ChNext
  <1>1. ASSUME NEW x \in Items, Write(x) PROVE Abstract!ChWrite
    <2>1. /\ wpc = "idle" /\ wpc' = "idle" /\ rpc' = rpc /\ Len(cells) < MaxItems
          /\ cells' = Append(cells, x) /\ front' = front /\ c' = c
          /\ f' = IF x.more THEN f ELSE Len(cells) + 2
      BY <1>1 DEF Write, readerVars, Back
    <2>2. Published' = Published /\ ReaderMode' = ReaderMode
      BY <2>1 DEF Published, ReaderMode
    <2>3. f' - 1 = IF x.more THEN f - 1 ELSE Len(cells) + 1
      BY <2>1 DEF IInv, TypeOK
    <2> DEFINE n == IF x.more THEN f - 1 ELSE Len(cells) + 1
    <2>4. ChannelOf' = [items |-> Append(cells, x), complete |-> n, published |-> Published,
                        taken |-> front - 1, reader |-> ReaderMode]
      BY <2>1, <2>2, <2>3 DEF ChannelOf
    <2>5. ChannelOf' = Abstract!Put(ChannelOf, x, x.more)
      <3>1. Abstract!Put(ChannelOf, x, x.more) =
              [ChannelOf EXCEPT !.items = Append(cells, x), !.complete = n]
        BY DEF Abstract!Put, ChannelOf
      <3> QED BY <2>4, <3>1, PutFields DEF ChannelOf
    <2> QED
      BY <2>1, <2>5 DEF Abstract!ChWrite, ChannelOf
  <1>2. CASE Unwrite
    <2>1. /\ wpc = "idle" /\ wpc' = "idle" /\ rpc' = rpc /\ f - 1 < Len(cells)
          /\ cells' = SubSeq(cells, 1, Len(cells) - 1)
          /\ front' = front /\ c' = c /\ f' = f
      BY <1>2 DEF Unwrite, readerVars, Back, IInv, TypeOK, PointerOrder
    <2>2. Published' = Published /\ ReaderMode' = ReaderMode
      BY <2>1 DEF Published, ReaderMode
    <2>3. ChannelOf' = [ChannelOf EXCEPT !.items = SubSeq(@, 1, Len(@) - 1)]
      BY <2>1, <2>2 DEF ChannelOf
    <2>4. Abstract!ChUnwrite
      BY <2>1, <2>3 DEF Abstract!ChUnwrite, Abstract!CanUndo, Abstract!Undo, ChannelOf
    <2> QED BY <2>4
  <1>3. CASE FlushCas
    <2>1. CASE c = w
      <3>1. /\ wpc = "idle" /\ wpc' = "idle" /\ rpc' = rpc /\ w # f /\ c # NULL /\ c' = f
            /\ f' = f /\ f # NULL /\ cells' = cells /\ front' = front
        BY <1>3, <2>1 DEF FlushCas, readerVars, IInv, TypeOK, PointerOrder, NULL
      <3>2. /\ Published = w - 1 /\ Published' = f - 1 /\ w - 1 # f - 1
            /\ ReaderMode = "awake" /\ ReaderMode' = "awake"
        BY <3>1, PublishedValue DEF Published, ReaderMode, IInv, TypeOK
      <3>3. ChannelOf' = [ChannelOf EXCEPT !.published = f - 1, !.reader = "awake"]
        <4>1. ChannelOf' = [items |-> cells, complete |-> f - 1, published |-> f - 1,
                            taken |-> front - 1, reader |-> "awake"]
          BY <3>1, <3>2 DEF ChannelOf
        <4>2. [ChannelOf EXCEPT !.published = f - 1, !.reader = "awake"]
              = [items |-> cells, complete |-> f - 1, published |-> f - 1,
                 taken |-> front - 1, reader |-> "awake"]
          BY FlushFields, Zenon
        <4> QED BY <4>1, <4>2
      <3>4. Abstract!ChFlush
        BY <3>1, <3>2, <3>3 DEF Abstract!ChFlush, Abstract!Flushed, Abstract!FlushResult,
                                ChannelOf
      <3> QED BY <3>4
    <2>2. CASE c # w
      <3>1. UNCHANGED <<cells, f, c, front, rpc>> /\ wpc = "idle" /\ wpc' = "store"
        BY <1>3, <2>2 DEF FlushCas, readerVars
      <3> QED BY <3>1 DEF Published, ReaderMode
    <2> QED BY <2>1, <2>2
  <1>4. CASE FlushStore
    <2>1. /\ wpc = "store" /\ wpc' = "wake" /\ rpc' = rpc /\ c = NULL /\ c' = f
          /\ f' = f /\ f # NULL /\ cells' = cells /\ front' = front
      BY <1>4 DEF FlushStore, readerVars, IInv, TypeOK, Contention, NULL
    <2>2. /\ Published = front - 1 /\ Published' = f - 1 /\ front - 1 # f - 1
          /\ ReaderMode = "asleep" /\ ReaderMode' = "awake"
      BY <2>1, PublishedValue DEF Published, ReaderMode, IInv, TypeOK, Contention
    <2>3. ChannelOf' = [ChannelOf EXCEPT !.published = f - 1, !.reader = "awake"]
      <3>1. ChannelOf' = [items |-> cells, complete |-> f - 1, published |-> f - 1,
                          taken |-> front - 1, reader |-> "awake"]
        BY <2>1, <2>2 DEF ChannelOf
      <3>2. [ChannelOf EXCEPT !.published = f - 1, !.reader = "awake"]
            = [items |-> cells, complete |-> f - 1, published |-> f - 1,
               taken |-> front - 1, reader |-> "awake"]
        BY FlushFields, Zenon
      <3> QED BY <3>1, <3>2
    <2>4. Abstract!ChFlush
      BY <2>1, <2>2, <2>3 DEF Abstract!ChFlush, Abstract!Flushed, Abstract!FlushResult,
                              ChannelOf
    <2> QED BY <2>4
  <1>5. CASE Wake
    <2>1. /\ wpc = "wake" /\ wpc' = "idle" /\ rpc' # "empty"
          /\ UNCHANGED <<cells, f, c, front>>
      BY <1>5 DEF Wake
    <2>2. Abstract!ChWake
      BY <2>1 DEF Abstract!ChWake, Published, ReaderMode
    <2> QED BY <2>2
  <1>6. CASE CheckRead
    <2>1. CASE rpc' = "take"
      <3>1. UNCHANGED <<cells, f, c, front, wpc>> /\ rpc = "run"
        BY <1>6, <2>1 DEF CheckRead, writerVars, IInv, TypeOK, NULL
      <3> QED BY <2>1, <3>1 DEF Published, ReaderMode
    <2>2. CASE rpc' # "take"
      <3>1. /\ rpc = "run" /\ rpc' = "empty" /\ c \in {front, NULL} /\ c' = NULL
            /\ UNCHANGED <<cells, f, front, wpc>>
        BY <1>6, <2>2 DEF CheckRead, writerVars
      <3>2. /\ Published = front - 1 /\ Published' = front - 1 /\ ~(front - 1 < front - 1)
            /\ ReaderMode' = "asleep"
        BY <3>1 DEF Published, ReaderMode, IInv, TypeOK, NULL
      <3>3. ChannelOf' = [ChannelOf EXCEPT !.reader = "asleep"]
        BY <3>1, <3>2 DEF ChannelOf
      <3>4. Abstract!ChCheckEmpty
        BY <3>1, <3>2, <3>3 DEF Abstract!ChCheckEmpty, Abstract!HasItem, Abstract!Checked,
                                ChannelOf
      <3> QED BY <3>4
    <2> QED BY <2>1, <2>2
  <1>7. CASE TakeFront
    <2>1. /\ rpc = "take" /\ rpc' = "run" /\ c # NULL /\ front < c /\ front' = front + 1
          /\ UNCHANGED <<cells, f, c, wpc>>
      BY <1>7 DEF TakeFront, writerVars, IInv, TypeOK, PointerOrder, Contention,
                  ReaderState, NULL
    <2>2. /\ Published = c - 1 /\ Published' = c - 1 /\ front - 1 < c - 1
          /\ front' - 1 = (front - 1) + 1 /\ ReaderMode' = ReaderMode
      BY <2>1 DEF Published, ReaderMode, IInv, TypeOK
    <2>3. ChannelOf' = [ChannelOf EXCEPT !.taken = @ + 1]
      BY <2>1, <2>2 DEF ChannelOf
    <2>4. Abstract!ChTake
      BY <2>1, <2>2, <2>3 DEF Abstract!ChTake, Abstract!HasItem, Abstract!Take, ChannelOf
    <2> QED BY <2>4
  <1>8. CASE Retry
    <2>1. rpc = "empty" /\ rpc' = "run" /\ UNCHANGED <<cells, f, c, front, wpc>>
      BY <1>8 DEF Retry, writerVars
    <2>2. Abstract!ChRetry
      BY <2>1 DEF Abstract!ChRetry, Published, ReaderMode
    <2> QED BY <2>2
  <1>9. CASE UNCHANGED vars
    BY <1>9 DEF vars, Published, ReaderMode
  <1> QED
    BY <1>1, <1>2, <1>3, <1>4, <1>5, <1>6, <1>7, <1>8, <1>9 DEF Next, WriterStep, ReaderStep

(***************************************************************************)
(* The lock-free queue implements the abstract channel, for any payloads:  *)
(* in order, once each, whole messages, no wake-up lost.                   *)
(***************************************************************************)
THEOREM Refinement == Spec => ImplementsChannel
  <1>1. Init => Abstract!ChInit
    BY DEF Init, Abstract!ChInit, Abstract!EmptyChannel, Published, ReaderMode, NULL
  <1>2. IInv /\ IInv' /\ [Next]_vars => [Abstract!ChNext]_(Abstract!chvars)
    BY StepRefines
  <1> QED BY <1>1, <1>2, Invariance, PTL DEF Spec, ImplementsChannel, Abstract!ChSpec

-----------------------------------------------------------------------------
(* The memory orders. *)

\* What stands in contention_ is released: by the swap that put it there, or by a mutex.
Released == c - 1 <= carried \/ c - 1 <= visible

(***************************************************************************)
(* Only Flush's relaxed store leaves a value that is not: then the writer  *)
(* is about to wake the reader, or the reader looks on its own (unasked),  *)
(* or has done so (early) and will not look again before it has read all.  *)
(***************************************************************************)
Unreleased ==
  \/ rpc = "empty" /\ wpc = "wake"
  \/ look = "unasked"
  \/ look = "early" /\ r = c

\* What the reader has prefetched it has acquired, unless it looked early.
Acquired == look # "early" /\ r # NULL /\ front < r => r - 1 <= visible

OrderInv ==
  /\ carried \in Nat /\ visible \in Nat
  /\ c # NULL => Released \/ Unreleased
  /\ c = NULL => rpc = "empty" \/ look = "unasked"
  /\ look = "unasked" => rpc = "run"
  /\ rpc = "empty" \/ look = "unasked" => r \in {front, NULL}
  /\ Acquired

-----------------------------------------------------------------------------
(* The history variables add no step: each step is one of the queue. *)
LEMMA OrderStep == [OrderNext]_<<vars, orderVars>> => [Next]_vars
  BY DEF OrderNext, FlushCasOrder, FlushStoreOrder, WakeOrder, CheckReadOrder, RetryOrder,
         Next, WriterStep, ReaderStep, vars

(***************************************************************************)
(* Everything proved of the queue holds under the memory orders too.       *)
(***************************************************************************)
THEOREM OrderIsQueue == OrderSpec => Spec
  <1>1. OrderInit => Init
    BY DEF OrderInit
  <1> QED BY <1>1, OrderStep, PTL DEF OrderSpec, Spec

(* The memory orders' own invariant, step by step. *)
LEMMA StepOrderInv ==
  IInv /\ IInv' /\ OrderInv /\ [OrderNext]_<<vars, orderVars>> => OrderInv'
  <1> SUFFICES ASSUME IInv, IInv', OrderInv, [OrderNext]_<<vars, orderVars>> PROVE OrderInv'
    OBVIOUS
  <1> USE DEF OrderInv, Acquired, Released, Unreleased, NULL
  <1>0. /\ front \in Nat \ {0} /\ w \in Nat /\ r \in Nat /\ c \in Nat /\ f \in Nat \ {0}
        /\ carried \in Nat /\ visible \in Nat
    BY DEF IInv, TypeOK
  <1>1. CASE ((\E x \in Items : Write(x)) \/ Unwrite \/ TakeFront) /\ UNCHANGED orderVars
    <2>1. CASE (\E x \in Items : Write(x)) \/ Unwrite
      BY <1>0, <1>1, <2>1 DEF Write, Unwrite, readerVars, orderVars
    <2>2. CASE TakeFront
      BY <1>0, <1>1, <2>2 DEF TakeFront, writerVars, orderVars
    <2> QED BY <1>1, <2>1, <2>2
  <1>2. CASE FlushCasOrder
    BY <1>0, <1>2 DEF FlushCasOrder, FlushCas, CarriedBySwap, readerVars, IInv, Contention
  <1>3. CASE FlushStoreOrder
    BY <1>0, <1>3 DEF FlushStoreOrder, FlushStore, readerVars, orderVars, IInv, Contention
  <1>4. CASE WakeOrder
    BY <1>0, <1>4 DEF WakeOrder, Wake, Published, IInv, ReaderState
  <1>5. CASE CheckReadOrder
    BY <1>0, <1>5 DEF CheckReadOrder, CheckRead, Prefetched, writerVars, IInv, PointerOrder,
                      ReaderState, Contention
  <1>6. CASE RetryOrder
    BY <1>0, <1>6 DEF RetryOrder, Retry, writerVars, IInv, ReaderState
  <1>7. CASE UNCHANGED <<vars, orderVars>>
    BY <1>7 DEF vars, orderVars
  <1> QED BY <1>1, <1>2, <1>3, <1>4, <1>5, <1>6, <1>7 DEF OrderNext

(***************************************************************************)
(* The reader takes only cells that were released to it, although Flush    *)
(* stores contention_ with a relaxed order behind a failed exchange.       *)
(***************************************************************************)
THEOREM TakesPublished == OrderSpec => []ReadsPublished
  <1>1. OrderInit => OrderInv
    BY DEF OrderInit, Init, OrderInv, Released, Acquired, NULL
  <1>2. IInv /\ OrderInv => ReadsPublished
    BY DEF IInv, TypeOK, ReaderState, OrderInv, Acquired, ReadsPublished, NULL
  <1>3. OrderSpec => []IInv
    BY OrderIsQueue, Invariance, PTL
  <1>4. OrderSpec => OrderInit /\ [][OrderNext]_<<vars, orderVars>>
    BY DEF OrderSpec
  <1> QED BY <1>1, <1>2, <1>3, <1>4, StepOrderInv, PTL
=============================================================================
