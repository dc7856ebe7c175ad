------------------------------ MODULE BatchQueue ------------------------------
(***************************************************************************)
(* BatchQueue of src/spsc_queue.hpp, the storage of the lock-free queue:   *)
(* a list of chunks of N cells, and one spare chunk that the reader leaves *)
(* and the writer takes.  The pointers of SpscQueue are addresses here:    *)
(* a chunk that is freed and allocated again has the addresses it had.     *)
(***************************************************************************)
EXTENDS Integers, Sequences, FiniteSets

CONSTANTS Chunks,       \* the addresses malloc may return
          Payloads,     \* what an item carries
          N,            \* cells in a chunk (256 in pipe.hpp)
          MaxItems,     \* bound on the items written and not withdrawn
          MallocFails,  \* whether malloc may return nullptr
          NoChunk,      \* the null chunk pointer
          Wild          \* what malloc'ed memory holds before it is written

ASSUME BatchAssumption ==
  /\ IsFiniteSet(Chunks) /\ {NoChunk, Wild} \cap Chunks = {}
  /\ N \in Nat /\ N >= 2
  /\ MaxItems \in Nat
  /\ MallocFails \in BOOLEAN

Items == [id : Payloads, more : BOOLEAN]
Addresses == Chunks \X (0..(N - 1))
Null == <<NoChunk, 0>>

VARIABLES allocated,    \* the chunks malloc returned and nobody freed
          values, prev, next,                  \* the fields of each chunk
          begin, beginPos,                     \* the reader's end
          back, backPos, end, endPos,          \* the writer's end
          spare,                               \* spare_chunk_
          w, f, r, c,                          \* SpscQueue's pointers
          wpc, rpc,                            \* where the threads are
          writing,                             \* the item Write was called with
          hand,                                \* the chunk Pop is getting rid of
          alive,                               \* the queue is not destroyed
          cells, delivered                     \* history: written, read

listVars == <<allocated, values, prev, next>>
readEnd == <<begin, beginPos>>
writeEnd == <<back, backPos, end, endPos>>
vars == <<listVars, readEnd, writeEnd, spare, w, f, r, c, wpc, rpc, writing, hand,
          alive, cells, delivered>>

Front == <<begin, beginPos>>
Back == <<back, backPos>>

(***************************************************************************)
(* wpc = "spare", "malloc": Push filled the last chunk and wants another.  *)
(* wpc = "store", "wake" and rpc = "take", "empty" as in SpscQueue.        *)
(* rpc = "spare", "free": Pop emptied a chunk, swaps the spare, frees it.  *)
(***************************************************************************)
TypeOK ==
  /\ allocated \subseteq Chunks
  /\ values \in [Chunks -> [0..(N - 1) -> Items \cup {Wild}]]
  /\ prev \in [Chunks -> Chunks \cup {NoChunk, Wild}]
  /\ next \in [Chunks -> Chunks \cup {NoChunk, Wild}]
  /\ Front \in Addresses /\ Back \in Addresses
  /\ end \in Chunks /\ endPos \in 0..N
  /\ {spare, hand} \subseteq Chunks \cup {NoChunk}
  /\ {w, r, c} \subseteq Addresses \cup {Null} /\ f \in Addresses
  /\ wpc \in {"idle", "spare", "malloc", "store", "wake"}
  /\ rpc \in {"run", "take", "spare", "free", "empty"}
  /\ writing \in Items \cup {Wild}
  /\ alive \in BOOLEAN
  /\ cells \in Seq(Items) /\ delivered \in Seq(Items)

\* SpscQueue::Init: one chunk, a terminator pushed, every pointer at it.
Init ==
  /\ begin \in Chunks
  /\ allocated = {begin}
  /\ values = [k \in Chunks |-> [i \in 0..(N - 1) |-> Wild]]
  /\ prev = [k \in Chunks |-> Wild] /\ next = [k \in Chunks |-> Wild]
  /\ beginPos = 0
  /\ back = begin /\ backPos = 0 /\ end = begin /\ endPos = 1
  /\ spare = NoChunk /\ hand = NoChunk
  /\ w = Back /\ f = Back /\ r = Back /\ c = Back
  /\ wpc = "idle" /\ rpc = "run"
  /\ writing = Wild
  /\ alive = TRUE
  /\ cells = <<>> /\ delivered = <<>>

-----------------------------------------------------------------------------
(* The writer. *)

\* Bug: f stays in front of the item just written.
WrittenEarly(item) ==
  /\ cells' = Append(cells, item)
  /\ f' = IF item.more THEN f ELSE Back
  /\ wpc' = "idle"
  /\ writing' = Wild

\* The end of Write: the item counts, and a complete one moves f to Back.
Written(item) ==
  /\ cells' = Append(cells, item)
  /\ f' = IF item.more THEN f ELSE Back'
  /\ wpc' = "idle"
  /\ writing' = Wild

\* Write up to the point where Push has room, or finds the chunk full.
Write(x) ==
  /\ alive /\ wpc = "idle"
  /\ Len(cells) < MaxItems
  /\ values' = [values EXCEPT ![back][backPos] = x]
  /\ back' = end /\ backPos' = endPos
  /\ endPos' = endPos + 1
  /\ \/ endPos' # N /\ Written(x)
     \/ endPos' = N /\ wpc' = "spare" /\ writing' = x /\ UNCHANGED <<f, cells>>
  /\ UNCHANGED <<allocated, prev, next, readEnd, end, spare, w, r, c, rpc, hand, alive,
                 delivered>>

\* Push puts chunk k behind the end.
Link(k) ==
  /\ next' = [next EXCEPT ![end] = k]
  /\ prev' = [prev EXCEPT ![k] = end]
  /\ end' = k
  /\ endPos' = 0
  /\ UNCHANGED <<back, backPos>>

\* Bug: the prev pointer of a reused chunk is not set.
PushSpareNoPrev ==
  /\ wpc = "spare"
  /\ spare' = NoChunk
  /\ \/ /\ spare # NoChunk
        /\ next' = [next EXCEPT ![end] = spare]
        /\ end' = spare /\ endPos' = 0
        /\ UNCHANGED <<prev, back, backPos>>
        /\ Written(writing)
     \/ /\ spare = NoChunk
        /\ wpc' = "malloc"
        /\ UNCHANGED <<prev, next, writeEnd, f, writing, cells>>
  /\ UNCHANGED <<allocated, values, readEnd, w, r, c, rpc, hand, alive, delivered>>

PushSpare ==
  /\ wpc = "spare"
  /\ spare' = NoChunk
  /\ \/ spare # NoChunk /\ Link(spare) /\ Written(writing)
     \/ /\ spare = NoChunk
        /\ wpc' = "malloc"
        /\ UNCHANGED <<prev, next, writeEnd, f, writing, cells>>
  /\ UNCHANGED <<allocated, values, readEnd, w, r, c, rpc, hand, alive, delivered>>

\* A new chunk, or --end_pos_ and a result that Write does not look at.
PushMalloc ==
  /\ wpc = "malloc"
  /\ \/ \E k \in Chunks \ allocated :
          /\ allocated' = allocated \cup {k}
          /\ values' = [values EXCEPT ![k] = [i \in 0..(N - 1) |-> Wild]]
          /\ next' = [next EXCEPT ![k] = Wild, ![end] = k]
          /\ prev' = [prev EXCEPT ![k] = end]
          /\ end' = k
          /\ endPos' = 0
     \/ /\ MallocFails
        /\ endPos' = N - 1
        /\ UNCHANGED <<listVars, end>>
  /\ UNCHANGED <<back, backPos>>
  /\ Written(writing)
  /\ UNCHANGED <<readEnd, spare, w, r, c, rpc, hand, alive, delivered>>

\* Where Unpush moves end to, and what it frees on the way.
UnpushEnd ==
  IF endPos # 0
    THEN end' = end /\ endPos' = endPos - 1 /\ UNCHANGED <<allocated, next>>
    ELSE /\ end' = prev[end]
         /\ endPos' = N - 1
         /\ allocated' = allocated \ {next[end']}
         /\ next' = [next EXCEPT ![end'] = NoChunk]

\* Where Unpush moves back to.
UnpushBack ==
  IF backPos # 0 THEN back' = back /\ backPos' = backPos - 1
                 ELSE back' = prev[back] /\ backPos' = N - 1

\* Bug: what is flushed can be withdrawn.
UnwriteUnchecked ==
  /\ alive /\ wpc = "idle"
  /\ cells # <<>>
  /\ UnpushBack
  /\ UnpushEnd
  /\ cells' = SubSeq(cells, 1, Len(cells) - 1)
  /\ UNCHANGED <<values, prev, readEnd, spare, w, f, r, c, wpc, rpc, writing, hand, alive,
                 delivered>>

\* Unwrite and Unpush: back and end go one cell backwards.
Unwrite ==
  /\ alive /\ wpc = "idle"
  /\ f # Back
  /\ UnpushBack
  /\ UnpushEnd
  /\ cells' = SubSeq(cells, 1, Len(cells) - 1)
  /\ UNCHANGED <<values, prev, readEnd, spare, w, f, r, c, wpc, rpc, writing, hand, alive,
                 delivered>>

FlushCas ==
  /\ alive /\ wpc = "idle"
  /\ w # f
  /\ \/ c = w /\ c' = f /\ w' = f /\ UNCHANGED wpc
     \/ c # w /\ w' = c /\ wpc' = "store" /\ UNCHANGED c
  /\ UNCHANGED <<listVars, readEnd, writeEnd, spare, f, r, rpc, writing, hand, alive, cells,
                 delivered>>

FlushStore ==
  /\ wpc = "store"
  /\ c' = f /\ w' = f
  /\ wpc' = "wake"
  /\ UNCHANGED <<listVars, readEnd, writeEnd, spare, f, r, rpc, writing, hand, alive, cells,
                 delivered>>

Wake ==
  /\ wpc = "wake"
  /\ wpc' = "idle"
  /\ rpc' = IF rpc = "empty" THEN "run" ELSE rpc
  /\ UNCHANGED <<listVars, readEnd, writeEnd, spare, w, f, r, c, writing, hand, alive, cells,
                 delivered>>

-----------------------------------------------------------------------------
(* The reader. *)

CheckRead ==
  /\ alive /\ rpc = "run"
  /\ \/ /\ Front # r /\ r # Null
        /\ rpc' = "take"
        /\ UNCHANGED <<r, c>>
     \/ /\ ~(Front # r /\ r # Null)
        /\ r' = c
        /\ c' = IF c = Front THEN Null ELSE c
        /\ rpc' = IF r' \in {Front, Null} THEN "empty" ELSE "take"
  /\ UNCHANGED <<listVars, readEnd, writeEnd, spare, w, f, wpc, writing, hand, alive, cells,
                 delivered>>

\* Read copies the front and pops it; an emptied chunk is unlinked.
TakeFront ==
  /\ rpc = "take"
  /\ delivered' = Append(delivered, values[begin][beginPos])
  /\ \/ /\ beginPos + 1 # N
        /\ beginPos' = beginPos + 1
        /\ rpc' = "run"
        /\ UNCHANGED <<begin, prev, hand>>
     \/ /\ beginPos + 1 = N
        /\ beginPos' = 0
        /\ begin' = next[begin]
        /\ prev' = [prev EXCEPT ![next[begin]] = NoChunk]
        /\ hand' = begin
        /\ rpc' = "spare"
  /\ UNCHANGED <<allocated, values, next, writeEnd, spare, w, f, r, c, wpc, writing, alive,
                 cells>>

\* Bug: the old spare chunk is forgotten.
PopSpareForgets ==
  /\ rpc = "spare"
  /\ spare' = hand
  /\ hand' = NoChunk
  /\ rpc' = "run"
  /\ UNCHANGED <<listVars, readEnd, writeEnd, w, f, r, c, wpc, writing, alive, cells,
                 delivered>>

\* The emptied chunk becomes the spare one; Pop now holds the old spare.
PopSpare ==
  /\ rpc = "spare"
  /\ spare' = hand
  /\ hand' = spare
  /\ rpc' = IF spare = NoChunk THEN "run" ELSE "free"
  /\ UNCHANGED <<listVars, readEnd, writeEnd, w, f, r, c, wpc, writing, alive, cells,
                 delivered>>

PopFree ==
  /\ rpc = "free"
  /\ allocated' = allocated \ {hand}
  /\ hand' = NoChunk
  /\ rpc' = "run"
  /\ UNCHANGED <<values, prev, next, readEnd, writeEnd, spare, w, f, r, c, wpc, writing,
                 alive, cells, delivered>>

Retry ==
  /\ alive /\ rpc = "empty"
  /\ rpc' = "run"
  /\ UNCHANGED <<listVars, readEnd, writeEnd, spare, w, f, r, c, wpc, writing, hand, alive,
                 cells, delivered>>

-----------------------------------------------------------------------------
\* The i-th chunk from begin along the next pointers, up to end.
ChunkAt[i \in 1..Cardinality(Chunks)] ==
  IF i = 1 THEN begin
  ELSE IF ChunkAt[i - 1] \in Chunks \ {end} THEN next[ChunkAt[i - 1]] ELSE ChunkAt[i - 1]

Chain == {ChunkAt[i] : i \in 1..Cardinality(Chunks)}

\* The destructor, when both threads are out: the list, then the spare.
Destroy ==
  /\ alive /\ wpc = "idle" /\ rpc \in {"run", "empty"}
  /\ allocated' = allocated \ (Chain \cup {spare})
  /\ spare' = NoChunk
  /\ alive' = FALSE
  /\ UNCHANGED <<values, prev, next, readEnd, writeEnd, w, f, r, c, wpc, rpc, writing, hand,
                 cells, delivered>>

Next ==
  \/ \E x \in Items : Write(x)
  \/ PushSpare \/ PushMalloc \/ Unwrite \/ FlushCas \/ FlushStore \/ Wake
  \/ CheckRead \/ TakeFront \/ PopSpare \/ PopFree \/ Retry
  \/ Destroy

Spec == Init /\ [][Next]_vars

-----------------------------------------------------------------------------
(* Properties. *)

(***************************************************************************)
(* Push, Pop, Unpush: every chunk that is allocated is in the list, is the *)
(* spare one or is in Pop's hands, and in one of these places only: no     *)
(* chunk leaks, is freed twice, or is used after it was freed.  The        *)
(* destructor gives back every chunk, wherever the threads stopped.        *)
(***************************************************************************)
ChunksOwnedOnce ==
  IF alive
    THEN /\ allocated = Chain \cup ({spare, hand} \ {NoChunk})
         /\ spare \notin Chain /\ hand \notin Chain
         /\ spare = hand => spare = NoChunk
    ELSE allocated = {}

\* The position of an address, counted as SpscQueue does.
IndexOf(k) == CHOOSE i \in 1..Cardinality(Chunks) :
                ChunkAt[i] = k /\ \A j \in 1..(i - 1) : ChunkAt[j] # k
Position(a) ==
  IF a = Null THEN 0
  ELSE Len(delivered) + 1 - beginPos + (IndexOf(a[1]) - 1) * N + a[2]

(***************************************************************************)
(* Flush, Unwrite and CheckRead compare addresses.  The ones they compare  *)
(* are all of cells in the list, between Front and Back, so that no freed  *)
(* and reallocated chunk makes two positions look the same.                *)
(***************************************************************************)
PointersInList ==
  alive /\ wpc \in {"idle", "wake"} =>
    \A a \in {w, f, r, c} \ {Null} :
      a[1] \in Chain /\ Position(a) \in Position(Front)..Position(Back)

(***************************************************************************)
(* Unpush walks the prev pointers that Pop clears in the other thread: the *)
(* ones it can reach are those of the list.                                *)
(***************************************************************************)
UnpushStaysInList ==
  alive /\ wpc = "idle" /\ f # Back =>
    /\ backPos = 0 => prev[back] \in Chain /\ next[prev[back]] = back
    /\ endPos = 0 => prev[end] = back /\ next[back] = end

(***************************************************************************)
(* Read returns the items that Write accepted, in order ("Push may fail    *)
(* when memory allocation failed", comment at 78: then Write should too).  *)
(***************************************************************************)
DeliveredAsWritten ==
  /\ Len(delivered) <= Len(cells)
  /\ delivered = SubSeq(cells, 1, Len(delivered))

(***************************************************************************)
(* On the chunks, with addresses for pointers, the queue is SpscQueue.     *)
(***************************************************************************)
Spsc == INSTANCE SpscQueue WITH
  front <- Len(delivered) + 1,
  w <- Position(w), f <- Position(f), r <- Position(r), c <- Position(c),
  wpc <- IF wpc \in {"spare", "malloc"} THEN "idle" ELSE wpc,
  rpc <- IF rpc \in {"spare", "free"} THEN "run" ELSE rpc

ImplementsSpscQueue == Spsc!Spec
=============================================================================
