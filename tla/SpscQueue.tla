------------------------------ MODULE SpscQueue ------------------------------
(***************************************************************************)
(* SpscQueue of src/spsc_queue.hpp: a queue between one writer thread and  *)
(* one reader thread that share nothing but the atomic pointer "c".        *)
(*                                                                         *)
(* A pointer to an item is the position of its cell, counted from 1 over   *)
(* the whole life of the queue; the storage under it (chunks, recycling)   *)
(* is BatchQueue's.  The fields r_item_, w_item_, f_item_ and contention_  *)
(* keep the one-letter names the code's comments give them.                *)
(***************************************************************************)
EXTENDS Integers, Sequences

CONSTANTS Payloads,   \* what an item carries
          MaxItems    \* bound on the items written and not withdrawn

ASSUME MaxItemsAssumption == MaxItems \in Nat

\* An item and the "incomplete" argument it is written with.
Items == [id : Payloads, more : BOOLEAN]

\* The null pointer; positions start at 1.
NULL == 0

VARIABLES cells,      \* the items written and not withdrawn, by position
          front,      \* queue_.Front(): the first item not popped
          w,          \* the first un-flushed item (writer)
          f,          \* the first item to be flushed in the future (writer)
          r,          \* the first un-prefetched item (reader)
          c,          \* past the last flushed item; NULL: the reader is asleep
          wpc,        \* where the writer is
          rpc,        \* where the reader is
          delivered   \* history: what Read returned

writerVars == <<cells, w, f, wpc>>
readerVars == <<front, r, rpc, delivered>>
vars == <<cells, front, w, f, r, c, wpc, rpc, delivered>>

(***************************************************************************)
(* wpc = "store": Flush's compare-and-swap failed, c is not stored yet     *)
(* wpc = "wake":  Flush returned false, the reader is not woken yet        *)
(* rpc = "take":  CheckRead returned true inside Read                      *)
(* rpc = "empty": CheckRead returned false                                 *)
(***************************************************************************)
TypeOK ==
  /\ cells \in Seq(Items) /\ delivered \in Seq(Items)
  /\ front \in Nat \ {0} /\ f \in Nat \ {0}
  /\ w \in Nat /\ r \in Nat /\ c \in Nat
  /\ wpc \in {"idle", "store", "wake"}
  /\ rpc \in {"run", "take", "empty"}

\* queue_.Back(): the terminator, behind the last item written.
Back == Len(cells) + 1

Init ==
  /\ cells = <<>> /\ delivered = <<>>
  /\ front = 1 /\ w = 1 /\ f = 1 /\ r = 1 /\ c = 1
  /\ wpc = "idle" /\ rpc = "run"

-----------------------------------------------------------------------------
(* The writer. *)

\* Bug: the flush pointer moves although the item is incomplete.
WriteAlwaysComplete(x) ==
  /\ wpc = "idle"
  /\ Len(cells) < MaxItems
  /\ cells' = Append(cells, x)
  /\ f' = Back + 1
  /\ UNCHANGED <<w, c, wpc, readerVars>>

Write(x) ==
  /\ wpc = "idle"
  /\ Len(cells) < MaxItems
  /\ cells' = Append(cells, x)
  /\ f' = IF x.more THEN f ELSE Back + 1
  /\ UNCHANGED <<w, c, wpc, readerVars>>

\* Bug: what is flushed can be withdrawn.
UnwriteUnchecked ==
  /\ wpc = "idle"
  /\ cells # <<>>
  /\ cells' = SubSeq(cells, 1, Len(cells) - 1)
  /\ UNCHANGED <<w, f, c, wpc, readerVars>>

\* Bug: the flush pointer follows Back, below the first cell in the end.
UnwriteMovesF ==
  /\ wpc = "idle"
  /\ cells' = SubSeq(cells, 1, Len(cells) - 1)
  /\ f' = Len(cells)
  /\ UNCHANGED <<w, c, wpc, readerVars>>

Unwrite ==
  /\ wpc = "idle"
  /\ f # Back
  /\ cells' = SubSeq(cells, 1, Len(cells) - 1)
  /\ UNCHANGED <<w, f, c, wpc, readerVars>>

\* compare_exchange_strong(w, f): a failure puts the value found into w.
FlushCas ==
  /\ wpc = "idle"
  /\ w # f
  /\ \/ c = w /\ c' = f /\ w' = f /\ UNCHANGED wpc
     \/ c # w /\ w' = c /\ wpc' = "store" /\ UNCHANGED c
  /\ UNCHANGED <<cells, f, readerVars>>

\* Bug: Flush returns true after its failed compare-and-swap.
FlushStoreSilent ==
  /\ wpc = "store"
  /\ c' = f
  /\ w' = f
  /\ wpc' = "idle"
  /\ UNCHANGED <<cells, f, readerVars>>

FlushStore ==
  /\ wpc = "store"
  /\ c' = f
  /\ w' = f
  /\ wpc' = "wake"
  /\ UNCHANGED <<cells, f, readerVars>>

\* What the comment on Flush obliges its caller to do when it returns false.
Wake ==
  /\ wpc = "wake"
  /\ wpc' = "idle"
  /\ rpc' = IF rpc = "empty" THEN "run" ELSE rpc
  /\ UNCHANGED <<cells, w, f, c, front, r, delivered>>

-----------------------------------------------------------------------------
(* The reader: Read is CheckRead and, when it returns true, Take. *)

\* Bug: a null r_item_ counts as a prefetched item.
PrefetchedOrNull == front # r

Prefetched == front # r /\ r # NULL

\* Bug: a reader that finds nothing leaves c as it is.
CheckReadNoSleep ==
  /\ rpc = "run"
  /\ \/ Prefetched /\ rpc' = "take" /\ UNCHANGED r
     \/ ~Prefetched /\ r' = c /\ rpc' = IF c \in {front, NULL} THEN "empty" ELSE "take"
  /\ UNCHANGED <<writerVars, c, front, delivered>>

\* compare_exchange_strong(front, NULL): r is what c held before.
CheckRead ==
  /\ rpc = "run"
  /\ \/ /\ Prefetched
        /\ rpc' = "take"
        /\ UNCHANGED <<r, c>>
     \/ /\ ~Prefetched
        /\ r' = c
        /\ c' = IF c = front THEN NULL ELSE c
        /\ rpc' = IF r' \in {front, NULL} THEN "empty" ELSE "take"
  /\ UNCHANGED <<writerVars, front, delivered>>

\* Bug: the item is copied and stays in the queue.
TakeFrontKeeps ==
  /\ rpc = "take"
  /\ delivered' = Append(delivered, cells[front])
  /\ rpc' = "run"
  /\ UNCHANGED <<writerVars, front, r, c>>

TakeFront ==
  /\ rpc = "take"
  /\ delivered' = Append(delivered, cells[front])
  /\ front' = front + 1
  /\ rpc' = "run"
  /\ UNCHANGED <<writerVars, r, c>>

\* A reader that was told "nothing" may look again on its own.
Retry ==
  /\ rpc = "empty"
  /\ rpc' = "run"
  /\ UNCHANGED <<writerVars, front, r, c, delivered>>

WriterStep == (\E x \in Items : Write(x)) \/ Unwrite \/ FlushCas \/ FlushStore \/ Wake
ReaderStep == CheckRead \/ TakeFront \/ Retry

Next == WriterStep \/ ReaderStep

Spec == Init /\ [][Next]_vars

(***************************************************************************)
(* A thread inside a method goes on, a woken reader reads, and the caller  *)
(* of Flush keeps its obligation; nobody has to write, flush or poll.      *)
(***************************************************************************)
Fairness == WF_vars(FlushStore) /\ WF_vars(Wake) /\ WF_vars(CheckRead) /\ WF_vars(TakeFront)

FairSpec == Spec /\ Fairness

-----------------------------------------------------------------------------
(* Properties. *)

\* How many items the reader may see: c is NULL only once it has read them all.
Published == IF c = NULL THEN front - 1 ELSE c - 1

(***************************************************************************)
(* Read returns the items in the order they were written, each once,       *)
(* although the writer may withdraw and rewrite cells all the time.        *)
(***************************************************************************)
DeliveredInOrder ==
  /\ Len(delivered) <= Len(cells)
  /\ delivered = SubSeq(cells, 1, Len(delivered))

(***************************************************************************)
(* Flush: when its compare-and-swap fails it is because c is NULL          *)
(* (comment at 246), so outside the failed swap c is w or NULL.            *)
(***************************************************************************)
ContentionIsWOrNull == wpc # "store" => c \in {w, NULL}

(***************************************************************************)
(* Flush and CheckRead: a reader that was told "nothing" while everything  *)
(* flushed is not read yet has a wake-up coming (comment at 234).          *)
(***************************************************************************)
NoLostWakeup == rpc = "empty" /\ wpc = "idle" => front = w

(***************************************************************************)
(* Read copies and pops a cell only if the writer has completed it: Write  *)
(* stores into the terminator and Unwrite withdraws behind f, so the two   *)
(* threads never touch one cell at the same time.                          *)
(***************************************************************************)
CellsNotShared == rpc = "take" => front < f /\ f <= Back

(***************************************************************************)
(* A reader that has read an incomplete item finds the next part of the    *)
(* message without waiting (comment on Write at 207).                      *)
(***************************************************************************)
WholeMessages ==
  delivered # <<>> /\ delivered[Len(delivered)].more =>
     /\ rpc # "empty"
     /\ Len(delivered) < Published

(***************************************************************************)
(* What was flushed is never withdrawn or changed, not even between the    *)
(* failed compare-and-swap and the store of c.                             *)
(***************************************************************************)
FlushedKept ==
  /\ Published <= Published' /\ Published <= Len(cells')
  /\ \A i \in 1..Published : cells'[i] = cells[i]

FlushedStays == [][FlushedKept]_vars

(***************************************************************************)
(* Every item that Flush has handed over is read in the end, without the   *)
(* reader ever polling: the wake-ups alone are enough.                     *)
(***************************************************************************)
FlushedIsRead ==
  \A n \in 1..MaxItems : (wpc = "idle" /\ w > n) ~> (Len(delivered) >= n)

\* c also says whether the reader is asleep.
ReaderMode == IF c = NULL THEN "asleep" ELSE "awake"

(***************************************************************************)
(* The queue implements the abstract channel: Flush takes effect at its    *)
(* successful swap or at the store after a failed one, CheckRead at its    *)
(* swap, Read at the pop.                                                  *)
(***************************************************************************)
Abstract == INSTANCE FifoChannel WITH
  ch <- [items |-> cells, complete |-> f - 1, published |-> Published,
         taken |-> front - 1, reader |-> ReaderMode],
  owed <- wpc = "wake",
  waiting <- rpc = "empty"

ImplementsChannel == Abstract!ChSpec

=============================================================================
