----------------------------- MODULE QueueOrder -----------------------------
(***************************************************************************)
(* SpscQueue with the memory orders of src/spsc_queue.hpp: which writes of *)
(* the writer thread the reader thread is entitled to see.  A release      *)
(* publishes the cells written before it, an acquire that reads its value  *)
(* makes them visible, and so does the mutex under which a waiting reader  *)
(* is notified.  The steps are SpscQueue's; the variables here only watch. *)
(***************************************************************************)
EXTENDS SpscQueue

VARIABLES
  carried,   \* the cells that the value of contention_ publishes
  visible,   \* the cells whose contents the reader has acquired
  look       \* "unasked": told "nothing", the reader is about to look again without being
             \* woken, or for what it has taken already; "early": that was its last look at
             \* contention_; "due": neither

orderVars == <<carried, visible, look>>

OrderInit == Init /\ carried = 0 /\ visible = 0 /\ look = "due"

-----------------------------------------------------------------------------

\* Bug: the successful exchange is as relaxed as the store behind a failed one.
CarriedIfRelaxed == carried

\* compare_exchange_strong(w_item_, f_item_, acq_rel) releases when it succeeds.
CarriedBySwap == IF wpc' = "store" THEN carried ELSE f - 1

FlushCasOrder ==
  /\ FlushCas
  /\ carried' = CarriedBySwap
  /\ UNCHANGED <<visible, look>>

\* contention_.store(f_item_, relaxed) carries no more than was released before.
FlushStoreOrder == FlushStore /\ UNCHANGED orderVars

\* The writer locks the mutex of a waiting reader, which locks it again to go on.
WakeOrder ==
  /\ Wake
  /\ IF rpc = "empty" THEN visible' = Published /\ look' = IF c = NULL THEN "unasked" ELSE "due"
     ELSE UNCHANGED <<visible, look>>
  /\ UNCHANGED carried

\* compare_exchange_strong(first_item, nullptr, acq_rel) acquires, also when it fails.
CheckReadOrder ==
  /\ CheckRead
  /\ IF Prefetched THEN UNCHANGED <<visible, look>>
     ELSE /\ visible' = IF c = NULL \/ carried < visible THEN visible ELSE carried
          /\ look' = IF look = "unasked" THEN "early" ELSE "due"
  /\ UNCHANGED carried

RetryOrder == Retry /\ look' = "unasked" /\ UNCHANGED <<carried, visible>>

OrderNext ==
  \/ ((\E x \in Items : Write(x)) \/ Unwrite \/ TakeFront) /\ UNCHANGED orderVars
  \/ FlushCasOrder
  \/ FlushStoreOrder
  \/ WakeOrder
  \/ CheckReadOrder
  \/ RetryOrder

OrderSpec == OrderInit /\ [][OrderNext]_<<vars, orderVars>> /\ Fairness

-----------------------------------------------------------------------------

(***************************************************************************)
(* The reader takes a cell only when its contents were released to it,     *)
(* although Flush's store is relaxed: "the reader is asleep.  Therefore we *)
(* don't care about thread-safeness" (comment at 247-250).  The one        *)
(* exception is a reader that is not asleep but looks again of its own     *)
(* accord before it is woken, as pipe_t::Read does after its timeout and   *)
(* message_allocator_t::ConsumeIdleQueue always; the wake-up it left       *)
(* behind makes it look once more.                                         *)
(***************************************************************************)
ReadsPublished == rpc = "take" /\ look # "early" => front <= visible
=============================================================================
