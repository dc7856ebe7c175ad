----------------------------- MODULE FifoChannel -----------------------------
(***************************************************************************)
(* The abstract specification of the lock-free queue: a channel with one   *)
(* writer and one reader.  SpscQueue implements it.                        *)
(***************************************************************************)
EXTENDS Channel

CONSTANTS Items,     \* what may be written: records with a field "more"
          MaxItems   \* bound on the items written and not withdrawn

VARIABLES ch,        \* the channel
          owed,      \* Flush returned FALSE and the reader is not woken yet
          waiting    \* the reader's last check found nothing, and no one woke it

chvars == <<ch, owed, waiting>>

ChInit == ch = EmptyChannel /\ owed = FALSE /\ waiting = FALSE

ChWrite ==
  /\ ~owed
  /\ Len(ch.items) < MaxItems
  /\ \E x \in Items : ch' = Put(ch, x, x.more)
  /\ UNCHANGED <<owed, waiting>>

ChUnwrite ==
  /\ ~owed
  /\ CanUndo(ch)
  /\ ch' = Undo(ch)
  /\ UNCHANGED <<owed, waiting>>

ChFlush ==
  /\ ~owed
  /\ ch.published # ch.complete
  /\ ch' = Flushed(ch)
  /\ owed' = ~FlushResult(ch)
  /\ UNCHANGED waiting

\* The obligation of spsc_queue.hpp:234-236: wake the reader before going on.
ChWake == owed /\ owed' = FALSE /\ waiting' = FALSE /\ UNCHANGED ch

ChCheckEmpty ==
  /\ ~waiting
  /\ ~HasItem(ch)
  /\ ch' = Checked(ch)
  /\ waiting' = TRUE
  /\ UNCHANGED owed

ChTake ==
  /\ ~waiting
  /\ HasItem(ch)
  /\ ch' = Take(ch)
  /\ UNCHANGED <<owed, waiting>>

ChRetry == waiting /\ waiting' = FALSE /\ UNCHANGED <<ch, owed>>

ChNext ==
  \/ ChWrite \/ ChUnwrite \/ ChFlush \/ ChWake
  \/ ChCheckEmpty \/ ChTake \/ ChRetry

ChSpec == ChInit /\ [][ChNext]_chvars
=============================================================================
