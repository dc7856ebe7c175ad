------------------------------- MODULE Channel -------------------------------
(***************************************************************************)
(* What the lock-free queue of src/spsc_queue.hpp promises to its users:   *)
(* one writer, one reader, items delivered once and in order, whole        *)
(* messages only, and a writer that is told when the reader is asleep.     *)
(*                                                                         *)
(* The operators are functions of one channel record, so that the pipe and *)
(* the message allocator can hold as many channels as the code does.       *)
(***************************************************************************)
EXTENDS Integers, Sequences

(***************************************************************************)
(* items      everything written and not withdrawn, oldest first           *)
(* complete   how many of them may be flushed ("f" points behind them)     *)
(* published  how many of them the reader may see                          *)
(* taken      how many of them the reader has read                         *)
(* reader     "asleep" once it has found nothing since the last effective  *)
(*            flush, else "awake"                                          *)
(***************************************************************************)
EmptyChannel == [items |-> <<>>, complete |-> 0, published |-> 0, taken |-> 0,
                 reader |-> "awake"]

\* Write(value, incomplete): an incomplete item waits for the ones after it.
Put(q, x, incomplete) ==
  [q EXCEPT !.items = Append(@, x),
            !.complete = IF incomplete THEN @ ELSE Len(q.items) + 1]

\* Unwrite: only what is not complete yet can be taken back.
CanUndo(q) == q.complete < Len(q.items)
Undo(q) == [q EXCEPT !.items = SubSeq(@, 1, Len(@) - 1)]
LastItem(q) == q.items[Len(q.items)]

\* Flush: FALSE when there was something to flush and the reader is asleep.
FlushResult(q) == q.published = q.complete \/ q.reader = "awake"
Flushed(q) == [q EXCEPT !.published = q.complete,
                        !.reader = IF q.published = q.complete THEN @ ELSE "awake"]

\* CheckRead: a reader that finds nothing leaves word that it is asleep.
HasItem(q) == q.taken < q.published
Checked(q) == [q EXCEPT !.reader = IF HasItem(q) THEN @ ELSE "asleep"]

NextItem(q) == q.items[q.taken + 1]
Take(q) == [q EXCEPT !.taken = @ + 1]
=============================================================================
