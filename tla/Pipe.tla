-------------------------------- MODULE Pipe --------------------------------
(***************************************************************************)
(* The pair of pipe_t objects of src/pipe.cpp.  Side s is operated by one  *)
(* thread; what it writes goes through the lock-free queue out[s] to the   *)
(* other side, and what it reads comes from out[Other(s)].  The queues are *)
(* channels (SpscQueue implements FifoChannel).                            *)
(***************************************************************************)
EXTENDS Channel

CONSTANT Quota     \* bound on the items each side may have written

Sides == {0, 1}
Other(s) == 1 - s

ASSUME QuotaAssumption == Quota \in [Sides -> Nat]

\* What Write is given, a message or nullptr (as in pipeTest.cpp:42), and the nullptr
\* of Terminate, which only the properties tell from the other.
Writable == {"message", "null"}
Delimiter == "delimiter"
IsNull(item) == item # "message"

VARIABLES out,              \* the queue each side writes
          terminated,       \* terminated_
          peerTerminated,   \* peer_terminated_
          userRef,          \* the user's shared_ptr to the side's object
          peerRef,          \* peer_ of the side's object is not null
          alive,            \* the side's object is not destroyed
          pc,               \* where the side's thread is
          mode,             \* the timeout of the Read it is in
          closing,          \* the write it is in is Terminate's
          mutex,            \* the side's mutex_ is locked by its reader
          held              \* the messages read and not recycled, by position

vars == <<out, terminated, peerTerminated, userRef, peerRef, alive, pc, mode, closing, mutex,
          held>>
refs == <<userRef, peerRef, alive>>

in(s) == out[Other(s)]

(***************************************************************************)
(* "flush":   the item is in the queue, Flush comes next                   *)
(* "notify":  Flush returned false, SendReadActivated comes next           *)
(* "close":   Terminate wrote its delimiter, the rest comes next           *)
(* "lock":    Read found nothing and wants its mutex                       *)
(* "locked":  it has it and looks again                                    *)
(* "wait":    it waits on the condition variable, the mutex is free        *)
(* "relock":  it was woken and wants its mutex back                        *)
(* "recheck": it has it back and looks again                               *)
(***************************************************************************)
Places == {"idle", "flush", "notify", "close", "lock", "locked", "wait", "relock", "recheck"}

TypeOK ==
  /\ \A s \in Sides : /\ out[s].taken \in 0..out[s].published
                      /\ out[s].published \in 0..out[s].complete
                      /\ out[s].complete \in 0..Len(out[s].items)
                      /\ held[s] \subseteq 1..out[Other(s)].taken
  /\ \A b \in {terminated, peerTerminated, userRef, peerRef, alive, closing, mutex} :
       b \in [Sides -> BOOLEAN]
  /\ pc \in [Sides -> Places]
  /\ mode \in [Sides -> {"poll", "timed", "forever"}]

Everywhere(v) == [s \in Sides |-> v]

\* CreatePipePair: two objects that hold each other.
Init ==
  /\ out = Everywhere(EmptyChannel)
  /\ terminated = Everywhere(FALSE) /\ peerTerminated = Everywhere(FALSE)
  /\ userRef = Everywhere(TRUE) /\ peerRef = Everywhere(TRUE) /\ alive = Everywhere(TRUE)
  /\ pc = Everywhere("idle") /\ mode = Everywhere("poll")
  /\ closing = Everywhere(FALSE) /\ mutex = Everywhere(FALSE)
  /\ held = Everywhere({})

\* The thread of side s is inside Read, past its first look.
Reading(s) == pc[s] \in {"lock", "locked", "wait", "relock", "recheck"}

\* The thread of side s is about to call a method of its object.
Free(s) == userRef[s] /\ pc[s] = "idle"

-----------------------------------------------------------------------------
(* Writing. *)

\* Bug: a terminated side can still write.
WriteUnchecked(s, item, more) ==
  /\ Free(s)
  /\ Len(out[s].items) < Quota[s]
  /\ out' = [out EXCEPT ![s] = Put(@, item, more)]
  /\ pc' = [pc EXCEPT ![s] = IF more THEN "idle" ELSE "flush"]
  /\ UNCHANGED <<terminated, peerTerminated, refs, mode, closing, mutex, held>>

Write(s, item, more) ==
  /\ Free(s)
  /\ ~terminated[s]
  /\ Len(out[s].items) < Quota[s]
  /\ out' = [out EXCEPT ![s] = Put(@, item, more)]
  /\ pc' = [pc EXCEPT ![s] = IF more THEN "idle" ELSE "flush"]
  /\ UNCHANGED <<terminated, peerTerminated, refs, mode, closing, mutex, held>>

\* With nothing to undo it returns -1, above all once Terminate has made everything
\* complete.  Then the peer may be destroyed, and the queue with it: the result of a
\* call is undefined, but nobody reads the queue any more.
Unwrite(s) ==
  /\ Free(s)
  /\ out' = [out EXCEPT ![s] = IF CanUndo(@) THEN Undo(@) ELSE @]
  /\ UNCHANGED <<terminated, peerTerminated, refs, pc, mode, closing, mutex, held>>

AfterWrite(s) == IF closing[s] THEN "close" ELSE "idle"

\* Bug: the result of Flush is not looked at.
FlushUnheeded(s) ==
  /\ pc[s] = "flush"
  /\ out' = [out EXCEPT ![s] = Flushed(@)]
  /\ pc' = [pc EXCEPT ![s] = AfterWrite(s)]
  /\ UNCHANGED <<terminated, peerTerminated, refs, mode, closing, mutex, held>>

Flush(s) ==
  /\ pc[s] = "flush"
  /\ out' = [out EXCEPT ![s] = Flushed(@)]
  /\ pc' = [pc EXCEPT ![s] = IF FlushResult(out[s]) THEN AfterWrite(s) ELSE "notify"]
  /\ UNCHANGED <<terminated, peerTerminated, refs, mode, closing, mutex, held>>

\* The peer's SendReadActivated: notify_all under the peer's mutex.
Notify(s) ==
  /\ pc[s] = "notify"
  /\ ~mutex[Other(s)]
  /\ pc' = [pc EXCEPT ![s] = AfterWrite(s),
                      ![Other(s)] = IF @ = "wait" THEN "relock" ELSE @]
  /\ UNCHANGED <<out, terminated, peerTerminated, refs, mode, closing, mutex, held>>

(***************************************************************************)
(* What shared_ptr does when references go: an object nobody holds is      *)
(* destroyed, which drops the reference it holds to its peer.              *)
(***************************************************************************)
Unheld(users, peers) ==
  LET first == {s \in Sides : ~users[s] /\ ~peers[Other(s)]}
  IN  first \cup {s \in Sides : ~users[s] /\ Other(s) \in first}

DropRefs(users, peers) ==
  LET gone == Unheld(users, peers)
  IN  /\ userRef' = users
      /\ peerRef' = [s \in Sides |-> peers[s] /\ s \notin gone]
      /\ alive' = [s \in Sides |-> s \notin gone]

\* Bug: Terminate lets go of its peer before it writes the delimiter.
TerminateLetsGoFirst(s) ==
  /\ Free(s)
  /\ ~terminated[s]
  /\ out' = [out EXCEPT ![s] = Put(@, Delimiter, FALSE)]
  /\ closing' = [closing EXCEPT ![s] = TRUE]
  /\ pc' = [pc EXCEPT ![s] = "flush"]
  /\ DropRefs(userRef, [peerRef EXCEPT ![s] = FALSE])
  /\ UNCHANGED <<terminated, peerTerminated, mode, mutex, held>>

Terminate(s) ==
  /\ Free(s)
  /\ ~terminated[s]
  /\ out' = [out EXCEPT ![s] = Put(@, Delimiter, FALSE)]
  /\ closing' = [closing EXCEPT ![s] = TRUE]
  /\ pc' = [pc EXCEPT ![s] = "flush"]
  /\ UNCHANGED <<terminated, peerTerminated, refs, mode, mutex, held>>

\* Bug: the reference to the peer is kept.
CloseKeepsPeer(s) ==
  /\ pc[s] = "close"
  /\ terminated' = [terminated EXCEPT ![s] = TRUE]
  /\ closing' = [closing EXCEPT ![s] = FALSE]
  /\ pc' = [pc EXCEPT ![s] = "idle"]
  /\ UNCHANGED <<out, peerTerminated, refs, mode, mutex, held>>

\* The end of Terminate: terminated_, then peer_.reset().
Close(s) ==
  /\ pc[s] = "close"
  /\ terminated' = [terminated EXCEPT ![s] = TRUE]
  /\ closing' = [closing EXCEPT ![s] = FALSE]
  /\ DropRefs(userRef, [peerRef EXCEPT ![s] = FALSE])
  /\ pc' = [pc EXCEPT ![s] = "idle"]
  /\ UNCHANGED <<out, peerTerminated, mode, mutex, held>>

\* The user lets its shared_ptr go.
Drop(s) ==
  /\ Free(s)
  /\ DropRefs([userRef EXCEPT ![s] = FALSE], peerRef)
  /\ UNCHANGED <<out, terminated, peerTerminated, pc, mode, closing, mutex, held>>

-----------------------------------------------------------------------------
(* Reading. *)

\* DoRead found a message or the end of the stream.
DoRead(s) ==
  \/ peerTerminated[s] /\ UNCHANGED <<out, peerTerminated, held>>
  \/ /\ ~peerTerminated[s]
     /\ HasItem(in(s))
     /\ out' = [out EXCEPT ![Other(s)] = Take(@)]
     /\ IF IsNull(NextItem(in(s)))
          THEN peerTerminated' = [peerTerminated EXCEPT ![s] = TRUE] /\ UNCHANGED held
          ELSE held' = [held EXCEPT ![s] = @ \cup {in(s).taken + 1}] /\ UNCHANGED peerTerminated

\* DoRead found nothing.
DoReadNothing(s) ==
  /\ ~peerTerminated[s]
  /\ ~HasItem(in(s))
  /\ out' = [out EXCEPT ![Other(s)] = Checked(@)]
  /\ UNCHANGED <<peerTerminated, held>>

\* Read(timeout): the first look, without the mutex.
Read(s, timeout) ==
  /\ Free(s)
  /\ mode' = [mode EXCEPT ![s] = timeout]
  /\ \/ DoRead(s) /\ UNCHANGED pc
     \/ /\ DoReadNothing(s)
        /\ pc' = [pc EXCEPT ![s] = IF timeout = "poll" THEN "idle" ELSE "lock"]
  /\ UNCHANGED <<terminated, refs, closing, mutex>>

\* Bug: Read waits without a second look under the mutex.
LockAndWait(s) ==
  /\ pc[s] \in {"lock", "relock"}
  /\ ~mutex[s]
  /\ mutex' = [mutex EXCEPT ![s] = @ \/ pc[s] = "relock"]
  /\ pc' = [pc EXCEPT ![s] = IF @ = "lock" THEN "wait" ELSE "recheck"]
  /\ UNCHANGED <<out, terminated, peerTerminated, refs, mode, closing, held>>

Lock(s) ==
  /\ pc[s] \in {"lock", "relock"}
  /\ ~mutex[s]
  /\ mutex' = [mutex EXCEPT ![s] = TRUE]
  /\ pc' = [pc EXCEPT ![s] = IF @ = "lock" THEN "locked" ELSE "recheck"]
  /\ UNCHANGED <<out, terminated, peerTerminated, refs, mode, closing, held>>

\* With the mutex: return, or wait, or give up when the timed wait is over.
ReadLocked(s) ==
  /\ pc[s] \in {"locked", "recheck"}
  /\ \/ DoRead(s) /\ pc' = [pc EXCEPT ![s] = "idle"]
     \/ /\ DoReadNothing(s)
        /\ pc' = [pc EXCEPT ![s] = IF @ = "recheck" /\ mode[s] = "timed" THEN "idle" ELSE "wait"]
  /\ mutex' = [mutex EXCEPT ![s] = FALSE]
  /\ UNCHANGED <<terminated, refs, mode, closing>>

\* A timeout, or a wake-up without cause, which condition variables allow.
WakeUp(s) ==
  /\ pc[s] = "wait"
  /\ pc' = [pc EXCEPT ![s] = "relock"]
  /\ UNCHANGED <<out, terminated, peerTerminated, refs, mode, closing, mutex, held>>

CheckRead(s) ==
  /\ Free(s)
  /\ ~peerTerminated[s]
  /\ out' = [out EXCEPT ![Other(s)] = Checked(@)]
  /\ UNCHANGED <<terminated, peerTerminated, refs, pc, mode, closing, mutex, held>>

\* Recyclemessage_t: the message goes to the allocator of peer_.
Recycle(s) ==
  /\ Free(s)
  /\ peerRef[s]
  /\ \E m \in held[s] : held' = [held EXCEPT ![s] = @ \ {m}]
  /\ UNCHANGED <<out, terminated, peerTerminated, refs, pc, mode, closing, mutex>>

Next ==
  \E s \in Sides :
    \/ \E item \in Writable, more \in BOOLEAN : Write(s, item, more)
    \/ Unwrite(s) \/ Flush(s) \/ Notify(s) \/ Terminate(s) \/ Close(s) \/ Drop(s)
    \/ \E timeout \in {"poll", "timed", "forever"} : Read(s, timeout)
    \/ Lock(s) \/ ReadLocked(s) \/ WakeUp(s) \/ CheckRead(s) \/ Recycle(s)

Spec == Init /\ [][Next]_vars

\* A thread inside a method goes on; nobody must call one, and no wait times out.
Fairness ==
  \A s \in Sides : /\ WF_vars(Flush(s)) /\ WF_vars(Notify(s)) /\ WF_vars(Close(s))
                   /\ WF_vars(Lock(s)) /\ WF_vars(ReadLocked(s))

FairSpec == Spec /\ Fairness

-----------------------------------------------------------------------------
(* Properties. *)

(***************************************************************************)
(* Read, Write, SendReadActivated: a reader that waits although something  *)
(* is there for it has the notification of the other thread still coming.  *)
(***************************************************************************)
NoLostNotification ==
  \A s \in Sides : pc[s] = "wait" /\ HasItem(in(s)) => pc[Other(s)] = "notify"

(***************************************************************************)
(* Write and Terminate use the queue and the object of the peer only while *)
(* these exist ("Hold reference to the peer object", pipe.hpp:104).        *)
(***************************************************************************)
PeerOutlivesWriter ==
  \A s \in Sides : pc[s] \in {"flush", "notify", "close"} => alive[Other(s)]

(***************************************************************************)
(* Once both users have let go and one side was terminated, the two        *)
(* objects are destroyed although each held the other.                     *)
(***************************************************************************)
CycleBroken ==
  (\A s \in Sides : ~userRef[s]) /\ (\E s \in Sides : terminated[s]) =>
    \A s \in Sides : ~alive[s]

(***************************************************************************)
(* Read reports the end when it takes a null, and nothing was one before.  *)
(* If that null is Terminate's, everything the peer wrote was read, and    *)
(* nothing is written behind it; if a user wrote it, more may come and is  *)
(* never read.  Once Terminate is over all that was written may be read,   *)
(* what was incomplete too, with its null last.                            *)
(***************************************************************************)
EndAtNull ==
  \A s \in Sides :
    LET q == in(s)
        last == Len(q.items)
    IN  /\ peerTerminated[s] => q.taken # 0
        /\ \A i \in 1..q.taken : IsNull(q.items[i]) <=> peerTerminated[s] /\ i = q.taken
        /\ peerTerminated[s] /\ q.items[q.taken] = Delimiter =>
             q.taken = last /\ (terminated[Other(s)] \/ closing[Other(s)])
        /\ terminated[Other(s)] => q.published = last /\ last # 0 /\ q.items[last] = Delimiter

(***************************************************************************)
(* A Read that waits forever returns once something is flushed for it, be  *)
(* it a message or the peer's Terminate, without any spurious wake-up.     *)
(***************************************************************************)
BlockedReadReturns ==
  \A s \in Sides :
    (Reading(s) /\ mode[s] = "forever" /\ HasItem(in(s))) ~> ~Reading(s)

(***************************************************************************)
(* "Each message_t returned from the Read API should be recycled through   *)
(* this API" (pipe.hpp:65): Recyclemessage_t needs peer_ for that.         *)
(***************************************************************************)
HeldCanBeRecycled == \A s \in Sides : userRef[s] /\ held[s] # {} => peerRef[s]
=============================================================================
