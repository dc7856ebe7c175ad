-------------------------- MODULE MessageAllocator --------------------------
(***************************************************************************)
(* message_allocator_t of src/message_allocator.cpp with the two threads   *)
(* that share it: the owner allocates and releases, the other thread       *)
(* recycles, and between them stands the lock-free idle queue.             *)
(***************************************************************************)
EXTENDS Channel, SizeClass, FiniteSets

CONSTANTS Msgs,       \* the addresses of messages
          Nil,        \* nullptr
          Requests,   \* the capacities asked for
          MaxIdle     \* bound on what passes through the idle queue

ASSUME AllocatorAssumption ==
  /\ IsFiniteSet(Msgs) /\ Nil \notin Msgs
  /\ Requests \subseteq Nat /\ MaxIdle \in Nat

VARIABLES heads,      \* free_lists_
          nxt,        \* next_ of each message
          index,      \* index_ of each message
          capacity,   \* capacity_ of each message
          dirty,      \* messages whose size, timestamp or id is set
          live,       \* messages that are constructed and not deleted
          owned,      \* live messages in the owner's hands
          away,       \* live messages in the other thread's hands
          idle,       \* idle_queue_
          opc, opWant,        \* the owner: where it is, what it asked for
          rpc, rpMsg,         \* the other thread: where it is, its message
          asked,      \* history: the request each message in use was given for
          wasIdle     \* history: what was in the idle queue when Allocate began

vars == <<heads, nxt, index, capacity, dirty, live, owned, away, idle, opc, opWant, rpc,
          rpMsg, asked, wasIdle>>
fields == <<index, capacity, live>>

IdleReadable == {idle.items[i] : i \in (idle.taken + 1)..idle.published}
IdleAll == {idle.items[i] : i \in (idle.taken + 1)..Len(idle.items)}

(***************************************************************************)
(* opc = "consume": inside ConsumeIdleQueue, called by Allocate            *)
(* opc = "pick":    back in Allocate, with the head read again             *)
(* opc = "closing": inside ConsumeIdleQueue, called by the destructor      *)
(* rpc = "flush":   Recycle wrote the message and has not flushed yet      *)
(***************************************************************************)
TypeOK ==
  /\ heads \in [ListIndices -> Msgs \cup {Nil}]
  /\ nxt \in [Msgs -> Msgs \cup {Nil}]
  /\ index \in [Msgs -> ListIndices \cup {-1}]
  /\ capacity \in [Msgs -> Nat]
  /\ owned \cup away \cup dirty \subseteq live /\ live \subseteq Msgs
  /\ idle.taken \in 0..idle.published /\ idle.published \in 0..Len(idle.items)
  /\ opc \in {"idle", "consume", "pick", "closing", "closed"}
  /\ opWant \in Requests \cup {0}
  /\ rpc \in {"idle", "flush"} /\ rpMsg \in Msgs \cup {Nil}
  /\ asked \in [Msgs -> Requests \cup {0}]
  /\ wasIdle \subseteq Msgs

Init ==
  /\ heads = [i \in ListIndices |-> Nil]
  /\ nxt = [m \in Msgs |-> Nil]
  /\ index = [m \in Msgs |-> 0] /\ capacity = [m \in Msgs |-> 0]
  /\ dirty = {} /\ live = {} /\ owned = {} /\ away = {}
  /\ idle = EmptyChannel
  /\ opc = "idle" /\ opWant = 0
  /\ rpc = "idle" /\ rpMsg = Nil
  /\ asked = [m \in Msgs |-> 0] /\ wasIdle = {}

-----------------------------------------------------------------------------
(* The owner. *)

\* new message_t and Init(i, c), handed to the caller.
New(i, c, want) ==
  \E m \in Msgs \ live :
    /\ live' = live \cup {m} /\ owned' = owned \cup {m}
    /\ index' = [index EXCEPT ![m] = i]
    /\ capacity' = [capacity EXCEPT ![m] = c]
    /\ asked' = [asked EXCEPT ![m] = want]
    /\ UNCHANGED <<heads, nxt, dirty>>

\* Bug: next_ is cleared before the list takes it over.
PopListClearsFirst(i, want) ==
  LET m == heads[i] IN
    /\ heads' = [heads EXCEPT ![i] = Nil]
    /\ nxt' = [nxt EXCEPT ![m] = Nil]
    /\ owned' = owned \cup {m}
    /\ asked' = [asked EXCEPT ![m] = want]
    /\ UNCHANGED <<fields, dirty>>

\* The head of list i, handed to the caller.
PopList(i, want) ==
  LET m == heads[i] IN
    /\ heads' = [heads EXCEPT ![i] = nxt[m]]
    /\ nxt' = [nxt EXCEPT ![m] = Nil]
    /\ owned' = owned \cup {m}
    /\ asked' = [asked EXCEPT ![m] = want]
    /\ UNCHANGED <<fields, dirty>>

\* Allocate, up to its result or to the idle queue when the list is empty.
Allocate(want) ==
  /\ opc = "idle"
  /\ \/ TooBig(want) /\ New(-1, want, want) /\ UNCHANGED <<opc, opWant, wasIdle>>
     \/ /\ ~TooBig(want) /\ heads[ListIndex(want)] # Nil
        /\ PopList(ListIndex(want), want)
        /\ UNCHANGED <<opc, opWant, wasIdle>>
     \/ /\ ~TooBig(want) /\ heads[ListIndex(want)] = Nil
        /\ opc' = "consume" /\ opWant' = want
        /\ wasIdle' = IdleReadable
        /\ UNCHANGED <<heads, nxt, fields, dirty, owned, asked>>
  /\ UNCHANGED <<away, idle, rpc, rpMsg>>

\* One turn of ConsumeIdleQueue's loop: a message goes to its list uncleared.
ConsumeIdle ==
  /\ opc \in {"consume", "closing"}
  /\ HasItem(idle)
  /\ LET m == NextItem(idle) IN
       /\ nxt' = [nxt EXCEPT ![m] = heads[index[m]]]
       /\ heads' = [heads EXCEPT ![index[m]] = m]
  /\ idle' = Take(idle)
  /\ UNCHANGED <<fields, dirty, owned, away, opc, opWant, rpc, rpMsg, asked, wasIdle>>

\* Bug: the loop stops although the idle queue has more.
ConsumeEndEarly ==
  /\ opc = "consume"
  /\ idle' = Checked(idle)
  /\ opc' = "pick"
  /\ UNCHANGED <<heads, nxt, fields, dirty, owned, away, opWant, rpc, rpMsg, asked, wasIdle>>

ConsumeEnd ==
  /\ opc = "consume"
  /\ ~HasItem(idle)
  /\ idle' = Checked(idle)
  /\ opc' = "pick"
  /\ UNCHANGED <<heads, nxt, fields, dirty, owned, away, opWant, rpc, rpMsg, asked, wasIdle>>

Pick ==
  /\ opc = "pick"
  /\ LET i == ListIndex(opWant) IN
       IF heads[i] # Nil THEN PopList(i, opWant) ELSE New(i, ListCapacity(i), opWant)
  /\ opc' = "idle" /\ opWant' = 0 /\ wasIdle' = {}
  /\ UNCHANGED <<away, idle, rpc, rpMsg>>

Release(m) ==
  /\ opc = "idle" /\ m \in owned
  /\ owned' = owned \ {m}
  /\ \/ index[m] < 0 /\ live' = live \ {m} /\ UNCHANGED <<heads, nxt>>
     \/ /\ index[m] >= 0
        /\ nxt' = [nxt EXCEPT ![m] = heads[index[m]]]
        /\ heads' = [heads EXCEPT ![index[m]] = m]
        /\ UNCHANGED live
  /\ dirty' = dirty \ {m}
  /\ asked' = [asked EXCEPT ![m] = 0]
  /\ UNCHANGED <<index, capacity, away, idle, opc, opWant, rpc, rpMsg, wasIdle>>

\* The caller fills a message it holds (set_size, set_timestamp, set_id).
Fill(m) ==
  /\ opc = "idle" /\ m \in owned \ dirty
  /\ dirty' = dirty \cup {m}
  /\ UNCHANGED <<heads, nxt, fields, owned, away, idle, opc, opWant, rpc, rpMsg, asked,
                 wasIdle>>

\* The pipe carries a message to the other thread.
HandOver(m) ==
  /\ opc = "idle" /\ m \in owned
  /\ owned' = owned \ {m} /\ away' = away \cup {m}
  /\ UNCHANGED <<heads, nxt, fields, dirty, idle, opc, opWant, rpc, rpMsg, asked, wasIdle>>

-----------------------------------------------------------------------------
(* The other thread: Recycle, in two steps as the idle queue sees them. *)

Recycle(m) ==
  /\ rpc = "idle" /\ m \in away
  /\ away' = away \ {m}
  /\ \/ /\ index[m] < 0
        /\ live' = live \ {m} /\ dirty' = dirty \ {m}
        /\ UNCHANGED <<idle, rpc, rpMsg>>
     \/ /\ index[m] >= 0
        /\ Len(idle.items) < MaxIdle
        /\ idle' = Put(idle, m, FALSE)
        /\ rpc' = "flush" /\ rpMsg' = m
        /\ UNCHANGED <<live, dirty>>
  /\ asked' = [asked EXCEPT ![m] = 0]
  /\ UNCHANGED <<heads, nxt, index, capacity, owned, opc, opWant, wasIdle>>

\* The result of Flush is not looked at: the owner never waits for messages.
RecycleFlush ==
  /\ rpc = "flush"
  /\ idle' = Flushed(idle)
  /\ rpc' = "idle" /\ rpMsg' = Nil
  /\ UNCHANGED <<heads, nxt, fields, dirty, owned, away, opc, opWant, asked, wasIdle>>

-----------------------------------------------------------------------------
\* The first n+1 members of the list that starts at m.
Walk(m) ==
  LET at[i \in 0..Cardinality(Msgs)] ==
        IF i = 0 THEN m ELSE IF at[i - 1] = Nil THEN Nil ELSE nxt[at[i - 1]]
  IN  at

\* The messages of free list i.
ListOf(i) == {Walk(heads[i])[n] : n \in 0..Cardinality(Msgs)} \ {Nil}

\* The destructor, once neither thread uses the allocator any more.
Close ==
  /\ opc = "idle" /\ rpc = "idle"
  /\ opc' = "closing"
  /\ UNCHANGED <<heads, nxt, fields, dirty, owned, away, idle, opWant, rpc, rpMsg, asked,
                 wasIdle>>

DeleteLists ==
  /\ opc = "closing"
  /\ ~HasItem(idle)
  /\ live' = live \ UNION {ListOf(i) : i \in ListIndices}
  /\ dirty' = dirty \cap live'
  /\ heads' = [i \in ListIndices |-> Nil]
  /\ idle' = Checked(idle)
  /\ opc' = "closed"
  /\ UNCHANGED <<nxt, index, capacity, owned, away, opWant, rpc, rpMsg, asked, wasIdle>>

OwnerStep ==
  \/ \E want \in Requests : Allocate(want)
  \/ ConsumeIdle \/ ConsumeEnd \/ Pick
  \/ \E m \in Msgs : Release(m) \/ Fill(m) \/ HandOver(m)

OtherStep ==
  /\ opc \notin {"closing", "closed"}
  /\ (\E m \in Msgs : Recycle(m)) \/ RecycleFlush

Next == OwnerStep \/ OtherStep \/ Close \/ DeleteLists

Spec == Init /\ [][Next]_vars

-----------------------------------------------------------------------------
(* Properties. *)

\* Every place a message can be in, with a number to tell the places apart.
Places == {<<0, owned>>, <<1, away>>, <<2, IdleAll>>}
          \cup {<<3 + i, ListOf(i)>> : i \in {x \in ListIndices : heads[x] # Nil}}

(***************************************************************************)
(* Allocate, Release, Recycle, ConsumeIdleQueue: a message that is not     *)
(* deleted is in one place, and none is lost: the lists end, share no      *)
(* message, and hold none that a thread or the idle queue still has.  The  *)
(* destructor leaves only what the two threads never gave back.            *)
(***************************************************************************)
EachInOnePlace ==
  /\ UNION {P[2] : P \in Places} = live
  /\ \A i \in ListIndices : heads[i] # Nil => Walk(heads[i])[Cardinality(Msgs)] = Nil
  /\ \A P, Q \in Places : P # Q => P[2] \cap Q[2] = {}
  /\ Cardinality(IdleAll) = Len(idle.items) - idle.taken
  /\ opc = "closed" => live = owned \cup away

(***************************************************************************)
(* Allocate makes a new message only if none of that list was waiting in   *)
(* the idle queue when it began: what the other thread recycled is reused, *)
(* and has room for the new request, whatever it was first made for.       *)
(***************************************************************************)
ReusedBeforeNew ==
  /\ opc = "pick" /\ heads[ListIndex(opWant)] = Nil =>
       \A m \in wasIdle : index[m] # ListIndex(opWant)
  /\ \A m \in owned \cup away : capacity[m] >= asked[m]

(***************************************************************************)
(* Allocate: the list of a capacity lies in the array, its messages hold   *)
(* the request and are at most twice as big (64 for the small): the de     *)
(* Bruijn table gives the highest bit ("find log base 2",                  *)
(* message_allocator.cpp:41-54).  And what a thread holds is of that list, *)
(* wherever the message came from.                                         *)
(***************************************************************************)
ListFits ==
  /\ EachFits
  /\ \A m \in owned \cup away :
       ~TooBig(asked[m]) =>
         index[m] = ListIndex(asked[m]) /\ capacity[m] = ListCapacity(index[m])
=============================================================================
