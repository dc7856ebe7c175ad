----------------------------- MODULE InputService -----------------------------
(***************************************************************************)
(* sz_binary_input_service_t on its socket_t: it connects to the exchange, *)
(* logs on, reads, keeps the session alive and connects again.  Handlers   *)
(* run one after the other, in the order in which boost asio (outside of   *)
(* the repository) queued the completions of operations and timers.        *)
(***************************************************************************)
EXTENDS Integers, Sequences

CONSTANTS MaxConnects,  \* bound on the attempts to connect
          MaxWrites     \* bound on the writes outstanding

ASSUME ServiceAssumption == {MaxConnects, MaxWrites} \subseteq Nat \ {0}

VARIABLES
  user,                 \* "new", "running" after run(), "stopped" after stop()
  alive,                \* FALSE once a null socket was dereferenced
  link,                 \* socket_input_ptr_
  reads, writes,        \* the operations outstanding on it, writes with their buffer
  armed,                \* the timers somebody waits for
  queue,                \* the completions whose handlers have yet to run
  waitBuf,              \* the encoder's wait_buffer_ptr_
  held,                 \* what the decoder's buffer holds
  session, inside,      \* the peer: where the session is, and whether it has
                        \* sent a message only in part
  attempts,             \* how many times async_connect was called
  raced                 \* history: the timers that were Crowded

peerVars == <<session, inside>>
vars == <<user, alive, link, reads, writes, armed, queue, waitBuf, held, session, inside,
          attempts, raced>>

Timers == {"reconnect", "heartbeat"}
Read(msg, begins, ends) ==
  [type |-> "read", old |-> FALSE, msg |-> msg, begins |-> begins, ends |-> ends]
Done(type) == [type |-> type, old |-> FALSE]

(***************************************************************************)
(* link: "broken" is a connection that ended or was never made, "closed"   *)
(*       a socket that doClose has closed or nobody has opened yet         *)
(* held: a part of a message of this connection or of an "old" one, or     *)
(*       "garbage" when the decoder is not where the stream is             *)
(***************************************************************************)
TypeOK ==
  /\ user \in {"new", "running", "stopped"} /\ alive \in BOOLEAN
  /\ link \in {"closed", "connecting", "open", "broken"}
  /\ link = "closed" => reads = 0 /\ writes = <<>>
  /\ reads \in Nat /\ attempts \in Nat
  /\ armed \subseteq Timers
  /\ waitBuf \in {0, 1}
  /\ held \in {"nothing", "new", "old", "garbage"}
  /\ session \in {"none", "asked", "on", "off"} /\ inside \in BOOLEAN
  /\ raced \subseteq Timers
  /\ session # "none" => link \in {"open", "broken"}

Init ==
  /\ user = "new" /\ alive = TRUE
  /\ link = "closed" /\ reads = 0 /\ writes = <<>>
  /\ armed = {} /\ queue = <<>>
  /\ waitBuf = 0 /\ held = "nothing"
  /\ session = "none" /\ inside = FALSE
  /\ attempts = 0 /\ raced = {}

(***************************************************************************)
(* The timers that expired with something else to handle beside them: they *)
(* can no longer be cancelled, and what lies behind them may be of a       *)
(* connection that the timer's handler gives up.                           *)
(***************************************************************************)
Crowded(q) == {t \in Timers : Len(q) > 1 /\ \E i \in DOMAIN q : q[i].type = t}
Note == raced' = raced \union Crowded(queue')

\* What the decoder holds when the connection is given up.
Former(h) == IF h = "new" THEN "old" ELSE h

-----------------------------------------------------------------------------
(* Calls of the service and its socket, used by the handlers. *)

\* Whether an operation that is started fails at once, and its completion.
Refused == CASE link = "closed" -> {TRUE} [] link = "connecting" -> BOOLEAN [] OTHER -> {FALSE}
Failure(type, refused) == IF refused THEN <<Done(type)>> ELSE <<>>

\* The writes that are outstanding once the encoder has used waitBuf.
Overwritten ==
  [i \in DOMAIN writes |-> [writes[i] EXCEPT !.torn = @ \/ writes[i].buf = waitBuf]]

\* Bug: flush hands out the buffer and does not swap it.
SendFromOneBuffer(type, refused) ==
  /\ writes' = IF refused THEN Overwritten
               ELSE Append(Overwritten, [type |-> type, buf |-> waitBuf, torn |-> FALSE])
  /\ UNCHANGED waitBuf

\* encode, flush and async_write.
Send(type, refused) ==
  /\ writes' = IF refused THEN Overwritten
               ELSE Append(Overwritten, [type |-> type, buf |-> waitBuf, torn |-> FALSE])
  /\ waitBuf' = 1 - waitBuf

StartRead(refused) == reads' = reads + IF refused THEN 0 ELSE 1

\* Closing the socket aborts what is outstanding; the handlers ignore that.
Abort ==
  /\ reads' = 0 /\ writes' = <<>>
  /\ session' = "none" /\ inside' = FALSE

\* socket_t::connect; async_connect closes the socket before it opens it again.
Connect(rest) ==
  /\ link' = "connecting" /\ attempts' = attempts + 1
  /\ Abort
  /\ queue' = [i \in DOMAIN rest |-> [rest[i] EXCEPT !.old = TRUE]]

\* The endpoint cannot be resolved: handleConnect is called with the error.
CannotResolve(rest) ==
  /\ queue' = rest
  /\ UNCHANGED <<link, attempts, reads, writes, peerVars>>

-----------------------------------------------------------------------------
(* The user. *)

Run ==
  /\ user = "new" /\ user' = "running"
  /\ \/ Connect(queue) /\ UNCHANGED armed
     \/ CannotResolve(queue) /\ armed' = {"reconnect"}
  /\ UNCHANGED <<alive, waitBuf, held>> /\ Note

Stop ==
  /\ user = "running" /\ user' = "stopped"
  /\ queue' = Append(queue, Done("close"))
  /\ UNCHANGED <<alive, link, reads, writes, armed, waitBuf, held, peerVars, attempts>> /\ Note

-----------------------------------------------------------------------------
(* The network and asio's reactor. *)

Finish(entry) == queue' = Append(queue, entry)

ConnectSucceeds ==
  /\ alive /\ link = "connecting" /\ link' = "open"
  /\ Finish(Done("connect"))
  /\ UNCHANGED <<user, alive, reads, writes, armed, waitBuf, held, peerVars, attempts>> /\ Note

ConnectFails ==
  /\ alive /\ link = "connecting" /\ link' = "broken"
  /\ Finish(Done("connectError"))
  /\ UNCHANGED <<user, alive, reads, writes, armed, waitBuf, held, peerVars, attempts>> /\ Note

PeerCloses ==
  /\ link = "open" /\ link' = "broken"
  /\ UNCHANGED <<user, alive, reads, writes, armed, queue, waitBuf, held, peerVars, attempts,
                 raced>>

\* The peer's bytes: at most one message that matters, maybe the start of another.
ReadSucceeds ==
  /\ alive /\ link = "open" /\ reads > 0 /\ reads' = reads - 1
  /\ \E msg \in {"none", "logon", "logout"}, ends \in BOOLEAN :
       /\ msg = "logon" => session = "asked"
       /\ msg = "logout" => session \in {"asked", "on"}
       /\ session' = CASE msg = "logon" -> "on" [] msg = "logout" -> "off" [] OTHER -> session
       /\ Finish(Read(msg, inside, ends))
       /\ inside' = ends
  /\ UNCHANGED <<user, alive, link, writes, armed, waitBuf, held, attempts>> /\ Note

ReadFails ==
  /\ alive /\ link = "broken" /\ reads > 0 /\ reads' = reads - 1
  /\ Finish(Done("readError"))
  /\ UNCHANGED <<user, alive, link, writes, armed, waitBuf, held, peerVars, attempts>> /\ Note

\* handleWrite does nothing then, so its completion is not queued.
WriteSucceeds ==
  /\ alive /\ link = "open" /\ writes # <<>> /\ writes' = Tail(writes)
  /\ session' = IF session = "none" /\ Head(writes).type = "logon" THEN "asked" ELSE session
  /\ UNCHANGED <<user, alive, link, reads, armed, queue, waitBuf, held, inside, attempts, raced>>

WriteFails ==
  /\ alive /\ link = "broken" /\ writes # <<>> /\ writes' = Tail(writes)
  /\ Finish(Done("writeError"))
  /\ UNCHANGED <<user, alive, link, reads, armed, waitBuf, held, peerVars, attempts>> /\ Note

Expire(timer) ==
  /\ alive /\ timer \in armed /\ armed' = armed \ {timer}
  /\ timer = "reconnect" =>
       attempts + Len(SelectSeq(queue, LAMBDA e : e.type = "reconnect")) < MaxConnects
  /\ timer = "heartbeat" => Len(writes) < MaxWrites
  /\ Finish(Done(timer))
  /\ UNCHANGED <<user, alive, link, reads, writes, waitBuf, held, peerVars, attempts>> /\ Note

-----------------------------------------------------------------------------
(* The handlers. *)

Handle(type) == alive /\ queue # <<>> /\ Head(queue).type = type
Rest == Tail(queue)

\* connnectHandle and handleConnect: log on and read.
HandleConnect ==
  /\ Handle("connect") /\ link # "closed"
  /\ \E noWrite, noRead \in Refused :
       /\ Send("logon", noWrite) /\ StartRead(noRead)
       /\ queue' = Rest \o Failure("writeError", noWrite) \o Failure("readError", noRead)
  /\ UNCHANGED <<user, alive, link, armed, held, peerVars, attempts>> /\ Note

\* connnectHandle: set_option fails, the socket is reset, and sendLogon writes to it.
HandleConnectNull ==
  /\ Handle("connect") /\ link # "closed"
  /\ alive' = FALSE
  /\ UNCHANGED <<user, link, reads, writes, armed, queue, waitBuf, held, peerVars, attempts,
                 raced>>

HandleConnectError ==
  /\ Handle("connectError") /\ link # "closed"
  /\ armed' = armed \union {"reconnect"}
  /\ queue' = Rest
  /\ UNCHANGED <<user, alive, link, reads, writes, waitBuf, held, peerVars, attempts>> /\ Note

\* async_connect's handler finds the socket closed: operation_aborted.
HandleConnectClosed ==
  /\ (Handle("connect") \/ Handle("connectError")) /\ link = "closed"
  /\ queue' = Rest
  /\ UNCHANGED <<user, alive, link, reads, writes, armed, waitBuf, held, peerVars, attempts>>
  /\ Note

\* What the decoder holds after these bytes, when it was where they begin.
Decoded(e) == IF e.ends THEN (IF e.old THEN "old" ELSE "new") ELSE "nothing"
InStep(e) == held = IF ~e.begins THEN "nothing" ELSE IF e.old THEN "old" ELSE "new"

\* Bug: a logout leaves the heartbeat timer alone.
LogoutKeepsHeartbeat(msg) ==
  armed' = CASE msg = "logon" -> armed \union {"heartbeat"}
             [] msg = "logout" -> armed \union {"reconnect"}
             [] OTHER -> armed

\* handlemessage_t
Message(msg) ==
  armed' = CASE msg = "logon" -> armed \union {"heartbeat"}
             [] msg = "logout" -> (armed \ {"heartbeat"}) \union {"reconnect"}
             [] OTHER -> armed

\* Bytes out of step mean nothing; a decoder that gave them up may be back in step.
HandleRead ==
  LET e == Head(queue) IN
    /\ Handle("read")
    /\ \/ InStep(e) /\ held' = Decoded(e) /\ Message(e.msg)
       \/ /\ ~InStep(e) /\ UNCHANGED armed
          /\ held' \in {"garbage"} \union (IF e.ends THEN {} ELSE {"nothing"})
    /\ \E noRead \in Refused :
         StartRead(noRead) /\ queue' = Rest \o Failure("readError", noRead)
    /\ UNCHANGED <<user, alive, link, writes, waitBuf, peerVars, attempts>> /\ Note

\* Bug: the heartbeats end and no new connection is planned.
HandleErrorHalf(type) ==
  /\ Handle(type)
  /\ armed' = armed \ {"heartbeat"}
  /\ queue' = Rest
  /\ UNCHANGED <<user, alive, link, reads, writes, waitBuf, held, peerVars, attempts>> /\ Note

\* The error branches of handleRead and handleWrite.
HandleError(type) ==
  /\ Handle(type)
  /\ armed' = (armed \ {"heartbeat"}) \union {"reconnect"}
  /\ queue' = Rest
  /\ UNCHANGED <<user, alive, link, reads, writes, waitBuf, held, peerVars, attempts>> /\ Note

\* Bug: what the decoder holds of the old connection is not thrown away.
KeepDecoder == waitBuf' = 0 /\ held' = Former(held)

ResetCodec == waitBuf' = 0 /\ held' = "nothing"

\* A codec reset without a new connection is a race too, with a read outstanding.
HandleReconnect ==
  /\ Handle("reconnect")
  /\ ResetCodec
  /\ \/ /\ Connect(Rest)
        /\ armed' = armed \ {"reconnect"}
        /\ Note
     \/ /\ CannotResolve(Rest)
        /\ armed' = armed \union {"reconnect"}
        /\ raced' = raced \union Crowded(queue') \union
                    (IF reads > 0 THEN {"reconnect"} ELSE {})
  /\ UNCHANGED <<user, alive>>

\* The timer is set again, and a heartbeat sent if nothing came for 3 seconds.
HandleHeartbeat ==
  /\ Handle("heartbeat")
  /\ armed' = armed \union {"heartbeat"}
  /\ \/ queue' = Rest /\ UNCHANGED <<writes, waitBuf>>
     \/ \E noWrite \in Refused :
          Send("heartbeat", noWrite) /\ queue' = Rest \o Failure("writeError", noWrite)
  /\ UNCHANGED <<user, alive, link, reads, held, peerVars, attempts>> /\ Note

DoClose ==
  /\ Handle("close")
  /\ link' = "closed" /\ Abort
  /\ queue' = [i \in DOMAIN Rest |-> [Rest[i] EXCEPT !.old = TRUE]]
  /\ held' = Former(held)
  /\ UNCHANGED <<user, alive, armed, waitBuf, attempts>> /\ Note

Next ==
  \/ Run \/ Stop
  \/ ConnectSucceeds \/ ConnectFails \/ PeerCloses
  \/ ReadSucceeds \/ ReadFails \/ WriteSucceeds \/ WriteFails
  \/ \E timer \in Timers : Expire(timer)
  \/ HandleConnect \/ HandleConnectNull \/ HandleConnectError \/ HandleConnectClosed
  \/ HandleRead \/ HandleError("readError") \/ HandleError("writeError")
  \/ HandleReconnect \/ HandleHeartbeat \/ DoClose

Spec == Init /\ [][Next]_vars

-----------------------------------------------------------------------------
(* Properties. *)

(***************************************************************************)
(* handleConnect, handleRead, handleWrite, handlemessage_t: until it is    *)
(* stopped the service always has something left that makes it go on or    *)
(* connect again, however the errors and the timers fall.                  *)
(***************************************************************************)
NeverSilent ==
  user = "running" /\ alive =>
    \/ link = "connecting" \/ reads > 0 \/ "reconnect" \in armed
    \/ \E i \in DOMAIN queue :
         queue[i].type \in {"connect", "connectError", "read", "readError", "reconnect"}

(***************************************************************************)
(* doRead, handleTimer: one read at a time fills inputBuffer_, and the     *)
(* decoder is where the stream is, unless a timer that had expired met     *)
(* another completion.                                                     *)
(***************************************************************************)
ReadsInOrder ==
  \/ "reconnect" \in raced
  \/ /\ reads + (IF \E i \in DOMAIN queue : queue[i].type \in {"read", "readError"}
                   THEN 1 ELSE 0) <= 1
     /\ held # "garbage" /\ (held = "old" => link \in {"closed", "broken"})

(***************************************************************************)
(* handleRead, handleWrite, handlemessage_t: heartbeats are for a session  *)
(* that was logged on; nothing else leaves their timer armed, unless one   *)
(* of the two timers met another completion.                               *)
(***************************************************************************)
HeartbeatAfterLogon ==
  raced # {} \/ user = "stopped" \/ ("heartbeat" \in armed => session \in {"on", "off"})

(***************************************************************************)
(* szBinary_encoder_t's two buffers: the bytes of a write are overwritten  *)
(* before it completes only when two more messages were sent meanwhile.    *)
(***************************************************************************)
WritesKept ==
  raced # {} \/ \A i \in DOMAIN writes : writes[i].torn => Len(writes) >= i + 2
=============================================================================
