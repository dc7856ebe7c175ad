------------------------------ MODULE PgmSender ------------------------------
(***************************************************************************)
(* PGMSender of src/pgm_sender.cc.  One thread pushes messages into a pipe *)
(* and sends commands; the I/O thread, driven by its Select, reads the     *)
(* pipe, fills packets and hands them to the PGM socket.  Select and the   *)
(* openpgm socket are outside of the repository: they are what the sender  *)
(* sees of them.  Bytes are numbered as they are pushed.                   *)
(***************************************************************************)
EXTENDS Channel

CONSTANTS Sizes,        \* the sizes of messages
          MaxBytes,     \* bound on what is pushed
          CacheSize,    \* cache_size_
          Capacity,     \* out_buffer_size_ without the header
          MaxBatch,     \* kMaxMessagePerTime
          IndexMod, Options

VARIABLES
  upc, cache, rest,     \* pushing thread: where it is, cache_msg_, what it still has to push
  pushed,               \* how many bytes were pushed
  pipe, ended,          \* ui_pipe_ to io_pipe_, and the latter's peer_terminated_
  commands,             \* the commands on their way to the I/O thread
  plugged, pollout,     \* whether the handles are in Select, and polled for output
  hasTx, hasRx, armed,  \* has_tx_timer_, has_rx_timer_, and the timers Select has
  ipc,                  \* I/O thread: in Select, filling a packet, sending it
  data, header,         \* OutEvent's packet so far, and its first two bytes
  batch, reads,         \* what the serializer took since its last Flush, in how many reads
  current, curOffset,   \* current_ with cur_size_, current_offset_
  packet, nextIndex,    \* out_buffer_ while write_size_ is not zero, next_index_
  sent                  \* the packets the socket took

uiVars == <<upc, cache, rest, pushed>>
selectVars == <<plugged, pollout, hasTx, hasRx, armed>>
fillVars == <<data, header, batch, reads, current, curOffset>>
vars == <<uiVars, pipe, ended, commands, selectVars, ipc, fillVars, packet, nextIndex, sent>>

Stream == INSTANCE PacketStream WITH packets <- sent

\* A place in a packet can be told from "none"; the largest TPDU is 1500 (pgm_socket.cc).
ASSUME SenderAssumption ==
  /\ Sizes \subseteq Nat \ {0}
  /\ {MaxBytes, CacheSize, Capacity, MaxBatch, IndexMod} \subseteq Nat \ {0}
  /\ Options \in Nat
  /\ Capacity <= Stream!kNonExistOffset

NoPacket == [data |-> <<>>]
Delimiter == <<>>       \* Terminate's nullptr; a message is a non-empty sequence of bytes

(***************************************************************************)
(* upc = "command": Write asked for a wake-up, the command comes next      *)
(* upc = "rest":    the cached message is written, the new one comes next  *)
(* upc = "closing": Stop sent its command and terminates the pipe next     *)
(***************************************************************************)
TypeOK ==
  /\ upc \in {"new", "idle", "command", "rest", "closing", "stopped"}
  /\ Len(cache) <= CacheSize /\ pushed \in 0..MaxBytes
  /\ \A t \in {"tx", "rx"} : armed[t] \in {0, 1}
  /\ ipc \in {"idle", "fill", "send"}
  /\ Len(data) <= Capacity
  /\ reads \in 0..(MaxBatch - 1)
  /\ current = <<>> => curOffset = 0
  /\ curOffset \in 0..Len(current)
  /\ nextIndex \in 0..(IndexMod - 1)
  /\ Len(packet.data) <= Capacity

Init ==
  /\ upc = "new" /\ cache = <<>> /\ rest = <<>> /\ pushed = 0
  /\ pipe = EmptyChannel /\ ended = FALSE
  /\ commands = <<>>
  /\ plugged = FALSE /\ pollout = FALSE
  /\ hasTx = FALSE /\ hasRx = FALSE /\ armed = [t \in {"tx", "rx"} |-> 0]
  /\ ipc = "idle"
  /\ data = <<>> /\ header = Stream!Header(Stream!kNonExistOffset)
  /\ batch = <<>> /\ reads = 0
  /\ current = <<>> /\ curOffset = 0
  /\ packet = NoPacket /\ nextIndex = 0
  /\ sent = <<>>

-----------------------------------------------------------------------------
(* The pushing thread. *)

SendCommand(type) == commands' = Append(commands, type)

Start ==
  /\ upc = "new" /\ upc' = "idle"
  /\ SendCommand("plug")
  /\ UNCHANGED <<cache, rest, pushed, pipe, ended, selectVars, ipc, fillVars, packet,
                 nextIndex, sent>>

\* pipe_t::Write: it succeeds, as only Stop terminates this end.
WritePipe(msg) ==
  /\ pipe' = Flushed(Put(pipe, msg, FALSE))
  /\ upc' = IF ~FlushResult(Put(pipe, msg, FALSE)) THEN "command"
            ELSE IF rest' = <<>> THEN "idle" ELSE "rest"

\* The end of PushMessage, when no message is cached.
Place(bytes) ==
  /\ rest' = <<>>
  /\ \/ Len(bytes) >= CacheSize /\ WritePipe(bytes) /\ cache' = <<>>
     \/ Len(bytes) < CacheSize /\ cache' = bytes /\ upc' = "idle" /\ UNCHANGED pipe

PushMessage(size) ==
  LET bytes == [i \in 1..size |-> pushed + i] IN
    /\ upc = "idle" /\ pushed + size <= MaxBytes
    /\ \/ cache = <<>> /\ Place(bytes)
       \/ /\ cache # <<>> /\ Len(cache) + size <= CacheSize
          /\ cache' = cache \o bytes
          /\ UNCHANGED <<pipe, rest, upc>>
       \/ /\ cache # <<>> /\ Len(cache) + size > CacheSize
          /\ rest' = bytes /\ WritePipe(cache) /\ cache' = <<>>
    /\ pushed' = pushed + size
    /\ UNCHANGED <<ended, commands, selectVars, ipc, fillVars, packet, nextIndex, sent>>

PushRest ==
  /\ upc = "rest"
  /\ Place(rest)
  /\ UNCHANGED <<pushed, ended, commands, selectVars, ipc, fillVars, packet, nextIndex, sent>>

EndPush ==
  /\ upc = "idle" /\ cache # <<>>
  /\ UNCHANGED rest /\ WritePipe(cache) /\ cache' = <<>>
  /\ UNCHANGED <<pushed, ended, commands, selectVars, ipc, fillVars, packet, nextIndex, sent>>

\* Bug: the wake-up is not passed on.
DropWakeUp ==
  /\ upc = "command"
  /\ upc' = IF rest = <<>> THEN "idle" ELSE "rest"
  /\ UNCHANGED <<commands, cache, rest, pushed, pipe, ended, selectVars, ipc, fillVars,
                 packet, nextIndex, sent>>

\* The reader is asleep: TYPE_RESTART_OUTPUT.
AwakePeer ==
  /\ upc = "command"
  /\ SendCommand("restart")
  /\ upc' = IF rest = <<>> THEN "idle" ELSE "rest"
  /\ UNCHANGED <<cache, rest, pushed, pipe, ended, selectVars, ipc, fillVars, packet,
                 nextIndex, sent>>

\* What is still cached then is never written.
Stop ==
  /\ upc = "idle"
  /\ SendCommand("terminate")
  /\ upc' = "closing"
  /\ UNCHANGED <<cache, rest, pushed, pipe, ended, selectVars, ipc, fillVars, packet,
                 nextIndex, sent>>

StopPipe ==
  /\ upc = "closing" /\ upc' = "stopped"
  /\ pipe' = Flushed(Put(pipe, Delimiter, FALSE))
  /\ UNCHANGED <<cache, rest, pushed, ended, commands, selectVars, ipc, fillVars, packet,
                 nextIndex, sent>>

UiStep ==
  \/ Start \/ (\E size \in Sizes : PushMessage(size)) \/ PushRest \/ EndPush
  \/ AwakePeer \/ Stop \/ StopPipe

-----------------------------------------------------------------------------
(* The I/O thread between two events. *)

\* OutEvent begins: with a packet still unsent it sends, else it fills one.
BeginOutEvent ==
  /\ ipc' = IF packet = NoPacket THEN "fill" ELSE "send"
  /\ data' = <<>> /\ header' = Stream!Header(Stream!kNonExistOffset)
  /\ UNCHANGED <<batch, reads, current, curOffset, packet, nextIndex, sent, pipe, ended>>

PollOut ==
  /\ ipc = "idle" /\ plugged /\ pollout
  /\ BeginOutEvent
  /\ UNCHANGED <<uiVars, commands, selectVars>>

TakeCommand(type) ==
  /\ ipc = "idle" /\ commands # <<>> /\ Head(commands) = type
  /\ commands' = Tail(commands)

Plug ==
  /\ TakeCommand("plug")
  /\ plugged' = TRUE /\ pollout' = TRUE
  /\ UNCHANGED <<uiVars, pipe, ended, hasTx, hasRx, armed, ipc, fillVars, packet, nextIndex,
                 sent>>

RestartOutput ==
  /\ TakeCommand("restart")
  /\ pollout' = TRUE
  /\ BeginOutEvent
  /\ UNCHANGED <<uiVars, plugged, hasTx, hasRx, armed>>

\* Bug: a running timer is left in Select.
TerminateLeavesTimers ==
  /\ TakeCommand("terminate")
  /\ plugged' = FALSE /\ pollout' = FALSE
  /\ hasTx' = FALSE /\ hasRx' = FALSE
  /\ UNCHANGED <<armed, uiVars, pipe, ended, ipc, fillVars, packet, nextIndex, sent>>

Terminate ==
  /\ TakeCommand("terminate")
  /\ plugged' = FALSE /\ pollout' = FALSE
  /\ hasTx' = FALSE /\ hasRx' = FALSE
  /\ armed' = [tx |-> armed.tx - (IF hasTx THEN 1 ELSE 0),
               rx |-> armed.rx - (IF hasRx THEN 1 ELSE 0)]
  /\ UNCHANGED <<uiVars, pipe, ended, ipc, fillVars, packet, nextIndex, sent>>

\* ProcessUpstream, with n rx timers in Select: try again later, or be done.
ProcessUpstream(n) ==
  /\ \E again \in BOOLEAN :
       hasRx' = again /\ armed' = [armed EXCEPT !.rx = n + IF again THEN 1 ELSE 0]
  /\ UNCHANGED <<uiVars, pipe, ended, commands, plugged, pollout, hasTx, ipc, fillVars,
                 packet, nextIndex, sent>>

InEvent ==
  /\ ipc = "idle" /\ plugged
  /\ ProcessUpstream(armed.rx - IF hasRx THEN 1 ELSE 0)

RxTimerEvent ==
  /\ ipc = "idle" /\ armed.rx > 0
  /\ ProcessUpstream(armed.rx - 1)

TxTimerEvent ==
  /\ ipc = "idle" /\ armed.tx > 0
  /\ armed' = [armed EXCEPT !.tx = @ - 1]
  /\ hasTx' = FALSE
  /\ pollout' = TRUE
  /\ BeginOutEvent
  /\ UNCHANGED <<uiVars, commands, plugged, hasRx>>

-----------------------------------------------------------------------------
(* The I/O thread inside OutEvent. *)

\* A block goes into the packet as far as it fits.
Copy ==
  /\ ipc = "fill" /\ Len(data) < Capacity /\ current # <<>>
  /\ LET room == Capacity - Len(data)
         left == Len(current) - curOffset
         wbytes == IF left > room THEN room ELSE left
         done == curOffset + wbytes >= Len(current)
     IN  /\ data' = data \o SubSeq(current, curOffset + 1, curOffset + wbytes)
         /\ current' = IF done THEN <<>> ELSE current
         /\ curOffset' = IF done THEN 0 ELSE curOffset + wbytes
  /\ UNCHANGED <<uiVars, pipe, ended, commands, selectVars, ipc, header, batch, reads,
                 packet, nextIndex, sent>>

\* serializer_->Flush: what it took becomes one block.
FlushBlock(bytes) ==
  /\ current' = [i \in DOMAIN bytes |-> Stream!Byte(bytes[i], i = 1)]
  /\ batch' = <<>> /\ reads' = 0

Reading == ipc = "fill" /\ Len(data) < Capacity /\ current = <<>>

\* Bug: the offset of the last block that begins in the packet.
SetOffsetAlways == header' = Stream!Header(Len(data))

\* The packet's offset is set by the first message read for it.
SetOffset ==
  header' = IF Stream!OffsetOf(header) = Stream!kNonExistOffset
              THEN Stream!Header(Len(data)) ELSE header

\* Read(0) finds a message; after MaxBatch of them the serializer is flushed.
ReadMessage ==
  /\ Reading
  /\ ~ended /\ HasItem(pipe) /\ NextItem(pipe) # Delimiter
  /\ pipe' = Take(pipe)
  /\ SetOffset
  /\ \/ reads + 1 = MaxBatch /\ FlushBlock(batch \o NextItem(pipe))
     \/ /\ reads + 1 < MaxBatch
        /\ batch' = batch \o NextItem(pipe) /\ reads' = reads + 1
        /\ UNCHANGED current
  /\ UNCHANGED <<uiVars, ended, commands, selectVars, ipc, data, curOffset, packet,
                 nextIndex, sent>>

\* Bug: output is not polled any more although there was data to send.
CloseAndForgetPollout ==
  /\ pollout' = FALSE
  /\ \/ /\ data = <<>>
        /\ ipc' = "idle"
        /\ UNCHANGED <<packet, nextIndex>>
     \/ /\ data # <<>>
        /\ packet' = [header |-> header, index |-> nextIndex, data |-> data]
        /\ nextIndex' = (nextIndex + 1) % IndexMod
        /\ ipc' = "send"

\* The loop ends: stop polling for output, or complete the packet.
ClosePacket ==
  \/ /\ data = <<>>
     /\ pollout' = FALSE /\ ipc' = "idle"
     /\ UNCHANGED <<packet, nextIndex>>
  \/ /\ data # <<>>
     /\ packet' = [header |-> header, index |-> nextIndex, data |-> data]
     /\ nextIndex' = (nextIndex + 1) % IndexMod
     /\ ipc' = "send"
     /\ UNCHANGED pollout

\* Read(0) finds nothing, or the end: flush what the serializer has, if anything.
ReadNothing ==
  /\ Reading
  /\ \/ ended /\ UNCHANGED <<pipe, ended>>
     \/ ~ended /\ ~HasItem(pipe) /\ pipe' = Checked(pipe) /\ UNCHANGED ended
     \/ /\ ~ended /\ HasItem(pipe) /\ NextItem(pipe) = Delimiter
        /\ pipe' = Take(pipe) /\ ended' = TRUE
  /\ \/ batch # <<>> /\ FlushBlock(batch) /\ UNCHANGED <<ipc, pollout, packet, nextIndex>>
     \/ batch = <<>> /\ ClosePacket /\ UNCHANGED <<batch, reads, current>>
  /\ UNCHANGED <<uiVars, commands, plugged, hasTx, hasRx, armed, data, header, curOffset, sent>>

PacketFull ==
  /\ ipc = "fill" /\ Len(data) = Capacity
  /\ ClosePacket
  /\ UNCHANGED <<uiVars, pipe, ended, commands, plugged, hasTx, hasRx, armed, fillVars, sent>>

\* A tx timer that is still running is cancelled, and output polled again.
CancelTx ==
  /\ armed' = [armed EXCEPT !.tx = @ - IF hasTx THEN 1 ELSE 0]
  /\ pollout' = (pollout \/ hasTx)
  /\ hasTx' = FALSE

SendAll ==
  /\ ipc = "send" /\ ipc' = "idle"
  /\ CancelTx
  /\ sent' = Append(sent, packet) /\ packet' = NoPacket
  /\ UNCHANGED <<uiVars, pipe, ended, commands, plugged, hasRx, fillVars, nextIndex>>

\* VSS_BUSY: the socket would block; output stays polled.
SendBusy ==
  /\ ipc = "send" /\ ipc' = "idle"
  /\ CancelTx
  /\ UNCHANGED <<uiVars, pipe, ended, commands, plugged, hasRx, fillVars, packet, nextIndex,
                 sent>>

\* VSS_NOMEM: the rate limit is reached; try again when the timer expires.
SendLimited ==
  /\ ipc = "send" /\ ipc' = "idle"
  /\ armed' = [armed EXCEPT !.tx = @ + IF hasTx THEN 0 ELSE 1]
  /\ hasTx' = TRUE
  /\ pollout' = FALSE
  /\ UNCHANGED <<uiVars, pipe, ended, commands, plugged, hasRx, fillVars, packet, nextIndex,
                 sent>>

OutEventStep ==
  Copy \/ ReadMessage \/ ReadNothing \/ PacketFull \/ SendAll \/ SendBusy \/ SendLimited

Next ==
  \/ UiStep
  \/ PollOut \/ Plug \/ RestartOutput \/ Terminate
  \/ InEvent \/ RxTimerEvent \/ TxTimerEvent
  \/ OutEventStep

Spec == Init /\ [][Next]_vars

(***************************************************************************)
(* A thread inside a call goes on; Select serves what is ready; the socket *)
(* does not refuse for ever.                                               *)
(***************************************************************************)
Fairness ==
  /\ WF_vars(AwakePeer) /\ WF_vars(PushRest)
  /\ WF_vars(Plug) /\ WF_vars(RestartOutput) /\ WF_vars(PollOut) /\ WF_vars(TxTimerEvent)
  /\ WF_vars(OutEventStep) /\ SF_vars(SendAll)

FairSpec == Spec /\ Fairness

-----------------------------------------------------------------------------
(* Properties. *)

(***************************************************************************)
(* OutEvent, RestartOutput: when output is not polled and no timer will    *)
(* poll it, everything there is to send was sent, or a wake-up is coming.  *)
(***************************************************************************)
NothingStuck ==
  plugged /\ ipc = "idle" /\ ~pollout /\ ~hasTx /\ upc # "command"
    /\ (\A i \in DOMAIN commands : commands[i] # "restart") =>
      packet = NoPacket /\ current = <<>> /\ (HasItem(pipe) => NextItem(pipe) = Delimiter)

(***************************************************************************)
(* has_tx_timer_ and has_rx_timer_ say which timers Select has: none is    *)
(* cancelled that is not there, set twice, or left behind by Terminate.    *)
(***************************************************************************)
TimersTracked ==
  /\ armed.tx = (IF hasTx THEN 1 ELSE 0) /\ armed.rx = (IF hasRx THEN 1 ELSE 0)
  /\ ~plugged => armed.tx = 0 /\ armed.rx = 0

(***************************************************************************)
(* What the socket takes is the stream that was pushed, each byte once and *)
(* in order, with running indices and true offsets, however the packets,   *)
(* the blocks and the retries fall.                                        *)
(***************************************************************************)
ImplementsPacketStream == Stream!StreamSpec

BytesSent == IF sent = <<>> THEN 0
             ELSE LET last == sent[Len(sent)].data IN last[Len(last)].at

(***************************************************************************)
(* After EndPush everything pushed is sent in the end, unless the sender   *)
(* is stopped.                                                             *)
(***************************************************************************)
PushedIsSent ==
  \A n \in 1..MaxBytes :
    (upc = "idle" /\ cache = <<>> /\ pushed = n)
      ~> (BytesSent >= n \/ upc \in {"closing", "stopped"})
=============================================================================
