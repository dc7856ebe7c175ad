----------------------------- MODULE PgmReceiver -----------------------------
(***************************************************************************)
(* PGMReceiver of src/pgm_receiver.cc on the receiving side of PGMSocket,  *)
(* fed by senders that each send a PacketStream under an identifier (TSI)  *)
(* of their own.  openpgm, outside of the repository, delivers the packets *)
(* of a sender in order; what it cannot repair is lost and reported.       *)
(***************************************************************************)
EXTENDS Integers, Sequences, FiniteSets

CONSTANTS Tsis,         \* the senders
          MaxPackets,   \* bound on the packets a sender sends
          NetBound,     \* bound on the packets under way
          MsgvLen,      \* pgm_msgv_len_
          Capacity, IndexMod, Options

VARIABLES
  net, made,            \* the packets under way, and how many each sender has sent
  lossPending,          \* the transport has lost a packet and has not said so yet
  commands,             \* Start's and Stop's commands
  plugged, hasRx, armedRx,      \* handles in Select, has_rx_timer_, rx timers in Select
  rpc,                  \* in Select, or in InEvent's loop
  vector, processed,    \* pgm_msgv_ and pgm_msgv_processed_
  peers,                \* peers_
  lastParse             \* history: what the last call of Parse was about

netVars == <<net, made, lossPending>>
selectVars == <<commands, plugged, hasRx, armedRx>>
receiverVars == <<netVars, selectVars, rpc, vector, processed, peers, lastParse>>

Stream == INSTANCE PacketStream WITH packets <- <<>>

\* A place in a packet can be told from "none"; the largest TPDU is 1500 (pgm_socket.cc).
ASSUME ReceiverAssumption ==
  /\ {MaxPackets, NetBound, MsgvLen, IndexMod} \subseteq Nat \ {0}
  /\ Options \in Nat
  /\ Capacity \in 2..Stream!kNonExistOffset

NoParser == 0     \* a parser is known by the number of the last packet it was given

\* The packets a sender may send next: where the first block in it begins is open.
Packets(t) ==
  LET number == made[t] + 1
      first == (number - 1) * Capacity + 1
      bytes(B) == [i \in 1..Capacity |-> Stream!Byte(first + i - 1, i \in B)]
      offsets == IF number = 1 THEN {{1}} ELSE {{}, {1}, {Capacity}}
  IN  {[tsi |-> t, number |-> number, index |-> made[t] % IndexMod, data |-> bytes(B),
        header |-> Stream!Header(Stream!FirstBlock(bytes(B)))] : B \in offsets}

ReceiverTypeOK ==
  /\ Len(net) <= NetBound /\ made \in [Tsis -> 0..MaxPackets]
  /\ Len(vector) <= MsgvLen /\ processed \in 0..Len(vector)
  /\ rpc \in {"idle", "in"}
  /\ rpc = "idle" => vector = <<>>
  /\ DOMAIN peers \subseteq Tsis /\ Cardinality(DOMAIN peers) <= 1
  /\ \A t \in DOMAIN peers : /\ peers[t].lastIndex \in 0..(IndexMod - 1)
                             /\ peers[t].joined <=> peers[t].parser # NoParser

ReceiverInit ==
  /\ net = <<>> /\ made = [t \in Tsis |-> 0] /\ lossPending = FALSE
  /\ commands = <<"plug">>
  /\ plugged = FALSE /\ hasRx = FALSE /\ armedRx = 0
  /\ rpc = "idle" /\ vector = <<>> /\ processed = 0
  /\ peers = <<>>
  /\ lastParse = [fresh |-> TRUE, begins |-> TRUE, missing |-> 0, blind |-> FALSE]

-----------------------------------------------------------------------------
(* The senders and the transport. *)

SendPacket(t) ==
  /\ made[t] < MaxPackets /\ Len(net) < NetBound
  /\ \E p \in Packets(t) : net' = Append(net, p)
  /\ made' = [made EXCEPT ![t] = @ + 1]
  /\ UNCHANGED <<lossPending, selectVars, rpc, vector, processed, peers, lastParse>>

LosePacket ==
  /\ net # <<>>
  /\ net' = Tail(net)
  /\ lossPending' = TRUE
  /\ UNCHANGED <<made, selectVars, rpc, vector, processed, peers, lastParse>>

-----------------------------------------------------------------------------
(* Select's calls. *)

Plug ==
  /\ rpc = "idle" /\ commands = <<"plug">>
  /\ commands' = <<>>
  /\ plugged' = TRUE
  /\ UNCHANGED <<netVars, hasRx, armedRx, rpc, vector, processed, peers, lastParse>>

\* The user's Stop.
StopReceiver ==
  /\ plugged /\ commands = <<>>
  /\ commands' = <<"terminate">>
  /\ UNCHANGED <<netVars, plugged, hasRx, armedRx, rpc, vector, processed, peers, lastParse>>

Terminate ==
  /\ rpc = "idle" /\ commands = <<"terminate">>
  /\ commands' = <<>>
  /\ plugged' = FALSE
  /\ peers' = <<>>
  /\ armedRx' = armedRx - (IF hasRx THEN 1 ELSE 0) /\ hasRx' = FALSE
  /\ UNCHANGED <<netVars, rpc, vector, processed, lastParse>>

\* POLLIN on one of the two handles.
InEvent ==
  /\ rpc = "idle" /\ plugged
  /\ armedRx' = armedRx - (IF hasRx THEN 1 ELSE 0) /\ hasRx' = FALSE
  /\ rpc' = "in"
  /\ UNCHANGED <<netVars, commands, plugged, vector, processed, peers, lastParse>>

RxTimerEvent ==
  /\ rpc = "idle" /\ armedRx > 0
  /\ armedRx' = armedRx - 1 /\ hasRx' = FALSE
  /\ rpc' = "in"
  /\ UNCHANGED <<netVars, commands, plugged, vector, processed, peers, lastParse>>

-----------------------------------------------------------------------------
(* InEvent's loop: PGMSocket's Receive, then the packet. *)

\* Receive has handed out the whole batch: nothing this time.
BatchDone ==
  /\ rpc = "in" /\ vector # <<>> /\ processed = Len(vector)
  /\ vector' = <<>> /\ processed' = 0
  /\ rpc' = "idle"
  /\ UNCHANGED <<netVars, selectVars, peers, lastParse>>

\* PGM_IO_STATUS_TIMER_PENDING and _RATE_LIMITED: try again when the timer expires.
ReceiveLater ==
  /\ rpc = "in" /\ vector = <<>>
  /\ armedRx' = armedRx + 1 /\ hasRx' = TRUE
  /\ rpc' = "idle"
  /\ UNCHANGED <<netVars, commands, plugged, vector, processed, peers, lastParse>>

\* PGM_IO_STATUS_WOULD_BLOCK
ReceiveNothing ==
  /\ rpc = "in" /\ vector = <<>> /\ net = <<>>
  /\ rpc' = "idle"
  /\ UNCHANGED <<netVars, selectVars, vector, processed, peers, lastParse>>

\* PGM_IO_STATUS_RESET: the loop ends, and that is all.
ReceiveLoss ==
  /\ rpc = "in" /\ vector = <<>> /\ lossPending
  /\ lossPending' = FALSE
  /\ rpc' = "idle"
  /\ UNCHANGED <<net, made, selectVars, vector, processed, peers, lastParse>>

NewPeer == [joined |-> FALSE, lastIndex |-> 0, parser |-> NoParser]

\* Bug: a gap in the indices is not looked for.
HeardOfBlindly(p) ==
  IF p.tsi \notin DOMAIN peers THEN NewPeer
  ELSE [peers[p.tsi] EXCEPT !.lastIndex = p.index]

\* The peer after the look at the packet's index; a new one is not given the index.
HeardOf(p) ==
  IF p.tsi \notin DOMAIN peers THEN NewPeer
  ELSE LET peer == peers[p.tsi]
           gap == peer.lastIndex # 0 /\ (peer.lastIndex + 1) % IndexMod # p.index
       IN  [(IF gap THEN NewPeer ELSE peer) EXCEPT !.lastIndex = p.index]

\* A new peer replaces all the others.
SetPeer(t, peer) ==
  peers' = IF t \in DOMAIN peers THEN [peers EXCEPT ![t] = peer] ELSE [s \in {t} |-> peer]

\* Bug: a peer joins at the first byte of the packet.
StartOfPacket(p) == 0

\* Where in the packet a peer that joins begins.
Skipped(p) == Stream!OffsetOf(p.header)

\* The loop's body, for a packet that was received.
HandlePacket(p) ==
  LET peer == HeardOf(p)
      skip == IF peer.joined THEN 0 ELSE Skipped(p)
  IN  \/ /\ ~peer.joined /\ Stream!OffsetOf(p.header) = Stream!kNonExistOffset
         /\ SetPeer(p.tsi, peer)
         /\ UNCHANGED lastParse
      \/ /\ peer.joined \/ Stream!OffsetOf(p.header) # Stream!kNonExistOffset
         /\ \E parsed \in BOOLEAN :
              SetPeer(p.tsi, IF parsed THEN [joined |-> TRUE, lastIndex |-> peer.lastIndex,
                                             parser |-> p.number]
                                       ELSE NewPeer)
         /\ lastParse' =
              [fresh |-> ~peer.joined,
               begins |-> p.data[skip + 1].begins,
               missing |-> IF peer.joined THEN p.number - peer.parser - 1 ELSE 0,
               blind |-> peer.joined /\ peers[p.tsi].lastIndex = 0]

ReceiveBatch ==
  /\ rpc = "in" /\ vector = <<>> /\ ~lossPending
  /\ \E n \in 1..MsgvLen :
       /\ n <= Len(net)
       /\ vector' = SubSeq(net, 1, n) /\ net' = SubSeq(net, n + 1, Len(net))
       /\ processed' = 1
  /\ HandlePacket(vector'[1])
  /\ UNCHANGED <<made, lossPending, selectVars, rpc>>

ReceiveNext ==
  /\ rpc = "in" /\ processed < Len(vector)
  /\ processed' = processed + 1
  /\ HandlePacket(vector[processed + 1])
  /\ UNCHANGED <<netVars, selectVars, rpc, vector>>

ReceiverNext ==
  \/ \E t \in Tsis : SendPacket(t)
  \/ LosePacket
  \/ Plug \/ StopReceiver \/ Terminate \/ InEvent \/ RxTimerEvent
  \/ BatchDone \/ ReceiveLater \/ ReceiveNothing \/ ReceiveLoss
  \/ ReceiveBatch \/ ReceiveNext

ReceiverSpec == ReceiverInit /\ [][ReceiverNext]_receiverVars

-----------------------------------------------------------------------------
(* Properties. *)

(***************************************************************************)
(* InEvent: a peer joins at a byte with which a block begins, which is     *)
(* what its new parser takes the first byte for.                           *)
(***************************************************************************)
JoinsAtBlock == lastParse.fresh => lastParse.begins

(***************************************************************************)
(* InEvent: a parser is never given bytes from behind a gap, except where  *)
(* the index does not show it: behind a last_index of 0, which also stands *)
(* for "not known", or when all 2^32 indices were lost at once.            *)
(***************************************************************************)
GapsSeen == lastParse.missing > 0 =>
              lastParse.blind \/ lastParse.missing % IndexMod = 0

(***************************************************************************)
(* "Data loss. Delete decoder and mark the peer as disjoint." (158): a     *)
(* parser is never given bytes from behind a gap.                          *)
(***************************************************************************)
LossDisjoins == lastParse.missing = 0
=============================================================================
