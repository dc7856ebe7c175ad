---------------------------- MODULE PacketStream ----------------------------
(***************************************************************************)
(* What PGMSender puts on the wire and PGMReceiver counts on: a stream of  *)
(* bytes made of blocks, cut into packets with a running index, each       *)
(* saying where the first block that begins in it begins.                  *)
(***************************************************************************)
EXTENDS Integers, Sequences

CONSTANTS Capacity,     \* bytes a packet has room for behind its header
          IndexMod,     \* number of values of an index (2^32)
          Options       \* the option bits of the header, above the offset

kOffsetBitCount == 13
kNonExistOffset == 8191

VARIABLE packets        \* every packet the transport accepted, in order

\* A header's 16 bits: options and offset, and the offset out of them.
Header(offset) == Options * 2^kOffsetBitCount + offset
OffsetOf(header) == header % 2^kOffsetBitCount

\* A byte of the stream: its position, and whether a block begins with it.
Byte(n, begins) == [at |-> n, begins |-> begins]

\* Where the first block that begins in these bytes begins.
FirstBlock(data) ==
  IF \E i \in DOMAIN data : data[i].begins
    THEN (CHOOSE i \in DOMAIN data :
            data[i].begins /\ \A j \in 1..(i - 1) : ~data[j].begins) - 1
    ELSE kNonExistOffset

\* The position of the next byte to be sent.
NextByte ==
  IF packets = <<>> THEN 1
  ELSE LET data == packets[Len(packets)].data IN data[Len(data)].at + 1

\* Packet p is what the stream goes on with.
Continues(p) ==
  /\ p.index = Len(packets) % IndexMod
  /\ OffsetOf(p.header) = FirstBlock(p.data)
  /\ Len(p.data) \in 1..Capacity
  /\ \A i \in DOMAIN p.data : p.data[i].at = NextByte + i - 1
  /\ packets = <<>> => p.data[1].begins

\* One more packet.
Emit ==
  /\ Len(packets') = Len(packets) + 1
  /\ LET p == packets'[Len(packets')] IN packets' = Append(packets, p) /\ Continues(p)

StreamSpec == packets = <<>> /\ [][Emit]_packets
=============================================================================
