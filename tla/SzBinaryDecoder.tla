-------------------------- MODULE SzBinaryDecoder --------------------------
(***************************************************************************)
(* szBinary_decoder_t: cuts the bytes of a TCP connection into messages,   *)
(* whatever the pieces in which they are read.  A message is a head with   *)
(* the length of the body in its last field, the body, and a tail with a   *)
(* checksum.  Sizes are parameters; length and checksum take one byte here *)
(* (as four, they are WireFormat's GetUint).  The exchange sends messages  *)
(* and the service reads what has arrived, wherever that ends.             *)
(***************************************************************************)
EXTENDS Integers, SequencesExt

CONSTANTS
  headSize, tailSize,    \* sizeof(SZB_Head), sizeof(SZB_Tail)
  Radix,                 \* the number of values of a byte, and the modulus of the checksum
  MaxInt,                \* the greatest length that an int holds
  Frames,                \* what the exchange may send: head, body and tail
  MaxFrames              \* bound on what it sends

GenerateCheckSum(bytes) == FoldLeft(+, 0, bytes) % Radix
BodyLength(head) == head[headSize]
WireCheckSum(message) == message[Len(message)]
WithoutTail(message) == SubSeq(message, 1, Len(message) - tailSize)
Right(message) == WireCheckSum(message) = GenerateCheckSum(WithoutTail(message))

ASSUME DecoderAssumption ==
  /\ headSize \in Nat \ {0} /\ tailSize \in Nat \ {0} /\ Radix \in Nat \ {0} /\ MaxFrames \in Nat
  /\ MaxInt \in Nat
  /\ \A m \in Frames : /\ m \in Seq(Nat) /\ headSize <= Len(m)
                        /\ Len(m) = headSize + BodyLength(m) + tailSize
                        /\ BodyLength(m) <= MaxInt

VARIABLES
  sent,       \* the messages sent: [message, end], "end" as a position in the stream
  stream,     \* their bytes
  arrived,    \* how many of these were read
  reader      \* the decoder

decoderVars == <<sent, stream, arrived, reader>>

reset(d) == [d EXCEPT !.state = "HEAD", !.buffer = <<>>, !.bodySize = 0]

\* A decoder that has handed over nothing yet, and has nothing to read.
NewDecoder == [state |-> "HEAD", buffer |-> <<>>, bodySize |-> 0,
               handed |-> <<>>, rest |-> <<>>, ret |-> 0]

\* What the buffer holds at the end of the state.
Target(d) ==
  CASE d.state = "HEAD" -> headSize
    [] d.state = "BODY" -> headSize + d.bodySize
    [] d.state = "TAIL" -> headSize + d.bodySize + tailSize

\* Bug: the bytes of an earlier piece are not counted in the body.
LackOfBody(d) ==
  IF d.state = "BODY" THEN d.bodySize ELSE Target(d) - Len(d.buffer)

\* headLack, bodyLack, tailLack
Lack(d) == Target(d) - Len(d.buffer)

\* The piece is given up: decode returns -1 and drops what was not consumed.
Refused(d) == [reset(d) EXCEPT !.ret = -1, !.rest = <<>>]

\* The state is complete: its bytes have just been buffered.
Completed(d) ==
  CASE d.state = "HEAD" -> [d EXCEPT !.state = "BODY", !.bodySize = BodyLength(d.buffer)]
    [] d.state = "BODY" -> [d EXCEPT !.state = "TAIL"]
    [] d.state = "TAIL" ->
         IF ~Right(d.buffer)
         THEN Refused(d)
         ELSE [reset(d) EXCEPT !.handed = Append(@, d.buffer)]

\* Copies what is lacking, or all there is.  A length above MaxInt, which is read where a
\* message was lost track of, is a negative bodySize_: nothing is copied, begin moves back,
\* and the tail finds a checksum that is none.  (2^32 - 1 with one byte left takes one more.)
consume(d) ==
  IF d.state = "BODY" /\ d.bodySize > MaxInt THEN Refused(d) ELSE
  LET taken == IF Len(d.rest) >= Lack(d) THEN Lack(d) ELSE Len(d.rest)
      copied == [d EXCEPT !.buffer = @ \o SubSeq(d.rest, 1, taken),
                          !.rest = SubSeq(@, taken + 1, Len(@))]
  IN  IF Len(d.rest) >= Lack(d) THEN Completed(copied) ELSE copied

\* while (begin < end)
Loop(d, turn) == IF d.rest = <<>> THEN d ELSE consume(d)

\* A byte is at most consumed twice, once by an empty body.  Refused
\* ends the loop.
decode(d, piece) ==
  FoldLeft(Loop, [d EXCEPT !.rest = piece, !.ret = 0], [turn \in 1..(2 * Len(piece)) |-> turn])

---------------------------------------------------------------------------
(* The connection *)

DecoderInit == sent = <<>> /\ stream = <<>> /\ arrived = 0 /\ reader = NewDecoder

SendFrame(m) ==
  /\ Len(sent) < MaxFrames
  /\ stream' = stream \o m
  /\ sent' = Append(sent, [message |-> m, end |-> Len(stream) + Len(m)])
  /\ UNCHANGED <<arrived, reader>>

\* readHandle, of the next n bytes; what decode returns is not looked at.
ReadPiece(n) ==
  /\ arrived' = arrived + n
  /\ reader' = decode(reader, SubSeq(stream, arrived + 1, arrived + n))
  /\ UNCHANGED <<sent, stream>>

DecoderNext ==
  \/ \E m \in Frames : SendFrame(m)
  \/ \E n \in 1..(Len(stream) - arrived) : ReadPiece(n)

DecoderSpec == DecoderInit /\ [][DecoderNext]_decoderVars

---------------------------------------------------------------------------
(* Properties *)

WellFormed(message) == Len(message) = headSize + BodyLength(message) + tailSize /\ Right(message)

(***************************************************************************)
(* However the stream is cut into pieces, the messages that are complete   *)
(* are handed over, in order, up to the first with a wrong checksum; the   *)
(* decoder may lose its place behind that one, but never hands over what   *)
(* is not a message (szBinary_decoder_t::decode).                          *)
(***************************************************************************)
PiecesDoNotMatter ==
  LET complete == {i \in DOMAIN sent : sent[i].end <= arrived}
      expected == {i \in complete : \A j \in 1..i : Right(sent[j].message)}
  IN  /\ \A i \in expected : i \in DOMAIN reader.handed /\ reader.handed[i] = sent[i].message
      /\ expected = complete => DOMAIN reader.handed = complete
      /\ \A k \in DOMAIN reader.handed : WellFormed(reader.handed[k])
=============================================================================
