---------------------------- MODULE MCAlgorithms ----------------------------
(***************************************************************************)
(* What handles data: the integers on the wire, the exchange's decoder,    *)
(* and the two contexts of the compressor.  A behavior is that of one of   *)
(* the three: an integer is written and read back, or a stream is sent and *)
(* read in pieces, or messages are compressed with the templates below, as *)
(* parsed: one with the three kinds of field that work, one with an int32, *)
(* one with a DELTA string, one the decoder does not know.                 *)
(***************************************************************************)
EXTENDS WireFormat, SzBinaryDecoder, TemplateParser, Compressor

CONSTANT Bodies      \* of the exchange's messages

MCBodies == {<<>>, <<1>>, <<0, 1>>, <<3, 2>>}

---------------------------------------------------------------------------
(* The compressor's templates and messages *)

MCSymmetry == Permutations(Tokens)

Field(type, action) == [type |-> type, action |-> action]

Element(id, fields) == [id |-> id, fields |-> fields]

\* The documents of the two sides.  The encoder's has an element that is no field, and
\* a template twice; the decoder's a template without fields, behind which it is not read.
Quote ==
  Element("quote", <<Field("int64", "copy"), Field("uint64", "delta"), Field("string", "copy")>>)
Narrow == Element("narrow", <<Field("int32", "copy"), Field("uint32", "delta"), Field("string", "")>>)
Text == Element("text", <<Field("double", "copy"), Field("string", "delta")>>)
Late == Element("unknown", <<Field("string", "copy")>>)

EncoderTemplates == parse(<<Element("quote", <<Field("string", "copy")>>), Quote, Narrow, Text, Late>>)
DecoderTemplates == parse(<<Quote, Narrow, Text, Element("empty", <<>>), Late>>)

MCTemplate == EncoderTemplates
MCDecoderKnows == DOMAIN DecoderTemplates

Message(template, values) == [template |-> template, values |-> values]

MCInputs ==
  {Message("quote", <<1, 2, 1>>), Message("quote", <<1, 0, 2>>), Message("quote", <<2, 1, 1>>),
   Message("narrow", <<1, 2>>),
   Message("text", <<1>>), Message("unknown", <<1>>)}

---------------------------------------------------------------------------
(* The exchange's messages, with right and with wrong checksums *)

Framed(body, wrong) ==
  LET message == <<1, Len(body)>> \o body
  IN  Append(message, (GenerateCheckSum(message) + wrong) % Radix)

MCFrames == {Framed(body, wrong) : body \in Bodies, wrong \in {0, 1}}

---------------------------------------------------------------------------
(* Integers *)

\* Zero, every power of two, and every run of ones: 2^h - 2^l, and the negatives of these.
MCNumbers == {lo..hi : lo \in Bits(64), hi \in Bits(64)}

---------------------------------------------------------------------------

AlgorithmsInit == WireInit /\ DecoderInit /\ Init
AlgorithmsNext ==
  \/ DecoderInit /\ Init /\ WireNext /\ UNCHANGED <<decoderVars, vars>>
  \/ WireInit /\ Init /\ DecoderNext /\ UNCHANGED <<integer, vars>>
  \/ WireInit /\ DecoderInit /\ Next /\ UNCHANGED <<integer, decoderVars>>
AlgorithmsSpec == AlgorithmsInit /\ [][AlgorithmsNext]_<<integer, decoderVars, vars>>
=============================================================================
