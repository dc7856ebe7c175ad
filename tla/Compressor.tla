----------------------------- MODULE Compressor -----------------------------
(***************************************************************************)
(* The compressor of src/Context.hpp: one context encodes, another decodes *)
(* what arrives.  Both keep, per template, an array of cached messages,    *)
(* which only the records themselves keep equal.  The repository has no    *)
(* caller of Context; buffers travel here in order, and may be lost, as    *)
(* the packets of the PGM engines do.                                      *)
(*                                                                         *)
(* A value is a number; 0 is also the empty string.  A record is not       *)
(* cut into bytes: its body is the sequence of what the fields push to it, *)
(* and decode takes from the front as much as it believes is there.        *)
(***************************************************************************)
EXTENDS Integers, SequencesExt

CONSTANTS
  Template,        \* id -> sequence of [type, action], from the XML configuration
  DecoderKnows,    \* the templates the decoding context was given
  Tokens,
  Inputs,          \* what may be encoded: [template, values]
  Width,           \* integers wrap around at Width
  MaxRecords,      \* bound on the number of records encoded
  MaxInBuffer,     \* bound on the records in a buffer
  MaxOnWay         \* bound on the buffers under way

\* The bits of a presence map are counted from 1, like the fields.
\* "if pmap = 0x80000000, means this is the new type of message": the highest of 32,
\* which no field may have, so that a template of 32 fields or more is excluded.
FullBit == 32

\* The parser makes no other instructions.
FieldKinds == [type : {"int64", "uint64", "int32", "uint32", "string"}, action : {"copy", "delta"}]

ASSUME CompressorAssumption ==
  /\ DecoderKnows \subseteq DOMAIN Template /\ Width \in Nat \ {0}
  /\ \A t \in DOMAIN Template : Template[t] \in Seq(FieldKinds)
                                /\ Template[t] # <<>> /\ Len(Template[t]) < FullBit
  /\ \A m \in Inputs : m.template \in DOMAIN Template
                       /\ m.values \in [1..Len(Template[m.template]) -> 0..(Width - 1)]

VARIABLES
  encoder,    \* templateCacheArrays_ and Maps_ of the encoder: per template, [token, values] by index
  decoder,    \* templateCacheArrays_ of the decoder: per template, values or Null by index
  buffer,     \* the caller's buffer: records
  way,        \* buffers under way
  received,   \* what decode has just returned
  crashed,    \* the entry that was a null pointer, or <<>>
  spoiled,    \* ghost: entries a record of which was lost or not decoded
  encoded     \* bound: records encoded so far

vars == <<encoder, decoder, buffer, way, received, crashed, spoiled, encoded>>

Null == <<>>      \* no template is without fields
Entry(record) == <<record.template, record.index>>
Fields(t) == DOMAIN Template[t]
Zeros(t) == [i \in Fields(t) |-> 0]

---------------------------------------------------------------------------
(* What the template parser builds *)

\* The C++ type of the instruction that is made for a field: int32 gets one for uint64_t.
InstructionType ==
  [int64 |-> "int64", uint64 |-> "uint64", int32 |-> "uint64", uint32 |-> "uint32", string |-> "string"]

\* Field::getValue and setValue do nothing when the type is not the field's own.
Accessible(field) == InstructionType[field.type] = field.type

---------------------------------------------------------------------------
(* Encoding *)

\* Whether the field is written.  "noise": an int32 field is compared with an
\* unrelated uninitialised variable, so that any outcome is possible.
Sends(field, value, cached, noise) ==
  \/ field.action = "copy" /\ IF Accessible(field) THEN value # cached ELSE noise
  \/ field.action = "delta" /\ field.type # "string"

Delta(value, cached) == (value - cached) % Width

\* What is written; for an int32 field it is noise that nobody stores.
Written(field, value, cached) == IF field.action = "delta" THEN Delta(value, cached) ELSE value

\* What the fields push to the buffer, one after the other.
Body(t, written, values, cached) ==
  FoldLeftDomain(LAMBDA body, i : IF i \in written
                                  THEN Append(body, Written(Template[t][i], values[i], cached[i]))
                                  ELSE body,
                 <<>>, Template[t])

EncodedBuffer(record) ==
  /\ encoded < MaxRecords /\ Len(buffer) < MaxInBuffer
  /\ buffer' = Append(buffer, record)
  /\ encoded' = encoded + 1
  /\ received' = <<>>
  /\ UNCHANGED <<decoder, way, crashed, spoiled>>

\* A token without a cache entry: the message is cached and written in full.
EncodeNew(m, token) ==
  LET t == m.template IN
  /\ \A i \in DOMAIN encoder[t] : encoder[t][i].token # token
  /\ encoder' = [encoder EXCEPT ![t] = Append(@, [token |-> token, values |-> m.values])]
  /\ EncodedBuffer([template |-> t, index |-> Len(encoder[t]) + 1, pmap |-> {FullBit},
                    body |-> m.values, sent |-> m.values])

\* Bug: what was written is not stored in the cache.
CacheForgets(fields, values, cached) == [i \in DOMAIN values |-> cached[i]]

\* The cache takes over what was written.
CacheUpdated(fields, values, cached) ==
  [i \in DOMAIN values |-> IF i \in fields THEN values[i] ELSE cached[i]]

EncodeKnown(m, token, noise) ==
  LET t == m.template IN
  \E index \in DOMAIN encoder[t] :
    LET cached == encoder[t][index].values
        written == {i \in Fields(t) : Sends(Template[t][i], m.values[i], cached[i], noise)}
        stored == {i \in written : Accessible(Template[t][i])}
    IN  /\ encoder[t][index].token = token
        /\ encoder' = [encoder EXCEPT ![t][index].values = CacheUpdated(stored, m.values, cached)]
        /\ EncodedBuffer([template |-> t, index |-> index, pmap |-> written,
                          body |-> Body(t, written, m.values, cached),
                          sent |-> m.values])

---------------------------------------------------------------------------
(* Decoding *)

IsFull(field, pmap) ==
  IF field.type = "string" THEN pmap = {FullBit} ELSE FullBit \in pmap

\* What a field takes from the body, if anything.
Takes(field, i, pmap) ==
  \/ IsFull(field, pmap)
  \/ field.action = "copy" /\ i \in pmap
  \/ field.action = "delta" /\ field.type # "string"

Restored(field, pmap, taken, cached) ==
  IF field.action = "delta" /\ ~IsFull(field, pmap) THEN (cached + taken) % Width ELSE taken

\* Bug: an unchanged string is left as the template has it, like an integer.
UnchangedIsBlank(field, cached, blank) == blank

\* A COPY field that was not sent: a string comes from the cache, an integer is left alone.
Unchanged(field, cached, blank) == IF field.type = "string" THEN cached ELSE blank

\* One instruction.  s: what is left of the body, the message made so far, the cache, the result.
DecodeField(record, s, i) ==
  LET field == Template[record.template][i] IN
  IF s.result = -1 THEN s
  ELSE IF Takes(field, i, record.pmap)
  THEN IF s.rest = <<>> THEN [s EXCEPT !.result = -1]
       ELSE LET value == Restored(field, record.pmap, Head(s.rest), s.cache[i])
                store(values) == IF Accessible(field) THEN [values EXCEPT ![i] = value] ELSE values
            IN  [rest |-> Tail(s.rest), out |-> store(s.out), cache |-> store(s.cache), result |-> 0]
  ELSE IF field.action = "delta" THEN [s EXCEPT !.result = -1]
  ELSE [s EXCEPT !.out[i] = Unchanged(field, s.cache[i], @)]

\* Template::decode: a copy of the template's message is filled in, field after field.
DecodeMessage(record, cache) ==
  FoldLeftDomain(LAMBDA s, i : DecodeField(record, s, i),
                 [rest |-> record.body, out |-> Zeros(record.template), cache |-> cache,
                  result |-> 0],
                 Template[record.template])

\* Bug: one entry too many, which is then found to be there.
ResizedTooFar(caches, record) ==
  IF record.index <= Len(caches) THEN caches
  ELSE [i \in 1..(record.index + 1) |-> IF i <= Len(caches) THEN caches[i]
                                        ELSE IF i = record.index THEN Zeros(record.template) ELSE Null]

\* The array reaches up to the record's index; entries skipped on the way are null.
Resized(caches, record) ==
  IF record.index <= Len(caches) THEN caches
  ELSE [i \in 1..record.index |-> IF i <= Len(caches) THEN caches[i]
                                  ELSE IF i = record.index THEN Zeros(record.template) ELSE Null]

\* One turn of the loop of Context::decode.  s: the caches, the messages decoded, how it ended.
DecodeRecord(s, record) ==
  LET t == record.template IN
  IF s.end # "none" THEN [s EXCEPT !.left = Append(@, record)]
  ELSE IF t \notin DecoderKnows THEN [s EXCEPT !.end = "unknown", !.left = <<record>>]
  ELSE LET caches == Resized(s.caches[t], record) IN
       IF caches[record.index] = Null THEN [s EXCEPT !.end = "crash", !.left = <<record>>]
       ELSE LET d == DecodeMessage(record, caches[record.index])
                kept == [s EXCEPT !.caches[t] = [caches EXCEPT ![record.index] = d.cache]]
            IN  IF d.result = -1
                THEN [kept EXCEPT !.end = "failed", !.messages = <<>>, !.left = <<record>>]
                ELSE [kept EXCEPT !.messages = Append(@, [record |-> record, out |-> d.out, rest |-> d.rest])]

Decode ==
  /\ way # <<>> /\ crashed = <<>>
  /\ LET s == FoldLeft(DecodeRecord,
                       [caches |-> decoder, messages |-> <<>>, end |-> "none", left |-> <<>>],
                       Head(way))
     IN  /\ decoder' = s.caches
         /\ IF s.end = "crash"
            THEN crashed' = Entry(Head(s.left)) /\ received' = <<>> /\ UNCHANGED spoiled
            ELSE /\ received' = s.messages
                 /\ spoiled' = spoiled \cup {Entry(r) : r \in ToSet(s.left)}
                 /\ UNCHANGED crashed
  /\ way' = Tail(way)
  /\ UNCHANGED <<encoder, buffer, encoded>>

---------------------------------------------------------------------------
(* The caller, and the way *)

Send ==
  /\ buffer # <<>> /\ Len(way) < MaxOnWay
  /\ way' = Append(way, buffer)
  /\ buffer' = <<>>
  /\ received' = <<>>
  /\ UNCHANGED <<encoder, decoder, crashed, spoiled, encoded>>

Lose ==
  /\ way # <<>>
  /\ way' = Tail(way)
  /\ spoiled' = spoiled \cup {Entry(r) : r \in ToSet(Head(way))}
  /\ received' = <<>>
  /\ UNCHANGED <<encoder, decoder, buffer, crashed, encoded>>

Init ==
  /\ encoder = [t \in DOMAIN Template |-> <<>>]
  /\ decoder = [t \in DecoderKnows |-> <<>>]
  /\ buffer = <<>> /\ way = <<>> /\ received = <<>>
  /\ crashed = <<>> /\ spoiled = {} /\ encoded = 0

Next ==
  \/ \E m \in Inputs, token \in Tokens :
       \/ EncodeNew(m, token)
       \/ \E noise \in BOOLEAN : EncodeKnown(m, token, noise)
  \/ Send
  \/ Lose
  \/ Decode

Spec == Init /\ [][Next]_vars

---------------------------------------------------------------------------
(* Properties *)

Intact(entry) == entry \notin spoiled

(***************************************************************************)
(* Once everything has arrived, encoder and decoder have the same cached   *)
(* values for every entry of which no record was lost: both sides of the   *)
(* field instructions update their caches alike (Context.hpp, Template.hpp *)
(* and FieldInstruction*.hpp).                                             *)
(***************************************************************************)
CachesAgree ==
  buffer = <<>> /\ way = <<>> /\ crashed = <<>> =>
    \A t \in DecoderKnows : \A index \in DOMAIN encoder[t] :
      Intact(<<t, index>>) =>
        /\ index \in DOMAIN decoder[t] /\ decoder[t][index] # Null
        /\ \A i \in Fields(t) : Accessible(Template[t][i]) =>
             decoder[t][index][i] = encoder[t][index].values[i]

(***************************************************************************)
(* A message that is decoded has the values that were encoded, and decode  *)
(* used up exactly its record, but for two things the code does: an        *)
(* unchanged COPY integer is left at 0 (FieldInstructionInteger.hpp:132),  *)
(* and so is an int32 field always (xmlTemplateParser.hpp:110).            *)
(***************************************************************************)
DecodedAsEncoded ==
  \A k \in DOMAIN received :
    LET m == received[k] IN
    Intact(Entry(m.record)) =>
      /\ m.rest = <<>>
      /\ \A i \in DOMAIN m.out :
           LET field == Template[m.record.template][i] IN
           IF ~Accessible(field) THEN m.out[i] = 0
           ELSE \/ m.out[i] = m.record.sent[i]
                \/ /\ field.action = "copy" /\ field.type # "string"
                   /\ m.record.pmap \cap {i, FullBit} = {} /\ m.out[i] = 0

(***************************************************************************)
(* The decoder meets a null entry (Context.hpp:99) only where the full     *)
(* message of that entry was lost or not decoded.                          *)
(***************************************************************************)
NullOnlyAfterLoss == crashed # <<>> => crashed \in spoiled
=============================================================================
