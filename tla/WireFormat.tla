----------------------------- MODULE WireFormat -----------------------------
(***************************************************************************)
(* Integers on the wire: varints and zig-zag (src/wire_format-inl.h and    *)
(* wire_format.cc), which the compressor uses, and network byte order      *)
(* (src/wire.hpp), which the exchange's codec and the PGM engines use.     *)
(*                                                                         *)
(* A 32 or 64 bit integer, and a byte, is the set of its bits: shifts and  *)
(* casts are exact at every width, and v < 2^k is v \subseteq 0..k-1.      *)
(***************************************************************************)
EXTENDS Integers, Sequences, FiniteSets

CONSTANT Numbers    \* the integers that are written and read back

Bits(w) == 0..(w - 1)
ASSUME WireAssumption == Numbers \subseteq SUBSET Bits(64)

VARIABLE integer    \* the integer that is written and read back, once there is one

Below(v, k) == v \subseteq Bits(k)                       \* v < (1 << k)
Cast(v, w) == v \cap Bits(w)
Shl(v, k, w) == Cast({b + k : b \in v}, w)
Shr(v, k) == {b - k : b \in v \ Bits(k)}
Xor(u, v) == (u \ v) \cup (v \ u)

\* Bug: the shift is logical ("the right-shift must be arithmetic").
ShrLogical(v, k, w) == Shr(v, k)

\* v >> k of a signed v
ShrSigned(v, k, w) == Shr(v, k) \cup (IF w - 1 \in v THEN (w - k)..(w - 1) ELSE {})

ZigZagEncode(v, w) == Xor(Shl(v, 1, w), ShrSigned(v, w - 1, w))
ZigZagDecode(v, w) == Xor(Shr(v, 1), IF 0 \in v THEN Bits(w) ELSE {})

---------------------------------------------------------------------------

\* How many of the thresholds v reaches.
Reached(v, thresholds) == Cardinality({k \in thresholds : ~Below(v, k)})

\* Seven bits, and the mark that more bytes follow.
Group(v, k) == Cast(Shr(v, k), 8) \cup {7}
WithLastUnmarked(bytes) == [bytes EXCEPT ![Len(bytes)] = @ \ {7}]

WriteVarint32(v) ==
  WithLastUnmarked([i \in 1..(1 + Reached(v, {7, 14, 21, 28})) |-> Group(v, 7 * (i - 1))])

Parts(v) == <<Cast(v, 32), Cast(Shr(v, 28), 32), Cast(Shr(v, 56), 32)>>

\* The search tree of WriteVarint64.
WrittenSize64(v) ==
  LET part == Parts(v) IN
  IF part[3] # {} THEN 9 + Reached(part[3], {7})
  ELSE IF part[2] # {} THEN 5 + Reached(part[2], {7, 14, 21})
  ELSE 1 + Reached(part[1], {7, 14, 21})

WriteVarint64(v) ==
  WithLastUnmarked([i \in 1..WrittenSize64(v) |->
                      Group(Parts(v)[1 + (i - 1) \div 4], 7 * ((i - 1) % 4))])

VarintSize32(v) == 1 + Reached(v, {7, 14, 21, 28})
VarintSize64(v) ==
  IF Below(v, 35) THEN 1 + Reached(v, {7, 14, 21, 28}) ELSE 6 + Reached(v, {42, 49, 56, 63})

Corrupt == [size |-> -1, value |-> {}]

\* The bytes up to the first unmarked one, at most "most" of them, without
\* their marks; none if the data is corrupt.  A reader without the size
\* (ReadVarint32, ReadVarint64) is given enough bytes.
Groups(bytes, most) ==
  LET ends == {i \in 1..most : i <= Len(bytes) /\ 7 \notin bytes[i]} IN
  IF ends = {} THEN <<>>
  ELSE [i \in 1..(CHOOSE e \in ends : \A f \in ends : e <= f) |-> bytes[i] \ {7}]

\* The uint32_t that collects the groups from "first" to "last".
Part(groups, first, last) ==
  UNION {Shl(groups[i], 7 * (i - first), 32) : i \in first..last \cap DOMAIN groups}

Read(groups, value) ==
  IF groups = <<>> THEN Corrupt ELSE [size |-> Len(groups), value |-> value]

ReadVarint32(bytes) ==
  LET groups == Groups(bytes, 5) IN Read(groups, Part(groups, 1, 5))

ReadVarint64(bytes) ==
  LET groups == Groups(bytes, 10)
  IN  Read(groups, Part(groups, 1, 4) \cup Shl(Part(groups, 5, 8), 28, 64)
                     \cup Shl(Part(groups, 9, 10), 56, 64))

WriteSignedVarint32(v) == WriteVarint32(ZigZagEncode(v, 32))
WriteSignedVarint64(v) == WriteVarint64(ZigZagEncode(v, 64))
ReadSignedVarint32(bytes) ==
  LET r == ReadVarint32(bytes) IN [r EXCEPT !.value = ZigZagDecode(@, 32)]
ReadSignedVarint64(bytes) ==
  LET r == ReadVarint64(bytes) IN [r EXCEPT !.value = ZigZagDecode(@, 64)]

---------------------------------------------------------------------------

\* put_uint16, put_uint32, put_uint64: n bytes, the highest first.
PutUint(v, n) == [i \in 1..n |-> Cast(Shr(v, 8 * (n - i)), 8)]
GetUint(bytes) ==
  LET n == Len(bytes) IN UNION {Shl(bytes[i], 8 * (n - i), 8 * n) : i \in 1..n}

---------------------------------------------------------------------------

WireInit == integer = <<>>
WireNext == integer = <<>> /\ \E v \in Numbers : integer' = <<v>>
WireSpec == WireInit /\ [][WireNext]_integer

---------------------------------------------------------------------------
(* Properties *)

ReadsBack(bytes, v, Reader(_)) ==
  /\ Reader(bytes) = [size |-> Len(bytes), value |-> v]
  /\ \A n \in 0..(Len(bytes) - 1) : Reader(SubSeq(bytes, 1, n)) = Corrupt

SmallMagnitude(v, w, k) == Below(v, k) \/ Below(Bits(w) \ v, k)

(***************************************************************************)
(* What is written is read back, with the size VarintSize announces; a cut *)
(* varint is refused; and zig-zag gives "those with a small absolute value *)
(* smaller encoded values" (wire_format-inl.h:41-43).                      *)
(***************************************************************************)
WireRoundTrip ==
  \A i \in DOMAIN integer :
    LET v == integer[i]
        v32 == Cast(v, 32)
    IN  /\ ReadsBack(WriteVarint64(v), v, ReadVarint64)
        /\ ReadsBack(WriteSignedVarint64(v), v, ReadSignedVarint64)
        /\ Len(WriteVarint64(v)) = VarintSize64(v)
        /\ ReadsBack(WriteVarint32(v32), v32, ReadVarint32)
        /\ ReadsBack(WriteSignedVarint32(v32), v32, ReadSignedVarint32)
        /\ Len(WriteVarint32(v32)) = VarintSize32(v32)
        /\ \A k \in Bits(64) : SmallMagnitude(v, 64, k) => Below(ZigZagEncode(v, 64), k + 1)
        /\ GetUint(PutUint(v, 8)) = v /\ GetUint(PutUint(v32, 4)) = v32
=============================================================================
