------------------------------ MODULE SizeClass ------------------------------
(***************************************************************************)
(* How src/message_allocator.cpp maps a capacity to one of its free lists: *)
(* the index of the highest bit, found with a de Bruijn multiplication,    *)
(* less the classes below kAllocateStart.                                  *)
(***************************************************************************)
EXTENDS Integers, FiniteSetsExt

CONSTANT Capacities    \* the capacities whose lists are looked at

ASSUME SizeAssumption == Capacities \subseteq Nat

kAllocateStart == 5
kAllocateStop == 22
ListIndices == 0..(kAllocateStop - kAllocateStart)

\* A uint32_t as the set of its bits.
BitsOf(v) == {b \in 0..30 : (v \div 2^b) % 2 = 1}

\* v |= v >> n
OrShifted(bits, n) == bits \cup {b - n : b \in {x \in bits : x >= n}}

\* "first round down to one less than a power of 2"
Spread(bits) == OrShifted(OrShifted(OrShifted(OrShifted(OrShifted(bits, 1), 2), 4), 8), 16)

MultiplyDeBruijnBitPosition ==
  << 0, 9, 1, 10, 13, 21, 2, 29, 11, 14, 16, 18, 22, 25, 3, 30,
     8, 12, 20, 28, 15, 17, 24, 7, 19, 27, 23, 6, 26, 5, 4, 31 >>

\* Byte i of a 32-bit number.
Byte(v, i) == (v \div 256^i) % 256

\* (uint32_t)(a * b) >> 27, byte by byte because the product is wider than 32 bits.
MulTopFive(a, b) ==
  LET column(k) == MapThenSumSet(LAMBDA i : Byte(a, i) * Byte(b, k - i), 0..k)
      carry1 == column(0) \div 256
      carry2 == (column(1) + carry1) \div 256
      carry3 == (column(2) + carry2) \div 256
  IN  ((column(3) + carry3) % 256) \div 8

FloorLog2(v) ==
  MultiplyDeBruijnBitPosition[
    MulTopFive(MapThenSumSet(LAMBDA b : 2^b, Spread(BitsOf(v))), 130329821) + 1]  \* 0x07C4ACDD

\* Bug: one list too low.
ListIndexLow(c) ==
  LET high == FloorLog2(c)
  IN  IF high > kAllocateStart THEN high - kAllocateStart - 1 ELSE 0

\* The free list of a capacity that is not too big to be cached.
ListIndex(c) ==
  LET high == FloorLog2(c)
  IN  IF high > kAllocateStart THEN high - kAllocateStart ELSE 0

TooBig(c) == c > 2^kAllocateStop

\* The capacity of a message made for list i.
ListCapacity(i) == 2^(kAllocateStart + i + 1)

\* The messages of the list of c hold c, and are at most twice as big.
Fits(c) ==
  ~TooBig(c) =>
    /\ ListIndex(c) \in ListIndices
    /\ c < ListCapacity(ListIndex(c))
    /\ ListIndex(c) > 0 => ListCapacity(ListIndex(c)) <= 2 * c

EachFits == \A c \in Capacities : Fits(c)
=============================================================================
