------------------------- MODULE MCMessageAllocator -------------------------
(***************************************************************************)
(* The largest request of list 1, one of list 0, and one above the cached  *)
(* sizes.  The lists are looked at for the small capacities, and for those *)
(* around the powers of two.                                               *)
(***************************************************************************)
EXTENDS MessageAllocator, TLC

MCRequests == {60, 127, 2^22 + 1}
MCCapacities == 0..600 \cup UNION {(2^k - 1)..(2^k + 1) : k \in 0..kAllocateStop}
MsgSymmetry == Permutations(Msgs)
=============================================================================
