---------------------------- MODULE MCBatchQueue ----------------------------
(* Chunks are interchangeable: nothing compares or orders their addresses. *)
EXTENDS BatchQueue, TLC

ChunkSymmetry == Permutations(Chunks)
=============================================================================
