---------------------------- MODULE MCChunkLease ----------------------------
(* ChunkLease with symmetric servers, calls and writes.                     *)
EXTENDS ChunkLease, TLC

Symmetry == Permutations(Server) \cup Permutations(Call) \cup Permutations(Write)
=============================================================================
