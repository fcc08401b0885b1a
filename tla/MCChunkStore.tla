--------------------------- MODULE MCChunkStore ---------------------------
(* ChunkStore on a chunk of two blocks and a copy of it.                    *)
EXTENDS ChunkStore, TLC

\* A part of a block, and across both.
MCRange == {<<0, 1>>, <<1, 3>>}

Handles == Permutations(Handle)
=============================================================================
