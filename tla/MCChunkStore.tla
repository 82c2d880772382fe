---------------------------- MODULE MCChunkStore ----------------------------
(* ChunkStore for TLC: constants as model values, and the symmetry of the     *)
(* ids and of the processes of one kind.                                     *)
EXTENDS ChunkStore, TLC

Symmetry == Permutations(Ids) \cup Permutations(Sweepers) \cup Permutations(Clients)
=============================================================================
