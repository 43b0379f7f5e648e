--------------------------- MODULE MCChunkStream ---------------------------
(* Instances of ChunkStream for TLC. *)
EXTENDS ChunkStream
=============================================================================
