--------------------------- MODULE MCChunkStream ---------------------------
(* Instances of ChunkStream for TLC: rings of one and two buffers, answers *)
(* that go round the ring more than once, requests that ask for less, as   *)
(* much and more than the shared buffers hold.                             *)
EXTENDS StreamRefinement, TLC

=============================================================================
