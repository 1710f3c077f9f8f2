------------------------- MODULE MCStreamReferences -------------------------
(* Instances of StreamReferences for TLC.  With two workers and two threads *)
(* a thread sleeps in sem_wait after the start of a worker has failed.      *)
EXTENDS StreamReferences

=============================================================================
