---------------------------- MODULE MCOrderedMap ----------------------------
(* Instances of OrderedMap for TLC *)
EXTENDS OrderedMap

=============================================================================
