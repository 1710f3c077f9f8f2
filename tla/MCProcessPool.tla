--------------------------- MODULE MCProcessPool ---------------------------
(* Instances of ProcessPool for TLC: two request threads, or three on one  *)
(* process so that several wait at once, and one address more than there   *)
(* are slots so that a freed struct can be allocated again elsewhere.      *)
EXTENDS ProcessPool, TLC

Symmetry == Permutations(Threads) \cup Permutations(Workers)

=============================================================================
