---------------------------- MODULE MCFileCache ----------------------------
(* Instances of FileCache for TLC: one file more than may be open and one  *)
(* dataset more, so that both are evicted.                                 *)
EXTENDS FileCache, TLC

=============================================================================
