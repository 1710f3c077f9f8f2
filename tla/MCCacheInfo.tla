---------------------------- MODULE MCCacheInfo ----------------------------
(* Instances of CacheInfo for TLC *)
EXTENDS CacheInfo

=============================================================================
