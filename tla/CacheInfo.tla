----------------------------- MODULE CacheInfo -----------------------------
(***************************************************************************)
(* hdfstream_cache_info (src/src/lib/hdfstream.c): a status request reads  *)
(* the state of a slot of the process pool and then follows its worker     *)
(* pointer, all without pool->mutex.  Its Java caller, getCacheInfo, holds *)
(* a reference to the HDFStream, so that HDFStream.free does not reach the *)
(* shutdown of the pool while the call is under way.                       *)
(***************************************************************************)
EXTENDS ProcessPool

VARIABLES
  infopc,    \* where the status thread is
  worker_nr  \* the slot it asks about

infoVars == <<infopc, worker_nr>>

InfoInit == Init /\ infopc = "outside" /\ worker_nr = 0

(* Read worker_state[worker_nr]; only IDLE and BUSY slots are looked into *)
ReadState ==
  /\ infopc = "outside"
  /\ freepc = "open"
  /\ \E i \in Slots :
       /\ worker_nr' = i
       /\ infopc' = IF worker_state[i] \in {"IDLE", "BUSY"} THEN "assert" ELSE "outside"
  /\ UNCHANGED vars

(* Follow worker[worker_nr] to the cache statistics *)
ReadWorker ==
  /\ infopc = "assert"
  /\ infopc' = "outside"
  /\ UNCHANGED <<vars, worker_nr>>

(* The pool's own steps; the shutdown waits for the reference *)
PoolStep ==
  /\ Next
  /\ freepc' # freepc => infopc = "outside"
  /\ UNCHANGED infoVars

InfoNext == ReadState \/ ReadWorker \/ PoolStep

InfoSpec == InfoInit /\ [][InfoNext]_<<vars, infoVars>>

(* assert(hs->pool->worker[worker_nr]): the slot that was IDLE or BUSY     *)
(* when its state was read still has a worker when the pointer is          *)
(* followed.                                                               *)
SlotStillHasWorker == infopc = "assert" => worker[worker_nr] # NULL

=============================================================================
