-------------------------- MODULE StreamReferences --------------------------
(***************************************************************************)
(* The life of the Java object HDFStream (src/jni/.../HDFStream.java) and  *)
(* of the DataStreams opened from it: requests count references, and free, *)
(* called when the web application stops, waits for them to go before it   *)
(* frees the native struct hdfstream that the requests use.                *)
(*                                                                         *)
(* The process pool is module WorkerPool, readers that die included: a     *)
(* thread that waits for a worker holds a reference all the while.  Each   *)
(* DataStream is used by the thread that opened it, in a                   *)
(* try-with-resources block (HDFStreamRequest.streamObject), so that it is *)
(* closed at the end of the block whether or not it was closed before.     *)
(***************************************************************************)
EXTENDS WorkerPool, FiniteSets

CONSTANTS
  CanInterrupt,  \* may the thread in free be interrupted?
  MaxDeaths      \* bound on the readers that die by themselves

ASSUME ReferenceConstants ==
  /\ IsFiniteSet(Threads)
  /\ CanInterrupt \in BOOLEAN
  /\ MaxDeaths \in Nat

VARIABLES
  refCount,  \* HDFStream.refCount
  stopping,  \* HDFStream.stopping
  ptr,       \* is HDFStream.ptr non-zero?
  hs,        \* the native struct hdfstream: allocated or freed
  pc,        \* where each thread is
  closed,    \* DataStream.closed of the stream each thread opened last
  inBlock,   \* is the thread in the body of its try-with-resources block?
  freepc,    \* where the thread in free is
  thrown,    \* has releaseReference or free thrown a RuntimeException?
  interrupted,  \* history: was free interrupted?
  deaths     \* history: readers found dead before the pool was stopped

stream == <<closed, inBlock>>
object == <<refCount, stopping, ptr, hs, thrown>>
vars   == <<pool, object, pc, stream, freepc, interrupted, deaths>>

(* Where a thread can be: outside HDFStream; in tryOpenObject,             *)
(* tryOpenDatasetSlices or tryGetCacheInfo before the native call; in      *)
(* hdfstream_cache_info; in process_pool_get_worker_by_score without and   *)
(* with a worker; in hdfstream_object_open and the like with a worker that *)
(* lives; with a DataStream; in hdfstream_read_chunk; about to call close; *)
(* in hdfstream_close_stream; about to release the reference.              *)
Place == {"outside", "try", "info", "get", "check", "open", "stream", "read",
          "close", "cfree", "release"}

At(places) == {t \in Threads : pc[t] \in places}

Goto(t, to) == pc' = [pc EXCEPT ![t] = to]

(* The worker of a thread is BUSY once the pool has assigned it *)
Busy == {t \in Threads : place[t] = "has" /\ pc[t] # "get"}

Init ==
  /\ PoolInit
  /\ refCount = 1
  /\ stopping = FALSE
  /\ ptr = TRUE
  /\ hs = "allocated"
  /\ pc = [t \in Threads |-> "outside"]
  /\ closed = [t \in Threads |-> FALSE]
  /\ inBlock = [t \in Threads |-> FALSE]
  /\ freepc = "none"
  /\ thrown = FALSE
  /\ interrupted = FALSE
  /\ deaths = 0

-----------------------------------------------------------------------------
(* A request *)

(* Mutant: the stop flag is not looked at *)
AcquireReferenceLate(t) ==
  /\ pc[t] = "outside"
  /\ refCount > 0
  /\ refCount' = refCount + 1
  /\ Goto(t, "try")
  /\ UNCHANGED <<pool, stopping, ptr, hs, thrown, stream, freepc, interrupted, deaths>>

(* acquireReference; a request during shutdown is refused *)
AcquireReference(t) ==
  /\ pc[t] = "outside"
  /\ refCount > 0
  /\ ~stopping
  /\ refCount' = refCount + 1
  /\ Goto(t, "try")
  /\ UNCHANGED <<pool, stopping, ptr, hs, thrown, stream, freepc, interrupted, deaths>>

(* The parameters are checked, or ptr is zero: an exception *)
TryFails(t) ==
  /\ pc[t] = "try"
  /\ Goto(t, "release")
  /\ UNCHANGED <<pool, object, stream, freepc, interrupted, deaths>>

TryCalls(t) ==
  /\ pc[t] = "try"
  /\ ptr
  /\ \/ Goto(t, "get") /\ Ask(t)
     \/ Goto(t, "info") /\ UNCHANGED pool
  /\ UNCHANGED <<object, stream, freepc, interrupted, deaths>>

InfoReturns(t) ==
  /\ pc[t] = "info"
  /\ Goto(t, "release")
  /\ UNCHANGED <<pool, object, stream, freepc, interrupted, deaths>>

(* process_pool_get_worker_by_score up to sem_wait, which may block *)
PoolWaits(t) ==
  /\ pc[t] = "get"
  /\ Waits(t)
  /\ UNCHANGED <<object, pc, stream, freepc, interrupted, deaths>>

PoolStartFails(t) ==
  /\ pc[t] = "get"
  /\ StartFails(t)
  /\ UNCHANGED <<object, pc, stream, freepc, interrupted, deaths>>

(* The pool gave no worker: the native call returns NULL *)
GetFails(t) ==
  /\ pc[t] = "get"
  /\ place[t] = "outside"
  /\ Goto(t, "release")
  /\ UNCHANGED <<pool, object, stream, freepc, interrupted, deaths>>

(* Under the lock, after sem_wait: the pool has stopped *)
PoolRefuses(t) ==
  /\ pc[t] = "get"
  /\ stopped
  /\ GivesBack(t)
  /\ Goto(t, "release")
  /\ UNCHANGED <<object, stream, freepc, interrupted, deaths>>

GetsWorker(t) ==
  /\ pc[t] = "get"
  /\ place[t] = "has"
  /\ ~stopped
  /\ Goto(t, "check")
  /\ UNCHANGED <<pool, object, stream, freepc, interrupted, deaths>>

(* A worker is found dead.  After process_pool_free has killed them all    *)
(* that is no accident.                                                    *)
Death ==
  /\ stopped \/ deaths < MaxDeaths
  /\ deaths' = IF stopped THEN deaths ELSE deaths + 1

(* worker_process_is_alive *)
CheckAlive(t) ==
  /\ pc[t] = "check"
  /\ Goto(t, "open")
  /\ UNCHANGED <<pool, object, stream, freepc, interrupted, deaths>>

FindsDead(t) ==
  /\ pc[t] = "check"
  /\ Death
  /\ Discards(t)
  /\ Goto(t, "get")
  /\ UNCHANGED <<object, stream, freepc, interrupted>>

(* process_pool_release_worker *)
ReleaseWorker(t) ==
  \/ GivesBack(t) /\ UNCHANGED deaths
  \/ Loses(t) /\ Death

(* The reader answers, and there is a DataStream; or it does not, and the  *)
(* worker goes back.                                                       *)
OpenReturns(t) ==
  /\ pc[t] = "open"
  /\ \/ /\ Goto(t, "stream")
        /\ closed' = [closed EXCEPT ![t] = FALSE]
        /\ inBlock' = [inBlock EXCEPT ![t] = TRUE]
        /\ UNCHANGED <<pool, deaths>>
     \/ /\ ReleaseWorker(t)
        /\ Goto(t, "release")
        /\ UNCHANGED stream
  /\ UNCHANGED <<object, freepc, interrupted>>

(* The block ends, normally or by an exception: the stream is closed *)
LeaveBlock(t) ==
  /\ Goto(t, "close")
  /\ inBlock' = [inBlock EXCEPT ![t] = FALSE]
  /\ UNCHANGED closed

(* Mutant: DataStream.read goes on during a shutdown *)
ReadGoesOn(t) ==
  /\ pc[t] = "stream"
  /\ IF closed[t] THEN LeaveBlock(t) ELSE Goto(t, "read") /\ UNCHANGED stream
  /\ UNCHANGED <<pool, object, freepc, interrupted, deaths>>

(* DataStream.read throws once the shutdown has begun.  Of a closed stream *)
(* it reads nothing: it throws, or says that the stream has ended.         *)
Read(t) ==
  /\ pc[t] = "stream"
  /\ IF stopping \/ closed[t] THEN LeaveBlock(t) ELSE Goto(t, "read") /\ UNCHANGED stream
  /\ UNCHANGED <<pool, object, freepc, interrupted, deaths>>

(* readChunk closes the stream at its end and after an error *)
ReadReturns(t) ==
  /\ pc[t] = "read"
  /\ \/ Goto(t, "stream")
     \/ Goto(t, "close")
  /\ UNCHANGED <<pool, object, stream, freepc, interrupted, deaths>>

(* The request is done with the stream, or failed *)
Leave(t) ==
  /\ pc[t] = "stream"
  /\ LeaveBlock(t)
  /\ UNCHANGED <<pool, object, freepc, interrupted, deaths>>

(* Where a thread is after a call of close or of releaseReference *)
After(t) == IF inBlock[t] THEN "stream" ELSE "outside"

(* Mutant: close does not look whether the stream is closed already *)
CloseAgain(t) ==
  /\ pc[t] = "close"
  /\ closed' = [closed EXCEPT ![t] = TRUE]
  /\ Goto(t, IF closed[t] THEN "release" ELSE "cfree")
  /\ UNCHANGED <<pool, object, inBlock, freepc, interrupted, deaths>>

(* DataStream.close: a second call does nothing *)
Close(t) ==
  /\ pc[t] = "close"
  /\ closed' = [closed EXCEPT ![t] = TRUE]
  /\ Goto(t, IF closed[t] THEN After(t) ELSE "cfree")
  /\ UNCHANGED <<pool, object, inBlock, freepc, interrupted, deaths>>

(* hdfstream_close_stream has drained the stream and released the worker *)
CloseReturns(t) ==
  /\ pc[t] = "cfree"
  /\ ReleaseWorker(t)
  /\ Goto(t, "release")
  /\ UNCHANGED <<object, stream, freepc, interrupted>>

ReleaseReference(t) ==
  /\ pc[t] = "release"
  /\ refCount' = IF refCount <= 0 THEN refCount ELSE refCount - 1
  /\ thrown' = (thrown \/ refCount <= 0)
  /\ Goto(t, After(t))
  /\ UNCHANGED <<pool, stopping, ptr, hs, stream, freepc, interrupted, deaths>>

-----------------------------------------------------------------------------
(* free *)

FreeBegins ==
  /\ freepc = "none"
  /\ ptr
  /\ stopping' = TRUE
  /\ freepc' = "wait"
  /\ UNCHANGED <<pool, refCount, ptr, hs, thrown, pc, stream, interrupted, deaths>>

(* The references of the requests are gone *)
FreeWaits ==
  /\ freepc = "wait"
  /\ refCount <= 1
  /\ freepc' = "stop"
  /\ UNCHANGED <<pool, object, pc, stream, interrupted, deaths>>

(* The sleep is interrupted, and free does not wait any longer *)
FreeInterrupted ==
  /\ CanInterrupt
  /\ freepc = "wait"
  /\ refCount > 1
  /\ freepc' = "stop"
  /\ interrupted' = TRUE
  /\ UNCHANGED <<pool, object, pc, stream, deaths>>

(* Mutant: process_pool_free posts no permit for the waiters *)
FreeWakesNobody ==
  /\ freepc = "stop"
  /\ stopped' = TRUE
  /\ freepc' = "drain"
  /\ UNCHANGED <<sem, running, place, tries, object, pc, stream, interrupted, deaths>>

(* hdfstream_free: process_pool_free stops the pool *)
FreeStopsPool ==
  /\ freepc = "stop"
  /\ Stop
  /\ freepc' = "drain"
  /\ UNCHANGED <<object, pc, stream, interrupted, deaths>>

(* No worker is in use: the struct hdfstream is freed *)
FreeFrees ==
  /\ freepc = "drain"
  /\ Busy = {}
  /\ hs' = "freed"
  /\ freepc' = "clear"
  /\ UNCHANGED <<pool, refCount, stopping, ptr, thrown, pc, stream, interrupted, deaths>>

FreeClears ==
  /\ freepc = "clear"
  /\ ptr' = FALSE
  /\ freepc' = "release"
  /\ UNCHANGED <<pool, refCount, stopping, hs, thrown, pc, stream, interrupted, deaths>>

FreeReleases ==
  /\ freepc = "release"
  /\ refCount' = IF refCount <= 0 THEN refCount ELSE refCount - 1
  /\ thrown' = (thrown \/ refCount <= 0)
  /\ freepc' = "check"
  /\ UNCHANGED <<pool, stopping, ptr, hs, pc, stream, interrupted, deaths>>

(* "Reference count not zero on shutdown!" *)
FreeChecks ==
  /\ freepc = "check"
  /\ thrown' = (thrown \/ refCount # 0)
  /\ freepc' = "done"
  /\ UNCHANGED <<pool, refCount, stopping, ptr, hs, pc, stream, interrupted, deaths>>

-----------------------------------------------------------------------------
(* What a thread does in the library *)
CallStep(t) ==
  \/ TryFails(t) \/ TryCalls(t) \/ InfoReturns(t)
  \/ PoolWaits(t) \/ GetFails(t) \/ PoolRefuses(t) \/ GetsWorker(t) \/ CheckAlive(t)
  \/ OpenReturns(t) \/ Read(t) \/ ReadReturns(t) \/ Leave(t)
  \/ Close(t) \/ CloseReturns(t) \/ ReleaseReference(t)

FreeStep ==
  \/ FreeWaits \/ FreeStopsPool \/ FreeFrees \/ FreeClears \/ FreeReleases \/ FreeChecks

(* The object is gone.  That the requests are over then is StopEndsRequests. *)
Finished ==
  /\ freepc = "done"
  /\ UNCHANGED vars

Next ==
  \/ \E t \in Threads :
       \/ AcquireReference(t) \/ CallStep(t) \/ PoolStartFails(t) \/ FindsDead(t)
  \/ FreeBegins \/ FreeInterrupted \/ FreeStep
  \/ Finished

Spec == Init /\ [][Next]_vars

(* Threads in the library are scheduled, and so is free.  A stream need    *)
(* not end by itself; no process has to die or to fail to start; and a     *)
(* thread in sem_wait goes on only if there is a permit.                   *)
Fairness ==
  /\ \A t \in Threads : WF_vars(CallStep(t))
  /\ WF_vars(FreeStep)

FairSpec == Spec /\ Fairness

-----------------------------------------------------------------------------
(* Properties *)

(* Every variable has its type. *)
TypeOK ==
  /\ PoolTypeOK
  /\ refCount \in Nat
  /\ stopping \in BOOLEAN
  /\ ptr \in BOOLEAN
  /\ hs \in {"allocated", "freed"}
  /\ pc \in [Threads -> Place]
  /\ closed \in [Threads -> BOOLEAN]
  /\ inBlock \in [Threads -> BOOLEAN]
  /\ freepc \in {"none", "wait", "stop", "drain", "clear", "release", "check", "done"}
  /\ thrown \in BOOLEAN
  /\ interrupted \in BOOLEAN
  /\ deaths \in Nat

(* Requests under way whose stream, if they have one, is not closed yet *)
Holders ==
  {t \in Threads : /\ pc[t] # "outside"
                   /\ ~(closed[t] /\ pc[t] \in {"stream", "close"})}

Own == IF freepc \in {"check", "done"} THEN 0 ELSE 1

(* refCount counts the requests that are under way and the object itself,  *)
(* whatever exceptions they meet: of the close of readChunk at the end of  *)
(* the stream or after an error and the close at the end of the block, in  *)
(* either order with a shutdown, exactly one releases the reference.       *)
ReferencesCounted == refCount = Own + Cardinality(Holders)

(* Unless free was interrupted, no thread is in a native function of a     *)
(* struct hdfstream that was freed, nor about to call one with a pointer   *)
(* it has checked or of a stream that it has not closed.                   *)
NoUseAfterFree ==
  hs = "freed" /\ ~interrupted => Holders = {}

(* Unless free was interrupted, neither "Reference count not zero on       *)
(* shutdown!" nor "Reference count already zero before releasing" is       *)
(* thrown.                                                                 *)
SaneShutdown == ~interrupted => ~thrown

(* A shutdown, once begun, completes: "Wait for all streams to be closed"  *)
(* of HDFStream.free comes to an end.                                      *)
ShutdownEnds == freepc = "wait" ~> freepc = "done"

(* It does if no reader dies before, although streams may be as long as    *)
(* they like and the pool has fewer workers than there are requests; and   *)
(* it does if free is interrupted, which then waits for busy workers only. *)
FreeCompletes == ([](deaths = 0) \/ <>interrupted) => ShutdownEnds

(* Once process_pool_free has stopped the pool every request ends, those   *)
(* included that wait in vain for a worker that died: its one sem_post     *)
(* reaches them all.  That matters if free was interrupted.                *)
StopEndsRequests == freepc = "drain" ~> At(Place \ {"outside"}) = {}

=============================================================================
