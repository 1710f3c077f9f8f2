----------------------------- MODULE WorkerPool -----------------------------
(***************************************************************************)
(* What the process pool (src/src/util/process_pool.c) is to the threads   *)
(* that use it: a semaphore, a count of the processes that run, and where  *)
(* each thread is with its request for a worker.  Module ProcessPool is    *)
(* shown to implement it; modules StreamReferences and WebApp use its      *)
(* actions wherever their code calls the library, so a thread that sleeps  *)
(* in sem_wait because a worker has died in the hands of another one       *)
(* sleeps there too.                                                       *)
(***************************************************************************)
EXTENDS Integers

CONSTANTS
  Threads,      \* threads that share the pool
  NrProcesses   \* pool->max_nr_processes

ASSUME PoolSize == NrProcesses \in Nat \ {0}

VARIABLES
  sem,      \* value of pool->sem
  running,  \* pool->nr_processes_running
  stopped,  \* pool->stop
  place,    \* where each thread is with the pool
  tries     \* workers that each thread has found dead since it asked

pool == <<sem, running, stopped, place, tries>>

(* A thread asks for no worker; is about to read the value of the          *)
(* semaphore; is about to start a worker; is in sem_wait; has a permit, or *)
(* the worker that the permit stood for.                                   *)
PoolPlace == {"outside", "get", "start", "wait", "has"}

PoolInit ==
  /\ sem = 0
  /\ running = 0
  /\ stopped = FALSE
  /\ place = [t \in Threads |-> "outside"]
  /\ tries = [t \in Threads |-> 0]

Moves(t, from, to) ==
  /\ place[t] = from
  /\ place' = [place EXCEPT ![t] = to]

Ask(t) ==
  /\ Moves(t, "outside", "get")
  /\ tries' = [tries EXCEPT ![t] = 0]
  /\ UNCHANGED <<sem, running, stopped>>

(* sem_getvalue *)
SeesPermits(t) ==
  /\ sem > 0
  /\ Moves(t, "get", "wait")
  /\ UNCHANGED <<sem, running, stopped, tries>>

SeesNone(t) ==
  /\ sem <= 0
  /\ Moves(t, "get", "start")
  /\ UNCHANGED <<sem, running, stopped, tries>>

(* process_pool_start_worker *)
StartsWorker(t) ==
  /\ running < NrProcesses
  /\ ~stopped
  /\ Moves(t, "start", "wait")
  /\ running' = running + 1
  /\ sem' = sem + 1
  /\ UNCHANGED <<stopped, tries>>

(* Nothing was started: with no process at all the thread gives up *)
StartsNone(t) ==
  /\ Moves(t, "start", IF running = 0 THEN "outside" ELSE "wait")
  /\ UNCHANGED <<sem, running, stopped, tries>>

(* The pool is full or has stopped *)
CannotStart(t) ==
  /\ running >= NrProcesses \/ stopped
  /\ StartsNone(t)

(* worker_process_new fails *)
StartFails(t) ==
  /\ running < NrProcesses
  /\ ~stopped
  /\ StartsNone(t)

(* sem_wait *)
TakesPermit(t) ==
  /\ sem > 0
  /\ Moves(t, "wait", "has")
  /\ sem' = sem - 1
  /\ UNCHANGED <<running, stopped, tries>>

(* sem_wait is interrupted by a signal, and the thread goes on as if it    *)
(* had a permit.                                                           *)
Interrupted(t) ==
  /\ Moves(t, "wait", "has")
  /\ UNCHANGED <<sem, running, stopped, tries>>

(* The worker is released alive, or the thread got none for its permit:    *)
(* the pool has stopped, or no worker was idle.                            *)
GivesBack(t) ==
  /\ Moves(t, "has", "outside")
  /\ sem' = sem + 1
  /\ UNCHANGED <<running, stopped, tries>>

(* The worker that the thread got is found dead: it is removed, nothing is *)
(* posted, and the thread tries again, up to NrProcesses + 1 times.        *)
Discards(t) ==
  /\ Moves(t, "has", IF tries[t] < NrProcesses THEN "get" ELSE "outside")
  /\ tries' = [tries EXCEPT ![t] = @ + 1]
  /\ running' = running - 1
  /\ UNCHANGED <<sem, stopped>>

(* The worker is released dead: the same, but the thread is done *)
Loses(t) ==
  /\ Moves(t, "has", "outside")
  /\ running' = running - 1
  /\ UNCHANGED <<sem, stopped, tries>>

(* process_pool_free *)
Stop ==
  /\ ~stopped
  /\ stopped' = TRUE
  /\ sem' = sem + 1
  /\ UNCHANGED <<running, place, tries>>

-----------------------------------------------------------------------------
(* What a thread does by itself between asking and having a permit *)
Waits(t) ==
  \/ SeesPermits(t) \/ SeesNone(t) \/ StartsWorker(t) \/ CannotStart(t) \/ TakesPermit(t)

PoolNext ==
  \/ \E t \in Threads :
       \/ Ask(t) \/ Waits(t) \/ StartFails(t) \/ Interrupted(t)
       \/ GivesBack(t) \/ Discards(t) \/ Loses(t)
  \/ Stop

PoolSpec == PoolInit /\ [][PoolNext]_pool

(* The types of the variables *)
PoolTypeOK ==
  /\ sem \in Nat
  /\ running \in Int
  /\ stopped \in BOOLEAN
  /\ place \in [Threads -> PoolPlace]
  /\ tries \in [Threads -> Nat]

=============================================================================
