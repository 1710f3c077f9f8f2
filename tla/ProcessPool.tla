---------------------------- MODULE ProcessPool ----------------------------
(***************************************************************************)
(* The pool of reader processes of src/src/util/process_pool.c, with the   *)
(* parts of src/src/util/worker_process.c that the pool calls.             *)
(*                                                                         *)
(* Request threads take a worker from the pool, use it and give it back;   *)
(* worker processes may die at any moment; one thread may shut the pool    *)
(* down while the others are anywhere in their calls.  Whatever the code   *)
(* does between locking and unlocking pool->mutex is one atomic action.    *)
(* Everything done without the mutex (the semaphore operations,            *)
(* worker_process_is_alive in the retry loop, the deallocation at the end  *)
(* of process_pool_free) is an action of its own, and interleaves.         *)
(***************************************************************************)
EXTENDS Integers, FiniteSets

CONSTANTS
  Threads,          \* request threads that share the pool
  MaxNrProcesses,   \* pool->max_nr_processes
  Workers,          \* addresses of struct worker_process; free() makes one reusable
  NULL,             \* the null pointer
  Scores,           \* what the score callback returns ({0}: no callback, every score equal)
  CanDie,           \* may a worker process die by itself?
  CanFailToStart,   \* may worker_process_new return NULL?
  MaxInterrupts     \* bound on the signals that interrupt sem_wait

ASSUME PoolConstants ==
  /\ IsFiniteSet(Threads)
  /\ MaxNrProcesses \in Nat \ {0}
  /\ Scores \subseteq Nat
  /\ Scores # {}
  /\ CanDie \in BOOLEAN
  /\ CanFailToStart \in BOOLEAN
  /\ MaxInterrupts \in Nat
  /\ NULL \notin Workers

VARIABLES
  worker,                \* pool->worker[i]
  worker_state,          \* pool->worker_state[i]
  nr_processes_running,  \* pool->nr_processes_running
  sem,                   \* value of pool->sem
  next,                  \* pool->next
  stop,                  \* pool->stop
  pc,                    \* where each request thread is
  held,                  \* the worker pointer each thread has in hand
  tries,                 \* i of the retry loop in process_pool_get_worker_by_score
  proc,                  \* what has become of the struct and the process at each address
  freepc,                \* where the thread inside process_pool_free is
  dealloc,               \* i of the deallocation loop of process_pool_free
  interrupts,            \* signals that have interrupted sem_wait so far
  died                   \* history: did a worker die since this thread's get began?

poolVars   == <<worker, worker_state, nr_processes_running, next, stop>>
threadVars == <<pc, held, tries, died>>
freeVars   == <<freepc, dealloc>>
vars       == <<poolVars, sem, threadVars, proc, freeVars, interrupts>>

Slots == 0 .. MaxNrProcesses - 1

WorkerState == {"STOPPED", "IDLE", "BUSY"}

(* none: not allocated; running; killed: SIGKILL is pending; zombie: exited *)
(* and not yet waited for; reaped: waited for, which is worker->is_dead.    *)
ProcState == {"none", "running", "killed", "zombie", "reaped"}

(* The places a thread can be, in the order of the code: outside the pool; *)
(* at sem_getvalue; about to lock in process_pool_start_worker; in         *)
(* sem_wait; about to lock after it; about to give the permit back; about  *)
(* to call worker_process_is_alive; about to lock and discard a dead       *)
(* worker; using the worker; about to lock in process_pool_release_worker; *)
(* at the final sem_post of process_pool_release_worker.                   *)
Place == {"outside", "getvalue", "start", "wait", "lock", "giveback",
          "check", "discard", "use", "release", "post"}

(* Places inside process_pool_get_worker_by_score *)
InGet == {"getvalue", "start", "wait", "lock", "giveback", "check", "discard"}

(* Places where the thread has a worker that no other thread may touch *)
Holding == {"check", "discard", "use", "release"}

Init ==
  /\ worker = [i \in Slots |-> NULL]
  /\ worker_state = [i \in Slots |-> "STOPPED"]
  /\ nr_processes_running = 0
  /\ sem = 0
  /\ next = 0
  /\ stop = FALSE
  /\ pc = [t \in Threads |-> "outside"]
  /\ held = [t \in Threads |-> NULL]
  /\ tries = [t \in Threads |-> 0]
  /\ proc = [w \in Workers |-> "none"]
  /\ freepc = "open"
  /\ dealloc = 0
  /\ interrupts = 0
  /\ died = [t \in Threads |-> FALSE]

-----------------------------------------------------------------------------
(* The worker processes *)

Alive(w) == proc[w] \in {"running", "killed"}

(* worker_process_is_alive: waitpid(WNOHANG) reaps a process that exited *)
Waited(w) == IF proc[w] = "zombie" THEN [proc EXCEPT ![w] = "reaped"] ELSE proc

(* A reader process crashes, or dies of the SIGKILL of process_pool_free *)
Die(w) ==
  /\ \/ CanDie /\ proc[w] = "running"
     \/ proc[w] = "killed"
  /\ proc' = [proc EXCEPT ![w] = "zombie"]
  /\ died' = [t \in Threads |-> pc[t] \in InGet]
  /\ UNCHANGED <<poolVars, sem, pc, held, tries, freeVars, interrupts>>

-----------------------------------------------------------------------------
(* process_pool_get_worker_by_score *)

Goto(t, place) == pc' = [pc EXCEPT ![t] = place]

GetWorker(t) ==
  /\ pc[t] = "outside"
  /\ Goto(t, "getvalue")
  /\ tries' = [tries EXCEPT ![t] = 0]
  /\ died' = [died EXCEPT ![t] = FALSE]
  /\ UNCHANGED <<poolVars, sem, held, proc, freeVars, interrupts>>

(* sem_getvalue, outside the lock: stale as soon as it is read *)
GetValue(t) ==
  /\ pc[t] = "getvalue"
  /\ Goto(t, IF sem <= 0 THEN "start" ELSE "wait")
  /\ UNCHANGED <<poolVars, sem, held, tries, died, proc, freeVars, interrupts>>

FirstStopped(i) ==
  /\ worker_state[i] = "STOPPED"
  /\ \A j \in Slots : j < i => worker_state[j] # "STOPPED"

CanStart ==
  /\ nr_processes_running < MaxNrProcesses
  /\ ~stop
  /\ \E i \in Slots : worker_state[i] = "STOPPED"

(* process_pool_start_worker succeeds; the semaphore is posted under the lock *)
StartSucceeds(t) ==
  /\ pc[t] = "start"
  /\ CanStart
  /\ \E i \in Slots, w \in Workers :
       /\ FirstStopped(i)
       /\ proc[w] = "none"
       /\ worker' = [worker EXCEPT ![i] = w]
       /\ worker_state' = [worker_state EXCEPT ![i] = "IDLE"]
       /\ proc' = [proc EXCEPT ![w] = "running"]
  /\ nr_processes_running' = nr_processes_running + 1
  /\ sem' = sem + 1
  /\ Goto(t, "wait")
  /\ UNCHANGED <<next, stop, held, tries, died, freeVars, interrupts>>

(* Nothing was started: the pool is full or stopped, or worker_process_new *)
(* failed.  With no process at all the get fails.                          *)
StartsNothing(t) ==
  /\ pc[t] = "start"
  /\ CanStart => CanFailToStart
  /\ Goto(t, IF nr_processes_running = 0 THEN "outside" ELSE "wait")
  /\ UNCHANGED <<poolVars, sem, held, tries, died, proc, freeVars, interrupts>>

(* process_pool_wait_and_lock: sem_wait takes a permit *)
SemWait(t) ==
  /\ pc[t] = "wait"
  /\ sem > 0
  /\ sem' = sem - 1
  /\ Goto(t, "lock")
  /\ UNCHANGED <<poolVars, held, tries, died, proc, freeVars, interrupts>>

(* A signal interrupts sem_wait, which returns -1 and not EINTR: the loop  *)
(* of process_pool_wait_and_lock ends, and with NDEBUG so does the assert. *)
SemWaitInterrupted(t) ==
  /\ pc[t] = "wait"
  /\ interrupts < MaxInterrupts
  /\ interrupts' = interrupts + 1
  /\ Goto(t, "lock")
  /\ UNCHANGED <<poolVars, sem, held, tries, died, proc, freeVars>>

(* Distance of a slot from pool->next in the scan of the free processes *)
Rank(j) == (j - next + MaxNrProcesses) % MaxNrProcesses

(* The scan keeps the first of the idle slots with the highest score *)
BestSlot(j, score) ==
  /\ worker_state[j] = "IDLE"
  /\ \A k \in Slots : worker_state[k] = "IDLE" =>
       \/ score[k] < score[j]
       \/ score[k] = score[j] /\ Rank(j) <= Rank(k)

(* Mutant: a woken waiter does not pass the permit on *)
LockStoppedKeepsPermit(t) ==
  /\ pc[t] = "lock"
  /\ stop
  /\ UNCHANGED sem
  /\ Goto(t, "outside")
  /\ UNCHANGED <<poolVars, held, tries, died, proc, freeVars, interrupts>>

(* The pool has shut down: pass the permit on, and fail *)
LockStopped(t) ==
  /\ pc[t] = "lock"
  /\ stop
  /\ sem' = sem + 1
  /\ Goto(t, "outside")
  /\ UNCHANGED <<poolVars, held, tries, died, proc, freeVars, interrupts>>

LockAssign(t) ==
  /\ pc[t] = "lock"
  /\ ~stop
  /\ \E j \in Slots, score \in [Slots -> Scores] :
       /\ BestSlot(j, score)
       /\ worker_state' = [worker_state EXCEPT ![j] = "BUSY"]
       /\ held' = [held EXCEPT ![t] = worker[j]]
  /\ next' = (next + 1) % MaxNrProcesses
  /\ Goto(t, "check")
  /\ UNCHANGED <<worker, nr_processes_running, stop, sem, tries, died, proc, freeVars, interrupts>>

(* "Should not happen: we reserved a process with sem_wait" *)
LockFindsNone(t) ==
  /\ pc[t] = "lock"
  /\ ~stop
  /\ \A j \in Slots : worker_state[j] # "IDLE"
  /\ Goto(t, "giveback")
  /\ UNCHANGED <<poolVars, sem, held, tries, died, proc, freeVars, interrupts>>

GiveBack(t) ==
  /\ pc[t] = "giveback"
  /\ sem' = sem + 1
  /\ Goto(t, "outside")
  /\ UNCHANGED <<poolVars, held, tries, died, proc, freeVars, interrupts>>

(* worker_process_is_alive, outside the lock *)
CheckAlive(t) ==
  /\ pc[t] = "check"
  /\ Goto(t, IF Alive(held[t]) THEN "use" ELSE "discard")
  /\ proc' = Waited(held[t])
  /\ UNCHANGED <<poolVars, sem, held, tries, died, freeVars, interrupts>>

(* Mutant: the slot of the dead worker stays BUSY *)
RemoveLeavesBusy(w) ==
  /\ UNCHANGED worker_state
  /\ worker' = [i \in Slots |-> IF worker[i] = w THEN NULL ELSE worker[i]]
  /\ nr_processes_running' =
       nr_processes_running - Cardinality({i \in Slots : worker[i] = w})
  /\ proc' = IF \E i \in Slots : worker[i] = w
             THEN [proc EXCEPT ![w] = "none"] ELSE proc

(* Take worker w out of every slot that points to it and free the struct.  *)
(* worker_process_free waits for the process if nobody has yet.            *)
Remove(w) ==
  /\ worker_state' = [i \in Slots |-> IF worker[i] = w THEN "STOPPED" ELSE worker_state[i]]
  /\ worker' = [i \in Slots |-> IF worker[i] = w THEN NULL ELSE worker[i]]
  /\ nr_processes_running' =
       nr_processes_running - Cardinality({i \in Slots : worker[i] = w})
  /\ proc' = IF \E i \in Slots : worker[i] = w
             THEN [proc EXCEPT ![w] = "none"] ELSE proc

(* Mutant: one try per process *)
DiscardOneTryLess(t) ==
  /\ pc[t] = "discard"
  /\ Remove(held[t])
  /\ held' = [held EXCEPT ![t] = NULL]
  /\ tries' = [tries EXCEPT ![t] = @ + 1]
  /\ Goto(t, IF tries[t] + 1 < MaxNrProcesses THEN "getvalue" ELSE "outside")
  /\ UNCHANGED <<next, stop, sem, died, freeVars, interrupts>>

(* Mutant: the permit of the dead worker is posted back *)
DiscardPosts(t) ==
  /\ pc[t] = "discard"
  /\ Remove(held[t])
  /\ sem' = sem + 1
  /\ held' = [held EXCEPT ![t] = NULL]
  /\ tries' = [tries EXCEPT ![t] = @ + 1]
  /\ Goto(t, IF tries[t] + 1 < MaxNrProcesses + 1 THEN "getvalue" ELSE "outside")
  /\ UNCHANGED <<next, stop, died, freeVars, interrupts>>

(* The worker died while idle: remove it and try again, at most one time   *)
(* more than there are processes.                                          *)
Discard(t) ==
  /\ pc[t] = "discard"
  /\ Remove(held[t])
  /\ held' = [held EXCEPT ![t] = NULL]
  /\ tries' = [tries EXCEPT ![t] = @ + 1]
  /\ Goto(t, IF tries[t] + 1 < MaxNrProcesses + 1 THEN "getvalue" ELSE "outside")
  /\ UNCHANGED <<next, stop, sem, died, freeVars, interrupts>>

-----------------------------------------------------------------------------
(* Using a worker, and process_pool_release_worker *)

(* worker_process_send or _recv meets a broken pipe or end of file, or the *)
(* semaphore wait times out: the dead process is reaped, is_dead is set.   *)
UseFindsDead(t) ==
  /\ pc[t] = "use"
  /\ proc[held[t]] = "zombie"
  /\ proc' = Waited(held[t])
  /\ UNCHANGED <<poolVars, sem, threadVars, freeVars, interrupts>>

ReleaseWorker(t) ==
  /\ pc[t] = "use"
  /\ Goto(t, "release")
  /\ UNCHANGED <<poolVars, sem, held, tries, died, proc, freeVars, interrupts>>

ReleaseAlive(t) ==
  /\ pc[t] = "release"
  /\ Alive(held[t])
  /\ worker_state' = [i \in Slots |-> IF worker[i] = held[t] THEN "IDLE" ELSE worker_state[i]]
  /\ held' = [held EXCEPT ![t] = NULL]
  /\ Goto(t, IF \E i \in Slots : worker[i] = held[t] THEN "post" ELSE "outside")
  /\ UNCHANGED <<worker, nr_processes_running, next, stop, sem, tries, died, proc, freeVars, interrupts>>

(* Mutant: a permit is posted for a dead worker *)
ReleaseDeadPosts(t) ==
  /\ pc[t] = "release"
  /\ ~Alive(held[t])
  /\ Remove(held[t])
  /\ held' = [held EXCEPT ![t] = NULL]
  /\ Goto(t, "post")
  /\ UNCHANGED <<next, stop, sem, tries, died, freeVars, interrupts>>

(* A dead worker is removed; nothing is posted for it *)
ReleaseDead(t) ==
  /\ pc[t] = "release"
  /\ ~Alive(held[t])
  /\ Remove(held[t])
  /\ held' = [held EXCEPT ![t] = NULL]
  /\ Goto(t, "outside")
  /\ UNCHANGED <<next, stop, sem, tries, died, freeVars, interrupts>>

(* Mutant: the worker goes back without a permit *)
ReleaseForgetsPost(t) ==
  /\ pc[t] = "post"
  /\ UNCHANGED sem
  /\ Goto(t, "outside")
  /\ UNCHANGED <<poolVars, held, tries, died, proc, freeVars, interrupts>>

ReleasePost(t) ==
  /\ pc[t] = "post"
  /\ sem' = sem + 1
  /\ Goto(t, "outside")
  /\ UNCHANGED <<poolVars, held, tries, died, proc, freeVars, interrupts>>

-----------------------------------------------------------------------------
(* process_pool_free *)

(* Under the lock: refuse new work, kill every process, wake one waiter *)
FreeStop ==
  /\ freepc = "open"
  /\ stop' = TRUE
  /\ proc' = [w \in Workers |->
                IF /\ proc[w] = "running"
                   /\ \E i \in Slots : worker[i] = w /\ worker_state[i] # "STOPPED"
                THEN "killed" ELSE proc[w]]
  /\ sem' = sem + 1
  /\ freepc' = "drain"
  /\ UNCHANGED <<worker, worker_state, nr_processes_running, next, threadVars, dealloc, interrupts>>

(* Mutant: deallocate at once *)
FreeDoesNotDrain ==
  /\ freepc = "drain"
  /\ freepc' = "dealloc"
  /\ UNCHANGED <<poolVars, sem, threadVars, proc, dealloc, interrupts>>

(* Poll under the lock until no worker is busy *)
FreeDrain ==
  /\ freepc = "drain"
  /\ \A i \in Slots : worker_state[i] # "BUSY"
  /\ freepc' = "dealloc"
  /\ UNCHANGED <<poolVars, sem, threadVars, proc, dealloc, interrupts>>

(* Free worker i, without the lock; worker_state is left as it was *)
FreeDealloc ==
  /\ freepc = "dealloc"
  /\ dealloc < MaxNrProcesses
  /\ worker' = [worker EXCEPT ![dealloc] = NULL]
  /\ proc' = [w \in Workers |-> IF w = worker[dealloc] THEN "none" ELSE proc[w]]
  /\ dealloc' = dealloc + 1
  /\ UNCHANGED <<worker_state, nr_processes_running, next, stop, sem, threadVars, freepc, interrupts>>

(* Mutant: the last slot is forgotten *)
FreeReturnsEarly ==
  /\ freepc = "dealloc"
  /\ dealloc = MaxNrProcesses - 1
  /\ freepc' = "done"
  /\ UNCHANGED <<poolVars, sem, threadVars, proc, dealloc, interrupts>>

FreeReturn ==
  /\ freepc = "dealloc"
  /\ dealloc = MaxNrProcesses
  /\ freepc' = "done"
  /\ UNCHANGED <<poolVars, sem, threadVars, proc, dealloc, interrupts>>

-----------------------------------------------------------------------------
(* The steps of a thread that is inside a call of the pool *)
ThreadStep(t) ==
  \/ GetValue(t)      \/ StartSucceeds(t) \/ StartsNothing(t)
  \/ SemWait(t)       \/ LockStopped(t)   \/ LockAssign(t)
  \/ LockFindsNone(t) \/ GiveBack(t)      \/ CheckAlive(t)   \/ Discard(t)
  \/ ReleaseAlive(t)  \/ ReleaseDead(t)   \/ ReleasePost(t)

FreeStep == FreeDrain \/ FreeDealloc \/ FreeReturn

Next ==
  \/ \E t \in Threads :
       \/ GetWorker(t) \/ ThreadStep(t) \/ SemWaitInterrupted(t)
       \/ UseFindsDead(t) \/ ReleaseWorker(t)
  \/ \E w \in Workers : Die(w)
  \/ FreeStop \/ FreeStep

Spec == Init /\ [][Next]_vars

(* Threads inside the pool are scheduled; a request ends at some time, so  *)
(* its worker is released; a killed process dies; a shutdown once begun is *)
(* carried on.  Nobody has to make a request, to die or to shut down.      *)
Fairness ==
  /\ \A t \in Threads : WF_vars(ThreadStep(t)) /\ WF_vars(ReleaseWorker(t))
  /\ \A w \in Workers : WF_vars(proc[w] = "killed" /\ Die(w))
  /\ WF_vars(FreeStep)

FairSpec == Spec /\ Fairness

-----------------------------------------------------------------------------
(* Where a thread at a place of this module is for WorkerPool *)
Stage(at) ==
  CASE at = "outside"  -> "outside"
    [] at = "getvalue" -> "get"
    [] at = "start"    -> "start"
    [] at = "wait"     -> "wait"
    [] OTHER           -> "has"

Promise == INSTANCE WorkerPool WITH
  NrProcesses <- MaxNrProcesses,
  running     <- nr_processes_running,
  stopped     <- stop,
  place       <- [t \in Threads |-> Stage(pc[t])]

-----------------------------------------------------------------------------
(* Properties *)

(* Every variable has its type. *)
TypeOK ==
  /\ worker \in [Slots -> Workers \cup {NULL}]
  /\ worker_state \in [Slots -> WorkerState]
  /\ nr_processes_running \in Int
  /\ sem \in Nat
  /\ next \in Slots
  /\ stop \in BOOLEAN
  /\ pc \in [Threads -> Place]
  /\ held \in [Threads -> Workers \cup {NULL}]
  /\ tries \in [Threads -> 0 .. MaxNrProcesses + 1]
  /\ proc \in [Workers -> ProcState]
  /\ freepc \in {"open", "drain", "dealloc", "done"}
  /\ dealloc \in 0 .. MaxNrProcesses
  /\ interrupts \in 0 .. MaxInterrupts
  /\ died \in [Threads -> BOOLEAN]

(* A worker that process_pool_get_worker_by_score handed to a thread stays *)
(* allocated, in a BUSY slot of the pool, and is handed to no other thread *)
(* until it is given back: whatever dies, fails to start, is interrupted,  *)
(* or is shut down meanwhile (process_pool_free deallocates without the    *)
(* mutex), and although a freed address may be allocated again.            *)
OwnedExclusively ==
  \A t \in Threads : pc[t] \in Holding =>
    /\ held[t] # NULL
    /\ proc[held[t]] # "none"
    /\ \E i \in Slots : worker[i] = held[t] /\ worker_state[i] = "BUSY"
    /\ \A u \in Threads \ {t} : pc[u] \in Holding => held[u] # held[t]

RunningSlots == {i \in Slots : worker_state[i] # "STOPPED"}
IdleSlots    == {i \in Slots : worker_state[i] = "IDLE"}

(* pool->nr_processes_running is the number of slots that are not STOPPED, *)
(* so the assert in process_pool_start_worker holds and a slot that the    *)
(* count says is free can be found.                                        *)
RunningCount == nr_processes_running = Cardinality(RunningSlots)

ThreadsAt(places) == {t \in Threads : pc[t] \in places}

(* Threads that have, or have yet to post, a permit of the semaphore *)
PermitHolders == ThreadsAt({"lock", "giveback", "post"})

(* Every idle worker has exactly one permit: in the semaphore, with a      *)
(* thread between sem_wait and the lock, or still to be posted.  Shutdown  *)
(* adds one permit for the waiters, and each interrupted sem_wait leaks    *)
(* one that no worker stands behind.                                       *)
PermitAccounting ==
  Cardinality(IdleSlots) + (IF stop THEN 1 ELSE 0) + interrupts
  = sem + Cardinality(PermitHolders)

(* Threads that are past sem_wait find an idle worker each, but for as     *)
(* many as there were interrupted waits.                                   *)
ReservationHolds ==
  ~stop => Cardinality(ThreadsAt({"lock"})) <= Cardinality(IdleSlots) + interrupts

(* No struct worker_process and no process is ever lost by the pool: each  *)
(* is reachable from a slot until worker_process_free has reaped it, so    *)
(* when process_pool_free returns none is left.                            *)
NoOrphans ==
  /\ \A w \in Workers : proc[w] # "none" => \E i \in Slots : worker[i] = w
  /\ freepc = "done" => \A w \in Workers : proc[w] = "none"

(* The retry loop makes one try more than there are processes, so a get    *)
(* runs out of tries only if a process died while it was looking: however  *)
(* many workers died while idle, they alone never make a get fail.         *)
ExhaustionNeedsDeath ==
  [][\A t \in Threads :
       pc[t] = "discard" /\ pc'[t] = "outside" => died[t]]_vars

(* Every step of the pool is a step of WorkerPool, which the modules that   *)
(* use the pool are built on: a permit is taken by one thread and comes     *)
(* back with a worker that lives, a dead worker is removed from the count   *)
(* once, by the thread that has it, and no permit comes back for it.        *)
KeepsPromise == Promise!PoolSpec

(* From some time on no new request is made *)
NoNewRequests == <>[][\A t \in Threads : pc[t] = "outside" => pc'[t] = "outside"]_vars

(* A thread in process_pool_get_worker_by_score gets an answer, provided   *)
(* that threads arriving later do not overtake it for ever (POSIX          *)
(* semaphores promise no order).                                           *)
EveryGetReturns ==
  NoNewRequests => \A t \in Threads : pc[t] \in InGet ~> pc[t] \notin InGet

(* No process dies before the pool is shut down *)
NoDeaths == [](\A w \in Workers : proc[w] \in {"zombie", "reaped"} => stop)

(* The same, as long as no process dies: of the permits that are posted    *)
(* and the processes that are started or fail to start, none is missed by  *)
(* a thread that needs it.                                                 *)
GetsReturnIfNoneDies == NoDeaths => EveryGetReturns

(* process_pool_free returns: the busy workers all come back, although no  *)
(* one holds the mutex while it waits for them.                            *)
ShutdownCompletes == freepc = "drain" ~> freepc = "done"

(* The single sem_post of process_pool_free is passed from waiter to       *)
(* waiter until every thread that was blocked in sem_wait has returned.    *)
ShutdownWakesAll ==
  NoNewRequests => \A t \in Threads : stop /\ pc[t] \in InGet ~> pc[t] \notin InGet

=============================================================================
