------------------------- MODULE ProcessPoolProofs -------------------------
(***************************************************************************)
(* Proofs about ProcessPool for every number of threads, slots and worker  *)
(* addresses, with crashes, failed starts and interrupted waits.           *)
(***************************************************************************)
EXTENDS ProcessPool, FiniteSetTheorems, TLAPS

(* A thread in the retry loop has a try left.  TypeOK alone is not         *)
(* inductive: Discard would count past the bound of tries.                 *)
TriesLeft == \A t \in Threads : pc[t] \in InGet => tries[t] <= MaxNrProcesses

TypeInv == TypeOK /\ TriesLeft

(* The set of slots is finite, so the number of matches that Remove        *)
(* subtracts is a natural number.                                          *)
LEMMA SlotsFinite ==
  /\ IsFiniteSet(Slots)
  /\ \A S \in SUBSET Slots : IsFiniteSet(S) /\ Cardinality(S) \in Nat
<1>1. IsFiniteSet(Slots)
  BY FS_Interval, PoolConstants DEF Slots
<1> QED
  BY <1>1, FS_Subset, FS_CardinalityType

(* Remove keeps the types of what it changes. *)
LEMMA RemoveType ==
  ASSUME TypeOK, NEW w \in Workers \cup {NULL}, Remove(w)
  PROVE  /\ worker' \in [Slots -> Workers \cup {NULL}]
         /\ worker_state' \in [Slots -> WorkerState]
         /\ nr_processes_running' \in Int
         /\ proc' \in [Workers -> ProcState]
<1>1. Cardinality({i \in Slots : worker[i] = w}) \in Nat
  BY SlotsFinite
<1>2. nr_processes_running' \in Int
  BY <1>1 DEF TypeOK, Remove
<1>3. worker' \in [Slots -> Workers \cup {NULL}]
  BY DEF TypeOK, Remove
<1>4. worker_state' \in [Slots -> WorkerState]
  BY DEF TypeOK, Remove, WorkerState
<1>5. proc' \in [Workers -> ProcState]
  BY DEF TypeOK, Remove, ProcState
<1> QED
  BY <1>2, <1>3, <1>4, <1>5

LEMMA TypeInit == Init => TypeInv
<1> SUFFICES ASSUME Init PROVE TypeInv
  OBVIOUS
<1> USE PoolConstants DEF Init
<1>1. worker \in [Slots -> Workers \cup {NULL}] /\ worker_state \in [Slots -> WorkerState]
  BY DEF WorkerState
<1>2. next \in Slots
  BY DEF Slots
<1>3. pc \in [Threads -> Place] /\ held \in [Threads -> Workers \cup {NULL}]
  BY DEF Place
<1>4. proc \in [Workers -> ProcState]
  BY DEF ProcState
<1>5. tries \in [Threads -> 0 .. MaxNrProcesses + 1] /\ died \in [Threads -> BOOLEAN]
  OBVIOUS
<1>6. TriesLeft
  BY DEF TriesLeft
<1>7. sem \in Nat /\ nr_processes_running \in Int
  OBVIOUS
<1>9. stop \in BOOLEAN
  BY Zenon
<1>8. /\ freepc \in {"open", "drain", "dealloc", "done"}
      /\ dealloc \in 0 .. MaxNrProcesses
      /\ interrupts \in 0 .. MaxInterrupts
  OBVIOUS
<1> QED
  BY <1>1, <1>2, <1>3, <1>4, <1>5, <1>6, <1>7, <1>8, <1>9 DEF TypeInv, TypeOK

LEMMA TypeStep == TypeInv /\ [Next]_vars => TypeInv'
<1> SUFFICES ASSUME TypeInv, [Next]_vars PROVE TypeInv'
  OBVIOUS
<1> USE PoolConstants DEF TypeInv, TypeOK, TriesLeft, Place, InGet, Goto,
        poolVars, threadVars, freeVars
<1>1. ASSUME NEW t \in Threads, GetWorker(t) PROVE TypeInv'
  BY <1>1 DEF GetWorker
<1>2. ASSUME NEW t \in Threads, GetValue(t) PROVE TypeInv'
  BY <1>2 DEF GetValue
<1>3. ASSUME NEW t \in Threads, StartSucceeds(t) PROVE TypeInv'
  BY <1>3 DEF StartSucceeds, WorkerState, ProcState
<1>4. ASSUME NEW t \in Threads, StartsNothing(t) PROVE TypeInv'
  BY <1>4 DEF StartsNothing
<1>5. ASSUME NEW t \in Threads, SemWait(t) PROVE TypeInv'
  BY <1>5 DEF SemWait
<1>6. ASSUME NEW t \in Threads, SemWaitInterrupted(t) PROVE TypeInv'
  BY <1>6 DEF SemWaitInterrupted
<1>7. ASSUME NEW t \in Threads, LockStopped(t) PROVE TypeInv'
  BY <1>7 DEF LockStopped
<1>8. ASSUME NEW t \in Threads, LockAssign(t) PROVE TypeInv'
  <2>1. next' \in Slots
    BY <1>8 DEF LockAssign, Slots
  <2> QED
    BY <1>8, <2>1 DEF LockAssign, WorkerState
<1>9. ASSUME NEW t \in Threads, LockFindsNone(t) PROVE TypeInv'
  BY <1>9 DEF LockFindsNone
<1>10. ASSUME NEW t \in Threads, GiveBack(t) PROVE TypeInv'
  BY <1>10 DEF GiveBack
<1>11. ASSUME NEW t \in Threads, CheckAlive(t) PROVE TypeInv'
  BY <1>11 DEF CheckAlive, Waited, ProcState
<1>12. ASSUME NEW t \in Threads, Discard(t) PROVE TypeInv'
  <2>1. Remove(held[t])
    BY <1>12 DEF Discard
  <2>2. tries[t] + 1 \in 0 .. MaxNrProcesses + 1
    BY <1>12 DEF Discard
  <2> QED
    BY <1>12, <2>1, <2>2, RemoveType DEF Discard
<1>13. ASSUME NEW t \in Threads, UseFindsDead(t) PROVE TypeInv'
  BY <1>13 DEF UseFindsDead, Waited, ProcState
<1>14. ASSUME NEW t \in Threads, ReleaseWorker(t) PROVE TypeInv'
  BY <1>14 DEF ReleaseWorker
<1>15. ASSUME NEW t \in Threads, ReleaseAlive(t) PROVE TypeInv'
  BY <1>15 DEF ReleaseAlive, WorkerState
<1>16. ASSUME NEW t \in Threads, ReleaseDead(t) PROVE TypeInv'
  <2>1. Remove(held[t])
    BY <1>16 DEF ReleaseDead
  <2> QED
    BY <1>16, <2>1, RemoveType DEF ReleaseDead
<1>17. ASSUME NEW t \in Threads, ReleasePost(t) PROVE TypeInv'
  BY <1>17 DEF ReleasePost
<1>18. ASSUME NEW w \in Workers, Die(w) PROVE TypeInv'
  BY <1>18 DEF Die, ProcState
<1>19. CASE FreeStop
  BY <1>19 DEF FreeStop, ProcState
<1>20. CASE FreeDrain
  BY <1>20 DEF FreeDrain
<1>21. CASE FreeDealloc
  <2>1. worker' \in [Slots -> Workers \cup {NULL}]
    BY <1>21 DEF FreeDealloc
  <2>2. proc' \in [Workers -> ProcState]
    BY <1>21 DEF FreeDealloc, ProcState
  <2> QED
    BY <1>21, <2>1, <2>2 DEF FreeDealloc
<1>22. CASE FreeReturn
  BY <1>22 DEF FreeReturn
<1>23. CASE UNCHANGED vars
  BY <1>23 DEF vars
<1> QED
  BY <1>1, <1>2, <1>3, <1>4, <1>5, <1>6, <1>7, <1>8, <1>9, <1>10, <1>11,
     <1>12, <1>13, <1>14, <1>15, <1>16, <1>17, <1>18, <1>19, <1>20, <1>21,
     <1>22, <1>23
  DEF Next, ThreadStep, FreeStep

(* Type correctness of the pool. *)
THEOREM PoolTypeCorrect == Spec => []TypeOK
<1>1. TypeInv => TypeOK
  BY DEF TypeInv
<1> QED
  BY <1>1, TypeInit, TypeStep, PTL DEF Spec

-----------------------------------------------------------------------------
(* Ownership.  OwnedExclusively is not inductive by itself: that a thread's *)
(* worker cannot be freed or handed out behind its back rests on what the   *)
(* slots hold and on how far a shutdown has got.                            *)

(* A worker is in at most one slot, is allocated as long as it is there, and *)
(* until the deallocation loop a slot has a worker iff it is not STOPPED.   *)
SlotInv ==
  /\ \A i, j \in Slots : worker[i] = worker[j] /\ worker[i] # NULL => i = j
  /\ \A i \in Slots : worker[i] # NULL =>
       proc[worker[i]] # "none" /\ worker_state[i] # "STOPPED"
  /\ freepc \in {"open", "drain"} =>
       \A i \in Slots : worker_state[i] # "STOPPED" => worker[i] # NULL

(* A shutdown sets the stop flag first, deallocates only when no worker is *)
(* busy, and has emptied the slots below its loop counter.                 *)
ShutdownInv ==
  /\ freepc = "open" => ~stop
  /\ freepc # "open" => stop
  /\ freepc \in {"dealloc", "done"} => \A i \in Slots : worker_state[i] # "BUSY"
  /\ freepc \in {"open", "drain"} => dealloc = 0
  /\ freepc = "done" => dealloc = MaxNrProcesses
  /\ \A i \in Slots : i < dealloc => worker[i] = NULL

(* Every allocated struct is in a slot *)
Reachable == \A w \in Workers : proc[w] # "none" => \E i \in Slots : worker[i] = w

PoolInv == TypeInv /\ SlotInv /\ ShutdownInv /\ Reachable /\ OwnedExclusively

LEMMA PoolInit == Init => PoolInv
<1> SUFFICES ASSUME Init PROVE PoolInv
  OBVIOUS
<1>1. TypeInv
  BY TypeInit
<1>2. SlotInv
  BY DEF Init, SlotInv
<1>3. ShutdownInv
  BY PoolConstants DEF Init, ShutdownInv, Slots
<1>4. Reachable
  BY DEF Init, Reachable
<1>5. OwnedExclusively
  BY DEF Init, OwnedExclusively, Holding
<1> QED
  BY <1>1, <1>2, <1>3, <1>4, <1>5 DEF PoolInv

(* A step that touches neither the slots nor the processes nor the         *)
(* shutdown, and gives or takes no worker, keeps the invariant.            *)
LEMMA Elsewhere ==
  ASSUME PoolInv, TypeInv',
         UNCHANGED <<worker, worker_state, proc, held, stop, freepc, dealloc>>,
         \A u \in Threads : pc'[u] \in Holding => pc[u] \in Holding
  PROVE  PoolInv'
<1>1. SlotInv'
  BY DEF PoolInv, SlotInv
<1>2. ShutdownInv'
  BY DEF PoolInv, ShutdownInv
<1>3. Reachable'
  BY DEF PoolInv, Reachable
<1>4. OwnedExclusively'
  BY DEF PoolInv, OwnedExclusively
<1> QED
  BY <1>1, <1>2, <1>3, <1>4 DEF PoolInv

(* Removing the worker that a thread holds keeps the invariant, provided   *)
(* that the thread then holds nothing.                                     *)
LEMMA RemoveHeld ==
  ASSUME PoolInv, TypeInv', NEW t \in Threads, pc[t] \in Holding,
         Remove(held[t]), held' = [held EXCEPT ![t] = NULL],
         pc'[t] \notin Holding, \A u \in Threads \ {t} : pc'[u] = pc[u],
         UNCHANGED <<stop, freepc, dealloc>>
  PROVE  PoolInv'
<1> USE DEF PoolInv
<1>1. held[t] \in Workers /\ \E i \in Slots : worker[i] = held[t]
  BY DEF OwnedExclusively, TypeInv, TypeOK
<1>2. SlotInv'
  BY <1>1 DEF SlotInv, Remove, TypeInv, TypeOK
<1>3. ShutdownInv'
  BY DEF ShutdownInv, Remove, TypeInv, TypeOK
<1>4. Reachable'
  BY <1>1 DEF Reachable, Remove, TypeInv, TypeOK
<1>5. OwnedExclusively'
  BY <1>1 DEF OwnedExclusively, Remove, TypeInv, TypeOK
<1> QED
  BY <1>2, <1>3, <1>4, <1>5

LEMMA PoolStep == PoolInv /\ [Next]_vars => PoolInv'
<1> SUFFICES ASSUME PoolInv, [Next]_vars PROVE PoolInv'
  OBVIOUS
<1>0. TypeInv /\ TypeInv'
  BY TypeStep DEF PoolInv
<1> USE DEF Goto, poolVars, threadVars, freeVars
<1>1. ASSUME NEW t \in Threads,
             \/ GetWorker(t) \/ GetValue(t) \/ StartsNothing(t) \/ SemWait(t)
             \/ SemWaitInterrupted(t) \/ LockStopped(t) \/ LockFindsNone(t)
             \/ GiveBack(t) \/ ReleaseWorker(t) \/ ReleasePost(t)
      PROVE  PoolInv'
  <2>1. UNCHANGED <<worker, worker_state, proc, held, stop, freepc, dealloc>>
    BY <1>1 DEF GetWorker, GetValue, StartsNothing, SemWait, SemWaitInterrupted,
                LockStopped, LockFindsNone, GiveBack, ReleaseWorker, ReleasePost
  <2>2. \A u \in Threads : pc'[u] \in Holding => pc[u] \in Holding
    BY <1>0, <1>1
    DEF TypeInv, TypeOK, Holding, GetWorker, GetValue, StartsNothing, SemWait, SemWaitInterrupted,
        LockStopped, LockFindsNone, GiveBack, ReleaseWorker, ReleasePost
  <2> QED
    BY <1>0, <2>1, <2>2, Elsewhere
<1>2. ASSUME NEW t \in Threads, StartSucceeds(t) PROVE PoolInv'
  <2>1. PICK i \in Slots, w \in Workers :
          /\ worker_state[i] = "STOPPED"
          /\ proc[w] = "none"
          /\ worker' = [worker EXCEPT ![i] = w]
          /\ worker_state' = [worker_state EXCEPT ![i] = "IDLE"]
          /\ proc' = [proc EXCEPT ![w] = "running"]
    BY <1>2 DEF StartSucceeds, FirstStopped
  <2>2. freepc = "open" /\ ~stop /\ worker[i] = NULL /\ NULL \notin Workers
    BY <1>2, <2>1, PoolConstants DEF StartSucceeds, CanStart, PoolInv, ShutdownInv, SlotInv
  <2>3. /\ UNCHANGED <<held, stop, freepc, dealloc>>
        /\ \A u \in Threads : pc'[u] \in Holding <=> u # t /\ pc[u] \in Holding
    BY <1>0, <1>2 DEF StartSucceeds, TypeInv, TypeOK, Holding
  <2>4. SlotInv'
    BY <1>0, <2>1, <2>2, <2>3 DEF PoolInv, SlotInv, TypeInv, TypeOK
  <2>5. ShutdownInv'
    BY <1>0, <2>1, <2>2, <2>3 DEF PoolInv, ShutdownInv, TypeInv, TypeOK, Slots
  <2>6. Reachable'
    BY <1>0, <2>1, <2>2 DEF PoolInv, Reachable, TypeInv, TypeOK
  <2>7. OwnedExclusively'
    BY <1>0, <2>1, <2>2, <2>3 DEF PoolInv, OwnedExclusively, TypeInv, TypeOK
  <2> QED
    BY <1>0, <2>4, <2>5, <2>6, <2>7 DEF PoolInv
<1>3. ASSUME NEW t \in Threads, LockAssign(t) PROVE PoolInv'
  <2>1. PICK j \in Slots :
          /\ worker_state[j] = "IDLE"
          /\ worker_state' = [worker_state EXCEPT ![j] = "BUSY"]
          /\ held' = [held EXCEPT ![t] = worker[j]]
    BY <1>3 DEF LockAssign, BestSlot
  <2>2. freepc = "open" /\ ~stop /\ worker[j] # NULL
    BY <1>3, <2>1 DEF LockAssign, PoolInv, ShutdownInv, SlotInv
  <2>3. /\ UNCHANGED <<worker, proc, stop, freepc, dealloc>>
        /\ \A u \in Threads : pc'[u] \in Holding <=> u = t \/ pc[u] \in Holding
    BY <1>0, <1>3 DEF LockAssign, TypeInv, TypeOK, Holding
  <2>4. SlotInv'
    BY <1>0, <2>1, <2>2, <2>3 DEF PoolInv, SlotInv, TypeInv, TypeOK
  <2>5. ShutdownInv'
    BY <1>0, <2>1, <2>2, <2>3 DEF PoolInv, ShutdownInv, TypeInv, TypeOK
  <2>6. Reachable'
    BY <2>3 DEF PoolInv, Reachable
  <2>7. OwnedExclusively'
    BY <1>0, <2>1, <2>2, <2>3 DEF PoolInv, OwnedExclusively, SlotInv, TypeInv, TypeOK
  <2> QED
    BY <1>0, <2>4, <2>5, <2>6, <2>7 DEF PoolInv
<1>4. ASSUME NEW t \in Threads, CheckAlive(t) \/ UseFindsDead(t) PROVE PoolInv'
  <2>1. /\ UNCHANGED <<worker, worker_state, held, stop, freepc, dealloc>>
        /\ \A u \in Threads : pc'[u] \in Holding <=> pc[u] \in Holding
        /\ \A w \in Workers : proc'[w] = "none" <=> proc[w] = "none"
    BY <1>0, <1>4 DEF CheckAlive, UseFindsDead, Waited, TypeInv, TypeOK, Holding
  <2>2. SlotInv'
    BY <1>0, <2>1 DEF PoolInv, SlotInv, TypeInv, TypeOK
  <2>3. ShutdownInv'
    BY <2>1 DEF PoolInv, ShutdownInv
  <2>4. Reachable'
    BY <2>1 DEF PoolInv, Reachable
  <2>5. OwnedExclusively'
    BY <1>0, <2>1 DEF PoolInv, OwnedExclusively, TypeInv, TypeOK
  <2> QED
    BY <1>0, <2>2, <2>3, <2>4, <2>5 DEF PoolInv
<1>5. ASSUME NEW t \in Threads, Discard(t) \/ ReleaseDead(t) PROVE PoolInv'
  <2>1. /\ pc[t] \in Holding
        /\ Remove(held[t])
        /\ held' = [held EXCEPT ![t] = NULL]
        /\ UNCHANGED <<stop, freepc, dealloc>>
    BY <1>5 DEF Discard, ReleaseDead, Holding
  <2>2. pc'[t] \notin Holding /\ \A u \in Threads \ {t} : pc'[u] = pc[u]
    BY <1>0, <1>5 DEF Discard, ReleaseDead, Holding, TypeInv, TypeOK
  <2> QED
    BY <1>0, <2>1, <2>2, RemoveHeld
<1>6. ASSUME NEW t \in Threads, ReleaseAlive(t) PROVE PoolInv'
  <2>1. /\ UNCHANGED <<worker, proc, stop, freepc, dealloc>>
        /\ pc[t] \in Holding
        /\ worker_state' = [i \in Slots |-> IF worker[i] = held[t] THEN "IDLE" ELSE worker_state[i]]
        /\ held' = [held EXCEPT ![t] = NULL]
        /\ \A u \in Threads : pc'[u] \in Holding <=> u # t /\ pc[u] \in Holding
    BY <1>0, <1>6 DEF ReleaseAlive, TypeInv, TypeOK, Holding
  <2>2. held[t] # NULL
    BY <2>1 DEF PoolInv, OwnedExclusively
  <2>3. SlotInv'
    BY <2>1, <2>2 DEF PoolInv, SlotInv
  <2>4. ShutdownInv'
    BY <2>1 DEF PoolInv, ShutdownInv
  <2>5. Reachable'
    BY <2>1 DEF PoolInv, Reachable
  <2>6. OwnedExclusively'
    BY <1>0, <2>1 DEF PoolInv, OwnedExclusively, TypeInv, TypeOK
  <2> QED
    BY <1>0, <2>3, <2>4, <2>5, <2>6 DEF PoolInv
<1>7. ASSUME NEW w \in Workers, Die(w) PROVE PoolInv'
  <2>1. /\ UNCHANGED <<worker, worker_state, held, stop, freepc, dealloc, pc>>
        /\ \A v \in Workers : proc'[v] = "none" <=> proc[v] = "none"
    BY <1>0, <1>7 DEF Die, TypeInv, TypeOK
  <2>2. SlotInv'
    BY <1>0, <2>1 DEF PoolInv, SlotInv, TypeInv, TypeOK
  <2>3. ShutdownInv'
    BY <2>1 DEF PoolInv, ShutdownInv
  <2>4. Reachable'
    BY <2>1 DEF PoolInv, Reachable
  <2>5. OwnedExclusively'
    BY <1>0, <2>1 DEF PoolInv, OwnedExclusively, TypeInv, TypeOK
  <2> QED
    BY <1>0, <2>2, <2>3, <2>4, <2>5 DEF PoolInv
<1>8. CASE FreeStop
  <2>1. /\ UNCHANGED <<worker, worker_state, held, dealloc, pc>>
        /\ freepc = "open" /\ freepc' = "drain" /\ stop'
        /\ \A v \in Workers : proc'[v] = "none" <=> proc[v] = "none"
    BY <1>0, <1>8 DEF FreeStop, TypeInv, TypeOK
  <2>2. SlotInv'
    BY <1>0, <2>1 DEF PoolInv, SlotInv, TypeInv, TypeOK
  <2>3. ShutdownInv'
    BY <2>1 DEF PoolInv, ShutdownInv
  <2>4. Reachable'
    BY <2>1 DEF PoolInv, Reachable
  <2>5. OwnedExclusively'
    BY <1>0, <2>1 DEF PoolInv, OwnedExclusively, TypeInv, TypeOK
  <2> QED
    BY <1>0, <2>2, <2>3, <2>4, <2>5 DEF PoolInv
<1>9. CASE FreeDrain
  <2>1. SlotInv'
    BY <1>9 DEF FreeDrain, PoolInv, SlotInv
  <2>2. ShutdownInv'
    BY <1>9 DEF FreeDrain, PoolInv, ShutdownInv
  <2>3. Reachable'
    BY <1>9 DEF FreeDrain, PoolInv, Reachable
  <2>4. OwnedExclusively'
    BY <1>9 DEF FreeDrain, PoolInv, OwnedExclusively
  <2> QED
    BY <1>0, <2>1, <2>2, <2>3, <2>4 DEF PoolInv
<1>10. CASE FreeDealloc
  <2>1. /\ freepc = "dealloc" /\ dealloc \in Slots /\ dealloc' = dealloc + 1
        /\ worker' = [worker EXCEPT ![dealloc] = NULL]
        /\ proc' = [w \in Workers |-> IF w = worker[dealloc] THEN "none" ELSE proc[w]]
        /\ UNCHANGED <<worker_state, held, stop, freepc, pc>>
    BY <1>0, <1>10, PoolConstants DEF FreeDealloc, TypeInv, TypeOK, Slots
  <2>2. SlotInv'
    BY <1>0, <2>1 DEF PoolInv, SlotInv, TypeInv, TypeOK
  <2>3. ShutdownInv'
    BY <1>0, <2>1, PoolConstants DEF PoolInv, ShutdownInv, TypeInv, TypeOK, Slots
  <2>4. Reachable'
    BY <1>0, <2>1 DEF PoolInv, Reachable, TypeInv, TypeOK
  <2>5. \A t \in Threads : pc[t] \notin Holding
    BY <2>1 DEF PoolInv, ShutdownInv, OwnedExclusively
  <2>6. OwnedExclusively'
    BY <2>1, <2>5 DEF OwnedExclusively
  <2> QED
    BY <1>0, <2>2, <2>3, <2>4, <2>6 DEF PoolInv
<1>11. CASE FreeReturn
  <2>1. SlotInv'
    BY <1>11 DEF FreeReturn, PoolInv, SlotInv
  <2>2. ShutdownInv'
    BY <1>11 DEF FreeReturn, PoolInv, ShutdownInv
  <2>3. Reachable'
    BY <1>11 DEF FreeReturn, PoolInv, Reachable
  <2>4. OwnedExclusively'
    BY <1>11 DEF FreeReturn, PoolInv, OwnedExclusively
  <2> QED
    BY <1>0, <2>1, <2>2, <2>3, <2>4 DEF PoolInv
<1>12. CASE UNCHANGED vars
  BY <1>0, <1>12, Elsewhere DEF vars
<1> QED
  BY <1>1, <1>2, <1>3, <1>4, <1>5, <1>6, <1>7, <1>8, <1>9, <1>10, <1>11, <1>12
  DEF Next, ThreadStep, FreeStep

(* Whatever the interleaving, the crashes and the interrupted waits, a     *)
(* worker in a thread's hands is allocated, in a BUSY slot, and its alone. *)
THEOREM PoolOwnership == Spec => []OwnedExclusively
<1>1. PoolInv => OwnedExclusively
  BY DEF PoolInv
<1> QED
  BY <1>1, PoolInit, PoolStep, PTL DEF Spec

(* The pool loses no worker, and process_pool_free leaves none behind.     *)
THEOREM PoolNoOrphans == Spec => []NoOrphans
<1>1. PoolInv => NoOrphans
  <2> SUFFICES ASSUME PoolInv PROVE NoOrphans
    OBVIOUS
  <2>1. freepc = "done" => \A i \in Slots : worker[i] = NULL
    BY PoolConstants DEF PoolInv, ShutdownInv, Slots
  <2>2. NULL \notin Workers
    BY PoolConstants
  <2> QED
    BY <2>1, <2>2 DEF PoolInv, Reachable, NoOrphans
<1> QED
  BY <1>1, PoolInit, PoolStep, PTL DEF Spec

-----------------------------------------------------------------------------
(* The two counters of the process pool, nr_processes_running and the      *)
(* semaphore, count what they are meant to count.                          *)

(* A finite set that gains one element is one larger, one that loses an    *)
(* element is one smaller.                                                 *)
LEMMA OneMore ==
  ASSUME NEW S, IsFiniteSet(S), NEW x, x \notin S, NEW T, T = S \cup {x}
  PROVE  Cardinality(T) = Cardinality(S) + 1
BY FS_AddElement

LEMMA OneLess ==
  ASSUME NEW S, IsFiniteSet(S), NEW x \in S, NEW T, T = S \ {x}
  PROVE  Cardinality(T) = Cardinality(S) - 1
BY FS_RemoveElement

(* What the counters count are finite sets. *)
LEMMA CountedSets ==
  /\ IsFiniteSet(IdleSlots) /\ Cardinality(IdleSlots) \in Nat
  /\ IsFiniteSet(RunningSlots) /\ Cardinality(RunningSlots) \in Nat
  /\ IsFiniteSet(PermitHolders) /\ Cardinality(PermitHolders) \in Nat
<1>1. IdleSlots \in SUBSET Slots /\ RunningSlots \in SUBSET Slots
  BY DEF IdleSlots, RunningSlots
<1>2. PermitHolders \in SUBSET Threads
  BY DEF PermitHolders, ThreadsAt
<1>3. IsFiniteSet(PermitHolders)
  BY <1>2, PoolConstants, FS_Subset
<1> QED
  BY <1>1, <1>3, SlotsFinite, FS_CardinalityType

(* A thread holds the worker of exactly one slot, and that slot is BUSY.   *)
LEMMA HeldSlot ==
  ASSUME PoolInv, NEW t \in Threads, pc[t] \in Holding
  PROVE  \E k \in Slots : /\ worker_state[k] = "BUSY"
                          /\ \A i \in Slots : worker[i] = held[t] <=> i = k
BY DEF PoolInv, OwnedExclusively, SlotInv

-----------------------------------------------------------------------------
(* nr_processes_running *)

LEMMA RunningInit == Init => RunningCount
<1> SUFFICES ASSUME Init PROVE RunningCount
  OBVIOUS
<1>1. RunningSlots = {}
  BY DEF Init, RunningSlots
<1> QED
  BY <1>1, FS_EmptySet DEF Init, RunningCount

(* Removing a held worker takes one slot and one from the count *)
LEMMA RunningRemove ==
  ASSUME PoolInv, RunningCount, NEW t \in Threads, pc[t] \in Holding, Remove(held[t])
  PROVE  RunningCount'
<1>1. PICK k \in Slots : /\ worker_state[k] = "BUSY"
                         /\ \A i \in Slots : worker[i] = held[t] <=> i = k
  BY HeldSlot
<1>2. {i \in Slots : worker[i] = held[t]} = {k}
  BY <1>1
<1>3. nr_processes_running' = nr_processes_running - 1
  BY <1>2, FS_Singleton DEF Remove
<1>4. RunningSlots' = RunningSlots \ {k} /\ k \in RunningSlots
  BY <1>1 DEF RunningSlots, Remove, PoolInv, TypeInv, TypeOK
<1> QED
  BY <1>3, <1>4, CountedSets, OneLess DEF RunningCount

LEMMA RunningStep == PoolInv /\ RunningCount /\ [Next]_vars => RunningCount'
<1> SUFFICES ASSUME PoolInv, RunningCount, [Next]_vars PROVE RunningCount'
  OBVIOUS
<1> USE DEF poolVars, threadVars
<1>0. TypeOK
  BY DEF PoolInv, TypeInv
<1>1. ASSUME UNCHANGED <<worker_state, nr_processes_running>> PROVE RunningCount'
  BY <1>1 DEF RunningCount, RunningSlots
<1>2. ASSUME NEW t \in Threads, StartSucceeds(t) PROVE RunningCount'
  <2>1. PICK i \in Slots : /\ worker_state[i] = "STOPPED"
                           /\ worker_state' = [worker_state EXCEPT ![i] = "IDLE"]
    BY <1>2 DEF StartSucceeds, FirstStopped
  <2>2. RunningSlots' = RunningSlots \cup {i} /\ i \notin RunningSlots
    BY <1>0, <2>1 DEF RunningSlots, TypeOK
  <2> QED
    BY <1>2, <2>2, CountedSets, OneMore DEF RunningCount, StartSucceeds
<1>3. ASSUME NEW t \in Threads, LockAssign(t) PROVE RunningCount'
  <2>1. PICK j \in Slots : /\ worker_state[j] = "IDLE"
                           /\ worker_state' = [worker_state EXCEPT ![j] = "BUSY"]
    BY <1>3 DEF LockAssign, BestSlot
  <2>2. RunningSlots' = RunningSlots
    BY <1>0, <2>1 DEF RunningSlots, TypeOK
  <2> QED
    BY <1>3, <2>2 DEF RunningCount, LockAssign
<1>4. ASSUME NEW t \in Threads, ReleaseAlive(t) PROVE RunningCount'
  <2>1. PICK k \in Slots : /\ worker_state[k] = "BUSY"
                           /\ \A i \in Slots : worker[i] = held[t] <=> i = k
    BY <1>4, HeldSlot DEF ReleaseAlive, Holding
  <2>2. RunningSlots' = RunningSlots
    BY <1>0, <1>4, <2>1 DEF RunningSlots, ReleaseAlive, TypeOK
  <2> QED
    BY <1>4, <2>2 DEF RunningCount, ReleaseAlive
<1>5. ASSUME NEW t \in Threads, Discard(t) \/ ReleaseDead(t) PROVE RunningCount'
  BY <1>5, RunningRemove DEF Discard, ReleaseDead, Holding
<1> QED
  BY <1>1, <1>2, <1>3, <1>4, <1>5
  DEF Next, ThreadStep, FreeStep, vars, GetWorker, GetValue, StartsNothing, SemWait,
      SemWaitInterrupted, LockStopped, LockFindsNone, GiveBack, CheckAlive,
      UseFindsDead, ReleaseWorker, ReleasePost, Die, FreeStop, FreeDrain,
      FreeDealloc, FreeReturn

(* nr_processes_running is the number of slots that are not STOPPED, so it *)
(* never passes max_nr_processes (the assert of process_pool_start_worker) *)
(* and a start that the count allows finds a slot.                         *)
THEOREM PoolRunningCount == Spec => []RunningCount
BY PoolInit, PoolStep, RunningInit, RunningStep, PTL DEF Spec

-----------------------------------------------------------------------------
(* The semaphore *)

LEMMA PermitInit == Init => PermitAccounting
<1> SUFFICES ASSUME Init PROVE PermitAccounting
  OBVIOUS
<1>1. IdleSlots = {}
  BY DEF Init, IdleSlots
<1>2. PermitHolders = {}
  BY DEF Init, PermitHolders, ThreadsAt
<1>3. sem = 0 /\ interrupts = 0 /\ ~stop
  BY DEF Init
<1> QED
  BY <1>1, <1>2, <1>3, FS_EmptySet DEF PermitAccounting

LEMMA PermitStep == PoolInv /\ PermitAccounting /\ [Next]_vars => PermitAccounting'
<1> SUFFICES ASSUME PoolInv, PermitAccounting, [Next]_vars PROVE PermitAccounting'
  OBVIOUS
<1> USE DEF poolVars, threadVars, freeVars, Goto
<1>0. TypeOK /\ TypeOK'
  BY PoolStep DEF PoolInv, TypeInv
<1>a. ASSUME worker_state' = worker_state PROVE IdleSlots' = IdleSlots
  BY <1>a DEF IdleSlots
<1>b. \A t \in Threads, place \in Place :
        pc' = [pc EXCEPT ![t] = place] =>
          PermitHolders' = IF place \in {"lock", "giveback", "post"}
                           THEN PermitHolders \cup {t} ELSE PermitHolders \ {t}
  BY <1>0 DEF PermitHolders, ThreadsAt, TypeOK
<1>c. \A t \in Threads : t \in PermitHolders <=> pc[t] \in {"lock", "giveback", "post"}
  BY DEF PermitHolders, ThreadsAt
<1>d. interrupts \in Int /\ sem \in Int /\ stop \in BOOLEAN
  BY <1>0, PoolConstants DEF TypeOK
<1>1. ASSUME NEW t \in Threads, SemWait(t) PROVE PermitAccounting'
  <2>1. PermitHolders' = PermitHolders \cup {t} /\ t \notin PermitHolders
    BY <1>1, <1>b, <1>c DEF SemWait, Place
  <2>2. Cardinality(PermitHolders') = Cardinality(PermitHolders) + 1
    BY <2>1, CountedSets, OneMore
  <2>3. IdleSlots' = IdleSlots /\ sem' = sem - 1 /\ UNCHANGED <<stop, interrupts>>
    BY <1>1, <1>a DEF SemWait
  <2> QED
    BY <2>2, <2>3, <1>d, CountedSets DEF PermitAccounting
<1>2. ASSUME NEW t \in Threads, SemWaitInterrupted(t) PROVE PermitAccounting'
  <2>1. PermitHolders' = PermitHolders \cup {t} /\ t \notin PermitHolders
    BY <1>2, <1>b, <1>c DEF SemWaitInterrupted, Place
  <2>2. Cardinality(PermitHolders') = Cardinality(PermitHolders) + 1
    BY <2>1, CountedSets, OneMore
  <2>3. IdleSlots' = IdleSlots /\ interrupts' = interrupts + 1 /\ UNCHANGED <<stop, sem>>
    BY <1>2, <1>a DEF SemWaitInterrupted
  <2> QED
    BY <2>2, <2>3, <1>d, CountedSets DEF PermitAccounting
<1>3. ASSUME NEW t \in Threads, LockStopped(t) \/ GiveBack(t) \/ ReleasePost(t)
      PROVE  PermitAccounting'
  <2>1. PermitHolders' = PermitHolders \ {t} /\ t \in PermitHolders
    BY <1>3, <1>b, <1>c DEF LockStopped, GiveBack, ReleasePost, Place
  <2>2. Cardinality(PermitHolders') = Cardinality(PermitHolders) - 1
    BY <2>1, CountedSets, OneLess
  <2>3. IdleSlots' = IdleSlots /\ sem' = sem + 1 /\ UNCHANGED <<stop, interrupts>>
    BY <1>3, <1>a DEF LockStopped, GiveBack, ReleasePost
  <2> QED
    BY <2>2, <2>3, <1>d, CountedSets DEF PermitAccounting
<1>4. ASSUME NEW t \in Threads, StartSucceeds(t) PROVE PermitAccounting'
  <2>1. PICK i \in Slots : /\ worker_state[i] = "STOPPED"
                           /\ worker_state' = [worker_state EXCEPT ![i] = "IDLE"]
    BY <1>4 DEF StartSucceeds, FirstStopped
  <2>2. IdleSlots' = IdleSlots \cup {i} /\ i \notin IdleSlots
    BY <1>0, <2>1 DEF IdleSlots, TypeOK
  <2>3. Cardinality(IdleSlots') = Cardinality(IdleSlots) + 1
    BY <2>2, CountedSets, OneMore
  <2>4. PermitHolders' = PermitHolders
    <3>1. pc[t] = "start" /\ pc' = [pc EXCEPT ![t] = "wait"]
      BY <1>4 DEF StartSucceeds
    <3>2. PermitHolders' = PermitHolders \ {t}
      BY <3>1, <1>b DEF Place
    <3>3. t \notin PermitHolders
      BY <3>1, <1>c
    <3> QED
      BY <3>2, <3>3
  <2>5. sem' = sem + 1 /\ UNCHANGED <<stop, interrupts>>
    BY <1>4 DEF StartSucceeds
  <2> QED
    BY <2>3, <2>4, <2>5, <1>d, CountedSets DEF PermitAccounting
<1>5. ASSUME NEW t \in Threads, LockAssign(t) PROVE PermitAccounting'
  <2>1. PICK j \in Slots : /\ worker_state[j] = "IDLE"
                           /\ worker_state' = [worker_state EXCEPT ![j] = "BUSY"]
    BY <1>5 DEF LockAssign, BestSlot
  <2>2. IdleSlots' = IdleSlots \ {j} /\ j \in IdleSlots
    BY <1>0, <2>1 DEF IdleSlots, TypeOK
  <2>3. Cardinality(IdleSlots') = Cardinality(IdleSlots) - 1
    BY <2>2, CountedSets, OneLess
  <2>4. PermitHolders' = PermitHolders \ {t} /\ t \in PermitHolders
    BY <1>5, <1>b, <1>c DEF LockAssign, Place
  <2>5. Cardinality(PermitHolders') = Cardinality(PermitHolders) - 1
    BY <2>4, CountedSets, OneLess
  <2>6. UNCHANGED <<sem, stop, interrupts>>
    BY <1>5 DEF LockAssign
  <2> QED
    BY <2>3, <2>5, <2>6, <1>d, CountedSets DEF PermitAccounting
<1>6. ASSUME NEW t \in Threads, ReleaseAlive(t) PROVE PermitAccounting'
  <2>1. PICK k \in Slots : /\ worker_state[k] = "BUSY"
                           /\ \A i \in Slots : worker[i] = held[t] <=> i = k
    BY <1>6, HeldSlot DEF ReleaseAlive, Holding
  <2>2. IdleSlots' = IdleSlots \cup {k} /\ k \notin IdleSlots
    BY <1>0, <1>6, <2>1 DEF IdleSlots, ReleaseAlive, TypeOK
  <2>3. Cardinality(IdleSlots') = Cardinality(IdleSlots) + 1
    BY <2>2, CountedSets, OneMore
  <2>4. PermitHolders' = PermitHolders \cup {t} /\ t \notin PermitHolders
    BY <1>6, <1>b, <1>c, <2>1 DEF ReleaseAlive, Place
  <2>5. Cardinality(PermitHolders') = Cardinality(PermitHolders) + 1
    BY <2>4, CountedSets, OneMore
  <2>6. UNCHANGED <<sem, stop, interrupts>>
    BY <1>6 DEF ReleaseAlive
  <2> QED
    BY <2>3, <2>5, <2>6, <1>d, CountedSets DEF PermitAccounting
<1>7. ASSUME NEW t \in Threads, Discard(t) \/ ReleaseDead(t) PROVE PermitAccounting'
  <2>1. Remove(held[t]) /\ pc[t] \in {"discard", "release"} /\ UNCHANGED <<sem, stop, interrupts>>
    BY <1>7 DEF Discard, ReleaseDead
  <2>2. PICK k \in Slots : /\ worker_state[k] = "BUSY"
                           /\ \A i \in Slots : worker[i] = held[t] <=> i = k
    BY <2>1, HeldSlot DEF Holding
  <2>3. IdleSlots' = IdleSlots
    BY <1>0, <2>1, <2>2 DEF IdleSlots, Remove, TypeOK
  <2>4. PermitHolders' = PermitHolders
    BY <1>7, <2>1, <1>b, <1>c DEF Discard, ReleaseDead, Place
  <2> QED
    BY <2>1, <2>3, <2>4 DEF PermitAccounting
<1>8. ASSUME NEW t \in Threads,
             \/ GetWorker(t) \/ GetValue(t) \/ StartsNothing(t) \/ LockFindsNone(t)
             \/ CheckAlive(t) \/ ReleaseWorker(t) \/ UseFindsDead(t)
      PROVE  PermitAccounting'
  <2>1. IdleSlots' = IdleSlots /\ UNCHANGED <<sem, stop, interrupts>>
    BY <1>8, <1>a DEF GetWorker, GetValue, StartsNothing, LockFindsNone, CheckAlive,
                      ReleaseWorker, UseFindsDead
  <2>2. PermitHolders' = PermitHolders
    <3>1. CASE UseFindsDead(t)
      BY <3>1 DEF UseFindsDead, PermitHolders, ThreadsAt
    <3>2. CASE ~UseFindsDead(t)
      BY <1>8, <1>b, <1>c, <3>2
      DEF GetWorker, GetValue, StartsNothing, LockFindsNone, CheckAlive, ReleaseWorker, Place
    <3> QED
      BY <3>1, <3>2
  <2> QED
    BY <2>1, <2>2 DEF PermitAccounting
<1>9. CASE FreeStop
  <2>1. IdleSlots' = IdleSlots /\ PermitHolders' = PermitHolders
    BY <1>9, <1>a DEF FreeStop, PermitHolders, ThreadsAt
  <2>2. (IF stop THEN 1 ELSE 0) = 0 /\ (IF stop' THEN 1 ELSE 0) = 1
    BY <1>9 DEF FreeStop, PoolInv, ShutdownInv
  <2>3. sem' = sem + 1 /\ interrupts' = interrupts
    BY <1>9 DEF FreeStop
  <2>4. Cardinality(IdleSlots) + 0 + interrupts = sem + Cardinality(PermitHolders)
    BY <2>2 DEF PermitAccounting
  <2>5. Cardinality(IdleSlots) + 1 + interrupts = sem + 1 + Cardinality(PermitHolders)
    BY <2>4, <1>d, CountedSets
  <2> QED
    BY <2>1, <2>2, <2>3, <2>5 DEF PermitAccounting
<1>10. ASSUME UNCHANGED <<worker_state, sem, stop, interrupts, pc>> PROVE PermitAccounting'
  BY <1>10 DEF PermitAccounting, IdleSlots, PermitHolders, ThreadsAt
<1>11. ASSUME NEW w \in Workers, Die(w) PROVE PermitAccounting'
  BY <1>10, <1>11 DEF Die
<1>12. CASE FreeStep \/ UNCHANGED vars
  BY <1>10, <1>12 DEF FreeStep, FreeDrain, FreeDealloc, FreeReturn, vars
<1> QED
  BY <1>1, <1>2, <1>3, <1>4, <1>5, <1>6, <1>7, <1>8, <1>9, <1>11, <1>12
  DEF Next, ThreadStep

(* Every idle worker has one permit, no more and no fewer, except that     *)
(* shutdown adds one and every interrupted sem_wait leaks one.             *)
THEOREM PoolPermits == Spec => []PermitAccounting
BY PoolInit, PoolStep, PermitInit, PermitStep, PTL DEF Spec

(* Up to the waits that a signal has interrupted, the branch that "should  *)
(* not happen" cannot: threads past the semaphore find idle workers.       *)
THEOREM PoolReservation ==
  Spec => []ReservationHolds
<1>1. PoolInv /\ PermitAccounting => ReservationHolds
  <2> SUFFICES ASSUME PoolInv, PermitAccounting, ~stop
               PROVE  Cardinality(ThreadsAt({"lock"})) <= Cardinality(IdleSlots) + interrupts
    BY DEF ReservationHolds
  <2>1. ThreadsAt({"lock"}) \in SUBSET PermitHolders
    BY DEF ThreadsAt, PermitHolders
  <2>2. /\ Cardinality(ThreadsAt({"lock"})) <= Cardinality(PermitHolders)
        /\ Cardinality(ThreadsAt({"lock"})) \in Nat
    BY <2>1, CountedSets, FS_Subset, FS_CardinalityType
  <2>3. interrupts \in Nat /\ sem \in Nat
    BY PoolConstants DEF PoolInv, TypeInv, TypeOK
  <2> QED
    BY <2>2, <2>3, CountedSets DEF PermitAccounting
<1> QED
  BY <1>1, PoolInit, PoolStep, PermitInit, PermitStep, PTL DEF Spec

-----------------------------------------------------------------------------
(* The retry loop *)

(* Slots whose worker died while it was idle, and nobody has noticed *)
DeadIdle == {i \in IdleSlots : worker[i] # NULL /\ ~Alive(worker[i])}

HoldsDead(t) == pc[t] \in {"check", "discard"} /\ ~Alive(held[t])

(* As long as no process dies, every dead worker that a get can still meet *)
(* leaves it a try.                                                        *)
RetryOK(t) ==
  /\ pc[t] = "discard" => ~Alive(held[t])
  /\ pc[t] \in InGet /\ ~died[t] =>
       tries[t] + Cardinality(DeadIdle) + (IF HoldsDead(t) THEN 1 ELSE 0) <= MaxNrProcesses

RetryInv == \A t \in Threads : RetryOK(t)

LEMMA DeadIdleBound ==
  /\ IsFiniteSet(DeadIdle)
  /\ Cardinality(DeadIdle) \in Nat
  /\ Cardinality(DeadIdle) <= MaxNrProcesses
<1>1. DeadIdle \in SUBSET Slots
  BY DEF DeadIdle, IdleSlots
<1>2. Cardinality(Slots) = MaxNrProcesses
  BY FS_Interval, PoolConstants DEF Slots
<1> QED
  BY <1>1, <1>2, SlotsFinite, FS_Subset, FS_CardinalityType

(* No worker but one that dies becomes a dead idle worker *)
LEMMA DeadIdleShrinks ==
  ASSUME PoolInv, [Next]_vars, ~ \E w \in Workers : Die(w)
  PROVE  DeadIdle' \in SUBSET DeadIdle
<1> USE DEF poolVars, threadVars, freeVars
<1>0. TypeOK /\ SlotInv /\ ShutdownInv /\ OwnedExclusively /\ NULL \notin Workers
  BY PoolConstants DEF PoolInv, TypeInv
<1>1. ASSUME UNCHANGED <<worker, worker_state>>,
             \A w \in Workers : proc[w] \in {"running", "killed"} => proc'[w] \in {"running", "killed"}
      PROVE  DeadIdle' \in SUBSET DeadIdle
  BY <1>0, <1>1 DEF DeadIdle, IdleSlots, Alive, TypeOK
<1>2. ASSUME NEW t \in Threads, StartSucceeds(t) PROVE DeadIdle' \in SUBSET DeadIdle
  <2>1. PICK i \in Slots, w \in Workers :
          /\ proc[w] = "none"
          /\ worker' = [worker EXCEPT ![i] = w]
          /\ worker_state' = [worker_state EXCEPT ![i] = "IDLE"]
          /\ proc' = [proc EXCEPT ![w] = "running"]
    BY <1>2 DEF StartSucceeds
  <2> QED
    BY <1>0, <2>1 DEF DeadIdle, IdleSlots, Alive, TypeOK, SlotInv
<1>3. ASSUME NEW t \in Threads, LockAssign(t) PROVE DeadIdle' \in SUBSET DeadIdle
  <2>1. PICK j \in Slots : worker_state' = [worker_state EXCEPT ![j] = "BUSY"]
    BY <1>3 DEF LockAssign
  <2>2. UNCHANGED <<worker, proc>>
    BY <1>3 DEF LockAssign
  <2> QED
    BY <1>0, <2>1, <2>2 DEF DeadIdle, IdleSlots, Alive, TypeOK
<1>4. ASSUME NEW t \in Threads, ReleaseAlive(t) PROVE DeadIdle' \in SUBSET DeadIdle
  BY <1>0, <1>4 DEF ReleaseAlive, DeadIdle, IdleSlots, Alive, TypeOK
<1>5. ASSUME NEW t \in Threads, Discard(t) \/ ReleaseDead(t) PROVE DeadIdle' \in SUBSET DeadIdle
  <2>1. Remove(held[t])
    BY <1>5 DEF Discard, ReleaseDead
  <2>2. /\ worker_state' = [i \in Slots |-> IF worker[i] = held[t] THEN "STOPPED" ELSE worker_state[i]]
        /\ worker' = [i \in Slots |-> IF worker[i] = held[t] THEN NULL ELSE worker[i]]
        /\ \A w \in Workers : w # held[t] => proc'[w] = proc[w]
    BY <1>0, <2>1 DEF Remove, TypeOK
  <2> QED
    BY <1>0, <2>2 DEF DeadIdle, IdleSlots, Alive, TypeOK
<1>6. ASSUME NEW t \in Threads, CheckAlive(t) \/ UseFindsDead(t) PROVE DeadIdle' \in SUBSET DeadIdle
  BY <1>0, <1>1, <1>6 DEF CheckAlive, UseFindsDead, Waited, TypeOK
<1>7. CASE FreeStop
  BY <1>0, <1>1, <1>7 DEF FreeStop, TypeOK
<1>8. CASE FreeDealloc
  <2>1. /\ worker' = [worker EXCEPT ![dealloc] = NULL]
        /\ proc' = [w \in Workers |-> IF w = worker[dealloc] THEN "none" ELSE proc[w]]
        /\ worker_state' = worker_state
        /\ dealloc \in Slots
    BY <1>0, <1>8, PoolConstants DEF FreeDealloc, TypeOK, Slots
  <2> QED
    BY <1>0, <2>1 DEF DeadIdle, IdleSlots, Alive, TypeOK, SlotInv
<1>9. ASSUME UNCHANGED <<worker, worker_state, proc>> PROVE DeadIdle' \in SUBSET DeadIdle
  BY <1>1, <1>9
<1> QED
  BY <1>2, <1>3, <1>4, <1>5, <1>6, <1>7, <1>8, <1>9
  DEF Next, ThreadStep, FreeStep, vars, GetWorker, GetValue, StartsNothing, SemWait,
      SemWaitInterrupted, LockStopped, LockFindsNone, GiveBack, ReleaseWorker,
      ReleasePost, FreeDrain, FreeReturn

LEMMA DeadIdleNoMore ==
  ASSUME PoolInv, [Next]_vars, ~ \E w \in Workers : Die(w)
  PROVE  Cardinality(DeadIdle') \in Nat /\ Cardinality(DeadIdle') <= Cardinality(DeadIdle)
<1>1. DeadIdle' \in SUBSET DeadIdle
  BY DeadIdleShrinks
<1> QED
  BY <1>1, DeadIdleBound, FS_Subset, FS_CardinalityType

(* Nobody but a dying process changes whether the worker of a thread that  *)
(* keeps it is alive.                                                      *)
LEMMA HeldStaysAlive ==
  ASSUME PoolInv, [Next]_vars, ~ \E w \in Workers : Die(w),
         NEW t \in Threads, pc[t] \in Holding, ~Discard(t), ~ReleaseDead(t)
  PROVE  proc'[held[t]] \in {"running", "killed"} <=> proc[held[t]] \in {"running", "killed"}
<1> USE DEF poolVars, threadVars, freeVars
<1>0. /\ TypeOK /\ ShutdownInv /\ NULL \notin Workers
      /\ held[t] \in Workers /\ proc[held[t]] # "none"
      /\ \A u \in Threads \ {t} : pc[u] \in Holding => held[u] # held[t]
      /\ \E i \in Slots : worker_state[i] = "BUSY"
  BY PoolConstants DEF PoolInv, TypeInv, TypeOK, OwnedExclusively
<1>1. ASSUME NEW u \in Threads, StartSucceeds(u) PROVE proc'[held[t]] = proc[held[t]]
  BY <1>0, <1>1 DEF StartSucceeds, TypeOK
<1>2. ASSUME NEW u \in Threads, Discard(u) \/ ReleaseDead(u) PROVE proc'[held[t]] = proc[held[t]]
  <2>1. u # t /\ pc[u] \in Holding /\ Remove(held[u])
    BY <1>2 DEF Discard, ReleaseDead, Holding
  <2>2. held[u] # held[t]
    BY <1>0, <2>1
  <2> QED
    BY <1>0, <2>1, <2>2 DEF Remove, TypeOK
<1>3. ASSUME NEW u \in Threads, CheckAlive(u) \/ UseFindsDead(u)
      PROVE  proc'[held[t]] = proc[held[t]] \/ (proc[held[t]] = "zombie" /\ proc'[held[t]] = "reaped")
  BY <1>0, <1>3 DEF CheckAlive, UseFindsDead, Waited, TypeOK
<1>4. CASE FreeStop
  BY <1>0, <1>4 DEF FreeStop, TypeOK
<1>5. CASE FreeDealloc
  BY <1>0, <1>5 DEF FreeDealloc, ShutdownInv
<1>6. ASSUME UNCHANGED proc PROVE proc'[held[t]] = proc[held[t]]
  BY <1>6
<1> QED
  BY <1>1, <1>2, <1>3, <1>4, <1>5, <1>6
  DEF Next, ThreadStep, FreeStep, vars, GetWorker, GetValue, StartsNothing, SemWait,
      SemWaitInterrupted, LockStopped, LockAssign, LockFindsNone, GiveBack,
      ReleaseWorker, ReleaseAlive, ReleasePost, FreeDrain, FreeReturn

(* A step that does not touch a thread keeps its tries sufficient *)
LEMMA Bystander ==
  ASSUME PoolInv, RetryInv, [Next]_vars, ~ \E w \in Workers : Die(w),
         NEW t \in Threads, ~Discard(t), ~ReleaseDead(t),
         pc'[t] = pc[t], held'[t] = held[t], tries'[t] = tries[t], died'[t] = died[t]
  PROVE  RetryOK(t)'
<1>1. RetryOK(t) /\ tries[t] \in Nat /\ MaxNrProcesses \in Nat
  BY PoolConstants DEF RetryInv, PoolInv, TypeInv, TypeOK
<1>2. pc[t] \in Holding => (Alive(held[t])' <=> Alive(held[t]))
  BY HeldStaysAlive DEF Alive
<1>3. HoldsDead(t)' <=> HoldsDead(t)
  BY <1>2 DEF HoldsDead, Holding
<1>4. pc'[t] = "discard" => ~Alive(held[t])'
  BY <1>1, <1>2 DEF RetryOK, Holding
<1>5. CASE HoldsDead(t)
  BY <1>1, <1>3, <1>4, <1>5, DeadIdleNoMore, DeadIdleBound DEF RetryOK
<1>6. CASE ~HoldsDead(t)
  BY <1>1, <1>3, <1>4, <1>6, DeadIdleNoMore, DeadIdleBound DEF RetryOK
<1> QED
  BY <1>5, <1>6

LEMMA RetryInit == Init => RetryInv
BY DEF Init, RetryInv, RetryOK, InGet

LEMMA RetryStep == PoolInv /\ RetryInv /\ [Next]_vars => RetryInv'
<1> SUFFICES ASSUME PoolInv, RetryInv, [Next]_vars, NEW t \in Threads
             PROVE  RetryOK(t)'
  BY DEF RetryInv
<1> USE DEF poolVars, threadVars, freeVars, Goto
<1>0. /\ TypeOK /\ RetryOK(t)
      /\ tries[t] \in Nat /\ MaxNrProcesses \in Nat
      /\ Cardinality(DeadIdle) \in Nat
  BY PoolConstants, DeadIdleBound DEF PoolInv, TypeInv, TypeOK, RetryInv
<1>1. ASSUME NEW w \in Workers, Die(w) PROVE RetryOK(t)'
  <2>1. /\ UNCHANGED <<pc, held, tries>>
        /\ proc' = [proc EXCEPT ![w] = "zombie"]
        /\ pc[t] \in InGet => died'[t]
    BY <1>1 DEF Die
  <2>2. pc[t] = "discard" => held[t] \in Workers
    BY DEF PoolInv, TypeInv, TypeOK, OwnedExclusively, Holding
  <2> QED
    BY <1>0, <2>1, <2>2 DEF RetryOK, Alive, TypeOK
<1> SUFFICES ASSUME ~ \E w \in Workers : Die(w) PROVE RetryOK(t)'
  BY <1>1
<1>a. Cardinality(DeadIdle') \in Nat /\ Cardinality(DeadIdle') <= Cardinality(DeadIdle)
  BY DeadIdleNoMore
<1>2. CASE GetWorker(t)
  <2>1. pc'[t] = "getvalue" /\ tries'[t] = 0
    BY <1>0, <1>2 DEF GetWorker, TypeOK
  <2>2. ~HoldsDead(t)'
    BY <2>1 DEF HoldsDead
  <2>3. Cardinality(DeadIdle) <= MaxNrProcesses
    BY DeadIdleBound
  <2> QED
    BY <1>0, <1>a, <2>1, <2>2, <2>3 DEF RetryOK
<1>3. CASE LockAssign(t)
  <2>1. PICK j \in Slots : /\ worker_state[j] = "IDLE"
                           /\ worker_state' = [worker_state EXCEPT ![j] = "BUSY"]
                           /\ held'[t] = worker[j]
    BY <1>0, <1>3 DEF LockAssign, BestSlot, TypeOK
  <2>2. /\ pc[t] = "lock" /\ pc'[t] = "check" /\ tries'[t] = tries[t] /\ died'[t] = died[t]
        /\ UNCHANGED <<worker, proc>>
    BY <1>0, <1>3 DEF LockAssign, TypeOK
  <2>3. ~HoldsDead(t)
    BY <2>2 DEF HoldsDead
  <2>4. worker[j] # NULL
    BY <1>3, <2>1 DEF LockAssign, PoolInv, ShutdownInv, SlotInv
  <2>5. ~died[t] => tries[t] + Cardinality(DeadIdle) <= MaxNrProcesses
    BY <1>0, <2>2, <2>3 DEF RetryOK, InGet
  <2>6. CASE ~Alive(worker[j])
    <3>1. DeadIdle' = DeadIdle \ {j} /\ j \in DeadIdle
      BY <1>0, <2>1, <2>2, <2>4, <2>6 DEF DeadIdle, IdleSlots, Alive, TypeOK
    <3>2. Cardinality(DeadIdle') = Cardinality(DeadIdle) - 1
      BY <3>1, DeadIdleBound, OneLess
    <3>3. HoldsDead(t)'
      BY <2>1, <2>2, <2>6 DEF HoldsDead, Alive
    <3> QED
      BY <1>0, <2>2, <2>5, <3>2, <3>3 DEF RetryOK
  <2>7. CASE Alive(worker[j])
    <3>1. ~HoldsDead(t)'
      BY <2>1, <2>2, <2>7 DEF HoldsDead, Alive
    <3> QED
      BY <1>0, <1>a, <2>2, <2>5, <3>1 DEF RetryOK
  <2> QED
    BY <2>6, <2>7
<1>4. CASE CheckAlive(t)
  <2>1. /\ pc[t] = "check" /\ held'[t] = held[t] /\ tries'[t] = tries[t] /\ died'[t] = died[t]
        /\ pc'[t] = IF Alive(held[t]) THEN "use" ELSE "discard"
    BY <1>0, <1>4 DEF CheckAlive, TypeOK
  <2>2. Alive(held[t])' <=> Alive(held[t])
    BY <2>1, HeldStaysAlive DEF Alive, Holding, Discard, ReleaseDead
  <2>3. CASE Alive(held[t])
    BY <2>1, <2>3 DEF RetryOK, InGet
  <2>4. CASE ~Alive(held[t])
    <3>1. pc'[t] = "discard" /\ HoldsDead(t) /\ HoldsDead(t)' /\ ~Alive(held[t])'
      BY <2>1, <2>2, <2>4 DEF HoldsDead
    <3>2. ~died[t] => tries[t] + Cardinality(DeadIdle) + 1 <= MaxNrProcesses
      BY <1>0, <2>1, <3>1 DEF RetryOK, InGet
    <3> QED
      BY <1>0, <1>a, <2>1, <3>1, <3>2 DEF RetryOK
  <2> QED
    BY <2>3, <2>4
<1>5. CASE Discard(t)
  <2>1. /\ pc[t] = "discard" /\ tries'[t] = tries[t] + 1 /\ died'[t] = died[t]
        /\ pc'[t] \in {"getvalue", "outside"}
    BY <1>0, <1>5 DEF Discard, TypeOK
  <2>2. HoldsDead(t) /\ ~HoldsDead(t)'
    BY <1>0, <2>1 DEF HoldsDead, RetryOK
  <2>3. ~died[t] => tries[t] + Cardinality(DeadIdle) + 1 <= MaxNrProcesses
    BY <1>0, <2>1, <2>2 DEF RetryOK, InGet
  <2> QED
    BY <1>0, <1>a, <2>1, <2>2, <2>3 DEF RetryOK
<1>6. CASE GetValue(t) \/ StartSucceeds(t) \/ StartsNothing(t) \/ SemWait(t)
           \/ SemWaitInterrupted(t) \/ LockFindsNone(t)
  <2>1. /\ tries'[t] = tries[t] /\ died'[t] = died[t]
        /\ pc[t] \in {"getvalue", "start", "wait", "lock"}
        /\ pc'[t] \in {"start", "wait", "lock", "giveback", "outside"}
    BY <1>0, <1>6 DEF GetValue, StartSucceeds, StartsNothing, SemWait, SemWaitInterrupted,
                      LockFindsNone, TypeOK
  <2>2. ~HoldsDead(t) /\ ~HoldsDead(t)'
    BY <2>1 DEF HoldsDead
  <2>3. ~died[t] => tries[t] + Cardinality(DeadIdle) <= MaxNrProcesses
    BY <1>0, <2>1, <2>2 DEF RetryOK, InGet
  <2> QED
    BY <1>0, <1>a, <2>1, <2>2, <2>3 DEF RetryOK
<1>7. CASE LockStopped(t) \/ GiveBack(t) \/ ReleaseWorker(t) \/ ReleaseAlive(t)
           \/ ReleaseDead(t) \/ ReleasePost(t)
  <2>1. pc'[t] \in {"outside", "release", "post"}
    BY <1>0, <1>7 DEF LockStopped, GiveBack, ReleaseWorker, ReleaseAlive, ReleaseDead,
                      ReleasePost, TypeOK
  <2> QED
    BY <2>1 DEF RetryOK, InGet
<1>8. ASSUME UNCHANGED <<pc, held, tries, died>>, ~Discard(t), ~ReleaseDead(t) PROVE RetryOK(t)'
  BY <1>8, Bystander
<1>9. ASSUME NEW u \in Threads \ {t}, GetWorker(u) \/ ThreadStep(u) \/ SemWaitInterrupted(u)
                                         \/ ReleaseWorker(u),
             ~Discard(t), ~ReleaseDead(t)
      PROVE  RetryOK(t)'
  <2>1. pc'[t] = pc[t] /\ held'[t] = held[t] /\ tries'[t] = tries[t] /\ died'[t] = died[t]
    BY <1>0, <1>9
    DEF ThreadStep, GetWorker, GetValue, StartSucceeds, StartsNothing, SemWait,
        SemWaitInterrupted, LockStopped, LockAssign, LockFindsNone, GiveBack, CheckAlive,
        Discard, ReleaseWorker, ReleaseAlive, ReleaseDead, ReleasePost, TypeOK
  <2> QED
    BY <1>9, <2>1, Bystander
<1> QED
  BY <1>2, <1>3, <1>4, <1>5, <1>6, <1>7, <1>8, <1>9
  DEF Next, ThreadStep, FreeStep, vars, UseFindsDead, FreeStop, FreeDrain,
      FreeDealloc, FreeReturn

(* A get gives up only if a process died while it was trying: workers that *)
(* were found dead because they died before cannot exhaust the tries.      *)
THEOREM PoolRetries == Spec => ExhaustionNeedsDeath
<1>1. PoolInv /\ RetryInv /\ [Next]_vars
        => [\A t \in Threads : pc[t] = "discard" /\ pc'[t] = "outside" => died[t]]_vars
  <2> SUFFICES ASSUME PoolInv, RetryInv, [Next]_vars,
                      NEW t \in Threads, pc[t] = "discard", pc'[t] = "outside", ~died[t]
               PROVE  FALSE
    OBVIOUS
  <2> USE DEF poolVars, threadVars, freeVars, Goto
  <2>1. TypeOK /\ RetryOK(t) /\ tries[t] \in Nat /\ MaxNrProcesses \in Nat /\ Cardinality(DeadIdle) \in Nat
    BY PoolConstants, DeadIdleBound DEF PoolInv, TypeInv, TypeOK, RetryInv
  <2>2. Discard(t)
    BY <2>1
    DEF Next, ThreadStep, FreeStep, vars, GetWorker, GetValue, StartSucceeds, StartsNothing,
        SemWait, SemWaitInterrupted, LockStopped, LockAssign, LockFindsNone, GiveBack,
        CheckAlive, Discard, UseFindsDead, ReleaseWorker, ReleaseAlive, ReleaseDead, ReleasePost,
        Die, FreeStop, FreeDrain, FreeDealloc, FreeReturn, TypeOK
  <2>3. tries[t] >= MaxNrProcesses
    BY <2>1, <2>2 DEF Discard, TypeOK
  <2>4. HoldsDead(t)
    BY <2>1 DEF HoldsDead, RetryOK
  <2>5. tries[t] + Cardinality(DeadIdle) + 1 <= MaxNrProcesses
    BY <2>1, <2>4 DEF RetryOK, InGet
  <2> QED
    BY <2>1, <2>3, <2>5
<1> QED
  BY <1>1, PoolInit, PoolStep, RetryInit, RetryStep, PTL DEF Spec, ExhaustionNeedsDeath

-----------------------------------------------------------------------------
(* WorkerPool *)

Staged == [t \in Threads |-> Stage(pc[t])]

(* A thread that moves moves to the stage of its new place; the others     *)
(* stay where they are.                                                    *)
LEMMA StageMoves ==
  ASSUME TypeOK, NEW t \in Threads, NEW to, Goto(t, to)
  PROVE  /\ Staged' = [Staged EXCEPT ![t] = Stage(to)]
         /\ Staged[t] = Stage(pc[t])
<1>1. Staged[t] = Stage(pc[t])
  BY DEF Staged
<1>2. ASSUME NEW u \in Threads
      PROVE  Stage(pc'[u]) = [Staged EXCEPT ![t] = Stage(to)][u]
  BY DEF Staged, Goto, TypeOK
<1> QED
  BY <1>1, <1>2 DEF Staged

LEMMA StageStays ==
  ASSUME TypeOK, NEW t \in Threads, NEW to, Goto(t, to), Stage(to) = Stage(pc[t])
  PROVE  Staged' = Staged
<1>1. ASSUME NEW u \in Threads PROVE Stage(pc'[u]) = Stage(pc[u])
  BY DEF Goto, TypeOK
<1> QED
  BY <1>1 DEF Staged

(* If no process can be started the pool is full or has stopped *)
LEMMA CannotStartMeans ==
  ASSUME PoolInv, RunningCount, ~CanStart
  PROVE  nr_processes_running >= MaxNrProcesses \/ stop
<1>1. CASE ~ \E i \in Slots : worker_state[i] = "STOPPED"
  <2>1. RunningSlots = 0 .. MaxNrProcesses - 1
    BY <1>1 DEF RunningSlots, Slots
  <2>2. Cardinality(0 .. MaxNrProcesses - 1) = MaxNrProcesses
    BY PoolConstants, FS_Interval
  <2> QED
    BY <2>1, <2>2, PoolConstants DEF RunningCount
<1>2. CASE ~(nr_processes_running < MaxNrProcesses)
  BY <1>2, PoolConstants DEF PoolInv, TypeInv, TypeOK
<1> QED
  BY <1>1, <1>2 DEF CanStart

(* Removing a held worker takes one from the count *)
LEMMA RemoveCounts ==
  ASSUME PoolInv, NEW t \in Threads, pc[t] \in Holding, Remove(held[t])
  PROVE  nr_processes_running' = nr_processes_running - 1
<1>1. PICK k \in Slots : \A i \in Slots : worker[i] = held[t] <=> i = k
  BY HeldSlot
<1>2. {i \in Slots : worker[i] = held[t]} = {k}
  BY <1>1
<1> QED
  BY <1>2, FS_Singleton DEF Remove

LEMMA PromiseInit == Init => Promise!PoolInit
BY DEF Init, Promise!PoolInit, Stage

LEMMA PromiseStep ==
  PoolInv /\ RunningCount /\ [Next]_vars => [Promise!PoolNext]_(Promise!pool)
<1> SUFFICES ASSUME PoolInv, RunningCount, [Next]_vars
             PROVE  Promise!PoolNext \/ UNCHANGED Promise!pool
  OBVIOUS
<1> USE DEF poolVars, threadVars
<1>0. TypeOK
  BY DEF PoolInv, TypeInv
<1>1. ASSUME UNCHANGED <<sem, nr_processes_running, stop, tries, Staged>>
      PROVE  UNCHANGED Promise!pool
  BY <1>1 DEF Promise!pool, Staged
<1>2. ASSUME UNCHANGED <<sem, nr_processes_running, stop, tries, pc>>
      PROVE  UNCHANGED Promise!pool
  BY <1>1, <1>2 DEF Staged
<1>3. ASSUME NEW t \in Threads, GetWorker(t) PROVE Promise!Ask(t)
  BY <1>0, <1>3, StageMoves DEF GetWorker, Stage, Staged, Promise!Ask, Promise!Moves
<1>4. ASSUME NEW t \in Threads, GetValue(t) PROVE Promise!SeesPermits(t) \/ Promise!SeesNone(t)
  <2>1. CASE sem <= 0
    BY <1>0, <1>4, <2>1, StageMoves DEF GetValue, Stage, Staged, Promise!SeesNone, Promise!Moves
  <2>2. CASE sem > 0
    <3>1. Goto(t, "wait") /\ pc[t] = "getvalue" /\ UNCHANGED <<sem, nr_processes_running, stop, tries>>
      BY <1>0, <1>4, <2>2 DEF GetValue, TypeOK
    <3> QED
      BY <1>0, <2>2, <3>1, StageMoves DEF Stage, Staged, Promise!SeesPermits, Promise!Moves
  <2> QED
    BY <1>0, <2>1, <2>2 DEF TypeOK
<1>5. ASSUME NEW t \in Threads, StartSucceeds(t) PROVE Promise!StartsWorker(t)
  BY <1>0, <1>5, StageMoves
  DEF StartSucceeds, CanStart, Stage, Staged, Promise!StartsWorker, Promise!Moves
<1>6. ASSUME NEW t \in Threads, StartsNothing(t)
      PROVE  Promise!CannotStart(t) \/ Promise!StartFails(t)
  <2>1. Promise!StartsNone(t)
    BY <1>0, <1>6, StageMoves DEF StartsNothing, Stage, Staged, Promise!StartsNone, Promise!Moves
  <2>2. CASE CanStart
    BY <2>1, <2>2 DEF CanStart, Promise!StartFails
  <2>3. CASE ~CanStart
    BY <2>1, <2>3, CannotStartMeans DEF Promise!CannotStart
  <2> QED
    BY <2>2, <2>3
<1>7. ASSUME NEW t \in Threads, SemWait(t) PROVE Promise!TakesPermit(t)
  BY <1>0, <1>7, StageMoves DEF SemWait, Stage, Staged, Promise!TakesPermit, Promise!Moves
<1>8. ASSUME NEW t \in Threads, SemWaitInterrupted(t) PROVE Promise!Interrupted(t)
  BY <1>0, <1>8, StageMoves DEF SemWaitInterrupted, Stage, Staged, Promise!Interrupted, Promise!Moves
<1>9. ASSUME NEW t \in Threads, LockStopped(t) \/ GiveBack(t) \/ ReleasePost(t)
      PROVE  Promise!GivesBack(t)
  BY <1>0, <1>9, StageMoves
  DEF LockStopped, GiveBack, ReleasePost, Stage, Staged, Promise!GivesBack, Promise!Moves
<1>10. ASSUME NEW t \in Threads, Discard(t) PROVE Promise!Discards(t)
  <2>1. nr_processes_running' = nr_processes_running - 1
    BY <1>10, RemoveCounts DEF Discard, Holding
  <2>2. tries[t] + 1 < MaxNrProcesses + 1 <=> tries[t] < MaxNrProcesses
    BY <1>0, PoolConstants DEF TypeOK
  <2> QED
    BY <1>0, <1>10, <2>1, <2>2, StageMoves DEF Discard, Stage, Staged, Promise!Discards, Promise!Moves
<1>11. ASSUME NEW t \in Threads, ReleaseDead(t) PROVE Promise!Loses(t)
  <2>1. nr_processes_running' = nr_processes_running - 1
    BY <1>11, RemoveCounts DEF ReleaseDead, Holding
  <2> QED
    BY <1>0, <1>11, <2>1, StageMoves DEF ReleaseDead, Stage, Staged, Promise!Loses, Promise!Moves
<1>12. ASSUME NEW t \in Threads, LockAssign(t) \/ LockFindsNone(t) \/ CheckAlive(t) \/ ReleaseWorker(t)
       PROVE  UNCHANGED Promise!pool
  <2>1. PICK to \in {"check", "giveback", "use", "discard", "release"} : Goto(t, to)
    BY <1>12 DEF LockAssign, LockFindsNone, CheckAlive, ReleaseWorker
  <2>2. /\ pc[t] \in {"lock", "check", "use"}
        /\ UNCHANGED <<sem, nr_processes_running, stop, tries>>
    BY <1>12 DEF LockAssign, LockFindsNone, CheckAlive, ReleaseWorker
  <2>3. Stage(to) = "has" /\ Stage(pc[t]) = "has"
    BY <2>1, <2>2 DEF Stage
  <2>4. Staged' = Staged
    BY <1>0, <2>1, <2>3, StageStays
  <2> QED
    BY <1>1, <2>2, <2>4
<1>13. ASSUME NEW t \in Threads, ReleaseAlive(t) PROVE UNCHANGED Promise!pool
  <2>1. \E i \in Slots : worker[i] = held[t]
    BY <1>13, HeldSlot DEF ReleaseAlive, Holding
  <2>2. Goto(t, "post") /\ UNCHANGED <<sem, nr_processes_running, stop, tries>> /\ pc[t] = "release"
    BY <1>13, <2>1 DEF ReleaseAlive
  <2>3. Stage("post") = "has" /\ Stage(pc[t]) = "has"
    BY <2>2 DEF Stage
  <2>4. Staged' = Staged
    BY <1>0, <2>2, <2>3, StageStays
  <2> QED
    BY <1>1, <2>2, <2>4
<1>14. ASSUME FreeStop PROVE Promise!Stop
  <2>1. stop = FALSE
    BY <1>14 DEF FreeStop, PoolInv, ShutdownInv, TypeInv, TypeOK
  <2> QED
    BY <1>14, <2>1 DEF FreeStop, Promise!Stop
<1>15. ASSUME \/ \E t \in Threads : UseFindsDead(t)
              \/ \E w \in Workers : Die(w)
              \/ FreeStep
              \/ UNCHANGED vars
       PROVE  UNCHANGED Promise!pool
  BY <1>2, <1>15 DEF UseFindsDead, Die, FreeStep, FreeDrain, FreeDealloc, FreeReturn, vars
<1> QED
  BY <1>3, <1>4, <1>5, <1>6, <1>7, <1>8, <1>9, <1>10, <1>11, <1>12, <1>13, <1>14, <1>15
  DEF Next, ThreadStep, Promise!PoolNext, Promise!Waits

(* For every number of threads, slots and addresses, and whatever dies,    *)
(* fails to start or is interrupted, the pool does what WorkerPool says:   *)
(* the actions that StreamReferences and WebApp use are those of the code. *)
THEOREM PoolKeepsPromise == Spec => KeepsPromise
BY PromiseInit, PromiseStep, PoolInit, PoolStep, RunningInit, RunningStep, PTL
DEF Spec, KeepsPromise, Promise!PoolSpec

=============================================================================
