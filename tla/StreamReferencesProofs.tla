----------------------- MODULE StreamReferencesProofs -----------------------
(***************************************************************************)
(* Proofs about StreamReferences for any number of requests and workers.   *)
(* The count is right whatever happens; that free leaves nothing behind    *)
(* that could use the freed struct needs besides that free was not         *)
(* interrupted, and that nobody acquires a reference once stopping is set. *)
(***************************************************************************)
EXTENDS StreamReferences, FiniteSetTheorems, TLAPS

(* free has seen the count fall to one, so no request is left *)
Drained ==
  /\ freepc # "none" => stopping
  /\ freepc \notin {"none", "wait"} /\ ~interrupted => Holders = {}
  /\ hs = "freed" => freepc \notin {"none", "wait"}

(* What the calls of close rely on: a stream that is being read is open;   *)
(* one whose reference is being released within its block is marked as     *)
(* closed; and a thread is in a block only once its stream is open.        *)
StreamInv ==
  \A t \in Threads :
    /\ pc[t] = "read" => ~closed[t]
    /\ pc[t] \in {"cfree", "release"} /\ inBlock[t] => closed[t]
    /\ pc[t] \in {"outside", "try", "info", "get", "check", "open"} => ~inBlock[t]

CountInv == TypeOK /\ StreamInv /\ ReferencesCounted

LEMMA HoldersFinite == IsFiniteSet(Holders) /\ Cardinality(Holders) \in Nat
<1>1. Holders \in SUBSET Threads
  BY DEF Holders
<1>. QED
  BY <1>1, ReferenceConstants, FS_Subset, FS_CardinalityType

LEMMA CountInit == Init => CountInv
<1> SUFFICES ASSUME Init PROVE CountInv
  OBVIOUS
<1>1. TypeOK
  <2>1. PoolTypeOK
    <3>1. place \in [Threads -> PoolPlace] /\ tries \in [Threads -> Nat]
      BY DEF Init, PoolInit, PoolPlace
    <3>2. stopped \in BOOLEAN
      BY DEF Init, PoolInit
    <3>3. sem \in Nat /\ running \in Int
      BY DEF Init, PoolInit
    <3>. QED
      BY <3>1, <3>2, <3>3 DEF PoolTypeOK
  <2>2. closed \in [Threads -> BOOLEAN] /\ inBlock \in [Threads -> BOOLEAN]
    BY DEF Init
  <2>3. pc \in [Threads -> Place]
    BY DEF Init, Place
  <2>. QED
    BY <2>1, <2>2, <2>3 DEF Init, TypeOK
<1>2. Holders = {}
  BY DEF Init, Holders
<1>3. ReferencesCounted
  BY <1>2, FS_EmptySet DEF Init, ReferencesCounted, Own
<1>4. StreamInv
  BY DEF Init, StreamInv
<1>. QED
  BY <1>1, <1>3, <1>4 DEF CountInv

(* The actions of the pool keep its types *)
LEMMA PoolStepTypes ==
  ASSUME PoolTypeOK, NEW t \in Threads,
         \/ Ask(t) \/ Waits(t) \/ StartFails(t) \/ GivesBack(t) \/ Discards(t) \/ Loses(t)
         \/ UNCHANGED pool
  PROVE  PoolTypeOK'
<1>1. place' \in [Threads -> PoolPlace]
  BY DEF PoolTypeOK, Ask, Waits, SeesPermits, SeesNone, StartsWorker, CannotStart, StartFails,
         StartsNone, TakesPermit, GivesBack, Discards, Loses, Moves, PoolPlace, pool
<1>2. sem' \in Nat /\ running' \in Int /\ stopped' \in BOOLEAN /\ tries' \in [Threads -> Nat]
  BY DEF PoolTypeOK, Ask, Waits, SeesPermits, SeesNone, StartsWorker, CannotStart, StartFails,
         StartsNone, TakesPermit, GivesBack, Discards, Loses, pool
<1>. QED
  BY <1>1, <1>2 DEF PoolTypeOK

(* A step of one thread within its request, after which its stream is open *)
(* or not as before, moves no reference.                                   *)
LEMMA InsideStep ==
  ASSUME CountInv, NEW t \in Threads, NEW to \in Place, Goto(t, to),
         UNCHANGED <<refCount, freepc>>,
         closed' \in [Threads -> BOOLEAN], inBlock' \in [Threads -> BOOLEAN],
         \A u \in Threads \ {t} : closed'[u] = closed[u] /\ inBlock'[u] = inBlock[u],
         (t \in Holders) <=> (to # "outside" /\ ~(closed'[t] /\ to \in {"stream", "close"})),
         to = "read" => ~closed'[t],
         to \in {"cfree", "release"} /\ inBlock'[t] => closed'[t],
         to \in {"outside", "try", "info", "get", "check", "open"} => ~inBlock'[t]
  PROVE  StreamInv' /\ ReferencesCounted' /\ Holders' = Holders /\ pc' \in [Threads -> Place]
<1>1. pc' \in [Threads -> Place] /\ pc'[t] = to /\ \A u \in Threads \ {t} : pc'[u] = pc[u]
  BY DEF CountInv, TypeOK, Goto
<1>2. Holders' = Holders
  BY <1>1 DEF Holders
<1>3. StreamInv'
  BY <1>1 DEF CountInv, StreamInv
<1>. QED
  BY <1>1, <1>2, <1>3 DEF CountInv, ReferencesCounted, Own

(* What is left to show of a request's step that leaves the object alone *)
LEMMA InsideTypes ==
  ASSUME CountInv, NEW t \in Threads, UNCHANGED <<object, freepc, interrupted>>,
         \/ Ask(t) \/ Waits(t) \/ StartFails(t) \/ GivesBack(t) \/ Discards(t) \/ Loses(t)
         \/ UNCHANGED pool,
         deaths' \in Nat, pc' \in [Threads -> Place],
         closed' \in [Threads -> BOOLEAN], inBlock' \in [Threads -> BOOLEAN]
  PROVE  TypeOK'
<1>1. PoolTypeOK'
  BY PoolStepTypes DEF CountInv, TypeOK
<1>. QED
  BY <1>1 DEF CountInv, TypeOK, object

Quiet(t) ==
  /\ TypeOK' /\ StreamInv' /\ ReferencesCounted' /\ Holders' = Holders
  /\ UNCHANGED <<refCount, freepc, stopping, hs, thrown, interrupted>>

(* Before there is a stream *)
LEMMA CallBegins ==
  ASSUME CountInv, NEW t \in Threads,
         \/ TryFails(t) \/ TryCalls(t) \/ InfoReturns(t) \/ PoolWaits(t) \/ PoolStartFails(t)
         \/ GetFails(t) \/ PoolRefuses(t) \/ GetsWorker(t) \/ CheckAlive(t) \/ FindsDead(t)
  PROVE  Quiet(t)
<1>1. PICK to \in {"info", "get", "check", "open", "release"} : Goto(t, to)
  <2>1. CASE PoolWaits(t) \/ PoolStartFails(t)
    BY <2>1 DEF PoolWaits, PoolStartFails, Goto, CountInv, TypeOK
  <2>. QED
    BY <2>1 DEF TryFails, TryCalls, InfoReturns, GetFails, PoolRefuses, GetsWorker, CheckAlive, FindsDead
<1>2. /\ pc[t] \in {"try", "info", "get", "check"}
      /\ UNCHANGED <<object, stream, freepc, interrupted>>
  BY DEF TryFails, TryCalls, InfoReturns, PoolWaits, PoolStartFails, GetFails, PoolRefuses,
         GetsWorker, CheckAlive, FindsDead
<1>3. /\ deaths' \in Nat
      /\ \/ Ask(t) \/ Waits(t) \/ StartFails(t) \/ GivesBack(t) \/ Discards(t) \/ Loses(t)
         \/ UNCHANGED pool
  BY DEF TryFails, TryCalls, InfoReturns, PoolWaits, PoolStartFails, GetFails, PoolRefuses,
         GetsWorker, CheckAlive, FindsDead, Death, CountInv, TypeOK
<1>4. closed' = closed /\ inBlock' = inBlock /\ UNCHANGED <<refCount, stopping, ptr, hs, thrown>>
  BY <1>2 DEF stream, object
<1>5. ~inBlock[t] /\ t \in Holders /\ to \in Place
  BY <1>2 DEF CountInv, StreamInv, Holders, Place
<1>6. StreamInv' /\ ReferencesCounted' /\ Holders' = Holders /\ pc' \in [Threads -> Place]
  BY <1>1, <1>2, <1>4, <1>5, InsideStep DEF CountInv, TypeOK
<1>7. TypeOK'
  BY <1>2, <1>3, <1>4, <1>6, InsideTypes DEF CountInv, TypeOK
<1>. QED
  BY <1>2, <1>4, <1>6, <1>7 DEF Quiet

(* The block, and the calls of close in it and at its end *)
LEMMA StreamCalls ==
  ASSUME CountInv, NEW t \in Threads,
         \/ OpenReturns(t) \/ Read(t) \/ ReadReturns(t) \/ Leave(t) \/ Close(t) \/ CloseReturns(t)
  PROVE  Quiet(t)
<1>1. UNCHANGED <<object, freepc, interrupted>>
  BY DEF OpenReturns, Read, ReadReturns, Leave, Close, CloseReturns
<1>2. /\ deaths' \in Nat
      /\ \/ Ask(t) \/ Waits(t) \/ StartFails(t) \/ GivesBack(t) \/ Discards(t) \/ Loses(t)
         \/ UNCHANGED pool
  BY DEF OpenReturns, Read, ReadReturns, Leave, Close, CloseReturns, ReleaseWorker, Death,
         CountInv, TypeOK
<1>3. /\ closed' \in [Threads -> BOOLEAN] /\ inBlock' \in [Threads -> BOOLEAN]
      /\ \A u \in Threads \ {t} : closed'[u] = closed[u] /\ inBlock'[u] = inBlock[u]
  BY DEF OpenReturns, Read, ReadReturns, Leave, LeaveBlock, Close, CloseReturns, CountInv, TypeOK, stream
<1>4. UNCHANGED <<refCount, stopping, ptr, hs, thrown>>
  BY <1>1 DEF object
<1>5. StreamInv' /\ ReferencesCounted' /\ Holders' = Holders /\ pc' \in [Threads -> Place]
  <2>0. ASSUME NEW to \in Place, Goto(t, to),
               (t \in Holders) <=> (to # "outside" /\ ~(closed'[t] /\ to \in {"stream", "close"})),
               to = "read" => ~closed'[t],
               to \in {"cfree", "release"} /\ inBlock'[t] => closed'[t],
               to \in {"outside", "try", "info", "get", "check", "open"} => ~inBlock'[t]
        PROVE  StreamInv' /\ ReferencesCounted' /\ Holders' = Holders /\ pc' \in [Threads -> Place]
    BY <1>1, <1>3, <1>4, <2>0, InsideStep
  <2>1. CASE OpenReturns(t)
    <3>1. t \in Holders /\ ~inBlock[t]
      BY <2>1 DEF OpenReturns, CountInv, StreamInv, Holders
    <3>2. CASE Goto(t, "stream") /\ closed' = [closed EXCEPT ![t] = FALSE]
      BY <2>0, <3>1, <3>2 DEF CountInv, TypeOK, Place
    <3>3. CASE Goto(t, "release") /\ UNCHANGED stream
      BY <2>0, <3>1, <3>3 DEF stream, Place
    <3>. QED
      BY <2>1, <3>2, <3>3 DEF OpenReturns
  <2>2. CASE Goto(t, "close") /\ pc[t] = "stream" /\ LeaveBlock(t)
    <3>1. closed' = closed /\ (t \in Holders <=> ~closed[t])
      BY <2>2 DEF LeaveBlock, Holders
    <3>. QED
      BY <2>0, <2>2, <3>1 DEF Place
  <2>3. CASE Read(t)
    <3>1. CASE ~(stopping \/ closed[t])
      <4>1. Goto(t, "read") /\ closed' = closed /\ t \in Holders
        BY <2>3, <3>1 DEF Read, stream, Holders
      <4>. QED
        BY <2>0, <3>1, <4>1 DEF Place
    <3>. QED
      BY <2>2, <2>3, <3>1 DEF Read, LeaveBlock
  <2>4. CASE ReadReturns(t)
    <3>1. closed' = closed /\ t \in Holders /\ ~closed[t]
      BY <2>4 DEF ReadReturns, stream, Holders, CountInv, StreamInv
    <3>. QED
      BY <2>0, <2>4, <3>1 DEF ReadReturns, Place
  <2>5. CASE Leave(t)
    BY <2>2, <2>5 DEF Leave, LeaveBlock
  <2>6. CASE Close(t)
    <3>1. closed'[t] = TRUE /\ inBlock' = inBlock /\ (t \in Holders <=> ~closed[t])
      BY <2>6 DEF Close, Holders, CountInv, TypeOK
    <3>2. CASE closed[t]
      <4>1. Goto(t, IF inBlock[t] THEN "stream" ELSE "outside")
        BY <2>6, <3>2 DEF Close, After
      <4>. QED
        BY <2>0, <3>1, <3>2, <4>1 DEF Place
    <3>3. CASE ~closed[t]
      BY <2>0, <2>6, <3>1, <3>3 DEF Close, Place
    <3>. QED
      BY <3>2, <3>3
  <2>7. CASE CloseReturns(t)
    <3>1. /\ Goto(t, "release") /\ closed' = closed /\ inBlock' = inBlock
          /\ t \in Holders /\ (inBlock[t] => closed[t])
      BY <2>7 DEF CloseReturns, stream, Holders, CountInv, StreamInv
    <3>. QED
      BY <2>0, <3>1 DEF Place
  <2>. QED
    BY <2>1, <2>3, <2>4, <2>5, <2>6, <2>7
<1>6. TypeOK'
  BY <1>1, <1>2, <1>3, <1>5, InsideTypes
<1>. QED
  BY <1>1, <1>4, <1>5, <1>6 DEF Quiet

LEMMA CallStepInside ==
  ASSUME CountInv, NEW t \in Threads, CallStep(t) \/ PoolStartFails(t) \/ FindsDead(t),
         ~ ReleaseReference(t)
  PROVE  Quiet(t)
BY CallBegins, StreamCalls DEF CallStep

(* A thread that holds a reference is counted *)
LEMMA HolderCounts ==
  ASSUME CountInv, NEW t \in Threads, t \in Holders
  PROVE  refCount >= Own + 1
<1>2. Cardinality(Holders) # 0
  BY HoldersFinite, FS_EmptySet
<1>. QED
  BY <1>2, HoldersFinite DEF CountInv, ReferencesCounted, Own

LEMMA ReleaseStep ==
  ASSUME CountInv, NEW t \in Threads, ReleaseReference(t)
  PROVE  /\ TypeOK' /\ StreamInv' /\ ReferencesCounted' /\ t \in Holders
         /\ UNCHANGED <<freepc, stopping, hs, thrown, interrupted>>
<1>0. t \in Holders
  BY DEF ReleaseReference, Holders
<1>1. refCount > 0 /\ refCount \in Nat
  BY <1>0, HolderCounts DEF Own, CountInv, TypeOK
<1>2. refCount' = refCount - 1
  BY <1>1 DEF ReleaseReference
<1>3. thrown' = thrown
  BY <1>1 DEF ReleaseReference, CountInv, TypeOK
<1>4. UNCHANGED <<pool, stopping, ptr, hs, closed, inBlock, freepc, interrupted, deaths>>
  BY DEF ReleaseReference, stream
<1>5. /\ pc' = [pc EXCEPT ![t] = IF inBlock[t] THEN "stream" ELSE "outside"]
      /\ pc' \in [Threads -> Place]
      /\ pc'[t] = IF inBlock[t] THEN "stream" ELSE "outside"
      /\ inBlock[t] => closed[t]
  BY DEF ReleaseReference, After, Goto, CountInv, TypeOK, StreamInv, Place
<1>6. Holders' = Holders \ {t}
  BY <1>4, <1>5 DEF CountInv, TypeOK, Holders
<1>7. Cardinality(Holders') = Cardinality(Holders) - 1
  BY <1>0, <1>6, HoldersFinite, FS_RemoveElement
<1>8. ReferencesCounted'
  BY <1>2, <1>4, <1>7, HoldersFinite DEF CountInv, ReferencesCounted, Own
<1>9. StreamInv'
  BY <1>4, <1>5 DEF CountInv, TypeOK, StreamInv
<1>10. PoolTypeOK'
  BY <1>4, PoolStepTypes DEF CountInv, TypeOK
<1>. QED
  BY <1>0, <1>1, <1>2, <1>3, <1>4, <1>5, <1>8, <1>9, <1>10 DEF CountInv, TypeOK

LEMMA AcquireStep ==
  ASSUME CountInv, NEW t \in Threads, AcquireReference(t)
  PROVE  /\ TypeOK' /\ StreamInv' /\ ReferencesCounted' /\ ~stopping
         /\ UNCHANGED <<freepc, stopping, hs, thrown, interrupted>>
<1>1. /\ pc[t] = "outside" /\ pc' = [pc EXCEPT ![t] = "try"] /\ pc' \in [Threads -> Place]
      /\ UNCHANGED <<pool, stopping, ptr, hs, thrown, closed, inBlock, freepc, interrupted, deaths>>
      /\ refCount' = refCount + 1 /\ ~stopping
  BY DEF AcquireReference, Goto, stream, CountInv, TypeOK, Place
<1>2. t \notin Holders /\ Holders' = Holders \cup {t}
  BY <1>1 DEF CountInv, TypeOK, Holders
<1>3. Cardinality(Holders') = Cardinality(Holders) + 1
  BY <1>2, HoldersFinite, FS_AddElement
<1>4. ReferencesCounted'
  BY <1>1, <1>3, HoldersFinite DEF CountInv, ReferencesCounted, Own
<1>5. StreamInv'
  BY <1>1 DEF CountInv, TypeOK, StreamInv
<1>6. PoolTypeOK'
  BY <1>1, PoolStepTypes DEF CountInv, TypeOK
<1>. QED
  BY <1>1, <1>4, <1>5, <1>6 DEF CountInv, TypeOK

(* The steps of free leave the requests where they are *)
LEMMA FreeSteps ==
  ASSUME CountInv, FreeBegins \/ FreeInterrupted \/ FreeStep \/ Finished \/ UNCHANGED vars
  PROVE  TypeOK' /\ StreamInv' /\ ReferencesCounted' /\ Holders' = Holders
<1>0. UNCHANGED <<pc, stream, deaths>> /\ (UNCHANGED pool \/ Stop)
  BY DEF FreeBegins, FreeInterrupted, FreeStep, FreeWaits, FreeStopsPool, FreeFrees, FreeClears,
         FreeReleases, FreeChecks, Finished, vars
<1>1. UNCHANGED <<pc, closed, inBlock, deaths>>
  BY <1>0 DEF stream
<1>2. Holders' = Holders /\ StreamInv'
  BY <1>1 DEF Holders, StreamInv, CountInv
<1>p. PoolTypeOK'
  <2>1. sem' \in Nat /\ UNCHANGED <<running, place, tries>>
    BY <1>0 DEF Stop, pool, PoolTypeOK, CountInv, TypeOK
  <2>2. stopped' \in BOOLEAN
    BY <1>0 DEF Stop, pool, PoolTypeOK, CountInv, TypeOK
  <2>. QED
    BY <2>1, <2>2 DEF PoolTypeOK, CountInv, TypeOK
<1>3. CASE FreeReleases
  <2>1. Own = 1 /\ Own' = 0
    BY <1>3 DEF FreeReleases, Own
  <2>2. refCount >= 1 /\ refCount \in Nat
    BY <2>1, HoldersFinite DEF CountInv, ReferencesCounted, TypeOK
  <2>3. refCount' = refCount - 1
    BY <1>3, <2>2 DEF FreeReleases
  <2>4. ReferencesCounted'
    BY <1>2, <2>1, <2>2, <2>3, HoldersFinite DEF CountInv, ReferencesCounted
  <2>5. thrown' \in BOOLEAN
    BY <1>3 DEF FreeReleases
  <2>. QED
    BY <1>1, <1>2, <1>p, <1>3, <2>2, <2>3, <2>4, <2>5 DEF FreeReleases, CountInv, TypeOK
<1>4. CASE FreeBegins \/ FreeInterrupted \/ FreeWaits \/ FreeStopsPool \/ FreeFrees \/ FreeClears
           \/ FreeChecks \/ Finished \/ UNCHANGED vars
  <2>1. Own' = Own /\ refCount' = refCount
    BY <1>4 DEF Own, FreeBegins, FreeInterrupted, FreeWaits, FreeStopsPool, FreeFrees, FreeClears,
                FreeChecks, Finished, vars, object
  <2>2. ReferencesCounted'
    BY <1>2, <2>1 DEF CountInv, ReferencesCounted
  <2>3. thrown' \in BOOLEAN /\ interrupted' \in BOOLEAN /\ stopping' \in BOOLEAN /\ ptr' \in BOOLEAN
    BY <1>4 DEF FreeBegins, FreeInterrupted, FreeWaits, FreeStopsPool, FreeFrees, FreeClears,
                FreeChecks, Finished, vars, object, CountInv, TypeOK
  <2>4. hs' \in {"allocated", "freed"}
    BY <1>4 DEF FreeBegins, FreeInterrupted, FreeWaits, FreeStopsPool, FreeFrees, FreeClears,
                FreeChecks, Finished, vars, object, CountInv, TypeOK
  <2>5. freepc' \in {"none", "wait", "stop", "drain", "clear", "release", "check", "done"}
    BY <1>4 DEF FreeBegins, FreeInterrupted, FreeWaits, FreeStopsPool, FreeFrees, FreeClears,
                FreeChecks, Finished, vars, object, CountInv, TypeOK
  <2>. QED
    BY <1>1, <1>2, <1>p, <2>1, <2>2, <2>3, <2>4, <2>5 DEF CountInv, TypeOK
<1>. QED
  BY <1>3, <1>4 DEF FreeStep

LEMMA CountNext == CountInv /\ [Next]_vars => CountInv'
BY CallStepInside, ReleaseStep, AcquireStep, FreeSteps DEF CountInv, Next, CallStep, Quiet

(* The types, and with them that the count never goes below zero *)
THEOREM ReferencesTypeCorrect == Spec => []TypeOK
<1>1. CountInv => TypeOK
  BY DEF CountInv
<1>. QED
  BY <1>1, CountInit, CountNext, PTL DEF Spec

(* However requests, exceptions, dying readers and a shutdown interleave,  *)
(* interrupted or not, refCount is the number of requests whose stream is  *)
(* not closed yet plus the object's own reference: whether or not          *)
(* readChunk has closed the stream before the block that opened it does,   *)
(* its reference is released once.                                         *)
THEOREM ReferencesBalanced == Spec => []ReferencesCounted
<1>1. CountInv => ReferencesCounted
  BY DEF CountInv
<1>. QED
  BY <1>1, CountInit, CountNext, PTL DEF Spec

-----------------------------------------------------------------------------

SafeInv == CountInv /\ Drained /\ SaneShutdown

LEMMA SafeNext == SafeInv /\ [Next]_vars => SafeInv'
<1> SUFFICES ASSUME SafeInv, [Next]_vars PROVE SafeInv'
  OBVIOUS
<1>0. CountInv /\ CountInv'
  BY CountNext DEF SafeInv
<1>1. ASSUME NEW t \in Threads, AcquireReference(t) PROVE SafeInv'
  <2>1. UNCHANGED <<freepc, stopping, hs, thrown, interrupted>> /\ ~stopping
    BY <1>0, <1>1, AcquireStep
  <2>. QED
    BY <1>0, <2>1 DEF SafeInv, Drained, SaneShutdown
<1>2. ASSUME NEW t \in Threads, CallStep(t) \/ PoolStartFails(t) \/ FindsDead(t),
            ~ ReleaseReference(t)
     PROVE  SafeInv'
  <2>1. Holders' = Holders /\ UNCHANGED <<refCount, freepc, stopping, hs, thrown, interrupted>>
    BY <1>0, <1>2, CallStepInside DEF Quiet
  <2>. QED
    BY <1>0, <2>1 DEF SafeInv, Drained, SaneShutdown
<1>3. ASSUME NEW t \in Threads, ReleaseReference(t) PROVE SafeInv'
  <2>1. t \in Holders /\ UNCHANGED <<freepc, stopping, hs, thrown, interrupted>>
    BY <1>0, <1>3, ReleaseStep
  <2>. QED
    BY <1>0, <2>1 DEF SafeInv, Drained, SaneShutdown
<1>4. CASE FreeWaits
  <2>1. Cardinality(Holders) = 0
    BY <1>0, <1>4, HoldersFinite DEF FreeWaits, CountInv, ReferencesCounted, Own, TypeOK
  <2>2. Holders = {}
    BY <2>1, HoldersFinite, FS_EmptySet
  <2>3. Holders' = {}
    BY <1>0, <1>4, <2>2, FreeSteps DEF FreeStep
  <2>. QED
    BY <1>0, <1>4, <2>3 DEF FreeWaits, object, SafeInv, Drained, SaneShutdown
<1>5. CASE FreeBegins \/ FreeStopsPool \/ FreeFrees \/ FreeClears \/ Finished \/ UNCHANGED vars
  <2>1. Holders' = Holders
    BY <1>0, <1>5, FreeSteps DEF FreeStep
  <2>. QED
    BY <1>0, <1>5, <2>1 DEF FreeBegins, FreeStopsPool, FreeFrees, FreeClears, Finished, vars, object, SafeInv, Drained, SaneShutdown
<1>6. CASE FreeReleases
  <2>1. Holders' = Holders
    BY <1>0, <1>6, FreeSteps DEF FreeStep
  <2>2. ~(refCount <= 0)
    BY <1>0, <1>6, HoldersFinite DEF FreeReleases, CountInv, ReferencesCounted, Own, TypeOK
  <2>. QED
    BY <1>0, <1>6, <2>1, <2>2 DEF FreeReleases, SafeInv, Drained, SaneShutdown
<1>7. CASE FreeChecks
  <2>1. Holders' = Holders /\ (~interrupted => Holders = {})
    BY <1>0, <1>7, FreeSteps DEF FreeStep, FreeChecks, SafeInv, Drained
  <2>2. ~interrupted => refCount = 0
    BY <1>0, <1>7, <2>1, FS_EmptySet DEF FreeChecks, CountInv, ReferencesCounted, Own
  <2>. QED
    BY <1>0, <1>7, <2>1, <2>2 DEF FreeChecks, SafeInv, Drained, SaneShutdown
<1>8. CASE FreeInterrupted
  BY <1>0, <1>8 DEF FreeInterrupted, object, SafeInv, Drained, SaneShutdown
<1>. QED
  BY <1>1, <1>2, <1>3, <1>4, <1>5, <1>6, <1>7, <1>8 DEF Next, CallStep, FreeStep

LEMMA SafeInit == Init => SafeInv
BY CountInit DEF Init, SafeInv, Drained, SaneShutdown, SaneShutdown

(* If free is not interrupted, the native struct is freed only when no     *)
(* request can reach it any more.                                          *)
THEOREM ReferencesProtect == Spec => []NoUseAfterFree
<1>1. SafeInv => NoUseAfterFree
  BY DEF SafeInv, Drained, NoUseAfterFree
<1>. QED
  BY <1>1, SafeInit, SafeNext, PTL DEF Spec

(* If free is not interrupted, neither of the two checks of the count ever *)
(* throws.                                                                 *)
THEOREM ReferencesSane == Spec => []SaneShutdown
<1>1. SafeInv => SaneShutdown
  BY DEF SafeInv
<1>. QED
  BY <1>1, SafeInit, SafeNext, PTL DEF Spec

=============================================================================
