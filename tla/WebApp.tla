------------------------------- MODULE WebApp -------------------------------
(***************************************************************************)
(* The web application: request threads of HDFStreamServlet.java and       *)
(* HDFStreamRequest.java with the limit of ConcurrentRequestCount.java,    *)
(* the copying of StreamCopier.java and the response cache, beside reloads *)
(* of the configuration by ExternalConfigManager.java.                     *)
(*                                                                         *)
(* A virtual directory is kept with the lines it was made of: the          *)
(* configuration they come from and how many of them.  Of the library      *)
(* below it keeps what the other modules show: the process pool is module  *)
(* WorkerPool, readers that die included, and streams deliver a prefix of  *)
(* the answer to their own request, whole if they end without an error.    *)
(***************************************************************************)
EXTENDS Sequences, FiniteSets, WorkerPool, VirtualDirectory

CONSTANTS
  Users,         \* user names, or addresses of clients that did not log in
  HasRoles,      \* the roles of each user
  Configs,       \* states of the configuration files
  LinesOf,       \* their lines in each of them
  Objects,       \* object name with max_depth and data_size_limit
  Slices,        \* a request for slices of a dataset
  Size,          \* the bytes of the answer to each of them
  Asks,          \* what requests ask for: an object, slices or neither, by GET or HEAD
  MaxArrivals,   \* bound on the requests made
  MaxReloads,    \* bound on the reloads made
  MaxDeaths,     \* bound on the readers that are found dead
  MaxRequests,   \* max_requests_per_user, 0 for no limit
  BufferSize,    \* most bytes in one read
  MaxCached,     \* max_cached_response_size
  IntMax,        \* 2^31 - 1
  None

ASSUME WebConstants ==
  /\ {MaxArrivals, MaxReloads, MaxDeaths, MaxRequests, MaxCached} \subseteq Nat
  /\ {BufferSize, IntMax} \subseteq Nat \ {0}
  /\ MaxCached <= IntMax
  /\ Slices \notin Objects
  /\ Size \in [Objects \cup {Slices} -> Nat]
  /\ Asks \subseteq [object : Objects \cup {Slices, None}, get : BOOLEAN]
  /\ DOMAIN HasRoles = Users
  /\ LinesOf \in [Configs -> Seq([path : Seq(STRING), media_type : STRING,
                                  real_path : STRING, roles : SUBSET STRING])]
  /\ IsFiniteSet(Threads)
  /\ None \notin Objects \cup {Slices}

VARIABLES
  root,         \* the published virtual directory, or None if the start failed
  loading,      \* the one under construction, or None if the lock is free
  reloads,      \* reloads made so far
  permits,      \* the semaphore of each user
  deaths,       \* history: readers found dead
  cache,        \* request_cache
  arrivals,     \* requests made so far
  pc, req,      \* where each thread is, and its request
  body,         \* what it sent
  kept, left,   \* smallCache and max_left_to_buffer
  status        \* how its request ended

config  == <<root, loading, reloads>>
library == <<pool, deaths>>
shared  == <<permits, library, cache, arrivals>>
local   == <<pc, req, body, kept, left, status>>
vars    == <<config, shared, local>>

-----------------------------------------------------------------------------
NrLines(c) == Len(LinesOf[c])
Lines(r) == SubSeq(LinesOf[r.of], 1, r.lines)

(* A new VirtualDirectory, before the first line *)
Begun(c) == [of |-> c, lines |-> 0, tree |-> EmptyRoot]

(* An answer of the reader: its bytes are known by their position *)
Answer(file, object, bytes) == [file |-> file, object |-> object, bytes |-> bytes]
Whole(a) == a.bytes = [i \in 1 .. Size[a.object] |-> i]
Nothing == Answer(None, None, <<>>)

(* Arithmetic of a Java int *)
JavaInt(n) == ((n + IntMax + 1) % (2 * (IntMax + 1))) - (IntMax + 1)

NoRequest == [user |-> None, path |-> <<>>, object |-> None, get |-> FALSE, root |-> None, file |-> None]

(* contextInitialized: the configuration is loaded before any request, and   *)
(* one that cannot be loaded leaves none                                     *)
Init ==
  /\ root = None
  /\ \E c \in Configs : loading = Begun(c)
  /\ reloads = 0
  /\ permits = [u \in Users |-> MaxRequests]
  /\ PoolInit
  /\ deaths = 0
  /\ cache = [k \in {} |-> None]
  /\ arrivals = 0
  /\ pc = [t \in Threads |-> "idle"]
  /\ req = [t \in Threads |-> NoRequest]
  /\ body = [t \in Threads |-> Nothing]
  /\ kept = [t \in Threads |-> <<>>]
  /\ left = [t \in Threads |-> 0]
  /\ status = [t \in Threads |-> "none"]

Starting == root = None /\ loading # None

(* request_cache drops what it likes *)
Evict(k) ==
  /\ cache' = [x \in DOMAIN cache \ {k} |-> cache[x]]
  /\ UNCHANGED <<config, permits, library, arrivals, local>>

-----------------------------------------------------------------------------
(* ExternalConfigManager.load, for a request to StatusServlet: reads what    *)
(* the files hold then.  A reload that finds the lock taken, or no           *)
(* configuration, changes nothing.                                           *)
Reload ==
  /\ root # None /\ loading = None
  /\ reloads < MaxReloads
  /\ reloads' = reloads + 1
  /\ \E c \in Configs : loading' = Begun(c)
  /\ UNCHANGED <<root, shared, local>>

NextTree == AddFile(loading.tree, LinesOf[loading.of][loading.lines + 1])
NextLine == [loading EXCEPT !.lines = @ + 1, !.tree = NextTree]

(* Mutant: lines are added to the active directory *)
MutantLoadLine ==
  /\ loading # None
  /\ loading.lines < NrLines(loading.of)
  /\ loading' = IF Failed(NextTree) THEN None ELSE NextLine
  /\ root' = IF Failed(NextTree) THEN root ELSE NextLine
  /\ UNCHANGED <<reloads, shared, local>>

(* One line is read and added; an error frees the lock *)
LoadLine ==
  /\ loading # None
  /\ loading.lines < NrLines(loading.of)
  /\ loading' = IF Failed(NextTree) THEN None ELSE NextLine
  /\ UNCHANGED <<root, reloads, shared, local>>

(* The file cannot be read *)
LoadFails ==
  /\ loading # None
  /\ loading' = None
  /\ UNCHANGED <<root, reloads, shared, local>>

(* If that worked, make the new config active *)
Publish ==
  /\ loading # None
  /\ loading.lines = NrLines(loading.of)
  /\ root' = loading
  /\ loading' = None
  /\ UNCHANGED <<reloads, shared, local>>

-----------------------------------------------------------------------------
(* A request.  getRoot is read once; from there on the request keeps what it *)
(* resolved.                                                                 *)

Goto(t, to) == pc' = [pc EXCEPT ![t] = to]
Ends(t, s) == Goto(t, "release") /\ status' = [status EXCEPT ![t] = s]

AllLines == UNION { ToSet(LinesOf[c]) : c \in Configs }
Paths == UNION { { SubSeq(l.path, 1, n) : n \in 0 .. Len(l.path) } : l \in AllLines }

(* The empty path is the root directory, which everybody may list *)
Finds(user, path) ==
  /\ root # None
  /\ path = <<>> \/ ResolvePath(root.tree, path, HasRoles[user])

(* A directory has no objects, and whether its listing is written changes    *)
(* nothing here                                                              *)
Begin(t) ==
  /\ pc[t] = "idle" /\ arrivals < MaxArrivals
  /\ arrivals' = arrivals + 1
  /\ \E user \in Users, path \in Paths, ask \in Asks :
       /\ Finds(user, path)
       /\ LET isfile == path \in Files(root.tree)
          IN req' = [req EXCEPT ![t] = [user |-> user, path |-> path, root |-> root,
                                        file |-> IF isfile THEN root.tree.files[path] ELSE None,
                                        object |-> IF isfile THEN ask.object ELSE None,
                                        get |-> isfile /\ ask.get]]
  /\ Goto(t, "acquire")
  /\ UNCHANGED <<config, permits, library, cache, body, kept, left, status>>

(* Bad parameters, no such path, or no configuration: an error at once *)
Reject(t) ==
  /\ pc[t] = "idle" /\ arrivals < MaxArrivals /\ ~Starting
  /\ arrivals' = arrivals + 1
  /\ UNCHANGED <<config, permits, library, cache, local>>

User(t) == req[t].user
Limited == MaxRequests > 0

(* crc.acquire: may block *)
Acquire(t) ==
  /\ pc[t] = "acquire"
  /\ Limited => permits[User(t)] > 0
  /\ permits' = IF Limited THEN [permits EXCEPT ![User(t)] = @ - 1] ELSE permits
  /\ Goto(t, "respond")
  /\ UNCHANGED <<config, library, cache, arrivals, req, body, kept, left, status>>

ForObject(t) == req[t].file # None /\ req[t].object # None

(* A listing of a directory or the description of a file, made from the tree *)
Describe(t) ==
  /\ pc[t] = "respond" /\ ~ForObject(t)
  /\ Ends(t, "ok")
  /\ UNCHANGED <<config, shared, req, body, kept, left>>

(* The client has gone, or the metadata of a directory cannot be read *)
RespondFails(t) ==
  /\ pc[t] = "respond"
  /\ Ends(t, "error")
  /\ UNCHANGED <<config, shared, req, body, kept, left>>

(* Slices are not cached *)
Cacheable(t) == req[t].object \in Objects

(* Mutant: keyed by the virtual path *)
MutantCacheKey(r) == <<r.path, r.object>>

CacheKey(r) == <<r.file, r.object>>

Hit(t) == Cacheable(t) /\ CacheKey(req[t]) \in DOMAIN cache

(* Return a cached response if we can *)
FromCache(t) ==
  /\ pc[t] = "respond" /\ ForObject(t) /\ Hit(t)
  /\ body' = [body EXCEPT ![t] = IF req[t].get THEN cache[CacheKey(req[t])] ELSE Nothing]
  /\ Ends(t, "ok")
  /\ UNCHANGED <<config, shared, req, kept, left>>

(* openObject or openDatasetSlices asks the pool for a worker *)
CacheMiss(t) ==
  /\ pc[t] = "respond" /\ ForObject(t) /\ ~Hit(t)
  /\ Ask(t)
  /\ Goto(t, "open")
  /\ UNCHANGED <<config, permits, deaths, cache, arrivals, req, body, kept, left, status>>

(* process_pool_get_worker_by_score: sem_wait may block *)
PoolWaits(t) ==
  /\ pc[t] = "open"
  /\ Waits(t)
  /\ UNCHANGED <<config, permits, deaths, cache, arrivals, local>>

PoolStartFails(t) ==
  /\ pc[t] = "open"
  /\ StartFails(t)
  /\ UNCHANGED <<config, permits, deaths, cache, arrivals, local>>

Death == deaths < MaxDeaths /\ deaths' = deaths + 1

(* The worker that the pool assigned died while it was idle *)
FindsDead(t) ==
  /\ pc[t] = "open"
  /\ Death
  /\ Discards(t)
  /\ UNCHANGED <<config, permits, cache, arrivals, local>>

(* The pool has no worker to give: an exception *)
GetFails(t) ==
  /\ pc[t] = "open"
  /\ place[t] = "outside"
  /\ Ends(t, "error")
  /\ UNCHANGED <<config, shared, req, body, kept, left>>

(* The worker goes back to the pool, unless it has died *)
ReleaseWorker(t) ==
  \/ GivesBack(t) /\ UNCHANGED deaths
  \/ Loses(t) /\ Death

(* There is a worker, and it opens the object *)
Open(t) ==
  /\ pc[t] = "open"
  /\ place[t] = "has"
  /\ body' = [body EXCEPT ![t] = IF req[t].get THEN Answer(req[t].file, req[t].object, <<>>) ELSE Nothing]
  /\ left' = [left EXCEPT ![t] = MaxCached]
  /\ Goto(t, IF req[t].get THEN "copy" ELSE "close")
  /\ UNCHANGED <<config, shared, req, kept, status>>

(* The worker cannot open it: an exception *)
OpenFails(t) ==
  /\ pc[t] = "open"
  /\ ReleaseWorker(t)
  /\ Ends(t, "error")
  /\ UNCHANGED <<config, permits, cache, arrivals, req, body, kept, left>>

Sent(t) == Len(body[t].bytes)

(* StreamCopier: one pass of the loop.  What copyStream would keep of slices *)
(* goes nowhere.                                                             *)
Copy(t) ==
  /\ pc[t] = "copy"
  /\ \E bytes_read \in 1 .. BufferSize :
       LET buf == [i \in 1 .. bytes_read |-> Sent(t) + i]
           nr_to_buffer == Min({left[t], bytes_read})
       IN /\ Sent(t) + bytes_read <= Size[req[t].object]
          /\ body' = [body EXCEPT ![t].bytes = @ \o buf]
          /\ kept' = IF nr_to_buffer > 0 THEN [kept EXCEPT ![t] = @ \o SubSeq(buf, 1, nr_to_buffer)] ELSE kept
          /\ left' = [left EXCEPT ![t] = JavaInt(@ - bytes_read)]
  /\ UNCHANGED <<config, shared, pc, req, status>>

(* The end of the stream: the worker goes back *)
CopyEnds(t) ==
  /\ pc[t] = "copy" /\ Sent(t) = Size[req[t].object]
  /\ ReleaseWorker(t)
  /\ IF Cacheable(t) /\ left[t] >= 0 THEN Goto(t, "put") /\ UNCHANGED status ELSE Ends(t, "ok")
  /\ UNCHANGED <<config, permits, cache, arrivals, req, body, kept, left>>

(* Mutant: the worker is not given back *)
MutantCloseUnread(t) ==
  /\ pc[t] = "close"
  /\ Ends(t, "ok")
  /\ UNCHANGED <<config, shared, req, body, kept, left>>

(* HEAD closes the stream without reading it *)
CloseUnread(t) ==
  /\ pc[t] = "close"
  /\ ReleaseWorker(t)
  /\ Ends(t, "ok")
  /\ UNCHANGED <<config, permits, cache, arrivals, req, body, kept, left>>

(* The stream fails, or the client has gone: the stream is closed, and an    *)
(* error is sent after what was sent before                                  *)
CopyFails(t) ==
  /\ pc[t] = "copy"
  /\ ReleaseWorker(t)
  /\ Ends(t, "error")
  /\ UNCHANGED <<config, permits, cache, arrivals, req, body, kept, left>>

(* Cache the response, if it was below the size threshold *)
Keep(t) ==
  /\ pc[t] = "put"
  /\ cache' = Put(cache, CacheKey(req[t]), Answer(req[t].file, req[t].object, kept[t]))
  /\ Ends(t, "ok")
  /\ UNCHANGED <<config, permits, library, arrivals, req, body, kept, left>>

Returns(t) ==
  /\ Goto(t, "idle")
  /\ req' = [req EXCEPT ![t] = NoRequest]
  /\ body' = [body EXCEPT ![t] = Nothing]
  /\ kept' = [kept EXCEPT ![t] = <<>>]
  /\ left' = [left EXCEPT ![t] = 0]
  /\ status' = [status EXCEPT ![t] = "none"]

(* Mutant: the permit is kept after an error *)
MutantRelease(t) ==
  /\ pc[t] = "release"
  /\ permits' = IF Limited /\ status[t] # "error" THEN [permits EXCEPT ![User(t)] = @ + 1] ELSE permits
  /\ Returns(t)
  /\ UNCHANGED <<config, library, cache, arrivals>>

(* finally: crc.release *)
Release(t) ==
  /\ pc[t] = "release"
  /\ permits' = IF Limited THEN [permits EXCEPT ![User(t)] = @ + 1] ELSE permits
  /\ Returns(t)
  /\ UNCHANGED <<config, library, cache, arrivals>>

-----------------------------------------------------------------------------
(* What a thread does once its request has begun *)
Step(t) ==
  \/ Acquire(t) \/ Describe(t) \/ FromCache(t) \/ CacheMiss(t)
  \/ PoolWaits(t) \/ GetFails(t) \/ Open(t) \/ Copy(t) \/ CopyEnds(t) \/ CloseUnread(t)
  \/ Keep(t) \/ Release(t)

(* What may go wrong for it *)
Fail(t) ==
  \/ RespondFails(t) \/ PoolStartFails(t) \/ FindsDead(t) \/ OpenFails(t) \/ CopyFails(t)

Load == LoadLine \/ LoadFails \/ Publish

Next ==
  \/ Reload \/ Load
  \/ \E k \in DOMAIN cache : Evict(k)
  \/ \E t \in Threads : Begin(t) \/ Reject(t) \/ Step(t) \/ Fail(t)

Spec == Init /\ [][Next]_vars

(* A request thread goes on by itself, from sem_wait only if there is a      *)
(* permit; nothing is made to fail.  A client that does not read its         *)
(* response is cut off by the container.                                     *)
FairSpec == Spec /\ \A t \in Threads : WF_vars(Step(t))

-----------------------------------------------------------------------------
Roles == UNION { l.roles : l \in AllLines }

HonoursRoles(r) ==
  \A has \in SUBSET Roles :
    LET tree == r.tree
        may == { p \in Paths : MayAccess(Lines(r), p, has) }
        below(dir) == { p \in may : IsStrictPrefix(dir, p) }
    IN /\ { p \in Paths : ResolvePath(tree, p, has) } = may \ {<<>>}
       /\ \A dir \in Directories(tree) \cap may :
            /\ GetAllFiles(tree, dir, has) = below(dir) \cap Files(tree)
            /\ \A depth \in 0 .. 2 :
                 PackDirectory(tree, dir, has, depth) = { p \in below(dir) : Len(p) - Len(dir) <= depth + 1 }

(* README.md: "A user can only access a directory and any files and          *)
(* subdirectories in it if they belong to all roles associated with the      *)
(* directory."  In every tree that a reload makes active, whatever the order *)
(* of the lines, a path can be opened exactly by those who have every role   *)
(* declared on the way to it, and listings show exactly what can be opened.  *)
RolesAsDeclared == [][root' # root => HonoursRoles(root')]_root

(* Reloads under way or failed are never seen: a request works from first to *)
(* last with one completely loaded configuration, in which its user has the  *)
(* roles declared for the path (getRoot is called once, root is set last).   *)
ServedAsConfigured ==
  \A t \in Threads :
    pc[t] # "idle" => /\ req[t].root.lines = NrLines(req[t].root.of)
                      /\ MayAccess(LinesOf[req[t].root.of], req[t].path, HasRoles[User(t)])

(* A request for an object that ends without an error has sent the whole     *)
(* answer for the file its path named when it began, be it read or taken     *)
(* from the cache, whatever other requests failed, were cut off, or used     *)
(* other configurations.                                                     *)
AnswerRight ==
  \A t \in Threads :
    status[t] = "ok" /\ req[t].get /\ ForObject(t) =>
      /\ Whole(body[t])
      /\ body[t].file = req[t].root.tree.files[req[t].path]
      /\ body[t].object = req[t].object

HoldsPermit(t) == pc[t] \notin {"idle", "acquire"}
HoldsWorker(t) == place[t] = "has"

(* ConcurrentRequestCount: "This is to prevent one user from tying up all of *)
(* the processes in the pool."  Permits and workers come back on every path: *)
(* a worker that runs is in the pool or with a request that is opening or    *)
(* reading a stream.  With fewer permits than workers no user has them all.  *)
NeverTiesUpPool ==
  /\ \A t \in Threads : HoldsWorker(t) => pc[t] \in {"open", "copy", "close"}
  /\ sem + Cardinality({ t \in Threads : HoldsWorker(t) }) = running
  /\ \A u \in Users :
       LET mine == { t \in Threads : User(t) = u }
       IN /\ Limited => permits[u] + Cardinality({ t \in mine : HoldsPermit(t) }) = MaxRequests
          /\ MaxRequests \in 1 .. NrProcesses - 1 => Cardinality({ t \in mine : HoldsWorker(t) }) < NrProcesses

(* Unless a reader dies every request comes to an end: nobody waits for ever *)
(* for a permit or a worker, although there may be fewer workers than        *)
(* requests, and the permits of a user go to whoever asks first.             *)
RequestsEnd == [](deaths = 0) => \A t \in Threads : pc[t] # "idle" ~> pc[t] = "idle"

(* "Only cache responses smaller than this limit (bytes)" (web.xml) and "If  *)
(* the stream is too long, nothing is kept" (TestStreamCopier.java): what is *)
(* in the cache is a whole answer within the limit.                          *)
CachedWhole == \A k \in DOMAIN cache : Whole(cache[k]) /\ Len(cache[k].bytes) <= MaxCached
=============================================================================
