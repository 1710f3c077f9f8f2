# A TLA+ development for hdfstream-api

hdfstream-api serves HDF5 files over HTTP. A Java web application accepts
requests; a C library, reached by JNI, keeps a pool of reader processes; each
reader opens files with HDF5, packs what was asked for as msgpack and streams
it back through shared memory. This directory models the parts of that system
that are hard to test, checks them with TLC on small instances, and proves the
main safety properties with TLAPS for instances of every size.

## 1. Inventory

| component | state | operations | interacts with | what is hard |
|---|---|---|---|---|
| process pool (`src/util/process_pool.c`) | slots with a worker and a state, count of running processes, semaphore, scan position, stop flag | get by score, release, start, discard a dead worker, free | called by every request thread; starts and frees workers | semaphore and mutex are separate; checks outside the lock; deaths; shutdown under load |
| worker process (`src/util/worker_process.c`) | pid, pipes, `is_dead` | new, free, kill, send, recv, is_alive, wait for a semaphore | pool, streams | death at any moment; a pid that was waited for; time outs |
| streams (`src/lib/hdfstream.c`, `src/lib/shared_data.c`, `src/hdf5/msgpack_chunkbuffer.c`) | ring of buffers with two semaphores each, cancel flag, position of each side | open, write, flush, destroy, read chunk, close | reader process and request thread share memory | reuse of a worker after an early close, cancellation races, end of stream, failures half way |
| reader process (`src/reader/hdfstream_reader.c`) | file cache, command loop | read dataset, read object, expire | pipe and shared memory | as above |
| file and dataset cache (`src/hdf5/file_cache.c`, `dataset_cache.c`) | lists of open files and datasets in order of use, access times | open, evict, expire, query | reader; a shadow copy in the manager decides which worker gets a request | two copies changed by different events; order of use against order of time |
| cache statistics (`hdfstream_cache_info`) | none of its own | read a slot | pool, without its lock | unlocked reads |
| Java binding (`jni/`) | reference count, stop flag, native pointer | open, read, close, cache info, free | request threads, web application shutdown | use of the native struct after it was freed |
| ordered map, linked list, AVL tree (`src/util/`) | nodes | insert, remove, look up, move to head | caches | pointer surgery, rebalancing |
| slice selection and binning (`src/hdf5/multislice.c`, `select.c`, `pack_contents.c`) | position in a list of slices, bytes left in a piece | check, select next buffer, read, cut into pieces | packing | overflow, empty slices, merging of neighbours, headers written before the data is read |
| packing (`src/hdf5/pack_*.c`) | the groups on the way | recursive description of objects | stream, slices | links in circles, depth limit, errors on the way |
| virtual directories (`virtual_directory/`) | tree of names with roles | add, resolve, list | request handler | inheritance of roles, lines in any order |
| request handler (`webapp/`) | response cache, per-user semaphores, configuration | GET, HEAD, POST, reload | all of the above | what is cached, what is released on each path, reload under load |

What makes each component correct, in short. Pool: a worker has one owner, the
permits of the semaphore match the idle workers, every caller is answered,
shutdown ends and leaves no process. Streams: the caller gets a prefix of the
answer to its own request and an honest status. Caches: limits hold, the copy
in the manager knows what the reader has open, the right files expire. Java
binding: the native struct outlives its users, and shutdown ends. Lists: the
map is a sequence with lookup. Slices: the bytes sent are the selected ones, in
order. Directories and requests: nobody sees what their roles do not allow,
only whole responses are cached, limits are given back.

`PROJECT.json` lists the hazards at the lines where they bite.

## 2. Modules

| module | models |
|---|---|
| `ProcessPool` | `process_pool.c` and what it calls of `worker_process.c` |
| `WorkerPool` | what the process pool is to the threads that use it, abstractly; `StreamReferences` and `WebApp` use its actions |
| `CacheInfo` | `hdfstream_cache_info` beside a running pool (extends `ProcessPool`) |
| `ChunkStream` | one reader process, its shared memory and the client, over a sequence of requests |
| `ByteStream` | what a stream promises its caller, abstractly |
| `StreamRefinement` | the refinement mapping from `ChunkStream` to `ByteStream` |
| `FileCache` | the reader's caches and the manager's shadow of them |
| `StreamReferences` | `HDFStream.java` and `DataStream.java`: references and `free` (extends `WorkerPool`) |
| `AvlTree` | `avltree.c`: the tree in which an ordered map looks keys up |
| `OrderedMap` | `ordered_map.c` and `linked_list.c` (extends `AvlTree`) |
| `KeySequence` | what an ordered map promises, abstractly |
| `MultiSlice` | `multislice.c`, `select.c`, `pack_contents.c` and the loops of `pack_dataset.c` |
| `PackObject` | `pack_object.c`, `pack_group.c` and what they call (extends `MultiSlice`) |
| `VirtualDirectory` | `VirtualDirectory.java`: trees, roles, listings; no variables |
| `WebApp` | request threads, per-user limit, response cache, reload (extends `VirtualDirectory` and `WorkerPool`) |
| `ProcessPoolProofs`, `ChunkStreamProofs`, `StreamReferencesProofs`, `FileCacheProofs`, `MultiSliceProofs`, `SliceOutputProofs`, `PackObjectProofs`, `WebAppProofs` (with the virtual directories) | theorems (section 4) |
| `MC...` | instances for TLC |

Operators whose comment begins with "Mutant" are faulty versions of the
definition that follows them; each property has one that breaks it.

### ProcessPool

Each request thread has a program counter (`pc`) with the places between which
other threads can act. What the code does between locking and unlocking
`pool->mutex` is one action; `sem_getvalue`, `sem_wait`, `sem_post` after the
unlock, `worker_process_is_alive` in the retry loop and the deallocation at the
end of `process_pool_free` are actions of their own. `worker`, `worker_state`,
`nr_processes_running`, `next`, `stop`, `sem` are the fields of the struct;
`proc` says of each address of a `struct worker_process` whether it is
allocated and what became of its process; `free()` makes an address available
to the next start, so that mistaken identity would show. `Scores` stands for
what the score callback may return: any score for any slot at any time.
`SemWaitInterrupted` is what `while(err == EINTR)` does with assertions
compiled out (release builds); with assertions the process aborts, which has no
successor worth modelling. `died` is a history variable.

`WorkerPool` keeps the semaphore, the number of running processes, the stop
flag and how far each thread is with its request for a worker; slots, addresses
and scores are gone. `Promise` is the mapping: `Stage` says which place of
`WorkerPool` a program counter is at, and `KeepsPromise` that every step of
`ProcessPool` is one of `WorkerPool`. So the modules above are checked on a
pool that this one has been shown to be: in it too, a worker that dies takes its
permit along, and who waits for that permit sleeps on. `Interrupted` is there
for this refinement; the modules above leave interrupted waits out.

### ChunkStream

The client (`cpc`) and the reader (`wpc`) step independently; shared memory is
`srd_status`, the semaphores, `used`, `status` and `mem`. A byte is a pair of
the request's number modulo 2 and a position, so bytes of the previous request
differ from this one's. Packing is a sequence of writes of any size (`Write`),
which may fail at any point (`PackReturns`). A dead worker is replaced at
release or at the next get, which is what the pool does with it; the pool
itself gives the worker to one request at a time (`OwnedExclusively`), so there
is one client. Two abstractions: `Open` resets the shared memory and sends the
command in one step, which nobody can observe since the reader is idle
(`QuietWhenClosed`); and a write that fails because of a cancellation ends the
packing, although `pack_numpy_type.c` ignores the failure and goes on to the
next write: that one fails in the same way, since the cancellation is not
withdrawn before the stream has ended and the buffer stays half full. Lengths
are `size_t`: `BytesFree` subtracts modulo `SizeWidth`, so a length left in a
buffer by an earlier request that was larger than `cb->buffer_size` would make
nearly all of memory free, and `BlockFits` would fail.

### FileCache

Both caches are sequences of entries, most recently used first. Times are
ages, so that the model needs no bound on the clock; ages beyond `MaxAge + 1`
are not told apart. The clock is assumed not to go back. The counters of hits
and misses are left out, and so are the times of the shadow, which nothing
reads. `Send` and `UpdateShadow` are the two halves of opening a stream in the
manager; between them the reader answers, and may go on to pack, wait and
expire before the manager has looked at the answer. `expired` is a history
variable: until a reader expires a file, the copy is exact.

### StreamReferences

Threads call the public methods of `HDFStream` and `DataStream`, `free` runs
once beside them. The pool is `WorkerPool`: a thread asks, may sleep in
`sem_wait` with its reference, may find the worker dead and ask again, and
gives the worker back alive or dead. `closed` is the flag of a `DataStream`,
`inBlock` says whether its thread is still in the body of the
try-with-resources block; `readChunk` closes the stream at its end or after an
error, the end of the block closes it again, and `Close` is each of these calls.
`deaths` counts the readers found dead before the pool was stopped (bounded by
`MaxDeaths`); afterwards any may be, since `process_pool_free` kills the idle
ones.

### AvlTree, OrderedMap and KeySequence

`tree` holds the struct and the fields of its nodes, `list` the head, the tail,
the count and the links of the list; an operation of the map is one action,
since callers run it on one thread. An `ordered_map_item`, its value and its
`list_item` live and die together and are known by their key; nodes of the tree
have addresses of their own, because a deletion moves key and item from one
node to another and frees that one. The descent, the heights, the rotations and
the walk back to the root are operators on the tree (recursive, so no theorem
is stated here). The two rotations mirror each other and are one operator with
a side. `rebalance` does what the code does and no more: it starts at the
parent and leaves a node whose higher child is level. `KeySequence` is the
header read as a specification; `IsKeySequence` says that the list, read from
its head as `ordered_map_iterate` reads it, implements it operation by
operation: each is the operation of the same name there, with the same key, so
which end an item is added to, moved to or evicted from is checked. `FileCache`
uses the ordered map through that contract. The code only compares keys, so
small numbers stand for the names of files and datasets.

### MultiSlice

One call of `pack_dataset_multi_slice_with_max_size`, and the call of it by
`pack_dataset` for the contents of a dataset. One pass of each loop is one
action: over the slices for a buffer (`SelectSlice`), over buffers
(`SelectNext`, `Read`, `Packed`), over the pieces of a buffer (`PackBin`,
`PackElement`). The dataset holds its bytes 0, 1, 2, ... in the order of the
file, so `out` tells where every byte came from, and `Wanted` is what should
come: the rows of the slices one after the other. `hsize_t` and `size_t` wrap
at `Width`. The code does not compare the rank of a request with the
dataset's: entries of `file_dims`, `start` and `count` that nobody set are any
of `Garbage`. Starts and counts are below `Width / 2` because the Java binding
refuses negative ones, and that is why `start + count` cannot wrap.

### PackObject

The recursion is a stack of groups with the links not yet visited; opening an
object, visiting a link and leaving a group are actions, and a dataset is
packed by the actions of `MultiSlice`. A file is a graph of objects and links;
a group has one link of a name, which HDF5 guarantees (`ObjectConstants`).
The reference is a set: the trails of links from the root down to the limit,
with what each is shown as. Which attributes cannot be packed is kept, their
values are not.

### VirtualDirectory and WebApp

A tree is a record with the roles of each directory and the real file behind
each path; the code's descent by names becomes the prefixes of a path. What
the repository's README promises about roles is stated on the lines of the
configuration (`DeclaredRoles`), not on the tree. `WebApp` keeps the
published directory and the one under construction, each with the tree made of
the lines read so far; a start and a reload read their configuration line by
line beside the requests, and publish the tree at the end. Actions
of a request thread are the points between which others can act: arrival (the
root is read once and the path resolved), `crc.acquire`, the look at the
cache, the open, each pass of `StreamCopier`, the close, the `put`, and the
release. The library below is what the other modules show: the pool is
`WorkerPool`, so an open may sleep in `sem_wait`, and readers may die (`deaths`,
bounded by `MaxDeaths`); a stream delivers a prefix of the answer in pieces,
all of it if it ends without an error. What may go wrong for a request is in
`Fail`, apart from what its thread does by itself (`Step`).
POST is GET with other syntax. `Evict` is Caffeine, which drops what it
likes. `JavaInt` gives `max_left_to_buffer` the width of an int.

## 3. Runs

| run | instance | shows |
|---|---|---|
| `pool_safety` | 2 threads, 2 slots, 3 addresses, scores 0 and 1, deaths, failed starts, one interrupted wait, shutdown | ownership, permits, no orphans, retry bound, refinement of `WorkerPool` |
| `pool_liveness` | 3 threads, 1 slot, deaths, failed starts, shutdown | every get returns if no worker dies; shutdown ends and wakes every waiter |
| `stream` | 2 buffers of 4 bytes, block sizes 1 and 5, answers up to 3 bytes, lengths modulo 16, deaths and failures | token discipline, cancellation, blocks fit and no subtraction wraps, refinement of `ByteStream`, every call returns |
| `cache` | 3 files of which 2 may be open, 3 datasets of which 2, expiry, deaths | limits, shadow, scores, expiry, an idle reader closes its files |
| `references` | 2 threads, 2 workers, failed starts, 2 deaths, `free` interrupted or not | reference count, no use after free, sane shutdown; `free` returns if no reader dies or if it is interrupted; every request ends once the pool is stopped |
| `avl_tree` | 6 keys, insertions and deletions in every order | pointers agree, no node lost, every key found with its item; balanced by insertions |
| `ordered_map` | 4 keys, all operations of the map | list and tree hold the same items, links sound both ways, refinement of `KeySequence` |
| `slices` | 11 datasets of rank 0 to 3, one of them empty with inner sizes whose product wraps, all lists of up to 3 slices over small starts and counts, two per buffer, pieces of 3 bytes, arithmetic modulo 16; 4 files with circles, several links to an object, links to nothing, depth 0 to 3 | right bytes, honest headers, exact acceptance, buffer not overrun, every link shown once, termination |
| `requests` | 2 threads, 2 users with different roles, 3 configurations, 2 requests, 1 reload, 2 workers, failed starts, 1 death, 1 permit each, responses of 1 and 2 bytes of which 1 may be cached, slices by HEAD | roles, one complete configuration per request, right answers, permits and workers given back; every request ends if no reader dies |

The bounds: two of everything that competes (threads, slots, buffers) give
every race between a pair, three threads on one slot give several waiters at
once, one address, file or dataset more than fits gives reuse and eviction. A
block size of 1 flushes after every byte, so that three bytes and the end of
the stream go round the ring twice, and a write of two or three must be cut; 5
is larger than the shared buffers, so it is clamped, and a buffer of 4 is the
smallest that may be left partly filled. An answer longer than such a buffer is
left to the theorem (`StreamBlockFits`). It takes six nodes before an insertion
makes a rotation move an inner subtree; four items give a list with a head, a
tail and two neighbours between them. Two dimensions show the order of rows and
elements, a third that counts of inner dimensions multiply; with arithmetic
modulo 16 products of the small counts wrap. A worker for each of two threads
lets two streams be open together, and when the start of the second worker
fails, or after a death, one thread sleeps in `sem_wait` while the other has
the only worker. Two requests are enough for one that meets the other's cache
entry, permit or worker, and for one before and one after a reload; two
configurations put different files behind one path, and one of them declares
roles on two levels after the contents, the inner one first. `AnswerRight` is
checked for responses that an int can count; `response_wraps` is about longer
ones. The proofs remove the bounds for the properties they cover.

Three runs expect a violation: there the code does something else than a
comment, an assertion or a test says. See `findings` in `PROJECT.json`:

* `pool_lost_wakeup`: a thread that waits for a worker is not woken when that
  worker dies in another thread's hands, and nobody starts a replacement.
  A shutdown can hang for the same reason: the sleeping thread has a reference,
  `HDFStream.free` lets no new request in and waits for all references before it
  calls `hdfstream_free`, and only that would post the permit which wakes the
  sleeper. So `FreeCompletes` is not claimed for behaviours in which a reader
  dies, unless `free` is interrupted, and `ShutdownEnds`, its conclusion, does
  not hold of all behaviours. The one of the web application, `RequestsEnd`, is
  limited in the same way.
* `info_death`: a worker freed between the two unlocked reads of
  `hdfstream_cache_info`.
* `response_wraps`: `max_left_to_buffer` wraps for a response of more than
  2^31 bytes, and incomplete bytes may enter the response cache.

Other disagreements were met and are not runs:

* An interrupted `sem_wait` counts as a success, so the case that
  `process_pool.c:178` says should not happen does; `PermitAccounting` and
  `ReservationHolds` count such interrupts.
* Buffered data is sent before an error code, not discarded as
  `msgpack_chunkbuffer.c:66` says; `ByteStream` allows it.
* After a deletion the check of the tree's balance starts one node higher than
  `avltree.c:162` says, so the tree may be left unbalanced; lookups stay right,
  and `BalancedByInsertion` says what does hold.
* A block that the reader publishes after the client's wait timed out and
  before the death it then sees is not delivered, although
  `worker_process_wait_for_semaphore` says that the semaphore will never become
  available; the stream ends with an error.
* A `free` that is interrupted goes on while requests hold references, and
  throws its sanity check; `SaneShutdown` and `NoUseAfterFree` are stated for a
  `free` that was not interrupted. What holds all the same is checked: the count
  stays right (`ReferencesCounted`), and every request ends (`StopEndsRequests`).
* `nr_bins_needed` says that it always returns at least 1 and returns 0 for no
  bytes; the body then writes none, so header and body agree (`HeaderHonest`).
* The rank of a request is not compared with the dataset's. The properties
  that can only hold for the right rank say so; `ReadFits` and `HeaderHonest`
  hold for any.
* Counts whose product wraps so that the bytes of a row are 0 end the reader
  with a division by zero, before the slices are checked against the file.
* A row of an empty dataset may be larger than the read buffer: its size wraps
  and is accepted. Nothing is read then, and `AcceptsExactly` says so.
* `web.xml` says that only responses smaller than the limit are cached; one of
  exactly the limit is too.
* The comment of `pack_group_recursive` says that members not recursed into
  are nil if they are groups; below the root all members of such a group are.
* `pack_group.c:79-80` says that with `max_depth` 0 only the object itself is
  packed; `pack_group.c:107-118` encodes the members of a group at depth 0 too,
  subgroups without theirs. `ShowsTheTree` follows the code.
* A line with an empty field of roles requires the role with the empty name.

### Fairness

`ProcessPool`: weak fairness for each thread inside a call of the pool (threads
are scheduled; the mutex is held for bounded times), for releasing a worker
(requests end), for the death of a killed process, and for the steps of a
shutdown. POSIX semaphores promise no order among waiters, so
`GetsReturnIfNoneDies`, `EveryGetReturns` and `ShutdownWakesAll` assume that
from some time on no new request arrives to overtake. `ChunkStream`: weak
fairness for the reader while it lives and for the client inside a call; the
caller need not read or close. `FileCache`: time passes, an idle reader's
`poll` returns, requests are answered and packed. `StreamReferences`: threads
in the library and `free` are scheduled; streams need not end by themselves.
`PackObject`: the reader goes on by itself; it need not fail. `WebApp`: every
request thread goes on once its request has begun (`Step`), which includes that
a client who does not read is cut off by the container. Java's `Semaphore`
promises no order either; the number of requests is bounded (`MaxArrivals`), so
overtaking ends. In both modules a thread goes on from `sem_wait` only if there
is a permit, and nothing is made to fail: no fairness is assumed of deaths, of
failed starts, opens or copies (`Fail`). Hence `RequestsEnd` is stated for
behaviours in which no reader is found dead, and `FreeCompletes` for those or
with an interrupt. That one permit wakes a chain of sleepers is checked with
three threads in `pool_liveness` (`ShutdownWakesAll`). Reloads need not end.
Nothing is assumed to die or to be requested.

## 4. Proofs

All theorems hold for any constants that satisfy the named assumptions of the
modules (finite sets of threads, at least one slot or buffer, and so on). The
inductive invariants hold on the runs' instances too, as TLC has checked (sets
of numbers that they take out of `Nat` bounded for that purpose), except
`TreeInv`: it says that a walk exists, which TLC cannot enumerate.

**Pool.** Ownership is not inductive by itself. The invariant of
`ProcessPoolProofs` adds that the workers in slots are distinct and allocated,
that a slot is `STOPPED` exactly when it has no worker (until shutdown clears
the pointers), that every BUSY slot has its holder, and that once
`process_pool_free` has seen no BUSY slot, none can come back: the stop flag
turns every thread away after it has the lock. From it: `PoolTypeCorrect`,
`PoolOwnership`, `PoolNoOrphans`.

**Counting.** Its second half proves the cardinality facts: `PoolRunningCount`,
and `PoolPermits` (idle slots, plus the shutdown's permit, plus interrupts,
equal the semaphore's value plus the permits on their way). `PoolReservation`
follows from it: threads past the semaphore exceed the idle workers by at most
the number of interrupted waits. `PoolRetries` needs that each try of a get
that saw no death removed a worker that was already dead, of which there are at
most as many as slots. From the types and the count follows the refinement,
`PoolKeepsPromise`, action by action: for instance, the thread that discards a
worker or releases it dead clears the slot of one process, which is what
`WorkerPool` takes off its count.

**Stream.** `ChunkStreamProofs` has one invariant: types, the token of each
buffer, the place of the reader relative to the client's (a stream that is
closed has an idle reader), the lengths of the buffers (the ones that are free
are empty), and at most one block under way when the cancellation comes. From
it: `StreamTypeCorrect`, `StreamOwnership`, `StreamQuiet`, `StreamBlockFits`,
`StreamHalfFree`, `StreamCancel`.

**Data of a stream.** `StreamFaithful` proves the refinement of `ByteStream`.
Its invariant `DataInv` says where every byte of the answer is. The buffers
that are published and not given back are the first `NrPending` ones from the
client's place (`Order`; the distance of a buffer from that place is a number,
so no argument goes round the ring). Each holds the part of the answer that
follows the one before, the first begins where the caller's bytes end, the last
ends where the reader's own buffer begins (`Flow`); a reader that ends with OK
has written everything (`Verdict`). All of this is claimed only of streams
that were neither ended nor cancelled: to its caller a cancelled stream is
closed. Every action is then one of `ByteStream` or changes nothing there.

**Cache.** `CacheInv` of `FileCacheProofs`: both lists are within their limits
and have no name twice, ages do not decrease along the reader's list, and what
the reader has open is known, in the same order, to the shadow that the manager
will have once it has seen the answer (`Pending`); before the first expiry the
two are equal. The detour over `Pending` is needed because the reader changes
its cache before the manager hears of it. From it: `CacheTypeCorrect`,
`LimitsRespected`, `ShadowComplete`, `ScoresExact`, `ExpiryExact`.

**Virtual directories.** `Reflects` of `WebAppProofs` relates a tree to the
lines added to it so far: it has what they name and the directories above, and
no role that no line declares. A line keeps it, whatever came before; from it
follow who can resolve what and what listings show (`ResolvesAsDeclared`,
`ListsAllFiles`, `ListsToDepth`).

**Web application.** Three invariants: every directory, published or under
construction, reflects the lines read, and a request holds one finished
directory (`ConfigInv`); the value of the semaphore and the workers in use add
up to the processes that run, a thread has to do with the pool only while it
opens, copies or closes, and the permits of a user are with the threads between
`crc.acquire` and `crc.release` (`PoolInv`); what a thread has sent and kept
are the first bytes of its own answer, and the cache holds whole answers
(`DataInv`). From them: `AlwaysServedAsConfigured`, `RolesAlwaysAsDeclared`,
`PoolNeverTiedUp`, `AnswersAlwaysRight`, `CacheAlwaysWhole`. The last two
assume `NoOverflow`, that is, no response is longer than the limit of the cache
plus the values of an int; `response_wraps` shows what happens to longer ones.

**Slices.** `SliceInv` of `MultiSliceProofs`: the request is one that the Java
binding lets through, accepted slices are apart and in order although only
neighbours were compared, the rows left are those of all slices but the ones
selected, and what is chosen for a buffer and what is left of it make one
buffer. That `start + count` cannot wrap rests on the bounds of the Java
binding; that the number of elements cannot wrap, on the slices being inside
the dataset. From it: `SlicesAcceptedExactly`, `CursorAlwaysSound`, and, for
any rank and any value of what was never set, `ReadAlwaysFits`. `Product` and
`Total` are recursive functions; `Induction` is stated for a set in place of a
predicate, which the provers can instantiate.

**Headers of slices.** `OutputInv` of `SliceOutputProofs` is about lengths
only. What was sent and what waits in the buffer make up the rows taken from
the cursor (`CountInv`, in rows times `RowUnits`), the msgpack_bins begun so
far and the bytes not in any of them make up the announced size (`BinsInv`),
and at the end nothing is left (`EndInv`). A size that wraps belongs to a
request of which nothing can be read, so nothing contradicts its header
(`NoWrap`). From it: `HeaderAlwaysHonest`.

**Bytes of slices.** `SendInv` adds which bytes they are. What was sent, and
then what waits in the buffer, are the elements of the rows before the cursor,
in the order of the file; those chosen for the next buffer are the last of
these rows and are not among them yet (`TakenInv`). The inner dimensions of
every selection are those of the first slice (`InnerInv`); an answer that is
complete has everything (`SentAll`). The argument rests on one lemma: if every
element of one set comes before every element of another, then what is sent of
their union in the order of the file is what is sent of the one and then of the
other. `InFileOrder` gives each element of a set its rank, and `FlattenSeq` is
unfolded over the prefixes of a sequence. Neighbouring slices that are merged
into one selection add up to the same rows. From it: `SlicesAlwaysSent`.

**Objects.** `TreeInv` of `PackObjectProofs` describes a walk by trails rather
than by the paths on the stack: there are the trails written so far (`Written`:
none twice, each after its own group), the groups on the way, which are the
beginnings of one trail (`Descent`), the links left in each, and the object to
open. Nothing that is left begins anything written (`Untouched`), and
everything in a group that was written is written or left (`Covered`). Trails,
not objects, are what is visited once, so circles do no harm. The stack and the
answer hold paths of names; a path belongs to one trail because a group has one
link of a name (`PathUnique`). When the stack is empty nothing is left, and by
induction on the length of a trail everything listed has been written. From it:
`TreeAlwaysShown`.

**References.** The count is right whatever happens (`ReferencesTypeCorrect`,
`ReferencesBalanced`). The invariant behind it, `StreamInv`, ties
the program places to the flags: a thread in `hdfstream_read_chunk` has a stream
that is not closed; one that gives back a worker or a reference in the body of
its block has set the flag; one that has no stream is in no block. So of the two
calls of `close` one passes the test of the flag, and each reference is given
back once, on every path. With it, and because nobody acquires a reference after
the stop flag is set, a `free` that is not interrupted and sees the count fall
to one leaves no request inside (`ReferencesProtect`, `ReferencesSane`).

`PoolTypeCorrect`, `PoolRunningCount`, `PoolReservation`, `StreamTypeCorrect`,
`StreamHalfFree`, `ReferencesTypeCorrect`, `CacheTypeCorrect`,
`CursorAlwaysSound` and `WebTypeCorrect` hold for every instance and are steps
or consequences of the other proofs; the runs do not check them again.

Only model-checked: the liveness properties (the prover does not handle
fairness); the ordered map with its tree (`AvlTree`, `OrderedMap`: `SearchTree`,
`BalancedByInsertion`, `ListLinked`, `TreeMatchesList` and the refinement of
`KeySequence`; the descent and the walk back are recursive operators, which are
out of the prover's reach); `CacheInfo`; and the runs that show violations.

## 5. Plan

Every safety property of the pool, the streams, the caches, the references, the
slices, the objects and the web application that a run checks is proved for
every instance. What is left is what this prover cannot do, as listed above. A
prover with induction over data could take the tree next, from the lookup
(every key is found with its item) to the rotations.

## 6. Not modelled

* The pipes between manager and readers: `do_read` and `do_write` with partial
  transfers and masked signals, and the descriptors that forked children
  inherit. A command arrives or breaks; no state of this code depends on more.
* The strings that describe data types (`pack_numpy_type.c`,
  `type_mapping.c`, `native_type.c`), and the contents of msgpack messages
  beyond the counts in their headers.
* The parameters of HTTP requests, the servlets that only format or copy
  (`StatusServlet` but for the reload, `TarFileServlet`), the web pages:
  conversions and I/O without state of their own.
* Change of a file on disk while a response of it is cached: nothing in the
  repository promises that the cache notices.
