----------------------------- MODULE FileCache -----------------------------
(***************************************************************************)
(* The cache of open files and datasets of one reader process              *)
(* (src/src/hdf5/file_cache.c, dataset_cache.c), and the shadow of it that *)
(* the manager keeps, by the same code, to choose the worker that has a    *)
(* file open already (cache_score in src/src/lib/hdfstream.c).             *)
(*                                                                         *)
(* Both are lists of files, most recently used first, each with such a     *)
(* list of datasets (an ordered_map keeps the order and the lookup).  The  *)
(* reader closes files that were not used for a time, which the manager    *)
(* does not see.  Times are kept as ages, now - last_accessed, so that the *)
(* clock needs no bound; an age beyond MaxAge is as good as any other.     *)
(***************************************************************************)
EXTENDS Integers, Sequences, FiniteSets

CONSTANTS
  Files, Datasets,   \* names
  NULL,              \* no dataset: a request for an object
  MaxOpenFiles,      \* max_open_files
  MaxOpenDatasets,   \* max_open_datasets
  MaxAge,            \* file_cache_expiry_interval; 0 disables expiry
  CanDie             \* may the reader process die?

ASSUME CacheConstants ==
  /\ NULL \notin Datasets
  /\ NULL \notin [file : Files, dataset : Datasets \cup {NULL}]
  /\ MaxOpenFiles \in Nat \ {0}
  /\ MaxOpenDatasets \in Nat \ {0}
  /\ MaxAge \in Nat
  /\ CanDie \in BOOLEAN

VARIABLES
  cache,    \* the reader's file cache
  shadow,   \* the manager's copy; its times are never read and stay 0
  reader,   \* what the reader does: waits for a command, packs, is dead
  request,  \* the request the manager has sent, or NULL
  retcode,  \* the reader's answer: what it opened of the request
  expired   \* history: has this reader closed files because of their age?

vars == <<cache, shadow, reader, request, retcode, expired>>

Ages == 0 .. MaxAge + 1

Requests == [file : Files, dataset : Datasets \cup {NULL}]

Init ==
  /\ cache = <<>>
  /\ shadow = <<>>
  /\ reader = "idle"
  /\ request = NULL
  /\ retcode = {}
  /\ expired = FALSE

-----------------------------------------------------------------------------
(* Lists *)

(* ordered_map_make_item_head *)
MakeItemHead(s, i) ==
  [k \in 1 .. Len(s) |-> IF k = 1 THEN s[i] ELSE IF k <= i THEN s[k - 1] ELSE s[k]]

(* Mutant: one entry too many is kept *)
AddItemHeadOneTooMany(s, max, e) == <<e>> \o SubSeq(s, 1, IF Len(s) > max THEN max ELSE Len(s))

(* Drop the tail until there is room, then add an entry at the head *)
AddItemHead(s, max, e) == <<e>> \o SubSeq(s, 1, IF Len(s) >= max THEN max - 1 ELSE Len(s))

Entry(f) == [name |-> f, datasets |-> <<>>, age |-> 0]

HasFile(c, f) == \E i \in 1 .. Len(c) : c[i].name = f

HasDataset(c, f, d) ==
  \E i \in 1 .. Len(c) : c[i].name = f /\ \E j \in 1 .. Len(c[i].datasets) : c[i].datasets[j] = d

(* Mutant: a hit does not renew the entry *)
OpenFileKeepsTime(c, f) ==
  IF HasFile(c, f)
  THEN LET i == CHOOSE i \in 1 .. Len(c) : c[i].name = f IN MakeItemHead(c, i)
  ELSE AddItemHead(c, MaxOpenFiles, Entry(f))

(* file_cache_open_file, when the file is cached or can be opened *)
OpenFile(c, f) ==
  IF HasFile(c, f)
  THEN LET i == CHOOSE i \in 1 .. Len(c) : c[i].name = f
       IN  [MakeItemHead(c, i) EXCEPT ![1].age = 0]
  ELSE AddItemHead(c, MaxOpenFiles, Entry(f))

(* dataset_cache_open_dataset for the file at the head, likewise *)
OpenDataset(c, d) ==
  LET s == c[1].datasets IN
  [c EXCEPT ![1].datasets =
     IF \E j \in 1 .. Len(s) : s[j] = d
     THEN MakeItemHead(s, CHOOSE j \in 1 .. Len(s) : s[j] = d)
     ELSE AddItemHead(s, MaxOpenDatasets, d)]

-----------------------------------------------------------------------------
(* The manager has the worker for a request and sends the command *)
Send ==
  /\ reader \in {"idle", "dead"}
  /\ request = NULL
  /\ request' \in Requests
  /\ retcode' = {"sent"}
  /\ UNCHANGED <<cache, shadow, reader, expired>>

(* do_read_dataset or do_read_object opens the file: it is cached, or      *)
(* H5Fopen finds it, or fails.                                             *)
FileFails ==
  /\ reader = "idle"
  /\ retcode = {"sent"}
  /\ ~HasFile(cache, request.file)
  /\ retcode' = {}
  /\ UNCHANGED <<cache, shadow, reader, request, expired>>

ObjectOpens ==
  /\ reader = "idle"
  /\ retcode = {"sent"}
  /\ request.dataset = NULL
  /\ cache' = OpenFile(cache, request.file)
  /\ retcode' = {"FILE_OPENED"}
  /\ reader' = "packing"
  /\ UNCHANGED <<shadow, request, expired>>

DatasetOpens ==
  /\ reader = "idle"
  /\ retcode = {"sent"}
  /\ request.dataset # NULL
  /\ cache' = OpenDataset(OpenFile(cache, request.file), request.dataset)
  /\ retcode' = {"FILE_OPENED", "DATASET_OPENED"}
  /\ reader' = "packing"
  /\ UNCHANGED <<shadow, request, expired>>

(* Only the file could be opened: there is nothing to pack *)
DatasetFails ==
  /\ reader = "idle"
  /\ retcode = {"sent"}
  /\ request.dataset # NULL
  /\ ~HasDataset(cache, request.file, request.dataset)
  /\ cache' = OpenFile(cache, request.file)
  /\ retcode' = {"FILE_OPENED"}
  /\ UNCHANGED <<shadow, reader, request, expired>>

(* The stream ends and the reader waits for the next command *)
Packed ==
  /\ reader = "packing"
  /\ reader' = "idle"
  /\ UNCHANGED <<cache, shadow, request, retcode, expired>>

(* The pipe to a dead reader breaks: nothing was opened *)
PipeBreaks ==
  /\ reader = "dead"
  /\ retcode = {"sent"}
  /\ retcode' = {}
  /\ UNCHANGED <<cache, shadow, reader, request, expired>>

(* Mutant: the dataset is entered whether or not it could be opened *)
UpdateShadowAlways ==
  /\ request # NULL
  /\ retcode # {"sent"}
  /\ shadow' = IF "FILE_OPENED" \in retcode
               THEN IF request.dataset # NULL
                    THEN OpenDataset(OpenFile(shadow, request.file), request.dataset)
                    ELSE OpenFile(shadow, request.file)
               ELSE shadow
  /\ request' = NULL
  /\ retcode' = {}
  /\ UNCHANGED <<cache, reader, expired>>

(* Mutant: a file whose dataset could not be opened is not entered *)
UpdateShadowOnSuccess ==
  /\ request # NULL
  /\ retcode # {"sent"}
  /\ shadow' = CASE "DATASET_OPENED" \in retcode -> OpenDataset(OpenFile(shadow, request.file), request.dataset)
                 [] "FILE_OPENED" \in retcode /\ request.dataset = NULL -> OpenFile(shadow, request.file)
                 [] OTHER -> shadow
  /\ request' = NULL
  /\ retcode' = {}
  /\ UNCHANGED <<cache, reader, expired>>

(* The manager receives the return code and updates its copy.  It is late: *)
(* by then the reader may have packed, waited and closed old files.        *)
UpdateShadow ==
  /\ request # NULL
  /\ retcode # {"sent"}
  /\ shadow' = CASE "DATASET_OPENED" \in retcode -> OpenDataset(OpenFile(shadow, request.file), request.dataset)
                 [] retcode = {"FILE_OPENED"} -> OpenFile(shadow, request.file)
                 [] OTHER -> shadow
  /\ request' = NULL
  /\ retcode' = {}
  /\ UNCHANGED <<cache, reader, expired>>

-----------------------------------------------------------------------------
(* Expiry *)

Expired == {i \in 1 .. Len(cache) : cache[i].age > MaxAge}

NrExpired == Cardinality(Expired)

(* Mutant: the loop ends one file early *)
ExpireOneLess ==
  /\ MaxAge > 0
  /\ reader = "idle"
  /\ retcode # {"sent"}
  /\ NrExpired > 0
  /\ cache' = SubSeq(cache, 1, Len(cache) - NrExpired + 1)
  /\ expired' = TRUE
  /\ UNCHANGED <<shadow, reader, request, retcode>>

(* The wait for a command timed out: file_cache_expire_entries removes as  *)
(* many files from the tail.                                               *)
Expire ==
  /\ MaxAge > 0
  /\ reader = "idle"
  /\ retcode # {"sent"}
  /\ NrExpired > 0
  /\ cache' = SubSeq(cache, 1, Len(cache) - NrExpired)
  /\ expired' = TRUE
  /\ UNCHANGED <<shadow, reader, request, retcode>>

(* The time goes on *)
Tick ==
  /\ MaxAge > 0
  /\ cache' = [i \in 1 .. Len(cache) |->
                 [cache[i] EXCEPT !.age = IF @ > MaxAge THEN @ ELSE @ + 1]]
  /\ UNCHANGED <<shadow, reader, request, retcode, expired>>

(* The reader dies, and with it its open files *)
Die ==
  /\ CanDie
  /\ reader # "dead"
  /\ reader' = "dead"
  /\ cache' = <<>>
  /\ expired' = FALSE
  /\ UNCHANGED <<shadow, request, retcode>>

(* The pool frees the dead worker, its reader_data and the shadow cache,   *)
(* and starts another in its place.                                        *)
Replace ==
  /\ reader = "dead"
  /\ request = NULL
  /\ reader' = "idle"
  /\ shadow' = <<>>
  /\ UNCHANGED <<cache, request, retcode, expired>>

-----------------------------------------------------------------------------
Opens == ObjectOpens \/ DatasetOpens \/ DatasetFails

Next ==
  \/ Send \/ FileFails \/ Opens \/ Packed \/ PipeBreaks \/ UpdateShadow
  \/ Expire \/ Tick \/ Die \/ Replace

Spec == Init /\ [][Next]_vars

(* Time passes, a reader that waits for commands checks again and again,   *)
(* and requests come to an end.                                            *)
Fairness ==
  /\ WF_vars(Tick) /\ WF_vars(Expire) /\ WF_vars(Packed) /\ WF_vars(FileFails \/ Opens)

FairSpec == Spec /\ Fairness

-----------------------------------------------------------------------------
(* Properties *)

Entries ==
  [name : Files, datasets : Seq(Datasets), age : Ages]

(* Every variable has its type. *)
TypeOK ==
  /\ cache \in Seq(Entries)
  /\ shadow \in Seq(Entries)
  /\ reader \in {"idle", "packing", "dead"}
  /\ request \in Requests \cup {NULL}
  /\ retcode \in {{}, {"sent"}, {"FILE_OPENED"}, {"FILE_OPENED", "DATASET_OPENED"}}
  /\ expired \in BOOLEAN

(* A list never has more than max entries, and no name twice: a name that  *)
(* is in the cache is found there and never opened a second time.          *)
Bounded(s, max) == Len(s) <= max /\ \A i, j \in 1 .. Len(s) : s[i] = s[j] => i = j

Names(c) == [i \in 1 .. Len(c) |-> c[i].name]

(* The reader and the manager respect max_open_files and max_open_datasets *)
(* through any mix of hits, misses, failed opens and expiry.               *)
WithinLimits ==
  \A c \in {cache, shadow} :
    /\ Bounded(Names(c), MaxOpenFiles)
    /\ \A i \in 1 .. Len(c) : Bounded(c[i].datasets, MaxOpenDatasets)

Prefix(s, t) == Len(s) <= Len(t) /\ \A i \in 1 .. Len(s) : s[i] = t[i]

(* Whatever the reader has open the manager knows of, in the same order of *)
(* use, although the reader closes files on its own: cache_score never     *)
(* sends a request away from a worker that has the dataset open.           *)
ShadowKnowsAll ==
  request = NULL =>
    /\ Prefix(Names(cache), Names(shadow))
    /\ \A i \in 1 .. Len(cache) : Prefix(cache[i].datasets, shadow[i].datasets)

(* cache_score for a request, asked of either cache *)
CacheScore(c, r) ==
  (IF HasFile(c, r.file) THEN 1 ELSE 0)
  + (IF HasFile(c, r.file) /\ (r.dataset = NULL \/ HasDataset(c, r.file, r.dataset)) THEN 1 ELSE 0)

(* As long as the reader has closed no file because of its age, the        *)
(* manager's score of a worker is what asking the reader itself would give.*)
ScoreExact ==
  ~expired /\ request = NULL /\ reader # "dead" =>
    \A r \in Requests : CacheScore(shadow, r) = CacheScore(cache, r)

(* "Here we're assuming that they're stored in increasing order of age":   *)
(* the files that file_cache_expire_entries closes are the expired ones,   *)
(* and no file that was in use more recently.                              *)
ExpiresTheExpired ==
  [][Expire => /\ \A i \in 1 .. Len(cache') : i \notin Expired
               /\ \A i \in Len(cache') + 1 .. Len(cache) : i \in Expired]_vars

(* A reader that gets no more commands closes all its files. *)
IdleFilesClosed == []<><<Send>>_vars \/ []<>(cache = <<>>)

=============================================================================
