---------------------------- MODULE ChunkStream ----------------------------
(***************************************************************************)
(* How one reader process streams the answers to a sequence of requests to *)
(* the manager through the ring of NR_BUFFERS shared memory buffers:       *)
(* src/src/hdf5/msgpack_chunkbuffer.c on the reader's side, opening,       *)
(* reading and closing a stream in src/src/lib/hdfstream.c on the          *)
(* client's, src/src/lib/shared_data.c between them.                       *)
(*                                                                         *)
(* The pool gives a worker to one request at a time (module ProcessPool),  *)
(* so there is one client.  It may close a stream before the end; the      *)
(* reader may fail to open the file, fail while packing, or die anywhere.  *)
(* The bytes of an answer are units <<request, position>>, so that bytes   *)
(* lost, repeated, reordered or left over from another request show.       *)
(***************************************************************************)
EXTENDS Integers, Sequences

CONSTANTS
  NrBuffers,    \* NR_BUFFERS
  BufferSize,   \* srd->buffer_size, the size of the shared buffers
  BufferSizes,  \* the values of buffer_size that requests ask for
  SizeWidth,    \* number of values of a size_t
  MaxLen,       \* bound on the length of an answer
  CanDie,       \* may the reader process die?
  CanFail       \* may the reader fail to open the file or to pack the data?

ASSUME StreamConstants ==
  /\ NrBuffers \in Nat \ {0}
  /\ BufferSize \in Nat \ {0}
  /\ BufferSizes \subseteq Nat \ {0}
  /\ SizeWidth \in Nat
  /\ BufferSize < SizeWidth
  /\ MaxLen \in Nat
  /\ CanDie \in BOOLEAN
  /\ CanFail \in BOOLEAN

Buffers == 0 .. NrBuffers - 1

VARIABLES
  (* shared memory *)
  srd_status,       \* srd->status: OK, or CANCEL once the client wants no more
  ready_for_read,   \* the two semaphores of each buffer
  ready_for_write,
  used,             \* bytes written to each buffer
  status,           \* status code of each buffer
  mem,              \* contents of each buffer
  (* reader process *)
  alive,
  wpc,              \* where it is in the code
  buffer_nr,        \* cb->buffer_nr
  produced,         \* units of the answer copied to shared memory
  left,             \* left_to_write of the current msgpack_chunkbuffer_write
  ret,              \* return_code of msgpack_chunkbuffer_destroy
  (* client *)
  cpc,
  next_buffer,      \* stream->next_buffer
  ended,            \* stream->ended
  result,           \* the last *status
  received,         \* units copied to the caller since the stream was opened
  (* request *)
  req,              \* number of the request, modulo 2
  data,             \* the whole answer
  size,             \* buffer_size, as the client asked
  late              \* history: data blocks published after the cancellation

shared  == <<ready_for_read, ready_for_write, used, status, mem>>
writer  == <<wpc, buffer_nr, produced, left, ret>>
client  == <<cpc, next_buffer, ended, result, received>>
request == <<req, data, size>>
vars    == <<srd_status, shared, alive, writer, client, request, late>>

(* The bytes that packing writes for request r: only their order matters *)
Answer(r, n) == [i \in 1 .. n |-> <<r, i>>]

(* cb->buffer_size: what the client asked for, if the shared buffers have it *)
CbSize == IF size > BufferSize THEN BufferSize ELSE size

(* shared_data_populate: a new worker's shared memory *)
Fresh ==
  /\ ready_for_read' = [b \in Buffers |-> 0]
  /\ ready_for_write' = [b \in Buffers |-> 0]
  /\ used' = [b \in Buffers |-> 0]
  /\ status' = [b \in Buffers |-> "OK"]
  /\ mem' = [b \in Buffers |-> <<>>]
  /\ alive' = TRUE
  /\ wpc' = "idle"
  /\ buffer_nr' = -1
  /\ produced' = 0
  /\ left' = 0
  /\ ret' = "OK"

Init ==
  /\ srd_status = "OK"
  /\ ready_for_read = [b \in Buffers |-> 0]
  /\ ready_for_write = [b \in Buffers |-> 0]
  /\ used = [b \in Buffers |-> 0]
  /\ status = [b \in Buffers |-> "OK"]
  /\ mem = [b \in Buffers |-> <<>>]
  /\ alive = TRUE
  /\ wpc = "idle"
  /\ buffer_nr = -1
  /\ produced = 0
  /\ left = 0
  /\ ret = "OK"
  /\ cpc = "closed"
  /\ next_buffer = 0
  /\ ended = FALSE
  /\ result = "OK"
  /\ received = <<>>
  /\ req = 0
  /\ data = <<>>
  /\ size = 0
  /\ late = 0

-----------------------------------------------------------------------------
(* The client opens a stream: hdfstream_dataset_multi_slice_open and        *)
(* hdfstream_object_open, once they have a worker.                          *)

(* shared_data_init_semaphores *)
InitSemaphores ==
  /\ ready_for_read' = [b \in Buffers |-> 0]
  /\ ready_for_write' = [b \in Buffers |-> IF ready_for_write[b] < 1 THEN 1 ELSE ready_for_write[b]]
  /\ used' = [b \in Buffers |-> 0]

(* Reset the shared memory and send the command *)
Open ==
  /\ cpc = "closed"
  /\ \E n \in 0 .. MaxLen, s \in BufferSizes :
       /\ data' = Answer(1 - req, n)
       /\ size' = s
  /\ req' = 1 - req
  /\ srd_status' = "OK"
  /\ InitSemaphores
  /\ next_buffer' = 0
  /\ ended' = FALSE
  /\ received' = <<>>
  /\ late' = 0
  /\ cpc' = "opening"
  /\ UNCHANGED <<status, mem, alive, writer, result>>

(* The reader takes the command, opens the file and dataset and says so;   *)
(* msgpack_chunkbuffer_init.                                               *)
OpenSucceeds ==
  /\ cpc = "opening"
  /\ alive
  /\ wpc = "idle"
  /\ wpc' = "pack"
  /\ buffer_nr' = -1
  /\ produced' = 0
  /\ cpc' = "between"
  /\ UNCHANGED <<srd_status, shared, alive, left, ret, next_buffer, ended, result, received, request, late>>

(* The file or dataset could not be opened, or the pipe broke: the worker   *)
(* goes back.                                                               *)
OpenFails ==
  /\ cpc = "opening"
  /\ CanFail \/ ~alive
  /\ cpc' = "release"
  /\ UNCHANGED <<srd_status, shared, alive, writer, next_buffer, ended, result, received, request, late>>

-----------------------------------------------------------------------------
(* The reader: packing calls msgpack_chunkbuffer_write any number of times *)

(* A write of any number of the bytes still to come; the first claims      *)
(* buffer 0.                                                               *)
Write ==
  /\ alive /\ wpc = "pack"
  /\ \E n \in 1 .. Len(data) - produced : left' = n
  /\ wpc' = IF buffer_nr < 0 THEN "claim" ELSE "copy"
  /\ UNCHANGED <<srd_status, shared, alive, buffer_nr, produced, ret, client, request, late>>

Claim ==
  /\ alive /\ wpc = "claim"
  /\ ready_for_write[0] > 0
  /\ ready_for_write' = [ready_for_write EXCEPT ![0] = @ - 1]
  /\ used' = [used EXCEPT ![0] = 0]
  /\ buffer_nr' = 0
  /\ wpc' = "copy"
  /\ UNCHANGED <<srd_status, ready_for_read, status, mem, alive, produced, left, ret, client, request, late>>

(* Mutant: the bytes that do not fit are not held back *)
NrToCopyUnbounded == left

(* Unsigned: were used more than cb->buffer_size, nearly all memory is free *)
BytesFree == (CbSize - used[buffer_nr]) % SizeWidth

(* Bytes that fit in the buffer *)
NrToCopy == IF left > BytesFree THEN BytesFree ELSE left

(* A buffer that is half full is flushed *)
FlushDue(n) == n >= CbSize \div 2

(* One round of the loop of msgpack_chunkbuffer_write *)
Copy ==
  /\ alive /\ wpc = "copy"
  /\ left > 0
  /\ LET n == NrToCopy  u == used[buffer_nr] IN
       /\ mem' = [mem EXCEPT ![buffer_nr] =
                    SubSeq(@, 1, u) \o SubSeq(data, produced + 1, produced + n)]
       /\ used' = [used EXCEPT ![buffer_nr] = u + n]
       /\ produced' = produced + n
       /\ left' = left - n
       /\ wpc' = IF FlushDue(u + n) THEN "flush"
                 ELSE IF left' = 0 THEN "pack" ELSE "copy"
  /\ UNCHANGED <<srd_status, ready_for_read, ready_for_write, status, alive, buffer_nr, ret, client, request, late>>

(* Mutant: the cancellation is not looked at *)
FlushCheckIgnoresCancel ==
  /\ alive /\ wpc = "flush"
  /\ wpc' = "post"
  /\ UNCHANGED <<srd_status, shared, alive, buffer_nr, produced, left, ret, client, request, late>>

(* msgpack_chunkbuffer_flush: give up if the client cancelled; the packing *)
(* then fails and the chunk buffer is destroyed with an error code.  (Where *)
(* pack_numpy_type ignores the failure, the next write fails likewise.)    *)
FlushCheck ==
  /\ alive /\ wpc = "flush"
  /\ IF srd_status # "OK"
     THEN wpc' = "destroy" /\ ret' = "FAIL"
     ELSE wpc' = "post" /\ UNCHANGED ret
  /\ UNCHANGED <<srd_status, shared, alive, buffer_nr, produced, left, client, request, late>>

(* Publish the current buffer and go on to the next one *)
Publish ==
  /\ ready_for_read' = [ready_for_read EXCEPT ![buffer_nr] = @ + 1]
  /\ buffer_nr' = (buffer_nr + 1) % NrBuffers
  /\ late' = IF srd_status = "OK" THEN late ELSE late + 1

FlushPost ==
  /\ alive /\ wpc = "post"
  /\ Publish
  /\ wpc' = "wait"
  /\ UNCHANGED <<srd_status, ready_for_write, used, status, mem, alive, produced, left, ret, client, request>>

(* Mutant: the next buffer is not waited for *)
FlushWaitNot ==
  /\ alive /\ wpc = "wait"
  /\ wpc' = IF left = 0 THEN "pack" ELSE "copy"
  /\ UNCHANGED <<srd_status, shared, alive, buffer_nr, produced, left, ret, client, request, late>>

FlushWait ==
  /\ alive /\ wpc = "wait"
  /\ ready_for_write[buffer_nr] > 0
  /\ ready_for_write' = [ready_for_write EXCEPT ![buffer_nr] = @ - 1]
  /\ wpc' = IF left = 0 THEN "pack" ELSE "copy"
  /\ UNCHANGED <<srd_status, ready_for_read, used, status, mem, alive, buffer_nr, produced, left, ret, client, request, late>>

-----------------------------------------------------------------------------
(* The reader ends the stream: msgpack_chunkbuffer_destroy *)

(* All was packed, or an HDF5 call failed before *)
PackReturns ==
  /\ alive /\ wpc = "pack"
  /\ \/ produced = Len(data) /\ ret' = "OK"
     \/ CanFail /\ ret' = "FAIL"
  /\ wpc' = "destroy"
  /\ UNCHANGED <<srd_status, shared, alive, buffer_nr, produced, left, client, request, late>>

(* Its flush of what is in the buffer, as above; its result is ignored *)
DestroyCheck ==
  /\ alive /\ wpc = "destroy"
  /\ wpc' = IF srd_status = "OK" /\ buffer_nr >= 0 /\ used[buffer_nr] # 0
            THEN "destroypost" ELSE "end"
  /\ UNCHANGED <<srd_status, shared, alive, buffer_nr, produced, left, ret, client, request, late>>

DestroyPost ==
  /\ alive /\ wpc = "destroypost"
  /\ Publish
  /\ wpc' = "destroywait"
  /\ UNCHANGED <<srd_status, ready_for_write, used, status, mem, alive, produced, left, ret, client, request>>

DestroyWait ==
  /\ alive /\ wpc = "destroywait"
  /\ ready_for_write[buffer_nr] > 0
  /\ ready_for_write' = [ready_for_write EXCEPT ![buffer_nr] = @ - 1]
  /\ wpc' = "end"
  /\ UNCHANGED <<srd_status, ready_for_read, used, status, mem, alive, buffer_nr, produced, left, ret, client, request, late>>

(* Nothing was written: claim buffer 0 for the end of the stream *)
EndClaim ==
  /\ alive /\ wpc = "end"
  /\ buffer_nr < 0
  /\ ready_for_write[0] > 0
  /\ ready_for_write' = [ready_for_write EXCEPT ![0] = @ - 1]
  /\ buffer_nr' = 0
  /\ UNCHANGED <<srd_status, ready_for_read, used, status, mem, alive, wpc, produced, left, ret, client, request, late>>

(* Mutant: an error code is lost *)
EndPostAlwaysOK ==
  /\ alive /\ wpc = "end"
  /\ buffer_nr >= 0
  /\ used' = [used EXCEPT ![buffer_nr] = 0]
  /\ status' = [status EXCEPT ![buffer_nr] = "OK"]
  /\ ready_for_read' = [ready_for_read EXCEPT ![buffer_nr] = @ + 1]
  /\ wpc' = "idle"
  /\ left' = 0
  /\ UNCHANGED <<srd_status, ready_for_write, mem, alive, buffer_nr, produced, ret, client, request, late>>

(* An empty buffer with the return code ends the stream *)
EndPost ==
  /\ alive /\ wpc = "end"
  /\ buffer_nr >= 0
  /\ used' = [used EXCEPT ![buffer_nr] = 0]
  /\ status' = [status EXCEPT ![buffer_nr] = ret]
  /\ ready_for_read' = [ready_for_read EXCEPT ![buffer_nr] = @ + 1]
  /\ wpc' = "idle"
  /\ left' = 0
  /\ UNCHANGED <<srd_status, ready_for_write, mem, alive, buffer_nr, produced, ret, client, request, late>>

Die ==
  /\ CanDie
  /\ alive
  /\ alive' = FALSE
  /\ UNCHANGED <<srd_status, shared, writer, client, request, late>>

-----------------------------------------------------------------------------
(* The client reads: hdfstream_read_chunk *)

Read ==
  /\ cpc = "between"
  /\ ~ended
  /\ cpc' = "wait"
  /\ UNCHANGED <<srd_status, shared, alive, writer, next_buffer, ended, result, received, request, late>>

(* sem_timedwait gets the buffer *)
Take ==
  /\ cpc = "wait"
  /\ ready_for_read[next_buffer] > 0
  /\ ready_for_read' = [ready_for_read EXCEPT ![next_buffer] = @ - 1]
  /\ cpc' = "got"
  /\ UNCHANGED <<srd_status, ready_for_write, used, status, mem, alive, writer, next_buffer, ended, result, received, request, late>>

(* sem_timedwait times out; whether the worker lives is looked at after *)
Timeout ==
  /\ cpc = "wait"
  /\ ready_for_read[next_buffer] = 0
  /\ cpc' = "timeout"
  /\ UNCHANGED <<srd_status, shared, alive, writer, next_buffer, ended, result, received, request, late>>

WorkerIsAlive ==
  /\ cpc = "timeout"
  /\ alive
  /\ cpc' = "wait"
  /\ UNCHANGED <<srd_status, shared, alive, writer, next_buffer, ended, result, received, request, late>>

(* Mutant: the client waits on for a worker that has died *)
WorkerIsDeadWaits ==
  /\ cpc = "timeout"
  /\ ~alive
  /\ cpc' = "wait"
  /\ UNCHANGED <<srd_status, shared, alive, writer, next_buffer, ended, result, received, request, late>>

WorkerIsDead ==
  /\ cpc = "timeout"
  /\ ~alive
  /\ ended' = TRUE
  /\ result' = "ERROR"
  /\ cpc' = IF srd_status = "CANCEL" THEN "release" ELSE "between"
  /\ UNCHANGED <<srd_status, shared, alive, writer, next_buffer, received, request, late>>

(* A block of length zero is the end of the stream *)
GotEnd ==
  /\ cpc = "got"
  /\ used[next_buffer] = 0
  /\ ended' = TRUE
  /\ result' = status[next_buffer]
  /\ cpc' = IF srd_status = "CANCEL" THEN "release" ELSE "between"
  /\ UNCHANGED <<srd_status, shared, alive, writer, next_buffer, received, request, late>>

(* Copy the block to the caller (hdfstream_close_stream has no use for it), *)
(* and give the buffer back to the reader.                                  *)
GotData ==
  /\ cpc = "got"
  /\ used[next_buffer] # 0
  /\ result' = "OK"
  /\ received' = IF srd_status = "CANCEL" THEN received
                 ELSE received \o SubSeq(mem[next_buffer], 1, used[next_buffer])
  /\ used' = [used EXCEPT ![next_buffer] = 0]
  /\ ready_for_write' = [ready_for_write EXCEPT ![next_buffer] = @ + 1]
  /\ next_buffer' = (next_buffer + 1) % NrBuffers
  /\ cpc' = IF srd_status = "CANCEL" THEN "wait" ELSE "between"
  /\ UNCHANGED <<srd_status, ready_for_read, status, mem, alive, writer, ended, request, late>>

-----------------------------------------------------------------------------
(* The client closes the stream: hdfstream_close_stream *)

(* Mutant: a stream that is not at its end is not drained *)
CloseWithoutDraining ==
  /\ cpc = "between"
  /\ cpc' = "release"
  /\ UNCHANGED <<srd_status, shared, alive, writer, next_buffer, ended, result, received, request, late>>

(* Before the end, tell the reader to stop and read until it has *)
Close ==
  /\ cpc = "between"
  /\ IF ended
     THEN cpc' = "release" /\ UNCHANGED srd_status
     ELSE cpc' = "wait" /\ srd_status' = "CANCEL"
  /\ UNCHANGED <<shared, alive, writer, next_buffer, ended, result, received, request, late>>

(* process_pool_release_worker keeps a live worker and frees a dead one, in *)
(* whose place a later request finds a new one.                             *)
Release ==
  /\ cpc = "release"
  /\ cpc' = "closed"
  /\ IF alive THEN UNCHANGED <<shared, alive, writer>> ELSE Fresh
  /\ UNCHANGED <<srd_status, next_buffer, ended, result, received, request, late>>

(* process_pool_get_worker_by_score replaces a worker that died since *)
Replace ==
  /\ cpc = "closed"
  /\ ~alive
  /\ Fresh
  /\ UNCHANGED <<srd_status, client, request, late>>

-----------------------------------------------------------------------------
ReaderStep ==
  \/ Write \/ Claim \/ Copy \/ FlushCheck \/ FlushPost \/ FlushWait \/ PackReturns
  \/ DestroyCheck \/ DestroyPost \/ DestroyWait \/ EndClaim \/ EndPost

(* What the client does inside a call of the library *)
ClientStep ==
  \/ OpenSucceeds \/ OpenFails \/ Take \/ Timeout \/ WorkerIsAlive \/ WorkerIsDead
  \/ GotEnd \/ GotData \/ Release

Next == Open \/ ReaderStep \/ Die \/ Read \/ ClientStep \/ Close \/ Replace

Spec == Init /\ [][Next]_vars

(* The reader keeps working while it lives, and a call of the library runs *)
(* on; the caller need neither read nor close.                             *)
Fairness == WF_vars(ReaderStep) /\ WF_vars(ClientStep)

FairSpec == Spec /\ Fairness

-----------------------------------------------------------------------------
(* Properties *)

(* Every variable has its type. *)
TypeOK ==
  /\ srd_status \in {"OK", "CANCEL"}
  /\ ready_for_read \in [Buffers -> Nat]
  /\ ready_for_write \in [Buffers -> Nat]
  /\ used \in [Buffers -> Nat]
  /\ status \in [Buffers -> {"OK", "FAIL"}]
  /\ alive \in BOOLEAN
  /\ wpc \in {"idle", "pack", "claim", "copy", "flush", "post", "wait",
              "destroy", "destroypost", "destroywait", "end"}
  /\ buffer_nr \in Buffers \cup {-1}
  /\ produced \in Nat
  /\ left \in Nat
  /\ ret \in {"OK", "FAIL"}
  /\ cpc \in {"closed", "opening", "between", "wait", "timeout", "got", "release"}
  /\ next_buffer \in Buffers
  /\ ended \in BOOLEAN
  /\ result \in {"OK", "FAIL", "ERROR"}
  /\ req \in {0, 1}
  /\ data \in Seq({0, 1} \X Nat)
  /\ size \in Nat
  /\ late \in Nat

(* The reader owns the buffer it has waited for until it publishes it *)
ReaderOwns(b) ==
  /\ buffer_nr = b
  /\ wpc \in {"pack", "copy", "flush", "post", "destroy", "destroypost", "end"}

(* The client owns a buffer while it copies from it *)
ClientOwns(b) == cpc = "got" /\ next_buffer = b

Count(condition) == IF condition THEN 1 ELSE 0

Tokens(b) ==
  ready_for_read[b] + ready_for_write[b] + Count(ReaderOwns(b)) + Count(ClientOwns(b))

(* Each buffer has one token: it is with the reader, with the client, or   *)
(* in one of the two semaphores.  So the reader never writes to a buffer   *)
(* that the client is reading or has still to read, over any sequence of   *)
(* requests, cancelled or not, and shared_data_init_semaphores need not    *)
(* lower ready_for_write.  A buffer that ended a stream has lost its token *)
(* until the next request.                                                 *)
OneToken ==
  \A b \in Buffers :
    /\ Tokens(b) <= 1
    /\ cpc # "closed" /\ ~ended => Tokens(b) = 1

(* When the worker of a closed stream is used again the reader has nothing *)
(* left to do for the last request, so nothing of it can reach the next.   *)
QuietWhenClosed == cpc \in {"closed", "opening"} => wpc = "idle"

(* A block always fits in the buffer of buffer_size bytes that the caller  *)
(* passes to hdfstream_read_chunk, and msgpack_chunkbuffer_write never     *)
(* writes past the end of a shared buffer.                                 *)
BlockFits ==
  /\ cpc = "got" => used[next_buffer] <= size
  /\ \A b \in Buffers : used[b] <= BufferSize

(* Between two calls of msgpack_chunkbuffer_write the buffer has "enough   *)
(* free space to H5Dread() half a buffer": the buffers that come round the *)
(* ring are empty, whoever emptied them.                                   *)
HalfBufferFree ==
  wpc = "pack" /\ buffer_nr >= 0 => used[buffer_nr] <= CbSize \div 2

(* After hdfstream_close_stream has cancelled, the reader publishes at     *)
(* most the one block that it was about to publish: it does not send the   *)
(* rest of a large dataset to a client that has gone.                      *)
CancelStopsSoon == late <= 1

(* Every hdfstream_read_chunk returns and every close ends, whether the    *)
(* reader delivers, fails or dies.                                         *)
CallsReturn == cpc \in {"opening", "wait", "timeout", "got", "release"}
                 ~> cpc \in {"between", "closed"}

=============================================================================
