------------------------- MODULE ChunkStreamProofs -------------------------
(***************************************************************************)
(* Proofs about ChunkStream for any number and size of buffers, answers of *)
(* any length and any sequence of requests.                                *)
(*                                                                         *)
(* That a buffer is never in two hands needs to know that the reader is    *)
(* idle when a request begins, that is, that the client only ends a stream *)
(* (without a death) at the block of length zero; and that only the last   *)
(* block has length zero, which in turn rests on how full the reader's     *)
(* buffer is at each point and on every free buffer being empty.  These    *)
(* parts are proved together as StreamInv.                                 *)
(*                                                                         *)
(* On top of it DataInv says where each byte of the answer is: received,   *)
(* in a buffer that was published, in the reader's buffer, or still to     *)
(* come.  With it every step is one of ByteStream or leaves it unchanged.  *)
(***************************************************************************)
EXTENDS StreamRefinement, SequenceTheorems, TLAPS

(* Where the reader has a current buffer, and where it has none *)
HasBuffer ==
  /\ wpc \in {"copy", "flush", "post", "wait", "destroypost", "destroywait"}
       => buffer_nr \in Buffers
  /\ wpc = "claim" => buffer_nr = -1

(* The size in force while there is a stream, and what it bounds *)
Fill ==
  /\ cpc # "closed" => size >= 1 /\ \A b \in Buffers : used[b] <= CbSize
  /\ \A b \in Buffers : used[b] <= BufferSize
  /\ wpc = "copy" => used[buffer_nr] < CbSize
  /\ wpc \in {"flush", "post", "destroypost"} => used[buffer_nr] > 0
  /\ \A b \in Buffers : ready_for_write[b] > 0 => used[b] = 0

(* The reader is idle when it should be *)
Quiet ==
  /\ ended /\ alive => wpc = "idle"
  /\ QuietWhenClosed
  /\ cpc = "release" => ended \/ wpc = "idle"
  /\ cpc = "opening" => ~ended /\ \A b \in Buffers : ready_for_read[b] = 0

(* A block of length zero is published only as the last one *)
EmptyIsLast ==
  \A b \in Buffers :
    (ready_for_read[b] > 0 \/ ClientOwns(b)) /\ used[b] = 0 => wpc = "idle"

(* After the block that overtook the cancellation no other is published *)
Late == late = 0 \/ (late = 1 /\ srd_status = "CANCEL" /\ wpc \notin {"post", "destroypost"})

StreamInv ==
  TypeOK /\ HasBuffer /\ Fill /\ Quiet /\ EmptyIsLast /\ OneToken /\ HalfBufferFree /\ Late

-----------------------------------------------------------------------------

(* As long as no buffer is overfull the unsigned subtraction does not wrap *)
LEMMA BytesFreeExact ==
  ASSUME CbSize \in Nat, CbSize <= BufferSize,
         used[buffer_nr] \in Nat, used[buffer_nr] <= CbSize
  PROVE  BytesFree = CbSize - used[buffer_nr]
<1>1. \A d, n \in Nat : d < n => d % n = d
  OBVIOUS
<1>2. CbSize - used[buffer_nr] \in Nat /\ CbSize - used[buffer_nr] < SizeWidth
  BY StreamConstants
<1>. QED
  BY <1>1, <1>2, StreamConstants DEF BytesFree

LEMMA BuffersFacts ==
  0 \in Buffers /\ -1 \notin Buffers /\ \A b \in Buffers : b \in Nat /\ ~(b < 0)
BY StreamConstants DEF Buffers

LEMMA NextBuffer == \A b \in Buffers : (b + 1) % NrBuffers \in Buffers
<1>1. \A b \in Nat : b % NrBuffers \in 0 .. NrBuffers - 1
  BY StreamConstants
<1>. QED
  BY <1>1, StreamConstants DEF Buffers

LEMMA AnswerType ==
  ASSUME NEW r \in {0, 1}, NEW n \in 0 .. MaxLen
  PROVE  Answer(r, n) \in Seq({0, 1} \X Nat)
BY StreamConstants DEF Answer

LEMMA TypeInit == Init => TypeOK
<1> SUFFICES ASSUME Init PROVE TypeOK
  OBVIOUS
<1>1. /\ ready_for_read \in [Buffers -> Nat] /\ ready_for_write \in [Buffers -> Nat]
      /\ used \in [Buffers -> Nat] /\ status \in [Buffers -> {"OK", "FAIL"}]
  BY DEF Init
<1>2. data \in Seq({0, 1} \X Nat)
  BY DEF Init
<1>. QED
  BY <1>1, <1>2, BuffersFacts DEF Init, TypeOK

LEMMA TypeNext == StreamInv /\ [Next]_vars => TypeOK'
<1> SUFFICES ASSUME StreamInv, [Next]_vars PROVE TypeOK'
  OBVIOUS
<1>0. TypeOK /\ HasBuffer
  BY DEF StreamInv
<1> USE <1>0 DEF TypeOK
<1>1. CASE Open
  <2>1. PICK n \in 0 .. MaxLen, s \in BufferSizes : data' = Answer(1 - req, n) /\ size' = s
    BY <1>1 DEF Open
  <2>2. 1 - req \in {0, 1}
    OBVIOUS
  <2>3. data' \in Seq({0, 1} \X Nat)
    BY <2>1, <2>2, AnswerType
  <2>4. size' \in Nat
    BY <2>1, StreamConstants
  <2>5. ready_for_write' \in [Buffers -> Nat]
    BY <1>1 DEF Open, InitSemaphores
  <2>6. ready_for_read' \in [Buffers -> Nat] /\ used' \in [Buffers -> Nat]
    BY <1>1 DEF Open, InitSemaphores
  <2>7. next_buffer' \in Buffers /\ ended' \in BOOLEAN /\ late' \in Nat /\ req' \in {0, 1}
    BY <1>1, <2>2, BuffersFacts DEF Open
  <2>. QED
    BY <1>1, <2>3, <2>4, <2>5, <2>6, <2>7, Zenon DEF Open, writer
<1>2. CASE OpenSucceeds
  BY <1>2 DEF OpenSucceeds, shared, request
<1>3. CASE OpenFails
  BY <1>3 DEF OpenFails, shared, writer, request
<1>4. CASE Write
  <2>1. Len(data) \in Nat
    OBVIOUS
  <2>. QED
    BY <1>4, <2>1 DEF Write, shared, client, request
<1>5. CASE Claim
  BY <1>5, BuffersFacts DEF Claim, client, request
<1>6. CASE Copy
  <2>1. buffer_nr \in Buffers /\ used[buffer_nr] \in Nat
    BY <1>6 DEF Copy, HasBuffer
  <2>2. NrToCopy \in Nat /\ NrToCopy <= left
    <3>1. cpc # "closed" /\ left > 0
      BY <1>6 DEF StreamInv, Quiet, QuietWhenClosed, Copy
    <3>2. CbSize \in Nat /\ CbSize <= BufferSize /\ used[buffer_nr] <= CbSize
      BY <2>1, <3>1, StreamConstants DEF StreamInv, Fill, CbSize
    <3>. QED
      BY <2>1, <3>1, <3>2, BytesFreeExact DEF NrToCopy
  <2>3. used' \in [Buffers -> Nat] /\ produced' \in Nat /\ left' \in Nat
    BY <1>6, <2>1, <2>2 DEF Copy
  <2>4. wpc' \in {"flush", "pack", "copy"}
    BY <1>6 DEF Copy
  <2>. QED
    BY <1>6, <2>3, <2>4 DEF Copy, client, request
<1>7. CASE FlushCheck
  BY <1>7 DEF FlushCheck, shared, client, request
<1>8. ASSUME Publish, wpc \in {"post", "destroypost"}
      PROVE  /\ ready_for_read' \in [Buffers -> Nat]
             /\ buffer_nr' \in Buffers
             /\ late' \in Nat
  <2>1. buffer_nr \in Buffers
    BY <1>8 DEF HasBuffer
  <2>2. buffer_nr' \in Buffers
    BY <1>8, <2>1, NextBuffer DEF Publish
  <2>3. ready_for_read' \in [Buffers -> Nat]
    BY <1>8, <2>1 DEF Publish
  <2>4. late' \in Nat
    BY <1>8 DEF Publish
  <2>. QED
    BY <2>2, <2>3, <2>4
<1>9. CASE FlushPost
  BY <1>8, <1>9 DEF FlushPost, client, request
<1>10. CASE FlushWait
  BY <1>10 DEF FlushWait, client, request, HasBuffer
<1>11. CASE PackReturns
  BY <1>11 DEF PackReturns, shared, client, request
<1>12. CASE DestroyCheck
  BY <1>12 DEF DestroyCheck, shared, client, request
<1>13. CASE DestroyPost
  BY <1>8, <1>13 DEF DestroyPost, client, request
<1>14. CASE DestroyWait
  BY <1>14 DEF DestroyWait, client, request, HasBuffer
<1>15. CASE EndClaim
  BY <1>15, BuffersFacts DEF EndClaim, client, request
<1>16. CASE EndPost
  <2>1. ready_for_read' \in [Buffers -> Nat] /\ used' \in [Buffers -> Nat]
    BY <1>16 DEF EndPost
  <2>2. status' \in [Buffers -> {"OK", "FAIL"}]
    BY <1>16 DEF EndPost
  <2>. QED
    BY <1>16, <2>1, <2>2 DEF EndPost, client, request
<1>17. CASE Die
  <2>1. alive' \in BOOLEAN
    BY <1>17 DEF Die
  <2>2. UNCHANGED <<srd_status, shared, writer, client, request, late>>
    BY <1>17 DEF Die
  <2>. QED
    BY <2>1, <2>2 DEF shared, writer, client, request
<1>18. CASE Read
  BY <1>18 DEF Read, shared, writer, request
<1>19. CASE Take
  BY <1>19 DEF Take, writer, request
<1>20. CASE Timeout
  BY <1>20 DEF Timeout, shared, writer, request
<1>21. CASE WorkerIsAlive
  BY <1>21 DEF WorkerIsAlive, shared, writer, request
<1>22. CASE WorkerIsDead
  BY <1>22 DEF WorkerIsDead, shared, writer, request
<1>23. CASE GotEnd
  BY <1>23 DEF GotEnd, shared, writer, request
<1>24. CASE GotData
  <2>1. ready_for_write' \in [Buffers -> Nat] /\ used' \in [Buffers -> Nat]
    BY <1>24 DEF GotData
  <2>2. next_buffer' \in Buffers
    BY <1>24, NextBuffer DEF GotData
  <2>. QED
    BY <1>24, <2>1, <2>2, SMTT(40) DEF GotData, writer, request
<1>25. CASE Close
  BY <1>25 DEF Close, shared, writer, request
<1>26. ASSUME Fresh
       PROVE  /\ ready_for_read' \in [Buffers -> Nat]
              /\ ready_for_write' \in [Buffers -> Nat]
              /\ used' \in [Buffers -> Nat]
              /\ status' \in [Buffers -> {"OK", "FAIL"}]
  BY <1>26 DEF Fresh
<1>27. CASE Release
  <2>1. CASE alive
    BY <1>27, <2>1 DEF Release, shared, writer, request
  <2>2. CASE ~alive
    <3>1. Fresh
      BY <1>27, <2>2 DEF Release
    <3>2. buffer_nr' \in Buffers \cup {-1} /\ produced' \in Nat /\ left' \in Nat /\ alive' \in BOOLEAN
      BY <3>1 DEF Fresh
    <3>. QED
      BY <1>26, <1>27, <3>1, <3>2 DEF Release, Fresh, request
  <2>. QED
    BY <2>1, <2>2
<1>28. CASE Replace
  BY <1>26, <1>28, Zenon DEF Replace, Fresh, client, request
<1>29. CASE UNCHANGED vars
  BY <1>29 DEF vars, shared, writer, client, request
<1>. QED
  BY <1>1, <1>2, <1>3, <1>4, <1>5, <1>6, <1>7, <1>9, <1>10, <1>11, <1>12, <1>13,
     <1>14, <1>15, <1>16, <1>17, <1>18, <1>19, <1>20, <1>21, <1>22, <1>23, <1>24, <1>25,
     <1>27, <1>28, <1>29
     DEF Next, ReaderStep, ClientStep

-----------------------------------------------------------------------------
(* Where the reader is *)

LEMMA HasBufferNext == StreamInv /\ [Next]_vars => HasBuffer'
<1> SUFFICES ASSUME StreamInv, [Next]_vars PROVE HasBuffer'
  OBVIOUS
<1>0. TypeOK /\ HasBuffer /\ TypeOK'
  BY TypeNext DEF StreamInv
<1> USE <1>0 DEF HasBuffer
<1>1. CASE UNCHANGED <<wpc, buffer_nr>>
  BY <1>1
<1>2. CASE wpc' \in {"idle", "pack", "destroy", "end"}
  BY <1>2
<1>3. CASE Write
  <2>1. buffer_nr' = buffer_nr /\ wpc' = IF buffer_nr < 0 THEN "claim" ELSE "copy"
    BY <1>3 DEF Write
  <2>2. CASE buffer_nr = -1
    BY <2>1, <2>2
  <2>3. CASE buffer_nr \in Buffers
    <3>1. ~(buffer_nr < 0)
      BY <2>3 DEF Buffers
    <3>. QED
      BY <2>1, <2>3, <3>1
  <2>. QED
    BY <2>2, <2>3 DEF TypeOK
<1>4. CASE Claim
  BY <1>4, BuffersFacts DEF Claim
<1>5. CASE Copy \/ FlushWait
  BY <1>5 DEF Copy, FlushWait
<1>6. CASE FlushCheck
  BY <1>6 DEF FlushCheck
<1>7. CASE FlushPost \/ DestroyPost
  <2>1. buffer_nr \in Buffers
    BY <1>7 DEF FlushPost, DestroyPost
  <2>2. (buffer_nr + 1) % NrBuffers \in Buffers
    BY <2>1, NextBuffer
  <2>. QED
    BY <1>7, <2>2 DEF FlushPost, DestroyPost, Publish
<1>8. CASE DestroyCheck
  BY <1>8 DEF DestroyCheck, TypeOK
<1>9. CASE OpenSucceeds \/ PackReturns \/ DestroyWait \/ EndClaim \/ EndPost
  BY <1>2, <1>9 DEF OpenSucceeds, PackReturns, DestroyWait, EndClaim, EndPost
<1>10. CASE Release
  BY <1>1, <1>2, <1>10 DEF Release, Fresh, writer
<1>11. CASE Replace
  BY <1>2, <1>11 DEF Replace, Fresh
<1>12. CASE Open \/ OpenFails \/ Die \/ Read \/ Take \/ Timeout \/ WorkerIsAlive \/ WorkerIsDead
             \/ GotEnd \/ GotData \/ Close \/ UNCHANGED vars
  BY <1>1, <1>12 DEF Open, OpenFails, Die, Read, Take, Timeout, WorkerIsAlive, WorkerIsDead,
                     GotEnd, GotData, Close, vars, writer
<1>. QED
  BY <1>3, <1>4, <1>5, <1>6, <1>7, <1>8, <1>9, <1>10, <1>11, <1>12 DEF Next, ReaderStep, ClientStep

(* The client ends a stream at the block of length zero, when the reader   *)
(* is idle, or when the reader is dead.                                    *)
LEMMA QuietNext == StreamInv /\ [Next]_vars => Quiet'
<1> SUFFICES ASSUME StreamInv, [Next]_vars PROVE Quiet'
  OBVIOUS
<1>0. TypeOK /\ Quiet /\ EmptyIsLast
  BY DEF StreamInv
<1> USE <1>0 DEF Quiet, QuietWhenClosed
<1>1. CASE Open
  BY <1>1 DEF Open, InitSemaphores, writer
<1>2. CASE OpenSucceeds \/ OpenFails
  BY <1>2 DEF OpenSucceeds, OpenFails, writer, shared
<1>3. CASE ReaderStep
  <2>1. alive /\ wpc # "idle" /\ UNCHANGED <<alive, cpc, ended>>
    BY <1>3 DEF ReaderStep, Write, Claim, Copy, FlushCheck, FlushPost, FlushWait, PackReturns,
                DestroyCheck, DestroyPost, DestroyWait, EndClaim, EndPost, client
  <2>. QED
    BY <2>1
<1>4. CASE Die
  BY <1>4 DEF Die, shared, writer, client
<1>5. CASE Read \/ Take \/ Timeout \/ WorkerIsAlive \/ GotData \/ Close
  BY <1>5 DEF Read, Take, Timeout, WorkerIsAlive, GotData, Close, writer
<1>6. CASE WorkerIsDead
  BY <1>6 DEF WorkerIsDead, writer
<1>7. CASE GotEnd
  <2>1. wpc = "idle"
    BY <1>7 DEF GotEnd, EmptyIsLast, ClientOwns, TypeOK
  <2>. QED
    BY <1>7, <2>1 DEF GotEnd, writer
<1>8. CASE Release
  BY <1>8 DEF Release, Fresh, writer
<1>9. CASE Replace
  BY <1>9 DEF Replace, Fresh, client
<1>10. CASE UNCHANGED vars
  BY <1>10 DEF vars, shared, writer, client
<1>. QED
  BY <1>1, <1>2, <1>3, <1>4, <1>5, <1>6, <1>7, <1>8, <1>9, <1>10 DEF Next, ClientStep

(* After a cancellation the check in msgpack_chunkbuffer_flush lets no     *)
(* other block pass.                                                       *)
LEMMA LateNext == StreamInv /\ [Next]_vars => Late'
<1> SUFFICES ASSUME StreamInv, [Next]_vars PROVE Late'
  OBVIOUS
<1>0. TypeOK /\ Late
  BY DEF StreamInv
<1> USE <1>0 DEF Late, TypeOK
<1>1. CASE Open
  BY <1>1 DEF Open
<1>2. CASE FlushPost \/ DestroyPost
  BY <1>2 DEF FlushPost, DestroyPost, Publish
<1>3. CASE OpenSucceeds \/ Write \/ Claim \/ Copy \/ FlushCheck \/ FlushWait \/ PackReturns
           \/ DestroyCheck \/ DestroyWait \/ EndClaim \/ EndPost
  BY <1>3 DEF OpenSucceeds, Write, Claim, Copy, FlushCheck, FlushWait, PackReturns, DestroyCheck,
              DestroyWait, EndClaim, EndPost
<1>4. CASE Release \/ Replace
  BY <1>4 DEF Release, Replace, Fresh, writer
<1>5. CASE Close
  BY <1>5 DEF Close, writer
<1>6. CASE OpenFails \/ Die \/ Read \/ Take \/ Timeout \/ WorkerIsAlive \/ WorkerIsDead \/ GotEnd
           \/ GotData \/ UNCHANGED vars
  BY <1>6 DEF OpenFails, Die, Read, Take, Timeout, WorkerIsAlive, WorkerIsDead, GotEnd, GotData,
              vars, writer
<1>. QED
  BY <1>1, <1>2, <1>3, <1>4, <1>5, <1>6 DEF Next, ReaderStep, ClientStep

-----------------------------------------------------------------------------
(* How full the buffers are *)

(* The sizes while the reader works *)
LEMMA SizeFacts ==
  ASSUME StreamInv, cpc # "closed"
  PROVE  CbSize \in Nat /\ CbSize >= 1 /\ CbSize <= size /\ CbSize <= BufferSize
         /\ CbSize \div 2 < CbSize
BY StreamConstants DEF StreamInv, TypeOK, Fill, CbSize

LEMMA Working == ASSUME StreamInv, wpc # "idle" PROVE cpc # "closed" /\ cpc # "opening"
BY DEF StreamInv, Quiet, QuietWhenClosed

(* Who holds the one token of a buffer *)
LEMMA TokenOfReader ==
  ASSUME StreamInv, NEW b \in Buffers, ReaderOwns(b)
  PROVE  ready_for_read[b] = 0 /\ ready_for_write[b] = 0 /\ ~ ClientOwns(b)
BY DEF StreamInv, TypeOK, OneToken, Tokens, Count

LEMMA TokenOfClient ==
  ASSUME StreamInv, NEW b \in Buffers, ClientOwns(b)
  PROVE  ready_for_read[b] = 0 /\ ready_for_write[b] = 0 /\ ~ ReaderOwns(b)
BY DEF StreamInv, TypeOK, OneToken, Tokens, Count

LEMMA TokenOfWriteSemaphore ==
  ASSUME StreamInv, NEW b \in Buffers, ready_for_write[b] > 0
  PROVE  /\ ready_for_write[b] = 1 /\ ready_for_read[b] = 0
         /\ ~ ReaderOwns(b) /\ ~ ClientOwns(b)
BY DEF StreamInv, TypeOK, OneToken, Tokens, Count

LEMMA TokenOfReadSemaphore ==
  ASSUME StreamInv, NEW b \in Buffers, ready_for_read[b] > 0
  PROVE  /\ ready_for_read[b] = 1 /\ ready_for_write[b] = 0
         /\ ~ ReaderOwns(b) /\ ~ ClientOwns(b)
BY DEF StreamInv, TypeOK, OneToken, Tokens, Count

LEMMA CopyFacts ==
  ASSUME StreamInv, Copy
  PROVE  /\ buffer_nr \in Buffers
         /\ used' = [used EXCEPT ![buffer_nr] = used'[buffer_nr]]
         /\ used'[buffer_nr] > 0
         /\ used'[buffer_nr] <= CbSize
         /\ wpc' \in {"pack", "copy"} => used'[buffer_nr] < CbSize \div 2
<1>1. buffer_nr \in Buffers /\ used[buffer_nr] \in Nat /\ left \in Nat /\ left > 0
  BY DEF StreamInv, HasBuffer, TypeOK, Copy
<1>2. CbSize \in Nat /\ CbSize <= BufferSize /\ used[buffer_nr] < CbSize
  BY Working, SizeFacts DEF StreamInv, Fill, Copy
<1>3. NrToCopy \in Nat /\ NrToCopy > 0 /\ used[buffer_nr] + NrToCopy <= CbSize
  BY <1>1, <1>2, BytesFreeExact DEF NrToCopy
<1>4. used' = [used EXCEPT ![buffer_nr] = used[buffer_nr] + NrToCopy]
  BY DEF Copy
<1>5. used'[buffer_nr] = used[buffer_nr] + NrToCopy
  BY <1>1, <1>4 DEF StreamInv, TypeOK
<1>6. wpc' \in {"pack", "copy"} => ~ FlushDue(used[buffer_nr] + NrToCopy)
  BY DEF Copy
<1>7. wpc' \in {"pack", "copy"} => used'[buffer_nr] < CbSize \div 2
  BY <1>1, <1>2, <1>3, <1>5, <1>6 DEF FlushDue
<1>8. used'[buffer_nr] > 0 /\ used'[buffer_nr] <= CbSize
  BY <1>1, <1>2, <1>3, <1>5
<1>. QED
  BY <1>1, <1>4, <1>5, <1>7, <1>8

LEMMA FillNext == StreamInv /\ [Next]_vars => Fill'
<1> SUFFICES ASSUME StreamInv, [Next]_vars PROVE Fill'
  OBVIOUS
<1>0. TypeOK /\ HasBuffer /\ Fill /\ Quiet /\ QuietWhenClosed
  BY DEF StreamInv, Quiet
<1> USE <1>0 DEF Fill, CbSize
<1>1. CASE Open
  <2>1. size' \in Nat /\ size' >= 1
    BY <1>1, StreamConstants DEF Open
  <2>2. wpc' = "idle" /\ \A b \in Buffers : used'[b] = 0
    BY <1>1 DEF Open, InitSemaphores, writer, QuietWhenClosed
  <2>. QED
    BY <2>1, <2>2, StreamConstants
<1>2. CASE OpenSucceeds
  BY <1>2 DEF OpenSucceeds, shared, request
<1>3. CASE Write
  <2>1. wpc' = "copy" => used[buffer_nr] < CbSize
    <3>1. CbSize \in Nat /\ CbSize \div 2 < CbSize /\ CbSize \div 2 \in Nat
      BY <1>3, Working, SizeFacts DEF Write
    <3>2. wpc' = "copy" => buffer_nr \in Buffers /\ buffer_nr >= 0
      BY <1>3, BuffersFacts DEF Write, TypeOK
    <3>3. wpc' = "copy" => used[buffer_nr] <= CbSize \div 2 /\ used[buffer_nr] \in Nat
      BY <1>3, <3>2 DEF Write, StreamInv, HalfBufferFree, TypeOK
    <3>. QED
      BY <3>1, <3>3
  <2>. QED
    BY <1>3, <2>1 DEF Write, shared, request, client
<1>4. CASE Claim
  <2>1. CbSize \in Nat /\ CbSize >= 1 /\ cpc # "closed"
    BY <1>4, Working, SizeFacts DEF Claim
  <2>2. /\ buffer_nr' = 0 /\ wpc' = "copy" /\ UNCHANGED <<size, cpc>>
        /\ used' = [used EXCEPT ![0] = 0]
        /\ ready_for_write' = [ready_for_write EXCEPT ![0] = @ - 1]
    BY <1>4 DEF Claim, request, client
  <2>3. \A b \in Buffers : used'[b] = 0 \/ used'[b] = used[b]
    BY <2>2 DEF TypeOK
  <2>4. used'[0] = 0
    BY <2>2, BuffersFacts DEF TypeOK
  <2>5. \A b \in Buffers : ready_for_write'[b] > 0 => used'[b] = 0
    BY <2>2, <2>4, BuffersFacts DEF TypeOK
  <2>. QED
    BY <2>1, <2>2, <2>3, <2>4, <2>5, StreamConstants
<1>5. CASE Copy
  <2>1. buffer_nr \in Buffers /\ ReaderOwns(buffer_nr)
    BY <1>5, CopyFacts DEF Copy, ReaderOwns
  <2>2. ready_for_write[buffer_nr] = 0
    BY <2>1, TokenOfReader
  <2>3. CbSize \in Nat /\ CbSize <= BufferSize /\ cpc # "closed" /\ CbSize \div 2 < CbSize /\ CbSize \div 2 \in Nat
    BY <1>5, Working, SizeFacts DEF Copy
  <2>4. UNCHANGED <<buffer_nr, ready_for_write, size, cpc>> /\ wpc' \in {"pack", "copy", "flush"}
    BY <1>5 DEF Copy, request, client
  <2>5. /\ \A b \in Buffers : b # buffer_nr => used'[b] = used[b]
        /\ used'[buffer_nr] \in Nat
    BY <1>5, <2>1, CopyFacts, TypeNext DEF TypeOK
  <2>6. /\ used'[buffer_nr] > 0
        /\ used'[buffer_nr] <= CbSize
        /\ wpc' \in {"pack", "copy"} => used'[buffer_nr] < CbSize \div 2
    BY <1>5, CopyFacts
  <2>7. \A b \in Buffers : used'[b] <= CbSize
    BY <2>3, <2>5, <2>6
  <2>8. \A b \in Buffers : used'[b] <= BufferSize
    BY <2>3, <2>5, <2>6, StreamConstants
  <2>9. wpc' = "copy" => used'[buffer_nr] < CbSize
    BY <2>3, <2>5, <2>6
  <2>. QED
    BY <2>2, <2>3, <2>4, <2>5, <2>6, <2>7, <2>8, <2>9
<1>6. CASE FlushCheck \/ DestroyCheck
  <2>1. UNCHANGED <<used, ready_for_write, size, cpc, buffer_nr>>
    BY <1>6 DEF FlushCheck, DestroyCheck, shared, request, client
  <2>2. /\ wpc' \in {"post", "destroy", "destroypost", "end"}
        /\ wpc' \in {"post", "destroypost"} => used[buffer_nr] > 0
    BY <1>6 DEF FlushCheck, DestroyCheck, TypeOK
  <2>. QED
    BY <2>1, <2>2
<1>7. CASE FlushPost \/ DestroyPost
  BY <1>7 DEF FlushPost, DestroyPost, request, client
<1>8. CASE FlushWait \/ DestroyWait
  <2>1. CbSize \in Nat /\ CbSize >= 1 /\ cpc # "closed"
    BY <1>8, Working, SizeFacts DEF FlushWait, DestroyWait
  <2>2. buffer_nr \in Buffers /\ used[buffer_nr] = 0
    BY <1>8 DEF FlushWait, DestroyWait, HasBuffer
  <2>3. /\ UNCHANGED <<buffer_nr, used, size, cpc>>
        /\ wpc' \in {"pack", "copy", "end"}
        /\ ready_for_write' = [ready_for_write EXCEPT ![buffer_nr] = @ - 1]
    BY <1>8 DEF FlushWait, DestroyWait, request, client
  <2>4. \A b \in Buffers : ready_for_write'[b] > 0 => used[b] = 0
    BY <2>2, <2>3 DEF TypeOK
  <2>. QED
    BY <2>1, <2>2, <2>3, <2>4
<1>9. CASE PackReturns
  BY <1>9 DEF PackReturns, shared, request, client
<1>10. CASE EndClaim
  BY <1>10, BuffersFacts DEF EndClaim, request, client, TypeOK
<1>11. CASE EndPost
  <2>1. /\ \A b \in Buffers : used'[b] = 0 \/ used'[b] = used[b]
        /\ wpc' = "idle" /\ UNCHANGED <<cpc, size, ready_for_write>>
    BY <1>11 DEF EndPost, request, client, TypeOK
  <2>. QED
    <3>1. CbSize \in Nat /\ BufferSize \in Nat
      BY StreamConstants DEF TypeOK
    <3>2. \A b \in Buffers : ready_for_write'[b] > 0 => used'[b] = 0
      BY <2>1
    <3>3. \A b \in Buffers : used'[b] <= BufferSize
      BY <2>1, <3>1
    <3>4. cpc' # "closed" => \A b \in Buffers : used'[b] <= CbSize
      BY <2>1, <3>1
    <3>. QED
      BY <2>1, <3>2, <3>3, <3>4
<1>12. CASE GotData
  <2>1. /\ used' = [used EXCEPT ![next_buffer] = 0]
        /\ ready_for_write' = [ready_for_write EXCEPT ![next_buffer] = @ + 1]
        /\ UNCHANGED <<wpc, buffer_nr, size>> /\ cpc # "closed" /\ next_buffer \in Buffers
    BY <1>12 DEF GotData, writer, request, TypeOK
  <2>2. \A b \in Buffers : used'[b] = 0 \/ used'[b] = used[b]
    BY <2>1 DEF TypeOK
  <2>3. \A b \in Buffers : ready_for_write'[b] > 0 => used'[b] = 0
    BY <2>1 DEF TypeOK
  <2>4. ~ ReaderOwns(next_buffer)
    BY <1>12, TokenOfClient DEF GotData, ClientOwns, TypeOK
  <2>5. wpc \in {"copy", "flush", "post", "destroypost"} => used'[buffer_nr] = used[buffer_nr]
    BY <2>1, <2>4 DEF ReaderOwns, HasBuffer, TypeOK
  <2>6. CbSize \in Nat
    BY <2>1, SizeFacts
  <2>. QED
    BY <2>1, <2>2, <2>3, <2>5, <2>6, StreamConstants DEF TypeOK
<1>13. CASE Release
  <2>1. CASE alive
    BY <1>13, <2>1 DEF Release, shared, writer, request
  <2>2. CASE ~alive
    BY <1>13, <2>2, StreamConstants DEF Release, Fresh, request
  <2>. QED
    BY <2>1, <2>2
<1>14. CASE Replace
  BY <1>14, StreamConstants DEF Replace, Fresh, client, request
<1>15. CASE OpenFails \/ Die \/ Read \/ Take \/ Timeout \/ WorkerIsAlive \/ WorkerIsDead \/ GotEnd
            \/ Close \/ UNCHANGED vars
  <2>1. UNCHANGED <<used, ready_for_write, wpc, buffer_nr, size>> /\ (cpc' # "closed" => cpc # "closed")
    BY <1>15 DEF OpenFails, Die, Read, Take, Timeout, WorkerIsAlive, WorkerIsDead, GotEnd, Close, vars,
                 shared, writer, client, request
  <2>. QED
    BY <2>1
<1>. QED
  BY <1>1, <1>2, <1>3, <1>4, <1>5, <1>6, <1>7, <1>8, <1>9, <1>10, <1>11, <1>12, <1>13, <1>14, <1>15
     DEF Next, ReaderStep, ClientStep

(* The half of the buffer that msgpack_chunkbuffer_write leaves free *)
LEMMA HalfNext == StreamInv /\ [Next]_vars => HalfBufferFree'
<1> SUFFICES ASSUME StreamInv, [Next]_vars, wpc' = "pack", buffer_nr' >= 0
             PROVE  used'[buffer_nr'] <= (CbSize \div 2)'
  BY DEF HalfBufferFree
<1>0. TypeOK /\ HasBuffer /\ Fill /\ HalfBufferFree
  BY DEF StreamInv
<1> USE <1>0 DEF CbSize
<1>1. CASE Copy
  <2>1. UNCHANGED <<buffer_nr, size>> /\ wpc # "idle"
    BY <1>1 DEF Copy, request
  <2>2. CbSize \in Nat /\ CbSize \div 2 \in Nat
    BY <2>1, Working, SizeFacts
  <2>3. used'[buffer_nr] < CbSize \div 2 /\ buffer_nr \in Buffers
    BY <1>1, CopyFacts
  <2>4. used'[buffer_nr] \in Nat
    BY <2>1, <2>3, TypeNext DEF TypeOK
  <2>. QED
    BY <2>1, <2>2, <2>3, <2>4
<1>2. CASE FlushWait
  <2>1. UNCHANGED <<buffer_nr, size, used>> /\ wpc # "idle" /\ used[buffer_nr] = 0
    BY <1>2 DEF FlushWait, request, Fill, HasBuffer
  <2>2. CbSize \in Nat /\ CbSize \div 2 \in Nat
    BY <2>1, Working, SizeFacts
  <2>. QED
    BY <2>1, <2>2
<1>3. CASE GotData
  <2>1. /\ UNCHANGED <<wpc, buffer_nr, size>> /\ cpc = "got" /\ next_buffer \in Buffers
        /\ used' = [used EXCEPT ![next_buffer] = 0]
    BY <1>3 DEF GotData, writer, request, TypeOK
  <2>2. ~ ReaderOwns(next_buffer)
    BY <2>1, TokenOfClient DEF ClientOwns
  <2>3. used'[buffer_nr] = used[buffer_nr]
    BY <2>1, <2>2, BuffersFacts DEF ReaderOwns, TypeOK
  <2>. QED
    BY <2>1, <2>3 DEF HalfBufferFree
<1>4. CASE Release
  <2>1. alive /\ UNCHANGED <<wpc, buffer_nr, size, used>>
    BY <1>4 DEF Release, Fresh, shared, writer, request
  <2>. QED
    BY <2>1 DEF HalfBufferFree
<1>5. CASE Open
  BY <1>5 DEF Open, writer, StreamInv, Quiet, QuietWhenClosed
<1>6. CASE OpenFails \/ Die \/ Read \/ Take \/ Timeout \/ WorkerIsAlive \/ WorkerIsDead \/ GotEnd
           \/ Close \/ UNCHANGED vars
  <2>1. UNCHANGED <<used, wpc, buffer_nr, size>>
    BY <1>6 DEF OpenFails, Die, Read, Take, Timeout, WorkerIsAlive, WorkerIsDead, GotEnd, Close, vars,
                shared, writer, request
  <2>. QED
    BY <2>1 DEF HalfBufferFree
<1>7. CASE OpenSucceeds \/ Write \/ Claim \/ FlushCheck \/ FlushPost \/ PackReturns \/ DestroyCheck
           \/ DestroyPost \/ DestroyWait \/ EndClaim \/ EndPost \/ Replace
  BY <1>7 DEF OpenSucceeds, Write, Claim, FlushCheck, FlushPost, PackReturns, DestroyCheck,
              DestroyPost, DestroyWait, EndClaim, EndPost, Replace, Fresh
<1>. QED
  BY <1>1, <1>2, <1>3, <1>4, <1>5, <1>6, <1>7 DEF Next, ReaderStep, ClientStep

-----------------------------------------------------------------------------
(* The end of the stream *)

LEMMA EmptyIsLastNext == StreamInv /\ [Next]_vars => EmptyIsLast'
<1> SUFFICES ASSUME StreamInv, [Next]_vars, NEW b \in Buffers,
                    ready_for_read'[b] > 0 \/ ClientOwns(b)', used'[b] = 0
             PROVE  wpc' = "idle"
  BY DEF EmptyIsLast
<1>0. TypeOK /\ HasBuffer /\ Fill /\ Quiet /\ EmptyIsLast
  BY DEF StreamInv
<1> USE <1>0 DEF ClientOwns
<1>1. ASSUME ready_for_read[b] > 0 \/ ClientOwns(b), used[b] = 0, UNCHANGED wpc PROVE wpc' = "idle"
  BY <1>1 DEF EmptyIsLast
<1>2. ASSUME wpc # "idle" PROVE ~ ((ready_for_read[b] > 0 \/ ClientOwns(b)) /\ used[b] = 0)
  BY <1>2 DEF EmptyIsLast
<1>3. CASE Open
  BY <1>3 DEF Open, InitSemaphores
<1>4. CASE OpenSucceeds
  BY <1>4 DEF OpenSucceeds, shared, Quiet
<1>5. CASE FlushPost \/ DestroyPost
  <2>1. /\ wpc \in {"post", "destroypost"} /\ buffer_nr \in Buffers
        /\ ready_for_read' = [ready_for_read EXCEPT ![buffer_nr] = @ + 1]
        /\ UNCHANGED <<used, cpc, next_buffer>>
    BY <1>5 DEF FlushPost, DestroyPost, Publish, HasBuffer, client
  <2>2. b # buffer_nr
    BY <2>1 DEF Fill
  <2>. QED
    BY <1>2, <2>1, <2>2 DEF TypeOK
<1>6. CASE Copy
  <2>1. /\ buffer_nr \in Buffers /\ used'[buffer_nr] > 0
        /\ \A c \in Buffers : c # buffer_nr => used'[c] = used[c]
    BY <1>6, CopyFacts DEF TypeOK
  <2>2. used'[b] = used[b]
    BY <2>1
  <2>. QED
    BY <1>2, <1>6, <2>2 DEF Copy, client
<1>7. CASE Claim
  <2>1. b # 0
    BY <1>7, TokenOfWriteSemaphore, BuffersFacts DEF Claim, client
  <2>. QED
    BY <1>2, <1>7, <2>1 DEF Claim, client, TypeOK
<1>8. CASE EndPost
  BY <1>8 DEF EndPost
<1>9. CASE Write \/ FlushCheck \/ FlushWait \/ PackReturns \/ DestroyCheck \/ DestroyWait \/ EndClaim
  <2>1. wpc # "idle" /\ UNCHANGED <<ready_for_read, used, cpc, next_buffer>>
    BY <1>9 DEF Write, FlushCheck, FlushWait, PackReturns, DestroyCheck, DestroyWait, EndClaim,
                shared, client
  <2>. QED
    BY <1>2, <2>1
<1>10. CASE Take
  BY <1>1, <1>10 DEF Take, writer, TypeOK
<1>11. CASE GotData
  <2>1. b # next_buffer
    BY <1>11, TokenOfClient DEF GotData
  <2>. QED
    BY <1>1, <1>11, <2>1 DEF GotData, writer, TypeOK
<1>12. CASE Release
  BY <1>1, <1>12 DEF Release, Fresh, shared, writer
<1>13. CASE Replace
  BY <1>13 DEF Replace, Fresh
<1>14. CASE OpenFails \/ Die \/ Read \/ Timeout \/ WorkerIsAlive \/ WorkerIsDead \/ GotEnd \/ Close
            \/ UNCHANGED vars
  <2>1. UNCHANGED <<ready_for_read, used, next_buffer, wpc>> /\ (cpc' = "got" => cpc = "got")
    BY <1>14 DEF OpenFails, Die, Read, Timeout, WorkerIsAlive, WorkerIsDead, GotEnd, Close, vars,
                 shared, writer, client
  <2>. QED
    BY <1>1, <2>1
<1>. QED
  BY <1>3, <1>4, <1>5, <1>6, <1>7, <1>8, <1>9, <1>10, <1>11, <1>12, <1>13, <1>14
     DEF Next, ReaderStep, ClientStep

-----------------------------------------------------------------------------
(* The tokens: each step moves at most one, and only OpenSucceeds and the  *)
(* steps that end a stream touch those of several buffers.                 *)

LEMMA TokensNext == StreamInv /\ [Next]_vars => OneToken'
<1> SUFFICES ASSUME StreamInv, [Next]_vars, NEW b \in Buffers
             PROVE  /\ Tokens(b)' <= 1
                    /\ cpc' # "closed" /\ ~ended' => Tokens(b)' = 1
  BY DEF OneToken
<1>0. TypeOK /\ HasBuffer /\ Quiet
  BY DEF StreamInv
<1>1. /\ Tokens(b) <= 1
      /\ cpc # "closed" /\ ~ended => Tokens(b) = 1
  BY DEF StreamInv, OneToken
<1>2. Tokens(b) \in Nat
  BY <1>0 DEF Tokens, Count, TypeOK
<1>3. ASSUME Tokens(b)' = Tokens(b), cpc' # "closed" /\ ~ended' => cpc # "closed" /\ ~ended
      PROVE  /\ Tokens(b)' <= 1
             /\ cpc' # "closed" /\ ~ended' => Tokens(b)' = 1
  BY <1>1, <1>3
<1> USE <1>0 DEF Tokens, Count, ReaderOwns, ClientOwns, TypeOK
<1>4. CASE Open
  <2>1. wpc = "idle" /\ cpc' = "opening" /\ UNCHANGED wpc /\ ready_for_read'[b] = 0
    BY <1>4 DEF Open, InitSemaphores, writer, Quiet, QuietWhenClosed
  <2>2. ready_for_write'[b] = IF ready_for_write[b] < 1 THEN 1 ELSE ready_for_write[b]
    BY <1>4 DEF Open, InitSemaphores
  <2>3. ready_for_write[b] <= 1
    <3>1. ready_for_write[b] > 0 => ready_for_write[b] = 1
      BY TokenOfWriteSemaphore
    <3>. QED
      BY <3>1
  <2>. QED
    BY <2>1, <2>2, <2>3
<1>5. CASE OpenSucceeds
  <2>1. Tokens(b)' = Tokens(b)
    BY <1>5, BuffersFacts DEF OpenSucceeds, shared
  <2>. QED
    BY <1>3, <1>5, <2>1 DEF OpenSucceeds
<1>6. CASE Claim
  <2>1. /\ ready_for_write' = [ready_for_write EXCEPT ![0] = @ - 1] /\ ready_for_write[0] > 0
        /\ buffer_nr = -1 /\ buffer_nr' = 0 /\ wpc' = "copy"
        /\ UNCHANGED <<ready_for_read, cpc, next_buffer, ended>>
    BY <1>6 DEF Claim, client, HasBuffer
  <2>2. CASE b = 0
    <3>1. ready_for_write'[b] = ready_for_write[b] - 1 /\ buffer_nr # b /\ buffer_nr' = b
      BY <2>1, <2>2, BuffersFacts
    <3>. QED
      BY <1>3, <2>1, <3>1
  <2>3. CASE b # 0
    <3>1. ready_for_write'[b] = ready_for_write[b] /\ buffer_nr # b /\ buffer_nr' # b
      BY <2>1, <2>3, BuffersFacts
    <3>. QED
      BY <1>3, <2>1, <3>1
  <2>. QED
    BY <2>2, <2>3
<1>7. CASE EndClaim
  <2>1. /\ ready_for_write' = [ready_for_write EXCEPT ![0] = @ - 1] /\ ready_for_write[0] > 0
        /\ buffer_nr < 0 /\ buffer_nr' = 0 /\ wpc' = "end"
        /\ UNCHANGED <<ready_for_read, cpc, next_buffer, ended>>
    BY <1>7 DEF EndClaim, client
  <2>2. buffer_nr # b
    BY <2>1, BuffersFacts
  <2>3. CASE b = 0
    <3>1. ready_for_write'[b] = ready_for_write[b] - 1 /\ buffer_nr' = b
      BY <2>1, <2>3, BuffersFacts
    <3>. QED
      BY <1>3, <2>1, <2>2, <3>1
  <2>4. CASE b # 0
    <3>1. ready_for_write'[b] = ready_for_write[b] /\ buffer_nr' # b
      BY <2>1, <2>4, BuffersFacts
    <3>. QED
      BY <1>3, <2>1, <2>2, <3>1
  <2>. QED
    BY <2>3, <2>4
<1>8. CASE FlushPost \/ DestroyPost
  <2>1. /\ ready_for_read' = [ready_for_read EXCEPT ![buffer_nr] = @ + 1]
        /\ wpc \in {"post", "destroypost"} /\ wpc' \in {"wait", "destroywait"}
        /\ UNCHANGED <<ready_for_write, cpc, next_buffer, ended>>
    BY <1>8 DEF FlushPost, DestroyPost, Publish, client
  <2>2. Tokens(b)' = Tokens(b)
    BY <2>1
  <2>. QED
    BY <1>3, <2>1, <2>2
<1>9. CASE FlushWait \/ DestroyWait
  <2>1. /\ ready_for_write' = [ready_for_write EXCEPT ![buffer_nr] = @ - 1]
        /\ wpc \in {"wait", "destroywait"} /\ wpc' \in {"pack", "copy", "end"}
        /\ UNCHANGED <<ready_for_read, buffer_nr, cpc, next_buffer, ended>>
    BY <1>9 DEF FlushWait, DestroyWait, client
  <2>2. Tokens(b)' = Tokens(b)
    BY <2>1
  <2>. QED
    BY <1>3, <2>1, <2>2
<1>10. CASE EndPost
  <2>1. /\ ready_for_read' = [ready_for_read EXCEPT ![buffer_nr] = @ + 1]
        /\ wpc = "end" /\ wpc' = "idle"
        /\ UNCHANGED <<ready_for_write, buffer_nr, cpc, next_buffer, ended>>
    BY <1>10 DEF EndPost, client
  <2>2. Tokens(b)' = Tokens(b)
    BY <2>1
  <2>. QED
    BY <1>3, <2>1, <2>2
<1>11. CASE Write \/ Copy \/ FlushCheck \/ PackReturns \/ DestroyCheck
  <2>1. /\ UNCHANGED <<ready_for_read, ready_for_write, buffer_nr, cpc, next_buffer, ended>>
        /\ wpc \in {"pack", "copy", "flush", "destroy"}
        /\ wpc' \in {"pack", "claim", "copy", "flush", "post", "destroy", "destroypost", "end"}
        /\ wpc' = "claim" => buffer_nr < 0
    BY <1>11 DEF Write, Copy, FlushCheck, PackReturns, DestroyCheck, shared, client
  <2>2. wpc' = "claim" => buffer_nr # b
    BY <2>1, BuffersFacts
  <2>3. Tokens(b)' = Tokens(b)
    BY <2>1, <2>2
  <2>. QED
    BY <1>3, <2>1, <2>3
<1>12. CASE Take
  <2>1. Tokens(b)' = Tokens(b)
    BY <1>12 DEF Take, writer
  <2>. QED
    BY <1>3, <1>12, <2>1 DEF Take
<1>13. CASE GotData
  <2>1. Tokens(b)' = Tokens(b)
    BY <1>13 DEF GotData, writer
  <2>. QED
    BY <1>3, <1>13, <2>1 DEF GotData
<1>14. CASE GotEnd
  <2>1. /\ UNCHANGED <<ready_for_read, ready_for_write, wpc, buffer_nr, next_buffer>>
        /\ ended' = TRUE /\ cpc' # "got"
    BY <1>14 DEF GotEnd, shared, writer
  <2>2. Tokens(b)' <= Tokens(b)
    BY <2>1
  <2>. QED
    BY <1>1, <1>2, <2>1, <2>2
<1>15. CASE Release \/ Replace
  <2>1. CASE Fresh
    <3>1. cpc' = "closed" /\ wpc' = "idle" /\ ready_for_read'[b] = 0 /\ ready_for_write'[b] = 0
      BY <1>15, <2>1 DEF Release, Replace, Fresh, client
    <3>. QED
      BY <3>1
  <2>2. CASE ~Fresh
    <3>1. UNCHANGED <<shared, writer, next_buffer>> /\ cpc = "release" /\ cpc' = "closed"
      BY <1>15, <2>2 DEF Release, Replace
    <3>2. Tokens(b)' = Tokens(b)
      BY <3>1 DEF shared, writer
    <3>. QED
      BY <1>3, <3>1, <3>2
  <2>. QED
    BY <2>1, <2>2
<1>16. CASE OpenFails \/ Die \/ Read \/ Timeout \/ WorkerIsAlive \/ WorkerIsDead \/ Close \/ UNCHANGED vars
  <2>1. /\ UNCHANGED <<ready_for_read, ready_for_write, wpc, buffer_nr, next_buffer>>
        /\ (cpc' = "got" <=> cpc = "got") /\ (cpc' = "closed" <=> cpc = "closed")
        /\ ended' = ended \/ ended'
    BY <1>16 DEF OpenFails, Die, Read, Timeout, WorkerIsAlive, WorkerIsDead, Close, vars, shared,
                 writer, client
  <2>2. Tokens(b)' = Tokens(b)
    BY <2>1
  <2>. QED
    BY <1>3, <2>1, <2>2
<1>. QED
  BY <1>4, <1>5, <1>6, <1>7, <1>8, <1>9, <1>10, <1>11, <1>12, <1>13, <1>14, <1>15, <1>16
     DEF Next, ReaderStep, ClientStep

-----------------------------------------------------------------------------

LEMMA StreamInvInit == Init => StreamInv
<1> SUFFICES ASSUME Init PROVE StreamInv
  OBVIOUS
<1>1. HasBuffer /\ Quiet /\ HalfBufferFree /\ Late
  BY DEF Init, HasBuffer, Quiet, QuietWhenClosed, HalfBufferFree, Late
<1>2. Fill /\ EmptyIsLast
  BY StreamConstants DEF Init, Fill, EmptyIsLast, ClientOwns
<1>3. OneToken
  BY DEF Init, OneToken, Tokens, Count, ReaderOwns, ClientOwns
<1>. QED
  BY <1>1, <1>2, <1>3, TypeInit DEF StreamInv

LEMMA StreamInvNext == StreamInv /\ [Next]_vars => StreamInv'
BY TypeNext, HasBufferNext, FillNext, QuietNext, EmptyIsLastNext, TokensNext, HalfNext, LateNext
   DEF StreamInv

LEMMA StreamInvariant == Spec => []StreamInv
BY StreamInvInit, StreamInvNext, PTL DEF Spec

-----------------------------------------------------------------------------
(* The data of a stream.  Buffers that the client has still to read follow *)
(* each other round the ring from the client's place to the reader's; how  *)
(* far a buffer is from the client's place is a number, so that no         *)
(* argument has to go round the ring.  The bytes tell their own positions. *)

Units == {0, 1} \X Nat

(* The buffer after b *)
Succ(b) == IF b = NrBuffers - 1 THEN 0 ELSE b + 1

Distance(b) == IF b >= next_buffer THEN b - next_buffer ELSE b - next_buffer + NrBuffers

(* Published, and not yet given back by the client *)
Pending(b) == ready_for_read[b] > 0 \/ ClientOwns(b)

(* The first buffer that the reader has not published *)
ReaderPlace ==
  IF buffer_nr = -1 THEN 0 ELSE IF wpc = "idle" THEN Succ(buffer_nr) ELSE buffer_nr

NrPending ==
  IF ReaderPlace # next_buffer THEN Distance(ReaderPlace)
  ELSE IF Pending(next_buffer) THEN NrBuffers ELSE 0

(* A stream that was neither ended nor cancelled *)
Active == cpc \in {"between", "wait", "timeout", "got"} /\ ~ ended /\ srd_status = "OK"

Writing == buffer_nr # -1 /\ ReaderOwns(buffer_nr)

(* Bytes of the answer that were published, and those before and up to the *)
(* end of a published buffer                                               *)
Published == produced - (IF Writing THEN used[buffer_nr] ELSE 0)
Begins(b) == IF used[b] > 0 THEN mem[b][1][2] - 1 ELSE produced
Ends(b)   == Begins(b) + used[b]

(* The answer, and how much of it is left to write *)
Data ==
  /\ data = Answer(req, Len(data)) /\ Len(data) <= MaxLen
  /\ mem \in [Buffers -> Seq(Units)]
  /\ \A b \in Buffers : used[b] <= Len(mem[b])
  /\ IF wpc = "idle" THEN left = 0 ELSE produced + left <= Len(data)

(* A stream is not read after its end, and begins at buffer 0 *)
Calls ==
  /\ cpc \in {"wait", "timeout", "got"} => ~ ended
  /\ cpc = "opening" => next_buffer = 0 /\ received = <<>> /\ srd_status = "OK"

(* The buffers to be read are the first ones from the client's place, and  *)
(* only the one that ends the stream is empty                              *)
Order ==
  Active =>
    /\ \A b \in Buffers : Pending(b) <=> Distance(b) < NrPending
    /\ buffer_nr = -1 => next_buffer = 0 /\ wpc # "idle" /\ \A b \in Buffers : ~ Pending(b)
    /\ wpc = "end" /\ buffer_nr # -1 => used[buffer_nr] = 0
    /\ \A b \in Buffers : Pending(b) /\ used[b] = 0 => b = buffer_nr

(* Each of them holds the part of the answer that follows the one before *)
Flow ==
  Active =>
    /\ received = Answer(req, Len(received))
    /\ \A b \in Buffers : Pending(b) =>
         /\ \A i \in 1 .. used[b] : mem[b][i] = <<req, Begins(b) + i>>
         /\ Ends(b) <= Published
    /\ Writing => \A i \in 1 .. used[buffer_nr] : mem[buffer_nr][i] = <<req, Published + i>>
    /\ NrPending = 0 => Len(received) = Published
    /\ NrPending > 0 => Begins(next_buffer) = Len(received)
    /\ \A b \in Buffers : Distance(b) + 1 = NrPending => Ends(b) = Published
    /\ \A b \in Buffers : Distance(b) + 1 < NrPending => Ends(b) = Begins(Succ(b))

(* The reader ends with OK only if it has written everything *)
Verdict ==
  Active =>
    /\ produced <= Len(data)
    /\ wpc \in {"destroy", "destroypost", "destroywait", "end", "idle"} /\ ret = "OK"
         => produced = Len(data)
    /\ wpc = "idle" => status[buffer_nr] = ret

DataInv == Data /\ Calls /\ Order /\ Flow /\ Verdict

LEMMA SuccFacts ==
  \A b \in Buffers : Succ(b) \in Buffers /\ (b + 1) % NrBuffers = Succ(b)
<1> SUFFICES ASSUME NEW b \in Buffers
             PROVE  Succ(b) \in Buffers /\ (b + 1) % NrBuffers = Succ(b)
  OBVIOUS
<1>1. NrBuffers \in Nat \ {0} /\ b \in 0 .. NrBuffers - 1
  BY StreamConstants DEF Buffers
<1>2. CASE b = NrBuffers - 1
  <2>1. NrBuffers % NrBuffers = 0
    BY <1>1
  <2>. QED
    BY <1>1, <1>2, <2>1 DEF Succ, Buffers
<1>3. CASE b # NrBuffers - 1
  <2>1. b + 1 \in 0 .. NrBuffers - 1
    BY <1>1, <1>3
  <2>2. (b + 1) % NrBuffers = b + 1
    BY <1>1, <2>1
  <2>. QED
    BY <1>1, <1>3, <2>1, <2>2 DEF Succ, Buffers
<1>. QED
  BY <1>2, <1>3

LEMMA DistanceFacts ==
  ASSUME TypeOK
  PROVE  /\ \A b \in Buffers : Distance(b) \in 0 .. NrBuffers - 1
         /\ \A b, c \in Buffers : Distance(b) = Distance(c) => b = c
         /\ \A b \in Buffers :
              Distance(Succ(b)) = IF Distance(b) = NrBuffers - 1 THEN 0 ELSE Distance(b) + 1
         /\ Distance(next_buffer) = 0
<1>1. NrBuffers \in Nat \ {0} /\ next_buffer \in 0 .. NrBuffers - 1
  BY StreamConstants DEF TypeOK, Buffers
<1>. QED
  BY <1>1 DEF Distance, Succ, Buffers

LEMMA PlaceFacts ==
  ASSUME TypeOK
  PROVE  /\ ReaderPlace \in Buffers
         /\ NrPending \in 0 .. NrBuffers
         /\ NrPending = 0 \/ NrPending = NrBuffers <=> ReaderPlace = next_buffer
<1>1. ReaderPlace \in Buffers
  BY BuffersFacts, SuccFacts DEF TypeOK, ReaderPlace
<1>2. next_buffer \in Buffers /\ NrBuffers \in Nat
  BY StreamConstants DEF TypeOK
<1>. QED
  BY <1>1, <1>2, DistanceFacts DEF NrPending

LEMMA AnswerFacts ==
  ASSUME NEW r \in {0, 1}, NEW n \in Nat
  PROVE  /\ Answer(r, n) \in Seq(Units) /\ Len(Answer(r, n)) = n
         /\ \A i \in 1 .. n : Answer(r, n)[i] = <<r, i>>
BY DEF Answer, Units

(* What a copy does to the reader's buffer *)
LEMMA CopyData ==
  ASSUME StreamInv, Data, Copy
  PROVE  \E n \in Nat :
           LET w == buffer_nr  u == used[buffer_nr] IN
           /\ w \in Buffers /\ ReaderOwns(w) /\ u \in Nat /\ n > 0
           /\ produced + n + left' <= Len(data) /\ left' \in Nat
           /\ produced' = produced + n
           /\ used' = [used EXCEPT ![w] = u + n]
           /\ mem' \in [Buffers -> Seq(Units)]
           /\ Len(mem'[w]) = u + n
           /\ \A i \in 1 .. u : mem'[w][i] = mem[w][i]
           /\ \A i \in u + 1 .. u + n : mem'[w][i] = <<req, produced + i - u>>
           /\ \A b \in Buffers : b # w => mem'[b] = mem[b]
<1>1. buffer_nr \in Buffers /\ used[buffer_nr] \in Nat /\ left \in Nat /\ left > 0 /\ produced \in Nat
  BY DEF StreamInv, HasBuffer, TypeOK, Copy
<1>2. CbSize \in Nat /\ CbSize <= BufferSize /\ used[buffer_nr] < CbSize
  BY Working, SizeFacts DEF StreamInv, Fill, Copy
<1>3. NrToCopy \in Nat /\ NrToCopy > 0 /\ NrToCopy <= left
  BY <1>1, <1>2, BytesFreeExact DEF NrToCopy
<1> DEFINE n == NrToCopy  w == buffer_nr  u == used[buffer_nr]
           old == SubSeq(mem[w], 1, u)  new == SubSeq(data, produced + 1, produced + n)
<1>4. data \in Seq(Units) /\ produced + left <= Len(data) /\ req \in {0, 1} /\ Len(data) \in Nat
  BY DEF StreamInv, TypeOK, Data, Copy, Units
<1>5. /\ mem[w] \in Seq(Units) /\ u <= Len(mem[w]) /\ Len(mem[w]) \in Nat
      /\ mem \in [Buffers -> Seq(Units)] /\ used \in [Buffers -> Nat]
  BY <1>1, SMTT(40) DEF Data, StreamInv, TypeOK
<1>6. /\ mem' = [mem EXCEPT ![w] = old \o new] /\ used' = [used EXCEPT ![w] = u + n]
      /\ produced' = produced + n /\ left' = left - n
  BY DEF Copy
<1>7. old \in Seq(Units) /\ Len(old) = u /\ \A i \in 1 .. u : old[i] = mem[w][i]
  BY <1>1, <1>5, SubSeqProperties
<1>8. new \in Seq(Units) /\ Len(new) = n /\ \A i \in 1 .. n : new[i] = data[produced + i]
  <2>1. produced + n <= Len(data) /\ produced + 1 \in 1 .. Len(data) /\ produced + n \in 1 .. Len(data)
    BY <1>1, <1>3, <1>4
  <2>2. new \in Seq(Units) /\ Len(new) = produced + n - (produced + 1) + 1
    BY <1>1, <1>3, <1>4, <2>1, SubSeqProperties
  <2>3. \A i \in 1 .. n : new[i] = data[produced + 1 + i - 1]
    BY <1>1, <1>3, <1>4, <2>1, <2>2, SubSeqProperties
  <2>. QED
    BY <1>1, <1>3, <2>2, <2>3
<1>9. \A i \in 1 .. n : new[i] = <<req, produced + i>>
  <2> SUFFICES ASSUME NEW i \in 1 .. n PROVE new[i] = <<req, produced + i>>
    OBVIOUS
  <2>1. produced + i \in 1 .. Len(data) /\ data = Answer(req, Len(data))
    BY <1>1, <1>3, <1>4 DEF Data
  <2>. QED
    BY <1>4, <1>8, <2>1, AnswerFacts
<1>10. /\ old \o new \in Seq(Units) /\ Len(old \o new) = u + n
       /\ \A i \in 1 .. u : (old \o new)[i] = old[i]
       /\ \A i \in u + 1 .. u + n : (old \o new)[i] = new[i - u]
  <2>1. u \in Nat /\ n \in Nat
    BY <1>1, <1>3
  <2> HIDE DEF old, new, u, n
  <2>2. /\ old \o new \in Seq(Units) /\ Len(old \o new) = u + n
        /\ \A i \in 1 .. u + n : (old \o new)[i] = IF i <= u THEN old[i] ELSE new[i - u]
    BY <1>7, <1>8, ConcatProperties, ZenonT(40)
  <2>. QED
    BY <2>1, <2>2
<1>11. mem' \in [Buffers -> Seq(Units)] /\ mem'[w] = old \o new /\ \A b \in Buffers : b # w => mem'[b] = mem[b]
  BY <1>1, <1>5, <1>6, <1>10
<1>12. \A i \in u + 1 .. u + n : mem'[w][i] = <<req, produced + i - u>>
  <2> SUFFICES ASSUME NEW i \in u + 1 .. u + n PROVE mem'[w][i] = <<req, produced + i - u>>
    OBVIOUS
  <2>1. i - u \in 1 .. n /\ produced + (i - u) = produced + i - u
    BY <1>1, <1>3
  <2>. QED
    BY <1>9, <1>10, <1>11, <2>1
<1>13. ReaderOwns(w) /\ left' \in Nat /\ produced + n + left' <= Len(data)
  BY <1>1, <1>3, <1>4, <1>6 DEF ReaderOwns, Copy
<1>14. Len(mem'[w]) = u + n /\ \A i \in 1 .. u : mem'[w][i] = mem[w][i]
  BY <1>7, <1>10, <1>11
<1>. QED
  BY <1>1, <1>3, <1>6, <1>11, <1>12, <1>13, <1>14

LEMMA DataNext == StreamInv /\ Data /\ [Next]_vars => Data'
<1> SUFFICES ASSUME StreamInv, Data, [Next]_vars PROVE Data'
  OBVIOUS
<1>0. TypeOK /\ Quiet /\ HasBuffer /\ Len(data) \in Nat
  BY DEF StreamInv, TypeOK
<1> USE <1>0
<1>1. CASE Open
  <2>1. PICK n \in 0 .. MaxLen : data' = Answer(1 - req, n) /\ req' = 1 - req
    BY <1>1 DEF Open
  <2>2. n \in Nat /\ 1 - req \in {0, 1}
    BY StreamConstants DEF TypeOK
  <2>3. data' = Answer(req', Len(data')) /\ Len(data') <= MaxLen
    <3>1. Len(Answer(1 - req, n)) = n
      BY <2>2, AnswerFacts
    <3>. QED
      BY <2>1, <3>1, StreamConstants
  <2>4. wpc' = "idle" /\ left' = 0 /\ mem' = mem /\ \A b \in Buffers : used'[b] = 0
    BY <1>1 DEF Open, InitSemaphores, writer, Quiet, QuietWhenClosed, Data
  <2>5. \A b \in Buffers : Len(mem[b]) \in Nat
    BY DEF Data
  <2>. QED
    BY <2>3, <2>4, <2>5 DEF Data
<1>2. CASE OpenSucceeds
  BY <1>2 DEF OpenSucceeds, Data, shared, request
<1>3. CASE Write
  <2>1. left' \in 1 .. Len(data) - produced /\ wpc' # "idle" /\ UNCHANGED <<data, req, mem, used, produced>>
    BY <1>3 DEF Write, shared, request
  <2>2. produced + left' <= Len(data)
    BY <2>1 DEF TypeOK
  <2>. QED
    BY <2>1, <2>2 DEF Data
<1>4. CASE Copy
  <2>1. /\ UNCHANGED <<req, data>> /\ wpc' # "idle"
        /\ mem' \in [Buffers -> Seq(Units)]
        /\ produced' + left' <= Len(data)
        /\ buffer_nr \in Buffers
        /\ used'[buffer_nr] = Len(mem'[buffer_nr])
        /\ \A b \in Buffers : b # buffer_nr => used'[b] = used[b] /\ mem'[b] = mem[b]
    <3>1. UNCHANGED <<req, data>> /\ wpc' # "idle"
      BY <1>4 DEF Copy, request
    <3>. QED
      BY <1>4, <3>1, CopyData DEF TypeOK
  <2>2. \A b \in Buffers : used'[b] <= Len(mem'[b])
    <3> SUFFICES ASSUME NEW b \in Buffers PROVE used'[b] <= Len(mem'[b])
      OBVIOUS
    <3>1. Len(mem'[b]) \in Nat
      BY <2>1
    <3>2. CASE b = buffer_nr
      BY <2>1, <3>1, <3>2
    <3>3. CASE b # buffer_nr
      BY <2>1, <3>3 DEF Data
    <3>. QED
      BY <3>2, <3>3
  <2>. QED
    BY <2>1, <2>2 DEF Data
<1>5. CASE Claim \/ EndPost \/ GotData
  <2>1. \A b \in Buffers : used'[b] = used[b] \/ used'[b] = 0
    BY <1>5, BuffersFacts DEF Claim, EndPost, GotData, TypeOK
  <2>2. /\ UNCHANGED <<req, data, mem, produced>>
        /\ \/ left' = left /\ (wpc' = "idle" <=> wpc = "idle")
           \/ left' = 0 /\ wpc' = "idle"
    BY <1>5 DEF Claim, EndPost, GotData, request, writer
  <2>3. \A b \in Buffers : Len(mem[b]) \in Nat
    BY DEF Data
  <2>. QED
    BY <2>1, <2>2, <2>3 DEF Data
<1>6. CASE (Release \/ Replace) /\ Fresh
  <2>1. /\ UNCHANGED <<req, data>> /\ wpc' = "idle" /\ left' = 0
        /\ used' = [b \in Buffers |-> 0] /\ mem' = [b \in Buffers |-> <<>>]
    BY <1>6 DEF Release, Replace, Fresh, request
  <2>. QED
    BY <2>1 DEF Data
<1>7. CASE \/ FlushCheck \/ FlushPost \/ FlushWait \/ PackReturns \/ DestroyCheck \/ DestroyPost
           \/ DestroyWait \/ EndClaim
  <2>1. UNCHANGED <<req, data, mem, produced, left, used>> /\ wpc # "idle" /\ wpc' # "idle"
    BY <1>7 DEF FlushCheck, FlushPost, FlushWait, PackReturns, DestroyCheck, DestroyPost,
                DestroyWait, EndClaim, shared, request
  <2>. QED
    BY <2>1 DEF Data
<1>8. CASE \/ OpenFails \/ Die \/ Read \/ Take \/ Timeout \/ WorkerIsAlive \/ WorkerIsDead \/ GotEnd
           \/ Close \/ (Release /\ ~ Fresh) \/ UNCHANGED vars
  <2>1. UNCHANGED <<req, data, mem, produced, left, used, wpc>>
    BY <1>8 DEF OpenFails, Die, Read, Take, Timeout, WorkerIsAlive, WorkerIsDead, GotEnd, Close,
                Release, vars, shared, writer, request
  <2>. QED
    BY <2>1 DEF Data
<1>9. Replace => Fresh
  BY DEF Replace
<1>. QED
  BY <1>1, <1>2, <1>3, <1>4, <1>5, <1>6, <1>7, <1>8, <1>9 DEF Next, ReaderStep, ClientStep

LEMMA CallsNext == StreamInv /\ Calls /\ [Next]_vars => Calls'
<1> SUFFICES ASSUME StreamInv, Calls, [Next]_vars PROVE Calls'
  OBVIOUS
<1>1. CASE Open
  BY <1>1 DEF Open, Calls
<1>2. CASE Read \/ Close
  BY <1>2 DEF Read, Close, Calls
<1>3. CASE ReaderStep \/ Die \/ Replace \/ UNCHANGED vars
  <2>1. UNCHANGED <<cpc, ended, next_buffer, received, srd_status>>
    BY <1>3 DEF ReaderStep, Write, Claim, Copy, FlushCheck, FlushPost, FlushWait, PackReturns,
                DestroyCheck, DestroyPost, DestroyWait, EndClaim, EndPost, Die, Replace, vars, client
  <2>. QED
    BY <2>1 DEF Calls
<1>4. CASE OpenSucceeds \/ OpenFails \/ Take \/ Timeout \/ WorkerIsAlive \/ WorkerIsDead \/ GotEnd
  BY <1>4 DEF OpenSucceeds, OpenFails, Take, Timeout, WorkerIsAlive, WorkerIsDead, GotEnd, Calls
<1>5. CASE GotData \/ Release
  BY <1>5 DEF GotData, Release, Calls
<1>. QED
  BY <1>1, <1>2, <1>3, <1>4, <1>5 DEF Next, ClientStep

(* A stream becomes active when the open succeeds *)
LEMMA ActiveBefore ==
  ASSUME [Next]_vars, Active', ~ OpenSucceeds
  PROVE  Active
<1>1. CASE Open \/ OpenFails \/ Release \/ WorkerIsDead \/ GotEnd \/ Close
  BY <1>1 DEF Open, OpenFails, Release, WorkerIsDead, GotEnd, Close, Active
<1>2. CASE Read \/ Take \/ Timeout \/ WorkerIsAlive \/ GotData
  BY <1>2 DEF Read, Take, Timeout, WorkerIsAlive, GotData, Active
<1>3. CASE ReaderStep \/ Die \/ Replace \/ UNCHANGED vars
  BY <1>3 DEF ReaderStep, Write, Claim, Copy, FlushCheck, FlushPost, FlushWait, PackReturns,
              DestroyCheck, DestroyPost, DestroyWait, EndClaim, EndPost, Die, Replace, vars, client,
              Active
<1>. QED
  BY <1>1, <1>2, <1>3 DEF Next, ClientStep

LEMMA WritingFacts ==
  ASSUME StreamInv, Order, Active, Writing
  PROVE  /\ buffer_nr \in Buffers /\ ~ Pending(buffer_nr) /\ ReaderPlace = buffer_nr
         /\ NrPending = Distance(buffer_nr)
<1>1. buffer_nr \in Buffers /\ buffer_nr # -1 /\ wpc # "idle"
  BY DEF Writing, ReaderOwns, StreamInv, TypeOK
<1>2. ~ Pending(buffer_nr)
  BY <1>1, TokenOfReader DEF Writing, Pending, StreamInv, TypeOK
<1>3. ReaderPlace = buffer_nr
  BY <1>1 DEF ReaderPlace
<1>. QED
  BY <1>1, <1>2, <1>3, DistanceFacts DEF NrPending, StreamInv

(* The reader publishes its buffer *)
LEMMA RingPublish ==
  ASSUME StreamInv, Order, Active, Writing,
         NEW w \in Buffers, w = buffer_nr,
         next_buffer' = next_buffer, ReaderPlace' = Succ(w),
         \A b \in Buffers : Pending(b)' <=> Pending(b) \/ b = w
  PROVE  /\ NrPending' = NrPending + 1 /\ NrPending = Distance(w)
         /\ \A b \in Buffers : Distance(b)' = Distance(b)
         /\ \A b \in Buffers : Pending(b)' <=> Distance(b)' < NrPending'
<1>0. TypeOK /\ NrBuffers \in Nat
  BY StreamConstants DEF StreamInv, TypeOK
<1> PICK n \in Buffers : n = next_buffer
  BY <1>0 DEF TypeOK
<1>1. ~ Pending(w) /\ NrPending = Distance(w)
  BY WritingFacts
<1>2. \A b \in Buffers : Distance(b)' = Distance(b)
  BY DEF Distance
<1>3. /\ Succ(w) \in Buffers /\ (Succ(w) = n <=> Distance(w) = NrBuffers - 1)
      /\ Distance(Succ(w)) = IF Succ(w) = n THEN 0 ELSE Distance(w) + 1
  BY <1>0, SuccFacts, DistanceFacts
<1>4. /\ \A b \in Buffers : Distance(b) \in 0 .. NrBuffers - 1 /\ (Pending(b) <=> Distance(b) < NrPending)
      /\ \A b \in Buffers : Distance(b) = Distance(w) => b = w
      /\ Distance(n) = 0
  BY <1>0, DistanceFacts DEF Order
<1>5. NrPending' = IF Succ(w) # n THEN Distance(Succ(w)) ELSE IF Pending(n)' THEN NrBuffers ELSE 0
  BY <1>2, <1>3 DEF NrPending, Pending, ClientOwns
<1>6. Succ(w) = n => Pending(n)'
  BY <1>0, <1>1, <1>3, <1>4
<1>7. NrPending' = NrPending + 1
  BY <1>0, <1>1, <1>3, <1>4, <1>5, <1>6
<1>8. \A b \in Buffers : Pending(b)' <=> Distance(b)' < NrPending'
  BY <1>0, <1>1, <1>2, <1>4, <1>7
<1>. QED
  BY <1>1, <1>2, <1>7, <1>8

(* The client gives a buffer back *)
LEMMA RingConsume ==
  ASSUME StreamInv, Order, Active,
         NEW n \in Buffers, n = next_buffer, Pending(n),
         next_buffer' = Succ(n), ReaderPlace' = ReaderPlace,
         \A b \in Buffers : Pending(b)' <=> Pending(b) /\ b # n
  PROVE  /\ NrPending' = NrPending - 1 /\ NrPending > 0
         /\ \A b \in Buffers : Distance(b)' = IF b = n THEN NrBuffers - 1 ELSE Distance(b) - 1
         /\ \A b \in Buffers : Pending(b)' <=> Distance(b)' < NrPending'
<1>0. TypeOK /\ NrBuffers \in Nat \ {0} /\ n \in 0 .. NrBuffers - 1 /\ Succ(n) \in Buffers
  BY StreamConstants, SuccFacts DEF StreamInv, TypeOK, Buffers
<1>1. \A b \in Buffers : Distance(b)' = IF b = n THEN NrBuffers - 1 ELSE Distance(b) - 1
  BY <1>0 DEF Distance, Succ, Buffers
<1>2. /\ \A b \in Buffers : Distance(b) \in 0 .. NrBuffers - 1 /\ (Pending(b) <=> Distance(b) < NrPending)
      /\ \A b, c \in Buffers : Distance(b) = Distance(c) => b = c
      /\ Distance(n) = 0
  BY <1>0, DistanceFacts DEF Order
<1>3. NrPending \in 0 .. NrBuffers /\ NrPending > 0 /\ ReaderPlace \in Buffers
  BY <1>0, <1>2, PlaceFacts
<1>4. (Succ(n) = n /\ NrBuffers = 1) \/ (Succ(n) # n /\ Distance(Succ(n)) = 1)
  BY <1>0 DEF Distance, Succ
<1>5. NrPending' = NrPending - 1
  <2> PICK r \in Buffers : r = ReaderPlace
    BY <1>3
  <2>1. NrPending' = IF r # Succ(n) THEN Distance(r)' ELSE IF Pending(Succ(n))' THEN NrBuffers ELSE 0
    BY DEF NrPending, Pending, ClientOwns
  <2>2. NrPending = IF r # n THEN Distance(r) ELSE NrBuffers
    BY DEF NrPending
  <2>3. CASE r = Succ(n)
    <3>1. ~ Pending(Succ(n))'
      BY <1>0, <1>2, <1>4, <2>2, <2>3
    <3>. QED
      BY <1>0, <1>4, <2>1, <2>2, <2>3, <3>1
  <2>4. CASE r # Succ(n)
    BY <1>0, <1>1, <1>2, <1>3, <2>1, <2>2, <2>4
  <2>. QED
    BY <2>3, <2>4
<1>6. \A b \in Buffers : Pending(b)' <=> Distance(b)' < NrPending'
  <2> SUFFICES ASSUME NEW b \in Buffers PROVE Pending(b)' <=> Distance(b)' < NrPending'
    OBVIOUS
  <2>1. CASE b = n
    BY <1>0, <1>1, <1>3, <1>5, <2>1
  <2>2. CASE b # n
    BY <1>0, <1>1, <1>2, <1>3, <1>5, <2>2
  <2>. QED
    BY <2>1, <2>2
<1>. QED
  BY <1>1, <1>3, <1>5, <1>6

(* A new stream has nothing under way *)
LEMMA FlowOpens ==
  ASSUME StreamInv, Data, Calls, OpenSucceeds
  PROVE  Order' /\ Flow' /\ Verdict'
<1>1. /\ \A b \in Buffers : ready_for_read[b] = 0
      /\ wpc = "idle" /\ ~ ended /\ cpc = "opening" /\ next_buffer = 0 /\ received = <<>>
  BY DEF OpenSucceeds, StreamInv, Quiet, Calls
<1>2. /\ wpc' = "pack" /\ buffer_nr' = -1 /\ produced' = 0 /\ cpc' = "between"
      /\ UNCHANGED <<ready_for_read, used, mem, next_buffer, received, req>>
  BY DEF OpenSucceeds, shared, request
<1>3. \A b \in Buffers : ~ Pending(b)'
  BY <1>1, <1>2 DEF Pending, ClientOwns
<1>4. ~ Writing' /\ ReaderPlace' = 0 /\ Published' = 0
  BY <1>2 DEF Writing, ReaderPlace, Published
<1>5. NrPending' = 0
  <2>1. ~ (ready_for_read'[0] > 0 \/ ClientOwns(0)')
    BY <1>3, BuffersFacts DEF Pending
  <2>. QED
    BY <1>1, <1>2, <1>4, <2>1 DEF NrPending, Pending, ClientOwns
<1>6. \A b \in Buffers : Distance(b)' \in Nat
  BY <1>1, <1>2, StreamConstants DEF Distance, Buffers
<1>7. Order'
  BY <1>1, <1>2, <1>3, <1>5, <1>6 DEF Order
<1>8. received' = Answer(req', Len(received')) /\ Len(received') = 0
  BY <1>1, <1>2 DEF Answer
<1>9. Flow'
  BY <1>3, <1>4, <1>5, <1>6, <1>8 DEF Flow
<1>10. Verdict'
  <2>1. data' = data /\ Len(data) \in Nat
    BY DEF OpenSucceeds, request, StreamInv, TypeOK
  <2>. QED
    BY <1>2, <2>1 DEF Verdict
<1>. QED
  BY <1>7, <1>9, <1>10

(* Steps that move no data *)
LEMMA FlowKept ==
  ASSUME StreamInv, Order, Flow, Active,
         UNCHANGED <<used, mem, produced, next_buffer, received, req>>,
         \A b \in Buffers : Pending(b)' <=> Pending(b),
         ReaderPlace' = ReaderPlace, Published' = Published,
         Writing' => used[buffer_nr'] = 0 \/ (Writing /\ buffer_nr' = buffer_nr)
  PROVE  /\ Flow'
         /\ \A b \in Buffers : Pending(b)' <=> Distance(b)' < NrPending'
<1> PICK n \in Buffers : n = next_buffer
  BY DEF StreamInv, TypeOK
<1>1. \A b \in Buffers : Distance(b)' = Distance(b)
  BY DEF Distance
<1>2. Distance(ReaderPlace)' = Distance(ReaderPlace)
  BY DEF Distance
<1>3. NrPending' = NrPending
  <2>1. Pending(n)' <=> Pending(next_buffer)'
    BY DEF Pending, ClientOwns
  <2>2. Pending(next_buffer)' <=> Pending(next_buffer)
    BY <2>1
  <2>. QED
    BY <1>2, <2>2 DEF NrPending
<1>4. \A b \in Buffers : Begins(b)' = Begins(b) /\ Ends(b)' = Ends(b) /\ Begins(Succ(b))' = Begins(Succ(b))
  BY DEF Begins, Ends
<1>5. Begins(next_buffer)' = Begins(next_buffer)
  BY DEF Begins
<1>6. Writing' => \A i \in 1 .. used'[buffer_nr'] : mem'[buffer_nr'][i] = <<req', Published' + i>>
  BY DEF Flow
<1>7. \A b \in Buffers : Pending(b)' =>
         /\ \A i \in 1 .. used'[b] : mem'[b][i] = <<req', Begins(b)' + i>>
         /\ Ends(b)' <= Published'
  BY <1>4 DEF Flow
<1>8. Flow'
  BY <1>1, <1>3, <1>4, <1>5, <1>6, <1>7 DEF Flow
<1>. QED
  BY <1>1, <1>3, <1>8 DEF Order

LEMMA PositionTypes ==
  ASSUME StreamInv, Data
  PROVE  /\ \A b \in Buffers : Begins(b) \in Int /\ Ends(b) \in Int /\ used[b] \in Nat
         /\ Published \in Int /\ produced \in Nat
<1>1. \A b \in Buffers : used[b] \in Nat
  BY DEF StreamInv, TypeOK
<1>2. produced \in Nat /\ buffer_nr \in Buffers \cup {-1}
  BY DEF StreamInv, TypeOK
<1>3. \A b \in Buffers : Begins(b) \in Int
  <2> SUFFICES ASSUME NEW b \in Buffers PROVE Begins(b) \in Int
    OBVIOUS
  <2>1. CASE used[b] > 0
    <3>1. mem[b] \in Seq(Units) /\ Len(mem[b]) \in Nat /\ used[b] <= Len(mem[b])
      BY DEF Data
    <3>2. 1 \in 1 .. Len(mem[b])
      BY <1>1, <2>1, <3>1
    <3>3. mem[b][1] \in Units
      BY <3>1, <3>2
    <3>4. mem[b][1][2] \in Nat
      BY <3>3 DEF Units
    <3>. QED
      BY <2>1, <3>4 DEF Begins
  <2>2. CASE ~ (used[b] > 0)
    BY <1>2, <2>2 DEF Begins
  <2>. QED
    BY <2>1, <2>2
<1>4. Published \in Int
  BY <1>1, <1>2 DEF Published, Writing
<1>. QED
  BY <1>1, <1>2, <1>3, <1>4 DEF Ends

(* A published buffer continues the ones before *)
LEMMA FlowPublish ==
  ASSUME StreamInv, Data, Order, Flow, Active, Writing,
         NEW w \in Buffers, w = buffer_nr,
         UNCHANGED <<used, mem, produced, next_buffer, received, req>>,
         ReaderPlace' = Succ(w), ~ Writing',
         \A b \in Buffers : Pending(b)' <=> Pending(b) \/ b = w
  PROVE  /\ Flow'
         /\ \A b \in Buffers : Pending(b)' <=> Distance(b)' < NrPending'
<1>0. TypeOK
  BY DEF StreamInv
<1> PICK n \in Buffers : n = next_buffer
  BY <1>0 DEF TypeOK
<1>1. /\ NrPending' = NrPending + 1 /\ NrPending = Distance(w)
      /\ \A b \in Buffers : Distance(b)' = Distance(b)
      /\ \A b \in Buffers : Pending(b)' <=> Distance(b)' < NrPending'
  BY RingPublish
<1>2. Published' = produced /\ Published = produced - used[w]
  BY PositionTypes DEF Published
<1>3. \A b \in Buffers : Begins(b)' = Begins(b) /\ Ends(b)' = Ends(b) /\ Begins(Succ(b))' = Begins(Succ(b))
  BY DEF Begins, Ends
<1>4. /\ \A b \in Buffers : Begins(b) \in Int /\ Ends(b) \in Int /\ used[b] \in Nat
      /\ Published \in Int /\ produced \in Nat
  BY PositionTypes
<1>5. Begins(w) = Published /\ Ends(w) = produced
  <2>1. CASE used[w] > 0
    <3>1. mem[w][1] = <<req, Published + 1>>
      BY <1>4, <2>1 DEF Flow
    <3>. QED
      BY <1>2, <1>4, <2>1, <3>1 DEF Begins, Ends
  <2>2. CASE used[w] = 0
    BY <1>2, <1>4, <2>2 DEF Begins, Ends
  <2>. QED
    BY <1>4, <2>1, <2>2
<1>6. /\ \A b, c \in Buffers : Distance(b) = Distance(c) => b = c
      /\ \A b \in Buffers : Distance(b) \in Nat /\ Succ(b) \in Buffers
      /\ Distance(n) = 0
  BY <1>0, DistanceFacts, SuccFacts
<1>7. \A b \in Buffers : Pending(b)' =>
         /\ \A i \in 1 .. used'[b] : mem'[b][i] = <<req', Begins(b)' + i>>
         /\ Ends(b)' <= Published'
  <2> SUFFICES ASSUME NEW b \in Buffers, Pending(b)'
               PROVE  /\ \A i \in 1 .. used[b] : mem[b][i] = <<req, Begins(b) + i>>
                      /\ Ends(b) <= produced
    BY <1>2, <1>3
  <2>1. CASE Pending(b)
    <3>1. Ends(b) <= Published /\ \A i \in 1 .. used[b] : mem[b][i] = <<req, Begins(b) + i>>
      BY <2>1 DEF Flow
    <3>2. used[w] \in Nat /\ Ends(b) \in Int
      BY <1>4
    <3>. QED
      BY <1>2, <1>4, <3>1, <3>2
  <2>2. CASE b = w
    BY <1>4, <1>5, <2>2 DEF Flow
  <2>. QED
    BY <2>1, <2>2
<1>8. Begins(n)' = Len(received')
  <2>1. CASE NrPending = 0
    BY <1>1, <1>3, <1>5, <1>6, <2>1 DEF Flow
  <2>2. CASE NrPending # 0
    BY <1>1, <1>3, <1>6, <2>2 DEF Flow
  <2>. QED
    BY <2>1, <2>2
<1>9. ASSUME NEW b \in Buffers, Distance(b)' + 1 = NrPending' PROVE Ends(b)' = Published'
  <2>1. b = w
    BY <1>1, <1>6, <1>9
  <2>. QED
    BY <1>2, <1>3, <1>5, <2>1
<1>10. ASSUME NEW b \in Buffers, Distance(b)' + 1 < NrPending' PROVE Ends(b)' = Begins(Succ(b))'
  <2>1. CASE Distance(b) + 1 < NrPending
    BY <1>3, <2>1 DEF Flow
  <2>2. CASE Distance(b) + 1 = NrPending
    <3>1. Succ(b) = w
      <4>1. Distance(b) # NrBuffers - 1
        BY <1>0, <1>1, <1>6, <2>2, DistanceFacts, StreamConstants
      <4>2. Distance(Succ(b)) = Distance(w)
        BY <1>0, <1>1, <2>2, <4>1, DistanceFacts
      <4>. QED
        BY <1>6, <4>2
    <3>. QED
      BY <1>3, <1>5, <2>2, <3>1 DEF Flow
  <2>. QED
    BY <1>1, <1>6, <1>10, <2>1, <2>2
<1>11. Begins(next_buffer)' = Begins(n)'
  BY DEF Begins
<1>12. Flow'
  <2>1. NrPending' > 0 /\ NrPending' # 0
    BY <1>1, <1>6
  <2>2. received' = Answer(req', Len(received'))
    BY DEF Flow
  <2>. QED
    BY <1>7, <1>8, <1>9, <1>10, <1>11, <2>1, <2>2 DEF Flow
<1>. QED
  BY <1>1, <1>12

LEMMA AnswerContinued ==
  ASSUME NEW r \in {0, 1}, NEW m \in Nat, NEW k \in Nat, NEW s \in Seq(Units), k <= Len(s),
         \A i \in 1 .. k : s[i] = <<r, m + i>>
  PROVE  Answer(r, m) \o SubSeq(s, 1, k) = Answer(r, m + k)
<1> DEFINE a == Answer(r, m)  t == SubSeq(s, 1, k)  c == Answer(r, m + k)
<1>1. a \in Seq(Units) /\ Len(a) = m /\ \A i \in 1 .. m : a[i] = <<r, i>>
  BY AnswerFacts
<1>2. c \in Seq(Units) /\ Len(c) = m + k /\ \A i \in 1 .. m + k : c[i] = <<r, i>>
  <2>1. m + k \in Nat
    OBVIOUS
  <2>. QED
    BY <2>1, AnswerFacts
<1>3. t \in Seq(Units) /\ Len(t) = k /\ \A i \in 1 .. k : t[i] = s[i]
  <2>1. Len(s) \in Nat /\ \A i \in 1 .. k : s[i] \in Units
    OBVIOUS
  <2>2. /\ t \in Seq(Units) /\ Len(t) = IF 1 <= k THEN k - 1 + 1 ELSE 0
        /\ \A i \in 1 .. k - 1 + 1 : t[i] = s[1 + i - 1]
    BY <2>1, SubSeqProperties
  <2>. QED
    BY <2>2
<1> HIDE DEF a, t, c
<1>4. /\ a \o t \in Seq(Units) /\ Len(a \o t) = m + k
      /\ \A i \in 1 .. m + k : (a \o t)[i] = IF i <= m THEN a[i] ELSE t[i - m]
  BY <1>1, <1>3, ConcatProperties, ZenonT(40)
<1>5. \A i \in 1 .. m + k : (a \o t)[i] = c[i]
  <2> SUFFICES ASSUME NEW i \in 1 .. m + k PROVE (a \o t)[i] = c[i]
    OBVIOUS
  <2>0. c[i] = <<r, i>> /\ (a \o t)[i] = IF i <= m THEN a[i] ELSE t[i - m]
    BY <1>2, <1>4
  <2>1. CASE i <= m
    <3>1. i \in 1 .. m
      BY <2>1
    <3>. QED
      BY <1>1, <2>0, <2>1, <3>1
  <2>2. CASE ~ (i <= m)
    <3>1. i - m \in 1 .. k /\ m + (i - m) = i
      BY <2>2
    <3>2. t[i - m] = <<r, m + (i - m)>>
      BY <1>3, <3>1
    <3>. QED
      BY <2>0, <2>2, <3>1, <3>2
  <2>. QED
    BY <2>1, <2>2
<1>6. a \o t = c
  BY <1>2, <1>4, <1>5, SeqEqual
<1>. QED
  BY <1>6 DEF a, t, c

(* Copying extends the reader's own buffer only *)
LEMMA FlowCopy ==
  ASSUME StreamInv, Data, Order, Flow, Active, Copy
  PROVE  /\ Flow'
         /\ \A b \in Buffers : Pending(b)' <=> Distance(b)' < NrPending'
<1>0. TypeOK /\ req \in {0, 1}
  BY DEF StreamInv, TypeOK
<1> PICK n \in Buffers : n = next_buffer
  BY <1>0 DEF TypeOK
<1>1. buffer_nr \in Buffers /\ buffer_nr # -1 /\ ReaderOwns(buffer_nr)
  BY CopyData, BuffersFacts
<1> PICK w \in Buffers : w = buffer_nr
  BY <1>1
<1> PICK u \in Nat : u = used[w]
  BY <1>0 DEF TypeOK
<1>2. PICK k \in Nat :
        /\ k > 0 /\ produced' = produced + k
        /\ used' = [used EXCEPT ![w] = u + k]
        /\ \A i \in 1 .. u : mem'[w][i] = mem[w][i]
        /\ \A i \in u + 1 .. u + k : mem'[w][i] = <<req, produced + i - u>>
        /\ \A b \in Buffers : b # w => mem'[b] = mem[b]
  BY CopyData
<1>3. /\ UNCHANGED <<buffer_nr, next_buffer, received, req, cpc, ready_for_read>>
      /\ wpc = "copy" /\ wpc' \in {"flush", "pack", "copy"}
  BY DEF Copy, client, request
<1>4. \A b \in Buffers : Pending(b)' <=> Pending(b)
  BY <1>3 DEF Pending, ClientOwns
<1>5. Writing /\ Writing' /\ ReaderPlace' = w /\ ReaderPlace = w
  BY <1>1, <1>3 DEF Writing, ReaderOwns, ReaderPlace
<1>6. used'[w] = u + k /\ \A b \in Buffers : b # w => used'[b] = used[b]
  BY <1>0, <1>2 DEF TypeOK
<1>7. produced \in Nat /\ Published = produced - u /\ Published' = Published
  BY <1>0, <1>2, <1>3, <1>5, <1>6 DEF Published, TypeOK
<1>8. \A b \in Buffers : Distance(b)' = Distance(b)
  BY <1>3 DEF Distance
<1>9. NrPending' = NrPending
  <2>1. NrPending = IF w # n THEN Distance(w) ELSE IF Pending(n) THEN NrBuffers ELSE 0
    BY <1>5 DEF NrPending
  <2>2. NrPending' = IF w # n THEN Distance(w)' ELSE IF Pending(n)' THEN NrBuffers ELSE 0
    BY <1>3, <1>5 DEF NrPending, Pending, ClientOwns
  <2>. QED
    BY <1>4, <1>8, <2>1, <2>2
<1>10. ASSUME NEW b \in Buffers, Pending(b)
       PROVE  /\ Begins(b)' = Begins(b) /\ Ends(b)' = Ends(b)
              /\ used'[b] = used[b] /\ mem'[b] = mem[b]
  <2>1. b # w
    BY <1>5, <1>10, WritingFacts
  <2>2. used[b] # 0 /\ used[b] \in Nat
    BY <1>0, <1>3, <1>10 DEF StreamInv, EmptyIsLast, Pending, TypeOK
  <2>. QED
    BY <1>2, <1>6, <2>1, <2>2 DEF Begins, Ends
<1>11. \A b \in Buffers : Distance(b) \in Nat /\ (Pending(b) <=> Distance(b) < NrPending)
  BY <1>0, DistanceFacts DEF Order
<1>12. NrPending \in Nat /\ NrPending <= NrBuffers /\ NrBuffers \in Nat
  BY <1>0, PlaceFacts, StreamConstants
<1>13. \A b \in Buffers : Pending(b)' =>
         /\ \A i \in 1 .. used'[b] : mem'[b][i] = <<req', Begins(b)' + i>>
         /\ Ends(b)' <= Published'
  BY <1>3, <1>4, <1>7, <1>10 DEF Flow
<1>14. \A i \in 1 .. used'[buffer_nr'] : mem'[buffer_nr'][i] = <<req', Published' + i>>
  <2> SUFFICES ASSUME NEW i \in 1 .. u + k PROVE mem'[w][i] = <<req, Published + i>>
    BY <1>3, <1>6, <1>7
  <2>1. CASE i <= u
    <3>1. i \in 1 .. u
      BY <2>1
    <3>2. mem[w][i] = <<req, Published + i>>
      BY <1>5, <3>1 DEF Flow
    <3>. QED
      BY <1>2, <3>1, <3>2
  <2>2. CASE i > u
    <3>1. i \in u + 1 .. u + k /\ produced + i - u = Published + i
      BY <1>7, <2>2
    <3>. QED
      BY <1>2, <3>1
  <2>. QED
    BY <2>1, <2>2
<1>15. NrPending > 0 => Begins(n)' = Begins(n)
  BY <1>0, <1>10, <1>11, DistanceFacts
<1>16. Begins(next_buffer)' = Begins(n)'
  BY <1>3 DEF Begins
<1>17. ASSUME NEW b \in Buffers, Distance(b) + 1 < NrPending PROVE Ends(b)' = Begins(Succ(b))'
  <2>1. Succ(b) \in Buffers /\ Distance(Succ(b)) = Distance(b) + 1
    BY <1>0, <1>11, <1>12, <1>17, SuccFacts, DistanceFacts
  <2>2. Pending(b) /\ Pending(Succ(b))
    BY <1>11, <1>12, <1>17, <2>1
  <2>. QED
    BY <1>10, <1>17, <2>1, <2>2 DEF Flow
<1>18. ASSUME NEW b \in Buffers, Distance(b) + 1 = NrPending PROVE Ends(b)' = Published'
  <2>1. Pending(b)
    BY <1>11, <1>12, <1>18
  <2>. QED
    BY <1>7, <1>10, <1>18, <2>1 DEF Flow
<1>19. received' = Answer(req', Len(received')) /\ (NrPending = 0 => Len(received') = Published')
  BY <1>3, <1>7 DEF Flow
<1>20. NrPending > 0 => Begins(next_buffer)' = Len(received')
  BY <1>3, <1>15, <1>16 DEF Flow
<1>21. Flow'
  BY <1>8, <1>9, <1>13, <1>14, <1>17, <1>18, <1>19, <1>20 DEF Flow
<1>. QED
  BY <1>4, <1>8, <1>9, <1>11, <1>21

(* What the client copies continues what it has *)
LEMMA FlowConsume ==
  ASSUME StreamInv, Data, Order, Flow, Verdict, Active, GotData
  PROVE  /\ Flow'
         /\ \A b \in Buffers : Pending(b)' <=> Distance(b)' < NrPending'
         /\ received' = Answer(req, Len(received')) /\ Len(received) < Len(received')
         /\ Len(received') <= Len(data) /\ Len(received) \in Nat /\ Len(received') \in Nat
<1>0. TypeOK /\ req \in {0, 1}
  BY DEF StreamInv, TypeOK
<1> PICK n \in Buffers : n = next_buffer
  BY <1>0 DEF TypeOK
<1>1. /\ cpc = "got" /\ used[n] # 0 /\ cpc' = "between"
      /\ received' = received \o SubSeq(mem[n], 1, used[n])
      /\ used' = [used EXCEPT ![n] = 0] /\ next_buffer' = Succ(n)
      /\ UNCHANGED <<ready_for_read, mem, wpc, buffer_nr, produced, req>>
  BY SuccFacts DEF GotData, Active, writer, request
<1>2. ClientOwns(n) /\ Pending(n) /\ ~ ReaderOwns(n) /\ ready_for_read[n] = 0
  BY <1>1, TokenOfClient DEF ClientOwns, Pending
<1>3. \A b \in Buffers : Pending(b)' <=> Pending(b) /\ b # n
  BY <1>0, <1>1, <1>2 DEF Pending, ClientOwns, TypeOK
<1>4. ReaderPlace' = ReaderPlace
  BY <1>1 DEF ReaderPlace
<1>5. /\ NrPending' = NrPending - 1 /\ NrPending > 0
      /\ \A b \in Buffers : Distance(b)' = IF b = n THEN NrBuffers - 1 ELSE Distance(b) - 1
      /\ \A b \in Buffers : Pending(b)' <=> Distance(b)' < NrPending'
  BY <1>1, <1>2, <1>3, <1>4, RingConsume
<1>6. /\ \A b \in Buffers : Distance(b) \in 0 .. NrBuffers - 1 /\ Succ(b) \in Buffers
      /\ \A b \in Buffers :
           Distance(Succ(b)) = IF Distance(b) = NrBuffers - 1 THEN 0 ELSE Distance(b) + 1
      /\ Distance(n) = 0 /\ NrPending \in 0 .. NrBuffers /\ NrBuffers \in Nat
  BY <1>0, DistanceFacts, PlaceFacts, SuccFacts, StreamConstants
<1>7. \A b \in Buffers : b # n => used'[b] = used[b] /\ Begins(b)' = Begins(b) /\ Ends(b)' = Ends(b)
  BY <1>0, <1>1 DEF Begins, Ends, TypeOK
<1>8. /\ \A b \in Buffers : Begins(b) \in Int /\ Ends(b) \in Int /\ used[b] \in Nat
      /\ Published \in Int /\ produced \in Nat
  BY PositionTypes
<1>9. Writing' = Writing /\ (Writing => buffer_nr # n /\ buffer_nr \in Buffers) /\ Published' = Published
  <2>1. Writing' = Writing
    BY <1>1 DEF Writing, ReaderOwns
  <2>2. Writing => buffer_nr # n /\ buffer_nr \in Buffers
    BY <1>0, <1>2 DEF Writing, TypeOK
  <2>. QED
    BY <1>1, <1>7, <2>1, <2>2 DEF Published
<1>10. /\ received = Answer(req, Len(received)) /\ Len(received) \in Nat
       /\ Begins(n) = Len(received) /\ Ends(n) = Len(received) + used[n]
       /\ \A i \in 1 .. used[n] : mem[n][i] = <<req, Len(received) + i>>
       /\ Ends(n) <= Published
  <2>1. received = Answer(req, Len(received)) /\ Begins(n) = Len(received)
    BY <1>5 DEF Flow
  <2>2. Len(received) \in Nat
    BY <2>1 DEF Answer
  <2>. QED
    BY <1>2, <2>1, <2>2 DEF Flow, Ends
<1>11. /\ received' = Answer(req, Ends(n)) /\ Len(received') = Ends(n) /\ Ends(n) \in Nat
       /\ Len(received) < Ends(n)
  <2>1. mem[n] \in Seq(Units) /\ used[n] <= Len(mem[n]) /\ used[n] \in Nat /\ used[n] > 0
    BY <1>1, <1>8 DEF Data
  <2>2. Answer(req, Len(received)) \o SubSeq(mem[n], 1, used[n]) = Answer(req, Len(received) + used[n])
    BY <1>0, <1>10, <2>1, AnswerContinued
  <2>3. received' = Answer(req, Ends(n))
    BY <1>1, <1>10, <2>2
  <2>4. Ends(n) \in Nat /\ Len(received) < Ends(n)
    BY <1>10, <2>1
  <2>. QED
    BY <1>0, <2>3, <2>4, AnswerFacts
<1>12. Ends(n) <= Len(data)
  <2>1. Len(data) \in Nat /\ produced <= Len(data)
    BY <1>0 DEF Verdict, TypeOK
  <2>2. Published <= produced
    <3>1. CASE Writing
      <4>1. used[buffer_nr] \in Nat
        BY <1>8, <1>9, <3>1
      <4>. QED
        BY <1>8, <3>1, <4>1 DEF Published
    <3>2. CASE ~ Writing
      BY <1>8, <3>2 DEF Published
    <3>. QED
      BY <3>1, <3>2
  <2>. QED
    BY <1>8, <1>10, <2>1, <2>2
<1>13. \A b \in Buffers : Pending(b)' =>
         /\ \A i \in 1 .. used'[b] : mem'[b][i] = <<req', Begins(b)' + i>>
         /\ Ends(b)' <= Published'
  <2> SUFFICES ASSUME NEW b \in Buffers, Pending(b), b # n
               PROVE  /\ \A i \in 1 .. used'[b] : mem'[b][i] = <<req', Begins(b)' + i>>
                      /\ Ends(b)' <= Published'
    BY <1>3
  <2>. QED
    BY <1>1, <1>7, <1>9 DEF Flow
<1>14. Writing' => \A i \in 1 .. used'[buffer_nr'] : mem'[buffer_nr'][i] = <<req', Published' + i>>
  <2> SUFFICES ASSUME Writing
               PROVE  \A i \in 1 .. used'[buffer_nr] : mem[buffer_nr][i] = <<req, Published + i>>
    BY <1>1, <1>9
  <2>1. used'[buffer_nr] = used[buffer_nr]
    BY <1>7, <1>9
  <2>. QED
    BY <2>1 DEF Flow
<1>15. NrPending' = 0 => Len(received') = Published'
  <2> SUFFICES ASSUME NrPending = 1 PROVE Ends(n) = Published
    BY <1>5, <1>6, <1>9, <1>11
  <2>1. Distance(n) + 1 = NrPending
    BY <1>6
  <2>. QED
    BY <2>1 DEF Flow
<1>16. NrPending' > 0 => Begins(next_buffer)' = Len(received')
  <2> SUFFICES ASSUME NrPending > 1 PROVE Begins(Succ(n))' = Ends(n)
    <3>1. Begins(next_buffer)' = Begins(Succ(n))'
      BY <1>1 DEF Begins
    <3>. QED
      BY <1>5, <1>6, <1>11, <3>1
  <2>1. Distance(n) + 1 < NrPending /\ Distance(Succ(n)) = 1
    BY <1>6
  <2>2. Succ(n) \in Buffers /\ Succ(n) # n
    BY <1>6, <2>1
  <2>. QED
    BY <1>7, <2>1, <2>2 DEF Flow
<1>17. ASSUME NEW b \in Buffers, Distance(b)' + 1 = NrPending' PROVE Ends(b)' = Published'
  <2>1. b # n
    BY <1>5, <1>6, <1>17
  <2>2. Distance(b) + 1 = NrPending
    BY <1>5, <1>6, <1>17, <2>1
  <2>. QED
    BY <1>7, <1>9, <2>1, <2>2 DEF Flow
<1>18. ASSUME NEW b \in Buffers, Distance(b)' + 1 < NrPending' PROVE Ends(b)' = Begins(Succ(b))'
  <2>1. b # n
    BY <1>5, <1>6, <1>18
  <2>2. Distance(b) + 1 < NrPending
    BY <1>5, <1>6, <1>18, <2>1
  <2>3. Succ(b) \in Buffers /\ Distance(Succ(b)) # 0
    BY <1>6, <2>2
  <2>4. Succ(b) # n
    BY <1>6, <2>3
  <2>. QED
    BY <1>7, <2>1, <2>2, <2>3, <2>4 DEF Flow
<1>19. received' = Answer(req', Len(received'))
  BY <1>1, <1>11
<1>20. Flow'
  BY <1>13, <1>14, <1>15, <1>16, <1>17, <1>18, <1>19 DEF Flow
<1>. QED
  BY <1>1, <1>5, <1>10, <1>11, <1>12, <1>19, <1>20

LEMMA FlowReader ==
  ASSUME StreamInv, Order, Flow, Active,
         Write \/ FlushCheck \/ PackReturns \/ DestroyCheck
  PROVE  Order' /\ Flow'
<1>1. /\ UNCHANGED <<used, mem, produced, next_buffer, received, req, buffer_nr, cpc, ready_for_read>>
      /\ wpc \in {"pack", "flush", "destroy"}
      /\ wpc' \in {"claim", "copy", "post", "destroy", "destroypost", "end"}
      /\ buffer_nr # -1 => wpc' # "claim"
      /\ wpc' = "end" /\ buffer_nr # -1 => used[buffer_nr] = 0
  <2>1. buffer_nr # -1 => ~ (buffer_nr < 0) /\ buffer_nr >= 0
    BY BuffersFacts DEF StreamInv, TypeOK, Buffers
  <2>. QED
    BY <2>1 DEF Write, FlushCheck, PackReturns, DestroyCheck, shared, client, request, Active
<1>2. \A b \in Buffers : Pending(b)' <=> Pending(b)
  BY <1>1 DEF Pending, ClientOwns
<1>3. (Writing' <=> Writing) /\ ReaderPlace' = ReaderPlace
  BY <1>1 DEF Writing, ReaderOwns, ReaderPlace
<1>4. Published' = Published
  BY <1>1, <1>3 DEF Published
<1>5. Flow' /\ \A b \in Buffers : Pending(b)' <=> Distance(b)' < NrPending'
  BY <1>1, <1>2, <1>3, <1>4, FlowKept
<1>. QED
  BY <1>1, <1>2, <1>5 DEF Order

LEMMA FlowAcquire ==
  ASSUME StreamInv, Order, Flow, Active,
         Claim \/ FlushWait \/ DestroyWait \/ EndClaim
  PROVE  Order' /\ Flow'
<1>0. TypeOK /\ HasBuffer
  BY DEF StreamInv
<1>1. /\ UNCHANGED <<mem, produced, next_buffer, received, req, cpc, ready_for_read>>
      /\ wpc # "idle" /\ wpc' \in {"copy", "pack", "end"}
  BY DEF Claim, FlushWait, DestroyWait, EndClaim, client, request
<1>2. /\ buffer_nr' \in Buffers /\ buffer_nr' # -1 /\ ready_for_write[buffer_nr'] > 0
      /\ buffer_nr' = IF buffer_nr = -1 THEN 0 ELSE buffer_nr
  <2>1. CASE Claim \/ EndClaim
    <3>1. buffer_nr = -1
      BY <1>0, <2>1, BuffersFacts DEF Claim, EndClaim, HasBuffer, TypeOK
    <3>. QED
      BY <2>1, <3>1, BuffersFacts DEF Claim, EndClaim
  <2>2. CASE FlushWait \/ DestroyWait
    BY <1>0, <2>2, BuffersFacts DEF FlushWait, DestroyWait, HasBuffer
  <2>. QED
    BY <2>1, <2>2
<1>3. used[buffer_nr'] = 0
  BY <1>2 DEF StreamInv, Fill
<1>4. used' = used
  <2>1. CASE Claim
    BY <1>0, <1>2, <1>3, <2>1, BuffersFacts DEF Claim, TypeOK
  <2>2. CASE FlushWait \/ DestroyWait \/ EndClaim
    BY <2>2 DEF FlushWait, DestroyWait, EndClaim
  <2>. QED
    BY <2>1, <2>2
<1>5. ~ Writing
  BY <1>2, TokenOfWriteSemaphore DEF Writing
<1>6. \A b \in Buffers : Pending(b)' <=> Pending(b)
  BY <1>1 DEF Pending, ClientOwns
<1>7. ReaderPlace' = ReaderPlace
  BY <1>1, <1>2 DEF ReaderPlace
<1>8. Published' = Published
  BY <1>0, <1>1, <1>3, <1>4, <1>5 DEF Published, TypeOK
<1>9. Flow' /\ \A b \in Buffers : Pending(b)' <=> Distance(b)' < NrPending'
  BY <1>1, <1>3, <1>4, <1>6, <1>7, <1>8, FlowKept
<1>10. \A b \in Buffers : Pending(b) => used[b] # 0
  BY <1>1 DEF StreamInv, EmptyIsLast, Pending
<1>. QED
  BY <1>2, <1>3, <1>4, <1>6, <1>9, <1>10 DEF Order

LEMMA FlowClient ==
  ASSUME StreamInv, Order, Flow, Active,
         Read \/ Take \/ Timeout \/ WorkerIsAlive \/ Die \/ UNCHANGED vars
  PROVE  Order' /\ Flow'
<1>0. TypeOK
  BY DEF StreamInv
<1>1. UNCHANGED <<used, mem, produced, next_buffer, received, req, buffer_nr, wpc>>
  BY DEF Read, Take, Timeout, WorkerIsAlive, Die, vars, shared, writer, client, request
<1>2. \A b \in Buffers : Pending(b)' <=> Pending(b)
  <2>1. CASE Take
    BY <1>0, <2>1 DEF Take, Pending, ClientOwns, TypeOK
  <2>2. CASE Read \/ Timeout \/ WorkerIsAlive \/ Die \/ UNCHANGED vars
    <3>1. ready_for_read' = ready_for_read /\ (cpc' = "got" <=> cpc = "got")
      BY <2>2 DEF Read, Timeout, WorkerIsAlive, Die, vars, shared, client
    <3>. QED
      BY <1>1, <3>1 DEF Pending, ClientOwns
  <2>. QED
    BY <2>1, <2>2
<1>3. (Writing' <=> Writing) /\ ReaderPlace' = ReaderPlace
  BY <1>1 DEF Writing, ReaderOwns, ReaderPlace
<1>4. Published' = Published
  BY <1>1, <1>3 DEF Published
<1>5. Flow' /\ \A b \in Buffers : Pending(b)' <=> Distance(b)' < NrPending'
  BY <1>1, <1>2, <1>3, <1>4, FlowKept
<1>. QED
  BY <1>1, <1>2, <1>5 DEF Order

LEMMA FlowPost ==
  ASSUME StreamInv, Data, Order, Flow, Active,
         FlushPost \/ DestroyPost \/ EndPost
  PROVE  Order' /\ Flow'
<1>0. TypeOK /\ HasBuffer
  BY DEF StreamInv
<1>1. buffer_nr \in Buffers /\ buffer_nr # -1 /\ wpc \in {"post", "destroypost", "end"}
  BY <1>0, BuffersFacts DEF FlushPost, DestroyPost, EndPost, HasBuffer, TypeOK
<1> PICK w \in Buffers : w = buffer_nr
  BY <1>1
<1>2. Writing
  BY <1>1 DEF Writing, ReaderOwns
<1>3. UNCHANGED <<used, mem, produced, next_buffer, received, req>>
  <2>1. CASE FlushPost \/ DestroyPost
    BY <2>1 DEF FlushPost, DestroyPost, client, request
  <2>2. CASE EndPost
    <3>1. used[w] = 0
      BY <1>1, <2>2 DEF Order, EndPost
    <3>. QED
      BY <1>0, <2>2, <3>1 DEF EndPost, client, request, TypeOK
  <2>. QED
    BY <2>1, <2>2
<1>4. /\ ready_for_read' = [ready_for_read EXCEPT ![w] = @ + 1] /\ cpc' = cpc
      /\ wpc' \in {"wait", "destroywait", "idle"}
      /\ buffer_nr' = IF wpc' = "idle" THEN w ELSE Succ(w)
  BY SuccFacts DEF FlushPost, DestroyPost, EndPost, Publish, client
<1>5. \A b \in Buffers : Pending(b)' <=> Pending(b) \/ b = w
  BY <1>0, <1>3, <1>4 DEF Pending, ClientOwns, TypeOK
<1>6. ReaderPlace' = Succ(w) /\ ~ Writing' /\ buffer_nr' # -1
  BY <1>1, <1>4, SuccFacts, BuffersFacts DEF ReaderPlace, Writing, ReaderOwns
<1>7. Flow' /\ \A b \in Buffers : Pending(b)' <=> Distance(b)' < NrPending'
  BY <1>2, <1>3, <1>5, <1>6, FlowPublish
<1>8. \A b \in Buffers : Pending(b) => used[b] # 0
  BY <1>1 DEF StreamInv, EmptyIsLast, Pending
<1>9. wpc' # "idle" => used[w] # 0
  BY <1>0 DEF StreamInv, Fill, FlushPost, DestroyPost, EndPost
<1>. QED
  BY <1>3, <1>4, <1>5, <1>6, <1>7, <1>8, <1>9 DEF Order

LEMMA FlowNext == StreamInv /\ DataInv /\ [Next]_vars => Order' /\ Flow'
<1> SUFFICES ASSUME StreamInv, DataInv, [Next]_vars, Active' PROVE Order' /\ Flow'
  BY DEF Order, Flow
<1>0. Data /\ Calls /\ Order /\ Flow /\ Verdict
  BY DEF DataInv
<1>1. CASE OpenSucceeds
  BY <1>0, <1>1, FlowOpens
<1>2. CASE ~ OpenSucceeds
  <2>1. Active
    BY <1>2, ActiveBefore
  <2>2. CASE Copy
    <3>1. Flow' /\ \A b \in Buffers : Pending(b)' <=> Distance(b)' < NrPending'
      BY <1>0, <2>1, <2>2, FlowCopy
    <3>2. wpc' \in {"flush", "pack", "copy"} /\ buffer_nr' = buffer_nr /\ buffer_nr # -1
      BY <2>2, BuffersFacts DEF Copy, StreamInv, HasBuffer
    <3>3. \A b \in Buffers : Pending(b)' => used'[b] # 0
      BY <3>2, EmptyIsLastNext DEF EmptyIsLast, Pending
    <3>. QED
      BY <3>1, <3>2, <3>3 DEF Order
  <2>3. CASE GotData
    <3>1. Flow' /\ \A b \in Buffers : Pending(b)' <=> Distance(b)' < NrPending'
      BY <1>0, <2>1, <2>3, FlowConsume
    <3> PICK n \in Buffers : n = next_buffer
      BY DEF StreamInv, TypeOK
    <3>2. /\ wpc' = wpc /\ buffer_nr' = buffer_nr /\ used' = [used EXCEPT ![n] = 0]
          /\ ready_for_read' = ready_for_read /\ cpc' # "got" /\ cpc = "got"
      BY <2>1, <2>3 DEF GotData, writer, Active
    <3>3. \A b \in Buffers : Pending(b)' => Pending(b) /\ b # n
      BY <3>2, TokenOfClient DEF Pending, ClientOwns, StreamInv, TypeOK
    <3>4. \A b \in Buffers : used'[b] = IF b = n THEN 0 ELSE used[b]
      BY <3>2 DEF StreamInv, TypeOK
    <3>5. buffer_nr # -1 /\ buffer_nr \in Buffers
      <4>1. Pending(n)
        BY <3>2 DEF Pending, ClientOwns
      <4>. QED
        BY <1>0, <2>1, <4>1 DEF Order, StreamInv, TypeOK
    <3>. QED
      BY <1>0, <2>1, <3>1, <3>2, <3>3, <3>4, <3>5 DEF Order
  <2>4. ~ (Open \/ OpenFails \/ Release \/ Replace \/ Close \/ WorkerIsDead \/ GotEnd)
    BY <2>1 DEF Open, OpenFails, Release, Replace, Close, WorkerIsDead, GotEnd, Active
  <2>. QED
    BY <1>0, <1>2, <2>1, <2>2, <2>3, <2>4, FlowReader, FlowAcquire, FlowClient, FlowPost
       DEF Next, ReaderStep, ClientStep
<1>. QED
  BY <1>1, <1>2

LEMMA VerdictNext == StreamInv /\ DataInv /\ [Next]_vars => Verdict'
<1> SUFFICES ASSUME StreamInv, DataInv, [Next]_vars, Active' PROVE Verdict'
  BY DEF Verdict
<1>0. Data /\ Calls /\ Verdict /\ TypeOK
  BY DEF DataInv, StreamInv
<1>1. CASE OpenSucceeds
  BY <1>0, <1>1, FlowOpens
<1>2. CASE ~ OpenSucceeds
  <2>1. Active /\ produced <= Len(data)
    BY <1>0, <1>2, ActiveBefore DEF Verdict
  <2>2. CASE Copy
    <3>1. data' = data /\ wpc' \in {"flush", "pack", "copy"}
      BY <2>2 DEF Copy, request
    <3>2. produced' <= Len(data)
      <4>1. PICK n \in Nat : produced' = produced + n /\ produced + n + left' <= Len(data) /\ left' \in Nat
        BY <1>0, <2>2, CopyData
      <4>. QED
        BY <1>0, <4>1 DEF TypeOK
    <3>. QED
      BY <3>1, <3>2 DEF Verdict
  <2>3. CASE Write \/ Claim \/ FlushCheck \/ FlushPost \/ FlushWait
    <3>1. UNCHANGED <<data, produced>> /\ wpc' \in {"claim", "copy", "post", "wait", "pack"}
      BY <2>1, <2>3 DEF Write, Claim, FlushCheck, FlushPost, FlushWait, request, Active
    <3>. QED
      BY <2>1, <3>1 DEF Verdict
  <2>4. CASE PackReturns
    BY <2>1, <2>4 DEF PackReturns, request, Verdict
  <2>5. CASE DestroyCheck \/ DestroyPost \/ DestroyWait \/ EndClaim
    <3>1. /\ UNCHANGED <<data, produced, ret>> /\ wpc' # "idle"
          /\ wpc \in {"destroy", "destroypost", "destroywait", "end"}
      BY <2>5 DEF DestroyCheck, DestroyPost, DestroyWait, EndClaim, request
    <3>. QED
      BY <1>0, <2>1, <3>1 DEF Verdict
  <2>6. CASE EndPost
    <3>1. /\ UNCHANGED <<data, produced, ret, buffer_nr>> /\ wpc = "end"
          /\ status' = [status EXCEPT ![buffer_nr] = ret] /\ buffer_nr \in Buffers
      BY <1>0, <2>6, BuffersFacts DEF EndPost, request, TypeOK
    <3>2. status'[buffer_nr'] = ret'
      BY <1>0, <3>1 DEF TypeOK
    <3>. QED
      BY <1>0, <2>1, <3>1, <3>2 DEF Verdict
  <2>7. CASE Read \/ Take \/ Timeout \/ WorkerIsAlive \/ GotData \/ Die \/ UNCHANGED vars
    <3>1. UNCHANGED <<data, produced, ret, buffer_nr, status, wpc>>
      BY <2>7 DEF Read, Take, Timeout, WorkerIsAlive, GotData, Die, vars, shared, writer, request
    <3>. QED
      BY <1>0, <2>1, <3>1 DEF Verdict
  <2>8. ~ (Open \/ OpenFails \/ Release \/ Replace \/ Close \/ WorkerIsDead \/ GotEnd)
    BY <2>1 DEF Open, OpenFails, Release, Replace, Close, WorkerIsDead, GotEnd, Active
  <2>. QED
    BY <1>2, <2>2, <2>3, <2>4, <2>5, <2>6, <2>7, <2>8 DEF Next, ReaderStep, ClientStep
<1>. QED
  BY <1>1, <1>2

LEMMA DataInvInit == Init => DataInv
<1> SUFFICES ASSUME Init PROVE DataInv
  OBVIOUS
<1>1. Calls /\ ~ Active
  BY DEF Init, Calls, Active
<1>2. Data
  <2>1. data = Answer(req, Len(data)) /\ Len(data) = 0
    BY DEF Init, Answer
  <2>2. mem \in [Buffers -> Seq(Units)]
    BY DEF Init
  <2>. QED
    BY <2>1, <2>2, StreamConstants DEF Init, Data
<1>. QED
  BY <1>1, <1>2 DEF DataInv, Order, Flow, Verdict

LEMMA DataInvariant == Spec => [](StreamInv /\ DataInv)
<1>1. StreamInv /\ DataInv /\ [Next]_vars => (StreamInv /\ DataInv)'
  BY StreamInvNext, DataNext, CallsNext, FlowNext, VerdictNext DEF DataInv
<1>. QED
  BY <1>1, StreamInvInit, DataInvInit, PTL DEF Spec

-----------------------------------------------------------------------------
(* Every step of the ring is one of the promised stream, or none *)

LEMMA PromiseInit == Init => Promise!Init
BY DEF Init, Promise!Init, Closed

LEMMA StepWhenClosed ==
  ASSUME [Next]_vars, Closed, ~ OpenSucceeds
  PROVE  Closed'
<1>1. CASE Open \/ OpenFails \/ Release \/ Close \/ Read \/ Take \/ Timeout
  BY <1>1 DEF Open, OpenFails, Release, Close, Read, Take, Timeout, Closed
<1>2. CASE WorkerIsAlive \/ WorkerIsDead \/ GotEnd \/ GotData
  BY <1>2 DEF WorkerIsAlive, WorkerIsDead, GotEnd, GotData, Closed
<1>3. CASE ReaderStep \/ Die \/ Replace \/ UNCHANGED vars
  BY <1>3 DEF ReaderStep, Write, Claim, Copy, FlushCheck, FlushPost, FlushWait, PackReturns,
              DestroyCheck, DestroyPost, DestroyWait, EndClaim, EndPost, Die, Replace, vars, client,
              Closed
<1>. QED
  BY <1>1, <1>2, <1>3 DEF Next, ClientStep

LEMMA PromiseNext ==
  StreamInv /\ DataInv /\ [Next]_vars => [Promise!Next]_(Promise!abstract)
<1> SUFFICES ASSUME StreamInv, DataInv, [Next]_vars
             PROVE  Promise!Next \/ UNCHANGED Promise!abstract
  OBVIOUS
<1>0. Data /\ Calls /\ Order /\ Flow /\ Verdict /\ TypeOK /\ Quiet
  BY DEF DataInv, StreamInv
<1>1. CASE OpenSucceeds
  <2>1. /\ cpc = "opening" /\ cpc' = "between" /\ srd_status = "OK" /\ srd_status' = "OK"
        /\ ~ ended /\ ~ ended' /\ received' = <<>> /\ data' = data
    BY <1>0, <1>1 DEF OpenSucceeds, Calls, Quiet, request
  <2>2. data \in {Answer(r, n) : r \in {0, 1}, n \in 0 .. MaxLen}
    <3>1. data = Answer(req, Len(data)) /\ req \in {0, 1} /\ Len(data) \in 0 .. MaxLen
      BY <1>0, StreamConstants DEF Data, TypeOK
    <3>. QED
      BY <3>1
  <2>3. Promise!Open
    BY <2>1, <2>2 DEF Promise!Open, Closed
  <2>. QED
    BY <2>3 DEF Promise!Next
<1>2. CASE Closed /\ ~ OpenSucceeds
  <2>1. Closed'
    BY <1>2, StepWhenClosed
  <2>. QED
    BY <1>2, <2>1 DEF Promise!abstract
<1>3. CASE ~ Closed
  <2>1. cpc \in {"between", "wait", "timeout", "got"} /\ srd_status = "OK"
    BY <1>0, <1>3 DEF Closed, TypeOK
  <2>2. CASE Close
    <3>1. Closed'
      BY <2>2 DEF Close, Closed
    <3>2. Promise!Close
      BY <1>3, <3>1 DEF Promise!Close
    <3>. QED
      BY <3>2 DEF Promise!Next
  <2>3. CASE WorkerIsDead
    <3>1. /\ ~ ended /\ ended' /\ result' = "ERROR" /\ cpc' = "between" /\ srd_status' = "OK"
          /\ UNCHANGED <<data, received>>
      BY <1>0, <2>1, <2>3 DEF WorkerIsDead, Calls, request
    <3>2. Promise!Fail
      BY <1>3, <3>1 DEF Promise!Fail, Closed
    <3>. QED
      BY <3>2 DEF Promise!Next
  <2>4. CASE GotEnd
    <3>1. /\ ~ ended /\ ended' /\ result' = status[next_buffer] /\ cpc' = "between" /\ srd_status' = "OK"
          /\ UNCHANGED <<data, received>> /\ cpc = "got" /\ used[next_buffer] = 0
      BY <1>0, <2>1, <2>4 DEF GotEnd, Calls, request
    <3>2. Active /\ ClientOwns(next_buffer) /\ next_buffer \in Buffers /\ Pending(next_buffer)
      BY <1>0, <2>1, <3>1 DEF Active, ClientOwns, Pending, TypeOK
    <3>3. wpc = "idle" /\ next_buffer = buffer_nr /\ status[next_buffer] = ret
      BY <1>0, <3>1, <3>2 DEF StreamInv, EmptyIsLast, Order, Verdict
    <3>4. CASE ret = "OK"
      <4>1. produced = Len(data) /\ Len(data) \in Nat
        BY <1>0, <3>2, <3>3, <3>4 DEF Verdict, TypeOK
      <4>2. Len(received) = produced
        <5>1. NrPending > 0
          BY <1>0, <3>2, DistanceFacts, PlaceFacts, StreamConstants DEF Order
        <5>2. Begins(next_buffer) = Len(received)
          BY <1>0, <3>2, <5>1 DEF Flow
        <5>. QED
          BY <3>1, <5>2 DEF Begins
      <4>3. received = data
        BY <1>0, <3>2, <4>1, <4>2 DEF Flow, Data
      <4>4. Promise!Complete
        BY <1>3, <3>1, <3>3, <3>4, <4>3 DEF Promise!Complete, Closed
      <4>. QED
        BY <4>4 DEF Promise!Next
    <3>5. CASE ret # "OK"
      <4>1. ret = "FAIL"
        BY <1>0, <3>5 DEF TypeOK
      <4>2. Promise!Fail
        BY <1>3, <3>1, <3>3, <4>1 DEF Promise!Fail, Closed
      <4>. QED
        BY <4>2 DEF Promise!Next
    <3>. QED
      BY <3>4, <3>5
  <2>5. CASE GotData
    <3>1. ~ ended /\ ~ ended' /\ cpc' = "between" /\ srd_status' = "OK" /\ data' = data
      BY <1>0, <2>1, <2>5 DEF GotData, Calls, request
    <3>2. Active
      BY <2>1, <3>1 DEF Active
    <3>3. /\ received' = Answer(req, Len(received')) /\ Len(received) < Len(received')
          /\ Len(received') <= Len(data) /\ Len(received) \in Nat /\ Len(received') \in Nat
      BY <1>0, <2>5, <3>2, FlowConsume
    <3> PICK m \in Nat : m = Len(received')
      BY <3>3
    <3>4. m \in Len(received) + 1 .. Len(data) /\ Len(data) \in Nat
      BY <1>0, <3>3 DEF TypeOK
    <3>5. received' = SubSeq(data, 1, m)
      <4>1. req \in {0, 1} /\ data = Answer(req, Len(data)) /\ 0 \in Nat
        BY <1>0 DEF TypeOK, Data
      <4>2. data \in Seq(Units) /\ \A i \in 1 .. Len(data) : data[i] = <<req, i>>
        BY <3>4, <4>1, AnswerFacts
      <4>3. m <= Len(data) /\ \A i \in 1 .. m : data[i] = <<req, 0 + i>>
        BY <3>4, <4>2
      <4>4. Answer(req, 0) \o SubSeq(data, 1, m) = Answer(req, 0 + m)
        BY <4>1, <4>2, <4>3, AnswerContinued
      <4>5. Answer(req, 0) = <<>>
        BY DEF Answer
      <4>6. SubSeq(data, 1, m) \in Seq(Units)
        BY <4>2, <4>3, SubSeqProperties
      <4>7. <<>> \o SubSeq(data, 1, m) = SubSeq(data, 1, m)
        BY <4>6, ConcatEmptySeq
      <4>. QED
        BY <3>3, <4>4, <4>5, <4>7
    <3>6. Promise!Deliver
      BY <1>3, <3>1, <3>4, <3>5 DEF Promise!Deliver, Closed
    <3>. QED
      BY <3>6 DEF Promise!Next
  <2>6. CASE \/ ReaderStep \/ Die \/ Read \/ Take \/ Timeout \/ WorkerIsAlive \/ UNCHANGED vars
    <3>1. UNCHANGED <<srd_status, data, received, ended, result>>
      BY <2>6 DEF ReaderStep, Write, Claim, Copy, FlushCheck, FlushPost, FlushWait, PackReturns,
                  DestroyCheck, DestroyPost, DestroyWait, EndClaim, EndPost, Die, Read, Take,
                  Timeout, WorkerIsAlive, vars, client, request
    <3>2. ~ Closed'
      <4>1. cpc' \in {"between", "wait", "timeout", "got"}
        BY <2>1, <2>6 DEF ReaderStep, Write, Claim, Copy, FlushCheck, FlushPost, FlushWait,
                  PackReturns, DestroyCheck, DestroyPost, DestroyWait, EndClaim, EndPost, Die, Read,
                  Take, Timeout, WorkerIsAlive, vars, client
      <4>. QED
        BY <2>1, <3>1, <4>1 DEF Closed
    <3>. QED
      BY <1>3, <3>1, <3>2 DEF Promise!abstract
  <2>7. ~ (Open \/ OpenSucceeds \/ OpenFails \/ Release \/ Replace)
    BY <2>1 DEF Open, OpenSucceeds, OpenFails, Release, Replace
  <2>. QED
    BY <2>2, <2>3, <2>4, <2>5, <2>6, <2>7 DEF Next, ClientStep
<1>. QED
  BY <1>1, <1>2, <1>3

(* The ring of shared buffers implements the stream that hdfstream.h       *)
(* promises, for any number and size of buffers, any answers, and any      *)
(* sequence of requests with cancellations, failures and deaths: the       *)
(* caller gets a prefix of the answer to its own request, and status OK    *)
(* only with the whole answer.                                             *)
THEOREM StreamFaithful == Spec => StreamIsFaithful
BY DataInvariant, PromiseInit, PromiseNext, PTL DEF Spec, StreamIsFaithful, Promise!Spec

(* Every variable of ChunkStream keeps its type. *)
THEOREM StreamTypeCorrect == Spec => []TypeOK
<1>1. StreamInv => TypeOK
  BY DEF StreamInv
<1>. QED
  BY <1>1, StreamInvariant, PTL

(* However many buffers there are and however requests are cancelled, fail *)
(* or lose their reader, a shared buffer is never with both sides at once. *)
THEOREM StreamOwnership == Spec => []OneToken
<1>1. StreamInv => OneToken
  BY DEF StreamInv
<1>. QED
  BY <1>1, StreamInvariant, PTL

(* A worker that goes back to the pool has finished with its last request. *)
THEOREM StreamQuiet == Spec => []QuietWhenClosed
<1>1. StreamInv => QuietWhenClosed
  BY DEF StreamInv, Quiet
<1>. QED
  BY <1>1, StreamInvariant, PTL

(* No memcpy of the stream overruns the shared or the caller's buffer, for *)
(* every pair of buffer sizes.                                             *)
THEOREM StreamBlockFits == Spec => []BlockFits
<1>1. StreamInv => BlockFits
  <2>1. ASSUME StreamInv, cpc = "got" PROVE used[next_buffer] <= size
    BY <2>1, SizeFacts DEF StreamInv, TypeOK, Fill
  <2>. QED
    BY <2>1 DEF StreamInv, Fill, BlockFits
<1>. QED
  BY <1>1, StreamInvariant, PTL

(* Half of the current buffer is free between writes, for every size. *)
THEOREM StreamHalfFree == Spec => []HalfBufferFree
<1>1. StreamInv => HalfBufferFree
  BY DEF StreamInv
<1>. QED
  BY <1>1, StreamInvariant, PTL

(* At most one block is published after a cancellation, however long the   *)
(* answer.                                                                 *)
THEOREM StreamCancel == Spec => []CancelStopsSoon
<1>1. StreamInv => CancelStopsSoon
  BY DEF StreamInv, Late, CancelStopsSoon
<1>. QED
  BY <1>1, StreamInvariant, PTL

=============================================================================
