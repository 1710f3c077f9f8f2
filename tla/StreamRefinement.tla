-------------------------- MODULE StreamRefinement --------------------------
(***************************************************************************)
(* The ring of buffers of ChunkStream implements the ByteStream that       *)
(* hdfstream.h promises.                                                   *)
(***************************************************************************)
EXTENDS ChunkStream

(* To its caller the stream exists from the successful return of the open  *)
(* to the call of hdfstream_close_stream.                                  *)
Closed == cpc \in {"closed", "opening", "release"} \/ srd_status = "CANCEL"

Promise == INSTANCE ByteStream WITH
  Answers <- {Answer(r, n) : r \in {0, 1}, n \in 0 .. MaxLen},
  Errors  <- {"FAIL", "ERROR"},
  stream  <- IF Closed THEN "closed" ELSE IF ended THEN "ended" ELSE "open",
  answer  <- IF Closed THEN <<>> ELSE data,
  got     <- IF Closed THEN <<>> ELSE received,
  outcome <- IF Closed \/ ~ended THEN "OK" ELSE result

(* What hdfstream_read_chunk hands to the caller, over any sequence of     *)
(* requests to one worker with cancellations, failures and deaths, is what *)
(* ByteStream allows: a prefix of this request's answer, and status OK at  *)
(* the end only if nothing is missing.                                     *)
StreamIsFaithful == Promise!Spec

=============================================================================
