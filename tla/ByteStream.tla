----------------------------- MODULE ByteStream -----------------------------
(***************************************************************************)
(* What a data stream of hdfstream.h promises its caller, one stream after *)
(* another: the bytes that arrive are a prefix of the answer to the        *)
(* request that opened the stream, in order, without gap, repetition or    *)
(* bytes of another request; only a stream that delivered the whole answer *)
(* ends with status OK, and every other stream that ends has an error      *)
(* status.  The caller may close a stream at any time.                     *)
(***************************************************************************)
EXTENDS Naturals, Sequences

CONSTANTS
  Answers,  \* what requests may be answered with: a set of sequences
  Errors    \* error status codes

VARIABLES
  stream,   \* closed, open or ended
  answer,   \* the whole answer to the request
  got,      \* what arrived of it
  outcome   \* the status the stream ended with

abstract == <<stream, answer, got, outcome>>

Init ==
  /\ stream = "closed"
  /\ answer = <<>>
  /\ got = <<>>
  /\ outcome = "OK"

Open ==
  /\ stream = "closed"
  /\ stream' = "open"
  /\ answer' \in Answers
  /\ UNCHANGED <<got, outcome>>

Deliver ==
  /\ stream = "open"
  /\ \E n \in Len(got) + 1 .. Len(answer) : got' = SubSeq(answer, 1, n)
  /\ UNCHANGED <<stream, answer, outcome>>

Complete ==
  /\ stream = "open"
  /\ got = answer
  /\ stream' = "ended"
  /\ UNCHANGED <<answer, got, outcome>>

Fail ==
  /\ stream = "open"
  /\ stream' = "ended"
  /\ outcome' \in Errors
  /\ UNCHANGED <<answer, got>>

Close ==
  /\ stream # "closed"
  /\ stream' = "closed"
  /\ answer' = <<>>
  /\ got' = <<>>
  /\ outcome' = "OK"

Next == Open \/ Deliver \/ Complete \/ Fail \/ Close

Spec == Init /\ [][Next]_abstract

=============================================================================
