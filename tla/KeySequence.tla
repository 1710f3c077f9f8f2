---------------------------- MODULE KeySequence ----------------------------
(***************************************************************************)
(* What an ordered_map promises (src/src/util/ordered_map.h): a sequence   *)
(* of keys, each at most once, to which entries are added and from which   *)
(* they are removed at both ends or by key.  Each operation of the code    *)
(* must be the operation of the same name here.                            *)
(***************************************************************************)
EXTENDS Integers, SequencesExt

VARIABLE keys  \* the keys, in order

Has(k) == Contains(keys, k)

Init == keys = <<>>

(* "Fail if entry exists" *)
AddItemTail(k) == ~Has(k) /\ keys' = Append(keys, k)

AddItemHead(k) == ~Has(k) /\ keys' = <<k>> \o keys

RemoveItem(k) == Has(k) /\ keys' = Remove(keys, k)

RemoveHead == keys # <<>> /\ keys' = Tail(keys)

RemoveTail == keys # <<>> /\ keys' = Front(keys)

MakeItemHead(k) == Has(k) /\ keys' = <<k>> \o Remove(keys, k)

Free == keys' = <<>>

=============================================================================
