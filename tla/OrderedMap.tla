----------------------------- MODULE OrderedMap -----------------------------
(***************************************************************************)
(* The ordered_map (src/src/util/ordered_map.c) behind the caches of files *)
(* and datasets: a doubly linked list for the order (linked_list.c) and    *)
(* the tree of AvlTree for the lookup, which share their items.            *)
(*                                                                         *)
(* An ordered_map_item, its value and its list_item are allocated and      *)
(* freed together and known by their key.                                  *)
(***************************************************************************)
EXTENDS AvlTree

VARIABLE list  \* struct linked_list and its items

vars == <<tree, deleted, list>>

EmptyList ==
  [head |-> NULL, tail |-> NULL, count |-> 0,
   next |-> [k \in Keys |-> NULL], prev |-> [k \in Keys |-> NULL]]

Init == TreeInit /\ list = EmptyList

-----------------------------------------------------------------------------
(* linked_list.c *)

ListAddHead(l, k) ==
  [head  |-> k,
   tail  |-> IF l.head = NULL THEN k ELSE l.tail,
   count |-> l.count + 1,
   next  |-> [l.next EXCEPT ![k] = l.head],
   prev  |-> [i \in Keys |-> CASE i = k -> NULL [] i = l.head -> k [] OTHER -> l.prev[i]]]

ListAddTail(l, k) ==
  [head  |-> IF l.count = 0 THEN k ELSE l.head,
   tail  |-> k,
   count |-> l.count + 1,
   next  |-> [i \in Keys |-> CASE i = k -> NULL [] i = l.tail -> k [] OTHER -> l.next[i]],
   prev  |-> [l.prev EXCEPT ![k] = IF l.count = 0 THEN NULL ELSE l.tail]]

(* Mutant: the tail is not moved *)
ListMakeHeadKeepsTail(l, k) ==
  IF k = l.head THEN l
  ELSE [l EXCEPT
         !.head = k,
         !.next = [i \in Keys |-> CASE i = k -> l.head
                                    [] i = l.prev[k] -> l.next[k]
                                    [] OTHER -> l.next[i]],
         !.prev = [i \in Keys |-> CASE i = k -> NULL
                                    [] i = l.next[k] -> l.prev[k]
                                    [] i = l.head -> k
                                    [] OTHER -> l.prev[i]]]

(* Mutant: the item before k goes on pointing to it *)
ListMakeHeadKeepsLink(l, k) ==
  IF k = l.head THEN l
  ELSE [l EXCEPT
         !.head = k,
         !.tail = IF @ = k THEN l.prev[k] ELSE @,
         !.next[k] = l.head,
         !.prev = [i \in Keys |-> CASE i = k -> NULL
                                    [] i = l.next[k] -> l.prev[k]
                                    [] i = l.head -> k
                                    [] OTHER -> l.prev[i]]]

(* linked_list_make_item_head *)
ListMakeHead(l, k) ==
  IF k = l.head THEN l
  ELSE [l EXCEPT
         !.head = k,
         !.tail = IF @ = k THEN l.prev[k] ELSE @,
         !.next = [i \in Keys |-> CASE i = k -> l.head
                                    [] i = l.prev[k] -> l.next[k]
                                    [] OTHER -> l.next[i]],
         !.prev = [i \in Keys |-> CASE i = k -> NULL
                                    [] i = l.next[k] -> l.prev[k]
                                    [] i = l.head -> k
                                    [] OTHER -> l.prev[i]]]

ListRemoveHead(l) ==
  LET k == l.head
      second == l.next[k]
      freed == [l EXCEPT !.count = @ - 1, !.next[k] = NULL, !.prev[k] = NULL]
  IN  IF l.count = 1 THEN [freed EXCEPT !.head = NULL, !.tail = NULL]
      ELSE [freed EXCEPT !.head = second, !.prev[second] = NULL]

(* linked_list_remove_item *)
ListRemoveItem(l, k) == ListRemoveHead(ListMakeHead(l, k))

-----------------------------------------------------------------------------
(* ordered_map.c: operations on keys that exist already, or that do not,   *)
(* return an error and change nothing.                                     *)

(* ordered_map_add_item_head and _tail *)
AddItem(k, newlist) == AvlAdd(k) /\ list' = newlist

AddItemHead(k) == AddItem(k, ListAddHead(list, k))

AddItemTail(k) == AddItem(k, ListAddTail(list, k))

Take(k, item) == AvlDelete(k) /\ list' = ListRemoveItem(list, item)

(* The tree knows the item *)
RemoveItem(k) == Take(k, TreeLookup(tree, k))

RemoveHead == list.count # 0 /\ Take(list.head, list.head)

(* Mutant: the wrong end *)
RemoveTailAtHead == list.count # 0 /\ Take(list.head, list.head)

RemoveTail == list.count # 0 /\ Take(list.tail, list.tail)

MakeItemHead(k) ==
  /\ KeyExists(k)
  /\ list' = ListMakeHead(list, TreeLookup(tree, k))
  /\ UNCHANGED <<tree, deleted>>

RECURSIVE RemoveAll(_, _)

(* The tree and the list after ordered_map_remove_tail until none is left *)
RemoveAll(t, l) ==
  IF l.count = 0 THEN [tree |-> t, list |-> l]
  ELSE RemoveAll(DeleteNode(t, l.tail), ListRemoveItem(l, l.tail))

(* ordered_map_free; another map may be made in its place *)
Free ==
  /\ LET rest == RemoveAll(tree, list) IN list' = rest.list /\ tree' = rest.tree
  /\ deleted' = FALSE

Next ==
  \/ \E k \in Keys : \/ AddItemTail(k) \/ AddItemHead(k) \/ RemoveItem(k)
                     \/ MakeItemHead(k)
  \/ RemoveHead \/ RemoveTail \/ Free

Spec == Init /\ [][Next]_vars

-----------------------------------------------------------------------------
(* Properties *)

RECURSIVE Walk(_, _)

(* The items from k on, by next pointers, at most fuel of them *)
Walk(k, fuel) == IF k = NULL \/ fuel = 0 THEN <<>> ELSE <<k>> \o Walk(list.next[k], fuel - 1)

(* The list read from its head *)
ListKeys == Walk(list.head, Cardinality(Keys) + 1)

Listed == {ListKeys[i] : i \in 1 .. Len(ListKeys)}

(* The item that the tree finds for a key is the item of that key in the   *)
(* list, so that ordered_map_lookup returns the value of the key and       *)
(* ordered_map_make_item_head moves the right item, and each key is in     *)
(* both structures or in neither.                                          *)
TreeMatchesList ==
  /\ \A k \in Keys : TreeLookup(tree, k) = IF k \in Listed THEN k ELSE NULL
  /\ list.count = Cardinality(InUse)

(* linked_list_check, and the tail, which it leaves out: both directions   *)
(* tell the same order, and count is the number of items.                  *)
ListLinked ==
  LET s == ListKeys IN
  /\ Len(s) = list.count
  /\ list.head = IF s = <<>> THEN NULL ELSE s[1]
  /\ list.tail = IF s = <<>> THEN NULL ELSE s[Len(s)]
  /\ \A i \in 1 .. Len(s) : list.prev[s[i]] = IF i = 1 THEN NULL ELSE s[i - 1]

Abstract == INSTANCE KeySequence WITH keys <- ListKeys

(* Every operation changes the order of the keys as the header of the      *)
(* ordered_map says of that operation, in every state that operations lead *)
(* to: what is added at an end is added at that end, and what the caches   *)
(* evict from the tail is the item that was moved to the head longest ago. *)
IsKeySequence ==
  /\ Abstract!Init
  /\ [][/\ \A k \in Keys :
             /\ AddItemTail(k)  => Abstract!AddItemTail(k)
             /\ AddItemHead(k)  => Abstract!AddItemHead(k)
             /\ RemoveItem(k)   => Abstract!RemoveItem(k)
             /\ MakeItemHead(k) => Abstract!MakeItemHead(k)
        /\ RemoveHead => Abstract!RemoveHead
        /\ RemoveTail => Abstract!RemoveTail
        /\ Free => Abstract!Free]_vars

=============================================================================
