------------------------------ MODULE AvlTree ------------------------------
(***************************************************************************)
(* The binary search tree in which an ordered_map looks its items up       *)
(* (src/src/util/avltree.c).  Nodes have addresses of their own, and a     *)
(* deletion moves key and item from one node to another.  An item is known *)
(* by its key here.  The chain of all nodes that avltree_free walks is     *)
(* left out: ordered_map_free empties the tree before it.                  *)
(***************************************************************************)
EXTENDS Integers, Sequences, FiniteSets

CONSTANTS
  Keys,  \* in the order of cmpfunc
  NULL

ASSUME MapConstants == Keys \subseteq Nat \ {0} /\ IsFiniteSet(Keys) /\ NULL \notin Int

(* Addresses of nodes: as many as there are keys *)
Nodes == Keys

Side == {"left", "right"}

Other(side) == IF side = "left" THEN "right" ELSE "left"

VARIABLES
  tree,     \* struct tree and its nodes; a node without a key is free
  deleted   \* history: was a node deleted since the tree was last empty?

EmptyTree ==
  [root   |-> NULL,
   left   |-> [n \in Nodes |-> NULL],
   right  |-> [n \in Nodes |-> NULL],
   parent |-> [n \in Nodes |-> NULL],
   key    |-> [n \in Nodes |-> NULL],
   val    |-> [n \in Nodes |-> NULL]]

TreeInit ==
  /\ tree = EmptyTree
  /\ deleted = FALSE

(* cmpfunc: the child to go to for key k *)
Towards(t, n, k) == IF k < t.key[n] THEN "left" ELSE "right"

RECURSIVE Find(_, _, _)

(* The descent from node n: the node with key k, or NULL *)
Find(t, n, k) ==
  IF n = NULL \/ t.key[n] = k THEN n
  ELSE Find(t, t[Towards(t, n, k)][n], k)

(* avltree_lookup *)
TreeLookup(t, k) == LET n == Find(t, t.root, k) IN IF n = NULL THEN NULL ELSE t.val[n]

RECURSIVE NodeHeight(_, _)

NodeHeight(t, n) ==
  IF n = NULL THEN 0
  ELSE LET l == NodeHeight(t, t.left[n])
           r == NodeHeight(t, t.right[n])
       IN  1 + IF l > r THEN l ELSE r

(* Mutant: the inner subtree keeps its old parent *)
RotateKeepsParent(t, root, side) ==
  LET pivot  == t[Other(side)][root]
      parent == t.parent[root]
      inner  == t[side][pivot]
      onSide == parent # NULL /\ t[side][parent] = root
  IN  [t EXCEPT
        !.root = IF @ = root THEN pivot ELSE @,
        ![side]        = [n \in Nodes |-> CASE n = pivot -> root
                                                  [] n = parent /\ onSide -> pivot
                                                  [] OTHER -> t[side][n]],
        ![Other(side)] = [n \in Nodes |-> CASE n = root -> inner
                                                  [] n = parent /\ ~onSide -> pivot
                                                  [] OTHER -> t[Other(side)][n]],
        !.parent             = [n \in Nodes |-> CASE n = root -> pivot
                                                  [] n = pivot -> parent
                                                  [] OTHER -> t.parent[n]]]

(* rotate_left and rotate_right, which mirror each other *)
Rotate(t, root, side) ==
  LET pivot  == t[Other(side)][root]
      parent == t.parent[root]
      inner  == t[side][pivot]
      onSide == parent # NULL /\ t[side][parent] = root
  IN  [t EXCEPT
        !.root = IF @ = root THEN pivot ELSE @,
        ![side]        = [n \in Nodes |-> CASE n = pivot -> root
                                                  [] n = parent /\ onSide -> pivot
                                                  [] OTHER -> t[side][n]],
        ![Other(side)] = [n \in Nodes |-> CASE n = root -> inner
                                                  [] n = parent /\ ~onSide -> pivot
                                                  [] OTHER -> t[Other(side)][n]],
        !.parent             = [n \in Nodes |-> CASE n = root -> pivot
                                                  [] n = pivot -> parent
                                                  [] n = inner -> root
                                                  [] OTHER -> t.parent[n]]]

(* By how much the subtree of n on one side is higher than the other *)
Excess(t, n, side) ==
  NodeHeight(t, t[side][n]) - NodeHeight(t, t[Other(side)][n])

(* Mutant: single rotations only *)
BalanceSingly(t, root) ==
  LET heavy == {s \in Side : Excess(t, root, s) = 2} IN
  IF heavy = {} THEN t
  ELSE Rotate(t, root, Other(CHOOSE s \in heavy : TRUE))

(* One round of the loop in rebalance: nothing is done if the subtrees of  *)
(* the higher child have the same height.                                  *)
Balance(t, root) ==
  LET heavy == {s \in Side : Excess(t, root, s) = 2} IN
  IF heavy = {} THEN t
  ELSE LET side  == CHOOSE s \in heavy : TRUE
           child == t[side][root]
       IN  CASE Excess(t, child, side) = 1  -> Rotate(t, root, Other(side))
             [] Excess(t, child, side) = -1 -> Rotate(Rotate(t, child, side), root, Other(side))
             [] OTHER -> t

RECURSIVE RebalanceUp(_, _)

RebalanceUp(t, root) ==
  IF root = NULL THEN t ELSE RebalanceUp(Balance(t, root), t.parent[root])

(* The loop starts at the parent *)
Rebalance(t, node) == RebalanceUp(t, t.parent[node])

RECURSIVE Descend(_, _, _)

(* The node below which a new key is inserted *)
Descend(t, n, k) ==
  LET child == t[Towards(t, n, k)][n] IN IF child = NULL THEN n ELSE Descend(t, child, k)

(* avltree_add_node, for a key that is not there.  Which free address      *)
(* malloc returns makes no difference; the key's own keeps the model small.*)
AddNode(t, k) ==
  LET new == IF t.key[k] = NULL THEN k ELSE CHOOSE n \in Nodes : t.key[n] = NULL
      t1  == [t EXCEPT !.key[new] = k, !.val[new] = k]
  IN  IF t.root = NULL THEN [t1 EXCEPT !.root = new]
      ELSE LET at == Descend(t, t.root, k)
           IN  Rebalance([t1 EXCEPT ![Towards(t, at, k)][at] = new, !.parent[new] = at], new)

RECURSIVE Outermost(_, _, _)

Outermost(t, n, side) ==
  IF t[side][n] = NULL THEN n ELSE Outermost(t, t[side][n], side)

(* dealloc_node *)
DeallocNode(t, n) ==
  [t EXCEPT !.key[n] = NULL, !.val[n] = NULL, !.parent[n] = NULL,
            !.left[n] = NULL, !.right[n] = NULL]

(* Mutant: the value of the replacement is forgotten *)
ReplaceByKeepsValue(t, target, side) ==
  LET replace == Outermost(t, t[side][target], Other(side))
      rest    == t[side][replace]
      above   == t.parent[replace]
      t1 == [t EXCEPT !.key[target] = t.key[replace],
                      ![IF above = target THEN side ELSE Other(side)][above] = rest]
      t2 == IF rest = NULL THEN t1 ELSE [t1 EXCEPT !.parent[rest] = above]
  IN  DeallocNode(t2, replace)

(* The target takes over the nearest key of its subtree on the given side, *)
(* and the node that had it goes.                                          *)
ReplaceBy(t, target, side) ==
  LET replace == Outermost(t, t[side][target], Other(side))
      rest    == t[side][replace]
      above   == t.parent[replace]
      t1 == [t EXCEPT !.key[target] = t.key[replace], !.val[target] = t.val[replace],
                      ![IF above = target THEN side ELSE Other(side)][above] = rest]
      t2 == IF rest = NULL THEN t1 ELSE [t1 EXCEPT !.parent[rest] = above]
  IN  DeallocNode(t2, replace)

(* A target without children is unlinked *)
Unlink(t, target) ==
  LET above == t.parent[target] IN
  DeallocNode(
    IF target = t.root THEN [t EXCEPT !.root = NULL]
    ELSE [t EXCEPT ![IF t.left[above] = target THEN "left" ELSE "right"][above] = NULL],
    target)

(* avltree_delete_node, for a key that is there *)
DeleteNode(t, k) ==
  LET target == Find(t, t.root, k)
      above  == t.parent[target]
      t1     == IF      t.left[target] # NULL  THEN ReplaceBy(t, target, "left")
                ELSE IF t.right[target] # NULL THEN ReplaceBy(t, target, "right")
                ELSE    Unlink(t, target)
  IN  IF above = NULL THEN t1 ELSE Rebalance(t1, above)

-----------------------------------------------------------------------------
KeyExists(k) == TreeLookup(tree, k) # NULL

AvlAdd(k) ==
  /\ ~KeyExists(k)
  /\ tree' = AddNode(tree, k)
  /\ UNCHANGED deleted

AvlDelete(k) ==
  /\ KeyExists(k)
  /\ tree' = DeleteNode(tree, k)
  /\ deleted' = (tree'.root # NULL)

TreeNext == \E k \in Keys : AvlAdd(k) \/ AvlDelete(k)

TreeSpec == TreeInit /\ [][TreeNext]_<<tree, deleted>>

-----------------------------------------------------------------------------
(* Properties *)

InUse == {n \in Nodes : tree.key[n] # NULL}

RECURSIVE Ancestors(_, _)

(* The nodes above n; Cardinality(Nodes) bounds the walk *)
Ancestors(n, fuel) ==
  IF fuel = 0 \/ tree.parent[n] = NULL THEN {}
  ELSE {tree.parent[n]} \cup Ancestors(tree.parent[n], fuel - 1)

(* Whatever was inserted, deleted and rotated: child and parent pointers   *)
(* agree, every allocated node hangs below the root (none leaks, none      *)
(* dangles), and the descent of avltree_lookup finds every key, and its    *)
(* own item with it.                                                       *)
SearchTree ==
  /\ tree.root = NULL <=> InUse = {}
  /\ \A n \in InUse :
       /\ tree.parent[n] = NULL <=> n = tree.root
       /\ tree.parent[n] # NULL =>
            /\ tree.parent[n] \in InUse
            /\ \E s \in Side : tree[s][tree.parent[n]] = n
       /\ \A s \in Side : tree[s][n] # NULL =>
            tree[s][n] \in InUse /\ tree.parent[tree[s][n]] = n
       /\ n # tree.root => tree.root \in Ancestors(n, Cardinality(Nodes))
       /\ TreeLookup(tree, tree.key[n]) = tree.key[n]

(* "Check tree is balanced, starting at node 'node' and working back       *)
(* towards the root", which avltree_add_node and avltree_delete_node both  *)
(* do: the heights of the subtrees of each node differ by at most one.     *)
TreeBalanced == \A n \in InUse : Excess(tree, n, "left") \in {-1, 0, 1}

(* Insertions keep the tree balanced: rebalance restores the heights after *)
(* each avltree_add_node.                                                  *)
BalancedByInsertion == ~deleted => TreeBalanced

=============================================================================
