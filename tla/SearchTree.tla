----------------------------- MODULE SearchTree -----------------------------
(***************************************************************************)
(* binary_search_tree_t (binary_search_tree.h).  A node is a sequence of   *)
(* one record, the null pointer the empty one; the values are in a vector  *)
(* and a node has the index of its own.                                    *)
(***************************************************************************)
EXTENDS Calls, Integers, Sequences, FiniteSets

CONSTANTS TreeKey, TreeValue     \* keys are numbers

TreeAssumption == TreeKey \subseteq Nat

VARIABLES root, data, nodeCount

vars == <<root, data, nodeCount, asked>>

Null == <<>>

\* binary_search_tree_create.
Init == root = Null /\ data = <<>> /\ nodeCount = 0 /\ NothingAsked

HeightOf(t) == IF t = Null THEN 0 ELSE t[1].height

HeightDelta(n) == HeightOf(n.left) - HeightOf(n.right)

Recalculated(n) ==
  LET l == HeightOf(n.left) r == HeightOf(n.right)
  IN [n EXCEPT !.height = (IF l > r THEN l ELSE r) + 1]

\* _binary_search_tree_rotate_left: the left child becomes the root; its own
\* height is not recalculated.
RotateLeft(n) ==
  [n.left[1] EXCEPT !.right = <<Recalculated([n EXCEPT !.left = n.left[1].right])>>]

RotateRight(n) ==
  [n.right[1] EXCEPT !.left = <<Recalculated([n EXCEPT !.right = n.right[1].left])>>]

Rebalanced(n) ==
  CASE HeightDelta(n) > 1  -> RotateLeft(n)
    [] HeightDelta(n) < -1 -> RotateRight(n)
    [] OTHER               -> n

\* _binary_search_tree_insert_impl for a key that is not there.
RECURSIVE Inserted(_, _, _)
Inserted(t, key, index) ==
  IF t = Null
    THEN <<[key |-> key, height |-> 1, index |-> index, left |-> Null, right |-> Null]>>
    ELSE LET n    == t[1]
             with == IF key > n.key THEN [n EXCEPT !.right = Inserted(@, key, index)]
                                    ELSE [n EXCEPT !.left  = Inserted(@, key, index)]
         IN <<Rebalanced(Recalculated(with))>>

\* The way down of contains, find and insert: the node of the key, or Null.
RECURSIVE Search(_, _)
Search(t, key) ==
  IF t = Null \/ t[1].key = key THEN t
  ELSE Search(IF key < t[1].key THEN t[1].left ELSE t[1].right, key)

Contains(key) == Search(root, key) # Null

\* binary_search_tree_find.
Find(key) == data[Search(root, key)[1].index]

\* binary_search_tree_insert: a key that is there changes nothing.
Insert(key, value) ==
  /\ IF Contains(key)
       THEN UNCHANGED <<root, data, nodeCount>>
       ELSE /\ data' = Append(data, value)
            /\ root' = Inserted(root, key, Len(data) + 1)
            /\ nodeCount' = nodeCount + 1
  /\ Ask("add", key, value)

\* _binary_search_tree_node_destroy_impl: how many nodes are freed.
RECURSIVE FreedNodes(_)
FreedNodes(t) == IF t = Null THEN 0 ELSE FreedNodes(t[1].left) + FreedNodes(t[1].right) + 1

\* binary_search_tree_destroy, and a new tree.
Destroy ==
  /\ root # Null
  /\ root' = Null /\ data' = <<>> /\ nodeCount' = nodeCount - FreedNodes(root)
  /\ Ask("clear", 0, 0)

Next == (\E key \in TreeKey, value \in TreeValue : Insert(key, value)) \/ Destroy

Spec == Init /\ [][Next]_vars

-----------------------------------------------------------------------------
\* binary_search_tree_sorted_traverse: what the visitor is called with.
RECURSIVE Traversed(_)
Traversed(t) ==
  IF t = Null THEN <<>>
  ELSE Traversed(t[1].left) \o <<<<t[1].key, data[t[1].index]>>>> \o Traversed(t[1].right)

Contained == [key \in {k \in TreeKey : Contains(k)} |-> Find(key)]

TypeOK ==
  /\ nodeCount \in 0 .. Cardinality(TreeKey)
  /\ Len(data) = nodeCount
  /\ data \in Seq(TreeValue)

\* A traversal visits the nodes in the order of their keys, each once, with the
\* value that find returns.
SeesAll ==
  LET seen == Traversed(root)
  IN /\ Len(seen) = nodeCount
     /\ \A n \in 1 .. Len(seen) : /\ n > 1 => seen[n - 1][1] < seen[n][1]
                                  /\ Contains(seen[n][1]) /\ Find(seen[n][1]) = seen[n][2]

=============================================================================
