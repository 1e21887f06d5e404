-------------------------------- MODULE Bst ---------------------------------
(***************************************************************************)
(* The children of a trie node: bst.c as trie.c uses it, with insertion    *)
(* and search.  A tree is NULL or a node, a record of the fields of struct *)
(* bst_node.                                                               *)
(*                                                                         *)
(* Rotations are left out: they happen to a node out of balance, which     *)
(* Balanced says no insertion leaves behind.                               *)
(***************************************************************************)
EXTENDS Integers

CONSTANT NULL

bst_new(key, data) ==
  [key |-> key, height |-> 1, left |-> NULL, right |-> NULL, data |-> data]

HEIGHT(node) == IF node = NULL THEN 0 ELSE node.height

BALANCE(node) == HEIGHT(node.left) - HEIGHT(node.right)

\* "1 + MAX(a, b)" after the preprocessor: 1 + a > b ? a : b
OnePlusMAX(a, b) == IF 1 + a > b THEN a ELSE b

RECURSIVE bst_insert(_, _, _), bst_search(_, _), bst_store(_, _, _), Balanced(_)

bst_insert(node, key, data) ==
  IF node = NULL THEN bst_new(key, data)
  ELSE IF key = node.key THEN node
  ELSE LET grown == IF key < node.key
                    THEN [node EXCEPT !.left = bst_insert(@, key, data)]
                    ELSE [node EXCEPT !.right = bst_insert(@, key, data)]
       IN  [grown EXCEPT !.height = OnePlusMAX(HEIGHT(grown.left), HEIGHT(grown.right))]

bst_search(node, key) ==
  IF node = NULL \/ key = node.key THEN node
  ELSE bst_search(IF key < node.key THEN node.left ELSE node.right, key)

\* An assignment to the data of the node bst_search finds.
bst_store(node, key, data) ==
  IF key = node.key THEN [node EXCEPT !.data = data]
  ELSE IF key < node.key THEN [node EXCEPT !.left = bst_store(@, key, data)]
  ELSE [node EXCEPT !.right = bst_store(@, key, data)]

\* No node of the tree calls for a rotation.
Balanced(node) ==
  node # NULL =>
    BALANCE(node) \in -1..1 /\ Balanced(node.left) /\ Balanced(node.right)
=============================================================================
