------------------------------ MODULE TrieOps ------------------------------
(***************************************************************************)
(* The operations of the trie (trie.c) as operators on a trie value        *)
(*                                                                         *)
(*    t = [data |-> path -> item pointer or NULL,  size |-> t->size]       *)
(*                                                                         *)
(* A node is identified by the sequence of characters on the way to it, so *)
(* DOMAIN t.data is the set of nodes and <<>> is the root.  The binary     *)
(* tree that holds the children of one node is abstracted to the set of    *)
(* its members.  What a stored pointer points to is left to the modules    *)
(* that use these operators.                                               *)
(***************************************************************************)
EXTENDS Paths

CONSTANTS Char,          \* the alphabet of the keys
          NULL,          \* the null pointer
          HasDestructor  \* trie_new was given a destructor (the server) or NULL

ASSUME DestructorAssumption == HasDestructor \in BOOLEAN

trie_new == [data |-> [p \in {<<>>} |-> NULL], size |-> 0]

\* The walk of trie_node_find meets every prefix of p, one per character.
trie_node_find(t, p) == Prefixes(p) \subseteq DOMAIN t.data

\* The pointer stored at k, NULL when the walk fails or the node has no data.
trie_find(t, k) == IF trie_node_find(t, k) THEN t.data[k] ELSE NULL

\* Nodes strictly below p.
NodesBelow(t, p) == {q \in DOMAIN t.data : IsStrictPrefix(p, q)}

\* Mutant: the walk below p skips p.
Subtree_strict(t, p) == NodesBelow(t, p)

\* The nodes of the subtree at p.
Subtree(t, p) == {q \in DOMAIN t.data : IsPrefix(p, q)}

\* The nodes of S that carry data.
WithData(t, S) == {q \in S : t.data[q] # NULL}

\* Mutant: counts the key only when its node is new.
trie_insert_counts_nodes(t, k, item) ==
  [data |-> [p \in DOMAIN t.data \cup Prefixes(k) |->
               IF p = k THEN item
               ELSE IF p \in DOMAIN t.data THEN t.data[p] ELSE NULL],
   size |-> IF trie_node_find(t, k) THEN t.size ELSE t.size + 1]

\* Creates the missing nodes of the path, then overwrites the data pointer:
\* what the node pointed to before is not released.
trie_insert(t, k, item) ==
  [data |-> [p \in DOMAIN t.data \cup Prefixes(k) |->
               IF p = k THEN item
               ELSE IF p \in DOMAIN t.data THEN t.data[p] ELSE NULL],
   size |-> IF trie_find(t, k) = NULL THEN t.size + 1 ELSE t.size]

\* Mutant: forgets to clear the pointer it released.
trie_delete_dangling(t, k) ==
  IF k # <<>> /\ trie_find(t, k) # NULL
  THEN [t EXCEPT !.size = t.size - 1]
  ELSE t

\* Clears the data of one node and keeps the node; the empty key is refused.
trie_delete(t, k) ==
  IF k # <<>> /\ trie_find(t, k) # NULL
  THEN [data |-> [t.data EXCEPT ![k] = NULL], size |-> t.size - 1]
  ELSE t

\* With a destructor the answer tells whether there was data; without one it
\* is TRUE as soon as the walk reaches a node.
trie_delete_ret(t, k) ==
  /\ k # <<>>
  /\ IF HasDestructor THEN trie_find(t, k) # NULL ELSE trie_node_find(t, k)

\* The size after the n data nodes of a subtree have been destroyed: only the
\* branch without a destructor decrements it, and not below zero.
SizeAfterDestroy(size, n) ==
  IF HasDestructor THEN size ELSE IF n <= size THEN size - n ELSE 0

\* children_destroy on the children of p: releases every node below it.
children_destroy(t, p) ==
  [data |-> [q \in DOMAIN t.data \ NodesBelow(t, p) |-> t.data[q]],
   size |-> SizeAfterDestroy(t.size, Cardinality(WithData(t, NodesBelow(t, p))))]

\* Mutant: an absent prefix removes what lies below its longest parent.
trie_prefix_delete_parent(t, p) ==
  LET q == IF trie_node_find(t, p) THEN p ELSE Front(p) IN
  IF trie_node_find(t, q) THEN trie_delete(children_destroy(t, q), q) ELSE t

trie_prefix_delete(t, p) ==
  IF trie_node_find(t, p) THEN trie_delete(children_destroy(t, p), p) ELSE t

\* trie_node_destroy on the root, which releases the root as well.
trie_node_destroy(t) ==
  [data |-> [q \in {} |-> NULL],
   size |-> SizeAfterDestroy(t.size, Cardinality(WithData(t, DOMAIN t.data)))]

\* Mutant: counts the descendants and misses the prefix itself.
trie_prefix_count_below(t, p) ==
  IF trie_node_find(t, p) THEN Cardinality(WithData(t, NodesBelow(t, p))) ELSE 0

trie_prefix_count(t, p) ==
  IF trie_node_find(t, p) THEN Cardinality(WithData(t, Subtree(t, p))) ELSE 0

\* NULL when the walk fails, otherwise the keys found (possibly none).
trie_prefix_find(t, p) ==
  IF trie_node_find(t, p) THEN <<"keys", WithData(t, Subtree(t, p))>>
  ELSE <<"null">>
=============================================================================
