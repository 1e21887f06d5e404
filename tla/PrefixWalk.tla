----------------------------- MODULE PrefixWalk -----------------------------
(***************************************************************************)
(* The trie down to the search trees of its nodes (module Bst), and        *)
(* trie_prefix_find down to the buffer in which it puts keys together:     *)
(* allocated once, grown by the call that finds it full, and passed on by  *)
(* value, so that the callers keep the pointer they had.                   *)
(*                                                                         *)
(* A node is NULL or a record of its data and children.  Sizes, and who    *)
(* owns an item, are in module Trie.                                       *)
(***************************************************************************)
EXTENDS Bst, FiniteSets, SequencesExt

CONSTANTS Keys,   \* sequences of characters, which are positive numbers
          Items,
          BUFSIZE \* 32 in the code: first size of the buffer

VARIABLES root,  \* the root of the trie
          ret,   \* answer of the last call
          fault, \* the undefined behaviour met and the prefix, or NULL
          kv,    \* the abstract map (module KVMap) that gets the same calls
          want   \* and its answer

vars == <<root, ret, fault, kv, want>>

trie_create_node == [data |-> NULL, children |-> NULL]

-----------------------------------------------------------------------------
(* The trie *)

RECURSIVE trie_node_find(_, _), trie_node_store(_, _, _), trie_node_insert(_, _, _)
RECURSIVE trie_node_count(_), trie_children_count(_)

trie_node_find(node, prefix) ==
  IF prefix = <<>> THEN node
  ELSE LET child == bst_search(node.children, Head(prefix))
       IN  IF child = NULL THEN NULL ELSE trie_node_find(child.data, Tail(prefix))

\* An assignment to the node trie_node_find finds.
trie_node_store(node, prefix, new) ==
  IF prefix = <<>> THEN new
  ELSE LET child == bst_search(node.children, Head(prefix)).data
       IN  [node EXCEPT !.children =
              bst_store(@, Head(prefix), trie_node_store(child, Tail(prefix), new))]

trie_node_insert(node, key, item) ==
  IF key = <<>> THEN [node EXCEPT !.data = item]
  ELSE LET tmp == bst_search(node.children, Head(key))
           children == IF tmp # NULL THEN node.children
                       ELSE bst_insert(node.children, Head(key), trie_create_node)
           child == bst_search(children, Head(key)).data
       IN  [node EXCEPT !.children =
              bst_store(children, Head(key), trie_node_insert(child, Tail(key), item))]

trie_node_count(node) ==
  (IF node.data # NULL THEN 1 ELSE 0) + trie_children_count(node.children)

trie_children_count(node) ==
  IF node = NULL THEN 0
  ELSE trie_node_count(node.data)
       + trie_children_count(node.left) + trie_children_count(node.right)

trie_find(key) ==
  LET node == trie_node_find(root, key) IN IF node = NULL THEN NULL ELSE node.data

-----------------------------------------------------------------------------
(* The walk: its state is the buffers allocated so far, the keys collected *)
(* and whether something undefined has happened                            *)

NewBuffer(n) == [live |-> TRUE, chars |-> [i \in 0..n - 1 |-> 0]]
SizeOf(buf) == Cardinality(DOMAIN buf.chars)

\* tstrdup(str): up to the first zero.
StringIn(buf) ==
  LET zeros == {i \in DOMAIN buf.chars : buf.chars[i] = 0}
      len == CHOOSE i \in zeros : \A j \in zeros : i <= j
  IN  [i \in 1..len |-> buf.chars[i - 1]]

\* trealloc to twice the size: in place, or to a new buffer that takes over
\* the contents.  The walk and the index of the buffer.
Grow(w, b, moves) ==
  LET old == w.bufs[b].chars
      larger == [NewBuffer(2 * SizeOf(w.bufs[b])) EXCEPT
                   !.chars = [i \in DOMAIN @ |-> IF i \in DOMAIN old THEN old[i] ELSE 0]]
  IN  IF moves THEN <<[w EXCEPT !.bufs = Append([@ EXCEPT ![b].live = FALSE], larger)],
                      Len(w.bufs) + 1>>
      ELSE <<[w EXCEPT !.bufs[b] = larger], b>>

\* Mutant: the key is not ended.
collect_open(w, b, level) ==
  IF level + 1 >= SizeOf(w.bufs[b]) THEN [w EXCEPT !.fault = "past the end"]
  ELSE [w EXCEPT !.keys = Append(@, StringIn(w.bufs[b]))]

\* The end of the key, and its copy.
collect(w, b, level) ==
  IF level + 1 >= SizeOf(w.bufs[b]) THEN [w EXCEPT !.fault = "past the end"]
  ELSE LET ended == [w EXCEPT !.bufs[b].chars[level + 1] = 0]
       IN  [ended EXCEPT !.keys = Append(@, StringIn(ended.bufs[b]))]

RECURSIVE trie_node_prefix_find(_, _, _, _, _), children_prefix_find(_, _, _, _)

trie_node_prefix_find(node, chr, b, level, w) ==
  IF w.fault # NULL THEN w
  ELSE IF ~w.bufs[b].live THEN [w EXCEPT !.fault = "released"]
  ELSE IF level < 0 THEN [w EXCEPT !.fault = "before the start"]
  ELSE LET grown == IF level = SizeOf(w.bufs[b]) THEN Grow(w, b, w.moves) ELSE <<w, b>>
           c == grown[2]
           put == [grown[1] EXCEPT !.bufs[c].chars[level] = chr]
           kept == IF node.data = NULL THEN put ELSE collect(put, c, level)
       IN  IF node.children = NULL THEN kept
           ELSE children_prefix_find(node.children, c, level + 1, kept)

\* The node, then what is left and what is right of it.
children_prefix_find(node, b, level, w) ==
  IF node = NULL THEN w
  ELSE children_prefix_find(node.right, b, level,
         children_prefix_find(node.left, b, level,
           trie_node_prefix_find(node.data, node.key, b, level, w)))

\* Mutant: the buffer has room for the prefix only.
first_buffer_tight(prefix) == NewBuffer(Len(prefix) + 1)

first_buffer(prefix) == NewBuffer(BUFSIZE)

\* From the node at the end of the prefix, whose character is the last one.
walk(node, prefix, moves) ==
  LET buf == first_buffer(prefix)
      start == [bufs |-> <<[buf EXCEPT !.chars =
                              [i \in DOMAIN @ |-> IF i < Len(prefix) THEN prefix[i + 1] ELSE 0]]>>,
                keys |-> <<>>, fault |-> NULL, moves |-> moves]
      end == trie_node_prefix_find(node, IF prefix = <<>> THEN 0 ELSE Last(prefix),
                                   1, Len(prefix) - 1, start)
  IN  IF Len(prefix) >= SizeOf(buf) THEN [start EXCEPT !.fault = "past the end"]
      ELSE IF end.fault = NULL /\ ~end.bufs[1].live
           THEN [end EXCEPT !.fault = "released twice"]
      ELSE end

-----------------------------------------------------------------------------
(* Calls *)

\* Every tree of children below a node keeps its two sides' heights within one
\* of each other, so that bst_insert runs no rotation.
RECURSIVE NodesBalanced(_), ChildrenBalanced(_)
NodesBalanced(node) == Balanced(node.children) /\ ChildrenBalanced(node.children)
ChildrenBalanced(tree) ==
  tree # NULL => /\ NodesBalanced(tree.data)
                 /\ ChildrenBalanced(tree.left) /\ ChildrenBalanced(tree.right)

Init == root = trie_create_node /\ ret = <<"none">> /\ fault = NULL

trie_insert(key, item) ==
  /\ root' = trie_node_insert(root, key, item)
  /\ ret' = <<"insert", item>>
  /\ fault' = IF NodesBalanced(root') THEN NULL ELSE <<"rotation", key>>

Find(key) == ret' = <<"find", trie_find(key)>> /\ UNCHANGED <<root, fault>>

trie_delete(key) ==
  LET node == trie_node_find(root, key)
      found == key # <<>> /\ node # NULL /\ trie_find(key) # NULL
  IN  /\ root' = IF found THEN trie_node_store(root, key, [node EXCEPT !.data = NULL])
                 ELSE root
      /\ ret' = <<"delete", found>>
      /\ UNCHANGED fault

trie_prefix_delete(prefix) ==
  LET node == trie_node_find(root, prefix)
      item == IF prefix = <<>> THEN root.data ELSE NULL
  IN  /\ root' = IF node = NULL THEN root
                 ELSE trie_node_store(root, prefix, [data |-> item, children |-> NULL])
      /\ ret' = <<"prefix_delete">>
      /\ UNCHANGED fault

trie_prefix_count(prefix) ==
  LET node == trie_node_find(root, prefix)
  IN  /\ ret' = <<"count", IF node = NULL THEN 0 ELSE trie_node_count(node)>>
      /\ UNCHANGED <<root, fault>>

trie_prefix_find(prefix) ==
  /\ LET node == trie_node_find(root, prefix)
     IN  \/ node = NULL /\ ret' = <<"null">> /\ UNCHANGED fault
         \/ /\ node # NULL
            /\ \E moves \in BOOLEAN :
                 LET end == walk(node, prefix, moves)
                 IN  /\ ret' = <<"keys", end.keys>>
                     /\ fault' = IF end.fault = NULL THEN NULL ELSE <<end.fault, prefix>>
  /\ UNCHANGED root

M == INSTANCE KVMap WITH ret <- want, HasDestructor <- TRUE

Next ==
  /\ fault = NULL
  /\ \E k \in Keys :
       \/ \E i \in Items : trie_insert(k, i) /\ M!MInsert(k, i)
       \/ Find(k) /\ M!MFind(k)
       \/ trie_delete(k) /\ M!MDelete(k)
       \/ trie_prefix_delete(k) /\ M!MPrefixDelete(k)
       \/ trie_prefix_count(k) /\ M!MPrefixCount(k)
       \/ trie_prefix_find(k) /\ M!MPrefixFind(k)

WInit == Init /\ M!MInit

Spec == WInit /\ [][Next]_vars

-----------------------------------------------------------------------------
(* Properties *)

\* An answer that holds a key twice is no set of keys, and no answer is as good
\* as an empty one.
KeysIn(answer) ==
  IF answer = <<"null">> THEN <<"keys", {}>>
  ELSE IF answer[1] = "keys" /\ IsInjective(answer[2]) THEN <<"keys", Range(answer[2])>>
  ELSE answer

\* Down to the search trees of the children, which nothing ever balances, and
\* to the one buffer in which a prefix search leaves the ends of longer keys
\* behind, the trie answers every call as the abstract map does, until a
\* search runs into something undefined.
AnswersAsMap ==
  fault = NULL =>
    /\ \A k \in Keys : trie_find(k) = kv[k]
    /\ KeysIn(ret) = IF want = <<"null">> THEN <<"keys", {}>> ELSE want

\* A prefix search stays inside its buffer, and releases it once, as long as
\* the prefix is not empty and no key as long as the buffer has been stored
\* below it; a deleted one counts, because its nodes stay.  And no insertion
\* rotates a tree, however skewed, because of the heights bst_insert computes
\* (bst_rotate_left follows the left child where it means the right one).
WalkSafe ==
  fault # NULL => fault[1] # "rotation" /\
    \/ fault[2] = <<>>
    \/ \E k \in Keys : /\ IsPrefix(fault[2], k) /\ Len(k) >= BUFSIZE
                       /\ trie_node_find(root, k) # NULL

=============================================================================
