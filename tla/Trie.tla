-------------------------------- MODULE Trie --------------------------------
(***************************************************************************)
(* One trie under any sequence of calls of its interface (trie.h and the   *)
(* flush of db.c), with the life of the items it points to: an item is     *)
(* allocated by the caller of trie_insert and released by the trie.        *)
(***************************************************************************)
EXTENDS TrieOps

CONSTANTS Keys,   \* the keys and prefixes the callers use
          Items   \* the objects callers store, each allocated at most once

ASSUME KeysAssumption == Keys \subseteq Seq(Char) /\ Keys # {}
ASSUME NullAssumption == NULL \notin Items

VARIABLES trie,  \* [data, size]; no node at all once the root is released
          heap,  \* item -> "unused", "live" or "freed"
          ret    \* answer of the last call

vars == <<trie, heap, ret>>

Alive == <<>> \in DOMAIN trie.data

\* The items the nodes of S point to, and the heap after their release.
ItemsOf(t, S) == {t.data[q] : q \in WithData(t, S)}
Free(I) == [i \in Items |-> IF i \in I THEN "freed" ELSE heap[i]]
Allocated == {i \in Items : heap[i] = "live"}

Init ==
  /\ trie = trie_new
  /\ heap = [i \in Items |-> "unused"]
  /\ ret = <<"none">>

-----------------------------------------------------------------------------

Insert(k, i) ==
  /\ Alive /\ heap[i] = "unused"
  /\ trie' = trie_insert(trie, k, i)
  /\ heap' = [heap EXCEPT ![i] = "live"]
  /\ ret' = <<"insert", i>>

Find(k) ==
  /\ Alive
  /\ ret' = <<"find", trie_find(trie, k)>>
  /\ UNCHANGED <<trie, heap>>

Delete(k) ==
  /\ Alive
  /\ trie' = trie_delete(trie, k)
  /\ heap' = Free(IF k = <<>> THEN {} ELSE {trie_find(trie, k)})
  /\ ret' = <<"delete", trie_delete_ret(trie, k)>>

PrefixDelete(p) ==
  /\ Alive
  /\ trie' = trie_prefix_delete(trie, p)
  /\ heap' = Free(ItemsOf(trie, {q \in Subtree(trie, p) : q # <<>>}))
  /\ ret' = <<"prefix_delete">>

PrefixCount(p) ==
  /\ Alive
  /\ ret' = <<"count", trie_prefix_count(trie, p)>>
  /\ UNCHANGED <<trie, heap>>

PrefixFind(p) ==
  /\ Alive
  /\ ret' = trie_prefix_find(trie, p)
  /\ UNCHANGED <<trie, heap>>

\* trie_destroy, and database_flush: both end with the root released.
Destroy ==
  /\ Alive
  /\ trie' = trie_node_destroy(trie)
  /\ heap' = Free(ItemsOf(trie, DOMAIN trie.data))
  /\ ret' = <<"destroy">>

Next ==
  \/ \E k \in Keys :
       \/ \E i \in Items : Insert(k, i)
       \/ Find(k) \/ Delete(k)
       \/ PrefixDelete(k) \/ PrefixCount(k) \/ PrefixFind(k)
  \/ Destroy

Spec == Init /\ [][Next]_vars

-----------------------------------------------------------------------------
(* Properties *)

KeyCount == Cardinality(WithData(trie, DOMAIN trie.data))

\* Types: a finite set of paths over the alphabet, each with a pointer or NULL,
\* and a size that has not wrapped below zero.
TypeOK ==
  /\ trie = [data |-> trie.data, size |-> trie.size]
  /\ DOMAIN trie.data \subseteq Seq(Char) /\ IsFiniteSet(DOMAIN trie.data)
  /\ trie.data \in [DOMAIN trie.data -> Items \cup {NULL}]
  /\ trie.size \in Nat
  /\ heap \in [Items -> {"unused", "live", "freed"}]

\* No operation cuts a node off from the root: every ancestor of a node is a
\* node.  The character walk of trie_node_find reaches all of them only then,
\* and children_destroy must not leave an orphan behind.
PrefixClosed ==
  \A q \in DOMAIN trie.data : Prefixes(q) \subseteq DOMAIN trie.data

\* Every pointer a node holds is to an allocated item, and no two nodes hold
\* the same one: no later delete, prefix delete or destroy can release an
\* item twice or follow a released pointer.
ItemOwnership ==
  LET full == WithData(trie, DOMAIN trie.data) IN
  /\ \A q \in full : trie.data[q] \in Allocated
  /\ \A q, r \in full : trie.data[q] = trie.data[r] => q = r

\* t->size never falls below the number of keys stored, through any mix of
\* overwrites, deletes of absent keys and prefix deletes, so the decrement of
\* trie_delete cannot wrap; without a destructor it is that number.
SizeCoversKeys ==
  /\ KeyCount <= trie.size
  /\ ~HasDestructor => trie.size = KeyCount

\* t->size is the number of keys stored ("Release memory of a node while
\* updating size of the trie", trie.c).
SizeExact == Alive => trie.size = KeyCount

\* An item leaves the trie only by being released: none that is still
\* allocated is out of the trie's reach ("Fixed bug in insertion causing
\* memory leaks while updating keys", CHANGELOG).
NoItemLost == Allocated \subseteq ItemsOf(trie, DOMAIN trie.data)

\* The trie answers every call, whatever came before it, as the abstract map
\* does: range operations see exactly the keys with that prefix, and no
\* operation disturbs a key it was not asked about.
KV == INSTANCE KVMap WITH kv <- [k \in Keys |-> trie_find(trie, k)]
ImplementsMap == KV!MSpec
=============================================================================
