----------------------------- MODULE TrieProofs -----------------------------
(***************************************************************************)
(* Proofs about Trie, for every alphabet, every set of keys and items, and *)
(* with or without a destructor.                                           *)
(***************************************************************************)
EXTENDS Trie, TrieOpsProofs

-----------------------------------------------------------------------------
(* The inductive invariant and the safety theorem *)

IInv == TypeOK /\ PrefixClosed /\ ItemOwnership /\ SizeCoversKeys

\* The conjuncts of IInv about the trie alone are WellFormed; that every pointer
\* is to an item is part of ownership.
LEMMA IInvWellFormed ==
  IInv <=> /\ WellFormed(trie)
           /\ heap \in [Items -> {"unused", "live", "freed"}]
           /\ ItemOwnership
  <1>1. ASSUME IInv PROVE WellFormed(trie)
    <2>1. trie.data = [q \in DOMAIN trie.data |-> trie.data[q]]
      BY <1>1 DEF IInv, TypeOK
    <2>2. QED
      BY <1>1, <2>1
      DEF IInv, TypeOK, PrefixClosed, SizeCoversKeys, KeyCount, WellFormed, Full
  <1>2. ASSUME WellFormed(trie), ItemOwnership
        PROVE  trie.data \in [DOMAIN trie.data -> Items \cup {NULL}]
    BY <1>2 DEF WellFormed, ItemOwnership, WithData, Allocated
  <1>3. QED
    BY <1>1, <1>2
    DEF IInv, TypeOK, PrefixClosed, SizeCoversKeys, KeyCount, WellFormed, Full

\* The same of the state after a step.
LEMMA IInvWellFormedNext ==
  ASSUME WellFormed(trie'), ItemOwnership',
         heap' \in [Items -> {"unused", "live", "freed"}]
  PROVE  IInv'
  <1>1. trie'.data \in [DOMAIN trie'.data -> Items \cup {NULL}]
    BY DEF WellFormed, ItemOwnership, WithData, Allocated
  <1>2. QED
    BY <1>1 DEF IInv, TypeOK, PrefixClosed, SizeCoversKeys, KeyCount, WellFormed, Full

\* An empty trie is well formed and owns nothing.
LEMMA InitIInv == Init => IInv
  <1> SUFFICES ASSUME Init PROVE IInv
    OBVIOUS
  <1>1. WellFormed(trie) /\ Full(trie) = {}
    BY NewWellFormed DEF Init
  <1>2. ItemOwnership
    BY <1>1 DEF ItemOwnership, Full
  <1>3. heap \in [Items -> {"unused", "live", "freed"}]
    BY DEF Init
  <1>4. QED
    BY <1>1, <1>2, <1>3, IInvWellFormed

\* A step that only takes pointers out of the trie, and releases none that
\* stays, keeps ownership.
LEMMA OwnershipShrinks ==
  ASSUME ItemOwnership, Full(trie') \subseteq Full(trie),
         \A q \in Full(trie') : /\ trie'.data[q] = trie.data[q]
                               /\ trie.data[q] \in Allocated'
  PROVE  ItemOwnership'
  BY DEF ItemOwnership, Full

\* trie_insert stores an item no node held, as it was not allocated before.
LEMMA InsertIInv ==
  ASSUME IInv, NEW k \in Keys, NEW i \in Items, Insert(k, i)
  PROVE  IInv'
  <1>1. k \in Seq(Char) /\ WellFormed(trie)
    BY KeysAssumption, IInvWellFormed
  <1>2. trie' = trie_insert(trie, k, i) /\ heap[i] = "unused"
    BY DEF Insert
  <1>3. heap' \in [Items -> {"unused", "live", "freed"}]
    BY IInvWellFormed DEF Insert
  <1>4. /\ WellFormed(trie')
        /\ trie'.data[k] = i
        /\ \A q \in DOMAIN trie'.data \ {k} :
             trie'.data[q] = IF q \in DOMAIN trie.data THEN trie.data[q] ELSE NULL
        /\ Full(trie') = Full(trie) \cup {k}
    BY <1>1, <1>2, InsertWellFormed, NullAssumption
  <1>5. ItemOwnership'
    <2>1. \A q \in Full(trie') \ {k} : q \in Full(trie) /\ trie'.data[q] = trie.data[q]
      BY <1>4 DEF Full, WithData
    <2>2. \A q \in Full(trie) : trie.data[q] \in Allocated /\ trie.data[q] # i
      BY <1>2 DEF IInv, ItemOwnership, Full, Allocated
    <2>3. Allocated \cup {i} \subseteq Allocated'
      BY IInvWellFormed DEF Insert, Allocated
    <2>4. \A q \in Full(trie') : trie'.data[q] \in Allocated'
      BY <1>4, <2>1, <2>2, <2>3
    <2>5. \A q, r \in Full(trie') : trie'.data[q] = trie'.data[r] => q = r
      BY <1>4, <2>1, <2>2 DEF IInv, ItemOwnership, Full
    <2>6. QED
      BY <2>4, <2>5 DEF ItemOwnership, Full
  <1>6. QED
    BY <1>3, <1>4, <1>5, IInvWellFormedNext

\* trie_delete releases one item, and the only pointer to it is cleared.
LEMMA DeleteIInv ==
  ASSUME IInv, NEW k \in Keys, Delete(k)
  PROVE  IInv'
  <1>1. k \in Seq(Char) /\ WellFormed(trie)
    BY KeysAssumption, IInvWellFormed
  <1>2. /\ trie' = trie_delete(trie, k)
        /\ heap' = Free(IF k = <<>> THEN {} ELSE {trie_find(trie, k)})
    BY DEF Delete
  <1>3. heap' \in [Items -> {"unused", "live", "freed"}]
    BY <1>2, IInvWellFormed DEF Free
  <1>4. /\ WellFormed(trie') /\ DOMAIN trie'.data = DOMAIN trie.data
        /\ \A q \in DOMAIN trie.data :
             trie'.data[q] = IF q = k /\ k # <<>> THEN NULL ELSE trie.data[q]
    BY <1>1, <1>2, DeleteWellFormed
  <1>5. ASSUME NEW q \in Full(trie')
        PROVE  /\ q \in Full(trie) /\ trie'.data[q] = trie.data[q]
               /\ trie.data[q] \in Allocated'
    <2>1. /\ q \in Full(trie) /\ trie'.data[q] = trie.data[q]
          /\ ~(q = k /\ k # <<>>)
      BY <1>4 DEF Full, WithData
    <2>2. trie.data[q] \in Allocated
      BY <2>1 DEF IInv, ItemOwnership, Full
    <2>3. k # <<>> => trie.data[q] # trie_find(trie, k)
      BY <1>1, <2>1, <2>2, WalkFindsNode, NullAssumption
      DEF IInv, ItemOwnership, Full, WithData, Allocated
    <2>4. QED
      BY <1>2, <2>1, <2>2, <2>3 DEF Free, Allocated
  <1>6. ItemOwnership'
    BY <1>5, OwnershipShrinks DEF IInv
  <1>7. QED
    BY <1>3, <1>4, <1>6, IInvWellFormedNext

\* trie_prefix_delete releases the items of a subtree and cuts that subtree.
LEMMA PrefixDeleteIInv ==
  ASSUME IInv, NEW p \in Keys, PrefixDelete(p)
  PROVE  IInv'
  <1> DEFINE S == {q \in Subtree(trie, p) : q # <<>>}
  <1>1. p \in Seq(Char) /\ WellFormed(trie)
    BY KeysAssumption, IInvWellFormed
  <1>2. trie' = trie_prefix_delete(trie, p) /\ heap' = Free(ItemsOf(trie, S))
    BY DEF PrefixDelete
  <1>3. heap' \in [Items -> {"unused", "live", "freed"}]
    BY <1>2, IInvWellFormed DEF Free
  <1>4. /\ WellFormed(trie')
        /\ DOMAIN trie'.data = DOMAIN trie.data \ NodesBelow(trie, p)
        /\ \A q \in DOMAIN trie'.data :
             trie'.data[q] = IF q = p /\ p # <<>> THEN NULL ELSE trie.data[q]
    BY <1>1, <1>2, PrefixDeleteWellFormed
  <1>5. ASSUME NEW q \in Full(trie')
        PROVE  /\ q \in Full(trie) /\ trie'.data[q] = trie.data[q]
               /\ trie.data[q] \in Allocated'
    <2>1. /\ q \in Full(trie) /\ trie'.data[q] = trie.data[q]
          /\ ~(q = p /\ p # <<>>) /\ q \notin NodesBelow(trie, p)
      BY <1>4 DEF Full, WithData
    <2>2. trie.data[q] \in Allocated
      BY <2>1 DEF IInv, ItemOwnership, Full
    <2>3. q \notin S
      BY <2>1 DEF Subtree, NodesBelow, IsStrictPrefix
    <2>4. trie.data[q] \notin ItemsOf(trie, S)
      BY <2>1, <2>3 DEF IInv, ItemOwnership, ItemsOf, Full, WithData, Subtree
    <2>5. QED
      BY <1>2, <2>1, <2>2, <2>4 DEF Free, Allocated
  <1>6. ItemOwnership'
    BY <1>5, OwnershipShrinks DEF IInv
  <1>7. QED
    BY <1>3, <1>4, <1>6, IInvWellFormedNext

\* Destroying the whole trie leaves no pointer to follow.
LEMMA DestroyIInv ==
  ASSUME IInv, Destroy
  PROVE  IInv'
  <1>1. WellFormed(trie') /\ DOMAIN trie'.data = {}
    BY IInvWellFormed, DestroyWellFormed DEF Destroy
  <1>2. heap' \in [Items -> {"unused", "live", "freed"}]
    BY IInvWellFormed DEF Destroy, Free
  <1>3. ItemOwnership'
    BY <1>1 DEF ItemOwnership, WithData
  <1>4. QED
    BY <1>1, <1>2, <1>3, IInvWellFormedNext

\* Every step of the trie keeps the inductive invariant.
LEMMA NextIInv == IInv /\ [Next]_vars => IInv'
  <1> SUFFICES ASSUME IInv, [Next]_vars PROVE IInv'
    OBVIOUS
  <1>1. ASSUME NEW k \in Keys, NEW i \in Items, Insert(k, i) PROVE IInv'
    BY <1>1, InsertIInv
  <1>2. ASSUME NEW k \in Keys, Delete(k) PROVE IInv'
    BY <1>2, DeleteIInv
  <1>3. ASSUME NEW k \in Keys, PrefixDelete(k) PROVE IInv'
    BY <1>3, PrefixDeleteIInv
  <1>4. CASE Destroy
    BY <1>4, DestroyIInv
  <1>5. CASE UNCHANGED <<trie, heap>>
    BY <1>5 DEF IInv, TypeOK, PrefixClosed, ItemOwnership, SizeCoversKeys,
                KeyCount, Allocated, WithData
  <1>6. QED
    BY <1>1, <1>2, <1>3, <1>4, <1>5 DEF Next, vars, Find, PrefixCount, PrefixFind

\* For every alphabet, key set and item set: the nodes stay prefix closed, no
\* pointer dangles or is shared, and the size never falls below the number of
\* keys (and equals it when there is no destructor).
THEOREM TrieSafety ==
  Spec => [](TypeOK /\ PrefixClosed /\ ItemOwnership /\ SizeCoversKeys)
  <1>1. IInv => TypeOK /\ PrefixClosed /\ ItemOwnership /\ SizeCoversKeys
    BY DEF IInv
  <1>2. QED
    BY <1>1, InitIInv, NextIInv, PTL DEF Spec

\* The size that insertions, deletions and range deletions keep in three places
\* is never below the number of keys.
THEOREM SizeIsCovered == Spec => []SizeCoversKeys
  BY TrieSafety, PTL

-----------------------------------------------------------------------------
(* The trie implements the map of KVMap.  Besides IInv this needs that the *)
(* trie stores nothing under a path no caller named.                       *)

RInv == IInv /\ Full(trie) \subseteq Keys

\* The value the refinement mapping gives a key.
Stored(k) == IF k \in DOMAIN trie.data THEN trie.data[k] ELSE NULL

\* The mapped state, now and after a step.
LEMMA MappedState ==
  ASSUME IInv
  PROVE  /\ [k \in Keys |-> trie_find(trie, k)] = [k \in Keys |-> Stored(k)]
         /\ \A k \in Keys : /\ trie_find(trie, k) = Stored(k)
                            /\ trie_node_find(trie, k) <=> k \in DOMAIN trie.data
  BY IInvWellFormed, WalkFindsNode, KeysAssumption DEF Stored

\* The same of the state after a step that keeps the inductive invariant.
LEMMA MappedStateNext ==
  ASSUME IInv'
  PROVE  [k \in Keys |-> trie_find(trie, k)]' = [k \in Keys |-> Stored(k)']
  <1>1. WellFormed(trie')
    BY DEF IInv, TypeOK, PrefixClosed, SizeCoversKeys, KeyCount, WellFormed, Full
  <1>2. QED
    BY <1>1, WalkFindsNode, KeysAssumption DEF Stored

\* KVMap reads IsPrefix through its own copy of the library.
LEMMA SamePrefix == \A p, q : KV!IsPrefix(p, q) <=> IsPrefix(p, q)
  BY DEF IsPrefix, KV!IsPrefix

\* KVMap counts with its own copy of Cardinality.
LEMMA SameCardinality == \A S : KV!Cardinality(S) = Cardinality(S)
  BY DEF Cardinality, KV!Cardinality

\* The keys a range operation meets below p are those that match in the map.
LEMMA SubtreeMatches ==
  ASSUME RInv, NEW p \in Keys
  PROVE  /\ KV!Matches(p) = WithData(trie, Subtree(trie, p))
         /\ p \notin DOMAIN trie.data => KV!Matches(p) = {}
  <1>1. IInv /\ WellFormed(trie) /\ Full(trie) \subseteq Keys
    BY IInvWellFormed DEF RInv
  <1>2. KV!Matches(p) = {k \in Keys : IsPrefix(p, k) /\ Stored(k) # NULL}
    BY <1>1, MappedState, SamePrefix DEF KV!Matches
  <1>3. KV!Matches(p) = WithData(trie, Subtree(trie, p))
    BY <1>1, <1>2 DEF Stored, WithData, Subtree, Full
  <1>4. ASSUME NEW q \in DOMAIN trie.data, IsPrefix(p, q) PROVE p \in DOMAIN trie.data
    <2>1. q \in Seq(Char) /\ p \in Seq(Char) /\ Prefixes(q) \subseteq DOMAIN trie.data
      BY <1>1, KeysAssumption DEF WellFormed
    <2>2. QED
      BY <1>4, <2>1, PrefixesAreIsPrefix
  <1>5. QED
    BY <1>3, <1>4 DEF WithData, Subtree

\* The empty trie is the empty map.
LEMMA InitMapped == Init => RInv /\ KV!MInit
  <1> SUFFICES ASSUME Init PROVE RInv /\ KV!MInit
    OBVIOUS
  <1>1. IInv
    BY InitIInv
  <1>2. \A q \in DOMAIN trie.data : trie.data[q] = NULL
    BY DEF Init, trie_new
  <1>3. RInv
    BY <1>1, <1>2 DEF RInv, Full, WithData
  <1>4. \A k \in Keys : Stored(k) = NULL
    BY <1>2 DEF Stored
  <1>5. QED
    BY <1>1, <1>3, <1>4, MappedState DEF KV!MInit, Init

\* trie_insert stores the item in the map, under its key alone.
LEMMA InsertMapped ==
  ASSUME RInv, IInv', NEW k \in Keys, NEW i \in Items, Insert(k, i)
  PROVE  Full(trie') \subseteq Keys /\ KV!MInsert(k, i)
  <1>1. IInv /\ WellFormed(trie) /\ k \in Seq(Char)
    BY IInvWellFormed, KeysAssumption DEF RInv
  <1>2. /\ DOMAIN trie'.data = DOMAIN trie.data \cup Prefixes(k)
        /\ trie'.data[k] = i
        /\ \A q \in DOMAIN trie'.data \ {k} :
             trie'.data[q] = IF q \in DOMAIN trie.data THEN trie.data[q] ELSE NULL
        /\ Full(trie') = Full(trie) \cup {k}
    BY <1>1, InsertWellFormed, NullAssumption DEF Insert
  <1>3. k \in DOMAIN trie'.data
    BY <1>1, <1>2, PrefixesAreIsPrefix, PrefixOrder
  <1>4. \A q \in Keys : Stored(q)' = IF q = k THEN i ELSE Stored(q)
    BY <1>2, <1>3 DEF Stored
  <1>5. [q \in Keys |-> trie_find(trie, q)]'
          = [[q \in Keys |-> trie_find(trie, q)] EXCEPT ![k] = i]
    BY <1>1, <1>4, MappedState, MappedStateNext, Zenon
  <1>6. QED
    BY <1>2, <1>5 DEF RInv, KV!MInsert, Insert

\* trie_delete takes a present key out of the map and refuses an absent one.
LEMMA DeleteMapped ==
  ASSUME RInv, IInv', NEW k \in Keys, Delete(k)
  PROVE  Full(trie') \subseteq Keys /\ KV!MDelete(k)
  <1>1. IInv /\ WellFormed(trie) /\ k \in Seq(Char)
    BY IInvWellFormed, KeysAssumption DEF RInv
  <1>2. /\ DOMAIN trie'.data = DOMAIN trie.data
        /\ \A q \in DOMAIN trie.data :
             trie'.data[q] = IF q = k /\ k # <<>> THEN NULL ELSE trie.data[q]
    BY <1>1, DeleteWellFormed DEF Delete
  <1>3. Full(trie') \subseteq Keys
    BY <1>2 DEF RInv, Full, WithData
  <1>4. \A q \in Keys : Stored(q)' = IF q = k /\ k # <<>> THEN NULL ELSE Stored(q)
    BY <1>2 DEF Stored
  <1>5. [q \in Keys |-> trie_find(trie, q)]'
          = IF k = <<>> THEN [q \in Keys |-> trie_find(trie, q)]
            ELSE [[q \in Keys |-> trie_find(trie, q)] EXCEPT ![k] = NULL]
    BY <1>1, <1>4, MappedState, MappedStateNext
  <1> DEFINE b == trie_delete_ret(trie, k)
  <1>6. /\ b \in BOOLEAN /\ ret' = <<"delete", b>>
        /\ k # <<>> /\ trie_find(trie, k) # NULL => b
        /\ HasDestructor => (b <=> k # <<>> /\ trie_find(trie, k) # NULL)
    BY <1>1 DEF Delete, trie_delete_ret, trie_find, trie_node_find
  <1> HIDE DEF b
  <1>7. QED
    BY <1>3, <1>5, <1>6 DEF KV!MDelete

\* trie_prefix_delete takes exactly the keys that match out of the map.
LEMMA PrefixDeleteMapped ==
  ASSUME RInv, IInv', NEW p \in Keys, PrefixDelete(p)
  PROVE  Full(trie') \subseteq Keys /\ KV!MPrefixDelete(p)
  <1>1. IInv /\ WellFormed(trie) /\ p \in Seq(Char)
    BY IInvWellFormed, KeysAssumption DEF RInv
  <1>2. /\ DOMAIN trie'.data = DOMAIN trie.data \ NodesBelow(trie, p)
        /\ \A q \in DOMAIN trie'.data :
             trie'.data[q] = IF q = p /\ p # <<>> THEN NULL ELSE trie.data[q]
    BY <1>1, PrefixDeleteWellFormed DEF PrefixDelete
  <1>3. Full(trie') \subseteq Keys
    BY <1>2 DEF RInv, Full, WithData
  <1>4. ASSUME NEW q \in Keys
        PROVE  Stored(q)' = IF IsPrefix(p, q) /\ q # <<>> THEN NULL ELSE Stored(q)
    <2>1. q \in Seq(Char)
      BY KeysAssumption
    <2>2. IsPrefix(p, p) /\ IsPrefix(<<>>, p) /\ <<>> \in Seq(Char)
      BY <1>1, PrefixOrder
    <2>3. IsPrefix(p, <<>>) => p = <<>>
      BY <1>1, <2>2, PrefixOrder, Zenon
    <2>4. q \in NodesBelow(trie, p) <=> q \in DOMAIN trie.data /\ IsPrefix(p, q) /\ p # q
      BY DEF NodesBelow, IsStrictPrefix
    <2>5. CASE q = <<>>
      BY <1>2, <2>3, <2>4, <2>5 DEF Stored
    <2>6. CASE q # <<>>
      BY <1>2, <2>2, <2>4, <2>6 DEF Stored
    <2>7. QED
      BY <2>5, <2>6
  <1>5. [q \in Keys |-> trie_find(trie, q)]'
          = [q \in Keys |-> IF IsPrefix(p, q) /\ q # <<>> THEN NULL
                            ELSE [r \in Keys |-> trie_find(trie, r)][q]]
    BY <1>1, <1>4, MappedState, MappedStateNext
  <1>6. QED
    BY <1>3, <1>5, SamePrefix DEF KV!MPrefixDelete, PrefixDelete

\* Destroying the root empties the map.
LEMMA DestroyMapped ==
  ASSUME RInv, IInv', Destroy
  PROVE  Full(trie') \subseteq Keys /\ KV!MDestroy
  <1>1. DOMAIN trie'.data = {}
    BY IInvWellFormed, DestroyWellFormed DEF RInv, Destroy
  <1>2. Full(trie') \subseteq Keys /\ \A q \in Keys : Stored(q)' = NULL
    BY <1>1 DEF Full, WithData, Stored
  <1>3. QED
    BY <1>2, MappedStateNext DEF KV!MDestroy, Destroy

\* The calls that only read: the map stays and the answer is the map's.
LEMMA ReadsMapped ==
  ASSUME RInv, NEW k \in Keys
  PROVE  /\ Find(k) => KV!MFind(k)
         /\ PrefixCount(k) => KV!MPrefixCount(k)
         /\ PrefixFind(k) => KV!MPrefixFind(k)
  <1>1. IInv
    BY DEF RInv
  <1>2. trie_node_find(trie, k) <=> k \in DOMAIN trie.data
    BY <1>1, MappedState
  <1>3. Find(k) => KV!MFind(k)
    BY DEF Find, KV!MFind
  <1>4. Cardinality({}) = 0
    BY FS_EmptySet
  <1>5. trie_prefix_count(trie, k) = Cardinality(KV!Matches(k))
    BY <1>2, <1>4, SubtreeMatches DEF trie_prefix_count
  <1>6. PrefixCount(k) => KV!MPrefixCount(k)
    BY <1>5, SameCardinality DEF PrefixCount, KV!MPrefixCount, trie_find, trie_node_find
  <1>7. \/ trie_prefix_find(trie, k) = <<"keys", KV!Matches(k)>>
        \/ KV!Matches(k) = {} /\ trie_prefix_find(trie, k) = <<"null">>
    BY <1>2, SubtreeMatches DEF trie_prefix_find
  <1>8. PrefixFind(k) => KV!MPrefixFind(k)
    BY <1>7 DEF PrefixFind, KV!MPrefixFind
  <1>9. QED
    BY <1>3, <1>6, <1>8

\* Every step of the trie is a step of the map or leaves it alone.
LEMMA NextMapped ==
  RInv /\ [Next]_vars => RInv' /\ [KV!MNext]_(KV!mvars)
  <1> SUFFICES ASSUME RInv, [Next]_vars PROVE RInv' /\ [KV!MNext]_(KV!mvars)
    OBVIOUS
  <1>0. IInv'
    BY NextIInv DEF RInv
  <1>1. ASSUME NEW k \in Keys, NEW i \in Items, Insert(k, i)
        PROVE  RInv' /\ KV!MNext
    BY <1>0, <1>1, InsertMapped DEF RInv, KV!MNext
  <1>2. ASSUME NEW k \in Keys, Delete(k) PROVE RInv' /\ KV!MNext
    BY <1>0, <1>2, DeleteMapped DEF RInv, KV!MNext
  <1>3. ASSUME NEW k \in Keys, PrefixDelete(k) PROVE RInv' /\ KV!MNext
    BY <1>0, <1>3, PrefixDeleteMapped DEF RInv, KV!MNext
  <1>4. CASE Destroy
    BY <1>0, <1>4, DestroyMapped DEF RInv, KV!MNext
  <1>5. ASSUME NEW k \in Keys, Find(k) \/ PrefixCount(k) \/ PrefixFind(k)
        PROVE  RInv' /\ KV!MNext
    <2>1. trie' = trie
      BY <1>5 DEF Find, PrefixCount, PrefixFind
    <2>2. RInv'
      BY <1>0, <2>1 DEF RInv, Full, WithData
    <2>3. QED
      BY <1>5, <2>2, ReadsMapped DEF KV!MNext
  <1>6. CASE UNCHANGED vars
    BY <1>0, <1>6 DEF RInv, Full, WithData, vars, KV!mvars, trie_find, trie_node_find
  <1>7. QED
    BY <1>1, <1>2, <1>3, <1>4, <1>5, <1>6 DEF Next

\* For every alphabet, key set and item set, whatever the sequence of calls:
\* trie.c answers each of them as the map of KVMap does, and stores what that
\* map stores.
THEOREM TrieImplementsMap == Spec => ImplementsMap
  BY InitMapped, NextMapped, PTL DEF Spec, ImplementsMap, KV!MSpec
=============================================================================
