--------------------------- MODULE TrieOpsProofs ----------------------------
(***************************************************************************)
(* What the operators of TrieOps keep true of a trie, for every alphabet   *)
(* and with or without a destructor: the lemmas that the proofs about Trie *)
(* and about Keyspace rest on.                                             *)
(***************************************************************************)
EXTENDS TrieOps, FiniteSetTheorems, TLAPS

-----------------------------------------------------------------------------
(* Prefixes of sequences *)

\* The elements of a sequence are in the set it is over.
LEMMA SeqElements ==
  ASSUME NEW S, NEW s \in Seq(S)
  PROVE  Len(s) \in Nat /\ DOMAIN s = 1..Len(s) /\ \A i \in 1..Len(s) : s[i] \in S
  OBVIOUS

\* The members of Prefixes(q), given by their length and elements.
LEMMA PrefixElements ==
  ASSUME NEW q \in Seq(Char), NEW n \in 0..Len(q)
  PROVE  /\ SubSeq(q, 1, n) \in Seq(Char)
         /\ Len(SubSeq(q, 1, n)) = n
         /\ \A i \in 1..n : SubSeq(q, 1, n)[i] = q[i]
  OBVIOUS

\* IsPrefix compares element by element.
LEMMA IsPrefixElements ==
  ASSUME NEW p \in Seq(Char), NEW q \in Seq(Char)
  PROVE  IsPrefix(p, q) <=> /\ Len(p) <= Len(q)
                            /\ \A i \in 1..Len(p) : p[i] = q[i]
  BY DEF IsPrefix

\* Prefixes(q) is the set of sequences that are a prefix of q.
LEMMA PrefixesAreIsPrefix ==
  ASSUME NEW q \in Seq(Char)
  PROVE  /\ Prefixes(q) \subseteq Seq(Char)
         /\ \A p \in Seq(Char) : p \in Prefixes(q) <=> IsPrefix(p, q)
  <1>1. Prefixes(q) \subseteq Seq(Char)
    BY PrefixElements DEF Prefixes
  <1>2. ASSUME NEW p \in Seq(Char), p \in Prefixes(q)
        PROVE  IsPrefix(p, q)
    <2>1. PICK n \in 0..Len(q) : p = SubSeq(q, 1, n)
      BY <1>2 DEF Prefixes
    <2>2. Len(p) = n /\ \A i \in 1..n : p[i] = q[i]
      BY <2>1, PrefixElements, SMTT(30)
    <2>3. QED
      BY <2>2, IsPrefixElements
  <1>3. ASSUME NEW p \in Seq(Char), IsPrefix(p, q)
        PROVE  p \in Prefixes(q)
    <2>1. Len(p) \in 0..Len(q) /\ p = SubSeq(q, 1, Len(p))
      BY <1>3 DEF IsPrefix
    <2>2. QED
      BY <2>1, Zenon DEF Prefixes
  <1>4. QED
    BY <1>1, <1>2, <1>3

\* IsPrefix is a partial order with least element <<>>.
LEMMA PrefixOrder ==
  ASSUME NEW p \in Seq(Char), NEW q \in Seq(Char), NEW r \in Seq(Char)
  PROVE  /\ IsPrefix(q, q)
         /\ IsPrefix(<<>>, q)
         /\ IsPrefix(p, q) /\ IsPrefix(q, r) => IsPrefix(p, r)
         /\ IsPrefix(p, q) /\ IsPrefix(q, p) => p = q
  <1>1. Len(p) \in Nat /\ Len(q) \in Nat /\ Len(r) \in Nat
    OBVIOUS
  <1>2. <<>> \in Seq(Char) /\ Len(<<>>) = 0
    OBVIOUS
  <1>3. IsPrefix(q, q)
    BY <1>1, IsPrefixElements
  <1>4. IsPrefix(<<>>, q)
    <2>1. ASSUME NEW e \in Seq(Char), Len(e) = 0
          PROVE  IsPrefix(e, q)
      <3>1. Len(e) <= Len(q) /\ \A i \in 1..Len(e) : e[i] = q[i]
        BY <1>1, <2>1
      <3>2. QED
        BY <3>1, IsPrefixElements
    <2>2. QED
      BY <1>2, <2>1, Zenon
  <1>5. ASSUME IsPrefix(p, q), IsPrefix(q, r)
        PROVE  IsPrefix(p, r)
    BY <1>1, <1>5, IsPrefixElements
  <1>6. ASSUME IsPrefix(p, q), IsPrefix(q, p)
        PROVE  p = q
    BY <1>1, <1>6, IsPrefixElements
  <1>7. QED
    BY <1>3, <1>4, <1>5, <1>6

\* A sequence has finitely many prefixes.
LEMMA PrefixesFinite ==
  ASSUME NEW q \in Seq(Char)
  PROVE  IsFiniteSet(Prefixes(q))
  <1>1. IsFiniteSet(0..Len(q))
    BY FS_Interval
  <1>2. [n \in 0..Len(q) |-> SubSeq(q, 1, n)] \in Surjection(0..Len(q), Prefixes(q))
    BY DEF Prefixes, Surjection
  <1>3. QED
    BY <1>1, <1>2, FS_Surjection

-----------------------------------------------------------------------------
(* The operators keep a trie well formed *)

Full(t) == WithData(t, DOMAIN t.data)

\* A finite, prefix-closed set of nodes, and a size that covers the keys.
WellFormed(t) ==
  /\ t = [data |-> t.data, size |-> t.size]
  /\ DOMAIN t.data \subseteq Seq(Char) /\ IsFiniteSet(DOMAIN t.data)
  /\ t.data = [q \in DOMAIN t.data |-> t.data[q]]
  /\ t.size \in Nat
  /\ \A q \in DOMAIN t.data : Prefixes(q) \subseteq DOMAIN t.data
  /\ Cardinality(Full(t)) <= t.size
  /\ ~HasDestructor => t.size = Cardinality(Full(t))

\* The nodes with data are finitely many.
LEMMA FullFinite ==
  ASSUME NEW t, IsFiniteSet(DOMAIN t.data), NEW S \in SUBSET DOMAIN t.data
  PROVE  /\ IsFiniteSet(WithData(t, S))
         /\ Cardinality(WithData(t, S)) \in Nat
         /\ IsFiniteSet(Full(t))
         /\ Cardinality(Full(t)) \in Nat
  <1>1. WithData(t, S) \in SUBSET DOMAIN t.data /\ Full(t) \in SUBSET DOMAIN t.data
    BY DEF WithData, Full
  <1>2. QED
    BY <1>1, FS_Subset, FS_CardinalityType

\* In a prefix-closed trie the walk to k succeeds exactly when k is a node.
LEMMA WalkFindsNode ==
  ASSUME NEW t, WellFormed(t), NEW k \in Seq(Char)
  PROVE  /\ trie_node_find(t, k) <=> k \in DOMAIN t.data
         /\ trie_find(t, k) = IF k \in DOMAIN t.data THEN t.data[k] ELSE NULL
  <1>1. k \in Prefixes(k)
    BY PrefixesAreIsPrefix, PrefixOrder
  <1>2. trie_node_find(t, k) <=> k \in DOMAIN t.data
    BY <1>1 DEF trie_node_find, WellFormed
  <1>3. QED
    BY <1>2 DEF trie_find

\* trie_new: one node, the root, without data.
LEMMA NewWellFormed == WellFormed(trie_new) /\ Full(trie_new) = {}
  <1> DEFINE t == trie_new
  <1>1. t = [data |-> t.data, size |-> t.size] /\ t.size = 0
    BY DEF trie_new
  <1>2. /\ DOMAIN t.data = {<<>>} /\ t.data[<<>>] = NULL
        /\ t.data = [q \in DOMAIN t.data |-> t.data[q]]
    BY DEF trie_new
  <1> HIDE DEF t
  <1>3. Full(t) = {} /\ Cardinality(Full(t)) = 0
    BY <1>2, FS_EmptySet DEF Full, WithData
  <1>4. DOMAIN t.data \subseteq Seq(Char) /\ IsFiniteSet(DOMAIN t.data)
    <2>1. <<>> \in Seq(Char)
      OBVIOUS
    <2>2. IsFiniteSet({<<>>})
      BY FS_Singleton, Zenon
    <2>3. QED
      BY <1>2, <2>1, <2>2
  <1>5. Prefixes(<<>>) \subseteq {<<>>}
    <2>1. SUFFICES ASSUME NEW p \in Prefixes(<<>>) PROVE p = <<>>
      OBVIOUS
    <2>2. <<>> \in Seq(Char)
      OBVIOUS
    <2>3. p \in Seq(Char) /\ IsPrefix(p, <<>>)
      BY <2>2, PrefixesAreIsPrefix, Zenon
    <2>4. QED
      BY <2>2, <2>3, PrefixOrder, Zenon
  <1>6. WellFormed(t)
    BY <1>1, <1>2, <1>3, <1>4, <1>5 DEF WellFormed
  <1>7. QED
    BY <1>3, <1>6 DEF t

\* trie_insert: the path is created whole and only k changes its pointer.
LEMMA InsertWellFormed ==
  ASSUME NEW t, WellFormed(t), NEW k \in Seq(Char), NEW i, i # NULL
  PROVE  LET u == trie_insert(t, k, i) IN
         /\ WellFormed(u)
         /\ DOMAIN u.data = DOMAIN t.data \cup Prefixes(k)
         /\ u.data[k] = i
         /\ \A q \in DOMAIN u.data \ {k} :
              u.data[q] = IF q \in DOMAIN t.data THEN t.data[q] ELSE NULL
         /\ Full(u) = Full(t) \cup {k}
  <1> DEFINE u == trie_insert(t, k, i)
  <1>1. /\ k \in Prefixes(k) /\ Prefixes(k) \subseteq Seq(Char)
        /\ IsFiniteSet(Prefixes(k))
    BY PrefixesAreIsPrefix, PrefixOrder, PrefixesFinite
  <1>2. /\ u = [data |-> u.data, size |-> u.size]
        /\ u.size = IF trie_find(t, k) = NULL THEN t.size + 1 ELSE t.size
    BY DEF trie_insert
  <1>dom. DOMAIN u.data = DOMAIN t.data \cup Prefixes(k)
    BY DEF trie_insert
  <1>val. /\ u.data[k] = i
          /\ \A q \in DOMAIN u.data \ {k} :
               u.data[q] = IF q \in DOMAIN t.data THEN t.data[q] ELSE NULL
    BY <1>1 DEF trie_insert
  <1>3. u.data = [q \in DOMAIN u.data |-> u.data[q]]
    BY <1>1 DEF trie_insert, WellFormed
  <1> HIDE DEF u
  <1>4. DOMAIN u.data \subseteq Seq(Char) /\ IsFiniteSet(DOMAIN u.data)
    <2>1. DOMAIN t.data \subseteq Seq(Char) /\ IsFiniteSet(DOMAIN t.data)
      BY DEF WellFormed
    <2>2. QED
      BY <1>1, <1>dom, <2>1, FS_Union, Zenon
  <1>5. \A q \in DOMAIN u.data : Prefixes(q) \subseteq DOMAIN u.data
    <2>1. ASSUME NEW q \in Prefixes(k), NEW r \in Prefixes(q)
          PROVE  r \in Prefixes(k)
      <3>1. q \in Seq(Char) /\ IsPrefix(q, k)
        BY <1>1, PrefixesAreIsPrefix
      <3>2. r \in Seq(Char) /\ IsPrefix(r, q)
        BY <2>1, <3>1, PrefixesAreIsPrefix
      <3>3. QED
        BY <3>1, <3>2, PrefixOrder, PrefixesAreIsPrefix
    <2>2. \A q \in DOMAIN t.data : Prefixes(q) \subseteq DOMAIN t.data
      BY DEF WellFormed
    <2>3. QED
      BY <1>dom, <2>1, <2>2
  <1>6. Full(u) = Full(t) \cup {k}
    BY <1>1, <1>dom, <1>val DEF Full, WithData
  <1>7. k \in Full(t) <=> trie_find(t, k) # NULL
    BY WalkFindsNode DEF Full, WithData
  <1>8. IsFiniteSet(Full(t)) /\ Cardinality(Full(t)) \in Nat
    BY FullFinite, Zenon DEF WellFormed
  <1>9. Cardinality(Full(u)) =
          IF k \in Full(t) THEN Cardinality(Full(t)) ELSE Cardinality(Full(t)) + 1
    BY <1>6, <1>8, FS_AddElement, SMTT(30)
  <1>10. /\ u.size \in Nat
         /\ Cardinality(Full(u)) <= u.size
         /\ ~HasDestructor => u.size = Cardinality(Full(u))
    BY <1>2, <1>7, <1>8, <1>9 DEF WellFormed
  <1>11. QED
    <2>1. WellFormed(u)
      BY <1>2, <1>3, <1>4, <1>5, <1>10 DEF WellFormed
    <2>2. QED
      BY <2>1, <1>dom, <1>val, <1>6 DEF u

\* trie_delete: nodes stay, and k alone loses its pointer.
LEMMA DeleteWellFormed ==
  ASSUME NEW t, WellFormed(t), NEW k \in Seq(Char)
  PROVE  LET u == trie_delete(t, k) IN
         /\ WellFormed(u)
         /\ DOMAIN u.data = DOMAIN t.data
         /\ \A q \in DOMAIN t.data :
              u.data[q] = IF q = k /\ k # <<>> THEN NULL ELSE t.data[q]
  <1> DEFINE u == trie_delete(t, k)
  <1>1. CASE k # <<>> /\ trie_find(t, k) # NULL
    <2>1. k \in Full(t)
      BY <1>1, WalkFindsNode DEF Full, WithData
    <2>2. /\ u = [data |-> u.data, size |-> u.size]
          /\ u.size = t.size - 1
      BY <1>1 DEF trie_delete
    <2>dom. DOMAIN u.data = DOMAIN t.data
      BY <1>1 DEF trie_delete
    <2>val. \A q \in DOMAIN t.data : u.data[q] = IF q = k THEN NULL ELSE t.data[q]
      BY <1>1 DEF trie_delete
    <2>3. u.data = [q \in DOMAIN u.data |-> u.data[q]]
      BY <1>1 DEF trie_delete, WellFormed
    <2> HIDE DEF u
    <2>4. Full(u) = Full(t) \ {k}
      BY <2>dom, <2>val DEF Full, WithData
    <2>5. IsFiniteSet(Full(t)) /\ Cardinality(Full(t)) \in Nat
      BY FullFinite, Zenon DEF WellFormed
    <2>6. Cardinality(Full(u)) = Cardinality(Full(t)) - 1
      BY <2>1, <2>4, <2>5, FS_RemoveElement, Zenon
    <2>7. Cardinality(Full(u)) \in Nat
      BY <2>4, <2>5, FS_RemoveElement, FS_CardinalityType
    <2>8. /\ u.size \in Nat
          /\ Cardinality(Full(u)) <= u.size
          /\ ~HasDestructor => u.size = Cardinality(Full(u))
      BY <2>2, <2>5, <2>6, <2>7 DEF WellFormed
    <2>9. WellFormed(u)
      BY <2>2, <2>dom, <2>3, <2>8 DEF WellFormed
    <2>10. QED
      BY <1>1, <2>9, <2>dom, <2>val DEF u
  <1>2. CASE ~(k # <<>> /\ trie_find(t, k) # NULL)
    <2>1. u = t
      BY <1>2 DEF trie_delete
    <2>2. k # <<>> /\ k \in DOMAIN t.data => t.data[k] = NULL
      BY <1>2, WalkFindsNode
    <2>3. QED
      BY <2>1, <2>2
  <1>3. QED
    BY <1>1, <1>2

\* children_destroy: exactly the nodes strictly below p go, so no orphan stays.
LEMMA ChildrenDestroyWellFormed ==
  ASSUME NEW t, WellFormed(t), NEW p \in Seq(Char)
  PROVE  LET u == children_destroy(t, p) IN
         /\ WellFormed(u)
         /\ DOMAIN u.data = DOMAIN t.data \ NodesBelow(t, p)
         /\ \A q \in DOMAIN u.data : u.data[q] = t.data[q]
  <1> DEFINE u == children_destroy(t, p)
             B == WithData(t, NodesBelow(t, p))
  <1>1. /\ u = [data |-> u.data, size |-> u.size]
        /\ u.size = SizeAfterDestroy(t.size, Cardinality(B))
    BY DEF children_destroy
  <1>dom. DOMAIN u.data = DOMAIN t.data \ NodesBelow(t, p)
    BY DEF children_destroy
  <1>val. \A q \in DOMAIN u.data : u.data[q] = t.data[q]
    BY DEF children_destroy
  <1>2. u.data = [q \in DOMAIN u.data |-> u.data[q]]
    BY DEF children_destroy, WellFormed
  <1> HIDE DEF u
  <1>3. DOMAIN t.data \subseteq Seq(Char) /\ IsFiniteSet(DOMAIN t.data)
    BY DEF WellFormed
  <1>4. DOMAIN u.data \subseteq Seq(Char) /\ IsFiniteSet(DOMAIN u.data)
    BY <1>dom, <1>3, FS_Difference, Zenon
  <1>5. \A q \in DOMAIN u.data : Prefixes(q) \subseteq DOMAIN u.data
    <2>1. SUFFICES ASSUME NEW q \in DOMAIN u.data, NEW r \in Prefixes(q)
                   PROVE  r \in DOMAIN u.data
      OBVIOUS
    <2>2. q \in DOMAIN t.data /\ ~IsStrictPrefix(p, q)
      BY <1>dom DEF NodesBelow
    <2>3. q \in Seq(Char) /\ r \in DOMAIN t.data
      BY <2>1, <2>2, <1>3 DEF WellFormed
    <2>4. r \in Seq(Char) /\ IsPrefix(r, q)
      BY <2>3, PrefixesAreIsPrefix
    <2>5. ~IsStrictPrefix(p, r)
      BY <2>2, <2>3, <2>4, PrefixOrder DEF IsStrictPrefix
    <2>6. QED
      BY <2>3, <2>5, <1>dom DEF NodesBelow
  <1>6. Full(u) = Full(t) \ B /\ B \in SUBSET Full(t)
    BY <1>dom, <1>val DEF Full, WithData, NodesBelow
  <1>7. /\ IsFiniteSet(Full(t)) /\ Cardinality(Full(t)) \in Nat
        /\ IsFiniteSet(Full(u)) /\ Cardinality(Full(u)) \in Nat
    BY <1>3, <1>4, FullFinite, Zenon
  <1>8. /\ Cardinality(B) \in Nat /\ Cardinality(B) <= Cardinality(Full(t))
        /\ Full(t) \cap B = B
    BY <1>6, <1>7, FS_Subset, FS_CardinalityType
  <1>9. Cardinality(Full(u)) = Cardinality(Full(t)) - Cardinality(B)
    BY <1>6, <1>7, <1>8, FS_Difference, Zenon
  <1> HIDE DEF B
  <1>10. /\ u.size \in Nat
         /\ Cardinality(Full(u)) <= u.size
         /\ ~HasDestructor => u.size = Cardinality(Full(u))
    BY <1>1, <1>7, <1>8, <1>9, DestructorAssumption DEF WellFormed, SizeAfterDestroy
  <1>11. WellFormed(u)
    BY <1>1, <1>2, <1>4, <1>5, <1>10 DEF WellFormed
  <1>12. QED
    BY <1>11, <1>dom, <1>val DEF u

\* trie_prefix_delete: what is below p goes and p loses its pointer, whether or
\* not the walk reaches p.
LEMMA PrefixDeleteWellFormed ==
  ASSUME NEW t, WellFormed(t), NEW p \in Seq(Char)
  PROVE  LET u == trie_prefix_delete(t, p) IN
         /\ WellFormed(u)
         /\ DOMAIN u.data = DOMAIN t.data \ NodesBelow(t, p)
         /\ \A q \in DOMAIN u.data :
              u.data[q] = IF q = p /\ p # <<>> THEN NULL ELSE t.data[q]
  <1> DEFINE u == trie_prefix_delete(t, p)
             c == children_destroy(t, p)
  <1>1. CASE p \in DOMAIN t.data
    <2>1. u = trie_delete(c, p)
      BY <1>1, WalkFindsNode DEF trie_prefix_delete
    <2>2. /\ WellFormed(c)
          /\ DOMAIN c.data = DOMAIN t.data \ NodesBelow(t, p)
          /\ \A q \in DOMAIN c.data : c.data[q] = t.data[q]
      BY ChildrenDestroyWellFormed
    <2> HIDE DEF c
    <2>3. /\ WellFormed(u)
          /\ DOMAIN u.data = DOMAIN c.data
          /\ \A q \in DOMAIN c.data :
               u.data[q] = IF q = p /\ p # <<>> THEN NULL ELSE c.data[q]
      <3> HIDE DEF u
      <3> QED
        BY <2>1, <2>2, DeleteWellFormed
    <2> HIDE DEF u
    <2>4. QED
      BY <2>2, <2>3 DEF u
  <1>2. CASE p \notin DOMAIN t.data
    <2>1. u = t
      BY <1>2, WalkFindsNode DEF trie_prefix_delete
    <2>2. NodesBelow(t, p) = {}
      <3>1. SUFFICES ASSUME NEW q \in DOMAIN t.data, IsPrefix(p, q)
                     PROVE  FALSE
        BY DEF NodesBelow, IsStrictPrefix
      <3>2. q \in Seq(Char) /\ Prefixes(q) \subseteq DOMAIN t.data
        BY DEF WellFormed
      <3>3. p \in Prefixes(q)
        BY <3>1, <3>2, PrefixesAreIsPrefix
      <3>4. QED
        BY <1>2, <3>2, <3>3
    <2>3. QED
      BY <1>2, <2>1, <2>2
  <1>3. QED
    BY <1>1, <1>2

\* With a destructor trie_prefix_delete counts down by the node of the prefix
\* alone, however many keys it removes below it.
LEMMA PrefixDeleteSize ==
  ASSUME HasDestructor, NEW t, WellFormed(t), NEW p \in Seq(Char), p # <<>>
  PROVE  trie_prefix_delete(t, p).size = IF p \in Full(t) THEN t.size - 1 ELSE t.size
  <1> DEFINE c == children_destroy(t, p)
  <1>1. CASE p \in DOMAIN t.data
    <2>1. trie_prefix_delete(t, p) = trie_delete(c, p)
      BY <1>1, WalkFindsNode DEF trie_prefix_delete
    <2>2. /\ WellFormed(c)
          /\ DOMAIN c.data = DOMAIN t.data \ NodesBelow(t, p)
          /\ \A q \in DOMAIN c.data : c.data[q] = t.data[q]
      BY ChildrenDestroyWellFormed
    <2>3. c.size = t.size
      BY DEF children_destroy, SizeAfterDestroy
    <2> HIDE DEF c
    <2>4. p \in DOMAIN c.data
      BY <1>1, <2>2 DEF NodesBelow, IsStrictPrefix
    <2>5. trie_find(c, p) = t.data[p]
      BY <2>2, <2>4, WalkFindsNode
    <2>6. trie_delete(c, p).size = IF t.data[p] # NULL THEN c.size - 1 ELSE c.size
      BY <2>5 DEF trie_delete
    <2>7. QED
      BY <1>1, <2>1, <2>3, <2>6 DEF Full, WithData
  <1>2. CASE p \notin DOMAIN t.data
    BY <1>2, WalkFindsNode DEF trie_prefix_delete, Full, WithData
  <1>3. QED
    BY <1>1, <1>2

\* Destroying the root leaves no node.
LEMMA DestroyWellFormed ==
  ASSUME NEW t, WellFormed(t)
  PROVE  WellFormed(trie_node_destroy(t)) /\ DOMAIN trie_node_destroy(t).data = {}
  <1> DEFINE u == trie_node_destroy(t)
  <1>1. /\ u = [data |-> u.data, size |-> u.size]
        /\ u.size = SizeAfterDestroy(t.size, Cardinality(Full(t)))
    BY DEF trie_node_destroy, Full
  <1>2. DOMAIN u.data = {} /\ u.data = [q \in DOMAIN u.data |-> u.data[q]]
    BY DEF trie_node_destroy
  <1> HIDE DEF u
  <1>3. Full(u) = {} /\ IsFiniteSet(DOMAIN u.data) /\ Cardinality(Full(u)) = 0
    BY <1>2, FS_EmptySet DEF Full, WithData
  <1>4. Cardinality(Full(t)) \in Nat
    BY FullFinite, Zenon DEF WellFormed
  <1>5. /\ u.size \in Nat
        /\ 0 <= u.size
        /\ ~HasDestructor => u.size = 0
    BY <1>1, <1>4, DestructorAssumption DEF WellFormed, SizeAfterDestroy
  <1>6. WellFormed(u)
    BY <1>1, <1>2, <1>3, <1>5 DEF WellFormed
  <1>7. QED
    BY <1>2, <1>6 DEF u
=============================================================================
