------------------------------- MODULE KVMap -------------------------------
(***************************************************************************)
(* What a trie promises its callers: a map from keys to item pointers with *)
(* range operations on prefixes, and the answer of the last call.  Nothing *)
(* here knows of nodes, paths or sizes.                                    *)
(***************************************************************************)
EXTENDS Paths

CONSTANTS Keys,          \* finite sequences of characters
          Items,         \* what may be stored
          NULL,
          HasDestructor  \* decides only what a delete of an absent key answers

VARIABLES kv,   \* the map, NULL where a key is absent
          ret   \* answer of the last call

mvars == <<kv, ret>>

Matches(p) == {k \in Keys : IsPrefix(p, k) /\ kv[k] # NULL}

MInit == kv = [k \in Keys |-> NULL] /\ ret = <<"none">>

MInsert(k, i) == kv' = [kv EXCEPT ![k] = i] /\ ret' = <<"insert", i>>

MFind(k) == ret' = <<"find", kv[k]>> /\ UNCHANGED kv

\* Deleting an absent key changes nothing, and a trie with a destructor says
\* so; the empty key is never deleted.
MDelete(k) ==
  /\ kv' = IF k = <<>> THEN kv ELSE [kv EXCEPT ![k] = NULL]
  /\ \E b \in BOOLEAN :
       /\ ret' = <<"delete", b>>
       /\ k # <<>> /\ kv[k] # NULL => b
       /\ HasDestructor => (b <=> k # <<>> /\ kv[k] # NULL)

MPrefixDelete(p) ==
  /\ kv' = [k \in Keys |-> IF IsPrefix(p, k) /\ k # <<>> THEN NULL ELSE kv[k]]
  /\ ret' = <<"prefix_delete">>

MPrefixCount(p) ==
  ret' = <<"count", Cardinality(Matches(p))>> /\ UNCHANGED kv

\* No match may be reported by a null pointer or by an empty vector.
MPrefixFind(p) ==
  /\ \/ ret' = <<"keys", Matches(p)>>
     \/ Matches(p) = {} /\ ret' = <<"null">>
  /\ UNCHANGED kv

MDestroy == kv' = [k \in Keys |-> NULL] /\ ret' = <<"destroy">>

MNext ==
  \/ \E k \in Keys :
       \/ \E i \in Items : MInsert(k, i)
       \/ MFind(k) \/ MDelete(k)
       \/ MPrefixDelete(k) \/ MPrefixCount(k) \/ MPrefixFind(k)
  \/ MDestroy

MSpec == MInit /\ [][MNext]_mvars
=============================================================================
