----------------------------- MODULE HashTable ------------------------------
(***************************************************************************)
(* hashtable.c: open addressing with a bounded probe, a table that doubles *)
(* when it is half full or a probe finds no room, and entries that are     *)
(* only marked free when deleted.  The server keeps its clients and its    *)
(* databases in two such tables.                                           *)
(*                                                                         *)
(* Keys are sequences of characters because two keys are compared up to    *)
(* the length of one of them; the keys of an instance differ by more than  *)
(* the case of their letters, which the comparison ignores.                *)
(***************************************************************************)
EXTENDS Integers, FiniteSets, SequencesExt

CONSTANTS Keys, Vals, NULL,
          HashInt,           \* key -> the mixed checksum, before the modulus
          INITIAL_SIZE,
          MAX_CHAIN_LENGTH,
          Overwrite          \* callers also put keys that are present; the
                             \* server never does

\* What is assumed of the constants.
HashAssumption == HashInt \in [Keys -> Nat] /\ Overwrite \in BOOLEAN

VARIABLES table,  \* [entries, size]; an entry is NULL or a key and a value
          ret     \* answer of the last call

vars == <<table, ret>>

FULL == -3

TableSize(t) == Cardinality(DOMAIN t.entries)

NewTable == [entries |-> [i \in 0..INITIAL_SIZE - 1 |-> NULL], size |-> 0]

\* STREQ(s, t, strlen(s))
StartsLike(s, t) == IsPrefix(s, t)

Slot(t, k, i) == (HashInt[k] + i) % TableSize(t)
Probe == 0..MAX_CHAIN_LENGTH - 1

-----------------------------------------------------------------------------
(* hashtable_hash, hashtable_put and hashtable_rehash *)

\* The first entry of the probe that is free or whose key the new one starts
\* with.
hash(t, k) ==
  LET stop == {i \in Probe : LET e == t.entries[Slot(t, k, i)]
                             IN  e = NULL \/ StartsLike(e.key, k)}
  IN  IF t.size >= TableSize(t) \div 2 \/ stop = {} THEN FULL
      ELSE Slot(t, k, Min(stop))

RECURSIVE put(_, _, _), rehash(_), putAll(_, _, _)

put(t, k, v) ==
  LET i == hash(t, k)
  IN  IF i = FULL THEN put(rehash(t), k, v)
      ELSE [entries |-> [t.entries EXCEPT ![i] = [key |-> k, val |-> v]],
            size |-> t.size + IF t.entries[i] = NULL THEN 1 ELSE 0]

rehash(t) ==
  putAll([entries |-> [i \in 0..2 * TableSize(t) - 1 |-> NULL], size |-> 0], t, 0)

\* Puts the entries of old from index i on.
putAll(t, old, i) ==
  IF i = TableSize(old) THEN t
  ELSE putAll(IF old.entries[i] = NULL THEN t
              ELSE put(t, old.entries[i].key, old.entries[i].val),
              old, i + 1)

-----------------------------------------------------------------------------
(* hashtable_get, hashtable_get_entry and hashtable_del *)

\* Mutant: a lookup stops at the first free entry.
Found_hole(t, k) ==
  LET hits == {i \in Probe : LET e == t.entries[Slot(t, k, i)]
                             IN  e # NULL /\ StartsLike(k, e.key)
                                 /\ \A j \in 0..i : t.entries[Slot(t, k, j)] # NULL}
  IN  IF hits = {} THEN -1 ELSE Slot(t, k, Min(hits))

\* The first entry of the probe whose key starts with k, or -1.
Found(t, k) ==
  LET hits == {i \in Probe : LET e == t.entries[Slot(t, k, i)]
                             IN  e # NULL /\ StartsLike(k, e.key)}
  IN  IF hits = {} THEN -1 ELSE Slot(t, k, Min(hits))

get(t, k) == IF Found(t, k) = -1 THEN NULL ELSE t.entries[Found(t, k)].val

Entries(t) == {t.entries[i] : i \in {j \in DOMAIN t.entries : t.entries[j] # NULL}}
PairsOf(t) == {<<e.key, e.val>> : e \in Entries(t)}

Init == table = NewTable /\ ret = <<"none">>

Put(k, v) ==
  /\ Overwrite \/ get(table, k) = NULL
  /\ table' = put(table, k, v)
  /\ ret' = <<"put">>

Get(k) == ret' = <<"get", get(table, k)>> /\ UNCHANGED table

\* The destructor is called on the entry that was found.
Del(k) ==
  LET i == Found(table, k)
  IN  /\ table' = IF i = -1 THEN table
                  ELSE [entries |-> [table.entries EXCEPT ![i] = NULL],
                        size |-> table.size - 1]
      /\ ret' = <<"del", k, get(table, k)>>

\* hashtable_map and hashtable_map2: an empty table is refused, which visits
\* as much.
Map ==
  /\ ret' = <<"map", IF table.size <= 0 THEN {} ELSE PairsOf(table)>>
  /\ UNCHANGED table

\* hashtable_destroy visits the entries with the destructor; the next table is
\* a new one.
Destroy ==
  /\ ret' = <<"destroy", IF table.size <= 0 THEN {} ELSE PairsOf(table)>>
  /\ table' = NewTable

Next ==
  \/ \E k \in Keys : Get(k) \/ Del(k) \/ \E v \in Vals : Put(k, v)
  \/ Map \/ Destroy

Spec == Init /\ [][Next]_vars

-----------------------------------------------------------------------------
(* Properties *)

\* No key has two entries, so that one hashtable_del removes it ("Remove an
\* element with that key from the hashtable", hashtable.c).
DeletedIsGone == \A k \in Keys : ret[1] = "del" /\ ret[2] = k => get(table, k) = NULL

\* A lookup only returns the value that was put under its own key ("Get the
\* value void pointer out of the hashtable associated to a key", hashtable.c).
OwnEntry ==
  \A k \in Keys : Found(table, k) # -1 => table.entries[Found(table, k)].key = k

Content == [k \in Keys |-> get(table, k)]
D == INSTANCE Dict WITH dict <- Content

\* For callers that put absent keys only, the probing table is a map: no
\* growth, overlapping chain or hole left by a deletion loses, revives or
\* confuses an entry, and the destructor runs exactly on what is removed.
\* (This is D!DSpec, with the steps that leave the table alone set aside.)
ImplementsDict ==
  D!DInit /\ [][UNCHANGED <<table, ret>> \/ UNCHANGED <<Content, ret>> \/ D!DNext]_vars
=============================================================================
