------------------------------- MODULE Expiry -------------------------------
(***************************************************************************)
(* How keys with a time to live disappear: the vector expiring_keys that   *)
(* TTL fills and sorts and that a timer walks (ttl_handler, expire_keys),  *)
(* beside the commands that create, read and delete keys.  Handlers run    *)
(* one after the other here; their interleavings are those of Keyspace.    *)
(*                                                                         *)
(* Items are numbered in the order they are allocated and never reused, so *)
(* that a pointer to a released one is recognised.                         *)
(***************************************************************************)
EXTENDS Integers, FiniteSets, Sequences, SequencesExt

CONSTANTS Keys,
          PutTtls,    \* times to live that PUT sets
          Ttls,       \* times to live that TTL sets
          MaxItems,   \* bound: items allocated
          MaxEntries, \* bound: entries in the vector
          MaxClock    \* bound: seconds that pass

ASSUME ExpiryAssumption ==
  /\ PutTtls \cup Ttls \subseteq Int
  /\ MaxItems \in Nat /\ MaxEntries \in Nat /\ MaxClock \in Nat

VARIABLES db,             \* key -> its item, 0 when absent
          items,          \* item -> ttl, ctime and whether it is allocated
          expiring_keys,  \* a sequence of [key, item]
          keyspace_size,  \* a size_t: a negative value stands for one that wrapped
          clock,
          fault           \* a released item has been read

vars == <<db, items, expiring_keys, keyspace_size, clock, fault>>

Init ==
  /\ db = [k \in Keys |-> 0]
  /\ items = <<>>
  /\ expiring_keys = <<>>
  /\ keyspace_size = 0
  /\ clock = 0
  /\ fault = FALSE

Deadline(i) == items[i].ctime + items[i].ttl
Freed(its, i) == IF i = 0 THEN its ELSE [its EXCEPT ![i].live = FALSE]

-----------------------------------------------------------------------------
(* PUT, GET and DEL, for one key *)

\* database_insert: a key that is overwritten leaves its old item allocated.
Put(k, ttl) ==
  /\ ~fault /\ Len(items) < MaxItems
  /\ items' = Append(items, [ttl |-> ttl, ctime |-> clock, live |-> TRUE])
  /\ db' = [db EXCEPT ![k] = Len(items) + 1]
  /\ keyspace_size' = keyspace_size + 1
  /\ UNCHANGED <<expiring_keys, clock, fault>>

\* Mutant: the vector keeps the entry of the item.
Get_keep(k) ==
  LET i == db[k]
  IN  /\ ~fault /\ i # 0 /\ clock < MaxClock
      /\ ~(items[i].ttl > -1 /\ items[i].ttl <= clock - items[i].ctime)
      /\ items[i].ttl # -1 /\ Deadline(i) <= clock + 1
      /\ clock' = clock + 1
      /\ items' = Freed(items, i)
      /\ db' = [db EXCEPT ![k] = 0]
      /\ keyspace_size' = keyspace_size - 1
      /\ UNCHANGED <<expiring_keys, fault>>

\* A GET that changes something: database_search still found the key, and the
\* time runs out before get_handler looks at the clock again.
Get(k) ==
  LET i == db[k]
      at == {j \in 1..Len(expiring_keys) : expiring_keys[j].item = i}
  IN  /\ ~fault /\ i # 0 /\ clock < MaxClock
      /\ ~(items[i].ttl > -1 /\ items[i].ttl <= clock - items[i].ctime)
      /\ items[i].ttl # -1 /\ Deadline(i) <= clock + 1
      /\ clock' = clock + 1
      /\ items' = Freed(items, i)
      /\ db' = [db EXCEPT ![k] = 0]
      /\ expiring_keys' = IF at = {} THEN expiring_keys
                          ELSE RemoveAt(expiring_keys,
                                        CHOOSE j \in at : \A l \in at : j <= l)
      /\ keyspace_size' = keyspace_size - 1
      /\ UNCHANGED fault

\* Mutant: an absent key is counted as deleted.
Del_absent(k) ==
  /\ ~fault /\ db[k] = 0
  /\ keyspace_size' = keyspace_size - 1
  /\ UNCHANGED <<db, items, expiring_keys, clock, fault>>

Del(k) ==
  /\ ~fault /\ db[k] # 0
  /\ items' = Freed(items, db[k])
  /\ db' = [db EXCEPT ![k] = 0]
  /\ keyspace_size' = keyspace_size - 1
  /\ UNCHANGED <<expiring_keys, clock, fault>>

-----------------------------------------------------------------------------
(* vector_qsort and ttl_handler *)

Swap(v, a, b) == [v EXCEPT ![a] = v[b], ![b] = v[a]]

RECURSIVE partition(_, _, _, _, _), quicksort(_, _, _, _), Expire(_, _)

\* The loop of quicksort from i on, with the pivot at right; value and count.
partition(v, i, right, count, due) ==
  IF i > right THEN <<v, count>>
  ELSE IF due[v[i].item] <= due[v[right].item]
       THEN partition(Swap(v, count, i), i + 1, right, count + 1, due)
       ELSE partition(v, i + 1, right, count, due)

\* Mutant: the left part is not sorted.
quicksort_half(v, left, right, due) ==
  IF left >= right THEN v
  ELSE LET p == partition(v, left, right, left, due)
       IN  quicksort(p[1], p[2], right, due)

quicksort(v, left, right, due) ==
  IF left >= right THEN v
  ELSE LET p == partition(v, left, right, left, due)
       IN  quicksort(quicksort(p[1], left, p[2] - 2, due), p[2], right, due)

Dangling(v) == \E j \in 1..Len(v) : ~items[v[j].item].live

\* TTL on a key that is present.  A key that has a time to live already is not
\* added again; the vector is sorted, which reads every item in it.
Ttl(k, ttl) ==
  LET i == db[k]
      its == [items EXCEPT ![i].ttl = ttl, ![i].ctime = clock]
      due == [j \in DOMAIN its |-> its[j].ctime + its[j].ttl]
      v == IF items[i].ttl >= 0 THEN expiring_keys
           ELSE Append(expiring_keys, [key |-> k, item |-> i])
  IN  /\ ~fault /\ i # 0 /\ Len(v) <= MaxEntries
      /\ items' = its
      /\ expiring_keys' = quicksort(v, 1, Len(v), due)
      /\ fault' = (Len(v) >= 2 /\ Dangling(v))
      /\ UNCHANGED <<db, keyspace_size, clock>>

-----------------------------------------------------------------------------
(* expire_keys *)

\* Mutant: an entry whose time is up stops the walk too.
Expire_strict(s, i) ==
  IF i > Len(s.ek) \/ s.fault THEN s
  ELSE LET e == s.ek[i]
       IN  IF ~s.items[e.item].live THEN [s EXCEPT !.fault = TRUE]
           ELSE IF s.items[e.item].ctime + s.items[e.item].ttl >= clock THEN s
           ELSE Expire([db |-> [s.db EXCEPT ![e.key] = 0],
                        items |-> Freed(s.items, s.db[e.key]),
                        ek |-> RemoveAt(s.ek, i), size |-> s.size - 1,
                        fault |-> FALSE], i + 1)

\* Mutant: one second early.
Expire_early(s, i) ==
  IF i > Len(s.ek) \/ s.fault THEN s
  ELSE LET e == s.ek[i]
       IN  IF ~s.items[e.item].live THEN [s EXCEPT !.fault = TRUE]
           ELSE IF s.items[e.item].ctime + s.items[e.item].ttl > clock + 1 THEN s
           ELSE Expire([db |-> [s.db EXCEPT ![e.key] = 0],
                        items |-> Freed(s.items, s.db[e.key]),
                        ek |-> RemoveAt(s.ek, i), size |-> s.size - 1,
                        fault |-> FALSE], i + 1)

\* The loop from index i on: it stops at the first entry that is not due, and
\* steps over the entry that moves into the place of a deleted one.
Expire(s, i) ==
  IF i > Len(s.ek) \/ s.fault THEN s
  ELSE LET e == s.ek[i]
       IN  IF ~s.items[e.item].live THEN [s EXCEPT !.fault = TRUE]
           ELSE IF s.items[e.item].ctime + s.items[e.item].ttl > clock THEN s
           ELSE Expire([db |-> [s.db EXCEPT ![e.key] = 0],
                        items |-> Freed(s.items, s.db[e.key]),
                        ek |-> RemoveAt(s.ek, i), size |-> s.size - 1,
                        fault |-> FALSE], i + 1)

expire_keys ==
  LET s == Expire([db |-> db, items |-> items, ek |-> expiring_keys,
                   size |-> keyspace_size, fault |-> fault], 1)
  IN  /\ ~fault
      /\ db' = s.db /\ items' = s.items /\ expiring_keys' = s.ek
      /\ keyspace_size' = s.size /\ fault' = s.fault
      /\ UNCHANGED clock

Tick ==
  /\ ~fault /\ clock < MaxClock
  /\ clock' = clock + 1
  /\ UNCHANGED <<db, items, expiring_keys, keyspace_size, fault>>

Next ==
  \/ \E k \in Keys :
       \/ \E ttl \in PutTtls : Put(k, ttl)
       \/ \E ttl \in Ttls : Ttl(k, ttl)
       \/ Get(k) \/ Del(k)
  \/ expire_keys \/ Tick

\* The timer of start_server is periodic and a worker serves it.
Fairness == WF_vars(expire_keys)

Spec == Init /\ [][Next]_vars /\ Fairness

-----------------------------------------------------------------------------
(* Properties *)

\* The vector is in the order of deadlines, which the early end of expire_keys
\* counts on ("Vector *should be* sorted per time delta value").
ExpiringSorted ==
  fault \/ \A j \in 1..Len(expiring_keys) - 1 :
    Deadline(expiring_keys[j].item) <= Deadline(expiring_keys[j + 1].item)
=============================================================================
