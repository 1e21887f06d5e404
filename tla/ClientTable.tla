---------------------------- MODULE ClientTable -----------------------------
(***************************************************************************)
(* The table of clients (module HashTable) between its two users: the main *)
(* thread puts a new client in without the lock, and an IO thread, which   *)
(* holds it, takes one out that has gone.  A key is the random uuid of a   *)
(* client and comes once.                                                  *)
(*                                                                         *)
(* A step is a search, a write of an entry or one half of an update of the *)
(* count.  The array may grow while the other thread is at work in it:     *)
(* fault.  A removal then searches an array that is still being filled, or *)
(* clears its entry in the array it has searched or in the new one, since  *)
(* a build may keep table->entries in a register or read it again.         *)
(***************************************************************************)
EXTENDS HashTable

VARIABLES adding,    \* hashtable_put of the main thread: where it is, and with what
          removing,  \* the same of hashtable_del of the IO thread
          conns,     \* clients added and not gone
          fresh,     \* clients that have not come yet
          lost,      \* the two have updated the count at the same time
          fault      \* they have met in an array that grows

cvars == <<table, ret, adding, removing, conns, fresh, lost, fault>>

IDLE == [pc |-> "idle"]
SIZE_MAX == 65535  \* of a size_t, here

\* The removal after the main thread has replaced the array: its index is one
\* of the array before.
Overtaken == IF removing.pc = "mark" THEN [removing EXCEPT !.moved = TRUE] ELSE removing

-----------------------------------------------------------------------------
(* hashtable_put(triedb.clients, ...) in accept_loop *)

Accept(k) ==
  /\ adding = IDLE /\ k \in fresh
  /\ fresh' = fresh \ {k}
  /\ adding' = [pc |-> "hash", key |-> k]
  /\ UNCHANGED <<table, ret, removing, conns, lost, fault>>

PutHash ==
  /\ adding.pc = "hash"
  /\ LET i == hash(table, adding.key)
     IN  adding' = IF i = FULL THEN [adding EXCEPT !.pc = "grow"]
                   ELSE [pc |-> "write", key |-> adding.key, index |-> i]
  /\ UNCHANGED <<table, ret, removing, conns, fresh, lost, fault>>

\* hashtable_rehash up to the loop.
PutGrow ==
  /\ adding.pc = "grow"
  /\ adding' = [pc |-> "copy", key |-> adding.key, old |-> table, index |-> 0]
  /\ table' = [entries |-> [i \in 0..2 * TableSize(table) - 1 |-> NULL], size |-> 0]
  /\ fault' = (fault \/ removing # IDLE)
  /\ removing' = Overtaken
  /\ UNCHANGED <<ret, conns, fresh, lost>>

\* A turn of its loop, which puts an entry of the old array; after the last one
\* hashtable_put looks for a place again.
PutCopy ==
  /\ adding.pc = "copy"
  /\ LET i == adding.index
     IN  IF i = TableSize(adding.old)
         THEN adding' = [pc |-> "hash", key |-> adding.key] /\ UNCHANGED table
         ELSE /\ adding' = [adding EXCEPT !.index = i + 1]
              /\ LET e == adding.old.entries[i]
                 IN  table' = IF e = NULL THEN table ELSE put(table, e.key, e.val)
  /\ fault' = (fault \/ removing # IDLE)
  /\ removing' = IF TableSize(table') = TableSize(table) THEN removing ELSE Overtaken
  /\ UNCHANGED <<ret, conns, fresh, lost>>

\* The entry, and the first half of size++.
PutWrite ==
  /\ adding.pc = "write"
  /\ table' = [table EXCEPT !.entries[adding.index] =
                 [key |-> adding.key, val |-> CHOOSE v \in Vals : TRUE]]
  /\ adding' = [pc |-> "count", key |-> adding.key, size |-> table.size]
  /\ lost' = (lost \/ removing.pc = "count")
  /\ UNCHANGED <<ret, removing, conns, fresh, fault>>

\* The second half; epoll_add lets the client be heard after it.
PutCount ==
  /\ adding.pc = "count"
  /\ table' = [table EXCEPT !.size = (adding.size + 1) % (SIZE_MAX + 1)]
  /\ adding' = IDLE
  /\ conns' = conns \cup {adding.key}
  /\ UNCHANGED <<ret, removing, fresh, lost, fault>>

-----------------------------------------------------------------------------
(* hashtable_del(triedb.clients, ...) in io_worker, under the lock *)

DelFind(k) ==
  /\ removing = IDLE /\ k \in conns
  /\ conns' = conns \ {k}
  /\ LET i == Found(table, k)
     IN  removing' = IF i = -1 THEN IDLE ELSE [pc |-> "mark", index |-> i, moved |-> FALSE]
  /\ fault' = (fault \/ adding.pc = "copy")
  /\ UNCHANGED <<table, ret, adding, fresh, lost>>

\* Mutant: taken is set to false and the count left alone.
DelCount_keeps ==
  /\ removing.pc = "count"
  /\ removing' = IDLE
  /\ UNCHANGED <<table, ret, adding, conns, fresh, lost, fault>>

\* The taken flag, in the array of now or, if that is another one, in the one
\* that was searched, which is being copied or released; and the first half of
\* size--.
DelMark ==
  /\ removing.pc = "mark"
  /\ \/ /\ table' = [table EXCEPT !.entries[removing.index] = NULL]
        /\ UNCHANGED adding
     \/ /\ removing.moved
        /\ adding' = IF adding.pc = "copy" /\ removing.index \in DOMAIN adding.old.entries
                     THEN [adding EXCEPT !.old.entries[removing.index] = NULL] ELSE adding
        /\ UNCHANGED table
  /\ removing' = [pc |-> "count", size |-> table.size]
  /\ lost' = (lost \/ adding.pc = "count")
  /\ UNCHANGED <<ret, conns, fresh, fault>>

\* The second half; the destructor releases the client.
DelCount ==
  /\ removing.pc = "count"
  /\ table' = [table EXCEPT !.size = (removing.size + SIZE_MAX) % (SIZE_MAX + 1)]
  /\ removing' = IDLE
  /\ UNCHANGED <<ret, adding, conns, fresh, lost, fault>>

CInit ==
  /\ Init
  /\ adding = IDLE /\ removing = IDLE
  /\ conns = {} /\ fresh = Keys
  /\ lost = FALSE /\ fault = FALSE

CNext ==
  \/ \E k \in Keys : Accept(k) \/ DelFind(k)
  \/ PutHash \/ PutGrow \/ PutCopy \/ PutWrite \/ PutCount
  \/ DelMark \/ DelCount

CSpec == CInit /\ [][CNext]_cvars

-----------------------------------------------------------------------------
(* Properties *)

\* Between calls the table holds the clients that are connected, each once,
\* also when removals have run in the middle of an addition, as long as the
\* array did not grow at that moment; a count that was updated by both at once
\* is wrong but makes no client go missing.
ClientsListed ==
  adding = IDLE /\ removing = IDLE /\ ~fault =>
    /\ {e.key : e \in Entries(table)} = conns
    /\ Cardinality({i \in DOMAIN table.entries : table.entries[i] # NULL}) = Cardinality(conns)
    /\ lost \/ table.size = Cardinality(conns)
=============================================================================
