------------------------------ MODULE Keyspace ------------------------------
(***************************************************************************)
(* The PUT, GET and DEL handlers of server.c (the commands protocol.c can  *)
(* decode), run by the worker threads on one database.  A handler takes    *)
(* the spinlock around the calls of the trie and goes on without it, so it *)
(* is cut into one action for each stretch between two points where        *)
(* another worker can get in: a lock taken, a shared word read or written, *)
(* an item followed.  A section that takes and releases the lock and       *)
(* touches nothing an unlocked step uses is one action.                    *)
(***************************************************************************)
EXTENDS TrieOps, Integers

CONSTANTS Workers,      \* the worker threads
          FREE,         \* the value of the lock when no worker holds it
          Keys,         \* the keys and prefixes of the requests, none empty
          Ops,          \* the commands of the run; a p ends the prefix ones
          Ttls,         \* the ttl field of a PUT, an int
          MaxRequests,  \* bound: requests the clients send
          MaxClock,     \* bound: seconds that pass
          SizeMod       \* keyspace_size is a size_t: arithmetic modulo SizeMod

ASSUME ServerTrie == HasDestructor  \* database_init passes trie_node_destructor
ASSUME OpsAssumption == Ops \subseteq {"put", "putp", "get", "getp", "del", "delp"}
ASSUME KeysAssumption == Keys \subseteq Seq(Char) /\ <<>> \notin Keys
ASSUME WorkersAssumption == IsFiniteSet(Workers) /\ FREE \notin Workers
ASSUME TtlsAssumption == Ttls \subseteq Int
ASSUME NullAssumption == NULL \notin Nat
ASSUME BoundsAssumption ==
  /\ MaxRequests \in Nat /\ MaxClock \in Nat /\ SizeMod \in Nat /\ SizeMod > MaxRequests

VARIABLES trie,           \* the trie of the database, data pointers index items
          items,          \* every struct db_item allocated so far, with the
                          \* ttl its PUT asked for
          keyspace_size,  \* triedb.keyspace_size
          lock,           \* the spinlock: its holder or FREE
          clock,          \* time(NULL)
          sent,           \* requests received so far; numbers their values
          th,             \* the worker threads: program counter and locals
          fault           \* "none", or how a worker left defined behaviour

vars == <<trie, items, keyspace_size, lock, clock, sent, th, fault>>

\* item->ttl is a short: the int of the packet is truncated.
Short(n) == ((n + 32768) % 65536) - 32768

\* The test for expiry of database_search, and below that of get_handler.
SearchExpired(it) == it.ttl > -1 /\ it.ttl <= clock - it.ctime
\* Mutant: expires a second early.
DeltaExpired_early(it, now) == it.ttl # -1 /\ (it.ctime + it.ttl) - now <= 1

DeltaExpired(it, now) == it.ttl # -1 /\ (it.ctime + it.ttl) - now <= 0

Find(k) == trie_find(trie, k)
ItemsAt(S) == {trie.data[q] : q \in WithData(trie, S)}

\* trie_node_destructor on the items of I.
Release(I) ==
  [i \in DOMAIN items |-> IF i \in I THEN [items[i] EXCEPT !.st = "freed"] ELSE items[i]]
Live(i) == items[i].st = "live"

At(w, pc) == fault = "none" /\ th[w].pc = pc
Op(w, op) == th[w].req.op = op
Key(w) == th[w].req.key

Goto(w, pc) == th' = [th EXCEPT ![w].pc = pc]
Reply(w, r) == th' = [th EXCEPT ![w].pc = "idle", ![w].reply = r]
Crash(f) == fault' = f /\ UNCHANGED <<trie, items, keyspace_size, lock, clock, sent, th>>

Idle == [pc |-> "idle", req |-> [op |-> "none", key |-> <<>>, ttl |-> -1, val |-> 0],
         item |-> 0, val |-> 0, now |-> 0, vec |-> <<>>, i |-> 0, n |-> 0, reply |-> <<"none">>]

Init ==
  /\ trie = trie_new
  /\ items = <<>>
  /\ keyspace_size = 0
  /\ lock = FREE
  /\ clock = 0
  /\ sent = 0
  /\ th = [w \in Workers |-> Idle]
  /\ fault = "none"

\* A worker takes a decoded request from the work epoll.
Receive(w) ==
  /\ At(w, "idle") /\ sent < MaxRequests
  /\ \E op \in Ops, k \in Keys, ttl \in Ttls :
       /\ op \notin {"put", "putp"} => ttl = CHOOSE t \in Ttls : TRUE
       /\ th' = [th EXCEPT ![w] = [Idle EXCEPT
                   !.pc = op,
                   !.req = [op |-> op, key |-> k, ttl |-> ttl, val |-> sent + 1]]]
  /\ sent' = sent + 1
  /\ UNCHANGED <<trie, items, keyspace_size, lock, clock, fault>>

Tick ==
  /\ fault = "none" /\ clock < MaxClock
  /\ clock' = clock + 1
  /\ UNCHANGED <<trie, items, keyspace_size, lock, sent, th, fault>>

-----------------------------------------------------------------------------
(* put_handler *)

\* Mutant: releases the item it replaces.
put_insert_frees(w) ==
  /\ At(w, "put") /\ lock = FREE
  /\ items' = Append(Release({Find(Key(w))}),
                     [st |-> "live", val |-> th[w].req.val, asked |-> th[w].req.ttl,
                      ttl |-> Short(th[w].req.ttl), ctime |-> clock])
  /\ trie' = trie_insert(trie, Key(w), Len(items) + 1)
  /\ lock' = w
  /\ th' = [th EXCEPT ![w].pc = "put_count", ![w].n = keyspace_size]
  /\ UNCHANGED <<keyspace_size, clock, sent, fault>>

\* database_insert: a new item under the key; then the counter is read, with
\* the lock still held.
put_insert(w) ==
  /\ At(w, "put") /\ lock = FREE
  /\ items' = Append(items, [st |-> "live", val |-> th[w].req.val, asked |-> th[w].req.ttl,
                             ttl |-> Short(th[w].req.ttl), ctime |-> clock])
  /\ trie' = trie_insert(trie, Key(w), Len(items) + 1)
  /\ lock' = w
  /\ th' = [th EXCEPT ![w].pc = "put_count", ![w].n = keyspace_size]
  /\ UNCHANGED <<keyspace_size, clock, sent, fault>>

\* Mutant: returns with the lock held.
put_count_keeps_lock(w) ==
  /\ At(w, "put_count")
  /\ keyspace_size' = (th[w].n + 1) % SizeMod
  /\ Reply(w, <<"ok">>)
  /\ UNCHANGED <<trie, items, lock, clock, sent, fault>>

put_count(w) ==
  /\ At(w, "put_count")
  /\ keyspace_size' = (th[w].n + 1) % SizeMod
  /\ lock' = FREE
  /\ Reply(w, <<"ok">>)
  /\ UNCHANGED <<trie, items, clock, sent, fault>>

\* database_prefix_set: a new value and ttl, counted from the old ctime, for
\* every item below the prefix.
put_prefix(w) ==
  /\ At(w, "putp") /\ lock = FREE
  /\ LET below == IF trie_node_find(trie, Key(w)) THEN ItemsAt(Subtree(trie, Key(w)))
                  ELSE {}
     IN items' = [i \in DOMAIN items |->
                    IF i \in below
                    THEN [items[i] EXCEPT !.val = th[w].req.val, !.asked = th[w].req.ttl,
                                          !.ttl = Short(th[w].req.ttl)]
                    ELSE items[i]]
  /\ Reply(w, <<"ok">>)
  /\ UNCHANGED <<trie, keyspace_size, lock, clock, sent, fault>>

-----------------------------------------------------------------------------
(* get_handler, one key *)

\* Mutant: stops the walk one character early.
get_search_short(w) ==
  /\ At(w, "get") /\ lock = FREE
  /\ LET i == Find(Front(Key(w))) IN
       IF i = NULL THEN Reply(w, <<"nok">>)
       ELSE IF SearchExpired(items[i]) THEN Reply(w, <<"nok">>)
       ELSE th' = [th EXCEPT ![w].pc = "get_item", ![w].item = i]
  /\ UNCHANGED <<trie, items, keyspace_size, lock, clock, sent, fault>>

\* database_search under the lock; the item is used after its release.
get_search(w) ==
  /\ At(w, "get") /\ lock = FREE
  /\ LET i == Find(Key(w)) IN
       IF i = NULL THEN Reply(w, <<"nok">>)
       ELSE IF SearchExpired(items[i]) THEN Reply(w, <<"nok">>)
       ELSE th' = [th EXCEPT ![w].pc = "get_item", ![w].item = i]
  /\ UNCHANGED <<trie, items, keyspace_size, lock, clock, sent, fault>>

\* The second expiry test, and the tuple with the pointer to the value.
get_item(w) ==
  /\ At(w, "get_item")
  /\ LET it == items[th[w].item] IN
       IF ~Live(th[w].item) THEN Crash("released")
       ELSE /\ IF DeltaExpired(it, clock) THEN Goto(w, "get_expired")
               ELSE th' = [th EXCEPT ![w].pc = "get_pack", ![w].val = it.val]
            /\ UNCHANGED <<trie, items, keyspace_size, lock, clock, sent, fault>>

\* The lazy removal of the key, under the lock again.  No key is registered in
\* expiring_keys by these commands, so the search of that vector finds nothing.
get_expired(w) ==
  /\ At(w, "get_expired") /\ lock = FREE
  /\ trie' = trie_delete(trie, Key(w))
  /\ items' = Release({Find(Key(w))})
  /\ lock' = w
  /\ th' = [th EXCEPT ![w].pc = "get_count", ![w].n = keyspace_size]
  /\ UNCHANGED <<keyspace_size, clock, sent, fault>>

get_count(w) ==
  /\ At(w, "get_count")
  /\ keyspace_size' = (th[w].n - 1) % SizeMod
  /\ lock' = FREE
  /\ Reply(w, <<"nok">>)
  /\ UNCHANGED <<trie, items, clock, sent, fault>>

\* pack_response reads the value through the pointer of the tuple.
get_pack(w) ==
  /\ At(w, "get_pack")
  /\ IF Live(th[w].item) /\ items[th[w].item].val = th[w].val
     THEN /\ Reply(w, <<"val", th[w].val>>)
          /\ UNCHANGED <<trie, items, keyspace_size, lock, clock, sent, fault>>
     ELSE Crash("released")

-----------------------------------------------------------------------------
(* get_handler, prefix *)

\* The orders in which the walk of trie_prefix_find can meet the nodes of S: a
\* node before those below it, and the nodes below any one path together.
WalkOrders(S) ==
  {s \in SetToSeqs(S) :
     /\ \A i, j \in DOMAIN s : i < j => ~IsPrefix(s[j], s[i])
     /\ \A i, j, k \in DOMAIN s :
          i < j /\ j < k => Prefixes(s[i]) \cap Prefixes(s[k]) \subseteq Prefixes(s[j])}

\* database_prefix_search under the lock.  It answers NULL when no node has
\* the prefix, and the loop that follows takes the size of that vector.
getp_search(w) ==
  /\ At(w, "getp") /\ lock = FREE
  /\ IF ~trie_node_find(trie, Key(w)) THEN Crash("null vector")
     ELSE /\ \E s \in WalkOrders(WithData(trie, Subtree(trie, Key(w)))) :
               th' = [th EXCEPT ![w].pc = "getp_loop", ![w].now = clock, ![w].i = 1,
                        ![w].vec = [j \in DOMAIN s |-> [key |-> s[j], item |-> trie.data[s[j]],
                                                       val |-> 0]]]
          /\ UNCHANGED <<trie, items, keyspace_size, lock, clock, sent, fault>>

\* One turn of the loop that looks for expired items.
getp_loop(w) ==
  /\ At(w, "getp_loop") /\ th[w].i <= Len(th[w].vec)
  /\ LET i == th[w].vec[th[w].i].item IN
       IF ~Live(i) THEN Crash("released")
       ELSE /\ IF DeltaExpired(items[i], th[w].now) THEN Goto(w, "getp_expired")
               ELSE th' = [th EXCEPT ![w].i = @ + 1]
            /\ UNCHANGED <<trie, items, keyspace_size, lock, clock, sent, fault>>

\* What is removed is the key of the request, that is the prefix, and not the
\* key of the expired item.
getp_expired(w) ==
  /\ At(w, "getp_expired") /\ lock = FREE
  /\ trie' = trie_delete(trie, Key(w))
  /\ items' = Release({Find(Key(w))})
  /\ lock' = w
  /\ th' = [th EXCEPT ![w].pc = "getp_count", ![w].n = keyspace_size]
  /\ UNCHANGED <<keyspace_size, clock, sent, fault>>

\* vector_delete moves the rest down by one, and the loop still steps on.
getp_count(w) ==
  /\ At(w, "getp_count")
  /\ keyspace_size' = (th[w].n - 1) % SizeMod
  /\ lock' = FREE
  /\ th' = [th EXCEPT ![w].pc = "getp_loop", ![w].i = @ + 1,
                      ![w].vec = RemoveAt(@, th[w].i)]
  /\ UNCHANGED <<trie, items, clock, sent, fault>>

\* get_response: an array of Len(vec) tuples, which tmalloc asserts is not
\* empty, each with the value pointer of its item.
getp_tuples(w) ==
  /\ At(w, "getp_loop") /\ th[w].i > Len(th[w].vec)
  /\ LET vec == th[w].vec IN
       IF vec = <<>> THEN Crash("empty allocation")
       ELSE IF \E j \in DOMAIN vec : ~Live(vec[j].item) THEN Crash("released")
       ELSE /\ th' = [th EXCEPT ![w].pc = "getp_pack",
                        ![w].vec = [j \in DOMAIN vec |->
                                      [vec[j] EXCEPT !.val = items[vec[j].item].val]]]
            /\ UNCHANGED <<trie, items, keyspace_size, lock, clock, sent, fault>>

getp_pack(w) ==
  /\ At(w, "getp_pack")
  /\ LET vec == th[w].vec IN
       IF \A j \in DOMAIN vec : /\ Live(vec[j].item)
                                /\ items[vec[j].item].val = vec[j].val
       THEN /\ Reply(w, <<"keys", {<<vec[j].key, vec[j].val>> : j \in DOMAIN vec}>>)
            /\ UNCHANGED <<trie, items, keyspace_size, lock, clock, sent, fault>>
       ELSE Crash("released")

-----------------------------------------------------------------------------
(* del_handler *)

\* Mutant: counts down whether or not there was a key.
del_remove_unchecked(w) ==
  /\ At(w, "del") /\ lock = FREE
  /\ trie' = trie_delete(trie, Key(w))
  /\ items' = Release({Find(Key(w))})
  /\ Goto(w, "del_read")
  /\ UNCHANGED <<keyspace_size, lock, clock, sent, fault>>

\* One key: removed under the lock, the counter updated after it.
del_remove(w) ==
  /\ At(w, "del") /\ lock = FREE
  /\ trie' = trie_delete(trie, Key(w))
  /\ items' = Release({Find(Key(w))})
  /\ IF trie_delete_ret(trie, Key(w)) THEN Goto(w, "del_read") ELSE Reply(w, <<"nok">>)
  /\ UNCHANGED <<keyspace_size, lock, clock, sent, fault>>

del_read(w) ==
  /\ At(w, "del_read")
  /\ th' = [th EXCEPT ![w].pc = "del_write", ![w].n = (keyspace_size - 1) % SizeMod]
  /\ UNCHANGED <<trie, items, keyspace_size, lock, clock, sent, fault>>

\* Prefix: the size is read before the lock is taken, and again after.
delp_size(w) ==
  /\ At(w, "delp")
  /\ th' = [th EXCEPT ![w].pc = "delp_remove", ![w].n = trie.size]
  /\ UNCHANGED <<trie, items, keyspace_size, lock, clock, sent, fault>>

delp_remove(w) ==
  /\ At(w, "delp_remove") /\ lock = FREE
  /\ trie' = trie_prefix_delete(trie, Key(w))
  /\ items' = IF trie_node_find(trie, Key(w))
              THEN Release(ItemsAt(Subtree(trie, Key(w)))) ELSE items
  /\ Goto(w, "delp_read")
  /\ UNCHANGED <<keyspace_size, lock, clock, sent, fault>>

delp_read(w) ==
  /\ At(w, "delp_read")
  /\ th' = [th EXCEPT ![w].pc = "del_write",
                      ![w].n = (keyspace_size - (th[w].n - trie.size)) % SizeMod]
  /\ UNCHANGED <<trie, items, keyspace_size, lock, clock, sent, fault>>

del_write(w) ==
  /\ At(w, "del_write")
  /\ keyspace_size' = th[w].n
  /\ Reply(w, <<"ok">>)
  /\ UNCHANGED <<trie, items, lock, clock, sent, fault>>

-----------------------------------------------------------------------------

Worker(w) ==
  \/ put_insert(w) \/ put_count(w) \/ put_prefix(w)
  \/ get_search(w) \/ get_item(w) \/ get_expired(w) \/ get_count(w) \/ get_pack(w)
  \/ getp_search(w) \/ getp_loop(w) \/ getp_expired(w) \/ getp_count(w)
  \/ getp_tuples(w) \/ getp_pack(w)
  \/ del_remove(w) \/ del_read(w) \/ delp_size(w) \/ delp_remove(w) \/ delp_read(w)
  \/ del_write(w)

Next == Tick \/ \E w \in Workers : Receive(w) \/ Worker(w)

\* A worker that has a request goes on with it; nothing makes a client send.
Fairness == \A w \in Workers : WF_vars(Worker(w))

Spec == Init /\ [][Next]_vars /\ Fairness

-----------------------------------------------------------------------------
(* Properties *)

KeyCount == Cardinality(WithData(trie, DOMAIN trie.data))

\* Whatever the workers interleave, the trie holds no pointer to a released
\* item and no item twice, and its size covers its keys: every change of the
\* trie is made with the spinlock held.
TrieConsistent ==
  LET full == WithData(trie, DOMAIN trie.data) IN
  /\ \A q \in full : Live(trie.data[q])
  /\ \A q, r \in full : trie.data[q] = trie.data[r] => q = r
  /\ Cardinality(full) <= trie.size

\* No worker follows a pointer to an item or a value another command released
\* ("Guards the access to the main database structure, the trie underlying
\* the DB", server.c).
NoReleasedRead == fault # "released"

\* triedb.keyspace_size is the number of keys when no command is running
\* ("Total count of the database keys", server.h).
KeyspaceExact ==
  (\A w \in Workers : th[w].pc = "idle") => keyspace_size = KeyCount

\* The time its PUT asked for has passed since the item was created.
Elapsed(it) == it.asked > -1 /\ it.ctime + it.asked <= clock

\* A key leaves the trie only by a command that names it: DEL of the key or
\* of a prefix of it, or a GET of the key itself.
NoKeyLost ==
  [][\A k \in Keys :
       Find(k) # NULL /\ Find(k)' = NULL =>
         \E w \in Workers :
           \/ th[w].pc \in {"del", "get_expired", "getp_expired"} /\ Key(w) = k
           \/ th[w].pc = "delp_remove" /\ IsPrefix(Key(w), k)]_vars

\* A GET that answers that a key has expired has removed it ("we delete it
\* from the database, in a lazy check behaviour", server.c).
ExpiredIsRemoved ==
  \A w \in Workers :
    th[w].pc = "idle" /\ Op(w, "get") /\ th[w].reply = <<"nok">> /\ sent = th[w].req.val
      => Find(Key(w)) = NULL

\* A prefix GET is answered, with NOK when nothing matches ("Prefix request can
\* return either a populated vector with at least one match, or a NULL
\* pointer, in this case we'd change our response to a simple NOK", server.c).
PrefixGetAnswered == fault \notin {"null vector", "empty allocation"}

\* Every command a worker takes is answered: no handler waits for ever.
Answered ==
  \A w \in Workers : th[w].pc # "idle" ~> (th[w].pc = "idle" \/ fault # "none")
=============================================================================
