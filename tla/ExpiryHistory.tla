---------------------------- MODULE ExpiryHistory ----------------------------
(***************************************************************************)
(* Expiry with a history variable, which constrains no step: whether a     *)
(* command has come that expiring_keys is not made for.  PUT and DEL leave *)
(* the entry of their key where it is, and TTL takes no time to live (-1)  *)
(* for one that is over.                                                   *)
(***************************************************************************)
EXTENDS Expiry

VARIABLE spoilt

hvars == <<vars, spoilt>>

Registered(k) == \E j \in 1..Len(expiring_keys) : expiring_keys[j].key = k

Spoils ==
  \E k \in Keys : \/ Registered(k) /\ (Del(k) \/ \E ttl \in PutTtls : Put(k, ttl))
                  \/ db[k] # 0 /\ -1 \in Ttls /\ Ttl(k, -1)

HInit == Init /\ spoilt = FALSE
HNext == Next /\ spoilt' = (spoilt \/ Spoils)
HSpec == HInit /\ [][HNext]_hvars /\ Fairness

-----------------------------------------------------------------------------
(* Properties *)

\* Until then every entry stands for a key that is stored with that item and
\* has a time to live ("a key with a TTL set which is not -NOTTL", server.h);
\* in particular no entry points to a released item.
RegisteredIsKey ==
  \/ spoilt
  \/ \A j \in 1..Len(expiring_keys) :
       LET e == expiring_keys[j]
       IN  db[e.key] = e.item /\ items[e.item].live /\ items[e.item].ttl # -1

\* Until then the counter does not miss a key: every removal takes one key out
\* of the trie for the one that it takes from the counter, which is unsigned.
\* (A key that is overwritten stays counted twice.)
CounterCovers ==
  spoilt \/ keyspace_size >= Cardinality({k \in Keys : db[k] # 0})

\* Until then a key that is not deleted disappears only when its own time is up
\* ("a timeout after which the key will be deleted", server.h).
ExpireOnlyDue ==
  [][spoilt \/ (\E d \in Keys : Del(d)) \/ \A k \in Keys : db[k] # 0 /\ db'[k] = 0 =>
       items[db[k]].ttl # -1 /\ Deadline(db[k]) <= clock']_hvars

\* The keys that TTL has put in the vector are removed when their time is up,
\* although nobody asks for them and the walk steps over entries ("Cycle
\* through sorted list of expiring keys and remove those which are elegible"),
\* unless they are given more time.
ExpiredRemoved ==
  \A k \in Keys :
    LET due == ~spoilt /\ Registered(k) /\ db[k] # 0 /\ Deadline(db[k]) <= clock
    IN  due ~> ~due
=============================================================================
