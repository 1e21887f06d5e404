-------------------------- MODULE KeyspaceHistory --------------------------
(***************************************************************************)
(* Keyspace with history variables, which constrain no step: the answers   *)
(* that were right at some instant of each call in flight, and whether     *)
(* anything has happened that the handlers are not made for.  They are not *)
(* made for a removal, or a change of values in place, that overlaps       *)
(* another command, nor for a prefix GET that meets an expired item; the   *)
(* properties below say that nothing else harms them.                      *)
(***************************************************************************)
EXTENDS Keyspace

VARIABLES seen,      \* worker -> answers
          disturbed  \* one of the two has happened

hvars == <<vars, seen, disturbed>>

\* What a GET by w would be told if it were answered at once: the pairs below
\* the prefix, or the value of the key.
Answer(w) ==
  LET i == Find(Key(w)) IN
  IF Op(w, "getp")
  THEN <<"keys", {<<k, items[Find(k)].val>> :
                    k \in {q \in Keys : IsPrefix(Key(w), q) /\ Find(q) # NULL}}>>
  ELSE IF i = NULL THEN <<"nok">>
  ELSE IF Elapsed(items[i]) THEN <<"nok">> ELSE <<"val", items[i].val>>

Busy(w) == th[w].pc # "idle"

\* w is removing a key or changing values in place.
Removing(w) ==
  /\ Busy(w)
  /\ th[w].req.op \in {"putp", "del", "delp"} \/ th[w].pc \in {"get_expired", "get_count"}

Disturbance ==
  \E w \in Workers : \/ th[w].pc = "getp_expired"
                     \/ Removing(w) /\ \E v \in Workers \ {w} : Busy(v)

HInit == Init /\ seen = [w \in Workers |-> {}] /\ disturbed = FALSE

Observe ==
  /\ seen' = [w \in Workers |->
                IF ~Busy(w) /\ ~Busy(w)' THEN seen[w]
                ELSE (IF Busy(w) THEN seen[w] ELSE {}) \cup {Answer(w)'}]
  /\ disturbed' = (disturbed \/ Disturbance')

HNext == Next /\ Observe

HSpec == HInit /\ [][HNext]_hvars /\ Fairness

-----------------------------------------------------------------------------
(* Properties *)

\* A GET of one key is linearizable, whatever else runs: it answers the value
\* the key had, or that it had none or an expired one, at some instant between
\* the start of the command and its answer.
GetFresh ==
  \A w \in Workers : ~Busy(w) /\ Op(w, "get") => th[w].reply \in seen[w]

\* PUTs and GETs may overlap as they like, and removals may follow them in any
\* order: no worker then follows a pointer to an item that was released, though
\* get_handler uses its item after it has dropped the spinlock.
ReleasedOnlyIfDisturbed == fault = "released" => disturbed

\* triedb.keyspace_size does not fall below the number of keys stored, a PUT
\* that is about to count its key apart ("Total count of the database keys",
\* server.h).
KeyspaceCovers ==
  \/ disturbed
  \/ KeyCount <= keyspace_size + Cardinality({w \in Workers : th[w].pc = "put_count"})

\* A GET that removes the item it found removes an item that has outlived the
\* ttl it was stored with ("we're in the expired state", server.c), although
\* it reads the clock twice and removes in a later step.  (What it removes may
\* be a newer item, when a PUT has overtaken it.)
EvictOnlyExpired ==
  [][\A w \in Workers :
       /\ th[w].pc = "get_expired" /\ th'[w].pc # th[w].pc /\ Find(Key(w)) = th[w].item
       => disturbed \/ Elapsed(items[th[w].item])]_hvars

\* A prefix GET is a snapshot unless it is disturbed: whatever is put while it
\* collects its tuples, it answers exactly the keys that had the prefix at one
\* instant, each with its value of that instant.
PrefixGetSnapshot ==
  \A w \in Workers :
    ~disturbed /\ ~Busy(w) /\ Op(w, "getp") => th[w].reply \in seen[w]
=============================================================================
