----------------------- MODULE KeyspaceHistoryProofs -----------------------
(***************************************************************************)
(* Proofs about KeyspaceHistory: what the pointers and the answers of a    *)
(* GET, and the counter of keys, are worth when commands overlap, for any  *)
(* number of workers.                                                      *)
(***************************************************************************)
EXTENDS KeyspaceHistory, KeyspaceProofs

-----------------------------------------------------------------------------
(* The inductive invariant *)

\* The handler a worker is in is the one of its request.
OpOf(w) ==
  LET pc == th[w].pc IN
  /\ pc \in {"put", "put_count"} => Op(w, "put")
  /\ pc = "putp" => Op(w, "putp")
  /\ pc \in {"get", "get_item", "get_expired", "get_count", "get_pack"} => Op(w, "get")
  /\ pc \in {"getp", "getp_loop", "getp_expired", "getp_count", "getp_pack"} => Op(w, "getp")
  /\ pc \in {"del", "del_read"} => Op(w, "del")
  /\ pc \in {"delp", "delp_remove", "delp_read"} => Op(w, "delp")
  /\ pc = "del_write" => th[w].req.op \in {"del", "delp"}
  /\ pc # "idle" => th[w].req.ttl \in Ttls

\* An item has a ttl some PUT asked for, cut to a short.
Stamped == \A i \in DOMAIN items : items[i].asked \in Ttls /\ items[i].ttl = Short(items[i].asked)

\* The history variable holds the answers of the calls in flight.
Observed == \A w \in Workers : Busy(w) => Answer(w) \in seen[w]

Noticed ==
  /\ disturbed \in BOOLEAN
  /\ Disturbance => disturbed
  /\ \A w \in Workers : th[w].pc = "getp_count" => disturbed

\* What the answer of a GET in flight will be has been right.
Fresh(w) ==
  /\ th[w].pc = "get_item" =>
       /\ \A q \in Full(trie) : trie.data[q] = th[w].item => q = Key(w)
       /\ Live(th[w].item) /\ ~DeltaExpired(items[th[w].item], clock)
            => <<"val", items[th[w].item].val>> \in seen[w]
  /\ th[w].pc = "get_pack" => <<"val", th[w].val>> \in seen[w]
  /\ th[w].pc = "get_count" => <<"nok">> \in seen[w]
  /\ ~Busy(w) /\ Op(w, "get") => th[w].reply \in seen[w]

\* The pairs a prefix GET has collected, with the values of the items now, and
\* with those of its tuples.
Collected(w) == <<"keys", {<<th[w].vec[j].key, items[th[w].vec[j].item].val>> :
                             j \in DOMAIN th[w].vec}>>
Packed(w) == <<"keys", {<<th[w].vec[j].key, th[w].vec[j].val>> : j \in DOMAIN th[w].vec}>>

\* While nothing has disturbed them the pointers the workers keep are good.
Safe(w) ==
  /\ th[w].pc = "get_item" => Live(th[w].item) /\ Key(w) \in Full(trie)
  /\ th[w].pc = "get_pack" => Live(th[w].item) /\ items[th[w].item].val = th[w].val
  /\ th[w].pc = "get_expired" => /\ DeltaExpired(items[th[w].item], clock)
                                 /\ Key(w) \in Full(trie)
  /\ th[w].pc \in {"getp_loop", "getp_pack"} =>
       \A j \in DOMAIN th[w].vec : Live(th[w].vec[j].item)
  /\ th[w].pc = "getp_loop" => Collected(w) \in seen[w]
  /\ th[w].pc = "getp_pack" =>
       /\ \A j \in DOMAIN th[w].vec : items[th[w].vec[j].item].val = th[w].vec[j].val
       /\ Packed(w) \in seen[w]
  /\ ~Busy(w) /\ Op(w, "getp") => th[w].reply \in seen[w]

HIInv ==
  /\ IInv /\ Noticed /\ Observed
  /\ \A w \in Workers : OpOf(w)
  /\ fault = "released" => disturbed
  /\ ~disturbed => \A w \in Workers : Safe(w)

-----------------------------------------------------------------------------
(* Where the handlers go *)

\* The steps from one program counter to the next.
Flow(a, b) ==
  \/ a = "put" /\ b = "put_count"
  \/ a \in {"put_count", "putp"} /\ b = "idle"
  \/ a = "get" /\ b \in {"idle", "get_item"}
  \/ a = "get_item" /\ b \in {"get_expired", "get_pack"}
  \/ a = "get_expired" /\ b = "get_count"
  \/ a \in {"get_count", "get_pack"} /\ b = "idle"
  \/ a = "getp" /\ b = "getp_loop"
  \/ a = "getp_loop" /\ b \in {"getp_loop", "getp_expired", "getp_pack"}
  \/ a = "getp_expired" /\ b = "getp_count"
  \/ a = "getp_count" /\ b = "getp_loop"
  \/ a = "getp_pack" /\ b = "idle"
  \/ a = "del" /\ b \in {"idle", "del_read"}
  \/ a \in {"del_read", "delp_read"} /\ b = "del_write"
  \/ a = "delp" /\ b = "delp_remove"
  \/ a = "delp_remove" /\ b = "delp_read"
  \/ a = "del_write" /\ b = "idle"

\* A step of a handler follows the flow of positions, or it is a fault and
\* changes nothing else.
LEMMA WorkerFlow ==
  ASSUME IInv, NEW w \in Workers, Worker(w)
  PROVE  \/ fault' # "none" /\ UNCHANGED <<trie, items, keyspace_size, lock, clock, sent, th>>
         \/ Moved(w) /\ Flow(th[w].pc, th'[w].pc) /\ fault' = fault /\ sent' = sent
  <1>1. TypeOK
    BY Zenon DEF IInv
  <1>2. CASE put_insert(w) \/ put_count(w) \/ put_prefix(w)
    BY <1>1, <1>2, PutSteps, Zenon DEF put_insert, put_count, put_prefix, At, Went, Answers, Flow
  <1>3. CASE get_search(w)
    BY <1>3, GetSteps, Zenon DEF get_search, GetSearched, At, Went, Answers, Flow
  <1>4. CASE get_item(w)
    BY <1>4, GetSteps, Zenon DEF get_item, GetTested, At, Went, Flow, Crash
  <1>5. CASE get_expired(w) \/ get_count(w)
    BY <1>5, GetSteps, Zenon DEF get_expired, get_count, At, Went, Answers, Flow
  <1>6. CASE get_pack(w)
    BY <1>6, GetSteps, Zenon DEF get_pack, GetPacked, At, Went, Answers, Flow, Crash
  <1>7. CASE getp_search(w)
    BY <1>7, PrefixGetSteps, Zenon DEF getp_search, PrefixSearched, At, Flow, Crash
  <1>8. CASE getp_loop(w)
    BY <1>8, PrefixGetSteps, Zenon DEF getp_loop, PrefixTested, At, Went, Flow, Crash
  <1>9. CASE getp_expired(w) \/ getp_count(w)
    BY <1>9, PrefixGetSteps, Zenon DEF getp_expired, getp_count, At, Went, Flow
  <1>10. CASE getp_tuples(w)
    BY <1>10, PrefixGetSteps, ZenonT(30) DEF getp_tuples, PrefixTuples, At, Flow, Crash
  <1>11. CASE getp_pack(w)
    BY <1>11, PrefixGetSteps, Zenon DEF getp_pack, PrefixPacked, At, Went, Answers, Flow, Crash
  <1>12. CASE \/ del_remove(w) \/ del_read(w) \/ delp_size(w) \/ delp_remove(w)
              \/ delp_read(w) \/ del_write(w)
    BY <1>1, <1>12, DelSteps, Zenon DEF del_remove, del_read, delp_size, delp_remove, delp_read,
         del_write, At, Went, Answers, Flow
  <1>13. QED
    BY <1>2, <1>3, <1>4, <1>5, <1>6, <1>7, <1>8, <1>9, <1>10, <1>11, <1>12, Zenon DEF Worker

-----------------------------------------------------------------------------
(* The history variables and the program counters *)

\* The answers seen by a worker in flight are never forgotten, and those of an
\* idle one do not change.
LEMMA SeenStep ==
  ASSUME Observe, NEW w \in Workers
  PROVE  /\ Busy(w) => seen[w] \subseteq seen'[w]
         /\ ~Busy(w) /\ ~Busy(w)' => seen'[w] = seen[w]
         /\ Busy(w) \/ Busy(w)' => Answer(w)' \in seen'[w]
  BY Zenon DEF Observe

\* The position of a worker stays one of the command it received.
LEMMA OpOfStep ==
  ASSUME IInv, \A v \in Workers : OpOf(v), [Next]_vars
  PROVE  \A v \in Workers : OpOf(v)'
  <1>1. ASSUME th' = th PROVE \A v \in Workers : OpOf(v)'
    BY <1>1, Zenon DEF OpOf, Op
  <1>2. ASSUME NEW w \in Workers, OnlyThread(w), OpOf(w)' PROVE \A v \in Workers : OpOf(v)'
    BY <1>2 DEF OnlyThread, OpOf, Op
  <1>3. ASSUME NEW w \in Workers, Receive(w) PROVE \A v \in Workers : OpOf(v)'
    <2>1. /\ OnlyThread(w) /\ th'[w].pc = th'[w].req.op /\ th'[w].req.op \in Ops
          /\ th'[w].req.ttl \in Ttls
      BY <1>3, ReceiveTypes, Zenon
    <2>2. OpOf(w)'
      BY <2>1, OpsAssumption, Zenon DEF OpOf, Op
    <2>3. QED
      BY <1>2, <2>1, <2>2, Zenon
  <1>4. ASSUME NEW w \in Workers, Worker(w) PROVE \A v \in Workers : OpOf(v)'
    <2>1. th' = th \/ (Moved(w) /\ Flow(th[w].pc, th'[w].pc))
      BY <1>4, WorkerFlow, Zenon
    <2>2. Moved(w) /\ Flow(th[w].pc, th'[w].pc) => OpOf(w)'
      BY Zenon DEF Moved, Flow, OpOf, Op
    <2>3. QED
      BY <1>1, <1>2, <2>1, <2>2, Zenon DEF Moved
  <1>5. QED
    BY <1>1, <1>3, <1>4, Zenon DEF Next, Tick, vars

\* The history variables keep noticing: what has overlapped is recorded, and
\* disturbed is not forgotten.
LEMMA NoticedStep ==
  ASSUME HIInv, HNext
  PROVE  Noticed' /\ Observed' /\ (disturbed => disturbed')
  <1>1. disturbed' = (disturbed \/ Disturbance') /\ disturbed \in BOOLEAN
    BY Zenon DEF HNext, Observe, HIInv, Noticed
  <1>2. Observed'
    BY SeenStep, Zenon DEF HNext, Observed
  <1>3. disturbed' \in BOOLEAN /\ (Disturbance' => disturbed')
    BY <1>1, Zenon
  <1>4. ASSUME NEW w \in Workers, th'[w].pc = "getp_count" PROVE disturbed'
    <2>1. CASE th[w].pc = "getp_count"
      BY <1>1, <2>1, Zenon DEF HIInv, Noticed
    <2>2. CASE th[w].pc # "getp_count"
      <3>1. PICK v \in Workers : Receive(v) \/ Worker(v)
        BY <1>4, <2>2, Zenon DEF HNext, Next, Tick
      <3>2. CASE v # w
        BY <1>4, <2>2, <3>1, <3>2, ReceiveTypes, WorkerFlow, Zenon DEF HIInv, Moved, OnlyThread
      <3>3. CASE v = w /\ Receive(w)
        BY <1>4, <3>3, ReceiveTypes, OpsAssumption, Zenon DEF HIInv
      <3>4. CASE v = w /\ Worker(w)
        <4>1. Flow(th[w].pc, "getp_count")
          BY <1>4, <2>2, <3>4, WorkerFlow, Zenon DEF HIInv
        <4>2. th[w].pc = "getp_expired"
          BY <4>1, Zenon DEF Flow
        <4>3. QED
          BY <1>1, <4>2, Zenon DEF HIInv, Noticed, Disturbance
      <3>5. QED
        BY <3>1, <3>2, <3>3, <3>4, Zenon
    <2>3. QED
      BY <2>1, <2>2, Zenon
  <1>5. QED
    BY <1>1, <1>2, <1>3, <1>4, Zenon DEF Noticed

\* As long as nothing is disturbed a worker that removes keys, or changes values
\* in place, is alone.
LEMMA Alone ==
  ASSUME HIInv, ~disturbed, NEW w \in Workers, Changing(w), NEW v \in Workers \ {w}
  PROVE  put_insert(w) \/ (~Busy(v) /\ th[w].pc # "getp_expired")
  <1>1. ~Disturbance /\ OpOf(w)
    BY Zenon DEF HIInv, Noticed
  <1>2. ASSUME ~put_insert(w) PROVE Removing(w) \/ th[w].pc = "getp_expired"
    BY <1>1, <1>2, Zenon DEF Changing, put_prefix, get_expired, getp_expired, del_remove, delp_remove,
         At, Removing, Busy, OpOf, Op
  <1>3. QED
    BY <1>1, <1>2, Zenon DEF Disturbance

-----------------------------------------------------------------------------
(* The pointers of an undisturbed worker *)

\* Time does not bring back an item that has expired.
LEMMA ExpiredStays ==
  ASSUME NEW it \in Item, NEW a \in Nat, NEW b \in Nat, a <= b, DeltaExpired(it, a)
  PROVE  DeltaExpired(it, b)
  BY SMTT(30) DEF DeltaExpired, Item

\* A worker whose items are left alone stays safe.
LEMMA SafeFrame ==
  ASSUME IInv, NEW v \in Workers, Safe(v), th'[v] = th[v],
         \A i \in DOMAIN items : items'[i] = items[i],
         clock' \in Nat, clock <= clock', Full(trie) \subseteq Full(trie)',
         Busy(v) => seen[v] \subseteq seen'[v], ~Busy(v) => seen'[v] = seen[v]
  PROVE  Safe(v)'
  <1>1. Points(v) /\ clock \in Nat /\ items \in Seq(Item)
    BY Zenon DEF IInv, Pointers, TypeOK
  <1>2. th[v].pc = "get_expired" => DeltaExpired(items'[th[v].item], clock')
    BY <1>1, AllocatedItem, ExpiredStays, Zenon DEF Points, Safe
  <1>3. Collected(v)' = Collected(v) /\ Packed(v)' = Packed(v)
    <2>1. \A j \in DOMAIN th[v].vec : items'[th[v].vec[j].item] = items[th[v].vec[j].item]
      BY <1>1, Zenon DEF Points
    <2> DEFINE new(j) == <<th[v].vec[j].key, items'[th[v].vec[j].item].val>>
               old(j) == <<th[v].vec[j].key, items[th[v].vec[j].item].val>>
    <2>2. {new(j) : j \in DOMAIN th[v].vec} = {old(j) : j \in DOMAIN th[v].vec}
      <3>1. \A j \in DOMAIN th[v].vec : new(j) = old(j)
        BY <2>1, Zenon
      <3> HIDE DEF new, old
      <3> QED BY <3>1, Zenon
    <2>3. Packed(v)' = Packed(v)
      BY Zenon DEF Packed
    <2> QED BY <2>2, <2>3, Zenon DEF Collected
  <1>4. /\ th[v].pc \in {"get_item", "get_pack"} => items'[th[v].item] = items[th[v].item]
        /\ \A j \in DOMAIN th[v].vec : items'[th[v].vec[j].item] = items[th[v].vec[j].item]
    BY <1>1, Zenon DEF Points
  <1>5. /\ th[v].pc = "getp_loop" => Collected(v) \in seen[v]
        /\ th[v].pc = "getp_pack" => Packed(v) \in seen[v]
    BY Zenon DEF Safe
  <1>6. /\ th[v].pc = "getp_loop" => Collected(v)' \in seen'[v]
        /\ th[v].pc = "getp_pack" => Packed(v)' \in seen'[v]
    BY <1>3, <1>5, Zenon DEF Busy
  <1>7. QED
    BY <1>2, <1>4, <1>6 DEF Safe, Live, Key, Busy, Op

\* The workers that do not take the step.
LEMMA SafeOthers ==
  ASSUME HIInv, HNext, ~disturbed, NEW w \in Workers, Receive(w) \/ Worker(w),
         NEW v \in Workers \ {w}
  PROVE  Safe(v)'
  <1>1. th'[v] = th[v] /\ clock' = clock /\ clock \in Nat
    <2>1. th'[v] = th[v]
      BY ReceiveTypes, WorkerFlow, Zenon DEF HIInv, Moved, OnlyThread
    <2>2. clock' = clock
      BY ChangingSteps, Zenon
    <2>3. QED
      BY <2>1, <2>2, Zenon DEF HIInv, IInv, TypeOK
  <1>2. /\ Busy(v) => seen[v] \subseteq seen'[v]
        /\ ~Busy(v) => seen'[v] = seen[v]
    BY <1>1, SeenStep, Zenon DEF HNext, Busy
  <1>3. Safe(v)
    BY Zenon DEF HIInv
  <1>4. CASE UNCHANGED <<trie, items>>
    BY <1>1, <1>2, <1>4, SafeFrame DEF HIInv
  <1>5. CASE put_insert(w)
    <2>1. /\ \A i \in DOMAIN items : items'[i] = items[i]
          /\ Full(trie) \subseteq Full(trie)'
      BY <1>5, InsertStored, Zenon DEF HIInv
    <2>2. QED
      BY <1>1, <1>2, <2>1, SafeFrame DEF HIInv
  <1>6. CASE Changing(w) /\ ~put_insert(w)
    <2>1. ~Busy(v)
      BY <1>6, Alone, Zenon
    <2>2. QED
      BY <1>1, <1>2, <1>3, <2>1, Zenon DEF Safe, Busy, Op
  <1>7. Changing(w) \/ UNCHANGED <<trie, items>>
    BY ChangingSteps, Zenon
  <1>8. QED
    BY <1>4, <1>5, <1>6, <1>7, Zenon

\* What the walk of a prefix GET collects is the answer of that instant.
LEMMA CollectedIsAnswer ==
  ASSUME IInv, NEW w \in Workers, Op(w, "getp"), Key(w) \in Keys,
         NEW s \in WalkOrders(WithData(trie, Subtree(trie, Key(w)))),
         UNCHANGED <<trie, items>>,
         th'[w].vec = [j \in DOMAIN s |-> [key |-> s[j], item |-> trie.data[s[j]], val |-> 0]]
  PROVE  Collected(w)' = Answer(w) /\ \A j \in DOMAIN th'[w].vec : Live(th'[w].vec[j].item)
  <1> DEFINE p == Key(w)
             vec == th'[w].vec
             S == WithData(trie, Subtree(trie, p))
             value(k) == items[trie.data[k]].val
  <1>1. /\ \A j \in DOMAIN vec : vec[j].item = trie.data[vec[j].key] /\ Live(vec[j].item)
        /\ {vec[j].key : j \in DOMAIN vec} = S
    <2> DEFINE f == [j \in DOMAIN s |-> [key |-> s[j], item |-> trie.data[s[j]], val |-> 0]]
    <2>1. /\ \A j \in DOMAIN f : f[j].item = trie.data[f[j].key] /\ Live(f[j].item)
          /\ {f[j].key : j \in DOMAIN f} = S
      BY SearchedVec, Zenon
    <2>2. vec = f
      OBVIOUS
    <2> HIDE DEF f, S
    <2>3. QED
      BY <2>1, <2>2
  <1>2. {q \in Keys : IsPrefix(p, q) /\ Find(q) # NULL} = S
    <2>1. S = {q \in Full(trie) : IsPrefix(p, q)} /\ Full(trie) \subseteq Keys
      BY Zenon DEF Full, WithData, Subtree, IInv, Owned
    <2>2. \A q \in Keys : Find(q) # NULL <=> q \in Full(trie)
      BY FindItem, Zenon
    <2>3. QED
      BY <2>1, <2>2, Zenon
  <1>3. \A k \in S : Find(k) = trie.data[k]
    <2>1. S \subseteq Full(trie) /\ Full(trie) \subseteq Keys
      BY Zenon DEF Full, WithData, Subtree, IInv, Owned
    <2>2. QED
      BY <2>1, FindItem, Zenon
  <1> HIDE DEF S
  <1>4. Answer(w) = <<"keys", {<<k, value(k)>> : k \in S}>>
    <2>1. Answer(w) = <<"keys", {<<k, items[Find(k)].val>> : k \in S}>>
      BY <1>2, Zenon DEF Answer
    <2>2. {<<k, items[Find(k)].val>> : k \in S} = {<<k, value(k)>> : k \in S}
      BY <1>3
    <2>3. QED
      BY <2>1, <2>2, Zenon
  <1>5. {<<vec[j].key, items'[vec[j].item].val>> : j \in DOMAIN vec}
          = {<<k, value(k)>> : k \in S}
    <2>1. \A j \in DOMAIN vec : vec[j].key \in S /\ items'[vec[j].item].val = value(vec[j].key)
      BY <1>1, Zenon
    <2>2. \A k \in S : \E j \in DOMAIN vec : k = vec[j].key
      BY <1>1, Zenon
    <2> HIDE DEF value, vec
    <2>3. QED
      BY <2>1, <2>2
  <1>6. QED
    BY <1>1, <1>4, <1>5, Zenon DEF Collected

\* The worker that takes the step.
LEMMA SafeOwn ==
  ASSUME HIInv, HNext, ~disturbed, NEW w \in Workers, Worker(w)
  PROVE  Safe(w)' /\ fault' # "released"
  <1>1. IInv /\ TypeOK /\ Safe(w) /\ OpOf(w) /\ Points(w)
    BY Zenon DEF HIInv, IInv, Pointers
  <1>2. Busy(w) => seen[w] \subseteq seen'[w]
    BY SeenStep, Zenon DEF HNext
  <1>3. /\ th[w].pc \in {"put_count", "putp", "get", "get_item", "get_expired", "get_count",
                         "get_pack", "del", "del_write"} => ~Op(w, "getp")
        /\ th[w].pc \notin {"getp_expired", "getp_count"}
    BY <1>1, Zenon DEF OpOf, Op, HIInv, Noticed, Disturbance
  <1>4. ASSUME NEW pc, Went(w, pc), fault' = "none",
               pc \notin {"get_item", "get_expired", "get_pack", "getp_loop", "getp_pack"},
               pc = "idle" => ~Op(w, "getp")
        PROVE  Safe(w)' /\ fault' # "released"
    BY <1>4, Zenon DEF Safe, Went, Moved, Busy, Op
  <1>5. CASE put_insert(w) \/ put_count(w) \/ put_prefix(w)
    BY <1>1, <1>3, <1>4, <1>5, PutSteps, Zenon DEF put_insert, put_count, put_prefix, At, Answers
  <1>6. CASE get_search(w)
    <2>1. /\ Key(w) \in Keys /\ th[w].pc = "get" /\ fault' = "none"
          /\ UNCHANGED <<trie, items>>
      BY <1>1, <1>6, Zenon DEF get_search, At, IInv, Named
    <2>2. GetSearched(w)
      BY <1>1, <1>6, GetSteps, Zenon
    <2>3. Find(Key(w)) # NULL => Live(Find(Key(w))) /\ Key(w) \in Full(trie)
      BY <1>1, <2>1, FindItem, Zenon
    <2>4. CASE Answers(w, <<"nok">>)
      BY <1>3, <1>4, <2>1, <2>4, Zenon DEF Answers
    <2>5. CASE ~Answers(w, <<"nok">>)
      BY <2>1, <2>2, <2>3, <2>5, Zenon DEF GetSearched, Safe, Live, Key, Moved, Busy
    <2>6. QED
      BY <2>4, <2>5, Zenon
  <1>7. CASE get_item(w)
    <2>1. /\ th[w].pc = "get_item" /\ fault = "none" /\ GetTested(w)
          /\ Live(th[w].item) /\ Key(w) \in Full(trie)
      BY <1>1, <1>7, GetSteps, Zenon DEF get_item, At, Safe
    <2>2. UNCHANGED <<trie, items, clock, fault>>
      BY <1>7, <2>1, Zenon DEF get_item
    <2>3. QED
      BY <2>1, <2>2, Zenon DEF GetTested, Went, SameItem, Safe, Live, Key, Moved, Busy
  <1>8. CASE get_expired(w) \/ get_count(w)
    BY <1>1, <1>3, <1>4, <1>8, GetSteps, Zenon DEF get_expired, get_count, At, Answers
  <1>9. CASE get_pack(w)
    <2>1. /\ th[w].pc = "get_pack" /\ fault = "none" /\ GetPacked(w)
          /\ Live(th[w].item) /\ items[th[w].item].val = th[w].val
      BY <1>1, <1>9, GetSteps, Zenon DEF get_pack, At, Safe
    <2>2. fault' = "none" /\ Answers(w, <<"val", th[w].val>>)
      BY <1>9, <2>1, Zenon DEF get_pack, GetPacked
    <2>3. QED
      BY <1>3, <1>4, <2>1, <2>2, Zenon DEF Answers
  <1>10. CASE getp_search(w)
    <2>1. /\ Key(w) \in Keys /\ th[w].pc = "getp" /\ PrefixSearched(w) /\ Op(w, "getp")
          /\ UNCHANGED <<trie, items>>
      BY <1>1, <1>10, PrefixGetSteps, Zenon DEF getp_search, At, IInv, Named, OpOf, Crash
    <2>2. CASE Crash("null vector")
      BY <2>1, <2>2, ZenonT(30) DEF Crash, Safe, Busy
    <2>3. CASE ~Crash("null vector")
      <3>1. fault' = "none" /\ trie_node_find(trie, Key(w))
        BY <1>10, <2>1, <2>3, Zenon DEF getp_search, At, PrefixSearched
      <3>2. PICK s \in WalkOrders(WithData(trie, Subtree(trie, Key(w)))) :
              /\ th'[w].vec = [j \in DOMAIN s |-> [key |-> s[j], item |-> trie.data[s[j]],
                                                   val |-> 0]]
              /\ th'[w].pc = "getp_loop"
        BY <2>1, <2>3, Zenon DEF PrefixSearched
      <3>3. Collected(w)' = Answer(w) /\ \A j \in DOMAIN th'[w].vec : Live(th'[w].vec[j].item)
        BY <1>1, <2>1, <3>2, CollectedIsAnswer, Zenon
      <3>4. Answer(w) \in seen[w] /\ Busy(w)
        BY <2>1, Zenon DEF HIInv, Observed, Busy
      <3>5. Collected(w)' \in seen'[w]
        BY <1>2, <3>3, <3>4, Zenon
      <3>6. QED
        BY <2>1, <3>1, <3>2, <3>3, <3>5, Zenon DEF Safe, Live, Busy
    <2>4. QED
      BY <2>2, <2>3, Zenon
  <1>11. CASE getp_loop(w)
    <2>1. /\ th[w].pc = "getp_loop" /\ fault = "none" /\ PrefixTested(w) /\ Busy(w)
          /\ \A j \in DOMAIN th[w].vec : Live(th[w].vec[j].item)
          /\ Collected(w) \in seen[w]
      BY <1>1, <1>11, PrefixGetSteps, Zenon DEF getp_loop, At, Safe, Busy
    <2>2. th[w].i \in DOMAIN th[w].vec
      <3>1. th[w].i \in Nat /\ th[w].vec \in Seq(Tuple)
        BY <1>1, Zenon DEF TypeOK, Thread
      <3>2. th[w].i > 0 /\ th[w].i <= Len(th[w].vec)
        BY <1>1, <1>11, <2>1, Zenon DEF getp_loop, Points
      <3>3. QED
        BY <3>1, <3>2
    <2>3. fault' = "none" /\ UNCHANGED <<trie, items>>
      BY <1>11, <2>1, <2>2, Zenon DEF getp_loop
    <2>4. \/ Went(w, "getp_expired")
          \/ th'[w].pc = "getp_loop" /\ th'[w].vec = th[w].vec
      BY <2>1, <2>2, Zenon DEF PrefixTested
    <2>5. th'[w].vec = th[w].vec => Collected(w)' = Collected(w)
      BY <2>3, Zenon DEF Collected
    <2>6. CASE Went(w, "getp_expired")
      BY <1>4, <2>3, <2>6, Zenon
    <2>7. CASE th'[w].pc = "getp_loop" /\ th'[w].vec = th[w].vec
      BY <1>2, <2>1, <2>3, <2>5, <2>7, Zenon DEF Safe, Live, Busy
    <2>8. QED
      BY <2>4, <2>6, <2>7, Zenon
  <1>12. CASE getp_tuples(w)
    <2>1. /\ th[w].pc = "getp_loop" /\ fault = "none" /\ PrefixTuples(w) /\ Busy(w)
          /\ \A j \in DOMAIN th[w].vec : Live(th[w].vec[j].item)
          /\ Collected(w) \in seen[w]
      BY <1>1, <1>12, PrefixGetSteps, ZenonT(30) DEF getp_tuples, At, Safe, Busy
    <2>2. CASE Crash("empty allocation")
      <3>1. Collected(w)' = Collected(w)
        BY <2>2, Zenon DEF Collected, Crash
      <3>2. QED
        BY <1>2, <2>1, <2>2, <3>1, Zenon DEF Crash, Safe, Live, Busy
    <2>3. CASE ~Crash("empty allocation")
      <3> DEFINE vec == th[w].vec
      <3>1. /\ th'[w].pc = "getp_pack"
            /\ th'[w].vec = [j \in DOMAIN vec |-> [vec[j] EXCEPT !.val = items[vec[j].item].val]]
        BY <2>1, <2>3, Zenon DEF PrefixTuples
      <3>2. UNCHANGED <<trie, items, fault>>
        BY <1>12, <2>1, <2>3, Zenon DEF getp_tuples
      <3>3. \A j \in DOMAIN vec : vec[j] \in Tuple
        <4>1. vec \in Seq(Tuple)
          BY <1>1, Zenon DEF TypeOK, Thread
        <4>2. QED
          BY <4>1, SeqElements, Zenon
      <3>4. DOMAIN th'[w].vec = DOMAIN vec
        BY <3>1, Zenon
      <3>5. \A j \in DOMAIN vec : /\ th'[w].vec[j].item = vec[j].item
                                  /\ th'[w].vec[j].key = vec[j].key
                                  /\ th'[w].vec[j].val = items[vec[j].item].val
        BY <3>1, <3>3, Zenon DEF Tuple
      <3>6. Packed(w)' = Collected(w)
        BY <3>4, <3>5, ZenonT(60) DEF Packed, Collected
      <3>7. QED
        BY <1>2, <2>1, <3>1, <3>2, <3>4, <3>5, <3>6, Zenon DEF Safe, Live, Busy
    <2>4. QED
      BY <2>2, <2>3, Zenon
  <1>13. CASE getp_pack(w)
    <2>1. /\ th[w].pc = "getp_pack" /\ fault = "none" /\ PrefixPacked(w) /\ Busy(w)
          /\ \A j \in DOMAIN th[w].vec : /\ Live(th[w].vec[j].item)
                                         /\ items[th[w].vec[j].item].val = th[w].vec[j].val
          /\ Packed(w) \in seen[w]
      BY <1>1, <1>13, PrefixGetSteps, Zenon DEF getp_pack, At, Safe, Busy
    <2>2. Answers(w, Packed(w)) /\ fault' = "none"
      BY <1>13, <2>1, Zenon DEF getp_pack, PrefixPacked, Packed
    <2>3. QED
      BY <1>2, <2>1, <2>2, Zenon DEF Answers, Went, Safe, Busy
  <1>14. CASE \/ del_remove(w) \/ del_read(w) \/ delp_size(w) \/ delp_remove(w)
              \/ delp_read(w) \/ del_write(w)
    BY <1>1, <1>3, <1>4, <1>14, DelSteps, Zenon DEF del_remove, del_read, delp_size, delp_remove,
         delp_read, del_write, At, Answers
  <1>15. CASE getp_expired(w) \/ getp_count(w)
    BY <1>3, <1>15, Zenon DEF getp_expired, getp_count, At
  <1>16. QED
    BY <1>5, <1>6, <1>7, <1>8, <1>9, <1>10, <1>11, <1>12, <1>13, <1>14, <1>15, SMTT(30) DEF Worker

\* The invariant holds at the start.
LEMMA HInitHIInv == HInit => HIInv
  <1> SUFFICES ASSUME HInit PROVE HIInv
    OBVIOUS
  <1>1. IInv /\ \A w \in Workers : th[w] = Idle
    BY InitIInv, Zenon DEF HInit, Init
  <1>2. /\ Idle.pc = "idle" /\ Idle.req.op = "none"
    BY Zenon DEF Idle
  <1>3. Noticed /\ Observed
    BY <1>1, <1>2, Zenon DEF HInit, Noticed, Disturbance, Removing, Busy, Observed
  <1>4. \A w \in Workers : OpOf(w) /\ Safe(w)
    BY <1>1, <1>2, Zenon DEF OpOf, Safe, Op, Busy
  <1>5. QED
    BY <1>1, <1>3, <1>4, Zenon DEF HIInv, HInit, Init

\* Every step preserves the invariant.
LEMMA HNextHIInv == HIInv /\ [HNext]_hvars => HIInv'
  <1>1. ASSUME HIInv, HNext PROVE HIInv'
    <2>1. IInv' /\ \A w \in Workers : OpOf(w)'
      BY <1>1, NextIInv, OpOfStep, Zenon DEF HIInv, HNext
    <2>2. Noticed' /\ Observed' /\ (disturbed => disturbed')
      BY <1>1, NoticedStep, Zenon
    <2>3. ASSUME ~disturbed
          PROVE  fault' # "released" /\ \A v \in Workers : Safe(v)'
      <3>1. \A v \in Workers : Safe(v)
        BY <1>1, <2>3, Zenon DEF HIInv
      <3>2. CASE Tick
        <4>1. /\ UNCHANGED <<trie, items, th, fault>> /\ fault = "none"
              /\ clock' \in Nat /\ clock <= clock'
          BY <1>1, <3>2 DEF Tick, HIInv, IInv, TypeOK
        <4>2. \A v \in Workers : /\ Busy(v) => seen[v] \subseteq seen'[v]
                                 /\ ~Busy(v) => seen'[v] = seen[v]
          BY <1>1, <4>1, SeenStep, Zenon DEF HNext, Busy
        <4>3. QED
          BY <1>1, <3>1, <4>1, <4>2, SafeFrame, Zenon DEF HIInv
      <3>3. ASSUME NEW w \in Workers, Receive(w)
            PROVE  fault' # "released" /\ \A v \in Workers : Safe(v)'
        <4>1. Safe(w)'
          <5>1. th'[w].pc \in Ops
            BY <1>1, <3>3, ReceiveTypes, Zenon DEF HIInv
          <5>2. QED
            BY <5>1, OpsAssumption, Zenon DEF Safe, Busy
        <4>2. fault' = "none"
          BY <3>3, Zenon DEF Receive, At
        <4>3. QED
          BY <1>1, <2>3, <3>3, <4>1, <4>2, SafeOthers, Zenon
      <3>4. ASSUME NEW w \in Workers, Worker(w)
            PROVE  fault' # "released" /\ \A v \in Workers : Safe(v)'
        BY <1>1, <2>3, <3>4, SafeOwn, SafeOthers, Zenon
      <3>5. QED
        BY <1>1, <3>2, <3>3, <3>4, Zenon DEF HNext, Next
    <2>4. disturbed \in BOOLEAN /\ disturbed' \in BOOLEAN
      BY <1>1, <2>2, Zenon DEF HIInv, Noticed
    <2>5. QED
      BY <2>1, <2>2, <2>3, <2>4, Zenon DEF HIInv
  <1>2. ASSUME HIInv, UNCHANGED hvars PROVE HIInv'
    <2>1. /\ UNCHANGED <<trie, items, keyspace_size, lock, clock, sent, th, fault>>
          /\ UNCHANGED <<seen, disturbed>>
      BY <1>2, Zenon DEF hvars, vars
    <2>2. IInv'
      BY <1>2, <2>1, NextIInv, Zenon DEF HIInv, vars
    <2>3. \A w \in Workers : Answer(w)' = Answer(w) /\ Busy(w)' = Busy(w)
      BY <2>1, Zenon DEF Answer, Busy, Find, Key, Op, Elapsed
    <2>4. Noticed' /\ Observed'
      BY <1>2, <2>1, <2>3, Zenon DEF HIInv, Noticed, Observed, Disturbance, Removing
    <2>5. \A w \in Workers : OpOf(w)'
      BY <1>2, <2>1, Zenon DEF HIInv, OpOf, Op
    <2>6. \A w \in Workers : Safe(w)' = Safe(w)
      <3>1. \A w \in Workers : Collected(w)' = Collected(w) /\ Packed(w)' = Packed(w)
        BY <2>1, Zenon DEF Collected, Packed
      <3>2. QED
        BY <2>1, <2>3, <3>1, ZenonT(60) DEF Safe, Live, Key, Op, DeltaExpired
    <2>7. QED
      BY <1>2, <2>1, <2>2, <2>4, <2>5, <2>6, Zenon DEF HIInv
  <1>3. QED
    BY <1>1, <1>2, Zenon

\* The inductive invariant of the data commands with their history: that of
\* KeyspaceProofs, that every position belongs to the command received, that
\* the answers seen are those that were right at some instant of the call, and
\* that as long as nothing is disturbed what a worker holds between two locked
\* sections is still stored.
THEOREM HistoryInvariant == HSpec => []HIInv
  BY HInitHIInv, HNextHIInv, PTL DEF HSpec

\* ReleasedOnlyIfDisturbed: for any number of workers, as long as no removal and
\* no change in place overlaps another command, no handler follows a pointer to
\* a released item, although each uses its items after it has dropped the lock.
THEOREM UndisturbedReadsAreSafe == HSpec => []ReleasedOnlyIfDisturbed
  <1>1. HIInv => ReleasedOnlyIfDisturbed
    BY Zenon DEF HIInv, ReleasedOnlyIfDisturbed
  <1>2. QED
    BY <1>1, HistoryInvariant, PTL

\* PrefixGetSnapshot: an undisturbed prefix GET answers the keys below its prefix
\* as they were at one instant of the call, whatever is put meanwhile.
THEOREM PrefixGetsAreSnapshots == HSpec => []PrefixGetSnapshot
  <1>1. HIInv => PrefixGetSnapshot
    BY Zenon DEF HIInv, PrefixGetSnapshot, Safe
  <1>2. QED
    BY <1>1, HistoryInvariant, PTL

-----------------------------------------------------------------------------
(* The answers of a GET *)

\* The ttl of every request fits the short of an item.
ShortTtls == \A t \in Ttls : -32768 <= t /\ t <= 32767

GInv == HIInv /\ Stamped /\ \A w \in Workers : Fresh(w)

\* A ttl within the range of a short is stored as it is.
LEMMA ShortKept ==
  ASSUME NEW n \in Int, n >= -32768, n <= 32767
  PROVE  Short(n) = n
  <1>1. n + 32768 \in Nat /\ n + 32768 < 65536
    OBVIOUS
  <1>2. \A m \in Nat : m < 65536 => m % 65536 = m
    OBVIOUS
  <1>3. QED
    BY DEF Short

\* A ttl that fits the short is kept as it was asked for, so the tests of
\* database_search and get_handler are about the time that was asked for.
LEMMA TtlKept ==
  ASSUME ShortTtls, NEW it \in Item, it.asked \in Ttls,
         it.ttl = Short(it.asked), NEW now \in Nat
  PROVE  /\ it.ttl = it.asked
         /\ it.asked > -1 /\ it.ctime + it.asked <= now <=> it.ttl > -1 /\ it.ttl <= now - it.ctime
         /\ it.asked > -1 /\ it.ctime + it.asked <= now => DeltaExpired(it, now)
         /\ DeltaExpired(it, now) /\ it.asked >= -1 => it.asked > -1 /\ it.ctime + it.asked <= now
  <1>1. it.ctime \in Nat
    BY Zenon DEF Item
  <1>2. it.asked \in Int /\ it.asked >= -32768 /\ it.asked <= 32767
    <2>1. \A t \in Ttls : t \in Int /\ t >= -32768 /\ t <= 32767
      BY TtlsAssumption DEF ShortTtls
    <2>2. QED
      BY <2>1
  <1>3. it.ttl = it.asked
    BY <1>2, ShortKept
  <1>4. it.asked > -1 /\ it.ctime + it.asked <= now => DeltaExpired(it, now)
    BY <1>1, <1>2, <1>3 DEF DeltaExpired
  <1>5. DeltaExpired(it, now) /\ it.asked >= -1 => it.asked > -1 /\ it.ctime + it.asked <= now
    BY <1>1, <1>2, <1>3 DEF DeltaExpired
  <1>6. QED
    BY <1>1, <1>2, <1>3, <1>4, <1>5, SMTT(30)

\* What a step can do to an item that is allocated: nothing, release it, or
\* give it another value while it is stored; and no key comes to share it.
LEMMA ItemsStep ==
  ASSUME IInv, [Next]_vars
  PROVE  /\ \A i \in DOMAIN items :
              \/ items'[i] = items[i]
              \/ items'[i].st = "freed" /\ items'[i].asked = items[i].asked
                                        /\ items'[i].ttl = items[i].ttl
              \/ /\ trie' = trie /\ \E q \in Full(trie) : trie.data[q] = i
                 /\ \E w \in Workers : /\ th[w].pc # "idle"
                                       /\ items'[i].asked = th[w].req.ttl
                                       /\ items'[i].ttl = Short(th[w].req.ttl)
         /\ \A q \in Full(trie)' : trie'.data[q] \in DOMAIN items =>
              q \in Full(trie) /\ trie'.data[q] = trie.data[q]
  <1> DEFINE Kept(i) ==
        \/ items'[i] = items[i]
        \/ items'[i].st = "freed" /\ items'[i].asked = items[i].asked
                                  /\ items'[i].ttl = items[i].ttl
        \/ /\ trie' = trie /\ \E q \in Full(trie) : trie.data[q] = i
           /\ \E w \in Workers : /\ th[w].pc # "idle"
                                 /\ items'[i].asked = th[w].req.ttl
                                 /\ items'[i].ttl = Short(th[w].req.ttl)
      Shared == \A q \in Full(trie)' : trie'.data[q] \in DOMAIN items =>
                  q \in Full(trie) /\ trie'.data[q] = trie.data[q]
  <1>1. items \in Seq(Item) /\ DOMAIN items = 1..Len(items) /\ Len(items) \in Nat
    BY DEF IInv, TypeOK
  <1>2. ASSUME NEW w \in Workers, get_expired(w) \/ getp_expired(w) \/ del_remove(w)
        PROVE  (\A i \in DOMAIN items : Kept(i)) /\ Shared
    <2>1. items' = Release({Find(Key(w))})
      BY <1>2, RemovingSteps, Zenon
    <2>2. \A i \in DOMAIN items : Kept(i)
      BY <1>1, <2>1, Released
    <2>3. Shared
      BY <1>2, RemovingSteps, RemoveStored, Zenon
    <2>4. QED
      BY <2>2, <2>3, Zenon
  <1>3. ASSUME NEW w \in Workers, delp_remove(w)
        PROVE  (\A i \in DOMAIN items : Kept(i)) /\ Shared
    <2>1. \A i \in DOMAIN items : Kept(i)
      BY <1>1, <1>3, Released, Zenon DEF delp_remove
    <2>2. Shared
      BY <1>3, PrefixRemoveStored, Zenon
    <2>3. QED
      BY <2>1, <2>2, Zenon
  <1>4. ASSUME NEW w \in Workers, put_insert(w)
        PROVE  (\A i \in DOMAIN items : Kept(i)) /\ Shared
    <2>1. /\ \A i \in DOMAIN items : items'[i] = items[i]
          /\ Full(trie)' = Full(trie) \cup {Key(w)}
          /\ \A q \in Full(trie) \ {Key(w)} : trie'.data[q] = trie.data[q]
          /\ trie'.data[Key(w)] = Len(items) + 1
      BY <1>4, InsertStored, Zenon
    <2>2. Shared
      BY <1>1, <2>1
    <2>3. QED
      BY <2>1, <2>2, Zenon
  <1>5. ASSUME NEW w \in Workers, put_prefix(w)
        PROVE  (\A i \in DOMAIN items : Kept(i)) /\ Shared
    <2>1. th[w].pc # "idle"
      BY <1>5, Zenon DEF put_prefix, At
    <2>2. QED
      BY <1>5, <2>1, RewriteStored, Zenon
  <1>6. ASSUME UNCHANGED <<trie, items>>
        PROVE  (\A i \in DOMAIN items : Kept(i)) /\ Shared
    BY <1>6, Zenon
  <1>7. (\A i \in DOMAIN items : Kept(i)) /\ Shared
    <2> HIDE DEF Kept, Shared
    <2>1. QED
      BY <1>2, <1>3, <1>4, <1>5, <1>6, ChangingSteps, Zenon DEF Next, Tick, vars, Changing
  <1>8. QED
    BY <1>7, Zenon

\* An item keeps the ttl of the put that stored it.
LEMMA StampedStep ==
  ASSUME IInv, IInv', Stamped, \A v \in Workers : OpOf(v), [Next]_vars
  PROVE  Stamped'
  <1>1. \A i \in DOMAIN items : items'[i].asked \in Ttls /\ items'[i].ttl = Short(items'[i].asked)
    BY ItemsStep DEF Stamped, OpOf
  <1>2. ASSUME NEW i \in DOMAIN items', i \notin DOMAIN items
        PROVE  items'[i].asked \in Ttls /\ items'[i].ttl = Short(items'[i].asked)
    <2>1. PICK w \in Workers : put_insert(w)
      <3>1. items' # items
        BY <1>2, Zenon
      <3>2. PICK w \in Workers : Changing(w)
        BY <3>1, ChangingSteps, Zenon DEF Next, Tick, vars
      <3>3. CASE get_expired(w) \/ getp_expired(w) \/ del_remove(w)
        BY <1>2, <3>3, RemovingSteps, RemoveStored, Zenon
      <3>4. CASE delp_remove(w)
        BY <1>2, <3>4, PrefixRemoveStored, Zenon
      <3>5. CASE put_prefix(w)
        BY <1>2, <3>5, RewriteStored, Zenon
      <3>6. QED
        BY <3>2, <3>3, <3>4, <3>5, Zenon DEF Changing
    <2>2. /\ DOMAIN items' = 1..Len(items) + 1 /\ DOMAIN items = 1..Len(items)
          /\ items'[Len(items) + 1] = [st |-> "live", val |-> th[w].req.val,
                                       asked |-> th[w].req.ttl,
                                       ttl |-> Short(th[w].req.ttl), ctime |-> clock]
      BY <2>1, InsertStored, Zenon
    <2>3. Len(items) \in Nat
      OBVIOUS
    <2>4. i = Len(items) + 1
      BY <1>2, <2>2
    <2>5. th[w].req.ttl \in Ttls
      BY <2>1, Zenon DEF put_insert, At, OpOf
    <2>6. QED
      BY <2>2, <2>4, <2>5, SMTT(30)
  <1>3. QED
    BY <1>1, <1>2, Zenon DEF Stamped

\* The answer of an instant, in terms of the tests that the handler makes.
RightAnswers ==
  \A w \in Workers :
    Op(w, "get") /\ Key(w) \in Keys =>
      /\ Key(w) \notin Full(trie) => Answer(w) = <<"nok">>
      /\ Key(w) \in Full(trie) =>
           LET i == trie.data[Key(w)] IN
           /\ SearchExpired(items[i]) => Answer(w) = <<"nok">>
           /\ ~DeltaExpired(items[i], clock) => Answer(w) = <<"val", items[i].val>>

\* The answer a GET is about to give was right when it searched.
LEMMA GetAnswers == ShortTtls /\ IInv /\ Stamped => RightAnswers
  <1> SUFFICES ASSUME ShortTtls, IInv, Stamped,
                      NEW w \in Workers, Op(w, "get"), Key(w) \in Keys
               PROVE  /\ Key(w) \notin Full(trie) => Answer(w) = <<"nok">>
                      /\ Key(w) \in Full(trie) =>
                           LET i == trie.data[Key(w)] IN
                           /\ SearchExpired(items[i]) => Answer(w) = <<"nok">>
                           /\ ~DeltaExpired(items[i], clock) =>
                                Answer(w) = <<"val", items[i].val>>
    BY Zenon DEF RightAnswers
  <1> DEFINE i == trie.data[Key(w)]
  <1>1. ~Op(w, "getp")
    BY Zenon DEF Op
  <1>2. Key(w) \notin Full(trie) => Answer(w) = <<"nok">>
    BY <1>1, FindItem, Zenon DEF Answer
  <1>3. ASSUME Key(w) \in Full(trie)
        PROVE  /\ SearchExpired(items[i]) => Answer(w) = <<"nok">>
               /\ ~DeltaExpired(items[i], clock) => Answer(w) = <<"val", items[i].val>>
    <2>1. i \in DOMAIN items /\ Find(Key(w)) = i /\ Find(Key(w)) # NULL
      BY <1>3, FindItem, Zenon
    <2>2. items[i] \in Item /\ clock \in Nat /\ items[i].asked \in Ttls
          /\ items[i].ttl = Short(items[i].asked)
      BY <2>1, AllocatedItem, Zenon DEF IInv, TypeOK, Stamped
    <2> HIDE DEF i
    <2>3. /\ SearchExpired(items[i]) => Elapsed(items[i])
          /\ ~DeltaExpired(items[i], clock) => ~Elapsed(items[i])
      BY <2>2, TtlKept, Zenon DEF SearchExpired, Elapsed
    <2>4. QED
      BY <1>1, <2>1, <2>3, Zenon DEF Answer
  <1>4. QED
    BY <1>2, <1>3, Zenon

\* The same after a step.
LEMMA GetAnswersNext == (ShortTtls /\ IInv /\ Stamped => RightAnswers)'
  BY GetAnswers, PTL

\* A worker that does not move stays fresh, whatever the step does to its item.
LEMMA FreshFrame ==
  ASSUME ShortTtls, GInv, [HNext]_hvars, IInv', Stamped', NEW v \in Workers, th'[v] = th[v],
         Busy(v) => seen[v] \subseteq seen'[v] /\ Answer(v)' \in seen'[v],
         ~Busy(v) => seen'[v] = seen[v]
  PROVE  Fresh(v)'
  <1>1. IInv /\ [Next]_vars /\ Fresh(v) /\ OpOf(v) /\ Points(v)
    BY Zenon DEF GInv, HIInv, HNext, hvars, IInv, Pointers
  <1>2. ASSUME th[v].pc = "get_item"
        PROVE  /\ \A q \in Full(trie)' : trie'.data[q] = th[v].item => q = Key(v)
               /\ Live(th[v].item)' /\ ~DeltaExpired(items'[th[v].item], clock')
                    => <<"val", items'[th[v].item].val>> \in seen'[v]
    <2> DEFINE i == th[v].item
    <2>1. i \in DOMAIN items /\ Op(v, "get") /\ Busy(v) /\ Key(v) \in Keys
      BY <1>1, <1>2, Zenon DEF Points, OpOf, Busy, IInv, Named
    <2>2. \A q \in Full(trie)' : trie'.data[q] = i =>
            q \in Full(trie) /\ trie.data[q] = i
      BY <1>1, <2>1, ItemsStep, Zenon
    <2>3. \A q \in Full(trie) : trie.data[q] = i => q = Key(v)
      BY <1>1, <1>2 DEF Fresh
    <2>4. ASSUME Live(i)', ~DeltaExpired(items'[i], clock')
          PROVE  <<"val", items'[i].val>> \in seen'[v]
      <3>1. CASE items'[i] = items[i]
        <4>1. clock \in Nat /\ clock' \in Nat /\ clock <= clock' /\ items[i] \in Item
          <5>1. clock \in Nat /\ clock' \in Nat /\ items[i] \in Item
            BY <1>1, <2>1 DEF IInv, TypeOK
          <5>2. clock' = clock \/ clock' = clock + 1
            BY <1>1, ChangingSteps, Zenon DEF Next, Tick, vars
          <5>3. QED
            BY <5>1, <5>2
        <4>2. ~DeltaExpired(items[i], clock)
          BY <2>4, <3>1, <4>1, ExpiredStays, Zenon
        <4>3. <<"val", items[i].val>> \in seen[v]
          BY <1>1, <1>2, <2>4, <3>1, <4>2, Zenon DEF Fresh, Live
        <4>4. QED
          BY <2>1, <3>1, <4>3, Zenon
      <3>2. CASE trie' = trie /\ \E q \in Full(trie) : trie.data[q] = i
        <4>1. Key(v) \in Full(trie) /\ trie.data[Key(v)] = i
          BY <2>3, <3>2, Zenon
        <4>2. Answer(v)' = <<"val", items'[i].val>>
          <5>1. Key(v)' = Key(v) /\ Op(v, "get")' /\ trie'.data[Key(v)] = i
                /\ Key(v) \in Full(trie)'
            BY <2>1, <3>2, <4>1, Zenon DEF Key, Op
          <5>2. QED
            BY <2>1, <2>4, <5>1, GetAnswersNext, Zenon DEF RightAnswers
        <4>3. QED
          BY <2>1, <4>2, Zenon
      <3>3. CASE items'[i].st = "freed"
        BY <2>4, <3>3, Zenon DEF Live
      <3>4. QED
        BY <1>1, <2>1, <3>1, <3>2, <3>3, ItemsStep, Zenon
    <2>5. QED
      BY <2>2, <2>3, <2>4, Zenon
  <1>3. QED
    BY <1>1, <1>2, Zenon DEF Fresh, Busy, Op, Key

\* The worker that takes the step.
LEMMA FreshOwn ==
  ASSUME ShortTtls, GInv, HNext, IInv', Stamped', NEW w \in Workers, Worker(w), th' # th
  PROVE  Fresh(w)'
  <1>1. IInv /\ TypeOK /\ Fresh(w) /\ OpOf(w) /\ Points(w) /\ RightAnswers
    BY GetAnswers, Zenon DEF GInv, HIInv, IInv, Pointers
  <1>2. Moved(w) /\ Flow(th[w].pc, th'[w].pc)
    BY <1>1, WorkerFlow, Zenon
  <1>3. Busy(w) /\ seen[w] \subseteq seen'[w] /\ Answer(w)' \in seen'[w] /\ Key(w) \in Keys
    BY <1>1, <1>2, SeenStep, ZenonT(30) DEF HNext, Flow, Busy, IInv, Named
  <1>4. CASE th'[w].pc \notin {"get_item", "get_pack", "get_count", "idle"}
    BY <1>4, Zenon DEF Fresh, Busy
  <1>5. CASE th'[w].pc = "get_item"
    <2>1. th[w].pc = "get" /\ Op(w, "get")
      BY <1>1, <1>2, <1>5, Zenon DEF Flow, OpOf
    <2>2. get_search(w)
      BY <2>1, Zenon DEF Worker, put_insert, put_count, put_prefix, get_item, get_expired, get_count,
         get_pack, getp_search, getp_loop, getp_expired, getp_count, getp_tuples, getp_pack, del_remove,
         del_read, delp_size, delp_remove, delp_read, del_write, At
    <2>3. /\ Find(Key(w)) # NULL /\ th'[w].item = Find(Key(w))
          /\ UNCHANGED <<trie, items, clock>>
      BY <1>1, <1>5, <2>2, GetSteps, Zenon DEF GetSearched, Answers, Went, get_search
    <2>4. /\ Key(w) \in Full(trie) /\ th'[w].item = trie.data[Key(w)]
          /\ Answer(w) \in seen[w]
      BY <1>1, <1>3, <2>3, FindItem, Zenon DEF GInv, HIInv, Observed
    <2>5. \A q \in Full(trie) : trie.data[q] = th'[w].item => q = Key(w)
      BY <1>1, <2>4, Zenon DEF IInv, Owned
    <2>6. ~DeltaExpired(items[th'[w].item], clock) =>
            <<"val", items[th'[w].item].val>> \in seen'[w]
      BY <1>1, <1>3, <2>1, <2>4, Zenon DEF RightAnswers
    <2>7. Key(w)' = Key(w)
      BY <1>2, Zenon DEF Moved, Key
    <2>8. QED
      BY <1>5, <2>3, <2>5, <2>6, <2>7, Zenon DEF Fresh, Busy
  <1>6. CASE th'[w].pc = "get_pack"
    <2>1. th[w].pc = "get_item"
      BY <1>2, <1>6, Zenon DEF Flow
    <2>2. get_item(w)
      BY <2>1, Zenon DEF Worker, put_insert, put_count, put_prefix, get_search, get_expired, get_count,
         get_pack, getp_search, getp_loop, getp_expired, getp_count, getp_tuples, getp_pack, del_remove,
         del_read, delp_size, delp_remove, delp_read, del_write, At
    <2>3. /\ Live(th[w].item) /\ ~DeltaExpired(items[th[w].item], clock)
          /\ th'[w].val = items[th[w].item].val
      BY <1>1, <1>6, <2>1, <2>2, GetSteps, Zenon DEF GetTested, Went, Crash
    <2>4. <<"val", th'[w].val>> \in seen[w]
      BY <1>1, <2>1, <2>3, Zenon DEF Fresh
    <2>5. QED
      BY <1>3, <1>6, <2>4, Zenon DEF Fresh, Busy
  <1>7. CASE th'[w].pc = "get_count"
    <2>1. th[w].pc = "get_expired" /\ Op(w, "get")
      BY <1>1, <1>2, <1>7, Zenon DEF Flow, OpOf
    <2>2. get_expired(w)
      BY <2>1, Zenon DEF Worker, put_insert, put_count, put_prefix, get_search, get_item, get_count,
         get_pack, getp_search, getp_loop, getp_expired, getp_count, getp_tuples, getp_pack, del_remove,
         del_read, delp_size, delp_remove, delp_read, del_write, At
    <2>3. Key(w) \notin Full(trie)'
      BY <1>1, <2>2, RemovingSteps, RemoveStored, Zenon
    <2>4. Key(w)' = Key(w) /\ Op(w, "get")'
      BY <1>2, <2>1, Zenon DEF Moved, Key, Op
    <2>5. Answer(w)' = <<"nok">>
      BY <1>3, <2>3, <2>4, GetAnswersNext, Zenon DEF RightAnswers
    <2>6. QED
      BY <1>3, <1>7, <2>5, Zenon DEF Fresh, Busy
  <1>8. CASE th'[w].pc = "idle"
    <2>1. CASE ~Op(w, "get")
      BY <1>2, <1>8, <2>1, Zenon DEF Fresh, Busy, Op, Moved
    <2>2. CASE Op(w, "get")
      <3>1. th[w].pc \in {"get", "get_count", "get_pack"}
        BY <1>1, <1>2, <1>8, <2>2, ZenonT(60) DEF Flow, OpOf, Op
      <3>2. get_search(w) \/ get_count(w) \/ get_pack(w)
        BY <3>1, Zenon DEF Worker, put_insert, put_count, put_prefix, get_item,
         get_expired, getp_search, getp_loop, getp_expired, getp_count,
         getp_tuples, getp_pack, del_remove, del_read, delp_size, delp_remove, delp_read,
         del_write, At
      <3>3. CASE get_search(w)
        <4>1. /\ th'[w].reply = <<"nok">> /\ th[w].pc = "get"
              /\ \/ Find(Key(w)) = NULL
                 \/ Find(Key(w)) # NULL /\ SearchExpired(items[Find(Key(w))])
          BY <1>1, <1>8, <3>3, GetSteps, Zenon DEF GetSearched, Answers, Went, get_search, At
        <4>2. Answer(w) \in seen[w]
          BY <1>3, Zenon DEF GInv, HIInv, Observed
        <4>3. Answer(w) = <<"nok">>
          BY <1>1, <1>3, <2>2, <4>1, FindItem, Zenon DEF RightAnswers
        <4>4. QED
          BY <1>3, <1>8, <4>1, <4>2, <4>3, Zenon DEF Fresh, Busy
      <3>4. CASE get_count(w)
        <4>1. th'[w].reply = <<"nok">> /\ <<"nok">> \in seen[w]
          BY <1>1, <3>4, GetSteps, Zenon DEF Answers, get_count, At, Fresh
        <4>2. QED
          BY <1>3, <1>8, <4>1, Zenon DEF Fresh, Busy
      <3>5. CASE get_pack(w)
        <4>1. th'[w].reply = <<"val", th[w].val>> /\ <<"val", th[w].val>> \in seen[w]
          BY <1>1, <3>5, GetSteps, Zenon DEF GetPacked, Answers, get_pack, At, Fresh, Crash
        <4>2. QED
          BY <1>3, <1>8, <4>1, Zenon DEF Fresh, Busy
      <3>6. QED
        BY <3>2, <3>3, <3>4, <3>5, Zenon
    <2>3. QED
      BY <2>1, <2>2, Zenon
  <1>9. QED
    BY <1>4, <1>5, <1>6, <1>7, <1>8, Zenon

\* The invariant for GET holds at the start.
LEMMA HInitGInv == HInit => GInv
  <1> SUFFICES ASSUME HInit PROVE GInv
    OBVIOUS
  <1>1. HIInv /\ items = <<>> /\ \A w \in Workers : th[w] = Idle
    BY HInitHIInv, Zenon DEF HInit, Init
  <1>2. Idle.pc = "idle" /\ Idle.req.op = "none"
    BY Zenon DEF Idle
  <1>3. \A w \in Workers : Fresh(w)
    BY <1>1, <1>2, Zenon DEF Fresh, Op, Busy
  <1>4. QED
    BY <1>1, <1>3 DEF GInv, Stamped

\* Every step preserves the invariant for GET.
LEMMA HNextGInv == ShortTtls /\ GInv /\ [HNext]_hvars => GInv'
  <1> SUFFICES ASSUME ShortTtls, GInv, [HNext]_hvars PROVE GInv'
    OBVIOUS
  <1>1. HIInv /\ HIInv' /\ IInv /\ IInv' /\ [Next]_vars
    BY HNextHIInv, Zenon DEF GInv, HIInv, HNext, hvars
  <1>2. Stamped'
    BY <1>1, StampedStep, Zenon DEF GInv, HIInv
  <1>3. ASSUME NEW v \in Workers, th'[v] = th[v] PROVE Fresh(v)'
    <2>1. CASE HNext
      <3>1. Busy(v)' = Busy(v)
        BY <1>3, Zenon DEF Busy
      <3>2. /\ Busy(v) => seen[v] \subseteq seen'[v] /\ Answer(v)' \in seen'[v]
            /\ ~Busy(v) => seen'[v] = seen[v]
        BY <2>1, <3>1, SeenStep, Zenon DEF HNext
      <3>3. QED
        BY <1>1, <1>2, <1>3, <3>2, FreshFrame, Zenon
    <2>2. CASE UNCHANGED hvars
      <3>1. UNCHANGED <<trie, items, th, seen, clock>>
        BY <2>2, Zenon DEF hvars, vars
      <3>2. Fresh(v)' = Fresh(v)
        BY <3>1, Zenon DEF Fresh, Live, DeltaExpired, Key, Op, Busy
      <3>3. QED
        BY <3>2, Zenon DEF GInv
    <2>3. QED
      BY <2>1, <2>2, Zenon
  <1>4. ASSUME NEW w \in Workers, Receive(w), HNext PROVE \A v \in Workers : Fresh(v)'
    <2>1. OnlyThread(w) /\ th'[w].pc \in Ops
      BY <1>1, <1>4, ReceiveTypes, Zenon
    <2>2. Fresh(w)'
      BY <2>1, OpsAssumption, Zenon DEF Fresh, Busy
    <2>3. QED
      BY <1>3, <2>1, <2>2, Zenon DEF OnlyThread
  <1>5. ASSUME NEW w \in Workers, Worker(w), HNext, th' # th
        PROVE  \A v \in Workers : Fresh(v)'
    <2>1. OnlyThread(w)
      BY <1>1, <1>5, WorkerFlow, Zenon DEF Moved
    <2>2. Fresh(w)'
      BY <1>1, <1>2, <1>5, FreshOwn, Zenon
    <2>3. QED
      BY <1>3, <2>1, <2>2, Zenon DEF OnlyThread
  <1>6. CASE th' = th
    BY <1>1, <1>2, <1>3, <1>6, Zenon DEF GInv
  <1>7. CASE th' # th
    BY <1>1, <1>2, <1>4, <1>5, <1>7, Zenon DEF GInv, HNext, Next, Tick, hvars, vars
  <1>8. QED
    BY <1>6, <1>7, Zenon

\* The invariant for GET, where ttls fit a short.
LEMMA GetInvariant ==
  ASSUME ShortTtls
  PROVE  HSpec => []GInv
  BY HInitGInv, HNextGInv, PTL DEF HSpec

\* GetFresh: as long as the ttls fit the short of an item, a GET of one key is
\* linearizable, whatever the other workers put, rewrite and remove meanwhile.
THEOREM GetsAreFresh ==
  ASSUME ShortTtls
  PROVE  HSpec => []GetFresh
  <1>1. GInv => GetFresh
    BY Zenon DEF GInv, GetFresh, Fresh
  <1>2. QED
    BY <1>1, GetInvariant, PTL

\* EvictOnlyExpired: when besides no ttl is below -1, an undisturbed GET that
\* removes the item it found removes one whose time has passed.  (get_handler
\* takes a ttl below -1 for an expired one, database_search for none.)
THEOREM EvictionsAreExpired ==
  ASSUME ShortTtls, \A t \in Ttls : t >= -1
  PROVE  HSpec => EvictOnlyExpired
  <1>1. ASSUME GInv, NEW w \in Workers, th[w].pc = "get_expired", ~disturbed
        PROVE  Elapsed(items[th[w].item])
    <2> DEFINE it == items[th[w].item]
    <2>1. th[w].item \in DOMAIN items /\ clock \in Nat /\ items \in Seq(Item)
      BY <1>1, Zenon DEF GInv, HIInv, IInv, Pointers, Points, TypeOK
    <2>2. it \in Item /\ it.asked \in Ttls /\ it.ttl = Short(it.asked)
      BY <1>1, <2>1, AllocatedItem, Zenon DEF GInv, Stamped
    <2>3. DeltaExpired(it, clock)
      BY <1>1, ZenonT(30) DEF GInv, HIInv, Safe
    <2> HIDE DEF it
    <2>4. Elapsed(it)
      BY <2>1, <2>2, <2>3, TtlKept, Zenon DEF Elapsed
    <2>5. QED
      BY <2>4, Zenon DEF it
  <1>2. GInv /\ [HNext]_hvars =>
          [\A w \in Workers :
             /\ th[w].pc = "get_expired" /\ th'[w].pc # th[w].pc /\ Find(Key(w)) = th[w].item
             => disturbed \/ Elapsed(items[th[w].item])]_hvars
    BY <1>1, Zenon
  <1>3. QED
    BY <1>2, GetInvariant, PTL DEF HSpec, EvictOnlyExpired

-----------------------------------------------------------------------------
(* The counter of keys: its inductive invariant *)

Locked == \A w \in Workers : th[w].pc \in {"put_count", "get_count", "getp_count"} <=> lock = w

Puts == {w \in Workers : th[w].pc = "put"}
Counting == {w \in Workers : th[w].pc = "put_count"}

\* Every item was asked for.
Budget == Len(items) + Cardinality(Puts) <= sent /\ sent <= MaxRequests

\* The counter covers the keys and does not outgrow the items, and the count a
\* worker has read is still the one it must write back.
CountedAt(w) ==
  /\ th[w].pc \in {"put_count", "get_count"} => th[w].n = keyspace_size
  /\ th[w].pc \in {"get_count", "del_read"} => KeyCount + 1 <= keyspace_size
  /\ th[w].pc = "del_write" => KeyCount <= th[w].n /\ th[w].n <= Len(items)
  /\ th[w].pc = "delp_remove" => th[w].n = trie.size
  /\ th[w].pc = "delp_read" =>
       th[w].n - trie.size \in 0..1 /\ KeyCount + (th[w].n - trie.size) <= keyspace_size

Counted ==
  /\ KeyCount <= keyspace_size + Cardinality(Counting)
  /\ keyspace_size + Cardinality(Counting) <= Len(items)
  /\ \A w \in Workers : CountedAt(w)

CInv == Locked /\ Budget /\ (~disturbed => Counted)

-----------------------------------------------------------------------------
(* The counter of the keys *)

\* The lock is held by the worker, if any, that counts a put or an eviction:
\* those counts are inside the locked section.
LEMMA LockedStep ==
  ASSUME IInv, Locked, [Next]_vars
  PROVE  Locked'
  <1>1. CASE UNCHANGED <<th, lock>>
    BY <1>1, Zenon DEF Locked
  <1>2. ASSUME NEW w \in Workers, Receive(w) PROVE Locked'
    <2>1. OnlyThread(w) /\ th'[w].pc \in Ops /\ lock' = lock /\ th[w].pc = "idle"
      BY <1>2, ReceiveTypes, ZenonT(30) DEF Receive, At
    <2>2. QED
      BY <2>1, OpsAssumption, Zenon DEF Locked, OnlyThread
  <1>3. ASSUME NEW w \in Workers, Worker(w), ~UNCHANGED <<th, lock>> PROVE Locked'
    <2>1. Moved(w) /\ Flow(th[w].pc, th'[w].pc)
      BY <1>3, WorkerFlow, Zenon
    <2>2. \/ th[w].pc \in {"put", "get_expired", "getp_expired"} /\ lock = FREE /\ lock' = w
          \/ th[w].pc \in {"put_count", "get_count", "getp_count"} /\ lock' = FREE
          \/ /\ th[w].pc \notin {"put", "get_expired", "getp_expired",
                                 "put_count", "get_count", "getp_count"}
             /\ lock' = lock
      BY <1>3, Zenon DEF Worker, put_insert, put_count, put_prefix, get_search, get_item,
         get_expired, get_count, get_pack, getp_search, getp_loop, getp_expired, getp_count,
         getp_tuples, getp_pack, del_remove, del_read, delp_size, delp_remove, delp_read,
         del_write, At, Crash
    <2>3. QED
      BY <2>1, <2>2, WorkersAssumption, Zenon DEF Locked, Moved, OnlyThread, Flow
  <1>4. QED
    BY <1>1, <1>2, <1>3, Zenon DEF Next, Tick, vars

\* At most the holder of the lock is counting.
CountingSize ==
  /\ (\A w \in Workers : th[w].pc # "put_count") => Cardinality(Counting) = 0
  /\ (\E w \in Workers : th[w].pc = "put_count") => Cardinality(Counting) = 1

\* At most one worker is counting.
LEMMA CountingSizes == Locked => CountingSize
  <1>1. (\A w \in Workers : th[w].pc # "put_count") => Cardinality(Counting) = 0
    BY FS_EmptySet, Zenon DEF Counting
  <1>2. ASSUME Locked, NEW w \in Workers, th[w].pc = "put_count"
        PROVE  Cardinality(Counting) = 1
    <2>1. Counting = {w}
      BY <1>2, Zenon DEF Counting, Locked
    <2>2. QED
      BY <2>1, FS_Singleton, Zenon
  <1>3. QED
    BY <1>1, <1>2, Zenon DEF CountingSize

\* The same after a step.
LEMMA CountingSizesNext == (Locked => CountingSize)'
  BY CountingSizes, PTL

\* Sequences with the same indices have the same length.
LEMMA SameDomain ==
  ASSUME NEW S, NEW s \in Seq(S), NEW u \in Seq(S), DOMAIN s = DOMAIN u
  PROVE  Len(s) = Len(u)
  OBVIOUS

\* Only a PUT allocates.
LEMMA LengthStep ==
  ASSUME IInv, [Next]_vars
  PROVE  Len(items') = Len(items) \/ \E w \in Workers : put_insert(w)
  <1>1. items \in Seq(Item) /\ items' \in Seq(Item)
    BY StoredStep, Zenon DEF IInv, TypeOK, Stored
  <1>2. ASSUME NEW w \in Workers, Changing(w), ~put_insert(w)
        PROVE  DOMAIN items' = DOMAIN items
    <2>1. CASE get_expired(w) \/ getp_expired(w) \/ del_remove(w)
      BY <2>1, RemovingSteps, RemoveStored, Zenon
    <2>2. CASE delp_remove(w)
      BY <2>2, PrefixRemoveStored, Zenon
    <2>3. CASE put_prefix(w)
      BY <2>3, RewriteStored, Zenon
    <2>4. QED
      BY <1>2, <2>1, <2>2, <2>3, Zenon DEF Changing
  <1>3. (\E w \in Workers : put_insert(w)) \/ DOMAIN items' = DOMAIN items
    BY <1>2, ChangingSteps, Zenon DEF Next, Tick, vars
  <1>4. QED
    BY <1>1, <1>3, SameDomain, Zenon

\* The workers that are putting are finite in number.
LEMMA PutsFinite == IsFiniteSet(Puts) /\ Cardinality(Puts) \in Nat
  <1>1. Puts \subseteq Workers
    BY Zenon DEF Puts
  <1>2. QED
    BY <1>1, WorkersAssumption, FS_Subset, FS_CardinalityType, Zenon

\* The same after a step.
LEMMA PutsFiniteNext == (IsFiniteSet(Puts) /\ Cardinality(Puts) \in Nat)'
  BY PutsFinite, PTL

\* The requests received bound the items allocated and those being put.
LEMMA BudgetStep ==
  ASSUME IInv, Budget, [Next]_vars
  PROVE  Budget'
  <1>1. /\ Len(items) \in Nat /\ Len(items') \in Nat /\ sent \in Nat
        /\ MaxRequests \in Nat /\ Cardinality(Puts) \in Nat /\ Cardinality(Puts)' \in Nat
    <2>1. Len(items) \in Nat /\ Len(items') \in Nat /\ sent \in Nat
      BY DEF IInv, TypeOK
    <2>2. QED
      BY <2>1, BoundsAssumption, PutsFinite, PutsFiniteNext, Zenon
  <1>2. ASSUME Puts' \subseteq Puts PROVE Cardinality(Puts') <= Cardinality(Puts)
    BY <1>2, PutsFinite, FS_Subset, Zenon
  <1>3. CASE UNCHANGED <<th, items, sent>>
    BY <1>3, Zenon DEF Budget, Puts
  <1>4. ASSUME NEW w \in Workers, Receive(w) PROVE Budget'
    <2>1. /\ OnlyThread(w) /\ th[w].pc = "idle" /\ sent' = sent + 1 /\ sent < MaxRequests
          /\ items' = items
      BY <1>4, ReceiveTypes, Zenon DEF Receive, At
    <2>2. Puts' = Puts \/ (w \notin Puts /\ Puts' = Puts \cup {w})
      BY <2>1, Zenon DEF Puts, OnlyThread
    <2>3. Cardinality(Puts') <= Cardinality(Puts) + 1
      <3>1. CASE Puts' = Puts
        BY <1>1, <3>1
      <3>2. CASE w \notin Puts /\ Puts' = Puts \cup {w}
        <4>1. Cardinality(Puts \cup {w}) = Cardinality(Puts) + 1
          BY <3>2, PutsFinite, FS_AddElement, Zenon
        <4>2. QED
          BY <1>1, <3>2, <4>1, SMTT(30)
      <3>3. QED
        BY <2>2, <3>1, <3>2, Zenon
    <2>4. QED
      BY <1>1, <2>1, <2>3, SMTT(30) DEF Budget
  <1>5. ASSUME NEW w \in Workers, Worker(w), ~put_insert(w), Len(items') = Len(items)
        PROVE  Budget'
    <2>1. sent' = sent /\ (th' = th \/ (Moved(w) /\ Flow(th[w].pc, th'[w].pc)))
      BY <1>5, WorkerFlow, Zenon
    <2>2. Puts' \subseteq Puts
      BY <2>1, Zenon DEF Puts, Moved, OnlyThread, Flow
    <2>3. QED
      BY <1>1, <1>2, <1>5, <2>1, <2>2, SMTT(30) DEF Budget
  <1>6. ASSUME NEW w \in Workers, put_insert(w) PROVE Budget'
    <2>1. Len(items') = Len(items) + 1
      BY <1>6, InsertStored, Zenon
    <2>2. Moved(w) /\ th'[w].pc = "put_count" /\ th[w].pc = "put" /\ sent' = sent
      BY <1>6, PutSteps, Zenon DEF IInv, Went, put_insert, At
    <2>3. w \in Puts /\ Puts' = Puts \ {w}
      BY <2>2, Zenon DEF Puts, Moved, OnlyThread
    <2>4. Cardinality(Puts') = Cardinality(Puts) - 1
      BY <2>3, PutsFinite, FS_RemoveElement, Zenon
    <2>5. QED
      BY <1>1, <2>1, <2>2, <2>4, SMTT(30) DEF Budget
  <1>7. ASSUME NEW w \in Workers, Worker(w) PROVE Budget'
    <2>1. CASE put_insert(w)
      BY <1>6, <2>1, Zenon
    <2>2. CASE ~put_insert(w)
      <3>1. CASE Len(items') = Len(items)
        BY <1>5, <1>7, <2>2, <3>1, Zenon
      <3>2. CASE \E v \in Workers : put_insert(v)
        BY <1>6, <3>2, Zenon
      <3>3. QED
        BY <3>1, <3>2, LengthStep, Zenon
    <2>3. QED
      BY <2>1, <2>2, Zenon
  <1>8. QED
    BY <1>3, <1>4, <1>7, Zenon DEF Next, Tick, vars

\* How the number of keys follows the changes of the trie.
LEMMA KeyCountType == IInv => IsFiniteSet(Full(trie)) /\ KeyCount \in Nat /\ KeyCount = Cardinality(Full(trie))
  BY FullFinite, Zenon DEF IInv, TypeOK, WellFormed, KeyCount, Full

\* The number of keys after a step is a natural number.
LEMMA KeyCountTypeNext ==
  (IInv => IsFiniteSet(Full(trie)) /\ KeyCount \in Nat /\ KeyCount = Cardinality(Full(trie)))'
  BY KeyCountType, PTL

\* How the number of keys follows the set of keys.
LEMMA KeyCountStep ==
  ASSUME IInv, IInv'
  PROVE  /\ KeyCount \in Nat /\ KeyCount' \in Nat
         /\ trie' = trie => KeyCount' = KeyCount
         /\ \A k : Full(trie)' = Full(trie) \cup {k} => KeyCount' <= KeyCount + 1
         /\ \A k : Full(trie)' = Full(trie) \ {k} =>
              KeyCount' = IF k \in Full(trie) THEN KeyCount - 1 ELSE KeyCount
         /\ \A k : Full(trie)' \subseteq Full(trie) =>
              /\ KeyCount' <= KeyCount
              /\ k \in Full(trie) /\ k \notin Full(trie)' => KeyCount' <= KeyCount - 1
  <1> DEFINE S == Full(trie)
             U == Full(trie)'
  <1>1. /\ IsFiniteSet(S) /\ KeyCount \in Nat /\ KeyCount = Cardinality(S)
        /\ IsFiniteSet(U) /\ KeyCount' \in Nat /\ KeyCount' = Cardinality(U)
    BY KeyCountType, KeyCountTypeNext, Zenon
  <1>2. trie' = trie => KeyCount' = KeyCount
    BY Zenon DEF KeyCount
  <1> HIDE DEF S, U
  <1>3. ASSUME NEW k, U = S \cup {k} PROVE KeyCount' <= KeyCount + 1
    <2>1. CASE k \in S
      BY <1>1, <1>3, FS_AddElement, SMTT(30)
    <2>2. CASE k \notin S
      BY <1>1, <1>3, FS_AddElement, SMTT(30)
    <2>3. QED
      BY <2>1, <2>2, Zenon
  <1>4. ASSUME NEW k, U = S \ {k}
        PROVE  KeyCount' = IF k \in S THEN KeyCount - 1 ELSE KeyCount
    BY <1>1, <1>4, FS_RemoveElement, Zenon
  <1>5. ASSUME NEW k, U \subseteq S
        PROVE  /\ KeyCount' <= KeyCount
               /\ k \in S /\ k \notin U => KeyCount' <= KeyCount - 1
    <2>1. KeyCount' <= KeyCount
      BY <1>1, <1>5, FS_Subset, Zenon
    <2>2. ASSUME k \in S, k \notin U PROVE KeyCount' <= KeyCount - 1
      <3>1. Cardinality(S \ {k}) = KeyCount - 1 /\ IsFiniteSet(S \ {k})
        BY <1>1, <2>2, FS_RemoveElement, Zenon
      <3>2. U \subseteq S \ {k}
        BY <1>5, <2>2, Zenon
      <3>3. Cardinality(U) <= Cardinality(S \ {k})
        BY <3>1, <3>2, FS_Subset, Zenon
      <3>4. QED
        BY <1>1, <3>1, <3>3, Zenon
    <2>3. QED
      BY <2>1, <2>2, Zenon
  <1>6. QED
    BY <1>1, <1>2, <1>3, <1>4, <1>5, Zenon DEF S, U

\* Between its bounds the counter does not wrap.
LEMMA ModKeeps ==
  ASSUME NEW a \in Nat, a <= MaxRequests
  PROVE  a % SizeMod = a
  BY BoundsAssumption

Special == {"put_count", "get_count", "del_read", "del_write", "delp_remove", "delp_read"}

\* Undisturbed, a worker that counts, or changes what is counted, is the only one.
LEMMA CountsAlone ==
  ASSUME HIInv, Locked, ~disturbed, NEW w \in Workers, NEW v \in Workers \ {w},
         \/ th[w].pc \in Special \cup {"putp", "get_expired", "del", "delp"}
         \/ th[w].pc = "put" /\ lock = FREE
  PROVE  th[v].pc \notin Special
  <1>1. ~Disturbance /\ OpOf(w) /\ OpOf(v)
    BY Zenon DEF HIInv, Noticed
  <1>2. CASE th[w].pc \in {"put", "put_count"}
    <2>1. ~Removing(v)
      BY <1>1, <1>2, Zenon DEF Disturbance, Busy
    <2>2. th[v].pc \notin {"put_count", "get_count"}
      BY <1>2, WorkersAssumption, Zenon DEF Locked, Special
    <2>3. QED
      BY <1>1, <2>1, <2>2, Zenon DEF Removing, Busy, OpOf, Op, Special
  <1>3. CASE th[w].pc \notin {"put", "put_count"}
    <2>1. Removing(w)
      BY <1>1, <1>3, Zenon DEF Removing, Busy, OpOf, Op, Special
    <2>2. QED
      BY <1>1, <2>1, Zenon DEF Disturbance, Busy, Special
  <1>4. QED
    BY <1>2, <1>3, Zenon

\* The counts after a step of the only worker that counts.
LEMMA CountedAlone ==
  ASSUME NEW w \in Workers, OnlyThread(w), Locked', keyspace_size' \in Nat,
         \A v \in Workers \ {w} : th[v].pc \notin Special,
         CountedAt(w)',
         th'[w].pc = "put_count" =>
           KeyCount' <= keyspace_size' + 1 /\ keyspace_size' + 1 <= Len(items'),
         th'[w].pc # "put_count" => KeyCount' <= keyspace_size' /\ keyspace_size' <= Len(items')
  PROVE  Counted'
  <1>1. \A v \in Workers \ {w} : th'[v].pc \notin Special
    BY Zenon DEF OnlyThread
  <1>2. \A v \in Workers : CountedAt(v)'
    BY <1>1, Zenon DEF CountedAt, Special
  <1>3. CountingSize'
    BY CountingSizesNext, Zenon
  <1>4. CASE th'[w].pc = "put_count"
    <2>1. Cardinality(Counting)' = 1
      BY <1>3, <1>4, Zenon DEF CountingSize
    <2>2. QED
      BY <1>2, <1>4, <2>1, Zenon DEF Counted
  <1>5. CASE th'[w].pc # "put_count"
    <2>1. \A v \in Workers : th'[v].pc # "put_count"
      BY <1>1, <1>5, Zenon DEF Special
    <2>2. Cardinality(Counting)' = 0
      BY <1>3, <2>1, Zenon DEF CountingSize
    <2>3. QED
      BY <1>2, <1>5, <2>2, SMTT(30) DEF Counted
  <1>6. QED
    BY <1>4, <1>5, Zenon

\* A step that touches nothing that is counted.
LEMMA CountedQuiet ==
  ASSUME IInv, Counted, Counting' = Counting,
         UNCHANGED <<trie, keyspace_size>>, Len(items') = Len(items),
         \A v \in Workers : th'[v].pc \in Special => th'[v].pc = th[v].pc /\ th'[v].n = th[v].n
  PROVE  Counted'
  <1>1. KeyCount' = KeyCount
    BY Zenon DEF KeyCount
  <1>2. ASSUME NEW v \in Workers PROVE CountedAt(v)'
    <2>1. CASE th'[v].pc \in Special
      BY <1>1, <2>1, Zenon DEF Counted, CountedAt, Special
    <2>2. CASE th'[v].pc \notin Special
      BY <2>2, Zenon DEF CountedAt, Special
    <2>3. QED
      BY <2>1, <2>2, Zenon
  <1>3. QED
    BY <1>1, <1>2, Zenon DEF Counted

\* As long as nothing is disturbed every step keeps keyspace_size at or above
\* the number of keys, by what is between a removal and its count.
LEMMA CountedStep ==
  ASSUME HIInv, IInv', Next, ~disturbed, Locked, Locked', Budget, Counted
  PROVE  Counted'
  <1>1. /\ IInv /\ TypeOK /\ keyspace_size \in Nat /\ keyspace_size' \in Nat
        /\ Len(items) \in Nat /\ Len(items) <= MaxRequests /\ MaxRequests \in Nat
        /\ KeyCount \in Nat /\ KeyCount' \in Nat /\ trie.size \in Nat
    <2>1. IInv /\ TypeOK /\ Len(items) \in Nat /\ sent \in Nat /\ trie.size \in Nat
      BY DEF HIInv, IInv, TypeOK, WellFormed
    <2>2. keyspace_size \in Nat /\ keyspace_size' \in Nat
      BY DEF HIInv, IInv, TypeOK
    <2>3. Len(items) <= MaxRequests
      BY <2>1, PutsFinite, BoundsAssumption, SMTT(30) DEF Budget
    <2>4. QED
      BY <2>1, <2>2, <2>3, KeyCountStep, BoundsAssumption, Zenon
  <1>2. \/ Len(items') = Len(items)
        \/ \E w \in Workers : put_insert(w)
    BY <1>1, LengthStep, Zenon
  <1>3. CASE Tick
    BY <1>1, <1>3, CountedQuiet, Zenon DEF Tick, Counting
  <1>4. ASSUME NEW w \in Workers, Receive(w) PROVE Counted'
    <2>1. /\ OnlyThread(w) /\ th'[w].pc \in Ops /\ th[w].pc = "idle"
          /\ UNCHANGED <<trie, items, keyspace_size>>
      BY <1>1, <1>4, ReceiveTypes, Zenon DEF Receive, At
    <2>2. th'[w].pc \notin Special
      BY <2>1, OpsAssumption, Zenon DEF Special
    <2>3. Counting' = Counting
      BY <2>1, <2>2, Zenon DEF Counting, OnlyThread, Special
    <2>4. QED
      BY <1>1, <2>1, <2>2, <2>3, CountedQuiet, Zenon DEF OnlyThread
  <1>5. ASSUME NEW w \in Workers, Worker(w), UNCHANGED <<trie, keyspace_size>>,
               th[w].pc \in {"putp", "get", "get_item", "get_pack", "getp", "getp_loop", "getp_pack"}
        PROVE  Counted'
    <2>1. th' = th \/ (OnlyThread(w) /\ Flow(th[w].pc, th'[w].pc))
      BY <1>1, <1>5, WorkerFlow, Zenon DEF Moved
    <2>2. th' = th \/ (OnlyThread(w) /\ th'[w].pc \notin Special)
      BY <1>5, <2>1, Zenon DEF Flow, Special
    <2>3. Len(items') = Len(items)
      <3>1. ASSUME NEW v \in Workers, put_insert(v) PROVE FALSE
        <4>1. OnlyThread(v) /\ th[v].pc = "put" /\ th'[v].pc = "put_count"
          BY <1>1, <3>1, PutSteps, Zenon DEF Went, Moved, put_insert, At
        <4>2. QED
          BY <1>5, <2>2, <4>1, Zenon DEF OnlyThread, Special
      <3>2. QED
        BY <1>2, <3>1, Zenon
    <2>4. Counting' = Counting
      BY <1>5, <2>2, Zenon DEF Counting, OnlyThread, Special
    <2>5. QED
      BY <1>1, <1>5, <2>2, <2>3, <2>4, CountedQuiet, Zenon DEF OnlyThread
  <1>6. ASSUME \A v \in Workers : th[v].pc # "put_count"
        PROVE  KeyCount <= keyspace_size /\ keyspace_size <= Len(items)
    <2>1. Cardinality(Counting) = 0
      BY <1>6, CountingSizes, Zenon DEF CountingSize
    <2>2. QED
      BY <1>1, <2>1, SMTT(30) DEF Counted
  <1>7. ASSUME NEW w \in Workers,
               th[w].pc \in {"put", "get_expired", "get_count", "del", "del_read", "delp",
                             "delp_remove", "delp_read", "del_write"},
               \A v \in Workers \ {w} : th[v].pc \notin Special
        PROVE  KeyCount <= keyspace_size /\ keyspace_size <= Len(items)
    <2>1. \A v \in Workers : th[v].pc # "put_count"
      BY <1>7, Zenon DEF Special
    <2>2. QED
      BY <1>6, <2>1, Zenon
  <1>8. ASSUME NEW w \in Workers, put_insert(w) PROVE Counted'
    <2>1. /\ th[w].pc = "put" /\ lock = FREE /\ OnlyThread(w) /\ th'[w].pc = "put_count"
          /\ th'[w].n = keyspace_size /\ keyspace_size' = keyspace_size
      BY <1>1, <1>8, PutSteps, Zenon DEF Went, Moved, put_insert, At
    <2>2. \A v \in Workers \ {w} : th[v].pc \notin Special
      BY <2>1, CountsAlone, Zenon
    <2>3. KeyCount <= keyspace_size /\ keyspace_size <= Len(items)
      BY <1>7, <2>1, <2>2, Zenon
    <2>4. Len(items') = Len(items) + 1 /\ KeyCount' <= KeyCount + 1
      BY <1>1, <1>8, InsertStored, KeyCountStep, Zenon
    <2>5. CountedAt(w)'
      BY <2>1, Zenon DEF CountedAt
    <2>6. KeyCount' <= keyspace_size' + 1 /\ keyspace_size' + 1 <= Len(items')
      BY <1>1, <2>1, <2>3, <2>4, SMTT(30)
    <2>7. QED
      BY <1>1, <2>1, <2>2, <2>5, <2>6, CountedAlone, Zenon
  <1>9. ASSUME NEW w \in Workers, put_count(w) PROVE Counted'
    <2>1. /\ th[w].pc = "put_count" /\ OnlyThread(w) /\ th'[w].pc = "idle"
          /\ keyspace_size' = (th[w].n + 1) % SizeMod /\ UNCHANGED <<trie, items>>
      BY <1>1, <1>9, PutSteps, Zenon DEF Answers, Went, Moved, put_count, At
    <2>2. \A v \in Workers \ {w} : th[v].pc \notin Special
      BY <2>1, CountsAlone, Zenon DEF Special
    <2>3. Cardinality(Counting) = 1
      BY <2>1, CountingSizes, Zenon DEF CountingSize
    <2>4. /\ th[w].n = keyspace_size /\ KeyCount <= keyspace_size + 1
          /\ keyspace_size + 1 <= Len(items)
      BY <2>1, <2>3, Zenon DEF Counted, CountedAt
    <2>5. keyspace_size' = keyspace_size + 1
      BY <1>1, <2>1, <2>4, ModKeeps, SMTT(30)
    <2>6. KeyCount' = KeyCount
      BY <2>1, Zenon DEF KeyCount
    <2>7. CountedAt(w)'
      BY <2>1, Zenon DEF CountedAt
    <2>8. QED
      BY <1>1, <2>1, <2>2, <2>4, <2>5, <2>6, <2>7, CountedAlone, Zenon
  <1>10. ASSUME NEW w \in Workers, get_expired(w) \/ del_remove(w) PROVE Counted'
    <2>1. /\ th[w].pc \in {"get_expired", "del"} /\ OnlyThread(w)
          /\ keyspace_size' = keyspace_size /\ Key(w) \in Keys
          /\ Len(items') = Len(items) /\ Full(trie)' = Full(trie) \ {Key(w)}
          /\ \/ th[w].pc = "get_expired" /\ th'[w].pc = "get_count" /\ th'[w].n = keyspace_size
             \/ th'[w].pc = "del_read" /\ trie_delete_ret(trie, Key(w))
             \/ th'[w].pc = "idle"
      <3>1. /\ th[w].pc \in {"get_expired", "del"} /\ keyspace_size' = keyspace_size
            /\ get_expired(w) => th[w].pc = "get_expired"
        BY <1>10, Zenon DEF get_expired, del_remove, At
      <3>2. /\ OnlyThread(w)
            /\ \/ th[w].pc = "get_expired" /\ th'[w].pc = "get_count" /\ th'[w].n = keyspace_size
               \/ th'[w].pc = "del_read" /\ trie_delete_ret(trie, Key(w))
               \/ th'[w].pc = "idle"
        BY <1>1, <1>10, <3>1, GetSteps, DelSteps, Zenon DEF Went, Answers, Moved
      <3>3. /\ Key(w) \in Keys /\ DOMAIN items' = DOMAIN items
            /\ Full(trie)' = Full(trie) \ {Key(w)}
        BY <1>1, <1>10, RemovingSteps, RemoveStored, Zenon
      <3>4. items \in Seq(Item) /\ items' \in Seq(Item)
        BY <1>1, Zenon DEF IInv, TypeOK
      <3>5. QED
        BY <3>1, <3>2, <3>3, <3>4, SameDomain, Zenon
    <2>2. \A v \in Workers \ {w} : th[v].pc \notin Special
      BY <2>1, CountsAlone, Zenon
    <2>3. KeyCount <= keyspace_size /\ keyspace_size <= Len(items)
      BY <1>7, <2>1, <2>2, Zenon
    <2>4. KeyCount' = IF Key(w) \in Full(trie) THEN KeyCount - 1 ELSE KeyCount
      BY <1>1, <2>1, KeyCountStep, Zenon
    <2>5. th'[w].pc # "idle" => Key(w) \in Full(trie)
      <3>1. CASE th[w].pc = "get_expired"
        BY <3>1, Zenon DEF HIInv, Safe
      <3>2. CASE trie_delete_ret(trie, Key(w))
        <4>1. Find(Key(w)) # NULL
          BY <3>2, ServerTrie, Zenon DEF trie_delete_ret, Find
        <4>2. QED
          BY <1>1, <2>1, <4>1, FindItem, Zenon
      <3>3. QED
        BY <2>1, <3>1, <3>2, Zenon
    <2>6. KeyCount' <= keyspace_size' /\ (th'[w].pc # "idle" => KeyCount' + 1 <= keyspace_size')
      BY <1>1, <2>1, <2>3, <2>4, <2>5, SMTT(30)
    <2>7. CountedAt(w)'
      BY <2>1, <2>6, Zenon DEF CountedAt
    <2>8. QED
      BY <1>1, <2>1, <2>2, <2>3, <2>6, <2>7, CountedAlone, Zenon
  <1>11. ASSUME NEW w \in Workers, get_count(w) PROVE Counted'
    <2>1. /\ th[w].pc = "get_count" /\ OnlyThread(w) /\ th'[w].pc = "idle"
          /\ keyspace_size' = (th[w].n - 1) % SizeMod /\ UNCHANGED <<trie, items>>
      BY <1>1, <1>11, GetSteps, ZenonT(30) DEF Answers, Went, Moved, get_count, At
    <2>2. \A v \in Workers \ {w} : th[v].pc \notin Special
      BY <2>1, CountsAlone, Zenon DEF Special
    <2>3. keyspace_size <= Len(items)
      BY <1>7, <2>1, <2>2, Zenon
    <2>4. th[w].n = keyspace_size /\ KeyCount + 1 <= keyspace_size
      BY <2>1, Zenon DEF Counted, CountedAt
    <2>5. keyspace_size' = keyspace_size - 1
      BY <1>1, <2>1, <2>3, <2>4, ModKeeps, SMTT(30)
    <2>6. KeyCount' = KeyCount
      BY <2>1, Zenon DEF KeyCount
    <2>7. CountedAt(w)'
      BY <2>1, Zenon DEF CountedAt
    <2>8. QED
      BY <1>1, <2>1, <2>2, <2>3, <2>4, <2>5, <2>6, <2>7, CountedAlone, SMTT(30)
  <1>12. ASSUME NEW w \in Workers, del_read(w) \/ delp_read(w) \/ delp_size(w) PROVE Counted'
    <2>1. /\ th[w].pc \in {"del_read", "delp_read", "delp"} /\ OnlyThread(w)
          /\ UNCHANGED <<trie, items, keyspace_size>>
          /\ \/ /\ th[w].pc = "del_read" /\ th'[w].pc = "del_write"
                /\ th'[w].n = (keyspace_size - 1) % SizeMod
             \/ /\ th[w].pc = "delp_read" /\ th'[w].pc = "del_write"
                /\ th'[w].n = (keyspace_size - (th[w].n - trie.size)) % SizeMod
             \/ th[w].pc = "delp" /\ th'[w].pc = "delp_remove" /\ th'[w].n = trie.size
      BY <1>1, <1>12, DelSteps, ZenonT(30) DEF Went, Moved, del_read, delp_read, delp_size, At
    <2>2. \A v \in Workers \ {w} : th[v].pc \notin Special
      BY <2>1, CountsAlone, Zenon DEF Special
    <2>3. KeyCount <= keyspace_size /\ keyspace_size <= Len(items)
      BY <1>7, <2>1, <2>2, Zenon
    <2>4. KeyCount' = KeyCount /\ trie'.size = trie.size
      BY <2>1, Zenon DEF KeyCount
    <2>5. CASE th[w].pc = "delp"
      <3>1. CountedAt(w)'
        BY <2>1, <2>4, <2>5, Zenon DEF CountedAt
      <3>2. QED
        BY <1>1, <2>1, <2>2, <2>3, <2>4, <2>5, <3>1, CountedAlone, Zenon
    <2>6. CASE th[w].pc # "delp"
      <3> DEFINE d == IF th[w].pc = "del_read" THEN 1 ELSE th[w].n - trie.size
      <3>1. d \in 0..1 /\ KeyCount + d <= keyspace_size
        BY <2>1, <2>6 DEF Counted, CountedAt
      <3>2. th'[w].n = (keyspace_size - d) % SizeMod /\ th'[w].pc = "del_write"
        BY <2>1, <2>6, Zenon
      <3> HIDE DEF d
      <3>3. keyspace_size - d \in Nat /\ keyspace_size - d <= MaxRequests
        BY <1>1, <2>3, <3>1
      <3>4. th'[w].n = keyspace_size - d
        BY <3>2, <3>3, ModKeeps, Zenon
      <3>5. CountedAt(w)'
        <4>1. KeyCount <= th'[w].n /\ th'[w].n <= Len(items)
          BY <1>1, <2>3, <3>1, <3>4, SMTT(30)
        <4> QED BY <2>1, <2>4, <3>2, <4>1, Zenon DEF CountedAt
      <3>6. QED
        BY <1>1, <2>1, <2>2, <2>3, <2>4, <3>5, CountedAlone, Zenon
    <2>7. QED
      BY <2>5, <2>6, Zenon
  <1>13. ASSUME NEW w \in Workers, delp_remove(w) PROVE Counted'
    <2>1. /\ th[w].pc = "delp_remove" /\ OnlyThread(w) /\ th'[w].pc = "delp_read"
          /\ th'[w].n = th[w].n /\ keyspace_size' = keyspace_size
          /\ trie' = trie_prefix_delete(trie, Key(w)) /\ Key(w) \in Keys
      BY <1>1, <1>13, DelSteps, Zenon DEF Went, Moved, delp_remove, At, IInv, Named
    <2>2. \A v \in Workers \ {w} : th[v].pc \notin Special
      BY <2>1, CountsAlone, Zenon DEF Special
    <2>3. KeyCount <= keyspace_size /\ keyspace_size <= Len(items) /\ th[w].n = trie.size
      BY <1>7, <2>1, <2>2, Zenon DEF Counted, CountedAt
    <2>4. /\ Len(items') = Len(items)
          /\ Full(trie)' = {q \in Full(trie) : ~IsPrefix(Key(w), q)}
      <3>1. DOMAIN items' = DOMAIN items /\ items \in Seq(Item) /\ items' \in Seq(Item)
        BY <1>1, <1>13, PrefixRemoveStored, Zenon DEF IInv, TypeOK
      <3>2. QED
        BY <1>1, <1>13, <3>1, PrefixRemoveStored, SameDomain, Zenon
    <2>5. /\ trie'.size = IF Key(w) \in Full(trie) THEN trie.size - 1 ELSE trie.size
          /\ IsPrefix(Key(w), Key(w))
      <3>1. Key(w) \in Seq(Char) /\ Key(w) # <<>> /\ WellFormed(trie)
        BY <1>1, <2>1, KeysAssumption, Zenon DEF TypeOK
      <3>2. QED
        BY <2>1, <3>1, PrefixDeleteSize, PrefixOrder, ServerTrie, Zenon
    <2>6. /\ KeyCount' <= KeyCount
          /\ Key(w) \in Full(trie) => KeyCount' <= KeyCount - 1
      <3>1. /\ Full(trie)' \subseteq Full(trie) /\ Key(w) \notin Full(trie)'
        BY <2>4, <2>5, Zenon
      <3>2. QED
        BY <1>1, <3>1, KeyCountStep, Zenon
    <2>7. CountedAt(w)'
      BY <1>1, <2>1, <2>3, <2>5, <2>6, SMTT(30) DEF CountedAt
    <2>8. KeyCount' <= keyspace_size' /\ keyspace_size' <= Len(items')
      BY <1>1, <2>1, <2>3, <2>4, <2>6, SMTT(30)
    <2>9. QED
      BY <1>1, <2>1, <2>2, <2>7, <2>8, CountedAlone, Zenon
  <1>14. ASSUME NEW w \in Workers, del_write(w) PROVE Counted'
    <2>1. /\ th[w].pc = "del_write" /\ OnlyThread(w) /\ th'[w].pc = "idle"
          /\ keyspace_size' = th[w].n /\ UNCHANGED <<trie, items>>
      BY <1>1, <1>14, DelSteps, ZenonT(30) DEF Answers, Went, Moved, del_write, At
    <2>2. \A v \in Workers \ {w} : th[v].pc \notin Special
      BY <2>1, CountsAlone, Zenon DEF Special
    <2>3. KeyCount <= th[w].n /\ th[w].n <= Len(items)
      BY <2>1, Zenon DEF Counted, CountedAt
    <2>4. KeyCount' = KeyCount
      BY <2>1, Zenon DEF KeyCount
    <2>5. CountedAt(w)'
      BY <2>1, Zenon DEF CountedAt
    <2>6. QED
      BY <1>1, <2>1, <2>2, <2>3, <2>4, <2>5, CountedAlone, Zenon
  <1>15. ASSUME NEW w \in Workers, Worker(w) PROVE Counted'
    <2>1. ~getp_expired(w) /\ ~getp_count(w)
      BY Zenon DEF getp_expired, getp_count, At, HIInv, Noticed, Disturbance
    <2>2. ASSUME \/ put_prefix(w) \/ get_search(w) \/ get_item(w) \/ get_pack(w)
                 \/ getp_search(w) \/ getp_loop(w) \/ getp_tuples(w) \/ getp_pack(w)
          PROVE  Counted'
      <3>1. /\ UNCHANGED <<trie, keyspace_size>>
            /\ th[w].pc \in {"putp", "get", "get_item", "get_pack", "getp", "getp_loop",
                             "getp_pack"}
        BY <2>2, Zenon DEF put_prefix, get_search, get_item, get_pack, getp_search, getp_loop,
           getp_tuples, getp_pack, At, Crash
      <3>2. QED
        BY <1>5, <1>15, <3>1, Zenon
    <2>3. QED
      BY <1>8, <1>9, <1>10, <1>11, <1>12, <1>13, <1>14, <1>15, <2>1, <2>2, SMTT(30) DEF Worker
  <1>16. QED
    BY <1>3, <1>4, <1>15, Zenon DEF Next

\* The invariants of the counter are kept by every step.
LEMMA HNextCInv == HIInv /\ CInv /\ [HNext]_hvars => CInv'
  <1> SUFFICES ASSUME HIInv, CInv, [HNext]_hvars PROVE CInv'
    OBVIOUS
  <1>1. [Next]_vars /\ IInv
    BY Zenon DEF HNext, hvars, HIInv
  <1>2. Locked' /\ Budget'
    BY <1>1, LockedStep, BudgetStep, Zenon DEF CInv
  <1>3. ASSUME ~disturbed' PROVE Counted'
    <2>1. CASE UNCHANGED hvars
      BY <1>3, <2>1, Zenon DEF hvars, vars, CInv, Counted, CountedAt, Counting, KeyCount
    <2>2. CASE HNext
      <3>1. IInv'
        BY <1>1, NextIInv, Zenon
      <3>2. ~disturbed
        BY <1>3, <2>2, NoticedStep, Zenon
      <3>3. QED
        BY <1>2, <2>2, <3>1, <3>2, CountedStep, Zenon DEF CInv, HNext
    <2>3. QED
      BY <2>1, <2>2, Zenon
  <1>4. QED
    BY <1>2, <1>3, Zenon DEF CInv

\* The invariant for the counter holds at the start.
LEMMA HInitCInv == HInit => CInv
  <1> SUFFICES ASSUME HInit PROVE CInv
    OBVIOUS
  <1>1. IInv /\ \A w \in Workers : th[w].pc = "idle"
    BY InitIInv, Zenon DEF HInit, Init, Idle
  <1>2. Locked
    BY <1>1, WorkersAssumption, Zenon DEF HInit, Init, Locked
  <1>3. Puts = {} /\ Len(items) = 0 /\ sent = 0 /\ keyspace_size = 0
    BY <1>1, Zenon DEF HInit, Init, Puts
  <1>4. Budget
    BY <1>3, FS_EmptySet, BoundsAssumption, SMTT(30) DEF Budget
  <1>5. Cardinality(Counting) = 0
    BY <1>1, <1>2, CountingSizes, Zenon DEF CountingSize
  <1>6. KeyCount = 0
    BY NewWellFormed, FS_EmptySet, Zenon DEF HInit, Init, KeyCount, Full
  <1>7. \A w \in Workers : CountedAt(w)
    BY <1>1, Zenon DEF CountedAt
  <1>8. QED
    BY <1>2, <1>3, <1>4, <1>5, <1>6, <1>7, SMTT(30) DEF CInv, Counted

\* triedb.keyspace_size never falls below the number of keys in the trie, the
\* PUTs that are about to count theirs apart, as long as no removal overlaps
\* another command: a DEL reads, subtracts and writes back without the lock,
\* and a prefix DEL subtracts what trie->size lost, which is never more than
\* the keys that went.
THEOREM CounterCoversKeys == HSpec => []KeyspaceCovers
  <1>1. HIInv /\ CInv => KeyspaceCovers
    BY Zenon DEF CInv, Counted, Counting, KeyspaceCovers
  <1>2. QED
    BY <1>1, HInitCInv, HNextCInv, HistoryInvariant, PTL DEF HSpec
=============================================================================
