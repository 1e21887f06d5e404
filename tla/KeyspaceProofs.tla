--------------------------- MODULE KeyspaceProofs ---------------------------
(***************************************************************************)
(* Proofs about Keyspace, for any number of workers, any keys over any     *)
(* alphabet, any times to live and any bounds.                             *)
(***************************************************************************)
EXTENDS Keyspace, TrieOpsProofs

-----------------------------------------------------------------------------
(* Types *)

PCs == {"idle", "put", "put_count", "putp",
        "get", "get_item", "get_expired", "get_count", "get_pack",
        "getp", "getp_loop", "getp_expired", "getp_count", "getp_pack",
        "del", "del_read", "delp", "delp_remove", "delp_read", "del_write"}

Item == [st : {"live", "freed"}, val : Nat, asked : Int, ttl : Int, ctime : Nat]
Request == [op : Ops \cup {"none"}, key : Keys \cup {<<>>}, ttl : Int, val : Nat]
Tuple == [key : Keys, item : Nat, val : Nat]
Replies == {<<"none">>, <<"ok">>, <<"nok">>} \cup ({"val"} \X Nat)
             \cup ({"keys"} \X SUBSET (Keys \X Nat))

Thread == [pc : PCs, req : Request, item : Nat, val : Nat, now : Nat,
           vec : Seq(Tuple), i : Nat, n : Int, reply : Replies]

TypeOK ==
  /\ WellFormed(trie)
  /\ items \in Seq(Item)
  /\ keyspace_size \in 0..SizeMod - 1
  /\ lock \in Workers \cup {FREE}
  /\ clock \in Nat /\ sent \in Nat
  /\ th \in [Workers -> Thread]

-----------------------------------------------------------------------------
(* The inductive invariant *)

\* A worker that serves a request serves one with a key.
Named == \A w \in Workers : th[w].pc # "idle" => Key(w) \in Keys

\* The trie stores nothing under a path that no request named, and what it
\* stores are allocated items, no two keys sharing one.
Owned ==
  /\ Full(trie) \subseteq Keys
  /\ \A q \in Full(trie) : trie.data[q] \in DOMAIN items /\ Live(trie.data[q])
  /\ \A q, r \in Full(trie) : trie.data[q] = trie.data[r] => q = r

\* A pointer a worker keeps after it has dropped the lock leads to an item
\* that was allocated: released it may be by then.  The position of a prefix
\* GET is one of its vector, and the count a DEL writes fits the counter.
Points(w) ==
  /\ th[w].pc \in {"get_item", "get_expired", "get_pack"} => th[w].item \in DOMAIN items
  /\ \A j \in DOMAIN th[w].vec : th[w].vec[j].item \in DOMAIN items
  /\ th[w].pc = "getp_loop" => th[w].i > 0
  /\ th[w].pc \in {"getp_expired", "getp_count"} => th[w].i \in 1..Len(th[w].vec)
  /\ th[w].pc = "del_write" => th[w].n \in 0..SizeMod - 1

Pointers == \A w \in Workers : Points(w)

IInv == TypeOK /\ Named /\ Owned /\ Pointers

\* An allocated item has its fields.
LEMMA AllocatedItem ==
  ASSUME items \in Seq(Item), NEW i \in DOMAIN items
  PROVE  /\ i \in Nat /\ items[i] \in Item
         /\ items[i].val \in Nat /\ items[i].asked \in Int /\ items[i].ttl \in Int
         /\ items[i].ctime \in Nat
  <1>1. i \in 1..Len(items) /\ items[i] \in Item
    BY SeqElements, Zenon
  <1>2. QED
    BY <1>1 DEF Item

\* What the walk to a key finds: a pointer to an allocated item, or NULL.
LEMMA FindItem ==
  ASSUME IInv, NEW k \in Keys
  PROVE  /\ Find(k) # NULL <=> k \in Full(trie)
         /\ k \in Full(trie) => /\ Find(k) = trie.data[k] /\ Find(k) \in DOMAIN items
                                /\ Find(k) \in Nat /\ Live(Find(k))
         /\ trie_node_find(trie, k) <=> k \in DOMAIN trie.data
  <1>1. k \in Seq(Char) /\ WellFormed(trie) /\ DOMAIN items = 1..Len(items)
    BY KeysAssumption DEF IInv, TypeOK
  <1>2. /\ trie_node_find(trie, k) <=> k \in DOMAIN trie.data
        /\ Find(k) = IF k \in DOMAIN trie.data THEN trie.data[k] ELSE NULL
    BY <1>1, WalkFindsNode, Zenon DEF Find
  <1>3. QED
    BY <1>1, <1>2 DEF IInv, Owned, Full, WithData

-----------------------------------------------------------------------------
(* The worker threads *)

\* A step of one worker keeps its request, and the others where they are.
OnlyThread(w) == \A v \in Workers \ {w} : th'[v] = th[v]
Moved(w) == th' \in [Workers -> Thread] /\ OnlyThread(w) /\ th'[w].req = th[w].req

\* What a step leaves of the locals of its worker: the item and its value, the
\* vector of a prefix GET and the position in it.
SameItem(w) == th'[w].item = th[w].item /\ th'[w].val = th[w].val
SameVec(w) == th'[w].vec = th[w].vec /\ th'[w].i = th[w].i /\ th'[w].now = th[w].now

Went(w, pc) == Moved(w) /\ SameItem(w) /\ SameVec(w) /\ th'[w].pc = pc
Answers(w, r) == Went(w, "idle") /\ th'[w].reply = r

\* The ways in which a step changes the locals, with Goto and Reply.
SetN(w, pc, n) == th' = [th EXCEPT ![w].pc = pc, ![w].n = n]
SetItem(w, i) == th' = [th EXCEPT ![w].pc = "get_item", ![w].item = i]
SetVal(w, v) == th' = [th EXCEPT ![w].pc = "get_pack", ![w].val = v]
SetVec(w, pc, now, i, vec) ==
  th' = [th EXCEPT ![w].pc = pc, ![w].now = now, ![w].i = i, ![w].vec = vec]

\* The sequences that SetToSeqs gives hold the members of the set.
LEMMA SeqsOfSet ==
  ASSUME NEW S, IsFiniteSet(S), NEW s \in SetToSeqs(S)
  PROVE  s \in Seq(S) /\ DOMAIN s = 1..Len(s) /\ {s[j] : j \in DOMAIN s} = S
  <1>1. Cardinality(S) \in Nat
    BY FS_CardinalityType, Zenon
  <1>2. /\ s \in [1..Cardinality(S) -> S]
        /\ s \in Injection(1..Cardinality(S), S)
    BY <1>1, Zenon DEF SetToSeqs, Injection, IsInjective
  <1>3. Cardinality(1..Cardinality(S)) = Cardinality(S)
    BY <1>1, FS_Interval
  <1>4. s \in Surjection(1..Cardinality(S), S)
    BY <1>2, <1>3, FS_Injection, Zenon
  <1>5. QED
    BY <1>1, <1>4 DEF Surjection

\* Removing an element of a sequence brings in no new one.
LEMMA RemoveAtType ==
  ASSUME NEW S, NEW s \in Seq(S), NEW i \in 1..Len(s)
  PROVE  RemoveAt(s, i) \in Seq(S)
  BY DEF RemoveAt

\* A function on the indices of a sequence is a sequence.
LEMMA SameLength ==
  ASSUME NEW S, NEW s \in Seq(S), NEW T, NEW f \in [DOMAIN s -> T]
  PROVE  f \in Seq(T)
  OBVIOUS

\* The counter is reduced modulo its width.
LEMMA ModRange ==
  ASSUME NEW a \in Int
  PROVE  a % SizeMod \in 0..SizeMod - 1
  BY BoundsAssumption

\* The locals of an idle worker.
LEMMA IdleType == Idle \in Thread
  <1>1. [op |-> "none", key |-> <<>>, ttl |-> -1, val |-> 0] \in Request
    BY DEF Request
  <1>2. <<>> \in Seq(Tuple) /\ <<"none">> \in Replies /\ "idle" \in PCs
    BY DEF Replies, PCs
  <1>3. QED
    BY <1>1, <1>2 DEF Idle, Thread

\* A request that arrives brings a key.
LEMMA ReceiveTypes ==
  ASSUME IInv, NEW w \in Workers, Receive(w)
  PROVE  /\ th' \in [Workers -> Thread] /\ OnlyThread(w)
         /\ Key(w)' \in Keys /\ th'[w].pc = th'[w].req.op /\ th'[w].req.op \in Ops
         /\ th'[w].vec = <<>> /\ th'[w].req.ttl \in Ttls
  <1>1. th \in [Workers -> Thread]
    BY DEF IInv, TypeOK
  <1>2. PICK op \in Ops, k \in Keys, ttl \in Ttls :
          th' = [th EXCEPT ![w] = [Idle EXCEPT
                   !.pc = op,
                   !.req = [op |-> op, key |-> k, ttl |-> ttl, val |-> sent + 1]]]
    BY Zenon DEF Receive
  <1> DEFINE r == [op |-> op, key |-> k, ttl |-> ttl, val |-> sent + 1]
  <1>3. op \in PCs /\ r \in Request /\ r.key = k /\ r.op = op /\ r.ttl = ttl
    BY OpsAssumption, TtlsAssumption DEF PCs, IInv, TypeOK, Request
  <1>4. Idle.vec = <<>>
    BY Zenon DEF Idle
  <1> HIDE DEF r
  <1>5. [Idle EXCEPT !.pc = op, !.req = r] \in Thread
    BY <1>3, IdleType, Zenon DEF Thread
  <1>6. th'[w].req = r /\ th'[w].pc = op /\ th'[w].vec = <<>>
    BY <1>1, <1>2, <1>4, IdleType, Zenon DEF r, Thread
  <1>7. QED
    BY <1>1, <1>2, <1>3, <1>5, <1>6, Zenon DEF Key, OnlyThread, r

\* The positions the actions name are positions of the type.
LEMMA PcValues ==
  /\ "idle" \in PCs /\ "put_count" \in PCs
  /\ "get_item" \in PCs /\ "get_expired" \in PCs /\ "get_count" \in PCs
  /\ "get_pack" \in PCs /\ "getp_loop" \in PCs /\ "getp_expired" \in PCs
  /\ "getp_count" \in PCs /\ "getp_pack" \in PCs /\ "del_read" \in PCs
  /\ "delp_remove" \in PCs /\ "delp_read" \in PCs /\ "del_write" \in PCs
  BY Zenon DEF PCs

\* The answers the handlers give are answers of the type.
LEMMA ReplyValues ==
  /\ <<"ok">> \in Replies /\ <<"nok">> \in Replies
  /\ \A v \in Nat : <<"val", v>> \in Replies
  BY Zenon DEF Replies

\* The locals of one worker are replaced.
LEMMA ThreadStep ==
  ASSUME th \in [Workers -> Thread], NEW w \in Workers, NEW u \in Thread,
         u.req = th[w].req, th' = [th EXCEPT ![w] = u]
  PROVE  Moved(w) /\ th'[w] = u
  BY Zenon DEF Moved, OnlyThread

\* Goto changes the program counter only.
LEMMA GotoLocals ==
  ASSUME th \in [Workers -> Thread], NEW w \in Workers,
         NEW pc \in PCs, Goto(w, pc)
  PROVE  /\ Moved(w) /\ SameItem(w) /\ SameVec(w)
         /\ th'[w].pc = pc /\ th'[w].n = th[w].n /\ th'[w].reply = th[w].reply
  <1> DEFINE t == th[w]
             u == [t EXCEPT !.pc = pc]
  <1>1. th' = [th EXCEPT ![w] = u]
    BY DEF Goto
  <1>2. /\ u \in Thread /\ u.req = t.req /\ u.item = t.item /\ u.val = t.val
        /\ u.vec = t.vec /\ u.i = t.i /\ u.now = t.now
        /\ u.pc = pc /\ u.n = t.n /\ u.reply = t.reply
    BY PcValues, Zenon DEF Thread
  <1> HIDE DEF u
  <1>3. QED
    BY <1>1, <1>2, ThreadStep, Zenon DEF SameItem, SameVec

\* Reply ends the handler.
LEMMA ReplyLocals ==
  ASSUME th \in [Workers -> Thread], NEW w \in Workers,
         NEW r \in Replies, Reply(w, r)
  PROVE  /\ Moved(w) /\ SameItem(w) /\ SameVec(w)
         /\ th'[w].pc = "idle" /\ th'[w].n = th[w].n /\ th'[w].reply = r
  <1> DEFINE t == th[w]
             u == [t EXCEPT !.pc = "idle", !.reply = r]
  <1>1. th' = [th EXCEPT ![w] = u]
    BY Zenon DEF Reply
  <1>2. /\ u \in Thread /\ u.req = t.req /\ u.item = t.item /\ u.val = t.val
        /\ u.vec = t.vec /\ u.i = t.i /\ u.now = t.now
        /\ u.pc = "idle" /\ u.n = t.n /\ u.reply = r
    BY PcValues, Zenon DEF Thread
  <1> HIDE DEF u
  <1>3. QED
    BY <1>1, <1>2, ThreadStep, Zenon DEF SameItem, SameVec

\* A handler reads a counter.
LEMMA SetNLocals ==
  ASSUME th \in [Workers -> Thread], NEW w \in Workers,
         NEW pc \in PCs, NEW n \in Int, SetN(w, pc, n)
  PROVE  /\ Moved(w) /\ SameItem(w) /\ SameVec(w)
         /\ th'[w].pc = pc /\ th'[w].n = n /\ th'[w].reply = th[w].reply
  <1> DEFINE t == th[w]
             u == [t EXCEPT !.pc = pc, !.n = n]
  <1>1. th' = [th EXCEPT ![w] = u]
    BY Zenon DEF SetN
  <1>2. /\ u \in Thread /\ u.req = t.req /\ u.item = t.item /\ u.val = t.val
        /\ u.vec = t.vec /\ u.i = t.i /\ u.now = t.now
        /\ u.pc = pc /\ u.n = n /\ u.reply = t.reply
    BY PcValues, Zenon DEF Thread
  <1> HIDE DEF u
  <1>3. QED
    BY <1>1, <1>2, ThreadStep, Zenon DEF SameItem, SameVec

\* A GET keeps the pointer it found.
LEMMA SetItemLocals ==
  ASSUME th \in [Workers -> Thread], NEW w \in Workers,
         NEW i \in Nat, SetItem(w, i)
  PROVE  /\ Moved(w) /\ SameVec(w)
         /\ th'[w].pc = "get_item" /\ th'[w].item = i
  <1> DEFINE t == th[w]
             u == [t EXCEPT !.pc = "get_item", !.item = i]
  <1>1. th' = [th EXCEPT ![w] = u]
    BY Zenon DEF SetItem
  <1>2. /\ u \in Thread /\ u.req = t.req /\ u.vec = t.vec /\ u.i = t.i /\ u.now = t.now
        /\ u.pc = "get_item" /\ u.item = i
    BY PcValues, Zenon DEF Thread
  <1> HIDE DEF u
  <1>3. QED
    BY <1>1, <1>2, ThreadStep, Zenon DEF SameItem, SameVec

\* A GET makes the tuple of its item.
LEMMA SetValLocals ==
  ASSUME th \in [Workers -> Thread], NEW w \in Workers,
         NEW v \in Nat, SetVal(w, v)
  PROVE  /\ Moved(w) /\ SameVec(w)
         /\ th'[w].pc = "get_pack" /\ th'[w].item = th[w].item /\ th'[w].val = v
  <1> DEFINE t == th[w]
             u == [t EXCEPT !.pc = "get_pack", !.val = v]
  <1>1. th' = [th EXCEPT ![w] = u]
    BY Zenon DEF SetVal
  <1>2. /\ u \in Thread /\ u.req = t.req /\ u.vec = t.vec /\ u.i = t.i /\ u.now = t.now
        /\ u.pc = "get_pack" /\ u.item = t.item /\ u.val = v
    BY PcValues, Zenon DEF Thread
  <1> HIDE DEF u
  <1>3. QED
    BY <1>1, <1>2, ThreadStep, Zenon DEF SameItem, SameVec

\* A prefix GET has a new vector, or a new position in it.
LEMMA SetVecLocals ==
  ASSUME th \in [Workers -> Thread], NEW w \in Workers,
         NEW pc \in PCs, NEW now \in Nat, NEW i \in Nat, NEW vec \in Seq(Tuple), SetVec(w, pc, now, i, vec)
  PROVE  /\ Moved(w) /\ th'[w].item = th[w].item /\ th'[w].pc = pc
         /\ th'[w].now = now /\ th'[w].i = i /\ th'[w].vec = vec
  <1> DEFINE t == th[w]
             u == [t EXCEPT !.pc = pc, !.now = now, !.i = i, !.vec = vec]
  <1>1. th' = [th EXCEPT ![w] = u]
    BY Zenon DEF SetVec
  <1>2. /\ u \in Thread /\ u.req = t.req /\ u.item = t.item /\ u.pc = pc
        /\ u.now = now /\ u.i = i /\ u.vec = vec
    BY PcValues, Zenon DEF Thread
  <1> HIDE DEF u
  <1>3. QED
    BY <1>1, <1>2, ThreadStep, Zenon DEF SameItem, SameVec

\* What the steps of put_handler do to the locals of their worker.
LEMMA PutSteps ==
  ASSUME TypeOK, NEW w \in Workers
  PROVE  /\ put_insert(w) => Went(w, "put_count") /\ th'[w].n = keyspace_size
         /\ put_count(w) \/ put_prefix(w) => Answers(w, <<"ok">>)
  <1>1. th \in [Workers -> Thread] /\ keyspace_size \in Int
    BY DEF TypeOK
  <1>2. put_insert(w) => SetN(w, "put_count", keyspace_size)
    BY Zenon DEF put_insert, SetN
  <1>3. put_count(w) \/ put_prefix(w) => Reply(w, <<"ok">>)
    BY Zenon DEF put_count, put_prefix
  <1>4. QED
    BY <1>1, <1>2, <1>3, PcValues, ReplyValues, SetNLocals, ReplyLocals DEF Went, Answers

\* What the steps of get_handler on one key do to them.
GetSearched(w) ==
  LET i == Find(Key(w)) IN
  \/ i = NULL /\ Answers(w, <<"nok">>)
  \/ i # NULL /\ SearchExpired(items[i]) /\ Answers(w, <<"nok">>)
  \/ /\ i # NULL /\ ~SearchExpired(items[i])
     /\ Moved(w) /\ SameVec(w) /\ th'[w].pc = "get_item" /\ th'[w].item = i

GetTested(w) ==
  LET it == items[th[w].item] IN
  \/ ~Live(th[w].item) /\ Crash("released")
  \/ Live(th[w].item) /\ DeltaExpired(it, clock) /\ Went(w, "get_expired")
  \/ /\ Live(th[w].item) /\ ~DeltaExpired(it, clock)
     /\ Moved(w) /\ SameVec(w) /\ th'[w].pc = "get_pack"
     /\ th'[w].item = th[w].item /\ th'[w].val = it.val

GetPacked(w) ==
  \/ /\ Live(th[w].item) /\ items[th[w].item].val = th[w].val
     /\ Answers(w, <<"val", th[w].val>>)
  \/ ~(Live(th[w].item) /\ items[th[w].item].val = th[w].val) /\ Crash("released")

\* What each action of get_handler does, said without EXCEPT.
LEMMA GetSteps ==
  ASSUME IInv, NEW w \in Workers
  PROVE  /\ get_search(w) => GetSearched(w)
         /\ get_item(w) => GetTested(w)
         /\ get_expired(w) => Went(w, "get_count") /\ th'[w].n = keyspace_size
         /\ get_count(w) => Answers(w, <<"nok">>)
         /\ get_pack(w) => GetPacked(w)
  <1>1. th \in [Workers -> Thread] /\ keyspace_size \in Int /\ items \in Seq(Item)
    BY DEF IInv, TypeOK
  <1>2. th[w].val \in Nat
    BY <1>1, Zenon DEF Thread
  <1>3. ASSUME get_search(w) PROVE GetSearched(w)
    <2>1. Find(Key(w)) = NULL \/ Find(Key(w)) \in Nat
      BY <1>3, FindItem, Zenon DEF IInv, Named, get_search, At
    <2>2. LET i == Find(Key(w)) IN
          \/ i = NULL /\ Reply(w, <<"nok">>)
          \/ i # NULL /\ SearchExpired(items[i]) /\ Reply(w, <<"nok">>)
          \/ i # NULL /\ ~SearchExpired(items[i]) /\ SetItem(w, i)
      BY <1>3, Zenon DEF get_search, SetItem
    <2>3. QED
      BY <1>1, <2>1, <2>2, ReplyValues, ReplyLocals, SetItemLocals, Zenon DEF GetSearched, Went, Answers
  <1>4. ASSUME get_item(w) PROVE GetTested(w)
    <2>1. th[w].item \in DOMAIN items
      BY <1>4, Zenon DEF get_item, At, IInv, Pointers, Points
    <2>2. items[th[w].item].val \in Nat
      BY <1>1, <2>1, AllocatedItem, Zenon
    <2>3. LET it == items[th[w].item] IN
          \/ ~Live(th[w].item) /\ Crash("released")
          \/ Live(th[w].item) /\ DeltaExpired(it, clock) /\ Goto(w, "get_expired")
          \/ Live(th[w].item) /\ ~DeltaExpired(it, clock) /\ SetVal(w, it.val)
      BY <1>4, Zenon DEF get_item, SetVal
    <2>4. QED
      BY <1>1, <2>2, <2>3, PcValues, GotoLocals, SetValLocals, Zenon DEF GetTested, Went
  <1>5. get_expired(w) => Went(w, "get_count") /\ th'[w].n = keyspace_size
    <2>1. get_expired(w) => SetN(w, "get_count", keyspace_size)
      BY Zenon DEF get_expired, SetN
    <2>2. QED
      BY <1>1, <2>1, PcValues, SetNLocals, Zenon DEF Went
  <1>6. get_count(w) => Answers(w, <<"nok">>)
    BY <1>1, ReplyValues, ReplyLocals, Zenon DEF get_count, Went, Answers
  <1>7. ASSUME get_pack(w) PROVE GetPacked(w)
    <2>1. \/ /\ Live(th[w].item) /\ items[th[w].item].val = th[w].val
             /\ Reply(w, <<"val", th[w].val>>)
          \/ ~(Live(th[w].item) /\ items[th[w].item].val = th[w].val) /\ Crash("released")
      BY <1>7, Zenon DEF get_pack
    <2>2. <<"val", th[w].val>> \in Replies
      BY <1>2, ReplyValues, Zenon
    <2>3. QED
      BY <1>1, <2>1, <2>2, ReplyLocals, Zenon DEF GetPacked, Went, Answers
  <1>8. QED
    BY <1>3, <1>4, <1>5, <1>6, <1>7, Zenon

\* The vector of a prefix GET is made of keys that have an item.
LEMMA SearchedVec ==
  ASSUME IInv, NEW p \in Keys, NEW s \in WalkOrders(WithData(trie, Subtree(trie, p)))
  PROVE  LET vec == [j \in DOMAIN s |-> [key |-> s[j], item |-> trie.data[s[j]], val |-> 0]]
         IN /\ vec \in Seq(Tuple)
            /\ \A j \in DOMAIN vec : vec[j].item \in DOMAIN items /\ Live(vec[j].item)
            /\ \A j \in DOMAIN vec : vec[j].item = trie.data[vec[j].key]
            /\ {vec[j].key : j \in DOMAIN vec} = WithData(trie, Subtree(trie, p))
  <1> DEFINE S == WithData(trie, Subtree(trie, p))
             vec == [j \in DOMAIN s |-> [key |-> s[j], item |-> trie.data[s[j]], val |-> 0]]
  <1>1. S \subseteq Full(trie) /\ S = WithData(trie, S)
    BY Zenon DEF WithData, Subtree, Full
  <1>2. IsFiniteSet(S)
    BY FullFinite, Zenon DEF IInv, TypeOK, WellFormed, Subtree
  <1>3. s \in SetToSeqs(S)
    BY Zenon DEF WalkOrders
  <1> HIDE DEF S
  <1>4. s \in Seq(S) /\ DOMAIN s = 1..Len(s) /\ {s[j] : j \in DOMAIN s} = S
    BY <1>2, <1>3, SeqsOfSet, Zenon
  <1>5. \A j \in DOMAIN s : s[j] \in Keys /\ trie.data[s[j]] \in DOMAIN items
                            /\ Live(trie.data[s[j]])
    BY <1>1, <1>4, Zenon DEF IInv, Owned
  <1>6. DOMAIN items \subseteq Nat
    BY DEF IInv, TypeOK
  <1>7. \A j \in DOMAIN s : [key |-> s[j], item |-> trie.data[s[j]], val |-> 0] \in Tuple
    BY <1>5, <1>6, Zenon DEF Tuple
  <1>8. vec \in Seq(Tuple)
    BY <1>7
  <1>9. {vec[j].key : j \in DOMAIN vec} = S
    BY <1>4, Zenon
  <1>10. QED
    BY <1>5, <1>8, <1>9, Zenon DEF S

\* What the steps of get_handler on a prefix do to them.
PrefixSearched(w) ==
  \/ ~trie_node_find(trie, Key(w)) /\ Crash("null vector")
  \/ /\ trie_node_find(trie, Key(w))
     /\ \E s \in WalkOrders(WithData(trie, Subtree(trie, Key(w)))) :
          /\ th'[w].vec = [j \in DOMAIN s |-> [key |-> s[j], item |-> trie.data[s[j]],
                                               val |-> 0]]
          /\ Moved(w) /\ th'[w].item = th[w].item /\ th'[w].pc = "getp_loop"
          /\ th'[w].i = 1

PrefixTested(w) ==
  LET i == th[w].vec[th[w].i].item IN
  \/ ~Live(i) /\ Crash("released")
  \/ Live(i) /\ Went(w, "getp_expired")
  \/ /\ Live(i) /\ Moved(w) /\ th'[w].item = th[w].item /\ th'[w].pc = "getp_loop"
     /\ th'[w].vec = th[w].vec /\ th'[w].i = th[w].i + 1

PrefixTuples(w) ==
  LET vec == th[w].vec IN
  \/ vec = <<>> /\ Crash("empty allocation")
  \/ (\E j \in DOMAIN vec : ~Live(vec[j].item)) /\ Crash("released")
  \/ /\ \A j \in DOMAIN vec : Live(vec[j].item)
     /\ Moved(w) /\ th'[w].item = th[w].item /\ th'[w].pc = "getp_pack"
     /\ th'[w].vec = [j \in DOMAIN vec |-> [vec[j] EXCEPT !.val = items[vec[j].item].val]]

PrefixPacked(w) ==
  LET vec == th[w].vec
      same == \A j \in DOMAIN vec : /\ Live(vec[j].item)
                                    /\ items[vec[j].item].val = vec[j].val
  IN \/ same /\ Answers(w, <<"keys", {<<vec[j].key, vec[j].val>> : j \in DOMAIN vec}>>)
     \/ ~same /\ Crash("released")

\* What each action of a prefix GET does, said without EXCEPT.
LEMMA PrefixGetSteps ==
  ASSUME IInv, NEW w \in Workers
  PROVE  /\ getp_search(w) => PrefixSearched(w)
         /\ getp_loop(w) => PrefixTested(w)
         /\ getp_expired(w) => Went(w, "getp_count") /\ th'[w].n = keyspace_size
         /\ getp_count(w) => /\ Moved(w) /\ th'[w].item = th[w].item
                             /\ th'[w].pc = "getp_loop" /\ th'[w].i = th[w].i + 1
                             /\ th'[w].vec = RemoveAt(th[w].vec, th[w].i)
         /\ getp_tuples(w) => PrefixTuples(w)
         /\ getp_pack(w) => PrefixPacked(w)
  <1>1. /\ th \in [Workers -> Thread] /\ keyspace_size \in Int /\ items \in Seq(Item)
        /\ clock \in Nat
    BY DEF IInv, TypeOK
  <1>2. /\ th[w].vec \in Seq(Tuple) /\ th[w].i \in Nat /\ th[w].now \in Nat
        /\ th[w].i + 1 \in Nat
    BY <1>1 DEF Thread
  <1>3. ASSUME getp_search(w) PROVE PrefixSearched(w)
    <2>1. Key(w) \in Keys
      BY <1>3, Zenon DEF getp_search, At, IInv, Named
    <2>2. CASE ~trie_node_find(trie, Key(w))
      BY <1>3, <2>2, Zenon DEF getp_search, PrefixSearched
    <2>3. CASE trie_node_find(trie, Key(w))
      <3>1. PICK s \in WalkOrders(WithData(trie, Subtree(trie, Key(w)))) :
              th' = [th EXCEPT ![w].pc = "getp_loop", ![w].now = clock, ![w].i = 1,
                       ![w].vec = [j \in DOMAIN s |-> [key |-> s[j], item |-> trie.data[s[j]],
                                                      val |-> 0]]]
        BY <1>3, <2>3, Zenon DEF getp_search
      <3> DEFINE vec == [j \in DOMAIN s |-> [key |-> s[j], item |-> trie.data[s[j]],
                                            val |-> 0]]
      <3>2. vec \in Seq(Tuple)
        BY <2>1, SearchedVec, Zenon
      <3>3. SetVec(w, "getp_loop", clock, 1, vec)
        BY <3>1, Zenon DEF SetVec
      <3> HIDE DEF vec
      <3>4. Moved(w) /\ th'[w].item = th[w].item /\ th'[w].pc = "getp_loop"
            /\ th'[w].i = 1 /\ th'[w].vec = vec
        <4>1. clock \in Nat /\ 1 \in Nat /\ "getp_loop" \in PCs
          BY PcValues, Zenon DEF IInv, TypeOK
        <4>2. QED
          BY <1>1, <3>2, <3>3, <4>1, SetVecLocals, Zenon
      <3>5. QED
        BY <2>3, <3>4, Zenon DEF PrefixSearched, vec
    <2>4. QED
      BY <2>2, <2>3, Zenon
  <1>4. ASSUME getp_loop(w) PROVE PrefixTested(w)
    <2>1. ASSUME th' = [th EXCEPT ![w].i = @ + 1]
          PROVE  SetVec(w, "getp_loop", th[w].now, th[w].i + 1, th[w].vec)
      <3>1. th[w] \in Thread /\ th[w].pc = "getp_loop"
        BY <1>1, <1>4, Zenon DEF getp_loop, At
      <3>2. [th[w] EXCEPT !.i = th[w].i + 1] =
              [th[w] EXCEPT !.pc = "getp_loop", !.now = th[w].now, !.i = th[w].i + 1,
                            !.vec = th[w].vec]
        BY <3>1, Zenon DEF Thread
      <3>3. QED
        BY <2>1, <3>2, Zenon DEF SetVec
    <2>2. \/ ~Live(th[w].vec[th[w].i].item) /\ Crash("released")
          \/ Live(th[w].vec[th[w].i].item) /\ Goto(w, "getp_expired")
          \/ /\ Live(th[w].vec[th[w].i].item)
             /\ SetVec(w, "getp_loop", th[w].now, th[w].i + 1, th[w].vec)
      BY <1>4, <2>1, Zenon DEF getp_loop
    <2>3. QED
      BY <1>1, <1>2, <2>2, PcValues, GotoLocals, SetVecLocals DEF PrefixTested, Went
  <1>5. getp_expired(w) => Went(w, "getp_count") /\ th'[w].n = keyspace_size
    <2>1. getp_expired(w) => SetN(w, "getp_count", keyspace_size)
      BY Zenon DEF getp_expired, SetN
    <2>2. QED
      BY <1>1, <2>1, PcValues, SetNLocals, Zenon DEF Went
  <1>6. ASSUME getp_count(w)
        PROVE  /\ Moved(w) /\ th'[w].item = th[w].item
               /\ th'[w].pc = "getp_loop" /\ th'[w].i = th[w].i + 1
               /\ th'[w].vec = RemoveAt(th[w].vec, th[w].i)
    <2> DEFINE vec == RemoveAt(th[w].vec, th[w].i)
    <2>1. vec \in Seq(Tuple)
      BY <1>2, <1>6, RemoveAtType, Zenon DEF getp_count, At, IInv, Pointers, Points
    <2>2. SetVec(w, "getp_loop", th[w].now, th[w].i + 1, vec)
      <3>1. [th[w] EXCEPT !.pc = "getp_loop", !.i = th[w].i + 1, !.vec = vec] =
              [th[w] EXCEPT !.pc = "getp_loop", !.now = th[w].now, !.i = th[w].i + 1,
                            !.vec = vec]
        BY <1>1, Zenon DEF Thread
      <3>2. QED
        BY <1>6, <3>1, Zenon DEF getp_count, SetVec
    <2> HIDE DEF vec
    <2>3. Moved(w) /\ th'[w].item = th[w].item /\ th'[w].pc = "getp_loop"
          /\ th'[w].i = th[w].i + 1 /\ th'[w].vec = vec
      BY <1>1, <1>2, <2>1, <2>2, PcValues, SetVecLocals
    <2>4. QED
      BY <2>3, Zenon DEF vec
  <1>7. ASSUME getp_tuples(w) PROVE PrefixTuples(w)
    <2> DEFINE vec == th[w].vec
               tuple(j) == [vec[j] EXCEPT !.val = items[vec[j].item].val]
               new == [j \in DOMAIN vec |-> tuple(j)]
    <2>1. ASSUME th' = [th EXCEPT ![w].pc = "getp_pack", ![w].vec = new]
          PROVE  Moved(w) /\ th'[w].item = th[w].item /\ th'[w].pc = "getp_pack"
                 /\ th'[w].vec = new
      <3>1. \A j \in DOMAIN vec : vec[j] \in Tuple /\ items[vec[j].item].val \in Nat
        <4>1. \A j \in DOMAIN vec : vec[j] \in Tuple /\ vec[j].item \in DOMAIN items
          BY <1>2, SeqElements, Zenon DEF IInv, Pointers, Points
        <4>2. QED
          BY <1>1, <4>1, AllocatedItem, Zenon
      <3>2. \A j \in DOMAIN vec : tuple(j) \in Tuple
        BY <3>1, Zenon DEF Tuple
      <3>3. new \in Seq(Tuple)
        <4> HIDE DEF tuple
        <4>1. new \in [DOMAIN vec -> Tuple]
          BY <3>2, Zenon
        <4>2. QED
          BY <1>2, <4>1, SameLength, Zenon
      <3> HIDE DEF new
      <3>4. SetVec(w, "getp_pack", th[w].now, th[w].i, new)
        <4>1. [th[w] EXCEPT !.pc = "getp_pack", !.vec = new] =
                [th[w] EXCEPT !.pc = "getp_pack", !.now = th[w].now, !.i = th[w].i,
                              !.vec = new]
          BY <1>1, ZenonT(30) DEF Thread
        <4>2. QED
          BY <2>1, <4>1, Zenon DEF SetVec
      <3>5. QED
        BY <1>1, <1>2, <3>3, <3>4, PcValues, SetVecLocals
    <2>2. \/ vec = <<>> /\ Crash("empty allocation")
          \/ (\E j \in DOMAIN vec : ~Live(vec[j].item)) /\ Crash("released")
          \/ /\ \A j \in DOMAIN vec : Live(vec[j].item)
             /\ th' = [th EXCEPT ![w].pc = "getp_pack", ![w].vec = new]
      BY <1>7, Zenon DEF getp_tuples
    <2>3. QED
      BY <2>1, <2>2, Zenon DEF PrefixTuples
  <1>8. ASSUME getp_pack(w) PROVE PrefixPacked(w)
    <2> DEFINE vec == th[w].vec
               r == <<"keys", {<<vec[j].key, vec[j].val>> : j \in DOMAIN vec}>>
    <2>1. \A j \in DOMAIN vec : vec[j] \in Tuple
      BY <1>2, SeqElements, Zenon
    <2>2. {<<vec[j].key, vec[j].val>> : j \in DOMAIN vec} \in SUBSET (Keys \X Nat)
      BY <2>1 DEF Tuple
    <2>3. r \in Replies
      BY <2>2, Zenon DEF Replies
    <2> HIDE DEF r
    <2>4. Reply(w, r) => Answers(w, r)
      BY <1>1, <2>3, ReplyLocals, Zenon DEF Went, Answers
    <2>5. QED
      BY <1>8, <2>4, Zenon DEF getp_pack, PrefixPacked, r
  <1>9. QED
    BY <1>3, <1>4, <1>5, <1>6, <1>7, <1>8, Zenon

\* What the steps of del_handler do to them.
LEMMA DelSteps ==
  ASSUME TypeOK, NEW w \in Workers
  PROVE  /\ del_remove(w) => \/ trie_delete_ret(trie, Key(w)) /\ Went(w, "del_read")
                             \/ ~trie_delete_ret(trie, Key(w)) /\ Answers(w, <<"nok">>)
         /\ del_read(w) => /\ Went(w, "del_write")
                           /\ th'[w].n = (keyspace_size - 1) % SizeMod
         /\ delp_size(w) => Went(w, "delp_remove") /\ th'[w].n = trie.size
         /\ delp_remove(w) => Went(w, "delp_read") /\ th'[w].n = th[w].n
         /\ delp_read(w) => /\ Went(w, "del_write")
                            /\ th'[w].n = (keyspace_size - (th[w].n - trie.size)) % SizeMod
         /\ del_write(w) => Answers(w, <<"ok">>)
  <1>1. th \in [Workers -> Thread] /\ keyspace_size \in Int /\ trie.size \in Int
    BY DEF TypeOK, WellFormed
  <1>2. th[w].n \in Int
    BY <1>1, Zenon DEF Thread
  <1>3. del_remove(w) => \/ trie_delete_ret(trie, Key(w)) /\ Goto(w, "del_read")
                         \/ ~trie_delete_ret(trie, Key(w)) /\ Reply(w, <<"nok">>)
    BY Zenon DEF del_remove
  <1>4. del_read(w) => SetN(w, "del_write", (keyspace_size - 1) % SizeMod)
    BY Zenon DEF del_read, SetN
  <1>5. delp_size(w) => SetN(w, "delp_remove", trie.size)
    BY Zenon DEF delp_size, SetN
  <1>6. delp_read(w) =>
          SetN(w, "del_write", (keyspace_size - (th[w].n - trie.size)) % SizeMod)
    BY Zenon DEF delp_read, SetN
  <1>7. /\ (keyspace_size - 1) % SizeMod \in Int
        /\ (keyspace_size - (th[w].n - trie.size)) % SizeMod \in Int
    BY <1>1, <1>2, ModRange
  <1>8. /\ delp_remove(w) => Goto(w, "delp_read")
        /\ del_write(w) => Reply(w, <<"ok">>)
    BY Zenon DEF delp_remove, del_write
  <1>9. QED
    BY <1>1, <1>3, <1>4, <1>5, <1>6, <1>7, <1>8, PcValues, ReplyValues, GotoLocals, ReplyLocals, SetNLocals, SMTT(30)
       DEF Went, Answers

-----------------------------------------------------------------------------
(* The trie and the items *)

\* What Release leaves: the items of I are marked, the others are as before.
LEMMA Released ==
  ASSUME items \in Seq(Item), NEW I
  PROVE  /\ Release(I) \in Seq(Item) /\ DOMAIN Release(I) = DOMAIN items
         /\ \A i \in DOMAIN items :
              /\ i \notin I => Release(I)[i] = items[i]
              /\ i \in I => Release(I)[i].st = "freed"
              /\ Release(I)[i].val = items[i].val /\ Release(I)[i].asked = items[i].asked
              /\ Release(I)[i].ttl = items[i].ttl /\ Release(I)[i].ctime = items[i].ctime
  <1> DEFINE marked(i) == [items[i] EXCEPT !.st = "freed"]
             new(i) == IF i \in I THEN marked(i) ELSE items[i]
  <1>1. \A i \in DOMAIN items : items[i] \in Item
    BY SeqElements, Zenon
  <1>2. \A i \in DOMAIN items :
          /\ marked(i) \in Item /\ marked(i).st = "freed"
          /\ marked(i).val = items[i].val /\ marked(i).asked = items[i].asked
          /\ marked(i).ttl = items[i].ttl /\ marked(i).ctime = items[i].ctime
    BY <1>1, Zenon DEF Item
  <1> HIDE DEF marked
  <1>3. \A i \in DOMAIN items : new(i) \in Item
    BY <1>1, <1>2, Zenon
  <1>4. Release(I) = [i \in DOMAIN items |-> new(i)]
    BY Zenon DEF Release, marked
  <1>5. Release(I) \in [DOMAIN items -> Item]
    <2> HIDE DEF new
    <2>1. QED
      BY <1>3, <1>4, Zenon
  <1>6. Release(I) \in Seq(Item)
    BY <1>5, SameLength, Zenon
  <1>7. QED
    BY <1>2, <1>4, <1>5, <1>6, Zenon

\* The state that the spinlock guards.
Stored == WellFormed(trie) /\ items \in Seq(Item) /\ Owned

\* Removing one key releases its item and no other.
LEMMA RemoveStored ==
  ASSUME IInv, NEW k \in Keys,
         trie' = trie_delete(trie, k), items' = Release({Find(k)})
  PROVE  /\ Stored' /\ DOMAIN items' = DOMAIN items /\ DOMAIN trie'.data = DOMAIN trie.data
         /\ Full(trie)' = Full(trie) \ {k}
         /\ \A q \in Full(trie)' : trie'.data[q] = trie.data[q]
  <1>1. /\ WellFormed(trie) /\ items \in Seq(Item) /\ k \in Seq(Char) /\ k # <<>>
        /\ DOMAIN items = 1..Len(items)
    BY KeysAssumption DEF IInv, TypeOK
  <1>2. /\ WellFormed(trie') /\ DOMAIN trie'.data = DOMAIN trie.data
        /\ \A q \in DOMAIN trie.data : trie'.data[q] = IF q = k THEN NULL ELSE trie.data[q]
    BY <1>1, DeleteWellFormed, Zenon
  <1>3. Full(trie') = Full(trie) \ {k}
    BY <1>2, Zenon DEF Full, WithData
  <1>4. /\ items' \in Seq(Item) /\ DOMAIN items' = DOMAIN items
        /\ \A i \in DOMAIN items : i # Find(k) => items'[i] = items[i]
    BY <1>1, Released, Zenon
  <1>5. \A q \in Full(trie) \ {k} : /\ trie'.data[q] = trie.data[q]
                                    /\ trie.data[q] \in DOMAIN items /\ Live(trie.data[q])
                                    /\ q \in Keys /\ trie.data[q] # Find(k)
    <2>1. \A q \in Full(trie) : q \in DOMAIN trie.data /\ trie.data[q] # NULL
      BY Zenon DEF Full, WithData
    <2>2. ASSUME NEW q \in Full(trie) \ {k} PROVE trie.data[q] # Find(k)
      <3>1. CASE k \in Full(trie)
        BY <2>2, <3>1, FindItem, Zenon DEF IInv, Owned
      <3>2. CASE k \notin Full(trie)
        BY <2>1, <3>2, FindItem, Zenon
      <3>3. QED
        BY <3>1, <3>2, Zenon
    <2>3. QED
      BY <1>2, <2>1, <2>2, Zenon DEF IInv, Owned
  <1>6. Owned'
    <2>1. \A q \in Full(trie') : /\ q \in Full(trie) /\ q \in Keys /\ trie'.data[q] = trie.data[q]
                                 /\ trie'.data[q] \in DOMAIN items'
                                 /\ items'[trie'.data[q]].st = "live"
      BY <1>3, <1>4, <1>5, ZenonT(60) DEF Live
    <2>2. \A q, r \in Full(trie) : trie.data[q] = trie.data[r] => q = r
      BY Zenon DEF IInv, Owned
    <2>3. QED
      BY <2>1, <2>2 DEF Owned, Live
  <1>7. QED
    BY <1>2, <1>3, <1>4, <1>5, <1>6, Zenon DEF Stored

\* Removing a prefix releases the items below it and no other.
LEMMA PrefixRemoveStored ==
  ASSUME IInv, NEW w \in Workers, delp_remove(w)
  PROVE  /\ Stored' /\ DOMAIN items' = DOMAIN items
         /\ Full(trie)' = {q \in Full(trie) : ~IsPrefix(Key(w), q)}
         /\ \A q \in Full(trie)' : trie'.data[q] = trie.data[q]
  <1> DEFINE k == Key(w)
             S == Subtree(trie, k)
  <1>1. /\ WellFormed(trie) /\ items \in Seq(Item) /\ k \in Seq(Char) /\ k # <<>>
        /\ DOMAIN items = 1..Len(items) /\ k \in Keys
        /\ DOMAIN trie.data \subseteq Seq(Char)
    BY KeysAssumption DEF IInv, TypeOK, Named, delp_remove, At, WellFormed
  <1>2. /\ WellFormed(trie') /\ DOMAIN trie'.data = DOMAIN trie.data \ NodesBelow(trie, k)
        /\ \A q \in DOMAIN trie'.data : trie'.data[q] = IF q = k THEN NULL ELSE trie.data[q]
    BY <1>1, PrefixDeleteWellFormed DEF delp_remove
  <1>3. \A q \in DOMAIN trie.data : IsPrefix(k, q) <=> q \in NodesBelow(trie, k) \/ q = k
    BY <1>1, PrefixOrder, Zenon DEF NodesBelow, IsStrictPrefix
  <1>4. Full(trie') = {q \in Full(trie) : ~IsPrefix(k, q)}
    BY <1>2, <1>3, Zenon DEF Full, WithData
  <1>5. \A q \in Full(trie') : /\ q \in DOMAIN trie.data /\ trie'.data[q] = trie.data[q]
                               /\ q \in Full(trie) /\ q \notin S
    BY <1>2, <1>4, Zenon DEF Full, WithData, Subtree
  <1>6. /\ items' \in Seq(Item) /\ DOMAIN items' = DOMAIN items
        /\ \A i \in DOMAIN items : i \notin ItemsAt(S) => items'[i] = items[i]
    <2>1. items' = Release(ItemsAt(S)) \/ items' = items
      BY Zenon DEF delp_remove
    <2>2. QED
      BY <1>1, <2>1, Released
  <1>7. \A q \in Full(trie') : trie.data[q] \notin ItemsAt(S)
    <2>1. WithData(trie, S) \subseteq Full(trie) /\ WithData(trie, S) \subseteq S
      BY Zenon DEF WithData, Subtree, Full
    <2>2. QED
      BY <1>5, <2>1, ZenonT(60) DEF ItemsAt, IInv, Owned
  <1>8. \A q \in Full(trie') : /\ q \in Keys /\ trie.data[q] \in DOMAIN items
                               /\ Live(trie.data[q])
    BY <1>5, Zenon DEF IInv, Owned
  <1>9. Owned'
    <2>1. \A q, r \in Full(trie') : trie'.data[q] = trie'.data[r] => q = r
      BY <1>5, Zenon DEF IInv, Owned
    <2>2. QED
      BY <1>5, <1>6, <1>7, <1>8, <2>1, Zenon DEF Owned, Live
  <1>10. QED
    BY <1>2, <1>4, <1>5, <1>6, <1>9, Zenon DEF Stored

\* A PUT stores a new item, under its key only.
LEMMA InsertStored ==
  ASSUME IInv, NEW w \in Workers, put_insert(w)
  PROVE  /\ Stored' /\ DOMAIN items' = 1..Len(items) + 1 /\ DOMAIN items = 1..Len(items)
         /\ Len(items') = Len(items) + 1
         /\ \A i \in DOMAIN items : items'[i] = items[i]
         /\ Key(w) \in Keys /\ Full(trie)' = Full(trie) \cup {Key(w)}
         /\ \A q \in Full(trie) \ {Key(w)} : trie'.data[q] = trie.data[q]
         /\ trie'.data[Key(w)] = Len(items) + 1
         /\ items'[Len(items) + 1] = [st |-> "live", val |-> th[w].req.val,
                                      asked |-> th[w].req.ttl,
                                      ttl |-> Short(th[w].req.ttl), ctime |-> clock]
  <1> DEFINE k == Key(w)
             n == Len(items) + 1
             it == [st |-> "live", val |-> th[w].req.val, asked |-> th[w].req.ttl,
                    ttl |-> Short(th[w].req.ttl), ctime |-> clock]
  <1>1. /\ WellFormed(trie) /\ items \in Seq(Item) /\ k \in Seq(Char) /\ k \in Keys
        /\ DOMAIN items = 1..Len(items) /\ n \in Nat /\ n # NULL
    BY KeysAssumption, NullAssumption DEF IInv, TypeOK, Named, put_insert, At
  <1>2. it \in Item /\ it.st = "live"
    <2>1. th[w].req \in Request /\ clock \in Nat
      BY Zenon DEF IInv, TypeOK, Thread
    <2>2. th[w].req.val \in Nat /\ th[w].req.ttl \in Int
      BY <2>1, Zenon DEF Request
    <2>3. Short(th[w].req.ttl) \in Int
      BY <2>2 DEF Short
    <2>4. QED
      BY <2>1, <2>2, <2>3, Zenon DEF Item
  <1> HIDE DEF it
  <1>3. items' = Append(items, it)
    BY Zenon DEF put_insert, it
  <1>4. /\ items' \in Seq(Item) /\ DOMAIN items' = 1..n /\ items'[n] = it
        /\ \A i \in DOMAIN items : items'[i] = items[i]
        /\ Len(items') = n
    BY <1>1, <1>2, <1>3
  <1>5. /\ WellFormed(trie') /\ DOMAIN trie'.data = DOMAIN trie.data \cup Prefixes(k)
        /\ trie'.data[k] = n
        /\ \A q \in DOMAIN trie'.data \ {k} :
             trie'.data[q] = IF q \in DOMAIN trie.data THEN trie.data[q] ELSE NULL
    <2>1. trie' = trie_insert(trie, k, n)
      BY Zenon DEF put_insert
    <2> HIDE DEF n
    <2>2. QED
      BY <1>1, <2>1, InsertWellFormed
  <1>6. k \in Prefixes(k)
    BY <1>1, PrefixesAreIsPrefix, PrefixOrder, Zenon
  <1>7. Full(trie') = Full(trie) \cup {k}
    BY <1>1, <1>5, <1>6, Zenon DEF Full, WithData
  <1>8. \A q \in Full(trie) \ {k} :
          /\ trie'.data[q] = trie.data[q] /\ q \in Keys
          /\ trie.data[q] \in DOMAIN items /\ Live(trie.data[q])
    BY <1>5, Zenon DEF IInv, Owned, Full, WithData
  <1>9. Owned'
    <2>1. \A q \in Full(trie') : q \in Keys /\ trie'.data[q] \in DOMAIN items'
                                 /\ items'[trie'.data[q]].st = "live"
      BY <1>1, <1>2, <1>4, <1>5, <1>7, <1>8 DEF Live
    <2>2. \A q, r \in Full(trie') : trie'.data[q] = trie'.data[r] => q = r
      <3>1. \A q \in Full(trie) \ {k} : trie'.data[q] # n
        BY <1>1, <1>8
      <3>2. QED
        BY <1>5, <1>7, <1>8, <3>1, Zenon DEF IInv, Owned
    <2>3. QED
      BY <2>1, <2>2, Zenon DEF Owned, Live
  <1>10. QED
    BY <1>1, <1>4, <1>5, <1>7, <1>8, <1>9, Zenon DEF Stored, it

\* A prefix PUT changes the value and the ttl of stored items, and releases none.
LEMMA RewriteStored ==
  ASSUME IInv, NEW w \in Workers, put_prefix(w)
  PROVE  /\ Stored' /\ DOMAIN items' = DOMAIN items /\ trie' = trie
         /\ \A i \in DOMAIN items :
              \/ items'[i] = items[i]
              \/ /\ \E q \in Full(trie) : trie.data[q] = i
                 /\ items'[i].st = items[i].st
                 /\ items'[i].asked = th[w].req.ttl /\ items'[i].ttl = Short(th[w].req.ttl)
  <1> DEFINE S == Subtree(trie, Key(w))
             ttl == th[w].req.ttl
             changed(i) == [items[i] EXCEPT !.val = th[w].req.val, !.asked = ttl,
                                            !.ttl = Short(ttl)]
  <1>1. trie' = trie
    BY Zenon DEF put_prefix
  <1>2. /\ WellFormed(trie) /\ items \in Seq(Item) /\ Owned
        /\ DOMAIN items = 1..Len(items)
    BY DEF IInv, TypeOK
  <1>3. PICK I \in {ItemsAt(S), {}} :
          items' = [i \in DOMAIN items |-> IF i \in I THEN changed(i) ELSE items[i]]
    BY Zenon DEF put_prefix
  <1>4. \A i \in I : \E q \in Full(trie) : trie.data[q] = i
    BY Zenon DEF ItemsAt, Subtree, Full, WithData
  <1>5. \A i \in DOMAIN items : items[i] \in Item
    BY <1>2, SeqElements, Zenon
  <1>6. ttl \in Int /\ th[w].req.val \in Nat /\ Short(ttl) \in Int
    <2>1. th[w].req \in Request
      BY Zenon DEF IInv, TypeOK, Thread
    <2>2. QED
      BY <2>1 DEF Request, Short
  <1> HIDE DEF ttl
  <1>7. \A i \in DOMAIN items :
          /\ changed(i) \in Item /\ changed(i).st = items[i].st
          /\ changed(i).ttl = Short(ttl) /\ changed(i).asked = ttl
    BY <1>5, <1>6, Zenon DEF Item
  <1> HIDE DEF changed
  <1>8. items' \in [DOMAIN items -> Item]
    <2> DEFINE new(i) == IF i \in I THEN changed(i) ELSE items[i]
    <2>1. \A i \in DOMAIN items : new(i) \in Item
      BY <1>5, <1>7, Zenon
    <2>2. items' = [i \in DOMAIN items |-> new(i)]
      BY <1>3, Zenon
    <2> HIDE DEF new
    <2>3. QED
      BY <2>1, <2>2, Zenon
  <1>9. items' \in Seq(Item) /\ DOMAIN items' = DOMAIN items
    BY <1>2, <1>8, SameLength, Zenon
  <1>10. \A i \in DOMAIN items :
           items'[i] = items[i] \/ (i \in I /\ items'[i] = changed(i))
    BY <1>3, Zenon
  <1>11. \A i \in DOMAIN items : items'[i].st = items[i].st
    BY <1>7, <1>10, Zenon
  <1>12. Owned'
    BY <1>1, <1>2, <1>9, <1>11, Zenon DEF Owned, Live
  <1>13. QED
    BY <1>1, <1>2, <1>4, <1>7, <1>9, <1>10, <1>11, <1>12, Zenon DEF Stored, ttl

-----------------------------------------------------------------------------
(* The invariant is inductive *)

\* The steps that change the trie or an item.
Changing(w) == \/ put_insert(w) \/ put_prefix(w) \/ get_expired(w) \/ getp_expired(w)
               \/ del_remove(w) \/ delp_remove(w)

\* Trie and items change in the locked sections only.
LEMMA ChangingSteps ==
  ASSUME NEW w \in Workers, Receive(w) \/ Worker(w)
  PROVE  clock' = clock /\ (Changing(w) \/ UNCHANGED <<trie, items>>)
  BY Zenon DEF Worker, Changing, Receive, put_insert, put_count, put_prefix, get_search, get_item,
     get_expired, get_count, get_pack, getp_search, getp_loop, getp_expired, getp_count,
     getp_tuples, getp_pack, del_remove, del_read, delp_size, delp_remove, delp_read,
     del_write, Crash

\* A removal of one key, by whichever handler.
LEMMA RemovingSteps ==
  ASSUME IInv, NEW w \in Workers, get_expired(w) \/ getp_expired(w) \/ del_remove(w)
  PROVE  /\ Key(w) \in Keys /\ trie' = trie_delete(trie, Key(w))
         /\ items' = Release({Find(Key(w))})
         /\ th[w].pc \in {"del", "get_expired", "getp_expired"}
  BY Zenon DEF get_expired, getp_expired, del_remove, At, IInv, Named

\* Every step keeps the trie well formed and every node's item in memory.
LEMMA StoredStep ==
  ASSUME IInv, [Next]_vars
  PROVE  Stored' /\ DOMAIN items \subseteq DOMAIN items'
  <1>1. Stored /\ DOMAIN items = 1..Len(items)
    BY DEF IInv, TypeOK, Stored
  <1>2. ASSUME NEW w \in Workers, get_expired(w) \/ getp_expired(w) \/ del_remove(w)
        PROVE  Stored' /\ DOMAIN items \subseteq DOMAIN items'
    BY <1>2, RemovingSteps, RemoveStored, Zenon
  <1>3. ASSUME NEW w \in Workers, delp_remove(w)
        PROVE  Stored' /\ DOMAIN items \subseteq DOMAIN items'
    BY <1>3, PrefixRemoveStored, Zenon
  <1>4. ASSUME NEW w \in Workers, put_insert(w)
        PROVE  Stored' /\ DOMAIN items \subseteq DOMAIN items'
    <2>1. Stored' /\ DOMAIN items' = 1..Len(items) + 1 /\ DOMAIN items = 1..Len(items)
      BY <1>4, InsertStored, Zenon
    <2>2. Len(items) \in Nat
      OBVIOUS
    <2>3. QED
      BY <2>1
  <1>5. ASSUME NEW w \in Workers, put_prefix(w)
        PROVE  Stored' /\ DOMAIN items \subseteq DOMAIN items'
    BY <1>5, RewriteStored, Zenon
  <1>6. ASSUME UNCHANGED <<trie, items>>
        PROVE  Stored' /\ DOMAIN items \subseteq DOMAIN items'
    BY <1>1, <1>6, Zenon DEF Stored, Owned, Live
  <1>7. ASSUME NEW w \in Workers, Receive(w) \/ Worker(w)
        PROVE  Changing(w) \/ UNCHANGED <<trie, items>>
    BY <1>7, ChangingSteps, Zenon
  <1>8. QED
    BY <1>2, <1>3, <1>4, <1>5, <1>6, <1>7, Zenon DEF Next, Tick, vars, Changing

\* The counter, the lock, the clock and the number of requests.
LEMMA CountersStep ==
  ASSUME IInv, [Next]_vars
  PROVE  /\ keyspace_size' \in 0..SizeMod - 1 /\ lock' \in Workers \cup {FREE}
         /\ clock' \in Nat /\ sent' \in Nat
  <1>1. /\ keyspace_size \in 0..SizeMod - 1 /\ lock \in Workers \cup {FREE}
        /\ clock \in Nat /\ sent \in Nat
    BY Zenon DEF IInv, TypeOK
  <1>2. \A w \in Workers : /\ (th[w].n + 1) % SizeMod \in 0..SizeMod - 1
                           /\ (th[w].n - 1) % SizeMod \in 0..SizeMod - 1
                           /\ th[w].pc = "del_write" => th[w].n \in 0..SizeMod - 1
    <2>1. \A w \in Workers : th[w].n \in Int
      BY Zenon DEF IInv, TypeOK, Thread
    <2>2. \A w \in Workers : th[w].n + 1 \in Int /\ th[w].n - 1 \in Int
      BY <2>1
    <2>3. QED
      BY <2>2, ModRange, Zenon DEF IInv, Pointers, Points
  <1>3. ASSUME NEW w \in Workers, Receive(w) \/ Worker(w)
        PROVE  /\ \/ keyspace_size' = keyspace_size
                  \/ keyspace_size' = (th[w].n + 1) % SizeMod
                  \/ keyspace_size' = (th[w].n - 1) % SizeMod
                  \/ keyspace_size' = th[w].n /\ th[w].pc = "del_write"
               /\ lock' \in {lock, w, FREE} /\ clock' = clock /\ sent' \in {sent, sent + 1}
    BY <1>3, Zenon DEF Worker, Receive, put_insert, put_count, put_prefix, get_search, get_item,
         get_expired, get_count, get_pack, getp_search, getp_loop, getp_expired, getp_count,
         getp_tuples, getp_pack, del_remove, del_read, delp_size, delp_remove, delp_read,
         del_write, Crash, At
  <1>4. QED
    BY <1>1, <1>2, <1>3 DEF Next, Tick, vars

\* A step of w leaves its locals as they must be.
LEMMA PointsStep ==
  ASSUME IInv, NEW w \in Workers, Worker(w), DOMAIN items \subseteq DOMAIN items'
  PROVE  th' = th \/ (Moved(w) /\ Points(w)' /\ (th'[w].pc # "idle" => th[w].pc # "idle"))
  <1>1. Points(w) /\ TypeOK /\ th \in [Workers -> Thread]
    BY Zenon DEF IInv, Pointers, TypeOK
  <1>2. ASSUME NEW pc, Went(w, pc), th[w].pc # "idle", pc \notin {"get_item", "get_expired", "get_pack",
                   "getp_loop", "getp_expired", "getp_count", "del_write"}
        PROVE  Moved(w) /\ Points(w)' /\ th[w].pc # "idle"
    BY <1>1, <1>2, Zenon DEF Points, Went, SameItem, SameVec
  <1>3. CASE put_insert(w)
    BY <1>1, <1>2, <1>3, PutSteps, Zenon DEF put_insert, At
  <1>4. CASE put_count(w) \/ put_prefix(w)
    BY <1>1, <1>2, <1>4, PutSteps, Zenon DEF put_count, put_prefix, At, Answers
  <1>5. CASE get_search(w)
    <2>1. Key(w) \in Keys /\ th[w].pc = "get"
      BY <1>5, Zenon DEF get_search, At, IInv, Named
    <2>2. GetSearched(w) /\ (Find(Key(w)) # NULL => Find(Key(w)) \in DOMAIN items)
      BY <1>5, <2>1, GetSteps, FindItem, Zenon
    <2>3. CASE Answers(w, <<"nok">>)
      BY <1>2, <2>1, <2>3, Zenon DEF Answers
    <2>4. CASE ~Answers(w, <<"nok">>)
      BY <1>1, <2>1, <2>2, <2>4, Zenon DEF GetSearched, Points, SameVec
    <2>5. QED
      BY <2>3, <2>4, Zenon
  <1>6. CASE get_item(w)
    <2>1. GetTested(w) /\ th[w].pc = "get_item" /\ th[w].item \in DOMAIN items'
      BY <1>1, <1>6, GetSteps, Zenon DEF get_item, At, Points
    <2>2. QED
      BY <1>1, <2>1, Zenon DEF GetTested, Points, Went, SameItem, SameVec, Crash
  <1>7. CASE get_expired(w)
    BY <1>2, <1>7, GetSteps, ZenonT(30) DEF get_expired, At
  <1>8. CASE get_count(w)
    BY <1>2, <1>8, GetSteps, Zenon DEF get_count, At, Answers
  <1>9. CASE get_pack(w)
    BY <1>2, <1>9, GetSteps, Zenon DEF get_pack, GetPacked, At, Answers, Crash
  <1>10. CASE getp_search(w)
    <2>1. Key(w) \in Keys /\ th[w].pc = "getp" /\ PrefixSearched(w)
      BY <1>10, PrefixGetSteps, Zenon DEF getp_search, At, IInv, Named
    <2>2. CASE Crash("null vector")
      BY <2>2, Zenon DEF Crash
    <2>3. CASE ~Crash("null vector")
      <3>1. PICK s \in WalkOrders(WithData(trie, Subtree(trie, Key(w)))) :
              /\ th'[w].vec = [j \in DOMAIN s |-> [key |-> s[j], item |-> trie.data[s[j]],
                                                   val |-> 0]]
              /\ Moved(w) /\ th'[w].item = th[w].item /\ th'[w].pc = "getp_loop"
              /\ th'[w].i = 1
        BY <2>1, <2>3, Zenon DEF PrefixSearched
      <3>2. \A j \in DOMAIN th'[w].vec : th'[w].vec[j].item \in DOMAIN items
        BY <2>1, <3>1, SearchedVec, ZenonT(30)
      <3>3. QED
        BY <2>1, <3>1, <3>2 DEF Points
    <2>4. QED
      BY <2>2, <2>3, Zenon
  <1>11. CASE getp_loop(w)
    <2>1. th[w].i \in Nat /\ Len(th[w].vec) \in Nat
      BY <1>1 DEF Thread
    <2>2. /\ PrefixTested(w) /\ th[w].pc = "getp_loop"
          /\ th[w].i <= Len(th[w].vec) /\ th[w].i > 0
      BY <1>1, <1>11, PrefixGetSteps, Zenon DEF getp_loop, At, Points
    <2>3. QED
      BY <1>1, <2>1, <2>2 DEF PrefixTested, Points, Went, SameVec, Crash
  <1>12. CASE getp_expired(w)
    <2>1. Went(w, "getp_count") /\ th[w].pc = "getp_expired"
      BY <1>12, PrefixGetSteps, ZenonT(30) DEF getp_expired, At
    <2>2. QED
      BY <1>1, <2>1, Zenon DEF Points, Went, SameItem, SameVec
  <1>13. CASE getp_count(w)
    <2> DEFINE T == {u \in Tuple : u.item \in DOMAIN items}
    <2>1. /\ Moved(w) /\ th'[w].pc = "getp_loop" /\ th'[w].i = th[w].i + 1
          /\ th'[w].vec = RemoveAt(th[w].vec, th[w].i) /\ th[w].pc = "getp_count"
      BY <1>13, PrefixGetSteps, Zenon DEF getp_count, At
    <2>2. th[w].vec \in Seq(Tuple) /\ th[w].i \in 1..Len(th[w].vec)
      BY <1>1, <2>1, Zenon DEF Points, Thread
    <2>3. th[w].vec \in Seq(T)
      <3>1. \A j \in DOMAIN th[w].vec : th[w].vec[j] \in T
        BY <1>1, <2>2, SeqElements, Zenon DEF Points
      <3> HIDE DEF T
      <3>2. QED
        BY <2>2, <3>1
    <2>4. th'[w].vec \in Seq(T)
      BY <2>1, <2>2, <2>3, RemoveAtType, Zenon
    <2>5. \A j \in DOMAIN th'[w].vec : th'[w].vec[j].item \in DOMAIN items
      <3>1. \A j \in DOMAIN th'[w].vec : th'[w].vec[j] \in T
        BY <2>4
      <3>2. QED
        BY <3>1, Zenon
    <2>6. QED
      BY <2>1, <2>2, <2>5 DEF Points
  <1>14. CASE getp_tuples(w)
    <2>1. PrefixTuples(w) /\ th[w].pc = "getp_loop" /\ th[w].vec \in Seq(Tuple)
      BY <1>1, <1>14, PrefixGetSteps, Zenon DEF getp_tuples, At, Thread
    <2>2. \A j \in DOMAIN th[w].vec : th[w].vec[j] \in Tuple
      BY <2>1, SeqElements, Zenon
    <2>3. \A j \in DOMAIN th[w].vec :
            [th[w].vec[j] EXCEPT !.val = items[th[w].vec[j].item].val].item = th[w].vec[j].item
      BY <2>2, Zenon DEF Tuple
    <2>4. QED
      BY <1>1, <2>1, <2>3, Zenon DEF PrefixTuples, Points, Crash
  <1>15. CASE getp_pack(w)
    BY <1>2, <1>15, PrefixGetSteps, Zenon DEF getp_pack, PrefixPacked, At, Answers, Crash
  <1>16. CASE del_remove(w)
    BY <1>1, <1>2, <1>16, DelSteps, ZenonT(30) DEF del_remove, At, Answers
  <1>17. CASE del_read(w) \/ delp_read(w)
    <2>1. /\ keyspace_size - 1 \in Int
          /\ keyspace_size - (th[w].n - trie.size) \in Int
      <3>1. keyspace_size \in Int /\ trie.size \in Int
        BY <1>1 DEF TypeOK, WellFormed
      <3>2. th[w].n \in Int
        BY <1>1, Zenon DEF Thread
      <3>3. QED
        BY <3>1, <3>2
    <2>2. Went(w, "del_write") /\ th'[w].n \in 0..SizeMod - 1
      BY <1>1, <1>17, <2>1, DelSteps, ModRange, Zenon
    <2>3. th[w].pc # "idle"
      BY <1>17, Zenon DEF del_read, delp_read, At
    <2>4. QED
      BY <1>1, <2>2, <2>3, Zenon DEF Points, Went, SameVec
  <1>18. CASE delp_size(w)
    BY <1>1, <1>2, <1>18, DelSteps, Zenon DEF delp_size, At
  <1>19. CASE delp_remove(w)
    BY <1>1, <1>2, <1>19, DelSteps, Zenon DEF delp_remove, At
  <1>20. CASE del_write(w)
    BY <1>1, <1>2, <1>20, DelSteps, Zenon DEF del_write, At, Answers
  <1>21. QED
    BY <1>3, <1>4, <1>5, <1>6, <1>7, <1>8, <1>9, <1>10, <1>11, <1>12, <1>13, <1>14, Zenon,
       <1>15, <1>16, <1>17, <1>18, <1>19, <1>20 DEF Worker

\* Every step keeps the locals of the workers well typed.
LEMMA ThreadsStep ==
  ASSUME IInv, [Next]_vars, DOMAIN items \subseteq DOMAIN items'
  PROVE  th' \in [Workers -> Thread] /\ Named' /\ Pointers'
  <1>1. th \in [Workers -> Thread] /\ Named /\ Pointers
    BY Zenon DEF IInv, TypeOK
  <1>2. ASSUME th' = th PROVE th' \in [Workers -> Thread] /\ Named' /\ Pointers'
    BY <1>1, <1>2, Zenon DEF Named, Pointers, Points, Key
  <1>3. ASSUME NEW w \in Workers, th' \in [Workers -> Thread], OnlyThread(w), Points(w)',
               th'[w].pc # "idle" => Key(w)' \in Keys
        PROVE  Named' /\ Pointers'
    <2>1. \A v \in Workers \ {w} : Points(v)'
      BY <1>1, <1>3, Zenon DEF OnlyThread, Pointers, Points
    <2>2. QED
      BY <1>1, <1>3, <2>1, Zenon DEF OnlyThread, Pointers, Named, Key
  <1>4. ASSUME NEW w \in Workers, Receive(w)
        PROVE  th' \in [Workers -> Thread] /\ Named' /\ Pointers'
    <2>1. /\ th' \in [Workers -> Thread] /\ OnlyThread(w) /\ Key(w)' \in Keys
          /\ th'[w].pc \in Ops /\ th'[w].vec = <<>>
      BY <1>4, ReceiveTypes, Zenon
    <2>2. Points(w)'
      BY <2>1, OpsAssumption DEF Points
    <2>3. QED
      BY <1>3, <2>1, <2>2, Zenon
  <1>5. ASSUME NEW w \in Workers, Worker(w)
        PROVE  th' \in [Workers -> Thread] /\ Named' /\ Pointers'
    <2>1. th' = th \/ (Moved(w) /\ Points(w)' /\ (th'[w].pc # "idle" => th[w].pc # "idle"))
      BY <1>5, PointsStep, Zenon
    <2>2. QED
      BY <1>1, <1>2, <1>3, <2>1, Zenon DEF Moved, Named, Key
  <1>6. QED
    BY <1>2, <1>4, <1>5, Zenon DEF Next, Tick, vars

\* The invariant holds at the start.
LEMMA InitIInv == Init => IInv
  <1> SUFFICES ASSUME Init PROVE IInv
    OBVIOUS
  <1>1. WellFormed(trie) /\ Full(trie) = {}
    BY NewWellFormed, Zenon DEF Init
  <1>2. th \in [Workers -> Thread] /\ \A w \in Workers : th[w] = Idle
    BY IdleType, Zenon DEF Init
  <1>3. items \in Seq(Item)
    BY DEF Init
  <1>4. TypeOK
    BY <1>1, <1>2, BoundsAssumption DEF Init, TypeOK
  <1>5. Named /\ Pointers
    BY <1>2 DEF Named, Pointers, Points, Idle
  <1>6. Owned
    BY <1>1, Zenon DEF Owned
  <1>7. QED
    BY <1>4, <1>5, <1>6, Zenon DEF IInv

\* Every step preserves the invariant.
LEMMA NextIInv == IInv /\ [Next]_vars => IInv'
  <1> SUFFICES ASSUME IInv, [Next]_vars PROVE IInv'
    OBVIOUS
  <1>1. Stored' /\ DOMAIN items \subseteq DOMAIN items'
    BY StoredStep, Zenon
  <1>2. th' \in [Workers -> Thread] /\ Named' /\ Pointers'
    BY <1>1, ThreadsStep, Zenon
  <1>3. QED
    BY <1>1, <1>2, CountersStep, Zenon DEF IInv, TypeOK, Stored

\* The inductive invariant of the data commands: everything is well typed, the
\* trie is well formed, the keys of the trie are keys that requests name, each
\* with an allocated item of its own, and what a worker carries between two
\* sections points to items that were allocated at some time.
THEOREM KeyspaceInvariant == Spec => []IInv
  BY InitIInv, NextIInv, PTL DEF Spec

\* With any number of workers, requests and keys, at every step of the handlers
\* the item of a key is allocated and no other key's, and size covers the keys,
\* although the handlers release the lock between their calls.
THEOREM KeyspaceSafety == Spec => []TrieConsistent
  <1>1. IInv => TrieConsistent
    BY Zenon DEF IInv, TypeOK, WellFormed, Owned, TrieConsistent, Full
  <1>2. QED
    BY <1>1, KeyspaceInvariant, PTL

\* A step that takes a key away is one that names it.
LEMMA LosingStep ==
  ASSUME IInv, [Next]_vars, NEW k \in Full(trie) \ Full(trie)'
  PROVE  \E w \in Workers :
           \/ th[w].pc \in {"del", "get_expired", "getp_expired"} /\ Key(w) = k
           \/ th[w].pc = "delp_remove" /\ IsPrefix(Key(w), k)
  <1>1. trie' # trie
    OBVIOUS
  <1>2. PICK w \in Workers : Changing(w)
    BY <1>1, ChangingSteps, Zenon DEF Next, Tick, vars
  <1>3. CASE get_expired(w) \/ getp_expired(w) \/ del_remove(w)
    BY <1>3, RemovingSteps, RemoveStored, Zenon
  <1>4. CASE delp_remove(w)
    BY <1>4, PrefixRemoveStored, Zenon DEF delp_remove, At
  <1>5. CASE put_insert(w)
    BY <1>5, InsertStored, Zenon
  <1>6. CASE put_prefix(w)
    BY <1>1, <1>6, RewriteStored, Zenon
  <1>7. QED
    BY <1>2, <1>3, <1>4, <1>5, <1>6, Zenon DEF Changing

\* NoKeyLost holds: whatever the workers interleave, no PUT, no lookup and no
\* count loses a key that it does not name.
THEOREM KeysKept == Spec => NoKeyLost
  <1>1. ASSUME IInv, IInv', [Next]_vars, NEW k \in Keys, Find(k) # NULL, Find(k)' = NULL
        PROVE  \E w \in Workers :
                 \/ th[w].pc \in {"del", "get_expired", "getp_expired"} /\ Key(w) = k
                 \/ th[w].pc = "delp_remove" /\ IsPrefix(Key(w), k)
    <2>1. k \in Full(trie)
      BY <1>1, FindItem, Zenon
    <2>2. k \notin Full(trie)'
      <3>1. WellFormed(trie') /\ k \in Seq(Char)
        BY <1>1, KeysAssumption, Zenon DEF IInv, TypeOK
      <3>2. trie_find(trie', k) = IF k \in DOMAIN trie'.data THEN trie'.data[k] ELSE NULL
        BY <3>1, WalkFindsNode, Zenon
      <3>3. QED
        BY <1>1, <3>2, Zenon DEF Find, Full, WithData
    <2>3. QED
      BY <1>1, <2>1, <2>2, LosingStep, Zenon
  <1>2. IInv /\ IInv' /\ [Next]_vars =>
          [\A k \in Keys :
             Find(k) # NULL /\ Find(k)' = NULL =>
               \E w \in Workers :
                 \/ th[w].pc \in {"del", "get_expired", "getp_expired"} /\ Key(w) = k
                 \/ th[w].pc = "delp_remove" /\ IsPrefix(Key(w), k)]_vars
    BY <1>1, Zenon
  <1>3. QED
    BY <1>2, KeyspaceInvariant, PTL DEF Spec, NoKeyLost
=============================================================================
