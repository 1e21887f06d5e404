---------------------------- MODULE PartsProofs -----------------------------
(***************************************************************************)
(* Proofs about the smaller parts: the end of the threads (Shutdown), the  *)
(* lookup in the hash ring (RingOps), the array of vector.c (Vector) and   *)
(* the count that the cluster bus keeps (Bus).  Each is proved for every   *)
(* value of its constants: pools and clusters of any size, rings of any    *)
(* length, vectors of any capacity.                                        *)
(***************************************************************************)
EXTENDS Shutdown, RingOps, Vector, Bus, WellFoundedInduction, FiniteSetTheorems, TLAPS

-----------------------------------------------------------------------------
(* The end of the threads *)

Pools == IO \cup Workers

ShutTypes ==
  /\ pc \in [Threads -> {"wait", "busy", "quit", "join", "free", "done"}]
  /\ dbs \in {"live", "freed"}

\* Once the main thread is past its joins no thread of a pool runs, and the
\* databases are released by its last step.
Joined ==
  /\ pc[Main] \in {"free", "done"} => \A t \in Pools : pc[t] = "done"
  /\ dbs = "freed" => pc[Main] = "done"

ShutInv == ShutTypes /\ Joined

\* The main thread is in no pool, and every other thread is in one.
LEMMA ThreadSets ==
  Main \in Threads /\ Main \notin Pools /\ Threads = {Main} \cup Pools
  BY ThreadsAssumption DEF Threads, Pools

\* The invariant holds at the start.
LEMMA ShutStarts == Init => ShutInv
  BY ThreadSets, Zenon DEF Init, ShutInv, ShutTypes, Joined, Pools

\* A thread that still runs, whichever it is, takes no pool thread back from
\* its end and brings the main thread no further than the join.
LEMMA ShutStep ==
  ASSUME ShutInv, NEW t \in Threads, Step(t)
  PROVE  ShutInv'
  <1> USE ThreadSets
  <1>1. CASE Serve(t) \/ Finish(t) \/ Wake(t)
    <2>1. PICK s \in {"wait", "busy", "quit"} :
            /\ pc[t] \in {"wait", "busy"} /\ pc' = [pc EXCEPT ![t] = s]
            /\ dbs' = dbs
      BY <1>1, Zenon DEF Serve, Finish, Wake
    <2>2. QED
      BY <2>1, Zenon DEF ShutInv, ShutTypes, Joined
  <1>2. CASE Quit(t)
    <2>1. /\ pc[t] = "quit" /\ dbs' = dbs
          /\ pc' = [pc EXCEPT ![t] = IF t = Main THEN "join" ELSE "done"]
      BY <1>2, Zenon DEF Quit
    <2>2. QED
      BY <2>1, Zenon DEF ShutInv, ShutTypes, Joined
  <1>3. QED
    BY <1>1, <1>2, Zenon DEF Step

\* Every step preserves the invariant, one case per action.
LEMMA ShutNext == ShutInv /\ [Next]_vars => ShutInv'
  <1> SUFFICES ASSUME ShutInv, [Next]_vars PROVE ShutInv'
    OBVIOUS
  <1>1. ASSUME NEW t \in Threads, Step(t) PROVE ShutInv'
    BY <1>1, ShutStep, Zenon
  <1>2. CASE Join
    BY <1>2, ThreadSets, Zenon DEF Join, ShutInv, ShutTypes, Joined, Pools
  <1>3. CASE Destroy
    BY <1>3, ThreadSets, Zenon DEF Destroy, ShutInv, ShutTypes, Joined
  <1>4. CASE UNCHANGED <<pc, dbs>>
    BY <1>4, Zenon DEF ShutInv, ShutTypes, Joined
  <1>5. QED
    BY <1>1, <1>2, <1>3, <1>4, Zenon DEF Next, vars, Signal, Write

\* start_server releases the databases only when every thread of both pools
\* has ended, in whatever order the threads see the eventfd and however many
\* of them there are.
THEOREM DestroysAfterJoin == Spec => []DestroyAfterJoin
  <1>1. ShutInv => DestroyAfterJoin
    BY ThreadSets DEF ShutInv, Joined, DestroyAfterJoin
  <1>2. QED
    BY <1>1, ShutStarts, ShutNext, PTL DEF Spec

-----------------------------------------------------------------------------
(* The hash ring *)

\* A set of naturals that is not empty has a least element.
LEMMA Least ==
  ASSUME NEW S, S \subseteq Nat, S # {}
  PROVE  \E i \in S : \A j \in S : i <= j
<1> DEFINE R == OpToRel(<, Nat)
<1>1. \A a, b \in Nat : a < b => <<a, b>> \in R
      BY DEF OpToRel
<1>2. IsWellFoundedOn(R, Nat)
      BY NatLessThanWellFounded, Zenon
<1> HIDE DEF R
<1>3. PICK i \in S : \A j \in S : ~(<<j, i>> \in R)
      BY <1>2, WFMin, Zenon
<1>4. \A j \in S : ~(j < i)
      BY <1>1, <1>3, Zenon
<1> QED BY <1>4

\* A ring as insert_node leaves it: nodes in the order of their bounds.
IsRing(ring) ==
  /\ Len(ring) \in Nat \ {0}
  /\ \A i \in 1..Len(ring) : ring[i].upper_bound \in Nat
  /\ \A i, j \in 1..Len(ring) : i < j => ring[i].upper_bound <= ring[j].upper_bound

\* The walk of cluster_get_node ends.
LEMMA WalkEnds ==
  ASSUME NEW ring, IsRing(ring), NEW h \in Nat
  PROVE  LET i == StopAt(ring, h)
         IN  /\ i \in 1..Len(ring)
             /\ i = Len(ring) \/ ring[i + 1].upper_bound >= h
             /\ \A j \in 1..i - 1 : ring[j + 1].upper_bound < h
<1> DEFINE S == {i \in 1..Len(ring) : i = Len(ring) \/ ring[i + 1].upper_bound >= h}
<1>1. S \subseteq Nat /\ S # {}
      BY DEF IsRing
<1>2. PICK i \in S : \A j \in S : i <= j
      BY <1>1, Least, Zenon
<1>3. \A j \in 1..i - 1 : ring[j + 1].upper_bound < h
  <2> SUFFICES ASSUME NEW j \in 1..i - 1 PROVE ring[j + 1].upper_bound < h
      OBVIOUS
  <2>1. j \in 1..Len(ring) /\ j # Len(ring) /\ j + 1 \in 1..Len(ring) /\ j \notin S
        BY <1>2
  <2> QED BY <2>1 DEF IsRing
<1>4. \E k \in 1..Len(ring) :
        /\ k = Len(ring) \/ ring[k + 1].upper_bound >= h
        /\ \A j \in 1..k - 1 : ring[j + 1].upper_bound < h
      BY <1>3, Zenon
<1> QED BY <1>4, Zenon DEF StopAt

\* What the walk and the tests after it find: the first node whose bound is not
\* below the hash, or the first one of all.
LEMMA LookupIsFirst ==
  ASSUME NEW ring, IsRing(ring), NEW h \in Nat
  PROVE  \E i \in 1..Len(ring) :
           /\ cluster_get_node(ring, h) = ring[i]
           /\ \/ /\ ring[i].upper_bound >= h
                 /\ \A j \in 1..i - 1 : ring[j].upper_bound < h
              \/ i = 1 /\ \A j \in 1..Len(ring) : ring[j].upper_bound < h
<1> DEFINE cur == StopAt(ring, h)
           n == Len(ring)
           ub(i) == ring[i].upper_bound
<1>1. /\ cur \in 1..n /\ n \in Nat
      /\ cur = n \/ ub(cur + 1) >= h
      /\ \A j \in 1..cur - 1 : ub(j + 1) < h
      BY WalkEnds, Zenon DEF IsRing
<1>2. cluster_get_node(ring, h) =
        IF n = 1 THEN ring[1]
        ELSE IF cur = n /\ ub(cur) < h THEN ring[1]
        ELSE IF h > ub(cur) THEN ring[cur + 1] ELSE ring[cur]
      BY Zenon DEF cluster_get_node
<1>3. /\ \A i \in 1..n : ub(i) \in Nat
      /\ \A i, j \in 1..n : i < j => ub(i) <= ub(j)
      BY Zenon DEF IsRing
<1>4. \A j \in 2..cur : ub(j) < h
  <2> SUFFICES ASSUME NEW j \in 2..cur PROVE ub(j) < h
      OBVIOUS
  <2>1. j - 1 \in 1..cur - 1 /\ (j - 1) + 1 = j
        BY <1>1
  <2> QED BY <1>1, <2>1, Zenon
<1> HIDE DEF cur, n, ub
<1>5. CASE n = 1
      BY <1>2, <1>3, <1>5 DEF n, ub
<1>6. CASE n # 1 /\ cur = n /\ ub(cur) < h
  <2>1. \A j \in 1..n : ub(j) < h
        BY <1>1, <1>3, <1>6
  <2> QED BY <1>1, <1>2, <2>1 DEF n, ub
<1>7. CASE n # 1 /\ ~(cur = n /\ ub(cur) < h) /\ h > ub(cur)
  <2>1. cur + 1 \in 1..n /\ ub(cur + 1) >= h
        BY <1>1, <1>7
  <2>2. \A j \in 1..(cur + 1) - 1 : ub(j) < h
        BY <1>1, <1>3, <1>7
  <2> QED BY <1>2, <1>7, <2>1, <2>2, Zenon DEF n, ub
<1>8. CASE n # 1 /\ ~(cur = n /\ ub(cur) < h) /\ ~(h > ub(cur))
  <2>1. cur = 1 /\ ub(cur) >= h
        BY <1>1, <1>3, <1>8
  <2> QED BY <1>1, <1>2, <1>8, <2>1 DEF n, ub
<1> QED BY <1>5, <1>6, <1>7, <1>8, Zenon

\* cluster_get_node finds the first node at or after the hash, going round, in
\* every ring that is in order, of any size and with any bounds that coincide.
THEOREM LookupFindsSuccessor ==
  ASSUME NEW ring, IsRing(ring), NEW h \in Nat
  PROVE  IsSuccessor(ring, h, cluster_get_node(ring, h))
<1>1. PICK i \in 1..Len(ring) :
        /\ cluster_get_node(ring, h) = ring[i]
        /\ \/ /\ ring[i].upper_bound >= h
              /\ \A j \in 1..i - 1 : ring[j].upper_bound < h
           \/ i = 1 /\ \A j \in 1..Len(ring) : ring[j].upper_bound < h
      BY LookupIsFirst, Zenon
<1> DEFINE after == {k \in 1..Len(ring) : ring[k].upper_bound >= h}
<1>2. IF after = {} THEN \A j \in 1..Len(ring) : ring[i].upper_bound <= ring[j].upper_bound
      ELSE i \in after /\ \A j \in after : ring[i].upper_bound <= ring[j].upper_bound
      BY <1>1, SMTT(30) DEF IsRing
<1> QED BY <1>1, <1>2, Zenon DEF IsSuccessor

\* The ring `new` is `ring` with one more node, at place k.
Inserted(ring, k, new) ==
  /\ k \in 1..Len(new) /\ Len(new) = Len(ring) + 1
  /\ \A i \in 1..k - 1 : new[i] = ring[i]
  /\ \A i \in k..Len(ring) : new[i + 1] = ring[i]

\* Consistent hashing: when insert_node puts a point anywhere in a ring, every
\* hash stays with the node it belonged to or moves to the new one.
THEOREM OnlyNewcomerGains ==
  ASSUME NEW ring, IsRing(ring), NEW new, IsRing(new), NEW k, Inserted(ring, k, new), NEW h \in Nat
  PROVE  cluster_get_node(new, h) \in {cluster_get_node(ring, h), new[k]}
<1> DEFINE ub(r, i) == r[i].upper_bound
           At(r, i) == /\ i \in 1..Len(r) /\ cluster_get_node(r, h) = r[i]
                       /\ \/ ub(r, i) >= h /\ \A j \in 1..i - 1 : ub(r, j) < h
                          \/ i = 1 /\ \A j \in 1..Len(r) : ub(r, j) < h
           First(i) == ub(ring, i) >= h /\ \A j \in 1..i - 1 : ub(ring, j) < h
<1>1. /\ \E i : At(ring, i)
      /\ \E i : At(new, i)
      BY LookupIsFirst, Zenon
<1>2. PICK i : At(ring, i)
      BY <1>1, Zenon
<1>3. PICK m : At(new, m)
      BY <1>1, Zenon
<1>4. /\ Len(ring) \in Nat \ {0} /\ Len(new) = Len(ring) + 1 /\ k \in 1..Len(new)
      /\ i \in 1..Len(ring) /\ m \in 1..Len(new)
      /\ \A j \in 1..Len(ring) : ub(ring, j) \in Nat
      /\ \A j \in 1..Len(new) : ub(new, j) \in Nat
      BY <1>2, <1>3, Zenon DEF IsRing, Inserted
<1>5. /\ \A j \in 1..k - 1 : new[j] = ring[j]
      /\ \A j \in k..Len(ring) : new[j + 1] = ring[j]
      BY Zenon DEF Inserted
<1>6. \A a \in 1..Len(ring) : First(a) => i = a
  <2> SUFFICES ASSUME NEW a \in 1..Len(ring), First(a) PROVE i = a
      OBVIOUS
  <2>1. ub(ring, i) \in Nat /\ ub(ring, a) \in Nat
        BY <1>4, Zenon
  <2>2. First(i)
        BY <1>2, <2>1
  <2>3. a \notin 1..i - 1
        BY <2>1, <2>2
  <2>4. i \notin 1..a - 1
        BY <2>1, <2>2
  <2> QED BY <1>4, <2>3, <2>4
<1>7. CASE m = k
      BY <1>3, <1>7, Zenon
<1>8. CASE m < k
  <2>1. m \in 1..k - 1 /\ m \in 1..Len(ring) /\ new[m] = ring[m]
        BY <1>4, <1>5, <1>8
  <2>2. \A j \in 1..m : new[j] = ring[j]
        BY <1>4, <1>5, <1>8
  <2>3. CASE ub(new, m) >= h /\ \A j \in 1..m - 1 : ub(new, j) < h
    <3>1. ub(ring, m) >= h /\ \A j \in 1..m - 1 : ub(ring, j) < h
      <4>1. m \in 1..m /\ \A j \in 1..m - 1 : j \in 1..m
            BY <1>4
      <4>2. \A j \in 1..m : ub(new, j) = ub(ring, j)
            BY <2>2, Zenon
      <4> QED BY <2>3, <4>1, <4>2, Zenon
    <3>2. i = m
          BY <1>6, <2>1, <3>1, Zenon
    <3> QED BY <1>2, <1>3, <2>1, <3>2, Zenon
  <2>4. CASE m = 1 /\ \A j \in 1..Len(new) : ub(new, j) < h
    <3>1. \A j \in 1..Len(ring) : ub(ring, j) < h
      <4> SUFFICES ASSUME NEW j \in 1..Len(ring) PROVE ub(ring, j) < h
          OBVIOUS
      <4>1. j \in 1..k - 1 \/ j \in k..Len(ring)
            BY <1>4
      <4>2. j \in 1..Len(new) /\ j + 1 \in 1..Len(new)
            BY <1>4
      <4> QED BY <1>5, <2>4, <4>1, <4>2, Zenon
    <3>2. i = 1
          BY <1>2, <1>4, <3>1
    <3> QED BY <1>2, <1>3, <2>1, <2>4, <3>2, Zenon
  <2> QED BY <1>3, <2>3, <2>4, Zenon
<1>9. CASE m > k
  <2>1. m - 1 \in k..Len(ring) /\ (m - 1) + 1 = m /\ m # 1 /\ m - 1 \in 1..Len(ring)
        BY <1>4, <1>9
  <2>2. ring[m - 1] = new[m] /\ ub(new, m) >= h /\ \A j \in 1..m - 1 : ub(new, j) < h
        BY <1>3, <1>5, <2>1, Zenon
  <2>3. \A j \in 1..(m - 1) - 1 : ub(ring, j) < h
    <3> SUFFICES ASSUME NEW j \in 1..(m - 1) - 1 PROVE ub(ring, j) < h
        OBVIOUS
    <3>1. j \in 1..k - 1 \/ j \in k..Len(ring)
          BY <1>4
    <3>2. j \in 1..m - 1 /\ j + 1 \in 1..m - 1
          BY <1>4
    <3> QED BY <1>5, <2>2, <3>1, <3>2, Zenon
  <2>4. i = m - 1
        BY <1>6, <2>1, <2>2, <2>3, Zenon
  <2> QED BY <1>2, <1>3, <2>2, <2>4, Zenon
<1> QED BY <1>4, <1>7, <1>8, <1>9

-----------------------------------------------------------------------------
(* The array *)

\* The array and the sequence have their types; what is stored is in the array,
\* which has room for it and is never empty.
Stored ==
  /\ maxsize \in Nat \ {0} /\ items \in Seq(Values \cup {NULL}) /\ Len(items) = maxsize
  /\ content \in Seq(Values) /\ size = Len(content)
  /\ failed \in BOOLEAN /\ overrun \in BOOLEAN
  /\ overrun => failed
  /\ ~overrun => size <= maxsize /\ \A i \in 1..size : items[i] = content[i]

\* A sequence with one entry replaced.
LEMMA Replaced ==
  ASSUME NEW S, NEW s \in Seq(S), NEW k \in DOMAIN s, NEW v \in S
  PROVE  LET t == [s EXCEPT ![k] = v]
         IN  /\ t \in Seq(S) /\ Len(t) = Len(s) /\ t[k] = v
             /\ \A i \in DOMAIN s : i # k => t[i] = s[i]
OBVIOUS

\* A sequence with one entry taken out.
LEMMA TakenOut ==
  ASSUME NEW S, NEW s \in Seq(S), NEW k \in 1..Len(s)
  PROVE  LET t == RemoveAt(s, k)
         IN  /\ t \in Seq(S) /\ Len(t) = Len(s) - 1
             /\ \A j \in 1..Len(s) - 1 : t[j] = IF j < k THEN s[j] ELSE s[j + 1]
<1> DEFINE a == SubSeq(s, 1, k - 1)
           b == SubSeq(s, k + 1, Len(s))
<1>1. /\ a \in Seq(S) /\ Len(a) = k - 1 /\ \A j \in 1..k - 1 : a[j] = s[j]
      /\ b \in Seq(S) /\ Len(b) = Len(s) - k /\ \A j \in 1..Len(s) - k : b[j] = s[k + j]
      OBVIOUS
<1> HIDE DEF a, b
<1>2. /\ a \o b \in Seq(S) /\ Len(a \o b) = Len(s) - 1
      /\ \A j \in 1..Len(s) - 1 : (a \o b)[j] = IF j <= k - 1 THEN a[j] ELSE b[j - (k - 1)]
  <2>1. /\ a \o b \in Seq(S) /\ Len(a \o b) = Len(a) + Len(b)
        /\ \A j \in 1..Len(a) + Len(b) :
             (a \o b)[j] = IF j <= Len(a) THEN a[j] ELSE b[j - Len(a)]
    <3>1. a \in Seq(S) /\ b \in Seq(S)
          BY <1>1, Zenon
    <3> QED BY <3>1
  <2> QED BY <1>1, <2>1
<1>3. \A j \in 1..Len(s) - 1 : (a \o b)[j] = IF j < k THEN s[j] ELSE s[j + 1]
  <2> SUFFICES ASSUME NEW j \in 1..Len(s) - 1
               PROVE  (a \o b)[j] = IF j < k THEN s[j] ELSE s[j + 1]
      BY Zenon
  <2>1. CASE j < k
        BY <1>1
  <2>2. CASE ~(j < k)
    <3>1. j - (k - 1) \in 1..Len(s) - k /\ k + (j - (k - 1)) = j + 1
          BY <2>2
    <3> QED BY <1>1, <1>2
  <2> QED BY <2>1, <2>2, Zenon
<1> QED BY <1>2, <1>3, Zenon DEF RemoveAt, a, b

\* vector_resize gives an array of the new size that keeps what fits, or it
\* fails and changes nothing.
LEMMA VectorResized ==
  ASSUME NEW a \in Seq(Values \cup {NULL}), NEW n \in Nat, NEW ok \in BOOLEAN
  PROVE  \E b \in Seq(Values \cup {NULL}) :
           /\ Resized(a, Len(a), n, ok) = <<b, Len(b)>>
           /\ (ok => Len(b) = n) /\ (~ok => Len(b) = Len(a))
           /\ \A i \in 1..Len(a) : i <= Len(b) => b[i] = a[i]
<1>1. CASE ~ok
      BY <1>1, Zenon DEF Resized
<1>2. CASE ok
  <2> DEFINE b == [i \in 1..n |-> IF i <= Len(a) THEN a[i] ELSE NULL]
  <2>1. b \in Seq(Values \cup {NULL}) /\ Len(b) = n /\ \A i \in 1..Len(a) : i <= n => b[i] = a[i]
        OBVIOUS
  <2>2. Resized(a, Len(a), n, ok) = <<b, Len(b)>>
        BY <1>2, <2>1, Zenon DEF Resized
  <2> HIDE DEF b
  <2> QED BY <1>2, <2>1, <2>2, Zenon
<1> QED BY <1>1, <1>2, Zenon

\* vector_append writes behind the last element, in an array that has grown if
\* it was full.
LEMMA VectorAppends ==
  ASSUME Stored, ~overrun, NEW v \in Values, NEW ok \in BOOLEAN, vector_append(v, ok)
  PROVE  Stored'
<1> DEFINE full == maxsize = size
           r == IF full THEN Resized(items, maxsize, maxsize * 2, ok) ELSE <<items, maxsize>>
<1>1. /\ maxsize \in Nat \ {0} /\ items \in Seq(Values \cup {NULL}) /\ Len(items) = maxsize
      /\ size \in Nat /\ size <= maxsize /\ \A i \in 1..size : items[i] = content[i]
      /\ content \in Seq(Values) /\ size = Len(content) /\ failed \in BOOLEAN
      BY DEF Stored
<1>2. PICK b \in Seq(Values \cup {NULL}) :
        /\ r = <<b, Len(b)>> /\ Len(b) \in Nat \ {0} /\ (~(full /\ ~ok) => Len(b) > size)
        /\ Len(b) >= maxsize /\ \A i \in 1..size : b[i] = items[i]
  <2>1. CASE full
    <3>1. maxsize * 2 \in Nat /\ maxsize * 2 > maxsize
          BY <1>1
    <3>2. PICK b \in Seq(Values \cup {NULL}) :
             /\ Resized(items, Len(items), maxsize * 2, ok) = <<b, Len(b)>>
             /\ (ok => Len(b) = maxsize * 2) /\ (~ok => Len(b) = Len(items))
             /\ \A i \in 1..Len(items) : i <= Len(b) => b[i] = items[i]
          BY <1>1, <3>1, VectorResized, ZenonT(60)
    <3>3. r = <<b, Len(b)>>
          BY <1>1, <2>1, <3>2, Zenon
    <3>4. /\ Len(b) \in Nat \ {0} /\ (~(full /\ ~ok) => Len(b) > size)
          /\ Len(b) >= maxsize /\ \A i \in 1..size : b[i] = items[i]
          BY <1>1, <3>2
    <3> QED BY <3>3, <3>4, Zenon
  <2>2. CASE ~full
    <3>1. r = <<items, Len(items)>>
          BY <1>1, <2>2, Zenon
    <3> HIDE DEF r
    <3> QED BY <1>1, <2>2, <3>1
  <2> QED BY <2>1, <2>2, Zenon
<1>3. /\ items' = IF size + 1 \in DOMAIN b THEN [b EXCEPT ![size + 1] = v] ELSE b
      /\ overrun' = (size + 1 \notin DOMAIN b)
      /\ maxsize' = Len(b) /\ size' = size + 1
      /\ content' = Append(content, v)
      /\ failed' = (failed \/ (full /\ ~ok))
  <2>1. r[1] = b /\ r[2] = Len(b)
        BY <1>2
  <2> QED BY <2>1, Zenon DEF vector_append
<1> HIDE DEF r, full
<1>4. /\ content' \in Seq(Values) /\ size' = Len(content')
      /\ \A i \in 1..size : content'[i] = content[i]
      /\ content'[size + 1] = v
      BY <1>1, <1>3
<1>5. CASE size + 1 \in DOMAIN b
  <2>1. items' = [b EXCEPT ![size + 1] = v] /\ overrun' = FALSE
        BY <1>3, <1>5, Zenon
  <2>2. /\ items' \in Seq(Values \cup {NULL}) /\ Len(items') = Len(b) /\ items'[size + 1] = v
        /\ \A i \in DOMAIN b : i # size + 1 => items'[i] = b[i]
        BY <1>5, <2>1
  <2>3. size' <= maxsize' /\ \A i \in 1..size' : items'[i] = content'[i]
        BY <1>1, <1>2, <1>3, <1>5
  <2> QED BY <1>2, <1>3, <1>4, <2>1, <2>2, <2>3, Zenon DEF Stored
<1>6. CASE size + 1 \notin DOMAIN b
  <2>1. full /\ ~ok
        BY <1>1, <1>2, <1>6
  <2>2. overrun' = TRUE /\ failed' = TRUE /\ items' = b
        BY <1>3, <1>6, <2>1, Zenon
  <2> QED BY <1>2, <1>3, <1>4, <2>2, Zenon DEF Stored
<1> QED BY <1>5, <1>6, Zenon

\* vector_delete moves the elements behind the deleted one down, and the array
\* that it shrinks to still has room for them.
LEMMA VectorDeletes ==
  ASSUME Stored, ~overrun, NEW i \in 0..size - 1, NEW ok \in BOOLEAN, vector_delete(i, ok)
  PROVE  Stored'
<1> DEFINE moved == [j \in DOMAIN items |-> IF j <= i \/ j > size THEN items[j]
                                            ELSE IF j = size THEN NULL ELSE items[j + 1]]
           r == IF Shrinks(size - 1) THEN Resized(moved, maxsize, maxsize \div 2, ok)
                ELSE <<moved, maxsize>>
<1>1. /\ maxsize \in Nat \ {0} /\ items \in Seq(Values \cup {NULL}) /\ Len(items) = maxsize
      /\ size \in Nat /\ size <= maxsize /\ \A j \in 1..size : items[j] = content[j]
      /\ content \in Seq(Values) /\ size = Len(content) /\ failed \in BOOLEAN
      BY DEF Stored
<1>2. /\ moved \in Seq(Values \cup {NULL}) /\ Len(moved) = maxsize
      /\ \A j \in 1..size - 1 : moved[j] = IF j <= i THEN items[j] ELSE items[j + 1]
      BY <1>1
<1>3. /\ items' = r[1] /\ maxsize' = r[2] /\ size' = size - 1
      /\ content' = RemoveAt(content, i + 1)
      /\ failed' = (failed \/ (Shrinks(size - 1) /\ ~ok))
      /\ overrun' = overrun
      BY Zenon DEF vector_delete
<1> HIDE DEF moved
<1>4. PICK b \in Seq(Values \cup {NULL}) :
        /\ r = <<b, Len(b)>> /\ Len(b) \in Nat \ {0} /\ Len(b) >= size - 1
        /\ \A j \in 1..size - 1 : b[j] = moved[j]
  <2>1. CASE Shrinks(size - 1)
    <3>1. maxsize \div 2 \in Nat \ {0} /\ maxsize \div 2 >= size - 1
          BY <1>1, <2>1 DEF Shrinks
    <3>2. PICK b \in Seq(Values \cup {NULL}) :
             /\ Resized(moved, Len(moved), maxsize \div 2, ok) = <<b, Len(b)>>
             /\ (ok => Len(b) = maxsize \div 2) /\ (~ok => Len(b) = Len(moved))
             /\ \A j \in 1..Len(moved) : j <= Len(b) => b[j] = moved[j]
      <4>1. maxsize \div 2 \in Nat
            BY <3>1, Zenon
      <4> QED BY <1>2, <4>1, VectorResized, Zenon
    <3>3. r = <<b, Len(b)>>
          BY <1>2, <2>1, <3>2, Zenon
    <3>4. Len(b) \in Nat \ {0} /\ Len(b) >= size - 1
          BY <1>1, <1>2, <3>1, <3>2
    <3>5. \A j \in 1..size - 1 : b[j] = moved[j]
          BY <1>1, <1>2, <3>2, <3>4
    <3> QED BY <3>3, <3>4, <3>5, Zenon
  <2>2. CASE ~Shrinks(size - 1)
    <3>1. r = <<moved, Len(moved)>>
          BY <1>2, <2>2, Zenon
    <3>2. Len(moved) \in Nat \ {0} /\ Len(moved) >= size - 1
          BY <1>1, <1>2
    <3> QED BY <1>2, <3>1, <3>2, Zenon
  <2> QED BY <2>1, <2>2, Zenon
<1>5. items' = b /\ maxsize' = Len(b)
      BY <1>3, <1>4
<1>6. /\ content' \in Seq(Values) /\ Len(content') = size - 1
      /\ \A j \in 1..size - 1 : content'[j] = IF j < i + 1 THEN content[j] ELSE content[j + 1]
  <2>1. i + 1 \in 1..Len(content)
        BY <1>1
  <2> QED BY <1>1, <1>3, <2>1, TakenOut, Zenon
<1>7. \A j \in 1..size - 1 : items'[j] = content'[j]
      BY <1>1, <1>2, <1>4, <1>5, <1>6, SMTT(30)
<1>8. failed' \in BOOLEAN /\ size' <= maxsize' /\ overrun' = FALSE
      BY <1>3, <1>4
<1> QED BY <1>3, <1>4, <1>5, <1>6, <1>7, <1>8, Zenon DEF Stored

\* vector_set replaces an element.
LEMMA VectorSets ==
  ASSUME Stored, ~overrun, NEW i \in 0..size - 1, NEW v \in Values, vector_set(i, v)
  PROVE  Stored'
<1>1. /\ items' = [items EXCEPT ![i + 1] = v] /\ content' = [content EXCEPT ![i + 1] = v]
      /\ maxsize' = maxsize /\ size' = size /\ failed' = failed /\ overrun' = overrun
      BY Zenon DEF vector_set
<1>2. /\ items \in Seq(Values \cup {NULL}) /\ content \in Seq(Values) /\ Len(items) = maxsize
      /\ Len(content) = size /\ i + 1 \in DOMAIN items /\ i + 1 \in DOMAIN content
      /\ \A j \in 1..size : items[j] = content[j]
      BY DEF Stored
<1>3. /\ items' \in Seq(Values \cup {NULL}) /\ Len(items') = maxsize
      /\ content' \in Seq(Values) /\ Len(content') = size
      BY <1>1, <1>2
<1>4. \A j \in 1..size : items'[j] = content'[j]
      BY <1>1, <1>2
<1> QED BY <1>1, <1>3, <1>4, Zenon DEF Stored

\* Nothing is lost, and no append runs over the array as long as no allocation
\* has failed, through any sequence of calls on a vector of any capacity.
THEOREM VectorKeeps == VectorSpec => []VectorHolds
<1>1. VectorInit => Stored
  <2> SUFFICES ASSUME VectorInit PROVE Stored
      OBVIOUS
  <2>1. /\ items = [i \in 1..VECTOR_INITIAL_CAPACITY |-> NULL] /\ maxsize = VECTOR_INITIAL_CAPACITY
        /\ size = 0 /\ content = <<>> /\ failed = FALSE /\ overrun = FALSE
        BY Zenon DEF VectorInit
  <2>2. /\ maxsize \in Nat \ {0} /\ items \in Seq(Values \cup {NULL}) /\ Len(items) = maxsize
        /\ content \in Seq(Values) /\ size = Len(content) /\ size <= maxsize
        BY <2>1, VectorAssumption
  <2>3. \A i \in 1..size : items[i] = content[i]
        BY <2>1
  <2> QED BY <2>1, <2>2, <2>3, Zenon DEF Stored
<1>2. Stored /\ [VectorNext]_vectorVars => Stored'
  <2> SUFFICES ASSUME Stored, [VectorNext]_vectorVars PROVE Stored'
      OBVIOUS
  <2>1. CASE UNCHANGED vectorVars
        BY <2>1, Zenon DEF vectorVars, Stored
  <2>2. CASE ~overrun /\ vector_destroy
    <3>1. /\ items' = [i \in 1..VECTOR_INITIAL_CAPACITY |-> NULL] /\ maxsize' = VECTOR_INITIAL_CAPACITY
          /\ size' = 0 /\ content' = <<>> /\ failed' = failed /\ overrun' = overrun
          BY <2>2, Zenon DEF vector_destroy
    <3> QED BY <3>1, VectorAssumption DEF Stored
  <2>3. ASSUME ~overrun, NEW ok \in BOOLEAN, NEW v \in Values, vector_append(v, ok)
        PROVE  Stored'
        BY <2>3, VectorAppends, Zenon
  <2>4. ASSUME ~overrun, NEW ok \in BOOLEAN, NEW i \in 0..size - 1, vector_delete(i, ok)
        PROVE  Stored'
        BY <2>4, VectorDeletes, Zenon
  <2>5. ASSUME ~overrun, NEW i \in 0..size - 1, NEW v \in Values, vector_set(i, v)
        PROVE  Stored'
        BY <2>5, VectorSets, Zenon
  <2> QED BY <2>1, <2>2, <2>3, <2>4, <2>5, Zenon DEF VectorNext
<1>3. Stored => VectorHolds
      BY DEF Stored, VectorHolds
<1> QED BY <1>1, <1>2, <1>3, PTL DEF VectorSpec

-----------------------------------------------------------------------------
(* The count of the bus *)

BusTypes ==
  /\ boot \in [Nodes -> {"down", "bound", "count", "join", "up"}]
  /\ known \in [Nodes -> SUBSET (Nodes \X {"bus port", "port"})]
  /\ nnodes \in [Nodes -> Nat]
  /\ seen \in [Nodes -> [main : Nat, io : Nat]]
  /\ net \in [Nodes -> Nat]
  /\ socket \in [Nodes -> Nat]
  /\ edge \subseteq Nodes
  /\ thread \in [Nodes -> {"wait", "recv", "count"}]
  /\ spoilt \in [Nodes -> SUBSET {"race", "loss", "duplicate", "burst", "empty"}]

One(p) == IF p THEN 1 ELSE 0

\* How far start_server is tells what it has done: the mode it is in, whom it
\* joins, and that it joins at its end.
Booted(n) ==
  /\ boot[n] \in {"bound", "count"} => Mode[n] = "CLUSTER"
  /\ boot[n] = "join" => Seed[n] \in Nodes
  /\ \A m \in Nodes : <<m, "port">> \in known[n] => boot[n] = "up"

\* What the epoll reports, and what the thread is about to receive, is there.
Waiting(n) == One(n \in edge) + One(thread[n] = "recv")
Rung(n) == socket[n] >= Waiting(n) /\ "empty" \notin spoilt[n]

\* Every node that joins is on the way, in the socket, being counted or
\* counted; and a thread that counts has read what the other one has written.
Accounted(n) ==
  spoilt[n] = {} =>
    /\ socket[n] = Waiting(n)
    /\ nnodes[n] + net[n] + socket[n] + One(thread[n] = "count") =
         One(Mode[n] = "CLUSTER" /\ boot[n] \in {"join", "up"}) + Cardinality(Joiners(n))
    /\ thread[n] = "count" => seen[n].io = nnodes[n] /\ boot[n] # "count"
    /\ boot[n] = "count" => seen[n].main = nnodes[n]

NodeOK(n) == Booted(n) /\ Rung(n) /\ Accounted(n)

BusInv == BusTypes /\ \A n \in Nodes : NodeOK(n)

\* Updates of a function at one place keep its type.
LEMMA UpdateType ==
  ASSUME NEW S, NEW T, NEW f \in [S -> T], NEW a \in S, NEW v \in T
  PROVE  /\ [f EXCEPT ![a] = v] \in [S -> T] /\ [f EXCEPT ![a] = v][a] = v
         /\ \A b \in S \ {a} : [f EXCEPT ![a] = v][b] = f[b]
OBVIOUS

\* What a step leaves alone of node m.
Same(m) ==
  /\ boot'[m] = boot[m] /\ nnodes'[m] = nnodes[m] /\ seen'[m] = seen[m]
  /\ net'[m] = net[m] /\ socket'[m] = socket[m] /\ (m \in edge') = (m \in edge)
  /\ thread'[m] = thread[m] /\ spoilt'[m] = spoilt[m]

SamePorts(m) == \A k \in Nodes : <<k, "port">> \in known'[m] <=> <<k, "port">> \in known[m]

\* A node that a step leaves alone, and whose joiners stay, stays in order.
LEMMA LeftAlone ==
  ASSUME NEW m \in Nodes, NodeOK(m), Same(m), SamePorts(m), Joiners(m)' = Joiners(m)
  PROVE  NodeOK(m)'
<1>1. Booted(m)'
      BY Zenon DEF NodeOK, Booted, Same, SamePorts
<1>2. Waiting(m)' = Waiting(m)
      BY Zenon DEF Waiting, One, Same
<1>3. Rung(m)'
      BY <1>2, Zenon DEF NodeOK, Rung, Same
<1>4. Accounted(m)'
      BY <1>2, Zenon DEF NodeOK, Accounted, Same, One
<1> QED BY <1>1, <1>3, <1>4, Zenon DEF NodeOK

\* The joiners of a node are told by the ports in the rings.
LEMMA SameJoiners ==
  ASSUME \A m \in Nodes : SamePorts(m)
  PROVE  \A k \in Nodes : Joiners(k)' = Joiners(k)
BY Zenon DEF SamePorts, Joiners

\* A step of node n that puts no port in a ring.
LEMMA BusStep ==
  ASSUME BusInv, BusTypes', NEW n \in Nodes, \A m \in Nodes : SamePorts(m),
         \A m \in Nodes \ {n} : Same(m), Booted(n)', Rung(n)',
         Joiners(n)' = Joiners(n) => Accounted(n)'
  PROVE  BusInv'
<1>1. \A k \in Nodes : Joiners(k)' = Joiners(k)
      BY SameJoiners, Zenon
<1>2. \A m \in Nodes \ {n} : NodeOK(m)'
      BY <1>1, LeftAlone, Zenon DEF BusInv
<1>3. NodeOK(n)'
      BY <1>1, Zenon DEF NodeOK
<1> QED BY <1>2, <1>3, Zenon DEF BusInv

\* The number of joiners is a number.
LEMMA JoinersNat ==
  \A k \in Nodes : IsFiniteSet(Joiners(k)) /\ Cardinality(Joiners(k)) \in Nat
<1>1. IsFiniteSet(Nodes)
      BY BusAssumption
<1>2. \A k \in Nodes : Joiners(k) \subseteq Nodes
      BY DEF Joiners
<1>3. \A k \in Nodes : IsFiniteSet(Joiners(k))
      BY <1>1, <1>2, FS_Subset, Zenon
<1> QED BY <1>3, FS_CardinalityType, Zenon

\* start_server, before the bus and without one.
LEMMA StartStep ==
  ASSUME BusInv, NEW n \in Nodes, Start(n)
  PROVE  BusInv'
<1>1. /\ boot[n] = "down"
      /\ boot' = [boot EXCEPT ![n] = IF Mode[n] = "CLUSTER" THEN "bound" ELSE AfterBus(n)]
      /\ UNCHANGED <<known, nnodes, seen, net, socket, edge, thread, spoilt>>
      BY Zenon DEF Start
<1>2. BusTypes
      BY Zenon DEF BusInv
<1>3. /\ boot'[n] \in {"bound", "join", "up"}
      /\ boot'[n] = "bound" <=> Mode[n] = "CLUSTER"
      /\ boot'[n] = "join" => Seed[n] \in Nodes
      /\ \A m \in Nodes \ {n} : boot'[m] = boot[m]
      BY <1>1, <1>2, BusAssumption, Zenon DEF BusTypes, AfterBus
<1>4. BusTypes'
      BY <1>1, <1>2, <1>3, Zenon DEF BusTypes
<1>5. (\A m \in Nodes : SamePorts(m)) /\ \A m \in Nodes \ {n} : Same(m)
      BY <1>1, <1>3, Zenon DEF SamePorts, Same
<1>6. Booted(n)' /\ Rung(n)'
      BY <1>1, <1>3, Zenon DEF BusInv, NodeOK, Booted, Rung, Waiting, One
<1>7. Joiners(n)' = Joiners(n) => Accounted(n)'
      BY <1>1, <1>3, Zenon DEF BusInv, NodeOK, Accounted, Waiting, One
<1> QED BY <1>4, <1>5, <1>6, <1>7, BusStep, Zenon

\* A node adds itself to its ring and reads the count.
LEMMA AddSelfStep ==
  ASSUME BusInv, NEW n \in Nodes, AddSelf(n)
  PROVE  BusInv'
<1> DEFINE what == IF thread[n] = "count" THEN {"race"} ELSE {}
<1>1. /\ boot[n] = "bound" /\ boot' = [boot EXCEPT ![n] = "count"]
      /\ known' = [known EXCEPT ![n] = @ \cup {<<n, "bus port">>}]
      /\ seen' = [seen EXCEPT ![n].main = nnodes[n]]
      /\ spoilt' = [spoilt EXCEPT ![n] = @ \cup what]
      /\ UNCHANGED <<nnodes, net, socket, edge, thread>>
      BY Zenon DEF AddSelf, Spoil
<1>2. BusTypes
      BY Zenon DEF BusInv
<1>3. /\ boot'[n] = "count" /\ seen'[n].main = nnodes[n]
      /\ spoilt'[n] = spoilt[n] \cup what
      /\ \A m \in Nodes \ {n} : boot'[m] = boot[m] /\ seen'[m] = seen[m] /\ spoilt'[m] = spoilt[m]
      BY <1>1, <1>2, Zenon DEF BusTypes
<1>4. BusTypes'
  <2>1. boot' \in [Nodes -> {"down", "bound", "count", "join", "up"}]
        BY <1>1, <1>2, Zenon DEF BusTypes
  <2>2. seen' \in [Nodes -> [main : Nat, io : Nat]]
        BY <1>1, <1>2, Zenon DEF BusTypes
  <2>3. spoilt' \in [Nodes -> SUBSET {"race", "loss", "duplicate", "burst", "empty"}]
        BY <1>1, <1>2, Zenon DEF BusTypes
  <2>4. known' \in [Nodes -> SUBSET (Nodes \X {"bus port", "port"})]
    <3>1. known \in [Nodes -> SUBSET (Nodes \X {"bus port", "port"})]
          BY <1>2, Zenon DEF BusTypes
    <3>2. <<n, "bus port">> \in Nodes \X {"bus port", "port"}
          BY Zenon
    <3>3. known[n] \cup {<<n, "bus port">>} \in SUBSET (Nodes \X {"bus port", "port"})
          BY <3>1, <3>2, Zenon
    <3> QED BY <1>1, <3>1, <3>3, UpdateType, Zenon
  <2> QED BY <1>1, <1>2, <2>1, <2>2, <2>3, <2>4, Zenon DEF BusTypes
<1>5. \A m \in Nodes : SamePorts(m)
      BY <1>1, <1>2, Zenon DEF BusTypes, SamePorts
<1>6. \A m \in Nodes \ {n} : Same(m)
      BY <1>1, <1>3, Zenon DEF Same
<1>7. Booted(n)' /\ Rung(n)'
  <2>1. Booted(n)'
        BY <1>1, <1>3, <1>5, Zenon DEF BusInv, NodeOK, Booted, SamePorts
  <2>2. Rung(n)'
        BY <1>1, <1>3, Zenon DEF BusInv, NodeOK, Rung, Waiting, One
  <2> QED BY <2>1, <2>2, Zenon
<1>8. Joiners(n)' = Joiners(n) => Accounted(n)'
      BY <1>1, <1>3, Zenon DEF BusInv, NodeOK, Accounted, Waiting, One
<1> QED BY <1>4, <1>5, <1>6, <1>7, <1>8, BusStep, Zenon

\* It writes the count.
LEMMA CountSelfStep ==
  ASSUME BusInv, NEW n \in Nodes, CountSelf(n)
  PROVE  BusInv'
<1>1. /\ boot[n] = "count" /\ boot' = [boot EXCEPT ![n] = AfterBus(n)]
      /\ nnodes' = [nnodes EXCEPT ![n] = seen[n].main + 1]
      /\ UNCHANGED <<known, seen, net, socket, edge, thread, spoilt>>
      BY Zenon DEF CountSelf
<1>2. BusTypes
      BY Zenon DEF BusInv
<1>3. /\ boot'[n] \in {"join", "up"} /\ (boot'[n] = "join" => Seed[n] \in Nodes)
      /\ seen[n].main \in Nat /\ nnodes'[n] = seen[n].main + 1
      /\ \A m \in Nodes \ {n} : boot'[m] = boot[m] /\ nnodes'[m] = nnodes[m]
      BY <1>1, <1>2, BusAssumption, Zenon DEF BusTypes, AfterBus
<1>4. BusTypes'
  <2>1. boot' \in [Nodes -> {"down", "bound", "count", "join", "up"}]
        BY <1>1, <1>2, <1>3, Zenon DEF BusTypes
  <2>2. nnodes' \in [Nodes -> Nat]
    <3>1. seen[n].main + 1 \in Nat
          BY <1>3
    <3> QED BY <1>1, <1>2, <3>1, UpdateType, Zenon DEF BusTypes
  <2> QED BY <1>1, <1>2, <2>1, <2>2, Zenon DEF BusTypes
<1>5. (\A m \in Nodes : SamePorts(m)) /\ \A m \in Nodes \ {n} : Same(m)
      BY <1>1, <1>3, Zenon DEF SamePorts, Same
<1>6. Booted(n)' /\ Rung(n)'
      BY <1>1, <1>3, Zenon DEF BusInv, NodeOK, Booted, Rung, Waiting, One
<1>7. Joiners(n)' = Joiners(n) => Accounted(n)'
  <2>1. Mode[n] = "CLUSTER" /\ nnodes[n] \in Nat /\ net[n] \in Nat /\ socket[n] \in Nat
        BY <1>1, <1>2, Zenon DEF BusInv, NodeOK, Booted, BusTypes
  <2>2. Cardinality(Joiners(n)) \in Nat
        BY JoinersNat, Zenon
  <2> QED BY <1>1, <1>3, <2>1, <2>2 DEF BusInv, NodeOK, Accounted, Waiting, One
<1> QED BY <1>4, <1>5, <1>6, <1>7, BusStep, Zenon

\* A datagram is lost on the way.
LEMMA LoseStep ==
  ASSUME BusInv, NEW n \in Nodes, Lose(n)
  PROVE  BusInv'
<1>1. /\ net[n] > 0 /\ net' = [net EXCEPT ![n] = @ - 1]
      /\ spoilt' = [spoilt EXCEPT ![n] = @ \cup {"loss"}]
      /\ UNCHANGED <<boot, known, nnodes, seen, socket, edge, thread>>
      BY Zenon DEF Lose, Spoil
<1>2. BusTypes
      BY Zenon DEF BusInv
<1>3. /\ net' \in [Nodes -> Nat]
      /\ spoilt' \in [Nodes -> SUBSET {"race", "loss", "duplicate", "burst", "empty"}]
      /\ spoilt'[n] = spoilt[n] \cup {"loss"}
      /\ \A m \in Nodes \ {n} : net'[m] = net[m] /\ spoilt'[m] = spoilt[m]
  <2>1. net \in [Nodes -> Nat]
        BY <1>2, Zenon DEF BusTypes
  <2>2. spoilt \in [Nodes -> SUBSET {"race", "loss", "duplicate", "burst", "empty"}]
        BY <1>2, Zenon DEF BusTypes
  <2> QED BY <1>1, <2>1, <2>2
<1>4. BusTypes'
      BY <1>1, <1>2, <1>3, Zenon DEF BusTypes
<1>5. (\A m \in Nodes : SamePorts(m)) /\ \A m \in Nodes \ {n} : Same(m)
      BY <1>1, <1>3, Zenon DEF SamePorts, Same
<1>6. Booted(n)' /\ Rung(n)'
      BY <1>1, <1>3, Zenon DEF BusInv, NodeOK, Booted, Rung, Waiting, One
<1>7. Accounted(n)'
      BY <1>3, Zenon DEF Accounted
<1> QED BY <1>4, <1>5, <1>6, <1>7, BusStep, Zenon

\* A datagram is duplicated on the way.
LEMMA DuplicateStep ==
  ASSUME BusInv, NEW n \in Nodes, Duplicate(n)
  PROVE  BusInv'
<1>1. /\ net' = [net EXCEPT ![n] = @ + 1]
      /\ spoilt' = [spoilt EXCEPT ![n] = @ \cup {"duplicate"}]
      /\ UNCHANGED <<boot, known, nnodes, seen, socket, edge, thread>>
      BY Zenon DEF Duplicate, Spoil
<1>2. BusTypes
      BY Zenon DEF BusInv
<1>3. /\ net' \in [Nodes -> Nat]
      /\ spoilt' \in [Nodes -> SUBSET {"race", "loss", "duplicate", "burst", "empty"}]
      /\ spoilt'[n] = spoilt[n] \cup {"duplicate"}
      /\ \A m \in Nodes \ {n} : net'[m] = net[m] /\ spoilt'[m] = spoilt[m]
  <2>1. net \in [Nodes -> Nat]
        BY <1>2, Zenon DEF BusTypes
  <2>2. spoilt \in [Nodes -> SUBSET {"race", "loss", "duplicate", "burst", "empty"}]
        BY <1>2, Zenon DEF BusTypes
  <2> QED BY <1>1, <2>1, <2>2
<1>4. BusTypes'
      BY <1>1, <1>2, <1>3, Zenon DEF BusTypes
<1>5. (\A m \in Nodes : SamePorts(m)) /\ \A m \in Nodes \ {n} : Same(m)
      BY <1>1, <1>3, Zenon DEF SamePorts, Same
<1>6. Booted(n)' /\ Rung(n)'
      BY <1>1, <1>3, Zenon DEF BusInv, NodeOK, Booted, Rung, Waiting, One
<1>7. Accounted(n)'
      BY <1>3, Zenon DEF Accounted
<1> QED BY <1>4, <1>5, <1>6, <1>7, BusStep, Zenon

\* The thread hears of the bus.
LEMMA WaitStep ==
  ASSUME BusInv, NEW n \in Nodes, Wait(n)
  PROVE  BusInv'
<1>1. /\ thread[n] = "wait" /\ n \in edge /\ edge' = edge \ {n}
      /\ thread' = [thread EXCEPT ![n] = "recv"]
      /\ UNCHANGED <<boot, known, nnodes, seen, net, socket, spoilt>>
      BY Zenon DEF Wait
<1>2. BusTypes
      BY Zenon DEF BusInv
<1>3. /\ thread' \in [Nodes -> {"wait", "recv", "count"}] /\ edge' \subseteq Nodes
      /\ thread'[n] = "recv"
      /\ \A m \in Nodes \ {n} : thread'[m] = thread[m]
      BY <1>1, <1>2, Zenon DEF BusTypes
<1>4. BusTypes'
      BY <1>1, <1>2, <1>3, Zenon DEF BusTypes
<1>5. \A m \in Nodes : SamePorts(m)
      BY <1>1, Zenon DEF SamePorts
<1>5a. \A m \in Nodes \ {n} : Same(m)
  <2>1. \A m \in Nodes \ {n} : (m \in edge') = (m \in edge)
        BY <1>1
  <2> QED BY <1>1, <1>3, <2>1, Zenon DEF Same
<1>6. Waiting(n)' = Waiting(n)
      BY <1>1, <1>3 DEF Waiting, One
<1>7. Booted(n)' /\ Rung(n)'
      BY <1>1, <1>6, Zenon DEF BusInv, NodeOK, Booted, Rung
<1>8. Joiners(n)' = Joiners(n) => Accounted(n)'
      BY <1>1, <1>3, <1>6, Zenon DEF BusInv, NodeOK, Accounted, One
<1> QED BY <1>4, <1>5, <1>5a, <1>7, <1>8, BusStep, Zenon

\* It writes the count.
LEMMA CountNodeStep ==
  ASSUME BusInv, NEW n \in Nodes, CountNode(n)
  PROVE  BusInv'
<1>1. /\ thread[n] = "count" /\ nnodes' = [nnodes EXCEPT ![n] = seen[n].io + 1]
      /\ thread' = [thread EXCEPT ![n] = "wait"]
      /\ UNCHANGED <<boot, known, seen, net, socket, edge, spoilt>>
      BY Zenon DEF CountNode
<1>2. BusTypes
      BY Zenon DEF BusInv
<1>3. /\ thread' \in [Nodes -> {"wait", "recv", "count"}] /\ thread'[n] = "wait"
      /\ seen[n].io \in Nat /\ nnodes'[n] = seen[n].io + 1
      /\ \A m \in Nodes \ {n} : thread'[m] = thread[m] /\ nnodes'[m] = nnodes[m]
      BY <1>1, <1>2, Zenon DEF BusTypes
<1>4. BusTypes'
  <2>1. seen[n].io + 1 \in Nat
        BY <1>3
  <2>2. nnodes' \in [Nodes -> Nat]
        BY <1>1, <1>2, <2>1, UpdateType, Zenon DEF BusTypes
  <2> QED BY <1>1, <1>2, <1>3, <2>2, Zenon DEF BusTypes
<1>5. (\A m \in Nodes : SamePorts(m)) /\ \A m \in Nodes \ {n} : Same(m)
      BY <1>1, <1>3, Zenon DEF SamePorts, Same
<1>6. Waiting(n)' = Waiting(n)
      BY <1>1, <1>3, Zenon DEF Waiting, One
<1>7. Booted(n)' /\ Rung(n)'
      BY <1>1, <1>6, Zenon DEF BusInv, NodeOK, Booted, Rung
<1>8. Joiners(n)' = Joiners(n) => Accounted(n)'
  <2>1. nnodes[n] \in Nat /\ net[n] \in Nat /\ socket[n] \in Nat
        BY <1>2, Zenon DEF BusTypes
  <2>2. Cardinality(Joiners(n)) \in Nat
        BY JoinersNat, Zenon
  <2> QED BY <1>1, <1>3, <1>6, <2>1 DEF BusInv, NodeOK, Accounted, One
<1> QED BY <1>4, <1>5, <1>7, <1>8, BusStep, Zenon

\* A datagram arrives where nobody listens.
LEMMA DropStep ==
  ASSUME BusInv, NEW n \in Nodes, Arrive(n),
         boot[n] = "down" \/ Mode[n] = "STANDALONE"
  PROVE  BusInv'
<1>1. Lose(n)
      BY Zenon DEF Arrive, Lose
<1> QED BY <1>1, LoseStep, Zenon

\* A datagram arrives in the socket.
LEMMA ArriveStep ==
  ASSUME BusInv, NEW n \in Nodes, Arrive(n),
         ~(boot[n] = "down" \/ Mode[n] = "STANDALONE")
  PROVE  BusInv'
<1> DEFINE what == IF n \in edge THEN {"burst"} ELSE {}
<1>1. /\ net[n] > 0 /\ net' = [net EXCEPT ![n] = @ - 1]
      /\ socket' = [socket EXCEPT ![n] = @ + 1] /\ edge' = edge \cup {n}
      /\ spoilt' = [spoilt EXCEPT ![n] = @ \cup what]
      /\ UNCHANGED <<boot, known, nnodes, seen, thread>>
      BY Zenon DEF Arrive, Spoil
<1>2. BusTypes
      BY Zenon DEF BusInv
<1>3. /\ net' \in [Nodes -> Nat] /\ net'[n] = net[n] - 1
      /\ socket' \in [Nodes -> Nat] /\ socket'[n] = socket[n] + 1
      /\ \A m \in Nodes \ {n} : net'[m] = net[m] /\ socket'[m] = socket[m]
  <2>1. net \in [Nodes -> Nat] /\ socket \in [Nodes -> Nat]
        BY <1>2, Zenon DEF BusTypes
  <2> QED BY <1>1, <2>1
<1>4. /\ spoilt' \in [Nodes -> SUBSET {"race", "loss", "duplicate", "burst", "empty"}]
      /\ spoilt'[n] = spoilt[n] \cup what
      /\ \A m \in Nodes \ {n} : spoilt'[m] = spoilt[m]
  <2>1. spoilt \in [Nodes -> SUBSET {"race", "loss", "duplicate", "burst", "empty"}]
        BY <1>2, Zenon DEF BusTypes
  <2> QED BY <1>1, <2>1, Zenon
<1>5. /\ edge' \subseteq Nodes
      /\ \A m \in Nodes \ {n} : (m \in edge') = (m \in edge)
  <2>1. edge \subseteq Nodes
        BY <1>2, Zenon DEF BusTypes
  <2> QED BY <1>1, <2>1
<1>6. BusTypes'
      BY <1>1, <1>2, <1>3, <1>4, <1>5, Zenon DEF BusTypes
<1>7. (\A m \in Nodes : SamePorts(m)) /\ \A m \in Nodes \ {n} : Same(m)
      BY <1>1, <1>3, <1>4, <1>5, Zenon DEF SamePorts, Same
<1>8. net[n] \in Nat /\ socket[n] \in Nat /\ nnodes[n] \in Nat
      BY <1>2, Zenon DEF BusTypes
<1>9. Booted(n)' /\ Rung(n)'
  <2>1. Booted(n)'
        BY <1>1, Zenon DEF BusInv, NodeOK, Booted
  <2>2. socket'[n] >= Waiting(n)'
        BY <1>1, <1>3, <1>8 DEF BusInv, NodeOK, Rung, Waiting, One
  <2>3. "empty" \notin spoilt'[n]
        BY <1>4, Zenon DEF BusInv, NodeOK, Rung
  <2> QED BY <2>1, <2>2, <2>3, Zenon DEF Rung
<1>10. Joiners(n)' = Joiners(n) => Accounted(n)'
  <2> SUFFICES ASSUME spoilt'[n] = {}, Joiners(n)' = Joiners(n)
               PROVE  Accounted(n)'
      BY Zenon DEF Accounted
  <2>1. n \notin edge /\ spoilt[n] = {}
        BY <1>4, Zenon
  <2>2. Cardinality(Joiners(n)) \in Nat
        BY JoinersNat, Zenon
  <2>3. Accounted(n)
        BY Zenon DEF BusInv, NodeOK
  <2> QED BY <1>1, <1>3, <1>8, <2>1, <2>3 DEF Accounted, Waiting, One
<1> QED BY <1>6, <1>7, <1>9, <1>10, BusStep, Zenon

\* The thread receives a datagram and reads the count.
LEMMA RecvStep ==
  ASSUME BusInv, NEW n \in Nodes, Recv(n)
  PROVE  BusInv'
<1> DEFINE what == (IF socket[n] = 0 THEN {"empty"} ELSE {})
                   \cup (IF boot[n] = "count" THEN {"race"} ELSE {})
<1>1. /\ thread[n] = "recv" /\ thread' = [thread EXCEPT ![n] = "count"]
      /\ socket' = [socket EXCEPT ![n] = IF @ = 0 THEN 0 ELSE @ - 1]
      /\ seen' = [seen EXCEPT ![n].io = nnodes[n]]
      /\ spoilt' = [spoilt EXCEPT ![n] = @ \cup what]
      /\ UNCHANGED <<boot, known, nnodes, net, edge>>
      BY Zenon DEF Recv, Spoil
<1>2. BusTypes
      BY Zenon DEF BusInv
<1>3. socket[n] \in Nat /\ nnodes[n] \in Nat /\ net[n] \in Nat
      BY <1>2, Zenon DEF BusTypes
<1>4. socket[n] >= 1 + One(n \in edge)
      BY <1>1 DEF BusInv, NodeOK, Rung, Waiting, One
<1>5. /\ socket' \in [Nodes -> Nat] /\ socket'[n] = socket[n] - 1
      /\ \A m \in Nodes \ {n} : socket'[m] = socket[m]
  <2>1. socket \in [Nodes -> Nat]
        BY <1>2, Zenon DEF BusTypes
  <2> QED BY <1>1, <1>4, <2>1 DEF One
<1>6. /\ spoilt' \in [Nodes -> SUBSET {"race", "loss", "duplicate", "burst", "empty"}]
      /\ spoilt'[n] = spoilt[n] \cup what
      /\ \A m \in Nodes \ {n} : spoilt'[m] = spoilt[m]
  <2>1. spoilt \in [Nodes -> SUBSET {"race", "loss", "duplicate", "burst", "empty"}]
        BY <1>2, Zenon DEF BusTypes
  <2> QED BY <1>1, <2>1, Zenon
<1>7. /\ thread' \in [Nodes -> {"wait", "recv", "count"}] /\ thread'[n] = "count"
      /\ \A m \in Nodes \ {n} : thread'[m] = thread[m]
  <2>1. thread \in [Nodes -> {"wait", "recv", "count"}]
        BY <1>2, Zenon DEF BusTypes
  <2> QED BY <1>1, <2>1, Zenon
<1>8. /\ seen' \in [Nodes -> [main : Nat, io : Nat]]
      /\ seen'[n].io = nnodes[n] /\ seen'[n].main = seen[n].main
      /\ \A m \in Nodes \ {n} : seen'[m] = seen[m]
  <2>1. seen \in [Nodes -> [main : Nat, io : Nat]]
        BY <1>2, Zenon DEF BusTypes
  <2> QED BY <1>1, <1>3, <2>1, Zenon
<1>9. BusTypes'
      BY <1>1, <1>2, <1>5, <1>6, <1>7, <1>8, Zenon DEF BusTypes
<1>10. (\A m \in Nodes : SamePorts(m)) /\ \A m \in Nodes \ {n} : Same(m)
      BY <1>1, <1>5, <1>6, <1>7, <1>8, Zenon DEF SamePorts, Same
<1>11. Booted(n)' /\ Rung(n)'
  <2>1. Booted(n)'
        BY <1>1, Zenon DEF BusInv, NodeOK, Booted
  <2>2. socket'[n] >= Waiting(n)'
        BY <1>1, <1>3, <1>4, <1>7 DEF Waiting, One
  <2>3. "empty" \notin what
        BY <1>4 DEF One
  <2>4. "empty" \notin spoilt[n]
        BY Zenon DEF BusInv, NodeOK, Rung
  <2> QED BY <1>6, <2>1, <2>2, <2>3, <2>4, Zenon DEF Rung
<1>12. Joiners(n)' = Joiners(n) => Accounted(n)'
  <2> SUFFICES ASSUME spoilt'[n] = {}, Joiners(n)' = Joiners(n)
               PROVE  Accounted(n)'
      BY Zenon DEF Accounted
  <2>1. boot[n] # "count" /\ spoilt[n] = {}
        BY <1>6, Zenon
  <2>2. Cardinality(Joiners(n)) \in Nat
        BY JoinersNat, Zenon
  <2>3. Accounted(n)
        BY Zenon DEF BusInv, NodeOK
  <2> QED BY <1>1, <1>3, <1>5, <1>7, <1>8, <2>1, <2>3 DEF Accounted, Waiting, One
<1> QED BY <1>9, <1>10, <1>11, <1>12, BusStep, Zenon

\* A node sends a JOIN to its seed and puts it in its ring: the seed has one
\* joiner more, and one datagram more on the way to it.
LEMMA JoinStep ==
  ASSUME BusInv, NEW n \in Nodes, JoinSeed(n)
  PROVE  BusInv'
<1> DEFINE seed == Seed[n]
<1>1. /\ boot[n] = "join" /\ boot' = [boot EXCEPT ![n] = "up"]
      /\ net' = [net EXCEPT ![seed] = @ + 1]
      /\ known' = [known EXCEPT ![n] = @ \cup {<<seed, "port">>}]
      /\ UNCHANGED <<nnodes, seen, socket, edge, thread, spoilt>>
      BY Zenon DEF JoinSeed
<1>2. BusTypes /\ seed \in Nodes
      BY <1>1, Zenon DEF BusInv, NodeOK, Booted
<1>3. /\ boot' \in [Nodes -> {"down", "bound", "count", "join", "up"}] /\ boot'[n] = "up"
      /\ \A m \in Nodes \ {n} : boot'[m] = boot[m]
  <2>1. boot \in [Nodes -> {"down", "bound", "count", "join", "up"}]
        BY <1>2, Zenon DEF BusTypes
  <2> QED BY <1>1, <2>1, Zenon
<1>4. /\ net' \in [Nodes -> Nat] /\ net'[seed] = net[seed] + 1
      /\ \A m \in Nodes \ {seed} : net'[m] = net[m]
  <2>1. net \in [Nodes -> Nat]
        BY <1>2, Zenon DEF BusTypes
  <2> QED BY <1>1, <1>2, <2>1
<1>5. /\ known' \in [Nodes -> SUBSET (Nodes \X {"bus port", "port"})]
      /\ known'[n] = known[n] \cup {<<seed, "port">>}
      /\ \A m \in Nodes \ {n} : known'[m] = known[m]
  <2>1. known \in [Nodes -> SUBSET (Nodes \X {"bus port", "port"})]
        BY <1>2, Zenon DEF BusTypes
  <2>2. <<seed, "port">> \in Nodes \X {"bus port", "port"}
        BY <1>2, Zenon
  <2>3. known[n] \cup {<<seed, "port">>} \in SUBSET (Nodes \X {"bus port", "port"})
        BY <2>1, <2>2, Zenon
  <2> QED BY <1>1, <2>1, <2>3, UpdateType, Zenon
<1>6. BusTypes'
      BY <1>1, <1>2, <1>3, <1>4, <1>5, Zenon DEF BusTypes
<1>7. \A m \in Nodes : <<m, "port">> \notin known[n]
      BY <1>1, Zenon DEF BusInv, NodeOK, Booted
<1>8. Joiners(seed)' = Joiners(seed) \cup {n} /\ n \notin Joiners(seed)
      BY <1>2, <1>5, <1>7, Zenon DEF Joiners
<1>9. \A m \in Nodes \ {seed} : Joiners(m)' = Joiners(m)
  <2>1. \A m \in Nodes \ {seed} : <<m, "port">> # <<seed, "port">>
        OBVIOUS
  <2> QED BY <1>5, <2>1, Zenon DEF Joiners
<1>10. \A m \in Nodes : Booted(m)'
      BY <1>3, <1>5, Zenon DEF BusInv, NodeOK, Booted
<1>11. \A m \in Nodes : Waiting(m)' = Waiting(m) /\ Rung(m)'
      BY <1>1, Zenon DEF BusInv, NodeOK, Rung, Waiting
<1>12. \A m \in Nodes : (boot'[m] \in {"join", "up"}) = (boot[m] \in {"join", "up"})
  <2>1. (boot'[n] \in {"join", "up"}) = (boot[n] \in {"join", "up"})
        BY <1>1
  <2> QED BY <1>3, <2>1, Zenon
<1>13. \A m \in Nodes : net'[m] - net[m] = Cardinality(Joiners(m))' - Cardinality(Joiners(m))
  <2>1. Cardinality(Joiners(seed))' = Cardinality(Joiners(seed)) + 1
        BY <1>2, <1>8, JoinersNat, FS_AddElement, Zenon
  <2>2. \A m \in Nodes : net[m] \in Nat /\ Cardinality(Joiners(m)) \in Nat
        BY <1>2, JoinersNat, Zenon DEF BusTypes
  <2> QED BY <1>4, <1>9, <2>1, <2>2
<1>14. ASSUME NEW m \in Nodes
       PROVE  Accounted(m)'
  <2> SUFFICES ASSUME spoilt[m] = {}
               PROVE  Accounted(m)'
      BY <1>1, Zenon DEF Accounted
  <2>1. /\ nnodes[m] \in Nat /\ net[m] \in Nat /\ net'[m] \in Nat /\ socket[m] \in Nat
        /\ Cardinality(Joiners(m)) \in Nat
        BY <1>2, <1>4, JoinersNat, Zenon DEF BusTypes
  <2>2. Cardinality(Joiners(m))' \in Nat
        BY <1>8, <1>9, JoinersNat, FS_AddElement, FS_CardinalityType, Zenon
  <2>3. Accounted(m)
        BY Zenon DEF BusInv, NodeOK
  <2>4. One(Mode[m] = "CLUSTER" /\ boot'[m] \in {"join", "up"})
          = One(Mode[m] = "CLUSTER" /\ boot[m] \in {"join", "up"})
        BY <1>12, Zenon
  <2>5. boot'[m] = "count" <=> boot[m] = "count"
        BY <1>1, <1>3, Zenon
  <2>6. nnodes'[m] + net'[m] + socket'[m] + One(thread'[m] = "count") =
          One(Mode[m] = "CLUSTER" /\ boot'[m] \in {"join", "up"}) + Cardinality(Joiners(m))'
        BY <1>1, <1>13, <2>1, <2>2, <2>3 DEF Accounted, One
  <2> QED BY <1>1, <1>11, <2>3, <2>5, <2>6, Zenon DEF Accounted
<1> QED BY <1>6, <1>10, <1>11, <1>14, Zenon DEF BusInv, NodeOK

\* Nothing has been sent or counted at first.
LEMMA BusStarts ==
  ASSUME BusInit
  PROVE  BusInv
<1>1. BusTypes
      BY Zenon DEF BusInit, BusTypes
<1>2. ASSUME NEW n \in Nodes
      PROVE  NodeOK(n)
  <2>1. /\ boot[n] = "down" /\ known[n] = {} /\ nnodes[n] = 0 /\ net[n] = 0 /\ socket[n] = 0
        /\ edge = {} /\ thread[n] = "wait" /\ spoilt[n] = {}
        BY Zenon DEF BusInit
  <2>2. Joiners(n) = {}
        BY Zenon DEF BusInit, Joiners
  <2>3. Cardinality(Joiners(n)) = 0
        BY <2>2, FS_EmptySet, Zenon
  <2>4. Booted(n)
        BY <2>1, Zenon DEF Booted
  <2>5. Rung(n)
        BY <2>1 DEF Rung, Waiting, One
  <2>6. Accounted(n)
        BY <2>1, <2>3 DEF Accounted, Waiting, One
  <2> QED BY <2>4, <2>5, <2>6, Zenon DEF NodeOK
<1> QED BY <1>1, <1>2, Zenon DEF BusInv

\* A node that has heard everything has counted what there is to count.
LEMMA BusCounted ==
  ASSUME BusInv
  PROVE  JoinersCounted
<1> SUFFICES ASSUME NEW n \in Nodes
             PROVE  /\ "empty" \notin spoilt[n]
                    /\ Heard(n) /\ spoilt[n] = {} =>
                         nnodes[n] = 1 + Cardinality(Joiners(n))
    BY Zenon DEF JoinersCounted
<1>1. "empty" \notin spoilt[n]
      BY Zenon DEF BusInv, NodeOK, Rung
<1>2. nnodes[n] \in Nat /\ socket[n] \in Nat /\ Cardinality(Joiners(n)) \in Nat
      BY JoinersNat, Zenon DEF BusInv, BusTypes
<1>3. Accounted(n)
      BY Zenon DEF BusInv, NodeOK
<1> QED BY <1>1, <1>2, <1>3 DEF Accounted, Waiting, One, Heard

\* With any number of nodes, whichever they join: a node that has heard all
\* there was to hear has counted itself and every node that has put it in its
\* ring, unless a JOIN was lost, duplicated or reported together with another
\* one, or both threads were in nnodes++ at once; and recvfrom is never called
\* on an empty socket.
THEOREM BusCountsJoiners == BusSpec => []JoinersCounted
<1>1. BusInit => BusInv
      BY BusStarts, Zenon
<1>2. BusInv /\ [BusNext]_busVars => BusInv'
  <2> SUFFICES ASSUME BusInv, [BusNext]_busVars
               PROVE  BusInv'
      OBVIOUS
  <2>1. CASE UNCHANGED busVars
    <3>1. UNCHANGED <<boot, known, nnodes, seen, net, socket, edge, thread, spoilt>>
          BY <2>1, Zenon DEF busVars
    <3>2. BusTypes'
          BY <3>1, Zenon DEF BusInv, BusTypes
    <3>3. \A m \in Nodes : SamePorts(m) /\ Same(m)
          BY <3>1, Zenon DEF SamePorts, Same
    <3> QED BY <3>2, <3>3, SameJoiners, LeftAlone, Zenon DEF BusInv
  <2>2. ASSUME NEW n \in Nodes,
               \/ Start(n) \/ AddSelf(n) \/ CountSelf(n) \/ JoinSeed(n)
               \/ Lose(n) \/ Duplicate(n) \/ Arrive(n)
               \/ Wait(n) \/ Recv(n) \/ CountNode(n)
        PROVE  BusInv'
        BY <2>2, StartStep, AddSelfStep, CountSelfStep, JoinStep, LoseStep, DuplicateStep,
           DropStep, ArriveStep, WaitStep, RecvStep, CountNodeStep, Zenon
  <2> QED BY <2>1, <2>2, Zenon DEF BusNext
<1>3. BusInv => JoinersCounted
      BY BusCounted, Zenon
<1> QED BY <1>1, <1>2, <1>3, PTL DEF BusSpec
=============================================================================
