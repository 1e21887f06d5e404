------------------------------- MODULE RingOps ------------------------------
(***************************************************************************)
(* Lookup in the consistent hash ring of cluster.c.  The ring is the list  *)
(* of its nodes, real and virtual, in the order of their upper bounds.     *)
(***************************************************************************)
EXTENDS Integers, Sequences

\* Where the walk of cluster_get_node ends: the first node whose next one, if
\* there is one, has a bound that is not below the hash.
StopAt(ring, h) ==
  CHOOSE i \in 1..Len(ring) :
    /\ i = Len(ring) \/ ring[i + 1].upper_bound >= h
    /\ \A j \in 1..i - 1 : ring[j + 1].upper_bound < h

\* Mutant: a hash past the last node stays with the last node.
cluster_get_node_last(ring, h) ==
  LET cur == StopAt(ring, h)
  IN  IF Len(ring) = 1 THEN ring[1]
      ELSE IF cur = Len(ring) /\ ring[cur].upper_bound < h THEN ring[cur]
      ELSE IF h > ring[cur].upper_bound THEN ring[cur + 1] ELSE ring[cur]

cluster_get_node(ring, h) ==
  LET cur == StopAt(ring, h)
  IN  IF Len(ring) = 1 THEN ring[1]
      ELSE IF cur = Len(ring) /\ ring[cur].upper_bound < h THEN ring[1]
      ELSE IF h > ring[cur].upper_bound THEN ring[cur + 1] ELSE ring[cur]

\* What a lookup in a ring means: the first node at or after the hash, going
\* round.
IsSuccessor(ring, h, node) ==
  LET after == {i \in 1..Len(ring) : ring[i].upper_bound >= h}
  IN  \E i \in 1..Len(ring) :
        /\ node = ring[i]
        /\ IF after = {} THEN \A j \in 1..Len(ring) : ring[i].upper_bound <= ring[j].upper_bound
           ELSE i \in after /\ \A j \in after : ring[i].upper_bound <= ring[j].upper_bound
=============================================================================
