-------------------------------- MODULE Ring --------------------------------
(***************************************************************************)
(* The hash ring of cluster.c as nodes join it: each one adds its own      *)
(* point and a number of virtual ones, every point by pushing it on the    *)
(* list and merge sorting the list (list.c).  Points are a checksum of the *)
(* address and may coincide.                                               *)
(***************************************************************************)
EXTENDS RingOps, MergeSort, FiniteSets, SequencesExt

CONSTANTS Hosts,
          RING_SIZE,  \* 4096 in the code
          replicas    \* virtual nodes of each host

\* What is assumed of the constants.
RingAssumption == RING_SIZE \in Nat \ {0} /\ replicas \in Nat

VARIABLES nodes,  \* the list
          size,   \* hosts that joined
          adding  \* the host being added, or <<>>, and how many of its points
                  \* are in

vars == <<nodes, size, adding>>

Points == 0..RING_SIZE - 1

-----------------------------------------------------------------------------
(* cluster_add_new_node, one insert_node at a time *)

insert_node(host, ub, vnode) ==
  /\ nodes' = list_merge_sort(<<[host |-> host, upper_bound |-> ub, vnode |-> vnode]>>
                              \o nodes)
  /\ size' = IF vnode THEN size ELSE size + 1

Joined == {nodes[i].host : i \in 1..Len(nodes)}

AddNode(host, ub) ==
  /\ adding = <<>> /\ host \notin Joined
  /\ insert_node(host, ub, FALSE)
  /\ adding' = IF replicas = 0 THEN <<>> ELSE <<host, replicas>>

AddReplica(ub) ==
  /\ adding # <<>>
  /\ insert_node(adding[1], ub, TRUE)
  /\ adding' = IF adding[2] = 1 THEN <<>> ELSE <<adding[1], adding[2] - 1>>

Init == nodes = <<>> /\ size = 0 /\ adding = <<>>

Next == \E ub \in Points : AddReplica(ub) \/ \E h \in Hosts : AddNode(h, ub)

Spec == Init /\ [][Next]_vars

-----------------------------------------------------------------------------
(* Properties *)

Owner(ring, h) == cluster_get_node(ring, h).host

\* cluster_get_node finds the first node at or after a hash, going round, for
\* every hash of the ring and whichever points coincide ("Retrieve the cluster
\* node which a given hash belong to").
LookupIsSuccessor ==
  nodes # <<>> =>
    \A h \in Points : IsSuccessor(nodes, h, cluster_get_node(nodes, h))

\* Consistent hashing: a point that is added takes hashes over from the hosts
\* that had them, and moves none between two hosts that were there.
MovesOnlyToNewcomer ==
  [][nodes # <<>> =>
       \A h \in Points :
         \/ Owner(nodes', h) = Owner(nodes, h)
         \/ adding # <<>> /\ Owner(nodes', h) = adding[1]
         \/ adding = <<>> /\ Owner(nodes', h) \notin Joined]_vars
=============================================================================
