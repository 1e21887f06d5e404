-------------------------------- MODULE Bus ---------------------------------
(***************************************************************************)
(* The cluster bus: how nodes start, alone or by joining another one, and  *)
(* what the IO thread of a node does with the JOIN datagrams it gets.      *)
(*                                                                         *)
(* Datagrams may be lost, duplicated or find nobody who listens.  The      *)
(* socket is in the IO epoll edge triggered: an arrival reports it, once,  *)
(* and the thread receives one datagram for each report.                   *)
(***************************************************************************)
EXTENDS Integers, FiniteSets

CONSTANTS Nodes, NoSeed,
          Mode,   \* node -> "STANDALONE" or "CLUSTER"
          Seed    \* node -> the node it is told to join, or NoSeed

\* Every node has a mode, and a seed or none.
ASSUME BusAssumption ==
  /\ IsFiniteSet(Nodes) /\ NoSeed \notin Nodes
  /\ Mode \in [Nodes -> {"STANDALONE", "CLUSTER"}]
  /\ Seed \in [Nodes -> Nodes \cup {NoSeed}]

VARIABLES boot,    \* node -> how far start_server is: "down", "bound" (the bus
                   \* is in the epoll), "count", "join" or "up"
          known,   \* node -> the hosts of its hash ring, each with the port its
                   \* points are computed from
          nnodes,  \* node -> info.nnodes
          seen,    \* node -> the thread -> info.nnodes as it has read it
          net,     \* node -> datagrams on the way to it
          socket,  \* node -> datagrams received and not read
          edge,    \* nodes whose epoll has the bus to report
          thread,  \* node -> the IO thread: "wait", "recv" or "count"
          spoilt   \* node -> what its count has suffered

busVars == <<boot, known, nnodes, seen, net, socket, edge, thread, spoilt>>

Spoil(n, what) == spoilt' = [spoilt EXCEPT ![n] = @ \cup what]

-----------------------------------------------------------------------------
(* start_server *)

\* Where start_server goes on after the part for CLUSTER mode.
AfterBus(n) == IF Seed[n] = NoSeed THEN "up" ELSE "join"

\* In CLUSTER mode the bus is bound and put in the epoll, where the IO thread,
\* which runs already, hears of it.
Start(n) ==
  /\ boot[n] = "down"
  /\ boot' = [boot EXCEPT ![n] = IF Mode[n] = "CLUSTER" THEN "bound" ELSE AfterBus(n)]
  /\ UNCHANGED <<known, nnodes, seen, net, socket, edge, thread, spoilt>>

\* cluster_add_new_node for the node itself, and the first half of nnodes++.
AddSelf(n) ==
  /\ boot[n] = "bound"
  /\ boot' = [boot EXCEPT ![n] = "count"]
  /\ known' = [known EXCEPT ![n] = @ \cup {<<n, "bus port">>}]
  /\ seen' = [seen EXCEPT ![n].main = nnodes[n]]
  /\ Spoil(n, IF thread[n] = "count" THEN {"race"} ELSE {})
  /\ UNCHANGED <<nnodes, net, socket, edge, thread>>

CountSelf(n) ==
  /\ boot[n] = "count"
  /\ nnodes' = [nnodes EXCEPT ![n] = seen[n].main + 1]
  /\ boot' = [boot EXCEPT ![n] = AfterBus(n)]
  /\ UNCHANGED <<known, seen, net, socket, edge, thread, spoilt>>

\* A JOIN is sent to the seed, which is added without waiting for an answer,
\* under the port it was given and not that of its bus.
JoinSeed(n) ==
  /\ boot[n] = "join"
  /\ net' = [net EXCEPT ![Seed[n]] = @ + 1]
  /\ known' = [known EXCEPT ![n] = @ \cup {<<Seed[n], "port">>}]
  /\ boot' = [boot EXCEPT ![n] = "up"]
  /\ UNCHANGED <<nnodes, seen, socket, edge, thread, spoilt>>

-----------------------------------------------------------------------------
(* The network *)

Lose(n) ==
  /\ net[n] > 0
  /\ net' = [net EXCEPT ![n] = @ - 1]
  /\ Spoil(n, {"loss"})
  /\ UNCHANGED <<boot, known, nnodes, seen, socket, edge, thread>>

Duplicate(n) ==
  /\ net[n] > 0 /\ "duplicate" \notin spoilt[n]  \* bound: once for each node
  /\ net' = [net EXCEPT ![n] = @ + 1]
  /\ Spoil(n, {"duplicate"})
  /\ UNCHANGED <<boot, known, nnodes, seen, socket, edge, thread>>

Arrive(n) ==
  /\ net[n] > 0
  /\ net' = [net EXCEPT ![n] = @ - 1]
  /\ IF boot[n] = "down" \/ Mode[n] = "STANDALONE"
     THEN Spoil(n, {"loss"}) /\ UNCHANGED <<socket, edge>>
     ELSE /\ socket' = [socket EXCEPT ![n] = @ + 1]
          /\ edge' = edge \cup {n}
          /\ Spoil(n, IF n \in edge THEN {"burst"} ELSE {})
  /\ UNCHANGED <<boot, known, nnodes, seen, thread>>

-----------------------------------------------------------------------------
(* The bus in io_worker *)

Wait(n) ==
  /\ thread[n] = "wait" /\ n \in edge
  /\ edge' = edge \ {n}
  /\ thread' = [thread EXCEPT ![n] = "recv"]
  /\ UNCHANGED <<boot, known, nnodes, seen, net, socket, spoilt>>

\* Mutant: receives until the socket is empty, and counts once.
Recv_all(n) ==
  /\ thread[n] = "recv"
  /\ socket' = [socket EXCEPT ![n] = 0]
  /\ thread' = [thread EXCEPT ![n] = "count"]
  /\ seen' = [seen EXCEPT ![n].io = nnodes[n]]
  /\ Spoil(n, (IF socket[n] = 0 THEN {"empty"} ELSE {})
              \cup (IF boot[n] = "count" THEN {"race"} ELSE {}))
  /\ UNCHANGED <<boot, known, nnodes, net, edge>>

\* recvfrom, the unpacking of whatever the buffer holds then, and the first
\* half of nnodes++.
Recv(n) ==
  /\ thread[n] = "recv"
  /\ socket' = [socket EXCEPT ![n] = IF @ = 0 THEN 0 ELSE @ - 1]
  /\ thread' = [thread EXCEPT ![n] = "count"]
  /\ seen' = [seen EXCEPT ![n].io = nnodes[n]]
  /\ Spoil(n, (IF socket[n] = 0 THEN {"empty"} ELSE {})
              \cup (IF boot[n] = "count" THEN {"race"} ELSE {}))
  /\ UNCHANGED <<boot, known, nnodes, net, edge>>

CountNode(n) ==
  /\ thread[n] = "count"
  /\ nnodes' = [nnodes EXCEPT ![n] = seen[n].io + 1]
  /\ thread' = [thread EXCEPT ![n] = "wait"]
  /\ UNCHANGED <<boot, known, seen, net, socket, edge, spoilt>>

BusInit ==
  /\ boot = [n \in Nodes |-> "down"]
  /\ known = [n \in Nodes |-> {}]
  /\ nnodes = [n \in Nodes |-> 0]
  /\ seen = [n \in Nodes |-> [main |-> 0, io |-> 0]]
  /\ net = [n \in Nodes |-> 0]
  /\ socket = [n \in Nodes |-> 0]
  /\ edge = {}
  /\ thread = [n \in Nodes |-> "wait"]
  /\ spoilt = [n \in Nodes |-> {}]

BusNext ==
  \E n \in Nodes :
    \/ Start(n) \/ AddSelf(n) \/ CountSelf(n) \/ JoinSeed(n)
    \/ Lose(n) \/ Duplicate(n) \/ Arrive(n)
    \/ Wait(n) \/ Recv(n) \/ CountNode(n)

BusSpec == BusInit /\ [][BusNext]_busVars

-----------------------------------------------------------------------------
(* Properties *)

Joiners(n) == {m \in Nodes : <<n, "port">> \in known[m]}
Heard(n) ==
  /\ Mode[n] = "CLUSTER" /\ boot[n] = "up"
  /\ thread[n] = "wait" /\ n \notin edge /\ net[n] = 0

\* A node that has heard all there was to hear has counted itself and every
\* node that has put it in its ring ("Total number of cluster nodes since the
\* start", server.h), unless a JOIN was lost or duplicated, a second one came
\* in before the first was reported, or both threads counted at once; and the
\* thread never receives where nothing has arrived.
JoinersCounted ==
  \A n \in Nodes :
    /\ "empty" \notin spoilt[n]
    /\ Heard(n) /\ spoilt[n] = {} => nnodes[n] = 1 + Cardinality(Joiners(n))

\* No datagram that has arrived is left in the socket.
SocketEmptied == \A n \in Nodes : Heard(n) => socket[n] = 0

\* Nodes of one cluster know the same ring ("Joined a cluster", server.c).
RingsAgree ==
  \A n, m \in Nodes :
    Heard(n) /\ Heard(m) /\ <<m, "port">> \in known[n] => known[n] = known[m]
=============================================================================
