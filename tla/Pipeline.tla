------------------------------ MODULE Pipeline ------------------------------
(***************************************************************************)
(* The accept thread, the IO threads and the worker threads of server.c,   *)
(* and what travels between them: a connection is armed in the IO epoll,   *)
(* taken by an IO thread, wrapped with its request in an io_event, handled *)
(* by a worker, armed again for writing and so on.  What a handler does to *)
(* the database is the module Keyspace; here it fills in the reply.        *)
(*                                                                         *)
(* A file descriptor is a number that is used again after a close, lowest  *)
(* first.  An io_event is a slot of memory that is used again after a      *)
(* tfree.  A packet arrives whole.                                         *)
(***************************************************************************)
EXTENDS Integers, FiniteSets, Sequences

CONSTANTS Clients,     \* connections, each made at most once
          IO, Workers, \* the threads of the two pools
          Fds,         \* 1..n: descriptors left for connections
          Slots,       \* memory for io_events
          NONE,
          Kinds,       \* kinds of packets: "good", "bad" (ERRPACKETERR) and
                       \* "big" (ERRMAXREQSIZE)
          Leaves,      \* how a client may go: subset of {"fin", "reset"}
          MaxPackets,  \* bound: packets a client sends
          AcceptMayFail, \* accept may fail although it could succeed
          CountMod     \* nclients and nconnections are counted modulo CountMod

ASSUME KindsAssumption == Kinds \subseteq {"good", "bad", "big"}
ASSUME LeavesAssumption == Leaves \subseteq {"fin", "reset"}
ASSUME NoneAssumption == NONE \notin Clients \cup Fds \cup Slots
ASSUME FdsAssumption == Fds \subseteq Nat /\ IsFiniteSet(Fds)
ASSUME ClientsAssumption == IsFiniteSet(Clients)
ASSUME CountAssumption == CountMod \in Nat \ {0} /\ Cardinality(Clients) < CountMod

VARIABLES peer,    \* client -> "new", "backlog", "open", "fin" or "reset"
          sent,    \* client -> kinds of the packets it sent
          rcvd,    \* client -> how many of them the server has read
          out,     \* client -> requests whose replies its socket got
          file,    \* fd -> the connection it refers to, or NONE
          cl,      \* client -> its struct client: [st, fd]
          reg,     \* fd -> its entry in the IO epoll: [on, ptr], on "none"
                   \* when there is no entry and "off" when it is disarmed
          srv,     \* the listening socket is armed
          acc,     \* the accept thread
          io, wk,  \* the IO and worker threads
          ev,      \* slot -> io_event: [st, client, req, payload]
          wq,      \* slots whose eventfd is armed and written
          counts,  \* <<nclients, nconnections>>
          faults   \* what went wrong: uses of released memory, foreign closes,
                   \* lost updates of the counters, failed calls

vars == <<peer, sent, rcvd, out, file, cl, reg, srv, acc, io, wk, ev, wq, counts, faults>>

NoEntry == [on |-> "none", ptr |-> NONE]
FreeSlot == [st |-> "free", client |-> NONE, req |-> 0, payload |-> "freed"]
IdleIO == [pc |-> "idle", client |-> NONE, slot |-> NONE, counts |-> <<0, 0>>]
IdleWorker == [pc |-> "idle", slot |-> NONE, client |-> NONE, req |-> 0]
IdleAccept == [pc |-> "wait", client |-> NONE, counts |-> <<0, 0>>]

Init ==
  /\ peer = [c \in Clients |-> "new"]
  /\ sent = [c \in Clients |-> <<>>]
  /\ rcvd = [c \in Clients |-> 0]
  /\ out = [c \in Clients |-> <<>>]
  /\ file = [f \in Fds |-> NONE]
  /\ cl = [c \in Clients |-> [st |-> "none", fd |-> NONE]]
  /\ reg = [f \in Fds |-> NoEntry]
  /\ srv = TRUE
  /\ acc = IdleAccept
  /\ io = [t \in IO |-> IdleIO]
  /\ wk = [w \in Workers |-> IdleWorker]
  /\ ev = [e \in Slots |-> FreeSlot]
  /\ wq = {}
  /\ counts = <<0, 0>>
  /\ faults = {}

-----------------------------------------------------------------------------
(* The clients *)

Connect(c) ==
  /\ peer[c] = "new"
  /\ peer' = [peer EXCEPT ![c] = "backlog"]
  /\ UNCHANGED <<sent, rcvd, out, file, cl, reg, srv, acc, io, wk, ev, wq, counts, faults>>

Send(c, kind) ==
  /\ peer[c] \in {"backlog", "open"} /\ Len(sent[c]) < MaxPackets
  /\ sent' = [sent EXCEPT ![c] = Append(@, kind)]
  /\ UNCHANGED <<peer, rcvd, out, file, cl, reg, srv, acc, io, wk, ev, wq, counts, faults>>

Leave(c, how) ==
  /\ \/ peer[c] = "open"
     \/ peer[c] = "fin" /\ how = "reset"
  /\ peer' = [peer EXCEPT ![c] = how]
  /\ UNCHANGED <<sent, rcvd, out, file, cl, reg, srv, acc, io, wk, ev, wq, counts, faults>>

-----------------------------------------------------------------------------
(* Kernel calls *)

Readable(c) == rcvd[c] < Len(sent[c]) \/ peer[c] # "open"
NextPacket(c) == sent[c][rcvd[c] + 1]

\* close: the descriptor is free and its epoll entry is gone.
Close(f) ==
  /\ file' = [file EXCEPT ![f] = NONE]
  /\ reg' = [reg EXCEPT ![f] = NoEntry]

\* EPOLL_CTL_MOD fails when the descriptor has no entry.
epoll_mod(f, on, ptr) ==
  reg' = [reg EXCEPT ![f] = IF @.on = "none" THEN @ ELSE [on |-> on, ptr |-> ptr]]

\* The descriptor of c refers to another connection by now.
Mistaken(c) == IF file[cl[c].fd] \in {NONE, c} THEN {} ELSE {"foreign arm"}

\* Mutant: a client that leaves is only taken off nconnections.
Count_total(cs, d) == <<IF d < 0 THEN cs[1] ELSE (cs[1] + d) % CountMod, (cs[2] + d) % CountMod>>

Count(cs, d) == <<(cs[1] + d) % CountMod, (cs[2] + d) % CountMod>>

\* The counters have changed since they were read.
LostUpdate(read) == IF read = counts THEN {} ELSE {"count"}

-----------------------------------------------------------------------------
(* accept_loop *)

Backlog == {c \in Clients : peer[c] = "backlog"}
FreeFds == {f \in Fds : file[f] = NONE}

\* epoll_wait reports the listening socket, which EPOLLONESHOT disarms.
accept_wait ==
  /\ acc.pc = "wait" /\ srv /\ Backlog # {}
  /\ srv' = FALSE
  /\ acc' = [acc EXCEPT !.pc = "accept"]
  /\ UNCHANGED <<peer, sent, rcvd, out, file, cl, reg, io, wk, ev, wq, counts, faults>>

\* accept_connection, which fails when there is no connection, when there is
\* no descriptor and for reasons of the kernel: the loop is left without
\* rearming.
accept_fails ==
  /\ acc.pc = "accept" /\ (Backlog = {} \/ FreeFds = {} \/ AcceptMayFail)
  /\ acc' = IdleAccept
  /\ faults' = IF Backlog # {} /\ ~srv THEN faults \cup {"accept"} ELSE faults
  /\ UNCHANGED <<peer, sent, rcvd, out, file, cl, reg, srv, io, wk, ev, wq, counts>>

accept_connection(c) ==
  /\ acc.pc = "accept" /\ c \in Backlog
  /\ peer' = [peer EXCEPT ![c] = "open"]
  /\ \E f \in FreeFds :
       /\ \A g \in FreeFds : f <= g
       /\ file' = [file EXCEPT ![f] = c]
       /\ cl' = [cl EXCEPT ![c] = [st |-> "live", fd |-> f]]
  /\ acc' = [acc EXCEPT !.pc = "add", !.client = c]
  /\ UNCHANGED <<sent, rcvd, out, reg, srv, io, wk, ev, wq, counts, faults>>

\* The client is put in the table and in the IO epoll, the listening socket is
\* armed again, and the counters are read.
accept_add ==
  /\ acc.pc = "add"
  /\ LET f == cl[acc.client].fd IN
       reg' = IF file[f] = NONE THEN reg
              ELSE [reg EXCEPT ![f] = [on |-> "in", ptr |-> acc.client]]
  /\ srv' = TRUE
  /\ acc' = [acc EXCEPT !.pc = "count", !.counts = counts]
  /\ UNCHANGED <<peer, sent, rcvd, out, file, cl, io, wk, ev, wq, counts, faults>>

accept_count ==
  /\ acc.pc = "count"
  /\ counts' = Count(acc.counts, 1)
  /\ faults' = faults \cup LostUpdate(acc.counts)
  /\ acc' = [IdleAccept EXCEPT !.pc = "accept"]
  /\ UNCHANGED <<peer, sent, rcvd, out, file, cl, reg, srv, io, wk, ev, wq>>

-----------------------------------------------------------------------------
(* io_worker *)

\* Mutant: no EPOLLONESHOT.
io_wait_armed(t, f) ==
  /\ io[t].pc = "idle" /\ reg[f].on \in {"in", "out"} /\ peer[file[f]] # "reset"
  /\ \/ /\ reg[f].on = "in" /\ Readable(file[f])
        /\ io' = [io EXCEPT ![t] = [IdleIO EXCEPT !.pc = "read", !.client = reg[f].ptr]]
     \/ /\ reg[f].on = "out"
        /\ io' = [io EXCEPT ![t] = [IdleIO EXCEPT !.pc = "write", !.slot = reg[f].ptr,
                                       !.client = ev[reg[f].ptr].client]]
  /\ UNCHANGED <<peer, sent, rcvd, out, file, cl, reg, srv, acc, wk, ev, wq, counts, faults>>

\* epoll_wait reports an armed descriptor, which EPOLLONESHOT disarms.
io_wait(t, f) ==
  /\ io[t].pc = "idle" /\ reg[f].on \in {"in", "out"} /\ peer[file[f]] # "reset"
  /\ \/ /\ reg[f].on = "in" /\ Readable(file[f])
        /\ io' = [io EXCEPT ![t] = [IdleIO EXCEPT !.pc = "read", !.client = reg[f].ptr]]
     \/ /\ reg[f].on = "out"
        /\ io' = [io EXCEPT ![t] = [IdleIO EXCEPT !.pc = "write", !.slot = reg[f].ptr,
                                       !.client = ev[reg[f].ptr].client]]
  /\ reg' = [reg EXCEPT ![f].on = "off"]
  /\ UNCHANGED <<peer, sent, rcvd, out, file, cl, srv, acc, wk, ev, wq, counts, faults>>

\* EPOLL_ERR: close(data.fd) closes nothing, data holds a pointer.
io_error(t, f) ==
  /\ io[t].pc = "idle" /\ reg[f].on \in {"in", "out"} /\ peer[file[f]] = "reset"
  /\ reg' = [reg EXCEPT ![f].on = "off"]
  /\ UNCHANGED <<peer, sent, rcvd, out, file, cl, srv, acc, io, wk, ev, wq, counts, faults>>

\* EPOLLIN: an io_event is allocated and the socket is read.
io_read(t) ==
  /\ io[t].pc = "read"
  /\ \E e \in Slots :
       /\ ev[e].st = "free"
       /\ LET c == io[t].client  f == cl[c].fd  k == file[f] IN
          IF k = NONE \/ peer[k] = "reset" \/ rcvd[k] = Len(sent[k]) \/ NextPacket(k) = "big"
          THEN \* ERRCLIENTDC: read_data closes the descriptor
               /\ Close(f)
               /\ ev' = [ev EXCEPT ![e] = [st |-> "live", client |-> c, req |-> 0,
                                          payload |-> "live"]]
               /\ io' = [io EXCEPT ![t].pc = "dropping", ![t].slot = e, ![t].counts = counts]
               /\ UNCHANGED <<rcvd, wq>>
          ELSE /\ rcvd' = [rcvd EXCEPT ![k] = @ + 1]
               /\ ev' = [ev EXCEPT ![e] = [st |-> "live", client |-> c, req |-> rcvd[k] + 1,
                                          payload |-> "live"]]
               /\ IF NextPacket(k) = "bad"
                  THEN \* ERRPACKETERR: not armed again, the io_event stays
                       io' = [io EXCEPT ![t] = IdleIO] /\ UNCHANGED wq
                  ELSE \* an eventfd is armed in the work epoll and written
                       /\ wq' = wq \cup {e}
                       /\ io' = [io EXCEPT ![t].pc = "stamp", ![t].slot = e]
               /\ UNCHANGED <<file, reg>>
  /\ UNCHANGED <<peer, sent, out, cl, srv, acc, wk, counts, faults>>

\* last_action_time is written through the io_event a worker may have already.
io_stamp(t) ==
  /\ io[t].pc = "stamp"
  /\ faults' = IF ev[io[t].slot].st = "free" THEN faults \cup {"stamp"} ELSE faults
  /\ io' = [io EXCEPT ![t] = IdleIO]
  /\ UNCHANGED <<peer, sent, rcvd, out, file, cl, reg, srv, acc, wk, ev, wq, counts>>

\* read_data: nclients--, nconnections--
io_count(t) ==
  /\ io[t].pc = "dropping"
  /\ counts' = Count(io[t].counts, -1)
  /\ faults' = faults \cup LostUpdate(io[t].counts)
  /\ io' = [io EXCEPT ![t].pc = "drop"]
  /\ UNCHANGED <<peer, sent, rcvd, out, file, cl, reg, srv, acc, wk, ev, wq>>

\* io_worker closes the descriptor again, releases client, payload and event,
\* and then writes last_action_time through the released event.
io_drop(t) ==
  /\ io[t].pc = "drop"
  /\ LET c == io[t].client  f == cl[c].fd IN
       /\ Close(f)
       /\ faults' = faults \cup {"stamp"}
                           \cup (IF file[f] \notin {NONE, c} THEN {"foreign close"} ELSE {})
       /\ cl' = [cl EXCEPT ![c].st = "freed"]
  /\ ev' = [ev EXCEPT ![io[t].slot] = FreeSlot]
  /\ io' = [io EXCEPT ![t] = IdleIO]
  /\ UNCHANGED <<peer, sent, rcvd, out, srv, acc, wk, wq, counts>>

\* EPOLLOUT: the reply is sent; when that fails the descriptor is closed.
io_write(t) ==
  /\ io[t].pc = "write"
  /\ LET e == io[t].slot  f == cl[ev[e].client].fd  k == file[f] IN
       IF k = NONE THEN UNCHANGED <<out, file, reg, faults>>
       ELSE IF peer[k] = "reset"
       THEN Close(f) /\ faults' = faults \cup {"write"} /\ UNCHANGED out
       ELSE /\ out' = [out EXCEPT ![k] = Append(@, <<ev[e].client, ev[e].req>>)]
            /\ UNCHANGED <<file, reg, faults>>
  /\ io' = [io EXCEPT ![t].pc = "rearm"]
  /\ UNCHANGED <<peer, sent, rcvd, cl, srv, acc, wk, ev, wq, counts>>

\* Mutant: forgets to arm the descriptor.
io_rearm_forgets(t) ==
  /\ io[t].pc = "rearm"
  /\ ev' = [ev EXCEPT ![io[t].slot] = FreeSlot]
  /\ io' = [io EXCEPT ![t] = IdleIO]
  /\ UNCHANGED <<peer, sent, rcvd, out, file, cl, reg, srv, acc, wk, wq, counts, faults>>

\* The descriptor is armed for reading again and the io_event released.
io_rearm(t) ==
  /\ io[t].pc = "rearm"
  /\ LET c == ev[io[t].slot].client IN
       epoll_mod(cl[c].fd, "in", c) /\ faults' = faults \cup Mistaken(c)
  /\ ev' = [ev EXCEPT ![io[t].slot] = FreeSlot]
  /\ io' = [io EXCEPT ![t] = IdleIO]
  /\ UNCHANGED <<peer, sent, rcvd, out, file, cl, srv, acc, wk, wq, counts>>

-----------------------------------------------------------------------------
(* worker *)

\* The handler runs and the descriptor is armed for writing the reply.
worker_handle(w, e) ==
  /\ wk[w].pc = "idle" /\ e \in wq
  /\ wq' = wq \ {e}
  /\ faults' = faults \cup (IF ev[e].payload = "freed" THEN {"payload"} ELSE {})
                      \cup Mistaken(ev[e].client)
  /\ epoll_mod(cl[ev[e].client].fd, "out", e)
  /\ wk' = [wk EXCEPT ![w] = [pc |-> "release", slot |-> e, client |-> ev[e].client,
                             req |-> ev[e].req]]
  /\ UNCHANGED <<peer, sent, rcvd, out, file, cl, srv, acc, io, ev, counts>>

\* close(event->io_event) and triedb_request_destroy(event->payload), through
\* an io_event that an IO thread may have released, or allocated again, by now.
worker_release(w) ==
  /\ wk[w].pc = "release"
  /\ LET e == wk[w].slot
         same == ev[e].st = "live" /\ ev[e].client = wk[w].client /\ ev[e].req = wk[w].req
     IN /\ faults' = IF same THEN faults ELSE faults \cup {"event"}
        /\ wq' = wq \ {e}
        /\ ev' = [ev EXCEPT ![e].payload = "freed"]
  /\ wk' = [wk EXCEPT ![w] = IdleWorker]
  /\ UNCHANGED <<peer, sent, rcvd, out, file, cl, reg, srv, acc, io, counts>>

-----------------------------------------------------------------------------

Environment ==
  \E c \in Clients : \/ Connect(c)
                     \/ \E kind \in Kinds : Send(c, kind)
                     \/ \E how \in Leaves : Leave(c, how)

Accept ==
  \/ accept_wait \/ accept_fails \/ accept_add \/ accept_count
  \/ \E c \in Clients : accept_connection(c)

IOThread(t) ==
  \/ io_read(t) \/ io_stamp(t) \/ io_count(t) \/ io_drop(t) \/ io_write(t) \/ io_rearm(t)
  \/ \E f \in Fds : io_wait(t, f) \/ io_error(t, f)

WorkerThread(w) ==
  \/ worker_release(w)
  \/ \E e \in Slots : worker_handle(w, e)

Next ==
  \/ Environment \/ Accept
  \/ \E t \in IO : IOThread(t)
  \/ \E w \in Workers : WorkerThread(w)

\* The scheduler runs every thread that can run; clients owe nothing.
Fairness ==
  /\ WF_vars(Accept)
  /\ \A t \in IO : WF_vars(IOThread(t))
  /\ \A w \in Workers : WF_vars(WorkerThread(w))

Spec == Init /\ [][Next]_vars /\ Fairness

-----------------------------------------------------------------------------
(* Properties *)

\* Where the server may next act on client c: an armed epoll entry, an IO
\* thread that has taken one, an io_event waiting for a worker.
Holders(c) ==
  {<<"in", f>> : f \in {g \in Fds : reg[g].on = "in" /\ reg[g].ptr = c}}
    \cup {<<"out", f>> : f \in {g \in Fds : reg[g].on = "out" /\ ev[reg[g].ptr].client = c}}
    \cup {<<"io", t>> : t \in {u \in IO : io[u].client = c /\ io[u].pc # "stamp"}}
    \cup {<<"work", e>> : e \in {d \in wq : ev[d].client = c}}

\* At no time do two threads serve the same client, and whoever serves it
\* finds its struct client allocated ("we're using EPOLLONESHOT feature to
\* avoid race condition", server.c).
OneHolder ==
  \A c \in Clients : /\ Cardinality(Holders(c)) <= 1
                     /\ Holders(c) # {} => cl[c].st = "live"

\* Whatever the clients send and however they leave, a client gets the replies
\* to its own requests, in the order it sent them, and at most one to each,
\* until a failed write arms a number that is another connection by then.
RepliesInOrder ==
  \/ "foreign arm" \in faults
  \/ \A c \in Clients : /\ out[c] = [i \in DOMAIN out[c] |-> <<c, i>>]
                        /\ Len(out[c]) <= rcvd[c]

\* No io_event is used after it was released: once a worker has passed it back
\* to the IO epoll it belongs to the IO thread ("it will be updated and passed
\* back to the IO epoll loop", server.c).
NoReleasedEvent == faults \cap {"event", "payload"} = {}

\* Serving one client never closes the connection of another.
NoForeignClose == "foreign close" \notin faults

\* An io_event is not used once the connection it belongs to was dropped
\* ("free resources allocated such as io_event structure and paired payload",
\* server.c).
NoStampAfterDrop == "stamp" \notin faults

\* A client that stays and has sent only valid requests is still owed a reply.
Owed(c) ==
  /\ peer[c] \in {"backlog", "open"}
  /\ \A i \in DOMAIN sent[c] : sent[c][i] = "good"
  /\ Len(out[c]) < Len(sent[c])

\* Such a client is answered, whatever the others send and however they leave,
\* unless a worker has used a released io_event, a descriptor was closed or
\* armed under another client, or accept has failed on a connection before it
\* armed the listening socket again.
Served ==
  \A c \in Clients :
    Owed(c) ~> (~Owed(c) \/ faults \ {"stamp", "count", "write"} # {})

\* Every valid request of a client that stays is answered ("the result will be
\* returned back to the IO thread that will write back to the client the
\* response", server.c).
AlwaysServed == \A c \in Clients : Owed(c) ~> ~Owed(c)

\* A client that has sent an invalid packet is read again ("we must free the
\* buffer and reset the handler to the request again, setting EPOLL to
\* EPOLLIN", server.c).
ReadAfterBadPacket ==
  \A c \in Clients :
    (rcvd[c] > 0 /\ rcvd[c] < Len(sent[c]) /\ sent[c][rcvd[c]] = "bad") ~>
      (rcvd[c] > 1 \/ peer[c] # "open")

\* A connection that waits is accepted once a descriptor is free ("Rearm server
\* fd to accept new connections", server.c).
AcceptedWhenFree ==
  \A c \in Clients : (peer[c] = "backlog" /\ FreeFds # {}) ~> (peer[c] # "backlog" \/ FreeFds = {})

\* nconnections never decreases ("Total number of clients connected since the
\* start", server.h).
ConnectionsGrow == [][counts'[2] >= counts[2]]_counts

\* nclients is the number of open connections when no thread is counting
\* ("Number of clients currently connected", server.h), unless the main thread
\* and an IO thread have updated it at the same time, the connection of another
\* client was closed or a write has failed; then too it is not lower than the
\* number of open connections.
ClientsExact ==
  /\ acc.pc \in {"wait", "accept"} /\ (\A t \in IO : io[t].pc \notin {"dropping", "drop"})
  /\ faults \cap {"count", "foreign close"} = {}
  => LET open == Cardinality({f \in Fds : file[f] # NONE})
     IN  counts[1] = open \/ ("write" \in faults /\ counts[1] > open)
=============================================================================
