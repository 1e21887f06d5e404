--------------------------- MODULE PipelineSafety ---------------------------
(***************************************************************************)
(* Proofs about Pipeline that rest on PipelineProofs: the order of the     *)
(* replies, with the one IO thread that the server has, the holders of a   *)
(* client and info.nclients, with any number of them.                      *)
(***************************************************************************)
EXTENDS PipelineProofs, FiniteSetTheorems

-----------------------------------------------------------------------------
(* Replies, with one IO thread *)

OneIO == \A t, u \in IO : t = u

Sound == "foreign arm" \notin faults

\* The descriptor of a client that has work to do refers to it.
Own ==
  /\ \A f \in Fds : Armed(f) => file[f] = Guest(f)
  /\ \A t \in IO : io[t].pc \in {"read", "write"} => file[cl[io[t].client].fd] = io[t].client
  /\ \A e \in wq : file[cl[ev[e].client].fd] = ev[e].client

\* A client that was given the descriptor of one being dropped has not been
\* read yet.
Untouched ==
  \A t \in IO : io[t].pc \in {"dropping", "drop"} =>
    LET k == file[cl[io[t].client].fd] IN
      /\ \A e \in wq : ev[e].client # k
      /\ \A f \in Fds : Out(f) => Guest(f) # k

InOrder(c, s) == s = [i \in DOMAIN s |-> <<c, i>>]
Answered(c) == Len(out[c]) = rcvd[c]
Pending(c, e) == ev[e].req = rcvd[c] /\ rcvd[c] = Len(out[c]) + 1
EntryNumber(f) == IF Out(f) THEN Pending(Guest(f), reg[f].ptr) ELSE Answered(Guest(f))

\* The replies a client has got are those to its requests 1, 2, ...; a client
\* that waits to be read has got them all and one that waits to be written has
\* got all but the one in its io_event.
Numbered ==
  /\ \A c \in Clients : InOrder(c, out[c]) /\ Len(out[c]) <= rcvd[c]
  /\ \A c \in Clients : cl[c].st = "none" => Answered(c)
  /\ acc.pc = "add" => Answered(acc.client)
  /\ \A f \in Fds : Armed(f) => EntryNumber(f)
  /\ \A t \in IO : io[t].pc = "read" => Answered(io[t].client)
  /\ \A t \in IO : io[t].pc = "write" => Pending(io[t].client, io[t].slot)
  /\ \A t \in IO : io[t].pc = "rearm" /\ file[cl[io[t].client].fd] = io[t].client =>
       Answered(io[t].client)
  /\ \A e \in wq : Pending(ev[e].client, e)

ROk == Own /\ Untouched /\ Numbered

RInv == Sound => ROk

\* A fault is not forgotten.
LEMMA FaultsGrow == TypeOK /\ Allocated /\ [Next]_vars => faults \subseteq faults'
<1> SUFFICES ASSUME TypeOK, Allocated, [Next]_vars PROVE faults \subseteq faults'
    OBVIOUS
<1>1. CASE UNCHANGED vars \/ Environment
      BY <1>1, EnvironmentCases, Zenon DEF vars
<1>2. CASE Accept
      BY <1>2, ZenonT(30) DEF Accept, accept_wait, accept_fails, accept_add, accept_count, accept_connection
<1>3. ASSUME NEW t \in IO, IOThread(t) PROVE faults \subseteq faults'
      BY <1>3, WriteCases, Zenon DEF IOThread, io_read, io_stamp, io_count, io_drop, io_rearm, io_wait, io_error
<1>4. ASSUME NEW w \in Workers, WorkerThread(w) PROVE faults \subseteq faults'
      BY <1>4, Zenon DEF WorkerThread, worker_release, worker_handle
<1> QED BY <1>1, <1>2, <1>3, <1>4, Zenon DEF Next

\* Nothing that ROk speaks of has changed, or there is less of it.
LEMMA QuietReplies ==
  ASSUME IInv, ROk, UNCHANGED <<rcvd, out, file, cl, io>>, acc'.pc = "add" => UNCHANGED acc,
         \A f \in Fds : reg'[f] = reg[f] \/ ~Armed(f)',
         \A e \in Slots : ev'[e].client = ev[e].client /\ ev'[e].req = ev[e].req,
         wq' \subseteq wq
  PROVE  ROk'
<1>1. Allocated /\ wq \subseteq Slots
      BY Zenon DEF IInv, TypeOK
<1>2. \A f \in Fds : Armed(f)' => /\ Armed(f) /\ Guest(f)' = Guest(f) /\ reg'[f] = reg[f]
                                  /\ Out(f)' <=> Out(f)
  <2> SUFFICES ASSUME NEW f \in Fds, Armed(f)' PROVE /\ Armed(f) /\ Guest(f)' = Guest(f) /\ reg'[f] = reg[f]
                                                     /\ Out(f)' <=> Out(f)
      OBVIOUS
  <2>1. reg'[f] = reg[f]
        OBVIOUS
  <2>2. Out(f) => ev'[reg[f].ptr].client = ev[reg[f].ptr].client
        BY <1>1, Zenon DEF Allocated, EntriesLive
  <2> QED BY <2>1, <2>2, EntryKept, Zenon
<1>3. \A f \in Fds : Out(f)' => Armed(f)'
      BY Zenon DEF Out, Armed
<1>4. Own'
      BY <1>1, <1>2, Zenon DEF ROk, Own
<1>5. Untouched'
      BY <1>1, <1>2, <1>3 DEF ROk, Untouched
<1>6. Numbered'
  <2>1. \A f \in Fds : Armed(f)' => EntryNumber(f)'
        BY <1>1, <1>2 DEF ROk, Numbered, EntryNumber, Pending, Answered, Allocated, EntriesLive
  <2>2. \A e \in wq' : Pending(ev[e].client, e)'
        BY <1>1, Zenon DEF ROk, Numbered, Pending
  <2>3. \A t \in IO : /\ io'[t].pc = "read" => Answered(io[t].client)'
                      /\ io'[t].pc = "write" => Pending(io[t].client, io[t].slot)'
                      /\ io'[t].pc = "rearm" /\ file'[cl'[io'[t].client].fd] = io'[t].client =>
                           Answered(io[t].client)'
        BY <1>1, Zenon DEF ROk, Numbered, Pending, Answered, Allocated, ThreadsLive, Carrying
  <2> QED BY <2>1, <2>2, <2>3, Zenon DEF ROk, Numbered, Answered
<1> QED BY <1>4, <1>5, <1>6, Zenon DEF ROk

\* An armed entry that is left alone keeps its number.
LEMMA EntryNumbered ==
  ASSUME Numbered, NEW f \in Fds, Armed(f), reg'[f] = reg[f],
         Out(f) => /\ ev'[reg[f].ptr].client = ev[reg[f].ptr].client
                   /\ ev'[reg[f].ptr].req = ev[reg[f].ptr].req,
         rcvd'[Guest(f)] = rcvd[Guest(f)], out'[Guest(f)] = out[Guest(f)]
  PROVE  EntryNumber(f)'
<1>1. EntryNumber(f)
      BY Zenon DEF Numbered
<1>2. Guest(f)' = Guest(f) /\ (Out(f)' <=> Out(f))
      BY EntryKept, Zenon
<1>3. CASE Out(f)
      BY <1>1, <1>2, <1>3, Zenon DEF EntryNumber, Pending
<1>4. CASE ~Out(f)
      BY <1>1, <1>2, <1>4, Zenon DEF EntryNumber, Answered
<1> QED BY <1>3, <1>4, Zenon

\* The one IO thread goes on without touching a client.
LEMMA GoesOnReplies ==
  ASSUME IInv, ROk, OneIO, NEW t \in IO, UNCHANGED <<rcvd, out, file, cl, reg, acc, ev, wq>>,
         \/ io[t].pc = "stamp" /\ IOGoes(t, "idle", NONE, NONE)
         \/ io[t].pc = "dropping" /\ IOGoes(t, "drop", io[t].client, io[t].slot)
  PROVE  ROk'
<1>1. \A f \in Fds : (Armed(f)' <=> Armed(f)) /\ (Out(f)' <=> Out(f)) /\ (Guest(f)' = Guest(f))
      BY Zenon DEF Armed, Out, Guest
<1>2. /\ \A u \in IO : u = t
      /\ \/ io'[t].pc = "idle"
         \/ io'[t].pc = "drop" /\ io[t].pc = "dropping" /\ io'[t].client = io[t].client
      BY Zenon DEF OneIO, IOGoes
<1>3. Own'
      BY <1>1, <1>2, Zenon DEF ROk, Own
<1>4. Untouched'
      BY <1>1, <1>2, Zenon DEF ROk, Untouched
<1>5. Numbered'
      BY <1>1, <1>2, Zenon DEF ROk, Numbered, EntryNumber, Answered, Pending
<1> QED BY <1>3, <1>4, <1>5, Zenon DEF ROk

\* A report preserves the order of replies.
LEMMA WaitReplies ==
  ASSUME IInv, ROk, OneIO, NEW t \in IO, NEW f \in Fds, io_wait(t, f)
  PROVE  ROk'
<1>1. TypeOK /\ Allocated
      BY Zenon DEF IInv
<1>2. /\ Armed(f) /\ WaitTakes(t, f)
      /\ UNCHANGED <<peer, rcvd, out, file, cl, acc, wk, ev, wq, counts>>
      BY <1>1, WaitCases, Zenon
<1>3. \A g \in Fds : Armed(g)' => Armed(g) /\ reg'[g] = reg[g] /\ Guest(g)' = Guest(g) /\ (Out(g)' <=> Out(g))
      BY <1>2, Zenon DEF WaitTakes, EntryGoes, Armed, Guest, Out
<1>4. \A g \in Fds : Out(g)' => Armed(g)'
      BY Zenon DEF Out, Armed
<1>5. /\ \A u \in IO : u = t
      /\ io'[t].client = Guest(f)
      /\ \/ io'[t].pc = "read" /\ ~Out(f)
         \/ io'[t].pc = "write" /\ Out(f) /\ io'[t].slot = reg[f].ptr
      BY <1>2, Zenon DEF OneIO, WaitTakes, IOGoes, Out
<1>6. cl[Guest(f)].fd = f /\ file[f] = Guest(f)
      BY <1>1, <1>2, Zenon DEF Allocated, EntriesLive, ROk, Own
<1>7. Own'
      BY <1>2, <1>3, <1>5, <1>6, Zenon DEF ROk, Own
<1>8. Untouched'
      BY <1>5, Zenon DEF Untouched
<1>9. Numbered'
  <2>1. \A g \in Fds : Armed(g)' => EntryNumber(g)'
        BY <1>2, <1>3 DEF ROk, Numbered, EntryNumber, Pending, Answered
  <2>2. \A u \in IO : /\ io'[u].pc = "read" => Answered(io[u].client)'
                      /\ io'[u].pc = "write" => Pending(io[u].client, io[u].slot)'
                      /\ io'[u].pc # "rearm"
        BY <1>2, <1>5 DEF ROk, Numbered, EntryNumber, Pending, Answered
  <2> QED BY <1>2, <2>1, <2>2, Zenon DEF ROk, Numbered, Answered, Pending
<1> QED BY <1>7, <1>8, <1>9, Zenon DEF ROk

\* io_read preserves it when it drops the client.
LEMMA ReadDropsReplies ==
  ASSUME IInv, ROk, OneIO, NEW t \in IO, NEW e \in Slots, ev[e].st = "free", ReadDrops(t, e),
         io[t].pc = "read", NEW c, c = io[t].client, NEW f, f = cl[c].fd,
         UNCHANGED <<peer, out, cl, acc, wk, counts, faults>>
  PROVE  ROk'
<1>1. Allocated /\ ClientsApart /\ wq \subseteq Slots /\ NONE \notin Clients
      BY NoneAssumption, Zenon DEF IInv, TypeOK
<1>2. Serving(t) /\ c \in Clients /\ f \in Fds /\ file[f] = c
      BY <1>1, Zenon DEF Serving, Allocated, ThreadsLive, OthersLive, Live, ROk, Own
<1>3. /\ \A d \in Slots : d # e => ev'[d] = ev[d]
      /\ \A g \in Fds : g # f => file'[g] = file[g] /\ reg'[g] = reg[g]
      /\ file'[f] = NONE /\ reg'[f].on = "none"
      /\ UNCHANGED <<rcvd, wq>> /\ e \notin wq
      /\ io'[t].pc = "dropping" /\ io'[t].client = c /\ \A u \in IO : u = t
      BY <1>1, Zenon DEF ReadDrops, EventGoes, Closes, EntryGoes, IOGoes, Allocated, OthersLive, OneIO
<1>4. \A g \in Fds : Armed(g)' => /\ g # f /\ Armed(g) /\ reg'[g] = reg[g] /\ Guest(g)' = Guest(g)
                                  /\ (Out(g)' <=> Out(g)) /\ (Out(g) => reg[g].ptr # e)
  <2>1. ~Armed(f)'
        BY <1>3, Zenon DEF Armed
  <2>2. ASSUME NEW g \in Fds, g # f
        PROVE  reg'[g] = reg[g] /\ (Out(g) => reg[g].ptr # e /\ ev'[reg[g].ptr] = ev[reg[g].ptr])
        BY <1>1, <1>3, <2>2, Zenon DEF Allocated, EntriesLive
  <2> QED BY <2>1, <2>2, EntryKept, Zenon
<1>5. \A d \in wq : ev'[d] = ev[d] /\ Live(ev[d].client) /\ ev[d].client # c /\ cl[ev[d].client].fd # f
  <2>1. ASSUME NEW d \in wq PROVE ev'[d] = ev[d] /\ Live(ev[d].client) /\ ev[d].client # c
        BY <1>1, <1>2, <1>3 DEF Allocated, OthersLive, ClientsApart
  <2> QED BY <2>1, SMTT(30) DEF ROk, Own
<1>6. Own'
  <2>1. \A d \in wq' : file'[cl'[ev'[d].client].fd] = ev'[d].client
    <3> SUFFICES ASSUME NEW d \in wq PROVE file'[cl[ev[d].client].fd] = ev[d].client
        BY <1>3, <1>5, Zenon
    <3>1. cl[ev[d].client].fd \in Fds
          BY <1>1, <1>5, Zenon DEF Allocated, OthersLive, Live
    <3> QED BY <1>3, <1>5, <3>1, Zenon DEF ROk, Own
  <2> QED BY <1>3, <1>4, <2>1, Zenon DEF ROk, Own
<1>7. Untouched'
  <2>1. \A g \in Fds : Out(g)' => Guest(g)' \in Clients
        BY <1>1, <1>4, Zenon DEF Allocated, EntriesLive, Live, Armed, Out
  <2>2. \A d \in wq' : ev'[d].client \in Clients
        BY <1>3, <1>5, Zenon DEF Live
  <2> QED BY <1>1, <1>3, <2>1, <2>2, ZenonT(60) DEF Untouched
<1>8. Numbered'
  <2>1. \A g \in Fds : Armed(g)' => EntryNumber(g)'
    <3> SUFFICES ASSUME NEW g \in Fds, Armed(g)' PROVE EntryNumber(g)'
        BY Zenon
    <3>1. Out(g) => ev'[reg[g].ptr] = ev[reg[g].ptr]
          BY <1>1, <1>3, <1>4, Zenon DEF Allocated, EntriesLive
    <3> QED BY <1>3, <1>4, <3>1, EntryNumbered, Zenon DEF ROk
  <2>2. \A d \in wq' : Pending(ev[d].client, d)'
        BY <1>3, <1>5, Zenon DEF ROk, Numbered, Pending
  <2> QED BY <1>3, <2>1, <2>2, Zenon DEF ROk, Numbered, Answered
<1> QED BY <1>6, <1>7, <1>8, Zenon DEF ROk

\* io_read preserves it when it hands a packet on, which takes the next number.
LEMMA ReadGetsReplies ==
  ASSUME IInv, ROk, OneIO, NEW t \in IO, NEW e \in Slots, ev[e].st = "free", NEW k \in Clients,
         ReadGets(t, e, k), io[t].pc = "read", UNCHANGED <<peer, out, cl, acc, wk, counts, faults>>
  PROVE  ROk'
<1>1. /\ Allocated /\ ClientsApart /\ Newcomer /\ wq \subseteq Slots
      /\ rcvd \in [Clients -> Nat] /\ out \in [Clients -> Replies]
      BY Zenon DEF IInv, TypeOK
<1>2. Serving(t) /\ k = io[t].client /\ Live(k) /\ file[cl[k].fd] = k /\ Answered(k)
      BY <1>1, Zenon DEF Serving, Allocated, ThreadsLive, ROk, Own, Numbered, ReadGets
<1>3. /\ \A d \in Slots : d # e => ev'[d] = ev[d]
      /\ ev'[e].client = k /\ ev'[e].req = rcvd[k] + 1
      /\ UNCHANGED <<file, reg>> /\ e \notin wq /\ wq' \subseteq wq \cup {e}
      /\ io'[t].pc \in {"idle", "stamp"} /\ \A u \in IO : u = t
      BY <1>1, <1>2, Zenon DEF ReadGets, EventGoes, IOGoes, Allocated, OthersLive, OneIO
<1>4. rcvd'[k] = rcvd[k] + 1 /\ \A d \in Clients : d # k => rcvd'[d] = rcvd[d]
  <2>1. rcvd' = [rcvd EXCEPT ![k] = @ + 1]
        BY Zenon DEF ReadGets
  <2> QED BY <1>1, <2>1, Zenon
<1>5. \A g \in Fds : Armed(g)' => /\ Armed(g) /\ Guest(g)' = Guest(g) /\ Guest(g) # k /\ Guest(g) \in Clients
                                  /\ Out(g) => ev'[reg[g].ptr] = ev[reg[g].ptr]
  <2>1. ASSUME NEW g \in Fds PROVE Out(g) => ev'[reg[g].ptr] = ev[reg[g].ptr]
        BY <1>1, <1>3, Zenon DEF Allocated, EntriesLive
  <2>2. ASSUME NEW g \in Fds PROVE (Armed(g)' <=> Armed(g)) /\ (Armed(g) => Guest(g)' = Guest(g))
        BY <1>3, <2>1, EntryKept, Zenon
  <2> QED BY <1>1, <1>2, <2>1, <2>2, Zenon DEF ClientsApart, Allocated, EntriesLive, Live
<1>6. \A d \in wq : ev'[d] = ev[d] /\ ev[d].client # k /\ ev[d].client \in Clients
      BY <1>1, <1>2, <1>3 DEF ClientsApart, Allocated, OthersLive, Live
<1>7. Own'
      BY <1>2, <1>3, <1>5, <1>6, Zenon DEF ROk, Own
<1>8. Untouched'
      BY <1>3, Zenon DEF Untouched
<1>9. Numbered'
  <2>1. \A g \in Fds : Armed(g)' => EntryNumber(g)'
    <3> SUFFICES ASSUME NEW g \in Fds, Armed(g)' PROVE EntryNumber(g)'
        BY ZenonT(30)
    <3> QED BY <1>3, <1>4, <1>5, EntryNumbered, Zenon DEF ROk
  <2>2. \A d \in wq' : Pending(ev[d].client, d)'
    <3>1. Pending(ev[e].client, e)'
          BY <1>2, <1>3, <1>4, Zenon DEF Pending, Answered
    <3>2. \A d \in wq : Pending(ev[d].client, d)'
          BY <1>4, <1>6 DEF ROk, Numbered, Pending
    <3> QED BY <1>3, <3>1, <3>2, Zenon
  <2>3. \A c \in Clients : InOrder(c, out'[c]) /\ Len(out'[c]) <= rcvd'[c]
    <3>1. \A c \in Clients : Len(out[c]) \in Nat /\ rcvd[c] \in Nat
          BY <1>1
    <3> QED BY <1>4, <3>1 DEF ROk, Numbered
  <2>4. \A c \in Clients : cl'[c].st = "none" => Answered(c)'
        BY <1>2, <1>4, Zenon DEF ROk, Numbered, Answered, Live
  <2>5. acc'.pc = "add" => Answered(acc.client)'
        BY <1>1, <1>2, <1>4 DEF ROk, Numbered, Answered, Newcomer, Allocated, OthersLive, Live
  <2> QED BY <1>3, <2>1, <2>2, <2>3, <2>4, <2>5, Zenon DEF Numbered
<1> QED BY <1>7, <1>8, <1>9, Zenon DEF ROk

\* The release of a client preserves it.
LEMMA DropReplies ==
  ASSUME IInv, Descriptors, ROk, OneIO, NEW t \in IO, io_drop(t), NEW c, c = io[t].client,
         NEW f, f = cl[c].fd, NEW e, e = io[t].slot
  PROVE  ROk'
<1>1. TypeOK /\ Allocated /\ ClientsApart /\ EventsApart /\ Newcomer /\ wq \subseteq Slots
      BY Zenon DEF IInv, TypeOK
<1>2. /\ io[t].pc = "drop" /\ IOGoes(t, "idle", NONE, NONE) /\ Closes(f)
      /\ EventGoes(e, "free", NONE, 0)
      /\ cl'[c].st = "freed" /\ cl'[c].fd = f /\ \A d \in Clients : d # c => cl'[d] = cl[d]
      /\ UNCHANGED <<peer, rcvd, out, acc, wk, wq, counts>>
      BY <1>1, DropCases, Zenon
<1>3. Serving(t) /\ Carrying(t) /\ c \in Clients /\ f \in Fds /\ e \in Slots
      BY <1>1, <1>2 DEF Serving, Carrying, Allocated, ThreadsLive, OthersLive, Live
<1>4. /\ \A d \in Slots : d # e => ev'[d] = ev[d]
      /\ \A g \in Fds : g # f => file'[g] = file[g] /\ reg'[g] = reg[g]
      /\ reg'[f].on = "none"
      /\ io'[t].pc = "idle" /\ \A u \in IO : u = t
      BY <1>2, Zenon DEF EventGoes, Closes, EntryGoes, IOGoes, OneIO
<1>5. \A g \in Fds : Armed(g)' => /\ g # f /\ Armed(g) /\ reg'[g] = reg[g] /\ Guest(g)' = Guest(g)
                                  /\ Out(g) => ev'[reg[g].ptr] = ev[reg[g].ptr]
  <2>1. ~Armed(f)'
        BY <1>4, Zenon DEF Armed
  <2>2. ASSUME NEW g \in Fds, g # f
        PROVE  reg'[g] = reg[g] /\ (Out(g) => ev'[reg[g].ptr] = ev[reg[g].ptr])
        BY <1>1, <1>3, <1>4, <2>2, Zenon DEF EventsApart, Allocated, EntriesLive
  <2> QED BY <2>1, <2>2, EntryKept, Zenon
<1>6. \A d \in wq : /\ ev'[d] = ev[d] /\ ev[d].client \in Clients /\ cl'[ev[d].client] = cl[ev[d].client]
                    /\ cl[ev[d].client].fd \in Fds /\ cl[ev[d].client].fd # f
  <2> SUFFICES ASSUME NEW d \in wq
               PROVE  /\ ev'[d] = ev[d] /\ ev[d].client \in Clients /\ cl'[ev[d].client] = cl[ev[d].client]
                      /\ cl[ev[d].client].fd \in Fds /\ cl[ev[d].client].fd # f
      BY SMTT(30)
  <2>1. ev'[d] = ev[d] /\ ev[d].client \in Clients /\ ev[d].client # c /\ cl[ev[d].client].fd \in Fds
        BY <1>1, <1>3, <1>4 DEF EventsApart, ClientsApart, Allocated, OthersLive, Live
  <2>2. ev[d].client # file[f]
        BY <1>2, Zenon DEF ROk, Untouched
  <2>3. file[cl[ev[d].client].fd] = ev[d].client
        BY Zenon DEF ROk, Own
  <2> QED BY <1>2, <2>1, <2>2, <2>3, Zenon
<1>7. Own'
      BY <1>2, <1>4, <1>5, <1>6 DEF ROk, Own
<1>8. Untouched'
      BY <1>4, Zenon DEF Untouched
<1>9. Numbered'
  <2>1. \A g \in Fds : Armed(g)' => EntryNumber(g)'
    <3> SUFFICES ASSUME NEW g \in Fds, Armed(g)' PROVE EntryNumber(g)'
        BY Zenon
    <3> QED BY <1>2, <1>5, EntryNumbered, Zenon DEF ROk
  <2>2. \A d \in wq' : Pending(ev[d].client, d)'
        BY <1>2, <1>6, ZenonT(60) DEF ROk, Numbered, Pending
  <2>3. \A d \in Clients : cl'[d].st = "none" => Answered(d)'
        BY <1>2, Zenon DEF ROk, Numbered, Answered
  <2> QED BY <1>2, <1>4, <2>1, <2>2, <2>3, Zenon DEF ROk, Numbered, Answered
<1> QED BY <1>7, <1>8, <1>9, Zenon DEF ROk

\* A reply numbered one more than the last keeps the numbers in order.
LEMMA AppendNumber ==
  ASSUME NEW c \in Clients, NEW s \in Replies, InOrder(c, s)
  PROVE  LET r == Append(s, <<c, Len(s) + 1>>) IN InOrder(c, r) /\ Len(r) = Len(s) + 1
<1> DEFINE r == Append(s, <<c, Len(s) + 1>>)
<1>0. \A i \in DOMAIN s : s[i] = <<c, i>>
      BY Zenon DEF InOrder
<1>1. s \in Seq(Clients \X Nat) /\ Len(s) \in Nat /\ DOMAIN s = 1..Len(s)
      BY DEF Replies
<1>2. /\ r \in Seq(Clients \X Nat) /\ Len(r) = Len(s) + 1 /\ DOMAIN r = 1..Len(s) + 1
      /\ r[Len(s) + 1] = <<c, Len(s) + 1>> /\ \A i \in 1..Len(s) : r[i] = s[i]
      BY <1>1
<1>3. \A i \in DOMAIN r : r[i] = <<c, i>>
      BY <1>0
<1>4. r = [i \in DOMAIN r |-> r[i]]
      OBVIOUS
<1> QED BY <1>2, <1>3, <1>4, Zenon DEF InOrder

\* The write of a reply preserves it: the reply carries the number that is due.
LEMMA WriteReplies ==
  ASSUME IInv, ROk, OneIO, NEW t \in IO, io_write(t), NEW c, c = io[t].client,
         NEW f, f = cl[c].fd, NEW e, e = io[t].slot
  PROVE  ROk'
<1>1. /\ TypeOK /\ Allocated /\ ClientsApart /\ Newcomer /\ wq \subseteq Slots
      /\ rcvd \in [Clients -> Nat] /\ out \in [Clients -> Replies]
      BY Zenon DEF IInv, TypeOK
<1>2. /\ io[t].pc = "write" /\ IOGoes(t, "rearm", c, e)
      /\ \/ file[f] = NONE
         \/ Closes(f) /\ UNCHANGED out
         \/ /\ out' = [out EXCEPT ![file[f]] = Append(@, <<c, ev[e].req>>)]
            /\ UNCHANGED <<file, reg>>
      /\ UNCHANGED <<peer, rcvd, cl, acc, wk, ev, wq, counts>>
      BY <1>1, WriteCases, Zenon
<1>3. /\ Serving(t) /\ c \in Clients /\ cl[c].st = "live" /\ f \in Fds /\ file[f] = c /\ Pending(c, e)
      BY <1>1, <1>2, Zenon DEF Serving, Allocated, ThreadsLive, OthersLive, Live, ROk, Own, Numbered
<1>4. io'[t].pc = "rearm" /\ io'[t].client = c /\ \A u \in IO : u = t
      BY <1>2, Zenon DEF IOGoes, OneIO
<1>5. \A d \in Clients : d # c => out'[d] = out[d]
      BY <1>1, <1>2, <1>3, NoneAssumption, Zenon
<1>6. /\ \A g \in Fds : g # f => file'[g] = file[g] /\ reg'[g] = reg[g]
      /\ file'[f] = file[f] \/ ~Armed(f)'
      /\ reg'[f] = reg[f] \/ ~Armed(f)'
      BY <1>2, <1>3, NoneAssumption, Zenon DEF Closes, EntryGoes, Armed
<1>7. \A g \in Fds : Armed(g)' => /\ Armed(g) /\ reg'[g] = reg[g] /\ Guest(g)' = Guest(g)
                                  /\ g # f /\ Guest(g) \in Clients /\ Guest(g) # c
  <2> SUFFICES ASSUME NEW g \in Fds, Armed(g)'
               PROVE  /\ Armed(g) /\ reg'[g] = reg[g] /\ Guest(g)' = Guest(g)
                      /\ g # f /\ Guest(g) \in Clients /\ Guest(g) # c
      BY Zenon
  <2>1. reg'[g] = reg[g]
        BY <1>6, Zenon
  <2>2. Armed(g) /\ Guest(g)' = Guest(g)
        BY <1>2, <2>1, EntryKept, Zenon
  <2>3. Guest(g) \in Clients /\ Guest(g) # c /\ file[g] = Guest(g)
        BY <1>1, <1>3, <2>2, ZenonT(60) DEF Allocated, EntriesLive, Live, ClientsApart, ROk, Own
  <2> QED BY <1>3, <2>1, <2>2, <2>3, ZenonT(30)
<1>8. \A d \in wq : /\ ev[d].client \in Clients /\ ev[d].client # c
                    /\ cl[ev[d].client].fd \in Fds /\ cl[ev[d].client].fd # f
      BY <1>1, <1>3 DEF Allocated, OthersLive, Live, ClientsApart, ROk, Own
<1>9. Own'
  <2>1. \A g \in Fds : Armed(g)' => file'[g] = Guest(g)'
        BY <1>6, <1>7, Zenon DEF ROk, Own
  <2>2. \A d \in wq' : file'[cl'[ev'[d].client].fd] = ev'[d].client
        BY <1>2, <1>6, <1>8, Zenon DEF ROk, Own
  <2> QED BY <1>4, <2>1, <2>2, Zenon DEF Own
<1>10. Untouched'
      BY <1>4, ZenonT(30) DEF Untouched
<1>11. Numbered'
  <2>1. \A g \in Fds : Armed(g)' => EntryNumber(g)'
    <3> SUFFICES ASSUME NEW g \in Fds, Armed(g)' PROVE EntryNumber(g)'
        BY Zenon
    <3> QED BY <1>2, <1>5, <1>7, EntryNumbered, Zenon DEF ROk
  <2>2. \A d \in wq' : Pending(ev[d].client, d)'
        BY <1>2, <1>5, <1>8, ZenonT(30) DEF ROk, Numbered, Pending
  <2>3. /\ InOrder(c, out'[c]) /\ Len(out'[c]) <= rcvd'[c]
        /\ file'[f] = c => Answered(c)'
    <3>1. Len(out[c]) \in Nat /\ rcvd[c] \in Nat /\ rcvd[c] = Len(out[c]) + 1 /\ ev[e].req = rcvd[c]
          BY <1>3 DEF Pending
    <3>2. CASE Closes(f) /\ UNCHANGED out
          BY <1>2, <1>3, <3>2, NoneAssumption, Zenon DEF ROk, Numbered, Closes
    <3>3. CASE out' = [out EXCEPT ![file[f]] = Append(@, <<c, ev[e].req>>)]
      <4>1. out'[c] = Append(out[c], <<c, Len(out[c]) + 1>>)
            BY <1>1, <1>3, <3>1, <3>3, Zenon
      <4>2. out[c] \in Replies /\ InOrder(c, out[c])
            BY <1>1, <1>3, Zenon DEF ROk, Numbered
      <4>3. LET r == Append(out[c], <<c, Len(out[c]) + 1>>)
            IN  InOrder(c, r) /\ Len(r) = Len(out[c]) + 1
            BY <1>3, <4>2, AppendNumber, ZenonT(30)
      <4>4. InOrder(c, out'[c]) /\ Len(out'[c]) = Len(out[c]) + 1
            BY <4>1, <4>3, Zenon
      <4>5. rcvd' = rcvd
            BY <1>2, Zenon
      <4> QED BY <3>1, <4>4, <4>5 DEF Answered
    <3> QED BY <1>2, <1>3, <3>2, <3>3, NoneAssumption, Zenon
  <2>4. \A d \in Clients : InOrder(d, out'[d]) /\ Len(out'[d]) <= rcvd'[d]
        BY <1>2, <1>5, <2>3, Zenon DEF ROk, Numbered
  <2>5. \A d \in Clients : cl'[d].st = "none" => Answered(d)'
        BY <1>2, <1>3, <1>5, Zenon DEF ROk, Numbered, Answered
  <2>6. acc'.pc = "add" => Answered(acc.client)'
        BY <1>1, <1>2, <1>3, <1>5, Zenon DEF ROk, Numbered, Answered, Newcomer, Allocated, OthersLive, Live
  <2> QED BY <1>2, <1>4, <2>1, <2>2, <2>3, <2>4, <2>5, <2>6, Zenon DEF Numbered
<1> QED BY <1>9, <1>10, <1>11, Zenon DEF ROk

\* The arming of a client for reading preserves it.
LEMMA RearmReplies ==
  ASSUME IInv, Descriptors, ROk, OneIO, NEW t \in IO, io_rearm(t), Sound', NEW c, c = io[t].client,
         NEW f, f = cl[c].fd, NEW e, e = io[t].slot
  PROVE  ROk'
<1>1. TypeOK /\ Allocated /\ EventsApart /\ ClientsApart /\ wq \subseteq Slots
      BY Zenon DEF IInv, TypeOK
<1>2. /\ io[t].pc = "rearm" /\ IOGoes(t, "idle", NONE, NONE)
      /\ Modifies(f, "in", c) /\ EventGoes(e, "free", NONE, 0)
      /\ faults' = faults \cup Mistaken(c)
      /\ UNCHANGED <<peer, rcvd, out, file, cl, acc, wk, wq, counts>>
      BY <1>1, RearmCases, Zenon
<1>3. Carrying(t) /\ c \in Clients /\ f \in Fds /\ e \in Slots
      BY <1>1, <1>2, Zenon DEF Serving, Carrying, Allocated, ThreadsLive, OthersLive, Live
<1>4. reg[f].on # "none" => file[f] = c /\ Answered(c)
  <2>1. file[f] \in {NONE, c}
        BY <1>2, Zenon DEF Sound, Mistaken
  <2> QED BY <1>2, <1>3, <2>1, Zenon DEF Descriptors, ROk, Numbered
<1>5. \A d \in Slots : d # e => ev'[d] = ev[d]
      BY <1>2, Zenon DEF EventGoes
<1>6. /\ ~Out(f)' /\ (Armed(f)' => Guest(f)' = c /\ reg[f].on # "none")
      /\ \A g \in Fds : g # f => reg'[g] = reg[g]
      BY <1>2, Zenon DEF Modifies, EntryGoes, Out, Armed, Guest
<1>7. \A g \in Fds : g # f => /\ Out(g) => ev'[reg[g].ptr] = ev[reg[g].ptr]
                              /\ Armed(g)' => Armed(g) /\ Guest(g)' = Guest(g)
  <2> SUFFICES ASSUME NEW g \in Fds, g # f
               PROVE  /\ Out(g) => ev'[reg[g].ptr] = ev[reg[g].ptr]
                      /\ Armed(g)' => Armed(g) /\ Guest(g)' = Guest(g)
      BY Zenon
  <2>1. Out(g) => ev'[reg[g].ptr] = ev[reg[g].ptr]
        BY <1>1, <1>3, <1>5, Zenon DEF EventsApart, Allocated, EntriesLive
  <2> QED BY <1>6, <2>1, EntryKept, Zenon
<1>8. \A d \in wq : ev'[d] = ev[d]
      BY <1>1, <1>3, <1>5, Zenon DEF EventsApart
<1>9. io'[t].pc = "idle" /\ \A u \in IO : u = t
      BY <1>2, Zenon DEF IOGoes, OneIO
<1>10. Own'
      BY <1>2, <1>4, <1>6, <1>7, <1>8, <1>9, Zenon DEF ROk, Own
<1>11. Untouched'
      BY <1>9, Zenon DEF Untouched
<1>12. Numbered'
  <2>1. \A g \in Fds : Armed(g)' => EntryNumber(g)'
    <3> SUFFICES ASSUME NEW g \in Fds, Armed(g)' PROVE EntryNumber(g)'
        OBVIOUS
    <3>1. CASE g = f
          BY <1>2, <1>4, <1>6, <3>1, Zenon DEF EntryNumber, Answered
    <3>2. CASE g # f
          BY <1>2, <1>6, <1>7, <3>2, EntryNumbered, Zenon DEF ROk
    <3> QED BY <3>1, <3>2, Zenon
  <2>2. \A d \in wq' : Pending(ev[d].client, d)'
        BY <1>2, <1>8, Zenon DEF ROk, Numbered, Pending
  <2> QED BY <1>2, <1>9, <2>1, <2>2, Zenon DEF ROk, Numbered, Answered
<1> QED BY <1>10, <1>11, <1>12, Zenon DEF ROk

\* A worker preserves it.
LEMMA HandleReplies ==
  ASSUME IInv, ROk, NEW w \in Workers, NEW e \in Slots, worker_handle(w, e),
         NEW c, c = ev[e].client, NEW f, f = cl[c].fd
  PROVE  ROk'
<1>1. TypeOK /\ Allocated
      BY Zenon DEF IInv
<1>2. /\ e \in wq /\ wq' = wq \ {e} /\ Modifies(f, "out", e)
      /\ UNCHANGED <<peer, rcvd, out, file, cl, acc, io, ev, counts>>
      BY <1>1, HandleCases, Zenon
<1>3. f \in Fds /\ file[f] = c /\ Pending(c, e)
      BY <1>1, <1>2, Zenon DEF Allocated, OthersLive, Live, ROk, Own, Numbered
<1>4. /\ Armed(f)' => Out(f)' /\ Guest(f)' = c /\ reg'[f].ptr = e
      /\ \A g \in Fds : g # f => /\ reg'[g] = reg[g] /\ Guest(g)' = Guest(g)
                                 /\ (Armed(g)' <=> Armed(g)) /\ (Out(g)' <=> Out(g))
      BY <1>2, Zenon DEF Modifies, EntryGoes, Out, Armed, Guest
<1>5. \A g \in Fds : Out(g)' => Armed(g)'
      BY Zenon DEF Out, Armed
<1>6. Own'
      BY <1>2, <1>3, <1>4, ZenonT(60) DEF ROk, Own
<1>7. Untouched'
      BY <1>2, <1>4, <1>5 DEF ROk, Untouched
<1>8. Numbered'
  <2>1. \A g \in Fds : Armed(g)' => EntryNumber(g)'
    <3> SUFFICES ASSUME NEW g \in Fds, Armed(g)' PROVE EntryNumber(g)'
        OBVIOUS
    <3>1. CASE g = f
          BY <1>2, <1>3, <1>4, <3>1, Zenon DEF EntryNumber, Pending
    <3>2. CASE g # f
          BY <1>2, <1>4, <3>2, EntryNumbered, ZenonT(30) DEF ROk
    <3> QED BY <3>1, <3>2, Zenon
  <2> QED BY <1>2, <2>1, Zenon DEF ROk, Numbered, Answered, Pending
<1> QED BY <1>6, <1>7, <1>8, Zenon DEF ROk

\* The registration of a client preserves it.
LEMMA AddReplies ==
  ASSUME IInv, Descriptors, ROk, accept_add, NEW c, c = acc.client, NEW f, f = cl[c].fd
  PROVE  ROk'
<1>1. TypeOK /\ Allocated
      BY Zenon DEF IInv
<1>2. /\ acc.pc = "add" /\ acc'.pc = "count"
      /\ UNCHANGED reg \/ (file[f] # NONE /\ EntryGoes(f, "in", c))
      /\ UNCHANGED <<peer, rcvd, out, file, cl, io, wk, ev, wq, counts>>
      BY <1>1, AddCases, Zenon
<1>3. f \in Fds /\ file[f] \in {NONE, c} /\ Answered(c)
      BY <1>1, <1>2, Zenon DEF Allocated, OthersLive, Live, Descriptors, ROk, Numbered
<1>4. \A g \in Fds : Armed(g)' => \/ /\ g = f /\ Guest(g)' = c /\ ~Out(g)' /\ file[f] = c
                                  \/ reg'[g] = reg[g]
      BY <1>2, <1>3, Zenon DEF EntryGoes, Armed, Guest, Out
<1>5. \A g \in Fds : reg'[g] = reg[g] => /\ Armed(g)' <=> Armed(g)
                                         /\ Guest(g)' = Guest(g) /\ (Out(g)' <=> Out(g))
      BY <1>2, Zenon DEF Armed, Out, Guest
<1>6. \A g \in Fds : Out(g)' => Armed(g)'
      BY Zenon DEF Out, Armed
<1>7. Own'
      BY <1>2, <1>4, <1>5, Zenon DEF ROk, Own
<1>8. Untouched'
      BY <1>2, <1>4, <1>5, <1>6, Zenon DEF ROk, Untouched
<1>9. Numbered'
  <2>1. \A g \in Fds : Armed(g)' => EntryNumber(g)'
    <3> SUFFICES ASSUME NEW g \in Fds, Armed(g)' PROVE EntryNumber(g)'
        OBVIOUS
    <3>1. CASE reg'[g] = reg[g]
          BY <1>2, <1>5, <3>1, EntryNumbered, ZenonT(30) DEF ROk
    <3>2. CASE Guest(g)' = c /\ ~Out(g)'
          BY <1>2, <1>3, <3>2, Zenon DEF EntryNumber, Answered
    <3> QED BY <1>4, <3>1, <3>2, Zenon
  <2> QED BY <1>2, <2>1, ZenonT(30) DEF ROk, Numbered, Answered, Pending
<1> QED BY <1>7, <1>8, <1>9, Zenon DEF ROk

\* The accept of a connection preserves it.
LEMMA ConnectionReplies ==
  ASSUME IInv, ROk, NEW c \in Clients, accept_connection(c)
  PROVE  ROk'
<1>1. TypeOK /\ Allocated /\ NONE \notin Clients
      BY NoneAssumption, Zenon DEF IInv
<1>2. PICK f \in Fds :
         /\ peer[c] = "backlog" /\ file[f] = NONE
         /\ file'[f] = c /\ \A g \in Fds : g # f => file'[g] = file[g]
         /\ cl'[c].st = "live" /\ cl'[c].fd = f
         /\ \A d \in Clients : d # c => cl'[d] = cl[d]
         /\ acc'.pc = "add" /\ acc'.client = c
         /\ UNCHANGED <<rcvd, out, reg, io, wk, ev, wq, counts>>
      BY <1>1, ConnectionCases
<1>3. cl[c].st = "none" /\ Answered(c)
      BY <1>1, <1>2, Zenon DEF Allocated, OthersLive, ROk, Numbered
<1>4. \A g \in Fds : (Armed(g)' <=> Armed(g)) /\ (Out(g)' <=> Out(g)) /\ (Guest(g)' = Guest(g))
      BY <1>2, ZenonT(30) DEF Armed, Out, Guest
<1>5. \A d \in Clients : /\ d # c /\ cl[d].fd \in Fds /\ file[cl[d].fd] = d => file'[cl'[d].fd] = d
                         /\ d # c /\ cl[d].fd \in Fds /\ file'[cl'[d].fd] = d => file[cl[d].fd] = d
      BY <1>1, <1>2, Zenon
<1>6. \A d \in Clients : cl[d].st = "live" => d # c /\ cl[d].fd \in Fds
      BY <1>1, <1>3, Zenon DEF Allocated, OthersLive
<1>7. Own'
  <2>1. \A g \in Fds : Armed(g)' => file'[g] = Guest(g)'
        BY <1>1, <1>2, <1>4, ZenonT(60) DEF ROk, Own, Allocated, EntriesLive, Live
  <2>2. \A t \in IO : io'[t].pc \in {"read", "write"} => file'[cl'[io'[t].client].fd] = io'[t].client
        BY <1>1, <1>2, <1>6, SMTT(30) DEF ROk, Own, Allocated, ThreadsLive, Live, Serving
  <2>3. \A e \in wq' : file'[cl'[ev'[e].client].fd] = ev'[e].client
        BY <1>1, <1>2 DEF ROk, Own, Allocated, OthersLive, Live
  <2> QED BY <2>1, <2>2, <2>3, ZenonT(30) DEF Own
<1>8. Untouched'
  <2> SUFFICES ASSUME NEW t \in IO, io[t].pc \in {"dropping", "drop"}
               PROVE  LET k == file'[cl'[io[t].client].fd] IN
                      /\ \A e \in wq : ev[e].client # k
                      /\ \A g \in Fds : Out(g) => Guest(g) # k
      BY <1>2, <1>4, Zenon DEF Untouched
  <2>1. Live(io[t].client)
        BY <1>1, Zenon DEF Allocated, ThreadsLive, Serving
  <2>2. file'[cl'[io[t].client].fd] \in {c, file[cl[io[t].client].fd]}
        BY <1>2, <1>6, <2>1, Zenon DEF Live
  <2>3. /\ \A e \in wq : ev[e].client # c
        /\ \A g \in Fds : Out(g) => Guest(g) # c
        BY <1>1, <1>3, ZenonT(60) DEF Allocated, EntriesLive, OthersLive, Live, Armed, Out
  <2> QED BY <2>2, <2>3, Zenon DEF ROk, Untouched
<1>9. Numbered'
  <2>1. \A g \in Fds : Armed(g)' => EntryNumber(g)'
        BY <1>2, <1>4, Zenon DEF ROk, Numbered, EntryNumber, Answered, Pending
  <2>2. \A t \in IO : io'[t].pc = "rearm" /\ file'[cl'[io'[t].client].fd] = io'[t].client =>
                        Answered(io[t].client)'
        BY <1>1, <1>2, <1>6 DEF ROk, Numbered, Answered, Allocated, ThreadsLive, Live, Serving
  <2>3. \A d \in Clients : cl'[d].st = "none" => Answered(d)'
        BY <1>2, Zenon DEF ROk, Numbered, Answered
  <2>4. acc'.pc = "add" => Answered(acc.client)'
        BY <1>2, <1>3, Zenon DEF Answered
  <2> QED BY <1>2, <2>1, <2>2, <2>3, <2>4, Zenon DEF ROk, Numbered, Answered, Pending
<1> QED BY <1>7, <1>8, <1>9, Zenon DEF ROk

\* Every step preserves it, one case per action.
LEMMA NextRInv == OneIO /\ IInv /\ Descriptors /\ RInv /\ [Next]_vars => RInv'
<1> SUFFICES ASSUME OneIO, IInv, Descriptors, RInv, [Next]_vars, Sound' PROVE ROk'
    BY Zenon DEF RInv
<1>1. TypeOK /\ Allocated
      BY Zenon DEF IInv
<1>2. ROk
      BY <1>1, FaultsGrow, Zenon DEF RInv, Sound
<1>3. CASE UNCHANGED vars
      BY <1>2, <1>3, QuietReplies, Zenon DEF vars
<1>4. CASE Environment
      BY <1>1, <1>2, <1>4, EnvironmentCases, QuietReplies, Zenon
<1>5. CASE accept_wait \/ accept_fails
      BY <1>1, <1>2, <1>5, WaitingCases, QuietReplies, Zenon
<1>6. CASE accept_count
      BY <1>1, <1>2, <1>6, CountedCases, QuietReplies, Zenon
<1>7. CASE accept_add
      BY <1>2, <1>7, AddReplies, Zenon
<1>8. ASSUME NEW c \in Clients, accept_connection(c) PROVE ROk'
      BY <1>2, <1>8, ConnectionReplies, Zenon
<1>9. ASSUME NEW t \in IO, io_read(t) PROVE ROk'
  <2>1. PICK e \in Slots : ev[e].st = "free" /\ (ReadDrops(t, e) \/ \E k \in Clients : ReadGets(t, e, k))
        BY <1>1, <1>9, ReadCases, ZenonT(30)
  <2>2. UNCHANGED <<peer, out, cl, acc, wk, counts, faults>> /\ io[t].pc = "read"
        BY <1>1, <1>9, ReadCases, Zenon
  <2> QED BY <1>2, <2>1, <2>2, ReadDropsReplies, ReadGetsReplies, Zenon
<1>10. ASSUME NEW t \in IO, io_stamp(t) PROVE ROk'
      BY <1>1, <1>2, <1>10, StampCases, GoesOnReplies, Zenon
<1>11. ASSUME NEW t \in IO, io_count(t) PROVE ROk'
      BY <1>1, <1>2, <1>11, CountCases, GoesOnReplies, Zenon
<1>12. ASSUME NEW t \in IO, io_drop(t) PROVE ROk'
      BY <1>2, <1>12, DropReplies, Zenon
<1>13. ASSUME NEW t \in IO, io_write(t) PROVE ROk'
      BY <1>2, <1>13, WriteReplies, Zenon
<1>14. ASSUME NEW t \in IO, io_rearm(t) PROVE ROk'
      BY <1>2, <1>14, RearmReplies, Zenon
<1>15. ASSUME NEW t \in IO, NEW f \in Fds, io_wait(t, f) PROVE ROk'
      BY <1>2, <1>15, WaitReplies, Zenon
<1>16. ASSUME NEW t \in IO, NEW f \in Fds, io_error(t, f) PROVE ROk'
  <2>1. \A g \in Fds : reg'[g] = reg[g] \/ ~Armed(g)'
        BY <1>1, <1>16, ErrorCases, Zenon DEF EntryGoes, Armed
  <2> QED BY <1>1, <1>2, <1>16, <2>1, ErrorCases, QuietReplies, Zenon
<1>17. ASSUME NEW w \in Workers, worker_release(w) PROVE ROk'
  <2>1. \A e \in Slots : ev'[e].client = ev[e].client /\ ev'[e].req = ev[e].req
        BY <1>1, <1>17, ReleaseCases, Zenon DEF EventGoes
  <2>2. wq' \subseteq wq /\ UNCHANGED <<rcvd, out, file, cl, reg, acc, io>>
        BY <1>1, <1>17, ReleaseCases, Zenon
  <2> QED BY <1>2, <2>1, <2>2, QuietReplies, Zenon
<1>18. ASSUME NEW w \in Workers, NEW e \in Slots, worker_handle(w, e) PROVE ROk'
      BY <1>2, <1>18, HandleReplies, Zenon
<1> QED BY <1>3, <1>4, <1>5, <1>6, <1>7, <1>8, <1>9, <1>10, <1>11, <1>12, <1>13, <1>14, <1>15, <1>16, SMTT(30),
           <1>17, <1>18 DEF Next, Accept, IOThread, WorkerThread

\* No reply at the start.
LEMMA InitRInv == Init => RInv
<1> SUFFICES ASSUME Init PROVE ROk
    BY Zenon DEF RInv
<1>1. /\ \A f \in Fds : ~Armed(f)
      /\ \A t \in IO : io[t].pc = "idle"
      /\ acc.pc = "wait" /\ wq = {}
      BY Zenon DEF Init, Armed, NoEntry, IdleIO, IdleAccept
<1>2. \A c \in Clients : out[c] = <<>> /\ rcvd[c] = 0
      BY Zenon DEF Init
<1>3. \A c \in Clients : InOrder(c, <<>>)
      BY DEF InOrder
<1>4. \A c \in Clients : Answered(c) /\ InOrder(c, out[c]) /\ Len(out[c]) <= rcvd[c]
      BY <1>2, <1>3 DEF Answered
<1>5. Own /\ Untouched
      BY <1>1, Zenon DEF Own, Untouched
<1>6. Numbered
      BY <1>1, <1>4, Zenon DEF Numbered
<1> QED BY <1>5, <1>6, Zenon DEF ROk

\* With the one IO thread the server has (IOPOOLSIZE 1, server.h), a client
\* gets the replies to its own requests, in order and at most one to each,
\* until a failed write arms a number that is another connection by then: for
\* any number of connections, descriptors, workers and requests.
THEOREM RepliesAreInOrder == ASSUME OneIO PROVE Spec => []RepliesInOrder
<1>1. RInv => RepliesInOrder
      BY Zenon DEF RInv, ROk, Sound, Numbered, RepliesInOrder, InOrder
<1>2. Init => IInv /\ Descriptors /\ RInv
      BY InitIInv, InitDescriptors, InitRInv, Zenon
<1>3. IInv /\ Descriptors /\ RInv /\ [Next]_vars => (IInv /\ Descriptors /\ RInv)'
      BY NextIInv, NextDescriptors, NextRInv, Zenon
<1> QED BY <1>1, <1>2, <1>3, PTL DEF Spec

-----------------------------------------------------------------------------
(* One holder *)

\* A set whose members are all the same has at most one.
LEMMA AtMostOne == ASSUME NEW S, \A x, y \in S : x = y PROVE Cardinality(S) <= 1
<1>1. CASE S = {}
      BY <1>1, FS_EmptySet
<1>2. ASSUME NEW x \in S PROVE Cardinality(S) <= 1
  <2>1. S = {x}
        BY <1>2, Zenon
  <2> QED BY <2>1, FS_Singleton
<1> QED BY <1>1, <1>2, Zenon

\* At no time do two threads serve the same client, and whoever serves it finds
\* its struct client allocated, however many IO threads, workers, connections
\* and io_events there are: EPOLLONESHOT in io_worker and worker suffices.
THEOREM OneHolderAlways == Spec => []OneHolder
<1>1. IInv => OneHolder
  <2> SUFFICES ASSUME IInv, NEW c \in Clients
               PROVE  Cardinality(Holders(c)) <= 1 /\ (Holders(c) # {} => cl[c].st = "live")
      BY Zenon DEF OneHolder
  <2> DEFINE A == {g \in Fds : reg[g].on = "in" /\ reg[g].ptr = c}
             B == {g \in Fds : reg[g].on = "out" /\ ev[reg[g].ptr].client = c}
             C == {u \in IO : io[u].client = c /\ io[u].pc # "stamp"}
             D == {d \in wq : ev[d].client = c}
  <2>1. \A f \in Fds : f \in A \cup B <=> Armed(f) /\ Guest(f) = c
        BY Zenon DEF Armed, Guest
  <2>2. \A t \in C : t \in IO /\ Serving(t) /\ io[t].client = c
    <3>1. \A t \in IO : io[t].pc \in IOPCs /\ (io[t].pc = "idle" => io[t].client = NONE)
          BY Zenon DEF IInv, TypeOK, IOThreads, Allocated, ThreadsLive
    <3> QED BY <3>1, NoneAssumption, Zenon DEF Serving, IOPCs
  <2>3. A \cap B = {}
        OBVIOUS
  <2>4. Holders(c) = {<<"in", f>> : f \in A} \cup {<<"out", f>> : f \in B}
                       \cup {<<"io", t>> : t \in C} \cup {<<"work", e>> : e \in D}
        BY Zenon DEF Holders
  <2>5. A \subseteq Fds /\ B \subseteq Fds /\ D \subseteq wq /\ \A e \in D : ev[e].client = c
        OBVIOUS
  <2> HIDE DEF A, B, C, D
  <2>6. /\ \A f, g \in A \cup B : f = g
        /\ \A t, u \in C : t = u
        /\ \A d, e \in D : d = e
        BY <2>1, <2>2, <2>5, Zenon DEF IInv, ClientsApart
  <2>7. /\ A \cup B = {} \/ C = {}
        /\ A \cup B = {} \/ D = {}
        /\ C = {} \/ D = {}
        BY <2>1, <2>2, <2>5, Zenon DEF IInv, ClientsApart
  <2>8. \A x, y \in Holders(c) : x = y
        BY <2>3, <2>4, <2>6, <2>7
  <2>9. Holders(c) # {} => cl[c].st = "live"
    <3>1. A \cup B # {} => cl[c].st = "live"
          BY <2>1, <2>5 DEF IInv, Allocated, EntriesLive, Live
    <3>2. C # {} => cl[c].st = "live"
          BY <2>2, Zenon DEF IInv, Allocated, ThreadsLive, Live
    <3>3. D # {} => cl[c].st = "live"
          BY <2>5 DEF IInv, Allocated, OthersLive, Live
    <3> QED BY <2>4, <3>1, <3>2, <3>3, Zenon
  <2> QED BY <2>8, <2>9, AtMostOne, Zenon
<1> QED BY <1>1, PipelineInvariant, PTL

-----------------------------------------------------------------------------
(* The counters *)

OpenFds == {f \in Fds : file[f] # NONE}
Adding == IF acc.pc \in {"add", "count"} THEN 1 ELSE 0
Has(pc, c) == \E t \in IO : io[t].pc = pc /\ io[t].client = c
Connected == {c \in Clients : cl[c].st = "live" /\ ~Has("drop", c)}

\* The clients that are allocated and not yet taken off, less the one whose
\* count is to come: below zero when that one has been taken off by then.
NClients == Cardinality(Connected) - Adding

\* Unless an update was lost, nclients is that number modulo its width.
Counted ==
  "count" \notin faults => counts[1] = IF NClients < 0 THEN CountMod - 1 ELSE NClients

\* Unless a write has failed or the descriptor of another was closed, the
\* descriptor of a client is open until a thread drops the client.
Intact ==
  faults \cap {"write", "foreign close"} = {} =>
    \A c \in Connected : file[cl[c].fd] = c \/ Has("dropping", c)

CInv == Counted /\ Intact

\* The counter of the accept thread, as an integer.
LEMMA CountsUp ==
  ASSUME NEW v \in Int, v >= -1, v + 1 < CountMod, NEW n, n = IF v < 0 THEN CountMod - 1 ELSE v
  PROVE  (n + 1) % CountMod = v + 1
<1>1. CountMod \in Nat /\ CountMod > 0
      BY CountAssumption
<1>2. CASE v >= 0
  <2>1. n + 1 = v + 1 /\ v + 1 \in 0..CountMod - 1
        BY <1>1, <1>2
  <2> QED BY <1>1
<1>3. CASE v < 0
  <2>1. n + 1 = CountMod /\ v + 1 = 0
        BY <1>1, <1>3
  <2>2. CountMod % CountMod = 0
        BY <1>1
  <2> QED BY <2>1, <2>2, Zenon
<1> QED BY <1>2, <1>3

\* The counter of an IO thread, as an integer: it wraps below zero.
LEMMA CountsDown ==
  ASSUME NEW v \in Int, v >= 0, v < CountMod
  PROVE  (v - 1) % CountMod = IF v - 1 < 0 THEN CountMod - 1 ELSE v - 1
<1>1. CountMod \in Nat /\ CountMod > 0
      BY CountAssumption
<1>2. CASE v >= 1
  <2>1. v - 1 \in 0..CountMod - 1
        BY <1>1, <1>2
  <2> QED BY <1>1
<1>3. CASE v = 0
  <2>1. (-1) % CountMod = CountMod - 1
        BY <1>1
  <2> QED BY <1>3, <2>1
<1> QED BY <1>2, <1>3

\* Cardinalities are natural numbers.
LEMMA Sizes ==
  /\ CountMod \in Nat /\ Cardinality(Clients) \in Nat /\ Cardinality(Clients) < CountMod
  /\ \A S \in SUBSET Fds : IsFiniteSet(S) /\ Cardinality(S) \in Nat
  /\ \A S \in SUBSET Clients : /\ IsFiniteSet(S) /\ Cardinality(S) \in Nat
                               /\ Cardinality(S) <= Cardinality(Clients)
<1>1. \A S \in SUBSET Fds : IsFiniteSet(S) /\ Cardinality(S) \in Nat
      BY FdsAssumption, FS_Subset, FS_CardinalityType, Zenon
<1>2. \A S \in SUBSET Clients : /\ IsFiniteSet(S) /\ Cardinality(S) \in Nat
                                /\ Cardinality(S) <= Cardinality(Clients)
      BY ClientsAssumption, FS_Subset, FS_CardinalityType, Zenon
<1> QED BY <1>1, <1>2, CountAssumption, ClientsAssumption, FS_CardinalityType, Zenon


\* A step that connects, drops and counts nobody, and opens and closes nothing.
LEMMA QuietCount ==
  ASSUME CInv, faults \subseteq faults', UNCHANGED <<counts, file, cl>>,
         acc'.pc \in {"add", "count"} <=> acc.pc \in {"add", "count"},
         \A c \in Clients : Has("drop", c)' = Has("drop", c) /\ Has("dropping", c)' = Has("dropping", c)
  PROVE  CInv'
<1>1. Connected' = Connected /\ Adding' = Adding
      BY Zenon DEF Connected, Adding
<1>2. Counted'
      BY <1>1, Zenon DEF CInv, Counted, NClients
<1>3. Intact'
      BY <1>1, Zenon DEF CInv, Intact, Connected
<1> QED BY <1>2, <1>3, Zenon DEF CInv

\* The same of a step of thread t that drops nobody.
LEMMA QuietThread ==
  ASSUME CInv, faults \subseteq faults', UNCHANGED <<counts, file, cl, acc>>, NEW t \in IO,
         io[t].pc \notin {"dropping", "drop"}, io'[t].pc \notin {"dropping", "drop"},
         \A u \in IO : u # t => io'[u] = io[u]
  PROVE  CInv'
<1>1. ASSUME NEW c \in Clients, NEW pc \in {"dropping", "drop"} PROVE Has(pc, c)' = Has(pc, c)
      BY <1>1, Zenon DEF Has
<1> QED BY <1>1, QuietCount, Zenon

\* An accepted connection is connected and its count is to come.
LEMMA ConnectionCount ==
  ASSUME IInv, CInv, NEW c \in Clients, accept_connection(c)
  PROVE  CInv'
<1>1. TypeOK /\ Allocated
      BY Zenon DEF IInv
<1>2. PICK f \in Fds :
         /\ acc.pc = "accept" /\ peer[c] = "backlog" /\ file[f] = NONE
         /\ file'[f] = c /\ \A g \in Fds : g # f => file'[g] = file[g]
         /\ cl'[c].st = "live" /\ cl'[c].fd = f /\ \A d \in Clients : d # c => cl'[d] = cl[d]
         /\ acc'.pc = "add" /\ UNCHANGED <<io, counts, faults>>
      BY <1>1, ConnectionCases, SMTT(30)
<1>3. cl[c].st = "none" /\ ~Has("drop", c)
      BY <1>1, <1>2 DEF Allocated, ThreadsLive, OthersLive, Has, Serving, Live
<1>4. Has("drop", c)' = Has("drop", c) /\ \A d : Has("drop", d)' = Has("drop", d) /\ Has("dropping", d)' = Has("dropping", d)
      BY <1>2, Zenon DEF Has
<1>5. Connected' = Connected \cup {c} /\ c \notin Connected
      BY <1>2, <1>3, <1>4, Zenon DEF Connected
<1>6. Adding = 0 /\ Adding' = 1
      BY <1>2, Zenon DEF Adding
<1>7. Cardinality(Connected') = Cardinality(Connected) + 1 /\ Cardinality(Connected) \in Nat
      BY <1>5, Sizes, FS_AddElement, Zenon DEF Connected
<1>8. Counted'
      BY <1>2, <1>6, <1>7 DEF CInv, Counted, NClients
<1>9. ASSUME faults \cap {"write", "foreign close"} = {}, NEW d \in Connected
      PROVE  file'[cl'[d].fd] = d \/ Has("dropping", d)'
  <2>1. file[cl[d].fd] = d \/ Has("dropping", d)
        BY <1>9, Zenon DEF CInv, Intact
  <2>2. d \in Clients /\ d # c /\ cl[d].fd \in Fds /\ d # NONE
        BY <1>1, <1>5, <1>9, NoneAssumption, Zenon DEF Connected, Allocated, OthersLive
  <2> QED BY <1>2, <1>4, <2>1, <2>2, Zenon
<1>10. Intact'
      BY <1>2, <1>5, <1>9, Zenon DEF Intact
<1> QED BY <1>8, <1>10, Zenon DEF CInv

\* Its count makes it one of the counted, unless the update is lost.
LEMMA CountedCount ==
  ASSUME IInv, CInv, accept_count
  PROVE  CInv'
<1>1. /\ acc.pc = "count" /\ acc'.pc = "accept" /\ counts' = Count(acc.counts, 1)
      /\ faults' = faults \cup LostUpdate(acc.counts)
      /\ UNCHANGED <<file, cl, io>>
      BY CountedCases, Zenon DEF IInv
<1>2. Adding = 1 /\ Adding' = 0 /\ Connected' = Connected
      BY <1>1, Zenon DEF Adding, Connected, Has
<1>3. Intact'
      BY <1>1, <1>2, Zenon DEF CInv, Intact, Has
<1>4. ASSUME "count" \notin faults'
      PROVE  counts'[1] = IF NClients' < 0 THEN CountMod - 1 ELSE NClients'
  <2>1. "count" \notin faults /\ acc.counts = counts
        BY <1>1, <1>4, Zenon DEF LostUpdate
  <2>2. /\ Cardinality(Connected) \in Nat /\ Cardinality(Connected) <= Cardinality(Clients)
        /\ Cardinality(Clients) \in Nat /\ Cardinality(Clients) < CountMod /\ CountMod \in Nat
        BY Sizes, Zenon DEF Connected
  <2>3. NClients \in Int /\ NClients >= -1 /\ NClients + 1 < CountMod /\ NClients' = NClients + 1
        BY <1>2, <2>2 DEF NClients
  <2>4. (counts[1] + 1) % CountMod = NClients + 1
        BY <2>1, <2>3, CountsUp, Zenon DEF CInv, Counted
  <2> QED BY <1>1, <2>1, <2>3, <2>4, SMTT(30) DEF Count
<1> QED BY <1>3, <1>4, Zenon DEF CInv, Counted

\* The count of a client that thread t drops, unless the update is lost.
LEMMA CountCount ==
  ASSUME IInv, CInv, NEW t \in IO, io_count(t)
  PROVE  CInv'
<1>1. /\ io[t].pc = "dropping" /\ io'[t].pc = "drop" /\ io'[t].client = io[t].client
      /\ \A u \in IO : u # t => io'[u] = io[u]
      /\ counts' = Count(io[t].counts, -1) /\ faults' = faults \cup LostUpdate(io[t].counts)
      /\ UNCHANGED <<file, cl, acc>>
      BY CountCases, Zenon DEF IInv, IOGoes
<1>2. PICK c \in Clients : c = io[t].client /\ cl[c].st = "live"
      BY <1>1, Zenon DEF IInv, Allocated, ThreadsLive, Serving, Live
<1>3. \A u \in IO : u # t /\ io[u].pc \in {"dropping", "drop"} => io[u].client # c
      BY <1>1, <1>2, Zenon DEF IInv, ClientsApart, Serving
<1>4. ~Has("drop", c) /\ Has("drop", c)'
      BY <1>1, <1>2, <1>3, Zenon DEF Has
<1>5. \A d \in Clients : d # c => Has("drop", d)' = Has("drop", d) /\ Has("dropping", d)' = Has("dropping", d)
      BY <1>1, <1>2, Zenon DEF Has
<1>6. Connected' = Connected \ {c} /\ c \in Connected
      BY <1>1, <1>2, <1>4, <1>5, Zenon DEF Connected
<1>7. Intact'
      BY <1>1, <1>5, <1>6, Zenon DEF CInv, Intact, Connected
<1>8. ASSUME "count" \notin faults'
      PROVE  counts'[1] = IF NClients' < 0 THEN CountMod - 1 ELSE NClients'
  <2>1. "count" \notin faults /\ io[t].counts = counts
        BY <1>1, <1>8, Zenon DEF LostUpdate
  <2>2. /\ Cardinality(Connected') = Cardinality(Connected) - 1 /\ Cardinality(Connected') \in Nat
        /\ Cardinality(Connected) \in Nat /\ Cardinality(Connected) <= Cardinality(Clients)
        /\ Cardinality(Clients) \in Nat /\ Cardinality(Clients) < CountMod /\ CountMod \in Nat
        BY <1>6, Sizes, FS_RemoveElement, ZenonT(60) DEF Connected
  <2>3. Adding' = Adding /\ Adding \in 0..1
        BY <1>1 DEF Adding
  <2>4. NClients \in Int /\ NClients >= 0 /\ NClients < CountMod /\ NClients' = NClients - 1
        BY <2>2, <2>3 DEF NClients
  <2>5. counts[1] = NClients
        BY <2>1, <2>4 DEF CInv, Counted
  <2> QED BY <1>1, <2>1, <2>4, <2>5, CountsDown, Zenon DEF Count
<1> QED BY <1>7, <1>8, Zenon DEF CInv, Counted

\* A client whose end of file is read loses its descriptor and is dropped.
LEMMA ReadDropsCount ==
  ASSUME IInv, CInv, NEW t \in IO, NEW e \in Slots, io_read(t), ReadDrops(t, e)
  PROVE  CInv'
<1>1. io[t].pc = "read" /\ UNCHANGED <<cl, acc, counts, faults>>
      BY ReadCases, Zenon DEF IInv
<1>2. PICK c \in Clients, f \in Fds : c = io[t].client /\ f = cl[c].fd
      BY <1>1, Zenon DEF IInv, Allocated, ThreadsLive, OthersLive, Serving, Live
<1>3. /\ io'[t].pc = "dropping" /\ io'[t].client = c /\ \A u \in IO : u # t => io'[u] = io[u]
      /\ file'[f] = NONE /\ \A g \in Fds : g # f => file'[g] = file[g]
      BY <1>2, Zenon DEF ReadDrops, IOGoes, Closes
<1>4. /\ \A d \in Clients : Has("drop", d)' = Has("drop", d)
      /\ \A d \in Clients : Has("dropping", d) => Has("dropping", d)'
      /\ Has("dropping", c)' /\ ~Has("dropping", c)
  <2>1. \A u \in IO : u # t /\ io[u].pc = "dropping" => io[u].client # c
        BY <1>1, <1>2, Zenon DEF IInv, ClientsApart, Serving
  <2> QED BY <1>1, <1>3, <2>1, Zenon DEF Has
<1>5. Connected' = Connected /\ Adding' = Adding
      BY <1>1, <1>4, Zenon DEF Connected, Adding
<1>6. Counted'
      BY <1>1, <1>5, Zenon DEF CInv, Counted, NClients
<1>7. ASSUME faults \cap {"write", "foreign close"} = {}, NEW d \in Connected
      PROVE  file'[cl[d].fd] = d \/ Has("dropping", d)'
  <2>1. file[cl[d].fd] = d \/ Has("dropping", d)
        BY <1>7, Zenon DEF CInv, Intact
  <2>2. d \in Clients /\ cl[d].fd \in Fds
        BY <1>7, Zenon DEF Connected, IInv, Allocated, OthersLive
  <2>3. c \in Connected
    <3>1. \A u \in IO : u # t /\ io[u].pc = "drop" => io[u].client # c
          BY <1>1, <1>2, Zenon DEF IInv, ClientsApart, Serving
    <3>2. ~Has("drop", c) /\ cl[c].st = "live"
          BY <1>1, <1>2, <3>1, Zenon DEF Has, IInv, Allocated, ThreadsLive, Serving, Live
    <3> QED BY <3>2, Zenon DEF Connected
  <2>4. file[f] = c
        BY <1>2, <1>4, <1>7, <2>3, Zenon DEF CInv, Intact
  <2>5. CASE d = c
        BY <1>4, <2>5, Zenon
  <2>6. CASE d # c /\ file[cl[d].fd] = d
        BY <1>3, <2>2, <2>4, <2>6, Zenon
  <2>7. CASE Has("dropping", d)
        BY <1>4, <2>2, <2>7, Zenon
  <2> QED BY <2>1, <2>5, <2>6, <2>7, Zenon
<1>8. Intact'
      BY <1>1, <1>5, <1>7, Zenon DEF Intact
<1> QED BY <1>6, <1>8, Zenon DEF CInv

\* A failed write is a fault, a write that succeeds closes nothing.
LEMMA WriteCount ==
  ASSUME IInv, CInv, NEW t \in IO, io_write(t)
  PROVE  CInv'
<1>1. /\ UNCHANGED <<file, faults>> \/ faults' = faults \cup {"write"}
      /\ io[t].pc = "write" /\ io'[t].pc = "rearm" /\ \A u \in IO : u # t => io'[u] = io[u]
      /\ UNCHANGED <<acc, cl, counts>>
      BY WriteCases, Zenon DEF IInv, IOGoes
<1>2. CASE UNCHANGED <<file, faults>>
      BY <1>1, <1>2, QuietThread, Zenon
<1>3. CASE faults' = faults \cup {"write"}
  <2>1. Intact'
        BY <1>3, Zenon DEF Intact
  <2>2. Adding' = Adding /\ \A d \in Clients : Has("drop", d)' = Has("drop", d)
        BY <1>1, Zenon DEF Adding, Has
  <2>3. Connected' = Connected
        BY <1>1, <2>2, Zenon DEF Connected
  <2>4. Counted'
        BY <1>1, <1>3, <2>2, <2>3, Zenon DEF CInv, Counted, NClients
  <2> QED BY <2>1, <2>4, Zenon DEF CInv
<1> QED BY <1>1, <1>2, <1>3, Zenon

\* The release of a client that has been taken off: the second close of its
\* descriptor finds it closed, or it is another client's.
LEMMA DropCount ==
  ASSUME IInv, Descriptors, CInv, NEW t \in IO, io_drop(t)
  PROVE  CInv'
<1>1. PICK c \in Clients, f \in Fds : c = io[t].client /\ f = cl[c].fd
      BY Zenon DEF io_drop, IInv, Allocated, ThreadsLive, OthersLive, Serving, Live
<1>2. /\ io[t].pc = "drop" /\ io'[t].pc = "idle" /\ \A u \in IO : u # t => io'[u] = io[u]
      /\ file'[f] = NONE /\ file' \in [Fds -> Somebody] /\ \A g \in Fds : g # f => file'[g] = file[g]
      /\ faults' = faults \cup {"stamp"}
                          \cup (IF file[f] \notin {NONE, c} THEN {"foreign close"} ELSE {})
      /\ cl'[c].st = "freed" /\ \A d \in Clients : d # c => cl'[d] = cl[d]
      /\ UNCHANGED <<acc, counts>>
      BY <1>1, DropCases, Zenon DEF IInv, IOGoes, Closes
<1>3. file[f] # c /\ Has("drop", c)
      BY <1>1, <1>2, Zenon DEF Descriptors, Has
<1>4. ASSUME NEW d \in Clients, d # c, NEW pc \in {"dropping", "drop"} PROVE Has(pc, d)' = Has(pc, d)
  <2>1. \A u \in IO : io'[u].pc = pc /\ io'[u].client = d <=> io[u].pc = pc /\ io[u].client = d
        BY <1>1, <1>2, <1>4, Zenon
  <2> QED BY <2>1, Zenon DEF Has
<1>5. Connected' = Connected /\ c \notin Connected /\ Adding' = Adding
      BY <1>2, <1>3, <1>4, Zenon DEF Connected, Adding
<1>6. Counted'
      BY <1>2, <1>5, Zenon DEF CInv, Counted, NClients
<1>7. CASE file[f] = NONE
  <2>1. file' = file
        BY <1>2, <1>7 DEF IInv, TypeOK
  <2>2. Intact'
        BY <1>2, <1>4, <1>5, <2>1, Zenon DEF CInv, Intact, Connected
  <2> QED BY <1>6, <2>2, Zenon DEF CInv
<1>8. CASE file[f] # NONE
  <2>1. Intact'
        BY <1>2, <1>3, <1>8, Zenon DEF Intact
  <2> QED BY <1>6, <2>1, Zenon DEF CInv
<1> QED BY <1>7, <1>8, Zenon

\* Every step preserves the invariant of the counters, one case per action.
LEMMA NextCInv == IInv /\ Descriptors /\ CInv /\ [Next]_vars => CInv'
<1> SUFFICES ASSUME IInv, Descriptors, CInv, [Next]_vars PROVE CInv'
    OBVIOUS
<1>1. TypeOK /\ Allocated
      BY Zenon DEF IInv
<1>2. faults \subseteq faults'
      BY <1>1, FaultsGrow, Zenon
<1>3. ASSUME UNCHANGED <<counts, file, cl, io>>,
             acc'.pc \in {"add", "count"} <=> acc.pc \in {"add", "count"}
      PROVE  CInv'
      BY <1>2, <1>3, QuietCount, Zenon DEF Has
<1>4. CASE UNCHANGED vars
      BY <1>3, <1>4, Zenon DEF vars
<1>5. CASE Environment
      BY <1>1, <1>3, <1>5, EnvironmentCases, Zenon
<1>6. CASE accept_wait \/ accept_fails
      BY <1>1, <1>3, <1>6, WaitingCases, Zenon
<1>7. CASE accept_count
      BY <1>7, CountedCount, Zenon
<1>8. CASE accept_add
      BY <1>1, <1>3, <1>8, AddCases, Zenon
<1>9. ASSUME NEW c \in Clients, accept_connection(c) PROVE CInv'
      BY <1>9, ConnectionCount, Zenon
<1>10. ASSUME NEW t \in IO, io_read(t) PROVE CInv'
  <2>1. PICK e \in Slots : ReadDrops(t, e) \/ \E k \in Clients : ReadGets(t, e, k)
        BY <1>1, <1>10, ReadCases, Zenon
  <2>2. UNCHANGED <<cl, acc, counts>> /\ io[t].pc = "read"
        BY <1>1, <1>10, ReadCases, Zenon
  <2>3. CASE ReadDrops(t, e)
        BY <1>10, <2>3, ReadDropsCount, Zenon
  <2>4. ASSUME NEW k \in Clients, ReadGets(t, e, k) PROVE CInv'
    <3>1. /\ io'[t].pc \in {"idle", "stamp"} /\ \A u \in IO : u # t => io'[u] = io[u]
          /\ UNCHANGED file
          BY <2>4, Zenon DEF ReadGets, IOGoes
    <3> QED BY <1>2, <2>2, <3>1, QuietThread, Zenon
  <2> QED BY <2>1, <2>3, <2>4, Zenon
<1>11. ASSUME NEW t \in IO, io_stamp(t) PROVE CInv'
      BY <1>1, <1>2, <1>11, StampCases, QuietThread, Zenon DEF IOGoes
<1>12. ASSUME NEW t \in IO, io_count(t) PROVE CInv'
      BY <1>12, CountCount, Zenon
<1>13. ASSUME NEW t \in IO, io_drop(t) PROVE CInv'
      BY <1>13, DropCount, Zenon
<1>14. ASSUME NEW t \in IO, io_write(t) PROVE CInv'
      BY <1>14, WriteCount, Zenon
<1>15. ASSUME NEW t \in IO, io_rearm(t) PROVE CInv'
      BY <1>1, <1>2, <1>15, RearmCases, QuietThread, Zenon DEF IOGoes
<1>16. ASSUME NEW t \in IO, NEW f \in Fds, io_wait(t, f) PROVE CInv'
      BY <1>1, <1>2, <1>16, WaitCases, QuietThread, Zenon DEF WaitTakes, IOGoes
<1>17. ASSUME NEW t \in IO, NEW f \in Fds, io_error(t, f) PROVE CInv'
      BY <1>1, <1>3, <1>17, ErrorCases, Zenon
<1>18. ASSUME NEW w \in Workers, worker_release(w) PROVE CInv'
      BY <1>1, <1>3, <1>18, ReleaseCases, Zenon
<1>19. ASSUME NEW w \in Workers, NEW e \in Slots, worker_handle(w, e) PROVE CInv'
      BY <1>1, <1>3, <1>19, HandleCases, Zenon
<1> QED BY <1>4, <1>5, <1>6, <1>7, <1>8, <1>9, <1>10, <1>11, <1>12, <1>13, <1>14, <1>15, <1>16,
           <1>17, <1>18, <1>19, SMTT(30) DEF Next, Accept, IOThread, WorkerThread

\* Nothing is connected and nothing is counted at the start.
LEMMA InitCInv == Init => CInv
<1> SUFFICES ASSUME Init PROVE CInv
    OBVIOUS
<1>1. Connected = {} /\ Adding = 0 /\ counts[1] = 0
      BY Zenon DEF Init, Connected, Adding, IdleAccept
<1>2. NClients = 0
      BY <1>1, FS_EmptySet DEF NClients
<1> QED BY <1>1, <1>2 DEF CInv, Counted, Intact

\* nclients is the number of open connections whenever no thread is counting,
\* for any number of IO threads and as many connections as the counter can
\* hold, unless two threads have updated it at the same time, the descriptor of
\* another client was closed or a write has failed; after failed writes alone it
\* is never too low.
THEOREM ClientsAreCounted == Spec => []ClientsExact
<1>0. \A m, n \in Nat : n - 0 = n /\ ~(n < 0) /\ (m <= n => n = m \/ n > m)
      OBVIOUS
<1>1. ASSUME IInv, Descriptors, CInv PROVE ClientsExact
  <2> SUFFICES ASSUME acc.pc \in {"wait", "accept"},
                      \A t \in IO : io[t].pc \notin {"dropping", "drop"},
                      faults \cap {"count", "foreign close"} = {}
               PROVE  \/ counts[1] = Cardinality(OpenFds)
                      \/ "write" \in faults /\ counts[1] > Cardinality(OpenFds)
      BY Zenon DEF ClientsExact, OpenFds
  <2> DEFINE owner == [f \in OpenFds |-> file[f]]
  <2>1. /\ IsFiniteSet(Connected) /\ IsFiniteSet(OpenFds)
        /\ Cardinality(OpenFds) \in Nat /\ Cardinality(Connected) \in Nat
        BY Sizes, Zenon DEF Connected, OpenFds
  <2>2. Connected = {c \in Clients : cl[c].st = "live"} /\ Adding = 0
        BY Zenon DEF Connected, Has, Adding
  <2>3. counts[1] = Cardinality(Connected)
    <3>1. "count" \notin faults
          BY Zenon
    <3>2. NClients = Cardinality(Connected) /\ ~(NClients < 0)
          BY <1>0, <2>1, <2>2, Zenon DEF NClients
    <3> QED BY <1>1, <3>1, <3>2, Zenon DEF CInv, Counted
  <2>4. \A f \in OpenFds : file[f] \in Connected /\ cl[file[f]].fd = f
        BY <1>1, <2>2, Zenon DEF OpenFds, Descriptors, Live
  <2>5. owner \in Injection(OpenFds, Connected)
    <3>1. owner \in [OpenFds -> Connected] /\ \A f, g \in OpenFds : owner[f] = owner[g] => f = g
          BY <2>4, ZenonT(60)
    <3>2. DOMAIN owner = OpenFds
          BY Zenon
    <3> HIDE DEF owner
    <3> QED BY <3>1, <3>2, Zenon DEF Injection, IsInjective
  <2>6. Cardinality(OpenFds) <= Cardinality(Connected)
        BY <2>1, <2>5, FS_Injection, Zenon
  <2>7. CASE "write" \in faults
    <3>1. \/ Cardinality(Connected) = Cardinality(OpenFds)
          \/ Cardinality(Connected) > Cardinality(OpenFds)
          BY <1>0, <2>1, <2>6, Zenon
    <3> QED BY <2>3, <2>7, <3>1, Zenon
  <2>8. CASE "write" \notin faults
    <3>1. faults \cap {"write", "foreign close"} = {} /\ \A c : ~Has("dropping", c)
          BY <2>8, Zenon DEF Has
    <3>2. ASSUME NEW c \in Connected PROVE cl[c].fd \in OpenFds /\ file[cl[c].fd] = c
      <4>1. file[cl[c].fd] = c
            BY <1>1, <3>1, Zenon DEF CInv, Intact
      <4>2. c # NONE /\ cl[c].fd \in Fds
            BY <1>1, <2>2, NoneAssumption, Zenon DEF IInv, Allocated, OthersLive
      <4> QED BY <4>1, <4>2, Zenon DEF OpenFds
    <3>3. owner \in Surjection(OpenFds, Connected)
          BY <2>4, <3>2, Zenon DEF Surjection
    <3> QED BY <2>1, <2>3, <2>5, <3>3, FS_Injection, Zenon
  <2> QED BY <2>7, <2>8, Zenon
<1>2. Init => IInv /\ Descriptors /\ CInv
      BY InitIInv, InitDescriptors, InitCInv, Zenon
<1>3. IInv /\ Descriptors /\ CInv /\ [Next]_vars => (IInv /\ Descriptors /\ CInv)'
      BY NextIInv, NextDescriptors, NextCInv, Zenon
<1>4. IInv /\ Descriptors /\ CInv => ClientsExact
      BY <1>1, Zenon
<1> QED BY <1>2, <1>3, <1>4, PTL DEF Spec

=============================================================================
