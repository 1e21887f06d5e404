--------------------------- MODULE PipelineProofs ---------------------------
(***************************************************************************)
(* Proofs about Pipeline for every number of clients, descriptors, slots,  *)
(* IO threads and workers: who holds a client, an io_event, a descriptor.  *)
(***************************************************************************)
EXTENDS Pipeline, TLAPS

-----------------------------------------------------------------------------
(* Types *)

Peers == {"new", "backlog", "open", "fin", "reset"}
Replies == Seq(Clients \X Nat)
Somebody == Clients \cup {NONE}
Numbers == Fds \cup {NONE}
Places == Slots \cup {NONE}
Pointers == Clients \cup Slots \cup {NONE}
Lives == {"none", "live", "freed"}
Modes == {"none", "off", "in", "out"}
AcceptPCs == {"wait", "accept", "add", "count"}
IOPCs == {"idle", "read", "stamp", "dropping", "drop", "write", "rearm"}
WorkerPCs == {"idle", "release"}
EventStates == {"free", "live"}
Payloads == {"freed", "live"}
Counters == Nat \X Nat

Structs == [st : Lives, fd : Numbers]
Entries == [on : Modes, ptr : Pointers]
Accepting == [pc : AcceptPCs, client : Somebody, counts : Counters]
IOThreads == [pc : IOPCs, client : Somebody, slot : Places, counts : Counters]
WorkerThreads == [pc : WorkerPCs, slot : Places, client : Somebody, req : Nat]
Events == [st : EventStates, client : Somebody, req : Nat, payload : Payloads]

TypeOK ==
  /\ peer \in [Clients -> Peers]
  /\ rcvd \in [Clients -> Nat]
  /\ out \in [Clients -> Replies]
  /\ file \in [Fds -> Somebody]
  /\ cl \in [Clients -> Structs]
  /\ reg \in [Fds -> Entries]
  /\ acc \in Accepting
  /\ io \in [IO -> IOThreads]
  /\ wk \in [Workers -> WorkerThreads]
  /\ ev \in [Slots -> Events]
  /\ wq \subseteq Slots
  /\ counts \in Counters

-----------------------------------------------------------------------------
(* One holder of every client, for any number of IO threads *)

Out(f) == reg[f].on = "out"
Armed(f) == reg[f].on \in {"in", "out"}
Guest(f) == IF reg[f].on = "in" THEN reg[f].ptr ELSE ev[reg[f].ptr].client
Serving(t) == io[t].pc \in {"read", "dropping", "drop", "write", "rearm"}
Carrying(t) == io[t].pc \in {"dropping", "drop", "write", "rearm"}
Live(c) == c \in Clients /\ cl[c].st = "live"

\* Whatever can be reached from an epoll entry, a thread or the work epoll is
\* allocated.
EntriesLive ==
  /\ \A f \in Fds : Armed(f) => Live(Guest(f)) /\ cl[Guest(f)].fd = f
  /\ \A f \in Fds : Out(f) => reg[f].ptr \in Slots /\ ev[reg[f].ptr].st = "live"

ThreadsLive ==
  /\ \A t \in IO : Serving(t) => Live(io[t].client)
  /\ \A t \in IO : Carrying(t) => /\ io[t].slot \in Slots /\ ev[io[t].slot].st = "live"
                                  /\ ev[io[t].slot].client = io[t].client
  /\ \A t \in IO : io[t].pc = "idle" => io[t].client = NONE
  /\ \A t \in IO : io[t].pc = "stamp" => io[t].slot \in Slots

OthersLive ==
  /\ \A w \in Workers : wk[w].pc = "release" => wk[w].slot \in Slots
  /\ \A e \in wq : ev[e].st = "live" /\ Live(ev[e].client)
  /\ acc.pc = "add" => Live(acc.client)
  /\ \A c \in Clients : peer[c] \in {"new", "backlog"} => cl[c].st = "none"
  /\ \A c \in Clients : cl[c].st = "live" => cl[c].fd \in Fds

Allocated == EntriesLive /\ ThreadsLive /\ OthersLive

\* An io_event is in one place.
EventsApart ==
  /\ \A f, g \in Fds : Out(f) /\ Out(g) /\ reg[f].ptr = reg[g].ptr => f = g
  /\ \A t, u \in IO : Carrying(t) /\ Carrying(u) /\ io[t].slot = io[u].slot => t = u
  /\ \A f \in Fds, t \in IO : Out(f) /\ Carrying(t) => reg[f].ptr # io[t].slot
  /\ \A f \in Fds : Out(f) => reg[f].ptr \notin wq
  /\ \A t \in IO : Carrying(t) => io[t].slot \notin wq

\* A client is in one place.
ClientsApart ==
  /\ \A f, g \in Fds : Armed(f) /\ Armed(g) /\ Guest(f) = Guest(g) => f = g
  /\ \A t, u \in IO : Serving(t) /\ Serving(u) /\ io[t].client = io[u].client => t = u
  /\ \A d, e \in wq : ev[d].client = ev[e].client => d = e
  /\ \A f \in Fds, t \in IO : Armed(f) /\ Serving(t) => Guest(f) # io[t].client
  /\ \A f \in Fds, e \in wq : Armed(f) => Guest(f) # ev[e].client
  /\ \A t \in IO, e \in wq : Serving(t) => io[t].client # ev[e].client

\* A client that is being accepted is nowhere yet.
Newcomer ==
  acc.pc = "add" =>
    /\ \A f \in Fds : Armed(f) => Guest(f) # acc.client
    /\ \A t \in IO : Serving(t) => io[t].client # acc.client
    /\ \A e \in wq : ev[e].client # acc.client

IInv == TypeOK /\ Allocated /\ EventsApart /\ ClientsApart /\ Newcomer

-----------------------------------------------------------------------------
(* Descriptors *)

\* An entry belongs to an open descriptor, and an open descriptor to the client
\* that was given it.
Descriptors ==
  /\ \A f \in Fds : reg[f].on # "none" => file[f] # NONE
  /\ \A f \in Fds : file[f] # NONE => Live(file[f]) /\ cl[file[f]].fd = f
  /\ acc.pc = "add" => file[cl[acc.client].fd] \in {NONE, acc.client}
  /\ \A t \in IO : io[t].pc \in {"dropping", "drop"} => file[cl[io[t].client].fd] # io[t].client

-----------------------------------------------------------------------------
(* Lemmas *)

\* The types hold at the start.
LEMMA InitTypeOK == Init => TypeOK
BY DEF Init, TypeOK, NoEntry, FreeSlot, IdleIO, IdleWorker, IdleAccept, Peers, Replies, Somebody, Numbers,
   Places, Pointers, Lives, Modes, AcceptPCs, IOPCs, WorkerPCs, EventStates, Payloads, Counters, Structs,
   Entries, Accepting, IOThreads, WorkerThreads, Events

\* Counting keeps the counters natural numbers.
LEMMA CountType == ASSUME NEW cs \in Counters, NEW d \in {-1, 1} PROVE Count(cs, d) \in Counters
<1>1. CountMod \in Nat /\ CountMod > 0
      BY CountAssumption
<1>2. cs[1] + d \in Int /\ cs[2] + d \in Int
      BY DEF Counters
<1> QED BY <1>1 DEF Count, Counters

\* Thread t goes to p, holding client c and slot e; the others stay.
IOGoes(t, p, c, e) ==
  /\ io' \in [IO -> IOThreads]
  /\ io'[t].pc = p /\ io'[t].client = c /\ io'[t].slot = e
  /\ \A u \in IO : u # t => io'[u] = io[u]

\* The shapes in which an IO thread changes its local state.
LEMMA IOSets ==
  ASSUME TypeOK, NEW t \in IO, NEW v \in IOThreads, io' = [io EXCEPT ![t] = v]
  PROVE  IOGoes(t, v.pc, v.client, v.slot)
BY DEF TypeOK, IOGoes

\* What an assignment to an IO thread's position does.
LEMMA IOSteps ==
  ASSUME TypeOK, NEW t \in IO, NEW p \in IOPCs, io' = [io EXCEPT ![t].pc = p]
  PROVE  IOGoes(t, p, io[t].client, io[t].slot)
<1>1. io \in [IO -> IOThreads]
      BY DEF TypeOK
<1> QED BY <1>1 DEF IOGoes, IOThreads

\* The same with the io_event.
LEMMA IOTakesSlot ==
  ASSUME TypeOK, NEW t \in IO, NEW p \in IOPCs, NEW e \in Slots,
         io' = [io EXCEPT ![t].pc = p, ![t].slot = e]
  PROVE  IOGoes(t, p, io[t].client, e)
<1> DEFINE a == [io EXCEPT ![t].pc = p]
           b == [a EXCEPT ![t].slot = e]
<1>1. a \in [IO -> IOThreads] /\ a[t].pc = p /\ a[t].client = io[t].client
      /\ \A u \in IO : u # t => a[u] = io[u]
      BY DEF TypeOK, IOThreads
<1>2. io' = b /\ e \in Places
      BY DEF Places
<1> HIDE DEF a
<1>3. b \in [IO -> IOThreads] /\ b[t].pc = p /\ b[t].client = io[t].client /\ b[t].slot = e
      /\ \A u \in IO : u # t => b[u] = io[u]
      BY <1>1, <1>2 DEF IOThreads
<1> HIDE DEF b
<1> QED BY <1>2, <1>3, Zenon DEF IOGoes

\* The same with the io_event and the counters read.
LEMMA IOTakesSlotAndCounts ==
  ASSUME TypeOK, NEW t \in IO, NEW p \in IOPCs, NEW e \in Slots, NEW cs \in Counters,
         io' = [io EXCEPT ![t].pc = p, ![t].slot = e, ![t].counts = cs]
  PROVE  IOGoes(t, p, io[t].client, e)
<1> DEFINE a == [io EXCEPT ![t].pc = p]
           b == [a EXCEPT ![t].slot = e]
           d == [b EXCEPT ![t].counts = cs]
<1>1. a \in [IO -> IOThreads] /\ a[t].pc = p /\ a[t].client = io[t].client
      /\ \A u \in IO : u # t => a[u] = io[u]
      BY DEF TypeOK, IOThreads
<1>2. io' = d /\ e \in Places
      BY DEF Places
<1> HIDE DEF a
<1>3. b \in [IO -> IOThreads] /\ b[t].pc = p /\ b[t].client = io[t].client /\ b[t].slot = e
      /\ \A u \in IO : u # t => b[u] = io[u]
      BY <1>1, <1>2 DEF IOThreads
<1> HIDE DEF b
<1>4. d \in [IO -> IOThreads] /\ d[t].pc = p /\ d[t].client = io[t].client /\ d[t].slot = e
      /\ \A u \in IO : u # t => d[u] = io[u]
      BY <1>3 DEF IOThreads
<1> HIDE DEF d
<1> QED BY <1>2, <1>4, Zenon DEF IOGoes

\* The same for epoll entries, io_events and descriptors.
EntryGoes(f, on, ptr) ==
  /\ reg' \in [Fds -> Entries]
  /\ f \in Fds /\ reg'[f].on = on /\ reg'[f].ptr = ptr
  /\ \A g \in Fds : g # f => reg'[g] = reg[g]

EventGoes(e, st, c, r) ==
  /\ ev' \in [Slots -> Events]
  /\ e \in Slots /\ ev'[e].st = st /\ ev'[e].client = c /\ ev'[e].req = r
  /\ \A d \in Slots : d # e => ev'[d] = ev[d]

Closes(f) ==
  /\ EntryGoes(f, "none", NONE)
  /\ file' \in [Fds -> Somebody] /\ file'[f] = NONE
  /\ \A g \in Fds : g # f => file'[g] = file[g]

\* What an assignment to an epoll entry does.
LEMMA EntrySets ==
  ASSUME TypeOK, NEW f \in Fds, NEW v \in Entries, reg' = [reg EXCEPT ![f] = v]
  PROVE  EntryGoes(f, v.on, v.ptr)
BY DEF TypeOK, EntryGoes

\* What a report does to an epoll entry.
LEMMA EntryDisarms ==
  ASSUME TypeOK, NEW f \in Fds, reg' = [reg EXCEPT ![f].on = "off"]
  PROVE  EntryGoes(f, "off", reg[f].ptr)
BY DEF TypeOK, EntryGoes, Entries, Modes

\* What an assignment to an io_event does.
LEMMA EventSets ==
  ASSUME TypeOK, NEW e \in Slots, NEW v \in Events, ev' = [ev EXCEPT ![e] = v]
  PROVE  EventGoes(e, v.st, v.client, v.req)
BY DEF TypeOK, EventGoes

\* What close does.
LEMMA CloseGoes == ASSUME TypeOK, NEW f \in Fds, Close(f) PROVE Closes(f)
<1>1. NoEntry \in Entries /\ NoEntry.on = "none" /\ NoEntry.ptr = NONE
      BY DEF NoEntry, Entries, Modes, Pointers
<1>2. EntryGoes(f, "none", NONE)
      BY <1>1, EntrySets, ZenonT(30) DEF Close
<1> QED BY <1>2 DEF Closes, Close, TypeOK, Somebody

\* A thread without work is well typed.
LEMMA Idle == /\ IdleIO \in IOThreads
              /\ IdleIO.pc = "idle" /\ IdleIO.client = NONE /\ IdleIO.slot = NONE
BY DEF IdleIO, IOThreads, IOPCs, Somebody, Places, Counters

\* A released io_event and a missing entry are well typed.
LEMMA Free == /\ FreeSlot \in Events
              /\ FreeSlot.st = "free" /\ FreeSlot.client = NONE /\ FreeSlot.req = 0
BY DEF FreeSlot, Events, EventStates, Somebody, Payloads

\* The outcomes of a read: the client is dropped, its packet is bad, or its
\* request goes to the workers.
ReadDrops(t, e) ==
  /\ IOGoes(t, "dropping", io[t].client, e)
  /\ EventGoes(e, "live", io[t].client, 0)
  /\ Closes(cl[io[t].client].fd)
  /\ UNCHANGED <<rcvd, wq>>

ReadGets(t, e, k) ==
  /\ k \in Clients /\ k = file[cl[io[t].client].fd]
  /\ rcvd' = [rcvd EXCEPT ![k] = @ + 1]
  /\ EventGoes(e, "live", io[t].client, rcvd[k] + 1)
  /\ \/ IOGoes(t, "idle", NONE, NONE) /\ wq' = wq
     \/ IOGoes(t, "stamp", io[t].client, e) /\ wq' = wq \cup {e}
  /\ UNCHANGED <<file, reg>>

\* What io_read does: the client is dropped or its packet goes to the workers.
LEMMA ReadCases ==
  ASSUME TypeOK, Allocated, NEW t \in IO, io_read(t)
  PROVE  /\ \E e \in Slots : ev[e].st = "free" /\ (ReadDrops(t, e) \/ \E k \in Clients : ReadGets(t, e, k))
         /\ UNCHANGED <<peer, out, cl, acc, wk, counts, faults>>
         /\ io[t].pc = "read"
<1>1. PICK e \in Slots : io_read(t)!2!(e)
      BY ZenonT(30) DEF io_read
<1> DEFINE c == io[t].client  f == cl[c].fd  k == file[f]
           v(r) == [st |-> "live", client |-> c, req |-> r, payload |-> "live"]
           fails == k = NONE \/ peer[k] = "reset" \/ rcvd[k] = Len(sent[k]) \/ NextPacket(k) = "big"
<1>2. c \in Clients /\ f \in Fds /\ c \in Somebody
      BY Zenon DEF io_read, Allocated, EntriesLive, ThreadsLive, OthersLive, Serving, Live, Somebody
<1>3. \A r \in Nat : v(r) \in Events /\ v(r).st = "live" /\ v(r).client = c /\ v(r).req = r
      BY <1>2 DEF Events, EventStates, Payloads
<1>4. "dropping" \in IOPCs /\ "stamp" \in IOPCs /\ counts \in Counters
      BY DEF IOPCs, TypeOK
<1>5. CASE fails
  <2>1. /\ Close(f) /\ UNCHANGED <<rcvd, wq>>
        /\ ev' = [ev EXCEPT ![e] = v(0)]
        /\ io' = [io EXCEPT ![t].pc = "dropping", ![t].slot = e, ![t].counts = counts]
        BY <1>1, <1>5, ZenonT(30)
  <2>2. IOGoes(t, "dropping", c, e)
        BY <2>1, <1>4, IOTakesSlotAndCounts, Zenon
  <2>3. v(0) \in Events /\ v(0).st = "live" /\ v(0).client = c /\ v(0).req = 0
        BY <1>3
  <2> HIDE DEF v
  <2>4. EventGoes(e, "live", c, 0)
        BY <2>1, <2>3, EventSets, Zenon
  <2>5. ReadDrops(t, e)
        BY <1>2, <2>1, <2>2, <2>4, CloseGoes, Zenon DEF ReadDrops
  <2> QED BY <1>1, <2>5, ZenonT(30) DEF io_read
<1>6. CASE ~fails
  <2>1. k \in Clients
        BY <1>2, <1>6, Zenon DEF TypeOK, Somebody
  <2>2. rcvd[k] + 1 \in Nat
        BY <2>1 DEF TypeOK
  <2>3. /\ rcvd' = [rcvd EXCEPT ![k] = @ + 1]
        /\ ev' = [ev EXCEPT ![e] = v(rcvd[k] + 1)]
        /\ \/ io' = [io EXCEPT ![t] = IdleIO] /\ wq' = wq
           \/ io' = [io EXCEPT ![t].pc = "stamp", ![t].slot = e] /\ wq' = wq \cup {e}
        /\ UNCHANGED <<file, reg>>
        BY <1>1, <1>6, Zenon
  <2>4. LET u == v(rcvd[k] + 1) IN u \in Events /\ u.st = "live" /\ u.client = c /\ u.req = rcvd[k] + 1
        BY <1>3, <2>2, Zenon
  <2> HIDE DEF v
  <2>5. EventGoes(e, "live", c, rcvd[k] + 1)
        BY <2>3, <2>4, EventSets, Zenon
  <2>6. \/ IOGoes(t, "idle", NONE, NONE) /\ wq' = wq
        \/ IOGoes(t, "stamp", c, e) /\ wq' = wq \cup {e}
        BY <2>3, <1>4, IOSets, IOTakesSlot, Idle, Zenon
  <2>7. ReadGets(t, e, k)
        BY <2>1, <2>3, <2>5, <2>6, Zenon DEF ReadGets
  <2> QED BY <1>1, <2>1, <2>7, Zenon DEF io_read
<1> QED BY <1>5, <1>6, Zenon

\* The outcome of epoll_wait: an armed entry is disarmed and taken.
WaitTakes(t, f) ==
  /\ EntryGoes(f, "off", reg[f].ptr)
  /\ \/ reg[f].on = "in" /\ IOGoes(t, "read", Guest(f), NONE)
     \/ reg[f].on = "out" /\ IOGoes(t, "write", Guest(f), reg[f].ptr)

\* What a report to an IO thread does.
LEMMA WaitCases ==
  ASSUME TypeOK, Allocated, NEW t \in IO, NEW f \in Fds, io_wait(t, f)
  PROVE  /\ io[t].pc = "idle" /\ Armed(f) /\ WaitTakes(t, f)
         /\ UNCHANGED <<peer, rcvd, out, file, cl, acc, wk, ev, wq, counts, faults>>
<1>1. EntryGoes(f, "off", reg[f].ptr)
      BY EntryDisarms, Zenon DEF io_wait
<1>2. ASSUME reg[f].on = "in", io' = [io EXCEPT ![t] = [IdleIO EXCEPT !.pc = "read", !.client = reg[f].ptr]]
      PROVE  IOGoes(t, "read", Guest(f), NONE)
  <2> DEFINE v == [IdleIO EXCEPT !.pc = "read", !.client = reg[f].ptr]
  <2>1. reg[f].ptr \in Somebody
        BY <1>2, Zenon DEF Allocated, EntriesLive, Armed, Guest, Live, Somebody
  <2>2. v \in IOThreads /\ v.pc = "read" /\ v.client = reg[f].ptr /\ v.slot = NONE
        BY <2>1, Zenon DEF IdleIO, IOThreads, IOPCs, Places, Counters
  <2>3. io' = [io EXCEPT ![t] = v]
        BY <1>2
  <2> HIDE DEF v
  <2>4. IOGoes(t, v.pc, v.client, v.slot)
        BY <2>2, <2>3, IOSets, Zenon
  <2> QED BY <1>2, <2>2, <2>4 DEF Guest
<1>3. ASSUME reg[f].on = "out",
             io' = [io EXCEPT ![t] = [IdleIO EXCEPT !.pc = "write", !.slot = reg[f].ptr,
                                                    !.client = ev[reg[f].ptr].client]]
      PROVE  IOGoes(t, "write", Guest(f), reg[f].ptr)
  <2> DEFINE v == [IdleIO EXCEPT !.pc = "write", !.slot = reg[f].ptr, !.client = ev[reg[f].ptr].client]
  <2>1. ev[reg[f].ptr].client \in Somebody /\ reg[f].ptr \in Places
        BY <1>3, Zenon DEF Allocated, EntriesLive, Armed, Out, Guest, Live, Somebody, Places
  <2>2. v \in IOThreads /\ v.pc = "write" /\ v.client = ev[reg[f].ptr].client /\ v.slot = reg[f].ptr
        BY <2>1, Zenon DEF IdleIO, IOThreads, IOPCs, Counters
  <2>3. io' = [io EXCEPT ![t] = v]
        BY <1>3
  <2> HIDE DEF v
  <2>4. IOGoes(t, v.pc, v.client, v.slot)
        BY <2>2, <2>3, IOSets, Zenon
  <2> QED BY <1>3, <2>2, <2>4, Zenon DEF Guest
<1>4. WaitTakes(t, f)
      BY <1>1, <1>2, <1>3, Zenon DEF io_wait, WaitTakes
<1> QED BY <1>4 DEF io_wait, Armed

\* io_error only disarms.
LEMMA ErrorCases ==
  ASSUME TypeOK, NEW t \in IO, NEW f \in Fds, io_error(t, f)
  PROVE  /\ EntryGoes(f, "off", reg[f].ptr)
         /\ UNCHANGED <<peer, rcvd, out, file, cl, acc, io, wk, ev, wq, counts, faults>>
BY EntryDisarms, Zenon DEF io_error

\* What the time stamp after the report does.
LEMMA StampCases ==
  ASSUME TypeOK, NEW t \in IO, io_stamp(t)
  PROVE  /\ io[t].pc = "stamp" /\ IOGoes(t, "idle", NONE, NONE)
         /\ faults \subseteq faults' /\ faults' \subseteq faults \cup {"stamp"}
         /\ UNCHANGED <<peer, rcvd, out, file, cl, reg, acc, wk, ev, wq, counts>>
<1>1. IOGoes(t, "idle", NONE, NONE)
      BY Idle, IOSets, Zenon DEF io_stamp
<1> QED BY <1>1, Zenon DEF io_stamp

\* What the counting of a dropped client does.
LEMMA CountCases ==
  ASSUME TypeOK, NEW t \in IO, io_count(t)
  PROVE  /\ io[t].pc = "dropping" /\ IOGoes(t, "drop", io[t].client, io[t].slot)
         /\ counts' = Count(io[t].counts, -1) /\ counts' \in Counters
         /\ faults' = faults \cup LostUpdate(io[t].counts)
         /\ UNCHANGED <<peer, rcvd, out, file, cl, reg, acc, wk, ev, wq>>
<1>1. IOGoes(t, "drop", io[t].client, io[t].slot)
      BY IOSteps, Zenon DEF io_count, IOPCs
<1>2. io[t].counts \in Counters
      BY DEF TypeOK, IOThreads
<1>3. Count(io[t].counts, -1) \in Counters
      BY <1>2, CountType
<1> QED BY <1>1, <1>3 DEF io_count

\* What the release of a dropped client does.
LEMMA DropCases ==
  ASSUME TypeOK, Allocated, NEW t \in IO, io_drop(t)
  PROVE  LET c == io[t].client  f == cl[c].fd IN
         /\ io[t].pc = "drop" /\ IOGoes(t, "idle", NONE, NONE) /\ Closes(f)
         /\ EventGoes(io[t].slot, "free", NONE, 0)
         /\ faults' = faults \cup {"stamp"}
                             \cup (IF file[f] \notin {NONE, c} THEN {"foreign close"} ELSE {})
         /\ cl' \in [Clients -> Structs] /\ cl'[c].st = "freed" /\ cl'[c].fd = f
         /\ \A d \in Clients : d # c => cl'[d] = cl[d]
         /\ UNCHANGED <<peer, rcvd, out, acc, wk, wq, counts>>
<1> DEFINE c == io[t].client  f == cl[c].fd
<1>1. c \in Clients /\ f \in Fds /\ io[t].slot \in Slots
      BY Zenon DEF io_drop, Allocated, ThreadsLive, OthersLive, Serving, Carrying, Live
<1>2. IOGoes(t, "idle", NONE, NONE)
      BY Idle, IOSets, Zenon DEF io_drop
<1>3. Closes(f)
      BY <1>1, CloseGoes, Zenon DEF io_drop
<1>4. EventGoes(io[t].slot, "free", NONE, 0)
      BY <1>1, Free, EventSets, Zenon DEF io_drop
<1>5. /\ cl' \in [Clients -> Structs] /\ cl'[c].st = "freed" /\ cl'[c].fd = f
      /\ \A d \in Clients : d # c => cl'[d] = cl[d]
      BY <1>1, Zenon DEF io_drop, TypeOK, Structs, Lives
<1> QED BY <1>2, <1>3, <1>4, <1>5, Zenon DEF io_drop

\* What the write of a reply does: the reply is out, lost, or the descriptor is
\* closed.
LEMMA WriteCases ==
  ASSUME TypeOK, Allocated, NEW t \in IO, io_write(t)
  PROVE  LET c == io[t].client  f == cl[c].fd  k == file[f] IN
         /\ io[t].pc = "write" /\ IOGoes(t, "rearm", c, io[t].slot)
         /\ \/ k = NONE /\ UNCHANGED <<out, file, reg, faults>>
            \/ /\ k # NONE /\ Closes(f) /\ faults' = faults \cup {"write"}
               /\ UNCHANGED out
            \/ /\ k \in Clients /\ out' = [out EXCEPT ![k] = Append(@, <<c, ev[io[t].slot].req>>)]
               /\ UNCHANGED <<file, reg, faults>>
         /\ UNCHANGED <<peer, rcvd, cl, acc, wk, ev, wq, counts>>
<1> DEFINE c == io[t].client  f == cl[c].fd  k == file[f]
<1>1. c \in Clients /\ f \in Fds /\ ev[io[t].slot].client = c
      BY Zenon DEF io_write, Allocated, EntriesLive, ThreadsLive, OthersLive, Serving, Carrying, Live
<1>2. k \in Clients \cup {NONE}
      BY <1>1, Zenon DEF TypeOK, Somebody
<1>3. IOGoes(t, "rearm", c, io[t].slot)
      BY IOSteps, Zenon DEF io_write, IOPCs
<1>4. Close(f) => Closes(f)
      BY <1>1, CloseGoes, Zenon
<1> QED BY <1>1, <1>2, <1>3, <1>4, ZenonT(30) DEF io_write

\* What epoll_mod leaves behind.
Modifies(f, on, ptr) ==
  IF reg[f].on = "none" THEN UNCHANGED reg ELSE EntryGoes(f, on, ptr)

\* What epoll_mod does to an entry.
LEMMA ModGoes ==
  ASSUME TypeOK, NEW f \in Fds, NEW on \in Modes, NEW ptr \in Pointers, epoll_mod(f, on, ptr)
  PROVE  Modifies(f, on, ptr)
<1>1. CASE reg[f].on = "none"
      BY <1>1 DEF epoll_mod, Modifies, TypeOK
<1>2. CASE reg[f].on # "none"
  <2> DEFINE v == [on |-> on, ptr |-> ptr]
  <2>1. v \in Entries /\ v.on = on /\ v.ptr = ptr
        BY DEF Entries
  <2>2. reg' = [reg EXCEPT ![f] = v]
        BY <1>2 DEF epoll_mod
  <2> HIDE DEF v
  <2> QED BY <1>2, <2>1, <2>2, EntrySets, Zenon DEF Modifies
<1> QED BY <1>1, <1>2

\* What the arming of a client for reading does.
LEMMA RearmCases ==
  ASSUME TypeOK, Allocated, NEW t \in IO, io_rearm(t)
  PROVE  LET c == io[t].client  f == cl[c].fd IN
         /\ io[t].pc = "rearm" /\ IOGoes(t, "idle", NONE, NONE)
         /\ Modifies(f, "in", c) /\ EventGoes(io[t].slot, "free", NONE, 0)
         /\ faults' = faults \cup Mistaken(c)
         /\ UNCHANGED <<peer, rcvd, out, file, cl, acc, wk, wq, counts>>
<1> DEFINE c == io[t].client  f == cl[c].fd
<1>1. c \in Clients /\ f \in Fds /\ io[t].slot \in Slots /\ ev[io[t].slot].client = c
      BY Zenon DEF io_rearm, Allocated, EntriesLive, ThreadsLive, OthersLive, Serving, Carrying, Live
<1>2. IOGoes(t, "idle", NONE, NONE)
      BY Idle, IOSets, Zenon DEF io_rearm
<1> USE <1>1
<1>3. Modifies(f, "in", c)
      BY ModGoes, Zenon DEF io_rearm, Modes, Pointers
<1>4. EventGoes(io[t].slot, "free", NONE, 0)
      BY Free, EventSets, Zenon DEF io_rearm
<1> QED BY <1>2, <1>3, <1>4, Zenon DEF io_rearm

\* What a worker does with an io_event up to the arming of the client for
\* writing.
LEMMA HandleCases ==
  ASSUME TypeOK, Allocated, NEW w \in Workers, NEW e \in Slots, worker_handle(w, e)
  PROVE  LET c == ev[e].client IN
         /\ e \in wq /\ wq' = wq \ {e} /\ Modifies(cl[c].fd, "out", e)
         /\ faults \cup Mistaken(c) \subseteq faults'
         /\ faults' \subseteq faults \cup Mistaken(c) \cup {"payload"}
         /\ wk' \in [Workers -> WorkerThreads]
         /\ wk'[w].slot \in Slots /\ \A x \in Workers : x # w => wk'[x] = wk[x]
         /\ UNCHANGED <<peer, rcvd, out, file, cl, acc, io, ev, counts>>
<1> DEFINE c == ev[e].client
           v == [pc |-> "release", slot |-> e, client |-> c, req |-> ev[e].req]
<1>1. c \in Clients /\ cl[c].fd \in Fds
      BY Zenon DEF worker_handle, Allocated, OthersLive, Live
<1>2. Modifies(cl[c].fd, "out", e)
      BY <1>1, ModGoes, Zenon DEF worker_handle, Modes, Pointers
<1>3. v \in WorkerThreads /\ v.slot = e
      BY DEF WorkerThreads, WorkerPCs, Places, TypeOK, Events
<1>4. wk' = [wk EXCEPT ![w] = v]
      BY Zenon DEF worker_handle
<1> HIDE DEF v
<1>5. /\ wk' \in [Workers -> WorkerThreads]
      /\ wk'[w].slot \in Slots /\ \A x \in Workers : x # w => wk'[x] = wk[x]
      BY <1>3, <1>4, Zenon DEF TypeOK
<1> QED BY <1>2, <1>5, Zenon DEF worker_handle

\* What a worker does after it.
LEMMA ReleaseCases ==
  ASSUME TypeOK, Allocated, NEW w \in Workers, worker_release(w)
  PROVE  LET e == wk[w].slot IN
         /\ wq' = wq \ {e} /\ EventGoes(e, ev[e].st, ev[e].client, ev[e].req)
         /\ faults \subseteq faults' /\ faults' \subseteq faults \cup {"event"}
         /\ wk' \in [Workers -> WorkerThreads]
         /\ wk'[w].pc = "idle" /\ \A x \in Workers : x # w => wk'[x] = wk[x]
         /\ UNCHANGED <<peer, rcvd, out, file, cl, reg, acc, io, counts>>
<1> DEFINE e == wk[w].slot
<1>1. e \in Slots
      BY Zenon DEF worker_release, Allocated, OthersLive
<1>2. EventGoes(e, ev[e].st, ev[e].client, ev[e].req)
      BY <1>1, Zenon DEF worker_release, EventGoes, TypeOK, Events, Payloads
<1>3. IdleWorker \in WorkerThreads /\ IdleWorker.pc = "idle"
      BY DEF IdleWorker, WorkerThreads, WorkerPCs, Places, Somebody
<1>4. /\ wk' \in [Workers -> WorkerThreads]
      /\ wk'[w].pc = "idle" /\ \A x \in Workers : x # w => wk'[x] = wk[x]
      BY <1>3, Zenon DEF worker_release, TypeOK
<1> QED BY <1>2, <1>4, Zenon DEF worker_release

\* What clients do.
LEMMA EnvironmentCases ==
  ASSUME TypeOK, Environment
  PROVE  /\ peer' \in [Clients -> Peers]
         /\ \A c \in Clients : peer'[c] \in {"new", "backlog"} => peer[c] \in {"new", "backlog"}
         /\ UNCHANGED <<rcvd, out, file, cl, reg, acc, io, wk, ev, wq, counts, faults>>
<1>1. PICK c \in Clients : \/ Connect(c)
                           \/ \E kind \in Kinds : Send(c, kind)
                           \/ \E how \in Leaves : Leave(c, how)
      BY DEF Environment
<1> QED BY <1>1, LeavesAssumption, Zenon DEF Connect, Send, Leave, TypeOK, Peers

\* accept_wait and accept_fails change nothing that matters here.
LEMMA WaitingCases ==
  ASSUME TypeOK, accept_wait \/ accept_fails
  PROVE  /\ acc' \in Accepting /\ acc.pc \in {"wait", "accept"} /\ acc'.pc \in {"wait", "accept"}
         /\ faults \subseteq faults' /\ faults' \subseteq faults \cup {"accept"}
         /\ UNCHANGED <<peer, rcvd, out, file, cl, reg, io, wk, ev, wq, counts>>
BY DEF accept_wait, accept_fails, TypeOK, Accepting, AcceptPCs, IdleAccept, Somebody, Counters

\* What accept_connection does.
LEMMA ConnectionCases ==
  ASSUME TypeOK, NEW c \in Clients, accept_connection(c)
  PROVE  \E f \in Fds :
         /\ acc.pc = "accept" /\ peer[c] = "backlog" /\ file[f] = NONE
         /\ peer' \in [Clients -> Peers] /\ peer'[c] = "open"
         /\ \A d \in Clients : d # c => peer'[d] = peer[d]
         /\ file' \in [Fds -> Somebody] /\ file'[f] = c /\ \A g \in Fds : g # f => file'[g] = file[g]
         /\ cl' \in [Clients -> Structs] /\ cl'[c].st = "live" /\ cl'[c].fd = f
         /\ \A d \in Clients : d # c => cl'[d] = cl[d]
         /\ acc' \in Accepting /\ acc'.pc = "add" /\ acc'.client = c
         /\ UNCHANGED <<rcvd, out, reg, io, wk, ev, wq, counts, faults>>
<1>1. PICK f \in Fds : /\ file[f] = NONE
                       /\ file' = [file EXCEPT ![f] = c]
                       /\ cl' = [cl EXCEPT ![c] = [st |-> "live", fd |-> f]]
      BY Zenon DEF accept_connection, FreeFds
<1>2. acc.pc = "accept" /\ peer[c] = "backlog"
      BY DEF accept_connection, Backlog
<1>3. /\ peer' \in [Clients -> Peers] /\ peer'[c] = "open"
      /\ \A d \in Clients : d # c => peer'[d] = peer[d]
      BY DEF accept_connection, TypeOK, Peers
<1>4. file' \in [Fds -> Somebody] /\ file'[f] = c /\ \A g \in Fds : g # f => file'[g] = file[g]
      BY <1>1, Zenon DEF TypeOK, Somebody
<1>5. /\ cl' \in [Clients -> Structs] /\ cl'[c].st = "live" /\ cl'[c].fd = f
      /\ \A d \in Clients : d # c => cl'[d] = cl[d]
      BY <1>1, Zenon DEF TypeOK, Structs, Lives, Numbers
<1>6. acc' \in Accepting /\ acc'.pc = "add" /\ acc'.client = c
      BY Zenon DEF accept_connection, TypeOK, Accepting, AcceptPCs, Somebody
<1>7. UNCHANGED <<rcvd, out, reg, io, wk, ev, wq, counts, faults>>
      BY DEF accept_connection
<1> QED BY <1>1, <1>2, <1>3, <1>4, <1>5, <1>6, <1>7, Zenon

\* What the registration of a new client does.
LEMMA AddCases ==
  ASSUME TypeOK, Allocated, accept_add
  PROVE  LET c == acc.client  f == cl[c].fd IN
         /\ acc.pc = "add" /\ acc' \in Accepting /\ acc'.pc = "count"
         /\ IF file[f] = NONE THEN UNCHANGED reg ELSE EntryGoes(f, "in", c)
         /\ UNCHANGED <<peer, rcvd, out, file, cl, io, wk, ev, wq, counts, faults>>
<1> DEFINE c == acc.client  f == cl[c].fd  v == [on |-> "in", ptr |-> c]
<1>1. c \in Clients /\ f \in Fds
      BY Zenon DEF accept_add, Allocated, OthersLive, Live
<1>2. v \in Entries /\ v.on = "in" /\ v.ptr = c
      BY <1>1 DEF Entries, Modes, Pointers
<1>3. reg' = IF file[f] = NONE THEN reg ELSE [reg EXCEPT ![f] = v]
      BY Zenon DEF accept_add
<1>4. acc.pc = "add" /\ acc' \in Accepting /\ acc'.pc = "count"
      BY Zenon DEF accept_add, TypeOK, Accepting, AcceptPCs
<1> HIDE DEF v
<1>5. IF file[f] = NONE THEN UNCHANGED reg ELSE EntryGoes(f, "in", c)
      BY <1>1, <1>2, <1>3, EntrySets, Zenon
<1> QED BY <1>4, <1>5, Zenon DEF accept_add

\* What the counting of a new client does.
LEMMA CountedCases ==
  ASSUME TypeOK, accept_count
  PROVE  /\ acc.pc = "count" /\ acc' \in Accepting /\ acc'.pc = "accept"
         /\ counts' = Count(acc.counts, 1) /\ counts' \in Counters
         /\ faults' = faults \cup LostUpdate(acc.counts)
         /\ UNCHANGED <<peer, rcvd, out, file, cl, reg, io, wk, ev, wq>>
<1>1. acc.counts \in Counters
      BY DEF TypeOK, Accepting
<1>2. Count(acc.counts, 1) \in Counters
      BY <1>1, CountType
<1>3. acc' \in Accepting /\ acc'.pc = "accept"
      BY DEF accept_count, IdleAccept, Accepting, AcceptPCs, Somebody, Counters
<1> QED BY <1>2, <1>3 DEF accept_count

\* The server's steps, by their outcomes.
LEMMA TypeStep == TypeOK /\ Allocated /\ [Next]_vars => TypeOK'
<1> SUFFICES ASSUME TypeOK, Allocated, [Next]_vars PROVE TypeOK'
    OBVIOUS
<1>1. CASE UNCHANGED vars
      BY <1>1, Zenon DEF vars, TypeOK
<1>2. CASE Environment
      BY <1>2, EnvironmentCases, Zenon DEF TypeOK
<1>3. CASE accept_wait \/ accept_fails
      BY <1>3, WaitingCases, Zenon DEF TypeOK
<1>4. CASE accept_add
      BY <1>4, AddCases, Zenon DEF TypeOK, EntryGoes
<1>5. CASE accept_count
      BY <1>5, CountedCases, Zenon DEF TypeOK
<1>6. ASSUME NEW c \in Clients, accept_connection(c) PROVE TypeOK'
      BY <1>6, ConnectionCases DEF TypeOK
<1>7. ASSUME NEW t \in IO, io_read(t) PROVE TypeOK'
  <2>1. UNCHANGED <<peer, out, cl, acc, wk, counts, faults>>
        BY <1>7, ReadCases, Zenon
  <2>2. PICK e \in Slots : ReadDrops(t, e) \/ \E k \in Clients : ReadGets(t, e, k)
        BY <1>7, ReadCases, Zenon
  <2>3. CASE ReadDrops(t, e)
        BY <2>1, <2>3, Zenon DEF ReadDrops, IOGoes, EventGoes, Closes, EntryGoes, TypeOK
  <2>4. ASSUME NEW k \in Clients, ReadGets(t, e, k) PROVE TypeOK'
    <3>0. rcvd \in [Clients -> Nat] /\ rcvd' = [rcvd EXCEPT ![k] = @ + 1]
          BY <2>4, Zenon DEF ReadGets, TypeOK
    <3>1. rcvd' \in [Clients -> Nat]
          BY <3>0
    <3>2. wq' \subseteq Slots
          BY <2>4, ZenonT(30) DEF ReadGets, TypeOK
    <3> QED BY <2>1, <2>4, <3>1, <3>2, Zenon DEF ReadGets, IOGoes, EventGoes, TypeOK
  <2> QED BY <2>2, <2>3, <2>4, Zenon
<1>8. ASSUME NEW t \in IO, io_stamp(t) PROVE TypeOK'
      BY <1>8, StampCases, Zenon DEF TypeOK, IOGoes
<1>9. ASSUME NEW t \in IO, io_count(t) PROVE TypeOK'
      BY <1>9, CountCases, Zenon DEF TypeOK, IOGoes
<1>10. ASSUME NEW t \in IO, io_drop(t) PROVE TypeOK'
      BY <1>10, DropCases, ZenonT(30) DEF TypeOK, IOGoes, EventGoes, Closes, EntryGoes
<1>11. ASSUME NEW t \in IO, io_write(t) PROVE TypeOK'
  <2> DEFINE c == io[t].client  k == file[cl[c].fd]
  <2>1. io[t].slot \in Slots /\ c \in Clients
        BY <1>11, Zenon DEF io_write, Allocated, ThreadsLive, Serving, Carrying, Live
  <2>2. <<c, ev[io[t].slot].req>> \in Clients \X Nat
        BY <2>1, Zenon DEF TypeOK, Events
  <2>a. out \in [Clients -> Replies]
        BY DEF TypeOK
  <2>b. \A r \in Replies : Append(r, <<c, ev[io[t].slot].req>>) \in Replies
        BY <2>2 DEF Replies
  <2>c. \/ out' = out
        \/ k \in Clients /\ out' = [out EXCEPT ![k] = Append(@, <<c, ev[io[t].slot].req>>)]
        BY <1>11, WriteCases, Zenon
  <2>3. out' \in [Clients -> Replies]
        BY <2>a, <2>b, <2>c, Zenon
  <2> QED BY <1>11, <2>3, WriteCases, Zenon DEF TypeOK, IOGoes, Closes, EntryGoes
<1>12. ASSUME NEW t \in IO, io_rearm(t) PROVE TypeOK'
      BY <1>12, RearmCases, Zenon DEF TypeOK, IOGoes, EventGoes, Modifies, EntryGoes
<1>13. ASSUME NEW t \in IO, NEW f \in Fds, io_wait(t, f) PROVE TypeOK'
      BY <1>13, WaitCases, Zenon DEF TypeOK, WaitTakes, IOGoes, EntryGoes
<1>14. ASSUME NEW t \in IO, NEW f \in Fds, io_error(t, f) PROVE TypeOK'
      BY <1>14, ErrorCases, Zenon DEF TypeOK, EntryGoes
<1>15. ASSUME NEW w \in Workers, worker_release(w) PROVE TypeOK'
      BY <1>15, ReleaseCases, Zenon DEF TypeOK, EventGoes
<1>16. ASSUME NEW w \in Workers, NEW e \in Slots, worker_handle(w, e) PROVE TypeOK'
      BY <1>16, HandleCases DEF TypeOK, Modifies, EntryGoes
<1> QED BY <1>1, <1>2, <1>3, <1>4, <1>5, <1>6, <1>7, <1>8, <1>9, <1>10, <1>11, <1>12, <1>13, <1>14,
           <1>15, <1>16 DEF Next, Accept, IOThread, WorkerThread

-----------------------------------------------------------------------------
(* Moving a client and its io_event *)

\* After the step client c is at x only, if anywhere, and everyone else is
\* where they were or gone.
ClientMoves(c, where, x) ==
  /\ \A f \in Fds : Armed(f)' =>
       \/ where = "fd" /\ f = x /\ Guest(f)' = c
       \/ Armed(f) /\ Guest(f)' = Guest(f) /\ Guest(f) # c
  /\ \A t \in IO : Serving(t)' =>
       \/ where = "io" /\ t = x /\ io'[t].client = c
       \/ Serving(t) /\ io'[t].client = io[t].client /\ io[t].client # c
  /\ \A e \in wq' :
       \/ where = "work" /\ e = x /\ ev'[e].client = c
       \/ e \in wq /\ ev'[e].client = ev[e].client /\ ev[e].client # c

\* The same for io_event e.
EventMoves(e, where, x) ==
  /\ \A f \in Fds : Out(f)' =>
       \/ where = "fd" /\ f = x /\ reg'[f].ptr = e
       \/ Out(f) /\ reg'[f].ptr = reg[f].ptr /\ reg[f].ptr # e
  /\ \A t \in IO : Carrying(t)' =>
       \/ where = "io" /\ t = x /\ io'[t].slot = e
       \/ Carrying(t) /\ io'[t].slot = io[t].slot /\ io[t].slot # e
  /\ \A d \in wq' :
       \/ where = "work" /\ d = x /\ d = e
       \/ d \in wq /\ d # e

\* A step that moves one client, and not the one that is being accepted, keeps
\* clients apart.
LEMMA ClientsStayApart ==
  ASSUME ClientsApart, Newcomer, NEW c, NEW where, NEW x, ClientMoves(c, where, x),
         acc'.pc = "add" => UNCHANGED acc /\ acc.client # c
  PROVE  ClientsApart' /\ Newcomer'
<1>1. ClientsApart'
      BY DEF ClientsApart, ClientMoves
<1>2. Newcomer'
      BY Zenon DEF Newcomer, ClientMoves
<1> QED BY <1>1, <1>2

\* A step that gives an io_event to nobody new keeps io_events apart.
LEMMA EventsStayApart ==
  ASSUME EventsApart, NEW e, NEW where, NEW x, EventMoves(e, where, x)
  PROVE  EventsApart'
BY DEF EventsApart, EventMoves

\* An entry and an io_event that a step leaves alone.
LEMMA EntryKept ==
  ASSUME NEW f \in Fds, reg'[f] = reg[f], Out(f) => ev'[reg[f].ptr].client = ev[reg[f].ptr].client
  PROVE  /\ Armed(f)' <=> Armed(f)
         /\ Out(f)' <=> Out(f)
         /\ Armed(f) => Guest(f)' = Guest(f)
BY Zenon DEF Armed, Out, Guest

\* A step leaves the threads it does not concern alone.
LEMMA ThreadKept ==
  ASSUME NEW t \in IO, io'[t] = io[t]
  PROVE  (Serving(t)' <=> Serving(t)) /\ (Carrying(t)' <=> Carrying(t))
BY DEF Serving, Carrying

\* A step after which everyone is where they were or gone keeps clients and
\* io_events apart.
LEMMA NobodyMoves ==
  ASSUME EventsApart, ClientsApart, Newcomer,
         \A f \in Fds : Armed(f)' => Armed(f) /\ Guest(f)' = Guest(f),
         \A f \in Fds : Out(f)' => Out(f) /\ reg'[f].ptr = reg[f].ptr,
         \A t \in IO : Serving(t)' => Serving(t) /\ io'[t].client = io[t].client,
         \A t \in IO : Carrying(t)' => Carrying(t) /\ io'[t].slot = io[t].slot,
         \A e \in wq' : e \in wq /\ ev'[e].client = ev[e].client
  PROVE  /\ EventsApart' /\ ClientsApart'
         /\ (acc'.pc = "add" => UNCHANGED acc) => Newcomer'
<1>1. EventsApart'
      BY DEF EventsApart
<1>2. ClientsApart'
      BY DEF ClientsApart
<1>3. (acc'.pc = "add" => UNCHANGED acc) => Newcomer'
      BY Zenon DEF Newcomer
<1> QED BY <1>1, <1>2, <1>3, Zenon

\* io_read preserves the invariant when it drops the client.
LEMMA ReadDropsStep ==
  ASSUME IInv, NEW t \in IO, NEW e \in Slots, ev[e].st = "free", ReadDrops(t, e), io[t].pc = "read",
         NEW c, c = io[t].client, NEW f, f = cl[c].fd,
         UNCHANGED <<peer, out, cl, acc, wk, counts, faults>>
  PROVE  Allocated' /\ EventsApart' /\ ClientsApart' /\ Newcomer'
<1>1. /\ Allocated /\ EventsApart /\ ClientsApart /\ Newcomer
      /\ wq \subseteq Slots
      BY Zenon DEF IInv, TypeOK
<1> USE <1>1
<1>2. Serving(t) /\ c \in Clients /\ cl[c].st = "live" /\ f \in Fds
      BY ZenonT(30) DEF Serving, Allocated, ThreadsLive, OthersLive, Live
<1>3. \A g \in Fds : /\ ~Armed(f)' /\ ~Out(f)'
                     /\ g # f => (Armed(g)' <=> Armed(g)) /\ (Out(g)' <=> Out(g))
                     /\ g # f /\ Armed(g) => Guest(g)' = Guest(g)
                     /\ g # f => reg'[g].ptr = reg[g].ptr
  <2>1. ~Armed(f)' /\ ~Out(f)'
        BY Zenon DEF ReadDrops, Closes, EntryGoes, Armed, Out
  <2>2. ASSUME NEW g \in Fds, g # f PROVE reg'[g] = reg[g] /\ (Out(g) => ev'[reg[g].ptr] = ev[reg[g].ptr])
        BY <2>2, Zenon DEF ReadDrops, Closes, EntryGoes, EventGoes, Allocated, EntriesLive
  <2> QED BY <2>1, <2>2, EntryKept, ZenonT(30)
<1>4. /\ Serving(t)' /\ Carrying(t)' /\ io'[t].client = c /\ io'[t].slot = e /\ io'[t].pc = "dropping"
      /\ \A u \in IO : u # t => /\ io'[u] = io[u]
                                /\ (Serving(u)' <=> Serving(u)) /\ (Carrying(u)' <=> Carrying(u))
      BY ThreadKept, Zenon DEF ReadDrops, IOGoes, Serving, Carrying
<1>5. /\ wq' = wq /\ e \notin wq /\ ev'[e].st = "live" /\ ev'[e].client = c
      /\ \A d \in Slots : d # e => ev'[d] = ev[d]
      BY Zenon DEF ReadDrops, EventGoes, Allocated, OthersLive
<1>6. EventMoves(e, "io", t)
      BY <1>3, <1>4, <1>5, Zenon DEF EventMoves, Allocated, EntriesLive, ThreadsLive
<1> USE <1>2
<1>7. ClientMoves(c, "io", t)
      BY <1>3, <1>4, <1>5 DEF ClientMoves, ClientsApart
<1>8. acc'.pc = "add" => UNCHANGED acc /\ acc.client # c
      BY Zenon DEF Newcomer
<1>9. Allocated'
  <2>1. EntriesLive'
        BY <1>3, <1>5, SMTT(30) DEF Allocated, EntriesLive, Live
  <2>2. ThreadsLive'
        BY <1>4, <1>5 DEF Allocated, ThreadsLive, Live
  <2>3. OthersLive'
        BY <1>5 DEF Allocated, OthersLive, Live
  <2> QED BY <2>1, <2>2, <2>3, Zenon DEF Allocated
<1> QED BY <1>6, <1>7, <1>8, <1>9, ClientsStayApart, EventsStayApart, Zenon

\* io_read preserves the invariant when it hands a packet on.
LEMMA ReadGetsStep ==
  ASSUME IInv, NEW t \in IO, NEW e \in Slots, ev[e].st = "free", NEW k \in Clients, ReadGets(t, e, k),
         io[t].pc = "read", NEW c, c = io[t].client,
         UNCHANGED <<peer, out, cl, acc, wk, counts, faults>>
  PROVE  Allocated' /\ EventsApart' /\ ClientsApart' /\ Newcomer'
<1>1. /\ Allocated /\ EventsApart /\ ClientsApart /\ Newcomer
      /\ wq \subseteq Slots
      BY DEF IInv, TypeOK
<1> USE <1>1
<1>2. Serving(t) /\ c \in Clients /\ cl[c].st = "live"
      BY Zenon DEF Serving, Allocated, EntriesLive, ThreadsLive, Live
<1>3. /\ e \notin wq /\ ev'[e].st = "live" /\ ev'[e].client = c
      /\ \A d \in Slots : d # e => ev'[d] = ev[d]
      BY ZenonT(30) DEF ReadGets, EventGoes, Allocated, OthersLive
<1>4. \A g \in Fds : /\ (Armed(g)' <=> Armed(g)) /\ (Out(g)' <=> Out(g))
                     /\ Armed(g) => Guest(g)' = Guest(g)
                     /\ reg' = reg
  <2>1. ASSUME NEW g \in Fds PROVE reg' = reg /\ (Out(g) => ev'[reg[g].ptr] = ev[reg[g].ptr])
        BY <1>3, Zenon DEF ReadGets, Allocated, EntriesLive
  <2> QED BY <2>1, EntryKept, Zenon
<1>5. /\ ~Serving(t)' /\ ~Carrying(t)'
      /\ \A u \in IO : u # t => /\ io'[u] = io[u]
                                /\ (Serving(u)' <=> Serving(u)) /\ (Carrying(u)' <=> Carrying(u))
      /\ \/ io'[t].pc = "idle" /\ io'[t].client = NONE /\ wq' = wq
         \/ io'[t].pc = "stamp" /\ io'[t].slot = e /\ wq' = wq \cup {e}
      BY ThreadKept, Zenon DEF ReadGets, IOGoes, Serving, Carrying
<1>6. EventMoves(e, "work", e)
      BY <1>3, <1>4, <1>5, Zenon DEF EventMoves, Allocated, EntriesLive, ThreadsLive
<1> USE <1>2
<1>7. ClientMoves(c, "work", e)
      BY <1>3, <1>4, <1>5 DEF ClientMoves, ClientsApart
<1>8. acc'.pc = "add" => UNCHANGED acc /\ acc.client # c
      BY Zenon DEF Newcomer
<1>9. Allocated'
  <2>1. EntriesLive'
        BY <1>3, <1>4, SMTT(30) DEF Allocated, EntriesLive, Live
  <2>2. ThreadsLive'
        BY <1>3, <1>5 DEF Allocated, ThreadsLive, Live
  <2>3. OthersLive'
        BY <1>3, <1>5 DEF Allocated, OthersLive, Live
  <2> QED BY <2>1, <2>2, <2>3, Zenon DEF Allocated
<1> QED BY <1>6, <1>7, <1>8, <1>9, ClientsStayApart, EventsStayApart, Zenon

\* A step that moves nobody: the environment, a failed or a counting accept.
LEMMA QuietStep ==
  ASSUME IInv, UNCHANGED <<reg, io, ev, wq, cl, wk>>, acc'.pc = "add" => UNCHANGED acc,
         \A c \in Clients : peer'[c] \in {"new", "backlog"} => peer[c] \in {"new", "backlog"}
  PROVE  Allocated' /\ EventsApart' /\ ClientsApart' /\ Newcomer'
<1>1. \A f \in Fds : (Armed(f)' <=> Armed(f)) /\ (Out(f)' <=> Out(f)) /\ (Guest(f)' = Guest(f))
      BY DEF Armed, Out, Guest
<1>2. \A t \in IO : (Serving(t)' <=> Serving(t)) /\ (Carrying(t)' <=> Carrying(t))
      BY DEF Serving, Carrying
<1>3. EventsApart' /\ ClientsApart' /\ Newcomer'
      BY <1>1, <1>2, NobodyMoves, Zenon DEF IInv
<1>4. Allocated'
  <2>1. EntriesLive'
        BY <1>1 DEF Allocated, EntriesLive, Live, IInv
  <2>2. ThreadsLive'
        BY <1>2, Zenon DEF Allocated, ThreadsLive, Live, IInv
  <2>3. OthersLive'
        BY Zenon DEF Allocated, OthersLive, Live, IInv
  <2> QED BY <2>1, <2>2, <2>3, Zenon DEF Allocated
<1> QED BY <1>3, <1>4, Zenon

\* A thread that only goes on: io_stamp and io_count.
LEMMA GoesOn ==
  ASSUME IInv, UNCHANGED <<peer, cl, reg, acc, wk, ev, wq>>, NEW t \in IO,
         \/ io[t].pc = "stamp" /\ IOGoes(t, "idle", NONE, NONE)
         \/ io[t].pc = "dropping" /\ IOGoes(t, "drop", io[t].client, io[t].slot)
  PROVE  Allocated' /\ EventsApart' /\ ClientsApart' /\ Newcomer'
<1>1. \A f \in Fds : (Armed(f)' <=> Armed(f)) /\ (Out(f)' <=> Out(f)) /\ (Guest(f)' = Guest(f))
      BY DEF Armed, Out, Guest
<1>2. \A u \in IO : u # t => /\ io'[u] = io[u]
                             /\ (Serving(u)' <=> Serving(u)) /\ (Carrying(u)' <=> Carrying(u))
      BY ThreadKept, Zenon DEF IOGoes
<1>3. \/ ~Serving(t)' /\ ~Carrying(t)' /\ io'[t].client = NONE /\ io'[t].pc = "idle"
      \/ /\ Serving(t) /\ Carrying(t) /\ Serving(t)' /\ Carrying(t)' /\ io'[t].pc = "drop"
         /\ io'[t].client = io[t].client /\ io'[t].slot = io[t].slot
      BY Zenon DEF IOGoes, Serving, Carrying
<1>4. EventsApart' /\ ClientsApart' /\ Newcomer'
      BY <1>1, <1>2, <1>3, NobodyMoves, Zenon DEF IInv
<1>5. Allocated'
  <2>1. EntriesLive'
        BY <1>1, Zenon DEF Allocated, EntriesLive, Live, IInv
  <2>2. ThreadsLive'
        BY <1>2, <1>3 DEF Allocated, ThreadsLive, Live, IInv
  <2>3. OthersLive'
        BY Zenon DEF Allocated, OthersLive, Live, IInv
  <2> QED BY <2>1, <2>2, <2>3, Zenon DEF Allocated
<1> QED BY <1>4, <1>5, Zenon

\* The release of a client preserves the invariant: nothing else refers to it.
LEMMA DropStep ==
  ASSUME IInv, NEW t \in IO, io_drop(t), NEW c, c = io[t].client, NEW f, f = cl[c].fd,
         NEW e, e = io[t].slot
  PROVE  Allocated' /\ EventsApart' /\ ClientsApart' /\ Newcomer'
<1>1. /\ TypeOK /\ Allocated /\ EventsApart /\ ClientsApart /\ Newcomer
      /\ wq \subseteq Slots
      BY Zenon DEF IInv, TypeOK
<1> USE <1>1
<1>2. /\ io[t].pc = "drop" /\ IOGoes(t, "idle", NONE, NONE) /\ Closes(f)
      /\ EventGoes(e, "free", NONE, 0)
      /\ cl'[c].st = "freed" /\ cl'[c].fd = f /\ \A d \in Clients : d # c => cl'[d] = cl[d]
      /\ UNCHANGED <<peer, rcvd, out, acc, wk, wq, counts>>
      BY DropCases, Zenon
<1>3. /\ Serving(t) /\ Carrying(t) /\ c \in Clients /\ cl[c].st = "live" /\ f \in Fds
      /\ e \in Slots /\ ev[e].client = c
  <2>1. Serving(t) /\ Carrying(t)
        BY <1>2, Zenon DEF Serving, Carrying
  <2> QED BY <2>1, Zenon DEF Allocated, ThreadsLive, OthersLive, Live
<1>4. /\ wq' = wq /\ e \notin wq /\ \A d \in Slots : d # e => ev'[d] = ev[d]
      BY <1>2, <1>3, Zenon DEF EventGoes, EventsApart
<1>5. \A g \in Fds : /\ ~Armed(f)' /\ ~Out(f)'
                     /\ g # f => (Armed(g)' <=> Armed(g)) /\ (Out(g)' <=> Out(g))
                     /\ g # f /\ Armed(g) => Guest(g)' = Guest(g)
                     /\ g # f => reg'[g].ptr = reg[g].ptr
  <2>1. ~Armed(f)' /\ ~Out(f)'
        BY <1>2, Zenon DEF Closes, EntryGoes, Armed, Out
  <2>2. ASSUME NEW g \in Fds, g # f PROVE reg'[g] = reg[g] /\ (Out(g) => ev'[reg[g].ptr] = ev[reg[g].ptr])
        BY <1>2, <1>3, <1>4, <2>2, Zenon DEF Closes, EntryGoes, EventsApart, Allocated, EntriesLive
  <2> QED BY <2>1, <2>2, EntryKept, Zenon
<1>6. /\ ~Serving(t)' /\ ~Carrying(t)' /\ io'[t].pc = "idle" /\ io'[t].client = NONE
      /\ \A u \in IO : u # t => /\ io'[u] = io[u]
                                /\ (Serving(u)' <=> Serving(u)) /\ (Carrying(u)' <=> Carrying(u))
      BY <1>2, ThreadKept, Zenon DEF IOGoes, Serving, Carrying
<1>7. EventMoves(e, "none", e)
      BY <1>3, <1>4, <1>5, <1>6, SMTT(30) DEF EventMoves, EventsApart
<1>8. ClientMoves(c, "none", c)
      BY <1>3, <1>4, <1>5, <1>6 DEF ClientMoves, ClientsApart
<1>9. acc'.pc = "add" => UNCHANGED acc /\ acc.client # c
      BY <1>2, <1>3, Zenon DEF Newcomer
<1>10. Allocated'
  <2>1. \A d \in Clients : d # c /\ Live(d) => Live(d)' /\ cl'[d] = cl[d]
        BY <1>2, Zenon DEF Live
  <2>2. \A g \in Fds : Armed(g)' => Live(Guest(g))' /\ cl'[Guest(g)'].fd = g
        BY <1>8, <2>1, SMTT(30) DEF Allocated, EntriesLive, ClientMoves, Live
  <2>3. \A g \in Fds : Out(g)' => reg'[g].ptr \in Slots /\ ev'[reg'[g].ptr].st = "live"
        BY <1>4, <1>7, SMTT(30) DEF Allocated, EntriesLive, EventMoves
  <2>4. \A u \in IO : Serving(u)' => Live(io[u].client)'
        BY <1>8, <2>1, SMTT(30) DEF Allocated, ThreadsLive, ClientMoves, Live
  <2>5. \A u \in IO : Carrying(u)' => /\ io'[u].slot \in Slots /\ ev'[io'[u].slot].st = "live"
                                      /\ ev'[io'[u].slot].client = io'[u].client
        BY <1>4, <1>6, <1>7, SMTT(30) DEF Allocated, ThreadsLive, EventMoves
  <2>6. \A d \in wq' : ev'[d].st = "live" /\ Live(ev[d].client)'
        BY <1>4, <1>8, <2>1 DEF Allocated, OthersLive, ClientMoves, Live
  <2>7. acc'.pc = "add" => Live(acc.client)'
        BY <1>9, <2>1, ZenonT(60) DEF Allocated, OthersLive, Live
  <2>8. \A u \in IO : /\ io'[u].pc = "idle" => io'[u].client = NONE
                      /\ io'[u].pc = "stamp" => io'[u].slot \in Slots
        BY <1>6, ZenonT(30) DEF Allocated, ThreadsLive
  <2>9. /\ \A w \in Workers : wk'[w].pc = "release" => wk'[w].slot \in Slots
        /\ \A d \in Clients : peer'[d] \in {"new", "backlog"} => cl'[d].st = "none"
        /\ \A d \in Clients : cl'[d].st = "live" => cl'[d].fd \in Fds
        BY <1>2, <1>3, Zenon DEF Allocated, OthersLive
  <2> QED BY <2>2, <2>3, <2>4, <2>5, <2>6, <2>7, <2>8, <2>9, Zenon DEF Allocated, EntriesLive, ThreadsLive,
             OthersLive
<1> QED BY <1>7, <1>8, <1>9, <1>10, ClientsStayApart, EventsStayApart, Zenon

\* The write of a reply preserves the invariant.
LEMMA WriteStep ==
  ASSUME IInv, NEW t \in IO, io_write(t), NEW c, c = io[t].client, NEW f, f = cl[c].fd,
         NEW e, e = io[t].slot
  PROVE  Allocated' /\ EventsApart' /\ ClientsApart' /\ Newcomer'
<1>1. /\ TypeOK /\ Allocated /\ EventsApart /\ ClientsApart /\ Newcomer
      /\ wq \subseteq Slots
      BY Zenon DEF IInv, TypeOK
<1> USE <1>1
<1>2. /\ io[t].pc = "write" /\ IOGoes(t, "rearm", c, e)
      /\ UNCHANGED reg \/ EntryGoes(f, "none", NONE)
      /\ UNCHANGED <<peer, rcvd, cl, acc, wk, ev, wq, counts>>
      BY WriteCases, Zenon DEF Closes
<1> USE <1>2
<1>3. /\ Serving(t) /\ Carrying(t) /\ c \in Clients /\ cl[c].st = "live" /\ f \in Fds
      /\ e \in Slots /\ ev[e].st = "live" /\ ev[e].client = c
      BY Zenon DEF Serving, Carrying, Allocated, EntriesLive, ThreadsLive, OthersLive, Live
<1>4. \A g \in Fds : /\ (Armed(g)' => Armed(g)) /\ (Out(g)' => Out(g))
                     /\ Armed(g)' => Guest(g)' = Guest(g)
                     /\ Out(g)' => reg'[g].ptr = reg[g].ptr
      BY ZenonT(30) DEF EntryGoes, Armed, Out, Guest
<1>5. /\ Serving(t)' /\ Carrying(t)' /\ io'[t].pc = "rearm" /\ io'[t].client = c /\ io'[t].slot = e
      /\ \A u \in IO : u # t => /\ io'[u] = io[u]
                                /\ (Serving(u)' <=> Serving(u)) /\ (Carrying(u)' <=> Carrying(u))
      BY ThreadKept, ZenonT(30) DEF IOGoes, Serving, Carrying
<1>6. EventsApart' /\ ClientsApart' /\ Newcomer'
      BY <1>3, <1>4, <1>5, NobodyMoves, Zenon
<1>7. Allocated'
  <2>1. EntriesLive'
        BY <1>4, Zenon DEF Allocated, EntriesLive, Live
  <2>2. ThreadsLive'
        BY <1>3, <1>5, Zenon DEF Allocated, ThreadsLive, Live
  <2>3. OthersLive'
        BY Zenon DEF Allocated, OthersLive, Live
  <2> QED BY <2>1, <2>2, <2>3, Zenon DEF Allocated
<1> QED BY <1>6, <1>7, Zenon

\* The arming of a client for reading preserves the invariant: the thread lets
\* go of it in the same step.
LEMMA RearmStep ==
  ASSUME IInv, NEW t \in IO, io_rearm(t), NEW c, c = io[t].client, NEW f, f = cl[c].fd,
         NEW e, e = io[t].slot
  PROVE  Allocated' /\ EventsApart' /\ ClientsApart' /\ Newcomer'
<1>1. /\ TypeOK /\ Allocated /\ EventsApart /\ ClientsApart /\ Newcomer
      /\ wq \subseteq Slots
      BY Zenon DEF IInv, TypeOK
<1> USE <1>1
<1>2. /\ io[t].pc = "rearm" /\ IOGoes(t, "idle", NONE, NONE)
      /\ Modifies(f, "in", c) /\ EventGoes(e, "free", NONE, 0)
      /\ UNCHANGED <<peer, rcvd, out, file, cl, acc, wk, wq, counts>>
      BY RearmCases, Zenon
<1>3. /\ Serving(t) /\ Carrying(t) /\ c \in Clients /\ cl[c].st = "live" /\ f \in Fds
      /\ e \in Slots
      BY <1>2, Zenon DEF Serving, Carrying, Allocated, ThreadsLive, OthersLive, Live
<1>4. /\ UNCHANGED <<cl, acc, wk, peer, wq>> /\ e \notin wq
      /\ \A d \in Slots : d # e => ev'[d] = ev[d]
      BY <1>2, <1>3, Zenon DEF EventGoes, EventsApart
<1>5. \A g \in Fds : /\ ~Out(f)'
                     /\ Armed(f)' => Guest(f)' = c
                     /\ g # f => (Armed(g)' <=> Armed(g)) /\ (Out(g)' <=> Out(g))
                     /\ g # f /\ Armed(g) => Guest(g)' = Guest(g)
                     /\ g # f => reg'[g].ptr = reg[g].ptr
  <2>1. ~Out(f)' /\ (Armed(f)' => Guest(f)' = c)
        BY <1>2, Zenon DEF Modifies, EntryGoes, Armed, Out, Guest
  <2>2. ASSUME NEW g \in Fds, g # f PROVE reg'[g] = reg[g] /\ (Out(g) => ev'[reg[g].ptr] = ev[reg[g].ptr])
        BY <1>2, <1>3, <1>4, <2>2, Zenon DEF Modifies, EntryGoes, EventsApart, Allocated, EntriesLive
  <2> QED BY <2>1, <2>2, EntryKept, Zenon
<1>6. /\ ~Serving(t)' /\ ~Carrying(t)' /\ io'[t].pc = "idle" /\ io'[t].client = NONE
      /\ \A u \in IO : u # t => /\ io'[u] = io[u]
                                /\ (Serving(u)' <=> Serving(u)) /\ (Carrying(u)' <=> Carrying(u))
      BY <1>2, ThreadKept, Zenon DEF IOGoes, Serving, Carrying
<1>7. EventMoves(e, "none", e)
      BY <1>3, <1>4, <1>5, <1>6, ZenonT(90) DEF EventMoves, EventsApart
<1>8. ClientMoves(c, "fd", f)
      BY <1>3, <1>4, <1>5, <1>6, ZenonT(60) DEF ClientMoves, ClientsApart
<1>9. acc'.pc = "add" => UNCHANGED acc /\ acc.client # c
      BY <1>2, <1>3, Zenon DEF Newcomer
<1>10. Allocated'
  <2>1. \A g \in Fds : Armed(g)' => Live(Guest(g))' /\ cl'[Guest(g)'].fd = g
        BY <1>3, <1>4, <1>5 DEF Allocated, EntriesLive, Live
  <2>2. \A g \in Fds : Out(g)' => reg'[g].ptr \in Slots /\ ev'[reg'[g].ptr].st = "live"
        BY <1>4, <1>7 DEF Allocated, EntriesLive, EventMoves
  <2>3. \A u \in IO : Carrying(u)' => /\ io'[u].slot \in Slots /\ ev'[io'[u].slot].st = "live"
                                      /\ ev'[io'[u].slot].client = io'[u].client
        BY <1>4, <1>6, <1>7 DEF Allocated, ThreadsLive, EventMoves
  <2>4. ThreadsLive'
        BY <1>4, <1>6, <2>3 DEF Allocated, ThreadsLive, Live
  <2>5. OthersLive'
        BY <1>4 DEF Allocated, OthersLive, Live
  <2> QED BY <2>1, <2>2, <2>4, <2>5, Zenon DEF Allocated, EntriesLive
<1> QED BY <1>7, <1>8, <1>9, <1>10, ClientsStayApart, EventsStayApart, Zenon

\* A report preserves the invariant: EPOLLONESHOT disarms the entry in the step
\* that gives the client to a thread.
LEMMA WaitStep ==
  ASSUME IInv, NEW t \in IO, NEW f \in Fds, io_wait(t, f), NEW c, c = Guest(f), NEW e, e = reg[f].ptr
  PROVE  Allocated' /\ EventsApart' /\ ClientsApart' /\ Newcomer'
<1>1. /\ TypeOK /\ Allocated /\ EventsApart /\ ClientsApart /\ Newcomer
      /\ wq \subseteq Slots
      BY Zenon DEF IInv, TypeOK
<1>2. /\ io[t].pc = "idle" /\ Armed(f) /\ WaitTakes(t, f)
      /\ UNCHANGED <<peer, rcvd, out, file, cl, acc, wk, ev, wq, counts>>
      BY <1>1, WaitCases, Zenon
<1>3. /\ ~Serving(t) /\ ~Carrying(t) /\ c \in Clients /\ cl[c].st = "live"
      BY <1>1, <1>2, Zenon DEF Serving, Carrying, Allocated, EntriesLive, Live
<1>4. \A g \in Fds : /\ ~Armed(f)' /\ ~Out(f)'
                     /\ g # f => (Armed(g)' <=> Armed(g)) /\ (Out(g)' <=> Out(g))
                     /\ g # f /\ Armed(g) => Guest(g)' = Guest(g)
                     /\ g # f => reg'[g].ptr = reg[g].ptr
  <2>1. ~Armed(f)' /\ ~Out(f)'
        BY <1>2, Zenon DEF WaitTakes, EntryGoes, Armed, Out
  <2>2. ASSUME NEW g \in Fds, g # f PROVE reg'[g] = reg[g] /\ ev' = ev
        BY <1>2, <2>2, Zenon DEF WaitTakes, EntryGoes
  <2> QED BY <2>1, <2>2, EntryKept, Zenon
<1> USE <1>1
<1>5. /\ Serving(t)' /\ io'[t].client = c /\ io'[t].pc \in {"read", "write"}
      /\ (Carrying(t)' => Out(f) /\ io'[t].slot = e)
      /\ \A u \in IO : u # t => /\ io'[u] = io[u]
                                /\ (Serving(u)' <=> Serving(u)) /\ (Carrying(u)' <=> Carrying(u))
      BY <1>2, Zenon DEF WaitTakes, IOGoes, Serving, Carrying, Out
<1>6. Out(f) => ev[e].st = "live" /\ e \in Slots /\ ev[e].client = c
      BY Zenon DEF Allocated, EntriesLive, Out, Guest
<1>7. EventsApart'
  <2>1. CASE Out(f)
    <3>1. EventMoves(e, "io", t)
          BY <1>2, <1>3, <1>4, <1>5, <2>1, Zenon DEF EventMoves, EventsApart
    <3> QED BY <3>1, EventsStayApart, Zenon
  <2>2. CASE ~Out(f)
    <3>1. EventMoves(NONE, "none", NONE)
          BY <1>2, <1>3, <1>4, <1>5, <2>2, NoneAssumption, Zenon DEF EventMoves, Allocated, EntriesLive,
             ThreadsLive
    <3> QED BY <3>1, EventsStayApart, Zenon
  <2> QED BY <2>1, <2>2, Zenon
<1> USE <1>2
<1>8. ClientMoves(c, "io", t)
  <2>1. \A g \in Fds : Armed(g)' => Armed(g) /\ Guest(g)' = Guest(g) /\ Guest(g) # c
        BY <1>4, Zenon DEF ClientsApart
  <2>2. \A u \in IO : u # t /\ Serving(u)' => Serving(u) /\ io'[u].client = io[u].client /\ io[u].client # c
        BY <1>5, Zenon DEF ClientsApart
  <2>3. \A d \in wq' : d \in wq /\ ev'[d].client = ev[d].client /\ ev[d].client # c
        BY Zenon DEF ClientsApart
  <2> QED BY <1>5, <2>1, <2>2, <2>3, Zenon DEF ClientMoves
<1>9. acc'.pc = "add" => UNCHANGED acc /\ acc.client # c
      BY <1>2, Zenon DEF Newcomer
<1>10. Allocated'
  <2>1. EntriesLive'
        BY <1>4, ZenonT(60) DEF Allocated, EntriesLive, Live
  <2>2. ThreadsLive'
        BY <1>3, <1>5, <1>6, Zenon DEF Allocated, ThreadsLive, Live
  <2>3. OthersLive'
        BY Zenon DEF Allocated, OthersLive, Live
  <2> QED BY <2>1, <2>2, <2>3, Zenon DEF Allocated
<1> QED BY <1>7, <1>8, <1>9, <1>10, ClientsStayApart, Zenon

\* A report of an error preserves the invariant.
LEMMA ErrorStep ==
  ASSUME IInv, NEW t \in IO, NEW f \in Fds, io_error(t, f)
  PROVE  Allocated' /\ EventsApart' /\ ClientsApart' /\ Newcomer'
<1>1. TypeOK /\ Allocated /\ EventsApart /\ ClientsApart /\ Newcomer
      BY DEF IInv
<1>2. /\ EntryGoes(f, "off", reg[f].ptr)
      /\ UNCHANGED <<peer, rcvd, out, file, cl, acc, io, wk, ev, wq, counts>>
      BY <1>1, ErrorCases, Zenon
<1> USE <1>2
<1>3. \A g \in Fds : /\ (Armed(g)' => Armed(g)) /\ (Out(g)' => Out(g))
                     /\ Armed(g)' => Guest(g)' = Guest(g)
                     /\ Out(g)' => reg'[g].ptr = reg[g].ptr
      BY Zenon DEF EntryGoes, Armed, Out, Guest
<1>4. \A u \in IO : (Serving(u)' <=> Serving(u)) /\ (Carrying(u)' <=> Carrying(u))
      BY DEF Serving, Carrying
<1> USE <1>1
<1>5. EventsApart' /\ ClientsApart' /\ Newcomer'
      BY <1>3, <1>4, NobodyMoves, Zenon
<1>6. Allocated'
  <2>1. EntriesLive'
        BY <1>3 DEF Allocated, EntriesLive, Live
  <2>2. ThreadsLive'
        BY <1>4, Zenon DEF Allocated, ThreadsLive, Live
  <2>3. OthersLive'
        BY Zenon DEF Allocated, OthersLive, Live
  <2> QED BY <2>1, <2>2, <2>3, Zenon DEF Allocated
<1> QED BY <1>5, <1>6, Zenon

\* A worker preserves the invariant: the io_event leaves the work epoll in the
\* step that arms the client.
LEMMA HandleStep ==
  ASSUME IInv, NEW w \in Workers, NEW e \in Slots, worker_handle(w, e), NEW c, c = ev[e].client,
         NEW f, f = cl[c].fd
  PROVE  Allocated' /\ EventsApart' /\ ClientsApart' /\ Newcomer'
<1>1. TypeOK /\ Allocated /\ EventsApart /\ ClientsApart /\ Newcomer
      BY DEF IInv
<1>2. /\ e \in wq /\ wq' = wq \ {e} /\ Modifies(f, "out", e)
      /\ wk'[w].slot \in Slots /\ \A x \in Workers : x # w => wk'[x] = wk[x]
      /\ UNCHANGED <<peer, rcvd, out, file, cl, acc, io, ev, counts>>
      BY <1>1, HandleCases, Zenon
<1> USE <1>2
<1>3. c \in Clients /\ cl[c].st = "live" /\ f \in Fds /\ ev[e].st = "live"
      BY <1>1, Zenon DEF Allocated, OthersLive, Live
<1>4. \A g \in Fds : /\ Out(f)' => reg'[f].ptr = e
                     /\ Armed(f)' => Out(f)' /\ Guest(f)' = c
                     /\ g # f => (Armed(g)' <=> Armed(g)) /\ (Out(g)' <=> Out(g))
                     /\ g # f /\ Armed(g) => Guest(g)' = Guest(g)
                     /\ g # f => reg'[g].ptr = reg[g].ptr
  <2>1. (Out(f)' => reg'[f].ptr = e) /\ (Armed(f)' => Out(f)' /\ Guest(f)' = c)
        BY ZenonT(30) DEF Modifies, EntryGoes, Armed, Out, Guest
  <2>2. ASSUME NEW g \in Fds, g # f PROVE reg'[g] = reg[g] /\ ev' = ev
        BY <2>2, Zenon DEF Modifies, EntryGoes
  <2> QED BY <2>1, <2>2, EntryKept, Zenon
<1> USE <1>1
<1>5. \A u \in IO : (Serving(u)' <=> Serving(u)) /\ (Carrying(u)' <=> Carrying(u))
      BY Zenon DEF Serving, Carrying
<1>6. EventMoves(e, "fd", f)
      BY <1>3, <1>4, <1>5, ZenonT(60) DEF EventMoves, EventsApart
<1>7. ClientMoves(c, "fd", f)
      BY <1>3, <1>4, <1>5, Zenon DEF ClientMoves, ClientsApart
<1>8. acc'.pc = "add" => UNCHANGED acc /\ acc.client # c
      BY Zenon DEF Newcomer
<1>9. Allocated'
  <2>1. EntriesLive'
    <3> DEFINE Ok(g) == /\ Armed(g) => Live(Guest(g)) /\ cl[Guest(g)].fd = g
                        /\ Out(g) => reg[g].ptr \in Slots /\ ev[reg[g].ptr].st = "live"
    <3>1. Ok(f)'
          BY <1>3, <1>4, Zenon DEF Live
    <3>2. ASSUME NEW g \in Fds, g # f PROVE Ok(g)'
          BY <1>4, <3>2, Zenon DEF Allocated, EntriesLive, Live
    <3> QED BY <3>1, <3>2, Zenon DEF EntriesLive
  <2>2. ThreadsLive'
        BY <1>5, Zenon DEF Allocated, ThreadsLive, Live
  <2>3. OthersLive'
        BY Zenon DEF Allocated, OthersLive, Live
  <2> QED BY <2>1, <2>2, <2>3, Zenon DEF Allocated
<1> QED BY <1>6, <1>7, <1>8, <1>9, ClientsStayApart, EventsStayApart, Zenon

\* What a worker does after it preserves the invariant.
LEMMA ReleaseStep ==
  ASSUME IInv, NEW w \in Workers, worker_release(w)
  PROVE  Allocated' /\ EventsApart' /\ ClientsApart' /\ Newcomer'
<1>1. /\ TypeOK /\ Allocated /\ EventsApart /\ ClientsApart /\ Newcomer
      /\ wq \subseteq Slots
      BY DEF IInv, TypeOK
<1> USE <1>1
<1>2. /\ wq' \subseteq wq
      /\ wk'[w].pc = "idle" /\ \A x \in Workers : x # w => wk'[x] = wk[x]
      /\ UNCHANGED <<peer, rcvd, out, file, cl, reg, acc, io, counts>>
      BY ReleaseCases, Zenon
<1>3. \A d \in Slots : ev'[d].st = ev[d].st /\ ev'[d].client = ev[d].client
      BY ReleaseCases, Zenon DEF EventGoes
<1> USE <1>2
<1>4. \A g \in Fds : /\ (Armed(g)' <=> Armed(g)) /\ (Out(g)' <=> Out(g))
                     /\ Armed(g) => Guest(g)' = Guest(g)
  <2>1. ASSUME NEW g \in Fds
        PROVE  reg'[g] = reg[g] /\ (Out(g) => ev'[reg[g].ptr].client = ev[reg[g].ptr].client)
        BY <1>3, Zenon DEF Allocated, EntriesLive
  <2> QED BY <2>1, EntryKept, Zenon
<1>5. \A u \in IO : (Serving(u)' <=> Serving(u)) /\ (Carrying(u)' <=> Carrying(u))
      BY DEF Serving, Carrying
<1>6. EventsApart' /\ ClientsApart' /\ Newcomer'
      BY <1>3, <1>4, <1>5, NobodyMoves, Zenon
<1>7. Allocated'
  <2>1. EntriesLive'
        BY <1>3, <1>4 DEF Allocated, EntriesLive, Live
  <2>2. ThreadsLive'
        BY <1>3, <1>5, Zenon DEF Allocated, ThreadsLive, Live
  <2>3. OthersLive'
        BY <1>3 DEF Allocated, OthersLive, Live
  <2> QED BY <2>1, <2>2, <2>3, Zenon DEF Allocated
<1> QED BY <1>6, <1>7, Zenon

\* The registration of a client preserves the invariant.
LEMMA AddStep ==
  ASSUME IInv, accept_add, NEW c, c = acc.client, NEW f, f = cl[c].fd
  PROVE  Allocated' /\ EventsApart' /\ ClientsApart' /\ Newcomer'
<1>1. TypeOK /\ Allocated /\ EventsApart /\ ClientsApart /\ Newcomer
      BY DEF IInv
<1>2. /\ acc.pc = "add" /\ acc'.pc = "count"
      /\ UNCHANGED reg \/ EntryGoes(f, "in", c)
      /\ UNCHANGED <<peer, rcvd, out, file, cl, io, wk, ev, wq, counts>>
      BY <1>1, AddCases, Zenon
<1> USE <1>2
<1>3. c \in Clients /\ cl[c].st = "live" /\ f \in Fds
      BY <1>1, Zenon DEF Allocated, OthersLive, Live
<1>4. \A u \in IO : (Serving(u)' <=> Serving(u)) /\ (Carrying(u)' <=> Carrying(u))
      BY Zenon DEF Serving, Carrying
<1>5. \A g \in Fds : /\ Out(g)' => Out(g) /\ reg'[g].ptr = reg[g].ptr
                     /\ Armed(g)' => \/ g = f /\ Guest(g)' = c
                                     \/ Armed(g) /\ Guest(g)' = Guest(g)
      BY Zenon DEF EntryGoes, Armed, Out, Guest
<1> USE <1>1
<1>6. EventMoves(NONE, "none", NONE)
      BY <1>4, <1>5, NoneAssumption, Zenon DEF EventMoves, Allocated, EntriesLive, ThreadsLive, TypeOK
<1>7. ClientMoves(c, "fd", f)
      BY <1>3, <1>4, <1>5, Zenon DEF ClientMoves, Newcomer
<1>8. Allocated'
  <2>1. EntriesLive'
        BY <1>3, <1>5 DEF Allocated, EntriesLive, Live
  <2>2. ThreadsLive'
        BY <1>4, Zenon DEF Allocated, ThreadsLive, Live
  <2>3. OthersLive'
        BY Zenon DEF Allocated, OthersLive, Live
  <2> QED BY <2>1, <2>2, <2>3, Zenon DEF Allocated
<1> QED BY <1>6, <1>7, <1>8, ClientsStayApart, EventsStayApart, Zenon

\* The accept of a connection preserves the invariant.
LEMMA ConnectionStep ==
  ASSUME IInv, NEW c \in Clients, accept_connection(c)
  PROVE  Allocated' /\ EventsApart' /\ ClientsApart' /\ Newcomer'
<1>1. TypeOK /\ Allocated /\ EventsApart /\ ClientsApart /\ Newcomer
      BY DEF IInv
<1>2. PICK f \in Fds :
         /\ acc.pc = "accept" /\ peer[c] = "backlog" /\ peer'[c] = "open"
         /\ \A d \in Clients : d # c => peer'[d] = peer[d]
         /\ cl'[c].st = "live" /\ cl'[c].fd = f
         /\ \A d \in Clients : d # c => cl'[d] = cl[d]
         /\ acc'.pc = "add" /\ acc'.client = c
         /\ UNCHANGED <<rcvd, out, reg, io, wk, ev, wq, counts>>
      BY <1>1, ConnectionCases, ZenonT(30)
<1> USE <1>2
<1>3. cl[c].st = "none"
      BY <1>1, Zenon DEF Allocated, OthersLive
<1>4. \A u \in IO : (Serving(u)' <=> Serving(u)) /\ (Carrying(u)' <=> Carrying(u))
      BY Zenon DEF Serving, Carrying
<1>5. \A g \in Fds : (Armed(g)' <=> Armed(g)) /\ (Out(g)' <=> Out(g)) /\ (Guest(g)' = Guest(g))
      BY DEF Armed, Out, Guest
<1> USE <1>1
<1>6. EventsApart' /\ ClientsApart'
      BY <1>4, <1>5, NobodyMoves, Zenon
<1>7. Newcomer'
  <2>1. ~Live(c)
        BY <1>3, Zenon DEF Live
  <2>2. /\ \A g \in Fds : Armed(g) => Guest(g) # c
        /\ \A u \in IO : Serving(u) => io[u].client # c
        /\ \A e \in wq : ev[e].client # c
        BY <2>1, Zenon DEF Allocated, EntriesLive, ThreadsLive, OthersLive
  <2> QED BY <1>4, <1>5, <2>2, Zenon DEF Newcomer
<1>8. Allocated'
  <2>1. EntriesLive'
        BY <1>3, <1>5 DEF Allocated, EntriesLive, Live
  <2>2. ThreadsLive'
        BY <1>4, Zenon DEF Allocated, ThreadsLive, Live
  <2>3. OthersLive'
        BY DEF Allocated, OthersLive, Live
  <2> QED BY <2>1, <2>2, <2>3, Zenon DEF Allocated
<1> QED BY <1>6, <1>7, <1>8, Zenon

\* The invariant holds at the start.
LEMMA InitIInv == Init => IInv
<1> SUFFICES ASSUME Init PROVE IInv
    OBVIOUS
<1>1. TypeOK
      BY InitTypeOK
<1>2. /\ \A f \in Fds : ~Armed(f) /\ ~Out(f)
      /\ \A t \in IO : ~Serving(t) /\ ~Carrying(t) /\ io[t].pc = "idle" /\ io[t].client = NONE
      BY Zenon DEF Init, Armed, Out, Serving, Carrying, NoEntry, IdleIO
<1>3. /\ acc.pc = "wait" /\ wq = {} /\ \A w \in Workers : wk[w].pc = "idle"
      /\ \A c \in Clients : cl[c].st = "none"
      BY Zenon DEF Init, IdleAccept, IdleWorker
<1> QED BY <1>1, <1>2, <1>3, Zenon DEF IInv, Allocated, EntriesLive, ThreadsLive, OthersLive, EventsApart,
           ClientsApart, Newcomer

\* Every step preserves the invariant, one case per action.
LEMMA NextIInv == IInv /\ [Next]_vars => IInv'
<1> SUFFICES ASSUME IInv, [Next]_vars PROVE IInv'
    OBVIOUS
<1>1. TypeOK /\ Allocated
      BY DEF IInv
<1>2. TypeOK'
      BY <1>1, TypeStep, Zenon
<1> DEFINE Goal == (Allocated /\ EventsApart /\ ClientsApart /\ Newcomer)'
<1>3. ASSUME UNCHANGED vars PROVE Goal
      BY <1>3, QuietStep, Zenon DEF vars
<1>4. ASSUME Environment PROVE Goal
      BY <1>1, <1>4, EnvironmentCases, QuietStep, Zenon
<1>5. ASSUME accept_wait \/ accept_fails PROVE Goal
      BY <1>1, <1>5, WaitingCases, QuietStep, Zenon
<1>6. ASSUME accept_count PROVE Goal
      BY <1>1, <1>6, CountedCases, QuietStep, Zenon
<1>7. ASSUME accept_add PROVE Goal
      BY <1>7, AddStep, Zenon
<1>8. ASSUME NEW c \in Clients, accept_connection(c) PROVE Goal
      BY <1>8, ConnectionStep, Zenon
<1>9. ASSUME NEW t \in IO, io_read(t) PROVE Goal
  <2>1. PICK e \in Slots : ev[e].st = "free" /\ (ReadDrops(t, e) \/ \E k \in Clients : ReadGets(t, e, k))
        BY <1>1, <1>9, ReadCases, Zenon
  <2>2. UNCHANGED <<peer, out, cl, acc, wk, counts, faults>> /\ io[t].pc = "read"
        BY <1>1, <1>9, ReadCases, Zenon
  <2> QED BY <2>1, <2>2, ReadDropsStep, ReadGetsStep, Zenon
<1>10. ASSUME NEW t \in IO, io_stamp(t) PROVE Goal
      BY <1>1, <1>10, StampCases, GoesOn, Zenon
<1>11. ASSUME NEW t \in IO, io_count(t) PROVE Goal
      BY <1>1, <1>11, CountCases, GoesOn, Zenon
<1>12. ASSUME NEW t \in IO, io_drop(t) PROVE Goal
      BY <1>12, DropStep, Zenon
<1>13. ASSUME NEW t \in IO, io_write(t) PROVE Goal
      BY <1>13, WriteStep, Zenon
<1>14. ASSUME NEW t \in IO, io_rearm(t) PROVE Goal
      BY <1>14, RearmStep, Zenon
<1>15. ASSUME NEW t \in IO, NEW f \in Fds, io_wait(t, f) PROVE Goal
      BY <1>15, WaitStep, Zenon
<1>16. ASSUME NEW t \in IO, NEW f \in Fds, io_error(t, f) PROVE Goal
      BY <1>16, ErrorStep, Zenon
<1>17. ASSUME NEW w \in Workers, worker_release(w) PROVE Goal
      BY <1>17, ReleaseStep, Zenon
<1>18. ASSUME NEW w \in Workers, NEW e \in Slots, worker_handle(w, e) PROVE Goal
      BY <1>18, HandleStep, Zenon
<1>19. Goal
      BY <1>3, <1>4, <1>5, <1>6, <1>7, <1>8, <1>9, <1>10, <1>11, <1>12, <1>13, <1>14, <1>15, <1>16,
         <1>17, <1>18, SMTT(30) DEF Next, Accept, IOThread, WorkerThread
<1> QED BY <1>2, <1>19, Zenon DEF IInv

\* The inductive invariant of the threads, for any number of IO threads and
\* workers: whatever an armed epoll entry, a thread or the work epoll refers to
\* is allocated, and no client and no io_event is referred to from two of these
\* places.
THEOREM PipelineInvariant == Spec => []IInv
BY InitIInv, NextIInv, PTL DEF Spec

-----------------------------------------------------------------------------
(* Descriptors *)

\* A step that opens and closes nothing, for a client that is served or not.
LEMMA SameFiles ==
  ASSUME IInv, Descriptors, UNCHANGED <<file, cl>>, acc'.pc = "add" => UNCHANGED acc,
         \A f \in Fds : reg'[f].on # "none" => reg[f].on # "none" \/ file[f] # NONE,
         \A t \in IO : io'[t].pc \in {"dropping", "drop"} =>
            io[t].pc \in {"dropping", "drop"} /\ io'[t].client = io[t].client
  PROVE  Descriptors'
BY Zenon DEF Descriptors, Live

\* Nobody else has the client that a thread serves.
LEMMA ServedAlone ==
  ASSUME IInv, NEW t \in IO, Serving(t), NEW c, c = io[t].client
  PROVE  /\ acc.pc = "add" => acc.client # c
         /\ \A u \in IO : u # t => (Serving(u) => io[u].client # c)
BY Zenon DEF IInv, ClientsApart, Newcomer

\* Thread t, which serves c, closes the descriptor of c.
LEMMA ClosesFile ==
  ASSUME IInv, Descriptors, NEW t \in IO, NEW c \in Clients, NEW f \in Fds, f = cl[c].fd,
         Closes(f), UNCHANGED acc,
         \A d \in Clients : cl'[d] = cl[d] \/ (d = c /\ cl'[c].fd = f),
         acc.pc = "add" => acc.client # c,
         io'[t].pc \in {"dropping", "drop"} => io'[t].client = c,
         \A u \in IO : u # t => io'[u] = io[u] /\ (Serving(u) => io[u].client # c)
  PROVE  Descriptors'
<1>1. NONE \notin Clients
      BY NoneAssumption, Zenon
<1>2. reg'[f].on = "none" /\ file'[f] = NONE
      BY Zenon DEF Closes, EntryGoes
<1>3. \A g \in Fds : g # f => reg'[g] = reg[g] /\ file'[g] = file[g]
      BY Zenon DEF Closes, EntryGoes
<1>4. \A g \in Fds : reg'[g].on # "none" => file'[g] # NONE
  <2>1. \A g \in Fds : reg[g].on # "none" => file[g] # NONE
        BY Zenon DEF Descriptors
  <2> SUFFICES ASSUME NEW g \in Fds, reg'[g].on # "none" PROVE file'[g] # NONE
      OBVIOUS
  <2>2. g # f
        BY <1>2, Zenon
  <2>3. reg'[g] = reg[g] /\ file'[g] = file[g]
        BY <1>3, <2>2, Zenon
  <2> QED BY <2>1, <2>3, Zenon
<1>5. ASSUME NEW g \in Fds, file'[g] # NONE
      PROVE  Live(file[g])' /\ cl'[file'[g]].fd = g
  <2>1. g # f /\ file'[g] = file[g]
        BY <1>5, <1>2, <1>3, Zenon
  <2>2. file[g] \in Clients /\ cl[file[g]].st = "live" /\ cl[file[g]].fd = g
        BY <1>5, <2>1, Zenon DEF Descriptors, Live
  <2>3. cl'[file[g]] = cl[file[g]]
        BY <2>1, <2>2, ZenonT(60)
  <2> QED BY <2>1, <2>2, <2>3, Zenon DEF Live
<1>6. acc'.pc = "add" => file'[cl'[acc'.client].fd] \in {NONE, acc'.client}
      BY DEF Descriptors, Closes, IInv, Allocated, OthersLive, Live
<1>7. \A u \in IO : io'[u].pc \in {"dropping", "drop"} => file'[cl'[io'[u].client].fd] # io'[u].client
  <2>1. CASE io'[t].pc \in {"dropping", "drop"}
        BY <1>1, SMTT(30) DEF Descriptors, Closes, IInv, Allocated, ThreadsLive, OthersLive, Live, Serving
  <2>2. CASE io'[t].pc \notin {"dropping", "drop"}
        BY <1>1 DEF Descriptors, Closes, IInv, Allocated, ThreadsLive, OthersLive, Live, Serving
  <2> QED BY <2>1, <2>2, Zenon
<1> QED BY <1>4, <1>5, <1>6, <1>7, Zenon DEF Descriptors

\* Descriptors hold at the start.
LEMMA InitDescriptors == Init => Descriptors
BY DEF Init, Descriptors, NoEntry, IdleAccept, IdleIO

\* Every step keeps descriptors and clients in step, one case per action.
LEMMA NextDescriptors == IInv /\ Descriptors /\ [Next]_vars => Descriptors'
<1> SUFFICES ASSUME IInv, Descriptors, [Next]_vars PROVE Descriptors'
    OBVIOUS
<1>1. TypeOK /\ Allocated /\ ClientsApart /\ Newcomer
      BY DEF IInv
<1>2. CASE UNCHANGED vars
      BY <1>2, SameFiles, Zenon DEF vars
<1>3. CASE Environment
      BY <1>1, <1>3, EnvironmentCases, SameFiles, Zenon
<1>4. CASE accept_wait \/ accept_fails
      BY <1>1, <1>4, WaitingCases, SameFiles, Zenon
<1>5. CASE accept_count
      BY <1>1, <1>5, CountedCases, SameFiles, Zenon
<1>6. CASE accept_add
  <2>1. \A f \in Fds : reg'[f].on # "none" => reg[f].on # "none" \/ file[f] # NONE
        BY <1>1, <1>6, AddCases, Zenon DEF EntryGoes
  <2> QED BY <1>1, <1>6, <2>1, AddCases, SameFiles, Zenon
<1>7. ASSUME NEW c \in Clients, accept_connection(c) PROVE Descriptors'
  <2>1. PICK f \in Fds :
         /\ peer[c] = "backlog" /\ file[f] = NONE
         /\ file'[f] = c /\ \A g \in Fds : g # f => file'[g] = file[g]
         /\ cl'[c].st = "live" /\ cl'[c].fd = f
         /\ \A d \in Clients : d # c => cl'[d] = cl[d]
         /\ acc'.pc = "add" /\ acc'.client = c
         /\ UNCHANGED <<reg, io>>
        BY <1>1, <1>7, ConnectionCases
  <2>2. cl[c].st = "none" /\ NONE \notin Clients
        BY <1>1, <2>1, NoneAssumption, Zenon DEF Allocated, OthersLive
  <2>3. \A g \in Fds : reg'[g].on # "none" => file'[g] # NONE
        BY <2>1, Zenon DEF Descriptors
  <2>4. \A g \in Fds : file'[g] # NONE => Live(file[g])' /\ cl'[file'[g]].fd = g
        BY <2>1, <2>2 DEF Descriptors, Live
  <2>5. acc'.pc = "add" => file'[cl'[acc'.client].fd] \in {NONE, acc'.client}
        BY <2>1, Zenon
  <2>6. \A u \in IO : io'[u].pc \in {"dropping", "drop"} => file'[cl'[io'[u].client].fd] # io'[u].client
    <3> SUFFICES ASSUME NEW u \in IO, io[u].pc \in {"dropping", "drop"}
                 PROVE  file'[cl'[io[u].client].fd] # io[u].client
        BY <2>1, Zenon
    <3>1. Live(io[u].client)
          BY <1>1, Zenon DEF Allocated, ThreadsLive, Serving
    <3> QED BY <1>1, <2>1, <3>1 DEF Descriptors, Live, Allocated, OthersLive
  <2> QED BY <2>3, <2>4, <2>5, <2>6, ZenonT(30) DEF Descriptors
<1>8. ASSUME NEW t \in IO, io_read(t) PROVE Descriptors'
  <2>1. PICK e \in Slots : ReadDrops(t, e) \/ \E k \in Clients : ReadGets(t, e, k)
        BY <1>1, <1>8, ReadCases, Zenon
  <2>2. UNCHANGED <<cl, acc>> /\ io[t].pc = "read"
        BY <1>1, <1>8, ReadCases, Zenon
  <2>3. CASE ReadDrops(t, e)
    <3>1. PICK c \in Clients, f \in Fds : c = io[t].client /\ f = cl[c].fd
          BY <1>1, <2>2, Zenon DEF Allocated, ThreadsLive, OthersLive, Serving, Live
    <3>2. Serving(t)
          BY <2>2 DEF Serving
    <3>3. /\ Closes(f) /\ io'[t].client = c /\ \A u \in IO : u # t => io'[u] = io[u]
          BY <2>3, <3>1, Zenon DEF ReadDrops, IOGoes
    <3> QED BY <1>1, <2>2, <3>1, <3>2, <3>3, ServedAlone, ClosesFile
  <2>4. ASSUME NEW k \in Clients, ReadGets(t, e, k) PROVE Descriptors'
    <3>1. /\ UNCHANGED <<file, reg>> /\ io'[t].pc \notin {"dropping", "drop"}
          /\ \A u \in IO : u # t => io'[u] = io[u]
          BY <2>4, Zenon DEF ReadGets, IOGoes
    <3> QED BY <2>2, <3>1, SameFiles, Zenon
  <2> QED BY <2>1, <2>3, <2>4, Zenon
<1>9. ASSUME NEW t \in IO, io_stamp(t) PROVE Descriptors'
      BY <1>1, <1>9, StampCases, SameFiles, Zenon DEF IOGoes
<1>10. ASSUME NEW t \in IO, io_count(t) PROVE Descriptors'
      BY <1>1, <1>10, CountCases, SameFiles, Zenon DEF IOGoes
<1>11. ASSUME NEW t \in IO, io_drop(t) PROVE Descriptors'
  <2>1. io[t].pc = "drop"
        BY <1>11, Zenon DEF io_drop
  <2>2. PICK c \in Clients, f \in Fds : c = io[t].client /\ f = cl[c].fd
        BY <1>1, <2>1, Zenon DEF Allocated, ThreadsLive, OthersLive, Serving, Live
  <2>3. /\ Closes(f) /\ UNCHANGED acc /\ cl'[c].fd = f /\ \A d \in Clients : d # c => cl'[d] = cl[d]
        /\ io'[t].pc = "idle" /\ \A u \in IO : u # t => io'[u] = io[u]
        BY <1>1, <1>11, <2>2, DropCases, Zenon DEF IOGoes
  <2>4. Serving(t)
        BY <2>1, Zenon DEF Serving
  <2> QED BY <1>1, <2>2, <2>3, <2>4, ServedAlone, ClosesFile
<1>12. ASSUME NEW t \in IO, io_write(t) PROVE Descriptors'
  <2>1. io[t].pc = "write"
        BY <1>12, Zenon DEF io_write
  <2>2. PICK c \in Clients, f \in Fds : c = io[t].client /\ f = cl[c].fd
        BY <1>1, <2>1, Zenon DEF Allocated, ThreadsLive, OthersLive, Serving, Live
  <2>3. /\ UNCHANGED <<file, reg>> \/ Closes(f)
        /\ UNCHANGED <<acc, cl>>
        /\ io'[t].pc = "rearm" /\ \A u \in IO : u # t => io'[u] = io[u]
        BY <1>1, <1>12, <2>2, WriteCases, Zenon DEF IOGoes
  <2>4. Serving(t)
        BY <2>1 DEF Serving
  <2>5. CASE Closes(f)
        BY <1>1, <2>2, <2>3, <2>4, <2>5, ServedAlone, ClosesFile
  <2>6. CASE UNCHANGED <<file, reg>>
        BY <2>3, <2>6, SameFiles, Zenon
  <2> QED BY <2>3, <2>5, <2>6, Zenon
<1> USE <1>1
<1>13. ASSUME NEW t \in IO, io_rearm(t) PROVE Descriptors'
  <2>1. \A f \in Fds : reg'[f].on # "none" => reg[f].on # "none"
        BY <1>13, RearmCases, Zenon DEF Modifies, EntryGoes
  <2> QED BY <1>13, <2>1, RearmCases, SameFiles, Zenon DEF IOGoes
<1>14. ASSUME NEW t \in IO, NEW f \in Fds, io_wait(t, f) PROVE Descriptors'
  <2>1. \A g \in Fds : reg'[g].on # "none" => reg[g].on # "none"
        BY <1>14, WaitCases, Zenon DEF WaitTakes, EntryGoes, Armed
  <2>2. io'[t].pc \in {"read", "write"} /\ \A u \in IO : u # t => io'[u] = io[u]
        BY <1>14, WaitCases, Zenon DEF WaitTakes, IOGoes
  <2> QED BY <1>14, <2>1, <2>2, WaitCases, SameFiles, Zenon
<1>15. ASSUME NEW t \in IO, NEW f \in Fds, io_error(t, f) PROVE Descriptors'
  <2>1. \A g \in Fds : reg'[g].on # "none" => reg[g].on # "none"
        BY <1>15 DEF io_error
  <2> QED BY <1>15, <2>1, ErrorCases, SameFiles, Zenon
<1>16. ASSUME NEW w \in Workers, worker_release(w) PROVE Descriptors'
      BY <1>16, ReleaseCases, SameFiles, Zenon
<1>17. ASSUME NEW w \in Workers, NEW e \in Slots, worker_handle(w, e) PROVE Descriptors'
  <2>1. \A g \in Fds : reg'[g].on # "none" => reg[g].on # "none"
        BY <1>17, HandleCases, Zenon DEF Modifies, EntryGoes
  <2> QED BY <1>17, <2>1, HandleCases, SameFiles, Zenon
<1> QED BY <1>2, <1>3, <1>4, <1>5, <1>6, <1>7, <1>8, <1>9, <1>10, <1>11, <1>12, <1>13, <1>14, <1>15,
           <1>16, <1>17, SMTT(30) DEF Next, Accept, IOThread, WorkerThread

=============================================================================
