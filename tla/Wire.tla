-------------------------------- MODULE Wire --------------------------------
(***************************************************************************)
(* A request and its reply as bytes: the unpack and pack functions of      *)
(* protocol.c between a client and the database.  The client sends one     *)
(* request at a time, in one piece and with one byte of length, which is   *)
(* what recv_packet delivers unharmed (module Framing).  The database is   *)
(* the map it implements (module KVMap), and no time passes.               *)
(***************************************************************************)
EXTENDS Codec, FiniteSets

CONSTANTS Keys,     \* byte strings without zero bytes
          Vals,     \* byte strings
          Ttls,     \* times to live sent with PUT
          Opcodes,  \* the commands the client sends
          NULL,
          InfoNumbers,  \* the numbers INFO reports, as a format for pack
          InfoStrings   \* and the strings

\* database_insert takes the time to live as a short; no time to live is -1.
TtlAssumption == Ttls \subseteq {-1} \cup 1..32767

VARIABLES db,     \* key -> [val, ttl] as stored, or NULL
          call,   \* the request of the client, or NULL
          reply,  \* [bytes, room]: the bytes written and the number that was
                  \* allocated, which is what is sent; or NULL
          fault,  \* undefined behaviour met, or NULL
          ref     \* what the client has stored by its own account, as db

vars == <<db, call, reply, fault, ref>>

\* enum opcode, as far as it is named here, and the codes of an ACK.
ACK == 0
PUT == 1
GET == 2
DEL == 3
INFO == 13
OK == 0
NOK == 1

\* union header
Header(op, prefix) == 16 * op + IF prefix THEN 8 ELSE 0
OpcodeOf(byte) == byte \div 16
PrefixOf(byte) == (byte \div 8) % 2 = 1

-----------------------------------------------------------------------------
(* The client's side of the protocol *)

\* The bytes of a request.
Request(c) ==
  LET body == IF c.op = PUT THEN pack(<<<<"i", c.ttl>>, <<"H", Len(c.key)>>>>) \o c.key \o c.val
              ELSE IF c.op \in {GET, DEL} THEN c.key ELSE <<0, 0>>
  IN  <<Header(c.op, c.prefix)>> \o encode_length(Len(body), MAX_LEN_BYTES) \o body

\* n tuples out of the body of a reply to a prefix GET.
RECURSIVE Tuples(_, _)
Tuples(body, n) ==
  IF n = 0 THEN {}
  ELSE LET keylen == unpacku(SubSeq(body, 5, 6))
           vallen == unpacku(SubSeq(body, 7 + keylen, 8 + keylen))
       IN  {[ttl |-> unpacki(SubSeq(body, 1, 4)), key |-> SubSeq(body, 7, 6 + keylen),
             val |-> SubSeq(body, 9 + keylen, 8 + keylen + vallen)]}
           \cup Tuples(SubSeq(body, 9 + keylen + vallen, Len(body)), n - 1)

\* What a client makes of a reply: nothing when it has not as many bytes as
\* its length says.
Understood(bytes) ==
  LET len == decode_length(bytes, 2, 1)
      body == SubSeq(bytes, 2 + len[2], Len(bytes))
      keylen == unpacku(SubSeq(body, 5, 6))
  IN  IF len[1] # Len(body) THEN <<"incomplete">>
      ELSE IF OpcodeOf(bytes[1]) = ACK THEN <<"ack", body[1]>>
      ELSE IF PrefixOf(bytes[1]) THEN
           <<"tuples", Tuples(SubSeq(body, 3, Len(body)), unpacku(SubSeq(body, 1, 2)))>>
      ELSE <<"tuples", {[ttl |-> unpacki(SubSeq(body, 1, 4)), key |-> SubSeq(body, 7, 6 + keylen),
                         val |-> SubSeq(body, 7 + keylen, Len(body))]}>>

-----------------------------------------------------------------------------
(* unpack_triedb_request *)

unpack_handlers ==
  [op \in 0..15 |-> CASE op = PUT -> "put" [] op \in {GET, DEL} -> "get"
                      [] op \in {INFO, 14} -> "ack" [] op = 15 -> "join"
                      [] OTHER -> NULL]

\* Mutant: the length of the value includes that of the key.
unpack_triedb_put_val(hdr, body) ==
  LET keylen == unpacku(SubSeq(body, 5, 6))
  IN  [op |-> OpcodeOf(hdr), prefix |-> PrefixOf(hdr), ttl |-> unpacki(SubSeq(body, 1, 4)),
       key |-> SubSeq(body, 7, 6 + keylen), val |-> SubSeq(body, 7, Len(body))]

unpack_triedb_put(hdr, body) ==
  LET keylen == unpacku(SubSeq(body, 5, 6))
  IN  [op |-> OpcodeOf(hdr), prefix |-> PrefixOf(hdr), ttl |-> unpacki(SubSeq(body, 1, 4)),
       key |-> SubSeq(body, 7, 6 + keylen), val |-> SubSeq(body, 7 + keylen, Len(body))]

unpack_triedb_get(hdr, body) ==
  [op |-> OpcodeOf(hdr), prefix |-> PrefixOf(hdr), key |-> body]

unpack_triedb_ack(hdr, body) ==
  [op |-> OpcodeOf(hdr), prefix |-> PrefixOf(hdr), rc |-> body[2]]

unpack_triedb_request(bytes) ==
  LET len == decode_length(bytes, 2, 1)
      hdr == bytes[1]
      body == SubSeq(bytes, 2 + len[2], 1 + len[2] + len[1])
      handler == unpack_handlers[OpcodeOf(hdr)]
  IN  IF handler = "put" THEN unpack_triedb_put(hdr, body)
      ELSE IF handler = "get" THEN unpack_triedb_get(hdr, body)
      ELSE unpack_triedb_ack(hdr, body)

-----------------------------------------------------------------------------
(* Replies *)

pack_ack(rc) ==
  [bytes |-> pack(<<<<"B", Header(ACK, FALSE)>>, <<"B", 1>>, <<"B", rc>>>>), room |-> 3]

\* struct tuple
Tuple(k) == [ttl |-> db[k].ttl, keylen |-> strlen(k), key |-> k, val |-> db[k].val]

\* Mutant: the size of the value as it was received.
TupleSize_received(t) == t.keylen + Len(t.val) + 4 + 2 * 2

TupleSize(t) == t.keylen + strlen(t.val) + 4 + 2 * 2

\* pack_response_get for a prefix, and pack_response_join, which has the same
\* layout.
pack_prefix(tuples) ==
  LET length == FoldLeft(LAMBDA n, t : n + TupleSize(t), 2, tuples)
  IN  [bytes |-> <<Header(GET, TRUE)>> \o encode_length(length, MAX_LEN_BYTES)
                 \o pack(<<<<"H", Len(tuples)>>>>)
                 \o FlattenSeq([i \in 1..Len(tuples) |->
                      LET t == tuples[i]
                      IN  pack(<<<<"i", t.ttl>>, <<"H", t.keylen>>, <<"s", t.key>>,
                                 <<"H", strlen(t.val)>>, <<"s", t.val>>>>)]),
       room |-> length + 2]

\* pack_response_get for a single key: the value's length is what remains.
pack_single(t) ==
  LET length == t.keylen + strlen(t.val) + 4 + 2
  IN  [bytes |-> <<Header(GET, FALSE)>> \o encode_length(length, MAX_LEN_BYTES)
                 \o pack(<<<<"i", t.ttl>>, <<"H", t.keylen>>, <<"s", t.key>>, <<"s", t.val>>>>),
       room |-> length + 2]

\* pack_info: no length; each string follows its own.
pack_info ==
  [bytes |-> pack(<<<<"B", Header(INFO, FALSE)>>>> \o InfoNumbers
                  \o FlattenSeq([i \in 1..Len(InfoStrings) |->
                       <<<<"B", strlen(InfoStrings[i])>>, <<"s", InfoStrings[i]>>>>])),
   room |-> 1 + 4 + 4 + 8 + 8 + 4 + 8 + 8 + 8 + 3 + 3 * 8 + 4
            + FoldLeft(LAMBDA n, s : n + strlen(s) + 1, 0, InfoStrings)]

-----------------------------------------------------------------------------
(* The server *)

\* database_insert and database_prefix_set take the time to live as a short.
ToShort(n) == ((n + 32768) % 65536) - 32768

Matching(map, prefix) == {k \in Keys : map[k] # NULL /\ IsPrefix(prefix, k)}

Answer(r) ==
  /\ reply' = r
  /\ fault' = IF Len(r.bytes) > r.room THEN "overrun" ELSE NULL
  /\ UNCHANGED <<call, ref>>

Fail(what) == fault' = what /\ UNCHANGED <<db, call, reply, ref>>

put_handler(pkt) ==
  /\ LET k == CString(pkt.key)
         set == IF pkt.prefix THEN Matching(db, k) ELSE {k}
     IN  db' = [j \in Keys |-> IF j \notin set THEN db[j]
                               ELSE [val |-> pkt.val, ttl |-> ToShort(pkt.ttl)]]
  /\ Answer(pack_ack(OK))

get_handler(pkt) ==
  LET k == CString(pkt.key)
  IN  \/ /\ ~pkt.prefix
         /\ Answer(IF db[k] # NULL THEN pack_single(Tuple(k)) ELSE pack_ack(NOK))
         /\ UNCHANGED db
      \/ /\ pkt.prefix /\ Matching(db, k) = {}  \* a null vector or an empty one
         /\ Fail("nothing matches")
      \/ /\ pkt.prefix /\ Matching(db, k) # {}
         /\ \E order \in SetToSeqs(Matching(db, k)) :
              Answer(pack_prefix([i \in 1..Len(order) |-> Tuple(order[i])]))
         /\ UNCHANGED db

del_handler(pkt) ==
  LET k == CString(pkt.key)
      gone == IF pkt.prefix THEN Matching(db, k) ELSE {k}
  IN  /\ db' = [j \in Keys |-> IF j \in gone THEN NULL ELSE db[j]]
      /\ Answer(pack_ack(IF pkt.prefix \/ db[k] # NULL THEN OK ELSE NOK))

info_handler == Answer(pack_info) /\ UNCHANGED db

\* read_data and worker: unpack_handlers and handlers are indexed with the
\* opcode.  FLUSH fills in no reply; there are 15 handlers, none for JOIN.
Serve ==
  /\ call # NULL /\ reply = NULL /\ fault = NULL
  /\ LET op == OpcodeOf(Request(call)[1])
         pkt == unpack_triedb_request(Request(call))
     IN  \/ unpack_handlers[op] = NULL /\ Fail("no unpack handler")
         \/ op \in {14, 15} /\ Fail("no reply")
         \/ op = PUT /\ put_handler(pkt)
         \/ op = GET /\ get_handler(pkt)
         \/ op = DEL /\ del_handler(pkt)
         \/ op = INFO /\ info_handler

-----------------------------------------------------------------------------
(* The client *)

Calls ==
  [op : {PUT} \cap Opcodes, prefix : BOOLEAN, key : Keys, val : Vals, ttl : Ttls]
    \cup [op : {GET, DEL} \cap Opcodes, prefix : BOOLEAN, key : Keys]
    \cup [op : Opcodes \ {PUT, GET, DEL}, prefix : {FALSE}]

Call(c) ==
  /\ call = NULL /\ fault = NULL
  /\ call' = c
  /\ UNCHANGED <<db, reply, fault, ref>>

\* The keys the client means: with a prefix, those it has stored.
Meant == IF call.prefix THEN Matching(ref, call.key) ELSE {call.key}

\* The client reads the reply and notes what it has stored or removed.
Read ==
  /\ reply # NULL /\ fault = NULL
  /\ ref' = [k \in Keys |->
               IF call.op \notin {PUT, DEL} \/ k \notin Meant THEN ref[k]
               ELSE IF call.op = DEL THEN NULL
               ELSE [val |-> CString(call.val), ttl |-> call.ttl]]
  /\ call' = NULL /\ reply' = NULL
  /\ UNCHANGED <<db, fault>>

Init ==
  /\ db = [k \in Keys |-> NULL] /\ ref = db
  /\ call = NULL /\ reply = NULL /\ fault = NULL

Next == (\E c \in Calls : Call(c)) \/ Serve \/ Read

Spec == Init /\ [][Next]_vars

-----------------------------------------------------------------------------
(* Properties *)

\* send_bytes sends bstring_len(reply) bytes; what was not written is anything.
Sent == [i \in 1..reply.room |-> IF i <= Len(reply.bytes) THEN reply.bytes[i] ELSE -1]

\* What the client should be told.
Expected ==
  LET told == {[ttl |-> ref[k].ttl, key |-> k, val |-> ref[k].val] :
                 k \in {j \in Meant : ref[j] # NULL}}
  IN  CASE call.op = PUT -> <<"ack", OK>>
        [] call.op = DEL -> <<"ack", IF call.prefix \/ ref[call.key] # NULL THEN OK ELSE NOK>>
        [] call.op = GET -> IF told = {} THEN <<"ack", NOK>> ELSE <<"tuples", told>>

\* A client reads back what it has stored: through the encoding of its
\* requests, the unpack functions, the database and the pack functions, a GET
\* of a key or of a prefix returns the keys, values (up to a zero byte) and
\* times to live of the PUTs and DELs before it, as long as no reply was longer
\* than its allocation.
ReadsWhatWasStored ==
  reply # NULL /\ fault = NULL /\ call.op # INFO => Understood(Sent) = Expected

\* A reply fills its allocation exactly, so that all of it and nothing else is
\* sent, whatever lengths are summed up and encoded for it; except when its
\* length takes more than one byte ("bytes required to store packet length,
\* max 4", pack_response_get).
ReplyFits ==
  reply # NULL =>
    Len(reply.bytes) = reply.room \/ Len(reply.bytes) - 3 >= LenBase

\* A GET is answered with a packet: "a 1 byte header, the size of the payload
\* and the payload itself" (README.md), all of it.
GetReplyWhole == reply # NULL /\ call.op = GET => Understood(Sent) # <<"incomplete">>

\* So is every command; the reply to INFO has no size.
ReplyIsPacket == reply # NULL /\ fault = NULL => Understood(Sent) # <<"incomplete">>
=============================================================================
