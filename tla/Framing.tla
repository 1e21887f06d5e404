------------------------------ MODULE Framing -------------------------------
(***************************************************************************)
(* How requests are cut out of the byte stream of a connection and replies *)
(* written back to it: recv_packet and read_data of server.c over          *)
(* recv_bytes and send_bytes of network.c, with the variable length codec  *)
(* of protocol.c.                                                          *)
(*                                                                         *)
(* A packet is a header byte, its remaining length in base 128 (LenBase)   *)
(* with a continuation flag, and that many bytes.  A byte is a record: the *)
(* packet it belongs to, its index there, and its value, which only the    *)
(* bytes of a length need.  The header bytes of an instance are opcodes    *)
(* the server knows.  The buffer has some cells more than the limit on a   *)
(* request, because a packet at the limit still has a header and a length. *)
(***************************************************************************)
EXTENDS Codec

CONSTANTS max_request_size,  \* the configured limit
          Lengths,           \* remaining lengths of the packets clients send
          Opcodes,           \* and their opcodes
          ReplyLen,          \* bytes of a reply
          MaxPackets         \* bound: packets a client sends

ASSUME FramingAssumption ==
  /\ MaxPackets \in Nat
  /\ Lengths \subseteq Nat /\ max_request_size \in Nat /\ ReplyLen \in Nat

VARIABLES sent,     \* length and opcode of the packets sent so far
          flight,   \* bytes on their way to the server
          sock,     \* bytes in the receive buffer of the socket
          eof,      \* the client has closed its side
          conn,     \* "idle", "body", "reply", "dropped"; "astray" once a byte
                    \* that is not a header or a length is taken for one,
                    \* "crashed" once a missing unpack handler is called
          buffer,   \* the buffer of the IO thread, kept between requests
          frame,    \* nbytes, pos and tlen of the packet being received
          got,      \* what unpack_triedb_request was handed, in order
          replies   \* bytes written of each reply

vars == <<sent, flight, sock, eof, conn, buffer, frame, got, replies>>

-----------------------------------------------------------------------------
(* Packets *)

Byte(p, j, v) == [pkt |-> p, idx |-> j, val |-> v]
Nothing == Byte(0, 0, -1)

\* The p-th packet of a connection, of remaining length len.
Body(p, len) == [j \in 1..len |-> Byte(p, j, -1)]
Packet(p, len) ==
  LET digits == encode_length(len, MAX_LEN_BYTES)
  IN  <<Byte(p, 0, -1)>> \o [j \in 1..Len(digits) |-> Byte(p, -j, digits[j])]
      \o Body(p, len)

-----------------------------------------------------------------------------
(* The client and the network: a client may send before it has its reply and *)
(* close before it has its replies, and the stream arrives in any pieces.    *)

ClientSend(len, op) ==
  /\ ~eof /\ Len(sent) < MaxPackets /\ conn \notin {"dropped", "crashed"}
  /\ sent' = Append(sent, [len |-> len, op |-> op])
  /\ flight' = flight \o Packet(Len(sent) + 1, len)
  /\ UNCHANGED <<sock, eof, conn, buffer, frame, got, replies>>

Arrive(n) ==
  /\ n \in 1..Len(flight)
  /\ sock' = sock \o SubSeq(flight, 1, n)
  /\ flight' = SubSeq(flight, n + 1, Len(flight))
  /\ UNCHANGED <<sent, eof, conn, buffer, frame, got, replies>>

ClientClose ==
  /\ ~eof /\ flight = <<>>
  /\ eof' = TRUE
  /\ UNCHANGED <<sent, flight, sock, conn, buffer, frame, got, replies>>

-----------------------------------------------------------------------------
(* recv_bytes, recv_packet and read_data *)

\* recv_bytes: as many of n bytes as there are, except that the end of the
\* stream is reported as nothing received, whatever came before it.
Received(n) == IF Len(sock) < n /\ eof THEN 0
               ELSE IF Len(sock) < n THEN Len(sock) ELSE n

\* What recv_bytes does to the socket and, from cell at on, to the buffer.
Take(n, at) ==
  LET k == IF Len(sock) < n THEN Len(sock) ELSE n
  IN  /\ sock' = SubSeq(sock, k + 1, Len(sock))
      /\ buffer' = [i \in 1..Len(buffer) |->
                      IF i \in at..at + k - 1 THEN sock[i - at + 1] ELSE buffer[i]]

\* The opcodes that unpack_handlers has an entry for.
Unpacked == {"PUT", "GET", "DEL", "INFO"}

\* A packet is handed to its unpack handler: nbytes cells after the length.
Deliver(cells, pos, nbytes) ==
  /\ got' = Append(got, SubSeq(cells, pos + 2, pos + 1 + nbytes))
  /\ conn' = IF sent[cells[1].pkt].op \in Unpacked THEN "reply" ELSE "crashed"

\* Mutant: the limit itself is refused.
TooLong_limit(tlen) == tlen >= max_request_size

TooLong(tlen) == tlen > max_request_size

\* The first read, of up to four bytes, and what is decided from them.
RecvHeader ==
  LET n == Received(4)
  IN  /\ conn = "idle" /\ (sock # <<>> \/ eof)
      /\ Take(4, 1)
      /\ LET len == decode_length([i \in 1..Len(buffer') |-> buffer'[i].val], 2, 1)
             tlen == len[1]
             pos == len[2]
         IN  /\ frame' = [nbytes |-> n, pos |-> pos, tlen |-> tlen]
             /\ \/ n = 0 /\ conn' = "dropped" /\ UNCHANGED got
                \/ /\ n > 0 /\ (buffer'[1].idx # 0 \/ buffer'[1].pkt = 0 \/ tlen = -1)
                   /\ conn' = "astray" /\ UNCHANGED got
                \/ /\ n > 0 /\ buffer'[1].idx = 0 /\ buffer'[1].pkt # 0 /\ tlen # -1
                   /\ \/ TooLong(tlen) /\ conn' = "dropped" /\ UNCHANGED got
                      \/ /\ ~TooLong(tlen) /\ tlen <= 4
                         /\ Deliver(buffer', pos, n)
                      \/ /\ ~TooLong(tlen) /\ tlen > 4
                         /\ conn' = "body" /\ UNCHANGED got
      /\ UNCHANGED <<sent, flight, eof, replies>>

\* Mutant: the count of the first read is not corrected for the header.
RecvBody_count ==
  LET pos == frame.pos
      n == Received(frame.tlen - pos)
  IN  /\ conn = "body"
      /\ Take(frame.tlen - pos, 2 * pos + 3)
      /\ Deliver(buffer', pos, frame.nbytes + n)
      /\ UNCHANGED <<sent, flight, eof, frame, replies>>

\* Mutant: a read that finds fewer bytes than it asked for is left for later.
RecvBody_wait ==
  LET pos == frame.pos
      n == Received(frame.tlen - pos)
  IN  /\ conn = "body" /\ n = frame.tlen - pos
      /\ Take(frame.tlen - pos, 2 * pos + 3)
      /\ Deliver(buffer', pos, frame.nbytes + n - pos - 1)
      /\ UNCHANGED <<sent, flight, eof, frame, replies>>

\* The second read, for the rest of a packet longer than four bytes.
RecvBody ==
  LET pos == frame.pos
      n == Received(frame.tlen - pos)
  IN  /\ conn = "body"
      /\ Take(frame.tlen - pos, 2 * pos + 3)
      /\ Deliver(buffer', pos, frame.nbytes + n - pos - 1)
      /\ UNCHANGED <<sent, flight, eof, frame, replies>>

\* What of len bytes may be written: send_bytes gives up when the socket is full.
send_bytes(len) == 0..len

\* io_worker writes the reply and releases it whatever was written of it.
Reply ==
  /\ conn = "reply"
  /\ \E n \in send_bytes(ReplyLen) : replies' = Append(replies, n)
  /\ conn' = "idle"
  /\ UNCHANGED <<sent, flight, sock, eof, buffer, frame, got>>

Init ==
  /\ sent = <<>> /\ flight = <<>> /\ sock = <<>> /\ eof = FALSE
  /\ conn = "idle"
  /\ buffer = [i \in 1..max_request_size + 8 |-> Nothing]
  /\ frame = [nbytes |-> 0, pos |-> 0, tlen |-> 0]
  /\ got = <<>> /\ replies = <<>>

Next ==
  \/ \E len \in Lengths, op \in Opcodes : ClientSend(len, op)
  \/ \E n \in 1..Len(flight) : Arrive(n)
  \/ ClientClose
  \/ RecvHeader \/ RecvBody \/ Reply

\* The network delivers and the IO thread runs; the client need do nothing.
Fairness ==
  /\ WF_vars(\E n \in 1..Len(flight) : Arrive(n))
  /\ WF_vars(RecvHeader \/ RecvBody \/ Reply)

Spec == Init /\ [][Next]_vars /\ Fairness

-----------------------------------------------------------------------------
(* Properties *)

\* The server never takes a byte of a payload for a header or a length.
InStep == conn # "astray"

\* A reply is written whole ("Send all bytes contained in buf", network.c).
ReplyWhole == \A i \in 1..Len(replies) : replies[i] = ReplyLen

\* Every command of the protocol is decoded ("OPCODE" table of README.md).
CommandsDecoded == conn # "crashed"
=============================================================================
