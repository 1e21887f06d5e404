--------------------------- MODULE FramingHistory ---------------------------
(***************************************************************************)
(* Framing with a history variable, which constrains no step: whether      *)
(* every read so far has found in the socket the packet it was for, the    *)
(* whole of it and nothing else.  The client may do otherwise at any time; *)
(* the properties say what the server does until then.                     *)
(***************************************************************************)
EXTENDS Framing

VARIABLE whole

hvars == <<vars, whole>>

\* The packet that is read next, or is being read.
Current == Packet(Len(got) + 1, sent[Len(got) + 1].len)

\* What a read of the server should find.
Expected ==
  CASE conn = "idle" -> Current
    [] conn = "body" -> SubSeq(Current, 5, Len(Current))

Reads == conn \in {"idle", "body"} /\ (conn' # conn \/ got' # got)

HInit == Init /\ whole = TRUE

HNext ==
  /\ Next
  /\ whole' = (whole /\ (Reads => ~eof /\ Len(got) < Len(sent) /\ sock = Expected))

HSpec == HInit /\ [][HNext]_hvars /\ Fairness

-----------------------------------------------------------------------------
(* Properties *)

\* A packet of at least five bytes whose length takes one byte is handed to
\* the unpack handlers byte for byte, no matter what the buffer held before
\* ("We must read all incoming bytes till an entire packet is received",
\* read_data).
DeliveredExact ==
  whole => \A i \in 1..Len(got) :
             sent[i].len \in 5..LenBase - 1 => got[i] = Body(i, sent[i].len)

\* A connection is dropped for a packet over the limit, of however many bytes
\* its length is, and for no other one; else only after the client has closed
\* its side (read_data).
DropIsDeserved ==
  conn = "dropped" /\ whole => sent[Len(got) + 1].len > max_request_size

\* Every packet is answered or its connection dropped, as long as each read
\* finds its packet whole ("we know if the packet is ready to be deserialized
\* and used", read_data).
Answered ==
  \A i \in 1..MaxPackets :
    (Len(sent) = i) ~> (Len(replies) >= i \/ ~whole \/ conn \in {"dropped", "crashed"})
=============================================================================
