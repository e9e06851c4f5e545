------------------------------- MODULE Stream -------------------------------
(***************************************************************************)
(* One direction of a packet connection, below the level of packets: the   *)
(* writer hands the bytes of a frame to send() piece by piece and starts   *)
(* the frame again when a piece times out, the reader collects a header    *)
(* and then as many bytes as the header announces. What a timeout leaves   *)
(* in the stream shifts everything that follows.                           *)
(*                                                                         *)
(* The bytes of a frame are grouped into cells: magic, type, length and    *)
(* hmac, then the payload.                                                 *)
(***************************************************************************)
EXTENDS Naturals, Sequences

CONSTANTS
    Size,           \* payload cells of each frame, in the order of sending
    Attempts        \* how often the caller tries to send it

HeaderSize == 4
MagicAt == 1
LengthAt == 3

Frames == DOMAIN Size

ASSUME SizeAssumption == Size \in Seq(Nat) /\ Attempts \in [Frames -> Nat \ {0}]
\* Every packet that is sent again carries a payload.
ASSUME RetryAssumption == \A i \in Frames : Attempts[i] > 1 => Size[i] > 0

VARIABLES
    cur,            \* the frame the writer is sending
    sent,           \* cells of it that send() has taken
    tries,          \* failed attempts to send it
    wopen,          \* has the writer not closed the connection?
    stream,         \* cells on their way
    rpc,            \* what the reader reads: "header", "payload", or "closed"
    buf,            \* the cells of the packet so far
    payload_len,    \* cells of payload the header announces
    got,            \* packets handed to the caller, 0 for a garbled one
    broken          \* has the connection failed anyone?

writer == <<cur, sent, tries, wopen>>
reader == <<rpc, buf, payload_len, got>>
vars == <<writer, stream, reader, broken>>

\* serialize_packet. A cell knows which frame and which place it comes from,
\* so two cells are equal when they hold the same field of the same frame.
serialize_packet(i) == [p \in 1..HeaderSize + Size[i] |-> <<i, p>>]
Place(cell) == cell[2]
----------------------------------------------------------------------------
(* The writer: write_raw, called by send_packet_conn.                      *)

\* send() takes n more cells; with the last one the frame is sent.
WritePiece(n) ==
    /\ wopen
    /\ cur \in Frames
    /\ LET frame == serialize_packet(cur)
       IN  /\ sent + n <= Len(frame)
           /\ stream' = stream \o SubSeq(frame, sent + 1, sent + n)
           /\ IF sent + n = Len(frame)
              THEN cur' = cur + 1 /\ sent' = 0 /\ tries' = 0
              ELSE sent' = sent + n /\ UNCHANGED <<cur, tries>>
    /\ UNCHANGED <<wopen, reader, broken>>

\* Mutants of WriteFails: a frame that timed out counts as sent; one attempt
\* too many.
Bug_FrameSkipped ==
    /\ wopen
    /\ cur \in Frames
    /\ cur' = cur + 1 /\ sent' = 0 /\ tries' = 0
    /\ broken' = TRUE
    /\ UNCHANGED <<wopen, stream, reader>>
Bug_ExtraAttempt ==
    /\ wopen
    /\ cur \in Frames
    /\ sent' = 0
    /\ IF tries < Attempts[cur]
       THEN tries' = tries + 1 /\ UNCHANGED wopen
       ELSE wopen' = FALSE /\ UNCHANGED tries
    /\ broken' = TRUE
    /\ UNCHANGED <<cur, stream, reader>>

\* send() times out, before or after a part of the frame. The caller tries the
\* whole frame again on the same connection, or gives up and closes it.
WriteFails ==
    /\ wopen
    /\ cur \in Frames
    /\ sent' = 0
    /\ IF tries + 1 < Attempts[cur]
       THEN tries' = tries + 1 /\ UNCHANGED wopen
       ELSE wopen' = FALSE /\ UNCHANGED tries
    /\ broken' = TRUE
    /\ UNCHANGED <<cur, stream, reader>>

\* Everything is sent, or the caller returns.
CloseConn ==
    /\ wopen
    /\ sent = 0
    /\ wopen' = FALSE
    /\ UNCHANGED <<cur, sent, tries, stream, reader, broken>>
----------------------------------------------------------------------------
(* The reader: read_raw and read_packet, called by handle_conn.            *)

Wanted == (IF rpc = "header" THEN HeaderSize ELSE HeaderSize + payload_len) - Len(buf)

\* recv() returns n cells.
Recv(n) ==
    /\ rpc # "closed"
    /\ n <= Wanted
    /\ n <= Len(stream)
    /\ buf' = buf \o SubSeq(stream, 1, n)
    /\ stream' = SubSeq(stream, n + 1, Len(stream))
    /\ UNCHANGED <<writer, rpc, payload_len, got, broken>>

\* A mutant of Complete: a short read counts as a whole one.
Bug_ShortRead == rpc = "payload" /\ Len(buf) > HeaderSize

Complete == rpc = "payload" /\ Wanted = 0

\* A length field that is anything else than a length holds bytes of the magic
\* number or of a type: more than all that can follow on this connection.
Huge == Len(Size) * (HeaderSize + 1) * 1000

HasMagic == Place(buf[MagicAt]) = MagicAt

\* parse_packet_header: the magic number is right. The hmac is not looked at.
ParseHeader ==
    /\ rpc = "header"
    /\ Wanted = 0
    /\ HasMagic
    /\ payload_len' = IF Place(buf[LengthAt]) = LengthAt
                      THEN Size[buf[LengthAt][1]] ELSE Huge
    /\ rpc' = "payload"
    /\ UNCHANGED <<writer, stream, buf, got, broken>>

\* handle_conn leaves its loop.
BadMagic ==
    /\ rpc = "header"
    /\ Wanted = 0
    /\ ~HasMagic
    /\ rpc' = "closed"
    /\ UNCHANGED <<writer, stream, buf, payload_len, got, broken>>

\* The caller gets the packet. One that was pieced together from two writes
\* does not decode (CBOR, chunk checksum) and is dropped by its handler.
Deliver ==
    /\ Complete
    /\ got' = Append(got, IF \E i \in Frames : buf = serialize_packet(i)
                          THEN buf[1][1] ELSE 0)
    /\ buf' = <<>>
    /\ rpc' = "header"
    /\ UNCHANGED <<writer, stream, payload_len, broken>>

\* A mutant of EndOfStream: an orderly close by the peer goes unnoticed.
Bug_EofIgnored == FALSE

EndOfStream == stream = <<>> /\ ~wopen

\* select() or recv() fails in the middle of a packet or between two.
ReadFails ==
    /\ rpc # "closed"
    /\ Wanted > 0
    /\ EndOfStream
    /\ rpc' = "closed"
    /\ UNCHANGED <<writer, stream, buf, payload_len, got, broken>>

\* Nothing has come for as long as select() waits.
ReadTimeout ==
    /\ rpc # "closed"
    /\ Wanted > 0
    /\ stream = <<>>
    /\ wopen
    /\ rpc' = "closed"
    /\ broken' = TRUE
    /\ UNCHANGED <<writer, stream, buf, payload_len, got>>

Read ==
    \/ \E n \in 1..Len(stream) : Recv(n)
    \/ ParseHeader \/ BadMagic \/ Deliver \/ ReadFails
----------------------------------------------------------------------------
\* The connection is reset, and a suffix of what is under way is lost.
ConnReset ==
    /\ wopen
    /\ wopen' = FALSE
    /\ \E n \in 0..Len(stream) : stream' = SubSeq(stream, 1, n)
    /\ broken' = TRUE
    /\ UNCHANGED <<cur, sent, tries, reader>>

Init ==
    /\ cur = 1 /\ sent = 0 /\ tries = 0 /\ wopen = TRUE
    /\ stream = <<>>
    /\ rpc = "header" /\ buf = <<>> /\ payload_len = 0 /\ got = <<>>
    /\ broken = FALSE

Next ==
    \/ \E i \in Frames : \E n \in 1..HeaderSize + Size[i] : WritePiece(n)
    \/ WriteFails \/ CloseConn \/ ConnReset
    \/ Read \/ ReadTimeout

Spec == Init /\ [][Next]_vars

\* The thread of the reader runs on, and the caller closes in the end.
FairSpec == Spec /\ WF_vars(Read) /\ WF_vars(CloseConn)
----------------------------------------------------------------------------
(* Properties.                                                             *)

TypeOK ==
    /\ cur \in 1..Len(Size) + 1
    /\ sent \in Nat /\ tries \in Nat
    /\ cur \in Frames => sent < HeaderSize + Size[cur] /\ tries < Attempts[cur]
    /\ wopen \in BOOLEAN /\ broken \in BOOLEAN
    /\ stream \in Seq(Frames \X Nat) /\ buf \in Seq(Frames \X Nat)
    /\ rpc \in {"header", "payload", "closed"}
    /\ payload_len \in Nat
    /\ got \in Seq(Frames \cup {0})

\* The packets the reader's handlers accept are the packets the writer has
\* sent, in order, none twice and none left out, however the writes were torn
\* and repeated and wherever the reads were cut.
Channel == INSTANCE FrameChannel WITH
    Packet <- Frames,
    sent <- [i \in 1..cur - 1 |-> i],
    got <- SelectSeq(got, LAMBDA i : i # 0),
    open <- rpc # "closed"
DeliversInOrder == Channel!Spec

\* On a connection that no timeout and no reset has touched every packet that is
\* handed over is the next one that was sent, whole, whatever the pieces in which
\* send() took it and recv() returned it (write_raw, read_raw).
UntouchedIsExact ==
    ~broken => Len(got) < cur /\ got = [i \in 1..Len(got) |-> i]

\* On such a connection everything that was sent is delivered, and nothing else.
AllArrive ==
    ~wopen /\ ~broken ~> got = [i \in 1..cur - 1 |-> i]

\* The reader ends when the writer is gone, even in the middle of a packet or
\* waiting for a payload that was never sent.
ReaderEnds == ~wopen ~> rpc = "closed"
=============================================================================
