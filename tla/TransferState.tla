--------------------------- MODULE TransferState ---------------------------
(***************************************************************************)
(* The state that a file transfer of shr touches: the sending thread       *)
(* (Transfer::send_file), one TCP connection per transfer, the thread of   *)
(* the receiving process that serves that connection                       *)
(* (Network::handle_conn), the received file, and the `transfers` table of *)
(* each of the two nodes.                                                  *)
(*                                                                         *)
(* A file is a sequence of blocks, one block per 1 MB chunk, so byte       *)
(* offsets are counted in chunks.                                          *)
(***************************************************************************)
EXTENDS Integers, Sequences, FiniteSets

CONSTANTS
    Xfer,           \* transfers: one invocation of send_file, with its fresh uuid
    Name,           \* destination file names
    Block,          \* contents of one chunk
    FileName,       \* the (sanitized) file name of each transfer
    Contents,       \* the contents a source file may have
    Proc,           \* sending processes
    ProcOf,         \* the process each send_file runs in
    MaxConcurrent,  \* SHR_MAX_CONCURRENT
    RetryLimit,     \* SHR_RETRY_LIMIT
    Listener,       \* does the receiving process call Network::start?
    Faults          \* the faults the environment may inject

FaultKinds ==
    { "refuse",     \* bad recipient, missing file, unknown peer
      "connect",    \* connect() fails although the peer listens
      "open",       \* the source file cannot be opened
      "reset",      \* a TCP connection breaks
      "slow",       \* a read times out before the answer arrives
      "stall",      \* send() times out (SO_SNDTIMEO), after part of a frame or none
      "corrupt",    \* a chunk is altered on its way
      "edit",       \* the source file is rewritten during the transfer
      "disk",       \* the received file cannot be opened, or a write is lost
      "busy",       \* SQLITE_BUSY: a write to the table is dropped
      "cancel",     \* somebody calls cancel_transfer
      "clean",      \* somebody runs `shr clean`
      "crashS",     \* a sending process dies
      "crashR" }    \* the receiving process dies

ASSUME XferAssumption == FileName \in [Xfer -> Name] /\ ProcOf \in [Xfer -> Proc]
ASSUME FiniteAssumption == IsFiniteSet(Xfer)
ASSUME ContentsAssumption == Contents \subseteq Seq(Block)
ASSUME BoundAssumption == MaxConcurrent \in Nat /\ RetryLimit \in Nat \ {0}
ASSUME FaultAssumption == Listener \in BOOLEAN /\ Faults \subseteq FaultKinds

VARIABLES
    \* send_file
    pc,             \* where the thread of a transfer is
    source,         \* the file being sent, as it is on disk
    file_sz,        \* its size, read before its checksum
    checksum,       \* whole-file checksum, computed once before the offer
    transferred,    \* chunks acknowledged
    chunk_buf,      \* the chunk being sent
    attempt,        \* retries of that chunk
    active_count,   \* Transfer::active_count_, one per process
    sdb,            \* `transfers` table of the sending node
    \* the connection
    net,            \* "none", "up" or "reset"
    toR,            \* frames on their way to the receiver
    toS,            \* frames on their way to the sender
    \* the receiving process
    up,             \* is it listening?
    rpc,            \* where the connection's thread is
    pkt,            \* the packet that thread is handling
    rec,            \* the row handle_file_complete has read
    out_buf,        \* data written to `out` and not yet flushed
    file,           \* the received files
    rdb,            \* `transfers` table of the receiving node
    \* cancel_transfer
    canc            \* progress a running cancel_transfer has read

sndVars == <<pc, source, file_sz, checksum, transferred, chunk_buf, attempt,
             active_count, sdb>>
netVars == <<net, toR, toS>>
rcvVars == <<up, rpc, pkt, rec, out_buf, file, rdb>>
vars == <<sndVars, netVars, rcvVars, canc>>
----------------------------------------------------------------------------
(* Hashes. sha256_bytes is taken to be injective; sha256_file of a file    *)
(* that cannot be opened is the empty string, on either node.              *)
Sha256(c) == [hex |-> TRUE, of |-> c]
EmptyDigest == [hex |-> FALSE, of |-> <<>>]
Digest == [hex : BOOLEAN, of : Seq(Block)]

File == [exists : BOOLEAN, data : Seq(Block)]
NoFile == [exists |-> FALSE, data |-> <<>>]
sha256_file(f) == IF f.exists THEN Sha256(f.data) ELSE EmptyDigest
----------------------------------------------------------------------------
(* The transfers table: one row per transfer id.                           *)
TransferStates ==
    {"pending", "in_progress", "paused", "completed", "failed", "cancelled"}
Row == [state : TransferStates \cup {"absent"}, got : Nat, total : Nat]
NoRow == [state |-> "absent", got |-> 0, total |-> 0]

get_transfer(db, x) == db[x].state # "absent"

upsert_transfer(db, x, size) ==
    [db EXCEPT ![x] = [state |-> "pending", got |-> 0, total |-> size]]

update_transfer_progress(db, x, n, s) ==
    [db EXCEPT ![x] = IF db[x].state = "absent" THEN db[x]
                      ELSE [state |-> s, got |-> n, total |-> db[x].total]]

delete_stale_transfers(db, stale) ==
    [x \in Xfer |->
        IF x \in stale /\ db[x].state \in {"completed", "failed", "cancelled"}
        THEN NoRow ELSE db[x]]

\* The tables that sqlite3_step may leave behind: no busy timeout is set and
\* every caller ignores the result, so a write that meets a lock is dropped.
Committed(old, new) == {new} \cup {db \in {old} : "busy" \in Faults}
----------------------------------------------------------------------------
(* Packets, and what a write to a connection may leave in the stream.      *)
PacketTypes == {"FileOffer", "FileAccept", "FileReject", "FileResume",
                "FileChunk", "FileChunkAck", "FileComplete", "torn"}
Packet == [type : PacketTypes, off : Nat, data : Seq(Block), sum : Digest]
Pkt(t, n, d, h) == [type |-> t, off |-> n, data |-> d, sum |-> h]
Control(t, n) == Pkt(t, n, <<>>, EmptyDigest)

\* The first part of a frame, left in the stream by a send() that timed out.
\* Whatever follows it is read out of step.
Torn == Control("torn", 0)

\* A whole frame reaches the stream of a live connection.
WriteFrame(q, n, p) == IF n = "up" THEN Append(q, p) ELSE q

\* What is left in the stream by a send whose result is not looked at.
SendUnchecked(q, n, p) ==
    {WriteFrame(q, n, p)} \cup {r \in {q, Append(q, Torn)} : "stall" \in Faults}
----------------------------------------------------------------------------
Streaming == {"loop", "send", "waitAck", "complete", "finish"}
Returned  == {"idle", "refused", "failed", "completed", "crashed"}
SenderPc  == Streaming \cup Returned \cup {"hash", "connect", "waitResp"}
Serving   == {"read", "dispatch", "written", "acked", "verified", "mismatch"}
ReceiverPc == Serving \cup {"none", "closed"}
Side == {"snd", "rcv"}
NoCancel == [on |-> FALSE, got |-> 0]
============================================================================
