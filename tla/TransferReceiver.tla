-------------------------- MODULE TransferReceiver --------------------------
(***************************************************************************)
(* The receiving process: Network::handle_conn reads a packet and calls    *)
(* the handler of its type until the connection ends. A handler is one     *)
(* step, or several where it has written to the file system or compared a  *)
(* hash before it writes to the database.                                  *)
(***************************************************************************)
EXTENDS TransferState

Dest(x) == FileName[x]

At(x, l) == rpc' = [rpc EXCEPT ![x] = l]

\* The result of the send is ignored. It cannot end the process as a send of
\* the sender can (BrokenPipe): a connection has at most one packet that asks
\* for an answer, so the reply is the first thing written to a dead one.
Reply(x, p) == toS' = [toS EXCEPT ![x] = WriteFrame(@, net[x], p)]

\* read_packet succeeds.
ReadPacket(x) ==
    /\ rpc[x] = "read"
    /\ toR[x] # <<>>
    /\ Head(toR[x]).type # "torn"
    /\ pkt' = [pkt EXCEPT ![x] = Head(toR[x])]
    /\ toR' = [toR EXCEPT ![x] = Tail(@)]
    /\ At(x, "dispatch")
    /\ UNCHANGED <<sndVars, net, toS, up, rec, out_buf, file, rdb, canc>>

\* A mutant of PeerGone: the end of the stream goes unnoticed.
Bug_EofUnseen(x) == net[x] = "reset"

PeerGone(x) == net[x] = "reset" \/ pc[x] \in Returned \cup {"finish"}

\* read_packet fails and the thread closes the connection: the stream is out
\* of step (the magic number does not match), the peer closed or reset the
\* connection, or nothing came for 30 s.
ReadPacketFails(x) ==
    /\ rpc[x] = "read"
    /\ \/ toR[x] # <<>> /\ Head(toR[x]).type = "torn"
       \/ toR[x] = <<>> /\ PeerGone(x)
       \/ "slow" \in Faults
    /\ At(x, "closed")
    /\ UNCHANGED <<sndVars, netVars, up, pkt, rec, out_buf, file, rdb, canc>>

\* The torn attempts to send a chunk together are as long as one frame: they
\* are read as a packet that no handler can decode, and the stream is in step
\* again (Stream shows that this is the only way back).
Resync(x) ==
    /\ rpc[x] = "read"
    /\ \E n \in 2..Len(toR[x]) :
          /\ \A i \in 1..n : toR[x][i].type = "torn"
          /\ toR' = [toR EXCEPT ![x] = SubSeq(@, n + 1, Len(@))]
    /\ UNCHANGED <<sndVars, net, toS, up, rpc, pkt, rec, out_buf, file, rdb, canc>>

\* A paused row is answered with FileResume, anything else is (re)placed by a
\* new pending row and accepted, whatever became of the write.
handle_file_offer(x) ==
    /\ rpc[x] = "dispatch"
    /\ pkt[x].type = "FileOffer"
    /\ IF rdb[x].state = "paused"
       THEN /\ Reply(x, Control("FileResume", rdb[x].got))
            /\ UNCHANGED rdb
       ELSE /\ rdb' \in Committed(rdb, upsert_transfer(rdb, x, pkt[x].off))
            /\ Reply(x, Control("FileAccept", 0))
    /\ At(x, "read")
    /\ UNCHANGED <<sndVars, net, toR, up, pkt, rec, out_buf, file, canc>>

\* A mutant of ChunkIntact: the checksum of a chunk is not compared.
Bug_Unchecked(x) == TRUE

ChunkIntact(x) == Sha256(pkt[x].data) = pkt[x].sum

\* No acknowledgement: the chunk's hash differs, there is no row, or the
\* file cannot be opened.
ChunkDropped(x) ==
    /\ rpc[x] = "dispatch"
    /\ pkt[x].type = "FileChunk"
    /\ \/ ~ChunkIntact(x)
       \/ ~get_transfer(rdb, x)
       \/ "disk" \in Faults
    /\ At(x, "read")
    /\ UNCHANGED <<sndVars, netVars, up, pkt, rec, out_buf, file, rdb, canc>>

\* A mutant of Opened: every chunk truncates the file.
Bug_AlwaysTruncated(x) == <<>>

\* The file is opened, truncated for offset 0 and for append otherwise (the
\* seekp that follows has no effect on an append stream).
Opened(x) == IF pkt[x].off = 0 THEN <<>> ELSE file[Dest(x)].data

\* The stream hands large writes to the file and keeps small ones in its
\* buffer.
handle_file_chunk(x) ==
    /\ rpc[x] = "dispatch"
    /\ pkt[x].type = "FileChunk"
    /\ ChunkIntact(x)
    /\ get_transfer(rdb, x)
    /\ \/ /\ file' = [file EXCEPT ![Dest(x)] =
                          [exists |-> TRUE, data |-> Opened(x) \o pkt[x].data]]
          /\ UNCHANGED out_buf
       \/ /\ file' = [file EXCEPT ![Dest(x)] =
                          [exists |-> TRUE, data |-> Opened(x)]]
          /\ out_buf' = [out_buf EXCEPT ![x] = pkt[x].data]
    /\ At(x, "written")
    /\ UNCHANGED <<sndVars, netVars, up, pkt, rec, rdb, canc>>

\* The row is updated and the chunk acknowledged while `out` is still open.
AckChunk(x) ==
    /\ rpc[x] = "written"
    /\ rdb' \in Committed(rdb,
           update_transfer_progress(rdb, x, pkt[x].off + Len(pkt[x].data),
                                    "in_progress"))
    /\ Reply(x, Control("FileChunkAck", pkt[x].off + Len(pkt[x].data)))
    /\ At(x, "acked")
    /\ UNCHANGED <<sndVars, net, toR, up, pkt, rec, out_buf, file, canc>>

\* `out` goes out of scope: its buffer is appended to the file. A failed
\* write goes unnoticed.
CloseOut(x) ==
    /\ rpc[x] = "acked"
    /\ \/ file' = [file EXCEPT ![Dest(x)].data = @ \o out_buf[x]]
       \/ "disk" \in Faults /\ UNCHANGED file
    /\ out_buf' = [out_buf EXCEPT ![x] = <<>>]
    /\ At(x, "read")
    /\ UNCHANGED <<sndVars, netVars, up, pkt, rec, rdb, canc>>

\* A mutant of Intact: the progress is compared instead of the hash.
Bug_SizeOnly(x) == rdb[x].got = rdb[x].total

Intact(x) == sha256_file(file[Dest(x)]) = pkt[x].sum

\* The file is hashed and compared with the checksum FileComplete carries.
handle_file_complete(x) ==
    /\ rpc[x] = "dispatch"
    /\ pkt[x].type = "FileComplete"
    /\ At(x, IF ~get_transfer(rdb, x) THEN "closed"
             ELSE IF Intact(x) THEN "verified" ELSE "mismatch")
    /\ rec' = [rec EXCEPT ![x] = rdb[x]]
    /\ UNCHANGED <<sndVars, netVars, up, pkt, out_buf, file, rdb, canc>>

\* A mutant of RecordVerdict: the progress of the old row is kept.
Bug_OldProgress(x) ==
    /\ \/ /\ rpc[x] = "verified"
          /\ rdb' \in Committed(rdb,
                 update_transfer_progress(rdb, x, rec[x].got, "completed"))
       \/ /\ rpc[x] = "mismatch"
          /\ rdb' \in Committed(rdb,
                 update_transfer_progress(rdb, x, rec[x].got, "failed"))
    /\ At(x, "closed")
    /\ UNCHANGED <<sndVars, netVars, up, pkt, rec, out_buf, file, canc>>

\* The verdict is written to the row, and handle_conn ends the connection.
RecordVerdict(x) ==
    /\ \/ /\ rpc[x] = "verified"
          /\ rdb' \in Committed(rdb,
                 update_transfer_progress(rdb, x, rec[x].total, "completed"))
       \/ /\ rpc[x] = "mismatch"
          /\ rdb' \in Committed(rdb,
                 update_transfer_progress(rdb, x, rec[x].got, "failed"))
    /\ At(x, "closed")
    /\ UNCHANGED <<sndVars, netVars, up, pkt, rec, out_buf, file, canc>>

handle_conn(x) ==
    \/ ReadPacket(x)        \/ ReadPacketFails(x) \/ Resync(x)
    \/ handle_file_offer(x)
    \/ ChunkDropped(x)      \/ handle_file_chunk(x) \/ AckChunk(x)
    \/ CloseOut(x)          \/ handle_file_complete(x) \/ RecordVerdict(x)
============================================================================
