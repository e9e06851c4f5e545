--------------------------- MODULE TransferSender ---------------------------
(***************************************************************************)
(* Transfer::send_file, cut where the sending thread waits for the network *)
(* or where another process can see an intermediate state.                 *)
(***************************************************************************)
EXTENDS TransferState

\* A mutant of ReadFails: a read without timeout.
Bug_ReadForever(x) ==
    /\ toS[x] = <<>>
    /\ net[x] = "reset" \/ rpc[x] = "closed"

\* read_packet on the sending side gives up: the timeout expires before the
\* answer is there, or there will never be one.
ReadFails(x) ==
    \/ "slow" \in Faults
    \/ /\ toS[x] = <<>>
       /\ \/ net[x] = "reset"
          \/ rpc[x] = "closed"
          \/ rpc[x] = "read" /\ toR[x] = <<>>

Go(x, l) == pc' = [pc EXCEPT ![x] = l]

SetProgress(x, n, s) ==
    sdb' \in Committed(sdb, update_transfer_progress(sdb, x, n, s))

Count(x, n) == active_count' = [active_count EXCEPT ![ProcOf[x]] = n]

\* Early returns: nothing has been recorded yet.
SendRefused(x) ==
    /\ pc[x] = "idle"
    /\ "refuse" \in Faults \/ active_count[ProcOf[x]] >= MaxConcurrent
    /\ Go(x, "refused")
    /\ UNCHANGED <<source, file_sz, checksum, transferred, chunk_buf, attempt,
                   active_count, sdb, netVars, rcvVars, canc>>

\* The limit is read here and the counter is raised only in StartStreaming. The
\* size of the file is taken; a file that has gone by now is one that was
\* edited to nothing.
SendBegin(x) ==
    /\ pc[x] = "idle"
    /\ active_count[ProcOf[x]] < MaxConcurrent
    /\ file_sz' = [file_sz EXCEPT ![x] = Len(source[x])]
    /\ Go(x, "hash")
    /\ UNCHANGED <<source, checksum, transferred, chunk_buf, attempt,
                   active_count, sdb, netVars, rcvVars, canc>>

\* The file is read once more for its hash, and the transfer is recorded.
HashFile(x) ==
    /\ pc[x] = "hash"
    /\ \/ checksum' = [checksum EXCEPT ![x] = Sha256(source[x])]
       \/ "open" \in Faults /\ UNCHANGED checksum
    /\ sdb' \in Committed(sdb, upsert_transfer(sdb, x, file_sz[x]))
    /\ Go(x, "connect")
    /\ UNCHANGED <<source, file_sz, transferred, chunk_buf, attempt,
                   active_count, netVars, rcvVars, canc>>

FileOffer(x) == Pkt("FileOffer", file_sz[x], <<>>, checksum[x])

\* connect_to succeeds, accept_loop starts a thread for the connection, and
\* the offer is sent.
SendOffer(x) ==
    /\ pc[x] = "connect"
    /\ up
    /\ net' = [net EXCEPT ![x] = "up"]
    /\ \E q \in SendUnchecked(toR[x], "up", FileOffer(x)) :
            toR' = [toR EXCEPT ![x] = q]
    /\ rpc' = [rpc EXCEPT ![x] = "read"]
    /\ Go(x, "waitResp")
    /\ UNCHANGED <<source, file_sz, checksum, transferred, chunk_buf, attempt,
                   active_count, sdb, toS, up, pkt, rec, out_buf, file, rdb,
                   canc>>

ConnectFails(x) ==
    /\ pc[x] = "connect"
    /\ ~up \/ "connect" \in Faults
    /\ SetProgress(x, 0, "failed")
    /\ Go(x, "failed")
    /\ UNCHANGED <<source, file_sz, checksum, transferred, chunk_buf, attempt,
                   active_count, netVars, rcvVars, canc>>

\* A mutant of NoResponse: the outcome is not recorded.
Bug_SilentReturn(x) ==
    /\ pc[x] = "waitResp"
    /\ ReadFails(x)
    /\ Go(x, "failed")
    /\ UNCHANGED <<source, file_sz, checksum, transferred, chunk_buf, attempt,
                   active_count, sdb, netVars, rcvVars, canc>>

NoResponse(x) ==
    /\ pc[x] = "waitResp"
    /\ ReadFails(x)
    /\ SetProgress(x, 0, "failed")
    /\ Go(x, "failed")
    /\ UNCHANGED <<source, file_sz, checksum, transferred, chunk_buf, attempt,
                   active_count, netVars, rcvVars, canc>>

\* The answer is FileReject, or the file can no longer be opened.
OfferAbandoned(x) ==
    /\ pc[x] = "waitResp"
    /\ toS[x] # <<>>
    /\ Head(toS[x]).type = "FileReject" \/ "open" \in Faults
    /\ toS' = [toS EXCEPT ![x] = Tail(@)]
    /\ SetProgress(x, 0, "failed")
    /\ Go(x, "failed")
    /\ UNCHANGED <<source, file_sz, checksum, transferred, chunk_buf, attempt,
                   active_count, net, toR, rcvVars, canc>>

\* Any packet that is not FileReject counts as consent.
StartStreaming(x) ==
    /\ pc[x] = "waitResp"
    /\ toS[x] # <<>>
    /\ Head(toS[x]).type # "FileReject"
    /\ LET resume == IF Head(toS[x]).type = "FileResume"
                     THEN Head(toS[x]).off ELSE 0
       IN  /\ transferred' = [transferred EXCEPT ![x] = resume]
           /\ SetProgress(x, resume, "in_progress")
    /\ toS' = [toS EXCEPT ![x] = Tail(@)]
    /\ Count(x, active_count[ProcOf[x]] + 1)
    /\ Go(x, "loop")
    /\ UNCHANGED <<source, file_sz, checksum, chunk_buf, attempt, net, toR,
                   rcvVars, canc>>

ReadChunk(x) ==
    /\ pc[x] = "loop"
    /\ transferred[x] < Len(source[x])
    /\ chunk_buf' = [chunk_buf EXCEPT ![x] = <<source[x][transferred[x] + 1]>>]
    /\ attempt' = [attempt EXCEPT ![x] = 0]
    /\ Go(x, "send")
    /\ UNCHANGED <<source, file_sz, checksum, transferred, active_count, sdb,
                   netVars, rcvVars, canc>>

EndOfFile(x) ==
    /\ pc[x] = "loop"
    /\ transferred[x] >= Len(source[x])
    /\ Go(x, "complete")
    /\ UNCHANGED <<source, file_sz, checksum, transferred, chunk_buf, attempt,
                   active_count, sdb, netVars, rcvVars, canc>>

FileChunk(x) ==
    Pkt("FileChunk", transferred[x], chunk_buf[x], Sha256(chunk_buf[x]))

SendChunk(x) ==
    /\ pc[x] = "send"
    /\ net[x] = "up"
    /\ toR' = [toR EXCEPT ![x] = Append(@, FileChunk(x))]
    /\ Go(x, "waitAck")
    /\ UNCHANGED <<source, file_sz, checksum, transferred, chunk_buf, attempt,
                   active_count, sdb, net, toS, rcvVars, canc>>

\* Mutants of GiveUp: the slot is not given back; the progress is forgotten.
Bug_SlotKept(x) ==
    /\ SetProgress(x, transferred[x], "failed")
    /\ UNCHANGED active_count
    /\ Go(x, "failed")
Bug_ProgressForgotten(x) ==
    /\ SetProgress(x, 0, "failed")
    /\ Count(x, active_count[ProcOf[x]] - 1)
    /\ Go(x, "failed")

GiveUp(x) ==
    /\ SetProgress(x, transferred[x], "failed")
    /\ Count(x, active_count[ProcOf[x]] - 1)
    /\ Go(x, "failed")

\* A mutant of RetryLeft: one attempt too many.
Bug_ExtraAttempt(x) == attempt[x] < RetryLimit

RetryLeft(x) == attempt[x] + 1 < RetryLimit

\* send() fails: on a dead connection nothing is written, on a stalled one a
\* part of the frame may be. The retry uses the same connection.
ChunkSendFails(x) ==
    /\ pc[x] = "send"
    /\ \/ net[x] = "reset" /\ toR' = toR
       \/ rpc[x] = "closed" /\ toR' = toR
       \/ "stall" \in Faults /\ toR' = toR
       \/ "stall" \in Faults /\ toR' = [toR EXCEPT ![x] = Append(@, Torn)]
    /\ IF RetryLeft(x)
       THEN /\ attempt' = [attempt EXCEPT ![x] = @ + 1]
            /\ UNCHANGED <<pc, sdb, active_count>>
       ELSE GiveUp(x) /\ UNCHANGED attempt
    /\ UNCHANGED <<source, file_sz, checksum, transferred, chunk_buf, net, toS,
                   rcvVars, canc>>

\* Any packet counts as the acknowledgement.
ChunkAcked(x) ==
    /\ pc[x] = "waitAck"
    /\ toS[x] # <<>>
    /\ toS' = [toS EXCEPT ![x] = Tail(@)]
    /\ transferred' = [transferred EXCEPT ![x] = @ + 1]
    /\ SetProgress(x, transferred[x] + 1, "in_progress")
    /\ Go(x, "loop")
    /\ UNCHANGED <<source, file_sz, checksum, chunk_buf, attempt, active_count, net,
                   toR, rcvVars, canc>>

\* "no chunk ack": the loop is left, and the transfer is completed.
ChunkNotAcked(x) ==
    /\ pc[x] = "waitAck"
    /\ ReadFails(x)
    /\ Go(x, "complete")
    /\ UNCHANGED <<source, file_sz, checksum, transferred, chunk_buf, attempt,
                   active_count, sdb, netVars, rcvVars, canc>>

FileComplete(x) == Pkt("FileComplete", 0, <<>>, checksum[x])

\* FileComplete is sent, its result ignored, and the connection closed.
SendComplete(x) ==
    /\ pc[x] = "complete"
    /\ \E q \in SendUnchecked(toR[x], net[x], FileComplete(x)) :
            toR' = [toR EXCEPT ![x] = q]
    /\ Go(x, "finish")
    /\ UNCHANGED <<source, file_sz, checksum, transferred, chunk_buf, attempt,
                   active_count, sdb, net, toS, rcvVars, canc>>

\* A mutant of SendFinish: a chunk without acknowledgement is reported as a
\* failure, although FileComplete has been sent.
Bug_LateFailure(x) ==
    /\ pc[x] = "finish"
    /\ LET s == IF transferred[x] < Len(source[x]) THEN "failed" ELSE "completed"
       IN  SetProgress(x, transferred[x], s) /\ Go(x, s)
    /\ Count(x, active_count[ProcOf[x]] - 1)
    /\ UNCHANGED <<source, file_sz, checksum, transferred, chunk_buf, attempt,
                   netVars, rcvVars, canc>>

SendFinish(x) ==
    /\ pc[x] = "finish"
    /\ SetProgress(x, transferred[x], "completed")
    /\ Count(x, active_count[ProcOf[x]] - 1)
    /\ Go(x, "completed")
    /\ UNCHANGED <<source, file_sz, checksum, transferred, chunk_buf, attempt,
                   netVars, rcvVars, canc>>

\* The process p dies: its threads stop where they are, its memory is gone and
\* the kernel closes its sockets.
Kill(p) ==
    /\ pc' = [x \in Xfer |-> IF ProcOf[x] = p /\ pc[x] \notin Returned
                             THEN "crashed" ELSE pc[x]]
    /\ active_count' = [active_count EXCEPT ![p] = 0]
    /\ UNCHANGED <<source, file_sz, checksum, transferred, chunk_buf, attempt, sdb,
                   netVars, rcvVars, canc>>

\* write_raw calls send() with no flags and nobody handles SIGPIPE: on POSIX
\* writing to a connection the peer has given up can end the process.
BrokenPipe(x) ==
    /\ pc[x] \in {"send", "complete"}
    /\ net[x] = "reset" \/ rpc[x] = "closed"
    /\ Kill(ProcOf[x])

send_file(x) ==
    \/ BrokenPipe(x)
    \/ SendRefused(x)    \/ SendBegin(x)      \/ HashFile(x)
    \/ SendOffer(x)      \/ ConnectFails(x)   \/ NoResponse(x)
    \/ OfferAbandoned(x) \/ StartStreaming(x) \/ ReadChunk(x)
    \/ EndOfFile(x)      \/ SendChunk(x)      \/ ChunkSendFails(x)
    \/ ChunkAcked(x)     \/ ChunkNotAcked(x)  \/ SendComplete(x)
    \/ SendFinish(x)
============================================================================
