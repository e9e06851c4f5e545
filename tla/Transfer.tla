------------------------------ MODULE Transfer ------------------------------
(***************************************************************************)
(* File transfer between two shr nodes: the sending threads, the receiving *)
(* process and the environment they run in.                                *)
(***************************************************************************)
EXTENDS TransferSender, TransferReceiver

Init ==
    /\ pc = [x \in Xfer |-> "idle"]
    /\ source \in [Xfer -> Contents]
    /\ file_sz = [x \in Xfer |-> 0]
    /\ checksum = [x \in Xfer |-> EmptyDigest]
    /\ transferred = [x \in Xfer |-> 0]
    /\ chunk_buf = [x \in Xfer |-> <<>>]
    /\ attempt = [x \in Xfer |-> 0]
    /\ active_count = [p \in Proc |-> 0]
    /\ sdb = [x \in Xfer |-> NoRow]
    /\ net = [x \in Xfer |-> "none"]
    /\ toR = [x \in Xfer |-> <<>>]
    /\ toS = [x \in Xfer |-> <<>>]
    /\ up = Listener
    /\ rpc = [x \in Xfer |-> "none"]
    /\ pkt = [x \in Xfer |-> Torn]
    /\ rec = [x \in Xfer |-> NoRow]
    /\ out_buf = [x \in Xfer |-> <<>>]
    /\ file = [n \in Name |-> NoFile]
    /\ rdb = [x \in Xfer |-> NoRow]
    /\ canc = [s \in Side |-> [x \in Xfer |-> NoCancel]]
----------------------------------------------------------------------------
(* The environment.                                                        *)

\* The connection breaks; a suffix of what is under way is lost each way.
ConnReset(x) ==
    /\ "reset" \in Faults
    /\ net[x] = "up"
    /\ net' = [net EXCEPT ![x] = "reset"]
    /\ \E i \in 0..Len(toR[x]) : toR' = [toR EXCEPT ![x] = SubSeq(@, 1, i)]
    /\ \E i \in 0..Len(toS[x]) : toS' = [toS EXCEPT ![x] = SubSeq(@, 1, i)]
    /\ UNCHANGED <<sndVars, rcvVars, canc>>

Corrupt(x) ==
    /\ "corrupt" \in Faults
    /\ toR[x] # <<>>
    /\ Head(toR[x]).type = "FileChunk"
    /\ \E b \in Block \ {Head(toR[x]).data[1]} :
            toR' = [toR EXCEPT ![x] =
                <<[Head(@) EXCEPT !.data = <<b>>]>> \o Tail(@)]
    /\ UNCHANGED <<sndVars, net, toS, rcvVars, canc>>

\* Somebody rewrites the file that is being sent.
EditSource(x) ==
    /\ "edit" \in Faults
    /\ pc[x] \notin Returned
    /\ \E c \in Contents \ {source[x]} : source' = [source EXCEPT ![x] = c]
    /\ UNCHANGED <<pc, file_sz, checksum, transferred, chunk_buf, attempt,
                   active_count, sdb, netVars, rcvVars, canc>>

SenderCrash(p) ==
    /\ "crashS" \in Faults
    /\ \E x \in Xfer : ProcOf[x] = p /\ pc[x] \notin Returned
    /\ Kill(p)

\* The tables and the files survive, unflushed data and connections do not.
ReceiverCrash ==
    /\ "crashR" \in Faults
    /\ up
    /\ up' = FALSE
    /\ rpc' = [x \in Xfer |-> IF rpc[x] \in Serving THEN "closed" ELSE rpc[x]]
    /\ net' = [x \in Xfer |-> IF rpc[x] \in Serving THEN "reset" ELSE net[x]]
    /\ out_buf' = [x \in Xfer |-> <<>>]
    /\ UNCHANGED <<sndVars, toR, toS, pkt, rec, file, rdb, canc>>

\* The process is started again: Network::start, and no recovery of the rows.
ReceiverRestart ==
    /\ ~up
    /\ Listener
    /\ up' = TRUE
    /\ UNCHANGED <<sndVars, netVars, rpc, pkt, rec, out_buf, file, rdb, canc>>

\* cancel_transfer reads the row on one of the nodes...
CancelRead(s, x) ==
    /\ "cancel" \in Faults
    /\ ~canc[s][x].on
    /\ LET db == IF s = "snd" THEN sdb ELSE rdb
       IN  /\ get_transfer(db, x)
           /\ canc' = [canc EXCEPT ![s][x] = [on |-> TRUE, got |-> db[x].got]]
    /\ UNCHANGED <<sndVars, netVars, rcvVars>>

\* ... and writes back the progress it has read.
CancelWrite(s, x) ==
    /\ canc[s][x].on
    /\ canc' = [canc EXCEPT ![s][x] = NoCancel]
    /\ \/ /\ s = "snd"
          /\ SetProgress(x, canc[s][x].got, "cancelled")
          /\ UNCHANGED rdb
       \/ /\ s = "rcv"
          /\ rdb' \in Committed(rdb,
                 update_transfer_progress(rdb, x, canc[s][x].got, "cancelled"))
          /\ UNCHANGED sdb
    /\ UNCHANGED <<pc, source, file_sz, checksum, transferred, chunk_buf, attempt,
                   active_count, netVars, up, rpc, pkt, rec, out_buf, file>>

\* `shr clean` drops finished rows that have not been touched for 7 days. All
\* waits are bounded by 30 s timeouts, so nobody is working on such a row.
Clean(s, stale) ==
    /\ "clean" \in Faults
    /\ \A x \in stale : /\ pc[x] \in Returned
                        /\ rpc[x] \notin Serving
                        /\ ~canc[s][x].on
    /\ \/ /\ s = "snd"
          /\ sdb' \in Committed(sdb, delete_stale_transfers(sdb, stale))
          /\ UNCHANGED rdb
       \/ /\ s = "rcv"
          /\ rdb' \in Committed(rdb, delete_stale_transfers(rdb, stale))
          /\ UNCHANGED sdb
    /\ UNCHANGED <<pc, source, file_sz, checksum, transferred, chunk_buf, attempt,
                   active_count, netVars, up, rpc, pkt, rec, out_buf, file,
                   canc>>

Environment ==
    \/ \E x \in Xfer : ConnReset(x) \/ Corrupt(x) \/ EditSource(x)
    \/ \E p \in Proc : SenderCrash(p)
    \/ ReceiverCrash
    \/ ReceiverRestart
    \/ \E s \in Side, x \in Xfer : CancelRead(s, x) \/ CancelWrite(s, x)
    \/ \E s \in Side, stale \in SUBSET Xfer \ {{}} : Clean(s, stale)

Next ==
    \/ \E x \in Xfer : send_file(x) \/ handle_conn(x)
    \/ Environment

Spec == Init /\ [][Next]_vars

\* A thread that can take a step takes it: the reads of send_file and
\* handle_conn are bounded by select, the sends of send_file by SO_SNDTIMEO, and
\* a reply of handle_conn is a few bytes, which the socket's buffer takes.
FairSpec == /\ Spec
            /\ \A x \in Xfer : WF_vars(send_file(x)) /\ WF_vars(handle_conn(x))
----------------------------------------------------------------------------
(* Properties.                                                             *)

TypeOK ==
    /\ pc \in [Xfer -> SenderPc]
    /\ source \in [Xfer -> Seq(Block)]
    /\ file_sz \in [Xfer -> Nat]
    /\ checksum \in [Xfer -> Digest]
    /\ transferred \in [Xfer -> Nat]
    /\ chunk_buf \in [Xfer -> Seq(Block)]
    /\ attempt \in [Xfer -> 0..RetryLimit - 1]
    /\ active_count \in [Proc -> Int]
    /\ sdb \in [Xfer -> Row]
    /\ net \in [Xfer -> {"none", "up", "reset"}]
    /\ toR \in [Xfer -> Seq(Packet)]
    /\ toS \in [Xfer -> Seq(Packet)]
    /\ up \in BOOLEAN
    /\ rpc \in [Xfer -> ReceiverPc]
    /\ pkt \in [Xfer -> Packet]
    /\ rec \in [Xfer -> Row]
    /\ out_buf \in [Xfer -> Seq(Block)]
    /\ file \in [Name -> File]
    /\ rdb \in [Xfer -> Row]
    /\ canc \in [Side -> [Xfer -> [on : BOOLEAN, got : Nat]]]

\* No other transfer is saved under the same file name.
Alone(x) == \A y \in Xfer \ {x} : FileName[y] # FileName[x]

\* A row of the receiver says "completed" only for a file that has, byte for
\* byte, the contents the sender hashed before the offer, whatever is lost,
\* torn, corrupted, edited, cancelled or crashed on the way
\* (handle_file_complete compares the hash before it writes the row). Where the
\* sender could not read its file there is none on the receiver either.
CompletedIntact ==
    \A x \in Xfer : rdb[x].state = "completed" /\ Alone(x)
                     => sha256_file(file[FileName[x]]) = checksum[x]

\* Transfer::active_count_ is the number of sends of the process that are in
\* their chunk loop: every way out of the loop gives its slot back, none gives
\* it back twice, and a process starts with none taken.
ActiveCountExact ==
    \A p \in Proc : active_count[p] =
        Cardinality({x \in Xfer : ProcOf[x] = p /\ pc[x] \in Streaming})

\* While the receiver lives and its disk works, what it holds of a file is a
\* prefix of the file being sent, without hole, repetition or altered block,
\* and no shorter than what the sender counts as acknowledged, through
\* dropped chunks, retries, torn frames and resets.
AckedIsStored ==
    \A x \in Xfer :
        pc[x] \in Streaming /\ Alone(x)
        => LET stored == file[FileName[x]].data \o out_buf[x]
           IN  /\ transferred[x] <= Len(stored)
               /\ Len(stored) <= Len(source[x])
               /\ stored = SubSeq(source[x], 1, Len(stored))

\* A send that reports failure has not been accepted as complete by the
\* receiver: nobody is told to resend a file that has arrived.
FailureIsHonest ==
    \A x \in Xfer : pc[x] = "failed" => rdb[x].state # "completed"

\* The progress recorded for a transfer never moves back, on either node, and
\* a completed row stays as it is: no failure path, late acknowledgement or
\* verdict from an old snapshot undoes what an earlier step recorded.
RowsMoveForward ==
    [][\A x \in Xfer :
        /\ sdb'[x].got >= sdb[x].got
        /\ rdb'[x].got >= rdb[x].got
        /\ sdb[x].state = "completed" => sdb'[x] = sdb[x]
        /\ rdb[x].state = "completed" => rdb'[x] = rdb[x]]_vars

\* Every send_file that has started returns (or its process dies): no loss,
\* stall or crash on the other side leaves it waiting for ever.
SendReturns == \A x \in Xfer : pc[x] \notin Returned ~> pc[x] \in Returned

\* Every thread that serves a connection ends and closes it, so a vanished
\* sender does not keep a thread of the receiver for ever.
ThreadEnds == \A x \in Xfer : rpc[x] \in Serving ~> rpc[x] = "closed"

\* Without faults every file that is sent and is not empty arrives intact, and
\* both sides end up saying so.
Delivered ==
    \A x \in Xfer :
        source[x] # <<>> ~> /\ pc[x] = "completed"
                            /\ sdb[x].state = "completed"
                            /\ rdb[x].state = "completed"
                            /\ file[FileName[x]] = [exists |-> TRUE, data |-> source[x]]
\* Seen from outside, the sending threads, the connection, the serving threads
\* and the two tables do nothing but what Delivery allows: the hash is announced
\* once, only the announced file is accepted, nobody writes to it afterwards,
\* and an accepted transfer is never reported as failed.
Promised == INSTANCE Delivery WITH
    NoHash <- EmptyDigest,
    outcome <- [x \in Xfer |->
                   IF pc[x] = "failed" THEN "failed"
                   ELSE IF pc[x] \in {"refused", "finish", "completed", "crashed"}
                   THEN "over" ELSE "open"],
    promise <- checksum,
    disk <- [n \in Name |-> sha256_file(file[n])],
    accepted <- {x \in Xfer : rdb[x].state = "completed"}
KeepsPromise == Promised!Spec
----------------------------------------------------------------------------
(* What the documentation says and the code does not do.                   *)

\* README.md:532, "All chunks sent": a sender that has sent FileComplete has
\* had every chunk of the file acknowledged.
CompleteMeansAcked ==
    \A x \in Xfer : pc[x] = "completed" => transferred[x] >= Len(source[x])
============================================================================
