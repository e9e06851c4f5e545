--------------------------- MODULE DeliveryProofs ---------------------------
(***************************************************************************)
(* Transfer implements Delivery: the initial states map to initial states, *)
(* and every step of the threads, the connections and the environment maps *)
(* to a step of Delivery or to none, for every value of the constants.     *)
(***************************************************************************)
EXTENDS TransferProofs

----------------------------------------------------------------------------
(* The refinement mapping.                                                 *)

\* What the position of send_file tells its caller.
Told(l) == IF l = "failed" THEN "failed"
           ELSE IF l \in {"refused", "finish", "completed", "crashed"}
           THEN "over" ELSE "open"

Outcome  == [x \in Xfer |-> Told(pc[x])]
Disk     == [n \in Name |-> sha256_file(file[n])]
Accepted == {x \in Xfer : rdb[x].state = "completed"}

\* Each step of Delivery, said of the mapped state.
LEMMA MapsAnnounce ==
    ASSUME NEW x \in Xfer, Outcome[x] = "open", checksum[x] = EmptyDigest,
           checksum' = [checksum EXCEPT ![x] = checksum'[x]],
           UNCHANGED <<Outcome, Disk, Accepted>>
    PROVE  Promised!Next
  BY DEF Promised!Next, Promised!Announce, Outcome, Disk, Accepted, Told

LEMMA MapsStore ==
    ASSUME NEW n \in Name, \A x \in Accepted : FileName[x] = n => ~Alone(x),
           Disk' = [Disk EXCEPT ![n] = Disk'[n]],
           UNCHANGED <<Outcome, checksum, Accepted>>
    PROVE  Promised!Next
  BY DEF Promised!Next, Promised!Store, Promised!Sole, Outcome, Disk, Accepted,
         Told, Alone

LEMMA MapsAccept ==
    ASSUME NEW x \in Xfer, Outcome[x] # "failed",
           Alone(x) => Disk[FileName[x]] = checksum[x],
           Accepted' = Accepted \cup {x},
           UNCHANGED <<Outcome, checksum, Disk>>
    PROVE  Promised!Next
  BY DEF Promised!Next, Promised!Accept, Promised!Sole, Outcome, Disk, Accepted,
         Told, Alone

LEMMA MapsForget ==
    ASSUME NEW old \in SUBSET Xfer, Accepted' = Accepted \ old,
           UNCHANGED <<Outcome, checksum, Disk>>
    PROVE  Promised!Next
  BY DEF Promised!Next, Promised!Forget, Outcome, Disk, Accepted, Told

LEMMA MapsFail ==
    ASSUME NEW x \in Xfer, Outcome[x] = "open", x \notin Accepted,
           Outcome' = [Outcome EXCEPT ![x] = "failed"],
           UNCHANGED <<checksum, Disk, Accepted>>
    PROVE  Promised!Next
  BY DEF Promised!Next, Promised!Fail, Outcome, Disk, Accepted, Told

LEMMA MapsEnd ==
    ASSUME NEW senders \in SUBSET Xfer, \A x \in senders : Outcome[x] = "open",
           Outcome' = [x \in Xfer |-> IF x \in senders THEN "over" ELSE Outcome[x]],
           UNCHANGED <<checksum, Disk, Accepted>>
    PROVE  Promised!Next
  BY DEF Promised!Next, Promised!End, Outcome, Disk, Accepted, Told

LEMMA MapsStutter ==
    ASSUME UNCHANGED <<Outcome, checksum, Disk, Accepted>>
    PROVE  UNCHANGED Promised!vars
  BY DEF Promised!vars, Outcome, Disk, Accepted, Told
----------------------------------------------------------------------------
(* The steps.                                                              *)

\* Before HashFile there is no hash.
Unannounced ==
    \A x \in Xfer : pc[x] \in {"idle", "hash"} => checksum[x] = EmptyDigest

\* The receiver's threads and the environment, a step that changes no row,
\* file, checksum or position, is not seen.
LEMMA Unseen ==
    ASSUME UNCHANGED <<pc, checksum, file, rdb>>
    PROVE  UNCHANGED Promised!vars
  <1>1. UNCHANGED <<Outcome, checksum, Disk, Accepted>>
    BY DEF Outcome, Disk, Accepted, Told, sha256_file
  <1> QED
    BY <1>1, MapsStutter

\* send_file, and the death of its process.
LEMMA KillMaps ==
    ASSUME TypeOK, NEW p \in Proc, Kill(p)
    PROVE  [Promised!Next]_Promised!vars
  <1> DEFINE S == {x \in Xfer : ProcOf[x] = p /\ pc[x] \notin Returned /\ pc[x] # "finish"}
  <1>1. UNCHANGED <<checksum, Disk, Accepted>>
    BY DEF Kill, Disk, Accepted, sha256_file, rcvVars
  <1>2. \A x \in S : Outcome[x] = "open"
    BY DEF Outcome, Told, Returned
  <1>3. ASSUME NEW x \in Xfer
        PROVE  Told(pc'[x]) = IF x \in S THEN "over" ELSE Told(pc[x])
    BY DEF Kill, Told, Returned
  <1>4. Outcome' = [x \in Xfer |-> IF x \in S THEN "over" ELSE Outcome[x]]
    BY <1>3 DEF Outcome
  <1> HIDE DEF S
  <1>5. S \in SUBSET Xfer
    BY DEF S
  <1> QED
    BY <1>1, <1>2, <1>4, <1>5, MapsEnd

\* A step of send_file from one place of the code to another.
LEMMA MoveMaps ==
    ASSUME TypeOK, HonestInv, NEW x \in Xfer, NEW l, Go(x, l),
           UNCHANGED <<checksum, file, rdb>>,
           \/ Told(l) = Told(pc[x])
           \/ Told(l) = "over" /\ Told(pc[x]) = "open"
           \/ Told(l) = "failed" /\ Told(pc[x]) = "open"
    PROVE  [Promised!Next]_Promised!vars
  <1>1. UNCHANGED <<checksum, Disk, Accepted>>
    BY DEF Disk, Accepted, sha256_file
  <1>2. /\ pc \in [Xfer -> SenderPc] /\ pc' = [pc EXCEPT ![x] = l]
        /\ Outcome[x] = Told(pc[x])
    BY DEF TypeOK, Go, Outcome
  <1>3. Outcome' = [y \in Xfer |-> IF y = x THEN Told(l) ELSE Told(pc[y])]
    BY <1>2 DEF Outcome
  <1>4. CASE Told(l) = Told(pc[x])
    <2>1. Outcome' = Outcome
      BY <1>3, <1>4 DEF Outcome
    <2> QED
      BY <1>1, <2>1, MapsStutter
  <1>5. CASE Told(l) = "over" /\ Told(pc[x]) = "open"
    <2>1. Outcome' = [y \in Xfer |-> IF y \in {x} THEN "over" ELSE Outcome[y]]
      BY <1>3, <1>5 DEF Outcome
    <2>2. {x} \in SUBSET Xfer /\ \A y \in {x} : Outcome[y] = "open"
      BY <1>2, <1>5
    <2> QED
      BY <1>1, <2>1, <2>2, MapsEnd
  <1>6. CASE Told(l) = "failed" /\ Told(pc[x]) = "open"
    <2>1. Outcome' = [Outcome EXCEPT ![x] = "failed"]
      BY <1>3, <1>6 DEF Outcome
    <2>2. pc[x] \notin Done
      BY <1>6 DEF Told, Done
    <2>3. x \notin Accepted
      BY <2>2 DEF Accepted, HonestInv, HonestFor
    <2> QED
      BY <1>1, <1>2, <1>6, <2>1, <2>3, MapsFail
  <1> QED
    BY <1>4, <1>5, <1>6

LEMMA SenderMaps ==
    ASSUME TypeOK, HonestInv, Unannounced, NEW x \in Xfer, send_file(x)
    PROVE  [Promised!Next]_Promised!vars
  <1> USE DEF rcvVars
  <1>1. CASE BrokenPipe(x)
    BY <1>1, KillMaps, XferAssumption DEF BrokenPipe
  <1>2. CASE SendRefused(x)
    <2>1. Told("refused") = "over" /\ Told(pc[x]) = "open"
      BY <1>2 DEF SendRefused, Told
    <2> QED
      BY <1>2, <2>1, MoveMaps DEF SendRefused
  <1>3. CASE HashFile(x)
    <2>1. UNCHANGED <<Disk, Accepted>>
      BY <1>3 DEF HashFile, Disk, Accepted, sha256_file
    <2>2. pc \in [Xfer -> SenderPc] /\ checksum \in [Xfer -> Digest]
      BY DEF TypeOK
    <2>3. \A y \in Xfer : Told(pc'[y]) = Told(pc[y])
      BY <1>3, <2>2 DEF HashFile, Go, Told
    <2>4. Outcome' = Outcome /\ Outcome[x] = "open" /\ checksum[x] = EmptyDigest
      BY <1>3, <2>3 DEF Outcome, HashFile, Told, Unannounced
    <2>5. checksum' = [checksum EXCEPT ![x] = checksum'[x]]
      BY <1>3, <2>2 DEF HashFile
    <2> QED
      BY <2>1, <2>4, <2>5, MapsAnnounce
  <1>4. CASE \/ SendOffer(x) \/ StartStreaming(x) \/ ReadChunk(x) \/ EndOfFile(x)
             \/ SendChunk(x) \/ ChunkAcked(x) \/ ChunkNotAcked(x) \/ SendFinish(x)
             \/ SendBegin(x)
    <2>1. /\ UNCHANGED <<checksum, file, rdb>>
          /\ \E l \in SenderPc : Go(x, l) /\ Told(l) = Told(pc[x])
      BY <1>4 DEF SendOffer, StartStreaming, ReadChunk, EndOfFile, SendChunk,
                  ChunkAcked, ChunkNotAcked, SendFinish, SendBegin, Told, SenderPc,
                  Streaming, Returned
    <2> QED
      BY <2>1, MoveMaps
  <1>5. CASE ConnectFails(x) \/ NoResponse(x) \/ OfferAbandoned(x)
    <2>1. /\ UNCHANGED <<checksum, file, rdb>> /\ Go(x, "failed")
          /\ Told("failed") = "failed" /\ Told(pc[x]) = "open"
      BY <1>5 DEF ConnectFails, NoResponse, OfferAbandoned, Told
    <2> QED
      BY <2>1, MoveMaps
  <1>6. CASE ChunkSendFails(x)
    <2>1. UNCHANGED <<checksum, file, rdb>>
      BY <1>6 DEF ChunkSendFails
    <2>2. UNCHANGED pc \/ Go(x, "failed")
      BY <1>6 DEF ChunkSendFails, GiveUp
    <2>3. Told("failed") = "failed" /\ Told(pc[x]) = "open"
      BY <1>6 DEF ChunkSendFails, Told
    <2> QED
      BY <2>1, <2>2, <2>3, MoveMaps, Unseen
  <1>7. CASE SendComplete(x)
    <2>1. /\ UNCHANGED <<checksum, file, rdb>> /\ Go(x, "finish")
          /\ Told("finish") = "over" /\ Told(pc[x]) = "open"
      BY <1>7 DEF SendComplete, Told
    <2> QED
      BY <2>1, MoveMaps
  <1> QED
    BY <1>1, <1>2, <1>3, <1>4, <1>5, <1>6, <1>7 DEF send_file

\* A row may be replaced by one that is not completed.
LEMMA ForgetMaps ==
    ASSUME UNCHANGED <<pc, checksum, file>>,
           \A y \in Xfer : \/ rdb'[y].state = rdb[y].state
                           \/ rdb'[y].state # "completed"
    PROVE  [Promised!Next]_Promised!vars
  <1> DEFINE old == {y \in Xfer : rdb'[y].state # "completed"}
  <1>1. Accepted' = Accepted \ old
    BY DEF Accepted
  <1>2. UNCHANGED <<Outcome, checksum, Disk>>
    BY DEF Outcome, Disk, Told, sha256_file
  <1>3. old \in SUBSET Xfer
    OBVIOUS
  <1> HIDE DEF old
  <1> QED
    BY <1>1, <1>2, <1>3, MapsForget

\* A thread that is at work on a file may write to it: the transfer is not
\* accepted yet, and another one under this name is not alone.
LEMMA StoreMaps ==
    ASSUME TypeOK, IntactInv, NEW x \in Xfer, rpc[x] # "closed",
           UNCHANGED <<pc, checksum, rdb>>,
           \A n \in Name : n # FileName[x] => file'[n] = file[n]
    PROVE  [Promised!Next]_Promised!vars
  <1>1. UNCHANGED <<Outcome, checksum, Accepted>>
    BY DEF Outcome, Accepted, Told
  <1>2. \A n \in Name : n # FileName[x] => Disk'[n] = Disk[n]
    BY DEF Disk
  <1>3. FileName[x] \in Name
    BY XferAssumption
  <1>4. Disk' = [Disk EXCEPT ![FileName[x]] = Disk'[FileName[x]]]
    BY <1>2, <1>3 DEF Disk
  <1>5. ASSUME NEW y \in Accepted, FileName[y] = FileName[x] PROVE ~Alone(y)
    <2>1. rpc[y] = "closed" /\ y \in Xfer
      BY DEF Accepted, IntactInv, IntactFor, RowHolds
    <2> QED
      BY <1>5, <2>1 DEF Alone
  <1> QED
    BY <1>1, <1>3, <1>4, <1>5, MapsStore

LEMMA ReceiverMaps ==
    ASSUME TypeOK, IntactInv, HonestInv, NEW x \in Xfer, handle_conn(x)
    PROVE  [Promised!Next]_Promised!vars
  <1> USE DEF sndVars
  <1>t. rdb \in [Xfer -> Row] /\ file \in [Name -> File] /\ rec \in [Xfer -> Row]
    BY DEF TypeOK
  <1>1. CASE \/ ReadPacket(x) \/ ReadPacketFails(x) \/ Resync(x)
             \/ ChunkDropped(x) \/ handle_file_complete(x)
    BY <1>1, Unseen DEF ReadPacket, ReadPacketFails, Resync, ChunkDropped,
                        handle_file_complete
  <1>2. CASE handle_file_offer(x)
    <2>1. rdb' = rdb \/ rdb' = upsert_transfer(rdb, x, pkt[x].off)
      BY <1>2 DEF handle_file_offer, Committed
    <2>2. \A y \in Xfer : rdb'[y].state \in {rdb[y].state, "pending"}
      BY <1>t, <2>1 DEF upsert_transfer
    <2> QED
      BY <1>2, <2>2, ForgetMaps DEF handle_file_offer
  <1>3. CASE handle_file_chunk(x)
    <2>1. /\ rpc[x] # "closed" /\ UNCHANGED <<pc, checksum, rdb>>
          /\ \A n \in Name : n # FileName[x] => file'[n] = file[n]
      BY <1>3, <1>t DEF handle_file_chunk, Dest
    <2> QED
      BY <2>1, StoreMaps
  <1>4. CASE CloseOut(x)
    <2>1. /\ rpc[x] # "closed" /\ UNCHANGED <<pc, checksum, rdb>>
          /\ \A n \in Name : n # FileName[x] => file'[n] = file[n]
      BY <1>4, <1>t DEF CloseOut, Dest
    <2> QED
      BY <2>1, StoreMaps
  <1>5. CASE AckChunk(x)
    <2> DEFINE n == pkt[x].off + Len(pkt[x].data)
    <2>1. rdb' = rdb \/ rdb' = update_transfer_progress(rdb, x, n, "in_progress")
      BY <1>5 DEF AckChunk, Committed
    <2> HIDE DEF n
    <2>2. \A y \in Xfer : rdb'[y].state \in {rdb[y].state, "in_progress"}
      BY <1>t, <2>1 DEF update_transfer_progress
    <2> QED
      BY <1>5, <2>2, ForgetMaps DEF AckChunk
  <1>6. CASE RecordVerdict(x) /\ rpc[x] = "mismatch"
    <2>1. rdb' = rdb \/ rdb' = update_transfer_progress(rdb, x, rec[x].got, "failed")
      BY <1>6 DEF RecordVerdict, Committed
    <2>2. \A y \in Xfer : rdb'[y].state \in {rdb[y].state, "failed"}
      BY <1>t, <2>1 DEF update_transfer_progress
    <2> QED
      BY <1>6, <2>2, ForgetMaps DEF RecordVerdict
  <1>7. CASE RecordVerdict(x) /\ rpc[x] = "verified"
    <2>0. UNCHANGED <<pc, checksum, file>>
      BY <1>7 DEF RecordVerdict
    <2>1. rdb' = rdb \/ rdb' = update_transfer_progress(rdb, x, rec[x].total, "completed")
      BY <1>7 DEF RecordVerdict, Committed
    <2>2. CASE rdb' = rdb \/ rdb[x].state = "absent"
      <3>1. rdb' = rdb
        BY <1>t, <2>1, <2>2 DEF update_transfer_progress
      <3> QED
        BY <2>0, <3>1, Unseen
    <2>3. CASE /\ rdb' = update_transfer_progress(rdb, x, rec[x].total, "completed")
               /\ rdb[x].state # "absent"
      <3>1. \A y \in Xfer : rdb'[y].state = IF y = x THEN "completed" ELSE rdb[y].state
        BY <1>t, <2>3 DEF update_transfer_progress
      <3>2. Accepted' = Accepted \cup {x}
        BY <3>1 DEF Accepted
      <3>3. UNCHANGED <<Outcome, checksum, Disk>>
        BY <2>0 DEF Outcome, Disk, Told, sha256_file
      <3>4. pc[x] \in Done
        BY <1>7 DEF HonestInv, HonestFor
      <3>5. Outcome[x] # "failed"
        BY <3>4 DEF Outcome, Told, Done
      <3>6. Alone(x) => Disk[FileName[x]] = checksum[x]
        BY <1>7, XferAssumption DEF IntactInv, IntactFor, VerdictHolds, SameFile, Disk
      <3> QED
        BY <3>2, <3>3, <3>5, <3>6, MapsAccept
    <2> QED
      BY <2>1, <2>2, <2>3
  <1>8. RecordVerdict(x) => rpc[x] \in {"mismatch", "verified"}
    BY DEF RecordVerdict
  <1> QED
    BY <1>1, <1>2, <1>3, <1>4, <1>5, <1>6, <1>7, <1>8 DEF handle_conn

LEMMA EnvironmentMaps ==
    ASSUME TypeOK, Environment
    PROVE  [Promised!Next]_Promised!vars
  <1> USE DEF sndVars, rcvVars
  <1>t. rdb \in [Xfer -> Row]
    BY DEF TypeOK
  <1>1. ASSUME NEW x \in Xfer, ConnReset(x) \/ Corrupt(x) \/ EditSource(x)
        PROVE  UNCHANGED Promised!vars
    BY <1>1, Unseen DEF ConnReset, Corrupt, EditSource
  <1>2. ASSUME NEW p \in Proc, SenderCrash(p) PROVE [Promised!Next]_Promised!vars
    BY <1>2, KillMaps DEF SenderCrash
  <1>3. CASE ReceiverCrash \/ ReceiverRestart
    BY <1>3, Unseen DEF ReceiverCrash, ReceiverRestart
  <1>4. ASSUME NEW s \in Side, NEW x \in Xfer, CancelRead(s, x)
        PROVE  UNCHANGED Promised!vars
    BY <1>4, Unseen DEF CancelRead
  <1>5. ASSUME NEW s \in Side, NEW x \in Xfer, CancelWrite(s, x)
        PROVE  [Promised!Next]_Promised!vars
    <2>1. \/ rdb' = rdb
          \/ rdb' = update_transfer_progress(rdb, x, canc[s][x].got, "cancelled")
      BY <1>5 DEF CancelWrite, Committed
    <2>2. \A y \in Xfer : rdb'[y].state \in {rdb[y].state, "cancelled"}
      BY <1>t, <2>1 DEF update_transfer_progress
    <2> QED
      BY <1>5, <2>2, ForgetMaps DEF CancelWrite
  <1>6. ASSUME NEW s \in Side, NEW stale \in SUBSET Xfer, Clean(s, stale)
        PROVE  [Promised!Next]_Promised!vars
    <2>1. rdb' = rdb \/ rdb' = delete_stale_transfers(rdb, stale)
      BY <1>6 DEF Clean, Committed
    <2>2. \A y \in Xfer : rdb'[y].state \in {rdb[y].state, "absent"}
      BY <2>1 DEF delete_stale_transfers, NoRow
    <2> QED
      BY <1>6, <2>2, ForgetMaps DEF Clean
  <1> QED
    BY <1>1, <1>2, <1>3, <1>4, <1>5, <1>6 DEF Environment
----------------------------------------------------------------------------

LEMMA NextUnannounced == TypeOK /\ Unannounced /\ [Next]_vars => Unannounced'
  <1> SUFFICES ASSUME TypeOK, Unannounced, [Next]_vars, NEW y \in Xfer,
                      pc'[y] \in {"idle", "hash"}
               PROVE  checksum'[y] = EmptyDigest
    BY DEF Unannounced
  <1>t. pc \in [Xfer -> SenderPc] /\ checksum \in [Xfer -> Digest]
    BY DEF TypeOK
  <1> USE DEF sndVars
  <1>1. ASSUME NEW x \in Xfer, send_file(x)
        PROVE  pc[y] \in {"idle", "hash"} /\ checksum'[y] = checksum[y]
    <2>1. CASE BrokenPipe(x)
      BY <1>t, <2>1 DEF BrokenPipe, Kill
    <2>2. CASE SendBegin(x) \/ HashFile(x)
      BY <1>t, <2>2 DEF SendBegin, HashFile, Go
    <2>3. CASE ChunkSendFails(x)
      BY <1>t, <2>3 DEF ChunkSendFails, GiveUp, Go
    <2>4. CASE \/ SendRefused(x) \/ SendOffer(x) \/ ConnectFails(x) \/ NoResponse(x)
               \/ OfferAbandoned(x) \/ StartStreaming(x) \/ ReadChunk(x)
      BY <1>t, <2>4 DEF SendRefused, SendOffer, ConnectFails, NoResponse,
                        OfferAbandoned, StartStreaming, ReadChunk, Go
    <2>5. CASE \/ EndOfFile(x) \/ SendChunk(x) \/ ChunkAcked(x) \/ ChunkNotAcked(x)
               \/ SendComplete(x) \/ SendFinish(x)
      BY <1>t, <2>5 DEF EndOfFile, SendChunk, ChunkAcked, ChunkNotAcked,
                        SendComplete, SendFinish, Go
    <2> QED
      BY <1>1, <2>1, <2>2, <2>3, <2>4, <2>5 DEF send_file
  <1>2. ASSUME NEW x \in Xfer, handle_conn(x) PROVE UNCHANGED <<pc, checksum>>
    BY <1>2 DEF handle_conn, ReadPacket, ReadPacketFails, Resync, handle_file_offer,
                ChunkDropped, handle_file_chunk, AckChunk, CloseOut,
                handle_file_complete, RecordVerdict
  <1>3. CASE Environment
    <2>1. ASSUME NEW p \in Proc, SenderCrash(p)
          PROVE  pc[y] \in {"idle", "hash"} /\ checksum'[y] = checksum[y]
      BY <1>t, <2>1 DEF SenderCrash, Kill
    <2>2. \/ \E p \in Proc : SenderCrash(p)
          \/ UNCHANGED <<pc, checksum>>
      BY <1>3 DEF Environment, ConnReset, Corrupt, EditSource, ReceiverCrash,
                  ReceiverRestart, CancelRead, CancelWrite, Clean
    <2> QED
      BY <2>1, <2>2 DEF Unannounced
  <1> QED
    BY <1>1, <1>2, <1>3 DEF Next, vars, Unannounced

\* Seen from outside, a transfer does nothing but what Delivery allows: only
\* the file whose hash send_file computed before the offer is accepted, nobody
\* writes to it afterwards, and an accepted transfer is never one whose sender
\* was told that it failed, under every combination of faults.
THEOREM TransferKeepsPromise == Spec => KeepsPromise
  <1>1. Init => Promised!Init
    <2> SUFFICES ASSUME Init PROVE Promised!Init
      OBVIOUS
    <2>1. \A x \in Xfer : pc[x] = "idle" /\ rdb[x].state # "completed"
      BY DEF Init, NoRow
    <2>2. \A n \in Name : sha256_file(file[n]) = EmptyDigest
      BY DEF Init, sha256_file, NoFile
    <2>3. checksum = [x \in Xfer |-> EmptyDigest]
      BY DEF Init
    <2> QED
      BY <2>1, <2>2, <2>3 DEF Promised!Init
  <1>2. Init => Unannounced
    BY DEF Init, Unannounced
  <1>3. TypeOK /\ IntactInv /\ HonestInv /\ Unannounced /\ [Next]_vars
        => [Promised!Next]_Promised!vars
    <2> SUFFICES ASSUME TypeOK, IntactInv, HonestInv, Unannounced, [Next]_vars
                 PROVE  [Promised!Next]_Promised!vars
      OBVIOUS
    <2>1. CASE UNCHANGED vars
      BY <2>1, Unseen DEF vars, sndVars, rcvVars
    <2> QED
      BY <2>1, SenderMaps, ReceiverMaps, EnvironmentMaps DEF Next
  <1> QED
    BY <1>1, <1>2, <1>3, InitIntact, NextIntact, InitHonest, NextHonest,
       NextUnannounced, TypeCorrect, PTL DEF Spec, KeepsPromise, Promised!Spec
============================================================================
