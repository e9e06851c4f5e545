--------------------------- MODULE TransferProofs ---------------------------
(***************************************************************************)
(* Theorems about Transfer, for any number of transfers, processes, files, *)
(* blocks and retries and for every set of faults.                         *)
(***************************************************************************)
EXTENDS Transfer, FiniteSetTheorems, TLAPS

----------------------------------------------------------------------------
(* The operators the model is built from return values of their types.     *)

\* update_transfer_progress keeps the table a table of rows.
LEMMA UpdateType ==
    ASSUME NEW db \in [Xfer -> Row], NEW x \in Xfer, NEW n \in Nat,
           NEW s \in TransferStates
    PROVE  update_transfer_progress(db, x, n, s) \in [Xfer -> Row]
  BY DEF update_transfer_progress, Row, TransferStates

\* upsert_transfer keeps the table a table of rows.
LEMMA UpsertType ==
    ASSUME NEW db \in [Xfer -> Row], NEW x \in Xfer, NEW n \in Nat
    PROVE  upsert_transfer(db, x, n) \in [Xfer -> Row]
  BY DEF upsert_transfer, Row, TransferStates

\* delete_stale_transfers keeps the table a table of rows.
LEMMA StaleType ==
    ASSUME NEW db \in [Xfer -> Row], NEW stale
    PROVE  delete_stale_transfers(db, stale) \in [Xfer -> Row]
  BY DEF delete_stale_transfers, Row, NoRow, TransferStates

\* Whether a write is dropped or not, the table has its type.
LEMMA CommittedType ==
    ASSUME NEW S, NEW old \in S, NEW new \in S, NEW db \in Committed(old, new)
    PROVE  db \in S
  BY DEF Committed

\* A recorded progress leaves a table of rows.
LEMMA ProgressType ==
    ASSUME NEW db \in [Xfer -> Row], NEW x \in Xfer, NEW n \in Nat,
           NEW s \in TransferStates,
           NEW new \in Committed(db, update_transfer_progress(db, x, n, s))
    PROVE  new \in [Xfer -> Row]
  BY UpdateType, CommittedType

\* The packets the two sides build are packets.
LEMMA PktType ==
    ASSUME NEW t \in PacketTypes, NEW n \in Nat, NEW d \in Seq(Block), NEW h \in Digest
    PROVE  Pkt(t, n, d, h) \in Packet
  BY DEF Pkt, Packet

\* Every hash is a digest; the size it stands for is a natural number.
LEMMA HashType ==
    /\ \A c \in Seq(Block) : Sha256(c) \in Digest
    /\ EmptyDigest \in Digest
    /\ \A h \in Digest : Len(h.of) \in Nat
  BY DEF Sha256, EmptyDigest, Digest

\* A packet without payload is a packet.
LEMMA ControlType ==
    ASSUME NEW t \in PacketTypes, NEW n \in Nat
    PROVE  Control(t, n) \in Packet
  <1>1. <<>> \in Seq(Block)
    OBVIOUS
  <1> QED
    BY <1>1, PktType, HashType, Zenon DEF Control

\* So is what a stalled send leaves behind.
LEMMA TornType == Torn \in Packet
  BY ControlType DEF Torn, PacketTypes

\* A send, whatever becomes of it, leaves a stream of packets.
LEMMA FrameType ==
    ASSUME NEW q \in Seq(Packet), NEW n, NEW p \in Packet
    PROVE  /\ WriteFrame(q, n, p) \in Seq(Packet)
           /\ SendUnchecked(q, n, p) \subseteq Seq(Packet)
  BY TornType DEF WriteFrame, SendUnchecked

\* The initial state has the type.
LEMMA InitType == Init => TypeOK
  <1> SUFFICES ASSUME Init PROVE TypeOK
    OBVIOUS
  <1>1. NoRow \in Row /\ NoFile \in File /\ NoCancel \in [on : BOOLEAN, got : Nat]
    BY DEF NoRow, Row, NoFile, File, NoCancel
  <1>2. source \in [Xfer -> Seq(Block)]
    BY ContentsAssumption DEF Init
  <1>3. active_count \in [Proc -> Int]
    BY DEF Init
  <1>4. attempt \in [Xfer -> 0..RetryLimit - 1]
    BY BoundAssumption DEF Init
  <1> QED
    BY <1>1, <1>2, <1>3, <1>4, HashType, TornType, FaultAssumption
    DEF Init, TypeOK, SenderPc, Returned, ReceiverPc

\* Every step of send_file preserves the type.
LEMMA SenderType ==
    ASSUME TypeOK, NEW x \in Xfer, send_file(x)
    PROVE  TypeOK'
  <1> USE DEF TypeOK, sndVars, netVars, rcvVars, Go, SenderPc, Streaming, Returned,
             TransferStates
  <1>0. ProcOf[x] \in Proc /\ active_count[ProcOf[x]] \in Int
    BY XferAssumption
  <1>a. ASSUME NEW n \in Int, Count(x, n)
        PROVE  active_count' \in [Proc -> Int]
    BY <1>0, <1>a DEF Count
  <1>b. ASSUME toS[x] # <<>>, toS' = [toS EXCEPT ![x] = Tail(@)]
        PROVE  toS' \in [Xfer -> Seq(Packet)]
    <2>1. Tail(toS[x]) \in Seq(Packet)
      BY <1>b
    <2> QED
      BY <1>b, <2>1
  <1>c. ASSUME NEW n \in Nat, NEW s \in TransferStates, SetProgress(x, n, s)
        PROVE  sdb' \in [Xfer -> Row]
    BY <1>c, ProgressType DEF SetProgress
  <1>d. checksum[x] \in Digest /\ <<>> \in Seq(Block)
    OBVIOUS
  <1>1. CASE BrokenPipe(x)
    BY <1>1, <1>0 DEF BrokenPipe, Kill
  <1>2. CASE SendRefused(x)
    BY <1>2 DEF SendRefused
  <1>3. CASE SendBegin(x)
    BY <1>3 DEF SendBegin
  <1>4. CASE SendOffer(x)
    <2>1. FileOffer(x) \in Packet
      <3>1. file_sz[x] \in Nat /\ "FileOffer" \in PacketTypes
        BY DEF PacketTypes
      <3> QED
        BY <1>d, <3>1, PktType, Zenon DEF FileOffer
    <2>2. toR' \in [Xfer -> Seq(Packet)]
      BY <1>4, <2>1, FrameType DEF SendOffer
    <2> QED
      BY <1>4, <2>2 DEF SendOffer, ReceiverPc, Serving
  <1>5. CASE ConnectFails(x)
    <2>1. sdb' \in [Xfer -> Row]
      BY <1>5, <1>c DEF ConnectFails
    <2> QED
      BY <1>5, <2>1 DEF ConnectFails
  <1>6. CASE NoResponse(x)
    <2>1. sdb' \in [Xfer -> Row]
      BY <1>6, <1>c DEF NoResponse
    <2> QED
      BY <1>6, <2>1 DEF NoResponse
  <1>7. CASE OfferAbandoned(x)
    <2>1. sdb' \in [Xfer -> Row]
      BY <1>7, <1>c DEF OfferAbandoned
    <2>2. toS' \in [Xfer -> Seq(Packet)]
      BY <1>7, <1>b DEF OfferAbandoned
    <2> QED
      BY <1>7, <2>1, <2>2 DEF OfferAbandoned
  <1>8. CASE StartStreaming(x)
    <2> DEFINE resume == IF Head(toS[x]).type = "FileResume"
                         THEN Head(toS[x]).off ELSE 0
    <2>1. Head(toS[x]) \in Packet
      BY <1>8 DEF StartStreaming
    <2>2. resume \in Nat
      BY <2>1 DEF Packet
    <2> HIDE DEF resume
    <2>3. /\ transferred' = [transferred EXCEPT ![x] = resume]
          /\ SetProgress(x, resume, "in_progress")
      BY <1>8 DEF StartStreaming, resume
    <2>4. sdb' \in [Xfer -> Row]
      BY <2>2, <2>3, <1>c
    <2>5. toS' \in [Xfer -> Seq(Packet)]
      BY <1>8, <1>b DEF StartStreaming
    <2>6. active_count' \in [Proc -> Int]
      <3>1. active_count[ProcOf[x]] + 1 \in Int
        BY <1>0
      <3> QED
        BY <1>8, <1>a, <3>1 DEF StartStreaming
    <2>7. transferred' \in [Xfer -> Nat]
      BY <2>2, <2>3
    <2> QED
      BY <1>8, <2>4, <2>5, <2>6, <2>7 DEF StartStreaming
  <1>9. CASE ReadChunk(x)
    <2>1. <<source[x][transferred[x] + 1]>> \in Seq(Block)
      BY <1>9 DEF ReadChunk
    <2>2. 0 \in 0..RetryLimit - 1
      BY BoundAssumption
    <2> QED
      BY <1>9, <2>1, <2>2 DEF ReadChunk
  <1>10. CASE EndOfFile(x)
    BY <1>10 DEF EndOfFile
  <1>11. CASE SendChunk(x)
    <2>1. FileChunk(x) \in Packet
      BY PktType, HashType DEF FileChunk, PacketTypes
    <2> QED
      BY <1>11, <2>1 DEF SendChunk
  <1>12. CASE ChunkSendFails(x)
    <2>1. toR' \in [Xfer -> Seq(Packet)]
      <3>1. Append(toR[x], Torn) \in Seq(Packet)
        BY TornType
      <3>2. toR' = toR \/ toR' = [toR EXCEPT ![x] = Append(@, Torn)]
        BY <1>12 DEF ChunkSendFails
      <3> QED
        BY <3>1, <3>2
    <2>2. CASE RetryLeft(x)
      <3>1. /\ attempt' = [attempt EXCEPT ![x] = @ + 1]
            /\ UNCHANGED <<pc, sdb, active_count>>
        BY <1>12, <2>2 DEF ChunkSendFails
      <3>2. attempt[x] + 1 \in 0..RetryLimit - 1
        BY <2>2, BoundAssumption DEF RetryLeft
      <3>3. attempt' \in [Xfer -> 0..RetryLimit - 1]
        BY <3>1, <3>2
      <3> QED
        BY <1>12, <2>1, <3>1, <3>3 DEF ChunkSendFails
    <2>3. CASE ~RetryLeft(x)
      <3>1. GiveUp(x) /\ UNCHANGED attempt
        BY <1>12, <2>3 DEF ChunkSendFails
      <3>2. sdb' \in [Xfer -> Row]
        BY <3>1, <1>c DEF GiveUp
      <3>3. active_count' \in [Proc -> Int]
        <4>1. active_count[ProcOf[x]] - 1 \in Int
          BY <1>0
        <4> QED
          BY <3>1, <4>1, <1>a DEF GiveUp
      <3>4. pc' \in [Xfer -> SenderPc]
        BY <3>1 DEF GiveUp
      <3> QED
        BY <1>12, <2>1, <3>1, <3>2, <3>3, <3>4 DEF ChunkSendFails
    <2> QED
      BY <2>2, <2>3
  <1>13. CASE ChunkAcked(x)
    <2>1. sdb' \in [Xfer -> Row]
      <3>1. transferred[x] + 1 \in Nat
        OBVIOUS
      <3> QED
        BY <1>13, <1>c, <3>1 DEF ChunkAcked
    <2>2. toS' \in [Xfer -> Seq(Packet)]
      BY <1>13, <1>b DEF ChunkAcked
    <2> QED
      BY <1>13, <2>1, <2>2 DEF ChunkAcked
  <1>14. CASE ChunkNotAcked(x)
    BY <1>14 DEF ChunkNotAcked
  <1>15. CASE SendComplete(x)
    <2>1. FileComplete(x) \in Packet
      <3>1. "FileComplete" \in PacketTypes /\ 0 \in Nat
        BY DEF PacketTypes
      <3> QED
        BY <1>d, <3>1, PktType, Zenon DEF FileComplete
    <2>2. toR' \in [Xfer -> Seq(Packet)]
      BY <1>15, <2>1, FrameType DEF SendComplete
    <2> QED
      BY <1>15, <2>2 DEF SendComplete
  <1>16. CASE SendFinish(x)
    <2>1. sdb' \in [Xfer -> Row]
      BY <1>16, <1>c DEF SendFinish
    <2>2. active_count' \in [Proc -> Int]
      <3>1. active_count[ProcOf[x]] - 1 \in Int
        BY <1>0
      <3> QED
        BY <1>16, <1>a, <3>1 DEF SendFinish
    <2> QED
      BY <1>16, <2>1, <2>2 DEF SendFinish
  <1>17. CASE HashFile(x)
    <2>1. Sha256(source[x]) \in Digest /\ file_sz[x] \in Nat
      BY HashType
    <2>2. sdb' \in [Xfer -> Row]
      BY <1>17, <2>1, UpsertType, CommittedType DEF HashFile
    <2>3. checksum' \in [Xfer -> Digest]
      BY <1>17, <2>1 DEF HashFile
    <2> QED
      BY <1>17, <2>2, <2>3 DEF HashFile
  <1> QED
    BY <1>1, <1>2, <1>3, <1>4, <1>5, <1>6, <1>7, <1>8, <1>9, <1>10, <1>11,
       <1>12, <1>13, <1>14, <1>15, <1>16, <1>17 DEF send_file

\* Every step of handle_conn preserves the type.
LEMMA ReceiverType ==
    ASSUME TypeOK, NEW x \in Xfer, handle_conn(x)
    PROVE  TypeOK'
  <1> USE DEF TypeOK, sndVars, netVars, rcvVars, At, ReceiverPc, Serving, Dest,
             TransferStates
  <1>0. FileName[x] \in Name
    BY XferAssumption
  <1>a. ASSUME NEW n \in Nat, NEW s \in TransferStates,
               rdb' \in Committed(rdb, update_transfer_progress(rdb, x, n, s))
        PROVE  rdb' \in [Xfer -> Row]
    BY <1>a, ProgressType
  <1>b. ASSUME NEW p \in Packet, Reply(x, p)
        PROVE  toS' \in [Xfer -> Seq(Packet)]
    <2>1. WriteFrame(toS[x], net[x], p) \in Seq(Packet)
      BY FrameType
    <2> QED
      BY <1>b, <2>1 DEF Reply
  <1>c. /\ pkt[x] \in Packet
        /\ pkt[x].off \in Nat
        /\ pkt[x].data \in Seq(Block)
        /\ pkt[x].off + Len(pkt[x].data) \in Nat
    BY DEF Packet
  <1>d. /\ file[FileName[x]] \in File
        /\ file[FileName[x]].exists \in BOOLEAN
        /\ file[FileName[x]].data \in Seq(Block)
    BY <1>0 DEF File
  <1>1. CASE ReadPacket(x)
    <2>1. Head(toR[x]) \in Packet /\ Tail(toR[x]) \in Seq(Packet)
      BY <1>1 DEF ReadPacket
    <2> QED
      BY <1>1, <2>1 DEF ReadPacket
  <1>2. CASE ReadPacketFails(x)
    BY <1>2 DEF ReadPacketFails
  <1>3. CASE handle_file_offer(x)
    <2>1. CASE rdb[x].state = "paused"
      <3>1. rdb[x].got \in Nat
        BY DEF Row
      <3>2. Control("FileResume", rdb[x].got) \in Packet
        BY <3>1, ControlType DEF PacketTypes
      <3>3. toS' \in [Xfer -> Seq(Packet)]
        BY <1>3, <1>b, <2>1, <3>2 DEF handle_file_offer
      <3> QED
        BY <1>3, <2>1, <3>3 DEF handle_file_offer
    <2>2. CASE rdb[x].state # "paused"
      <3>1. Control("FileAccept", 0) \in Packet
        BY ControlType DEF PacketTypes
      <3>2. toS' \in [Xfer -> Seq(Packet)]
        BY <1>3, <1>b, <2>2, <3>1 DEF handle_file_offer
      <3>3. rdb' \in [Xfer -> Row]
        BY <1>3, <1>c, <2>2, UpsertType, CommittedType DEF handle_file_offer
      <3> QED
        BY <1>3, <3>2, <3>3 DEF handle_file_offer
    <2> QED
      BY <2>1, <2>2
  <1>4. CASE ChunkDropped(x)
    BY <1>4 DEF ChunkDropped
  <1>5. CASE handle_file_chunk(x)
    <2>1. Opened(x) \in Seq(Block)
      BY <1>d DEF Opened
    <2>2. Opened(x) \o pkt[x].data \in Seq(Block)
      BY <1>c, <2>1
    <2>3. /\ [exists |-> TRUE, data |-> Opened(x) \o pkt[x].data] \in File
          /\ [exists |-> TRUE, data |-> Opened(x)] \in File
      BY <2>1, <2>2 DEF File
    <2>4. CASE /\ file' = [file EXCEPT ![Dest(x)] =
                      [exists |-> TRUE, data |-> Opened(x) \o pkt[x].data]]
               /\ UNCHANGED out_buf
      <3>1. file' \in [Name -> File]
        BY <1>0, <2>3, <2>4
      <3> QED
        BY <1>5, <2>4, <3>1 DEF handle_file_chunk
    <2>5. CASE /\ file' = [file EXCEPT ![Dest(x)] =
                      [exists |-> TRUE, data |-> Opened(x)]]
               /\ out_buf' = [out_buf EXCEPT ![x] = pkt[x].data]
      <3>1. file' \in [Name -> File]
        BY <1>0, <2>3, <2>5
      <3>2. out_buf' \in [Xfer -> Seq(Block)]
        BY <1>c, <2>5
      <3> QED
        BY <1>5, <3>1, <3>2 DEF handle_file_chunk
    <2> QED
      BY <1>5, <2>4, <2>5 DEF handle_file_chunk
  <1>6. CASE AckChunk(x)
    <2>1. rdb' \in [Xfer -> Row]
      BY <1>6, <1>a, <1>c DEF AckChunk
    <2>2. Control("FileChunkAck", pkt[x].off + Len(pkt[x].data)) \in Packet
      BY <1>c, ControlType DEF PacketTypes
    <2>3. toS' \in [Xfer -> Seq(Packet)]
      BY <1>6, <1>b, <2>2 DEF AckChunk
    <2> QED
      BY <1>6, <2>1, <2>3 DEF AckChunk
  <1>7. CASE CloseOut(x)
    <2>1. file[FileName[x]].data \o out_buf[x] \in Seq(Block)
      BY <1>d
    <2>2. [file[FileName[x]] EXCEPT !.data = @ \o out_buf[x]] \in File
      BY <1>d, <2>1 DEF File
    <2>3. \/ file' = [file EXCEPT ![FileName[x]] =
                        [file[FileName[x]] EXCEPT !.data = @ \o out_buf[x]]]
          \/ file' = file
      BY <1>7 DEF CloseOut
    <2>4. file' \in [Name -> File]
      BY <1>0, <2>2, <2>3
    <2>5. out_buf' \in [Xfer -> Seq(Block)]
      <3>1. <<>> \in Seq(Block)
        OBVIOUS
      <3> QED
        BY <1>7, <3>1 DEF CloseOut
    <2> QED
      BY <1>7, <2>4, <2>5 DEF CloseOut
  <1>8. CASE handle_file_complete(x)
    BY <1>8 DEF handle_file_complete
  <1>9. CASE RecordVerdict(x)
    <2>1. rec[x].total \in Nat /\ rec[x].got \in Nat
      BY DEF Row
    <2>2. rdb' \in [Xfer -> Row]
      BY <1>9, <1>a, <2>1 DEF RecordVerdict
    <2> QED
      BY <1>9, <2>2 DEF RecordVerdict
  <1>10. CASE Resync(x)
    <2>1. PICK n \in 2..Len(toR[x]) :
              toR' = [toR EXCEPT ![x] = SubSeq(toR[x], n + 1, Len(toR[x]))]
      BY <1>10 DEF Resync
    <2>2. SubSeq(toR[x], n + 1, Len(toR[x])) \in Seq(Packet)
      <3>1. toR[x] \in Seq(Packet) /\ Len(toR[x]) \in Nat
        OBVIOUS
      <3> QED
        BY <3>1
    <2> QED
      BY <1>10, <2>1, <2>2 DEF Resync
  <1> QED
    BY <1>1, <1>2, <1>3, <1>4, <1>5, <1>6, <1>7, <1>8, <1>9, <1>10 DEF handle_conn

\* Every step of the environment preserves the type.
LEMMA EnvironmentType ==
    ASSUME TypeOK, Environment
    PROVE  TypeOK'
  <1> USE DEF TypeOK, sndVars, netVars, rcvVars
  <1>1. ASSUME NEW x \in Xfer, ConnReset(x)
        PROVE  TypeOK'
    <2>1. \A q \in Seq(Packet) : \A i \in 0..Len(q) : SubSeq(q, 1, i) \in Seq(Packet)
      OBVIOUS
    <2>2. toR' \in [Xfer -> Seq(Packet)] /\ toS' \in [Xfer -> Seq(Packet)]
      BY <1>1, <2>1 DEF ConnReset
    <2> QED
      BY <1>1, <2>2 DEF ConnReset
  <1>2. ASSUME NEW x \in Xfer, Corrupt(x)
        PROVE  TypeOK'
    <2>1. PICK b \in Block : toR' = [toR EXCEPT ![x] =
                                <<[Head(@) EXCEPT !.data = <<b>>]>> \o Tail(@)]
      BY <1>2 DEF Corrupt
    <2>2. Head(toR[x]) \in Packet /\ Tail(toR[x]) \in Seq(Packet)
      BY <1>2 DEF Corrupt
    <2>3. [Head(toR[x]) EXCEPT !.data = <<b>>] \in Packet
      <3>1. <<b>> \in Seq(Block)
        OBVIOUS
      <3> QED
        BY <2>2, <3>1 DEF Packet
    <2>4. <<[Head(toR[x]) EXCEPT !.data = <<b>>]>> \o Tail(toR[x]) \in Seq(Packet)
      BY <2>2, <2>3
    <2> QED
      BY <1>2, <2>1, <2>4 DEF Corrupt
  <1>3. ASSUME NEW x \in Xfer, EditSource(x)
        PROVE  TypeOK'
    BY <1>3, ContentsAssumption DEF EditSource
  <1>4. ASSUME NEW p \in Proc, SenderCrash(p)
        PROVE  TypeOK'
    BY SMTT(30), <1>4 DEF SenderCrash, Kill, SenderPc, Returned
  <1>5. CASE ReceiverCrash
    <2>1. out_buf' \in [Xfer -> Seq(Block)]
      <3>1. <<>> \in Seq(Block)
        OBVIOUS
      <3> QED
        BY <1>5, <3>1 DEF ReceiverCrash
    <2>2. rpc' \in [Xfer -> ReceiverPc]
      BY <1>5 DEF ReceiverCrash, ReceiverPc
    <2>3. net' \in [Xfer -> {"none", "up", "reset"}]
      BY <1>5 DEF ReceiverCrash
    <2>4. up' \in BOOLEAN
      BY <1>5 DEF ReceiverCrash
    <2> QED
      BY <1>5, <2>1, <2>2, <2>3, <2>4 DEF ReceiverCrash
  <1>6. CASE ReceiverRestart
    BY <1>6 DEF ReceiverRestart
  <1>7. ASSUME NEW s \in Side, NEW x \in Xfer, CancelRead(s, x)
        PROVE  TypeOK'
    <2>1. sdb[x].got \in Nat /\ rdb[x].got \in Nat
      BY DEF Row
    <2> QED
      BY <1>7, <2>1 DEF CancelRead
  <1>8. ASSUME NEW s \in Side, NEW x \in Xfer, CancelWrite(s, x)
        PROVE  TypeOK'
    <2>1. canc[s][x].got \in Nat /\ "cancelled" \in TransferStates
      BY DEF TransferStates
    <2>2. sdb' \in [Xfer -> Row] /\ rdb' \in [Xfer -> Row]
      BY <1>8, <2>1, ProgressType DEF CancelWrite, SetProgress
    <2>3. canc' \in [Side -> [Xfer -> [on : BOOLEAN, got : Nat]]]
      BY <1>8 DEF CancelWrite, NoCancel
    <2> QED
      BY <1>8, <2>2, <2>3 DEF CancelWrite
  <1>9. ASSUME NEW s \in Side, NEW stale \in SUBSET Xfer, Clean(s, stale)
        PROVE  TypeOK'
    <2>1. sdb' \in [Xfer -> Row] /\ rdb' \in [Xfer -> Row]
      BY <1>9, StaleType, CommittedType DEF Clean
    <2> QED
      BY <1>9, <2>1 DEF Clean
  <1> QED
    BY <1>1, <1>2, <1>3, <1>4, <1>5, <1>6, <1>7, <1>8, <1>9 DEF Environment

\* Every step preserves the type.
LEMMA NextType ==
    ASSUME TypeOK, [Next]_vars
    PROVE  TypeOK'
  <1>1. CASE UNCHANGED vars
    BY <1>1 DEF TypeOK, vars, sndVars, netVars, rcvVars
  <1> QED
    BY <1>1, SenderType, ReceiverType, EnvironmentType DEF Next

\* In every reachable state the variables of the two processes, the
\* connections and the tables hold values of their types; in particular
\* send_file never exceeds SHR_RETRY_LIMIT attempts for a chunk.
THEOREM TypeCorrect == Spec => []TypeOK
  <1>1. Init => TypeOK
    BY InitType
  <1>2. TypeOK /\ [Next]_vars => TypeOK'
    BY NextType
  <1> QED
    BY <1>1, <1>2, PTL DEF Spec

----------------------------------------------------------------------------
(* CompletedIntact. The hash is compared when the connection's thread has  *)
(* read FileComplete and the row is written a step later, so the invariant *)
(* follows the checksum from the sender through the stream and the packet  *)
(* being handled to the verdict, and says that nobody touches the file     *)
(* after that.                                                             *)

\* Before the offer there is no connection and nothing is under way.
NotYetOffered(x) ==
    pc[x] \in {"idle", "hash", "connect"} => toR[x] = <<>> /\ rpc[x] = "none"

\* A FileComplete carries the hash h.
Honest(p, h) == p.type = "FileComplete" => p.sum = h

\* Every FileComplete in the stream carries the checksum of the offer.
StreamHonest(x) == \A i \in 1..Len(toR[x]) : Honest(toR[x][i], checksum[x])

\* So does the one the thread is handling.
PacketHonest(x) ==
    rpc[x] = "dispatch" /\ pkt[x].type = "FileComplete"
        => pkt[x].sum = checksum[x]

\* The received file is the one that was hashed.
SameFile(x) == sha256_file(file[FileName[x]]) = checksum[x]

\* Between the verdict and the row the file is as it was hashed.
VerdictHolds(x) == rpc[x] = "verified" /\ Alone(x) => SameFile(x)

\* The row is written when the thread is done with the file.
RowHolds(x) ==
    rdb[x].state = "completed" => rpc[x] = "closed" /\ (Alone(x) => SameFile(x))

IntactFor(x) == /\ NotYetOffered(x) /\ StreamHonest(x) /\ PacketHonest(x)
                /\ VerdictHolds(x) /\ RowHolds(x)

IntactInv == \A x \in Xfer : IntactFor(x)

\* What a step has to leave alone for a transfer to stay intact: its stream,
\* its thread's position and packet, its checksum and, if nobody shares the
\* name, its file. It may not undo the offer or complete the row.
Undisturbed(y) ==
    /\ toR'[y] = toR[y] /\ rpc'[y] = rpc[y] /\ pkt'[y] = pkt[y]
    /\ checksum'[y] = checksum[y]
    /\ Alone(y) => file'[FileName[y]] = file[FileName[y]]
    /\ pc'[y] \in {"idle", "hash", "connect"} => pc[y] \in {"idle", "hash", "connect"}
    /\ rdb'[y].state = "completed" => rdb[y].state = "completed"

\* Such a step leaves it intact.
LEMMA UndisturbedIntact ==
    ASSUME NEW y \in Xfer, IntactFor(y), Undisturbed(y)
    PROVE  IntactFor(y)'
  BY DEF IntactFor, Undisturbed, NotYetOffered, StreamHonest, PacketHonest,
         VerdictHolds, RowHolds, SameFile, Alone, sha256_file

\* Dropping stale rows completes none.
LEMMA StaleState ==
    ASSUME NEW db \in [Xfer -> Row], NEW stale, NEW y \in Xfer,
           NEW new \in Committed(db, delete_stale_transfers(db, stale))
    PROVE  new[y].state = "completed" => db[y].state = "completed"
  BY DEF Committed, delete_stale_transfers, NoRow

\* A cancelled row is not completed, whatever became of the write.
LEMMA CancelState ==
    ASSUME TypeOK, NEW s \in Side, NEW x \in Xfer, CancelWrite(s, x), NEW y \in Xfer
    PROVE  rdb'[y].state = "completed" => rdb[y].state = "completed"
  <1>1. \/ rdb' = rdb
        \/ rdb' = update_transfer_progress(rdb, x, canc[s][x].got, "cancelled")
    BY DEF CancelWrite, Committed
  <1>2. rdb \in [Xfer -> Row]
    BY DEF TypeOK
  <1>3. update_transfer_progress(rdb, x, canc[s][x].got, "cancelled")[y].state
            \in {rdb[y].state, "cancelled"}
    BY <1>2 DEF update_transfer_progress
  <1> QED
    BY <1>1, <1>3

\* What holds of every frame of a stream holds of what is read from it, of
\* what is left, and of the stream with one more such frame.
LEMMA StreamSteps ==
    ASSUME NEW q \in Seq(Packet), NEW h, \A i \in 1..Len(q) : Honest(q[i], h)
    PROVE  /\ q # <<>> => /\ Honest(Head(q), h)
                          /\ \A i \in 1..Len(Tail(q)) : Honest(Tail(q)[i], h)
           /\ \A n \in 0..Len(q) : \A i \in 1..Len(SubSeq(q, 1, n)) :
                                        Honest(SubSeq(q, 1, n)[i], h)
           /\ \A n \in 0..Len(q) : \A i \in 1..Len(SubSeq(q, n + 1, Len(q))) :
                                        Honest(SubSeq(q, n + 1, Len(q))[i], h)
           /\ \A p \in Packet : Honest(p, h) =>
                \A i \in 1..Len(Append(q, p)) : Honest(Append(q, p)[i], h)
  <1>1. q # <<>> => /\ Honest(Head(q), h)
                    /\ \A i \in 1..Len(Tail(q)) : Honest(Tail(q)[i], h)
    <2> SUFFICES ASSUME q # <<>>
                 PROVE  /\ Honest(Head(q), h)
                        /\ \A i \in 1..Len(Tail(q)) : Honest(Tail(q)[i], h)
      OBVIOUS
    <2>1. /\ Len(q) \in Nat /\ 1 \in 1..Len(q) /\ Head(q) = q[1]
          /\ Len(Tail(q)) = Len(q) - 1
          /\ \A i \in 1..Len(Tail(q)) : Tail(q)[i] = q[i + 1] /\ i + 1 \in 1..Len(q)
      OBVIOUS
    <2> QED
      BY <2>1
  <1>2. \A n \in 0..Len(q) : \A i \in 1..Len(SubSeq(q, 1, n)) :
                               Honest(SubSeq(q, 1, n)[i], h)
    <2>1. \A n \in 0..Len(q) : \A i \in 1..Len(SubSeq(q, 1, n)) :
                SubSeq(q, 1, n)[i] = q[i] /\ i \in 1..Len(q)
      OBVIOUS
    <2> QED
      BY <2>1
  <1>3. ASSUME NEW p \in Packet, Honest(p, h)
        PROVE  \A i \in 1..Len(Append(q, p)) : Honest(Append(q, p)[i], h)
    <2>1. /\ Len(Append(q, p)) = Len(q) + 1 /\ Append(q, p)[Len(q) + 1] = p
          /\ \A i \in 1..Len(q) : Append(q, p)[i] = q[i]
      OBVIOUS
    <2> QED
      BY <1>3, <2>1
  <1>4. ASSUME NEW n \in 0..Len(q), NEW i \in 1..Len(SubSeq(q, n + 1, Len(q)))
        PROVE  Honest(SubSeq(q, n + 1, Len(q))[i], h)
    <2>1. SubSeq(q, n + 1, Len(q))[i] = q[i + n] /\ i + n \in 1..Len(q)
      OBVIOUS
    <2> QED
      BY <2>1
  <1> QED
    BY <1>1, <1>2, <1>3, <1>4

\* The sender keeps the receiver honest.
LEMMA SenderIntact ==
    ASSUME TypeOK, IntactInv, NEW x \in Xfer, send_file(x)
    PROVE  IntactInv'
  <1> USE DEF TypeOK, sndVars, netVars, rcvVars, Go
  <1> SUFFICES ASSUME NEW y \in Xfer PROVE IntactFor(y)'
    BY DEF IntactInv
  <1>0. IntactFor(y) /\ IntactFor(x)
    BY DEF IntactInv
  <1>1. CASE BrokenPipe(x)
    <2>1. Undisturbed(y)
      BY <1>1 DEF BrokenPipe, Kill, Undisturbed
    <2> QED
      BY <1>0, <2>1, UndisturbedIntact
  <1>2. CASE HashFile(x)
    <2>1. CASE y = x
      <3>1. /\ toR[x] = <<>> /\ rpc[x] = "none" /\ rdb[x].state # "completed"
        BY <1>0, <1>2 DEF HashFile, IntactFor, NotYetOffered, RowHolds
      <3> QED
        BY <1>2, <2>1, <3>1 DEF HashFile, IntactFor, NotYetOffered, StreamHonest,
           PacketHonest, VerdictHolds, RowHolds
    <2>2. CASE y # x
      <3>1. Undisturbed(y)
        BY <1>2, <2>2 DEF HashFile, Undisturbed
      <3> QED
        BY <1>0, <3>1, UndisturbedIntact
    <2> QED
      BY <2>1, <2>2
  <1>3. CASE SendOffer(x)
    <2>1. CASE y = x
      <3>1. /\ toR[x] = <<>> /\ rdb[x].state # "completed"
        BY <1>0, <1>3 DEF SendOffer, IntactFor, NotYetOffered, RowHolds
      <3>2. toR'[x] \in {<<>>, Append(<<>>, FileOffer(x)), Append(<<>>, Torn)}
        BY <1>3, <3>1 DEF SendOffer, SendUnchecked, WriteFrame
      <3>3. Honest(FileOffer(x), checksum[x]) /\ Honest(Torn, checksum[x])
        BY DEF Honest, FileOffer, Torn, Control, Pkt
      <3>4. FileOffer(x) \in Packet /\ Torn \in Packet
        <4>1. file_sz[x] \in Nat /\ "FileOffer" \in PacketTypes
              /\ <<>> \in Seq(Block) /\ checksum[x] \in Digest
          BY DEF PacketTypes
        <4> QED
          BY <4>1, PktType, TornType, Zenon DEF FileOffer
      <3>5. StreamHonest(x)'
        <4>1. <<>> \in Seq(Packet)
              /\ \A i \in 1..Len(<<>>) : Honest(<<>>[i], checksum[x])
          OBVIOUS
        <4>2. \A q \in {Append(<<>>, FileOffer(x)), Append(<<>>, Torn)} :
                \A i \in 1..Len(q) : Honest(q[i], checksum[x])
          BY <3>3, <3>4, <4>1, StreamSteps
        <4>3. checksum' = checksum
          BY <1>3 DEF SendOffer
        <4> QED
          BY <3>2, <4>1, <4>2, <4>3 DEF StreamHonest
      <3> QED
        BY <1>3, <2>1, <3>1, <3>5 DEF SendOffer, IntactFor, NotYetOffered,
           PacketHonest, VerdictHolds, RowHolds
    <2>2. CASE y # x
      <3>1. Undisturbed(y)
        BY <1>3, <2>2 DEF SendOffer, Undisturbed
      <3> QED
        BY <1>0, <3>1, UndisturbedIntact
    <2> QED
      BY <2>1, <2>2
  <1>a. ASSUME pc[x] \notin {"idle", "hash", "connect"}, pc'[x] \notin {"idle", "hash", "connect"},
               NEW p \in Packet, Honest(p, checksum[x]),
               toR' = toR \/ toR' = [toR EXCEPT ![x] = Append(@, p)],
               UNCHANGED <<checksum, rcvVars>>,
               \A z \in Xfer \ {x} : pc'[z] = pc[z]
        PROVE  IntactFor(y)'
    <2>1. CASE y = x
      <3>1. /\ \A i \in 1..Len(toR[x]) : Honest(toR[x][i], checksum[x])
            /\ toR[x] \in Seq(Packet)
        BY <1>0 DEF IntactFor, StreamHonest
      <3>2. \A i \in 1..Len(Append(toR[x], p)) :
                Honest(Append(toR[x], p)[i], checksum[x])
        BY <1>a, <3>1, StreamSteps
      <3>3. toR'[x] \in {toR[x], Append(toR[x], p)} /\ checksum'[x] = checksum[x]
        BY <1>a
      <3>4. StreamHonest(x)'
        BY <3>1, <3>2, <3>3 DEF StreamHonest
      <3> QED
        BY <1>0, <1>a, <2>1, <3>4 DEF IntactFor, NotYetOffered, PacketHonest,
           VerdictHolds, RowHolds, SameFile, Alone, sha256_file
    <2>2. CASE y # x
      <3>1. Undisturbed(y)
        BY <1>a, <2>2 DEF Undisturbed
      <3> QED
        BY <1>0, <3>1, UndisturbedIntact
    <2> QED
      BY <2>1, <2>2
  <1>b. Honest(Torn, checksum[x])
    BY DEF Honest, Torn, Control, Pkt
  <1>4. CASE SendChunk(x)
    <2>1. Honest(FileChunk(x), checksum[x])
      BY DEF Honest, FileChunk, Pkt
    <2>2. FileChunk(x) \in Packet
      BY PktType, HashType DEF FileChunk, PacketTypes
    <2> QED
      BY <1>4, <1>a, <2>1, <2>2 DEF SendChunk
  <1>5. CASE ChunkSendFails(x)
    BY ZenonT(30), <1>5, <1>a, <1>b, TornType DEF ChunkSendFails, GiveUp
  <1>6. CASE SendComplete(x)
    <2>1. Honest(FileComplete(x), checksum[x])
      BY DEF Honest, FileComplete, Pkt
    <2>2. \/ toR' = toR
          \/ toR' = [toR EXCEPT ![x] = Append(@, Torn)]
          \/ toR' = [toR EXCEPT ![x] = Append(@, FileComplete(x))]
      BY ZenonT(30), <1>6 DEF SendComplete, SendUnchecked, WriteFrame
    <2>3. FileComplete(x) \in Packet
      <3>1. "FileComplete" \in PacketTypes /\ 0 \in Nat /\ <<>> \in Seq(Block)
            /\ checksum[x] \in Digest
        BY DEF PacketTypes
      <3> QED
        BY <3>1, PktType, Zenon DEF FileComplete
    <2> QED
      BY <1>6, <1>a, <1>b, <2>1, <2>2, <2>3, TornType DEF SendComplete
  <1>7. CASE \/ SendRefused(x)    \/ ConnectFails(x)  \/ NoResponse(x)
             \/ OfferAbandoned(x) \/ StartStreaming(x) \/ ReadChunk(x)
             \/ EndOfFile(x)      \/ ChunkAcked(x)    \/ ChunkNotAcked(x)
             \/ SendFinish(x)
    <2>1. /\ UNCHANGED <<toR, checksum, rcvVars>>
          /\ \E l \in SenderPc \ {"idle", "hash", "connect"} :
                 pc' = [pc EXCEPT ![x] = l]
      BY <1>7 DEF SendRefused, ConnectFails, NoResponse, OfferAbandoned,
         StartStreaming, ReadChunk, EndOfFile, ChunkAcked, ChunkNotAcked,
         SendFinish, SenderPc, Streaming, Returned
    <2>2. Undisturbed(y)
      BY <2>1 DEF Undisturbed
    <2> QED
      BY <1>0, <2>2, UndisturbedIntact
  <1>8. CASE SendBegin(x)
    <2>1. Undisturbed(y)
      BY <1>8 DEF SendBegin, Undisturbed
    <2> QED
      BY <1>0, <2>1, UndisturbedIntact
  <1> QED
    BY <1>1, <1>2, <1>3, <1>4, <1>5, <1>6, <1>7, <1>8 DEF send_file

\* The receiver compares before it records, and then leaves the file alone.
LEMMA ReceiverIntact ==
    ASSUME TypeOK, IntactInv, NEW x \in Xfer, handle_conn(x)
    PROVE  IntactInv'
  <1> USE DEF TypeOK, sndVars, netVars, rcvVars, At, Dest
  <1> SUFFICES ASSUME NEW y \in Xfer PROVE IntactFor(y)'
    BY DEF IntactInv
  <1>0. IntactFor(y) /\ IntactFor(x)
    BY DEF IntactInv
  <1>1. CASE y # x
    <2>1. \A n, s : rdb' \in Committed(rdb, update_transfer_progress(rdb, x, n, s))
                    => rdb'[y] = rdb[y]
      BY <1>1 DEF Committed, update_transfer_progress
    <2>2. \A n : rdb' \in Committed(rdb, upsert_transfer(rdb, x, n)) => rdb'[y] = rdb[y]
      BY <1>1 DEF Committed, upsert_transfer
    <2>3. rdb'[y] = rdb[y]
      BY <2>1, <2>2 DEF handle_conn, ReadPacket, ReadPacketFails, Resync, handle_file_offer,
         ChunkDropped, handle_file_chunk, AckChunk, CloseOut, handle_file_complete,
         RecordVerdict
    <2>4. Alone(y) => file'[FileName[y]] = file[FileName[y]]
      BY <1>1, XferAssumption DEF Alone, handle_conn, ReadPacket, ReadPacketFails, Resync,
         handle_file_offer, ChunkDropped, handle_file_chunk, AckChunk, CloseOut,
         handle_file_complete, RecordVerdict
    <2>5. /\ toR'[y] = toR[y] /\ rpc'[y] = rpc[y] /\ pkt'[y] = pkt[y]
          /\ UNCHANGED <<checksum, pc>>
      BY <1>1 DEF handle_conn, ReadPacket, ReadPacketFails, Resync,
         handle_file_offer, ChunkDropped, handle_file_chunk, AckChunk, CloseOut,
         handle_file_complete, RecordVerdict
    <2>6. Undisturbed(y)
      BY <2>3, <2>4, <2>5 DEF Undisturbed
    <2> QED
      BY <1>0, <2>6, UndisturbedIntact
  <1>2. CASE y = x
    <2> USE <1>2
    <2> USE DEF IntactFor, NotYetOffered, PacketHonest, VerdictHolds, RowHolds
    <2>a. ASSUME UNCHANGED <<toR, checksum>> PROVE StreamHonest(x)'
      BY <1>0, <2>a DEF StreamHonest
    <2>1. CASE ReadPacket(x)
      <3>1. /\ \A i \in 1..Len(toR[x]) : Honest(toR[x][i], checksum[x])
            /\ toR[x] \in Seq(Packet) /\ toR[x] # <<>>
            /\ toR'[x] = Tail(toR[x]) /\ pkt'[x] = Head(toR[x])
            /\ checksum'[x] = checksum[x]
        BY <1>0, <2>1 DEF StreamHonest, ReadPacket
      <3>2. /\ Honest(pkt'[x], checksum'[x])
            /\ \A i \in 1..Len(toR'[x]) : Honest(toR'[x][i], checksum'[x])
        BY <3>1, StreamSteps
      <3>3. StreamHonest(x)'
        BY <3>2 DEF StreamHonest
      <3> QED
        BY <1>0, <2>1, <3>2, <3>3 DEF ReadPacket, Honest
    <2>2. CASE ReadPacketFails(x)
      BY <1>0, <2>2, <2>a DEF ReadPacketFails
    <2>3. CASE handle_file_offer(x)
      <3>1. rdb'[x].state # "completed"
        BY <1>0, <2>3 DEF handle_file_offer, Committed, upsert_transfer
      <3> QED
        BY <1>0, <2>3, <2>a, <3>1 DEF handle_file_offer
    <2>4. CASE ChunkDropped(x)
      BY <1>0, <2>4, <2>a DEF ChunkDropped
    <2>5. CASE handle_file_chunk(x)
      BY <1>0, <2>5, <2>a DEF handle_file_chunk
    <2>6. CASE AckChunk(x)
      <3>1. rdb'[x].state # "completed"
        BY <1>0, <2>6 DEF AckChunk, Committed, update_transfer_progress
      <3> QED
        BY <1>0, <2>6, <2>a, <3>1 DEF AckChunk
    <2>7. CASE CloseOut(x)
      BY <1>0, <2>7, <2>a DEF CloseOut
    <2>8. CASE handle_file_complete(x)
      <3>1. rpc'[x] = "verified" => SameFile(x)'
        BY <1>0, <2>8 DEF handle_file_complete, Intact, SameFile, sha256_file
      <3> QED
        BY <1>0, <2>8, <2>a, <3>1 DEF handle_file_complete
    <2>9. CASE RecordVerdict(x)
      <3>1. rdb'[x].state = "completed" => rpc[x] = "verified"
        BY <1>0, <2>9 DEF RecordVerdict, Committed, update_transfer_progress
      <3>2. rdb'[x].state = "completed" /\ Alone(x)' => SameFile(x)'
        BY <1>0, <2>9, <3>1 DEF RecordVerdict, SameFile, Alone, sha256_file
      <3> QED
        BY <1>0, <2>9, <2>a, <3>2 DEF RecordVerdict
    <2>10. CASE Resync(x)
      <3>1. PICK n \in 2..Len(toR[x]) :
                toR' = [toR EXCEPT ![x] = SubSeq(toR[x], n + 1, Len(toR[x]))]
        BY <2>10 DEF Resync
      <3>2. toR[x] \in Seq(Packet) /\ Len(toR[x]) \in Nat
        OBVIOUS
      <3>3. n \in 0..Len(toR[x])
        BY <3>1, <3>2
      <3>4. toR'[x] = SubSeq(toR[x], n + 1, Len(toR[x])) /\ checksum'[x] = checksum[x]
        BY <2>10, <3>1 DEF Resync
      <3>5. \A i \in 1..Len(toR[x]) : Honest(toR[x][i], checksum[x])
        BY <1>0 DEF StreamHonest
      <3>6. \A i \in 1..Len(toR'[x]) : Honest(toR'[x][i], checksum'[x])
        BY <3>2, <3>3, <3>4, <3>5, StreamSteps
      <3>7. StreamHonest(x)'
        BY <3>6 DEF StreamHonest
      <3> QED
        BY <1>0, <2>10, <3>1, <3>7 DEF Resync
    <2> QED
      BY <2>1, <2>2, <2>3, <2>4, <2>5, <2>6, <2>7, <2>8, <2>9, <2>10 DEF handle_conn
  <1> QED
    BY <1>1, <1>2

\* No fault of the environment completes a row or touches a file.
LEMMA EnvironmentIntact ==
    ASSUME TypeOK, IntactInv, Environment
    PROVE  IntactInv'
  <1> USE DEF TypeOK, sndVars, netVars, rcvVars
  <1> SUFFICES ASSUME NEW y \in Xfer PROVE IntactFor(y)'
    BY DEF IntactInv
  <1>0. IntactFor(y)
    BY DEF IntactInv
  <1>a. ASSUME Undisturbed(y) PROVE IntactFor(y)'
    BY <1>0, <1>a, UndisturbedIntact
  <1>b. ASSUME toR'[y] = <<>> \/ pc[y] \notin {"idle", "hash", "connect"},
               StreamHonest(y)', UNCHANGED <<pc, checksum, rcvVars>>
        PROVE  IntactFor(y)'
    BY <1>0, <1>b DEF IntactFor, NotYetOffered, PacketHonest, VerdictHolds, RowHolds,
       SameFile, Alone, sha256_file
  <1>1. ASSUME NEW x \in Xfer, ConnReset(x)
        PROVE  IntactFor(y)'
    <2>1. CASE y = x
      <3>1. /\ \A i \in 1..Len(toR[x]) : Honest(toR[x][i], checksum[x])
            /\ toR[x] \in Seq(Packet)
        BY <1>0, <2>1 DEF IntactFor, StreamHonest
      <3>2. PICK n \in 0..Len(toR[x]) : toR' = [toR EXCEPT ![x] = SubSeq(@, 1, n)]
        BY <1>1 DEF ConnReset
      <3>3. toR'[x] = SubSeq(toR[x], 1, n) /\ checksum' = checksum
        BY <1>1, <3>2 DEF ConnReset
      <3>4. StreamHonest(x)'
        BY <3>1, <3>3, StreamSteps DEF StreamHonest
      <3>5. toR[x] = <<>> => toR'[x] = <<>>
        BY <3>1, <3>3
      <3> QED
        BY <1>0, <1>1, <1>b, <2>1, <3>4, <3>5 DEF ConnReset, IntactFor, NotYetOffered
    <2>2. CASE y # x
      BY <1>1, <1>a, <2>2 DEF ConnReset, Undisturbed
    <2> QED
      BY <2>1, <2>2
  <1>2. ASSUME NEW x \in Xfer, Corrupt(x)
        PROVE  IntactFor(y)'
    <2>1. CASE y = x
      <3>1. /\ \A i \in 1..Len(toR[x]) : Honest(toR[x][i], checksum[x])
            /\ toR[x] \in Seq(Packet) /\ toR[x] # <<>>
            /\ Head(toR[x]).type = "FileChunk"
        BY <1>0, <1>2, <2>1 DEF IntactFor, StreamHonest, Corrupt
      <3>2. PICK b \in Block : toR' = [toR EXCEPT ![x] =
                                <<[Head(@) EXCEPT !.data = <<b>>]>> \o Tail(@)]
        BY <1>2 DEF Corrupt
      <3> DEFINE p == [Head(toR[x]) EXCEPT !.data = <<b>>]
      <3>3. Head(toR[x]) \in Packet /\ Tail(toR[x]) \in Seq(Packet)
        BY SMTT(30), <3>1
      <3>4. p.type # "FileComplete"
        BY <3>1, <3>3 DEF Packet
      <3> DEFINE t == Tail(toR[x])
                 q == <<p>> \o t
      <3>5. toR'[x] = q /\ checksum' = checksum
        BY <1>2, <3>2 DEF Corrupt
      <3>6. \A i \in 1..Len(t) : Honest(t[i], checksum[x])
        BY <3>1, StreamSteps
      <3>7. p \in Packet /\ t \in Seq(Packet)
        <4>1. <<b>> \in Seq(Block)
          OBVIOUS
        <4> QED
          BY <3>3, <4>1 DEF Packet
      <3>8. Honest(p, checksum[x])
        BY <3>4 DEF Honest
      <3> HIDE DEF p, t
      <3>9. /\ Len(t) \in Nat /\ Len(q) = Len(t) + 1 /\ q[1] = p
            /\ \A i \in 2..Len(q) : q[i] = t[i - 1] /\ i - 1 \in 1..Len(t)
        BY SMTT(30), <3>7
      <3> HIDE DEF q
      <3>10. StreamHonest(x)'
        <4>1. \A i \in 1..Len(q) : Honest(q[i], checksum[x])
          <5> SUFFICES ASSUME NEW i \in 1..Len(q) PROVE Honest(q[i], checksum[x])
            OBVIOUS
          <5>1. CASE i = 1
            BY <3>8, <3>9, <5>1
          <5>2. CASE i # 1
            <6>1. i \in 2..Len(q)
              BY <5>2, <3>9
            <6> QED
              BY <3>6, <3>9, <6>1
          <5> QED
            BY <5>1, <5>2
        <4> QED
          BY <3>5, <4>1 DEF StreamHonest
      <3> QED
        BY <1>0, <1>2, <1>b, <2>1, <3>10 DEF Corrupt, IntactFor, NotYetOffered
    <2>2. CASE y # x
      BY <1>2, <1>a, <2>2 DEF Corrupt, Undisturbed
    <2> QED
      BY <2>1, <2>2
  <1>3. ASSUME NEW x \in Xfer, EditSource(x)
        PROVE  IntactFor(y)'
    BY <1>3, <1>a DEF EditSource, Undisturbed
  <1>4. ASSUME NEW p \in Proc, SenderCrash(p)
        PROVE  IntactFor(y)'
    BY <1>4, <1>a DEF SenderCrash, Kill, Undisturbed
  <1>5. CASE ReceiverCrash
    <2>1. /\ rpc'[y] = rpc[y] \/ (rpc[y] # "none" /\ rpc'[y] = "closed")
          /\ UNCHANGED <<pc, checksum, toR, pkt, file, rdb>>
      BY <1>5 DEF ReceiverCrash, Serving
    <2> QED
      BY <1>0, <2>1 DEF IntactFor, NotYetOffered, StreamHonest, PacketHonest,
         VerdictHolds, RowHolds, SameFile, Alone, sha256_file
  <1>6. CASE ReceiverRestart
    BY <1>6, <1>a DEF ReceiverRestart, Undisturbed
  <1>7. ASSUME NEW s \in Side, NEW x \in Xfer, CancelRead(s, x)
        PROVE  IntactFor(y)'
    BY <1>7, <1>a DEF CancelRead, Undisturbed
  <1>8. ASSUME NEW s \in Side, NEW x \in Xfer, CancelWrite(s, x)
        PROVE  IntactFor(y)'
    <2>1. rdb'[y].state = "completed" => rdb[y].state = "completed"
      BY <1>8, CancelState
    <2> QED
      BY <1>8, <1>a, <2>1 DEF CancelWrite, Undisturbed
  <1>9. ASSUME NEW s \in Side, NEW stale \in SUBSET Xfer, Clean(s, stale)
        PROVE  IntactFor(y)'
    <2>1. rdb'[y].state = "completed" => rdb[y].state = "completed"
      BY <1>9, StaleState DEF Clean
    <2> QED
      BY <1>9, <1>a, <2>1 DEF Clean, Undisturbed
  <1> QED
    BY <1>1, <1>2, <1>3, <1>4, <1>5, <1>6, <1>7, <1>8, <1>9 DEF Environment

LEMMA InitIntact == Init => IntactInv
  BY DEF Init, IntactInv, IntactFor, NotYetOffered, StreamHonest, PacketHonest,
         VerdictHolds, RowHolds, NoRow

LEMMA NextIntact == TypeOK /\ IntactInv /\ [Next]_vars => IntactInv'
  <1> SUFFICES ASSUME TypeOK, IntactInv, [Next]_vars PROVE IntactInv'
    OBVIOUS
  <1>1. CASE UNCHANGED vars
    BY <1>1 DEF vars, sndVars, netVars, rcvVars, IntactInv, IntactFor,
       NotYetOffered, StreamHonest, PacketHonest, VerdictHolds, RowHolds,
       SameFile, Alone, sha256_file
  <1> QED
    BY <1>1, SenderIntact, ReceiverIntact, EnvironmentIntact DEF Next

\* Whatever is lost, torn, corrupted, edited, cancelled or crashed, a row that
\* the receiver marks "completed" belongs to a file with the contents the
\* sender hashed before the offer (handle_file_complete).
THEOREM CompletedTransfersAreIntact == Spec => []CompletedIntact
  <1>1. IntactInv => CompletedIntact
    BY DEF IntactInv, IntactFor, RowHolds, SameFile, CompletedIntact
  <1> QED
    BY <1>1, InitIntact, NextIntact, TypeCorrect, PTL DEF Spec

----------------------------------------------------------------------------
(* FailureIsHonest. Only FileComplete makes the receiver write "completed", *)
(* and a send that fails never sends it.                                    *)

\* Where a send is, or may have been, when it has sent FileComplete.
Done == {"finish", "completed", "crashed"}

\* Every packet but FileComplete.
Incomplete == {p \in Packet : p.type # "FileComplete"}

HonestFor(x) ==
    pc[x] \notin Done => /\ toR[x] \in Seq(Incomplete)
                         /\ rpc[x] = "dispatch" => pkt[x] \in Incomplete
                         /\ rpc[x] # "verified"
                         /\ rdb[x].state # "completed"

HonestInv == \A x \in Xfer : HonestFor(x)

\* A step that leaves the stream and the thread of a transfer alone and does
\* not complete its row keeps it honest.
LEMMA UnmovedHonest ==
    ASSUME NEW y \in Xfer, HonestFor(y), toR'[y] = toR[y], rpc'[y] = rpc[y],
           pkt'[y] = pkt[y], pc'[y] \notin Done => pc[y] \notin Done,
           rdb'[y].state = "completed" => rdb[y].state = "completed"
    PROVE  HonestFor(y)'
  BY DEF HonestFor

\* send_file sends FileComplete only when it can no longer fail.
LEMMA SenderHonest ==
    ASSUME TypeOK, HonestInv, NEW x \in Xfer, send_file(x)
    PROVE  HonestInv'
  <1> USE DEF TypeOK, sndVars, netVars, rcvVars, Go
  <1> SUFFICES ASSUME NEW y \in Xfer PROVE HonestFor(y)'
    BY DEF HonestInv
  <1>0. HonestFor(y) /\ HonestFor(x)
    BY DEF HonestInv
  <1>a. ASSUME NEW p \in Incomplete, pc[x] \notin Done,
               toR' = toR \/ toR' = [toR EXCEPT ![x] = Append(@, p)],
               rpc'[x] = rpc[x] \/ rpc'[x] = "read",
               UNCHANGED <<pkt, rdb>>,
               \A z \in Xfer \ {x} : pc'[z] = pc[z] /\ rpc'[z] = rpc[z]
        PROVE  HonestFor(y)'
    <2>1. CASE y = x
      <3>1. toR'[x] \in {toR[x], Append(toR[x], p)}
        BY <1>a
      <3>2. toR[x] \in Seq(Incomplete) => toR'[x] \in Seq(Incomplete)
        <4>1. \A q \in Seq(Incomplete) : Append(q, p) \in Seq(Incomplete)
          OBVIOUS
        <4> QED
          BY <3>1, <4>1
      <3> QED
        BY <1>0, <1>a, <2>1, <3>2 DEF HonestFor
    <2>2. CASE y # x
      BY <1>0, <1>a, <2>2, UnmovedHonest
    <2> QED
      BY <2>1, <2>2
  <1>b. Torn \in Incomplete
    <2>1. Torn.type # "FileComplete"
      BY DEF Torn, Control, Pkt
    <2> QED
      BY <2>1, TornType DEF Incomplete
  <1>1. CASE BrokenPipe(x)
    BY <1>0, <1>1 DEF BrokenPipe, Kill, HonestFor, Done
  <1>2. CASE SendOffer(x)
    <2>1. FileOffer(x) \in Incomplete
      <3>1. file_sz[x] \in Nat /\ "FileOffer" \in PacketTypes
            /\ <<>> \in Seq(Block) /\ checksum[x] \in Digest
        BY DEF PacketTypes
      <3>2. FileOffer(x) \in Packet
        BY <3>1, PktType, Zenon DEF FileOffer
      <3>3. FileOffer(x).type # "FileComplete"
        BY DEF FileOffer, Pkt
      <3> QED
        BY <3>2, <3>3 DEF Incomplete
    <2>2. \/ toR' = toR
          \/ toR' = [toR EXCEPT ![x] = Append(@, Torn)]
          \/ toR' = [toR EXCEPT ![x] = Append(@, FileOffer(x))]
      BY <1>2 DEF SendOffer, SendUnchecked, WriteFrame
    <2> QED
      BY <1>2, <1>a, <1>b, <2>1, <2>2 DEF SendOffer, Done
  <1>3. CASE SendChunk(x)
    <2>1. FileChunk(x) \in Packet
      BY PktType, HashType DEF FileChunk, PacketTypes
    <2>2. FileChunk(x).type # "FileComplete"
      BY DEF FileChunk, Pkt
    <2>3. FileChunk(x) \in Incomplete
      BY <2>1, <2>2 DEF Incomplete
    <2> QED
      BY <1>3, <1>a, <2>3 DEF SendChunk, Done
  <1>4. CASE ChunkSendFails(x)
    BY <1>4, <1>a, <1>b DEF ChunkSendFails, GiveUp, Done
  <1>5. CASE SendComplete(x)
    <2>1. pc'[x] \in Done
      BY <1>5 DEF SendComplete, Done
    <2> QED
      BY <1>0, <1>5, <2>1 DEF SendComplete, HonestFor
  <1>6. CASE \/ SendRefused(x)    \/ SendBegin(x)      \/ ConnectFails(x)
             \/ NoResponse(x)     \/ OfferAbandoned(x) \/ StartStreaming(x)
             \/ ReadChunk(x)      \/ EndOfFile(x)      \/ ChunkAcked(x)
             \/ ChunkNotAcked(x)  \/ HashFile(x)
    <2>1. /\ UNCHANGED <<toR, rcvVars>> /\ pc[x] \notin Done
          /\ \A z \in Xfer \ {x} : pc'[z] = pc[z]
      BY <1>6 DEF SendRefused, SendBegin, ConnectFails, NoResponse, OfferAbandoned,
         StartStreaming, ReadChunk, EndOfFile, ChunkAcked, ChunkNotAcked, HashFile, Done
    <2> QED
      BY <1>0, <2>1, UnmovedHonest
  <1>7. CASE SendFinish(x)
    BY <1>0, <1>7, UnmovedHonest DEF SendFinish, Done
  <1> QED
    BY <1>1, <1>2, <1>3, <1>4, <1>5, <1>6, <1>7 DEF send_file

\* handle_conn completes a row only for a FileComplete it has read.
LEMMA ReceiverHonest ==
    ASSUME TypeOK, HonestInv, NEW x \in Xfer, handle_conn(x)
    PROVE  HonestInv'
  <1> USE DEF TypeOK, sndVars, netVars, rcvVars, At
  <1> SUFFICES ASSUME NEW y \in Xfer PROVE HonestFor(y)'
    BY DEF HonestInv
  <1>0. HonestFor(y) /\ HonestFor(x)
    BY DEF HonestInv
  <1>1. CASE y # x
    <2>1. rdb'[y] = rdb[y]
      BY SMTT(30), <1>1 DEF handle_conn, ReadPacket, ReadPacketFails, Resync, handle_file_offer,
         ChunkDropped, handle_file_chunk, AckChunk, CloseOut, handle_file_complete,
         RecordVerdict, Committed, update_transfer_progress, upsert_transfer
    <2>2. /\ toR'[y] = toR[y] /\ rpc'[y] = rpc[y] /\ pkt'[y] = pkt[y]
          /\ UNCHANGED pc
      BY <1>1 DEF handle_conn, ReadPacket, ReadPacketFails, Resync,
         handle_file_offer, ChunkDropped, handle_file_chunk, AckChunk, CloseOut,
         handle_file_complete, RecordVerdict
    <2> QED
      BY <1>0, <2>1, <2>2, UnmovedHonest
  <1>2. CASE y = x /\ pc[x] \in Done
    <2>1. UNCHANGED pc
      BY DEF handle_conn, ReadPacket, ReadPacketFails, Resync,
         handle_file_offer, ChunkDropped, handle_file_chunk, AckChunk, CloseOut,
         handle_file_complete, RecordVerdict
    <2> QED
      BY <1>2, <2>1 DEF HonestFor
  <1>3. CASE y = x /\ pc[x] \notin Done
    <2>0. /\ toR[x] \in Seq(Incomplete) /\ rpc[x] # "verified"
          /\ rpc[x] = "dispatch" => pkt[x].type # "FileComplete"
          /\ rdb[x].state # "completed"
      BY <1>0, <1>3 DEF HonestFor, Incomplete
    <2>a. ASSUME toR' = toR, rpc'[x] \notin {"dispatch", "verified"},
                 rdb'[x].state # "completed"
          PROVE  HonestFor(y)'
      BY <1>3, <2>0, <2>a DEF HonestFor
    <2>1. CASE ReadPacket(x)
      <3>1. Head(toR[x]) \in Incomplete /\ Tail(toR[x]) \in Seq(Incomplete)
        BY SMTT(30), <2>0, <2>1 DEF ReadPacket
      <3> QED
        BY <1>3, <2>0, <2>1, <3>1 DEF ReadPacket, HonestFor
    <2>2. CASE \/ ReadPacketFails(x)   \/ handle_file_offer(x) \/ ChunkDropped(x)
               \/ handle_file_chunk(x) \/ AckChunk(x)          \/ CloseOut(x)
               \/ RecordVerdict(x)
      <3>1. toR' = toR /\ rpc'[x] \notin {"dispatch", "verified"}
        BY <2>2 DEF ReadPacketFails, handle_file_offer, ChunkDropped,
           handle_file_chunk, AckChunk, CloseOut, RecordVerdict
      <3>2. rdb'[x].state # "completed"
        BY SMTT(30), <2>0, <2>2 DEF ReadPacketFails, handle_file_offer, ChunkDropped,
           handle_file_chunk, AckChunk, CloseOut, RecordVerdict, Committed,
           update_transfer_progress, upsert_transfer
      <3> QED
        BY <3>1, <3>2, <2>a
    <2>3. CASE handle_file_complete(x)
      BY <2>0, <2>3 DEF handle_file_complete
    <2>4. CASE Resync(x)
      <3>1. PICK n \in 2..Len(toR[x]) :
                toR' = [toR EXCEPT ![x] = SubSeq(toR[x], n + 1, Len(toR[x]))]
        BY <2>4 DEF Resync
      <3>2. SubSeq(toR[x], n + 1, Len(toR[x])) \in Seq(Incomplete)
        <4>1. Len(toR[x]) \in Nat
          BY <2>0
        <4> QED
          BY SMTT(30), <2>0, <4>1
      <3> QED
        BY <1>3, <2>0, <2>4, <3>1, <3>2 DEF Resync, HonestFor
    <2> QED
      BY <2>1, <2>2, <2>3, <2>4 DEF handle_conn
  <1> QED
    BY <1>1, <1>2, <1>3

\* No fault forges a FileComplete.
LEMMA EnvironmentHonest ==
    ASSUME TypeOK, HonestInv, Environment
    PROVE  HonestInv'
  <1> USE DEF TypeOK, sndVars, netVars, rcvVars
  <1> SUFFICES ASSUME NEW y \in Xfer PROVE HonestFor(y)'
    BY DEF HonestInv
  <1>0. HonestFor(y)
    BY DEF HonestInv
  <1>a. ASSUME toR[y] \in Seq(Incomplete) => toR'[y] \in Seq(Incomplete),
               UNCHANGED <<pc, rcvVars>>
        PROVE  HonestFor(y)'
    BY <1>0, <1>a DEF HonestFor
  <1>1. ASSUME NEW x \in Xfer, ConnReset(x)
        PROVE  HonestFor(y)'
    <2>1. PICK n \in 0..Len(toR[x]) : toR' = [toR EXCEPT ![x] = SubSeq(@, 1, n)]
      BY <1>1 DEF ConnReset
    <2>2. toR[x] \in Seq(Incomplete) => SubSeq(toR[x], 1, n) \in Seq(Incomplete)
      BY SMTT(30)
    <2> QED
      BY <1>1, <1>a, <2>1, <2>2 DEF ConnReset
  <1>2. ASSUME NEW x \in Xfer, Corrupt(x)
        PROVE  HonestFor(y)'
    <2>1. PICK b \in Block : toR' = [toR EXCEPT ![x] =
                                <<[Head(@) EXCEPT !.data = <<b>>]>> \o Tail(@)]
      BY <1>2 DEF Corrupt
    <2> DEFINE p == [Head(toR[x]) EXCEPT !.data = <<b>>]
    <2>2. Head(toR[x]) \in Packet /\ <<b>> \in Seq(Block)
          /\ Head(toR[x]).type = "FileChunk"
      BY SMTT(30), <1>2 DEF Corrupt
    <2>3. p \in Packet /\ p.type # "FileComplete"
      BY <2>2 DEF Packet
    <2>4. p \in Incomplete
      BY <2>3 DEF Incomplete
    <2> HIDE DEF p
    <2>5. ASSUME toR[x] \in Seq(Incomplete)
          PROVE  <<p>> \o Tail(toR[x]) \in Seq(Incomplete)
      <3>1. Tail(toR[x]) \in Seq(Incomplete)
        BY <1>2, <2>5 DEF Corrupt
      <3> QED
        BY <2>4, <3>1
    <2>6. toR' = [toR EXCEPT ![x] = <<p>> \o Tail(toR[x])]
      BY <2>1 DEF p
    <2> QED
      BY <1>2, <1>a, <2>5, <2>6 DEF Corrupt
  <1>3. ASSUME NEW x \in Xfer, EditSource(x)
        PROVE  HonestFor(y)'
    BY <1>3, <1>a DEF EditSource
  <1>4. ASSUME NEW p \in Proc, SenderCrash(p)
        PROVE  HonestFor(y)'
    BY <1>0, <1>4 DEF SenderCrash, Kill, HonestFor, Done
  <1>5. CASE ReceiverCrash
    BY <1>0, <1>5 DEF ReceiverCrash, HonestFor
  <1>6. CASE ReceiverRestart
    BY <1>0, <1>6 DEF ReceiverRestart, HonestFor
  <1>7. ASSUME NEW s \in Side, NEW x \in Xfer, CancelRead(s, x)
        PROVE  HonestFor(y)'
    BY <1>7, <1>a DEF CancelRead
  <1>8. ASSUME NEW s \in Side, NEW x \in Xfer, CancelWrite(s, x)
        PROVE  HonestFor(y)'
    BY <1>0, <1>8, CancelState, UnmovedHonest DEF CancelWrite
  <1>9. ASSUME NEW s \in Side, NEW stale \in SUBSET Xfer, Clean(s, stale)
        PROVE  HonestFor(y)'
    <2>1. rdb'[y].state = "completed" => rdb[y].state = "completed"
      BY <1>9, StaleState DEF Clean
    <2> QED
      BY <1>0, <1>9, <2>1, UnmovedHonest DEF Clean
  <1> QED
    BY <1>1, <1>2, <1>3, <1>4, <1>5, <1>6, <1>7, <1>8, <1>9 DEF Environment

LEMMA InitHonest == Init => HonestInv
  <1>1. <<>> \in Seq(Incomplete)
    OBVIOUS
  <1> QED
    BY <1>1 DEF Init, HonestInv, HonestFor, NoRow

LEMMA NextHonest == TypeOK /\ HonestInv /\ [Next]_vars => HonestInv'
  <1> SUFFICES ASSUME TypeOK, HonestInv, [Next]_vars PROVE HonestInv'
    OBVIOUS
  <1>1. CASE UNCHANGED vars
    BY <1>1 DEF vars, sndVars, netVars, rcvVars, HonestInv, HonestFor
  <1> QED
    BY <1>1, SenderHonest, ReceiverHonest, EnvironmentHonest DEF Next

\* A send_file that returns failure has not been recorded as "completed" by
\* the receiver, whatever faults, crashes and cancellations it met.
THEOREM FailuresAreHonest == Spec => []FailureIsHonest
  <1>1. HonestInv => FailureIsHonest
    BY DEF HonestInv, HonestFor, FailureIsHonest, Done
  <1> QED
    BY <1>1, InitHonest, NextHonest, TypeCorrect, PTL DEF Spec

----------------------------------------------------------------------------
(* ActiveCountExact is inductive as it stands.                             *)

\* The sends of a process that are in their chunk loop.
Busy(p) == {x \in Xfer : ProcOf[x] = p /\ pc[x] \in Streaming}

\* A step that starts or ends no loop and leaves the counters alone.
LEMMA CountKept ==
    ASSUME ActiveCountExact, UNCHANGED active_count,
           \A x \in Xfer : pc'[x] \in Streaming <=> pc[x] \in Streaming
    PROVE  ActiveCountExact'
  <1>1. \A p \in Proc : Busy(p)' = Busy(p)
    BY DEF Busy
  <1> QED
    BY <1>1 DEF ActiveCountExact, Busy

\* StartStreaming takes a slot for a send that held none.
LEMMA CountTaken ==
    ASSUME TypeOK, ActiveCountExact, NEW x \in Xfer, pc[x] \notin Streaming,
           Count(x, active_count[ProcOf[x]] + 1), Go(x, "loop")
    PROVE  ActiveCountExact'
  <1> SUFFICES ASSUME NEW p \in Proc
               PROVE  active_count'[p] = Cardinality(Busy(p)')
    BY DEF ActiveCountExact, Busy
  <1>0. /\ active_count[p] = Cardinality(Busy(p)) /\ IsFiniteSet(Busy(p))
        /\ active_count \in [Proc -> Int] /\ pc \in [Xfer -> SenderPc]
    BY FiniteAssumption, FS_Subset DEF ActiveCountExact, Busy, TypeOK
  <1>1. CASE p = ProcOf[x]
    <2>1. Busy(p)' = Busy(p) \cup {x} /\ x \notin Busy(p)
      BY <1>0, <1>1 DEF Busy, Go, Streaming
    <2>2. Cardinality(Busy(p) \cup {x}) = Cardinality(Busy(p)) + 1
      BY <1>0, <2>1, FS_AddElement
    <2> QED
      BY <1>0, <1>1, <2>1, <2>2 DEF Count
  <1>2. CASE p # ProcOf[x]
    <2>1. Busy(p)' = Busy(p)
      BY <1>0, <1>2 DEF Busy, Go
    <2> QED
      BY <1>0, <1>2, <2>1 DEF Count
  <1> QED
    BY <1>1, <1>2

\* GiveUp and SendFinish give back the slot of a send that holds one.
LEMMA CountReturned ==
    ASSUME TypeOK, ActiveCountExact, NEW x \in Xfer, pc[x] \in Streaming,
           Count(x, active_count[ProcOf[x]] - 1), NEW l, l \notin Streaming, Go(x, l)
    PROVE  ActiveCountExact'
  <1> SUFFICES ASSUME NEW p \in Proc
               PROVE  active_count'[p] = Cardinality(Busy(p)')
    BY DEF ActiveCountExact, Busy
  <1>0. /\ active_count[p] = Cardinality(Busy(p)) /\ IsFiniteSet(Busy(p))
        /\ active_count \in [Proc -> Int] /\ pc \in [Xfer -> SenderPc]
    BY FiniteAssumption, FS_Subset DEF ActiveCountExact, Busy, TypeOK
  <1>1. CASE p = ProcOf[x]
    <2>1. Busy(p)' = Busy(p) \ {x} /\ x \in Busy(p)
      BY <1>0, <1>1 DEF Busy, Go
    <2>2. Cardinality(Busy(p) \ {x}) = Cardinality(Busy(p)) - 1
      BY <1>0, <2>1, FS_RemoveElement
    <2> QED
      BY <1>0, <1>1, <2>1, <2>2 DEF Count
  <1>2. CASE p # ProcOf[x]
    <2>1. Busy(p)' = Busy(p)
      BY <1>0, <1>2 DEF Busy, Go
    <2> QED
      BY <1>0, <1>2, <2>1 DEF Count
  <1> QED
    BY <1>1, <1>2

\* A dead process has no loops and its counter starts again from zero.
LEMMA CountKilled ==
    ASSUME TypeOK, ActiveCountExact, NEW k \in Proc, Kill(k)
    PROVE  ActiveCountExact'
  <1> SUFFICES ASSUME NEW p \in Proc
               PROVE  active_count'[p] = Cardinality(Busy(p)')
    BY DEF ActiveCountExact, Busy
  <1>0. /\ active_count[p] = Cardinality(Busy(p))
        /\ active_count \in [Proc -> Int] /\ pc \in [Xfer -> SenderPc]
    BY DEF ActiveCountExact, Busy, TypeOK
  <1>1. CASE p = k
    <2>1. Busy(p)' = {}
      BY <1>0, <1>1 DEF Busy, Kill, Streaming, Returned
    <2> QED
      BY <1>0, <1>1, <2>1, FS_EmptySet DEF Kill
  <1>2. CASE p # k
    <2>1. Busy(p)' = Busy(p)
      BY <1>0, <1>2 DEF Busy, Kill
    <2> QED
      BY <1>0, <1>2, <2>1 DEF Kill
  <1> QED
    BY <1>1, <1>2

\* Every step of send_file keeps the counters exact.
LEMMA SenderCount ==
    ASSUME TypeOK, ActiveCountExact, NEW x \in Xfer, send_file(x)
    PROVE  ActiveCountExact'
  <1>0. pc \in [Xfer -> SenderPc] /\ ProcOf[x] \in Proc
    BY XferAssumption DEF TypeOK
  <1>1. CASE BrokenPipe(x)
    BY <1>0, <1>1, CountKilled DEF BrokenPipe
  <1>2. CASE StartStreaming(x)
    BY <1>2, CountTaken DEF StartStreaming, Streaming
  <1>3. CASE ChunkSendFails(x) /\ ~RetryLeft(x)
    <2>1. pc[x] \in Streaming /\ "failed" \notin Streaming /\ GiveUp(x)
      BY <1>3 DEF ChunkSendFails, Streaming
    <2> QED
      BY <2>1, CountReturned DEF GiveUp
  <1>4. CASE SendFinish(x)
    <2>1. pc[x] \in Streaming /\ "completed" \notin Streaming
      BY <1>4 DEF SendFinish, Streaming
    <2> QED
      BY <1>4, <2>1, CountReturned DEF SendFinish
  <1>5. CASE \/ SendRefused(x)    \/ SendBegin(x)  \/ SendOffer(x)
             \/ ConnectFails(x)   \/ NoResponse(x) \/ OfferAbandoned(x)
             \/ ReadChunk(x)      \/ EndOfFile(x)  \/ SendChunk(x)
             \/ ChunkAcked(x)     \/ ChunkNotAcked(x) \/ SendComplete(x)
             \/ HashFile(x)       \/ (ChunkSendFails(x) /\ RetryLeft(x))
    <2>1. /\ UNCHANGED active_count
          /\ \A y \in Xfer : pc'[y] \in Streaming <=> pc[y] \in Streaming
      BY <1>0, <1>5 DEF SendRefused, SendBegin, SendOffer, ConnectFails, NoResponse,
         OfferAbandoned, ReadChunk, EndOfFile, SendChunk, ChunkAcked, ChunkNotAcked,
         SendComplete, ChunkSendFails, HashFile, Go, Streaming
    <2> QED
      BY <2>1, CountKept
  <1> QED
    BY <1>1, <1>2, <1>3, <1>4, <1>5 DEF send_file

\* Transfer::active_count_ equals the number of sends in their chunk loop,
\* for any number of sends per process, through every failure path and every
\* death of a process.
THEOREM ActiveCountIsExact == Spec => []ActiveCountExact
  <1>1. Init => ActiveCountExact
    <2> SUFFICES ASSUME Init, NEW p \in Proc
                 PROVE  active_count[p] = Cardinality(Busy(p))
      BY DEF ActiveCountExact, Busy
    <2>1. Busy(p) = {}
      BY DEF Init, Busy, Streaming
    <2> QED
      BY <2>1, FS_EmptySet DEF Init
  <1>2. TypeOK /\ ActiveCountExact /\ [Next]_vars => ActiveCountExact'
    <2> SUFFICES ASSUME TypeOK, ActiveCountExact, [Next]_vars
                 PROVE  ActiveCountExact'
      OBVIOUS
    <2>1. CASE UNCHANGED <<pc, active_count>>
      BY <2>1, CountKept
    <2>2. ASSUME NEW p \in Proc, SenderCrash(p)
          PROVE  ActiveCountExact'
      BY <2>2, CountKilled DEF SenderCrash
    <2>3. ASSUME NEW x \in Xfer, handle_conn(x)
          PROVE  UNCHANGED <<pc, active_count>>
      BY <2>3 DEF handle_conn, ReadPacket, ReadPacketFails, Resync, handle_file_offer,
         ChunkDropped, handle_file_chunk, AckChunk, CloseOut, handle_file_complete,
         RecordVerdict, sndVars
    <2>4. ASSUME Environment, \A p \in Proc : ~SenderCrash(p)
          PROVE  UNCHANGED <<pc, active_count>>
      BY <2>4 DEF Environment, ConnReset, Corrupt, EditSource, ReceiverCrash,
         ReceiverRestart, CancelRead, CancelWrite, Clean, sndVars
    <2>5. vars' = vars => UNCHANGED <<pc, active_count>>
      BY DEF vars, sndVars
    <2> QED
      BY <2>1, <2>2, <2>3, <2>4, <2>5, SenderCount DEF Next
  <1> QED
    BY <1>1, <1>2, TypeCorrect, PTL DEF Spec
============================================================================
