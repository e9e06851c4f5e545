--------------------------- MODULE ProgressProofs ---------------------------
(***************************************************************************)
(* Theorems about the progress of a file transfer: what the receiver holds *)
(* of a file, what the two tables say about it and what `shr status` makes *)
(* of them. They rest on the course of the conversation between send_file  *)
(* and handle_conn, the invariant Flow.                                    *)
(***************************************************************************)
EXTENDS TransferProofs, Status, SequenceTheorems

----------------------------------------------------------------------------
(* Streams.                                                                *)

\* A packet that the receiver answers.
Asks(p) == p.type \in {"FileOffer", "FileChunk"}

\* A stream with such a packet, and one with no more than one.
HasAsk(q) == \E i \in 1..Len(q) : Asks(q[i])
OneAsk(q) == \A i, j \in 1..Len(q) : Asks(q[i]) /\ Asks(q[j]) => i = j

\* r is a contiguous part of q.
Part(r, q) ==
    \E d \in Nat : \A i \in 1..Len(r) : i + d \in 1..Len(q) /\ r[i] = q[i + d]

LEMMA PartAsks ==
    ASSUME NEW q \in Seq(Packet), NEW r \in Seq(Packet), Part(r, q)
    PROVE  /\ HasAsk(r) => HasAsk(q)
           /\ OneAsk(q) => OneAsk(r)
           /\ \A i \in 1..Len(r) : \E j \in 1..Len(q) : r[i] = q[j]
  <1>1. PICK d \in Nat : \A i \in 1..Len(r) : i + d \in 1..Len(q) /\ r[i] = q[i + d]
    BY DEF Part
  <1>2. HasAsk(r) => HasAsk(q)
    BY <1>1 DEF HasAsk
  <1>3. ASSUME OneAsk(q), NEW i \in 1..Len(r), NEW j \in 1..Len(r),
               Asks(r[i]), Asks(r[j])
        PROVE  i = j
    <2>1. i + d = j + d
      BY <1>1, <1>3 DEF OneAsk
    <2> QED
      BY <1>1, <2>1, LenProperties
  <1> QED
    BY <1>1, <1>2, <1>3 DEF OneAsk

\* What a reader or a reset leaves of a stream is a part of it.
LEMMA Parts ==
    ASSUME NEW q \in Seq(Packet)
    PROVE  /\ q # <<>> => /\ Tail(q) \in Seq(Packet) /\ Part(Tail(q), q)
                          /\ Head(q) \in Packet /\ Head(q) = q[1] /\ 1 \in 1..Len(q)
                          /\ Asks(Head(q)) /\ OneAsk(q) => ~HasAsk(Tail(q))
           /\ \A n \in 0..Len(q) : /\ SubSeq(q, 1, n) \in Seq(Packet)
                                   /\ Part(SubSeq(q, 1, n), q)
           /\ \A n \in 0..Len(q) : /\ SubSeq(q, n + 1, Len(q)) \in Seq(Packet)
                                   /\ Part(SubSeq(q, n + 1, Len(q)), q)
  <1>0. Len(q) \in Nat
    BY LenProperties
  <1>1. ASSUME q # <<>>
        PROVE  /\ Tail(q) \in Seq(Packet) /\ Part(Tail(q), q)
               /\ Head(q) \in Packet /\ Head(q) = q[1] /\ 1 \in 1..Len(q)
               /\ Asks(Head(q)) /\ OneAsk(q) => ~HasAsk(Tail(q))
    <2>1. /\ Tail(q) \in Seq(Packet) /\ Head(q) \in Packet /\ Head(q) = q[1]
          /\ 1 \in 1..Len(q) /\ Len(Tail(q)) = Len(q) - 1
          /\ \A i \in 1..Len(Tail(q)) : Tail(q)[i] = q[i + 1]
      BY <1>1
    <2>2. \A i \in 1..Len(Tail(q)) : i + 1 \in 1..Len(q) /\ Tail(q)[i] = q[i + 1]
      BY <1>0, <2>1
    <2>3. Part(Tail(q), q)
      BY <2>2 DEF Part
    <2>4. Asks(Head(q)) /\ OneAsk(q) => ~HasAsk(Tail(q))
      <3> SUFFICES ASSUME Asks(q[1]), OneAsk(q), NEW i \in 1..Len(Tail(q)),
                          Asks(Tail(q)[i])
                   PROVE  FALSE
        BY <2>1 DEF HasAsk
      <3>1. Asks(q[i + 1]) /\ i + 1 \in 1..Len(q) /\ i + 1 # 1
        BY <1>0, <2>1, <2>2
      <3> QED
        BY <2>1, <3>1 DEF OneAsk
    <2> QED
      BY <2>1, <2>3, <2>4
  <1>2. ASSUME NEW n \in 0..Len(q)
        PROVE  /\ SubSeq(q, 1, n) \in Seq(Packet) /\ Part(SubSeq(q, 1, n), q)
    <2>1. /\ SubSeq(q, 1, n) \in Seq(Packet)
          /\ \A i \in 1..Len(SubSeq(q, 1, n)) :
                i + 0 \in 1..Len(q) /\ SubSeq(q, 1, n)[i] = q[i + 0]
      OBVIOUS
    <2> QED
      BY <2>1 DEF Part
  <1>3. ASSUME NEW n \in 0..Len(q)
        PROVE  /\ SubSeq(q, n + 1, Len(q)) \in Seq(Packet)
               /\ Part(SubSeq(q, n + 1, Len(q)), q)
    <2>1. /\ SubSeq(q, n + 1, Len(q)) \in Seq(Packet)
          /\ \A i \in 1..Len(SubSeq(q, n + 1, Len(q))) :
                i + n \in 1..Len(q) /\ SubSeq(q, n + 1, Len(q))[i] = q[i + n]
      OBVIOUS
    <2>2. n \in Nat
      BY <1>0
    <2> DEFINE r == SubSeq(q, n + 1, Len(q))
    <2> HIDE DEF r
    <2>3. \A i \in 1..Len(r) : i + n \in 1..Len(q) /\ r[i] = q[i + n]
      BY <2>1 DEF r
    <2>4. Part(r, q)
      BY <2>2, <2>3 DEF Part
    <2> QED
      BY <2>1, <2>4 DEF r
  <1> QED
    BY <1>1, <1>2, <1>3

\* A frame is added to a stream.
LEMMA AddFrame ==
    ASSUME NEW q \in Seq(Packet), NEW p \in Packet
    PROVE  /\ \A i \in 1..Len(Append(q, p)) :
                 (\E j \in 1..Len(q) : Append(q, p)[i] = q[j]) \/ Append(q, p)[i] = p
           /\ ~Asks(p) => /\ HasAsk(Append(q, p)) => HasAsk(q)
                          /\ OneAsk(q) => OneAsk(Append(q, p))
           /\ ~HasAsk(q) => OneAsk(Append(q, p))
  <1>1. /\ Len(q) \in Nat /\ Len(Append(q, p)) = Len(q) + 1
        /\ \A i \in 1..Len(q) : Append(q, p)[i] = q[i]
        /\ Append(q, p)[Len(q) + 1] = p
    BY AppendProperties, LenProperties
  <1>2. \A i \in 1..Len(Append(q, p)) : i \in 1..Len(q) \/ i = Len(q) + 1
    BY <1>1
  <1> QED
    BY <1>1, <1>2 DEF HasAsk, OneAsk

\* A frame is added to a stream, or nothing is.
LEMMA MaybeFrame ==
    ASSUME NEW q \in Seq(Packet), NEW p \in Packet, NEW r \in {q, Append(q, p)}
    PROVE  /\ \A i \in 1..Len(r) : (\E j \in 1..Len(q) : r[i] = q[j]) \/ r[i] = p
           /\ ~Asks(p) => /\ HasAsk(r) => HasAsk(q)
                          /\ OneAsk(q) => OneAsk(r)
           /\ ~HasAsk(q) => OneAsk(r)
  <1>1. CASE r = q
    BY <1>1 DEF HasAsk, OneAsk
  <1>2. CASE r = Append(q, p)
    BY <1>2, AddFrame
  <1> QED
    BY <1>1, <1>2

\* A stream with one frame or none.
LEMMA LoneFrame ==
    ASSUME NEW r, NEW p, Len(r) = 0 \/ (Len(r) = 1 /\ r[1] = p)
    PROVE  Len(r) <= 1 /\ \A i \in 1..Len(r) : r[i] = p
  OBVIOUS

\* A chunk at the head of a stream is altered.
LEMMA AlterHead ==
    ASSUME NEW q \in Seq(Packet), q # <<>>, NEW h \in Packet, h.type = Head(q).type,
           NEW r \in Seq(Packet), r = <<h>> \o Tail(q)
    PROVE  /\ Len(r) = Len(q) /\ r[1] = h /\ r # <<>>
           /\ \A i \in 2..Len(q) : r[i] = q[i]
           /\ HasAsk(r) <=> HasAsk(q)
           /\ OneAsk(r) <=> OneAsk(q)
  <1>1. /\ Tail(q) \in Seq(Packet) /\ Head(q) \in Packet /\ Head(q) = q[1]
        /\ 1 \in 1..Len(q) /\ Len(Tail(q)) = Len(q) - 1 /\ Len(q) \in Nat
        /\ \A i \in 1..Len(Tail(q)) : Tail(q)[i] = q[i + 1]
    OBVIOUS
  <1>3. /\ r \in Seq(Packet) /\ Len(r) = Len(q) /\ r[1] = h /\ r # <<>>
        /\ \A i \in 2..Len(q) : r[i] = q[i]
    <2>1. <<h>> \in Seq(Packet) /\ Len(<<h>>) = 1 /\ <<h>>[1] = h
      OBVIOUS
    <2> DEFINE s == <<h>>
    <2> HIDE DEF s
    <2>2. /\ s \o Tail(q) \in Seq(Packet)
          /\ Len(s \o Tail(q)) = Len(s) + Len(Tail(q))
          /\ \A i \in 1..Len(s) + Len(Tail(q)) :
                (s \o Tail(q))[i] = IF i <= Len(s) THEN s[i] ELSE Tail(q)[i - Len(s)]
      BY <1>1, <2>1, ConcatProperties DEF s
    <2>3. /\ Len(s \o Tail(q)) = Len(q) /\ (s \o Tail(q))[1] = h
          /\ \A i \in 2..Len(q) : (s \o Tail(q))[i] = q[i]
      BY <1>1, <2>1, <2>2 DEF s
    <2> QED
      BY <1>1, <2>2, <2>3 DEF s
  <1>4. \A i \in 1..Len(q) : Asks(r[i]) <=> Asks(q[i])
    <2> SUFFICES ASSUME NEW i \in 1..Len(q) PROVE Asks(r[i]) <=> Asks(q[i])
      OBVIOUS
    <2>1. CASE i = 1
      BY <1>1, <1>3, <2>1 DEF Asks
    <2>2. CASE i # 1
      <3>1. r[i] = q[i]
        BY <1>1, <1>3, <2>2
      <3> QED
        BY <3>1
    <2> QED
      BY <2>1, <2>2
  <1>5. HasAsk(r) <=> HasAsk(q)
    BY <1>3, <1>4 DEF HasAsk
  <1>6. OneAsk(r) <=> OneAsk(q)
    BY <1>3, <1>4 DEF OneAsk
  <1> QED
    BY <1>3, <1>5, <1>6
----------------------------------------------------------------------------
(* The conversation.                                                       *)

\* A question is in the hands of the handler, or anywhere before its answer.
AskInHand(x) == rpc[x] = "dispatch" /\ Asks(pkt[x])
Asking(x) == HasAsk(toR[x]) \/ AskInHand(x) \/ rpc[x] = "written"

\* A connection holds one question or one answer at a time, and neither when
\* send_file does not wait for an answer.
OneAtATime(x) ==
    /\ OneAsk(toR[x])
    /\ HasAsk(toR[x]) => ~AskInHand(x) /\ rpc[x] # "written"
    /\ Asking(x) => toS[x] = <<>>
    /\ Len(toS[x]) <= 1
    /\ pc[x] \in {"idle", "hash", "connect", "refused", "loop", "send"}
          => ~Asking(x) /\ toS[x] = <<>>

\* p is, but for its data, the chunk that send_file is sending.
Expected(x, p) ==
    /\ p.off = transferred[x]
    /\ transferred[x] < Len(source[x])
    /\ \E b \in Block : p.data = <<b>>
    /\ p.sum = Sha256(<<source[x][transferred[x] + 1]>>)

\* p is the question that send_file is asking, or was when it ended.
Offering == {"waitResp", "failed", "crashed"}
Chunking == {"waitAck", "complete", "finish", "completed", "crashed"}
Apt(x, p) ==
    /\ p.type = "FileOffer" => pc[x] \in Offering /\ p.off = Len(source[x])
    /\ p.type = "FileChunk" => pc[x] \in Chunking /\ Expected(x, p)

Questions(x) ==
    /\ \A i \in 1..Len(toR[x]) : Apt(x, toR[x][i])
    /\ rpc[x] = "dispatch" => Apt(x, pkt[x])
    /\ rpc[x] = "written" => /\ pkt[x].type = "FileChunk" /\ Apt(x, pkt[x])
                             /\ ChunkIntact(x)

\* What send_file works with.
Sending(x) ==
    /\ pc[x] \in {"idle", "hash", "connect", "refused", "waitResp"} => transferred[x] = 0
    /\ pc[x] \in {"idle", "hash", "connect", "refused"}
          => rpc[x] = "none" /\ toR[x] = <<>>
    /\ pc[x] \in {"send", "waitAck"}
          => /\ transferred[x] < Len(source[x])
             /\ chunk_buf[x] = <<source[x][transferred[x] + 1]>>
    /\ transferred[x] <= Len(source[x])
    /\ pc[x] \notin {"idle", "refused"} => file_sz[x] = Len(source[x])

\* Nobody pauses a transfer, so an offer is never answered with FileResume.
Unpaused(x) ==
    /\ rdb[x].state # "paused"
    /\ \A i \in 1..Len(toS[x]) : toS[x][i].type # "FileResume"

FlowFor(x) == OneAtATime(x) /\ Questions(x) /\ Sending(x) /\ Unpaused(x)
Flow == \A x \in Xfer : FlowFor(x)

LEMMA InitFlow == Init => Flow
  <1> SUFFICES ASSUME Init, NEW x \in Xfer PROVE FlowFor(x)
    BY DEF Flow
  <1>1. /\ pc[x] = "idle" /\ toR[x] = <<>> /\ toS[x] = <<>> /\ rpc[x] = "none"
        /\ transferred[x] = 0 /\ source[x] \in Seq(Block) /\ rdb[x] = NoRow
    BY ContentsAssumption DEF Init
  <1>2. Len(<<>>) = 0 /\ Len(source[x]) \in Nat
    BY <1>1, LenProperties
  <1>3. ~HasAsk(<<>>) /\ OneAsk(<<>>)
    BY <1>2 DEF HasAsk, OneAsk
  <1>4. ~Asking(x) /\ ~AskInHand(x)
    BY <1>1, <1>3 DEF Asking, AskInHand
  <1>5. OneAtATime(x)
    BY <1>1, <1>2, <1>3, <1>4 DEF OneAtATime
  <1>6. Questions(x)
    BY <1>1, <1>2 DEF Questions
  <1>7. Sending(x)
    BY <1>1, <1>2 DEF Sending
  <1>8. Unpaused(x)
    BY <1>1, <1>2 DEF Unpaused, NoRow
  <1> QED
    BY <1>5, <1>6, <1>7, <1>8 DEF FlowFor

\* A step that leaves a conversation alone.
Unheard(y) ==
    /\ pc'[y] = pc[y] /\ source'[y] = source[y] /\ file_sz'[y] = file_sz[y]
    /\ transferred'[y] = transferred[y] /\ chunk_buf'[y] = chunk_buf[y]
    /\ toR'[y] = toR[y] /\ toS'[y] = toS[y] /\ rpc'[y] = rpc[y] /\ pkt'[y] = pkt[y]
    /\ rdb[y].state # "paused" => rdb'[y].state # "paused"

LEMMA UnheardFlow ==
    ASSUME NEW y \in Xfer, FlowFor(y), Unheard(y)
    PROVE  FlowFor(y)'
  <1>1. OneAtATime(y)'
    BY DEF FlowFor, Unheard, OneAtATime, Asking, AskInHand
  <1>2. Questions(y)'
    BY DEF FlowFor, Unheard, Questions, Apt, Expected, ChunkIntact
  <1>3. Sending(y)'
    BY DEF FlowFor, Unheard, Sending
  <1>4. Unpaused(y)'
    BY DEF FlowFor, Unheard, Unpaused
  <1> QED
    BY <1>1, <1>2, <1>3, <1>4 DEF FlowFor

\* When nobody asks there is nothing to be apt.
LEMMA SilentApt ==
    ASSUME NEW x \in Xfer, NEW q, ~HasAsk(q)
    PROVE  \A i \in 1..Len(q) : Apt(x, q[i]) /\ Apt(x, q[i])'
  BY DEF HasAsk, Asks, Apt

\* A process dies: whatever its threads asked stays asked.
LEMMA KillFlow ==
    ASSUME TypeOK, Flow, NEW p \in Proc, Kill(p)
    PROVE  Flow'
  <1> SUFFICES ASSUME NEW y \in Xfer PROVE FlowFor(y)'
    BY DEF Flow
  <1>0. FlowFor(y)
    BY DEF Flow
  <1>1. CASE pc'[y] = pc[y]
    <2>1. Unheard(y)
      BY <1>1 DEF Kill, Unheard, netVars, rcvVars
    <2> QED
      BY <1>0, <2>1, UnheardFlow
  <1>2. CASE pc'[y] # pc[y]
    <2>1. pc'[y] = "crashed" /\ pc[y] \notin Returned
      BY <1>2 DEF Kill
    <2>2. UNCHANGED <<source, file_sz, transferred, chunk_buf, toR, toS, rpc, pkt, rdb>>
      BY DEF Kill, netVars, rcvVars
    <2>3. OneAtATime(y)'
      BY <1>0, <2>1, <2>2 DEF FlowFor, OneAtATime, Asking, AskInHand
    <2>4. \A q : Apt(y, q) => Apt(y, q)'
      BY <2>1, <2>2 DEF Apt, Expected, Offering, Chunking
    <2>5. Questions(y)'
      BY <1>0, <2>2, <2>4 DEF FlowFor, Questions, ChunkIntact
    <2>6. Sending(y)'
      BY <1>0, <2>1, <2>2 DEF FlowFor, Sending, Returned
    <2>7. Unpaused(y)'
      BY <1>0, <2>2 DEF FlowFor, Unpaused
    <2> QED
      BY <2>3, <2>5, <2>6, <2>7 DEF FlowFor
  <1> QED
    BY <1>1, <1>2

\* send_file moves on and at most writes a frame that is no question.
Still == {"idle", "hash", "connect", "refused", "loop", "send"}

LEMMA MoveFlow ==
    ASSUME TypeOK, NEW x \in Xfer, FlowFor(x), NEW p \in Packet, ~Asks(p),
           toR'[x] \in {toR[x], Append(toR[x], p)},
           source'[x] = source[x], transferred'[x] = transferred[x],
           UNCHANGED <<toS, rpc, pkt, rdb>>,
           pc'[x] \in Still => pc[x] \in Still,
           pc[x] \in Offering => pc'[x] \in Offering,
           pc[x] \in Chunking => pc'[x] \in Chunking,
           Sending(x)'
    PROVE  FlowFor(x)'
  <1>0. OneAtATime(x) /\ Questions(x) /\ Unpaused(x)
    BY DEF FlowFor
  <1>1. toR[x] \in Seq(Packet)
    BY DEF TypeOK
  <1>2. /\ HasAsk(toR'[x]) => HasAsk(toR[x])
        /\ OneAsk(toR[x]) => OneAsk(toR'[x])
        /\ \A i \in 1..Len(toR'[x]) :
              (\E j \in 1..Len(toR[x]) : toR'[x][i] = toR[x][j]) \/ toR'[x][i] = p
    <2> DEFINE q == toR[x]
               r == toR'[x]
    <2>1. q \in Seq(Packet) /\ r \in {q, Append(q, p)}
      BY <1>1
    <2> HIDE DEF q, r
    <2>2. /\ HasAsk(r) => HasAsk(q)
          /\ OneAsk(q) => OneAsk(r)
          /\ \A i \in 1..Len(r) : (\E j \in 1..Len(q) : r[i] = q[j]) \/ r[i] = p
      BY <2>1, MaybeFrame
    <2> QED
      BY <2>2 DEF q, r
  <1>3. OneAtATime(x)'
    BY <1>0, <1>2 DEF OneAtATime, Asking, AskInHand, Still
  <1>4. \A q : Apt(x, q) => Apt(x, q)'
    BY DEF Apt, Expected
  <1>5. Apt(x, p)
    BY DEF Apt, Asks
  <1>6. Questions(x)'
    BY <1>0, <1>2, <1>4, <1>5 DEF Questions, ChunkIntact
  <1>7. Unpaused(x)'
    BY <1>0 DEF Unpaused
  <1> QED
    BY <1>3, <1>6, <1>7 DEF FlowFor

\* send_file asks, when nothing is asked and no answer is under way.
LEMMA AskFlow ==
    ASSUME TypeOK, NEW x \in Xfer, FlowFor(x), ~Asking(x), toS[x] = <<>>,
           NEW p \in Packet, Apt(x, p)', pc'[x] \notin Still, Sending(x)',
           toR'[x] \in {toR[x], Append(toR[x], p)}, UNCHANGED <<toS, pkt, rdb>>,
           rpc'[x] \in {rpc[x], "read"}
    PROVE  FlowFor(x)'
  <1>0. OneAtATime(x) /\ Questions(x) /\ Unpaused(x)
    BY DEF FlowFor
  <1>1. toR[x] \in Seq(Packet)
    BY DEF TypeOK
  <1>2. ~HasAsk(toR[x]) /\ ~AskInHand(x) /\ rpc[x] # "written"
    BY DEF Asking
  <1>3. /\ OneAsk(toR'[x])
        /\ \A i \in 1..Len(toR'[x]) :
              (\E j \in 1..Len(toR[x]) : toR'[x][i] = toR[x][j]) \/ toR'[x][i] = p
    <2> DEFINE q == toR[x]
               r == toR'[x]
    <2>1. q \in Seq(Packet) /\ r \in {q, Append(q, p)} /\ ~HasAsk(q)
      BY <1>1, <1>2
    <2> HIDE DEF q, r
    <2>2. \A i \in 1..Len(r) : (\E j \in 1..Len(q) : r[i] = q[j]) \/ r[i] = p
      BY <2>1, MaybeFrame
    <2>3. ~HasAsk(q) => OneAsk(r)
      BY ZenonT(30), <2>1, MaybeFrame
    <2> QED
      BY <2>1, <2>2, <2>3 DEF q, r
  <1>4. ~AskInHand(x)' /\ rpc'[x] # "written"
    BY <1>2 DEF AskInHand
  <1>5. OneAtATime(x)'
    BY <1>0, <1>3, <1>4 DEF OneAtATime, Still
  <1>6. \A j \in 1..Len(toR[x]) : Apt(x, toR[x][j])'
    BY <1>2 DEF HasAsk, Asks, Apt
  <1>7. rpc'[x] = "dispatch" => Apt(x, pkt[x])'
    BY <1>4 DEF AskInHand, Asks, Apt
  <1>8. Questions(x)'
    BY <1>3, <1>4, <1>6, <1>7 DEF Questions
  <1>9. Unpaused(x)'
    BY <1>0 DEF Unpaused
  <1> QED
    BY <1>5, <1>8, <1>9 DEF FlowFor

\* send_file takes an answer: then nothing is asked any more.
LEMMA AnswerFlow ==
    ASSUME TypeOK, NEW x \in Xfer, FlowFor(x), toS[x] # <<>>,
           toS'[x] = Tail(toS[x]), UNCHANGED <<toR, rpc, pkt, rdb>>, Sending(x)'
    PROVE  FlowFor(x)'
  <1>0. OneAtATime(x) /\ Questions(x) /\ Unpaused(x)
    BY DEF FlowFor
  <1>1. ~Asking(x) /\ Len(toS[x]) <= 1
    BY <1>0 DEF OneAtATime
  <1>2. toS'[x] = <<>>
    BY <1>1 DEF TypeOK
  <1>3. ~HasAsk(toR[x]) /\ ~AskInHand(x) /\ rpc[x] # "written" /\ OneAsk(toR[x])
    BY <1>0, <1>1 DEF Asking, OneAtATime
  <1>4. ~Asking(x)' /\ ~AskInHand(x)'
    BY <1>3 DEF Asking, AskInHand
  <1>5. OneAtATime(x)'
    <2>1. Len(toS'[x]) <= 1
      BY <1>1 DEF TypeOK
    <2> QED
      BY <1>2, <1>3, <1>4, <2>1 DEF OneAtATime
  <1>6. Questions(x)'
    BY <1>3, SilentApt DEF Questions, AskInHand, Asks, Apt
  <1>7. Unpaused(x)'
    BY <1>0, <1>2 DEF Unpaused
  <1> QED
    BY <1>5, <1>6, <1>7 DEF FlowFor
\* What send_file puts into the stream.
LEMMA SentPackets ==
    ASSUME TypeOK, NEW x \in Xfer
    PROVE  /\ FileOffer(x) \in Packet /\ FileChunk(x) \in Packet
           /\ FileComplete(x) \in Packet /\ ~Asks(FileComplete(x))
           /\ Torn \in Packet /\ ~Asks(Torn)
           /\ FileOffer(x).type = "FileOffer" /\ FileOffer(x).off = file_sz[x]
           /\ FileChunk(x).type = "FileChunk" /\ FileChunk(x).off = transferred[x]
           /\ FileChunk(x).data = chunk_buf[x]
           /\ FileChunk(x).sum = Sha256(chunk_buf[x])
  <1>1. /\ file_sz[x] \in Nat /\ checksum[x] \in Digest /\ <<>> \in Seq(Block)
        /\ transferred[x] \in Nat /\ chunk_buf[x] \in Seq(Block)
        /\ Sha256(chunk_buf[x]) \in Digest
        /\ {"FileOffer", "FileChunk", "FileComplete"} \subseteq PacketTypes
    BY HashType DEF TypeOK, PacketTypes
  <1>2. FileOffer(x) \in Packet /\ FileChunk(x) \in Packet /\ FileComplete(x) \in Packet
    BY <1>1, PktType, Zenon DEF FileOffer, FileChunk, FileComplete
  <1>3. ~Asks(FileComplete(x)) /\ ~Asks(Torn)
    BY DEF Asks, FileComplete, Torn, Control, Pkt
  <1>4. FileOffer(x).type = "FileOffer" /\ FileOffer(x).off = file_sz[x]
    BY DEF FileOffer, Pkt
  <1>5. /\ FileChunk(x).type = "FileChunk" /\ FileChunk(x).off = transferred[x]
        /\ FileChunk(x).data = chunk_buf[x]
        /\ FileChunk(x).sum = Sha256(chunk_buf[x])
    BY DEF FileChunk, Pkt
  <1> QED
    BY <1>2, <1>3, <1>4, <1>5, TornType

\* Every step of send_file keeps the conversations in their course.
LEMMA SenderFlow ==
    ASSUME TypeOK, Flow, NEW x \in Xfer, send_file(x)
    PROVE  Flow'
  <1>a. CASE BrokenPipe(x)
    BY <1>a, KillFlow, XferAssumption DEF BrokenPipe
  <1>b. CASE ~BrokenPipe(x)
    <2> SUFFICES ASSUME NEW y \in Xfer PROVE FlowFor(y)'
      BY DEF Flow
    <2>0. FlowFor(y) /\ FlowFor(x)
      BY DEF Flow
    <2>1. CASE y # x
      <3>1. Unheard(y)
        BY ZenonT(30), <1>b, <2>1 DEF Unheard, TypeOK, Go, send_file, SendRefused, SendBegin, HashFile,
           SendOffer, ConnectFails, NoResponse, OfferAbandoned, StartStreaming, ReadChunk,
           EndOfFile, SendChunk, ChunkSendFails, GiveUp, ChunkAcked, ChunkNotAcked,
           SendComplete, SendFinish, sndVars, netVars, rcvVars
      <3> QED
        BY <2>0, <3>1, UnheardFlow
    <2>2. CASE y = x
      <3>0. /\ Sending(x) /\ OneAtATime(x) /\ Unpaused(x)
            /\ transferred[x] \in Nat /\ Len(source[x]) \in Nat
            /\ pc \in [Xfer -> SenderPc] /\ toR[x] \in Seq(Packet) /\ toS[x] \in Seq(Packet)
        BY SMTT(30), <2>0 DEF FlowFor, TypeOK
      <3>t. Torn \in Packet /\ ~Asks(Torn)
        BY SentPackets
      <3>1. CASE SendRefused(x)
        <4>1. /\ pc[x] = "idle" /\ pc'[x] = "refused"
              /\ UNCHANGED <<source, file_sz, transferred, chunk_buf, toR, toS, rpc, pkt, rdb>>
          BY <3>0, <3>1 DEF SendRefused, Go, netVars, rcvVars
        <4>2. Sending(x)'
          BY <3>0, <4>1 DEF Sending
        <4> QED
          BY <2>0, <2>2, <3>t, <4>1, <4>2, MoveFlow DEF Still, Offering, Chunking
      <3>2. CASE SendBegin(x)
        <4>1. /\ pc[x] = "idle" /\ pc'[x] = "hash" /\ file_sz'[x] = Len(source[x])
              /\ UNCHANGED <<source, transferred, chunk_buf, toR, toS, rpc, pkt, rdb>>
          BY <3>0, <3>2 DEF SendBegin, HashFile, Go, netVars, rcvVars, TypeOK
        <4>2. Sending(x)'
          BY <3>0, <4>1 DEF Sending
        <4> QED
          BY <2>0, <2>2, <3>t, <4>1, <4>2, MoveFlow DEF Still, Offering, Chunking
      <3>3. CASE SendOffer(x)
        <4>1. /\ pc[x] = "connect" /\ pc'[x] = "waitResp" /\ rpc'[x] = "read"
              /\ UNCHANGED <<source, file_sz, transferred, chunk_buf, toS, pkt, rdb>>
          BY <3>0, <3>3 DEF SendOffer, Go, TypeOK
        <4>2. toR'[x] \in {toR[x], Append(toR[x], Torn), Append(toR[x], FileOffer(x))}
          BY <3>3 DEF SendOffer, SendUnchecked, WriteFrame, TypeOK
        <4>3. Sending(x)'
          BY <3>0, <4>1 DEF Sending
        <4>4. ~Asking(x) /\ toS[x] = <<>>
          BY <3>0, <4>1 DEF OneAtATime
        <4>5. file_sz[x] = Len(source[x])
          BY <3>0, <4>1 DEF Sending
        <4>7. Apt(x, Torn)'
          BY DEF Apt, Torn, Control, Pkt
        <4>8. pc'[x] \notin Still /\ rpc'[x] \in {rpc[x], "read"}
          BY <4>1 DEF Still
        <4>9. CASE toR'[x] \in {toR[x], Append(toR[x], Torn)}
          BY <2>0, <2>2, <3>t, <4>1, <4>3, <4>4, <4>7, <4>8, <4>9, AskFlow
        <4>10. CASE toR'[x] = Append(toR[x], FileOffer(x))
          <5>1. PICK p \in Packet : /\ p.type = "FileOffer" /\ p.off = file_sz[x]
                                    /\ toR'[x] = Append(toR[x], p)
            BY <4>10, SentPackets
          <5>2. Apt(x, p)' /\ toR'[x] \in {toR[x], Append(toR[x], p)}
            BY <4>1, <4>5, <5>1 DEF Apt, Offering
          <5> QED
            BY <2>0, <2>2, <5>1, <5>2, <4>1, <4>3, <4>4, <4>8, AskFlow
        <4> QED
          BY <4>2, <4>9, <4>10
      <3>4. CASE ConnectFails(x) \/ NoResponse(x)
        <4>1. /\ pc[x] \in {"connect", "waitResp"} /\ pc'[x] = "failed"
              /\ UNCHANGED <<source, file_sz, transferred, chunk_buf, toR, toS, rpc, pkt, rdb>>
          BY <3>0, <3>4 DEF ConnectFails, NoResponse, Go, netVars, rcvVars
        <4>2. Sending(x)'
          BY <3>0, <4>1 DEF Sending
        <4> QED
          BY <2>0, <2>2, <3>t, <4>1, <4>2, MoveFlow DEF Still, Offering, Chunking
      <3>5. CASE OfferAbandoned(x)
        <4>1. /\ pc[x] = "waitResp" /\ pc'[x] = "failed"
              /\ toS[x] # <<>> /\ toS'[x] = Tail(toS[x])
              /\ UNCHANGED <<source, file_sz, transferred, chunk_buf, toR, rpc, pkt, rdb>>
          BY <3>0, <3>5 DEF OfferAbandoned, Go, rcvVars, TypeOK
        <4>2. Sending(x)'
          BY <3>0, <4>1 DEF Sending
        <4> QED
          BY <2>0, <2>2, <4>1, <4>2, AnswerFlow
      <3>6. CASE StartStreaming(x)
        <4>1. /\ pc[x] = "waitResp" /\ pc'[x] = "loop"
              /\ toS[x] # <<>> /\ toS'[x] = Tail(toS[x])
              /\ UNCHANGED <<source, file_sz, chunk_buf, toR, rpc, pkt, rdb>>
          BY <3>0, <3>6 DEF StartStreaming, Go, rcvVars, TypeOK
        <4>2. Head(toS[x]).type # "FileResume"
          BY <3>0, <4>1 DEF Unpaused
        <4>3. transferred'[x] = 0
          BY <3>6, <4>2 DEF StartStreaming, TypeOK
        <4>4. Sending(x)'
          BY <3>0, <4>1, <4>3 DEF Sending
        <4> QED
          BY <2>0, <2>2, <4>1, <4>4, AnswerFlow
      <3>7. CASE ReadChunk(x)
        <4>1. /\ pc[x] = "loop" /\ pc'[x] = "send"
              /\ transferred[x] < Len(source[x])
              /\ chunk_buf'[x] = <<source[x][transferred[x] + 1]>>
              /\ UNCHANGED <<source, file_sz, transferred, toR, toS, rpc, pkt, rdb>>
          BY <3>0, <3>7 DEF ReadChunk, Go, netVars, rcvVars, TypeOK
        <4>2. Sending(x)'
          BY <3>0, <4>1 DEF Sending
        <4> QED
          BY <2>0, <2>2, <3>t, <4>1, <4>2, MoveFlow DEF Still, Offering, Chunking
      <3>8. CASE EndOfFile(x) \/ ChunkNotAcked(x) \/ SendFinish(x)
        <4>1. /\ \/ pc[x] \in {"loop", "waitAck"} /\ pc'[x] = "complete"
                 \/ pc[x] = "finish" /\ pc'[x] = "completed"
              /\ UNCHANGED <<source, file_sz, transferred, chunk_buf, toR, toS, rpc, pkt, rdb>>
          BY <3>0, <3>8 DEF EndOfFile, ChunkNotAcked, SendFinish, Go, netVars, rcvVars
        <4>2. Sending(x)'
          BY <3>0, <4>1 DEF Sending
        <4> QED
          BY <2>0, <2>2, <3>t, <4>1, <4>2, MoveFlow DEF Still, Offering, Chunking
      <3>9. CASE SendChunk(x)
        <4>1. /\ pc[x] = "send" /\ pc'[x] = "waitAck"
              /\ toR'[x] = Append(toR[x], FileChunk(x))
              /\ UNCHANGED <<source, file_sz, transferred, chunk_buf, toS, rpc, pkt, rdb>>
          BY <3>0, <3>9 DEF SendChunk, Go, rcvVars, TypeOK
        <4>2. Sending(x)'
          BY <3>0, <4>1 DEF Sending
        <4>3. ~Asking(x) /\ toS[x] = <<>>
          BY <3>0, <4>1 DEF OneAtATime
        <4>4. PICK p \in Packet : /\ p.type = "FileChunk" /\ p.off = transferred[x]
                                  /\ p.data = chunk_buf[x] /\ p.sum = Sha256(chunk_buf[x])
                                  /\ toR'[x] = Append(toR[x], p)
          BY <4>1, SentPackets
        <4>6. /\ transferred[x] < Len(source[x])
              /\ chunk_buf[x] = <<source[x][transferred[x] + 1]>>
              /\ source[x][transferred[x] + 1] \in Block
          BY SMTT(30), <3>0, <4>1 DEF Sending, TypeOK
        <4>7. Expected(x, p)'
          BY <4>1, <4>4, <4>6 DEF Expected, Sha256
        <4>8. /\ Apt(x, p)' /\ pc'[x] \notin Still /\ rpc'[x] \in {rpc[x], "read"}
              /\ toR'[x] \in {toR[x], Append(toR[x], p)}
          BY <4>1, <4>4, <4>7 DEF Apt, Chunking, Still
        <4> QED
          BY <2>0, <2>2, <4>1, <4>2, <4>3, <4>4, <4>8, AskFlow
      <3>10. CASE ChunkSendFails(x)
        <4>1. /\ pc[x] = "send" /\ pc'[x] \in {"send", "failed"}
              /\ toR'[x] \in {toR[x], Append(toR[x], Torn)}
              /\ UNCHANGED <<source, file_sz, transferred, chunk_buf, toS, rpc, pkt, rdb>>
          BY <3>0, <3>10 DEF ChunkSendFails, GiveUp, Go, rcvVars, TypeOK
        <4>2. Sending(x)'
          BY <3>0, <4>1 DEF Sending
        <4> QED
          BY <2>0, <2>2, <3>t, <4>1, <4>2, MoveFlow DEF Still, Offering, Chunking
      <3>11. CASE ChunkAcked(x)
        <4>1. /\ pc[x] = "waitAck" /\ pc'[x] = "loop"
              /\ toS[x] # <<>> /\ toS'[x] = Tail(toS[x])
              /\ transferred'[x] = transferred[x] + 1
              /\ UNCHANGED <<source, file_sz, chunk_buf, toR, rpc, pkt, rdb>>
          BY <3>0, <3>11 DEF ChunkAcked, Go, rcvVars, TypeOK
        <4>2. Sending(x)'
          BY <3>0, <4>1 DEF Sending
        <4> QED
          BY <2>0, <2>2, <4>1, <4>2, AnswerFlow
      <3>12. CASE SendComplete(x)
        <4>1. /\ pc[x] = "complete" /\ pc'[x] = "finish"
              /\ UNCHANGED <<source, file_sz, transferred, chunk_buf, toS, rpc, pkt, rdb>>
          BY <3>0, <3>12 DEF SendComplete, Go, rcvVars, TypeOK
        <4>2. toR'[x] \in {toR[x], Append(toR[x], Torn), Append(toR[x], FileComplete(x))}
          BY <3>12 DEF SendComplete, SendUnchecked, WriteFrame, TypeOK
        <4>3. Sending(x)'
          BY <3>0, <4>1 DEF Sending
        <4>4. CASE toR'[x] \in {toR[x], Append(toR[x], Torn)}
          BY <2>0, <2>2, <3>t, <4>1, <4>3, <4>4, MoveFlow DEF Still, Offering, Chunking
        <4>5. CASE toR'[x] = Append(toR[x], FileComplete(x))
          <5> DEFINE p == FileComplete(x)
          <5>1. p \in Packet /\ ~Asks(p) /\ toR'[x] \in {toR[x], Append(toR[x], p)}
            BY <4>5, SentPackets
          <5> HIDE DEF p
          <5> QED
            BY <2>0, <2>2, <5>1, <4>1, <4>3, MoveFlow DEF Still, Offering, Chunking
        <4> QED
          BY <4>2, <4>4, <4>5
      <3>13. CASE HashFile(x)
        <4>1. /\ pc[x] = "hash" /\ pc'[x] = "connect"
              /\ UNCHANGED <<source, file_sz, transferred, chunk_buf, toR, toS, rpc, pkt, rdb>>
          BY <3>0, <3>13 DEF HashFile, Go, netVars, rcvVars
        <4>2. Sending(x)'
          BY <3>0, <4>1 DEF Sending
        <4> QED
          BY <2>0, <2>2, <3>t, <4>1, <4>2, MoveFlow DEF Still, Offering, Chunking
      <3> QED
        BY <1>b, <3>1, <3>2, <3>3, <3>4, <3>5, <3>6, <3>7, <3>8, <3>9, <3>10, <3>11, <3>12,
           <3>13
        DEF send_file
    <2> QED
      BY <2>1, <2>2
  <1> QED
    BY <1>a, <1>b
\* Part of what is under way is read or lost, or the handler moves on.
LEMMA LessFlow ==
    ASSUME TypeOK, NEW x \in Xfer, FlowFor(x),
           toR'[x] \in Seq(Packet), Part(toR'[x], toR[x]), toR[x] = <<>> => toR'[x] = <<>>,
           Len(toS'[x]) \in 0..Len(toS[x]), toS[x] = <<>> => toS'[x] = <<>>,
           \A i \in 1..Len(toS'[x]) : toS'[x][i] = toS[x][i],
           rpc'[x] = rpc[x] \/ (rpc[x] # "none" /\ rpc'[x] \notin {"dispatch", "written", "none"}),
           UNCHANGED <<pc, source, file_sz, transferred, chunk_buf, pkt>>,
           rdb'[x].state # "paused"
    PROVE  FlowFor(x)'
  <1>0. OneAtATime(x) /\ Questions(x) /\ Sending(x) /\ Unpaused(x) /\ Len(toS[x]) \in Nat
    BY DEF FlowFor, TypeOK
  <1>1. toR[x] \in Seq(Packet)
    BY DEF TypeOK
  <1>2. /\ HasAsk(toR'[x]) => HasAsk(toR[x])
        /\ OneAsk(toR[x]) => OneAsk(toR'[x])
        /\ \A i \in 1..Len(toR'[x]) : \E j \in 1..Len(toR[x]) : toR'[x][i] = toR[x][j]
    BY <1>1, PartAsks
  <1>3. /\ AskInHand(x)' => AskInHand(x) /\ (rpc'[x] = "written" => rpc[x] = "written")
        /\ Asking(x)' => Asking(x)
    BY <1>2 DEF AskInHand, Asking
  <1>4. OneAtATime(x)'
    BY <1>0, <1>2, <1>3 DEF OneAtATime
  <1>5. \A p : Apt(x, p) => Apt(x, p)'
    BY DEF Apt, Expected
  <1>6. Questions(x)'
    BY <1>0, <1>2, <1>5 DEF Questions, ChunkIntact
  <1>7. Sending(x)'
    BY <1>0 DEF Sending
  <1>8. Unpaused(x)'
    BY <1>0 DEF Unpaused
  <1> QED
    BY <1>4, <1>6, <1>7, <1>8 DEF FlowFor

\* A stream is a part of itself.
LEMMA WholePart ==
    ASSUME NEW q \in Seq(Packet)
    PROVE  Part(q, q)
  <1>1. \A i \in 1..Len(q) : i + 0 \in 1..Len(q) /\ q[i] = q[i + 0]
    OBVIOUS
  <1> QED
    BY <1>1 DEF Part

\* The handler moves on and the streams stay as they are.
LEMMA IdleFlow ==
    ASSUME TypeOK, NEW x \in Xfer, FlowFor(x), toR'[x] = toR[x], toS'[x] = toS[x],
           rpc'[x] = rpc[x] \/ (rpc[x] # "none" /\ rpc'[x] \notin {"dispatch", "written", "none"}),
           UNCHANGED <<pc, source, file_sz, transferred, chunk_buf, pkt>>,
           rdb'[x].state # "paused"
    PROVE  FlowFor(x)'
  <1>1. /\ toR'[x] \in Seq(Packet) /\ Part(toR'[x], toR[x])
        /\ Len(toS'[x]) \in 0..Len(toS[x])
    BY WholePart DEF TypeOK
  <1> QED
    BY <1>1, LessFlow

\* The handler answers: then nothing is asked any more.
LEMMA ReplyFlow ==
    ASSUME TypeOK, NEW x \in Xfer, FlowFor(x), AskInHand(x) \/ rpc[x] = "written",
           NEW p \in Packet, p.type # "FileResume",
           toS'[x] = WriteFrame(toS[x], net[x], p),
           rpc'[x] \in {"read", "acked"},
           UNCHANGED <<pc, source, file_sz, transferred, chunk_buf, toR, pkt>>,
           rdb'[x].state # "paused"
    PROVE  FlowFor(x)'
  <1>0. OneAtATime(x) /\ Questions(x) /\ Sending(x) /\ Unpaused(x)
    BY DEF FlowFor
  <1>1. toS[x] = <<>> /\ ~HasAsk(toR[x]) /\ OneAsk(toR[x]) /\ Asking(x)
    BY <1>0 DEF OneAtATime, Asking
  <1>2. ~Asking(x)' /\ ~AskInHand(x)'
    BY <1>1 DEF Asking, AskInHand
  <1>3. Len(toS'[x]) <= 1 /\ \A i \in 1..Len(toS'[x]) : toS'[x][i].type # "FileResume"
    <2> DEFINE q == toS[x]
               r == toS'[x]
    <2>1. q \in Seq(Packet) /\ q = <<>> /\ r \in {q, Append(q, p)}
      BY <1>1 DEF WriteFrame, TypeOK
    <2> HIDE DEF q, r
    <2>2. Len(q) = 0
      BY <2>1
    <2>3. Len(Append(q, p)) = 1 /\ Append(q, p)[1] = p
      BY <2>1, <2>2, AppendProperties
    <2>4. Len(r) = 0 \/ (Len(r) = 1 /\ r[1] = p)
      BY <2>1, <2>2, <2>3
    <2>5. Len(r) <= 1 /\ \A i \in 1..Len(r) : r[i] = p
      BY <2>4, LoneFrame
    <2> QED
      BY <2>5 DEF r
  <1>4. OneAtATime(x)'
    BY <1>0, <1>1, <1>2, <1>3 DEF OneAtATime
  <1>5. Questions(x)'
    BY <1>1, SilentApt DEF Questions
  <1>6. Sending(x)'
    <2>1. pc[x] \notin {"idle", "hash", "connect", "refused"}
      BY <1>0, <1>1 DEF OneAtATime
    <2> QED
      BY <1>0, <2>1 DEF Sending
  <1>7. Unpaused(x)'
    BY <1>3 DEF Unpaused
  <1> QED
    BY <1>4, <1>5, <1>6, <1>7 DEF FlowFor
\* Every step of handle_conn keeps the conversations in their course.
LEMMA ReceiverFlow ==
    ASSUME TypeOK, Flow, NEW x \in Xfer, handle_conn(x)
    PROVE  Flow'
  <1> SUFFICES ASSUME NEW y \in Xfer PROVE FlowFor(y)'
    BY DEF Flow
  <1>0. FlowFor(y) /\ FlowFor(x)
    BY DEF Flow
  <1>1. CASE y # x
    <2>1. rdb'[y] = rdb[y]
      BY <1>1 DEF TypeOK, handle_conn, ReadPacket, ReadPacketFails, Resync,
         handle_file_offer, ChunkDropped, handle_file_chunk, AckChunk, CloseOut,
         handle_file_complete, RecordVerdict, Committed, upsert_transfer,
         update_transfer_progress
    <2>2. Unheard(y)
      BY SMTT(30), <1>1, <2>1 DEF Unheard, TypeOK, At, Reply, handle_conn, ReadPacket, ReadPacketFails,
         Resync, handle_file_offer, ChunkDropped, handle_file_chunk, AckChunk, CloseOut,
         handle_file_complete, RecordVerdict, sndVars, netVars, rcvVars
    <2> QED
      BY <1>0, <2>2, UnheardFlow
  <1>2. CASE y = x
    <2>0. /\ Sending(x) /\ OneAtATime(x) /\ Unpaused(x) /\ Questions(x)
          /\ toR[x] \in Seq(Packet) /\ toS[x] \in Seq(Packet) /\ Len(toR[x]) \in Nat
          /\ rdb[x].state # "paused"
      BY <1>0 DEF FlowFor, TypeOK, Unpaused
    <2>1. CASE ReadPacket(x)
      <3>1. /\ rpc[x] = "read" /\ rpc'[x] = "dispatch" /\ toR[x] # <<>>
            /\ pkt'[x] = Head(toR[x]) /\ toR'[x] = Tail(toR[x])
            /\ UNCHANGED <<pc, source, file_sz, transferred, chunk_buf, toS, rdb>>
        BY <2>1 DEF ReadPacket, At, TypeOK, sndVars
      <3> DEFINE q == toR[x]
      <3>2. /\ Tail(q) \in Seq(Packet) /\ Part(Tail(q), q) /\ Head(q) = q[1] /\ 1 \in 1..Len(q)
            /\ Asks(Head(q)) /\ OneAsk(q) => ~HasAsk(Tail(q))
        BY <2>0, <3>1, Parts
      <3>3. /\ HasAsk(Tail(q)) => HasAsk(q)
            /\ OneAsk(q) => OneAsk(Tail(q))
            /\ \A i \in 1..Len(Tail(q)) : \E j \in 1..Len(q) : Tail(q)[i] = q[j]
        BY ZenonT(30), <2>0, <3>2, PartAsks
      <3>4. /\ OneAsk(toR'[x])
            /\ AskInHand(x)' => HasAsk(toR[x]) /\ ~HasAsk(toR'[x])
            /\ HasAsk(toR'[x]) => HasAsk(toR[x])
        BY <2>0, <3>1, <3>2, <3>3 DEF AskInHand, HasAsk, OneAtATime
      <3>5. Asking(x)' => Asking(x)
        BY <3>1, <3>4 DEF Asking
      <3>6. OneAtATime(x)'
        BY <2>0, <3>1, <3>4, <3>5 DEF OneAtATime
      <3>7. \A p : Apt(x, p) => Apt(x, p)'
        BY <3>1 DEF Apt, Expected
      <3>8. Questions(x)'
        BY <2>0, <3>1, <3>2, <3>3, <3>7 DEF Questions
      <3>9. Sending(x)'
        BY <2>0, <3>1 DEF Sending
      <3>10. Unpaused(x)'
        BY <2>0, <3>1 DEF Unpaused
      <3> QED
        BY <1>2, <3>6, <3>8, <3>9, <3>10 DEF FlowFor
    <2>2. CASE \/ ReadPacketFails(x) \/ ChunkDropped(x) \/ CloseOut(x)
               \/ handle_file_complete(x) \/ RecordVerdict(x)
      <3>1. /\ rpc[x] # "none" /\ rpc'[x] \notin {"dispatch", "written", "none"}
            /\ UNCHANGED <<pc, source, file_sz, transferred, chunk_buf, toR, toS, pkt>>
        BY <2>2 DEF ReadPacketFails, ChunkDropped, CloseOut, handle_file_complete,
           RecordVerdict, At, TypeOK, sndVars, netVars
      <3>2. rdb'[x].state # "paused"
        BY SMTT(30), <2>0, <2>2 DEF ReadPacketFails, ChunkDropped, CloseOut, handle_file_complete,
           RecordVerdict, Committed, update_transfer_progress, TypeOK
      <3> QED
        BY <1>0, <1>2, <3>1, <3>2, IdleFlow
    <2>3. CASE Resync(x)
      <3>1. PICK n \in 2..Len(toR[x]) :
                toR' = [toR EXCEPT ![x] = SubSeq(toR[x], n + 1, Len(toR[x]))]
        BY <2>3 DEF Resync
      <3>2. n \in 0..Len(toR[x]) /\ toR[x] # <<>>
        BY <2>0, <3>1
      <3>3. /\ toR'[x] = SubSeq(toR[x], n + 1, Len(toR[x]))
            /\ UNCHANGED <<pc, source, file_sz, transferred, chunk_buf, toS, pkt, rpc, rdb>>
        BY <2>3, <3>1 DEF Resync, sndVars, TypeOK
      <3>4. toR'[x] \in Seq(Packet) /\ Part(toR'[x], toR[x])
        BY <2>0, <3>2, <3>3, Parts
      <3>5. Len(toS'[x]) \in 0..Len(toS[x])
        BY <2>0, <3>3
      <3> QED
        BY <1>0, <1>2, <2>0, <3>2, <3>3, <3>4, <3>5, LessFlow
    <2>4. CASE handle_file_offer(x)
      <3>1. /\ rpc[x] = "dispatch" /\ pkt[x].type = "FileOffer" /\ rpc'[x] = "read"
            /\ toS'[x] = WriteFrame(toS[x], net[x], Control("FileAccept", 0))
            /\ UNCHANGED <<pc, source, file_sz, transferred, chunk_buf, toR, pkt>>
        BY <2>0, <2>4 DEF handle_file_offer, Reply, At, TypeOK, sndVars
      <3>2. rdb'[x].state # "paused"
        BY SMTT(30), <2>0, <2>4 DEF handle_file_offer, Committed, upsert_transfer, TypeOK
      <3>3. PICK p \in Packet : p.type = "FileAccept" /\ p = Control("FileAccept", 0)
        <4>1. Control("FileAccept", 0) \in Packet /\ Control("FileAccept", 0).type = "FileAccept"
          BY ControlType DEF PacketTypes, Control, Pkt
        <4> QED
          BY <4>1
      <3>4. AskInHand(x) /\ toS'[x] = WriteFrame(toS[x], net[x], p)
        BY <3>1, <3>3 DEF AskInHand, Asks
      <3> QED
        BY <1>0, <1>2, <3>1, <3>2, <3>3, <3>4, ReplyFlow
    <2>5. CASE handle_file_chunk(x)
      <3>1. /\ rpc[x] = "dispatch" /\ pkt[x].type = "FileChunk" /\ ChunkIntact(x)
            /\ rpc'[x] = "written"
            /\ UNCHANGED <<pc, source, file_sz, transferred, chunk_buf, toR, toS, pkt, rdb>>
        BY <2>5 DEF handle_file_chunk, At, TypeOK, sndVars, netVars
      <3>2. AskInHand(x) /\ ~HasAsk(toR[x])
        BY <2>0, <3>1 DEF AskInHand, Asks, OneAtATime
      <3>3. Asking(x) /\ ~AskInHand(x)'
        BY <3>1, <3>2 DEF Asking, AskInHand
      <3>4. OneAtATime(x)'
        BY <2>0, <3>1, <3>2, <3>3 DEF OneAtATime
      <3>5. \A p : Apt(x, p) => Apt(x, p)'
        BY <3>1 DEF Apt, Expected
      <3>6. Questions(x)'
        BY <2>0, <3>1, <3>5 DEF Questions, ChunkIntact
      <3>7. Sending(x)'
        BY <2>0, <3>1 DEF Sending
      <3>8. Unpaused(x)'
        BY <2>0, <3>1 DEF Unpaused
      <3> QED
        BY <1>2, <3>4, <3>6, <3>7, <3>8 DEF FlowFor
    <2>6. CASE AckChunk(x)
      <3>1. /\ rpc[x] = "written" /\ rpc'[x] = "acked"
            /\ toS'[x] = WriteFrame(toS[x], net[x],
                            Control("FileChunkAck", pkt[x].off + Len(pkt[x].data)))
            /\ UNCHANGED <<pc, source, file_sz, transferred, chunk_buf, toR, pkt>>
        BY <2>6 DEF AckChunk, Reply, At, TypeOK, sndVars
      <3>2. rdb'[x].state # "paused"
        BY SMTT(30), <2>0, <2>6 DEF AckChunk, Committed, update_transfer_progress, TypeOK
      <3>3. PICK p \in Packet :
                /\ p.type = "FileChunkAck"
                /\ p = Control("FileChunkAck", pkt[x].off + Len(pkt[x].data))
        <4>1. pkt[x].off + Len(pkt[x].data) \in Nat
          <5>1. pkt[x].off \in Nat /\ pkt[x].data \in Seq(Block)
            BY DEF TypeOK, Packet
          <5> QED
            BY <5>1, LenProperties
        <4>2. /\ Control("FileChunkAck", pkt[x].off + Len(pkt[x].data)) \in Packet
              /\ Control("FileChunkAck", pkt[x].off + Len(pkt[x].data)).type = "FileChunkAck"
          BY <4>1, ControlType DEF PacketTypes, Control, Pkt
        <4> QED
          BY <4>2
      <3>4. toS'[x] = WriteFrame(toS[x], net[x], p)
        BY <3>1, <3>3
      <3> QED
        BY <1>0, <1>2, <3>1, <3>2, <3>3, <3>4, ReplyFlow
    <2> QED
      BY <2>1, <2>2, <2>3, <2>4, <2>5, <2>6 DEF handle_conn
  <1> QED
    BY <1>1, <1>2
\* No fault but a rewritten source puts a conversation out of its course.
LEMMA EnvironmentFlow ==
    ASSUME TypeOK, Flow, "edit" \notin Faults, Environment
    PROVE  Flow'
  <1> SUFFICES ASSUME NEW y \in Xfer PROVE FlowFor(y)'
    BY DEF Flow
  <1>0. /\ FlowFor(y) /\ Sending(y) /\ OneAtATime(y) /\ Unpaused(y) /\ Questions(y)
        /\ toR[y] \in Seq(Packet) /\ toS[y] \in Seq(Packet)
        /\ Len(toR[y]) \in Nat /\ Len(toS[y]) \in Nat /\ rdb[y].state # "paused"
    BY DEF Flow, FlowFor, TypeOK, Unpaused
  <1>a. ASSUME Unheard(y) PROVE FlowFor(y)'
    BY <1>0, <1>a, UnheardFlow
  <1>1. ASSUME NEW x \in Xfer, ConnReset(x)
        PROVE  FlowFor(y)'
    <2>1. CASE y # x
      BY <1>1, <1>a, <2>1 DEF ConnReset, Unheard, sndVars, rcvVars, TypeOK
    <2>2. CASE y = x
      <3>1. PICK n \in 0..Len(toR[x]) : toR' = [toR EXCEPT ![x] = SubSeq(@, 1, n)]
        BY <1>1 DEF ConnReset
      <3>2. PICK m \in 0..Len(toS[x]) : toS' = [toS EXCEPT ![x] = SubSeq(@, 1, m)]
        BY <1>1 DEF ConnReset
      <3>3. /\ toR'[x] = SubSeq(toR[x], 1, n) /\ toS'[x] = SubSeq(toS[x], 1, m)
            /\ UNCHANGED <<pc, source, file_sz, transferred, chunk_buf, pkt, rpc, rdb>>
        BY <1>1, <3>1, <3>2 DEF ConnReset, sndVars, rcvVars, TypeOK
      <3>4. toR'[x] \in Seq(Packet) /\ Part(toR'[x], toR[x])
        BY <1>0, <2>2, <3>3, Parts
      <3>5. toR[x] = <<>> => toR'[x] = <<>>
        BY <1>0, <2>2, <3>3
      <3>6. /\ Len(toS'[x]) \in 0..Len(toS[x])
            /\ \A i \in 1..Len(toS'[x]) : toS'[x][i] = toS[x][i]
        BY <1>0, <2>2, <3>3
      <3>7. toS[x] = <<>> => toS'[x] = <<>>
        BY <1>0, <2>2, <3>3
      <3> QED
        BY <1>0, <2>2, <3>3, <3>4, <3>5, <3>6, <3>7, LessFlow
    <2> QED
      BY <2>1, <2>2
  <1>2. ASSUME NEW x \in Xfer, Corrupt(x)
        PROVE  FlowFor(y)'
    <2>1. CASE y # x
      BY <1>2, <1>a, <2>1 DEF Corrupt, Unheard, sndVars, rcvVars, TypeOK
    <2>2. CASE y = x
      <3> DEFINE q == toR[y]
                 r == toR'[y]
      <3>1. /\ q \in Seq(Packet) /\ q # <<>> /\ Head(q).type = "FileChunk"
            /\ UNCHANGED <<pc, source, file_sz, transferred, chunk_buf, toS, pkt, rpc, rdb>>
        BY <1>0, <1>2, <2>2 DEF Corrupt, sndVars, rcvVars
      <3>2. PICK b \in Block : toR' = [toR EXCEPT ![x] =
                                <<[Head(@) EXCEPT !.data = <<b>>]>> \o Tail(@)]
        BY <1>2 DEF Corrupt
      <3>3. r = <<[Head(q) EXCEPT !.data = <<b>>]>> \o Tail(q)
        BY <2>2, <3>2 DEF TypeOK
      <3>4. <<b>> \in Seq(Block)
        OBVIOUS
      <3>5. /\ Apt(y, Head(q)) /\ Head(q) = q[1]
            /\ \A i \in 1..Len(q) : Apt(y, q[i])
        BY <1>0, <3>1, Parts DEF Questions
      <3>6. toR[y] = q /\ toR'[y] = r
        OBVIOUS
      <3> HIDE DEF q, r
      <3> DEFINE d == <<b>>
                 h == [Head(q) EXCEPT !.data = d]
      <3>7. d \in Seq(Block) /\ r = <<h>> \o Tail(q) /\ \E c \in Block : d = <<c>>
        BY <3>3, <3>4
      <3> HIDE DEF d
      <3>h. /\ h.type = Head(q).type /\ h.off = Head(q).off /\ h.sum = Head(q).sum
            /\ h.data = d /\ h \in Packet
        <4>1. Head(q) \in Packet
          BY <3>1
        <4> QED
          BY <3>7, <4>1 DEF Packet
      <3> HIDE DEF h
      <3>8. /\ Len(r) = Len(q) /\ r[1] = h
            /\ \A i \in 2..Len(q) : r[i] = q[i]
            /\ HasAsk(r) <=> HasAsk(q)
            /\ OneAsk(r) <=> OneAsk(q)
        <4>1. q \in Seq(Packet) /\ q # <<>> /\ h.type = Head(q).type /\ h \in Packet
          BY <3>1, <3>h
        <4>2. r = <<h>> \o Tail(q)
          BY <3>7
        <4>3. r \in Seq(Packet)
          BY <4>1, <4>2
        <4>4. Len(r) = Len(q) /\ r[1] = h
          BY <4>1, <4>2, <4>3, AlterHead
        <4>5. \A i \in 2..Len(q) : r[i] = q[i]
          BY <4>1, <4>2, <4>3, AlterHead
        <4>6. HasAsk(r) <=> HasAsk(q)
          BY <4>1, <4>2, <4>3, AlterHead
        <4>7. OneAsk(r) <=> OneAsk(q)
          BY <4>1, <4>2, <4>3, AlterHead
        <4> QED
          BY <4>4, <4>5, <4>6, <4>7
      <3>9. OneAtATime(y)'
        BY <1>0, <3>1, <3>6, <3>8 DEF OneAtATime, Asking, AskInHand
      <3>10. Apt(y, h)
        BY <3>1, <3>5, <3>7, <3>h DEF Apt, Expected
      <3>11. \A i \in 1..Len(r) : Apt(y, r[i])
        BY <1>0, <3>5, <3>6, <3>8, <3>10
      <3>12. \A p : Apt(y, p) => Apt(y, p)'
        BY <3>1 DEF Apt, Expected
      <3>13. \A i \in 1..Len(toR'[y]) : \E p : p = toR'[y][i] /\ Apt(y, p)
        BY <3>6, <3>11
      <3>14. Questions(y)'
        BY <1>0, <3>1, <3>12, <3>13 DEF Questions, ChunkIntact
      <3>15. Sending(y)'
        BY <1>0, <3>1, <3>6 DEF Sending
      <3>16. Unpaused(y)'
        BY <1>0, <3>1 DEF Unpaused
      <3> QED
        BY <3>9, <3>14, <3>15, <3>16 DEF FlowFor
    <2> QED
      BY <2>1, <2>2
  <1>3. ASSUME NEW p \in Proc, SenderCrash(p)
        PROVE  FlowFor(y)'
    BY <1>3, KillFlow DEF SenderCrash, Flow
  <1>4. CASE ReceiverCrash
    <2>1. /\ UNCHANGED <<pc, source, file_sz, transferred, chunk_buf, toR, toS, pkt, rdb>>
          /\ rpc'[y] = rpc[y] \/ (rpc[y] # "none" /\ rpc'[y] = "closed")
      BY <1>4 DEF ReceiverCrash, Serving, sndVars
    <2> QED
      BY <1>0, <2>1, IdleFlow
  <1>5. CASE ReceiverRestart
    BY <1>5, <1>a DEF ReceiverRestart, Unheard, sndVars, netVars
  <1>6. ASSUME NEW s \in Side, NEW x \in Xfer, CancelRead(s, x)
        PROVE  FlowFor(y)'
    BY <1>6, <1>a DEF CancelRead, Unheard, sndVars, netVars, rcvVars
  <1>7. ASSUME NEW s \in Side, NEW x \in Xfer, CancelWrite(s, x)
        PROVE  FlowFor(y)'
    <2>1. rdb'[y].state # "paused"
      <3>1. \/ rdb' = rdb
            \/ rdb' = update_transfer_progress(rdb, x, canc[s][x].got, "cancelled")
        BY <1>7 DEF CancelWrite, Committed
      <3>2. rdb \in [Xfer -> Row]
        BY DEF TypeOK
      <3>3. update_transfer_progress(rdb, x, canc[s][x].got, "cancelled")[y].state
                \in {rdb[y].state, "cancelled"}
        BY <3>2 DEF update_transfer_progress
      <3> QED
        BY <1>0, <3>1, <3>3
    <2> QED
      BY <1>7, <1>a, <2>1 DEF CancelWrite, Unheard, netVars
  <1>8. ASSUME NEW s \in Side, NEW stale \in SUBSET Xfer, Clean(s, stale)
        PROVE  FlowFor(y)'
    <2>1. rdb'[y].state # "paused"
      <3>1. rdb' = rdb \/ rdb' = delete_stale_transfers(rdb, stale)
        BY <1>8 DEF Clean, Committed
      <3>2. delete_stale_transfers(rdb, stale)[y].state \in {rdb[y].state, "absent"}
        BY DEF delete_stale_transfers, NoRow
      <3> QED
        BY <1>0, <3>1, <3>2
    <2> QED
      BY <1>8, <1>a, <2>1 DEF Clean, Unheard, netVars
  <1> QED
    BY <1>1, <1>2, <1>3, <1>4, <1>5, <1>6, <1>7, <1>8 DEF Environment, EditSource

LEMMA NextFlow == TypeOK /\ Flow /\ "edit" \notin Faults /\ [Next]_vars => Flow'
  <1> SUFFICES ASSUME TypeOK, Flow, "edit" \notin Faults, [Next]_vars PROVE Flow'
    OBVIOUS
  <1>1. CASE UNCHANGED vars
    <2>1. \A y \in Xfer : FlowFor(y) /\ Unheard(y)
      BY <1>1 DEF vars, sndVars, netVars, rcvVars, Unheard, Flow
    <2> QED
      BY <2>1, UnheardFlow DEF Flow
  <1> QED
    BY <1>1, SenderFlow, ReceiverFlow, EnvironmentFlow DEF Next
----------------------------------------------------------------------------
(* AckedIsStored. What the receiver holds of a file, on its disk and in    *)
(* the buffer of `out`, is compared with the source block by block.        *)

Data(x) == file[FileName[x]].data
Held(x) == Len(Data(x)) + Len(out_buf[x])

\* What is held is the beginning of the source.
HeldIntact(x) ==
    /\ Held(x) <= Len(source[x])
    /\ \A i \in 1..Len(Data(x)) : Data(x)[i] = source[x][i]
    /\ \A i \in 1..Len(out_buf[x]) : out_buf[x][i] = source[x][Len(Data(x)) + i]

\* send_file has no chunk under way.
Early == {"idle", "hash", "connect", "refused", "waitResp", "loop", "send"}

\* The receiver is at most one chunk ahead of the sender, and it is ahead from
\* the moment it has written a chunk until the sender has taken the answer.
StoredFor(x) ==
    /\ HeldIntact(x)
    /\ Held(x) \in {transferred[x], transferred[x] + 1}
    /\ pc[x] \in Early \/ HasAsk(toR[x]) \/ AskInHand(x) => Held(x) = transferred[x]
    /\ rpc[x] = "written" => Held(x) = transferred[x] + 1
    /\ pc[x] \in Streaming /\ toS[x] # <<>> => Held(x) = transferred[x] + 1

\* `out` has a buffer only while handle_file_chunk runs.
Buffered(x) == rpc[x] \notin {"written", "acked"} => out_buf[x] = <<>>

StoredInv == \A x \in Xfer : Buffered(x) /\ (Alone(x) => StoredFor(x))

\* The receiver's disk works and its process lives, and nobody rewrites the
\* source.
Steady == {"edit", "disk", "crashR"} \cap Faults = {}

LEMMA InitStored == Init => StoredInv
  <1> SUFFICES ASSUME Init, NEW x \in Xfer PROVE Buffered(x) /\ StoredFor(x)
    BY DEF StoredInv
  <1>1. /\ pc[x] = "idle" /\ toR[x] = <<>> /\ toS[x] = <<>> /\ rpc[x] = "none"
        /\ transferred[x] = 0 /\ source[x] \in Seq(Block) /\ out_buf[x] = <<>>
        /\ Data(x) = <<>>
    BY ContentsAssumption, XferAssumption DEF Init, Data, NoFile
  <1>2. Len(<<>>) = 0 /\ Len(source[x]) \in Nat
    BY <1>1, LenProperties
  <1>3. Held(x) = 0
    BY <1>1, <1>2 DEF Held
  <1>4. HeldIntact(x)
    BY <1>1, <1>2, <1>3 DEF HeldIntact
  <1> QED
    BY <1>1, <1>3, <1>4 DEF Buffered, StoredFor, Streaming

\* What the receiver holds and what the sender counts stay as they are.
LEMMA KeepStored ==
    ASSUME NEW x \in Xfer, StoredFor(x),
           Data(x)' = Data(x), out_buf'[x] = out_buf[x],
           source'[x] = source[x], transferred'[x] = transferred[x],
           pc'[x] \in Early => pc[x] \in Early,
           HasAsk(toR'[x]) \/ AskInHand(x)' => pc[x] \in Early \/ HasAsk(toR[x]) \/ AskInHand(x),
           rpc'[x] = "written" => rpc[x] = "written",
           pc'[x] \in Streaming /\ toS'[x] # <<>>
              => (pc[x] \in Streaming /\ toS[x] # <<>>) \/ rpc[x] = "written"
    PROVE  StoredFor(x)'
  <1>1. Held(x)' = Held(x)
    BY DEF Held
  <1>2. HeldIntact(x)'
    BY <1>1 DEF StoredFor, HeldIntact
  <1> QED
    BY <1>1, <1>2 DEF StoredFor

\* send_file acts: the receiver holds what it held.
LEMMA SenderStored ==
    ASSUME TypeOK, Flow, Flow', StoredInv, NEW x \in Xfer, send_file(x)
    PROVE  StoredInv'
  <1> SUFFICES ASSUME NEW y \in Xfer PROVE Buffered(y)' /\ (Alone(y)' => StoredFor(y)')
    BY DEF StoredInv
  <1>0. /\ Buffered(y) /\ (Alone(y) => StoredFor(y)) /\ FlowFor(y) /\ FlowFor(y)'
        /\ pc \in [Xfer -> SenderPc] /\ transferred \in [Xfer -> Nat]
    BY DEF StoredInv, Flow, TypeOK
  <1>1. UNCHANGED <<file, out_buf>> /\ Data(y)' = Data(y) /\ (Alone(y)' <=> Alone(y))
    BY DEF send_file, BrokenPipe, Kill, SendRefused, SendBegin, HashFile, Data, Alone,
       SendOffer, ConnectFails, NoResponse, OfferAbandoned, StartStreaming, ReadChunk,
       EndOfFile, SendChunk, ChunkSendFails, ChunkAcked, ChunkNotAcked, SendComplete,
       SendFinish, rcvVars
  <1>2. Buffered(y)'
    <2>1. rpc'[y] = rpc[y] \/ (rpc[y] = "none" /\ rpc'[y] = "read")
      BY ZenonT(30), <1>0 DEF FlowFor, Sending, TypeOK, send_file, BrokenPipe, Kill, SendRefused, SendBegin, HashFile,
         SendOffer, ConnectFails, NoResponse, OfferAbandoned, StartStreaming, ReadChunk,
         EndOfFile, SendChunk, ChunkSendFails, ChunkAcked, ChunkNotAcked, SendComplete,
         SendFinish, rcvVars
    <2> QED
      BY <1>0, <1>1, <2>1 DEF Buffered
  <1>3. ASSUME Alone(y)' PROVE StoredFor(y)'
    <2>0. StoredFor(y)
      BY <1>0, <1>1, <1>3
    <2>1. CASE BrokenPipe(x)
      <3>1. /\ pc'[y] \in {pc[y], "crashed"}
            /\ UNCHANGED <<source, transferred, toR, toS, rpc, pkt, out_buf>>
        BY <2>1 DEF BrokenPipe, Kill, netVars, rcvVars
      <3> QED
        BY <1>1, <2>0, <3>1, KeepStored DEF AskInHand, Early, Streaming
    <2>2. CASE y # x /\ ~BrokenPipe(x)
      <3>1. /\ pc'[y] = pc[y] /\ source'[y] = source[y] /\ transferred'[y] = transferred[y]
            /\ toR'[y] = toR[y] /\ toS'[y] = toS[y] /\ rpc'[y] = rpc[y] /\ pkt'[y] = pkt[y]
        BY SMTT(30), <2>2 DEF TypeOK, Go, send_file, SendRefused, SendBegin, HashFile,
           SendOffer, ConnectFails, NoResponse, OfferAbandoned, StartStreaming, ReadChunk,
           EndOfFile, SendChunk, ChunkSendFails, GiveUp, ChunkAcked, ChunkNotAcked,
           SendComplete, SendFinish, sndVars, netVars, rcvVars
      <3> QED
        BY <1>1, <2>0, <3>1, KeepStored DEF AskInHand
    <2>3. CASE /\ y = x
               /\ \/ SendRefused(x) \/ SendBegin(x) \/ HashFile(x)
                  \/ ConnectFails(x) \/ NoResponse(x) \/ ReadChunk(x)
                  \/ EndOfFile(x) \/ ChunkNotAcked(x) \/ SendFinish(x)
      <3>1. /\ pc'[x] \in Early => pc[x] \in Early
            /\ pc'[x] \in Streaming => pc[x] \in Streaming
            /\ UNCHANGED <<source, transferred, toR, toS, rpc, pkt>>
        BY <1>0, <2>3 DEF Go, SendRefused, SendBegin, HashFile, ConnectFails, NoResponse, ReadChunk,
           EndOfFile, ChunkNotAcked, SendFinish, netVars, rcvVars, Early, Streaming
      <3> QED
        BY <1>1, <2>0, <2>3, <3>1, KeepStored DEF AskInHand
    <2>4. CASE y = x /\ (SendOffer(x) \/ SendChunk(x))
      <3>1. /\ pc[x] \in Early /\ (pc'[x] \in Streaming => pc[x] \in Streaming)
            /\ rpc'[x] \in {rpc[x], "read"}
            /\ UNCHANGED <<source, transferred, toS, pkt>>
        BY <1>0, <2>4 DEF TypeOK, Go, SendOffer, SendChunk, rcvVars, Early, Streaming
      <3> QED
        BY <1>1, <2>0, <2>4, <3>1, KeepStored
    <2>5. CASE y = x /\ (ChunkSendFails(x) \/ SendComplete(x))
      <3>1. /\ pc'[x] \in Early => pc[x] \in Early
            /\ pc'[x] \in Streaming => pc[x] \in Streaming
            /\ UNCHANGED <<source, transferred, toS, rpc, pkt>>
        BY <1>0, <2>5 DEF Go, ChunkSendFails, GiveUp, SendComplete, rcvVars, Early, Streaming
      <3>2. HasAsk(toR'[x]) => HasAsk(toR[x])
        <4> DEFINE q == toR[x]
                   r == toR'[x]
        <4>1. q \in Seq(Packet) /\ r \in {q, Append(q, Torn), Append(q, FileComplete(x))}
          BY <2>5 DEF ChunkSendFails, SendComplete, SendUnchecked, WriteFrame, TypeOK
        <4> HIDE DEF q, r
        <4>2. PICK p \in Packet : ~Asks(p) /\ r \in {q, Append(q, p)}
          BY <4>1, SentPackets
        <4>3. HasAsk(r) => HasAsk(q)
          BY <4>1, <4>2, MaybeFrame
        <4> QED
          BY <4>3 DEF q, r
      <3> QED
        BY <1>1, <2>0, <2>5, <3>1, <3>2, KeepStored DEF AskInHand
    <2>6. CASE y = x /\ OfferAbandoned(x)
      <3>1. /\ pc'[x] = "failed" /\ UNCHANGED <<source, transferred, toR, rpc, pkt>>
        BY <1>0, <2>6 DEF Go, OfferAbandoned, rcvVars
      <3> QED
        BY <1>1, <2>0, <2>6, <3>1, KeepStored DEF AskInHand, Early, Streaming
    <2>7. CASE y = x /\ StartStreaming(x)
      <3>1. /\ pc[x] = "waitResp" /\ pc'[x] = "loop" /\ toS[x] # <<>> /\ toS[x] \in Seq(Packet)
            /\ UNCHANGED <<source, toR, rpc, pkt>>
        BY <1>0, <2>7 DEF Go, StartStreaming, rcvVars, TypeOK
      <3>2. Head(toS[x]).type # "FileResume"
        BY <1>0, <2>7, <3>1 DEF FlowFor, Unpaused
      <3>3. transferred'[x] = transferred[x]
        BY <1>0, <2>7, <3>1, <3>2 DEF StartStreaming, FlowFor, Sending
      <3>4. toS'[x] = <<>>
        BY <1>0, <2>7, <3>1 DEF FlowFor, OneAtATime
      <3> QED
        BY <1>1, <2>0, <2>7, <3>1, <3>3, <3>4, KeepStored DEF AskInHand, Early
    <2>8. CASE y = x /\ ChunkAcked(x)
      <3>1. /\ pc[x] = "waitAck" /\ pc'[x] = "loop" /\ toS[x] # <<>>
            /\ transferred'[x] = transferred[x] + 1
            /\ UNCHANGED <<source, toR, rpc, pkt>>
        BY <1>0, <2>8 DEF Go, ChunkAcked, rcvVars
      <3>2. toS'[x] = <<>> /\ rpc[x] # "written"
        BY <1>0, <2>8, <3>1 DEF FlowFor, OneAtATime, Asking
      <3>3. Held(x) = transferred[x] + 1 /\ Held(x)' = Held(x)
        BY <1>1, <2>0, <2>8, <3>1 DEF StoredFor, Streaming, Held
      <3>4. HeldIntact(x)'
        BY <1>1, <2>0, <2>8, <3>1, <3>3 DEF StoredFor, HeldIntact
      <3> QED
        BY <2>8, <3>1, <3>2, <3>3, <3>4 DEF StoredFor
    <2> QED
      BY <2>1, <2>2, <2>3, <2>4, <2>5, <2>6, <2>7, <2>8 DEF send_file
  <1> QED
    BY <1>2, <1>3
\* A block is written behind the data f of a file, directly or by way of the
\* buffer of `out`.
LEMMA WriteBlock ==
    ASSUME NEW f \in Seq(Block), NEW b \in Block, NEW e, e = <<>>
    PROVE  /\ f \o <<b>> \in Seq(Block) /\ Len(f \o <<b>>) = Len(f) + 1
           /\ \A i \in 1..Len(f) : (f \o <<b>>)[i] = f[i]
           /\ (f \o <<b>>)[Len(f) + 1] = b
           /\ Len(<<b>>) = 1 /\ <<b>>[1] = b /\ Len(e) = 0
  <1>1. <<b>> \in Seq(Block) /\ Len(<<b>>) = 1 /\ <<b>>[1] = b /\ Len(f) \in Nat
    BY LenProperties
  <1>2. Len(e) = 0
    OBVIOUS
  <1> DEFINE s == <<b>>
  <1> HIDE DEF s
  <1>3. /\ f \o s \in Seq(Block)
        /\ Len(f \o s) = Len(f) + Len(s)
        /\ \A i \in 1..Len(f) + Len(s) :
              (f \o s)[i] = IF i <= Len(f) THEN f[i] ELSE s[i - Len(f)]
    BY <1>1, ConcatProperties DEF s
  <1>4. /\ Len(f \o s) = Len(f) + 1
        /\ \A i \in 1..Len(f) : (f \o s)[i] = f[i]
        /\ (f \o s)[Len(f) + 1] = b
    BY <1>1, <1>3 DEF s
  <1> QED
    BY <1>1, <1>2, <1>3, <1>4 DEF s

\* handle_file_chunk writes the block that follows what is held.
LEMMA ChunkStored ==
    ASSUME TypeOK, NEW x \in Xfer, FlowFor(x), Buffered(x), StoredFor(x),
           handle_file_chunk(x)
    PROVE  StoredFor(x)'
  <1>0. /\ Data(x) \in Seq(Block) /\ source[x] \in Seq(Block) /\ transferred[x] \in Nat
        /\ Len(Data(x)) \in Nat /\ Len(source[x]) \in Nat
    BY XferAssumption DEF TypeOK, Data, File
  <1>1. /\ rpc[x] = "dispatch" /\ pkt[x].type = "FileChunk" /\ ChunkIntact(x)
        /\ rpc'[x] = "written"
        /\ UNCHANGED <<pc, source, transferred, toR, toS, pkt>>
    BY DEF handle_file_chunk, At, TypeOK, sndVars, netVars
  <1>2. Apt(x, pkt[x]) /\ AskInHand(x) /\ ~HasAsk(toR[x]) /\ toS[x] = <<>> /\ pc[x] \notin Still
    BY <1>1 DEF FlowFor, Questions, OneAtATime, AskInHand, Asks, Asking, Still
  <1>3. /\ pkt[x].off = transferred[x] /\ transferred[x] < Len(source[x])
        /\ pkt[x].sum = Sha256(<<source[x][transferred[x] + 1]>>)
        /\ pc[x] \in Chunking
    BY <1>1, <1>2 DEF Apt, Expected
  <1>4. PICK b \in Block : b = source[x][transferred[x] + 1] /\ pkt[x].data = <<b>>
    <2>1. source[x][transferred[x] + 1] \in Block
      BY <1>0, <1>3
    <2>2. pkt[x].data = <<source[x][transferred[x] + 1]>>
      BY <1>1, <1>3 DEF ChunkIntact, Sha256
    <2> QED
      BY <2>1, <2>2
  <1>5. out_buf[x] = <<>> /\ Len(out_buf[x]) = 0
    BY <1>1 DEF Buffered
  <1>6. Held(x) = transferred[x] /\ Len(Data(x)) = transferred[x]
    BY <1>0, <1>2, <1>5 DEF StoredFor, Held
  <1> DEFINE f == Opened(x)
             g == Data(x)'
             o == out_buf'[x]
             s == source[x]
             n == transferred[x]
  <1>7. f = Data(x)
    <2>1. CASE pkt[x].off = 0
      BY <1>0, <1>3, <1>6, <2>1, EmptySeq DEF Opened
    <2>2. CASE pkt[x].off # 0
      BY <2>2 DEF Opened, Data, Dest
    <2> QED
      BY <2>1, <2>2
  <1>8. \/ g = f \o <<b>> /\ o = <<>>
        \/ g = f /\ o = <<b>>
    <2>1. file \in [Name -> File] /\ FileName[x] \in Name /\ out_buf \in [Xfer -> Seq(Block)]
      BY XferAssumption DEF TypeOK
    <2>2. CASE /\ file' = [file EXCEPT ![Dest(x)] =
                              [exists |-> TRUE, data |-> Opened(x) \o pkt[x].data]]
               /\ UNCHANGED out_buf
      BY <1>4, <1>5, <2>1, <2>2 DEF Data, Dest
    <2>3. CASE /\ file' = [file EXCEPT ![Dest(x)] = [exists |-> TRUE, data |-> Opened(x)]]
               /\ out_buf' = [out_buf EXCEPT ![x] = pkt[x].data]
      BY <1>4, <1>5, <2>1, <2>3 DEF Data, Dest
    <2> QED
      BY <2>2, <2>3 DEF handle_file_chunk
  <1>9. /\ f \in Seq(Block) /\ Len(f) = n /\ n \in Nat /\ n < Len(s) /\ Len(s) \in Nat
        /\ b = s[n + 1] /\ \A i \in 1..n : f[i] = s[i]
    BY <1>0, <1>3, <1>4, <1>6, <1>7 DEF StoredFor, HeldIntact
  <1> HIDE DEF f, g, o, s, n
  <1>10. /\ Len(g) + Len(o) = n + 1
         /\ \A i \in 1..Len(g) : g[i] = s[i]
         /\ \A i \in 1..Len(o) : o[i] = s[Len(g) + i]
    <2>1. CASE g = f \o <<b>> /\ o = <<>>
      <3>1. /\ Len(g) = n + 1 /\ g[n + 1] = b /\ Len(o) = 0
            /\ \A i \in 1..n : g[i] = f[i]
        BY <1>9, <2>1, WriteBlock
      <3> QED
        BY <1>9, <3>1
    <2>2. CASE g = f /\ o = <<b>>
      <3>1. /\ Len(o) = 1 /\ o[1] = b /\ Len(g) = n
            /\ \A i \in 1..n : g[i] = f[i]
        BY <1>9, <2>2, WriteBlock
      <3> QED
        BY <1>9, <3>1
    <2> QED
      BY <1>8, <2>1, <2>2
  <1>11. Held(x)' = transferred[x] + 1
    BY <1>10 DEF Held, g, o, n
  <1>12. HeldIntact(x)'
    <2>1. source'[x] = s
      BY <1>1 DEF s
    <2> QED
      BY <1>9, <1>10, <1>11, <2>1 DEF HeldIntact, g, o, n
  <1>13. ~AskInHand(x)' /\ pc[x] \notin Early
    BY <1>1, <1>3 DEF AskInHand, Chunking, Early
  <1> QED
    BY <1>0, <1>1, <1>2, <1>11, <1>12, <1>13 DEF StoredFor
\* CloseOut moves what `out` has buffered behind the data of the file.
LEMMA CloseStored ==
    ASSUME TypeOK, NEW x \in Xfer, "disk" \notin Faults, StoredFor(x), CloseOut(x)
    PROVE  StoredFor(x)'
  <1>0. /\ Data(x) \in Seq(Block) /\ out_buf[x] \in Seq(Block)
        /\ file \in [Name -> File] /\ FileName[x] \in Name
        /\ Len(Data(x)) \in Nat /\ Len(out_buf[x]) \in Nat
    BY XferAssumption DEF TypeOK, Data, File
  <1>1. /\ rpc[x] = "acked" /\ rpc'[x] = "read"
        /\ UNCHANGED <<pc, source, transferred, toR, toS, pkt>>
    BY DEF CloseOut, At, TypeOK, sndVars, netVars
  <1>2. Data(x)' = Data(x) \o out_buf[x]
    BY <1>0 DEF CloseOut, Data, Dest, File
  <1>3. out_buf'[x] = <<>>
    BY DEF CloseOut, TypeOK
  <1> DEFINE f == Data(x)
             o == out_buf[x]
             g == Data(x)'
             e == out_buf'[x]
             s == source[x]
  <1>4. /\ f \in Seq(Block) /\ o \in Seq(Block) /\ g = f \o o /\ e = <<>>
        /\ Len(f) \in Nat /\ Len(o) \in Nat
        /\ Len(f) + Len(o) <= Len(s)
        /\ \A i \in 1..Len(f) : f[i] = s[i]
        /\ \A i \in 1..Len(o) : o[i] = s[Len(f) + i]
    BY <1>0, <1>2, <1>3 DEF StoredFor, HeldIntact, Held
  <1> HIDE DEF f, o, g, e, s
  <1>5. /\ Len(g) = Len(f) + Len(o) /\ Len(e) = 0
        /\ \A i \in 1..Len(f) + Len(o) : g[i] = IF i <= Len(f) THEN f[i] ELSE o[i - Len(f)]
    BY <1>4, ConcatProperties
  <1>6. \A i \in 1..Len(g) : g[i] = s[i]
    <2> SUFFICES ASSUME NEW i \in 1..Len(g) PROVE g[i] = s[i]
      OBVIOUS
    <2>1. CASE i <= Len(f)
      BY <1>4, <1>5, <2>1
    <2>2. CASE i > Len(f)
      <3>1. i - Len(f) \in 1..Len(o) /\ Len(f) + (i - Len(f)) = i
        BY <1>4, <1>5, <2>2
      <3>2. g[i] = o[i - Len(f)]
        BY <1>4, <1>5, <2>2
      <3>3. o[i - Len(f)] = s[Len(f) + (i - Len(f))]
        BY <1>4, <3>1
      <3> QED
        BY <3>1, <3>2, <3>3
    <2> QED
      BY <1>4, <1>5, <2>1, <2>2
  <1>7. Held(x)' = Held(x)
    BY <1>4, <1>5 DEF Held, f, o, g, e
  <1>8. HeldIntact(x)'
    <2>1. source'[x] = s
      BY <1>1 DEF s
    <2>2. Held(x)' <= Len(s)
      BY <1>4, <1>7 DEF Held, f, o
    <2>3. \A i \in 1..Len(e) : e[i] = s[Len(g) + i]
      BY <1>5
    <2> QED
      BY <1>6, <2>1, <2>2, <2>3 DEF HeldIntact, g, e
  <1> QED
    BY <1>1, <1>7, <1>8 DEF StoredFor, AskInHand

\* handle_conn acts: what it holds grows by the chunk it is sent, if at all.
LEMMA ReceiverStored ==
    ASSUME TypeOK, Flow, StoredInv, "disk" \notin Faults, NEW x \in Xfer, handle_conn(x)
    PROVE  StoredInv'
  <1> SUFFICES ASSUME NEW y \in Xfer PROVE Buffered(y)' /\ (Alone(y)' => StoredFor(y)')
    BY DEF StoredInv
  <1>0. /\ Buffered(y) /\ (Alone(y) => StoredFor(y)) /\ FlowFor(y)
        /\ (Alone(y)' <=> Alone(y))
    BY DEF StoredInv, Flow, Alone
  <1>1. Buffered(y)'
    BY SMTT(30), <1>0 DEF Buffered, TypeOK, At, handle_conn, ReadPacket, ReadPacketFails, Resync,
       handle_file_offer, ChunkDropped, handle_file_chunk, AckChunk, CloseOut,
       handle_file_complete, RecordVerdict
  <1>2. ASSUME Alone(y)' PROVE StoredFor(y)'
    <2>0. StoredFor(y)
      BY <1>0, <1>2
    <2>1. CASE y # x
      <3>1. FileName[y] # FileName[x] /\ FileName[y] \in Name /\ FileName[x] \in Name
        BY <1>2, <2>1, XferAssumption DEF Alone
      <3>2. Data(y)' = Data(y)
        BY <3>1 DEF Data, Dest, TypeOK, handle_conn, ReadPacket, ReadPacketFails, Resync,
           handle_file_offer, ChunkDropped, handle_file_chunk, AckChunk, CloseOut,
           handle_file_complete, RecordVerdict
      <3>3. /\ UNCHANGED <<pc, source, transferred>>
            /\ toR'[y] = toR[y] /\ toS'[y] = toS[y] /\ rpc'[y] = rpc[y]
            /\ pkt'[y] = pkt[y] /\ out_buf'[y] = out_buf[y]
        BY SMTT(30), <2>1 DEF TypeOK, At, Reply, handle_conn, ReadPacket, ReadPacketFails,
           Resync, handle_file_offer, ChunkDropped, handle_file_chunk, AckChunk, CloseOut,
           handle_file_complete, RecordVerdict, sndVars, netVars
      <3> QED
        BY <2>0, <3>2, <3>3, KeepStored DEF AskInHand
    <2>2. CASE y = x /\ ReadPacket(x)
      <3>1. /\ toR[x] # <<>> /\ toR[x] \in Seq(Packet) /\ rpc'[x] = "dispatch"
            /\ pkt'[x] = Head(toR[x]) /\ toR'[x] = Tail(toR[x])
            /\ UNCHANGED <<pc, source, transferred, toS, out_buf, file>>
        BY <2>2 DEF ReadPacket, At, TypeOK, sndVars
      <3> DEFINE q == toR[x]
      <3>2. HasAsk(Tail(q)) \/ Asks(Head(q)) => HasAsk(q)
        <4>1. /\ Tail(q) \in Seq(Packet) /\ Part(Tail(q), q) /\ Head(q) = q[1]
              /\ 1 \in 1..Len(q)
          BY <3>1, Parts
        <4>2. HasAsk(Tail(q)) => HasAsk(q)
          BY <3>1, <4>1, PartAsks
        <4> QED
          BY <4>1, <4>2 DEF HasAsk
      <3>3. HasAsk(toR'[x]) \/ AskInHand(x)' => HasAsk(toR[x])
        BY <3>1, <3>2 DEF AskInHand
      <3> QED
        BY <2>0, <2>2, <3>1, <3>3, KeepStored DEF Data
    <2>3. CASE /\ y = x
               /\ \/ ReadPacketFails(x) \/ ChunkDropped(x)
                  \/ handle_file_complete(x) \/ RecordVerdict(x)
      <3>1. /\ rpc'[x] \notin {"dispatch", "written"}
            /\ UNCHANGED <<pc, source, transferred, toR, toS, out_buf, file>>
        BY <2>3 DEF ReadPacketFails, ChunkDropped, handle_file_complete,
           RecordVerdict, At, TypeOK, sndVars, netVars
      <3> QED
        BY <2>0, <2>3, <3>1, KeepStored DEF AskInHand, Data
    <2>4. CASE y = x /\ Resync(x)
      <3>1. PICK n \in 2..Len(toR[x]) :
                toR' = [toR EXCEPT ![x] = SubSeq(toR[x], n + 1, Len(toR[x]))]
        BY <2>4 DEF Resync
      <3>2. toR[x] \in Seq(Packet) /\ n \in 0..Len(toR[x])
        BY <3>1 DEF TypeOK
      <3>3. /\ toR'[x] = SubSeq(toR[x], n + 1, Len(toR[x]))
            /\ UNCHANGED <<pc, source, transferred, toS, pkt, rpc, out_buf, file>>
        BY <2>4, <3>1 DEF Resync, sndVars, TypeOK
      <3>4. toR'[x] \in Seq(Packet) /\ Part(toR'[x], toR[x])
        BY <3>2, <3>3, Parts
      <3>5. HasAsk(toR'[x]) => HasAsk(toR[x])
        BY <3>2, <3>4, PartAsks
      <3> QED
        BY <2>0, <2>4, <3>3, <3>5, KeepStored DEF AskInHand, Data
    <2>5. CASE y = x /\ handle_file_offer(x)
      <3>1. /\ rpc[x] = "dispatch" /\ pkt[x].type = "FileOffer" /\ rpc'[x] = "read"
            /\ UNCHANGED <<pc, source, transferred, toR, pkt, out_buf, file>>
        BY <2>5 DEF handle_file_offer, At, TypeOK, sndVars
      <3>2. pc[x] \notin Streaming
        BY <1>0, <2>5, <3>1 DEF FlowFor, Questions, Apt, Offering, Streaming
      <3> QED
        BY <2>0, <2>5, <3>1, <3>2, KeepStored DEF AskInHand, Data
    <2>6. CASE y = x /\ handle_file_chunk(x)
      BY <1>0, <2>0, <2>6, ChunkStored
    <2>7. CASE y = x /\ AckChunk(x)
      <3>1. /\ rpc[x] = "written" /\ rpc'[x] = "acked"
            /\ UNCHANGED <<pc, source, transferred, toR, pkt, out_buf, file>>
        BY <2>7 DEF AckChunk, At, TypeOK, sndVars
      <3> QED
        BY <2>0, <2>7, <3>1, KeepStored DEF AskInHand, Data
    <2>8. CASE y = x /\ CloseOut(x)
      BY <2>0, <2>8, CloseStored
    <2> QED
      BY <2>1, <2>2, <2>3, <2>4, <2>5, <2>6, <2>7, <2>8 DEF handle_conn
  <1> QED
    BY <1>1, <1>2

\* The environment takes frames away; it does not touch what is held.
LEMMA EnvironmentStored ==
    ASSUME TypeOK, StoredInv, Steady, Environment
    PROVE  StoredInv'
  <1> SUFFICES ASSUME NEW y \in Xfer PROVE Buffered(y)' /\ (Alone(y)' => StoredFor(y)')
    BY DEF StoredInv
  <1>0. /\ Buffered(y) /\ (Alone(y) => StoredFor(y)) /\ (Alone(y)' <=> Alone(y))
        /\ toR[y] \in Seq(Packet) /\ toS[y] \in Seq(Packet)
    BY DEF StoredInv, Alone, TypeOK
  <1>1. UNCHANGED <<rpc, pkt, out_buf, file, source, transferred>>
    BY DEF Environment, Steady, ConnReset, Corrupt, EditSource, SenderCrash, Kill,
       ReceiverCrash, ReceiverRestart, CancelRead, CancelWrite, Clean, sndVars, netVars,
       rcvVars
  <1>2. pc'[y] \in {pc[y], "crashed"}
    BY DEF Environment, ConnReset, Corrupt, EditSource, SenderCrash, Kill,
       ReceiverCrash, ReceiverRestart, CancelRead, CancelWrite, Clean, sndVars, TypeOK
  <1>3. HasAsk(toR'[y]) => HasAsk(toR[y])
    <2>1. CASE \E x \in Xfer : ConnReset(x)
      <3>1. PICK x \in Xfer : ConnReset(x)
        BY <2>1
      <3>2. PICK n \in 0..Len(toR[x]) : toR' = [toR EXCEPT ![x] = SubSeq(@, 1, n)]
        BY <3>1 DEF ConnReset
      <3>3. CASE y = x
        <4>1. toR'[x] = SubSeq(toR[x], 1, n)
          BY <3>2 DEF TypeOK
        <4>2. toR'[x] \in Seq(Packet) /\ Part(toR'[x], toR[x])
          BY <1>0, <3>3, <4>1, Parts
        <4> QED
          BY <1>0, <3>3, <4>2, PartAsks
      <3>4. CASE y # x
        BY <3>2, <3>4 DEF TypeOK
      <3> QED
        BY <3>3, <3>4
    <2>2. CASE \E x \in Xfer : Corrupt(x)
      <3>1. PICK x \in Xfer : Corrupt(x)
        BY <2>2
      <3>2. PICK b \in Block : toR' = [toR EXCEPT ![x] =
                                <<[Head(@) EXCEPT !.data = <<b>>]>> \o Tail(@)]
        BY <3>1 DEF Corrupt
      <3>3. CASE y = x
        <4> DEFINE q == toR[x]
                   h == [Head(q) EXCEPT !.data = <<b>>]
                   r == <<h>> \o Tail(q)
        <4>1. toR'[x] = r
          BY <3>2 DEF TypeOK
        <4>2. q \in Seq(Packet) /\ q # <<>> /\ Head(q) \in Packet /\ Tail(q) \in Seq(Packet)
          BY <1>0, <3>1, <3>3 DEF Corrupt
        <4>3. <<b>> \in Seq(Block)
          OBVIOUS
        <4>4. h \in Packet /\ h.type = Head(q).type
          BY <4>2, <4>3 DEF Packet
        <4> HIDE DEF h, q
        <4>5. r \in Seq(Packet)
          BY <4>2, <4>4
        <4>6. r = <<h>> \o Tail(q)
          OBVIOUS
        <4> HIDE DEF r
        <4>7. HasAsk(r) <=> HasAsk(q)
          BY <4>2, <4>4, <4>5, <4>6, AlterHead
        <4> QED
          BY <3>3, <4>1, <4>7 DEF q
      <3>4. CASE y # x
        BY <3>2, <3>4 DEF TypeOK
      <3> QED
        BY <3>3, <3>4
    <2>3. CASE ~(\E x \in Xfer : ConnReset(x) \/ Corrupt(x))
      BY <2>3 DEF Environment, EditSource, SenderCrash, Kill,
         ReceiverCrash, ReceiverRestart, CancelRead, CancelWrite, Clean, netVars
    <2> QED
      BY <2>1, <2>2, <2>3
  <1>4. toS'[y] # <<>> => toS[y] # <<>>
    <2>1. CASE \E x \in Xfer : ConnReset(x)
      <3>1. PICK x \in Xfer : ConnReset(x)
        BY <2>1
      <3>2. PICK m \in 0..Len(toS[x]) : toS' = [toS EXCEPT ![x] = SubSeq(@, 1, m)]
        BY <3>1 DEF ConnReset
      <3>3. CASE y = x
        <4>1. toS'[x] = SubSeq(toS[x], 1, m)
          BY <3>2 DEF TypeOK
        <4> QED
          BY <1>0, <3>3, <4>1
      <3>4. CASE y # x
        BY <3>2, <3>4 DEF TypeOK
      <3> QED
        BY <3>3, <3>4
    <2>2. CASE ~(\E x \in Xfer : ConnReset(x))
      BY <2>2 DEF Environment, Corrupt, EditSource, SenderCrash, Kill,
         ReceiverCrash, ReceiverRestart, CancelRead, CancelWrite, Clean, netVars
    <2> QED
      BY <2>1, <2>2
  <1>5. ASSUME Alone(y)' PROVE StoredFor(y)'
    <2>1. StoredFor(y) /\ Data(y)' = Data(y)
      BY <1>0, <1>1, <1>5 DEF Data
    <2> QED
      BY <1>1, <1>2, <1>3, <1>4, <2>1, KeepStored DEF AskInHand, Early, Streaming
  <1> QED
    BY <1>0, <1>1, <1>5 DEF Buffered

LEMMA NextStored ==
    TypeOK /\ Flow /\ Flow' /\ StoredInv /\ Steady /\ [Next]_vars => StoredInv'
  <1> SUFFICES ASSUME TypeOK, Flow, Flow', StoredInv, Steady, [Next]_vars PROVE StoredInv'
    OBVIOUS
  <1>1. CASE UNCHANGED vars
    <2> SUFFICES ASSUME NEW y \in Xfer PROVE Buffered(y)' /\ (Alone(y)' => StoredFor(y)')
      BY DEF StoredInv
    <2>1. UNCHANGED <<pc, source, transferred, toR, toS, rpc, pkt, out_buf, file>>
      BY <1>1 DEF vars, sndVars, netVars, rcvVars
    <2>2. Buffered(y) /\ (Alone(y) => StoredFor(y)) /\ (Alone(y)' <=> Alone(y))
      BY DEF StoredInv, Alone
    <2>3. StoredFor(y) => StoredFor(y)'
      BY <2>1, KeepStored DEF AskInHand, Data
    <2> QED
      BY <2>1, <2>2, <2>3 DEF Buffered
  <1> QED
    BY <1>1, SenderStored, ReceiverStored, EnvironmentStored DEF Next, Steady
\* While the receiver lives and its disk works, and nobody rewrites the source,
\* what it holds of a file is a prefix of the source at least as long as what
\* send_file counts as acknowledged, whatever is dropped, retried, torn or
\* reset on the way (handle_file_chunk, the chunk loop of send_file).
THEOREM AcknowledgedIsStored ==
    ASSUME Steady
    PROVE  Spec => []AckedIsStored
  <1>1. TypeOK /\ StoredInv => AckedIsStored
    <2> SUFFICES ASSUME TypeOK, StoredInv, NEW x \in Xfer, Alone(x)
                 PROVE  LET stored == Data(x) \o out_buf[x]
                        IN  /\ transferred[x] <= Len(stored)
                            /\ Len(stored) <= Len(source[x])
                            /\ stored = SubSeq(source[x], 1, Len(stored))
      BY DEF AckedIsStored, Data
    <2> DEFINE f == Data(x)
               o == out_buf[x]
               s == source[x]
               t == f \o o
    <2>1. /\ f \in Seq(Block) /\ o \in Seq(Block) /\ s \in Seq(Block)
          /\ Len(f) \in Nat /\ Len(o) \in Nat /\ Len(s) \in Nat
      BY XferAssumption DEF TypeOK, Data, File
    <2>2. /\ Len(f) + Len(o) <= Len(s) /\ transferred[x] <= Len(f) + Len(o)
          /\ \A i \in 1..Len(f) : f[i] = s[i]
          /\ \A i \in 1..Len(o) : o[i] = s[Len(f) + i]
      <3>1. HeldIntact(x) /\ Held(x) \in {transferred[x], transferred[x] + 1}
        BY DEF StoredInv, StoredFor
      <3>2. transferred[x] \in Nat
        BY DEF TypeOK
      <3> QED
        BY <2>1, <3>1, <3>2 DEF HeldIntact, Held
    <2> HIDE DEF f, o, s
    <2>3. /\ t \in Seq(Block) /\ Len(t) = Len(f) + Len(o)
          /\ \A i \in 1..Len(f) + Len(o) : t[i] = IF i <= Len(f) THEN f[i] ELSE o[i - Len(f)]
      BY <2>1, ConcatProperties
    <2> HIDE DEF t
    <2>4. \A i \in 1..Len(t) : t[i] = s[i]
      <3> SUFFICES ASSUME NEW i \in 1..Len(t) PROVE t[i] = s[i]
        OBVIOUS
      <3>1. CASE i <= Len(f)
        BY <2>1, <2>2, <2>3, <3>1
      <3>2. CASE i > Len(f)
        <4>1. i - Len(f) \in 1..Len(o) /\ Len(f) + (i - Len(f)) = i
          BY <2>1, <2>3, <3>2
        <4>2. t[i] = o[i - Len(f)]
          BY <2>1, <2>3, <3>2
        <4>3. o[i - Len(f)] = s[Len(f) + (i - Len(f))]
          BY <2>2, <4>1
        <4> QED
          BY <4>1, <4>2, <4>3
      <3> QED
        BY <2>1, <2>3, <3>1, <3>2
    <2>5. t = SubSeq(s, 1, Len(t))
      <3> DEFINE n == Len(t)
                 u == SubSeq(s, 1, n)
      <3>1. n \in 0..Len(s)
        BY <2>1, <2>2, <2>3
      <3>2. u \in Seq(Block) /\ Len(u) = n /\ \A i \in 1..n : u[i] = s[i]
        BY <2>1, <3>1
      <3> HIDE DEF u
      <3>3. u = t
        BY <2>3, <2>4, <3>2, SeqEqual
      <3> QED
        BY <3>3 DEF u
    <2> QED
      BY <2>1, <2>2, <2>3, <2>5 DEF t, f, o, s
  <1>2. Init => TypeOK /\ Flow /\ StoredInv
    BY InitType, InitFlow, InitStored
  <1>3. /\ TypeOK /\ Flow /\ [Next]_vars => Flow'
        /\ TypeOK /\ Flow /\ Flow' /\ StoredInv /\ [Next]_vars => StoredInv'
    BY NextFlow, NextStored DEF Steady
  <1> QED
    BY <1>1, <1>2, <1>3, TypeCorrect, PTL DEF Spec
----------------------------------------------------------------------------
(* ListedIsRunning.                                                        *)

Recorded(x) ==
    pc[x] \in {"failed", "completed"}
        => sdb[x].state \notin {"pending", "in_progress", "paused"}

\* What a write of the sender or of cancel_transfer makes of the rows, when no
\* write is dropped.
LEMMA ProgressRow ==
    ASSUME TypeOK, "busy" \notin Faults, NEW x \in Xfer, NEW n, NEW s, SetProgress(x, n, s)
    PROVE  /\ sdb'[x].state \in {s, "absent"}
           /\ \A y \in Xfer \ {x} : sdb'[y] = sdb[y]
  BY DEF TypeOK, SetProgress, Committed, update_transfer_progress

LEMMA NextRecorded ==
    ASSUME TypeOK, "busy" \notin Faults, \A x \in Xfer : Recorded(x), [Next]_vars
    PROVE  \A x \in Xfer : Recorded(x)'
  <1> SUFFICES ASSUME NEW y \in Xfer PROVE Recorded(y)'
    OBVIOUS
  <1>0. Recorded(y) /\ pc \in [Xfer -> SenderPc] /\ sdb \in [Xfer -> Row]
    BY DEF TypeOK
  <1>1. CASE UNCHANGED vars
    BY <1>0, <1>1 DEF vars, sndVars, Recorded
  <1>2. ASSUME NEW x \in Xfer, send_file(x)
        PROVE  Recorded(y)'
    <2>1. CASE BrokenPipe(x)
      BY <1>0, <2>1 DEF BrokenPipe, Kill, Recorded
    <2>2. CASE HashFile(x)
      <3>1. pc'[x] = "connect" /\ (y # x => sdb'[y] = sdb[y] /\ pc'[y] = pc[y])
        BY <1>0, <2>2 DEF HashFile, Go, Committed, upsert_transfer
      <3> QED
        BY <1>0, <3>1 DEF Recorded
    <2>3. CASE \/ SendRefused(x) \/ SendBegin(x) \/ SendOffer(x) \/ ReadChunk(x)
               \/ EndOfFile(x) \/ SendChunk(x) \/ ChunkNotAcked(x) \/ SendComplete(x)
      BY <1>0, <2>3 DEF Go, SendRefused, SendBegin, SendOffer, ReadChunk, EndOfFile,
         SendChunk, ChunkNotAcked, SendComplete, Recorded
    <2>4. CASE ConnectFails(x) \/ NoResponse(x) \/ OfferAbandoned(x)
      <3>1. SetProgress(x, 0, "failed")
            /\ (y # x => pc'[y] = pc[y])
        BY <1>0, <2>4 DEF ConnectFails, NoResponse, OfferAbandoned, Go
      <3> QED
        BY <1>0, <3>1, ProgressRow DEF Recorded
    <2>5. CASE StartStreaming(x) \/ ChunkAcked(x)
      <3>1. pc'[x] = "loop" /\ (y # x => pc'[y] = pc[y])
        BY <1>0, <2>5 DEF StartStreaming, ChunkAcked, Go
      <3>2. \E n : SetProgress(x, n, "in_progress")
        BY <2>5 DEF StartStreaming, ChunkAcked
      <3> QED
        BY <1>0, <3>1, <3>2, ProgressRow DEF Recorded
    <2>6. CASE ChunkSendFails(x)
      <3>1. \/ UNCHANGED <<pc, sdb>>
            \/ SetProgress(x, transferred[x], "failed") /\ (y # x => pc'[y] = pc[y])
        BY <1>0, <2>6 DEF ChunkSendFails, GiveUp, Go
      <3>2. CASE UNCHANGED <<pc, sdb>>
        BY <1>0, <3>2 DEF Recorded
      <3>3. CASE SetProgress(x, transferred[x], "failed") /\ (y # x => pc'[y] = pc[y])
        BY <1>0, <3>3, ProgressRow DEF Recorded
      <3> QED
        BY <3>1, <3>2, <3>3
    <2>7. CASE SendFinish(x)
      <3>1. SetProgress(x, transferred[x], "completed") /\ (y # x => pc'[y] = pc[y])
        BY <1>0, <2>7 DEF SendFinish, Go
      <3> QED
        BY <1>0, <3>1, ProgressRow DEF Recorded
    <2> QED
      BY <1>2, <2>1, <2>2, <2>3, <2>4, <2>5, <2>6, <2>7 DEF send_file
  <1>3. ASSUME NEW x \in Xfer, handle_conn(x)
        PROVE  Recorded(y)'
    <2>1. UNCHANGED <<pc, sdb>>
      BY <1>3 DEF handle_conn, ReadPacket, ReadPacketFails, Resync, handle_file_offer,
         ChunkDropped, handle_file_chunk, AckChunk, CloseOut, handle_file_complete,
         RecordVerdict, sndVars
    <2> QED
      BY <1>0, <2>1 DEF Recorded
  <1>4. CASE Environment
    <2>1. pc'[y] \in {pc[y], "crashed"}
      BY <1>0, <1>4 DEF Environment, ConnReset, Corrupt, EditSource, SenderCrash, Kill,
         ReceiverCrash, ReceiverRestart, CancelRead, CancelWrite, Clean, sndVars
    <2>2. ASSUME NEW s \in Side, NEW x \in Xfer, CancelWrite(s, x)
          PROVE  Recorded(y)'
      <3>1. UNCHANGED sdb \/ SetProgress(x, canc[s][x].got, "cancelled")
        BY <2>2 DEF CancelWrite
      <3>2. CASE UNCHANGED sdb
        BY <1>0, <2>1, <3>2 DEF Recorded
      <3>3. CASE SetProgress(x, canc[s][x].got, "cancelled")
        BY <1>0, <2>1, <3>3, ProgressRow DEF Recorded
      <3> QED
        BY <3>1, <3>2, <3>3
    <2>3. ASSUME NEW s \in Side, NEW stale \in SUBSET Xfer, Clean(s, stale)
          PROVE  Recorded(y)'
      <3>1. sdb' = sdb \/ sdb' = delete_stale_transfers(sdb, stale)
        BY <2>3 DEF Clean, Committed
      <3>2. delete_stale_transfers(sdb, stale)[y].state \in {sdb[y].state, "absent"}
        BY DEF delete_stale_transfers, NoRow
      <3>3. sdb'[y].state \in {sdb[y].state, "absent"}
        BY <3>1, <3>2
      <3> QED
        BY <1>0, <2>1, <3>3 DEF Recorded
    <2>4. CASE ~\E s \in Side : \/ \E x \in Xfer : CancelWrite(s, x)
                                \/ \E stale \in SUBSET Xfer : Clean(s, stale)
      <3>1. UNCHANGED sdb
        BY <1>4, <2>4 DEF Environment, ConnReset, Corrupt, EditSource, SenderCrash, Kill,
           ReceiverCrash, ReceiverRestart, CancelRead, sndVars
      <3> QED
        BY <1>0, <2>1, <3>1 DEF Recorded
    <2> QED
      BY <2>2, <2>3, <2>4
  <1> QED
    BY <1>1, <1>2, <1>3, <1>4 DEF Next

\* When no write to the table is dropped, `shr status` lists no transfer as
\* active whose send_file has returned: each way out of send_file records the
\* outcome, and neither cancel_transfer nor `shr clean` undoes it.
THEOREM ListedTransfersRun ==
    ASSUME "busy" \notin Faults
    PROVE  Spec => []ListedIsRunning
  <1> DEFINE Inv == \A x \in Xfer : Recorded(x)
  <1>1. Init => Inv
    BY DEF Init, Recorded
  <1>2. TypeOK /\ Inv /\ [Next]_vars => Inv'
    BY NextRecorded
  <1>3. Inv => ListedIsRunning
    BY DEF Recorded, ListedIsRunning, active_transfers
  <1> QED
    BY <1>1, <1>2, <1>3, TypeCorrect, PTL DEF Spec
----------------------------------------------------------------------------
(* StorageIsReal.                                                          *)

\* The size that a sender announces.
Size(x) == file_sz[x]
Sized(p, n) == p.type = "FileOffer" => p.off = n

\* Offer, row and verdict speak of that size.
SizeFor(x) ==
    /\ rpc[x] = "none" => rdb[x].state = "absent"
    /\ \A i \in 1..Len(toR[x]) : Sized(toR[x][i], Size(x))
    /\ rpc[x] = "dispatch" => Sized(pkt[x], Size(x))
    /\ rpc[x] = "verified" => rec[x].total = Size(x)
    /\ rdb[x].state # "absent" => rdb[x].total = Size(x)
    /\ rdb[x].state = "completed" => rdb[x].got = Size(x)

SizeInv == \A x \in Xfer : SizeFor(x)

LEMMA InitSize == Init => SizeInv
  <1> SUFFICES ASSUME Init, NEW x \in Xfer PROVE SizeFor(x)
    BY DEF SizeInv
  <1>1. toR[x] = <<>> /\ rpc[x] = "none" /\ rdb[x] = NoRow
    BY DEF Init
  <1>2. Len(<<>>) = 0
    OBVIOUS
  <1> QED
    BY <1>1, <1>2 DEF SizeFor, NoRow

\* A step that changes no size.
LEMMA KeepSize ==
    ASSUME NEW y \in Xfer, SizeFor(y), file_sz'[y] = file_sz[y],
           \A i \in 1..Len(toR'[y]) : Sized(toR'[y][i], Size(y)),
           pkt'[y] = pkt[y], rec'[y] = rec[y],
           \A l \in {"none", "dispatch", "verified"} : rpc'[y] = l => rpc[y] = l,
           rdb'[y].state # "absent" => rdb[y].state # "absent" /\ rdb'[y].total = rdb[y].total,
           rdb'[y].state = "completed" => rdb'[y] = rdb[y]
    PROVE  SizeFor(y)'
  <1>1. Size(y)' = Size(y)
    BY DEF Size
  <1> QED
    BY <1>1 DEF SizeFor

\* send_file announces the size it took first.
LEMMA SenderSize ==
    ASSUME TypeOK, IntactInv, SizeInv, NEW x \in Xfer, send_file(x)
    PROVE  SizeInv'
  <1>1. ASSUME NEW y \in Xfer PROVE SizeFor(y)'
    <2>0. SizeFor(y) /\ IntactFor(y)
      BY DEF SizeInv, IntactInv
    <2>1. UNCHANGED <<rdb, rec, pkt>>
      BY DEF send_file, BrokenPipe, Kill, SendRefused, SendBegin, HashFile,
         SendOffer, ConnectFails, NoResponse, OfferAbandoned, StartStreaming, ReadChunk,
         EndOfFile, SendChunk, ChunkSendFails, ChunkAcked, ChunkNotAcked, SendComplete,
         SendFinish, rcvVars
    <2>2. CASE y = x /\ SendBegin(x)
      <3>1. rpc'[x] = "none" /\ toR'[x] = <<>> /\ rdb'[x].state = "absent"
        BY <2>0, <2>2 DEF SendBegin, HashFile, netVars, rcvVars, IntactFor, NotYetOffered, SizeFor
      <3>2. Len(<<>>) = 0
        OBVIOUS
      <3> QED
        BY <2>2, <3>1, <3>2 DEF SizeFor
    <2>3. CASE ~(y = x /\ SendBegin(x))
      <3>1. file_sz'[y] = file_sz[y]
        BY <2>3 DEF send_file, BrokenPipe, Kill, SendRefused, SendBegin, HashFile, TypeOK,
           SendOffer, ConnectFails, NoResponse, OfferAbandoned, StartStreaming, ReadChunk,
           EndOfFile, SendChunk, ChunkSendFails, ChunkAcked, ChunkNotAcked, SendComplete,
           SendFinish
      <3>2. rpc'[y] \in {rpc[y], "read"}
        BY SMTT(30) DEF send_file, BrokenPipe, Kill, SendRefused, SendBegin, HashFile, TypeOK,
           SendOffer, ConnectFails, NoResponse, OfferAbandoned, StartStreaming, ReadChunk,
           EndOfFile, SendChunk, ChunkSendFails, ChunkAcked, ChunkNotAcked, SendComplete,
           SendFinish, rcvVars
      <3> DEFINE q == toR[y]
                 r == toR'[y]
      <3>3. r \in {q, Append(q, Torn), Append(q, FileOffer(y)), Append(q, FileChunk(y)),
                   Append(q, FileComplete(y))}
        <4>1. CASE SendOffer(x) \/ SendComplete(x)
          <5>1. PICK p \in {FileOffer(x), FileComplete(x)}, n \in {"up", net[x]} :
                    \E t \in SendUnchecked(toR[x], n, p) : toR' = [toR EXCEPT ![x] = t]
            BY <4>1 DEF SendOffer, SendComplete
          <5>2. toR'[x] \in {toR[x], Append(toR[x], Torn), Append(toR[x], p)}
            BY <5>1 DEF SendUnchecked, WriteFrame, TypeOK
          <5>3. y # x => toR'[y] = toR[y]
            BY <5>1 DEF TypeOK
          <5> QED
            BY <5>1, <5>2, <5>3
        <4>2. CASE SendChunk(x)
          BY <4>2 DEF SendChunk, TypeOK
        <4>3. CASE ChunkSendFails(x)
          BY <4>3 DEF ChunkSendFails, TypeOK
        <4>4. CASE ~(SendOffer(x) \/ SendComplete(x) \/ SendChunk(x) \/ ChunkSendFails(x))
          BY <4>4 DEF send_file, BrokenPipe, Kill, SendRefused, SendBegin, HashFile, ConnectFails,
             NoResponse, OfferAbandoned, StartStreaming, ReadChunk, EndOfFile, ChunkAcked,
             ChunkNotAcked, SendFinish, netVars
        <4> QED
          BY <4>1, <4>2, <4>3, <4>4
      <3>4. q \in Seq(Packet) /\ \A i \in 1..Len(q) : Sized(q[i], Size(y))
        BY <2>0 DEF SizeFor, TypeOK
      <3>5. /\ \A p \in {Torn, FileOffer(y), FileChunk(y), FileComplete(y)} :
                  p \in Packet /\ Sized(p, Size(y))
        <4>1. FileComplete(y).type # "FileOffer" /\ Torn.type # "FileOffer"
          BY SentPackets DEF Asks
        <4> QED
          BY <4>1, SentPackets DEF Sized, Size
      <3> HIDE DEF q, r
      <3>6. PICK p \in Packet : Sized(p, Size(y)) /\ r \in {q, Append(q, p)}
        BY <3>3, <3>5
      <3>7. \A i \in 1..Len(r) : (\E j \in 1..Len(q) : r[i] = q[j]) \/ r[i] = p
        BY <3>4, <3>6, MaybeFrame
      <3>8. \A i \in 1..Len(r) : Sized(r[i], Size(y))
        BY <3>4, <3>6, <3>7
      <3> QED
        BY <2>0, <2>1, <3>1, <3>2, <3>8, KeepSize DEF r
    <2> QED
      BY <2>2, <2>3
  <1> QED
    BY <1>1 DEF SizeInv
\* handle_conn records the announced size, and the verdict for it.
LEMMA ReceiverSize ==
    ASSUME TypeOK, SizeInv, NEW x \in Xfer, handle_conn(x)
    PROVE  SizeInv'
  <1>1. ASSUME NEW y \in Xfer PROVE SizeFor(y)'
    <2>0. /\ SizeFor(y) /\ file_sz' = file_sz /\ rdb \in [Xfer -> Row]
          /\ \A i \in 1..Len(toR[y]) : Sized(toR[y][i], Size(y))
          /\ toR[y] \in Seq(Packet)
      BY DEF SizeInv, SizeFor, TypeOK, handle_conn, ReadPacket, ReadPacketFails, Resync,
         handle_file_offer, ChunkDropped, handle_file_chunk, AckChunk, CloseOut,
         handle_file_complete, RecordVerdict, sndVars
    <2>z. Size(y)' = Size(y)
      BY <2>0 DEF Size
    <2>1. CASE y # x
      <3>1. rdb'[y] = rdb[y]
        BY <2>1 DEF TypeOK, handle_conn, ReadPacket, ReadPacketFails, Resync,
           handle_file_offer, ChunkDropped, handle_file_chunk, AckChunk, CloseOut,
           handle_file_complete, RecordVerdict, Committed, upsert_transfer,
           update_transfer_progress
      <3>2. toR'[y] = toR[y] /\ rpc'[y] = rpc[y] /\ pkt'[y] = pkt[y] /\ rec'[y] = rec[y]
        BY <2>1 DEF TypeOK, At, Reply, handle_conn, ReadPacket, ReadPacketFails, Resync,
           handle_file_offer, ChunkDropped, handle_file_chunk, AckChunk, CloseOut,
           handle_file_complete, RecordVerdict, netVars
      <3> QED
        BY <2>0, <3>1, <3>2, KeepSize
    <2>2. CASE y = x /\ ReadPacket(x)
      <3>1. /\ toR[x] # <<>> /\ rpc'[x] = "dispatch"
            /\ pkt'[x] = Head(toR[x]) /\ toR'[x] = Tail(toR[x])
            /\ UNCHANGED <<rec, rdb>> /\ rpc[x] = "read"
        BY <2>2 DEF ReadPacket, At, TypeOK
      <3> DEFINE q == toR[x]
                 n == Size(x)
      <3>2. /\ q \in Seq(Packet) /\ Tail(q) \in Seq(Packet) /\ Part(Tail(q), q)
            /\ Head(q) = q[1] /\ 1 \in 1..Len(q)
        BY <2>0, <2>2, <3>1, Parts
      <3>3. \A i \in 1..Len(Tail(q)) : \E j \in 1..Len(q) : Tail(q)[i] = q[j]
        BY <3>2, PartAsks
      <3>4. /\ Sized(pkt'[x], n)
            /\ \A i \in 1..Len(toR'[x]) : Sized(toR'[x][i], n)
        BY <2>0, <2>2, <3>1, <3>2, <3>3
      <3> HIDE DEF n
      <3>5. Size(x)' = n
        BY <2>z, <2>2 DEF n
      <3> QED
        BY <2>0, <2>2, <3>1, <3>4, <3>5 DEF SizeFor, n
    <2>3. CASE y = x /\ (ReadPacketFails(x) \/ ChunkDropped(x) \/ handle_file_chunk(x) \/ CloseOut(x))
      <3>1. /\ rpc'[x] \notin {"none", "dispatch", "verified"}
            /\ UNCHANGED <<toR, pkt, rec, rdb>>
        BY <2>3 DEF ReadPacketFails, ChunkDropped, handle_file_chunk, CloseOut, At, TypeOK, netVars
      <3> QED
        BY <2>0, <2>3, <3>1, KeepSize
    <2>4. CASE y = x /\ Resync(x)
      <3>1. PICK n \in 2..Len(toR[x]) :
                toR' = [toR EXCEPT ![x] = SubSeq(toR[x], n + 1, Len(toR[x]))]
        BY <2>4 DEF Resync
      <3>2. toR[x] \in Seq(Packet) /\ n \in 0..Len(toR[x])
        BY <3>1 DEF TypeOK
      <3>3. /\ toR'[x] = SubSeq(toR[x], n + 1, Len(toR[x]))
            /\ UNCHANGED <<pkt, rpc, rec, rdb>>
        BY <2>4, <3>1 DEF Resync, TypeOK
      <3>4. toR'[x] \in Seq(Packet) /\ Part(toR'[x], toR[x])
        BY <3>2, <3>3, Parts
      <3>5. \A i \in 1..Len(toR'[x]) : \E j \in 1..Len(toR[x]) : toR'[x][i] = toR[x][j]
        BY <3>2, <3>4, PartAsks
      <3>6. \A i \in 1..Len(toR'[x]) : Sized(toR'[x][i], Size(x))
        BY <2>0, <2>4, <3>5
      <3> QED
        BY <2>0, <2>4, <3>3, <3>6, KeepSize
    <2>5. CASE y = x /\ handle_file_offer(x)
      <3>1. /\ rpc[x] = "dispatch" /\ pkt[x].type = "FileOffer" /\ rpc'[x] = "read"
            /\ UNCHANGED <<toR, pkt, rec>>
            /\ rdb' = rdb \/ rdb' = upsert_transfer(rdb, x, pkt[x].off)
        BY <2>5 DEF handle_file_offer, Committed, At, TypeOK
      <3>2. pkt[x].off = Size(x)
        BY <2>0, <2>5, <3>1 DEF SizeFor, Sized
      <3>3. rdb'[x] = rdb[x] \/ (rdb'[x].state = "pending" /\ rdb'[x].total = Size(x))
        BY <2>0, <3>1, <3>2 DEF upsert_transfer
      <3> QED
        BY <2>0, <2>z, <2>5, <3>1, <3>3 DEF SizeFor
    <2>6. CASE y = x /\ AckChunk(x)
      <3>1. /\ rpc'[x] = "acked" /\ UNCHANGED <<toR, pkt, rec>>
            /\ \/ rdb' = rdb
               \/ rdb' = update_transfer_progress(rdb, x, pkt[x].off + Len(pkt[x].data), "in_progress")
        BY <2>6 DEF AckChunk, Committed, At, TypeOK
      <3>2. \/ rdb'[x] = rdb[x]
            \/ /\ rdb[x].state # "absent" /\ rdb'[x].state = "in_progress"
               /\ rdb'[x].total = rdb[x].total
        BY <2>0, <3>1 DEF update_transfer_progress
      <3> QED
        BY <2>0, <2>6, <3>1, <3>2, KeepSize
    <2>7. CASE y = x /\ handle_file_complete(x)
      <3>1. /\ rpc'[x] \in {"closed", "verified", "mismatch"} /\ UNCHANGED <<toR, pkt, rdb>>
            /\ rec'[x] = rdb[x] /\ (rpc'[x] = "verified" => rdb[x].state # "absent")
        BY <2>7 DEF handle_file_complete, At, TypeOK, get_transfer, netVars
      <3> QED
        BY <2>0, <2>z, <2>7, <3>1 DEF SizeFor
    <2>8. CASE y = x /\ RecordVerdict(x)
      <3>1. /\ rpc'[x] = "closed" /\ UNCHANGED <<toR, pkt, rec>>
            /\ \/ rdb' = rdb
               \/ rdb' = update_transfer_progress(rdb, x, rec[x].got, "failed")
               \/ /\ rpc[x] = "verified"
                  /\ rdb' = update_transfer_progress(rdb, x, rec[x].total, "completed")
        BY <2>8 DEF RecordVerdict, Committed, At, TypeOK, netVars
      <3>2. \/ rdb'[x] = rdb[x]
            \/ /\ rdb[x].state # "absent" /\ rdb'[x].total = rdb[x].total
               /\ \/ rdb'[x].state = "failed"
                  \/ rpc[x] = "verified" /\ rdb'[x].got = rec[x].total
        BY <2>0, <3>1 DEF update_transfer_progress
      <3> QED
        BY <2>0, <2>z, <2>8, <3>1, <3>2 DEF SizeFor
    <2> QED
      BY <2>1, <2>2, <2>3, <2>4, <2>5, <2>6, <2>7, <2>8 DEF handle_conn
  <1> QED
    BY <1>1 DEF SizeInv
\* No fault makes a row of another size, or completes one.
LEMMA EnvironmentSize ==
    ASSUME TypeOK, SizeInv, Environment
    PROVE  SizeInv'
  <1>0. /\ UNCHANGED <<file_sz, pkt, rec>>
        /\ \A z \in Xfer : rpc'[z] = rpc[z] \/ (rpc[z] # "none" /\ rpc'[z] = "closed")
    BY DEF Environment, ConnReset, Corrupt, EditSource, SenderCrash, Kill,
       ReceiverCrash, ReceiverRestart, CancelRead, CancelWrite, Clean, sndVars, netVars,
       rcvVars, Serving
  <1>1. ASSUME NEW y \in Xfer PROVE SizeFor(y)'
    <2>0. /\ SizeFor(y) /\ rdb \in [Xfer -> Row] /\ toR[y] \in Seq(Packet)
          /\ \A i \in 1..Len(toR[y]) : Sized(toR[y][i], Size(y))
      BY DEF SizeInv, SizeFor, TypeOK
    <2>1. /\ rdb'[y].state # "absent" => rdb[y].state # "absent" /\ rdb'[y].total = rdb[y].total
          /\ rdb'[y].state = "completed" => rdb'[y] = rdb[y]
      <3>1. ASSUME NEW s \in Side, NEW x \in Xfer, CancelWrite(s, x), rdb' # rdb
            PROVE  rdb'[y] = rdb[y] \/ (/\ rdb[y].state # "absent" /\ rdb'[y].state = "cancelled"
                                        /\ rdb'[y].total = rdb[y].total)
        <4>1. rdb' = update_transfer_progress(rdb, x, canc[s][x].got, "cancelled")
          BY <3>1 DEF CancelWrite, Committed
        <4> QED
          BY <2>0, <4>1 DEF update_transfer_progress
      <3>2. ASSUME NEW s \in Side, NEW stale \in SUBSET Xfer, Clean(s, stale), rdb' # rdb
            PROVE  rdb'[y] = rdb[y] \/ rdb'[y].state = "absent"
        <4>1. rdb' = delete_stale_transfers(rdb, stale)
          BY <3>2 DEF Clean, Committed
        <4> QED
          BY <2>0, <4>1 DEF delete_stale_transfers, NoRow
      <3>3. \/ rdb' = rdb
            \/ \E s \in Side : \/ \E x \in Xfer : CancelWrite(s, x)
                               \/ \E stale \in SUBSET Xfer : Clean(s, stale)
        BY DEF Environment, ConnReset, Corrupt, EditSource, SenderCrash, Kill,
           ReceiverCrash, ReceiverRestart, CancelRead, rcvVars
      <3> QED
        BY <3>1, <3>2, <3>3
    <2>2. \A i \in 1..Len(toR'[y]) : Sized(toR'[y][i], Size(y))
      <3>1. CASE \E x \in Xfer : ConnReset(x)
        <4>1. PICK x \in Xfer : ConnReset(x)
          BY <3>1
        <4>2. PICK n \in 0..Len(toR[x]) : toR' = [toR EXCEPT ![x] = SubSeq(@, 1, n)]
          BY <4>1 DEF ConnReset
        <4>3. CASE y = x
          <5>1. toR'[x] = SubSeq(toR[x], 1, n)
            BY <4>2 DEF TypeOK
          <5>2. toR'[x] \in Seq(Packet) /\ Part(toR'[x], toR[x])
            BY <2>0, <4>3, <5>1, Parts
          <5>3. \A i \in 1..Len(toR'[x]) : \E j \in 1..Len(toR[x]) : toR'[x][i] = toR[x][j]
            BY <2>0, <4>3, <5>2, PartAsks
          <5> QED
            BY <2>0, <4>3, <5>3
        <4>4. CASE y # x
          BY <2>0, <4>2, <4>4 DEF TypeOK
        <4> QED
          BY <4>3, <4>4
      <3>2. CASE \E x \in Xfer : Corrupt(x)
        <4>1. PICK x \in Xfer : Corrupt(x)
          BY <3>2
        <4>2. PICK b \in Block : toR' = [toR EXCEPT ![x] =
                                <<[Head(@) EXCEPT !.data = <<b>>]>> \o Tail(@)]
          BY <4>1 DEF Corrupt
        <4>3. CASE y = x
          <5> DEFINE q == toR[x]
                     h == [Head(q) EXCEPT !.data = <<b>>]
                     r == <<h>> \o Tail(q)
          <5>1. toR'[x] = r
            BY <4>2 DEF TypeOK
          <5>2. /\ q \in Seq(Packet) /\ q # <<>> /\ Head(q) \in Packet /\ Tail(q) \in Seq(Packet)
                /\ Head(q).type = "FileChunk"
                /\ \A i \in 1..Len(q) : Sized(q[i], Size(y))
            BY <2>0, <4>1, <4>3 DEF Corrupt
          <5>3. <<b>> \in Seq(Block)
            OBVIOUS
          <5>4. h \in Packet /\ h.type = Head(q).type
            BY <5>2, <5>3 DEF Packet
          <5> HIDE DEF h, q
          <5>5. r \in Seq(Packet)
            BY <5>2, <5>4
          <5>6. r = <<h>> \o Tail(q)
            OBVIOUS
          <5> HIDE DEF r
          <5>7. Len(r) = Len(q) /\ r[1] = h
            BY <5>2, <5>4, <5>5, <5>6, AlterHead
          <5>8. \A i \in 2..Len(q) : r[i] = q[i]
            BY <5>2, <5>4, <5>5, <5>6, AlterHead
          <5>9. Sized(h, Size(y)) /\ Len(q) \in Nat
            BY <5>2, <5>4, LenProperties DEF Sized
          <5>10. \A i \in 1..Len(r) : Sized(r[i], Size(y))
            BY <5>2, <5>7, <5>8, <5>9
          <5> QED
            BY <4>3, <5>1, <5>10
        <4>4. CASE y # x
          BY <2>0, <4>2, <4>4 DEF TypeOK
        <4> QED
          BY <4>3, <4>4
      <3>3. CASE ~(\E x \in Xfer : ConnReset(x) \/ Corrupt(x))
        <4>1. UNCHANGED toR
          BY <3>3 DEF Environment, EditSource, SenderCrash, Kill,
             ReceiverCrash, ReceiverRestart, CancelRead, CancelWrite, Clean, netVars
        <4> QED
          BY <2>0, <4>1
      <3> QED
        BY <3>1, <3>2, <3>3
    <2> QED
      BY <1>0, <2>0, <2>1, <2>2, KeepSize
  <1> QED
    BY <1>1 DEF SizeInv

LEMMA NextSize == TypeOK /\ IntactInv /\ SizeInv /\ [Next]_vars => SizeInv'
  <1> SUFFICES ASSUME TypeOK, IntactInv, SizeInv, [Next]_vars PROVE SizeInv'
    OBVIOUS
  <1>1. CASE UNCHANGED vars
    <2>1. UNCHANGED <<file_sz, toR, rpc, pkt, rec, rdb>>
      BY <1>1 DEF vars, sndVars, netVars, rcvVars
    <2> QED
      BY <2>1 DEF SizeInv, SizeFor, Size, Sized
  <1> QED
    BY <1>1, SenderSize, ReceiverSize, EnvironmentSize DEF Next

\* The two sums are equal when their terms are: each is a value of the same
\* recursive function on the subsets of S.
LEMMA SumsEqual ==
    ASSUME NEW S, \A x \in S : rdb[x].got = Len(file[FileName[x]].data)
    PROVE  MapThenSumSet(LAMBDA x : rdb[x].got, S)
               = MapThenSumSet(LAMBDA x : Len(file[FileName[x]].data), S)
  <1> DEFINE one(s) == CHOOSE x \in s : TRUE
             f(x) == rdb[x].got
             g(x) == Len(file[FileName[x]].data)
             F(it) == [s \in SUBSET S |->
                          IF s = {} THEN 0 ELSE f(one(s)) + it[s \ {one(s)}]]
             G(it) == [s \in SUBSET S |->
                          IF s = {} THEN 0 ELSE g(one(s)) + it[s \ {one(s)}]]
  <1>1. ASSUME NEW it PROVE F(it) = G(it)
    <2>1. ASSUME NEW s \in SUBSET S, s # {} PROVE f(one(s)) = g(one(s))
      <3>1. one(s) \in s
        BY <2>1
      <3> QED
        BY <3>1
    <2>2. \A s \in SUBSET S :
            (IF s = {} THEN 0 ELSE f(one(s)) + it[s \ {one(s)}])
                = (IF s = {} THEN 0 ELSE g(one(s)) + it[s \ {one(s)}])
      BY <2>1
    <2> QED
      BY <2>2
  <1>2. /\ MapThenSumSet(LAMBDA x : f(x), S) = (CHOOSE it : it = F(it))[S]
        /\ MapThenSumSet(LAMBDA x : g(x), S) = (CHOOSE it : it = G(it))[S]
    BY DEF MapThenSumSet, MapThenFoldSet
  <1>3. /\ MapThenSumSet(LAMBDA x : rdb[x].got, S) = MapThenSumSet(LAMBDA x : f(x), S)
        /\ MapThenSumSet(LAMBDA x : Len(file[FileName[x]].data), S)
              = MapThenSumSet(LAMBDA x : g(x), S)
    OBVIOUS
  <1> HIDE DEF F, G, f, g
  <1>4. (CHOOSE it : it = F(it)) = (CHOOSE it : it = G(it))
    BY <1>1
  <1> QED
    BY <1>2, <1>3, <1>4

\* As long as no source has changed between the reads of its size and of its
\* hash, the storage the receiving node reports is what its complete files take
\* up on its disk, whatever is lost, torn, edited, cancelled, cleaned up or
\* crashed: a row says "completed" with the size of the offer, and the hash that
\* was taken with that size is the hash of the file (handle_file_complete,
\* storage_used_bytes).
THEOREM ReportedStorageIsReal == Spec => []StorageIsReal
  <1>1. TypeOK /\ IntactInv /\ SizeInv => StorageIsReal
    <2> SUFFICES ASSUME TypeOK, IntactInv, SizeInv,
                        \A x \in Xfer : Alone(x) /\ (rdb[x].state = "completed" => Described(x))
                 PROVE  storage_used_bytes(rdb) =
                            MapThenSumSet(LAMBDA x : Len(file[FileName[x]].data),
                                          {x \in Xfer : rdb[x].state = "completed"})
      BY DEF StorageIsReal
    <2> DEFINE S == {x \in Xfer : rdb[x].state = "completed"}
    <2>1. ASSUME NEW x \in S PROVE rdb[x].got = Len(file[FileName[x]].data)
      <3>1. rdb[x].got = Len(checksum[x].of) /\ checksum[x].hex
        BY DEF SizeInv, SizeFor, Size, Described
      <3>2. sha256_file(file[FileName[x]]) = checksum[x]
        BY DEF IntactInv, IntactFor, RowHolds, SameFile
      <3>3. file[FileName[x]].exists
        BY <3>1, <3>2 DEF sha256_file, EmptyDigest
      <3> QED
        BY <3>1, <3>2, <3>3 DEF sha256_file, Sha256
    <2>2. storage_used_bytes(rdb) = MapThenSumSet(LAMBDA x : rdb[x].got, S)
      BY DEF storage_used_bytes
    <2> HIDE DEF S
    <2>3. MapThenSumSet(LAMBDA x : rdb[x].got, S)
              = MapThenSumSet(LAMBDA x : Len(file[FileName[x]].data), S)
      BY <2>1, SumsEqual
    <2> QED
      BY <2>2, <2>3 DEF S
  <1>2. Init => TypeOK /\ IntactInv /\ SizeInv
    BY InitType, InitIntact, InitSize
  <1> QED
    BY <1>1, <1>2, NextIntact, NextSize, TypeCorrect, PTL DEF Spec
----------------------------------------------------------------------------
(* RowsMoveForward.                                                        *)

\* An offer is on its way or in the hands of the handler.
HasOffer(q) == \E i \in 1..Len(q) : q[i].type = "FileOffer"
Offered(x) == HasOffer(toR[x]) \/ (rpc[x] = "dispatch" /\ pkt[x].type = "FileOffer")

\* The row of the sender is never ahead of send_file.
SdbFor(x) ==
    /\ pc[x] \in {"idle", "hash", "refused"} => sdb[x] = NoRow
    /\ sdb[x].got <= transferred[x]
    /\ sdb[x].state = "completed" => pc[x] = "completed"

\* The row of the receiver is ahead of send_file by the chunk it has not heard of
\* at most, as long as the connection is served, and an offer finds it at 0.
Even == Still \cup {"waitResp"}
RdbFor(x) ==
    /\ rdb[x].state = "completed" => rpc[x] = "closed"
    /\ rpc[x] \in {"verified", "mismatch"} => rec[x] = rdb[x]
    /\ rpc[x] # "closed" =>
         /\ rdb[x].got <= Len(source[x])
         /\ rdb[x].got <= transferred[x] + 1
         /\ Asking(x) \/ pc[x] \in Even => rdb[x].got <= transferred[x]
         /\ Offered(x) => rdb[x].got = 0

RowsFor(x) == SdbFor(x) /\ RdbFor(x) /\ \A s \in Side : ~canc[s][x].on
Rows == \A x \in Xfer : RowsFor(x)

\* Nobody cancels a transfer, cleans the tables or rewrites the source.
LeftAlone == {"edit", "cancel", "clean"} \cap Faults = {}

\* What RowsMoveForward says of one transfer.
Forward(y) ==
    /\ sdb'[y].got >= sdb[y].got
    /\ rdb'[y].got >= rdb[y].got
    /\ sdb[y].state = "completed" => sdb'[y] = sdb[y]
    /\ rdb[y].state = "completed" => rdb'[y] = rdb[y]

LEMMA InitRows == Init => Rows
  <1> SUFFICES ASSUME Init, NEW x \in Xfer PROVE RowsFor(x)
    BY DEF Rows
  <1>1. /\ pc[x] = "idle" /\ transferred[x] = 0 /\ sdb[x] = NoRow /\ rdb[x] = NoRow
        /\ rpc[x] = "none" /\ Len(source[x]) \in Nat
        /\ \A s \in Side : canc[s][x] = NoCancel
    <2>1. source[x] \in Seq(Block)
      BY ContentsAssumption DEF Init
    <2> QED
      BY <2>1, LenProperties DEF Init
  <1> QED
    BY <1>1 DEF RowsFor, SdbFor, RdbFor, NoRow, NoCancel

\* A row that is not written, while the sender moves on or not.
LEMMA KeepSdb ==
    ASSUME TypeOK, NEW y \in Xfer, SdbFor(y), sdb'[y] = sdb[y],
           transferred'[y] \in Nat, transferred'[y] >= transferred[y],
           pc'[y] \in {"idle", "hash", "refused"} => pc[y] \in {"idle", "hash", "refused"},
           pc[y] = "completed" => pc'[y] = "completed"
    PROVE  SdbFor(y)'
  <1>1. transferred[y] \in Nat /\ sdb[y].got \in Nat
    BY DEF TypeOK, Row
  <1> QED
    BY <1>1 DEF SdbFor

LEMMA KeepRdb ==
    ASSUME TypeOK, NEW y \in Xfer, RdbFor(y), rdb'[y] = rdb[y], source'[y] = source[y],
           transferred'[y] \in Nat, transferred'[y] >= transferred[y],
           rpc[y] = "closed" => rpc'[y] = "closed",
           rpc'[y] \in {"verified", "mismatch"} => rpc'[y] = rpc[y] /\ rec'[y] = rec[y],
           Asking(y)' \/ pc'[y] \in Even
              => Asking(y) \/ pc[y] \in Even \/ transferred'[y] > transferred[y],
           Offered(y)' => Offered(y) \/ rdb[y].got = 0
    PROVE  RdbFor(y)'
  <1>1. transferred[y] \in Nat /\ rdb[y].got \in Nat /\ Len(source[y]) \in Nat
    BY LenProperties DEF TypeOK, Row
  <1>2. rdb[y].state = "completed" => rpc'[y] = "closed"
    BY DEF RdbFor
  <1>3. rpc'[y] \in {"verified", "mismatch"} => rec'[y] = rdb[y]
    BY DEF RdbFor
  <1>4. ASSUME rpc'[y] # "closed"
        PROVE  /\ rdb[y].got <= Len(source[y])
               /\ rdb[y].got <= transferred'[y] + 1
               /\ Asking(y)' \/ pc'[y] \in Even => rdb[y].got <= transferred'[y]
               /\ Offered(y)' => rdb[y].got = 0
    BY <1>1, <1>4 DEF RdbFor
  <1> QED
    BY <1>2, <1>3, <1>4 DEF RdbFor

\* What a write of send_file leaves in its table, dropped or not.
LEMMA ProgressGot ==
    ASSUME TypeOK, NEW x \in Xfer, NEW n, NEW s, SetProgress(x, n, s)
    PROVE  /\ sdb'[x] = sdb[x] \/ (sdb'[x].got = n /\ sdb'[x].state = s /\ sdb[x] # NoRow)
           /\ \A y \in Xfer \ {x} : sdb'[y] = sdb[y]
  BY DEF TypeOK, SetProgress, Committed, update_transfer_progress, NoRow

\* Parts and additions to a stream hold no new offer.
LEMMA OfferKept ==
    ASSUME NEW q \in Seq(Packet), NEW r
    PROVE  /\ r \in Seq(Packet) /\ Part(r, q) /\ HasOffer(r) => HasOffer(q)
           /\ \A p \in Packet : p.type # "FileOffer" /\ r \in {q, Append(q, p)} /\ HasOffer(r)
                                    => HasOffer(q)
  <1>1. ASSUME r \in Seq(Packet), Part(r, q), HasOffer(r) PROVE HasOffer(q)
    <2>1. \A i \in 1..Len(r) : \E j \in 1..Len(q) : r[i] = q[j]
      BY <1>1, PartAsks
    <2> QED
      BY <1>1, <2>1 DEF HasOffer
  <1>2. ASSUME NEW p \in Packet, p.type # "FileOffer", r \in {q, Append(q, p)}, HasOffer(r)
        PROVE  HasOffer(q)
    <2>1. \A i \in 1..Len(r) : (\E j \in 1..Len(q) : r[i] = q[j]) \/ r[i] = p
      BY <1>2, MaybeFrame
    <2> QED
      BY <1>2, <2>1 DEF HasOffer
  <1> QED
    BY <1>1, <1>2
\* send_file writes what it has had acknowledged, and nothing after "completed".
LEMMA SenderRows ==
    ASSUME TypeOK, Flow, Rows, NEW x \in Xfer, send_file(x), NEW y \in Xfer
    PROVE  RowsFor(y)' /\ Forward(y)
  <1>0. /\ SdbFor(y) /\ RdbFor(y) /\ FlowFor(y) /\ Sending(y) /\ OneAtATime(y) /\ Unpaused(y)
        /\ transferred[y] \in Nat /\ Len(source[y]) \in Nat /\ Len(source[x]) \in Nat
        /\ pc \in [Xfer -> SenderPc] /\ sdb \in [Xfer -> Row] /\ rdb \in [Xfer -> Row]
        /\ toR[y] \in Seq(Packet) /\ sdb[y].got \in Nat /\ rdb[y].got \in Nat
    BY LenProperties DEF Rows, RowsFor, Flow, FlowFor, TypeOK, Row
  <1>1. UNCHANGED <<rdb, rec, pkt, source, canc>>
    BY DEF send_file, BrokenPipe, Kill, SendRefused, SendBegin, HashFile,
       SendOffer, ConnectFails, NoResponse, OfferAbandoned, StartStreaming, ReadChunk,
       EndOfFile, SendChunk, ChunkSendFails, ChunkAcked, ChunkNotAcked, SendComplete,
       SendFinish, rcvVars
  <1>2. \A s \in Side : ~canc'[s][y].on
    BY <1>1 DEF Rows, RowsFor
  <1>a. ASSUME SdbFor(y)', RdbFor(y)', sdb'[y].got >= sdb[y].got,
               sdb[y].state = "completed" => sdb'[y] = sdb[y]
        PROVE  RowsFor(y)' /\ Forward(y)
    BY <1>0, <1>1, <1>2, <1>a DEF RowsFor, Forward
  <1>b. ASSUME sdb'[y] = sdb[y], transferred'[y] = transferred[y],
               pc'[y] \in {"idle", "hash", "refused"} => pc[y] \in {"idle", "hash", "refused"},
               pc[y] = "completed" => pc'[y] = "completed", RdbFor(y)'
        PROVE  RowsFor(y)' /\ Forward(y)
    <2>1. SdbFor(y)'
      BY <1>0, <1>b, KeepSdb
    <2> QED
      BY <1>0, <1>a, <1>b, <2>1
  <1>c. ASSUME toR'[y] = toR[y], rpc'[y] = rpc[y], transferred'[y] = transferred[y],
               pc'[y] \in Even => pc[y] \in Even
        PROVE  RdbFor(y)'
    <2>1. (Asking(y)' <=> Asking(y)) /\ (Offered(y)' <=> Offered(y))
      BY <1>1, <1>c DEF Asking, AskInHand, Offered
    <2> QED
      BY <1>0, <1>1, <1>c, <2>1, KeepRdb
  <1>d. ASSUME NEW n \in Nat, NEW s, SetProgress(x, n, s), y = x, n >= sdb[x].got,
               transferred'[x] \in Nat, n <= transferred'[x], transferred'[x] >= transferred[x],
               pc[x] # "completed", pc'[x] \notin {"idle", "hash", "refused"},
               s = "completed" => pc'[x] = "completed", RdbFor(x)'
        PROVE  RowsFor(y)' /\ Forward(y)
    <2>1. sdb[x].state # "completed" /\ sdb[x].got <= transferred[x] /\ sdb[x].got \in Nat
      BY <1>0, <1>d DEF SdbFor
    <2>2. sdb'[x] = sdb[x] \/ (sdb'[x].got = n /\ sdb'[x].state = s)
      BY <1>d, ProgressGot
    <2>3. SdbFor(x)' /\ sdb'[x].got >= sdb[x].got
      BY <1>0, <1>d, <2>1, <2>2 DEF SdbFor
    <2> QED
      BY <1>a, <1>d, <2>1, <2>3
  <1>3. CASE BrokenPipe(x)
    <2>1. /\ pc'[y] = pc[y] \/ (pc'[y] = "crashed" /\ pc[y] \notin Returned)
          /\ UNCHANGED <<sdb, transferred, toR, rpc>>
      BY <1>0, <1>3 DEF BrokenPipe, Kill, netVars, rcvVars
    <2> QED
      BY <1>b, <1>c, <2>1 DEF Even, Still, Returned
  <1>4. CASE y # x /\ ~BrokenPipe(x)
    <2>1. \A n, s : SetProgress(x, n, s) => sdb'[y] = sdb[y]
      BY <1>4, ProgressGot
    <2>2. sdb'[y] = sdb[y]
      BY <1>4, <2>1 DEF TypeOK, send_file, SendRefused, SendBegin, HashFile, Committed, upsert_transfer,
         SendOffer, ConnectFails, NoResponse, OfferAbandoned, StartStreaming, ReadChunk,
         EndOfFile, SendChunk, ChunkSendFails, GiveUp, ChunkAcked, ChunkNotAcked, SendComplete,
         SendFinish
    <2>3. /\ pc'[y] = pc[y] /\ transferred'[y] = transferred[y]
          /\ toR'[y] = toR[y] /\ rpc'[y] = rpc[y]
      BY ZenonT(30), <1>4 DEF TypeOK, Go, send_file, SendRefused, SendBegin, HashFile,
         SendOffer, ConnectFails, NoResponse, OfferAbandoned, StartStreaming, ReadChunk,
         EndOfFile, SendChunk, ChunkSendFails, GiveUp, ChunkAcked, ChunkNotAcked,
         SendComplete, SendFinish, netVars, rcvVars
    <2> QED
      BY <1>b, <1>c, <2>2, <2>3
  <1>5. CASE y = x /\ (\/ SendRefused(x) \/ SendBegin(x) \/ ReadChunk(x) \/ EndOfFile(x)
                      \/ ChunkNotAcked(x))
    <2>1. /\ pc'[x] \in {"idle", "hash", "refused"} => pc[x] \in {"idle", "hash", "refused"}
          /\ pc[x] # "completed" /\ (pc'[x] \in Even => pc[x] \in Even)
          /\ UNCHANGED <<sdb, transferred, toR, rpc>>
      BY <1>0, <1>5 DEF SendRefused, SendBegin, ReadChunk, EndOfFile, ChunkNotAcked, Go, netVars, rcvVars,
         Even, Still
    <2> QED
      BY <1>5, <1>b, <1>c, <2>1
  <1>6. CASE y = x /\ HashFile(x)
    <2>1. /\ pc[x] = "hash" /\ pc'[x] = "connect"
          /\ UNCHANGED <<transferred, toR, rpc>>
          /\ sdb' = sdb \/ sdb' = upsert_transfer(sdb, x, file_sz[x])
      BY <1>0, <1>6 DEF HashFile, Go, netVars, rcvVars, Committed
    <2>2. sdb[x] = NoRow /\ (sdb'[x] = sdb[x] \/ (sdb'[x].got = 0 /\ sdb'[x].state = "pending"))
      BY <1>0, <1>6, <2>1 DEF SdbFor, upsert_transfer
    <2>3. SdbFor(x)' /\ sdb'[x].got >= sdb[x].got /\ sdb[x].state # "completed"
      BY <1>0, <1>6, <2>1, <2>2 DEF SdbFor, NoRow
    <2> QED
      BY <1>6, <1>a, <1>c, <2>1, <2>3 DEF Even, Still
  <1>7. CASE y = x /\ SendOffer(x)
    <2>1. /\ pc[x] = "connect" /\ pc'[x] = "waitResp" /\ rpc'[x] = "read"
          /\ UNCHANGED <<sdb, transferred>>
      BY <1>0, <1>7 DEF SendOffer, Go, TypeOK
    <2>2. rpc[x] = "none" /\ transferred[x] = 0 /\ pc[x] \in Even
      BY <1>0, <1>7, <2>1 DEF Sending, Even, Still
    <2>3. rdb[x].got = 0
      BY <1>0, <1>7, <2>2 DEF RdbFor
    <2>4. RdbFor(x)'
      BY <1>0, <1>1, <1>7, <2>1, <2>2, <2>3, KeepRdb
    <2> QED
      BY <1>7, <1>b, <2>1, <2>4
  <1>8. CASE y = x /\ (ConnectFails(x) \/ NoResponse(x) \/ OfferAbandoned(x))
    <2>1. /\ pc[x] \in {"connect", "waitResp"} /\ pc'[x] = "failed"
          /\ SetProgress(x, 0, "failed")
          /\ UNCHANGED <<transferred, toR, rpc>>
      BY <1>0, <1>8 DEF ConnectFails, NoResponse, OfferAbandoned, Go, netVars, rcvVars
    <2>2. transferred[x] = 0
      BY <1>0, <1>8, <2>1 DEF Sending
    <2>3. 0 >= sdb[x].got
      BY <1>0, <1>8, <2>2 DEF SdbFor
    <2>4. RdbFor(x)'
      BY <1>8, <1>c, <2>1 DEF Even, Still
    <2> QED
      BY <1>8, <1>d, <2>1, <2>2, <2>3, <2>4
  <1>9. CASE y = x /\ StartStreaming(x)
    <2>1. /\ pc[x] = "waitResp" /\ pc'[x] = "loop"
          /\ toS[x] # <<>> /\ toS[x] \in Seq(Packet)
          /\ UNCHANGED <<toR, rpc>>
      BY <1>0, <1>9 DEF StartStreaming, Go, rcvVars, TypeOK
    <2>2. Head(toS[x]).type # "FileResume" /\ ~Asking(x)
      BY <1>0, <1>9, <2>1 DEF Unpaused, OneAtATime
    <2>3. transferred[x] = 0 /\ transferred'[x] = 0 /\ SetProgress(x, 0, "in_progress")
      BY <1>0, <1>9, <2>1, <2>2 DEF StartStreaming, Sending, TypeOK
    <2>4. 0 >= sdb[x].got
      BY <1>0, <1>9, <2>3 DEF SdbFor
    <2>5. (Asking(x)' <=> Asking(x)) /\ (Offered(x)' <=> Offered(x))
      BY <1>1, <2>1 DEF Asking, AskInHand, Offered
    <2>6. RdbFor(x)'
      BY <1>0, <1>1, <1>9, <2>1, <2>3, <2>5, KeepRdb DEF Even
    <2> QED
      BY <1>9, <1>d, <2>1, <2>3, <2>4, <2>6 DEF Even
  <1>10. CASE y = x /\ SendChunk(x)
    <2>1. /\ pc[x] = "send" /\ pc'[x] = "waitAck"
          /\ toR'[x] = Append(toR[x], FileChunk(x))
          /\ UNCHANGED <<sdb, transferred, rpc>>
      BY <1>0, <1>10 DEF SendChunk, Go, rcvVars, TypeOK
    <2>2. PICK p \in Packet : p.type = "FileChunk" /\ toR'[x] = Append(toR[x], p)
      BY <2>1, SentPackets
    <2>3. HasOffer(toR'[x]) => HasOffer(toR[x])
      BY <1>0, <1>10, <2>2, OfferKept
    <2>4. Offered(x)' => Offered(x)
      BY <1>1, <2>1, <2>3 DEF Offered
    <2>5. RdbFor(x)'
      BY <1>0, <1>1, <1>10, <2>1, <2>4, KeepRdb DEF Even, Still
    <2> QED
      BY <1>10, <1>b, <2>1, <2>5
  <1>11. CASE y = x /\ ChunkSendFails(x)
    <2>1. /\ pc[x] = "send" /\ toR'[x] \in {toR[x], Append(toR[x], Torn)}
          /\ UNCHANGED <<transferred, rpc>>
          /\ \/ pc'[x] = "send" /\ sdb' = sdb
             \/ pc'[x] = "failed" /\ SetProgress(x, transferred[x], "failed")
      BY <1>0, <1>11 DEF ChunkSendFails, GiveUp, Go, rcvVars, TypeOK
    <2>2. Torn \in Packet /\ Torn.type # "FileOffer"
      BY TornType DEF Torn, Control, Pkt
    <2>3. HasOffer(toR'[x]) => HasOffer(toR[x])
      BY <1>0, <1>11, <2>1, <2>2, OfferKept
    <2>4. Offered(x)' => Offered(x)
      BY <1>1, <2>1, <2>3 DEF Offered
    <2>5. RdbFor(x)'
      BY <1>0, <1>1, <1>11, <2>1, <2>4, KeepRdb DEF Even, Still
    <2>6. transferred[x] >= sdb[x].got
      BY <1>0, <1>11 DEF SdbFor
    <2>7. CASE pc'[x] = "send" /\ sdb' = sdb
      BY <1>11, <1>b, <2>1, <2>5, <2>7
    <2>8. CASE pc'[x] = "failed" /\ SetProgress(x, transferred[x], "failed")
      BY <1>0, <1>11, <1>d, <2>1, <2>5, <2>6, <2>8
    <2> QED
      BY <2>1, <2>7, <2>8
  <1>12. CASE y = x /\ ChunkAcked(x)
    <2>1. /\ pc[x] = "waitAck" /\ pc'[x] = "loop" /\ transferred'[x] = transferred[x] + 1
          /\ SetProgress(x, transferred[x] + 1, "in_progress")
          /\ UNCHANGED <<toR, rpc>>
      BY <1>0, <1>12 DEF ChunkAcked, Go, rcvVars, TypeOK
    <2>2. transferred[x] + 1 \in Nat /\ transferred[x] + 1 >= sdb[x].got
      BY <1>0, <1>12 DEF SdbFor
    <2>3. (Asking(x)' <=> Asking(x)) /\ (Offered(x)' <=> Offered(x))
      BY <1>1, <2>1 DEF Asking, AskInHand, Offered
    <2>4. transferred'[x] \in Nat /\ transferred'[x] > transferred[x]
      BY <1>0, <1>12, <2>1
    <2>5. RdbFor(x)'
      BY <1>0, <1>1, <1>12, <2>1, <2>3, <2>4, KeepRdb
    <2> QED
      BY <1>0, <1>12, <1>d, <2>1, <2>2, <2>4, <2>5
  <1>13. CASE y = x /\ SendComplete(x)
    <2>1. /\ pc[x] = "complete" /\ pc'[x] = "finish"
          /\ UNCHANGED <<sdb, transferred, rpc>>
          /\ toR'[x] \in {toR[x], Append(toR[x], Torn), Append(toR[x], FileComplete(x))}
      BY <1>0, <1>13 DEF SendComplete, SendUnchecked, WriteFrame, Go, rcvVars, TypeOK
    <2>2. PICK p \in Packet : /\ ~Asks(p) /\ p.type # "FileOffer"
                              /\ toR'[x] \in {toR[x], Append(toR[x], p)}
      BY <2>1, SentPackets DEF Asks
    <2>3. (HasAsk(toR'[x]) => HasAsk(toR[x])) /\ (HasOffer(toR'[x]) => HasOffer(toR[x]))
      <3> DEFINE q == toR[x]
                 r == toR'[x]
      <3>1. q \in Seq(Packet) /\ r \in {q, Append(q, p)}
        BY <1>0, <1>13, <2>2
      <3> HIDE DEF q, r
      <3>2. HasAsk(r) => HasAsk(q)
        BY ZenonT(30), <2>2, <3>1, MaybeFrame
      <3>3. HasOffer(r) => HasOffer(q)
        BY <2>2, <3>1, OfferKept
      <3> QED
        BY <3>2, <3>3 DEF q, r
    <2>5. (Asking(x)' => Asking(x)) /\ (Offered(x)' => Offered(x))
      BY <1>1, <2>1, <2>3 DEF Asking, AskInHand, Offered
    <2>6. RdbFor(x)'
      BY SMTT(30), <1>0, <1>1, <1>13, <2>1, <2>5, KeepRdb DEF Even, Still
    <2> QED
      BY <1>13, <1>b, <2>1, <2>6
  <1>14. CASE y = x /\ SendFinish(x)
    <2>1. /\ pc[x] = "finish" /\ pc'[x] = "completed"
          /\ SetProgress(x, transferred[x], "completed")
          /\ UNCHANGED <<transferred, toR, rpc>>
      BY <1>0, <1>14 DEF SendFinish, Go, netVars, rcvVars
    <2>2. transferred[x] >= sdb[x].got
      BY <1>0, <1>14 DEF SdbFor
    <2>3. RdbFor(x)'
      BY <1>14, <1>c, <2>1 DEF Even, Still
    <2> QED
      BY <1>0, <1>14, <1>d, <2>1, <2>2, <2>3
  <1> QED
    BY <1>3, <1>4, <1>5, <1>6, <1>7, <1>8, <1>9, <1>10, <1>11, <1>12, <1>13, <1>14
    DEF send_file
\* The row of the receiver goes from offer to offer and from chunk to chunk, and
\* the verdict finds it where the snapshot of handle_file_complete had it.
LEMMA ReceiverRows ==
    ASSUME TypeOK, Flow, SizeInv, Rows, NEW x \in Xfer, handle_conn(x), NEW y \in Xfer
    PROVE  RowsFor(y)' /\ Forward(y)
  <1>0. /\ SdbFor(y) /\ RdbFor(y) /\ FlowFor(y) /\ Sending(y) /\ OneAtATime(y) /\ Questions(y)
        /\ transferred[y] \in Nat /\ Len(source[y]) \in Nat
        /\ rpc \in [Xfer -> ReceiverPc] /\ sdb \in [Xfer -> Row] /\ rdb \in [Xfer -> Row]
        /\ toR[y] \in Seq(Packet) /\ sdb[y].got \in Nat /\ rdb[y].got \in Nat
    BY LenProperties DEF Rows, RowsFor, Flow, FlowFor, TypeOK, Row
  <1>1. UNCHANGED <<pc, source, transferred, sdb, canc>>
    BY DEF handle_conn, ReadPacket, ReadPacketFails, Resync, handle_file_offer, ChunkDropped,
       handle_file_chunk, AckChunk, CloseOut, handle_file_complete, RecordVerdict, sndVars
  <1>2. SdbFor(y)' /\ \A s \in Side : ~canc'[s][y].on
    BY <1>0, <1>1, KeepSdb DEF Rows, RowsFor
  <1>a. ASSUME RdbFor(y)', rdb'[y].got >= rdb[y].got,
               rdb[y].state = "completed" => rdb'[y] = rdb[y]
        PROVE  RowsFor(y)' /\ Forward(y)
    BY <1>0, <1>1, <1>2, <1>a DEF RowsFor, Forward
  <1>b. ASSUME rdb'[y] = rdb[y], RdbFor(y)'
        PROVE  RowsFor(y)' /\ Forward(y)
    BY <1>0, <1>a, <1>b
  <1>c. ASSUME rdb'[y] = rdb[y],
               rpc[y] = "closed" => rpc'[y] = "closed",
               rpc'[y] \in {"verified", "mismatch"} => rpc'[y] = rpc[y] /\ rec'[y] = rec[y],
               Asking(y)' => Asking(y), Offered(y)' => Offered(y)
        PROVE  RdbFor(y)'
    BY <1>0, <1>1, <1>c, KeepRdb
  <1>3. CASE y # x
    <2>1. /\ rdb'[y] = rdb[y] /\ rpc'[y] = rpc[y] /\ rec'[y] = rec[y]
          /\ toR'[y] = toR[y] /\ pkt'[y] = pkt[y]
      BY SMTT(30), <1>3 DEF TypeOK, At, handle_conn, ReadPacket, ReadPacketFails, Resync,
         handle_file_offer, ChunkDropped, handle_file_chunk, AckChunk, CloseOut,
         handle_file_complete, RecordVerdict, Committed, upsert_transfer,
         update_transfer_progress, netVars
    <2>2. (Asking(y)' <=> Asking(y)) /\ (Offered(y)' <=> Offered(y))
      BY <2>1 DEF Asking, AskInHand, Offered
    <2> QED
      BY <1>b, <1>c, <2>1, <2>2
  <1>4. CASE y = x /\ ReadPacket(x)
    <2>1. /\ rpc[x] = "read" /\ rpc'[x] = "dispatch" /\ toR[x] # <<>>
          /\ pkt'[x] = Head(toR[x]) /\ toR'[x] = Tail(toR[x]) /\ UNCHANGED rdb
      BY <1>4 DEF ReadPacket, At, TypeOK
    <2> DEFINE q == toR[x]
    <2>2. /\ Tail(q) \in Seq(Packet) /\ Part(Tail(q), q) /\ Head(q) = q[1] /\ 1 \in 1..Len(q)
      BY <1>0, <1>4, <2>1, Parts
    <2>3. HasAsk(Tail(q)) => HasAsk(q)
      BY <1>0, <1>4, <2>2, PartAsks
    <2>4. HasOffer(Tail(q)) => HasOffer(q)
      BY <1>0, <1>4, <2>2, OfferKept
    <2>5. Asking(x)' => Asking(x)
      BY <2>1, <2>2, <2>3 DEF Asking, AskInHand, HasAsk
    <2>6. Offered(x)' => Offered(x)
      BY <2>1, <2>2, <2>4 DEF Offered, HasOffer
    <2> QED
      BY <1>4, <1>b, <1>c, <2>1, <2>5, <2>6
  <1>5. CASE y = x /\ (ReadPacketFails(x) \/ ChunkDropped(x) \/ CloseOut(x))
    <2>1. /\ rpc[x] # "closed" /\ rpc'[x] \in {"closed", "read"}
          /\ UNCHANGED <<rdb, rec, toR, pkt>>
      BY <1>0, <1>5 DEF ReadPacketFails, ChunkDropped, CloseOut, At, netVars
    <2>2. (Asking(x)' => Asking(x)) /\ (Offered(x)' => Offered(x))
      BY <2>1 DEF Asking, AskInHand, Offered
    <2> QED
      BY <1>5, <1>b, <1>c, <2>1, <2>2
  <1>6. CASE y = x /\ Resync(x)
    <2>1. PICK n \in 2..Len(toR[x]) :
              toR' = [toR EXCEPT ![x] = SubSeq(toR[x], n + 1, Len(toR[x]))]
      BY <1>6 DEF Resync
    <2>2. Len(toR[x]) \in Nat /\ n \in 0..Len(toR[x])
      BY <1>0, <1>6, <2>1, LenProperties
    <2>3. /\ toR'[x] = SubSeq(toR[x], n + 1, Len(toR[x]))
          /\ UNCHANGED <<pkt, rpc, rdb, rec>>
      BY <1>6, <2>1 DEF Resync, TypeOK
    <2>4. toR'[x] \in Seq(Packet) /\ Part(toR'[x], toR[x])
      BY <1>0, <1>6, <2>2, <2>3, Parts
    <2>5. HasAsk(toR'[x]) => HasAsk(toR[x])
      BY <1>0, <1>6, <2>4, PartAsks
    <2>6. HasOffer(toR'[x]) => HasOffer(toR[x])
      BY <1>0, <1>6, <2>4, OfferKept
    <2>7. (Asking(x)' => Asking(x)) /\ (Offered(x)' => Offered(x))
      BY <2>3, <2>5, <2>6 DEF Asking, AskInHand, Offered
    <2> QED
      BY <1>6, <1>b, <1>c, <2>3, <2>7
  <1>7. CASE y = x /\ handle_file_offer(x)
    <2>1. /\ rpc[x] = "dispatch" /\ pkt[x].type = "FileOffer" /\ rpc'[x] = "read"
          /\ UNCHANGED <<toR, pkt>>
          /\ rdb'[x] = rdb[x] \/ (rdb'[x].got = 0 /\ rdb'[x].state = "pending")
      BY <1>0, <1>7 DEF handle_file_offer, At, Committed, upsert_transfer
    <2>2. Offered(x) /\ rdb[x].got = 0 /\ rdb[x].state # "completed"
      BY <1>0, <1>7, <2>1 DEF Offered, RdbFor
    <2>3. rdb'[x].got = 0 /\ rdb'[x].state # "completed"
      BY <2>1, <2>2
    <2>4. RdbFor(x)'
      BY <1>0, <1>1, <1>7, <2>1, <2>3 DEF RdbFor
    <2> QED
      BY <1>0, <1>7, <1>a, <2>2, <2>3, <2>4
  <1>8. CASE y = x /\ handle_file_chunk(x)
    <2>1. /\ rpc[x] = "dispatch" /\ pkt[x].type = "FileChunk" /\ rpc'[x] = "written"
          /\ UNCHANGED <<rdb, rec, toR, pkt>>
      BY <1>0, <1>8 DEF handle_file_chunk, At, netVars
    <2>2. Asking(x) /\ (Offered(x)' => Offered(x))
      BY <2>1 DEF Asking, AskInHand, Asks, Offered
    <2> QED
      BY <1>8, <1>b, <1>c, <2>1, <2>2
  <1>9. CASE y = x /\ AckChunk(x)
    <2>1. /\ rpc[x] = "written" /\ rpc'[x] = "acked"
          /\ UNCHANGED <<toR, pkt>>
          /\ \/ rdb'[x] = rdb[x]
             \/ rdb'[x].got = pkt[x].off + Len(pkt[x].data) /\ rdb'[x].state = "in_progress"
      BY <1>0, <1>9 DEF AckChunk, At, Committed, update_transfer_progress
    <2>2. Expected(x, pkt[x]) /\ pc[x] \in Chunking
      BY <1>0, <1>9, <2>1 DEF Questions, Apt
    <2>3. pkt[x].off + Len(pkt[x].data) = transferred[x] + 1
      BY <1>0, <1>9, <2>2 DEF Expected
    <2>4. transferred[x] < Len(source[x])
      BY <2>2 DEF Expected
    <2>5. Asking(x) /\ rdb[x].got <= transferred[x] /\ rdb[x].state # "completed"
      BY <1>0, <1>9, <2>1 DEF Asking, RdbFor
    <2>6. /\ rdb'[x].got = rdb[x].got \/ rdb'[x].got = transferred[x] + 1
          /\ rdb'[x].state # "completed"
      BY <2>1, <2>3, <2>5
    <2>7. ~HasAsk(toR[x]) /\ ~HasOffer(toR[x])
      BY <1>0, <1>9, <2>1 DEF OneAtATime, HasAsk, HasOffer, Asks
    <2>8. ~Asking(x)' /\ ~Offered(x)' /\ pc'[x] \notin Even
      BY <1>1, <2>1, <2>2, <2>7 DEF Asking, AskInHand, Offered, Even, Still, Chunking
    <2>9. RdbFor(x)'
      BY <1>0, <1>1, <1>9, <2>1, <2>4, <2>5, <2>6, <2>8 DEF RdbFor
    <2> QED
      BY <1>0, <1>9, <1>a, <2>5, <2>6, <2>9
  <1>10. CASE y = x /\ handle_file_complete(x)
    <2>1. /\ rpc[x] = "dispatch" /\ rpc'[x] \in {"closed", "verified", "mismatch"}
          /\ rec'[x] = rdb[x] /\ UNCHANGED <<rdb, toR, pkt>>
      BY <1>0, <1>10 DEF handle_file_complete, At, TypeOK, netVars
    <2>2. (Asking(x)' => Asking(x)) /\ (Offered(x)' => Offered(x))
      BY <2>1 DEF Asking, AskInHand, Offered
    <2>3. RdbFor(x)'
      BY <1>0, <1>1, <1>10, <2>1, <2>2 DEF RdbFor
    <2> QED
      BY <1>10, <1>b, <2>1, <2>3
  <1>11. CASE y = x /\ RecordVerdict(x)
    <2>1. rpc[x] \in {"verified", "mismatch"} /\ rpc'[x] = "closed"
      BY <1>0, <1>11 DEF RecordVerdict, At
    <2>2. /\ rec[x] = rdb[x] /\ rdb[x].state # "completed" /\ rdb[x].got <= Len(source[x])
      BY <1>0, <1>11, <2>1 DEF RdbFor
    <2>3. rpc[x] = "verified" => rec[x].total = Len(source[x])
      <3>1. file_sz[x] = Len(source[x])
        BY <1>0, <1>11, <2>1 DEF Sending
      <3>2. rpc[x] = "verified" => rec[x].total = Size(x)
        BY DEF SizeInv, SizeFor
      <3> QED
        BY <3>1, <3>2 DEF Size
    <2>4. \/ rdb'[x] = rdb[x]
          \/ rpc[x] = "verified" /\ rdb'[x].got = rec[x].total
          \/ rpc[x] = "mismatch" /\ rdb'[x].got = rec[x].got
      BY <1>0, <1>11 DEF RecordVerdict, Committed, update_transfer_progress
    <2>5. rdb'[x].got >= rdb[x].got
      BY <1>0, <1>11, <2>2, <2>3, <2>4
    <2>6. RdbFor(x)'
      BY <2>1 DEF RdbFor
    <2> QED
      BY <1>11, <1>a, <2>2, <2>5, <2>6
  <1> QED
    BY <1>3, <1>4, <1>5, <1>6, <1>7, <1>8, <1>9, <1>10, <1>11 DEF handle_conn
\* No other fault writes to a table: losses and crashes only end conversations.
LEMMA EnvironmentRows ==
    ASSUME TypeOK, Rows, LeftAlone, Environment, NEW y \in Xfer
    PROVE  RowsFor(y)' /\ Forward(y)
  <1>0. /\ SdbFor(y) /\ RdbFor(y) /\ transferred[y] \in Nat /\ toR[y] \in Seq(Packet)
        /\ sdb[y].got \in Nat /\ rdb[y].got \in Nat
    BY DEF Rows, RowsFor, TypeOK, Row
  <1>1. \/ \E x \in Xfer : ConnReset(x) \/ Corrupt(x)
        \/ (\E p \in Proc : SenderCrash(p)) \/ ReceiverCrash \/ ReceiverRestart
    BY DEF Environment, LeftAlone, EditSource, CancelRead, CancelWrite, Clean, Rows, RowsFor
  <1>2. /\ UNCHANGED <<sdb, rdb, rec, pkt, source, transferred, canc>>
        /\ pc'[y] = pc[y] \/ (pc'[y] = "crashed" /\ pc[y] \notin Returned)
        /\ rpc'[y] = rpc[y] \/ rpc'[y] = "closed"
    BY <1>1 DEF ConnReset, Corrupt, SenderCrash, Kill, ReceiverCrash, ReceiverRestart,
       sndVars, netVars, rcvVars
  <1>3. (HasAsk(toR'[y]) => HasAsk(toR[y])) /\ (HasOffer(toR'[y]) => HasOffer(toR[y]))
    <2>1. CASE \E x \in Xfer : ConnReset(x)
      <3>1. PICK x \in Xfer : ConnReset(x)
        BY <2>1
      <3>2. PICK n \in 0..Len(toR[x]) : toR' = [toR EXCEPT ![x] = SubSeq(@, 1, n)]
        BY <3>1 DEF ConnReset
      <3>3. CASE y = x
        <4>1. toR'[x] = SubSeq(toR[x], 1, n)
          BY <3>2 DEF TypeOK
        <4>2. toR'[x] \in Seq(Packet) /\ Part(toR'[x], toR[x])
          BY <1>0, <3>3, <4>1, Parts
        <4>3. HasAsk(toR'[x]) => HasAsk(toR[x])
          BY <1>0, <3>3, <4>2, PartAsks
        <4>4. HasOffer(toR'[x]) => HasOffer(toR[x])
          BY <1>0, <3>3, <4>2, OfferKept
        <4> QED
          BY <3>3, <4>3, <4>4
      <3>4. CASE y # x
        BY <3>2, <3>4 DEF TypeOK
      <3> QED
        BY <3>3, <3>4
    <2>2. CASE \E x \in Xfer : Corrupt(x)
      <3>1. PICK x \in Xfer : Corrupt(x)
        BY <2>2
      <3>2. PICK b \in Block : toR' = [toR EXCEPT ![x] =
                              <<[Head(@) EXCEPT !.data = <<b>>]>> \o Tail(@)]
        BY <3>1 DEF Corrupt
      <3>3. CASE y = x
        <4> DEFINE q == toR[x]
                   h == [Head(q) EXCEPT !.data = <<b>>]
                   r == <<h>> \o Tail(q)
        <4>1. toR'[x] = r
          BY <3>2 DEF TypeOK
        <4>2. /\ q \in Seq(Packet) /\ q # <<>> /\ Head(q) \in Packet /\ Tail(q) \in Seq(Packet)
              /\ Head(q).type = "FileChunk"
          BY <1>0, <3>1, <3>3 DEF Corrupt
        <4>3. <<b>> \in Seq(Block)
          OBVIOUS
        <4>4. h \in Packet /\ h.type = Head(q).type
          BY <4>2, <4>3 DEF Packet
        <4> HIDE DEF h, q
        <4>5. r \in Seq(Packet) /\ r = <<h>> \o Tail(q)
          BY <4>2, <4>4
        <4> HIDE DEF r
        <4>6. Len(r) = Len(q) /\ r[1] = h
          BY <4>2, <4>4, <4>5, AlterHead
        <4>7. \A i \in 2..Len(q) : r[i] = q[i]
          BY <4>2, <4>4, <4>5, AlterHead
        <4>8. HasAsk(r) <=> HasAsk(q)
          BY <4>2, <4>4, <4>5, AlterHead
        <4>9. h.type # "FileOffer" /\ Len(q) \in Nat
          BY <4>2, <4>4, LenProperties
        <4>10. HasOffer(r) => HasOffer(q)
          BY <4>6, <4>7, <4>9 DEF HasOffer
        <4> QED
          BY <3>3, <4>1, <4>8, <4>10 DEF q
      <3>4. CASE y # x
        BY <3>2, <3>4 DEF TypeOK
      <3> QED
        BY <3>3, <3>4
    <2>3. CASE (\E p \in Proc : SenderCrash(p)) \/ ReceiverCrash \/ ReceiverRestart
      BY <2>3 DEF SenderCrash, Kill, ReceiverCrash, ReceiverRestart, netVars
    <2> QED
      BY <1>1, <2>1, <2>2, <2>3
  <1>4. (Asking(y)' => Asking(y)) /\ (Offered(y)' => Offered(y))
    BY <1>2, <1>3 DEF Asking, AskInHand, Offered
  <1>5. SdbFor(y)'
    BY <1>0, <1>2, KeepSdb DEF Returned
  <1>6. RdbFor(y)'
    BY <1>0, <1>2, <1>4, KeepRdb DEF Even, Still
  <1> QED
    BY <1>0, <1>2, <1>5, <1>6 DEF RowsFor, Forward, Rows

LEMMA NextRows ==
    ASSUME TypeOK, Flow, SizeInv, Rows, LeftAlone, [Next]_vars
    PROVE  Rows' /\ \A y \in Xfer : Forward(y)
  <1> SUFFICES ASSUME NEW y \in Xfer PROVE RowsFor(y)' /\ Forward(y)
    BY DEF Rows
  <1>1. CASE UNCHANGED vars
    <2>1. UNCHANGED <<pc, transferred, sdb, rdb, source, toR, rpc, pkt, rec, canc>>
      BY <1>1 DEF vars, sndVars, netVars, rcvVars
    <2>2. RowsFor(y)'
      BY <2>1 DEF Rows, RowsFor, SdbFor, RdbFor, Asking, AskInHand, Offered
    <2>3. sdb[y].got \in Nat /\ rdb[y].got \in Nat
      BY DEF TypeOK, Row
    <2> QED
      BY <2>1, <2>2, <2>3 DEF Forward
  <1> QED
    BY <1>1, SenderRows, ReceiverRows, EnvironmentRows DEF Next

\* Unless somebody cancels the transfer, cleans the tables or rewrites the
\* source while it is sent, the progress in the tables of both nodes only grows
\* and a row that says "completed" is final, whatever is lost, stalled, torn,
\* altered or dropped and whoever crashes (update_transfer_progress).
THEOREM RowsOnlyMoveForward ==
    ASSUME LeftAlone
    PROVE  Spec => RowsMoveForward
  <1> DEFINE Inv == Flow /\ SizeInv /\ Rows
             Step == \A x \in Xfer : /\ sdb'[x].got >= sdb[x].got
                                     /\ rdb'[x].got >= rdb[x].got
                                     /\ sdb[x].state = "completed" => sdb'[x] = sdb[x]
                                     /\ rdb[x].state = "completed" => rdb'[x] = rdb[x]
  <1>1. Init => IntactInv /\ Inv
    BY InitIntact, InitFlow, InitSize, InitRows
  <1>2. TypeOK /\ IntactInv /\ Inv /\ [Next]_vars => IntactInv' /\ Inv'
    <2>1. "edit" \notin Faults
      BY DEF LeftAlone
    <2> QED
      BY <2>1, NextIntact, NextFlow, NextSize, NextRows
  <1>3. TypeOK /\ Inv /\ [Next]_vars => [Step]_vars
    BY NextRows DEF Forward
  <1> HIDE DEF Inv, Step
  <1>4. Spec => [][Step]_vars
    BY <1>1, <1>2, <1>3, TypeCorrect, PTL DEF Spec
  <1> QED
    BY <1>4 DEF RowsMoveForward, Step
============================================================================
