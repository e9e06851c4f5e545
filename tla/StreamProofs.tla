---------------------------- MODULE StreamProofs ----------------------------
(***************************************************************************)
(* Theorems about a packet connection below the level of packets: its      *)
(* state is well typed, and as long as nothing breaks the cells on their   *)
(* way are the frames in their order, however they are cut into pieces.    *)
(***************************************************************************)
EXTENDS Stream, SequenceTheorems, TLAPS

Cells == Frames \X Nat

LEMMA FrameFacts ==
    /\ Frames = 1..Len(Size) /\ Len(Size) \in Nat
    /\ \A i \in Frames : /\ Size[i] \in Nat /\ Attempts[i] \in Nat \ {0}
                         /\ serialize_packet(i) \in Seq(Cells)
                         /\ Len(serialize_packet(i)) = HeaderSize + Size[i]
                         /\ \A k \in 1..HeaderSize + Size[i] : serialize_packet(i)[k] = <<i, k>>
  <1>1. Frames = 1..Len(Size) /\ Len(Size) \in Nat
    BY SizeAssumption DEF Frames
  <1>2. ASSUME NEW i \in Frames
        PROVE  /\ Size[i] \in Nat /\ Attempts[i] \in Nat \ {0}
               /\ serialize_packet(i) \in Seq(Cells)
               /\ Len(serialize_packet(i)) = HeaderSize + Size[i]
               /\ \A k \in 1..HeaderSize + Size[i] : serialize_packet(i)[k] = <<i, k>>
    <2>1. Size[i] \in Nat /\ Attempts[i] \in Nat \ {0}
      BY SizeAssumption DEF Frames
    <2> DEFINE n == HeaderSize + Size[i]
               s == [k \in 1..n |-> <<i, k>>]
    <2>2. n \in Nat
      BY <2>1 DEF HeaderSize
    <2>3. \A k \in 1..n : <<i, k>> \in Cells
      BY <2>2 DEF Cells
    <2> HIDE DEF n
    <2>4. s \in Seq(Cells) /\ Len(s) = n /\ \A k \in 1..n : s[k] = <<i, k>>
      BY <2>2, <2>3
    <2> QED
      BY <2>1, <2>4 DEF n, serialize_packet
  <1> QED
    BY <1>1, <1>2

\* What a read or a reset leaves, and what is taken.
LEMMA Cut ==
    ASSUME NEW q \in Seq(Cells), NEW n \in 0..Len(q)
    PROVE  /\ SubSeq(q, 1, n) \in Seq(Cells) /\ Len(SubSeq(q, 1, n)) = n
           /\ \A k \in 1..n : SubSeq(q, 1, n)[k] = q[k]
           /\ SubSeq(q, n + 1, Len(q)) \in Seq(Cells)
           /\ Len(SubSeq(q, n + 1, Len(q))) = Len(q) - n
           /\ \A k \in 1..Len(q) - n : SubSeq(q, n + 1, Len(q))[k] = q[n + k]
  <1>1. Len(q) \in Nat /\ n \in Nat /\ n <= Len(q)
    BY LenProperties
  <1>2. /\ SubSeq(q, 1, n) \in Seq(Cells) /\ Len(SubSeq(q, 1, n)) = n
        /\ \A k \in 1..n : SubSeq(q, 1, n)[k] = q[k]
    BY <1>1
  <1>3. /\ SubSeq(q, n + 1, Len(q)) \in Seq(Cells)
        /\ Len(SubSeq(q, n + 1, Len(q))) = Len(q) - n
        /\ \A k \in 1..Len(q) - n : SubSeq(q, n + 1, Len(q))[k] = q[n + k]
    BY <1>1
  <1> QED
    BY <1>2, <1>3

\* A piece of a frame.
LEMMA Piece ==
    ASSUME NEW q \in Seq(Cells), NEW a \in Nat, NEW n \in Nat, a + n <= Len(q)
    PROVE  /\ SubSeq(q, a + 1, a + n) \in Seq(Cells) /\ Len(SubSeq(q, a + 1, a + n)) = n
           /\ \A k \in 1..n : SubSeq(q, a + 1, a + n)[k] = q[a + k]
  <1>1. Len(q) \in Nat
    BY LenProperties
  <1> QED
    BY <1>1

\* Two streams joined.
LEMMA Joined ==
    ASSUME NEW q \in Seq(Cells), NEW r \in Seq(Cells)
    PROVE  /\ q \o r \in Seq(Cells) /\ Len(q \o r) = Len(q) + Len(r)
           /\ Len(q) \in Nat /\ Len(r) \in Nat
           /\ \A k \in 1..Len(q) : (q \o r)[k] = q[k]
           /\ \A k \in 1..Len(r) : (q \o r)[Len(q) + k] = r[k]
  <1>1. /\ q \o r \in Seq(Cells) /\ Len(q \o r) = Len(q) + Len(r)
        /\ \A i \in 1..Len(q) + Len(r) :
              (q \o r)[i] = IF i <= Len(q) THEN q[i] ELSE r[i - Len(q)]
    BY ConcatProperties
  <1>2. Len(q) \in Nat /\ Len(r) \in Nat
    BY LenProperties
  <1> QED
    BY <1>1, <1>2
----------------------------------------------------------------------------
(* TypeOK.                                                                 *)

LEMMA InitType == Init => TypeOK
  <1> SUFFICES ASSUME Init PROVE TypeOK
    OBVIOUS
  <1>1. cur \in 1..Len(Size) + 1
    BY FrameFacts DEF Init
  <1>2. cur \in Frames => sent < HeaderSize + Size[cur] /\ tries < Attempts[cur]
    BY FrameFacts DEF Init, HeaderSize
  <1>3. sent \in Nat /\ tries \in Nat /\ wopen \in BOOLEAN /\ broken \in BOOLEAN /\ payload_len \in Nat
    BY DEF Init
  <1>4. /\ stream \in Seq(Frames \X Nat) /\ buf \in Seq(Frames \X Nat)
        /\ got \in Seq(Frames \cup {0}) /\ rpc \in {"header", "payload", "closed"}
    BY DEF Init
  <1> QED
    BY <1>1, <1>2, <1>3, <1>4 DEF TypeOK

\* A frame that is not finished leaves room for one more cell.
LEMMA NextFrame ==
    ASSUME NEW c \in 1..Len(Size) + 1
    PROVE  c \in Frames => 0 < HeaderSize + Size[c] /\ 0 < Attempts[c]
  BY FrameFacts DEF HeaderSize

LEMMA WriterType ==
    ASSUME TypeOK, \/ \E i \in Frames : \E n \in 1..HeaderSize + Size[i] : WritePiece(n)
                   \/ WriteFails \/ CloseConn
    PROVE  TypeOK'
  <1>0. /\ sent \in Nat /\ tries \in Nat /\ stream \in Seq(Cells) /\ Len(Size) \in Nat
        /\ cur \in Nat /\ cur \in 1..Len(Size) + 1
    BY FrameFacts DEF TypeOK, Cells
  <1>1. ASSUME NEW i \in Frames, NEW n \in 1..HeaderSize + Size[i], WritePiece(n)
        PROVE  TypeOK'
    <2> DEFINE frame == serialize_packet(cur)
    <2>1. /\ cur \in Frames /\ sent + n <= Len(frame) /\ n \in Nat /\ n > 0
          /\ stream' = stream \o SubSeq(frame, sent + 1, sent + n)
          /\ IF sent + n = Len(frame)
             THEN cur' = cur + 1 /\ sent' = 0 /\ tries' = 0
             ELSE sent' = sent + n /\ UNCHANGED <<cur, tries>>
          /\ UNCHANGED <<wopen, reader, broken>>
      BY <1>1, FrameFacts DEF WritePiece, HeaderSize
    <2>2. frame \in Seq(Cells) /\ Len(frame) = HeaderSize + Size[cur] /\ Len(frame) \in Nat
      BY <2>1, FrameFacts DEF HeaderSize
    <2> HIDE DEF frame
    <2>3. SubSeq(frame, sent + 1, sent + n) \in Seq(Cells)
      BY <1>0, <2>1, <2>2, Piece
    <2>4. stream' \in Seq(Frames \X Nat)
      BY <1>0, <2>1, <2>3, Joined DEF Cells
    <2>5. cur + 1 \in 1..Len(Size) + 1
      BY <1>0, <2>1, FrameFacts
    <2>6. CASE sent + n = Len(frame)
      <3>1. cur' \in 1..Len(Size) + 1 /\ sent' = 0 /\ tries' = 0
        BY <2>1, <2>5, <2>6
      <3>2. cur' \in Frames => 0 < HeaderSize + Size[cur'] /\ 0 < Attempts[cur']
        BY <3>1, NextFrame
      <3> QED
        BY <2>1, <2>4, <3>1, <3>2 DEF TypeOK, reader
    <2>7. CASE sent + n # Len(frame)
      <3>1. sent' = sent + n /\ UNCHANGED <<cur, tries>>
        BY <2>1, <2>7
      <3>2. sent' \in Nat /\ sent' < Len(frame)
        <4>1. \A s, k, l \in Nat : s + k <= l /\ s + k # l => s + k \in Nat /\ s + k < l
          OBVIOUS
        <4>2. sent + n \in Nat /\ sent + n < Len(frame)
          BY <1>0, <2>1, <2>2, <2>7, <4>1, Zenon
        <4> QED
          BY <3>1, <4>2
      <3>3. sent' \in Nat /\ sent' < HeaderSize + Size[cur]
        BY <2>2, <3>2
      <3> QED
        BY <2>1, <2>4, <3>1, <3>3 DEF TypeOK, reader
    <2> QED
      BY <2>6, <2>7
  <1>2. CASE WriteFails
    <2>1. cur \in Frames => 0 < HeaderSize + Size[cur]
      BY <1>0, NextFrame
    <2>2. cur \in Frames /\ Attempts[cur] \in Nat
      BY <1>2, FrameFacts DEF WriteFails
    <2>3. tries < Attempts[cur]
      BY <2>2 DEF TypeOK
    <2>4. tries' \in Nat /\ tries' < Attempts[cur]
      <3>1. (tries + 1 < Attempts[cur] /\ tries' = tries + 1) \/ tries' = tries
        BY <1>2, Zenon DEF WriteFails
      <3> QED
        BY <1>0, <2>2, <2>3, <3>1
    <2>5. wopen' \in BOOLEAN
      BY <1>2 DEF WriteFails, TypeOK
    <2> QED
      BY <1>2, <2>1, <2>2, <2>4, <2>5 DEF WriteFails, TypeOK, reader
  <1>3. CASE CloseConn
    BY <1>3 DEF CloseConn, TypeOK, reader
  <1> QED
    BY <1>1, <1>2, <1>3

\* What the fields of a header say.
LEMMA HeaderType ==
    ASSUME TypeOK, Wanted = 0, rpc = "header"
    PROVE  /\ Len(buf) = HeaderSize
           /\ \A k \in 1..HeaderSize : buf[k] \in Cells
  <1>1. buf \in Seq(Cells) /\ Len(buf) \in Nat
    BY LenProperties DEF TypeOK, Cells
  <1>2. Len(buf) = HeaderSize
    BY <1>1 DEF Wanted, HeaderSize
  <1> QED
    BY <1>1, <1>2

LEMMA ReaderType ==
    ASSUME TypeOK, Read \/ ReadTimeout \/ ConnReset
    PROVE  TypeOK'
  <1>0. /\ stream \in Seq(Cells) /\ buf \in Seq(Cells) /\ payload_len \in Nat
        /\ got \in Seq(Frames \cup {0}) /\ Len(stream) \in Nat
    BY LenProperties DEF TypeOK, Cells
  <1>1. ASSUME NEW n \in 1..Len(stream), Recv(n)
        PROVE  TypeOK'
    <2>1. n \in 0..Len(stream)
      BY <1>0
    <2>2. buf' \in Seq(Cells) /\ stream' \in Seq(Cells)
      BY <1>0, <1>1, <2>1, Cut, Joined DEF Recv
    <2> QED
      BY <1>1, <2>2 DEF Recv, TypeOK, writer, Cells
  <1>2. CASE ParseHeader
    <2>1. Len(buf) = HeaderSize /\ buf[LengthAt] \in Cells
      BY <1>2, HeaderType DEF ParseHeader, HeaderSize, LengthAt
    <2>2. Size[buf[LengthAt][1]] \in Nat
      BY <2>1, FrameFacts DEF Cells
    <2>3. Huge \in Nat
      BY FrameFacts DEF Huge, HeaderSize
    <2>4. payload_len' \in Nat
      BY <1>2, <2>2, <2>3 DEF ParseHeader
    <2> QED
      BY <1>2, <2>4 DEF ParseHeader, TypeOK, writer
  <1>3. CASE BadMagic \/ ReadFails \/ ReadTimeout
    BY <1>3 DEF BadMagic, ReadFails, ReadTimeout, TypeOK, writer
  <1>4. CASE Deliver
    <2>1. (\E i \in Frames : buf = serialize_packet(i)) => buf[1][1] \in Frames
      <3> SUFFICES ASSUME NEW i \in Frames, buf = serialize_packet(i) PROVE buf[1][1] \in Frames
        OBVIOUS
      <3>1. 1 \in 1..HeaderSize + Size[i]
        BY FrameFacts DEF HeaderSize
      <3>2. serialize_packet(i)[1] = <<i, 1>>
        BY <3>1, FrameFacts
      <3> QED
        BY <3>2
    <2>2. got' \in Seq(Frames \cup {0})
      BY <1>0, <1>4, <2>1 DEF Deliver
    <2> QED
      BY <1>4, <2>2 DEF Deliver, TypeOK, writer
  <1>5. CASE ConnReset
    <2>1. PICK n \in 0..Len(stream) : stream' = SubSeq(stream, 1, n)
      BY <1>5 DEF ConnReset
    <2>2. stream' \in Seq(Cells)
      BY <1>0, <2>1, Cut
    <2> QED
      BY <1>5, <2>2 DEF ConnReset, TypeOK, reader, Cells
  <1> QED
    BY <1>1, <1>2, <1>3, <1>4, <1>5 DEF Read

LEMMA NextType == TypeOK /\ [Next]_vars => TypeOK'
  <1> SUFFICES ASSUME TypeOK, [Next]_vars PROVE TypeOK'
    OBVIOUS
  <1>1. CASE UNCHANGED vars
    BY <1>1 DEF vars, writer, reader, TypeOK
  <1> QED
    BY <1>1, WriterType, ReaderType DEF Next

\* Every reachable state of a connection is well typed, for any number of
\* frames of any size: the writer never sends more of a frame than there is and
\* never tries a frame more often than its caller wants (write_raw, the retry
\* loop of send_file), and a length read out of step is still a length.
THEOREM TypeCorrect == Spec => []TypeOK
  BY InitType, NextType, PTL DEF Spec
----------------------------------------------------------------------------
(* UntouchedIsExact.                                                       *)

FrameLen(i) == HeaderSize + Size[i]

\* g is d places after e in the frames written one after the other; nothing is
\* said of places beyond the frame of e and the first of the next.
Leads(e, d, g) ==
    /\ e[2] + d <= FrameLen(e[1]) => g = <<e[1], e[2] + d>>
    /\ e[2] + d = FrameLen(e[1]) + 1 => g = <<e[1] + 1, 1>>

\* w is a piece of the frames up to c: n - 1 cells, and the place of the next.
InOrder(w, n, c) ==
    /\ \A i \in 1..n - 1 : w[i] \in Cells
    /\ \A i \in 1..n : w[i][1] <= c
    /\ \A i \in 1..n - 1, j \in 1..n : i <= j => Leads(w[i], j - i, w[j])

\* m more cells of the frame c are written.
LEMMA Extend ==
    ASSUME NEW w, NEW v, NEW n \in Nat \ {0}, NEW c \in Frames, NEW s \in Nat,
           NEW m \in Nat \ {0}, s + m <= FrameLen(c), NEW c2 \in Nat, NEW s2 \in Nat,
           InOrder(w, n, c), w[n] = <<c, s + 1>>,
           \A k \in 1..n - 1 : v[k] = w[k],
           \A k \in 1..m : v[n - 1 + k] = <<c, s + k>>,
           v[n + m] = <<c2, s2 + 1>>,
           IF s + m = FrameLen(c) THEN c2 = c + 1 /\ s2 = 0 ELSE c2 = c /\ s2 = s + m
    PROVE  InOrder(v, n + m, c2)
  <1>0. /\ FrameLen(c) \in Nat /\ c \in Nat /\ c <= c2
        /\ \A a \in Frames : FrameLen(a) \in Nat /\ a \in Nat
    BY SMTT(30), FrameFacts DEF FrameLen, HeaderSize
  <1>p. \A j \in 1..n + m : \/ j \in 1..n - 1
                            \/ \E l \in 1..m : j = n - 1 + l
                            \/ j = n + m
    <2> SUFFICES ASSUME NEW j \in 1..n + m, j \notin 1..n - 1, j # n + m
                 PROVE  \E l \in 1..m : j = n - 1 + l
      OBVIOUS
    <2>1. j - n + 1 \in 1..m /\ j = n - 1 + (j - n + 1)
      OBVIOUS
    <2> QED
      BY <2>1
  <1>1. ASSUME NEW i \in 1..n + m - 1 PROVE v[i] \in Cells
    <2>1. i \in 1..n + m /\ i # n + m
      OBVIOUS
    <2>2. CASE i \in 1..n - 1
      BY <2>2 DEF InOrder
    <2>3. CASE \E l \in 1..m : i = n - 1 + l
      <3>1. PICK l \in 1..m : i = n - 1 + l
        BY <2>3
      <3>2. v[i] = <<c, s + l>> /\ s + l \in Nat
        BY <3>1
      <3> QED
        BY <3>2 DEF Cells
    <2> QED
      BY <1>p, <2>1, <2>2, <2>3
  <1>2. ASSUME NEW i \in 1..n + m PROVE v[i][1] <= c2
    <2>1. CASE i \in 1..n - 1
      <3>1. v[i] = w[i] /\ w[i] \in Cells /\ w[i][1] <= c
        BY <2>1 DEF InOrder
      <3>2. w[i][1] \in Nat
        BY <1>0, <3>1 DEF Cells
      <3> QED
        BY <1>0, <3>1, <3>2
    <2>2. CASE \E l \in 1..m : i = n - 1 + l
      <3>1. v[i][1] = c
        BY <2>2
      <3> QED
        BY <1>0, <3>1
    <2>3. CASE i = n + m
      BY <2>3
    <2> QED
      BY <1>p, <2>1, <2>2, <2>3
  <1>3. ASSUME NEW i \in 1..n + m - 1, NEW j \in 1..n + m, i <= j
        PROVE  Leads(v[i], j - i, v[j])
    <2>1. CASE i \in 1..n - 1 /\ j \in 1..n - 1
      <3>1. Leads(w[i], j - i, w[j])
        BY <1>3, <2>1 DEF InOrder
      <3> QED
        BY <2>1, <3>1
    \* Both are new.
    <2>2. CASE i \notin 1..n - 1
      <3>1. PICK k \in 1..m : i = n - 1 + k
        BY <1>p, <2>2
      <3>2. v[i] = <<c, s + k>> /\ k <= m /\ k >= 1
        BY <3>1
      <3>3. CASE \E l \in 1..m : j = n - 1 + l
        <4>1. PICK l \in 1..m : j = n - 1 + l
          BY <3>3
        <4>2. v[j] = <<c, s + l>> /\ s + k + (j - i) = s + l /\ s + l <= s + m
          BY <3>1, <4>1
        <4>3. s + l <= FrameLen(c)
          BY <1>0, <4>2
        <4> QED
          BY <1>0, <3>2, <4>2, <4>3 DEF Leads
      <3>4. CASE j = n + m
        <4>1. s + k + (j - i) = s + m + 1
          BY <3>1, <3>4
        <4>2. CASE s + m = FrameLen(c)
          <5>1. v[j] = <<c + 1, 1>>
            BY <3>4, <4>2
          <5> QED
            BY <1>0, <3>2, <4>1, <4>2, <5>1 DEF Leads
        <4>3. CASE s + m # FrameLen(c)
          <5>1. v[j] = <<c, s + m + 1>> /\ s + m + 1 <= FrameLen(c)
            BY <1>0, <3>4, <4>3
          <5> QED
            BY <1>0, <3>2, <4>1, <5>1 DEF Leads
        <4> QED
          BY <4>2, <4>3
      <3>5. j \notin 1..n - 1
        BY <1>3, <2>2
      <3> QED
        BY <1>p, <3>3, <3>4, <3>5
    \* The first is old: the two meet at the place that w left open.
    <2>3. CASE i \in 1..n - 1 /\ j \notin 1..n - 1
      <3>1. v[i] = w[i] /\ w[i] \in Cells /\ Leads(w[i], n - i, <<c, s + 1>>)
        BY <2>3 DEF InOrder
      <3>2. PICK a \in Frames, b \in Nat : w[i] = <<a, b>>
        BY <3>1 DEF Cells
      <3>3. /\ b + (n - i) <= FrameLen(a) => c = a /\ s + 1 = b + (n - i)
            /\ b + (n - i) = FrameLen(a) + 1 => s + 1 = 1 /\ c = a + 1
        BY <3>1, <3>2 DEF Leads
      <3>4. SUFFICES /\ b + (j - i) <= FrameLen(a) => v[j] = <<a, b + (j - i)>>
                     /\ b + (j - i) = FrameLen(a) + 1 => v[j] = <<a + 1, 1>>
        BY <3>1, <3>2 DEF Leads
      <3>5. CASE j = n
        <4>1. v[j] = <<c, s + 1>>
          BY <3>5
        <4> QED
          BY <3>3, <3>5, <4>1
      <3>6. CASE j # n
        <4>0. FrameLen(a) \in Nat /\ b + (j - i) \in Int
          BY <1>0
        <4>1. SUFFICES ASSUME b + (j - i) <= FrameLen(a) + 1
                       PROVE  /\ b + (j - i) <= FrameLen(a) => v[j] = <<a, b + (j - i)>>
                              /\ b + (j - i) = FrameLen(a) + 1 => v[j] = <<a + 1, 1>>
          BY <4>0
        <4>2. b + (n - i) <= FrameLen(a)
          BY <1>0, <2>3, <3>6, <4>1
        <4>3. c = a /\ b + (j - i) = s + (j - n) + 1
          BY <3>3, <4>2
        <4>4. CASE \E l \in 1..m : j = n - 1 + l
          <5>1. PICK l \in 1..m : j = n - 1 + l
            BY <4>4
          <5>2. v[j] = <<c, s + l>> /\ s + (j - n) + 1 = s + l /\ s + l <= s + m
            BY <5>1
          <5>3. s + l <= FrameLen(c)
            BY <1>0, <5>2
          <5> QED
            BY <1>0, <4>3, <5>2, <5>3
        <4>5. CASE j = n + m
          <5>1. CASE s + m = FrameLen(c)
            <6>1. v[j] = <<c + 1, 1>>
              BY <4>5, <5>1
            <6> QED
              BY <1>0, <4>3, <4>5, <5>1, <6>1
          <5>2. CASE s + m # FrameLen(c)
            <6>1. v[j] = <<c, s + m + 1>> /\ s + m + 1 <= FrameLen(c)
              BY <1>0, <4>5, <5>2
            <6> QED
              BY <1>0, <4>3, <4>5, <6>1
          <5> QED
            BY <5>1, <5>2
        <4> QED
          BY <1>p, <2>3, <4>4, <4>5
      <3> QED
        BY <3>5, <3>6
    <2> QED
      BY <2>1, <2>2, <2>3
  <1> QED
    BY <1>1, <1>2, <1>3 DEF InOrder

\* d cells are taken.
LEMMA Drop ==
    ASSUME NEW w, NEW v, NEW n \in Nat \ {0}, NEW c \in Nat, NEW d \in Nat, d < n,
           InOrder(w, n, c), \A k \in 1..n - d : v[k] = w[d + k]
    PROVE  InOrder(v, n - d, c)
  <1>1. \A i \in 1..n - d - 1 : d + i \in 1..n - 1 /\ v[i] = w[d + i]
    OBVIOUS
  <1>2. \A i \in 1..n - d : d + i \in 1..n /\ v[i] = w[d + i]
    OBVIOUS
  <1>3. ASSUME NEW i \in 1..n - d - 1, NEW j \in 1..n - d, i <= j
        PROVE  Leads(v[i], j - i, v[j])
    <2>1. Leads(w[d + i], (d + j) - (d + i), w[d + j])
      BY <1>1, <1>2, <1>3 DEF InOrder
    <2>2. (d + j) - (d + i) = j - i
      OBVIOUS
    <2> QED
      BY <1>1, <1>2, <2>1, <2>2
  <1> QED
    BY <1>1, <1>2, <1>3 DEF InOrder

\* The cells of b and of s, and the place of the next.
Laid(b, s, c, m) ==
    [k \in 1..Len(b) + Len(s) + 1 |->
        IF k <= Len(b) THEN b[k]
        ELSE IF k <= Len(b) + Len(s) THEN s[k - Len(b)] ELSE <<c, m + 1>>]

\* What the reader has of its packet, what is on its way, and what the writer
\* sends next.
End == Len(buf) + Len(stream)
Way == Laid(buf, stream, cur, sent)

\* Nothing is out of step: they follow on the packets handed over, and the
\* reader takes a payload to be as long as it is.
Exact ==
    /\ InOrder(Way, End + 1, cur)
    /\ Way[1] = <<Len(got) + 1, 1>>
    /\ got = [i \in 1..Len(got) |-> i]
    /\ rpc = "header" => Len(buf) <= HeaderSize
    /\ rpc = "payload" => /\ Len(buf) >= HeaderSize
                          /\ payload_len = Size[Len(got) + 1]
                          /\ Len(buf) <= FrameLen(Len(got) + 1)

\* t is q and then r.
Joins(t, q, r) ==
    /\ t \in Seq(Cells) /\ Len(t) = Len(q) + Len(r)
    /\ Len(q) \in Nat /\ Len(r) \in Nat
    /\ \A k \in 1..Len(q) : t[k] = q[k]
    /\ \A k \in 1..Len(r) : t[Len(q) + k] = r[k]

\* w is b, then s, then the place of the next.
IsLaid(w, b, s, c, m) ==
    /\ Len(b) \in Nat /\ Len(s) \in Nat
    /\ \A k \in 1..Len(b) : w[k] = b[k]
    /\ \A k \in 1..Len(s) : w[Len(b) + k] = s[k]
    /\ w[Len(b) + Len(s) + 1] = <<c, m + 1>>

LEMMA JoinedFacts ==
    /\ \A q, r \in Seq(Cells) : Joins(q \o r, q, r)
    /\ \A q \in Seq(Cells) : \A n \in 0..Len(q) :
            /\ Joins(q, SubSeq(q, 1, n), SubSeq(q, n + 1, Len(q)))
            /\ Len(SubSeq(q, 1, n)) = n
  <1>1. ASSUME NEW q \in Seq(Cells), NEW r \in Seq(Cells) PROVE Joins(q \o r, q, r)
    BY Joined DEF Joins
  <1>2. ASSUME NEW q \in Seq(Cells), NEW n \in 0..Len(q)
        PROVE  /\ Joins(q, SubSeq(q, 1, n), SubSeq(q, n + 1, Len(q)))
               /\ Len(SubSeq(q, 1, n)) = n
    <2> DEFINE p == SubSeq(q, 1, n)
               r == SubSeq(q, n + 1, Len(q))
    <2>1. /\ Len(p) = n /\ Len(r) = Len(q) - n
          /\ \A k \in 1..n : p[k] = q[k]
          /\ \A k \in 1..Len(q) - n : r[k] = q[n + k]
      BY Cut
    <2>2. Len(q) \in Nat
      BY LenProperties
    <2> HIDE DEF p, r
    <2>3. n \in Nat /\ Len(q) = Len(p) + Len(r) /\ Len(r) \in Nat
      BY <2>1, <2>2
    <2>4. Joins(q, p, r)
      BY <2>1, <2>3 DEF Joins
    <2> QED
      BY <2>1, <2>4 DEF p, r
  <1> QED
    BY <1>1, <1>2

LEMMA LaidFacts ==
    ASSUME NEW b \in Seq(Cells), NEW s \in Seq(Cells), NEW c, NEW m
    PROVE  IsLaid(Laid(b, s, c, m), b, s, c, m)
  <1>1. Len(b) \in Nat /\ Len(s) \in Nat
    BY LenProperties
  <1>2. \A k \in 1..Len(b) : Laid(b, s, c, m)[k] = b[k]
    BY <1>1 DEF Laid
  <1>3. \A k \in 1..Len(s) : Laid(b, s, c, m)[Len(b) + k] = s[k]
    BY <1>1 DEF Laid
  <1>4. Laid(b, s, c, m)[Len(b) + Len(s) + 1] = <<c, m + 1>>
    BY <1>1 DEF Laid
  <1> QED
    BY <1>1, <1>2, <1>3, <1>4 DEF IsLaid

\* More is written.
LEMMA Written ==
    ASSUME NEW b, NEW s, NEW p, NEW t, NEW w, NEW v, NEW c, NEW m, NEW c2, NEW m2,
           Joins(t, s, p), IsLaid(w, b, s, c, m), IsLaid(v, b, t, c2, m2)
    PROVE  /\ \A k \in 1..Len(b) + Len(s) : v[k] = w[k]
           /\ \A k \in 1..Len(p) : v[Len(b) + Len(s) + k] = p[k]
           /\ v[Len(b) + Len(s) + Len(p) + 1] = <<c2, m2 + 1>>
  <1>0. Len(b) \in Nat /\ Len(s) \in Nat /\ Len(p) \in Nat /\ Len(t) = Len(s) + Len(p)
    BY DEF IsLaid, Joins
  <1>1. ASSUME NEW k \in 1..Len(b) + Len(s) PROVE v[k] = w[k]
    <2>1. CASE k <= Len(b)
      BY <1>0, <2>1 DEF IsLaid
    <2>2. CASE k > Len(b)
      <3>1. PICK l \in 1..Len(s) : k = Len(b) + l
        <4>1. k - Len(b) \in 1..Len(s) /\ k = Len(b) + (k - Len(b))
          BY <1>0, <2>2
        <4> QED
          BY <4>1
      <3>2. l \in 1..Len(t)
        BY <1>0
      <3> QED
        BY <3>1, <3>2 DEF IsLaid, Joins
    <2> QED
      BY <1>0, <2>1, <2>2
  <1>2. ASSUME NEW k \in 1..Len(p) PROVE v[Len(b) + Len(s) + k] = p[k]
    <2>1. Len(s) + k \in 1..Len(t) /\ Len(b) + (Len(s) + k) = Len(b) + Len(s) + k
      BY <1>0
    <2>2. v[Len(b) + (Len(s) + k)] = t[Len(s) + k] /\ t[Len(s) + k] = p[k]
      BY <2>1 DEF IsLaid, Joins
    <2> QED
      BY <2>1, <2>2
  <1>3. v[Len(b) + Len(s) + Len(p) + 1] = <<c2, m2 + 1>>
    <2>1. Len(b) + Len(t) + 1 = Len(b) + Len(s) + Len(p) + 1
      BY <1>0
    <2>2. v[Len(b) + Len(t) + 1] = <<c2, m2 + 1>>
      BY DEF IsLaid
    <2> QED
      BY <2>1, <2>2
  <1> QED
    BY <1>1, <1>2, <1>3

\* p is received, s2 is still on its way.
LEMMA Received ==
    ASSUME NEW b, NEW s, NEW p, NEW b2, NEW s2, NEW w, NEW v, NEW c, NEW m,
           Joins(s, p, s2), Joins(b2, b, p), IsLaid(w, b, s, c, m), IsLaid(v, b2, s2, c, m)
    PROVE  /\ Len(b2) + Len(s2) = Len(b) + Len(s)
           /\ \A k \in 1..Len(b) + Len(s) + 1 : v[k] = w[k]
  <1>0. /\ Len(b) \in Nat /\ Len(p) \in Nat /\ Len(s2) \in Nat
        /\ Len(s) = Len(p) + Len(s2) /\ Len(b2) = Len(b) + Len(p)
    BY DEF IsLaid, Joins
  <1>1. ASSUME NEW k \in 1..Len(b) + Len(s) + 1 PROVE v[k] = w[k]
    <2>1. CASE k <= Len(b)
      <3>1. k \in 1..Len(b) /\ k \in 1..Len(b2)
        BY <1>0, <2>1
      <3> QED
        BY <3>1 DEF IsLaid, Joins
    <2>2. CASE Len(b) < k /\ k <= Len(b) + Len(p)
      <3>1. PICK l \in 1..Len(p) : k = Len(b) + l
        <4>1. k - Len(b) \in 1..Len(p) /\ k = Len(b) + (k - Len(b))
          BY <1>0, <2>2
        <4> QED
          BY <4>1
      <3>2. l \in 1..Len(s) /\ k \in 1..Len(b2)
        BY <1>0, <2>2
      <3> QED
        BY <3>1, <3>2 DEF IsLaid, Joins
    <2>3. CASE Len(b) + Len(p) < k /\ k <= Len(b) + Len(s)
      <3>1. PICK l \in 1..Len(s2) : k = Len(b2) + l
        <4>1. k - Len(b2) \in 1..Len(s2) /\ k = Len(b2) + (k - Len(b2))
          BY <1>0, <2>3
        <4> QED
          BY <4>1
      <3>2. Len(p) + l \in 1..Len(s) /\ Len(b) + (Len(p) + l) = k
        BY <1>0, <3>1
      <3>3. w[Len(b) + (Len(p) + l)] = s[Len(p) + l] /\ s[Len(p) + l] = s2[l]
        BY <3>2 DEF IsLaid, Joins
      <3>4. v[Len(b2) + l] = s2[l]
        BY DEF IsLaid
      <3> QED
        BY <3>1, <3>2, <3>3, <3>4
    <2>4. CASE k = Len(b) + Len(s) + 1
      <3>1. Len(b2) + Len(s2) + 1 = k
        BY <1>0, <2>4
      <3> QED
        BY <2>4, <3>1 DEF IsLaid
    <2> QED
      BY <1>0, <2>1, <2>2, <2>3, <2>4
  <1> QED
    BY <1>0, <1>1

\* A packet is handed over, and z is empty.
LEMMA HandedOver ==
    ASSUME NEW b, NEW s, NEW z, NEW w, NEW v, NEW c, NEW m, Len(z) = 0,
           IsLaid(w, b, s, c, m), IsLaid(v, z, s, c, m)
    PROVE  \A k \in 1..Len(s) + 1 : v[k] = w[Len(b) + k]
  <1>0. Len(b) \in Nat /\ Len(s) \in Nat
    BY DEF IsLaid
  <1>1. ASSUME NEW k \in 1..Len(s) PROVE v[k] = w[Len(b) + k]
    <2>1. v[Len(z) + k] = s[k] /\ w[Len(b) + k] = s[k]
      BY DEF IsLaid
    <2>2. Len(z) + k = k
      BY <1>0
    <2> QED
      BY <2>1, <2>2
  <1>2. v[Len(s) + 1] = w[Len(b) + (Len(s) + 1)]
    <2>1. Len(z) + Len(s) + 1 = Len(s) + 1 /\ Len(b) + (Len(s) + 1) = Len(b) + Len(s) + 1
      BY <1>0
    <2>2. v[Len(z) + Len(s) + 1] = <<c, m + 1>> /\ w[Len(b) + Len(s) + 1] = <<c, m + 1>>
      BY DEF IsLaid
    <2> QED
      BY <2>1, <2>2
  <1>3. \A k \in 1..Len(s) + 1 : k \in 1..Len(s) \/ k = Len(s) + 1
    BY <1>0
  <1> QED
    BY <1>1, <1>2, <1>3

LEMMA WayFacts ==
    ASSUME TypeOK
    PROVE  /\ Len(buf) \in Nat /\ Len(stream) \in Nat /\ End \in Nat /\ Len(got) \in Nat
           /\ buf \in Seq(Cells) /\ stream \in Seq(Cells) /\ cur \in Nat /\ sent \in Nat
           /\ \A k \in 1..Len(buf) : Way[k] = buf[k] /\ k <= End
           /\ Way[End + 1] = <<cur, sent + 1>>
  <1>1. /\ Len(buf) \in Nat /\ Len(stream) \in Nat /\ End \in Nat /\ Len(got) \in Nat
        /\ buf \in Seq(Cells) /\ stream \in Seq(Cells) /\ cur \in Nat /\ sent \in Nat
    BY LenProperties, FrameFacts DEF TypeOK, End, Cells
  <1>2. \A k \in 1..Len(buf) : Way[k] = buf[k] /\ k <= End
    BY <1>1 DEF Way, Laid, End
  <1>3. Way[End + 1] = <<cur, sent + 1>>
    BY <1>1 DEF Way, Laid, End
  <1> QED
    BY <1>1, <1>2, <1>3

LEMMA InitExact == Init => Exact
  <1> SUFFICES ASSUME Init PROVE Exact
    OBVIOUS
  <1>1. Len(buf) = 0 /\ End = 0 /\ Len(got) = 0
    BY DEF Init, End
  <1>2. TypeOK
    BY InitType
  <1>3. Way[1] = <<1, 1>>
    BY <1>1, <1>2, WayFacts DEF Init
  <1>4. InOrder(Way, 1, 1)
    BY <1>3 DEF InOrder
  <1>5. got = [i \in 1..Len(got) |-> i]
    BY <1>1 DEF Init
  <1> QED
    BY <1>1, <1>3, <1>4, <1>5 DEF Exact, Init, HeaderSize

\* The cells of the packet that is being read.
LEMMA PacketCells ==
    ASSUME TypeOK, Exact
    PROVE  /\ Len(got) + 1 <= cur
           /\ End > 0 => /\ Len(got) + 1 \in Frames /\ FrameLen(Len(got) + 1) \in Nat
                         /\ \A k \in 1..End + 1 :
                               /\ k <= FrameLen(Len(got) + 1) => Way[k] = <<Len(got) + 1, k>>
                               /\ k = FrameLen(Len(got) + 1) + 1 => Way[k] = <<Len(got) + 2, 1>>
  <1> DEFINE g == Len(got) + 1
  <1>0. End \in Nat /\ cur \in Nat /\ g \in Nat
    BY WayFacts
  <1>1. Way[1][1] <= cur /\ Way[1] = <<g, 1>>
    BY <1>0 DEF Exact, InOrder
  <1>2. ASSUME End > 0
        PROVE  /\ g \in Frames /\ FrameLen(g) \in Nat
               /\ \A k \in 1..End + 1 : /\ k <= FrameLen(g) => Way[k] = <<g, k>>
                                        /\ k = FrameLen(g) + 1 => Way[k] = <<g + 1, 1>>
    <2>1. g \in Frames
      <3>1. Way[1] \in Cells
        BY <1>0, <1>2 DEF Exact, InOrder
      <3> QED
        BY <1>1, <3>1 DEF Cells
    <2>2. FrameLen(g) \in Nat
      BY <2>1, FrameFacts DEF FrameLen, HeaderSize
    <2>3. ASSUME NEW k \in 1..End + 1
          PROVE  /\ k <= FrameLen(g) => Way[k] = <<g, k>>
                 /\ k = FrameLen(g) + 1 => Way[k] = <<g + 1, 1>>
      <3>1. Leads(Way[1], k - 1, Way[k])
        <4>1. /\ 1 \in 1..(End + 1) - 1 /\ k \in 1..End + 1 /\ 1 <= k
          BY <1>0, <1>2
        <4> QED
          BY <4>1 DEF Exact, InOrder
      <3>2. 1 + (k - 1) = k
        BY <1>0
      <3> HIDE DEF g
      <3> QED
        BY <1>1, <3>1, <3>2 DEF Leads
    <2> QED
      BY <2>1, <2>2, <2>3
  <1>3. g + 1 = Len(got) + 2
    BY WayFacts
  <1> HIDE DEF g
  <1>4. g <= cur
    BY <1>1
  <1> QED
    BY <1>2, <1>3, <1>4 DEF g

\* A step that moves no cell.
LEMMA KeepExact ==
    ASSUME TypeOK, TypeOK', Exact, got' = got, cur' = cur, End' = End,
           \A k \in 1..End + 1 : Way'[k] = Way[k],
           rpc' = "header" => Len(buf') <= HeaderSize,
           rpc' = "payload" => /\ Len(buf') >= HeaderSize
                               /\ payload_len' = Size[Len(got) + 1]
                               /\ Len(buf') <= FrameLen(Len(got) + 1)
    PROVE  Exact'
  <1>1. End \in Nat
    BY WayFacts
  <1>2. Way' = [k \in 1..End' + 1 |-> Way'[k]] /\ Way = [k \in 1..End + 1 |-> Way[k]]
    BY DEF Way, Laid, End
  <1>3. Way' = Way
    BY <1>2
  <1> QED
    BY <1>3 DEF Exact

\* write_raw: another piece of the frame is on its way.
LEMMA WriteExact ==
    ASSUME TypeOK, TypeOK', Exact, NEW n \in Nat \ {0}, WritePiece(n)
    PROVE  Exact'
  <1>0. /\ Len(buf) \in Nat /\ Len(stream) \in Nat /\ End \in Nat
        /\ buf \in Seq(Cells) /\ stream \in Seq(Cells) /\ sent \in Nat
        /\ Way[End + 1] = <<cur, sent + 1>>
        /\ cur' \in Nat /\ sent' \in Nat
    <2>1. cur' \in Nat /\ sent' \in Nat
      BY FrameFacts DEF TypeOK
    <2> QED
      BY <2>1, WayFacts
  <1> DEFINE frame == serialize_packet(cur)
             p == SubSeq(frame, sent + 1, sent + n)
  <1>1. /\ cur \in Frames /\ sent + n <= Len(frame)
        /\ stream' = stream \o p
        /\ IF sent + n = Len(frame)
           THEN cur' = cur + 1 /\ sent' = 0 ELSE cur' = cur /\ sent' = sent + n
        /\ UNCHANGED <<rpc, buf, payload_len, got>>
    BY DEF WritePiece, reader
  <1>2. /\ frame \in Seq(Cells) /\ Len(frame) = FrameLen(cur)
        /\ \A k \in 1..FrameLen(cur) : frame[k] = <<cur, k>>
        /\ FrameLen(cur) \in Nat
    BY <1>1, FrameFacts DEF FrameLen, HeaderSize
  <1> HIDE DEF frame
  <1>3. p \in Seq(Cells) /\ Len(p) = n /\ \A k \in 1..n : p[k] = frame[sent + k]
    BY <1>0, <1>1, <1>2, Piece
  <1>4. \A k \in 1..n : p[k] = <<cur, sent + k>>
    BY <1>0, <1>1, <1>2, <1>3
  <1> HIDE DEF p
  <1> DEFINE w == Way
             v == Way'
             e == End
  <1>5. Joins(stream', stream, p)
    BY <1>0, <1>1, <1>3, JoinedFacts
  <1>6. IsLaid(w, buf, stream, cur, sent) /\ IsLaid(v, buf, stream', cur', sent')
    <2>1. stream' \in Seq(Cells)
      BY <1>5 DEF Joins
    <2>2. w = Laid(buf, stream, cur, sent) /\ v = Laid(buf, stream', cur', sent')
      BY <1>1 DEF Way
    <2> QED
      BY <1>0, <2>1, <2>2, LaidFacts
  <1>7. /\ InOrder(w, e + 1, cur) /\ w[1] = <<Len(got) + 1, 1>> /\ w[e + 1] = <<cur, sent + 1>>
        /\ e = Len(buf) + Len(stream) /\ End' = Len(buf) + Len(stream') /\ e \in Nat
    BY <1>0, <1>1 DEF Exact, End
  <1>8. Len(stream') = Len(stream) + n
    BY <1>3, <1>5 DEF Joins
  <1> HIDE DEF w, v, e
  <1>9. /\ \A k \in 1..e : v[k] = w[k]
        /\ \A k \in 1..n : v[e + k] = <<cur, sent + k>>
        /\ v[e + n + 1] = <<cur', sent' + 1>>
    <2>1. /\ \A k \in 1..Len(buf) + Len(stream) : v[k] = w[k]
          /\ \A k \in 1..Len(p) : v[Len(buf) + Len(stream) + k] = p[k]
          /\ v[Len(buf) + Len(stream) + Len(p) + 1] = <<cur', sent' + 1>>
      BY <1>5, <1>6, Written
    <2> QED
      BY <1>3, <1>4, <1>7, <2>1
  <1>10. End' + 1 = (e + 1) + n /\ (e + 1) - 1 = e /\ e + n + 1 = (e + 1) + n
    BY <1>0, <1>7, <1>8
  <1>11. InOrder(v, End' + 1, cur')
    <2> DEFINE f == e + 1
    <2>1. f \in Nat \ {0} /\ InOrder(w, f, cur) /\ w[f] = <<cur, sent + 1>>
      BY <1>7
    <2>2. /\ \A k \in 1..f - 1 : v[k] = w[k]
          /\ \A k \in 1..n : v[f - 1 + k] = <<cur, sent + k>>
          /\ v[f + n] = <<cur', sent' + 1>>
      BY <1>9, <1>10
    <2>3. /\ sent + n <= FrameLen(cur)
          /\ IF sent + n = FrameLen(cur)
             THEN cur' = cur + 1 /\ sent' = 0 ELSE cur' = cur /\ sent' = sent + n
      BY <1>1, <1>2
    <2>4. End' + 1 = f + n
      BY <1>10
    <2> HIDE DEF f
    <2> DEFINE c2 == cur'
               s2 == sent'
    <2>5. /\ c2 \in Nat /\ s2 \in Nat /\ v[f + n] = <<c2, s2 + 1>>
          /\ IF sent + n = FrameLen(cur)
             THEN c2 = cur + 1 /\ s2 = 0 ELSE c2 = cur /\ s2 = sent + n
      BY <1>0, <2>2, <2>3
    <2> HIDE DEF c2, s2
    <2>6. InOrder(v, f + n, c2)
      BY ZenonT(30), <1>0, <1>1, <2>1, <2>2, <2>3, <2>5, Extend
    <2> QED
      BY <2>4, <2>6 DEF c2
  <1>12. v[1] = <<Len(got) + 1, 1>>
    <2>1. CASE e = 0
      <3>1. v[1] = <<cur, sent + 1>> /\ w[1] = <<cur, sent + 1>>
        <4>1. 1 \in 1..n /\ e + 1 = 1
          BY <2>1
        <4> QED
          BY <1>7, <1>9, <4>1
      <3> QED
        BY <1>7, <3>1
    <2>2. CASE e # 0
      <3>1. 1 \in 1..e
        BY <1>7, <2>2
      <3>2. v[1] = w[1]
        BY <1>9, <3>1
      <3> QED
        BY <1>7, <3>2
    <2> QED
      BY <2>1, <2>2
  <1>13. InOrder(Way', End' + 1, cur') /\ Way'[1] = <<Len(got) + 1, 1>>
    BY <1>11, <1>12 DEF v
  <1> QED
    BY <1>1, <1>13 DEF Exact

\* read_raw and read_packet: cells go from the stream to the packet, and a whole
\* packet is the next frame.
LEMMA ReadExact ==
    ASSUME TypeOK, TypeOK', Exact, Read
    PROVE  Exact'
  <1>0. /\ Len(buf) \in Nat /\ Len(stream) \in Nat /\ End \in Nat /\ Len(got) \in Nat
        /\ buf \in Seq(Cells) /\ stream \in Seq(Cells) /\ payload_len \in Nat
        /\ \A k \in 1..Len(buf) : Way[k] = buf[k] /\ k <= End
        /\ End = Len(buf) + Len(stream)
    BY WayFacts DEF TypeOK, End
  <1> DEFINE g == Len(got) + 1
  <1>1. ASSUME NEW n \in 1..Len(stream), Recv(n)
        PROVE  Exact'
    <2> DEFINE p == SubSeq(stream, 1, n)
               s2 == SubSeq(stream, n + 1, Len(stream))
               w == Way
               v == Way'
    <2>1. /\ n <= Wanted /\ rpc # "closed" /\ buf' = buf \o p /\ stream' = s2
          /\ UNCHANGED <<cur, sent, rpc, payload_len, got>>
      BY <1>1 DEF Recv, writer
    <2>2. n \in 0..Len(stream) /\ n \in Nat /\ n > 0
      BY <1>0
    <2>3. Joins(stream, p, s2) /\ Len(p) = n /\ p \in Seq(Cells) /\ s2 \in Seq(Cells)
      BY <1>0, <2>2, Cut, JoinedFacts
    <2>4. Joins(buf', buf, p)
      BY <1>0, <2>1, <2>3, JoinedFacts
    <2>5. IsLaid(w, buf, stream, cur, sent) /\ IsLaid(v, buf', s2, cur, sent)
      <3>1. w = Laid(buf, stream, cur, sent) /\ v = Laid(buf', s2, cur, sent)
        BY <2>1 DEF Way
      <3>2. buf' \in Seq(Cells)
        BY <2>4 DEF Joins
      <3> QED
        BY <1>0, <2>3, <3>1, <3>2, LaidFacts
    <2> HIDE DEF w, v, p, s2
    <2>6. /\ Len(buf') + Len(s2) = Len(buf) + Len(stream)
          /\ \A k \in 1..Len(buf) + Len(stream) + 1 : v[k] = w[k]
      BY <2>3, <2>4, <2>5, Received
    <2>7. End' = End /\ \A k \in 1..End + 1 : Way'[k] = Way[k]
      BY <1>0, <2>1, <2>6 DEF End, w, v
    <2>8. Len(buf') = Len(buf) + n
      BY <2>3, <2>4 DEF Joins
    <2>9. rpc = "header" => Len(buf') <= HeaderSize
      BY <1>0, <2>1, <2>2, <2>8 DEF Wanted, HeaderSize
    <2>10. rpc = "payload" => /\ Len(buf') >= HeaderSize
                              /\ payload_len' = Size[g]
                              /\ Len(buf') <= FrameLen(g)
      <3> SUFFICES ASSUME rpc = "payload"
                   PROVE  Len(buf') >= HeaderSize /\ Len(buf') <= HeaderSize + payload_len
        BY <2>1 DEF Exact, FrameLen
      <3>1. Len(buf) >= HeaderSize
        BY DEF Exact
      <3> QED
        BY <1>0, <2>1, <2>2, <2>8, <3>1 DEF Wanted, HeaderSize
    <2> QED
      BY <2>1, <2>7, <2>9, <2>10, KeepExact
  <1>2. CASE ParseHeader
    <2>1. /\ rpc = "header" /\ rpc' = "payload"
          /\ payload_len' = IF Place(buf[LengthAt]) = LengthAt
                            THEN Size[buf[LengthAt][1]] ELSE Huge
          /\ UNCHANGED <<cur, sent, stream, buf, got>>
      BY <1>2 DEF ParseHeader, writer
    <2>2. Len(buf) = HeaderSize
      BY <1>2, HeaderType DEF ParseHeader
    <2>3. End > 0 /\ LengthAt \in 1..Len(buf) /\ LengthAt \in 1..End + 1
      BY <1>0, <2>2 DEF HeaderSize, LengthAt
    <2>4. g \in Frames /\ LengthAt <= FrameLen(g) /\ Len(buf) <= FrameLen(g)
      <3>1. g \in Frames
        BY <2>3, PacketCells
      <3> QED
        BY <2>2, <3>1, FrameFacts DEF FrameLen, HeaderSize, LengthAt
    <2>5. buf[LengthAt] = <<g, LengthAt>>
      BY <1>0, <2>3, <2>4, PacketCells
    <2>6. payload_len' = Size[g]
      BY <2>1, <2>5 DEF Place
    <2>7. End' = End /\ Way' = Way
      BY <2>1 DEF End, Way
    <2>8. Len(buf') >= HeaderSize /\ Len(buf') <= FrameLen(g)
      BY <2>1, <2>2, <2>4 DEF HeaderSize
    <2> QED
      BY <2>1, <2>6, <2>7, <2>8, KeepExact
  <1>3. CASE BadMagic \/ ReadFails
    <2>1. rpc' = "closed" /\ UNCHANGED <<cur, sent, stream, buf, payload_len, got>>
      BY <1>3 DEF BadMagic, ReadFails, writer
    <2>2. End' = End /\ Way' = Way
      BY <2>1 DEF End, Way
    <2> QED
      BY <2>1, <2>2, KeepExact
  <1>4. CASE Deliver
    <2>1. /\ rpc = "payload" /\ Wanted = 0 /\ rpc' = "header" /\ buf' = <<>>
          /\ got' = Append(got, IF \E i \in Frames : buf = serialize_packet(i)
                                THEN buf[1][1] ELSE 0)
          /\ UNCHANGED <<cur, sent, stream>>
      BY <1>4 DEF Deliver, Complete, writer
    <2>2. Len(buf) = HeaderSize + payload_len /\ payload_len = Size[g]
      BY <1>0, <2>1 DEF Wanted, HeaderSize, Exact
    <2>3. /\ Len(buf) = FrameLen(g) /\ Len(buf) > 0 /\ End > 0
      BY SMTT(30), <1>0, <2>2 DEF FrameLen, HeaderSize
    <2>4. g \in Frames
      BY <2>3, PacketCells
    <2>5. \A k \in 1..Len(buf) : buf[k] = <<g, k>>
      <3> SUFFICES ASSUME NEW k \in 1..Len(buf) PROVE buf[k] = <<g, k>>
        OBVIOUS
      <3>1. k \in 1..End + 1 /\ k <= FrameLen(g) /\ Way[k] = buf[k]
        BY <1>0, <2>3
      <3> QED
        BY <2>3, <3>1, PacketCells
    <2>6. buf = serialize_packet(g)
      <3>1. buf = [k \in 1..Len(buf) |-> buf[k]]
        BY <1>0
      <3>2. serialize_packet(g) = [k \in 1..FrameLen(g) |-> <<g, k>>]
        BY DEF serialize_packet, FrameLen
      <3> QED
        BY <2>3, <2>5, <3>1, <3>2
    <2>7. buf[1][1] = g
      BY <1>0, <2>3, <2>5
    <2>8. got' = Append(got, g)
      BY <2>1, <2>4, <2>6, <2>7
    <2>9. Len(got') = g /\ got' = [i \in 1..Len(got') |-> i]
      <3>1. got \in Seq(Frames \cup {0}) /\ got = [i \in 1..Len(got) |-> i]
        BY DEF TypeOK, Exact
      <3>2. /\ Len(Append(got, g)) = Len(got) + 1 /\ Append(got, g)[Len(got) + 1] = g
            /\ \A i \in 1..Len(got) : Append(got, g)[i] = got[i]
            /\ Append(got, g) = [i \in 1..Len(got) + 1 |-> Append(got, g)[i]]
        BY <2>4, <3>1
      <3>3. \A i \in 1..Len(got) + 1 : Append(got, g)[i] = i
        BY <1>0, <3>1, <3>2
      <3> QED
        BY <2>8, <3>2, <3>3
    <2> DEFINE w == Way
               v == Way'
               n == End + 1
               d == Len(buf)
    <2>10. IsLaid(w, buf, stream, cur, sent) /\ IsLaid(v, <<>>, stream, cur, sent)
      <3>1. w = Laid(buf, stream, cur, sent) /\ v = Laid(<<>>, stream, cur, sent)
        BY <2>1 DEF Way
      <3>2. <<>> \in Seq(Cells)
        OBVIOUS
      <3> QED
        BY <1>0, <3>1, <3>2, LaidFacts
    <2>11. /\ n \in Nat \ {0} /\ d \in Nat /\ d < n /\ n - d = Len(stream) + 1
           /\ End' + 1 = n - d /\ InOrder(w, n, cur) /\ cur \in Nat
      <3>1. Len(buf') = 0 /\ stream' = stream
        BY <2>1
      <3> QED
        BY <1>0, <3>1, WayFacts DEF End, Exact
    <2>12. w[d + 1] = <<Len(got) + 2, 1>>
      <3>1. d + 1 \in 1..End + 1 /\ d + 1 = FrameLen(g) + 1
        BY <1>0, <2>3
      <3> QED
        BY <2>3, <3>1, PacketCells
    <2> HIDE DEF w, v, n
    <2>13. \A k \in 1..Len(stream) + 1 : v[k] = w[d + k]
      <3>1. Len(<<>>) = 0
        OBVIOUS
      <3> QED
        BY <2>10, <3>1, HandedOver
    <2>14. InOrder(v, n - d, cur)
      BY <2>11, <2>13, Drop
    <2>15. v[1] = <<Len(got') + 1, 1>>
      <3>1. 1 \in 1..Len(stream) + 1 /\ Len(got') + 1 = Len(got) + 2
        BY <1>0, <2>9
      <3> QED
        BY <2>12, <2>13, <3>1
    <2>16. InOrder(Way', End' + 1, cur') /\ Way'[1] = <<Len(got') + 1, 1>>
      BY <2>1, <2>11, <2>14, <2>15 DEF v
    <2>17. Len(buf') <= HeaderSize
      <3>1. Len(buf') = 0
        BY <2>1
      <3> QED
        BY <3>1 DEF HeaderSize
    <2> QED
      BY <2>1, <2>9, <2>16, <2>17 DEF Exact
  <1> QED
    BY <1>1, <1>2, <1>3, <1>4 DEF Read

\* On a connection that no timeout and no reset has touched every packet that is
\* handed over is the next one that was sent, whole, for frames of any size,
\* whatever the pieces in which send() took them and recv() returned them: a
\* header or a payload that comes in parts is never taken for a whole one, and no
\* cell of the next frame for one of this (write_raw, read_raw, read_packet).
THEOREM UntouchedConnectionIsExact == Spec => []UntouchedIsExact
  <1> DEFINE Inv == ~broken => Exact
  <1>1. Init => Inv
    BY InitExact
  <1>2. TypeOK /\ TypeOK' /\ Inv /\ [Next]_vars => Inv'
    <2> SUFFICES ASSUME TypeOK, TypeOK', Inv, [Next]_vars, ~broken' PROVE Exact'
      OBVIOUS
    <2>1. CASE UNCHANGED vars
      <3>1. Exact /\ UNCHANGED <<buf, stream, cur, sent, got, rpc, payload_len>>
        BY <2>1 DEF vars, writer, reader
      <3> QED
        BY <3>1 DEF Exact, Way, End
    <2>2. ASSUME NEW i \in Frames, NEW n \in 1..HeaderSize + Size[i], WritePiece(n)
          PROVE  Exact'
      <3>1. n \in Nat \ {0}
        BY FrameFacts DEF HeaderSize
      <3>2. Exact
        BY <2>2 DEF WritePiece
      <3> QED
        BY <2>2, <3>1, <3>2, WriteExact
    <2>3. CASE CloseConn
      <3>1. Exact /\ UNCHANGED <<buf, stream, cur, sent, got, rpc, payload_len>>
        BY <2>3 DEF CloseConn, reader
      <3> QED
        BY <3>1 DEF Exact, Way, End
    <2>4. CASE Read
      <3>1. Exact
        BY <2>4 DEF Read, Recv, ParseHeader, BadMagic, Deliver, ReadFails
      <3> QED
        BY <2>4, <3>1, ReadExact
    <2>5. CASE WriteFails \/ ConnReset \/ ReadTimeout
      BY <2>5 DEF WriteFails, ConnReset, ReadTimeout
    <2> QED
      BY <2>1, <2>2, <2>3, <2>4, <2>5 DEF Next
  <1>3. TypeOK /\ Inv => UntouchedIsExact
    <2> SUFFICES ASSUME TypeOK, Exact PROVE Len(got) < cur /\ got = [i \in 1..Len(got) |-> i]
      BY DEF UntouchedIsExact
    <2>1. Len(got) + 1 <= cur /\ Len(got) \in Nat /\ cur \in Nat
      BY PacketCells, WayFacts
    <2>2. Len(got) < cur
      BY <2>1
    <2> QED
      BY <2>2 DEF Exact
  <1> QED
    BY <1>1, <1>2, <1>3, TypeCorrect, PTL DEF Spec
============================================================================
