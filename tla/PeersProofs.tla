----------------------------- MODULE PeersProofs -----------------------------
(***************************************************************************)
(* Theorems about Peers, for any number of peers, addresses, commands and  *)
(* threads, for any clock and for every set of inputs.                     *)
(***************************************************************************)
EXTENDS Peers, TLAPS

----------------------------------------------------------------------------
(* Rows.                                                                   *)

\* No row, and the rows add_peer and the handlers build, are rows.
LEMMA RowType ==
    /\ NoRow \in Row
    /\ \A a \in Addr \cup {NoIp}, o \in BOOLEAN, s \in Nat : PeerRow(a, o, s) \in Row
  BY DEF NoRow, Row, PeerRow

\* Marking a row leaves its address alone; it is online only with a time.
LEMMA MarkRow ==
    ASSUME NEW r \in Row, NEW ok \in BOOLEAN, now \in Nat \ {0}
    PROVE  /\ Mark(r, ok) \in Row
           /\ Mark(r, ok).ip = r.ip
           /\ Mark(r, ok).online => Mark(r, ok).seen > 0
  BY DEF Mark, Row, PeerRow

\* What a write leaves in the table, whether it is dropped or not.
LEMMA UpsertRow ==
    ASSUME NEW p \in Peer, NEW r \in Row, peers \in [Peer -> Row], upsert_peer(p, r)
    PROVE  /\ peers' \in [Peer -> Row]
           /\ \A q \in Peer : peers'[q] = peers[q] \/ (q = p /\ peers'[q] = r)
  BY DEF upsert_peer
----------------------------------------------------------------------------
(* Types.                                                                  *)

TaskType == [st : {"idle", "ping", "sent", "insert", "heard", "done"},
             p : Peer, row : Row]
BeaconType == [run : BOOLEAN, on : BOOLEAN, todo : SUBSET Peer, rows : [Peer -> Row]]

\* A task that goes on remembers a peer and a row of that type.
LEMMA DoType ==
    ASSUME NEW t, NEW q \in Peer, NEW r \in Row,
           NEW l \in {"idle", "ping", "sent", "insert", "heard", "done"},
           task \in [Cmd \cup Thread -> TaskType], Do(t, l, q, r)
    PROVE  task' \in [Cmd \cup Thread -> TaskType]
  BY DEF Do, TaskType

\* A task starts and ends with some peer.
LEMMA StartType == Start \in TaskType /\ [Start EXCEPT !.st = "done"] \in TaskType
  <1>1. (CHOOSE q \in Peer : TRUE) \in Peer
    BY PeerAssumption
  <1> QED
    BY <1>1, RowType DEF Start, TaskType

LEMMA FinishType ==
    ASSUME NEW t, task \in [Cmd \cup Thread -> TaskType], Finish(t)
    PROVE  task' \in [Cmd \cup Thread -> TaskType]
  BY StartType DEF Finish

\* The initial state has the type.
LEMMA InitType == Init => TypeOK
  BY StartType, RowType, ClockAssumption DEF Init, TypeOK, Resting, TaskType

\* Every step preserves the type.
LEMMA NextType == TypeOK /\ [Next]_vars => TypeOK'
  <1> SUFFICES ASSUME TypeOK, [Next]_vars PROVE TypeOK'
    OBVIOUS
  <1>t. TypeOK <=> /\ peers \in [Peer -> Row]
                   /\ task \in [Cmd \cup Thread -> TaskType]
                   /\ beacon \in BeaconType
                   /\ alive \subseteq Addr
                   /\ now \in 1..MaxNow
                   /\ given \in [Peer -> Seq(Addr)]
    BY DEF TypeOK, TaskType, BeaconType
  <1>n. now \in Nat \ {0} /\ now \in Nat
    BY <1>t, ClockAssumption
  <1>1. ASSUME NEW c \in Cmd, NEW p \in Peer, NEW a \in Addr, Connect(c, p, a)
        PROVE  TypeOK'
    <2>1. PeerRow(a, FALSE, 0) \in Row
      BY RowType
    <2>2. peers' \in [Peer -> Row]
      BY <1>1, <1>t, <2>1 DEF Connect
    <2>3. task' \in [Cmd \cup Thread -> TaskType]
      BY <1>1, <1>t, DoType, FinishType, RowType DEF Connect
    <2>4. given' \in [Peer -> Seq(Addr)]
      <3>1. Append(given[p], a) \in Seq(Addr)
        BY <1>t
      <3>2. given' = given \/ given' = [given EXCEPT ![p] = Append(@, a)]
        BY <1>1 DEF Connect
      <3> QED
        BY <1>t, <3>1, <3>2
    <2> QED
      BY <1>1, <1>t, <2>2, <2>3, <2>4 DEF Connect, TypeOK, TaskType
  <1>2. ASSUME NEW h \in Thread, NEW p \in Peer,
               handle_announce(h, p) \/ DiscoverRead(h, p) \/ HeardRead(h, p)
        PROVE  TypeOK'
    <2>1. PeerRow(NoIp, TRUE, now) \in Row
      BY <1>n, RowType
    <2>2. CASE handle_announce(h, p)
      <3>1. peers' \in [Peer -> Row]
        BY <2>1, <2>2, <1>t, UpsertRow DEF handle_announce
      <3>2. task' \in [Cmd \cup Thread -> TaskType]
        BY <2>2, <1>t, FinishType DEF handle_announce
      <3> QED
        BY <2>2, <1>t, <3>1, <3>2 DEF handle_announce, TypeOK, TaskType
    <2>3. CASE DiscoverRead(h, p)
      <3>1. task' \in [Cmd \cup Thread -> TaskType]
        BY <2>3, <1>t, FinishType, DoType, RowType DEF DiscoverRead
      <3> QED
        BY <2>3, <1>t, <3>1 DEF DiscoverRead, TypeOK, TaskType
    <2>4. CASE HeardRead(h, p)
      <3>1. task' \in [Cmd \cup Thread -> TaskType]
        BY <2>4, <1>t, FinishType, DoType DEF HeardRead
      <3> QED
        BY <2>4, <1>t, <3>1 DEF HeardRead, TypeOK, TaskType
    <2> QED
      BY <1>2, <2>2, <2>3, <2>4
  <1>3. ASSUME NEW t \in Cmd \cup Thread, Work(t)
        PROVE  TypeOK'
    <2>1. task[t].p \in Peer /\ task[t].row \in Row
      BY <1>t DEF TaskType
    <2>2. task' \in [Cmd \cup Thread -> TaskType]
      <3>1. CASE PingRead(t)
        BY <3>1, <2>1, <1>t, DoType, FinishType DEF PingRead
      <3> QED
        BY <1>3, <1>t, <3>1, FinishType
        DEF Work, PingWrite, DiscoverInsert, HeardWrite
    <2>3. peers' \in [Peer -> Row]
      <3>1. CASE PingWrite(t) \/ HeardWrite(t)
        <4>1. PICK ok \in BOOLEAN : upsert_peer(task[t].p, Mark(task[t].row, ok))
          BY <3>1 DEF PingWrite, HeardWrite
        <4> QED
          BY <4>1, <2>1, <1>t, <1>n, MarkRow, UpsertRow
      <3>2. CASE DiscoverInsert(t)
        BY <3>2, <2>1, <1>t, <1>n, RowType, UpsertRow DEF DiscoverInsert
      <3> QED
        BY <1>3, <1>t, <3>1, <3>2 DEF Work, PingRead
    <2> QED
      BY <1>3, <1>t, <2>2, <2>3
      DEF Work, PingRead, PingWrite, DiscoverInsert, HeardWrite, TypeOK, TaskType
  <1>4. ASSUME NEW p \in Peer, remove_peer(p)
        PROVE  TypeOK'
    BY <1>4, <1>t, RowType DEF remove_peer, TypeOK, TaskType
  <1>5. CASE start_beacon
    <2> DEFINE b == [beacon EXCEPT !.run = TRUE]
    <2>1. b \in BeaconType
      BY <1>t DEF BeaconType
    <2>2. beacon' = [b EXCEPT !.on = TRUE]
      BY <1>5, Zenon DEF start_beacon
    <2> HIDE DEF b
    <2>3. beacon' \in BeaconType
      BY <2>1, <2>2 DEF BeaconType
    <2> QED
      BY <1>5, <1>t, <2>3 DEF start_beacon, TypeOK, BeaconType
  <1>6. CASE stop_beacon
    <2>1. beacon' \in BeaconType
      BY <1>6, <1>t DEF stop_beacon, BeaconType
    <2> QED
      BY <1>6, <1>t, <2>1 DEF stop_beacon, TypeOK, BeaconType
  <1>7. CASE BeaconList
    <2>1. Resting \in BeaconType
      BY RowType DEF Resting, BeaconType
    <2>2. CASE beacon.run
      <3> DEFINE ips == {p \in Peer : peers[p].known /\ peers[p].ip # NoIp}
                 rs == [p \in Peer |-> IF p \in ips THEN peers[p] ELSE NoRow]
                 b == [beacon EXCEPT !.todo = ips]
      <3>1. ips \in SUBSET Peer /\ rs \in [Peer -> Row]
        BY <1>t, RowType
      <3>2. beacon' = [b EXCEPT !.rows = rs]
        BY <1>7, <2>2, Zenon DEF BeaconList
      <3> HIDE DEF ips, rs
      <3>3. b \in BeaconType
        BY <1>t, <3>1 DEF BeaconType
      <3> HIDE DEF b
      <3> QED
        BY <1>t, <1>7, <3>1, <3>2, <3>3 DEF BeaconList, TypeOK, BeaconType
    <2>3. CASE ~beacon.run
      BY <1>7, <1>t, <2>1, <2>3 DEF BeaconList, TypeOK, BeaconType
    <2> QED
      BY <2>2, <2>3
  <1>8. ASSUME NEW p \in Peer, BeaconPing(p)
        PROVE  TypeOK'
    <2>1. beacon.rows \in [Peer -> Row] /\ beacon.todo \in SUBSET Peer
      BY <1>t DEF BeaconType
    <2>2. PICK ok \in BOOLEAN : upsert_peer(p, Mark(beacon.rows[p], ok))
      BY <1>8 DEF BeaconPing
    <2>3. peers' \in [Peer -> Row]
      BY <2>1, <2>2, <1>t, <1>n, MarkRow, UpsertRow
    <2> DEFINE b == [beacon EXCEPT !.todo = @ \ {p}]
    <2>4. b \in BeaconType
      BY <1>t, <2>1 DEF BeaconType
    <2>5. beacon' = [b EXCEPT !.rows[p] = NoRow]
      BY <1>8, Zenon DEF BeaconPing
    <2> HIDE DEF b
    <2>6. beacon' \in BeaconType
      BY <2>4, <2>5, RowType DEF BeaconType
    <2> QED
      BY <1>8, <1>t, <2>3, <2>6 DEF BeaconPing, TypeOK, BeaconType
  <1>9. CASE Tick
    <2>1. now' \in 1..MaxNow
      BY <1>9, <1>t, ClockAssumption DEF Tick
    <2> QED
      BY <1>9, <1>t, <2>1 DEF Tick, TypeOK, TaskType
  <1>10. ASSUME NEW a \in Addr, HostChanges(a)
         PROVE  TypeOK'
    BY <1>10, <1>t DEF HostChanges, TypeOK, TaskType
  <1>11. CASE UNCHANGED vars
    BY <1>11 DEF vars, TypeOK
  <1> QED
    BY <1>1, <1>2, <1>3, <1>4, <1>5, <1>6, <1>7, <1>8, <1>9, <1>10, <1>11
    DEF Next, beacon_loop

\* Every reachable state has its type: the rows that tasks and the beacon carry
\* around and write back are rows of the peers table (upsert_peer).
THEOREM TypeCorrect == Spec => []TypeOK
  <1>1. QED
    BY InitType, NextType, PTL DEF Spec
----------------------------------------------------------------------------
(* A peer that is online has been seen.                                    *)

\* `shr peers` never shows a peer as online that was never seen, although
\* ping_peer, the packet handlers and the beacon write back rows that may be
\* out of date: a row that says online is always written with the time.
THEOREM OnlinePeersWereSeen == Spec => []OnlineWasSeen
  <1>1. Init => OnlineWasSeen
    BY DEF Init, OnlineWasSeen, NoRow
  <1>2. TypeOK /\ OnlineWasSeen /\ [Next]_vars => OnlineWasSeen'
    <2> SUFFICES ASSUME TypeOK, OnlineWasSeen, [Next]_vars
                 PROVE  OnlineWasSeen'
      OBVIOUS
    <2>n. now \in Nat \ {0}
      BY ClockAssumption DEF TypeOK
    <2>t. peers \in [Peer -> Row]
      BY DEF TypeOK
    <2>u. ASSUME NEW p \in Peer, NEW r \in Row, r.online => r.seen > 0,
                 upsert_peer(p, r)
          PROVE  OnlineWasSeen'
      BY <2>u, <2>t, UpsertRow DEF OnlineWasSeen
    <2>h. /\ PeerRow(NoIp, TRUE, now) \in Row
          /\ PeerRow(NoIp, TRUE, now).seen > 0
      BY <2>n DEF PeerRow, Row
    <2>1. ASSUME NEW c \in Cmd, NEW p \in Peer, NEW a \in Addr, Connect(c, p, a)
          PROVE  OnlineWasSeen'
      BY <2>1, <2>t DEF Connect, OnlineWasSeen, PeerRow
    <2>2. ASSUME NEW h \in Thread, NEW p \in Peer,
                 handle_announce(h, p) \/ DiscoverRead(h, p) \/ HeardRead(h, p)
          PROVE  OnlineWasSeen'
      <3>1. CASE handle_announce(h, p)
        BY <3>1, <2>u, <2>h DEF handle_announce
      <3> QED
        BY <2>2, <3>1 DEF DiscoverRead, HeardRead, OnlineWasSeen
    <2>3. ASSUME NEW t \in Cmd \cup Thread, Work(t)
          PROVE  OnlineWasSeen'
      <3>1. task[t].p \in Peer /\ task[t].row \in Row
        BY DEF TypeOK
      <3>2. CASE PingWrite(t) \/ HeardWrite(t)
        <4>1. PICK ok \in BOOLEAN : upsert_peer(task[t].p, Mark(task[t].row, ok))
          BY <3>2 DEF PingWrite, HeardWrite
        <4>2. /\ Mark(task[t].row, ok) \in Row
              /\ Mark(task[t].row, ok).online => Mark(task[t].row, ok).seen > 0
          BY <3>1, <2>n, MarkRow
        <4> QED
          BY <4>1, <4>2, <3>1, <2>u
      <3>3. CASE DiscoverInsert(t)
        BY <3>3, <3>1, <2>u, <2>h DEF DiscoverInsert
      <3> QED
        BY <2>3, <3>2, <3>3 DEF Work, PingRead, OnlineWasSeen
    <2>4. ASSUME NEW p \in Peer, remove_peer(p)
          PROVE  OnlineWasSeen'
      BY <2>4, <2>t DEF remove_peer, OnlineWasSeen, NoRow
    <2>5. ASSUME NEW p \in Peer, BeaconPing(p)
          PROVE  OnlineWasSeen'
      <3>1. PICK ok \in BOOLEAN : upsert_peer(p, Mark(beacon.rows[p], ok))
        BY <2>5 DEF BeaconPing
      <3>2. beacon.rows[p] \in Row
        BY DEF TypeOK
      <3>3. /\ Mark(beacon.rows[p], ok) \in Row
            /\ Mark(beacon.rows[p], ok).online => Mark(beacon.rows[p], ok).seen > 0
        BY <3>2, <2>n, MarkRow
      <3> QED
        BY <3>1, <3>3, <2>u
    <2>6. CASE \/ start_beacon \/ stop_beacon \/ BeaconList \/ Tick
               \/ \E a \in Addr : HostChanges(a)
               \/ UNCHANGED vars
      BY <2>6 DEF start_beacon, stop_beacon, BeaconList, Tick, HostChanges, vars,
                  OnlineWasSeen
    <2> QED
      BY <2>1, <2>2, <2>3, <2>4, <2>5, <2>6 DEF Next, beacon_loop
  <1> QED
    BY <1>1, <1>2, TypeCorrect, PTL DEF Spec
----------------------------------------------------------------------------
(* A peer's address is one that was given for it.                          *)

\* The address of row r is one that g holds for peer p, or none.
In(g, p, r) == r.ip = NoIp \/ \E i \in 1..Len(g[p]) : g[p][i] = r.ip

\* AddressWasGiven is not inductive: rows are written back from memory. It has
\* to hold of every copy of a row, for the peer the copy will be written to.
GivenInv ==
    /\ \A p \in Peer : In(given, p, peers[p])
    /\ \A t \in Cmd \cup Thread : In(given, task[t].p, task[t].row)
    /\ \A p \in Peer : In(given, p, beacon.rows[p])

\* What was given stays given, and what is added is given: addresses are only
\* appended.
LEMMA GivenGrows ==
    ASSUME NEW g \in [Peer -> Seq(Addr)], NEW p \in Peer, NEW a \in Addr,
           NEW h, h[p] = Append(g[p], a), \A q \in Peer \ {p} : h[q] = g[q]
    PROVE  /\ \A q \in Peer : \A r : In(g, q, r) => In(h, q, r)
           /\ \A o, n : In(h, p, PeerRow(a, o, n))
  <1>1. g[p] \in Seq(Addr)
    OBVIOUS
  <1>2. /\ Len(h[p]) = Len(g[p]) + 1 /\ Len(g[p]) \in Nat
        /\ h[p][Len(g[p]) + 1] = a
        /\ \A i \in 1..Len(g[p]) : h[p][i] = g[p][i] /\ i \in 1..Len(h[p])
    BY <1>1
  <1>3. ASSUME NEW q \in Peer, NEW r, In(g, q, r)
        PROVE  In(h, q, r)
    BY <1>1, <1>2, <1>3 DEF In
  <1>4. ASSUME NEW o, NEW n
        PROVE  In(h, p, PeerRow(a, o, n))
    <2>1. Len(g[p]) + 1 \in 1..Len(h[p])
      BY <1>2
    <2> QED
      BY <1>2, <2>1 DEF In, PeerRow
  <1> QED
    BY <1>3, <1>4

\* A peer's address is one the user has given for this very peer with `shr
\* connect`, or none: neither commands nor packet handlers nor the beacon ever
\* write the address of one peer, or of nobody, into the row of another.
THEOREM AddressesWereGiven == Spec => []AddressWasGiven
  <1>1. Init => GivenInv
    BY DEF Init, GivenInv, In, NoRow, Start, Resting
  <1>2. TypeOK /\ GivenInv /\ [Next]_vars => GivenInv'
    <2> SUFFICES ASSUME TypeOK, GivenInv, [Next]_vars
                 PROVE  GivenInv'
      OBVIOUS
    <2>t. /\ peers \in [Peer -> Row]
          /\ task \in [Cmd \cup Thread -> TaskType]
          /\ beacon \in BeaconType
          /\ now \in Nat \ {0}
          /\ given \in [Peer -> Seq(Addr)]
      BY ClockAssumption DEF TypeOK, TaskType, BeaconType
    \* Rows without an address, or with the address of another copy.
    <2>r. /\ \A g, p : In(g, p, NoRow)
          /\ \A g, p, o, n : In(g, p, PeerRow(NoIp, o, n))
          /\ \A g, p, r, ok : In(g, p, r) => In(g, p, Mark(r, ok))
      BY DEF In, NoRow, PeerRow, Mark
    <2>u. ASSUME NEW p \in Peer, NEW r \in Row, In(given, p, r), upsert_peer(p, r)
          PROVE  \A q \in Peer : In(given, q, peers'[q])
      BY ZenonT(30), <2>u, <2>t, UpsertRow DEF GivenInv
    <2>d. ASSUME NEW t \in Cmd \cup Thread, NEW l, NEW p \in Peer, NEW r,
                 In(given, p, r), Do(t, l, p, r)
          PROVE  \A u \in Cmd \cup Thread : In(given, task'[u].p, task'[u].row)
      BY <2>d, <2>t DEF GivenInv, Do
    <2>f. ASSUME NEW t \in Cmd \cup Thread, Finish(t)
          PROVE  \A u \in Cmd \cup Thread : In(given, task'[u].p, task'[u].row)
      <3>1. [Start EXCEPT !.st = "done"].row = NoRow
        BY DEF Start
      <3>2. \A u \in Cmd \cup Thread : task'[u] = task[u] \/ task'[u].row = NoRow
        BY <2>f, <2>t, <3>1 DEF Finish
      <3> QED
        BY <3>2, <2>r DEF GivenInv
    <2>1. ASSUME NEW c \in Cmd, NEW p \in Peer, NEW a \in Addr, Connect(c, p, a)
          PROVE  GivenInv'
      <3>1. CASE Finish(c) /\ UNCHANGED <<peers, given>>
        BY <3>1, <2>1, <2>f DEF Connect, GivenInv
      <3>2. CASE /\ peers' = [peers EXCEPT ![p] = PeerRow(a, FALSE, 0)]
                 /\ given' = [given EXCEPT ![p] = Append(@, a)]
                 /\ Do(c, "ping", p, NoRow)
        <4>1. /\ \A q \in Peer : \A r : In(given, q, r) => In(given', q, r)
              /\ In(given', p, PeerRow(a, FALSE, 0))
          <5>1. /\ given'[p] = Append(given[p], a)
                /\ \A q \in Peer \ {p} : given'[q] = given[q]
            BY <3>2, <2>t
          <5> QED
            BY <5>1, <2>t, GivenGrows
        <4>2. \A q \in Peer : In(given', q, peers'[q])
          BY <3>2, <4>1, <2>t DEF GivenInv
        <4>3. \A t \in Cmd \cup Thread : In(given', task'[t].p, task'[t].row)
          <5>1. \A t \in Cmd \cup Thread : task'[t].p \in Peer
            BY <3>2, <2>t DEF Do, TaskType
          <5>2. \A t \in Cmd \cup Thread : In(given, task'[t].p, task'[t].row)
            BY <3>2, <2>d, <2>r
          <5> QED
            BY <4>1, <5>1, <5>2
        <4>4. \A q \in Peer : In(given', q, beacon'.rows[q])
          BY <2>1, <4>1 DEF Connect, GivenInv
        <4> QED
          BY <4>2, <4>3, <4>4 DEF GivenInv
      <3> QED
        BY <2>1, <3>1, <3>2 DEF Connect
    <2>2. ASSUME NEW h \in Thread, NEW p \in Peer,
                 handle_announce(h, p) \/ DiscoverRead(h, p) \/ HeardRead(h, p)
          PROVE  GivenInv'
      <3>1. CASE handle_announce(h, p)
        <4>1. PeerRow(NoIp, TRUE, now) \in Row
          BY <2>t, RowType
        <4> QED
          BY <3>1, <4>1, <2>r, <2>u, <2>f DEF handle_announce, GivenInv
      <3>2. CASE DiscoverRead(h, p)
        BY <3>2, <2>r, <2>d, <2>f DEF DiscoverRead, GivenInv
      <3>3. CASE HeardRead(h, p)
        BY <3>3, <2>d, <2>f DEF HeardRead, GivenInv
      <3> QED
        BY <2>2, <3>1, <3>2, <3>3
    <2>3. ASSUME NEW t \in Cmd \cup Thread, Work(t)
          PROVE  GivenInv'
      <3>1. /\ task[t].p \in Peer /\ task[t].row \in Row
            /\ In(given, task[t].p, task[t].row)
        BY <2>t DEF TaskType, GivenInv
      <3>2. CASE PingRead(t)
        BY <3>1, <3>2, <2>d, <2>f DEF PingRead, GivenInv
      <3>3. CASE PingWrite(t) \/ HeardWrite(t)
        <4>1. PICK ok \in BOOLEAN : upsert_peer(task[t].p, Mark(task[t].row, ok))
          BY <3>3 DEF PingWrite, HeardWrite
        <4>2. \A q \in Peer : In(given, q, peers'[q])
          BY <4>1, <3>1, <2>t, <2>r, <2>u, MarkRow
        <4> QED
          BY <4>2, <3>3, <2>f DEF PingWrite, HeardWrite, GivenInv
      <3>4. CASE DiscoverInsert(t)
        <4>1. PeerRow(NoIp, TRUE, now) \in Row
          BY <2>t, RowType
        <4> QED
          BY <3>1, <3>4, <4>1, <2>r, <2>u, <2>f DEF DiscoverInsert, GivenInv
      <3> QED
        BY <2>3, <3>2, <3>3, <3>4 DEF Work
    <2>4. ASSUME NEW p \in Peer, remove_peer(p)
          PROVE  GivenInv'
      BY <2>4, <2>t, <2>r DEF remove_peer, GivenInv
    <2>5. CASE start_beacon \/ stop_beacon
      <3>1. beacon'.rows = beacon.rows
        <4> DEFINE b == [beacon EXCEPT !.run = TRUE]
        <4>1. CASE start_beacon
          <5>1. b \in BeaconType /\ b.rows = beacon.rows
            BY <2>t DEF BeaconType
          <5>2. beacon' = [b EXCEPT !.on = TRUE]
            BY <4>1, Zenon DEF start_beacon
          <5> HIDE DEF b
          <5> QED
            BY <5>1, <5>2 DEF BeaconType
        <4>2. CASE stop_beacon
          BY <4>2, <2>t DEF stop_beacon, BeaconType
        <4> QED
          BY <2>5, <4>1, <4>2
      <3> QED
        BY <2>5, <3>1 DEF start_beacon, stop_beacon, GivenInv
    <2>6. CASE BeaconList
      <3>1. \A p \in Peer : beacon'.rows[p] \in {NoRow, peers[p]}
        <4> DEFINE ips == {p \in Peer : peers[p].known /\ peers[p].ip # NoIp}
                   rs == [p \in Peer |-> IF p \in ips THEN peers[p] ELSE NoRow]
                   b == [beacon EXCEPT !.todo = ips]
        <4>1. CASE beacon.run
          <5>1. beacon' = [b EXCEPT !.rows = rs]
            BY <2>6, <4>1, Zenon DEF BeaconList
          <5>2. \A p \in Peer : rs[p] \in {NoRow, peers[p]}
            OBVIOUS
          <5> HIDE DEF rs, ips
          <5>3. b \in [run : BOOLEAN, on : BOOLEAN, todo : {ips}, rows : [Peer -> Row]]
            BY <2>t DEF BeaconType
          <5> HIDE DEF b
          <5>4. beacon'.rows = rs
            BY <5>1, <5>3
          <5> QED
            BY <5>2, <5>4
        <4>2. CASE ~beacon.run
          BY <2>6, <4>2 DEF BeaconList, Resting
        <4> QED
          BY <4>1, <4>2
      <3> QED
        BY <2>6, <2>r, <3>1 DEF BeaconList, GivenInv
    <2>7. ASSUME NEW p \in Peer, BeaconPing(p)
          PROVE  GivenInv'
      <3>1. PICK ok \in BOOLEAN : upsert_peer(p, Mark(beacon.rows[p], ok))
        BY <2>7 DEF BeaconPing
      <3>2. beacon.rows[p] \in Row /\ In(given, p, beacon.rows[p])
        BY <2>t DEF BeaconType, GivenInv
      <3>3. \A q \in Peer : In(given, q, peers'[q])
        BY <3>1, <3>2, <2>t, <2>r, <2>u, MarkRow
      <3>4. \A q \in Peer : beacon'.rows[q] \in {NoRow, beacon.rows[q]}
        <4> DEFINE b == [beacon EXCEPT !.todo = @ \ {p}]
        <4>1. b \in BeaconType /\ b.rows = beacon.rows
          BY <2>t DEF BeaconType
        <4>2. beacon' = [b EXCEPT !.rows[p] = NoRow]
          BY <2>7, Zenon DEF BeaconPing
        <4> HIDE DEF b
        <4> QED
          BY <4>1, <4>2, <2>t DEF BeaconType
      <3> QED
        BY <2>7, <2>r, <3>3, <3>4 DEF BeaconPing, GivenInv
    <2>8. CASE \/ Tick \/ UNCHANGED vars
               \/ \E a \in Addr : HostChanges(a)
      BY <2>8 DEF Tick, HostChanges, vars, GivenInv
    <2> QED
      BY <2>1, <2>2, <2>3, <2>4, <2>5, <2>6, <2>7, <2>8 DEF Next, beacon_loop
  <1>3. GivenInv => AddressWasGiven
    BY DEF GivenInv, AddressWasGiven, In
  <1> QED
    BY <1>1, <1>2, <1>3, TypeCorrect, PTL DEF Spec
==============================================================================
