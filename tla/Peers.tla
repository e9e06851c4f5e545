------------------------------- MODULE Peers -------------------------------
(***************************************************************************)
(* The peers table of one node and everybody who writes to it: `shr        *)
(* connect` commands (a process each), the threads that handle Ping, Pong, *)
(* PeerDiscover and PeerAnnounce packets, and the beacon thread. Most of   *)
(* them read a row, take their time, and write the whole row back.         *)
(***************************************************************************)
EXTENDS Integers, Sequences, FiniteSets

CONSTANTS
    Peer,           \* ids of other nodes
    Addr,           \* IP addresses (with their port)
    NoIp,           \* the empty address
    Cmd,            \* `shr connect` commands
    Thread,         \* packets handled by the listening process, a thread each
    MaxNow,         \* bound on the clock
    Inputs          \* what else may happen on this node

InputKinds == {"announce", "discover", "ping", "remove", "beacon",
               "host",      \* a host goes away or comes back
               "busy",      \* SQLITE_BUSY: a write to the table is dropped
               "net"}       \* a packet to a host that listens is lost

ASSUME PeerAssumption == Peer # {}
ASSUME AddrAssumption == NoIp \notin Addr /\ Inputs \subseteq InputKinds
ASSUME ClockAssumption == MaxNow \in Nat \ {0}

VARIABLES
    peers,          \* the table
    task,           \* what a command or a handler thread is doing
    beacon,         \* the beacon thread
    alive,          \* addresses where somebody listens
    now,            \* now_unix()
    given           \* the addresses given to `shr connect`, in order

vars == <<peers, task, beacon, alive, now, given>>
----------------------------------------------------------------------------
(* The table.                                                              *)
Row == [known : BOOLEAN, ip : Addr \cup {NoIp}, online : BOOLEAN, seen : Nat]
NoRow == [known |-> FALSE, ip |-> NoIp, online |-> FALSE, seen |-> 0]
\* A mutant of PeerRow: last_seen is not set and keeps an arbitrary value.
Bug_Unset(a, o, s) == [known |-> TRUE, ip |-> a, online |-> o, seen |-> -1]

PeerRow(a, o, s) == [known |-> TRUE, ip |-> a, online |-> o, seen |-> s]

\* INSERT OR REPLACE of a whole row; only add_peer's caller looks at the result.
upsert_peer(p, r) == \/ peers' = [peers EXCEPT ![p] = r]
                     \/ "busy" \in Inputs /\ UNCHANGED peers

\* A mutant of Mark: a peer that answers is online, the time is forgotten.
Bug_NoTime(r, ok) == [r EXCEPT !.online = ok]

\* The row after an attempt to reach the peer, or after hearing from it.
Mark(r, ok) == PeerRow(r.ip, ok, IF ok THEN now ELSE r.seen)

\* May send_packet to address a return ok? inet_pton leaves the address of
\* this host for an empty string, and anything may listen here.
Reaches(a, ok) == \/ a = NoIp
                  \/ ok /\ a \in alive
                  \/ ~ok /\ (a \notin alive \/ "net" \in Inputs)
----------------------------------------------------------------------------
(* Commands and handlers: one record per command or thread.                *)
Start == [st |-> "idle", p |-> CHOOSE p \in Peer : TRUE, row |-> NoRow]
Do(t, l, q, r) == task' = [task EXCEPT ![t] = [st |-> l, p |-> q, row |-> r]]
Finish(t) == task' = [task EXCEPT ![t] = [Start EXCEPT !.st = "done"]]

\* cmd_connect stores the peer with add_peer: never seen, offline. If that
\* fails the command ends, otherwise it goes on to ping_peer.
Connect(c, p, a) ==
    /\ task[c].st = "idle"
    /\ \/ /\ peers' = [peers EXCEPT ![p] = PeerRow(a, FALSE, 0)]
          /\ given' = [given EXCEPT ![p] = Append(@, a)]
          /\ Do(c, "ping", p, NoRow)
       \/ /\ "busy" \in Inputs
          /\ Finish(c)
          /\ UNCHANGED <<peers, given>>
    /\ UNCHANGED <<beacon, alive, now>>

\* ping_peer reads the row, sends, and writes the row back.
PingRead(c) ==
    /\ task[c].st = "ping"
    /\ IF peers[task[c].p].known
       THEN Do(c, "sent", task[c].p, peers[task[c].p])
       ELSE Finish(c)
    /\ UNCHANGED <<peers, beacon, alive, now, given>>

PingWrite(c) ==
    /\ task[c].st = "sent"
    /\ \E ok \in BOOLEAN :
          /\ Reaches(task[c].row.ip, ok)
          /\ upsert_peer(task[c].p, Mark(task[c].row, ok))
    /\ Finish(c)
    /\ UNCHANGED <<beacon, alive, now, given>>

\* handle_announce replaces the row, with an empty address.
handle_announce(h, p) ==
    /\ "announce" \in Inputs
    /\ task[h].st = "idle"
    /\ upsert_peer(p, PeerRow(NoIp, TRUE, now))
    /\ Finish(h)
    /\ UNCHANGED <<beacon, alive, now, given>>

\* handle_discover adds a row without address if it has found none.
DiscoverRead(h, p) ==
    /\ "discover" \in Inputs
    /\ task[h].st = "idle"
    /\ IF peers[p].known THEN Finish(h) ELSE Do(h, "insert", p, NoRow)
    /\ UNCHANGED <<peers, beacon, alive, now, given>>

DiscoverInsert(h) ==
    /\ task[h].st = "insert"
    /\ upsert_peer(task[h].p, PeerRow(NoIp, TRUE, now))
    /\ Finish(h)
    /\ UNCHANGED <<beacon, alive, now, given>>

\* handle_ping and handle_pong read the row of the sender, if there is one,
\* and write it back as seen just now.
HeardRead(h, p) ==
    /\ "ping" \in Inputs
    /\ task[h].st = "idle"
    /\ IF peers[p].known THEN Do(h, "heard", p, peers[p]) ELSE Finish(h)
    /\ UNCHANGED <<peers, beacon, alive, now, given>>

HeardWrite(h) ==
    /\ task[h].st = "heard"
    /\ upsert_peer(task[h].p, Mark(task[h].row, TRUE))
    /\ Finish(h)
    /\ UNCHANGED <<beacon, alive, now, given>>

\* A task that has started takes its next step.
Work(t) == PingRead(t) \/ PingWrite(t) \/ DiscoverInsert(t) \/ HeardWrite(t)

remove_peer(p) ==
    /\ "remove" \in Inputs
    /\ peers[p].known
    /\ peers' = [peers EXCEPT ![p] = NoRow]
    /\ UNCHANGED <<task, beacon, alive, now, given>>
----------------------------------------------------------------------------
(* The beacon thread: it reads the whole table and then, peer by peer, in  *)
(* any order, pings and writes back what it has read.                      *)
Resting == [run |-> FALSE, on |-> FALSE, todo |-> {}, rows |-> [p \in Peer |-> NoRow]]

start_beacon ==
    /\ "beacon" \in Inputs
    /\ ~beacon.on
    /\ beacon' = [beacon EXCEPT !.run = TRUE, !.on = TRUE]
    /\ UNCHANGED <<peers, task, alive, now, given>>

\* stop_beacon clears the flag; the thread sees it between two rounds.
stop_beacon ==
    /\ beacon.run
    /\ beacon' = [beacon EXCEPT !.run = FALSE]
    /\ UNCHANGED <<peers, task, alive, now, given>>

BeaconList ==
    /\ beacon.on
    /\ beacon.todo = {}
    /\ beacon' = IF beacon.run
                 THEN LET has_ip == {p \in Peer : peers[p].known /\ peers[p].ip # NoIp}
                      IN  [beacon EXCEPT !.todo = has_ip,
                              !.rows = [p \in Peer |-> IF p \in has_ip THEN peers[p]
                                                       ELSE NoRow]]
                 ELSE Resting
    /\ UNCHANGED <<peers, task, alive, now, given>>

\* A mutant of BeaconPing: a peer that does not answer is skipped.
Bug_SkipSilent(p) ==
    /\ p \in beacon.todo
    /\ \E ok \in BOOLEAN :
          /\ Reaches(beacon.rows[p].ip, ok)
          /\ IF ok THEN upsert_peer(p, Mark(beacon.rows[p], ok))
             ELSE UNCHANGED peers
    /\ beacon' = [beacon EXCEPT !.todo = @ \ {p}, !.rows[p] = NoRow]
    /\ UNCHANGED <<task, alive, now, given>>

\* A mutant of BeaconPing: the row of another peer of the list is written.
Bug_WrongRow(p) ==
    /\ p \in beacon.todo
    /\ \E ok \in BOOLEAN, q \in beacon.todo :
          /\ Reaches(beacon.rows[q].ip, ok)
          /\ upsert_peer(p, Mark(beacon.rows[q], ok))
    /\ beacon' = [beacon EXCEPT !.todo = @ \ {p}, !.rows[p] = NoRow]
    /\ UNCHANGED <<task, alive, now, given>>

BeaconPing(p) ==
    /\ p \in beacon.todo
    /\ \E ok \in BOOLEAN :
          /\ Reaches(beacon.rows[p].ip, ok)
          /\ upsert_peer(p, Mark(beacon.rows[p], ok))
    /\ beacon' = [beacon EXCEPT !.todo = @ \ {p}, !.rows[p] = NoRow]
    /\ UNCHANGED <<task, alive, now, given>>

beacon_loop == BeaconList \/ \E p \in Peer : BeaconPing(p)
----------------------------------------------------------------------------
Tick ==
    /\ now < MaxNow
    /\ now' = now + 1
    /\ UNCHANGED <<peers, task, beacon, alive, given>>

HostChanges(a) ==
    /\ "host" \in Inputs
    /\ alive' = IF a \in alive THEN alive \ {a} ELSE alive \cup {a}
    /\ UNCHANGED <<peers, task, beacon, now, given>>

Init ==
    /\ peers = [p \in Peer |-> NoRow]
    /\ task = [t \in Cmd \cup Thread |-> Start]
    /\ beacon = Resting
    /\ alive = Addr
    /\ now = 1
    /\ given = [p \in Peer |-> <<>>]

Next ==
    \/ \E c \in Cmd, p \in Peer, a \in Addr : Connect(c, p, a)
    \/ \E h \in Thread, p \in Peer :
            handle_announce(h, p) \/ DiscoverRead(h, p) \/ HeardRead(h, p)
    \/ \E t \in Cmd \cup Thread : Work(t)
    \/ \E p \in Peer : remove_peer(p)
    \/ start_beacon \/ stop_beacon \/ beacon_loop
    \/ Tick
    \/ \E a \in Addr : HostChanges(a)

Spec == Init /\ [][Next]_vars

\* Sends are bounded by timeouts, and the beacon thread sleeps 30 s at a time.
FairSpec == /\ Spec
            /\ \A t \in Cmd \cup Thread : WF_vars(Work(t))
            /\ WF_vars(beacon_loop)
----------------------------------------------------------------------------
(* Properties.                                                             *)
TypeOK ==
    /\ peers \in [Peer -> Row]
    /\ task \in [Cmd \cup Thread ->
                    [st : {"idle", "ping", "sent", "insert", "heard", "done"},
                     p : Peer, row : Row]]
    /\ beacon \in [run : BOOLEAN, on : BOOLEAN, todo : SUBSET Peer,
                   rows : [Peer -> Row]]
    /\ alive \subseteq Addr
    /\ now \in 1..MaxNow
    /\ given \in [Peer -> Seq(Addr)]

\* `shr peers` never shows a peer as online that was "never" seen, whichever
\* of the stale rows in memory was written last.
OnlineWasSeen == \A p \in Peer : peers[p].online => peers[p].seen > 0

\* A peer's address is one the user has given for this very peer, or none: no
\* concurrent write moves an address to another peer.
AddressWasGiven ==
    \A p \in Peer : peers[p].ip = NoIp
                    \/ \E i \in 1..Len(given[p]) : given[p][i] = peers[p].ip

\* As long as the beacon runs, a peer whose address has stopped answering for
\* good is shown as offline in the end, whatever was in progress at the time.
DeadGoesOffline ==
    \A p \in Peer :
        <>[](beacon.run /\ peers[p].known /\ peers[p].ip \notin alive \cup {NoIp})
        => <>[](~peers[p].online)
============================================================================
