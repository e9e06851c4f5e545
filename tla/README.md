# A TLA+ model of shr

shr is a peer-to-peer command line tool that sends files and text messages
between two machines. This directory models the parts of it whose correctness
depends on order, failure and concurrency, checks them with TLC on small
instances, and proves with TLAPS, for instances of any size, every safety
property of every component but one (section 4). Two abstract specifications,
of a packet connection and of a file transfer, say what the detailed models
implement.

Paths are relative to the repository root (`src/transfer.cxx` is the C++ file,
`README.md:303` a line of the repository's own README). `PROJECT.json` maps
every definition to the lines it models.

## 1. The system

| Part | State it keeps | Operations | Talks to |
|---|---|---|---|
| Sender of files (`transfer.cxx`, `Transfer::send_file`) | position in the file, retries, `active_count_`, a row of `transfers` | offer, chunk with retry, wait for ack, complete | connection, `transfers` of its node |
| Receiver of files (`transfer.cxx`, `handle_file_*`) | the received file, a row of `transfers` | offer, chunk, complete, cancel | called by the connection's thread |
| Connections (`network.cxx`) | one TCP stream per transfer, one detached thread per accepted connection | `connect_to`, `send_packet(_conn)`, `read_packet`, `handle_conn` | everybody |
| Listener (`network.cxx`) | `listen_sock_`, `running_`, the accept thread, the descriptors of the process | `start`, `stop`, `accept_loop` | starts `handle_conn` |
| Messaging (`messaging.cxx`, `cmd_inbox` in `main.cxx`) | `messages` table of each node | `send_msg` with retry, `handle_msg_receive`, read the inbox | connection, database |
| Peers (`peers.cxx`, `cmd_connect`) | `peers` table, beacon thread | connect, ping, four packet handlers, beacon, remove | connection, database |
| Database (`database.cxx`) | three SQLite tables, shared by all processes of a node | single statements; no transaction, no busy timeout | everybody |
| Installation, configuration, keys (`identity.cxx`, `config.cxx`, `crypto.cxx`) | `config.json`, two key files | install, load, save, generate | command line |
| UDP discovery, logger, helpers | none that others read | broadcast, append, format | - |

Every command is a process of its own. The processes of one node share the
SQLite file; the processes of two nodes share a TCP connection. Inside a
process that listens, every connection has a thread.

What is hard about it, and hard to test:

* a send and its acknowledgement race with timeouts on both sides; a read that
  gives up does not take back what was sent;
* a send that times out may leave part of a frame in the stream, and the retry
  goes to the same stream;
* several steps of one handler are visible to other processes and to a crash
  (file written, row updated, ack sent, stream flushed, in that order);
* most writers of the database read a row, do something slow, and write the
  whole row back; a write that meets a lock is dropped and nobody looks;
* the file is measured, hashed and read again later, three reads that an edit
  may separate;
* `stop` writes a variable that the accept thread reads without a lock, and
  closes a descriptor that the accept thread may be about to use, while other
  threads get their descriptors from the same table;
* configuration and keys are truncated before they are written and written when
  the stream is destroyed, after the last test of its state; no file is locked.

`PROJECT.json` lists these hazards at their lines, with the properties aimed at
each of them.

## 2. The modules

    TransferState     state, table operations, packets, streams
      TransferSender      send_file, one action per wait or visible write
      TransferReceiver    handle_conn and the handlers it calls
        Transfer            both, with the environment; the properties
          Status              what `shr status` computes from the tables
            MCTransfer          instances for TLC
          TransferProofs      types, intact files, honest failures, slots
            DeliveryProofs      Transfer implements Delivery
            ProgressProofs      the conversation, progress, Status
    Delivery          what a transfer promises; Transfer implements it
    Stream            one direction of a connection, frames cut into pieces
      MCStream, StreamProofs
    FrameChannel      what a connection promises; Stream implements it
    Listener          start, stop, accept_loop, the descriptor table
      MCListener, ListenerProofs
    Install           config.json and the key files under every command
      MCInstall, InstallProofs
    Messaging         send_msg, handle_msg_receive, cmd_inbox
      MCMessaging, MessagingProofs
    Peers             cmd_connect, ping_peer, handlers, beacon
      MCPeers, PeersProofs

### File transfer

A file is a sequence of blocks, one per chunk of 1 MB, so offsets count chunks.
`Sha256` is injective; the hash of a file that cannot be opened is a value that
is nobody's hash, as the empty string is in the code.

The sender's position `pc` goes

    idle -> hash -> connect -> waitResp -> loop -> send -> waitAck -> loop ...
                                             \-> complete -> finish -> completed

with exits to `refused` (early return), `failed` (the three error returns and
`GiveUp` after the last retry) and `crashed`. Four things that the code does
are kept as they are: the limit is tested in `SendBegin` and the counter raised
in `StartStreaming`; the size of the file is read in `SendBegin` and its hash in
`HashFile`, and the offer announces both (`file_sz`, `checksum`), of different
contents if the file is edited in between; any packet counts as consent or as
acknowledgement; and a missing acknowledgement leaves the loop with `break`, so
that the transfer is *completed* (`ChunkNotAcked`).

The connection's thread `rpc` goes `read -> dispatch -> ... -> read` and ends in
`closed`. `handle_file_chunk` is three steps, because the row is updated and
the chunk acknowledged while the output stream still holds data (`AckChunk`
before `CloseOut`); `handle_file_complete` is two, the comparison and the row
(`RecordVerdict`). The branch for a `paused` row is there, but no run can take
it: no statement of the program writes that state, and every send has a fresh
id.

A stream is a sequence of frames in each direction. A send that times out may
leave `Torn`, the first part of a frame, and the retry follows it. The reader
takes the torn part and the beginning of the next frame for one packet, and
then fails on the magic number and closes (`ReadPacketFails`), except when
several torn parts add up to exactly one frame: then that packet is dropped by
its handler and the reader is in step again (`Resync`). `Stream` is where this
comes from. A reset loses a suffix each way. Writing to a
connection that the peer has given up may kill the *sending* process
(`BrokenPipe`: `send` without `MSG_NOSIGNAL`, no handler for SIGPIPE); the
receiver cannot be killed that way, because the sender has at most one request
open, so that a reply is the first thing written to a dead connection.

A write to a table is one of two outcomes, done or dropped
(`Committed`), wherever the code ignores the result of `sqlite3_step`.

The environment injects the faults named in the constant `Faults`: reset, slow
answers, stalled sends, corrupted chunks, an edited source file, a failing
disk, dropped writes, `cancel_transfer`, `shr clean`, crashes of either side.
The receiving process may restart at any time; it recovers nothing, as the
code does. Rows and files survive, unflushed data and connections do not.
`shr clean` drops rows that nobody has touched for seven days; since every wait
is bounded by 30 s nobody is working on them, which is the guard of `Clean`.

The constant `Listener` says whether the receiving process calls
`Network::start`. The commands in `main.cxx` set up the handlers and never call
it, so the receiver of this model is a process built on the library rather than
one of the commands as shipped.

`Status` has `active_transfers` and `storage_used_bytes`, which `shr status`
prints, over the rows of the same model.

`Delivery` leaves out threads, frames, chunks and tables. It knows what the
sender has been told, the hash it has announced, what is stored under each name
and which transfers count as accepted. `KeepsPromise` maps the state of
`Transfer` to it: `outcome` from `pc`, `promise` from `checksum`, `disk` from
the hashes of the files, `accepted` from the rows of the receiver. A step of
`send_file` or `handle_conn` must be one step of `Delivery` or none, so that
the property also says what no single invariant does: that no write reaches a
file after it was accepted, and that the hash is announced once.

### Packet streams

`Stream` looks inside one direction of a connection. A frame is four header
cells (magic, type, length, hmac) and its payload cells; `send` takes any number
of them at a time and may time out after any of them, `recv` returns any number.
The writer starts the whole frame again after a timeout, as the chunk loop
of `send_file` does, up to `Attempts` times. The reader collects a header,
compares the magic number, and collects what the length field announces. A
cell knows the frame and the place it comes from, so a cell that stands where
another is expected is visible. A length field that is filled by something else
has bytes of a magic number or a type in its high half and announces more than
ever arrives (`Huge`); the reader then waits until the writer is gone or its
`select` times out. `RetryAssumption` says that a frame that is sent again has a
payload, which is true of FileChunk, the only packet that is sent again on one
connection.
`FrameChannel` is the queue this is meant to be: packets sent, packets
delivered, the second a prefix of the first.

### Listener

The process has one descriptor table, from which the kernel hands out the lowest
free number. `start` takes a descriptor, binds, listens, sets `running_`, starts
the thread; `stop` clears the flag, closes the descriptor, clears `listen_sock_`
and joins, four steps that interleave with the loop of the accept thread
(`CheckRunning`, `LoadListenSock`, `EnterAccept`, `Accept`). On Linux a thread
that is blocked in `accept` keeps the socket alive after its descriptor was
closed, and the port with it; elsewhere the call fails; `StopClose` allows both.
Between `LoadListenSock` and `EnterAccept` the descriptor may be closed and
handed out again to a connection or to a file (`OtherOpen`): `accept` then fails
on it. Connections queue up to `Backlog`, and stay in the queue when the table
is full. No command of the repository calls `start` or `stop`; the module models
them for the programs that use the library.

### Installation, configuration and keys

`Install` models every command of one user as a process that loads `config.json`,
and creates it or the keys if they are not there. A file is absent, truncated or
whole. Opening it for writing truncates it; its contents appear when the stream
is destroyed, after `save` has looked at `good()`, so that a lost write goes
unnoticed (`lost` remembers it). Key files that exist are read without looking
at their length. Kinds of commands: `install`; `config`, which loads a second
time when its initialisation has failed (`Reload`); and `whoami` for all
others, which share `init_app`. `SHR_PORT` is a choice per command, and the
user may edit the port in the file, or give a value the wrong type: that of
`listen_port` or of a field that `load` reads after it (`Wrong`). `load` has
three ways out (`Defaults`, `Loads`, `LoadFails`), and a load that throws leaves
the fields before the wrong one in `cfg_` and does not apply the environment
again (`HalfWay`).

Nothing in the code keeps two installs apart, and nothing keeps two commands
from making keys at once. The history variable `together` remembers who was
between its look at the key files and its last write when somebody else began to
make keys; `KeysBelong` and `KeysStayPut` are stated with it, for any
interleaving. The history variable `overlap` remembers whether two installs have
run at the same time; no step is guarded by it. `ShownIsStored` and
`InstalledHasKeys` are stated with it: with two installs at once, the second
overwrites the identity the first has shown.

### Messaging

Each message is one `shr msg`: attempts with retry, then the sender's own copy,
stored as read. The recipient stores the message with `INSERT OR IGNORE`, so a
message to oneself is written twice, in either order. `get_inbox` is
`ORDER BY timestamp DESC LIMIT OFFSET` over the table, equal timestamps in the
order of their rowid; timestamps are arbitrary, because they are the sender's.
The user opens page 1, and the next page as long as the command says that there
is more; a page is printed and marked row by row and may be interrupted in
between.

### Peers

One peers table; `shr connect` (`Connect`, `PingRead`, `PingWrite`), the
threads that handle Ping, Pong, PeerDiscover and PeerAnnounce, removal, and the
beacon thread, which reads the whole table and then pings and writes back row
after row. Each reader remembers the row it read and writes that row back. The
packets are entry points: no code of the repository sends PeerAnnounce or
listens for UDP, but a peer that follows the protocol table of the repository's
README does. An empty address makes `connect_to` use whatever `inet_pton`
left, which `Reaches` leaves open.

## 3. What TLC checks

All runs switch deadlock checking off: a system in which every send has
returned and every command has ended rests.

| Run | Instance | Checks |
|---|---|---|
| `transfer_faults` | 1 transfer, 1 or 2 chunks, 2 attempts; edit, corrupt, slow, disk, busy, cancel, clean, receiver crash | `TypeOK`, `CompletedIntact`, `FailureIsHonest`, `StorageIsReal`, `KeepsPromise` |
| `transfer_line` | 1 transfer, 0 to 3 chunks, 3 attempts; refuse, connect, open, reset, slow, stall, corrupt, busy, sender crash | `AckedIsStored`, `RowsMoveForward`, `KeepsPromise` |
| `transfer_live` | 1 transfer, 0 to 2 chunks, 2 attempts, fair; all but slow, busy, refuse, cancel, clean | `ActiveCountExact`, `ListedIsRunning`, `SendReturns`, `ThreadEnds` |
| `transfer_quiet` | 2 transfers, 0 to 2 chunks, fair, no faults | `Delivered` |
| `stream` | 3 frames of 2, 1 and 1 payload cells, at most 3, 2 and 1 attempts, every cut, a timeout or a reset at any point, fair | `TypeOK`, `UntouchedIsExact`, `DeliversInOrder`, `AllArrive`, `ReaderEnds` |
| `listener` | 3 connections, 3 descriptors, queue of 2, 2 starts, 2 other files, fair | `TypeOK`, `NoFdLeak`, `PortIsReleased`, `StopReturns`, `QueueIsServed` |
| `install` | 2 installs (symmetric) at once or in turn, `shr config`, 2 ports, values of the wrong type, every fault | `TypeOK`, `ShownIsStored`, `KeysBelong`, `EnvWins`, `KeysStayPut` |
| `messaging` | 3 messages (2 received, 1 to oneself), page size 1, 2 timestamps, 2 attempts, every fault; the two received messages are symmetric | `TypeOK`, `FailureIsFinal`, `ReadWasShown`, `WalkSeesAll`, `ReadSticks` |
| `peers_races` | 2 peers, 2 addresses, 2 connects, 1 handler thread, beacon; dropped writes and lost packets | `TypeOK`, `OnlineWasSeen`, `AddressWasGiven` |
| `peers_beacon` | 1 peer, 2 addresses, 1 connect, 1 thread, beacon, hosts come and go, fair | `DeadGoesOffline` |
| `doc_all_chunks_sent` | 1 transfer, 2 chunks, slow answers | `CompleteMeansAcked`, violated (section 5) |
| `doc_install_keys` | 2 installs, one of which may die | `InstalledHasKeys`, violated (section 5) |

What the properties say:

* `CompletedIntact`: a row of the receiver says `completed` only for a file
  with the contents that the sender hashed before the offer. Stated for
  transfers that share their file name with no other.
* `FailureIsHonest`: a send that reports failure was not accepted as complete.
* `AckedIsStored`: while the receiver lives and its disk works, what it holds
  is a prefix of the source and at least what the sender counts as
  acknowledged, through retries, torn frames, dropped chunks and resets.
* `RowsMoveForward`: recorded progress never moves back and a completed row
  stays as it is. Not true with `cancel` (an older progress is written back),
  with `clean` (the row goes), or with `edit`: of a file that has grown between
  the reads of its size and its hash more is acknowledged than was offered, the
  hash matches, and the verdict goes back to the size of the offer. The run has
  no such fault. Its hazards are dropped writes, late answers, retries, and rows
  written from an older snapshot by the handlers themselves.
* `ActiveCountExact`: the slot counter is the number of sends in their loop.
* `KeepsPromise`: `Transfer` implements `Delivery`.
* `ListedIsRunning`: every way out of `send_file` records an outcome, so that
  `shr status` lists no transfer that has returned. Not true when the write that
  records it may be dropped (`busy`), which is why it is in this run.
* `StorageIsReal`: the storage `shr status` reports is what the complete files
  take up, as long as no source file has changed between the reads of its size
  and of its hash (`Described`). A file that has is received whole and accepted
  by its hash, and counted with the other size for good: that is what the code
  does (`transfer.cxx:72`, `:343`).
* `SendReturns`, `ThreadEnds`: no send and no serving thread waits for ever.
* `Delivered`: without faults every file that is not empty arrives, and both
  rows say so (two files under different names at once).
* `UntouchedIsExact`: on a connection that no timeout and no reset has touched,
  each packet handed over is the next one that was sent, whole.
* `DeliversInOrder`: `Stream` implements `FrameChannel`: what handlers accept is
  what was sent, in order, none twice and none left out.
* `AllArrive`, `ReaderEnds`: an undisturbed connection delivers everything, and
  a reader never outlives its writer for good.
* `NoFdLeak`: each open descriptor has one owner that will close it, and none
  closes a descriptor that belongs to somebody else by now.
* `PortIsReleased`: when `stop` has returned nothing listens, accepts or waits.
* `StopReturns`: `stop` returns, unless `accept` waits when the socket is closed
  and no connection ever comes again. That an idle listener holds up `stop`
  until somebody connects is what the code does on Linux; the property says that
  one connection is enough and that nothing else holds it up.
* `QueueIsServed`: a connection in the queue is served or reset.
* `ShownIsStored`: an identity that was printed is the one in `config.json`, and
  no two are ever printed, unless the write that stored it was lost or two
  installs have run at the same time (`overlap`). Without this condition it is
  false: nothing in the code keeps the second install from saving over what the
  first has shown.
* `KeysBelong`, `KeysStayPut`: two complete key files are one pair, and no
  command replaces half of it, except for commands that generate keys at the
  same moment. For these it is not true (section 5).
* `EnvWins`: `SHR_PORT` decides the port of every command whose last load has
  returned true, whatever an earlier load that failed half way has left behind.
  After a load that fails it need not (section 5).
* `FailureIsFinal`: a message reported as failed is not there and will not come.
* `ReadWasShown`, `ReadSticks`, `WalkSeesAll`: read means displayed, never
  turns unread, and following the hints shows everything that was stored when
  the reading began, whatever arrives in between.
* `OnlineWasSeen`, `AddressWasGiven`: stale rows written back never make a peer
  online that was never seen, nor give it the address of another. That an older
  address of the same peer comes back, or the address is lost, is what the code
  does and both properties allow.
* `DeadGoesOffline`: the beacon gets to mark a peer that is gone.

Why the bounds are enough. Two chunks give a first chunk (truncating open), a
later one (append) and a last one; three give a middle one, for holes and
repetitions. Two equal blocks make a repeated chunk look right locally. Two or
three attempts give a first, a middle and a last one. Two transfers are needed
for the shared file system. Three attempts at a frame of six cells give torn
parts that add up to a frame, and a frame after it to be lost or repeated. Three
descriptors are one for the listener, one to be handed out again and one more;
with two other files the table fills up. Two starts show what the first leaves
behind. Two installs give one that fails and one that repairs, and two that
meet; `shr config` does what every other command does and loads once more. The
faults of a transfer are shared out: `transfer_faults` has those that make
rows and files differ, `transfer_line` those of the line, and the theorems have
them all at once. Three messages with pages of one
give a walk of three pages with arrivals before, between and after. Two peers
are needed to confuse their rows, two connects to overtake each other. The
theorems of section 4 have no bounds.

Fairness. `WF(send_file(x))`, `WF(handle_conn(x))`: the reads of both threads
are bounded by `select` (10 s and 30 s), connecting and sending in `send_file`
by `SO_SNDTIMEO`, and a reply of `handle_conn`, whose socket has no send
timeout, is a few bytes that the socket's buffer takes; so a thread that can go
on does. `ReadFails` and `ReadPacketFails` model the timeouts; in
`transfer_live` the fault `slow` is off, so that a thread gives up only when no
answer can come any more, which is the harder case for progress. `WF(Work(t))`,
`WF(beacon_loop)`: sends are bounded by timeouts and the beacon sleeps 30 s at a
time. In `Listener`, `stop`, the accept loop, the end of a connection and the
closing of other files are weakly fair: the first two never wait for anything
but `accept` and `join`, whose conditions are guards; the other files are open
for one packet; of a connection every single read is bounded by `select`, and
that its peer stops sending some day is assumed (a peer that never does keeps
its thread for ever, `network.cxx:233`). `QueueIsServed` needs this, when the
table is full. Callers of `start` and `stop` and connecting peers are not. In
`Stream` the reader's thread runs on, and the writer closes in the end, as
`send_file` and the other callers do on every path. Nothing is assumed of users,
hosts or faults.

Every property of a passing run has a mutant in `PROJECT.json`: an operator
`Bug_...` next to the definition it replaces, a slip one could make in that
code, which TLC shows to violate the property.

## 4. What is proved

Every invariant that a passing run checks, every action property, and one of the
two refinements are theorems: for every finite set of transfers, every set of
peers, commands, messages, connections and frames, every size, limit and retry
bound. They rest on the assumptions that the modules name (`XferAssumption`,
`SizeAssumption`, ...), which say that constants have their types, that limits
are positive and that there is somebody to talk to. Where a theorem needs more,
the extra assumption is in its statement, and it is listed below.

Each type invariant is a theorem `TypeCorrect`, with one lemma or one step per
action; all but that of `Install` are inductive as they stand. Most of the other
properties are not, and need the invariants described here. TLC finds no
violation of any of these on the instances of section 3; those about transfers
hold on instances with two transfers as well.

### File transfer

`TransferProofs`, under every combination of faults:

* `TypeCorrect`. It contains the bound on retries: a chunk is attempted at most
  `RetryLimit` times.
* `CompletedTransfersAreIntact` (`CompletedIntact`). Not inductive: the hash is
  compared a step before the row is written, with a checksum that came through
  the stream. `IntactInv` follows it: before the offer there is no connection
  and an empty stream (`NotYetOffered`); every FileComplete in the stream carries
  the checksum of the offer (`StreamHonest`), and so does the one being handled
  (`PacketHonest`); between the verdict and the row the file is as hashed
  (`VerdictHolds`); and a completed row means that the thread is done with the
  file (`RowHolds`). Most steps leave a transfer `Undisturbed`, one lemma covers
  them; the others are treated one by one.
* `FailuresAreHonest` (`FailureIsHonest`), by `HonestInv`: until the sender is at
  a point where it can no longer fail, there is no FileComplete in the stream or
  in the thread's hands, no verdict and no completed row.
* `ActiveCountIsExact` (`ActiveCountExact`), inductive as it stands, with the
  cardinality lemmas for adding and removing an element.

`DeliveryProofs`, under every combination of faults:

* `TransferKeepsPromise` (`KeepsPromise`): initial states map to initial states,
  and each action of the sender, the receiver and the environment to one step of
  `Delivery` or to a stutter. `IntactInv` gives that only a file with the
  announced hash is accepted and that nothing writes to it afterwards,
  `HonestInv` that no failed send is; `Unannounced` adds that nothing was
  announced before the send began.

`ProgressProofs` rests on the course of the conversation. `Flow` says that a
connection holds at most one question (offer or chunk) or one answer, and none
while the sender is not waiting (`OneAtATime`); that the question is the one the
sender is asking now, or asked when it ended (`Questions`); and what the sender
has in hand for it (`Sending`, `Unpaused`). This is where torn frames and
`Resync` have to be dealt with: whatever the reader makes of them, no old
question is read twice. `Flow` needs that nobody rewrites the source (`edit`).

* `AcknowledgedIsStored` (`AckedIsStored`), assuming `Steady`: `edit`, `disk` and
  `crashR` are not among the faults. The property speaks of a receiver that
  lives and whose disk works; with any of the three it is false, which is why
  the receiver compares the hash of the whole file. `StoredInv`: the receiver
  holds what is acknowledged or one chunk more, and which of the two follows
  from where the question or the answer is.
* `RowsOnlyMoveForward` (`RowsMoveForward`), assuming `LeftAlone`: no `cancel`,
  `clean` or `edit`. With any of the three it is false (section 3; TLC finds the
  violation with `edit` alone). `Rows`: the sender's row is
  never ahead of the sender, the receiver's by one chunk at most, and an offer
  finds it at zero.
* `ListedTransfersRun` (`ListedIsRunning`), assuming that no write is dropped
  (`busy`): the outcome that `send_file` records is the only trace of its end,
  and with `busy` it may be lost. The invariant `Recorded` is the property
  without its reference to what is listed.
* `ReportedStorageIsReal` (`StorageIsReal`), under every combination of faults,
  for sources that do not change between the reads of their size and their hash,
  which is part of the property. `SizeInv` carries the announced size from the
  offer to the row, `IntactInv` the hash to the file, and `Described` joins the
  two; lemma `SumsEqual` says that a sum over a finite set depends on its
  summands only, which the library has no theorem for.

### Packet streams

`StreamProofs`: `TypeCorrect`, and `UntouchedConnectionIsExact`
(`UntouchedIsExact`) for frames of any size and every cut. The invariant `Exact`
lays out the reader's buffer, the stream and the cell the writer sends next in
one row (`Way`) and says that it starts at the next frame and that each cell is
followed by the one that follows it in the frames (`Leads`), so that a header is
complete after four cells and a payload where the next magic number stands.
Three lemmas (`Extend`, `Drop`, `HandedOver`) say what a piece written, a piece
read and a packet taken off do to such a row.

### Listener

`ListenerProofs`: `TypeCorrect`, `DescriptorsAreOwned` (`NoFdLeak`) and
`StoppedReleasesPort` (`PortIsReleased`). `ListenInv` adds what the thread that
calls `start` and `stop` knows about the descriptor table in each of its steps
(`Phases`), that a descriptor of a connection is the one its thread was given
(`OwnedByThread`), and that the queue holds waiting connections, each once, and
none after the socket is gone (`QueueHonest`). Nothing is needed about the value
of `listen_sock_` that the accept thread has read: a stale one can make `accept`
fail and nothing else.

### Installation, configuration and keys

`InstallProofs`, for any number of commands in any interleaving, crashes and
failures:

* `TypeCorrect`, with `Identified`: a command past its initialisation has an
  identity.
* `EnvironmentWins` (`EnvWins`), inductive with the type: every load that returns
  true ends with the environment, and no other step sets a port or `loaded`.
* `KeysBelongTogether` (`KeysBelong`) and `KeyPairStays` (`KeysStayPut`), with
  installs at once. `KeysInv`: past their opens both files exist (`Opened`); those
  who make keys know of each other and of the one whose key is in a file, since a
  command that came later would have found the files (`Acquainted`); and a
  private key is the last thing a command writes to them (`Written`).
* `ShownIdentityIsStored` (`ShownIsStored`), for any interleaving: once two
  installs have met, `overlap` holds for good (`OverlapStays`) and the property
  says nothing more; until then `InstallInv` is an invariant: at most one
  install is past its load (`OneInstall`); only installs get to where files are
  written (`OnlyInstalls`); there is a configuration only where there are key
  files (`HaveKeys`), which is why `init_app` of other commands never makes any;
  and what whoever makes keys (`Maker`), saves (`Saving`) or has loaded
  (`Knowing`) knows about the files.

### Messaging

`MessagingProofs`, for any number of messages, nodes, pages and faults:

* `TypeCorrect` and `ReadingSticks` (`ReadSticks`);
* `FailuresAreFinal` (`FailureIsFinal`), by `Unsent`: as long as a send may still
  fail there is neither frame nor row;
* `ReadMessagesWereShown` (`ReadWasShown`), by `HeadShown`: the row that the
  command is about to mark has been printed;
* `WalkingSeesAll` (`WalkSeesAll`), by `Walk`: what is still to be seen is on the
  page being shown or on a later one. A row's place in the inbox is the number of
  rows above it (`Rank`), and this number never falls, because rows are added,
  and neither removed nor given another timestamp. What `get_inbox` returns is
  characterised by this number too, so that sorting is not reasoned about by
  induction.

### Peers

`PeersProofs`, for any number of peers, commands and threads: `TypeCorrect`,
`OnlinePeersWereSeen` (`OnlineWasSeen`) and `AddressesWereGiven`
(`AddressWasGiven`), by `GivenInv`: the property has to hold of every copy of a
row that a command, a thread or the beacon has in hand, for the peer the copy
will be written to. That is what a row read for one peer and written to another
would break (mutant `Bug_WrongRow`).

### Only model-checked

* Liveness: `SendReturns`, `ThreadEnds`, `Delivered`, `DeadGoesOffline`,
  `StopReturns`, `QueueIsServed`, `AllArrive`, `ReaderEnds`. Fairness and ENABLED
  are out of the prover's reach.
* `DeliversInOrder`, the refinement of `FrameChannel` for connections that are
  torn. What the reader makes of torn parts depends on which of them add up to a
  frame, and the mapping selects the accepted packets with a recursive operator:
  both need induction over data. `UntouchedConnectionIsExact` proves what it says
  of connections that are not torn.
* The properties of section 5, which are violated.

## 5. Where the code and its documentation part

Runs that TLC refutes, each with a finding in `PROJECT.json`:

* `doc_all_chunks_sent`: a late acknowledgement ends the loop, and the sender
  sends FileComplete and records `completed` although chunks are missing
  ("All chunks sent", `README.md:532`). The receiver notices by the hash; the
  sender's user does not.
* `doc_install_keys`: an install that dies while it writes the keys leaves them
  empty; the next install finds both files, does not look at their length, and
  reports success ("Curve25519 keypair generated at install time and stored
  locally", `README.md:68`). The obvious repair, to generate again what is not
  complete, would let a second install replace the pair that a first one has
  opened and not yet written, as long as nothing is locked. `InstalledHasKeys`
  leaves out installs that overlap, where a second may save its configuration
  before the first has written the keys.

Seen while modelling and visible in the definitions, without a run of their own:

* two commands that generate keys at once may leave the private key of one
  beside the public key of the other, since nothing is locked ("Safe to run if
  already installed", `README.md:255`);
* when a value of `config.json` behind the port has the wrong type, `load`
  throws after it has set the port and before it applies the environment again,
  and `shr config` prints that port over `SHR_PORT` (`config.cxx:63`;
  "Environment variables take precedence over the config file",
  `README.md:489`);
* the counter of concurrent sends belongs to one process, and every `shr send`
  is a process ("Up to 5 concurrent outbound transfers", `README.md:304`), and
  inside one process the test (`transfer.cxx:67`) and the increment (`:143`) are
  two steps;
* a lost connection leaves `failed`, and nothing ever writes `paused`, so that
  nothing is resumed (`README.md:303`);
* the hash of a file that cannot be opened is the empty string on either side
  (`utils.cxx:85`), and if both fail, the receiver records a transfer as
  completed of which it has no file (`README.md:321`);
* an empty file is marked `failed`, since no chunk creates it and the hash of a
  missing file is not that of an empty one (`README.md:321`);
* a file that changes between the reads of its size and its hash keeps the wrong
  size in the rows of both nodes;
* the values of `max_concurrent` and `retry_limit` in `config.json` are printed
  by `shr config` and not used otherwise;
* a file of the same name replaces one already received;
* a chunk is acknowledged before the stream is flushed;
* `MsgAck` is never read, so a lost message is reported as delivered
  (`README.md:329`);
* the inbox also shows what its owner has sent (`README.md:341`);
* `ping_peer` and the beacon write back old addresses;
* `handle_announce` erases the address;
* a crash between the truncation and the write of `config.json` leaves an empty
  file, after which every command fails, `install` too;
* a `SHR_PORT` that is set during `install` is stored for good.

## 6. What is not modelled

* base64, CBOR and JSON, and the bytes inside a field: a packet is a record, a
  frame a sequence of fields. A packet pieced together from two frames does not
  decode, or its chunk fails the checksum.
* The cryptography (key exchange, AES-GCM, HMAC): calls of a library that no
  packet path uses. Only the files of the key store are modelled.
* UDP discovery: only the sending half exists.
* Sending a file to oneself (sender and receiver would share one table), and two
  transfers under one name, about which the properties say nothing: the code
  lets them overwrite each other.
* `start` called twice without `stop`, and descriptors beyond `FD_SETSIZE` in
  `select`, which are undefined.
* A file of that name which the receiver already has when the first transfer
  starts: `AckedIsStored` begins with none (the first chunk truncates it), and
  so does `CompletedIntact`.
* A file that is edited while it is being hashed or while one chunk of it is
  read: each of these is one step.
* The buffer of `std::cout`: a message counts as displayed when it is printed,
  although with a pipe for standard output it may reach it after the row was
  marked (`main.cxx:187`).
* Page numbers so large that `(page - 1) * page_size` overflows.
* Winsock variants, printed text, argument parsing, formatting helpers, the
  logger.

## 7. Plan

Done, in this order: file transfer (state, sender, receiver, environment), its
runs, messaging, peers; then installation and keys, the listener, streams below
the level of packets with `FrameChannel`, the promise of a transfer (`Delivery`)
with the refinement, and `Status`; then the proofs of section 4, component by
component.

What would be worth doing next:

1. `FlowFor` for files that are edited: a question is then apt for the block that
   was read, not for the one in the file.
2. The torn part of `DeliversInOrder`: an invariant that says which parts of
   which frames can be in the stream behind the first tear, for a chunk that is
   sent at most twice, and a mapping without recursion.
3. The step from `Stream` to the streams of `TransferState`: `Resync` and
   `ReadPacketFails` are justified by `Stream` on small instances, in words. A
   refinement would make `toR` the image of a `Stream`.
