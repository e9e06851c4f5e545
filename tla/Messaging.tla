----------------------------- MODULE Messaging -----------------------------
(***************************************************************************)
(* Text messages: `shr msg` sends one, the receiving process stores it,    *)
(* and `shr inbox` shows the messages table page by page and marks what it *)
(* has shown as read. Each message is sent by a process of its own.        *)
(***************************************************************************)
EXTENDS Naturals, Sequences, FiniteSets

CONSTANTS
    Node,           \* installations of shr
    Msg,            \* messages: one invocation of send_msg, with its fresh uuid
    Sender, Rcpt,   \* the node that sends a message and the one it is sent to
    Reader,         \* nodes whose user reads the inbox
    Stamp,          \* timestamps; the clocks of two nodes need not agree
    PageSize,       \* messages per page of the inbox
    RetryLimit,     \* SHR_RETRY_LIMIT
    Faults          \* the faults the environment may inject

FaultKinds ==
    { "refuse",     \* bad recipient, empty message, unknown peer
      "connect",    \* connect_to fails, or send() fails before the frame is out
      "reset",      \* a frame handed to the kernel never arrives
      "busy",       \* SQLITE_BUSY: a write to the table is dropped
      "crash",      \* a sending or receiving process dies
      "abort" }     \* the inbox command is interrupted

ASSUME PartiesAssumption ==
    Sender \in [Msg -> Node] /\ Rcpt \in [Msg -> Node] /\ Reader \subseteq Node
ASSUME LimitsAssumption == PageSize \in Nat \ {0} /\ RetryLimit \in Nat \ {0}
ASSUME StampAssumption == Stamp \subseteq Nat /\ Stamp # {} /\ Faults \subseteq FaultKinds

VARIABLES
    mpc,            \* where send_msg is
    attempt,        \* its loop counter, 0 outside the loop
    stamp,          \* the timestamp it put into the message
    frame,          \* the frame: "none", "sent", "handled" or "lost"
    up,             \* is the node's process listening?
    db,             \* the messages table: rows in the order of their rowid
    inbox,          \* the inbox command of a node
    shown           \* messages a node has displayed

vars == <<mpc, attempt, stamp, frame, up, db, inbox, shown>>
----------------------------------------------------------------------------
(* The messages table.                                                     *)
Row == [id : Msg, read : BOOLEAN]
Ids(t) == {t[i].id : i \in 1..Len(t)}

\* A mutant of insert_message: INSERT OR REPLACE, which also gives the row a
\* new rowid.
Bug_Replace(t, m, r) ==
    Append(SelectSeq(t, LAMBDA w : w.id # m), [id |-> m, read |-> r])

insert_message(t, m, r) ==
    IF m \in Ids(t) THEN t ELSE Append(t, [id |-> m, read |-> r])

\* A mutant of mark_message_read: the WHERE clause is missing.
Bug_MarkAll(t, m) == [i \in 1..Len(t) |-> [t[i] EXCEPT !.read = TRUE]]

mark_message_read(t, m) ==
    [i \in 1..Len(t) |-> [t[i] EXCEPT !.read = @ \/ t[i].id = m]]

\* ORDER BY timestamp DESC; the index yields equal timestamps by rowid.
Before(t, i, j) ==
    \/ stamp[t[i].id] > stamp[t[j].id]
    \/ stamp[t[i].id] = stamp[t[j].id] /\ i < j

Sorted(t) ==
    [k \in 1..Len(t) |->
        t[CHOOSE i \in 1..Len(t) :
            Cardinality({j \in 1..Len(t) : Before(t, j, i)}) = k - 1]]

\* A mutant of get_inbox: OFFSET page * page_size.
Bug_Offset(t, page) ==
    SubSeq(Sorted(t), page * PageSize + 1,
           IF (page + 1) * PageSize < Len(t) THEN (page + 1) * PageSize ELSE Len(t))

\* SubSeq is cut at the end of the table, as LIMIT is.
get_inbox(t, page) ==
    SubSeq(Sorted(t), (page - 1) * PageSize + 1,
           IF page * PageSize < Len(t) THEN page * PageSize ELSE Len(t))

\* sqlite3_step's result is ignored and no busy timeout is set.
Write(n, t) == \/ db' = [db EXCEPT ![n] = t]
               \/ "busy" \in Faults /\ UNCHANGED db
----------------------------------------------------------------------------
(* send_msg.                                                               *)
MsgRefused(m) ==
    /\ mpc[m] = "idle"
    /\ "refuse" \in Faults
    /\ mpc' = [mpc EXCEPT ![m] = "failed"]
    /\ UNCHANGED <<attempt, stamp, frame, up, db, inbox, shown>>

MsgBegin(m) ==
    /\ mpc[m] = "idle"
    /\ \E ts \in Stamp : stamp' = [stamp EXCEPT ![m] = ts]
    /\ mpc' = [mpc EXCEPT ![m] = "try"]
    /\ UNCHANGED <<attempt, frame, up, db, inbox, shown>>

\* A mutant of SendPacket: the sender waits for MsgAck, and retries when the
\* acknowledgement is lost. The frame may be out although the attempt fails.
Bug_WaitForAck(m) ==
    /\ mpc[m] = "try"
    /\ up[Rcpt[m]]
    /\ frame' = [frame EXCEPT ![m] = "sent"]
    /\ mpc' \in {[mpc EXCEPT ![m] = "record"], [mpc EXCEPT ![m] = "failed"]}
    /\ attempt' = [attempt EXCEPT ![m] = 0]
    /\ UNCHANGED <<stamp, up, db, inbox, shown>>

\* An attempt succeeds: connect, the whole frame handed to the kernel, close.
\* The MsgAck the receiver writes is never read.
SendPacket(m) ==
    /\ mpc[m] = "try"
    /\ up[Rcpt[m]]
    /\ frame' = [frame EXCEPT ![m] = "sent"]
    /\ mpc' = [mpc EXCEPT ![m] = "record"]
    /\ attempt' = [attempt EXCEPT ![m] = 0]
    /\ UNCHANGED <<stamp, up, db, inbox, shown>>

\* A mutant of RetryLeft: one attempt too many.
Bug_ExtraAttempt(m) == attempt[m] < RetryLimit

RetryLeft(m) == attempt[m] + 1 < RetryLimit

\* An attempt fails: no connection, or only a part of the frame is written,
\* which the receiver's read_packet rejects.
SendPacketFails(m) ==
    /\ mpc[m] = "try"
    /\ ~up[Rcpt[m]] \/ "connect" \in Faults
    /\ IF RetryLeft(m)
       THEN attempt' = [attempt EXCEPT ![m] = @ + 1] /\ UNCHANGED mpc
       ELSE /\ mpc' = [mpc EXCEPT ![m] = "failed"]
            /\ attempt' = [attempt EXCEPT ![m] = 0]
    /\ UNCHANGED <<stamp, frame, up, db, inbox, shown>>

\* The sender's own copy, already read.
RecordOwn(m) ==
    /\ mpc[m] = "record"
    /\ Write(Sender[m], insert_message(db[Sender[m]], m, TRUE))
    /\ mpc' = [mpc EXCEPT ![m] = "sent"]
    /\ UNCHANGED <<attempt, stamp, frame, up, inbox, shown>>

send_msg(m) ==
    \/ MsgRefused(m) \/ MsgBegin(m) \/ SendPacket(m)
    \/ SendPacketFails(m) \/ RecordOwn(m)

handle_msg_receive(m) ==
    /\ frame[m] = "sent"
    /\ up[Rcpt[m]]
    /\ Write(Rcpt[m], insert_message(db[Rcpt[m]], m, FALSE))
    /\ frame' = [frame EXCEPT ![m] = "handled"]
    /\ UNCHANGED <<mpc, attempt, stamp, up, inbox, shown>>
----------------------------------------------------------------------------
(* cmd_inbox. "page" is 0 when the user is not reading; "must" are the     *)
(* messages that were in the table when page 1 was opened and that have    *)
(* not been displayed since. "print" says whether the head of the list is  *)
(* still to be printed.                                                    *)
Closed == [page |-> 0, list |-> <<>>, full |-> FALSE, print |-> FALSE, must |-> {}]

\* The user opens page 1, or the next page when told that there is more.
InboxOpen(n) ==
    /\ inbox[n].list = <<>>
    /\ \E page \in {1} \cup {p \in {inbox[n].page + 1} : inbox[n].full} :
          LET msgs == get_inbox(db[n], page)
          IN  inbox' = [inbox EXCEPT ![n] =
                  [page |-> page,
                   list |-> msgs,
                   full |-> Len(msgs) = PageSize,
                   print |-> TRUE,
                   must |-> IF page = 1 THEN Ids(db[n]) ELSE inbox[n].must]]
    /\ UNCHANGED <<mpc, attempt, stamp, frame, up, db, shown>>

InboxPrint(n) ==
    /\ inbox[n].list # <<>>
    /\ inbox[n].print
    /\ LET m == Head(inbox[n].list).id
       IN  /\ shown' = [shown EXCEPT ![n] = @ \cup {m}]
           /\ inbox' = [inbox EXCEPT ![n].print = FALSE, ![n].must = @ \ {m}]
    /\ UNCHANGED <<mpc, attempt, stamp, frame, up, db>>

\* Marked by id, if the row was unread when the page was read.
InboxMark(n) ==
    /\ inbox[n].list # <<>>
    /\ ~inbox[n].print
    /\ LET m == Head(inbox[n].list)
       IN  IF m.read THEN UNCHANGED db
           ELSE Write(n, mark_message_read(db[n], m.id))
    /\ inbox' = [inbox EXCEPT ![n].list = Tail(@), ![n].print = TRUE]
    /\ UNCHANGED <<mpc, attempt, stamp, frame, up, shown>>

cmd_inbox(n) == InboxOpen(n) \/ InboxPrint(n) \/ InboxMark(n)
----------------------------------------------------------------------------
(* The environment.                                                        *)
InboxAbort(n) ==
    /\ "abort" \in Faults
    /\ inbox[n].page # 0
    /\ inbox' = [inbox EXCEPT ![n] = Closed]
    /\ UNCHANGED <<mpc, attempt, stamp, frame, up, db, shown>>

LoseFrame(m) ==
    /\ "reset" \in Faults
    /\ frame[m] = "sent"
    /\ frame' = [frame EXCEPT ![m] = "lost"]
    /\ UNCHANGED <<mpc, attempt, stamp, up, db, inbox, shown>>

SenderCrash(m) ==
    /\ "crash" \in Faults
    /\ mpc[m] \in {"try", "record"}
    /\ mpc' = [mpc EXCEPT ![m] = "crashed"]
    /\ attempt' = [attempt EXCEPT ![m] = 0]
    /\ UNCHANGED <<stamp, frame, up, db, inbox, shown>>

ReceiverCrash(n) ==
    /\ "crash" \in Faults
    /\ up[n]
    /\ up' = [up EXCEPT ![n] = FALSE]
    /\ frame' = [m \in Msg |-> IF Rcpt[m] = n /\ frame[m] = "sent"
                               THEN "lost" ELSE frame[m]]
    /\ UNCHANGED <<mpc, attempt, stamp, db, inbox, shown>>

ReceiverRestart(n) ==
    /\ ~up[n]
    /\ up' = [up EXCEPT ![n] = TRUE]
    /\ UNCHANGED <<mpc, attempt, stamp, frame, db, inbox, shown>>

Init ==
    /\ mpc = [m \in Msg |-> "idle"]
    /\ attempt = [m \in Msg |-> 0]
    /\ stamp = [m \in Msg |-> 0]
    /\ frame = [m \in Msg |-> "none"]
    /\ up = [n \in Node |-> TRUE]
    /\ db = [n \in Node |-> <<>>]
    /\ inbox = [n \in Node |-> Closed]
    /\ shown = [n \in Node |-> {}]

Next ==
    \/ \E m \in Msg : \/ send_msg(m) \/ handle_msg_receive(m)
                      \/ LoseFrame(m) \/ SenderCrash(m)
    \/ \E n \in Reader : cmd_inbox(n) \/ InboxAbort(n)
    \/ \E n \in {Rcpt[m] : m \in Msg} : ReceiverCrash(n) \/ ReceiverRestart(n)

Spec == Init /\ [][Next]_vars
----------------------------------------------------------------------------
(* Properties.                                                             *)
TypeOK ==
    /\ mpc \in [Msg -> {"idle", "try", "record", "sent", "failed", "crashed"}]
    /\ attempt \in [Msg -> 0..RetryLimit - 1]
    /\ stamp \in [Msg -> Nat]
    /\ frame \in [Msg -> {"none", "sent", "handled", "lost"}]
    /\ up \in [Node -> BOOLEAN]
    /\ db \in [Node -> Seq(Row)]
    /\ inbox \in [Node -> [page : Nat, list : Seq(Row), full : BOOLEAN,
                           print : BOOLEAN, must : SUBSET Msg]]
    /\ shown \in [Node -> SUBSET Msg]

\* When `shr msg` exits with an error, the recipient does not have the message
\* and will not get it: sending it again does not show it twice. (A failed
\* attempt has not written the whole frame.)
FailureIsFinal ==
    \A m \in Msg : mpc[m] = "failed"
                    => frame[m] = "none" /\ m \notin Ids(db[Rcpt[m]])

\* A message that is marked read in the recipient's table has been displayed
\* there, wherever the inbox command was interrupted. (A message to oneself is
\* stored as the sender's own copy, already read.)
ReadWasShown ==
    \A n \in Node : \A i \in 1..Len(db[n]) :
        LET m == db[n][i].id
        IN  db[n][i].read /\ Sender[m] # n => m \in shown[n]

\* A message is never unread again, and a row keeps its place in the table,
\* even if the message is stored a second time.
ReadSticks ==
    [][\A n \in Node : \A i \in 1..Len(db[n]) :
        /\ Len(db'[n]) >= Len(db[n])
        /\ db'[n][i].id = db[n][i].id
        /\ db[n][i].read => db'[n][i].read]_vars

\* A user who reads page after page as long as cmd_inbox says that there is
\* more sees every message that was stored when the reading began, whatever
\* arrives in between and with whatever timestamp.
WalkSeesAll ==
    \A n \in Node :
        inbox[n].page > 0 /\ inbox[n].list = <<>> /\ ~inbox[n].full
        => inbox[n].must = {}
============================================================================
