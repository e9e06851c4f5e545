------------------------------ MODULE Listener ------------------------------
(***************************************************************************)
(* The life of the listening socket: Network::start, Network::stop, the    *)
(* accept thread and the detached thread that serves each connection. They *)
(* share the descriptor table of the process, the flag running_ and        *)
(* listen_sock_, which stop() writes while the accept thread reads it.     *)
(***************************************************************************)
EXTENDS Integers, Sequences, FiniteSets

CONSTANTS
    Client,         \* connections that peers try to make
    MaxFd,          \* size of the descriptor table
    Backlog,        \* queue length given to listen()
    MaxStarts,      \* bound: calls of start()
    MaxOther        \* bound: files and sockets the other threads open

Fd == 1..MaxFd
INVALID_SOCK == -1

ASSUME BoundAssumption ==
    MaxFd \in Nat /\ Backlog \in Nat \ {0} /\ MaxStarts \in Nat /\ MaxOther \in Nat

VARIABLES
    mpc,            \* where the thread that calls start() and stop() is
    running,        \* running_
    listen_sock,    \* listen_sock_
    fds,            \* the descriptor table: what each descriptor refers to
    apc,            \* where the accept thread is
    afd,            \* the descriptor it has read from listen_sock_
    backlog,        \* connections that wait to be accepted
    cst,            \* what has become of each connection
    hfd,            \* the descriptor handed to its thread, 0 before
    starts, others  \* how often start() was called, and a file opened

vars == <<mpc, running, listen_sock, fds, apc, afd, backlog, cst, hfd,
          starts, others>>

Use(kind) == [kind |-> kind]
Conn(c) == [kind |-> "conn", of |-> c]
Free == {f \in Fd : fds[f] = Use("free")}

\* The kernel hands out the lowest descriptor that is free.
Lowest(f) == f \in Free /\ \A g \in Free : f <= g

\* The kernel resets what is still queued when the socket goes away.
Dropped == [c \in Client |-> IF cst[c] = "queued" THEN "refused" ELSE cst[c]]

\* The socket lives as long as its descriptor, or a call of accept(), refers to
\* it; a call that returns leaves it to the descriptor.
SocketKept == \E f \in Fd : fds[f] = Use("listen")
Listening == SocketKept \/ apc = "blocked"
AfterCall == IF SocketKept THEN cst ELSE Dropped
----------------------------------------------------------------------------
(* Network::start.                                                         *)

StartSocket(f) ==
    /\ mpc = "down"
    /\ starts < MaxStarts
    /\ Lowest(f)
    /\ fds' = [fds EXCEPT ![f] = Use("socket")]
    /\ listen_sock' = f
    /\ starts' = starts + 1
    /\ mpc' = "binding"
    /\ UNCHANGED <<running, apc, afd, backlog, cst, hfd, others>>

\* bind() or listen() fails. (When socket() fails nothing has changed.)
BindFails ==
    /\ mpc = "binding"
    /\ fds' = [fds EXCEPT ![listen_sock] = Use("free")]
    /\ listen_sock' = INVALID_SOCK
    /\ mpc' = "down"
    /\ UNCHANGED <<running, apc, afd, backlog, cst, hfd, starts, others>>

StartListening ==
    /\ mpc = "binding"
    /\ fds' = [fds EXCEPT ![listen_sock] = Use("listen")]
    /\ running' = TRUE
    /\ apc' = "check"
    /\ mpc' = "up"
    /\ UNCHANGED <<listen_sock, afd, backlog, cst, hfd, starts, others>>
----------------------------------------------------------------------------
(* Network::stop.                                                          *)

\* A mutant of StopFlag: the accept thread is never told to end.
Bug_FlagKept ==
    /\ mpc = "up"
    /\ mpc' = "closing"
    /\ UNCHANGED <<running, listen_sock, fds, apc, afd, backlog, cst, hfd,
                   starts, others>>

StopFlag ==
    /\ mpc = "up"
    /\ running' = FALSE
    /\ mpc' = "closing"
    /\ UNCHANGED <<listen_sock, fds, apc, afd, backlog, cst, hfd, starts, others>>

\* close() frees the descriptor at once. A thread blocked in accept() goes on
\* waiting, and keeps the socket (Linux), or its call fails (elsewhere).
StopClose ==
    /\ mpc = "closing"
    /\ fds' = [fds EXCEPT ![listen_sock] = Use("free")]
    /\ \/ apc = "blocked" /\ UNCHANGED <<apc, backlog, cst>>
       \/ /\ apc' = IF apc = "blocked" THEN "failed" ELSE apc
          /\ backlog' = <<>>
          /\ cst' = Dropped
    /\ mpc' = "clearing"
    /\ UNCHANGED <<running, listen_sock, afd, hfd, starts, others>>

StopClear ==
    /\ mpc = "clearing"
    /\ listen_sock' = INVALID_SOCK
    /\ mpc' = "joining"
    /\ UNCHANGED <<running, fds, apc, afd, backlog, cst, hfd, starts, others>>

\* A mutant of Join: the thread is detached.
Bug_Detached ==
    /\ mpc = "joining"
    /\ mpc' = "down"
    /\ UNCHANGED <<running, listen_sock, fds, apc, afd, backlog, cst, hfd,
                   starts, others>>

Join ==
    /\ mpc = "joining"
    /\ apc = "exit"
    /\ apc' = "none"
    /\ mpc' = "down"
    /\ UNCHANGED <<running, listen_sock, fds, afd, backlog, cst, hfd, starts,
                   others>>
----------------------------------------------------------------------------
(* Network::accept_loop.                                                   *)

CheckRunning ==
    /\ apc = "check"
    /\ apc' = IF running THEN "load" ELSE "exit"
    /\ UNCHANGED <<mpc, running, listen_sock, fds, afd, backlog, cst, hfd,
                   starts, others>>

\* listen_sock_ is read while stop() may be about to close it, to clear it, or
\* have done so: a data race, the old or the new value is seen.
LoadListenSock ==
    /\ apc = "load"
    /\ afd' = listen_sock
    /\ apc' = "enter"
    /\ UNCHANGED <<mpc, running, listen_sock, fds, backlog, cst, hfd, starts,
                   others>>

\* The descriptor is looked up. Meanwhile it may have been closed, and may
\* even name another file.
EnterAccept ==
    /\ apc = "enter"
    /\ apc' = IF afd \in Fd /\ fds[afd] = Use("listen") THEN "blocked" ELSE "failed"
    /\ UNCHANGED <<mpc, running, listen_sock, fds, afd, backlog, cst, hfd,
                   starts, others>>

\* The call takes the first connection, which gets a thread of its own. The
\* socket goes away with the call when its descriptor has been closed.
Accept(f) ==
    /\ apc = "blocked"
    /\ backlog # <<>>
    /\ Lowest(f)
    /\ LET c == Head(backlog)
       IN  /\ fds' = [fds EXCEPT ![f] = Conn(c)]
           /\ hfd' = [hfd EXCEPT ![c] = f]
           /\ backlog' = IF SocketKept THEN Tail(backlog) ELSE <<>>
           /\ cst' = [AfterCall EXCEPT ![c] = "open"]
    /\ apc' = "check"
    /\ UNCHANGED <<mpc, running, listen_sock, afd, starts, others>>

\* A mutant of AcceptNoFd: the result of accept() is not looked at.
Bug_InvalidServed ==
    /\ apc = "blocked"
    /\ backlog # <<>>
    /\ Free = {}
    /\ LET c == Head(backlog)
       IN  /\ hfd' = [hfd EXCEPT ![c] = INVALID_SOCK]
           /\ backlog' = Tail(backlog)
           /\ cst' = [cst EXCEPT ![c] = "served"]
    /\ apc' = "check"
    /\ UNCHANGED <<mpc, running, listen_sock, fds, afd, starts, others>>

\* EMFILE: the connection stays in the queue, if there still is one.
AcceptNoFd ==
    /\ apc = "blocked"
    /\ backlog # <<>>
    /\ Free = {}
    /\ backlog' = IF SocketKept THEN backlog ELSE <<>>
    /\ cst' = AfterCall
    /\ apc' = "failed"
    /\ UNCHANGED <<mpc, running, listen_sock, fds, afd, hfd, starts, others>>

\* A mutant of AcceptFailed: the loop is left instead of continued.
Bug_LoopLeft ==
    /\ apc = "failed"
    /\ apc' = "exit"
    /\ UNCHANGED <<mpc, running, listen_sock, fds, afd, backlog, cst, hfd,
                   starts, others>>

\* "accept() failed": continue.
AcceptFailed ==
    /\ apc = "failed"
    /\ apc' = "check"
    /\ UNCHANGED <<mpc, running, listen_sock, fds, afd, backlog, cst, hfd,
                   starts, others>>

accept_loop ==
    \/ CheckRunning \/ LoadListenSock \/ EnterAccept \/ AcceptNoFd \/ AcceptFailed
    \/ \E f \in Fd : Accept(f)
----------------------------------------------------------------------------
(* Network::handle_conn, and everybody else.                               *)

\* A mutant of ConnEnds: a way out of the loop that misses CLOSE_SOCK.
Bug_ConnKept(c) ==
    /\ cst[c] = "open"
    /\ cst' = [cst EXCEPT ![c] = "served"]
    /\ UNCHANGED <<mpc, running, listen_sock, fds, apc, afd, backlog, hfd,
                   starts, others>>

\* The loop of handle_conn is left, by a read that fails or a last packet,
\* whether the listener is still there or not.
ConnEnds(c) ==
    /\ cst[c] = "open"
    /\ cst' = [cst EXCEPT ![c] = "served"]
    /\ fds' = [fds EXCEPT ![hfd[c]] = Use("free")]
    /\ UNCHANGED <<mpc, running, listen_sock, apc, afd, backlog, hfd, starts,
                   others>>

\* A peer connects.
Connect(c) ==
    /\ cst[c] = "idle"
    /\ IF Listening /\ Len(backlog) < Backlog
       THEN /\ backlog' = Append(backlog, c)
            /\ cst' = [cst EXCEPT ![c] = "queued"]
       ELSE /\ cst' = [cst EXCEPT ![c] = "refused"]
            /\ UNCHANGED backlog
    /\ UNCHANGED <<mpc, running, listen_sock, fds, apc, afd, hfd, starts, others>>

\* The other threads open files and sockets, and close them.
OtherOpen(f) ==
    /\ others < MaxOther
    /\ Lowest(f)
    /\ fds' = [fds EXCEPT ![f] = Use("other")]
    /\ others' = others + 1
    /\ UNCHANGED <<mpc, running, listen_sock, apc, afd, backlog, cst, hfd, starts>>

OtherClose(f) ==
    /\ fds[f] = Use("other")
    /\ fds' = [fds EXCEPT ![f] = Use("free")]
    /\ UNCHANGED <<mpc, running, listen_sock, apc, afd, backlog, cst, hfd,
                   starts, others>>

Init ==
    /\ mpc = "down"
    /\ running = FALSE
    /\ listen_sock = INVALID_SOCK
    /\ fds = [f \in Fd |-> Use("free")]
    /\ apc = "none"
    /\ afd = INVALID_SOCK
    /\ backlog = <<>>
    /\ cst = [c \in Client |-> "idle"]
    /\ hfd = [c \in Client |-> 0]
    /\ starts = 0
    /\ others = 0

stop == StopClose \/ StopClear \/ Join

Next ==
    \/ BindFails \/ StartListening \/ StopFlag \/ stop \/ accept_loop
    \/ \E f \in Fd : StartSocket(f) \/ OtherOpen(f) \/ OtherClose(f)
    \/ \E c \in Client : ConnEnds(c) \/ Connect(c)

Spec == Init /\ [][Next]_vars

\* stop() and the accept loop run on. Every read of handle_conn is bounded by
\* select, so a connection ends once its peer stops sending, which is assumed of
\* every peer; the other files are open for one packet.
FairSpec ==
    /\ Spec
    /\ WF_vars(stop) /\ WF_vars(accept_loop)
    /\ \A c \in Client : WF_vars(ConnEnds(c))
    /\ \A f \in Fd : WF_vars(OtherClose(f))
----------------------------------------------------------------------------
(* Properties.                                                             *)

TypeOK ==
    /\ mpc \in {"down", "binding", "up", "closing", "clearing", "joining"}
    /\ running \in BOOLEAN
    /\ listen_sock \in Fd \cup {INVALID_SOCK}
    /\ fds \in [Fd -> {Use(k) : k \in {"free", "socket", "listen", "other"}}
                      \cup {Conn(c) : c \in Client}]
    /\ apc \in {"none", "check", "load", "enter", "blocked", "failed", "exit"}
    /\ afd \in Fd \cup {INVALID_SOCK}
    /\ backlog \in Seq(Client) /\ Len(backlog) <= Backlog
    /\ cst \in [Client -> {"idle", "queued", "open", "served", "refused"}]
    /\ hfd \in [Client -> Fd \cup {0}]
    /\ starts \in 0..MaxStarts
    /\ others \in 0..MaxOther

\* Every descriptor has exactly one owner that will close it: a connection its
\* thread, the listening socket listen_sock_. None is leaked by a failed start,
\* a stop that overtakes accept() or a thread that ends late, and none that was
\* handed out again is closed by the owner it had before.
NoFdLeak ==
    /\ \A f \in Fd : fds[f].kind \in {"socket", "listen"} => listen_sock = f
    /\ \A f \in Fd : fds[f].kind = "conn" => cst[fds[f].of] = "open"
    /\ \A c \in Client : cst[c] = "open" => fds[hfd[c]] = Conn(c)

\* When stop() has returned, the port is free and nobody is still accepting:
\* no connection waits in a queue that will never be served.
PortIsReleased ==
    mpc = "down" => ~Listening /\ apc = "none" /\ backlog = <<>>

\* stop() returns, unless accept() already waited when the listening socket was
\* closed and no connection ever comes again: one is enough to let it return,
\* whatever fails on the way.
StopReturns ==
    mpc = "closing" ~> \/ mpc = "down"
                       \/ [](apc = "blocked" /\ backlog = <<>>)

\* A connection that was queued is served or reset, through a full descriptor
\* table, failing accept() calls and a stop() at any moment.
QueueIsServed ==
    \A c \in Client : cst[c] = "queued" ~> cst[c] \in {"open", "refused"}
=============================================================================
