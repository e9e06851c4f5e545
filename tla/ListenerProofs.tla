--------------------------- MODULE ListenerProofs ---------------------------
(***************************************************************************)
(* Theorems about Listener, for any number of connections, descriptors,    *)
(* starts and other files, and any length of the queue.                    *)
(***************************************************************************)
EXTENDS Listener, SequenceTheorems, TLAPS

----------------------------------------------------------------------------
(* Descriptors.                                                            *)

FdUse == {Use(k) : k \in {"free", "socket", "listen", "other"}}
         \cup {Conn(c) : c \in Client}

\* What a descriptor refers to is told by its kind.
LEMMA Kinds ==
    /\ \A k : Use(k).kind = k
    /\ \A c : Conn(c).kind = "conn" /\ Conn(c).of = c
    /\ \A u \in FdUse : u.kind # "conn" => u = Use(u.kind)
    /\ \A u \in FdUse : u.kind = "conn" => u.of \in Client /\ u = Conn(u.of)
    /\ \A k \in {"free", "socket", "listen", "other"} : Use(k) \in FdUse
    /\ \A c \in Client : Conn(c) \in FdUse
  <1>1. /\ \A k : Use(k).kind = k
        /\ \A c : Conn(c).kind = "conn" /\ Conn(c).of = c
    BY DEF Use, Conn
  <1>2. ASSUME NEW u \in FdUse
        PROVE  /\ u.kind # "conn" => u = Use(u.kind)
               /\ u.kind = "conn" => u.of \in Client /\ u = Conn(u.of)
    <2>1. CASE \E k \in {"free", "socket", "listen", "other"} : u = Use(k)
      BY <1>1, <2>1
    <2>2. CASE \E c \in Client : u = Conn(c)
      BY <1>1, <2>2
    <2> QED
      BY <2>1, <2>2 DEF FdUse
  <1> QED
    BY <1>1, <1>2 DEF FdUse

\* INVALID_SOCK is not a descriptor, and neither is 0.
LEMMA NoDescriptor == INVALID_SOCK \notin Fd /\ 0 \notin Fd
  BY BoundAssumption DEF INVALID_SOCK, Fd

\* A queue that loses its head is a queue.
LEMMA TailQueue ==
    ASSUME NEW q \in Seq(Client), q # <<>>
    PROVE  /\ Head(q) \in Client
           /\ Tail(q) \in Seq(Client)
           /\ Len(Tail(q)) = Len(q) - 1
           /\ \A i \in 1..Len(Tail(q)) : Tail(q)[i] = q[i + 1]
           /\ Head(q) = q[1] /\ 1 \in 1..Len(q)
  BY HeadTailProperties
----------------------------------------------------------------------------
(* Types.                                                                  *)

CstType == {"idle", "queued", "open", "served", "refused"}

LEMMA InitType == Init => TypeOK
  <1> SUFFICES ASSUME Init PROVE TypeOK
    OBVIOUS
  <1>1. /\ backlog \in Seq(Client) /\ Len(backlog) <= Backlog
        /\ starts \in 0..MaxStarts /\ others \in 0..MaxOther
    BY BoundAssumption DEF Init
  <1>2. running \in BOOLEAN
    BY DEF Init
  <1> QED
    BY <1>1, <1>2, Kinds DEF Init, TypeOK

\* Every step preserves the type.
LEMMA NextType == TypeOK /\ [Next]_vars => TypeOK'
  <1> SUFFICES ASSUME TypeOK, [Next]_vars PROVE TypeOK'
    OBVIOUS
  <1>t. /\ fds \in [Fd -> FdUse]
        /\ cst \in [Client -> CstType]
        /\ hfd \in [Client -> Fd \cup {0}]
        /\ backlog \in Seq(Client) /\ Len(backlog) <= Backlog
    BY DEF TypeOK, FdUse, CstType
  <1>d. Dropped \in [Client -> CstType] /\ AfterCall \in [Client -> CstType]
    BY <1>t DEF Dropped, AfterCall, CstType
  <1>b. <<>> \in Seq(Client) /\ Len(<<>>) <= Backlog
    BY BoundAssumption
  <1>1. ASSUME NEW f \in Fd, StartSocket(f) PROVE TypeOK'
    <2>1. starts' \in 0..MaxStarts
      BY <1>1, BoundAssumption DEF StartSocket, TypeOK
    <2>2. fds' \in [Fd -> FdUse]
      BY <1>1, <1>t, Kinds DEF StartSocket
    <2> QED
      BY <1>1, <2>1, <2>2 DEF StartSocket, TypeOK, FdUse
  <1>2. CASE BindFails
    BY <1>2, <1>t, Kinds DEF BindFails, TypeOK, FdUse
  <1>3. CASE StartListening
    BY <1>3, <1>t, Kinds DEF StartListening, TypeOK, FdUse
  <1>4. CASE StopFlag
    BY <1>4 DEF StopFlag, TypeOK
  <1>5. CASE StopClose
    <2>1. fds' \in [Fd -> FdUse]
      BY <1>5, <1>t, Kinds DEF StopClose
    <2>2. cst' \in [Client -> CstType] /\ backlog' \in Seq(Client) /\ Len(backlog') <= Backlog
      BY <1>5, <1>t, <1>d, <1>b DEF StopClose
    <2> QED
      BY <1>5, <2>1, <2>2 DEF StopClose, TypeOK, FdUse, CstType
  <1>6. CASE StopClear \/ Join
    BY <1>6 DEF StopClear, Join, TypeOK
  <1>7. CASE CheckRunning \/ LoadListenSock \/ EnterAccept \/ AcceptFailed
    BY <1>7 DEF CheckRunning, LoadListenSock, EnterAccept, AcceptFailed, TypeOK
  <1>8. CASE AcceptNoFd
    <2>1. cst' \in [Client -> CstType] /\ backlog' \in Seq(Client) /\ Len(backlog') <= Backlog
      BY <1>8, <1>t, <1>d, <1>b DEF AcceptNoFd
    <2> QED
      BY <1>8, <2>1 DEF AcceptNoFd, TypeOK, FdUse, CstType
  <1>9. ASSUME NEW f \in Fd, Accept(f) PROVE TypeOK'
    <2> DEFINE c == Head(backlog)
    <2>1. /\ c \in Client /\ Tail(backlog) \in Seq(Client)
          /\ Len(Tail(backlog)) = Len(backlog) - 1
      BY <1>9, <1>t, TailQueue DEF Accept
    <2>2. backlog' \in Seq(Client) /\ Len(backlog') <= Backlog
      BY <1>9, <1>t, <1>b, <2>1, BoundAssumption DEF Accept
    <2>3. /\ fds' = [fds EXCEPT ![f] = Conn(c)]
          /\ hfd' = [hfd EXCEPT ![c] = f]
          /\ cst' = [AfterCall EXCEPT ![c] = "open"]
      BY <1>9 DEF Accept
    <2> HIDE DEF c
    <2>4. /\ fds' \in [Fd -> FdUse] /\ hfd' \in [Client -> Fd \cup {0}]
          /\ cst' \in [Client -> CstType]
      BY <1>t, <1>d, <2>1, <2>3, Kinds DEF CstType
    <2> QED
      BY <1>9, <2>2, <2>4 DEF Accept, TypeOK, FdUse, CstType
  <1>10. ASSUME NEW c \in Client, ConnEnds(c) PROVE TypeOK'
    BY <1>10, <1>t, Kinds DEF ConnEnds, TypeOK, FdUse
  <1>11. ASSUME NEW c \in Client, Connect(c) PROVE TypeOK'
    <2>1. backlog' \in Seq(Client) /\ Len(backlog') <= Backlog
      BY SMTT(30), <1>11, <1>t, BoundAssumption DEF Connect
    <2> QED
      BY <1>11, <2>1 DEF Connect, TypeOK
  <1>12. ASSUME NEW f \in Fd, OtherOpen(f) PROVE TypeOK'
    <2>1. others' \in 0..MaxOther
      BY <1>12, BoundAssumption DEF OtherOpen, TypeOK
    <2> QED
      BY <1>12, <1>t, <2>1, Kinds DEF OtherOpen, TypeOK, FdUse
  <1>13. ASSUME NEW f \in Fd, OtherClose(f) PROVE TypeOK'
    BY <1>13, <1>t, Kinds DEF OtherClose, TypeOK, FdUse
  <1>14. CASE UNCHANGED vars
    BY <1>14 DEF vars, TypeOK
  <1> QED
    BY <1>1, <1>2, <1>3, <1>4, <1>5, <1>6, <1>7, <1>8, <1>9, <1>10, <1>11, <1>12,
       <1>13, <1>14 DEF Next, stop, accept_loop

\* Every reachable state has its type: in particular handle_conn is never
\* started for INVALID_SOCK, and the queue keeps to its length.
THEOREM TypeCorrect == Spec => []TypeOK
  <1>1. QED
    BY InitType, NextType, PTL DEF Spec
----------------------------------------------------------------------------
(* Descriptors and the queue.                                              *)

\* What the thread that calls start() and stop() knows about listen_sock_ and
\* about the accept thread.
Phases ==
    /\ mpc = "binding" => listen_sock \in Fd /\ fds[listen_sock] = Use("socket")
    /\ mpc \in {"up", "closing"} => listen_sock \in Fd /\ fds[listen_sock] = Use("listen")
    /\ mpc \in {"clearing", "joining", "down"}
           => \A f \in Fd : fds[f].kind \notin {"socket", "listen"}
    /\ mpc \in {"down", "binding"} <=> apc = "none"

\* A descriptor of a connection is the one its thread was given: two threads
\* never have the same one.
OwnedByThread ==
    \A f \in Fd : fds[f].kind = "conn" => hfd[fds[f].of] = f

\* The queue holds waiting connections, each once, and is empty as soon as the
\* socket is gone.
QueueHonest ==
    /\ \A i \in 1..Len(backlog) : cst[backlog[i]] = "queued"
    /\ \A i, j \in 1..Len(backlog) : backlog[i] = backlog[j] => i = j
    /\ ~Listening => backlog = <<>>

ListenInv == Phases /\ OwnedByThread /\ QueueHonest /\ NoFdLeak

\* Nothing is open, nobody waits.
LEMMA InitListen == Init => ListenInv
  BY Kinds DEF Init, ListenInv, Phases, OwnedByThread, QueueHonest, NoFdLeak

\* A queue that loses its head keeps its order, and the head was in it once.
LEMMA RestOfQueue ==
    ASSUME TypeOK, QueueHonest, backlog # <<>>
    PROVE  /\ Head(backlog) \in Client
           /\ cst[Head(backlog)] = "queued"
           /\ \A i \in 1..Len(Tail(backlog)) : cst[Tail(backlog)[i]] = "queued"
           /\ \A i \in 1..Len(Tail(backlog)) : Tail(backlog)[i] # Head(backlog)
           /\ \A i, j \in 1..Len(Tail(backlog)) :
                  Tail(backlog)[i] = Tail(backlog)[j] => i = j
  <1>1. backlog \in Seq(Client) /\ Len(backlog) \in Nat
    BY DEF TypeOK
  <1>2. \A i \in 1..Len(Tail(backlog)) : i + 1 \in 1..Len(backlog) /\ i \in Nat /\ i + 1 # 1
    BY <1>1, TailQueue
  <1> QED
    BY <1>1, <1>2, TailQueue DEF QueueHonest

\* When the socket goes away, whoever was served is still served.
LEMMA AfterCallKeeps ==
    ASSUME TypeOK, NEW c \in Client
    PROVE  /\ AfterCall[c] = "open" <=> cst[c] = "open"
           /\ Dropped[c] = "open" <=> cst[c] = "open"
           /\ SocketKept => AfterCall = cst
  BY DEF AfterCall, Dropped, TypeOK

\* Every step preserves ListenInv.
LEMMA NextListen == TypeOK /\ ListenInv /\ [Next]_vars => ListenInv'
  <1> SUFFICES ASSUME TypeOK, ListenInv, [Next]_vars PROVE ListenInv'
    OBVIOUS
  <1>t. /\ fds \in [Fd -> FdUse] /\ cst \in [Client -> CstType]
        /\ hfd \in [Client -> Fd \cup {0}]
        /\ backlog \in Seq(Client)
    BY DEF TypeOK, FdUse, CstType
  <1>h. \A c \in Client : cst[c] = "open" => fds[hfd[c]] = Conn(c)
    BY DEF ListenInv, NoFdLeak
  <1> USE Kinds, NoDescriptor DEF ListenInv
  <1>1. ASSUME NEW f \in Fd, StartSocket(f) PROVE ListenInv'
    <2>1. mpc = "down" /\ fds[f] = Use("free") /\ fds' = [fds EXCEPT ![f] = Use("socket")]
      BY <1>1 DEF StartSocket, Lowest, Free
    <2>2. Phases'
      BY <1>1, <1>t, <2>1 DEF StartSocket, Phases
    <2>3. OwnedByThread'
      BY <1>1, <1>t, <2>1 DEF StartSocket, OwnedByThread
    <2>4. QueueHonest'
      BY <1>1, <1>t, <2>1 DEF StartSocket, QueueHonest, Listening, SocketKept
    <2>5. NoFdLeak'
      BY <1>1, <1>t, <1>h, <2>1 DEF StartSocket, NoFdLeak, Phases
    <2> QED
      BY <2>2, <2>3, <2>4, <2>5
  <1>2. CASE BindFails
    <2>1. /\ mpc = "binding" /\ listen_sock \in Fd /\ fds[listen_sock] = Use("socket")
          /\ fds' = [fds EXCEPT ![listen_sock] = Use("free")]
      BY <1>2 DEF BindFails, Phases
    <2>2. Phases'
      BY <1>2, <1>t, <2>1 DEF BindFails, Phases, NoFdLeak
    <2>3. OwnedByThread'
      BY <1>2, <1>t, <2>1 DEF BindFails, OwnedByThread
    <2>4. QueueHonest'
      BY <1>2, <1>t, <2>1 DEF BindFails, QueueHonest, Listening, SocketKept, NoFdLeak, Phases
    <2>5. NoFdLeak'
      BY <1>2, <1>t, <1>h, <2>1, <2>2 DEF BindFails, NoFdLeak
    <2> QED
      BY <2>2, <2>3, <2>4, <2>5
  <1>3. CASE StartListening
    <2>1. /\ mpc = "binding" /\ listen_sock \in Fd /\ fds[listen_sock] = Use("socket")
          /\ fds' = [fds EXCEPT ![listen_sock] = Use("listen")]
      BY <1>3 DEF StartListening, Phases
    <2>2. Phases'
      BY <1>3, <1>t, <2>1 DEF StartListening, Phases
    <2>3. OwnedByThread'
      BY <1>3, <1>t, <2>1 DEF StartListening, OwnedByThread
    <2>4. QueueHonest'
      BY <1>3, <1>t, <2>1 DEF StartListening, QueueHonest, Listening, SocketKept
    <2>5. NoFdLeak'
      BY <1>3, <1>t, <1>h, <2>1 DEF StartListening, NoFdLeak
    <2> QED
      BY <2>2, <2>3, <2>4, <2>5
  <1>4. CASE StopFlag
    BY <1>4 DEF StopFlag, Phases, OwnedByThread, QueueHonest, NoFdLeak, Listening,
                SocketKept
  <1>5. CASE StopClose
    <2>1. /\ mpc = "closing" /\ listen_sock \in Fd /\ fds[listen_sock] = Use("listen")
          /\ fds' = [fds EXCEPT ![listen_sock] = Use("free")]
      BY <1>5 DEF StopClose, Phases
    <2>2. Phases'
      BY <1>5, <1>t, <2>1 DEF StopClose, Phases, NoFdLeak
    <2>3. OwnedByThread'
      BY <1>5, <1>t, <2>1 DEF StopClose, OwnedByThread
    <2>4. QueueHonest'
      BY <1>5, <1>t, <2>1 DEF StopClose, QueueHonest, Listening, SocketKept
    <2>5. NoFdLeak'
      BY <1>5, <1>t, <1>h, <2>1, AfterCallKeeps DEF StopClose, NoFdLeak
    <2> QED
      BY <2>2, <2>3, <2>4, <2>5
  <1>6. CASE StopClear
    BY <1>6, <1>t DEF StopClear, Phases, OwnedByThread, QueueHonest, NoFdLeak, Listening,
                SocketKept
  <1>7. CASE Join
    BY <1>7 DEF Join, Phases, OwnedByThread, QueueHonest, NoFdLeak, Listening, SocketKept
  <1>8. CASE CheckRunning \/ LoadListenSock \/ EnterAccept \/ AcceptFailed
    <2>1. /\ apc # "blocked" /\ apc # "none" /\ apc' # "none"
          /\ UNCHANGED <<mpc, listen_sock, fds, backlog, cst, hfd>>
      BY <1>8 DEF CheckRunning, LoadListenSock, EnterAccept, AcceptFailed
    <2> QED
      BY <2>1 DEF Phases, OwnedByThread, QueueHonest, NoFdLeak, Listening, SocketKept
  <1>9. CASE AcceptNoFd
    <2>1. Phases' /\ OwnedByThread'
      BY <1>9 DEF AcceptNoFd, Phases, OwnedByThread
    <2>2. QueueHonest'
      BY <1>9, AfterCallKeeps, <1>t DEF AcceptNoFd, QueueHonest, Listening, SocketKept, AfterCall
    <2>3. NoFdLeak'
      BY <1>9, <1>t, <1>h, AfterCallKeeps DEF AcceptNoFd, NoFdLeak
    <2> QED
      BY <2>1, <2>2, <2>3
  <1>10. ASSUME NEW f \in Fd, Accept(f) PROVE ListenInv'
    <2> DEFINE c == Head(backlog)
    <2>1. /\ c \in Client /\ cst[c] = "queued" /\ backlog # <<>>
          /\ fds[f] = Use("free") /\ apc = "blocked" /\ apc' = "check"
          /\ fds' = [fds EXCEPT ![f] = Conn(c)]
          /\ hfd' = [hfd EXCEPT ![c] = f]
          /\ cst' = [AfterCall EXCEPT ![c] = "open"]
          /\ backlog' = IF SocketKept THEN Tail(backlog) ELSE <<>>
          /\ UNCHANGED <<mpc, listen_sock>>
      BY <1>10, RestOfQueue DEF Accept, Lowest, Free
    <2>2. QueueHonest'
      <3>1. CASE SocketKept
        <4>1. backlog' = Tail(backlog) /\ cst' = [cst EXCEPT ![c] = "open"]
          BY <2>1, <3>1, AfterCallKeeps
        <4>2. /\ \A i \in 1..Len(Tail(backlog)) : Tail(backlog)[i] \in Client
          BY <1>t, <2>1, TailQueue
        <4>3. SocketKept'
          BY <3>1, <2>1, <1>t DEF SocketKept
        <4> QED
          BY <4>1, <4>2, <4>3, <2>1, <1>t, RestOfQueue DEF QueueHonest, Listening
      <3>2. CASE ~SocketKept
        BY <3>2, <2>1 DEF QueueHonest
      <3> QED
        BY <3>1, <3>2
    <2> HIDE DEF c
    <2>3. Phases'
      BY <2>1, <1>t DEF Phases
    <2>4. /\ cst'[c] = "open" /\ fds'[f] = Conn(c) /\ hfd'[c] = f
          /\ \A g \in Fd \ {f} : fds'[g] = fds[g]
          /\ \A d \in Client \ {c} : hfd'[d] = hfd[d] /\ cst'[d] = AfterCall[d]
      BY <2>1, <1>t DEF AfterCall, Dropped
    <2>5. \A g \in Fd : fds[g].kind = "conn" => fds[g].of \in Client \ {c}
      BY <2>1, <1>t DEF NoFdLeak
    <2>6. OwnedByThread'
      BY <2>4, <2>5, <1>t DEF OwnedByThread
    <2>7. NoFdLeak'
      BY <2>1, <2>4, <2>5, <1>t, <1>h, AfterCallKeeps DEF NoFdLeak
    <2> QED
      BY <2>2, <2>3, <2>6, <2>7
  <1>11. ASSUME NEW c \in Client, ConnEnds(c) PROVE ListenInv'
    <2>1. /\ cst[c] = "open" /\ fds[hfd[c]] = Conn(c)
          /\ cst' = [cst EXCEPT ![c] = "served"]
          /\ fds' = [fds EXCEPT ![hfd[c]] = Use("free")]
          /\ UNCHANGED <<mpc, listen_sock, apc, backlog, hfd>>
      BY <1>11, <1>h DEF ConnEnds
    <2>2. Phases'
      BY <2>1, <1>t DEF Phases
    <2>3. OwnedByThread'
      BY <2>1, <1>t DEF OwnedByThread
    <2>4. QueueHonest'
      BY <2>1, <1>t DEF QueueHonest, Listening, SocketKept
    <2>5. NoFdLeak'
      BY <2>1, <1>t, <1>h DEF NoFdLeak, OwnedByThread
    <2> QED
      BY <2>2, <2>3, <2>4, <2>5
  <1>12. ASSUME NEW c \in Client, Connect(c) PROVE ListenInv'
    <2>1. Phases' /\ OwnedByThread'
      BY <1>12 DEF Connect, Phases, OwnedByThread
    <2>2. QueueHonest'
      <3>1. \A i \in 1..Len(backlog) : backlog[i] # c /\ backlog[i] \in Client
        BY <1>12, <1>t DEF Connect, QueueHonest
      <3>2. CASE Listening /\ Len(backlog) < Backlog
        <4>1. backlog' = Append(backlog, c) /\ cst' = [cst EXCEPT ![c] = "queued"]
          BY <1>12, <3>2 DEF Connect
        <4>2. /\ Len(backlog') = Len(backlog) + 1 /\ Len(backlog) \in Nat
              /\ backlog'[Len(backlog) + 1] = c
              /\ \A i \in 1..Len(backlog) : backlog'[i] = backlog[i]
          BY <4>1, <1>t
        <4>3. Listening'
          BY <1>12, <3>2 DEF Connect, Listening, SocketKept
        <4> QED
          BY <4>1, <4>2, <4>3, <3>1, <1>t DEF QueueHonest
      <3>3. CASE ~(Listening /\ Len(backlog) < Backlog)
        BY <1>12, <1>t, <3>1, <3>3 DEF Connect, QueueHonest, Listening, SocketKept
      <3> QED
        BY <3>2, <3>3
    <2>3. NoFdLeak'
      BY <1>12, <1>t, <1>h DEF Connect, NoFdLeak
    <2> QED
      BY <2>1, <2>2, <2>3
  <1>13. ASSUME NEW f \in Fd, OtherOpen(f) \/ OtherClose(f) PROVE ListenInv'
    <2>1. /\ fds[f].kind \in {"free", "other"}
          /\ \E k \in {"free", "other"} : fds' = [fds EXCEPT ![f] = Use(k)]
          /\ UNCHANGED <<mpc, listen_sock, apc, backlog, cst, hfd>>
      BY <1>13 DEF OtherOpen, OtherClose, Lowest, Free
    <2>2. \A g \in Fd : fds'[g] = fds[g] \/ (g = f /\ fds'[g].kind \in {"free", "other"})
      BY <2>1, <1>t
    <2>3. Phases'
      BY <2>1, <2>2, <1>t DEF Phases
    <2>4. OwnedByThread'
      BY <2>1, <2>2 DEF OwnedByThread
    <2>5. QueueHonest'
      BY <2>1, <2>2 DEF QueueHonest, Listening, SocketKept
    <2>6. NoFdLeak'
      BY <2>1, <2>2, <1>t, <1>h DEF NoFdLeak
    <2> QED
      BY <2>3, <2>4, <2>5, <2>6
  <1>14. CASE UNCHANGED vars
    BY <1>14 DEF vars, Phases, OwnedByThread, QueueHonest, NoFdLeak, Listening, SocketKept
  <1> QED
    BY <1>1, <1>2, <1>3, <1>4, <1>5, <1>6, <1>7, <1>8, <1>9, <1>10, <1>11, <1>12,
       <1>13, <1>14 DEF Next, stop, accept_loop

\* ListenInv holds throughout.
LEMMA ListenInvariant == Spec => []ListenInv
  <1>1. QED
    BY InitListen, NextListen, TypeCorrect, PTL DEF Spec

\* Every descriptor has one owner that closes it. No failed start, no stop()
\* that overtakes accept() and no thread that ends late leaks a descriptor, and
\* none closes one that the kernel has handed to somebody else meanwhile.
THEOREM DescriptorsAreOwned == Spec => []NoFdLeak
  <1>1. ListenInv => NoFdLeak
    BY DEF ListenInv
  <1> QED
    BY <1>1, ListenInvariant, PTL

\* When stop() has returned nothing listens any more, the accept thread is gone
\* and no connection is left in the queue.
THEOREM StoppedReleasesPort == Spec => []PortIsReleased
  <1>1. ListenInv => PortIsReleased
    BY Kinds DEF ListenInv, Phases, QueueHonest, PortIsReleased, Listening, SocketKept
  <1> QED
    BY <1>1, ListenInvariant, PTL
=============================================================================
