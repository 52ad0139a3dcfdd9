------------------------------ MODULE HttpServer ------------------------------
(***************************************************************************)
(* net/http Server: the accept loop, the queue of connections with its     *)
(* mutex and condition variable, and the pool of worker threads, over the  *)
(* table of file descriptors that all of them share.                       *)
(*                                                                         *)
(* The queue and a worker hold the NUMBER of a descriptor.  A worker that  *)
(* meets an error closes that number, and closes it once more at the end   *)
(* of its turn; in between the number may belong to a new connection.      *)
(***************************************************************************)
EXTENDS Naturals, Sequences, FiniteSets

CONSTANTS
    Workers,  \* the threads of the pool
    Conns,    \* the connections that clients make, one request each
    MaxFd,    \* the descriptors for connections are 1 .. MaxFd
    Free,     \* a descriptor that is not open
    NoConn    \* no connection

ASSUME ServerAssumption ==
    /\ IsFiniteSet(Workers)
    /\ MaxFd \in Nat
    /\ Free \notin Conns
    /\ NoConn \notin Conns

Fds == 1 .. MaxFd

VARIABLES
    polite,   \* whether every client sends a valid request and waits for the answer
    peer,     \* peer[c]: what the client of connection c did last
    backlog,  \* the connections that wait for accept
    fdTable,  \* fdTable[f]: the connection that descriptor f refers to
    queue,    \* _connection_queue; conn (not in the code) is what was accepted
    acceptor, \* the accept loop: where it is and the connection it holds
    pc,       \* pc[w]: where worker w is in its turn
    fd,       \* fd[w]: its client_socket
    request,  \* request[w]: the connection whose request it read, or reads
    active,   \* _active_threads
    stop,     \* how far Close has come
    answer    \* history: answer[c]: whose request the answer on c is for

vars == <<polite, peer, backlog, fdTable, queue, acceptor, pc, fd, request,
          active, stop, answer>>

workerVars == <<pc, fd, request, active>>
clientVars == <<polite, peer, backlog>>

NoFd == 0

Stages == {"check", "asleep", "read", "reading", "write", "close", "exit"}

ServerTypeOK ==
    /\ polite \in BOOLEAN
    /\ peer \in [Conns -> {"new", "silent", "asked", "garbled", "waiting", "answered", "gone"}]
    /\ backlog \in SUBSET Conns
    /\ fdTable \in [Fds -> Conns \union {Free}]
    /\ queue \in Seq([fd : Fds, conn : Conns])
    /\ acceptor \in [pc : {"accept", "push", "notify"}, fd : Fds \union {NoFd},
                     conn : Conns \union {NoConn}]
    /\ pc \in [Workers -> Stages]
    /\ fd \in [Workers -> Fds \union {NoFd}]
    /\ request \in [Workers -> Conns \union {NoConn}]
    /\ active \in 0 .. Cardinality(Workers)
    /\ stop \in {"no", "flagged", "joining", "closed"}
    /\ answer \in [Conns -> Conns \union {NoConn}]

Idle == [pc |-> "accept", fd |-> NoFd, conn |-> NoConn]

ServerInit ==
    /\ polite \in BOOLEAN
    /\ peer = [c \in Conns |-> "new"]
    /\ backlog = {}
    /\ fdTable = [f \in Fds |-> Free]
    /\ queue = <<>>
    /\ acceptor = Idle
    /\ pc = [w \in Workers |-> "check"]
    /\ fd = [w \in Workers |-> NoFd]
    /\ request = [w \in Workers |-> NoConn]
    /\ active = 0
    /\ stop = "no"
    /\ answer = [c \in Conns |-> NoConn]

-----------------------------------------------------------------------------
(* The clients *)

Reachable(c) ==
    \/ c \in backlog
    \/ \E f \in Fds : fdTable[f] = c
    \/ \E w \in Workers : pc[w] = "reading" /\ request[w] = c

Connect(c) ==
    /\ peer[c] = "new"
    /\ peer' = [peer EXCEPT ![c] = "silent"]
    /\ backlog' = backlog \union {c}
    /\ UNCHANGED <<polite, fdTable, queue, acceptor, workerVars, stop, answer>>

\* A request that parses, one that does not, or no more of either: the client
\* closes its end, in time or when its timeout of 30 seconds is over.
Send(c) ==
    /\ Reachable(c)
    /\ peer[c] = "silent"
    /\ peer' = [peer EXCEPT ![c] = "asked"]
    /\ UNCHANGED <<polite, backlog, fdTable, queue, acceptor, workerVars, stop, answer>>

Garble(c) ==
    /\ ~ polite
    /\ Reachable(c)
    /\ peer[c] = "silent"
    /\ peer' = [peer EXCEPT ![c] = "garbled"]
    /\ UNCHANGED <<polite, backlog, fdTable, queue, acceptor, workerVars, stop, answer>>

GiveUp(c) ==
    /\ ~ polite
    /\ Reachable(c)
    /\ peer[c] \in {"silent", "asked", "garbled", "waiting"}
    /\ peer' = [peer EXCEPT ![c] = "gone"]
    /\ UNCHANGED <<polite, backlog, fdTable, queue, acceptor, workerVars, stop, answer>>

-----------------------------------------------------------------------------
(* StartListening *)

\* The kernel gives the lowest number that is free.
IsLowestFree(f) ==
    /\ fdTable[f] = Free
    /\ \A g \in 1 .. f - 1 : fdTable[g] # Free

Accept(c, f) ==
    /\ acceptor.pc = "accept"
    /\ stop # "closed"
    /\ c \in backlog
    /\ IsLowestFree(f)
    /\ backlog' = backlog \ {c}
    /\ fdTable' = [fdTable EXCEPT ![f] = c]
    /\ acceptor' = [pc |-> "push", fd |-> f, conn |-> c]
    /\ UNCHANGED <<polite, peer, queue, workerVars, stop, answer>>

Push ==
    /\ acceptor.pc = "push"
    /\ queue' = Append(queue, [fd |-> acceptor.fd, conn |-> acceptor.conn])
    /\ acceptor' = [Idle EXCEPT !.pc = "notify"]
    /\ UNCHANGED <<clientVars, fdTable, workerVars, stop, answer>>

Asleep == {w \in Workers : pc[w] = "asleep"}

\* Mutant of NotifyOne: the call is forgotten.
NotifyNobody ==
    /\ acceptor.pc = "notify"
    /\ acceptor' = Idle
    /\ UNCHANGED <<clientVars, fdTable, queue, workerVars, stop, answer>>

NotifyOne ==
    /\ acceptor.pc = "notify"
    /\ acceptor' = Idle
    /\ IF Asleep = {}
       THEN UNCHANGED pc
       ELSE \E w \in Asleep : pc' = [pc EXCEPT ![w] = "check"]
    /\ UNCHANGED <<clientVars, fdTable, queue, fd, request, active, stop, answer>>

-----------------------------------------------------------------------------
(* WorkerThread *)

\* wait tests its predicate with the mutex held, and sleeps without a gap.
Sleep(w) ==
    /\ pc[w] = "check"
    /\ queue = <<>>
    /\ stop = "no"
    /\ pc' = [pc EXCEPT ![w] = "asleep"]
    /\ UNCHANGED <<clientVars, fdTable, queue, acceptor, fd, request, active, stop, answer>>

SpuriousWakeup(w) ==
    /\ pc[w] = "asleep"
    /\ pc' = [pc EXCEPT ![w] = "check"]
    /\ UNCHANGED <<clientVars, fdTable, queue, acceptor, fd, request, active, stop, answer>>

Exit(w) ==
    /\ pc[w] = "check"
    /\ queue = <<>>
    /\ stop # "no"
    /\ pc' = [pc EXCEPT ![w] = "exit"]
    /\ UNCHANGED <<clientVars, fdTable, queue, acceptor, fd, request, active, stop, answer>>

\* The lock is given back, and GetThreadLoad counts the worker as active.
Pop(w) ==
    /\ pc[w] = "check"
    /\ queue # <<>>
    /\ fd' = [fd EXCEPT ![w] = Head(queue).fd]
    /\ queue' = Tail(queue)
    /\ active' = active + 1
    /\ pc' = [pc EXCEPT ![w] = "read"]
    /\ UNCHANGED <<clientVars, fdTable, acceptor, request, stop, answer>>

\* The close of an error path.
CloseEarly(w) ==
    /\ fdTable' = [fdTable EXCEPT ![fd[w]] = Free]
    /\ pc' = [pc EXCEPT ![w] = "close"]

\* read looks the descriptor up, and keeps the connection while it blocks.
BeginRead(w) ==
    /\ pc[w] = "read"
    /\ fdTable[fd[w]] # Free
    /\ request' = [request EXCEPT ![w] = fdTable[fd[w]]]
    /\ pc' = [pc EXCEPT ![w] = "reading"]
    /\ UNCHANGED <<clientVars, fdTable, queue, acceptor, fd, active, stop, answer>>

ReadBadDescriptor(w) ==
    /\ pc[w] = "read"
    /\ fdTable[fd[w]] = Free
    /\ CloseEarly(w)
    /\ UNCHANGED <<clientVars, queue, acceptor, fd, request, active, stop, answer>>

\* Mutant of EndRead: the descriptor is closed once the request is read.
CloseOnceRead(w) ==
    /\ pc[w] = "reading"
    /\ peer[request[w]] = "asked"
    /\ peer' = [peer EXCEPT ![request[w]] = "waiting"]
    /\ fdTable' = [fdTable EXCEPT ![fd[w]] = Free]
    /\ pc' = [pc EXCEPT ![w] = "write"]
    /\ UNCHANGED <<polite, backlog, queue, acceptor, fd, request, active, stop, answer>>

EndRead(w) ==
    /\ pc[w] = "reading"
    /\ peer[request[w]] = "asked"
    /\ peer' = [peer EXCEPT ![request[w]] = "waiting"]
    /\ pc' = [pc EXCEPT ![w] = "write"]
    /\ UNCHANGED <<polite, backlog, fdTable, queue, acceptor, fd, request, active, stop, answer>>

\* An error, the end of the stream, or a text that is no request.
ReadFails(w) ==
    /\ pc[w] = "reading"
    /\ peer[request[w]] \in {"garbled", "answered", "gone"}
    /\ CloseEarly(w)
    /\ request' = [request EXCEPT ![w] = NoConn]
    /\ UNCHANGED <<clientVars, queue, acceptor, fd, active, stop, answer>>

\* The handler has returned; write looks the descriptor up again.
Write(w) ==
    LET c == fdTable[fd[w]]
    IN  /\ pc[w] = "write"
        /\ c # Free
        /\ IF peer[c] \in {"answered", "gone"}
           THEN UNCHANGED <<peer, answer>>
           ELSE /\ peer' = [peer EXCEPT ![c] = "answered"]
                /\ answer' = [answer EXCEPT ![c] = request[w]]
        /\ pc' = [pc EXCEPT ![w] = "close"]
        /\ request' = [request EXCEPT ![w] = NoConn]
        /\ UNCHANGED <<polite, backlog, fdTable, queue, acceptor, fd, active, stop>>

\* The write is short: the client is gone, or the descriptor is.
WriteFails(w) ==
    LET c == fdTable[fd[w]]
    IN  /\ pc[w] = "write"
        /\ c # Free => peer[c] \in {"answered", "gone"}
        /\ CloseEarly(w)
        /\ request' = [request EXCEPT ![w] = NoConn]
        /\ UNCHANGED <<clientVars, queue, acceptor, fd, active, stop, answer>>

\* Mutant of CloseSocket: the connection is left open.
LeaveOpen(w) ==
    /\ pc[w] = "close"
    /\ fd' = [fd EXCEPT ![w] = NoFd]
    /\ active' = active - 1
    /\ pc' = [pc EXCEPT ![w] = "check"]
    /\ UNCHANGED <<clientVars, fdTable, queue, acceptor, request, stop, answer>>

CloseSocket(w) ==
    /\ pc[w] = "close"
    /\ fdTable' = [fdTable EXCEPT ![fd[w]] = Free]
    /\ fd' = [fd EXCEPT ![w] = NoFd]
    /\ active' = active - 1
    /\ pc' = [pc EXCEPT ![w] = "check"]
    /\ UNCHANGED <<clientVars, queue, acceptor, request, stop, answer>>

-----------------------------------------------------------------------------
(* Close: StopWorkerThreads and the end of the listening socket *)

FlagStop ==
    /\ stop = "no"
    /\ stop' = "flagged"
    /\ UNCHANGED <<clientVars, fdTable, queue, acceptor, workerVars, answer>>

\* Mutant of NotifyAll: only one of the sleeping workers is woken.
WakeOne ==
    /\ stop = "flagged"
    /\ stop' = "joining"
    /\ IF Asleep = {}
       THEN UNCHANGED pc
       ELSE \E w \in Asleep : pc' = [pc EXCEPT ![w] = "check"]
    /\ UNCHANGED <<clientVars, fdTable, queue, acceptor, fd, request, active, answer>>

NotifyAll ==
    /\ stop = "flagged"
    /\ stop' = "joining"
    /\ pc' = [w \in Workers |-> IF pc[w] = "asleep" THEN "check" ELSE pc[w]]
    /\ UNCHANGED <<clientVars, fdTable, queue, acceptor, fd, request, active, answer>>

Join ==
    /\ stop = "joining"
    /\ \A w \in Workers : pc[w] = "exit"
    /\ stop' = "closed"
    /\ UNCHANGED <<clientVars, fdTable, queue, acceptor, workerVars, answer>>

-----------------------------------------------------------------------------

ClientStep(c) == Send(c) \/ Garble(c) \/ GiveUp(c)

AcceptorStep ==
    \/ \E c \in Conns, f \in Fds : Accept(c, f)
    \/ Push
    \/ NotifyOne

WorkerStep(w) ==
    \/ Sleep(w)
    \/ Exit(w)
    \/ Pop(w)
    \/ BeginRead(w)
    \/ ReadBadDescriptor(w)
    \/ EndRead(w)
    \/ ReadFails(w)
    \/ Write(w)
    \/ WriteFails(w)
    \/ CloseSocket(w)

StopStep == NotifyAll \/ Join

ServerNext ==
    \/ \E c \in Conns : Connect(c) \/ ClientStep(c)
    \/ AcceptorStep
    \/ \E w \in Workers : WorkerStep(w) \/ SpuriousWakeup(w)
    \/ FlagStop
    \/ StopStep

\* The threads run whenever they are not blocked, a handler returns, and a client
\* that is not answered sends its request or gives up.
ServerFairness ==
    /\ \A c \in Conns : WF_vars(ClientStep(c))
    /\ WF_vars(AcceptorStep)
    /\ \A w \in Workers : WF_vars(WorkerStep(w))
    /\ WF_vars(StopStep)

ServerSpec == ServerInit /\ [][ServerNext]_vars
FairServerSpec == ServerSpec /\ ServerFairness

-----------------------------------------------------------------------------

(* A connection that was pushed is not left alone: as long as the queue    *)
(* holds one, a worker is up and comes back to the queue, or the accept    *)
(* loop is about to wake one.  No interleaving of push, notify_one, wait   *)
(* and notify_all loses a wakeup.                                          *)
NoLostWakeup ==
    queue # <<>> =>
        \/ acceptor.pc = "notify"
        \/ \E w \in Workers : pc[w] \notin {"asleep", "exit"}
        \/ stop = "closed"
        \/ \A w \in Workers : pc[w] = "exit"

(* While every client sends a valid request and waits, the answer on a     *)
(* connection is the answer to the request made on it: a descriptor stays  *)
(* with its connection from accept to the one close.                       *)
OwnAnswer ==
    polite => \A c \in Conns : answer[c] \in {NoConn, c}

IsOpen(c) == \E f \in Fds : fdTable[f] = c

(* No connection is left open: what is accepted is closed in the end,      *)
(* whatever the clients do and however often a number is closed twice,     *)
(* unless the server itself was closed meanwhile.                          *)
EveryConnectionCloses ==
    \A c \in Conns : IsOpen(c) ~> ~ IsOpen(c) \/ stop # "no"

(* Close comes to its end: every worker sees _shutdown, though it may be   *)
(* asleep, busy, or about to sleep when the flag is set.                   *)
StopEnds == stop = "flagged" ~> stop = "closed"

(* server.cc says of the push: enqueue the connection for a worker thread  *)
(* to handle.  What waits in the queue is the connection that was accepted.*)
QueuedIsOpen ==
    \A i \in DOMAIN queue : fdTable[queue[i].fd] = queue[i].conn
=============================================================================
