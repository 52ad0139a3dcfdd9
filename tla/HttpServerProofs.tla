--------------------------- MODULE HttpServerProofs ---------------------------
(***************************************************************************)
(* The safety properties of the HTTP server for any pool, any number of    *)
(* connections and any table of descriptors.                               *)
(*                                                                         *)
(* NoLostWakeup is inductive: whoever leaves the queue alone for good,     *)
(* found it empty.  OwnAnswer needs to know who holds which descriptor     *)
(* (HolderInv): the accept loop, one entry of the queue, or one worker, as *)
(* long as no request fails, since only an error closes a number twice.    *)
(*                                                                         *)
(* Then the same for the exchange over the server: it implements the       *)
(* server, and HandledWhole and CallIsLocal follow, whatever the parsers   *)
(* are that make of the texts what PartsAreRefused, CallsAreTaken and      *)
(* RepliesAreRead say.                                                     *)
(***************************************************************************)
EXTENDS HttpExchange, FiniteSetTheorems, SequenceTheorems, TLAPS

Entry == [fd : Fds, conn : Conns]

Busy == {"read", "reading", "write", "close"}
BusyWorkers == {w \in Workers : pc[w] \in Busy}

(* What the stage of a thread says of its locals.                          *)
LocalInv ==
    /\ acceptor.pc = "push" => acceptor.fd \in Fds /\ acceptor.conn \in Conns
    /\ \A w \in Workers : pc[w] \in Busy => fd[w] \in Fds
    /\ \A w \in Workers : pc[w] \in {"reading", "write"} => request[w] \in Conns

CountInv == active = Cardinality(BusyWorkers)

TypeInv == ServerTypeOK /\ LocalInv /\ CountInv

-----------------------------------------------------------------------------

USE ServerAssumption

(* A worker that becomes busy, or stops to be, changes the count by one.   *)
LEMMA CountStep ==
    ASSUME TypeInv, NEW w \in Workers, NEW s \in Stages,
           pc' = [pc EXCEPT ![w] = s]
    PROVE  /\ (pc[w] \in Busy <=> s \in Busy) => BusyWorkers' = BusyWorkers
           /\ pc[w] \notin Busy /\ s \in Busy =>
                Cardinality(BusyWorkers') = Cardinality(BusyWorkers) + 1
           /\ pc[w] \in Busy /\ s \notin Busy =>
                Cardinality(BusyWorkers') = Cardinality(BusyWorkers) - 1
           /\ Cardinality(BusyWorkers') \in 0 .. Cardinality(Workers)
<1>1. pc \in [Workers -> Stages] /\ IsFiniteSet(Workers)
  BY DEF TypeInv, ServerTypeOK
<1>2. IsFiniteSet(BusyWorkers) /\ IsFiniteSet(BusyWorkers')
  BY <1>1, FS_Subset DEF BusyWorkers
<1>3. (pc[w] \in Busy <=> s \in Busy) => BusyWorkers' = BusyWorkers
  BY <1>1 DEF BusyWorkers
<1>4. ASSUME pc[w] \notin Busy, s \in Busy
      PROVE  Cardinality(BusyWorkers') = Cardinality(BusyWorkers) + 1
  <2>1. BusyWorkers' = BusyWorkers \cup {w} /\ w \notin BusyWorkers
    BY <1>1, <1>4 DEF BusyWorkers
  <2>2. QED BY <1>2, <2>1, FS_AddElement
<1>5. ASSUME pc[w] \in Busy, s \notin Busy
      PROVE  Cardinality(BusyWorkers') = Cardinality(BusyWorkers) - 1
  <2>1. BusyWorkers' = BusyWorkers \ {w} /\ w \in BusyWorkers
    BY <1>1, <1>5 DEF BusyWorkers
  <2>2. QED BY <1>2, <2>1, FS_RemoveElement
<1>6. Cardinality(BusyWorkers') \in 0 .. Cardinality(Workers)
  <2>1. Cardinality(BusyWorkers') <= Cardinality(Workers)
    BY <1>1, FS_Subset DEF BusyWorkers
  <2>2. Cardinality(BusyWorkers') \in Nat /\ Cardinality(Workers) \in Nat
    BY <1>1, <1>2, FS_CardinalityType
  <2>3. QED BY <2>1, <2>2
<1>7. QED BY <1>3, <1>4, <1>5, <1>6

LEMMA TypeInit == ServerInit => TypeInv
<1> SUFFICES ASSUME ServerInit PROVE TypeInv
  OBVIOUS
<1>1. BusyWorkers = {}
  BY DEF ServerInit, BusyWorkers, Busy
<1>2. Cardinality({}) = 0 /\ Cardinality(Workers) \in Nat
  BY FS_EmptySet, FS_CardinalityType
<1>3. queue \in Seq(Entry)
  BY DEF ServerInit
<1>4. ServerTypeOK
  BY <1>2, <1>3 DEF ServerInit, ServerTypeOK, Idle, Stages, Entry
<1>5. LocalInv
  BY DEF ServerInit, LocalInv, Idle, Busy
<1>6. QED BY <1>1, <1>2, <1>4, <1>5 DEF TypeInv, CountInv, ServerInit

(* Clients, the accept loop and FlagStop and Join move no worker.          *)
LEMMA OtherType ==
    ASSUME TypeInv,
           \/ \E c \in Conns : Connect(c) \/ ClientStep(c)
           \/ \E c \in Conns, f \in Fds : Accept(c, f)
           \/ Push \/ FlagStop \/ Join
    PROVE  TypeInv'
<1> USE DEF TypeInv
<1>0. ServerTypeOK /\ LocalInv /\ CountInv /\ queue \in Seq(Entry)
  BY DEF ServerTypeOK, Entry
<1>1. CASE \E c \in Conns : Connect(c) \/ ClientStep(c)
  <2>1. ServerTypeOK'
    BY <1>0, <1>1 DEF ServerTypeOK, Connect, ClientStep, Send, Garble, GiveUp, workerVars
  <2>2. LocalInv' /\ CountInv'
    BY <1>0, <1>1 DEF LocalInv, CountInv, BusyWorkers, Connect, ClientStep, Send, Garble,
                      GiveUp, workerVars
  <2>3. QED BY <2>1, <2>2
<1>2. CASE \E c \in Conns, f \in Fds : Accept(c, f)
  <2>1. ServerTypeOK'
    BY <1>0, <1>2 DEF ServerTypeOK, Accept, workerVars
  <2>2. LocalInv' /\ CountInv'
    BY <1>0, <1>2 DEF LocalInv, CountInv, BusyWorkers, Accept, workerVars
  <2>3. QED BY <2>1, <2>2
<1>3. CASE Push
  <2>1. [fd |-> acceptor.fd, conn |-> acceptor.conn] \in Entry
    BY <1>0, <1>3 DEF Push, LocalInv, Entry
  <2>2. queue' \in Seq(Entry)
    BY <1>0, <1>3, <2>1, AppendProperties DEF Push
  <2>3. ServerTypeOK'
    BY <1>0, <1>3, <2>2 DEF ServerTypeOK, Entry, Push, Idle, clientVars, workerVars
  <2>4. LocalInv' /\ CountInv'
    BY <1>0, <1>3 DEF LocalInv, CountInv, BusyWorkers, Push, Idle, workerVars
  <2>5. QED BY <2>3, <2>4
<1>4. CASE FlagStop \/ Join
  <2>1. ServerTypeOK'
    BY <1>0, <1>4 DEF ServerTypeOK, FlagStop, Join, clientVars, workerVars
  <2>2. LocalInv' /\ CountInv'
    BY <1>0, <1>4 DEF LocalInv, CountInv, BusyWorkers, FlagStop, Join, workerVars
  <2>3. QED BY <2>1, <2>2
<1>5. QED BY <1>1, <1>2, <1>3, <1>4

(* Waking workers and putting them to sleep.                               *)
LEMMA WakeType ==
    ASSUME TypeInv,
           \/ NotifyOne \/ NotifyAll
           \/ \E w \in Workers : Sleep(w) \/ SpuriousWakeup(w) \/ Exit(w)
    PROVE  TypeInv'
<1> USE DEF TypeInv
<1>0. ServerTypeOK /\ LocalInv /\ CountInv
  OBVIOUS
<1>1. UNCHANGED <<clientVars, fdTable, queue, fd, request, active, answer>>
  BY DEF NotifyOne, NotifyAll, Sleep, SpuriousWakeup, Exit
<1>2. /\ pc' \in [Workers -> Stages]
      /\ \A w \in Workers : pc'[w] # pc[w] => pc[w] \notin Busy /\ pc'[w] \notin Busy
  BY <1>0 DEF ServerTypeOK, NotifyOne, NotifyAll, Sleep, SpuriousWakeup, Exit, Asleep,
              Stages, Busy
<1>3. /\ stop' \in {"no", "flagged", "joining", "closed"}
      /\ \/ acceptor' = acceptor
         \/ acceptor' = Idle
  BY <1>0 DEF ServerTypeOK, NotifyOne, NotifyAll, Sleep, SpuriousWakeup, Exit
<1>4. BusyWorkers' = BusyWorkers
  BY <1>2 DEF BusyWorkers
<1>5. ServerTypeOK'
  BY <1>0, <1>1, <1>2, <1>3 DEF ServerTypeOK, Idle, clientVars
<1>6. LocalInv'
  BY <1>0, <1>1, <1>2, <1>3 DEF LocalInv, Idle, Busy
<1>7. QED BY <1>0, <1>1, <1>4, <1>5, <1>6 DEF CountInv

LEMMA PopType ==
    ASSUME TypeInv, NEW w \in Workers, Pop(w)
    PROVE  TypeInv'
<1> USE DEF TypeInv
<1>0. ServerTypeOK /\ LocalInv /\ CountInv /\ queue \in Seq(Entry)
  BY DEF ServerTypeOK, Entry
<1>1. Head(queue) \in Entry /\ Tail(queue) \in Seq(Entry)
  BY <1>0, HeadTailProperties DEF Pop
<1>2. /\ pc' = [pc EXCEPT ![w] = "read"]
      /\ pc[w] \notin Busy /\ "read" \in Busy /\ "read" \in Stages
  BY DEF Pop, Busy, Stages
<1>3. /\ Cardinality(BusyWorkers') = Cardinality(BusyWorkers) + 1
      /\ Cardinality(BusyWorkers') \in 0 .. Cardinality(Workers)
  BY <1>2, CountStep
<1>4. active' = Cardinality(BusyWorkers')
  BY <1>0, <1>3 DEF Pop, CountInv
<1>5. ServerTypeOK'
  BY <1>0, <1>1, <1>2, <1>3, <1>4 DEF ServerTypeOK, Entry, Pop, clientVars
<1>6. LocalInv'
  BY <1>0, <1>1, <1>2 DEF ServerTypeOK, LocalInv, Entry, Pop, Busy
<1>7. QED BY <1>4, <1>5, <1>6 DEF CountInv

(* The turn of a worker between Pop and CloseSocket.                       *)
LEMMA TurnType ==
    ASSUME TypeInv, NEW w \in Workers,
           \/ BeginRead(w) \/ ReadBadDescriptor(w) \/ EndRead(w) \/ ReadFails(w)
           \/ Write(w) \/ WriteFails(w)
    PROVE  TypeInv'
<1> USE DEF TypeInv
<1>0. ServerTypeOK /\ LocalInv /\ CountInv
  OBVIOUS
<1>1. /\ pc[w] \in Busy /\ fd[w] \in Fds /\ fdTable[fd[w]] \in Conns \cup {Free}
      /\ pc[w] \in {"reading", "write"} => request[w] \in Conns
  BY <1>0 DEF ServerTypeOK, LocalInv, Busy, BeginRead, ReadBadDescriptor, EndRead, ReadFails,
              Write, WriteFails
<1>2. PICK s \in {"reading", "write", "close"} :
        /\ pc' = [pc EXCEPT ![w] = s]
        /\ s = "reading" => request'[w] \in Conns
        /\ s = "write" => request[w] \in Conns /\ request' = request
  BY <1>0, <1>1 DEF ServerTypeOK, BeginRead, ReadBadDescriptor, EndRead, ReadFails, Write,
                    WriteFails, CloseEarly
<1>3. UNCHANGED <<polite, backlog, queue, acceptor, fd, active, stop>>
  BY DEF BeginRead, ReadBadDescriptor, EndRead, ReadFails, Write, WriteFails, clientVars
<1>4. request' \in [Workers -> Conns \cup {NoConn}]
      /\ \A v \in Workers \ {w} : request'[v] = request[v]
  BY <1>0, <1>1 DEF ServerTypeOK, BeginRead, ReadBadDescriptor, EndRead, ReadFails, Write,
                    WriteFails
<1>5. /\ peer' \in [Conns -> {"new", "silent", "asked", "garbled", "waiting", "answered", "gone"}]
      /\ fdTable' \in [Fds -> Conns \cup {Free}]
      /\ answer' \in [Conns -> Conns \cup {NoConn}]
  BY <1>0, <1>1 DEF ServerTypeOK, BeginRead, ReadBadDescriptor, EndRead, ReadFails, Write,
                    WriteFails, CloseEarly, clientVars
<1>6. ServerTypeOK'
  BY <1>0, <1>2, <1>3, <1>4, <1>5 DEF ServerTypeOK, Stages
<1>7. LocalInv'
  BY <1>0, <1>1, <1>2, <1>3, <1>4 DEF ServerTypeOK, LocalInv, Busy
<1>8. CountInv'
  <2>1. s \in Stages /\ s \in Busy
    BY DEF Stages, Busy
  <2>2. BusyWorkers' = BusyWorkers
    BY <1>1, <1>2, <2>1, CountStep
  <2>3. QED BY <1>0, <1>3, <2>2 DEF CountInv
<1>9. QED BY <1>6, <1>7, <1>8

LEMMA CloseType ==
    ASSUME TypeInv, NEW w \in Workers, CloseSocket(w)
    PROVE  TypeInv'
<1> USE DEF TypeInv
<1>0. ServerTypeOK /\ LocalInv /\ CountInv
  OBVIOUS
<1>1. /\ pc' = [pc EXCEPT ![w] = "check"]
      /\ pc[w] \in Busy /\ "check" \notin Busy /\ "check" \in Stages
  BY DEF CloseSocket, Busy, Stages
<1>2. /\ Cardinality(BusyWorkers') = Cardinality(BusyWorkers) - 1
      /\ Cardinality(BusyWorkers') \in 0 .. Cardinality(Workers)
  BY <1>1, CountStep
<1>3. active' = Cardinality(BusyWorkers')
  BY <1>0, <1>2 DEF CloseSocket, CountInv
<1>4. ServerTypeOK'
  BY <1>0, <1>1, <1>2, <1>3 DEF ServerTypeOK, CloseSocket, clientVars
<1>5. LocalInv'
  BY <1>0, <1>1 DEF ServerTypeOK, LocalInv, CloseSocket, Busy
<1>6. QED BY <1>3, <1>4, <1>5 DEF CountInv

LEMMA TypeNext == TypeInv /\ [ServerNext]_vars => TypeInv'
<1> SUFFICES ASSUME TypeInv, [ServerNext]_vars PROVE TypeInv'
  OBVIOUS
<1>1. CASE ServerNext
  BY <1>1, OtherType, WakeType, PopType, TurnType, CloseType
     DEF ServerNext, AcceptorStep, WorkerStep, StopStep
<1>2. CASE UNCHANGED vars
  BY <1>2 DEF TypeInv, ServerTypeOK, LocalInv, CountInv, BusyWorkers, vars
<1>3. QED BY <1>1, <1>2

(* Every variable keeps its type, and in particular the number of active   *)
(* threads that GetThreadLoad reports stays between zero and the size of   *)
(* the pool, though it is an atomic that is changed outside the lock.      *)
THEOREM ServerTypeCorrect == ServerSpec => []ServerTypeOK
<1>1. ServerSpec => []TypeInv
  BY TypeInit, TypeNext, PTL DEF ServerSpec
<1>2. TypeInv => ServerTypeOK
  BY DEF TypeInv
<1>3. QED BY <1>1, <1>2, PTL

-----------------------------------------------------------------------------
(* NoLostWakeup *)

(* A worker leaves the queue for good, or goes to sleep, when it is empty; *)
(* and what fills it announces a wakeup.                                   *)
LEMMA WakeupNext ==
    ASSUME TypeInv, NoLostWakeup, [ServerNext]_vars
    PROVE  NoLostWakeup'
<1>0. /\ pc \in [Workers -> Stages]
      /\ queue \in Seq(Entry)
  BY DEF TypeInv, ServerTypeOK, Entry
<1>1. CASE \E c \in Conns : Connect(c) \/ ClientStep(c)
  BY <1>1 DEF NoLostWakeup, Connect, ClientStep, Send, Garble, GiveUp, workerVars
<1>2. CASE \E c \in Conns, f \in Fds : Accept(c, f)
  BY <1>2 DEF NoLostWakeup, Accept, workerVars
<1>3. CASE Push
  BY <1>3 DEF NoLostWakeup, Push, Idle
<1>4. CASE NotifyOne
  <2>1. CASE Asleep = {}
    BY <1>0, <1>4, <2>1 DEF NoLostWakeup, NotifyOne, Asleep
  <2>2. CASE Asleep # {}
    BY <1>0, <1>4, <2>2 DEF NoLostWakeup, NotifyOne, Asleep
  <2>3. QED BY <2>1, <2>2
<1>5. ASSUME NEW w \in Workers, Sleep(w) \/ SpuriousWakeup(w) \/ Exit(w)
      PROVE  NoLostWakeup'
  BY <1>0, <1>5 DEF NoLostWakeup, Sleep, SpuriousWakeup, Exit
<1>6. ASSUME NEW w \in Workers,
             \/ Pop(w) \/ BeginRead(w) \/ ReadBadDescriptor(w) \/ EndRead(w)
             \/ ReadFails(w) \/ Write(w) \/ WriteFails(w) \/ CloseSocket(w)
      PROVE  NoLostWakeup'
  <2>1. pc'[w] \notin {"asleep", "exit"}
    BY <1>0, <1>6 DEF Pop, BeginRead, ReadBadDescriptor, EndRead, ReadFails, Write,
                      WriteFails, CloseSocket, CloseEarly
  <2>2. QED BY <2>1 DEF NoLostWakeup
<1>7. CASE FlagStop \/ NotifyAll \/ Join
  BY <1>0, <1>7 DEF NoLostWakeup, FlagStop, NotifyAll, Join, workerVars
<1>8. CASE UNCHANGED vars
  BY <1>8 DEF NoLostWakeup, vars
<1>9. QED
  BY <1>1, <1>2, <1>3, <1>4, <1>5, <1>6, <1>7, <1>8
     DEF ServerNext, AcceptorStep, WorkerStep, StopStep

(* No interleaving of push, notify_one, wait and notify_all leaves a       *)
(* connection in the queue with nobody up to take it, in any pool.         *)
THEOREM WakeupNotLost == ServerSpec => []NoLostWakeup
<1>1. ServerInit => NoLostWakeup
  BY DEF ServerInit, NoLostWakeup
<1>2. ServerSpec => []TypeInv
  BY TypeInit, TypeNext, PTL DEF ServerSpec
<1>3. QED BY <1>1, <1>2, WakeupNext, PTL DEF ServerSpec

-----------------------------------------------------------------------------
(* OwnAnswer *)

(* Every open descriptor has one holder and every connection one           *)
(* descriptor.                                                             *)
HolderInv ==
    /\ \A f, g \in Fds : fdTable[f] = fdTable[g] /\ fdTable[f] # Free => f = g
    /\ \A f \in Fds : fdTable[f] \notin backlog
    /\ acceptor.pc = "push" =>
        /\ fdTable[acceptor.fd] = acceptor.conn
        /\ \A i \in DOMAIN queue : queue[i].fd # acceptor.fd
        /\ \A w \in BusyWorkers : fd[w] # acceptor.fd
    /\ \A i \in DOMAIN queue :
        /\ fdTable[queue[i].fd] # Free
        /\ \A j \in DOMAIN queue : queue[i].fd = queue[j].fd => i = j
        /\ \A w \in BusyWorkers : fd[w] # queue[i].fd
    /\ \A w \in BusyWorkers :
        /\ fdTable[fd[w]] # Free
        /\ pc[w] \in {"reading", "write"} => fdTable[fd[w]] = request[w]
        /\ \A v \in BusyWorkers : fd[v] = fd[w] => v = w

(* How far a client is, by who holds its connection.                       *)
PeerInv ==
    /\ \A c \in Conns :
        /\ peer[c] = "new" => c \notin backlog /\ \A f \in Fds : fdTable[f] # c
        /\ peer[c] \notin {"garbled", "gone"}
        /\ c \in backlog => peer[c] \in {"silent", "asked"}
        /\ answer[c] \in {NoConn, c}
    /\ acceptor.pc = "push" => peer[acceptor.conn] \in {"silent", "asked"}
    /\ \A i \in DOMAIN queue : peer[fdTable[queue[i].fd]] \in {"silent", "asked"}
    /\ \A w \in BusyWorkers :
        /\ pc[w] \in {"read", "reading"} => peer[fdTable[fd[w]]] \in {"silent", "asked"}
        /\ pc[w] = "write" => peer[fdTable[fd[w]]] = "waiting"

AnswerInv == TypeInv /\ (polite => HolderInv /\ PeerInv)

LEMMA QueueEntries ==
    ASSUME TypeInv
    PROVE  \A i \in DOMAIN queue : queue[i].fd \in Fds /\ queue[i].conn \in Conns
<1>1. queue \in Seq(Entry)
  BY DEF TypeInv, ServerTypeOK, Entry
<1>2. \A i \in DOMAIN queue : queue[i] \in Entry
  BY <1>1
<1>3. QED BY <1>2 DEF Entry

LEMMA ClientAnswer ==
    ASSUME AnswerInv, polite', NEW c \in Conns, Connect(c) \/ ClientStep(c)
    PROVE  HolderInv' /\ PeerInv'
<1> USE DEF AnswerInv
<1>1. polite /\ UNCHANGED <<fdTable, queue, acceptor, workerVars, answer>>
  BY DEF Connect, ClientStep, Send, Garble, GiveUp
<1>2. /\ ServerTypeOK /\ LocalInv /\ HolderInv /\ PeerInv /\ BusyWorkers' = BusyWorkers
      /\ queue \in Seq(Entry)
  BY <1>1 DEF TypeInv, ServerTypeOK, Entry, BusyWorkers, workerVars
<1>3. CASE Connect(c)
  <2>1. HolderInv'
    BY <1>1, <1>2, <1>3 DEF HolderInv, PeerInv, Connect, workerVars
  <2>2. PeerInv'
    BY <1>1, <1>2, <1>3 DEF ServerTypeOK, LocalInv, HolderInv, PeerInv, Connect, workerVars,
                            Entry, BusyWorkers
  <2>3. QED BY <2>1, <2>2
<1>4. CASE Send(c)
  <2>1. HolderInv'
    BY <1>1, <1>2, <1>4 DEF HolderInv, Send, workerVars
  <2>2. PeerInv'
    BY <1>1, <1>2, <1>4 DEF ServerTypeOK, LocalInv, HolderInv, PeerInv, Send, workerVars,
                            Entry, BusyWorkers
  <2>3. QED BY <2>1, <2>2
<1>5. QED BY <1>1, <1>3, <1>4 DEF ClientStep, Garble, GiveUp

LEMMA AcceptAnswer ==
    ASSUME AnswerInv, polite', NEW c \in Conns, NEW f \in Fds, Accept(c, f)
    PROVE  HolderInv' /\ PeerInv'
<1> USE DEF AnswerInv
<1>1. polite /\ UNCHANGED <<peer, queue, workerVars, answer>>
  BY DEF Accept
<1>2. /\ ServerTypeOK /\ LocalInv /\ HolderInv /\ PeerInv /\ BusyWorkers' = BusyWorkers
      /\ queue \in Seq(Entry)
  BY <1>1 DEF TypeInv, ServerTypeOK, Entry, BusyWorkers, workerVars
<1>3. /\ fdTable[f] = Free /\ fdTable' = [fdTable EXCEPT ![f] = c]
      /\ c \in backlog /\ backlog' = backlog \ {c}
      /\ acceptor' = [pc |-> "push", fd |-> f, conn |-> c]
      /\ fdTable \in [Fds -> Conns \cup {Free}]
  BY <1>2 DEF Accept, IsLowestFree, ServerTypeOK
<1>4. /\ \A i \in DOMAIN queue : queue[i].fd \in Fds /\ queue[i].fd # f
      /\ \A w \in BusyWorkers : fd[w] \in Fds /\ fd[w] # f
  BY <1>2, <1>3, QueueEntries DEF HolderInv, LocalInv, BusyWorkers
<1>5. HolderInv'
  BY <1>1, <1>2, <1>3, <1>4 DEF HolderInv, workerVars
<1>6. PeerInv'
  BY <1>1, <1>2, <1>3, <1>4 DEF PeerInv, workerVars
<1>7. QED BY <1>5, <1>6

LEMMA PushAnswer ==
    ASSUME AnswerInv, polite', Push
    PROVE  HolderInv' /\ PeerInv'
<1> USE DEF AnswerInv
<1>1. polite /\ UNCHANGED <<clientVars, fdTable, workerVars, answer>>
  BY DEF Push, clientVars
<1>2. /\ ServerTypeOK /\ LocalInv /\ HolderInv /\ PeerInv /\ BusyWorkers' = BusyWorkers
      /\ queue \in Seq(Entry)
  BY <1>1 DEF TypeInv, ServerTypeOK, Entry, BusyWorkers, workerVars
<1> DEFINE e == [fd |-> acceptor.fd, conn |-> acceptor.conn]
<1>3. /\ e \in Entry /\ fdTable[e.fd] = acceptor.conn /\ acceptor.conn # Free
      /\ e.fd = acceptor.fd /\ peer[acceptor.conn] \in {"silent", "asked"}
  BY <1>2 DEF LocalInv, Push, Entry, HolderInv, PeerInv
<1>4. queue' = Append(queue, e) /\ acceptor'.pc = "notify"
  BY DEF Push, Idle
<1>5. /\ DOMAIN queue = 1 .. Len(queue) /\ Len(queue) \in Nat
      /\ DOMAIN queue' = 1 .. Len(queue) + 1
      /\ queue'[Len(queue) + 1] = e
      /\ \A i \in DOMAIN queue : queue'[i] = queue[i]
  BY <1>2, <1>3, <1>4, AppendProperties
<1>6. \A i \in DOMAIN queue' :
        \/ i \in DOMAIN queue /\ queue'[i] = queue[i]
        \/ i \notin DOMAIN queue /\ i = Len(queue) + 1 /\ queue'[i] = e
  <2>1. \A i \in 1 .. Len(queue) + 1 :
          \/ i \in 1 .. Len(queue)
          \/ i = Len(queue) + 1 /\ i \notin 1 .. Len(queue)
    BY <1>5
  <2>2. QED BY <1>5, <2>1
<1>7. /\ \A i \in DOMAIN queue : queue[i].fd # e.fd
      /\ \A w \in BusyWorkers : fd[w] # e.fd
  BY <1>2, <1>3 DEF HolderInv, Push
<1> HIDE DEF e
<1>8. HolderInv'
  BY <1>1, <1>2, <1>3, <1>4, <1>6, <1>7 DEF HolderInv, workerVars, clientVars
<1>9. PeerInv'
  BY <1>1, <1>2, <1>3, <1>4, <1>6 DEF PeerInv, workerVars, clientVars
<1>10. QED BY <1>8, <1>9

(* Wakeups and the stages of Close move no connection.                     *)
LEMMA WakeAnswer ==
    ASSUME AnswerInv, polite',
           \/ NotifyOne \/ NotifyAll \/ FlagStop \/ Join
           \/ \E w \in Workers : Sleep(w) \/ SpuriousWakeup(w) \/ Exit(w)
    PROVE  HolderInv' /\ PeerInv'
<1> USE DEF AnswerInv
<1>1. /\ polite
      /\ UNCHANGED <<clientVars, fdTable, queue, fd, request, answer>>
      /\ acceptor' = acceptor \/ acceptor'.pc # "push"
  <2>1. CASE NotifyOne
    BY <2>1 DEF NotifyOne, clientVars, Idle
  <2>2. CASE NotifyAll \/ FlagStop \/ Join
    BY <2>2 DEF NotifyAll, FlagStop, Join, clientVars, workerVars
  <2>3. ASSUME NEW w \in Workers, Sleep(w) \/ SpuriousWakeup(w) \/ Exit(w)
        PROVE  <1>1!1 /\ <1>1!2 /\ <1>1!3
    BY <2>3 DEF Sleep, SpuriousWakeup, Exit, clientVars
  <2>4. QED BY <2>1, <2>2, <2>3
<1>2. HolderInv /\ PeerInv /\ pc \in [Workers -> Stages]
  BY <1>1 DEF TypeInv, ServerTypeOK
<1>3. \A w \in Workers : pc'[w] # pc[w] => pc[w] \notin Busy /\ pc'[w] \notin Busy
  BY <1>2 DEF NotifyOne, NotifyAll, FlagStop, Join, Sleep, SpuriousWakeup, Exit, Asleep,
              Busy, workerVars
<1>4. BusyWorkers' = BusyWorkers /\ \A w \in BusyWorkers : pc'[w] = pc[w]
  BY <1>3 DEF BusyWorkers
<1>5. HolderInv'
  BY <1>1, <1>2, <1>4 DEF HolderInv, clientVars
<1>6. PeerInv'
  BY <1>1, <1>2, <1>4 DEF PeerInv, clientVars
<1>7. QED BY <1>5, <1>6

(* The head of the queue passes to the worker.                             *)
LEMMA PopAnswer ==
    ASSUME AnswerInv, polite', NEW w \in Workers, Pop(w)
    PROVE  HolderInv' /\ PeerInv'
<1> USE DEF AnswerInv
<1>1. polite /\ UNCHANGED <<clientVars, fdTable, acceptor, request, answer>>
  BY DEF Pop, clientVars
<1>2. ServerTypeOK /\ LocalInv /\ HolderInv /\ PeerInv /\ queue \in Seq(Entry)
  BY <1>1 DEF TypeInv, ServerTypeOK, Entry
<1>3. /\ pc' = [pc EXCEPT ![w] = "read"] /\ pc[w] = "check"
      /\ queue # <<>> /\ queue' = Tail(queue)
      /\ fd' = [fd EXCEPT ![w] = Head(queue).fd]
  BY DEF Pop
<1>4. /\ DOMAIN queue = 1 .. Len(queue) /\ Len(queue) \in Nat /\ Len(queue) >= 1
      /\ DOMAIN queue' = 1 .. Len(queue) - 1
      /\ \A i \in DOMAIN queue' : queue'[i] = queue[i + 1]
      /\ Head(queue) = queue[1]
  <2>1. /\ Tail(queue) \in Seq(Entry) /\ Len(Tail(queue)) = Len(queue) - 1
        /\ \A i \in 1 .. Len(Tail(queue)) : Tail(queue)[i] = queue[i + 1]
    BY <1>2, <1>3, HeadTailProperties
  <2>2. QED BY <1>2, <1>3, <2>1
<1>5. /\ 1 \in DOMAIN queue
      /\ \A i \in DOMAIN queue' : i + 1 \in DOMAIN queue /\ i + 1 # 1
      /\ \A i, j \in DOMAIN queue' : i + 1 = j + 1 => i = j
  BY <1>4
<1>6. /\ BusyWorkers' = BusyWorkers \cup {w} /\ w \notin BusyWorkers
      /\ fd'[w] = queue[1].fd /\ pc'[w] = "read"
      /\ \A v \in BusyWorkers : fd'[v] = fd[v] /\ pc'[v] = pc[v]
  BY <1>2, <1>3, <1>4 DEF ServerTypeOK, BusyWorkers, Busy
<1>7. HolderInv'
  <2>1. \A v \in BusyWorkers : fd[v] # queue[1].fd
    BY <1>2, <1>5 DEF HolderInv
  <2>2. \A i \in DOMAIN queue' : queue'[i].fd # queue[1].fd
    BY <1>2, <1>4, <1>5 DEF HolderInv
  <2>3. acceptor.pc = "push" => queue[1].fd # acceptor.fd
    BY <1>2, <1>5 DEF HolderInv
  <2>4. \A i \in DOMAIN queue' :
          /\ fdTable[queue'[i].fd] # Free
          /\ \A j \in DOMAIN queue' : queue'[i].fd = queue'[j].fd => i = j
          /\ \A v \in BusyWorkers : fd[v] # queue'[i].fd
          /\ acceptor.pc = "push" => queue'[i].fd # acceptor.fd
    BY <1>2, <1>4, <1>5 DEF HolderInv
  <2>5. fdTable[queue[1].fd] # Free
    BY <1>2, <1>5 DEF HolderInv
  <2>6. QED
    BY <1>1, <1>2, <1>6, <2>1, <2>2, <2>3, <2>4, <2>5 DEF HolderInv, clientVars
<1>8. PeerInv'
  BY <1>1, <1>2, <1>4, <1>5, <1>6 DEF PeerInv, clientVars
<1>9. QED BY <1>7, <1>8

(* No read and no write fails, so nothing is closed early.                 *)
LEMMA NothingFails ==
    ASSUME AnswerInv, polite, NEW w \in Workers
    PROVE  ~ ReadBadDescriptor(w) /\ ~ ReadFails(w) /\ ~ WriteFails(w)
<1>1. pc[w] \in Busy => w \in BusyWorkers
  BY DEF BusyWorkers
<1>2. QED
  BY <1>1 DEF AnswerInv, HolderInv, PeerInv, Busy, ReadBadDescriptor, ReadFails, WriteFails

LEMMA TurnAnswer ==
    ASSUME AnswerInv, polite', NEW w \in Workers, BeginRead(w) \/ EndRead(w) \/ Write(w)
    PROVE  HolderInv' /\ PeerInv'
<1> USE DEF AnswerInv
<1>1. polite /\ UNCHANGED <<backlog, fdTable, queue, acceptor, fd>>
  BY DEF BeginRead, EndRead, Write, clientVars
<1>2. /\ ServerTypeOK /\ LocalInv /\ HolderInv /\ PeerInv
      /\ queue \in Seq(Entry)
  BY <1>1 DEF TypeInv, ServerTypeOK, Entry
<1>3. BusyWorkers' = BusyWorkers /\ w \in BusyWorkers
  <2>1. PICK s \in Busy : pc' = [pc EXCEPT ![w] = s]
    BY DEF Busy, BeginRead, EndRead, Write
  <2>2. pc[w] \in Busy
    BY DEF Busy, BeginRead, EndRead, Write
  <2>3. QED BY <1>2, <2>1, <2>2 DEF ServerTypeOK, BusyWorkers
<1>4. \A v \in BusyWorkers \ {w} : pc'[v] = pc[v] /\ request'[v] = request[v]
  BY <1>2 DEF ServerTypeOK, BusyWorkers, BeginRead, EndRead, Write
<1>5. HolderInv'
  <2>1. pc'[w] \in {"reading", "write"} => fdTable[fd[w]] = request'[w]
    BY <1>2, <1>3 DEF ServerTypeOK, HolderInv, BeginRead, EndRead, Write
  <2>2. QED BY <1>1, <1>2, <1>3, <1>4, <2>1 DEF HolderInv
<1> DEFINE c == fdTable[fd[w]]
<1>6. /\ c \in Conns
      /\ \A v \in BusyWorkers : fd[v] \in Fds /\ (fdTable[fd[v]] = c => v = w)
      /\ \A i \in DOMAIN queue : fdTable[queue[i].fd] # c
      /\ acceptor.pc = "push" => acceptor.conn # c
      /\ c \notin backlog
  <2>1. /\ \A v \in BusyWorkers : fd[v] \in Fds
        /\ \A i \in DOMAIN queue : queue[i].fd \in Fds
        /\ acceptor.pc = "push" => acceptor.fd \in Fds
    BY <1>2, QueueEntries DEF LocalInv, BusyWorkers
  <2>2. c \in Conns
    BY <1>2, <1>3, <2>1 DEF HolderInv, ServerTypeOK
  <2>3. QED BY <1>2, <1>3, <2>1, <2>2 DEF HolderInv
<1>7. /\ \A d \in Conns \ {c} : peer'[d] = peer[d] /\ answer'[d] = answer[d]
      /\ answer'[c] \in {NoConn, c} /\ peer'[c] \notin {"new", "garbled", "gone"}
      /\ pc'[w] \in {"read", "reading"} => peer'[c] \in {"silent", "asked"}
      /\ pc'[w] = "write" => peer'[c] = "waiting"
  <2>1. /\ fd[w] \in Fds
        /\ peer[c] \notin {"new", "garbled", "gone"} /\ answer[c] \in {NoConn, c}
        /\ pc[w] \in {"reading", "write"} => c = request[w]
    BY <1>2, <1>3, <1>6 DEF PeerInv, HolderInv
  <2>2. pc[w] = "read" => peer[c] \in {"silent", "asked"}
    BY <1>2, <1>3 DEF PeerInv
  <2>3. CASE BeginRead(w)
    BY <1>2, <2>1, <2>2, <2>3 DEF ServerTypeOK, BeginRead, clientVars
  <2>4. CASE EndRead(w)
    BY <1>2, <1>6, <2>1, <2>4 DEF ServerTypeOK, EndRead
  <2>5. CASE Write(w)
    BY <1>2, <1>6, <2>1, <2>5 DEF ServerTypeOK, Write
  <2>6. QED BY <2>3, <2>4, <2>5
<1> HIDE DEF c
<1>8. PeerInv'
  <2>1. \A i \in DOMAIN queue : fdTable[queue[i].fd] \in Conns \ {c}
    BY <1>2, <1>6, QueueEntries DEF HolderInv, ServerTypeOK
  <2>2. \A v \in BusyWorkers \ {w} : fdTable[fd[v]] \in Conns \ {c}
    BY <1>2, <1>6 DEF HolderInv, ServerTypeOK
  <2>3. \A d \in Conns :
          /\ peer'[d] = "new" => d \notin backlog /\ \A f \in Fds : fdTable[f] # d
          /\ peer'[d] \notin {"garbled", "gone"}
          /\ d \in backlog => peer'[d] \in {"silent", "asked"}
          /\ answer'[d] \in {NoConn, d}
    BY <1>2, <1>6, <1>7 DEF PeerInv
  <2>4. acceptor.pc = "push" => peer'[acceptor.conn] \in {"silent", "asked"}
    BY <1>2, <1>6, <1>7 DEF PeerInv, LocalInv
  <2>5. \A i \in DOMAIN queue : peer'[fdTable[queue[i].fd]] \in {"silent", "asked"}
    BY <1>2, <1>7, <2>1 DEF PeerInv
  <2>6. \A v \in BusyWorkers :
          /\ pc'[v] \in {"read", "reading"} => peer'[fdTable[fd[v]]] \in {"silent", "asked"}
          /\ pc'[v] = "write" => peer'[fdTable[fd[v]]] = "waiting"
    BY <1>2, <1>4, <1>7, <2>2 DEF PeerInv, c
  <2>7. QED BY <1>1, <1>3, <2>3, <2>4, <2>5, <2>6 DEF PeerInv
<1>9. QED BY <1>5, <1>8

LEMMA CloseAnswer ==
    ASSUME AnswerInv, polite', NEW w \in Workers, CloseSocket(w)
    PROVE  HolderInv' /\ PeerInv'
<1> USE DEF AnswerInv
<1>1. polite /\ UNCHANGED <<clientVars, queue, acceptor, request, answer>>
  BY DEF CloseSocket, clientVars
<1>2. /\ ServerTypeOK /\ LocalInv /\ HolderInv /\ PeerInv /\ w \in BusyWorkers
      /\ queue \in Seq(Entry)
  BY <1>1 DEF TypeInv, ServerTypeOK, Entry, BusyWorkers, CloseSocket, Busy
<1>3. /\ BusyWorkers' = BusyWorkers \ {w}
      /\ \A v \in BusyWorkers' : fd'[v] = fd[v] /\ pc'[v] = pc[v] /\ fd[v] # fd[w]
  BY <1>2 DEF ServerTypeOK, HolderInv, BusyWorkers, CloseSocket, Busy
<1>4. /\ fdTable' = [fdTable EXCEPT ![fd[w]] = Free]
      /\ fd[w] \in Fds /\ fdTable \in [Fds -> Conns \cup {Free}]
      /\ \A i \in DOMAIN queue : queue[i].fd \in Fds /\ queue[i].fd # fd[w]
      /\ acceptor.pc = "push" => acceptor.fd \in Fds /\ acceptor.fd # fd[w]
      /\ \A v \in BusyWorkers : fd[v] \in Fds
      /\ Free \notin backlog
  BY <1>2, QueueEntries DEF ServerTypeOK, LocalInv, HolderInv, CloseSocket, BusyWorkers
<1>5. HolderInv'
  BY <1>1, <1>2, <1>3, <1>4 DEF HolderInv, clientVars
<1>6. PeerInv'
  BY <1>1, <1>2, <1>3, <1>4 DEF PeerInv, clientVars
<1>7. QED BY <1>5, <1>6

LEMMA AnswerInit == ServerInit => AnswerInv
<1> SUFFICES ASSUME ServerInit PROVE AnswerInv
  OBVIOUS
<1>1. TypeInv /\ BusyWorkers = {} /\ queue = <<>>
  BY TypeInit DEF ServerInit, BusyWorkers, Busy
<1>2. HolderInv /\ PeerInv
  BY <1>1 DEF ServerInit, HolderInv, PeerInv, Idle
<1>3. QED BY <1>1, <1>2 DEF AnswerInv

LEMMA AnswerNext == AnswerInv /\ [ServerNext]_vars => AnswerInv'
<1> SUFFICES ASSUME AnswerInv, [ServerNext]_vars PROVE AnswerInv'
  OBVIOUS
<1>1. TypeInv'
  BY TypeNext DEF AnswerInv
<1>2. ASSUME ServerNext, polite' PROVE HolderInv' /\ PeerInv'
  <2>1. \A w \in Workers : ReadBadDescriptor(w) \/ ReadFails(w) \/ WriteFails(w) => polite
    BY <1>2 DEF ReadBadDescriptor, ReadFails, WriteFails, clientVars
  <2>2. QED
    BY <1>2, <2>1, ClientAnswer, AcceptAnswer, PushAnswer, WakeAnswer, PopAnswer, NothingFails,
       TurnAnswer, CloseAnswer DEF ServerNext, AcceptorStep, WorkerStep, StopStep
<1>3. ASSUME UNCHANGED vars, polite' PROVE HolderInv' /\ PeerInv'
  BY <1>3 DEF AnswerInv, HolderInv, PeerInv, BusyWorkers, vars
<1>4. QED BY <1>1, <1>2, <1>3 DEF AnswerInv

(* While clients are polite, an answer goes to the client that asked, for  *)
(* any number of workers, connections and descriptors.                     *)
THEOREM AnswerIsOwn == ServerSpec => []OwnAnswer
<1>1. ServerSpec => []AnswerInv
  BY AnswerInit, AnswerNext, PTL DEF ServerSpec
<1>2. AnswerInv => OwnAnswer
  BY DEF AnswerInv, PeerInv, OwnAnswer
<1>3. QED BY <1>1, <1>2, PTL
-----------------------------------------------------------------------------
(* The exchange is a server *)

(* Every step of the exchange is one of the server, or none of its own.    *)
LEMMA ExchangeStep == [ExchangeNext]_allVars => [ServerNext]_vars
<1> SUFFICES ASSUME [ExchangeNext]_allVars PROVE [ServerNext]_vars
  OBVIOUS
<1>1. CASE UNCHANGED allVars
  BY <1>1 DEF allVars
<1>2. ASSUME NEW c \in Conns, ExchangeClientStep(c) \/ (Connect(c) /\ UNCHANGED exchangeVars)
      PROVE  ServerNext
  BY <1>2 DEF ExchangeClientStep, RequestArrives, ServerNext, ClientStep
<1>3. CASE ExchangeAcceptorStep
  BY <1>3 DEF ExchangeAcceptorStep, ServerNext
<1>4. ASSUME NEW w \in Workers,
             ExchangeWorkerStep(w) \/ (SpuriousWakeup(w) /\ UNCHANGED exchangeVars)
      PROVE  ServerNext
  BY <1>4 DEF ExchangeWorkerStep, Handle, Answer, AnswerFails, ServerNext, WorkerStep
<1>5. CASE FlagStop /\ UNCHANGED exchangeVars
  BY <1>5 DEF ServerNext
<1>6. CASE ExchangeStopStep
  BY <1>6 DEF ExchangeStopStep, ServerNext
<1>7. QED BY <1>1, <1>2, <1>3, <1>4, <1>5, <1>6 DEF ExchangeNext

(* Whatever the requests are, whoever parses them and whatever the         *)
(* handlers answer, the server under them is the server of HttpServer:     *)
(* what is proved of that holds here.                                      *)
THEOREM ExchangeIsServer == ExchangeSpec => ServerSpec
<1>1. ExchangeInit => ServerInit
  BY DEF ExchangeInit
<1>2. QED BY <1>1, ExchangeStep, PTL DEF ExchangeSpec, ServerSpec

-----------------------------------------------------------------------------
(* HandledWhole and CallIsLocal *)

Processed(c) == reading[c].outcome.processed

(* What is read of a connection is a part of one of its calls.             *)
ReadingInv ==
    \A c \in Conns :
        /\ reading[c].call \in CallsOf[c]
        /\ reading[c] \in ReadingsOf(reading[c].call, Sent(reading[c].call))

(* No RPC is given anything but what its worker has read.                  *)
HandledInv ==
    /\ handled = [c \in Conns |-> handled[c]]
    /\ \A c \in Conns : handled[c] \in {Nothing, Processed(c)}

(* How far a polite client is, by the turn of the worker that serves it.   *)
TurnInv ==
    /\ \A c \in Conns :
        /\ peer[c] \in {"waiting", "answered"} => handled[c] = Processed(c)
        /\ peer[c] # "answered" => answer[c] = NoConn
        /\ peer[c] = "answered" => result[c] = reading[c].outcome.response[reading[c].call]
    /\ \A w \in Workers :
        pc[w] = "write" => response[w] = reading[request[w]].outcome.response

ExchangeInv ==
    /\ AnswerInv
    /\ ReadingInv
    /\ HandledInv
    /\ response = [w \in Workers |-> response[w]]
    /\ result = [c \in Conns |-> result[c]]
    /\ polite => TurnInv

LEMMA ExchangeStarts == ExchangeInit => ExchangeInv
<1> SUFFICES ASSUME ExchangeInit PROVE ExchangeInv
  OBVIOUS
<1>1. AnswerInv
  BY AnswerInit DEF ExchangeInit
<1>2. ReadingInv
  <2>1. ASSUME NEW c \in Conns
        PROVE  /\ reading[c].call \in CallsOf[c]
               /\ reading[c] \in ReadingsOf(reading[c].call, Sent(reading[c].call))
    <3>1. reading[c].call \in CallsOf[c] /\ reading[c] \in UNION {Cuts(d) : d \in Conns}
      BY DEF ExchangeInit
    <3>2. PICK d \in Conns : \E k \in CallsOf[d] : reading[c] \in Distinct(ReadingsOf(k, Sent(k)))
      BY <3>1 DEF Cuts
    <3>3. PICK k \in CallsOf[d] : reading[c] \in ReadingsOf(k, Sent(k))
      BY <3>2 DEF Distinct
    <3>4. reading[c].call = k
      BY <3>3 DEF ReadingsOf, Reading
    <3>5. QED BY <3>1, <3>3, <3>4
  <2>2. QED BY <2>1 DEF ReadingInv
<1>3. /\ handled = [c \in Conns |-> Nothing]
      /\ response = [w \in Workers |-> Nothing]
      /\ result = [c \in Conns |-> Nothing]
      /\ peer = [c \in Conns |-> "new"] /\ answer = [c \in Conns |-> NoConn]
      /\ pc = [w \in Workers |-> "check"]
  BY DEF ExchangeInit, ServerInit
<1>4. HandledInv /\ TurnInv
  BY <1>3 DEF HandledInv, TurnInv
<1>5. QED BY <1>1, <1>2, <1>3, <1>4 DEF ExchangeInv

(* The history and the answers are disturbed by the three steps that       *)
(* follow a read only.                                                     *)
LEMMA OtherTurns ==
    ASSUME ExchangeInv, polite', UNCHANGED exchangeVars,
           polite' = polite, answer' = answer,
           \A c \in Conns : peer'[c] # peer[c] =>
                /\ peer'[c] \notin {"waiting", "answered"}
                /\ peer[c] # "answered",
           \A w \in Workers : pc'[w] = "write" => pc[w] = "write" /\ request'[w] = request[w]
    PROVE  TurnInv'
<1>1. TurnInv /\ UNCHANGED <<reading, handled, response, result, answer>>
  BY DEF ExchangeInv, exchangeVars
<1>2. QED BY <1>1 DEF TurnInv, Processed

LEMMA TurnIsKept ==
    ASSUME ExchangeInv, ExchangeNext, UNCHANGED exchangeVars, polite'
    PROVE  TurnInv' \/ \E w \in Workers : Handle(w) \/ Answer(w) \/ AnswerFails(w)
<1> SUFFICES ASSUME ~ \E w \in Workers : Handle(w) \/ Answer(w) \/ AnswerFails(w)
             PROVE  TurnInv'
  OBVIOUS
<1>0. ServerTypeOK
  BY DEF ExchangeInv, AnswerInv, TypeInv
<1>1. ASSUME NEW c \in Conns, Connect(c) \/ Send(c) \/ Garble(c) \/ GiveUp(c)
      PROVE  TurnInv'
  <2>1. /\ polite' = polite /\ answer' = answer /\ pc' = pc /\ request' = request
        /\ \A d \in Conns : peer'[d] # peer[d] =>
            peer'[d] \notin {"waiting", "answered"} /\ peer[d] # "answered"
    BY <1>0, <1>1 DEF ServerTypeOK, Connect, Send, Garble, GiveUp, workerVars
  <2>2. QED BY <2>1, OtherTurns
<1>2. ASSUME NEW c \in Conns, NEW f \in Fds, Accept(c, f)
      PROVE  TurnInv'
  BY <1>2, OtherTurns DEF Accept, workerVars
<1>3. CASE Push \/ FlagStop \/ Join
  BY <1>3, OtherTurns DEF Push, FlagStop, Join, clientVars, workerVars
<1>4. CASE NotifyOne \/ NotifyAll
  <2>1. /\ polite' = polite /\ answer' = answer /\ peer' = peer /\ request' = request
        /\ \A w \in Workers : pc'[w] = "write" => pc[w] = "write"
    BY <1>0, <1>4 DEF ServerTypeOK, NotifyOne, NotifyAll, clientVars
  <2>2. QED BY <2>1, OtherTurns
<1>5. ASSUME NEW w \in Workers,
             \/ Sleep(w) \/ Exit(w) \/ Pop(w) \/ BeginRead(w) \/ ReadBadDescriptor(w)
             \/ ReadFails(w) \/ CloseSocket(w) \/ SpuriousWakeup(w)
      PROVE  TurnInv'
  <2>1. /\ polite' = polite /\ answer' = answer /\ peer' = peer
        /\ \A v \in Workers : pc'[v] = "write" => pc[v] = "write" /\ request'[v] = request[v]
    BY <1>0, <1>5 DEF ServerTypeOK, Sleep, Exit, Pop, BeginRead, ReadBadDescriptor, ReadFails,
                      CloseSocket, CloseEarly, SpuriousWakeup, clientVars
  <2>2. QED BY <2>1, OtherTurns
<1>6. QED
  BY <1>1, <1>2, <1>3, <1>4, <1>5
     DEF ExchangeNext, ExchangeClientStep, RequestArrives, ExchangeAcceptorStep, AcceptorStep,
         ExchangeWorkerStep, ExchangeStopStep, StopStep

LEMMA HandleTurn ==
    ASSUME ExchangeInv, polite', NEW w \in Workers, Handle(w)
    PROVE  TurnInv'
<1> DEFINE c == request[w]
<1>1. /\ polite /\ TurnInv /\ ServerTypeOK /\ c \in Conns
      /\ HandledInv /\ response = [v \in Workers |-> response[v]]
  BY DEF ExchangeInv, AnswerInv, TypeInv, LocalInv, Handle, EndRead
<1>2. /\ pc' = [pc EXCEPT ![w] = "write"] /\ peer' = [peer EXCEPT ![c] = "waiting"]
      /\ peer[c] = "asked" /\ pc[w] = "reading"
      /\ UNCHANGED <<answer, request, reading, result>>
      /\ handled' = [handled EXCEPT ![c] = Processed(c)]
      /\ response' = [response EXCEPT ![w] = reading[c].outcome.response]
  BY DEF Handle, EndRead, Processed
<1> HIDE DEF c
<1>3. \A d \in Conns :
        /\ d # c => peer'[d] = peer[d] /\ handled'[d] = handled[d]
        /\ peer'[c] = "waiting" /\ handled'[c] = Processed(c)
  BY <1>1, <1>2 DEF ServerTypeOK, HandledInv
<1>4. \A v \in Workers :
        /\ v # w => pc'[v] = pc[v] /\ response'[v] = response[v]
        /\ response'[w] = reading[c].outcome.response
  BY <1>1, <1>2 DEF ServerTypeOK
<1>5. request[w] = c
  BY DEF c
<1>6. QED BY <1>1, <1>2, <1>3, <1>4, <1>5 DEF TurnInv, Processed

LEMMA AnswerTurn ==
    ASSUME ExchangeInv, polite', NEW w \in Workers, Answer(w)
    PROVE  TurnInv'
<1> DEFINE c == request[w]
<1>1. polite
  BY DEF Answer, Write
<1>2. /\ TurnInv /\ ServerTypeOK /\ c \in Conns /\ HolderInv /\ PeerInv
      /\ result = [d \in Conns |-> result[d]] /\ response = [v \in Workers |-> response[v]]
  BY <1>1 DEF ExchangeInv, AnswerInv, TypeInv, LocalInv, Answer, Write
<1>3. fdTable[fd[w]] = c /\ peer[c] = "waiting"
  <2>1. w \in BusyWorkers /\ pc[w] = "write"
    BY DEF BusyWorkers, Busy, Answer, Write
  <2>2. QED BY <1>2, <2>1 DEF HolderInv, PeerInv
<1>4. /\ pc' = [pc EXCEPT ![w] = "close"]
      /\ peer' = [peer EXCEPT ![c] = "answered"] /\ answer' = [answer EXCEPT ![c] = c]
      /\ request' = [request EXCEPT ![w] = NoConn]
      /\ UNCHANGED <<reading, handled>>
      /\ response' = [response EXCEPT ![w] = Nothing]
      /\ result' = IF answer' = answer THEN result
                   ELSE [result EXCEPT ![c] = response[w][reading[c].call]]
      /\ pc[w] = "write"
  BY <1>3 DEF Answer, Write
<1>5. answer' # answer
  <2>1. answer[c] = NoConn /\ answer'[c] = c /\ c # NoConn
    BY <1>2, <1>3, <1>4 DEF TurnInv, ServerTypeOK
  <2>2. QED BY <2>1
<1>6. response[w] = reading[c].outcome.response
  BY <1>2, <1>4 DEF TurnInv
<1> HIDE DEF c
<1>7. /\ peer'[c] = "answered" /\ answer'[c] = c
      /\ result'[c] = reading[c].outcome.response[reading[c].call]
  BY <1>2, <1>4, <1>5, <1>6 DEF ServerTypeOK
<1>8. \A d \in Conns : d # c =>
        peer'[d] = peer[d] /\ answer'[d] = answer[d] /\ result'[d] = result[d]
  BY <1>2, <1>4, <1>5 DEF ServerTypeOK
<1>9. \A v \in Workers :
        /\ v # w => pc'[v] = pc[v] /\ response'[v] = response[v] /\ request'[v] = request[v]
        /\ pc'[w] = "close"
  BY <1>2, <1>4 DEF ServerTypeOK
<1>10. QED BY <1>2, <1>3, <1>4, <1>7, <1>8, <1>9 DEF TurnInv, Processed

LEMMA ExchangeContinues == ExchangeInv /\ [ExchangeNext]_allVars => ExchangeInv'
<1> SUFFICES ASSUME ExchangeInv, [ExchangeNext]_allVars PROVE ExchangeInv'
  OBVIOUS
<1>1. AnswerInv'
  BY ExchangeStep, AnswerNext DEF ExchangeInv
<1>2. \/ UNCHANGED exchangeVars
      \/ \E w \in Workers : Handle(w) \/ Answer(w) \/ AnswerFails(w)
  BY DEF ExchangeNext, allVars, ExchangeClientStep, RequestArrives, ExchangeAcceptorStep,
         ExchangeWorkerStep, ExchangeStopStep
<1>3. UNCHANGED reading
  BY <1>2 DEF exchangeVars, Handle, Answer, AnswerFails
<1>4. ReadingInv'
  BY <1>3 DEF ExchangeInv, ReadingInv
<1>5. HandledInv'
  <2>1. CASE handled' = handled
    BY <1>3, <2>1 DEF ExchangeInv, HandledInv, Processed
  <2>2. ASSUME NEW w \in Workers, Handle(w) PROVE HandledInv'
    BY <1>3, <2>2 DEF ExchangeInv, HandledInv, Processed, Handle
  <2>3. QED BY <1>2, <2>1, <2>2 DEF exchangeVars, Answer, AnswerFails
<1>6. response' = [w \in Workers |-> response'[w]] /\ result' = [c \in Conns |-> result'[c]]
  <2>1. CASE UNCHANGED exchangeVars
    BY <2>1 DEF ExchangeInv, exchangeVars
  <2>2. ASSUME NEW w \in Workers, Handle(w) \/ Answer(w) \/ AnswerFails(w)
        PROVE  /\ response' = [v \in Workers |-> response'[v]]
               /\ result' = [c \in Conns |-> result'[c]]
    BY <2>2 DEF ExchangeInv, Handle, Answer, AnswerFails
  <2>3. QED BY <1>2, <2>1, <2>2
<1>7. ASSUME polite' PROVE TurnInv'
  <2>1. CASE UNCHANGED allVars
    <3>1. UNCHANGED <<polite, answer, peer, pc, request, reading, handled, response, result>>
      BY <2>1 DEF allVars, vars, exchangeVars
    <3>2. QED BY <1>7, <3>1 DEF ExchangeInv, TurnInv, Processed
  <2>2. ASSUME NEW w \in Workers, AnswerFails(w) PROVE TurnInv'
    BY <1>7, <2>2, NothingFails DEF ExchangeInv, AnswerFails, WriteFails, clientVars
  <2>3. QED BY <1>2, <1>7, <2>1, <2>2, HandleTurn, AnswerTurn, TurnIsKept
<1>8. QED BY <1>1, <1>4, <1>5, <1>6, <1>7 DEF ExchangeInv

(* What main_handler makes of a text from which no RPC gets a message, and *)
(* of one from which an RPC gets this message.                             *)
LEMMA RefusedIsUnprocessed ==
    ASSUME NEW text, RequestIn(text) # Fail, Refused(text)
    PROVE  main_handler(RequestIn(text)[1]).processed = Nothing
BY DEF Refused, main_handler, HandledBy, Message, Outcome

LEMMA TakenIsProcessed ==
    ASSUME NEW text, NEW message, TakenAs(text, message)
    PROVE  main_handler(RequestIn(text)[1]) =
                [processed |-> message, response |-> Response(200, BodyOf(message))]
BY DEF TakenAs, main_handler, HandledBy, Message, Outcome, Fail

(* Of a reading: what is processed is the call that was meant, and a whole *)
(* call is processed and told so.                                          *)
LEMMA ReadingsAreMeant ==
    ASSUME ReadingInv, PartsAreRefused, CallsAreTaken, NEW c \in Conns
    PROVE  LET k == reading[c].call
           IN  /\ Processed(c) # Nothing /\ (k.kind = "form" => reading[c].whole)
                    => Processed(c) = Meant(k)
               /\ reading[c].whole /\ k.kind # "page" =>
                    /\ Processed(c) = Meant(k)
                    /\ reading[c].outcome.response = Response(200, BodyOf(Meant(k)))
<1> DEFINE k == reading[c].call
           text == Sent(k)
<1>1. k \in CallsOf[c] /\ k \in AllCalls /\ reading[c] \in ReadingsOf(k, text)
  BY DEF ReadingInv, AllCalls
<1>2. text \in Seq(Nat) /\ k.kind \in {"rpc", "query", "form", "page"}
  BY <1>1, ExchangeAssumption
<1>3. PICK n \in 1 .. Len(text) :
        reading[c] = Reading(k, n, n = Len(text), RequestIn(SubSeq(text, 1, n)))
  BY <1>1 DEF ReadingsOf
<1> DEFINE part == SubSeq(text, 1, n)
<1>4. /\ reading[c].whole = (n = Len(text))
      /\ reading[c].outcome = IF RequestIn(part) = Fail THEN Unread
                              ELSE main_handler(RequestIn(part)[1])
  BY <1>3 DEF Reading
<1>5. n = Len(text) => part = text
  BY <1>2, SubSeqProperties, SeqEqual
<1>6. ASSUME Refused(part) PROVE Processed(c) = Nothing
  BY <1>4, <1>6, RefusedIsUnprocessed DEF Processed, Unread
<1>7. ASSUME TakenAs(part, Meant(k))
      PROVE  /\ Processed(c) = Meant(k)
             /\ reading[c].outcome.response = Response(200, BodyOf(Meant(k)))
  <2>1. RequestIn(part) # Fail
    BY <1>7 DEF TakenAs
  <2>2. main_handler(RequestIn(part)[1]) =
            [processed |-> Meant(k), response |-> Response(200, BodyOf(Meant(k)))]
    BY <1>7, TakenIsProcessed
  <2>3. reading[c].outcome = main_handler(RequestIn(part)[1])
    BY <1>4, <2>1
  <2>4. QED BY <2>2, <2>3 DEF Processed
<1>8. n # Len(text) => n \in 1 .. Len(text) - 1
  BY <1>2, LenProperties
<1>9. n # Len(text) /\ k.kind # "form" => Refused(part)
  BY <1>1, <1>8 DEF PartsAreRefused
<1>10. n = Len(text) => IF k.kind = "page" THEN Refused(part) ELSE TakenAs(part, Meant(k))
  BY <1>1, <1>5 DEF CallsAreTaken
<1> HIDE DEF part, text, k
<1>11. /\ Processed(c) # Nothing /\ (k.kind = "form" => reading[c].whole)
            => Processed(c) = Meant(k)
       /\ reading[c].whole /\ k.kind # "page" =>
            /\ Processed(c) = Meant(k)
            /\ reading[c].outcome.response = Response(200, BodyOf(Meant(k)))
  BY <1>4, <1>6, <1>7, <1>9, <1>10
<1>12. QED BY <1>11 DEF k

LEMMA ExchangeKeepsInv == ExchangeSpec => []ExchangeInv
BY ExchangeStarts, ExchangeContinues, PTL DEF ExchangeSpec

(* If the parsers refuse every part of a request that is no form, and take *)
(* from a whole one the message that was meant, then no RPC processes a    *)
(* part of a request, in any pool, with any clients, and however requests  *)
(* and descriptors are split and reused.                                   *)
THEOREM RequestsAreHandledWhole ==
    ASSUME PartsAreRefused, CallsAreTaken
    PROVE  ExchangeSpec => []HandledWhole
<1>1. ExchangeInv => HandledWhole
  <2> SUFFICES ASSUME ExchangeInv PROVE HandledWhole
    OBVIOUS
  <2>1. ReadingInv /\ \A c \in Conns : handled[c] \in {Nothing, Processed(c)}
    BY DEF ExchangeInv, HandledInv
  <2>2. QED BY <2>1, ReadingsAreMeant DEF HandledWhole
<1>2. QED BY <1>1, ExchangeKeepsInv, PTL

(* And if the caller's parser takes the body of a response for the message *)
(* it was written from, a remote call is like a local one: with polite     *)
(* clients, what a caller is told is the answer to its own call, as the    *)
(* RPC of its route gave it.                                               *)
THEOREM CallsAreLocal ==
    ASSUME PartsAreRefused, CallsAreTaken, RepliesAreRead
    PROVE  ExchangeSpec => []CallIsLocal
<1>1. ExchangeInv => CallIsLocal
  <2> SUFFICES ASSUME ExchangeInv, polite, NEW c \in Conns,
                      peer[c] = "answered", reading[c].whole, reading[c].call.kind # "page"
               PROVE  /\ handled[c] = Meant(reading[c].call)
                      /\ result[c] \in {Fail, <<Meant(reading[c].call)>>}
    BY DEF CallIsLocal
  <2> DEFINE k == reading[c].call
  <2>1. /\ handled[c] = Processed(c)
        /\ result[c] = reading[c].outcome.response[k]
    BY DEF ExchangeInv, TurnInv
  <2>2. /\ Processed(c) = Meant(k)
        /\ reading[c].outcome.response = Response(200, BodyOf(Meant(k)))
    BY ReadingsAreMeant DEF ExchangeInv
  <2>3. k \in AllCalls
    BY DEF ExchangeInv, ReadingInv, AllCalls
  <2>4. result[c] = Received(DOMAIN k.message, BodyOf(Meant(k)))
    BY <2>1, <2>2, <2>3 DEF Response, Told
  <2>5. QED BY <2>1, <2>2, <2>3, <2>4 DEF RepliesAreRead
<1>2. QED BY <1>1, ExchangeKeepsInv, PTL
=============================================================================
