------------------------------- MODULE TaskQueue -------------------------------
(***************************************************************************)
(* task-queue-service: one RunWorker loop that dequeues the messages of    *)
(* its consumer_service and dispatches them, over the whole message queue. *)
(*                                                                         *)
(* The loop has one Dequeue under way at a time.  It returns, and nothing  *)
(* starts it again, on the first error of a Dequeue and on the first       *)
(* payload that is not a Task; a handler that fails, or that is missing,   *)
(* is only logged.  The thread of the loop is detached: the HTTP server    *)
(* beside it goes on accepting tasks.  CreateTaskRPC and SendTask keep     *)
(* nothing and pass an Enqueue on with a uuid and a timestamp filled in.   *)
(***************************************************************************)
EXTENDS MessageQueue

CONSTANTS
    Service,        \* the consumer_service of the loop
    Malformed,      \* the requests whose payload is no valid Task
    MaxIterations,  \* WorkerOptions::max_iterations, 0 when it is not set
    NoThread        \* no Dequeue under way

ASSUME TaskAssumption ==
    /\ Service \in Consumers
    /\ Malformed \subseteq Ids
    /\ MaxIterations \in Nat
    /\ NoThread \notin Threads
    /\ NoMessage \notin Ids

VARIABLES
    loop,        \* where the loop is
    server,      \* the message-queue thread that serves its Dequeue
    task,        \* the message it received last
    iterations,  \* the polls so far, counted only against a MaxIterations
    runs         \* history: runs[i]: how often the task of message i was run

loopVars == <<loop, server, task, iterations, runs>>
taskVars == <<vars, loopVars>>

TaskTypeOK ==
    /\ loop \in {"poll", "wait", "dispatch", "returned"}
    /\ server \in Threads \union {NoThread}
    /\ task \in Ids \union {NoMessage}
    /\ iterations \in 0 .. MaxIterations
    /\ runs \in [Ids -> Nat]

TaskInit ==
    /\ Init
    /\ loop = "poll"
    /\ server = NoThread
    /\ task = NoMessage
    /\ iterations = 0
    /\ runs = [i \in Ids |-> 0]

-----------------------------------------------------------------------------
(* RunWorker *)

Exhausted == MaxIterations > 0 /\ iterations = MaxIterations

Poll(t, w) ==
    /\ loop = "poll"
    /\ ~ Exhausted
    /\ DequeueCall(t, w, Service)
    /\ loop' = "wait"
    /\ server' = t
    /\ iterations' = IF MaxIterations > 0 THEN iterations + 1 ELSE iterations
    /\ UNCHANGED <<task, runs>>

ReturnOk ==
    /\ loop = "poll"
    /\ Exhausted
    /\ loop' = "returned"
    /\ UNCHANGED <<vars, server, task, iterations, runs>>

\* has_message = false: sleep, then poll again.
PollEmpty ==
    /\ loop = "wait"
    /\ NothingFound(server)
    /\ loop' = "poll"
    /\ server' = NoThread
    /\ UNCHANGED <<task, iterations, runs>>

\* Mutant of PollMessage: has_message is read the wrong way round.
PollAndDrop ==
    /\ loop = "wait"
    /\ Reply(server)
    /\ loop' = "poll"
    /\ server' = NoThread
    /\ UNCHANGED <<task, iterations, runs>>

PollMessage ==
    /\ loop = "wait"
    /\ Reply(server)
    /\ task' = msg[server].id
    /\ loop' = "dispatch"
    /\ server' = NoThread
    /\ UNCHANGED <<iterations, runs>>

\* DequeueRPC answers with an error.
PollFails ==
    /\ loop = "wait"
    /\ UpsertFailed(server)
    /\ loop' = "returned"
    /\ server' = NoThread
    /\ UNCHANGED <<task, iterations, runs>>

\* The connection to the replica, or the one from it to database-service, fails.
PollBreaks ==
    /\ loop = "wait"
    /\ Abort(server)
    /\ loop' = "returned"
    /\ server' = NoThread
    /\ UNCHANGED <<task, iterations, runs>>

\* No answer for 30 seconds: DequeueRPC goes on, unheard.
PollTimeout ==
    /\ loop = "wait"
    /\ loop' = "returned"
    /\ server' = NoThread
    /\ UNCHANGED <<vars, task, iterations, runs>>

\* The handler runs, or is missing; either way the loop goes on.
DispatchTask ==
    /\ loop = "dispatch"
    /\ task \notin Malformed
    /\ runs' = [runs EXCEPT ![task] = @ + 1]
    /\ loop' = "poll"
    /\ task' = NoMessage
    /\ UNCHANGED <<vars, server, iterations>>

ParseFails ==
    /\ loop = "dispatch"
    /\ task \in Malformed
    /\ loop' = "returned"
    /\ task' = NoMessage
    /\ UNCHANGED <<vars, server, iterations, runs>>

-----------------------------------------------------------------------------
(* The message queue and its other clients *)

\* The step of a thread, other than one that ends a Dequeue of the loop.
ThreadStep(t) ==
    \/ \E w \in Workers : ConsumeCall(t, w)
    \/ MessageFound(t)
    \/ UpsertOk(t)

\* The end of a handler whose client is not the loop.  Nobody receives the
\* message of a Dequeue of the loop that it gave up.
OtherEnd(t) ==
    /\ t # server
    /\ \/ NothingFound(t)
       \/ UpsertFailed(t)
       \/ Abort(t)
       \/ /\ msg[t] # NoMessage
          /\ msg[t].status = "pending" \/ msg[t].consumer_service # Service
          /\ Reply(t)

OtherCall(t, w) ==
    \/ \E m \in Message : EnqueueCall(t, w, m)
    \/ \E c \in Consumers \ {Service} : DequeueCall(t, w, c)

\* The loop gets the error that its server gets.
LoopDatabaseCrash ==
    /\ DatabaseCrash
    /\ IF loop = "wait" /\ call[server] # NoCall
       THEN loop' = "returned" /\ server' = NoThread
       ELSE UNCHANGED <<loop, server>>
    /\ UNCHANGED <<task, iterations, runs>>

\* No limit of iterations, as system.gpt.yml sets none, and no crash.
LoopNext ==
    \/ \E t \in Threads, w \in Workers : Poll(t, w)
    \/ PollEmpty
    \/ PollMessage
    \/ PollFails
    \/ PollBreaks
    \/ PollTimeout
    \/ DispatchTask
    \/ ParseFails
    \/ /\ \/ \E t \in Threads : ThreadStep(t) \/ OtherEnd(t)
          \/ \E t \in Threads, w \in Workers : OtherCall(t, w)
          \/ DatabaseStep
          \/ \E w \in Workers : Unheard(w)
       /\ UNCHANGED loopVars

TaskNext == LoopNext \/ ReturnOk \/ LoopDatabaseCrash

\* The loop runs on; a thread that can go on does, and so does database-service:
\* nothing in the code blocks them but a call that is answered or times out.
\* A call may find every worker thread of a server busy with other calls, again
\* and again: it waits in the server's queue of connections, first come first
\* served, which is why the fairness of calls is strong.
Fairness ==
    /\ SF_taskVars(\E t \in Threads, w \in Workers : Poll(t, w))
    /\ WF_taskVars(PollEmpty)
    /\ WF_taskVars(PollMessage)
    /\ WF_taskVars(PollFails)
    /\ WF_taskVars(DispatchTask)
    /\ WF_taskVars(ParseFails)
    /\ \A t \in Threads :
        SF_taskVars((ThreadStep(t) \/ OtherEnd(t)) /\ UNCHANGED loopVars)
    /\ \A w \in Workers :
        WF_taskVars((DB!Step(w) \/ Unheard(w)) /\ UNCHANGED <<threadVars, history, loopVars>>)

TaskSpec == TaskInit /\ [][TaskNext]_taskVars
FairTaskSpec == TaskInit /\ [][LoopNext]_taskVars /\ Fairness

-----------------------------------------------------------------------------

(* One loop dispatches a task at most once, though two Dequeues may return *)
(* the same message: the loop asks for the next message only when it has   *)
(* the one before, or none.                                                *)
RunsOnce == \A i \in Ids : runs[i] <= 1

(* The task that the loop holds or has run is consumed for good: no record *)
(* has its pending copy, so no other loop that asks from now on gets it.   *)
HeldIsConsumed ==
    \A i \in Ids : i = task \/ runs[i] > 0 => \A u \in Uuids : val[u] # sent[i]

\* The record of an accepted message i is that of another request under its uuid,
\* which the loop has run if it is for its service.
Superseded(i) ==
    LET record == val[sent[i].uuid]
    IN  /\ i \in acked
        /\ record # NoMessage
        /\ record.id # i
        /\ record.consumer_service = Service => runs[record.id] > 0

(* A task whose creation was answered is run, or the loop has returned and *)
(* its tasks stay where they are.  When clients reuse the uuid, one of the *)
(* tasks may be replaced before it is picked, or by the consumed copy of   *)
(* the one before it; but then the one that replaced it is run.            *)
TaskIsRun ==
    \A i \in Ids \ Malformed :
        i \in acked /\ sent[i].consumer_service = Service
            ~> runs[i] > 0 \/ Superseded(i) \/ loop = "returned"
=============================================================================
