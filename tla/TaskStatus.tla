------------------------------ MODULE TaskStatus ------------------------------
(***************************************************************************)
(* task-queue-service: GetTaskStatusRPC and SystemStatusRPC, beside the    *)
(* loop and the message queue.                                             *)
(*                                                                         *)
(* Both only read the collection "message-queue", while handlers replace   *)
(* its records.  The first is one query for one uuid.  The second counts   *)
(* the pending messages with one query and the consumed ones with another. *)
(***************************************************************************)
EXTENDS TaskQueue

CONSTANT Askers  \* HTTP worker threads of task-queue-service

VARIABLES
    look,      \* look[a]: the query of a in database-service
    asking,    \* asking[a]: where a is in its handler
    pending,   \* pending[a]: the local variable pending_vec
    known,     \* history: the uuids of the requests that had been answered, and
    received,  \*          the messages that clients had, when a began
    touched    \* history: the records that a could not see at some time since

statusVars == <<look, asking, pending, known, received, touched>>
allVars == <<taskVars, statusVars>>

\* A query for a uuid or, the other two, for a status.
Lookups == Uuids \union {"pending", "consumed"}

\* No uuid is the name of a status.
ASSUME StatusAssumption == Uuids \intersect {"pending", "consumed"} = {}

\* Mutant of Wanted: GetTaskStatusRPC looks at the queue of DequeueRPC.
WantedPending(q) ==
    IF q \in Uuids THEN {m \in Message : m.uuid = q /\ m.status = "pending"}
    ELSE {m \in Message : m.status = q}

Wanted(q) ==
    IF q \in Uuids THEN {m \in Message : m.uuid = q}
    ELSE {m \in Message : m.status = q}

\* The same records, read by other threads of database-service.
Reads == INSTANCE RecordStore WITH
    op <- look,
    Workers <- Askers,
    Keys <- Uuids,
    Payloads <- Message,
    Queries <- Lookups,
    Match <- [q \in Lookups |-> Wanted(q)],
    Rank <- [q \in Lookups |-> [m \in Message |-> 0]],
    Limit <- [q \in Lookups |-> IF q \in Uuids THEN 1 ELSE 0],
    Absent <- NoMessage

StatusTypeOK ==
    /\ asking \in [Askers -> {"idle", "task", "pending", "counted", "consumed"}]
    /\ \A a \in Askers :
        /\ asking[a] \in {"idle", "counted"} <=> look[a] = Reads!NoOp
        /\ asking[a] = "task" => look[a].query \in Uuids
        /\ asking[a] \in {"pending", "consumed"} => look[a].query = asking[a]
    /\ pending \in [Askers -> SUBSET Uuids]
    /\ known \in [Askers -> SUBSET Uuids]
    /\ received \in [Askers -> SUBSET Ids]
    /\ touched \in [Askers -> SUBSET Uuids]

StatusInit ==
    /\ TaskInit
    /\ look = [a \in Askers |-> Reads!NoOp]
    /\ asking = [a \in Askers |-> "idle"]
    /\ pending = [a \in Askers |-> {}]
    /\ known = [a \in Askers |-> {}]
    /\ received = [a \in Askers |-> {}]
    /\ touched = [a \in Askers |-> {}]

\* The records that no query finds for now.
Hidden ==
    torn \union
    {u \in Uuids : \E w \in Workers : op[w].stage = "removed" /\ op[w].key = u}

Began(a) ==
    /\ known' = [known EXCEPT ![a] = {sent[i].uuid : i \in acked}]
    /\ received' = [received EXCEPT ![a] = Delivered]
    /\ UNCHANGED pending

Ended(a) ==
    /\ asking' = [asking EXCEPT ![a] = "idle"]
    /\ pending' = [pending EXCEPT ![a] = {}]
    /\ known' = [known EXCEPT ![a] = {}]
    /\ received' = [received EXCEPT ![a] = {}]

-----------------------------------------------------------------------------
(* GetTaskStatusRPC *)

AskTask(a, u) ==
    /\ asking[a] = "idle"
    /\ Reads!BeginQuery(a, u)
    /\ asking' = [asking EXCEPT ![a] = "task"]
    /\ Began(a)

\* "task not found", or the fields of the message.
AnswerTask(a) ==
    /\ asking[a] = "task"
    /\ Reads!EndQuery(a)
    /\ Ended(a)

-----------------------------------------------------------------------------
(* SystemStatusRPC *)

AskPending(a) ==
    /\ asking[a] = "idle"
    /\ Reads!BeginQuery(a, "pending")
    /\ asking' = [asking EXCEPT ![a] = "pending"]
    /\ Began(a)

PendingCounted(a) ==
    /\ asking[a] = "pending"
    /\ Reads!EndQuery(a)
    /\ asking' = [asking EXCEPT ![a] = "counted"]
    /\ pending' = [pending EXCEPT ![a] = {r[1] : r \in look[a].found}]
    /\ UNCHANGED <<known, received>>

\* Mutant of AskConsumed: the second query is a copy of the first.
AskPendingAgain(a) ==
    /\ asking[a] = "counted"
    /\ Reads!BeginQuery(a, "pending")
    /\ asking' = [asking EXCEPT ![a] = "consumed"]
    /\ UNCHANGED <<pending, known, received>>

AskConsumed(a) ==
    /\ asking[a] = "counted"
    /\ Reads!BeginQuery(a, "consumed")
    /\ asking' = [asking EXCEPT ![a] = "consumed"]
    /\ UNCHANGED <<pending, known, received>>

AnswerSystem(a) ==
    /\ asking[a] = "consumed"
    /\ Reads!EndQuery(a)
    /\ Ended(a)

-----------------------------------------------------------------------------

\* The query fails, or takes more than 30 seconds, or the client is gone.
AskFails(a) ==
    /\ asking[a] # "idle"
    /\ look' = [look EXCEPT ![a] = Reads!NoOp]
    /\ Ended(a)
    /\ UNCHANGED val

ReadStep(a) ==
    \/ Reads!List(a)
    \/ \E u \in Uuids : Reads!See(a, u)
    \/ Reads!AnswerQuery(a)

StatusStep(a) ==
    \/ \E u \in Uuids : AskTask(a, u)
    \/ AnswerTask(a)
    \/ AskPending(a)
    \/ PendingCounted(a)
    \/ AskConsumed(a)
    \/ AnswerSystem(a)
    \/ AskFails(a)
    \/ ReadStep(a) /\ UNCHANGED <<asking, pending, known, received>>

\* Every query in progress fails.
StatusDatabaseCrash ==
    LET waits(a) == look[a] # Reads!NoOp
    IN  /\ LoopDatabaseCrash
        /\ look' = [a \in Askers |-> Reads!NoOp]
        /\ asking' = [a \in Askers |-> IF waits(a) THEN "idle" ELSE asking[a]]
        /\ pending' = [a \in Askers |-> IF waits(a) THEN {} ELSE pending[a]]
        /\ known' = [a \in Askers |-> IF waits(a) THEN {} ELSE known[a]]
        /\ received' = [a \in Askers |-> IF waits(a) THEN {} ELSE received[a]]

\* History: what was hidden when a began, or at any time since.
Observe ==
    touched' = [a \in Askers |->
        IF asking'[a] = "idle" THEN {}
        ELSE IF asking[a] = "idle" THEN Hidden' ELSE touched[a] \union Hidden']

StatusNext ==
    /\ \/ (LoopNext \/ ReturnOk) /\ UNCHANGED <<look, asking, pending, known, received>>
       \/ StatusDatabaseCrash
       \/ /\ \E a \in Askers : StatusStep(a)
          /\ UNCHANGED <<op, threadVars, history, loopVars>>
    /\ Observe

StatusSpec == StatusInit /\ [][StatusNext]_allVars

-----------------------------------------------------------------------------

\* What the query of a has found.
AnswerOf(a) == {r[2] : r \in look[a].found}

(* GetTaskStatusRPC answers that a task does not exist, though its         *)
(* creation was answered before, only when an upsert had removed its       *)
(* record for a moment since, or a crash had torn it.                      *)
TaskIsFound ==
    \A a \in Askers :
        /\ asking[a] = "task"
        /\ look[a].stage = "answer"
        /\ look[a].query \in known[a] \ touched[a]
        => AnswerOf(a) # {}

(* GetTaskStatusRPC does not report a task as pending that some worker has *)
(* received before the call began.                                         *)
ReceivedIsConsumed ==
    \A a \in Askers :
        asking[a] = "task" =>
            \A m \in AnswerOf(a) : m.status = "pending" => m.id \notin received[a]

(* The two counts of SystemStatusRPC hold a message once, and as what it   *)
(* is, unless an upsert of its record overlapped the call: only then may   *)
(* it be in both of them, or in none.                                      *)
CountedOnce ==
    \A a \in Askers :
        asking[a] = "consumed" /\ look[a].stage = "answer" =>
            \A u \in Uuids \ touched[a] :
                /\ u \in pending[a] <=>
                     val[u] # NoMessage /\ val[u].status = "pending"
                /\ u \in {r[1] : r \in look[a].found} <=>
                     val[u] # NoMessage /\ val[u].status = "consumed"
=============================================================================
