----------------------------- MODULE MessageQueue -----------------------------
(***************************************************************************)
(* message-queue: EnqueueRPC and DequeueRPC, run by the HTTP worker        *)
(* threads of all replicas of the service over the one collection          *)
(* "message-queue" of database-service.                                    *)
(*                                                                         *)
(* A handler keeps nothing between requests and takes no lock: a Dequeue   *)
(* is a query and then an upsert of the consumed copy of what it found,    *)
(* and between the two any other thread may act.  The client of a handler, *)
(* or the handler as the client of database-service, may give up while the *)
(* other side still works on the call.                                     *)
(***************************************************************************)
EXTENDS Naturals, FiniteSets

CONSTANTS
    Threads,      \* the HTTP worker threads of the message-queue replicas
    Workers,      \* the HTTP worker threads of database-service
    Uuids,        \* the uuids of messages
    ClientUuids,  \* those that clients supply; the others are generated
    Consumers,    \* the values of consumer_service
    Times,        \* timestamps
    Ids,          \* the Enqueue requests of a behavior
    DatabaseDies, \* whether database-service may die and be restarted
    NoMessage,    \* no message, and no record under a uuid
    NoCall        \* a thread that does not wait for database-service

\* The type and the payload of a message play no part in what happens to it;
\* the id (not in the code) tells one Enqueue request from another.
Message == [id : Ids, uuid : Uuids, timestamp : Times,
            consumer_service : Consumers, status : {"pending", "consumed"}]

ASSUME QueueAssumption ==
    /\ Times \subseteq Nat
    /\ ClientUuids \subseteq Uuids
    /\ DatabaseDies \in BOOLEAN
    /\ NoMessage \notin Message
    /\ NoCall \notin Workers

VARIABLES
    val, op,      \* the records and the calls in database-service
    pc,           \* pc[t]: where thread t is in its handler
    call,         \* call[t]: the database worker that t waits for
    msg,          \* msg[t]: the local variable msg of the handler
    sent,         \* history: sent[i] is the message that request i enqueues
    acked,        \* history: the requests whose client got an answer
    deliveries,   \* history: how many clients received message i
    ackedBefore,  \* history: acked and the delivered messages at the
    goneBefore,   \*          time when the Dequeue of thread t began
    torn          \* history: uuids with an upsert half done in a crash

dbVars == <<val, op>>
threadVars == <<pc, call, msg>>
history == <<sent, acked, deliveries, ackedBefore, goneBefore, torn>>
vars == <<dbVars, threadVars, history>>

\* where status == "pending", where consumer_service == c, order by timestamp,
\* limit 1.
DB == INSTANCE RecordStore WITH
    Keys <- Uuids,
    Payloads <- Message,
    Queries <- Consumers,
    Match <- [c \in Consumers |->
                {m \in Message : m.status = "pending" /\ m.consumer_service = c}],
    Rank <- [c \in Consumers |-> [m \in Message |-> m.timestamp]],
    Limit <- [c \in Consumers |-> 1],
    Absent <- NoMessage

\* Mutant of Consumed: a status that no reader of the collection knows.
MisspeltConsumed(m) == [m EXCEPT !.status = "done"]

Consumed(m) == [m EXCEPT !.status = "consumed"]

Delivered == {i \in Ids : deliveries[i] > 0}

UpsertOps == [stage : {"begun", "removed", "ok", "failed"}, key : Uuids,
              payload : Message]

QueryOps == [stage : {"list", "read", "answer"}, query : Consumers,
             todo : SUBSET Uuids, found : SUBSET (Uuids \X Message)]

TypeOK ==
    /\ val \in [Uuids -> Message \union {NoMessage}]
    /\ op \in [Workers -> {DB!NoOp} \union UpsertOps \union QueryOps]
    /\ pc \in [Threads -> {"idle", "query", "consume", "upsert", "reply"}]
    /\ call \in [Threads -> Workers \union {NoCall}]
    /\ msg \in [Threads -> Message \union {NoMessage}]
    /\ sent \in [Ids -> Message \union {NoMessage}]
    /\ acked \in SUBSET Ids
    /\ deliveries \in [Ids -> Nat]
    /\ ackedBefore \in [Threads -> SUBSET Ids]
    /\ goneBefore \in [Threads -> SUBSET Ids]
    /\ torn \in SUBSET Uuids

Init ==
    /\ DB!Init
    /\ pc = [t \in Threads |-> "idle"]
    /\ call = [t \in Threads |-> NoCall]
    /\ msg = [t \in Threads |-> NoMessage]
    /\ sent = [i \in Ids |-> NoMessage]
    /\ acked = {}
    /\ deliveries = [i \in Ids |-> 0]
    /\ ackedBefore = [t \in Threads |-> {}]
    /\ goneBefore = [t \in Threads |-> {}]
    /\ torn = {}

\* The handler of t is over.
Finish(t) ==
    /\ pc' = [pc EXCEPT ![t] = "idle"]
    /\ call' = [call EXCEPT ![t] = NoCall]
    /\ msg' = [msg EXCEPT ![t] = NoMessage]
    /\ ackedBefore' = [ackedBefore EXCEPT ![t] = {}]
    /\ goneBefore' = [goneBefore EXCEPT ![t] = {}]

-----------------------------------------------------------------------------
(* EnqueueRPC *)

\* A uuid that the client supplied may have been used before (the probes
\* enqueue the same uuid every time); generate_uuid_v4 makes a new one.
MayBeUuid(u) ==
    u \in ClientUuids \/ \A i \in Ids : sent[i] # NoMessage => sent[i].uuid # u

EnqueueCall(t, w, m) ==
    /\ pc[t] = "idle"
    /\ sent[m.id] = NoMessage
    /\ m.status = "pending"
    /\ MayBeUuid(m.uuid)
    /\ DB!BeginUpsert(w, m.uuid, m)
    /\ pc' = [pc EXCEPT ![t] = "upsert"]
    /\ call' = [call EXCEPT ![t] = w]
    /\ msg' = [msg EXCEPT ![t] = m]
    /\ sent' = [sent EXCEPT ![m.id] = m]
    /\ UNCHANGED <<acked, deliveries, ackedBefore, goneBefore, torn>>

-----------------------------------------------------------------------------
(* DequeueRPC *)

DequeueCall(t, w, c) ==
    /\ pc[t] = "idle"
    /\ DB!BeginQuery(w, c)
    /\ pc' = [pc EXCEPT ![t] = "query"]
    /\ call' = [call EXCEPT ![t] = w]
    /\ ackedBefore' = [ackedBefore EXCEPT ![t] = acked]
    /\ goneBefore' = [goneBefore EXCEPT ![t] = Delivered]
    /\ UNCHANGED <<msg, sent, acked, deliveries, torn>>

\* NotFound: the answer is has_message = false.
NothingFound(t) ==
    /\ pc[t] = "query"
    /\ op[call[t]].found = {}
    /\ DB!EndQuery(call[t])
    /\ Finish(t)
    /\ UNCHANGED <<sent, acked, deliveries, torn>>

\* Mutant of MessageFound: the answer is sent before the consumed copy is stored.
AnswerAtOnce(t) ==
    /\ pc[t] = "query"
    /\ \E r \in op[call[t]].found : msg' = [msg EXCEPT ![t] = Consumed(r[2])]
    /\ DB!EndQuery(call[t])
    /\ pc' = [pc EXCEPT ![t] = "reply"]
    /\ call' = [call EXCEPT ![t] = NoCall]
    /\ UNCHANGED history

MessageFound(t) ==
    /\ pc[t] = "query"
    /\ \E r \in op[call[t]].found : msg' = [msg EXCEPT ![t] = Consumed(r[2])]
    /\ DB!EndQuery(call[t])
    /\ pc' = [pc EXCEPT ![t] = "consume"]
    /\ call' = [call EXCEPT ![t] = NoCall]
    /\ UNCHANGED history

ConsumeCall(t, w) ==
    /\ pc[t] = "consume"
    /\ DB!BeginUpsert(w, msg[t].uuid, msg[t])
    /\ pc' = [pc EXCEPT ![t] = "upsert"]
    /\ call' = [call EXCEPT ![t] = w]
    /\ UNCHANGED <<msg, history>>

-----------------------------------------------------------------------------
(* The end of both handlers *)

UpsertOk(t) ==
    /\ pc[t] = "upsert"
    /\ op[call[t]].stage = "ok"
    /\ DB!EndUpsert(call[t])
    /\ pc' = [pc EXCEPT ![t] = "reply"]
    /\ call' = [call EXCEPT ![t] = NoCall]
    /\ UNCHANGED <<msg, history>>

\* Mutant of UpsertFailed: the result of db->Upsert is not looked at.
ErrorIgnored(t) ==
    /\ pc[t] = "upsert"
    /\ op[call[t]].stage = "failed"
    /\ DB!EndUpsert(call[t])
    /\ pc' = [pc EXCEPT ![t] = "reply"]
    /\ call' = [call EXCEPT ![t] = NoCall]
    /\ UNCHANGED <<msg, history>>

UpsertFailed(t) ==
    /\ pc[t] = "upsert"
    /\ op[call[t]].stage = "failed"
    /\ DB!EndUpsert(call[t])
    /\ Finish(t)
    /\ UNCHANGED <<sent, acked, deliveries, torn>>

\* The client receives the uuid that it enqueued, or the message.
Reply(t) ==
    /\ pc[t] = "reply"
    /\ IF msg[t].status = "pending"
       THEN /\ acked' = acked \union {msg[t].id}
            /\ UNCHANGED deliveries
       ELSE /\ deliveries' = [deliveries EXCEPT ![msg[t].id] = @ + 1]
            /\ UNCHANGED acked
    /\ Finish(t)
    /\ UNCHANGED <<dbVars, sent, torn>>

\* The connection to database-service fails or is silent for 30 seconds, the
\* replica dies, or the client is gone when the answer comes.
Abort(t) ==
    /\ pc[t] # "idle"
    /\ Finish(t)
    /\ UNCHANGED <<dbVars, sent, acked, deliveries, torn>>

-----------------------------------------------------------------------------
(* database-service *)

DatabaseStep ==
    /\ DB!Internal
    /\ UNCHANGED <<threadVars, history>>

\* The answer to a call that its caller gave up.
Unheard(w) ==
    /\ \A t \in Threads : call[t] # w
    /\ DB!EndUpsert(w) \/ DB!EndQuery(w)
    /\ UNCHANGED <<threadVars, history>>

\* Every handler that waits for database-service gets an error.
DatabaseCrash ==
    LET waits(t) == call[t] # NoCall
    IN  /\ DatabaseDies
        /\ DB!Crash
        /\ pc' = [t \in Threads |-> IF waits(t) THEN "idle" ELSE pc[t]]
        /\ call' = [t \in Threads |-> NoCall]
        /\ msg' = [t \in Threads |-> IF waits(t) THEN NoMessage ELSE msg[t]]
        /\ ackedBefore' = [t \in Threads |-> IF waits(t) THEN {} ELSE ackedBefore[t]]
        /\ goneBefore' = [t \in Threads |-> IF waits(t) THEN {} ELSE goneBefore[t]]
        /\ torn' = torn \union
             {u \in Uuids : \E w \in Workers : op[w].stage = "removed" /\ op[w].key = u}
        /\ UNCHANGED <<sent, acked, deliveries>>

CallNext ==
    \/ \E t \in Threads :
        \/ \E w \in Workers :
            \/ \E m \in Message : EnqueueCall(t, w, m)
            \/ \E c \in Consumers : DequeueCall(t, w, c)
            \/ ConsumeCall(t, w)
        \/ NothingFound(t)
        \/ MessageFound(t)
        \/ UpsertOk(t)
        \/ UpsertFailed(t)
        \/ Reply(t)
        \/ Abort(t)
    \/ DatabaseStep
    \/ \E w \in Workers : Unheard(w)

Next == CallNext \/ DatabaseCrash

CallSpec == Init /\ [][CallNext]_vars
Spec == Init /\ [][Next]_vars

-----------------------------------------------------------------------------

\* Thread t is about to give the message msg[t] to its client.
Dequeues(t) == pc[t] \in {"consume", "upsert", "reply"} /\ msg[t].status = "consumed"

(* Once a client has received a message, no Dequeue that begins afterwards *)
(* picks it, whatever calls were still under way: the consumed copy is     *)
(* stored before DequeueRPC answers, and nothing writes the pending copy   *)
(* back.                                                                   *)
NotReturnedAgain ==
    \A t \in Threads : Dequeues(t) => msg[t].id \notin goneBefore[t]

(* DequeueRPC picks in the order of the timestamps: a message that was     *)
(* enqueued, and answered, before the call began is not passed over for a  *)
(* younger one of the same consumer while it stays pending.                *)
FifoOrder ==
    \A t \in Threads, i \in Ids :
        /\ Dequeues(t)
        /\ i \in ackedBefore[t]
        /\ sent[i].consumer_service = msg[t].consumer_service
        /\ sent[i].timestamp < msg[t].timestamp
        => val[sent[i].uuid] # sent[i]

(* When DequeueRPC answers that it has no message, none that was enqueued  *)
(* and answered before the call began is pending: an upsert that hides a   *)
(* record from the query leaves it consumed, or replaced by another.       *)
EmptyAnswer ==
    \A t \in Threads, i \in Ids :
        /\ pc[t] = "query"
        /\ op[call[t]].stage = "answer"
        /\ op[call[t]].found = {}
        /\ i \in ackedBefore[t]
        /\ sent[i].consumer_service = op[call[t]].query
        => val[sent[i].uuid] # sent[i]

\* Message i has a record, or one that an upsert replaces, or one that a crash
\* tore, or shares its uuid with another message.
Kept(i) ==
    \/ val[sent[i].uuid] \in {sent[i], Consumed(sent[i])}
    \/ \E w \in Workers : op[w].stage = "removed" /\ op[w].key = sent[i].uuid
    \/ sent[i].uuid \in torn
    \/ \E j \in Ids \ {i} : sent[j] # NoMessage /\ sent[j].uuid = sent[i].uuid

(* A message whose Enqueue was answered is kept, pending or consumed, as   *)
(* long as no other message reuses its uuid: its record is missing only    *)
(* while an upsert replaces it, and lost only when database-service dies   *)
(* at that moment.                                                         *)
AckedIsKept == \A i \in acked : Kept(i)

(* rpc_test.gpt.cc names its last Dequeue test                             *)
(* ConsumedMessageNotReturnedAgain: no message is given to two clients.    *)
(* Two Dequeues that overlap both find it pending.                         *)
AtMostOnce == \A i \in Ids : deliveries[i] <= 1
=============================================================================
