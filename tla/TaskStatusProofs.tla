--------------------------- MODULE TaskStatusProofs ---------------------------
(***************************************************************************)
(* The safety of one RunWorker loop, and what GetTaskStatusRPC and         *)
(* SystemStatusRPC answer beside it, for every value of the constants.     *)
(*                                                                         *)
(* The loop, with everything that its module adds, takes no step that the  *)
(* message queue does not know (QueueStep), so the inductive invariant of  *)
(* MessageQueueProofs holds here too; LoopInv says what the loop holds in  *)
(* terms of the history of the queue.                                      *)
(*                                                                         *)
(* The status requests leave the queue and the loop alone                  *)
(* (StatusStepsTask), so the theorems about the loop hold with them too.   *)
(* StoredInv says that an answered message has a record that at most an    *)
(* upsert or a crash hides; FoundInv and CountInv say what a query knows   *)
(* of a record that was hidden at no time since the request began.         *)
(***************************************************************************)
EXTENDS TaskStatus, MessageQueueProofs

-----------------------------------------------------------------------------
(* RunWorker *)

\* What the place of the loop says of its other variables.
LoopInv ==
    /\ loop = "wait" <=> server # NoThread
    /\ loop = "dispatch" <=> task # NoMessage
    /\ loop = "wait" => pc[server] # "idle"

\* The thread that serves the loop serves a Dequeue, not an Enqueue.
ServesDequeue ==
    loop = "wait" /\ msg[server] # NoMessage => msg[server].status = "consumed"

\* What the loop holds or has run was delivered, and what it has run was
\* delivered before the Dequeue under way began.
HeldInv ==
    /\ \A i \in Ids : i = task \/ runs[i] > 0 => deliveries[i] > 0
    /\ \A i \in Ids : loop = "wait" /\ runs[i] > 0 => i \in goneBefore[server]
    /\ \A i \in Ids : i = task => runs[i] = 0

TaskInv ==
    /\ IInv
    /\ TaskTypeOK
    /\ LoopInv
    /\ ServesDequeue
    /\ HeldInv
    /\ RunsOnce

-----------------------------------------------------------------------------

USE TaskAssumption

(* Every step of the system is a step of the message queue or leaves it    *)
(* alone.                                                                  *)
LEMMA QueueStep == TaskInv /\ [TaskNext]_taskVars => [Next]_vars
<1> SUFFICES ASSUME TaskInv, [TaskNext]_taskVars PROVE [Next]_vars
  OBVIOUS
<1>0. loop = "wait" => server \in Threads
  BY DEF TaskInv, TaskTypeOK, LoopInv
<1>1. CASE \E t \in Threads, w \in Workers : Poll(t, w)
  BY <1>1 DEF Poll, Next, CallNext
<1>2. CASE ReturnOk \/ PollTimeout \/ DispatchTask \/ ParseFails
  BY <1>2 DEF ReturnOk, PollTimeout, DispatchTask, ParseFails
<1>3. CASE PollEmpty \/ PollMessage \/ PollFails \/ PollBreaks
  BY <1>0, <1>3 DEF PollEmpty, PollMessage, PollFails, PollBreaks, Next, CallNext
<1>4. CASE \E t \in Threads : ThreadStep(t) \/ OtherEnd(t)
  BY <1>4 DEF ThreadStep, OtherEnd, Next, CallNext
<1>5. CASE \E t \in Threads, w \in Workers : OtherCall(t, w)
  BY <1>5 DEF OtherCall, Next, CallNext
<1>6. CASE DatabaseStep \/ \E w \in Workers : Unheard(w)
  BY <1>6 DEF Next, CallNext
<1>7. CASE LoopDatabaseCrash
  BY <1>7 DEF LoopDatabaseCrash, Next, CallNext
<1>8. CASE UNCHANGED taskVars
  BY <1>8 DEF taskVars
<1>9. QED
  BY <1>1, <1>2, <1>3, <1>4, <1>5, <1>6, <1>7, <1>8 DEF TaskNext, LoopNext

-----------------------------------------------------------------------------
(* What the queue does to the history and to the threads *)

(* A message that was delivered stays so.                                  *)
LEMMA DeliveredStays ==
    ASSUME TypeOK, Next
    PROVE  \A i \in Ids : deliveries[i] > 0 => deliveries'[i] > 0
<1>1. deliveries' = deliveries \/ \E i \in Ids : deliveries' = [deliveries EXCEPT ![i] = @ + 1]
  <2>1. CASE \E t \in Threads : Reply(t)
    BY <2>1, MessageShape DEF TypeOK, Reply
  <2>2. CASE ~ \E t \in Threads : Reply(t)
    BY <2>2 DEF Next, CallNext, EnqueueCall, DequeueCall, ConsumeCall, NothingFound,
       MessageFound, UpsertOk, UpsertFailed, Abort, DatabaseStep, Unheard,
       DatabaseCrash, history
  <2>3. QED BY <2>1, <2>2
<1>2. QED BY <1>1 DEF TypeOK

\* Thread s stands where it did, or has gone on in the same Dequeue.
GoesOn(s) ==
    /\ pc'[s] # "idle"
    /\ msg'[s] = msg[s] \/ msg'[s].status = "consumed"
    /\ goneBefore'[s] = goneBefore[s]

(* A thread that is in its handler goes on, unless its own handler ends or *)
(* database-service dies.                                                  *)
LEMMA ThreadGoesOn ==
    ASSUME TaskInv, NEW s \in Threads, pc[s] # "idle",
           \/ \E t \in Threads : ThreadStep(t) \/ OtherEnd(t)
           \/ \E t \in Threads, w \in Workers : OtherCall(t, w)
           \/ DatabaseStep
           \/ \E w \in Workers : Unheard(w),
           server = s
    PROVE  GoesOn(s)
<1> USE DEF TaskInv, IInv, GoesOn
<1>1. CASE \E t \in Threads, w \in Workers : ConsumeCall(t, w)
  BY <1>1 DEF TypeOK, ConsumeCall, history
<1>2. CASE \E t \in Threads : MessageFound(t)
  <2>1. PICK t \in Threads : MessageFound(t)
    BY <1>2
  <2>2. PICK r \in op[call[t]].found :
          r[2] \in Message /\ msg' = [msg EXCEPT ![t] = Consumed(r[2])]
    BY <2>1, FoundShape
  <2>3. msg'[s] = msg[s] \/ msg'[s].status = "consumed"
    BY <2>2, ConsumedShape DEF TypeOK
  <2>4. QED BY <2>1, <2>3 DEF TypeOK, MessageFound, history
<1>3. CASE \E t \in Threads : UpsertOk(t)
  BY <1>3 DEF TypeOK, UpsertOk, history
<1>4. CASE \E t \in Threads : OtherEnd(t)
  BY <1>4 DEF TypeOK, OtherEnd, NothingFound, UpsertFailed, Abort, Reply, Finish
<1>5. CASE \E t \in Threads, w \in Workers : OtherCall(t, w)
  BY <1>5 DEF TypeOK, OtherCall, EnqueueCall, DequeueCall
<1>6. CASE DatabaseStep \/ \E w \in Workers : Unheard(w)
  BY <1>6 DEF DatabaseStep, Unheard, threadVars, history
<1>7. QED BY <1>1, <1>2, <1>3, <1>4, <1>5, <1>6 DEF ThreadStep

-----------------------------------------------------------------------------
(* One lemma per step of the loop *)

LoopPart ==
    /\ TaskTypeOK
    /\ LoopInv
    /\ ServesDequeue
    /\ HeldInv
    /\ RunsOnce

(* The Dequeue of the loop begins after all that the loop has run.         *)
LEMMA PollStep ==
    ASSUME TaskInv, NEW t \in Threads, NEW w \in Workers, Poll(t, w)
    PROVE  LoopPart'
<1> USE DEF TaskInv, IInv
<1>1. TaskTypeOK'
  BY DEF TaskTypeOK, Poll, Exhausted
<1>2. LoopInv'
  BY DEF TypeOK, TaskTypeOK, LoopInv, Poll, DequeueCall
<1>3. ServesDequeue'
  BY DEF TypeOK, ThreadInv, ServesDequeue, Poll, DequeueCall
<1>4. HeldInv'
  BY DEF TypeOK, TaskTypeOK, LoopInv, HeldInv, Delivered, Poll, DequeueCall
<1>5. RunsOnce'
  BY DEF RunsOnce, Poll
<1>6. QED BY <1>1, <1>2, <1>3, <1>4, <1>5 DEF LoopPart

(* An empty answer, an error and a timeout leave the loop empty-handed.    *)
LEMMA PollEndsStep ==
    ASSUME TaskInv, PollEmpty \/ PollFails \/ PollBreaks \/ PollTimeout
    PROVE  LoopPart'
<1> USE DEF TaskInv, IInv
<1>1. /\ loop' \in {"poll", "returned"}
      /\ server' = NoThread
      /\ UNCHANGED <<task, iterations, runs, deliveries>>
      /\ loop = "wait"
  BY DEF PollEmpty, PollFails, PollBreaks, PollTimeout, NothingFound,
     UpsertFailed, Abort, vars, history
<1>2. TaskTypeOK' /\ LoopInv' /\ ServesDequeue' /\ RunsOnce'
  BY <1>1 DEF TaskTypeOK, LoopInv, ServesDequeue, RunsOnce
<1>3. HeldInv'
  BY <1>1 DEF HeldInv
<1>4. QED BY <1>2, <1>3 DEF LoopPart

(* The message of an answer is none that the loop has run.                 *)
LEMMA PollMessageStep ==
    ASSUME TaskInv, PollMessage
    PROVE  LoopPart'
<1> USE DEF TaskInv, IInv
<1>1. /\ server \in Threads
      /\ msg[server] \in Message
      /\ msg[server].id \in Ids
      /\ msg[server].status = "consumed"
      /\ pc[server] = "reply"
  BY MessageShape DEF TypeOK, TaskTypeOK, LoopInv, ThreadInv, ServesDequeue, PollMessage, Reply
<1>2. deliveries' = [deliveries EXCEPT ![msg[server].id] = @ + 1]
  BY <1>1 DEF PollMessage, Reply
<1>3. runs[msg[server].id] = 0
  BY <1>1 DEF TaskTypeOK, NotReturnedAgain, Dequeues, HeldInv, PollMessage
<1>4. TaskTypeOK'
  BY <1>1 DEF TaskTypeOK, PollMessage
<1>5. LoopInv' /\ ServesDequeue' /\ RunsOnce'
  BY <1>1 DEF LoopInv, ServesDequeue, RunsOnce, PollMessage
<1>6. HeldInv'
  BY <1>1, <1>2, <1>3 DEF TypeOK, HeldInv, PollMessage
<1>7. QED BY <1>4, <1>5, <1>6 DEF LoopPart

(* The loop runs what it holds, or returns.                                *)
LEMMA DispatchStep ==
    ASSUME TaskInv, DispatchTask \/ ParseFails \/ ReturnOk
    PROVE  LoopPart'
<1> USE DEF TaskInv, IInv
<1>1. CASE DispatchTask
  <2>1. task \in Ids
    BY <1>1 DEF TaskTypeOK, LoopInv, DispatchTask
  <2>2. TaskTypeOK'
    BY <1>1, <2>1 DEF TaskTypeOK, DispatchTask
  <2>3. LoopInv' /\ ServesDequeue'
    BY <1>1 DEF LoopInv, ServesDequeue, DispatchTask
  <2>4. HeldInv' /\ RunsOnce'
    BY <1>1, <2>1 DEF TaskTypeOK, HeldInv, RunsOnce, DispatchTask, vars, history
  <2>5. QED BY <2>2, <2>3, <2>4 DEF LoopPart
<1>2. CASE ParseFails
  BY <1>2 DEF LoopPart, TaskTypeOK, LoopInv, ServesDequeue, HeldInv, RunsOnce,
     ParseFails, vars, history
<1>3. CASE ReturnOk
  BY <1>3 DEF LoopPart, TaskTypeOK, LoopInv, ServesDequeue, HeldInv, RunsOnce,
     ReturnOk, vars, history
<1>4. QED BY <1>1, <1>2, <1>3

(* While the loop waits, what others do leaves its Dequeue a Dequeue.      *)
LEMMA OthersStep ==
    ASSUME TaskInv, UNCHANGED loopVars,
           \/ \E t \in Threads : ThreadStep(t) \/ OtherEnd(t)
           \/ \E t \in Threads, w \in Workers : OtherCall(t, w)
           \/ DatabaseStep
           \/ \E w \in Workers : Unheard(w)
    PROVE  LoopPart'
<1> USE DEF TaskInv, IInv
<1>1. \A i \in Ids : deliveries[i] > 0 => deliveries'[i] > 0
  BY DeliveredStays DEF Next, CallNext, ThreadStep, OtherEnd, OtherCall
<1>2. loop = "wait" => server \in Threads /\ GoesOn(server)
  BY ThreadGoesOn DEF TaskTypeOK, LoopInv
<1>3. TaskTypeOK' /\ RunsOnce'
  BY DEF TaskTypeOK, RunsOnce, loopVars
<1>4. LoopInv' /\ ServesDequeue'
  BY <1>2 DEF LoopInv, ServesDequeue, GoesOn, loopVars
<1>5. HeldInv'
  BY <1>1, <1>2 DEF HeldInv, GoesOn, loopVars
<1>6. QED BY <1>3, <1>4, <1>5 DEF LoopPart

(* The loop gets the error of its server, or its server was not affected.  *)
LEMMA CrashStep ==
    ASSUME TaskInv, LoopDatabaseCrash
    PROVE  LoopPart'
<1> USE DEF TaskInv, IInv
<1>1. UNCHANGED <<task, iterations, runs, deliveries>>
  BY DEF LoopDatabaseCrash, DatabaseCrash
<1>2. CASE loop = "wait" /\ call[server] # NoCall
  BY <1>1, <1>2 DEF LoopPart, TaskTypeOK, LoopInv, ServesDequeue, HeldInv,
     RunsOnce, LoopDatabaseCrash
<1>3. CASE ~ (loop = "wait" /\ call[server] # NoCall)
  <2>1. loop' = loop /\ server' = server
    BY <1>3 DEF LoopDatabaseCrash
  <2>2. loop = "wait" => server \in Threads /\ GoesOn(server)
    BY <1>3 DEF TypeOK, TaskTypeOK, LoopInv, GoesOn, LoopDatabaseCrash, DatabaseCrash
  <2>3. TaskTypeOK' /\ RunsOnce' /\ LoopInv' /\ ServesDequeue'
    BY <1>1, <2>1, <2>2 DEF TaskTypeOK, RunsOnce, LoopInv, ServesDequeue, GoesOn
  <2>4. HeldInv'
    BY <1>1, <2>1, <2>2 DEF HeldInv, GoesOn
  <2>5. QED BY <2>3, <2>4 DEF LoopPart
<1>4. QED BY <1>2, <1>3

-----------------------------------------------------------------------------

LEMMA TaskInvInit == TaskInit => TaskInv
<1> SUFFICES ASSUME TaskInit PROVE TaskInv
  OBVIOUS
<1>1. IInv
  BY InvInit DEF TaskInit
<1>2. QED
  BY <1>1 DEF TaskInit, TaskInv, TaskTypeOK, LoopInv, ServesDequeue, HeldInv, RunsOnce

LEMMA TaskInvStep == TaskInv /\ [TaskNext]_taskVars => TaskInv'
<1> SUFFICES ASSUME TaskInv, [TaskNext]_taskVars PROVE TaskInv'
  OBVIOUS
<1>1. IInv'
  BY QueueStep, InvStep DEF TaskInv
<1>2. LoopPart'
  <2>1. CASE UNCHANGED taskVars
    BY <2>1 DEF TaskInv, LoopPart, taskVars, vars, loopVars, threadVars, history,
       TaskTypeOK, LoopInv, ServesDequeue, HeldInv, RunsOnce
  <2>2. CASE TaskNext
    BY <2>2, PollStep, PollEndsStep, PollMessageStep, DispatchStep, OthersStep,
       CrashStep DEF TaskNext, LoopNext
  <2>3. QED BY <2>1, <2>2
<1>3. QED BY <1>1, <1>2 DEF TaskInv, LoopPart

(* The inductive invariant of the loop and the queue under it.             *)
THEOREM TaskInvariance == TaskSpec => []TaskInv
BY TaskInvInit, TaskInvStep, PTL DEF TaskSpec

(* The queue under a loop is a message queue: what MessageQueueProofs says *)
(* of Spec holds of it.                                                    *)
THEOREM LoopUsesQueue == TaskSpec => Spec
<1>1. TaskInit => Init
  BY DEF TaskInit
<1>2. QED BY <1>1, QueueStep, TaskInvariance, PTL DEF TaskSpec, Spec

(* The variables of the loop keep their types.                             *)
THEOREM TaskTypeCorrect == TaskSpec => []TaskTypeOK
<1>1. TaskInv => TaskTypeOK
  BY DEF TaskInv
<1>2. QED BY <1>1, TaskInvariance, PTL

(* The loop runs no task twice, whatever is delivered twice to others,     *)
(* times out, is reused or dies.                                           *)
THEOREM TaskRunsOnce == TaskSpec => []RunsOnce
<1>1. TaskInv => RunsOnce
  BY DEF TaskInv
<1>2. QED BY <1>1, TaskInvariance, PTL

(* The pending copy of what the loop holds or has run is stored nowhere.   *)
THEOREM TaskHeldIsConsumed == TaskSpec => []HeldIsConsumed
<1>1. TaskInv => HeldIsConsumed
  <2> SUFFICES ASSUME TaskInv, NEW i \in Ids, i = task \/ runs[i] > 0, NEW u \in Uuids,
                      val[u] = sent[i]
               PROVE  FALSE
    BY DEF HeldIsConsumed
  <2>1. deliveries[i] > 0 /\ sent[i] # NoMessage
    BY DEF TaskInv, IInv, HeldInv, CopyInv
  <2>2. sent[i].id = i /\ sent[i].status = "pending"
    BY <2>1 DEF TaskInv, IInv, SentInv
  <2>3. QED BY <2>1, <2>2 DEF TaskInv, IInv, PendingInv
<1>2. QED BY <1>1, TaskInvariance, PTL

-----------------------------------------------------------------------------
(* GetTaskStatusRPC and SystemStatusRPC *)

\* The record u is there, or hidden.
Stored(u) == val[u] # NoMessage \/ u \in Hidden

StoredInv ==
    /\ \A i \in acked : Stored(sent[i].uuid)
    /\ \A t \in Threads :
        pc[t] = "reply" /\ msg[t].status = "pending" => Stored(msg[t].uuid)
    /\ \A w \in Workers : op[w].stage = "ok" => Stored(op[w].key)

LookShape ==
    /\ look \in [Askers -> {Reads!NoOp} \union
          [stage : {"list", "read", "answer"}, query : Lookups,
           todo : SUBSET Uuids, found : SUBSET (Uuids \X Message)]]
    /\ \A a \in Askers : look[a] # Reads!NoOp => IsFiniteSet(look[a].found)

TouchedInv == \A a \in Askers : asking[a] # "idle" => Hidden \subseteq touched[a]

\* The uuids of the records that a has found.
FoundUuids(a) == {r[1] : r \in look[a].found}

\* GetTaskStatusRPC does not miss a record that was never hidden.
FoundInv(a) ==
    /\ asking[a] = "task"
    /\ look[a].query \in known[a] \ touched[a]
    => /\ val[look[a].query] # NoMessage
       /\ \/ look[a].stage = "list"
          \/ look[a].stage = "read" /\ look[a].query \in look[a].todo
          \/ look[a].found # {}

IsNow(u, status) == val[u] # NoMessage /\ val[u].status = status

\* The query of a, for a status, finds u exactly when u has that status.
Knows(a, u, status) ==
    IF look[a].stage = "list" \/ (look[a].stage = "read" /\ u \in look[a].todo)
    THEN u \notin FoundUuids(a)
    ELSE u \in FoundUuids(a) <=> IsNow(u, status)

CountInv(a) ==
    \A u \in Uuids \ touched[a] :
        /\ asking[a] = "pending" => Knows(a, u, "pending")
        /\ asking[a] \in {"counted", "consumed"} =>
             (u \in pending[a] <=> IsNow(u, "pending"))
        /\ asking[a] = "consumed" => Knows(a, u, "consumed")

\* What GetTaskStatusRPC has found pending was in no client's hands.
FreshInv(a) ==
    /\ received[a] \subseteq Delivered
    /\ asking[a] = "task" =>
        \A r \in look[a].found :
            r[2].status = "pending" => r[2].id \notin received[a]

AskerInv(a) == FoundInv(a) /\ CountInv(a) /\ FreshInv(a)

StatusInv ==
    /\ TaskInv
    /\ StatusTypeOK
    /\ StoredInv
    /\ LookShape
    /\ TouchedInv
    /\ \A a \in Askers : AskerInv(a)

-----------------------------------------------------------------------------
(* The store *)

(* A step of the queue leaves records and hidden records alone, or removes *)
(* one record, or puts one.                                                *)
LEMMA StoreStep ==
    ASSUME IInv, [Next]_vars
    PROVE  \/ val' = val /\ Hidden' = Hidden
           \/ \E w \in Workers : DB!Remove(w) /\ UNCHANGED <<threadVars, history>>
           \/ \E w \in Workers : DB!Put(w) /\ UNCHANGED <<threadVars, history>>
<1> USE DEF IInv, Hidden
<1>1. ASSUME NEW t \in Threads, NEW w \in Workers, NEW m \in Message, EnqueueCall(t, w, m)
      PROVE  val' = val /\ Hidden' = Hidden
  BY <1>1 DEF EnqueueCall, DB!BeginUpsert, DB!NoOp, TypeOK
<1>2. ASSUME NEW t \in Threads, NEW w \in Workers, NEW c \in Consumers, DequeueCall(t, w, c)
      PROVE  val' = val /\ Hidden' = Hidden
  BY <1>2 DEF DequeueCall, DB!BeginQuery, DB!QueryOp, DB!NoOp, TypeOK
<1>3. ASSUME NEW t \in Threads, NEW w \in Workers, ConsumeCall(t, w)
      PROVE  val' = val /\ Hidden' = Hidden
  BY <1>3 DEF ConsumeCall, DB!BeginUpsert, DB!NoOp, TypeOK, history
<1>4. ASSUME NEW w \in Workers, DB!EndQuery(w) \/ DB!EndUpsert(w), UNCHANGED torn
      PROVE  val' = val /\ Hidden' = Hidden
  BY <1>4 DEF DB!EndQuery, DB!EndUpsert, DB!NoOp, TypeOK
<1>5. ASSUME NEW t \in Threads,
             NothingFound(t) \/ MessageFound(t) \/ UpsertOk(t) \/ UpsertFailed(t)
      PROVE  val' = val /\ Hidden' = Hidden
  <2>1. call[t] \in Workers
    BY <1>5 DEF NothingFound, MessageFound, UpsertOk, UpsertFailed, TypeOK, ThreadInv
  <2>2. QED
    BY <1>5, <1>4, <2>1 DEF NothingFound, MessageFound, UpsertOk, UpsertFailed, history
<1>6. ASSUME NEW t \in Threads, Reply(t) \/ Abort(t)
      PROVE  val' = val /\ Hidden' = Hidden
  BY <1>6 DEF Reply, Abort, dbVars
<1>7. ASSUME NEW w \in Workers, Unheard(w)
      PROVE  val' = val /\ Hidden' = Hidden
  BY <1>7, <1>4 DEF Unheard, history
<1>8. CASE DatabaseStep
  <2>1. UNCHANGED <<threadVars, history>>
    BY <1>8 DEF DatabaseStep
  <2>2. PICK w \in Workers : \/ DB!FailUpsert(w)
                             \/ DB!Remove(w)
                             \/ DB!Put(w)
                             \/ DB!List(w)
                             \/ \E k \in Uuids : DB!See(w, k)
                             \/ DB!AnswerQuery(w)
    BY <1>8 DEF DatabaseStep, DB!Internal, DB!Step
  <2>3. CASE DB!FailUpsert(w)
    BY <2>1, <2>3 DEF DB!FailUpsert, TypeOK, history, UpsertOps, QueryOps, DB!NoOp
  <2>4. CASE DB!List(w) \/ (\E k \in Uuids : DB!See(w, k)) \/ DB!AnswerQuery(w)
    BY <2>1, <2>4 DEF DB!List, DB!See, DB!AnswerQuery, DB!QueryOp, TypeOK, history
  <2>5. QED BY <2>1, <2>2, <2>3, <2>4
<1>9. CASE DatabaseCrash
  BY <1>9 DEF DatabaseCrash, DB!Crash, DB!NoOp, TypeOK
<1>10. CASE UNCHANGED vars
  BY <1>10 DEF vars, dbVars, history
<1>11. QED
  BY <1>1, <1>2, <1>3, <1>5, <1>6, <1>7, <1>8, <1>9, <1>10 DEF Next, CallNext

(* What a put or a remove does to the records.                             *)
LEMMA RemoveHides ==
    ASSUME IInv, NEW w \in Workers, DB!Remove(w), torn' = torn
    PROVE  /\ op[w].key \in Hidden'
           /\ Hidden \subseteq Hidden'
           /\ \A u \in Uuids \ {op[w].key} : val'[u] = val[u]
BY OpShape DEF IInv, TypeOK, Hidden, DB!Remove, UpsertOps, UpsertStage

LEMMA PutShows ==
    ASSUME IInv, NEW w \in Workers, DB!Put(w), torn' = torn
    PROVE  /\ op[w].key \in Hidden
           /\ val'[op[w].key] # NoMessage
           /\ \A u \in Hidden : u \in Hidden' \/ u = op[w].key
           /\ \A u \in Uuids \ {op[w].key} : val'[u] = val[u]
           /\ op' = [op EXCEPT ![w].stage = "ok"]
<1>1. op[w] \in UpsertOps /\ op[w].stage = "removed"
  BY OpShape DEF IInv, DB!Put, UpsertStage
<1>2. /\ val' = [val EXCEPT ![op[w].key] = op[w].payload]
      /\ op' = [op EXCEPT ![w].stage = "ok"]
  BY DEF DB!Put
<1>3. op[w].key \in Hidden /\ op[w].key \in Uuids /\ op[w].payload # NoMessage
  BY <1>1, QueueAssumption DEF Hidden, UpsertOps
<1>4. \A x \in Workers \ {w} : op'[x] = op[x]
  BY <1>2 DEF IInv, TypeOK
<1>5. \A u \in Hidden : u \in Hidden' \/ u = op[w].key
  BY <1>4 DEF Hidden
<1>6. QED BY <1>2, <1>3, <1>5 DEF IInv, TypeOK

(* A record that is stored or hidden stays so.                             *)
LEMMA StoredStays ==
    ASSUME IInv, [Next]_vars, NEW u \in Uuids, Stored(u)
    PROVE  Stored(u)'
<1>1. CASE val' = val /\ Hidden' = Hidden
  BY <1>1 DEF Stored
<1>2. ASSUME NEW w \in Workers, DB!Remove(w), UNCHANGED <<threadVars, history>>
      PROVE  Stored(u)'
  BY <1>2, RemoveHides DEF Stored, history
<1>3. ASSUME NEW w \in Workers, DB!Put(w), UNCHANGED <<threadVars, history>>
      PROVE  Stored(u)'
  BY <1>3, PutShows DEF Stored, history
<1>4. QED BY <1>1, <1>2, <1>3, StoreStep

(* Steps that answer no upsert and put nothing keep StoredInv.             *)
LEMMA StoredInvStays ==
    ASSUME IInv, StoredInv, [Next]_vars,
           acked' = acked,
           \A i \in acked : sent'[i] = sent[i],
           \A t \in Threads : pc'[t] = "reply" /\ msg'[t].status = "pending" =>
               pc[t] = "reply" /\ msg'[t] = msg[t],
           \A w \in Workers : op'[w].stage = "ok" => op'[w] = op[w]
    PROVE  StoredInv'
<1>1. \A i \in acked : sent[i].uuid \in Uuids
  BY DEF IInv, TypeOK, CopyInv, Message
<1>2. \A t \in Threads : pc[t] = "reply" => msg[t].uuid \in Uuids
  BY MessageShape DEF IInv, TypeOK, ThreadInv, Message
<1>3. \A w \in Workers : op[w].stage = "ok" => op[w].key \in Uuids
  BY OpShape DEF IInv, UpsertStage, UpsertOps
<1>4. \A i \in acked' : Stored(sent[i].uuid)' /\ sent'[i] = sent[i]
  BY <1>1, StoredStays DEF StoredInv
<1>5. \A t \in Threads : pc'[t] = "reply" /\ msg'[t].status = "pending" =>
          Stored(msg[t].uuid)' /\ msg'[t] = msg[t]
  BY <1>2, StoredStays DEF StoredInv
<1>6. \A w \in Workers : op'[w].stage = "ok" => Stored(op[w].key)' /\ op'[w] = op[w]
  BY <1>3, StoredStays DEF StoredInv
<1>7. QED BY <1>4, <1>5, <1>6 DEF StoredInv, Stored

(* An answered message has a record, or one that is hidden for now.        *)
LEMMA StoredStep ==
    ASSUME IInv, StoredInv, [Next]_vars
    PROVE  StoredInv'
<1> USE DEF IInv, TypeOK
<1>1. ASSUME NEW t \in Threads, NEW w \in Workers, NEW m \in Message, EnqueueCall(t, w, m)
      PROVE  StoredInv'
  <2>1. /\ \A i \in acked : sent'[i] = sent[i]
        /\ \A x \in Workers : op'[x].stage = "ok" => op'[x] = op[x]
        /\ \A s \in Threads : pc'[s] = "reply" => pc[s] = "reply" /\ msg'[s] = msg[s]
    BY <1>1 DEF EnqueueCall, DB!BeginUpsert, CopyInv
  <2>2. QED BY <1>1, <2>1, StoredInvStays DEF EnqueueCall
<1>2. ASSUME NEW t \in Threads, NEW w \in Workers, NEW c \in Consumers, DequeueCall(t, w, c)
      PROVE  StoredInv'
  <2>1. /\ \A x \in Workers : op'[x].stage = "ok" => op'[x] = op[x]
        /\ \A s \in Threads : pc'[s] = "reply" => pc[s] = "reply" /\ msg'[s] = msg[s]
    BY <1>2 DEF DequeueCall, DB!BeginQuery, DB!QueryOp
  <2>2. QED BY <1>2, <2>1, StoredInvStays DEF DequeueCall
<1>3. ASSUME NEW t \in Threads, NEW w \in Workers, ConsumeCall(t, w)
      PROVE  StoredInv'
  <2>1. /\ \A x \in Workers : op'[x].stage = "ok" => op'[x] = op[x]
        /\ \A s \in Threads : pc'[s] = "reply" => pc[s] = "reply" /\ msg'[s] = msg[s]
    BY <1>3 DEF ConsumeCall, DB!BeginUpsert
  <2>2. QED BY <1>3, <2>1, StoredInvStays DEF ConsumeCall, history
<1>4. ASSUME NEW w \in Workers, DB!EndQuery(w) \/ DB!EndUpsert(w)
      PROVE  \A x \in Workers : op'[x].stage = "ok" => op'[x] = op[x]
  BY <1>4 DEF DB!EndQuery, DB!EndUpsert, DB!NoOp
<1>5. ASSUME NEW t \in Threads, NothingFound(t) \/ MessageFound(t) \/ UpsertFailed(t)
      PROVE  StoredInv'
  <2>1. call[t] \in Workers
    BY <1>5 DEF NothingFound, MessageFound, UpsertFailed, ThreadInv
  <2>2. \A s \in Threads : pc'[s] = "reply" => pc[s] = "reply" /\ msg'[s] = msg[s]
    BY <1>5 DEF NothingFound, MessageFound, UpsertFailed, Finish
  <2>3. QED
    BY <1>4, <1>5, <2>1, <2>2, StoredInvStays DEF NothingFound, MessageFound, UpsertFailed,
       history
<1>6. ASSUME NEW t \in Threads, UpsertOk(t) PROVE StoredInv'
  <2>1. call[t] \in Workers /\ op[call[t]] \in UpsertOps /\ op[call[t]].payload = msg[t]
    BY <1>6, OpShape DEF UpsertOk, ThreadInv, UpsertStage
  <2>2. op[call[t]].key = msg[t].uuid
    BY <1>6, <2>1 DEF UpsertOk, CopyInv, UpsertStage
  <2>3. msg[t].uuid \in Uuids /\ Stored(msg[t].uuid)
    BY <1>6, <2>1, <2>2 DEF UpsertOk, StoredInv, UpsertOps
  <2>4. Stored(msg[t].uuid)'
    <3>1. msg' = msg
      BY <1>6 DEF UpsertOk
    <3>2. QED BY <2>3, <3>1, StoredStays DEF Stored
  <2>5. \A x \in Workers : op'[x].stage = "ok" => op'[x] = op[x]
    BY <1>4, <1>6, <2>1 DEF UpsertOk
  <2>6. \A i \in acked : sent[i].uuid \in Uuids
    BY DEF CopyInv, Message
  <2>7. \A s \in Threads \ {t} : pc'[s] = pc[s] /\ msg'[s] = msg[s]
    BY <1>6 DEF UpsertOk
  <2>8. \A s \in Threads : pc[s] = "reply" => msg[s].uuid \in Uuids
    BY MessageShape DEF ThreadInv, Message
  <2>9. \A x \in Workers : op[x].stage = "ok" => op[x].key \in Uuids
    BY OpShape DEF UpsertStage, UpsertOps
  <2>10. (\A i \in acked : Stored(sent[i].uuid))'
    BY <1>6, <2>6, StoredStays DEF UpsertOk, history, StoredInv, Stored
  <2>11. (\A s \in Threads :
             pc[s] = "reply" /\ msg[s].status = "pending" => Stored(msg[s].uuid))'
    BY <1>6, <2>4, <2>7, <2>8, StoredStays DEF UpsertOk, StoredInv, Stored
  <2>12. (\A x \in Workers : op[x].stage = "ok" => Stored(op[x].key))'
    BY <2>5, <2>9, StoredStays DEF StoredInv, Stored
  <2>13. QED BY <2>10, <2>11, <2>12 DEF StoredInv
<1>7. ASSUME NEW t \in Threads, Reply(t) PROVE StoredInv'
  <2>1. /\ UNCHANGED <<dbVars, sent, torn>>
        /\ \A s \in Threads : pc'[s] = "reply" => pc[s] = "reply" /\ msg'[s] = msg[s]
    BY <1>7 DEF Reply, Finish
  <2>2. \A u : Stored(u)' <=> Stored(u)
    BY <2>1 DEF Stored, Hidden, dbVars
  <2>3. \A i \in acked' : Stored(sent[i].uuid)
    <3>1. IsCopy(msg[t]) /\ msg[t].status = "pending" => sent[msg[t].id].uuid = msg[t].uuid
      BY ConsumedShape DEF IsCopy
    <3>2. pc[t] = "reply" /\ msg[t] # NoMessage
      BY <1>7 DEF Reply, ThreadInv
    <3>3. QED BY <1>7, <3>1, <3>2 DEF Reply, CopyInv, StoredInv
  <2>4. QED BY <2>1, <2>2, <2>3 DEF StoredInv, dbVars
<1>8. ASSUME NEW t \in Threads, Abort(t) PROVE StoredInv'
  <2>1. \A s \in Threads : pc'[s] = "reply" => pc[s] = "reply" /\ msg'[s] = msg[s]
    BY <1>8 DEF Abort, Finish
  <2>2. QED BY <1>8, <2>1, StoredInvStays DEF Abort, dbVars
<1>9. ASSUME NEW w \in Workers, Unheard(w) PROVE StoredInv'
  BY <1>4, <1>9, StoredInvStays DEF Unheard, threadVars, history
<1>10. CASE DatabaseStep
  <2>1. UNCHANGED <<threadVars, history>>
    BY <1>10 DEF DatabaseStep
  <2>2. PICK w \in Workers : \/ DB!FailUpsert(w)
                             \/ DB!Remove(w)
                             \/ DB!Put(w)
                             \/ DB!List(w)
                             \/ \E k \in Uuids : DB!See(w, k)
                             \/ DB!AnswerQuery(w)
    BY <1>10 DEF DatabaseStep, DB!Internal, DB!Step
  <2>3. CASE ~ DB!Put(w)
    <3>1. \A x \in Workers : op'[x].stage = "ok" => op'[x] = op[x]
      BY <2>2, <2>3 DEF DB!FailUpsert, DB!Remove, DB!List, DB!See, DB!AnswerQuery,
         DB!QueryOp, UpsertOps, QueryOps, DB!NoOp
    <3>2. QED BY <2>1, <3>1, StoredInvStays DEF threadVars, history
  <2>4. CASE DB!Put(w)
    <3>1. /\ val'[op[w].key] # NoMessage
          /\ op' = [op EXCEPT ![w].stage = "ok"]
      BY <2>1, <2>4, PutShows DEF history
    <3>2. \A x \in Workers : op'[x].stage = "ok" => x = w \/ op'[x] = op[x]
      BY <3>1
    <3>3. op'[w].key = op[w].key
      BY <2>4, <3>1, OpShape DEF DB!Put, UpsertStage, UpsertOps
    <3>4. \A i \in acked : sent[i].uuid \in Uuids
      BY DEF CopyInv, Message
    <3>5. \A s \in Threads : pc[s] = "reply" => msg[s].uuid \in Uuids
      BY MessageShape DEF ThreadInv, Message
    <3>6. \A x \in Workers : op[x].stage = "ok" => op[x].key \in Uuids
      BY OpShape DEF UpsertStage, UpsertOps
    <3>7. (\A i \in acked : Stored(sent[i].uuid))'
      BY <2>1, <3>4, StoredStays DEF history, StoredInv, Stored
    <3>8. (\A s \in Threads :
              pc[s] = "reply" /\ msg[s].status = "pending" => Stored(msg[s].uuid))'
      BY <2>1, <3>5, StoredStays DEF threadVars, StoredInv, Stored
    <3>9. (\A x \in Workers : op[x].stage = "ok" => Stored(op[x].key))'
      BY <3>1, <3>2, <3>3, <3>6, StoredStays DEF StoredInv, Stored
    <3>10. QED BY <3>7, <3>8, <3>9 DEF StoredInv
  <2>5. QED BY <2>3, <2>4
<1>11. CASE DatabaseCrash
  <2>1. /\ \A x \in Workers : op'[x].stage # "ok"
        /\ \A s \in Threads : pc'[s] = "reply" => pc[s] = "reply" /\ msg'[s] = msg[s]
    BY <1>11 DEF DatabaseCrash, DB!Crash, DB!NoOp, ThreadInv
  <2>2. QED BY <1>11, <2>1, StoredInvStays DEF DatabaseCrash
<1>12. CASE UNCHANGED vars
  BY <1>12, StoredInvStays DEF vars, dbVars, threadVars, history
<1>13. QED
  BY <1>1, <1>2, <1>3, <1>5, <1>6, <1>7, <1>8, <1>9, <1>10, <1>11, <1>12
     DEF Next, CallNext

-----------------------------------------------------------------------------
(* The requests *)

(* A request takes no step of the loop or of the queue.                    *)
LEMMA StatusStepsTask == [StatusNext]_allVars => [TaskNext]_taskVars
<1> SUFFICES ASSUME [StatusNext]_allVars PROVE [TaskNext]_taskVars
  OBVIOUS
<1>1. CASE UNCHANGED allVars
  BY <1>1 DEF allVars
<1>2. CASE LoopNext \/ ReturnOk \/ StatusDatabaseCrash
  BY <1>2 DEF StatusDatabaseCrash, TaskNext
<1>3. ASSUME NEW a \in Askers, StatusStep(a), UNCHANGED <<op, threadVars, history, loopVars>>
      PROVE  UNCHANGED taskVars
  <2>1. val' = val
    BY <1>3 DEF StatusStep, AskTask, AnswerTask, AskPending, PendingCounted, AskConsumed,
       AnswerSystem, AskFails, ReadStep, Reads!BeginQuery, Reads!EndQuery, Reads!List,
       Reads!See, Reads!AnswerQuery
  <2>2. QED BY <1>3, <2>1 DEF taskVars, vars, dbVars
<1>4. QED BY <1>1, <1>2, <1>3 DEF StatusNext

(* What a has not been hidden from is as it was.                           *)
LEMMA ValStays ==
    ASSUME StatusInv, [Next]_vars, Observe,
           NEW a \in Askers, asking[a] # "idle", asking'[a] # "idle",
           NEW u \in Uuids, u \notin touched'[a]
    PROVE  val'[u] = val[u] /\ u \notin touched[a]
<1> USE DEF StatusInv, TaskInv
<1>1. u \notin touched[a] /\ u \notin Hidden'
  BY DEF Observe
<1>2. u \notin Hidden
  BY <1>1 DEF TouchedInv
<1>3. ASSUME NEW w \in Workers, DB!Remove(w), UNCHANGED <<threadVars, history>>
      PROVE  val'[u] = val[u]
  BY <1>1, <1>3, RemoveHides DEF history
<1>4. ASSUME NEW w \in Workers, DB!Put(w), UNCHANGED <<threadVars, history>>
      PROVE  val'[u] = val[u]
  BY <1>2, <1>4, PutShows DEF history
<1>5. QED BY <1>1, <1>3, <1>4, StoreStep

(* What clients have received, they have received for good.                *)
LEMMA DeliveredGrows ==
    ASSUME TaskInv, [Next]_vars
    PROVE  Delivered \subseteq Delivered'
<1>1. CASE Next
  BY <1>1, DeliveredStays DEF Delivered, TaskInv, IInv
<1>2. CASE UNCHANGED vars
  BY <1>2 DEF vars, history, Delivered
<1>3. QED BY <1>1, <1>2

(* While a waits, whatever the queue does, it knows what it knew.          *)
LEMMA AskerStays ==
    ASSUME StatusInv, [Next]_vars, Observe, NEW a \in Askers,
           UNCHANGED <<asking[a], look[a], pending[a], known[a], received[a]>>
    PROVE  AskerInv(a)'
<1>1. CASE asking[a] = "idle"
  BY <1>1, DeliveredGrows DEF StatusInv, AskerInv, FoundInv, CountInv, FreshInv
<1>2. CASE asking[a] # "idle"
  <2>1. \A u \in Uuids \ touched'[a] : val'[u] = val[u] /\ u \notin touched[a]
    BY <1>2, ValStays
  <2>2. FoundInv(a)'
    BY <2>1 DEF StatusInv, StatusTypeOK, AskerInv, FoundInv
  <2>3. CountInv(a)'
    BY <2>1 DEF StatusInv, AskerInv, CountInv, Knows, IsNow, FoundUuids
  <2>4. FreshInv(a)'
    BY DeliveredGrows DEF StatusInv, AskerInv, FreshInv
  <2>5. QED BY <2>2, <2>3, <2>4 DEF AskerInv
<1>3. QED BY <1>1, <1>2

(* The requests are always above what is hidden from them.                 *)
LEMMA TouchedStep ==
    ASSUME Observe
    PROVE  TouchedInv'
BY DEF TouchedInv, Observe, Hidden

-----------------------------------------------------------------------------
(* Each step of a request keeps what is known of it. *)

\* The rest of the system stands still.
Alone == UNCHANGED <<val, op, threadVars, history, loopVars>>

\* What the lemmas below say of the action that they are about.
Keeps(a) == StatusTypeOK' /\ LookShape' /\ AskerInv(a)'

(* A step of a request leaves the records and the history alone.           *)
LEMMA AloneFacts ==
    ASSUME StatusInv, Alone, Observe, NEW a \in Askers
    PROVE  /\ UNCHANGED vars
           /\ Hidden' = Hidden
           /\ Delivered' = Delivered
           /\ touched' \in [Askers -> SUBSET Uuids]
           /\ asking[a] # "idle" /\ asking'[a] # "idle" => touched'[a] = touched[a]
           /\ \A u : IsNow(u, "pending")' = IsNow(u, "pending")
           /\ \A u : IsNow(u, "consumed")' = IsNow(u, "consumed")
<1>1. UNCHANGED vars /\ Hidden' = Hidden /\ Delivered' = Delivered
  BY DEF Alone, vars, dbVars, Hidden, Delivered, history
<1>2. Hidden \subseteq Uuids
  BY DEF StatusInv, TaskInv, IInv, TypeOK, Hidden
<1>3. touched' \in [Askers -> SUBSET Uuids]
  BY <1>1, <1>2 DEF Observe, StatusInv, StatusTypeOK
<1>4. asking[a] # "idle" /\ asking'[a] # "idle" => touched'[a] = touched[a]
  BY <1>1 DEF Observe, StatusInv, TouchedInv
<1>5. QED BY <1>1, <1>3, <1>4 DEF Alone, IsNow

(* AskTask and AskPending begin with nothing found.                        *)
LEMMA AskStep ==
    ASSUME StatusInv, Alone, Observe, NEW a \in Askers,
           (\E u \in Uuids : AskTask(a, u)) \/ AskPending(a)
    PROVE  Keeps(a)
<1> USE DEF StatusInv, TaskInv
<1>1. PICK q \in Lookups :
        /\ look' = [look EXCEPT ![a] =
               [stage |-> "list", query |-> q, todo |-> {}, found |-> {}]]
        /\ \/ q \in Uuids /\ asking' = [asking EXCEPT ![a] = "task"]
           \/ q = "pending" /\ asking' = [asking EXCEPT ![a] = "pending"]
        /\ asking[a] = "idle"
        /\ Began(a)
  BY DEF AskTask, AskPending, Reads!BeginQuery, Reads!QueryOp, Lookups
<1>2. {sent[i].uuid : i \in acked} \subseteq Uuids
  BY DEF IInv, TypeOK, CopyInv, Message
<1>3. Delivered \subseteq Ids
  BY DEF Delivered
<1>4. LookShape'
  BY <1>1, FS_EmptySet DEF LookShape, Reads!NoOp
<1>5. StatusTypeOK'
  BY <1>1, <1>2, <1>3, AloneFacts DEF StatusTypeOK, LookShape, Began, Reads!NoOp
<1>6. FoundInv(a)'
  <2>1. SUFFICES ASSUME asking'[a] = "task", q \in known'[a] \ touched'[a]
                 PROVE  val'[q] # NoMessage
    BY <1>1 DEF FoundInv, LookShape
  <2>2. q \notin Hidden
    BY <1>1, <2>1, AloneFacts DEF Observe, StatusTypeOK
  <2>3. PICK i \in acked : q = sent[i].uuid
    BY <1>1, <2>1 DEF Began, StatusTypeOK
  <2>4. QED BY <2>2, <2>3 DEF StoredInv, Stored, Alone
<1>7. CountInv(a)'
  BY <1>1 DEF CountInv, Knows, FoundUuids, StatusTypeOK, LookShape
<1>8. FreshInv(a)'
  BY <1>1, AloneFacts DEF FreshInv, Began, StatusTypeOK, LookShape
<1>9. QED BY <1>4, <1>5, <1>6, <1>7, <1>8 DEF Keeps, AskerInv

(* The end of a request leaves nothing to know.                            *)
LEMMA EndStep ==
    ASSUME StatusInv, Alone, Observe, NEW a \in Askers,
           AnswerTask(a) \/ AnswerSystem(a) \/ AskFails(a)
    PROVE  Keeps(a)
<1> USE DEF StatusInv
<1>1. look' = [look EXCEPT ![a] = Reads!NoOp] /\ Ended(a)
  BY DEF AnswerTask, AnswerSystem, AskFails, Reads!EndQuery
<1>2. LookShape'
  BY <1>1 DEF LookShape
<1>3. StatusTypeOK'
  BY <1>1, AloneFacts DEF StatusTypeOK, Ended, LookShape, Reads!NoOp
<1>4. AskerInv(a)'
  BY <1>1 DEF StatusTypeOK, Ended, AskerInv, FoundInv, CountInv, FreshInv
<1>5. QED BY <1>2, <1>3, <1>4 DEF Keeps

(* PendingCounted keeps what the first query knew; AskConsumed keeps that  *)
(* and knows nothing more yet.                                             *)
LEMMA CountStep ==
    ASSUME StatusInv, Alone, Observe, NEW a \in Askers,
           PendingCounted(a) \/ AskConsumed(a)
    PROVE  Keeps(a)
<1> USE DEF StatusInv
<1>1. CASE PendingCounted(a)
  <2>1. /\ asking[a] = "pending" /\ look[a].stage = "answer"
        /\ look' = [look EXCEPT ![a] = Reads!NoOp]
        /\ asking' = [asking EXCEPT ![a] = "counted"]
        /\ pending' = [pending EXCEPT ![a] = FoundUuids(a)]
        /\ UNCHANGED <<known, received>>
    BY <1>1 DEF PendingCounted, Reads!EndQuery, FoundUuids
  <2>2. FoundUuids(a) \subseteq Uuids
    BY <2>1 DEF FoundUuids, LookShape, Reads!NoOp
  <2>3. LookShape'
    BY <2>1 DEF LookShape
  <2>4. StatusTypeOK'
    BY <2>1, <2>2, AloneFacts DEF StatusTypeOK, LookShape, Reads!NoOp
  <2>5. CountInv(a)'
    <3>1. \A u \in Uuids \ touched[a] : u \in FoundUuids(a) <=> IsNow(u, "pending")
      BY <2>1 DEF AskerInv, CountInv, Knows
    <3>2. touched'[a] = touched[a] /\ pending'[a] = FoundUuids(a) /\ asking'[a] = "counted"
      BY <2>1, AloneFacts DEF StatusTypeOK
    <3>3. QED BY <3>1, <3>2, AloneFacts DEF CountInv
  <2>6. FoundInv(a)' /\ FreshInv(a)'
    BY <2>1, AloneFacts DEF FoundInv, FreshInv, StatusTypeOK, AskerInv
  <2>7. QED BY <2>3, <2>4, <2>5, <2>6 DEF Keeps, AskerInv
<1>2. CASE AskConsumed(a)
  <2>1. /\ asking[a] = "counted"
        /\ look' = [look EXCEPT ![a] =
               [stage |-> "list", query |-> "consumed", todo |-> {}, found |-> {}]]
        /\ asking' = [asking EXCEPT ![a] = "consumed"]
        /\ UNCHANGED <<pending, known, received>>
    BY <1>2 DEF AskConsumed, Reads!BeginQuery, Reads!QueryOp
  <2>2. LookShape'
    BY <2>1, FS_EmptySet DEF LookShape, Lookups, Reads!NoOp
  <2>3. StatusTypeOK'
    BY <2>1, AloneFacts DEF StatusTypeOK, LookShape, Reads!NoOp
  <2>4. CountInv(a)'
    <3>1. touched'[a] = touched[a] /\ asking'[a] = "consumed" /\ look'[a].found = {}
            /\ look'[a].stage = "list"
      BY <2>1, AloneFacts DEF StatusTypeOK, LookShape
    <3>2. QED BY <2>1, <3>1, AloneFacts DEF CountInv, Knows, FoundUuids, AskerInv
  <2>5. FoundInv(a)' /\ FreshInv(a)'
    BY <2>1, AloneFacts DEF FoundInv, FreshInv, StatusTypeOK, AskerInv
  <2>6. QED BY <2>2, <2>3, <2>4, <2>5 DEF Keeps, AskerInv
<1>3. QED BY <1>1, <1>2

(* A query in progress is of a request that waits for it.                  *)
LEMMA Reading ==
    ASSUME StatusInv, NEW a \in Askers, look[a].stage \in {"list", "read"}
    PROVE  /\ asking[a] \in {"task", "pending", "consumed"}
           /\ look[a] \in [stage : {"list", "read", "answer"}, query : Lookups,
                 todo : SUBSET Uuids, found : SUBSET (Uuids \X Message)]
           /\ IsFiniteSet(look[a].found)
           /\ asking[a] = "task" => look[a].query \in Uuids
           /\ asking[a] # "task" => look[a].query = asking[a]
BY DEF StatusInv, StatusTypeOK, LookShape, Reads!NoOp

(* The listing names every record that was not hidden.                     *)
LEMMA ListingStep ==
    ASSUME StatusInv, Alone, Observe, NEW a \in Askers, Reads!List(a),
           UNCHANGED <<asking, pending, known, received>>
    PROVE  Keeps(a)
<1> USE DEF StatusInv
<1>1. PICK T \in SUBSET Uuids :
        /\ {k \in Uuids : val[k] # NoMessage} \subseteq T
        /\ look' = [look EXCEPT ![a] =
               [stage |-> "read", query |-> look[a].query, todo |-> T, found |-> {}]]
  BY DEF Reads!List, Reads!QueryOp
<1>2. look[a].stage = "list"
  BY DEF Reads!List
<1>3. look'[a] = [stage |-> "read", query |-> look[a].query, todo |-> T, found |-> {}]
  BY <1>1 DEF LookShape
<1>4. asking[a] # "idle" /\ touched'[a] = touched[a]
  BY <1>2, Reading, AloneFacts
<1>5. LookShape'
  BY <1>1, <1>2, Reading, FS_EmptySet DEF LookShape
<1>6. StatusTypeOK'
  BY <1>1, <1>2, AloneFacts, Reading DEF StatusTypeOK, LookShape, Reads!NoOp
<1>7. FoundInv(a)'
  BY <1>1, <1>2, <1>3, <1>4, Reading DEF FoundInv, AskerInv, Alone
<1>8. CountInv(a)'
  <2> SUFFICES ASSUME NEW u \in Uuids \ touched'[a]
               PROVE  (/\ asking[a] = "pending" => Knows(a, u, "pending")
                       /\ asking[a] \in {"counted", "consumed"} =>
                            (u \in pending[a] <=> IsNow(u, "pending"))
                       /\ asking[a] = "consumed" => Knows(a, u, "consumed"))'
    BY DEF CountInv
  <2>1. ASSUME NEW s PROVE Knows(a, u, s)'
    BY <1>1, <1>3 DEF Knows, FoundUuids, IsNow, Alone
  <2>2. asking[a] = "consumed" => (u \in pending[a] <=> IsNow(u, "pending"))
    BY <1>4 DEF AskerInv, CountInv
  <2>3. asking[a] # "counted"
    BY <1>2, Reading
  <2>4. QED BY <2>1, <2>2, <2>3, AloneFacts
<1>9. FreshInv(a)'
  BY <1>3, AloneFacts DEF FreshInv, AskerInv
<1>10. QED BY <1>5, <1>6, <1>7, <1>8, <1>9 DEF Keeps, AskerInv

(* See finds the record if it is the one, or has the status, asked for.    *)
LEMMA SeeRecordStep ==
    ASSUME StatusInv, Alone, Observe, NEW a \in Askers, NEW k \in Uuids, Reads!See(a, k),
           UNCHANGED <<asking, pending, known, received>>
    PROVE  Keeps(a)
<1> USE DEF StatusInv
<1> DEFINE q == look[a].query
           seen == IF val[k] \in Wanted(q) THEN {<<k, val[k]>>} ELSE {}
<1>1. /\ look[a].stage = "read" /\ k \in look[a].todo /\ q \in Lookups
      /\ look' = [look EXCEPT ![a] =
            [stage |-> "read", query |-> q, todo |-> look[a].todo \ {k},
             found |-> look[a].found \union seen]]
  BY Reading DEF Reads!See, Reads!QueryOp
<1>2. look'[a] = [stage |-> "read", query |-> q, todo |-> look[a].todo \ {k},
                  found |-> look[a].found \union seen]
  BY <1>1 DEF LookShape
<1>3. asking[a] # "idle" /\ touched'[a] = touched[a]
  BY <1>1, Reading, AloneFacts
<1>4. seen \subseteq Uuids \X Message /\ IsFiniteSet(seen)
  <2>1. CASE val[k] \in Wanted(q)
    <3>1. seen = {<<k, val[k]>>} /\ val[k] \in Message
      BY <2>1 DEF Wanted
    <3>2. IsFiniteSet({<<k, val[k]>>})
      BY FS_Singleton
    <3>3. QED BY <3>1, <3>2
  <2>2. CASE val[k] \notin Wanted(q)
    <3>1. seen = {}
      BY <2>2
    <3>2. QED BY <3>1, FS_EmptySet
  <2>3. QED BY <2>1, <2>2
<1>5. IsFiniteSet(look[a].found \union seen)
  BY <1>1, <1>4, Reading, FS_Union
<1>6. LookShape'
  BY <1>1, <1>4, <1>5, Reading DEF LookShape
<1>7. StatusTypeOK'
  BY <1>1, AloneFacts, Reading DEF StatusTypeOK, LookShape, Reads!NoOp
<1>8. val[k] # NoMessage => val[k] \in Message /\ val[k].uuid = k
  BY DEF TaskInv, IInv, TypeOK, CopyInv
<1>9. FoundInv(a)'
  <2>1. SUFFICES ASSUME asking[a] = "task", q \in known[a] \ touched[a]
                 PROVE  /\ val[q] # NoMessage
                        /\ q \in look[a].todo \ {k} \/ look[a].found \union seen # {}
    BY <1>2, <1>3 DEF FoundInv, Alone
  <2>2. val[q] # NoMessage /\ (q \in look[a].todo \/ look[a].found # {})
    BY <1>1, <2>1 DEF AskerInv, FoundInv
  <2>3. q = k => seen # {}
    BY <1>8, <2>1, <2>2 DEF StatusTypeOK, Wanted
  <2>4. QED BY <2>2, <2>3
<1>10. CountInv(a)'
  <2>1. ASSUME NEW s \in {"pending", "consumed"}, s = q, asking[a] = s,
               NEW u \in Uuids \ touched[a]
        PROVE  Knows(a, u, s)'
    <3>1. Knows(a, u, s)
      BY <2>1 DEF AskerInv, CountInv
    <3>2. q \notin Uuids
      BY <2>1, StatusAssumption
    <3>3. k \in {r[1] : r \in seen} <=> IsNow(k, s)
      BY <1>8, <2>1, <3>2, QueueAssumption DEF Wanted, IsNow
    <3>4. FoundUuids(a)' = FoundUuids(a) \union {r[1] : r \in seen}
      BY <1>2 DEF FoundUuids
    <3>5. {r[1] : r \in seen} \subseteq {k}
      OBVIOUS
    <3>6. IsNow(u, s)' = IsNow(u, s)
      BY <2>1, AloneFacts
    <3>7. CASE u = k
      BY <1>1, <1>2, <3>1, <3>3, <3>4, <3>6, <3>7 DEF Knows
    <3>8. CASE u # k
      BY <1>1, <1>2, <3>1, <3>4, <3>5, <3>6, <3>8 DEF Knows
    <3>9. QED BY <3>7, <3>8
  <2>2. asking[a] \in {"counted", "consumed"} => \A u \in Uuids \ touched[a] :
          u \in pending[a] <=> IsNow(u, "pending")
    BY DEF AskerInv, CountInv
  <2>3. asking[a] # "task" => q = asking[a]
    BY <1>1, Reading
  <2>4. QED BY <1>3, <2>1, <2>2, <2>3, AloneFacts DEF CountInv
<1>11. FreshInv(a)'
  <2>1. \A r \in seen : r[2].status = "pending" => r[2].id \notin Delivered
    <3>1. CASE val[k] \in Wanted(q)
      <4>1. val[k] # NoMessage /\ seen = {<<k, val[k]>>}
        BY <3>1, QueueAssumption DEF Wanted
      <4>2. val[k].status = "pending" => val[k].id \notin Delivered
        BY <4>1, <1>8 DEF TaskInv, IInv, PendingInv, Delivered
      <4>3. QED BY <4>1, <4>2
    <3>2. CASE val[k] \notin Wanted(q)
      BY <3>2
    <3>3. QED BY <3>1, <3>2
  <2>2. QED BY <1>2, <2>1, AloneFacts DEF FreshInv, AskerInv
<1>12. QED BY <1>6, <1>7, <1>9, <1>10, <1>11 DEF Keeps, AskerInv

(* The counts are of everything that was found; the answer for one uuid is *)
(* not empty when something was found.                                     *)
LEMMA AnswerStep ==
    ASSUME StatusInv, Alone, Observe, NEW a \in Askers, Reads!AnswerQuery(a),
           UNCHANGED <<asking, pending, known, received>>
    PROVE  Keeps(a)
<1> USE DEF StatusInv
<1> DEFINE q == look[a].query
           n == IF q \in Uuids THEN 1 ELSE 0
<1>1. look[a].stage = "read" /\ look[a].todo = {} /\ q \in Lookups
  BY Reading DEF Reads!AnswerQuery
<1>2. PICK R \in SUBSET look[a].found :
        /\ R = look[a].found \/ (n > 0 /\ Reads!Cardinality(R) = n)
        /\ look' = [look EXCEPT ![a] =
              [stage |-> "answer", query |-> q, todo |-> {}, found |-> R]]
  BY <1>1 DEF Reads!AnswerQuery, Reads!Answers, Reads!QueryOp
<1>3. look'[a] = [stage |-> "answer", query |-> q, todo |-> {}, found |-> R]
  BY <1>2 DEF LookShape
<1>4. asking[a] # "idle" /\ touched'[a] = touched[a]
  BY <1>1, Reading, AloneFacts
<1>5. q \notin Uuids => R = look[a].found
  BY <1>2
<1>6. look[a].found # {} => R # {}
  <2>1. Reads!Cardinality(R) = Cardinality(R)
    BY DEF Reads!Cardinality, Cardinality
  <2>2. Cardinality({}) = 0
    BY FS_EmptySet
  <2>3. CASE R = look[a].found
    BY <2>3
  <2>4. CASE n > 0 /\ Reads!Cardinality(R) = n
    <3>1. Cardinality(R) # 0
      BY <2>1, <2>4, n \in {0, 1}
    <3>2. QED BY <2>2, <3>1
  <2>5. QED BY <1>2, <2>3, <2>4
<1>7. IsFiniteSet(R)
  BY <1>1, Reading, FS_Subset
<1>8. LookShape'
  BY <1>1, <1>2, <1>7, Reading DEF LookShape
<1>9. StatusTypeOK'
  BY <1>1, <1>2, AloneFacts, Reading DEF StatusTypeOK, LookShape, Reads!NoOp
<1>10. FoundInv(a)'
  BY <1>1, <1>3, <1>4, <1>6 DEF FoundInv, AskerInv, Alone
<1>11. CountInv(a)'
  <2>1. asking[a] \in {"pending", "consumed"} => FoundUuids(a)' = FoundUuids(a)
    BY <1>1, <1>3, <1>5, Reading, StatusAssumption DEF FoundUuids
  <2>2. QED
    BY <1>1, <1>3, <1>4, <2>1, AloneFacts, Reading DEF CountInv, AskerInv, Knows
<1>12. FreshInv(a)'
  BY <1>3, AloneFacts DEF FreshInv, AskerInv
<1>13. QED BY <1>8, <1>9, <1>10, <1>11, <1>12 DEF Keeps, AskerInv

-----------------------------------------------------------------------------
(* The theorems *)

(* The invariant holds at the start.                                       *)
LEMMA StatusInvInit == StatusInit => StatusInv
<1> SUFFICES ASSUME StatusInit PROVE StatusInv
  OBVIOUS
<1>1. TaskInv
  BY TaskInvInit DEF StatusInit
<1>2. StatusTypeOK /\ LookShape /\ TouchedInv
  BY DEF StatusInit, StatusTypeOK, LookShape, TouchedInv
<1>3. StoredInv
  BY DEF StatusInit, TaskInit, Init, DB!Init, DB!NoOp, StoredInv
<1>4. \A a \in Askers : AskerInv(a)
  BY DEF StatusInit, AskerInv, FoundInv, CountInv, FreshInv
<1>5. QED BY <1>1, <1>2, <1>3, <1>4 DEF StatusInv

(* Every step keeps the invariant.                                         *)
LEMMA StatusInvStep == StatusInv /\ [StatusNext]_allVars => StatusInv'
<1> SUFFICES ASSUME StatusInv, [StatusNext]_allVars PROVE StatusInv'
  OBVIOUS
<1>1. [TaskNext]_taskVars /\ [Next]_vars
  BY StatusStepsTask, QueueStep DEF StatusInv
<1>2. TaskInv' /\ StoredInv'
  BY <1>1, TaskInvStep, StoredStep DEF StatusInv, TaskInv
<1>3. CASE UNCHANGED allVars
  BY <1>2, <1>3 DEF allVars, taskVars, vars, dbVars, threadVars, history, statusVars,
     StatusInv, StatusTypeOK, LookShape, TouchedInv, Hidden, AskerInv, FoundInv, CountInv,
     FreshInv, Knows, IsNow, FoundUuids, Delivered
<1>4. CASE StatusNext
  <2>1. Observe /\ TouchedInv'
    BY <1>4, TouchedStep DEF StatusNext
  <2>2. touched' \in [Askers -> SUBSET Uuids]
    <3>1. Hidden' \subseteq Uuids
      BY <1>2 DEF TaskInv, IInv, TypeOK, Hidden
    <3>2. QED BY <2>1, <3>1 DEF Observe, StatusInv, StatusTypeOK
  <2>3. CASE (LoopNext \/ ReturnOk) /\ UNCHANGED <<look, asking, pending, known, received>>
    <3>1. \A a \in Askers : AskerInv(a)'
      BY <1>1, <2>1, <2>3, AskerStays
    <3>2. StatusTypeOK' /\ LookShape'
      BY <2>2, <2>3 DEF StatusInv, StatusTypeOK, LookShape
    <3>3. QED BY <1>2, <2>1, <3>1, <3>2 DEF StatusInv
  <2>4. CASE StatusDatabaseCrash
    <3>1. StatusTypeOK' /\ LookShape'
      BY <2>2, <2>4 DEF StatusDatabaseCrash, StatusInv, StatusTypeOK, LookShape, Reads!NoOp
    <3>2. ASSUME NEW a \in Askers PROVE AskerInv(a)'
      <4>1. CASE look[a] = Reads!NoOp
        BY <1>1, <2>1, <2>4, <4>1, AskerStays
           DEF StatusDatabaseCrash, StatusInv, StatusTypeOK, LookShape
      <4>2. CASE look[a] # Reads!NoOp
        BY <2>4, <4>2 DEF StatusDatabaseCrash, AskerInv, FoundInv, CountInv, FreshInv
      <4>3. QED BY <4>1, <4>2
    <3>3. QED BY <1>2, <2>1, <3>1, <3>2 DEF StatusInv
  <2>5. ASSUME NEW a \in Askers, StatusStep(a), UNCHANGED <<op, threadVars, history, loopVars>>
        PROVE  StatusInv'
    <3>1. Alone
      BY <2>5 DEF Alone, StatusStep, AskTask, AnswerTask, AskPending, PendingCounted,
         AskConsumed, AnswerSystem, AskFails, ReadStep, Reads!BeginQuery, Reads!EndQuery,
         Reads!List, Reads!See, Reads!AnswerQuery
    <3>2. ASSUME (\E u \in Uuids : AskTask(a, u)) \/ AskPending(a) PROVE Keeps(a)
      BY <2>1, <3>1, <3>2, AskStep
    <3>3. ASSUME AnswerTask(a) \/ AnswerSystem(a) \/ AskFails(a) PROVE Keeps(a)
      BY <2>1, <3>1, <3>3, EndStep
    <3>4. ASSUME PendingCounted(a) \/ AskConsumed(a) PROVE Keeps(a)
      BY <2>1, <3>1, <3>4, CountStep
    <3>5. ASSUME ReadStep(a), UNCHANGED <<asking, pending, known, received>> PROVE Keeps(a)
      BY <2>1, <3>1, <3>5, ListingStep, SeeRecordStep, AnswerStep DEF ReadStep
    <3>6. Keeps(a)
      BY <2>5, <3>2, <3>3, <3>4, <3>5 DEF StatusStep
    <3>7. ASSUME NEW b \in Askers \ {a} PROVE AskerInv(b)'
      <4>1. UNCHANGED <<asking[b], look[b], pending[b], known[b], received[b]>>
        BY <2>5 DEF StatusInv, StatusTypeOK, LookShape, StatusStep, AskTask, AnswerTask,
           AskPending, PendingCounted, AskConsumed, AnswerSystem, AskFails, ReadStep,
           Began, Ended, Reads!BeginQuery, Reads!EndQuery, Reads!List, Reads!See,
           Reads!AnswerQuery
      <4>2. QED BY <1>1, <2>1, <4>1, AskerStays
    <3>8. QED BY <1>2, <2>1, <3>6, <3>7 DEF StatusInv, Keeps
  <2>6. QED BY <1>4, <2>3, <2>4, <2>5 DEF StatusNext
<1>5. QED BY <1>3, <1>4

(* The inductive invariant of the requests and everything under them.      *)
THEOREM StatusInvariance == StatusSpec => []StatusInv
BY StatusInvInit, StatusInvStep, PTL DEF StatusSpec

(* With its status requests the service is still the loop over the queue:  *)
(* what is proved of the loop and of the queue holds of it.                *)
THEOREM StatusUsesTask == StatusSpec => TaskSpec
<1>1. StatusInit => TaskInit
  BY DEF StatusInit
<1>2. QED BY <1>1, StatusStepsTask, PTL DEF StatusSpec, TaskSpec

(* The variables of the requests keep their types.                         *)
THEOREM StatusTypeCorrect == StatusSpec => []StatusTypeOK
<1>1. StatusInv => StatusTypeOK
  BY DEF StatusInv
<1>2. QED BY <1>1, StatusInvariance, PTL

(* A task is reported missing only if its record was hidden meanwhile.     *)
THEOREM TaskFound == StatusSpec => []TaskIsFound
<1>1. StatusInv => TaskIsFound
  BY DEF StatusInv, AskerInv, FoundInv, TaskIsFound, AnswerOf
<1>2. QED BY <1>1, StatusInvariance, PTL

(* A task that a worker received is not reported as pending afterwards.    *)
THEOREM ReceivedReported == StatusSpec => []ReceivedIsConsumed
<1>1. StatusInv => ReceivedIsConsumed
  BY DEF StatusInv, AskerInv, FreshInv, ReceivedIsConsumed, AnswerOf
<1>2. QED BY <1>1, StatusInvariance, PTL

(* A message whose record was never hidden is counted once, and right.     *)
THEOREM CountsAreExact == StatusSpec => []CountedOnce
<1>1. StatusInv => CountedOnce
  BY DEF StatusInv, AskerInv, CountInv, CountedOnce, Knows, IsNow, FoundUuids
<1>2. QED BY <1>1, StatusInvariance, PTL
=============================================================================
