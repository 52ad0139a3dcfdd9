-------------------------- MODULE MessageQueueProofs --------------------------
(***************************************************************************)
(* The safety of MessageQueue, for every value of its constants.  IInv is  *)
(* the inductive invariant: what it adds to the three properties says      *)
(* where copies of a message can be.  A message that is sent and not yet   *)
(* put has no copy besides the one its upsert carries (OneCopyUntilPut),   *)
(* so that, once it was consumed, nobody is left to write the pending copy *)
(* again (GoneIsGone).                                                     *)
(***************************************************************************)
EXTENDS MessageQueue, FiniteSetTheorems, TLAPS

IsCopy(m) ==
    /\ m \in Message
    /\ sent[m.id] \in Message
    /\ m = sent[m.id] \/ m = Consumed(sent[m.id])

UpsertStage(s) == s \in {"begun", "removed", "ok", "failed"}
QueryStage(s) == s \in {"list", "read", "answer"}

\* An upsert that has not put its payload yet.
Unput(w) == op[w].stage \in {"begun", "removed"}

SentInv ==
    \A i \in Ids : sent[i] # NoMessage => sent[i].id = i /\ sent[i].status = "pending"

\* Every message anywhere is a copy of one that was sent, under its own uuid.
CopyInv ==
    /\ \A u \in Uuids : val[u] # NoMessage => IsCopy(val[u]) /\ val[u].uuid = u
    /\ \A w \in Workers : UpsertStage(op[w].stage) =>
        IsCopy(op[w].payload) /\ op[w].key = op[w].payload.uuid
    /\ \A w \in Workers : QueryStage(op[w].stage) =>
        \A r \in op[w].found :
            /\ IsCopy(r[2])
            /\ r[2].uuid = r[1]
            /\ r[2].status = "pending"
            /\ r[2].consumer_service = op[w].query
    /\ \A t \in Threads : msg[t] # NoMessage => IsCopy(msg[t])
    /\ \A i \in Ids : i \in acked \/ deliveries[i] > 0 => sent[i] # NoMessage

\* What a thread's pc says of its other variables.
ThreadInv ==
    /\ \A t \in Threads :
        /\ pc[t] \in {"idle", "query"} <=> msg[t] = NoMessage
        /\ pc[t] \in {"query", "upsert"} <=> call[t] # NoCall
        /\ pc[t] = "query" => QueryStage(op[call[t]].stage)
        /\ pc[t] = "upsert" =>
            UpsertStage(op[call[t]].stage) /\ op[call[t]].payload = msg[t]
        /\ pc[t] = "consume" => msg[t].status = "consumed"
        /\ ackedBefore[t] \subseteq acked
        /\ goneBefore[t] \subseteq Delivered
    /\ \A s, t \in Threads : call[s] = call[t] /\ call[s] # NoCall => s = t

OneCopyUntilPut ==
    \A w \in Workers, i \in Ids :
        sent[i] # NoMessage /\ Unput(w) /\ op[w].payload = sent[i] =>
            /\ \A u \in Uuids : val[u] # NoMessage => val[u].id # i
            /\ \A x \in Workers \ {w} :
                /\ UpsertStage(op[x].stage) => op[x].payload.id # i
                /\ QueryStage(op[x].stage) => \A r \in op[x].found : r[2].id # i
            /\ \A t \in Threads :
                msg[t] # NoMessage /\ msg[t].id = i => pc[t] = "upsert" /\ call[t] = w
            /\ i \notin acked
            /\ deliveries[i] = 0

FoundFinite ==
    \A w \in Workers : QueryStage(op[w].stage) => IsFiniteSet(op[w].found)

\* While the pending copy of a message is stored, nobody has put the other.
PendingInv ==
    \A u \in Uuids : val[u] # NoMessage /\ val[u].status = "pending" =>
        /\ deliveries[val[u].id] = 0
        /\ \A t \in Threads :
            pc[t] = "reply" /\ msg[t].id = val[u].id => msg[t].status = "pending"
        /\ \A w \in Workers :
            op[w].stage = "ok" /\ op[w].payload.id = val[u].id =>
                op[w].payload.status = "pending"

\* A query finds nothing that was delivered before its Dequeue began.
QueryFresh ==
    \A t \in Threads : pc[t] = "query" =>
        \A r \in op[call[t]].found : r[2].id \notin goneBefore[t]

\* The query o will read the record of m, or found m, or answers with messages
\* that are not younger.
Sees(o, m) ==
    \/ o.stage = "list"
    \/ o.stage = "read" /\ m.uuid \in o.todo
    \/ o.stage = "read" /\ <<m.uuid, m>> \in o.found
    \/ /\ o.stage = "answer"
       /\ o.found # {}
       /\ \A r \in o.found : r[2].timestamp <= m.timestamp

\* A query misses no message that was enqueued before its Dequeue began.
QuerySees ==
    \A t \in Threads, i \in Ids :
        /\ pc[t] = "query"
        /\ i \in ackedBefore[t]
        /\ sent[i].consumer_service = op[call[t]].query
        /\ val[sent[i].uuid] = sent[i]
        => Sees(op[call[t]], sent[i])

\* Once the pending copy of a message is put, the message is kept.
KeptInv ==
    \A i \in Ids :
        /\ i \in acked => Kept(i)
        /\ \A t \in Threads :
            pc[t] = "reply" /\ msg[t].status = "pending" /\ msg[t].id = i => Kept(i)
        /\ \A w \in Workers :
            op[w].stage = "ok" /\ op[w].payload.status = "pending" /\ op[w].payload.id = i
                => Kept(i)

IInv ==
    /\ TypeOK
    /\ SentInv
    /\ CopyInv
    /\ FoundFinite
    /\ ThreadInv
    /\ OneCopyUntilPut
    /\ PendingInv
    /\ QueryFresh
    /\ QuerySees
    /\ NotReturnedAgain
    /\ FifoOrder
    /\ KeptInv

-----------------------------------------------------------------------------
(* Shapes *)

USE QueueAssumption

(* What the stage of a call says of its shape.                             *)
LEMMA OpShape ==
    ASSUME TypeOK, NEW w \in Workers
    PROVE  /\ op[w] = DB!NoOp \/ op[w] \in UpsertOps \/ op[w] \in QueryOps
           /\ UpsertStage(op[w].stage) => op[w] \in UpsertOps
           /\ QueryStage(op[w].stage) => op[w] \in QueryOps
           /\ op[w].stage = "idle" => op[w] = DB!NoOp
BY DEF TypeOK, UpsertStage, QueryStage, UpsertOps, QueryOps, DB!NoOp

(* The consumed copy differs in its status only.                           *)
LEMMA ConsumedShape ==
    ASSUME NEW m \in Message
    PROVE  /\ Consumed(m) \in Message
           /\ Consumed(m).id = m.id
           /\ Consumed(m).uuid = m.uuid
           /\ Consumed(m).timestamp = m.timestamp
           /\ Consumed(m).consumer_service = m.consumer_service
           /\ Consumed(m).status = "consumed"
BY DEF Message, Consumed

(* The fields of a message.                                                *)
LEMMA MessageShape ==
    ASSUME NEW m \in Message
    PROVE  /\ m.id \in Ids
           /\ m.uuid \in Uuids
           /\ m.timestamp \in Nat
           /\ m.consumer_service \in Consumers
           /\ m.status \in {"pending", "consumed"}
           /\ m # NoMessage
BY DEF Message

(* A copy agrees with what was sent, and its status says which copy it is. *)
LEMMA CopyShape ==
    ASSUME TypeOK, SentInv, NEW m, IsCopy(m)
    PROVE  /\ m.id \in Ids
           /\ sent[m.id] # NoMessage
           /\ m.uuid = sent[m.id].uuid
           /\ m.timestamp = sent[m.id].timestamp
           /\ m.consumer_service = sent[m.id].consumer_service
           /\ m.status = "pending" => m = sent[m.id]
           /\ m.status # "pending" => m.status = "consumed" /\ m = Consumed(sent[m.id])
BY ConsumedShape, MessageShape DEF SentInv, IsCopy

\* The record that a query found.
LEMMA FoundShape ==
    ASSUME TypeOK, CopyInv, ThreadInv, NEW t \in Threads, MessageFound(t)
    PROVE  \E r \in op[call[t]].found :
              /\ r[2] \in Message
              /\ IsCopy(r[2])
              /\ r[2].consumer_service = op[call[t]].query
              /\ r[2].id \in Ids
              /\ msg' = [msg EXCEPT ![t] = Consumed(r[2])]
              /\ call[t] \in Workers
              /\ op[call[t]] \in QueryOps
              /\ op[call[t]].stage = "answer"
<1>1. PICK r \in op[call[t]].found : msg' = [msg EXCEPT ![t] = Consumed(r[2])]
  BY DEF MessageFound
<1>2. call[t] \in Workers /\ op[call[t]].stage = "answer"
  BY DEF MessageFound, DB!EndQuery, TypeOK, ThreadInv
<1>3. op[call[t]] \in QueryOps
  BY <1>2, OpShape DEF QueryStage
<1>4. IsCopy(r[2]) /\ r[2].consumer_service = op[call[t]].query
  BY <1>1, <1>2 DEF CopyInv, QueryStage
<1>5. QED BY <1>1, <1>2, <1>3, <1>4, MessageShape DEF IsCopy

\* What is kept stays kept when no record changes.
LEMMA KeptStays ==
    ASSUME NEW i \in Ids, sent[i] # NoMessage, Kept(i),
           val' = val, torn' = torn,
           \A j \in Ids : sent[j] # NoMessage => sent'[j] = sent[j],
           \A w \in Workers : op[w].stage = "removed" => op'[w] = op[w]
    PROVE  Kept(i)'
BY DEF Kept, Consumed

(* RecordStore counts with the Cardinality of its own instance.            *)
LEMMA SameCardinality == \A S : DB!Cardinality(S) = Cardinality(S)
BY DEF DB!Cardinality, Cardinality

\* ORDER_BY and LIMIT 1: the answer R to a query that saw the record s.
LEMMA AnswerShape ==
    ASSUME NEW seen, IsFiniteSet(seen), NEW R \in SUBSET seen,
           R = seen \/ Cardinality(R) = 1,
           Cardinality(R) <= 1,
           NEW s \in seen,
           \A r \in R, x \in seen \ R : r[2].timestamp <= x[2].timestamp
    PROVE  R # {} /\ \A r \in R : r = s \/ r[2].timestamp <= s[2].timestamp
<1>1. IsFiniteSet(R) /\ Cardinality(R) \in Nat
  BY FS_Subset, FS_CardinalityType
<1>2. R # {}
  BY FS_EmptySet
<1>3. Cardinality(R) # 0
  BY <1>1, <1>2, FS_EmptySet
<1>4. PICK x : R = {x}
  BY <1>1, <1>3, FS_Singleton
<1>5. QED BY <1>2, <1>4

-----------------------------------------------------------------------------
(* Each action keeps the invariant, one conjunct after the other.          *)

(* EnqueueCall keeps IInv.                                                  *)
LEMMA EnqueueCallStep ==
    ASSUME IInv, NEW t \in Threads, NEW w \in Workers, NEW m \in Message, EnqueueCall(t, w, m)
    PROVE  IInv'
<1> USE DEF IInv
<1>1. TypeOK'
  BY ConsumedShape, MessageShape DEF TypeOK, UpsertOps, QueryOps, DB!NoOp,
     Delivered, EnqueueCall, DB!BeginUpsert
<1>2. SentInv'
  BY DEF TypeOK, SentInv, EnqueueCall, DB!BeginUpsert
<1>3. CopyInv'
  <2>1. \A u \in Uuids : val'[u] # NoMessage => IsCopy(val[u])' /\ val'[u].uuid = u
    BY MessageShape DEF TypeOK, CopyInv, ThreadInv, IsCopy, SentInv,
       EnqueueCall, DB!BeginUpsert
  <2>2. \A x \in Workers : UpsertStage(op'[x].stage) =>
            IsCopy(op[x].payload)' /\ op'[x].key = op'[x].payload.uuid
    <3>1. IsCopy(m)'
      BY MessageShape DEF TypeOK, IsCopy, EnqueueCall
    <3>2. /\ op'[w].payload = m /\ op'[w].key = m.uuid
          /\ \A y \in Workers \ {w} : op'[y] = op[y]
      BY DEF TypeOK, EnqueueCall, DB!BeginUpsert
    <3>3. \A y \in Workers \ {w} : IsCopy(op[y].payload) => IsCopy(op[y].payload)'
      BY <3>2, MessageShape DEF TypeOK, IsCopy, EnqueueCall
    <3>4. SUFFICES ASSUME NEW y \in Workers, UpsertStage(op'[y].stage)
                   PROVE  IsCopy(op[y].payload)' /\ op'[y].key = op'[y].payload.uuid
      OBVIOUS
    <3>5. CASE y = w
      BY <3>1, <3>2, <3>5 DEF IsCopy
    <3>6. CASE y # w
      BY <3>2, <3>3, <3>4, <3>6 DEF CopyInv
    <3>7. QED BY <3>5, <3>6
  <2>3. \A x \in Workers : QueryStage(op'[x].stage) =>
            \A r \in op'[x].found :
                /\ IsCopy(r[2])'
                /\ r[2].uuid = r[1]
                /\ r[2].status = "pending"
                /\ r[2].consumer_service = op'[x].query
    <3>1. /\ ~ QueryStage(op'[w].stage)
          /\ \A y \in Workers \ {w} : op'[y] = op[y]
      BY DEF TypeOK, QueryStage, EnqueueCall, DB!BeginUpsert
    <3>2. \A n : IsCopy(n) => IsCopy(n)'
      BY MessageShape DEF TypeOK, IsCopy, EnqueueCall
    <3>3. QED BY <3>1, <3>2 DEF CopyInv
  <2>4. \A s \in Threads : msg'[s] # NoMessage => IsCopy(msg[s])'
    BY MessageShape DEF TypeOK, CopyInv, ThreadInv, IsCopy, EnqueueCall,
       DB!BeginUpsert
  <2>5. \A i \in Ids : i \in acked' \/ deliveries'[i] > 0 => sent'[i] # NoMessage
    BY MessageShape DEF TypeOK, CopyInv, EnqueueCall, DB!BeginUpsert
  <2>6. QED BY <2>1, <2>2, <2>3, <2>4, <2>5 DEF CopyInv
<1>4. FoundFinite'
  BY DEF TypeOK, ThreadInv, FoundFinite, UpsertStage, QueryStage, UpsertOps,
     QueryOps, DB!NoOp, EnqueueCall, DB!BeginUpsert
<1>5. ThreadInv'
  BY MessageShape, SMTT(30) DEF TypeOK, ThreadInv, Delivered, UpsertStage,
     QueryStage, UpsertOps, QueryOps, DB!NoOp, EnqueueCall, DB!BeginUpsert
<1>6. OneCopyUntilPut'
  BY ConsumedShape, MessageShape, CopyShape, SMTT(30) DEF TypeOK, SentInv,
     CopyInv, ThreadInv, OneCopyUntilPut, Unput, UpsertStage, QueryStage,
     UpsertOps, QueryOps, DB!NoOp, EnqueueCall, DB!BeginUpsert
<1>7. PendingInv'
  BY ConsumedShape, MessageShape, CopyShape, SMTT(30) DEF TypeOK, SentInv,
     CopyInv, ThreadInv, OneCopyUntilPut, PendingInv, Unput, UpsertStage,
     QueryStage, UpsertOps, QueryOps, DB!NoOp, EnqueueCall, DB!BeginUpsert
<1>8. QueryFresh'
  BY ConsumedShape, MessageShape, CopyShape, SMTT(30) DEF TypeOK, SentInv,
     CopyInv, ThreadInv, PendingInv, QueryFresh, Delivered, UpsertStage,
     QueryStage, UpsertOps, QueryOps, DB!NoOp, EnqueueCall, DB!BeginUpsert
<1>9. QuerySees'
  BY ConsumedShape, MessageShape, CopyShape, SMTT(30) DEF TypeOK, SentInv,
     CopyInv, ThreadInv, OneCopyUntilPut, QuerySees, Sees, Unput, UpsertStage,
     QueryStage, UpsertOps, QueryOps, DB!NoOp, EnqueueCall, DB!BeginUpsert
<1>10. NotReturnedAgain'
  BY ConsumedShape, MessageShape, CopyShape DEF TypeOK, CopyInv, ThreadInv,
     QueryFresh, NotReturnedAgain, Dequeues, UpsertStage, QueryStage,
     EnqueueCall, DB!BeginUpsert
<1>11. FifoOrder'
  BY ConsumedShape, MessageShape, CopyShape, SMTT(30) DEF TypeOK, SentInv,
     CopyInv, ThreadInv, OneCopyUntilPut, QuerySees, FifoOrder, Dequeues,
     Sees, Unput, UpsertStage, QueryStage, UpsertOps, QueryOps, DB!NoOp,
     EnqueueCall, DB!BeginUpsert
<1>12. KeptInv'
  <2>1. \A i \in Ids : sent[i] # NoMessage /\ Kept(i) => Kept(i)'
    BY KeptStays DEF TypeOK, ThreadInv, UpsertOps, QueryOps, DB!NoOp,
       EnqueueCall, DB!BeginUpsert
  <2>2. QED
    BY <2>1, ConsumedShape, MessageShape DEF TypeOK, CopyInv, ThreadInv,
       KeptInv, IsCopy, UpsertStage, QueryStage, UpsertOps, QueryOps, DB!NoOp,
       EnqueueCall, DB!BeginUpsert
<1>13. QED BY <1>1, <1>2, <1>3, <1>4, <1>5, <1>6, <1>7, <1>8, <1>9, <1>10, <1>11, <1>12

(* DequeueCall keeps IInv.                                                  *)
LEMMA DequeueCallStep ==
    ASSUME IInv, NEW t \in Threads, NEW w \in Workers, NEW c \in Consumers, DequeueCall(t, w, c)
    PROVE  IInv'
<1> USE DEF IInv
<1>1. TypeOK'
  BY ConsumedShape, MessageShape DEF TypeOK, UpsertOps, QueryOps, DB!NoOp,
     Delivered, DequeueCall, DB!BeginQuery, DB!QueryOp
<1>2. SentInv'
  BY DEF TypeOK, SentInv, DequeueCall, DB!BeginQuery, DB!QueryOp
<1>3. CopyInv'
  BY ConsumedShape, MessageShape DEF TypeOK, SentInv, CopyInv, ThreadInv,
     IsCopy, UpsertStage, QueryStage, UpsertOps, QueryOps, DB!NoOp,
     DequeueCall, DB!BeginQuery, DB!QueryOp
<1>4. FoundFinite'
  BY FS_EmptySet DEF TypeOK, FoundFinite, QueryStage, UpsertOps, QueryOps,
     DB!NoOp, DequeueCall, DB!BeginQuery, DB!QueryOp
<1>5. ThreadInv'
  BY MessageShape, SMTT(30) DEF TypeOK, ThreadInv, Delivered, UpsertStage,
     QueryStage, UpsertOps, QueryOps, DB!NoOp, DequeueCall, DB!BeginQuery,
     DB!QueryOp
<1>6. OneCopyUntilPut'
  BY ConsumedShape, MessageShape, CopyShape DEF TypeOK, SentInv, CopyInv,
     ThreadInv, OneCopyUntilPut, Unput, UpsertStage, QueryStage, UpsertOps,
     QueryOps, DB!NoOp, DequeueCall, DB!BeginQuery, DB!QueryOp
<1>7. PendingInv'
  BY ConsumedShape, MessageShape, CopyShape DEF TypeOK, SentInv, CopyInv,
     ThreadInv, OneCopyUntilPut, PendingInv, Unput, UpsertStage, QueryStage,
     UpsertOps, QueryOps, DB!NoOp, DequeueCall, DB!BeginQuery, DB!QueryOp
<1>8. QueryFresh'
  BY ConsumedShape, MessageShape, CopyShape, SMTT(30) DEF TypeOK, SentInv,
     CopyInv, ThreadInv, PendingInv, QueryFresh, Delivered, UpsertStage,
     QueryStage, UpsertOps, QueryOps, DB!NoOp, DequeueCall, DB!BeginQuery,
     DB!QueryOp
<1>9. QuerySees'
  BY ConsumedShape, MessageShape, CopyShape, SMTT(30) DEF TypeOK, SentInv,
     CopyInv, ThreadInv, OneCopyUntilPut, QuerySees, Sees, Unput, UpsertStage,
     QueryStage, UpsertOps, QueryOps, DB!NoOp, DequeueCall, DB!BeginQuery,
     DB!QueryOp
<1>10. NotReturnedAgain'
  BY ConsumedShape, MessageShape, CopyShape DEF TypeOK, CopyInv, ThreadInv,
     QueryFresh, NotReturnedAgain, Dequeues, UpsertStage, QueryStage,
     DequeueCall, DB!BeginQuery, DB!QueryOp
<1>11. FifoOrder'
  BY ConsumedShape, MessageShape, CopyShape DEF TypeOK, SentInv, CopyInv,
     ThreadInv, OneCopyUntilPut, QuerySees, FifoOrder, Dequeues, Sees, Unput,
     UpsertStage, QueryStage, UpsertOps, QueryOps, DB!NoOp, DequeueCall,
     DB!BeginQuery, DB!QueryOp
<1>12. KeptInv'
  <2>1. \A i \in Ids : sent[i] # NoMessage /\ Kept(i) => Kept(i)'
    BY KeptStays DEF TypeOK, ThreadInv, UpsertOps, QueryOps, DB!NoOp,
       DequeueCall, DB!BeginQuery, DB!QueryOp
  <2>2. QED
    BY <2>1, ConsumedShape, MessageShape DEF TypeOK, CopyInv, ThreadInv,
       KeptInv, IsCopy, UpsertStage, QueryStage, UpsertOps, QueryOps, DB!NoOp,
       DequeueCall, DB!BeginQuery, DB!QueryOp
<1>13. QED BY <1>1, <1>2, <1>3, <1>4, <1>5, <1>6, <1>7, <1>8, <1>9, <1>10, <1>11, <1>12

(* NothingFound keeps IInv.                                                 *)
LEMMA NothingFoundStep ==
    ASSUME IInv, NEW t \in Threads, NothingFound(t)
    PROVE  IInv'
<1> USE DEF IInv
<1>1. TypeOK'
  BY ConsumedShape, MessageShape DEF TypeOK, UpsertOps, QueryOps, DB!NoOp,
     Delivered, NothingFound, DB!EndQuery, Finish
<1>2. SentInv'
  BY DEF TypeOK, SentInv, NothingFound, DB!EndQuery, Finish
<1>3. CopyInv'
  BY ConsumedShape, MessageShape DEF TypeOK, SentInv, CopyInv, ThreadInv,
     IsCopy, UpsertStage, QueryStage, UpsertOps, QueryOps, DB!NoOp,
     NothingFound, DB!EndQuery, Finish
<1>4. FoundFinite'
  BY DEF TypeOK, ThreadInv, FoundFinite, UpsertStage, QueryStage, UpsertOps,
     QueryOps, DB!NoOp, NothingFound, DB!EndQuery, Finish
<1>5. ThreadInv'
  BY ConsumedShape, MessageShape DEF TypeOK, ThreadInv, CopyInv, Delivered,
     UpsertStage, QueryStage, UpsertOps, QueryOps, DB!NoOp, NothingFound,
     DB!EndQuery, Finish
<1>6. OneCopyUntilPut'
  BY ConsumedShape, MessageShape, CopyShape DEF TypeOK, SentInv, CopyInv,
     ThreadInv, OneCopyUntilPut, Unput, UpsertStage, QueryStage, UpsertOps,
     QueryOps, DB!NoOp, NothingFound, DB!EndQuery, Finish
<1>7. PendingInv'
  BY ConsumedShape, MessageShape, CopyShape DEF TypeOK, SentInv, CopyInv,
     ThreadInv, OneCopyUntilPut, PendingInv, Unput, UpsertStage, QueryStage,
     UpsertOps, QueryOps, DB!NoOp, NothingFound, DB!EndQuery, Finish
<1>8. QueryFresh'
  BY ConsumedShape, MessageShape, CopyShape DEF TypeOK, SentInv, CopyInv,
     ThreadInv, PendingInv, QueryFresh, Delivered, UpsertStage, QueryStage,
     UpsertOps, QueryOps, DB!NoOp, NothingFound, DB!EndQuery, Finish
<1>9. QuerySees'
  BY ConsumedShape, MessageShape, CopyShape DEF TypeOK, SentInv, CopyInv,
     ThreadInv, OneCopyUntilPut, QuerySees, Sees, Unput, UpsertStage,
     QueryStage, UpsertOps, QueryOps, DB!NoOp, NothingFound, DB!EndQuery,
     Finish
<1>10. NotReturnedAgain'
  BY ConsumedShape, MessageShape, CopyShape DEF TypeOK, CopyInv, ThreadInv,
     QueryFresh, NotReturnedAgain, Dequeues, UpsertStage, QueryStage,
     NothingFound, DB!EndQuery, Finish
<1>11. FifoOrder'
  BY ConsumedShape, MessageShape, CopyShape DEF TypeOK, SentInv, CopyInv,
     ThreadInv, OneCopyUntilPut, QuerySees, FifoOrder, Dequeues, Sees, Unput,
     UpsertStage, QueryStage, UpsertOps, QueryOps, DB!NoOp, NothingFound,
     DB!EndQuery, Finish
<1>12. KeptInv'
  <2>1. \A i \in Ids : sent[i] # NoMessage /\ Kept(i) => Kept(i)'
    BY KeptStays DEF TypeOK, ThreadInv, UpsertOps, QueryOps, DB!NoOp,
       NothingFound, DB!EndQuery, Finish
  <2>2. QED
    BY <2>1, ConsumedShape, MessageShape DEF TypeOK, CopyInv, ThreadInv,
       KeptInv, IsCopy, UpsertStage, QueryStage, UpsertOps, QueryOps, DB!NoOp,
       NothingFound, DB!EndQuery, Finish
<1>13. QED BY <1>1, <1>2, <1>3, <1>4, <1>5, <1>6, <1>7, <1>8, <1>9, <1>10, <1>11, <1>12

(* MessageFound keeps IInv.                                                 *)
LEMMA MessageFoundStep ==
    ASSUME IInv, NEW t \in Threads, MessageFound(t)
    PROVE  IInv'
<1> USE DEF IInv
<1>0. PICK p \in op[call[t]].found :
        /\ p[2] \in Message
        /\ IsCopy(p[2])
        /\ p[2].consumer_service = op[call[t]].query
        /\ p[2].id \in Ids
        /\ msg' = [msg EXCEPT ![t] = Consumed(p[2])]
        /\ call[t] \in Workers
        /\ op[call[t]] \in QueryOps
        /\ op[call[t]].stage = "answer"
  BY FoundShape
<1>1. TypeOK'
  BY <1>0, ConsumedShape, MessageShape DEF TypeOK, UpsertOps, QueryOps,
     DB!NoOp, Delivered, MessageFound, DB!EndQuery, history
<1>2. SentInv'
  BY DEF TypeOK, SentInv, MessageFound, DB!EndQuery, history
<1>3. CopyInv'
  <2>1. \A u \in Uuids : val'[u] # NoMessage => IsCopy(val[u])' /\ val'[u].uuid = u
    BY <1>0, ConsumedShape, MessageShape DEF TypeOK, CopyInv, ThreadInv,
       IsCopy, SentInv, MessageFound, DB!EndQuery, history
  <2>2. \A x \in Workers : UpsertStage(op'[x].stage) =>
            IsCopy(op[x].payload)' /\ op'[x].key = op'[x].payload.uuid
    BY <1>0, ConsumedShape, MessageShape DEF TypeOK, CopyInv, ThreadInv,
       IsCopy, UpsertStage, QueryStage, UpsertOps, QueryOps, DB!NoOp,
       MessageFound, DB!EndQuery, history
  <2>3. \A x \in Workers : QueryStage(op'[x].stage) =>
            \A r \in op'[x].found :
                /\ IsCopy(r[2])'
                /\ r[2].uuid = r[1]
                /\ r[2].status = "pending"
                /\ r[2].consumer_service = op'[x].query
    BY <1>0, ConsumedShape, MessageShape DEF TypeOK, CopyInv, ThreadInv,
       IsCopy, UpsertStage, QueryStage, UpsertOps, QueryOps, DB!NoOp,
       MessageFound, DB!EndQuery, history
  <2>4. \A s \in Threads : msg'[s] # NoMessage => IsCopy(msg[s])'
    BY <1>0, ConsumedShape, MessageShape DEF TypeOK, CopyInv, ThreadInv,
       IsCopy, MessageFound, DB!EndQuery, history
  <2>5. \A i \in Ids : i \in acked' \/ deliveries'[i] > 0 => sent'[i] # NoMessage
    BY <1>0, ConsumedShape, MessageShape DEF TypeOK, CopyInv, MessageFound,
       DB!EndQuery, history
  <2>6. QED BY <2>1, <2>2, <2>3, <2>4, <2>5 DEF CopyInv
<1>4. FoundFinite'
  BY DEF TypeOK, ThreadInv, FoundFinite, UpsertStage, QueryStage, UpsertOps,
     QueryOps, DB!NoOp, MessageFound, DB!EndQuery, history
<1>5. ThreadInv'
  BY <1>0, ConsumedShape, MessageShape DEF TypeOK, ThreadInv, CopyInv,
     Delivered, UpsertStage, QueryStage, UpsertOps, QueryOps, DB!NoOp,
     MessageFound, DB!EndQuery, history
<1>6. OneCopyUntilPut'
  BY ConsumedShape, MessageShape, CopyShape, SMTT(30) DEF TypeOK, SentInv,
     CopyInv, ThreadInv, OneCopyUntilPut, Unput, UpsertStage, QueryStage,
     UpsertOps, QueryOps, DB!NoOp, MessageFound, DB!EndQuery, history
<1>7. PendingInv'
  BY ConsumedShape, MessageShape, CopyShape, SMTT(30) DEF TypeOK, SentInv,
     CopyInv, ThreadInv, OneCopyUntilPut, PendingInv, Unput, UpsertStage,
     QueryStage, UpsertOps, QueryOps, DB!NoOp, MessageFound, DB!EndQuery,
     history
<1>8. QueryFresh'
  BY ConsumedShape, MessageShape, CopyShape DEF TypeOK, SentInv, CopyInv,
     ThreadInv, PendingInv, QueryFresh, Delivered, UpsertStage, QueryStage,
     UpsertOps, QueryOps, DB!NoOp, MessageFound, DB!EndQuery, history
<1>9. QuerySees'
  BY ConsumedShape, MessageShape, CopyShape DEF TypeOK, SentInv, CopyInv,
     ThreadInv, OneCopyUntilPut, QuerySees, Sees, Unput, UpsertStage,
     QueryStage, UpsertOps, QueryOps, DB!NoOp, MessageFound, DB!EndQuery,
     history
<1>10. NotReturnedAgain'
  BY ConsumedShape, MessageShape, CopyShape DEF TypeOK, CopyInv, ThreadInv,
     QueryFresh, NotReturnedAgain, Dequeues, UpsertStage, QueryStage,
     MessageFound, DB!EndQuery, history
<1>11. FifoOrder'
  <2>1. \A i \in ackedBefore[t] :
            sent[i].consumer_service = p[2].consumer_service /\ val[sent[i].uuid] = sent[i]
            => p[2].timestamp <= sent[i].timestamp
    BY <1>0 DEF TypeOK, QuerySees, Sees, MessageFound
  <2>2. QED
    BY <1>0, <2>1, ConsumedShape, MessageShape, SMTT(30) DEF TypeOK, CopyInv, ThreadInv,
       IsCopy, FifoOrder, Dequeues, MessageFound, DB!EndQuery, history
<1>12. KeptInv'
  <2>1. \A i \in Ids : sent[i] # NoMessage /\ Kept(i) => Kept(i)'
    BY KeptStays DEF TypeOK, ThreadInv, UpsertOps, QueryOps, DB!NoOp,
       MessageFound, DB!EndQuery, history
  <2>2. QED
    BY <2>1, ConsumedShape, MessageShape DEF TypeOK, CopyInv, ThreadInv,
       KeptInv, IsCopy, UpsertStage, QueryStage, UpsertOps, QueryOps, DB!NoOp,
       MessageFound, DB!EndQuery, history
<1>13. QED BY <1>1, <1>2, <1>3, <1>4, <1>5, <1>6, <1>7, <1>8, <1>9, <1>10, <1>11, <1>12

(* ConsumeCall keeps IInv.                                                  *)
LEMMA ConsumeCallStep ==
    ASSUME IInv, NEW t \in Threads, NEW w \in Workers, ConsumeCall(t, w)
    PROVE  IInv'
<1> USE DEF IInv
<1>1. TypeOK'
  BY MessageShape DEF TypeOK, ThreadInv, UpsertOps, DB!NoOp, ConsumeCall,
     DB!BeginUpsert, history
<1>2. SentInv'
  BY DEF TypeOK, SentInv, ConsumeCall, DB!BeginUpsert, history
<1>3. CopyInv'
  BY ConsumedShape, MessageShape DEF TypeOK, SentInv, CopyInv, ThreadInv,
     IsCopy, UpsertStage, QueryStage, UpsertOps, QueryOps, DB!NoOp,
     ConsumeCall, DB!BeginUpsert, history
<1>4. FoundFinite'
  BY DEF TypeOK, ThreadInv, FoundFinite, UpsertStage, QueryStage, UpsertOps,
     QueryOps, DB!NoOp, ConsumeCall, DB!BeginUpsert, history
<1>5. ThreadInv'
  BY ConsumedShape, MessageShape DEF TypeOK, ThreadInv, CopyInv, Delivered,
     UpsertStage, QueryStage, UpsertOps, QueryOps, DB!NoOp, ConsumeCall,
     DB!BeginUpsert, history
<1>6. OneCopyUntilPut'
  BY ConsumedShape, MessageShape, CopyShape DEF TypeOK, SentInv, CopyInv,
     ThreadInv, OneCopyUntilPut, Unput, UpsertStage, QueryStage, UpsertOps,
     QueryOps, DB!NoOp, ConsumeCall, DB!BeginUpsert, history
<1>7. PendingInv'
  BY ConsumedShape, MessageShape, CopyShape DEF TypeOK, SentInv, CopyInv,
     ThreadInv, OneCopyUntilPut, PendingInv, Unput, UpsertStage, QueryStage,
     UpsertOps, QueryOps, DB!NoOp, ConsumeCall, DB!BeginUpsert, history
<1>8. QueryFresh'
  BY ConsumedShape, MessageShape, CopyShape, SMTT(30) DEF TypeOK, SentInv,
     CopyInv, ThreadInv, PendingInv, QueryFresh, Delivered, UpsertStage,
     QueryStage, UpsertOps, QueryOps, DB!NoOp, ConsumeCall, DB!BeginUpsert,
     history
<1>9. QuerySees'
  BY ConsumedShape, MessageShape, CopyShape DEF TypeOK, SentInv, CopyInv,
     ThreadInv, OneCopyUntilPut, QuerySees, Sees, Unput, UpsertStage,
     QueryStage, UpsertOps, QueryOps, DB!NoOp, ConsumeCall, DB!BeginUpsert,
     history
<1>10. NotReturnedAgain'
  BY ConsumedShape, MessageShape, CopyShape DEF TypeOK, CopyInv, ThreadInv,
     QueryFresh, NotReturnedAgain, Dequeues, UpsertStage, QueryStage,
     ConsumeCall, DB!BeginUpsert, history
<1>11. FifoOrder'
  BY ConsumedShape, MessageShape, CopyShape DEF TypeOK, SentInv, CopyInv,
     ThreadInv, OneCopyUntilPut, QuerySees, FifoOrder, Dequeues, Sees, Unput,
     UpsertStage, QueryStage, UpsertOps, QueryOps, DB!NoOp, ConsumeCall,
     DB!BeginUpsert, history
<1>12. KeptInv'
  <2>1. \A i \in Ids : sent[i] # NoMessage /\ Kept(i) => Kept(i)'
    BY KeptStays DEF TypeOK, ThreadInv, UpsertOps, QueryOps, DB!NoOp,
       ConsumeCall, DB!BeginUpsert, history
  <2>2. QED
    BY <2>1, ConsumedShape, MessageShape DEF TypeOK, CopyInv, ThreadInv,
       KeptInv, IsCopy, UpsertStage, QueryStage, UpsertOps, QueryOps, DB!NoOp,
       ConsumeCall, DB!BeginUpsert, history
<1>13. QED BY <1>1, <1>2, <1>3, <1>4, <1>5, <1>6, <1>7, <1>8, <1>9, <1>10, <1>11, <1>12

(* UpsertOk keeps IInv.                                                     *)
LEMMA UpsertOkStep ==
    ASSUME IInv, NEW t \in Threads, UpsertOk(t)
    PROVE  IInv'
<1> USE DEF IInv
<1>1. TypeOK'
  BY ConsumedShape, MessageShape DEF TypeOK, UpsertOps, QueryOps, DB!NoOp,
     Delivered, UpsertOk, DB!EndUpsert, history
<1>2. SentInv'
  BY DEF TypeOK, SentInv, UpsertOk, DB!EndUpsert, history
<1>3. CopyInv'
  <2>1. \A u \in Uuids : val'[u] # NoMessage => IsCopy(val[u])' /\ val'[u].uuid = u
    BY MessageShape DEF TypeOK, CopyInv, ThreadInv, IsCopy, SentInv, UpsertOk,
       DB!EndUpsert, history
  <2>2. \A x \in Workers : UpsertStage(op'[x].stage) =>
            IsCopy(op[x].payload)' /\ op'[x].key = op'[x].payload.uuid
    BY MessageShape DEF TypeOK, CopyInv, ThreadInv, IsCopy, UpsertStage,
       QueryStage, UpsertOps, QueryOps, DB!NoOp, UpsertOk, DB!EndUpsert,
       history
  <2>3. \A x \in Workers : QueryStage(op'[x].stage) =>
            \A r \in op'[x].found :
                /\ IsCopy(r[2])'
                /\ r[2].uuid = r[1]
                /\ r[2].status = "pending"
                /\ r[2].consumer_service = op'[x].query
    BY MessageShape DEF TypeOK, CopyInv, ThreadInv, IsCopy, UpsertStage,
       QueryStage, UpsertOps, QueryOps, DB!NoOp, UpsertOk, DB!EndUpsert,
       history
  <2>4. \A s \in Threads : msg'[s] # NoMessage => IsCopy(msg[s])'
    BY MessageShape DEF TypeOK, CopyInv, ThreadInv, IsCopy, UpsertOk,
       DB!EndUpsert, history
  <2>5. \A i \in Ids : i \in acked' \/ deliveries'[i] > 0 => sent'[i] # NoMessage
    BY MessageShape DEF TypeOK, CopyInv, UpsertOk, DB!EndUpsert, history
  <2>6. QED BY <2>1, <2>2, <2>3, <2>4, <2>5 DEF CopyInv
<1>4. FoundFinite'
  BY DEF TypeOK, ThreadInv, FoundFinite, UpsertStage, QueryStage, UpsertOps,
     QueryOps, DB!NoOp, UpsertOk, DB!EndUpsert, history
<1>5. ThreadInv'
  BY ConsumedShape, MessageShape DEF TypeOK, ThreadInv, CopyInv, Delivered,
     UpsertStage, QueryStage, UpsertOps, QueryOps, DB!NoOp, UpsertOk,
     DB!EndUpsert, history
<1>6. OneCopyUntilPut'
  BY ConsumedShape, MessageShape, CopyShape DEF TypeOK, SentInv, CopyInv,
     ThreadInv, OneCopyUntilPut, Unput, UpsertStage, QueryStage, UpsertOps,
     QueryOps, DB!NoOp, UpsertOk, DB!EndUpsert, history
<1>7. PendingInv'
  BY ConsumedShape, MessageShape, CopyShape DEF TypeOK, SentInv, CopyInv,
     ThreadInv, OneCopyUntilPut, PendingInv, Unput, UpsertStage, QueryStage,
     UpsertOps, QueryOps, DB!NoOp, UpsertOk, DB!EndUpsert, history
<1>8. QueryFresh'
  BY ConsumedShape, MessageShape, CopyShape DEF TypeOK, SentInv, CopyInv,
     ThreadInv, PendingInv, QueryFresh, Delivered, UpsertStage, QueryStage,
     UpsertOps, QueryOps, DB!NoOp, UpsertOk, DB!EndUpsert, history
<1>9. QuerySees'
  BY ConsumedShape, MessageShape, CopyShape DEF TypeOK, SentInv, CopyInv,
     ThreadInv, OneCopyUntilPut, QuerySees, Sees, Unput, UpsertStage,
     QueryStage, UpsertOps, QueryOps, DB!NoOp, UpsertOk, DB!EndUpsert, history
<1>10. NotReturnedAgain'
  BY ConsumedShape, MessageShape, CopyShape DEF TypeOK, CopyInv, ThreadInv,
     QueryFresh, NotReturnedAgain, Dequeues, UpsertStage, QueryStage,
     UpsertOk, DB!EndUpsert, history
<1>11. FifoOrder'
  BY ConsumedShape, MessageShape, CopyShape DEF TypeOK, SentInv, CopyInv,
     ThreadInv, OneCopyUntilPut, QuerySees, FifoOrder, Dequeues, Sees, Unput,
     UpsertStage, QueryStage, UpsertOps, QueryOps, DB!NoOp, UpsertOk,
     DB!EndUpsert, history
<1>12. KeptInv'
  <2>1. \A i \in Ids : sent[i] # NoMessage /\ Kept(i) => Kept(i)'
    BY KeptStays DEF TypeOK, ThreadInv, UpsertOps, QueryOps, DB!NoOp,
       UpsertOk, DB!EndUpsert, history
  <2>2. QED
    BY <2>1, ConsumedShape, MessageShape DEF TypeOK, CopyInv, ThreadInv,
       KeptInv, IsCopy, UpsertStage, QueryStage, UpsertOps, QueryOps, DB!NoOp,
       UpsertOk, DB!EndUpsert, history
<1>13. QED BY <1>1, <1>2, <1>3, <1>4, <1>5, <1>6, <1>7, <1>8, <1>9, <1>10, <1>11, <1>12

(* UpsertFailed keeps IInv.                                                 *)
LEMMA UpsertFailedStep ==
    ASSUME IInv, NEW t \in Threads, UpsertFailed(t)
    PROVE  IInv'
<1> USE DEF IInv
<1>1. TypeOK'
  BY ConsumedShape, MessageShape DEF TypeOK, UpsertOps, QueryOps, DB!NoOp,
     Delivered, UpsertFailed, DB!EndUpsert, Finish
<1>2. SentInv'
  BY DEF TypeOK, SentInv, UpsertFailed, DB!EndUpsert, Finish
<1>3. CopyInv'
  <2>1. \A u \in Uuids : val'[u] # NoMessage => IsCopy(val[u])' /\ val'[u].uuid = u
    BY MessageShape DEF TypeOK, CopyInv, ThreadInv, IsCopy, SentInv,
       UpsertFailed, DB!EndUpsert, Finish
  <2>2. \A x \in Workers : UpsertStage(op'[x].stage) =>
            IsCopy(op[x].payload)' /\ op'[x].key = op'[x].payload.uuid
    BY MessageShape DEF TypeOK, CopyInv, ThreadInv, IsCopy, UpsertStage,
       QueryStage, UpsertOps, QueryOps, DB!NoOp, UpsertFailed, DB!EndUpsert,
       Finish
  <2>3. \A x \in Workers : QueryStage(op'[x].stage) =>
            \A r \in op'[x].found :
                /\ IsCopy(r[2])'
                /\ r[2].uuid = r[1]
                /\ r[2].status = "pending"
                /\ r[2].consumer_service = op'[x].query
    BY MessageShape DEF TypeOK, CopyInv, ThreadInv, IsCopy, UpsertStage,
       QueryStage, UpsertOps, QueryOps, DB!NoOp, UpsertFailed, DB!EndUpsert,
       Finish
  <2>4. \A s \in Threads : msg'[s] # NoMessage => IsCopy(msg[s])'
    BY MessageShape DEF TypeOK, CopyInv, ThreadInv, IsCopy, UpsertFailed,
       DB!EndUpsert, Finish
  <2>5. \A i \in Ids : i \in acked' \/ deliveries'[i] > 0 => sent'[i] # NoMessage
    BY MessageShape DEF TypeOK, CopyInv, UpsertFailed, DB!EndUpsert, Finish
  <2>6. QED BY <2>1, <2>2, <2>3, <2>4, <2>5 DEF CopyInv
<1>4. FoundFinite'
  BY DEF TypeOK, ThreadInv, FoundFinite, UpsertStage, QueryStage, UpsertOps,
     QueryOps, DB!NoOp, UpsertFailed, DB!EndUpsert, Finish
<1>5. ThreadInv'
  BY ConsumedShape, MessageShape DEF TypeOK, ThreadInv, CopyInv, Delivered,
     UpsertStage, QueryStage, UpsertOps, QueryOps, DB!NoOp, UpsertFailed,
     DB!EndUpsert, Finish
<1>6. OneCopyUntilPut'
  BY ConsumedShape, MessageShape, CopyShape DEF TypeOK, SentInv, CopyInv,
     ThreadInv, OneCopyUntilPut, Unput, UpsertStage, QueryStage, UpsertOps,
     QueryOps, DB!NoOp, UpsertFailed, DB!EndUpsert, Finish
<1>7. PendingInv'
  BY ConsumedShape, MessageShape, CopyShape DEF TypeOK, SentInv, CopyInv,
     ThreadInv, OneCopyUntilPut, PendingInv, Unput, UpsertStage, QueryStage,
     UpsertOps, QueryOps, DB!NoOp, UpsertFailed, DB!EndUpsert, Finish
<1>8. QueryFresh'
  BY ConsumedShape, MessageShape, CopyShape DEF TypeOK, SentInv, CopyInv,
     ThreadInv, PendingInv, QueryFresh, Delivered, UpsertStage, QueryStage,
     UpsertOps, QueryOps, DB!NoOp, UpsertFailed, DB!EndUpsert, Finish
<1>9. QuerySees'
  BY ConsumedShape, MessageShape, CopyShape DEF TypeOK, SentInv, CopyInv,
     ThreadInv, OneCopyUntilPut, QuerySees, Sees, Unput, UpsertStage,
     QueryStage, UpsertOps, QueryOps, DB!NoOp, UpsertFailed, DB!EndUpsert,
     Finish
<1>10. NotReturnedAgain'
  BY ConsumedShape, MessageShape, CopyShape DEF TypeOK, CopyInv, ThreadInv,
     QueryFresh, NotReturnedAgain, Dequeues, UpsertStage, QueryStage,
     UpsertFailed, DB!EndUpsert, Finish
<1>11. FifoOrder'
  BY ConsumedShape, MessageShape, CopyShape DEF TypeOK, SentInv, CopyInv,
     ThreadInv, OneCopyUntilPut, QuerySees, FifoOrder, Dequeues, Sees, Unput,
     UpsertStage, QueryStage, UpsertOps, QueryOps, DB!NoOp, UpsertFailed,
     DB!EndUpsert, Finish
<1>12. KeptInv'
  <2>1. \A i \in Ids : sent[i] # NoMessage /\ Kept(i) => Kept(i)'
    BY KeptStays DEF TypeOK, ThreadInv, UpsertOps, QueryOps, DB!NoOp,
       UpsertFailed, DB!EndUpsert, Finish
  <2>2. QED
    BY <2>1, ConsumedShape, MessageShape DEF TypeOK, CopyInv, ThreadInv,
       KeptInv, IsCopy, UpsertStage, QueryStage, UpsertOps, QueryOps, DB!NoOp,
       UpsertFailed, DB!EndUpsert, Finish
<1>13. QED BY <1>1, <1>2, <1>3, <1>4, <1>5, <1>6, <1>7, <1>8, <1>9, <1>10, <1>11, <1>12

(* Reply keeps IInv.                                                        *)
LEMMA ReplyStep ==
    ASSUME IInv, NEW t \in Threads, Reply(t)
    PROVE  IInv'
<1> USE DEF IInv
<1>1. TypeOK'
  BY MessageShape DEF TypeOK, ThreadInv, UpsertOps, DB!NoOp, Reply, Finish,
     dbVars
<1>2. SentInv'
  BY DEF TypeOK, SentInv, Reply, Finish, dbVars
<1>3. CopyInv'
  BY ConsumedShape, MessageShape DEF TypeOK, SentInv, CopyInv, ThreadInv,
     IsCopy, UpsertStage, QueryStage, UpsertOps, QueryOps, DB!NoOp, Reply,
     Finish, dbVars
<1>4. FoundFinite'
  BY DEF TypeOK, ThreadInv, FoundFinite, UpsertStage, QueryStage, UpsertOps,
     QueryOps, DB!NoOp, Reply, Finish, dbVars
<1>5. ThreadInv'
  BY ConsumedShape, MessageShape DEF TypeOK, ThreadInv, CopyInv, Delivered,
     UpsertStage, QueryStage, UpsertOps, QueryOps, DB!NoOp, Reply, Finish,
     dbVars
<1>6. OneCopyUntilPut'
  BY ConsumedShape, MessageShape, CopyShape DEF TypeOK, SentInv, CopyInv,
     ThreadInv, OneCopyUntilPut, Unput, UpsertStage, QueryStage, UpsertOps,
     QueryOps, DB!NoOp, Reply, Finish, dbVars
<1>7. PendingInv'
  BY ConsumedShape, MessageShape, CopyShape DEF TypeOK, SentInv, CopyInv,
     ThreadInv, OneCopyUntilPut, PendingInv, Unput, UpsertStage, QueryStage,
     UpsertOps, QueryOps, DB!NoOp, Reply, Finish, dbVars
<1>8. QueryFresh'
  BY ConsumedShape, MessageShape, CopyShape DEF TypeOK, SentInv, CopyInv,
     ThreadInv, PendingInv, QueryFresh, Delivered, UpsertStage, QueryStage,
     UpsertOps, QueryOps, DB!NoOp, Reply, Finish, dbVars
<1>9. QuerySees'
  BY ConsumedShape, MessageShape, CopyShape DEF TypeOK, SentInv, CopyInv,
     ThreadInv, OneCopyUntilPut, QuerySees, Sees, Unput, UpsertStage,
     QueryStage, UpsertOps, QueryOps, DB!NoOp, Reply, Finish, dbVars
<1>10. NotReturnedAgain'
  BY ConsumedShape, MessageShape, CopyShape DEF TypeOK, CopyInv, ThreadInv,
     QueryFresh, NotReturnedAgain, Dequeues, UpsertStage, QueryStage, Reply,
     Finish, dbVars
<1>11. FifoOrder'
  BY ConsumedShape, MessageShape, CopyShape DEF TypeOK, SentInv, CopyInv,
     ThreadInv, OneCopyUntilPut, QuerySees, FifoOrder, Dequeues, Sees, Unput,
     UpsertStage, QueryStage, UpsertOps, QueryOps, DB!NoOp, Reply, Finish,
     dbVars
<1>12. KeptInv'
  <2>1. \A i \in Ids : sent[i] # NoMessage /\ Kept(i) => Kept(i)'
    BY KeptStays DEF TypeOK, ThreadInv, UpsertOps, QueryOps, DB!NoOp, Reply,
       Finish, dbVars
  <2>2. QED
    BY <2>1, ConsumedShape, MessageShape DEF TypeOK, CopyInv, ThreadInv,
       KeptInv, IsCopy, UpsertStage, QueryStage, UpsertOps, QueryOps, DB!NoOp,
       Reply, Finish, dbVars
<1>13. QED BY <1>1, <1>2, <1>3, <1>4, <1>5, <1>6, <1>7, <1>8, <1>9, <1>10, <1>11, <1>12

(* Abort keeps IInv.                                                        *)
LEMMA AbortStep ==
    ASSUME IInv, NEW t \in Threads, Abort(t)
    PROVE  IInv'
<1> USE DEF IInv
<1>1. TypeOK'
  BY ConsumedShape, MessageShape DEF TypeOK, UpsertOps, QueryOps, DB!NoOp,
     Delivered, Abort, Finish, dbVars
<1>2. SentInv'
  BY DEF TypeOK, SentInv, Abort, Finish, dbVars
<1>3. CopyInv'
  BY ConsumedShape, MessageShape DEF TypeOK, SentInv, CopyInv, ThreadInv,
     IsCopy, UpsertStage, QueryStage, UpsertOps, QueryOps, DB!NoOp, Abort,
     Finish, dbVars
<1>4. FoundFinite'
  BY DEF TypeOK, ThreadInv, FoundFinite, UpsertStage, QueryStage, UpsertOps,
     QueryOps, DB!NoOp, Abort, Finish, dbVars
<1>5. ThreadInv'
  BY ConsumedShape, MessageShape DEF TypeOK, ThreadInv, CopyInv, Delivered,
     UpsertStage, QueryStage, UpsertOps, QueryOps, DB!NoOp, Abort, Finish,
     dbVars
<1>6. OneCopyUntilPut'
  BY ConsumedShape, MessageShape, CopyShape DEF TypeOK, SentInv, CopyInv,
     ThreadInv, OneCopyUntilPut, Unput, UpsertStage, QueryStage, UpsertOps,
     QueryOps, DB!NoOp, Abort, Finish, dbVars
<1>7. PendingInv'
  BY ConsumedShape, MessageShape, CopyShape DEF TypeOK, SentInv, CopyInv,
     ThreadInv, OneCopyUntilPut, PendingInv, Unput, UpsertStage, QueryStage,
     UpsertOps, QueryOps, DB!NoOp, Abort, Finish, dbVars
<1>8. QueryFresh'
  BY ConsumedShape, MessageShape, CopyShape DEF TypeOK, SentInv, CopyInv,
     ThreadInv, PendingInv, QueryFresh, Delivered, UpsertStage, QueryStage,
     UpsertOps, QueryOps, DB!NoOp, Abort, Finish, dbVars
<1>9. QuerySees'
  BY ConsumedShape, MessageShape, CopyShape DEF TypeOK, SentInv, CopyInv,
     ThreadInv, OneCopyUntilPut, QuerySees, Sees, Unput, UpsertStage,
     QueryStage, UpsertOps, QueryOps, DB!NoOp, Abort, Finish, dbVars
<1>10. NotReturnedAgain'
  BY ConsumedShape, MessageShape, CopyShape DEF TypeOK, CopyInv, ThreadInv,
     QueryFresh, NotReturnedAgain, Dequeues, UpsertStage, QueryStage, Abort,
     Finish, dbVars
<1>11. FifoOrder'
  BY ConsumedShape, MessageShape, CopyShape DEF TypeOK, SentInv, CopyInv,
     ThreadInv, OneCopyUntilPut, QuerySees, FifoOrder, Dequeues, Sees, Unput,
     UpsertStage, QueryStage, UpsertOps, QueryOps, DB!NoOp, Abort, Finish,
     dbVars
<1>12. KeptInv'
  <2>1. \A i \in Ids : sent[i] # NoMessage /\ Kept(i) => Kept(i)'
    BY KeptStays DEF TypeOK, ThreadInv, UpsertOps, QueryOps, DB!NoOp, Abort,
       Finish, dbVars
  <2>2. QED
    BY <2>1, ConsumedShape, MessageShape DEF TypeOK, CopyInv, ThreadInv,
       KeptInv, IsCopy, UpsertStage, QueryStage, UpsertOps, QueryOps, DB!NoOp,
       Abort, Finish, dbVars
<1>13. QED BY <1>1, <1>2, <1>3, <1>4, <1>5, <1>6, <1>7, <1>8, <1>9, <1>10, <1>11, <1>12

(* FailUpsert keeps IInv.                                                   *)
LEMMA FailUpsertStep ==
    ASSUME IInv, NEW w \in Workers, DB!FailUpsert(w), UNCHANGED <<threadVars, history>>
    PROVE  IInv'
<1> USE DEF IInv
<1>1. TypeOK'
  BY ConsumedShape, MessageShape DEF TypeOK, UpsertOps, QueryOps, DB!NoOp,
     Delivered, DB!FailUpsert, threadVars, history
<1>2. SentInv'
  BY DEF TypeOK, SentInv, DB!FailUpsert, threadVars, history
<1>3. CopyInv'
  <2>1. \A u \in Uuids : val'[u] # NoMessage => IsCopy(val[u])' /\ val'[u].uuid = u
    BY MessageShape DEF TypeOK, CopyInv, ThreadInv, IsCopy, SentInv,
       DB!FailUpsert, threadVars, history
  <2>2. \A x \in Workers : UpsertStage(op'[x].stage) =>
            IsCopy(op[x].payload)' /\ op'[x].key = op'[x].payload.uuid
    BY MessageShape DEF TypeOK, CopyInv, ThreadInv, IsCopy, UpsertStage,
       QueryStage, UpsertOps, QueryOps, DB!NoOp, DB!FailUpsert, threadVars,
       history
  <2>3. \A x \in Workers : QueryStage(op'[x].stage) =>
            \A r \in op'[x].found :
                /\ IsCopy(r[2])'
                /\ r[2].uuid = r[1]
                /\ r[2].status = "pending"
                /\ r[2].consumer_service = op'[x].query
    BY MessageShape DEF TypeOK, CopyInv, ThreadInv, IsCopy, UpsertStage,
       QueryStage, UpsertOps, QueryOps, DB!NoOp, DB!FailUpsert, threadVars,
       history
  <2>4. \A s \in Threads : msg'[s] # NoMessage => IsCopy(msg[s])'
    BY MessageShape DEF TypeOK, CopyInv, ThreadInv, IsCopy, DB!FailUpsert,
       threadVars, history
  <2>5. \A i \in Ids : i \in acked' \/ deliveries'[i] > 0 => sent'[i] # NoMessage
    BY MessageShape DEF TypeOK, CopyInv, DB!FailUpsert, threadVars, history
  <2>6. QED BY <2>1, <2>2, <2>3, <2>4, <2>5 DEF CopyInv
<1>4. FoundFinite'
  BY DEF TypeOK, ThreadInv, FoundFinite, UpsertStage, QueryStage, UpsertOps,
     QueryOps, DB!NoOp, DB!FailUpsert, threadVars, history
<1>5. ThreadInv'
  BY ConsumedShape, MessageShape DEF TypeOK, ThreadInv, CopyInv, Delivered,
     UpsertStage, QueryStage, UpsertOps, QueryOps, DB!NoOp, DB!FailUpsert,
     threadVars, history
<1>6. OneCopyUntilPut'
  BY ConsumedShape, MessageShape, CopyShape DEF TypeOK, SentInv, CopyInv,
     ThreadInv, OneCopyUntilPut, Unput, UpsertStage, QueryStage, UpsertOps,
     QueryOps, DB!NoOp, DB!FailUpsert, threadVars, history
<1>7. PendingInv'
  BY ConsumedShape, MessageShape, CopyShape DEF TypeOK, SentInv, CopyInv,
     ThreadInv, OneCopyUntilPut, PendingInv, Unput, UpsertStage, QueryStage,
     UpsertOps, QueryOps, DB!NoOp, DB!FailUpsert, threadVars, history
<1>8. QueryFresh'
  BY ConsumedShape, MessageShape, CopyShape DEF TypeOK, SentInv, CopyInv,
     ThreadInv, PendingInv, QueryFresh, Delivered, UpsertStage, QueryStage,
     UpsertOps, QueryOps, DB!NoOp, DB!FailUpsert, threadVars, history
<1>9. QuerySees'
  <2>1. \A t \in Threads : pc[t] = "query" =>
            call[t] \in Workers /\ op'[call[t]] = op[call[t]]
    BY DEF TypeOK, ThreadInv, QueryStage, DB!FailUpsert, threadVars, history
  <2>2. QED
    BY <2>1, ConsumedShape, MessageShape, CopyShape DEF TypeOK, ThreadInv, CopyInv,
       QuerySees, DB!FailUpsert, threadVars, history
<1>10. NotReturnedAgain'
  BY ConsumedShape, MessageShape, CopyShape DEF TypeOK, CopyInv, ThreadInv,
     QueryFresh, NotReturnedAgain, Dequeues, UpsertStage, QueryStage,
     DB!FailUpsert, threadVars, history
<1>11. FifoOrder'
  BY ConsumedShape, MessageShape, CopyShape DEF TypeOK, SentInv, CopyInv,
     ThreadInv, OneCopyUntilPut, QuerySees, FifoOrder, Dequeues, Sees, Unput,
     UpsertStage, QueryStage, UpsertOps, QueryOps, DB!NoOp, DB!FailUpsert,
     threadVars, history
<1>12. KeptInv'
  <2>1. \A i \in Ids : sent[i] # NoMessage /\ Kept(i) => Kept(i)'
    BY KeptStays DEF TypeOK, ThreadInv, UpsertOps, QueryOps, DB!NoOp,
       DB!FailUpsert, threadVars, history
  <2>2. QED
    BY <2>1, ConsumedShape, MessageShape DEF TypeOK, CopyInv, ThreadInv,
       KeptInv, IsCopy, UpsertStage, QueryStage, UpsertOps, QueryOps, DB!NoOp,
       DB!FailUpsert, threadVars, history
<1>13. QED BY <1>1, <1>2, <1>3, <1>4, <1>5, <1>6, <1>7, <1>8, <1>9, <1>10, <1>11, <1>12

(* Remove keeps IInv.                                                       *)
LEMMA RemoveStep ==
    ASSUME IInv, NEW w \in Workers, DB!Remove(w), UNCHANGED <<threadVars, history>>
    PROVE  IInv'
<1> USE DEF IInv
<1>1. TypeOK'
  BY ConsumedShape, MessageShape DEF TypeOK, UpsertOps, QueryOps, DB!NoOp,
     Delivered, DB!Remove, threadVars, history
<1>2. SentInv'
  BY DEF TypeOK, SentInv, DB!Remove, threadVars, history
<1>3. CopyInv'
  BY ConsumedShape, MessageShape DEF TypeOK, SentInv, CopyInv, ThreadInv,
     IsCopy, UpsertStage, QueryStage, UpsertOps, QueryOps, DB!NoOp, DB!Remove,
     threadVars, history
<1>4. FoundFinite'
  BY DEF TypeOK, ThreadInv, FoundFinite, UpsertStage, QueryStage, UpsertOps,
     QueryOps, DB!NoOp, DB!Remove, threadVars, history
<1>5. ThreadInv'
  BY ConsumedShape, MessageShape DEF TypeOK, ThreadInv, CopyInv, Delivered,
     UpsertStage, QueryStage, UpsertOps, QueryOps, DB!NoOp, DB!Remove,
     threadVars, history
<1>6. OneCopyUntilPut'
  BY ConsumedShape, MessageShape, CopyShape DEF TypeOK, SentInv, CopyInv,
     ThreadInv, OneCopyUntilPut, Unput, UpsertStage, QueryStage, UpsertOps,
     QueryOps, DB!NoOp, DB!Remove, threadVars, history
<1>7. PendingInv'
  BY ConsumedShape, MessageShape, CopyShape DEF TypeOK, SentInv, CopyInv,
     ThreadInv, OneCopyUntilPut, PendingInv, Unput, UpsertStage, QueryStage,
     UpsertOps, QueryOps, DB!NoOp, DB!Remove, threadVars, history
<1>8. QueryFresh'
  BY ConsumedShape, MessageShape, CopyShape DEF TypeOK, SentInv, CopyInv,
     ThreadInv, PendingInv, QueryFresh, Delivered, UpsertStage, QueryStage,
     UpsertOps, QueryOps, DB!NoOp, DB!Remove, threadVars, history
<1>9. QuerySees'
  <2>1. \A t \in Threads : pc[t] = "query" =>
            call[t] \in Workers /\ op'[call[t]] = op[call[t]]
    BY DEF TypeOK, ThreadInv, QueryStage, DB!Remove, threadVars, history
  <2>2. QED
    BY <2>1, ConsumedShape, MessageShape, CopyShape DEF TypeOK, ThreadInv, CopyInv,
       QuerySees, DB!Remove, threadVars, history
<1>10. NotReturnedAgain'
  BY ConsumedShape, MessageShape, CopyShape DEF TypeOK, CopyInv, ThreadInv,
     QueryFresh, NotReturnedAgain, Dequeues, UpsertStage, QueryStage,
     DB!Remove, threadVars, history
<1>11. FifoOrder'
  BY ConsumedShape, MessageShape, CopyShape DEF TypeOK, SentInv, CopyInv,
     ThreadInv, OneCopyUntilPut, QuerySees, FifoOrder, Dequeues, Sees, Unput,
     UpsertStage, QueryStage, UpsertOps, QueryOps, DB!NoOp, DB!Remove,
     threadVars, history
<1>12. KeptInv'
  BY ConsumedShape, MessageShape, CopyShape DEF TypeOK, SentInv, CopyInv,
     ThreadInv, KeptInv, Kept, UpsertStage, QueryStage, UpsertOps, QueryOps,
     DB!NoOp, DB!Remove, threadVars, history
<1>13. QED BY <1>1, <1>2, <1>3, <1>4, <1>5, <1>6, <1>7, <1>8, <1>9, <1>10, <1>11, <1>12

(* Put keeps IInv.                                                          *)
LEMMA PutStep ==
    ASSUME IInv, NEW w \in Workers, DB!Put(w), UNCHANGED <<threadVars, history>>
    PROVE  IInv'
<1> USE DEF IInv
<1>1. TypeOK'
  BY DEF TypeOK, UpsertOps, QueryOps, DB!NoOp, DB!Put, threadVars, history
<1>2. SentInv'
  BY DEF TypeOK, SentInv, DB!Put, threadVars, history
<1>3. CopyInv'
  BY ConsumedShape, MessageShape DEF TypeOK, SentInv, CopyInv, ThreadInv,
     IsCopy, UpsertStage, QueryStage, UpsertOps, QueryOps, DB!NoOp, DB!Put,
     threadVars, history
<1>4. FoundFinite'
  BY DEF TypeOK, ThreadInv, FoundFinite, UpsertStage, QueryStage, UpsertOps,
     QueryOps, DB!NoOp, DB!Put, threadVars, history
<1>5. ThreadInv'
  BY ConsumedShape, MessageShape DEF TypeOK, ThreadInv, CopyInv, Delivered,
     UpsertStage, QueryStage, UpsertOps, QueryOps, DB!NoOp, DB!Put,
     threadVars, history
<1>6. OneCopyUntilPut'
  BY ConsumedShape, MessageShape, CopyShape, SMTT(30) DEF TypeOK, SentInv,
     CopyInv, ThreadInv, OneCopyUntilPut, Unput, UpsertStage, QueryStage,
     UpsertOps, QueryOps, DB!NoOp, DB!Put, threadVars, history
<1>7. PendingInv'
  BY ConsumedShape, MessageShape, CopyShape, SMTT(30) DEF TypeOK, SentInv,
     CopyInv, ThreadInv, OneCopyUntilPut, PendingInv, Unput, UpsertStage,
     QueryStage, UpsertOps, QueryOps, DB!NoOp, DB!Put, threadVars, history
<1>8. QueryFresh'
  BY ConsumedShape, MessageShape, CopyShape DEF TypeOK, SentInv, CopyInv,
     ThreadInv, PendingInv, QueryFresh, Delivered, UpsertStage, QueryStage,
     UpsertOps, QueryOps, DB!NoOp, DB!Put, threadVars, history
<1>9. QuerySees'
  <2> SUFFICES ASSUME NEW s \in Threads, NEW i \in Ids,
                      pc[s] = "query", i \in ackedBefore[s],
                      sent[i].consumer_service = op'[call[s]].query,
                      val'[sent[i].uuid] = sent[i]
               PROVE  Sees(op'[call[s]], sent[i])
    BY DEF QuerySees, Sees, threadVars, history
  <2>1. call[s] \in Workers /\ op'[call[s]] = op[call[s]]
    BY DEF TypeOK, ThreadInv, QueryStage, DB!Put
  <2>2. sent[i] # NoMessage /\ i \in acked /\ sent[i].id = i
    BY DEF SentInv, CopyInv, ThreadInv
  <2>3. op[w].payload # sent[i]
    BY <2>2 DEF OneCopyUntilPut, Unput, DB!Put
  <2>4. sent[i].uuid \in Uuids
    BY <2>2, MessageShape DEF TypeOK
  <2>5. val[sent[i].uuid] = sent[i]
    BY <2>3, <2>4 DEF TypeOK, DB!Put
  <2>6. QED BY <2>1, <2>5 DEF QuerySees
<1>10. NotReturnedAgain'
  BY ConsumedShape, MessageShape, CopyShape DEF TypeOK, CopyInv, ThreadInv,
     QueryFresh, NotReturnedAgain, Dequeues, UpsertStage, QueryStage, DB!Put,
     threadVars, history
<1>11. FifoOrder'
  BY ConsumedShape, MessageShape, CopyShape DEF TypeOK, SentInv, CopyInv,
     ThreadInv, OneCopyUntilPut, QuerySees, FifoOrder, Dequeues, Sees, Unput,
     UpsertStage, QueryStage, UpsertOps, QueryOps, DB!NoOp, DB!Put,
     threadVars, history
<1>12. KeptInv'
  <2>0. PICK p : p = op[w].payload
    OBVIOUS
  <2>1. /\ op[w] \in UpsertOps
        /\ op[w].stage = "removed"
        /\ IsCopy(p)
        /\ p.uuid \in Uuids
        /\ op[w].key = p.uuid
    BY <2>0, OpShape, MessageShape DEF DB!Put, CopyInv, UpsertStage, IsCopy
  <2>2. /\ p.id \in Ids
        /\ sent[p.id] # NoMessage
        /\ p.uuid = sent[p.id].uuid
        /\ p \in {sent[p.id], Consumed(sent[p.id])}
    BY <2>1, CopyShape DEF IsCopy
  <2>3. /\ val' = [val EXCEPT ![p.uuid] = p]
        /\ \A x \in Workers : op[x].stage = "removed" /\ x # w => op'[x] = op[x]
        /\ sent' = sent /\ torn' = torn
    BY <2>0, <2>1 DEF TypeOK, DB!Put, threadVars, history
  <2>4. Kept(p.id)'
    BY <2>1, <2>2, <2>3 DEF TypeOK, Kept, Consumed
  <2>5. \A i \in Ids : sent[i] # NoMessage /\ Kept(i) => Kept(i)'
    <3> SUFFICES ASSUME NEW i \in Ids, sent[i] # NoMessage, Kept(i)
                 PROVE  Kept(i)'
      OBVIOUS
    <3>1. CASE sent[i].uuid = p.uuid /\ i # p.id
      BY <2>2, <2>3, <3>1 DEF Kept
    <3>2. CASE sent[i].uuid # p.uuid
      <4>1. sent[i].uuid \in Uuids
        BY MessageShape DEF TypeOK
      <4>2. val'[sent[i].uuid] = val[sent[i].uuid]
        BY <2>3, <3>2, <4>1 DEF TypeOK
      <4>3. op[w].key # sent[i].uuid
        BY <2>1, <3>2
      <4>4. QED BY <2>3, <4>2, <4>3 DEF Kept, Consumed
    <3>3. QED BY <2>4, <3>1, <3>2
  <2>6. QED
    <3>1. /\ acked' = acked /\ pc' = pc /\ msg' = msg
          /\ \A x \in Workers \ {w} : op'[x] = op[x]
          /\ op'[w].payload = p
      BY <2>0, <2>1 DEF TypeOK, DB!Put, threadVars, history, UpsertOps
    <3>2. \A i \in Ids : i \in acked => sent[i] # NoMessage
      BY DEF CopyInv
    <3>3. \A t \in Threads : pc[t] = "reply" => sent[msg[t].id] # NoMessage
      BY MessageShape DEF CopyInv, ThreadInv, IsCopy
    <3>4. \A x \in Workers : op[x].stage = "ok" => sent[op[x].payload.id] # NoMessage
      BY MessageShape DEF CopyInv, IsCopy, UpsertStage
    <3>5. QED BY <2>4, <2>5, <3>1, <3>2, <3>3, <3>4 DEF KeptInv
<1>13. QED BY <1>1, <1>2, <1>3, <1>4, <1>5, <1>6, <1>7, <1>8, <1>9, <1>10, <1>11, <1>12

(* List keeps IInv.                                                         *)
LEMMA ListStep ==
    ASSUME IInv, NEW w \in Workers, DB!List(w), UNCHANGED <<threadVars, history>>
    PROVE  IInv'
<1> USE DEF IInv
<1>1. TypeOK'
  BY ConsumedShape, MessageShape DEF TypeOK, UpsertOps, QueryOps, DB!NoOp,
     Delivered, DB!List, DB!QueryOp, threadVars, history
<1>2. SentInv'
  BY DEF TypeOK, SentInv, DB!List, DB!QueryOp, threadVars, history
<1>3. CopyInv'
  <2>1. \A u \in Uuids : val'[u] # NoMessage => IsCopy(val[u])' /\ val'[u].uuid = u
    BY MessageShape DEF TypeOK, CopyInv, ThreadInv, IsCopy, SentInv, DB!List,
       DB!QueryOp, threadVars, history
  <2>2. \A x \in Workers : UpsertStage(op'[x].stage) =>
            IsCopy(op[x].payload)' /\ op'[x].key = op'[x].payload.uuid
    BY MessageShape DEF TypeOK, CopyInv, ThreadInv, IsCopy, UpsertStage,
       QueryStage, UpsertOps, QueryOps, DB!NoOp, DB!List, DB!QueryOp,
       threadVars, history
  <2>3. \A x \in Workers : QueryStage(op'[x].stage) =>
            \A r \in op'[x].found :
                /\ IsCopy(r[2])'
                /\ r[2].uuid = r[1]
                /\ r[2].status = "pending"
                /\ r[2].consumer_service = op'[x].query
    BY MessageShape DEF TypeOK, CopyInv, ThreadInv, IsCopy, UpsertStage,
       QueryStage, UpsertOps, QueryOps, DB!NoOp, DB!List, DB!QueryOp,
       threadVars, history
  <2>4. \A s \in Threads : msg'[s] # NoMessage => IsCopy(msg[s])'
    BY MessageShape DEF TypeOK, CopyInv, ThreadInv, IsCopy, DB!List,
       DB!QueryOp, threadVars, history
  <2>5. \A i \in Ids : i \in acked' \/ deliveries'[i] > 0 => sent'[i] # NoMessage
    BY MessageShape DEF TypeOK, CopyInv, DB!List, DB!QueryOp, threadVars,
       history
  <2>6. QED BY <2>1, <2>2, <2>3, <2>4, <2>5 DEF CopyInv
<1>4. FoundFinite'
  BY FS_EmptySet DEF TypeOK, FoundFinite, QueryStage, UpsertOps, QueryOps,
     DB!NoOp, DB!List, DB!QueryOp, threadVars, history
<1>5. ThreadInv'
  BY ConsumedShape, MessageShape DEF TypeOK, ThreadInv, CopyInv, Delivered,
     UpsertStage, QueryStage, UpsertOps, QueryOps, DB!NoOp, DB!List,
     DB!QueryOp, threadVars, history
<1>6. OneCopyUntilPut'
  BY ConsumedShape, MessageShape, CopyShape DEF TypeOK, SentInv, CopyInv,
     ThreadInv, OneCopyUntilPut, Unput, UpsertStage, QueryStage, UpsertOps,
     QueryOps, DB!NoOp, DB!List, DB!QueryOp, threadVars, history
<1>7. PendingInv'
  BY ConsumedShape, MessageShape, CopyShape DEF TypeOK, SentInv, CopyInv,
     ThreadInv, OneCopyUntilPut, PendingInv, Unput, UpsertStage, QueryStage,
     UpsertOps, QueryOps, DB!NoOp, DB!List, DB!QueryOp, threadVars, history
<1>8. QueryFresh'
  BY ConsumedShape, MessageShape, CopyShape DEF TypeOK, SentInv, CopyInv,
     ThreadInv, PendingInv, QueryFresh, Delivered, UpsertStage, QueryStage,
     UpsertOps, QueryOps, DB!NoOp, DB!List, DB!QueryOp, threadVars, history
<1>9. QuerySees'
  BY ConsumedShape, MessageShape, CopyShape DEF TypeOK, SentInv, CopyInv,
     ThreadInv, OneCopyUntilPut, QuerySees, Sees, Unput, UpsertStage,
     QueryStage, UpsertOps, QueryOps, DB!NoOp, DB!List, DB!QueryOp,
     threadVars, history
<1>10. NotReturnedAgain'
  BY ConsumedShape, MessageShape, CopyShape DEF TypeOK, CopyInv, ThreadInv,
     QueryFresh, NotReturnedAgain, Dequeues, UpsertStage, QueryStage, DB!List,
     DB!QueryOp, threadVars, history
<1>11. FifoOrder'
  BY ConsumedShape, MessageShape, CopyShape DEF TypeOK, SentInv, CopyInv,
     ThreadInv, OneCopyUntilPut, QuerySees, FifoOrder, Dequeues, Sees, Unput,
     UpsertStage, QueryStage, UpsertOps, QueryOps, DB!NoOp, DB!List,
     DB!QueryOp, threadVars, history
<1>12. KeptInv'
  <2>1. \A i \in Ids : sent[i] # NoMessage /\ Kept(i) => Kept(i)'
    BY KeptStays DEF TypeOK, ThreadInv, UpsertOps, QueryOps, DB!NoOp, DB!List,
       DB!QueryOp, threadVars, history
  <2>2. QED
    BY <2>1, ConsumedShape, MessageShape DEF TypeOK, CopyInv, ThreadInv,
       KeptInv, IsCopy, UpsertStage, QueryStage, UpsertOps, QueryOps, DB!NoOp,
       DB!List, DB!QueryOp, threadVars, history
<1>13. QED BY <1>1, <1>2, <1>3, <1>4, <1>5, <1>6, <1>7, <1>8, <1>9, <1>10, <1>11, <1>12

(* See keeps IInv.                                                          *)
LEMMA SeeStep ==
    ASSUME IInv, NEW w \in Workers, NEW k \in Uuids, DB!See(w, k), UNCHANGED <<threadVars, history>>
    PROVE  IInv'
<1> USE DEF IInv
<1>1. TypeOK'
  BY ConsumedShape, MessageShape DEF TypeOK, UpsertOps, QueryOps, DB!NoOp,
     Delivered, DB!See, DB!QueryOp, threadVars, history
<1>2. SentInv'
  BY DEF TypeOK, SentInv, DB!See, DB!QueryOp, threadVars, history
<1>3. CopyInv'
  <2>0. PICK seen : /\ seen = {} \/ (seen = {<<k, val[k]>>} /\ val[k] # NoMessage
                        /\ val[k].status = "pending"
                        /\ val[k].consumer_service = op[w].query)
                    /\ op' = [op EXCEPT ![w] = DB!QueryOp("read", op[w].query,
                                        op[w].todo \ {k}, op[w].found \union seen)]
    <3>1. op[w].query \in Consumers
      BY OpShape DEF DB!See, QueryStage, QueryOps
    <3>2. QED BY <3>1, MessageShape DEF DB!See
  <2>1. \A u \in Uuids : val'[u] # NoMessage => IsCopy(val[u])' /\ val'[u].uuid = u
    BY MessageShape DEF TypeOK, CopyInv, ThreadInv, IsCopy, SentInv, DB!See,
       DB!QueryOp, threadVars, history
  <2>2. \A x \in Workers : UpsertStage(op'[x].stage) =>
            IsCopy(op[x].payload)' /\ op'[x].key = op'[x].payload.uuid
    BY <2>0, MessageShape DEF TypeOK, CopyInv, IsCopy, UpsertStage, QueryStage, DB!QueryOp,
       threadVars, history
  <2>3. \A x \in Workers : QueryStage(op'[x].stage) =>
            \A r \in op'[x].found :
                /\ IsCopy(r[2])'
                /\ r[2].uuid = r[1]
                /\ r[2].status = "pending"
                /\ r[2].consumer_service = op'[x].query
    <3>1. \A n : IsCopy(n) => IsCopy(n)'
      BY DEF IsCopy, threadVars, history
    <3>2. \A r \in seen : IsCopy(r[2]) /\ r[2].uuid = r[1]
      BY <2>0 DEF CopyInv
    <3>3. QueryStage(op[w].stage)
      BY DEF DB!See, QueryStage
    <3>4. QED BY <2>0, <3>1, <3>2, <3>3 DEF TypeOK, CopyInv, DB!QueryOp
  <2>4. \A s \in Threads : msg'[s] # NoMessage => IsCopy(msg[s])'
    BY MessageShape DEF TypeOK, CopyInv, ThreadInv, IsCopy, DB!See,
       DB!QueryOp, threadVars, history
  <2>5. \A i \in Ids : i \in acked' \/ deliveries'[i] > 0 => sent'[i] # NoMessage
    BY MessageShape DEF TypeOK, CopyInv, DB!See, DB!QueryOp, threadVars,
       history
  <2>6. QED BY <2>1, <2>2, <2>3, <2>4, <2>5 DEF CopyInv
<1>4. FoundFinite'
  <2>1. op[w] \in QueryOps /\ op[w].stage = "read"
    BY OpShape DEF DB!See, QueryStage
  <2>2. IsFiniteSet(op[w].found)
    BY <2>1 DEF FoundFinite, QueryStage
  <2>3. PICK seen : /\ seen = {} \/ seen = {<<k, val[k]>>}
                    /\ op' = [op EXCEPT ![w] = DB!QueryOp("read", op[w].query,
                                        op[w].todo \ {k}, op[w].found \union seen)]
    BY DEF DB!See
  <2>4. IsFiniteSet(op[w].found \union seen)
    BY <2>2, <2>3, FS_AddElement
  <2>5. QED
    BY <2>3, <2>4 DEF TypeOK, FoundFinite, DB!QueryOp
<1>5. ThreadInv'
  BY ConsumedShape, MessageShape DEF TypeOK, ThreadInv, CopyInv, Delivered,
     UpsertStage, QueryStage, UpsertOps, QueryOps, DB!NoOp, DB!See,
     DB!QueryOp, threadVars, history
<1>6. OneCopyUntilPut'
  BY ConsumedShape, MessageShape, CopyShape DEF TypeOK, SentInv, CopyInv,
     ThreadInv, OneCopyUntilPut, Unput, UpsertStage, QueryStage, UpsertOps,
     QueryOps, DB!NoOp, DB!See, DB!QueryOp, threadVars, history
<1>7. PendingInv'
  BY ConsumedShape, MessageShape, CopyShape DEF TypeOK, SentInv, CopyInv,
     ThreadInv, OneCopyUntilPut, PendingInv, Unput, UpsertStage, QueryStage,
     UpsertOps, QueryOps, DB!NoOp, DB!See, DB!QueryOp, threadVars, history
<1>8. QueryFresh'
  BY ConsumedShape, MessageShape, CopyShape, SMTT(30) DEF TypeOK, SentInv,
     CopyInv, ThreadInv, PendingInv, QueryFresh, Delivered, UpsertStage,
     QueryStage, UpsertOps, QueryOps, DB!NoOp, DB!See, DB!QueryOp, threadVars,
     history
<1>9. QuerySees'
  <2>0. val' = val /\ UNCHANGED <<threadVars, history>>
    BY DEF DB!See
  <2> SUFFICES ASSUME NEW s \in Threads, NEW i \in Ids,
                      pc[s] = "query", i \in ackedBefore[s],
                      sent[i].consumer_service = op'[call[s]].query,
                      val[sent[i].uuid] = sent[i]
               PROVE  Sees(op'[call[s]], sent[i])
    BY <2>0 DEF QuerySees, Sees, threadVars, history
  <2>1. op[w] \in QueryOps /\ op[w].stage = "read"
    BY OpShape DEF DB!See, QueryStage
  <2>2. sent[i] \in Message /\ sent[i].status = "pending" /\ call[s] \in Workers
    BY DEF TypeOK, SentInv, CopyInv, ThreadInv
  <2>3. CASE call[s] # w
    BY <2>2, <2>3 DEF TypeOK, QuerySees, DB!See
  <2>4. CASE call[s] = w
    <3>1. /\ op'[w].stage = "read"
          /\ op'[w].query = op[w].query
          /\ op'[w].todo = op[w].todo \ {k}
          /\ op[w].found \subseteq op'[w].found
      BY <2>1 DEF TypeOK, DB!See, DB!QueryOp
    <3>2. Sees(op[w], sent[i])
      BY <2>2, <2>4, <3>1 DEF QuerySees
    <3>3. sent[i].uuid = k => <<k, sent[i]>> \in op'[w].found
      BY <2>1, <2>2, <2>4, <3>1, MessageShape DEF TypeOK, DB!See, DB!QueryOp, QueryOps
    <3>4. QED BY <2>1, <2>4, <3>1, <3>2, <3>3 DEF Sees
  <2>5. QED BY <2>3, <2>4
<1>10. NotReturnedAgain'
  BY ConsumedShape, MessageShape, CopyShape DEF TypeOK, CopyInv, ThreadInv,
     QueryFresh, NotReturnedAgain, Dequeues, UpsertStage, QueryStage, DB!See,
     DB!QueryOp, threadVars, history
<1>11. FifoOrder'
  BY ConsumedShape, MessageShape, CopyShape DEF TypeOK, SentInv, CopyInv,
     ThreadInv, OneCopyUntilPut, QuerySees, FifoOrder, Dequeues, Sees, Unput,
     UpsertStage, QueryStage, UpsertOps, QueryOps, DB!NoOp, DB!See,
     DB!QueryOp, threadVars, history
<1>12. KeptInv'
  <2>1. \A i \in Ids : sent[i] # NoMessage /\ Kept(i) => Kept(i)'
    BY KeptStays DEF TypeOK, ThreadInv, UpsertOps, QueryOps, DB!NoOp, DB!See,
       DB!QueryOp, threadVars, history
  <2>2. QED
    BY <2>1, SMTT(30), ConsumedShape, MessageShape DEF TypeOK, CopyInv, ThreadInv,
       KeptInv, IsCopy, UpsertStage, QueryStage, UpsertOps, QueryOps, DB!NoOp,
       DB!See, DB!QueryOp, threadVars, history
<1>13. QED BY <1>1, <1>2, <1>3, <1>4, <1>5, <1>6, <1>7, <1>8, <1>9, <1>10, <1>11, <1>12

(* AnswerQuery keeps IInv.                                                  *)
LEMMA AnswerQueryStep ==
    ASSUME IInv, NEW w \in Workers, DB!AnswerQuery(w), UNCHANGED <<threadVars, history>>
    PROVE  IInv'
<1> USE DEF IInv
<1>1. TypeOK'
  BY ConsumedShape, MessageShape DEF TypeOK, UpsertOps, QueryOps, DB!NoOp,
     Delivered, DB!AnswerQuery, DB!Answers, DB!QueryOp, threadVars, history
<1>2. SentInv'
  BY DEF TypeOK, SentInv, DB!AnswerQuery, DB!Answers, DB!QueryOp, threadVars,
     history
<1>3. CopyInv'
  BY ConsumedShape, MessageShape DEF TypeOK, SentInv, CopyInv, ThreadInv,
     IsCopy, UpsertStage, QueryStage, UpsertOps, QueryOps, DB!NoOp,
     DB!AnswerQuery, DB!Answers, DB!QueryOp, threadVars, history
<1>4. FoundFinite'
  BY FS_Subset DEF TypeOK, FoundFinite, QueryStage, UpsertOps, QueryOps,
     DB!NoOp, DB!AnswerQuery, DB!Answers, DB!QueryOp, threadVars, history
<1>5. ThreadInv'
  BY ConsumedShape, MessageShape DEF TypeOK, ThreadInv, CopyInv, Delivered,
     UpsertStage, QueryStage, UpsertOps, QueryOps, DB!NoOp, DB!AnswerQuery,
     DB!Answers, DB!QueryOp, threadVars, history
<1>6. OneCopyUntilPut'
  BY ConsumedShape, MessageShape, CopyShape DEF TypeOK, SentInv, CopyInv,
     ThreadInv, OneCopyUntilPut, Unput, UpsertStage, QueryStage, UpsertOps,
     QueryOps, DB!NoOp, DB!AnswerQuery, DB!Answers, DB!QueryOp, threadVars,
     history
<1>7. PendingInv'
  BY ConsumedShape, MessageShape, CopyShape DEF TypeOK, SentInv, CopyInv,
     ThreadInv, OneCopyUntilPut, PendingInv, Unput, UpsertStage, QueryStage,
     UpsertOps, QueryOps, DB!NoOp, DB!AnswerQuery, DB!Answers, DB!QueryOp,
     threadVars, history
<1>8. QueryFresh'
  BY ConsumedShape, MessageShape, CopyShape DEF TypeOK, SentInv, CopyInv,
     ThreadInv, PendingInv, QueryFresh, Delivered, UpsertStage, QueryStage,
     UpsertOps, QueryOps, DB!NoOp, DB!AnswerQuery, DB!Answers, DB!QueryOp,
     threadVars, history
<1>9. QuerySees'
  <2> SUFFICES ASSUME NEW s \in Threads, NEW i \in Ids,
                      pc[s] = "query", i \in ackedBefore[s],
                      sent[i].consumer_service = op'[call[s]].query,
                      val[sent[i].uuid] = sent[i]
               PROVE  Sees(op'[call[s]], sent[i])
    BY DEF QuerySees, Sees, DB!AnswerQuery, threadVars, history
  <2>1. op[w] \in QueryOps /\ op[w].stage = "read" /\ op[w].todo = {}
    BY OpShape DEF DB!AnswerQuery, QueryStage
  <2>2. sent[i] \in Message /\ call[s] \in Workers
    BY DEF TypeOK, CopyInv, ThreadInv
  <2>3. CASE call[s] # w
    BY <2>2, <2>3 DEF TypeOK, QuerySees, DB!AnswerQuery
  <2>4. CASE call[s] = w
    <3> DEFINE seen == op[w].found
               m == <<sent[i].uuid, sent[i]>>
    <3>1. PICK R \in SUBSET seen :
            /\ R = seen \/ Cardinality(R) = 1
            /\ Cardinality(R) <= 1
            /\ \A r \in R, x \in seen \ R : r[2].timestamp <= x[2].timestamp
            /\ op' = [op EXCEPT ![w] = DB!QueryOp("answer", op[w].query, {}, R)]
      <4>1. op[w].query \in Consumers /\ seen \subseteq Uuids \X Message
        BY <2>1 DEF QueryOps
      <4>2. \A y \in seen : y[2] \in Message
        BY <4>1
      <4>3. [c \in Consumers |-> 1][op[w].query] = 1
        BY <4>1
      <4>4. \A y \in seen :
              [c \in Consumers |-> [n \in Message |-> n.timestamp]][op[w].query][y[2]]
                = y[2].timestamp
        BY <4>1, <4>2
      <4>5. PICK R \in DB!Answers(op[w].query, seen) :
              op' = [op EXCEPT ![w] = DB!QueryOp("answer", op[w].query, {}, R)]
        BY DEF DB!AnswerQuery
      <4>6. /\ R \in SUBSET seen
            /\ R = seen \/ Cardinality(R) = 1
            /\ Cardinality(R) <= 1
        BY <4>3, <4>5, SameCardinality DEF DB!Answers
      <4>7. \A r \in R, y \in seen \ R : r[2].timestamp <= y[2].timestamp
        BY <4>4, <4>5 DEF DB!Answers
      <4>8. QED BY <4>5, <4>6, <4>7
    <3>2. /\ op'[w].stage = "answer"
          /\ op'[w].query = op[w].query
          /\ op'[w].found = R
      BY <3>1 DEF TypeOK, DB!QueryOp
    <3>3. m \in seen
      BY <2>1, <2>2, <2>4, <3>2 DEF QuerySees, Sees
    <3>4. R # {} /\ \A r \in R : r = m \/ r[2].timestamp <= sent[i].timestamp
      <4>1. IsFiniteSet(seen)
        BY <2>1 DEF FoundFinite, QueryStage
      <4> HIDE DEF seen
      <4>2. QED BY <3>1, <3>3, <4>1, AnswerShape
    <3>5. QED BY <2>2, <2>4, <3>2, <3>4, MessageShape DEF Sees
  <2>5. QED BY <2>3, <2>4
<1>10. NotReturnedAgain'
  BY ConsumedShape, MessageShape, CopyShape DEF TypeOK, CopyInv, ThreadInv,
     QueryFresh, NotReturnedAgain, Dequeues, UpsertStage, QueryStage,
     DB!AnswerQuery, DB!Answers, DB!QueryOp, threadVars, history
<1>11. FifoOrder'
  BY ConsumedShape, MessageShape, CopyShape DEF TypeOK, SentInv, CopyInv,
     ThreadInv, OneCopyUntilPut, QuerySees, FifoOrder, Dequeues, Sees, Unput,
     UpsertStage, QueryStage, UpsertOps, QueryOps, DB!NoOp, DB!AnswerQuery,
     DB!Answers, DB!QueryOp, threadVars, history
<1>12. KeptInv'
  <2>1. \A i \in Ids : sent[i] # NoMessage /\ Kept(i) => Kept(i)'
    BY KeptStays DEF TypeOK, ThreadInv, UpsertOps, QueryOps, DB!NoOp,
       DB!AnswerQuery, DB!Answers, DB!QueryOp, threadVars, history
  <2>2. QED
    BY <2>1, ConsumedShape, MessageShape DEF TypeOK, CopyInv, ThreadInv,
       KeptInv, IsCopy, UpsertStage, QueryStage, UpsertOps, QueryOps, DB!NoOp,
       DB!AnswerQuery, DB!Answers, DB!QueryOp, threadVars, history
<1>13. QED BY <1>1, <1>2, <1>3, <1>4, <1>5, <1>6, <1>7, <1>8, <1>9, <1>10, <1>11, <1>12

(* Unheard keeps IInv.                                                      *)
LEMMA UnheardStep ==
    ASSUME IInv, NEW w \in Workers, Unheard(w)
    PROVE  IInv'
<1> USE DEF IInv
<1>0. /\ val' = val /\ op' = [op EXCEPT ![w] = DB!NoOp]
      /\ UNCHANGED <<threadVars, history>>
      /\ \A t \in Threads : call[t] # w
  BY DEF Unheard, DB!EndUpsert, DB!EndQuery
<1>1. TypeOK'
  BY <1>0, ConsumedShape, MessageShape DEF TypeOK, UpsertOps, QueryOps,
     DB!NoOp, Delivered, threadVars, history, Delivered
<1>2. SentInv'
  BY <1>0 DEF TypeOK, SentInv, threadVars, history, Delivered
<1>3. CopyInv'
  BY <1>0, ConsumedShape, MessageShape DEF TypeOK, SentInv, CopyInv,
     ThreadInv, IsCopy, UpsertStage, QueryStage, UpsertOps, QueryOps, DB!NoOp,
     threadVars, history, Delivered
<1>4. FoundFinite'
  BY <1>0 DEF TypeOK, ThreadInv, FoundFinite, UpsertStage, QueryStage,
     UpsertOps, QueryOps, DB!NoOp, threadVars, history, Delivered
<1>5. ThreadInv'
  BY <1>0, ConsumedShape, MessageShape DEF TypeOK, ThreadInv, CopyInv,
     Delivered, UpsertStage, QueryStage, UpsertOps, QueryOps, DB!NoOp,
     threadVars, history, Delivered
<1>6. OneCopyUntilPut'
  BY <1>0, ConsumedShape, MessageShape, CopyShape DEF TypeOK, SentInv,
     CopyInv, ThreadInv, OneCopyUntilPut, Unput, UpsertStage, QueryStage,
     UpsertOps, QueryOps, DB!NoOp, threadVars, history, Delivered
<1>7. PendingInv'
  BY <1>0, ConsumedShape, MessageShape, CopyShape DEF TypeOK, SentInv,
     CopyInv, ThreadInv, OneCopyUntilPut, PendingInv, Unput, UpsertStage,
     QueryStage, UpsertOps, QueryOps, DB!NoOp, threadVars, history, Delivered
<1>8. QueryFresh'
  BY <1>0, ConsumedShape, MessageShape, CopyShape DEF TypeOK, SentInv,
     CopyInv, ThreadInv, PendingInv, QueryFresh, Delivered, UpsertStage,
     QueryStage, UpsertOps, QueryOps, DB!NoOp, threadVars, history, Delivered
<1>9. QuerySees'
  <2>1. \A t \in Threads : pc[t] = "query" =>
            call[t] \in Workers /\ op'[call[t]] = op[call[t]]
    BY <1>0 DEF TypeOK, ThreadInv
  <2>2. QED
    BY <1>0, <2>1 DEF QuerySees, Sees, threadVars, history
<1>10. NotReturnedAgain'
  BY <1>0, ConsumedShape, MessageShape, CopyShape DEF TypeOK, CopyInv,
     ThreadInv, QueryFresh, NotReturnedAgain, Dequeues, UpsertStage,
     QueryStage, threadVars, history, Delivered
<1>11. FifoOrder'
  BY <1>0, ConsumedShape, MessageShape, CopyShape DEF TypeOK, SentInv,
     CopyInv, ThreadInv, OneCopyUntilPut, QuerySees, FifoOrder, Dequeues,
     Sees, Unput, UpsertStage, QueryStage, UpsertOps, QueryOps, DB!NoOp,
     threadVars, history, Delivered
<1>12. KeptInv'
  <2>1. op[w].stage # "removed"
    BY DEF Unheard, DB!EndUpsert, DB!EndQuery
  <2>2. \A i \in Ids : sent[i] # NoMessage /\ Kept(i) => Kept(i)'
    BY <1>0, <2>1, KeptStays DEF TypeOK, ThreadInv, UpsertOps, QueryOps, DB!NoOp,
       threadVars, history, Delivered
  <2>3. QED
    BY <1>0, <2>2, ConsumedShape, MessageShape DEF TypeOK, CopyInv, ThreadInv,
       KeptInv, IsCopy, UpsertStage, QueryStage, UpsertOps, QueryOps, DB!NoOp,
       threadVars, history, Delivered
<1>13. QED BY <1>1, <1>2, <1>3, <1>4, <1>5, <1>6, <1>7, <1>8, <1>9, <1>10, <1>11, <1>12

(* DatabaseCrash keeps IInv.                                                *)
LEMMA DatabaseCrashStep ==
    ASSUME IInv, DatabaseCrash
    PROVE  IInv'
<1> USE DEF IInv
<1>1. TypeOK'
  BY ConsumedShape, MessageShape DEF TypeOK, UpsertOps, QueryOps, DB!NoOp,
     Delivered, DatabaseCrash, DB!Crash
<1>2. SentInv'
  BY DEF TypeOK, SentInv, DatabaseCrash, DB!Crash
<1>3. CopyInv'
  BY ConsumedShape, MessageShape DEF TypeOK, SentInv, CopyInv, ThreadInv,
     IsCopy, UpsertStage, QueryStage, UpsertOps, QueryOps, DB!NoOp,
     DatabaseCrash, DB!Crash
<1>4. FoundFinite'
  BY DEF TypeOK, ThreadInv, FoundFinite, UpsertStage, QueryStage, UpsertOps,
     QueryOps, DB!NoOp, DatabaseCrash, DB!Crash
<1>5. ThreadInv'
  BY ConsumedShape, MessageShape DEF TypeOK, ThreadInv, CopyInv, Delivered,
     UpsertStage, QueryStage, UpsertOps, QueryOps, DB!NoOp, DatabaseCrash,
     DB!Crash
<1>6. OneCopyUntilPut'
  BY ConsumedShape, MessageShape, CopyShape DEF TypeOK, SentInv, CopyInv,
     ThreadInv, OneCopyUntilPut, Unput, UpsertStage, QueryStage, UpsertOps,
     QueryOps, DB!NoOp, DatabaseCrash, DB!Crash
<1>7. PendingInv'
  BY ConsumedShape, MessageShape, CopyShape DEF TypeOK, SentInv, CopyInv,
     ThreadInv, OneCopyUntilPut, PendingInv, Unput, UpsertStage, QueryStage,
     UpsertOps, QueryOps, DB!NoOp, DatabaseCrash, DB!Crash
<1>8. QueryFresh'
  BY ConsumedShape, MessageShape, CopyShape DEF TypeOK, SentInv, CopyInv,
     ThreadInv, PendingInv, QueryFresh, Delivered, UpsertStage, QueryStage,
     UpsertOps, QueryOps, DB!NoOp, DatabaseCrash, DB!Crash
<1>9. QuerySees'
  BY ConsumedShape, MessageShape, CopyShape DEF TypeOK, SentInv, CopyInv,
     ThreadInv, OneCopyUntilPut, QuerySees, Sees, Unput, UpsertStage,
     QueryStage, UpsertOps, QueryOps, DB!NoOp, DatabaseCrash, DB!Crash
<1>10. NotReturnedAgain'
  BY ConsumedShape, MessageShape, CopyShape DEF TypeOK, CopyInv, ThreadInv,
     QueryFresh, NotReturnedAgain, Dequeues, UpsertStage, QueryStage,
     DatabaseCrash, DB!Crash
<1>11. FifoOrder'
  BY ConsumedShape, MessageShape, CopyShape DEF TypeOK, SentInv, CopyInv,
     ThreadInv, OneCopyUntilPut, QuerySees, FifoOrder, Dequeues, Sees, Unput,
     UpsertStage, QueryStage, UpsertOps, QueryOps, DB!NoOp, DatabaseCrash,
     DB!Crash
<1>12. KeptInv'
  <2>1. \A i \in Ids : sent[i] # NoMessage /\ Kept(i) => Kept(i)'
    BY MessageShape DEF TypeOK, Kept, Consumed, DatabaseCrash, DB!Crash
  <2>2. QED
    BY <2>1, MessageShape DEF TypeOK, CopyInv, ThreadInv, KeptInv, IsCopy, UpsertStage,
       DatabaseCrash, DB!Crash, DB!NoOp
<1>13. QED BY <1>1, <1>2, <1>3, <1>4, <1>5, <1>6, <1>7, <1>8, <1>9, <1>10, <1>11, <1>12

-----------------------------------------------------------------------------
(* The theorems *)

(* The invariant holds at the start.                                       *)
LEMMA InvInit == Init => IInv
<1> SUFFICES ASSUME Init PROVE IInv
  OBVIOUS
<1>1. /\ \A w \in Workers : op[w] = DB!NoOp
      /\ \A u \in Uuids : val[u] = NoMessage
      /\ \A i \in Ids : sent[i] = NoMessage
  BY DEF Init, DB!Init
<1>2. TypeOK
  BY DEF Init, DB!Init, TypeOK
<1>3. SentInv /\ CopyInv /\ FoundFinite /\ OneCopyUntilPut /\ PendingInv
  BY <1>1 DEF Init, SentInv, CopyInv, FoundFinite, OneCopyUntilPut, PendingInv,
     Unput, UpsertStage, QueryStage, DB!NoOp
<1>4. ThreadInv
  BY DEF Init, ThreadInv
<1>5. QueryFresh /\ QuerySees /\ NotReturnedAgain /\ FifoOrder
  BY DEF Init, QueryFresh, QuerySees, NotReturnedAgain, FifoOrder, Dequeues
<1>6. KeptInv
  BY <1>1 DEF Init, KeptInv, DB!NoOp
<1>7. QED BY <1>2, <1>3, <1>4, <1>5, <1>6 DEF IInv

(* Every step keeps the invariant.                                         *)
LEMMA InvStep == IInv /\ [Next]_vars => IInv'
<1> SUFFICES ASSUME IInv, [Next]_vars PROVE IInv'
  OBVIOUS
<1>1. ASSUME NEW t \in Threads, NEW w \in Workers, NEW m \in Message, EnqueueCall(t, w, m)
      PROVE  IInv'
  BY <1>1, EnqueueCallStep
<1>2. ASSUME NEW t \in Threads, NEW w \in Workers, NEW c \in Consumers, DequeueCall(t, w, c)
      PROVE  IInv'
  BY <1>2, DequeueCallStep
<1>3. ASSUME NEW t \in Threads, NEW w \in Workers, ConsumeCall(t, w)
      PROVE  IInv'
  BY <1>3, ConsumeCallStep
<1>4. ASSUME NEW t \in Threads, NothingFound(t) PROVE IInv'
  BY <1>4, NothingFoundStep
<1>5. ASSUME NEW t \in Threads, MessageFound(t) PROVE IInv'
  BY <1>5, MessageFoundStep
<1>6. ASSUME NEW t \in Threads, UpsertOk(t) PROVE IInv'
  BY <1>6, UpsertOkStep
<1>7. ASSUME NEW t \in Threads, UpsertFailed(t) PROVE IInv'
  BY <1>7, UpsertFailedStep
<1>8. ASSUME NEW t \in Threads, Reply(t) PROVE IInv'
  BY <1>8, ReplyStep
<1>9. ASSUME NEW t \in Threads, Abort(t) PROVE IInv'
  BY <1>9, AbortStep
<1>10. CASE DatabaseStep
  <2>1. UNCHANGED <<threadVars, history>>
    BY <1>10 DEF DatabaseStep
  <2>2. PICK w \in Workers : \/ DB!FailUpsert(w)
                             \/ DB!Remove(w)
                             \/ DB!Put(w)
                             \/ DB!List(w)
                             \/ \E k \in Uuids : DB!See(w, k)
                             \/ DB!AnswerQuery(w)
    BY <1>10 DEF DatabaseStep, DB!Internal, DB!Step
  <2>3. CASE DB!FailUpsert(w)
    BY <2>1, <2>3, FailUpsertStep
  <2>4. CASE DB!Remove(w)
    BY <2>1, <2>4, RemoveStep
  <2>5. CASE DB!Put(w)
    BY <2>1, <2>5, PutStep
  <2>6. CASE DB!List(w)
    BY <2>1, <2>6, ListStep
  <2>7. CASE \E k \in Uuids : DB!See(w, k)
    BY <2>1, <2>7, SeeStep
  <2>8. CASE DB!AnswerQuery(w)
    BY <2>1, <2>8, AnswerQueryStep
  <2>9. QED BY <2>2, <2>3, <2>4, <2>5, <2>6, <2>7, <2>8
<1>11. ASSUME NEW w \in Workers, Unheard(w) PROVE IInv'
  BY <1>11, UnheardStep
<1>12. CASE DatabaseCrash
  BY <1>12, DatabaseCrashStep
<1>13. CASE UNCHANGED vars
  <2> USE <1>13 DEF vars, dbVars, threadVars, history
  <2>1. TypeOK' /\ SentInv' /\ FoundFinite' /\ ThreadInv'
    BY DEF IInv, TypeOK, SentInv, FoundFinite, ThreadInv, Delivered
  <2>2. CopyInv'
    BY DEF IInv, CopyInv, IsCopy
  <2>3. OneCopyUntilPut' /\ PendingInv'
    BY DEF IInv, OneCopyUntilPut, PendingInv, Unput
  <2>4. QueryFresh' /\ QuerySees'
    BY DEF IInv, QueryFresh, QuerySees, Sees
  <2>5. NotReturnedAgain' /\ FifoOrder'
    BY DEF IInv, NotReturnedAgain, FifoOrder, Dequeues
  <2>6. KeptInv'
    BY DEF IInv, KeptInv, Kept
  <2>7. QED BY <2>1, <2>2, <2>3, <2>4, <2>5, <2>6 DEF IInv
<1>14. QED
  BY <1>1, <1>2, <1>3, <1>4, <1>5, <1>6, <1>7, <1>8, <1>9, <1>10, <1>11, <1>12,
     <1>13 DEF Next, CallNext

(* The inductive invariant holds in every reachable state.                 *)
THEOREM Invariance == Spec => []IInv
BY InvInit, InvStep, PTL DEF Spec

(* Every variable of the message queue keeps its type.                     *)
THEOREM TypeCorrect == Spec => []TypeOK
<1>1. IInv => TypeOK
  BY DEF IInv
<1>2. QED BY <1>1, Invariance, PTL

(* Any number of threads, replicas, requests and crashes: a message that   *)
(* some client received is picked by no Dequeue that begins afterwards.    *)
THEOREM ConsumedMessageNotReturnedAgain == Spec => []NotReturnedAgain
<1>1. IInv => NotReturnedAgain
  BY DEF IInv
<1>2. QED BY <1>1, Invariance, PTL

(* A Dequeue passes over no older message that was enqueued before.        *)
THEOREM DequeueInOrder == Spec => []FifoOrder
<1>1. IInv => FifoOrder
  BY DEF IInv
<1>2. QED BY <1>1, Invariance, PTL

(* has_message = false is the truth about the messages enqueued before.    *)
THEOREM EmptyIsEmpty == Spec => []EmptyAnswer
<1>1. IInv => EmptyAnswer
  BY DEF IInv, EmptyAnswer, QuerySees, Sees
<1>2. QED BY <1>1, Invariance, PTL

(* An acknowledged message is lost only as AckedIsKept says.               *)
THEOREM AckedMessageKept == Spec => []AckedIsKept
<1>1. IInv => AckedIsKept
  BY DEF IInv, TypeOK, KeptInv, AckedIsKept
<1>2. QED BY <1>1, Invariance, PTL
==============================================================================
