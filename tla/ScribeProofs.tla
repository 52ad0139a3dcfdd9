----------------------------- MODULE ScribeProofs -----------------------------
(***************************************************************************)
(* The safety of Scribe, for every value of its constants.  The invariant  *)
(* IInv follows a job through its life: no record before PostUpload stores *)
(* one (PhaseOf), then one loop and one upsert at a time (RunOf), each with *)
(* the record it read or is to replace (UpsertOf, LogOf), and a chain from *)
(* what the page shows, over what its query has found and the record, to   *)
(* what is about to replace it (PageOf, FoundOf).                          *)
(*                                                                         *)
(* Most steps bring nothing new for a job (NothingNew): they are those of  *)
(* other jobs, and those that give something up, crashes among them.  The  *)
(* others have a lemma each.                                               *)
(***************************************************************************)
EXTENDS Scribe, FiniteSetTheorems, TLAPS

\* The contents that a thread, or a call on database-service, may have.
UpsertStage(s) == s \in {"begun", "removed", "ok", "failed"}
QueryStage(s) == s \in {"list", "read", "answer"}

UpsertOps(j) ==
    [stage : {"begun", "removed", "ok", "failed"}, key : {j}, payload : JobsNamed(j)]

QueryOps(j) ==
    [stage : {"list", "read", "answer"}, query : {j}, todo : SUBSET Jobs,
     found : SUBSET ({j} \X JobsNamed(j))]

Uploads == {"new", "putting", "storing", "sending", "redirected", "viewing", "failed"}

\* The stages at which a loop is alone in the directory of its job.
RunStage(s) == s \in {"docker", "query", "update", "upsert"}

FreeLoops == [at : {"poll", "ended"}, lines : {0}]
GivenLoops == [at : {"found", "fetch"}, job : Jobs, doing : {"append"}, lines : {0}]
FedLoops ==
    [at : {"mkdir", "docker", "query", "upsert"}, job : Jobs,
     doing : {"append", "publish"}, lines : Nat, input : SUBSET Jobs]
UpdatingLoops(j) ==
    [at : {"update"}, job : {j}, doing : {"append", "publish"}, lines : Nat,
     input : SUBSET Jobs, copy : JobsNamed(j)]

TypeInv ==
    /\ DOMAIN val = Jobs
    /\ \A j \in Jobs : val[j] = NoJob \/ val[j] \in JobsNamed(j)
    /\ DOMAIN op = Workers
    /\ \A w \in Workers :
        op[w] = DB!NoOp \/ \E j \in Jobs : op[w] \in UpsertOps(j) \union QueryOps(j)
    /\ call \in [Threads -> Workers \union {NoCall}]
    /\ upload \in [Jobs -> Uploads]
    /\ audio \in SUBSET Jobs
    /\ tasks \in [Jobs -> {"none", "sent", "pending", "consumed"}]
    /\ DOMAIN loop = Loops
    /\ \A l \in Loops :
        \/ loop[l] \in FreeLoops \union GivenLoops \union FedLoops
        \/ \E j \in Jobs : loop[l] \in UpdatingLoops(j)
    /\ dirs \in SUBSET Jobs
    /\ DOMAIN shown = Jobs
    /\ \A j \in Jobs : shown[j] = NoJob \/ shown[j] \in JobsNamed(j)
    /\ before \in [Jobs -> SUBSET Jobs]
    /\ written \in [Jobs -> Seq(Loops)]
    /\ hidden \in [Jobs -> BOOLEAN]
    /\ torn \in SUBSET Jobs

\* A call is served by a worker of its own.
CallInv ==
    /\ \A a, b \in Threads : call[a] = call[b] /\ call[a] # NoCall => a = b
    /\ \A j \in Jobs :
        /\ upload[j] \in {"storing", "viewing"} <=> call[j] # NoCall
        /\ upload[j] = "storing" => op[call[j]] \in UpsertOps(j)
        /\ upload[j] = "viewing" => op[call[j]] \in QueryOps(j)
    /\ \A l \in Loops :
        /\ loop[l].at \in {"query", "upsert"} <=> call[l] # NoCall
        /\ loop[l].at = "query" => op[call[l]] \in QueryOps(loop[l].job)
        /\ loop[l].at = "upsert" => op[call[l]] \in UpsertOps(loop[l].job)

Upserts(w, j) == UpsertStage(op[w].stage) /\ op[w].key = j

Holds(l, j) == loop[l].at \in LoopStages /\ loop[l].job = j
Runs(l, j) == RunStage(loop[l].at) /\ loop[l].job = j
Reads(l, j) == loop[l].at \in {"docker", "query", "update"} /\ loop[l].job = j

\* How far a job has come.
PhaseOf(j) ==
    /\ upload[j] \in {"new", "putting"} =>
        val[j] = NoJob /\ \A w \in Workers : ~ Upserts(w, j)
    /\ upload[j] \in {"new", "putting", "storing"} =>
        tasks[j] = "none" /\ shown[j] = NoJob
    /\ upload[j] \in {"sending", "redirected", "viewing"} => tasks[j] # "none"
    /\ \A l \in Loops : Holds(l, j) => tasks[j] # "none"
    /\ j \in dirs => tasks[j] # "none"
    /\ j \notin dirs =>
        /\ val[j] \in {NoJob, NewJob(j)}
        /\ written[j] = <<>>
        /\ \A w \in Workers : Upserts(w, j) => op[w].payload = NewJob(j)
        /\ tasks[j] # "none" => \A w \in Workers : ~ Upserts(w, j)

\* A job has one loop that runs docker for it, at most one upsert, and no upsert
\* beside a loop that is about to read.
RunOf(j) ==
    /\ \A l \in Loops : Runs(l, j) => j \in dirs
    /\ \A l, m \in Loops : Runs(l, j) /\ Runs(m, j) => l = m
    /\ \A v, w \in Workers : Upserts(v, j) /\ Upserts(w, j) => v = w
    /\ \A l \in Loops, w \in Workers : ~ (Reads(l, j) /\ Upserts(w, j))

\* The record that an upsert is to replace, and the one it brings.
UpsertOf(j) ==
    \A w \in Workers : Upserts(w, j) =>
        /\ op[w].stage = "removed" => val[j] = NoJob
        /\ op[w].stage = "ok" => val[j] = op[w].payload
        /\ val[j] # NoJob => op[w].payload \in Later(val[j])

\* The log of r has what was stored, and at most one chunk more.
Near(r, j) ==
    \/ r.cli_output = written[j]
    \/ \E l \in Loops : r.cli_output = Append(written[j], l)

\* What the loop that runs docker has read, and what it brings.
LogBy(l, j) ==
    /\ Reads(l, j) /\ val[j] # NoJob =>
        val[j].cli_output = written[j] /\ val[j].status # "completed"
    /\ Reads(l, j) /\ loop[l].at = "query" =>
        \A f \in op[call[l]].found : f[2] = val[j]
    /\ Reads(l, j) /\ loop[l].at = "update" => loop[l].copy = val[j]
    /\ Runs(l, j) /\ loop[l].at = "upsert" /\ loop[l].doing = "append" =>
        /\ op[call[l]].payload.cli_output = Append(written[j], l)
        /\ op[call[l]].payload.status # "completed"

LogOf(j) ==
    /\ val[j] # NoJob => Near(val[j], j)
    /\ \A w \in Workers : Upserts(w, j) => Near(op[w].payload, j)
    /\ \A l \in Loops : LogBy(l, j)

\* All that there is of the record, and all that is to come, is later than r.
Follow(r, j) ==
    /\ val[j] # NoJob => val[j] \in Later(r)
    /\ \A w \in Workers : Upserts(w, j) => op[w].payload \in Later(r)

\* What the page shows, what the query for it has found, and the record come in
\* this order.
PageOf(j) ==
    /\ shown[j] # NoJob => Follow(shown[j], j)
    /\ upload[j] = "viewing" => \A f \in op[call[j]].found :
        /\ shown[j] # NoJob => f[2] \in Later(shown[j])
        /\ Follow(f[2], j)

\* The record is there, or away, and the query for it will find it.
FoundOf(j) ==
    /\ upload[j] \in {"sending", "redirected", "viewing"} => val[j] # NoJob \/ j \in Away
    /\ upload[j] = "viewing" /\ ~ hidden[j] =>
        /\ j \notin Away
        /\ op[call[j]].stage = "read" => j \in op[call[j]].todo \/ op[call[j]].found # {}
        /\ op[call[j]].stage = "answer" => op[call[j]].found # {}

JobOf(j) ==
    PhaseOf(j) /\ RunOf(j) /\ UpsertOf(j) /\ LogOf(j) /\ PageOf(j) /\ FoundOf(j)

JobsInv == \A j \in Jobs : JobOf(j)

\* No bytes that were stored before the upload began are left for its job.
AudioOf(j) ==
    /\ \A k \in before[j] : upload[k] # "new"
    /\ upload[j] = "storing" \/ tasks[j] # "none" => audio \intersect before[j] = {}
    /\ val[j] # NoJob => val[j].transcript_text \intersect before[j] = {}
    /\ \A w \in Workers : Upserts(w, j) =>
        op[w].payload.transcript_text \intersect before[j] = {}
    /\ \A l \in Loops : Holds(l, j) /\ loop[l].at \notin {"found", "fetch"} =>
        loop[l].input \intersect before[j] = {}

AudioInv == \A j \in Jobs : AudioOf(j)

\* Which loops get as far as what.
DeployInv ==
    /\ \A l \in Loops :
        /\ loop[l].at \in LoopStages \ {"found"} => l \in deployment.transcribers
        /\ loop[l].at \in LoopStages \ {"found", "fetch"} => deployment.served
    /\ dirs # {} => deployment.transcribers # {} /\ deployment.served

-----------------------------------------------------------------------------
(* Shapes *)

USE ScribeAssumption

(* A record of a job is not the absence of one.                            *)
LEMMA JobShape ==
    ASSUME NEW j \in Jobs, NEW r \in JobsNamed(j)
    PROVE  /\ r # NoJob
           /\ r.job_id = j
           /\ r.status \in {"pending", "running", "completed"}
           /\ r.cli_output \in Seq(Loops)
           /\ r.transcript_text \in SUBSET Jobs
BY DEF JobsNamed

(* The record that PostUpload stores.                                      *)
LEMMA NewJobShape ==
    ASSUME NEW j \in Jobs
    PROVE  /\ NewJob(j) \in JobsNamed(j)
           /\ NewJob(j).status = "pending"
           /\ NewJob(j).cli_output = <<>>
           /\ NewJob(j).transcript_text = {}
BY DEF NewJob, JobsNamed

(* What the stage of a call says of its shape.                             *)
LEMMA OpShape ==
    ASSUME TypeInv, NEW w \in Workers
    PROVE  /\ op[w].stage \in {"idle", "begun", "removed", "ok", "failed", "list", "read", "answer"}
           /\ op[w].stage = "idle" <=> op[w] = DB!NoOp
           /\ UpsertStage(op[w].stage) => op[w].key \in Jobs /\ op[w] \in UpsertOps(op[w].key)
           /\ QueryStage(op[w].stage) => op[w].query \in Jobs /\ op[w] \in QueryOps(op[w].query)
<1>1. op[w] = DB!NoOp \/ \E j \in Jobs : op[w] \in UpsertOps(j) \union QueryOps(j)
  BY DEF TypeInv
<1>2. CASE op[w] = DB!NoOp
  BY <1>2 DEF DB!NoOp, UpsertStage, QueryStage
<1>3. ASSUME NEW j \in Jobs, op[w] \in UpsertOps(j)
      PROVE  /\ op[w].stage \in {"begun", "removed", "ok", "failed"}
             /\ op[w].key = j
             /\ op[w] # DB!NoOp
  BY <1>3 DEF UpsertOps, DB!NoOp
<1>4. ASSUME NEW j \in Jobs, op[w] \in QueryOps(j)
      PROVE  /\ op[w].stage \in {"list", "read", "answer"}
             /\ op[w].query = j
             /\ op[w] # DB!NoOp
  BY <1>4 DEF QueryOps, DB!NoOp
<1>5. QED BY <1>1, <1>2, <1>3, <1>4 DEF UpsertStage, QueryStage

(* A call on the record of j.                                              *)
LEMMA UpsertShape ==
    ASSUME NEW j \in Jobs, NEW o \in UpsertOps(j)
    PROVE  /\ UpsertStage(o.stage) /\ o.key = j /\ o.payload \in JobsNamed(j)
           /\ ~ QueryStage(o.stage) /\ o # DB!NoOp
BY DEF UpsertOps, UpsertStage, QueryStage, DB!NoOp

(* A query for the record of j finds nothing but records of j.             *)
LEMMA QueryShape ==
    ASSUME NEW j \in Jobs, NEW o \in QueryOps(j)
    PROVE  /\ QueryStage(o.stage) /\ o.query = j /\ o.todo \in SUBSET Jobs
           /\ ~ UpsertStage(o.stage) /\ o # DB!NoOp
           /\ \A f \in o.found : f[1] = j /\ f[2] \in JobsNamed(j) /\ f = <<j, f[2]>>
BY DEF QueryOps, UpsertStage, QueryStage, DB!NoOp

(* What the stage of a loop says of its shape.                             *)
LEMMA LoopShape ==
    ASSUME TypeInv, NEW l \in Loops
    PROVE  /\ loop[l].at \in {"poll", "ended"} \union LoopStages
           /\ loop[l].at \in {"poll", "ended"} => loop[l] \in FreeLoops
           /\ loop[l].at \in {"found", "fetch"} => loop[l] \in GivenLoops
           /\ loop[l].at \in {"mkdir", "docker", "query", "upsert"} => loop[l] \in FedLoops
           /\ loop[l].at = "update" =>
                loop[l].job \in Jobs /\ loop[l] \in UpdatingLoops(loop[l].job)
<1>1. \/ loop[l] \in FreeLoops \union GivenLoops \union FedLoops
      \/ \E j \in Jobs : loop[l] \in UpdatingLoops(j)
  BY DEF TypeInv
<1>2. loop[l] \in FreeLoops => loop[l].at \in {"poll", "ended"}
  BY DEF FreeLoops
<1>3. loop[l] \in GivenLoops => loop[l].at \in {"found", "fetch"}
  BY DEF GivenLoops
<1>4. loop[l] \in FedLoops => loop[l].at \in {"mkdir", "docker", "query", "upsert"}
  BY DEF FedLoops
<1>5. \A j \in Jobs : loop[l] \in UpdatingLoops(j) => loop[l].at = "update" /\ loop[l].job = j
  BY DEF UpdatingLoops
<1>6. QED BY <1>1, <1>2, <1>3, <1>4, <1>5 DEF LoopStages

(* A loop that was given a task, and what it has.                          *)
LEMMA HoldShape ==
    ASSUME TypeInv, NEW l \in Loops, loop[l].at \in LoopStages
    PROVE  /\ loop[l].job \in Jobs
           /\ loop[l].doing \in {"append", "publish"}
           /\ loop[l].lines \in Nat
           /\ loop[l].at \in {"found", "fetch"} => loop[l].doing = "append" /\ loop[l].lines = 0
           /\ loop[l].at \notin {"found", "fetch"} => loop[l].input \in SUBSET Jobs
           /\ loop[l].at = "update" => loop[l].copy \in JobsNamed(loop[l].job)
BY LoopShape DEF LoopStages, GivenLoops, FedLoops, UpdatingLoops

-----------------------------------------------------------------------------
(* What a step does *)

\* No record changes, and no call but that of w.
OpsBut(w) ==
    /\ val' = val
    /\ DOMAIN op' = Workers
    /\ \A x \in Workers \ {w} : op'[x] = op[x]

(* The beginning and the end of a call.                                    *)
LEMMA CallEffect ==
    ASSUME TypeInv, NEW w \in Workers, NEW j \in Jobs
    PROVE  /\ \A p \in JobsNamed(j) : DB!BeginUpsert(w, j, p) =>
                /\ OpsBut(w) /\ op[w] = DB!NoOp
                /\ op'[w] \in UpsertOps(j) /\ op'[w].stage = "begun" /\ op'[w].payload = p
           /\ DB!BeginQuery(w, j) =>
                /\ OpsBut(w) /\ op[w] = DB!NoOp
                /\ op'[w] \in QueryOps(j) /\ op'[w].stage = "list" /\ op'[w].found = {}
           /\ DB!EndUpsert(w) \/ DB!EndQuery(w) => OpsBut(w) /\ op'[w] = DB!NoOp
<1>0. DOMAIN op = Workers
  BY DEF TypeInv
<1>1. ASSUME NEW p \in JobsNamed(j), DB!BeginUpsert(w, j, p)
      PROVE  /\ OpsBut(w) /\ op[w] = DB!NoOp
             /\ op'[w] \in UpsertOps(j) /\ op'[w].stage = "begun" /\ op'[w].payload = p
  <2> DEFINE o == [stage |-> "begun", key |-> j, payload |-> p]
  <2>1. o \in UpsertOps(j) /\ o.stage = "begun" /\ o.payload = p
    BY DEF UpsertOps
  <2>2. op[w] = DB!NoOp /\ op' = [op EXCEPT ![w] = o] /\ val' = val
    BY <1>1 DEF DB!BeginUpsert
  <2> HIDE DEF o
  <2>3. QED BY <1>0, <2>1, <2>2 DEF OpsBut
<1>2. ASSUME DB!BeginQuery(w, j)
      PROVE  /\ OpsBut(w) /\ op[w] = DB!NoOp
             /\ op'[w] \in QueryOps(j) /\ op'[w].stage = "list" /\ op'[w].found = {}
  <2> DEFINE o == DB!QueryOp("list", j, {}, {})
  <2>1. o \in QueryOps(j) /\ o.stage = "list" /\ o.found = {}
    BY DEF QueryOps, DB!QueryOp
  <2>2. op[w] = DB!NoOp /\ op' = [op EXCEPT ![w] = o] /\ val' = val
    BY <1>2 DEF DB!BeginQuery
  <2> HIDE DEF o
  <2>3. QED BY <1>0, <2>1, <2>2 DEF OpsBut
<1>3. ASSUME DB!EndUpsert(w) \/ DB!EndQuery(w)
      PROVE  OpsBut(w) /\ op'[w] = DB!NoOp
  BY <1>0, <1>3 DEF DB!EndUpsert, DB!EndQuery, OpsBut
<1>4. QED BY <1>1, <1>2, <1>3

\* One of the steps of an upsert.
Writes(w) ==
    LET j == op[w].key
    IN  /\ j \in Jobs /\ op[w] \in UpsertOps(j) /\ op'[w] \in UpsertOps(j)
        /\ op'[w].payload = op[w].payload
        /\ \/ op[w].stage = "begun" /\ op'[w].stage = "failed" /\ val' = val
           \/ /\ op[w].stage = "begun" /\ op'[w].stage = "removed"
              /\ val' = [val EXCEPT ![j] = NoJob]
           \/ /\ op[w].stage = "removed" /\ op'[w].stage = "ok"
              /\ val' = [val EXCEPT ![j] = op[w].payload]

\* One of the steps of a query.
Looks(w) ==
    LET j == op[w].query
    IN  /\ j \in Jobs /\ op[w] \in QueryOps(j) /\ op'[w] \in QueryOps(j)
        /\ val' = val
        /\ \/ /\ op'[w].stage = "read" /\ op'[w].found = {}
              /\ val[j] # NoJob => j \in op'[w].todo
           \/ /\ op[w].stage = "read" /\ op'[w].stage = "read"
              /\ op'[w].found = op[w].found /\ (j \in op[w].todo => j \in op'[w].todo)
           \/ /\ op[w].stage = "read" /\ op'[w].stage = "read" /\ j \in op[w].todo
              /\ op'[w].found = op[w].found \union (IF val[j] = NoJob THEN {} ELSE {<<j, val[j]>>})
           \/ /\ op[w].stage = "read" /\ op[w].todo = {} /\ op'[w].stage = "answer"
              /\ op'[w].found \subseteq op[w].found
              /\ op[w].found # {} => op'[w].found # {}

(* Where RecordStore counts, the empty set has no element.                 *)
LEMMA CardinalityOfNothing == DB!Cardinality({}) = 0
<1>1. DB!Cardinality({}) = Cardinality({})
  BY DEF DB!Cardinality, Cardinality
<1>2. QED BY <1>1, FS_EmptySet

(* The steps that database-service takes by itself.                        *)
LEMMA DatabaseEffect ==
    ASSUME TypeInv, DB!Internal
    PROVE  \E w \in Workers :
            /\ DOMAIN op' = Workers
            /\ \A x \in Workers \ {w} : op'[x] = op[x]
            /\ Writes(w) \/ Looks(w)
<1>0. DOMAIN op = Workers /\ DOMAIN val = Jobs
  BY DEF TypeInv
<1>1. PICK w \in Workers : DB!Step(w)
  BY DEF DB!Internal
<1>2. CASE op[w].stage \in {"begun", "removed"} /\ (DB!FailUpsert(w) \/ DB!Remove(w) \/ DB!Put(w))
  <2> DEFINE o == op[w]
             j == op[w].key
  <2>1. j \in Jobs /\ o \in UpsertOps(j)
    BY <1>2, OpShape DEF UpsertStage
  <2>2. \A s \in {"failed", "removed", "ok"} :
            /\ [o EXCEPT !.stage = s] \in UpsertOps(j)
            /\ [o EXCEPT !.stage = s].stage = s
            /\ [o EXCEPT !.stage = s].payload = o.payload
    BY <2>1 DEF UpsertOps
  <2>3. CASE DB!FailUpsert(w)
    <3>1. op' = [op EXCEPT ![w] = [o EXCEPT !.stage = "failed"]] /\ val' = val /\ o.stage = "begun"
      BY <2>3 DEF DB!FailUpsert
    <3> HIDE DEF o
    <3>2. op'[w] = [o EXCEPT !.stage = "failed"] /\ o = op[w]
      BY <1>0, <3>1 DEF o
    <3>3. QED BY <1>0, <2>1, <2>2, <3>1, <3>2 DEF Writes
  <2>4. CASE DB!Remove(w)
    <3>1. /\ op' = [op EXCEPT ![w] = [o EXCEPT !.stage = "removed"]]
          /\ val' = [val EXCEPT ![j] = NoJob] /\ o.stage = "begun"
      BY <2>4 DEF DB!Remove
    <3> HIDE DEF o
    <3>2. op'[w] = [o EXCEPT !.stage = "removed"] /\ o = op[w]
      BY <1>0, <3>1 DEF o
    <3>3. QED BY <1>0, <2>1, <2>2, <3>1, <3>2 DEF Writes
  <2>5. CASE DB!Put(w)
    <3>1. /\ op' = [op EXCEPT ![w] = [o EXCEPT !.stage = "ok"]]
          /\ val' = [val EXCEPT ![j] = o.payload] /\ o.stage = "removed"
      BY <2>5 DEF DB!Put
    <3> HIDE DEF o
    <3>2. op'[w] = [o EXCEPT !.stage = "ok"] /\ o = op[w]
      BY <1>0, <3>1 DEF o
    <3>3. QED BY <1>0, <2>1, <2>2, <3>1, <3>2 DEF Writes
  <2>6. QED BY <1>2, <2>3, <2>4, <2>5
<1>3. CASE op[w].stage = "list" /\ DB!List(w)
  <2> DEFINE j == op[w].query
  <2>1. j \in Jobs /\ op[w] \in QueryOps(j)
    BY <1>3, OpShape DEF QueryStage
  <2>2. PICK T \in SUBSET Jobs :
            /\ {k \in Jobs : val[k] # NoJob} \subseteq T
            /\ op' = [op EXCEPT ![w] = DB!QueryOp("read", j, T, {})]
    BY <1>3 DEF DB!List
  <2> DEFINE o == DB!QueryOp("read", j, T, {})
  <2>3. o \in QueryOps(j) /\ o.stage = "read" /\ o.todo = T /\ o.found = {}
    BY <2>1 DEF QueryOps, DB!QueryOp
  <2> HIDE DEF o
  <2>4. op'[w] = o /\ val' = val /\ (val[j] # NoJob => j \in T)
    BY <1>0, <1>3, <2>1, <2>2 DEF DB!List, o
  <2>5. QED BY <1>0, <2>1, <2>2, <2>3, <2>4 DEF Looks
<1>4. ASSUME NEW k \in Jobs, op[w].stage = "read", DB!See(w, k)
      PROVE  /\ DOMAIN op' = Workers
             /\ \A x \in Workers \ {w} : op'[x] = op[x]
             /\ Looks(w)
  <2> DEFINE j == op[w].query
             seen == IF val[k] \in JobsNamed(j) THEN {<<k, val[k]>>} ELSE {}
             T == op[w].todo \ {k}
             F == op[w].found \union seen
             o == DB!QueryOp("read", j, T, F)
  <2>1. j \in Jobs /\ op[w] \in QueryOps(j)
    BY <1>4, OpShape DEF QueryStage
  <2>2. op' = [op EXCEPT ![w] = o] /\ val' = val /\ k \in op[w].todo
    BY <1>4, <2>1 DEF DB!See
  <2>3. seen = IF k = j /\ val[j] # NoJob THEN {<<j, val[j]>>} ELSE {}
    <3>1. val[k] = NoJob \/ val[k] \in JobsNamed(k)
      BY DEF TypeInv
    <3>2. val[k] \in JobsNamed(j) <=> k = j /\ val[j] # NoJob
      BY <2>1, <3>1, JobShape
    <3>3. QED BY <3>2
  <2>4. seen \subseteq {j} \X JobsNamed(j)
    <3>1. val[j] = NoJob \/ val[j] \in JobsNamed(j)
      BY <2>1 DEF TypeInv
    <3>2. QED BY <2>3, <3>1
  <2>5. T \in SUBSET Jobs /\ F \in SUBSET ({j} \X JobsNamed(j))
    BY <2>1, <2>4 DEF QueryOps
  <2> HIDE DEF T, F, seen
  <2>6. o \in QueryOps(j) /\ o.stage = "read" /\ o.todo = T /\ o.found = F
    BY <2>5 DEF QueryOps, DB!QueryOp
  <2> HIDE DEF o
  <2>7. op'[w] = o
    BY <1>0, <2>2
  <2>8. CASE k = j
    <3>1. F = op[w].found \union (IF val[j] = NoJob THEN {} ELSE {<<j, val[j]>>})
      BY <2>3, <2>8 DEF F
    <3>2. QED BY <1>0, <1>4, <2>1, <2>2, <2>6, <2>7, <2>8, <3>1 DEF Looks
  <2>9. CASE k # j
    <3>1. F = op[w].found /\ (j \in op[w].todo => j \in T)
      BY <2>3, <2>9 DEF F, T
    <3>2. QED BY <1>0, <1>4, <2>1, <2>2, <2>6, <2>7, <3>1 DEF Looks
  <2>10. QED BY <2>8, <2>9
<1>5. CASE op[w].stage = "read" /\ DB!AnswerQuery(w)
  <2> DEFINE j == op[w].query
  <2>1. j \in Jobs /\ op[w] \in QueryOps(j)
    BY <1>5, OpShape DEF QueryStage
  <2>2. PICK R \in DB!Answers(j, op[w].found) :
            op' = [op EXCEPT ![w] = DB!QueryOp("answer", j, {}, R)]
    BY <1>5 DEF DB!AnswerQuery
  <2> DEFINE o == DB!QueryOp("answer", j, {}, R)
  <2>3. R \subseteq op[w].found /\ (R = op[w].found \/ DB!Cardinality(R) = 1)
    <3>1. [k \in Jobs |-> 1][j] = 1
      BY <2>1
    <3> HIDE DEF j
    <3>2. QED BY <2>2, <3>1 DEF DB!Answers
  <2>4. op[w].found # {} => R # {}
    <3>1. CASE R = {}
      <4>1. DB!Cardinality(R) = 0
        BY <3>1, CardinalityOfNothing
      <4>2. QED BY <2>3, <4>1
    <3>2. QED BY <3>1
  <2>5. o \in QueryOps(j) /\ o.stage = "answer" /\ o.found = R
    BY <2>1, <2>3 DEF QueryOps, DB!QueryOp
  <2> HIDE DEF o
  <2>6. op'[w] = o /\ val' = val /\ op[w].todo = {}
    BY <1>0, <1>5, <2>2 DEF DB!AnswerQuery, o
  <2>7. QED BY <1>0, <1>5, <2>1, <2>2, <2>3, <2>4, <2>5, <2>6 DEF Looks
<1>6. QED
  BY <1>1, <1>2, <1>3, <1>4, <1>5
  DEF DB!Step, DB!FailUpsert, DB!Remove, DB!Put, DB!List, DB!See, DB!AnswerQuery

\* Where the step of the loop l takes it, with the other loops where they are.
LoopBut(l) == DOMAIN loop' = Loops /\ \A m \in Loops \ {l} : loop'[m] = loop[m]

Freed(l) == LoopBut(l) /\ loop'[l] \in FreeLoops

Given(l, stage, j) ==
    /\ LoopBut(l)
    /\ loop'[l] \in GivenLoops
    /\ loop'[l].at = stage /\ loop'[l].job = j

Fed(l, stage, input) ==
    /\ LoopBut(l)
    /\ loop'[l] \in FedLoops
    /\ loop'[l].at = stage /\ loop'[l].job = loop[l].job /\ loop'[l].input = input

(* Where a loop is after it was given a task, or has given one up.         *)
LEMMA FreeEffect ==
    ASSUME TypeInv, NEW l \in Loops
    PROVE  /\ LoopEnds(l) \/ TranscribeFails(l) \/ JobPublished(l) => Freed(l)
           /\ \A j \in Jobs : FindTask(l, j) => Given(l, "found", j)
           /\ DispatchTask(l) =>
                \/ Freed(l)
                \/ Given(l, "fetch", loop[l].job) /\ l \in deployment.transcribers
<1>0. DOMAIN loop = Loops
  BY DEF TypeInv
<1>1. LoopEnds(l) \/ TranscribeFails(l) \/ JobPublished(l) => Freed(l)
  BY <1>0 DEF LoopEnds, TranscribeFails, JobPublished, Freed, LoopBut, FreeLoops, Idle
<1>2. ASSUME NEW j \in Jobs, FindTask(l, j) PROVE Given(l, "found", j)
  BY <1>0, <1>2 DEF FindTask, Given, LoopBut, GivenLoops
<1>3. ASSUME DispatchTask(l)
      PROVE  \/ Freed(l)
             \/ Given(l, "fetch", loop[l].job) /\ l \in deployment.transcribers
  <2>1. loop[l] \in GivenLoops
    BY <1>3, LoopShape DEF DispatchTask
  <2>2. CASE l \in deployment.transcribers
    <3>1. loop' = [loop EXCEPT ![l] = [loop[l] EXCEPT !.at = "fetch"]]
      BY <1>3, <2>2 DEF DispatchTask
    <3>2. loop'[l] = [loop[l] EXCEPT !.at = "fetch"] /\ LoopBut(l)
      BY <1>0, <3>1 DEF LoopBut
    <3>3. QED BY <2>1, <2>2, <3>2 DEF Given, GivenLoops
  <2>3. CASE l \notin deployment.transcribers
    BY <1>0, <1>3, <2>3 DEF DispatchTask, Freed, LoopBut, FreeLoops, Idle
  <2>4. QED BY <2>2, <2>3
<1>4. QED BY <1>1, <1>2, <1>3

(* Where a loop is after a step of a task whose bytes it has.              *)
LEMMA FedEffect ==
    ASSUME TypeInv, NEW l \in Loops
    PROVE  /\ GetBlobBytes(l) => Fed(l, "mkdir", audio)
           /\ MakeWorkDir(l) => Fed(l, "docker", loop[l].input)
           /\ \A w \in Workers, what \in {"append", "publish"} : ReadJob(l, w, what) =>
                Fed(l, "query", loop[l].input) /\ loop'[l].doing = what
           /\ \A w \in Workers : UpsertJob(l, w) =>
                Fed(l, "upsert", loop[l].input) /\ loop'[l].doing = loop[l].doing
           /\ ChunkStored(l) => Fed(l, "docker", loop[l].input)
<1>0. DOMAIN loop = Loops
  BY DEF TypeInv
<1>1. GetBlobBytes(l) => Fed(l, "mkdir", audio)
  <2>1. GetBlobBytes(l) => loop[l] \in GivenLoops
    BY LoopShape DEF GetBlobBytes
  <2>2. audio \in SUBSET Jobs
    BY DEF TypeInv
  <2>3. QED BY <1>0, <2>1, <2>2 DEF GetBlobBytes, Fed, LoopBut, GivenLoops, FedLoops
<1>2. ASSUME MakeWorkDir(l) PROVE Fed(l, "docker", loop[l].input)
  <2>1. loop[l] \in FedLoops
    BY <1>2, LoopShape DEF MakeWorkDir
  <2>2. loop' = [loop EXCEPT ![l] = [loop[l] EXCEPT !.at = "docker"]]
    BY <1>0, <1>2 DEF MakeWorkDir, Goes
  <2>3. loop'[l] = [loop[l] EXCEPT !.at = "docker"] /\ LoopBut(l)
    BY <1>0, <2>2 DEF LoopBut
  <2>4. QED BY <2>1, <2>3 DEF Fed, FedLoops
<1>3. ASSUME NEW w \in Workers, NEW what \in {"append", "publish"}, ReadJob(l, w, what)
      PROVE  Fed(l, "query", loop[l].input) /\ loop'[l].doing = what
  <2>1. loop[l] \in FedLoops
    BY <1>3, LoopShape DEF ReadJob
  <2>2. loop' = [loop EXCEPT ![l] = [[loop[l] EXCEPT !.at = "query"] EXCEPT !.doing = what]]
    BY <1>0, <1>3 DEF ReadJob
  <2>3. loop'[l] = [[loop[l] EXCEPT !.at = "query"] EXCEPT !.doing = what] /\ LoopBut(l)
    BY <1>0, <2>2 DEF LoopBut
  <2>4. QED BY <2>1, <2>3 DEF Fed, FedLoops
<1>4. ASSUME NEW w \in Workers, UpsertJob(l, w)
      PROVE  Fed(l, "upsert", loop[l].input) /\ loop'[l].doing = loop[l].doing
  <2>1. loop[l] \in UpdatingLoops(loop[l].job) /\ loop[l].job \in Jobs
    BY <1>4, LoopShape DEF UpsertJob
  <2>2. QED BY <1>0, <1>4, <2>1 DEF UpsertJob, Fed, LoopBut, UpdatingLoops, FedLoops
<1>5. ASSUME ChunkStored(l) PROVE Fed(l, "docker", loop[l].input)
  <2>1. loop[l] \in FedLoops
    BY <1>5, LoopShape DEF ChunkStored
  <2>2. QED BY <1>0, <1>5, <2>1 DEF ChunkStored, Fed, LoopBut, FedLoops
<1>6. QED BY <1>1, <1>2, <1>3, <1>4, <1>5

(* The record that the loop l has read.                                    *)
LEMMA ReadEffect ==
    ASSUME TypeInv, NEW l \in Loops, JobRead(l), op[call[l]] \in QueryOps(loop[l].job)
    PROVE  \E f \in op[call[l]].found :
            /\ f[2] \in JobsNamed(loop[l].job)
            /\ LoopBut(l)
            /\ loop'[l] \in UpdatingLoops(loop[l].job) /\ loop'[l].at = "update"
            /\ loop'[l].job = loop[l].job /\ loop'[l].doing = loop[l].doing
            /\ loop'[l].input = loop[l].input /\ loop'[l].copy = f[2]
<1>0. DOMAIN loop = Loops
  BY DEF TypeInv
<1>1. loop[l] \in FedLoops
  BY LoopShape DEF JobRead
<1>2. PICK f \in op[call[l]].found :
        loop' = [loop EXCEPT ![l] =
            [job |-> loop[l].job, doing |-> loop[l].doing, lines |-> loop[l].lines,
             input |-> loop[l].input, at |-> "update", copy |-> f[2]]]
  BY <1>0 DEF JobRead
<1>3. f[2] \in JobsNamed(loop[l].job)
  BY <1>1, QueryShape DEF FedLoops
<1>4. QED BY <1>0, <1>1, <1>2, <1>3 DEF LoopBut, FedLoops, UpdatingLoops

(* What RunTranscribeAudio writes back is the same job, further on.        *)
LEMMA UpdatedShape ==
    ASSUME TypeInv, NEW l \in Loops, loop[l].at = "update"
    PROVE  /\ Updated(l) \in JobsNamed(loop[l].job)
           /\ loop[l].doing = "append" =>
                /\ Updated(l).cli_output = Append(loop[l].copy.cli_output, l)
                /\ Updated(l).status =
                     IF loop[l].copy.status = "pending" THEN "running" ELSE loop[l].copy.status
                /\ Updated(l).transcript_text = loop[l].copy.transcript_text
           /\ loop[l].doing = "publish" =>
                /\ Updated(l).cli_output = loop[l].copy.cli_output
                /\ Updated(l).status = "completed"
                /\ Updated(l).transcript_text = loop[l].input
<1>1. /\ loop[l].job \in Jobs /\ loop[l].copy \in JobsNamed(loop[l].job)
      /\ loop[l].doing \in {"append", "publish"} /\ loop[l].input \in SUBSET Jobs
  BY HoldShape DEF LoopStages
<1> DEFINE r == loop[l].copy
<1>2. r \in JobsNamed(loop[l].job) /\ Append(r.cli_output, l) \in Seq(Loops)
  BY <1>1, JobShape
<1>3. CASE loop[l].doing = "append"
  <2>1. Updated(l) = [r EXCEPT !.status = IF r.status = "pending" THEN "running" ELSE r.status,
                               !.cli_output = Append(r.cli_output, l)]
    BY <1>2, <1>3 DEF Updated, JobsNamed
  <2> HIDE DEF r
  <2>2. QED BY <1>2, <1>3, <2>1 DEF JobsNamed, r
<1>4. CASE loop[l].doing = "publish"
  <2>1. Updated(l) = [r EXCEPT !.status = "completed", !.transcript_text = loop[l].input]
    BY <1>4 DEF Updated
  <2> HIDE DEF r
  <2>2. QED BY <1>1, <1>2, <1>4, <2>1 DEF JobsNamed, r
<1>5. QED BY <1>1, <1>3, <1>4

-----------------------------------------------------------------------------
(* Types *)

(* A step that changes neither records nor calls, and the others.          *)
LEMMA StoreTypeKept ==
    ASSUME TypeInv, CallInv, Next
    PROVE  /\ DOMAIN val' = Jobs
           /\ \A j \in Jobs : val'[j] = NoJob \/ val'[j] \in JobsNamed(j)
           /\ DOMAIN op' = Workers
           /\ \A w \in Workers :
                op'[w] = DB!NoOp \/ \E j \in Jobs : op'[w] \in UpsertOps(j) \union QueryOps(j)
<1>0. /\ DOMAIN val = Jobs /\ DOMAIN op = Workers
      /\ \A j \in Jobs : val[j] = NoJob \/ val[j] \in JobsNamed(j)
      /\ \A w \in Workers :
            op[w] = DB!NoOp \/ \E j \in Jobs : op[w] \in UpsertOps(j) \union QueryOps(j)
      /\ \A a \in Threads : call[a] # NoCall => call[a] \in Workers
  BY DEF TypeInv
<1>1. CASE UNCHANGED stores
  BY <1>0, <1>1 DEF stores
<1>2. ASSUME NEW w \in Workers, OpsBut(w),
             op'[w] = DB!NoOp \/ \E j \in Jobs : op'[w] \in UpsertOps(j) \union QueryOps(j)
      PROVE  /\ DOMAIN val' = Jobs
             /\ \A j \in Jobs : val'[j] = NoJob \/ val'[j] \in JobsNamed(j)
             /\ DOMAIN op' = Workers
             /\ \A x \in Workers :
                op'[x] = DB!NoOp \/ \E j \in Jobs : op'[x] \in UpsertOps(j) \union QueryOps(j)
  BY <1>0, <1>2 DEF OpsBut
<1>3. ASSUME NEW j \in Jobs, WebStep(j), ~ UNCHANGED stores
      PROVE  \E w \in Workers : OpsBut(w) /\
                (op'[w] = DB!NoOp \/ \E k \in Jobs : op'[w] \in UpsertOps(k) \union QueryOps(k))
  <2>1. ASSUME NEW w \in Workers, StoreJob(j, w) \/ GetJobPage(j, w)
        PROVE  OpsBut(w) /\ op'[w] \in UpsertOps(j) \union QueryOps(j)
    BY <2>1, CallEffect, NewJobShape DEF StoreJob, GetJobPage
  <2>2. CASE JobStored(j) \/ ShowJob(j)
    <3>1. call[j] \in Workers
      BY <1>0, <2>2 DEF CallInv, JobStored, ShowJob, Threads
    <3>2. QED BY <2>2, <3>1, CallEffect DEF JobStored, ShowJob
  <2>3. QED
    BY <1>3, <2>1, <2>2 DEF WebStep, PutBlob, Enqueued, Redirect, UploadFails, PageFails
<1>4. ASSUME NEW l \in Loops, LoopStep(l), ~ UNCHANGED stores
      PROVE  \E w \in Workers : OpsBut(w) /\
                (op'[w] = DB!NoOp \/ \E k \in Jobs : op'[w] \in UpsertOps(k) \union QueryOps(k))
  <2>1. ASSUME NEW w \in Workers, UpsertJob(l, w)
        PROVE  OpsBut(w) /\ op'[w] \in UpsertOps(loop[l].job)
    BY <2>1, CallEffect, UpdatedShape, HoldShape DEF UpsertJob, LoopStages
  <2>2. ASSUME NEW w \in Workers, NEW what \in {"append", "publish"}, ReadJob(l, w, what)
        PROVE  OpsBut(w) /\ op'[w] \in QueryOps(loop[l].job)
    BY <2>2, CallEffect, HoldShape DEF ReadJob, LoopStages
  <2>3. CASE JobRead(l) \/ ChunkStored(l) \/ JobPublished(l)
    <3>1. call[l] \in Workers
      BY <1>0, <2>3 DEF CallInv, JobRead, ChunkStored, JobPublished, Threads
    <3>2. PICK j \in Jobs : TRUE
      BY <2>3, HoldShape DEF JobRead, ChunkStored, JobPublished, LoopStages
    <3>3. QED BY <2>3, <3>1, <3>2, CallEffect DEF JobRead, ChunkStored, JobPublished
  <2>4. loop[l].at \in LoopStages => loop[l].job \in Jobs
    BY HoldShape
  <2>5. QED
    BY <1>4, <2>1, <2>2, <2>3, <2>4
    DEF LoopStep, FindTask, DispatchTask, LoopEnds, GetBlobBytes, MakeWorkDir, TranscribeFails,
        ReadJob, UpsertJob, LoopStages
<1>5. CASE DatabaseStep
  <2>1. PICK w \in Workers :
            /\ DOMAIN op' = Workers
            /\ \A x \in Workers \ {w} : op'[x] = op[x]
            /\ Writes(w) \/ Looks(w)
    BY <1>5, DatabaseEffect DEF DatabaseStep
  <2>2. CASE Looks(w)
    BY <1>0, <2>1, <2>2 DEF Looks
  <2>3. CASE Writes(w)
    <3>1. op[w].payload \in JobsNamed(op[w].key) /\ op[w].key \in Jobs
      BY <2>3, UpsertShape DEF Writes
    <3>2. QED BY <1>0, <2>1, <2>3, <3>1 DEF Writes
  <2>4. QED BY <2>1, <2>2, <2>3
<1>6. ASSUME NEW w \in Workers, Unheard(w)
      PROVE  OpsBut(w) /\ op'[w] = DB!NoOp
  <2>1. op[w] # DB!NoOp
    BY <1>6 DEF Unheard, DB!EndUpsert, DB!EndQuery, DB!NoOp
  <2>2. PICK j \in Jobs : TRUE
    BY <1>0, <2>1
  <2>3. QED BY <1>6, <2>2, CallEffect DEF Unheard
<1>7. CASE DatabaseCrash
  BY <1>0, <1>7 DEF DatabaseCrash, DB!Crash
<1>8. QED BY <1>1, <1>2, <1>3, <1>4, <1>5, <1>6, <1>7 DEF Next

(* A loop goes from one of its stages to another.                          *)
LEMMA LoopTypeKept ==
    ASSUME TypeInv, CallInv, Next
    PROVE  /\ DOMAIN loop' = Loops
           /\ \A l \in Loops :
                \/ loop'[l] \in FreeLoops \union GivenLoops \union FedLoops
                \/ \E j \in Jobs : loop'[l] \in UpdatingLoops(j)
<1>0. /\ DOMAIN loop = Loops
      /\ \A l \in Loops :
            \/ loop[l] \in FreeLoops \union GivenLoops \union FedLoops
            \/ \E j \in Jobs : loop[l] \in UpdatingLoops(j)
  BY DEF TypeInv
<1>1. ASSUME NEW l \in Loops, LoopStep(l)
      PROVE  /\ LoopBut(l)
             /\ \/ loop'[l] \in FreeLoops \union GivenLoops \union FedLoops
                \/ \E j \in Jobs : loop'[l] \in UpdatingLoops(j)
  <2>1. CASE JobRead(l)
    <3>1. op[call[l]] \in QueryOps(loop[l].job) /\ loop[l].job \in Jobs
      BY <2>1, HoldShape DEF CallInv, JobRead, LoopStages
    <3>2. QED BY <2>1, <3>1, ReadEffect
  <2>2. CASE ~ JobRead(l)
    BY <1>1, <2>2, FreeEffect, FedEffect DEF LoopStep, Freed, Given, Fed
  <2>3. QED BY <2>1, <2>2
<1>2. CASE UNCHANGED loop
  BY <1>0, <1>2
<1>3. CASE DatabaseCrash
  <2>1. Idle \in FreeLoops
    BY DEF Idle, FreeLoops
  <2>2. QED BY <1>0, <1>3, <2>1 DEF DatabaseCrash
<1>4. ASSUME NEW j \in Jobs, WebStep(j) PROVE UNCHANGED loop
  BY <1>4 DEF WebStep, PutBlob, StoreJob, JobStored, Enqueued, Redirect, UploadFails, GetJobPage,
              ShowJob, PageFails, loopVars
<1>5. ASSUME DatabaseStep \/ \E w \in Workers : Unheard(w) PROVE UNCHANGED loop
  BY <1>5 DEF DatabaseStep, Unheard, loopVars
<1>6. QED BY <1>0, <1>1, <1>2, <1>3, <1>4, <1>5 DEF Next, LoopBut

(* The uploads, the tasks and who waits for whom.                          *)
LEMMA WebTypeKept ==
    ASSUME TypeInv, CallInv, Next
    PROVE  /\ call' \in [Threads -> Workers \union {NoCall}]
           /\ upload' \in [Jobs -> Uploads]
           /\ audio' \in SUBSET Jobs
           /\ tasks' \in [Jobs -> {"none", "sent", "pending", "consumed"}]
           /\ before' \in [Jobs -> SUBSET Jobs]
<1>0. /\ call \in [Threads -> Workers \union {NoCall}]
      /\ upload \in [Jobs -> Uploads]
      /\ audio \in SUBSET Jobs
      /\ tasks \in [Jobs -> {"none", "sent", "pending", "consumed"}]
      /\ before \in [Jobs -> SUBSET Jobs]
  BY DEF TypeInv
<1>1. ASSUME NEW j \in Jobs, WebStep(j)
      PROVE  /\ call' \in [Threads -> Workers \union {NoCall}]
             /\ upload' \in [Jobs -> Uploads]
             /\ audio' \in SUBSET Jobs
             /\ tasks' \in [Jobs -> {"none", "sent", "pending", "consumed"}]
             /\ before' \in [Jobs -> SUBSET Jobs]
  <2>1. StoredUploads \in SUBSET Jobs
    BY DEF StoredUploads
  <2>2. QED
    BY <1>0, <1>1, <2>1
    DEF WebStep, PutBlob, StoreJob, JobStored, Enqueued, Redirect, UploadFails, GetJobPage,
        ShowJob, PageFails, Called, Answered, Uploads, webVars
<1>2. ASSUME NEW l \in Loops, LoopStep(l)
      PROVE  /\ call' \in [Threads -> Workers \union {NoCall}]
             /\ tasks' \in [Jobs -> {"none", "sent", "pending", "consumed"}]
             /\ UNCHANGED webVars
  BY <1>0, <1>2
  DEF LoopStep, FindTask, DispatchTask, LoopEnds, GetBlobBytes, MakeWorkDir, ReadJob, JobRead,
      UpsertJob, ChunkStored, JobPublished, TranscribeFails, Called, Answered, webVars
<1>3. CASE DatabaseStep \/ \E w \in Workers : Unheard(w)
  BY <1>0, <1>3 DEF DatabaseStep, Unheard, webVars
<1>4. CASE DatabaseCrash
  BY <1>0, <1>4 DEF DatabaseCrash, Uploads
<1>5. QED BY <1>0, <1>1, <1>2, <1>3, <1>4 DEF Next, webVars

(* The work directories, what the pages show, and the history.             *)
LEMMA RestTypeKept ==
    ASSUME TypeInv, CallInv, Next
    PROVE  /\ dirs' \in SUBSET Jobs
           /\ DOMAIN shown' = Jobs
           /\ \A j \in Jobs : shown'[j] = NoJob \/ shown'[j] \in JobsNamed(j)
           /\ written' \in [Jobs -> Seq(Loops)]
           /\ torn' \in SUBSET Jobs
<1>0. /\ dirs \in SUBSET Jobs
      /\ DOMAIN shown = Jobs
      /\ \A j \in Jobs : shown[j] = NoJob \/ shown[j] \in JobsNamed(j)
      /\ written \in [Jobs -> Seq(Loops)]
      /\ torn \in SUBSET Jobs
  BY DEF TypeInv
<1>1. ASSUME NEW j \in Jobs, WebStep(j) PROVE UNCHANGED <<dirs, written, torn>>
  BY <1>1
  DEF WebStep, PutBlob, StoreJob, JobStored, Enqueued, Redirect, UploadFails, GetJobPage, ShowJob,
      PageFails, loopVars
<1>2. ASSUME NEW j \in Jobs, ShowJob(j)
      PROVE  /\ DOMAIN shown' = Jobs
             /\ \A k \in Jobs : shown'[k] = NoJob \/ shown'[k] \in JobsNamed(k)
  <2>1. op[call[j]] \in QueryOps(j)
    BY <1>2 DEF CallInv, ShowJob
  <2> DEFINE F == op[call[j]].found
             r == CHOOSE x \in {f[2] : f \in F} : TRUE
  <2>2. CASE F = {}
    BY <1>0, <1>2, <2>2 DEF ShowJob
  <2>3. CASE F # {}
    <3>1. r \in {f[2] : f \in F}
      BY <2>3
    <3>2. r \in JobsNamed(j)
      BY <2>1, <3>1, QueryShape
    <3>3. shown' = [shown EXCEPT ![j] = r]
      BY <1>2, <2>3 DEF ShowJob
    <3> HIDE DEF r
    <3>4. QED BY <1>0, <3>2, <3>3
  <2>4. QED BY <2>2, <2>3
<1>3. ASSUME NEW j \in Jobs, WebStep(j), ~ ShowJob(j) PROVE UNCHANGED shown
  BY <1>3
  DEF WebStep, PutBlob, StoreJob, JobStored, Enqueued, Redirect, UploadFails, GetJobPage, PageFails,
      webVars
<1>4. ASSUME NEW l \in Loops, LoopStep(l)
      PROVE  /\ dirs' \in SUBSET Jobs
             /\ UNCHANGED <<shown, torn>>
             /\ written' \in [Jobs -> Seq(Loops)]
  <2>1. loop[l].at \in LoopStages => loop[l].job \in Jobs
    BY HoldShape
  <2>2. CASE ChunkStored(l)
    <3>1. loop[l].job \in Jobs
      BY <2>1, <2>2 DEF ChunkStored, LoopStages
    <3>2. Append(written[loop[l].job], l) \in Seq(Loops)
      BY <1>0, <3>1
    <3>3. QED BY <1>0, <2>2, <3>2 DEF ChunkStored, webVars
  <2>3. QED
    BY <1>0, <1>4, <2>1, <2>2
    DEF LoopStep, FindTask, DispatchTask, LoopEnds, GetBlobBytes, MakeWorkDir, ReadJob, JobRead,
        UpsertJob, JobPublished, TranscribeFails, webVars, loopVars, LoopStages
<1>5. CASE DatabaseStep \/ \E w \in Workers : Unheard(w)
  BY <1>0, <1>5 DEF DatabaseStep, Unheard, webVars, loopVars
<1>6. CASE DatabaseCrash
  <2>1. Away \in SUBSET Jobs
    BY <1>0 DEF Away
  <2>2. QED BY <1>0, <1>6, <2>1 DEF DatabaseCrash
<1>7. QED BY <1>0, <1>1, <1>2, <1>3, <1>4, <1>5, <1>6 DEF Next

(* A step keeps all types.                                                 *)
LEMMA TypeKept ==
    ASSUME TypeInv, CallInv, [Next]_vars
    PROVE  TypeInv'
<1>1. CASE Next
  <2>1. hidden' \in [Jobs -> BOOLEAN]
    BY <1>1 DEF Next, Observe
  <2>2. QED
    BY <1>1, <2>1, StoreTypeKept, LoopTypeKept, WebTypeKept, RestTypeKept DEF TypeInv
<1>2. CASE UNCHANGED vars
  BY <1>2 DEF TypeInv, vars, stores, webVars, loopVars
<1>3. QED BY <1>1, <1>2

-----------------------------------------------------------------------------
(* Calls *)

\* What CallInv says of one thread.
CallOf(a) ==
    /\ a \in Jobs =>
        /\ upload[a] \in {"storing", "viewing"} <=> call[a] # NoCall
        /\ upload[a] = "storing" => op[call[a]] \in UpsertOps(a)
        /\ upload[a] = "viewing" => op[call[a]] \in QueryOps(a)
    /\ a \in Loops =>
        /\ loop[a].at \in {"query", "upsert"} <=> call[a] # NoCall
        /\ loop[a].at = "query" => op[call[a]] \in QueryOps(loop[a].job)
        /\ loop[a].at = "upsert" => op[call[a]] \in UpsertOps(loop[a].job)

(* CallInv, thread by thread.                                              *)
LEMMA CallParts ==
    CallInv <=>
        /\ \A a, b \in Threads : call[a] = call[b] /\ call[a] # NoCall => a = b
        /\ \A a \in Threads : CallOf(a)
BY DEF CallInv, CallOf, Threads

(* A worker that somebody waits for is busy.                               *)
LEMMA Waiting ==
    ASSUME TypeInv, CallInv, NEW a \in Threads, call[a] # NoCall
    PROVE  /\ call[a] \in Workers
           /\ op[call[a]] # DB!NoOp
           /\ \A b \in Threads \ {a} : call[b] # call[a]
<1>1. CallOf(a) /\ \A b \in Threads \ {a} : call[b] # call[a]
  BY CallParts
<1>2. call[a] \in Workers
  BY DEF TypeInv
<1>3. CASE a \in Jobs
  <2>1. op[call[a]] \in UpsertOps(a) \/ op[call[a]] \in QueryOps(a)
    BY <1>1, <1>3 DEF CallOf
  <2>2. QED BY <1>1, <1>2, <1>3, <2>1, UpsertShape, QueryShape
<1>4. CASE a \in Loops
  <2>1. loop[a].at \in {"query", "upsert"}
    BY <1>1, <1>4 DEF CallOf
  <2>2. op[call[a]] \in UpsertOps(loop[a].job) \/ op[call[a]] \in QueryOps(loop[a].job)
    BY <1>1, <1>4, <2>1 DEF CallOf
  <2>3. loop[a].job \in Jobs
    BY <1>4, <2>1, HoldShape DEF LoopStages
  <2>4. QED BY <1>1, <1>2, <2>2, <2>3, UpsertShape, QueryShape
<1>5. QED BY <1>1, <1>2, <1>3, <1>4 DEF Threads

(* A step of the thread a, after which it waits for nobody, or for a       *)
(* worker that was free.                                                   *)
LEMMA CallRule ==
    ASSUME TypeInv, CallInv, NEW a \in Threads,
           CallOf(a)',
           \A b \in Threads \ {a} :
                /\ call'[b] = call[b]
                /\ b \in Jobs => upload'[b] = upload[b]
                /\ b \in Loops => loop'[b] = loop[b]
                /\ call[b] # NoCall => op'[call[b]] = op[call[b]],
           \/ call'[a] = NoCall
           \/ call'[a] \in Workers /\ op[call'[a]] = DB!NoOp
    PROVE  CallInv'
<1>1. \A b \in Threads : call[b] # NoCall => call[b] \in Workers /\ op[call[b]] # DB!NoOp
  BY Waiting
<1>2. \A b \in Threads \ {a} : CallOf(b)
  BY CallParts
<1>3. \A b \in Threads \ {a} : CallOf(b)'
  BY <1>2 DEF CallOf
<1>4. \A b, c \in Threads : call'[b] = call'[c] /\ call'[b] # NoCall => b = c
  BY <1>1, CallParts
<1>5. QED BY <1>3, <1>4, CallParts DEF CallInv, CallOf, Threads

(* As long as nobody's call is touched.                                    *)
LEMMA CallFrame ==
    ASSUME CallInv, UNCHANGED call,
           \A j \in Jobs :
                /\ \/ upload'[j] = upload[j]
                   \/ {upload[j], upload'[j]} \cap {"storing", "viewing"} = {}
                /\ call[j] # NoCall => op'[call[j]] = op[call[j]],
           \A l \in Loops :
                /\ \/ loop'[l] = loop[l]
                   \/ {loop[l].at, loop'[l].at} \cap {"query", "upsert"} = {}
                /\ call[l] # NoCall => op'[call[l]] = op[call[l]]
    PROVE  CallInv'
BY DEF CallInv

(* The calls of an upload and of a page.                                   *)
LEMMA WebCallsKept ==
    ASSUME TypeInv, CallInv, NEW j \in Jobs, WebStep(j)
    PROVE  CallInv'
<1>0. /\ call \in [Threads -> Workers \union {NoCall}] /\ upload \in [Jobs -> Uploads]
      /\ j \in Threads /\ j \notin Loops
  BY DEF TypeInv, Threads
<1>1. CASE PutBlob(j) \/ Enqueued(j) \/ Redirect(j)
  BY <1>0, <1>1, CallFrame DEF PutBlob, Enqueued, Redirect, stores, webVars, loopVars
<1>2. ASSUME NEW w \in Workers, StoreJob(j, w) PROVE CallInv'
  <2>1. OpsBut(w) /\ op[w] = DB!NoOp /\ op'[w] \in UpsertOps(j)
    BY <1>2, CallEffect, NewJobShape DEF StoreJob
  <2>2. /\ upload' = [upload EXCEPT ![j] = "storing"] /\ call' = [call EXCEPT ![j] = w]
        /\ loop' = loop
    BY <1>2 DEF StoreJob, Called, loopVars
  <2>3. CallOf(j)'
    BY <1>0, <2>1, <2>2 DEF CallOf
  <2>4. QED BY <1>0, <2>1, <2>2, <2>3, CallRule, Waiting DEF OpsBut
<1>3. ASSUME NEW w \in Workers, GetJobPage(j, w) PROVE CallInv'
  <2>1. OpsBut(w) /\ op[w] = DB!NoOp /\ op'[w] \in QueryOps(j)
    BY <1>3, CallEffect DEF GetJobPage
  <2>2. /\ upload' = [upload EXCEPT ![j] = "viewing"] /\ call' = [call EXCEPT ![j] = w]
        /\ loop' = loop
    BY <1>3 DEF GetJobPage, Called, loopVars
  <2>3. CallOf(j)'
    BY <1>0, <2>1, <2>2 DEF CallOf
  <2>4. QED BY <1>0, <2>1, <2>2, <2>3, CallRule, Waiting DEF OpsBut
<1>4. CASE JobStored(j) \/ ShowJob(j)
  <2>1. call[j] # NoCall
    BY <1>4 DEF CallInv, JobStored, ShowJob
  <2>2. call[j] \in Workers /\ \A b \in Threads \ {j} : call[b] # call[j]
    BY <1>0, <2>1, Waiting
  <2>3. OpsBut(call[j])
    BY <1>4, <2>2, CallEffect DEF JobStored, ShowJob
  <2>4. /\ call' = [call EXCEPT ![j] = NoCall] /\ loop' = loop
        /\ \E s \in {"sending", "redirected"} : upload' = [upload EXCEPT ![j] = s]
    BY <1>4 DEF JobStored, ShowJob, Answered, loopVars
  <2>5. CallOf(j)'
    BY <1>0, <2>4 DEF CallOf
  <2>6. QED BY <1>0, <2>2, <2>3, <2>4, <2>5, CallRule DEF OpsBut, TypeInv
<1>5. CASE UploadFails(j) \/ PageFails(j)
  <2>1. /\ call' = [call EXCEPT ![j] = NoCall] /\ loop' = loop /\ op' = op
        /\ \E s \in {"failed", "redirected"} : upload' = [upload EXCEPT ![j] = s]
    BY <1>5 DEF UploadFails, PageFails, Answered, loopVars, stores
  <2>2. CallOf(j)'
    BY <1>0, <2>1 DEF CallOf
  <2>3. QED BY <1>0, <2>1, <2>2, CallRule
<1>6. QED BY <1>1, <1>2, <1>3, <1>4, <1>5 DEF WebStep

(* The calls of a loop.                                                    *)
LEMMA LoopCallsKept ==
    ASSUME TypeInv, CallInv, NEW l \in Loops, LoopStep(l)
    PROVE  CallInv'
<1>0. /\ call \in [Threads -> Workers \union {NoCall}]
      /\ l \in Threads /\ l \notin Jobs
  BY DEF TypeInv, Threads
<1>1. CASE (\E j \in Jobs : FindTask(l, j)) \/ DispatchTask(l) \/ LoopEnds(l)
  <2>1. UNCHANGED <<call, op, upload>> /\ loop[l].at \notin {"query", "upsert"}
    BY <1>1 DEF FindTask, DispatchTask, LoopEnds, stores, webVars
  <2>2. LoopBut(l) /\ loop'[l].at \notin {"query", "upsert"}
    BY <1>1, FreeEffect DEF Freed, Given, FreeLoops
  <2>3. QED BY <1>0, <2>1, <2>2, CallFrame DEF LoopBut
<1>2. CASE GetBlobBytes(l) \/ MakeWorkDir(l)
  <2>1. UNCHANGED <<call, op, upload>> /\ loop[l].at \notin {"query", "upsert"}
    BY <1>2 DEF GetBlobBytes, MakeWorkDir, stores, webVars
  <2>2. LoopBut(l) /\ loop'[l].at \notin {"query", "upsert"}
    BY <1>2, FedEffect DEF Fed
  <2>3. QED BY <1>0, <2>1, <2>2, CallFrame DEF LoopBut
<1>3. ASSUME NEW w \in Workers, NEW what \in {"append", "publish"}, ReadJob(l, w, what)
      PROVE  CallInv'
  <2>0. loop[l].job \in Jobs
    BY <1>3, HoldShape DEF ReadJob, LoopStages
  <2>1. OpsBut(w) /\ op[w] = DB!NoOp /\ op'[w] \in QueryOps(loop[l].job)
    BY <1>3, <2>0, CallEffect DEF ReadJob
  <2>2. /\ call' = [call EXCEPT ![l] = w] /\ upload' = upload
        /\ LoopBut(l) /\ loop'[l].at = "query" /\ loop'[l].job = loop[l].job
    BY <1>3, FedEffect DEF ReadJob, Called, webVars, Fed
  <2>3. CallOf(l)'
    BY <1>0, <2>1, <2>2 DEF CallOf
  <2>4. QED BY <1>0, <2>1, <2>2, <2>3, CallRule, Waiting DEF OpsBut, LoopBut
<1>4. ASSUME NEW w \in Workers, UpsertJob(l, w) PROVE CallInv'
  <2>0. loop[l].job \in Jobs /\ Updated(l) \in JobsNamed(loop[l].job)
    BY <1>4, HoldShape, UpdatedShape DEF UpsertJob, LoopStages
  <2>1. OpsBut(w) /\ op[w] = DB!NoOp /\ op'[w] \in UpsertOps(loop[l].job)
    BY <1>4, <2>0, CallEffect DEF UpsertJob
  <2>2. /\ call' = [call EXCEPT ![l] = w] /\ upload' = upload
        /\ LoopBut(l) /\ loop'[l].at = "upsert" /\ loop'[l].job = loop[l].job
    BY <1>4, FedEffect DEF UpsertJob, Called, webVars, Fed
  <2>3. CallOf(l)'
    BY <1>0, <2>1, <2>2 DEF CallOf
  <2>4. QED BY <1>0, <2>1, <2>2, <2>3, CallRule, Waiting DEF OpsBut, LoopBut
<1>5. CASE JobRead(l) \/ ChunkStored(l) \/ JobPublished(l)
  <2>1. call[l] # NoCall /\ (JobRead(l) => op[call[l]] \in QueryOps(loop[l].job))
    BY <1>5 DEF CallInv, JobRead, ChunkStored, JobPublished
  <2>2. call[l] \in Workers /\ \A b \in Threads \ {l} : call[b] # call[l]
    BY <1>0, <2>1, Waiting
  <2>3. OpsBut(call[l])
    <3>1. PICK j \in Jobs : TRUE
      BY <1>5, HoldShape DEF JobRead, ChunkStored, JobPublished, LoopStages
    <3>2. QED BY <1>5, <2>2, <3>1, CallEffect DEF JobRead, ChunkStored, JobPublished
  <2>4. call' = [call EXCEPT ![l] = NoCall] /\ upload' = upload
    BY <1>5 DEF JobRead, ChunkStored, JobPublished, Answered, webVars
  <2>5. LoopBut(l) /\ loop'[l].at \notin {"query", "upsert"}
    BY <1>5, <2>1, ReadEffect, FedEffect, FreeEffect DEF Fed, Freed, FreeLoops
  <2>6. CallOf(l)'
    BY <1>0, <2>4, <2>5 DEF CallOf
  <2>7. QED BY <1>0, <2>2, <2>3, <2>4, <2>5, <2>6, CallRule DEF OpsBut, LoopBut, TypeInv
<1>6. CASE TranscribeFails(l)
  <2>1. call' = [call EXCEPT ![l] = NoCall] /\ upload' = upload /\ op' = op
    BY <1>6 DEF TranscribeFails, Answered, webVars, stores
  <2>2. LoopBut(l) /\ loop'[l].at \notin {"query", "upsert"}
    BY <1>6, FreeEffect DEF Freed, FreeLoops
  <2>3. CallOf(l)'
    BY <1>0, <2>1, <2>2 DEF CallOf
  <2>4. QED BY <1>0, <2>1, <2>2, <2>3, CallRule DEF LoopBut
<1>7. QED BY <1>1, <1>2, <1>3, <1>4, <1>5, <1>6 DEF LoopStep

(* A step leaves each call with a worker of its own.                       *)
LEMMA CallsKept ==
    ASSUME TypeInv, CallInv, [Next]_vars
    PROVE  CallInv'
<1>1. CASE DatabaseStep
  <2>1. PICK w \in Workers :
            /\ DOMAIN op' = Workers
            /\ \A x \in Workers \ {w} : op'[x] = op[x]
            /\ Writes(w) \/ Looks(w)
    BY <1>1, DatabaseEffect DEF DatabaseStep
  <2>2. UNCHANGED <<call, upload, loop>>
    BY <1>1 DEF DatabaseStep, webVars, loopVars
  <2>3. \A x \in Workers, j \in Jobs :
            /\ op[x] \in UpsertOps(j) => op'[x] \in UpsertOps(j)
            /\ op[x] \in QueryOps(j) => op'[x] \in QueryOps(j)
    BY <2>1, UpsertShape, QueryShape DEF Writes, Looks
  <2>4. /\ \A a \in Threads : call[a] # NoCall => call[a] \in Workers
        /\ \A l \in Loops : loop[l].at \in {"query", "upsert"} => loop[l].job \in Jobs
    BY Waiting, HoldShape DEF LoopStages
  <2>5. QED BY <2>2, <2>3, <2>4 DEF CallInv, Threads
<1>2. ASSUME NEW w \in Workers, Unheard(w) PROVE CallInv'
  <2>1. PICK j \in Jobs : TRUE
    BY <1>2 DEF Unheard, DB!EndUpsert, DB!EndQuery, DB!NoOp, TypeInv
  <2>2. OpsBut(w) /\ UNCHANGED <<call, upload, loop>>
    BY <1>2, <2>1, CallEffect DEF Unheard, webVars, loopVars
  <2>3. \A a \in Threads : call[a] # NoCall => op'[call[a]] = op[call[a]]
    BY <1>2, <2>2, Waiting DEF Unheard, OpsBut
  <2>4. QED BY <2>2, <2>3, CallFrame DEF Threads
<1>3. CASE DatabaseCrash
  <2>1. /\ \A j \in Jobs : upload'[j] \notin {"storing", "viewing"}
        /\ \A l \in Loops : loop'[l].at \notin {"query", "upsert"}
        /\ \A a \in Threads : call'[a] = NoCall
    BY <1>3 DEF DatabaseCrash, CallInv, Idle
  <2>2. QED BY <2>1 DEF CallInv, Threads
<1>4. CASE UNCHANGED vars
  BY <1>4, CallFrame DEF vars, stores, webVars, loopVars
<1>5. QED BY <1>1, <1>2, <1>3, <1>4, WebCallsKept, LoopCallsKept DEF Next


-----------------------------------------------------------------------------
(* Later *)

(* A job is later than itself.                                             *)
LEMMA LaterRefl ==
    ASSUME NEW j \in Jobs, NEW r \in JobsNamed(j)
    PROVE  r \in Later(r)
<1>1. r.job_id = j /\ r.cli_output \in Seq(Loops) /\ (r.status = "running" => r.status # "pending")
  BY JobShape
<1>2. IsPrefix(r.cli_output, r.cli_output)
  BY <1>1 DEF IsPrefix
<1>3. QED BY <1>1, <1>2 DEF Later

(* A prefix of a prefix is a prefix.                                       *)
LEMMA PrefixTrans ==
    ASSUME NEW s \in Seq(Loops), NEW t \in Seq(Loops), NEW u \in Seq(Loops),
           IsPrefix(s, t), IsPrefix(t, u)
    PROVE  IsPrefix(s, u)
<1>1. /\ Len(s) \in Nat /\ Len(t) \in Nat /\ Len(u) \in Nat
      /\ Len(s) <= Len(t) /\ Len(t) <= Len(u)
  BY DEF IsPrefix
<1>2. \A i \in 1..Len(s) : s[i] = t[i]
  <2>1. TAKE i \in 1..Len(s)
  <2>2. SubSeq(s, 1, Len(s))[i] = s[i] /\ SubSeq(t, 1, Len(s))[i] = t[i]
    BY <1>1, <2>1
  <2>3. QED BY <2>2 DEF IsPrefix
<1>3. \A i \in 1..Len(t) : t[i] = u[i]
  <2>1. TAKE i \in 1..Len(t)
  <2>2. SubSeq(t, 1, Len(t))[i] = t[i] /\ SubSeq(u, 1, Len(t))[i] = u[i]
    BY <1>1, <2>1
  <2>3. QED BY <2>2 DEF IsPrefix
<1>4. \A i \in 1..Len(s) : s[i] = u[i]
  BY <1>1, <1>2, <1>3
<1>5. SubSeq(s, 1, Len(s)) = SubSeq(u, 1, Len(s))
  BY <1>1, <1>4
<1>6. QED BY <1>1, <1>5 DEF IsPrefix

(* What is later than something later is later.                            *)
LEMMA LaterTrans ==
    ASSUME NEW j \in Jobs, NEW r \in JobsNamed(j), NEW s \in JobsNamed(j),
           NEW t \in JobsNamed(j), s \in Later(r), t \in Later(s)
    PROVE  t \in Later(r)
<1>1. /\ r.job_id = j /\ s.job_id = j /\ t.job_id = j
      /\ r.cli_output \in Seq(Loops) /\ s.cli_output \in Seq(Loops) /\ t.cli_output \in Seq(Loops)
      /\ s.status \in {"pending", "running", "completed"}
  BY JobShape
<1>2. IsPrefix(r.cli_output, t.cli_output)
  BY <1>1, PrefixTrans DEF Later
<1>3. QED BY <1>1, <1>2 DEF Later

(* What a loop is to store in place of a job that is not completed.        *)
LEMMA UpdatedLater ==
    ASSUME TypeInv, NEW l \in Loops, loop[l].at = "update",
           loop[l].copy.status # "completed"
    PROVE  Updated(l) \in Later(loop[l].copy)
<1> DEFINE r == loop[l].copy
           s == Updated(l)
<1>1. /\ loop[l].job \in Jobs /\ r \in JobsNamed(loop[l].job)
      /\ loop[l].doing \in {"append", "publish"}
  BY HoldShape DEF LoopStages
<1>2. /\ r.cli_output \in Seq(Loops) /\ r.job_id = loop[l].job
      /\ s \in JobsNamed(loop[l].job) /\ s.status # "pending"
  BY <1>1, JobShape, UpdatedShape
<1>3. s.cli_output = r.cli_output \/ s.cli_output = Append(r.cli_output, l)
  BY <1>1, UpdatedShape
<1> HIDE DEF r, s
<1>4. IsPrefix(r.cli_output, s.cli_output)
  BY <1>2, <1>3 DEF IsPrefix
<1>5. QED BY <1>2, <1>4 DEF Later, r, s

-----------------------------------------------------------------------------
(* Steps that bring nothing new for a job *)

\* The record, the log and the directory of k stay; of its callers, calls and
\* loops some may be gone, and a loop may have got its task.
NothingNew(k) ==
    /\ val'[k] = val[k] /\ shown'[k] = shown[k] /\ written'[k] = written[k]
    /\ k \in dirs' <=> k \in dirs
    /\ tasks'[k] = "none" <=> tasks[k] = "none"
    /\ upload'[k] \in {"new", "putting"} => upload[k] \in {"new", "putting"}
    /\ upload'[k] = "storing" => upload[k] = "storing"
    /\ upload'[k] \in {"sending", "redirected", "viewing"} =>
        upload[k] \in {"sending", "redirected", "viewing"}
    /\ upload'[k] = "viewing" =>
        upload[k] = "viewing" /\ call'[k] = call[k] /\ op'[call[k]] = op[call[k]]
    /\ \A w \in Workers : Upserts(w, k)' => Upserts(w, k) /\ op'[w] = op[w]
    /\ \A l \in Loops : Holds(l, k)' => tasks[k] # "none"
    /\ \A l \in Loops : Runs(l, k)' =>
        /\ Runs(l, k) /\ loop'[l] = loop[l] /\ call'[l] = call[l]
        /\ loop[l].at \in {"query", "upsert"} => op'[call[l]] = op[call[l]]
    /\ k \in Away' <=> k \in Away

(* What is known of k stays known when some of it is gone.                 *)
LEMMA NothingNewKept ==
    ASSUME NEW k \in Jobs, NothingNew(k), JobOf(k), Observe
    PROVE  JobOf(k)'
<1>1. PhaseOf(k)'
  BY DEF JobOf, PhaseOf, NothingNew
<1>2. \A l \in Loops : Reads(l, k)' => Reads(l, k) /\ Runs(l, k)'
  BY DEF NothingNew, Reads, Runs, RunStage
<1>3. RunOf(k)'
  BY <1>2 DEF JobOf, RunOf, NothingNew
<1>4. UpsertOf(k)'
  BY DEF JobOf, UpsertOf, NothingNew
<1>5. ASSUME NEW r PROVE Near(r, k)' <=> Near(r, k)
  BY DEF Near, NothingNew
<1>6. ASSUME NEW l \in Loops PROVE LogBy(l, k)'
  <2>1. LogBy(l, k)
    BY DEF JobOf, LogOf
  <2>2. CASE Runs(l, k)'
    BY <1>2, <2>1, <2>2 DEF LogBy, NothingNew
  <2>3. CASE ~ Runs(l, k)'
    BY <1>2, <2>3 DEF LogBy
  <2>4. QED BY <2>2, <2>3
<1>7. LogOf(k)'
  <2>1. val'[k] # NoJob => Near(val[k], k)'
    BY <1>5 DEF JobOf, LogOf, NothingNew
  <2>2. \A w \in Workers : Upserts(w, k)' => Near(op[w].payload, k)'
    BY <1>5 DEF JobOf, LogOf, NothingNew
  <2>3. QED BY <1>6, <2>1, <2>2 DEF LogOf, NothingNew, Near
<1>8. ASSUME NEW r, Follow(r, k)
      PROVE  /\ val'[k] # NoJob => val'[k] \in Later(r)
             /\ \A w \in Workers : Upserts(w, k)' => op'[w].payload \in Later(r)
  BY <1>8 DEF Follow, NothingNew
<1>9. PageOf(k)'
  <2>1. shown'[k] # NoJob => Follow(shown[k], k)'
    BY <1>8 DEF JobOf, PageOf, NothingNew, Follow
  <2>2. upload'[k] = "viewing" => \A f \in op'[call'[k]].found :
            /\ shown'[k] # NoJob => f[2] \in Later(shown'[k])
            /\ val'[k] # NoJob => val'[k] \in Later(f[2])
            /\ \A w \in Workers : Upserts(w, k)' => op'[w].payload \in Later(f[2])
    BY <1>8 DEF JobOf, PageOf, NothingNew
  <2>3. QED BY <2>1, <2>2 DEF PageOf, Follow, Later
<1>10. FoundOf(k)'
  BY DEF JobOf, FoundOf, NothingNew, Observe
<1>11. QED BY <1>1, <1>3, <1>4, <1>7, <1>9, <1>10 DEF JobOf

\* What happens to the call that x serves is nothing for k.
Unnoticed(x, k) ==
    /\ ~ Upserts(x, k)'
    /\ ~ (op[x].stage = "removed" /\ op[x].key = k)
    /\ upload'[k] = "viewing" => call[k] # x
    /\ \A l \in Loops :
        Runs(l, k)' /\ loop[l].at \in {"query", "upsert"} => call[l] # x

(* What a step means for k that touches no call k would notice.            *)
LEMMA CallsQuiet ==
    ASSUME TypeInv, CallInv, NEW k \in Jobs, UNCHANGED torn,
           \A x \in Workers : op'[x] = op[x] \/ Unnoticed(x, k)
    PROVE  /\ \A w \in Workers : Upserts(w, k)' => Upserts(w, k) /\ op'[w] = op[w]
           /\ upload[k] = "viewing" /\ upload'[k] = "viewing" => op'[call[k]] = op[call[k]]
           /\ \A l \in Loops :
                Runs(l, k)' /\ loop[l].at \in {"query", "upsert"} => op'[call[l]] = op[call[l]]
           /\ k \in Away' <=> k \in Away
<1>1. \A w \in Workers : Upserts(w, k)' => Upserts(w, k) /\ op'[w] = op[w]
  BY DEF Unnoticed, Upserts
<1>2. upload[k] = "viewing" => call[k] \in Workers
  BY DEF CallInv, TypeInv, Threads
<1>3. \A l \in Loops : loop[l].at \in {"query", "upsert"} => call[l] \in Workers
  BY DEF CallInv, TypeInv, Threads
<1>4. \A w \in Workers : op'[w].stage = "removed" /\ op'[w].key = k <=>
                         op[w].stage = "removed" /\ op[w].key = k
  BY DEF Unnoticed, Upserts, UpsertStage
<1>5. k \in Away' <=> k \in Away
  BY <1>4 DEF Away
<1>6. QED BY <1>1, <1>2, <1>3, <1>5 DEF Unnoticed

(* A worker that was free, and one whose caller has its answer.            *)
LEMMA FreeUnnoticed ==
    ASSUME TypeInv, CallInv, NEW k \in Jobs, NEW w \in Workers,
           op[w] = DB!NoOp, ~ Upserts(w, k)'
    PROVE  Unnoticed(w, k)
<1>1. \A a \in Threads : call[a] # w
  BY Waiting, OpShape DEF TypeInv, Threads
<1>2. op[w].stage = "idle"
  BY DEF DB!NoOp
<1>3. QED BY <1>1, <1>2 DEF Unnoticed, Threads

(* The worker whose caller has taken its answer.                           *)
LEMMA EndUnnoticed ==
    ASSUME TypeInv, CallInv, NEW k \in Jobs, NEW a \in Threads, NEW w \in Workers,
           call[a] = w, op[w].stage # "removed", op'[w] = DB!NoOp,
           a = k => upload'[k] # "viewing",
           a \in Loops => ~ Runs(a, k)'
    PROVE  Unnoticed(w, k)
<1>1. \A b \in Threads \ {a} : call[b] # w
  BY Waiting
<1>2. ~ Upserts(w, k)'
  BY DEF Upserts, UpsertStage, DB!NoOp
<1>3. QED BY <1>1, <1>2 DEF Unnoticed, Threads

(* Steps of the page and the upload of a job, for other jobs.              *)
LEMMA WebQuiet ==
    ASSUME TypeInv, CallInv, NEW j \in Jobs, NEW k \in Jobs, k # j, PhaseOf(k), WebStep(j)
    PROVE  NothingNew(k)
<1>1. /\ j \in Threads /\ k \in Threads /\ \A l \in Loops : l # j /\ l \in Threads
      /\ call \in [Threads -> Workers \union {NoCall}]
  BY DEF Threads, TypeInv
<1>2. /\ UNCHANGED <<loop, dirs, written, torn, val>>
      /\ upload'[k] = upload[k] /\ tasks'[k] = tasks[k] /\ shown'[k] = shown[k]
      /\ call'[k] = call[k] /\ \A l \in Loops : call'[l] = call[l]
  BY <1>1
  DEF WebStep, PutBlob, StoreJob, JobStored, Enqueued, Redirect, UploadFails, GetJobPage, ShowJob,
      PageFails, Called, Answered, stores, webVars, loopVars, TypeInv,
      DB!BeginUpsert, DB!EndUpsert, DB!BeginQuery, DB!EndQuery
<1>3. \A x \in Workers : op'[x] = op[x] \/ Unnoticed(x, k)
  <2>1. ASSUME NEW w \in Workers, StoreJob(j, w) \/ GetJobPage(j, w)
        PROVE  \A x \in Workers : op'[x] = op[x] \/ Unnoticed(x, k)
    <3>1. OpsBut(w) /\ op[w] = DB!NoOp /\ op'[w] \in UpsertOps(j) \union QueryOps(j)
      BY <2>1, CallEffect, NewJobShape DEF StoreJob, GetJobPage
    <3>2. ~ Upserts(w, k)'
      BY <3>1, UpsertShape, QueryShape DEF Upserts
    <3>3. QED BY <3>1, <3>2, FreeUnnoticed DEF OpsBut
  <2>2. CASE JobStored(j) \/ ShowJob(j)
    <3>1. PICK w \in Workers : call[j] = w
      BY <1>1, <2>2 DEF CallInv, JobStored, ShowJob
    <3>2. OpsBut(w) /\ op'[w] = DB!NoOp /\ op[w].stage # "removed"
      BY <2>2, <3>1, CallEffect DEF JobStored, ShowJob, DB!EndUpsert, DB!EndQuery
    <3>3. Unnoticed(w, k)
      BY <1>1, <3>1, <3>2, EndUnnoticed
    <3>4. QED BY <3>2, <3>3 DEF OpsBut
  <2>3. QED
    BY <2>1, <2>2
    DEF WebStep, PutBlob, Enqueued, Redirect, UploadFails, PageFails, stores
<1>4. QED
  BY <1>2, <1>3, CallsQuiet DEF NothingNew, PhaseOf, Holds, Runs

(* Steps of its own upload and page.                                       *)
LEMMA OwnWebQuiet ==
    ASSUME TypeInv, CallInv, NEW j \in Jobs, PhaseOf(j),
           PutBlob(j) \/ Enqueued(j) \/ Redirect(j) \/ UploadFails(j) \/ PageFails(j)
    PROVE  NothingNew(j)
<1>1. /\ j \in Threads /\ \A l \in Loops : l # j /\ l \in Threads
      /\ call \in [Threads -> Workers \union {NoCall}] /\ upload \in [Jobs -> Uploads]
  BY DEF Threads, TypeInv
<1>2. /\ UNCHANGED <<loop, dirs, written, torn, val, op, shown>>
      /\ tasks'[j] = "none" <=> tasks[j] = "none"
      /\ \A l \in Loops : call'[l] = call[l]
      /\ \/ upload' = upload /\ call' = call
         \/ upload'[j] \in {"putting", "redirected", "failed"}
      /\ upload'[j] \in {"new", "putting"} => upload[j] \in {"new", "putting"}
      /\ upload'[j] = "redirected" => upload[j] \in {"sending", "redirected", "viewing"}
  BY <1>1
  DEF PutBlob, Enqueued, Redirect, UploadFails, PageFails, Answered, stores, webVars, loopVars,
      TypeInv
<1>3. QED
  BY <1>2, CallsQuiet DEF NothingNew, PhaseOf, Holds, Runs

(* Steps of the loop l, after which it does not run docker for k.          *)
LEMMA LoopRule ==
    ASSUME TypeInv, CallInv, NEW k \in Jobs, NEW l \in Loops, PhaseOf(k),
           UNCHANGED <<val, upload, shown, torn>>, LoopBut(l),
           \A a \in Threads \ {l} : call'[a] = call[a],
           written'[k] = written[k], k \in dirs' <=> k \in dirs,
           tasks'[k] = "none" <=> tasks[k] = "none",
           Holds(l, k)' => tasks[k] # "none", ~ Runs(l, k)',
           \A x \in Workers : op'[x] = op[x] \/ Unnoticed(x, k)
    PROVE  NothingNew(k)
<1>1. /\ \A m \in Loops \ {l} : m \in Threads \ {l} /\ loop'[m] = loop[m]
      /\ k \in Threads \ {l}
  BY DEF LoopBut, Threads
<1>2. \A m \in Loops : Runs(m, k)' => Runs(m, k) /\ loop'[m] = loop[m] /\ call'[m] = call[m]
  BY <1>1 DEF Runs
<1>3. \A m \in Loops : Holds(m, k)' => tasks[k] # "none"
  BY <1>1 DEF Holds, PhaseOf
<1>4. QED BY <1>1, <1>2, <1>3, CallsQuiet DEF NothingNew

(* A loop that is given a task or gives one up has not touched the job.    *)
LEMMA GivenQuiet ==
    ASSUME TypeInv, CallInv, NEW l \in Loops, NEW k \in Jobs, PhaseOf(k),
           \/ \E j \in Jobs : FindTask(l, j)
           \/ DispatchTask(l) \/ LoopEnds(l) \/ GetBlobBytes(l)
           \/ TranscribeFails(l) \/ JobPublished(l)
    PROVE  NothingNew(k)
<1>0. /\ call \in [Threads -> Workers \union {NoCall}]
      /\ tasks \in [Jobs -> {"none", "sent", "pending", "consumed"}]
  BY DEF TypeInv
<1>1. UNCHANGED <<val, upload, shown, torn, written, dirs>>
  BY DEF FindTask, DispatchTask, LoopEnds, GetBlobBytes, TranscribeFails, JobPublished, stores,
         webVars, DB!EndUpsert
<1>2. \A a \in Threads \ {l} : call'[a] = call[a]
  BY <1>0
  DEF FindTask, DispatchTask, LoopEnds, GetBlobBytes, TranscribeFails, JobPublished, Answered
<1>3. /\ LoopBut(l) /\ ~ RunStage(loop'[l].at)
      /\ loop'[l].at \in LoopStages =>
            \/ \E j \in Jobs : FindTask(l, j) /\ loop'[l].job = j
            \/ loop[l].at \in LoopStages /\ loop'[l].job = loop[l].job
  BY FreeEffect, FedEffect
  DEF Freed, FreeLoops, Given, Fed, RunStage, LoopStages, DispatchTask, GetBlobBytes
<1>4. Holds(l, k)' => tasks[k] # "none"
  BY <1>3 DEF Holds, PhaseOf, FindTask
<1>5. tasks'[k] = "none" <=> tasks[k] = "none"
  <2>1. CASE tasks' = tasks
    BY <2>1
  <2>2. CASE tasks' = [tasks EXCEPT ![loop[l].job] = "consumed"] /\ loop[l].at = "found"
    <3>1. loop[l].job = k => tasks[k] # "none"
      BY <2>2 DEF Holds, PhaseOf, LoopStages
    <3>2. QED BY <1>0, <2>2, <3>1
  <2>3. QED
    BY <2>1, <2>2
    DEF FindTask, DispatchTask, LoopEnds, GetBlobBytes, TranscribeFails, JobPublished
<1>6. \A x \in Workers : op'[x] = op[x] \/ Unnoticed(x, k)
  <2>1. CASE JobPublished(l)
    <3>1. PICK w \in Workers : call[l] = w
      BY <1>0, <2>1 DEF CallInv, JobPublished, Threads
    <3>2. OpsBut(w) /\ op'[w] = DB!NoOp /\ op[w].stage # "removed"
      BY <2>1, <3>1, CallEffect DEF JobPublished, DB!EndUpsert
    <3>3. l \in Threads /\ l # k
      BY DEF Threads
    <3>4. Unnoticed(w, k)
      BY <1>3, <3>1, <3>2, <3>3, EndUnnoticed DEF Runs
    <3>5. QED BY <3>2, <3>4 DEF OpsBut
  <2>2. CASE ~ JobPublished(l)
    BY <2>2 DEF FindTask, DispatchTask, LoopEnds, GetBlobBytes, TranscribeFails, stores
  <2>3. QED BY <2>1, <2>2
<1>7. QED BY <1>1, <1>2, <1>3, <1>4, <1>5, <1>6, LoopRule DEF Runs

(* The steps of a loop that runs docker for another job.                   *)
LEMMA OtherQuiet ==
    ASSUME TypeInv, CallInv, NEW l \in Loops, NEW k \in Jobs, PhaseOf(k), k # loop[l].job,
           \/ MakeWorkDir(l) \/ JobRead(l) \/ ChunkStored(l)
           \/ \E w \in Workers :
                \/ \E what \in {"append", "publish"} : ReadJob(l, w, what)
                \/ UpsertJob(l, w)
    PROVE  NothingNew(k)
<1>0. /\ call \in [Threads -> Workers \union {NoCall}] /\ written \in [Jobs -> Seq(Loops)]
      /\ l \in Threads /\ l # k
      /\ loop[l].job \in Jobs
  BY HoldShape
  DEF TypeInv, Threads, MakeWorkDir, JobRead, ChunkStored, ReadJob, UpsertJob, LoopStages
<1>1. UNCHANGED <<val, upload, shown, torn, tasks>>
  BY DEF MakeWorkDir, JobRead, ChunkStored, ReadJob, UpsertJob, stores, webVars, DB!EndUpsert,
         DB!EndQuery, DB!BeginUpsert, DB!BeginQuery
<1>2. \A a \in Threads \ {l} : call'[a] = call[a]
  BY <1>0 DEF MakeWorkDir, JobRead, ChunkStored, ReadJob, UpsertJob, Answered, Called
<1>3. written'[k] = written[k] /\ (k \in dirs' <=> k \in dirs)
  BY <1>0 DEF MakeWorkDir, JobRead, ChunkStored, ReadJob, UpsertJob
<1>4. LoopBut(l) /\ loop'[l].job = loop[l].job
  <2>1. JobRead(l) => op[call[l]] \in QueryOps(loop[l].job)
    BY DEF CallInv, JobRead
  <2>2. QED BY <2>1, ReadEffect, FedEffect DEF Fed
<1>5. ~ Holds(l, k)' /\ ~ Runs(l, k)'
  BY <1>4 DEF Holds, Runs
<1>6. \A x \in Workers : op'[x] = op[x] \/ Unnoticed(x, k)
  <2>1. CASE JobRead(l) \/ ChunkStored(l)
    <3>1. PICK w \in Workers : call[l] = w
      BY <1>0, <2>1 DEF CallInv, JobRead, ChunkStored
    <3>2. OpsBut(w) /\ op'[w] = DB!NoOp /\ op[w].stage # "removed"
      BY <2>1, <3>1, CallEffect DEF JobRead, ChunkStored, DB!EndUpsert, DB!EndQuery
    <3>3. Unnoticed(w, k)
      BY <1>0, <1>5, <3>1, <3>2, EndUnnoticed
    <3>4. QED BY <3>2, <3>3 DEF OpsBut
  <2>2. ASSUME NEW w \in Workers,
               UpsertJob(l, w) \/ \E what \in {"append", "publish"} : ReadJob(l, w, what)
        PROVE  \A x \in Workers : op'[x] = op[x] \/ Unnoticed(x, k)
    <3>1. UpsertJob(l, w) => Updated(l) \in JobsNamed(loop[l].job)
      BY UpdatedShape DEF UpsertJob
    <3>2. /\ OpsBut(w) /\ op[w] = DB!NoOp
          /\ op'[w] \in UpsertOps(loop[l].job) \union QueryOps(loop[l].job)
      BY <1>0, <2>2, <3>1, CallEffect DEF UpsertJob, ReadJob
    <3>3. ~ Upserts(w, k)'
      BY <1>0, <3>2, UpsertShape, QueryShape DEF Upserts
    <3>4. QED BY <3>2, <3>3, FreeUnnoticed DEF OpsBut
  <2>3. QED BY <2>1, <2>2 DEF MakeWorkDir, stores
<1>7. QED BY <1>1, <1>2, <1>3, <1>4, <1>5, <1>6, LoopRule

(* Steps of database-service.                                              *)
LEMMA StoreQuiet ==
    ASSUME TypeInv, CallInv, NEW k \in Jobs, PhaseOf(k), NEW w \in Workers,
           \/ Unheard(w)
           \/ /\ UNCHANGED <<call, tasks, webVars, loopVars, torn>>
              /\ \A x \in Workers \ {w} : op'[x] = op[x]
              /\ (Writes(w) /\ op[w].key # k) \/ (Looks(w) /\ op[w].query # k)
    PROVE  NothingNew(k)
<1>1. UNCHANGED <<call, tasks, upload, shown, loop, dirs, written, torn>>
  BY DEF Unheard, webVars, loopVars
<1>2. val'[k] = val[k]
  BY DEF Unheard, Writes, Looks, DB!EndUpsert, DB!EndQuery, TypeInv
<1>3. \A x \in Workers : op'[x] = op[x] \/ Unnoticed(x, k)
  <2>1. CASE Unheard(w)
    <3>1. OpsBut(w) /\ op'[w] = DB!NoOp
      BY <2>1, CallEffect DEF Unheard
    <3>2. \A a \in Threads : call[a] # w
      BY <2>1 DEF Unheard
    <3>3. ~ Upserts(w, k)' /\ op[w].stage # "removed"
      BY <2>1, <3>1 DEF Upserts, UpsertStage, DB!NoOp, Unheard, DB!EndUpsert, DB!EndQuery
    <3>4. QED BY <3>1, <3>2, <3>3 DEF OpsBut, Unnoticed, Threads
  <2>2. ASSUME NEW j \in Jobs, j # k,
               op[w] \in UpsertOps(j) \union QueryOps(j), op'[w] \in UpsertOps(j) \union QueryOps(j)
        PROVE  Unnoticed(w, k)
    <3>1. op[w] \notin UpsertOps(k) \union QueryOps(k)
      BY <2>2, UpsertShape, QueryShape
    <3>2. ~ Upserts(w, k)' /\ ~ (op[w].stage = "removed" /\ op[w].key = k)
      BY <2>2, UpsertShape, QueryShape DEF Upserts, UpsertStage
    <3>3. upload[k] = "viewing" => call[k] # w
      BY <3>1 DEF CallInv
    <3>4. \A l \in Loops : Runs(l, k) /\ loop[l].at \in {"query", "upsert"} => call[l] # w
      BY <3>1 DEF CallInv, Runs
    <3>5. QED BY <1>1, <3>2, <3>3, <3>4 DEF Unnoticed, Runs
  <2>3. QED
    BY <2>1, <2>2 DEF Writes, Looks
<1>4. QED BY <1>1, <1>2, <1>3, CallsQuiet DEF NothingNew, PhaseOf, Holds, Runs

(* A crash ends calls, and leaves records and what is away as they are.    *)
LEMMA CrashQuiet ==
    ASSUME TypeInv, CallInv, NEW k \in Jobs, PhaseOf(k), DatabaseCrash
    PROVE  NothingNew(k)
<1>1. /\ \A w \in Workers : op'[w] = DB!NoOp
      /\ UNCHANGED <<val, shown, written, dirs, tasks>>
      /\ torn' = Away
  BY DEF DatabaseCrash, DB!Crash
<1>2. \A w \in Workers : op'[w].stage = "idle"
  BY <1>1 DEF DB!NoOp
<1>3. k \in Away' <=> k \in Away
  BY <1>1, <1>2 DEF Away
<1>4. \A l \in Loops : loop'[l] = loop[l] \/ loop'[l].at = "poll"
  BY DEF DatabaseCrash, Idle
<1>5. \A l \in Loops : Holds(l, k)' => Holds(l, k)
  BY <1>4 DEF Holds, LoopStages
<1>6. \A l \in Loops : Runs(l, k)' =>
        /\ Runs(l, k) /\ loop'[l] = loop[l] /\ call'[l] = call[l]
        /\ loop[l].at \notin {"query", "upsert"}
  BY <1>4 DEF Runs, RunStage, DatabaseCrash, CallInv, Threads, Idle
<1>7. \/ upload'[k] = upload[k] /\ upload[k] \notin {"storing", "viewing"}
      \/ upload[k] = "viewing" /\ upload'[k] = "redirected"
      \/ upload'[k] = "failed"
  BY DEF DatabaseCrash, CallInv
<1>8. QED BY <1>1, <1>2, <1>3, <1>5, <1>6, <1>7 DEF NothingNew, PhaseOf, Upserts, UpsertStage

-----------------------------------------------------------------------------
(* The other steps of a job *)

(* PostUpload is the first to store the job.                               *)
LEMMA StoreJobKeeps ==
    ASSUME TypeInv, CallInv, NEW j \in Jobs, NEW w \in Workers, JobOf(j), StoreJob(j, w), Observe
    PROVE  JobOf(j)'
<1>1. /\ UNCHANGED <<val, loop, dirs, written, torn, tasks, shown>>
      /\ upload'[j] = "storing"
  BY DEF StoreJob, webVars, loopVars, TypeInv, DB!BeginUpsert
<1>2. OpsBut(w) /\ op'[w] \in UpsertOps(j) /\ op'[w].stage = "begun" /\ op'[w].payload = NewJob(j)
  BY CallEffect, NewJobShape DEF StoreJob
<1>3. /\ upload[j] = "putting" /\ val[j] = NoJob /\ tasks[j] = "none" /\ shown[j] = NoJob
      /\ j \notin dirs /\ written[j] = <<>>
      /\ \A x \in Workers : ~ Upserts(x, j)
      /\ \A l \in Loops : ~ Holds(l, j)
  BY DEF StoreJob, JobOf, PhaseOf
<1>4. \A x \in Workers : Upserts(x, j)' => x = w
  BY <1>2, <1>3 DEF OpsBut, Upserts
<1>5. \A l \in Loops : ~ Holds(l, j)' /\ ~ Runs(l, j)' /\ ~ Reads(l, j)'
  BY <1>1, <1>3 DEF Holds, Runs, Reads, RunStage, LoopStages
<1>6. PhaseOf(j)'
  BY <1>1, <1>2, <1>3, <1>4, <1>5 DEF PhaseOf, NewJob
<1>7. RunOf(j)' /\ UpsertOf(j)'
  BY <1>1, <1>2, <1>3, <1>4, <1>5 DEF RunOf, UpsertOf
<1>8. LogOf(j)'
  <2>1. \A x \in Workers : Upserts(x, j)' => op'[x].payload.cli_output = written'[j]
    BY <1>1, <1>2, <1>3, <1>4, NewJobShape
  <2>2. QED BY <1>1, <1>3, <1>5, <2>1 DEF LogOf, LogBy, Near
<1>9. PageOf(j)' /\ FoundOf(j)'
  BY <1>1, <1>3 DEF PageOf, FoundOf
<1>10. QED BY <1>6, <1>7, <1>8, <1>9 DEF JobOf

(* The job is stored, and nobody else stores it.                           *)
LEMMA JobStoredKeeps ==
    ASSUME TypeInv, CallInv, NEW j \in Jobs, JobOf(j), JobStored(j), Observe
    PROVE  JobOf(j)'
<1>1. /\ UNCHANGED <<val, loop, dirs, written, torn, shown>>
      /\ upload[j] = "storing" /\ upload'[j] = "sending"
      /\ tasks[j] = "none" /\ tasks'[j] = "sent" /\ shown[j] = NoJob
      /\ \A l \in Loops : call'[l] = call[l]
  BY DEF JobStored, webVars, loopVars, TypeInv, DB!EndUpsert, Answered, JobOf, PhaseOf, Threads
<1>2. PICK w \in Workers : call[j] = w
  BY <1>1 DEF CallInv, TypeInv, Threads
<1>3. OpsBut(w) /\ op'[w] = DB!NoOp /\ op[w].stage = "ok" /\ op[w] \in UpsertOps(j)
  BY <1>1, <1>2, CallEffect DEF JobStored, CallInv
<1>4. Upserts(w, j) /\ op[w].payload # NoJob
  BY <1>3, UpsertShape, JobShape DEF Upserts
<1>5. \A x \in Workers : ~ Upserts(x, j)'
  BY <1>3, <1>4 DEF JobOf, RunOf, Upserts, UpsertStage, OpsBut, DB!NoOp
<1>6. j \notin dirs /\ \A l \in Loops : ~ Holds(l, j)
  BY <1>1 DEF JobOf, PhaseOf
<1>7. \A l \in Loops : ~ Holds(l, j)' /\ ~ Runs(l, j)' /\ ~ Reads(l, j)'
  BY <1>1, <1>6 DEF Holds, Runs, Reads, RunStage, LoopStages
<1>8. PhaseOf(j)'
  BY <1>1, <1>5, <1>7 DEF JobOf, PhaseOf, NewJob
<1>9. RunOf(j)' /\ UpsertOf(j)'
  BY <1>5, <1>7 DEF RunOf, UpsertOf
<1>10. LogOf(j)'
  BY <1>1, <1>5, <1>7 DEF JobOf, LogOf, LogBy, Near
<1>11. val[j] # NoJob
  BY <1>3, <1>4 DEF JobOf, UpsertOf
<1>12. PageOf(j)' /\ FoundOf(j)'
  BY <1>1, <1>11 DEF PageOf, FoundOf
<1>13. QED BY <1>8, <1>9, <1>10, <1>12 DEF JobOf

(* What stays when no record and no upsert of j changes.                   *)
LEMMA QuietLoops ==
    ASSUME NEW j \in Jobs, JobOf(j), UNCHANGED <<val, loop, written>>,
           j \in dirs' <=> j \in dirs, tasks'[j] = tasks[j],
           \A w \in Workers : Upserts(w, j)' => Upserts(w, j) /\ op'[w] = op[w],
           upload[j] \in {"redirected", "viewing"}, upload'[j] \in {"redirected", "viewing"},
           \A l \in Loops : Runs(l, j) =>
                /\ call'[l] = call[l]
                /\ loop[l].at \in {"query", "upsert"} => op'[call[l]] = op[call[l]]
    PROVE  PhaseOf(j)' /\ RunOf(j)' /\ UpsertOf(j)' /\ LogOf(j)'
<1>1. \A l \in Loops :
        /\ Holds(l, j)' <=> Holds(l, j)
        /\ Runs(l, j)' <=> Runs(l, j)
        /\ Reads(l, j)' <=> Reads(l, j)
  BY DEF Holds, Runs, Reads
<1>2. PhaseOf(j)'
  BY <1>1 DEF JobOf, PhaseOf
<1>3. RunOf(j)' /\ UpsertOf(j)'
  BY <1>1 DEF JobOf, RunOf, UpsertOf
<1>4. ASSUME NEW l \in Loops PROVE LogBy(l, j)'
  BY <1>1 DEF JobOf, LogOf, LogBy, Reads, Runs, RunStage
<1>5. LogOf(j)'
  BY <1>4 DEF JobOf, LogOf, Near
<1>6. QED BY <1>2, <1>3, <1>5

(* The page of a job begins to read its record.                            *)
LEMMA GetJobPageKeeps ==
    ASSUME TypeInv, CallInv, NEW j \in Jobs, NEW w \in Workers, JobOf(j), GetJobPage(j, w), Observe
    PROVE  JobOf(j)'
<1>1. /\ UNCHANGED <<val, loop, dirs, written, torn, shown, tasks>>
      /\ upload[j] = "redirected" /\ upload'[j] = "viewing" /\ call'[j] = w
      /\ \A l \in Loops : call'[l] = call[l]
  BY DEF GetJobPage, webVars, loopVars, TypeInv, DB!BeginQuery, Called, Threads
<1>2. /\ OpsBut(w) /\ op[w] = DB!NoOp
      /\ op'[w] \in QueryOps(j) /\ op'[w].stage = "list" /\ op'[w].found = {}
  BY CallEffect DEF GetJobPage
<1>3. Unnoticed(w, j)
  <2>1. ~ Upserts(w, j)'
    BY <1>2, QueryShape DEF Upserts
  <2>2. QED BY <1>2, <2>1, FreeUnnoticed
<1>4. /\ \A x \in Workers : Upserts(x, j)' => Upserts(x, j) /\ op'[x] = op[x]
      /\ \A l \in Loops :
            Runs(l, j)' /\ loop[l].at \in {"query", "upsert"} => op'[call[l]] = op[call[l]]
      /\ j \in Away' <=> j \in Away
  BY <1>1, <1>2, <1>3, CallsQuiet DEF OpsBut
<1>5. PhaseOf(j)' /\ RunOf(j)' /\ UpsertOf(j)' /\ LogOf(j)'
  BY <1>1, <1>4, QuietLoops DEF Runs
<1>6. PageOf(j)'
  BY <1>1, <1>2, <1>4 DEF JobOf, PageOf, Follow, Later
<1>7. FoundOf(j)'
  BY <1>1, <1>2, <1>4 DEF JobOf, FoundOf, Observe
<1>8. QED BY <1>5, <1>6, <1>7 DEF JobOf

(* It shows what it has found.                                             *)
LEMMA ShowJobKeeps ==
    ASSUME TypeInv, CallInv, NEW j \in Jobs, JobOf(j), ShowJob(j), Observe
    PROVE  JobOf(j)'
<1>0. /\ j \in Threads /\ \A l \in Loops : l # j /\ l \in Threads
      /\ call \in [Threads -> Workers \union {NoCall}] /\ DOMAIN shown = Jobs
      /\ upload \in [Jobs -> Uploads]
  BY DEF TypeInv, Threads
<1>1. /\ UNCHANGED <<val, loop, dirs, written, torn, tasks>>
      /\ upload[j] = "viewing" /\ upload'[j] = "redirected"
      /\ \A l \in Loops : call'[l] = call[l]
  BY <1>0 DEF ShowJob, webVars, loopVars, DB!EndQuery, Answered
<1>2. PICK w \in Workers : call[j] = w
  BY <1>0, <1>1 DEF CallInv
<1>3. OpsBut(w) /\ op'[w] = DB!NoOp /\ op[w].stage # "removed"
  BY <1>2, CallEffect DEF ShowJob, DB!EndQuery
<1>4. Unnoticed(w, j)
  BY <1>0, <1>1, <1>2, <1>3, EndUnnoticed
<1>5. /\ \A x \in Workers : Upserts(x, j)' => Upserts(x, j) /\ op'[x] = op[x]
      /\ \A l \in Loops :
            Runs(l, j)' /\ loop[l].at \in {"query", "upsert"} => op'[call[l]] = op[call[l]]
      /\ j \in Away' <=> j \in Away
  BY <1>1, <1>3, <1>4, CallsQuiet DEF OpsBut
<1>6. PhaseOf(j)' /\ RunOf(j)' /\ UpsertOf(j)' /\ LogOf(j)'
  BY <1>1, <1>5, QuietLoops DEF Runs
<1>7. shown'[j] = shown[j] \/ \E f \in op[call[j]].found : shown'[j] = f[2]
  <2> DEFINE F == op[call[j]].found
             r == CHOOSE x \in {f[2] : f \in F} : TRUE
  <2>1. CASE F = {}
    BY <1>0, <2>1 DEF ShowJob
  <2>2. CASE F # {}
    <3>1. r \in {f[2] : f \in F}
      BY <2>2
    <3>2. shown' = [shown EXCEPT ![j] = r]
      BY <2>2 DEF ShowJob
    <3> HIDE DEF r
    <3>3. QED BY <1>0, <3>1, <3>2
  <2>3. QED BY <2>1, <2>2
<1>8. PageOf(j)'
  BY <1>1, <1>5, <1>7 DEF JobOf, PageOf, Follow, Later
<1>9. FoundOf(j)'
  BY <1>1, <1>5 DEF JobOf, FoundOf
<1>10. QED BY <1>6, <1>8, <1>9 DEF JobOf

(* The first loop to get this far is the only one.                         *)
LEMMA MakeWorkDirKeeps ==
    ASSUME TypeInv, CallInv, NEW l \in Loops, NEW k \in Jobs, k = loop[l].job,
           JobOf(k), Observe, MakeWorkDir(l)
    PROVE  JobOf(k)'
<1>1. /\ loop[l].at = "mkdir" /\ k \notin dirs
      /\ UNCHANGED <<val, op, call, upload, written, torn, tasks, shown>>
      /\ dirs' = dirs \union {k}
  BY DEF MakeWorkDir, stores, webVars
<1>2. LoopBut(l) /\ loop'[l].at = "docker" /\ loop'[l].job = k
  BY FedEffect DEF Fed
<1>3. /\ Holds(l, k) /\ tasks[k] # "none" /\ k \notin dirs
      /\ val[k] \in {NoJob, NewJob(k)} /\ written[k] = <<>>
      /\ \A w \in Workers : ~ Upserts(w, k)
      /\ \A m \in Loops : ~ Runs(m, k)
  BY <1>1 DEF JobOf, PhaseOf, RunOf, Holds, LoopStages
<1>4. /\ \A w \in Workers : ~ Upserts(w, k)'
      /\ \A m \in Loops \ {l} : (Holds(m, k)' <=> Holds(m, k)) /\ ~ Runs(m, k)'
      /\ \A m \in Loops \ {l} : ~ Reads(m, k)'
  BY <1>1, <1>2, <1>3 DEF LoopBut, Upserts, Holds, Runs, Reads, RunStage
<1>5. PhaseOf(k)'
  BY <1>1, <1>3, <1>4 DEF JobOf, PhaseOf
<1>6. RunOf(k)' /\ UpsertOf(k)'
  BY <1>1, <1>3, <1>4 DEF RunOf, UpsertOf
<1>7. val[k] # NoJob => val[k].cli_output = written[k] /\ val[k].status = "pending"
  BY <1>3, NewJobShape
<1>8. LogBy(l, k)'
  BY <1>1, <1>2, <1>7 DEF LogBy
<1>9. LogOf(k)'
  BY <1>1, <1>4, <1>7, <1>8 DEF LogOf, LogBy, Near
<1>10. PageOf(k)' /\ FoundOf(k)'
  <2>1. k \in Away' <=> k \in Away
    BY <1>1 DEF Away
  <2>2. QED BY <1>1, <1>4, <2>1 DEF JobOf, PageOf, FoundOf, Follow, Observe, Later
<1>11. QED BY <1>5, <1>6, <1>9, <1>10 DEF JobOf

\* What the step of the loop l leaves alone.
LoopAlone(l, w) ==
    /\ UNCHANGED <<val, upload, dirs, torn, shown, tasks>>
    /\ OpsBut(w) /\ LoopBut(l)
    /\ \A a \in Threads \ {l} : call'[a] = call[a]
    /\ loop'[l].job = loop[l].job

(* While one loop runs docker for k, and takes a step for it.              *)
LEMMA RunRule ==
    ASSUME TypeInv, CallInv, NEW l \in Loops, NEW k \in Jobs, NEW w \in Workers, JobOf(k), Observe,
           LoopAlone(l, w), Runs(l, k), Runs(l, k)', call[l] \in {NoCall, w},
           op[w] = DB!NoOp \/ call[l] = w,
           op'[w].stage # "removed", op[w].stage # "removed",
           Reads(l, k)' => \A x \in Workers : ~ Upserts(x, k)',
           LogBy(l, k)',
           \A x \in Workers : Upserts(x, k)' =>
                (Upserts(x, k) /\ op'[x] = op[x]) \/ (op[w] = DB!NoOp /\ x = w),
           Upserts(w, k)' /\ op[w] = DB!NoOp =>
                /\ Reads(l, k) /\ op'[w].stage = "begun"
                /\ val[k] # NoJob /\ op'[w].payload \in Later(val[k])
                /\ op'[w].payload \in JobsNamed(k),
           val[k] # NoJob => Near(val[k], k)',
           \A x \in Workers : Upserts(x, k)' => Near(op[x].payload, k)'
    PROVE  JobOf(k)'
<1>1. /\ k \in dirs /\ tasks[k] # "none" /\ k \in dirs'
      /\ \A m \in Loops : m # l => ~ Runs(m, k)
  BY DEF JobOf, RunOf, PhaseOf, LoopAlone
<1>2. \A m \in Loops : m # l => (Holds(m, k)' <=> Holds(m, k)) /\ ~ Runs(m, k)' /\ ~ Reads(m, k)'
  BY <1>1 DEF LoopAlone, LoopBut, Holds, Runs, Reads, RunStage
<1>3. PhaseOf(k)'
  <2>1. upload[k] \in {"new", "putting"} => FALSE
    BY <1>1 DEF JobOf, PhaseOf
  <2>2. QED BY <1>1, <1>2, <2>1 DEF JobOf, PhaseOf, LoopAlone
<1>4. RunOf(k)'
  <2>1. \A v, x \in Workers : Upserts(v, k)' /\ Upserts(x, k)' => v = x
    BY DEF JobOf, RunOf
  <2>2. QED BY <1>1, <1>2, <2>1 DEF RunOf
<1>5. UpsertOf(k)'
  BY DEF JobOf, UpsertOf, LoopAlone
<1>6. LogOf(k)'
  BY <1>2 DEF LogOf, LogBy, LoopAlone
<1>7. /\ \A r : Follow(r, k) <=> /\ val[k] # NoJob => val[k] \in Later(r)
                                 /\ \A x \in Workers : Upserts(x, k) => op[x].payload \in Later(r)
      /\ val[k] = NoJob \/ val[k] \in JobsNamed(k)
      /\ shown[k] = NoJob \/ shown[k] \in JobsNamed(k)
  BY DEF Follow, TypeInv
<1>8. \A r \in JobsNamed(k) : Follow(r, k) =>
        \A x \in Workers : Upserts(x, k)' => op'[x].payload \in Later(r)
  <2>1. TAKE r \in JobsNamed(k)
  <2>2. HAVE Follow(r, k)
  <2>3. TAKE x \in Workers
  <2>4. HAVE Upserts(x, k)'
  <2>5. CASE Upserts(x, k) /\ op'[x] = op[x]
    BY <2>2, <2>5 DEF Follow
  <2>6. CASE op[w] = DB!NoOp /\ x = w
    <3>1. val[k] \in Later(r) /\ val[k] \in JobsNamed(k) /\ op'[x].payload \in Later(val[k])
      BY <1>7, <2>2, <2>4, <2>6 DEF Follow
    <3>2. op'[x].payload \in JobsNamed(k)
      BY <2>4, <2>6
    <3>3. QED BY <3>1, <3>2, LaterTrans
  <2>7. QED BY <2>4, <2>5, <2>6
<1>9. upload[k] = "viewing" =>
        /\ op[call[k]] \in QueryOps(k) /\ call[k] \in Workers
        /\ call'[k] = call[k] /\ op'[call[k]] = op[call[k]]
  <2>1. k \in Threads \ {l} /\ l \in Threads
    BY DEF Threads
  <2>2. upload[k] = "viewing" => op[call[k]] \in QueryOps(k) /\ call[k] # NoCall
    BY DEF CallInv
  <2>3. upload[k] = "viewing" => call[k] \in Workers /\ op[call[k]] # DB!NoOp /\ call[l] # call[k]
    BY <2>1, <2>2, Waiting
  <2>4. QED BY <2>1, <2>2, <2>3 DEF LoopAlone, OpsBut
<1>10. PageOf(k)'
  <2>1. shown'[k] # NoJob => Follow(shown[k], k)'
    BY <1>7, <1>8 DEF JobOf, PageOf, Follow, LoopAlone
  <2>2. upload[k] = "viewing" => \A f \in op[call[k]].found :
            /\ f[2] \in JobsNamed(k)
            /\ shown[k] # NoJob => f[2] \in Later(shown[k])
            /\ val[k] # NoJob => val[k] \in Later(f[2])
            /\ \A x \in Workers : Upserts(x, k)' => op'[x].payload \in Later(f[2])
    BY <1>8, <1>9, QueryShape DEF JobOf, PageOf, Follow
  <2>3. QED BY <1>9, <2>1, <2>2 DEF PageOf, Follow, LoopAlone, Later
<1>11. FoundOf(k)'
  <2>1. k \in Away' <=> k \in Away
    BY DEF Away, LoopAlone, OpsBut
  <2>2. QED BY <1>9, <2>1 DEF JobOf, FoundOf, Observe, LoopAlone
<1>12. QED BY <1>3, <1>4, <1>5, <1>6, <1>10, <1>11 DEF JobOf

\* The steps for which RunRule is.
RunSteps(l, w) ==
    \/ \E what \in {"append", "publish"} : ReadJob(l, w, what)
    \/ UpsertJob(l, w)
    \/ call[l] = w /\ (JobRead(l) \/ ChunkStored(l))

(* What these steps change.                                                *)
LEMMA RunStepShape ==
    ASSUME TypeInv, CallInv, NEW l \in Loops, NEW w \in Workers, RunSteps(l, w)
    PROVE  /\ loop[l].job \in Jobs
           /\ LoopAlone(l, w)
           /\ RunStage(loop[l].at) /\ RunStage(loop'[l].at)
           /\ call[l] \in {NoCall, w}
           /\ op[w] = DB!NoOp \/ call[l] = w
           /\ op[w].stage # "removed"
           /\ JobRead(l) \/ ChunkStored(l) => op'[w] = DB!NoOp
<1>0. /\ loop[l].job \in Jobs /\ call \in [Threads -> Workers \union {NoCall}] /\ l \in Threads
      /\ RunStage(loop[l].at)
  BY HoldShape
  DEF TypeInv, Threads, JobRead, ChunkStored, ReadJob, UpsertJob, LoopStages, RunSteps, RunStage
<1>1. /\ UNCHANGED <<val, upload, dirs, torn, shown, tasks>>
      /\ \A a \in Threads \ {l} : call'[a] = call[a]
  BY <1>0
  DEF RunSteps, JobRead, ChunkStored, ReadJob, UpsertJob, webVars, Answered, Called, DB!EndUpsert,
      DB!EndQuery, DB!BeginUpsert, DB!BeginQuery
<1>2. LoopBut(l) /\ loop'[l].job = loop[l].job /\ RunStage(loop'[l].at)
  <2>1. JobRead(l) => op[call[l]] \in QueryOps(loop[l].job)
    BY DEF CallInv, JobRead
  <2>2. QED BY <2>1, ReadEffect, FedEffect DEF Fed, RunSteps, RunStage
<1>3. CASE call[l] = w /\ (JobRead(l) \/ ChunkStored(l))
  <2>1. OpsBut(w) /\ op'[w] = DB!NoOp /\ op[w].stage # "removed"
    BY <1>0, <1>3, CallEffect DEF JobRead, ChunkStored, DB!EndUpsert, DB!EndQuery
  <2>2. QED BY <1>0, <1>1, <1>2, <1>3, <2>1 DEF LoopAlone
<1>4. CASE UpsertJob(l, w) \/ \E what \in {"append", "publish"} : ReadJob(l, w, what)
  <2>1. OpsBut(w) /\ op[w] = DB!NoOp
    BY <1>0, <1>4, CallEffect, UpdatedShape DEF UpsertJob, ReadJob
  <2>2. op[w].stage # "removed"
    BY <2>1 DEF DB!NoOp
  <2>3. call[l] = NoCall
    BY <1>4 DEF CallInv, UpsertJob, ReadJob
  <2>4. ~ JobRead(l) /\ ~ ChunkStored(l)
    BY <1>4 DEF UpsertJob, ReadJob, JobRead, ChunkStored
  <2>5. QED BY <1>0, <1>1, <1>2, <2>1, <2>2, <2>3, <2>4 DEF LoopAlone
<1>5. QED BY <1>3, <1>4 DEF RunSteps

(* A loop reads the record that nobody replaces, and nobody does until it  *)
(* has replaced it.                                                        *)
LEMMA ReadJobKeeps ==
    ASSUME TypeInv, CallInv, NEW l \in Loops, NEW w \in Workers, NEW k \in Jobs, k = loop[l].job,
           JobOf(k), Observe, NEW what \in {"append", "publish"}, ReadJob(l, w, what)
    PROVE  JobOf(k)'
<1>1. /\ RunSteps(l, w) /\ loop[l].at = "docker" /\ loop'[l].at = "query" /\ call'[l] = w
      /\ written' = written
  BY FedEffect DEF RunSteps, ReadJob, Fed, Called, TypeInv, Threads
<1>2. LoopAlone(l, w) /\ Runs(l, k) /\ Runs(l, k)' /\ Reads(l, k)
  BY <1>1, RunStepShape DEF Runs, Reads, RunStage, LoopAlone
<1>3. /\ OpsBut(w) /\ op[w] = DB!NoOp
      /\ op'[w] \in QueryOps(k) /\ op'[w].stage = "list" /\ op'[w].found = {}
  BY CallEffect DEF ReadJob
<1>4. /\ ~ Upserts(w, k)'
      /\ \A x \in Workers : Upserts(x, k)' => Upserts(x, k) /\ op'[x] = op[x]
  BY <1>3, QueryShape DEF Upserts, OpsBut
<1>5. \A x \in Workers : ~ Upserts(x, k)'
  BY <1>2, <1>4 DEF JobOf, RunOf
<1>6. LogBy(l, k)'
  BY <1>1, <1>2, <1>3 DEF JobOf, LogOf, LogBy, LoopAlone
<1>7. val[k] # NoJob => Near(val[k], k)'
  BY <1>1, <1>2 DEF JobOf, LogOf, Near, LoopAlone
<1>8. QED BY <1>1, <1>2, <1>3, <1>4, <1>5, <1>6, <1>7, RunStepShape, RunRule

(* What the loop has read is the record.                                   *)
LEMMA JobReadKeeps ==
    ASSUME TypeInv, CallInv, NEW l \in Loops, NEW k \in Jobs, k = loop[l].job,
           JobOf(k), Observe, JobRead(l)
    PROVE  JobOf(k)'
<1>0. PICK w \in Workers : call[l] = w
  BY DEF CallInv, TypeInv, Threads, JobRead
<1>1. /\ RunSteps(l, w) /\ loop[l].at = "query" /\ written' = written
      /\ op[w] \in QueryOps(k)
  BY <1>0 DEF RunSteps, JobRead, CallInv
<1>2. PICK f \in op[w].found : loop'[l].at = "update" /\ loop'[l].copy = f[2]
  BY <1>0, <1>1, ReadEffect
<1>3. LoopAlone(l, w) /\ Runs(l, k) /\ Runs(l, k)' /\ Reads(l, k) /\ op'[w] = DB!NoOp
  BY <1>1, <1>2, RunStepShape DEF Runs, Reads, RunStage, LoopAlone
<1>4. /\ ~ Upserts(w, k)' /\ op'[w].stage # "removed"
      /\ \A x \in Workers : Upserts(x, k)' => Upserts(x, k) /\ op'[x] = op[x]
  BY <1>3 DEF Upserts, UpsertStage, OpsBut, LoopAlone, DB!NoOp
<1>5. \A x \in Workers : ~ Upserts(x, k)'
  BY <1>3, <1>4 DEF JobOf, RunOf
<1>6. LogBy(l, k)'
  BY <1>0, <1>1, <1>2, <1>3 DEF JobOf, LogOf, LogBy, LoopAlone
<1>7. val[k] # NoJob => Near(val[k], k)'
  BY <1>1, <1>3 DEF JobOf, LogOf, Near, LoopAlone
<1>8. QED BY <1>0, <1>1, <1>3, <1>4, <1>5, <1>6, <1>7, RunStepShape, RunRule

(* What it is to store is the record with one more chunk, or completed.    *)
LEMMA UpsertJobKeeps ==
    ASSUME TypeInv, CallInv, NEW l \in Loops, NEW w \in Workers, NEW k \in Jobs, k = loop[l].job,
           JobOf(k), Observe, UpsertJob(l, w)
    PROVE  JobOf(k)'
<1> DEFINE r == loop[l].copy
           s == Updated(l)
<1>1. /\ RunSteps(l, w) /\ loop[l].at = "update" /\ call'[l] = w /\ written' = written
      /\ loop'[l].at = "upsert" /\ loop'[l].doing = loop[l].doing
      /\ loop[l].doing \in {"append", "publish"} /\ r \in JobsNamed(k)
  BY FedEffect, HoldShape DEF RunSteps, UpsertJob, Fed, Called, TypeInv, Threads, LoopStages
<1>2. LoopAlone(l, w) /\ Runs(l, k) /\ Runs(l, k)' /\ Reads(l, k) /\ ~ Reads(l, k)'
  BY <1>1, RunStepShape DEF Runs, Reads, RunStage, LoopAlone
<1>3. r = val[k] /\ val[k] # NoJob /\ r.cli_output = written[k] /\ r.status # "completed"
  BY <1>1, <1>2, JobShape DEF JobOf, LogOf, LogBy
<1>4. /\ s \in JobsNamed(k) /\ s \in Later(val[k])
      /\ loop[l].doing = "append" =>
            s.cli_output = Append(written[k], l) /\ s.status # "completed"
      /\ loop[l].doing = "publish" => s.cli_output = written[k]
  BY <1>1, <1>3, UpdatedShape, UpdatedLater
<1> HIDE DEF r, s
<1>5. OpsBut(w) /\ op[w] = DB!NoOp /\ op'[w].stage = "begun" /\ op'[w].payload = s
  BY <1>4, CallEffect DEF UpsertJob, s
<1>6. \A x \in Workers : Upserts(x, k)' => x = w
  BY <1>2, <1>5 DEF JobOf, RunOf, Upserts, OpsBut
<1>7. LogBy(l, k)'
  BY <1>1, <1>2, <1>4, <1>5 DEF LogBy
<1>8. val[k] # NoJob => Near(val[k], k)'
  BY <1>1, <1>2 DEF JobOf, LogOf, Near, LoopAlone
<1>9. \A x \in Workers : Upserts(x, k)' => Near(op[x].payload, k)'
  BY <1>1, <1>4, <1>5, <1>6 DEF Near
<1>10. QED BY <1>1, <1>2, <1>3, <1>4, <1>5, <1>6, <1>7, <1>8, <1>9, RunStepShape, RunRule

(* The chunk that was stored is in the record, and in the log.             *)
LEMMA ChunkStoredKeeps ==
    ASSUME TypeInv, CallInv, NEW l \in Loops, NEW k \in Jobs, k = loop[l].job,
           JobOf(k), Observe, ChunkStored(l)
    PROVE  JobOf(k)'
<1>0. PICK w \in Workers : call[l] = w
  BY DEF CallInv, TypeInv, Threads, ChunkStored
<1>1. /\ RunSteps(l, w) /\ loop[l].at = "upsert" /\ loop[l].doing = "append"
      /\ written'[k] = Append(written[k], l)
      /\ op[w].stage = "ok" /\ op[w] \in UpsertOps(k) /\ loop'[l].at = "docker"
  BY <1>0, FedEffect DEF RunSteps, ChunkStored, CallInv, TypeInv, Fed
<1>2. /\ LoopAlone(l, w) /\ Runs(l, k) /\ Runs(l, k)' /\ op'[w] = DB!NoOp /\ Upserts(w, k)
  BY <1>1, RunStepShape, UpsertShape DEF Runs, RunStage, LoopAlone, Upserts
<1>3. /\ ~ Upserts(w, k)' /\ op'[w].stage # "removed"
      /\ \A x \in Workers : Upserts(x, k)' => Upserts(x, k) /\ op'[x] = op[x]
  BY <1>2 DEF Upserts, UpsertStage, OpsBut, LoopAlone, DB!NoOp
<1>4. \A x \in Workers : ~ Upserts(x, k)'
  BY <1>2, <1>3 DEF JobOf, RunOf
<1>5. val[k].cli_output = written'[k] /\ val[k].status # "completed"
  BY <1>0, <1>1, <1>2 DEF JobOf, LogOf, LogBy, UpsertOf
<1>6. LogBy(l, k)'
  BY <1>1, <1>2, <1>5 DEF LogBy, LoopAlone
<1>7. val[k] # NoJob => Near(val[k], k)'
  BY <1>2, <1>5 DEF Near, LoopAlone
<1>8. QED BY <1>0, <1>1, <1>2, <1>3, <1>4, <1>6, <1>7, RunStepShape, RunRule

\* A step of database-service for w.
StoreStep(w) ==
    /\ UNCHANGED <<call, tasks, webVars, loopVars, torn>>
    /\ DOMAIN op' = Workers
    /\ \A x \in Workers \ {w} : op'[x] = op[x]

(* The record is removed and put while nobody is about to replace it.      *)
LEMMA WritesKeeps ==
    ASSUME TypeInv, CallInv, NEW w \in Workers, NEW k \in Jobs, k = op[w].key,
           JobOf(k), Observe, StoreStep(w), Writes(w)
    PROVE  JobOf(k)'
<1>1. /\ UNCHANGED <<call, tasks, upload, shown, loop, dirs, written, torn>>
      /\ DOMAIN val = Jobs
  BY DEF StoreStep, webVars, loopVars, TypeInv
<1>2. /\ op[w] \in UpsertOps(k) /\ op'[w] \in UpsertOps(k) /\ op'[w].payload = op[w].payload
      /\ Upserts(w, k) /\ Upserts(w, k)' /\ op[w].payload \in JobsNamed(k)
      /\ op[w].payload # NoJob
  BY UpsertShape, JobShape DEF Writes, Upserts
<1>3. /\ \A x \in Workers : Upserts(x, k)' =>
            Upserts(x, k) /\ x = w /\ op'[x].payload = op[x].payload
      /\ \A x \in Workers : Upserts(x, k) => x = w
      /\ \A l \in Loops : ~ Reads(l, k)
  BY <1>2 DEF JobOf, RunOf, StoreStep, Upserts
<1>4. /\ val'[k] \in {val[k], NoJob, op[w].payload}
      /\ op'[w].stage = "failed" => val'[k] = val[k] /\ op[w].stage = "begun"
      /\ op'[w].stage = "removed" => val'[k] = NoJob
      /\ op'[w].stage = "ok" => val'[k] = op[w].payload /\ op[w].stage = "removed"
      /\ op'[w].stage \in {"failed", "removed", "ok"}
  BY <1>1, <1>2 DEF Writes
<1>5. \A l \in Loops :
        /\ Holds(l, k)' <=> Holds(l, k)
        /\ Runs(l, k)' <=> Runs(l, k)
        /\ Reads(l, k)' <=> Reads(l, k)
  BY <1>1 DEF Holds, Runs, Reads
<1>6. PhaseOf(k)'
  <2>1. /\ upload[k] \notin {"new", "putting"}
        /\ k \notin dirs => tasks[k] = "none" /\ op[w].payload = NewJob(k)
    BY <1>2 DEF JobOf, PhaseOf
  <2>2. QED BY <1>1, <1>3, <1>4, <1>5, <2>1 DEF JobOf, PhaseOf, NewJob
<1>7. RunOf(k)'
  BY <1>1, <1>3, <1>5 DEF JobOf, RunOf
<1>8. op[w].payload \in Later(op[w].payload)
  BY <1>2, LaterRefl
<1>9. UpsertOf(k)'
  <2>1. val'[k] # NoJob => op[w].payload \in Later(val'[k])
    BY <1>2, <1>4, <1>8 DEF JobOf, UpsertOf
  <2>2. QED BY <1>2, <1>3, <1>4, <2>1 DEF UpsertOf, Later
<1>10. LogOf(k)'
  <2>1. ASSUME NEW l \in Loops PROVE LogBy(l, k)'
    <3>1. op'[call[l]].payload = op[call[l]].payload \/ ~ (Runs(l, k) /\ loop[l].at = "upsert")
      <4>1. Runs(l, k) /\ loop[l].at = "upsert" =>
                call[l] \in Workers /\ op[call[l]] \in UpsertOps(k)
        BY DEF CallInv, Runs, TypeInv, Threads
      <4>2. QED BY <1>2, <4>1 DEF StoreStep
    <3>2. QED BY <1>1, <1>3, <1>5, <3>1 DEF JobOf, LogOf, LogBy
  <2>2. Near(op[w].payload, k) /\ (val'[k] # NoJob => Near(val'[k], k))
    BY <1>2, <1>4 DEF JobOf, LogOf
  <2>3. QED BY <1>1, <1>2, <1>3, <2>1, <2>2 DEF LogOf, Near
<1>11. PageOf(k)'
  <2>1. ASSUME NEW r, Follow(r, k)
        PROVE  /\ val'[k] # NoJob => val'[k] \in Later(r)
               /\ \A x \in Workers : Upserts(x, k)' => op'[x].payload \in Later(r)
    BY <1>2, <1>3, <1>4, <2>1 DEF Follow
  <2>2. upload[k] = "viewing" => op'[call[k]] = op[call[k]]
    <3>1. upload[k] = "viewing" => call[k] \in Workers /\ op[call[k]] \in QueryOps(k)
      BY DEF CallInv, TypeInv, Threads
    <3>2. op[w] \notin QueryOps(k)
      BY <1>2, UpsertShape, QueryShape
    <3>3. QED BY <3>1, <3>2 DEF StoreStep
  <2>3. shown[k] # NoJob => Follow(shown[k], k)'
    BY <1>1, <2>1 DEF JobOf, PageOf, Follow
  <2>4. upload[k] = "viewing" => \A f \in op[call[k]].found :
            /\ shown[k] # NoJob => f[2] \in Later(shown[k])
            /\ val'[k] # NoJob => val'[k] \in Later(f[2])
            /\ \A x \in Workers : Upserts(x, k)' => op'[x].payload \in Later(f[2])
    BY <2>1 DEF JobOf, PageOf
  <2>5. QED BY <1>1, <2>2, <2>3, <2>4 DEF PageOf, Follow, Later
<1>12. FoundOf(k)'
  <2>1. op'[w].stage = "removed" => k \in Away'
    BY <1>2 DEF Away, Upserts
  <2>2. op[w].stage = "removed" => k \in Away
    BY <1>2 DEF Away, Upserts
  <2>3. op'[w].stage = "failed" => (k \in Away' <=> k \in Away)
    BY <1>1, <1>4 DEF Away, StoreStep
  <2>4. op'[w].stage = "failed" => op'[call[k]] = op[call[k]] \/ upload[k] # "viewing"
    <3>1. upload[k] = "viewing" => call[k] \in Workers /\ op[call[k]] \in QueryOps(k)
      BY DEF CallInv, TypeInv, Threads
    <3>2. op[w] \notin QueryOps(k)
      BY <1>2, UpsertShape, QueryShape
    <3>3. QED BY <3>1, <3>2 DEF StoreStep
  <2>5. upload[k] = "viewing" /\ op'[w].stage # "failed" => hidden'[k]
    BY <1>1, <1>4, <2>1, <2>2 DEF Observe, JobOf, FoundOf
  <2>6. CASE op'[w].stage = "failed"
    BY <1>1, <1>4, <2>3, <2>4, <2>6 DEF JobOf, FoundOf, Observe
  <2>7. CASE op'[w].stage # "failed"
    BY <1>1, <1>2, <1>4, <2>1, <2>5, <2>7 DEF FoundOf
  <2>8. QED BY <2>6, <2>7
<1>13. QED BY <1>6, <1>7, <1>9, <1>10, <1>11, <1>12 DEF JobOf

(* What a query finds is the record.                                       *)
LEMMA LooksKeeps ==
    ASSUME TypeInv, CallInv, NEW w \in Workers, NEW k \in Jobs, k = op[w].query,
           JobOf(k), Observe, StoreStep(w), Looks(w)
    PROVE  JobOf(k)'
<1>1. UNCHANGED <<val, call, tasks, upload, shown, loop, dirs, written, torn>>
  BY DEF StoreStep, webVars, loopVars, Looks
<1>2. op[w] \in QueryOps(k) /\ op'[w] \in QueryOps(k) /\ ~ Upserts(w, k) /\ ~ Upserts(w, k)'
  BY QueryShape DEF Looks, Upserts
<1>3. \A x \in Workers :
        (Upserts(x, k)' <=> Upserts(x, k)) /\ (Upserts(x, k) => op'[x] = op[x])
  BY <1>2 DEF StoreStep, Upserts
<1>4. \A l \in Loops :
        /\ Holds(l, k)' <=> Holds(l, k)
        /\ Runs(l, k)' <=> Runs(l, k)
        /\ Reads(l, k)' <=> Reads(l, k)
  BY <1>1 DEF Holds, Runs, Reads
<1>5. k \in Away' <=> k \in Away
  <2>1. op[w].stage # "removed" /\ op'[w].stage # "removed"
    BY <1>2, QueryShape DEF QueryStage
  <2>2. QED BY <1>1, <2>1 DEF Away, StoreStep
<1>6. \A f \in op'[w].found : f \in op[w].found \/ (val[k] # NoJob /\ f[2] = val[k])
  BY DEF Looks
<1>7. PhaseOf(k)'
  BY <1>1, <1>3, <1>4 DEF JobOf, PhaseOf
<1>8. RunOf(k)'
  BY <1>1, <1>3, <1>4 DEF JobOf, RunOf
<1>9. UpsertOf(k)'
  BY <1>1, <1>3 DEF JobOf, UpsertOf
<1>10. LogOf(k)'
  <2>1. ASSUME NEW l \in Loops PROVE LogBy(l, k)'
    <3>1. Reads(l, k) /\ loop[l].at = "query" =>
            call[l] \in Workers /\ \A f \in op'[call[l]].found : f[2] = val[k]
      <4>1. loop[l].at = "query" => call[l] \in Workers
        BY DEF CallInv, TypeInv, Threads
      <4>2. QED BY <1>6, <4>1 DEF JobOf, LogOf, LogBy, StoreStep
    <3>2. Runs(l, k) /\ loop[l].at = "upsert" => op'[call[l]] = op[call[l]]
      <4>1. Runs(l, k) /\ loop[l].at = "upsert" =>
                call[l] \in Workers /\ op[call[l]] \in UpsertOps(k)
        BY DEF CallInv, Runs, TypeInv, Threads
      <4>2. op[w] \notin UpsertOps(k)
        BY <1>2, UpsertShape, QueryShape
      <4>3. QED BY <4>1, <4>2 DEF StoreStep
    <3>3. QED BY <1>1, <1>4, <3>1, <3>2 DEF JobOf, LogOf, LogBy
  <2>2. QED BY <1>1, <1>3, <2>1 DEF JobOf, LogOf, Near
<1>11. upload[k] = "viewing" => call[k] \in Workers
  BY DEF CallInv, TypeInv, Threads
<1>12. PageOf(k)'
  <2>1. val[k] # NoJob => Follow(val[k], k)
    BY LaterRefl DEF Follow, JobOf, UpsertOf, TypeInv
  <2>2. upload[k] = "viewing" => \A f \in op'[call[k]].found :
            f \in op[call[k]].found \/ (val[k] # NoJob /\ f[2] = val[k])
    BY <1>6, <1>11 DEF StoreStep
  <2>3. upload[k] = "viewing" => \A f \in op'[call[k]].found :
            (shown[k] # NoJob => f[2] \in Later(shown[k])) /\ Follow(f[2], k)
    BY <2>1, <2>2 DEF JobOf, PageOf, Follow
  <2>4. QED BY <1>1, <1>3, <2>3 DEF JobOf, PageOf, Follow, Later
<1>13. FoundOf(k)'
  <2>1. CASE upload[k] = "viewing" /\ ~ hidden'[k]
    <3>1. ~ hidden[k] /\ k \notin Away /\ val[k] # NoJob
      BY <1>1, <1>5, <2>1 DEF JobOf, FoundOf, Observe
    <3>2. CASE call[k] = w
      <4>1. /\ op[w].stage = "read" => k \in op[w].todo \/ op[w].found # {}
        BY <2>1, <3>1, <3>2 DEF JobOf, FoundOf
      <4>2. /\ op'[w].stage = "read" => k \in op'[w].todo \/ op'[w].found # {}
            /\ op'[w].stage = "answer" => op'[w].found # {}
        BY <3>1, <4>1 DEF Looks
      <4>3. QED BY <1>1, <1>5, <3>1, <3>2, <4>2 DEF FoundOf
    <3>3. CASE call[k] # w
      BY <1>1, <1>5, <1>11, <2>1, <3>1, <3>3 DEF JobOf, FoundOf, StoreStep
    <3>4. QED BY <3>2, <3>3
  <2>2. CASE ~ (upload[k] = "viewing" /\ ~ hidden'[k])
    BY <1>1, <1>5, <2>2 DEF JobOf, FoundOf
  <2>3. QED BY <2>1, <2>2
<1>14. QED BY <1>7, <1>8, <1>9, <1>10, <1>12, <1>13 DEF JobOf

-----------------------------------------------------------------------------
(* All steps *)

(* Every step keeps what is known of every job.                            *)
LEMMA JobsKept ==
    ASSUME TypeInv, CallInv, JobsInv, [Next]_vars
    PROVE  JobsInv'
<1>1. SUFFICES ASSUME NEW k \in Jobs PROVE JobOf(k)'
  BY DEF JobsInv
<1>2. JobOf(k) /\ PhaseOf(k)
  BY DEF JobsInv, JobOf
<1>3. ASSUME Observe, NEW j \in Jobs, WebStep(j) PROVE JobOf(k)'
  <2>1. CASE k # j
    BY <1>2, <1>3, <2>1, WebQuiet, NothingNewKept
  <2>2. CASE k = j /\ (PutBlob(j) \/ Enqueued(j) \/ Redirect(j) \/ UploadFails(j) \/ PageFails(j))
    BY <1>2, <1>3, <2>2, OwnWebQuiet, NothingNewKept
  <2>3. QED
    BY <1>2, <1>3, <2>1, <2>2, StoreJobKeeps, JobStoredKeeps, GetJobPageKeeps, ShowJobKeeps
    DEF WebStep
<1>4. ASSUME Observe, NEW l \in Loops, LoopStep(l) PROVE JobOf(k)'
  <2>1. CASE \/ \E j \in Jobs : FindTask(l, j)
             \/ DispatchTask(l) \/ LoopEnds(l) \/ GetBlobBytes(l)
             \/ TranscribeFails(l) \/ JobPublished(l)
    BY <1>2, <1>4, <2>1, GivenQuiet, NothingNewKept
  <2>2. CASE \/ MakeWorkDir(l) \/ JobRead(l) \/ ChunkStored(l)
             \/ \E w \in Workers :
                    \/ \E what \in {"append", "publish"} : ReadJob(l, w, what)
                    \/ UpsertJob(l, w)
    <3>1. CASE k # loop[l].job
      BY <1>2, <1>4, <2>2, <3>1, OtherQuiet, NothingNewKept
    <3>2. CASE k = loop[l].job
      BY <1>2, <1>4, <2>2, <3>2, MakeWorkDirKeeps, ReadJobKeeps, JobReadKeeps, UpsertJobKeeps,
         ChunkStoredKeeps
    <3>3. QED BY <3>1, <3>2
  <2>3. QED BY <1>4, <2>1, <2>2 DEF LoopStep
<1>5. ASSUME Observe, DatabaseStep PROVE JobOf(k)'
  <2>1. PICK w \in Workers : StoreStep(w) /\ (Writes(w) \/ Looks(w))
    BY <1>5, DatabaseEffect DEF DatabaseStep, StoreStep
  <2>2. CASE (Writes(w) /\ op[w].key = k) \/ (Looks(w) /\ op[w].query = k)
    BY <1>2, <1>5, <2>1, <2>2, WritesKeeps, LooksKeeps
  <2>3. CASE (Writes(w) /\ op[w].key # k) \/ (Looks(w) /\ op[w].query # k)
    <3>1. NothingNew(k)
      BY <1>2, <2>1, <2>3, StoreQuiet DEF StoreStep
    <3>2. QED BY <1>2, <1>5, <3>1, NothingNewKept
  <2>4. QED BY <2>1, <2>2, <2>3
<1>6. ASSUME Observe, NEW w \in Workers, Unheard(w) PROVE JobOf(k)'
  BY <1>2, <1>6, StoreQuiet, NothingNewKept
<1>7. ASSUME Observe, DatabaseCrash PROVE JobOf(k)'
  BY <1>2, <1>7, CrashQuiet, NothingNewKept
<1>8. ASSUME UNCHANGED vars PROVE JobOf(k)'
  <2>1. UNCHANGED <<val, op, call, tasks, upload, shown, loop, dirs, written, hidden, torn>>
    BY <1>8 DEF vars, stores, webVars, loopVars
  <2>2. PhaseOf(k)' /\ RunOf(k)' /\ UpsertOf(k)'
    BY <1>2, <2>1 DEF JobOf, PhaseOf, RunOf, UpsertOf, Upserts, Holds, Runs, Reads, NewJob, Later
  <2>3. LogOf(k)'
    BY <1>2, <2>1 DEF JobOf, LogOf, LogBy, Near, Upserts, Runs, Reads
  <2>4. PageOf(k)'
    BY <1>2, <2>1 DEF JobOf, PageOf, Follow, Upserts, Later
  <2>5. FoundOf(k)'
    BY <1>2, <2>1 DEF JobOf, FoundOf, Away
  <2>6. QED BY <2>2, <2>3, <2>4, <2>5 DEF JobOf
<1>9. QED BY <1>3, <1>4, <1>5, <1>6, <1>7, <1>8 DEF Next

-----------------------------------------------------------------------------
(* Where an upsert, a record and the stage of a loop come from *)

(* An upsert in progress was so before, or has just begun.                 *)
LEMMA UpsertCause ==
    ASSUME TypeInv, CallInv, Next, NEW j \in Jobs, NEW w \in Workers, Upserts(w, j)'
    PROVE  \/ Upserts(w, j) /\ op'[w].payload = op[w].payload
           \/ StoreJob(j, w) /\ op'[w].payload = NewJob(j)
           \/ \E l \in Loops :
                UpsertJob(l, w) /\ loop[l].job = j /\ op'[w].payload = Updated(l)
<1>0. UpsertStage(op'[w].stage) /\ op'[w].key = j /\ op'[w] # DB!NoOp
  BY DEF Upserts, UpsertStage, DB!NoOp
<1>1. CASE op'[w] = op[w]
  BY <1>0, <1>1 DEF Upserts
<1>2. ASSUME NEW x \in Workers, OpsBut(x), op'[x] = DB!NoOp
      PROVE  op'[w] = op[w]
  BY <1>0, <1>2 DEF OpsBut
<1>3. ASSUME NEW x \in Workers, NEW k \in Jobs, OpsBut(x), op'[x] \in QueryOps(k)
      PROVE  op'[w] = op[w]
  BY <1>0, <1>3, QueryShape DEF OpsBut
<1>4. ASSUME NEW k \in Jobs, WebStep(k), op'[w] # op[w]
      PROVE  StoreJob(j, w) /\ op'[w].payload = NewJob(j)
  <2>1. ASSUME NEW x \in Workers, StoreJob(k, x)
        PROVE  x = w /\ k = j /\ op'[w].payload = NewJob(j)
    <3>1. OpsBut(x) /\ op'[x] \in UpsertOps(k) /\ op'[x].payload = NewJob(k)
      BY <2>1, CallEffect, NewJobShape DEF StoreJob
    <3>2. QED BY <1>0, <1>4, <3>1, UpsertShape DEF OpsBut
  <2>2. ASSUME NEW x \in Workers, GetJobPage(k, x) PROVE FALSE
    BY <1>3, <1>4, <2>2, CallEffect DEF GetJobPage
  <2>3. ~ JobStored(k) /\ ~ ShowJob(k)
    <3>1. SUFFICES ASSUME JobStored(k) \/ ShowJob(k) PROVE FALSE
      OBVIOUS
    <3>2. call[k] \in Workers
      BY <3>1 DEF CallInv, TypeInv, Threads, JobStored, ShowJob
    <3>3. QED BY <1>2, <1>4, <3>1, <3>2, CallEffect DEF JobStored, ShowJob
  <2>4. QED
    BY <1>4, <2>1, <2>2, <2>3
    DEF WebStep, PutBlob, Enqueued, Redirect, UploadFails, PageFails, stores
<1>5. ASSUME NEW l \in Loops, LoopStep(l), op'[w] # op[w]
      PROVE  UpsertJob(l, w) /\ loop[l].job = j /\ op'[w].payload = Updated(l)
  <2>0. loop[l].at \in LoopStages => loop[l].job \in Jobs
    BY HoldShape
  <2>1. ASSUME NEW x \in Workers, UpsertJob(l, x)
        PROVE  x = w /\ loop[l].job = j /\ op'[w].payload = Updated(l)
    <3>1. /\ OpsBut(x) /\ op'[x] \in UpsertOps(loop[l].job) /\ op'[x].payload = Updated(l)
          /\ loop[l].job \in Jobs
      BY <2>0, <2>1, CallEffect, UpdatedShape DEF UpsertJob, LoopStages
    <3>2. QED BY <1>0, <1>5, <3>1, UpsertShape DEF OpsBut
  <2>2. ASSUME NEW x \in Workers, NEW what \in {"append", "publish"}, ReadJob(l, x, what)
        PROVE  FALSE
    BY <1>3, <1>5, <2>0, <2>2, CallEffect DEF ReadJob, LoopStages
  <2>3. ~ JobRead(l) /\ ~ ChunkStored(l) /\ ~ JobPublished(l)
    <3>1. SUFFICES ASSUME JobRead(l) \/ ChunkStored(l) \/ JobPublished(l) PROVE FALSE
      OBVIOUS
    <3>2. call[l] \in Workers
      BY <3>1 DEF CallInv, TypeInv, Threads, JobRead, ChunkStored, JobPublished
    <3>3. QED BY <1>2, <1>5, <3>1, <3>2, CallEffect DEF JobRead, ChunkStored, JobPublished
  <2>4. QED
    BY <1>5, <2>1, <2>2, <2>3
    DEF LoopStep, FindTask, DispatchTask, LoopEnds, GetBlobBytes, MakeWorkDir, TranscribeFails,
        stores
<1>6. CASE DatabaseStep
  <2>1. PICK x \in Workers :
            /\ \A y \in Workers \ {x} : op'[y] = op[y]
            /\ Writes(x) \/ Looks(x)
    BY <1>6, DatabaseEffect DEF DatabaseStep
  <2>2. CASE Looks(x)
    BY <1>0, <1>1, <2>1, <2>2, QueryShape DEF Looks
  <2>3. CASE Writes(x)
    BY <1>0, <1>1, <2>1, <2>3, UpsertShape DEF Writes, Upserts
  <2>4. QED BY <2>1, <2>2, <2>3
<1>7. ASSUME NEW x \in Workers, Unheard(x) PROVE op'[w] = op[w]
  BY <1>2, <1>7, CallEffect DEF Unheard
<1>8. ~ DatabaseCrash
  BY <1>0 DEF DatabaseCrash, DB!Crash
<1>9. QED BY <1>1, <1>4, <1>5, <1>6, <1>7, <1>8 DEF Next

(* A record changes to nothing, or to what an upsert brings.               *)
LEMMA RecordCause ==
    ASSUME TypeInv, CallInv, Next, NEW j \in Jobs
    PROVE  \/ val'[j] \in {val[j], NoJob}
           \/ \E w \in Workers : Upserts(w, j) /\ val'[j] = op[w].payload
<1>1. CASE DatabaseStep
  <2>1. PICK w \in Workers : Writes(w) \/ Looks(w)
    BY <1>1, DatabaseEffect DEF DatabaseStep
  <2>2. QED BY <2>1, UpsertShape DEF Writes, Looks, Upserts, TypeInv
<1>2. CASE ~ DatabaseStep
  <2>1. val' = val
    BY <1>2
    DEF Next, WebStep, PutBlob, StoreJob, JobStored, Enqueued, Redirect, UploadFails, GetJobPage,
        ShowJob, PageFails, LoopStep, FindTask, DispatchTask, LoopEnds, GetBlobBytes, MakeWorkDir,
        ReadJob, JobRead, UpsertJob, ChunkStored, JobPublished, TranscribeFails, Unheard,
        DatabaseCrash, stores, DB!BeginUpsert, DB!EndUpsert, DB!BeginQuery, DB!EndQuery, DB!Crash
  <2>2. QED BY <2>1
<1>3. QED BY <1>1, <1>2

(* How a loop has got where it is.                                         *)
LEMMA StageCause ==
    ASSUME TypeInv, CallInv, Next, NEW l \in Loops, loop'[l].at \in LoopStages \ {"found"}
    PROVE  \/ loop'[l] = loop[l]
           \/ loop'[l].at = "fetch" /\ l \in deployment.transcribers
           \/ /\ GetBlobBytes(l) /\ loop'[l].input = audio
              /\ loop[l].at \in LoopStages /\ loop'[l].job = loop[l].job
           \/ /\ loop[l].at \in LoopStages \ {"found", "fetch"}
              /\ loop'[l].job = loop[l].job /\ loop'[l].input = loop[l].input
<1>1. ASSUME LoopStep(l)
      PROVE  \/ loop'[l].at = "fetch" /\ l \in deployment.transcribers
             \/ /\ GetBlobBytes(l) /\ loop'[l].input = audio
                /\ loop[l].at \in LoopStages /\ loop'[l].job = loop[l].job
             \/ /\ loop[l].at \in LoopStages \ {"found", "fetch"}
                /\ loop'[l].job = loop[l].job /\ loop'[l].input = loop[l].input
  <2>1. ~ Freed(l) /\ \A j \in Jobs : ~ FindTask(l, j)
    BY FreeEffect DEF Freed, Given, FreeLoops, LoopStages
  <2>2. JobRead(l) => op[call[l]] \in QueryOps(loop[l].job)
    BY DEF CallInv, JobRead
  <2>3. CASE DispatchTask(l)
    BY <2>1, <2>3, FreeEffect DEF Given
  <2>4. CASE GetBlobBytes(l)
    BY <2>4, FedEffect DEF Fed, GetBlobBytes, LoopStages
  <2>5. CASE JobRead(l)
    BY <2>2, <2>5, ReadEffect DEF JobRead, LoopStages
  <2>6. CASE \/ MakeWorkDir(l) \/ ChunkStored(l)
             \/ \E w \in Workers :
                    \/ \E what \in {"append", "publish"} : ReadJob(l, w, what)
                    \/ UpsertJob(l, w)
    BY <2>6, FedEffect DEF Fed, MakeWorkDir, ChunkStored, ReadJob, UpsertJob, LoopStages
  <2>7. QED BY <1>1, <2>1, <2>3, <2>4, <2>5, <2>6, FreeEffect DEF LoopStep
<1>2. ASSUME NEW m \in Loops, m # l, LoopStep(m) PROVE loop'[l] = loop[l]
  <2>1. JobRead(m) => op[call[m]] \in QueryOps(loop[m].job)
    BY DEF CallInv, JobRead
  <2>2. LoopBut(m)
    BY <1>2, <2>1, FreeEffect, FedEffect, ReadEffect DEF LoopStep, Freed, Given, Fed
  <2>3. QED BY <1>2, <2>2 DEF LoopBut
<1>3. ASSUME NEW j \in Jobs, WebStep(j) PROVE loop'[l] = loop[l]
  BY <1>3 DEF WebStep, PutBlob, StoreJob, JobStored, Enqueued, Redirect, UploadFails, GetJobPage,
              ShowJob, PageFails, loopVars
<1>4. ASSUME DatabaseStep \/ \E w \in Workers : Unheard(w) PROVE loop'[l] = loop[l]
  BY <1>4 DEF DatabaseStep, Unheard, loopVars
<1>5. ASSUME DatabaseCrash PROVE loop'[l] = loop[l]
  BY <1>5 DEF DatabaseCrash, Idle, LoopStages
<1>6. QED BY <1>1, <1>2, <1>3, <1>4, <1>5 DEF Next

(* How an upload and its task have got where they are.                     *)
LEMMA UploadCause ==
    ASSUME TypeInv, Next, NEW j \in Jobs, PhaseOf(j)
    PROVE  /\ upload'[j] = "new" => upload[j] = "new"
           /\ upload'[j] = "storing" => upload[j] = "storing" \/ \E w \in Workers : StoreJob(j, w)
           /\ tasks'[j] # "none" => tasks[j] # "none" \/ upload[j] = "storing"
<1>0. upload \in [Jobs -> Uploads] /\ tasks \in [Jobs -> {"none", "sent", "pending", "consumed"}]
  BY DEF TypeInv
<1>1. ASSUME NEW k \in Jobs, WebStep(k), k # j
      PROVE  upload'[j] = upload[j] /\ tasks'[j] = tasks[j]
  BY <1>0, <1>1
  DEF WebStep, PutBlob, StoreJob, JobStored, Enqueued, Redirect, UploadFails, GetJobPage, ShowJob,
      PageFails, webVars
<1>2. CASE WebStep(j)
  <2>1. CASE \E w \in Workers : StoreJob(j, w)
    BY <1>0, <2>1 DEF StoreJob
  <2>2. CASE PutBlob(j) \/ Enqueued(j) \/ Redirect(j) \/ UploadFails(j) \/ PageFails(j)
    BY <1>0, <2>2 DEF PutBlob, Enqueued, Redirect, UploadFails, PageFails, webVars
  <2>3. CASE JobStored(j) \/ ShowJob(j) \/ \E w \in Workers : GetJobPage(j, w)
    BY <1>0, <2>3 DEF JobStored, ShowJob, GetJobPage
  <2>4. QED BY <1>2, <2>1, <2>2, <2>3 DEF WebStep
<1>3. ASSUME NEW l \in Loops, LoopStep(l)
      PROVE  upload' = upload /\ (tasks'[j] # "none" => tasks[j] # "none")
  <2>1. upload' = upload
    BY <1>3
    DEF LoopStep, FindTask, DispatchTask, LoopEnds, GetBlobBytes, MakeWorkDir, ReadJob, JobRead,
        UpsertJob, ChunkStored, JobPublished, TranscribeFails, webVars
  <2>2. loop[l].at = "found" /\ loop[l].job = j => tasks[j] # "none"
    BY DEF PhaseOf, Holds, LoopStages
  <2>3. \/ tasks' = tasks
        \/ loop[l].at = "found" /\ tasks' = [tasks EXCEPT ![loop[l].job] = "consumed"]
    BY <1>3
    DEF LoopStep, FindTask, DispatchTask, LoopEnds, GetBlobBytes, MakeWorkDir, ReadJob, JobRead,
        UpsertJob, ChunkStored, JobPublished, TranscribeFails
  <2>4. QED BY <1>0, <2>1, <2>2, <2>3
<1>4. ASSUME DatabaseStep \/ \E w \in Workers : Unheard(w) PROVE UNCHANGED <<upload, tasks>>
  BY <1>4 DEF DatabaseStep, Unheard, webVars
<1>5. ASSUME DatabaseCrash
      PROVE  tasks' = tasks /\ upload'[j] \in {upload[j], "redirected", "failed"}
  BY <1>5 DEF DatabaseCrash
<1>6. QED BY <1>1, <1>2, <1>3, <1>4, <1>5 DEF Next

-----------------------------------------------------------------------------
(* The bytes of the uploads *)

(* Bytes that are too old for a job reach neither a loop nor a record.     *)
LEMMA AudioKept ==
    ASSUME TypeInv, CallInv, JobsInv, AudioInv, Next
    PROVE  AudioInv'
<1>0. /\ upload \in [Jobs -> Uploads] /\ audio \in SUBSET Jobs /\ before \in [Jobs -> SUBSET Jobs]
      /\ tasks \in [Jobs -> {"none", "sent", "pending", "consumed"}]
  BY DEF TypeInv
<1>1. SUFFICES ASSUME NEW j \in Jobs PROVE AudioOf(j)'
  BY DEF AudioInv
<1>2. AudioOf(j) /\ PhaseOf(j) /\ LogOf(j) /\ RunOf(j)
  BY DEF AudioInv, JobsInv, JobOf
<1>3. \A k \in Jobs : upload'[k] = "new" => upload[k] = "new"
  BY UploadCause DEF JobsInv, JobOf
<1>4. CASE PutBlob(j)
  <2>1. /\ upload[j] = "new" /\ upload'[j] = "putting" /\ before'[j] = StoredUploads
        /\ UNCHANGED <<val, op, tasks, loop>>
    BY <1>0, <1>4 DEF PutBlob, stores, loopVars
  <2>2. \A k \in StoredUploads : upload'[k] # "new"
    BY <1>3 DEF StoredUploads
  <2>3. /\ val[j] = NoJob /\ tasks[j] = "none" /\ \A w \in Workers : ~ Upserts(w, j)
        /\ \A l \in Loops : ~ Holds(l, j)
    BY <1>2, <2>1 DEF PhaseOf
  <2>4. QED BY <2>1, <2>2, <2>3 DEF AudioOf, Upserts, Holds
<1>5. CASE ~ PutBlob(j)
  <2>1. before'[j] = before[j]
    BY <1>0, <1>5
    DEF Next, WebStep, PutBlob, StoreJob, JobStored, Enqueued, Redirect, UploadFails, GetJobPage,
        ShowJob, PageFails, LoopStep, FindTask, DispatchTask, LoopEnds, GetBlobBytes, MakeWorkDir,
        ReadJob, JobRead, UpsertJob, ChunkStored, JobPublished, TranscribeFails, Unheard,
        DatabaseStep, DatabaseCrash, webVars
  <2>2. \A k \in audio' : k \in audio \/ upload[k] = "new"
    BY <1>0
    DEF Next, WebStep, PutBlob, StoreJob, JobStored, Enqueued, Redirect, UploadFails, GetJobPage,
        ShowJob, PageFails, LoopStep, FindTask, DispatchTask, LoopEnds, GetBlobBytes, MakeWorkDir,
        ReadJob, JobRead, UpsertJob, ChunkStored, JobPublished, TranscribeFails, Unheard,
        DatabaseStep, DatabaseCrash, webVars
  <2>3. \A k \in before[j] : upload[k] # "new" /\ upload'[k] # "new"
    BY <1>0, <1>2, <1>3 DEF AudioOf
  <2>4. upload'[j] = "storing" \/ tasks'[j] # "none" => audio' \intersect before[j] = {}
    <3>1. CASE \E w \in Workers : StoreJob(j, w)
      BY <3>1 DEF StoreJob
    <3>2. CASE upload[j] = "storing" \/ tasks[j] # "none"
      <4>1. audio \intersect before[j] = {}
        BY <1>2, <3>2 DEF AudioOf
      <4>2. QED BY <2>2, <2>3, <4>1
    <3>3. QED BY <1>2, <3>1, <3>2, UploadCause
  <2>5. val'[j] # NoJob => val'[j].transcript_text \intersect before[j] = {}
    BY <1>2, RecordCause DEF AudioOf
  <2>6. ASSUME NEW w \in Workers, Upserts(w, j)'
        PROVE  op'[w].payload.transcript_text \intersect before[j] = {}
    <3>1. CASE Upserts(w, j) /\ op'[w].payload = op[w].payload
      BY <1>2, <3>1 DEF AudioOf
    <3>2. CASE op'[w].payload = NewJob(j)
      BY <3>2, NewJobShape
    <3>3. ASSUME NEW l \in Loops, UpsertJob(l, w), loop[l].job = j, op'[w].payload = Updated(l)
          PROVE  op'[w].payload.transcript_text \intersect before[j] = {}
      <4>1. loop[l].at = "update" /\ Holds(l, j) /\ Reads(l, j)
        BY <3>3 DEF UpsertJob, Holds, Reads, LoopStages
      <4>2. /\ loop[l].doing \in {"append", "publish"} /\ loop[l].copy \in JobsNamed(j)
        BY <3>3, <4>1, HoldShape DEF Holds
      <4>3. loop[l].copy = val[j] /\ val[j] # NoJob
        BY <1>2, <4>1, <4>2, JobShape DEF LogOf, LogBy
      <4>4. CASE loop[l].doing = "append"
        BY <1>2, <3>3, <4>1, <4>3, <4>4, UpdatedShape DEF AudioOf
      <4>5. CASE loop[l].doing = "publish"
        BY <1>2, <3>3, <4>1, <4>5, UpdatedShape DEF AudioOf
      <4>6. QED BY <4>2, <4>4, <4>5
    <3>4. QED BY <2>6, <3>1, <3>2, <3>3, UpsertCause
  <2>7. ASSUME NEW l \in Loops, Holds(l, j)', loop'[l].at \notin {"found", "fetch"}
        PROVE  loop'[l].input \intersect before[j] = {}
    <3>1. loop'[l].at \in LoopStages \ {"found"} /\ loop'[l].job = j
      BY <2>7 DEF Holds
    <3>2. CASE GetBlobBytes(l) /\ loop'[l].input = audio /\ Holds(l, j)
      BY <1>2, <3>2 DEF AudioOf, PhaseOf
    <3>3. CASE /\ Holds(l, j) /\ loop[l].at \notin {"found", "fetch"}
               /\ loop'[l].input = loop[l].input
      BY <1>2, <3>3 DEF AudioOf
    <3>4. QED BY <2>7, <3>1, <3>2, <3>3, StageCause DEF Holds
  <2>8. QED BY <2>1, <2>3, <2>4, <2>5, <2>6, <2>7 DEF AudioOf
<1>6. QED BY <1>4, <1>5

-----------------------------------------------------------------------------
(* The configuration *)

(* A loop gets as far as the configuration lets it.                        *)
LEMMA DeployKept ==
    ASSUME TypeInv, CallInv, DeployInv, Next
    PROVE  DeployInv'
<1>1. deployment' = deployment
  BY DEF Next, WebStep, PutBlob, StoreJob, JobStored, Enqueued, Redirect, UploadFails, GetJobPage,
         ShowJob, PageFails, LoopStep, FindTask, DispatchTask, LoopEnds, GetBlobBytes, MakeWorkDir,
         ReadJob, JobRead, UpsertJob, ChunkStored, JobPublished, TranscribeFails, Unheard,
         DatabaseStep, DatabaseCrash
<1>2. ASSUME NEW l \in Loops, loop'[l].at \in LoopStages \ {"found"}
      PROVE  /\ l \in deployment.transcribers
             /\ loop'[l].at # "fetch" => deployment.served
  <2>1. CASE GetBlobBytes(l)
    BY <2>1 DEF GetBlobBytes, DeployInv, LoopStages
  <2>2. CASE ~ GetBlobBytes(l)
    BY <1>2, <2>2, StageCause DEF DeployInv
  <2>3. QED BY <2>1, <2>2
<1>3. dirs' = dirs \/ \E l \in Loops : loop[l].at = "mkdir"
  BY DEF Next, WebStep, PutBlob, StoreJob, JobStored, Enqueued, Redirect, UploadFails, GetJobPage,
         ShowJob, PageFails, LoopStep, FindTask, DispatchTask, LoopEnds, GetBlobBytes, MakeWorkDir,
         ReadJob, JobRead, UpsertJob, ChunkStored, JobPublished, TranscribeFails, Unheard,
         DatabaseStep, DatabaseCrash, loopVars
<1>4. dirs' # {} => deployment.transcribers # {} /\ deployment.served
  BY <1>3 DEF DeployInv, LoopStages
<1>5. QED BY <1>1, <1>2, <1>4 DEF DeployInv

-----------------------------------------------------------------------------
(* The invariant, and what follows from it *)

IInv == TypeInv /\ CallInv /\ JobsInv /\ AudioInv /\ DeployInv

(* At the start there is nothing but idle loops and pages yet to upload.   *)
LEMMA InitHolds ==
    ASSUME Init
    PROVE  IInv
<1>1. /\ \A j \in Jobs :
            val[j] = NoJob /\ upload[j] = "new" /\ tasks[j] = "none" /\ shown[j] = NoJob
      /\ \A j \in Jobs : written[j] = <<>> /\ before[j] = {}
      /\ \A w \in Workers : op[w] = DB!NoOp
      /\ \A l \in Loops : loop[l].at = "poll"
      /\ \A a \in Threads : call[a] = NoCall
      /\ dirs = {}
  BY DEF Init, DB!Init, Idle
<1>2. \A w \in Workers, j \in Jobs : ~ Upserts(w, j)
  BY <1>1 DEF Upserts, UpsertStage, DB!NoOp
<1>3. \A l \in Loops, j \in Jobs : ~ Holds(l, j) /\ ~ Runs(l, j) /\ ~ Reads(l, j)
  BY <1>1 DEF Holds, Runs, Reads, RunStage, LoopStages
<1>4. TypeInv
  <2>1. Idle \in FreeLoops
    BY DEF Idle, FreeLoops
  <2>2. <<>> \in Seq(Loops)
    OBVIOUS
  <2>3. QED BY <2>1, <2>2 DEF Init, DB!Init, TypeInv, Uploads
<1>5. CallInv
  BY <1>1 DEF CallInv, Threads
<1>6. JobsInv
  <2>1. ASSUME NEW j \in Jobs PROVE JobOf(j)
    <3>1. PhaseOf(j) /\ RunOf(j) /\ UpsertOf(j)
      BY <1>1, <1>2, <1>3 DEF PhaseOf, RunOf, UpsertOf
    <3>2. LogOf(j)
      BY <1>1, <1>2, <1>3 DEF LogOf, LogBy
    <3>3. PageOf(j) /\ FoundOf(j)
      BY <1>1 DEF PageOf, FoundOf
    <3>4. QED BY <3>1, <3>2, <3>3 DEF JobOf
  <2>2. QED BY <2>1 DEF JobsInv
<1>7. AudioInv
  BY <1>1, <1>2, <1>3 DEF AudioInv, AudioOf
<1>8. DeployInv
  BY <1>1 DEF DeployInv, LoopStages
<1>9. QED BY <1>4, <1>5, <1>6, <1>7, <1>8 DEF IInv

(* The invariant is inductive,                                             *)
LEMMA IInvKept ==
    ASSUME IInv, [Next]_vars
    PROVE  IInv'
<1>1. TypeInv' /\ CallInv' /\ JobsInv'
  BY TypeKept, CallsKept, JobsKept DEF IInv
<1>2. CASE Next
  BY <1>1, <1>2, AudioKept, DeployKept DEF IInv
<1>3. CASE UNCHANGED vars
  <2>1. UNCHANGED <<deployment, val, op, tasks, upload, audio, before, loop, dirs>>
    BY <1>3 DEF vars, stores, webVars, loopVars
  <2>2. AudioInv'
    BY <2>1 DEF IInv, AudioInv, AudioOf, Upserts, Holds
  <2>3. DeployInv'
    BY <2>1 DEF IInv, DeployInv
  <2>4. QED BY <1>1, <2>2, <2>3 DEF IInv
<1>4. QED BY <1>2, <1>3

(* and therefore holds.                                                    *)
LEMMA IInvHolds == Spec => []IInv
BY InitHolds, IInvKept, PTL DEF Spec

(* Every variable keeps its type: records, calls, loops and pages have the *)
(* contents that the code gives them.                                      *)
THEOREM ScribeTypeCorrect == Spec => []TypeInv
<1>1. IInv => TypeInv
  BY DEF IInv
<1>2. QED BY <1>1, IInvHolds, PTL

(* Two loops that were given one task do not run docker for it side by     *)
(* side: fs::mkdir fails for the second.                                   *)
THEOREM OneRunPerJobHolds == Spec => []OneRunPerJob
<1>1. IInv => OneRunPerJob
  <2>1. SUFFICES ASSUME IInv, NEW l \in Loops, NEW m \in Loops,
                        RunStage(loop[l].at), RunStage(loop[m].at), loop[l].job = loop[m].job
                 PROVE  l = m
    BY DEF OneRunPerJob, RunStage
  <2>2. loop[l].job \in Jobs
    BY <2>1, HoldShape DEF IInv, RunStage, LoopStages
  <2>3. QED BY <2>1, <2>2 DEF IInv, JobsInv, JobOf, RunOf, Runs
<1>2. QED BY <1>1, IInvHolds, PTL

(* The record of a job has every chunk of its log that AppendJobLogChunk   *)
(* has stored, in order, and at most one more.                             *)
THEOREM LogIsWholeHolds == Spec => []LogIsWhole
<1>1. IInv => LogIsWhole
  <2>1. SUFFICES ASSUME IInv, NEW j \in Jobs, val[j] # NoJob
                 PROVE  /\ IsPrefix(written[j], val[j].cli_output)
                        /\ Len(val[j].cli_output) <= Len(written[j]) + 1
    BY DEF LogIsWhole
  <2>2. written[j] \in Seq(Loops)
    BY <2>1 DEF IInv, TypeInv
  <2>3. Near(val[j], j)
    BY <2>1 DEF IInv, JobsInv, JobOf, LogOf
  <2>4. CASE val[j].cli_output = written[j]
    BY <2>2, <2>4 DEF IsPrefix
  <2>5. ASSUME NEW l \in Loops, val[j].cli_output = Append(written[j], l)
        PROVE  /\ IsPrefix(written[j], val[j].cli_output)
               /\ Len(val[j].cli_output) <= Len(written[j]) + 1
    BY <2>2, <2>5 DEF IsPrefix
  <2>6. QED BY <2>3, <2>4, <2>5 DEF Near
<1>2. QED BY <1>1, IInvHolds, PTL

(* The page of a job never goes back, whatever upserts and queries were    *)
(* given up and are still to come.                                         *)
THEOREM PageGoesForwardHolds == Spec => []PageGoesForward
<1>1. IInv => PageGoesForward
  BY DEF IInv, JobsInv, JobOf, PageOf, PageGoesForward
<1>2. QED BY <1>1, IInvHolds, PTL

(* The page says that there is no such job only when its record was away.  *)
THEOREM JobIsFoundHolds == Spec => []JobIsFound
<1>1. IInv => JobIsFound
  BY DEF IInv, JobsInv, JobOf, FoundOf, JobIsFound
<1>2. QED BY <1>1, IInvHolds, PTL

(* A job does not get the transcript of audio that was stored before its   *)
(* own upload began, though all uploads are stored under one uuid.         *)
THEOREM AudioNotOlderHolds == Spec => []AudioNotOlder
<1>1. IInv => AudioNotOlder
  BY DEF IInv, AudioInv, AudioOf, AudioNotOlder
<1>2. QED BY <1>1, IInvHolds, PTL

(* Without a loop that knows the task, or without the route that           *)
(* GetBlobBytes posts to, no job leaves the state "pending".               *)
THEOREM NothingTranscribedHolds == Spec => []NothingTranscribed
<1>1. IInv => NothingTranscribed
  <2>1. SUFFICES ASSUME IInv, deployment.transcribers = {} \/ ~ deployment.served,
                        NEW j \in Jobs, val[j] # NoJob
                 PROVE  val[j].status = "pending"
    BY DEF NothingTranscribed
  <2>2. j \notin dirs
    BY <2>1 DEF IInv, DeployInv
  <2>3. val[j] = NewJob(j)
    BY <2>1, <2>2 DEF IInv, JobsInv, JobOf, PhaseOf
  <2>4. QED BY <2>3, NewJobShape
<1>2. QED BY <1>1, IInvHolds, PTL
=============================================================================
