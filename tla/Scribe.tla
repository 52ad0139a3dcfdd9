-------------------------------- MODULE Scribe --------------------------------
(***************************************************************************)
(* scribe-service and scribe-worker: audio is uploaded, a task is queued   *)
(* for it, and a worker transcribes it and keeps the record of the job in  *)
(* the collection "scribe-jobs", which the page of the job shows.          *)
(*                                                                         *)
(* Every thread of the two calls database-service, which is a RecordStore  *)
(* here.  What the proofs of MessageQueue leave open of the queue is open  *)
(* here as well: loops whose polls overlap may receive the same task, and  *)
(* a task may be consumed and received by nobody.  blob-service is the set *)
(* of the uploads that a reader may still get bytes of.                    *)
(***************************************************************************)
EXTENDS Naturals, Sequences, SequencesExt

CONSTANTS
    Jobs,         \* the uploads, each with the job_id that was generated for it
    Loops,        \* the loops of RunWorker that poll for the tasks of uploads
    Workers,      \* worker threads of database-service
    Queued,       \* bound: the uploads whose task message-queue stores
    MaxLines,     \* bound: lines that one run of docker prints
    Deployments,  \* the configurations to look at
    DatabaseDies, \* whether database-service may crash
    NoJob,        \* no record
    NoCall        \* no call to database-service in progress

ASSUME ScribeAssumption ==
    /\ Jobs \intersect Loops = {}
    /\ NoCall \notin Workers
    /\ NoJob \notin [job_id : Jobs, status : {"pending", "running", "completed"},
                    cli_output : Seq(Loops), transcript_text : SUBSET Jobs]

VARIABLES
    deployment, \* which loops know the task, whether GetBlobBytes has its route
    val, op,    \* database-service: RecordStore
    call,       \* call[a]: the worker of database-service that serves a
    upload,     \* upload[j]: where PostUpload is, then the page of the job
    audio,      \* the uploads whose bytes the one blob may consist of
    tasks,      \* tasks[j]: where the task of job j is
    loop,       \* loop[l]: where RunWorker or RunTranscribeAudio is
    dirs,       \* the jobs whose work directory exists
    shown,      \* shown[j]: the record that the page showed last
    before,     \* history: the uploads that were stored before j's began,
    written,    \*          what AppendJobLogChunk has stored for j,
    hidden,     \*          whether the record was away while the page is read,
    torn        \*          the records that a crash left truncated

stores == <<val, op>>
webVars == <<upload, audio, before, shown>>
loopVars == <<loop, dirs, written>>
vars == <<deployment, stores, call, tasks, webVars, loopVars, hidden, torn>>

Threads == Jobs \union Loops

JobsNamed(j) ==
    [job_id : {j}, status : {"pending", "running", "completed"},
     cli_output : Seq(Loops), transcript_text : SUBSET Jobs]

TranscriptionJob == UNION {JobsNamed(j) : j \in Jobs}

DB == INSTANCE RecordStore WITH
    Keys <- Jobs,
    Payloads <- TranscriptionJob,
    Queries <- Jobs,
    Match <- [j \in Jobs |-> JobsNamed(j)],
    Rank <- [j \in Jobs |-> [r \in TranscriptionJob |-> 0]],
    Limit <- [j \in Jobs |-> 1],
    Absent <- NoJob

Idle == [at |-> "poll", lines |-> 0]

LoopStages == {"found", "fetch", "mkdir", "docker", "query", "update", "upsert"}

Init ==
    /\ deployment \in Deployments
    /\ DB!Init
    /\ call = [a \in Threads |-> NoCall]
    /\ upload = [j \in Jobs |-> "new"]
    /\ audio = {}
    /\ tasks = [j \in Jobs |-> "none"]
    /\ loop = [l \in Loops |-> Idle]
    /\ dirs = {}
    /\ shown = [j \in Jobs |-> NoJob]
    /\ before = [j \in Jobs |-> {}]
    /\ written = [j \in Jobs |-> <<>>]
    /\ hidden = [j \in Jobs |-> FALSE]
    /\ torn = {}

Called(a, w) == call' = [call EXCEPT ![a] = w]
Answered(a) == call' = [call EXCEPT ![a] = NoCall]

-----------------------------------------------------------------------------
(* PostUpload *)

StoredUploads == {k \in Jobs : upload[k] \in {"storing", "sending", "redirected", "viewing"}}

\* Every upload goes to the same uuid: from now on a reader may get its bytes.
PutBlob(j) ==
    /\ upload[j] = "new"
    /\ upload' = [upload EXCEPT ![j] = "putting"]
    /\ audio' = audio \union {j}
    /\ before' = [before EXCEPT ![j] = StoredUploads]
    /\ UNCHANGED <<deployment, stores, call, tasks, shown, loopVars, torn>>

NewJob(j) ==
    [job_id |-> j, status |-> "pending", cli_output |-> <<>>, transcript_text |-> {}]

\* Mutant of StoreJob: the answer to PutBlob is not waited for.
StoreJobAtOnce(j, w) ==
    /\ upload[j] = "new"
    /\ upload' = [upload EXCEPT ![j] = "storing"]
    /\ audio' = audio \union {j}
    /\ before' = [before EXCEPT ![j] = StoredUploads]
    /\ DB!BeginUpsert(w, j, NewJob(j))
    /\ Called(j, w)
    /\ UNCHANGED <<deployment, tasks, shown, loopVars, torn>>

\* What was stored before j's upload began is replaced; the bytes of an
\* upload that overlaps, or that was given up, may stay or still come.
StoreJob(j, w) ==
    /\ upload[j] = "putting"
    /\ upload' = [upload EXCEPT ![j] = "storing"]
    /\ audio' = audio \ before[j]
    /\ DB!BeginUpsert(w, j, NewJob(j))
    /\ Called(j, w)
    /\ UNCHANGED <<deployment, tasks, before, shown, loopVars, torn>>

\* Mutant of JobStored: the result of Upsert is not looked at.
UpsertIgnored(j) ==
    /\ upload[j] = "storing"
    /\ DB!EndUpsert(call[j])
    /\ Answered(j)
    /\ upload' = [upload EXCEPT ![j] = "sending"]
    /\ tasks' = [tasks EXCEPT ![j] = "sent"]
    /\ UNCHANGED <<deployment, audio, before, shown, loopVars, torn>>

JobStored(j) ==
    /\ upload[j] = "storing"
    /\ op[call[j]].stage = "ok"
    /\ DB!EndUpsert(call[j])
    /\ Answered(j)
    /\ upload' = [upload EXCEPT ![j] = "sending"]
    /\ tasks' = [tasks EXCEPT ![j] = "sent"]
    /\ UNCHANGED <<deployment, audio, before, shown, loopVars, torn>>

\* The message of the task is stored, perhaps after PostUpload gave it up.
Enqueued(j) ==
    /\ j \in Queued
    /\ tasks[j] = "sent"
    /\ tasks' = [tasks EXCEPT ![j] = "pending"]
    /\ UNCHANGED <<deployment, stores, call, webVars, loopVars, torn>>

Redirect(j) ==
    /\ upload[j] = "sending"
    /\ tasks[j] \in {"pending", "consumed"}
    /\ upload' = [upload EXCEPT ![j] = "redirected"]
    /\ UNCHANGED <<deployment, stores, call, tasks, audio, before, shown, loopVars, torn>>

\* An error, or no answer for 30 seconds: 500, and nothing is undone.
UploadFails(j) ==
    /\ upload[j] \in {"putting", "storing", "sending"}
    /\ upload' = [upload EXCEPT ![j] = "failed"]
    /\ Answered(j)
    /\ UNCHANGED <<deployment, stores, tasks, audio, before, shown, loopVars, torn>>

-----------------------------------------------------------------------------
(* GetJobPage, which the browser asks for again every five seconds.  The    *)
(* link of the page to its transcript leads here as well: HandleGetJob     *)
(* compares the last ten characters of the path with the eleven of         *)
(* "/transcript", which are never equal, and GetJobTranscript is not       *)
(* reached.                                                                *)

GetJobPage(j, w) ==
    /\ upload[j] = "redirected"
    /\ DB!BeginQuery(w, j)
    /\ Called(j, w)
    /\ upload' = [upload EXCEPT ![j] = "viewing"]
    /\ UNCHANGED <<deployment, tasks, audio, before, shown, loopVars, torn>>

\* The page, or "job not found".
ShowJob(j) ==
    /\ upload[j] = "viewing"
    /\ DB!EndQuery(call[j])
    /\ Answered(j)
    /\ upload' = [upload EXCEPT ![j] = "redirected"]
    /\ shown' = [shown EXCEPT ![j] =
                    IF op[call[j]].found = {} THEN @
                    ELSE CHOOSE r \in {f[2] : f \in op[call[j]].found} : TRUE]
    /\ UNCHANGED <<deployment, tasks, audio, before, loopVars, torn>>

PageFails(j) ==
    /\ upload[j] = "viewing"
    /\ Answered(j)
    /\ upload' = [upload EXCEPT ![j] = "redirected"]
    /\ UNCHANGED <<deployment, stores, tasks, audio, before, shown, loopVars, torn>>

-----------------------------------------------------------------------------
(* RunWorker: what DequeueRPC and Dispatch come to *)

\* The query of DequeueRPC has found the task; another loop's may as well.
FindTask(l, j) ==
    /\ loop[l].at = "poll"
    /\ tasks[j] = "pending"
    /\ loop' = [loop EXCEPT ![l] =
                   [at |-> "found", job |-> j, doing |-> "append", lines |-> 0]]
    /\ UNCHANGED <<deployment, stores, call, tasks, webVars, dirs, written, torn>>

\* A loop without the task in its registry logs that and goes on.
DispatchTask(l) ==
    /\ loop[l].at = "found"
    /\ tasks' = [tasks EXCEPT ![loop[l].job] = "consumed"]
    /\ loop' = [loop EXCEPT ![l] =
                   IF l \in deployment.transcribers THEN [@ EXCEPT !.at = "fetch"] ELSE Idle]
    /\ UNCHANGED <<deployment, stores, call, webVars, dirs, written, torn>>

\* The poll fails and RunWorker returns, with the task consumed or not.  (A
\* loop whose poll fails with no task in sight just takes no more steps here.)
LoopEnds(l) ==
    /\ loop[l].at = "found"
    /\ loop' = [loop EXCEPT ![l] = [at |-> "ended", lines |-> 0]]
    /\ UNCHANGED tasks \/ tasks' = [tasks EXCEPT ![loop[l].job] = "consumed"]
    /\ UNCHANGED <<deployment, stores, call, webVars, dirs, written, torn>>

-----------------------------------------------------------------------------
(* RunTranscribeAudio *)

Goes(l, stage) == loop' = [loop EXCEPT ![l].at = stage]

\* Mutant of GetBlobBytes: the status of the answer is not looked at.
GetAnyBytes(l) ==
    /\ loop[l].at = "fetch"
    /\ loop' = [loop EXCEPT ![l] = [job |-> @.job, doing |-> @.doing, lines |-> 0,
                                    at |-> "mkdir", input |-> audio]]
    /\ UNCHANGED <<deployment, stores, call, tasks, webVars, dirs, written, torn>>

\* POST to /rpc/get_blob/ of whatever answers at blob_base_url.
GetBlobBytes(l) ==
    /\ loop[l].at = "fetch"
    /\ deployment.served
    /\ loop' = [loop EXCEPT ![l] = [job |-> @.job, doing |-> @.doing, lines |-> 0,
                                    at |-> "mkdir", input |-> audio]]
    /\ UNCHANGED <<deployment, stores, call, tasks, webVars, dirs, written, torn>>

\* Mutant of MakeWorkDir: like mkdir -p.
MakeWorkDirs(l) ==
    /\ loop[l].at = "mkdir"
    /\ dirs' = dirs \union {loop[l].job}
    /\ Goes(l, "docker")
    /\ UNCHANGED <<deployment, stores, call, tasks, webVars, written, torn>>

\* fs::mkdir fails when the directory exists; nothing ever removes it.
MakeWorkDir(l) ==
    /\ loop[l].at = "mkdir"
    /\ loop[l].job \notin dirs
    /\ dirs' = dirs \union {loop[l].job}
    /\ Goes(l, "docker")
    /\ UNCHANGED <<deployment, stores, call, tasks, webVars, written, torn>>

\* GetJobByJobId: docker has printed a line, or failed, or else is done and
\* INPUT.txt is there.
ReadJob(l, w, what) ==
    /\ loop[l].at = "docker"
    /\ what = "append" => loop[l].lines < MaxLines
    /\ DB!BeginQuery(w, loop[l].job)
    /\ Called(l, w)
    /\ loop' = [loop EXCEPT ![l].at = "query", ![l].doing = what]
    /\ UNCHANGED <<deployment, tasks, webVars, dirs, written, torn>>

JobRead(l) ==
    /\ loop[l].at = "query"
    /\ Answered(l)
    /\ \E f \in op[call[l]].found :
        loop' = [loop EXCEPT ![l] =
            [job |-> @.job, doing |-> @.doing, lines |-> @.lines, input |-> @.input,
             at |-> "update", copy |-> f[2]]]
    /\ DB!EndQuery(call[l])
    /\ UNCHANGED <<deployment, tasks, webVars, dirs, written, torn>>

\* AppendJobLogChunk and PublishJobComplete.
Updated(l) ==
    LET job == loop[l].copy
    IN  IF loop[l].doing = "append"
        THEN [job EXCEPT !.status = IF @ = "pending" THEN "running" ELSE @,
                         !.cli_output = Append(@, l)]
        ELSE [job EXCEPT !.status = "completed", !.transcript_text = loop[l].input]

UpsertJob(l, w) ==
    /\ loop[l].at = "update"
    /\ DB!BeginUpsert(w, loop[l].job, Updated(l))
    /\ Called(l, w)
    /\ loop' = [loop EXCEPT ![l] =
            [job |-> @.job, doing |-> @.doing, lines |-> @.lines, input |-> @.input,
             at |-> "upsert"]]
    /\ UNCHANGED <<deployment, tasks, webVars, dirs, written, torn>>

ChunkStored(l) ==
    /\ loop[l].at = "upsert"
    /\ loop[l].doing = "append"
    /\ op[call[l]].stage = "ok"
    /\ DB!EndUpsert(call[l])
    /\ Answered(l)
    /\ written' = [written EXCEPT ![loop[l].job] = Append(@, l)]
    /\ loop' = [loop EXCEPT ![l] =
            [job |-> @.job, doing |-> "append", input |-> @.input,
             at |-> "docker", lines |-> @.lines + 1]]
    /\ UNCHANGED <<deployment, tasks, webVars, dirs, torn>>

JobPublished(l) ==
    /\ loop[l].at = "upsert"
    /\ loop[l].doing = "publish"
    /\ op[call[l]].stage = "ok"
    /\ DB!EndUpsert(call[l])
    /\ Answered(l)
    /\ loop' = [loop EXCEPT ![l] = Idle]
    /\ UNCHANGED <<deployment, tasks, webVars, dirs, written, torn>>

\* Mutant of TranscribeFails: AppendJobLogChunk's result is not looked at.
ChunkIgnored(l) ==
    /\ loop[l].at \in LoopStages \ {"found"}
    /\ Answered(l)
    /\ loop' = [loop EXCEPT ![l] =
            IF loop[l].at = "upsert" /\ loop[l].doing = "append"
            THEN [job |-> @.job, doing |-> "append", input |-> @.input,
                  at |-> "docker", lines |-> @.lines + 1]
            ELSE Idle]
    /\ UNCHANGED <<deployment, stores, tasks, webVars, dirs, written, torn>>

\* Any step fails, or its call has no answer for 30 seconds: RunWorker logs
\* the error and polls again, and the job stays as it is.
TranscribeFails(l) ==
    /\ loop[l].at \in LoopStages \ {"found"}
    /\ Answered(l)
    /\ loop' = [loop EXCEPT ![l] = Idle]
    /\ UNCHANGED <<deployment, stores, tasks, webVars, dirs, written, torn>>

-----------------------------------------------------------------------------
(* database-service *)

DatabaseStep ==
    /\ DB!Internal
    /\ UNCHANGED <<deployment, call, tasks, webVars, loopVars, torn>>

\* The answer to a call that its caller gave up.
Unheard(w) ==
    /\ \A a \in Threads : call[a] # w
    /\ DB!EndUpsert(w) \/ DB!EndQuery(w)
    /\ UNCHANGED <<deployment, call, tasks, webVars, loopVars, torn>>

Away == torn \union
    {j \in Jobs : \E w \in Workers : op[w].stage = "removed" /\ op[w].key = j}

DatabaseCrash ==
    /\ DatabaseDies
    /\ DB!Crash
    /\ torn' = Away
    /\ call' = [a \in Threads |-> NoCall]
    /\ upload' = [j \in Jobs |->
            IF call[j] = NoCall THEN upload[j]
            ELSE IF upload[j] = "viewing" THEN "redirected" ELSE "failed"]
    /\ loop' = [l \in Loops |-> IF call[l] = NoCall THEN loop[l] ELSE Idle]
    /\ UNCHANGED <<deployment, tasks, audio, before, shown, dirs, written>>

\* History: whether the record was away when the page was asked for, or since.
Observe ==
    hidden' = [j \in Jobs |->
        upload'[j] = "viewing" /\ (j \in Away' \/ (upload[j] = "viewing" /\ hidden[j]))]

WebStep(j) ==
    \/ PutBlob(j)
    \/ \E w \in Workers : StoreJob(j, w) \/ GetJobPage(j, w)
    \/ JobStored(j)
    \/ Enqueued(j)
    \/ Redirect(j)
    \/ UploadFails(j)
    \/ ShowJob(j)
    \/ PageFails(j)

LoopStep(l) ==
    \/ \E j \in Jobs : FindTask(l, j)
    \/ DispatchTask(l)
    \/ LoopEnds(l)
    \/ GetBlobBytes(l)
    \/ MakeWorkDir(l)
    \/ \E w \in Workers :
        \/ \E what \in {"append", "publish"} : ReadJob(l, w, what)
        \/ UpsertJob(l, w)
    \/ JobRead(l)
    \/ ChunkStored(l)
    \/ JobPublished(l)
    \/ TranscribeFails(l)

Next ==
    /\ \/ \E j \in Jobs : WebStep(j)
       \/ \E l \in Loops : LoopStep(l)
       \/ DatabaseStep
       \/ \E w \in Workers : Unheard(w)
       \/ DatabaseCrash
    /\ Observe

Spec == Init /\ [][Next]_vars

-----------------------------------------------------------------------------

(* Two loops that were given one task do not run docker in one directory:  *)
(* mkdir lets only the first of them get that far.                         *)
OneRunPerJob ==
    \A l, m \in Loops :
        /\ loop[l].at \in {"docker", "query", "update", "upsert"}
        /\ loop[m].at \in {"docker", "query", "update", "upsert"}
        /\ loop[l].job = loop[m].job
        => l = m

(* Each chunk reads the record and stores it again, and no chunk that was  *)
(* answered as stored is lost by that, nor does one come in twice.         *)
LogIsWhole ==
    \A j \in Jobs :
        val[j] # NoJob =>
            /\ IsPrefix(written[j], val[j].cli_output)
            /\ Len(val[j].cli_output) <= Len(written[j]) + 1

\* What a page may show after it has shown job r.
Later(r) ==
    {s \in JobsNamed(r.job_id) :
        /\ IsPrefix(r.cli_output, s.cli_output)
        /\ r.status = "running" => s.status # "pending"
        /\ r.status = "completed" => s = r}

(* The page of a job never goes back: its log only grows, and a completed  *)
(* job stays completed, though a worker may have given up an upsert that   *)
(* is still to come.                                                       *)
PageGoesForward ==
    \A j \in Jobs :
        /\ upload[j] = "viewing"
        /\ op[call[j]].stage = "answer"
        /\ shown[j] # NoJob
        => \A f \in op[call[j]].found : f[2] \in Later(shown[j])

(* The page says that there is no such job only while the record is being  *)
(* replaced, or after a crash has truncated it.                            *)
JobIsFound ==
    \A j \in Jobs :
        upload[j] = "viewing" /\ op[call[j]].stage = "answer" /\ ~ hidden[j]
            => op[call[j]].found # {}

(* All uploads share one blob, so a job may get the transcript of another: *)
(* never of one that was stored before its own upload began.               *)
AudioNotOlder ==
    \A j \in Jobs : val[j] # NoJob => val[j].transcript_text \intersect before[j] = {}

(* As long as no loop that gets the tasks knows them, or nothing serves    *)
(* the route that the worker asks for, every job stays pending.            *)
NothingTranscribed ==
    deployment.transcribers = {} \/ ~ deployment.served =>
        \A j \in Jobs : val[j] # NoJob => val[j].status = "pending"
=============================================================================
