# A verification of the services of cs-public

This directory models the backend services of the repository in TLA+, checks
the models with TLC and proves theorems about them with TLAPS. The models are
translated from the sources under `src/cs`; the generated manifest
`PROJECT.json` gives the lines behind each definition.

## 1. The system

The program is a set of small C++ services behind one load balancer. All of
them are built on one hand-written HTTP server (`net/http`) and an RPC layer,
keep no state of their own and store everything as JSON records in
`database-service`. `src/system.gpt.yml` fixes how many replicas run
(database-service 1, message-queue 3, blob-service 3, task-queue-service 1,
the web site 5); no container is restarted when its process ends.

```
 browser --> load-balancer --> web site ------------+
                  |                                 |
                  +-> scribe-service --> blob-service ---> database-service --> files
                           |                        |            ^
                           v                        |            |
                   task-queue-service --> message-queue ---------+
                           ^                   ^
                  RunWorker loop        scribe-worker (RunWorker loop)
```

| component | state | operations | what is hard | what makes it correct |
|---|---|---|---|---|
| `database-service` (`apps/database-service`) | a directory per collection, a file per record | `UpsertRPC`, `QueryRPC`, in ten worker threads without a lock | `fs::write` truncates and then writes, and does not notice a full disk; `mkdir` races; two writers of one file leave the tail of the longer text; a query reads file after file; the process may die | a stored record is readable except inside a write; what a cut write leaves is never taken for a record; callers see a store with two-instant upserts and record-by-record queries |
| `message-queue` | records of the collection `message-queue` (pending, consumed) | `EnqueueRPC`, `DequeueRPC` | query-then-upsert is not atomic; callers time out after 30 s; uuids are reused; records vanish for a moment | order, no loss, no second delivery to a later call |
| `task-queue-service` | a detached `RunWorker` loop | `CreateTaskRPC`, `GetTaskStatusRPC`, `SystemStatusRPC`, the loop | the loop ends on the first error; a message is consumed before it is run | a task is run at most once by a loop, and is run unless the loop has returned or a task of the same uuid has replaced it, which is run then |
| task status (`apps/task-queue-service/rpc.gpt.cc`) | - | `GetTaskStatusRPC`, `SystemStatusRPC` | they read records that handlers replace meanwhile; two counts from two queries | an answered task is found, a received one is not reported as pending, a message is counted once |
| HTTP server (`net/http/server.cc`) | connection queue, condition variable, worker pool, descriptors, `_shutdown` | accept loop, `WorkerThread`, `Close` | wakeups, double close of a descriptor number, silent clients, shutdown | no lost wakeup, answers go to their client, connections and `Close` end |
| web application and RPC layer (`net/http/parsers.cc`, `net/http/web_app.hh`, `net/rpc`) | - | parsing of a request, routing, the extraction of a message, `RPCClient::Call` | a request is read with one `read`, however much of it has arrived; a message comes as JSON, as a query or as a form | no part of a request is processed as a whole one; a remote call is like a local one |
| `blob-service` | `<uuid>.blob`, `<uuid>.blob.tmp`, metadata records | `UpsertBlobRPC`, `GetBlobRPC`, `GetBlobMetadataRPC` | bytes and metadata in two places; one temporary name per uuid | metadata always has bytes; readers get whole and recent bytes |
| load balancer (`net/load/balancer`) | cache of downstream clients, discovery thread | `ProxyHandler`, `DiscoverDownstreamClients`, `RefreshDiscoveryLoop` | the cache is cleared before it is filled, the record is absent during an upsert, replicas come and go | a refusal overlooks no replica; replicas that stay up are found, those that stay down are dropped |
| service registry | one record | refresh loop, `LookupServiceRPC` | writer and `LookupServiceRPC` use different collections | |
| scribe (`scribe-service`, `scribe-worker`) | job records, work directories | `PostUpload`, `GetJobPage`, `RunTranscribeAudio` | three stores without a transaction; one blob for all uploads; read-modify-write of the job; a task that is delivered twice; parts that do not fit each other | one docker per job, no chunk of the log lost, a page that never goes back, no older audio |
| web site (`apps/trycopilot.ai`) | users, tokens, games, logs | pages that register, log in and log out; the check of every other page | query-then-upsert in every handler, cookies that outlive their token | a token that was ended stays ended; a session is not lost; an account is found again |
| JSON library (`net/json`) | - | `Serialize`, `ParseObject` | texts that are cut short or followed by something else | what was written is read again, and nothing else |
| the in-memory database client, protos, HTML, data structures (`q`), renderer, AI, games, devtools | - | sequential functions | boundaries of algorithms | agree with a reference definition |

Components interact by HTTP calls only (and, inside a process, by the queue of
the HTTP server and the cache of the balancer). A call is a request, a handler
that runs to its end in a worker thread, and an answer; `FetchResponse`
(`net/http/client.gpt.cc`) gives up after 30 seconds, while the handler goes on.

## 2. What is modelled

| module | models | over |
|---|---|---|
| `JsonValue` | `net/json`: the values, and the order of strings | - |
| `JsonText` | `net/json`: the text that a value is written as and the value that is read from a text | `JsonValue` |
| `QueryEngine` | the evaluation of WHERE, ORDER_BY and LIMIT in database-service, and its errors; the parser is the constant `ValueOf` | `JsonValue` |
| `DatabaseService` | `UpsertRPC` and `QueryRPC` as system calls: test of the directory, `mkdir`, truncating open, write, `ls`, read, sort and limit; a full disk; death of the process | `QueryEngine` |
| `QueryView` | the client's side of a query: the steps that `where`, `order_by`, `limit` and `first` build, and the evaluation over values in memory; the serializer is the constant `Written` | `DatabaseService` |
| `RecordStore` | what the other services may rely on: the abstract specification of database-service | - |
| `MessageQueue` | `EnqueueRPC`, `DequeueRPC`, lost answers, timeouts, crashes of database-service | `RecordStore` |
| `TaskQueue` | `RunWorker` and the other clients of the queue | `MessageQueue` |
| `TaskStatus` | `GetTaskStatusRPC` and `SystemStatusRPC`, which read the records of the queue | `TaskQueue`, `RecordStore` |
| `HttpServer` | accept loop, connection queue, worker pool, descriptors, `Close` | - |
| `HttpText` | `ParseRequest`, paths, queries and forms, `Route`, `ExtractProtoFromRequest` | `JsonText` |
| `HttpExchange` | a web application over the server: the one `read` of a request, `main_handler`, `RPC::HttpHandler`, `RPCClient::Call`; the texts and their parsers are constants, which the run takes from `HttpText` | `HttpServer`, `JsonValue` |
| `BlobService` | `BlobStore::Write` and `Read` as system calls, the three RPCs | `RecordStore` |
| `LoadBalancer` | `ProxyHandler`, `DiscoverDownstreamClients`, `RefreshDiscoveryLoop`, and the thread of service-registry that writes the record they read | - |
| `Accounts` | `PostRegisterPage`, `PostLoginPage`, `PostLogoutPage` and `GetAuthenticatedUser`, with the RPCs they call | two `RecordStore`s |
| `Scribe` | `PostUpload`, `GetJobPage`, `RunTranscribeAudio` under `RunWorker` | `RecordStore` |
| `DatabaseServiceProofs` | theorems about `DatabaseService` and `QueryView`: that a collection implements `RecordStore` | `QueryView` |
| `MessageQueueProofs`, `TaskStatusProofs` | theorems about the queue, and about the loop over it and the status requests beside both | the second over the first |
| `HttpServerProofs` | theorems about `HttpServer` and the exchange over it | `HttpExchange` |
| `BlobServiceProofs`, `LoadBalancerProofs`, `AccountsProofs`, `ScribeProofs` | theorems about `BlobService`, `LoadBalancer`, `Accounts` and `Scribe` | |
| `MC...` | constants and symmetry for TLC | |

**How state corresponds.** A process that serves a request is a *thread* `t`
with a program counter `pc[t]` and the few locals that a later step reads
(`msg[t]` is the `Message` of `EnqueueRPC`/`DequeueRPC`, `id[t]`/`file[t]`/`got[t]`
the locals of the blob handlers). A step is one call that leaves the process or
the thread: a system call in `DatabaseService` and `BlobService`, a locked
section or system call in `HttpServer`, the beginning or the end of a call to
database-service elsewhere. Local computation between two such calls is part of
the step that ends it. `call[t]` is the worker thread of database-service that
serves thread `t`; when `t` gives up, `call[t]` is cleared and the worker goes on
by itself (`Unheard` ends it).

**Composition.** `MessageQueue`, `BlobService` and `Scribe` use `DB == INSTANCE RecordStore`, and
`Accounts` uses two, one for each collection, that die together:
their steps are joint steps with `DB!BeginUpsert`, `DB!EndQuery` and so on, and
`DB!Internal` interleaves freely. `DatabaseService` is proved to implement
`RecordStore` (property `ImplementsRecordStore`, refinement mapping `Store`: a file stands for the
value that its text is parsed to, an empty file is an absent record, the stages before the
truncation are "begun", the gap is "removed"). What is checked and proved over
`RecordStore` therefore holds over the file protocol, until a full disk cuts a write short:
from then on the store promises nothing, and `NothingIsMisread` says what is left.

The parsers and serializers of `net/json` and `net/http` are recursive over texts. So that theorems do not depend on how, the modules above them have
them as constants, and state what they need of them as an assumption or a hypothesis
(`ViewAssumption`, `TextsAreRead`; `PartsAreRefused`, `CallsAreTaken`, `RepliesAreRead`). The runs
put the operators of `JsonText` and `HttpText` in, and TLC evaluates these conditions.

`TaskQueue` EXTENDS `MessageQueue`: the loop's steps are joint
steps with those of the thread that serves its Dequeue. `TaskStatus` EXTENDS `TaskQueue` and reads the
same records through a second `RecordStore` (`Reads`) that shares `val`. `HttpExchange`
EXTENDS `HttpServer`: its steps are those of the server, joint with what the worker makes of
the text it has read; `Send` and `Garble` of the server are a part of a request that
parses and one that does not. `Scribe` takes of the queue only what the theorems about it
leave open: two loops may be given one task, a task may be consumed for nobody. `LoadBalancer` has the one
record that it reads as a variable (`registry`, empty while an upsert has it
truncated), since it runs no other call on database-service.

**Data.** A payload is a model value or a record with the fields that the handlers test. In
`DatabaseService` a payload is a text, a sequence of bytes that is parsed where the code
parses it; a query is the sequence of its steps, and the answer is computed as the code does. In
`RecordStore`, and so for the other services, a query is the set of payloads that satisfy it,
the order of its ORDER_BY and its LIMIT, and the refinement relates the two. In
`HttpText` a letter is a byte or a word that the code only compares (a method, a segment of a
path). A blob is a sequence of bytes, each naming the request that wrote it, so that a mixture
of two requests shows; the log of a job is the sequence of the loops that wrote its chunks,
and a transcript is the set of uploads it may be of.

**History variables** (not in the code) record what the properties speak of:
`acked`, `deliveries`, `ackedBefore`, `goneBefore`, `sent`, `torn` in `MessageQueue`; `runs` in
`TaskQueue`; `known`, `received`, `touched` in `TaskStatus`; `answer`, `polite` and the `conn`
field of queue entries in `HttpServer`; `handled` in `HttpExchange`;
`used`, `stored`, `overlap`, `answered`, `before` in `BlobService`; `stored`, `cut` in `DatabaseService`;
`steady`, `cachedSteady` in `LoadBalancer`; `made`, `known`, `leaving`, `before` in `Accounts`;
`before`, `written`, `hidden`, `torn` in `Scribe`.

**Abstractions to know of.**

- Of the disk's errors, those of `mkdir` on an existing directory and of a full disk are
  modelled. The latter happens at the writing of a record, leaves its first bytes, and is
  not noticed, since `fs::write` tests the stream before its destructor flushes it. `BlobService`
  leaves this out: there the bytes that were cut short are renamed into place and answered as
  stored, so `MetadataHasBytes`, `BytesNotOlder` and `ReadIsRecent` are about a disk with space left.
- A record is written by one system call. It is for contents below the buffer of
  the `ofstream`; longer ones reach the file in several calls, and a reader could
  meet part of a record.
- `JsonText` leaves out floats and the indented form, which no record has. A long is taken to be
  twice as wide as an int, as on the machines that the containers are built for.
- In `HttpText` two blanks behind a percent sign, for which `UrlDecode` reads an uninitialized
  `int`, give zero.
- In `QueryView` a sort by a field that some values lack is the insertion sort with the comparator
  that the code has, which is false for them. The service refuses such a query, so `LocalViewAgrees`,
  which speaks of answers, does not compare the two.
- The death of a *replica* is the abort of its threads (`Abort`, `GiveUp`); the death of
  database-service ends all calls in progress and keeps the files.
- In `HttpServer` a client makes one connection with one request, as
  `Connection: close` and the server's single turn per connection have it. Writing
  to a client that is gone ends in an error: the services run as process 1 of
  their container, which ignores SIGPIPE by default. The count of active requests, which a worker
  lowers (`server.cc:172`) before it closes the number (`server.cc:180`), goes down with the latter;
  only the load that a replica reports is made of it, and that is arbitrary in `LoadBalancer`.
- In `LoadBalancer` a client is the replica it reaches: its load, which the replica
  reports, may be anything, so any client of the service may be the least loaded one.
  A container name matches at most one service of the routing table, as the names in
  `src/system.gpt.yml` do. A health check sees whether the replica is up at that moment.
- In `Accounts` a browser that registers or logs in has no cookie, and a page or a
  logout presents a token that the browser was given. Calls that follow each other
  at once are one step, except before an upsert, where the races are. A handler that
  dies between two queries has changed nothing, so `Abort` ends those only that wait
  for an upsert or are about to answer. `GetHomePage` authenticates twice and takes the value of the
  second result without a test (`ui.cc:845-853`); a page authenticates once here. Distinct passwords have distinct hashes.
- In `HttpExchange` how much of a request has arrived when it is read is chosen in the initial
  state, because no step but the read depends on it. The RPC behind a route answers with the
  message it was given, so an answer to another call would show; one that fails is told as
  a refused request is. A *polite* client is one whose request is read far enough to be parsed.
- In `TaskStatus` the uuid of a request reaches the handler as it was sent. For a GET whose
  uuid looks like a number it does not: see the observations in section 5.
- In `Scribe` docker prints what it likes and fails when it likes. `deployment` says which
  loops know the task and whether blob-service has the route that the worker asks for, since in
  the sources neither is so.
- `std::sort` is the insertion sort that libstdc++ uses for up to 16 elements. With more,
  the descending comparator, which is not a strict weak ordering, makes it undefined.

## 3. What the runs check

| run | question | result |
|---|---|---|
| `database` | two workers, two keys, three payloads, three queries, one write cut short by a full disk, crashes | `StoredIsReadable`, `NothingIsMisread`, `AnswersAreOrdered`; `DatabaseService` implements `RecordStore`; `LocalViewAgrees`: `QueryView` evaluates a query with one order and one limit over values it holds as the service does |
| `queue` | two messages, generated uuids and a reused one, all overlaps of two handlers, calls that were given up | `TypeOK`; Dequeue follows the timestamps (`FifoOrder`); "no message" is right for every message answered before the call (`EmptyAnswer`); `NotReturnedAgain` |
| `queue_twice` | one message, two Dequeues | `AtMostOnce` is **violated**: overlapping Dequeues return the same message |
| `tasks` | one loop, another client, one thread that asks for the status, a reused uuid, a malformed payload, crashes | `RunsOnce`, `HeldIsConsumed`, `AckedIsKept`; `TaskIsFound`, `ReceivedIsConsumed`, `CountedOnce`, `StatusTypeOK` |
| `task_liveness` | two handlers and the loop without crashes, generated uuids and one that clients may use again, fair | `TaskIsRun`: an accepted task is run, or the loop has returned, or a request of the same uuid has replaced it, which is run if it is a task of this loop |
| `http` | two workers, two clients, two descriptors, `Close`, fair; a JSON, a query or a form request that arrives in any part | `NoLostWakeup`, `OwnAnswer`, `EveryConnectionCloses`, `StopEnds`; `HandledWhole`, `CallIsLocal` |
| `http_double_close` | the server alone | `QueuedIsOpen` is **violated**: the second close of an error path closes a connection that waits in the queue |
| `blob` | three threads, two upserts and readers, handlers that die | `MetadataHasBytes`; without overlapping Writes `BytesNotOlder` (which also says that the bytes are whole), `ReadIsRecent` |
| `blob_atomic` | two upserts of one uuid that overlap | `WritesAreAtomic` is **violated**: the two share the temporary file |
| `balancer` | one handler, the discovery thread, two replicas of two services, fair | `BalancerTypeOK`, `RefusalIsJustified`; `StopsRefusing`, `StopsRouting` |
| `accounts` | two requests that register, log in, log out or open a page; crashes | `TypeOK`, `LoggedOutStaysOut`, `SessionIsKept`, `AccountIsFound` |
| `scribe` | two uploads, one of which gets its task queued, two loops, the page of the job, crashes | `OneRunPerJob`, `LogIsWhole`, `PageGoesForward`, `JobIsFound`, `AudioNotOlder`; `NothingTranscribed` with the deployments of the sources |

`JsonText`, `HttpText` and `QueryEngine` have no run of their own: what they compute is
checked where it is used, by `NothingIsMisread`, `ImplementsRecordStore` and `LocalViewAgrees`
on texts that were written, cut or overwritten, and by `HandledWhole`, `CallIsLocal` and the
assumption `TextAssumption` of `MCHttpExchange` on every prefix of a request.

The three violations are disagreements between the code and what a comment or
the name of a test says; `PROJECT.json` quotes them under `findings`.

**Bounds.** Two concurrent handlers are enough for every race found here, since
each is between one step of one handler and two of another; three are used where
a reader must meet two writers (`blob`).

- `database`: two records are ordered wrongly, cut wrongly or tied as three are; each query of
  the run has at most one ORDER_BY and one value of LIMIT, as all queries in the sources do
  (with more, `QueryView` takes the first and the service the last, so `LocalViewAgrees` speaks
  of the sort for queries with `StepsAgree` only). All payloads have the fields that the queries
  look at (`FieldAssumption` of `MCDatabaseService`), since a record without one is a query that fails; what
  the local view does with one is covered by the theorem `LocalViewsAgree`. The payloads have
  every type of JSON and every kind of character and escape. `IntBits` is 16. A write is cut
  short once, after any of the prefixes in `Beginnings` (`Cuts`: after a backslash, within the
  digits of an escape, after a value, before the last bracket), or at once.
- `queue`, `tasks`: two workers of database-service let an abandoned call overlap with a live one.
  Two requests (`Ids`) are the older and the younger, or the first and the one that reuses
  its uuid. `MaxIterations` is 2 in `tasks` (the option of `WorkerOptions`) and 0,
  unlimited, in `task_liveness`. In both, clients may supply one of the two uuids (`ClientUuids`), so that a
  task is replaced while it is pending, or while its consumed copy is under way. One thread asks (`Askers`): those that ask write nothing.
- `http`: two descriptors let a closed number be given out again while another is in use.
  Requests on `SplitOn = {c1}` may be split anywhere, those on the other connection arrive
  whole. `IntBits` is 8, which is enough for the one number that the requests have.
- `balancer`: one handler is enough for the checks, because handlers write nothing that another
  actor reads; the theorem has any number.
- `accounts` has one user and two tokens: a third request that needs a new uuid waits until
  database-service dies.
- `scribe`: the other upload, whose task is not queued (`Queued`), is there to replace the blob;
  docker prints at most one line per run (`MaxLines`), so that the read and the upsert of a chunk meet
  those of the completion and of a second loop; `Deployments` are that of the sources, one with the
  task in the right loop, and one with the route as well.

A request is made once (`sent`, `used`, `peer`, `upload`), which bounds every behavior without
a guard that the code does not have.

**Symmetry** is used in safety runs only, and in `database`, whose two action properties are
step by step: threads, workers, loops and requests are
interchangeable; uuids are so only when clients supply all of them or none.

**Deadlock** is checked except in `http` and `http_double_close` (the server ends when `Close`
has returned and all clients were served), `task_liveness` (the loop returns and all requests
are made) and `scribe` (all uploads failed and no task is left).

**Fairness.** `TaskQueue`: strong fairness of the loop's `Poll` and of the steps of each thread of the
message queue, weak fairness of the other steps of the loop and of each worker of database-service. A call
needs a worker, and may find all of them busy again and again, by which its step is not enabled all the
time; connections wait in the queue of the HTTP server, first come first served, so that
no caller is passed over for ever. Otherwise nothing in these blocks: no locks
are held across calls, and each call is answered or times out. `Abort` and
`PollTimeout` are not fair: nothing makes a connection fail. `HttpServer` and `HttpExchange`: weak
fairness of the accept loop, of every worker, of `Close` once it is called and of
each client; the last is the assumption that a client sends its request or gives
up (the repository's own client does after 30 seconds), without which a silent
client blocks a worker for ever, as the server sets no timeout on `read`. `LoadBalancer`:
weak fairness of each handler, of the discovery thread and of the thread of
service-registry, which sleep for 59 and 61 seconds between rounds; strong fairness of
`Remove`, which says that an upsert of the record that is tried for ever succeeds again
and again. Replicas may start and stop at will.

## 4. What is proved

Every property of section 3 that holds, except the five of liveness, is a theorem for
every value of the constants that meets the assumptions and hypotheses named below.

### database-service

`DatabaseServiceProofs` proves, for any number of workers and keys (up to the 16 records for
which `std::sort` is the insertion sort), any finite set of payloads and any queries:

- `DbInvariant`: `DbSpec => []DbInv`; `RecordsStayReadable` (`StoredIsReadable`),
  `QueriesMisreadNothing` (`NothingIsMisread`), `AnswersComeOrdered` (`AnswersAreOrdered`);
- `CollectionIsRecordStore`: `DbSpec => ImplementsRecordStore`, step by step;
- `LocalViewsAgree`: `DbSpec => LocalViewAgrees`.

`StoredIsReadable` is not inductive: the write of one handler lands in a file that others have
truncated, written or left the tail of a longer text in. `DbInv` adds what every file
is read as (`FilesAreRead`: the value of a payload; something else only after a write was cut, and
then it is no JSON), what a writer has made sure of before each of its system calls (`WritersAreReady`) and what a reader has
found (`ReadersAreReady`). The first half of `NothingIsMisread` is `TextsAreRead` itself, which stays
with TLC; proved is the second, of the answers to queries.

The hypotheses are about texts and queries and hold in no state or in all:

| hypothesis | says | evaluated by TLC |
|---|---|---|
| `TextsAreRead` | a text is parsed to the value it stands for, also with the tail of another behind it; a beginning of it is no JSON, or has this value | a conjunct of `NothingIsMisread`, run `database` |
| `FieldsArePresent` | records have the fields that queries look at | `FieldAssumption` of the same run |
| `FieldsAreComparable` | a field by which a query orders has one type | the same |

The first three theorems need `TextsAreRead` alone, except that the order needs
`FieldsAreComparable`; the refinement needs both and `FieldsArePresent`: without the fields a
query ends in an error that `RecordStore` has not. The local view needs `TextsAreRead` alone: a missing
field is an error on both sides (`ConditionsAgree`), and that the query has one ORDER_BY and one
value of LIMIT (`StepsAgree`) is a condition inside `LocalViewAgrees`.

Of the insertion sort two facts are proved. `StdSortSorts`: it keeps the elements and puts
those of lower rank first, also for the descending comparator, which holds of equal elements and
so is no strict weak ordering. `StdSortMaps`: it commutes with a mapping under which the comparators say
the same, by which the sort of records with their file names in the service and that of bare values in the
client are one. The refinement maps a file to the value its text has. Its hard step is the end
of a query: the answer, which the service computed by filtering, sorting and cutting what it found, is
one that `RecordStore` allows, where the rank of a record is the number of those ahead of it.
`LocalViewsAgree` adds the invariant `MatchedInv` (what a query has found satisfies its WHERE) and
shows that another record read changes the local evaluation as it changes the service's.
Recursion over numbers (`StdSort`, `Filtered`) is handled by the least number at which a claim
would fail (`LeastNumber`), as the induction theorems of the library are not available.

### The queue, its loop and the status requests

`MessageQueueProofs` proves, for any finite or infinite sets of threads, workers,
uuids, messages and timestamps and with crashes allowed:

- `TypeCorrect`: `Spec => []TypeOK`;
- `ConsumedMessageNotReturnedAgain`: `Spec => []NotReturnedAgain`;
- `DequeueInOrder`: `Spec => []FifoOrder`;
- `EmptyIsEmpty`: `Spec => []EmptyAnswer`;
- `AckedMessageKept`: `Spec => []AckedIsKept`.

None of the four is inductive. `NotReturnedAgain` speaks of a thread that has picked a message; to exclude that it
picks a delivered one, one has to know that no record, and no upsert under way,
heard or abandoned, still has the pending copy of a delivered message, and that
a query which began after the delivery cannot have seen it. The inductive
invariant `IInv` therefore relates the four places where a copy of a message can
be: the records (`val`), the calls of database-service (`op`), the handlers (`msg`, `pc`)
and the history. Its parts are named after what they say and `Invariance` proves
that every step keeps them, one lemma per group of actions. The assumptions are
`QueueAssumption` of `MessageQueue` (constants are distinct, timestamps are naturals),
which TLC evaluates in every run of the module.

`TaskStatusProofs` proves first of `TaskSpec`, under the additional `TaskAssumption`:

- `LoopUsesQueue`: `TaskSpec => Spec`: the queue under a loop is a message queue, so the
  four theorems above hold of it;
- `TaskTypeCorrect`, `TaskRunsOnce` (`RunsOnce`), `TaskHeldIsConsumed` (`HeldIsConsumed`).

`RunsOnce` needs to know that the message a Dequeue of the loop is about to return was
not run before. That is `NotReturnedAgain` of the queue, applied to a Dequeue that began
after the loop finished the last task; `TaskInv` adds to `IInv` that the thread which
serves the loop serves a Dequeue (`ServesDequeue`), that everything the loop has run was
delivered before that Dequeue began (`LoopInv`), and what the loop may hold where
(`HeldInv`).

Then it proves of `StatusSpec`:

- `StatusUsesTask`: `StatusSpec => TaskSpec`, so all of the above holds beside the status requests;
- `StatusTypeCorrect`, `TaskFound` (`TaskIsFound`), `ReceivedReported` (`ReceivedIsConsumed`),
  `CountsAreExact` (`CountedOnce`).

`StatusInv` adds to the invariants of the queue and of the loop what a query in progress has
seen and may still see: a record that was answered before the request began is still to be
visited or has been found, unless it was touched; and a copy that the query has found with the status
"pending" is one of a message that nobody had received at the time.

### The HTTP server and the exchange over it

`HttpServerProofs` proves `ServerTypeCorrect`, `WakeupNotLost` (`NoLostWakeup`) and
`AnswerIsOwn` (`OwnAnswer`) for any number of workers, connections and descriptors. The last
rests on `HolderInv`: with polite clients, an open descriptor has exactly one holder, which
is the accept loop, an entry of the queue or a worker, so that no number is closed twice.
An impolite client breaks it (`http_double_close`), and `OwnAnswer` claims nothing then.

The same module proves of `ExchangeSpec`, for any routes and calls and whatever the parsers are:

- `ExchangeIsServer`: `ExchangeSpec => ServerSpec`, so the above holds of a server with an
  application on it;
- `RequestsAreHandledWhole` (`HandledWhole`), if `PartsAreRefused` and `CallsAreTaken`;
- `CallsAreLocal` (`CallIsLocal`), if `RepliesAreRead` as well.

`ExchangeInv` relates what a worker has read of a connection (`ReadingInv`), what an RPC has
processed for it (`HandledInv`), the response on its way and what the caller is told (`TurnInv`). The
last holds while clients are polite, and needs `AnswerInv` of the server: that no other worker has
the descriptor. The three hypotheses say of the texts of the calls that a part is refused,
the whole is taken for the message that was meant, and a reply is read as it was sent or not at
all. `TextAssumption` of `MCHttpExchange` has TLC evaluate them, with the parsers of
`HttpText`, on every prefix of every call of the run `http`.

### Blobs, accounts, balancer and scribe

`BlobServiceProofs` proves `BlobTypeCorrect`, `MetadataNeedsBytes` (`MetadataHasBytes`),
`AnswerNotOlder` (`BytesNotOlder`) and `AnswerIsRecent` (`ReadIsRecent`) for any number of handlers,
workers and upserts of any sizes. Its invariant has two parts: `StoredInv`, `WriterInv`
and `FileInv` hold whether Writes overlap or not, and give the first; `AloneInv` and `ReadInv` hold
while none have overlapped, and relate the bytes on the disk, those a reader has, and the
requests that had been answered when it began.

`AccountsProofs` proves `TypeCorrect`, `LogoutIsFinal` (`LoggedOutStaysOut`), `SessionsLast`
(`SessionIsKept`) and `EveryAccountIsFound` (`AccountIsFound`) for any number of threads,
users and tokens. Its invariant follows a token through its life: *unborn* while no upsert of
it has begun, carried by one thread (`OneCarrier`), *born* with the first answer that has it,
*dead* once a logout has stored it as ended; `TokensInv` says of the record, of every call on
database-service and of every thread which copies of the token they may have at each of these
times, and `UserInv` and `FoundUserInv` that a user is upserted once and never changed.

`LoadBalancerProofs` proves `BalancerTypeCorrect` and `RefusalJustified`
(`RefusalIsJustified`) for any number of handlers, replicas and services. The invariant
`SteadyInv` says that at every point of a discovery the replicas that were registered at
its beginning and have been up since are among those still to be probed or already
found, and that the cache keeps this for those who read it.

`ScribeProofs` proves `ScribeTypeCorrect` and the six properties of `Scribe` (`OneRunPerJobHolds`,
`LogIsWholeHolds`, `PageGoesForwardHolds`, `JobIsFoundHolds`, `AudioNotOlderHolds`,
`NothingTranscribedHolds`) for any number of uploads, loops and workers, in any deployment,
with crashes and with calls that their callers gave up. None of them is inductive: that no chunk is
lost needs to know that the record is not replaced between the read and the upsert of
`AppendJobLogChunk`, which `RunOf` says (one loop past `mkdir`, one upsert at a time, and none beside a loop
that is about to read); that a page does not go back needs the chain of `PageOf` from what it
showed, over what its query has found and the record, to what is about to replace it. Eleven kinds of
steps bring something new for a job, and have a lemma each; all others, crashes and the steps
of other jobs included, satisfy `NothingNew`, which keeps the invariant (`NothingNewKept`). The assumption is
`ScribeAssumption` of `Scribe` (uploads are not loops, and the absent values are none of the
present ones), which TLC evaluates in the run `scribe`.

Each of these invariants was checked by TLC, as an invariant of the run of its module, before
it was proved.

### Only model-checked

- Liveness under fairness (`TaskIsRun`, `EveryConnectionCloses`, `StopEnds`, `StopsRefusing`,
  `StopsRouting`) and anything with ENABLED, which the provers do not handle.
- What the recursive parsers and serializers of `JsonText` and `HttpText` compute: induction over
  texts is out of the provers' reach. It enters the theorems by the hypotheses named above, which TLC evaluates
  on the texts of the runs only.

## 5. What is not modelled, and what was observed

**Left to do:** `cite.pub`: a short code is drawn until no saved page has it, with a query and a later
upsert, the pattern of `Accounts`.

**Not modelled, and why.**

- The in-memory database client serves the tests alone; `QueryEngine` has the evaluation that
  the services use.
- `Response::Parse`, which nobody but tests calls; `SetHeader` and `NormalizedHost`; the choice of a
  file part in a multipart body; the dependency injection of contexts (it decides which
  object a handler is given, once, at the start).
- Games, logs and prompts of the web site: single queries and upserts of records that
  nothing else changes.
- Protos and validators: generated conversions, one line per field. HTML, viewers and web front
  ends: they render and keep nothing.
- The prober is a sequential client; its reuse of uuids is in `ClientUuids`.
- The data structures of `q`, the renderer, AI and games: sequential algorithms that no
  service uses. devtools: generators that run when the program is built.

**Observed while modelling**, and not claimed by a comment or a test, so not among the findings:

- The uploads page and the worker do not fit each other: the process of the worker refuses the
  option `--consumer_service` of `src/system.gpt.yml:295`; without it, `RunWorker` polls with
  an empty `consumer_service`, which `DequeueRPC` refuses; tasks of uploads go to the loop of
  task-queue-service, which has no handler for them; and the worker asks blob-service for
  `/rpc/get_blob/`, which it does not serve. `NothingTranscribed` says what follows. The
  status "failed", which the page knows, is never stored, and the link to a transcript
  (`apps/scribe-service/main.gpt.cc:39`) compares ten characters with eleven.
- `QueryParamsToJson` (`net/rpc/rpc.cc:27`) takes a value that begins with a digit for a number,
  so that `GET /rpc/task/status/?uuid=...` answers 400 for every uuid that does. The probe
  uses one that begins with a letter.
- A task that is still pending when its uuid is used again is never run, though its creation was
  answered: the newer record replaces it. So it is with the newer one when the consumed copy of the older is still
  on its way to the store. `TaskIsRun` exempts the one that was replaced; the probers reuse a uuid.
- With two ORDER_BYs or two LIMITs `QueryView` takes the first over values in memory and the service
  the last.
- An upsert that a full disk cuts short is answered as stored, and the torn record fails every
  later query of its collection that looks at a field.
- JSON: keys of maps are written unescaped (`net/json/serialize.cc:147`), integers beyond 32
  bits are truncated (`net/json/parsers.cc:204`) and those beyond 64 refused, a text of white space is null, and text after
  the value is ignored.
- HTTP: a body ends at its first NUL, a buffer that is full has no NUL behind it, a request
  without headers and a path ending in `?` are refused without an answer.
