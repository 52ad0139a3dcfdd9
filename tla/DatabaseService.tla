---------------------------- MODULE DatabaseService ----------------------------
(***************************************************************************)
(* database-service: one collection of JSON records, one file per record,  *)
(* read and written by the worker threads of the service's HTTP server.    *)
(*                                                                         *)
(* Every handler runs in its own worker thread without a lock, so the      *)
(* system calls of UpsertRPC and QueryRPC interleave.  A step below is one *)
(* call on the file system.  fs::write opens the file with a truncating    *)
(* ofstream and writes the buffered contents when it is closed: two steps, *)
(* with the file empty in between.  A writer that shares this time with    *)
(* another of longer contents leaves the tail of those in the file.        *)
(*                                                                         *)
(* The disk may be full: the stream then writes only the first bytes, or   *)
(* none, and fs::write does not learn of it, since it looks at the stream  *)
(* before it is closed.                                                    *)
(***************************************************************************)
EXTENDS QueryEngine

CONSTANTS
    Workers,   \* the worker threads of the HTTP server
    Meaning,   \* Meaning[t]: the value that text t stands for, Fail if none
    Absent     \* no file for this key

\* A file of length zero.
Empty == <<>>

\* The records fit into the 16 elements up to which StdSort is std::sort.
ASSUME DatabaseAssumption ==
    /\ Absent \notin Texts \union {Empty}
    /\ Empty \notin Texts
    /\ Payloads \subseteq DOMAIN Meaning
    /\ Absent \notin {Meaning[p] : p \in Payloads}
    /\ IsFiniteSet(Payloads)
    /\ IsFiniteSet(Keys)
    /\ Cardinality(Keys) <= 16

VARIABLES
    dir,       \* whether the directory of the collection exists
    file,      \* file[k]: the contents of <collection>/<k>.json
    job,       \* job[w]: the handler that worker thread w is running
    stored,    \* history: the last payload completely written under each key
    cut        \* history: whether a write was cut short

dbVars == <<dir, file, job, stored, cut>>

IdleJob == [stage |-> "idle"]

UpsertStages == {"enter", "mkdir", "open", "write", "ok", "failed"}

DbInit ==
    /\ dir = FALSE
    /\ file = [k \in Keys |-> Absent]
    /\ job = [w \in Workers |-> IdleJob]
    /\ stored = [k \in Keys |-> Absent]
    /\ cut = FALSE

-----------------------------------------------------------------------------
(* UpsertRPC *)

AcceptUpsert(w, k, p) ==
    /\ job[w] = IdleJob
    /\ job' = [job EXCEPT ![w] = [stage |-> "enter", key |-> k, payload |-> p]]
    /\ UNCHANGED <<dir, file, stored, cut>>

\* The test of dir_exists.
EnterUpsert(w) ==
    /\ job[w].stage = "enter"
    /\ job' = [job EXCEPT ![w].stage = IF dir THEN "open" ELSE "mkdir"]
    /\ UNCHANGED <<dir, file, stored, cut>>

\* fs::mkdir returns an error when the directory is already there, which
\* another worker can have made since the test.
MakeDirectory(w) ==
    /\ job[w].stage = "mkdir"
    /\ dir' = TRUE
    /\ job' = [job EXCEPT ![w].stage = IF dir THEN "failed" ELSE "open"]
    /\ UNCHANGED <<file, stored, cut>>

\* payload_json is not JSON.
RefusePayload(w) ==
    /\ job[w].stage = "open"
    /\ Parsed[job[w].payload] = Fail
    /\ job' = [job EXCEPT ![w].stage = "failed"]
    /\ UNCHANGED <<dir, file, stored, cut>>

\* Mutant of OpenRecord: the stream may turn out bad after it truncated the file.
OpenRecordOrFail(w) ==
    /\ job[w].stage = "open"
    /\ Parsed[job[w].payload] # Fail
    /\ file' = [file EXCEPT ![job[w].key] = Empty]
    /\ \E s \in {"write", "failed"} : job' = [job EXCEPT ![w].stage = s]
    /\ UNCHANGED <<dir, stored, cut>>

\* The constructor of the ofstream truncates the record.
OpenRecord(w) ==
    /\ job[w].stage = "open"
    /\ Parsed[job[w].payload] # Fail
    /\ file' = [file EXCEPT ![job[w].key] = Empty]
    /\ job' = [job EXCEPT ![w].stage = "write"]
    /\ UNCHANGED <<dir, stored, cut>>

\* Bytes written from the start of a file.
Overlay(bytes, old) == bytes \o SubSeq(old, Len(bytes) + 1, Len(old))

WriteRecord(w) ==
    /\ job[w].stage = "write"
    /\ file' = [file EXCEPT ![job[w].key] = Overlay(job[w].payload, @)]
    /\ stored' = [stored EXCEPT ![job[w].key] = job[w].payload]
    /\ job' = [job EXCEPT ![w].stage = "ok"]
    /\ UNCHANGED <<dir, cut>>

\* The disk is full behind the first bytes, which may be what another writer
\* has got room for; the handler answers as if all was written.  This happens
\* once.
WriteIsCutShort(w) ==
    /\ ~ cut
    /\ cut' = TRUE
    /\ job[w].stage = "write"
    /\ \E bytes \in Texts \union {Empty} :
        /\ IsStrictPrefix(bytes, job[w].payload)
        /\ Len(bytes) >= Len(file[job[w].key])
        /\ file' = [file EXCEPT ![job[w].key] = bytes]
    /\ stored' = [stored EXCEPT ![job[w].key] = Absent]
    /\ job' = [job EXCEPT ![w].stage = "ok"]
    /\ UNCHANGED dir

UpsertReply(w) ==
    /\ job[w].stage \in {"ok", "failed"}
    /\ job' = [job EXCEPT ![w] = IdleJob]
    /\ UNCHANGED <<dir, file, stored, cut>>

-----------------------------------------------------------------------------
(* QueryRPC *)

AcceptQuery(w, q) ==
    /\ job[w] = IdleJob
    /\ job' = [job EXCEPT ![w] =
                 [stage |-> "list", query |-> q, todo |-> {}, found |-> <<>>]]
    /\ UNCHANGED <<dir, file, stored, cut>>

\* dir_exists and ls: a collection without a directory has no records.
ListRecords(w) ==
    /\ job[w].stage = "list"
    /\ job' = [job EXCEPT
                 ![w].stage = "read",
                 ![w].todo = IF dir THEN {k \in Keys : file[k] # Absent} ELSE {}]
    /\ UNCHANGED <<dir, file, stored, cut>>

\* One turn of the loop over the files, which come in any order: an empty file
\* is skipped, the others are tested against every WHERE.  The first record
\* that cannot be evaluated ends the query.
ReadRecord(w, k) ==
    /\ job[w].stage = "read"
    /\ k \in job[w].todo
    /\ LET verdict == IF file[k] = Empty THEN "no match"
                      ELSE Evaluate(Parsed[file[k]], job[w].query)
       IN  job' = [job EXCEPT
                     ![w].stage = IF verdict = "error" THEN "failed" ELSE "read",
                     ![w].todo = @ \ {k},
                     ![w].found = IF verdict = "match" THEN Append(@, <<k, file[k]>>)
                                  ELSE @]
    /\ UNCHANGED <<dir, file, stored, cut>>

\* Mutant of Answer: LIMIT is applied before ORDER_BY.
AnswerUnsorted(q, found) == Sorted(q, Truncated(found, LimitOf(q)))

Answer(q, found) == Truncated(Sorted(q, found), LimitOf(q))

SortAndLimit(w) ==
    /\ job[w].stage = "read"
    /\ job[w].todo = {}
    /\ job' = IF Sortable(job[w].query, job[w].found)
              THEN [job EXCEPT ![w].stage = "answer",
                               ![w].found = Answer(job[w].query, @)]
              ELSE [job EXCEPT ![w].stage = "failed"]
    /\ UNCHANGED <<dir, file, stored, cut>>

QueryReply(w) ==
    /\ job[w].stage = "answer"
    /\ job' = [job EXCEPT ![w] = IdleJob]
    /\ UNCHANGED <<dir, file, stored, cut>>

-----------------------------------------------------------------------------

\* The process dies: its handlers are gone and the files stay as they are,
\* those that were truncated and not yet written included.
DbCrash ==
    /\ job' = [w \in Workers |-> IdleJob]
    /\ stored' = [k \in Keys |-> IF file[k] = Empty THEN Absent ELSE stored[k]]
    /\ UNCHANGED <<dir, file, cut>>

\* The steps of a handler that its caller takes no part in.
DbInternal ==
    \E w \in Workers :
        \/ EnterUpsert(w)
        \/ MakeDirectory(w)
        \/ RefusePayload(w)
        \/ OpenRecord(w)
        \/ WriteRecord(w)
        \/ WriteIsCutShort(w)
        \/ ListRecords(w)
        \/ \E k \in Keys : ReadRecord(w, k)
        \/ SortAndLimit(w)

DbNext ==
    \/ DbInternal
    \/ DbCrash
    \/ \E w \in Workers :
        \/ \E k \in Keys, p \in Payloads : AcceptUpsert(w, k, p)
        \/ UpsertReply(w)
        \/ \E q \in Queries : AcceptQuery(w, q)
        \/ QueryReply(w)

DbSpec == DbInit /\ [][DbNext]_dbVars

-----------------------------------------------------------------------------

Values == {Meaning[p] : p \in Payloads}

\* A text that stands for a value is read as this value; a payload also over
\* what an earlier write left, and a beginning of it, unless that is no JSON.
TextsAreRead ==
    /\ \A t \in DOMAIN Meaning : Parsed[t] = Meaning[t]
    /\ \A p \in Payloads :
        Meaning[p] # Fail => \A t \in Texts \union {Empty} :
            /\ Overlay(p, t) \in Texts
            /\ Parsed[Overlay(p, t)] = Meaning[p]
            /\ t # Empty /\ IsStrictPrefix(t, p) => Parsed[t] \in {Fail, Meaning[p]}

\* Every record has the fields that the queries look at.
FieldsArePresent ==
    \A q \in Queries, v \in Values \ {Fail} : \A i \in DOMAIN q :
        q[i].type # "LIMIT" => ExtractFieldValue(v, q[i].field) # Fail

\* A field that a query orders by has one type.
FieldsAreComparable ==
    \A q \in Queries : \A i \in DOMAIN q : q[i].type = "ORDER_BY" =>
        LET fields == {ExtractFieldValue(v, q[i].field) : v \in Values} \ {Fail}
        IN  \/ \A f \in fields : f[1] = "int" /\ f[2] \in Int
            \/ \A f \in fields : f[1] = "string" /\ f[2] \in Seq(Int)
            \/ \A f \in fields : f[1] \notin {"int", "string"}

(* A record that was completely written can be read until the next upsert  *)
(* of the same key has truncated it: whatever the other handlers do, the   *)
(* file is empty or missing only while some UpsertRPC on that key stands   *)
(* between the open and the write of fs::write (or died there).            *)
StoredIsReadable ==
    \A k \in Keys : stored[k] # Absent =>
        \/ file[k] = Empty /\ \E w \in Workers : job[w].stage = "write" /\ job[w].key = k
        \/ file[k] # Empty /\ Parsed[file[k]] = Meaning[stored[k]]

(* No text is misread.  A payload is taken for the value that its client   *)
(* wrote; and a query that looks at fields answers with no record that     *)
(* nobody stored, though a write may have been cut short: what there is of *)
(* the text then is no JSON, and fails the query.                          *)
NothingIsMisread ==
    /\ TextsAreRead
    /\ \A w \in Workers :
        /\ job[w].stage = "answer"
        /\ \E i \in DOMAIN job[w].query : job[w].query[i].type # "LIMIT"
        => \A i \in DOMAIN job[w].found :
            Parsed[job[w].found[i][2]] \in Values \ {Fail}

(* An answer has a record once, and its records are in the order that the  *)
(* last ORDER_BY asks for, downwards too: the comparator of SortRecords is *)
(* then no strict weak ordering, since equal values precede one another.   *)
AnswersAreOrdered ==
    \A w \in Workers : job[w].stage = "answer" =>
        LET found == job[w].found
            last  == LastStep(job[w].query, "ORDER_BY")
        IN  \A i, j \in DOMAIN found : i < j =>
                /\ found[i][1] # found[j][1]
                /\ last # 0 =>
                    LET step == job[w].query[last]
                    IN  IF step.direction = "asc"
                        THEN ~Less(Parsed[found[j][2]], Parsed[found[i][2]], step.field)
                        ELSE ~Less(Parsed[found[i][2]], Parsed[found[j][2]], step.field)

(* The collection appears to its callers as a set of values that upserts   *)
(* remove and put at single instants, and queries look at one by one; the  *)
(* answer holds the records that the WHEREs admit, as many as the LIMIT    *)
(* allows, and those left out come no earlier in the order than those that *)
(* are in.  So the file protocol, the writing and reading of JSON and the  *)
(* evaluation implement RecordStore, as long as no write was cut short.    *)
Ahead(q, v) ==
    LET last == LastStep(q, "ORDER_BY")
    IN  {x \in Values \ {Fail} :
            /\ last # 0
            /\ IF q[last].direction = "asc" THEN Less(x, v, q[last].field)
                                            ELSE Less(v, x, q[last].field)}

MatchOf == [q \in Queries |-> {v \in Values : Evaluate(v, q) = "match"}]

RankOf == [q \in Queries |-> [v \in Values \ {Fail} |-> Cardinality(Ahead(q, v))]]

LimitsOf == [q \in Queries |-> LimitOf(q)]

\* What its callers see of a record, and of the handler that serves a call.
Shown(text) == IF text \in {Empty, Absent} THEN Absent ELSE Parsed[text]

ShownPairs(found) == {<<found[i][1], Parsed[found[i][2]]>> : i \in DOMAIN found}

CallOf(jb) ==
    IF jb.stage \in UpsertStages /\ "payload" \in DOMAIN jb
    THEN [stage |-> CASE jb.stage \in {"enter", "mkdir", "open"} -> "begun"
                      [] jb.stage = "write" -> "removed"
                      [] OTHER -> jb.stage,
          key |-> jb.key, payload |-> Meaning[jb.payload]]
    ELSE IF jb = IdleJob THEN IdleJob
    ELSE [jb EXCEPT !.found = ShownPairs(@)]

ShownRecords == [k \in Keys |-> Shown(file[k])]

ShownCalls == [w \in Workers |-> CallOf(job[w])]

Store == INSTANCE RecordStore WITH
    Payloads <- Values,
    Match <- MatchOf,
    Rank <- RankOf,
    Limit <- LimitsOf,
    val <- ShownRecords,
    op <- ShownCalls

ImplementsRecordStore ==
    Store!Init /\ [][Store!Next \/ cut']_Store!vars
=============================================================================
