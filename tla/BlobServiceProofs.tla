-------------------------- MODULE BlobServiceProofs --------------------------
(***************************************************************************)
(* The safety properties of blob-service for any number of handlers,       *)
(* workers of database-service and requests.                               *)
(*                                                                         *)
(* Metadata is written by handlers that have renamed a file (StoredInv),   *)
(* and a rename leaves a blob for good (FileInv): that is                  *)
(* MetadataHasBytes, overlap or not.  Without overlapping Writes there is  *)
(* one writer, the temporary file is its own, and the blob is what the     *)
(* last rename put there (AloneInv), which is what a reader has to know    *)
(* (ReadInv).                                                              *)
(***************************************************************************)
EXTENDS BlobService, SequenceTheorems, TLAPS

UpsertOps == [stage : {"begun", "removed", "ok", "failed"}, key : {Uuid}, payload : Ids]
QueryOps == [stage : {"list", "read", "answer"}, query : {Uuid},
             todo : SUBSET {Uuid}, found : SUBSET ({Uuid} \X Ids)]

(* Where a thread waits for an answer, it waits for some worker.           *)
CallInv ==
    /\ op \in [Workers -> UpsertOps \union QueryOps \union {DB!NoOp}]
    /\ \A t \in Threads : pc[t] \in {"saving", "checking", "find"} => call[t] \in Workers

TypeInv == BlobTypeOK /\ CallInv

-----------------------------------------------------------------------------

\* The bytes of request i were renamed to the blob.
IsStored(i) == \E n \in DOMAIN stored : stored[n] = i

(* Whatever carries the metadata of a request comes after its rename.      *)
StoredInv ==
    /\ \A m, n \in DOMAIN stored : stored[m] = stored[n] => m = n
    /\ \A n \in DOMAIN stored : stored[n] \in used
    /\ \A i \in answered : IsStored(i)
    /\ \A t \in Threads : before[t] \subseteq answered
    /\ val[Uuid] # NoId => IsStored(val[Uuid])
    /\ \A w \in Workers : op[w] \in UpsertOps => IsStored(op[w].payload)
    /\ \A w \in Workers : op[w] \in QueryOps => \A r \in op[w].found : IsStored(r[2])
    /\ \A t \in Threads :
        pc[t] \in {"meta", "saving", "check", "checking", "reply", "read", "answer"}
            => IsStored(id[t])

\* Thread t is in Write, and its request is not stored yet.
Writes(t) == pc[t] \in Writing \ {"delete"}

(* A request is written by one thread, and stored once.                    *)
WriterInv ==
    /\ \A t \in Threads : Writes(t) => id[t] \in used /\ ~ IsStored(id[t])
    /\ \A s, t \in Threads : Writes(s) /\ Writes(t) /\ id[s] = id[t] => s = t

(* The two names never refer to one inode, and a rename leaves a blob.     *)
FileInv ==
    /\ \A t \in Threads :
        pc[t] \in {"enter", "mkdir", "open"} => tmp # id[t] /\ blob # id[t]
    /\ tmp # NoFile => tmp # blob /\ tmp \in used
    /\ blob # NoFile => blob \in used
    /\ stored # <<>> <=> blob # NoFile

(* A writer that is alone finds its temporary file as it left it.          *)
AloneInv ==
    ~ overlap =>
        /\ \A s, t \in Threads : pc[s] \in Writing /\ pc[t] \in Writing => s = t
        /\ \A t \in Threads :
            /\ pc[t] # "delete"
            /\ pc[t] = "write" => file[t] = tmp /\ tmp # NoFile /\ bytes[tmp] = <<>>
            /\ pc[t] = "rename" => tmp # NoFile /\ bytes[tmp] = Data(id[t])
        /\ blob # NoFile => bytes[blob] = Data(stored[Len(stored)])

(* What a reader has read was stored no earlier than its metadata and than *)
(* everything that was answered before it began.                           *)
ReadInv ==
    ~ overlap =>
        \A t \in Threads : pc[t] = "answer" =>
            \E n \in DOMAIN stored :
                /\ got[t] = Data(stored[n])
                /\ \A m \in DOMAIN stored :
                    stored[m] = id[t] \/ stored[m] \in before[t] => m <= n

-----------------------------------------------------------------------------
(* Types *)

USE BlobAssumption

(* The bytes of a request, and a write over what a file held.              *)
LEMMA DataType == \A i \in Ids : Data(i) \in Seq(Ids)
BY DEF Data

LEMMA OverwriteType ==
    ASSUME NEW old \in Seq(Ids), NEW new \in Seq(Ids)
    PROVE  /\ Overwrite(old, new) \in Seq(Ids)
           /\ Overwrite(<<>>, new) = new
<1>1. SubSeq(old, Len(new) + 1, Len(old)) \in Seq(Ids)
  BY SubSeqProperties, ElementOfSeq
<1>2. SubSeq(<<>>, Len(new) + 1, 0) = <<>>
  BY SubSeqEmpty
<1>3. QED BY <1>1, <1>2, ConcatProperties, ConcatEmptySeq DEF Overwrite

LEMMA TypeInit == BlobInit => TypeInv
<1> SUFFICES ASSUME BlobInit PROVE TypeInv
  OBVIOUS
<1>1. stored \in Seq(Ids) /\ <<>> \in Seq(Ids)
  BY DEF BlobInit
<1>2. BlobTypeOK
  BY <1>1 DEF BlobInit, BlobTypeOK, DB!Init, Inodes
<1>3. CallInv
  BY DEF BlobInit, CallInv, DB!Init
<1>4. QED BY <1>2, <1>3 DEF TypeInv

(* The end of a handler, whichever it is.                                  *)
LEMMA FinishType ==
    ASSUME BlobTypeOK, NEW t \in Threads, Finish(t)
    PROVE  /\ pc' \in [Threads -> Writing \union
                {"idle", "meta", "saving", "check", "checking", "reply",
                 "find", "read", "answer"}]
           /\ call' \in [Threads -> Workers \union {NoCall}]
           /\ id' \in [Threads -> Ids \union {NoId}]
           /\ file' \in [Threads -> Inodes \union {NoFile}]
           /\ got' \in [Threads -> Seq(Ids)]
           /\ before' \in [Threads -> SUBSET Ids]
           /\ \A s \in Threads : (id'[s] = NoId) <=> (pc'[s] \in {"idle", "find"})
           /\ \A s \in Threads : pc'[s] \in {"saving", "checking", "find"} =>
                pc'[s] = pc[s] /\ call'[s] = call[s]
BY DEF BlobTypeOK, Finish

(* BlobStore::Write keeps the types.                                       *)
LEMMA WriteType ==
    ASSUME TypeInv, NEW t \in Threads,
           \/ \E i \in Ids : BeginUpsertBlob(t, i)
           \/ TestDirectory(t)
           \/ MakeDirectory(t)
           \/ OpenTemporary(t)
           \/ WriteTemporary(t)
           \/ Rename(t)
           \/ RenameFails(t)
           \/ DeleteTemporary(t)
    PROVE  TypeInv'
<1>0. BlobTypeOK /\ CallInv
  BY DEF TypeInv
<1>1. CASE \E i \in Ids : BeginUpsertBlob(t, i)
  BY <1>0, <1>1 DEF TypeInv, BlobTypeOK, CallInv, BeginUpsertBlob, Goto, dbVars, fileVars, Writing
<1>2. CASE TestDirectory(t)
  BY <1>0, <1>2 DEF TypeInv, BlobTypeOK, CallInv, TestDirectory, Goto, dbVars, fileVars, history,
     Writing
<1>3. CASE MakeDirectory(t)
  <2>1. CASE dir
    BY <1>0, <1>3, <2>1, FinishType DEF TypeInv, BlobTypeOK, CallInv, MakeDirectory, dbVars
  <2>2. CASE ~ dir
    BY <1>0, <1>3, <2>2 DEF TypeInv, BlobTypeOK, CallInv, MakeDirectory, Goto, dbVars, history,
       Writing
  <2>3. QED BY <2>1, <2>2
<1>4. CASE OpenTemporary(t)
  <2>1. id[t] \in Ids
    BY <1>0, <1>4 DEF BlobTypeOK, OpenTemporary, Goto
  <2>2. PICK n \in Ids :
          /\ tmp' = n
          /\ bytes' = [bytes EXCEPT ![n] = <<>>]
          /\ file' = [file EXCEPT ![t] = n]
    BY <1>0, <1>4, <2>1 DEF BlobTypeOK, OpenTemporary, Inodes
  <2>3. bytes' \in [Inodes -> Seq(Ids)]
    BY <1>0, <2>2, EmptySeq DEF BlobTypeOK
  <2>4. QED
    BY <1>0, <1>4, <2>2, <2>3 DEF TypeInv, BlobTypeOK, CallInv, OpenTemporary, Goto, dbVars,
       history, Writing, Inodes
<1>5. CASE WriteTemporary(t)
  <2>1. id[t] \in Ids
    BY <1>0, <1>5 DEF BlobTypeOK, WriteTemporary, Goto
  <2>2. bytes' \in [Inodes -> Seq(Ids)]
    <3>1. \A n \in Inodes : Overwrite(bytes[n], Data(id[t])) \in Seq(Ids)
      BY <1>0, <2>1, DataType, OverwriteType DEF BlobTypeOK
    <3>2. QED BY <1>0, <1>5, <3>1 DEF BlobTypeOK, WriteTemporary
  <2>3. QED
    BY <1>0, <1>5, <2>2 DEF TypeInv, BlobTypeOK, CallInv, WriteTemporary, Goto, dbVars, history,
       Writing
<1>6. CASE Rename(t)
  <2>1. id[t] \in Ids
    BY <1>0, <1>6 DEF BlobTypeOK, Rename, Goto
  <2>2. stored' \in Seq(Ids)
    BY <1>0, <1>6, <2>1, AppendProperties DEF BlobTypeOK, Rename
  <2>3. QED
    BY <1>0, <1>6, <2>2 DEF TypeInv, BlobTypeOK, CallInv, Rename, Goto, dbVars, Writing
<1>7. CASE RenameFails(t)
  BY <1>0, <1>7 DEF TypeInv, BlobTypeOK, CallInv, RenameFails, Goto, dbVars, fileVars, history,
     Writing
<1>8. CASE DeleteTemporary(t)
  BY <1>0, <1>8, FinishType DEF TypeInv, BlobTypeOK, CallInv, DeleteTemporary, dbVars
<1>9. QED BY <1>1, <1>2, <1>3, <1>4, <1>5, <1>6, <1>7, <1>8

(* The shapes of a call, by its stage.                                     *)
LEMMA OpShape ==
    ASSUME CallInv, NEW w \in Workers
    PROVE  /\ op[w] \in UpsertOps \union QueryOps \union {DB!NoOp}
           /\ op[w].stage \in {"begun", "removed", "ok", "failed"} => op[w] \in UpsertOps
           /\ op[w].stage \in {"list", "read", "answer"} => op[w] \in QueryOps
           /\ DB!NoOp \notin UpsertOps \union QueryOps
           /\ op[w] \in UpsertOps => op[w] \notin QueryOps
BY DEF CallInv, UpsertOps, QueryOps, DB!NoOp

(* The beginning and the end of a call.                                    *)
LEMMA CallerOp ==
    ASSUME CallInv, NEW w \in Workers,
           \/ \E i \in Ids : DB!BeginUpsert(w, Uuid, i)
           \/ DB!BeginQuery(w, Uuid)
           \/ DB!EndUpsert(w)
           \/ DB!EndQuery(w)
    PROVE  /\ val' = val
           /\ op' \in [Workers -> UpsertOps \union QueryOps \union {DB!NoOp}]
           /\ \A x \in Workers \ {w} : op'[x] = op[x]
           /\ op'[w] \in QueryOps => op'[w].found = {}
<1>1. CASE \E i \in Ids : DB!BeginUpsert(w, Uuid, i)
  BY <1>1 DEF CallInv, UpsertOps, QueryOps, DB!BeginUpsert
<1>2. CASE DB!BeginQuery(w, Uuid)
  <2>1. DB!QueryOp("list", Uuid, {}, {}) \in QueryOps
    BY DEF QueryOps, DB!QueryOp
  <2>2. DB!QueryOp("list", Uuid, {}, {}).found = {}
    BY DEF DB!QueryOp
  <2>3. QED BY <1>2, <2>1, <2>2 DEF CallInv, DB!BeginQuery
<1>3. CASE DB!EndUpsert(w) \/ DB!EndQuery(w)
  BY <1>3 DEF CallInv, QueryOps, DB!NoOp, DB!EndUpsert, DB!EndQuery
<1>4. QED BY <1>1, <1>2, <1>3

(* The handler's steps that call database-service, and its answers.        *)
LEMMA HandlerType ==
    ASSUME TypeInv, NEW t \in Threads,
           \/ \E w \in Workers :
                SaveMetadata(t, w) \/ CheckMetadata(t, w) \/ BeginGetBlob(t, w)
           \/ MetadataSaved(t)
           \/ MetadataFails(t)
           \/ MetadataChecked(t)
           \/ ReplyUpsert(t)
           \/ MetadataFound(t)
           \/ MetadataMissing(t)
           \/ ReadBlob(t)
           \/ ReplyGet(t)
           \/ GiveUp(t)
    PROVE  TypeInv'
<1>0. BlobTypeOK /\ CallInv
  BY DEF TypeInv
<1>1. ASSUME NEW w \in Workers, SaveMetadata(t, w) PROVE TypeInv'
  <2>1. id[t] \in Ids
    BY <1>0, <1>1 DEF BlobTypeOK, SaveMetadata, Goto
  <2>2. QED
    BY <1>0, <1>1, <2>1, CallerOp DEF TypeInv, BlobTypeOK, CallInv, SaveMetadata, Goto,
       fileVars, history
<1>2. ASSUME NEW w \in Workers, CheckMetadata(t, w) PROVE TypeInv'
  BY <1>0, <1>2, CallerOp DEF TypeInv, BlobTypeOK, CallInv, CheckMetadata, Goto, fileVars, history
<1>3. ASSUME NEW w \in Workers, BeginGetBlob(t, w) PROVE TypeInv'
  BY <1>0, <1>3, CallerOp DEF TypeInv, BlobTypeOK, CallInv, BeginGetBlob, Goto, fileVars
<1>4. CASE MetadataSaved(t) \/ MetadataChecked(t)
  <2>1. call[t] \in Workers
    BY <1>0, <1>4 DEF CallInv, MetadataSaved, MetadataChecked, Goto
  <2>2. val' = val /\ op' \in [Workers -> UpsertOps \union QueryOps \union {DB!NoOp}]
    BY <1>0, <1>4, <2>1, CallerOp DEF MetadataSaved, MetadataChecked
  <2>3. QED
    BY <1>0, <1>4, <2>2 DEF TypeInv, BlobTypeOK, CallInv, MetadataSaved, MetadataChecked, Goto,
       fileVars, history
<1>5. CASE MetadataFails(t) \/ MetadataMissing(t)
  BY <1>0, <1>5, FinishType, CallerOp DEF TypeInv, BlobTypeOK, CallInv, MetadataFails,
     MetadataMissing, fileVars
<1>6. CASE ReplyUpsert(t)
  <2>1. id[t] \in Ids
    BY <1>0, <1>6 DEF BlobTypeOK, ReplyUpsert
  <2>2. QED
    BY <1>0, <1>6, <2>1, FinishType DEF TypeInv, BlobTypeOK, CallInv, ReplyUpsert, dbVars,
       fileVars
<1>7. CASE MetadataFound(t)
  <2>1. call[t] \in Workers /\ op[call[t]] \in QueryOps
    BY <1>0, <1>7, OpShape DEF CallInv, MetadataFound, Goto, DB!EndQuery
  <2>2. \A r \in op[call[t]].found : r[2] \in Ids
    BY <2>1 DEF QueryOps
  <2>3. QED
    BY <1>0, <1>7, <2>1, <2>2, CallerOp DEF TypeInv, BlobTypeOK, CallInv, MetadataFound, Goto,
       fileVars, history
<1>8. CASE ReadBlob(t)
  <2>1. bytes[blob] \in Seq(Ids)
    BY <1>0, <1>8 DEF BlobTypeOK, ReadBlob
  <2>2. QED
    BY <1>0, <1>8, <2>1 DEF TypeInv, BlobTypeOK, CallInv, ReadBlob, Goto, dbVars, fileVars, history
<1>9. CASE ReplyGet(t) \/ GiveUp(t)
  BY <1>0, <1>9, FinishType DEF TypeInv, BlobTypeOK, CallInv, ReplyGet, GiveUp, dbVars, fileVars
<1>10. QED BY <1>1, <1>2, <1>3, <1>4, <1>5, <1>6, <1>7, <1>8, <1>9

(* What a step of database-service does to a call and to the record.       *)
LEMMA ServerOp ==
    ASSUME TypeInv, NEW w \in Workers, DB!Step(w)
    PROVE  \/ /\ op[w] \in UpsertOps
              /\ \E s \in {"removed", "ok", "failed"} : op' = [op EXCEPT ![w].stage = s]
              /\ op'[w] \in UpsertOps /\ op'[w].payload = op[w].payload
              /\ \/ val' = val
                 \/ val' = [val EXCEPT ![Uuid] = NoId]
                 \/ val' = [val EXCEPT ![Uuid] = op[w].payload]
           \/ /\ op[w] \in QueryOps
              /\ val' = val
              /\ \E o \in QueryOps :
                    /\ op' = [op EXCEPT ![w] = o]
                    /\ \A r \in o.found : r \in op[w].found \/ (r[2] = val[Uuid] /\ r[2] \in Ids)
<1>0. CallInv /\ val \in [{Uuid} -> Ids \union {NoId}]
  BY DEF TypeInv, BlobTypeOK
<1>1. CASE DB!FailUpsert(w) \/ DB!Remove(w) \/ DB!Put(w)
  <2>1. op[w] \in UpsertOps
    BY <1>0, <1>1, OpShape DEF DB!FailUpsert, DB!Remove, DB!Put
  <2>2. op[w].key = Uuid /\ op[w].payload \in Ids
    BY <2>1 DEF UpsertOps
  <2>3. \A s \in {"removed", "ok", "failed"} :
          /\ [op EXCEPT ![w].stage = s][w] \in UpsertOps
          /\ [op EXCEPT ![w].stage = s][w].payload = op[w].payload
    BY <1>0, <2>1 DEF CallInv, UpsertOps
  <2>4. QED
    BY <1>1, <2>1, <2>2, <2>3 DEF DB!FailUpsert, DB!Remove, DB!Put
<1>2. CASE DB!List(w)
  <2>1. op[w] \in QueryOps /\ op[w].query = Uuid
    BY <1>0, <1>2, OpShape DEF DB!List, QueryOps
  <2>2. PICK T \in SUBSET {Uuid} : op' = [op EXCEPT ![w] = DB!QueryOp("read", op[w].query, T, {})]
    BY <1>2 DEF DB!List
  <2>3. DB!QueryOp("read", op[w].query, T, {}) \in QueryOps
    BY <2>1 DEF DB!QueryOp, QueryOps
  <2>4. QED BY <1>2, <2>1, <2>2, <2>3 DEF DB!QueryOp, DB!List
<1>3. ASSUME NEW k \in {Uuid}, DB!See(w, k) PROVE
          /\ op[w] \in QueryOps
          /\ val' = val
          /\ \E o \in QueryOps :
                /\ op' = [op EXCEPT ![w] = o]
                /\ \A r \in o.found : r \in op[w].found \/ (r[2] = val[Uuid] /\ r[2] \in Ids)
  <2>1. op[w] \in QueryOps /\ op[w].query = Uuid
    BY <1>0, <1>3, OpShape DEF DB!See, QueryOps
  <2> DEFINE seen == IF val[Uuid] \in Ids THEN {<<Uuid, val[Uuid]>>} ELSE {}
             o == DB!QueryOp("read", Uuid, op[w].todo \ {Uuid}, op[w].found \union seen)
  <2>2. op' = [op EXCEPT ![w] = o] /\ val' = val
    BY <1>3, <2>1 DEF DB!See
  <2>3. o \in QueryOps
    BY <2>1 DEF QueryOps, DB!QueryOp
  <2>4. o.found = op[w].found \union seen
    BY DEF DB!QueryOp
  <2>5. \A r \in o.found : r \in op[w].found \/ (r[2] = val[Uuid] /\ r[2] \in Ids)
    BY <2>4
  <2> HIDE DEF o
  <2>6. QED BY <2>1, <2>2, <2>3, <2>5
<1>4. CASE DB!AnswerQuery(w)
  <2>1. op[w] \in QueryOps
    BY <1>0, <1>4, OpShape DEF DB!AnswerQuery
  <2>2. PICK R \in SUBSET op[w].found :
            op' = [op EXCEPT ![w] = DB!QueryOp("answer", op[w].query, {}, R)]
    BY <1>4 DEF DB!AnswerQuery, DB!Answers
  <2>3. DB!QueryOp("answer", op[w].query, {}, R) \in QueryOps
    BY <2>1 DEF DB!QueryOp, QueryOps
  <2>4. QED BY <1>4, <2>1, <2>2, <2>3 DEF DB!QueryOp, DB!AnswerQuery
<1>5. QED BY <1>1, <1>2, <1>3, <1>4 DEF DB!Step

(* database-service keeps the types.                                       *)
LEMMA ServerType ==
    ASSUME TypeInv, DatabaseStep \/ \E w \in Workers : Unheard(w)
    PROVE  TypeInv'
<1>0. BlobTypeOK /\ CallInv
  BY DEF TypeInv
<1>1. UNCHANGED <<fileVars, local, history>>
  BY DEF DatabaseStep, Unheard
<1>2. val' \in [{Uuid} -> Ids \union {NoId}]
      /\ op' \in [Workers -> UpsertOps \union QueryOps \union {DB!NoOp}]
  <2>1. ASSUME NEW w \in Workers, DB!Step(w)
        PROVE  /\ val' \in [{Uuid} -> Ids \union {NoId}]
               /\ op' \in [Workers -> UpsertOps \union QueryOps \union {DB!NoOp}]
    <3>1. op[w] \in UpsertOps => op[w].payload \in Ids
      BY DEF UpsertOps
    <3>2. val' \in [{Uuid} -> Ids \union {NoId}]
      BY <1>0, <2>1, <3>1, ServerOp DEF BlobTypeOK
    <3>3. op' \in [Workers -> UpsertOps \union QueryOps \union {DB!NoOp}]
      BY <1>0, <2>1, ServerOp DEF CallInv
    <3>4. QED BY <3>2, <3>3
  <2>2. ASSUME NEW w \in Workers, Unheard(w)
        PROVE  val' = val /\ op' \in [Workers -> UpsertOps \union QueryOps \union {DB!NoOp}]
    BY <1>0, <2>2, CallerOp DEF Unheard
  <2>3. QED BY <1>0, <2>1, <2>2 DEF DatabaseStep, DB!Internal, BlobTypeOK, CallInv
<1>3. QED BY <1>0, <1>1, <1>2 DEF TypeInv, BlobTypeOK, CallInv, fileVars, local, history

LEMMA TypeNext == TypeInv /\ [BlobNext]_blobVars => TypeInv'
<1> SUFFICES ASSUME TypeInv, [BlobNext]_blobVars PROVE TypeInv'
  OBVIOUS
<1>1. CASE BlobNext
  BY <1>1, WriteType, HandlerType, ServerType DEF BlobNext
<1>2. CASE UNCHANGED blobVars
  BY <1>2 DEF TypeInv, BlobTypeOK, CallInv, blobVars, dbVars, fileVars, local, history
<1>3. QED BY <1>1, <1>2

(* The variables keep their types, for any number of handlers and requests.*)
THEOREM BlobTypeCorrect == BlobSpec => []BlobTypeOK
<1>1. TypeInv => BlobTypeOK
  BY DEF TypeInv
<1>2. QED BY <1>1, TypeInit, TypeNext, PTL DEF BlobSpec

-----------------------------------------------------------------------------
(* StoredInv and WriterInv *)

KeepInv == TypeInv /\ StoredInv /\ WriterInv

LEMMA KeepInit == BlobInit => KeepInv
<1> SUFFICES ASSUME BlobInit PROVE KeepInv
  OBVIOUS
<1>1. DOMAIN stored = {}
  BY DEF BlobInit
<1>2. \A w \in Workers : op[w] \notin UpsertOps \union QueryOps
  BY DEF BlobInit, DB!Init, DB!NoOp, UpsertOps, QueryOps
<1>3. val[Uuid] = NoId
  BY DEF BlobInit, DB!Init
<1>4. StoredInv
  BY <1>1, <1>2, <1>3 DEF BlobInit, StoredInv
<1>5. WriterInv
  BY DEF BlobInit, WriterInv, Writes, Writing
<1>6. QED BY <1>4, <1>5, TypeInit DEF KeepInv

(* A step that renames nothing stores nothing.                             *)
LEMMA SameStored ==
    ASSUME stored' = stored
    PROVE  \A i : IsStored(i)' <=> IsStored(i)
BY DEF IsStored

(* What a renaming adds to the requests that are stored.                   *)
LEMMA RenameStored ==
    ASSUME TypeInv, NEW t \in Threads, Rename(t)
    PROVE  /\ id[t] \in Ids
           /\ Len(stored) \in Nat
           /\ DOMAIN stored = 1 .. Len(stored)
           /\ DOMAIN stored' = 1 .. Len(stored) + 1
           /\ \A n \in DOMAIN stored : stored'[n] = stored[n]
           /\ stored'[Len(stored) + 1] = id[t]
           /\ \A i : IsStored(i)' <=> IsStored(i) \/ i = id[t]
<1>1. stored \in Seq(Ids) /\ id[t] \in Ids /\ stored' = Append(stored, id[t])
  BY DEF TypeInv, BlobTypeOK, Rename, Goto
<1>2. /\ Len(stored) \in Nat
      /\ DOMAIN stored = 1 .. Len(stored)
      /\ DOMAIN stored' = 1 .. Len(stored) + 1
      /\ \A n \in DOMAIN stored : stored'[n] = stored[n]
      /\ stored'[Len(stored) + 1] = id[t]
  BY <1>1
<1>3. \A n \in DOMAIN stored' : n \in DOMAIN stored \/ n = Len(stored) + 1
  BY <1>2
<1>4. QED BY <1>1, <1>2, <1>3 DEF IsStored

(* The steps of Write and of GetBlob that keep the history as it is.       *)
LEMMA QuietKeep ==
    ASSUME KeepInv, NEW t \in Threads,
           \/ TestDirectory(t) \/ MakeDirectory(t) \/ OpenTemporary(t) \/ WriteTemporary(t)
           \/ RenameFails(t) \/ DeleteTemporary(t) \/ ReadBlob(t) \/ ReplyGet(t) \/ GiveUp(t)
    PROVE  StoredInv' /\ WriterInv'
<1>1. /\ UNCHANGED <<val, op, used, stored, answered>>
      /\ \A s \in Threads : before'[s] \subseteq before[s]
  BY DEF KeepInv, TypeInv, BlobTypeOK, TestDirectory, MakeDirectory, OpenTemporary,
     WriteTemporary, RenameFails, DeleteTemporary, ReadBlob, ReplyGet, GiveUp, Finish, dbVars,
     history
<1>2. \A s \in Threads :
        \/ pc'[s] = pc[s] /\ id'[s] = id[s]
        \/ Writes(s) /\ Writes(s)' /\ id'[s] = id[s]
        \/ pc'[s] \in {"idle", "delete"}
        \/ pc[s] = "read" /\ pc'[s] = "answer" /\ id'[s] = id[s]
  BY DEF KeepInv, TypeInv, BlobTypeOK, TestDirectory, MakeDirectory, OpenTemporary,
     WriteTemporary, RenameFails, DeleteTemporary, ReadBlob, ReplyGet, GiveUp, Finish, Goto,
     Writes, Writing
<1>3. StoredInv'
  BY <1>1, <1>2, SameStored DEF KeepInv, StoredInv, Writes, Writing
<1>4. WriterInv'
  BY <1>1, <1>2, SameStored DEF KeepInv, WriterInv, Writes, Writing
<1>5. QED BY <1>3, <1>4

(* A new request is written by nobody else, and was not stored before.     *)
LEMMA BeginKeep ==
    ASSUME KeepInv, NEW t \in Threads, NEW i \in Ids, BeginUpsertBlob(t, i)
    PROVE  StoredInv' /\ WriterInv'
<1>1. /\ UNCHANGED <<val, op, stored, answered, before>>
      /\ i \notin used /\ used' = used \union {i}
  BY DEF BeginUpsertBlob, dbVars
<1>2. \A s \in Threads : s # t => pc'[s] = pc[s] /\ id'[s] = id[s]
  BY DEF KeepInv, TypeInv, BlobTypeOK, BeginUpsertBlob, Goto
<1>3. pc'[t] = "enter" /\ id'[t] = i
  BY DEF KeepInv, TypeInv, BlobTypeOK, BeginUpsertBlob, Goto
<1>4. ~ IsStored(i)
  BY <1>1 DEF KeepInv, StoredInv, IsStored
<1>5. StoredInv'
  BY <1>1, <1>2, <1>3, SameStored DEF KeepInv, StoredInv
<1>6. WriterInv'
  BY <1>1, <1>2, <1>3, <1>4, SameStored DEF KeepInv, WriterInv, Writes, Writing
<1>7. QED BY <1>5, <1>6

(* A rename stores the request of its thread.                              *)
LEMMA RenameKeep ==
    ASSUME KeepInv, NEW t \in Threads, Rename(t)
    PROVE  StoredInv' /\ WriterInv'
<1>1. UNCHANGED <<val, op, used, answered, before, id>>
  BY DEF Rename, dbVars
<1>2. pc[t] = "rename" /\ pc' = [pc EXCEPT ![t] = "meta"]
  BY DEF Rename, Goto
<1>3. \A s \in Threads : s # t => pc'[s] = pc[s]
  BY <1>2
<1>4. pc'[t] = "meta"
  BY <1>2 DEF KeepInv, TypeInv, BlobTypeOK
<1>5. Writes(t) /\ id[t] \in used /\ ~ IsStored(id[t])
  BY <1>2 DEF KeepInv, WriterInv, Writes, Writing
<1>6. TypeInv
  BY DEF KeepInv
<1>7. StoredInv'
  <2>1. \A m, n \in DOMAIN stored' : stored'[m] = stored'[n] => m = n
    BY <1>5, <1>6, RenameStored DEF KeepInv, StoredInv, IsStored
  <2>2. \A n \in DOMAIN stored' : stored'[n] \in used'
    BY <1>1, <1>5, <1>6, RenameStored DEF KeepInv, StoredInv
  <2>3. QED
    BY <1>1, <1>3, <1>4, <1>6, <2>1, <2>2, RenameStored DEF KeepInv, StoredInv
<1>8. WriterInv'
  BY <1>1, <1>3, <1>4, <1>5, <1>6, RenameStored DEF KeepInv, WriterInv, Writes, Writing
<1>9. QED BY <1>7, <1>8

(* The calls of the handlers carry requests that are stored.               *)
LEMMA CallKeep ==
    ASSUME KeepInv, NEW t \in Threads, NEW w \in Workers,
           SaveMetadata(t, w) \/ CheckMetadata(t, w) \/ BeginGetBlob(t, w)
    PROVE  StoredInv' /\ WriterInv'
<1>0. CallInv /\ BlobTypeOK
  BY DEF KeepInv, TypeInv
<1>1. UNCHANGED <<id, used, stored, answered>>
  BY DEF SaveMetadata, CheckMetadata, BeginGetBlob, history
<1>2. \A s \in Threads :
        \/ pc'[s] = pc[s]
        \/ pc[s] = "meta" /\ pc'[s] = "saving"
        \/ pc[s] = "check" /\ pc'[s] = "checking"
        \/ pc'[s] = "find"
  BY <1>0 DEF BlobTypeOK, SaveMetadata, CheckMetadata, BeginGetBlob, Goto
<1>3. \A s \in Threads : before'[s] \subseteq answered
  BY <1>0 DEF KeepInv, StoredInv, BlobTypeOK, SaveMetadata, CheckMetadata, BeginGetBlob, history
<1>4. /\ val' = val
      /\ \A x \in Workers \ {w} : op'[x] = op[x]
      /\ op'[w] \in UpsertOps => IsStored(op'[w].payload)
      /\ op'[w] \in QueryOps => op'[w].found = {}
  <2>1. CASE SaveMetadata(t, w)
    <3>1. DB!BeginUpsert(w, Uuid, id[t]) /\ id[t] \in Ids /\ IsStored(id[t])
      BY <1>0, <2>1 DEF BlobTypeOK, SaveMetadata, Goto, KeepInv, StoredInv
    <3>2. op'[w].payload = id[t]
      BY <1>0, <3>1 DEF CallInv, DB!BeginUpsert
    <3>3. QED BY <1>0, <3>1, <3>2, CallerOp
  <2>2. CASE CheckMetadata(t, w) \/ BeginGetBlob(t, w)
    <3>1. DB!BeginQuery(w, Uuid)
      BY <2>2 DEF CheckMetadata, BeginGetBlob
    <3>2. op'[w] = DB!QueryOp("list", Uuid, {}, {})
      BY <1>0, <3>1 DEF CallInv, DB!BeginQuery
    <3>3. op'[w] \notin UpsertOps
      BY <3>2 DEF DB!QueryOp, UpsertOps
    <3>4. QED BY <1>0, <3>1, <3>3, CallerOp
  <2>3. QED BY <2>1, <2>2
<1>5. StoredInv'
  BY <1>1, <1>2, <1>3, <1>4, SameStored DEF KeepInv, StoredInv
<1>6. WriterInv'
  BY <1>1, <1>2, SameStored DEF KeepInv, WriterInv, Writes, Writing
<1>7. QED BY <1>5, <1>6

(* The answers of database-service, and those of the handlers.             *)
LEMMA AnswerKeep ==
    ASSUME KeepInv, NEW t \in Threads,
           \/ MetadataSaved(t) \/ MetadataFails(t) \/ MetadataChecked(t) \/ MetadataMissing(t)
           \/ MetadataFound(t) \/ ReplyUpsert(t)
    PROVE  StoredInv' /\ WriterInv'
<1>0. CallInv /\ BlobTypeOK
  BY DEF KeepInv, TypeInv
<1>1. UNCHANGED <<used, stored>> /\ \A s \in Threads : before'[s] \subseteq before[s]
  BY <1>0 DEF BlobTypeOK, MetadataSaved, MetadataFails, MetadataChecked, MetadataMissing,
     MetadataFound, ReplyUpsert, Finish, history
<1>2. /\ val' = val
      /\ \A x \in Workers : op'[x] = op[x] \/ op'[x] = DB!NoOp
  BY <1>0 DEF CallInv, MetadataSaved, MetadataFails, MetadataChecked, MetadataMissing,
     MetadataFound, ReplyUpsert, Goto, DB!EndUpsert, DB!EndQuery, dbVars
<1>3. /\ answered \subseteq answered'
      /\ \A i \in answered' : IsStored(i)
  BY <1>0 DEF KeepInv, StoredInv, BlobTypeOK, MetadataSaved, MetadataFails, MetadataChecked,
     MetadataMissing, MetadataFound, ReplyUpsert, history
<1>4. \A s \in Threads :
        \/ pc'[s] = pc[s] /\ id'[s] = id[s]
        \/ pc'[s] = "idle"
        \/ pc'[s] \in {"check", "reply"} /\ id'[s] = id[s] /\ IsStored(id[s])
        \/ pc'[s] = "read" /\ IsStored(id'[s])
  <2>1. CASE MetadataSaved(t) \/ MetadataChecked(t)
    BY <1>0, <2>1 DEF KeepInv, StoredInv, BlobTypeOK, MetadataSaved, MetadataChecked, Goto
  <2>2. CASE MetadataFails(t) \/ MetadataMissing(t) \/ ReplyUpsert(t)
    BY <1>0, <2>2 DEF BlobTypeOK, MetadataFails, MetadataMissing, ReplyUpsert, Finish
  <2>3. CASE MetadataFound(t)
    <3>1. call[t] \in Workers /\ op[call[t]] \in QueryOps
      BY <1>0, <2>3, OpShape DEF CallInv, MetadataFound, Goto, DB!EndQuery
    <3>2. \A r \in op[call[t]].found : IsStored(r[2])
      BY <3>1 DEF KeepInv, StoredInv
    <3>3. QED BY <1>0, <2>3, <3>2 DEF BlobTypeOK, MetadataFound, Goto
  <2>4. QED BY <2>1, <2>2, <2>3
<1>5. DB!NoOp \notin UpsertOps \union QueryOps
  BY DEF UpsertOps, QueryOps, DB!NoOp
<1>6. StoredInv'
  BY <1>1, <1>2, <1>3, <1>4, <1>5, SameStored DEF KeepInv, StoredInv
<1>7. WriterInv'
  BY <1>1, <1>4, SameStored DEF KeepInv, WriterInv, Writes, Writing
<1>8. QED BY <1>6, <1>7

(* database-service stores what it was given, and finds what it stored.    *)
LEMMA ServerKeep ==
    ASSUME KeepInv, DatabaseStep \/ \E w \in Workers : Unheard(w)
    PROVE  StoredInv' /\ WriterInv'
<1>0. CallInv /\ BlobTypeOK /\ TypeInv
  BY DEF KeepInv, TypeInv
<1>1. UNCHANGED <<fileVars, local, history>>
  BY DEF DatabaseStep, Unheard
<1>2. ASSUME NEW w \in Workers, DB!Step(w)
      PROVE  /\ val'[Uuid] # NoId => IsStored(val'[Uuid])
             /\ \A x \in Workers : op'[x] \in UpsertOps => IsStored(op'[x].payload)
             /\ \A x \in Workers : op'[x] \in QueryOps => \A r \in op'[x].found : IsStored(r[2])
  <2>1. \A x \in Workers \ {w} : op'[x] = op[x]
    BY <1>0, <1>2, ServerOp DEF CallInv
  <2>2. CASE op[w] \in UpsertOps
    <3>1. IsStored(op[w].payload)
      BY <2>2 DEF KeepInv, StoredInv
    <3>2. op[w] \notin QueryOps
      BY <1>0, <2>2, OpShape
    <3>3. /\ op'[w] \in UpsertOps /\ op'[w].payload = op[w].payload
          /\ \/ val' = val
             \/ val' = [val EXCEPT ![Uuid] = NoId]
             \/ val' = [val EXCEPT ![Uuid] = op[w].payload]
      BY <1>0, <1>2, <3>2, ServerOp
    <3>4. op'[w] \notin QueryOps
      BY <3>3 DEF UpsertOps, QueryOps
    <3>5. val'[Uuid] # NoId => IsStored(val'[Uuid])
      BY <1>0, <3>1, <3>3 DEF BlobTypeOK, KeepInv, StoredInv
    <3>6. QED BY <2>1, <3>1, <3>3, <3>4, <3>5 DEF KeepInv, StoredInv
  <2>3. CASE op[w] \notin UpsertOps
    <3>1. PICK o \in QueryOps :
            /\ op' = [op EXCEPT ![w] = o]
            /\ op[w] \in QueryOps
            /\ val' = val
            /\ \A r \in o.found : r \in op[w].found \/ (r[2] = val[Uuid] /\ r[2] \in Ids)
      BY <1>0, <1>2, <2>3, ServerOp
    <3>2. op'[w] = o /\ o \notin UpsertOps
      BY <1>0, <3>1 DEF CallInv, UpsertOps, QueryOps
    <3>3. \A r \in o.found : IsStored(r[2])
      BY <3>1 DEF KeepInv, StoredInv
    <3>4. QED BY <2>1, <3>1, <3>2, <3>3 DEF KeepInv, StoredInv
  <2>4. QED BY <2>2, <2>3
<1>3. ASSUME NEW w \in Workers, Unheard(w)
      PROVE  val' = val /\ \A x \in Workers : op'[x] = op[x] \/ op'[x] = DB!NoOp
  BY <1>0, <1>3 DEF CallInv, Unheard, DB!EndUpsert, DB!EndQuery
<1>4. DB!NoOp \notin UpsertOps \union QueryOps
  BY DEF UpsertOps, QueryOps, DB!NoOp
<1>5. /\ val'[Uuid] # NoId => IsStored(val'[Uuid])
      /\ \A x \in Workers : op'[x] \in UpsertOps => IsStored(op'[x].payload)
      /\ \A x \in Workers : op'[x] \in QueryOps => \A r \in op'[x].found : IsStored(r[2])
  BY <1>2, <1>3, <1>4 DEF DatabaseStep, DB!Internal, KeepInv, StoredInv
<1>6. StoredInv'
  BY <1>1, <1>5, SameStored DEF KeepInv, StoredInv, local, history
<1>7. WriterInv'
  BY <1>1, SameStored DEF KeepInv, WriterInv, Writes, local, history
<1>8. QED BY <1>6, <1>7

LEMMA KeepNext == KeepInv /\ [BlobNext]_blobVars => KeepInv'
<1> SUFFICES ASSUME KeepInv, [BlobNext]_blobVars PROVE KeepInv'
  OBVIOUS
<1>1. CASE BlobNext
  BY <1>1, TypeNext, QuietKeep, BeginKeep, RenameKeep, CallKeep, AnswerKeep, ServerKeep
     DEF BlobNext, KeepInv
<1>2. CASE UNCHANGED blobVars
  BY <1>2, TypeNext, SameStored DEF KeepInv, StoredInv, WriterInv, Writes, blobVars, dbVars,
     local, history
<1>3. QED BY <1>1, <1>2

-----------------------------------------------------------------------------
(* FileInv: the two names *)

NameInv == KeepInv /\ FileInv

LEMMA NameInit == BlobInit => NameInv
<1> SUFFICES ASSUME BlobInit PROVE NameInv
  OBVIOUS
<1>1. FileInv
  BY DEF BlobInit, FileInv
<1>2. QED BY <1>1, KeepInit DEF NameInv

(* The steps that open, rename and delete files, and the new request.      *)
LEMMA WriteNames ==
    ASSUME NameInv, NEW t \in Threads,
           \/ \E i \in Ids : BeginUpsertBlob(t, i)
           \/ TestDirectory(t) \/ MakeDirectory(t) \/ OpenTemporary(t) \/ Rename(t)
           \/ DeleteTemporary(t)
    PROVE  FileInv'
<1>0. BlobTypeOK /\ TypeInv /\ WriterInv /\ FileInv
  BY DEF NameInv, KeepInv, TypeInv
<1>1. CASE \E i \in Ids : BeginUpsertBlob(t, i)
  <2>1. PICK i \in Ids : BeginUpsertBlob(t, i)
    BY <1>1
  <2>2. UNCHANGED <<tmp, blob, stored>> /\ i \notin used /\ used' = used \union {i}
    BY <2>1 DEF BeginUpsertBlob, fileVars
  <2>3. \A s \in Threads : s # t => pc'[s] = pc[s] /\ id'[s] = id[s]
    BY <1>0, <2>1 DEF BlobTypeOK, BeginUpsertBlob, Goto
  <2>4. id'[t] = i
    BY <1>0, <2>1 DEF BlobTypeOK, BeginUpsertBlob
  <2>5. tmp # i /\ blob # i
    BY <1>0, <2>2 DEF FileInv
  <2>6. QED BY <1>0, <2>2, <2>3, <2>4, <2>5 DEF FileInv
<1>2. CASE TestDirectory(t) \/ MakeDirectory(t)
  <2>1. UNCHANGED <<tmp, blob, stored, used>>
    BY <1>2 DEF TestDirectory, MakeDirectory, fileVars, history
  <2>2. \A s \in Threads :
          \/ pc'[s] = pc[s] /\ id'[s] = id[s]
          \/ pc'[s] = "idle"
          \/ pc[s] \in {"enter", "mkdir"} /\ id'[s] = id[s]
    BY <1>0, <1>2 DEF BlobTypeOK, TestDirectory, MakeDirectory, Goto, Finish
  <2>3. QED BY <1>0, <2>1, <2>2 DEF FileInv
<1>3. CASE OpenTemporary(t)
  <2>1. UNCHANGED <<blob, stored, used, id>>
    BY <1>3 DEF OpenTemporary, history
  <2>2. pc[t] = "open" /\ pc' = [pc EXCEPT ![t] = "write"]
    BY <1>3 DEF OpenTemporary, Goto
  <2>3. tmp' = IF tmp = NoFile THEN id[t] ELSE tmp
    BY <1>3 DEF OpenTemporary
  <2>4. id[t] \in used /\ blob # id[t]
    BY <1>0, <2>2 DEF WriterInv, FileInv, Writes, Writing
  <2>5. \A s \in Threads : pc'[s] \in {"enter", "mkdir", "open"} =>
            s # t /\ pc'[s] = pc[s] /\ id[s] # id[t]
    BY <1>0, <2>2 DEF BlobTypeOK, WriterInv, Writes, Writing
  <2>6. QED BY <1>0, <2>1, <2>3, <2>4, <2>5 DEF FileInv
<1>4. CASE Rename(t)
  <2>1. tmp # NoFile /\ blob' = tmp /\ tmp' = NoFile /\ UNCHANGED <<used, id>>
    BY <1>4 DEF Rename
  <2>2. stored' # <<>>
    BY <1>0, <1>4, RenameStored
  <2>3. \A s \in Threads : pc'[s] \in {"enter", "mkdir", "open"} =>
            pc'[s] = pc[s] /\ id[s] \in Ids
    BY <1>0, <1>4 DEF BlobTypeOK, Rename, Goto
  <2>4. QED BY <1>0, <2>1, <2>2, <2>3 DEF FileInv
<1>5. CASE DeleteTemporary(t)
  <2>1. tmp' = NoFile /\ UNCHANGED <<blob, stored, used>>
    BY <1>5 DEF DeleteTemporary
  <2>2. \A s \in Threads : pc'[s] \in {"enter", "mkdir", "open"} =>
            pc'[s] = pc[s] /\ id'[s] = id[s] /\ id[s] \in Ids
    BY <1>0, <1>5 DEF BlobTypeOK, DeleteTemporary, Finish
  <2>3. QED BY <1>0, <2>1, <2>2 DEF FileInv
<1>6. QED BY <1>1, <1>2, <1>3, <1>4, <1>5

\* The steps of a thread that neither begin a Write nor touch a name.
HandlerStep(t) ==
    \/ \E w \in Workers : SaveMetadata(t, w) \/ CheckMetadata(t, w) \/ BeginGetBlob(t, w)
    \/ MetadataSaved(t)
    \/ MetadataFails(t)
    \/ MetadataChecked(t)
    \/ ReplyUpsert(t)
    \/ MetadataFound(t)
    \/ MetadataMissing(t)
    \/ ReplyGet(t)
    \/ GiveUp(t)

(* What such a step leaves alone.                                          *)
LEMMA HandlerShape ==
    ASSUME BlobTypeOK, NEW t \in Threads, HandlerStep(t)
    PROVE  /\ UNCHANGED <<fileVars, stored, used, overlap>>
           /\ \A s \in Threads :
                \/ /\ pc'[s] = pc[s] /\ id'[s] = id[s]
                   /\ file'[s] = file[s] /\ got'[s] = got[s] /\ before'[s] = before[s]
                \/ pc'[s] \in {"idle", "saving", "check", "checking", "reply", "find", "read"}
<1>1. CASE \E w \in Workers : SaveMetadata(t, w) \/ CheckMetadata(t, w) \/ BeginGetBlob(t, w)
  BY <1>1 DEF BlobTypeOK, SaveMetadata, CheckMetadata, BeginGetBlob, Goto, history
<1>2. CASE MetadataSaved(t) \/ MetadataChecked(t) \/ MetadataFound(t)
  BY <1>2 DEF BlobTypeOK, MetadataSaved, MetadataChecked, MetadataFound, Goto, history
<1>3. CASE MetadataFails(t) \/ MetadataMissing(t) \/ ReplyUpsert(t) \/ ReplyGet(t) \/ GiveUp(t)
  BY <1>3 DEF BlobTypeOK, MetadataFails, MetadataMissing, ReplyUpsert, ReplyGet, GiveUp, Finish
<1>4. QED BY <1>1, <1>2, <1>3 DEF HandlerStep

LEMMA NameNext == NameInv /\ [BlobNext]_blobVars => NameInv'
<1> SUFFICES ASSUME NameInv, [BlobNext]_blobVars PROVE NameInv'
  OBVIOUS
<1>0. BlobTypeOK /\ FileInv
  BY DEF NameInv, KeepInv, TypeInv
<1>1. KeepInv'
  BY KeepNext DEF NameInv
<1>2. ASSUME NEW t \in Threads, HandlerStep(t) PROVE FileInv'
  BY <1>0, <1>2, HandlerShape DEF FileInv, fileVars
<1>3. ASSUME NEW t \in Threads, WriteTemporary(t) \/ RenameFails(t) \/ ReadBlob(t)
      PROVE  FileInv'
  <2>1. UNCHANGED <<tmp, blob, stored, used, id>>
    BY <1>3 DEF WriteTemporary, RenameFails, ReadBlob, fileVars, history
  <2>2. \A s \in Threads : pc'[s] \in {"enter", "mkdir", "open"} => pc'[s] = pc[s]
    BY <1>0, <1>3 DEF BlobTypeOK, WriteTemporary, RenameFails, ReadBlob, Goto
  <2>3. QED BY <1>0, <2>1, <2>2 DEF FileInv
<1>4. ASSUME UNCHANGED <<fileVars, local, history>> PROVE FileInv'
  BY <1>0, <1>4 DEF FileInv, fileVars, local, history
<1>5. CASE BlobNext
  BY <1>1, <1>2, <1>3, <1>4, <1>5, WriteNames DEF BlobNext, HandlerStep, DatabaseStep, Unheard,
     NameInv
<1>6. CASE UNCHANGED blobVars
  BY <1>1, <1>4, <1>6 DEF NameInv, blobVars
<1>7. QED BY <1>5, <1>6

(* Metadata is never seen without a blob, for any number of handlers that  *)
(* overlap, fail or die: it was written after a rename.                    *)
THEOREM MetadataNeedsBytes == BlobSpec => []MetadataHasBytes
<1>1. NameInv => MetadataHasBytes
  <2> SUFFICES ASSUME NameInv, val[Uuid] # NoId PROVE blob # NoFile
    BY DEF MetadataHasBytes
  <2>1. IsStored(val[Uuid])
    BY DEF NameInv, KeepInv, StoredInv
  <2>2. stored # <<>>
    BY <2>1 DEF IsStored
  <2>3. QED BY <2>2 DEF NameInv, FileInv
<1>2. QED BY <1>1, NameInit, NameNext, PTL DEF BlobSpec

-----------------------------------------------------------------------------
(* AloneInv and ReadInv: one writer at a time *)

IInv == NameInv /\ AloneInv /\ ReadInv

LEMMA InvInit == BlobInit => IInv
<1> SUFFICES ASSUME BlobInit PROVE IInv
  OBVIOUS
<1>1. AloneInv /\ ReadInv
  BY DEF BlobInit, AloneInv, ReadInv, Writing
<1>2. QED BY <1>1, NameInit DEF IInv

(* The last request that was renamed is at the end of stored.              *)
LEMMA LastStored ==
    ASSUME BlobTypeOK, stored # <<>>
    PROVE  /\ Len(stored) \in DOMAIN stored
           /\ \A n \in DOMAIN stored : n <= Len(stored)
           /\ DOMAIN stored = 1 .. Len(stored)
           /\ stored[Len(stored)] \in Ids
BY EmptySeq, LenProperties, ElementOfSeq DEF BlobTypeOK

(* A Write that begins while no other is under way is alone.               *)
LEMMA BeginAlone ==
    ASSUME IInv, NEW t \in Threads, NEW i \in Ids, BeginUpsertBlob(t, i)
    PROVE  AloneInv' /\ ReadInv'
<1>0. BlobTypeOK
  BY DEF IInv, NameInv, KeepInv, TypeInv
<1>1. UNCHANGED <<fileVars, file, got, stored, before>>
  BY DEF BeginUpsertBlob
<1>2. \A s \in Threads : s # t => pc'[s] = pc[s] /\ id'[s] = id[s]
  BY <1>0 DEF BlobTypeOK, BeginUpsertBlob, Goto
<1>3. pc'[t] = "enter"
  BY <1>0 DEF BlobTypeOK, BeginUpsertBlob, Goto
<1>4. ~ overlap' => ~ overlap /\ \A s \in Threads : pc[s] \notin Writing
  BY DEF BeginUpsertBlob
<1>5. AloneInv'
  BY <1>1, <1>2, <1>3, <1>4 DEF IInv, AloneInv, fileVars, Writing
<1>6. ReadInv'
  BY <1>1, <1>2, <1>3, <1>4 DEF IInv, ReadInv
<1>7. QED BY <1>5, <1>6

(* The steps of Write before the rename.                                   *)
LEMMA WriteAlone ==
    ASSUME IInv, NEW t \in Threads,
           TestDirectory(t) \/ MakeDirectory(t) \/ OpenTemporary(t) \/ WriteTemporary(t)
    PROVE  AloneInv' /\ ReadInv'
<1>0. BlobTypeOK /\ FileInv /\ AloneInv /\ ReadInv
  BY DEF IInv, NameInv, KeepInv, TypeInv
<1>1. UNCHANGED <<blob, stored, overlap>> /\ pc[t] \in Writing
  BY DEF TestDirectory, MakeDirectory, OpenTemporary, WriteTemporary, fileVars, history, Goto,
     Writing
<1>2. \A s \in Threads : s # t =>
        /\ pc'[s] = pc[s] /\ id'[s] = id[s] /\ file'[s] = file[s]
        /\ got'[s] = got[s] /\ before'[s] = before[s]
  BY <1>0 DEF BlobTypeOK, TestDirectory, MakeDirectory, OpenTemporary, WriteTemporary, history,
     Goto, Finish
<1>3. pc'[t] \in Writing \union {"idle"} /\ pc'[t] # "delete"
  BY <1>0 DEF BlobTypeOK, TestDirectory, MakeDirectory, OpenTemporary, WriteTemporary, Goto,
     Finish, Writing
<1>4. ReadInv'
  BY <1>0, <1>1, <1>2, <1>3 DEF ReadInv, Writing
<1>5. ASSUME ~ overlap
      PROVE  /\ pc'[t] = "write" => file'[t] = tmp' /\ tmp' # NoFile /\ bytes'[tmp'] = <<>>
             /\ pc'[t] = "rename" => tmp' # NoFile /\ bytes'[tmp'] = Data(id'[t])
             /\ blob # NoFile => bytes'[blob] = bytes[blob]
  <2>1. CASE TestDirectory(t) \/ MakeDirectory(t)
    BY <1>0, <2>1 DEF BlobTypeOK, TestDirectory, MakeDirectory, fileVars, Goto, Finish
  <2>2. CASE OpenTemporary(t)
    <3>1. pc'[t] = "write" /\ id[t] \in Ids /\ blob # id[t]
      BY <1>0, <2>2 DEF BlobTypeOK, OpenTemporary, Goto, FileInv
    <3>2. PICK n \in Ids :
            /\ tmp' = n
            /\ bytes' = [bytes EXCEPT ![n] = <<>>]
            /\ file' = [file EXCEPT ![t] = n]
            /\ n # blob
      BY <1>0, <2>2, <3>1 DEF BlobTypeOK, OpenTemporary, Inodes, FileInv
    <3>3. QED BY <1>0, <3>1, <3>2 DEF BlobTypeOK, Inodes
  <2>3. CASE WriteTemporary(t)
    <3>1. pc[t] = "write" /\ pc'[t] = "rename" /\ id[t] \in Ids
      BY <1>0, <2>3 DEF BlobTypeOK, WriteTemporary, Goto
    <3>2. file[t] = tmp /\ tmp # NoFile /\ bytes[tmp] = <<>> /\ tmp # blob
      BY <1>0, <1>5, <3>1 DEF AloneInv, FileInv
    <3>3. Overwrite(<<>>, Data(id[t])) = Data(id[t])
      BY <3>1, DataType, OverwriteType, EmptySeq
    <3>4. QED
      BY <1>0, <2>3, <3>1, <3>2, <3>3 DEF BlobTypeOK, WriteTemporary, Inodes
  <2>4. QED BY <2>1, <2>2, <2>3
<1>6. AloneInv'
  <2> SUFFICES ASSUME ~ overlap
               PROVE  /\ \A s, r \in Threads : pc'[s] \in Writing /\ pc'[r] \in Writing => s = r
                      /\ \A s \in Threads :
                          /\ pc'[s] # "delete"
                          /\ pc'[s] = "write" =>
                                file'[s] = tmp' /\ tmp' # NoFile /\ bytes'[tmp'] = <<>>
                          /\ pc'[s] = "rename" => tmp' # NoFile /\ bytes'[tmp'] = Data(id'[s])
                      /\ blob # NoFile => bytes'[blob] = Data(stored[Len(stored)])
    BY <1>1 DEF AloneInv
  <2>1. \A s \in Threads : s # t => pc[s] \notin Writing /\ pc'[s] \notin Writing
    BY <1>0, <1>1, <1>2 DEF AloneInv
  <2>2. QED BY <1>0, <1>3, <1>5, <2>1 DEF AloneInv, Writing
<1>7. QED BY <1>4, <1>6

(* After a rename the blob is the request that was renamed, and no reader  *)
(* has yet to know of it.                                                  *)
LEMMA RenameAlone ==
    ASSUME IInv, NEW t \in Threads, Rename(t)
    PROVE  AloneInv' /\ ReadInv'
<1>0. BlobTypeOK /\ TypeInv /\ StoredInv /\ WriterInv /\ AloneInv /\ ReadInv
  BY DEF IInv, NameInv, KeepInv, TypeInv
<1>1. UNCHANGED <<bytes, id, file, got, overlap, before>> /\ blob' = tmp /\ tmp' = NoFile
  BY DEF Rename
<1>2. pc[t] = "rename" /\ pc'[t] = "meta" /\ \A s \in Threads : s # t => pc'[s] = pc[s]
  BY <1>0 DEF BlobTypeOK, Rename, Goto
<1>3. Len(stored') = Len(stored) + 1
  BY <1>0 DEF BlobTypeOK, Rename
<1>4. AloneInv'
  <2> SUFFICES ASSUME ~ overlap PROVE AloneInv'
    BY <1>1 DEF AloneInv
  <2>1. bytes[tmp] = Data(id[t])
    BY <1>0, <1>2 DEF AloneInv
  <2>2. \A s \in Threads : s # t => pc[s] \notin Writing
    BY <1>0, <1>2 DEF AloneInv, Writing
  <2>3. \A s \in Threads : pc'[s] \notin Writing
    BY <1>2, <2>2 DEF Writing
  <2>4. bytes'[blob'] = Data(stored'[Len(stored')])
    BY <1>0, <1>1, <1>3, <2>1, RenameStored
  <2>5. QED BY <2>3, <2>4 DEF AloneInv, Writing
<1>5. ReadInv'
  <2> SUFFICES ASSUME ~ overlap, NEW s \in Threads, pc'[s] = "answer"
               PROVE  \E n \in DOMAIN stored' :
                        /\ got[s] = Data(stored'[n])
                        /\ \A m \in DOMAIN stored' :
                            stored'[m] = id[s] \/ stored'[m] \in before[s] => m <= n
    BY <1>1 DEF ReadInv
  <2>1. pc[s] = "answer"
    BY <1>2
  <2>2. PICK n \in DOMAIN stored :
          /\ got[s] = Data(stored[n])
          /\ \A m \in DOMAIN stored : stored[m] = id[s] \/ stored[m] \in before[s] => m <= n
    BY <1>0, <2>1 DEF ReadInv
  <2>3. ~ IsStored(id[t])
    BY <1>0, <1>2 DEF WriterInv, Writes, Writing
  <2>4. IsStored(id[s]) /\ \A i \in before[s] : IsStored(i)
    BY <1>0, <2>1 DEF StoredInv
  <2>5. id[s] # id[t] /\ id[t] \notin before[s]
    BY <2>3, <2>4
  <2>6. \A m \in DOMAIN stored' : m \in DOMAIN stored \/ m = Len(stored) + 1
    BY <1>0, RenameStored
  <2>7. n \in DOMAIN stored'
    BY <1>0, RenameStored
  <2>8. QED BY <1>0, <2>2, <2>5, <2>6, <2>7, RenameStored
<1>6. QED BY <1>4, <1>5

(* Without overlap a rename finds its file, and a reader the last bytes.   *)
LEMMA ReadAlone ==
    ASSUME IInv, NEW t \in Threads, RenameFails(t) \/ DeleteTemporary(t) \/ ReadBlob(t)
    PROVE  AloneInv' /\ ReadInv'
<1>0. BlobTypeOK /\ FileInv /\ AloneInv /\ ReadInv
  BY DEF IInv, NameInv, KeepInv, TypeInv
<1>1. overlap' = overlap
  BY DEF RenameFails, DeleteTemporary, ReadBlob, history
<1>2. CASE RenameFails(t) \/ DeleteTemporary(t)
  <2>1. overlap
    BY <1>0, <1>2 DEF RenameFails, DeleteTemporary, Goto, AloneInv
  <2>2. QED BY <1>1, <2>1 DEF AloneInv, ReadInv
<1>3. CASE ReadBlob(t)
  <2>1. UNCHANGED <<fileVars, id, file, stored, before>> /\ blob # NoFile
    BY <1>3 DEF ReadBlob, history
  <2>2. \A s \in Threads : s # t => pc'[s] = pc[s] /\ got'[s] = got[s]
    BY <1>0, <1>3 DEF BlobTypeOK, ReadBlob, Goto
  <2>3. pc'[t] = "answer" /\ got'[t] = bytes[blob]
    BY <1>0, <1>3 DEF BlobTypeOK, ReadBlob, Goto
  <2>4. AloneInv'
    BY <1>0, <1>1, <2>1, <2>2, <2>3 DEF AloneInv, fileVars, Writing
  <2>5. ReadInv'
    <3>1. stored # <<>>
      BY <1>0, <2>1 DEF FileInv
    <3>2. ~ overlap => bytes[blob] = Data(stored[Len(stored)])
      BY <1>0, <2>1 DEF AloneInv
    <3>3. QED
      BY <1>0, <1>1, <2>1, <2>2, <2>3, <3>1, <3>2, LastStored DEF ReadInv
  <2>6. QED BY <2>4, <2>5
<1>4. QED BY <1>2, <1>3

(* The other steps of a handler neither write nor end in an answer.        *)
LEMMA HandlerAlone ==
    ASSUME IInv, NEW t \in Threads, HandlerStep(t)
    PROVE  AloneInv' /\ ReadInv'
<1>0. BlobTypeOK /\ AloneInv /\ ReadInv
  BY DEF IInv, NameInv, KeepInv, TypeInv
<1>1. AloneInv'
  BY <1>0, HandlerShape DEF AloneInv, fileVars, Writing
<1>2. ReadInv'
  BY <1>0, HandlerShape DEF ReadInv
<1>3. QED BY <1>1, <1>2

LEMMA InvNext == IInv /\ [BlobNext]_blobVars => IInv'
<1> SUFFICES ASSUME IInv, [BlobNext]_blobVars PROVE IInv'
  OBVIOUS
<1>1. NameInv'
  BY NameNext DEF IInv
<1>2. ASSUME UNCHANGED <<fileVars, local, history>> PROVE AloneInv' /\ ReadInv'
  BY <1>2 DEF IInv, AloneInv, ReadInv, fileVars, local, history
<1>3. CASE BlobNext
  BY <1>1, <1>2, <1>3, BeginAlone, WriteAlone, RenameAlone, ReadAlone, HandlerAlone
     DEF BlobNext, HandlerStep, DatabaseStep, Unheard, IInv
<1>4. CASE UNCHANGED blobVars
  BY <1>1, <1>2, <1>4 DEF IInv, blobVars
<1>5. QED BY <1>3, <1>4

LEMMA Invariance == BlobSpec => []IInv
BY InvInit, InvNext, PTL DEF BlobSpec

(* The place of a request in the order of the renames.                     *)
LEMMA PlaceOf ==
    ASSUME StoredInv, BlobTypeOK
    PROVE  /\ \A n \in DOMAIN stored : Place(stored[n]) = n
           /\ \A i : IsStored(i) => Place(i) \in DOMAIN stored /\ stored[Place(i)] = i
<1>1. ASSUME NEW i, IsStored(i) PROVE Place(i) \in DOMAIN stored /\ stored[Place(i)] = i
  BY <1>1 DEF Place, IsStored
<1>2. ASSUME NEW n \in DOMAIN stored PROVE Place(stored[n]) = n
  <2>1. IsStored(stored[n])
    BY DEF IsStored
  <2>2. QED BY <1>1, <2>1 DEF StoredInv
<1>3. QED BY <1>1, <1>2

(* Unless Writes overlap, the bytes of an answer are those its metadata    *)
(* describes, or newer ones.                                               *)
THEOREM AnswerNotOlder == BlobSpec => []BytesNotOlder
<1>1. IInv => BytesNotOlder
  <2> SUFFICES ASSUME IInv, NEW t \in Threads, pc[t] = "answer", ~ overlap
               PROVE  \E i \in used : got[t] = Data(i) /\ Place(i) >= Place(id[t])
    BY DEF BytesNotOlder
  <2>0. BlobTypeOK /\ StoredInv /\ ReadInv
    BY DEF IInv, NameInv, KeepInv, TypeInv
  <2>1. PICK n \in DOMAIN stored :
          /\ got[t] = Data(stored[n])
          /\ \A m \in DOMAIN stored : stored[m] = id[t] \/ stored[m] \in before[t] => m <= n
    BY <2>0 DEF ReadInv
  <2>2. stored[n] \in used /\ Place(stored[n]) = n
    BY <2>0, PlaceOf DEF StoredInv
  <2>3. Place(id[t]) <= n
    BY <2>0, <2>1, PlaceOf DEF StoredInv
  <2>4. n \in Nat /\ Place(id[t]) \in Nat
    <3>1. DOMAIN stored \subseteq Nat /\ IsStored(id[t])
      BY <2>0 DEF BlobTypeOK, StoredInv
    <3>2. QED BY <2>0, <3>1, PlaceOf
  <2>5. QED BY <2>1, <2>2, <2>3, <2>4
<1>2. QED BY <1>1, Invariance, PTL

(* Unless Writes overlap, an answer has the bytes of every upsert that was *)
(* answered before the call began, or of one that replaced them.           *)
THEOREM AnswerIsRecent == BlobSpec => []ReadIsRecent
<1>1. IInv => ReadIsRecent
  <2> SUFFICES ASSUME IInv, NEW t \in Threads, pc[t] = "answer", ~ overlap
               PROVE  \E i \in used : /\ got[t] = Data(i)
                                      /\ \A j \in before[t] : Place(i) >= Place(j)
    BY DEF ReadIsRecent
  <2>0. BlobTypeOK /\ StoredInv /\ ReadInv
    BY DEF IInv, NameInv, KeepInv, TypeInv
  <2>1. PICK n \in DOMAIN stored :
          /\ got[t] = Data(stored[n])
          /\ \A m \in DOMAIN stored : stored[m] = id[t] \/ stored[m] \in before[t] => m <= n
    BY <2>0 DEF ReadInv
  <2>2. stored[n] \in used /\ Place(stored[n]) = n
    BY <2>0, PlaceOf DEF StoredInv
  <2>3. ASSUME NEW j \in before[t] PROVE Place(stored[n]) >= Place(j)
    <3>1. IsStored(j) /\ DOMAIN stored \subseteq Nat
      BY <2>0 DEF BlobTypeOK, StoredInv
    <3>2. Place(j) \in DOMAIN stored /\ stored[Place(j)] = j
      BY <2>0, <3>1, PlaceOf
    <3>3. Place(j) <= n
      BY <2>1, <3>2
    <3>4. QED BY <2>2, <3>1, <3>2, <3>3
  <2>4. QED BY <2>1, <2>2, <2>3
<1>2. QED BY <1>1, Invariance, PTL

=============================================================================
