------------------------------ MODULE BlobService ------------------------------
(***************************************************************************)
(* blob-service: UpsertBlobRPC and GetBlobRPC for the blobs under one      *)
(* uuid, run by the HTTP worker threads of all replicas over one directory *)
(* and the collection "blob-metadata" of database-service.                 *)
(*                                                                         *)
(* BlobStore::Write writes <uuid>.blob.tmp and renames it to <uuid>.blob.  *)
(* The temporary file has one name per uuid, so two writers share it.  A   *)
(* name refers to an inode: a writer that has the temporary file open goes *)
(* on writing into the same inode after another one renamed it.  Blobs of  *)
(* different uuids have no file and no record in common.                   *)
(***************************************************************************)
EXTENDS Naturals, Sequences, FiniteSets

CONSTANTS
    Threads,  \* the HTTP worker threads of the blob-service replicas
    Workers,  \* the HTTP worker threads of database-service
    Ids,      \* the Upsert requests of a behavior
    Size,     \* Size[i]: the length of the bytes that request i stores
    NoId,     \* no request, and no metadata record
    NoFile,   \* a name that refers to no file
    NoCall    \* a thread that does not wait for database-service

ASSUME BlobAssumption ==
    /\ Size \in [Ids -> Nat \ {0}]
    /\ NoId \notin Ids
    /\ NoFile \notin Ids
    /\ NoCall \notin Workers

VARIABLES
    val, op,     \* the metadata record and the calls in database-service
    dir,         \* whether blob_dir exists
    tmp, blob,   \* the inodes of <uuid>.blob.tmp and of <uuid>.blob
    bytes,       \* bytes[n]: the contents of inode n
    pc,          \* pc[t]: where thread t is in its handler
    call,        \* call[t]: the database worker that t waits for
    id,          \* id[t]: the Upsert that t serves; in GetBlob the metadata it read
    file,        \* file[t]: the inode that t has open for writing
    got,         \* got[t]: the bytes that GetBlob has read
    used,        \* history: the requests that were made
    stored,      \* history: the requests in the order of their renames
    overlap,     \* history: whether two Writes were ever under way together
    answered,    \* history: the requests whose client got an answer
    before       \* history: answered, at the time when GetBlob of t began

dbVars == <<val, op>>
fileVars == <<dir, tmp, blob, bytes>>
local == <<pc, call, id, file, got>>
history == <<used, stored, overlap, answered, before>>
blobVars == <<dbVars, fileVars, local, history>>

\* An inode is named for the request that created it.
Inodes == Ids

\* The bytes of a request, block by block: Size blocks that no other has.
Data(i) == [n \in 1 .. Size[i] |-> i]

\* Writing from the start of a file that another writer may have filled.
Overwrite(old, new) ==
    new \o SubSeq(old, Len(new) + 1, Len(old))

\* where uuid == the uuid, limit 1, over the one record that there may be.
Uuid == "uuid"
DB == INSTANCE RecordStore WITH
    Keys <- {Uuid},
    Payloads <- Ids,
    Queries <- {Uuid},
    Match <- [q \in {Uuid} |-> Ids],
    Rank <- [q \in {Uuid} |-> [i \in Ids |-> 0]],
    Limit <- [q \in {Uuid} |-> 1],
    Absent <- NoId

Writing == {"enter", "mkdir", "open", "write", "rename", "delete"}

BlobTypeOK ==
    /\ val \in [{Uuid} -> Ids \union {NoId}]
    /\ dir \in BOOLEAN
    /\ tmp \in Inodes \union {NoFile}
    /\ blob \in Inodes \union {NoFile}
    /\ bytes \in [Inodes -> Seq(Ids)]
    /\ pc \in [Threads -> Writing \union
                {"idle", "meta", "saving", "check", "checking", "reply",
                 "find", "read", "answer"}]
    /\ call \in [Threads -> Workers \union {NoCall}]
    /\ id \in [Threads -> Ids \union {NoId}]
    /\ file \in [Threads -> Inodes \union {NoFile}]
    /\ got \in [Threads -> Seq(Ids)]
    /\ used \in SUBSET Ids
    /\ stored \in Seq(Ids)
    /\ overlap \in BOOLEAN
    /\ answered \in SUBSET Ids
    /\ before \in [Threads -> SUBSET Ids]
    /\ \A t \in Threads : (id[t] = NoId) <=> (pc[t] \in {"idle", "find"})

BlobInit ==
    /\ DB!Init
    /\ dir \in BOOLEAN
    /\ tmp = NoFile
    /\ blob = NoFile
    /\ bytes = [n \in Inodes |-> <<>>]
    /\ pc = [t \in Threads |-> "idle"]
    /\ call = [t \in Threads |-> NoCall]
    /\ id = [t \in Threads |-> NoId]
    /\ file = [t \in Threads |-> NoFile]
    /\ got = [t \in Threads |-> <<>>]
    /\ used = {}
    /\ stored = <<>>
    /\ overlap = FALSE
    /\ answered = {}
    /\ before = [t \in Threads |-> {}]

\* The handler of t is over.
Finish(t) ==
    /\ pc' = [pc EXCEPT ![t] = "idle"]
    /\ call' = [call EXCEPT ![t] = NoCall]
    /\ id' = [id EXCEPT ![t] = NoId]
    /\ file' = [file EXCEPT ![t] = NoFile]
    /\ got' = [got EXCEPT ![t] = <<>>]
    /\ before' = [before EXCEPT ![t] = {}]

\* Thread t goes from one line of its handler to another.
Goto(t, from, to) ==
    /\ pc[t] = from
    /\ pc' = [pc EXCEPT ![t] = to]

-----------------------------------------------------------------------------
(* UpsertBlobRPC: BlobStore::Write *)

BeginUpsertBlob(t, i) ==
    /\ i \notin used
    /\ Goto(t, "idle", "enter")
    /\ id' = [id EXCEPT ![t] = i]
    /\ used' = used \union {i}
    /\ overlap' = (overlap \/ \E s \in Threads : pc[s] \in Writing)
    /\ UNCHANGED <<dbVars, fileVars, call, file, got, stored, answered, before>>

TestDirectory(t) ==
    /\ Goto(t, "enter", IF dir THEN "open" ELSE "mkdir")
    /\ UNCHANGED <<dbVars, fileVars, call, id, file, got, history>>

MakeDirectory(t) ==
    /\ pc[t] = "mkdir"
    /\ dir' = TRUE
    /\ IF dir
       THEN Finish(t) /\ UNCHANGED <<used, stored, overlap, answered>>
       ELSE Goto(t, "mkdir", "open") /\ UNCHANGED <<call, id, file, got, history>>
    /\ UNCHANGED <<dbVars, tmp, blob, bytes>>

\* Mutant of OpenTemporary: the blob itself is opened.
OpenFinal(t) ==
    LET n == IF blob = NoFile THEN id[t] ELSE blob
    IN  /\ Goto(t, "open", "write")
        /\ blob' = n
        /\ tmp' = n
        /\ bytes' = [bytes EXCEPT ![n] = <<>>]
        /\ file' = [file EXCEPT ![t] = n]
        /\ UNCHANGED <<dbVars, dir, call, id, got, history>>

\* The ofstream creates the temporary file or truncates the one there is.
OpenTemporary(t) ==
    LET n == IF tmp = NoFile THEN id[t] ELSE tmp
    IN  /\ Goto(t, "open", "write")
        /\ tmp' = n
        /\ bytes' = [bytes EXCEPT ![n] = <<>>]
        /\ file' = [file EXCEPT ![t] = n]
        /\ UNCHANGED <<dbVars, dir, blob, call, id, got, history>>

\* Mutant of WriteTemporary: the file is not renamed.
ForgetRename(t) ==
    /\ Goto(t, "write", "meta")
    /\ bytes' = [bytes EXCEPT ![file[t]] = Overwrite(@, Data(id[t]))]
    /\ file' = [file EXCEPT ![t] = NoFile]
    /\ UNCHANGED <<dbVars, dir, tmp, blob, call, id, got, history>>

WriteTemporary(t) ==
    /\ Goto(t, "write", "rename")
    /\ bytes' = [bytes EXCEPT ![file[t]] = Overwrite(@, Data(id[t]))]
    /\ file' = [file EXCEPT ![t] = NoFile]
    /\ UNCHANGED <<dbVars, dir, tmp, blob, call, id, got, history>>

\* Mutant of Rename: a blob that exists is not replaced.
RenameIfNew(t) ==
    /\ tmp # NoFile
    /\ Goto(t, "rename", "meta")
    /\ blob' = IF blob = NoFile THEN tmp ELSE blob
    /\ tmp' = NoFile
    /\ stored' = Append(stored, id[t])
    /\ UNCHANGED <<dbVars, dir, bytes, call, id, file, got, used, overlap, answered, before>>

Rename(t) ==
    /\ tmp # NoFile
    /\ Goto(t, "rename", "meta")
    /\ blob' = tmp
    /\ tmp' = NoFile
    /\ stored' = Append(stored, id[t])
    /\ UNCHANGED <<dbVars, dir, bytes, call, id, file, got, used, overlap, answered, before>>

\* Another writer has renamed the file.
RenameFails(t) ==
    /\ tmp = NoFile
    /\ Goto(t, "rename", "delete")
    /\ UNCHANGED <<dbVars, fileVars, call, id, file, got, history>>

\* The temporary file that Write deletes may by now be another writer's.
DeleteTemporary(t) ==
    /\ pc[t] = "delete"
    /\ tmp' = NoFile
    /\ Finish(t)
    /\ UNCHANGED <<dbVars, dir, blob, bytes, used, stored, overlap, answered>>

-----------------------------------------------------------------------------
(* UpsertBlobRPC: the metadata, and the GetBlobMetadataRPC that it runs *)

SaveMetadata(t, w) ==
    /\ Goto(t, "meta", "saving")
    /\ DB!BeginUpsert(w, Uuid, id[t])
    /\ call' = [call EXCEPT ![t] = w]
    /\ UNCHANGED <<fileVars, id, file, got, history>>

MetadataSaved(t) ==
    /\ Goto(t, "saving", "check")
    /\ op[call[t]].stage = "ok"
    /\ DB!EndUpsert(call[t])
    /\ call' = [call EXCEPT ![t] = NoCall]
    /\ UNCHANGED <<fileVars, id, file, got, history>>

MetadataFails(t) ==
    /\ pc[t] = "saving"
    /\ op[call[t]].stage = "failed"
    /\ DB!EndUpsert(call[t])
    /\ Finish(t)
    /\ UNCHANGED <<fileVars, used, stored, overlap, answered>>

CheckMetadata(t, w) ==
    /\ Goto(t, "check", "checking")
    /\ DB!BeginQuery(w, Uuid)
    /\ call' = [call EXCEPT ![t] = w]
    /\ UNCHANGED <<fileVars, id, file, got, history>>

\* What the metadata says, and whose it is, is not looked at.
MetadataChecked(t) ==
    /\ Goto(t, "checking", "reply")
    /\ op[call[t]].found # {}
    /\ DB!EndQuery(call[t])
    /\ call' = [call EXCEPT ![t] = NoCall]
    /\ UNCHANGED <<fileVars, id, file, got, history>>

ReplyUpsert(t) ==
    /\ pc[t] = "reply"
    /\ answered' = answered \union {id[t]}
    /\ Finish(t)
    /\ UNCHANGED <<dbVars, fileVars, used, stored, overlap>>

-----------------------------------------------------------------------------
(* GetBlobRPC *)

BeginGetBlob(t, w) ==
    /\ Goto(t, "idle", "find")
    /\ DB!BeginQuery(w, Uuid)
    /\ call' = [call EXCEPT ![t] = w]
    /\ before' = [before EXCEPT ![t] = answered]
    /\ UNCHANGED <<fileVars, id, file, got, used, stored, overlap, answered>>

MetadataFound(t) ==
    /\ Goto(t, "find", "read")
    /\ \E r \in op[call[t]].found : id' = [id EXCEPT ![t] = r[2]]
    /\ DB!EndQuery(call[t])
    /\ call' = [call EXCEPT ![t] = NoCall]
    /\ UNCHANGED <<fileVars, file, got, history>>

\* No metadata, in GetBlob or after an upsert: the client gets an error.
MetadataMissing(t) ==
    /\ pc[t] \in {"find", "checking"}
    /\ op[call[t]].found = {}
    /\ DB!EndQuery(call[t])
    /\ Finish(t)
    /\ UNCHANGED <<fileVars, used, stored, overlap, answered>>

ReadBlob(t) ==
    /\ blob # NoFile
    /\ Goto(t, "read", "answer")
    /\ got' = [got EXCEPT ![t] = bytes[blob]]
    /\ UNCHANGED <<dbVars, fileVars, call, id, file, history>>

ReplyGet(t) ==
    /\ pc[t] = "answer"
    /\ Finish(t)
    /\ UNCHANGED <<dbVars, fileVars, used, stored, overlap, answered>>

-----------------------------------------------------------------------------

\* The replica dies, or database-service is silent for 30 seconds.
GiveUp(t) ==
    /\ pc[t] # "idle"
    /\ Finish(t)
    /\ UNCHANGED <<dbVars, fileVars, used, stored, overlap, answered>>

DatabaseStep ==
    /\ DB!Internal
    /\ UNCHANGED <<fileVars, local, history>>

Unheard(w) ==
    /\ \A t \in Threads : call[t] # w
    /\ DB!EndUpsert(w) \/ DB!EndQuery(w)
    /\ UNCHANGED <<fileVars, local, history>>

BlobNext ==
    \/ \E t \in Threads :
        \/ \E i \in Ids : BeginUpsertBlob(t, i)
        \/ TestDirectory(t)
        \/ MakeDirectory(t)
        \/ OpenTemporary(t)
        \/ WriteTemporary(t)
        \/ Rename(t)
        \/ RenameFails(t)
        \/ DeleteTemporary(t)
        \/ \E w \in Workers :
            SaveMetadata(t, w) \/ CheckMetadata(t, w) \/ BeginGetBlob(t, w)
        \/ MetadataSaved(t)
        \/ MetadataFails(t)
        \/ MetadataChecked(t)
        \/ ReplyUpsert(t)
        \/ MetadataFound(t)
        \/ MetadataMissing(t)
        \/ ReadBlob(t)
        \/ ReplyGet(t)
        \/ GiveUp(t)
    \/ DatabaseStep
    \/ \E w \in Workers : Unheard(w)

BlobSpec == BlobInit /\ [][BlobNext]_blobVars

-----------------------------------------------------------------------------

(* Metadata is never seen without a blob, even when writers overlap, fail  *)
(* or die: a handler stores the bytes, under whatever name they end up,    *)
(* before it stores the metadata, and no step takes the blob away.         *)
MetadataHasBytes == val[Uuid] # NoId => blob # NoFile

\* The bytes of some request, all of them and nothing else.
IsWhole(b) == \E i \in used : b = Data(i)

(* blob_store.gpt.hh says that writes are atomic: temp file and rename.    *)
(* The file under the final name then always holds the bytes of one Write. *)
WritesAreAtomic == blob # NoFile => IsWhole(bytes[blob])

\* The place of request i in the order of the renames.
Place(i) == IF \E n \in DOMAIN stored : stored[n] = i
            THEN CHOOSE n \in DOMAIN stored : stored[n] = i
            ELSE 0

(* The bytes of an answer are those that its metadata describes, or newer  *)
(* ones: an upsert stores the bytes first, and GetBlob reads them last.    *)
BytesNotOlder ==
    \A t \in Threads : pc[t] = "answer" /\ ~ overlap =>
        \E i \in used : got[t] = Data(i) /\ Place(i) >= Place(id[t])

(* GetBlob returns the bytes of every upsert that was answered before it   *)
(* began, or of one that replaced them.                                    *)
ReadIsRecent ==
    \A t \in Threads : pc[t] = "answer" /\ ~ overlap =>
        \E i \in used : /\ got[t] = Data(i)
                        /\ \A j \in before[t] : Place(i) >= Place(j)
=============================================================================
