--------------------------- MODULE ChunkedUpload ---------------------------
(***************************************************************************)
(* Upload in slices: uploadFileWithSlice of Upload.tsx posts the chunks of *)
(* each selected file one after the other, UploadSlice of                  *)
(* FileUploadController.cs stores each in a file of its own and, with the  *)
(* last one, puts the file together and lists it in Redis.                 *)
(*                                                                         *)
(* An upload is a value of Upload; its chunk i is the datum <<u, i>>.  A   *)
(* file name is a sequence, so that the name of chunk i of file n,         *)
(* "n_i.ext", is Append(n, i), and may be the name of another file.  The   *)
(* handlers run concurrently and give way at every await; an I/O error at  *)
(* any of their steps is answered with 500.  The network may lose a        *)
(* request, or the answer of one that goes on being handled.  A file is a  *)
(* node of its own, so that a handler that holds it open goes on writing   *)
(* it after its name was deleted or given to another file.                 *)
(***************************************************************************)
EXTENDS Integers, Sequences, FiniteSets

CONSTANTS
    Upload,         \* the uploads
    Naming,         \* the ways the uploads may be named: functions to sequences
    totalChunks     \* totalChunks[u], at least 1

VARIABLE fileName   \* fileName[u]: the name of the file uploaded

Chunk(u) == 0..(totalChunks[u] - 1)
Request == UNION {{u} \X Chunk(u) : u \in Upload}
LastChunk(u) == <<u, totalChunks[u] - 1>>

FinalPath(u) == fileName[u]
ChunkPath(u, i) == Append(fileName[u], i)
Paths(u) == {FinalPath(u)} \cup {ChunkPath(u, i) : i \in Chunk(u)}
Path == UNION {Paths(u) : u \in Upload}

ASSUME UploadAssumption ==
    /\ Naming \subseteq [Upload -> Seq(Nat)]
    /\ totalChunks \in [Upload -> Nat \ {0}]

NoFile == <<>>
Hole == <<>>          \* what a file holds where nothing was written

VARIABLES
    client,         \* per upload: pc, chunkIndex, all_flag
    handler,        \* per request: its step, the next chunk to append, the node it writes
    dir,            \* the directory: path -> node
    data,           \* what each node holds
    hash, sorted,   \* in Redis: names with metadata, names in uploadedFiles
    disturbed       \* history: uploads whose files another one has worked on since they began

upvars == <<fileName, client, handler, dir, data, hash, sorted, disturbed>>

\* The node a request makes under a path that names none; the last request of
\* an upload makes the file as well.
Node == {<<r, "chunk">> : r \in Request} \cup {<<LastChunk(u), "file">> : u \in Upload}

UpInit ==
    /\ fileName \in Naming
    /\ client = [u \in Upload |-> [pc |-> "post", chunkIndex |-> 0, all_flag |-> TRUE]]
    /\ handler = [r \in Request |-> [pc |-> "idle", i |-> 0, node |-> NoFile, at |-> 0]]
    /\ dir = [p \in Path |-> NoFile] /\ data = [n \in Node |-> <<>>]
    /\ hash = {} /\ sorted = {}
    /\ disturbed = {}
-----------------------------------------------------------------------------
(* The client.                                                             *)

Current(u) == <<u, client[u].chunkIndex>>

\* axios.post: the request reaches the server, or is lost on the way.
post(u) ==
    /\ client[u].pc = "post"
    /\ client' = [client EXCEPT ![u].pc = "await"]
    /\ \/ handler' = [handler EXCEPT ![Current(u)].pc = "create"]
       \/ UNCHANGED handler
    /\ disturbed' = IF client[u].chunkIndex = 0 THEN disturbed \ {u} ELSE disturbed
    /\ UNCHANGED <<dir, data, hash, sorted>>

\* The loop after the answer: the next chunk, whatever became of this one.
Continue(u, ok) ==
    LET k == client[u].chunkIndex + 1 IN
      client' = [client EXCEPT ![u] =
        [pc |-> IF k < totalChunks[u] THEN "post"
                ELSE IF @.all_flag /\ ok THEN "successful" ELSE "failed",
         chunkIndex |-> k, all_flag |-> @.all_flag /\ ok]]

\* The answer arrives, or the request fails for the client: .catch clears
\* all_flag.
answered(u) ==
    /\ client[u].pc = "await"
    /\ \/ handler[Current(u)].pc = "Ok" /\ Continue(u, TRUE)
       \/ Continue(u, FALSE)
    /\ UNCHANGED <<handler, dir, data, hash, sorted, disturbed>>

-----------------------------------------------------------------------------
(* The server.                                                             *)

Step(r, h) == handler' = [handler EXCEPT ![r] = h]

\* Every other upload that has one of these paths may find its files changed.
Touch(u, ps) == disturbed' = disturbed \cup {v \in Upload \ {u} : Paths(v) \cap ps # {}}

Named(n) == {p \in Path : dir[p] = n}

\* new FileStream(p, FileMode.Create): truncates the file, or makes one.
Create(p, new) ==
    LET n == IF dir[p] = NoFile THEN new ELSE dir[p] IN
      /\ dir' = [dir EXCEPT ![p] = n]
      /\ data' = [data EXCEPT ![n] = <<>>]

\* Writing s from position at on: a gap before it is filled with zeros.
Written(d, at, s) ==
    [k \in 1..(IF Len(d) > at + Len(s) THEN Len(d) ELSE at + Len(s)) |->
       IF k > at /\ k <= at + Len(s) THEN s[k - at]
       ELSE IF k <= Len(d) THEN d[k] ELSE Hole]

createChunk(r) ==
    LET p == ChunkPath(r[1], r[2]) IN
      /\ handler[r].pc = "create"
      /\ Create(p, <<r, "chunk">>)
      /\ Step(r, [handler[r] EXCEPT !.pc = "copy", !.node = dir'[p]])
      /\ Touch(r[1], {p})
      /\ UNCHANGED <<client, hash, sorted>>

\* file.CopyToAsync; any chunk but the last is answered.
copyChunk(r) ==
    /\ handler[r].pc = "copy"
    /\ data' = [data EXCEPT ![handler[r].node] = Written(@, 0, <<r>>)]
    /\ Step(r, [handler[r] EXCEPT !.pc = IF r = LastChunk(r[1]) THEN "assemble" ELSE "Ok"])
    /\ Touch(r[1], Named(handler[r].node))
    /\ UNCHANGED <<client, dir, hash, sorted>>

createFinal(r) ==
    LET p == FinalPath(r[1]) IN
      /\ handler[r].pc = "assemble"
      /\ Create(p, <<r, "file">>)
      /\ Step(r, [handler[r] EXCEPT !.pc = "append", !.node = dir'[p]])
      /\ Touch(r[1], {p})
      /\ UNCHANGED <<client, hash, sorted>>

\* The chunk's file is not deleted.
appendChunkKept(r) ==
    LET h == handler[r]
        p == ChunkPath(r[1], h.i)
        s == data[dir[p]]
    IN /\ h.pc = "append" /\ dir[p] # NoFile
       /\ data' = [data EXCEPT ![h.node] = Written(@, h.at, s)]
       /\ Step(r, [h EXCEPT !.i = @ + 1, !.at = @ + Len(s),
                            !.pc = IF h.i + 1 = totalChunks[r[1]] THEN "HashSet" ELSE @])
       /\ Touch(r[1], {p} \cup Named(h.node))
       /\ UNCHANGED <<client, dir, hash, sorted>>

\* One turn of the loop: open chunk i (FileMode.Open fails when it is missing),
\* copy it to the end of what this handler has written, delete it.
appendChunk(r) ==
    LET h == handler[r]
        p == ChunkPath(r[1], h.i)
        s == data[dir[p]]
    IN /\ h.pc = "append" /\ dir[p] # NoFile
       /\ data' = [data EXCEPT ![h.node] = Written(@, h.at, s)]
       /\ dir' = [dir EXCEPT ![p] = NoFile]
       /\ Step(r, [h EXCEPT !.i = @ + 1, !.at = @ + Len(s),
                            !.pc = IF h.i + 1 = totalChunks[r[1]] THEN "HashSet" ELSE @])
       /\ Touch(r[1], {p} \cup Named(h.node))
       /\ UNCHANGED <<client, hash, sorted>>

hashSet(r) ==
    /\ handler[r].pc = "HashSet"
    /\ hash' = hash \cup {FinalPath(r[1])}
    /\ Step(r, [handler[r] EXCEPT !.pc = "SortedSetAdd"])
    /\ UNCHANGED <<client, dir, data, sorted, disturbed>>

sortedSetAdd(r) ==
    /\ handler[r].pc = "SortedSetAdd"
    /\ sorted' = sorted \cup {FinalPath(r[1])}
    /\ Step(r, [handler[r] EXCEPT !.pc = "Ok"])
    /\ UNCHANGED <<client, dir, data, hash, disturbed>>

Running == {"create", "copy", "assemble", "append", "HashSet", "SortedSetAdd"}

\* catch: any step may fail; what was done before stays.
fail(r) ==
    /\ handler[r].pc \in Running
    /\ Step(r, [handler[r] EXCEPT !.pc = "500"])
    /\ UNCHANGED <<client, dir, data, hash, sorted, disturbed>>

Server(r) == \/ createChunk(r) \/ copyChunk(r) \/ createFinal(r) \/ appendChunk(r)
             \/ hashSet(r) \/ sortedSetAdd(r) \/ fail(r)

UpNext == /\ \/ \E u \in Upload : post(u) \/ answered(u)
             \/ \E r \in Request : Server(r)
          /\ UNCHANGED fileName

UpSpec == UpInit /\ [][UpNext]_upvars
-----------------------------------------------------------------------------
(* Properties.                                                             *)

UpTypeOK ==
    /\ client \in [Upload -> [pc : {"post", "await", "successful", "failed"},
                              chunkIndex : Nat, all_flag : BOOLEAN]]
    /\ \A u \in Upload : client[u].chunkIndex <= totalChunks[u]
    /\ \A p \in Path : dir[p] \in Node \cup {NoFile}
    /\ hash \subseteq Path /\ sorted \subseteq Path

Whole(u) == [k \in 1..totalChunks[u] |-> <<u, k - 1>>]

\* "successful" is the truth: the stored file is the one uploaded, chunk after
\* chunk, and it is listed, as long as no other upload worked on the same files.
SuccessIsStored ==
    \A u \in Upload : (client[u].pc = "successful" /\ u \notin disturbed)
      => /\ dir[FinalPath(u)] # NoFile /\ data[dir[FinalPath(u)]] = Whole(u)
         /\ FinalPath(u) \in sorted

\* A name in the list has its metadata: GetTop10 reads them for every name.
ListedHasMetadata == sorted \subseteq hash

\* A success leaves no chunk behind.
NoChunkLeft ==
    \A u \in Upload : (client[u].pc = "successful" /\ u \notin disturbed)
      => \A i \in Chunk(u) : dir[ChunkPath(u, i)] = NoFile

\* What the page and the service say of an upload is true of the files and of the list.
UploadSound == UpTypeOK /\ SuccessIsStored /\ ListedHasMetadata /\ NoChunkLeft

\* The user is always told how the upload ended.
EveryUploadReported == \A u \in Upload : <>(client[u].pc \in {"successful", "failed"})
=============================================================================
