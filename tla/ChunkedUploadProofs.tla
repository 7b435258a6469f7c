------------------------ MODULE ChunkedUploadProofs ------------------------
(***************************************************************************)
(* A success the upload page reports is a file that is stored and listed,  *)
(* whatever the uploads, their names and their numbers of chunks: UpInv.   *)
(*                                                                         *)
(* What the handlers of an upload know of its files is stated on the       *)
(* values of the variables, f, H, D and A being fileName, handler, dir and *)
(* data, so that one lemma serves a state and the next.                    *)
(***************************************************************************)
EXTENDS ChunkedUpload, TLAPS

-----------------------------------------------------------------------------
(* The invariant                                                           *)

Datum == Request \cup {Hole}
AtWork == {"assemble", "append", "HashSet", "SortedSetAdd"}

\* Types; a handler that is to write has a file open, and only that of the last chunk puts
\* the file together.
Types ==
  /\ fileName \in [Upload -> Seq(Nat)]
  /\ client \in [Upload -> [pc : {"post", "await", "successful", "failed"},
                            chunkIndex : Nat, all_flag : BOOLEAN]]
  /\ handler \in [Request -> [pc : Running \cup {"idle", "Ok", "500"}, i : Nat,
                              node : Node \cup {NoFile}, at : Nat]]
  /\ dir \in [Path -> Node \cup {NoFile}]
  /\ data \in [Node -> Seq(Datum)]
  /\ hash \subseteq Path /\ sorted \subseteq hash

Steps(H) ==
  \A r \in Request :
    /\ H[r].pc \in {"copy", "append"} => H[r].node \in Node
    /\ H[r].pc \in AtWork => r = LastChunk(r[1])
    /\ H[r].pc \in {"idle", "create", "copy", "assemble"} => H[r].i = 0 /\ H[r].at = 0
    /\ H[r].pc = "append" => H[r].i \in Chunk(r[1])

\* The page posts the chunks in turn; as long as all_flag is set each was answered with Ok.
Progress(C, H) ==
  \A u \in Upload :
    /\ C[u].chunkIndex <= totalChunks[u]
    /\ C[u].pc \in {"post", "await"} => C[u].chunkIndex < totalChunks[u]
    /\ C[u].pc = "successful" => C[u].all_flag /\ C[u].chunkIndex = totalChunks[u]
    /\ \A j \in Chunk(u) :
         /\ j > C[u].chunkIndex => H[<<u, j>>].pc = "idle"
         /\ j = C[u].chunkIndex /\ C[u].pc = "post" => H[<<u, j>>].pc = "idle"
         /\ j < C[u].chunkIndex /\ C[u].all_flag => H[<<u, j>>].pc = "Ok"

\* A node is found under one path only: the one it was made for.
Home(f, n) == IF n[2] = "chunk" THEN Append(f[n[1][1]], n[1][2]) ELSE f[n[1][1]]
AtHome(f, D) == \A p \in DOMAIN D : D[p] # NoFile => Home(f, D[p]) = p

\* A name is listed after its metadata were written.
Listed(f, H, hs, st) ==
  \A u \in Upload : /\ H[LastChunk(u)].pc = "SortedSetAdd" => f[u] \in hs
                    /\ H[LastChunk(u)].pc = "Ok" => f[u] \in st

CPath(f, u, j) == Append(f[u], j)
Has(f, D, A, u, j) == D[CPath(f, u, j)] # NoFile /\ A[D[CPath(f, u, j)]] = << <<u, j>> >>
Begins(d, u, n) == Len(d) = n /\ \A k \in 1 .. n : d[k] = <<u, k - 1>>

\* A chunk that is being received has an empty file of its own.
Receives(f, H, D, A, u) ==
  \A j \in Chunk(u) : H[<<u, j>>].pc = "copy" =>
    /\ D[CPath(f, u, j)] # NoFile /\ H[<<u, j>>].node = D[CPath(f, u, j)]
    /\ A[D[CPath(f, u, j)]] = << >>

\* A chunk that was received is there until the last handler has put it into the file.
Early == {"idle", "create", "copy", "assemble", "append"}
Keeps(f, H, D, A, u) ==
  \A j \in Chunk(u) :
    (/\ H[<<u, j>>].pc \in {"Ok", "assemble", "append"}
     /\ H[LastChunk(u)].pc \in Early
     /\ H[LastChunk(u)].pc = "append" => j >= H[LastChunk(u)].i)
      => Has(f, D, A, u, j)

\* The file so far.
Appends(f, H, D, A, u) ==
  H[LastChunk(u)].pc = "append" =>
    /\ D[f[u]] # NoFile /\ H[LastChunk(u)].node = D[f[u]]
    /\ H[LastChunk(u)].at = H[LastChunk(u)].i
    /\ Begins(A[D[f[u]]], u, H[LastChunk(u)].i)
    /\ \A j \in Chunk(u) : j < H[LastChunk(u)].i => D[CPath(f, u, j)] = NoFile

\* The file at the end.
Complete(f, H, D, A, u) ==
  H[LastChunk(u)].pc \in {"HashSet", "SortedSetAdd", "Ok"} =>
    /\ D[f[u]] # NoFile /\ Begins(A[D[f[u]]], u, totalChunks[u])
    /\ \A j \in Chunk(u) : D[CPath(f, u, j)] = NoFile

Intact(f, H, D, A, u) ==
  Receives(f, H, D, A, u) /\ Keeps(f, H, D, A, u) /\ Appends(f, H, D, A, u) /\ Complete(f, H, D, A, u)

UpInv ==
  /\ Types /\ Steps(handler) /\ Progress(client, handler)
  /\ AtHome(fileName, dir) /\ Listed(fileName, handler, hash, sorted)
  /\ \A u \in Upload \ disturbed : client[u].all_flag => Intact(fileName, handler, dir, data, u)

-----------------------------------------------------------------------------
(* Requests, nodes and paths                                               *)

\* A request is an upload and the number of a chunk of it.
LEMMA Requests ==
  /\ \A u \in Upload : totalChunks[u] \in Nat \ {0}
  /\ \A u \in Upload : \A j \in Chunk(u) : <<u, j>> \in Request
  /\ \A r \in Request : r[1] \in Upload /\ r[2] \in Chunk(r[1]) /\ r = <<r[1], r[2]>>
  /\ \A u \in Upload : totalChunks[u] - 1 \in Chunk(u) /\ LastChunk(u) \in Request
PROOF
  <1>1. \A u \in Upload : totalChunks[u] \in Nat \ {0} BY UploadAssumption
  <1>2. \A u \in Upload : \A j \in Chunk(u) : <<u, j>> \in Request BY DEF Request
  <1>3. \A r \in Request : r[1] \in Upload /\ r[2] \in Chunk(r[1]) /\ r = <<r[1], r[2]>>
    BY DEF Request
  <1>4. \A u \in Upload : totalChunks[u] - 1 \in Chunk(u) BY <1>1 DEF Chunk
  <1>5. \A u \in Upload : LastChunk(u) \in Request BY <1>2, <1>4 DEF LastChunk
  <1> QED BY <1>1, <1>2, <1>3, <1>4, <1>5, Zenon

\* The nodes that requests make, and the paths they make them for.
LEMMA Nodes ==
  ASSUME NEW f, NEW r \in Request
  PROVE  /\ <<r, "chunk">> \in Node /\ Home(f, <<r, "chunk">>) = CPath(f, r[1], r[2])
         /\ r = LastChunk(r[1]) => <<r, "file">> \in Node
         /\ Home(f, <<r, "file">>) = f[r[1]]
PROOF
  <1>1. r[1] \in Upload BY Requests
  <1>2. <<r, "chunk">> \in Node BY DEF Node
  <1>3. r = LastChunk(r[1]) => <<r, "file">> \in Node BY <1>1 DEF Node
  <1>4. Home(f, <<r, "chunk">>) = CPath(f, r[1], r[2]) BY Zenon DEF Home, CPath
  <1>5. Home(f, <<r, "file">>) = f[r[1]] BY DEF Home
  <1> QED BY <1>2, <1>3, <1>4, <1>5, Zenon

\* No file is called like none.
LEMMA NodeIsFile == NoFile \notin Node
BY DEF NoFile, Node

\* The paths of one upload differ from each other.
LEMMA PathsApart ==
  ASSUME NEW f \in [Upload -> Seq(Nat)], NEW u \in Upload, NEW i \in Chunk(u), NEW j \in Chunk(u)
  PROVE  /\ CPath(f, u, i) # f[u]
         /\ i # j => CPath(f, u, i) # CPath(f, u, j)
PROOF
  <1>1. f[u] \in Seq(Nat) /\ i \in Nat /\ j \in Nat BY Requests DEF Chunk
  <1>2. Len(Append(f[u], i)) = Len(f[u]) + 1 /\ Append(f[u], i)[Len(f[u]) + 1] = i BY <1>1
  <1>3. Append(f[u], j)[Len(f[u]) + 1] = j BY <1>1
  <1>4. Len(f[u]) \in Nat BY <1>1
  <1> QED BY <1>2, <1>3, <1>4 DEF CPath

\* They are the names of the directory.
LEMMA PathsOf ==
  ASSUME NEW u \in Upload
  PROVE  /\ FinalPath(u) = fileName[u] /\ fileName[u] \in Paths(u) /\ Paths(u) \subseteq Path
         /\ \A j \in Chunk(u) : /\ ChunkPath(u, j) = CPath(fileName, u, j)
                                /\ CPath(fileName, u, j) \in Paths(u)
BY Zenon DEF FinalPath, ChunkPath, CPath, Paths, Path

-----------------------------------------------------------------------------
(* Files                                                                   *)

\* Opening a file for writing leaves it empty and the others as they are.
LEMMA CreateEffect ==
  ASSUME UpInv, NEW p \in Path, NEW new \in Node, Home(fileName, new) = p, Create(p, new)
  PROVE  /\ dir' \in [Path -> Node \cup {NoFile}] /\ data' \in [Node -> Seq(Datum)]
         /\ AtHome(fileName, dir')
         /\ dir'[p] \in Node /\ dir'[p] # NoFile /\ data'[dir'[p]] = << >>
         /\ \A q \in Path \ {p} : dir'[q] = dir[q] /\ (dir[q] # NoFile => data'[dir[q]] = data[dir[q]])
PROOF
  <1> DEFINE n == IF dir[p] = NoFile THEN new ELSE dir[p]
  <1>0. /\ dir \in [Path -> Node \cup {NoFile}] /\ data \in [Node -> Seq(Datum)]
        /\ AtHome(fileName, dir) /\ dir' = [dir EXCEPT ![p] = n] /\ data' = [data EXCEPT ![n] = << >>]
    BY Zenon DEF UpInv, Types, Create
  <1>1. n \in Node /\ Home(fileName, n) = p BY <1>0, Zenon DEF AtHome
  <1> HIDE DEF n
  <1>2. dir' \in [Path -> Node \cup {NoFile}] /\ dir'[p] = n /\ \A q \in Path \ {p} : dir'[q] = dir[q]
    BY <1>0, <1>1, Zenon
  <1>3. << >> \in Seq(Datum) OBVIOUS
  <1>4. data' \in [Node -> Seq(Datum)] /\ data'[n] = << >> /\ \A m \in Node \ {n} : data'[m] = data[m]
    BY <1>0, <1>1, <1>3, Zenon
  <1>5. \A q \in Path \ {p} : dir[q] # NoFile => dir[q] \in Node \ {n} BY <1>0, <1>1, Zenon DEF AtHome
  <1>6. AtHome(fileName, dir') BY <1>0, <1>1, <1>2, Zenon DEF AtHome
  <1>7. n # NoFile BY <1>1, NodeIsFile
  <1> QED BY <1>1, <1>2, <1>4, <1>5, <1>6, <1>7, Zenon

\* Writing to a node changes the file of one path.
LEMMA WriteEffect ==
  ASSUME UpInv, NEW n \in Node, NEW x \in Seq(Datum), data' = [data EXCEPT ![n] = x]
  PROVE  /\ data' \in [Node -> Seq(Datum)] /\ data'[n] = x
         /\ \A q \in Path : dir[q] # n /\ dir[q] # NoFile => data'[dir[q]] = data[dir[q]]
         /\ \A q, s \in Path : dir[q] = dir[s] /\ dir[q] # NoFile => q = s
PROOF
  <1>0. /\ dir \in [Path -> Node \cup {NoFile}] /\ data \in [Node -> Seq(Datum)]
        /\ AtHome(fileName, dir)
    BY Zenon DEF UpInv, Types
  <1>1. data' \in [Node -> Seq(Datum)] /\ data'[n] = x /\ \A m \in Node \ {n} : data'[m] = data[m]
    BY <1>0
  <1>2. \A q, s \in Path : dir[q] = dir[s] /\ dir[q] # NoFile => q = s BY <1>0 DEF AtHome
  <1> QED BY <1>0, <1>1, <1>2, Zenon

\* What a file holds after a write are data and holes.
LEMMA WrittenType ==
  ASSUME NEW d \in Seq(Datum), NEW at \in Nat, NEW s \in Seq(Datum)
  PROVE  Written(d, at, s) \in Seq(Datum)
PROOF
  <1> DEFINE N == IF Len(d) > at + Len(s) THEN Len(d) ELSE at + Len(s)
             w == Written(d, at, s)
  <1>1. N \in Nat OBVIOUS
  <1>2. w = [k \in 1 .. N |-> IF k > at /\ k <= at + Len(s) THEN s[k - at]
                             ELSE IF k <= Len(d) THEN d[k] ELSE Hole]
    BY DEF Written
  <1>3. Hole \in Datum BY DEF Datum
  <1>4. ASSUME NEW k \in 1 .. N
        PROVE  (IF k > at /\ k <= at + Len(s) THEN s[k - at] ELSE IF k <= Len(d) THEN d[k] ELSE Hole) \in Datum
    <2>1. CASE k > at /\ k <= at + Len(s)
      <3>1. k - at \in 1 .. Len(s) BY <2>1
      <3>2. s[k - at] \in Datum BY <3>1
      <3> QED BY <2>1, <3>2
    <2>2. CASE ~ (k > at /\ k <= at + Len(s)) /\ k <= Len(d)
      <3>1. k \in 1 .. Len(d) BY <2>2
      <3>2. d[k] \in Datum BY <3>1
      <3> QED BY <2>2, <3>2
    <2>3. CASE ~ (k > at /\ k <= at + Len(s)) /\ ~ (k <= Len(d)) BY <1>3, <2>3
    <2> QED BY <2>1, <2>2, <2>3, Zenon
  <1> HIDE DEF N, w
  <1>5. w \in [1 .. N -> Datum] BY <1>2, <1>4, Zenon
  <1>6. w \in Seq(Datum) BY <1>1, <1>5
  <1> QED BY <1>6 DEF w

\* The first write to an empty file, and the one that appends a chunk.
LEMMA WrittenNext ==
  ASSUME NEW u \in Upload, NEW n \in Chunk(u), NEW d \in Seq(Datum), Begins(d, u, n)
  PROVE  /\ Begins(Written(d, n, << <<u, n>> >>), u, n + 1)
         /\ Len(<< <<u, n>> >>) = 1 /\ << <<u, n>> >> \in Seq(Datum)
PROOF
  <1> DEFINE x == <<u, n>>
             s == <<x>>
             w == Written(d, n, s)
  <1>1. n \in Nat BY Requests DEF Chunk
  <1>2. x \in Datum BY Requests, Zenon DEF Datum
  <1> HIDE DEF x
  <1>3. s \in Seq(Datum) /\ Len(s) = 1 /\ s[1] = x BY <1>2
  <1>4. w \in Seq(Datum) BY <1>1, <1>3, WrittenType, Zenon
  <1>5. Len(d) = n /\ \A k \in 1 .. n : d[k] = <<u, k - 1>> BY DEF Begins
  <1>6. w = [k \in 1 .. (n + 1) |-> IF k > n /\ k <= n + 1 THEN s[k - n]
                                   ELSE IF k <= n THEN d[k] ELSE Hole]
    BY <1>1, <1>3, <1>5 DEF Written
  <1> HIDE DEF s, w
  <1>7. DOMAIN w = 1 .. (n + 1) BY <1>6
  <1>8. Len(w) = n + 1
    <2>1. DOMAIN w = 1 .. Len(w) /\ Len(w) \in Nat BY <1>4
    <2> QED BY <1>1, <1>7, <2>1
  <1>9. ASSUME NEW k \in 1 .. (n + 1) PROVE w[k] = <<u, k - 1>>
    <2>1. CASE k = n + 1
      <3>1. w[k] = s[1] BY <1>1, <1>6, <2>1
      <3>2. k - 1 = n BY <1>1, <2>1
      <3> QED BY <1>3, <3>1, <3>2, Zenon DEF x
    <2>2. CASE k # n + 1
      <3>1. k \in 1 .. n /\ k <= n /\ ~ (k > n) BY <1>1, <2>2
      <3>2. w[k] = d[k] BY <1>6, <3>1, Zenon
      <3> QED BY <1>5, <3>1, <3>2, Zenon
    <2> QED BY <2>1, <2>2, Zenon
  <1>10. Begins(w, u, n + 1) BY <1>8, <1>9, Zenon DEF Begins
  <1> QED BY <1>3, <1>10 DEF w, s, x

\* A chunk that is received.
LEMMA WrittenOne ==
  ASSUME NEW r \in Request
  PROVE  Written(<< >>, 0, <<r>>) = <<r>> /\ <<r>> \in Seq(Datum)
PROOF
  <1>1. <<r>> \in Seq(Request) /\ Len(<<r>>) = 1 /\ <<r>>[1] = r OBVIOUS
  <1>2. Written(<< >>, 0, <<r>>) = [k \in 1 .. 1 |-> r]
    BY <1>1 DEF Written
  <1>3. [k \in 1 .. 1 |-> r] = <<r>> OBVIOUS
  <1> QED BY <1>2, <1>3 DEF Datum

-----------------------------------------------------------------------------
(* What a step leaves of an upload                                         *)

\* The handlers of u and its files are the same.
Same(f, H, D, A, H2, D2, A2, u) ==
  /\ \A j \in Chunk(u) : H2[<<u, j>>] = H[<<u, j>>]
  /\ D2[f[u]] = D[f[u]] /\ (D[f[u]] # NoFile => A2[D[f[u]]] = A[D[f[u]]])
  /\ \A j \in Chunk(u) : /\ D2[CPath(f, u, j)] = D[CPath(f, u, j)]
                         /\ D[CPath(f, u, j)] # NoFile =>
                              A2[D[CPath(f, u, j)]] = A[D[CPath(f, u, j)]]

\* An upload that nobody works on stays as it is.
LEMMA SameIntact ==
  ASSUME NEW f, NEW H, NEW D, NEW A, NEW H2, NEW D2, NEW A2, NEW u \in Upload,
         Same(f, H, D, A, H2, D2, A2, u), Intact(f, H, D, A, u)
  PROVE  Intact(f, H2, D2, A2, u)
PROOF
  <1> DEFINE L == LastChunk(u)
  <1>1. H2[L] = H[L]
    <2>1. totalChunks[u] - 1 \in Chunk(u) BY Requests, Zenon
    <2> QED BY <2>1, Zenon DEF Same, LastChunk
  <1>2. \A j \in Chunk(u) :
          /\ H2[<<u, j>>] = H[<<u, j>>] /\ D2[CPath(f, u, j)] = D[CPath(f, u, j)]
          /\ D[CPath(f, u, j)] # NoFile => A2[D[CPath(f, u, j)]] = A[D[CPath(f, u, j)]]
    BY Zenon DEF Same
  <1>3. D2[f[u]] = D[f[u]] /\ (D[f[u]] # NoFile => A2[D[f[u]]] = A[D[f[u]]]) BY Zenon DEF Same
  <1>4. Receives(f, H2, D2, A2, u) BY <1>2, Zenon DEF Intact, Receives
  <1>5. Keeps(f, H2, D2, A2, u) BY <1>1, <1>2, Zenon DEF Intact, Keeps, Has
  <1>6. Appends(f, H2, D2, A2, u) BY <1>1, <1>2, <1>3, Zenon DEF Intact, Appends
  <1>7. Complete(f, H2, D2, A2, u) BY <1>1, <1>2, <1>3, Zenon DEF Intact, Complete
  <1> QED BY <1>4, <1>5, <1>6, <1>7, Zenon DEF Intact

\* A record of a handler.
HandlerState == [pc : Running \cup {"idle", "Ok", "500"}, i : Nat, node : Node \cup {NoFile}, at : Nat]

\* A step of a handler fits in with what the page knows.
LEMMA HandlerProgress ==
  ASSUME NEW C, NEW H \in [Request -> HandlerState], Progress(C, H), NEW r \in Request,
         H[r].pc \in Running, NEW h \in HandlerState
  PROVE  /\ [H EXCEPT ![r] = h] \in [Request -> HandlerState]
         /\ Progress(C, [H EXCEPT ![r] = h])
PROOF
  <1> DEFINE G == [H EXCEPT ![r] = h]
  <1>1. G \in [Request -> HandlerState] /\ \A q \in Request \ {r} : G[q] = H[q] OBVIOUS
  <1>2. H[r].pc # "idle" /\ H[r].pc # "Ok" BY DEF Running
  <1> HIDE DEF G
  <1>3. ASSUME NEW u \in Upload, NEW j \in Chunk(u)
        PROVE  /\ j > C[u].chunkIndex => G[<<u, j>>].pc = "idle"
               /\ j = C[u].chunkIndex /\ C[u].pc = "post" => G[<<u, j>>].pc = "idle"
               /\ j < C[u].chunkIndex /\ C[u].all_flag => G[<<u, j>>].pc = "Ok"
    <2>1. <<u, j>> \in Request BY Requests, Zenon
    <2>2. /\ j > C[u].chunkIndex => H[<<u, j>>].pc = "idle"
          /\ j = C[u].chunkIndex /\ C[u].pc = "post" => H[<<u, j>>].pc = "idle"
          /\ j < C[u].chunkIndex /\ C[u].all_flag => H[<<u, j>>].pc = "Ok"
      BY Zenon DEF Progress
    <2>3. CASE <<u, j>> = r BY <1>2, <2>2, <2>3, Zenon
    <2>4. CASE <<u, j>> # r
      <3>1. G[<<u, j>>] = H[<<u, j>>] BY <1>1, <2>1, <2>4
      <3> QED BY <2>2, <3>1, Zenon
    <2> QED BY <2>3, <2>4, Zenon
  <1>4. Progress(C, G) BY <1>3, Zenon DEF Progress
  <1> QED BY <1>1, <1>4 DEF G

\* While a handler of an upload that went well so far is at work, those of the chunks before
\* it are done and those after it have not begun.
LEMMA OneAtWork ==
  ASSUME NEW C, NEW H, Progress(C, H), NEW u \in Upload, NEW j \in Chunk(u),
         C[u].chunkIndex \in Nat, C[u].all_flag, H[<<u, j>>].pc \in Running
  PROVE  /\ \A k \in Chunk(u) : k < j => H[<<u, k>>].pc = "Ok"
         /\ \A k \in Chunk(u) : k > j => H[<<u, k>>].pc = "idle"
PROOF
  <1>1. H[<<u, j>>].pc # "idle" /\ H[<<u, j>>].pc # "Ok" BY Zenon DEF Running
  <1>2. \A k \in Chunk(u) : /\ k > C[u].chunkIndex => H[<<u, k>>].pc = "idle"
                            /\ k < C[u].chunkIndex => H[<<u, k>>].pc = "Ok"
    BY Zenon DEF Progress
  <1>3. j \in Nat BY Requests DEF Chunk
  <1>4. j = C[u].chunkIndex BY <1>1, <1>2, <1>3
  <1> QED BY <1>2, <1>4, Zenon

\* Upload u has none of the paths ps, so a step that touches those leaves it out of disturbed.
LEMMA Untouched ==
  ASSUME NEW v \in Upload, NEW ps, Touch(v, ps), NEW u \in Upload \ disturbed'
  PROVE  u \notin disturbed /\ (u # v => Paths(u) \cap ps = {})
BY DEF Touch

\* What a handler's step has to preserve.
LEMMA Assemble ==
  ASSUME UpInv, NEW r \in Request, handler[r].pc \in Running, NEW h \in HandlerState,
         handler' = [handler EXCEPT ![r] = h], UNCHANGED <<fileName, client>>,
         h.pc \in {"copy", "append"} => h.node \in Node,
         h.pc \in AtWork => r = LastChunk(r[1]),
         h.pc \in {"idle", "create", "copy", "assemble"} => h.i = 0 /\ h.at = 0,
         h.pc = "append" => h.i \in Chunk(r[1]),
         dir' \in [Path -> Node \cup {NoFile}], data' \in [Node -> Seq(Datum)],
         hash' \subseteq Path, sorted' \subseteq hash',
         AtHome(fileName, dir'),
         hash \subseteq hash', sorted \subseteq sorted',
         r = LastChunk(r[1]) /\ h.pc = "SortedSetAdd" => fileName[r[1]] \in hash',
         r = LastChunk(r[1]) /\ h.pc = "Ok" => fileName[r[1]] \in sorted',
         disturbed \subseteq disturbed',
         \A u \in Upload \ disturbed' : u # r[1] =>
           /\ dir'[fileName[u]] = dir[fileName[u]]
           /\ dir[fileName[u]] # NoFile => data'[dir[fileName[u]]] = data[dir[fileName[u]]]
           /\ \A j \in Chunk(u) :
                /\ dir'[CPath(fileName, u, j)] = dir[CPath(fileName, u, j)]
                /\ dir[CPath(fileName, u, j)] # NoFile =>
                     data'[dir[CPath(fileName, u, j)]] = data[dir[CPath(fileName, u, j)]],
         (/\ client[r[1]].all_flag /\ r[1] \notin disturbed'
          /\ Intact(fileName, handler, dir, data, r[1])
          /\ \A k \in Chunk(r[1]) : k < r[2] => handler[<<r[1], k>>].pc = "Ok"
          /\ \A k \in Chunk(r[1]) : k > r[2] => handler[<<r[1], k>>].pc = "idle")
           => Intact(fileName, handler', dir', data', r[1])
  PROVE  UpInv'
PROOF
  <1>0. r[1] \in Upload /\ r[2] \in Chunk(r[1]) /\ r = <<r[1], r[2]>> BY Requests, Zenon
  <1>1. Path' = Path BY DEF Path, Paths, FinalPath, ChunkPath
  <1>2. handler \in [Request -> HandlerState] BY Zenon DEF UpInv, Types, HandlerState
  <1>3. handler' \in [Request -> HandlerState] /\ Progress(client, handler')
    BY <1>2, HandlerProgress, Zenon DEF UpInv
  <1>4. handler'[r] = h /\ \A q \in Request \ {r} : handler'[q] = handler[q] BY <1>2, Zenon
  <1>5. Types' BY <1>1, <1>3, Zenon DEF UpInv, Types, HandlerState
  <1>6. Steps(handler')
    <2> SUFFICES ASSUME NEW q \in Request
                 PROVE  /\ handler'[q].pc \in {"copy", "append"} => handler'[q].node \in Node
                        /\ handler'[q].pc \in AtWork => q = LastChunk(q[1])
                        /\ handler'[q].pc \in {"idle", "create", "copy", "assemble"}
                             => handler'[q].i = 0 /\ handler'[q].at = 0
                        /\ handler'[q].pc = "append" => handler'[q].i \in Chunk(q[1])
      BY Zenon DEF Steps
    <2>1. CASE q = r BY <1>4, <2>1, Zenon
    <2>2. CASE q # r
      <3>1. handler'[q] = handler[q] BY <1>4, <2>2, Zenon
      <3> QED BY <3>1, Zenon DEF UpInv, Steps
    <2> QED BY <2>1, <2>2, Zenon
  <1>7. Listed(fileName, handler', hash', sorted')
    <2> SUFFICES ASSUME NEW u \in Upload
                 PROVE  /\ handler'[LastChunk(u)].pc = "SortedSetAdd" => fileName[u] \in hash'
                        /\ handler'[LastChunk(u)].pc = "Ok" => fileName[u] \in sorted'
      BY Zenon DEF Listed
    <2>1. LastChunk(u) \in Request BY Requests, Zenon
    <2>2. CASE LastChunk(u) = r
      <3>1. r[1] = u BY <2>2, Zenon DEF LastChunk
      <3> QED BY <1>4, <2>2, <3>1, Zenon
    <2>3. CASE LastChunk(u) # r
      <3>1. handler'[LastChunk(u)] = handler[LastChunk(u)] BY <1>4, <2>1, <2>3, Zenon
      <3>2. /\ handler[LastChunk(u)].pc = "SortedSetAdd" => fileName[u] \in hash
            /\ handler[LastChunk(u)].pc = "Ok" => fileName[u] \in sorted
        BY Zenon DEF UpInv, Listed
      <3> QED BY <3>1, <3>2, Zenon
    <2> QED BY <2>2, <2>3, Zenon
  <1>8. ASSUME NEW u \in Upload \ disturbed', client[u].all_flag
        PROVE  Intact(fileName, handler', dir', data', u)
    <2>1. Intact(fileName, handler, dir, data, u) BY <1>8, Zenon DEF UpInv
    <2>2. CASE u = r[1]
      <3>1. client[u].chunkIndex \in Nat BY Zenon DEF UpInv, Types
      <3>2. Progress(client, handler) BY Zenon DEF UpInv
      <3>3. handler[<<u, r[2]>>].pc \in Running BY <1>0, <2>2, Zenon
      <3>4. /\ \A k \in Chunk(u) : k < r[2] => handler[<<u, k>>].pc = "Ok"
            /\ \A k \in Chunk(u) : k > r[2] => handler[<<u, k>>].pc = "idle"
        BY <1>0, <1>8, <2>2, <3>1, <3>2, <3>3, OneAtWork
      <3> QED BY <1>8, <2>1, <2>2, <3>4, Zenon
    <2>3. CASE u # r[1]
      <3>1. \A j \in Chunk(u) : handler'[<<u, j>>] = handler[<<u, j>>]
        <4> SUFFICES ASSUME NEW j \in Chunk(u) PROVE handler'[<<u, j>>] = handler[<<u, j>>] BY Zenon
        <4>1. <<u, j>> \in Request BY Requests, Zenon
        <4>2. <<u, j>> # r BY <1>0, <2>3
        <4> QED BY <1>4, <4>1, <4>2, Zenon
      <3>2. Same(fileName, handler, dir, data, handler', dir', data', u)
        BY <2>3, <3>1, Zenon DEF Same
      <3> QED BY <2>1, <3>2, SameIntact, Zenon
    <2> QED BY <2>2, <2>3, Zenon
  <1>9. Steps(handler)' /\ Progress(client, handler)' /\ AtHome(fileName, dir)'
        /\ Listed(fileName, handler, hash, sorted)'
    BY <1>3, <1>6, <1>7 DEF Steps, Progress, AtHome, Listed, Home
  <1>10. \A u \in Upload \ disturbed' :
           client'[u].all_flag => Intact(fileName', handler', dir', data', u)
    BY <1>8, Zenon
  <1> QED BY <1>5, <1>9, <1>10, Zenon DEF UpInv

-----------------------------------------------------------------------------
(* The steps                                                               *)

\* What the invariant says of a handler at work, in one place.
LEMMA AtStep ==
  ASSUME UpInv, NEW r \in Request
  PROVE  /\ r[1] \in Upload /\ r[2] \in Chunk(r[1]) /\ r = <<r[1], r[2]>>
         /\ fileName \in [Upload -> Seq(Nat)] /\ handler[r] \in HandlerState
         /\ dir \in [Path -> Node \cup {NoFile}] /\ data \in [Node -> Seq(Datum)]
         /\ hash \subseteq Path /\ sorted \subseteq hash /\ AtHome(fileName, dir)
         /\ handler[r].pc \in {"copy", "append"} => handler[r].node \in Node
         /\ handler[r].pc \in AtWork => r = LastChunk(r[1])
         /\ handler[r].pc \in {"idle", "create", "copy", "assemble"} => handler[r].i = 0 /\ handler[r].at = 0
         /\ handler[r].pc = "append" => handler[r].i \in Chunk(r[1])
PROOF
  <1>1. r[1] \in Upload /\ r[2] \in Chunk(r[1]) /\ r = <<r[1], r[2]>> BY Requests, Zenon
  <1>2. /\ fileName \in [Upload -> Seq(Nat)] /\ handler[r] \in HandlerState
        /\ dir \in [Path -> Node \cup {NoFile}] /\ data \in [Node -> Seq(Datum)]
        /\ hash \subseteq Path /\ sorted \subseteq hash /\ AtHome(fileName, dir)
    BY Zenon DEF UpInv, Types, HandlerState
  <1>3. /\ handler[r].pc \in {"copy", "append"} => handler[r].node \in Node
        /\ handler[r].pc \in AtWork => r = LastChunk(r[1])
        /\ handler[r].pc \in {"idle", "create", "copy", "assemble"} => handler[r].i = 0 /\ handler[r].at = 0
        /\ handler[r].pc = "append" => handler[r].i \in Chunk(r[1])
    BY Zenon DEF UpInv, Steps
  <1> QED BY <1>1, <1>2, <1>3, Zenon

\* A path of an upload that the step of another does not touch.
LEMMA OtherPaths ==
  ASSUME NEW v \in Upload, NEW ps, Touch(v, ps), NEW u \in Upload \ disturbed', u # v
  PROVE  /\ fileName[u] \in Path \ ps
         /\ \A j \in Chunk(u) : CPath(fileName, u, j) \in Path \ ps
BY Untouched, PathsOf

\* The handlers and the paths of the upload of which handler r goes on to h.
Own(r, h) ==
  /\ handler'[<<r[1], r[2]>>] = h /\ handler[<<r[1], r[2]>>] = handler[r]
  /\ \A k \in Chunk(r[1]) \ {r[2]} :
       /\ handler'[<<r[1], k>>] = handler[<<r[1], k>>]
       /\ handler[<<r[1], k>>].pc = IF k < r[2] THEN "Ok" ELSE "idle"
       /\ CPath(fileName, r[1], k) \in Path \ {CPath(fileName, r[1], r[2]), fileName[r[1]]}
  /\ CPath(fileName, r[1], r[2]) \in Path \ {fileName[r[1]]} /\ fileName[r[1]] \in Path
  /\ \/ LastChunk(r[1]) = r /\ handler'[LastChunk(r[1])] = h /\ \A k \in Chunk(r[1]) : k <= r[2]
     \/ /\ LastChunk(r[1]) # r
        /\ handler'[LastChunk(r[1])].pc = "idle" /\ handler[LastChunk(r[1])].pc = "idle"

\* The handlers of the upload that makes a step.
LEMMA OwnHandlers ==
  ASSUME UpInv, NEW r \in Request, NEW h, handler' = [handler EXCEPT ![r] = h],
         handler[r].pc \in Running,
         \A k \in Chunk(r[1]) : k < r[2] => handler[<<r[1], k>>].pc = "Ok",
         \A k \in Chunk(r[1]) : k > r[2] => handler[<<r[1], k>>].pc = "idle"
  PROVE  Own(r, h)
PROOF
  <1> DEFINE u == r[1]
             j == r[2]
             l == totalChunks[u] - 1
  <1>1. u \in Upload /\ j \in Chunk(u) /\ r = <<u, j>> BY Requests, Zenon
  <1>2. handler \in [Request -> HandlerState] /\ fileName \in [Upload -> Seq(Nat)]
    BY Zenon DEF UpInv, Types, HandlerState
  <1>3. handler'[r] = h /\ handler'[<<u, j>>] = h /\ handler[<<u, j>>] = handler[r] BY <1>1, <1>2, Zenon
  <1>4. ASSUME NEW k \in Chunk(u) \ {j}
        PROVE  /\ handler'[<<u, k>>] = handler[<<u, k>>]
               /\ handler[<<u, k>>].pc = IF k < j THEN "Ok" ELSE "idle"
               /\ CPath(fileName, u, k) \in Path \ {CPath(fileName, u, j), fileName[u]}
    <2>1. k \in Nat /\ j \in Nat BY <1>1, Requests DEF Chunk
    <2>2. <<u, k>> \in Request /\ <<u, k>> # r BY <1>1, Requests, Zenon
    <2>3. handler'[<<u, k>>] = handler[<<u, k>>] BY <1>2, <2>2, Zenon
    <2>4. handler[<<u, k>>].pc = IF k < j THEN "Ok" ELSE "idle" BY <2>1
    <2>5. CPath(fileName, u, k) \in Path BY <1>1, PathsOf, Zenon
    <2>6. k \in Chunk(u) /\ k # j BY Zenon
    <2>7. CPath(fileName, u, k) # fileName[u] /\ CPath(fileName, u, k) # CPath(fileName, u, j)
      BY <1>1, <1>2, <2>6, PathsApart, Zenon
    <2> QED BY <2>3, <2>4, <2>5, <2>7, Zenon
  <1>5. CPath(fileName, u, j) \in Path \ {fileName[u]} /\ fileName[u] \in Path
    BY <1>1, <1>2, PathsApart, PathsOf
  <1>6. l \in Chunk(u) /\ LastChunk(u) = <<u, l>> /\ \A k \in Chunk(u) : k \in Nat /\ k <= l
    BY <1>1, Requests DEF LastChunk, Chunk
  <1> HIDE DEF l
  <1>7. ASSUME l = j
        PROVE  LastChunk(u) = r /\ handler'[LastChunk(u)] = h /\ \A k \in Chunk(u) : k <= j
    BY <1>1, <1>3, <1>6, <1>7, Zenon
  <1>8. ASSUME l # j
        PROVE  /\ LastChunk(u) # r
               /\ handler'[LastChunk(u)].pc = "idle" /\ handler[LastChunk(u)].pc = "idle"
    <2>1. ~ (l < j) BY <1>1, <1>6, <1>8
    <2>2. LastChunk(u) # r BY <1>1, <1>6, <1>8
    <2>3. handler'[<<u, l>>].pc = "idle" /\ handler[<<u, l>>].pc = "idle" BY <1>4, <1>6, <1>8, <2>1, Zenon
    <2> QED BY <1>6, <2>2, <2>3, Zenon
  <1> QED BY <1>3, <1>4, <1>5, <1>7, <1>8, Zenon DEF Own

\* The file of a chunk is opened.
LEMMA CreateChunkStep ==
  ASSUME UpInv, NEW r \in Request, createChunk(r), UNCHANGED fileName
  PROVE  UpInv'
PROOF
  <1> DEFINE u == r[1]
             j == r[2]
             p == CPath(fileName, u, j)
             h == [handler[r] EXCEPT !.pc = "copy", !.node = dir'[p]]
  <1>0. /\ u \in Upload /\ j \in Chunk(u) /\ r = <<u, j>> /\ handler[r] \in HandlerState
        /\ hash \subseteq Path /\ sorted \subseteq hash
        /\ handler[r].pc = "create" => handler[r].i = 0 /\ handler[r].at = 0
    BY AtStep, Zenon
  <1>1. p = ChunkPath(u, j) /\ p \in Path BY <1>0, PathsOf, Zenon
  <1>2. /\ handler[r].pc = "create" /\ Create(p, <<r, "chunk">>)
        /\ handler' = [handler EXCEPT ![r] = h] /\ Touch(u, {p}) /\ UNCHANGED <<client, hash, sorted>>
    BY <1>1 DEF createChunk, Step
  <1>3. <<r, "chunk">> \in Node /\ Home(fileName, <<r, "chunk">>) = p BY Nodes, Zenon
  <1> HIDE DEF p, h
  <1>4. /\ dir' \in [Path -> Node \cup {NoFile}] /\ data' \in [Node -> Seq(Datum)] /\ AtHome(fileName, dir')
        /\ dir'[p] \in Node /\ dir'[p] # NoFile /\ data'[dir'[p]] = << >>
        /\ \A q \in Path \ {p} : dir'[q] = dir[q] /\ (dir[q] # NoFile => data'[dir[q]] = data[dir[q]])
    BY <1>1, <1>2, <1>3, CreateEffect, Zenon
  <1>5. /\ h \in HandlerState /\ h.pc = "copy" /\ h.node = dir'[p] /\ h.i = 0 /\ h.at = 0
    BY <1>0, <1>2, <1>4, Zenon DEF h, HandlerState, Running
  <1>6. handler[r].pc \in Running BY <1>2 DEF Running
  <1>7. ASSUME Intact(fileName, handler, dir, data, u),
               \A k \in Chunk(u) : k < j => handler[<<u, k>>].pc = "Ok",
               \A k \in Chunk(u) : k > j => handler[<<u, k>>].pc = "idle"
        PROVE  Intact(fileName, handler', dir', data', u)
    <2>1. /\ handler'[<<u, j>>] = h
          /\ \A k \in Chunk(u) \ {j} :
               /\ handler'[<<u, k>>] = handler[<<u, k>>]
               /\ handler[<<u, k>>].pc = IF k < j THEN "Ok" ELSE "idle"
               /\ CPath(fileName, u, k) \in Path \ {p}
          /\ \/ LastChunk(u) = r /\ handler'[LastChunk(u)] = h
             \/ handler'[LastChunk(u)].pc = "idle" /\ handler[LastChunk(u)].pc = "idle"
      <3>1. Own(r, h) BY <1>2, <1>6, <1>7, OwnHandlers, Zenon
      <3> QED BY <3>1, Zenon DEF Own, p
    <2>2. handler'[LastChunk(u)].pc \in {"idle", "copy"} /\ handler[LastChunk(u)].pc \in {"idle", "create"}
      BY <1>2, <1>5, <2>1, Zenon
    <2>3. Receives(fileName, handler', dir', data', u)
      BY <1>4, <1>5, <2>1, Zenon DEF Receives, p
    <2>4. Keeps(fileName, handler', dir', data', u)
      <3> SUFFICES ASSUME NEW k \in Chunk(u), handler'[<<u, k>>].pc \in {"Ok", "assemble", "append"}
                   PROVE  Has(fileName, dir', data', u, k)
        BY Zenon DEF Keeps
      <3>1. k # j BY <1>5, <2>1, Zenon
      <3>2. handler[<<u, k>>].pc \in {"Ok", "assemble", "append"} BY <2>1, <3>1, Zenon
      <3>3. handler[LastChunk(u)].pc \in Early /\ handler[LastChunk(u)].pc # "append" BY <2>2, Zenon DEF Early
      <3>4. Has(fileName, dir, data, u, k) BY <1>7, <3>2, <3>3, Zenon DEF Intact, Keeps
      <3> QED BY <1>4, <2>1, <3>1, <3>4, Zenon DEF Has
    <2>5. Appends(fileName, handler', dir', data', u) BY <2>2, Zenon DEF Appends
    <2>6. Complete(fileName, handler', dir', data', u) BY <2>2, Zenon DEF Complete
    <2> QED BY <2>3, <2>4, <2>5, <2>6 DEF Intact
  <1>8. disturbed \subseteq disturbed' /\ \A v \in Upload \ disturbed' : v # u =>
           /\ fileName[v] \in Path \ {p}
           /\ \A k \in Chunk(v) : CPath(fileName, v, k) \in Path \ {p}
    BY <1>0, <1>2, OtherPaths, Zenon DEF Touch
  <1>9. \A v \in Upload \ disturbed' : v # r[1] =>
           /\ dir'[fileName[v]] = dir[fileName[v]]
           /\ dir[fileName[v]] # NoFile => data'[dir[fileName[v]]] = data[dir[fileName[v]]]
           /\ \A k \in Chunk(v) :
                /\ dir'[CPath(fileName, v, k)] = dir[CPath(fileName, v, k)]
                /\ dir[CPath(fileName, v, k)] # NoFile =>
                     data'[dir[CPath(fileName, v, k)]] = data[dir[CPath(fileName, v, k)]]
    BY <1>4, <1>8, Zenon
  <1> QED
    <2>1. h.pc \notin AtWork /\ h.pc \notin {"SortedSetAdd", "Ok", "append"} BY <1>5 DEF AtWork
    <2>2. hash' \subseteq Path /\ sorted' \subseteq hash' /\ hash' = hash /\ sorted' = sorted BY <1>0, <1>2, Zenon
    <2> QED BY <1>2, <1>4, <1>5, <1>6, <1>7, <1>8, <1>9, <2>1, <2>2, Assemble, Zenon

\* The file is opened to be put together.
LEMMA CreateFinalStep ==
  ASSUME UpInv, NEW r \in Request, createFinal(r), UNCHANGED fileName
  PROVE  UpInv'
PROOF
  <1> DEFINE u == r[1]
             j == r[2]
             p == fileName[u]
             h == [handler[r] EXCEPT !.pc = "append", !.node = dir'[p]]
  <1>0. /\ u \in Upload /\ j \in Chunk(u) /\ r = <<u, j>> /\ handler[r] \in HandlerState
        /\ hash \subseteq Path /\ sorted \subseteq hash
        /\ handler[r].pc = "assemble" => handler[r].i = 0 /\ handler[r].at = 0
        /\ handler[r].pc \in AtWork => r = LastChunk(u)
    BY AtStep, Zenon
  <1>1. p = FinalPath(u) /\ p \in Path BY <1>0, PathsOf, Zenon
  <1>2. /\ handler[r].pc = "assemble" /\ Create(p, <<r, "file">>)
        /\ handler' = [handler EXCEPT ![r] = h] /\ Touch(u, {p}) /\ UNCHANGED <<client, hash, sorted>>
    BY <1>1 DEF createFinal, Step
  <1>3. r = LastChunk(u) BY <1>0, <1>2, Zenon DEF AtWork
  <1>4. <<r, "file">> \in Node /\ Home(fileName, <<r, "file">>) = p BY <1>3, Nodes, Zenon
  <1> HIDE DEF p, h
  <1>5. /\ dir' \in [Path -> Node \cup {NoFile}] /\ data' \in [Node -> Seq(Datum)] /\ AtHome(fileName, dir')
        /\ dir'[p] \in Node /\ dir'[p] # NoFile /\ data'[dir'[p]] = << >>
        /\ \A q \in Path \ {p} : dir'[q] = dir[q] /\ (dir[q] # NoFile => data'[dir[q]] = data[dir[q]])
    BY <1>1, <1>2, <1>4, CreateEffect, Zenon
  <1>6. /\ h \in HandlerState /\ h.pc = "append" /\ h.node = dir'[p] /\ h.i = 0 /\ h.at = 0
    BY <1>0, <1>2, <1>5, Zenon DEF h, HandlerState, Running
  <1>7. handler[r].pc \in Running BY <1>2 DEF Running
  <1>8. ASSUME Intact(fileName, handler, dir, data, u),
               \A k \in Chunk(u) : k < j => handler[<<u, k>>].pc = "Ok",
               \A k \in Chunk(u) : k > j => handler[<<u, k>>].pc = "idle"
        PROVE  Intact(fileName, handler', dir', data', u)
    <2>1. /\ handler'[<<u, j>>] = h /\ handler[<<u, j>>] = handler[r] /\ handler'[LastChunk(u)] = h
          /\ \A k \in Chunk(u) \ {j} :
               /\ handler'[<<u, k>>] = handler[<<u, k>>]
               /\ handler[<<u, k>>].pc = IF k < j THEN "Ok" ELSE "idle"
          /\ \A k \in Chunk(u) : CPath(fileName, u, k) \in Path \ {p}
      <3>1. Own(r, h) BY <1>2, <1>7, <1>8, OwnHandlers, Zenon
      <3> QED BY <1>3, <3>1, Zenon DEF Own, p
    <2>2. Receives(fileName, handler', dir', data', u)
      BY <1>6, <2>1, Zenon DEF Receives
    <2>3. Keeps(fileName, handler', dir', data', u)
      <3> SUFFICES ASSUME NEW k \in Chunk(u), handler'[<<u, k>>].pc \in {"Ok", "assemble", "append"}
                   PROVE  Has(fileName, dir', data', u, k)
        BY Zenon DEF Keeps
      <3>1. handler[<<u, k>>].pc \in {"Ok", "assemble", "append"} BY <1>2, <2>1, Zenon
      <3>2. handler[LastChunk(u)].pc \in Early /\ handler[LastChunk(u)].pc # "append" BY <1>2, <1>3, Zenon DEF Early
      <3>3. Has(fileName, dir, data, u, k) BY <1>8, <3>1, <3>2, Zenon DEF Intact, Keeps
      <3> QED BY <1>5, <2>1, <3>3, Zenon DEF Has
    <2>4. Appends(fileName, handler', dir', data', u)
      <3>1. Begins(<< >>, u, 0) BY DEF Begins
      <3>2. \A k \in Chunk(u) : ~ (k < 0) BY DEF Chunk
      <3> QED BY <1>5, <1>6, <2>1, <3>1, <3>2 DEF Appends, p
    <2>5. Complete(fileName, handler', dir', data', u) BY <1>6, <2>1, Zenon DEF Complete
    <2> QED BY <2>2, <2>3, <2>4, <2>5 DEF Intact
  <1>9. disturbed \subseteq disturbed' /\ \A v \in Upload \ disturbed' : v # u =>
           /\ fileName[v] \in Path \ {p}
           /\ \A k \in Chunk(v) : CPath(fileName, v, k) \in Path \ {p}
    BY <1>0, <1>2, OtherPaths, Zenon DEF Touch
  <1>10. \A v \in Upload \ disturbed' : v # r[1] =>
           /\ dir'[fileName[v]] = dir[fileName[v]]
           /\ dir[fileName[v]] # NoFile => data'[dir[fileName[v]]] = data[dir[fileName[v]]]
           /\ \A k \in Chunk(v) :
                /\ dir'[CPath(fileName, v, k)] = dir[CPath(fileName, v, k)]
                /\ dir[CPath(fileName, v, k)] # NoFile =>
                     data'[dir[CPath(fileName, v, k)]] = data[dir[CPath(fileName, v, k)]]
    BY <1>5, <1>9, Zenon
  <1> QED
    <2>1. h.pc \notin {"idle", "create", "copy", "assemble", "SortedSetAdd", "Ok"} BY <1>6
    <2>2. hash' \subseteq Path /\ sorted' \subseteq hash' /\ hash' = hash /\ sorted' = sorted BY <1>0, <1>2, Zenon
    <2>3. h.i \in Chunk(u) /\ h.node \in Node BY <1>0, <1>5, <1>6, Requests DEF Chunk
    <2> QED BY <1>2, <1>3, <1>5, <1>6, <1>7, <1>8, <1>9, <1>10, <2>1, <2>2, <2>3, Assemble, Zenon

\* A chunk is received.
LEMMA CopyChunkStep ==
  ASSUME UpInv, NEW r \in Request, copyChunk(r), UNCHANGED fileName
  PROVE  UpInv'
PROOF
  <1> DEFINE u == r[1]
             j == r[2]
             p == CPath(fileName, u, j)
             n == handler[r].node
             x == Written(data[n], 0, <<r>>)
             h == [handler[r] EXCEPT !.pc = IF r = LastChunk(u) THEN "assemble" ELSE "Ok"]
  <1>0. /\ u \in Upload /\ j \in Chunk(u) /\ r = <<u, j>> /\ handler[r] \in HandlerState
        /\ hash \subseteq Path /\ sorted \subseteq hash /\ AtHome(fileName, dir)
        /\ dir \in [Path -> Node \cup {NoFile}] /\ data \in [Node -> Seq(Datum)]
        /\ handler[r].pc \in {"copy", "append"} => n \in Node
        /\ handler[r].pc = "copy" => handler[r].i = 0 /\ handler[r].at = 0
    BY AtStep, Zenon
  <1>1. /\ handler[r].pc = "copy" /\ data' = [data EXCEPT ![n] = x]
        /\ handler' = [handler EXCEPT ![r] = h] /\ Touch(u, Named(n)) /\ UNCHANGED <<client, dir, hash, sorted>>
    BY Zenon DEF copyChunk, Step
  <1>2. n \in Node BY <1>0, <1>1, Zenon
  <1>3. x \in Seq(Datum) BY <1>0, <1>2, WrittenOne, WrittenType, Zenon
  <1>4. /\ h \in HandlerState /\ h.i = 0 /\ h.at = 0
        /\ h.pc = IF r = LastChunk(u) THEN "assemble" ELSE "Ok"
    BY <1>0, <1>1, Zenon DEF HandlerState, Running
  <1> HIDE DEF p, n, x, h
  <1>5. /\ data' \in [Node -> Seq(Datum)] /\ data'[n] = x
        /\ \A q \in Path : dir[q] # n /\ dir[q] # NoFile => data'[dir[q]] = data[dir[q]]
        /\ \A q, s \in Path : dir[q] = dir[s] /\ dir[q] # NoFile => q = s
    BY <1>1, <1>2, <1>3, WriteEffect, Zenon
  <1>6. handler[r].pc \in Running BY <1>1 DEF Running
  <1>7. ASSUME Intact(fileName, handler, dir, data, u),
               \A k \in Chunk(u) : k < j => handler[<<u, k>>].pc = "Ok",
               \A k \in Chunk(u) : k > j => handler[<<u, k>>].pc = "idle"
        PROVE  Intact(fileName, handler', dir', data', u)
    <2>1. /\ handler'[<<u, j>>] = h /\ handler[<<u, j>>] = handler[r] /\ p \in Path
          /\ \A k \in Chunk(u) \ {j} :
               /\ handler'[<<u, k>>] = handler[<<u, k>>]
               /\ handler[<<u, k>>].pc = IF k < j THEN "Ok" ELSE "idle"
               /\ CPath(fileName, u, k) \in Path \ {p}
          /\ \/ LastChunk(u) = r /\ handler'[LastChunk(u)] = h
             \/ /\ LastChunk(u) # r
                /\ handler'[LastChunk(u)].pc = "idle" /\ handler[LastChunk(u)].pc = "idle"
      <3>1. Own(r, h) BY <1>1, <1>6, <1>7, OwnHandlers, Zenon
      <3> QED BY <3>1, Zenon DEF Own, p
    <2>2. dir[p] # NoFile /\ n = dir[p] /\ data[n] = << >>
      BY <1>0, <1>1, <1>7, <2>1 DEF Intact, Receives, n, p
    <2>3. x = << <<u, j>> >> BY <1>0, <2>2, WrittenOne, Zenon DEF x
    <2>4. handler'[LastChunk(u)].pc \in {"idle", "assemble"} /\ handler[LastChunk(u)].pc \in {"idle", "copy"}
      BY <1>1, <1>4, <2>1, Zenon
    <2>5. Receives(fileName, handler', dir', data', u)
      BY <1>4, <2>1, Zenon DEF Receives
    <2>6. Keeps(fileName, handler', dir', data', u)
      <3> SUFFICES ASSUME NEW k \in Chunk(u), handler'[<<u, k>>].pc \in {"Ok", "assemble", "append"}
                   PROVE  Has(fileName, dir', data', u, k)
        BY DEF Keeps
      <3>1. CASE k = j BY <1>1, <1>5, <2>2, <2>3, <3>1, Zenon DEF Has, p
      <3>2. CASE k # j
        <4>1. handler[<<u, k>>].pc \in {"Ok", "assemble", "append"} BY <2>1, <3>2, Zenon
        <4>2. handler[LastChunk(u)].pc \in Early /\ handler[LastChunk(u)].pc # "append" BY <2>4, Zenon DEF Early
        <4>3. Has(fileName, dir, data, u, k) BY <1>7, <4>1, <4>2, Zenon DEF Intact, Keeps
        <4>4. CPath(fileName, u, k) \in Path /\ CPath(fileName, u, k) # p BY <2>1, <3>2, Zenon
        <4>5. dir[CPath(fileName, u, k)] # n BY <1>5, <2>1, <2>2, <4>4, Zenon
        <4> QED BY <1>1, <1>5, <4>3, <4>4, <4>5, Zenon DEF Has
      <3> QED BY <3>1, <3>2
    <2>7. Appends(fileName, handler', dir', data', u) BY <2>4, Zenon DEF Appends
    <2>8. Complete(fileName, handler', dir', data', u) BY <2>4, Zenon DEF Complete
    <2> QED BY <2>5, <2>6, <2>7, <2>8 DEF Intact
  <1>8. disturbed \subseteq disturbed' /\ \A v \in Upload \ disturbed' : v # u =>
           /\ fileName[v] \in Path \ Named(n)
           /\ \A k \in Chunk(v) : CPath(fileName, v, k) \in Path \ Named(n)
    BY <1>0, <1>1, OtherPaths, Zenon DEF Touch
  <1>9. \A q \in Path \ Named(n) : dir'[q] = dir[q] /\ (dir[q] # NoFile => data'[dir[q]] = data[dir[q]])
    BY <1>1, <1>5 DEF Named
  <1>10. \A v \in Upload \ disturbed' : v # r[1] =>
           /\ dir'[fileName[v]] = dir[fileName[v]]
           /\ dir[fileName[v]] # NoFile => data'[dir[fileName[v]]] = data[dir[fileName[v]]]
           /\ \A k \in Chunk(v) :
                /\ dir'[CPath(fileName, v, k)] = dir[CPath(fileName, v, k)]
                /\ dir[CPath(fileName, v, k)] # NoFile =>
                     data'[dir[CPath(fileName, v, k)]] = data[dir[CPath(fileName, v, k)]]
    BY <1>8, <1>9, Zenon
  <1> QED
    <2>1. /\ h.pc \notin {"copy", "append", "SortedSetAdd"} /\ (h.pc \in AtWork => r = LastChunk(u))
          /\ ~ (r = LastChunk(u) /\ h.pc = "Ok")
      BY <1>4 DEF AtWork
    <2>2. hash' \subseteq Path /\ sorted' \subseteq hash' /\ hash' = hash /\ sorted' = sorted BY <1>0, <1>1, Zenon
    <2>3. dir' \in [Path -> Node \cup {NoFile}] /\ AtHome(fileName, dir') BY <1>0, <1>1, Zenon
    <2> QED BY <1>1, <1>4, <1>5, <1>6, <1>7, <1>8, <1>10, <2>1, <2>2, <2>3, Assemble, Zenon

\* A chunk is put into the file and deleted.
LEMMA AppendChunkStep ==
  ASSUME UpInv, NEW r \in Request, appendChunk(r), UNCHANGED fileName
  PROVE  UpInv'
PROOF
  <1> DEFINE u == r[1]
             j == r[2]
             i == handler[r].i
             n == handler[r].node
             p == CPath(fileName, u, i)
             s == data[dir[p]]
             x == Written(data[n], handler[r].at, s)
             h == [handler[r] EXCEPT !.i = i + 1, !.at = handler[r].at + Len(s),
                                     !.pc = IF i + 1 = totalChunks[u] THEN "HashSet" ELSE "append"]
  <1>0. /\ u \in Upload /\ j \in Chunk(u) /\ r = <<u, j>> /\ handler[r] \in HandlerState
        /\ hash \subseteq Path /\ sorted \subseteq hash /\ AtHome(fileName, dir)
        /\ fileName \in [Upload -> Seq(Nat)]
        /\ dir \in [Path -> Node \cup {NoFile}] /\ data \in [Node -> Seq(Datum)]
        /\ handler[r].pc \in {"copy", "append"} => n \in Node
        /\ handler[r].pc \in AtWork => r = LastChunk(u)
        /\ handler[r].pc = "append" => i \in Chunk(u)
    BY AtStep, Zenon
  <1>1. /\ handler[r].pc = "append" /\ dir[p] # NoFile
        /\ data' = [data EXCEPT ![n] = x] /\ dir' = [dir EXCEPT ![p] = NoFile]
        /\ handler' = [handler EXCEPT ![r] = h] /\ Touch(u, {p} \cup Named(n))
        /\ UNCHANGED <<client, hash, sorted>>
    <2>1. p = ChunkPath(u, i) BY DEF CPath, ChunkPath
    <2>2. handler[r].pc = "append" BY Zenon DEF appendChunk
    <2> QED BY <2>1, <2>2, Zenon DEF appendChunk, Step, HandlerState
  <1>2. n \in Node /\ i \in Chunk(u) /\ r = LastChunk(u) BY <1>0, <1>1, Zenon DEF AtWork
  <1>3. p \in Path /\ s \in Seq(Datum) /\ Len(s) \in Nat BY <1>0, <1>1, <1>2, PathsOf
  <1>4. i \in Nat /\ handler[r].at \in Nat BY <1>0, Zenon DEF HandlerState
  <1>5. x \in Seq(Datum) BY <1>0, <1>2, <1>3, <1>4, WrittenType, Zenon
  <1>6. /\ h \in HandlerState /\ h.i = i + 1 /\ h.at = handler[r].at + Len(s) /\ h.node = n
        /\ h.pc = IF i + 1 = totalChunks[u] THEN "HashSet" ELSE "append"
    <2>1. handler[r].at + Len(s) \in Nat /\ i + 1 \in Nat BY <1>3, <1>4, SMTT(30)
    <2> QED BY <1>0, <2>1, Zenon DEF HandlerState, Running
  <1>7. h.pc = "append" => h.i \in Chunk(u) BY <1>0, <1>2, <1>4, <1>6, Requests, SMTT(30) DEF Chunk
  <1> HIDE DEF p, n, x, h, i, s
  <1>8. /\ data' \in [Node -> Seq(Datum)] /\ data'[n] = x
        /\ \A q \in Path : dir[q] # n /\ dir[q] # NoFile => data'[dir[q]] = data[dir[q]]
        /\ \A q, t \in Path : dir[q] = dir[t] /\ dir[q] # NoFile => q = t
    BY <1>1, <1>2, <1>5, WriteEffect, Zenon
  <1>9. /\ dir' \in [Path -> Node \cup {NoFile}] /\ dir'[p] = NoFile
        /\ \A q \in Path \ {p} : dir'[q] = dir[q]
    BY <1>0, <1>1, <1>3, Zenon
  <1>10. AtHome(fileName, dir') BY <1>0, <1>9, Zenon DEF AtHome
  <1>11. handler[r].pc \in Running BY <1>1 DEF Running
  <1>12. ASSUME Intact(fileName, handler, dir, data, u),
                \A k \in Chunk(u) : k < j => handler[<<u, k>>].pc = "Ok",
                \A k \in Chunk(u) : k > j => handler[<<u, k>>].pc = "idle"
         PROVE  Intact(fileName, handler', dir', data', u)
    <2>1. /\ handler'[<<u, j>>] = h /\ handler[<<u, j>>] = handler[r] /\ handler'[LastChunk(u)] = h
          /\ \A k \in Chunk(u) \ {j} :
               /\ handler'[<<u, k>>] = handler[<<u, k>>]
               /\ handler[<<u, k>>].pc = IF k < j THEN "Ok" ELSE "idle"
          /\ \A k \in Chunk(u) : CPath(fileName, u, k) \in Path \ {fileName[u]}
          /\ \A k \in Chunk(u) : k <= j
          /\ fileName[u] \in Path
      <3>1. Own(r, h) BY <1>1, <1>11, <1>12, OwnHandlers, Zenon
      <3> QED BY <1>2, <3>1, Zenon DEF Own
    <2>2. \A k \in Chunk(u) : k \in Nat BY <1>0, Requests DEF Chunk
    <2>3. \A k \in Chunk(u) : handler[<<u, k>>].pc \in {"Ok", "append"} /\ handler'[<<u, k>>].pc # "copy"
      <3> SUFFICES ASSUME NEW k \in Chunk(u)
                   PROVE  handler[<<u, k>>].pc \in {"Ok", "append"} /\ handler'[<<u, k>>].pc # "copy"
        OBVIOUS
      <3>1. CASE k = j BY <1>1, <1>6, <2>1, <3>1, Zenon
      <3>2. CASE k # j
        <4>1. k \in Nat /\ j \in Nat /\ k <= j BY <1>0, <2>1, <2>2, Zenon
        <4>2. k < j BY <3>2, <4>1
        <4> QED BY <2>1, <3>2, <4>2, Zenon
      <3> QED BY <3>1, <3>2
    <2>4. \A k \in Chunk(u) : k >= i => Has(fileName, dir, data, u, k)
      <3>1. handler[LastChunk(u)].pc \in Early /\ handler[LastChunk(u)].i = i BY <1>1, <1>2, Zenon DEF Early, i
      <3> QED BY <1>12, <2>3, <3>1, Zenon DEF Intact, Keeps
    <2>5. /\ dir[fileName[u]] # NoFile /\ n = dir[fileName[u]] /\ handler[r].at = i
          /\ Begins(data[n], u, i) /\ \A k \in Chunk(u) : k < i => dir[CPath(fileName, u, k)] = NoFile
      BY <1>1, <1>2, <1>12, Zenon DEF Intact, Appends, i, n
    <2>6. s = << <<u, i>> >> BY <1>2, <1>4, <2>4 DEF Has, s, p
    <2>7. Begins(x, u, i + 1) /\ Len(s) = 1
      <3>1. data[n] \in Seq(Datum) BY <1>0, <1>2
      <3> QED BY <1>0, <1>2, <2>5, <2>6, <3>1, WrittenNext, Zenon DEF x
    <2>8. \A k \in Chunk(u) \ {i} : CPath(fileName, u, k) \in Path \ {p}
      <3> SUFFICES ASSUME NEW k \in Chunk(u), k # i PROVE CPath(fileName, u, k) \in Path \ {p}
        OBVIOUS
      <3>1. CPath(fileName, u, k) # CPath(fileName, u, i) BY <1>0, <1>2, PathsApart, Zenon
      <3> QED BY <2>1, <3>1, Zenon DEF p
    <2>9. fileName[u] \in Path \ {p} BY <1>2, <2>1, Zenon DEF p
    <2>10. dir'[fileName[u]] = n /\ n # NoFile /\ data'[n] = x BY <1>8, <1>9, <2>5, <2>9, Zenon
    <2>11. \A k \in Chunk(u) : k < i + 1 => dir'[CPath(fileName, u, k)] = NoFile
      <3> SUFFICES ASSUME NEW k \in Chunk(u), k < i + 1 PROVE dir'[CPath(fileName, u, k)] = NoFile
        OBVIOUS
      <3>1. CASE k = i BY <1>9, <3>1 DEF p
      <3>2. CASE k # i
        <4>1. k < i BY <1>4, <2>2, <3>2
        <4> QED BY <1>9, <2>5, <2>8, <3>2, <4>1, Zenon
      <3> QED BY <3>1, <3>2
    <2>12. Receives(fileName, handler', dir', data', u) BY <2>3, Zenon DEF Receives
    <2>13. Keeps(fileName, handler', dir', data', u)
      <3> SUFFICES ASSUME NEW k \in Chunk(u), handler'[LastChunk(u)].pc \in Early,
                          handler'[LastChunk(u)].pc = "append" => k >= handler'[LastChunk(u)].i
                   PROVE  Has(fileName, dir', data', u, k)
        BY Zenon DEF Keeps
      <3>1. k >= i + 1 BY <1>6, <2>1, Zenon DEF Early
      <3>2. k # i /\ k >= i BY <1>4, <2>2, <3>1
      <3>3. Has(fileName, dir, data, u, k) BY <2>4, <3>2
      <3>4. CPath(fileName, u, k) \in Path \ {p} /\ CPath(fileName, u, k) # fileName[u] BY <2>1, <2>8, <3>2, Zenon
      <3>5. dir[CPath(fileName, u, k)] # n BY <1>8, <2>1, <2>5, <3>4, Zenon
      <3> QED BY <1>8, <1>9, <3>3, <3>4, <3>5, Zenon DEF Has
    <2>14. Appends(fileName, handler', dir', data', u)
      <3>1. h.i = i + 1 /\ h.at = i + 1 BY <1>6, <2>5, <2>7, Zenon
      <3> QED BY <1>6, <2>1, <2>7, <2>10, <2>11, <3>1, Zenon DEF Appends
    <2>15. Complete(fileName, handler', dir', data', u)
      <3> SUFFICES ASSUME h.pc \in {"HashSet", "SortedSetAdd", "Ok"}
                   PROVE  /\ dir'[fileName[u]] # NoFile /\ Begins(data'[dir'[fileName[u]]], u, totalChunks[u])
                          /\ \A k \in Chunk(u) : dir'[CPath(fileName, u, k)] = NoFile
        BY <2>1, Zenon DEF Complete
      <3>1. i + 1 = totalChunks[u] BY <1>6
      <3>2. \A k \in Chunk(u) : k < i + 1 BY <1>0, <3>1, Requests, SMTT(30) DEF Chunk
      <3> QED BY <2>7, <2>10, <2>11, <3>1, <3>2
    <2> QED BY <2>12, <2>13, <2>14, <2>15 DEF Intact
  <1>13. disturbed \subseteq disturbed' /\ \A v \in Upload \ disturbed' : v # u =>
           /\ fileName[v] \in Path \ ({p} \cup Named(n))
           /\ \A k \in Chunk(v) : CPath(fileName, v, k) \in Path \ ({p} \cup Named(n))
    <2>1. disturbed \subseteq disturbed' BY <1>1 DEF Touch
    <2> DEFINE ps == {p} \cup Named(n)
    <2>2. Touch(u, ps) BY <1>1
    <2> HIDE DEF ps
    <2>3. \A v \in Upload \ disturbed' : v # u =>
             /\ fileName[v] \in Path \ ps
             /\ \A k \in Chunk(v) : CPath(fileName, v, k) \in Path \ ps
      BY <1>0, <2>2, OtherPaths, Zenon
    <2> QED BY <2>1, <2>3 DEF ps
  <1>14. \A q \in Path \ ({p} \cup Named(n)) :
           dir'[q] = dir[q] /\ (dir[q] # NoFile => data'[dir[q]] = data[dir[q]])
    BY <1>8, <1>9 DEF Named
  <1>15. \A v \in Upload \ disturbed' : v # r[1] =>
           /\ dir'[fileName[v]] = dir[fileName[v]]
           /\ dir[fileName[v]] # NoFile => data'[dir[fileName[v]]] = data[dir[fileName[v]]]
           /\ \A k \in Chunk(v) :
                /\ dir'[CPath(fileName, v, k)] = dir[CPath(fileName, v, k)]
                /\ dir[CPath(fileName, v, k)] # NoFile =>
                     data'[dir[CPath(fileName, v, k)]] = data[dir[CPath(fileName, v, k)]]
    BY <1>13, <1>14, Zenon
  <1> QED
    <2>1. h.pc \notin {"idle", "create", "copy", "assemble", "SortedSetAdd", "Ok"} BY <1>6
    <2>2. hash' \subseteq Path /\ sorted' \subseteq hash' /\ hash' = hash /\ sorted' = sorted BY <1>0, <1>1, Zenon
    <2> QED BY <1>1, <1>2, <1>6, <1>7, <1>8, <1>9, <1>10, <1>11, <1>12, <1>13, <1>15, <2>1, <2>2, Assemble, Zenon

\* The name is given its metadata.
LEMMA HashSetStep ==
  ASSUME UpInv, NEW r \in Request, hashSet(r), UNCHANGED fileName
  PROVE  UpInv'
PROOF
  <1> DEFINE u == r[1]
             h == [handler[r] EXCEPT !.pc = "SortedSetAdd"]
  <1>0. /\ u \in Upload /\ r[2] \in Chunk(u) /\ r = <<u, r[2]>> /\ handler[r] \in HandlerState
        /\ hash \subseteq Path /\ sorted \subseteq hash /\ AtHome(fileName, dir)
        /\ dir \in [Path -> Node \cup {NoFile}] /\ data \in [Node -> Seq(Datum)]
        /\ handler[r].pc \in AtWork => r = LastChunk(u)
    BY AtStep
  <1>1. /\ handler[r].pc = "HashSet" /\ hash' = hash \cup {fileName[u]}
        /\ handler' = [handler EXCEPT ![r] = h] /\ UNCHANGED <<client, dir, data, sorted, disturbed>>
    BY DEF hashSet, Step, FinalPath
  <1>2. r = LastChunk(u) BY <1>0, <1>1 DEF AtWork
  <1>3. h \in HandlerState /\ h.pc = "SortedSetAdd" BY <1>0, Zenon DEF HandlerState, Running
  <1>4. hash' \subseteq Path /\ sorted' \subseteq hash' /\ hash \subseteq hash' BY <1>0, <1>1, PathsOf
  <1> HIDE DEF h
  <1>5. handler[r].pc \in Running BY <1>1 DEF Running
  <1>6. ASSUME Intact(fileName, handler, dir, data, u),
               \A k \in Chunk(u) : k < r[2] => handler[<<u, k>>].pc = "Ok",
               \A k \in Chunk(u) : k > r[2] => handler[<<u, k>>].pc = "idle"
        PROVE  Intact(fileName, handler', dir', data', u)
    <2>1. /\ handler'[<<u, r[2]>>] = h /\ handler'[LastChunk(u)] = h
          /\ \A k \in Chunk(u) \ {r[2]} :
               handler'[<<u, k>>] = handler[<<u, k>>] /\ handler[<<u, k>>].pc \in {"Ok", "idle"}
      <3>1. Own(r, h) BY <1>1, <1>5, <1>6, OwnHandlers, Zenon
      <3> QED BY <1>2, <3>1, Zenon DEF Own
    <2>2. Receives(fileName, handler', dir', data', u) BY <1>3, <2>1, Zenon DEF Receives
    <2>3. Keeps(fileName, handler', dir', data', u) BY <1>3, <2>1, Zenon DEF Keeps, Early
    <2>4. Appends(fileName, handler', dir', data', u) BY <1>3, <2>1, Zenon DEF Appends
    <2>5. Complete(fileName, handler', dir', data', u) BY <1>1, <1>2, <1>6, Zenon DEF Intact, Complete
    <2> QED BY <2>2, <2>3, <2>4, <2>5 DEF Intact
  <1> QED
    <2>1. h.pc \notin {"idle", "create", "copy", "assemble", "append", "Ok"} BY <1>3
    <2>2. fileName[u] \in hash' BY <1>1
    <2> QED BY <1>0, <1>1, <1>2, <1>3, <1>4, <1>5, <1>6, <2>1, <2>2, Assemble, Zenon

\* The name is listed.
LEMMA SortedSetAddStep ==
  ASSUME UpInv, NEW r \in Request, sortedSetAdd(r), UNCHANGED fileName
  PROVE  UpInv'
PROOF
  <1> DEFINE u == r[1]
             h == [handler[r] EXCEPT !.pc = "Ok"]
  <1>0. /\ u \in Upload /\ r[2] \in Chunk(u) /\ r = <<u, r[2]>> /\ handler[r] \in HandlerState
        /\ hash \subseteq Path /\ sorted \subseteq hash /\ AtHome(fileName, dir)
        /\ dir \in [Path -> Node \cup {NoFile}] /\ data \in [Node -> Seq(Datum)]
        /\ handler[r].pc \in AtWork => r = LastChunk(u)
    BY AtStep
  <1>1. /\ handler[r].pc = "SortedSetAdd" /\ sorted' = sorted \cup {fileName[u]}
        /\ handler' = [handler EXCEPT ![r] = h] /\ UNCHANGED <<client, dir, data, hash, disturbed>>
    BY DEF sortedSetAdd, Step, FinalPath
  <1>2. r = LastChunk(u) BY <1>0, <1>1 DEF AtWork
  <1>3. h \in HandlerState /\ h.pc = "Ok" BY <1>0, Zenon DEF HandlerState, Running
  <1>4. hash' \subseteq Path /\ sorted' \subseteq hash' /\ sorted \subseteq sorted'
    <2>1. fileName[u] \in hash BY <1>0, <1>1, <1>2, Zenon DEF UpInv, Listed
    <2> QED BY <1>0, <1>1, <2>1
  <1> HIDE DEF h
  <1>5. handler[r].pc \in Running BY <1>1 DEF Running
  <1>6. ASSUME Intact(fileName, handler, dir, data, u),
               \A k \in Chunk(u) : k < r[2] => handler[<<u, k>>].pc = "Ok",
               \A k \in Chunk(u) : k > r[2] => handler[<<u, k>>].pc = "idle"
        PROVE  Intact(fileName, handler', dir', data', u)
    <2>1. /\ handler'[<<u, r[2]>>] = h /\ handler'[LastChunk(u)] = h
          /\ \A k \in Chunk(u) \ {r[2]} :
               handler'[<<u, k>>] = handler[<<u, k>>] /\ handler[<<u, k>>].pc \in {"Ok", "idle"}
      <3>1. Own(r, h) BY <1>1, <1>5, <1>6, OwnHandlers, Zenon
      <3> QED BY <1>2, <3>1, Zenon DEF Own
    <2>2. Receives(fileName, handler', dir', data', u) BY <1>3, <2>1, Zenon DEF Receives
    <2>3. Keeps(fileName, handler', dir', data', u) BY <1>3, <2>1, Zenon DEF Keeps, Early
    <2>4. Appends(fileName, handler', dir', data', u) BY <1>3, <2>1, Zenon DEF Appends
    <2>5. Complete(fileName, handler', dir', data', u) BY <1>1, <1>2, <1>6, Zenon DEF Intact, Complete
    <2> QED BY <2>2, <2>3, <2>4, <2>5 DEF Intact
  <1> QED
    <2>1. /\ h.pc \notin {"idle", "create", "copy", "assemble", "append", "SortedSetAdd"}
          /\ h.pc \notin AtWork
      BY <1>3 DEF AtWork
    <2>2. fileName[u] \in sorted' BY <1>1
    <2> QED BY <1>0, <1>1, <1>2, <1>3, <1>4, <1>5, <1>6, <2>1, <2>2, Assemble, Zenon

\* A step fails.
LEMMA FailStep ==
  ASSUME UpInv, NEW r \in Request, fail(r), UNCHANGED fileName
  PROVE  UpInv'
PROOF
  <1> DEFINE u == r[1]
             h == [handler[r] EXCEPT !.pc = "500"]
  <1>0. /\ u \in Upload /\ r[2] \in Chunk(u) /\ r = <<u, r[2]>> /\ handler[r] \in HandlerState
        /\ hash \subseteq Path /\ sorted \subseteq hash /\ AtHome(fileName, dir)
        /\ dir \in [Path -> Node \cup {NoFile}] /\ data \in [Node -> Seq(Datum)]
    BY AtStep
  <1>1. /\ handler[r].pc \in Running
        /\ handler' = [handler EXCEPT ![r] = h] /\ UNCHANGED <<client, dir, data, hash, sorted, disturbed>>
    BY DEF fail, Step
  <1>2. h \in HandlerState /\ h.pc = "500" BY <1>0, Zenon DEF HandlerState
  <1> HIDE DEF h
  <1>3. ASSUME Intact(fileName, handler, dir, data, u),
               \A k \in Chunk(u) : k < r[2] => handler[<<u, k>>].pc = "Ok",
               \A k \in Chunk(u) : k > r[2] => handler[<<u, k>>].pc = "idle"
        PROVE  Intact(fileName, handler', dir', data', u)
    <2>1. /\ handler'[<<u, r[2]>>] = h
          /\ \A k \in Chunk(u) \ {r[2]} :
               handler'[<<u, k>>] = handler[<<u, k>>] /\ handler[<<u, k>>].pc \in {"Ok", "idle"}
          /\ \/ handler'[LastChunk(u)] = h
             \/ handler'[LastChunk(u)].pc = "idle" /\ handler[LastChunk(u)].pc = "idle"
      <3>1. Own(r, h) BY <1>1, <1>3, OwnHandlers, Zenon
      <3> QED BY <3>1, Zenon DEF Own
    <2>2. handler'[LastChunk(u)].pc \in {"500", "idle"} BY <1>2, <2>1, Zenon
    <2>3. Receives(fileName, handler', dir', data', u) BY <1>2, <2>1, Zenon DEF Receives
    <2>4. Keeps(fileName, handler', dir', data', u)
      <3> SUFFICES ASSUME NEW k \in Chunk(u), handler'[<<u, k>>].pc \in {"Ok", "assemble", "append"},
                          handler'[LastChunk(u)].pc \in Early
                   PROVE  Has(fileName, dir', data', u, k)
        BY DEF Keeps
      <3>1. k # r[2] BY <1>2, <2>1, Zenon
      <3>2. handler[<<u, k>>].pc = "Ok" BY <2>1, <3>1, Zenon
      <3>3. handler[LastChunk(u)].pc = "idle" BY <1>2, <2>1, Zenon DEF Early
      <3> QED BY <1>1, <1>3, <3>2, <3>3, Zenon DEF Intact, Keeps, Early, Has
    <2>5. Appends(fileName, handler', dir', data', u) BY <2>2, Zenon DEF Appends
    <2>6. Complete(fileName, handler', dir', data', u) BY <2>2, Zenon DEF Complete
    <2> QED BY <2>3, <2>4, <2>5, <2>6 DEF Intact
  <1> QED
    <2>1. /\ h.pc \notin {"idle", "create", "copy", "assemble", "append", "SortedSetAdd", "Ok"}
          /\ h.pc \notin AtWork
      BY <1>2 DEF AtWork
    <2> QED BY <1>0, <1>1, <1>2, <1>3, <2>1, Assemble, Zenon

\* The page posts a chunk.
LEMMA PostStep ==
  ASSUME UpInv, NEW u \in Upload, post(u), UNCHANGED fileName
  PROVE  UpInv'
PROOF
  <1> DEFINE c == client[u].chunkIndex
             r == <<u, c>>
  <1>0. /\ client \in [Upload -> [pc : {"post", "await", "successful", "failed"},
                                  chunkIndex : Nat, all_flag : BOOLEAN]]
        /\ handler \in [Request -> HandlerState]
        /\ Progress(client, handler) /\ Steps(handler)
    BY DEF UpInv, Types, HandlerState
  <1>1. /\ client[u].pc = "post" /\ client' = [client EXCEPT ![u].pc = "await"]
        /\ handler' = [handler EXCEPT ![r].pc = "create"] \/ handler' = handler
        /\ disturbed' = IF c = 0 THEN disturbed \ {u} ELSE disturbed
        /\ UNCHANGED <<dir, data, hash, sorted>>
    BY DEF post, Current
  <1>2. c \in Chunk(u) /\ r \in Request /\ c \in Nat /\ \A j \in Chunk(u) : j \in Nat
    <2>1. c \in Nat BY <1>0
    <2>2. c < totalChunks[u] BY <1>0, <1>1, Zenon DEF Progress
    <2>3. c \in Chunk(u) BY <2>1, <2>2, Requests DEF Chunk
    <2> QED BY <2>1, <2>3, Requests DEF Chunk
  <1>3. handler[r].pc = "idle" /\ handler[r].i = 0 /\ handler[r].at = 0
    <2>1. handler[r].pc = "idle" BY <1>0, <1>1, <1>2, Zenon DEF Progress
    <2> QED BY <1>0, <1>2, <2>1, Zenon DEF Steps
  <1> HIDE DEF r
  <1>4. /\ handler' \in [Request -> HandlerState] /\ \A q \in Request \ {r} : handler'[q] = handler[q]
        /\ handler'[r].pc \in {"idle", "create"} /\ handler'[r].i = 0 /\ handler'[r].at = 0
    <2>1. CASE handler' = handler BY <1>0, <1>2, <1>3, <2>1
    <2>2. CASE handler' = [handler EXCEPT ![r].pc = "create"]
      <3> DEFINE h == [handler[r] EXCEPT !.pc = "create"]
      <3>1. handler[r] \in HandlerState BY <1>0, <1>2
      <3>2. h \in HandlerState /\ h.pc = "create" /\ h.i = 0 /\ h.at = 0
        BY <1>3, <3>1 DEF HandlerState, Running
      <3>3. handler' = [handler EXCEPT ![r] = h] BY <2>2
      <3> HIDE DEF h
      <3>4. handler'[r] = h /\ handler' \in [Request -> HandlerState]
            /\ \A q \in Request \ {r} : handler'[q] = handler[q]
        BY <1>0, <1>2, <3>2, <3>3
      <3> QED BY <3>2, <3>4
    <2> QED BY <1>1, <2>1, <2>2, Zenon
  <1>5. /\ client' \in [Upload -> [pc : {"post", "await", "successful", "failed"},
                                   chunkIndex : Nat, all_flag : BOOLEAN]]
        /\ client'[u].pc = "await" /\ client'[u].chunkIndex = c /\ client'[u].all_flag = client[u].all_flag
        /\ \A v \in Upload \ {u} : client'[v] = client[v]
    BY <1>0, <1>1
  <1>6. Path' = Path BY DEF Path, Paths, FinalPath, ChunkPath
  <1>7. Types' BY <1>1, <1>4, <1>5, <1>6, Zenon DEF UpInv, Types, HandlerState
  <1>8. Steps(handler')
    <2> SUFFICES ASSUME NEW q \in Request
                 PROVE  /\ handler'[q].pc \in {"copy", "append"} => handler'[q].node \in Node
                        /\ handler'[q].pc \in AtWork => q = LastChunk(q[1])
                        /\ handler'[q].pc \in {"idle", "create", "copy", "assemble"}
                             => handler'[q].i = 0 /\ handler'[q].at = 0
                        /\ handler'[q].pc = "append" => handler'[q].i \in Chunk(q[1])
      BY Zenon DEF Steps
    <2>1. CASE q = r BY <1>4, <2>1 DEF AtWork
    <2>2. CASE q # r
      <3>1. handler'[q] = handler[q] BY <1>4, <2>2
      <3> QED BY <1>0, <3>1, Zenon DEF Steps
    <2> QED BY <2>1, <2>2, Zenon
  <1>9. Progress(client', handler')
    <2> SUFFICES ASSUME NEW v \in Upload
                 PROVE  /\ client'[v].chunkIndex <= totalChunks[v]
                        /\ client'[v].pc \in {"post", "await"} => client'[v].chunkIndex < totalChunks[v]
                        /\ client'[v].pc = "successful" =>
                             client'[v].all_flag /\ client'[v].chunkIndex = totalChunks[v]
                        /\ \A j \in Chunk(v) :
                             /\ j > client'[v].chunkIndex => handler'[<<v, j>>].pc = "idle"
                             /\ j = client'[v].chunkIndex /\ client'[v].pc = "post" => handler'[<<v, j>>].pc = "idle"
                             /\ j < client'[v].chunkIndex /\ client'[v].all_flag => handler'[<<v, j>>].pc = "Ok"
      BY Zenon DEF Progress
    <2>1. \A j \in Chunk(v) : <<v, j>> \in Request BY Requests
    <2>2. CASE v = u
      <3>1. \A j \in Chunk(u) : j # c => handler'[<<u, j>>] = handler[<<u, j>>] BY <1>4, <2>1, <2>2, Zenon DEF r
      <3>2. \A j \in Chunk(u) : /\ j > c => handler'[<<u, j>>].pc = "idle"
                                /\ j < c /\ client[u].all_flag => handler'[<<u, j>>].pc = "Ok"
        BY <1>0, <1>2, <3>1 DEF Progress
      <3>3. c < totalChunks[u] /\ c <= totalChunks[u] BY <1>0, <1>1, Zenon DEF Progress
      <3> QED BY <1>5, <2>2, <3>2, <3>3, Zenon
    <2>3. CASE v # u
      <3>1. \A j \in Chunk(v) : handler'[<<v, j>>] = handler[<<v, j>>] BY <1>4, <2>1, <2>3, Zenon DEF r
      <3>2. client'[v] = client[v] BY <1>5, <2>3
      <3>3. /\ client[v].chunkIndex <= totalChunks[v]
            /\ client[v].pc \in {"post", "await"} => client[v].chunkIndex < totalChunks[v]
            /\ client[v].pc = "successful" => client[v].all_flag /\ client[v].chunkIndex = totalChunks[v]
            /\ \A j \in Chunk(v) :
                 /\ j > client[v].chunkIndex => handler[<<v, j>>].pc = "idle"
                 /\ j = client[v].chunkIndex /\ client[v].pc = "post" => handler[<<v, j>>].pc = "idle"
                 /\ j < client[v].chunkIndex /\ client[v].all_flag => handler[<<v, j>>].pc = "Ok"
        BY <1>0, Zenon DEF Progress
      <3> QED BY <3>1, <3>2, <3>3
    <2> QED BY <2>2, <2>3, Zenon
  <1>10. Listed(fileName, handler', hash, sorted)
    <2> SUFFICES ASSUME NEW v \in Upload
                 PROVE  /\ handler'[LastChunk(v)].pc = "SortedSetAdd" => fileName[v] \in hash
                        /\ handler'[LastChunk(v)].pc = "Ok" => fileName[v] \in sorted
      BY Zenon DEF Listed
    <2>1. LastChunk(v) \in Request BY Requests
    <2>2. CASE LastChunk(v) = r BY <1>4, <2>2
    <2>3. CASE LastChunk(v) # r
      <3>1. handler'[LastChunk(v)] = handler[LastChunk(v)] BY <1>4, <2>1, <2>3
      <3> QED BY <3>1 DEF UpInv, Listed
    <2> QED BY <2>2, <2>3
  <1>11. ASSUME NEW v \in Upload \ disturbed', client'[v].all_flag
         PROVE  Intact(fileName, handler', dir, data, v)
    <2>1. CASE v # u
      <3>1. v \notin disturbed /\ client[v].all_flag BY <1>1, <1>5, <1>11, <2>1
      <3>2. Intact(fileName, handler, dir, data, v) BY <3>1 DEF UpInv
      <3>3. \A j \in Chunk(v) : <<v, j>> \in Request BY Requests
      <3>4. \A j \in Chunk(v) : handler'[<<v, j>>] = handler[<<v, j>>] BY <1>4, <2>1, <3>3, Zenon DEF r
      <3>5. Same(fileName, handler, dir, data, handler', dir, data, v) BY <3>4, Zenon DEF Same
      <3> QED BY <3>2, <3>5, SameIntact
    <2>2. CASE v = u
      <3>1. client[u].all_flag BY <1>5, <1>11, <2>2
      <3>2. \A j \in Chunk(u) : /\ j < c => handler'[<<u, j>>] = handler[<<u, j>>] /\ handler[<<u, j>>].pc = "Ok"
                                /\ j >= c => handler'[<<u, j>>].pc \in {"idle", "create"} /\ handler[<<u, j>>].pc = "idle"
        <4> SUFFICES ASSUME NEW j \in Chunk(u)
                     PROVE  /\ j < c => handler'[<<u, j>>] = handler[<<u, j>>] /\ handler[<<u, j>>].pc = "Ok"
                            /\ j >= c => handler'[<<u, j>>].pc \in {"idle", "create"} /\ handler[<<u, j>>].pc = "idle"
          OBVIOUS
        <4>1. <<u, j>> \in Request /\ j \in Nat BY <1>2, Requests
        <4>2. CASE j = c BY <1>2, <1>3, <1>4, <4>2 DEF r
        <4>3. CASE j # c
          <5>1. handler'[<<u, j>>] = handler[<<u, j>>] BY <1>4, <4>1, <4>3, Zenon DEF r
          <5>2. /\ j > c => handler[<<u, j>>].pc = "idle"
                /\ j < c => handler[<<u, j>>].pc = "Ok"
            BY <1>0, <3>1, Zenon DEF Progress
          <5> QED BY <1>2, <4>1, <4>3, <5>1, <5>2
        <4> QED BY <4>2, <4>3, Zenon
      <3>3. handler'[LastChunk(u)].pc \in {"idle", "create"} /\ handler[LastChunk(u)].pc = "idle"
        <4>1. totalChunks[u] - 1 \in Chunk(u) /\ totalChunks[u] - 1 >= c BY <1>2, Requests DEF Chunk
        <4> QED BY <3>2, <4>1, Zenon DEF LastChunk
      <3>4. Receives(fileName, handler', dir, data, u) BY <1>2, <3>2 DEF Receives
      <3>5. Keeps(fileName, handler', dir, data, u)
        <4> SUFFICES ASSUME NEW k \in Chunk(u), handler'[<<u, k>>].pc \in {"Ok", "assemble", "append"}
                     PROVE  Has(fileName, dir, data, u, k)
          BY DEF Keeps
        <4>1. k < c /\ handler[<<u, k>>].pc = "Ok" BY <1>2, <3>2
        <4>2. c # 0 BY <1>2, <4>1
        <4>3. Intact(fileName, handler, dir, data, u) BY <1>1, <1>11, <2>2, <3>1, <4>2 DEF UpInv
        <4> QED BY <3>3, <4>1, <4>3, Zenon DEF Intact, Keeps, Early
      <3>6. Appends(fileName, handler', dir, data, u) BY <3>3 DEF Appends
      <3>7. Complete(fileName, handler', dir, data, u) BY <3>3 DEF Complete
      <3> QED BY <2>2, <3>4, <3>5, <3>6, <3>7 DEF Intact
    <2> QED BY <2>1, <2>2
  <1>12. AtHome(fileName, dir) BY DEF UpInv
  <1>13. /\ Steps(handler)' /\ Progress(client, handler)' /\ AtHome(fileName, dir)'
         /\ Listed(fileName, handler, hash, sorted)'
    BY <1>1, <1>8, <1>9, <1>10, <1>12, Zenon DEF Steps, Progress, AtHome, Listed, Home
  <1>14. \A v \in Upload \ disturbed' :
           client'[v].all_flag => Intact(fileName', handler', dir', data', v)
    BY <1>1, <1>11, Zenon
  <1> QED BY <1>7, <1>13, <1>14 DEF UpInv

\* The page goes on after an answer or a failure.
LEMMA AnsweredStep ==
  ASSUME UpInv, NEW u \in Upload, answered(u), UNCHANGED fileName
  PROVE  UpInv'
PROOF
  <1> DEFINE c == client[u].chunkIndex
             Ok == handler[<<u, c>>].pc = "Ok"
  <1>0. /\ client \in [Upload -> [pc : {"post", "await", "successful", "failed"},
                                  chunkIndex : Nat, all_flag : BOOLEAN]]
        /\ Progress(client, handler)
    BY DEF UpInv, Types
  <1>1. client[u].pc = "await" /\ UNCHANGED <<handler, dir, data, hash, sorted, disturbed>> BY DEF answered
  <1>2. PICK ok \in BOOLEAN : (ok => Ok) /\ Continue(u, ok) BY Zenon DEF answered, Current
  <1>3. c \in Nat /\ c < totalChunks[u] /\ totalChunks[u] \in Nat BY <1>0, <1>1, Requests, Zenon DEF Progress
  <1>4. /\ client' \in [Upload -> [pc : {"post", "await", "successful", "failed"},
                                   chunkIndex : Nat, all_flag : BOOLEAN]]
        /\ client'[u].pc = (IF c + 1 < totalChunks[u] THEN "post"
                           ELSE IF client[u].all_flag /\ ok THEN "successful" ELSE "failed")
        /\ client'[u].chunkIndex = c + 1 /\ client'[u].all_flag = (client[u].all_flag /\ ok)
        /\ \A v \in Upload \ {u} : client'[v] = client[v]
    BY <1>0, <1>2, <1>3 DEF Continue
  <1>5. Path' = Path BY DEF Path, Paths, FinalPath, ChunkPath
  <1>6. Types' BY <1>1, <1>4, <1>5, Zenon DEF UpInv, Types
  <1>7. Progress(client', handler)
    <2> SUFFICES ASSUME NEW v \in Upload
                 PROVE  /\ client'[v].chunkIndex <= totalChunks[v]
                        /\ client'[v].pc \in {"post", "await"} => client'[v].chunkIndex < totalChunks[v]
                        /\ client'[v].pc = "successful" =>
                             client'[v].all_flag /\ client'[v].chunkIndex = totalChunks[v]
                        /\ \A j \in Chunk(v) :
                             /\ j > client'[v].chunkIndex => handler[<<v, j>>].pc = "idle"
                             /\ j = client'[v].chunkIndex /\ client'[v].pc = "post" => handler[<<v, j>>].pc = "idle"
                             /\ j < client'[v].chunkIndex /\ client'[v].all_flag => handler[<<v, j>>].pc = "Ok"
      BY Zenon DEF Progress
    <2>1. CASE v = u
      <3>1. ASSUME NEW j \in Chunk(u)
            PROVE  /\ j > c + 1 => handler[<<u, j>>].pc = "idle"
                   /\ j = c + 1 => handler[<<u, j>>].pc = "idle"
                   /\ j < c + 1 /\ client[u].all_flag /\ ok => handler[<<u, j>>].pc = "Ok"
        <4>1. j \in Nat BY Requests DEF Chunk
        <4>2. /\ j > c => handler[<<u, j>>].pc = "idle"
              /\ j < c /\ client[u].all_flag => handler[<<u, j>>].pc = "Ok"
          BY <1>0, Zenon DEF Progress
        <4>3. j = c /\ ok => handler[<<u, j>>].pc = "Ok" BY <1>2
        <4> QED BY <1>3, <4>1, <4>2, <4>3
      <3>2. /\ client'[u].chunkIndex <= totalChunks[u]
            /\ client'[u].pc \in {"post", "await"} => client'[u].chunkIndex < totalChunks[u]
            /\ client'[u].pc = "successful" => client'[u].all_flag /\ client'[u].chunkIndex = totalChunks[u]
        BY <1>3, <1>4
      <3> QED BY <1>4, <2>1, <3>1, <3>2
    <2>2. CASE v # u
      <3>1. client'[v] = client[v] BY <1>4, <2>2
      <3>2. /\ client[v].chunkIndex <= totalChunks[v]
            /\ client[v].pc \in {"post", "await"} => client[v].chunkIndex < totalChunks[v]
            /\ client[v].pc = "successful" => client[v].all_flag /\ client[v].chunkIndex = totalChunks[v]
            /\ \A j \in Chunk(v) :
                 /\ j > client[v].chunkIndex => handler[<<v, j>>].pc = "idle"
                 /\ j = client[v].chunkIndex /\ client[v].pc = "post" => handler[<<v, j>>].pc = "idle"
                 /\ j < client[v].chunkIndex /\ client[v].all_flag => handler[<<v, j>>].pc = "Ok"
        BY <1>0, Zenon DEF Progress
      <3> QED BY <3>1, <3>2, Zenon
    <2> QED BY <2>1, <2>2, Zenon
  <1>8. \A v \in Upload : client'[v].all_flag => client[v].all_flag BY <1>4, Zenon
  <1>9. /\ Steps(handler)' /\ Progress(client, handler)' /\ AtHome(fileName, dir)'
        /\ Listed(fileName, handler, hash, sorted)'
    <2>1. Steps(handler)' BY <1>1, Zenon DEF UpInv, Steps
    <2>2. Progress(client, handler)' BY <1>1, <1>7, Zenon DEF Progress
    <2>3. AtHome(fileName, dir)' BY <1>1 DEF UpInv, AtHome, Home
    <2>4. Listed(fileName, handler, hash, sorted)' BY <1>1 DEF UpInv, Listed
    <2> QED BY <2>1, <2>2, <2>3, <2>4, Zenon
  <1>10. \A v \in Upload \ disturbed' :
           client'[v].all_flag => Intact(fileName', handler', dir', data', v)
    BY <1>1, <1>8 DEF UpInv
  <1> QED BY <1>6, <1>9, <1>10 DEF UpInv

-----------------------------------------------------------------------------
(* The theorem                                                             *)

\* The invariant holds at the beginning.
LEMMA UpInitInv == ASSUME UpInit PROVE UpInv
PROOF
  <1>1. fileName \in [Upload -> Seq(Nat)] BY UploadAssumption DEF UpInit
  <1>2. \A r \in Request : handler[r] = [pc |-> "idle", i |-> 0, node |-> NoFile, at |-> 0] BY DEF UpInit
  <1>0. \A u \in Upload : \A j \in Chunk(u) : handler[<<u, j>>].pc = "idle"
    <2> SUFFICES ASSUME NEW u \in Upload, NEW j \in Chunk(u) PROVE handler[<<u, j>>].pc = "idle" BY Zenon
    <2>1. <<u, j>> \in Request BY Requests
    <2>2. handler[<<u, j>>] = [pc |-> "idle", i |-> 0, node |-> NoFile, at |-> 0] BY <1>2, <2>1, Zenon
    <2> QED BY <2>2
  <1>3. \A u \in Upload : client[u] = [pc |-> "post", chunkIndex |-> 0, all_flag |-> TRUE] BY DEF UpInit
  <1>4. << >> \in Seq(Datum) OBVIOUS
  <1>5. data \in [Node -> Seq(Datum)] BY <1>4 DEF UpInit
  <1>6. Types BY <1>1, <1>5 DEF UpInit, Types
  <1>7. Steps(handler) BY <1>2, SMTT(30) DEF Steps, AtWork
  <1>8. Progress(client, handler)
    <2>1. \A u \in Upload : 0 < totalChunks[u] /\ 0 <= totalChunks[u] BY Requests
    <2>2. \A u \in Upload : \A j \in Chunk(u) : ~ (j < 0) BY Requests DEF Chunk
    <2> QED BY <1>0, <1>3, <2>1, <2>2 DEF Progress
  <1>9. AtHome(fileName, dir) BY DEF UpInit, AtHome
  <1>10. \A u \in Upload : handler[LastChunk(u)].pc = "idle" BY <1>2, Requests
  <1>11. Listed(fileName, handler, hash, sorted) BY <1>10 DEF Listed
  <1>12. ASSUME NEW u \in Upload PROVE Intact(fileName, handler, dir, data, u)
    <2> QED BY <1>0, <1>10, Zenon DEF Intact, Receives, Keeps, Appends, Complete
  <1> QED BY <1>6, <1>7, <1>8, <1>9, <1>11, <1>12 DEF UpInv

\* Nothing happens.
LEMMA UpStutter == ASSUME UpInv, UNCHANGED upvars PROVE UpInv'
PROOF
  <1>1. Path' = Path BY DEF upvars, Path, Paths, FinalPath, ChunkPath
  <1>2. Types' BY <1>1, Zenon DEF UpInv, Types, upvars
  <1>3. /\ Steps(handler)' /\ Progress(client, handler)' /\ AtHome(fileName, dir)'
        /\ Listed(fileName, handler, hash, sorted)'
    BY Zenon DEF UpInv, upvars, Steps, Progress, AtHome, Listed, Home
  <1>4. \A v \in Upload \ disturbed' :
           client'[v].all_flag => Intact(fileName', handler', dir', data', v)
    BY DEF UpInv, upvars
  <1> QED BY <1>2, <1>3, <1>4 DEF UpInv

\* A file that begins with all chunks of an upload, and has no more, is the one uploaded.
LEMMA WholeFile ==
  ASSUME NEW u \in Upload, NEW d \in Seq(Datum), Begins(d, u, totalChunks[u])
  PROVE  d = Whole(u)
PROOF
  <1>1. d = [k \in 1 .. Len(d) |-> d[k]] OBVIOUS
  <1>2. Len(d) = totalChunks[u] /\ \A k \in 1 .. totalChunks[u] : d[k] = <<u, k - 1>> BY DEF Begins
  <1> QED BY <1>1, <1>2, Zenon DEF Whole

\* What the invariant says of the page, the files and the list.
LEMMA UpInvSound == ASSUME UpInv PROVE UploadSound
PROOF
  <1>1. UpTypeOK BY Zenon DEF UpInv, Types, Progress, UpTypeOK
  <1>2. ListedHasMetadata BY DEF UpInv, Types, ListedHasMetadata
  <1>3. ASSUME NEW u \in Upload, client[u].pc = "successful", u \notin disturbed
        PROVE  /\ dir[FinalPath(u)] # NoFile /\ data[dir[FinalPath(u)]] = Whole(u)
               /\ FinalPath(u) \in sorted
               /\ \A i \in Chunk(u) : dir[ChunkPath(u, i)] = NoFile
    <2>1. client[u].all_flag /\ client[u].chunkIndex = totalChunks[u]
      BY <1>3, Zenon DEF UpInv, Progress
    <2>2. totalChunks[u] - 1 \in Chunk(u) /\ totalChunks[u] - 1 < totalChunks[u] BY Requests DEF Chunk
    <2>3. handler[LastChunk(u)].pc = "Ok" BY <2>1, <2>2, Zenon DEF UpInv, Progress, LastChunk
    <2>4. Intact(fileName, handler, dir, data, u) BY <1>3, <2>1 DEF UpInv
    <2>5. /\ dir[fileName[u]] # NoFile /\ Begins(data[dir[fileName[u]]], u, totalChunks[u])
          /\ \A j \in Chunk(u) : dir[CPath(fileName, u, j)] = NoFile
      BY <2>3, <2>4, Zenon DEF Intact, Complete
    <2>6. fileName[u] \in sorted BY <2>3 DEF UpInv, Listed
    <2>7. fileName[u] \in Path BY PathsOf
    <2>8. data[dir[fileName[u]]] \in Seq(Datum) BY <2>5, <2>7, Zenon DEF UpInv, Types
    <2>9. data[dir[fileName[u]]] = Whole(u) BY <2>5, <2>8, WholeFile, Zenon
    <2> QED BY <2>5, <2>6, <2>9, PathsOf, Zenon
  <1> QED BY <1>1, <1>2, <1>3 DEF UploadSound, SuccessIsStored, NoChunkLeft

\* The steps keep the invariant.
LEMMA UpNextInv == ASSUME UpInv, UpNext PROVE UpInv'
PROOF
  <1>1. UNCHANGED fileName BY DEF UpNext
  <1>2. ASSUME NEW u \in Upload, post(u) \/ answered(u) PROVE UpInv'
    BY <1>1, <1>2, PostStep, AnsweredStep
  <1>3. ASSUME NEW r \in Request, Server(r) PROVE UpInv'
    BY <1>1, <1>3, CreateChunkStep, CopyChunkStep, CreateFinalStep, AppendChunkStep,
       HashSetStep, SortedSetAddStep, FailStep DEF Server
  <1> QED BY <1>2, <1>3 DEF UpNext

\* uploadFileWithSlice and UploadSlice: whatever the uploads, however they are named and cut
\* into chunks, and whatever requests, answers and steps fail, a success the page reports is
\* a file that holds all chunks in order, is listed, and left no chunk behind, unless
\* another upload worked on the same files; and every listed name has its metadata.
THEOREM AlwaysUploadSound == UpSpec => []UploadSound
PROOF
  <1>1. UpInit => UpInv BY UpInitInv
  <1>2. UpInv /\ [UpNext]_upvars => UpInv' BY UpNextInv, UpStutter
  <1>3. UpInv => UploadSound BY UpInvSound
  <1> QED BY <1>1, <1>2, <1>3, PTL DEF UpSpec

=============================================================================
