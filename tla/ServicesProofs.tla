--------------------------- MODULE ServicesProofs ---------------------------
(***************************************************************************)
(* Proofs about the HTTP, stream and file services, the log writers and    *)
(* the text of chat messages, for any number of requests, uploads,         *)
(* downloads, records and messages.  Each program has an invariant of its  *)
(* own; MCServices' Spec keeps them all.                                   *)
(***************************************************************************)
EXTENDS MCServices, SequenceTheorems, Recursion, TLAPS

-----------------------------------------------------------------------------
(* http/jwt *)

\* refresh_after leaves what is left of a token's life, and that is more than
\* Delay, whatever AccessExpire is, odd or even.
LEMMA HalfALife ==
    /\ AccessExpire \div 2 \in Nat
    /\ Delay \in Nat /\ Delay < AccessExpire - AccessExpire \div 2
BY AccessAssumption

\* A token is to be renewed more than Delay before its end.  A request sent in
\* time carries its user and a token that is good for as long as the request
\* may be on its way.
AccessInv ==
    /\ now \in Nat
    /\ token = NoToken \/ token \in [exp : Nat, told : Nat, refresh : Nat]
    /\ token # NoToken => token.refresh + Delay < token.exp
    /\ post \in [phase : {"none", "sent", "answered"}, at : Nat, prompt : BOOLEAN,
                 userId : BOOLEAN, request : {post.request}]
    /\ post.phase = "sent" /\ post.prompt =>
         /\ demo = "jwt" /\ token # NoToken /\ post.userId
         /\ post.at <= token.refresh /\ now <= post.at + Delay
    /\ RefreshedInTime

\* The clock does not pass a prompt request by more than Delay, so its token is
\* good when it is checked.
LEMMA AccessStep ==
    ASSUME AccessInv, UNCHANGED demo,
           \/ demo = "jwt" /\ JwtNext
           \/ demo = "signature" /\ SignNext
           \/ UNCHANGED accessVars
    PROVE  AccessInv'
<1> USE HalfALife DEF AccessInv
<1>1. CASE JwtHandler
  BY <1>1, AccessAssumption DEF JwtHandler, Jwt, GenToken, NoToken, RefreshedInTime
<1>2. CASE demo = "jwt" /\ SendInfo
  <2>1. PICK prompt, userId \in BOOLEAN :
          /\ prompt => userId /\ now <= token.refresh
          /\ post' = [phase |-> "sent", at |-> now, prompt |-> prompt,
                      userId |-> userId, request |-> <<>>]
    BY <1>2 DEF SendInfo, NoPost
  <2>2. /\ post'.phase = "sent" /\ post'.at = now /\ post'.prompt = prompt
        /\ post'.userId = userId
        /\ post' \in [phase : {"none", "sent", "answered"}, at : Nat, prompt : BOOLEAN,
                      userId : BOOLEAN, request : {post'.request}]
    BY <2>1
  <2>3. token # NoToken /\ UNCHANGED <<now, token, verdict>>
    BY <1>2 DEF SendInfo
  <2> QED  BY <1>2, <2>1, <2>2, <2>3 DEF RefreshedInTime
<1>3. CASE demo = "jwt" /\ GetUserHandler
  <2>1. post.prompt => ~(now >= token.exp) /\ post.userId
    BY <1>3 DEF GetUserHandler
  <2>2. post' = [post EXCEPT !.phase = "answered"] /\ UNCHANGED <<now, token>>
    BY <1>3 DEF GetUserHandler
  <2>3. RefreshedInTime'
    BY <1>3, <2>1, <2>2 DEF GetUserHandler, RefreshedInTime
  <2> QED  BY <2>2, <2>3
<1>4. CASE ReadAnswer
  BY <1>4 DEF ReadAnswer, NoPost, RefreshedInTime
<1>5. CASE Clock
  BY <1>5 DEF Clock, RefreshedInTime
<1>6. CASE SendSigned
  BY <1>6 DEF SendSigned, NoPost, RefreshedInTime
<1>7. CASE CreateTempFile \/ UNCHANGED accessVars
  BY <1>7 DEF CreateTempFile, accessVars, RefreshedInTime
<1>8. CASE demo = "signature" /\ SignServe
  BY <1>8 DEF SignServe, RefreshedInTime
<1> QED  BY <1>1, <1>2, <1>3, <1>4, <1>5, <1>6, <1>7, <1>8 DEF JwtNext, SignNext

-----------------------------------------------------------------------------
(* The file services *)

Block == Uploads \cup {"none", "old", "hole"}
Upload == [phase : {"sent", "copying", "cut", "done"}, at : Nat,
           reply : {"none", "error", "code 0", "timeout"}]
Download == [phase : {"sent", "reading", "done"}, body : Seq(Block),
             of : Uploads \cup {"none", "old", "mixed"},
             reply : {"none", "error", "closed pipe", "ok"}]

FilesType ==
    /\ path \in {".", "files"}
    /\ disk \in [{".", "files"} -> Seq(Block)]
    /\ up \in [Uploads -> Upload] /\ down \in [Downloads -> Download]
    /\ last \in Uploads \cup {"old"} /\ others \in SUBSET Uploads

\* No upload writes past its end, and it writes from the beginning.
Offsets ==
    \A u \in Uploads :
        /\ up[u].at <= Size[u]
        /\ up[u].phase = "sent" => up[u].at = 0

\* Only the upload that created the file last and those that were writing then
\* are writing now; its own blocks are there, and nothing else if it was alone.
LastInv ==
    /\ last = "old" => Copying = {}
    /\ last \in Uploads =>
         /\ up[last].phase # "sent" /\ Copying \subseteq others \cup {last}
         /\ up[last].at <= Len(disk[path])
         /\ others = {} => Len(disk[path]) = up[last].at

\* A place of the file holds a block that an upload has there, or a hole.
HoleAt(f, k) == f[k] = "hole" /\ k > up[last].at
BlockAt(f, k) == f[k] \in others \cup {last} /\ k <= up[f[k]].at
InPlace ==
    last \in Uploads =>
      \A k \in 1 .. Len(disk[path]) : HoleAt(disk[path], k) \/ BlockAt(disk[path], k)

\* A download that no upload disturbs: nobody was writing when it opened the
\* file and nobody has created it since, or the uploads go elsewhere.
Still(d) == down[d].of # "none" /\ (path = "." => down[d].of = last)

\* The body of such a download is the beginning of the file, and all of it in
\* the end, for nobody is writing.
ReaderInv ==
    \A d \in Downloads :
        /\ down[d].phase = "sent" => down[d].of = "none" /\ down[d].body = <<>>
        /\ down[d].of \in Uploads => up[down[d].of].phase # "sent"
        /\ Still(d) =>
             /\ path = "." => Copying = {}
             /\ Len(down[d].body) <= Len(disk["."])
             /\ \A k \in 1 .. Len(down[d].body) : down[d].body[k] = disk["."][k]
             /\ down[d].phase = "done" => Len(down[d].body) = Len(disk["."])

FileInv == FilesType /\ Offsets /\ LastInv /\ InPlace /\ ReaderInv

\* A block written at a descriptor's own offset changes that place only; in
\* front of it there may be a hole.
LEMMA WriteAtPlace ==
    ASSUME NEW f \in Seq(Block), NEW k \in Nat \ {0}, NEW b \in Block
    PROVE  /\ WriteAt(f, k, b) \in Seq(Block)
           /\ Len(WriteAt(f, k, b)) = IF Len(f) < k THEN k ELSE Len(f)
           /\ WriteAt(f, k, b)[k] = b
           /\ \A j \in 1 .. Len(WriteAt(f, k, b)) : j # k =>
                WriteAt(f, k, b)[j] = IF j > Len(f) THEN "hole" ELSE f[j]
<1> DEFINE n == IF Len(f) < k THEN k ELSE Len(f)
<1>1. n \in Nat /\ k \in 1 .. n /\ Len(f) \in Nat
  OBVIOUS
<1>2. \A j \in 1 .. n : WriteAt(f, k, b)[j] =
            IF j = k THEN b ELSE IF j > Len(f) THEN "hole" ELSE f[j]
  BY <1>1 DEF WriteAt
<1>3. \A j \in 1 .. n : WriteAt(f, k, b)[j] \in Block
  BY <1>1, <1>2, ElementOfSeq DEF Block
<1>4. WriteAt(f, k, b) = [j \in 1 .. n |-> WriteAt(f, k, b)[j]]
  BY <1>1, <1>2 DEF WriteAt
<1>5. WriteAt(f, k, b) \in Seq(Block)
  BY <1>1, <1>3, <1>4, IsASeq
<1>6. Len(WriteAt(f, k, b)) = n
  BY <1>1, <1>4, <1>5, LenProperties
<1> QED  BY <1>1, <1>2, <1>5, <1>6

\* What an upload does without writing: it fails before it has a file, its copy
\* is cut short, it is answered early or late.
LEMMA UploadFileInv ==
    ASSUME FileInv, NEW u \in Uploads, NEW r \in Upload,
           up' = [up EXCEPT ![u] = r], r.at = up[u].at, r.phase # "sent",
           r.phase = "copying" => up[u].phase = "copying",
           UNCHANGED <<service, path, disk, down, last, others>>
    PROVE  FileInv'
<1> USE FilesAssumption DEF FileInv
<1>1. /\ \A v \in Uploads : up'[v].at = up[v].at
      /\ \A v \in Uploads : up[v].phase # "sent" => up'[v].phase # "sent"
      /\ \A v \in Uploads : up'[v].phase = "sent" => up[v].phase = "sent"
      /\ \A v \in Uploads : up'[v].phase = "copying" => up[v].phase = "copying"
  BY DEF FilesType
<1>2. Copying' \subseteq Copying
  BY <1>1 DEF Copying
<1>3. FilesType'
  BY DEF FilesType
<1>4. Offsets'
  BY <1>1 DEF Offsets
<1>5. LastInv'
  BY <1>1, <1>2 DEF LastInv
<1>6. InPlace'
  BY <1>1 DEF InPlace, HoleAt, BlockAt
<1>7. ReaderInv'
  <2>1. \A d : Still(d)' = Still(d)
    BY DEF Still
  <2>2. ASSUME NEW d \in Downloads, down[d].of \in Uploads PROVE up'[down[d].of].phase # "sent"
    BY <1>1, <2>2 DEF ReaderInv
  <2> QED  BY <1>2, <2>1, <2>2 DEF ReaderInv
<1> QED  BY <1>3, <1>4, <1>5, <1>6, <1>7

\* A file that is created anew is empty; who was writing to it goes on.
LEMMA CreatedFileInv ==
    ASSUME FileInv, NEW u \in Uploads, up[u].phase = "sent",
           disk' = [disk EXCEPT ![path] = Create],
           up' = [up EXCEPT ![u].phase = "copying"],
           last' = u, others' = Copying,
           UNCHANGED <<service, path, down>>
    PROVE  FileInv'
<1> USE FilesAssumption DEF FileInv
<1>1. /\ \A v \in Uploads : v # u => up'[v] = up[v]
      /\ up'[u].phase = "copying" /\ up'[u].at = 0 /\ up'[u] \in Upload
  BY DEF FilesType, Upload, Offsets
<1>2. Copying' \subseteq Copying \cup {u}
  BY <1>1 DEF Copying
<1>3. disk'[path] = <<>> /\ Len(disk'[path]) = 0
  BY DEF FilesType, Create
<1>4. FilesType'
  <2>1. <<>> \in Seq(Block)
    OBVIOUS
  <2>2. disk' \in [{".", "files"} -> Seq(Block)]
    BY <2>1 DEF FilesType, Create
  <2>3. up' \in [Uploads -> Upload]
    BY <1>1 DEF FilesType
  <2>4. Copying \subseteq Uploads
    BY DEF Copying
  <2> QED  BY <2>2, <2>3, <2>4 DEF FilesType
<1>5. Offsets'
  BY <1>1 DEF Offsets, FilesType
<1>6. LastInv'
  BY <1>1, <1>2, <1>3 DEF LastInv
<1>7. InPlace'
  BY <1>3 DEF InPlace
<1>8. ReaderInv'
  <2>1. ASSUME NEW d \in Downloads PROVE down[d].of # u
    BY <2>1 DEF ReaderInv
  <2>2. ASSUME NEW d \in Downloads, Still(d)' PROVE Still(d) /\ path # "." /\ disk'["."] = disk["."]
    BY <2>1, <2>2 DEF Still, FilesType
  <2>3. ASSUME NEW d \in Downloads, down[d].of \in Uploads PROVE up'[down[d].of].phase # "sent"
    BY <1>1, <2>1, <2>3 DEF ReaderInv
  <2> QED  BY <2>2, <2>3 DEF ReaderInv
<1> QED  BY <1>4, <1>5, <1>6, <1>7, <1>8

\* A block goes to the place that it has in its upload.  One of the upload that
\* created the file last is next to its others, so that no hole is left behind.
LEMMA WrittenFileInv ==
    ASSUME FileInv, NEW u \in Uploads, up[u].phase = "copying", up[u].at < Size[u],
           disk' = [disk EXCEPT ![path] = WriteAt(@, up[u].at + 1, u)],
           up' = [up EXCEPT ![u].at = @ + 1],
           UNCHANGED <<service, path, down, last, others>>
    PROVE  FileInv'
<1> USE FilesAssumption DEF FileInv
<1> DEFINE f == disk[path]
           k == up[u].at + 1
           g == WriteAt(f, k, u)
<1>1. /\ up[u] \in Upload /\ up[u].at \in Nat /\ Size[u] \in Nat
      /\ f \in Seq(Block) /\ path \in {".", "files"}
  BY DEF FilesType, Upload
<1>2. k \in Nat \ {0} /\ u \in Block /\ k <= Size[u] /\ up[u].at = k - 1
  BY <1>1 DEF Block
<1>3. disk' = [disk EXCEPT ![path] = g] /\ disk'[path] = g
  BY <1>1 DEF FilesType
<1>4. up' = [up EXCEPT ![u] = [up[u] EXCEPT !.at = k]]
  BY <1>1
<1> HIDE DEF k
<1>5. /\ [up[u] EXCEPT !.at = k] \in Upload
      /\ [up[u] EXCEPT !.at = k].phase = "copying" /\ [up[u] EXCEPT !.at = k].at = k
  BY <1>1, <1>2 DEF Upload
<1>6. /\ \A v \in Uploads : v # u => up'[v] = up[v]
      /\ up'[u].phase = "copying" /\ up'[u].at = k /\ up' \in [Uploads -> Upload]
  BY <1>4, <1>5 DEF FilesType
<1> HIDE DEF f
<1>7. /\ g \in Seq(Block) /\ Len(g) = IF Len(f) < k THEN k ELSE Len(f)
      /\ g[k] = u
      /\ \A j \in 1 .. Len(g) : j # k => g[j] = IF j > Len(f) THEN "hole" ELSE f[j]
  <2>1. f \in Seq(Block) /\ k \in Nat \ {0} /\ u \in Block
    BY <1>1, <1>2
  <2> QED  BY ONLY <2>1, WriteAtPlace
<1> HIDE DEF g
<1>8. Len(f) \in Nat /\ Len(g) \in Nat /\ Len(g) >= Len(f) /\ k <= Len(g)
  BY <1>1, <1>2, <1>7
<1>9. Copying' \subseteq Copying /\ u \in Copying
  BY <1>2, <1>6 DEF Copying
<1>10. last \in Uploads /\ u \in others \cup {last}
  BY <1>9 DEF LastInv, FilesType
<1>11. up[last].at \in Nat /\ up[last].at <= Len(f)
  BY <1>10 DEF LastInv, FilesType, Upload, f
<1>12. FilesType'
  BY <1>3, <1>6, <1>7 DEF FilesType
<1>13. Offsets'
  BY <1>2, <1>6 DEF Offsets
<1>14. LastInv'
  <2>1. up'[last].phase # "sent" /\ Copying' \subseteq others \cup {last}
    BY <1>6, <1>9, <1>10 DEF LastInv
  <2>2. up'[last].at <= Len(g)
    BY <1>6, <1>8, <1>10, <1>11
  <2>3. ASSUME others = {} PROVE Len(g) = up'[last].at
    <3>1. u = last /\ Len(f) = k - 1
      BY <1>2, <1>10, <2>3 DEF LastInv, f
    <3> QED  BY <1>2, <1>6, <1>7, <1>8, <3>1
  <2> QED  BY <1>3, <1>10, <2>1, <2>2, <2>3 DEF LastInv
<1>15. InPlace'
  <2>1. ASSUME NEW j \in 1 .. Len(g)
        PROVE  \/ g[j] = "hole" /\ j > up'[last].at
               \/ g[j] \in others \cup {last} /\ j <= up'[g[j]].at
    <3>1. CASE j = k
      BY <1>2, <1>6, <1>7, <1>10, <3>1
    <3>2. CASE j # k /\ j > Len(f)
      <4>1. g[j] = "hole" /\ j < k
        BY <1>2, <1>7, <1>8, <3>2
      <4>2. u # last
        BY <1>2, <1>8, <1>11, <3>2, <4>1
      <4> QED  BY <1>6, <1>8, <1>10, <1>11, <3>2, <4>1, <4>2
    <3>3. CASE j # k /\ ~(j > Len(f))
      <4>1. j \in 1 .. Len(f) /\ g[j] = f[j]
        BY <1>7, <1>8, <3>3
      <4>2. CASE f[j] = "hole" /\ j > up[last].at
        BY <1>2, <1>6, <1>10, <1>11, <3>3, <4>1, <4>2
      <4>3. CASE f[j] \in others \cup {last} /\ j <= up[f[j]].at
        <5>1. f[j] \in Uploads
          BY <1>10, <4>3 DEF FilesType
        <5>2. up[f[j]].at \in Nat /\ up[f[j]].at <= up'[f[j]].at
          <6>1. up[f[j]].at \in Nat
            BY <5>1 DEF FilesType, Upload
          <6>2. f[j] = u => up[f[j]].at = k - 1 /\ up'[f[j]].at = k
            BY <1>2, <1>6
          <6>3. f[j] # u => up'[f[j]].at = up[f[j]].at
            BY <1>6, <5>1
          <6> QED  BY <1>2, <6>1, <6>2, <6>3
        <5>3. up'[f[j]].at \in Nat
          BY <1>6, <5>1 DEF Upload
        <5> QED  BY <4>1, <4>3, <5>2, <5>3
      <4> QED  BY <1>10, <4>1, <4>2, <4>3 DEF InPlace, HoleAt, BlockAt, f
    <3> QED  BY <3>1, <3>2, <3>3
  <2> QED  BY <1>3, <2>1 DEF InPlace, HoleAt, BlockAt
<1>16. ReaderInv'
  <2>1. ASSUME NEW d \in Downloads, Still(d)' PROVE Still(d) /\ path # "." /\ disk'["."] = disk["."]
    BY <1>9, <2>1 DEF Still, ReaderInv, FilesType
  <2>2. ASSUME NEW d \in Downloads, down[d].of \in Uploads PROVE up'[down[d].of].phase # "sent"
    BY <1>6, <2>2 DEF ReaderInv
  <2> QED  BY <2>1, <2>2 DEF ReaderInv
<1> QED  BY <1>12, <1>13, <1>14, <1>15, <1>16

\* The steps of an upload.
LEMMA UploadStep ==
    ASSUME FileInv, NEW u \in Uploads,
           Receive(u) \/ Copy(u) \/ UploadEnd(u) \/ UploadTimeout(u)
    PROVE  FileInv'
<1>1. up[u] \in Upload /\ (up[u].phase = "sent" => up[u].at = 0)
  BY DEF FileInv, FilesType, Offsets
<1>2. CASE Receive(u)
  <2>1. CASE /\ up' = [up EXCEPT ![u] = [phase |-> "done", at |-> 0, reply |-> "error"]]
             /\ UNCHANGED <<disk, last, others>>
    <3>1. [phase |-> "done", at |-> 0, reply |-> "error"] \in Upload
      BY DEF Upload
    <3> QED  BY <1>1, <1>2, <2>1, <3>1, UploadFileInv DEF Receive
  <2> QED  BY <1>2, <2>1, CreatedFileInv DEF Receive
<1>3. CASE Copy(u)
  <2>1. CASE up' = [up EXCEPT ![u].phase = "cut"] /\ UNCHANGED disk
    <3>1. LET r == [up[u] EXCEPT !.phase = "cut"]
          IN  r \in Upload /\ r.at = up[u].at /\ r.phase = "cut"
      BY <1>1 DEF Upload
    <3>2. up' = [up EXCEPT ![u] = [up[u] EXCEPT !.phase = "cut"]]
      BY <2>1
    <3> QED  BY <1>3, <2>1, <3>1, <3>2, UploadFileInv DEF Copy
  <2> QED  BY <1>3, <2>1, WrittenFileInv DEF Copy
<1>4. CASE UploadEnd(u) \/ UploadTimeout(u)
  <2>1. PICK ph \in {"copying", "cut", "done"}, rp \in {"none", "error", "code 0", "timeout"} :
           /\ up' = [up EXCEPT ![u] = [up[u] EXCEPT !.phase = ph, !.reply = rp]]
           /\ ph = "copying" => up[u].phase = "copying"
    <3>1. CASE UploadEnd(u)
      <4>1. up' = [up EXCEPT ![u] = [up[u] EXCEPT !.phase = "done", !.reply =
                                       IF @ = "none" THEN "code 0" ELSE @]]
        BY <3>1 DEF UploadEnd
      <4> QED  BY <1>1, <3>1, <4>1 DEF UploadEnd, Upload
    <3>2. CASE UploadTimeout(u)
      <4>1. up' = [up EXCEPT ![u] = [up[u] EXCEPT !.phase = up[u].phase, !.reply = "timeout"]]
        BY <1>1, <3>2 DEF UploadTimeout, Upload
      <4>2. up[u].phase \in {"copying", "cut"}
        BY <3>2 DEF UploadTimeout
      <4> QED  BY <1>1, <4>1, <4>2
    <3> QED  BY <1>4, <3>1, <3>2
  <2>2. LET r == [up[u] EXCEPT !.phase = ph, !.reply = rp]
        IN  r \in Upload /\ r.phase = ph /\ r.at = up[u].at
    BY <1>1 DEF Upload
  <2>3. UNCHANGED <<service, path, disk, down, last, others>>
    BY <1>4 DEF UploadEnd, UploadTimeout
  <2> QED  BY <2>1, <2>2, <2>3, UploadFileInv
<1> QED  BY <1>2, <1>3, <1>4

\* A download changes no file; what it must keep is its own part of ReaderInv.
LEMMA DownloadFileInv ==
    ASSUME FileInv, NEW d \in Downloads, NEW r \in Download,
           down' = [down EXCEPT ![d] = r], UNCHANGED <<path, disk, up, last, others>>,
           r.phase # "sent",
           r.of \in Uploads => up[r.of].phase # "sent",
           r.of # "none" /\ (path = "." => r.of = last) =>
             /\ path = "." => Copying = {}
             /\ Len(r.body) <= Len(disk["."])
             /\ \A k \in 1 .. Len(r.body) : r.body[k] = disk["."][k]
             /\ r.phase = "done" => Len(r.body) = Len(disk["."])
    PROVE  FileInv'
<1> USE DEF FileInv
<1>1. down'[d] = r /\ \A e \in Downloads : e # d => down'[e] = down[e]
  BY DEF FilesType
<1>2. FilesType'
  BY DEF FilesType
<1>3. Offsets' /\ LastInv' /\ InPlace' /\ Copying' = Copying
  BY DEF Offsets, LastInv, InPlace, HoleAt, BlockAt, Copying
<1>4. ReaderInv'
  BY <1>1, <1>3 DEF ReaderInv, Still
<1> QED  BY <1>2, <1>3, <1>4

\* When nobody is writing, the file that is opened is that of the upload that
\* created it last.
LEMMA OpenFileInv ==
    ASSUME FileInv, NEW d \in Downloads, OpenFile(d)
    PROVE  FileInv'
<1> USE FilesAssumption DEF FileInv
<1>1. /\ down[d] \in Download /\ down[d].phase = "sent"
      /\ down[d].of = "none" /\ down[d].body = <<>> /\ Len(down[d].body) = 0
      /\ UNCHANGED <<path, disk, up, last, others>> /\ Len(disk["."]) \in Nat
  BY DEF OpenFile, FilesType, ReaderInv
<1>2. CASE down' = [down EXCEPT ![d] = [@ EXCEPT !.phase = "done", !.reply = "error"]]
  <2> DEFINE r == [down[d] EXCEPT !.phase = "done", !.reply = "error"]
  <2>1. r \in Download /\ r.phase = "done" /\ r.of = "none"
    BY <1>1 DEF Download
  <2>2. down' = [down EXCEPT ![d] = r]
    BY <1>2
  <2> HIDE DEF r
  <2> QED  BY <1>1, <2>1, <2>2, DownloadFileInv
<1>3. CASE down' = [down EXCEPT ![d] = [@ EXCEPT !.phase = "reading",
                                          !.of = IF Copying = {} THEN last ELSE "mixed"]]
  <2> DEFINE w == IF Copying = {} THEN last ELSE "mixed"
             r == [down[d] EXCEPT !.phase = "reading", !.of = w]
  <2>1. w \in Uploads \cup {"none", "old", "mixed"} /\ (w = last => Copying = {})
    BY DEF FilesType
  <2>2. w \in Uploads => up[w].phase # "sent"
    BY DEF LastInv
  <2> HIDE DEF w
  <2>3. r \in Download /\ r.phase = "reading" /\ r.of = w /\ r.body = down[d].body
    BY <1>1, <2>1 DEF Download
  <2>4. down' = [down EXCEPT ![d] = r]
    BY <1>3 DEF w
  <2> HIDE DEF r
  <2>5. /\ Len(r.body) <= Len(disk["."])
        /\ \A k \in 1 .. Len(r.body) : r.body[k] = disk["."][k]
    BY <1>1, <2>3
  <2> QED  BY <1>1, <2>1, <2>2, <2>3, <2>4, <2>5, DownloadFileInv
<1> QED  BY <1>2, <1>3 DEF OpenFile

\* The next block of the file becomes the next of the body.
LEMMA ReadBlockInv ==
    ASSUME FileInv, NEW d \in Downloads, ReadBlock(d)
    PROVE  FileInv'
<1> USE FilesAssumption DEF FileInv
<1> DEFINE n == Len(down[d].body)
           b == disk["."][n + 1]
           r == [down[d] EXCEPT !.body = Append(@, b)]
<1>0. /\ down[d] \in Download /\ down[d].body \in Seq(Block) /\ disk["."] \in Seq(Block)
  BY DEF FilesType, Download
<1>1. /\ down[d] \in Download /\ down[d].phase = "reading" /\ down[d].body \in Seq(Block)
      /\ n \in Nat /\ n < Len(disk["."]) /\ disk["."] \in Seq(Block)
      /\ UNCHANGED <<path, disk, up, last, others>>
      /\ down' = [down EXCEPT ![d] = r]
  BY <1>0 DEF ReadBlock
<1>2. b \in Block
  BY <1>1
<1> HIDE DEF b
<1>3. /\ Append(down[d].body, b) \in Seq(Block) /\ Len(Append(down[d].body, b)) = n + 1
      /\ \A k \in 1 .. n : Append(down[d].body, b)[k] = down[d].body[k]
      /\ Append(down[d].body, b)[n + 1] = b
  BY <1>1, <1>2
<1>4. /\ r \in Download /\ r.phase = "reading" /\ r.of = down[d].of
      /\ r.body = Append(down[d].body, b)
  BY <1>1, <1>3 DEF Download
<1> HIDE DEF r
<1>5. ASSUME r.of # "none", path = "." => r.of = last
      PROVE  /\ path = "." => Copying = {}
             /\ Len(r.body) <= Len(disk["."])
             /\ \A k \in 1 .. Len(r.body) : r.body[k] = disk["."][k]
  <2>1. Still(d)
    BY <1>4, <1>5 DEF Still
  <2>2. (path = "." => Copying = {}) /\ \A k \in 1 .. n : down[d].body[k] = disk["."][k]
    BY <2>1 DEF ReaderInv
  <2>3. Len(r.body) = n + 1 /\ n + 1 <= Len(disk["."]) /\ r.body[n + 1] = disk["."][n + 1]
    BY <1>1, <1>3, <1>4 DEF b
  <2>4. \A k \in 1 .. n + 1 : k \in 1 .. n \/ k = n + 1
    BY <1>1
  <2> QED  BY <1>3, <1>4, <2>2, <2>3, <2>4
<1>6. r.of \in Uploads => up[r.of].phase # "sent"
  BY <1>4 DEF ReaderInv
<1> QED  BY <1>1, <1>4, <1>5, <1>6, DownloadFileInv

\* What is sent has been read to the end of the file.
LEMMA LoadedFileInv ==
    ASSUME FileInv, NEW d \in Downloads, MonolithicDownload(d) \/ HttpDownload(d)
    PROVE  FileInv'
<1> USE FilesAssumption DEF FileInv
<1>1. /\ down[d] \in Download /\ down[d].phase = "reading"
      /\ Len(down[d].body) \in Nat /\ Len(disk["."]) \in Nat
      /\ Len(down[d].body) >= Len(disk["."])
      /\ UNCHANGED <<path, disk, up, last, others>>
  <2>1. down[d] \in Download /\ down[d].body \in Seq(Block) /\ disk["."] \in Seq(Block)
    BY DEF FilesType, Download
  <2>2. Loaded(d) /\ UNCHANGED <<path, disk, up, last, others>>
    BY DEF MonolithicDownload, HttpDownload
  <2> QED  BY <2>1, <2>2 DEF Loaded
<1>2. PICK r \in Download : /\ down' = [down EXCEPT ![d] = r] /\ r.phase = "done"
                            /\ r.of = down[d].of /\ r.body = down[d].body
  <2>1. PICK reply \in {"ok", "closed pipe"} :
          down' = [down EXCEPT ![d] = [down[d] EXCEPT !.phase = "done", !.reply = reply]]
    BY DEF MonolithicDownload, HttpDownload
  <2>2. LET q == [down[d] EXCEPT !.phase = "done", !.reply = reply]
        IN  q \in Download /\ q.phase = "done" /\ q.of = down[d].of /\ q.body = down[d].body
    BY <1>1 DEF Download
  <2> QED  BY <2>1, <2>2, Zenon
<1>3. ASSUME r.of # "none", path = "." => r.of = last
      PROVE  /\ path = "." => Copying = {}
             /\ Len(r.body) <= Len(disk["."]) /\ Len(r.body) = Len(disk["."])
             /\ \A k \in 1 .. Len(r.body) : r.body[k] = disk["."][k]
  <2>1. Still(d)
    BY <1>2, <1>3 DEF Still
  <2>2. /\ path = "." => Copying = {}
        /\ Len(down[d].body) <= Len(disk["."])
        /\ \A k \in 1 .. Len(down[d].body) : down[d].body[k] = disk["."][k]
    BY <2>1 DEF ReaderInv
  <2> QED  BY <1>1, <1>2, <2>2
<1>4. r.of \in Uploads => up[r.of].phase # "sent"
  BY <1>2 DEF ReaderInv
<1> QED  BY <1>1, <1>2, <1>3, <1>4, DownloadFileInv

\* The steps of the uploads and downloads together.
LEMMA FileStep ==
    ASSUME FileInv, [FilesNext]_fileVars
    PROVE  FileInv'
<1>1. CASE UNCHANGED fileVars
  BY <1>1 DEF fileVars, FileInv, FilesType, Offsets, LastInv, InPlace, HoleAt, BlockAt, ReaderInv,
              Still, Copying
<1> QED
  BY <1>1, UploadStep, OpenFileInv, ReadBlockInv, LoadedFileInv
  DEF FilesNext, MonolithicUpload, HttpUpload

\* An upload alone leaves its own blocks, and a body is the file it was read from.
LEMMA FileInvImplies == FileInv => FilesAreUploads
<1> SUFFICES ASSUME FileInv PROVE FilesAreUploads
  OBVIOUS
<1> USE FilesAssumption DEF FileInv
<1>1. ASSUME last \in Uploads, others = {} PROVE disk[path] = Written(last, up[last].at)
  <2>1. disk[path] \in Seq(Block) /\ Len(disk[path]) = up[last].at
    BY <1>1 DEF FilesType, LastInv
  <2>2. \A k \in 1 .. Len(disk[path]) : disk[path][k] = last
    BY <1>1, <2>1 DEF InPlace, HoleAt, BlockAt
  <2> QED  BY <2>1, <2>2 DEF Written
<1>2. ASSUME NEW d \in Downloads, down[d].phase = "done", Still(d)
      PROVE  down[d].body = disk["."]
  <2>1. down[d].body \in Seq(Block) /\ disk["."] \in Seq(Block)
    BY DEF FilesType, Download
  <2>2. /\ Len(down[d].body) = Len(disk["."])
        /\ \A k \in 1 .. Len(down[d].body) : down[d].body[k] = disk["."][k]
    BY <1>2 DEF ReaderInv
  <2> QED  BY <2>1, <2>2, SeqEqual
<1>3. last \in Uploads => up[last].at <= Len(disk[path])
  BY DEF LastInv
<1> QED  BY <1>1, <1>2, <1>3 DEF FilesAreUploads, InPlace, HoleAt, BlockAt, Still

-----------------------------------------------------------------------------
(* The HTTP servers *)

\* A route that should time out works for longer than its timeout by more than
\* a waking may be late, and its server's own middlewares are on; every other
\* route with a timeout is done that much before it.
RouteFits(name, loaded, e, route) ==
    /\ route.work \in Nat /\ route.timeout \in Nat /\ route.reject \in {"bad", "missing"}
    /\ IF <<name, e>> \in ShouldTimeOut
       THEN loaded /\ route.timeout > 0 /\ route.timeout + 1 < route.work
       ELSE route.timeout > 0 => route.work + 1 < route.timeout

\* So do the routes that the mains register.
LEMMA RoutesFit ==
    \A name \in DOMAIN Mains :
      \A e \in DOMAIN Mains[name].routes :
        RouteFits(name, Mains[name].loaded, e, Mains[name].routes[e])
<1> USE DEF RouteFits, ShouldTimeOut, Server, Literal, Within, Handler, Hello, Default
<1>1. \A e \in DOMAIN WithTimeoutMain.routes :
         RouteFits("withtimeout", WithTimeoutMain.loaded, e, WithTimeoutMain.routes[e])
  BY DEF WithTimeoutMain, WithTimeoutHome, WithTimeoutHello, WithTimeoutHi
<1>2. \A e \in DOMAIN TimeoutMain.routes :
         RouteFits("timeout", TimeoutMain.loaded, e, TimeoutMain.routes[e])
  <2>1. /\ TimeoutMain.loaded = TRUE /\ DOMAIN TimeoutMain.routes = {"get_slow", "get_fast"}
        /\ TimeoutMain.routes["get_slow"] = Within(SlowHandler, 20)
        /\ TimeoutMain.routes["get_fast"] = Within(FastHandler, Default)
    BY DEF TimeoutMain, TimeoutRoutes
  <2>2. /\ RouteFits("timeout", TRUE, "get_slow", Within(SlowHandler, 20))
        /\ RouteFits("timeout", TRUE, "get_fast", Within(FastHandler, Default))
    BY DEF SlowHandler, SlowLogic, FastHandler, FastLogic
  <2> QED  BY <2>1, <2>2
<1>3. \A e \in DOMAIN MiddlewareMain.routes :
         RouteFits("middleware", MiddlewareMain.loaded, e, MiddlewareMain.routes[e])
  BY DEF MiddlewareMain, MiddlewareHandle
<1>4. \A e \in DOMAIN CorsMain.routes :
         RouteFits("cors", CorsMain.loaded, e, CorsMain.routes[e])
  BY DEF CorsMain, CorsHello
<1>5. \A e \in DOMAIN GroupMain.routes :
         RouteFits("group", GroupMain.loaded, e, GroupMain.routes[e])
  BY DEF GroupMain, GroupHomeHello, GroupApiHello
<1>6. \A e \in DOMAIN DemoMain.routes :
         RouteFits("demo", DemoMain.loaded, e, DemoMain.routes[e])
  BY DEF DemoMain, DemoHandle
<1>7. \A e \in DOMAIN PostMain.routes :
         RouteFits("post", PostMain.loaded, e, PostMain.routes[e])
  <2>1. /\ PostMain.loaded = FALSE /\ DOMAIN PostMain.routes = {"get_root", "post_root"}
        /\ PostMain.routes["get_root"] = Within(PostGet, 0)
        /\ PostMain.routes["post_root"] = Within(PostHandle, 0)
    BY DEF PostMain
  <2>2. /\ RouteFits("post", FALSE, "get_root", Within(PostGet, 0))
        /\ RouteFits("post", FALSE, "post_root", Within(PostHandle, 0))
    BY DEF PostGet, PostHandle
  <2> QED  BY <2>1, <2>2
<1>8. \A e \in DOMAIN WildcardMain.routes :
         RouteFits("wildcard", WildcardMain.loaded, e, WildcardMain.routes[e])
  BY DEF WildcardMain, WildcardHandle
<1>9. \A e \in DOMAIN StaticMain.routes :
         RouteFits("static", StaticMain.loaded, e, StaticMain.routes[e])
  BY DEF StaticMain
<1>10. \A e \in DOMAIN SheddingMain.routes :
         RouteFits("shedding", SheddingMain.loaded, e, SheddingMain.routes[e])
  BY DEF SheddingMain, SheddingHandle
<1>11. \A e \in DOMAIN HttpcMain.routes :
         RouteFits("httpc", HttpcMain.loaded, e, HttpcMain.routes[e])
  BY DEF HttpcMain, HttpcHandle
<1> QED
  BY <1>1, <1>2, <1>3, <1>4, <1>5, <1>6, <1>7, <1>8, <1>9, <1>10, <1>11 DEF Mains

\* What a request is; its answer's text and marks may be anything.
IsRequest(c) ==
    /\ c \in [phase : {"idle", "running", "late", "done"}, endpoint : {c.endpoint},
              input : {c.input}, elapsed : Nat, code : {c.code}, says : {c.says},
              marks : {c.marks}]
    /\ c.phase = "idle" => c.elapsed = 0 /\ c.code = "none"
    /\ c.phase = "running" => c.code = "none"
    /\ c.phase = "late" => c.code = "timeout"

\* A request with a handler has a route, and until it is answered neither its
\* handler nor its timer is overdue by more than Late.
NotOverdue(r) ==
    /\ conn[r].phase \in {"running", "late"} => conn[r].endpoint \in DOMAIN Main.routes
    /\ conn[r].phase = "running" =>
         /\ conn[r].elapsed <= Work(r) + Late
         /\ Times(r) => conn[r].elapsed <= Route(r).timeout + Late

RestInv ==
    /\ server \in DOMAIN Mains /\ (Main.loaded => native)
    /\ conn = [r \in Conns |-> conn[r]]
    /\ \A r \in Conns : IsRequest(conn[r]) /\ NotOverdue(r)
    /\ TimeoutsDecide

\* A step of one request, r, that turns its record into c.
LEMMA OneRequest ==
    ASSUME RestInv, NEW r \in Conns, NEW c, conn' = [conn EXCEPT ![r] = c],
           UNCHANGED <<server, native>>, IsRequest(c), NotOverdue(r)',
           c.code = "timeout" => <<server, c.endpoint>> \in ShouldTimeOut,
           c.code = "ok" => <<server, c.endpoint>> \notin ShouldTimeOut
    PROVE  RestInv'
<1> USE DEF RestInv
<1>1. conn'[r] = c /\ \A q \in Conns : q # r => conn'[q] = conn[q]
  OBVIOUS
<1>2. Main' = Main
  BY DEF Main
<1>3. conn' = [q \in Conns |-> conn'[q]] /\ \A q \in Conns : IsRequest(conn'[q])
  BY <1>1
<1>4. \A q \in Conns : q # r => NotOverdue(q)'
  BY <1>1, <1>2 DEF NotOverdue, Work, Times, Route, Parses
<1>5. TimeoutsDecide'
  BY <1>1 DEF TimeoutsDecide
<1> QED  BY <1>2, <1>3, <1>4, <1>5

\* What NotOverdue and the table say of a request that has a handler.
LEMMA Running ==
    ASSUME RestInv, NEW r \in Conns, conn[r].phase = "running"
    PROVE  /\ RouteFits(server, Main.loaded, conn[r].endpoint, Route(r))
           /\ Work(r) \in Nat /\ Work(r) <= Route(r).work
           /\ conn[r].elapsed \in Nat /\ conn[r].elapsed <= Work(r) + Late
           /\ Times(r) => conn[r].elapsed <= Route(r).timeout + Late
<1>1. conn[r].endpoint \in DOMAIN Main.routes /\ server \in DOMAIN Mains
  BY DEF RestInv, NotOverdue
<1>2. RouteFits(server, Main.loaded, conn[r].endpoint, Route(r))
  BY <1>1, RoutesFit DEF Main, Route
<1>3. Work(r) \in Nat /\ Work(r) <= Route(r).work
  BY <1>2 DEF RouteFits, Work
<1> QED  BY <1>2, <1>3 DEF RestInv, NotOverdue, IsRequest

\* A request is refused, or begins with nothing elapsed.
LEMMA ArriveRestInv ==
    ASSUME RestInv, NEW r \in Conns, Arrive(r)
    PROVE  RestInv'
<1>1. PICK ask \in Asks : \E refusal \in Refusal(r, ask) :
         /\ conn[r].phase = "idle"
         /\ LET c == [conn[r] EXCEPT !.endpoint = ask.endpoint, !.input = ask.input]
            IN  conn' = [conn EXCEPT ![r] =
                  IF refusal = "served" THEN [c EXCEPT !.phase = "running"]
                  ELSE [Answered(c, refusal, "", <<>>) EXCEPT !.phase = "done"]]
         /\ UNCHANGED <<server, native>>
  BY DEF Arrive
<1>2. PICK refusal \in Refusal(r, ask) :
         LET c == [conn[r] EXCEPT !.endpoint = ask.endpoint, !.input = ask.input]
         IN  conn' = [conn EXCEPT ![r] =
               IF refusal = "served" THEN [c EXCEPT !.phase = "running"]
               ELSE [Answered(c, refusal, "", <<>>) EXCEPT !.phase = "done"]]
  BY <1>1
<1>3. /\ refusal \in {"wildcard", "preflight", "missing", "busy", "oversized", "served", "shed"}
      /\ refusal = "served" => ask.endpoint \in DOMAIN Main.routes
  BY DEF Refusal
<1>4. /\ IsRequest(conn[r]) /\ conn[r].phase = "idle" /\ conn[r].elapsed = 0
      /\ conn[r].code = "none" /\ UNCHANGED <<server, native>>
      /\ server \in DOMAIN Mains
  BY <1>1 DEF RestInv, IsRequest
<1> DEFINE c0 == [conn[r] EXCEPT !.endpoint = ask.endpoint, !.input = ask.input]
<1>5. CASE refusal = "served"
  <2> DEFINE c == [c0 EXCEPT !.phase = "running"]
  <2>1. /\ IsRequest(c) /\ c.phase = "running" /\ c.endpoint = ask.endpoint
        /\ c.elapsed = 0 /\ c.code = "none"
    BY <1>4 DEF IsRequest
  <2>2. conn' = [conn EXCEPT ![r] = c]
    BY <1>2, <1>5
  <2> HIDE DEF c, c0
  <2>3. conn'[r] = c /\ Main' = Main
    BY <1>4, <2>2 DEF RestInv, Main
  <2>4. RouteFits(server, Main.loaded, ask.endpoint, Main.routes[ask.endpoint])
    BY <1>3, <1>4, <1>5, RoutesFit DEF Main
  <2>5. NotOverdue(r)'
    <3>1. Route(r)' = Main.routes[ask.endpoint]
      BY <2>1, <2>3 DEF Route
    <3>2. Work(r)' \in Nat /\ Route(r)'.timeout \in Nat /\ Late \in Nat
      BY <2>4, <3>1, RestAssumption DEF Work, RouteFits
    <3> QED  BY <1>3, <1>5, <2>1, <2>3, <3>2 DEF NotOverdue
  <2> QED  BY <1>4, <2>1, <2>2, <2>5, OneRequest
<1>6. CASE refusal # "served"
  <2> DEFINE c == [Answered(c0, refusal, "", <<>>) EXCEPT !.phase = "done"]
  <2>1. IsRequest(c) /\ c.phase = "done" /\ c.code = refusal
    BY <1>4 DEF IsRequest, Answered
  <2>2. conn' = [conn EXCEPT ![r] = c]
    BY <1>2, <1>6
  <2> HIDE DEF c, c0
  <2>3. NotOverdue(r)'
    BY <2>1, <2>2 DEF RestInv, NotOverdue
  <2> QED  BY <1>3, <1>4, <2>1, <2>2, <2>3, OneRequest
<1> QED  BY <1>5, <1>6

\* A handler whose route should time out is not done when its timer is due at
\* the latest, so it never gets its answer out.
LEMMA WritesRestInv ==
    ASSUME Late <= 1, RestInv, NEW r \in Conns, HandlerWrites(r)
    PROVE  RestInv'
<1>1. /\ IsRequest(conn[r]) /\ UNCHANGED <<server, native>>
      /\ conn[r].phase \in {"running", "late"} /\ conn[r].elapsed >= Work(r)
      /\ Main.loaded => native
  BY DEF HandlerWrites, RestInv
<1>2. CASE conn[r].phase = "late"
  <2> DEFINE c == [conn[r] EXCEPT !.phase = "done"]
  <2>1. conn' = [conn EXCEPT ![r] = c]
    BY <1>2 DEF HandlerWrites
  <2>2. /\ IsRequest(c) /\ c.phase = "done" /\ c.code = conn[r].code
        /\ c.endpoint = conn[r].endpoint
    BY <1>1 DEF IsRequest
  <2> HIDE DEF c
  <2>3. NotOverdue(r)'
    BY <2>1, <2>2 DEF RestInv, NotOverdue
  <2> QED  BY <1>1, <2>1, <2>2, <2>3, OneRequest DEF RestInv, TimeoutsDecide
<1>3. CASE conn[r].phase = "running"
  <2> DEFINE code == IF Parses(r) THEN "ok" ELSE Route(r).reject
             says == IF Parses(r) THEN Route(r).says ELSE ""
             c == [Answered(conn[r], code, says, Main.use) EXCEPT !.phase = "done"]
  <2>1. conn' = [conn EXCEPT ![r] = c]
    BY <1>3 DEF HandlerWrites
  <2>2. RouteFits(server, Main.loaded, conn[r].endpoint, Route(r))
    BY <1>3, Running
  <2>3. code # "timeout"
    BY <2>2 DEF RouteFits
  <2>4. code = "ok" => <<server, conn[r].endpoint>> \notin ShouldTimeOut
    <3> SUFFICES ASSUME code = "ok", <<server, conn[r].endpoint>> \in ShouldTimeOut
                 PROVE  FALSE
      OBVIOUS
    <3>1. Parses(r) /\ Work(r) = Route(r).work
      BY <2>2 DEF RouteFits, Work
    <3>2. Times(r) /\ Route(r).timeout + 1 < Route(r).work
      BY <1>1, <2>2 DEF RouteFits, Times
    <3>3. /\ Route(r).timeout \in Nat /\ Route(r).work \in Nat
          /\ conn[r].elapsed \in Nat /\ conn[r].elapsed <= Route(r).timeout + Late
      BY <1>3, <2>2, <3>2, Running DEF RouteFits
    <3> QED  BY <1>1, <3>1, <3>2, <3>3, RestAssumption
  <2> HIDE DEF code, says
  <2>5. /\ IsRequest(c) /\ c.phase = "done" /\ c.code = code
        /\ c.endpoint = conn[r].endpoint
    BY <1>1 DEF IsRequest, Answered
  <2> HIDE DEF c
  <2>6. NotOverdue(r)'
    BY <2>1, <2>5 DEF RestInv, NotOverdue
  <2> QED  BY <1>1, <2>1, <2>3, <2>4, <2>5, <2>6, OneRequest
<1> QED  BY <1>1, <1>2, <1>3

\* A timer that goes off finds a handler that should time out: any other is
\* done by then.
LEMMA TimesOutRestInv ==
    ASSUME Late <= 1, RestInv, NEW r \in Conns, TimesOut(r)
    PROVE  RestInv'
<1> DEFINE c == [Answered(conn[r], "timeout", "", <<>>) EXCEPT !.phase = "late"]
<1>1. /\ IsRequest(conn[r]) /\ UNCHANGED <<server, native>>
      /\ conn[r].phase = "running" /\ conn[r].elapsed >= Route(r).timeout
      /\ Route(r).timeout > 0
      /\ conn' = [conn EXCEPT ![r] = c]
  BY DEF TimesOut, RestInv, Times
<1>2. /\ IsRequest(c) /\ c.phase = "late" /\ c.code = "timeout"
      /\ c.endpoint = conn[r].endpoint
  BY <1>1 DEF IsRequest, Answered
<1> HIDE DEF c
<1>3. <<server, conn[r].endpoint>> \in ShouldTimeOut
  <2> SUFFICES ASSUME <<server, conn[r].endpoint>> \notin ShouldTimeOut
               PROVE  FALSE
    OBVIOUS
  <2>1. /\ Route(r).timeout \in Nat /\ Route(r).work \in Nat
        /\ Route(r).work + 1 < Route(r).timeout
    BY <1>1, Running DEF RouteFits
  <2>2. /\ conn[r].elapsed \in Nat /\ Work(r) \in Nat
        /\ conn[r].elapsed <= Work(r) + Late /\ Work(r) <= Route(r).work
    BY <1>1, Running
  <2> QED  BY <1>1, <2>1, <2>2, RestAssumption
<1>4. NotOverdue(r)'
  BY <1>1, <1>2 DEF RestInv, NotOverdue, Main
<1> QED  BY <1>1, <1>2, <1>3, <1>4, OneRequest

\* Time passes only while nobody is overdue by Late already.
LEMMA PassRestInv ==
    ASSUME RestInv, Pass
    PROVE  RestInv'
<1> DEFINE open == {r \in Conns : conn[r].phase \in {"running", "late"}}
<1>1. /\ UNCHANGED <<server, native>> /\ Main' = Main
      /\ conn' = [r \in Conns |-> IF r \in open THEN [conn[r] EXCEPT !.elapsed = @ + 1]
                                  ELSE conn[r]]
      /\ \A r \in open :
           /\ conn[r].elapsed < Work(r) + Late
           /\ (conn[r].phase = "running" /\ Times(r)) => conn[r].elapsed < Route(r).timeout + Late
  BY DEF Pass, Main
<1>2. ASSUME NEW r \in Conns
      PROVE  /\ IsRequest(conn'[r]) /\ NotOverdue(r)'
             /\ conn'[r].code = conn[r].code /\ conn'[r].endpoint = conn[r].endpoint
  <2>1. IsRequest(conn[r]) /\ NotOverdue(r)
    BY DEF RestInv
  <2>2. CASE r \notin open
    <3>1. conn'[r] = conn[r]
      BY <1>1, <2>2
    <3> QED  BY <1>1, <2>1, <3>1 DEF NotOverdue, Work, Times, Route, Parses
  <2>3. CASE r \in open
    <3>1. conn'[r] = [conn[r] EXCEPT !.elapsed = @ + 1]
      BY <1>1, <2>3
    <3>2. /\ IsRequest(conn'[r]) /\ conn'[r].code = conn[r].code
          /\ conn'[r].endpoint = conn[r].endpoint /\ conn'[r].phase = conn[r].phase
          /\ conn'[r].elapsed = conn[r].elapsed + 1 /\ conn'[r].input = conn[r].input
          /\ conn[r].elapsed \in Nat
      BY <2>1, <2>3, <3>1 DEF IsRequest
    <3>3. Route(r)' = Route(r) /\ Work(r)' = Work(r) /\ Times(r)' = Times(r)
      BY <1>1, <3>2 DEF Route, Work, Times, Parses
    <3>4. conn[r].phase = "running" => Work(r) \in Nat /\ Route(r).timeout \in Nat
      BY Running DEF RouteFits
    <3>5. NotOverdue(r)'
      BY <1>1, <2>1, <2>3, <3>2, <3>3, <3>4, RestAssumption DEF NotOverdue
    <3> QED  BY <3>2, <3>5
  <2> QED  BY <2>2, <2>3
<1>3. TimeoutsDecide'
  BY <1>1, <1>2 DEF RestInv, TimeoutsDecide
<1>4. conn' = [r \in Conns |-> conn'[r]]
  BY <1>1
<1> QED  BY <1>1, <1>2, <1>3, <1>4 DEF RestInv

\* The steps of the requests together.
LEMMA RestStep ==
    ASSUME Late <= 1, RestInv, [RestNext]_restVars
    PROVE  RestInv'
<1>1. CASE UNCHANGED restVars
  BY <1>1 DEF restVars, RestInv, NotOverdue, Main, Work, Times, Route, Parses, TimeoutsDecide
<1> QED  BY <1>1, ArriveRestInv, WritesRestInv, TimesOutRestInv, PassRestInv DEF RestNext

-----------------------------------------------------------------------------
(* The log writers *)

\* How far By has come after n records.
IsBy(f, g, s, R) ==
    /\ f \in [0..Len(s) -> Seq(R)] /\ f[0] = <<>>
    /\ \A n \in 1..Len(s) : f[n] = IF s[n].by = g THEN Append(f[n - 1], s[n]) ELSE f[n - 1]

\* By comes to the last record this way.
LEMMA ByDef ==
    ASSUME NEW R, NEW s \in Seq(R), NEW g
    PROVE  \E f : IsBy(f, g, s, R) /\ By(g, s) = f[Len(s)]
<1> DEFINE N == Len(s)
           Body(f, n) == IF n = 0 THEN <<>>
                         ELSE IF s[n].by = g THEN Append(f[n - 1], s[n]) ELSE f[n - 1]
           Fits(f) == f = [n \in 0..N |-> Body(f, n)]
           step == [n \in 1..N |-> [v \in Seq(R) |-> IF s[n].by = g THEN Append(v, s[n]) ELSE v]]
<1>0. N \in Nat /\ <<>> \in Seq(R)
  OBVIOUS
<1>1. IsStep(step, N, Seq(R))
  BY DEF IsStep
<1>2. PICK f : Takes(f, step, N, Seq(R), <<>>)
  <2> HIDE DEF step, N
  <2> QED  BY <1>0, <1>1, RecursionUpTo
<1>3. \A n \in 0..N : f[n] = Body(f, n)
  <2>1. ASSUME NEW n \in 1..N PROVE f[n] = Body(f, n)
    <3>1. f[n - 1] \in Seq(R) /\ f[n] = step[n][f[n - 1]]
      <4>1. n - 1 \in 0..N
        OBVIOUS
      <4> HIDE DEF step, N
      <4> QED  BY <1>2, <4>1 DEF Takes
    <3>2. step[n] = [v \in Seq(R) |-> IF s[n].by = g THEN Append(v, s[n]) ELSE v]
      OBVIOUS
    <3>3. step[n][f[n - 1]] = IF s[n].by = g THEN Append(f[n - 1], s[n]) ELSE f[n - 1]
      <4> HIDE DEF step
      <4> QED  BY <3>1, <3>2
    <3>4. n # 0
      OBVIOUS
    <3> HIDE DEF step
    <3> QED  BY <3>1, <3>3, <3>4
  <2>2. f[0] = Body(f, 0)
    BY <1>2 DEF Takes
  <2>3. \A n \in 0..N : n = 0 \/ n \in 1..N
    BY <1>0
  <2> HIDE DEF Body, N
  <2> QED  BY <2>1, <2>2, <2>3
<1>5. Fits(f)
  <2>1. f = [n \in 0..N |-> f[n]]
    BY <1>2 DEF Takes
  <2> HIDE DEF Body, N
  <2> QED  BY <1>3, <2>1
<1> DEFINE h == CHOOSE x : Fits(x)
<1>6. By(g, s) = h[Len(s)]
  BY DEF By
<1>7. Fits(h)
  <2> HIDE DEF Fits
  <2> QED  BY <1>5
<1> HIDE DEF h
<1>8. h = [n \in 0..N |-> h[n]] /\ \A n \in 0..N : h[n] = Body(h, n)
  <2> HIDE DEF Body, N
  <2> QED  BY <1>7
<1>9. \A n \in 0..N : h[n] \in Seq(R)
  <2> DEFINE P == {n \in 0..N : h[n] \in Seq(R)}
  <2>1. 0 \in P /\ \A n \in 1..N : n - 1 \in P => n \in P
    BY <1>8
  <2> HIDE DEF P, N
  <2>2. \A n \in 0..N : n \in P
    BY <1>0, <2>1, InductionUpTo
  <2> QED  BY <2>2 DEF P
<1>10. IsBy(h, g, s, R)
  <2>1. h \in [0..N -> Seq(R)]
    BY <1>8, <1>9
  <2>2. h[0] = Body(h, 0) /\ \A n \in 1..N : n # 0 /\ h[n] = Body(h, n)
    <3> HIDE DEF Body
    <3> QED  BY <1>0, <1>8
  <2>3. h[0] = <<>>
    BY <2>2
  <2>4. \A n \in 1..N : h[n] = IF s[n].by = g THEN Append(h[n - 1], s[n]) ELSE h[n - 1]
    BY <2>2
  <2> QED  BY <2>1, <2>3, <2>4 DEF IsBy
<1> HIDE DEF IsBy
<1> QED  BY <1>6, <1>10

\* One record more.
LEMMA ByAppend ==
    ASSUME NEW R, NEW s \in Seq(R), NEW r \in R, NEW g
    PROVE  /\ By(g, s) \in Seq(R)
           /\ By(g, Append(s, r)) = IF r.by = g THEN Append(By(g, s), r) ELSE By(g, s)
<1> DEFINE t == Append(s, r)  N == Len(s)
<1>0. /\ N \in Nat /\ t \in Seq(R) /\ Len(t) = N + 1 /\ t[N + 1] = r
      /\ \A n \in 1..N : t[n] = s[n]
  OBVIOUS
<1> HIDE DEF t
<1>1. PICK f : IsBy(f, g, s, R) /\ By(g, s) = f[N]
  BY ByDef
<1>2. PICK h : IsBy(h, g, t, R) /\ By(g, t) = h[N + 1]
  BY <1>0, ByDef
<1>3. \A n \in 0..N : h[n] = f[n]
  <2> DEFINE P == {n \in 0..N : h[n] = f[n]}
  <2>0. 0 \in P
    BY <1>0, <1>1, <1>2 DEF IsBy
  <2>1. ASSUME NEW n \in 1..N, n - 1 \in P PROVE n \in P
    <3>1. h[n - 1] = f[n - 1] /\ n \in 1..(N + 1)
      BY <2>1, <1>0
    <3>2. f[n] = IF s[n].by = g THEN Append(f[n - 1], s[n]) ELSE f[n - 1]
      BY <1>1 DEF IsBy
    <3>3. h[n] = IF t[n].by = g THEN Append(h[n - 1], t[n]) ELSE h[n - 1]
      BY <1>0, <1>2, <3>1 DEF IsBy
    <3> QED  BY <1>0, <3>1, <3>2, <3>3
  <2> HIDE DEF P, N
  <2>2. \A n \in 0..N : n \in P
    BY <1>0, <2>0, <2>1, InductionUpTo
  <2> QED  BY <2>2 DEF P
<1>4. h[N] = f[N] /\ h[N + 1] = IF r.by = g THEN Append(h[N], r) ELSE h[N]
  <2>1. N + 1 \in 1..Len(t) /\ (N + 1) - 1 = N /\ N \in 0..N
    BY <1>0
  <2> HIDE DEF N
  <2>2. h[N + 1] = IF t[N + 1].by = g THEN Append(h[(N + 1) - 1], t[N + 1]) ELSE h[(N + 1) - 1]
    BY <1>2, <2>1 DEF IsBy
  <2> QED  BY <1>0, <1>3, <2>1, <2>2
<1>5. f[N] \in Seq(R)
  BY <1>0, <1>1 DEF IsBy
<1> QED  BY <1>1, <1>2, <1>4, <1>5 DEF t

\* Nobody has logged anything in no records.
LEMMA ByNone == ASSUME NEW g PROVE By(g, <<>>) = <<>>
<1>1. <<>> \in Seq({}) /\ Len(<<>>) = 0
  OBVIOUS
<1>2. PICK f : IsBy(f, g, <<>>, {}) /\ By(g, <<>>) = f[Len(<<>>)]
  BY <1>1, ByDef
<1> QED  BY <1>1, <1>2 DEF IsBy
\* The records of all the mains and of logx.
Levels == {"Info", "Error", "Slow", "Message", "Stat"}
LogRecord == [level : Levels, by : Loggers, n : Nat, password : BOOLEAN]

\* A goroutine has a record of its own in hand, one at most, and what is in the
\* file and in its hand is what went to the console.
LogInv ==
    /\ program.records \in Seq(Levels) /\ program.records # <<>>
    /\ logged \in [Loggers -> Nat] /\ inHand \in [Loggers -> Seq(LogRecord)]
    /\ buffer \in Seq(LogRecord) /\ console \in Seq(LogRecord) /\ file \in Seq(LogRecord)
    /\ \A g \in Loggers : inHand[g] # <<>> =>
         \E r \in LogRecord : inHand[g] = <<r>> /\ r.by = g
    /\ SameStory

\* The next record of a goroutine names it.
LEMMA NextRecordIsRecord ==
    ASSUME LogInv, NEW g \in Loggers
    PROVE  NextRecord(g) \in LogRecord /\ NextRecord(g).by = g
<1> DEFINE level == IF g = "main" THEN program.records[(logged[g] % Len(program.records)) + 1]
                    ELSE "Stat"
<1>1. level \in Levels
  <2>1. logged[g] \in Nat /\ Len(program.records) \in Nat \ {0}
    BY DEF LogInv
  <2>2. (logged[g] % Len(program.records)) + 1 \in 1..Len(program.records)
    BY <2>1
  <2> HIDE DEF LogInv
  <2>3. program.records[(logged[g] % Len(program.records)) + 1] \in Levels
    BY <2>2 DEF LogInv
  <2>4. CASE g = "main"
    BY <2>3, <2>4
  <2>5. CASE g # "main"
    BY <2>5 DEF Levels
  <2> QED  BY <2>4, <2>5
<1>2. NextRecord(g) = Record(level, g, logged[g])
  BY DEF NextRecord
<1> HIDE DEF level
<1> QED  BY <1>1, <1>2 DEF Record, LogRecord, LogInv

\* A record goes to the console's stream and to the hand, full buffer or not.
LEMMA ToConsoleLogInv ==
    ASSUME LogInv, NEW g \in Loggers, ToConsole(g)
    PROVE  LogInv'
<1> DEFINE r == NextRecord(g)
<1>1. r \in LogRecord /\ r.by = g
  BY NextRecordIsRecord
<1> HIDE DEF r
<1>2. /\ inHand[g] = <<>> /\ inHand' = [inHand EXCEPT ![g] = <<r>>]
      /\ UNCHANGED <<program, file>>
      /\ logged' = [logged EXCEPT ![g] = @ + 1]
  BY DEF ToConsole, MayLog, r
<1>3. /\ buffer' \in Seq(LogRecord) /\ console' \in Seq(LogRecord)
      /\ console' \o buffer' = Append(console \o buffer, r) /\ Len(buffer') <= BufSize + 1
  <2>1. CASE Len(buffer) < BufSize
    <3>1. buffer' = Append(buffer, r) /\ console' = console
      BY <2>1 DEF ToConsole, r
    <3> QED  BY <1>1, <2>1, <3>1, LoggingAssumption DEF LogInv
  <2>2. CASE ~(Len(buffer) < BufSize)
    <3>1. buffer' = <<r>> /\ console' = console \o buffer
      BY <2>2 DEF ToConsole, r
    <3> QED  BY <1>1, <3>1, LoggingAssumption DEF LogInv
  <2> QED  BY <2>1, <2>2
<1>4. ASSUME program.writer = "multi", NEW h \in Loggers
      PROVE  By(h, file) \o inHand'[h] = By(h, Append(console \o buffer, r))
  <2>1. console \o buffer \in Seq(LogRecord) /\ file \in Seq(LogRecord)
    BY DEF LogInv
  <2>2. By(h, file) \in Seq(LogRecord) /\ By(h, console \o buffer) \in Seq(LogRecord)
    BY <1>1, <2>1, ByAppend
  <2>3. By(h, file) \o inHand[h] = By(h, console \o buffer) /\ inHand[h] \in Seq(LogRecord)
    BY <1>4 DEF LogInv, SameStory
  <2>4. By(h, Append(console \o buffer, r)) = IF r.by = h THEN Append(By(h, console \o buffer), r)
                                              ELSE By(h, console \o buffer)
    <3> DEFINE c == console \o buffer
    <3>1. c \in Seq(LogRecord)
      BY <2>1
    <3> HIDE DEF c
    <3>2. By(h, Append(c, r)) = IF r.by = h THEN Append(By(h, c), r) ELSE By(h, c)
      BY <1>1, <3>1, ByAppend
    <3> QED  BY <3>2 DEF c
  <2>5. CASE h = g
    <3>1. By(h, file) = By(h, console \o buffer)
      BY <1>2, <2>2, <2>3, <2>5
    <3>2. inHand'[h] = <<r>>
      BY <1>2, <2>5 DEF LogInv
    <3> QED  BY <1>1, <2>2, <2>4, <2>5, <3>1, <3>2
  <2>6. CASE h # g
    <3>1. inHand'[h] = inHand[h]
      BY <1>2, <2>6 DEF LogInv
    <3> QED  BY <1>1, <2>3, <2>4, <2>6, <3>1
  <2> QED  BY <2>5, <2>6
<1>5. SameStory'
  BY <1>2, <1>3, <1>4 DEF SameStory
<1>6. inHand' \in [Loggers -> Seq(LogRecord)] /\ logged' \in [Loggers -> Nat]
  BY <1>1, <1>2 DEF LogInv
<1>7. \A h \in Loggers : inHand'[h] # <<>> =>
         \E x \in LogRecord : inHand'[h] = <<x>> /\ x.by = h
  BY <1>1, <1>2 DEF LogInv
<1> QED  BY <1>2, <1>3, <1>5, <1>6, <1>7 DEF LogInv

\* It goes from the hand to the file.
LEMMA ToFileLogInv ==
    ASSUME LogInv, NEW g \in Loggers, ToFile(g)
    PROVE  LogInv'
<1>1. PICK r \in LogRecord : inHand[g] = <<r>> /\ r.by = g
  BY DEF LogInv, ToFile
<1>2. /\ file' = file \o <<r>> /\ inHand' = [inHand EXCEPT ![g] = <<>>]
      /\ UNCHANGED <<program, logged, buffer, console>>
  BY <1>1 DEF ToFile
<1>3. file' = Append(file, r) /\ file' \in Seq(LogRecord)
  BY <1>2 DEF LogInv
<1>4. ASSUME program.writer = "multi", NEW h \in Loggers
      PROVE  By(h, file') \o inHand'[h] = By(h, console \o buffer)
  <2>1. By(h, file) \o inHand[h] = By(h, console \o buffer) /\ inHand[h] \in Seq(LogRecord)
    BY <1>4 DEF LogInv, SameStory
  <2>2. /\ By(h, file) \in Seq(LogRecord)
        /\ By(h, file') = IF h = g THEN Append(By(h, file), r) ELSE By(h, file)
    BY <1>1, <1>3, ByAppend DEF LogInv
  <2>3. CASE h = g
    <3>1. inHand'[h] = <<>> /\ inHand[h] = <<r>>
      BY <1>1, <1>2, <2>3 DEF LogInv
    <3> QED  BY <2>1, <2>2, <2>3, <3>1
  <2>4. CASE h # g
    <3>1. inHand'[h] = inHand[h]
      BY <1>2, <2>4 DEF LogInv
    <3> QED  BY <2>1, <2>2, <2>4, <3>1
  <2> QED  BY <2>3, <2>4
<1>5. SameStory'
  BY <1>2, <1>4 DEF SameStory, LogInv
<1>6. inHand' \in [Loggers -> Seq(LogRecord)]
  BY <1>2 DEF LogInv
<1>7. \A h \in Loggers : inHand'[h] # <<>> =>
         \E x \in LogRecord : inHand'[h] = <<x>> /\ x.by = h
  BY <1>2 DEF LogInv
<1> QED  BY <1>2, <1>3, <1>5, <1>6, <1>7 DEF LogInv

\* The other programs have no console.
LEMMA OutputLogInv ==
    ASSUME LogInv, NEW g \in Loggers, Output(g)
    PROVE  LogInv'
<1>1. /\ program.writer # "multi" /\ UNCHANGED <<program, inHand, buffer, console>>
      /\ logged' \in [Loggers -> Nat]
  BY DEF Output, LogInv
<1>2. Mask(NextRecord(g)) \in LogRecord
  BY NextRecordIsRecord DEF Mask, LogRecord
<1>3. file' \in Seq(LogRecord)
  <2>1. \/ \E r \in {Mask(NextRecord(g)), NextRecord(g)} : file' = Append(file, r)
        \/ file' = file
    BY DEF Output
  <2>2. NextRecord(g) \in LogRecord /\ file \in Seq(LogRecord)
    BY NextRecordIsRecord DEF LogInv
  <2> QED  BY <1>2, <2>1, <2>2
<1> QED  BY <1>1, <1>3 DEF LogInv, SameStory

\* The log writers together.
LEMMA LogStep ==
    ASSUME LogInv, [LoggingNext]_logVars
    PROVE  LogInv'
<1>1. CASE UNCHANGED logVars
  BY <1>1 DEF logVars, LogInv, SameStory
<1> QED  BY <1>1, ToConsoleLogInv, ToFileLogInv, OutputLogInv DEF LoggingNext

\* Nothing is logged yet.
LEMMA InitLog == LoggingInit => LogInv
<1> SUFFICES ASSUME LoggingInit PROVE LogInv
  OBVIOUS
<1>1. \A p \in Programs : p.records \in Seq(Levels) /\ p.records # <<>>
  <2>1. \A p \in Programs : p.records \in {AllLevels, <<"Info", "Message", "Info", "Error", "Error">>}
    BY DEF Programs, FileConsoleMain, TokafkaMain, LogrusMain, ZapMain, ZerologMain, FilterMain,
           LogMain
  <2>2. AllLevels \in Seq(Levels) /\ AllLevels # <<>>
    BY DEF AllLevels, Levels
  <2>3. /\ <<"Info", "Message", "Info", "Error", "Error">> \in Seq(Levels)
        /\ <<"Info", "Message", "Info", "Error", "Error">> # <<>>
    BY DEF Levels
  <2> QED  BY <2>1, <2>2, <2>3
<1>2. <<>> \o <<>> = <<>>
  OBVIOUS
<1> QED  BY <1>1, <1>2, ByNone, LoggingAssumption DEF LoggingInit, LogInv, SameStory

-----------------------------------------------------------------------------
(* The text of chat messages *)

Chars == Seq(Char)
\* The lines that a text is split into: one at least.
Lines == Seq(Chars) \ {<<>>}

\* A character more leaves one line at least.
LEMMA AddCharIsLines ==
    ASSUME NEW lines \in Lines, NEW c \in Char
    PROVE  AddChar(lines, c) \in Lines
<1>1. CASE c = Newline
  BY <1>1 DEF AddChar, Lines, Chars
<1>2. CASE c # Newline
  <2>1. lines[Len(lines)] \in Seq(Char) /\ Len(lines) \in 1..Len(lines)
    BY DEF Lines, Chars
  <2>2. Append(lines[Len(lines)], c) \in Chars
    BY <2>1 DEF Chars
  <2>3. AddChar(lines, c) = [lines EXCEPT ![Len(lines)] = Append(lines[Len(lines)], c)]
    BY <1>2, <2>1 DEF AddChar, Lines
  <2> QED  BY <2>1, <2>2, <2>3 DEF Lines
<1> QED  BY <1>1, <1>2

\* f[n] are the lines of the first n characters.
IsSplit(f, t) ==
    /\ f \in [0..Len(t) -> Lines] /\ f[0] = << <<>> >>
    /\ \A n \in 1..Len(t) : f[n] = AddChar(f[n - 1], t[n])

\* Split comes to the last character this way.
LEMMA SplitDef ==
    ASSUME NEW t \in Chars
    PROVE  \E f : IsSplit(f, t) /\ Split(t) = f[Len(t)]
<1> DEFINE N == Len(t)
           base == << <<>> >>
           Body(f, n) == IF n = 0 THEN base ELSE AddChar(f[n - 1], t[n])
           Fits(f) == f = [n \in 0..N |-> Body(f, n)]
           step == [n \in 1..N |-> [v \in Lines |-> AddChar(v, t[n])]]
<1>0. N \in Nat /\ base \in Lines /\ \A n \in 1..N : t[n] \in Char
  BY DEF Lines, Chars
<1>1. IsStep(step, N, Lines)
  <2> HIDE DEF N
  <2> QED  BY <1>0, AddCharIsLines DEF IsStep
<1>2. PICK f : Takes(f, step, N, Lines, base)
  <2> HIDE DEF step, N, base
  <2> QED  BY <1>0, <1>1, RecursionUpTo
<1>3. \A n \in 0..N : f[n] = Body(f, n)
  <2>1. ASSUME NEW n \in 1..N PROVE f[n] = Body(f, n)
    <3>1. n - 1 \in 0..N /\ n # 0
      BY <1>0
    <3>2. f[n - 1] \in Lines /\ f[n] = step[n][f[n - 1]]
      <4> HIDE DEF step, N
      <4> QED  BY <1>2, <3>1 DEF Takes
    <3>3. step[n] = [v \in Lines |-> AddChar(v, t[n])]
      OBVIOUS
    <3>4. step[n][f[n - 1]] = AddChar(f[n - 1], t[n])
      <4> HIDE DEF step
      <4> QED  BY <3>2, <3>3
    <3> HIDE DEF step
    <3> QED  BY <3>1, <3>2, <3>4
  <2>2. f[0] = Body(f, 0)
    BY <1>2 DEF Takes
  <2>3. \A n \in 0..N : n = 0 \/ n \in 1..N
    BY <1>0
  <2> HIDE DEF Body, N
  <2> QED  BY <2>1, <2>2, <2>3
<1>4. Fits(f)
  <2>1. f = [n \in 0..N |-> f[n]]
    BY <1>2 DEF Takes
  <2> HIDE DEF Body, N
  <2> QED  BY <1>3, <2>1
<1> DEFINE h == CHOOSE x : Fits(x)
<1>5. Split(t) = h[Len(t)]
  BY DEF Split
<1>6. Fits(h)
  <2> HIDE DEF Fits
  <2> QED  BY <1>4
<1> HIDE DEF h
<1>7. h = [n \in 0..N |-> h[n]] /\ \A n \in 0..N : h[n] = Body(h, n)
  <2> HIDE DEF Body, N
  <2> QED  BY <1>6
<1>8. h[0] = base /\ \A n \in 1..N : h[n] = AddChar(h[n - 1], t[n])
  <2>1. h[0] = Body(h, 0) /\ \A n \in 1..N : n # 0 /\ h[n] = Body(h, n)
    <3> HIDE DEF Body
    <3> QED  BY <1>0, <1>7
  <2> QED  BY <2>1
<1>9. \A n \in 0..N : h[n] \in Lines
  <2> DEFINE P == {n \in 0..N : h[n] \in Lines}
  <2>1. 0 \in P
    BY <1>0, <1>8
  <2>2. \A n \in 1..N : n - 1 \in P => n \in P
    <3> HIDE DEF N, base
    <3> QED  BY <1>0, <1>8, AddCharIsLines
  <2> HIDE DEF P, N
  <2>3. \A n \in 0..N : n \in P
    BY <1>0, <2>1, <2>2, InductionUpTo
  <2> QED  BY <2>3 DEF P
<1>10. IsSplit(h, t)
  <2>1. h \in [0..N -> Lines]
    <3> HIDE DEF N, Body
    <3> QED  BY <1>7, <1>9
  <2> QED  BY <2>1, <1>8 DEF IsSplit
<1> HIDE DEF IsSplit
<1> QED  BY <1>5, <1>10

\* One character more.
LEMMA SplitAppend ==
    ASSUME NEW t \in Chars, NEW c \in Char
    PROVE  Split(t) \in Lines /\ Split(Append(t, c)) = AddChar(Split(t), c)
<1> DEFINE u == Append(t, c)  N == Len(t)
<1>0. /\ N \in Nat /\ u \in Chars /\ Len(u) = N + 1 /\ u[N + 1] = c
      /\ \A n \in 1..N : u[n] = t[n]
  BY DEF Chars
<1> HIDE DEF u
<1>1. PICK f : IsSplit(f, t) /\ Split(t) = f[N]
  BY SplitDef
<1>2. PICK h : IsSplit(h, u) /\ Split(u) = h[N + 1]
  BY <1>0, SplitDef
<1>3. \A n \in 0..N : h[n] = f[n]
  <2> DEFINE P == {n \in 0..N : h[n] = f[n]}
  <2>1. 0 \in P
    BY <1>0, <1>1, <1>2 DEF IsSplit
  <2>2. ASSUME NEW n \in 1..N, n - 1 \in P PROVE n \in P
    <3>1. h[n - 1] = f[n - 1] /\ n \in 1..(N + 1)
      BY <2>2, <1>0
    <3>2. f[n] = AddChar(f[n - 1], t[n])
      BY <1>1 DEF IsSplit
    <3>3. h[n] = AddChar(h[n - 1], u[n])
      BY <1>0, <1>2, <3>1 DEF IsSplit
    <3> QED  BY <1>0, <3>1, <3>2, <3>3
  <2> HIDE DEF P, N
  <2>3. \A n \in 0..N : n \in P
    BY <1>0, <2>1, <2>2, InductionUpTo
  <2> QED  BY <2>3 DEF P
<1>4. h[N] = f[N] /\ h[N + 1] = AddChar(h[N], c)
  <2>1. N + 1 \in 1..Len(u) /\ (N + 1) - 1 = N /\ N \in 0..N
    BY <1>0
  <2> HIDE DEF N
  <2> QED  BY <1>0, <1>2, <1>3, <2>1 DEF IsSplit
<1>5. f[N] \in Lines
  BY <1>0, <1>1 DEF IsSplit
<1> QED  BY <1>1, <1>2, <1>4, <1>5 DEF u

\* The empty text is one empty line.
LEMMA SplitNone == Split(<<>>) = << <<>> >>
<1>1. <<>> \in Chars /\ Len(<<>>) = 0
  BY DEF Chars
<1>2. PICK f : IsSplit(f, <<>>) /\ Split(<<>>) = f[Len(<<>>)]
  BY <1>1, SplitDef
<1> QED  BY <1>1, <1>2 DEF IsSplit

\* A text without a newline.
OneLine == {m \in Chars : \A j \in 1..Len(m) : m[j] # Newline}

\* It goes to the end of the last line.
LEMMA SplitRest ==
    ASSUME NEW u \in Chars, NEW S \in Seq(Chars), NEW m \in OneLine, Split(u) = Append(S, <<>>)
    PROVE  Split(u \o m) = Append(S, m)
<1> DEFINE N == Len(m)
           head(k) == SubSeq(m, 1, k)
           P == {k \in 0..N : Split(u \o head(k)) = Append(S, head(k))}
<1>0. N \in Nat /\ m \in Chars
  BY DEF OneLine, Chars
<1>1. 0 \in P
  <2>1. head(0) = <<>> /\ u \o <<>> = u
    BY <1>0 DEF Chars
  <2> HIDE DEF head
  <2>2. Split(u \o head(0)) = Append(S, head(0))
    BY <2>1
  <2> HIDE DEF N
  <2> QED  BY <1>0, <2>2
<1>2. ASSUME NEW k \in 1..N, k - 1 \in P PROVE k \in P
  <2>1. /\ head(k - 1) \in Chars /\ m[k] \in Char /\ m[k] # Newline
        /\ head(k) = Append(head(k - 1), m[k])
    <3>1. m[k] \in Char /\ m[k] # Newline
      BY DEF OneLine, Chars
    <3>2. head(k) = head(k - 1) \o <<m[k]>>
      BY <1>0, SubSeqRecursiveSecond DEF Chars
    <3>3. head(k - 1) \in Chars
      BY <1>0 DEF Chars
    <3> HIDE DEF head
    <3> QED  BY <3>1, <3>2, <3>3 DEF Chars
  <2> HIDE DEF head
  <2>2. u \o head(k - 1) \in Chars /\ u \o head(k) = Append(u \o head(k - 1), m[k])
    BY <2>1 DEF Chars
  <2>3. Split(u \o head(k)) = AddChar(Split(u \o head(k - 1)), m[k])
    BY <2>1, <2>2, SplitAppend
  <2>4. AddChar(Append(S, head(k - 1)), m[k]) = Append(S, Append(head(k - 1), m[k]))
    <3> DEFINE a == Append(S, head(k - 1))
    <3>1. a \in Seq(Chars) /\ Len(a) = Len(S) + 1 /\ a[Len(a)] = head(k - 1)
      BY <2>1 DEF Chars
    <3> HIDE DEF a
    <3>2. AddChar(a, m[k]) = [a EXCEPT ![Len(a)] = Append(a[Len(a)], m[k])]
      BY <2>1, <3>1 DEF AddChar
    <3> DEFINE e == Append(head(k - 1), m[k])
               b == [a EXCEPT ![Len(a)] = e]
               d == Append(S, e)
    <3>3. e \in Chars
      BY <2>1 DEF Chars
    <3> HIDE DEF e
    <3>4. /\ b \in Seq(Chars) /\ Len(b) = Len(S) + 1
          /\ \A j \in 1..Len(b) : b[j] = IF j = Len(S) + 1 THEN e ELSE a[j]
      BY <3>1, <3>3, ExceptSeq
    <3>5. /\ d \in Seq(Chars) /\ Len(d) = Len(S) + 1
          /\ \A j \in 1..Len(d) : d[j] = IF j = Len(S) + 1 THEN e ELSE S[j]
      BY <3>3
    <3>6. \A j \in 1..Len(S) : a[j] = S[j]
      BY <2>1 DEF a
    <3>7. b = d
      <4> HIDE DEF b, d
      <4>1. \A j \in 1..Len(b) : b[j] = d[j]
        BY <3>4, <3>5, <3>6
      <4> QED  BY <3>4, <3>5, <4>1, SeqEqual
    <3> QED  BY <3>1, <3>2, <3>7 DEF a, e
  <2>5. Split(u \o head(k)) = Append(S, head(k))
    BY <1>2, <2>1, <2>3, <2>4
  <2> QED  BY <2>5
<1> HIDE DEF P, N
<1>3. \A k \in 0..N : k \in P
  BY <1>0, <1>1, <1>2, InductionUpTo
<1>4. head(N) = m
  BY <1>0 DEF Chars, N
<1> HIDE DEF head
<1> QED  BY <1>0, <1>3, <1>4 DEF P
\* f[n] is the frame of the first message and n more.
IsJoined(f, ms) ==
    /\ f \in [0..(Len(ms) - 1) -> Chars] /\ f[0] = ms[1]
    /\ \A n \in 1..(Len(ms) - 1) : f[n] = AddMessage(f[n - 1], ms[n + 1])

\* Joined comes to the last message this way.
LEMMA JoinedDef ==
    ASSUME NEW ms \in Seq(Chars), ms # <<>>
    PROVE  \E f : IsJoined(f, ms) /\ Joined(ms) = f[Len(ms) - 1]
<1> DEFINE N == Len(ms) - 1
           base == ms[1]
           Body(f, n) == IF n = 0 THEN base ELSE AddMessage(f[n - 1], ms[n + 1])
           Fits(f) == f = [n \in 0..N |-> Body(f, n)]
           step == [n \in 1..N |-> [v \in Chars |-> AddMessage(v, ms[n + 1])]]
<1>0. N \in Nat /\ base \in Chars /\ \A n \in 1..N : ms[n + 1] \in Chars
  OBVIOUS
<1>a. \A v, m \in Chars : AddMessage(v, m) \in Chars
  BY DEF AddMessage, Chars, Char
<1>1. IsStep(step, N, Chars)
  <2> HIDE DEF N
  <2> QED  BY <1>0, <1>a DEF IsStep
<1>2. PICK f : Takes(f, step, N, Chars, base)
  <2> HIDE DEF step, N, base
  <2> QED  BY <1>0, <1>1, RecursionUpTo
<1>3. \A n \in 0..N : f[n] = Body(f, n)
  <2>1. ASSUME NEW n \in 1..N PROVE f[n] = Body(f, n)
    <3>1. n - 1 \in 0..N /\ n # 0
      BY <1>0
    <3>2. f[n - 1] \in Chars /\ f[n] = step[n][f[n - 1]]
      <4> HIDE DEF step, N
      <4> QED  BY <1>2, <3>1 DEF Takes
    <3>3. step[n] = [v \in Chars |-> AddMessage(v, ms[n + 1])]
      OBVIOUS
    <3>4. step[n][f[n - 1]] = AddMessage(f[n - 1], ms[n + 1])
      <4> HIDE DEF step
      <4> QED  BY <3>2, <3>3
    <3> HIDE DEF step
    <3> QED  BY <3>1, <3>2, <3>4
  <2>2. f[0] = Body(f, 0)
    BY <1>2 DEF Takes
  <2>3. \A n \in 0..N : n = 0 \/ n \in 1..N
    BY <1>0
  <2> HIDE DEF Body, N
  <2> QED  BY <2>1, <2>2, <2>3
<1>4. Fits(f)
  <2>1. f = [n \in 0..N |-> f[n]]
    BY <1>2 DEF Takes
  <2> HIDE DEF Body, N
  <2> QED  BY <1>3, <2>1
<1> DEFINE h == CHOOSE x : Fits(x)
<1>5. Joined(ms) = h[Len(ms) - 1]
  BY DEF Joined
<1>6. Fits(h)
  <2> HIDE DEF Fits
  <2> QED  BY <1>4
<1> HIDE DEF h
<1>7. h = [n \in 0..N |-> h[n]] /\ \A n \in 0..N : h[n] = Body(h, n)
  <2> HIDE DEF Body, N
  <2> QED  BY <1>6
<1>8. h[0] = base /\ \A n \in 1..N : h[n] = AddMessage(h[n - 1], ms[n + 1])
  <2>1. h[0] = Body(h, 0) /\ \A n \in 1..N : n # 0 /\ h[n] = Body(h, n)
    <3> HIDE DEF Body
    <3> QED  BY <1>0, <1>7
  <2> QED  BY <2>1
<1>9. \A n \in 0..N : h[n] \in Chars
  <2> DEFINE P == {n \in 0..N : h[n] \in Chars}
  <2>1. 0 \in P
    BY <1>0, <1>8
  <2>2. \A n \in 1..N : n - 1 \in P => n \in P
    <3> HIDE DEF N, base
    <3> QED  BY <1>0, <1>8, <1>a
  <2> HIDE DEF P, N
  <2>3. \A n \in 0..N : n \in P
    BY <1>0, <2>1, <2>2, InductionUpTo
  <2> QED  BY <2>3 DEF P
<1>10. IsJoined(h, ms)
  <2>1. h \in [0..N -> Chars]
    <3> HIDE DEF N, Body
    <3> QED  BY <1>7, <1>9
  <2> QED  BY <2>1, <1>8 DEF IsJoined
<1> HIDE DEF IsJoined
<1> QED  BY <1>5, <1>10

\* What the page makes of a frame are the messages that were put into it.
LEMMA SplitJoined ==
    ASSUME NEW ms \in Seq(OneLine), ms # <<>>
    PROVE  Joined(ms) \in Chars /\ Split(Joined(ms)) = ms
<1> DEFINE N == Len(ms) - 1
<1>0. N \in Nat /\ ms \in Seq(Chars) /\ Newline \in Char
  <2>1. OneLine \subseteq Chars
    BY DEF OneLine
  <2>2. ms \in Seq(Chars)
    BY <2>1, SeqMonotonic
  <2> QED  BY <2>2 DEF Char
<1>1. PICK f : IsJoined(f, ms) /\ Joined(ms) = f[N]
  BY <1>0, JoinedDef
<1>a. f[0] = ms[1] /\ \A n \in 0..N : f[n] \in Chars
  BY <1>1 DEF IsJoined
<1> DEFINE head(n) == SubSeq(ms, 1, n + 1)
           P == {n \in 0..N : Split(f[n]) = head(n)}
<1>2. 0 \in P
  <2>1. ms[1] \in OneLine /\ head(0) = <<ms[1]>>
    <3>1. SubSeq(ms, 1, 1) = SubSeq(ms, 1, 0) \o <<ms[1]>>
      BY <1>0, SubSeqRecursiveSecond
    <3>2. SubSeq(ms, 1, 0) = <<>> /\ ms[1] \in OneLine
      BY SubSeqEmpty
    <3>3. <<ms[1]>> \in Seq(Chars)
      BY <3>2 DEF OneLine
    <3>4. <<>> \o <<ms[1]>> = <<ms[1]>>
      BY <3>3, ConcatEmptySeq
    <3>5. head(0) = SubSeq(ms, 1, 1)
      OBVIOUS
    <3> QED  BY <3>1, <3>2, <3>4, <3>5
  <2>2. <<>> \in Chars /\ <<>> \in Seq(Chars) /\ Split(<<>>) = Append(<<>>, <<>>)
    BY SplitNone DEF Chars
  <2>3. Split(<<>> \o ms[1]) = Append(<<>>, ms[1])
    BY <2>1, <2>2, SplitRest
  <2>4. <<>> \o ms[1] = ms[1]
    BY <2>1 DEF OneLine, Chars
  <2>5. Split(ms[1]) = <<ms[1]>>
    BY <2>3, <2>4
  <2> HIDE DEF N, head
  <2> QED  BY <1>0, <1>a, <2>1, <2>5
<1>3. ASSUME NEW n \in 1..N, n - 1 \in P PROVE n \in P
  <2> DEFINE u == Append(f[n - 1], Newline)
             m == ms[n + 1]
  <2>1. f[n - 1] \in Chars /\ m \in OneLine /\ m \in Chars /\ n \in 0..N
    BY <1>0, <1>a
  <2>2. f[n] = u \o m
    <3>1. f[n] = f[n - 1] \o <<Newline>> \o m
      BY <1>1 DEF IsJoined, AddMessage
    <3>2. f[n - 1] \o <<Newline>> = u
      BY <1>0, <2>1 DEF Chars
    <3> QED  BY <3>1, <3>2
  <2>3. head(n - 1) \in Seq(Chars) /\ head(n) = Append(head(n - 1), m)
    <3>1. head(n) = head(n - 1) \o <<m>>
      BY <1>0, SubSeqRecursiveSecond
    <3>2. head(n - 1) \in Seq(Chars)
      BY <1>0
    <3> HIDE DEF head, m
    <3> QED  BY <2>1, <3>1, <3>2
  <2> HIDE DEF head, m
  <2>4. Split(u) = Append(head(n - 1), <<>>) /\ u \in Chars
    <3>1. Split(u) = AddChar(Split(f[n - 1]), Newline)
      BY <1>0, <2>1, SplitAppend
    <3>2. u \in Chars
      BY <1>0, <2>1 DEF Chars
    <3>3. Split(f[n - 1]) = head(n - 1)
      BY <1>3
    <3> QED  BY <3>1, <3>2, <3>3 DEF AddChar
  <2> HIDE DEF u
  <2>5. Split(u \o m) = Append(head(n - 1), m)
    BY <2>1, <2>3, <2>4, SplitRest
  <2>6. Split(f[n]) = head(n)
    BY <2>2, <2>3, <2>5
  <2> QED  BY <2>1, <2>6
<1> HIDE DEF P, N
<1>4. \A n \in 0..N : n \in P
  BY <1>0, <1>2, <1>3, InductionUpTo
<1>5. head(N) = ms
  BY <1>0 DEF N
<1> HIDE DEF head
<1>6. N \in 0..N
  BY <1>0
<1> QED  BY <1>1, <1>a, <1>4, <1>5, <1>6 DEF P

\* readPump makes a line of any text.
LEMMA NormaliseIsLine ==
    ASSUME NEW t \in Text
    PROVE  Normalise(t) \in Line /\ Normalise(t) \in OneLine
<1> DEFINE r == ReplaceNewlines(t)
           kept == {j \in DOMAIN r : r[j] = Letter}
<1>1. PICK n \in 0..MaxLen : t \in [1..n -> Char]
  BY DEF Text
<1>2. n \in Nat /\ n <= MaxLen
  BY FramingAssumption
<1>3. /\ r \in [1..n -> Char] /\ DOMAIN r = 1..n /\ \A j \in 1..n : r[j] # Newline
  BY <1>1 DEF ReplaceNewlines, Char, Newline, Space, Letter
<1>4. Normalise(t) = IF kept = {} THEN <<>> ELSE SubSeq(r, Min(kept), Max(kept))
  BY DEF Normalise, TrimSpace
<1> HIDE DEF r
<1>5. CASE kept = {}
  <2>1. <<>> \in [1..0 -> Char] /\ 0 \in 0..MaxLen /\ Range(<<>>) = {} /\ Len(<<>>) = 0
    BY FramingAssumption DEF Range
  <2>2. <<>> \in Text
    BY <2>1 DEF Text
  <2> QED  BY <1>4, <1>5, <2>1, <2>2 DEF Line, OneLine, Chars
<1>6. CASE kept # {}
  <2> DEFINE a == Min(kept)  b == Max(kept)  s == SubSeq(r, a, b)
  <2>1. kept \in SUBSET Nat /\ kept \subseteq 1..n
    BY <1>2, <1>3
  <2> HIDE DEF kept
  <2>2. a \in kept /\ \A j \in kept : a <= j
    <3>1. \E x \in kept : \A y \in kept : x <= y
      BY <1>6, <2>1, LeastElement
    <3> QED  BY <3>1 DEF Min
  <2>3. b \in kept /\ \A j \in kept : b >= j
    <3>1. \A j \in kept : j <= n
      BY <1>2, <2>1
    <3>2. \E x \in kept : \A y \in kept : y <= x
      BY <1>2, <1>6, <2>1, <3>1, GreatestElement
    <3>3. \E x \in kept : \A y \in kept : x >= y
      BY <2>1, <3>2
    <3> QED  BY <3>3 DEF Max
  <2>4. a \in 1..n /\ b \in 1..n /\ a <= b /\ r[a] = Letter /\ r[b] = Letter
    BY <2>1, <2>2, <2>3 DEF kept
  <2>5. Normalise(t) = s
    BY <1>4, <1>6
  <2> HIDE DEF a, b
  <2>6. /\ s \in Seq(Char) /\ Len(s) = b - a + 1
        /\ \A j \in 1..(b - a + 1) : s[j] = r[a + j - 1]
    <3>1. \A j \in a..b : r[j] \in Char
      BY <1>2, <1>3, <2>4
    <3>2. a \in Int /\ b \in Int
      BY <2>4
    <3> QED  BY <2>4, <3>1, <3>2, SubSeqProperties
  <2> HIDE DEF s
  <2>7. Len(s) \in 0..MaxLen /\ s \in [1..Len(s) -> Char]
    BY <1>2, <2>4, <2>6, FramingAssumption
  <2>8. \A j \in 1..Len(s) : s[j] # Newline
    <3>1. \A j \in 1..Len(s) : a + j - 1 \in 1..n
      BY <1>2, <2>4, <2>6
    <3> QED  BY <1>3, <2>6, <3>1
  <2>9. Newline \notin Range(s)
    BY <2>7, <2>8 DEF Range
  <2>10. s[1] = Letter /\ s[Len(s)] = Letter
    <3>1. 1 \in 1..(b - a + 1) /\ b - a + 1 \in 1..(b - a + 1) /\ a + 1 - 1 = a /\ a + (b - a + 1) - 1 = b
      BY <1>2, <2>4
    <3> QED  BY <2>4, <2>6, <3>1
  <2> QED  BY <2>5, <2>6, <2>7, <2>8, <2>9, <2>10 DEF Line, Text, OneLine, Chars
<1> QED  BY <1>5, <1>6

\* Where the frames on the wire begin and end in what was said: frame j holds
\* the messages after the b[j - 1]-th, up to the b[j]-th.
Frames(b) ==
    /\ b \in [0..Len(wire) -> 0..Len(said)]
    /\ b[0] = Len(screen) /\ b[Len(wire)] = Len(said) - Len(queue)
    /\ \A j \in 1..Len(wire) :
         /\ b[j - 1] <= b[j]
         /\ Split(wire[j]) = [k \in 1..(b[j] - b[j - 1]) |-> said[b[j - 1] + k]]

\* What is on the screen, in the frames and in the queue is what was said.
FramingInv ==
    /\ said \in Seq(Line \cap OneLine) /\ queue \in Seq(Line \cap OneLine)
    /\ screen \in Seq(Line \cap OneLine) /\ wire \in Seq(Chars)
    /\ Len(queue) <= Len(said) /\ Len(screen) <= Len(said)
    /\ \A k \in 1..Len(screen) : screen[k] = said[k]
    /\ \A k \in 1..Len(queue) : queue[k] = said[Len(said) - Len(queue) + k]
    /\ \E b : Frames(b)

\* Nothing was said yet.
LEMMA InitFraming == FramingInit => FramingInv
<1> SUFFICES ASSUME FramingInit PROVE FramingInv
  OBVIOUS
<1>1. Frames([j \in 0..0 |-> 0])
  BY DEF FramingInit, Frames
<1> HIDE DEF Frames
<1> QED  BY <1>1 DEF FramingInit, FramingInv

\* What is read goes to the end of the queue and of what was said.
LEMMA ReadPumpInv ==
    ASSUME FramingInv, NEW t \in Text, ReadPump(t)
    PROVE  FramingInv'
<1> DEFINE m == Normalise(t)
           R == Line \cap OneLine
<1>1. m \in R
  BY NormaliseIsLine
<1>2. queue' = Append(queue, m) /\ said' = Append(said, m) /\ UNCHANGED <<wire, screen>>
  BY DEF ReadPump
<1> HIDE DEF m
<1>3. /\ said \in Seq(R) /\ queue \in Seq(R) /\ screen \in Seq(R) /\ wire \in Seq(Chars)
      /\ Len(queue) <= Len(said) /\ Len(screen) <= Len(said)
      /\ \A k \in 1..Len(screen) : screen[k] = said[k]
      /\ \A k \in 1..Len(queue) : queue[k] = said[Len(said) - Len(queue) + k]
  BY DEF FramingInv
<1> HIDE DEF R
<1>4. /\ said' \in Seq(R) /\ queue' \in Seq(R) /\ Len(said') = Len(said) + 1
      /\ Len(queue') = Len(queue) + 1
      /\ \A k \in 1..Len(said) : said'[k] = said[k]
      /\ \A k \in 1..Len(queue) : queue'[k] = queue[k]
      /\ said'[Len(said) + 1] = m /\ queue'[Len(queue) + 1] = m
  BY <1>1, <1>2, <1>3
<1>5. \A k \in 1..Len(queue') : queue'[k] = said'[Len(said') - Len(queue') + k]
  <2>0. Len(said') - Len(queue') = Len(said) - Len(queue)
    BY <1>3, <1>4
  <2> SUFFICES ASSUME NEW k \in 1..(Len(queue) + 1)
               PROVE  queue'[k] = said'[Len(said) - Len(queue) + k]
    BY <1>4, <2>0
  <2>1. CASE k = Len(queue) + 1
    <3>1. Len(said) - Len(queue) + k = Len(said) + 1
      BY <1>3, <2>1
    <3> QED  BY <1>4, <2>1, <3>1
  <2>2. CASE k \in 1..Len(queue)
    <3>1. Len(said) - Len(queue) + k \in 1..Len(said)
      BY <1>3, <2>2
    <3> QED  BY <1>3, <1>4, <2>2, <3>1
  <2> QED  BY <1>3, <2>1, <2>2
<1>6. PICK b : Frames(b)
  BY DEF FramingInv
<1>7. Frames(b)'
  <2>1. Len(said') - Len(queue') = Len(said) - Len(queue) /\ 0..Len(said) \subseteq 0..Len(said')
    BY <1>3, <1>4
  <2>2. b \in [0..Len(wire) -> 0..Len(said')]
    BY <1>6, <2>1 DEF Frames
  <2>3. ASSUME NEW j \in 1..Len(wire)
        PROVE  Split(wire[j]) = [k \in 1..(b[j] - b[j - 1]) |-> said'[b[j - 1] + k]]
    <3>1. b[j - 1] \in 0..Len(said) /\ b[j] \in 0..Len(said)
      <4>1. Len(wire) \in Nat
        BY <1>3
      <4>2. j - 1 \in 0..Len(wire) /\ j \in 0..Len(wire)
        BY <4>1
      <4>3. b \in [0..Len(wire) -> 0..Len(said)]
        BY <1>6 DEF Frames
      <4> QED  BY <4>2, <4>3
    <3>2. \A k \in 1..(b[j] - b[j - 1]) : said'[b[j - 1] + k] = said[b[j - 1] + k]
      <4>1. \A k \in 1..(b[j] - b[j - 1]) : b[j - 1] + k \in 1..Len(said)
        BY <1>3, <3>1
      <4> QED  BY <1>4, <4>1
    <3>3. Split(wire[j]) = [k \in 1..(b[j] - b[j - 1]) |-> said[b[j - 1] + k]]
      BY <1>6 DEF Frames
    <3> QED  BY <3>2, <3>3
  <2> QED  BY <1>2, <1>6, <2>1, <2>2, <2>3 DEF Frames
<1>8. \A k \in 1..Len(screen) : screen[k] = said'[k]
  BY <1>3, <1>4
<1>9. Len(queue') <= Len(said') /\ Len(screen) <= Len(said')
  BY <1>3, <1>4
<1> HIDE DEF Frames
<1> QED  BY <1>2, <1>3, <1>4, <1>5, <1>7, <1>8, <1>9 DEF FramingInv, R

\* The beginning of the queue becomes one more frame.
LEMMA WritePumpInv ==
    ASSUME FramingInv, WritePump
    PROVE  FramingInv'
<1> DEFINE R == Line \cap OneLine
           L == Len(wire)  Q == Len(queue)  S == Len(said)
<1>1. PICK n \in 0..(Q - 1) :
        /\ wire' = Append(wire, Joined(SubSeq(queue, 1, n + 1)))
        /\ queue' = SubSeq(queue, n + 2, Q)
  BY DEF WritePump
<1>2. queue # <<>> /\ UNCHANGED <<screen, said>>
  BY DEF WritePump
<1>3. /\ said \in Seq(R) /\ queue \in Seq(R) /\ screen \in Seq(R) /\ wire \in Seq(Chars)
      /\ Q <= S /\ Len(screen) <= S
      /\ \A k \in 1..Len(screen) : screen[k] = said[k]
      /\ \A k \in 1..Q : queue[k] = said[S - Q + k]
  BY DEF FramingInv
<1>4. R \subseteq OneLine
  OBVIOUS
<1> HIDE DEF R
<1>5. L \in Nat /\ Q \in Nat /\ S \in Nat /\ n \in Nat /\ n < Q
  BY <1>1, <1>3
<1> DEFINE ms == SubSeq(queue, 1, n + 1)
<1>6. ms \in Seq(OneLine) /\ Len(ms) = n + 1 /\ \A k \in 1..(n + 1) : ms[k] = queue[k]
  BY <1>3, <1>4, <1>5, SubSeqProperties
<1> HIDE DEF ms
<1>7. Joined(ms) \in Chars /\ Split(Joined(ms)) = ms
  BY <1>5, <1>6, SplitJoined
<1>8. /\ wire' = Append(wire, Joined(ms)) /\ wire' \in Seq(Chars) /\ Len(wire') = L + 1
      /\ wire'[L + 1] = Joined(ms) /\ \A j \in 1..L : wire'[j] = wire[j]
  BY <1>1, <1>3, <1>7 DEF ms
<1>9. /\ queue' \in Seq(R) /\ Len(queue') = Q - (n + 1)
      /\ \A k \in 1..Len(queue') : queue'[k] = queue[n + 1 + k]
  BY <1>1, <1>3, <1>5, SubSeqProperties
<1>10. \A k \in 1..Len(queue') : queue'[k] = said[S - Len(queue') + k]
  BY <1>3, <1>5, <1>9
<1>11. PICK b : Frames(b)
  BY DEF FramingInv
<1>a. PICK c : c = [j \in 0..(L + 1) |-> IF j = L + 1 THEN S - Q + n + 1 ELSE b[j]]
  OBVIOUS
<1>12. Frames(c)'
  <2>1. b \in [0..L -> 0..S] /\ b[L] = S - Q
    BY <1>11 DEF Frames
  <2>2. c \in [0..(L + 1) -> 0..S] /\ c[L + 1] = S - Len(queue') /\ c[L] = S - Q /\ c[0] = b[0]
    <3>1. S - Q + n + 1 \in 0..S /\ S - Q + n + 1 = S - Len(queue')
      <4>1. Q <= S /\ Len(queue') = Q - (n + 1)
        BY <1>3, <1>9
      <4> HIDE DEF L, Q, S
      <4> QED  BY <1>5, <4>1
    <3>2. \A j \in 0..(L + 1) : (IF j = L + 1 THEN S - Q + n + 1 ELSE b[j]) \in 0..S
      BY <1>5, <2>1, <3>1
    <3>3. c \in [0..(L + 1) -> 0..S]
      BY <1>a, <3>2
    <3>4. /\ 0 \in 0..(L + 1) /\ L \in 0..(L + 1) /\ L + 1 \in 0..(L + 1)
          /\ 0 # L + 1 /\ L # L + 1
      BY <1>5
    <3>5. c[L + 1] = S - Q + n + 1 /\ c[L] = b[L] /\ c[0] = b[0]
      BY <1>a, <3>4
    <3> QED  BY <2>1, <3>1, <3>3, <3>5
  <2>3. \A j \in 0..L : c[j] = b[j]
    BY <1>5, <1>a
  <2>4. c[L + 1] - c[L] = n + 1 /\ c[L] <= c[L + 1]
    BY <1>5, <1>9, <2>2
  <2>5. ASSUME NEW j \in 1..L
        PROVE  /\ c[j - 1] <= c[j]
               /\ Split(wire'[j]) = [k \in 1..(c[j] - c[j - 1]) |-> said[c[j - 1] + k]]
    <3>1. c[j] = b[j] /\ c[j - 1] = b[j - 1]
      BY <1>5, <2>3
    <3> QED  BY <1>8, <1>11, <3>1 DEF Frames
  <2>6. Split(wire'[L + 1]) = [k \in 1..(c[L + 1] - c[L]) |-> said[c[L] + k]]
    <3>1. ms = [k \in 1..(n + 1) |-> said[S - Q + k]]
      <4>1. \A k \in 1..(n + 1) : ms[k] = said[S - Q + k]
        BY <1>3, <1>5, <1>6
      <4>2. ms = [k \in 1..(n + 1) |-> ms[k]]
        BY <1>6
      <4> QED  BY <4>1, <4>2
    <3> QED  BY <1>7, <1>8, <2>2, <2>4, <3>1
  <2>7. ASSUME NEW j \in 1..(L + 1)
        PROVE  /\ c[j - 1] <= c[j]
               /\ Split(wire'[j]) = [k \in 1..(c[j] - c[j - 1]) |-> said[c[j - 1] + k]]
    <3>1. CASE j = L + 1
      <4>1. j - 1 = L
        BY <1>5, <3>1
      <4> QED  BY <2>4, <2>6, <3>1, <4>1
    <3>2. CASE j \in 1..L
      BY <2>5, <3>2
    <3> QED  BY <1>5, <3>1, <3>2
  <2>8. c[0] = Len(screen)
    BY <1>11, <2>2 DEF Frames
  <2> QED  BY <1>2, <1>8, <2>2, <2>7, <2>8 DEF Frames
<1> HIDE DEF Frames
<1>13. Len(queue') <= S
  BY <1>3, <1>5, <1>9
<1> QED  BY <1>2, <1>3, <1>8, <1>9, <1>10, <1>12, <1>13 DEF FramingInv, R

\* The first frame goes to the screen.
LEMMA OnMessageInv ==
    ASSUME FramingInv, OnMessage
    PROVE  FramingInv'
<1> DEFINE R == Line \cap OneLine
           L == Len(wire)  S == Len(said)  lines == Split(Head(wire))
<1>1. /\ wire # <<>> /\ screen' = screen \o lines /\ wire' = Tail(wire)
      /\ UNCHANGED <<queue, said>>
  BY DEF OnMessage
<1>2. /\ said \in Seq(R) /\ queue \in Seq(R) /\ screen \in Seq(R) /\ wire \in Seq(Chars)
      /\ Len(queue) <= S /\ Len(screen) <= S
      /\ \A k \in 1..Len(screen) : screen[k] = said[k]
      /\ \A k \in 1..Len(queue) : queue[k] = said[S - Len(queue) + k]
  BY DEF FramingInv
<1> HIDE DEF R
<1>3. /\ L \in Nat \ {0} /\ S \in Nat /\ Head(wire) = wire[1]
      /\ wire' \in Seq(Chars) /\ Len(wire') = L - 1 /\ \A j \in 1..(L - 1) : wire'[j] = wire[j + 1]
  BY <1>1, <1>2
<1>4. PICK b : Frames(b)
  BY DEF FramingInv
<1>5. /\ b \in [0..L -> 0..S] /\ b[0] = Len(screen) /\ b[L] = S - Len(queue)
      /\ \A j \in 1..L : /\ b[j - 1] <= b[j]
                         /\ Split(wire[j]) = [k \in 1..(b[j] - b[j - 1]) |-> said[b[j - 1] + k]]
  BY <1>4 DEF Frames
<1>6. /\ b[1] \in 0..S /\ b[0] \in 0..S /\ b[0] <= b[1]
      /\ lines = [k \in 1..(b[1] - b[0]) |-> said[b[0] + k]]
  <2>1. 1 \in 1..L /\ 1 - 1 = 0 /\ 0 \in 0..L /\ 1 \in 0..L
    BY <1>3
  <2>2. b[0] <= b[1] /\ Split(wire[1]) = [k \in 1..(b[1] - b[0]) |-> said[b[0] + k]]
    <3>1. /\ b[1 - 1] <= b[1]
          /\ Split(wire[1]) = [k \in 1..(b[1] - b[1 - 1]) |-> said[b[1 - 1] + k]]
      BY <1>5, <2>1
    <3> QED  BY <2>1, <3>1
  <2> QED  BY <1>3, <1>5, <2>1, <2>2
<1> HIDE DEF lines
<1>7. /\ lines \in Seq(R) /\ Len(lines) = b[1] - b[0]
      /\ \A k \in 1..(b[1] - b[0]) : lines[k] = said[b[0] + k]
  <2>1. \A k \in 1..(b[1] - b[0]) : said[b[0] + k] \in R
    BY <1>2, <1>3, <1>6
  <2>2. b[1] - b[0] \in Nat
    BY <1>3, <1>6
  <2>3. lines \in [1..(b[1] - b[0]) -> R]
    BY <1>6, <2>1
  <2>4. lines \in Seq(R) /\ Len(lines) = b[1] - b[0]
    BY <2>2, <2>3
  <2> QED  BY <1>6, <2>4
<1>8. /\ screen' \in Seq(R) /\ Len(screen') = b[1]
      /\ \A k \in 1..b[1] : screen'[k] = said[k]
  <2>1. Len(screen') = b[1] /\ screen' \in Seq(R)
    <3>1. screen' \in Seq(R) /\ Len(screen') = Len(screen) + Len(lines)
      BY <1>1, <1>2, <1>7, ConcatProperties
    <3> QED  BY <1>3, <1>5, <1>6, <1>7, <3>1
  <2>2. ASSUME NEW k \in 1..b[1] PROVE screen'[k] = said[k]
    <3>1. CASE k <= b[0]
      BY <1>1, <1>2, <1>5, <1>6, <1>7, <3>1
    <3>2. CASE k > b[0]
      <4>1. k - b[0] \in 1..(b[1] - b[0]) /\ b[0] + (k - b[0]) = k
        BY <1>3, <1>6, <3>2
      <4>2. screen'[k] = lines[k - b[0]]
        BY <1>1, <1>2, <1>5, <1>6, <1>7, <3>2, <4>1
      <4> QED  BY <1>7, <4>1, <4>2
    <3> QED  BY <1>3, <1>6, <3>1, <3>2
  <2> QED  BY <2>1, <2>2
<1>a. PICK c : c = [j \in 0..(L - 1) |-> b[j + 1]]
  OBVIOUS
<1>9. Frames(c)'
  <2>1. c \in [0..(L - 1) -> 0..S] /\ c[0] = b[1] /\ c[L - 1] = b[L]
    BY <1>3, <1>5, <1>a
  <2>2. ASSUME NEW j \in 1..(L - 1)
        PROVE  /\ c[j - 1] <= c[j]
               /\ Split(wire'[j]) = [k \in 1..(c[j] - c[j - 1]) |-> said[c[j - 1] + k]]
    <3>1. c[j] = b[j + 1] /\ c[j - 1] = b[j] /\ j + 1 \in 1..L /\ (j + 1) - 1 = j
      BY <1>3, <1>a
    <3>2. wire'[j] = wire[j + 1]
      BY <1>3
    <3>3. /\ b[(j + 1) - 1] <= b[j + 1]
          /\ Split(wire[j + 1]) = [k \in 1..(b[j + 1] - b[(j + 1) - 1]) |-> said[b[(j + 1) - 1] + k]]
      BY <1>5, <3>1
    <3> QED  BY <3>1, <3>2, <3>3
  <2> QED  BY <1>1, <1>3, <1>5, <1>8, <2>1, <2>2 DEF Frames
<1>10. Len(screen') <= Len(said') /\ \A k \in 1..Len(screen') : screen'[k] = said'[k]
  <2>1. Len(screen') = b[1] /\ b[1] <= S /\ said' = said
    BY <1>1, <1>3, <1>6, <1>8
  <2>2. \A k \in 1..Len(screen') : screen'[k] = said[k]
    BY <1>8
  <2> HIDE DEF lines
  <2> QED  BY <2>1, <2>2
<1> HIDE DEF Frames
<1>11. (\E x : Frames(x))'
  BY <1>9
<1> QED  BY <1>1, <1>2, <1>3, <1>8, <1>10, <1>11 DEF FramingInv, R

\* The text of the messages, all steps.
LEMMA FramingStep ==
    ASSUME FramingInv, [FramingNext]_framingVars
    PROVE  FramingInv'
<1>1. CASE UNCHANGED framingVars
  <2>1. PICK b : Frames(b)
    BY DEF FramingInv
  <2>2. Frames(b)'
    BY <1>1, <2>1 DEF framingVars, Frames
  <2> QED  BY <1>1, <2>2 DEF framingVars, FramingInv
<1> QED  BY <1>1, ReadPumpInv, WritePumpInv, OnMessageInv DEF FramingNext

\* What is shown is what was said, and all of it once nothing is on its way.
LEMMA FramingInvImplies == FramingInv => LinePerMessage
<1> SUFFICES ASSUME FramingInv PROVE LinePerMessage
  OBVIOUS
<1> DEFINE R == Line \cap OneLine
<1>1. /\ said \in Seq(R) /\ screen \in Seq(R) /\ Len(screen) <= Len(said)
      /\ \A k \in 1..Len(screen) : screen[k] = said[k]
  BY DEF FramingInv
<1>2. screen \in Seq(Line)
  BY <1>1, SeqMonotonic
<1> HIDE DEF R
<1>3. IsPrefix(screen, said)
  <2> DEFINE a == SubSeq(screen, 1, Len(screen))  b == SubSeq(said, 1, Len(screen))
  <2>1. /\ a \in Seq(R) /\ b \in Seq(R) /\ Len(a) = Len(screen) /\ Len(b) = Len(screen)
        /\ \A k \in 1..Len(screen) : a[k] = b[k]
    BY <1>1
  <2> HIDE DEF a, b
  <2>2. a = b
    BY <2>1, SeqEqual
  <2> QED  BY <1>1, <2>2 DEF IsPrefix, a, b
<1>4. queue = <<>> /\ wire = <<>> => screen = said
  <2> SUFFICES ASSUME queue = <<>>, wire = <<>> PROVE screen = said
    OBVIOUS
  <2>1. PICK b : Frames(b)
    BY DEF FramingInv
  <2>2. b[0] = Len(screen) /\ b[0] = Len(said)
    BY <1>1, <2>1 DEF Frames
  <2> QED  BY <1>1, <2>2, SeqEqual
<1> QED  BY <1>2, <1>3, <1>4 DEF LinePerMessage

-----------------------------------------------------------------------------
(* The stream *)

\* What the client has got, what is on its way back and what is on its way to
\* the handler, in this order, are the requests that the client has sent.
Traffic == got \o (resps \o reqs)
Counting(s, n) == s \in Seq(Nat) /\ Len(s) = n /\ \A k \in 1..n : s[k] = k

\* The WaitGroup counts what is sent, or about to be, and not got.
StreamInv ==
    /\ main \in {"add", "send", "wait", "exit", "fatal"} /\ i \in 0..Sends /\ wg \in Nat
    /\ got \in Seq(Nat) /\ resps \in Seq(Nat) /\ reqs \in Seq(Nat)
    /\ main = "send" => i < Sends
    /\ main = "wait" => i = Sends
    /\ Alive => Counting(Traffic, i) /\ Len(got) + wg = (IF main = "send" THEN i + 1 ELSE i)
    /\ main = "exit" => got = [k \in 1..Sends |-> k]

\* An answer is taken.
LEMMA AnswerTaken ==
    ASSUME NEW a \in Seq(Nat), NEW b \in Seq(Nat), NEW c \in Seq(Nat), b # <<>>
    PROVE  /\ Append(a, Head(b)) \o (Tail(b) \o c) = a \o (b \o c)
           /\ Append(a, Head(b)) \in Seq(Nat) /\ Tail(b) \in Seq(Nat) /\ Len(b) >= 1
<1> DEFINE s == Append(a, Head(b)) \o (Tail(b) \o c)  t == a \o (b \o c)
<1>1. Head(b) \in Nat /\ Tail(b) \in Seq(Nat) /\ Len(Tail(b)) = Len(b) - 1 /\ Len(b) >= 1
  OBVIOUS
<1>2. Append(a, Head(b)) \in Seq(Nat) /\ b \o c \in Seq(Nat) /\ Tail(b) \o c \in Seq(Nat)
  BY <1>1
<1>3. s \in Seq(Nat) /\ t \in Seq(Nat) /\ Len(s) = Len(t)
  BY <1>1, <1>2
<1>4. \A n \in 1..Len(s) : s[n] = t[n]
  BY <1>1, <1>2
<1> HIDE DEF s, t
<1>5. s = t
  BY <1>3, <1>4, SeqEqual
<1> QED  BY <1>1, <1>2, <1>5 DEF s, t

\* A request is answered.
LEMMA RequestAnswered ==
    ASSUME NEW b \in Seq(Nat), NEW c \in Seq(Nat), c # <<>>
    PROVE  /\ Append(b, Head(c)) \o Tail(c) = b \o c
           /\ Append(b, Head(c)) \in Seq(Nat) /\ Tail(c) \in Seq(Nat)
<1> DEFINE s == Append(b, Head(c)) \o Tail(c)  t == b \o c
<1>1. Head(c) \in Nat /\ Tail(c) \in Seq(Nat) /\ Append(b, Head(c)) \in Seq(Nat)
  OBVIOUS
<1>2. s \in Seq(Nat) /\ t \in Seq(Nat) /\ Len(s) = Len(t)
  BY <1>1
<1>3. \A n \in 1..Len(s) : s[n] = t[n]
  BY <1>1
<1> HIDE DEF s, t
<1>4. s = t
  BY <1>2, <1>3, SeqEqual
<1> QED  BY <1>1, <1>4 DEF s, t

\* One request more.
LEMMA OneMore ==
    ASSUME NEW n \in Nat, NEW a \in Seq(Nat), NEW b \in Seq(Nat), NEW c \in Seq(Nat),
           Counting(a \o (b \o c), n)
    PROVE  Counting(a \o (b \o Append(c, n + 1)), n + 1)
<1> DEFINE s == a \o (b \o Append(c, n + 1))  t == a \o (b \o c)
<1>1. b \o c \in Seq(Nat) /\ Append(c, n + 1) \in Seq(Nat) /\ b \o Append(c, n + 1) \in Seq(Nat)
  OBVIOUS
<1>2. s \in Seq(Nat) /\ Len(s) = Len(t) + 1 /\ s[Len(t) + 1] = n + 1
  BY <1>1
<1>3. \A k \in 1..Len(t) : s[k] = t[k]
  BY <1>1
<1>4. Len(t) = n /\ \A k \in 1..n : t[k] = k
  BY DEF Counting
<1> HIDE DEF s, t
<1>5. Counting(s, n + 1)
  BY <1>2, <1>3, <1>4 DEF Counting
<1> QED  BY <1>5 DEF s

\* Every step of client, receiver and server.
LEMMA StreamStep ==
    ASSUME StreamInv, [StreamNext]_streamVars
    PROVE  StreamInv'
<1>1. CASE UNCHANGED streamVars
  BY <1>1 DEF StreamInv, streamVars, Alive, Traffic, Counting
<1>2. CASE WgAdd
  BY <1>2 DEF WgAdd, StreamInv, Alive, Traffic, Counting
<1>3. CASE StreamSend
  <2>1. CASE greeter \in {"loop", "recv"}
    <3>1. /\ main = "send" /\ main' = "add" /\ i' = i + 1 /\ reqs' = Append(reqs, i + 1)
          /\ got' = got /\ resps' = resps /\ wg' = wg
      BY <1>3, <2>1 DEF StreamSend
    <3>2. /\ Counting(got \o (resps \o reqs), i) /\ Len(got) + wg = i + 1 /\ i < Sends /\ i \in Nat
          /\ got \in Seq(Nat) /\ resps \in Seq(Nat) /\ reqs \in Seq(Nat) /\ wg \in Nat
      BY <3>1, StreamAssumption DEF StreamInv, Alive, Traffic
    <3>3. Counting(Traffic', i')
      BY <3>1, <3>2, OneMore DEF Traffic
    <3>4. reqs' \in Seq(Nat) /\ i' \in 0..Sends
      BY <3>1, <3>2, StreamAssumption
    <3> QED  BY <3>1, <3>2, <3>3, <3>4 DEF StreamInv, Alive
  <2>2. CASE greeter \notin {"loop", "recv"}
    BY <1>3, <2>2 DEF StreamSend, StreamInv, Alive
  <2> QED  BY <2>1, <2>2
<1>4. CASE WgWait
  BY <1>4 DEF WgWait, StreamInv, Alive, Traffic, Counting
<1>5. CASE StreamExit
  <2>1. /\ main = "wait" /\ main' = "exit" /\ wg = 0
        /\ UNCHANGED <<i, wg, got, resps, reqs>>
    BY <1>5 DEF StreamExit
  <2>2. /\ Counting(got \o (resps \o reqs), Sends) /\ Len(got) = Sends /\ got \in Seq(Nat)
        /\ resps \o reqs \in Seq(Nat)
    BY <2>1, StreamAssumption DEF StreamInv, Alive, Traffic
  <2>3. \A k \in 1..Sends : got[k] = (got \o (resps \o reqs))[k]
    BY <2>2, StreamAssumption
  <2>4. \A k \in 1..Sends : got[k] = k
    BY <2>2, <2>3 DEF Counting
  <2>5. got = [k \in 1..Sends |-> k]
    BY <2>2, <2>4
  <2> QED  BY <2>1, <2>5 DEF StreamInv, Alive
<1>6. CASE StreamRecv
  <2>1. CASE resps # <<>> /\ wg' = wg - 1
    <3>1. /\ Alive /\ resps' = Tail(resps) /\ got' = Append(got, Head(resps)) /\ wg' = wg - 1
          /\ main' = (IF wg - 1 < 0 THEN "panic" ELSE main) /\ i' = i /\ reqs' = reqs
      BY <1>6, <2>1 DEF StreamRecv
    <3>2. /\ Counting(Traffic, i) /\ Len(got) + wg = (IF main = "send" THEN i + 1 ELSE i)
          /\ got \in Seq(Nat) /\ resps \in Seq(Nat) /\ reqs \in Seq(Nat) /\ wg \in Nat /\ i \in Nat
      BY <3>1, StreamAssumption DEF StreamInv
    <3>3. Traffic' = Traffic /\ got' \in Seq(Nat) /\ resps' \in Seq(Nat) /\ Len(resps) >= 1
      BY <2>1, <3>1, <3>2, AnswerTaken DEF Traffic
    <3>4. Len(Traffic) = Len(got) + (Len(resps) + Len(reqs)) /\ Len(Traffic) = i
      BY <3>2 DEF Traffic, Counting
    <3>5. wg >= 1 /\ Len(got') = Len(got) + 1
      BY <3>1, <3>2, <3>3, <3>4
    <3>6. main' = main /\ wg' \in Nat
      BY <3>1, <3>2, <3>5
    <3>7. Counting(Traffic', i')
      BY <3>1, <3>2, <3>3
    <3>8. Len(got') + wg' = Len(got) + wg
      <4>1. Len(got) \in Nat
        BY <3>2
      <4> QED  BY <4>1, <3>1, <3>2, <3>5
    <3> QED  BY <3>1, <3>2, <3>3, <3>6, <3>7, <3>8 DEF StreamInv, Alive
  <2>2. CASE main' = "fatal" /\ UNCHANGED <<resps, got, wg>>
    BY <1>6, <2>2 DEF StreamRecv, StreamInv, Alive
  <2> QED  BY <1>6, <2>1, <2>2 DEF StreamRecv
<1>7. CASE StreamGreet
  <2>1. UNCHANGED <<main, i, wg, got>>
    BY <1>7 DEF StreamGreet
  <2>2. CASE reqs # <<>>
    <3>1. reqs' = Tail(reqs) /\ resps' = IF Alive THEN Append(resps, Head(reqs)) ELSE resps
      BY <1>7, <2>2 DEF StreamGreet
    <3>2. reqs \in Seq(Nat) /\ resps \in Seq(Nat)
      BY DEF StreamInv
    <3>3. /\ Append(resps, Head(reqs)) \o Tail(reqs) = resps \o reqs
          /\ Append(resps, Head(reqs)) \in Seq(Nat) /\ Tail(reqs) \in Seq(Nat)
      BY <2>2, <3>2, RequestAnswered
    <3>4. reqs' \in Seq(Nat) /\ resps' \in Seq(Nat) /\ (Alive => Traffic' = Traffic)
      BY <2>1, <3>1, <3>2, <3>3 DEF Traffic
    <3> QED  BY <2>1, <3>4 DEF StreamInv, Alive
  <2>3. CASE UNCHANGED <<reqs, resps>>
    BY <2>1, <2>3 DEF StreamInv, Alive, Traffic
  <2> QED  BY <1>7, <2>2, <2>3 DEF StreamGreet
<1>8. CASE GreetSelect \/ ServerDies
  BY <1>8 DEF GreetSelect, ServerDies, StreamInv, Alive, Traffic, Counting
<1> QED  BY <1>1, <1>2, <1>3, <1>4, <1>5, <1>6, <1>7, <1>8 DEF StreamNext, StreamClient, StreamServer

\* Nothing has been sent.
LEMMA InitStream == StreamInit => StreamInv
<1> SUFFICES ASSUME StreamInit PROVE StreamInv
  OBVIOUS
<1>1. <<>> \o (<<>> \o <<>>) = <<>> /\ <<>> \in Seq(Nat) /\ Len(<<>>) = 0
  OBVIOUS
<1>2. Counting(Traffic, 0)
  BY <1>1 DEF Counting, Traffic, StreamInit
<1> QED  BY <1>1, <1>2, StreamAssumption DEF StreamInv, StreamInit, Alive

\* The WaitGroup never goes below zero, although Done may run before StreamSend
\* has returned, and a client that ends well has every answer, in the order of
\* its requests.
EveryAnswer == main # "panic" /\ (main = "exit" => got = [k \in 1..Sends |-> k])

-----------------------------------------------------------------------------
(* The services together *)

\* The invariants of the services hold when they start.
LEMMA InitServices ==
    Init => AccessInv /\ FileInv /\ RestInv /\ LogInv /\ FramingInv /\ StreamInv
<1> SUFFICES ASSUME Init
             PROVE  AccessInv /\ FileInv /\ RestInv /\ LogInv /\ FramingInv /\ StreamInv
  OBVIOUS
<1> USE DEF Init
<1>1. AccessInv
  BY DEF AccessInit, AccessInv, NoToken, NoPost, RefreshedInTime
<1>2. FileInv
  <2> USE FilesAssumption DEF FilesInit
  <2>1. FilesType
    <3>1. NoFile \in Seq(Block) /\ <<"old">> \in Seq(Block) /\ <<"old", "old", "old">> \in Seq(Block)
      BY DEF Block, NoFile
    <3>2. disk \in [{".", "files"} -> Seq(Block)]
      BY <3>1
    <3>3. up \in [Uploads -> Upload]
      BY DEF Upload
    <3>4. down \in [Downloads -> Download]
      BY DEF Download
    <3> QED  BY <3>2, <3>3, <3>4 DEF FilesType
  <2>2. Offsets /\ LastInv /\ InPlace
    BY DEF Offsets, LastInv, InPlace, Copying
  <2>3. ReaderInv
    BY DEF ReaderInv, Still
  <2> QED  BY <2>1, <2>2, <2>3 DEF FileInv
<1>3. RestInv
  <2>1. \A r \in Conns : IsRequest(conn[r]) /\ conn[r].phase = "idle" /\ conn[r].code = "none"
    BY DEF RestInit, Idle, IsRequest
  <2> QED  BY <2>1 DEF RestInit, RestInv, NotOverdue, TimeoutsDecide
<1>4. LogInv /\ FramingInv /\ StreamInv
  BY InitLog, InitFraming, InitStream
<1> QED  BY <1>1, <1>2, <1>3, <1>4

\* All but that of the HTTP servers, which needs that nothing is woken too late.
ServicesInv == AccessInv /\ FileInv /\ LogInv /\ FramingInv /\ StreamInv

\* The services keep their invariants, each whatever the others do.
THEOREM Inductive == Spec => []ServicesInv
<1>1. Init => ServicesInv
  BY InitServices DEF ServicesInv
<1>2. ServicesInv /\ [Next]_vars => ServicesInv'
  <2> SUFFICES ASSUME AccessInv, FileInv, LogInv, FramingInv, StreamInv, [Next]_vars
               PROVE  ServicesInv'
    BY DEF ServicesInv
  <2>1. /\ UNCHANGED demo /\ [FilesNext]_fileVars
        /\ [LoggingNext]_logVars /\ [FramingNext]_framingVars /\ [StreamNext]_streamVars
    BY DEF Next, vars
  <2>2. \/ demo = "jwt" /\ JwtNext
        \/ demo = "signature" /\ SignNext
        \/ UNCHANGED accessVars
    BY DEF Next, vars
  <2> QED  BY <2>1, <2>2, AccessStep, FileStep, LogStep, FramingStep, StreamStep DEF ServicesInv
<1> QED  BY <1>1, <1>2, PTL DEF Spec

\* A client of http/jwt that renews its token when it is told to is never turned
\* away, whatever AccessExpire is.
THEOREM NeverTurnedAway == Spec => []RefreshedInTime
<1>1. ServicesInv => RefreshedInTime
  BY DEF ServicesInv, AccessInv
<1> QED  BY <1>1, Inductive, PTL

\* However uploads and downloads overlap, fail and time out: a file is what the
\* upload that created it has copied, mixed only with what those copied that were
\* writing to it then, each block at its own place, and the body of a download
\* that no upload disturbs is the file.
THEOREM UploadsArrive == Spec => []FilesAreUploads
<1>1. ServicesInv => FilesAreUploads
  BY FileInvImplies DEF ServicesInv
<1> QED  BY <1>1, Inductive, PTL

\* However logx's goroutine comes between the records of main and however small
\* the console's buffer is, file and console tell the same story.
THEOREM FileAndConsoleAgree == Spec => []SameStory
<1>1. ServicesInv => SameStory
  BY DEF ServicesInv, LogInv
<1> QED  BY <1>1, Inductive, PTL

\* However many messages of whatever length writePump finds queued, the page
\* shows one line per message.
THEOREM PageShowsWhatWasSaid == Spec => []LinePerMessage
<1>1. ServicesInv => LinePerMessage
  BY FramingInvImplies DEF ServicesInv
<1> QED  BY <1>1, Inductive, PTL

\* On rpc/*/stream the client gets every answer once and in order, or fails, and
\* never calls Done once too often, for any number of requests.
THEOREM StreamIsAnswered == Spec => []EveryAnswer
<1>1. ServicesInv => EveryAnswer
  BY DEF ServicesInv, StreamInv, EveryAnswer
<1> QED  BY <1>1, Inductive, PTL

\* As long as timers and sleepers are woken within a quarter second, the routes
\* that should time out do, always, and no other does, however many requests
\* there are.
THEOREM ShouldTimeOutAndDo ==
    ASSUME Late <= 1
    PROVE  Spec => []TimeoutsDecide
<1>1. Init => RestInv
  BY InitServices
<1>2. RestInv /\ [Next]_vars => RestInv'
  <2> SUFFICES ASSUME RestInv, [Next]_vars PROVE RestInv'
    OBVIOUS
  <2>1. [RestNext]_restVars
    BY DEF Next, vars
  <2> QED  BY <2>1, RestStep
<1>3. RestInv => TimeoutsDecide
  BY DEF RestInv
<1> QED  BY <1>1, <1>2, <1>3, PTL DEF Spec
=============================================================================
