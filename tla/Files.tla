-------------------------------- MODULE Files --------------------------------
(***************************************************************************)
(* The file services: monolithic (upload and download), http/upload and    *)
(* http/download.  Nothing serialises them: uploads of one name write to   *)
(* one file, each at its own offset, and a download reads while they do.   *)
(* A file is a sequence of blocks, a block is the upload it came from.     *)
(***************************************************************************)
EXTENDS Naturals, Sequences, SequencesExt

CONSTANTS Uploads, Downloads,
          Size            \* blocks of each upload's file; all have one name

ASSUME FilesAssumption ==
  /\ Size \in [Uploads -> Nat \ {0}]
  /\ Uploads \cap {"none", "old", "hole", "mixed"} = {}    \* words of the model

VARIABLES service,        \* which program runs
          path,           \* Config.Path: "." is where downloads look too
          disk,           \* <<dir>> -> the file there, or NoFile
          up, down,       \* the requests
          last, others    \* history, for the properties (as is a download's field
                          \* of): the upload that created the file last, "old" before,
                          \* and the uploads that were writing to it when it did
fileVars == <<service, path, disk, up, down, last, others>>

NoFile == <<"none">>
Copying == {u \in Uploads : up[u].phase = "copying" /\ up[u].at < Size[u]}
Written(u, n) == [i \in 1 .. n |-> u]

-----------------------------------------------------------------------------
\* os.Create cuts the file to nothing, or fails; without the form's file there
\* is nothing to create.
Create == <<>>
Receive(u) ==
  /\ up[u].phase = "sent"
  /\ \/ /\ up' = [up EXCEPT ![u] = [phase |-> "done", at |-> 0, reply |-> "error"]]
        /\ UNCHANGED <<disk, last, others>>
     \/ /\ disk' = [disk EXCEPT ![path] = Create]
        /\ up' = [up EXCEPT ![u].phase = "copying"]
        /\ last' = u /\ others' = Copying
  /\ UNCHANGED <<service, path, down>>
MonolithicUpload(u) == service = "monolithic" /\ Receive(u)
HttpUpload(u) == service = "upload" /\ Receive(u)

\* Defect: the file is opened for appending.
WriteLast(file, i, block) == Append(file, block)
\* io.Copy writes at this descriptor's own offset; what was cut away in front
\* of it reads as a hole.  An error ends the copy where it is, and nobody looks
\* at it.
WriteAt(file, i, block) ==
  [j \in 1 .. (IF Len(file) < i THEN i ELSE Len(file)) |->
     IF j = i THEN block ELSE IF j > Len(file) THEN "hole" ELSE file[j]]
Copy(u) ==
  /\ up[u].phase = "copying" /\ up[u].at < Size[u]
  /\ \/ /\ disk' = [disk EXCEPT ![path] = WriteAt(@, up[u].at + 1, u)]
        /\ up' = [up EXCEPT ![u].at = @ + 1]
     \/ up' = [up EXCEPT ![u].phase = "cut"] /\ UNCHANGED disk
  /\ UNCHANGED <<service, path, down, last, others>>

\* The answer is code 0, also for a copy that was cut short, unless the timeout
\* handler was faster.
UploadEnd(u) ==
  /\ up[u].phase = "cut" \/ (up[u].phase = "copying" /\ up[u].at = Size[u])
  /\ up' = [up EXCEPT ![u].phase = "done", ![u].reply = IF @ = "none" THEN "code 0" ELSE @]
  /\ UNCHANGED <<service, path, disk, down, last, others>>
UploadTimeout(u) ==
  /\ up[u].phase \in {"copying", "cut"} /\ up[u].reply = "none"
  /\ up' = [up EXCEPT ![u].reply = "timeout"]
  /\ UNCHANGED <<service, path, disk, down, last, others>>

-----------------------------------------------------------------------------
\* ioutil.ReadFile opens the name the request gives, relative to the working
\* directory whatever Config.Path is, and reads block by block to the end.
OpenFile(d) ==
  /\ down[d].phase = "sent"
  /\ down' = [down EXCEPT ![d] =
       IF disk["."] = NoFile THEN [@ EXCEPT !.phase = "done", !.reply = "error"]
       ELSE [@ EXCEPT !.phase = "reading", !.of = IF Copying = {} THEN last ELSE "mixed"]]
  /\ UNCHANGED <<service, path, disk, up, last, others>>
ReadBlock(d) ==
  LET n == Len(down[d].body)
  IN  /\ down[d].phase = "reading" /\ n < Len(disk["."])
      /\ down' = [down EXCEPT ![d].body = Append(@, disk["."][n + 1])]
      /\ UNCHANGED <<service, path, disk, up, last, others>>
Loaded(d) == down[d].phase = "reading" /\ Len(down[d].body) >= Len(disk["."])
\* The body goes out; a short write is an error to monolithic, which then asks
\* for a status after the body, and nothing to http/download.
MonolithicDownload(d) ==
  /\ service = "monolithic" /\ Loaded(d)
  /\ \E short \in BOOLEAN :
       down' = [down EXCEPT ![d].phase = "done", ![d].reply = IF short THEN "closed pipe" ELSE "ok"]
  /\ UNCHANGED <<service, path, disk, up, last, others>>
HttpDownload(d) ==
  /\ service = "download" /\ Loaded(d)
  /\ down' = [down EXCEPT ![d].phase = "done", ![d].reply = "ok"]
  /\ UNCHANGED <<service, path, disk, up, last, others>>

\* The routes: http/download serves what is there already.
MonolithicRoutes == [uploads |-> Uploads, downloads |-> Downloads]
UploadRoutes == [uploads |-> Uploads, downloads |-> {}]
DownloadRoutes == [uploads |-> {}, downloads |-> Downloads]
Routes == [monolithic |-> MonolithicRoutes, upload |-> UploadRoutes, download |-> DownloadRoutes]

FilesInit ==
  /\ service \in DOMAIN Routes /\ path \in {".", "files"}
  /\ disk \in [{".", "files"} -> {NoFile, <<"old">>, <<"old", "old", "old">>}]
  /\ up = [u \in Uploads |-> [phase |-> IF u \in Routes[service].uploads THEN "sent" ELSE "done",
                              at |-> 0, reply |-> "none"]]
  /\ down = [d \in Downloads |-> [phase |-> IF d \in Routes[service].downloads THEN "sent" ELSE "done",
                                  body |-> <<>>, of |-> "none", reply |-> "none"]]
  /\ last = "old" /\ others = {}

FilesNext ==
  \/ \E u \in Uploads : MonolithicUpload(u) \/ HttpUpload(u) \/ Copy(u) \/ UploadEnd(u) \/ UploadTimeout(u)
  \/ \E d \in Downloads : OpenFile(d) \/ ReadBlock(d) \/ MonolithicDownload(d) \/ HttpDownload(d)

-----------------------------------------------------------------------------
\* A file is what was uploaded, as far as the uploads got.  If nobody else was
\* writing when an upload created the file, and none has created it since, the
\* file is exactly what it has copied, however long the file was before: all of
\* its blocks, or its first ones when the copy failed, for which it is answered
\* code 0 all the same.  If others were writing, the file may end as a mixture
\* of uploads that were all answered code 0, but each block is at its own place
\* in the upload that wrote it, of those that were writing, and there is a hole
\* only where the upload that created the file has not come.  A download sends
\* the file as it is, never parts of two, unless an upload was writing when it
\* opened the file or has created it since (or, with another Config.Path than
\* the default, whatever the uploads do: they go elsewhere).
FilesAreUploads ==
  /\ last \in Uploads =>
       /\ others = {} => disk[path] = Written(last, up[last].at)
       /\ up[last].at <= Len(disk[path])
       /\ \A i \in 1 .. Len(disk[path]) :
            \/ disk[path][i] = "hole" /\ i > up[last].at
            \/ disk[path][i] \in others \cup {last} /\ i <= up[disk[path][i]].at
  /\ \A d \in Downloads :
       down[d].phase = "done" /\ down[d].of # "none" /\ (path = "." => down[d].of = last)
         => down[d].body = disk["."]
=============================================================================
