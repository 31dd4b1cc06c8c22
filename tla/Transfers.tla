------------------------------ MODULE Transfers ------------------------------
(***************************************************************************)
(* The commands that move files between the server and the disk: docs and  *)
(* sheets export, images, drive import, download and media, im download,   *)
(* and upgrade.  Some first start a job on the server and poll it until a  *)
(* deadline; most then fill local files, one after the other; commands of  *)
(* several processes can write the same names.  Files are names that refer *)
(* to inodes, so that a file can be renamed while it is being written.     *)
(* Feishu's jobs and the file system are modelled from how the code uses   *)
(* them; a Close whose error the code ignores is taken to succeed.         *)
(***************************************************************************)
EXTENDS Integers, FiniteSets, Sequences

CONSTANTS
  Procs,      \* processes, each runs one command
  Mixes,      \* the commands that are run together, functions on Procs
  NImages,    \* images of a document, and of a sheet outside its cells
  Chunks,     \* bound: pieces in which a file arrives
  MaxPolls,   \* bound: questions before a deadline; drive import: exactly these
  Releases,   \* versions of what the server holds, 1, 2, ...
  Outcomes,   \* what can become of a request
  Faults      \* of kill, disk: what else can happen

Kinds == {"docs_export", "sheets_export", "images", "sheet_images", "drive_import",
          "drive_download", "drive_media", "im_download", "upgrade"}

\* ok: answered.  failed: no effect and an error.  lost: done, but an error.
ASSUME TransfersAssumption ==
  /\ IsFiniteSet(Procs) /\ Procs \cap {"nobody"} = {}
  /\ Mixes \subseteq [Procs -> Kinds]
  /\ {NImages, Chunks, MaxPolls, Releases} \subseteq Nat \ {0}
  /\ Outcomes \subseteq {"ok", "failed", "lost"}
  /\ Faults \subseteq {"kill", "disk"}

VARIABLES
  dir,       \* the inode of each name, NoFile: there is no such file
  data,      \* the version of each piece of an inode, Blank: not written
  release,   \* the version that the server holds
  job,       \* the job of each process on the server
  kind,      \* the command of each process
  pc,        \* its next step
  polls,     \* questions it has asked
  todo,      \* the files it has still to fill, the first is being filled
  fd,        \* the inode it has open
  off,       \* the pieces it has written to it
  body,      \* the version it receives
  session,   \* local: no gateway; good, or expired and to be renewed
  told,      \* what its user was told in the end
  listed,    \* the files it reported as saved
  unstated,  \* history: processes that got an answer without a job_status
  last,      \* history: who opened or renamed a name last
  overlapped \* history: processes that wrote a name while another did

disk == <<dir, data, last, overlapped>>
vars == <<disk, release, job, unstated, kind, pc, polls, todo, fd, off, body, session, told,
          listed>>

NoFile == 0
Blank == 0
Nobody == "nobody"
Out == <<"out", 0>>          \* the output file, the same for all
Binary == <<"larkctl", 0>>   \* the program itself, symbolic links resolved
Temp == <<"tmp", 0>>
Png(i) == <<"png", i>>
Jpg(i) == <<"jpg", i>>
InSheet == <<"media", 1>>    \* an image in a cell, from the exported xlsx
Pictures == {Png(i) : i \in 1..NImages} \cup {Jpg(i) : i \in 1..NImages} \cup {InSheet}
Names == {Out, Binary, Temp} \cup Pictures
Inodes == 1 .. Cardinality(Names) + Cardinality(Procs)
Ended == {"done", "failed", "killed"}
Statuses == {"none", "running", "ready", "broken", "missing"}

-----------------------------------------------------------------------------
(* The commands.  stages: what a command does before it fills its files.   *)
(* tolerant: an unanswered question is asked again.  keeps: a file whose   *)
(* download failed is left as it is.  files: the names to be filled.       *)

Sequence(F(_)) == [i \in 1..NImages |-> F(i)]

DocsExport == [stages |-> <<"create", "poll", "open">>, tolerant |-> FALSE,
               keeps |-> TRUE, files |-> <<Out>>]
SheetsExport == DocsExport
DriveImport == [stages |-> <<"upload", "create", "poll">>, tolerant |-> TRUE,
                keeps |-> TRUE, files |-> << >>]
DriveDownload == [stages |-> <<"open">>, tolerant |-> FALSE,
                  keeps |-> TRUE, files |-> <<Out>>]
DriveMedia == DriveDownload
\* requireScopes comes first: the job is the user's consent in the browser.
ImDownload == [stages |-> <<"create", "poll", "open">>, tolerant |-> TRUE,
               keeps |-> TRUE, files |-> <<Out>>]
DocImages == [stages |-> <<"list", "open">>, tolerant |-> FALSE,
              keeps |-> FALSE, files |-> Sequence(Png)]
\* The pictures in cells are taken from an export, fetched to a file of its own.
SheetImages == [stages |-> <<"list", "create", "poll", "fetch", "open">>, tolerant |-> FALSE,
                keeps |-> FALSE, files |-> Sequence(Png)]

\* Mutant: the program is overwritten in place.
UpgradeInPlace == [stages |-> <<"request", "open">>, tolerant |-> FALSE,
                   keeps |-> FALSE, files |-> <<Binary>>]
Upgrade == [stages |-> <<"request", "open">>, tolerant |-> FALSE,
            keeps |-> FALSE, files |-> <<Temp>>]

Profile(p) ==
  CASE kind[p] = "docs_export" -> DocsExport
    [] kind[p] = "sheets_export" -> SheetsExport
    [] kind[p] = "drive_import" -> DriveImport
    [] kind[p] = "drive_download" -> DriveDownload
    [] kind[p] = "drive_media" -> DriveMedia
    [] kind[p] = "im_download" -> ImDownload
    [] kind[p] = "images" -> DocImages
    [] kind[p] = "sheet_images" -> SheetImages
    [] kind[p] = "upgrade" -> Upgrade

After(p) ==
  LET stages == Profile(p).stages
      i == CHOOSE j \in DOMAIN stages : stages[j] = pc[p]
  IN IF i = Len(stages) THEN "done" ELSE stages[i + 1]

\* A file of an earlier time at the output, or none; the program is there.
Init ==
  /\ kind \in Mixes
  /\ dir \in {[n \in Names |-> IF n = Binary THEN 1 ELSE IF n = Out THEN i ELSE NoFile]
              : i \in {NoFile, 2}}
  /\ data = [i \in Inodes |-> [c \in 1..Chunks |-> IF i \in {1, 2} THEN 1 ELSE Blank]]
  /\ release = 1
  /\ job = [p \in Procs |-> "none"]
  /\ unstated = {}
  /\ pc = [p \in Procs |-> Profile(p).stages[1]]
  /\ polls = [p \in Procs |-> 0]
  /\ todo = [p \in Procs |-> Profile(p).files]
  /\ fd = [p \in Procs |-> NoFile]
  /\ off = [p \in Procs |-> 0]
  /\ body = [p \in Procs |-> 1]
  /\ session \in [Procs -> {"local", "good", "expired"}]
  /\ told = [p \in Procs |-> "nothing"]
  /\ listed = [p \in Procs |-> {}]
  /\ last = [n \in Names |-> Nobody]
  /\ overlapped = {}

Goes(p, stage) == pc' = [pc EXCEPT ![p] = stage]
Ends(p, how, words) == Goes(p, how) /\ told' = [told EXCEPT ![p] = words]
Took(o) == o \in {"ok", "lost"}

\* An export that did not work is the end of the command; for the images of a
\* sheet it is a warning, and the pictures outside the cells follow.
GivesUp(p, words) ==
  IF kind[p] = "sheet_images" THEN Goes(p, "open") /\ UNCHANGED told
                              ELSE Ends(p, "failed", words)

filling == <<fd, off, body, listed>>

-----------------------------------------------------------------------------
(* The server, and time.                                                   *)

Publish ==
  /\ release < Releases
  /\ release' = release + 1
  /\ UNCHANGED <<disk, job, unstated, kind, pc, polls, todo, filling, session, told>>

\* A job comes to its end; the user gives consent, or never does.
JobEnds(p, how) ==
  /\ job[p] = "running"
  /\ kind[p] = "im_download" => how = "ready"
  /\ job' = [job EXCEPT ![p] = how]
  /\ UNCHANGED <<disk, release, unstated, kind, pc, polls, todo, filling, session, told>>

Killed(p) ==
  /\ "kill" \in Faults
  /\ pc[p] \notin Ended
  /\ Goes(p, "killed")
  /\ fd' = [fd EXCEPT ![p] = NoFile]
  /\ UNCHANGED <<disk, release, job, unstated, kind, polls, todo, off, body, listed, session, told>>

-----------------------------------------------------------------------------
(* Requests before the first file.                                         *)

\* callJSONWithRefresh renews an expired session.
Renews(p, o) ==
  session' = [session EXCEPT ![p] = IF @ = "expired" /\ o # "failed" THEN "good" ELSE @]

\* An upload or download of the local client renews its token first, that of the
\* gateway client sends the session as it is.
LocalUploads(p) == session[p] = "local"
GatewayUploads(p) == session[p] = "good"
LocalDownloads(p) == session[p] = "local"
GatewayDownloads(p) == session[p] = "good"

\* GetDocumentBlocks; GetSheetValues, whose error means no pictures in cells,
\* and GetSheetsFloatImages.
List(p, o) ==
  /\ pc[p] = "list"
  /\ IF o = "ok"
       THEN \/ Goes(p, After(p)) /\ UNCHANGED told
            \/ kind[p] = "sheet_images" /\ Goes(p, "open") /\ UNCHANGED told
       ELSE Ends(p, "failed", "error")
  /\ Renews(p, o)
  /\ UNCHANGED <<disk, release, job, unstated, kind, polls, todo, filling>>

\* ImportUpload; the GET of the release.
Upload(p, o) ==
  /\ pc[p] \in {"upload", "request"}
  /\ IF o = "ok" /\ (pc[p] = "upload" => LocalUploads(p) \/ GatewayUploads(p))
       THEN Goes(p, After(p)) /\ UNCHANGED told
       ELSE Ends(p, "failed", "error")
  /\ body' = [body EXCEPT ![p] = release]
  /\ UNCHANGED <<disk, release, job, unstated, kind, polls, todo, fd, off, listed, session>>

\* ExportCreate, ImportCreate: the ticket.  UpgradeScopes: no consent needed, never
\* in local mode, or the URL to give it at.
Create(p, o) ==
  /\ pc[p] = "create"
  /\ IF o = "ok" /\ kind[p] = "im_download"
       THEN \/ Goes(p, "open") /\ UNCHANGED told /\ job' = [job EXCEPT ![p] = "ready"]
            \/ /\ session[p] # "local"
               /\ Goes(p, "poll") /\ UNCHANGED told /\ job' = [job EXCEPT ![p] = "running"]
       ELSE /\ job' = IF Took(o) THEN [job EXCEPT ![p] = "running"] ELSE job
            /\ IF o = "ok" THEN Goes(p, "poll") /\ UNCHANGED told ELSE GivesUp(p, "error")
  /\ Renews(p, o)
  /\ UNCHANGED <<disk, release, unstated, kind, polls, todo, filling>>

\* What an answer says of the job; of an export or import it can lack the job_status.
Answers(p) == {job[p]} \cup (IF kind[p] = "im_download" THEN {} ELSE {"missing"})

\* Mutant: a job that is still being processed counts as done.
FinishedEarly(status) == status \in {"ready", "running", "missing"}

\* job_status 0, which is also what a missing one reads as; hasAllScopes.
Finished(status) == status \in {"ready", "missing"}

\* A status of more than 2 is an error of the job.
Poll(p, o, status) ==
  /\ pc[p] = "poll" /\ polls[p] < MaxPolls
  /\ status \in Answers(p)
  /\ polls' = [polls EXCEPT ![p] = @ + 1]
  /\ IF o # "ok"
       THEN IF Profile(p).tolerant THEN UNCHANGED <<pc, told>> ELSE GivesUp(p, "error")
       ELSE IF Finished(status)
              THEN IF kind[p] = "drive_import" THEN Ends(p, "done", "imported")
                                               ELSE Goes(p, After(p)) /\ UNCHANGED told
              ELSE IF status = "broken" THEN GivesUp(p, "broken") ELSE UNCHANGED <<pc, told>>
  /\ unstated' = IF o = "ok" /\ status = "missing" THEN unstated \cup {p} ELSE unstated
  /\ Renews(p, o)
  /\ UNCHANGED <<disk, release, job, kind, todo, filling>>

\* Mutant: a job that is still being processed is waited for.
TimeUpNever(p) == job[p] # "running"

\* drive import asks a fixed number of times, the others until a deadline, which
\* slow answers bring nearer.
TimeUp(p) == IF kind[p] = "drive_import" THEN polls[p] = MaxPolls ELSE polls[p] >= 1

Timeout(p) ==
  /\ pc[p] = "poll" /\ TimeUp(p)
  /\ GivesUp(p, "timeout")
  /\ UNCHANGED <<disk, release, job, unstated, kind, polls, todo, filling, session>>

\* ExportDownload of the xlsx to a temporary file, and its pictures.
Fetch(p, o) ==
  /\ pc[p] = "fetch"
  /\ todo' = [todo EXCEPT ![p] = IF o = "ok" THEN <<InSheet>> \o @ ELSE @]
  /\ Goes(p, "open")
  /\ UNCHANGED <<disk, release, job, unstated, kind, polls, filling, session, told>>

-----------------------------------------------------------------------------
(* Filling a file.                                                         *)

Current(p) == Head(todo[p])

\* Leaves the file, for the next one if there is one.
NextFile(p) ==
  /\ todo' = [todo EXCEPT ![p] = Tail(@)]
  /\ Goes(p, IF Len(todo[p]) = 1 THEN "done" ELSE "open")
  /\ fd' = [fd EXCEPT ![p] = NoFile]
  /\ UNCHANGED told

Closes(p, how, words) ==
  Ends(p, how, words) /\ fd' = [fd EXCEPT ![p] = NoFile] /\ UNCHANGED todo

Unused == Inodes \ ({dir[n] : n \in Names} \cup {fd[p] : p \in Procs})
Empty == [c \in 1..Chunks |-> Blank]

\* Processes that are writing the file that p is about to open.
Rivals(p) == {q \in Procs \ {p} : fd[q] # NoFile /\ Current(q) = Current(p)}

\* os.Create, or OpenFile with O_TRUNC: a file that exists is emptied, also for
\* those who have it open.
Open(p) ==
  /\ pc[p] = "open"
  /\ \E i \in {IF dir[Current(p)] # NoFile THEN dir[Current(p)]
               ELSE CHOOSE j \in Unused : TRUE} :
       /\ dir' = [dir EXCEPT ![Current(p)] = i]
       /\ data' = [data EXCEPT ![i] = Empty]
       /\ fd' = [fd EXCEPT ![p] = i]
  /\ off' = [off EXCEPT ![p] = 0]
  /\ body' = [body EXCEPT ![p] = IF kind[p] = "upgrade" THEN @ ELSE release]
  /\ last' = [last EXCEPT ![Current(p)] = p]
  /\ overlapped' = IF Rivals(p) = {} THEN overlapped ELSE overlapped \cup Rivals(p) \cup {p}
  /\ Goes(p, "copy")
  /\ UNCHANGED <<release, job, unstated, kind, polls, todo, session, told, listed>>

\* A picture of an xlsx that cannot be created is passed over.
OpenFails(p) ==
  /\ pc[p] = "open" /\ "disk" \in Faults
  /\ IF Current(p) = InSheet THEN NextFile(p) ELSE Closes(p, "failed", "error")
  /\ UNCHANGED <<disk, release, job, unstated, kind, polls, off, body, session, listed>>

\* io.Copy writes the next piece at its own offset.
Copy(p) ==
  /\ pc[p] = "copy" /\ off[p] < Chunks
  /\ LocalDownloads(p) \/ GatewayDownloads(p) \/ kind[p] = "upgrade"
  /\ data' = [data EXCEPT ![fd[p]][off[p] + 1] = body[p]]
  /\ off' = [off EXCEPT ![p] = @ + 1]
  /\ UNCHANGED <<dir, last, overlapped, release, job, unstated, kind, pc, polls, todo, fd,
                 body, session, told, listed>>

Remove(n) == dir' = [dir EXCEPT ![n] = NoFile]

\* Mutant: an incomplete download counts as saved.
CopyFailsSaved(p) ==
  /\ pc[p] = "copy" /\ off[p] < Chunks
  /\ Closes(p, "done", "saved")
  /\ listed' = [listed EXCEPT ![p] = @ \cup {Current(p)}]
  /\ UNCHANGED <<disk, release, job, unstated, kind, polls, off, body, session>>

\* The download breaks off after any number of pieces, or never starts.
CopyFails(p) ==
  /\ pc[p] = "copy" /\ off[p] < Chunks
  /\ IF Profile(p).keeps THEN Closes(p, "failed", "error") /\ UNCHANGED dir
     ELSE /\ Remove(Current(p))
          /\ IF kind[p] = "upgrade" THEN Closes(p, "failed", "error") ELSE NextFile(p)
  /\ UNCHANGED <<data, last, overlapped, release, job, unstated, kind, polls, off, body, session,
                 listed>>

Complete(p) == pc[p] = "copy" /\ off[p] = Chunks

SaveOutput(p) ==
  /\ Complete(p) /\ Profile(p).keeps
  /\ Closes(p, "done", "saved")
  /\ listed' = [listed EXCEPT ![p] = @ \cup {Current(p)}]
  /\ UNCHANGED <<disk, release, job, unstated, kind, polls, off, body, session>>

\* A picture whose content type is png, or that comes from an xlsx.
SavePicture(p) ==
  /\ Complete(p) /\ kind[p] \in {"images", "sheet_images"}
  /\ listed' = [listed EXCEPT ![p] = @ \cup {Current(p)}]
  /\ NextFile(p)
  /\ UNCHANGED <<disk, release, job, unstated, kind, polls, off, body, session>>

Rename(p, to) ==
  /\ dir' = [dir EXCEPT ![to] = dir[Current(p)], ![Current(p)] = NoFile]
  /\ last' = [last EXCEPT ![to] = p]

MayFail == IF "disk" \in Faults THEN {TRUE, FALSE} ELSE {FALSE}

\* Another content type is another extension; when the file cannot be renamed the
\* user is warned, and told the new name all the same.
RenamePicture(p, fails) ==
  /\ Complete(p) /\ kind[p] \in {"images", "sheet_images"} /\ Current(p) # InSheet
  /\ LET jpg == Jpg(Current(p)[2]) IN
       IF dir[Current(p)] = NoFile \/ fails
         THEN UNCHANGED <<dir, last>>
         ELSE Rename(p, jpg)
  /\ listed' = [listed EXCEPT ![p] = @ \cup {Jpg(Current(p)[2])}]
  /\ NextFile(p)
  /\ UNCHANGED <<data, overlapped, release, job, unstated, kind, polls, off, body, session>>

\* upgrade renames its temporary file to the program.
Replace(p, fails) ==
  /\ Complete(p) /\ kind[p] = "upgrade"
  /\ IF dir[Current(p)] = NoFile \/ fails
       THEN Remove(Current(p)) /\ Closes(p, "failed", "error") /\ UNCHANGED <<last, listed>>
       ELSE /\ Rename(p, Binary) /\ Closes(p, "done", "saved")
            /\ listed' = [listed EXCEPT ![p] = @ \cup {Binary}]
  /\ UNCHANGED <<data, overlapped, release, job, unstated, kind, polls, off, body, session>>

-----------------------------------------------------------------------------

\* The steps of a command; a copy may go on or break off.
Command(p) ==
  \/ \E o \in Outcomes : List(p, o) \/ Upload(p, o) \/ Create(p, o) \/ Fetch(p, o)
  \/ \E o \in Outcomes, status \in Statuses : Poll(p, o, status)
  \/ Timeout(p)
  \/ Open(p) \/ OpenFails(p) \/ Copy(p) \/ CopyFails(p) \/ SaveOutput(p) \/ SavePicture(p)
  \/ \E fails \in MayFail : RenamePicture(p, fails) \/ Replace(p, fails)

Next ==
  \/ Publish
  \/ \E p \in Procs :
       \/ Command(p) \/ Killed(p)
       \/ \E how \in {"ready", "broken"} : JobEnds(p, how)

Spec == Init /\ [][Next]_vars

\* Every command but upgrade ends: requests have a timeout of 45 or 60 s, clocks
\* go on.  upgrade uses http.Get, which waits for ever.
FairSpec == Spec /\ \A p \in Procs : WF_vars(kind[p] # "upgrade" /\ Command(p))

-----------------------------------------------------------------------------
(* Properties.                                                             *)

Whole(n) ==
  dir[n] # NoFile /\ \E v \in 1..Releases : \A c \in 1..Chunks : data[dir[n]][c] = v

\* What the user is told of files is true, whatever failed before and beside it.
\* A file reported as saved is complete, unless another process wrote the same
\* name at the same time or has opened it since.  (A picture that was not renamed
\* is not where it is said.)  A file that is not complete is being written, or its
\* command was killed, or told its user that it failed; of a list of pictures and
\* of an upgrade nothing incomplete stays, unless they were killed or wrote at the
\* same time.
FilesAccounted ==
  /\ \A p \in Procs \ overlapped : \A n \in listed[p] : last[n] = p => Whole(n)
  /\ \A n \in Names \ {Binary} :
       dir[n] # NoFile /\ ~Whole(n) =>
         LET p == last[n] IN
           \/ pc[p] \in {"copy", "killed"}
           \/ pc[p] = "failed" /\ Profile(p).keeps
           \/ p \in overlapped

\* The program can always be run: upgrades may break off, be killed and repeated.
\* The exception are two upgrades at the same time, which share a temporary file,
\* once the server has had two releases or when one of them does not complete its copy.
BinaryRuns ==
  Whole(Binary) \/ \E p \in overlapped :
                     kind[p] = "upgrade" /\ (release > 1 \/ off[p] < Chunks)

\* A verdict is the server's: nothing is reported as imported, and no export opens
\* (and so truncates) its output, before the job has ended well, and none is called
\* broken that has not.  The exception is an answer without a job_status, which the
\* commands take for the end of the job.
VerdictsHold ==
  \A p \in Procs :
    /\ told[p] = "imported" => job[p] = "ready" \/ p \in unstated
    /\ told[p] = "broken" => job[p] = "broken"
    /\ kind[p] \in {"docs_export", "sheets_export", "im_download"} /\ fd[p] # NoFile =>
         job[p] = "ready" \/ p \in unstated

\* A command ends, whatever the server does with its job.
CommandsEnd == \A p \in Procs : kind[p] # "upgrade" => <>(pc[p] \in Ended)
=============================================================================
