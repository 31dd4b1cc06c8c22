------------------------------ MODULE DocsMedia ------------------------------
(***************************************************************************)
(* docs add-image and docs add-file (docs_media.go): each file is inserted *)
(* into a document in three requests, an empty block, the upload bound to  *)
(* it, and the token patched into it, with a rollback of two more.  A      *)
(* colleague edits the children of the same block, every request can fail, *)
(* with or without having taken effect, and the local files can disappear. *)
(* Feishu's block requests are modelled from how the code uses them.       *)
(***************************************************************************)
EXTENDS Integers, SequencesExt

CONSTANTS
  Kinds,      \* of image and file, the commands that are run
  Indexes,    \* values of --index, -1 to append
  NFiles,     \* how many files the command is given
  NTexts,     \* children of the parent at first
  MaxOthers,  \* bound: changes made by the colleague
  Outcomes    \* what can become of a request

\* ok: answered.  failed: no effect and an error.  lost: done, but an error.
\* unreadable: a create that is done, whose answer names no media block.
ASSUME DocsMediaAssumption ==
  /\ Kinds \subseteq {"image", "file"}
  /\ Indexes \subseteq Nat \cup {-1}
  /\ NFiles \in Nat \ {0} /\ NTexts \in Nat /\ MaxOthers \in Nat
  /\ Outcomes \subseteq {"ok", "failed", "lost", "unreadable"}

VARIABLES
  page,      \* the parent's children, blocks
  token,     \* the file held by each media block in the document, NoFile: none
  fresh,     \* server: the next block number
  others,    \* the colleague's insertions and deletions so far
  inserted,  \* has the colleague inserted a block?
  kind,      \* docsMediaKind of the command
  pc,        \* where the command is
  at,        \* the index of the next block
  arg,       \* the file being added
  mine,      \* the number of its block, 0 if there is none
  printed,   \* the media blocks reported to the user, by file
  leftover,  \* the block that the error message calls not removed, or 0
  unanswered \* history: blocks whose create was not answered

docVars == <<page, token, fresh>>
otherVars == <<others, inserted>>
toldVars == <<printed, leftover>>
vars == <<docVars, otherVars, kind, pc, at, arg, mine, toldVars, unanswered>>

NoFile == 0
Text(n) == <<"text", n>>
Media(n) == <<"media", n>>
View(n) == <<"view", n>>
Ended == {"done", "failed"}

\* mediaBlockIDFromCreate: the block that is the parent's child.
CreatedBlock(n) == IF kind = "file" THEN View(n) ELSE Media(n)

Init ==
  /\ page = [i \in 1..NTexts |-> Text(i)]
  /\ token = << >>
  /\ fresh = NTexts + 1
  /\ others = 0
  /\ inserted = FALSE
  /\ kind \in Kinds
  /\ pc = "resolve"
  /\ at \in Indexes
  /\ arg = 1
  /\ mine = 0
  /\ printed = << >>
  /\ leftover = 0
  /\ unanswered = {}

Took(o) == o \in {"ok", "lost", "unreadable"}

\* The server takes block b out of the document, with what is in it.
RemoveBlock(b) ==
  /\ page' = RemoveFirst(page, b)
  /\ token' = [n \in DOMAIN token \ (IF b[1] = "text" THEN {} ELSE {b[2]}) |-> token[n]]

-----------------------------------------------------------------------------
(* A colleague.                                                            *)

ColleagueInserts(i) ==
  /\ others < MaxOthers
  /\ others' = others + 1
  /\ inserted' = TRUE
  /\ page' = InsertAt(page, i, Text(fresh))
  /\ fresh' = fresh + 1
  /\ UNCHANGED <<token, kind, pc, at, arg, mine, toldVars, unanswered>>

ColleagueDeletes(b) ==
  /\ others < MaxOthers
  /\ others' = others + 1
  /\ RemoveBlock(b)
  /\ UNCHANGED <<fresh, inserted, kind, pc, at, arg, mine, toldVars, unanswered>>

-----------------------------------------------------------------------------
(* The command.                                                            *)

\* resolveDocID: a wiki page costs a request.
Resolve(o) ==
  /\ pc = "resolve"
  /\ pc' = IF o = "ok" THEN "stat" ELSE "failed"
  /\ UNCHANGED <<docVars, otherVars, kind, at, arg, mine, toldVars, unanswered>>

\* os.Stat before anything is sent: no such file, or a directory.
Stat ==
  /\ pc = "stat"
  /\ pc' \in {"create", "failed"}
  /\ UNCHANGED <<docVars, otherVars, kind, at, arg, mine, toldVars, unanswered>>

\* The server puts an empty block in its place; without its number in the
\* answer nobody knows it.
EmptyBlock(o) ==
  /\ page' = InsertAt(page, IF at = -1 THEN Len(page) + 1 ELSE at + 1, CreatedBlock(fresh))
  /\ token' = [n \in DOMAIN token \cup {fresh} |-> IF n = fresh THEN NoFile ELSE token[n]]
  /\ fresh' = fresh + 1
  /\ mine' = IF o = "ok" THEN fresh ELSE 0
  /\ unanswered' = IF o = "ok" THEN unanswered ELSE unanswered \cup {fresh}

\* An empty block; the server refuses an index behind the end.
Create(o) ==
  /\ pc = "create"
  /\ IF Took(o) /\ at <= Len(page)
       THEN /\ EmptyBlock(o)
            /\ pc' = IF o = "ok" THEN "open" ELSE "failed"
       ELSE /\ pc' = "failed"
            /\ UNCHANGED <<docVars, mine, unanswered>>
  /\ UNCHANGED <<otherVars, kind, at, arg, toldVars>>

\* os.Open: the file may have gone since.
Open ==
  /\ pc = "open"
  /\ pc' \in {"upload", "find"}
  /\ UNCHANGED <<docVars, otherVars, kind, at, arg, mine, toldVars, unanswered>>

\* UploadDocsMedia, bound to the media block; find is the rollback.
Upload(o) ==
  /\ pc = "upload"
  /\ pc' = IF o = "ok" /\ mine \in DOMAIN token THEN "attach" ELSE "find"
  /\ UNCHANGED <<docVars, otherVars, kind, at, arg, mine, toldVars, unanswered>>

\* Mutant: the same index for every file.
NextAtStays == at

\* "keep the argument order instead of reversing it"
NextAt == IF at >= 0 THEN at + 1 ELSE at

\* Mutant: the answer to the patch is not looked at.
AttachUnchecked(o) ==
  /\ pc = "attach"
  /\ token' = IF Took(o) /\ mine \in DOMAIN token THEN [token EXCEPT ![mine] = arg] ELSE token
  /\ printed' = Append(printed, mine)
  /\ arg' = arg + 1
  /\ at' = NextAt
  /\ mine' = 0
  /\ pc' = IF arg = NFiles THEN "done" ELSE "stat"
  /\ UNCHANGED <<page, fresh, otherVars, kind, leftover, unanswered>>

\* The patch that puts the token into the media block, and the next file.
Attach(o) ==
  /\ pc = "attach"
  /\ token' = IF Took(o) /\ mine \in DOMAIN token THEN [token EXCEPT ![mine] = arg] ELSE token
  /\ IF o = "ok" /\ mine \in DOMAIN token
       THEN /\ printed' = Append(printed, mine)
            /\ arg' = arg + 1
            /\ at' = NextAt
            /\ mine' = 0
            /\ pc' = IF arg = NFiles THEN "done" ELSE "stat"
       ELSE /\ pc' = "find"
            /\ UNCHANGED <<printed, arg, at, mine>>
  /\ UNCHANGED <<page, fresh, otherVars, kind, leftover, unanswered>>

\* DeleteDocumentBlock asks for the parent of the block first.
FindParent(o) ==
  /\ pc = "find"
  /\ IF o = "ok" /\ mine \in DOMAIN token
       THEN pc' = "delete" /\ UNCHANGED leftover
       ELSE pc' = "failed" /\ leftover' = mine
  /\ UNCHANGED <<docVars, otherVars, kind, at, arg, mine, printed, unanswered>>

\* Mutant: the block that would have held the token.
RollbackBlockInner == Media(mine)

\* The wrapper of an attachment, not the block in it.
RollbackBlock == CreatedBlock(mine)

Delete(o) ==
  /\ pc = "delete"
  /\ IF Took(o) THEN RemoveBlock(RollbackBlock) ELSE UNCHANGED <<page, token>>
  /\ leftover' = IF o = "ok" THEN 0 ELSE mine
  /\ pc' = "failed"
  /\ UNCHANGED <<fresh, otherVars, kind, at, arg, mine, printed, unanswered>>

Next ==
  \/ \E i \in 1 .. Len(page) + 1 : ColleagueInserts(i)
  \/ \E b \in ToSet(page) : ColleagueDeletes(b)
  \/ Stat \/ Open
  \/ \E o \in Outcomes :
       \/ Create(o)
       \/ o # "unreadable" /\ (Resolve(o) \/ Upload(o) \/ Attach(o) \/ FindParent(o) \/ Delete(o))

Spec == Init /\ [][Next]_vars

-----------------------------------------------------------------------------
(* Properties.                                                             *)

\* A block without media, which Feishu shows as a broken placeholder.
Broken(n) == n \notin DOMAIN token \/ token[n] = NoFile

\* "Roll it back so a failed upload does not scar the document": when the
\* command has ended, every broken block on the page is the one that the error
\* message names, or one whose creation was never answered.
NoScar ==
  pc \in Ended =>
    \A b \in ToSet(page) :
      b[1] # "text" /\ Broken(b[2]) => b[2] = leftover \/ b[2] \in unanswered

\* A file reported as added is in the document, whatever becomes of the files
\* after it, unless the colleague took it out.
ReportedHolds ==
  \A k \in DOMAIN printed :
    \/ printed[k] \in DOMAIN token /\ token[printed[k]] = k
    \/ others > 0 /\ printed[k] \notin DOMAIN token

Place(n) == CHOOSE i \in DOMAIN page : page[i] = CreatedBlock(n)

\* "keep the argument order instead of reversing it": the files added are in
\* the order of the arguments; with --index, as long as the colleague inserts
\* nothing, though he may delete.
ArgumentOrder ==
  at = -1 \/ ~inserted =>
    \A j, k \in DOMAIN printed :
      j < k /\ {printed[j], printed[k]} \subseteq DOMAIN token =>
        Place(printed[j]) < Place(printed[k])
=============================================================================
