------------------------------ MODULE DocUpdate ------------------------------
(***************************************************************************)
(* `docs export --format md`, an edit of the file, and `docs update`.      *)
(*                                                                         *)
(* With block markers in the file the update is a diff (doDiffUpdate):     *)
(* change blocks in one request, delete the unreferenced ones, append the  *)
(* new ones.  Without markers it replaces the document (doFullReplace):    *)
(* delete every block, then create the tree depth first                    *)
(* (createEntriesRecursive), in batches that are sent once more after an   *)
(* error that has "429" in its text.  Every request can fail, with or      *)
(* without having taken effect, and a colleague works on the document at   *)
(* the same time.                                                          *)
(*                                                                         *)
(* The document itself belongs to the Feishu server: its effects (AddBlocks,*)
(* RemoveBlock, SetText) are modelled from how the code uses them.         *)
(***************************************************************************)
EXTENDS DocMarkdown

CONSTANTS
  Docs,        \* the documents a run starts from
  BatchSize,   \* batchSize: blocks per create request
  Editable,    \* the kinds of line whose text the user changes
  Insertable,  \* the kinds of line the user adds
  MaxEdits,    \* bound: edits of the file
  MaxOthers,   \* bound: changes by the colleague
  Outcomes     \* what can become of a request

\* ok: done.  limited: not done, and the error has "429" in its text.  failed:
\* not done otherwise.  lost: done, but the answer never arrived.  lost429: done,
\* and the error about the answer has "429" in its text, in an id or a port.
ASSUME UpdateAssumption ==
  /\ BatchSize \in Nat \ {0}
  /\ MaxEdits \in Nat /\ MaxOthers \in Nat
  /\ Editable \subseteq LineKinds /\ Insertable \subseteq LineKinds
  /\ Outcomes \subseteq {"ok", "limited", "failed", "lost", "lost429"}

\* No block is a child of two.
OneParent(d) ==
  \A a, b \in DOMAIN d : a # b => ToSet(d[a].children) \cap ToSet(d[b].children) = {}

\* A document is a tree, numbered from the page on, each block before its children.
ASSUME DocsAssumption ==
  \A d \in Docs :
    /\ Max(DOMAIN d) \in Nat /\ DOMAIN d = 0 .. Max(DOMAIN d)
    /\ d \in [DOMAIN d -> Blocks(DOMAIN d)]
    /\ \A b \in DOMAIN d : \A c \in ToSet(d[b].children) : b < c
    /\ OneParent(d)

VARIABLES
  doc,       \* the document on the server
  fresh,     \* the server's next block id
  exported,  \* history: the document that was exported
  file,      \* the Markdown file, a sequence of lines
  edits,     \* history: how often the user edited the file
  pc,        \* where the command is
  entries,   \* what parseMarkdownWithIDs made of the file
  base,      \* blocksResp: the document as the command read it
  deletes,   \* block ids still to delete
  at,        \* createEntriesRecursive: the next entry
  path,      \* createEntriesRecursive: the block under creation, per level
  flat,      \* flatBlocks: entries collected for the next batchCreateBlocks
  todo,      \* batchCreateBlocks: entries still to send
  retried,   \* the current create request is sent for the second time
  lastErr,   \* a batch has failed
  twice,     \* history: entries sent again although they had been created
  unnamed,   \* history: entries created by an answer that named no block
  made,      \* history: <<entry, block>> for every block created for an entry
  skipped,   \* history: blocks whose deletion failed
  others     \* history: what the colleague did, blocks added or changed

fileVars == <<exported, file, edits>>
planVars == <<entries, base>>
walkVars == <<at, path, flat>>
sendVars == <<todo, retried, lastErr, twice, unnamed>>
vars == <<doc, fresh, fileVars, pc, planVars, deletes, walkVars, sendVars,
          made, skipped, others>>

Init ==
  /\ doc \in Docs
  /\ fresh = Max(DOMAIN doc) + 1
  /\ exported = doc
  /\ file = << >>
  /\ edits = 0
  /\ pc = "export"
  /\ entries = << >>
  /\ base = << >>
  /\ deletes = << >>
  /\ at = 1
  /\ path = << >>
  /\ flat = << >>
  /\ todo = << >>
  /\ retried = FALSE
  /\ lastErr = FALSE
  /\ twice = {}
  /\ unnamed = {}
  /\ made = {}
  /\ skipped = {}
  /\ others = {}

-----------------------------------------------------------------------------
(* The server.                                                             *)

NewBlock(type, text, style) ==
  [type |-> type, text |-> text, style |-> style, children |-> << >>]

\* Everything below block b, b included.
Subtree(d, b) ==
  LET below[x \in DOMAIN d] ==
        {x} \cup UNION {below[c] : c \in ToSet(d[x].children)}
  IN below[b]

RemoveBlock(d, b) ==
  LET left == DOMAIN d \ Subtree(d, b) IN
  IF b \notin DOMAIN d THEN d
  ELSE [x \in left |-> [d[x] EXCEPT !.children = Keep(@, left)]]

SetText(d, b, t) == [d EXCEPT ![b].text = t]

\* The id of the k-th of the new blocks bs, counted from id: a container is
\* created with an empty text block in it, which has the id behind its own.
IdOf(bs, id, k) ==
  id + k - 1 + Cardinality({j \in 1 .. k - 1 : bs[j].type \in Containers})

\* New blocks bs at the end of parent p, their ids counted from id.
AddBlocks(d, p, bs, id) ==
  LET ids == [k \in DOMAIN bs |-> IdOf(bs, id, k)]
      all == id .. IdOf(bs, id, Len(bs) + 1) - 1
      autos == all \ ToSet(ids)
      new(x) ==
        IF x \in autos THEN NewBlock("text", "", NoStyle)
        ELSE LET k == CHOOSE k \in DOMAIN bs : ids[k] = x IN
             [bs[k] EXCEPT !.children = IF x + 1 \in autos THEN <<x + 1>> ELSE << >>]
  IN [x \in DOMAIN d \cup all |->
        IF x \in all THEN new(x)
        ELSE IF x = p THEN [d[p] EXCEPT !.children = @ \o ids] ELSE d[x]]

\* The request body of entry i: the entry alone, without its children.
Body(i) == NewBlock(entries[i].type, entries[i].text, entries[i].style)

-----------------------------------------------------------------------------
(* The user and the colleague.                                             *)

ExportFile ==
  /\ pc = "export"
  /\ exported' = doc
  /\ file' = Export(doc)
  /\ pc' = "edit"
  /\ UNCHANGED <<doc, fresh, edits, planVars, deletes, walkVars, sendVars, made,
                 skipped, others>>

Markers == {k \in DOMAIN file : file[k].kind = "marker"}

\* The lines of the block marked at k.
SectionEnd(k) ==
  LET next == {m \in Markers : m > k}
  IN IF next = {} THEN Len(file) ELSE Min(next) - 1

Edited(f) ==
  /\ pc = "edit"
  /\ edits < MaxEdits
  /\ file' = f
  /\ edits' = edits + 1
  /\ UNCHANGED <<doc, fresh, exported, pc, planVars, deletes, walkVars, sendVars,
                 made, skipped, others>>

ChangeText(k, t) ==
  /\ file[k].kind \in Editable
  /\ file[k].text # t
  /\ Edited([file EXCEPT ![k].text = t])

RemoveSection(k) == Edited(SubSeq(file, 1, k - 1) \o SubSeq(file, SectionEnd(k) + 1, Len(file)))

InsertLine(k, ln) == Edited(SubSeq(file, 1, k - 1) \o <<ln>> \o SubSeq(file, k, Len(file)))

StripMarkers ==
  /\ Markers # {}
  /\ Edited(Keep(file, {ln \in ToSet(file) : ln.kind # "marker"}))

EditFile ==
  \/ \E k \in DOMAIN file, t \in Texts : ChangeText(k, t)
  \/ \E k \in Markers : RemoveSection(k)
  \/ \E k \in Markers \cup {Len(file) + 1}, knd \in Insertable, t \in Texts :
       InsertLine(k, Line(knd, t))
  \/ StripMarkers

Ended == {"done", "failed", "refused"}

\* The colleague adds a paragraph, or rewrites a block.
Colleague ==
  /\ pc \notin Ended \cup {"export"}
  /\ Cardinality(others) < MaxOthers
  /\ UNCHANGED <<fileVars, pc, planVars, deletes, walkVars, sendVars, made, skipped>>
  /\ \/ \E t \in Texts :
          /\ doc' = AddBlocks(doc, Page, <<NewBlock("text", t, NoStyle)>>, fresh)
          /\ fresh' = fresh + 1
          /\ others' = others \cup {fresh}
     \/ \E b \in DOMAIN doc \ others, t \in Texts :
          /\ doc[b].type \in {"text", "heading", "bullet"}
          /\ doc[b].text # t
          /\ doc' = SetText(doc, b, t)
          /\ others' = others \cup {b}
          /\ UNCHANGED fresh

\* Did a request that was answered with o take effect?
Done(o) == o \in {"ok", "lost", "lost429"}

-----------------------------------------------------------------------------
(* The plan of doDiffUpdate.                                               *)

Tops == {i \in DOMAIN entries : entries[i].level = 0}

\* existingSet and wrapperOf
Wraps(d, v, b) ==
  /\ v \in ToSet(d[Page].children)
  /\ d[v].type = "view"
  /\ b \in ToSet(d[v].children)
Known(d, b) == b \in ToSet(d[Page].children) \/ \E v \in DOMAIN d : Wraps(d, v, b)

\* Mutant: the wrapper of an attachment is not kept with it.
ReferencedDirectly(d, b) ==
  \E i \in Tops : entries[i].bid = b /\ b # NoBid

\* keepSet
Referenced(d, b) ==
  \E i \in Tops :
    LET e == entries[i].bid IN
    e # NoBid /\ Known(d, e) /\ (b = e \/ Wraps(d, b, e))

Matched(d, i) == entries[i].bid # NoBid /\ Known(d, entries[i].bid)
TypeDiffers(d, i) == d[entries[i].bid].type # entries[i].type
ContentDiffers(d, i) == BlockComparable(d, entries[i].bid) # EntryComparable(entries, i)

Unsupported(d, i) ==
  IF Matched(d, i)
    THEN \/ TypeDiffers(d, i)
         \/ ContentDiffers(d, i) /\ entries[i].type \in PreserveOnly
    ELSE entries[i].type \in PreserveOnly

\* updateReqs, toDelete and toCreate
Updates(d) == {i \in Tops : Matched(d, i) /\ ContentDiffers(d, i)}
ToDelete(d) == Keep(d[Page].children, {b \in DOMAIN d : ~Referenced(d, b)})
ToCreate(d) == Keep([i \in DOMAIN entries |-> i], {i \in Tops : ~Matched(d, i)})

IsDiff == \E i \in Tops : entries[i].bid # NoBid

-----------------------------------------------------------------------------
(* `docs update`.                                                          *)

\* Parsing; nothing is sent when the file is not supported.
Start ==
  /\ pc = "edit"
  /\ entries' = Parse(file).out
  /\ pc' = IF Parse(file).err \/ entries' = << >> THEN "refused" ELSE "get"
  /\ UNCHANGED <<doc, fresh, fileVars, base, deletes, walkVars, sendVars, made,
                 skipped, others>>

\* GetDocumentBlocks, and what is computed from its answer.
GetBlocks(o) ==
  /\ pc = "get"
  /\ o \in {"ok", "failed"}
  /\ UNCHANGED <<doc, fresh, fileVars, entries, at, flat, retried, lastErr, twice,
                 unnamed, made, skipped, others>>
  /\ \/ /\ o # "ok"
        /\ pc' = "failed"
        /\ UNCHANGED <<base, deletes, path, todo>>
     \/ /\ o = "ok"
        /\ ~IsDiff
        /\ base' = doc
        /\ deletes' = doc[Page].children
        /\ path' = <<Page>>
        /\ pc' = "delete"
        /\ UNCHANGED todo
     \/ /\ o = "ok"
        /\ IsDiff
        /\ base' = doc
        /\ UNCHANGED path
        /\ IF \E i \in Tops : Unsupported(doc, i)
             THEN pc' = "refused" /\ UNCHANGED <<deletes, todo>>
             ELSE /\ deletes' = ToDelete(doc)
                  /\ todo' = ToCreate(doc)
                  /\ pc' = IF Updates(doc) = {} THEN "delete" ELSE "update"

\* Mutant: headings are forgotten.
RewritableForgets == {"text", "bullet", "code"}

\* entryElements: the types whose text an update request carries.
Rewritable == {"text", "bullet", "code", "heading"}

\* The update request: a later request for the same block wins.  Requests
\* without elements are ignored by the server, or fail the whole batch.
Rewritten(d) ==
  LET requests(b) == {i \in Updates(base) : entries[i].bid = b /\ entries[i].type \in Rewritable}
  IN [b \in DOMAIN d |->
        IF requests(b) = {} THEN d[b]
        ELSE [d[b] EXCEPT !.text = entries[Max(requests(b))].text]]

BatchUpdate(o) ==
  /\ pc = "update"
  /\ pc' = IF o = "ok" THEN "delete" ELSE "failed"
  /\ doc' = IF Done(o) THEN Rewritten(doc) ELSE doc
  /\ UNCHANGED <<fresh, fileVars, planVars, deletes, walkVars, sendVars, made,
                 skipped, others>>

\* DeleteDocumentBlock: its answer is not looked at.
DeleteNext(o) ==
  /\ pc = "delete"
  /\ deletes # << >>
  /\ doc' = IF Done(o) THEN RemoveBlock(doc, Head(deletes)) ELSE doc
  /\ skipped' = IF Done(o) THEN skipped ELSE skipped \cup {Head(deletes)}
  /\ deletes' = Tail(deletes)
  /\ UNCHANGED <<fresh, fileVars, pc, planVars, walkVars, sendVars, made, others>>

\* Mutant: what is still on the page is deleted too.
DeletesDoneSweeping ==
  /\ pc = "delete"
  /\ deletes = << >>
  /\ doc' = IF IsDiff THEN doc ELSE FoldLeft(RemoveBlock, doc, doc[Page].children)
  /\ pc' = IF ~IsDiff THEN "walk" ELSE IF todo = << >> THEN "done" ELSE "create"
  /\ UNCHANGED <<fresh, fileVars, planVars, deletes, walkVars, sendVars, made,
                 skipped, others>>

DeletesDone ==
  /\ pc = "delete"
  /\ deletes = << >>
  /\ pc' = IF ~IsDiff THEN "walk" ELSE IF todo = << >> THEN "done" ELSE "create"
  /\ UNCHANGED <<doc, fresh, fileVars, planVars, deletes, walkVars, sendVars, made,
                 skipped, others>>

\* The block that createEntriesRecursive or doDiffUpdate creates under.
Parent == IF IsDiff THEN Page ELSE Last(path)

\* The effect of a create request for entries is (a sequence of indices).
Created(is) ==
  LET bodies == [k \in DOMAIN is |-> Body(is[k])]
  IN /\ doc' = AddBlocks(doc, Parent, bodies, fresh)
     /\ fresh' = IdOf(bodies, fresh, Len(is) + 1)
     /\ made' = made \cup {<<is[k], IdOf(bodies, fresh, k)>> : k \in DOMAIN is}

NotCreated == UNCHANGED <<doc, fresh, made, twice>>

\* Mutant: any error is retried.
RetriesAnyError(o) == o # "ok" /\ ~retried

\* Is a request that was answered with o sent again?  The code looks for "429"
\* anywhere in the text of the error.
Retries(o) == o \in {"limited", "lost429"} /\ ~retried

\* The entries is are sent again although they were created.
SentTwice(is, o) ==
  twice' = IF o = "lost429" /\ ~retried THEN twice \cup ToSet(is) ELSE twice

\* One request of batchCreateBlocks.  A batch that fails is reported at the
\* end; the batches behind it are sent all the same.
CreateBatch(o) ==
  LET n == IF Len(todo) < BatchSize THEN Len(todo) ELSE BatchSize
      effect == Done(o) /\ Parent \in DOMAIN doc
  IN
  /\ pc = "create"
  /\ todo # << >>
  /\ IF effect THEN Created(SubSeq(todo, 1, n)) /\ SentTwice(SubSeq(todo, 1, n), o)
               ELSE NotCreated
  /\ retried' = Retries(o)
  /\ todo' = IF Retries(o) THEN todo ELSE SubSeq(todo, n + 1, Len(todo))
  /\ lastErr' = (lastErr \/ ~(Retries(o) \/ (effect /\ o = "ok")))
  /\ UNCHANGED <<fileVars, pc, planVars, deletes, walkVars, unnamed, skipped, others>>

BatchesDone ==
  /\ pc = "create"
  /\ todo = << >>
  /\ pc' = IF lastErr THEN "failed" ELSE IF IsDiff THEN "done" ELSE "walk"
  /\ UNCHANGED <<doc, fresh, fileVars, planVars, deletes, walkVars, sendVars, made,
                 skipped, others>>

-----------------------------------------------------------------------------
(* createEntriesRecursive.                                                 *)

\* The next entry belongs to the list of the block under creation.
InList == at <= Len(entries) /\ entries[at].level = Len(path) - 1

\* Send the collected entries before a parent, or at the end of the list.
Flush ==
  /\ flat # << >>
  /\ todo' = flat
  /\ flat' = << >>
  /\ pc' = "create"
  /\ UNCHANGED <<at, path>>

Collect ==
  /\ InList
  /\ ~HasChildren(entries, at)
  /\ flat' = Append(flat, at)
  /\ at' = at + 1
  /\ UNCHANGED <<pc, path, todo>>

\* Mutant: the entries before a parent are created after it.
ReachParentFirst ==
  /\ InList
  /\ HasChildren(entries, at)
  /\ pc' = "parent"
  /\ UNCHANGED <<at, path, flat, todo>>

ReachParent ==
  /\ InList
  /\ HasChildren(entries, at)
  /\ \/ Flush
     \/ flat = << >> /\ pc' = "parent" /\ UNCHANGED <<at, path, flat, todo>>

\* Mutant: a finished list does not return to the list around it.
EndOfListStays ==
  /\ ~InList
  /\ \/ Flush
     \/ /\ flat = << >>
        /\ pc' = IF Len(path) = 1 THEN "done" ELSE "walk"
        /\ UNCHANGED <<path, at, flat, todo>>

EndOfList ==
  /\ ~InList
  /\ \/ Flush
     \/ /\ flat = << >>
        /\ pc' = IF Len(path) = 1 THEN "done" ELSE "walk"
        /\ path' = IF Len(path) = 1 THEN path ELSE Front(path)
        /\ UNCHANGED <<at, flat, todo>>

Walk ==
  /\ pc = "walk"
  /\ Collect \/ ReachParent \/ EndOfList
  /\ UNCHANGED <<doc, fresh, fileVars, planVars, deletes, retried, lastErr, twice,
                 unnamed, made, skipped, others>>

\* batchCreateBlocksReturnIDs for an entry with children.  When the answer names
\* no block what is nested in the entry is passed over.
CreateParent(o) ==
  LET effect == Done(o) /\ Parent \in DOMAIN doc
      created == effect /\ o = "ok"
  IN
  /\ pc = "parent"
  /\ IF effect THEN Created(<<at>>) /\ SentTwice(<<at>>, o) ELSE NotCreated
  /\ retried' = Retries(o)
  /\ \/ /\ created
        /\ path' = Append(path, fresh)
        /\ at' = at + 1
        /\ pc' = IF entries[at].type \in Containers THEN "find" ELSE "walk"
        /\ UNCHANGED unnamed
     \/ /\ created
        /\ unnamed' = unnamed \cup {at}
        /\ at' = After(entries, at)
        /\ pc' = "walk"
        /\ UNCHANGED path
     \/ /\ ~created
        /\ pc' = IF Retries(o) THEN "parent" ELSE "failed"
        /\ UNCHANGED <<at, path, unnamed>>
  /\ UNCHANGED <<fileVars, planVars, deletes, flat, todo, lastErr, skipped, others>>

\* findAutoChild: when the document cannot be read there is none.
FindAutoChild(o) ==
  /\ pc = "find"
  /\ o \in {"ok", "failed"}
  /\ pc' = IF o = "ok" /\ Last(path) \in DOMAIN doc /\ doc[Last(path)].children # << >>
             THEN "fill" ELSE "walk"
  /\ UNCHANGED <<doc, fresh, fileVars, planVars, deletes, walkVars, sendVars, made,
                 skipped, others>>

\* updateAutoChild: entry at, the container's first child, goes into the block
\* the server made.  The entry counts as created only when it landed there.
FillAutoChild(o) ==
  LET auto == Head(doc[Last(path)].children) IN
  /\ pc = "fill"
  /\ IF Done(o)
       THEN /\ doc' = SetText(doc, auto, entries[at].text)
            /\ made' = made \cup {<<at, auto>>}
       ELSE UNCHANGED <<doc, made>>
  /\ at' = IF o = "ok" THEN After(entries, at) ELSE at
  /\ pc' = IF o = "ok" THEN "walk" ELSE "failed"
  /\ UNCHANGED <<fresh, fileVars, planVars, deletes, path, flat, sendVars, skipped, others>>

Request(o) ==
  \/ GetBlocks(o) \/ BatchUpdate(o) \/ DeleteNext(o)
  \/ CreateBatch(o) \/ CreateParent(o) \/ FindAutoChild(o) \/ FillAutoChild(o)

\* What the command does once it runs.
Command ==
  \/ DeletesDone \/ BatchesDone \/ Walk
  \/ \E o \in Outcomes : Request(o)

Next == ExportFile \/ EditFile \/ Colleague \/ Start \/ Command

Spec == Init /\ [][Next]_vars

\* The command is one goroutine, and the clients' timeouts (45 s through the
\* gateway, 60 s directly) end every request; people need not do anything.
FairSpec == Spec /\ WF_vars(Command)

-----------------------------------------------------------------------------
(* Properties.                                                             *)

\* A block and everything below it, in reading order.
Order(d, b) ==
  LET f[x \in DOMAIN d] ==
        <<x>> \o FlattenSeq([k \in DOMAIN d[x].children |-> f[d[x].children[k]]])
  IN f[b]

Shows(b, i) == doc[b].type = entries[i].type /\ doc[b].text = entries[i].text

\* The entry whose list entry i is in, 0 for the top level.
ParentEntry(i) ==
  LET above == {j \in 1 .. i - 1 : entries[j].level < entries[i].level}
  IN IF above = {} THEN 0 ELSE Max(above)

\* A replacement that ends well (doFullReplace returns nil) leaves every entry
\* of the file in the document exactly once, in the order of the file, with
\* its text, and under the block of the entry it is nested in, however often
\* a batch was retried and whatever the auto-created children did.  (It does
\* not when entries that had been created were sent again, or when an answer
\* named no block to create the nested entries under: the command ends well
\* all the same.)
ReplaceLands ==
  pc = "done" /\ ~IsDiff /\ twice = {} /\ unnamed = {} =>
    LET placed == Keep(Order(doc, Page), {m[2] : m \in made})
    IN /\ Len(placed) = Len(entries)
       /\ \A i \in DOMAIN entries :
            /\ placed[i] \in others \/ Shows(placed[i], i)
            /\ LET p == ParentEntry(i) IN
               placed[i] \in ToSet(doc[IF p = 0 THEN Page ELSE placed[p]].children)

\* No entry is created twice, even when a request took effect and its answer
\* was lost, but for those that were sent again because the error of the lost
\* answer read as a 429 (batchCreateBlocks and batchCreateBlocksReturnIDs).
AtMostOnce == \A m, n \in made : m[1] = n[1] => m = n \/ m[1] \in twice

\* The block of a top-level entry after a diff: the marked one, or the one made for it.
BlockOf(i) == IF Matched(base, i) THEN entries[i].bid
              ELSE CHOOSE b \in DOMAIN doc : <<i, b>> \in made

\* A diff that ends well leaves the page with exactly the blocks of the file:
\* each top-level entry has its block there, or in a view there, and whatever
\* else is on the page could not be deleted, was changed by a colleague, or was
\* made for an entry that was sent again although it had been created
\* (doDiffUpdate returns nil only if every batch was created).
DiffPlaces ==
  pc = "done" /\ IsDiff =>
    /\ \A i \in Tops : Known(doc, BlockOf(i))
    /\ \A b \in ToSet(doc[Page].children) \ (skipped \cup others) :
         \E i \in Tops : \/ b = BlockOf(i) \/ Wraps(doc, b, BlockOf(i))
                         \/ i \in twice /\ <<i, b>> \in made

\* The types whose edits a diff does not carry out: their requests are empty.
Unwritten == {"ordered", "todo"} \cup Containers

SameContents(b, i) == BlockComparable(doc, b) = EntryComparable(entries, i)

\* The block of entry i is as it was read: the entry is edited, but of a type
\* that is not rewritten.
LeftAlone(i) ==
  /\ Matched(base, i) /\ i \in Updates(base) /\ entries[i].type \in Unwritten
  /\ BlockComparable(doc, BlockOf(i)) = BlockComparable(base, BlockOf(i))

\* The block of entry i is a new container, with what the server put in it.
MadeEmpty(i) ==
  /\ ~Matched(base, i) /\ entries[i].type \in Containers
  /\ ContentOf(doc, BlockOf(i)) = <<"">>

\* After a diff that ends well the block of each top-level entry has the type and
\* the contents of the entry, unless a colleague changed it or what is in it, or
\* the user edited a type that is not rewritten, in which case the block stays as
\* it was, or the entry is a new quote, which is left empty (buildUpdateRequest
\* and entryElements against the comparables; batchCreateBlocks).  The help of the
\* command, "only changed blocks are updated, new blocks are created"
\* (main.go:1156), does not make these two exceptions.
DiffLands ==
  pc = "done" /\ IsDiff =>
    \A i \in Tops :
      LET b == BlockOf(i) IN
      \/ ToSet(Order(doc, b)) \cap others # {}
      \/ doc[b].type = entries[i].type /\ (SameContents(b, i) \/ LeftAlone(i) \/ MadeEmpty(i))

\* A block whose marker is in the file is never deleted by the diff, nor is
\* the view that wraps it (keepSet and wrapperOf of doDiffUpdate).
MarkedSurvive ==
  IsDiff /\ pc # "edit" =>
    \A i \in Tops : entries[i].bid \in DOMAIN base => entries[i].bid \in DOMAIN doc

\* What a colleague adds after the command has read the document survives the
\* command, in both modes: deletions name blocks that were read.
NewcomersSurvive == others \ DOMAIN base \subseteq DOMAIN doc

\* An export that nobody edited, sent back, changes nothing: the comparable of
\* every block is the comparable of its own Markdown (blockComparableContent
\* against mdBlockEntry.Comparable), and no block loses its marker on the way.
UneditedIsNoop == edits = 0 /\ others = {} /\ pc \in Ended => doc = exported

\* A command that has begun ends, whatever the server answers: batches are
\* retried once, and createEntriesRecursive gets past every entry.
UpdateEnds == pc = "get" ~> pc \in Ended
=============================================================================
