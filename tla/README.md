# larkctl: a TLA+ verification project

`larkctl` is a command line client of Feishu, written in Go. It talks to Feishu
directly (*local mode*) or through a gateway (*gateway mode*), keeps its
credentials in `~/.lark/config.json`, converts documents to and from Markdown,
and has a long-running command, `larkctl agent serve`, that lets its user drive
a local Claude Code from Feishu chats. This directory models the parts whose
correctness depends on the order of steps, on concurrency and on failure.

| file | what it is |
|---|---|
| `AgentServe.tla` | `agent serve`: stream callback, workers, interrupts, sessions |
| `AgentMailbox.tla` | what `agent serve` promises its users: the abstract specification |
| `AgentServeProofs.tla` | its safety and its refinement, proved for all constants |
| `DocMarkdown.tla` | a document as Markdown and back, the pure algorithms |
| `DocUpdate.tla` | `docs export`, an edited file, `docs update` |
| `DocUpdateProofs.tla` | nothing is created twice and newcomers stay, proved for all constants |
| `Credentials.tla` | `config.json`, tokens, sessions, the processes that share them |
| `CredentialsProofs.tla` | its safety, proved for all constants |
| `DocsMedia.tla` | `docs add-image`, `docs add-file` with their rollback |
| `DocsMediaProofs.tla` | its safety, proved for all constants |
| `Transfers.tla` | exports, downloads, images, `drive import`, `upgrade`: jobs of the server and local files |
| `TransfersProofs.tla` | the program stays runnable, verdicts are true and files are accounted for, proved for all constants |
| `MadeInSteps.tla` | mail, calendar, tasks, board, messages, mentions: what takes several requests |
| `MadeInStepsProofs.tla` | its safety, proved for all constants |
| `DataInduction.tla` | lemmas for these proofs: induction over numbers and over the lists of a fold, lists put together |
| `EventStream.tla` | the event stream from its lines to the callback of `im listen` |
| `EventStreamProofs.tla` | its safety, proved for all constants |
| `MC*.tla`, `*.cfg` | small instances for TLC, one `.cfg` per run |
| `PROJECT.json` | components, runs, mutants, the map to the source, findings, hazards, theorems |

Check a run with `tlc -config DocsMedia.cfg MCDocsMedia.tla`, the proofs with
`tlapm AgentServeProofs.tla`, and so on for each `*Proofs.tla` and
`DataInduction.tla`.

## 1. Inventory

One process per command; a process is sequential but for three goroutines: the
worker of a chat and the answer to a `/stop` (`agent_serve.go:558`, `:612`) and
the HTTP server that waits for the OAuth callback (`local_auth.go:79`). `main`
runs its commands without a context (`main.go:168`), so nothing cancels them but
a signal. Requests time out after 60 s (local) or 45 s (gateway).

| component | state | operations | hard part | what makes it correct |
|---|---|---|---|---|
| agent serve (`agent_serve.go`, `agent_state.go`) | per chat: a channel of 16, drained batch, merged group, a cancel function; session, directory; a shared workspace registry on disk | the callback routes, interrupts, offers; the worker drains, merges, downloads, runs claude, answers | callback, workers and repliers interleave at every point; the cancel function is armed and disarmed around a turn | no accepted message lost, reordered or answered twice; a cancel reaches only earlier messages; a session belongs to its directory; everything is answered in the end |
| document update (`main.go:1055-1680`) | the document on the server; an old copy in a file; a plan | read, update, delete, create in batches, descend | 10 to 100s of requests while others edit; a create is not idempotent; 429; the server adds children of its own | what the file says is what is in the document, once and in order; nothing else is touched |
| Markdown conversion (`markdown.go`) | a pending marker, the construct being parsed | render, parse, compare | each construct consumes the marker; two comparables must agree | an unedited file is a no-op |
| credentials (`session_store.go`, `local_paths.go`, `local_auth.go`, `local_client.go:63-211`, `gateway_client.go:129-183, 1331-1433`) | `config.json`, tokens in memory, Feishu's and the gateway's side of them | init, login, logout, load, refresh, fallback, resend | processes share one file without a lock; refresh tokens work once; crashes between use and save | the file's token is usable; no expired token is sent; a resend repeats nothing |
| media insertion (`docs_media.go`) | the blocks made so far, the next index | create, upload, patch, roll back | five requests per file, each can fail | no broken block the user is not told of |
| event stream (`sse.go`, `gateway_client.go:1435`, `im listen`) | a frame being read, the flag *superseded* | parse, reconnect, end | a stream breaks off in the middle of a line; listeners of one account take it from each other; the session expires | frames reach the callback whole and in order; only a listener that was followed by another ends; the others come back |
| exports, imports, images, downloads (`main.go:457-777, 1077-1143, 1880-1955, 2042-2211, 3008`) | a job of the server, local files | list, create, poll, open, copy, rename | a deadline against a late job; a download that breaks off; two commands that write one name; disk errors and kills | a file reported as saved is complete, whatever is incomplete is explained; nothing is reported that the server did not say |
| scope upgrade (`main.go:4063`) | scopes of the session | ask, poll | errors are ignored for five minutes | it ends |
| self-upgrade (`main.go:4200`) | the binary and `<binary>.tmp` | download, rename | two upgrades share the temporary file | the program can always be run |
| mail (`mail_cmd.go`, `mail_eml.go`) | a draft on the server | draft, send, delete one by one | a lost answer to a send; whom a reply reaches | what the user is told is true; nobody is left out of a reply |
| calendar (`main.go:3580`) | an event | create, look for and check the room, invite | the event exists before its people and its room | an event reported without a warning is complete |
| tasks (`main.go:3133-3496`, `types.go:123-254`) | members of a task or tasklist | resolve names, add, remove | the second request fails after the first | members are as asked when the command says so |
| board (`main.go:3978-4034`) | nodes | create with a token, delete in batches of 100 | a failed batch, a lost answer | no node passed over |
| messages, drive, sheets, bitable, wiki, contacts, comments, permissions (`main.go`) | none | lookups and one request | | |
| API interface, types, formatting, schema, `mcp` | none | | | |

**Interactions.** Every command loads its client through `authedClient`
(`main.go:4119`): the mode, then the tokens or the session of `config.json`. A
local client refreshes and saves its token within any request; a gateway client
renews its session and sends the request again. `agent serve` is a client of
the gateway's event stream and of `/v1/bot/reply`, and a parent of `claude`
processes. `docs update` and `docs add-image` share the block API of a document
with everybody else who edits it. The `hazards` of `PROJECT.json` list
what can go wrong in all this, at its line, with the property that covers it or
the reason why none does.

## 2. Plan

1. *Done.* `AgentMailbox`, `AgentServe` with its proofs: the only concurrent
   program of the repository, so the first. `DocMarkdown`, `DocUpdate`: the
   longest sequence of requests. `Credentials`: shared by everything.
   `DocsMedia`: the one command with a rollback.
2. *Done.* `Transfers`: every command that polls a job or fills a local file,
   in pairs that share names, with proofs. `MadeInSteps`: an object that is made first and
   completed by later requests, with a user who tries again. `EventStream`: the
   lines of the stream, its listeners and the session, with its proofs.
3. *Next.* `InlineMarkdown`: parseInlineMarkdown and renderElements as functions,
   checked for the round trip over bounded inputs; tables' cells. An abstract
   document for `DocUpdate` (the set of entries that must land) with a refinement
   mapping, and an abstract token store for `Credentials` (a token is handed from
   holder to holder).
4. *Proofs.* Done for `AgentServe`, `Credentials`, `DocsMedia`, `MadeInSteps`,
   `EventStream` and `Transfers`: every safety property a run of theirs checks; for
   `DocUpdate` all but `DiffLands`, the contents of the blocks. Next: the
   refinements of step 3.

## 3. agent serve

### Model

The callback is `Receive` (everything up to the `select`), then `Enqueue`, one
after the other, because it runs on the stream's goroutine: `cb` is the message
between the two. A `/stop` that finds a turn to cancel leaves the callback
instead and is answered by `StopReply`, a goroutine of its own. `Supersede`,
`StreamEnd` and `Reconnect` are the rest of `agentServe`.

A worker is the loop of `agent_serve.go:558-591`: `Take`, `Drain`, `DrainDone`,
`NextGroup`, `Download` or `MediaFailReply`, `BeginTurn` (which arms the
cancel), one of `RunPrompt`/`RunEnd` and the commands `HandleNew`, `HandleCd`,
`HandleWsUse`, `HandleWsSave`, `HandleWsRemove`, `HandleQuery`, then `Reply`,
`ReplyEnd`, `EndTurn`, `BatchDone`. Each is a separate step because another
goroutine can run between them. The answer is two steps: `Reply` sends the request,
unless the turn's context is cancelled already, and `ReplyEnd` is its end, which a
cancel may bring about. The cancel stays armed between the two, and an answer that
it finds on the way may reach the chat or not.

A message is its arrival number; of its text the model keeps a *kind*, which is
what the code branches on. `wsLike`, `wsQuiet` and `cmdArgs` are the texts that two
branches of the code classify differently. The workspace registry starts as any
that a file may hold. A claude conversation is the
directory it was started in and the number of resets the chat had had, which is
what `SessionBound` tells apart. `resets`, `fate` and `cancelBy` are history in
part: they say who cancelled what and what became of each message.

### What is checked

| run | instance | shows |
|---|---|---|
| `serve_interrupts` | 1 chat, channel of 2, 4 messages of text, media, stop, new | `TypeOK`, `Conserved`, `InOrder`, `InterruptsOnlyEarlier`, `CancelledTurnIsSilent`, and the refinement `MailboxSpec` |
| `serve_moves` | 2 chats (symmetric), channel of 1, 3 messages of text, new, cd and a text that starts with `/ws`, which may be any workspace command | `SessionBound` |
| `serve_live` | 1 chat, channel of 1, 3 messages, one kind for each path through the worker | `Delivery`, of messages and of the answers to `/stop` |
| `serve_waiting_stop` | as `serve_interrupts`, 3 messages | a finding: `StopNeverWaits` fails |

*Bounds.* Chats share only the workspace registry and the stream, so two of them
show every interaction; the channel holds 1 or 2 instead of 16, so that it is
full, partly full and empty within four messages; four messages are a turn, its
interrupter, one drained behind it and one that is dropped. `MaxMsgs` bounds the
arrivals only.

*Fairness* (`FairSpec`): weak fairness of `Enqueue`, of every `StopReply` and of
every worker. Goroutines are scheduled; a turn ends because claude runs under a
context with a timeout, whose end kills the process; replies and downloads end
by the HTTP timeout. It assumes that a killed claude closes its output. Nothing
is assumed of the users, of the stream or of other listeners.

*Deadlock* is not checked: the program ends when it is superseded, and users
may stop writing.

### What is proved

`AgentServeProofs.tla`, for every set of chats, directories and names, every
capacity and every number of messages, from `ConstantAssumption` alone:

- `Invariance`: `Spec => []IInv`, and from it `TypeCorrect`, `Conservation`,
  `OrderKept`, `CancelsEarlierTurn`, `SessionsBound`;
- `Silence`: `Spec => CancelledTurnIsSilent`, an action property: what is cancelled
  before its answer is on the way is not answered;
- `Refinement`: `Spec => MailboxSpec`, the mailbox of `AgentMailbox`.

None of the safety properties is inductive by itself. `IInv` adds `Numbered`
(arrivals are numbered, the callback holds none but the last: why a message
that is sent comes behind all others) and `Stages` (what a worker holds at each
point: why a cancel cannot outlive its turn, and why a session that a run
returns belongs to the chat's present directory). `Conserved` and `InOrder`
need each other: draining keeps the order because no message is held twice.
`Stages` carries `SessionBound`: a `/cd` is handled only between runs, so the
directory cannot change under a running claude.

The argument for a step: `PipeStep` and its corollaries treat what happens to
messages (a step moves some along, settles some, or leaves them alone),
`StagesKept`, `InterruptsKept`, `SessionsKept` the rest, each with one case per
action; `Invariance` combines them. The refinement maps the accepted, unsettled
messages of a chat to the mailbox's `waiting`, the settled ones and the `/stop`s
answered aside to `finished`; a step either is invisible, accepts, finishes at
once, settles the oldest, or closes.

## 4. Documents

### Model

`DocMarkdown` holds the two functions, `Export` (a document to lines) and
`Parse` (lines to entries), and the comparables of both sides. A line is its
kind, text, style, indent and marker. `Parse` is a fold over the lines with the
parser's own state: the pending marker and the construct it is in. Texts have no
inline markup; a code block, an equation or a table has one line of content;
headings are one type; two callouts are never adjacent.

`DocUpdate` is the story: `ExportFile`, any number of `EditFile`s up to
`MaxEdits` (change a text, insert a line, remove a block or its marker, strip
all markers), `Start` (parse), `GetBlocks` (read and plan), and then the requests
one by one: `BatchUpdate`, `DeleteNext`, `CreateBatch`, and, for a full replace,
`Walk`, the depth-first descent of `createEntriesRecursive` with an explicit path
in the place of the call stack, `CreateParent`, `FindAutoChild` and
`FillAutoChild`. `Colleague` changes the document between any two of them. A
request ends as *ok*, *limited* (not done, 429), *failed*, *lost* (done, not answered)
or *lost429* (done, and the error about the answer has "429" in its text, in an id or
a port: the code takes it for a limit and sends the request again, `main.go:1612,
1647`). `twice` are the entries that this has happened to, `unnamed` those created by
an answer that named no block, whose nested entries are passed over (`main.go:1520`).
An ordered item without a text is written as a number and read back as a paragraph
(`Numeral`, `markdown.go:1414`).

### What is checked

| run | instance | shows |
|---|---|---|
| `doc_diff` | seven documents with every kind of block, up to 2 edits of lines of any kind, batches of 2, one change by a colleague, all outcomes | `DiffPlaces`, `DiffLands`, `MarkedSurvive`, `UneditedIsNoop` |
| `doc_replace` | these, three with more nested in lists, quotes and callouts, and three that do not come back as they were, up to 1 edit, one change by a colleague, all outcomes | `ReplaceLands`, `AtMostOnce`, `NewcomersSurvive`, `UpdateEnds` |

*Bounds.* Batches of 2 instead of 10, so that documents of three to five blocks
take several batches, a last one that is not full, and a retry between them;
nesting to depth three, so that a list is entered, left and entered again; each
block type that a diff can keep, change or create occurs in a document of `doc_diff`,
an attachment in its view too, and of those that read back as another type the
equation. Two texts are enough for equal and different ones. Two edits can remove a
block and change or add another; for a replacement one is enough, which strips the
markers; one change by a colleague falls between the export
and the read, or between any two requests.

*Fairness*: `WF_vars(Command)`. The command is one goroutine and each request
has a timeout. Nothing is assumed of the user, the colleague or the server's
answers: a server that answers 429 for ever is answered with two requests per
batch. *Deadlock* is not checked because commands end.

Lines of every kind are edited in `doc_diff`, also those whose edits the code does not
carry out; `DiffLands` says what becomes of these. The documents of `doc_diff` have none
of the blocks that do not come back from the file, of which an unedited export is no
no-op (section 10); `doc_replace` has them, in replacements and in diffs.

### What is proved

`DocUpdateProofs.tla`, for any documents, texts and batch size, any number of
edits and of a colleague's changes, and any outcomes of the requests, from
`UpdateAssumption` and `DocsAssumption` (the blocks of a document are numbered from
the page on, each before its children, and none is a child of two: a document is a
finite tree, and its ids can be given in reading order):

- `EntriesOnce`: `Spec => []AtMostOnce`;
- `NewcomersKept`: `Spec => []NewcomersSurvive`;
- `ReplacementLands`: `Spec => []ReplaceLands`;
- `DiffPlaced`: `Spec => []DiffPlaces`;
- `MarkedKept`: `Spec => []MarkedSurvive`, for documents with `GridFree`;
- `UneditedKept`: `Spec => []UneditedIsNoop`, for documents with `RoundTrips`.

The strengthenings were checked by TLC on the two instances before they were
proved (`LandInv` with the blocks `bs` that the document gives, `PlaceInv` with a
colleague on the documents of `doc_diff` too). `MCDocUpdate` states `GridFree` and
`RoundTrips` of all its documents but those that do not come back, and TLC evaluates
them in both runs.

`AtMostOnce` needs to know of every entry where it is: not yet reached, collected,
waiting in a batch, or placed. In `OnceInv`, `WaitOnce` says that what is collected
or waits to be sent occurs once, and has no block yet unless it is sent again after
it was created (`twice`); `Passed` that in a replacement
all of it lies before the next entry `at`; `Placing` which of these are empty in
which stage, and that `at` names an entry where a block is about to be made for it.
A request that was lost leaves the list it was sent from, and one that was refused
with 429 made nothing, so sending it again keeps `WaitOnce`; what was made by one that
only looks refused goes into `twice` before it is sent again. `FillAutoChild` passes
all that is nested in the entry that it fills: `at` only grows. `FileTyped` is what
makes `entries` a sequence of entries at all: an export is a sequence of lines
(`ExportType`, an induction from the last block down to the page, since the lines of
a block hold those of its children), and the parser makes entries of any lines
(`ParseType`, an induction over its fold).

`NewcomersSurvive` is about deletions, which remove a block with all that is below
it. In `NewInv`, `Tree` holds until the command has read the document; from then on
deletions name blocks that were read, never the page, and the children of a block
that was read, the page aside, were read too: a colleague adds to the page, and the
command creates nothing before the last deletion. So a deletion stays within what
was read (`SubtreeIn`), and after the deletions the document only grows.

`ReplaceLands` is about a tree that is built at the end of a path. `LandInv` says that
while all requests so far were answered, the first entries have blocks `bs`, and
`Lands(bs)` where they are: these blocks are, in this order, what is made by the command
when the document is read from the page down (`Laid`; `Under` is the order in which
`ReplaceLands` reads it), each shows its entry under the block of the entry it is nested
in (`Nested`), and `path` is a way down from the page on which each block is the last
child that has any of them in it (`Trunk`), so that what a request adds to the end of
the path is read behind all of `bs` (`Waits`: the entries that wait are the next ones,
and on the level of that end; `Leads`: the blocks of the path are those of the entries
that are still open). A colleague's block at the end of the page, and a child that the
server made and nobody filled, are not among `bs` and disturb none of this. That the
level of an entry says where it is, is a fact about the parser, for any file a user may
write: the first entry is at the top, the next one is at most one level deeper, and that
below list items, quotes and callouts only (`Regular`, `ParseRegular`). So the levels of
the model are a tree, like the `Children` of the code's entries. A request that
fails or is lost ends `Landing`: the theorem is about replacements that end well. So do
an entry in `twice` and one in `unnamed`, of whose effects such a replacement learns
nothing.

`DiffPlaces` says which blocks a diff leaves on the page; that what was deleted has
gone, and that what was kept has not, is about the document while others work on it.
`PlaceInv` says in `OnPage` that what the diff keeps (`Staying`) is on the page as it
was read, type and children included, so that a view still wraps what it wrapped; that
everything on the page stays, is still to be deleted, was skipped, is a colleague's, or
was made by the command; and that what is to be deleted is neither kept nor in a view
that is (`Spare`, which a deletion does not leave, as a block has one parent). `Planned`
says that each top-level entry was matched when the document was read, or waits in
`todo`, or has a block, or `lastErr` is set, and that only entries without a match get
blocks. With `AtMostOnce` the block of an entry is one block, or the entry is in `twice`
and all its blocks are excused. What is in these blocks is
`DiffLands`, which is not proved (section 11).

`MarkedSurvive` is about ids that go through a text file and come back. `MarkInv`
says that every marker in the file, and so every id in `entries`, names a block that
was exported at the top or in a view there; `ParseTrace` follows an id through any
lines, however the user edits them. The diff keeps a block that is referenced and
the view around it; it deletes others, which are at the top too, and what is below
those: in a tree in which no block has two parents that is nothing that is kept
(`Saved`, `Loose`). `GridFree` is needed: the blocks in a grid have markers, and the
diff deletes the grid around them because it takes these markers for unknown
(section 10).

`UneditedIsNoop` needs that the parser takes an export apart into the blocks it was
made of. `Runs` is the parser, step by step, over the lines of one block; `Sound`
says of a parser between two blocks that each of its entries at the top `Stands` for
the block whose marker it took: it has the comparable content of the block, the texts
of what is nested included, unless it has another type (a `quote` reads back as a
container, a `linkPreview` as a text), which makes the diff refuse the file. There is
a lemma for each shape of block (`ReadsAs...`), lists by induction from the last block down to the page because the
lines of an item hold those of its children, and `RunsAlong` puts the blocks of the
page together. Then nothing is updated, deleted or created (`NoDiff`), and `NoopInv`
carries that to the end. `RoundTrips` leaves out what is indeed changed by a round
trip (an empty paragraph or heading, an empty code block, a quote container without
text, a grid, a block of an unknown type, an iframe, an empty view), an ordered item
without a text, and a list item that has something other than list items in it, whose
lines at the indent of the item the parser reads as entries of their own.

The functions that `Rendered` and `Subtree` define exist because a child has a
larger number than its parent (`RenderedExists`, `BelowExists`); without that they
would have no known value.

## 5. Credentials

### Model

`config.json` is `file`: the app, two tokens, the gateways with a session, the
saved gateway URL. Tokens are numbers of Feishu's `grants`; a grant has an age
(*fresh*, *due* within five minutes, *expired*), and a refresh token is in
`live` until a refresh replaces it. Every store operation is `Load`, `Write`
and `Save` (or `SaveFails`): a read of the whole file, a temporary file, its rename
over the file, with other processes, and kills, in between. `op` says which operation
a process is in; `Updated` what each changes. `stored` is what the completed
operations make of the first file, each as if it were alone; `overlapped` says that
a process has read the file while another one was between its read and its rename.

A command is `Begin`, `Mode`, then one of the ways: `LoadApp`, `Authorize`,
`Exchange` (login) or `LoadTokens`, and `Check`, `Refresh`, `Fallback`,
`Request`, again for as many requests as the command has; in gateway mode
`StartLogin`, `Poll`, `TimePasses`, `Deadline`, or `LoadSession`, `Send`,
`Renew`, `Resend`, or `Revoke`. `Killed` ends a process anywhere. Feishu and the
gateway are external: `Issue`, `Usable`, `Ages`, `SessionExpires`. The variables
that override the file (`LARKCTL_SESSION_TOKEN`, `FEISHU_APP_ID`,
`LARKCTL_MODE`, `FEISHU_GATEWAY_URL`) are not set.

`Ages` holds one assumption about time: a request that was sent with a token
that was not due ends (60 s) before the token has gone through the five minutes
in which it is due.

### What is checked

| run | instance | shows |
|---|---|---|
| `creds_alone` | one process, 4 commands of all kinds, 2 apps, 2 gateways, all outcomes, kills, a full disk | `AutoRefreshed`, `CarriedOutOnce`, `DeviceLoginEnds` |
| `creds_shared` | two processes (symmetric), 4 commands, 3 tokens, local mode, kills, a full disk, a file that holds an app and a gateway's session | `LiveTokenKept`, `RequestsAuthorized`, `StoresInTurn` |

*Bounds.* Two processes are a race; of four commands one logs in and three use,
refresh or clear what it got; three tokens are a login and two refreshes, one after
the other or at once. That init and the sessions of gateways keep `StoresInTurn` too is
shown by its proof only. `creds_shared` assumes that every
refresh brings a new refresh token (`Renewals`), as v2 of the endpoint does; with an
app that brings one only sometimes `LiveTokenKept` fails (a hazard).

*Fairness*: each process takes its own steps (requests end by their timeouts,
clocks go on); the user's answer in the browser is not fair. *Deadlock* is not
checked because commands end.

### What is proved

`CredentialsProofs.tla`, from the two assumptions of `Credentials` (the constants
are of their kinds, and `config.json` holds no tokens at first), for any number
of processes, apps, gateways, commands and tokens, with every outcome and fault:

- `Types`: `Spec => []TypeOK`, and `Authorized`: `Spec => []RequestsAuthorized`,
  by the invariant `IInv`. `RequestsAuthorized` is not inductive: `SeenFresh`
  carries it from the check, or the refresh, to the request, and says that the
  token was seen fresh, which is what keeps `Ages` from expiring it meanwhile.
- `Once`: `Spec => []CarriedOutOnce`, by `AtMostOnce`: until its last request a
  command has had nothing carried out, because only a request that was refused
  for an expired session is sent again.
- `TokenKept`: `Spec => []LiveTokenKept` under `LocalOnly` (no `init` and no
  gateway command runs, the app is configured, each refresh brings a new refresh
  token). The file is written from stale copies, so what must be shown is that
  the tokens in the hands of a process that is about to save are good whenever
  it comes to save them: `Own` says that its refresh token can be used, is not in
  the file and is held by nobody else, so nobody can use it up. The
  theorem covers lost answers too, which `creds_shared` leaves out. `Local` keeps the other store operations away: they save both
  tokens as they read them, and without `LocalOnly` the property does fail.
- `StoredInTurn`: `Spec => []StoresInTurn`, by `InTurn`: whoever has read the file
  and not yet replaced it is the only one, and what it has read is still there. What
  an operation loses that overlaps with another is a hazard and excused.
- `CallsStayAuthorized`: `Spec => []AutoRefreshed` under `Alone` (there is one process,
  as in `creds_alone`; with two of them it fails, see the hazards), by `Sound`. A
  command that is killed or fails leaves tokens behind for the next one, so `Good`
  is about the file as well as the process: both refresh tokens can be used, but
  for the file's while `ensureToken` saves its successor. That a refused token is
  of another app (`init` has changed it) then follows from what the endpoint
  refuses. `Current` says that nothing comes between a read and its rename.

`NextIInv`, `NextAtMostOnce`, `NextInTurn`, `NextLocal`, `NextKept` and `NextSound` have one
case per group of actions; `OthersKeep`, `NothingCarriedOut`, `NothingUsedUp`,
`TokensReceived` and `TokensStay` say what the actions of a group have in common.

## 6. Media

`DocsMedia` is `addDocsMedia` in a loop over the arguments, a request per
action: `Resolve`, then for each file `Stat`, `Create`, `Open`, `Upload`,
`Attach`, and the rollback `FindParent`, `Delete`. A file's block is two, a view
and the media block in it. A colleague inserts and deletes children of the same
parent. `mine` is the block of the file being added, `printed` and `leftover`
what the user is told, `unanswered` the blocks that nobody could know. A kill is not
modelled: `NoScar` is about commands that end, and a block whose command is killed
before the rollback stays without its file.

`docs_media`: both kinds, three files, two children, indexes -1, 0, 1 and 3
(behind the end once a colleague deletes), two changes by the colleague, every
outcome. `NoScar`, `ReportedHolds`, `ArgumentOrder` hold. Three files
are the least for which a later failure can damage two earlier ones.
*Deadlock* is not checked because the command ends.

`docs add-mention` is in `MadeInSteps`; `docs add-link` sends one request.

### What is proved

`DocsMediaProofs.tla`, for any number of files, any page and index, any number of
changes by the colleague and every outcome, from `DocsMediaAssumption`:

- `Invariance`: `Spec => []IInv`;
- `NothingBrokenUntold`: `Spec => []NoScar`;
- `ReportedStays`: `Spec => []ReportedHolds`;
- `InArgumentOrder`: `Spec => []ArgumentOrder`.

None of the three is inductive, because each is about the blocks of the files
reported so far while the block in hand may be deleted again. `Numbers`: a number
names one block, and the media the server knows are those of the page. `Unfilled`:
a media block without its file is the one in hand or one whose creation was never
answered, so the rollback can only take the block in hand. `Hand`: the numbers of
the reported blocks grow, and the block in hand is newer than all of them.
`Reported`: what was reported holds its file. `Sorted`: without an index, or when
the colleague inserted nothing, the media blocks lie on the page in the order of
their numbers. `Reach` is what `Sorted` needs with `--index`: nothing that the
command made lies behind the index it counts, so that the next block is put behind
all of them, although the colleague may have taken blocks away in front of it.

## 7. Files and jobs

### Model

`Transfers` is every command that asks the server for a job or fills a local
file. A command is a record, its `Profile`: the `stages` before it fills files,
whether an unanswered poll is asked again (`tolerant`), whether a file whose
download failed is left behind (`keeps`), and the `files`. The stages are the
actions `List`, `Upload`, `Create`, `Poll` or `Timeout`, and `Fetch` (the xlsx
of a sheet, with the pictures in its cells); a file is `Open`, `Copy` piece by
piece or `CopyFails`, and then `SaveOutput`, `SavePicture`, `RenamePicture` (the
extension follows the content type) or `Replace` (the program is replaced).
`requireScopes` is the job of `im download`: the user's consent.

The disk is `dir`, from names to inodes, and `data`, from inodes to pieces: a
process goes on writing the inode that it opened when another one truncates or
renames it. A piece holds the version (`release`) that it was part of, so that a
file made of two versions is seen. `last` and `overlapped` are history: who
opened or renamed a name last, and who wrote a name while another did; `unstated`
who got an answer without a `job_status` (`Answers`), which the code reads as 0, the
status of a job that ended well. `Close` is taken to succeed: the code ignores its
error (`main.go:650, 1137, 4241`).

### What is checked

`transfers`: six pairs of commands, those that write the same names together, with
a job that ends well, badly or never, requests that fail or whose answers are
lost, downloads that break off after any piece, a disk that is full, kills, and a
new release in between. `FilesAccounted`, `BinaryRuns`, `VerdictsHold`,
`CommandsEnd` hold. The exceptions in the first two are what does happen, and the
run reaches it: two upgrades at once share `<binary>.tmp`, and one may rename what
the other has only begun to write. The exception in `VerdictsHold` is reached too: a
job that is still running, whose status the server leaves out once, is reported as
imported, or its output is emptied.

*Bounds.* Two processes are what shares a name; two pieces are a file that is
empty, partial, complete or mixed; two releases are an old and a new one; two
polls are a first one that comes too early and a last one; one picture outside the
cells and one inside are the two ways of naming a picture.

*Fairness*: weak fairness of each command but `upgrade`. Requests end by their
timeouts of 45 or 60 s and the deadlines of the polls are clock times; `upgrade`
uses `http.Get`, which has none, and is excused. *Deadlock* is not checked
because commands end.

### What is proved

`TransfersProofs.tla`, for any number of processes with any mix of commands, and
any number of pictures, pieces, polls and releases, with every outcome and fault,
from `TransfersAssumption`:

- `Invariance`: `Spec => []IInv`;
- `ProgramRuns`: `Spec => []BinaryRuns`;
- `VerdictsTrue`: `Spec => []VerdictsHold`;
- `FilesTold`: `Spec => []FilesAccounted`.

`BinaryRuns` speaks of the program only, and is not inductive: whether a rename
may put the temporary file in its place depends on who wrote that file. `Disk` says
so. `Separate`: two names never refer to one inode, and no other command has the
inode of the program or of the temporary file open. `Alone`: an upgrade that no
other has overlapped with writes the temporary file, alone, and all pieces before
its offset are its own. `TempState`: otherwise the temporary file holds, up to its
offset, what the upgrade wrote that opened it last, and any other one that still
copies makes it an overlapped one. `Program`: without overlapped upgrades the
program is whole; with them, and one release, a missing piece is one that such an
upgrade has not written yet, or never will. The way there needs that the inodes
suffice (`UnusedExists`, by counting: a name and a process refer to one each), so
that a file that is created never shares one; and, of the commands, what each has
still to fill (`Work`).

`Verdicts` strengthens `VerdictsHold` by the order of the steps: a verdict comes
with the end of a command, and an export that is past its poll has a job that is
done, or got an answer that did not say so; it has its output open only then.

`FilesAccounted` says nothing of a file that is still open, and the step that
closes one needs to know what it holds. `Filled` says so, in four parts. `Queue`: a
command opens no name twice, none that it has reported, and never a name that files
are renamed to. `Sharing`: the command that writes a file is the last that opened it
and has written every piece before its offset itself, or both it and the last one are
overlapped; another name refers to the inode it writes only where an overlapped
command has renamed it. `Listed`: what a command that is not overlapped has
reported, and nobody has opened since, is complete. `Accounted`: an incomplete file
has an excuse, which is its last writer's: it still writes, was killed, failed where
it keeps what it wrote, or is overlapped. The steps that leave a file (`Leaving`: it
is saved, renamed, removed, kept, or its command is killed) have one proof in
common, as each does the same to the four parts.

## 8. What takes several requests

### Model

`MadeInSteps` is one user who gives one command, and gives it again, up to `Runs`
times, until it is reported as done. A command is the sequence of its `Stages`,
each of which is a request: `Asks` (scopes, the primary calendar, the document of
a wiki page, an upload), `Given`, `Resolve` or `Mention` per person, `Original`, `Compose`,
`Draft`, `Send` for mail, `Event`, `RoomScopes`, `Room`, `Busy`, `Invite` for the
calendar, `AddMembers` and `RemoveMembers`, `Each` (one request per id),
`DeleteBatch`, and `Post` for what is one request in the end. What is left on the
server (`letters`, `events`, `members`, `things`, `posts`) stays from run to run,
with the number of the run that made it; `verdicts` is what the user was told.
A run is killed at any time; the request that is then under way is `CarriedOut`,
or not. A colleague books rooms (`held`), and so does an invitation that the server
took, which is what a second try of the same user meets.

People have ids; a name is what a search finds for it (`Roughly`), or what a mention
insists on (`Exactly`), among those of one answer (`Pages`, 20 in the code). The role
of a member is what `RoleOf` says: of the command, or the prefix of the argument.
`WellFormed` is what a user can give: the commands that take ids insist on one, an
argument is a list, recipients of the original without an address are left out.

An answer that lacks the id the code reads is an error, and so *lost*, for a draft. For an
event it is none: `named` is false, nobody is invited and the command ends well without a
warning (`main.go:3629`). Some of the things are `Drafts`, to which a trash request
does nothing (`mail_cmd.go:51`).

### What is checked

`made_in_steps`: 94 commands (every kind, with and without recipients, --draft,
names that find nobody, one or more than an answer has, rooms by id and by keyword,
members with and without a prefix), every outcome of
every request, kills, up to three tries. `LettersTold`, `ReplyReaches`,
`EventsComplete`, `TakenNotInvited`, `PeopleAsNamed` and `DeletionsTold` hold.
They are about all the runs together: a letter that was sent though the user was
told it failed is one of `LettersTold`'s cases, and a second one may then follow.
`EventsComplete` excuses an event whose id was not told, `DeletionsTold` a draft given
to `mail trash`, `PeopleAsNamed` a name that finds more people than an answer has, of
which the comment of `resolveUserOpenID` promises more (section 10).

*Bounds.* Three tries are one that stops half-way, one that repeats it, one
after that; batches of 2 instead of 100 make three ids a full batch and a partial
one, and three people of a search one more than the answer of 2 has; two people of one
name and one who is found by a part of his are what tells the ways of resolving names
apart. Nothing is claimed to happen in the end: these
are safety properties, and the user may give up at any time, which is why
*deadlock* is not checked.

### What is proved

`MadeInStepsProofs.tla`, for any set of well-formed commands with lists of any
length, any people, names and rooms, any size of a batch and any number of runs,
from `MadeInStepsAssumption` and `CommandsAssumption`:

- `Invariance`: `Spec => []IInv`;
- `LettersAsTold`, `RepliesReach`, `EventsAsTold`, `PeopleNamed`, `DeletionsAsTold`:
  the five invariants of the run;
- `TakenRoomsNotInvited`: `Spec => TakenNotInvited`, an action property.

The properties relate what the server keeps from all runs to what the user was told
of each, and say nothing of a run that is under way, so none is inductive. The
invariant adds, for every stage, what the run has made so far. `LettersInv`,
`EventsInv`: letters and events are in the order of their runs and one for a run at
most; between the request that makes one and the end of its run the last one is of
the present run and still without its recipients or its people. `RepliesInv`: what
is composed already reaches everybody. `RoomInv`: the room that is about to be
invited was free, or nobody answered and the user has been warned; `HeldInv`: what is
booked is a room. `ResolvedInv` (`Partly`): those found
so far are those of the arguments that are treated, and nobody else, which at the
end of the list is what `Means` asks for. `MembersInv` ties the two requests of one
command: when the second one runs, what the first one added is still there.
`DeletionsInv`: what is neither gone nor reported is still to do.

`RepliesReach` rests on what the fold of `appendUnique` returns for lists of any
length, which is an induction (`DataInduction`). The library's induction theorems
take an operator as a parameter, which the provers cannot instantiate;
`SetInduction` takes the *set* of the numbers for which a property holds instead,
and is proved from the well-foundedness of `<`. `FoldExists` proves by it that
the function that defines a fold exists, without which a fold has no known value.

## 9. The event stream

### Model

`EventStream` is `im listen`, several of them on one account. The gateway
(external) sends *ready*, events and heartbeats to the newest stream, and
*superseded* to the one before, which it closes. A frame goes over the `wire` as
lines; `parseSSE` reads one line at a time into `parser` and calls the callback at
a blank one (`flush`), and once more at the end of the stream (`EndOfStream`).
`Break` cuts the wire anywhere, also within a line, of which the scanner returns
what arrived (`Leftovers`). `Returned` is what `im listen` does then: it ends when
it was superseded or runs with `--once`, and otherwise asks again after 5 s
(`Again`). `Expires` ends the session, after which every request for a stream is
`Refused`: unlike other requests it does not renew the session.

`AgentServe` has the same loop around its own callback; there a frame is one step.

### What is checked

`event_stream`: two listeners, one with `--once`, events of one and of two data
lines and a heartbeat, two breaks. `FramesInOrder`, `NewestStays`, `NeverBack`
and, under fairness, `ComesBack` and `AllHeard` hold.

*Bounds.* A stream is superseded by the other listener or not; a listener that is
superseded and reconnects because it was not told takes the stream back, which
needs one break; the second break cuts that stream again. One pushed frame
between *ready* and *superseded* is one before and one behind every other.

*Fairness*: weak fairness of each listener's own steps (`Proceeds`): the pause is a
timer, lines that were sent are read. A request for a stream need not be answered:
its client has no time-out (`gateway_client.go:1452`). Breaks are bounded, so what
keeps a listener from its stream for ever is an expired session or a request that
hangs, and `ComesBack` excuses these two. *Deadlock* is not checked because
listeners end.

### What is proved

`EventStreamProofs.tla`, for any number of listeners, events and breaks, from
`EventStreamAssumption`:

- `Invariance`: `Spec => []IInv`, and from it `TypeCorrect` and
  `TheNewestStays` (`Spec => []NewestStays`);
- `TheToldStayAway`: `Spec => NeverBack`, an action property;
- `FramesAsSent`: `Spec => []FramesInOrder`.

`NewestStays` is about verdicts, which come at the end of a long way: the gateway
writes *superseded*, the lines wait on the wire, the parser puts them together,
the callback sets the flag, the stream ends. `Causes` says for every listener that
either another one has got its stream later, or nothing of a superseded frame is
anywhere on that way: not on the wire, not in the parser, not in the flag, not in
the verdict. It needs that a cut line is never the name *superseded* of another
frame, and that the parser is empty when a stream starts (part of `TypeOK`).
`ToldStays` carries `NeverBack`: what the callback got of *superseded* is in the
flag until the listener ends.

`FramesInOrder` compares what the callback got with what the gateway sent
(`given`, without heartbeats), with the lines on the wire and the parser in
between. `Spells` reads the waiting lines from the parser's state, one at a time
as `parseSSE` does (`ReadLine`): the states it passes hold beginnings of the
frames of `given` that are still to come (`Within`), and the last one has all of
them, or on a broken stream a part of the next frame (`Torn`). What is heard is
in order at once, what is on the wire will be. `FrameLines` writes a frame behind
such lines, `MoreLines` puts them together, `NextLine` reads one, `CutLines` breaks
the stream after any of them or within one.

## 10. Findings

A run that ends in a counterexample; `PROJECT.json` quotes the line that says
otherwise.

- `serve_waiting_stop`: a `/stop` that arrives while the worker has taken its
  message but not yet armed the cancel (a download can last that long) waits
  behind the turn it was to stop, and is then told that nothing was running.

Seen in the models, and excluded from the properties where they are stated or
kept as notes of the hazards:

- *agent serve*: a `/new` or `/cd` that has cancelled a turn can itself be dropped
  from a full channel; a text that starts with `/ws` is taken for a workspace
  command; the answer that a `/stop` finds on the way may be heard after "stopped".
- *documents*: an unedited export of a document with an empty paragraph, a block of
  an unknown type or a grid, sent back, deletes these blocks, a grid with all that is in
  it, because their marker has no line of its own and is replaced by the next one
  (`markdown.go:319-322, 470-521, 886-896`), and an ordered item without a text in a list
  comes back as a paragraph at the end of the page (`markdown.go:1414`), although
  `main.go:1157` says that blocks without changes are left untouched; an edit of an
  ordered item, a todo, a quote or a callout is reported as done and not written
  (`markdown.go:1573-1606`), and a new quote is created without its text, although
  `main.go:1156` says that changed blocks are updated; an edit of a nested list item is
  not seen, and `docs update` reports success (`main.go:1424`); a create whose answer was lost is sent again, and its
  blocks are there twice, when the error has "429" anywhere in its text
  (`main.go:1612, 1647`); the entries nested in one whose create was answered without
  ids are passed over without a word (`main.go:1520`); a diff deletes and overwrites
  what was added or changed after the export; a full replace whose deletions fail
  succeeds.
- *credentials*: of two processes that run when the token is due the second is
  refused and tells its user to log in, though `config.json` holds good tokens by
  then (`local_client.go:92`); a logout can be undone by a refresh under way
  (`session_store.go:192`); a login in local mode waits for ever
  (`local_auth.go:88`).
- *files*: two upgrades at once can leave a program that does not run; `drive
  download` and `drive media` do not renew a session (`gateway_client.go:1170`)
  and have emptied their output file by then; a result without a `job_status` counts
  as done (`main.go:2200`); a picture that could not be renamed
  is reported under the name it has not got.
- *requests*: an event stays when its room is occupied (`main.go:3655`), which
  `skills/larkctl-calendar/SKILL.md:37` does not say, and a room is invited after a
  warning when the check itself fails (`main.go:3651`); an event whose answer has no id
  is reported without its attendees and without a warning (`main.go:3629`); a mention by
  name counts the people of exactly this name among the first 20 that the search finds
  (`docs_media.go:393`), so of two people of that name one is mentioned without a word
  when the other is not on that page, although the comment above (`:387`) says that it
  never is; a draft stays,
  untold, when its sending fails; a draft given to `mail trash` is reported as trashed.
- *event stream*: `im listen` prints the part of a frame that a broken stream left;
  after the session has expired it asks for ever, and it waits for ever for a
  gateway that takes its request and does not answer.

## 11. What is not shown

- *Only model-checked*: the liveness properties (`Delivery`,
  `UpdateEnds`, `DeviceLoginEnds`, `CommandsEnd`, `ComesBack`, `AllHeard`), which
  the prover does not reach; and `DiffLands` of the document update, the contents
  of the blocks whose places `DiffPlaces` has. It needs that no two entries have the
  same marker, that nothing is nested in an entry which is created (`doDiffUpdate`
  leaves it out, section 10), and that the nested items were not edited: it is a
  statement about the documents and edits of `doc_diff`, not about all.
- *Hazards without a property*: those of `PROJECT.json` whose note says why.
- *External*: Feishu's block, OAuth and expiry behaviour, the gateway's
  sessions and other people, as the code uses them.
- *Not modelled*: `formatter.go` and `schema.go`, which print; the commands of one
  request, and queries, the paging of a query included (`im list`, the blocks of a
  document), which keep no state; inline markup and tables' cells
  of documents; the text of a mail; the paths and bodies of requests; logging; the
  permissions and the fsync of files.
