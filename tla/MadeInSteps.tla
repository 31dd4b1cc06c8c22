----------------------------- MODULE MadeInSteps -----------------------------
(***************************************************************************)
(* The commands that make or change something on the server in several     *)
(* requests: mail send, reply, forward, trash and draft-delete; calendar   *)
(* create and rsvp; tasks create, assign, unassign, follow, unfollow and   *)
(* tasklist-members; docs add-mention; im send and send-file; board        *)
(* create-nodes and delete-nodes.  A request may fail, or be carried out   *)
(* and have its answer lost; the user who is not told that all went well   *)
(* gives the same command again; a colleague books rooms.  The server is   *)
(* modelled from how the code uses it.                                     *)
(***************************************************************************)
EXTENDS Integers, Sequences, FiniteSets, SequencesExt

CONSTANTS
  Commands,   \* the commands that a user may give, records
  People,     \* the people of the directory
  Exactly,    \* Exactly[n]: the people whose name is n, with an open_id
  Roughly,    \* Roughly[n]: the people that a search for n would find
  PageSize,   \* add-mention: how many of them an answer has, 20 in the code
  Rooms,
  RoomList,   \* what a search for a room finds: records [room, enabled]
  Members,    \* pairs <<role, person>> of the task or tasklist at first
  Things,     \* messages, drafts or nodes that exist at first
  Drafts,     \* those of them that are drafts
  BatchSize,  \* delete-nodes: ids of one request, 100 in the code
  Runs,       \* bound: how often a command is given
  Outcomes    \* what can become of a request

\* ok: answered.  failed: no effect and an error.  lost: done, but an error, as for a
\* draft whose answer has no id.
ASSUME MadeInStepsAssumption ==
  /\ {Runs, BatchSize, PageSize} \subseteq Nat \ {0}
  /\ Drafts \subseteq Things /\ IsFiniteSet(People)
  /\ Outcomes \subseteq {"ok", "failed", "lost"}
  /\ DOMAIN Exactly = DOMAIN Roughly
  /\ \A n \in DOMAIN Roughly : Exactly[n] \subseteq Roughly[n] /\ Roughly[n] \subseteq People
  /\ RoomList \in Seq([room : Rooms, enabled : BOOLEAN])
  /\ "" \notin Rooms

VARIABLES
  letters,   \* drafts and messages, each [run, to, cc, sent]
  events,    \* calendar events, each [run, named, people, room]: named: its id was told
  held,      \* the rooms that are booked
  members,   \* pairs <<role, person>> of the task or tasklist
  things,    \* messages, drafts or nodes that exist
  posts,     \* what was posted, each [run, who]
  cmd,       \* the command
  pc,        \* its next request
  todo,      \* the arguments it has still to treat in this stage
  who,       \* the people it has resolved, pairs <<role, person>>
  letter,    \* the recipients of the letter it composes
  room,      \* the room it has resolved
  seen,      \* the rooms that were taken when it asked; None: it got no answer
  warned,    \* it has warned the user
  reports,   \* results: pairs of an id and ok or error
  verdicts   \* what the user was told at the end of each run

server == <<letters, events, held, members, things, posts>>
vars == <<server, cmd, pc, todo, who, letter, room, seen, warned, reports, verdicts>>

\* The number of this run, once it is over of the next.
Run == Len(verdicts) + 1
Over == pc = "over"

None == ""

\* An argument for a person is an id or a name, in a task with a role as its prefix
\* or None; one for a room an id or a keyword.
Id(x) == <<"id", x, None>>
Name(n) == <<"name", n, None>>
As(role, a) == [a EXCEPT ![3] = role]
IsId(a) == a[1] = "id"

IsSeq(s) == s \in Seq(ToSet(s))

\* What a user can give: the commands that take ids, and those that change the
\* members of a task, insist on one; a name can be searched for, and where no prefix
\* is read it is a part of the name.  Recipients of the original without an address
\* are left out.
Kinds ==
  {"mail_send", "mail_reply", "mail_reply_all", "mail_forward", "mail_trash", "mail_draft_delete",
   "calendar_create", "calendar_rsvp", "tasks_create", "tasks_assign", "tasks_unassign",
   "tasks_follow", "tasks_unfollow", "tasks_tasklist_members", "docs_add_mention", "im_send",
   "im_send_file", "board_create_nodes", "board_delete_nodes"}

WellFormed(c) ==
  /\ c.kind \in Kinds
  /\ None \notin ToSet(c.original.to) \cup ToSet(c.original.cc)
  /\ IsSeq(c.to) /\ IsSeq(c.cc) /\ IsSeq(c.original.to) /\ IsSeq(c.original.cc)
  /\ IsSeq(c.add) /\ IsSeq(c.remove) /\ IsSeq(c.ids)
  /\ c.kind \in {"tasks_assign", "tasks_follow"} => c.add # << >>
  /\ c.kind \in {"tasks_unassign", "tasks_unfollow"} => c.remove # << >>
  /\ c.kind = "tasks_tasklist_members" => c.add # << >> \/ c.remove # << >>
  /\ c.kind \in {"mail_trash", "mail_draft_delete", "board_delete_nodes"} => c.ids # << >>
  /\ \A a \in ToSet(c.add) \cup ToSet(c.remove) :
       /\ a[2] \in IF IsId(a) THEN People ELSE DOMAIN Roughly
       /\ c.kind \notin {"tasks_create", "tasks_assign", "tasks_unassign"} => a[3] = None

ASSUME CommandsAssumption == \A c \in Commands : WellFormed(c)

Took(o) == o \in {"ok", "lost"}
If(condition, stages) == IF condition THEN stages ELSE << >>

-----------------------------------------------------------------------------
(* The stages of the commands.                                             *)

MailSend(c) == <<"scopes", "compose", "draft", "send">>
MailReply(c) == <<"scopes", "original", "compose", "draft", "send">>
MailForward(c) == <<"scopes", "original", "compose", "draft", "send">>
MailTrash(c) == <<"scopes", "each">>
DraftDelete(c) == <<"scopes", "each">>

\* The event is made first and people and rooms are invited to it afterwards.
CalendarCreate(c) ==
  <<"scopes", "primary", "event">> \o
  If(c.add # << >> \/ c.room # << >>,
     If(c.add # << >>, <<"resolve_add">>)
     \o If(c.room # << >>, <<"room_scopes", "room", "busy">>) \o <<"invite">>)
Rsvp(c) == <<"scopes", "primary", "post">>

TasksCreate(c) == If(c.add # << >>, <<"resolve_add">>) \o <<"post">>
Assign(c) == <<"resolve_add", "add">>
Unassign(c) == <<"resolve_remove", "remove">>
Follow(c) == <<"resolve_add", "add">>
Unfollow(c) == <<"resolve_remove", "remove">>

\* First those to be added, then those to be removed.
TasklistMembers(c) ==
  If(c.add # << >>, <<"resolve_add", "add">>)
  \o If(c.remove # << >>, <<"resolve_remove", "remove">>)

\* A target that is a document is looked up nowhere.
AddMention(c) == <<"document">> \o If(c.add # << >>, <<"mention">>) \o <<"post">>
ImSend(c) == <<"scopes", "post">>
ImSendFile(c) == <<"scopes", "upload", "post">>
CreateNodes(c) == <<"scopes", "post">>
DeleteNodes(c) == <<"scopes", "batch">>

Stages ==
  CASE cmd.kind = "mail_send" -> MailSend(cmd)
    [] cmd.kind \in {"mail_reply", "mail_reply_all"} -> MailReply(cmd)
    [] cmd.kind = "mail_forward" -> MailForward(cmd)
    [] cmd.kind = "mail_trash" -> MailTrash(cmd)
    [] cmd.kind = "mail_draft_delete" -> DraftDelete(cmd)
    [] cmd.kind = "calendar_create" -> CalendarCreate(cmd)
    [] cmd.kind = "calendar_rsvp" -> Rsvp(cmd)
    [] cmd.kind = "tasks_create" -> TasksCreate(cmd)
    [] cmd.kind = "tasks_assign" -> Assign(cmd)
    [] cmd.kind = "tasks_unassign" -> Unassign(cmd)
    [] cmd.kind = "tasks_follow" -> Follow(cmd)
    [] cmd.kind = "tasks_unfollow" -> Unfollow(cmd)
    [] cmd.kind = "tasks_tasklist_members" -> TasklistMembers(cmd)
    [] cmd.kind = "docs_add_mention" -> AddMention(cmd)
    [] cmd.kind = "im_send" -> ImSend(cmd)
    [] cmd.kind = "im_send_file" -> ImSendFile(cmd)
    [] cmd.kind = "board_create_nodes" -> CreateNodes(cmd)
    [] cmd.kind = "board_delete_nodes" -> DeleteNodes(cmd)

\* The arguments that a stage goes through.
Items(stage) ==
  CASE stage \in {"resolve_add", "mention"} -> cmd.add
    [] stage = "resolve_remove" -> cmd.remove
    [] stage \in {"each", "batch"} -> cmd.ids
    [] OTHER -> << >>

Goes(stage) ==
  /\ pc' = stage
  /\ todo' = Items(stage)
  /\ UNCHANGED verdicts

Ends(words) ==
  /\ pc' = "over"
  /\ todo' = << >>
  /\ verdicts' = Append(verdicts, words)

\* A warning does not make a command fail.
Proceeds ==
  LET i == CHOOSE j \in DOMAIN Stages : Stages[j] = pc
  IN IF i = Len(Stages) THEN Ends(IF warned' THEN "warned" ELSE "done")
                        ELSE Goes(Stages[i + 1])

Fresh ==
  /\ who' = {} /\ letter' = [to |-> << >>, cc |-> << >>]
  /\ room' = None /\ seen' = {} /\ warned' = FALSE /\ reports' = {}

Init ==
  /\ cmd \in Commands
  /\ letters = << >> /\ events = << >> /\ posts = << >>
  /\ held \in SUBSET Rooms
  /\ members = Members /\ things = Things
  /\ pc = "over" /\ todo = << >> /\ verdicts = << >>
  /\ who = {} /\ letter = [to |-> << >>, cc |-> << >>]
  /\ room = None /\ seen = {} /\ warned = FALSE /\ reports = {}

-----------------------------------------------------------------------------
(* What a request does on the server.                                      *)

Drafted == Append(letters, [run |-> Run, to |-> letter.to, cc |-> letter.cc, sent |-> FALSE])
Sent == [letters EXCEPT ![Len(letters)].sent = TRUE]
Made(named) == Append(events, [run |-> Run, named |-> named, people |-> {}, room |-> None])
Invited == [events EXCEPT ![Len(events)].people = who, ![Len(events)].room = room]

\* The room is booked for the event.
Booked == held \cup ({room} \ {None})

\* messages.trash does nothing to a draft.
Trashed == {Head(todo)} \ (IF cmd.kind = "mail_trash" THEN Drafts ELSE {})

BatchEnd == IF Len(todo) < BatchSize THEN Len(todo) ELSE BatchSize
Batch == SubSeq(todo, 1, BatchEnd)

\* The server makes nodes only once for one token.
Known == cmd.token /\ posts # << >>
Posted == IF Known THEN posts ELSE Append(posts, [run |-> Run, who |-> who])

\* The request of this stage is carried out, and nobody hears of it.
CarriedOut ==
  /\ letters' = CASE pc = "draft" -> Drafted [] pc = "send" -> Sent [] OTHER -> letters
  /\ events' = CASE pc = "event" -> Made(FALSE) [] pc = "invite" -> Invited [] OTHER -> events
  /\ held' = IF pc = "invite" THEN Booked ELSE held
  /\ members' = CASE pc = "add" -> members \cup who [] pc = "remove" -> members \ who
                  [] OTHER -> members
  /\ things' = CASE pc = "each" -> things \ Trashed [] pc = "batch" -> things \ ToSet(Batch)
                 [] OTHER -> things
  /\ posts' = IF pc = "post" THEN Posted ELSE posts

-----------------------------------------------------------------------------
(* The user and the colleague.                                             *)

Satisfied ==
  /\ verdicts # << >> /\ Last(verdicts) \in {"done", "sent", "saved"}
  /\ \A r \in reports : r[2] = "ok"

\* The command is given, or given again.
Start ==
  /\ Over /\ Run <= Runs /\ ~Satisfied
  /\ Fresh
  /\ Goes(Stages[1])
  /\ UNCHANGED <<server, cmd>>

\* A request that is under way is carried out, or not.
Killed ==
  /\ ~Over
  /\ CarriedOut \/ UNCHANGED server
  /\ Ends("killed")
  /\ UNCHANGED <<cmd, who, letter, room, seen, warned, reports>>

Books(r) ==
  /\ cmd.kind = "calendar_create" /\ r \notin held
  /\ held' = held \cup {r}
  /\ UNCHANGED <<letters, events, members, things, posts, cmd, pc, todo, who, letter, room,
                 seen, warned, reports, verdicts>>

client == <<who, letter, room, seen, warned, reports>>

\* A request that only has to succeed: requireScopes, the primary calendar, the
\* document of a wiki page, the upload of a file.
Asks(o) ==
  /\ pc \in {"scopes", "primary", "document", "upload"}
  /\ UNCHANGED <<server, cmd, client>>
  /\ IF o = "ok" THEN Proceeds ELSE Ends("failed")

-----------------------------------------------------------------------------
(* Names of people.                                                        *)

\* The role in a task or tasklist that an argument stands for; other people have none.
RoleOf(c, a) ==
  CASE c.kind \in {"tasks_create", "tasks_assign", "tasks_unassign"} ->
         IF a[3] = None THEN "assignee" ELSE a[3]
    [] c.kind \in {"tasks_follow", "tasks_unfollow"} -> "follower"
    [] c.kind = "tasks_tasklist_members" -> c.role
    [] OTHER -> None

\* When one name cannot be resolved, calendar create warns and invites none of
\* them, and the others end.
NotResolved ==
  IF cmd.kind = "calendar_create"
    THEN who' = {} /\ warned' = TRUE /\ Proceeds
    ELSE Ends("failed") /\ UNCHANGED <<who, warned>>

\* Resolved; the next argument, or the next stage after the last.
Found(p) ==
  /\ who' = who \cup {<<RoleOf(cmd, Head(todo)), p>>}
  /\ UNCHANGED warned
  /\ IF Len(todo) = 1 THEN Proceeds ELSE todo' = Tail(todo) /\ UNCHANGED <<pc, verdicts>>

\* looksLikeUserID: an id is taken as it is.
Given ==
  /\ pc \in {"resolve_add", "resolve_remove", "mention"} /\ IsId(Head(todo))
  /\ Found(Head(todo)[2])
  /\ UNCHANGED <<server, cmd, letter, room, seen, reports>>

\* searchUserByName: the first one that the search finds, in any order.
Resolve(o) ==
  /\ pc \in {"resolve_add", "resolve_remove"} /\ ~IsId(Head(todo))
  /\ LET found == Roughly[Head(todo)[2]] IN
       IF o = "ok" /\ found # {} THEN \E p \in found : Found(p) ELSE NotResolved
  /\ UNCHANGED <<server, cmd, letter, room, seen, reports>>

\* What an answer has of those that a search finds.
Pages(n) ==
  {page \in SUBSET Roughly[n] :
     IF Cardinality(Roughly[n]) <= PageSize THEN page = Roughly[n]
                                            ELSE Cardinality(page) = PageSize}

\* A mention insists on a single person of exactly this name in the answer.
MatchOf(page, n) ==
  IF Cardinality(page \cap Exactly[n]) = 1 THEN page \cap Exactly[n] ELSE {}

Mention(o) ==
  /\ pc = "mention" /\ ~IsId(Head(todo))
  /\ \E page \in Pages(Head(todo)[2]) :
       LET found == MatchOf(page, Head(todo)[2]) IN
         IF o = "ok" /\ found # {} THEN \E p \in found : Found(p) ELSE NotResolved
  /\ UNCHANGED <<server, cmd, letter, room, seen, reports>>

-----------------------------------------------------------------------------
(* Mail.                                                                   *)

appendUnique(xs, x) == IF x \in ToSet(xs) THEN xs ELSE Append(xs, x)

\* Mutant: with --to, those the original went to are left out.
RepliedOverriding ==
  LET from == IF cmd.to = << >> /\ cmd.original.from # None
                THEN <<cmd.original.from>> ELSE cmd.to
  IN IF cmd.kind = "mail_reply_all"
       THEN [to |-> IF cmd.to = << >> THEN FoldLeft(appendUnique, from, cmd.original.to) ELSE from,
             cc |-> FoldLeft(appendUnique, cmd.cc, cmd.original.cc)]
       ELSE [to |-> from, cc |-> cmd.cc]

\* A reply goes to the sender, unless --to is given; --all adds all others.
Replied ==
  LET from == IF cmd.to = << >> /\ cmd.original.from # None
                THEN <<cmd.original.from>> ELSE cmd.to
  IN IF cmd.kind = "mail_reply_all"
       THEN [to |-> FoldLeft(appendUnique, from, cmd.original.to),
             cc |-> FoldLeft(appendUnique, cmd.cc, cmd.original.cc)]
       ELSE [to |-> from, cc |-> cmd.cc]

\* The message that is answered or forwarded.
Original(o) ==
  /\ pc = "original"
  /\ UNCHANGED <<server, cmd, who, room, seen, warned, reports>>
  /\ IF o # "ok" \/ (cmd.kind = "mail_forward" /\ cmd.to = << >>)
       THEN Ends("failed") /\ UNCHANGED letter
       ELSE /\ letter' = IF cmd.kind = "mail_forward" THEN [to |-> cmd.to, cc |-> cmd.cc]
                                                      ELSE Replied
            /\ Proceeds

Composed == IF cmd.kind = "mail_send" THEN [to |-> cmd.to, cc |-> cmd.cc] ELSE letter

\* BuildEML refuses a letter without recipients.
BuildEML(l) == l.to # << >> \/ l.cc # << >> \/ cmd.bcc # << >>

\* The sender is taken from the profile, unless it is given.
Compose(o) ==
  /\ pc = "compose" /\ (cmd.from => o = "ok")
  /\ letter' = Composed
  /\ UNCHANGED <<server, cmd, who, room, seen, warned, reports>>
  /\ IF o = "ok" /\ BuildEML(Composed) THEN Proceeds ELSE Ends("failed")

\* Mutant: a draft is sent as well.
DraftGoesOn(o) ==
  /\ pc = "draft"
  /\ letters' = IF Took(o) THEN Drafted ELSE letters
  /\ IF o = "ok" THEN Goes("send") ELSE Ends("failed")
  /\ UNCHANGED <<events, held, members, things, posts, cmd, client>>

\* With --draft this is the end.
Draft(o) ==
  /\ pc = "draft"
  /\ letters' = IF Took(o) THEN Drafted ELSE letters
  /\ IF o # "ok" THEN Ends("failed") ELSE IF cmd.draft THEN Ends("saved") ELSE Goes("send")
  /\ UNCHANGED <<events, held, members, things, posts, cmd, client>>

\* The draft just made is sent; after an error it stays, and its id is not told.
Send(o) ==
  /\ pc = "send"
  /\ letters' = IF Took(o) THEN Sent ELSE letters
  /\ Ends(IF o = "ok" THEN "sent" ELSE "failed")
  /\ UNCHANGED <<events, held, members, things, posts, cmd, client>>

-----------------------------------------------------------------------------
(* Calendar.                                                               *)

\* An answer without the id of the event is the end: nobody is invited.
Event(o) ==
  /\ pc = "event"
  /\ UNCHANGED <<letters, held, members, things, posts, cmd, client>>
  /\ \E named \in BOOLEAN :
       /\ events' = IF Took(o) THEN Made(o = "ok" /\ named) ELSE events
       /\ IF o # "ok" THEN Ends("failed") ELSE IF named THEN Proceeds ELSE Ends("done")

RoomScopes(o) ==
  /\ pc = "room_scopes"
  /\ warned' = (warned \/ o # "ok")
  /\ Proceeds
  /\ UNCHANGED <<server, cmd, who, letter, room, seen, reports>>

\* The first room of the search that is not disabled.
resolveRoomID ==
  LET i == SelectInSeq(RoomList, LAMBDA r : r.enabled)
  IN IF i = 0 THEN None ELSE RoomList[i].room

\* An id is taken as it is; without a room only the people are invited.
Room(o) ==
  /\ pc = "room" /\ (IsId(cmd.room) => o = "ok")
  /\ room' = IF IsId(cmd.room) THEN cmd.room[2] ELSE IF o = "ok" THEN resolveRoomID ELSE None
  /\ warned' = (warned \/ room' = None)
  /\ IF room' = None THEN Goes("invite") ELSE Proceeds
  /\ UNCHANGED <<server, cmd, who, letter, seen, reports>>

\* Mutant: an occupied room is only warned of.
BusyWarned(o) ==
  /\ pc = "busy"
  /\ seen' = IF o = "ok" THEN held ELSE {None}
  /\ warned' = (warned \/ o # "ok")
  /\ Proceeds
  /\ UNCHANGED <<server, cmd, who, letter, room, reports>>

\* checkRoomBusy: an occupied room ends the command, the event stays; without an
\* answer the room is invited after a warning.
Busy(o) ==
  /\ pc = "busy"
  /\ seen' = IF o = "ok" THEN held ELSE {None}
  /\ warned' = (warned \/ o # "ok")
  /\ IF o = "ok" /\ room \in held THEN Ends("occupied") ELSE Proceeds
  /\ UNCHANGED <<server, cmd, who, letter, room, reports>>

\* Mutant: an error when people are invited is passed over.
InviteSilent(o) ==
  /\ pc = "invite"
  /\ events' = IF Took(o) THEN Invited ELSE events
  /\ held' = IF Took(o) THEN Booked ELSE held
  /\ UNCHANGED warned
  /\ Proceeds
  /\ UNCHANGED <<letters, members, things, posts, cmd, who, letter, room, seen, reports>>

Invite(o) ==
  /\ pc = "invite"
  /\ events' = IF Took(o) THEN Invited ELSE events
  /\ held' = IF Took(o) THEN Booked ELSE held
  /\ warned' = (warned \/ o # "ok")
  /\ Proceeds
  /\ UNCHANGED <<letters, members, things, posts, cmd, who, letter, room, seen, reports>>

-----------------------------------------------------------------------------
(* Members of tasks and tasklists.                                         *)

Change(o, changed) ==
  /\ members' = IF Took(o) THEN changed ELSE members
  /\ who' = IF pc = "add" THEN {} ELSE who
  /\ UNCHANGED <<letters, events, held, things, posts, cmd, letter, room, seen, warned, reports>>
  /\ IF o = "ok" THEN Proceeds ELSE Ends("failed")

\* Mutant: an error of the first request is passed over.
AddUnchecked(o) ==
  /\ pc = "add"
  /\ members' = IF Took(o) THEN members \cup who ELSE members
  /\ who' = {}
  /\ UNCHANGED <<letters, events, held, things, posts, cmd, letter, room, seen, warned, reports>>
  /\ Proceeds

AddMembers(o) == pc = "add" /\ Change(o, members \cup who)
RemoveMembers(o) == pc = "remove" /\ Change(o, members \ who)

-----------------------------------------------------------------------------
(* One request per id, and one per batch of ids.                           *)

\* Every id is tried, and reported.
Each(o) ==
  /\ pc = "each"
  /\ things' = IF Took(o) THEN things \ Trashed ELSE things
  /\ reports' = reports \cup {<<Head(todo), IF o = "ok" THEN "ok" ELSE "error">>}
  /\ UNCHANGED warned
  /\ IF Len(todo) = 1 THEN Proceeds ELSE todo' = Tail(todo) /\ UNCHANGED <<pc, verdicts>>
  /\ UNCHANGED <<letters, events, held, members, posts, cmd, who, letter, room, seen>>

\* Mutant: the first id of the next batch is passed over.
RestSkipsOne == SubSeq(todo, BatchEnd + 2, Len(todo))
Rest == SubSeq(todo, BatchEnd + 1, Len(todo))

\* The first error is the end.
DeleteBatch(o) ==
  /\ pc = "batch"
  /\ things' = IF Took(o) THEN things \ ToSet(Batch) ELSE things
  /\ UNCHANGED warned
  /\ IF o # "ok" THEN Ends("failed")
     ELSE IF Rest = << >> THEN Proceeds ELSE todo' = Rest /\ UNCHANGED <<pc, verdicts>>
  /\ UNCHANGED <<letters, events, held, members, posts, cmd, who, letter, room, seen, reports>>

-----------------------------------------------------------------------------
(* A message, a task, nodes, an answer to an invitation, a paragraph.      *)

Post(o) ==
  /\ pc = "post"
  /\ posts' = IF Took(o) THEN Posted ELSE posts
  /\ UNCHANGED warned
  /\ IF o = "ok" THEN Proceeds ELSE Ends("failed")
  /\ UNCHANGED <<letters, events, held, members, things, cmd, who, letter, room, seen, reports>>

-----------------------------------------------------------------------------

Request(o) ==
  \/ Asks(o) \/ Resolve(o) \/ Mention(o)
  \/ Original(o) \/ Compose(o) \/ Draft(o) \/ Send(o)
  \/ Event(o) \/ RoomScopes(o) \/ Room(o) \/ Busy(o) \/ Invite(o)
  \/ AddMembers(o) \/ RemoveMembers(o) \/ Each(o) \/ DeleteBatch(o) \/ Post(o)

Next ==
  \/ Start \/ Killed \/ Given
  \/ \E r \in Rooms : Books(r)
  \/ \E o \in Outcomes : Request(o)

Spec == Init /\ [][Next]_vars

-----------------------------------------------------------------------------
(* Properties.                                                             *)

Verdict(run) == IF run \in DOMAIN verdicts THEN verdicts[run] ELSE "none"

\* What the user is told of a letter is true over any number of tries, and a run
\* leaves one letter at most, the one it may send: it sends nothing with --draft, a
\* letter that was sent is not told of as a draft, and a draft that is left behind
\* without telling belongs to a run that failed or was killed.
LettersTold ==
  /\ \A i, j \in DOMAIN letters : letters[i].run = letters[j].run => i = j
  /\ pc = "send" => letters # << >> /\ Last(letters).run = Run /\ ~Last(letters).sent
  /\ \A i \in DOMAIN letters :
       LET told == Verdict(letters[i].run) IN
         IF letters[i].sent THEN ~cmd.draft /\ told \in {"sent", "failed", "killed"}
                            ELSE told \in {"saved", "failed", "killed", "none"}
  /\ \A run \in DOMAIN verdicts :
       verdicts[run] \in {"sent", "saved"} => \E i \in DOMAIN letters : letters[i].run = run

\* A reply reaches the sender or those given instead, with --all everybody else of
\* the original too, and --all writes to nobody twice in one line, unless the user did.
ReplyReaches ==
  \A i \in DOMAIN letters :
    LET to == ToSet(letters[i].to)  cc == ToSet(letters[i].cc)  original == cmd.original IN
      /\ cmd.kind \in {"mail_reply", "mail_reply_all"} =>
           IF cmd.to = << >> THEN to \cap {original.from} = {original.from} \ {None}
                             ELSE ToSet(cmd.to) \subseteq to
      /\ cmd.kind = "mail_reply_all" =>
           /\ ToSet(original.to) \subseteq to /\ ToSet(original.cc) \subseteq cc
           /\ IsInjective(cmd.to) => IsInjective(letters[i].to)
           /\ IsInjective(cmd.cc) => IsInjective(letters[i].cc)

\* The people that an argument can stand for, when a name finds those of found.
Denotes(c, a, found) == {RoleOf(c, a)} \X (IF IsId(a) THEN {a[2]} ELSE found[a[2]])

\* ps has somebody for every argument, and nobody else.
Means(c, args, found, ps) ==
  /\ \A a \in ToSet(args) : Denotes(c, a, found) \cap ps # {}
  /\ \A p \in ps : \E a \in ToSet(args) : p \in Denotes(c, a, found)

\* An event reported without a warning has everybody and the room, unless the server
\* did not tell its id; whatever failed, either all the people are invited or none,
\* and to an event that is left behind because the room was occupied nobody is.  A
\* keyword never leads to a disabled room.
EventsComplete ==
  \A i \in DOMAIN events :
    LET e == events[i]  told == Verdict(events[i].run) IN
      /\ e.people = {} \/ Means(cmd, cmd.add, Roughly, e.people)
      /\ told = "done" /\ e.named =>
           Means(cmd, cmd.add, Roughly, e.people) /\ (cmd.room # << >> => e.room # None)
      /\ told = "occupied" => e.people = {} /\ e.room = None
      /\ e.room # None /\ ~IsId(cmd.room) =>
           \E k \in DOMAIN RoomList : RoomList[k] = [room |-> e.room, enabled |-> TRUE]

\* A room that was taken when the command asked is not invited; one of which nobody
\* answered is, after a warning.  The colleague may still book it afterwards.
TakenNotInvited ==
  [][\A i \in DOMAIN events' :
       /\ events'[i].room # None
       /\ i \in DOMAIN events => events[i].room = None
       => events'[i].room \notin seen /\ (None \in seen => warned)]_vars

\* When a change of members is reported as done, those to be added are members,
\* except those removed by the same command, and those to be removed are not, also
\* after an earlier try that stopped half-way.  Nobody else is added or removed.
\* A new task has the people named; a mention names a person of that name, the only
\* one unless the search found more than it answers at once.
PeopleAsNamed ==
  LET asked(args) == UNION {Denotes(cmd, a, Roughly) : a \in ToSet(args)}
  IN /\ members \ Members \subseteq asked(cmd.add)
     /\ Members \ members \subseteq asked(cmd.remove)
     /\ Over /\ "add" \in ToSet(Stages) /\ verdicts # << >> /\ Last(verdicts) = "done" =>
          \E ps \in SUBSET asked(cmd.add) :
            Means(cmd, cmd.add, Roughly, ps) /\ ps \ who \subseteq members
     /\ Over /\ "remove" \in ToSet(Stages) /\ verdicts # << >> /\ Last(verdicts) = "done" =>
          Means(cmd, cmd.remove, Roughly, who) /\ members \cap who = {}
     /\ \A i \in DOMAIN posts :
          /\ cmd.kind = "tasks_create" => Means(cmd, cmd.add, Roughly, posts[i].who)
          /\ cmd.kind = "docs_add_mention" =>
               /\ Means(cmd, cmd.add, Exactly, posts[i].who)
               /\ \A a \in ToSet(cmd.add) :
                    \/ IsId(a) \/ Cardinality(Exactly[a[2]]) = 1
                    \/ Cardinality(Roughly[a[2]]) > PageSize

\* What is reported as deleted is gone, over all batches and tries, and nothing
\* else is; a draft that is trashed stays, though it is reported.  No request has more
\* nodes than the server takes; trash and draft-delete report every id, whatever
\* became of the others.
DeletionsTold ==
  LET done == Over /\ verdicts # << >> /\ Last(verdicts) = "done"  ids == ToSet(cmd.ids) IN
    /\ Things \ things \subseteq ids
    /\ pc = "batch" => Len(Batch) \in 1..BatchSize
    /\ cmd.kind = "board_delete_nodes" /\ done => things \cap ids = {}
    /\ \A r \in reports : r[2] = "ok" =>
         r[1] \notin things \/ (cmd.kind = "mail_trash" /\ r[1] \in Drafts)
    /\ cmd.kind \in {"mail_trash", "mail_draft_delete"} /\ done => {r[1] : r \in reports} = ids
=============================================================================
