----------------------------- MODULE AgentServe -----------------------------
(***************************************************************************)
(* `larkctl agent serve`: the event stream of one account is pumped into   *)
(* one worker goroutine per chat, which runs one claude turn at a time.    *)
(*                                                                         *)
(* Three kinds of process interleave:                                      *)
(*   - the stream callback: routes each message, interrupts the running    *)
(*     turn when the message asks for it, and offers the message to the    *)
(*     chat's bounded channel without ever blocking;                       *)
(*   - the worker of a chat: takes a message, drains what else is waiting, *)
(*     merges consecutive plain texts and handles each group as one turn;  *)
(*   - the goroutine that answers a /stop that interrupted a turn.         *)
(*                                                                         *)
(* A message is its arrival number; its text is abstracted to a kind.      *)
(***************************************************************************)
EXTENDS Integers, SequencesExt

CONSTANTS
  Chats,         \* the chats the account hears from
  Dirs,          \* directories a chat can work in
  DefaultCwd,    \* agentState.defaultCwd
  Names,         \* names of workspaces
  QueueDepth,    \* agentQueueDepth, the capacity of a worker's channel
  MaxMsgs,       \* bound: how many messages arrive
  Sends,         \* the kinds of message a run sends
  NoDir,         \* "" as a chat's Cwd, or a name absent from the registry
  NoSession,     \* "" as a chat's claude session
  NoMsg          \* a message that has not arrived

Ids == 1..MaxMsgs

\* What agentServe and agentHandleMessage tell apart of a message's text.
\*   wsLike : "/wsl ...": no agent command, yet it has the prefix "/ws", and
\*            any workspace command if its second word is one
\*   wsQuiet: "/ws  use ...", with two spaces: it does not interrupt
\*   cmdArgs: "/stop now": merged like a command, run like a prompt
\*   query  : /status, /help, /ws list, and every usage or error reply
Kinds == {"text", "wsLike", "cmdArgs", "media", "new", "stop", "cd",
          "wsUse", "wsQuiet", "wsSave", "wsRemove", "query"}

Messages == [chat : Chats, kind : Kinds]

\* isInterruptingCommand
Interrupting == {"new", "cd", "wsUse"}

\* neither media nor isAgentCommand: the messages mergeMessageGroups joins
Mergeable == {"text", "wsLike"}

\* what falls through the switch of agentHandleMessage to runner.Run
Prompts == {"text", "cmdArgs", "media"}

\* A claude conversation: the directory it was started in, and how many
\* resets the chat had had when it was started.
Sessions == [dir : Dirs, gen : Nat]

\* chatState
ChatStates == [session : Sessions \cup {NoSession}, cwd : Dirs \cup {NoDir}]

ASSUME ConstantAssumption ==
  /\ DefaultCwd \in Dirs
  /\ NoDir \notin Dirs
  /\ NoSession \notin Sessions
  /\ NoMsg \notin Messages
  /\ QueueDepth \in Nat \ {0}
  /\ MaxMsgs \in Nat
  /\ Sends \subseteq Kinds

\*   routed : in the callback, between the interrupt and the send
\*   queued : in the worker's channel, in its batch or in its turn
\*   killing: a /stop that cancelled a turn and is not yet answered
\*   ran, cmd: the chat hears a result of claude, or of a command
\*   mute   : handled, and no answer reaches the chat
\*   interrupted: its turn was cancelled while claude ran; no answer
Settled == {"dropped", "ran", "cmd", "mute", "interrupted"}
Fates == {"new", "routed", "queued", "killing"} \cup Settled

\* Where a worker goroutine is.
PCs == {"idle", "drain", "next", "media", "failed", "begin", "handle", "run",
        "reply", "post", "end"}

VARIABLES
  conn,        \* the stream: "up", "down", or "exited" with the program
  superseded,  \* the flag the callback sets for agentServe
  sent,        \* how many messages have arrived
  cb,          \* the message the callback is about to offer, 0 if none
  msg,         \* msg[i]: chat and kind of message i
  fate,        \* fate[i]: what has become of message i
  queue,       \* queue[c]: chatWorker.ch
  batch,       \* batch[c]: what is drained and not yet handled
  turn,        \* turn[c]: the group being handled
  pc,          \* pc[c]: where the worker is
  armed,       \* armed[c]: chatWorker.runCancel # nil
  cancelBy,    \* cancelBy[c]: who cancelled runCtx of the turn, 0 if nobody
  claude,      \* claude[c]: the conversation of the claude process running
  chats,       \* chats[c]: agentState.chats, NoDir and NoSession where ""
  resets,      \* resets[c]: history, how often c's session was reset
  workspaces   \* agentState.workspaces

streamVars == <<conn, superseded>>
inboxVars  == <<sent, cb, msg>>
pipeVars   == <<queue, batch, turn>>
runVars    == <<armed, cancelBy>>
stateVars  == <<chats, resets, workspaces>>
vars == <<streamVars, inboxVars, fate, pipeVars, pc, runVars, claude, stateVars>>

Init ==
  /\ conn = "up"
  /\ superseded = FALSE
  /\ sent = 0
  /\ cb = 0
  /\ msg = [i \in Ids |-> NoMsg]
  /\ fate = [i \in Ids |-> "new"]
  /\ queue = [c \in Chats |-> << >>]
  /\ batch = [c \in Chats |-> << >>]
  /\ turn = [c \in Chats |-> << >>]
  /\ pc = [c \in Chats |-> "idle"]
  /\ armed = [c \in Chats |-> FALSE]
  /\ cancelBy = [c \in Chats |-> 0]
  /\ claude = [c \in Chats |-> NoSession]
  /\ chats = [c \in Chats |-> [session |-> NoSession, cwd |-> NoDir]]
  /\ resets = [c \in Chats |-> 0]
  /\ workspaces \in [Names -> Dirs \cup {NoDir}]   \* newAgentState reads them

\* agentState.chat: the Cwd of a chat, defaulted.
Cwd(c) == IF chats[c].cwd = NoDir THEN DefaultCwd ELSE chats[c].cwd

\* The turn of c is over: what becomes of each of its messages is f.
Settle(c, f) ==
  /\ fate' = [i \in Ids |-> IF i \in ToSet(turn[c]) THEN f ELSE fate[i]]
  /\ turn' = [turn EXCEPT ![c] = << >>]

-----------------------------------------------------------------------------
(* The stream and its callback.                                            *)

\* chatWorker.interrupt by message i: cancels the turn of c, if any.
Interrupt(c, i) ==
  /\ armed' = [armed EXCEPT ![c] = FALSE]
  /\ cancelBy' = IF armed[c] THEN [cancelBy EXCEPT ![c] = i] ELSE cancelBy

\* The default case of the callback, up to the select that sends.
Receive(c, k) ==
  LET i == sent + 1 IN
  /\ conn = "up" /\ cb = 0 /\ sent < MaxMsgs
  /\ sent' = i
  /\ msg' = [msg EXCEPT ![i] = [chat |-> c, kind |-> k]]
  /\ \/ /\ k = "stop" /\ armed[c]
        /\ Interrupt(c, i)
        /\ fate' = [fate EXCEPT ![i] = "killing"]
        /\ cb' = 0
     \/ /\ ~(k = "stop" /\ armed[c])
        /\ IF k \in Interrupting THEN Interrupt(c, i) ELSE UNCHANGED runVars
        /\ fate' = [fate EXCEPT ![i] = "routed"]
        /\ cb' = i
  /\ UNCHANGED <<streamVars, pipeVars, pc, claude, stateVars>>

\* Mutant of HasRoom: one message too many.
HasRoomForOneMore(c) == Len(queue[c]) <= QueueDepth

\* whether a send on w.ch would not block
HasRoom(c) == Len(queue[c]) < QueueDepth

\* select { case w.ch <- msg: default: drop }
Enqueue ==
  /\ conn = "up" /\ cb # 0
  /\ LET c == msg[cb].chat IN
     \/ /\ HasRoom(c)
        /\ queue' = [queue EXCEPT ![c] = Append(@, cb)]
        /\ fate' = [fate EXCEPT ![cb] = "queued"]
     \/ /\ ~HasRoom(c)
        /\ fate' = [fate EXCEPT ![cb] = "dropped"]
        /\ UNCHANGED queue
  /\ cb' = 0
  /\ UNCHANGED <<streamVars, sent, msg, batch, turn, pc, runVars, claude,
                 stateVars>>

\* Mutant of StopReply: the answer has to wait for the stream.
StopReplyOnStream(i) ==
  /\ conn = "up"
  /\ fate[i] = "killing"
  /\ fate' = [fate EXCEPT ![i] = "cmd"]
  /\ UNCHANGED <<streamVars, inboxVars, pipeVars, pc, runVars, claude, stateVars>>

\* The goroutine that answers a /stop that interrupted a turn.
StopReply(i) ==
  /\ conn # "exited"
  /\ fate[i] = "killing"
  /\ \E f \in {"cmd", "mute"} : fate' = [fate EXCEPT ![i] = f]
  /\ UNCHANGED <<streamVars, inboxVars, pipeVars, pc, runVars, claude, stateVars>>

\* The event "superseded": another listener took over the account.
Supersede ==
  /\ conn = "up" /\ cb = 0
  /\ superseded' = TRUE
  /\ UNCHANGED <<conn, inboxVars, fate, pipeVars, pc, runVars, claude, stateVars>>

\* StreamEvents returns: the program ends if superseded, else it will retry.
StreamEnd ==
  /\ conn = "up" /\ cb = 0
  /\ conn' = IF superseded THEN "exited" ELSE "down"
  /\ UNCHANGED <<superseded, inboxVars, fate, pipeVars, pc, runVars, claude,
                 stateVars>>

\* After five seconds StreamEvents is called again; superseded starts FALSE.
Reconnect ==
  /\ conn = "down"
  /\ conn' = "up"
  /\ superseded' = FALSE
  /\ UNCHANGED <<inboxVars, fate, pipeVars, pc, runVars, claude, stateVars>>

-----------------------------------------------------------------------------
(* The worker of chat c.                                                   *)

\* The worker's step from a to b.
Goto(c, a, b) ==
  /\ conn # "exited"
  /\ pc[c] = a
  /\ pc' = [pc EXCEPT ![c] = b]

\* The kind a group is handled as: the text of a group starts with the text
\* of its first message.
TurnKind(c) == msg[Head(turn[c])].kind

\* The switch of agentHandleMessage.
Handling(c, kinds) == pc[c] = "handle" /\ TurnKind(c) \in kinds

\* for msg := range w.ch
Take(c) ==
  /\ queue[c] # << >>
  /\ Goto(c, "idle", "drain")
  /\ batch' = [batch EXCEPT ![c] = <<Head(queue[c])>>]
  /\ queue' = [queue EXCEPT ![c] = Tail(@)]
  /\ UNCHANGED <<streamVars, inboxVars, fate, turn, runVars, claude, stateVars>>

\* Mutant of Drain: what is drained later comes first.
DrainInFront(c) ==
  /\ queue[c] # << >>
  /\ Goto(c, "drain", "drain")
  /\ batch' = [batch EXCEPT ![c] = <<Head(queue[c])>> \o @]
  /\ queue' = [queue EXCEPT ![c] = Tail(@)]
  /\ UNCHANGED <<streamVars, inboxVars, fate, turn, runVars, claude, stateVars>>

\* case m2 := <-w.ch
Drain(c) ==
  /\ queue[c] # << >>
  /\ Goto(c, "drain", "drain")
  /\ batch' = [batch EXCEPT ![c] = Append(@, Head(queue[c]))]
  /\ queue' = [queue EXCEPT ![c] = Tail(@)]
  /\ UNCHANGED <<streamVars, inboxVars, fate, turn, runVars, claude, stateVars>>

\* default: break drain
DrainDone(c) ==
  /\ queue[c] = << >>
  /\ Goto(c, "drain", "next")
  /\ UNCHANGED <<streamVars, inboxVars, fate, pipeVars, runVars, claude, stateVars>>

\* The first n messages of b are the first group mergeMessageGroups makes of
\* b: one message, or all the mergeable ones up to the first that is not.
IsGroup(b, n) ==
  LET mergeable(k) == msg[b[k]].kind \in Mergeable IN
  /\ n \in 1..Len(b)
  /\ \/ n = 1 /\ ~mergeable(1)
     \/ /\ \A k \in 1..n : mergeable(k)
        /\ n < Len(b) => ~mergeable(n + 1)

\* for _, g := range mergeMessageGroups(batch)
NextGroup(c) ==
  /\ \E n \in 1..Len(batch[c]) :
       /\ IsGroup(batch[c], n)
       /\ turn' = [turn EXCEPT ![c] = SubSeq(batch[c], 1, n)]
       /\ batch' = [batch EXCEPT ![c] = SubSeq(@, n + 1, Len(@))]
  /\ Goto(c, "next", IF msg[Head(batch[c])].kind = "media" THEN "media" ELSE "begin")
  /\ UNCHANGED <<streamVars, inboxVars, fate, queue, runVars, claude, stateVars>>

\* The last group of the batch is done: range w.ch again.
BatchDone(c) ==
  /\ batch[c] = << >>
  /\ Goto(c, "next", "idle")
  /\ UNCHANGED <<streamVars, inboxVars, fate, pipeVars, runVars, claude, stateVars>>

\* resolveMedia, which is given ctx and not the context of a turn.
Download(c) ==
  /\ \E next \in {"begin", "failed"} : Goto(c, "media", next)
  /\ UNCHANGED <<streamVars, inboxVars, fate, pipeVars, runVars, claude, stateVars>>

\* Mutant of MediaFailReply: a break instead of the continue.
MediaFailBreaks(c) ==
  /\ Goto(c, "failed", "idle")
  /\ \E f \in {"cmd", "mute"} : Settle(c, f)
  /\ UNCHANGED <<streamVars, inboxVars, queue, batch, runVars, claude, stateVars>>

\* The download failed: say so and go on with the next group.
MediaFailReply(c) ==
  /\ Goto(c, "failed", "next")
  /\ \E f \in {"cmd", "mute"} : Settle(c, f)
  /\ UNCHANGED <<streamVars, inboxVars, queue, batch, runVars, claude, stateVars>>

\* context.WithCancel and setCancel(cancel)
BeginTurn(c) ==
  /\ Goto(c, "begin", "handle")
  /\ armed' = [armed EXCEPT ![c] = TRUE]
  /\ UNCHANGED <<streamVars, inboxVars, fate, pipeVars, cancelBy, claude, stateVars>>

\* agentState.chat and the start of claude, with --resume when the chat has a
\* session, or a conversation of its own. A cancelled context starts nothing.
RunPrompt(c) ==
  /\ Handling(c, Prompts)
  /\ \/ /\ cancelBy[c] = 0
        /\ Goto(c, "handle", "run")
        /\ claude' = [claude EXCEPT ![c] =
                        IF chats[c].session # NoSession THEN chats[c].session
                        ELSE [dir |-> Cwd(c), gen |-> resets[c]]]
        /\ UNCHANGED <<fate, turn>>
     \/ /\ cancelBy[c] # 0
        /\ Goto(c, "handle", "end")
        /\ Settle(c, "interrupted")
        /\ UNCHANGED claude
  /\ UNCHANGED <<streamVars, inboxVars, queue, batch, runVars, stateVars>>

\* agentState.setSession after a run that printed its session id.
SetSession(c, s) == chats' = [chats EXCEPT ![c].session = s]

\* runner.Run returns: a result, an error, the turn timeout, or the kill that
\* follows a cancel. Only a cancelled turn is not answered.
RunEnd(c) ==
  /\ \/ SetSession(c, claude[c])
     \/ UNCHANGED chats
  /\ claude' = [claude EXCEPT ![c] = NoSession]
  /\ \/ /\ cancelBy[c] = 0
        /\ Goto(c, "run", "reply")
        /\ UNCHANGED <<fate, turn>>
     \/ /\ cancelBy[c] # 0
        /\ Goto(c, "run", "end")
        /\ Settle(c, "interrupted")
  /\ UNCHANGED <<streamVars, inboxVars, queue, batch, runVars, resets, workspaces>>

\* /new and /reset
HandleNew(c) ==
  /\ Handling(c, {"new"})
  /\ Goto(c, "handle", "reply")
  /\ SetSession(c, NoSession)
  /\ resets' = [resets EXCEPT ![c] = @ + 1]
  /\ UNCHANGED <<streamVars, inboxVars, fate, pipeVars, runVars, claude, workspaces>>

\* Mutant of SetCwd: the session survives the move.
SetCwdKeepsSession(c, dir) ==
  /\ chats' = [chats EXCEPT ![c].cwd = dir]
  /\ resets' = [resets EXCEPT ![c] = @ + 1]

\* agentState.setCwd when dir is an absolute path of a directory
SetCwd(c, dir) ==
  /\ chats' = [chats EXCEPT ![c] = [session |-> NoSession, cwd |-> dir]]
  /\ resets' = [resets EXCEPT ![c] = @ + 1]

\* setCwd, which changes nothing when it refuses the directory
TrySetCwd(c, dir) ==
  \/ SetCwd(c, dir)
  \/ UNCHANGED <<chats, resets>>

\* /cd <dir>
HandleCd(c) ==
  /\ Handling(c, {"cd"})
  /\ Goto(c, "handle", "reply")
  /\ \E dir \in Dirs : TrySetCwd(c, dir)
  /\ UNCHANGED <<streamVars, inboxVars, fate, pipeVars, runVars, claude, workspaces>>

\* /ws use <name>, also from a message that interrupts nothing
HandleWsUse(c) ==
  /\ Handling(c, {"wsUse", "wsQuiet", "wsLike"})
  /\ Goto(c, "handle", "reply")
  /\ \E n \in Names :
       IF workspaces[n] = NoDir THEN UNCHANGED <<chats, resets>>
       ELSE TrySetCwd(c, workspaces[n])
  /\ UNCHANGED <<streamVars, inboxVars, fate, pipeVars, runVars, claude, workspaces>>

\* /ws save <name>: the map is changed even when the file cannot be written.
HandleWsSave(c) ==
  /\ Handling(c, {"wsSave", "wsLike"})
  /\ Goto(c, "handle", "reply")
  /\ \E n \in Names : workspaces' = [workspaces EXCEPT ![n] = Cwd(c)]
  /\ UNCHANGED <<streamVars, inboxVars, fate, pipeVars, runVars, claude, chats,
                 resets>>

\* /ws remove <name>
HandleWsRemove(c) ==
  /\ Handling(c, {"wsRemove", "wsLike"})
  /\ Goto(c, "handle", "reply")
  /\ \E n \in Names : workspaces' = [workspaces EXCEPT ![n] = NoDir]
  /\ UNCHANGED <<streamVars, inboxVars, fate, pipeVars, runVars, claude, chats,
                 resets>>

\* Commands that only answer: an idle /stop, /status, /help, /ws list, usage.
HandleQuery(c) ==
  /\ Handling(c, {"stop", "query", "wsLike"})
  /\ Goto(c, "handle", "reply")
  /\ UNCHANGED <<streamVars, inboxVars, fate, pipeVars, runVars, claude, stateVars>>

\* Mutant of Reply: answers with the context of the program.
ReplyAnyway(c) ==
  /\ \/ Goto(c, "reply", "post") /\ UNCHANGED <<fate, turn>>
     \/ Goto(c, "reply", "end") /\ Settle(c, "mute")
  /\ UNCHANGED <<streamVars, inboxVars, queue, batch, runVars, claude, stateVars>>

\* BotReply with the context of the turn: nothing is sent when that is cancelled
\* already, or when the gateway cannot be reached.
Reply(c) ==
  /\ \/ cancelBy[c] = 0 /\ Goto(c, "reply", "post") /\ UNCHANGED <<fate, turn>>
     \/ Goto(c, "reply", "end") /\ Settle(c, "mute")
  /\ UNCHANGED <<streamVars, inboxVars, queue, batch, runVars, claude, stateVars>>

\* BotReply returns: an answer, an error, a time-out or the cancel that fell into
\* the request.  Whichever it was, the chat hears the answer or does not.
ReplyEnd(c) ==
  /\ Goto(c, "post", "end")
  /\ \/ Settle(c, IF TurnKind(c) \in Prompts THEN "ran" ELSE "cmd")
     \/ Settle(c, "mute")
  /\ UNCHANGED <<streamVars, inboxVars, queue, batch, runVars, claude, stateVars>>

\* Mutant of EndTurn: one context for all turns of a worker.
EndTurnKeepsContext(c) ==
  /\ Goto(c, "end", "next")
  /\ armed' = [armed EXCEPT ![c] = FALSE]
  /\ UNCHANGED <<streamVars, inboxVars, fate, pipeVars, cancelBy, claude, stateVars>>

\* setCancel(nil) and cancel(): the context of the turn is gone.
EndTurn(c) ==
  /\ Goto(c, "end", "next")
  /\ armed' = [armed EXCEPT ![c] = FALSE]
  /\ cancelBy' = [cancelBy EXCEPT ![c] = 0]
  /\ UNCHANGED <<streamVars, inboxVars, fate, pipeVars, claude, stateVars>>

-----------------------------------------------------------------------------

Stream ==
  \/ \E c \in Chats, k \in Sends : Receive(c, k)
  \/ Enqueue
  \/ Supersede
  \/ StreamEnd
  \/ Reconnect

Worker(c) ==
  \/ Take(c) \/ Drain(c) \/ DrainDone(c) \/ NextGroup(c) \/ BatchDone(c)
  \/ Download(c) \/ MediaFailReply(c) \/ BeginTurn(c)
  \/ RunPrompt(c) \/ RunEnd(c)
  \/ HandleNew(c) \/ HandleCd(c) \/ HandleWsUse(c) \/ HandleWsSave(c)
  \/ HandleWsRemove(c) \/ HandleQuery(c)
  \/ Reply(c) \/ ReplyEnd(c) \/ EndTurn(c)

Next ==
  \/ Stream
  \/ \E i \in Ids : StopReply(i)
  \/ \E c \in Chats : Worker(c)

Spec == Init /\ [][Next]_vars

\* What the program's own goroutines guarantee, and nothing about the users,
\* the stream or the other listeners of the account.
Fairness ==
  /\ WF_vars(Enqueue)
  /\ \A i \in Ids : WF_vars(StopReply(i))
  /\ \A c \in Chats : WF_vars(Worker(c))

FairSpec == Spec /\ Fairness

-----------------------------------------------------------------------------
(* Properties.                                                             *)

\* Everything has its type, and a channel holds no more than its capacity.
TypeOK ==
  /\ conn \in {"up", "down", "exited"}
  /\ superseded \in BOOLEAN
  /\ sent \in 0..MaxMsgs
  /\ cb \in 0..sent
  /\ msg \in [Ids -> Messages \cup {NoMsg}]
  /\ \A i \in Ids : (msg[i] = NoMsg) <=> (i > sent)
  /\ fate \in [Ids -> Fates]
  /\ queue \in [Chats -> Seq(Ids)]
  /\ \A c \in Chats : Len(queue[c]) <= QueueDepth
  /\ batch \in [Chats -> Seq(Ids)]
  /\ turn \in [Chats -> Seq(Ids)]
  /\ pc \in [Chats -> PCs]
  /\ armed \in [Chats -> BOOLEAN]
  /\ cancelBy \in [Chats -> 0..MaxMsgs]
  /\ claude \in [Chats -> Sessions \cup {NoSession}]
  /\ chats \in [Chats -> ChatStates]
  /\ resets \in [Chats -> Nat]
  /\ workspaces \in [Names -> Dirs \cup {NoDir}]

\* What the worker of c still has to handle.
Pending(c) == ToSet(turn[c]) \cup ToSet(batch[c]) \cup ToSet(queue[c])

\* The messages of c that were accepted and are not settled.
Accepted(c) == {i \in Ids : fate[i] = "queued" /\ msg[i].chat = c}

\* The messages whose fate is final.
Finished == {i \in Ids : fate[i] \in Settled}

\* No message is lost and none is handled twice on the way from the channel
\* through the batch and the merged group to its answer: the accepted
\* messages of a chat that are not settled are those its worker holds.
Conserved == \A c \in Chats : Pending(c) = Accepted(c)

Increasing(s) == \A k, l \in DOMAIN s : k < l => s[k] < s[l]
Before(s, t) == \A i \in ToSet(s), j \in ToSet(t) : i < j

Ordered(t, b, q) ==
  /\ Increasing(t) /\ Increasing(b) /\ Increasing(q)
  /\ Before(t, b) /\ Before(t, q) /\ Before(b, q)

\* The worker keeps the order of arrival: draining and merging reorder
\* nothing, and no message is held twice.
InOrder == \A c \in Chats : Ordered(turn[c], batch[c], queue[c])

\* "a session's context is bound to its directory": the session a chat would
\* resume, and the one claude is running, were started in the directory the
\* chat works in and after the chat's last reset, whatever was interrupted.
SessionBound ==
  \A c \in Chats : \A s \in {chats[c].session, claude[c]} \ {NoSession} :
    s.dir = Cwd(c) /\ s.gen = resets[c]

\* A turn is only ever cancelled by a message that came after all of its
\* messages: a cancel never leaks into a later turn.
InterruptsOnlyEarlier ==
  \A c \in Chats : cancelBy[c] # 0 => \A i \in ToSet(turn[c]) : i < cancelBy[c]

\* The messages that have arrived are numbered in order, and the callback holds
\* none but the last.
Numbered ==
  /\ cb \in {0, sent}
  /\ \A i \in Ids :
       /\ fate[i] = "new" <=> i > sent
       /\ fate[i] = "routed" <=> (i = cb /\ cb # 0)

\* What a worker holds at each point of its loop: a group from NextGroup to
\* its answer, a context from BeginTurn to EndTurn, a process while it runs.
Stages ==
  \A c \in Chats :
    /\ turn[c] # << >> <=>
         pc[c] \in {"media", "failed", "begin", "handle", "run", "reply", "post"}
    /\ batch[c] # << >> => pc[c] # "idle"
    /\ armed[c] \/ cancelBy[c] # 0 => pc[c] \in {"handle", "run", "reply", "post", "end"}
    /\ claude[c] # NoSession => pc[c] = "run"

\* The inductive invariant: the safety properties hold together, and with the
\* bookkeeping of the worker's loop.
IInv ==
  /\ TypeOK /\ Numbered /\ Stages
  /\ Conserved /\ InOrder /\ InterruptsOnlyEarlier /\ SessionBound

\* A turn that is cancelled before its answer is on the way gets none: nothing is
\* sent for it any more, and its messages settle without an answer.  The answer
\* that the cancel finds on the way may still be heard, after "stopped".
CancelledTurnIsSilent ==
  [][\A c \in Chats : cancelBy[c] # 0 /\ pc[c] # "post" =>
       /\ pc'[c] # "post"
       /\ \A i \in ToSet(turn[c]) : fate'[i] \notin {"ran", "cmd"}]_vars

\* What the users may rely on, seen without workers, batches or interrupts.
Mailbox == INSTANCE AgentMailbox WITH
  waiting  <- [c \in Chats |-> Accepted(c)],
  finished <- Finished,
  closed   <- conn = "exited"

\* Every chat's messages are settled once, oldest first.
MailboxSpec == Mailbox!Spec

\* Every accepted message is settled, and every /stop that cancelled a turn is
\* answered, unless the program ends first.
Delivery ==
  /\ Mailbox!Delivery
  /\ \A i \in Ids : fate[i] = "killing" ~> (fate[i] # "killing" \/ conn = "exited")

\* "A running turn is interrupted upstream (worker); reaching here means the
\* agent was idle": while claude runs a turn that nobody cancelled, no /stop
\* waits behind it.
StopNeverWaits ==
  \A c \in Chats : pc[c] = "run" /\ cancelBy[c] = 0 =>
    \A i \in Pending(c) : msg[i].kind # "stop"
=============================================================================
