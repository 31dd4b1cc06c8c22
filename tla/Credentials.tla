----------------------------- MODULE Credentials -----------------------------
(***************************************************************************)
(* The credentials in ~/.lark/config.json, shared by every larkctl process *)
(* of a user: init, login, logout, and the calls that use and refresh      *)
(* them, directly against Feishu (local mode) or through a gateway.        *)
(*                                                                         *)
(* Every store operation reads the whole file, changes its own fields,     *)
(* writes a temporary file and renames it over the file; there is no lock. *)
(* A process can be killed at any point, and any request can fail, with or *)
(* without having taken effect.  Feishu's OAuth endpoints and the gateway  *)
(* are modelled from how the code uses them.  The environment variables    *)
(* that override the file are not set.                                     *)
(***************************************************************************)
EXTENDS Integers, Sequences

CONSTANTS
  Procs,        \* processes
  Apps,         \* Feishu apps
  Hosts,        \* gateways
  DefaultHost,  \* defaultGatewayURL
  None,         \* "" as an app or a gateway URL
  Commands,     \* the commands that are run
  InitialFiles, \* what config.json may hold at first
  MaxRuns,      \* bound: commands run
  MaxGrants,    \* bound: tokens issued by Feishu
  Outcomes,     \* what can become of a request
  Faults,       \* what else can go wrong
  Renewals      \* does a refresh come with a new refresh token?

\* ok: answered.  failed: no effect and no answer.  lost: done, no answer.
\* killed: a process ends.  disk: the file cannot be written.
ASSUME CredentialsAssumption ==
  /\ DefaultHost \in Hosts
  /\ None \notin Apps \cup Hosts
  /\ Commands \subseteq {"init", "login", "logout", "call"}
  /\ MaxRuns \in Nat /\ MaxGrants \in Nat
  /\ Outcomes \subseteq {"ok", "failed", "lost"}
  /\ Faults \subseteq {"killed", "disk"}
  /\ Renewals \subseteq BOOLEAN

\* No tokens have been issued at first: nobody is logged in.
ASSUME InitialFilesAssumption ==
  InitialFiles \subseteq
    [app : Apps \cup {None}, access : {0}, refresh : {0},
     sessions : SUBSET Hosts, url : Hosts \cup {None}]

VARIABLES
  file,     \* config.json
  grants,   \* the access tokens Feishu has issued: their app and age
  live,     \* the refresh tokens that can still be used, by their grant
  gateway,  \* per gateway: the state of the user's session there
  runs,     \* how many commands were started
  pc,       \* per process: where it is
  cmd,      \* per process: its command
  op,       \* per process: the store operation it is in, or was in last
  cfg,      \* per process: the file as the store operation read it
  mem,      \* per process: its LocalClient
  host,     \* per process: its gateway URL
  late,     \* per process: the deadline of its device login has passed
  effects,  \* history, per process: how often its gateway request was carried out
  dropped,  \* history: a refresh token was used up and its successor never saved
  stored,   \* history: what the completed store operations make of the first file
  overlapped \* history: two store operations were under way at the same time

serverVars == <<grants, live, gateway>>
clientVars == <<cmd, host, late>>
storeVars == <<stored, overlapped>>
historyVars == <<effects, dropped, storeVars>>
vars == <<file, serverVars, runs, pc, op, cfg, mem, clientVars, historyVars>>

NoToken == 0
EmptyFile == [app |-> None, access |-> NoToken, refresh |-> NoToken,
              sessions |-> {}, url |-> None]
NoClient == [app |-> None, access |-> NoToken, refresh |-> NoToken, seen |-> "fresh"]

Ended == {"done", "failed", "unauthorized"}

Init ==
  /\ file \in InitialFiles
  /\ grants = << >>
  /\ live = {}
  /\ gateway = [h \in Hosts |-> IF h \in file.sessions THEN "open" ELSE "none"]
  /\ runs = 0
  /\ pc = [p \in Procs |-> "done"]
  /\ cmd = [p \in Procs |-> "none"]
  /\ op = [p \in Procs |-> "none"]
  /\ cfg = [p \in Procs |-> EmptyFile]
  /\ mem = [p \in Procs |-> NoClient]
  /\ host = [p \in Procs |-> DefaultHost]
  /\ late = [p \in Procs |-> FALSE]
  /\ effects = [p \in Procs |-> 0]
  /\ dropped = FALSE
  /\ stored = file
  /\ overlapped = FALSE

Goto(p, label) == pc' = [pc EXCEPT ![p] = label]

-----------------------------------------------------------------------------
(* The store.                                                              *)

\* Go to the store operation o.
Store(p, o) ==
  /\ op' = [op EXCEPT ![p] = o]
  /\ Goto(p, "load")

\* The file f after the operation that p is in: SaveLocalApp, SaveLocalTokens,
\* DeleteLocalTokens, SaveSessionToken, DeleteSessionToken, SaveGatewayURL.
Updated(p, f) ==
  CASE op[p] = "app" -> [f EXCEPT !.app = mem[p].app]
    [] op[p] \in {"tokens", "refreshed"} ->
         [f EXCEPT !.access = mem[p].access, !.refresh = mem[p].refresh]
    [] op[p] = "clear" -> [f EXCEPT !.access = NoToken, !.refresh = NoToken]
    [] op[p] = "session" -> [f EXCEPT !.sessions = @ \cup {host[p]}]
    [] op[p] = "delete" -> [f EXCEPT !.sessions = @ \ {host[p]}]
    [] op[p] = "url" -> [f EXCEPT !.url = host[p]]

\* What the command does after the operation.
AfterSave(p) ==
  CASE op[p] = "tokens" -> "check"
    [] op[p] = "refreshed" -> "request"
    [] op[p] = "session" -> "load"
    [] OTHER -> "done"

\* Where a process is in a store operation, and where it has read the file.
InStore == {"load", "save", "rename"}
HasRead(p) == pc[p] \in {"save", "rename"}

\* loadLocalConfig.  DeleteSessionToken returns when there is no session.
Load(p) ==
  /\ pc[p] = "load"
  /\ cfg' = [cfg EXCEPT ![p] = file]
  /\ Goto(p, IF op[p] = "delete" /\ file.sessions = {} THEN "done" ELSE "save")
  /\ overlapped' = (overlapped \/ \E q \in Procs \ {p} : HasRead(q))
  /\ UNCHANGED <<file, serverVars, runs, op, mem, clientVars, effects, dropped, stored>>

\* Mutant: the file is truncated and written in place.
WriteInPlace(p) ==
  /\ pc[p] = "save"
  /\ file' = EmptyFile
  /\ Goto(p, "rename")
  /\ UNCHANGED <<serverVars, runs, op, cfg, mem, clientVars, historyVars>>

\* writeFileAtomic writes a temporary file, of a name that nobody else uses.
Write(p) ==
  /\ pc[p] = "save"
  /\ Goto(p, "rename")
  /\ UNCHANGED <<file, serverVars, runs, op, cfg, mem, clientVars, historyVars>>

\* Its rename, the end of saveLocalConfig.
Save(p) ==
  /\ pc[p] = "rename"
  /\ file' = Updated(p, cfg[p])
  /\ stored' = Updated(p, stored)
  /\ cfg' = [cfg EXCEPT ![p] = EmptyFile]
  /\ op' = IF op[p] = "session" THEN [op EXCEPT ![p] = "url"] ELSE op
  /\ Goto(p, AfterSave(p))
  /\ UNCHANGED <<serverVars, runs, mem, clientVars, effects, dropped, overlapped>>

\* The temporary file cannot be written, or not renamed.  Only ensureToken goes
\* on, with a warning.
SaveFails(p) ==
  /\ "disk" \in Faults
  /\ HasRead(p)
  /\ cfg' = [cfg EXCEPT ![p] = EmptyFile]
  /\ Goto(p, IF op[p] = "refreshed" THEN "request" ELSE "failed")
  /\ dropped' = (dropped \/ op[p] = "refreshed")
  /\ UNCHANGED <<file, serverVars, runs, op, mem, clientVars, effects, storeVars>>

-----------------------------------------------------------------------------
(* Commands.                                                               *)

\* resolveGatewayURL
HostOf(flag) ==
  IF flag # None THEN flag ELSE IF file.url # None THEN file.url ELSE DefaultHost

\* A command starts.  init stores its app, whatever the mode.
Begin(p, c, flag) ==
  /\ pc[p] \in Ended
  /\ runs < MaxRuns
  /\ runs' = runs + 1
  /\ cmd' = [cmd EXCEPT ![p] = c]
  /\ host' = [host EXCEPT ![p] = HostOf(flag)]
  /\ late' = [late EXCEPT ![p] = FALSE]
  /\ effects' = [effects EXCEPT ![p] = 0]
  /\ IF c = "init"
       THEN /\ \E a \in Apps : mem' = [mem EXCEPT ![p] = [NoClient EXCEPT !.app = a]]
            /\ Store(p, "app")
       ELSE /\ mem' = [mem EXCEPT ![p] = NoClient]
            /\ op' = [op EXCEPT ![p] = "none"]
            /\ Goto(p, "mode")
  /\ UNCHANGED <<file, serverVars, cfg, dropped, storeVars>>

\* IsLocalMode
Mode(p) ==
  LET local == file.app # None IN
  /\ pc[p] = "mode"
  /\ IF local /\ cmd[p] = "logout"
       THEN Store(p, "clear")
       ELSE /\ Goto(p, CASE local -> "app"
                         [] ~local /\ cmd[p] = "login" -> "start"
                         [] ~local /\ cmd[p] = "logout" -> "revoke"
                         [] OTHER -> "session")
            /\ UNCHANGED op
  /\ UNCHANGED <<file, serverVars, runs, cfg, mem, clientVars, historyVars>>

\* A login in local mode listens on one port until it returns.
Listening(p) == cmd[p] = "login" /\ pc[p] \notin Ended /\ mem[p].app # None

\* LoadLocalApp, and for a login the listener.
LoadApp(p) ==
  LET busy == cmd[p] = "login" /\ \E q \in Procs : Listening(q) IN
  /\ pc[p] = "app"
  /\ mem' = IF busy THEN mem ELSE [mem EXCEPT ![p].app = file.app]
  /\ Goto(p, IF busy THEN "failed" ELSE IF cmd[p] = "login" THEN "waiting" ELSE "tokens")
  /\ UNCHANGED <<file, serverVars, runs, op, cfg, clientVars, historyVars>>

\* LoadLocalTokens
LoadTokens(p) ==
  /\ pc[p] = "tokens"
  /\ mem' = [mem EXCEPT ![p].access = file.access, ![p].refresh = file.refresh]
  /\ Goto(p, IF file.access = NoToken THEN "failed" ELSE "check")
  /\ UNCHANGED <<file, serverVars, runs, op, cfg, clientVars, historyVars>>

-----------------------------------------------------------------------------
(* Local mode: OAuth.                                                      *)

\* The user authorizes the login in a browser, or refuses.
Authorize(p) ==
  /\ pc[p] = "waiting"
  /\ \E answer \in {"exchange", "failed"} : Goto(p, answer)
  /\ UNCHANGED <<file, serverVars, runs, op, cfg, mem, clientVars, historyVars>>

NextGrant == Len(grants) + 1

\* Feishu issues an access token to app a.
Issue(a) ==
  /\ Len(grants) < MaxGrants
  /\ grants' = Append(grants, [app |-> a, age |-> "fresh"])
  /\ UNCHANGED gateway

\* exchangeAuthCode, which comes with a refresh token or without.
Exchange(p, o) ==
  /\ pc[p] = "exchange"
  /\ IF o = "failed"
       THEN Goto(p, "failed") /\ UNCHANGED <<serverVars, mem, op>>
       ELSE /\ Issue(mem[p].app)
            /\ \E r \in {NoToken, NextGrant} :
                 /\ live' = live \cup ({r} \ {NoToken})
                 /\ IF o = "ok"
                      THEN /\ mem' = [mem EXCEPT ![p].access = NextGrant, ![p].refresh = r]
                           /\ Store(p, "tokens")
                      ELSE Goto(p, "failed") /\ UNCHANGED <<mem, op>>
  /\ UNCHANGED <<file, runs, cfg, clientVars, historyVars>>

\* localLogin has saved the tokens: what still fails is only fetchUser.
LoggedIn(p) == cmd[p] = "login" /\ op[p] \in {"tokens", "refreshed"}
EndOf(p, label) == IF LoggedIn(p) THEN "done" ELSE label

\* Mutant: no margin before the expiry.
IsFreshUntilExpiry(age) == age # "expired"

\* A token is due five minutes before it expires.
IsFresh(age) == age = "fresh"

\* ensureToken: is the access token to be refreshed?
Check(p) ==
  LET age == grants[mem[p].access].age IN
  /\ pc[p] = "check"
  /\ mem' = [mem EXCEPT ![p].seen = age]
  /\ Goto(p, IF IsFresh(age) THEN "request"
             ELSE IF mem[p].refresh = NoToken THEN EndOf(p, "failed") ELSE "refresh")
  /\ UNCHANGED <<file, serverVars, runs, op, cfg, clientVars, historyVars>>

Usable(p) == mem[p].refresh \in live /\ grants[mem[p].refresh].app = mem[p].app

\* Mutant: the new refresh token is ignored.
AdoptAccess(p, r) == [mem EXCEPT ![p].access = NextGrant, ![p].seen = "fresh"]

\* ensureToken takes what came with the answer.
Adopt(p, r) == [mem EXCEPT ![p].access = NextGrant, ![p].refresh = r, ![p].seen = "fresh"]

\* One request of doRefreshToken.  A refresh token is used up when the answer
\* holds another one.
TryRefresh(p, o, otherwise) ==
  \/ /\ o \in {"ok", "lost"}
     /\ Usable(p)
     /\ Issue(mem[p].app)
     /\ \E r \in {IF renewed THEN NextGrant ELSE mem[p].refresh : renewed \in Renewals} :
          /\ live' = (live \ {mem[p].refresh}) \cup {r}
          /\ IF o = "ok"
               THEN /\ mem' = Adopt(p, r)
                    /\ Store(p, "refreshed")
                    /\ UNCHANGED dropped
               ELSE /\ dropped' = (dropped \/ r # mem[p].refresh)
                    /\ Goto(p, otherwise)
                    /\ UNCHANGED <<mem, op>>
  \/ /\ o = "failed" \/ ~Usable(p)
     /\ Goto(p, otherwise)
     /\ UNCHANGED <<serverVars, mem, op, dropped>>

Refresh(p, o) ==
  /\ pc[p] = "refresh"
  /\ TryRefresh(p, o, "fallback")
  /\ UNCHANGED <<file, runs, cfg, clientVars, effects, storeVars>>

\* The v1 endpoint gets the same refresh token.
Fallback(p, o) ==
  /\ pc[p] = "fallback"
  /\ TryRefresh(p, o, EndOf(p, IF o = "ok" THEN "unauthorized" ELSE "failed"))
  /\ UNCHANGED <<file, runs, cfg, clientVars, effects, storeVars>>

\* One of the requests of a command.
Request(p, o) ==
  /\ pc[p] = "request"
  /\ \/ cmd[p] = "call" /\ Goto(p, "check")
     \/ Goto(p, IF o = "ok" THEN "done" ELSE EndOf(p, "failed"))
  /\ UNCHANGED <<file, serverVars, runs, op, cfg, mem, clientVars, historyVars>>

\* Time passes for a token.  A request (60 s at most) that was sent with a
\* token that was not due ends within the five minutes in which it is due.
Ages(g) ==
  /\ grants[g].age # "expired"
  /\ grants[g].age = "due" =>
       \A p \in Procs : ~ /\ pc[p] \in InStore \cup {"request"}
                          /\ mem[p].access = g
                          /\ mem[p].seen = "fresh"
  /\ grants' = [grants EXCEPT ![g].age = IF @ = "fresh" THEN "due" ELSE "expired"]
  /\ UNCHANGED <<file, live, gateway, runs, pc, op, cfg, mem, clientVars, historyVars>>

-----------------------------------------------------------------------------
(* Gateway mode.                                                           *)

GatewayAnswers(s, h) == gateway' = [gateway EXCEPT ![h] = s]

\* CheckVersion and StartDeviceLogin.
StartLogin(p, o) ==
  /\ pc[p] = "start"
  /\ Goto(p, IF o = "ok" THEN "poll" ELSE "failed")
  /\ UNCHANGED <<file, serverVars, runs, op, cfg, mem, clientVars, historyVars>>

TimePasses(p) ==
  /\ pc[p] = "poll"
  /\ ~late[p]
  /\ late' = [late EXCEPT ![p] = TRUE]
  /\ UNCHANGED <<file, serverVars, runs, pc, op, cfg, mem, cmd, host, historyVars>>

\* Mutant: the deadline is not looked at.
DeadlineIgnored(p) ==
  /\ pc[p] = "poll"
  /\ late[p]
  /\ UNCHANGED vars

Deadline(p) ==
  /\ pc[p] = "poll"
  /\ late[p]
  /\ Goto(p, "failed")
  /\ UNCHANGED <<file, serverVars, runs, op, cfg, mem, clientVars, historyVars>>

\* PollDeviceLogin.  The answers authorization_pending and slow_down change
\* nothing; the user authorizes, or the login fails.
Poll(p, o) ==
  /\ pc[p] = "poll"
  /\ ~late[p]
  /\ \/ /\ o \in {"ok", "lost"}
        /\ GatewayAnswers("open", host[p])
        /\ IF o = "ok" THEN Store(p, "session") ELSE Goto(p, "failed") /\ UNCHANGED op
     \/ Goto(p, "failed") /\ UNCHANGED <<gateway, op>>
  /\ UNCHANGED <<file, grants, live, runs, cfg, mem, clientVars, historyVars>>

\* LoadSessionToken
LoadSession(p) ==
  /\ pc[p] = "session"
  /\ Goto(p, IF host[p] \in file.sessions THEN "send" ELSE "failed")
  /\ UNCHANGED <<file, serverVars, runs, op, cfg, mem, clientVars, historyVars>>

\* Mutant: any error is taken for an expired session.
NeedsRefreshAnyError(o, s) == o # "ok" \/ s # "open"

\* callJSONWithRefresh: was the request refused because the session expired?
NeedsRefresh(o, s) == o = "ok" /\ s = "expired"

\* A request that changes something on the server's side.
CarriedOut(p, o) == o \in {"ok", "lost"} /\ gateway[host[p]] = "open"
Counted(p, o) ==
  effects' = IF CarriedOut(p, o) THEN [effects EXCEPT ![p] = @ + 1] ELSE effects

Send(p, o) ==
  /\ pc[p] = "send"
  /\ Counted(p, o)
  /\ Goto(p, IF o = "ok" /\ CarriedOut(p, o) THEN "done"
             ELSE IF NeedsRefresh(o, gateway[host[p]]) THEN "renew" ELSE "failed")
  /\ UNCHANGED <<file, serverVars, runs, op, cfg, mem, clientVars, dropped, storeVars>>

\* RefreshSession: the client's token stays the same.
Renew(p, o) ==
  /\ pc[p] = "renew"
  /\ IF o \in {"ok", "lost"} /\ gateway[host[p]] = "expired"
       THEN \E s \in {"open", "none"} : GatewayAnswers(s, host[p])
       ELSE UNCHANGED gateway
  /\ Goto(p, IF o = "ok" /\ gateway'[host[p]] = "open" THEN "resend" ELSE "failed")
  /\ UNCHANGED <<file, grants, live, runs, op, cfg, mem, clientVars, historyVars>>

Resend(p, o) ==
  /\ pc[p] = "resend"
  /\ Counted(p, o)
  /\ Goto(p, IF o = "ok" /\ CarriedOut(p, o) THEN "done" ELSE "failed")
  /\ UNCHANGED <<file, serverVars, runs, op, cfg, mem, clientVars, dropped, storeVars>>

\* Logout at the gateway, whose result is not looked at.
Revoke(p, o) ==
  /\ pc[p] = "revoke"
  /\ IF host[p] \in file.sessions /\ o \in {"ok", "lost"}
       THEN GatewayAnswers("none", host[p]) ELSE UNCHANGED gateway
  /\ Store(p, "delete")
  /\ UNCHANGED <<file, grants, live, runs, cfg, mem, clientVars, historyVars>>

SessionExpires(h) ==
  /\ gateway[h] = "open"
  /\ GatewayAnswers("expired", h)
  /\ UNCHANGED <<file, grants, live, runs, pc, op, cfg, mem, clientVars, historyVars>>

-----------------------------------------------------------------------------

Killed(p) ==
  /\ "killed" \in Faults
  /\ pc[p] \notin Ended
  /\ Goto(p, "failed")
  /\ cfg' = [cfg EXCEPT ![p] = EmptyFile]
  /\ dropped' = (dropped \/ (op[p] = "refreshed" /\ pc[p] \in InStore))
  /\ UNCHANGED <<file, serverVars, runs, op, mem, clientVars, effects, storeVars>>

\* What a process does by itself.
Step(p) ==
  \/ Mode(p) \/ Load(p) \/ Write(p) \/ Save(p) \/ SaveFails(p)
  \/ LoadApp(p) \/ LoadTokens(p) \/ Check(p)
  \/ TimePasses(p) \/ Deadline(p) \/ LoadSession(p)
  \/ \E o \in Outcomes :
       \/ Exchange(p, o) \/ Refresh(p, o) \/ Fallback(p, o) \/ Request(p, o)
       \/ StartLogin(p, o) \/ Poll(p, o) \/ Send(p, o) \/ Renew(p, o)
       \/ Resend(p, o) \/ Revoke(p, o)

Next ==
  \/ \E p \in Procs :
       \/ \E c \in Commands, flag \in Hosts \cup {None} : Begin(p, c, flag)
       \/ Step(p) \/ Authorize(p) \/ Killed(p)
  \/ \E g \in DOMAIN grants : Ages(g)
  \/ \E h \in Hosts : SessionExpires(h)

Spec == Init /\ [][Next]_vars

\* Each process is scheduled, its requests end (60 s directly, 45 s through a
\* gateway) and clocks go on.  The user need not answer, nothing need expire.
FairSpec == Spec /\ \A p \in Procs : WF_vars(Step(p))

-----------------------------------------------------------------------------
(* Properties.                                                             *)

Tokens == 0..Len(grants)
Files ==
  [app : Apps \cup {None}, access : Tokens, refresh : Tokens,
   sessions : SUBSET Hosts, url : Hosts \cup {None}]
Labels ==
  Ended \cup InStore \cup {"mode", "app", "tokens", "waiting", "exchange",
              "check", "refresh", "fallback", "request", "start", "poll",
              "session", "send", "renew", "resend", "revoke"}

\* Every token in the file and in a process was issued, every command has a
\* gateway to talk to, and a process that makes local requests has a token.
TypeOK ==
  /\ file \in Files
  /\ live \subseteq 1..Len(grants)
  /\ gateway \in [Hosts -> {"none", "open", "expired"}]
  /\ pc \in [Procs -> Labels]
  /\ cfg \in [Procs -> Files]
  /\ host \in [Procs -> Hosts]
  /\ \A p \in Procs :
       /\ mem[p].access \in Tokens /\ mem[p].refresh \in Tokens
       /\ pc[p] \in {"check", "request"} => mem[p].access # NoToken
       /\ pc[p] \in {"refresh", "fallback"} => mem[p].refresh # NoToken

\* The refresh token in config.json can be used, whatever processes log in,
\* log out and refresh at the same time, except while a process that has just
\* used it up is saving its successor, or when that was prevented: nobody is
\* sent back to `larkctl login` by an older token saved over a newer one
\* (ensureToken and SaveLocalTokens).
LiveTokenKept ==
  file.refresh # NoToken /\ file.refresh \notin live =>
    \/ dropped
    \/ \E p \in Procs : op[p] = "refreshed" /\ pc[p] \in InStore

\* No request leaves with an access token that has expired (ensureToken
\* refreshes five minutes early).
RequestsAuthorized ==
  \A p \in Procs : pc[p] = "request" => grants[mem[p].access].age # "expired"

\* "auto-refreshed" (README): a logged-in user's call is never refused for its
\* refresh token, as long as the app is the one logged in with and no answer
\* or process was lost in a refresh.
AutoRefreshed ==
  \A p \in Procs : pc[p] = "unauthorized" =>
    dropped \/ grants[mem[p].refresh].app # mem[p].app

\* As long as no two store operations are under way at the same time,
\* config.json holds what the completed ones make of it one after the other: no
\* refresh within a call, no login to one gateway and no operation that fails or is
\* killed half-way takes anything away from the app, the tokens or the sessions of
\* other gateways (loadLocalConfig, writeFileAtomic and the operations around them).
StoresInTurn == ~overlapped => file = stored

\* A call through a gateway is carried out at most once, although it is sent
\* again when the session had expired (callJSONWithRefresh).
CarriedOutOnce == \A p \in Procs : effects[p] <= 1

\* "maximum time waiting for authorization": a login through a gateway ends even
\* if the user never answers.  (A login in local mode does not.)
DeviceLoginEnds == \A p \in Procs : pc[p] \in {"start", "poll"} ~> pc[p] \in Ended
=============================================================================
