-------------------------- MODULE CredentialsProofs --------------------------
(***************************************************************************)
(* Proofs about Credentials, for every number of processes, apps, gateways *)
(* and tokens, whatever requests are lost and whatever processes are       *)
(* killed.  IInv (what a process holds where, and that a token it has seen *)
(* fresh has not expired) is inductive by itself; AtMostOnce, InTurn (what *)
(* was read is what is in the file) and, in local mode, Local and Kept,    *)
(* and for a process alone Sound, are inductive given IInv.                *)
(***************************************************************************)
EXTENDS Credentials, TLAPS

Ops == {"none", "app", "tokens", "refreshed", "clear", "session", "delete", "url"}
Ages3 == {"fresh", "due", "expired"}
Clients ==
  [app : Apps \cup {None}, access : Tokens, refresh : Tokens, seen : Ages3]
Grants == [app : Apps \cup {None}, age : Ages3]

\* The types of the variables.
Typing ==
  /\ grants \in Seq(Grants)
  /\ live \subseteq 1..Len(grants)
  /\ file \in Files
  /\ cfg \in [Procs -> Files]
  /\ mem \in [Procs -> Clients]
  /\ gateway \in [Hosts -> {"none", "open", "expired"}]
  /\ host \in [Procs -> Hosts]
  /\ pc \in [Procs -> Labels]
  /\ op \in [Procs -> Ops]

\* A process that is about to save tokens, to use them or to refresh them has
\* them, and the store operation it is in is one.
Holds(p) ==
  /\ pc[p] \in InStore => op[p] # "none"
  /\ pc[p] \in InStore /\ op[p] \in {"tokens", "refreshed"} =>
       mem[p].access # NoToken
  /\ pc[p] \in {"check", "request"} => mem[p].access # NoToken
  /\ pc[p] \in {"refresh", "fallback"} => mem[p].refresh # NoToken

\* A process in a request, or between a refresh and a request, has seen its
\* token fresh and the token has not expired since.
SeenFresh(p) ==
  pc[p] = "request" \/ (pc[p] \in InStore /\ op[p] = "refreshed") =>
    mem[p].seen = "fresh" /\ grants[mem[p].access].age # "expired"

IInv == Typing /\ \A p \in Procs : Holds(p) /\ SeenFresh(p)

\* Nobody holds a token at first.
LEMMA InitIInv == Init => IInv
  <1> SUFFICES ASSUME Init PROVE IInv
    OBVIOUS
  <1>1. grants = << >> /\ Len(grants) = 0 /\ live = {}
    BY DEF Init
  <1>2. Tokens = {0}
    BY <1>1 DEF Tokens
  <1>3. file \in Files /\ EmptyFile \in Files
    BY <1>2, InitialFilesAssumption DEF Files, EmptyFile, NoToken, Init
  <1>4. NoClient \in Clients
    BY <1>2 DEF Clients, NoClient, NoToken, Ages3
  <1>5. grants \in Seq(Grants) /\ live \subseteq 1..Len(grants)
    BY <1>1
  <1>6. cfg \in [Procs -> Files] /\ mem \in [Procs -> Clients]
    BY <1>3, <1>4 DEF Init
  <1>7. /\ gateway \in [Hosts -> {"none", "open", "expired"}]
        /\ host \in [Procs -> Hosts]
    BY CredentialsAssumption DEF Init
  <1>8. /\ pc \in [Procs -> Labels]
        /\ op \in [Procs -> Ops]
    BY DEF Init, Labels, InStore, Ended, Ops
  <1>9. \A p \in Procs : Holds(p) /\ SeenFresh(p)
    BY DEF Holds, InStore, SeenFresh, Init
  <1> QED BY <1>3, <1>5, <1>6, <1>7, <1>8, <1>9 DEF IInv, Typing

-----------------------------------------------------------------------------

\* A step of p: other processes stay as they are, and tokens too.
Only(p) ==
  /\ \A q \in Procs \ {p} : pc'[q] = pc[q] /\ op'[q] = op[q] /\ mem'[q] = mem[q]
  /\ Len(grants) <= Len(grants')
  /\ \A g \in 1..Len(grants) : grants'[g] = grants[g]

\* What such a step leaves of the others, and so of IInv.
LEMMA OthersKeep ==
  ASSUME IInv, NEW p \in Procs, Only(p), Typing', Holds(p)', SeenFresh(p)'
  PROVE  IInv'
  <1>1. ASSUME NEW q \in Procs, q # p PROVE Holds(q)' /\ SeenFresh(q)'
    <2>1. /\ pc'[q] = pc[q] /\ op'[q] = op[q] /\ mem'[q] = mem[q]
          /\ Holds(q) /\ SeenFresh(q)
      BY <1>1 DEF Only, IInv
    <2>2. Holds(q)'
      BY <2>1 DEF Holds, InStore
    <2>3. CASE pc[q] = "request" \/ (pc[q] \in InStore /\ op[q] = "refreshed")
      <3>1. mem[q].access # NoToken
        BY <2>1, <2>3 DEF Holds, InStore
      <3>2. mem[q].access \in 1..Len(grants)
        BY <3>1 DEF IInv, Typing, Clients, Tokens, NoToken
      <3>3. grants'[mem[q].access] = grants[mem[q].access]
        BY <3>2 DEF Only
      <3> QED BY <2>1, <2>2, <2>3, <3>3 DEF SeenFresh, InStore
    <2>4. CASE ~(pc[q] = "request" \/ (pc[q] \in InStore /\ op[q] = "refreshed"))
      BY <2>1, <2>2, <2>4 DEF SeenFresh, InStore
    <2> QED BY <2>3, <2>4
  <1> QED BY <1>1 DEF IInv

\* With no token issued, what is kept of the types.
LEMMA SameTokens ==
  ASSUME UNCHANGED grants
  PROVE  Tokens' = Tokens /\ Files' = Files /\ Clients' = Clients
  BY DEF Tokens, Files, Clients

\* A store operation writes a file.
LEMMA UpdatedInFiles ==
  ASSUME Typing, NEW p \in Procs, NEW f \in Files, op[p] # "none"
  PROVE  Updated(p, f) \in Files
  <1>1. op[p] \in Ops \ {"none"} /\ mem[p] \in Clients /\ host[p] \in Hosts
    BY DEF Typing
  <1>2. NoToken \in Tokens
    BY DEF Tokens, NoToken, Typing
  <1> QED BY <1>1, <1>2 DEF Updated, Files, Clients, Ops

-----------------------------------------------------------------------------

\* A process in the store holds the tokens that it saves.
LEMMA StoreStep ==
  ASSUME IInv, NEW p \in Procs, Load(p) \/ Write(p) \/ Save(p) \/ SaveFails(p)
  PROVE  IInv'
  <1>1. UNCHANGED <<grants, live, mem, gateway, host>>
    BY DEF Load, Write, Save, SaveFails, HasRead, serverVars, clientVars
  <1>2. Tokens' = Tokens /\ Files' = Files /\ Clients' = Clients
    BY <1>1, SameTokens
  <1>3. /\ Typing /\ EmptyFile \in Files /\ pc[p] \in InStore
        /\ op[p] \in Ops /\ op[p] # "none"
    BY DEF IInv, Typing, Files, EmptyFile, Tokens, NoToken, Load, Write, Save, SaveFails,
           HasRead, Holds, InStore
  <1>4. Updated(p, cfg[p]) \in Files
    BY <1>3, UpdatedInFiles DEF Typing
  <1>5. pc' \in [Procs -> Labels] /\ op' \in [Procs -> Ops]
    BY <1>3 DEF Typing, Load, Write, Save, SaveFails, HasRead, Goto, AfterSave, Labels,
           InStore, Ended, Ops
  <1>6. cfg' \in [Procs -> Files] /\ file' \in Files
    BY <1>3, <1>4 DEF Typing, Load, Write, Save, SaveFails, HasRead
  <1>7. Typing'
    BY <1>1, <1>2, <1>3, <1>5, <1>6 DEF Typing
  <1>8. Only(p)
    BY <1>1, <1>3 DEF Only, Typing, Load, Write, Save, SaveFails, HasRead, Goto
  <1>9. Holds(p)'
    <2>1. CASE Load(p)
      BY <2>1, <1>3 DEF Load, Goto, Holds, InStore, IInv, Typing
    <2>4. CASE Write(p)
      BY <2>4, <1>3 DEF Write, Goto, Holds, InStore, IInv, Typing
    <2>2. CASE Save(p)
      BY <2>2, <1>3 DEF Save, Goto, AfterSave, Holds, InStore, IInv, Typing, Ops
    <2>3. CASE SaveFails(p)
      BY <2>3, <1>3 DEF SaveFails, HasRead, Goto, Holds, InStore, IInv, Typing
    <2> QED BY <2>1, <2>2, <2>3, <2>4
  <1>10. SeenFresh(p)'
    <2>1. CASE Load(p)
      BY <2>1, <1>3, <1>1 DEF Load, Goto, SeenFresh, InStore, IInv, Typing
    <2>4. CASE Write(p)
      BY <2>4, <1>3, <1>1 DEF Write, Goto, SeenFresh, InStore, IInv, Typing
    <2>2. CASE Save(p)
      BY <2>2, <1>3, <1>1 DEF Save, Goto, AfterSave, SeenFresh, InStore, IInv, Typing, Ops
    <2>3. CASE SaveFails(p)
      BY <2>3, <1>3, <1>1 DEF SaveFails, HasRead, Goto, SeenFresh, InStore, IInv, Typing
    <2> QED BY <2>1, <2>2, <2>3, <2>4
  <1> QED BY <1>7, <1>8, <1>9, <1>10, OthersKeep

\* The steps between commands and the reads of the file.
LEMMA CommandStep ==
  ASSUME IInv, NEW p \in Procs,
         \/ \E c \in Commands, flag \in Hosts \cup {None} : Begin(p, c, flag)
         \/ Mode(p) \/ LoadApp(p) \/ LoadTokens(p)
  PROVE  IInv'
  <1> DEFINE Begins == \E c \in Commands, flag \in Hosts \cup {None} : Begin(p, c, flag)
  <1>1. UNCHANGED <<file, grants, live, gateway, cfg>>
    BY DEF Begin, Mode, LoadApp, LoadTokens, serverVars
  <1>2. Tokens' = Tokens /\ Files' = Files /\ Clients' = Clients
    BY <1>1, SameTokens
  <1>3. Typing /\ NoClient \in Clients /\ NoToken \in Tokens
    BY DEF IInv, Typing, Clients, NoClient, Tokens, NoToken, Ages3
  <1>4. mem' \in [Procs -> Clients] /\ Holds(p)' /\ SeenFresh(p)' /\ Only(p)
        /\ pc' \in [Procs -> Labels] /\ op' \in [Procs -> Ops] /\ host' \in [Procs -> Hosts]
    <2>1. CASE Begins
      <3>1. PICK c \in Commands, flag \in Hosts \cup {None} : Begin(p, c, flag)
        BY <2>1
      <3>2. HostOf(flag) \in Hosts
        BY <1>3, CredentialsAssumption DEF HostOf, Typing, Files
      <3>3. host' \in [Procs -> Hosts]
        BY <1>3, <3>1, <3>2 DEF Begin, Typing
      <3>4. mem' \in [Procs -> Clients] /\ \A q \in Procs \ {p} : mem'[q] = mem[q]
        <4>1. CASE c = "init"
          <5>1. PICK a \in Apps : mem' = [mem EXCEPT ![p] = [NoClient EXCEPT !.app = a]]
            BY <3>1, <4>1 DEF Begin
          <5>2. [NoClient EXCEPT !.app = a] \in Clients
            BY <1>3 DEF Clients
          <5> QED BY <5>1, <5>2, <1>3 DEF Typing
        <4>2. CASE c # "init"
          BY <3>1, <4>2, <1>3 DEF Begin, Typing
        <4> QED BY <4>1, <4>2
      <3>5. \/ op' = [op EXCEPT ![p] = "app"] /\ pc' = [pc EXCEPT ![p] = "load"]
            \/ op' = [op EXCEPT ![p] = "none"] /\ pc' = [pc EXCEPT ![p] = "mode"]
        BY <3>1 DEF Begin, Store, Goto
      <3> QED BY <1>1, <1>3, <3>3, <3>4, <3>5
            DEF Typing, Labels, InStore, Ops, Holds, SeenFresh, Only
    <2>2. CASE Mode(p)
      <3>1. mem' = mem /\ host' = host
        BY <2>2 DEF Mode, clientVars
      <3>2. \/ op' = [op EXCEPT ![p] = "clear"] /\ pc' = [pc EXCEPT ![p] = "load"]
            \/ /\ op' = op
               /\ \E l \in {"app", "start", "revoke", "session"} : pc' = [pc EXCEPT ![p] = l]
        BY <2>2 DEF Mode, Store, Goto
      <3> QED BY <1>1, <1>3, <3>1, <3>2 DEF Typing, Labels, InStore, Ops, Holds, SeenFresh, Only
    <2>3. CASE LoadApp(p)
      <3>1. op' = op /\ host' = host /\ mem' \in {mem, [mem EXCEPT ![p].app = file.app]}
        BY <2>3 DEF LoadApp, clientVars
      <3>2. \E l \in {"failed", "waiting", "tokens"} : pc' = [pc EXCEPT ![p] = l]
        BY <2>3 DEF LoadApp, Goto
      <3>3. mem[p] \in Clients /\ file.app \in Apps \cup {None}
        BY <1>3 DEF Typing, Files
      <3>4. [mem[p] EXCEPT !.app = file.app] \in Clients
        BY <3>3 DEF Clients
      <3>5. mem' \in [Procs -> Clients] /\ \A q \in Procs \ {p} : mem'[q] = mem[q]
        BY <1>3, <3>1, <3>4 DEF Typing
      <3>6. pc' \in [Procs -> Labels] /\ Only(p)
        BY <1>1, <1>3, <3>1, <3>2, <3>5 DEF Typing, Labels, InStore, Ended, Only
      <3>7. Holds(p)' /\ SeenFresh(p)'
        BY <1>3, <3>2 DEF Typing, Holds, InStore, SeenFresh
      <3> QED BY <1>3, <3>1, <3>5, <3>6, <3>7 DEF Typing
    <2>4. CASE LoadTokens(p)
      <3>1. /\ op' = op /\ host' = host
            /\ mem' = [mem EXCEPT ![p].access = file.access, ![p].refresh = file.refresh]
        BY <2>4 DEF LoadTokens, clientVars
      <3>2. \/ pc' = [pc EXCEPT ![p] = "failed"]
            \/ pc' = [pc EXCEPT ![p] = "check"] /\ file.access # NoToken
        BY <2>4 DEF LoadTokens, Goto
      <3>3. mem' \in [Procs -> Clients] /\ \A q \in Procs \ {p} : mem'[q] = mem[q]
        BY <1>3, <3>1 DEF Typing, Clients, Files
      <3>4. mem'[p].access = file.access
        BY <1>3, <3>1 DEF Typing, Clients
      <3>5. pc' \in [Procs -> Labels] /\ Only(p)
        BY <1>1, <1>3, <3>1, <3>2, <3>3 DEF Typing, Labels, InStore, Ended, Only
      <3>6. Holds(p)' /\ SeenFresh(p)'
        BY <1>3, <3>2, <3>4 DEF Typing, Holds, InStore, SeenFresh
      <3> QED BY <1>3, <3>1, <3>3, <3>5, <3>6 DEF Typing
    <2> QED BY <2>1, <2>2, <2>3, <2>4
  <1>5. Typing'
    BY <1>1, <1>2, <1>3, <1>4 DEF Typing
  <1> QED BY <1>4, <1>5, OthersKeep

\* A step that only moves a process on, to where nothing is asked of it, or
\* from a request to the check before the next.
LEMMA MoveOn ==
  ASSUME IInv, NEW p \in Procs,
         UNCHANGED <<file, grants, live, mem, host, op>>,
         cfg' \in [Procs -> Files],
         gateway' \in [Hosts -> {"none", "open", "expired"}],
         NEW l \in Labels, pc' = [pc EXCEPT ![p] = l],
         \/ l \notin InStore \cup {"check", "request", "refresh", "fallback"}
         \/ l = "check" /\ pc[p] = "request"
  PROVE  IInv'
  <1>1. Tokens' = Tokens /\ Files' = Files /\ Clients' = Clients
    BY SameTokens
  <1>2. Typing /\ Holds(p)
    BY DEF IInv
  <1>3. Typing' /\ Only(p)
    BY <1>1, <1>2 DEF Typing, Only
  <1>4. Holds(p)' /\ SeenFresh(p)'
    BY <1>2 DEF Typing, Holds, InStore, SeenFresh
  <1> QED BY <1>3, <1>4, OthersKeep

\* Steps that change a place in the program and none of the tokens.
LEMMA MovingStep ==
  ASSUME IInv, NEW p \in Procs,
         \/ Authorize(p) \/ TimePasses(p) \/ Deadline(p) \/ LoadSession(p) \/ Killed(p)
         \/ \E o \in Outcomes : \/ Request(p, o) \/ StartLogin(p, o) \/ Send(p, o)
                                \/ Renew(p, o) \/ Resend(p, o)
  PROVE  IInv'
  <1>1. Typing /\ EmptyFile \in Files
    BY DEF IInv, Typing, Files, EmptyFile, Tokens, NoToken
  <1>2. UNCHANGED <<file, grants, live, mem, host, op>>
    BY DEF Authorize, TimePasses, Deadline, LoadSession, Killed, Request, StartLogin,
           Send, Renew, Resend, serverVars, clientVars
  <1>3. cfg' \in [Procs -> Files]
    BY <1>1 DEF Authorize, TimePasses, Deadline, LoadSession, Killed, Request, StartLogin,
           Send, Renew, Resend, Typing
  <1>4. gateway' \in [Hosts -> {"none", "open", "expired"}]
    <2>1. CASE \E o \in Outcomes : Renew(p, o)
      BY <1>1, <2>1 DEF Renew, GatewayAnswers, Typing
    <2>2. CASE ~\E o \in Outcomes : Renew(p, o)
      BY <1>1, <2>2 DEF Authorize, TimePasses, Deadline, LoadSession, Killed, Request,
           StartLogin, Send, Resend, Typing, serverVars
    <2> QED BY <2>1, <2>2
  <1>5. \E l \in Labels :
          /\ pc' = [pc EXCEPT ![p] = l]
          /\ \/ l \notin InStore \cup {"check", "request", "refresh", "fallback"}
             \/ l = "check" /\ pc[p] = "request"
    <2>1. CASE Authorize(p) \/ Deadline(p) \/ LoadSession(p) \/ Killed(p)
      BY <2>1 DEF Authorize, Deadline, LoadSession, Killed, Goto, Labels, InStore, Ended
    <2>2. CASE TimePasses(p)
      BY <2>2, <1>1 DEF TimePasses, Labels, InStore, Typing
    <2>3. CASE \E o \in Outcomes : Request(p, o) \/ StartLogin(p, o)
      BY <2>3 DEF Request, StartLogin, Goto, EndOf, Labels, InStore, Ended
    <2>4. CASE \E o \in Outcomes : Send(p, o) \/ Renew(p, o) \/ Resend(p, o)
      BY <2>4 DEF Send, Renew, Resend, Goto, Labels, InStore, Ended
    <2> QED BY <2>1, <2>2, <2>3, <2>4
  <1> QED BY <1>2, <1>3, <1>4, <1>5, MoveOn

\* A step that goes to a store operation of the gateway's session.
LEMMA GatewayStep ==
  ASSUME IInv, NEW p \in Procs, \E o \in Outcomes : Poll(p, o) \/ Revoke(p, o)
  PROVE  IInv'
  <1>1. Typing
    BY DEF IInv
  <1>2. UNCHANGED <<file, grants, live, cfg, mem, host>>
    BY DEF Poll, Revoke, clientVars
  <1>3. gateway' \in [Hosts -> {"none", "open", "expired"}]
    BY <1>1 DEF Poll, Revoke, GatewayAnswers, Typing
  <1>4. \/ op' = op /\ pc' = [pc EXCEPT ![p] = "failed"]
        \/ /\ \E o \in {"session", "delete"} : op' = [op EXCEPT ![p] = o]
           /\ pc' = [pc EXCEPT ![p] = "load"]
    BY DEF Poll, Revoke, Store, Goto
  <1>5. Tokens' = Tokens /\ Files' = Files /\ Clients' = Clients
    BY <1>2, SameTokens
  <1>6. Typing' /\ Only(p)
    BY <1>1, <1>2, <1>3, <1>4, <1>5 DEF Typing, Only, Labels, InStore, Ended, Ops
  <1>7. Holds(p)' /\ SeenFresh(p)'
    BY <1>1, <1>2, <1>4 DEF Typing, Holds, InStore, SeenFresh
  <1> QED BY <1>6, <1>7, OthersKeep

-----------------------------------------------------------------------------

\* ensureToken goes on with a token that is fresh, or with one to refresh.
LEMMA CheckStep ==
  ASSUME IInv, NEW p \in Procs, Check(p)
  PROVE  IInv'
  <1> DEFINE age == grants[mem[p].access].age
  <1>1. Typing /\ pc[p] = "check" /\ mem[p] \in Clients /\ mem[p].access # NoToken
    BY DEF IInv, Typing, Holds, InStore, Check
  <1>2. mem[p].access \in 1..Len(grants)
    BY <1>1 DEF Clients, Tokens, NoToken, Typing
  <1>3. age \in Ages3
    <2>1. grants[mem[p].access] \in Grants
      BY <1>1, <1>2 DEF Typing
    <2> QED BY <2>1 DEF Grants
  <1>4. mem' = [mem EXCEPT ![p].seen = age]
        /\ UNCHANGED <<file, grants, live, gateway, op, cfg, host>>
    BY DEF Check, serverVars, clientVars
  <1>5. \/ pc' = [pc EXCEPT ![p] = "request"] /\ age = "fresh"
        \/ pc' = [pc EXCEPT ![p] = "refresh"] /\ mem[p].refresh # NoToken
        \/ \E l \in {"done", "failed"} : pc' = [pc EXCEPT ![p] = l]
    BY DEF Check, Goto, IsFresh, EndOf
  <1>6. [mem[p] EXCEPT !.seen = age] \in Clients
    BY <1>1, <1>3 DEF Clients
  <1>7. /\ mem' \in [Procs -> Clients]
        /\ mem'[p].seen = age /\ mem'[p].access = mem[p].access
        /\ mem'[p].refresh = mem[p].refresh
        /\ \A q \in Procs \ {p} : mem'[q] = mem[q]
    <2>1. mem'[p] = [mem[p] EXCEPT !.seen = age]
      BY <1>1, <1>4 DEF Typing
    <2> QED BY <1>1, <1>4, <1>6, <2>1 DEF Typing, Clients
  <1>8. Tokens' = Tokens /\ Files' = Files /\ Clients' = Clients
    BY <1>4, SameTokens
  <1>9. pc' \in [Procs -> Labels] /\ Only(p)
    BY <1>1, <1>4, <1>5, <1>7 DEF Typing, Labels, InStore, Ended, Only
  <1>10. Typing'
    BY <1>1, <1>4, <1>7, <1>8, <1>9 DEF Typing
  <1>11. Holds(p)'
    BY <1>1, <1>5, <1>7 DEF Typing, Holds, InStore
  <1>12. SeenFresh(p)'
    <2>1. CASE pc' = [pc EXCEPT ![p] = "request"] /\ age = "fresh"
      BY <1>1, <1>4, <1>7, <2>1 DEF Typing, SeenFresh, InStore
    <2>2. CASE \E l \in {"refresh", "done", "failed"} : pc' = [pc EXCEPT ![p] = l]
      BY <1>1, <2>2 DEF Typing, SeenFresh, InStore
    <2> QED BY <1>5, <2>1, <2>2
  <1> QED BY <1>9, <1>10, <1>11, <1>12, OthersKeep

\* What Feishu issues: an access token, the next, and perhaps a refresh token.
LEMMA Issued ==
  ASSUME Typing, NEW a \in Apps \cup {None}, Issue(a)
  PROVE  /\ grants' \in Seq(Grants)
         /\ Len(grants') = Len(grants) + 1
         /\ \A g \in 1..Len(grants) : grants'[g] = grants[g]
         /\ grants'[NextGrant].age = "fresh"
         /\ Tokens \subseteq Tokens'
         /\ Files \subseteq Files'
         /\ Clients \subseteq Clients'
         /\ {NoToken, NextGrant} \subseteq Tokens'
         /\ gateway' = gateway
  <1>1. [app |-> a, age |-> "fresh"] \in Grants
    BY DEF Grants, Ages3
  <1>2. grants \in Seq(Grants) /\ Len(grants) \in Nat
    BY DEF Typing
  <1>3. /\ grants' \in Seq(Grants)
        /\ Len(grants') = Len(grants) + 1
        /\ \A g \in 1..Len(grants) : grants'[g] = grants[g]
        /\ grants'[NextGrant].age = "fresh"
        /\ gateway' = gateway
    BY <1>1, <1>2 DEF Issue, NextGrant
  <1>4. Tokens \subseteq Tokens' /\ {NoToken, NextGrant} \subseteq Tokens'
    BY <1>2, <1>3 DEF Tokens, NoToken, NextGrant
  <1>5. Files \subseteq Files'
    BY <1>4 DEF Files
  <1>6. Clients \subseteq Clients'
    BY <1>4 DEF Clients
  <1> QED BY <1>3, <1>4, <1>5, <1>6

\* A step in which Feishu issues a token to p, which saves it or never gets it.
LEMMA IssuingStep ==
  ASSUME IInv, NEW p \in Procs, NEW a \in Apps \cup {None}, Issue(a),
         UNCHANGED <<file, cfg, host>>,
         NEW r \in Tokens', live' \subseteq 1..Len(grants'),
         \/ /\ \/ op' = [op EXCEPT ![p] = "tokens"]
               \/ op' = [op EXCEPT ![p] = "refreshed"] /\ mem'[p].seen = "fresh"
            /\ pc' = [pc EXCEPT ![p] = "load"]
            /\ \/ mem' = [mem EXCEPT ![p].access = NextGrant, ![p].refresh = r]
               \/ mem' = [mem EXCEPT ![p].access = NextGrant, ![p].refresh = r,
                                     ![p].seen = "fresh"]
         \/ /\ op' = op /\ mem' = mem
            /\ \E l \in {"fallback", "done", "failed", "unauthorized"} :
                 pc' = [pc EXCEPT ![p] = l] /\ (l = "fallback" => mem[p].refresh # NoToken)
  PROVE  IInv'
  <1>1. Typing /\ mem[p] \in Clients
    BY DEF IInv, Typing
  <1>2. /\ grants' \in Seq(Grants)
        /\ Len(grants') = Len(grants) + 1
        /\ \A g \in 1..Len(grants) : grants'[g] = grants[g]
        /\ grants'[NextGrant].age = "fresh"
        /\ Tokens \subseteq Tokens'
        /\ Files \subseteq Files'
        /\ Clients \subseteq Clients'
        /\ {NoToken, NextGrant} \subseteq Tokens'
        /\ gateway' = gateway
    BY <1>1, Issued
  <1>3. /\ mem' \in [Procs -> Clients']
        /\ \A q \in Procs \ {p} : mem'[q] = mem[q]
        /\ op'[p] \in {"tokens", "refreshed"} /\ pc'[p] = "load" => mem'[p].access = NextGrant
    <2>1. CASE mem' = [mem EXCEPT ![p].access = NextGrant, ![p].refresh = r]
               /\ pc' = [pc EXCEPT ![p] = "load"]
      <3>1. mem'[p] = [mem[p] EXCEPT !.access = NextGrant, !.refresh = r]
        BY <1>1, <2>1 DEF Typing
      <3>2. mem'[p] \in Clients' /\ mem'[p].access = NextGrant
        BY <1>1, <1>2, <3>1 DEF Clients
      <3> QED BY <1>1, <1>2, <2>1, <3>2 DEF Typing
    <2>2. CASE mem' = [mem EXCEPT ![p].access = NextGrant, ![p].refresh = r,
                                  ![p].seen = "fresh"]
               /\ pc' = [pc EXCEPT ![p] = "load"]
      <3>1. mem'[p] = [mem[p] EXCEPT !.access = NextGrant, !.refresh = r, !.seen = "fresh"]
        BY <1>1, <2>2 DEF Typing
      <3>2. mem'[p] \in Clients' /\ mem'[p].access = NextGrant
        BY <1>1, <1>2, <3>1 DEF Clients, Ages3
      <3> QED BY <1>1, <1>2, <2>2, <3>2 DEF Typing
    <2>3. CASE mem' = mem /\ pc'[p] # "load"
      BY <1>1, <1>2, <2>3 DEF Typing
    <2> QED BY <1>1, <2>1, <2>2, <2>3 DEF Typing
  <1>4. /\ op' \in [Procs -> Ops] /\ pc' \in [Procs -> Labels]
        /\ \A q \in Procs \ {p} : pc'[q] = pc[q] /\ op'[q] = op[q]
    BY <1>1 DEF Typing, Ops, Labels, InStore, Ended
  <1>5. Only(p)
    BY <1>1, <1>2, <1>3, <1>4 DEF Only, Typing
  <1>6. Typing'
    BY <1>1, <1>2, <1>3, <1>4 DEF Typing
  <1>7. Holds(p)' /\ SeenFresh(p)'
    <2>1. NextGrant # NoToken
      BY <1>1 DEF NextGrant, NoToken, Typing
    <2>2. CASE op'[p] = "tokens" /\ pc'[p] = "load"
      BY <1>3, <2>1, <2>2 DEF Holds, InStore, SeenFresh
    <2>3. CASE op'[p] = "refreshed" /\ pc'[p] = "load" /\ mem'[p].seen = "fresh"
      BY <1>2, <1>3, <2>1, <2>3 DEF Holds, InStore, SeenFresh
    <2>4. CASE /\ pc'[p] \in {"fallback", "done", "failed", "unauthorized"}
               /\ pc'[p] = "fallback" => mem'[p].refresh # NoToken
      BY <2>4 DEF Holds, InStore, SeenFresh
    <2> QED BY <1>1, <2>2, <2>3, <2>4 DEF Typing
  <1> QED BY <1>5, <1>6, <1>7, OthersKeep

\* A login gets its tokens, which are issued with the answer.
LEMMA ExchangeStep ==
  ASSUME IInv, NEW p \in Procs, NEW o \in Outcomes, Exchange(p, o)
  PROVE  IInv'
  <1>1. Typing /\ mem[p].app \in Apps \cup {None}
    BY DEF IInv, Typing, Clients
  <1>2. UNCHANGED <<file, cfg, host>>
    BY DEF Exchange, clientVars
  <1>3. CASE o = "failed"
    <2>1. UNCHANGED <<grants, live, gateway, mem, op>> /\ pc' = [pc EXCEPT ![p] = "failed"]
      BY <1>3 DEF Exchange, Goto, serverVars
    <2> QED BY <1>1, <1>2, <2>1, MoveOn DEF Typing, Labels, InStore, Ended
  <1>4. CASE o # "failed"
    <2>1. Issue(mem[p].app)
      BY <1>4 DEF Exchange
    <2>2. PICK r \in {NoToken, NextGrant} :
            /\ live' = live \cup ({r} \ {NoToken})
            /\ IF o = "ok"
                 THEN /\ mem' = [mem EXCEPT ![p].access = NextGrant, ![p].refresh = r]
                      /\ Store(p, "tokens")
                 ELSE Goto(p, "failed") /\ UNCHANGED <<mem, op>>
      BY <1>4 DEF Exchange
    <2>3. {NoToken, NextGrant} \subseteq Tokens' /\ Len(grants') = Len(grants) + 1
      BY <1>1, <2>1, Issued
    <2>4. live' \subseteq 1..Len(grants')
      BY <1>1, <2>2, <2>3 DEF Typing, NextGrant
    <2>5. \/ /\ op' = [op EXCEPT ![p] = "tokens"]
             /\ pc' = [pc EXCEPT ![p] = "load"]
             /\ mem' = [mem EXCEPT ![p].access = NextGrant, ![p].refresh = r]
          \/ /\ op' = op /\ mem' = mem
             /\ pc' = [pc EXCEPT ![p] = "failed"]
      BY <2>2 DEF Store, Goto
    <2> QED BY <1>1, <1>2, <2>1, <2>3, <2>4, <2>5, IssuingStep
  <1> QED BY <1>3, <1>4

\* A refresh gets a fresh token, whichever endpoint it comes from.
LEMMA RefreshStep ==
  ASSUME IInv, NEW p \in Procs, NEW o \in Outcomes, Refresh(p, o) \/ Fallback(p, o)
  PROVE  IInv'
  <1>1. Typing /\ mem[p] \in Clients /\ mem[p].refresh # NoToken
    BY DEF IInv, Typing, Holds, InStore, Refresh, Fallback
  <1>2. UNCHANGED <<file, cfg, host>>
    BY DEF Refresh, Fallback, clientVars
  <1>3. PICK l \in {"fallback", "done", "failed", "unauthorized"} : TryRefresh(p, o, l)
    BY DEF Refresh, Fallback, EndOf
  <1>4. CASE UNCHANGED <<grants, live, gateway, mem, op>> /\ pc' = [pc EXCEPT ![p] = l]
    <2>1. Tokens' = Tokens /\ Files' = Files /\ Clients' = Clients
      BY <1>4, SameTokens
    <2>2. Typing' /\ Only(p)
      BY <1>1, <1>2, <1>4, <2>1 DEF Typing, Only, Labels, InStore, Ended
    <2>3. Holds(p)' /\ SeenFresh(p)'
      BY <1>1, <1>4 DEF Typing, Holds, InStore, SeenFresh
    <2> QED BY <2>2, <2>3, OthersKeep
  <1>5. CASE /\ Issue(mem[p].app)
             /\ \E r \in {IF renewed THEN NextGrant ELSE mem[p].refresh : renewed \in Renewals} :
                  /\ live' = (live \ {mem[p].refresh}) \cup {r}
                  /\ \/ mem' = Adopt(p, r) /\ Store(p, "refreshed")
                     \/ Goto(p, l) /\ UNCHANGED <<mem, op>>
    <2>1. PICK r \in {IF renewed THEN NextGrant ELSE mem[p].refresh : renewed \in Renewals} :
                  /\ live' = (live \ {mem[p].refresh}) \cup {r}
                  /\ \/ mem' = Adopt(p, r) /\ Store(p, "refreshed")
                     \/ Goto(p, l) /\ UNCHANGED <<mem, op>>
      BY <1>5
    <2>2. /\ Len(grants') = Len(grants) + 1
          /\ Tokens \subseteq Tokens' /\ {NoToken, NextGrant} \subseteq Tokens'
      BY <1>1, <1>5, Issued DEF Clients
    <2>3. r \in {NextGrant, mem[p].refresh} /\ r \in Tokens' /\ r # NoToken
      BY <1>1, <2>2 DEF Clients, NextGrant, NoToken, Typing
    <2>4. live' \subseteq 1..Len(grants')
      BY <1>1, <2>1, <2>2, <2>3 DEF Typing, Tokens, NoToken
    <2>5. \/ /\ op' = [op EXCEPT ![p] = "refreshed"] /\ mem'[p].seen = "fresh"
             /\ pc' = [pc EXCEPT ![p] = "load"]
             /\ mem' = [mem EXCEPT ![p].access = NextGrant, ![p].refresh = r,
                                   ![p].seen = "fresh"]
          \/ /\ op' = op /\ mem' = mem
             /\ pc' = [pc EXCEPT ![p] = l]
      <3>1. CASE mem' = Adopt(p, r) /\ Store(p, "refreshed")
        <4>1. mem'[p] = [mem[p] EXCEPT !.access = NextGrant, !.refresh = r, !.seen = "fresh"]
          BY <1>1, <3>1 DEF Adopt, Typing
        <4>2. mem'[p].seen = "fresh"
          BY <1>1, <4>1 DEF Clients
        <4> QED BY <3>1, <4>2 DEF Adopt, Store, Goto
      <3>2. CASE Goto(p, l) /\ UNCHANGED <<mem, op>>
        BY <3>2 DEF Goto
      <3> QED BY <2>1, <3>1, <3>2
    <2>6. mem[p].app \in Apps \cup {None}
      BY <1>1 DEF Clients
    <2> QED BY <1>1, <1>2, <1>5, <2>3, <2>4, <2>5, <2>6, IssuingStep
  <1> QED BY <1>3, <1>4, <1>5 DEF TryRefresh, Goto, serverVars

\* A token that was seen fresh is not expired while it is in use.
LEMMA AgesStep ==
  ASSUME IInv, NEW g \in DOMAIN grants, Ages(g)
  PROVE  IInv'
  <1>1. Typing /\ g \in 1..Len(grants) /\ grants[g] \in Grants
    BY DEF IInv, Typing
  <1> DEFINE older == IF grants[g].age = "fresh" THEN "due" ELSE "expired"
  <1>2. grants' = [grants EXCEPT ![g].age = older]
        /\ UNCHANGED <<file, live, gateway, pc, op, cfg, mem, host>>
    BY DEF Ages, InStore, clientVars
  <1>3. [grants[g] EXCEPT !.age = older] \in Grants
    BY <1>1 DEF Grants, Ages3
  <1>4. grants' \in Seq(Grants) /\ Len(grants') = Len(grants)
    BY <1>1, <1>2, <1>3 DEF Typing
  <1>5. Tokens' = Tokens
    BY <1>4 DEF Tokens
  <1>6. Files' = Files /\ Clients' = Clients
    BY <1>5 DEF Files, Clients
  <1>7. Typing'
    BY <1>1, <1>2, <1>4, <1>6 DEF Typing
  <1>8. ASSUME NEW p \in Procs PROVE Holds(p)' /\ SeenFresh(p)'
    <2>1. Holds(p) /\ SeenFresh(p) /\ mem[p] \in Clients
      BY <1>1 DEF IInv, Typing
    <2>2. pc'[p] = pc[p] /\ op'[p] = op[p] /\ mem'[p] = mem[p]
      BY <1>2
    <2>3. Holds(p)'
      BY <2>1, <2>2 DEF Holds, InStore
    <2>4. CASE pc[p] = "request" \/ (pc[p] \in InStore /\ op[p] = "refreshed")
      <3>1. mem[p].access \in 1..Len(grants) /\ mem[p].seen = "fresh"
            /\ grants[mem[p].access].age # "expired"
        BY <1>1, <2>1, <2>4 DEF Holds, InStore, SeenFresh, Clients, Tokens, NoToken, Typing
      <3>2. CASE mem[p].access = g
        <4>1. grants[g].age # "due"
          BY <2>4, <3>1, <3>2 DEF Ages, InStore
        <4>2. grants[g].age = "fresh"
          BY <1>1, <3>1, <3>2, <4>1 DEF Grants, Ages3
        <4>3. grants'[g].age = "due"
          BY <1>1, <1>2, <4>2 DEF Typing, Grants
        <4> QED BY <2>3, <2>2, <3>1, <3>2, <4>3 DEF SeenFresh, InStore
      <3>3. CASE mem[p].access # g
        <4>1. grants'[mem[p].access] = grants[mem[p].access]
          BY <1>1, <1>2, <3>1, <3>3 DEF Typing
        <4> QED BY <2>3, <2>2, <3>1, <4>1 DEF SeenFresh, InStore
      <3> QED BY <3>2, <3>3
    <2>5. CASE ~(pc[p] = "request" \/ (pc[p] \in InStore /\ op[p] = "refreshed"))
      BY <2>3, <2>5, <2>2 DEF SeenFresh, InStore
    <2> QED BY <2>3, <2>4, <2>5
  <1> QED BY <1>7, <1>8 DEF IInv

\* The expiry of a session changes nothing here.
LEMMA ExpiryStep ==
  ASSUME IInv, NEW h \in Hosts, SessionExpires(h)
  PROVE  IInv'
  <1>1. Typing
    BY DEF IInv
  <1>2. UNCHANGED <<file, grants, live, pc, op, cfg, mem, host>>
    BY DEF SessionExpires, clientVars
  <1>3. gateway' \in [Hosts -> {"none", "open", "expired"}]
    BY <1>1 DEF SessionExpires, GatewayAnswers, Typing
  <1>4. Tokens' = Tokens /\ Files' = Files /\ Clients' = Clients
    BY <1>2, SameTokens
  <1> QED BY <1>1, <1>2, <1>3, <1>4 DEF IInv, Typing, Holds, InStore, SeenFresh

\* A step that changes nothing.
LEMMA IdleStep ==
  ASSUME IInv, UNCHANGED vars
  PROVE  IInv'
  <1>1. UNCHANGED <<file, grants, live, gateway, pc, op, cfg, mem, host>>
    BY DEF vars, serverVars, clientVars
  <1>2. Tokens' = Tokens /\ Files' = Files /\ Clients' = Clients
    BY <1>1, SameTokens
  <1> QED BY <1>1, <1>2 DEF IInv, Typing, Holds, InStore, SeenFresh

\* The invariant is inductive by itself.
LEMMA NextIInv == IInv /\ [Next]_vars => IInv'
  <1> SUFFICES ASSUME IInv, [Next]_vars PROVE IInv'
    OBVIOUS
  <1>1. CASE \E p \in Procs : \/ \E c \in Commands, flag \in Hosts \cup {None} : Begin(p, c, flag)
                              \/ Step(p) \/ Authorize(p) \/ Killed(p)
    <2>1. PICK p \in Procs : \/ \E c \in Commands, flag \in Hosts \cup {None} : Begin(p, c, flag)
                             \/ Step(p) \/ Authorize(p) \/ Killed(p)
      BY <1>1
    <2>2. CASE \/ \E c \in Commands, flag \in Hosts \cup {None} : Begin(p, c, flag)
               \/ Mode(p) \/ LoadApp(p) \/ LoadTokens(p)
      BY <2>2, CommandStep
    <2>3. CASE Load(p) \/ Write(p) \/ Save(p) \/ SaveFails(p)
      BY <2>3, StoreStep
    <2>4. CASE \/ Authorize(p) \/ TimePasses(p) \/ Deadline(p) \/ LoadSession(p) \/ Killed(p)
               \/ \E o \in Outcomes : \/ Request(p, o) \/ StartLogin(p, o) \/ Send(p, o)
                                      \/ Renew(p, o) \/ Resend(p, o)
      BY <2>4, MovingStep
    <2>5. CASE \E o \in Outcomes : Poll(p, o) \/ Revoke(p, o)
      BY <2>5, GatewayStep
    <2>6. CASE Check(p)
      BY <2>6, CheckStep
    <2>7. CASE \E o \in Outcomes : Exchange(p, o)
      BY <2>7, ExchangeStep
    <2>8. CASE \E o \in Outcomes : Refresh(p, o) \/ Fallback(p, o)
      BY <2>8, RefreshStep
    <2> QED BY <2>1, <2>2, <2>3, <2>4, <2>5, <2>6, <2>7, <2>8 DEF Step
  <1>2. CASE \E g \in DOMAIN grants : Ages(g)
    BY <1>2, AgesStep
  <1>3. CASE \E h \in Hosts : SessionExpires(h)
    BY <1>3, ExpiryStep
  <1>4. CASE UNCHANGED vars
    BY <1>4, IdleStep
  <1> QED BY <1>1, <1>2, <1>3, <1>4 DEF Next

\* So it always holds.
LEMMA Invariance == Spec => []IInv
  BY InitIInv, NextIInv, PTL DEF Spec

-----------------------------------------------------------------------------

\* Every token in config.json and in a process was issued, and a process that
\* makes local requests, or refreshes, holds a token (loadLocalConfig,
\* LoadLocalTokens and ensureToken).
THEOREM Types == Spec => []TypeOK
  <1>1. IInv => TypeOK
    BY DEF IInv, Typing, Holds, InStore, TypeOK, Clients
  <1> QED BY <1>1, Invariance, PTL

\* No request leaves with an access token that has expired, whatever the
\* processes that log in, log out and refresh at the same time (ensureToken).
THEOREM Authorized == Spec => []RequestsAuthorized
  <1>1. IInv => RequestsAuthorized
    BY DEF IInv, SeenFresh, InStore, RequestsAuthorized
  <1> QED BY <1>1, Invariance, PTL

-----------------------------------------------------------------------------

\* Where a command's request to the gateway may still be carried out.
Pending == {"mode", "session", "send", "renew", "resend"}

\* Until then it was not: only a request that the gateway refused, because the
\* session had expired, is sent again.
AtMostOnce ==
  /\ effects \in [Procs -> {0, 1}]
  /\ \A p \in Procs : pc[p] \in Pending => effects[p] = 0

\* A step that carries out nothing and brings no process to such a place from
\* elsewhere.
LEMMA NothingCarriedOut ==
  ASSUME AtMostOnce, Typing, NEW p \in Procs, UNCHANGED effects, NEW l,
         pc' = [pc EXCEPT ![p] = l], l \in Pending => pc[p] \in Pending
  PROVE  AtMostOnce'
  BY DEF AtMostOnce, Typing

\* Only Send and Resend carry a request out, and neither leads to the other then.
LEMMA NextAtMostOnce == IInv /\ AtMostOnce /\ [Next]_vars => AtMostOnce'
  <1> SUFFICES ASSUME Typing, AtMostOnce, [Next]_vars PROVE AtMostOnce'
    BY DEF IInv
  <1>1. ASSUME NEW p \in Procs, NEW c \in Commands, NEW flag \in Hosts \cup {None},
               Begin(p, c, flag)
        PROVE  AtMostOnce'
    BY <1>1 DEF Begin, Goto, Store, AtMostOnce, Typing, Pending
  <1>2. ASSUME NEW p \in Procs, NEW o \in Outcomes, Send(p, o) \/ Resend(p, o)
        PROVE  AtMostOnce'
    <2>1. effects[p] = 0 /\ pc \in [Procs -> Labels]
      BY <1>2 DEF Send, Resend, AtMostOnce, Pending, Typing
    <2>2. CASE CarriedOut(p, o)
      <3>1. gateway[host[p]] = "open"
        BY <2>2 DEF CarriedOut
      <3>2. effects' = [effects EXCEPT ![p] = 1]
        BY <1>2, <2>1, <2>2 DEF Send, Resend, Counted, AtMostOnce
      <3>3. \E l \in {"done", "failed"} : pc' = [pc EXCEPT ![p] = l]
        BY <1>2, <3>1 DEF Send, Resend, Goto, NeedsRefresh
      <3> QED BY <2>1, <3>2, <3>3 DEF AtMostOnce, Pending
    <2>3. CASE ~CarriedOut(p, o)
      <3>1. UNCHANGED effects
        BY <1>2, <2>3 DEF Send, Resend, Counted
      <3>2. \E l \in {"done", "failed", "renew"} : pc' = [pc EXCEPT ![p] = l]
        BY <1>2 DEF Send, Resend, Goto
      <3> QED BY <1>2, <3>1, <3>2, NothingCarriedOut DEF Send, Resend, Pending
    <2> QED BY <2>2, <2>3
  <1>3. ASSUME NEW p \in Procs,
               \/ Step(p) /\ ~\E o \in Outcomes : Send(p, o) \/ Resend(p, o)
               \/ Authorize(p) \/ Killed(p)
        PROVE  AtMostOnce'
    <2>1. UNCHANGED effects
      BY <1>3 DEF Step, Mode, Load, Write, Save, SaveFails, HasRead, LoadApp, LoadTokens,
             Check, TimePasses,
             Deadline, LoadSession, Exchange, Refresh, Fallback, TryRefresh, Request,
             StartLogin, Poll, Renew, Revoke, Authorize, Killed, historyVars, storeVars
    <2>2. \E l : pc' = [pc EXCEPT ![p] = l] /\ (l \in Pending => pc[p] \in Pending)
      <3>1. CASE Mode(p) \/ LoadApp(p) \/ LoadTokens(p) \/ LoadSession(p)
        BY <3>1 DEF Mode, LoadApp, LoadTokens, LoadSession, Goto, Store, Pending
      <3>2. CASE Load(p) \/ Write(p) \/ Save(p) \/ SaveFails(p)
        <4>1. \E l \in {"save", "rename", "check", "request", "load", "done", "failed"} :
                pc' = [pc EXCEPT ![p] = l]
          BY <3>2 DEF Load, Write, Save, SaveFails, HasRead, Goto, AfterSave
        <4> QED BY <4>1 DEF Pending
      <3>3. CASE Check(p) \/ Deadline(p) \/ Authorize(p) \/ Killed(p)
        BY <3>3 DEF Check, Deadline, Authorize, Killed, Goto, EndOf, Pending
      <3>4. CASE TimePasses(p)
        BY <3>4 DEF TimePasses, Typing
      <3>5. CASE \E o \in Outcomes : \/ Exchange(p, o) \/ Request(p, o) \/ StartLogin(p, o)
                                     \/ Poll(p, o) \/ Renew(p, o) \/ Revoke(p, o)
        BY <3>5 DEF Exchange, Request, StartLogin, Poll, Renew, Revoke, Goto, Store,
               EndOf, Pending
      <3>6. CASE \E o \in Outcomes : Refresh(p, o) \/ Fallback(p, o)
        <4>1. \E l \in {"load", "fallback", "done", "failed", "unauthorized"} :
                pc' = [pc EXCEPT ![p] = l]
          BY <3>6 DEF Refresh, Fallback, TryRefresh, Goto, Store, EndOf
        <4> QED BY <4>1 DEF Pending
      <3> QED BY <1>3, <3>1, <3>2, <3>3, <3>4, <3>5, <3>6 DEF Step
    <2> QED BY <2>1, <2>2, NothingCarriedOut
  <1>4. ASSUME \/ \E g \in DOMAIN grants : Ages(g)
               \/ \E h \in Hosts : SessionExpires(h)
               \/ UNCHANGED vars
        PROVE  AtMostOnce'
    <2>1. UNCHANGED <<pc, effects>>
      BY <1>4 DEF Ages, InStore, SessionExpires, vars, historyVars, storeVars
    <2> QED BY <2>1 DEF AtMostOnce
  <1> QED BY <1>1, <1>2, <1>3, <1>4 DEF Next, Step

\* A command's request through a gateway is carried out at most once, although
\* it is sent again when the session had expired, whatever the gateway, the
\* network and the other processes do (callJSONWithRefresh).
THEOREM Once == Spec => []CarriedOutOnce
  <1>1. Init => AtMostOnce
    BY DEF Init, AtMostOnce
  <1>2. ASSUME AtMostOnce, NEW p \in Procs PROVE effects[p] <= 1
    <2>1. effects[p] = 0 \/ effects[p] = 1
      BY <1>2 DEF AtMostOnce
    <2> QED BY <2>1
  <1>3. AtMostOnce => CarriedOutOnce
    BY <1>2 DEF CarriedOutOnce
  <1> QED BY <1>1, <1>3, NextAtMostOnce, Invariance, PTL DEF Spec

-----------------------------------------------------------------------------
(* Processes in local mode only, with Feishu's refresh tokens for one use.  *)

LocalOnly ==
  /\ Commands \subseteq {"login", "logout", "call"}
  /\ \A f \in InitialFiles : f.app # None
  /\ Renewals = {TRUE}

\* The app stays configured, so that no process uses a gateway, and the store
\* operations are those that replace both tokens.
Local ==
  /\ file.app # None
  /\ \A p \in Procs :
       /\ HasRead(p) => cfg[p].app # None
       /\ pc[p] \in InStore => op[p] \in {"tokens", "refreshed", "clear"}
       /\ pc[p] \notin {"session", "start", "poll", "send", "renew", "resend", "revoke"}

\* p has tokens that it is about to save.
Saving(p) == pc[p] \in InStore /\ op[p] \in {"tokens", "refreshed"}
Refreshed(p) == pc[p] \in InStore /\ op[p] = "refreshed"

\* A refresh token that is about to be saved can be used, and nobody else has it.
Own(p) ==
  Saving(p) /\ mem[p].refresh # NoToken =>
    /\ mem[p].refresh \in live
    /\ file.refresh # mem[p].refresh
    /\ \A q \in Procs \ {p} : mem[q].refresh # mem[p].refresh

Kept == LiveTokenKept /\ \A p \in Procs : Own(p)

\* No step of a process in local mode takes the app from the file.
LEMMA NextLocal == LocalOnly /\ IInv /\ Local /\ [Next]_vars => Local'
  <1> SUFFICES ASSUME LocalOnly, Typing, Local, [Next]_vars PROVE Local'
    BY DEF IInv
  <1>1. ASSUME NEW p \in Procs, NEW c \in Commands, NEW flag \in Hosts \cup {None},
               Begin(p, c, flag)
        PROVE  Local'
    <2>1. c # "init"
      BY DEF LocalOnly
    <2> QED BY <1>1, <2>1 DEF Begin, Goto, Local, HasRead, InStore, Typing
  <1>2. ASSUME NEW p \in Procs, Load(p) \/ Write(p) PROVE Local'
    BY <1>2 DEF Load, Write, Goto, Local, HasRead, InStore, Typing
  <1>3. ASSUME NEW p \in Procs, Save(p) PROVE Local'
    <2>1. op[p] \in {"tokens", "refreshed", "clear"} /\ cfg[p].app # None /\ cfg[p] \in Files
      BY <1>3 DEF Save, Local, HasRead, InStore, Typing
    <2>2. file'.app = cfg[p].app
      BY <1>3, <2>1 DEF Save, Updated, Files
    <2>3. op' = op /\ \E l \in {"check", "request", "done"} : pc' = [pc EXCEPT ![p] = l]
      BY <1>3, <2>1 DEF Save, Goto, AfterSave
    <2>4. cfg' = [cfg EXCEPT ![p] = EmptyFile]
      BY <1>3 DEF Save
    <2> QED BY <2>1, <2>2, <2>3, <2>4 DEF Local, HasRead, InStore, Typing
  <1>4. ASSUME NEW p \in Procs,
               \/ Mode(p) \/ LoadApp(p) \/ LoadTokens(p) \/ Check(p) \/ SaveFails(p)
               \/ Authorize(p) \/ Killed(p)
               \/ \E o \in Outcomes : Exchange(p, o) \/ Refresh(p, o) \/ Fallback(p, o)
                                      \/ Request(p, o)
        PROVE  Local'
    <2>1. /\ UNCHANGED file
          /\ cfg' = cfg \/ cfg' = [cfg EXCEPT ![p] = EmptyFile]
      BY <1>4 DEF Mode, LoadApp, LoadTokens, Check, SaveFails, HasRead, Authorize,
             Killed, Exchange,
             Refresh, Fallback, Request
    <2>2. \/ /\ op' = op
             /\ \E l \in {"app", "waiting", "tokens", "check", "exchange", "request", "refresh",
                          "fallback", "done", "failed", "unauthorized"} :
                  pc' = [pc EXCEPT ![p] = l]
          \/ /\ \E o \in {"tokens", "refreshed", "clear"} : op' = [op EXCEPT ![p] = o]
             /\ pc' = [pc EXCEPT ![p] = "load"]
      <3>1. CASE Mode(p)
        BY <3>1 DEF Mode, Goto, Store, Local, InStore
      <3>2. CASE LoadApp(p) \/ LoadTokens(p) \/ Check(p)
        BY <3>2 DEF LoadApp, LoadTokens, Check, Goto, EndOf
      <3>3. CASE SaveFails(p) \/ Authorize(p) \/ Killed(p)
        BY <3>3 DEF SaveFails, HasRead, Authorize, Killed, Goto
      <3>4. CASE \E o \in Outcomes : Exchange(p, o) \/ Request(p, o)
        BY <3>4 DEF Exchange, Request, Goto, Store, EndOf
      <3>5. CASE \E o \in Outcomes : Refresh(p, o) \/ Fallback(p, o)
        BY <3>5 DEF Refresh, Fallback, TryRefresh, Goto, Store, EndOf
      <3> QED BY <1>4, <3>1, <3>2, <3>3, <3>4, <3>5
    <2> QED BY <2>1, <2>2 DEF Local, HasRead, InStore, Typing
  <1>5. ASSUME NEW p \in Procs,
               \/ TimePasses(p) \/ Deadline(p) \/ LoadSession(p)
               \/ \E o \in Outcomes : \/ StartLogin(p, o) \/ Poll(p, o) \/ Send(p, o)
                                      \/ Renew(p, o) \/ Resend(p, o) \/ Revoke(p, o)
        PROVE  FALSE
    BY <1>5 DEF TimePasses, Deadline, LoadSession, StartLogin, Poll, Send, Renew, Resend,
           Revoke, Local, InStore
  <1>6. ASSUME \/ \E g \in DOMAIN grants : Ages(g)
               \/ \E h \in Hosts : SessionExpires(h)
               \/ UNCHANGED vars
        PROVE  Local'
    <2>1. UNCHANGED <<file, pc, op, cfg>>
      BY <1>6 DEF Ages, InStore, SessionExpires, vars
    <2> QED BY <2>1 DEF Local, HasRead, InStore
  <1> QED BY <1>1, <1>2, <1>3, <1>4, <1>5, <1>6 DEF Next, Step

\* A step that neither saves tokens nor uses one up, and in which a process gets
\* a refresh token only from the file.
LEMMA NothingUsedUp ==
  ASSUME Kept, Typing, UNCHANGED file, live \subseteq live', dropped => dropped',
         \A q \in Procs : mem'[q].refresh \in {mem[q].refresh, file.refresh, NoToken},
         \A q \in Procs : Saving(q)' => Saving(q) /\ mem'[q].refresh = mem[q].refresh,
         \A q \in Procs : Refreshed(q) => Refreshed(q)' \/ dropped'
  PROVE  Kept'
  <1>1. LiveTokenKept'
    BY DEF Kept, LiveTokenKept, InStore, Refreshed
  <1>2. ASSUME NEW p \in Procs, Saving(p)', mem'[p].refresh # NoToken
        PROVE  /\ mem'[p].refresh \in live'
               /\ file'.refresh # mem'[p].refresh
               /\ \A q \in Procs \ {p} : mem'[q].refresh # mem'[p].refresh
    <2>1. Saving(p) /\ mem'[p].refresh = mem[p].refresh /\ Own(p)
      BY <1>2 DEF Kept
    <2>2. /\ mem[p].refresh \in live
          /\ file.refresh # mem[p].refresh
          /\ \A q \in Procs \ {p} : mem[q].refresh # mem[p].refresh
      BY <1>2, <2>1 DEF Own
    <2> QED BY <1>2, <2>1, <2>2
  <1>3. \A p \in Procs : Own(p)'
    BY <1>2 DEF Own, NoToken
  <1> QED BY <1>1, <1>3 DEF Kept

\* p has got new tokens, which it saves next, and may have used up its old
\* refresh token for them.
LEMMA TokensReceived ==
  ASSUME Kept, Typing, UNCHANGED <<file, dropped>>, NEW p \in Procs, ~Saving(p),
         NEW r \in {NoToken, NextGrant}, r # NoToken => r \in live',
         mem'[p].refresh = r,
         \A q \in Procs \ {p} : /\ mem'[q] = mem[q]
                                /\ pc'[q] = pc[q] /\ op'[q] = op[q],
         \/ live \subseteq live'
         \/ live \ {mem[p].refresh} \subseteq live' /\ Refreshed(p)'
  PROVE  Kept'
  <1>1. /\ file.refresh \in Tokens
        /\ \A q \in Procs : mem[q].refresh \in Tokens
        /\ Len(grants) \in Nat
    BY DEF Typing, Files, Clients
  <1>2. file.refresh # NextGrant /\ \A q \in Procs : mem[q].refresh # NextGrant
    BY <1>1 DEF Tokens, NextGrant
  <1>3. ASSUME NEW q \in Procs \ {p}, Saving(q)', mem'[q].refresh # NoToken
        PROVE  /\ mem'[q].refresh \in live'
               /\ file'.refresh # mem'[q].refresh
               /\ \A s \in Procs \ {q} : mem'[s].refresh # mem'[q].refresh
    <2>1. Saving(q) /\ mem'[q] = mem[q] /\ Own(q)
      BY <1>3 DEF Saving, InStore, Kept
    <2>2. /\ mem[q].refresh \in live
          /\ file.refresh # mem[q].refresh
          /\ \A s \in Procs \ {q} : mem[s].refresh # mem[q].refresh
      BY <1>3, <2>1 DEF Own
    <2> QED BY <1>2, <1>3, <2>1, <2>2
  <1>4. ASSUME mem'[p].refresh # NoToken
        PROVE  /\ mem'[p].refresh \in live'
               /\ file'.refresh # mem'[p].refresh
               /\ \A s \in Procs \ {p} : mem'[s].refresh # mem'[p].refresh
    BY <1>2, <1>4
  <1>5. \A q \in Procs : Own(q)'
    BY <1>3, <1>4 DEF Own, NoToken
  <1>6. LiveTokenKept'
    <2>1. CASE Refreshed(p)'
      BY <2>1 DEF LiveTokenKept, InStore, Refreshed
    <2>2. CASE live \subseteq live'
      <3>1. \A q \in Procs : Refreshed(q) => Refreshed(q)'
        BY DEF Refreshed, InStore, Saving
      <3> QED BY <2>2, <3>1 DEF Kept, LiveTokenKept, InStore, Refreshed
    <2> QED BY <2>1, <2>2
  <1> QED BY <1>5, <1>6 DEF Kept

\* Every step leaves the tokens that are to be saved in one hand.
LEMMA NextKept == LocalOnly /\ IInv /\ Local /\ Kept /\ [Next]_vars => Kept'
  <1> SUFFICES ASSUME LocalOnly, IInv, Typing, Local, Kept, [Next]_vars PROVE Kept'
    BY DEF IInv
  <1>1. ASSUME NEW p \in Procs, NEW c \in Commands, NEW flag \in Hosts \cup {None},
               Begin(p, c, flag)
        PROVE  Kept'
    <2>1. c # "init"
      BY DEF LocalOnly
    <2>2. /\ mem' = [mem EXCEPT ![p] = NoClient] /\ pc' = [pc EXCEPT ![p] = "mode"]
          /\ op' = [op EXCEPT ![p] = "none"] /\ pc[p] \in Ended
          /\ UNCHANGED <<file, live, dropped>>
      BY <1>1, <2>1 DEF Begin, Goto, serverVars
    <2>3. \A q \in Procs : mem'[q].refresh \in {mem[q].refresh, NoToken}
      BY <2>2 DEF Typing, NoClient
    <2>4. \A q \in Procs : /\ Saving(q)' => Saving(q) /\ mem'[q].refresh = mem[q].refresh
                           /\ Refreshed(q) => Refreshed(q)'
      BY <2>2 DEF Typing, Saving, InStore, Refreshed, Ended
    <2> QED BY <2>2, <2>3, <2>4, NothingUsedUp
  <1>2. ASSUME NEW p \in Procs, Save(p) PROVE Kept'
    <2>1. /\ op[p] \in {"tokens", "refreshed", "clear"} /\ cfg[p] \in Files
          /\ pc[p] = "rename" /\ Own(p)
      BY <1>2 DEF Save, Local, InStore, Typing, Kept
    <2>2. /\ UNCHANGED <<op, mem, live, dropped>>
          /\ \E l \in {"check", "request", "done"} : pc' = [pc EXCEPT ![p] = l]
      BY <1>2, <2>1 DEF Save, Goto, AfterSave, serverVars, historyVars, storeVars
    <2>3. \/ file'.refresh = NoToken
          \/ Saving(p) /\ file'.refresh = mem[p].refresh
      BY <1>2, <2>1 DEF Save, Updated, Files, Saving, InStore
    <2>4. ~Saving(p)' /\ \A q \in Procs \ {p} : Saving(q)' => Saving(q)
      BY <2>2 DEF Saving, InStore, Typing
    <2>5. file'.refresh # NoToken => file'.refresh \in live'
      BY <2>1, <2>2, <2>3 DEF Own
    <2>6. ASSUME NEW q \in Procs, Saving(q)', mem'[q].refresh # NoToken
          PROVE  /\ mem'[q].refresh \in live'
                 /\ file'.refresh # mem'[q].refresh
                 /\ \A s \in Procs \ {q} : mem'[s].refresh # mem'[q].refresh
      <3>1. Saving(q) /\ Own(q) /\ q # p
        BY <2>4, <2>6 DEF Kept
      <3>2. /\ mem[q].refresh \in live
            /\ \A s \in Procs \ {q} : mem[s].refresh # mem[q].refresh
        BY <2>2, <2>6, <3>1 DEF Own
      <3> QED BY <2>2, <2>3, <2>6, <3>1, <3>2
    <2>7. \A q \in Procs : Own(q)'
      BY <2>6 DEF Own, NoToken
    <2>8. LiveTokenKept'
      BY <2>5 DEF LiveTokenKept, InStore, NoToken
    <2> QED BY <2>7, <2>8 DEF Kept
  <1>3. ASSUME NEW p \in Procs, SaveFails(p) \/ Killed(p) PROVE Kept'
    <2>1. /\ UNCHANGED <<file, mem, op, live>> /\ (dropped => dropped')
          /\ Refreshed(p) => dropped'
          /\ \E l \in {"request", "failed"} : pc' = [pc EXCEPT ![p] = l]
      BY <1>3 DEF SaveFails, HasRead, Killed, Goto, serverVars, Refreshed, InStore
    <2>2. \A q \in Procs : /\ Saving(q)' => Saving(q)
                           /\ Refreshed(q) => Refreshed(q)' \/ dropped'
      BY <2>1 DEF Typing, Saving, InStore, Refreshed
    <2> QED BY <2>1, <2>2, NothingUsedUp
  <1>4. ASSUME NEW p \in Procs,
               \/ Mode(p) \/ Load(p) \/ Write(p) \/ LoadApp(p) \/ LoadTokens(p) \/ Check(p)
               \/ Authorize(p)
               \/ \E o \in Outcomes : Request(p, o)
        PROVE  Kept'
    <2>1. UNCHANGED <<file, live, dropped>>
      BY <1>4 DEF Mode, Load, Write, LoadApp, LoadTokens, Check, Authorize, Request, serverVars,
             historyVars, storeVars
    <2>2. /\ mem'[p].refresh \in {mem[p].refresh, file.refresh}
          /\ \A q \in Procs \ {p} : mem'[q] = mem[q]
      <3>1. mem[p] \in Clients
        BY DEF Typing
      <3>2. CASE mem' = mem
        BY <3>2
      <3>3. CASE LoadApp(p) \/ Check(p)
        <4>1. \/ mem' = mem
              \/ \E a : mem' = [mem EXCEPT ![p] = [mem[p] EXCEPT !.app = a]]
              \/ \E s : mem' = [mem EXCEPT ![p] = [mem[p] EXCEPT !.seen = s]]
          BY <3>3 DEF LoadApp, Check
        <4> QED BY <3>1, <4>1 DEF Typing, Clients
      <3>4. CASE LoadTokens(p)
        <4>1. mem'[p] = [mem[p] EXCEPT !.access = file.access, !.refresh = file.refresh]
          BY <3>4 DEF LoadTokens, Typing
        <4> QED BY <3>1, <3>4, <4>1 DEF LoadTokens, Typing, Clients
      <3> QED BY <1>4, <3>2, <3>3, <3>4 DEF Mode, Load, Write, Authorize, Request
    <2>3. \/ /\ pc[p] \in InStore /\ op' = op /\ mem' = mem
             /\ \E l \in InStore : pc' = [pc EXCEPT ![p] = l]
          \/ /\ pc[p] \notin InStore
             /\ \/ /\ op' = op
                   /\ \E l : l \notin InStore /\ pc' = [pc EXCEPT ![p] = l]
                \/ op' = [op EXCEPT ![p] = "clear"] /\ pc' = [pc EXCEPT ![p] = "load"]
      <3>1. CASE Load(p) \/ Write(p)
        BY <3>1 DEF Load, Write, Goto, Local, InStore
      <3>2. CASE Mode(p)
        BY <3>2 DEF Mode, Goto, Store, Local, InStore
      <3>3. CASE LoadApp(p) \/ LoadTokens(p) \/ Check(p) \/ Authorize(p)
                 \/ \E o \in Outcomes : Request(p, o)
        BY <3>3 DEF LoadApp, LoadTokens, Check, Authorize, Request, Goto, EndOf, InStore
      <3> QED BY <1>4, <3>1, <3>2, <3>3
    <2>4. \A q \in Procs : /\ Saving(q)' => Saving(q) /\ mem'[q].refresh = mem[q].refresh
                           /\ Refreshed(q) => Refreshed(q)'
      BY <2>2, <2>3 DEF Typing, Saving, InStore, Refreshed
    <2>5. \A q \in Procs : mem'[q].refresh \in {mem[q].refresh, file.refresh, NoToken}
      BY <2>2
    <2> QED BY <2>1, <2>4, <2>5, NothingUsedUp
  <1>5. ASSUME NEW p \in Procs, NEW o \in Outcomes, Exchange(p, o) PROVE Kept'
    <2>1. ~Saving(p) /\ ~Refreshed(p) /\ UNCHANGED <<file, dropped>>
      BY <1>5 DEF Exchange, Saving, InStore, Refreshed, historyVars, storeVars
    <2>2. CASE o = "ok"
      <3>1. PICK r \in {NoToken, NextGrant} :
              /\ live' = live \cup ({r} \ {NoToken})
              /\ mem' = [mem EXCEPT ![p].access = NextGrant, ![p].refresh = r]
              /\ Store(p, "tokens")
        BY <1>5, <2>2 DEF Exchange
      <3>2. mem'[p] = [mem[p] EXCEPT !.access = NextGrant, !.refresh = r]
        BY <3>1 DEF Typing
      <3>3. mem'[p].refresh = r /\ \A q \in Procs \ {p} : mem'[q] = mem[q]
        BY <3>1, <3>2 DEF Typing, Clients
      <3>4. \A q \in Procs \ {p} : pc'[q] = pc[q] /\ op'[q] = op[q]
        BY <3>1 DEF Store, Goto, Typing
      <3> QED BY <2>1, <3>1, <3>3, <3>4, TokensReceived
    <2>3. CASE o # "ok"
      <3>1. live \subseteq live' /\ UNCHANGED <<mem, op>> /\ pc' = [pc EXCEPT ![p] = "failed"]
        BY <1>5, <2>3 DEF Exchange, Goto, serverVars
      <3>2. \A q \in Procs : /\ Saving(q)' => Saving(q)
                             /\ Refreshed(q) => Refreshed(q)'
        BY <2>1, <3>1 DEF Typing, Saving, InStore, Refreshed
      <3> QED BY <2>1, <3>1, <3>2, NothingUsedUp
    <2> QED BY <2>2, <2>3
  <1>6. ASSUME NEW p \in Procs, NEW o \in Outcomes, Refresh(p, o) \/ Fallback(p, o)
        PROVE  Kept'
    <2>1. ~Saving(p) /\ ~Refreshed(p) /\ UNCHANGED file
      BY <1>6 DEF Refresh, Fallback, Saving, InStore, Refreshed
    <2>2. PICK l \in {"fallback", "done", "failed", "unauthorized"} : TryRefresh(p, o, l)
      BY <1>6 DEF Refresh, Fallback, EndOf
    <2>3. CASE UNCHANGED <<live, mem, op, dropped>> /\ Goto(p, l)
      <3>1. \A q \in Procs : /\ Saving(q)' => Saving(q)
                             /\ Refreshed(q) => Refreshed(q)'
        BY <2>1, <2>3 DEF Typing, Saving, InStore, Refreshed, Goto
      <3> QED BY <2>1, <2>3, <3>1, NothingUsedUp
    <2>4. CASE /\ live' = (live \ {mem[p].refresh}) \cup {NextGrant}
               /\ mem' = Adopt(p, NextGrant) /\ Store(p, "refreshed") /\ UNCHANGED dropped
      <3>1. mem'[p] = [mem[p] EXCEPT !.access = NextGrant, !.refresh = NextGrant, !.seen
      = "fresh"]
        BY <2>4 DEF Typing, Adopt
      <3>2. mem'[p].refresh = NextGrant /\ \A q \in Procs \ {p} : mem'[q] = mem[q]
        BY <2>4, <3>1 DEF Typing, Clients, Adopt
      <3>3. \A q \in Procs \ {p} : pc'[q] = pc[q] /\ op'[q] = op[q]
        BY <2>4 DEF Store, Goto, Typing
      <3>4. Refreshed(p)'
        BY <2>4 DEF Store, Goto, Typing, Refreshed, InStore
      <3> QED BY <2>1, <2>4, <3>2, <3>3, <3>4, TokensReceived
    <2>5. CASE /\ live' = (live \ {mem[p].refresh}) \cup {NextGrant}
               /\ dropped' = (dropped \/ NextGrant # mem[p].refresh)
               /\ Goto(p, l) /\ UNCHANGED <<mem, op>>
      <3>1. NextGrant # mem[p].refresh
        BY DEF Typing, Clients, Tokens, NextGrant
      <3>2. ASSUME NEW q \in Procs, Saving(q)', mem'[q].refresh # NoToken
            PROVE  /\ mem'[q].refresh \in live'
                   /\ file'.refresh # mem'[q].refresh
                   /\ \A s \in Procs \ {q} : mem'[s].refresh # mem'[q].refresh
        <4>1. Saving(q) /\ Own(q) /\ q # p
          BY <2>1, <2>5, <3>2 DEF Typing, Saving, InStore, Goto, Kept
        <4>2. /\ mem[q].refresh \in live
              /\ file.refresh # mem[q].refresh
              /\ \A s \in Procs \ {q} : mem[s].refresh # mem[q].refresh
          BY <2>5, <3>2, <4>1 DEF Own
        <4> QED BY <2>1, <2>5, <4>1, <4>2
      <3>3. \A q \in Procs : Own(q)'
        BY <3>2 DEF Own, NoToken
      <3>4. LiveTokenKept'
        BY <2>5, <3>1 DEF LiveTokenKept, InStore
      <3> QED BY <3>3, <3>4 DEF Kept
    <2> QED BY <2>2, <2>3, <2>4, <2>5 DEF TryRefresh, LocalOnly, serverVars
  <1>7. ASSUME NEW p \in Procs,
               \/ TimePasses(p) \/ Deadline(p) \/ LoadSession(p)
               \/ \E o \in Outcomes : \/ StartLogin(p, o) \/ Poll(p, o) \/ Send(p, o)
                                      \/ Renew(p, o) \/ Resend(p, o) \/ Revoke(p, o)
        PROVE  FALSE
    BY <1>7 DEF TimePasses, Deadline, LoadSession, StartLogin, Poll, Send, Renew, Resend,
           Revoke, Local, InStore
  <1>8. ASSUME \/ \E g \in DOMAIN grants : Ages(g)
               \/ \E h \in Hosts : SessionExpires(h)
               \/ UNCHANGED vars
        PROVE  Kept'
    <2>1. UNCHANGED <<file, live, pc, op, mem, dropped>>
      BY <1>8 DEF Ages, InStore, SessionExpires, vars, serverVars, historyVars, storeVars
    <2> QED BY <2>1 DEF Kept, LiveTokenKept, InStore, Own, Saving
  <1> QED BY <1>1, <1>2, <1>3, <1>4, <1>5, <1>6, <1>7, <1>8 DEF Next, Step

\* The refresh token in config.json can be used, whatever any number of
\* processes that log in, log out and refresh at the same time save in whatever
\* order, and whatever is lost or killed, with the exceptions LiveTokenKept
\* states (ensureToken, SaveLocalTokens and DeleteLocalTokens, without a lock).
\* It needs local mode and a new refresh token with each refresh: init, and
\* each operation of a gateway's session, saves the tokens as it read them.
THEOREM TokenKept ==
  ASSUME LocalOnly
  PROVE  Spec => []LiveTokenKept
  <1>1. Init => Local /\ Kept
    BY LocalOnly, InitialFilesAssumption
       DEF Init, LocalOnly, Local, InStore, HasRead, Kept, LiveTokenKept, Own, Saving, NoToken
  <1>2. Local /\ Kept /\ IInv /\ [Next]_vars => Local' /\ Kept'
    BY LocalOnly, NextLocal, NextKept
  <1>3. Kept => LiveTokenKept
    BY DEF Kept
  <1> QED BY <1>1, <1>2, <1>3, Invariance, PTL DEF Spec

-----------------------------------------------------------------------------
(* A process alone: in local mode, through a gateway, or now one, now the  *)
(* other; a refresh may come with a new refresh token or without.          *)

Alone == \A p, q \in Procs : p = q

\* What a store operation writes back is what is in the file.
Current(p) == HasRead(p) => cfg[p] = file

\* The refresh tokens in the file and in the process can be used, but for the
\* file's while its successor is being saved, and one that was refused is of
\* another app.
Good(p) ==
  \/ dropped
  \/ /\ file.refresh # NoToken /\ file.refresh \notin live => Refreshed(p)
     /\ mem[p].refresh # NoToken => mem[p].refresh \in live
     /\ pc[p] = "unauthorized" =>
          mem[p].refresh # NoToken /\ grants[mem[p].refresh].app # mem[p].app

Sound == \A p \in Procs : Current(p) /\ Good(p)

\* A step that neither saves nor uses up a token, nor has one refused.
LEMMA TokensStay ==
  ASSUME NEW p \in Procs, Good(p), UNCHANGED <<file, live>>, dropped => dropped',
         \/ mem'[p].refresh \in {mem[p].refresh, NoToken}
         \/ mem'[p].refresh = file.refresh /\ ~Refreshed(p),
         pc'[p] # "unauthorized", Refreshed(p) => Refreshed(p)' \/ dropped'
  PROVE  Good(p)'
  <1>1. CASE dropped'
    BY <1>1 DEF Good
  <1>2. CASE ~dropped'
    <2>1. /\ file.refresh # NoToken /\ file.refresh \notin live => Refreshed(p)
          /\ mem[p].refresh # NoToken => mem[p].refresh \in live
      BY <1>2 DEF Good
    <2>2. file'.refresh # NoToken /\ file'.refresh \notin live' => Refreshed(p)'
      BY <1>2, <2>1
    <2>3. mem'[p].refresh # NoToken => mem'[p].refresh \in live'
      BY <2>1
    <2> QED BY <2>2, <2>3 DEF Good, NoToken
  <1> QED BY <1>1, <1>2

\* Every step of a lone process keeps its tokens usable.
LEMMA NextSound == Alone /\ IInv /\ Sound /\ [Next]_vars => Sound'
  <1> SUFFICES ASSUME Alone, IInv, Typing, Sound, [Next]_vars, NEW p \in Procs
               PROVE  Current(p)' /\ Good(p)'
    BY DEF IInv, Sound
  <1>a. Current(p) /\ Good(p) /\ Holds(p) /\ \A q \in Procs : q = p
    BY DEF Sound, IInv, Alone
  <1>b. /\ mem[p] \in Clients /\ pc[p] \in Labels /\ op[p] \in Ops
        /\ p \in DOMAIN mem /\ p \in DOMAIN pc /\ p \in DOMAIN op /\ p \in DOMAIN cfg
    BY DEF Typing
  <1>1. ASSUME NEW c \in Commands, NEW flag \in Hosts \cup {None}, Begin(p, c, flag)
        PROVE  Current(p)' /\ Good(p)'
    <2>1. /\ UNCHANGED <<file, live, dropped>> /\ pc'[p] \in {"load", "mode"} /\ ~Refreshed(p)
      BY <1>1, <1>b DEF Begin, Goto, Store, serverVars, Refreshed, InStore, Ended
    <2>2. mem'[p].refresh = NoToken
      BY <1>1, <1>b DEF Begin, NoClient
    <2> QED BY <1>a, <2>1, <2>2, TokensStay DEF Current, HasRead
  <1>2. CASE Load(p)
    <2>1. /\ UNCHANGED <<file, live, dropped, mem, op>> /\ cfg'[p] = file
          /\ pc'[p] \in {"save", "done"}
      BY <1>2, <1>b DEF Load, Goto, serverVars, historyVars, storeVars
    <2>2. Refreshed(p) => Refreshed(p)'
      BY <1>2, <1>b DEF Load, Goto, Refreshed, InStore
    <2> QED BY <1>a, <2>1, <2>2, TokensStay DEF Current, HasRead
  <1>9. CASE Write(p)
    <2>1. /\ UNCHANGED <<file, live, dropped, mem, op, cfg>>
          /\ pc[p] = "save" /\ pc'[p] = "rename"
      BY <1>9, <1>b DEF Write, Goto, serverVars, historyVars
    <2>2. Refreshed(p) => Refreshed(p)'
      BY <2>1 DEF Refreshed, InStore
    <2> QED BY <1>a, <2>1, <2>2, TokensStay DEF Current, HasRead
  <1>3. CASE Save(p)
    <2>1. /\ UNCHANGED <<live, dropped, mem>> /\ pc'[p] \in {"check", "request", "load", "done"}
          /\ cfg[p] = file /\ file \in Files /\ op[p] # "none" /\ pc[p] = "rename"
          /\ file' = Updated(p, file)
      BY <1>3, <1>a, <1>b
         DEF Save, Goto, AfterSave, serverVars, historyVars, storeVars, Current, HasRead,
             Typing, Holds, InStore
    <2>2. file'.refresh = mem[p].refresh \/ file'.refresh = NoToken
          \/ (file'.refresh = file.refresh /\ ~Refreshed(p))
      BY <2>1, <1>b DEF Updated, Files, Ops, Refreshed, InStore
    <2>3. ASSUME ~dropped PROVE file'.refresh # NoToken => file'.refresh \in live
      BY <2>2, <2>3, <1>a DEF Good
    <2>4. ASSUME ~dropped PROVE mem[p].refresh # NoToken => mem[p].refresh \in live
      BY <2>4, <1>a DEF Good
    <2> QED BY <2>1, <2>3, <2>4 DEF Good, Current, HasRead, NoToken
  <1>4. CASE SaveFails(p) \/ Killed(p)
    <2>1. /\ UNCHANGED <<file, live, mem>> /\ (dropped => dropped')
          /\ pc'[p] \in {"request", "failed"} /\ (Refreshed(p) => dropped')
      BY <1>4, <1>b DEF SaveFails, HasRead, Killed, Goto, serverVars, Refreshed, InStore
    <2> QED BY <1>a, <2>1, TokensStay DEF Current, HasRead
  <1>5. CASE \/ Mode(p) \/ LoadApp(p) \/ LoadTokens(p) \/ Check(p) \/ Authorize(p)
             \/ TimePasses(p) \/ Deadline(p) \/ LoadSession(p)
             \/ \E o \in Outcomes : \/ Request(p, o) \/ StartLogin(p, o) \/ Poll(p, o)
                                    \/ Send(p, o) \/ Renew(p, o) \/ Resend(p, o) \/ Revoke(p, o)
    <2>1. UNCHANGED <<file, live, dropped>> /\ ~Refreshed(p)
      BY <1>5 DEF Mode, LoadApp, LoadTokens, Check, Authorize, TimePasses, Deadline, LoadSession,
             Request, StartLogin, Poll, Send, Renew, Resend, Revoke, serverVars,
             historyVars, storeVars,
             Refreshed, InStore
    <2>2. pc'[p] \notin {"save", "rename", "unauthorized"}
      <3>1. CASE Mode(p) \/ LoadApp(p) \/ LoadTokens(p) \/ LoadSession(p)
        BY <1>b, <3>1 DEF Mode, LoadApp, LoadTokens, LoadSession, Goto, Store
      <3>2. CASE Check(p) \/ Authorize(p) \/ TimePasses(p) \/ Deadline(p)
        BY <1>b, <3>2 DEF Check, Authorize, TimePasses, Deadline, Goto, EndOf
      <3>3. CASE \E o \in Outcomes : \/ Request(p, o) \/ StartLogin(p, o) \/ Poll(p, o)
                                     \/ Revoke(p, o)
        BY <1>b, <3>3 DEF Request, StartLogin, Poll, Revoke, Goto, Store, EndOf
      <3>4. CASE \E o \in Outcomes : Send(p, o) \/ Renew(p, o) \/ Resend(p, o)
        BY <1>b, <3>4 DEF Send, Renew, Resend, Goto
      <3> QED BY <1>5, <3>1, <3>2, <3>3, <3>4
    <2>3. mem'[p].refresh \in {mem[p].refresh, file.refresh}
      <3>1. CASE LoadApp(p) \/ Check(p)
        <4>1. \/ mem' = mem
              \/ \E a : mem'[p] = [mem[p] EXCEPT !.app = a]
              \/ \E a : mem'[p] = [mem[p] EXCEPT !.seen = a]
          BY <1>b, <3>1 DEF LoadApp, Check
        <4> QED BY <1>b, <4>1 DEF Clients
      <3>2. CASE LoadTokens(p)
        <4>1. mem'[p] = [mem[p] EXCEPT !.access = file.access, !.refresh = file.refresh]
          BY <1>b, <3>2 DEF LoadTokens
        <4> QED BY <1>b, <4>1 DEF Clients
      <3>3. CASE mem' = mem
        BY <3>3
      <3> QED BY <1>5, <3>1, <3>2, <3>3
              DEF Mode, Authorize, TimePasses, Deadline, LoadSession, Request, StartLogin,
                  Poll, Send, Renew, Resend, Revoke
    <2> QED BY <1>a, <2>1, <2>2, <2>3, TokensStay DEF Current, HasRead
  <1>6. ASSUME NEW o \in Outcomes, Exchange(p, o) PROVE Current(p)' /\ Good(p)'
    <2>1. /\ UNCHANGED <<file, dropped>> /\ ~Refreshed(p) /\ live \subseteq live'
          /\ pc'[p] \in {"failed", "load"}
      BY <1>6, <1>b DEF Exchange, Refreshed, InStore, historyVars, storeVars, Goto,
             Store, serverVars
    <2>2. \/ mem'[p].refresh = mem[p].refresh
          \/ mem'[p].refresh # NoToken => mem'[p].refresh \in live'
      <3>1. CASE mem' = mem
        BY <3>1
      <3>2. CASE \E r \in {NoToken, NextGrant} :
                   /\ live' = live \cup ({r} \ {NoToken})
                   /\ mem' = [mem EXCEPT ![p].access = NextGrant, ![p].refresh = r]
        <4>1. PICK r \in {NoToken, NextGrant} :
                /\ live' = live \cup ({r} \ {NoToken})
                /\ mem' = [mem EXCEPT ![p].access = NextGrant, ![p].refresh = r]
          BY <3>2
        <4>2. mem'[p] = [mem[p] EXCEPT !.access = NextGrant, !.refresh = r]
          BY <1>b, <4>1
        <4>3. mem'[p].refresh = r
          BY <1>b, <4>2 DEF Clients
        <4> QED BY <4>1, <4>3
      <3> QED BY <1>6, <3>1, <3>2 DEF Exchange
    <2> QED BY <1>a, <2>1, <2>2 DEF Good, Current, HasRead
  <1>7. ASSUME NEW o \in Outcomes, Refresh(p, o) \/ Fallback(p, o)
        PROVE  Current(p)' /\ Good(p)'
    <2>1. /\ UNCHANGED file /\ ~Refreshed(p) /\ mem[p].refresh # NoToken
      BY <1>7, <1>a DEF Refresh, Fallback, Refreshed, InStore, Holds
    <2>2. PICK l \in {"fallback", "done", "failed", "unauthorized"} :
            TryRefresh(p, o, l) /\ (l = "unauthorized" => o = "ok")
      BY <1>7 DEF Refresh, Fallback, EndOf
    <2>3. CASE /\ o = "failed" \/ ~Usable(p)
               /\ Goto(p, l) /\ UNCHANGED <<serverVars, mem, op, dropped>>
      <3>1. pc'[p] = l /\ UNCHANGED <<grants, live, mem, dropped>>
        BY <1>b, <2>3 DEF Goto, serverVars
      <3>2. dropped \/ (/\ file.refresh # NoToken => file.refresh \in live
                        /\ mem[p].refresh \in live)
        BY <1>a, <2>1 DEF Good
      <3>3. l = "unauthorized" => dropped \/ grants[mem[p].refresh].app # mem[p].app
        BY <2>2, <2>3, <3>2 DEF Usable
      <3> QED BY <2>1, <2>2, <3>1, <3>2, <3>3 DEF Good, Current, HasRead, NoToken
    <2>4. ASSUME NEW r, live' = (live \ {mem[p].refresh}) \cup {r},
                 mem' = Adopt(p, r), Store(p, "refreshed")
          PROVE  Current(p)' /\ Good(p)'
      <3>1. mem'[p] = [mem[p] EXCEPT !.access = NextGrant, !.refresh = r, !.seen = "fresh"]
        BY <1>b, <2>4 DEF Adopt
      <3>2. mem'[p].refresh = r /\ r \in live'
        BY <1>b, <2>4, <3>1 DEF Clients
      <3>3. pc'[p] = "load" /\ op'[p] = "refreshed"
        BY <1>b, <2>4 DEF Store, Goto
      <3> QED BY <3>2, <3>3 DEF Good, Current, HasRead, Refreshed, InStore
    <2>5. ASSUME NEW r, live' = (live \ {mem[p].refresh}) \cup {r}, o = "lost", Usable(p),
                 dropped' = (dropped \/ r # mem[p].refresh), Goto(p, l), mem' = mem
          PROVE  Current(p)' /\ Good(p)'
      <3>1. pc'[p] = l /\ l \notin {"unauthorized", "save", "rename"}
        BY <1>b, <2>2, <2>5 DEF Goto
      <3>2. CASE r = mem[p].refresh
        <4>1. live' = live
          BY <2>5, <3>2 DEF Usable
        <4> QED BY <1>a, <2>1, <2>5, <3>1, <4>1, TokensStay DEF Current, HasRead
      <3>3. CASE r # mem[p].refresh
        BY <2>5, <3>1, <3>3 DEF Good, Current, HasRead
      <3> QED BY <3>2, <3>3
    <2> QED BY <2>2, <2>3, <2>4, <2>5 DEF TryRefresh
  <1>8. CASE \/ \E g \in DOMAIN grants : Ages(g)
             \/ \E h \in Hosts : SessionExpires(h)
             \/ UNCHANGED vars
    <2>1. UNCHANGED <<file, live, pc, op, cfg, mem, dropped>>
      BY <1>8 DEF Ages, InStore, SessionExpires, vars, serverVars, historyVars, storeVars
    <2>2. \A g \in 1..Len(grants) : grants'[g].app = grants[g].app
      <3>1. CASE UNCHANGED grants
        BY <3>1
      <3>2. ASSUME NEW h \in DOMAIN grants, Ages(h), NEW g \in 1..Len(grants)
            PROVE  grants'[g].app = grants[g].app
        <4>1. grants[g] \in Grants /\ g \in DOMAIN grants
          BY DEF Typing
        <4>2. grants'[g] = grants[g] \/ \E a : grants'[g] = [grants[g] EXCEPT !.age = a]
          BY <3>2, <4>1 DEF Ages, InStore
        <4> QED BY <4>1, <4>2 DEF Grants
      <3> QED BY <1>8, <3>1, <3>2 DEF SessionExpires, vars, serverVars
    <2>3. Current(p)'
      BY <1>a, <2>1 DEF Current, HasRead
    <2>4. mem[p].refresh # NoToken => mem[p].refresh \in 1..Len(grants)
      BY <1>b DEF Clients, Tokens, NoToken, Typing
    <2>5. Good(p)'
      BY <1>a, <2>1, <2>2, <2>4 DEF Good, Refreshed, InStore, NoToken
    <2> QED BY <2>3, <2>5
  <1> QED BY <1>a, <1>1, <1>2, <1>3, <1>4, <1>5, <1>6, <1>7, <1>8, <1>9 DEF Next, Step

\* So they always are.
LEMMA SoundAlways ==
  ASSUME Alone
  PROVE  Spec => []Sound
  <1>1. Init => Sound
    <2> SUFFICES ASSUME Init, NEW p \in Procs PROVE Current(p) /\ Good(p)
      BY DEF Sound
    <2>1. pc[p] = "done" /\ mem[p].refresh = NoToken
      BY DEF Init, NoClient
    <2>2. file.refresh = NoToken
      BY InitialFilesAssumption DEF Init, NoToken
    <2> QED BY <2>1, <2>2 DEF Current, HasRead, Good
  <1>2. Sound /\ IInv /\ [Next]_vars => Sound'
    BY Alone, NextSound
  <1> QED BY <1>1, <1>2, Invariance, PTL DEF Spec

\* A lone process that logged in and made calls, with and without new refresh
\* tokens, in local mode and through gateways, is never refused for its refresh
\* token, but after an answer, a save or a process was lost in a refresh or when
\* `larkctl init` has changed the app (ensureToken, doRefreshToken).
THEOREM CallsStayAuthorized ==
  ASSUME Alone
  PROVE  Spec => []AutoRefreshed
  <1>1. Sound => AutoRefreshed
    BY DEF Sound, Good, AutoRefreshed
  <1> QED BY <1>1, SoundAlways, PTL

-----------------------------------------------------------------------------
(* Store operations that do not overlap.                                   *)

\* One process at most has read the file and not yet replaced it, and what it has
\* read is still there.
InTurn ==
  \/ overlapped
  \/ /\ file = stored
     /\ \A p \in Procs : HasRead(p) =>
          cfg[p] = file /\ \A q \in Procs \ {p} : ~HasRead(q)

\* A step in which no process reads the file or replaces it.
LEMMA NothingStored ==
  ASSUME InTurn, UNCHANGED <<file, stored, overlapped>>,
         \A q \in Procs : HasRead(q)' => HasRead(q) /\ cfg'[q] = cfg[q]
  PROVE  InTurn'
  BY DEF InTurn

\* Every step keeps the operations apart, or is where two of them meet.
LEMMA NextInTurn == IInv /\ InTurn /\ [Next]_vars => InTurn'
  <1> SUFFICES ASSUME IInv, Typing, InTurn, [Next]_vars PROVE InTurn'
    BY DEF IInv
  <1>1. ASSUME NEW p \in Procs, Load(p) PROVE InTurn'
    <2>1. /\ UNCHANGED <<file, stored>> /\ cfg' = [cfg EXCEPT ![p] = file]
          /\ \A q \in Procs \ {p} : pc'[q] = pc[q]
          /\ overlapped' = (overlapped \/ \E q \in Procs \ {p} : HasRead(q))
      BY <1>1 DEF Load, Goto, Typing
    <2>2. CASE overlapped'
      BY <2>2 DEF InTurn
    <2>3. CASE ~overlapped'
      <3>1. file = stored /\ \A q \in Procs \ {p} : ~HasRead(q)'
        BY <2>1, <2>3 DEF InTurn, HasRead
      <3>2. cfg'[p] = file
        BY <2>1 DEF Typing
      <3> QED BY <2>1, <3>1, <3>2 DEF InTurn
    <2> QED BY <2>2, <2>3
  <1>2. ASSUME NEW p \in Procs, Save(p) PROVE InTurn'
    <2>1. /\ pc[p] = "rename" /\ file' = Updated(p, cfg[p]) /\ stored' = Updated(p, stored)
          /\ UNCHANGED overlapped
          /\ \E l \in {"check", "request", "load", "done"} : pc' = [pc EXCEPT ![p] = l]
      BY <1>2 DEF Save, Goto, AfterSave
    <2>2. ~HasRead(p)' /\ \A q \in Procs \ {p} : pc'[q] = pc[q]
      BY <2>1 DEF HasRead, Typing
    <2>3. CASE ~overlapped
      <3>1. cfg[p] = stored /\ \A q \in Procs \ {p} : ~HasRead(q)
        BY <2>1, <2>3 DEF InTurn, HasRead
      <3>2. \A q \in Procs : ~HasRead(q)'
        BY <2>2, <3>1 DEF HasRead
      <3> QED BY <2>1, <3>1, <3>2 DEF InTurn
    <2> QED BY <2>1, <2>3 DEF InTurn
  <1>3. ASSUME NEW p \in Procs, Write(p) PROVE InTurn'
    <2>1. UNCHANGED <<file, stored, overlapped, cfg>> /\ \A q \in Procs : HasRead(q)' = HasRead(q)
      BY <1>3 DEF Write, Goto, HasRead, Typing, historyVars, storeVars
    <2> QED BY <2>1 DEF InTurn
  <1>4. ASSUME NEW p \in Procs, SaveFails(p) \/ Killed(p) PROVE InTurn'
    <2>1. /\ UNCHANGED <<file, stored, overlapped>> /\ cfg' = [cfg EXCEPT ![p] = EmptyFile]
          /\ \E l \in {"request", "failed"} : pc' = [pc EXCEPT ![p] = l]
      BY <1>4 DEF SaveFails, Killed, Goto, storeVars
    <2>2. ~HasRead(p)' /\ \A q \in Procs \ {p} : pc'[q] = pc[q] /\ cfg'[q] = cfg[q]
      BY <2>1 DEF HasRead, Typing
    <2> QED BY <2>1, <2>2, NothingStored DEF HasRead
  <1>5. ASSUME NEW p \in Procs,
               \/ \E c \in Commands, flag \in Hosts \cup {None} : Begin(p, c, flag)
               \/ Mode(p) \/ LoadApp(p) \/ LoadTokens(p) \/ Check(p) \/ Authorize(p)
               \/ TimePasses(p) \/ Deadline(p) \/ LoadSession(p)
               \/ \E o \in Outcomes :
                    \/ Exchange(p, o) \/ Refresh(p, o) \/ Fallback(p, o) \/ Request(p, o)
                    \/ StartLogin(p, o) \/ Poll(p, o) \/ Send(p, o) \/ Renew(p, o)
                    \/ Resend(p, o) \/ Revoke(p, o)
        PROVE  InTurn'
    <2>1. UNCHANGED <<file, cfg, stored, overlapped>>
      BY <1>5 DEF Begin, Mode, LoadApp, LoadTokens, Check, Authorize, TimePasses, Deadline,
             LoadSession, Exchange, Refresh, Fallback, Request, StartLogin, Poll, Send,
             Renew, Resend, Revoke, historyVars, storeVars
    <2>2. pc' = pc \/ \E l : l \notin {"save", "rename"} /\ pc' = [pc EXCEPT ![p] = l]
      <3>1. CASE \/ \E c \in Commands, flag \in Hosts \cup {None} : Begin(p, c, flag)
                 \/ Mode(p) \/ LoadApp(p) \/ LoadTokens(p) \/ LoadSession(p)
        BY <3>1 DEF Begin, Mode, LoadApp, LoadTokens, LoadSession, Goto, Store
      <3>2. CASE Check(p) \/ Authorize(p) \/ TimePasses(p) \/ Deadline(p)
        BY <3>2 DEF Check, Authorize, TimePasses, Deadline, Goto, EndOf
      <3>3. CASE \E o \in Outcomes : \/ Exchange(p, o) \/ Request(p, o) \/ StartLogin(p, o)
                                     \/ Poll(p, o) \/ Revoke(p, o)
        BY <3>3 DEF Exchange, Request, StartLogin, Poll, Revoke, Goto, Store, EndOf
      <3>4. CASE \E o \in Outcomes : Send(p, o) \/ Renew(p, o) \/ Resend(p, o)
        BY <3>4 DEF Send, Renew, Resend, Goto
      <3>5. CASE \E o \in Outcomes : Refresh(p, o) \/ Fallback(p, o)
        <4>1. \E l \in {"load", "fallback", "done", "failed", "unauthorized"} :
                pc' = [pc EXCEPT ![p] = l]
          BY <3>5 DEF Refresh, Fallback, TryRefresh, Goto, Store, EndOf
        <4> QED BY <4>1
      <3> QED BY <1>5, <3>1, <3>2, <3>3, <3>4, <3>5
    <2>3. \A q \in Procs : HasRead(q)' => HasRead(q)
      BY <2>2 DEF HasRead, Typing
    <2> QED BY <2>1, <2>3, NothingStored
  <1>6. ASSUME \/ \E g \in DOMAIN grants : Ages(g)
               \/ \E h \in Hosts : SessionExpires(h)
               \/ UNCHANGED vars
        PROVE  InTurn'
    <2>1. UNCHANGED <<file, pc, cfg, stored, overlapped>>
      BY <1>6 DEF Ages, SessionExpires, vars, historyVars, storeVars
    <2> QED BY <2>1 DEF InTurn, HasRead
  <1> QED BY <1>1, <1>2, <1>3, <1>4, <1>5, <1>6 DEF Next, Step

\* As long as no two store operations overlap config.json holds what the completed
\* ones make of it one after the other, for any number of processes in both modes,
\* whatever fails, is killed before its rename or has its file not written
\* (loadLocalConfig, saveLocalConfig and writeFileAtomic).
THEOREM StoredInTurn == Spec => []StoresInTurn
  <1>1. Init => InTurn
    BY DEF Init, InTurn, HasRead
  <1>2. InTurn => StoresInTurn
    BY DEF InTurn, StoresInTurn
  <1> QED BY <1>1, <1>2, NextInTurn, Invariance, PTL DEF Spec
=============================================================================
