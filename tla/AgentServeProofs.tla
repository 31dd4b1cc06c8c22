-------------------------- MODULE AgentServeProofs --------------------------
(***************************************************************************)
(* Proofs about AgentServe, for every set of chats and directories, every  *)
(* capacity of the channels and every number of messages.                  *)
(***************************************************************************)
EXTENDS AgentServe, TLAPS

-----------------------------------------------------------------------------
(* Sequences of message numbers.                                           *)

\* Appending adds one element.
LEMMA AppendElems ==
  ASSUME NEW s \in Seq(Ids), NEW e \in Ids
  PROVE  /\ Append(s, e) \in Seq(Ids)
         /\ ToSet(Append(s, e)) = ToSet(s) \cup {e}
  <1> DEFINE t == Append(s, e)
  <1>1. Len(s) \in Nat /\ DOMAIN s = 1..Len(s)
    OBVIOUS
  <1>2. t \in Seq(Ids) /\ Len(t) = Len(s) + 1
    OBVIOUS
  <1>3. DOMAIN t = 1..(Len(s) + 1)
    BY <1>2
  <1>4. (\A k \in 1..Len(s) : t[k] = s[k]) /\ t[Len(s) + 1] = e
    OBVIOUS
  <1>5. ToSet(t) \subseteq ToSet(s) \cup {e}
    <2>1. ASSUME NEW k \in 1..(Len(s) + 1) PROVE t[k] \in ToSet(s) \cup {e}
      <3>1. k \in 1..Len(s) \/ k = Len(s) + 1
        BY <1>1
      <3> QED BY <1>1, <1>4, <3>1 DEF ToSet
    <2> QED BY <1>3, <2>1 DEF ToSet
  <1>6. ToSet(s) \cup {e} \subseteq ToSet(t)
    <2>1. Len(s) + 1 \in DOMAIN t /\ DOMAIN s \subseteq DOMAIN t
      BY <1>1, <1>3
    <2> QED BY <1>1, <1>4, <2>1 DEF ToSet
  <1> QED BY <1>2, <1>5, <1>6

\* A nonempty sequence is its head and its tail.
LEMMA TailElems ==
  ASSUME NEW s \in Seq(Ids), s # << >>
  PROVE  /\ Head(s) \in Ids
         /\ Tail(s) \in Seq(Ids)
         /\ Len(Tail(s)) < Len(s)
         /\ ToSet(s) = {Head(s)} \cup ToSet(Tail(s))
  <1> DEFINE t == Tail(s)
  <1>1. Len(s) \in Nat /\ Len(s) # 0 /\ DOMAIN s = 1..Len(s)
    OBVIOUS
  <1>2. t \in Seq(Ids) /\ Len(t) = Len(s) - 1 /\ DOMAIN t = 1..(Len(s) - 1)
    BY <1>1
  <1>3. Head(s) = s[1] /\ Head(s) \in Ids
    BY <1>1
  <1>4. \A k \in 1..(Len(s) - 1) : t[k] = s[k + 1] /\ k + 1 \in DOMAIN s
    BY <1>1
  <1>5. ToSet(s) \subseteq {Head(s)} \cup ToSet(t)
    <2>1. ASSUME NEW k \in 1..Len(s) PROVE s[k] \in {Head(s)} \cup ToSet(t)
      <3>1. CASE k = 1
        BY <1>3, <3>1
      <3>2. CASE k # 1
        <4>1. k - 1 \in 1..(Len(s) - 1) /\ (k - 1) + 1 = k
          BY <1>1, <3>2
        <4>2. t[k - 1] = s[k]
          BY <1>4, <4>1
        <4> QED BY <1>2, <4>1, <4>2 DEF ToSet
      <3> QED BY <3>1, <3>2
    <2> QED BY <1>1, <2>1 DEF ToSet
  <1>6. ToSet(t) \subseteq ToSet(s)
    BY <1>2, <1>4 DEF ToSet
  <1>7. Head(s) \in ToSet(s)
    <2>1. 1 \in DOMAIN s
      BY <1>1
    <2> QED BY <1>3, <2>1 DEF ToSet
  <1> QED BY <1>2, <1>3, <1>5, <1>6, <1>7

\* Cutting a sequence in two loses nothing.
LEMMA CutElems ==
  ASSUME NEW s \in Seq(Ids), NEW n \in 1..Len(s)
  PROVE  /\ SubSeq(s, 1, n) \in Seq(Ids)
         /\ SubSeq(s, 1, n) # << >>
         /\ SubSeq(s, n + 1, Len(s)) \in Seq(Ids)
         /\ ToSet(s) = ToSet(SubSeq(s, 1, n)) \cup ToSet(SubSeq(s, n + 1, Len(s)))
  <1> DEFINE t == SubSeq(s, 1, n)
             u == SubSeq(s, n + 1, Len(s))
  <1>1. Len(s) \in Nat /\ n \in Nat /\ n <= Len(s) /\ 1 <= n
    OBVIOUS
  <1>2. t \in Seq(Ids) /\ Len(t) = n /\ \A k \in 1..n : t[k] = s[k]
    BY <1>1
  <1>3. u \in Seq(Ids) /\ Len(u) = Len(s) - n
        /\ \A k \in 1..(Len(s) - n) : u[k] = s[n + k]
    BY <1>1
  <1>4. DOMAIN t = 1..n /\ DOMAIN u = 1..(Len(s) - n)
    BY <1>1, <1>2, <1>3
  <1> HIDE DEF t, u
  <1>5. ToSet(t) = {s[k] : k \in 1..n}
    BY <1>2, <1>4 DEF ToSet
  <1>6. ToSet(u) = {s[k] : k \in (n + 1)..Len(s)}
    <2>1. ToSet(u) \subseteq {s[k] : k \in (n + 1)..Len(s)}
      BY <1>1, <1>3, <1>4 DEF ToSet
    <2>2. ASSUME NEW k \in (n + 1)..Len(s) PROVE s[k] \in ToSet(u)
      <3>1. k - n \in 1..(Len(s) - n) /\ k = n + (k - n)
        BY <1>1
      <3>2. u[k - n] = s[k]
        BY <1>3, <3>1
      <3> QED BY <1>4, <3>1, <3>2 DEF ToSet
    <2> QED BY <2>1, <2>2
  <1>7. ToSet(s) = {s[k] : k \in 1..Len(s)}
    BY DEF ToSet
  <1>8. ToSet(s) = ToSet(t) \cup ToSet(u)
    BY <1>1, <1>5, <1>6, <1>7
  <1>9. t # << >>
    BY <1>1, <1>2
  <1> QED BY <1>2, <1>3, <1>8, <1>9 DEF t, u

\* The empty sequence and the sequence of one message.
LEMMA SmallElems ==
  /\ << >> \in Seq(Ids) /\ ToSet(<< >>) = {} /\ Increasing(<< >>)
  /\ \A i \in Ids : <<i>> \in Seq(Ids) /\ ToSet(<<i>>) = {i} /\ Increasing(<<i>>)
  <1>1. << >> \in Seq(Ids) /\ ToSet(<< >>) = {} /\ Increasing(<< >>)
    BY DEF ToSet, Increasing
  <1>2. ASSUME NEW i \in Ids
        PROVE  <<i>> \in Seq(Ids) /\ ToSet(<<i>>) = {i} /\ Increasing(<<i>>)
    <2>1. DOMAIN <<i>> = {1} /\ <<i>>[1] = i
      OBVIOUS
    <2> QED BY <2>1 DEF ToSet, Increasing
  <1> QED BY <1>1, <1>2

\* Appending a later message keeps the order.
LEMMA AppendIncreasing ==
  ASSUME NEW s \in Seq(Ids), NEW e \in Ids, Increasing(s),
         \A i \in ToSet(s) : i < e
  PROVE  Increasing(Append(s, e))
  <1> DEFINE t == Append(s, e)
  <1>1. Len(s) \in Nat /\ DOMAIN s = 1..Len(s) /\ DOMAIN t = 1..(Len(s) + 1)
    OBVIOUS
  <1>2. (\A k \in 1..Len(s) : t[k] = s[k]) /\ t[Len(s) + 1] = e
    OBVIOUS
  <1>3. \A k \in 1..Len(s) : t[k] < e
    BY <1>1, <1>2 DEF ToSet
  <1>4. \A k, l \in 1..Len(s) : k < l => t[k] < t[l]
    BY <1>1, <1>2 DEF Increasing
  <1> HIDE DEF t
  <1>5. ASSUME NEW k \in DOMAIN t, NEW l \in DOMAIN t, k < l
        PROVE  t[k] < t[l]
    <2>1. k \in 1..Len(s)
      BY <1>1, <1>5
    <2>2. l \in 1..Len(s) \/ l = Len(s) + 1
      BY <1>1
    <2> QED BY <1>2, <1>3, <1>4, <1>5, <2>1, <2>2
  <1> QED BY <1>5 DEF Increasing, t

\* The tail of an ordered sequence is ordered, behind its head.
LEMMA TailIncreasing ==
  ASSUME NEW s \in Seq(Ids), s # << >>, Increasing(s)
  PROVE  /\ Increasing(Tail(s))
         /\ \A i \in ToSet(Tail(s)) : Head(s) < i
  <1> DEFINE t == Tail(s)
  <1>1. /\ Len(s) \in Nat /\ Len(s) # 0
        /\ DOMAIN s = 1..Len(s) /\ DOMAIN t = 1..(Len(s) - 1)
    OBVIOUS
  <1>2. Head(s) = s[1] /\ \A k \in 1..(Len(s) - 1) : t[k] = s[k + 1]
    BY <1>1
  <1> HIDE DEF t
  <1>3. Increasing(t)
    BY <1>1, <1>2 DEF Increasing
  <1>4. ASSUME NEW k \in 1..(Len(s) - 1) PROVE Head(s) < t[k]
    <2>1. 1 \in DOMAIN s /\ k + 1 \in DOMAIN s /\ 1 < k + 1
      BY <1>1
    <2> QED BY <1>2, <2>1 DEF Increasing
  <1> QED BY <1>1, <1>3, <1>4 DEF ToSet, t

\* Both parts of an ordered sequence are ordered, the first before the second.
LEMMA CutIncreasing ==
  ASSUME NEW s \in Seq(Ids), NEW n \in 1..Len(s), Increasing(s)
  PROVE  /\ Increasing(SubSeq(s, 1, n))
         /\ Increasing(SubSeq(s, n + 1, Len(s)))
         /\ Before(SubSeq(s, 1, n), SubSeq(s, n + 1, Len(s)))
  <1> DEFINE t == SubSeq(s, 1, n)
             u == SubSeq(s, n + 1, Len(s))
  <1>1. /\ Len(s) \in Nat /\ n \in Nat /\ n <= Len(s) /\ 1 <= n
        /\ DOMAIN s = 1..Len(s)
    OBVIOUS
  <1>2. DOMAIN t = 1..n /\ \A k \in 1..n : t[k] = s[k]
    BY <1>1
  <1>3. /\ DOMAIN u = 1..(Len(s) - n)
        /\ \A k \in 1..(Len(s) - n) : u[k] = s[n + k]
    BY <1>1
  <1> HIDE DEF t, u
  <1>4. Increasing(t)
    BY <1>1, <1>2 DEF Increasing
  <1>5. Increasing(u)
    <2>1. ASSUME NEW k \in DOMAIN u, NEW l \in DOMAIN u, k < l PROVE u[k] < u[l]
      <3>1. n + k \in DOMAIN s /\ n + l \in DOMAIN s /\ n + k < n + l
        BY <1>1, <1>3, <2>1
      <3> QED BY <1>3, <2>1, <3>1 DEF Increasing
    <2> QED BY <2>1 DEF Increasing
  <1>6. ASSUME NEW k \in DOMAIN t, NEW l \in DOMAIN u PROVE t[k] < u[l]
    <2>1. k \in DOMAIN s /\ n + l \in DOMAIN s /\ k < n + l
      BY <1>1, <1>2, <1>3
    <2> QED BY <1>2, <1>3, <2>1 DEF Increasing
  <1>7. Before(t, u)
    BY <1>6 DEF Before, ToSet
  <1> QED BY <1>4, <1>5, <1>7 DEF t, u

-----------------------------------------------------------------------------
(* Typing.                                                                 *)

\* The kinds of update the worker's steps are made of keep their types.
LEMMA GotoType ==
  ASSUME NEW c \in Chats, NEW a \in PCs, NEW b \in PCs, TypeOK, Goto(c, a, b)
  PROVE  pc' \in [Chats -> PCs]
  BY DEF Goto, TypeOK

\* A turn that is settled has a fate.
LEMMA SettleType ==
  ASSUME NEW c \in Chats, NEW f \in Settled, TypeOK, Settle(c, f)
  PROVE  fate' \in [Ids -> Fates] /\ turn' \in [Chats -> Seq(Ids)]
  BY SmallElems DEF Settle, TypeOK, Fates

\* A chat works in a directory.
LEMMA CwdType ==
  ASSUME NEW c \in Chats, TypeOK
  PROVE  Cwd(c) \in Dirs
  BY ConstantAssumption DEF Cwd, TypeOK, ChatStates

\* A chat that moves is a chat in a directory.
LEMMA TrySetCwdType ==
  ASSUME NEW c \in Chats, NEW dir \in Dirs, TypeOK, TrySetCwd(c, dir)
  PROVE  chats' \in [Chats -> ChatStates] /\ resets' \in [Chats -> Nat]
  <1>1. [session |-> NoSession, cwd |-> dir] \in ChatStates
    BY DEF ChatStates
  <1>2. resets[c] + 1 \in Nat
    BY DEF TypeOK
  <1> QED BY <1>1, <1>2 DEF TrySetCwd, SetCwd, TypeOK

\* Every step of a worker keeps every variable in its type.
LEMMA WorkerType ==
  ASSUME NEW c \in Chats, TypeOK, Worker(c)
  PROVE  TypeOK'
  <1>1. CASE Take(c)
    <2>1. pc' \in [Chats -> PCs]
      BY <1>1, GotoType DEF Take, PCs
    <2>2. batch' \in [Chats -> Seq(Ids)]
      BY <1>1, TailElems, SmallElems DEF Take, TypeOK
    <2>3. Tail(queue[c]) \in Seq(Ids) /\ Len(Tail(queue[c])) <= QueueDepth
      <3>1. queue[c] \in Seq(Ids) /\ Len(queue[c]) <= QueueDepth
        BY DEF TypeOK
      <3> QED BY <1>1, <3>1, TailElems, ConstantAssumption DEF Take
    <2>4. queue' \in [Chats -> Seq(Ids)] /\ \A d \in Chats : Len(queue'[d]) <= QueueDepth
      BY <1>1, <2>3 DEF Take, TypeOK
    <2> QED BY <1>1, <2>1, <2>2, <2>4 DEF TypeOK, Take, streamVars, inboxVars, pipeVars,
         runVars, stateVars
  <1>2. CASE Drain(c)
    <2>1. pc' \in [Chats -> PCs]
      BY <1>2, GotoType DEF Drain, PCs
    <2>2. batch' \in [Chats -> Seq(Ids)]
      BY <1>2, TailElems, AppendElems DEF Drain, TypeOK
    <2>3. Tail(queue[c]) \in Seq(Ids) /\ Len(Tail(queue[c])) <= QueueDepth
      <3>1. queue[c] \in Seq(Ids) /\ Len(queue[c]) <= QueueDepth
        BY DEF TypeOK
      <3> QED BY <1>2, <3>1, TailElems, ConstantAssumption DEF Drain
    <2>4. queue' \in [Chats -> Seq(Ids)] /\ \A d \in Chats : Len(queue'[d]) <= QueueDepth
      BY <1>2, <2>3 DEF Drain, TypeOK
    <2> QED BY <1>2, <2>1, <2>2, <2>4 DEF TypeOK, Drain, streamVars, inboxVars, pipeVars,
         runVars, stateVars
  <1>3. CASE DrainDone(c)
    <2>1. pc' \in [Chats -> PCs]
      BY <1>3, GotoType DEF DrainDone, PCs
    <2> QED BY <1>3, <2>1 DEF TypeOK, DrainDone, streamVars, inboxVars, pipeVars,
         runVars, stateVars
  <1>4. CASE NextGroup(c)
    <2>1. pc' \in [Chats -> PCs]
      BY <1>4, GotoType DEF NextGroup, PCs
    <2>2. turn' \in [Chats -> Seq(Ids)] /\ batch' \in [Chats -> Seq(Ids)]
      BY <1>4, CutElems DEF NextGroup, TypeOK
    <2> QED BY <1>4, <2>1, <2>2 DEF TypeOK, NextGroup, streamVars, inboxVars, pipeVars,
         runVars, stateVars
  <1>5. CASE BatchDone(c)
    <2>1. pc' \in [Chats -> PCs]
      BY <1>5, GotoType DEF BatchDone, PCs
    <2> QED BY <1>5, <2>1 DEF TypeOK, BatchDone, streamVars, inboxVars, pipeVars,
         runVars, stateVars
  <1>6. CASE Download(c)
    <2>1. pc' \in [Chats -> PCs]
      BY <1>6, GotoType DEF Download, PCs
    <2> QED BY <1>6, <2>1 DEF TypeOK, Download, streamVars, inboxVars, pipeVars,
         runVars, stateVars
  <1>7. CASE MediaFailReply(c)
    <2>1. pc' \in [Chats -> PCs]
      BY <1>7, GotoType DEF MediaFailReply, PCs
    <2>2. fate' \in [Ids -> Fates] /\ turn' \in [Chats -> Seq(Ids)]
      BY <1>7, SettleType DEF MediaFailReply, Settled
    <2> QED BY <1>7, <2>1, <2>2 DEF TypeOK, MediaFailReply, streamVars, inboxVars, pipeVars,
         runVars, stateVars
  <1>8. CASE BeginTurn(c)
    <2>1. pc' \in [Chats -> PCs]
      BY <1>8, GotoType DEF BeginTurn, PCs
    <2>2. armed' \in [Chats -> BOOLEAN] /\ cancelBy' \in [Chats -> 0..MaxMsgs]
      BY <1>8, ConstantAssumption DEF BeginTurn, TypeOK
    <2> QED BY <1>8, <2>1, <2>2 DEF TypeOK, BeginTurn, streamVars, inboxVars, pipeVars,
         runVars, stateVars
  <1>9. CASE RunPrompt(c)
    <2>1. pc' \in [Chats -> PCs]
      BY <1>9, GotoType DEF RunPrompt, PCs
    <2>2. fate' \in [Ids -> Fates] /\ turn' \in [Chats -> Seq(Ids)]
      BY <1>9, SettleType DEF RunPrompt, Settled, TypeOK
    <2>3. claude' \in [Chats -> Sessions \cup {NoSession}]
      <3>1. chats[c].session \in Sessions \cup {NoSession}
        BY DEF TypeOK, ChatStates
      <3>2. [dir |-> Cwd(c), gen |-> resets[c]] \in Sessions
        BY CwdType DEF TypeOK, Sessions
      <3> HIDE DEF Cwd
      <3> QED BY <1>9, <3>1, <3>2 DEF RunPrompt, TypeOK
    <2> QED BY <1>9, <2>1, <2>2, <2>3 DEF TypeOK, RunPrompt, streamVars, inboxVars, pipeVars,
         runVars, stateVars
  <1>10. CASE RunEnd(c)
    <2>1. pc' \in [Chats -> PCs]
      BY <1>10, GotoType DEF RunEnd, PCs
    <2>2. fate' \in [Ids -> Fates] /\ turn' \in [Chats -> Seq(Ids)]
      BY <1>10, SettleType DEF RunEnd, Settled, TypeOK
    <2>3. chats' \in [Chats -> ChatStates]
      <3>1. chats[c] \in ChatStates /\ claude[c] \in Sessions \cup {NoSession}
        BY DEF TypeOK
      <3>2. [chats[c] EXCEPT !.session = claude[c]] \in ChatStates
        BY <3>1 DEF ChatStates
      <3> QED BY <1>10, <3>2 DEF RunEnd, TypeOK, SetSession
    <2>4. claude' \in [Chats -> Sessions \cup {NoSession}]
      BY <1>10 DEF RunEnd, TypeOK
    <2> QED BY <1>10, <2>1, <2>2, <2>3, <2>4 DEF TypeOK, RunEnd, streamVars, inboxVars, pipeVars,
         runVars, stateVars
  <1>11. CASE HandleNew(c)
    <2>1. pc' \in [Chats -> PCs]
      BY <1>11, GotoType DEF HandleNew, PCs
    <2>2. chats' \in [Chats -> ChatStates]
      <3>1. chats[c] \in ChatStates
        BY DEF TypeOK
      <3>2. [chats[c] EXCEPT !.session = NoSession] \in ChatStates
        BY <3>1 DEF ChatStates
      <3> QED BY <1>11, <3>2 DEF HandleNew, TypeOK, SetSession
    <2>3. resets' \in [Chats -> Nat]
      BY <1>11 DEF HandleNew, TypeOK
    <2> QED BY <1>11, <2>1, <2>2, <2>3 DEF TypeOK, HandleNew, streamVars, inboxVars, pipeVars,
         runVars, stateVars
  <1>12. CASE HandleCd(c)
    <2>1. pc' \in [Chats -> PCs]
      BY <1>12, GotoType DEF HandleCd, PCs
    <2>2. chats' \in [Chats -> ChatStates]
      BY <1>12, TrySetCwdType DEF HandleCd, TypeOK
    <2>3. resets' \in [Chats -> Nat]
      BY <1>12, TrySetCwdType DEF HandleCd, TypeOK
    <2> QED BY <1>12, <2>1, <2>2, <2>3 DEF TypeOK, HandleCd, streamVars, inboxVars, pipeVars,
         runVars, stateVars
  <1>13. CASE HandleWsUse(c)
    <2>1. pc' \in [Chats -> PCs]
      BY <1>13, GotoType DEF HandleWsUse, PCs
    <2>2. chats' \in [Chats -> ChatStates]
      BY <1>13, TrySetCwdType DEF HandleWsUse, TypeOK
    <2>3. resets' \in [Chats -> Nat]
      BY <1>13, TrySetCwdType DEF HandleWsUse, TypeOK
    <2> QED BY <1>13, <2>1, <2>2, <2>3 DEF TypeOK, HandleWsUse, streamVars, inboxVars, pipeVars,
         runVars, stateVars
  <1>14. CASE HandleWsSave(c)
    <2>1. pc' \in [Chats -> PCs]
      BY <1>14, GotoType DEF HandleWsSave, PCs
    <2>2. workspaces' \in [Names -> Dirs \cup {NoDir}]
      BY <1>14, CwdType DEF HandleWsSave, TypeOK
    <2> QED BY <1>14, <2>1, <2>2 DEF TypeOK, HandleWsSave, streamVars, inboxVars, pipeVars,
         runVars, stateVars
  <1>15. CASE HandleWsRemove(c)
    <2>1. pc' \in [Chats -> PCs]
      BY <1>15, GotoType DEF HandleWsRemove, PCs
    <2>2. workspaces' \in [Names -> Dirs \cup {NoDir}]
      BY <1>15 DEF HandleWsRemove, TypeOK
    <2> QED BY <1>15, <2>1, <2>2 DEF TypeOK, HandleWsRemove, streamVars, inboxVars, pipeVars,
         runVars, stateVars
  <1>16. CASE HandleQuery(c)
    <2>1. pc' \in [Chats -> PCs]
      BY <1>16, GotoType DEF HandleQuery, PCs
    <2> QED BY <1>16, <2>1 DEF TypeOK, HandleQuery, streamVars, inboxVars, pipeVars,
         runVars, stateVars
  <1>17. CASE Reply(c)
    <2>1. pc' \in [Chats -> PCs]
      BY <1>17, GotoType DEF Reply, PCs
    <2>2. fate' \in [Ids -> Fates] /\ turn' \in [Chats -> Seq(Ids)]
      <3>1. UNCHANGED <<fate, turn>> \/ Settle(c, "mute")
        BY <1>17 DEF Reply
      <3> QED BY <3>1, SettleType DEF Settled, TypeOK
    <2> QED BY <1>17, <2>1, <2>2 DEF TypeOK, Reply, streamVars, inboxVars, pipeVars,
         runVars, stateVars
  <1>19. CASE ReplyEnd(c)
    <2>1. pc' \in [Chats -> PCs]
      BY <1>19, GotoType DEF ReplyEnd, PCs
    <2>2. fate' \in [Ids -> Fates] /\ turn' \in [Chats -> Seq(Ids)]
      BY <1>19, SettleType DEF ReplyEnd, Settled
    <2> QED BY <1>19, <2>1, <2>2 DEF TypeOK, ReplyEnd, streamVars, inboxVars, pipeVars,
         runVars, stateVars
  <1>18. CASE EndTurn(c)
    <2>1. pc' \in [Chats -> PCs]
      BY <1>18, GotoType DEF EndTurn, PCs
    <2>2. armed' \in [Chats -> BOOLEAN] /\ cancelBy' \in [Chats -> 0..MaxMsgs]
      BY <1>18, ConstantAssumption DEF EndTurn, TypeOK
    <2> QED BY <1>18, <2>1, <2>2 DEF TypeOK, EndTurn, streamVars, inboxVars, pipeVars,
         runVars, stateVars
  <1> QED BY <1>1, <1>2, <1>3, <1>4, <1>5, <1>6, <1>7, <1>8, <1>9, <1>10,
               <1>11, <1>12, <1>13, <1>14, <1>15, <1>16, <1>17, <1>18, <1>19 DEF Worker

\* Every step of the stream and its callback does, too.
LEMMA StreamType ==
  ASSUME TypeOK, Stream
  PROVE  TypeOK'
  <1>1. ASSUME NEW c \in Chats, NEW k \in Sends, Receive(c, k)
        PROVE  TypeOK'
    <2> DEFINE m == [chat |-> c, kind |-> k]
    <2>1. sent + 1 \in Ids /\ sent' = sent + 1 /\ sent \in Nat /\ MaxMsgs \in Nat
      BY <1>1, ConstantAssumption DEF Receive, TypeOK, Ids
    <2>2. m \in Messages /\ m # NoMsg
      BY ConstantAssumption DEF Messages
    <2>3. /\ msg' \in [Ids -> Messages \cup {NoMsg}]
          /\ \A i \in Ids : (msg'[i] = NoMsg) <=> (i > sent')
      <3> HIDE DEF m
      <3>1. msg' = [msg EXCEPT ![sent + 1] = m]
        BY <1>1 DEF Receive, m
      <3> QED BY <2>1, <2>2, <3>1 DEF TypeOK, Ids
    <2>4. cb' \in 0..sent' /\ sent' \in 0..MaxMsgs
      BY <1>1, <2>1 DEF Receive, Ids
    <2>5. fate' \in [Ids -> Fates]
      BY <1>1, <2>1 DEF Receive, TypeOK, Fates
    <2>6. armed' \in [Chats -> BOOLEAN] /\ cancelBy' \in [Chats -> 0..MaxMsgs]
      <3>1. \/ armed' = armed /\ cancelBy' = cancelBy
            \/ /\ armed' = [armed EXCEPT ![c] = FALSE]
               /\ cancelBy' \in {cancelBy, [cancelBy EXCEPT ![c] = sent + 1]}
        BY <1>1 DEF Receive, Interrupt, runVars
      <3>2. armed' \in [Chats -> BOOLEAN]
        BY <3>1 DEF TypeOK
      <3>3. sent + 1 \in 0..MaxMsgs
        BY <2>1 DEF Ids
      <3>4. cancelBy' \in [Chats -> 0..MaxMsgs]
        BY <3>1, <3>3 DEF TypeOK
      <3> QED BY <3>2, <3>4
    <2> QED BY <1>1, <2>3, <2>4, <2>5, <2>6
            DEF TypeOK, Receive, streamVars, pipeVars, stateVars
  <1>2. ASSUME Enqueue
        PROVE  TypeOK'
    <2>1. cb \in Ids /\ cb <= sent
      BY <1>2, ConstantAssumption DEF Enqueue, TypeOK, Ids
    <2>2. msg[cb].chat \in Chats
      <3>1. msg[cb] \in Messages
        BY <2>1, ConstantAssumption DEF TypeOK, Ids
      <3> QED BY <3>1 DEF Messages
    <2> DEFINE c == msg[cb].chat
    <2>3. /\ queue' \in [Chats -> Seq(Ids)]
          /\ \A d \in Chats : Len(queue'[d]) <= QueueDepth
      <3>1. queue[c] \in Seq(Ids) /\ Append(queue[c], cb) \in Seq(Ids)
            /\ Len(Append(queue[c], cb)) = Len(queue[c]) + 1
        BY <2>1, <2>2 DEF TypeOK
      <3>2. CASE HasRoom(c) /\ queue' = [queue EXCEPT ![c] = Append(@, cb)]
        <4>1. Len(Append(queue[c], cb)) <= QueueDepth
          BY <3>1, <3>2, ConstantAssumption DEF HasRoom
        <4> QED BY <2>2, <3>1, <3>2, <4>1 DEF TypeOK
      <3>3. CASE queue' = queue
        BY <3>3 DEF TypeOK
      <3> QED BY <1>2, <3>2, <3>3 DEF Enqueue
    <2>4. fate' \in [Ids -> Fates]
      BY <1>2, <2>1 DEF Enqueue, TypeOK, Fates, Settled
    <2>5. cb' \in 0..sent'
      BY <1>2 DEF Enqueue, TypeOK
    <2> QED BY <1>2, <2>3, <2>4, <2>5
            DEF TypeOK, Enqueue, streamVars, runVars, stateVars
  <1>3. CASE Supersede
    BY <1>3 DEF TypeOK, Supersede, inboxVars, pipeVars, runVars, stateVars
  <1>4. CASE StreamEnd
    BY <1>4 DEF TypeOK, StreamEnd, inboxVars, pipeVars, runVars, stateVars
  <1>5. CASE Reconnect
    BY <1>5 DEF TypeOK, Reconnect, inboxVars, pipeVars, runVars, stateVars
  <1> QED BY <1>1, <1>2, <1>3, <1>4, <1>5 DEF Stream

\* The initial state has the types.
LEMMA TypeInit == Init => TypeOK
  <1> SUFFICES ASSUME Init PROVE TypeOK
    OBVIOUS
  <1>1. \A c \in Chats : Len(queue[c]) <= QueueDepth
    BY ConstantAssumption DEF Init
  <1>2. queue \in [Chats -> Seq(Ids)] /\ batch \in [Chats -> Seq(Ids)]
        /\ turn \in [Chats -> Seq(Ids)]
    BY SmallElems DEF Init
  <1>3. /\ sent \in 0..MaxMsgs /\ cb \in 0..sent
        /\ msg \in [Ids -> Messages \cup {NoMsg}]
        /\ \A i \in Ids : (msg[i] = NoMsg) <=> (i > sent)
        /\ cancelBy \in [Chats -> 0..MaxMsgs]
    BY ConstantAssumption DEF Init, Ids
  <1>4. fate \in [Ids -> Fates] /\ pc \in [Chats -> PCs]
    BY DEF Init, Fates, PCs
  <1>5. chats \in [Chats -> ChatStates] /\ workspaces \in [Names -> Dirs \cup {NoDir}]
    BY DEF Init, ChatStates
  <1> QED BY <1>1, <1>2, <1>3, <1>4, <1>5 DEF Init, TypeOK

-----------------------------------------------------------------------------
(* The path of a message through a worker.                                 *)

\* The parts of the inductive invariant that are about messages.
PathInv == Numbered /\ Conserved /\ InOrder

\* A step that moves messages of one chat between the stages of its worker and
\* settles none keeps the path.
LEMMA PipeStep ==
  ASSUME NEW c \in Chats, NEW t, NEW b, NEW q, TypeOK, PathInv,
         UNCHANGED <<sent, cb, msg, fate>>,
         turn' = [turn EXCEPT ![c] = t],
         batch' = [batch EXCEPT ![c] = b],
         queue' = [queue EXCEPT ![c] = q],
         Ordered(t, b, q),
         ToSet(t) \cup ToSet(b) \cup ToSet(q) = Pending(c)
  PROVE  PathInv'
  <1>1. Numbered'
    BY DEF PathInv, Numbered
  <1>2. \A d \in Chats : /\ turn'[d] = IF d = c THEN t ELSE turn[d]
                         /\ batch'[d] = IF d = c THEN b ELSE batch[d]
                         /\ queue'[d] = IF d = c THEN q ELSE queue[d]
    BY DEF TypeOK
  <1>3. \A d \in Chats : Pending(d)' = Pending(d)
    BY <1>2 DEF Pending
  <1>4. Conserved'
    BY <1>3 DEF PathInv, Conserved, Accepted
  <1>5. InOrder'
    BY <1>2 DEF PathInv, InOrder
  <1> QED BY <1>1, <1>4, <1>5 DEF PathInv

\* A step that leaves the messages alone keeps the path.
LEMMA StillStep ==
  ASSUME TypeOK, PathInv, UNCHANGED <<sent, cb, msg, fate, pipeVars>>
  PROVE  PathInv'
  BY DEF PathInv, Numbered, Conserved, Accepted, InOrder, Pending, pipeVars

\* Settling a turn takes its messages, and no others, off the path.
LEMMA SettleStep ==
  ASSUME NEW c \in Chats, NEW f \in Settled, TypeOK, PathInv, Settle(c, f),
         UNCHANGED <<sent, cb, msg, batch, queue>>
  PROVE  PathInv'
  <1> DEFINE T == ToSet(turn[c])
  <1>1. \A i \in Ids : fate'[i] = IF i \in T THEN f ELSE fate[i]
    BY DEF Settle
  <1>2. \A d \in Chats : turn'[d] = IF d = c THEN << >> ELSE turn[d]
    BY DEF Settle, TypeOK
  <1>3. f \notin {"new", "routed", "queued"}
    BY DEF Settled
  <1>4. \A i \in T : i \in Ids /\ fate[i] = "queued" /\ msg[i].chat = c
    BY DEF PathInv, Conserved, Accepted, Pending
  <1>5. Numbered'
    BY <1>1, <1>3, <1>4 DEF PathInv, Numbered
  <1>6. InOrder'
    <2>1. Ordered(<< >>, batch[c], queue[c])
      BY SmallElems DEF PathInv, InOrder, Ordered, Before
    <2> QED BY <1>2, <2>1 DEF PathInv, InOrder
  <1>7. Conserved'
    <2>1. ASSUME NEW d \in Chats, d # c
          PROVE  Pending(d)' = {i \in Ids : fate'[i] = "queued" /\ msg'[i].chat = d}
      <3>1. Pending(d)' = Pending(d)
        BY <1>2, <2>1 DEF Pending
      <3>2. \A i \in Ids : msg[i].chat = d => fate'[i] = fate[i]
        BY <1>1, <1>4, <2>1
      <3> QED BY <3>1, <3>2 DEF PathInv, Conserved, Accepted
    <2>2. Pending(c)' = {i \in Ids : fate'[i] = "queued" /\ msg'[i].chat = c}
      <3>1. Pending(c)' = ToSet(batch[c]) \cup ToSet(queue[c])
        BY <1>2, SmallElems DEF Pending
      <3>2. \A i \in T : i \notin ToSet(batch[c]) /\ i \notin ToSet(queue[c])
        <4>1. Before(turn[c], batch[c]) /\ Before(turn[c], queue[c])
          BY DEF PathInv, InOrder, Ordered
        <4>2. \A i \in Ids : ~(i < i)
          BY ConstantAssumption DEF Ids
        <4> QED BY <1>4, <4>1, <4>2 DEF Before
      <3>3. Pending(c)' = Pending(c) \ T
        BY <3>1, <3>2 DEF Pending
      <3> QED BY <1>1, <1>3, <3>3 DEF PathInv, Conserved, Accepted
    <2> QED BY <2>1, <2>2 DEF Conserved, Accepted
  <1> QED BY <1>5, <1>6, <1>7 DEF PathInv

\* Taking, draining and grouping move messages forward in order.
LEMMA MoveStep ==
  ASSUME NEW c \in Chats, TypeOK, PathInv, Stages,
         Take(c) \/ Drain(c) \/ NextGroup(c)
  PROVE  PathInv'
  <1> DEFINE t == turn[c]
             b == batch[c]
             q == queue[c]
  <1>1. /\ t \in Seq(Ids) /\ b \in Seq(Ids) /\ q \in Seq(Ids)
        /\ turn = [turn EXCEPT ![c] = t] /\ queue = [queue EXCEPT ![c] = q]
        /\ Pending(c) = ToSet(t) \cup ToSet(b) \cup ToSet(q)
        /\ Ordered(t, b, q)
    BY DEF TypeOK, PathInv, InOrder, Pending
  <1>2. CASE Take(c)
    <2>1. t = << >> /\ b = << >>
      BY <1>2 DEF Take, Goto, Stages
    <2>2. q # << >>
      BY <1>2 DEF Take
    <2> DEFINE b1 == <<Head(q)>>
               q1 == Tail(q)
    <2>3. Head(q) \in Ids /\ ToSet(q) = {Head(q)} \cup ToSet(q1)
      BY <1>1, <2>2, TailElems
    <2>4. Increasing(q1) /\ \A i \in ToSet(q1) : Head(q) < i
      BY <1>1, <2>2, TailIncreasing DEF Ordered
    <2>5. ToSet(b1) = {Head(q)} /\ Increasing(b1)
      BY <2>3, SmallElems
    <2>6. Ordered(t, b1, q1)
      BY <2>1, <2>4, <2>5, SmallElems DEF Ordered, Before
    <2>7. ToSet(t) \cup ToSet(b1) \cup ToSet(q1) = Pending(c)
      BY <1>1, <2>1, <2>3, <2>5, SmallElems
    <2> HIDE DEF t, b, q, b1, q1
    <2>8. /\ turn' = [turn EXCEPT ![c] = t]
          /\ batch' = [batch EXCEPT ![c] = b1]
          /\ queue' = [queue EXCEPT ![c] = q1]
          /\ UNCHANGED <<sent, cb, msg, fate>>
      BY <1>1, <1>2 DEF Take, inboxVars, b1, q1, q
    <2> QED BY <2>6, <2>7, <2>8, PipeStep
  <1>3. CASE Drain(c)
    <2>1. t = << >>
      BY <1>3 DEF Drain, Goto, Stages
    <2>2. q # << >>
      BY <1>3 DEF Drain
    <2> DEFINE b1 == Append(b, Head(q))
               q1 == Tail(q)
    <2>3. Head(q) \in Ids /\ ToSet(q) = {Head(q)} \cup ToSet(q1)
      BY <1>1, <2>2, TailElems
    <2>4. Increasing(q1) /\ \A i \in ToSet(q1) : Head(q) < i
      BY <1>1, <2>2, TailIncreasing DEF Ordered
    <2>5. ToSet(b1) = ToSet(b) \cup {Head(q)}
      BY <1>1, <2>3, AppendElems
    <2>6. Increasing(b1)
      <3>1. \A i \in ToSet(b) : i < Head(q)
        BY <1>1, <2>3 DEF Ordered, Before
      <3> QED BY <1>1, <2>3, <3>1, AppendIncreasing DEF Ordered
    <2>7. Before(b1, q1)
      BY <1>1, <2>3, <2>4, <2>5 DEF Ordered, Before
    <2>8. Ordered(t, b1, q1)
      BY <2>1, <2>4, <2>6, <2>7, SmallElems DEF Ordered, Before
    <2>9. ToSet(t) \cup ToSet(b1) \cup ToSet(q1) = Pending(c)
      BY <1>1, <2>3, <2>5
    <2> HIDE DEF t, b, q, b1, q1
    <2>10. /\ turn' = [turn EXCEPT ![c] = t]
           /\ batch' = [batch EXCEPT ![c] = b1]
           /\ queue' = [queue EXCEPT ![c] = q1]
           /\ UNCHANGED <<sent, cb, msg, fate>>
      BY <1>1, <1>3 DEF Drain, inboxVars, b1, q1, q, b
    <2> QED BY <2>8, <2>9, <2>10, PipeStep
  <1>4. CASE NextGroup(c)
    <2>1. t = << >>
      BY <1>4 DEF NextGroup, Goto, Stages
    <2>2. PICK n \in 1..Len(b) :
            /\ turn' = [turn EXCEPT ![c] = SubSeq(b, 1, n)]
            /\ batch' = [batch EXCEPT ![c] = SubSeq(b, n + 1, Len(b))]
      BY <1>4 DEF NextGroup
    <2> DEFINE t1 == SubSeq(b, 1, n)
               b1 == SubSeq(b, n + 1, Len(b))
    <2>3. ToSet(b) = ToSet(t1) \cup ToSet(b1)
      BY <1>1, CutElems
    <2>4. Increasing(t1) /\ Increasing(b1) /\ Before(t1, b1)
      BY <1>1, CutIncreasing DEF Ordered
    <2>5. Before(t1, q) /\ Before(b1, q)
      BY <1>1, <2>3 DEF Ordered, Before
    <2>6. Ordered(t1, b1, q)
      BY <1>1, <2>4, <2>5 DEF Ordered
    <2>7. ToSet(t1) \cup ToSet(b1) \cup ToSet(q) = Pending(c)
      BY <1>1, <2>1, <2>3, SmallElems
    <2> HIDE DEF t, b, q, t1, b1
    <2>8. /\ turn' = [turn EXCEPT ![c] = t1]
          /\ batch' = [batch EXCEPT ![c] = b1]
          /\ queue' = [queue EXCEPT ![c] = q]
          /\ UNCHANGED <<sent, cb, msg, fate>>
      BY <1>1, <1>4, <2>2 DEF NextGroup, inboxVars, t1, b1
    <2> QED BY <2>6, <2>7, <2>8, PipeStep
  <1> QED BY <1>2, <1>3, <1>4

\* An arrival is not yet on the path.
LEMMA ReceiveStep ==
  ASSUME NEW c \in Chats, NEW k \in Sends, TypeOK, PathInv, Receive(c, k)
  PROVE  PathInv'
  <1> DEFINE i == sent + 1
  <1>1. i \in Ids /\ sent \in Nat /\ sent' = i /\ cb = 0
    BY ConstantAssumption DEF Receive, TypeOK, Ids
  <1>2. PICK f \in {"killing", "routed"} :
          /\ fate' = [fate EXCEPT ![i] = f]
          /\ cb' = IF f = "routed" THEN i ELSE 0
    BY DEF Receive
  <1>3. fate[i] = "new"
    BY <1>1 DEF PathInv, Numbered
  <1>4. \A j \in Ids : /\ fate'[j] = IF j = i THEN f ELSE fate[j]
                       /\ j # i => msg'[j] = msg[j]
    BY <1>2 DEF TypeOK, Receive
  <1>5. Numbered'
    <2>1. cb' \in {0, sent'}
      BY <1>1, <1>2
    <2>2. ASSUME NEW j \in Ids
          PROVE  /\ fate'[j] = "new" <=> j > sent'
                 /\ fate'[j] = "routed" <=> (j = cb' /\ cb' # 0)
      <3>1. CASE j = i
        BY <1>1, <1>2, <1>4, <3>1
      <3>2. CASE j # i
        <4>1. fate'[j] = fate[j] /\ fate[j] # "routed" /\ (j > sent <=> j > sent')
          BY <1>1, <1>4, <3>2 DEF PathInv, Numbered, Ids
        <4> QED BY <1>2, <3>2, <4>1 DEF PathInv, Numbered
      <3> QED BY <3>1, <3>2
    <2> QED BY <2>1, <2>2 DEF Numbered
  <1>6. UNCHANGED pipeVars
    BY DEF Receive
  <1>7. Conserved'
    <2>1. \A d \in Chats : Pending(d)' = Pending(d)
      BY <1>6 DEF Pending, pipeVars
    <2>2. \A j \in Ids : /\ fate'[j] = "queued" <=> fate[j] = "queued"
                         /\ fate[j] = "queued" => msg'[j] = msg[j]
      BY <1>2, <1>3, <1>4
    <2> HIDE DEF i
    <2> QED BY <2>1, <2>2 DEF PathInv, Conserved, Accepted
  <1>8. InOrder'
    BY <1>6 DEF PathInv, InOrder, pipeVars
  <1> QED BY <1>5, <1>7, <1>8 DEF PathInv

\* The message in the callback is later than all its chat's worker holds, so it
\* may go to the end of the channel.
LEMMA EnqueueStep ==
  ASSUME TypeOK, PathInv, Enqueue
  PROVE  PathInv'
  <1> DEFINE c == msg[cb].chat
             q == queue[c]
  <1>1. cb \in Ids /\ cb = sent /\ cb # 0 /\ cb' = 0
    BY ConstantAssumption DEF Enqueue, TypeOK, PathInv, Numbered, Ids
  <1>2. c \in Chats
    <2>1. msg[cb] \in Messages
      BY <1>1, ConstantAssumption DEF TypeOK, Ids
    <2> QED BY <2>1 DEF Messages
  <1>3. fate[cb] = "routed"
    BY <1>1 DEF PathInv, Numbered
  <1>4. PICK f \in {"queued", "dropped"} :
          /\ fate' = [fate EXCEPT ![cb] = f]
          /\ f = "queued" => queue' = [queue EXCEPT ![c] = Append(q, cb)]
          /\ f = "dropped" => queue' = queue
    BY DEF Enqueue
  <1>5. \A j \in Ids : fate'[j] = IF j = cb THEN f ELSE fate[j]
    BY <1>4 DEF TypeOK
  <1>6. UNCHANGED <<sent, msg, turn, batch>>
    BY DEF Enqueue
  <1>7. Numbered'
    BY <1>1, <1>4, <1>5, <1>6 DEF PathInv, Numbered, Ids
  <1>8. \A i \in Pending(c) : i \in Ids /\ i < cb
    <2>1. ASSUME NEW i \in Pending(c) PROVE i \in Ids /\ i < cb
      <3>1. i \in Ids /\ fate[i] = "queued"
        BY <1>2 DEF PathInv, Conserved, Accepted
      <3>2. ~(i > sent) /\ i # cb
        BY <1>3, <3>1 DEF PathInv, Numbered
      <3> QED BY <1>1, <3>1, <3>2 DEF Ids
    <2> QED BY <2>1
  <1>9. q \in Seq(Ids) /\ Ordered(turn[c], batch[c], q)
    BY <1>2 DEF TypeOK, PathInv, InOrder
  <1>10. CASE f = "queued"
    <2> DEFINE q1 == Append(q, cb)
    <2>1. ToSet(q1) = ToSet(q) \cup {cb}
      BY <1>1, <1>9, AppendElems
    <2>2. Increasing(q1)
      BY <1>1, <1>8, <1>9, AppendIncreasing DEF Ordered, Pending
    <2>3. Ordered(turn[c], batch[c], q1)
      BY <1>8, <1>9, <2>1, <2>2 DEF Ordered, Before, Pending
    <2> HIDE DEF q1
    <2>4. \A d \in Chats : queue'[d] = IF d = c THEN q1 ELSE queue[d]
      BY <1>4, <1>10 DEF TypeOK, q1
    <2>5. \A d \in Chats : Pending(d)' = IF d = c THEN Pending(c) \cup {cb}
                                         ELSE Pending(d)
      BY <1>6, <2>1, <2>4 DEF Pending
    <2>6. Conserved'
      BY <1>1, <1>5, <1>6, <1>10, <2>5 DEF PathInv, Conserved, Accepted
    <2>7. InOrder'
      BY <1>6, <2>3, <2>4 DEF PathInv, InOrder
    <2> QED BY <1>7, <2>6, <2>7 DEF PathInv
  <1>11. CASE f = "dropped"
    <2>1. InOrder' /\ \A d \in Chats : Pending(d)' = Pending(d)
      BY <1>4, <1>6, <1>11 DEF PathInv, InOrder, Pending
    <2>2. Conserved'
      BY <1>3, <1>5, <1>6, <1>11, <2>1 DEF PathInv, Conserved, Accepted
    <2> QED BY <1>7, <2>1, <2>2 DEF PathInv
  <1> QED BY <1>10, <1>11

\* The path is kept by every step.
LEMMA PathKept ==
  ASSUME TypeOK, PathInv, Stages, [Next]_vars
  PROVE  PathInv'
  <1>1. ASSUME NEW c \in Chats, Worker(c)
        PROVE  PathInv'
    <2>1. CASE Take(c) \/ Drain(c) \/ NextGroup(c)
      BY <2>1, MoveStep
    <2>2. CASE MediaFailReply(c)
      BY <2>2, SettleStep DEF MediaFailReply, inboxVars, Settled
    <2>3. CASE RunPrompt(c)
      <3>1. CASE UNCHANGED <<fate, turn>>
        BY <2>3, <3>1, StillStep DEF RunPrompt, inboxVars, pipeVars
      <3>2. CASE Settle(c, "interrupted")
        BY <2>3, <3>2, SettleStep DEF RunPrompt, inboxVars, Settled
      <3> QED BY <2>3, <3>1, <3>2 DEF RunPrompt
    <2>4. CASE RunEnd(c)
      <3>1. CASE UNCHANGED <<fate, turn>>
        BY <2>4, <3>1, StillStep DEF RunEnd, inboxVars, pipeVars
      <3>2. CASE Settle(c, "interrupted")
        BY <2>4, <3>2, SettleStep DEF RunEnd, inboxVars, Settled
      <3> QED BY <2>4, <3>1, <3>2 DEF RunEnd
    <2>5. CASE Reply(c)
      <3>1. CASE UNCHANGED <<fate, turn>>
        BY <2>5, <3>1, StillStep DEF Reply, inboxVars, pipeVars
      <3>2. CASE Settle(c, "mute")
        BY <2>5, <3>2, SettleStep DEF Reply, inboxVars, Settled
      <3> QED BY <2>5, <3>1, <3>2 DEF Reply
    <2>7. CASE ReplyEnd(c)
      BY <2>7, SettleStep DEF ReplyEnd, inboxVars, Settled
    <2>6. CASE \/ DrainDone(c) \/ BatchDone(c) \/ Download(c) \/ BeginTurn(c)
               \/ HandleNew(c) \/ HandleCd(c) \/ HandleWsUse(c)
               \/ HandleWsSave(c) \/ HandleWsRemove(c) \/ HandleQuery(c)
               \/ EndTurn(c)
      <3>1. UNCHANGED <<sent, cb, msg, fate, pipeVars>>
        BY <2>6 DEF DrainDone, BatchDone, Download, BeginTurn, HandleNew, HandleCd,
           HandleWsUse, HandleWsSave, HandleWsRemove, HandleQuery, EndTurn,
           inboxVars, pipeVars
      <3> QED BY <3>1, StillStep
    <2> QED BY <1>1, <2>1, <2>2, <2>3, <2>4, <2>5, <2>6, <2>7 DEF Worker
  <1>2. CASE Stream
    <2>1. CASE Supersede \/ StreamEnd \/ Reconnect
      <3>1. UNCHANGED <<sent, cb, msg, fate, pipeVars>>
        BY <2>1 DEF Supersede, StreamEnd, Reconnect, inboxVars
      <3> QED BY <3>1, StillStep
    <2> QED BY <1>2, <2>1, ReceiveStep, EnqueueStep DEF Stream
  <1>3. ASSUME NEW i \in Ids, StopReply(i)
        PROVE  PathInv'
    <2>1. PICK f \in {"cmd", "mute"} : fate' = [fate EXCEPT ![i] = f]
      BY <1>3 DEF StopReply
    <2>2. /\ UNCHANGED <<sent, cb, msg, pipeVars>>
          /\ \A j \in Ids : fate'[j] = IF j = i THEN f ELSE fate[j]
          /\ fate[i] = "killing"
      BY <1>3, <2>1 DEF StopReply, inboxVars, TypeOK
    <2>3. Numbered'
      BY <2>2 DEF PathInv, Numbered
    <2>4. Conserved'
      BY <2>2 DEF PathInv, Conserved, Accepted, Pending, pipeVars
    <2>5. InOrder'
      BY <2>2 DEF PathInv, InOrder, pipeVars
    <2> QED BY <2>3, <2>4, <2>5 DEF PathInv
  <1>4. CASE UNCHANGED vars
    BY <1>4, StillStep DEF vars, inboxVars
  <1> QED BY <1>1, <1>2, <1>3, <1>4 DEF Next

-----------------------------------------------------------------------------
(* The worker's loop, interrupts and sessions.                             *)

\* A step of one chat's worker leaves the other chats as they are.
LEMMA WorkerOther ==
  ASSUME NEW c \in Chats, NEW d \in Chats, d # c, TypeOK, Worker(c)
  PROVE  /\ turn'[d] = turn[d] /\ batch'[d] = batch[d] /\ pc'[d] = pc[d]
         /\ armed'[d] = armed[d] /\ cancelBy'[d] = cancelBy[d]
         /\ claude'[d] = claude[d] /\ chats'[d] = chats[d] /\ resets'[d] = resets[d]
  <1>1. CASE Take(c) \/ Drain(c) \/ DrainDone(c) \/ NextGroup(c) \/ BatchDone(c)
    BY <1>1 DEF Take, Drain, DrainDone, NextGroup, BatchDone,
       Goto, TypeOK, pipeVars, runVars, stateVars
  <1>2. CASE Download(c) \/ MediaFailReply(c) \/ BeginTurn(c) \/ Reply(c)
               \/ ReplyEnd(c) \/ EndTurn(c)
    BY <1>2 DEF Download, MediaFailReply, BeginTurn, Reply, ReplyEnd, EndTurn, Settle,
       Goto, TypeOK, pipeVars, runVars, stateVars
  <1>3. CASE RunPrompt(c)
    BY <1>3 DEF RunPrompt, Settle,
       Goto, TypeOK, pipeVars, runVars, stateVars
  <1>4. CASE RunEnd(c)
    BY <1>4 DEF RunEnd, Settle, SetSession,
       Goto, TypeOK, pipeVars, runVars, stateVars
  <1>5. CASE HandleNew(c) \/ HandleCd(c) \/ HandleWsUse(c)
    BY <1>5 DEF HandleNew, HandleCd, HandleWsUse, SetSession,
       TrySetCwd, SetCwd,
       Goto, TypeOK, pipeVars, runVars, stateVars
  <1>6. CASE HandleWsSave(c) \/ HandleWsRemove(c) \/ HandleQuery(c)
    BY <1>6 DEF HandleWsSave, HandleWsRemove, HandleQuery,
       Goto, TypeOK, pipeVars, runVars, stateVars
  <1> QED BY <1>1, <1>2, <1>3, <1>4, <1>5, <1>6 DEF Worker

\* The part of Stages that is about chat c.
StageOf(c) ==
  /\ turn[c] # << >> <=>
       pc[c] \in {"media", "failed", "begin", "handle", "run", "reply", "post"}
  /\ batch[c] # << >> => pc[c] # "idle"
  /\ armed[c] \/ cancelBy[c] # 0 => pc[c] \in {"handle", "run", "reply", "post", "end"}
  /\ claude[c] # NoSession => pc[c] = "run"

\* Each step of the loop leads from one stage to the next.
LEMMA StageStep ==
  ASSUME NEW c \in Chats, TypeOK, StageOf(c), Worker(c)
  PROVE  StageOf(c)'
  <1>1. CASE Take(c)
    BY <1>1 DEF Take, Goto, StageOf, TypeOK, pipeVars, runVars
  <1>2. CASE Drain(c)
    BY <1>2 DEF Drain, Goto, StageOf, TypeOK, pipeVars, runVars
  <1>3. CASE DrainDone(c)
    BY <1>3 DEF DrainDone, Goto, StageOf, TypeOK, pipeVars, runVars
  <1>4. CASE NextGroup(c)
    <2>1. turn'[c] # << >>
      <3>1. PICK n \in 1..Len(batch[c]) :
              turn' = [turn EXCEPT ![c] = SubSeq(batch[c], 1, n)]
        BY <1>4 DEF NextGroup
      <3>2. SubSeq(batch[c], 1, n) # << >>
        BY CutElems DEF TypeOK
      <3> QED BY <3>1, <3>2 DEF TypeOK
    <2> QED BY <1>4, <2>1 DEF NextGroup, Goto, StageOf, TypeOK, runVars
  <1>5. CASE BatchDone(c)
    BY <1>5 DEF BatchDone, Goto, StageOf, TypeOK, pipeVars, runVars
  <1>6. CASE Download(c)
    BY <1>6 DEF Download, Goto, StageOf, TypeOK, pipeVars, runVars
  <1>7. CASE MediaFailReply(c)
    BY <1>7 DEF MediaFailReply, Goto, StageOf, TypeOK, pipeVars, runVars, Settle
  <1>8. CASE BeginTurn(c)
    BY <1>8 DEF BeginTurn, Goto, StageOf, TypeOK, pipeVars, runVars
  <1>9. CASE RunPrompt(c)
    BY <1>9 DEF RunPrompt, Goto, StageOf, TypeOK, pipeVars, runVars, Settle
  <1>10. CASE RunEnd(c)
    BY <1>10 DEF RunEnd, Goto, StageOf, TypeOK, pipeVars, runVars, Settle
  <1>11. CASE HandleNew(c)
    BY <1>11 DEF HandleNew, Goto, StageOf, TypeOK, pipeVars, runVars
  <1>12. CASE HandleCd(c)
    BY <1>12 DEF HandleCd, Goto, StageOf, TypeOK, pipeVars, runVars
  <1>13. CASE HandleWsUse(c)
    BY <1>13 DEF HandleWsUse, Goto, StageOf, TypeOK, pipeVars, runVars
  <1>14. CASE HandleWsSave(c)
    BY <1>14 DEF HandleWsSave, Goto, StageOf, TypeOK, pipeVars, runVars
  <1>15. CASE HandleWsRemove(c)
    BY <1>15 DEF HandleWsRemove, Goto, StageOf, TypeOK, pipeVars, runVars
  <1>16. CASE HandleQuery(c)
    BY <1>16 DEF HandleQuery, Goto, StageOf, TypeOK, pipeVars, runVars
  <1>17. CASE Reply(c)
    BY <1>17 DEF Reply, Goto, StageOf, TypeOK, pipeVars, runVars, Settle
  <1>18. CASE EndTurn(c)
    BY <1>18 DEF EndTurn, Goto, StageOf, TypeOK, pipeVars, runVars
  <1>19. CASE ReplyEnd(c)
    BY <1>19 DEF ReplyEnd, Goto, StageOf, TypeOK, pipeVars, runVars, Settle
  <1> QED BY <1>1, <1>2, <1>3, <1>4, <1>5, <1>6, <1>7, <1>8, <1>9, <1>10, <1>11,
             <1>12, <1>13, <1>14, <1>15, <1>16, <1>17, <1>18, <1>19 DEF Worker

\* Every step leaves every worker in a stage that fits its pipeline.
LEMMA StagesKept ==
  ASSUME TypeOK, Stages, [Next]_vars
  PROVE  Stages'
  <1>1. \A c \in Chats : StageOf(c)
    BY DEF Stages, StageOf
  <1>2. ASSUME NEW d \in Chats PROVE StageOf(d)'
    <2>1. ASSUME NEW c \in Chats, Worker(c) PROVE StageOf(d)'
      <3>1. CASE d = c
        BY <1>1, <2>1, <3>1, StageStep
      <3>2. CASE d # c
        BY <1>1, <2>1, <3>2, WorkerOther DEF StageOf
      <3> QED BY <3>1, <3>2
    <2>2. ASSUME NEW c \in Chats, NEW k \in Sends, Receive(c, k) PROVE StageOf(d)'
      BY <1>1, <2>2 DEF Receive, Interrupt, StageOf, TypeOK, pipeVars, runVars
    <2>3. CASE Enqueue \/ Supersede \/ StreamEnd \/ Reconnect
      BY <1>1, <2>3 DEF Enqueue, Supersede, StreamEnd, Reconnect, StageOf, pipeVars,
         runVars
    <2>4. ASSUME NEW i \in Ids, StopReply(i) PROVE StageOf(d)'
      BY <1>1, <2>4 DEF StopReply, StageOf, pipeVars, runVars
    <2>5. CASE UNCHANGED vars
      BY <1>1, <2>5 DEF vars, StageOf, pipeVars, runVars
    <2> QED BY <2>1, <2>2, <2>3, <2>4, <2>5 DEF Next, Stream
  <1> QED BY <1>2 DEF Stages, StageOf

\* A cancel comes from a message later than the turn it cancels.
LEMMA InterruptsKept ==
  ASSUME TypeOK, PathInv, Stages, InterruptsOnlyEarlier, [Next]_vars
  PROVE  InterruptsOnlyEarlier'
  <1>1. ASSUME NEW d \in Chats, cancelBy'[d] # 0, NEW j \in ToSet(turn'[d])
        PROVE  j < cancelBy'[d]
    <2>1. CASE turn'[d] = turn[d] /\ cancelBy'[d] = cancelBy[d]
      BY <1>1, <2>1 DEF InterruptsOnlyEarlier
    <2>2. ASSUME NEW c \in Chats, NEW k \in Sends, Receive(c, k)
          PROVE  j < cancelBy'[d]
      <3>1. turn' = turn /\ cancelBy'[d] \in {cancelBy[d], sent + 1}
        BY <2>2 DEF Receive, Interrupt, TypeOK, pipeVars, runVars
      <3>2. j \in Ids /\ fate[j] = "queued"
        BY <1>1, <3>1 DEF PathInv, Conserved, Accepted, Pending
      <3>3. j < sent + 1
        BY <3>2, ConstantAssumption DEF PathInv, Numbered, Ids, TypeOK
      <3> QED BY <1>1, <2>1, <3>1, <3>3
    <2>3. CASE Enqueue \/ Supersede \/ StreamEnd \/ Reconnect
      BY <2>1, <2>3 DEF Enqueue, Supersede, StreamEnd, Reconnect, pipeVars, runVars
    <2>4. ASSUME NEW i \in Ids, StopReply(i)
          PROVE  j < cancelBy'[d]
      BY <2>1, <2>4 DEF StopReply, pipeVars, runVars
    <2>5. CASE UNCHANGED vars
      BY <2>1, <2>5 DEF vars, pipeVars, runVars
    <2>6. ASSUME NEW c \in Chats, Worker(c)
          PROVE  j < cancelBy'[d]
      <3>1. CASE d # c
        BY <2>1, <2>6, <3>1, WorkerOther
      <3>2. CASE d = c
        <4>1. CASE NextGroup(c) \/ EndTurn(c)
          BY <1>1, <3>2, <4>1 DEF NextGroup, EndTurn, Goto, Stages, TypeOK, runVars
        <4>2. CASE turn'[c] = << >>
          BY <1>1, <3>2, <4>2, SmallElems
        <4>3. CASE turn' = turn /\ cancelBy' = cancelBy
          BY <2>1, <4>3
        <4>4. \/ NextGroup(c) \/ EndTurn(c) \/ turn'[c] = << >>
              \/ turn' = turn /\ cancelBy' = cancelBy
          BY <2>6 DEF Worker, Take, Drain, DrainDone, BatchDone, Download,
             MediaFailReply, BeginTurn, RunPrompt, RunEnd, HandleNew, HandleCd,
             HandleWsUse, HandleWsSave, HandleWsRemove, HandleQuery, Reply, ReplyEnd, Settle,
             TypeOK, pipeVars, runVars
        <4> QED BY <4>1, <4>2, <4>3, <4>4
      <3> QED BY <3>1, <3>2
    <2> QED BY <2>2, <2>3, <2>4, <2>5, <2>6 DEF Next, Stream
  <1> QED BY <1>1 DEF InterruptsOnlyEarlier

\* The part of SessionBound that is about chat c.
BoundTo(c, s) == s # NoSession => s.dir = Cwd(c) /\ s.gen = resets[c]

\* Whatever a worker does, the sessions of its chat stay bound.
LEMMA SessionStep ==
  ASSUME NEW c \in Chats, TypeOK, Stages, Worker(c),
         BoundTo(c, chats[c].session), BoundTo(c, claude[c])
  PROVE  BoundTo(c, chats[c].session)' /\ BoundTo(c, claude[c])'
  <1>1. CASE UNCHANGED <<chats, resets, claude>>
    BY <1>1 DEF BoundTo, Cwd
  <1>2. CASE RunPrompt(c)
    <2>1. UNCHANGED <<chats, resets>>
      BY <1>2 DEF RunPrompt, stateVars
    <2>2. claude'[c] \in {claude[c], chats[c].session, [dir |-> Cwd(c), gen |-> resets[c]]}
      BY <1>2 DEF RunPrompt, TypeOK
    <2> QED BY <2>1, <2>2 DEF BoundTo, Cwd
  <1>3. CASE RunEnd(c)
    <2>1. claude'[c] = NoSession /\ resets' = resets
      BY <1>3 DEF RunEnd, TypeOK
    <2>2. /\ chats'[c].session \in {chats[c].session, claude[c]}
          /\ chats'[c].cwd = chats[c].cwd
      BY <1>3 DEF RunEnd, SetSession, TypeOK, ChatStates
    <2> QED BY <2>1, <2>2 DEF BoundTo, Cwd
  <1>4. CASE HandleNew(c) \/ HandleCd(c) \/ HandleWsUse(c)
    <2>1. claude[c] = NoSession /\ claude' = claude
      BY <1>4 DEF HandleNew, HandleCd, HandleWsUse, Goto, Stages
    <2>2. \/ chats' = chats /\ resets' = resets
          \/ chats'[c].session = NoSession
      <3>1. CASE HandleNew(c)
        BY <3>1 DEF HandleNew, SetSession, TypeOK, ChatStates
      <3>2. ASSUME NEW dir, TrySetCwd(c, dir)
            PROVE  \/ chats' = chats /\ resets' = resets
                   \/ chats'[c].session = NoSession
        BY <3>2 DEF TrySetCwd, SetCwd, TypeOK
      <3>3. CASE HandleCd(c) \/ HandleWsUse(c)
        BY <3>2, <3>3 DEF HandleCd, HandleWsUse
      <3> QED BY <1>4, <3>1, <3>3
    <2> QED BY <2>1, <2>2 DEF BoundTo, Cwd
  <1>5. \/ UNCHANGED <<chats, resets, claude>>
        \/ RunPrompt(c) \/ RunEnd(c)
        \/ HandleNew(c) \/ HandleCd(c) \/ HandleWsUse(c)
    BY DEF Worker, Take, Drain, DrainDone, NextGroup, BatchDone, Download,
       MediaFailReply, BeginTurn, HandleWsSave, HandleWsRemove, HandleQuery, Reply,
       ReplyEnd, EndTurn, stateVars
  <1> QED BY <1>1, <1>2, <1>3, <1>4, <1>5

\* Every step leaves each session bound to the directory it began in.
LEMMA SessionsKept ==
  ASSUME TypeOK, Stages, SessionBound, [Next]_vars
  PROVE  SessionBound'
  <1>1. \A c \in Chats : BoundTo(c, chats[c].session) /\ BoundTo(c, claude[c])
    BY DEF SessionBound, BoundTo
  <1>2. ASSUME NEW d \in Chats
        PROVE  BoundTo(d, chats[d].session)' /\ BoundTo(d, claude[d])'
    <2>1. ASSUME NEW c \in Chats, Worker(c)
          PROVE  BoundTo(d, chats[d].session)' /\ BoundTo(d, claude[d])'
      <3>1. CASE d = c
        BY <1>1, <2>1, <3>1, SessionStep
      <3>2. CASE d # c
        BY <1>1, <2>1, <3>2, WorkerOther DEF BoundTo, Cwd
      <3> QED BY <3>1, <3>2
    <2>2. CASE UNCHANGED <<chats, resets, claude>>
      BY <1>1, <2>2 DEF BoundTo, Cwd
    <2>3. CASE Stream
      <3>1. UNCHANGED <<chats, resets, claude>>
        BY <2>3 DEF Stream, Receive, Enqueue, Supersede, StreamEnd, Reconnect, stateVars
      <3> QED BY <2>2, <3>1
    <2>4. ASSUME NEW i \in Ids, StopReply(i)
          PROVE  UNCHANGED <<chats, resets, claude>>
      BY <2>4 DEF StopReply, stateVars
    <2>5. CASE UNCHANGED vars
      BY <2>2, <2>5 DEF vars, stateVars
    <2> QED BY <2>1, <2>2, <2>3, <2>4, <2>5 DEF Next
  <1> QED BY <1>2 DEF SessionBound, BoundTo

-----------------------------------------------------------------------------
(* The safety properties.                                                  *)

\* Every step keeps the types.
LEMMA TypeStep == TypeOK /\ [Next]_vars => TypeOK'
  <1> SUFFICES ASSUME TypeOK, [Next]_vars PROVE TypeOK'
    OBVIOUS
  <1>1. CASE Stream
    BY <1>1, StreamType
  <1>2. ASSUME NEW i \in Ids, StopReply(i) PROVE TypeOK'
    BY <1>2 DEF TypeOK, StopReply, Fates, Settled, streamVars, inboxVars,
       pipeVars, runVars, stateVars
  <1>3. ASSUME NEW c \in Chats, Worker(c) PROVE TypeOK'
    BY <1>3, WorkerType
  <1>4. CASE UNCHANGED vars
    BY <1>4 DEF TypeOK, vars, streamVars, inboxVars, pipeVars, runVars, stateVars
  <1> QED BY <1>1, <1>2, <1>3, <1>4 DEF Next

\* The inductive invariant holds in every state of every behaviour.
THEOREM Invariance == Spec => []IInv
  <1>1. Init => IInv
    <2> SUFFICES ASSUME Init PROVE IInv
      OBVIOUS
    <2>1. TypeOK
      BY TypeInit
    <2>2. Numbered
      BY ConstantAssumption DEF Init, Numbered, Ids
    <2>3. Stages
      BY DEF Init, Stages
    <2>4. Conserved
      BY SmallElems DEF Init, Conserved, Accepted, Pending
    <2>5. InOrder
      BY SmallElems DEF Init, InOrder, Ordered, Before
    <2>6. InterruptsOnlyEarlier
      BY DEF Init, InterruptsOnlyEarlier
    <2>7. SessionBound
      BY DEF Init, SessionBound
    <2> QED BY <2>1, <2>2, <2>3, <2>4, <2>5, <2>6, <2>7 DEF IInv
  <1>2. IInv /\ [Next]_vars => IInv'
    <2> SUFFICES ASSUME IInv, [Next]_vars PROVE IInv'
      OBVIOUS
    <2>1. TypeOK /\ PathInv /\ Stages /\ InterruptsOnlyEarlier /\ SessionBound
      BY DEF IInv, PathInv
    <2>2. TypeOK' /\ PathInv' /\ Stages' /\ InterruptsOnlyEarlier' /\ SessionBound'
      BY <2>1, TypeStep, PathKept, StagesKept, InterruptsKept, SessionsKept
    <2> QED BY <2>2 DEF IInv, PathInv
  <1> QED BY <1>1, <1>2, PTL DEF Spec

\* Type correctness: in every state of every behaviour, and a channel never
\* holds more than agentQueueDepth messages.
THEOREM TypeCorrect == Spec => []TypeOK
  <1>1. IInv => TypeOK
    BY DEF IInv
  <1> QED BY <1>1, Invariance, PTL

\* No accepted message is lost, and none is settled twice, between the channel
\* and the answer.
THEOREM Conservation == Spec => []Conserved
  <1>1. IInv => Conserved
    BY DEF IInv
  <1> QED BY <1>1, Invariance, PTL

\* Draining and merging keep the order in which the messages arrived.
THEOREM OrderKept == Spec => []InOrder
  <1>1. IInv => InOrder
    BY DEF IInv
  <1> QED BY <1>1, Invariance, PTL

\* A cancel never reaches a turn that holds a later message than the canceller.
THEOREM CancelsEarlierTurn == Spec => []InterruptsOnlyEarlier
  <1>1. IInv => InterruptsOnlyEarlier
    BY DEF IInv
  <1> QED BY <1>1, Invariance, PTL

\* claude never runs, and a chat never resumes, a conversation of another
\* directory or of before the last reset.
THEOREM SessionsBound == Spec => []SessionBound
  <1>1. IInv => SessionBound
    BY DEF IInv
  <1> QED BY <1>1, Invariance, PTL

\* A turn that is cancelled before its answer is sent gets none: the answer is not
\* sent, and its messages settle without one.
THEOREM Silence == Spec => CancelledTurnIsSilent
  <1> DEFINE A == \A c \in Chats : cancelBy[c] # 0 /\ pc[c] # "post" =>
                    /\ pc'[c] # "post"
                    /\ \A i \in ToSet(turn[c]) : fate'[i] \notin {"ran", "cmd"}
  <1>1. ASSUME IInv, [Next]_vars, NEW c \in Chats, cancelBy[c] # 0, pc[c] # "post",
               NEW i \in ToSet(turn[c])
        PROVE  fate'[i] \notin {"ran", "cmd"}
    <2>1. i \in Ids /\ fate[i] = "queued" /\ msg[i].chat = c
      BY <1>1 DEF IInv, Conserved, Accepted, Pending
    <2>2. CASE fate'[i] = fate[i]
      BY <2>1, <2>2
    <2>3. CASE Stream
      <3>1. fate'[i] \in {fate[i], "routed", "killing", "queued", "dropped"}
        BY <1>1, <2>1, <2>3 DEF Stream, Receive, Enqueue, Supersede, StreamEnd, Reconnect,
           IInv, TypeOK
      <3> QED BY <2>1, <3>1
    <2>4. ASSUME NEW j \in Ids, StopReply(j)
          PROVE  fate'[i] = fate[i]
      BY <1>1, <2>1, <2>4 DEF StopReply, IInv, TypeOK
    <2>5. ASSUME NEW d \in Chats, Worker(d)
          PROVE  fate'[i] \notin {"ran", "cmd"}
      <3>1. ASSUME NEW f, Settle(d, f), d # c
            PROVE  fate'[i] = fate[i]
        <4>1. \A j \in ToSet(turn[d]) : msg[j].chat = d
          BY <1>1 DEF IInv, Conserved, Accepted, Pending
        <4> QED BY <2>1, <3>1, <4>1 DEF Settle
      <3>2. ASSUME NEW f, Settle(c, f)
            PROVE  fate'[i] = f
        BY <1>1, <2>1, <3>2 DEF Settle
      <3>3. CASE Reply(d)
        BY <2>1, <3>1, <3>2, <3>3 DEF Reply
      <3>4. CASE MediaFailReply(d) \/ ReplyEnd(d)
        <4>1. d # c
          BY <1>1, <3>4 DEF MediaFailReply, ReplyEnd, Goto, IInv, Stages
        <4> QED BY <2>1, <3>1, <3>4, <4>1 DEF MediaFailReply, ReplyEnd
      <3>5. CASE RunPrompt(d) \/ RunEnd(d)
        BY <2>1, <3>1, <3>2, <3>5 DEF RunPrompt, RunEnd
      <3>6. \/ fate' = fate \/ Reply(d) \/ MediaFailReply(d) \/ ReplyEnd(d)
            \/ RunPrompt(d) \/ RunEnd(d)
        BY <2>5 DEF Worker, Take, Drain, DrainDone, NextGroup, BatchDone, Download,
           BeginTurn, HandleNew, HandleCd, HandleWsUse, HandleWsSave,
           HandleWsRemove, HandleQuery, EndTurn
      <3> QED BY <2>1, <3>3, <3>4, <3>5, <3>6
    <2>6. CASE UNCHANGED vars
      BY <2>1, <2>6 DEF vars
    <2> QED BY <1>1, <2>2, <2>3, <2>4, <2>5, <2>6 DEF Next
  <1>2. ASSUME IInv, [Next]_vars, NEW c \in Chats, cancelBy[c] # 0, pc[c] # "post"
        PROVE  pc'[c] # "post"
    <2>1. CASE UNCHANGED pc
      BY <1>2, <2>1
    <2>2. CASE Stream
      <3>1. UNCHANGED pc
        BY <2>2 DEF Stream, Receive, Enqueue, Supersede, StreamEnd, Reconnect
      <3> QED BY <2>1, <3>1
    <2>3. ASSUME NEW j \in Ids, StopReply(j)
          PROVE  UNCHANGED pc
      BY <2>3 DEF StopReply
    <2>4. ASSUME NEW d \in Chats, Worker(d)
          PROVE  pc'[c] # "post"
      <3>1. CASE d # c
        <4>1. pc'[c] = pc[c]
          BY <1>2, <2>4, <3>1, WorkerOther DEF IInv
        <4> QED BY <1>2, <4>1
      <3>2. CASE d = c
        BY <1>2, <2>4, <3>2 DEF Worker, Take, Drain, DrainDone, NextGroup, BatchDone, Download,
           MediaFailReply, BeginTurn, RunPrompt, RunEnd, HandleNew, HandleCd, HandleWsUse,
           HandleWsSave, HandleWsRemove, HandleQuery, Reply, ReplyEnd, EndTurn, Goto, IInv,
           TypeOK
      <3> QED BY <3>1, <3>2
    <2>5. CASE UNCHANGED vars
      BY <2>1, <2>5 DEF vars
    <2> QED BY <1>2, <2>1, <2>2, <2>3, <2>4, <2>5 DEF Next
  <1>3. IInv /\ [Next]_vars => [A]_vars
    BY <1>1, <1>2
  <1> QED BY <1>3, Invariance, PTL DEF Spec, CancelledTurnIsSilent

-----------------------------------------------------------------------------
(* agent serve implements the mailbox.                                     *)

\* A step that changes no fate and does not end the program is invisible.
LEMMA InvisibleStep ==
  ASSUME UNCHANGED <<conn, fate>>,
         \A i \in Ids : fate[i] = "queued" => msg'[i] = msg[i]
  PROVE  UNCHANGED Mailbox!boxVars
  <1>1. \A c \in Chats : Accepted(c)' = Accepted(c)
    BY DEF Accepted
  <1>2. Finished' = Finished
    BY DEF Finished
  <1> QED BY <1>1, <1>2 DEF Mailbox!boxVars

\* The message in the callback, and a /stop not yet answered, are not known to
\* the mailbox.
LEMMA NotKnown ==
  ASSUME NEW i \in Ids, fate[i] \in {"routed", "killing"}
  PROVE  i \notin Mailbox!Known
  BY DEF Mailbox!Known, Accepted, Finished, Settled

\* A message that is finished without having been accepted.
LEMMA FinishStep ==
  ASSUME TypeOK, NEW i \in Ids, fate[i] \in {"routed", "killing"}, NEW f \in Settled,
         conn # "exited", UNCHANGED <<conn, msg>>, fate' = [fate EXCEPT ![i] = f]
  PROVE  Mailbox!FinishAtOnce(i)
  <1>1. \A j \in Ids : fate'[j] = IF j = i THEN f ELSE fate[j]
    BY DEF TypeOK
  <1>2. f # "queued" /\ fate[i] # "queued"
    BY DEF Settled
  <1>3. \A c \in Chats : Accepted(c)' = Accepted(c)
    BY <1>1, <1>2 DEF Accepted
  <1>4. Finished' = Finished \cup {i}
    BY <1>1 DEF Finished
  <1> QED BY <1>3, <1>4, NotKnown DEF Mailbox!FinishAtOnce

\* A message sent on the worker's channel is accepted behind the others.
LEMMA AcceptStep ==
  ASSUME IInv, Enqueue, fate' = [fate EXCEPT ![cb] = "queued"]
  PROVE  cb \in Ids /\ msg[cb].chat \in Chats /\ Mailbox!Accept(msg[cb].chat, cb)
  <1> DEFINE c == msg[cb].chat
  <1>1. cb \in Ids /\ cb = sent /\ cb # 0
    BY ConstantAssumption DEF Enqueue, IInv, TypeOK, Numbered, Ids
  <1>2. c \in Chats
    <2>1. msg[cb] \in Messages
      BY <1>1, ConstantAssumption DEF IInv, TypeOK, Ids
    <2> QED BY <2>1 DEF Messages
  <1>3. fate[cb] = "routed"
    BY <1>1 DEF IInv, Numbered
  <1>4. \A j \in Ids : fate'[j] = IF j = cb THEN "queued" ELSE fate[j]
    BY DEF IInv, TypeOK
  <1>5. UNCHANGED <<conn, msg>> /\ conn # "exited"
    BY DEF Enqueue, streamVars
  <1>6. \A d \in Chats : Accepted(d)' = IF d = c THEN Accepted(d) \cup {cb}
                                         ELSE Accepted(d)
    BY <1>1, <1>4, <1>5 DEF Accepted
  <1>7. [d \in Chats |-> Accepted(d)]'
          = [[d \in Chats |-> Accepted(d)] EXCEPT ![c] = @ \cup {cb}]
    BY <1>2, <1>6
  <1>8. Finished' = Finished
    BY <1>3, <1>4 DEF Finished, Settled
  <1>9. \A j \in Accepted(c) : j < cb
    <2>1. ASSUME NEW j \in Ids, fate[j] = "queued"
          PROVE  j < cb
      BY <1>1, <1>3, <2>1 DEF IInv, Numbered, Ids
    <2> QED BY <2>1 DEF Accepted
  <1>10. cb \notin Mailbox!Known
    BY <1>1, <1>3, NotKnown
  <1>11. /\ ~(conn = "exited")
         /\ \A j \in [d \in Chats |-> Accepted(d)][c] : j < cb
         /\ UNCHANGED <<Finished, conn = "exited">>
    BY <1>2, <1>5, <1>8, <1>9
  <1> HIDE DEF c
  <1>12. Mailbox!Accept(c, cb)
    BY <1>7, <1>10, <1>11 DEF Mailbox!Accept
  <1> QED BY <1>1, <1>2, <1>12 DEF c

\* Settling a turn finishes the oldest accepted messages of its chat.
LEMMA SettleOldestStep ==
  ASSUME IInv, NEW c \in Chats, NEW f \in Settled, Settle(c, f), turn[c] # << >>,
         conn # "exited", UNCHANGED <<conn, msg>>
  PROVE  /\ ToSet(turn[c]) \in SUBSET Accepted(c)
         /\ Mailbox!SettleOldest(c, ToSet(turn[c]))
  <1> DEFINE T == ToSet(turn[c])
  <1>1. T \subseteq Accepted(c) /\ T # {}
    <2>1. turn[c] \in Seq(Ids)
      BY DEF IInv, TypeOK
    <2>2. ToSet(turn[c]) = {Head(turn[c])} \cup ToSet(Tail(turn[c]))
      BY <2>1, TailElems
    <2> QED BY <2>2 DEF IInv, Conserved, Pending
  <1>2. \A i \in T, j \in Accepted(c) \ T : i < j
    BY DEF IInv, Conserved, Pending, InOrder, Ordered, Before
  <1>3. \A j \in Ids : fate'[j] = IF j \in T THEN f ELSE fate[j]
    BY DEF Settle
  <1>4. f # "queued"
    BY DEF Settled
  <1>5. \A j \in T : j \in Ids /\ msg[j].chat = c
    BY <1>1 DEF Accepted
  <1>6. \A d \in Chats : Accepted(d)' = IF d = c THEN Accepted(d) \ T ELSE Accepted(d)
    BY <1>3, <1>4, <1>5 DEF Accepted
  <1>7. [d \in Chats |-> Accepted(d)]'
          = [[d \in Chats |-> Accepted(d)] EXCEPT ![c] = @ \ T]
    BY <1>6
  <1>8. Finished' = Finished \cup T
    BY <1>3, <1>5 DEF Finished
  <1>9. [d \in Chats |-> Accepted(d)][c] = Accepted(c)
    OBVIOUS
  <1>10. ~(conn = "exited") /\ UNCHANGED (conn = "exited")
    OBVIOUS
  <1> HIDE DEF T
  <1>11. Mailbox!SettleOldest(c, T)
    BY <1>1, <1>2, <1>7, <1>8, <1>9, <1>10 DEF Mailbox!SettleOldest
  <1> QED BY <1>1, <1>11 DEF T

\* Every step of agent serve is a step of the mailbox, or invisible.
LEMMA MailboxStep ==
  ASSUME IInv, [Next]_vars
  PROVE  Mailbox!Next \/ UNCHANGED Mailbox!boxVars
  <1>1. TypeOK
    BY DEF IInv
  <1>2. CASE UNCHANGED <<conn, fate, msg>>
    BY <1>2, InvisibleStep
  <1>3. ASSUME NEW c \in Chats, NEW k \in Sends, Receive(c, k)
        PROVE  UNCHANGED Mailbox!boxVars
    <2> DEFINE i == sent + 1
    <2>1. i \in Ids /\ fate[i] = "new"
      BY <1>1, <1>3, ConstantAssumption DEF Receive, TypeOK, IInv, Numbered, Ids
    <2>2. PICK f \in {"killing", "routed"} : fate' = [fate EXCEPT ![i] = f]
      BY <1>3 DEF Receive
    <2>3. \A j \in Ids : /\ fate'[j] = IF j = i THEN f ELSE fate[j]
                         /\ j # i => msg'[j] = msg[j]
      BY <1>1, <1>3, <2>2 DEF TypeOK, Receive
    <2> HIDE DEF i
    <2>4. \A c1 \in Chats : Accepted(c1)' = Accepted(c1)
      BY <2>1, <2>3 DEF Accepted
    <2>5. Finished' = Finished
      BY <2>1, <2>3 DEF Finished, Settled
    <2>6. conn' = conn
      BY <1>3 DEF Receive, streamVars
    <2> QED BY <2>4, <2>5, <2>6 DEF Mailbox!boxVars
  <1>4. CASE Enqueue
    <2>1. UNCHANGED <<conn, msg>> /\ conn # "exited"
      BY <1>4 DEF Enqueue, streamVars
    <2>2. CASE fate' = [fate EXCEPT ![cb] = "queued"]
      BY <1>4, <2>2, AcceptStep DEF Mailbox!Next
    <2>3. CASE fate' = [fate EXCEPT ![cb] = "dropped"]
      <3>1. cb \in Ids /\ fate[cb] = "routed"
        BY <1>4, ConstantAssumption DEF Enqueue, IInv, TypeOK, Numbered, Ids
      <3>2. "dropped" \in Settled
        BY DEF Settled
      <3> QED BY <1>1, <2>1, <2>3, <3>1, <3>2, FinishStep DEF Mailbox!Next
    <2> QED BY <1>4, <2>2, <2>3 DEF Enqueue
  <1>5. CASE Supersede \/ Reconnect
    <2>1. UNCHANGED <<fate, msg>> /\ (conn' = "exited") = (conn = "exited")
      BY <1>5 DEF Supersede, Reconnect, inboxVars
    <2> QED BY <2>1 DEF Mailbox!boxVars, Accepted, Finished
  <1>6. CASE StreamEnd
    <2>1. UNCHANGED <<fate, msg>> /\ conn # "exited"
      BY <1>6 DEF StreamEnd, inboxVars
    <2>2. UNCHANGED <<[c \in Chats |-> Accepted(c)], Finished>>
      BY <2>1 DEF Accepted, Finished
    <2>3. CASE conn' = "exited"
      BY <2>2, <2>3 DEF Mailbox!Next, Mailbox!Close
    <2>4. CASE conn' # "exited"
      BY <2>1, <2>2, <2>4 DEF Mailbox!boxVars
    <2> QED BY <2>3, <2>4
  <1>7. ASSUME NEW i \in Ids, StopReply(i)
        PROVE  Mailbox!Next
    <2>1. PICK f \in {"cmd", "mute"} : fate' = [fate EXCEPT ![i] = f]
      BY <1>7 DEF StopReply
    <2>2. f \in Settled /\ fate[i] = "killing" /\ conn # "exited"
          /\ UNCHANGED <<conn, msg>>
      BY <1>7 DEF StopReply, Settled, streamVars, inboxVars
    <2> QED BY <1>1, <2>1, <2>2, FinishStep DEF Mailbox!Next
  <1>8. ASSUME NEW c \in Chats, Worker(c)
        PROVE  Mailbox!Next \/ UNCHANGED Mailbox!boxVars
    <2>1. UNCHANGED <<conn, msg>>
      BY <1>8 DEF Worker, Take, Drain, DrainDone, NextGroup, BatchDone, Download,
         MediaFailReply, BeginTurn, RunPrompt, RunEnd, HandleNew, HandleCd,
         HandleWsUse, HandleWsSave, HandleWsRemove, HandleQuery, Reply, ReplyEnd, EndTurn,
         streamVars, inboxVars
    <2>2. \/ fate' = fate
          \/ /\ \E f \in Settled : Settle(c, f)
             /\ conn # "exited"
             /\ pc[c] \in {"failed", "handle", "run", "reply", "post"}
      BY <1>8 DEF Worker, Take, Drain, DrainDone, NextGroup, BatchDone, Download,
         MediaFailReply, BeginTurn, RunPrompt, RunEnd, HandleNew, HandleCd,
         HandleWsUse, HandleWsSave, HandleWsRemove, HandleQuery, Reply, ReplyEnd, EndTurn,
         Goto, Settled
    <2>3. CASE fate' = fate
      BY <1>2, <2>1, <2>3
    <2>4. ASSUME NEW f \in Settled, Settle(c, f), conn # "exited",
                 pc[c] \in {"failed", "handle", "run", "reply", "post"}
          PROVE  Mailbox!Next
      <3>1. turn[c] # << >>
        BY <2>4 DEF IInv, Stages
      <3>2. [d \in Chats |-> Accepted(d)][c] = Accepted(c)
        OBVIOUS
      <3> QED BY <2>1, <2>4, <3>1, <3>2, SettleOldestStep DEF Mailbox!Next
    <2> QED BY <2>2, <2>3, <2>4
  <1>9. CASE UNCHANGED vars
    BY <1>2, <1>9 DEF vars, streamVars, inboxVars
  <1> QED BY <1>3, <1>4, <1>5, <1>6, <1>7, <1>8, <1>9 DEF Next, Stream

\* agent serve implements the mailbox: each chat's messages are settled once,
\* oldest first, and nothing is settled after the program has ended.
THEOREM Refinement == Spec => MailboxSpec
  <1>1. Init => Mailbox!Init
    <2> SUFFICES ASSUME Init PROVE Mailbox!Init
      OBVIOUS
    <2>1. \A c \in Chats : Accepted(c) = {}
      BY DEF Init, Accepted
    <2>2. Finished = {}
      BY DEF Init, Finished, Settled
    <2> QED BY <2>1, <2>2 DEF Init, Mailbox!Init
  <1>2. IInv /\ [Next]_vars => [Mailbox!Next]_(Mailbox!boxVars)
    BY MailboxStep
  <1> QED BY <1>1, <1>2, Invariance, PTL DEF Spec, MailboxSpec, Mailbox!Spec

=============================================================================
