-------------------------- MODULE MadeInStepsProofs --------------------------
(***************************************************************************)
(* Proofs about MadeInSteps, for any commands, people, rooms and outcomes. *)
(***************************************************************************)
EXTENDS MadeInSteps, DataInduction, FiniteSetTheorems, SequenceTheorems, TLAPS
\* A sequence that begins with s and goes on with t is s followed by t.
LEMMA Joins ==
  ASSUME NEW S, NEW s \in Seq(S), NEW t \in Seq(S), NEW u \in Seq(S),
         Len(u) = Len(s) + Len(t),
         \A i \in 1..Len(s) : u[i] = s[i],
         \A i \in 1..Len(t) : u[Len(s) + i] = t[i]
  PROVE  s \o t = u
<1>1. /\ s \o t \in Seq(S) /\ Len(s \o t) = Len(s) + Len(t)
      /\ \A i \in 1..Len(s) + Len(t) : (s \o t)[i] = IF i <= Len(s) THEN s[i] ELSE t[i - Len(s)]
  BY ConcatProperties
<1>2. \A i \in 1..Len(u) : (s \o t)[i] = u[i]
  <2> TAKE i \in 1..Len(u)
  <2>1. CASE i <= Len(s)
    BY <2>1, <1>1
  <2>2. CASE ~(i <= Len(s))
    <3> DEFINE k == i - Len(s)
    <3>1. k \in 1..Len(t) /\ Len(s) + k = i
      BY <2>2
    <3> HIDE DEF k
    <3>2. (s \o t)[i] = t[i - Len(s)]
      BY <1>1, <2>2
    <3>3. i - Len(s) = k
      BY DEF k
    <3> QED BY <3>1, <3>2, <3>3
  <2> QED BY <2>1, <2>2
<1> QED BY <1>1, <1>2, SeqEqual

\* Short lists joined, as the stages of the commands are.
LEMMA ShortJoins ==
  /\ \A a, b : <<a>> \o <<b>> = <<a, b>>
  /\ \A a, b, c : <<a, b>> \o <<c>> = <<a, b, c>>
  /\ \A a, b, c, d : <<a>> \o <<b, c, d>> = <<a, b, c, d>>
  /\ \A a, b, c, d, e : <<a, b, c, d>> \o <<e>> = <<a, b, c, d, e>>
  /\ \A a, b, c, d, e, f, g, h : <<a, b, c>> \o <<d, e, f, g, h>> = <<a, b, c, d, e, f, g, h>>
  /\ \A a, b, c, d, e : <<a, b, c>> \o <<d, e>> = <<a, b, c, d, e>>
  /\ \A a, b, c, d : <<a, b, c>> \o <<d>> = <<a, b, c, d>>
  /\ \A a, b, c, d, e, f, g : <<a, b, c>> \o <<d, e, f, g>> = <<a, b, c, d, e, f, g>>
  /\ \A a, b, c, d : <<a, b>> \o <<c, d>> = <<a, b, c, d>>
<1>1. ASSUME NEW a, NEW b
      PROVE  <<a>> \o <<b>> = <<a, b>>
  <2> DEFINE s == <<a>>
             t == <<b>>
             u == <<a, b>>
             S == {a, b}
  <2>1. /\ s \in Seq(S) /\ t \in Seq(S) /\ u \in Seq(S)
        /\ Len(s) = 1 /\ Len(t) = 1 /\ Len(u) = 2
        /\ u[1] = s[1] /\ u[2] = t[1]
    OBVIOUS
  <2> HIDE DEF s, t, u, S
  <2>2. /\ Len(u) = Len(s) + Len(t)
        /\ \A i \in 1..Len(s) : u[i] = s[i]
        /\ \A i \in 1..Len(t) : u[Len(s) + i] = t[i]
    BY <2>1
  <2>3. s \o t = u
    BY <2>1, <2>2, Joins
  <2> QED BY <2>3 DEF s, t, u
<1>2. ASSUME NEW a, NEW b, NEW c
      PROVE  <<a, b>> \o <<c>> = <<a, b, c>>
  <2> DEFINE s == <<a, b>>
             t == <<c>>
             u == <<a, b, c>>
             S == {a, b, c}
  <2>1. s \in Seq(S) /\ t \in Seq(S) /\ u \in Seq(S)
    OBVIOUS
  <2>2. /\ Len(u) = Len(s) + Len(t)
        /\ \A i \in 1..Len(s) : u[i] = s[i]
        /\ \A i \in 1..Len(t) : u[Len(s) + i] = t[i]
    OBVIOUS
  <2> HIDE DEF s, t, u, S
  <2>3. s \o t = u
    BY <2>1, <2>2, Joins
  <2> QED BY <2>3 DEF s, t, u
<1>3. ASSUME NEW a, NEW b, NEW c, NEW d
      PROVE  <<a>> \o <<b, c, d>> = <<a, b, c, d>>
  <2> DEFINE s == <<a>>
             t == <<b, c, d>>
             u == <<a, b, c, d>>
             S == {a, b, c, d}
  <2>1. s \in Seq(S) /\ t \in Seq(S) /\ u \in Seq(S)
    OBVIOUS
  <2>2. /\ Len(u) = Len(s) + Len(t)
        /\ \A i \in 1..Len(s) : u[i] = s[i]
        /\ \A i \in 1..Len(t) : u[Len(s) + i] = t[i]
    OBVIOUS
  <2> HIDE DEF s, t, u, S
  <2>3. s \o t = u
    BY <2>1, <2>2, Joins
  <2> QED BY <2>3 DEF s, t, u
<1>4. ASSUME NEW a, NEW b, NEW c, NEW d, NEW e
      PROVE  <<a, b, c, d>> \o <<e>> = <<a, b, c, d, e>>
  <2> DEFINE s == <<a, b, c, d>>
             t == <<e>>
             u == <<a, b, c, d, e>>
             S == {a, b, c, d, e}
  <2>1. s \in Seq(S) /\ t \in Seq(S) /\ u \in Seq(S)
    OBVIOUS
  <2>2. /\ Len(u) = Len(s) + Len(t)
        /\ \A i \in 1..Len(s) : u[i] = s[i]
        /\ \A i \in 1..Len(t) : u[Len(s) + i] = t[i]
    OBVIOUS
  <2> HIDE DEF s, t, u, S
  <2>3. s \o t = u
    BY <2>1, <2>2, Joins
  <2> QED BY <2>3 DEF s, t, u
<1>5. ASSUME NEW a, NEW b, NEW c, NEW d, NEW e, NEW f, NEW g, NEW h
      PROVE  <<a, b, c>> \o <<d, e, f, g, h>> = <<a, b, c, d, e, f, g, h>>
  <2> DEFINE s == <<a, b, c>>
             t == <<d, e, f, g, h>>
             u == <<a, b, c, d, e, f, g, h>>
             S == {a, b, c, d, e, f, g, h}
  <2>1. s \in Seq(S) /\ t \in Seq(S) /\ u \in Seq(S)
    OBVIOUS
  <2>2. /\ Len(u) = Len(s) + Len(t)
        /\ \A i \in 1..Len(s) : u[i] = s[i]
        /\ \A i \in 1..Len(t) : u[Len(s) + i] = t[i]
    OBVIOUS
  <2> HIDE DEF s, t, u, S
  <2>3. s \o t = u
    BY <2>1, <2>2, Joins
  <2> QED BY <2>3 DEF s, t, u
<1>6. ASSUME NEW a, NEW b, NEW c, NEW d, NEW e
      PROVE  <<a, b, c>> \o <<d, e>> = <<a, b, c, d, e>>
  <2> DEFINE s == <<a, b, c>>
             t == <<d, e>>
             u == <<a, b, c, d, e>>
             S == {a, b, c, d, e}
  <2>1. s \in Seq(S) /\ t \in Seq(S) /\ u \in Seq(S)
    OBVIOUS
  <2>2. /\ Len(u) = Len(s) + Len(t)
        /\ \A i \in 1..Len(s) : u[i] = s[i]
        /\ \A i \in 1..Len(t) : u[Len(s) + i] = t[i]
    OBVIOUS
  <2> HIDE DEF s, t, u, S
  <2>3. s \o t = u
    BY <2>1, <2>2, Joins
  <2> QED BY <2>3 DEF s, t, u
<1>7. ASSUME NEW a, NEW b, NEW c, NEW d
      PROVE  <<a, b, c>> \o <<d>> = <<a, b, c, d>>
  <2> DEFINE s == <<a, b, c>>
             t == <<d>>
             u == <<a, b, c, d>>
             S == {a, b, c, d}
  <2>1. s \in Seq(S) /\ t \in Seq(S) /\ u \in Seq(S)
    OBVIOUS
  <2>2. /\ Len(u) = Len(s) + Len(t)
        /\ \A i \in 1..Len(s) : u[i] = s[i]
        /\ \A i \in 1..Len(t) : u[Len(s) + i] = t[i]
    OBVIOUS
  <2> HIDE DEF s, t, u, S
  <2>3. s \o t = u
    BY <2>1, <2>2, Joins
  <2> QED BY <2>3 DEF s, t, u
<1>8. ASSUME NEW a, NEW b, NEW c, NEW d, NEW e, NEW f, NEW g
      PROVE  <<a, b, c>> \o <<d, e, f, g>> = <<a, b, c, d, e, f, g>>
  <2> DEFINE s == <<a, b, c>>
             t == <<d, e, f, g>>
             u == <<a, b, c, d, e, f, g>>
             S == {a, b, c, d, e, f, g}
  <2>1. s \in Seq(S) /\ t \in Seq(S) /\ u \in Seq(S)
    OBVIOUS
  <2>2. /\ Len(u) = Len(s) + Len(t)
        /\ \A i \in 1..Len(s) : u[i] = s[i]
        /\ \A i \in 1..Len(t) : u[Len(s) + i] = t[i]
    OBVIOUS
  <2> HIDE DEF s, t, u, S
  <2>3. s \o t = u
    BY <2>1, <2>2, Joins
  <2> QED BY <2>3 DEF s, t, u
<1>9. ASSUME NEW a, NEW b, NEW c, NEW d
      PROVE  <<a, b>> \o <<c, d>> = <<a, b, c, d>>
  <2> DEFINE s == <<a, b>>
             t == <<c, d>>
             u == <<a, b, c, d>>
             S == {a, b, c, d}
  <2>1. s \in Seq(S) /\ t \in Seq(S) /\ u \in Seq(S)
    OBVIOUS
  <2>2. /\ Len(u) = Len(s) + Len(t)
        /\ \A i \in 1..Len(s) : u[i] = s[i]
        /\ \A i \in 1..Len(t) : u[Len(s) + i] = t[i]
    OBVIOUS
  <2> HIDE DEF s, t, u, S
  <2>3. s \o t = u
    BY <2>1, <2>2, Joins
  <2> QED BY <2>3 DEF s, t, u
<1> QED BY <1>1, <1>2, <1>3, <1>4, <1>5, <1>6, <1>7, <1>8, <1>9

NextOn(s, x) ==
  LET i == CHOOSE j \in DOMAIN s : s[j] = x
  IN IF i = Len(s) THEN "over" ELSE s[i + 1]

Distinct(s) == \A i, j \in DOMAIN s : s[i] = s[j] => i = j

\* The stages of a command.
StageSet ==
  CASE cmd.kind = "mail_send" -> {"scopes", "compose", "draft", "send"}
    [] cmd.kind \in {"mail_reply", "mail_reply_all", "mail_forward"} ->
         {"scopes", "original", "compose", "draft", "send"}
    [] cmd.kind \in {"mail_trash", "mail_draft_delete"} -> {"scopes", "each"}
    [] cmd.kind = "calendar_create" ->
         {"scopes", "primary", "event"}
         \cup (IF cmd.add # << >> THEN {"resolve_add", "invite"} ELSE {})
         \cup (IF cmd.room # << >> THEN {"room_scopes", "room", "busy", "invite"} ELSE {})
    [] cmd.kind = "calendar_rsvp" -> {"scopes", "primary", "post"}
    [] cmd.kind = "tasks_create" -> {"post"} \cup (IF cmd.add # << >> THEN {"resolve_add"} ELSE {})
    [] cmd.kind \in {"tasks_assign", "tasks_follow"} -> {"resolve_add", "add"}
    [] cmd.kind \in {"tasks_unassign", "tasks_unfollow"} -> {"resolve_remove", "remove"}
    [] cmd.kind = "tasks_tasklist_members" ->
         (IF cmd.add # << >> THEN {"resolve_add", "add"} ELSE {})
         \cup (IF cmd.remove # << >> THEN {"resolve_remove", "remove"} ELSE {})
    [] cmd.kind = "docs_add_mention" ->
         {"document", "post"} \cup (IF cmd.add # << >> THEN {"mention"} ELSE {})
    [] cmd.kind \in {"im_send", "board_create_nodes"} -> {"scopes", "post"}
    [] cmd.kind = "im_send_file" -> {"scopes", "upload", "post"}
    [] cmd.kind = "board_delete_nodes" -> {"scopes", "batch"}

AfterScopes ==
  CASE cmd.kind = "mail_send" -> "compose"
    [] cmd.kind \in {"mail_reply", "mail_reply_all", "mail_forward"} -> "original"
    [] cmd.kind \in {"mail_trash", "mail_draft_delete"} -> "each"
    [] cmd.kind \in {"calendar_create", "calendar_rsvp"} -> "primary"
    [] cmd.kind \in {"im_send", "board_create_nodes"} -> "post"
    [] cmd.kind = "im_send_file" -> "upload"
    [] cmd.kind = "board_delete_nodes" -> "batch"

\* What comes after a stage.
NextOf(s) ==
  CASE s = "scopes" -> AfterScopes
    [] s = "original" -> "compose"
    [] s = "compose" -> "draft"
    [] s = "draft" -> "send"
    [] s = "primary" -> IF cmd.kind = "calendar_create" THEN "event" ELSE "post"
    [] s = "event" -> IF cmd.add # << >> THEN "resolve_add"
                      ELSE IF cmd.room # << >> THEN "room_scopes" ELSE "over"
    [] s = "resolve_add" -> IF cmd.kind = "tasks_create" THEN "post"
                            ELSE IF cmd.kind # "calendar_create" THEN "add"
                            ELSE IF cmd.room # << >> THEN "room_scopes" ELSE "invite"
    [] s = "room_scopes" -> "room"
    [] s = "room" -> "busy"
    [] s = "busy" -> "invite"
    [] s = "add" -> IF cmd.kind = "tasks_tasklist_members" /\ cmd.remove # << >>
                      THEN "resolve_remove" ELSE "over"
    [] s = "resolve_remove" -> "remove"
    [] s = "document" -> IF cmd.add # << >> THEN "mention" ELSE "post"
    [] s \in {"mention", "upload"} -> "post"
    [] s \in {"send", "invite", "remove", "each", "batch", "post"} -> "over"

FirstStage ==
  CASE cmd.kind = "tasks_create" -> IF cmd.add # << >> THEN "resolve_add" ELSE "post"
    [] cmd.kind \in {"tasks_assign", "tasks_follow"} -> "resolve_add"
    [] cmd.kind \in {"tasks_unassign", "tasks_unfollow"} -> "resolve_remove"
    [] cmd.kind = "tasks_tasklist_members" ->
         IF cmd.add # << >> THEN "resolve_add" ELSE "resolve_remove"
    [] cmd.kind = "docs_add_mention" -> "document"
    [] OTHER -> "scopes"

\* q is the list of the stages of the command, in the order of NextOf.
Walk(q) ==
  /\ IsSeq(q) /\ q # << >> /\ Distinct(q)
  /\ ToSet(q) = StageSet /\ q[1] = FirstStage
  /\ \A k \in DOMAIN q : NextOf(q[k]) = IF k = Len(q) THEN "over" ELSE q[k + 1]

\* Every command goes through its stages one after the other.
LEMMA StagesFacts ==
  ASSUME WellFormed(cmd)
  PROVE  Walk(Stages)
<1>0. \A S : \A s \in Seq(S) : s \o << >> = s /\ << >> \o s = s
  BY ConcatEmptySeq
<1>1. CASE cmd.kind = "mail_send"
  <2>1. Walk(<<"scopes", "compose", "draft", "send">>)
    BY <1>1
    DEF Walk, Distinct, IsSeq, ToSet, NextOf, AfterScopes, FirstStage, StageSet
  <2>2. Stages = <<"scopes", "compose", "draft", "send">>
    BY <1>1 DEF Stages, MailSend
  <2> QED BY <2>1, <2>2
<1>2. CASE cmd.kind \in {"mail_reply", "mail_reply_all", "mail_forward"}
  <2>1. Walk(<<"scopes", "original", "compose", "draft", "send">>)
    BY <1>2
    DEF Walk, Distinct, IsSeq, ToSet, NextOf, AfterScopes, FirstStage, StageSet
  <2>2. Stages = <<"scopes", "original", "compose", "draft", "send">>
    BY <1>2 DEF Stages, MailReply, MailForward
  <2> QED BY <2>1, <2>2
<1>3. CASE cmd.kind \in {"mail_trash", "mail_draft_delete"}
  <2>1. Walk(<<"scopes", "each">>)
    BY <1>3
    DEF Walk, Distinct, IsSeq, ToSet, NextOf, AfterScopes, FirstStage, StageSet
  <2>2. Stages = <<"scopes", "each">>
    BY <1>3 DEF Stages, MailTrash, DraftDelete
  <2> QED BY <2>1, <2>2
<1>4. CASE cmd.kind = "calendar_create" /\ cmd.add # << >> /\ cmd.room # << >>
  <2>a. <<"resolve_add">> \o <<"room_scopes", "room", "busy">> =
          <<"resolve_add", "room_scopes", "room", "busy">>
    BY ShortJoins
  <2>b. <<"resolve_add", "room_scopes", "room", "busy">> \o <<"invite">> =
          <<"resolve_add", "room_scopes", "room", "busy", "invite">>
    BY ShortJoins
  <2>c. <<"scopes", "primary", "event">>
        \o <<"resolve_add", "room_scopes", "room", "busy", "invite">> =
          <<"scopes", "primary", "event", "resolve_add", "room_scopes", "room", "busy",
            "invite">>
    BY ShortJoins
  <2>1. Walk(<<"scopes", "primary", "event", "resolve_add", "room_scopes", "room", "busy",
               "invite">>)
    BY <1>4
    DEF Walk, Distinct, IsSeq, ToSet, NextOf, AfterScopes, FirstStage, StageSet
  <2>2. Stages = <<"scopes", "primary", "event", "resolve_add", "room_scopes", "room", "busy",
                   "invite">>
    BY <1>4, <2>a, <2>b, <2>c DEF Stages, CalendarCreate, If
  <2> QED BY <2>1, <2>2
<1>5. CASE cmd.kind = "calendar_create" /\ cmd.add # << >> /\ cmd.room = << >>
  <2>a. <<"resolve_add">> \o << >> = <<"resolve_add">>
    BY ShortJoins, <1>0
  <2>b. <<"resolve_add">> \o <<"invite">> = <<"resolve_add", "invite">>
    BY ShortJoins
  <2>c. <<"scopes", "primary", "event">> \o <<"resolve_add", "invite">> =
          <<"scopes", "primary", "event", "resolve_add", "invite">>
    BY ShortJoins
  <2>1. Walk(<<"scopes", "primary", "event", "resolve_add", "invite">>)
    BY <1>5
    DEF Walk, Distinct, IsSeq, ToSet, NextOf, AfterScopes, FirstStage, StageSet
  <2>2. Stages = <<"scopes", "primary", "event", "resolve_add", "invite">>
    BY <1>5, <2>a, <2>b, <2>c DEF Stages, CalendarCreate, If
  <2> QED BY <2>1, <2>2
<1>6. CASE cmd.kind = "calendar_create" /\ cmd.add = << >> /\ cmd.room # << >>
  <2>a. << >> \o <<"room_scopes", "room", "busy">> = <<"room_scopes", "room", "busy">>
    BY ShortJoins, <1>0
  <2>b. <<"room_scopes", "room", "busy">> \o <<"invite">> =
          <<"room_scopes", "room", "busy", "invite">>
    BY ShortJoins
  <2>c. <<"scopes", "primary", "event">> \o <<"room_scopes", "room", "busy", "invite">> =
          <<"scopes", "primary", "event", "room_scopes", "room", "busy", "invite">>
    BY ShortJoins
  <2>1. Walk(<<"scopes", "primary", "event", "room_scopes", "room", "busy", "invite">>)
    BY <1>6
    DEF Walk, Distinct, IsSeq, ToSet, NextOf, AfterScopes, FirstStage, StageSet
  <2>2. Stages = <<"scopes", "primary", "event", "room_scopes", "room", "busy", "invite">>
    BY <1>6, <2>a, <2>b, <2>c DEF Stages, CalendarCreate, If
  <2> QED BY <2>1, <2>2
<1>7. CASE cmd.kind = "calendar_create" /\ cmd.add = << >> /\ cmd.room = << >>
  <2>1. Walk(<<"scopes", "primary", "event">>)
    BY <1>7
    DEF Walk, Distinct, IsSeq, ToSet, NextOf, AfterScopes, FirstStage, StageSet
  <2>2. Stages = <<"scopes", "primary", "event">>
    BY <1>7, ShortJoins, <1>0 DEF Stages, CalendarCreate, If
  <2> QED BY <2>1, <2>2
<1>8. CASE cmd.kind = "calendar_rsvp"
  <2>1. Walk(<<"scopes", "primary", "post">>)
    BY <1>8
    DEF Walk, Distinct, IsSeq, ToSet, NextOf, AfterScopes, FirstStage, StageSet
  <2>2. Stages = <<"scopes", "primary", "post">>
    BY <1>8 DEF Stages, Rsvp
  <2> QED BY <2>1, <2>2
<1>9. CASE cmd.kind = "tasks_create" /\ cmd.add # << >>
  <2>1. Walk(<<"resolve_add", "post">>)
    BY <1>9
    DEF Walk, Distinct, IsSeq, ToSet, NextOf, AfterScopes, FirstStage, StageSet
  <2>2. Stages = <<"resolve_add", "post">>
    BY <1>9, ShortJoins, <1>0 DEF Stages, TasksCreate, If
  <2> QED BY <2>1, <2>2
<1>10. CASE cmd.kind = "tasks_create" /\ cmd.add = << >>
  <2>1. Walk(<<"post">>)
    BY <1>10
    DEF Walk, Distinct, IsSeq, ToSet, NextOf, AfterScopes, FirstStage, StageSet
  <2>2. Stages = <<"post">>
    BY <1>10, ShortJoins, <1>0 DEF Stages, TasksCreate, If
  <2> QED BY <2>1, <2>2
<1>11. CASE cmd.kind \in {"tasks_assign", "tasks_follow"}
  <2>1. Walk(<<"resolve_add", "add">>)
    BY <1>11
    DEF Walk, Distinct, IsSeq, ToSet, NextOf, AfterScopes, FirstStage, StageSet
  <2>2. Stages = <<"resolve_add", "add">>
    BY <1>11 DEF Stages, Assign, Follow
  <2> QED BY <2>1, <2>2
<1>12. CASE cmd.kind \in {"tasks_unassign", "tasks_unfollow"}
  <2>1. Walk(<<"resolve_remove", "remove">>)
    BY <1>12
    DEF Walk, Distinct, IsSeq, ToSet, NextOf, AfterScopes, FirstStage, StageSet
  <2>2. Stages = <<"resolve_remove", "remove">>
    BY <1>12 DEF Stages, Unassign, Unfollow
  <2> QED BY <2>1, <2>2
<1>13. CASE cmd.kind = "tasks_tasklist_members" /\ cmd.add # << >> /\ cmd.remove # << >>
  <2>1. Walk(<<"resolve_add", "add", "resolve_remove", "remove">>)
    BY <1>13
    DEF Walk, Distinct, IsSeq, ToSet, NextOf, AfterScopes, FirstStage, StageSet
  <2>2. Stages = <<"resolve_add", "add", "resolve_remove", "remove">>
    BY <1>13, ShortJoins, <1>0 DEF Stages, TasklistMembers, If
  <2> QED BY <2>1, <2>2
<1>14. CASE cmd.kind = "tasks_tasklist_members" /\ cmd.add # << >> /\ cmd.remove = << >>
  <2>1. Walk(<<"resolve_add", "add">>)
    BY <1>14
    DEF Walk, Distinct, IsSeq, ToSet, NextOf, AfterScopes, FirstStage, StageSet
  <2>2. Stages = <<"resolve_add", "add">>
    BY <1>14, ShortJoins, <1>0 DEF Stages, TasklistMembers, If
  <2> QED BY <2>1, <2>2
<1>15. CASE cmd.kind = "tasks_tasklist_members" /\ cmd.add = << >> /\ cmd.remove # << >>
  <2>1. Walk(<<"resolve_remove", "remove">>)
    BY <1>15
    DEF Walk, Distinct, IsSeq, ToSet, NextOf, AfterScopes, FirstStage, StageSet
  <2>2. Stages = <<"resolve_remove", "remove">>
    BY <1>15, ShortJoins, <1>0 DEF Stages, TasklistMembers, If
  <2> QED BY <2>1, <2>2
<1>16. CASE cmd.kind = "docs_add_mention" /\ cmd.add # << >>
  <2>a. <<"document">> \o <<"mention">> = <<"document", "mention">>
    BY ShortJoins
  <2>b. <<"document", "mention">> \o <<"post">> = <<"document", "mention", "post">>
    BY ShortJoins
  <2>1. Walk(<<"document", "mention", "post">>)
    BY <1>16
    DEF Walk, Distinct, IsSeq, ToSet, NextOf, AfterScopes, FirstStage, StageSet
  <2>2. Stages = <<"document", "mention", "post">>
    BY <1>16, <2>a, <2>b DEF Stages, AddMention, If
  <2> QED BY <2>1, <2>2
<1>17. CASE cmd.kind = "docs_add_mention" /\ cmd.add = << >>
  <2>1. Walk(<<"document", "post">>)
    BY <1>17
    DEF Walk, Distinct, IsSeq, ToSet, NextOf, AfterScopes, FirstStage, StageSet
  <2>2. Stages = <<"document", "post">>
    BY <1>17, ShortJoins, <1>0 DEF Stages, AddMention, If
  <2> QED BY <2>1, <2>2
<1>18. CASE cmd.kind \in {"im_send", "board_create_nodes"}
  <2>1. Walk(<<"scopes", "post">>)
    BY <1>18
    DEF Walk, Distinct, IsSeq, ToSet, NextOf, AfterScopes, FirstStage, StageSet
  <2>2. Stages = <<"scopes", "post">>
    BY <1>18 DEF Stages, ImSend, CreateNodes
  <2> QED BY <2>1, <2>2
<1>19. CASE cmd.kind = "im_send_file"
  <2>1. Walk(<<"scopes", "upload", "post">>)
    BY <1>19
    DEF Walk, Distinct, IsSeq, ToSet, NextOf, AfterScopes, FirstStage, StageSet
  <2>2. Stages = <<"scopes", "upload", "post">>
    BY <1>19 DEF Stages, ImSendFile
  <2> QED BY <2>1, <2>2
<1>20. CASE cmd.kind = "board_delete_nodes"
  <2>1. Walk(<<"scopes", "batch">>)
    BY <1>20
    DEF Walk, Distinct, IsSeq, ToSet, NextOf, AfterScopes, FirstStage, StageSet
  <2>2. Stages = <<"scopes", "batch">>
    BY <1>20 DEF Stages, DeleteNodes
  <2> QED BY <2>1, <2>2
<1> QED BY <1>1, <1>2, <1>3, <1>4, <1>5, <1>6, <1>7, <1>8, <1>9, <1>10, <1>11, <1>12, <1>13,
           <1>14, <1>15, <1>16, <1>17, <1>18, <1>19, <1>20 DEF WellFormed, Kinds

-----------------------------------------------------------------------------
(* Stages.                                                                 *)

\* Which commands have a stage.
LEMMA StageKinds ==
  ASSUME WellFormed(cmd), NEW s \in StageSet
  PROVE  /\ s # "over"
         /\ s = "original" => cmd.kind \in {"mail_reply", "mail_reply_all", "mail_forward"}
         /\ s \in {"compose", "draft", "send"} =>
              cmd.kind \in {"mail_send", "mail_reply", "mail_reply_all", "mail_forward"}
         /\ s = "each" => cmd.kind \in {"mail_trash", "mail_draft_delete"}
         /\ s = "batch" => cmd.kind = "board_delete_nodes"
         /\ s \in {"event", "room_scopes", "room", "busy", "invite"} =>
              cmd.kind = "calendar_create"
         /\ s \in {"room_scopes", "room", "busy"} => cmd.room # << >>
         /\ s \in {"resolve_add", "add", "mention"} => cmd.add # << >>
         /\ s \in {"resolve_remove", "remove"} => cmd.remove # << >>
         /\ s = "resolve_add" => cmd.kind \in {"calendar_create", "tasks_create", "tasks_assign",
                                               "tasks_follow", "tasks_tasklist_members"}
         /\ s = "add" => cmd.kind \in {"tasks_assign", "tasks_follow", "tasks_tasklist_members"}
         /\ s \in {"resolve_remove", "remove"} =>
              cmd.kind \in {"tasks_unassign", "tasks_unfollow", "tasks_tasklist_members"}
         /\ s \in {"mention", "document"} => cmd.kind = "docs_add_mention"
         /\ s \in {"each", "batch"} => cmd.ids # << >>
         /\ s = "post" => cmd.kind \in {"calendar_rsvp", "tasks_create", "docs_add_mention",
                                        "im_send", "im_send_file", "board_create_nodes"}
         /\ s \in {"primary", "upload"} =>
              cmd.kind \in {"calendar_create", "calendar_rsvp", "im_send_file"}
  BY DEF WellFormed, Kinds, StageSet

\* Only a draft is followed by sending it, and only scopes by the deletions.
LEMMA StageOrder ==
  ASSUME WellFormed(cmd), NEW s \in StageSet
  PROVE  /\ s \in {"scopes", "original", "compose", "draft", "send", "each", "batch", "primary",
                  "event", "resolve_add", "room_scopes", "room", "busy", "invite", "add",
                  "resolve_remove", "remove", "document", "mention", "upload", "post"}
         /\ s = "scopes" => AfterScopes \in {"compose", "original", "each", "primary", "post",
                                            "upload", "batch"}
         /\ NextOf(s) = "send" => s = "draft"
         /\ NextOf(s) = "draft" => s = "compose"
         /\ NextOf(s) = "compose" => s = "original" \/ cmd.kind = "mail_send"
         /\ NextOf(s) \notin {"scopes", "document"}
         /\ NextOf(s) \in {"each", "batch"} => s = "scopes"
<1>1. s \in {"scopes", "original", "compose", "draft", "send", "each", "batch", "primary",
            "event", "resolve_add", "room_scopes", "room", "busy", "invite", "add",
            "resolve_remove", "remove", "document", "mention", "upload", "post"}
  BY DEF WellFormed, Kinds, StageSet
<1>2. s = "scopes" => AfterScopes \in {"compose", "original", "each", "primary", "post",
                                      "upload", "batch"}
  BY DEF WellFormed, Kinds, StageSet, AfterScopes
<1>3. AfterScopes = "compose" /\ s = "scopes" => cmd.kind = "mail_send"
  BY DEF WellFormed, Kinds, StageSet, AfterScopes
<1> QED BY <1>1, <1>2, <1>3 DEF NextOf

\* What comes after an element of a list without repetitions.
LEMMA NextIs ==
  ASSUME NEW q, Distinct(q), NEW k \in DOMAIN q
  PROVE  NextOn(q, q[k]) = IF k = Len(q) THEN "over" ELSE q[k + 1]
<1>1. (CHOOSE j \in DOMAIN q : q[j] = q[k]) = k
  BY DEF Distinct
<1> QED BY <1>1 DEF NextOn

\* The end is no stage, and after a stage comes another one of the same command.
LEMMA AfterStage ==
  ASSUME WellFormed(cmd), NEW s \in StageSet
  PROVE  /\ NextOf(s) \in StageSet \cup {"over"}
         /\ NextOn(Stages, s) = NextOf(s)
<1>1. Walk(Stages)
  BY StagesFacts
<1> DEFINE q == Stages
<1> HIDE DEF q
<1>2. Walk(q)
  BY <1>1 DEF q
<1>3. Len(q) \in Nat /\ DOMAIN q = 1..Len(q)
  BY <1>2 DEF Walk, IsSeq
<1>5. PICK k \in DOMAIN q : q[k] = s
  BY <1>2 DEF Walk, ToSet
<1>6. NextOn(q, s) = IF k = Len(q) THEN "over" ELSE q[k + 1]
  BY <1>2, <1>3, <1>5, NextIs DEF Walk
<1>7. NextOf(s) = IF k = Len(q) THEN "over" ELSE q[k + 1]
  BY <1>2, <1>5 DEF Walk
<1>8. k # Len(q) => k + 1 \in DOMAIN q
  BY <1>3, <1>5
<1>9. \A j \in DOMAIN q : q[j] \in StageSet
  BY <1>2 DEF Walk, ToSet
<1>10. NextOf(s) \in StageSet \cup {"over"}
  BY <1>7, <1>8, <1>9
<1> QED BY <1>6, <1>7, <1>10 DEF q

\* A command begins with its first stage.
LEMMA Starting ==
  ASSUME WellFormed(cmd)
  PROVE  Stages[1] = FirstStage /\ FirstStage \in StageSet
<1>1. Stages[1] = FirstStage
  BY StagesFacts DEF Walk
<1>2. FirstStage \in StageSet
  BY DEF WellFormed, Kinds, StageSet, FirstStage
<1> QED BY <1>1, <1>2

\* Proceeding goes to the next stage of the command, or ends it after the last one.
LEMMA Proceeding ==
  ASSUME WellFormed(cmd), pc \in StageSet, Proceeds
  PROVE  /\ NextOf(pc) \in StageSet \cup {"over"}
         /\ NextOf(pc) # "over" => Goes(NextOf(pc))
         /\ NextOf(pc) = "over" => Ends(IF warned' THEN "warned" ELSE "done")
<1> DEFINE i == CHOOSE j \in DOMAIN Stages : Stages[j] = pc
<1>1. NextOf(pc) = IF i = Len(Stages) THEN "over" ELSE Stages[i + 1]
  BY AfterStage, Zenon DEF NextOn
<1>2. IF i = Len(Stages) THEN Ends(IF warned' THEN "warned" ELSE "done") ELSE Goes(Stages[i + 1])
  BY Zenon DEF Proceeds
<1>3. NextOf(pc) \in StageSet \cup {"over"}
  BY AfterStage
<1>4. \A j \in DOMAIN Stages : Stages[j] # "over"
  BY StagesFacts, StageKinds DEF Walk, ToSet
<1>5. /\ IsSeq(Stages) /\ i \in DOMAIN Stages
  BY StagesFacts DEF Walk, ToSet
<1>6. i # Len(Stages) => i + 1 \in DOMAIN Stages
  BY <1>5 DEF IsSeq
<1> HIDE DEF i
<1>7. i # Len(Stages) => Stages[i + 1] # "over"
  BY <1>4, <1>6
<1> QED BY <1>1, <1>2, <1>3, <1>7, Zenon

-----------------------------------------------------------------------------
(* The recipients of a reply.                                              *)

\* Appending an address unless it is there already adds it, and nothing twice.
LEMMA AppendUnique ==
  ASSUME NEW A, NEW zs \in Seq(A), NEW a \in A
  PROVE  /\ appendUnique(zs, a) \in Seq(A)
         /\ ToSet(appendUnique(zs, a)) = ToSet(zs) \cup {a}
         /\ IsInjective(zs) => IsInjective(appendUnique(zs, a))
<1>1. CASE a \in ToSet(zs)
  BY <1>1 DEF appendUnique
<1>2. CASE a \notin ToSet(zs)
  <2> DEFINE u == Append(zs, a)
             n == Len(zs)
  <2>1. /\ u \in Seq(A) /\ Len(u) = n + 1 /\ n \in Nat
        /\ \A i \in 1..n : u[i] = zs[i]
        /\ u[n + 1] = a
    OBVIOUS
  <2>2. DOMAIN u = 1..(n + 1) /\ DOMAIN zs = 1..n
    BY <2>1
  <2>3. \A i \in 1..n : zs[i] # a
    BY <1>2, <2>2 DEF ToSet
  <2> HIDE DEF u, n
  <2>4. ToSet(u) = ToSet(zs) \cup {a}
    BY <2>1, <2>2 DEF ToSet
  <2>5. IsInjective(zs) => IsInjective(u)
    <3> SUFFICES ASSUME IsInjective(zs), NEW i \in 1..(n + 1), NEW j \in 1..(n + 1), u[i] = u[j]
                 PROVE  i = j
      BY <2>2 DEF IsInjective
    <3>1. (i \in 1..n \/ i = n + 1) /\ (j \in 1..n \/ j = n + 1)
      BY <2>1
    <3>2. \A k, l \in 1..n : zs[k] = zs[l] => k = l
      BY <2>2 DEF IsInjective
    <3> QED BY <2>1, <2>3, <3>1, <3>2
  <2>6. appendUnique(zs, a) = u
    BY <1>2 DEF appendUnique, u
  <2> QED BY <2>1, <2>4, <2>5, <2>6
<1> QED BY <1>1, <1>2

\* The equation that the fold of appendUnique solves.
Unfolded(g, xs, ys) ==
  [s \in SUBSET (DOMAIN ys) |->
     IF s = {} THEN xs ELSE appendUnique(g[s \ {Max(s)}], ys[Max(s)])]

\* Folding appendUnique over ys adds all of ys, and nothing twice.
LEMMA AppendUniqueFold ==
  ASSUME NEW A, NEW xs \in Seq(A), NEW ys \in Seq(A)
  PROVE  /\ FoldLeft(appendUnique, xs, ys) \in Seq(A)
         /\ ToSet(FoldLeft(appendUnique, xs, ys)) = ToSet(xs) \cup ToSet(ys)
         /\ IsInjective(xs) => IsInjective(FoldLeft(appendUnique, xs, ys))
<1> DEFINE n == Len(ys)
           F == [p \in Seq(A) \X A |-> appendUnique(p[1], p[2])]
           g == CHOOSE f : f = Unfolded(f, xs, ys)
<1>1. n \in Nat /\ DOMAIN ys = 1..n /\ ys \in [1..n -> A]
  OBVIOUS
<1> HIDE DEF n
<1>2. /\ F \in [Seq(A) \X A -> Seq(A)]
      /\ \A zs \in Seq(A), a \in A : F[<<zs, a>>] = appendUnique(zs, a)
  BY AppendUnique
<1> HIDE DEF F
<1>3. PICK f \in [SUBSET (1..n) -> Seq(A)] : FoldsUp(f, F, xs, ys, n)
  BY <1>1, <1>2, FoldExists
<1>4. f = Unfolded(f, xs, ys)
  <2>1. ASSUME NEW s \in SUBSET (1..n)
        PROVE  f[s] = IF s = {} THEN xs ELSE appendUnique(f[s \ {Max(s)}], ys[Max(s)])
    <3>1. CASE s = {}
      BY <3>1, <1>3 DEF FoldsUp
    <3>2. CASE s # {}
      <4>1. Max(s) \in 1..n
        BY <3>2, <1>1, MaxOf
      <4>2. f[s \ {Max(s)}] \in Seq(A) /\ ys[Max(s)] \in A
        BY <4>1, <1>1
      <4>3. f[s] = F[<<f[s \ {Max(s)}], ys[Max(s)]>>]
        BY <3>2, <1>3 DEF FoldsUp
      <4> QED BY <3>2, <4>2, <4>3, <1>2
    <3> QED BY <3>1, <3>2
  <2> QED BY <2>1, <1>1, Zenon DEF Unfolded
<1>5. g = Unfolded(g, xs, ys)
  BY <1>4, Zenon
<1>6. FoldLeft(appendUnique, xs, ys) = g[1..n]
  BY <1>1 DEF FoldLeft, MapThenFoldSet, Unfolded
<1> HIDE DEF g
<1>7. \A s \in SUBSET (1..n) :
        g[s] = IF s = {} THEN xs ELSE appendUnique(g[s \ {Max(s)}], ys[Max(s)])
  BY <1>1, <1>5, Zenon DEF Unfolded
<1> DEFINE P(m) == /\ g[1..m] \in Seq(A)
                   /\ ToSet(g[1..m]) = ToSet(xs) \cup {ys[k] : k \in 1..m}
                   /\ IsInjective(xs) => IsInjective(g[1..m])
           S == {m \in Nat : m <= n => P(m)}
<1>8. 0 \in S
  <2>1. 1..0 = {} /\ {} \in SUBSET (1..n)
    OBVIOUS
  <2>2. g[{}] = xs
    BY <1>7, <2>1, Zenon
  <2>3. g[1..0] = xs /\ {ys[k] : k \in 1..0} = {}
    BY <2>1, <2>2
  <2>4. P(0)
    BY <2>3
  <2> HIDE DEF P
  <2> QED BY <2>4
<1>9. ASSUME NEW m \in Nat, m \in S PROVE m + 1 \in S
  <2> SUFFICES ASSUME m + 1 <= n PROVE P(m + 1)
    OBVIOUS
  <2>1. P(m)
    BY <1>1, <1>9
  <2>2. Max(1..(m + 1)) \in 1..(m + 1) /\ \A x \in 1..(m + 1) : x <= Max(1..(m + 1))
    BY MaxOf, m + 1 \in Nat, m + 1 \in 1..(m + 1)
  <2>3. Max(1..(m + 1)) = m + 1
    BY <2>2, m + 1 \in 1..(m + 1)
  <2>4. (1..(m + 1)) \ {m + 1} = 1..m /\ 1..(m + 1) \in SUBSET (1..n) /\ m + 1 \in 1..n
    BY <1>1
  <2>5. g[1..(m + 1)] = appendUnique(g[1..m], ys[m + 1])
    <3>1. 1..(m + 1) # {}
      BY m + 1 \in 1..(m + 1)
    <3>2. g[1..(m + 1)] = appendUnique(g[(1..(m + 1)) \ {Max(1..(m + 1))}], ys[Max(1..(m + 1))])
      BY <1>7, <2>4, <3>1, Zenon
    <3> QED BY <2>3, <2>4, <3>2
  <2>6. ys[m + 1] \in A
    BY <1>1, <2>4
  <2>7. {ys[k] : k \in 1..(m + 1)} = {ys[k] : k \in 1..m} \cup {ys[m + 1]}
    OBVIOUS
  <2> DEFINE before == g[1..m]
             after == g[1..(m + 1)]
  <2>8. /\ before \in Seq(A) /\ ToSet(before) = ToSet(xs) \cup {ys[k] : k \in 1..m}
        /\ IsInjective(xs) => IsInjective(before)
    BY <2>1
  <2> HIDE DEF before, after
  <2>80. before \in Seq(A)
    BY <2>8
  <2>9. after = appendUnique(before, ys[m + 1])
    BY <2>5 DEF before, after
  <2>10. /\ after \in Seq(A) /\ ToSet(after) = ToSet(before) \cup {ys[m + 1]}
         /\ IsInjective(before) => IsInjective(after)
    <3>1. appendUnique(before, ys[m + 1]) \in Seq(A)
      BY <2>80, <2>6, AppendUnique
    <3>2. ToSet(appendUnique(before, ys[m + 1])) = ToSet(before) \cup {ys[m + 1]}
      <4> DEFINE a == ys[m + 1]
      <4>1. a \in A
        BY <2>6
      <4> HIDE DEF a
      <4>2. \A u \in Seq(A), v \in A : ToSet(appendUnique(u, v)) = ToSet(u) \cup {v}
        BY AppendUnique
      <4>3. ToSet(appendUnique(before, a)) = ToSet(before) \cup {a}
        BY <2>80, <4>1, <4>2, Zenon
      <4> QED BY <4>3 DEF a
    <3>3. IsInjective(before) => IsInjective(appendUnique(before, ys[m + 1]))
      BY <2>80, <2>6, AppendUnique
    <3> QED BY <3>1, <3>2, <3>3, <2>9
  <2>11. ToSet(after) = ToSet(xs) \cup {ys[k] : k \in 1..(m + 1)}
    BY <2>7, <2>8, <2>10
  <2> QED BY <2>8, <2>10, <2>11 DEF after
<1> HIDE DEF P, S
<1>10. n \in S
  BY <1>1, <1>8, <1>9, SetInduction
<1>11. P(n)
  BY <1>1, <1>10 DEF S
<1>12. ToSet(ys) = {ys[k] : k \in 1..n}
  BY <1>1 DEF ToSet
<1> QED BY <1>6, <1>11, <1>12 DEF P
-----------------------------------------------------------------------------
(* The inductive invariant.                                                *)

Words == {"done", "warned", "failed", "killed", "saved", "sent", "occupied"}
Addresses ==
  ToSet(cmd.to) \cup ToSet(cmd.cc) \cup ToSet(cmd.original.to) \cup ToSet(cmd.original.cc)
  \cup {cmd.original.from}
EveryRoom == Rooms \cup {None} \cup (IF cmd.room = << >> THEN {} ELSE {cmd.room[2]})
Roles == {RoleOf(cmd, a) : a \in ToSet(cmd.add) \cup ToSet(cmd.remove)}
Castings == Roles \X People

Control ==
  /\ pc \in StageSet \cup {"over"}
  /\ verdicts \in Seq(Words)
  /\ IsSeq(todo) /\ ToSet(todo) \subseteq ToSet(Items(pc))
  /\ Items(pc) # << >> => todo # << >>

Data ==
  /\ letters \in Seq([run : Nat, to : Seq(Addresses), cc : Seq(Addresses), sent : BOOLEAN])
  /\ events \in Seq([run : Nat, named : BOOLEAN, people : SUBSET Castings, room : EveryRoom])
  /\ posts \in Seq([run : Nat, who : SUBSET Castings])
  /\ letter \in [to : Seq(Addresses), cc : Seq(Addresses)]
  /\ room \in EveryRoom
  /\ who \subseteq Castings
  /\ warned \in BOOLEAN

TypeOK == cmd \in Commands /\ Control /\ Data

\* The stages in which the event of this run is there and nobody invited to it yet.
Late ==
  cmd.kind = "calendar_create" /\ pc \in {"resolve_add", "room_scopes", "room", "busy", "invite"}

\* Letters and events are in the order of their runs, one for a run at most, and
\* the runs are those up to n; or the last one is of the run after n.
Past(made, n) ==
  /\ \A i, j \in DOMAIN made : i < j => made[i].run < made[j].run
  /\ \A i \in DOMAIN made : made[i].run \in 1..n
Current(made, n) ==
  Past(made, n + 1) /\ made # << >> /\ made[Len(made)].run = n + 1

LetterTold(l, told, c) ==
  IF l.sent THEN ~c.draft /\ told \in {"sent", "failed", "killed"}
            ELSE told \in {"saved", "failed", "killed"}

LettersInv ==
  /\ pc # "send" => Past(letters, Len(verdicts))
  /\ pc = "send" => /\ Current(letters, Len(verdicts))
                    /\ ~letters[Len(letters)].sent /\ ~cmd.draft
  /\ \A i \in DOMAIN letters :
       letters[i].run \in DOMAIN verdicts => LetterTold(letters[i], verdicts[letters[i].run], cmd)
  /\ \A run \in DOMAIN verdicts :
       verdicts[run] \in {"sent", "saved"} => \E i \in DOMAIN letters : letters[i].run = run

\* What ReplyReaches says of a letter.
Reaches(l, c) ==
  LET to == ToSet(l.to)  cc == ToSet(l.cc)  original == c.original IN
    /\ c.kind \in {"mail_reply", "mail_reply_all"} =>
         IF c.to = << >> THEN to \cap {original.from} = {original.from} \ {None}
                           ELSE ToSet(c.to) \subseteq to
    /\ c.kind = "mail_reply_all" =>
         /\ ToSet(original.to) \subseteq to /\ ToSet(original.cc) \subseteq cc
         /\ IsInjective(c.to) => IsInjective(l.to)
         /\ IsInjective(c.cc) => IsInjective(l.cc)

RepliesInv ==
  /\ cmd.kind # "mail_send" /\ pc \in {"compose", "draft"} => Reaches(letter, cmd)
  /\ \A i \in DOMAIN letters : Reaches(letters[i], cmd)

EventTold(e, told, c) ==
  /\ told = "done" /\ e.named =>
       Means(c, c.add, Roughly, e.people) /\ (c.room # << >> => e.room # None)
  /\ told = "occupied" => e.people = {} /\ e.room = None

\* A room that was found by a keyword is not disabled.
ByKeyword(r, c) ==
  r # None /\ ~IsId(c.room) =>
    \E k \in DOMAIN RoomList : RoomList[k] = [room |-> r, enabled |-> TRUE]

EventsInv ==
  /\ ~Late => Past(events, Len(verdicts))
  /\ Late => /\ Current(events, Len(verdicts))
             /\ events[Len(events)].people = {} /\ events[Len(events)].room = None
  /\ \A i \in DOMAIN events :
       /\ events[i].people = {} \/ Means(cmd, cmd.add, Roughly, events[i].people)
       /\ events[i].run \in DOMAIN verdicts => EventTold(events[i], verdicts[events[i].run], cmd)
       /\ ByKeyword(events[i].room, cmd)

RoomInv ==
  /\ pc \in {"scopes", "primary", "event", "resolve_add", "room_scopes", "room"} => room = None
  /\ pc = "busy" => room # None
  /\ ByKeyword(room, cmd)
  /\ pc = "invite" => /\ cmd.room # << >> /\ room = None => warned
                      /\ room # None => room \notin seen /\ (None \in seen => warned)

HeldInv == None \notin held

\* All arguments but those of rest have been treated, and ps found for them.
Partly(c, args, rest, found, ps) ==
  /\ \A a \in ToSet(args) : a \in rest \/ Denotes(c, a, found) \cap ps # {}
  /\ \A p \in ps : \E a \in ToSet(args) : p \in Denotes(c, a, found)

\* A name is that of one person only, unless the search finds more than it answers.
Alone(a) ==
  \/ IsId(a) \/ Cardinality(Exactly[a[2]]) = 1
  \/ Cardinality(Roughly[a[2]]) > PageSize

\* So is every name but those of rest.
Single(args, rest) == \A a \in ToSet(args) : a \in rest \/ Alone(a)

ResolvedInv ==
  /\ pc \in {"scopes", "primary", "event", "document"} => who = {}
  /\ pc = "resolve_add" => Partly(cmd, cmd.add, ToSet(todo), Roughly, who)
  /\ pc = "resolve_remove" => Partly(cmd, cmd.remove, ToSet(todo), Roughly, who)
  /\ pc = "mention" => Partly(cmd, cmd.add, ToSet(todo), Exactly, who) /\ Single(cmd.add, ToSet(todo))
  /\ pc \in {"room_scopes", "room", "busy", "invite"} =>
       Means(cmd, cmd.add, Roughly, who) \/ (warned /\ who = {})
  /\ pc = "add" => Means(cmd, cmd.add, Roughly, who)
  /\ pc = "remove" => Means(cmd, cmd.remove, Roughly, who)
  /\ pc = "post" /\ cmd.kind = "tasks_create" => Means(cmd, cmd.add, Roughly, who)
  /\ pc = "post" /\ cmd.kind = "docs_add_mention" =>
       Means(cmd, cmd.add, Exactly, who) /\ Single(cmd.add, {})

Asked(c, args) == UNION {Denotes(c, a, Roughly) : a \in ToSet(args)}

ReportedDone == Over /\ verdicts # << >> /\ Last(verdicts) = "done"

\* Those to be added are members, except those of gone.
Added(gone) ==
  \E ps \in SUBSET Asked(cmd, cmd.add) : Means(cmd, cmd.add, Roughly, ps) /\ ps \ gone \subseteq members

MembersInv ==
  /\ members \ Members \subseteq Asked(cmd, cmd.add)
  /\ Members \ members \subseteq Asked(cmd, cmd.remove)
  /\ pc \in {"resolve_remove", "remove"} /\ "add" \in StageSet => Added({})
  /\ ReportedDone /\ "add" \in StageSet => Added(who)
  /\ ReportedDone /\ "remove" \in StageSet =>
       Means(cmd, cmd.remove, Roughly, who) /\ members \cap who = {}

PostsInv ==
  \A i \in DOMAIN posts :
    /\ cmd.kind = "tasks_create" => Means(cmd, cmd.add, Roughly, posts[i].who)
    /\ cmd.kind = "docs_add_mention" =>
         Means(cmd, cmd.add, Exactly, posts[i].who) /\ Single(cmd.add, {})

ReportedIds == {r[1] : r \in reports}

\* What is reported is gone, unless it is a draft that was to be trashed.
Treated(id, left, c) == id \notin left \/ (c.kind = "mail_trash" /\ id \in Drafts)

DeletionsInv ==
  /\ Things \ things \subseteq ToSet(cmd.ids)
  /\ \A r \in reports : r[2] = "ok" => Treated(r[1], things, cmd)
  /\ pc = "scopes" => reports = {}
  /\ pc = "each" => ReportedIds \cup ToSet(todo) = ToSet(cmd.ids)
  /\ pc = "batch" => things \cap (ToSet(cmd.ids) \ ToSet(todo)) = {}
  /\ cmd.kind = "board_delete_nodes" /\ ReportedDone => things \cap ToSet(cmd.ids) = {}
  /\ cmd.kind \in {"mail_trash", "mail_draft_delete"} /\ ReportedDone =>
       ReportedIds = ToSet(cmd.ids)

IInv ==
  TypeOK /\ LettersInv /\ RepliesInv /\ EventsInv /\ RoomInv /\ HeldInv /\ ResolvedInv
  /\ MembersInv /\ PostsInv /\ DeletionsInv

-----------------------------------------------------------------------------
(* Types.                                                                  *)

\* The sizes are positive, and the list of rooms is a list.
LEMMA Sizes ==
  /\ PageSize \in Nat /\ BatchSize \in Nat /\ BatchSize > 0
  /\ RoomList \in Seq([room : Rooms, enabled : BOOLEAN])
<1>1. /\ {Runs, BatchSize, PageSize} \subseteq Nat \ {0}
      /\ RoomList \in Seq([room : Rooms, enabled : BOOLEAN])
  BY MadeInStepsAssumption, Zenon
<1>2. BatchSize \in Nat \ {0} /\ PageSize \in Nat \ {0}
  BY <1>1, Zenon
<1> QED BY <1>1, <1>2

\* What depends on the command only stays as long as the command does.
LEMMA SameCommand ==
  ASSUME cmd' = cmd
  PROVE  /\ StageSet' = StageSet /\ Addresses' = Addresses /\ EveryRoom' = EveryRoom
         /\ Castings' = Castings
<1>1. StageSet' = StageSet
  BY DEF StageSet
<1>2. Addresses' = Addresses
  BY DEF Addresses
<1>3. EveryRoom' = EveryRoom
  BY DEF EveryRoom
<1>4. Castings' = Castings
  BY DEF Castings, Roles
<1> QED BY <1>1, <1>2, <1>3, <1>4

\* Every command is one that a user can give.
LEMMA WellFormedCommand == TypeOK => WellFormed(cmd)
  BY CommandsAssumption DEF TypeOK

\* The head and the tail of a list.
LEMMA SeqFacts ==
  ASSUME NEW s, IsSeq(s), s # << >>
  PROVE  /\ Len(s) \in Nat /\ Len(s) > 0 /\ DOMAIN s = 1..Len(s)
         /\ s \in Seq(ToSet(s))
         /\ Head(s) \in ToSet(s)
         /\ IsSeq(Tail(s)) /\ ToSet(s) = {Head(s)} \cup ToSet(Tail(s))
         /\ Len(s) = 1 => ToSet(s) = {Head(s)}
         /\ Len(s) # 1 => Tail(s) # << >>
<1> DEFINE n == Len(s)
           t == Tail(s)
           S == ToSet(s)
<1>1. n \in Nat /\ n > 0 /\ DOMAIN s = 1..n /\ s \in Seq(S)
  BY DEF IsSeq
<1>2. \A i \in 1..n : s[i] \in S
  BY <1>1 DEF ToSet
<1>3. t \in Seq(S) /\ Len(t) = n - 1 /\ \A i \in 1..(n - 1) : t[i] = s[i + 1]
  BY <1>1
<1>4. DOMAIN t = 1..(n - 1) /\ Head(s) = s[1]
  BY <1>1, <1>3
<1> HIDE DEF n, t
<1>5. 1 \in 1..n /\ \A i \in 1..n : i = 1 \/ i - 1 \in 1..(n - 1)
  BY <1>1
<1>6. \A i \in 1..(n - 1) : i + 1 \in 1..n
  BY <1>1
<1>7. S = {s[1]} \cup ToSet(t)
  <2>1. S = {s[i] : i \in 1..n} /\ ToSet(t) = {t[i] : i \in 1..(n - 1)}
    BY <1>1, <1>4 DEF ToSet
  <2>2. ASSUME NEW i \in 1..n PROVE s[i] \in {s[1]} \cup ToSet(t)
    <3>1. CASE i = 1
      BY <3>1
    <3>2. CASE i # 1
      <4>1. i - 1 \in 1..(n - 1)
        BY <3>2, <1>5
      <4>2. t[i - 1] = s[(i - 1) + 1]
        BY <4>1, <1>3
      <4>3. (i - 1) + 1 = i
        BY <1>1
      <4> QED BY <2>1, <4>1, <4>2, <4>3
    <3> QED BY <3>1, <3>2
  <2>3. ASSUME NEW i \in 1..(n - 1) PROVE t[i] \in S
    BY <1>2, <1>3, <1>6
  <2> QED BY <1>2, <1>5, <2>1, <2>2, <2>3
<1>8. t \in Seq(ToSet(t))
  BY <1>3, <1>4 DEF ToSet
<1>9. n = 1 => t = << >>
  BY <1>3
<1>10. n = 1 => S = {s[1]}
  BY <1>1 DEF ToSet
<1>11. n # 1 => t # << >>
  BY <1>1, <1>3
<1> QED BY <1>1, <1>2, <1>4, <1>5, <1>7, <1>8, <1>10, <1>11 DEF n, t, IsSeq

\* A run that ends adds its verdict behind those of the earlier runs.
LEMMA AfterEnds ==
  ASSUME NEW w \in Words, verdicts \in Seq(Words), verdicts' = Append(verdicts, w)
  PROVE  /\ verdicts' \in Seq(Words) /\ verdicts' # << >> /\ Last(verdicts') = w
         /\ Len(verdicts) \in Nat /\ Len(verdicts') = Len(verdicts) + 1
         /\ DOMAIN verdicts = 1..Len(verdicts) /\ DOMAIN verdicts' = 1..Run
         /\ \A r \in DOMAIN verdicts : verdicts'[r] = verdicts[r]
         /\ verdicts'[Run] = w
<1>1. /\ verdicts' \in Seq(Words) /\ Len(verdicts) \in Nat /\ Len(verdicts') = Len(verdicts) + 1
      /\ \A r \in 1..Len(verdicts) : verdicts'[r] = verdicts[r]
      /\ verdicts'[Len(verdicts) + 1] = w
  OBVIOUS
<1>2. DOMAIN verdicts = 1..Len(verdicts) /\ DOMAIN verdicts' = 1..(Len(verdicts) + 1)
  BY <1>1
<1>3. verdicts' # << >> /\ Last(verdicts') = w
  BY <1>1 DEF Last
<1> QED BY <1>1, <1>2, <1>3 DEF Run

\* A stage goes through a list, and no stage is left when the command is over.
LEMMA ItemsFacts ==
  ASSUME WellFormed(cmd), NEW s
  PROVE  IsSeq(Items(s)) /\ Items("over") = << >>
<1>1. IsSeq(<< >>)
  BY DEF IsSeq
<1> QED BY <1>1, Zenon DEF Items, WellFormed

\* Going to a stage of the command keeps the control state within its types.
LEMMA ControlGoes ==
  ASSUME TypeOK, cmd' = cmd, NEW s \in StageSet, Goes(s)
  PROVE  Control'
<1>1. Items(pc)' = Items(s)
  BY DEF Goes, Items
<1>2. IsSeq(Items(s))
  BY WellFormedCommand, ItemsFacts
<1> QED BY <1>1, <1>2, SameCommand DEF Goes, Control, TypeOK

\* So does the end of a run,
LEMMA ControlEnds ==
  ASSUME TypeOK, cmd' = cmd, NEW w \in Words, Ends(w)
  PROVE  Control'
<1>1. Items(pc)' = << >>
  BY DEF Ends, Items
<1>2. IsSeq(<< >>)
  BY DEF IsSeq
<1>3. verdicts' \in Seq(Words)
  BY DEF Ends, TypeOK, Control
<1> QED BY <1>1, <1>2, <1>3, SameCommand DEF Ends, Control

\* and going on with fewer arguments in the same stage,
LEMMA ControlStays ==
  ASSUME TypeOK, cmd' = cmd, UNCHANGED <<pc, verdicts>>, IsSeq(todo'), todo' # << >>,
         ToSet(todo') \subseteq ToSet(todo)
  PROVE  Control'
<1>1. Items(pc)' = Items(pc)
  BY DEF Items
<1> QED BY <1>1, SameCommand DEF Control, TypeOK

\* and proceeding to the next stage,
LEMMA ControlProceeds ==
  ASSUME TypeOK, cmd' = cmd, pc \in StageSet, Proceeds
  PROVE  Control'
<1>1. WellFormed(cmd)
  BY WellFormedCommand
<1>2. CASE NextOf(pc) = "over"
  <2>1. Ends(IF warned' THEN "warned" ELSE "done")
    BY <1>1, <1>2, Proceeding
  <2>2. (IF warned' THEN "warned" ELSE "done") \in Words
    BY DEF Words
  <2> QED BY <2>1, <2>2, ControlEnds
<1>3. CASE NextOf(pc) # "over"
  <2>1. NextOf(pc) \in StageSet /\ Goes(NextOf(pc))
    BY <1>1, <1>3, Proceeding
  <2> QED BY <2>1, ControlGoes
<1> QED BY <1>2, <1>3

\* and a step that leaves the control state alone,
LEMMA ControlRests ==
  ASSUME TypeOK, cmd' = cmd, UNCHANGED <<pc, todo, verdicts>>
  PROVE  Control'
<1>1. Items(pc)' = Items(pc)
  BY DEF Items
<1> QED BY <1>1, SameCommand DEF Control, TypeOK

\* Within a stage that goes through a list there is something left to do.
LEMMA TodoFacts ==
  ASSUME TypeOK, pc \in {"resolve_add", "resolve_remove", "mention", "each", "batch"}
  PROVE  /\ pc \in StageSet /\ IsSeq(todo) /\ todo # << >>
         /\ Head(todo) \in ToSet(todo) /\ ToSet(todo) \subseteq ToSet(Items(pc))
         /\ IsSeq(Tail(todo)) /\ ToSet(todo) = {Head(todo)} \cup ToSet(Tail(todo))
         /\ Len(todo) = 1 => ToSet(todo) = {Head(todo)}
         /\ Len(todo) # 1 => Tail(todo) # << >>
<1>1. pc \in StageSet
  BY DEF TypeOK, Control
<1>2. Items(pc) # << >>
  BY <1>1, WellFormedCommand, StageKinds DEF Items
<1>3. IsSeq(todo) /\ todo # << >> /\ ToSet(todo) \subseteq ToSet(Items(pc))
  BY <1>2 DEF TypeOK, Control
<1> QED BY <1>1, <1>3, SeqFacts

\* An argument is an id of a person or a name that can be searched for.
LEMMA ArgFacts ==
  ASSUME TypeOK, pc \in {"resolve_add", "resolve_remove", "mention"}, NEW a \in ToSet(todo)
  PROVE  /\ IsId(a) => a[2] \in People
         /\ ~IsId(a) => Roughly[a[2]] \subseteq People /\ Exactly[a[2]] \subseteq Roughly[a[2]]
         /\ RoleOf(cmd, a) \in Roles
<1>1. a \in ToSet(cmd.add) \cup ToSet(cmd.remove)
  BY TodoFacts DEF Items
<1>2. RoleOf(cmd, a) \in Roles
  BY <1>1 DEF Roles
<1> QED BY <1>1, <1>2, WellFormedCommand, MadeInStepsAssumption DEF WellFormed

\* Treating one argument of a list keeps the control state within its types.
LEMMA ControlNext ==
  ASSUME TypeOK, cmd' = cmd,
         pc \in {"resolve_add", "resolve_remove", "mention", "each"},
         IF Len(todo) = 1 THEN Proceeds ELSE todo' = Tail(todo) /\ UNCHANGED <<pc, verdicts>>
  PROVE  Control'
<1>1. CASE Len(todo) = 1
  BY <1>1, TodoFacts, ControlProceeds
<1>2. CASE Len(todo) # 1
  <2>1. todo' = Tail(todo) /\ UNCHANGED <<pc, verdicts>>
    BY <1>2
  <2>2. IsSeq(Tail(todo)) /\ Tail(todo) # << >> /\ ToSet(Tail(todo)) \subseteq ToSet(todo)
    BY <1>2, TodoFacts
  <2> QED BY <2>1, <2>2, ControlStays
<1> QED BY <1>1, <1>2

\* Data that a step leaves alone stays within its types.
LEMMA DataRests ==
  ASSUME TypeOK, cmd' = cmd, UNCHANGED <<letters, events, posts, letter, room, who>>,
         warned' \in BOOLEAN
  PROVE  Data'
  BY SameCommand DEF TypeOK, Data

\* Appending to a sequence over a set.
LEMMA Appended ==
  ASSUME NEW R, NEW s \in Seq(R), NEW x \in R
  PROVE  Append(s, x) \in Seq(R)
  OBVIOUS

\* After appending, an element is the new one or an old one.
LEMMA AppendedAt ==
  ASSUME NEW R, NEW s \in Seq(R), NEW x
  PROVE  \A i \in DOMAIN Append(s, x) :
           Append(s, x)[i] = x \/ (i \in DOMAIN s /\ Append(s, x)[i] = s[i])
<1>1. /\ Len(s) \in Nat /\ DOMAIN s = 1..Len(s) /\ DOMAIN Append(s, x) = 1..(Len(s) + 1)
      /\ Append(s, x)[Len(s) + 1] = x
      /\ \A i \in 1..Len(s) : Append(s, x)[i] = s[i]
  OBVIOUS
<1>2. \A i \in 1..(Len(s) + 1) : i = Len(s) + 1 \/ i \in 1..Len(s)
  BY <1>1
<1> QED BY <1>1, <1>2

\* Replacing an element of a sequence over a set.
LEMMA Replaced ==
  ASSUME NEW R, NEW s \in Seq(R), NEW k, NEW x, k \in DOMAIN s => x \in R
  PROVE  [s EXCEPT ![k] = x] \in Seq(R)
<1>1. s \in [1..Len(s) -> R] /\ Len(s) \in Nat /\ DOMAIN s = 1..Len(s)
  OBVIOUS
<1>2. [s EXCEPT ![k] = x] \in [1..Len(s) -> R]
  BY <1>1
<1> QED BY <1>1, <1>2

\* The number of this run is one more than that of the runs that are over.
LEMMA RunFacts ==
  ASSUME TypeOK
  PROVE  Run \in Nat /\ Run = Len(verdicts) + 1 /\ Len(verdicts) \in Nat
         /\ DOMAIN verdicts = 1..Len(verdicts)
  BY DEF TypeOK, Control, Run

LetterRecords == [run : Nat, to : Seq(Addresses), cc : Seq(Addresses), sent : BOOLEAN]
EventRecords == [run : Nat, named : BOOLEAN, people : SUBSET Castings, room : EveryRoom]

\* A draft, the sending of the last one, an event, an invitation to the last one, a post.
LEMMA EffectsTyped ==
  ASSUME TypeOK
  PROVE  /\ Drafted \in Seq(LetterRecords) /\ Sent \in Seq(LetterRecords)
         /\ \A named \in BOOLEAN : Made(named) \in Seq(EventRecords)
         /\ Invited \in Seq(EventRecords)
         /\ Posted \in Seq([run : Nat, who : SUBSET Castings])
<1>1. Drafted \in Seq(LetterRecords)
  <2> DEFINE x == [run |-> Run, to |-> letter.to, cc |-> letter.cc, sent |-> FALSE]
  <2>1. x \in LetterRecords /\ letters \in Seq(LetterRecords)
    BY RunFacts DEF LetterRecords, TypeOK, Data
  <2> HIDE DEF x
  <2>2. Append(letters, x) \in Seq(LetterRecords)
    BY <2>1, Appended
  <2> QED BY <2>2 DEF Drafted, x
<1>2. Sent \in Seq(LetterRecords)
  <2>1. letters \in Seq(LetterRecords)
    BY DEF LetterRecords, TypeOK, Data
  <2>2. ASSUME NEW r \in LetterRecords PROVE [r EXCEPT !.sent = TRUE] \in LetterRecords
    BY DEF LetterRecords
  <2> DEFINE last == Len(letters)
             l == [letters[last] EXCEPT !.sent = TRUE]
  <2>3. Sent = [letters EXCEPT ![last] = l]
    BY DEF Sent
  <2> HIDE DEF last
  <2>4. last \in DOMAIN letters => letters[last] \in LetterRecords
    BY <2>1
  <2>5. last \in DOMAIN letters => l \in LetterRecords
    BY <2>2, <2>4
  <2> HIDE DEF l
  <2> QED BY <2>1, <2>3, <2>5, Replaced
<1>3. ASSUME NEW named \in BOOLEAN PROVE Made(named) \in Seq(EventRecords)
  <2> DEFINE x == [run |-> Run, named |-> named, people |-> {}, room |-> None]
  <2>1. x \in EventRecords /\ events \in Seq(EventRecords)
    BY RunFacts DEF EventRecords, TypeOK, Data, EveryRoom
  <2> HIDE DEF x
  <2>2. Append(events, x) \in Seq(EventRecords)
    BY <2>1, Appended
  <2> QED BY <2>2 DEF Made, x
<1>4. Invited \in Seq(EventRecords)
  <2> DEFINE last == Len(events)
             e == [events[last] EXCEPT !.people = who, !.room = room]
  <2>1. events \in Seq(EventRecords) /\ who \in SUBSET Castings /\ room \in EveryRoom
    BY DEF EventRecords, TypeOK, Data
  <2>2. ASSUME NEW r \in EventRecords PROVE [r EXCEPT !.people = who, !.room = room] \in EventRecords
    BY <2>1 DEF EventRecords
  <2>3. Invited = [events EXCEPT ![last] = e]
    BY DEF Invited
  <2> HIDE DEF last
  <2>4. last \in DOMAIN events => events[last] \in EventRecords
    BY <2>1
  <2>5. last \in DOMAIN events => e \in EventRecords
    BY <2>2, <2>4
  <2> HIDE DEF e
  <2> QED BY <2>1, <2>3, <2>5, Replaced
<1>5. Posted \in Seq([run : Nat, who : SUBSET Castings])
  <2> DEFINE R == [run : Nat, who : SUBSET Castings]
             x == [run |-> Run, who |-> who]
  <2>1. x \in R /\ posts \in Seq(R)
    BY RunFacts DEF TypeOK, Data
  <2> HIDE DEF R, x
  <2>2. Append(posts, x) \in Seq(R)
    BY <2>1, Appended
  <2>3. Posted = posts \/ Posted = Append(posts, x)
    BY DEF Posted, x
  <2>4. Posted \in Seq(R)
    BY <2>1, <2>2, <2>3
  <2> QED BY <2>4 DEF R
<1> QED BY <1>1, <1>2, <1>3, <1>4, <1>5

\* What a killed run leaves: its last request has been carried out, or not.
LEMMA KilledCases ==
  ASSUME TypeOK, Killed
  PROVE  /\ UNCHANGED <<cmd, who, letter, room, seen, warned, reports>>
         /\ Ends("killed") /\ "killed" \in Words /\ pc \in StageSet /\ pc # "over"
         /\ \/ letters' = letters
            \/ pc = "draft" /\ letters' = Drafted
            \/ pc = "send" /\ letters' = Sent
         /\ \/ events' = events
            \/ pc = "event" /\ events' = Made(FALSE)
            \/ pc = "invite" /\ events' = Invited
         /\ \/ members' = members
            \/ pc = "add" /\ members' = members \cup who
            \/ pc = "remove" /\ members' = members \ who
         /\ \/ things' = things
            \/ pc = "each" /\ things' = things \ Trashed
            \/ pc = "batch" /\ things' = things \ ToSet(Batch)
         /\ posts' = posts \/ (pc = "post" /\ posts' = Posted)
<1>1. /\ UNCHANGED <<cmd, who, letter, room, seen, warned, reports>>
      /\ Ends("killed") /\ pc # "over" /\ (CarriedOut \/ UNCHANGED server)
  BY DEF Killed, Over
<1>2. "killed" \in Words /\ pc \in StageSet
  BY <1>1 DEF Words, TypeOK, Control
<1>3. CASE UNCHANGED server
  BY <1>1, <1>2, <1>3 DEF server
<1>4. CASE CarriedOut
  BY <1>1, <1>2, <1>4, Zenon DEF CarriedOut
<1> QED BY <1>1, <1>3, <1>4

\* The step that begins a run keeps the types,
LEMMA TypesStart ==
  ASSUME TypeOK, Start
  PROVE  TypeOK'
<1>1. cmd' = cmd /\ Goes(FirstStage) /\ FirstStage \in StageSet
  BY WellFormedCommand, Starting DEF Start
<1>2. Control'
  BY <1>1, ControlGoes
<1>3. UNCHANGED <<letters, events, posts>> /\ Fresh
  BY DEF Start, server
<1>4. Data'
  <2>1. letter' \in [to : Seq(Addresses), cc : Seq(Addresses)]
    BY <1>3 DEF Fresh
  <2>2. room' \in EveryRoom /\ who' \subseteq Castings /\ warned' \in BOOLEAN
    BY <1>3, Zenon DEF Fresh, EveryRoom
  <2> QED BY <1>1, <1>3, <2>1, <2>2, SameCommand DEF TypeOK, Data
<1> QED BY <1>1, <1>2, <1>4 DEF TypeOK

\* as does the one that kills it,
LEMMA TypesKilled ==
  ASSUME TypeOK, Killed
  PROVE  TypeOK'
<1>1. /\ UNCHANGED <<cmd, who, letter, room, warned>> /\ Ends("killed") /\ "killed" \in Words
  BY KilledCases
<1>2. Control'
  BY <1>1, ControlEnds
<1>3. letters' \in Seq(LetterRecords) /\ events' \in Seq(EventRecords)
      /\ posts' \in Seq([run : Nat, who : SUBSET Castings])
  <2>1. letters \in Seq(LetterRecords) /\ events \in Seq(EventRecords)
        /\ posts \in Seq([run : Nat, who : SUBSET Castings])
    BY DEF TypeOK, Data, LetterRecords, EventRecords
  <2>2. letters' \in {letters, Drafted, Sent} /\ events' \in {events, Made(FALSE), Invited}
        /\ posts' \in {posts, Posted}
    BY KilledCases
  <2>3. Made(FALSE) \in Seq(EventRecords)
    BY EffectsTyped
  <2> QED BY <2>1, <2>2, <2>3, EffectsTyped
<1>4. Data'
  BY <1>1, <1>3, SameCommand DEF LetterRecords, EventRecords, TypeOK, Data
<1> QED BY <1>1, <1>2, <1>4 DEF TypeOK

\* the one that concerns somebody else,
LEMMA TypesRests ==
  ASSUME TypeOK, UNCHANGED <<cmd, pc, todo, verdicts, letters, events, posts, letter, room, who,
                             warned>>
  PROVE  TypeOK'
<1>1. Control'
  BY ControlRests
<1>2. Data'
  BY DataRests DEF TypeOK, Data
<1> QED BY <1>1, <1>2 DEF TypeOK

\* and a request that only has to succeed.
LEMMA TypesAsks ==
  ASSUME TypeOK, NEW o, Asks(o)
  PROVE  TypeOK'
<1>1. cmd' = cmd /\ pc \in StageSet
  BY DEF Asks, TypeOK, Control
<1>2. Control'
  <2>1. CASE o = "ok"
    BY <1>1, <2>1, ControlProceeds DEF Asks
  <2>2. CASE o # "ok"
    BY <1>1, <2>2, ControlEnds DEF Asks, Words
  <2> QED BY <2>1, <2>2
<1>3. Data'
  BY DataRests DEF Asks, server, client, TypeOK, Data
<1> QED BY <1>1, <1>2, <1>3 DEF TypeOK

\* A person that is found is one of the directory.
LEMMA TypesFound ==
  ASSUME TypeOK, UNCHANGED <<server, cmd, letter, room, seen, reports>>, NEW p \in People, Found(p),
         pc \in {"resolve_add", "resolve_remove", "mention"}
  PROVE  TypeOK'
<1>1. cmd' = cmd
  OBVIOUS
<1>2. Control'
  BY <1>1, ControlNext DEF Found
<1>4. who' \subseteq Castings
  <2>1. RoleOf(cmd, Head(todo)) \in Roles
    BY TodoFacts, ArgFacts
  <2> QED BY <2>1 DEF Found, TypeOK, Data, Castings
<1>3. Data'
  BY <1>1, <1>4, SameCommand DEF Found, server, TypeOK, Data
<1> QED BY <1>1, <1>2, <1>3 DEF TypeOK

\* A name that is not resolved leaves the people as they are, or none.
LEMMA TypesNotResolved ==
  ASSUME TypeOK, UNCHANGED <<server, cmd, letter, room, seen, reports>>, NotResolved,
         pc \in {"resolve_add", "resolve_remove", "mention"}
  PROVE  TypeOK'
<1>1. cmd' = cmd /\ pc \in StageSet
  BY TodoFacts
<1>2. CASE cmd.kind = "calendar_create"
  <2>1. Control'
    BY <1>1, <1>2, ControlProceeds DEF NotResolved
  <2>2. warned' \in BOOLEAN
    BY <1>2, Zenon DEF NotResolved
  <2>3. Data'
    BY <1>1, <1>2, <2>2, SameCommand DEF NotResolved, server, TypeOK, Data
  <2> QED BY <1>1, <2>1, <2>3 DEF TypeOK
<1>3. CASE cmd.kind # "calendar_create"
  <2>1. Control'
    BY <1>1, <1>3, ControlEnds DEF NotResolved, Words
  <2>2. Data'
    BY <1>1, <1>3, DataRests DEF NotResolved, server, TypeOK, Data
  <2> QED BY <1>1, <2>1, <2>2 DEF TypeOK
<1> QED BY <1>2, <1>3

\* What resolving the next argument comes to.
LEMMA ResolveCases ==
  ASSUME TypeOK, NEW o, Given \/ Resolve(o) \/ Mention(o)
  PROVE  LET a == Head(todo) IN
         /\ UNCHANGED <<server, cmd, letter, room, seen, reports>>
         /\ pc \in {"resolve_add", "resolve_remove", "mention"}
         /\ \/ IsId(a) /\ a[2] \in People /\ Found(a[2])
            \/ /\ ~IsId(a) /\ pc # "mention"
               /\ \E p \in Roughly[a[2]] : p \in People /\ Found(p)
            \/ /\ ~IsId(a) /\ pc = "mention" /\ Alone(a)
               /\ \E p \in Exactly[a[2]] : p \in People /\ Found(p)
            \/ NotResolved
<1>1. pc \in {"resolve_add", "resolve_remove", "mention"}
  BY DEF Given, Resolve, Mention
<1>2. Head(todo) \in ToSet(todo)
  BY <1>1, TodoFacts
<1>3. /\ IsId(Head(todo)) => Head(todo)[2] \in People
      /\ ~IsId(Head(todo)) => /\ Roughly[Head(todo)[2]] \subseteq People
                              /\ Exactly[Head(todo)[2]] \subseteq Roughly[Head(todo)[2]]
  BY <1>1, <1>2, ArgFacts
<1>4. ASSUME ~IsId(Head(todo)), NEW page \in Pages(Head(todo)[2]),
             NEW p \in MatchOf(page, Head(todo)[2])
      PROVE  Alone(Head(todo)) /\ p \in Exactly[Head(todo)[2]]
  <2> DEFINE n == Head(todo)[2]
             c == Cardinality(Roughly[n])
  <2>1. page \subseteq Roughly[n] /\ (c <= PageSize => page = Roughly[n])
    BY <1>4 DEF Pages
  <2>2. Cardinality(page \cap Exactly[n]) = 1 /\ p \in Exactly[n]
    BY <1>4 DEF MatchOf
  <2>3. CASE c <= PageSize
    <3>1. page \cap Exactly[n] = Exactly[n]
      BY <2>1, <2>3, <1>3, <1>4
    <3> QED BY <2>2, <3>1 DEF Alone
  <2>4. CASE ~(c <= PageSize)
    <3>1. c \in Nat
      <4>1. Roughly[n] \subseteq People
        BY <1>3, <1>4
      <4> QED BY <4>1, MadeInStepsAssumption, FS_Subset, FS_CardinalityType
    <3>2. c > PageSize
      BY <2>4, <3>1, Sizes
    <3> QED BY <2>2, <3>2 DEF Alone
  <2> QED BY <2>3, <2>4
<1>5. CASE Given \/ Resolve(o)
  BY <1>1, <1>3, <1>5 DEF Given, Resolve
<1>6. CASE Mention(o)
  BY <1>1, <1>3, <1>4, <1>6 DEF Mention
<1> QED BY <1>5, <1>6

\* So resolving a name or an id keeps the types.
LEMMA TypesResolve ==
  ASSUME TypeOK, NEW o, Given \/ Resolve(o) \/ Mention(o)
  PROVE  TypeOK'
  BY ResolveCases, TypesFound, TypesNotResolved

\* The recipients of an answer come from the command and the original.
LEMMA TypesOriginal ==
  ASSUME TypeOK, NEW o, Original(o)
  PROVE  TypeOK'
<1>1. cmd' = cmd /\ pc \in StageSet
  BY DEF Original, TypeOK, Control
<1>2. Control'
  BY <1>1, ControlProceeds, ControlEnds DEF Original, Words
<1>3. letter' \in [to : Seq(Addresses), cc : Seq(Addresses)]
  <2>1. /\ cmd.to \in Seq(Addresses) /\ cmd.cc \in Seq(Addresses)
        /\ cmd.original.to \in Seq(Addresses) /\ cmd.original.cc \in Seq(Addresses)
        /\ <<cmd.original.from>> \in Seq(Addresses)
    BY WellFormedCommand DEF WellFormed, IsSeq, Addresses
  <2>2. \A xs, ys \in Seq(Addresses) : FoldLeft(appendUnique, xs, ys) \in Seq(Addresses)
    BY AppendUniqueFold
  <2> HIDE DEF Addresses
  <2>3. Replied \in [to : Seq(Addresses), cc : Seq(Addresses)]
    BY <2>1, <2>2 DEF Replied
  <2> QED BY <2>1, <2>3 DEF Original, TypeOK, Data
<1>4. Data'
  BY <1>1, <1>3, SameCommand DEF Original, server, TypeOK, Data
<1> QED BY <1>1, <1>2, <1>4 DEF TypeOK

\* The recipients of a new letter come from the command.
LEMMA TypesCompose ==
  ASSUME TypeOK, NEW o, Compose(o)
  PROVE  TypeOK'
<1>1. cmd' = cmd /\ pc \in StageSet
  BY DEF Compose, TypeOK, Control
<1>2. Control'
  BY <1>1, ControlProceeds, ControlEnds DEF Compose, Words
<1>3. letter' \in [to : Seq(Addresses), cc : Seq(Addresses)]
  <2>1. cmd.to \in Seq(Addresses) /\ cmd.cc \in Seq(Addresses)
    BY WellFormedCommand DEF WellFormed, IsSeq, Addresses
  <2> QED BY <2>1 DEF Compose, Composed, TypeOK, Data
<1>4. Data'
  BY <1>1, <1>3, SameCommand DEF Compose, server, TypeOK, Data
<1> QED BY <1>1, <1>2, <1>4 DEF TypeOK

\* A draft keeps the types.
LEMMA TypesDraft ==
  ASSUME TypeOK, NEW o, Draft(o)
  PROVE  TypeOK'
<1>1. cmd' = cmd /\ pc \in StageSet
  BY DEF Draft, TypeOK, Control
<1>2. Control'
  <2>1. NextOf(pc) = "send" /\ NextOf(pc) \in StageSet \cup {"over"}
    BY <1>1, WellFormedCommand, AfterStage DEF Draft, NextOf
  <2>2. "failed" \in Words /\ "saved" \in Words /\ "send" \in StageSet
    BY <2>1 DEF Words
  <2> QED BY <1>1, <2>2, ControlGoes, ControlEnds DEF Draft
<1>3. letters' \in Seq(LetterRecords)
  BY EffectsTyped DEF Draft, TypeOK, Data, LetterRecords
<1>4. Data'
  BY <1>1, <1>3, SameCommand DEF LetterRecords, Draft, client, TypeOK, Data
<1> QED BY <1>1, <1>2, <1>4 DEF TypeOK

\* Sending the draft changes only that it is sent.
LEMMA TypesSend ==
  ASSUME TypeOK, NEW o, Send(o)
  PROVE  TypeOK'
<1>1. cmd' = cmd
  BY DEF Send
<1>2. Control'
  BY <1>1, ControlEnds DEF Send, Words
<1>3. letters' \in Seq(LetterRecords)
  BY EffectsTyped DEF Send, TypeOK, Data, LetterRecords
<1>4. Data'
  BY <1>1, <1>3, SameCommand DEF LetterRecords, Send, client, TypeOK, Data
<1> QED BY <1>1, <1>2, <1>4 DEF TypeOK

\* An event keeps the types.
LEMMA TypesEvent ==
  ASSUME TypeOK, NEW o, Event(o)
  PROVE  TypeOK'
<1>1. cmd' = cmd /\ pc \in StageSet
  BY DEF Event, TypeOK, Control
<1>2. Control'
  BY <1>1, ControlProceeds, ControlEnds DEF Event, Words
<1>3. events' \in Seq(EventRecords)
  <2>1. events' = events \/ \E named \in BOOLEAN : events' = Made(named)
    <3>1. \A named \in BOOLEAN : (o = "ok" /\ named) \in BOOLEAN
      BY Zenon
    <3> QED BY <3>1, Zenon DEF Event
  <2>2. events \in Seq(EventRecords)
    BY DEF TypeOK, Data, EventRecords
  <2> QED BY <2>1, <2>2, EffectsTyped
<1>4. Data'
  BY <1>1, <1>3, SameCommand DEF EventRecords, Event, client, TypeOK, Data
<1> QED BY <1>1, <1>2, <1>4 DEF TypeOK

\* The check of the scopes for rooms keeps the types.
LEMMA TypesRoomScopes ==
  ASSUME TypeOK, NEW o, RoomScopes(o)
  PROVE  TypeOK'
<1>1. cmd' = cmd /\ pc \in StageSet
  BY DEF RoomScopes, TypeOK, Control
<1>2. Control'
  BY <1>1, ControlProceeds DEF RoomScopes
<1>3. warned' \in BOOLEAN
  BY Zenon DEF RoomScopes
<1>4. Data'
  BY <1>1, <1>3, DataRests DEF RoomScopes, server
<1> QED BY <1>1, <1>2, <1>4 DEF TypeOK

\* The room that a keyword leads to is in the list and not disabled.
LEMMA ResolvedRoom ==
  \/ resolveRoomID = None
  \/ \E k \in DOMAIN RoomList : /\ RoomList[k] = [room |-> resolveRoomID, enabled |-> TRUE]
                                /\ resolveRoomID \in Rooms
<1> DEFINE i == SelectInSeq(RoomList, LAMBDA r : r.enabled)
<1>1. i = 0 \/ (i \in DOMAIN RoomList /\ RoomList[i].enabled)
  <2> DEFINE I == {k \in 1..Len(RoomList) : RoomList[k].enabled}
  <2>1. i = IF I # {} THEN Min(I) ELSE 0
    BY Zenon DEF SelectInSeq
  <2>2. I \subseteq Nat /\ DOMAIN RoomList = 1..Len(RoomList)
    BY Sizes
  <2>3. I # {} => Min(I) \in I
    BY <2>2, MinOf
  <2> HIDE DEF i
  <2> QED BY <2>1, <2>2, <2>3
<1>2. resolveRoomID = IF i = 0 THEN None ELSE RoomList[i].room
  BY Zenon DEF resolveRoomID
<1> HIDE DEF i
<1>3. CASE i = 0
  BY <1>2, <1>3
<1>4. CASE i # 0
  <2>0. RoomList[i].enabled /\ i \in DOMAIN RoomList
    BY <1>1, <1>4
  <2>1. RoomList[i] \in [room : Rooms, enabled : BOOLEAN]
    <3> DEFINE R == [room : Rooms, enabled : BOOLEAN]
    <3>1. RoomList \in Seq(R)
      BY MadeInStepsAssumption
    <3> HIDE DEF R
    <3>2. RoomList[i] \in R
      BY <2>0, <3>1
    <3> QED BY <3>2 DEF R
  <2>2. RoomList[i] = [room |-> RoomList[i].room, enabled |-> RoomList[i].enabled]
    BY <2>1
  <2>3. RoomList[i].enabled = TRUE
    BY <2>0, <2>1
  <2>4. resolveRoomID = RoomList[i].room
    BY <1>2, <1>4
  <2> QED BY <2>1, <2>2, <2>3, <2>4, <1>1, <1>4
<1> QED BY <1>3, <1>4

\* Looking for the room keeps the types.
LEMMA TypesRoom ==
  ASSUME TypeOK, NEW o, Room(o)
  PROVE  TypeOK'
<1>1. cmd' = cmd /\ pc \in StageSet
  BY DEF Room, TypeOK, Control
<1>2. Control'
  <2>1. "invite" \in StageSet
    BY <1>1, WellFormedCommand, StageKinds DEF Room, StageSet
  <2> QED BY <1>1, <2>1, ControlProceeds, ControlGoes DEF Room
<1>3. warned' \in BOOLEAN
  BY Zenon DEF Room
<1>4. room' \in EveryRoom
  <2>1. cmd.room # << >>
    BY <1>1, WellFormedCommand, StageKinds DEF Room
  <2>2. resolveRoomID \in EveryRoom
    BY ResolvedRoom DEF EveryRoom
  <2>3. cmd.room[2] \in EveryRoom /\ None \in EveryRoom
    BY <2>1 DEF EveryRoom
  <2> QED BY <2>2, <2>3 DEF Room
<1>5. Data'
  BY <1>1, <1>3, <1>4, SameCommand DEF Room, server, TypeOK, Data
<1> QED BY <1>1, <1>2, <1>5 DEF TypeOK

\* Asking whether the room is taken keeps the types.
LEMMA TypesBusy ==
  ASSUME TypeOK, NEW o, Busy(o)
  PROVE  TypeOK'
<1>1. cmd' = cmd /\ pc \in StageSet
  BY DEF Busy, TypeOK, Control
<1>2. Control'
  BY <1>1, ControlProceeds, ControlEnds DEF Busy, Words
<1>3. warned' \in BOOLEAN
  BY Zenon DEF Busy
<1>4. Data'
  BY <1>1, <1>3, DataRests DEF Busy, server
<1> QED BY <1>1, <1>2, <1>4 DEF TypeOK

\* The invitation keeps the types.
LEMMA TypesInvite ==
  ASSUME TypeOK, NEW o, Invite(o)
  PROVE  TypeOK'
<1>1. cmd' = cmd /\ pc \in StageSet
  BY DEF Invite, TypeOK, Control
<1>2. Control'
  BY <1>1, ControlProceeds DEF Invite
<1>3. warned' \in BOOLEAN
  BY Zenon DEF Invite
<1>4. events' \in Seq(EventRecords)
  BY EffectsTyped DEF Invite, TypeOK, Data, EventRecords
<1>5. Data'
  BY <1>1, <1>3, <1>4, SameCommand DEF EventRecords, Invite, TypeOK, Data
<1> QED BY <1>1, <1>2, <1>5 DEF TypeOK

\* Adding and removing members keeps the types.
LEMMA TypesChange ==
  ASSUME TypeOK, NEW o, AddMembers(o) \/ RemoveMembers(o)
  PROVE  TypeOK'
<1>1. cmd' = cmd /\ pc \in StageSet
  BY DEF AddMembers, RemoveMembers, Change, TypeOK, Control
<1>2. Control'
  BY <1>1, ControlProceeds, ControlEnds DEF AddMembers, RemoveMembers, Change, Words
<1>3. Data'
  BY <1>1, SameCommand DEF AddMembers, RemoveMembers, Change, TypeOK, Data
<1> QED BY <1>1, <1>2, <1>3 DEF TypeOK

\* Deleting one thing keeps the types.
LEMMA TypesEach ==
  ASSUME TypeOK, NEW o, Each(o)
  PROVE  TypeOK'
<1>1. cmd' = cmd
  BY DEF Each
<1>2. Control'
  BY <1>1, ControlNext DEF Each
<1>3. Data'
  BY <1>1, DataRests DEF Each, TypeOK, Data
<1> QED BY <1>1, <1>2, <1>3 DEF TypeOK

\* The batch and the rest of the ids.
LEMMA BatchFacts ==
  ASSUME TypeOK, pc = "batch"
  PROVE  /\ Len(Batch) \in 1..BatchSize /\ IsSeq(Rest)
         /\ ToSet(todo) = ToSet(Batch) \cup ToSet(Rest)
<1> DEFINE n == Len(todo)
           m == BatchEnd
           S == ToSet(todo)
<1>1. IsSeq(todo) /\ todo # << >>
  BY TodoFacts
<1>2. n \in Nat /\ n > 0 /\ DOMAIN todo = 1..n /\ todo \in Seq(S)
  BY <1>1, SeqFacts
<1>3. BatchSize \in Nat /\ BatchSize > 0
  BY Sizes
<1>4. m \in 1..n /\ m <= BatchSize /\ m \in Nat
  BY <1>2, <1>3 DEF BatchEnd
<1> HIDE DEF n, m
<1>5. /\ Len(Batch) = m /\ Batch \in Seq(S)
      /\ \A i \in 1..m : Batch[i] = todo[i]
  BY <1>2, <1>4 DEF Batch, m
<1>6. /\ Rest \in Seq(S) /\ Len(Rest) = n - m
      /\ \A i \in 1..(n - m) : Rest[i] = todo[m + i]
  <2>1. Rest = SubSeq(todo, m + 1, n)
    BY DEF Rest, m, n
  <2>2. /\ SubSeq(todo, m + 1, n) \in Seq(S)
        /\ Len(SubSeq(todo, m + 1, n)) = IF m + 1 <= n THEN n - (m + 1) + 1 ELSE 0
        /\ \A i \in 1..(n - (m + 1) + 1) : SubSeq(todo, m + 1, n)[i] = todo[(m + 1) + i - 1]
    BY <1>2, <1>4, SubSeqProperties DEF n
  <2>3. n - (m + 1) + 1 = n - m /\ \A i \in 1..(n - m) : (m + 1) + i - 1 = m + i
    BY <1>2, <1>4
  <2> QED BY <2>1, <2>2, <2>3, <1>2, <1>4
<1>7. DOMAIN Batch = 1..m /\ DOMAIN Rest = 1..(n - m)
  BY <1>5, <1>6, <1>4, <1>2
<1>8. S = ToSet(Batch) \cup ToSet(Rest)
  <2>1. ASSUME NEW i \in 1..n PROVE todo[i] \in ToSet(Batch) \cup ToSet(Rest)
    <3>1. CASE i <= m
      <4>1. i \in 1..m
        BY <3>1, <1>4
      <4> QED BY <4>1, <1>5, <1>7 DEF ToSet
    <3>2. CASE ~(i <= m)
      <4>1. i - m \in 1..(n - m) /\ m + (i - m) = i
        BY <3>2, <1>4, <1>2
      <4>2. Rest[i - m] = todo[i]
        BY <4>1, <1>6
      <4> QED BY <4>1, <4>2, <1>7 DEF ToSet
    <3> QED BY <3>1, <3>2
  <2>2. \A i \in 1..m : Batch[i] \in S
    BY <1>5
  <2>3. \A i \in 1..(n - m) : Rest[i] \in S
    BY <1>6
  <2>4. S = {todo[i] : i \in 1..n}
    BY <1>2 DEF ToSet
  <2>5. /\ ToSet(Batch) = {Batch[i] : i \in 1..m}
        /\ ToSet(Rest) = {Rest[i] : i \in 1..(n - m)}
    BY <1>7 DEF ToSet
  <2>6. ToSet(Batch) \subseteq S /\ ToSet(Rest) \subseteq S
    <3> HIDE DEF S
    <3>1. {Batch[i] : i \in 1..m} \subseteq S
      BY <2>2, Zenon
    <3>2. {Rest[i] : i \in 1..(n - m)} \subseteq S
      BY <2>3, Zenon
    <3> QED BY <2>5, <3>1, <3>2
  <2>7. S \subseteq ToSet(Batch) \cup ToSet(Rest)
    <3> DEFINE T == ToSet(Batch) \cup ToSet(Rest)
    <3>1. \A i \in 1..n : todo[i] \in T
      BY <2>1
    <3> HIDE DEF T, S
    <3>2. {todo[i] : i \in 1..n} \subseteq T
      BY <3>1, Zenon
    <3> QED BY <2>4, <3>2 DEF T
  <2> QED BY <2>6, <2>7
<1>9. Len(Batch) \in 1..BatchSize
  BY <1>3, <1>4, <1>5
<1>10. IsSeq(Rest)
  BY <1>6, <1>7 DEF IsSeq, ToSet
<1> QED BY <1>8, <1>9, <1>10

\* Deleting a batch keeps the types.
LEMMA TypesBatch ==
  ASSUME TypeOK, NEW o, DeleteBatch(o)
  PROVE  TypeOK'
<1>1. cmd' = cmd /\ pc = "batch"
  BY DEF DeleteBatch
<1>2. Control'
  <2>1. CASE o # "ok"
    BY <1>1, <2>1, ControlEnds DEF DeleteBatch, Words
  <2>2. CASE o = "ok" /\ Rest = << >>
    BY <1>1, <2>2, ControlProceeds, TodoFacts DEF DeleteBatch
  <2>3. CASE o = "ok" /\ Rest # << >>
    BY <1>1, <2>3, ControlStays, BatchFacts DEF DeleteBatch
  <2> QED BY <2>1, <2>2, <2>3
<1>3. Data'
  BY <1>1, DataRests DEF DeleteBatch, TypeOK, Data
<1> QED BY <1>1, <1>2, <1>3 DEF TypeOK

\* A post keeps the types.
LEMMA TypesPost ==
  ASSUME TypeOK, NEW o, Post(o)
  PROVE  TypeOK'
<1>1. cmd' = cmd /\ pc \in StageSet
  BY DEF Post, TypeOK, Control
<1>2. Control'
  BY <1>1, ControlProceeds, ControlEnds DEF Post, Words
<1>3. posts' \in Seq([run : Nat, who : SUBSET Castings])
  BY EffectsTyped DEF Post, TypeOK, Data
<1>4. Data'
  BY <1>1, <1>3, SameCommand DEF Post, TypeOK, Data
<1> QED BY <1>1, <1>2, <1>4 DEF TypeOK

\* The types hold at first,
LEMMA TypesInit == Init => TypeOK
<1> SUFFICES ASSUME Init PROVE TypeOK
  OBVIOUS
<1>1. Control
  <2>1. Items(pc) = << >> /\ todo = << >>
    BY DEF Init, Items
  <2>2. IsSeq(todo) /\ ToSet(todo) \subseteq ToSet(Items(pc))
    BY <2>1 DEF IsSeq
  <2> QED BY <2>1, <2>2 DEF Init, Control
<1>2. Data
  <2>1. \A S : << >> \in Seq(S)
    OBVIOUS
  <2>2. None \in EveryRoom
    BY DEF EveryRoom
  <2>3. letters = << >> /\ events = << >> /\ posts = << >> /\ room = None /\ who = {}
        /\ letter = [to |-> << >>, cc |-> << >>]
    BY DEF Init
  <2>4. warned \in BOOLEAN
    BY Zenon DEF Init
  <2> QED BY <2>1, <2>2, <2>3, <2>4 DEF Data
<1> QED BY <1>1, <1>2 DEF TypeOK, Init

\* and every step keeps them.
LEMMA TypesStep ==
  ASSUME TypeOK, [Next]_vars
  PROVE  TypeOK'
<1>1. CASE Start
  BY <1>1, TypesStart
<1>2. CASE Killed
  BY <1>2, TypesKilled
<1>3. CASE \E r \in Rooms : Books(r)
  BY <1>3, TypesRests DEF Books
<1>4. CASE Given
  BY <1>4, TypesResolve
<1>5. CASE \E o \in Outcomes : Request(o)
  <2>1. PICK o \in Outcomes : Request(o)
    BY <1>5
  <2>2. CASE Resolve(o) \/ Mention(o)
    BY <2>2, TypesResolve
  <2>3. CASE Asks(o) \/ Original(o) \/ Compose(o) \/ Draft(o) \/ Send(o)
    BY <2>3, TypesAsks, TypesOriginal, TypesCompose, TypesDraft, TypesSend
  <2>4. CASE Event(o) \/ RoomScopes(o) \/ Room(o) \/ Busy(o) \/ Invite(o)
    BY <2>4, TypesEvent, TypesRoomScopes, TypesRoom, TypesBusy, TypesInvite
  <2>5. CASE AddMembers(o) \/ RemoveMembers(o) \/ Each(o) \/ DeleteBatch(o) \/ Post(o)
    BY <2>5, TypesChange, TypesEach, TypesBatch, TypesPost
  <2> QED BY <2>1, <2>2, <2>3, <2>4, <2>5 DEF Request
<1>6. CASE UNCHANGED vars
  BY <1>6, TypesRests DEF vars, server
<1> QED BY <1>1, <1>2, <1>3, <1>4, <1>5, <1>6 DEF Next

-----------------------------------------------------------------------------
(* Letters.                                                                *)

\* What was made by the runs that are over, and what is made by this one.
LEMMA PastFacts ==
  ASSUME NEW R, NEW made \in Seq(R), \A r \in R : r.run \in Nat, NEW n \in Nat
  PROVE  /\ Past(made, n) => Past(made, n + 1)
         /\ \A x \in R : Past(made, n) /\ x.run = n + 1 => Current(Append(made, x), n)
         /\ Current(made, n) =>
              /\ Past(made, n + 1) /\ Len(made) \in DOMAIN made
              /\ \A i \in DOMAIN made : i = Len(made) \/ made[i].run \in 1..n
<1> DEFINE m == Len(made)
<1>1. m \in Nat /\ DOMAIN made = 1..m /\ \A i \in 1..m : made[i] \in R /\ made[i].run \in Nat
  OBVIOUS
<1> HIDE DEF m
<1>2. Past(made, n) => Past(made, n + 1)
  BY <1>1 DEF Past
<1>3. ASSUME NEW x \in R, Past(made, n), x.run = n + 1
      PROVE  Current(Append(made, x), n)
  <2> DEFINE u == Append(made, x)
  <2>1. /\ Len(u) = m + 1 /\ DOMAIN u = 1..(m + 1) /\ u[m + 1] = x
        /\ \A i \in 1..m : u[i] = made[i]
    BY <1>1 DEF m
  <2> HIDE DEF u
  <2>2. \A i \in 1..(m + 1) : i \in 1..m \/ i = m + 1
    BY <1>1
  <2>3. m + 1 \in 1..(m + 1)
    BY <1>1
  <2>4. \A i \in 1..m : made[i].run \in 1..n
    BY <1>1, <1>3 DEF Past
  <2>5. \A i \in 1..(m + 1) : u[i].run \in 1..(n + 1)
    BY <2>1, <2>2, <2>4, <1>3
  <2>6. ASSUME NEW i \in 1..(m + 1), NEW j \in 1..(m + 1), i < j
        PROVE  u[i].run < u[j].run
    <3>1. i \in 1..m
      BY <2>6, <1>1
    <3>2. CASE j = m + 1
      <4>1. u[i].run \in 1..n /\ u[j].run = n + 1
        BY <3>1, <3>2, <2>1, <2>4, <1>3
      <4> QED BY <4>1
    <3>3. CASE j \in 1..m
      BY <3>1, <3>3, <2>1, <2>6, <1>1, <1>3 DEF Past
    <3> QED BY <2>2, <3>2, <3>3
  <2>7. u # << >>
    BY <2>1, <2>3
  <2> QED BY <2>1, <2>3, <2>5, <2>6, <2>7, <1>3 DEF Past, Current, u
<1>4. ASSUME Current(made, n)
      PROVE  /\ Past(made, n + 1) /\ m \in 1..m
             /\ \A i \in 1..m : i = m \/ made[i].run \in 1..n
  <2>1. m \in 1..m
    BY <1>1, <1>4 DEF Current, m
  <2>2. ASSUME NEW i \in 1..m, i # m PROVE made[i].run \in 1..n
    <3>1. i < m
      BY <1>1, <2>2
    <3>2. made[m].run = n + 1 /\ Past(made, n + 1)
      BY <1>4 DEF Current, m
    <3>3. made[i].run < made[m].run /\ made[i].run \in 1..(n + 1)
      BY <1>1, <2>1, <3>1, <3>2 DEF Past
    <3> QED BY <3>2, <3>3
  <2> QED BY <1>4, <2>1, <2>2 DEF Current
<1> QED BY <1>1, <1>2, <1>3, <1>4 DEF m

\* The runs of the letters.
LEMMA LettersTyped ==
  ASSUME TypeOK
  PROVE  LET n == Len(verdicts) IN
         /\ n \in Nat /\ DOMAIN verdicts = 1..n
         /\ Len(letters) \in Nat /\ DOMAIN letters = 1..Len(letters)
         /\ Past(letters, n) => Past(letters, n + 1)
         /\ Current(letters, n) =>
              /\ Past(letters, n + 1) /\ Len(letters) \in DOMAIN letters
              /\ \A i \in DOMAIN letters : i = Len(letters) \/ letters[i].run \in 1..n
<1> DEFINE R == [run : Nat, to : Seq(Addresses), cc : Seq(Addresses), sent : BOOLEAN]
<1>1. letters \in Seq(R) /\ \A r \in R : r.run \in Nat
  BY DEF TypeOK, Data
<1> HIDE DEF R
<1>2. Len(letters) \in Nat /\ DOMAIN letters = 1..Len(letters)
  BY <1>1
<1> QED BY <1>1, <1>2, RunFacts, PastFacts

\* A step that makes no letter and ends no run.
LEMMA LettersRest ==
  ASSUME LettersInv, UNCHANGED <<cmd, letters, verdicts>>, pc' = "send" <=> pc = "send"
  PROVE  LettersInv'
  BY DEF LettersInv, LetterTold

\* A run that ends, unless by saving or sending.
LEMMA LettersEnd ==
  ASSUME TypeOK, LettersInv, UNCHANGED <<cmd, letters>>, NEW w \in Words, Ends(w),
         w \notin {"sent", "saved"}, pc = "send" => w \in {"killed", "failed"}
  PROVE  LettersInv'
<1> DEFINE n == Len(verdicts)
<1>1. /\ n \in Nat /\ Len(verdicts') = n + 1 /\ DOMAIN verdicts = 1..n
      /\ DOMAIN verdicts' = 1..(n + 1)
      /\ \A r \in 1..n : verdicts'[r] = verdicts[r]
      /\ verdicts'[n + 1] = w /\ pc' = "over"
  BY AfterEnds DEF Ends, TypeOK, Control, Run
<1> HIDE DEF n
<1>2. Past(letters, n + 1)
  BY LettersTyped DEF LettersInv, n
<1>3. ASSUME NEW i \in DOMAIN letters
      PROVE  LetterTold(letters'[i], verdicts'[letters'[i].run], cmd')
  <2>1. letters[i].run \in 1..(n + 1)
    BY <1>2 DEF Past
  <2>2. CASE letters[i].run \in 1..n
    BY <2>2, <1>1 DEF LettersInv, LetterTold
  <2>3. CASE letters[i].run \notin 1..n
    <3>1. letters[i].run = n + 1
      BY <2>1, <2>3, <1>1
    <3>2. pc = "send"
      BY <2>3 DEF LettersInv, Past, n
    <3>3. i = Len(letters)
      BY <2>3, <3>2, LettersTyped DEF LettersInv, n
    <3> QED BY <3>1, <3>2, <3>3, <1>1 DEF LettersInv, LetterTold
  <2> QED BY <2>2, <2>3
<1>4. ASSUME NEW run \in 1..(n + 1), verdicts'[run] \in {"sent", "saved"}
      PROVE  \E i \in DOMAIN letters : letters[i].run = run
  <2>1. run \in 1..n
    BY <1>1, <1>4
  <2> QED BY <2>1, <1>1, <1>4 DEF LettersInv
<1> QED BY <1>1, <1>2, <1>3, <1>4 DEF LettersInv

\* A request that neither drafts nor sends.
LEMMA LettersProceed ==
  ASSUME TypeOK, LettersInv, UNCHANGED <<cmd, letters>>, Proceeds, pc \in StageSet,
         pc \notin {"draft", "send"}
  PROVE  LettersInv'
<1>1. WellFormed(cmd)
  BY WellFormedCommand
<1>2. CASE NextOf(pc) = "over"
  <2>1. Ends(IF warned' THEN "warned" ELSE "done")
    BY <1>1, <1>2, Proceeding
  <2> QED BY <2>1, LettersEnd DEF Words
<1>3. CASE NextOf(pc) # "over"
  <2>1. Goes(NextOf(pc))
    BY <1>1, <1>3, Proceeding
  <2>2. NextOf(pc) # "send"
    BY <1>1, StageOrder
  <2> QED BY <2>1, <2>2, LettersRest DEF Goes
<1> QED BY <1>2, <1>3

\* The draft is the letter of this run, saved, failed, not told or still to be sent.
LEMMA LettersDrafted ==
  ASSUME TypeOK, LettersInv, pc = "draft", cmd' = cmd, letters' = Drafted,
         \/ Goes("send") /\ ~cmd.draft
         \/ \E w \in {"failed", "saved", "killed"} : Ends(w)
  PROVE  LettersInv'
<1> DEFINE n == Len(verdicts)
           R == [run : Nat, to : Seq(Addresses), cc : Seq(Addresses), sent : BOOLEAN]
           x == [run |-> Run, to |-> letter.to, cc |-> letter.cc, sent |-> FALSE]
           u == Append(letters, x)
<1>2. LettersInv'
  <2>0. cmd' = cmd /\ letters' = u /\ pc = "draft"
    BY DEF Drafted
  <2>1. n \in Nat /\ x \in R /\ x.run = n + 1 /\ ~x.sent
    BY RunFacts DEF TypeOK, Data
  <2>2. letters \in Seq(R) /\ (\A r \in R : r.run \in Nat) /\ Past(letters, n)
    BY <2>0 DEF LettersInv, TypeOK, Data
  <2> HIDE DEF R, x
  <2>3. Len(u) = Len(letters) + 1 /\ u[Len(letters) + 1] = x /\ u \in Seq(R)
        /\ Len(letters) \in Nat /\ (\A i \in 1..Len(letters) : u[i] = letters[i])
        /\ DOMAIN letters = 1..Len(letters) /\ DOMAIN u = 1..(Len(letters) + 1)
    BY <2>1, <2>2
  <2>4. Current(u, n)
    BY <2>1, <2>2, PastFacts
  <2>5. DOMAIN verdicts = 1..n
    BY RunFacts
  <2> HIDE DEF u, n
  <2>6. \A i \in 1..Len(letters) : u[i] = letters[i] /\ u[i].run \in 1..n
    BY <2>2, <2>3 DEF Past
  <2>7. Past(u, n + 1)
    BY <2>4 DEF Current
  <2>8. CASE Goes("send") /\ ~cmd.draft
    <3>1. verdicts' = verdicts /\ pc' = "send"
      BY <2>8 DEF Goes
    <3>2. Current(u, Len(verdicts)) /\ ~u[Len(u)].sent /\ ~cmd.draft
      BY <2>1, <2>3, <2>4, <2>8 DEF n
    <3>3. ASSUME NEW i \in DOMAIN u, u[i].run \in 1..n PROVE i \in 1..Len(letters)
      <4>1. i # Len(letters) + 1
        BY <2>1, <2>3, <3>3
      <4> QED BY <4>1, <2>3
    <3>4. \A i \in DOMAIN u :
            u[i].run \in DOMAIN verdicts => LetterTold(u[i], verdicts[u[i].run], cmd)
      BY <2>5, <2>6, <2>3, <3>3 DEF LettersInv
    <3>5. \A i \in DOMAIN u :
            u[i].run \in DOMAIN verdicts' => LetterTold(u[i], verdicts'[u[i].run], cmd')
      BY <3>1, <3>4, <2>0 DEF LetterTold
    <3>6. \A run \in DOMAIN verdicts :
            verdicts[run] \in {"sent", "saved"} => \E i \in DOMAIN u : u[i].run = run
      <4>1. DOMAIN letters \subseteq DOMAIN u
        BY <2>3
      <4>2. \A i \in DOMAIN letters : u[i] = letters[i]
        BY <2>3
      <4> QED BY <4>1, <4>2 DEF LettersInv
    <3> QED BY <2>0, <3>1, <3>2, <3>5, <3>6 DEF LettersInv
  <2>9. ASSUME NEW w \in {"failed", "saved", "killed"}, Ends(w)
        PROVE  LettersInv'
    <3>1. /\ Len(verdicts') = n + 1 /\ DOMAIN verdicts' = 1..(n + 1)
          /\ \A r \in 1..n : verdicts'[r] = verdicts[r]
          /\ verdicts'[n + 1] = w /\ pc' = "over"
      BY <2>9, AfterEnds DEF Ends, TypeOK, Control, Run, Words, n
    <3>2. ASSUME NEW i \in DOMAIN u PROVE LetterTold(u[i], verdicts'[u[i].run], cmd')
      <4>1. CASE i \in 1..Len(letters)
        <5>1. LetterTold(letters[i], verdicts[letters[i].run], cmd) /\ letters[i].run \in 1..n
          BY <4>1, <2>3, <2>5, <2>6 DEF LettersInv
        <5> QED BY <5>1, <4>1, <2>0, <2>3, <3>1 DEF LetterTold
      <4>2. CASE i = Len(letters) + 1
        BY <4>2, <2>1, <2>3, <3>1 DEF LetterTold
      <4> QED BY <4>1, <4>2, <2>3
    <3>3. ASSUME NEW run \in 1..(n + 1), verdicts'[run] \in {"sent", "saved"}
          PROVE  \E i \in DOMAIN u : u[i].run = run
      <4>1. CASE run \in 1..n
        <5>1. PICK i \in DOMAIN letters : letters[i].run = run
          BY <4>1, <2>5, <3>1, <3>3 DEF LettersInv
        <5> QED BY <5>1, <2>3
      <4>2. CASE run = n + 1
        <5>1. Len(letters) + 1 \in DOMAIN u
          BY <2>3
        <5> QED BY <5>1, <4>2, <2>1, <2>3
      <4> QED BY <4>1, <4>2, <2>1 DEF n
    <3> QED BY <2>0, <2>7, <3>1, <3>2, <3>3 DEF LettersInv
  <2> QED BY <2>8, <2>9
<1> QED BY <1>2

\* A request that makes no draft is the end.
LEMMA LettersDraft ==
  ASSUME TypeOK, LettersInv, NEW o, Draft(o)
  PROVE  LettersInv'
<1>0. pc = "draft" /\ cmd' = cmd
  BY DEF Draft
<1>1. CASE ~Took(o)
  <2>1. letters' = letters /\ Ends("failed")
    BY <1>1 DEF Draft, Took
  <2> QED BY <1>0, <2>1, LettersEnd DEF Words
<1>2. CASE Took(o)
  <2>1. letters' = Drafted
    BY <1>2 DEF Draft
  <2>2. \/ Goes("send") /\ ~cmd.draft
        \/ \E w \in {"failed", "saved", "killed"} : Ends(w)
    BY DEF Draft
  <2> QED BY <1>0, <2>1, <2>2, LettersDrafted
<1> QED BY <1>1, <1>2

\* Sending concerns the draft of this run, whatever was drafted before.
LEMMA LettersSent ==
  ASSUME TypeOK, LettersInv, pc = "send", cmd' = cmd, letters' = Sent,
         NEW w \in {"sent", "failed", "killed"}, Ends(w)
  PROVE  LettersInv'
<1> DEFINE n == Len(verdicts)
           m == Len(letters)
<1>0. pc = "send" /\ cmd' = cmd
  OBVIOUS
<1>2. LettersInv'
  <2>1. Ends(w)
    OBVIOUS
  <2>2. letters' = [letters EXCEPT ![m] = [@ EXCEPT !.sent = TRUE]]
    BY DEF Sent
  <2>3. /\ Len(verdicts') = n + 1 /\ DOMAIN verdicts' = 1..(n + 1)
        /\ \A r \in 1..n : verdicts'[r] = verdicts[r]
        /\ verdicts'[n + 1] = w /\ pc' = "over"
    BY <2>1, AfterEnds DEF Ends, TypeOK, Control, Run, Words
  <2>4. /\ n \in Nat /\ DOMAIN verdicts = 1..n /\ m \in Nat /\ DOMAIN letters = 1..m
        /\ Past(letters, n + 1) /\ m \in DOMAIN letters
        /\ \A i \in 1..m : i = m \/ letters[i].run \in 1..n
        /\ letters[m].run = n + 1
    BY <1>0, LettersTyped DEF LettersInv, Current
  <2>5. ~cmd.draft
    BY <1>0 DEF LettersInv
  <2>6. /\ DOMAIN letters' = 1..m
        /\ \A i \in 1..m : letters'[i].run = letters[i].run
        /\ \A i \in 1..m : i # m => letters'[i] = letters[i]
        /\ letters'[m].sent = TRUE
    <3> DEFINE R == [run : Nat, to : Seq(Addresses), cc : Seq(Addresses), sent : BOOLEAN]
    <3>1. letters \in Seq(R)
      BY DEF TypeOK, Data
    <3>2. \A r \in R : /\ [r EXCEPT !.sent = TRUE].run = r.run
                       /\ [r EXCEPT !.sent = TRUE].sent = TRUE
      OBVIOUS
    <3> HIDE DEF R, m
    <3>3. letters[m] \in R
      BY <3>1, <2>4
    <3>4. letters'[m] = [letters[m] EXCEPT !.sent = TRUE]
      BY <2>2, <2>4
    <3>5. DOMAIN letters' = 1..m /\ \A i \in 1..m : i # m => letters'[i] = letters[i]
      BY <2>2, <2>4
    <3>6. letters'[m].run = letters[m].run /\ letters'[m].sent = TRUE
      BY <3>2, <3>3, <3>4
    <3>7. \A i \in 1..m : letters'[i].run = letters[i].run
      BY <3>5, <3>6
    <3> QED BY <3>5, <3>6, <3>7
  <2> HIDE DEF n, m
  <2>7. Past(letters', n + 1)
    BY <2>4, <2>6 DEF Past
  <2>8. ASSUME NEW i \in 1..m PROVE LetterTold(letters'[i], verdicts'[letters'[i].run], cmd')
    <3>1. CASE i = m
      BY <3>1, <1>0, <2>3, <2>4, <2>5, <2>6 DEF LetterTold
    <3>2. CASE i # m
      <4>1. letters[i].run \in 1..n /\ LetterTold(letters[i], verdicts[letters[i].run], cmd)
        BY <3>2, <2>4 DEF LettersInv
      <4> QED BY <4>1, <3>2, <1>0, <2>3, <2>6 DEF LetterTold
    <3> QED BY <3>1, <3>2
  <2>9. ASSUME NEW run \in 1..(n + 1), verdicts'[run] \in {"sent", "saved"}
        PROVE  \E i \in 1..m : letters'[i].run = run
    <3>1. CASE run \in 1..n
      <4>1. PICK i \in DOMAIN letters : letters[i].run = run
        BY <3>1, <2>3, <2>4, <2>9 DEF LettersInv
      <4> QED BY <4>1, <2>4, <2>6
    <3>2. CASE run = n + 1
      BY <3>2, <2>4, <2>6
    <3> QED BY <3>1, <3>2, <2>4
  <2> QED BY <2>3, <2>6, <2>7, <2>8, <2>9 DEF LettersInv
<1> QED BY <1>2

\* After an error the draft may have been sent or not.
LEMMA LettersSend ==
  ASSUME TypeOK, LettersInv, NEW o, Send(o)
  PROVE  LettersInv'
<1>0. pc = "send" /\ cmd' = cmd
  BY DEF Send
<1>1. CASE ~Took(o)
  <2>1. letters' = letters /\ Ends("failed")
    BY <1>1 DEF Send, Took
  <2> QED BY <1>0, <2>1, LettersEnd DEF Words
<1>2. CASE Took(o)
  <2>1. letters' = Sent /\ \E w \in {"sent", "failed", "killed"} : Ends(w)
    BY <1>2 DEF Send
  <2> QED BY <1>0, <2>1, LettersSent
<1> QED BY <1>1, <1>2

\* Where the command can go in one step, drafting and sending left aside.
Moves ==
  \/ UNCHANGED <<pc, verdicts>>
  \/ pc \in StageSet /\ Proceeds
  \/ pc = "room" /\ Goes("invite")
  \/ pc = "over" /\ Goes(FirstStage)
  \/ pc # "over" /\ (Ends("killed") \/ Ends("failed"))
  \/ pc = "busy" /\ Ends("occupied")
  \/ pc = "event" /\ Ends("done")

\* Resolving goes on within the stage, to the next one or to the end,
LEMMA ResolveMoves ==
  ASSUME TypeOK, NEW o, Given \/ Resolve(o) \/ Mention(o)
  PROVE  Moves /\ pc \in {"resolve_add", "resolve_remove", "mention"}
<1>1. pc \in StageSet /\ pc # "over" /\ pc \in {"resolve_add", "resolve_remove", "mention"}
  BY ResolveCases, TodoFacts
<1>2. ASSUME NEW p, Found(p) PROVE Moves
  BY <1>1, <1>2 DEF Found, Moves
<1>3. ASSUME NotResolved PROVE Moves
  BY <1>1, <1>3 DEF NotResolved, Moves
<1> QED BY <1>1, <1>2, <1>3, ResolveCases

\* and so does every request but drafting and sending, which make letters.
LEMMA OtherMoves ==
  ASSUME TypeOK, NEW o \in Outcomes, Request(o), ~Draft(o), ~Send(o)
  PROVE  Moves /\ cmd' = cmd /\ letters' = letters /\ pc # "over"
<1>0. pc \in StageSet \cup {"over"}
  BY DEF TypeOK, Control
<1>1. CASE Asks(o)
  BY <1>0, <1>1 DEF Asks, Moves, server
<1>2. CASE Resolve(o) \/ Mention(o)
  BY <1>0, <1>2, ResolveMoves, ResolveCases DEF server
<1>3. CASE Original(o)
  BY <1>0, <1>3 DEF Original, Moves, server
<1>4. CASE Compose(o)
  BY <1>0, <1>4 DEF Compose, Moves, server
<1>5. CASE Event(o)
  BY <1>0, <1>5 DEF Event, Moves
<1>6. CASE RoomScopes(o)
  BY <1>0, <1>6 DEF RoomScopes, Moves, server
<1>7. CASE Room(o)
  BY <1>0, <1>7 DEF Room, Moves, server
<1>8. CASE Busy(o)
  BY <1>0, <1>8 DEF Busy, Moves, server
<1>9. CASE Invite(o)
  BY <1>0, <1>9 DEF Invite, Moves
<1>10. CASE AddMembers(o) \/ RemoveMembers(o)
  BY <1>0, <1>10 DEF AddMembers, RemoveMembers, Change, Moves
<1>11. CASE Each(o)
  BY <1>0, <1>11 DEF Each, Moves
<1>12. CASE DeleteBatch(o)
  BY <1>0, <1>12 DEF DeleteBatch, Moves
<1>13. CASE Post(o)
  BY <1>0, <1>13 DEF Post, Moves
<1> QED BY <1>1, <1>2, <1>3, <1>4, <1>5, <1>6, <1>7, <1>8, <1>9, <1>10, <1>11, <1>12, <1>13
        DEF Request

\* A move of any other kind leaves what is told of letters true.
LEMMA LettersMove ==
  ASSUME TypeOK, LettersInv, UNCHANGED <<cmd, letters>>, Moves, pc \notin {"draft", "send"}
         \/ UNCHANGED <<pc, verdicts>> \/ Ends("killed")
  PROVE  LettersInv'
<1>1. CASE UNCHANGED <<pc, verdicts>>
  BY <1>1, LettersRest
<1>2. CASE Ends("killed")
  BY <1>2, LettersEnd DEF Words
<1>3. CASE pc \notin {"draft", "send"} /\ pc \in StageSet /\ Proceeds
  BY <1>3, LettersProceed
<1>4. CASE pc = "room" /\ Goes("invite")
  BY <1>4, LettersRest DEF Goes
<1>5. CASE pc = "over" /\ Goes(FirstStage)
  <2>1. FirstStage # "send"
    BY DEF FirstStage
  <2> QED BY <1>5, <2>1, LettersRest DEF Goes
<1>6. CASE Ends("failed") /\ pc \notin {"draft", "send"}
  BY <1>6, LettersEnd DEF Words
<1>7. CASE (pc = "busy" /\ Ends("occupied")) \/ (pc = "event" /\ Ends("done"))
  BY <1>7, LettersEnd DEF Words
<1> QED BY <1>1, <1>2, <1>3, <1>4, <1>5, <1>6, <1>7 DEF Moves

\* What is told of letters stays true in every step.
LEMMA LettersStep ==
  ASSUME TypeOK, LettersInv, [Next]_vars
  PROVE  LettersInv'
<1>1. CASE Start
  <2>1. cmd' = cmd /\ letters' = letters /\ pc = "over" /\ Goes(FirstStage)
    BY <1>1, WellFormedCommand, Starting DEF Start, server, Over
  <2> QED BY <2>1, LettersMove DEF Moves
<1>2. CASE Killed
  <2>1. cmd' = cmd /\ Ends("killed") /\ "killed" \in Words /\ pc # "over"
    BY <1>2, KilledCases
  <2>2. CASE letters' = letters
    BY <2>1, <2>2, LettersEnd
  <2>3. CASE pc = "draft" /\ letters' = Drafted
    BY <2>1, <2>3, LettersDrafted
  <2>4. CASE pc = "send" /\ letters' = Sent
    BY <2>1, <2>4, LettersSent
  <2> QED BY <1>2, <2>2, <2>3, <2>4, KilledCases
<1>3. CASE UNCHANGED vars \/ \E r \in Rooms : Books(r)
  <2>1. UNCHANGED <<cmd, letters, pc, verdicts>>
    BY <1>3 DEF vars, server, Books
  <2> QED BY <2>1, LettersMove DEF Moves
<1>4. CASE Given
  <2>1. cmd' = cmd /\ letters' = letters /\ pc \notin {"draft", "send"} /\ Moves
    BY <1>4, ResolveMoves, ResolveCases DEF server
  <2> QED BY <2>1, LettersMove
<1>5. CASE \E o \in Outcomes : Request(o)
  <2>1. PICK o \in Outcomes : Request(o)
    BY <1>5
  <2>2. CASE Draft(o) \/ Send(o)
    BY <2>2, LettersDraft, LettersSend
  <2>3. CASE ~Draft(o) /\ ~Send(o)
    <3>1. pc \notin {"draft", "send"}
      BY <2>1, <2>3 DEF Request, Asks, Resolve, Mention, Original, Compose, Event, RoomScopes,
                        Room, Busy, Invite, AddMembers, RemoveMembers, Each, DeleteBatch, Post
    <3> QED BY <2>1, <2>3, <3>1, OtherMoves, LettersMove
  <2> QED BY <2>2, <2>3
<1> QED BY <1>1, <1>2, <1>3, <1>4, <1>5 DEF Next

-----------------------------------------------------------------------------
(* Replies.                                                                *)

\* The recipients of a reply: the sender, those given, and with --all the others.
LEMMA RepliedReaches ==
  ASSUME WellFormed(cmd)
  PROVE  Reaches(Replied, cmd)
<1> DEFINE from == IF cmd.to = << >> /\ cmd.original.from # None
                     THEN <<cmd.original.from>> ELSE cmd.to
<1>1. /\ cmd.to \in Seq(Addresses) /\ cmd.cc \in Seq(Addresses)
      /\ cmd.original.to \in Seq(Addresses) /\ cmd.original.cc \in Seq(Addresses)
      /\ cmd.original.from \in Addresses
      /\ None \notin ToSet(cmd.original.to)
  BY DEF WellFormed, IsSeq, Addresses
<1>2. from \in Seq(Addresses)
  BY <1>1
<1>3. IF cmd.to = << >> THEN ToSet(from) = {cmd.original.from} \ {None}
                        ELSE ToSet(from) = ToSet(cmd.to)
  <2>1. ToSet(<< >>) = {}
    BY DEF ToSet
  <2>2. \A x : ToSet(<<x>>) = {x}
    BY DEF ToSet
  <2> QED BY <2>1, <2>2
<1>4. IsInjective(cmd.to) => IsInjective(from)
  <2>1. \A x : IsInjective(<<x>>)
    BY DEF IsInjective
  <2> QED BY <2>1
<1> HIDE DEF from
<1>5. CASE cmd.kind = "mail_reply_all"
  <2> DEFINE to == FoldLeft(appendUnique, from, cmd.original.to)
             cc == FoldLeft(appendUnique, cmd.cc, cmd.original.cc)
  <2>1. /\ ToSet(to) = ToSet(from) \cup ToSet(cmd.original.to)
        /\ IsInjective(from) => IsInjective(to)
    BY <1>1, <1>2, AppendUniqueFold
  <2>2. /\ ToSet(cc) = ToSet(cmd.cc) \cup ToSet(cmd.original.cc)
        /\ IsInjective(cmd.cc) => IsInjective(cc)
    BY <1>1, AppendUniqueFold
  <2>3. Replied = [to |-> to, cc |-> cc]
    BY <1>5, Zenon DEF Replied, from
  <2> HIDE DEF to, cc
  <2>4. Replied.to = to /\ Replied.cc = cc
    BY <2>3
  <2>5. IsInjective(cmd.to) => IsInjective(Replied.to)
    BY <1>4, <2>1, <2>4, Zenon
  <2>6. IsInjective(cmd.cc) => IsInjective(Replied.cc)
    BY <2>2, <2>4, Zenon
  <2>7. IF cmd.to = << >>
          THEN ToSet(Replied.to) \cap {cmd.original.from} = {cmd.original.from} \ {None}
          ELSE ToSet(cmd.to) \subseteq ToSet(Replied.to)
    BY <1>1, <1>3, <2>1, <2>4
  <2>8. /\ ToSet(cmd.original.to) \subseteq ToSet(Replied.to)
        /\ ToSet(cmd.original.cc) \subseteq ToSet(Replied.cc)
    BY <2>1, <2>2, <2>4
  <2> QED BY <2>5, <2>6, <2>7, <2>8 DEF Reaches
<1>6. CASE cmd.kind # "mail_reply_all"
  <2>1. Replied.to = from
    BY <1>6 DEF Replied, from
  <2>2. IF cmd.to = << >>
          THEN ToSet(Replied.to) \cap {cmd.original.from} = {cmd.original.from} \ {None}
          ELSE ToSet(cmd.to) \subseteq ToSet(Replied.to)
    BY <1>3, <2>1
  <2> QED BY <1>6, <2>2 DEF Reaches
<1> QED BY <1>5, <1>6

\* A step that neither composes nor drafts.
LEMMA RepliesMove ==
  ASSUME TypeOK, RepliesInv, UNCHANGED <<cmd, letters>>, Moves,
         letter' = letter, pc \notin {"draft", "send", "original", "compose"}
         \/ UNCHANGED <<pc, verdicts>> \/ Ends("killed")
  PROVE  RepliesInv'
<1>1. cmd.kind # "mail_send" /\ pc' \in {"compose", "draft"} => pc \in {"compose", "draft"}
  <2>1. CASE Goes(FirstStage)
    BY <2>1 DEF Goes, FirstStage
  <2>2. CASE Ends("killed") \/ Ends("failed") \/ Ends("occupied") \/ Ends("done") \/ UNCHANGED <<pc, verdicts>>
             \/ Goes("invite")
    BY <2>2 DEF Ends, Goes
  <2>3. CASE pc \notin {"draft", "send", "original", "compose"} /\ pc \in StageSet /\ Proceeds
    <3>1. WellFormed(cmd)
      BY WellFormedCommand
    <3>2. pc' = NextOf(pc) \/ pc' = "over"
      BY <2>3, <3>1, Proceeding DEF Goes, Ends
    <3> QED BY <2>3, <3>1, <3>2, StageOrder
  <2> QED BY <2>1, <2>2, <2>3 DEF Moves
<1> QED BY <1>1 DEF RepliesInv

\* The draft goes to those the command has composed it for,
LEMMA RepliesDrafted ==
  ASSUME TypeOK, RepliesInv, pc = "draft"
  PROVE  \A i \in DOMAIN Drafted : Reaches(Drafted[i], cmd)
<1> DEFINE x == [run |-> Run, to |-> letter.to, cc |-> letter.cc, sent |-> FALSE]
<1>2. Reaches(x, cmd)
  <2>1. x.to = letter.to /\ x.cc = letter.cc
    OBVIOUS
  <2> HIDE DEF x
  <2>2. cmd.kind # "mail_send" => Reaches(letter, cmd)
    BY DEF RepliesInv
  <2> QED BY <2>1, <2>2, Zenon DEF Reaches
<1>3. Drafted = Append(letters, x)
  BY DEF Drafted
<1>4. letters \in Seq(LetterRecords)
  BY DEF TypeOK, Data, LetterRecords
<1> HIDE DEF x
<1>5. \A i \in DOMAIN Append(letters, x) :
        \/ Append(letters, x)[i] = x
        \/ i \in DOMAIN letters /\ Append(letters, x)[i] = letters[i]
  BY <1>4, AppendedAt
<1> QED BY <1>2, <1>3, <1>5 DEF RepliesInv

\* and so does the letter that is sent.
LEMMA RepliesSent ==
  ASSUME TypeOK, RepliesInv
  PROVE  \A i \in DOMAIN Sent : Reaches(Sent[i], cmd)
<1> DEFINE m == Len(letters)
<1>2. Sent = [letters EXCEPT ![m].sent = TRUE]
  BY DEF Sent
<1>3. letters \in Seq(LetterRecords)
  BY DEF TypeOK, Data, LetterRecords
<1>4. \A r \in LetterRecords : /\ [r EXCEPT !.sent = TRUE].to = r.to
                             /\ [r EXCEPT !.sent = TRUE].cc = r.cc
  BY DEF LetterRecords
<1> HIDE DEF m
<1>5. ASSUME NEW i \in DOMAIN Sent
      PROVE  i \in DOMAIN letters /\ Sent[i].to = letters[i].to /\ Sent[i].cc = letters[i].cc
  <2>1. i \in DOMAIN letters
    BY <1>2
  <2>2. letters[i] \in LetterRecords
    BY <1>3, <2>1
  <2>3. Sent[i] = letters[i] \/ Sent[i] = [letters[i] EXCEPT !.sent = TRUE]
    BY <1>2, <2>1
  <2> QED BY <2>1, <2>2, <2>3, <1>4
<1>6. ASSUME NEW i \in DOMAIN Sent PROVE Reaches(Sent[i], cmd)
  <2>1. Reaches(letters[i], cmd)
    BY <1>5 DEF RepliesInv
  <2> QED BY <2>1, <1>5, Zenon DEF Reaches
<1> QED BY <1>6

\* In every step the letters reach whom they have to.
LEMMA RepliesStep ==
  ASSUME TypeOK, RepliesInv, [Next]_vars
  PROVE  RepliesInv'
<1>1. CASE Start
  <2>1. cmd' = cmd /\ letters' = letters /\ pc' = FirstStage
    BY <1>1, WellFormedCommand, Starting DEF Start, server, Goes
  <2>2. pc' \notin {"compose", "draft"}
    BY <2>1 DEF FirstStage
  <2> QED BY <2>1, <2>2 DEF RepliesInv
<1>2. CASE Killed
  <2>1. cmd' = cmd /\ pc' = "over"
    BY <1>2, KilledCases DEF Ends
  <2>2. CASE letters' = letters
    BY <2>1, <2>2 DEF RepliesInv
  <2>3. CASE pc = "draft" /\ letters' = Drafted
    BY <2>1, <2>3, RepliesDrafted DEF RepliesInv
  <2>4. CASE pc = "send" /\ letters' = Sent
    BY <2>1, <2>4, RepliesSent DEF RepliesInv
  <2> QED BY <1>2, <2>2, <2>3, <2>4, KilledCases
<1>3. CASE UNCHANGED vars \/ \E r \in Rooms : Books(r)
  <2>1. UNCHANGED <<cmd, letters, letter, pc>>
    BY <1>3 DEF vars, server, Books
  <2> QED BY <2>1 DEF RepliesInv
<1>4. CASE Given
  <2>1. cmd' = cmd /\ letters' = letters /\ letter' = letter /\ Moves
        /\ pc \in {"resolve_add", "resolve_remove", "mention"}
    BY <1>4, ResolveMoves, ResolveCases DEF server
  <2> QED BY <2>1, RepliesMove
<1>5. CASE \E o \in Outcomes : Request(o)
  <2>1. PICK o \in Outcomes : Request(o)
    BY <1>5
  <2>2. CASE Original(o)
    <3>1. cmd' = cmd /\ letters' = letters /\ pc \in StageSet
      BY <2>2 DEF Original, server, TypeOK, Control
    <3>2. pc' = "over" \/ cmd.kind = "mail_forward" \/ letter' = Replied
      BY <2>2 DEF Original, Ends
    <3>3. pc' = "over" \/ cmd.kind = "mail_forward" \/ Reaches(letter', cmd)
      BY <3>2, RepliedReaches, WellFormedCommand
    <3>4. cmd.kind = "mail_forward" => Reaches(letter', cmd)
      BY DEF Reaches
    <3> QED BY <3>1, <3>3, <3>4 DEF RepliesInv
  <2>3. CASE Compose(o)
    <3>1. cmd' = cmd /\ letters' = letters /\ pc = "compose"
          /\ (cmd.kind # "mail_send" => letter' = letter)
      BY <2>3 DEF Compose, Composed, server
    <3> QED BY <3>1 DEF RepliesInv
  <2>4. CASE Draft(o)
    <3>1. cmd' = cmd /\ letter' = letter /\ pc = "draft" /\ pc' \notin {"compose", "draft"}
      BY <2>4 DEF Draft, client, Ends, Goes
    <3>2. letters' \in {letters, Drafted}
      BY <2>4 DEF Draft
    <3>3. \A i \in DOMAIN letters' : Reaches(letters'[i], cmd)
      BY <3>1, <3>2, RepliesDrafted DEF RepliesInv
    <3> QED BY <3>1, <3>3 DEF RepliesInv
  <2>5. CASE Send(o)
    <3>1. cmd' = cmd /\ letter' = letter /\ pc = "send" /\ pc' = "over"
      BY <2>5 DEF Send, client, Ends
    <3>2. letters' \in {letters, Sent}
      BY <2>5 DEF Send
    <3>3. \A i \in DOMAIN letters' : Reaches(letters'[i], cmd)
      BY <3>2, RepliesSent DEF RepliesInv
    <3> QED BY <3>1, <3>3 DEF RepliesInv
  <2>6. CASE ~Original(o) /\ ~Compose(o) /\ ~Draft(o) /\ ~Send(o)
    <3>1. pc \notin {"draft", "send", "original", "compose"} /\ letter' = letter
      BY <2>1, <2>6 DEF Request, Asks, Resolve, Mention, Event, RoomScopes, Room, Busy, Invite,
                        AddMembers, RemoveMembers, Change, Each, DeleteBatch, Post, client
    <3> QED BY <2>1, <2>6, <3>1, OtherMoves, RepliesMove
  <2> QED BY <2>2, <2>3, <2>4, <2>5, <2>6
<1> QED BY <1>1, <1>2, <1>3, <1>4, <1>5 DEF Next

-----------------------------------------------------------------------------
(* People.                                                                 *)

\* Before the first argument nobody is found, and without arguments nobody is meant.
LEMMA Nobody ==
  ASSUME NEW args, NEW found
  PROVE  /\ Partly(cmd, args, ToSet(args), found, {}) /\ Single(args, ToSet(args))
         /\ args = << >> => Means(cmd, args, found, {}) /\ Single(args, {})
<1>1. ToSet(<< >>) = {}
  BY DEF ToSet
<1>2. args = << >> => Means(cmd, args, found, {}) /\ Single(args, {})
  BY <1>1 DEF Means, Single
<1>3. Partly(cmd, args, ToSet(args), found, {}) /\ Single(args, ToSet(args))
  BY Zenon DEF Partly, Single
<1> QED BY <1>2, <1>3

\* One argument less to treat, and one person more.
LEMMA OneMore ==
  ASSUME NEW args, NEW rest, NEW found, NEW ps, NEW h \in ToSet(args), NEW p,
         Partly(cmd, args, {h} \cup rest, found, ps), p \in Denotes(cmd, h, found)
  PROVE  /\ Partly(cmd, args, rest, found, ps \cup {p})
         /\ rest = {} => Means(cmd, args, found, ps \cup {p})
<1>1. ASSUME NEW a \in ToSet(args)
      PROVE  a \in rest \/ Denotes(cmd, a, found) \cap (ps \cup {p}) # {}
  <2>1. CASE a = h
    BY <2>1
  <2>2. CASE a # h
    BY <2>2 DEF Partly
  <2> QED BY <2>1, <2>2
<1>2. ASSUME NEW q \in ps \cup {p}
      PROVE  \E a \in ToSet(args) : q \in Denotes(cmd, a, found)
  <2>1. CASE q = p
    BY <2>1
  <2>2. CASE q # p
    BY <2>2 DEF Partly
  <2> QED BY <2>1, <2>2
<1> QED BY <1>1, <1>2 DEF Partly, Means

\* One name less to treat, which is that of one person only.
LEMMA OneMoreSingle ==
  ASSUME NEW args, NEW rest, NEW h, Single(args, {h} \cup rest),
         Alone(h)
  PROVE  Single(args, rest)
  BY DEF Single

\* Where the command goes on to something without people.
LEMMA ResolvedElsewhere ==
  ASSUME pc' \notin {"scopes", "primary", "event", "document", "resolve_add", "resolve_remove",
                     "mention", "room_scopes", "room", "busy", "invite", "add", "remove", "post"}
  PROVE  ResolvedInv'
  BY DEF ResolvedInv

\* The stages after scopes, the calendar, the document and the upload.
LEMMA ResolvedAsks ==
  ASSUME TypeOK, ResolvedInv, NEW o, Asks(o)
  PROVE  ResolvedInv'
<1>1. cmd' = cmd /\ who' = who /\ pc \in StageSet /\ WellFormed(cmd)
      /\ pc \in {"scopes", "primary", "document", "upload"}
  BY WellFormedCommand DEF Asks, client, TypeOK, Control
<1>2. CASE o # "ok"
  <2>1. pc' = "over"
    BY <1>2 DEF Asks, Ends
  <2> QED BY <2>1, ResolvedElsewhere
<1>3. CASE o = "ok"
  <2>1. pc' = "over" \/ (pc' = NextOf(pc) /\ todo' = Items(pc'))
    BY <1>1, <1>3, Proceeding DEF Asks, Goes, Ends
  <2>2. who = {} \/ pc = "upload"
    BY <1>1 DEF ResolvedInv
  <2>3. CASE pc' = "over"
    BY <2>3, ResolvedElsewhere
  <2>4. CASE pc = "scopes" /\ pc' = NextOf(pc)
    <3>1. pc' \in {"compose", "original", "each", "upload", "batch", "primary", "post"}
      BY <1>1, <2>4, StageOrder DEF NextOf
    <3>2. pc' = "post" => cmd.kind \notin {"tasks_create", "docs_add_mention"}
      BY <1>1, <2>4 DEF NextOf, AfterScopes, StageSet
    <3> QED BY <1>1, <2>2, <2>4, <3>1, <3>2 DEF ResolvedInv
  <2>5. CASE pc = "primary" /\ pc' = NextOf(pc)
    <3>1. pc' \in {"event", "post"}
      BY <2>5 DEF NextOf
    <3>2. cmd.kind \notin {"tasks_create", "docs_add_mention"}
      BY <1>1, <2>5, StageKinds
    <3> QED BY <1>1, <2>2, <2>5, <3>1, <3>2 DEF ResolvedInv
  <2>6. CASE pc = "upload" /\ pc' = NextOf(pc)
    <3>1. pc' = "post"
      BY <2>6 DEF NextOf
    <3>2. cmd.kind \notin {"tasks_create", "docs_add_mention"}
      BY <1>1, <2>6, StageKinds
    <3> QED BY <1>1, <3>1, <3>2 DEF ResolvedInv
  <2>7. CASE pc = "document" /\ pc' = NextOf(pc) /\ todo' = Items(pc')
    <3>1. cmd.kind = "docs_add_mention" /\ who' = {}
      BY <1>1, <2>2, <2>7, StageKinds
    <3>2. CASE cmd.add # << >>
      <4>1. pc' = "mention" /\ todo' = cmd.add
        BY <2>7, <3>2 DEF NextOf, Items
      <4> QED BY <1>1, <3>1, <4>1, Nobody DEF ResolvedInv
    <3>3. CASE cmd.add = << >>
      <4>1. pc' = "post"
        BY <2>7, <3>3 DEF NextOf
      <4> QED BY <1>1, <3>1, <3>3, <4>1, Nobody DEF ResolvedInv
    <3> QED BY <3>2, <3>3
  <2> QED BY <1>1, <2>1, <2>3, <2>4, <2>5, <2>6, <2>7
<1> QED BY <1>2, <1>3

\* A run begins with nobody resolved.
LEMMA ResolvedStart ==
  ASSUME TypeOK, Start
  PROVE  ResolvedInv'
<1>1. cmd' = cmd /\ who' = {} /\ pc' = FirstStage /\ todo' = Items(FirstStage)
  BY WellFormedCommand, Starting DEF Start, Fresh, Goes
<1>2. /\ FirstStage \in {"scopes", "document", "resolve_add", "resolve_remove", "post"}
      /\ FirstStage = "post" => cmd.kind = "tasks_create" /\ cmd.add = << >>
  BY DEF FirstStage
<1>3. CASE FirstStage \in {"scopes", "document"}
  BY <1>1, <1>3 DEF ResolvedInv
<1>4. CASE FirstStage = "resolve_add"
  <2>1. todo' = cmd.add
    BY <1>1, <1>4 DEF Items
  <2> QED BY <1>1, <1>4, <2>1, Nobody DEF ResolvedInv
<1>5. CASE FirstStage = "resolve_remove"
  <2>1. todo' = cmd.remove
    BY <1>1, <1>5 DEF Items
  <2> QED BY <1>1, <1>5, <2>1, Nobody DEF ResolvedInv
<1>6. CASE FirstStage = "post"
  BY <1>1, <1>2, <1>6, Nobody DEF ResolvedInv
<1> QED BY <1>2, <1>3, <1>4, <1>5, <1>6

\* Some more have been found for the arguments of the stage, or all of them.
LEMMA ResolvedFound ==
  ASSUME TypeOK, ResolvedInv, cmd' = cmd, NEW p, Found(p),
         pc \in {"resolve_add", "resolve_remove", "mention"},
         LET a == Head(todo) IN
           IF IsId(a) THEN p = a[2]
           ELSE IF pc = "mention" THEN p \in Exactly[a[2]] /\ Alone(a)
           ELSE p \in Roughly[a[2]]
  PROVE  ResolvedInv'
<1> DEFINE a == Head(todo)
           q == <<RoleOf(cmd, a), p>>
           rest == ToSet(Tail(todo))
           args == Items(pc)
           found == IF pc = "mention" THEN Exactly ELSE Roughly
<1>1. /\ a \in ToSet(args) /\ ToSet(todo) = {a} \cup rest /\ pc \in StageSet
      /\ Len(todo) = 1 => ToSet(todo) = {a} \cup {}
  BY TodoFacts
<1>2. who' = who \cup {q}
  BY DEF Found
<1>3. Partly(cmd, args, ToSet(todo), found, who)
  BY DEF ResolvedInv, Items
<1>4. q \in Denotes(cmd, a, found)
  <2>1. IF IsId(a) THEN p = a[2] ELSE p \in found[a[2]]
    OBVIOUS
  <2> HIDE DEF a, found
  <2> QED BY <2>1 DEF Denotes
<1>5. pc = "mention" => Single(args, ToSet(todo)) /\ Alone(a)
  BY DEF ResolvedInv, Items, Alone
<1>6. args = IF pc = "resolve_remove" THEN cmd.remove ELSE cmd.add
  BY DEF Items
<1> HIDE DEF a, q, rest, args, found
<1>7. CASE Len(todo) # 1
  <2>1. pc' = pc /\ todo' = Tail(todo)
    BY <1>7 DEF Found
  <2>2. ToSet(todo') = rest
    BY <2>1 DEF rest
  <2>3. Partly(cmd, args, rest, found, who \cup {q})
    <3>1. Partly(cmd, args, {a} \cup rest, found, who)
      BY <1>1, <1>3
    <3> QED BY ONLY <1>1, <1>4, <3>1, OneMore, Zenon
  <2>4. pc = "mention" => Single(args, rest)
    BY <1>1, <1>5, OneMoreSingle
  <2>5. Partly(cmd, args, rest, found, who')
    BY <1>2, <2>3
  <2> QED BY <1>6, <2>1, <2>2, <2>4, <2>5 DEF ResolvedInv, found
<1>8. CASE Len(todo) = 1
  <2>1. Means(cmd, args, found, who')
    <3>1. Partly(cmd, args, {a} \cup {}, found, who)
      BY <1>1, <1>3, <1>8
    <3>2. Means(cmd, args, found, who \cup {q})
      BY ONLY <1>1, <1>4, <3>1, OneMore, Zenon
    <3> QED BY <1>2, <3>2
  <2>2. pc = "mention" => Single(args, {})
    BY <1>1, <1>5, <1>8, OneMoreSingle
  <2>3. Proceeds
    BY <1>8 DEF Found
  <2>4. WellFormed(cmd) /\ pc \in StageSet
    BY <1>1, WellFormedCommand
  <2>5. pc' = NextOf(pc)
    BY <2>3, <2>4, Proceeding DEF Goes, NextOf
  <2>6. CASE pc = "resolve_add"
    <3>1. pc' \in {"post", "add", "room_scopes", "invite"}
          /\ (pc' = "post" => cmd.kind = "tasks_create")
      BY <2>5, <2>6 DEF NextOf
    <3>2. Means(cmd, cmd.add, Roughly, who')
      BY <1>6, <2>1, <2>6 DEF found
    <3> QED BY <3>1, <3>2 DEF ResolvedInv
  <2>7. CASE pc = "resolve_remove"
    <3>1. pc' = "remove"
      BY <2>5, <2>7 DEF NextOf
    <3>2. Means(cmd, cmd.remove, Roughly, who')
      BY <1>6, <2>1, <2>7 DEF found
    <3> QED BY <3>1, <3>2 DEF ResolvedInv
  <2>8. CASE pc = "mention"
    <3>1. pc' = "post" /\ cmd.kind = "docs_add_mention"
      BY <2>4, <2>5, <2>8, StageKinds DEF NextOf
    <3>2. Means(cmd, cmd.add, Exactly, who') /\ Single(cmd.add, {})
      BY <1>6, <2>1, <2>2, <2>8 DEF found
    <3> QED BY <3>1, <3>2 DEF ResolvedInv
  <2> QED BY <2>6, <2>7, <2>8
<1> QED BY <1>7, <1>8

\* Calendar create drops all the people and warns; the others end.
LEMMA ResolvedNotResolved ==
  ASSUME TypeOK, cmd' = cmd, NotResolved, pc \in {"resolve_add", "resolve_remove", "mention"}
  PROVE  ResolvedInv'
<1>1. WellFormed(cmd) /\ pc \in StageSet
  BY WellFormedCommand, TodoFacts
<1>2. CASE cmd.kind = "calendar_create"
  <2>1. who' = {} /\ warned' /\ Proceeds
    BY <1>2 DEF NotResolved
  <2>2. pc = "resolve_add"
    BY <1>1, <1>2, StageKinds
  <2>3. pc' \in {"room_scopes", "invite"}
    BY <1>1, <1>2, <2>1, <2>2, Proceeding DEF Goes, NextOf
  <2> QED BY <2>1, <2>3 DEF ResolvedInv
<1>3. CASE cmd.kind # "calendar_create"
  BY <1>3, ResolvedElsewhere DEF NotResolved, Ends
<1> QED BY <1>2, <1>3

\* In every way to resolve an argument.
LEMMA ResolvedResolve ==
  ASSUME TypeOK, ResolvedInv, NEW o, Given \/ Resolve(o) \/ Mention(o)
  PROVE  ResolvedInv'
<1> DEFINE a == Head(todo)
<1>1. cmd' = cmd /\ pc \in {"resolve_add", "resolve_remove", "mention"}
  BY ResolveCases
<1>2. CASE IsId(a) /\ Found(a[2])
  BY <1>1, <1>2, ResolvedFound
<1>3. CASE ~IsId(a) /\ pc # "mention" /\ \E p \in Roughly[a[2]] : p \in People /\ Found(p)
  BY <1>1, <1>3, ResolvedFound
<1>4. CASE /\ ~IsId(a) /\ pc = "mention" /\ Alone(a)
           /\ \E p \in Exactly[a[2]] : p \in People /\ Found(p)
  BY <1>1, <1>4, ResolvedFound
<1>5. CASE NotResolved
  BY <1>1, <1>5, ResolvedNotResolved
<1> QED BY <1>2, <1>3, <1>4, <1>5, ResolveCases

\* After the event the people are resolved, from the first one on.
LEMMA ResolvedEvent ==
  ASSUME TypeOK, ResolvedInv, NEW o, Event(o)
  PROVE  ResolvedInv'
<1>1. cmd' = cmd /\ who' = {} /\ pc = "event" /\ pc \in StageSet /\ WellFormed(cmd)
  BY WellFormedCommand DEF Event, client, ResolvedInv, TypeOK, Control
<1>2. CASE pc' = "over"
  BY <1>2, ResolvedElsewhere
<1>3. CASE pc' # "over"
  <2>1. Proceeds
    BY <1>3 DEF Event, Ends
  <2>2. pc' = NextOf(pc) /\ todo' = Items(pc')
    BY <1>1, <1>3, <2>1, Proceeding DEF Goes, Ends
  <2>3. CASE cmd.add # << >>
    <3>1. pc' = "resolve_add" /\ todo' = cmd.add
      BY <1>1, <2>2, <2>3 DEF NextOf, Items
    <3> QED BY <1>1, <3>1, Nobody DEF ResolvedInv
  <2>4. CASE cmd.add = << >>
    <3>1. pc' = "room_scopes"
      BY <1>1, <1>3, <2>2, <2>4 DEF NextOf
    <3> QED BY <1>1, <2>4, <3>1, Nobody DEF ResolvedInv
  <2> QED BY <2>3, <2>4
<1> QED BY <1>2, <1>3

\* The stages of the room leave the people alone.
LEMMA ResolvedRooms ==
  ASSUME TypeOK, ResolvedInv, NEW o, RoomScopes(o) \/ Room(o) \/ Busy(o)
  PROVE  ResolvedInv'
<1>1. /\ cmd' = cmd /\ who' = who /\ pc \in StageSet /\ WellFormed(cmd)
      /\ pc \in {"room_scopes", "room", "busy"}
  BY WellFormedCommand DEF RoomScopes, Room, Busy, TypeOK, Control
<1>2. warned => warned'
  BY Zenon DEF RoomScopes, Room, Busy
<1>3. pc' \in {"room", "busy", "invite", "over"}
  <2>1. pc' = NextOf(pc) \/ pc' \in {"invite", "over"}
    BY <1>1, Proceeding DEF RoomScopes, Room, Busy, Goes, Ends
  <2> QED BY <1>1, <2>1 DEF NextOf
<1>4. Means(cmd, cmd.add, Roughly, who) \/ (warned /\ who = {})
  BY <1>1 DEF ResolvedInv
<1> QED BY <1>1, <1>2, <1>3, <1>4 DEF ResolvedInv

\* Between adding and removing the people are forgotten.
LEMMA ResolvedChange ==
  ASSUME TypeOK, ResolvedInv, NEW o, AddMembers(o) \/ RemoveMembers(o)
  PROVE  ResolvedInv'
<1>1. /\ cmd' = cmd /\ pc \in StageSet /\ WellFormed(cmd) /\ pc \in {"add", "remove"}
      /\ pc = "add" => who' = {}
  BY WellFormedCommand DEF AddMembers, RemoveMembers, Change, TypeOK, Control
<1>2. pc' = "over" \/ (pc' = NextOf(pc) /\ todo' = Items(pc'))
  BY <1>1, Proceeding DEF AddMembers, RemoveMembers, Change, Goes, Ends
<1>3. CASE pc' = "over"
  BY <1>3, ResolvedElsewhere
<1>4. CASE pc' # "over"
  <2>1. pc = "add" /\ pc' = "resolve_remove" /\ todo' = cmd.remove
    BY <1>1, <1>2, <1>4 DEF NextOf, Items
  <2> QED BY <1>1, <2>1, Nobody DEF ResolvedInv
<1> QED BY <1>3, <1>4

\* In every step the people resolved are those of the arguments treated.
LEMMA ResolvedStep ==
  ASSUME TypeOK, ResolvedInv, [Next]_vars
  PROVE  ResolvedInv'
<1>1. CASE Start
  BY <1>1, ResolvedStart
<1>2. CASE Killed
  BY <1>2, KilledCases, ResolvedElsewhere DEF Ends
<1>3. CASE UNCHANGED vars \/ \E r \in Rooms : Books(r)
  <2>1. UNCHANGED <<cmd, pc, todo, who, warned>>
    BY <1>3 DEF vars, Books
  <2> QED BY <2>1 DEF ResolvedInv
<1>4. CASE Given
  BY <1>4, ResolvedResolve
<1>5. CASE \E o \in Outcomes : Request(o)
  <2>1. PICK o \in Outcomes : Request(o)
    BY <1>5
  <2>2. CASE Asks(o) \/ Resolve(o) \/ Mention(o) \/ Event(o) \/ RoomScopes(o) \/ Room(o) \/ Busy(o)
             \/ AddMembers(o) \/ RemoveMembers(o)
    BY <2>2, ResolvedAsks, ResolvedResolve, ResolvedEvent, ResolvedRooms, ResolvedChange
  <2>3. CASE Original(o) \/ Compose(o) \/ Draft(o) \/ Send(o) \/ Invite(o) \/ Each(o)
             \/ DeleteBatch(o) \/ Post(o)
    <3>1. /\ pc \in StageSet /\ WellFormed(cmd)
          /\ pc \in {"original", "compose", "draft", "send", "invite", "each", "batch", "post"}
      BY <2>3, WellFormedCommand DEF Original, Compose, Draft, Send, Invite, Each, DeleteBatch,
                                     Post, TypeOK, Control
    <3>2. \/ pc' = NextOf(pc) \/ pc' \in {"over", "send"}
          \/ pc' = pc /\ pc \in {"each", "batch"}
      BY <2>3, <3>1, Proceeding DEF Original, Compose, Draft, Send, Invite, Each, DeleteBatch,
                                     Post, Goes, Ends
    <3>3. NextOf(pc) \in {"compose", "draft", "send", "over"}
      BY <3>1 DEF NextOf
    <3> QED BY <3>2, <3>3, ResolvedElsewhere
  <2> QED BY <2>1, <2>2, <2>3 DEF Request
<1> QED BY <1>1, <1>2, <1>3, <1>4, <1>5 DEF Next

-----------------------------------------------------------------------------
(* The room and the event.                                                 *)

\* Until the room is looked for there is none.
LEMMA RoomMoves ==
  ASSUME TypeOK, RoomInv, UNCHANGED <<cmd, room>>, Moves,
         pc \notin {"room", "busy", "over", "invite"}
  PROVE  RoomInv'
<1>1. WellFormed(cmd) /\ (pc = "over" \/ pc \in StageSet)
  BY WellFormedCommand DEF TypeOK, Control
<1>2. CASE pc' = pc
  BY <1>2 DEF RoomInv
<1>3. CASE pc' = "over"
  BY <1>3 DEF RoomInv
<1>4. CASE pc \in StageSet /\ Proceeds
  <2>1. pc' = "over" \/ pc' = NextOf(pc)
    BY <1>1, <1>4, Proceeding DEF Goes, Ends
  <2>2. CASE pc \in {"scopes", "primary", "event", "resolve_add", "room_scopes"}
    <3>1. room = None
      BY <2>2 DEF RoomInv
    <3>2. NextOf(pc) # "busy" /\ (NextOf(pc) = "invite" => cmd.room = << >>)
      BY <1>1, <1>4, <2>2, StageOrder DEF NextOf
    <3> QED BY <1>3, <2>1, <3>1, <3>2 DEF RoomInv
  <2>3. CASE pc \notin {"scopes", "primary", "event", "resolve_add", "room_scopes"}
    <3>1. pc \in {"original", "compose", "draft", "send", "each", "batch", "add",
                  "resolve_remove", "remove", "document", "mention", "upload", "post"}
      BY <1>1, <1>4, <2>3, StageOrder
    <3>2. NextOf(pc) \notin {"scopes", "primary", "event", "resolve_add", "room_scopes", "room",
                             "busy", "invite"}
      BY <3>1 DEF NextOf
    <3> QED BY <1>3, <2>1, <3>2 DEF RoomInv
  <2> QED BY <2>2, <2>3
<1> QED BY <1>2, <1>3, <1>4 DEF Moves, Goes, Ends

\* A room that is looked for is found, or the user is warned.
LEMMA RoomFound ==
  ASSUME TypeOK, NEW o, Room(o)
  PROVE  RoomInv'
<1>1. /\ pc = "room" /\ cmd' = cmd /\ WellFormed(cmd) /\ pc \in StageSet
      /\ room' = IF IsId(cmd.room) THEN cmd.room[2] ELSE IF o = "ok" THEN resolveRoomID ELSE None
      /\ IF room' = None THEN pc' = "invite" ELSE pc' \in {"busy", "over"}
  <2>1. NextOf("room") = "busy"
    BY DEF NextOf
  <2> QED BY <2>1, WellFormedCommand, Proceeding DEF Room, Goes, Ends, TypeOK, Control
<1>2. room' = None => warned'
  BY Zenon DEF Room
<1>3. ByKeyword(room', cmd)
  <2>1. CASE IsId(cmd.room)
    BY <2>1 DEF ByKeyword
  <2>2. CASE ~IsId(cmd.room)
    <3>1. room' = None \/ room' = resolveRoomID
      BY <1>1, <2>2
    <3> QED BY <3>1, ResolvedRoom DEF ByKeyword
  <2> QED BY <2>1, <2>2
<1> QED BY <1>1, <1>2, <1>3 DEF RoomInv

\* A room that is taken is passed on only after a warning.
LEMMA RoomBusy ==
  ASSUME TypeOK, RoomInv, HeldInv, NEW o, Busy(o)
  PROVE  RoomInv'
<1>1. /\ pc = "busy" /\ cmd' = cmd /\ WellFormed(cmd) /\ pc \in StageSet /\ room' = room
      /\ seen' = (IF o = "ok" THEN held ELSE {None}) /\ pc' \in {"invite", "over"} /\ room # None
      /\ pc' = "over" \/ o # "ok" \/ room \notin held
  <2>1. NextOf("busy") = "invite"
    BY DEF NextOf
  <2> QED BY <2>1, WellFormedCommand, Proceeding DEF Busy, Goes, Ends, TypeOK, Control, RoomInv
<1>2. o # "ok" => warned'
  BY Zenon DEF Busy
<1>3. None \notin held
  BY DEF HeldInv
<1> QED BY <1>1, <1>2, <1>3 DEF RoomInv

\* In every step.
LEMMA RoomStep ==
  ASSUME TypeOK, RoomInv, HeldInv, [Next]_vars
  PROVE  RoomInv'
<1>1. CASE Start
  <2>1. cmd' = cmd /\ room' = None /\ pc' = FirstStage
    BY <1>1, WellFormedCommand, Starting DEF Start, Fresh, Goes
  <2>2. pc' \notin {"busy", "invite"}
    BY <2>1 DEF FirstStage
  <2> QED BY <2>1, <2>2 DEF RoomInv, ByKeyword
<1>2. CASE Killed
  <2>1. cmd' = cmd /\ room' = room /\ pc' = "over"
    BY <1>2, KilledCases DEF Ends
  <2> QED BY <2>1 DEF RoomInv
<1>3. CASE UNCHANGED vars \/ \E r \in Rooms : Books(r)
  <2>1. UNCHANGED <<cmd, room, pc, seen, warned>>
    BY <1>3 DEF vars, Books
  <2> QED BY <2>1 DEF RoomInv
<1>4. CASE Given
  <2>1. cmd' = cmd /\ room' = room /\ Moves /\ pc \in {"resolve_add", "resolve_remove", "mention"}
    BY <1>4, ResolveMoves, ResolveCases
  <2> QED BY <2>1, RoomMoves
<1>5. CASE \E o \in Outcomes : Request(o)
  <2>1. PICK o \in Outcomes : Request(o)
    BY <1>5
  <2>2. CASE Room(o) \/ Busy(o)
    BY <2>2, RoomFound, RoomBusy
  <2>3. CASE Draft(o) \/ Send(o) \/ Invite(o)
    <3>1. cmd' = cmd /\ room' = room
      BY <2>3 DEF Draft, Send, Invite, client
    <3>2. pc' \in {"over", "send"}
      <4>1. NextOf("invite") = "over"
        BY DEF NextOf
      <4> QED BY <2>3, <4>1, WellFormedCommand, Proceeding
              DEF Draft, Send, Invite, Goes, Ends, TypeOK, Control
    <3> QED BY <3>1, <3>2 DEF RoomInv
  <2>4. CASE ~Room(o) /\ ~Busy(o) /\ ~Draft(o) /\ ~Send(o) /\ ~Invite(o)
    <3>1. room' = room /\ pc \notin {"room", "busy", "over", "invite"}
      BY <2>1, <2>4 DEF Request, Asks, Resolve, Mention, Original, Compose, Event, RoomScopes,
                        AddMembers, RemoveMembers, Change, Each, DeleteBatch, Post, client
    <3> QED BY <2>1, <2>4, <3>1, OtherMoves, RoomMoves
  <2> QED BY <2>2, <2>3, <2>4
<1> QED BY <1>1, <1>2, <1>3, <1>4, <1>5 DEF Next

\* Only rooms are booked.
LEMMA HeldStep ==
  ASSUME HeldInv, [Next]_vars
  PROVE  HeldInv'
<1>1. CASE held' = held \/ held' = Booked
  BY <1>1 DEF HeldInv, Booked
<1>2. CASE \E r \in Rooms : Books(r)
  BY <1>2, MadeInStepsAssumption DEF HeldInv, Books, None
<1>3. Killed => held' = held \/ held' = Booked
  BY Zenon DEF Killed, CarriedOut, server
<1>4. ASSUME NEW o, Request(o)
      PROVE  held' = held \/ held' = Booked
  BY <1>4 DEF Request, Asks, Resolve, Mention, Original, Compose, Draft, Send, Event, RoomScopes,
     Room, Busy, Invite, AddMembers, RemoveMembers, Change, Each, DeleteBatch, Post, server
<1> QED BY <1>1, <1>2, <1>3, <1>4 DEF Next, Start, Given, vars, server

\* The runs of the events.
LEMMA EventsTyped ==
  ASSUME TypeOK
  PROVE  LET n == Len(verdicts) IN
         /\ n \in Nat /\ DOMAIN verdicts = 1..n /\ Run = n + 1
         /\ Len(events) \in Nat /\ DOMAIN events = 1..Len(events)
         /\ Past(events, n) => Past(events, n + 1)
         /\ Current(events, n) =>
              /\ Past(events, n + 1) /\ Len(events) \in DOMAIN events
              /\ \A i \in DOMAIN events : i = Len(events) \/ events[i].run \in 1..n
<1> DEFINE R == [run : Nat, named : BOOLEAN, people : SUBSET Castings, room : EveryRoom]
<1>1. events \in Seq(R) /\ \A r \in R : r.run \in Nat
  BY DEF TypeOK, Data
<1> HIDE DEF R
<1>2. Len(events) \in Nat /\ DOMAIN events = 1..Len(events)
  BY <1>1
<1> QED BY <1>1, <1>2, RunFacts, PastFacts

\* The run ends; only the event of this run may be new or changed.
LEMMA EventsEnd ==
  ASSUME TypeOK, EventsInv, cmd' = cmd, NEW w \in Words, Ends(w), Past(events', Len(verdicts) + 1),
         \A i \in DOMAIN events' :
           \/ i \in DOMAIN events /\ events'[i] = events[i] /\ events[i].run \in DOMAIN verdicts
           \/ /\ events'[i].run = Run /\ EventTold(events'[i], w, cmd)
              /\ events'[i].people = {} \/ Means(cmd, cmd.add, Roughly, events'[i].people)
              /\ ByKeyword(events'[i].room, cmd)
  PROVE  EventsInv'
<1>1. /\ Len(verdicts) \in Nat /\ Len(verdicts') = Len(verdicts) + 1 /\ pc' = "over"
      /\ DOMAIN verdicts' = 1..Run /\ Run \in DOMAIN verdicts'
      /\ \A r \in DOMAIN verdicts : verdicts'[r] = verdicts[r]
      /\ verdicts'[Run] = w
  BY AfterEnds DEF Ends, TypeOK, Control, Run
<1>2. ASSUME NEW i \in DOMAIN events'
      PROVE  /\ events'[i].people = {} \/ Means(cmd, cmd.add, Roughly, events'[i].people)
             /\ EventTold(events'[i], verdicts'[events'[i].run], cmd)
             /\ ByKeyword(events'[i].room, cmd)
  <2>1. CASE i \in DOMAIN events /\ events'[i] = events[i] /\ events[i].run \in DOMAIN verdicts
    <3>1. verdicts'[events[i].run] = verdicts[events[i].run]
      BY <1>1, <2>1
    <3> QED BY <2>1, <3>1 DEF EventsInv
  <2>2. CASE events'[i].run = Run
    BY <1>1, <2>2 DEF EventsInv
  <2> QED BY <2>1, <2>2
<1>3. ~Late'
  BY <1>1 DEF Late
<1>4. Past(events', Len(verdicts'))
  BY <1>1
<1> QED BY <1>2, <1>3, <1>4 DEF EventsInv, Means, EventTold, ByKeyword

\* A run that ends without an invitation leaves its event without people and room.
LEMMA EventsEndSame ==
  ASSUME TypeOK, EventsInv, UNCHANGED <<cmd, events>>, NEW w \in Words, Ends(w), Late => w # "done"
  PROVE  EventsInv'
<1>1. Past(events, Len(verdicts) + 1)
  BY EventsTyped DEF EventsInv
<1>2. ASSUME NEW i \in DOMAIN events
      PROVE  \/ events[i].run \in DOMAIN verdicts
             \/ /\ events[i].run = Run /\ EventTold(events[i], w, cmd)
                /\ events[i].people = {} /\ ByKeyword(events[i].room, cmd)
  <2>1. CASE Late
    <3>1. CASE i = Len(events)
      BY <2>1, <3>1, EventsTyped DEF EventsInv, Current, EventTold
    <3>2. CASE i # Len(events)
      BY <2>1, <3>2, EventsTyped DEF EventsInv
    <3> QED BY <3>1, <3>2
  <2>2. CASE ~Late
    BY <2>2, EventsTyped DEF EventsInv, Past
  <2> QED BY <2>1, <2>2
<1> QED BY <1>1, <1>2, EventsEnd

\* A step that makes no event and ends no run.
LEMMA EventsRest ==
  ASSUME EventsInv, UNCHANGED <<cmd, events, verdicts>>, Late' <=> Late
  PROVE  EventsInv'
  BY DEF EventsInv, Means, EventTold, ByKeyword

\* Only at the invitation an event that is there is told to be complete.
LEMMA EventsMoves ==
  ASSUME TypeOK, EventsInv, UNCHANGED <<cmd, events>>, Moves, pc \notin {"event", "invite"}
         \/ UNCHANGED <<pc, verdicts>>
  PROVE  EventsInv'
<1>1. WellFormed(cmd)
  BY WellFormedCommand
<1>2. CASE UNCHANGED <<pc, verdicts>>
  BY <1>2, EventsRest DEF Late
<1>3. CASE pc \in StageSet /\ Proceeds /\ pc \notin {"event", "invite"}
  <2>1. pc \in {"resolve_add", "room_scopes", "room", "busy"} /\ cmd.kind = "calendar_create"
        <=> Late
    BY <1>3 DEF Late
  <2>2. cmd.kind = "calendar_create" =>
          pc \in {"scopes", "primary", "resolve_add", "room_scopes", "room", "busy"}
    BY <1>3 DEF StageSet
  <2>3. /\ Late => NextOf(pc) \in {"room_scopes", "room", "busy", "invite"}
        /\ cmd.kind = "calendar_create" /\ ~Late => NextOf(pc) \in {"primary", "event"}
    BY <2>1, <2>2 DEF NextOf, AfterScopes
  <2>4. CASE NextOf(pc) = "over"
    <3>1. Ends(IF warned' THEN "warned" ELSE "done") /\ ~Late
      BY <1>1, <1>3, <2>3, <2>4, Proceeding
    <3> QED BY <3>1, EventsEndSame DEF Words
  <2>5. CASE NextOf(pc) # "over"
    <3>1. Goes(NextOf(pc))
      BY <1>1, <1>3, <2>5, Proceeding
    <3>2. Late' <=> Late
      BY <2>3, <3>1 DEF Goes, Late
    <3> QED BY <3>1, <3>2, EventsRest DEF Goes
  <2> QED BY <2>4, <2>5
<1>4. CASE pc = "room" /\ Goes("invite")
  BY <1>4, EventsRest DEF Goes, Late
<1>5. CASE pc = "over" /\ Goes(FirstStage)
  <2>1. cmd.kind = "calendar_create" => FirstStage = "scopes"
    BY DEF FirstStage
  <2> QED BY <1>5, <2>1, EventsRest DEF Goes, Late
<1>6. CASE Ends("killed") \/ Ends("failed") \/ Ends("occupied")
  BY <1>6, EventsEndSame DEF Words
<1> QED BY <1>2, <1>3, <1>4, <1>5, <1>6 DEF Moves

\* The event of this run has nobody yet; it is complete when nobody has to be invited.
LEMMA EventsMade ==
  ASSUME TypeOK, EventsInv, cmd' = cmd, pc = "event", NEW named \in BOOLEAN,
         events' = Made(named),
         \/ Ends("failed") \/ Ends("killed") \/ Proceeds
         \/ Ends("done") /\ ~named
  PROVE  EventsInv'
<1> DEFINE n == Len(verdicts)
           R == [run : Nat, named : BOOLEAN, people : SUBSET Castings, room : EveryRoom]
           x == [run |-> Run, named |-> named, people |-> {}, room |-> None]
           u == Append(events, x)
<1>0. pc = "event" /\ cmd' = cmd /\ ~Late /\ WellFormed(cmd) /\ pc \in StageSet
      /\ cmd.kind = "calendar_create"
  <2>1. pc = "event" /\ cmd' = cmd /\ WellFormed(cmd) /\ pc \in StageSet
    BY WellFormedCommand DEF TypeOK, Control
  <2> QED BY <2>1, StageKinds DEF Late
<1>2. EventsInv'
  <2>0. events' = u
    BY DEF Made
  <2>1. n \in Nat /\ x \in R /\ x.run = n + 1 /\ x.run = Run /\ x.people = {} /\ x.room = None
        /\ x.named = named
    BY RunFacts DEF EveryRoom
  <2>2. events \in Seq(R) /\ (\A r \in R : r.run \in Nat) /\ Past(events, n)
    BY <1>0 DEF EventsInv, TypeOK, Data
  <2> HIDE DEF R, x
  <2>3. Len(u) = Len(events) + 1 /\ u[Len(u)] = x /\ DOMAIN events = 1..Len(events)
        /\ Len(events) \in Nat
    BY <2>1, <2>2
  <2>4. Current(u, n)
    BY <2>1, <2>2, PastFacts
  <2>5. \A i \in DOMAIN u : u[i] = x \/ (i \in DOMAIN events /\ u[i] = events[i])
    BY <2>2, AppendedAt
  <2>6. DOMAIN verdicts = 1..n
    BY RunFacts
  <2>7. \A i \in DOMAIN events : events[i].run \in 1..n
    BY <2>2 DEF Past
  <2>8. n + 1 \notin 1..n
    BY <2>1
  <2> HIDE DEF u, n
  <2>9. ByKeyword(None, cmd)
    BY DEF ByKeyword
  <2>10. ASSUME NEW w \in Words, Ends(w), EventTold(x, w, cmd)
         PROVE  EventsInv'
    <3>1. Past(u, n + 1)
      BY <2>4 DEF Current
    <3>2. ASSUME NEW i \in DOMAIN u
          PROVE  \/ i \in DOMAIN events /\ u[i] = events[i] /\ events[i].run \in DOMAIN verdicts
                 \/ /\ u[i].run = Run /\ EventTold(u[i], w, cmd)
                    /\ u[i].people = {} \/ Means(cmd, cmd.add, Roughly, u[i].people)
                    /\ ByKeyword(u[i].room, cmd)
      <4>1. CASE u[i] = x
        BY <4>1, <2>1, <2>9, <2>10
      <4>2. CASE i \in DOMAIN events /\ u[i] = events[i]
        BY <4>2, <2>6, <2>7
      <4> QED BY <4>1, <4>2, <2>5
    <3> QED BY <1>0, <2>0, <2>10, <3>1, <3>2, EventsEnd DEF n
  <2>11. CASE Ends("failed") \/ Ends("killed") \/ (Ends("done") /\ ~named)
    <3>1. EventTold(x, "failed", cmd) /\ EventTold(x, "killed", cmd)
      BY DEF EventTold
    <3>2. ~named => EventTold(x, "done", cmd)
      BY <2>1 DEF EventTold
    <3> QED BY <2>10, <2>11, <3>1, <3>2 DEF Words
  <2>12. CASE Proceeds /\ NextOf(pc) = "over"
    <3>1. Ends(IF warned' THEN "warned" ELSE "done")
      BY <1>0, <2>12, Proceeding
    <3>2. cmd.add = << >> /\ cmd.room = << >>
      BY <1>0, <2>12 DEF NextOf
    <3>3. Means(cmd, cmd.add, Roughly, x.people)
      BY <2>1, <3>2, Nobody
    <3>4. \A w \in {"warned", "done"} : EventTold(x, w, cmd)
      BY <3>2, <3>3 DEF EventTold
    <3> QED BY <2>10, <3>1, <3>4 DEF Words
  <2>13. CASE Proceeds /\ NextOf(pc) # "over"
    <3>1. Goes(NextOf(pc))
      BY <1>0, <2>13, Proceeding
    <3>2. pc' \in {"resolve_add", "room_scopes"} /\ verdicts' = verdicts
      BY <1>0, <2>13, <3>1 DEF NextOf, Goes
    <3>3. Late'
      BY <1>0, <3>2 DEF Late
    <3>4. Current(u, Len(verdicts)) /\ u[Len(u)].people = {} /\ u[Len(u)].room = None
      BY <2>1, <2>3, <2>4 DEF n
    <3>5. ASSUME NEW i \in DOMAIN u
          PROVE  /\ u[i].people = {} \/ Means(cmd, cmd.add, Roughly, u[i].people)
                 /\ u[i].run \in DOMAIN verdicts => EventTold(u[i], verdicts[u[i].run], cmd)
                 /\ ByKeyword(u[i].room, cmd)
      <4>1. CASE u[i] = x
        BY <4>1, <2>1, <2>6, <2>8, <2>9
      <4>2. CASE i \in DOMAIN events /\ u[i] = events[i]
        BY <4>2 DEF EventsInv
      <4> QED BY <4>1, <4>2, <2>5
    <3> QED BY <1>0, <2>0, <3>2, <3>3, <3>4, <3>5 DEF EventsInv, Means, EventTold, ByKeyword
  <2> QED BY <2>11, <2>12, <2>13
<1> QED BY <1>2

\* An answer without its id makes it the end, and so does an error.
LEMMA EventsEvent ==
  ASSUME TypeOK, EventsInv, NEW o, Event(o)
  PROVE  EventsInv'
<1>0. pc = "event" /\ cmd' = cmd /\ ~Late
  BY DEF Event, Late
<1>1. CASE ~Took(o)
  <2>1. events' = events /\ Ends("failed")
    BY <1>1 DEF Event, Took
  <2> QED BY <1>0, <2>1, EventsEndSame DEF Words
<1>2. CASE Took(o)
  <2>1. PICK named \in BOOLEAN :
          /\ events' = Made(o = "ok" /\ named)
          /\ IF o # "ok" THEN Ends("failed") ELSE IF named THEN Proceeds ELSE Ends("done")
    BY <1>2 DEF Event
  <2>2. CASE o # "ok"
    <3>1. events' = Made(FALSE) /\ Ends("failed")
      BY <2>1, <2>2
    <3> QED BY <1>0, <3>1, EventsMade
  <2>3. CASE o = "ok" /\ named
    <3>1. events' = Made(TRUE) /\ Proceeds
      BY <2>1, <2>3
    <3> QED BY <1>0, <3>1, EventsMade
  <2>4. CASE o = "ok" /\ ~named
    <3>1. events' = Made(FALSE) /\ Ends("done")
      BY <2>1, <2>4
    <3> QED BY <1>0, <3>1, EventsMade
  <2> QED BY <2>2, <2>3, <2>4
<1> QED BY <1>1, <1>2

\* The invitation completes the event of this run, unless the user is not told.
LEMMA EventsInvited ==
  ASSUME TypeOK, EventsInv, ResolvedInv, RoomInv, cmd' = cmd, pc = "invite", events' = Invited,
         NEW w \in {"warned", "done", "killed"}, Ends(w), w = "done" => ~warned
  PROVE  EventsInv'
<1> DEFINE m == Len(events)
<1>0. pc = "invite" /\ cmd' = cmd /\ Late /\ WellFormed(cmd) /\ pc \in StageSet
  <2>1. WellFormed(cmd) /\ pc \in StageSet
    BY WellFormedCommand DEF TypeOK, Control
  <2> QED BY <2>1, StageKinds DEF Late
<1>4. EventsInv'
  <2>1. Ends(w) /\ (w = "done" => ~warned)
    OBVIOUS
  <2>2. events' = [events EXCEPT ![m] = [@ EXCEPT !.people = who, !.room = room]]
    BY DEF Invited
  <2>3. /\ m \in DOMAIN events /\ DOMAIN events = 1..m /\ Past(events, Len(verdicts) + 1)
        /\ \A i \in DOMAIN events : i = m \/ events[i].run \in DOMAIN verdicts
        /\ events[m].run = Run
    BY <1>0, EventsTyped DEF EventsInv, Current
  <2>4. /\ DOMAIN events' = 1..m
        /\ \A i \in 1..m : i # m => events'[i] = events[i]
        /\ events'[m].run = Run /\ events'[m].people = who /\ events'[m].room = room
    <3> DEFINE R == [run : Nat, named : BOOLEAN, people : SUBSET Castings, room : EveryRoom]
    <3>1. events \in Seq(R)
      BY DEF TypeOK, Data
    <3>2. \A r \in R : LET e == [r EXCEPT !.people = who, !.room = room] IN
                         e.run = r.run /\ e.people = who /\ e.room = room
      OBVIOUS
    <3> HIDE DEF R, m
    <3>3. events[m] \in R
      BY <3>1, <2>3
    <3>4. events'[m] = [events[m] EXCEPT !.people = who, !.room = room]
      BY <2>2, <2>3
    <3>5. DOMAIN events' = 1..m /\ \A i \in 1..m : i # m => events'[i] = events[i]
      BY <2>2, <2>3
    <3> QED BY <2>3, <3>2, <3>3, <3>4, <3>5
  <2> HIDE DEF m
  <2>5. Past(events', Len(verdicts) + 1)
    <3>1. \A i \in 1..m : events'[i].run = events[i].run
      BY <2>3, <2>4
    <3> QED BY <2>3, <2>4, <3>1 DEF Past
  <2>6. /\ who = {} \/ Means(cmd, cmd.add, Roughly, who)
        /\ w = "done" => Means(cmd, cmd.add, Roughly, who) /\ (cmd.room # << >> => room # None)
        /\ ByKeyword(room, cmd)
    BY <1>0, <2>1 DEF ResolvedInv, RoomInv
  <2>7. EventTold(events'[m], w, cmd)
    BY <2>4, <2>6 DEF EventTold
  <2>8. ASSUME NEW i \in DOMAIN events'
        PROVE  \/ i \in DOMAIN events /\ events'[i] = events[i] /\ events[i].run \in DOMAIN verdicts
               \/ /\ events'[i].run = Run /\ EventTold(events'[i], w, cmd)
                  /\ events'[i].people = {} \/ Means(cmd, cmd.add, Roughly, events'[i].people)
                  /\ ByKeyword(events'[i].room, cmd)
    <3>1. CASE i = m
      BY <3>1, <2>4, <2>6, <2>7
    <3>2. CASE i # m
      BY <3>2, <2>3, <2>4
    <3> QED BY <3>1, <3>2
  <2> QED BY <1>0, <2>1, <2>5, <2>8, EventsEnd DEF Words
<1> QED BY <1>4

\* The invitation warns after an error, of which nobody knows whether it was done.
LEMMA EventsInvite ==
  ASSUME TypeOK, EventsInv, ResolvedInv, RoomInv, NEW o, Invite(o)
  PROVE  EventsInv'
<1>0. pc = "invite" /\ cmd' = cmd /\ WellFormed(cmd) /\ pc \in StageSet
  BY WellFormedCommand DEF Invite, TypeOK, Control
<1>1. Ends(IF warned' THEN "warned" ELSE "done")
  <2>1. NextOf(pc) = "over"
    BY <1>0 DEF NextOf
  <2> QED BY <1>0, <2>1, Proceeding DEF Invite
<1>2. ~warned' => o = "ok" /\ ~warned
  BY Zenon DEF Invite
<1>3. CASE ~Took(o)
  <2>1. events' = events /\ Ends("warned")
    BY <1>1, <1>2, <1>3 DEF Invite, Took
  <2> QED BY <1>0, <2>1, EventsEndSame DEF Words
<1>4. CASE Took(o)
  <2>1. PICK w \in {"warned", "done"} : Ends(w) /\ (w = "done" => ~warned)
    BY <1>1, <1>2
  <2>2. events' = Invited
    BY <1>4 DEF Invite
  <2> QED BY <1>0, <2>1, <2>2, EventsInvited
<1> QED BY <1>3, <1>4

\* What is told of events stays true in every step.
LEMMA EventsStep ==
  ASSUME TypeOK, EventsInv, ResolvedInv, RoomInv, [Next]_vars
  PROVE  EventsInv'
<1>1. CASE Start
  <2>1. cmd' = cmd /\ events' = events /\ pc = "over" /\ Goes(FirstStage)
    BY <1>1, WellFormedCommand, Starting DEF Start, server, Over
  <2> QED BY <2>1, EventsMoves DEF Moves
<1>2. CASE Killed
  <2>1. cmd' = cmd /\ Ends("killed") /\ "killed" \in Words
    BY <1>2, KilledCases
  <2>2. CASE events' = events
    BY <2>1, <2>2, EventsEndSame
  <2>3. CASE pc = "event" /\ events' = Made(FALSE)
    BY <2>1, <2>3, EventsMade
  <2>4. CASE pc = "invite" /\ events' = Invited
    BY <2>1, <2>4, EventsInvited
  <2> QED BY <1>2, <2>2, <2>3, <2>4, KilledCases
<1>3. CASE UNCHANGED vars \/ \E r \in Rooms : Books(r)
  <2>1. UNCHANGED <<cmd, events, pc, verdicts>>
    BY <1>3 DEF vars, server, Books
  <2> QED BY <2>1, EventsMoves DEF Moves
<1>4. CASE Given
  <2>1. cmd' = cmd /\ events' = events /\ pc \notin {"event", "invite"} /\ Moves
    BY <1>4, ResolveMoves, ResolveCases DEF server
  <2> QED BY <2>1, EventsMoves
<1>5. CASE \E o \in Outcomes : Request(o)
  <2>1. PICK o \in Outcomes : Request(o)
    BY <1>5
  <2>2. CASE Event(o) \/ Invite(o)
    BY <2>2, EventsEvent, EventsInvite
  <2>3. CASE Draft(o) \/ Send(o)
    <3>1. cmd' = cmd /\ events' = events /\ pc \in {"draft", "send"}
      BY <2>3 DEF Draft, Send
    <3>2. ~Late
      BY <3>1 DEF Late
    <3>3. Goes("send") \/ \E w \in {"failed", "saved", "sent"} : Ends(w)
      BY <2>3 DEF Draft, Send
    <3>4. CASE Goes("send")
      BY <3>1, <3>2, <3>4, EventsRest DEF Goes, Late
    <3> QED BY <3>1, <3>2, <3>3, <3>4, EventsEndSame DEF Words
  <2>4. CASE ~Event(o) /\ ~Invite(o) /\ ~Draft(o) /\ ~Send(o)
    <3>1. events' = events /\ pc \notin {"event", "invite"}
      BY <2>1, <2>4 DEF Request, Asks, Resolve, Mention, Original, Compose, RoomScopes, Room, Busy,
                        AddMembers, RemoveMembers, Change, Each, DeleteBatch, Post, server
    <3> QED BY <2>1, <2>4, <3>1, OtherMoves, EventsMoves
  <2> QED BY <2>2, <2>3, <2>4
<1> QED BY <1>1, <1>2, <1>3, <1>4, <1>5 DEF Next

-----------------------------------------------------------------------------
(* Members.                                                                *)

\* A step that changes no members.
LEMMA MembersRest ==
  ASSUME MembersInv, UNCHANGED <<cmd, members>>,
         pc' \in {"resolve_remove", "remove"} =>
           pc \in {"resolve_remove", "remove"} \/ "add" \notin StageSet,
         ReportedDone' => \/ "add" \notin StageSet /\ "remove" \notin StageSet
                          \/ ReportedDone /\ who' = who
  PROVE  MembersInv'
<1>1. /\ members \ Members \subseteq Asked(cmd, cmd.add)
      /\ Members \ members \subseteq Asked(cmd, cmd.remove)
  BY DEF MembersInv
<1>2. /\ Asked(cmd, cmd.add)' = Asked(cmd, cmd.add) /\ Asked(cmd, cmd.remove)' = Asked(cmd, cmd.remove)
      /\ Added({})' <=> Added({})
      /\ who' = who => (Added(who)' <=> Added(who))
  <2>2. /\ Asked(cmd, cmd.add)' = Asked(cmd, cmd.add)
        /\ Asked(cmd, cmd.remove)' = Asked(cmd, cmd.remove)
    BY DEF Asked, Denotes, RoleOf, IsId
  <2>1. ASSUME NEW ps PROVE Means(cmd, cmd.add, Roughly, ps)' <=> Means(cmd, cmd.add, Roughly, ps)
    BY DEF Means, Denotes, RoleOf, IsId
  <2> QED BY <2>1, <2>2 DEF Added
<1>3. pc' \in {"resolve_remove", "remove"} /\ "add" \in StageSet' => Added({})'
  BY <1>2, SameCommand DEF MembersInv
<1>4. ReportedDone' /\ "add" \in StageSet' => Added(who)'
  BY <1>2, SameCommand DEF MembersInv
<1>5. ReportedDone' /\ "remove" \in StageSet' =>
        Means(cmd, cmd.remove, Roughly, who)' /\ members' \cap who' = {}
  BY SameCommand DEF MembersInv, Means
<1> QED BY <1>1, <1>2, <1>3, <1>4, <1>5, SameCommand DEF MembersInv

\* A request that neither adds nor removes members.
LEMMA MembersMove ==
  ASSUME TypeOK, MembersInv, UNCHANGED <<cmd, members>>, Moves, pc \notin {"add", "remove", "over"}
  PROVE  MembersInv'
<1>1. WellFormed(cmd) /\ pc \in StageSet /\ verdicts \in Seq(Words)
  BY WellFormedCommand DEF TypeOK, Control
<1>2. ASSUME NEW w \in Words \ {"done"}, Ends(w) PROVE MembersInv'
  <2>1. pc' = "over" /\ ~ReportedDone'
    BY <1>1, <1>2, AfterEnds DEF Ends, ReportedDone, Over
  <2> QED BY <2>1, MembersRest
<1>3. CASE UNCHANGED <<pc, verdicts>>
  <2>1. ~ReportedDone'
    BY <1>3 DEF ReportedDone, Over
  <2> QED BY <1>3, <2>1, MembersRest
<1>4. CASE Proceeds
  <2>1. pc' = NextOf(pc) \/ (pc' = "over" /\ NextOf(pc) = "over")
    BY <1>1, <1>4, Proceeding DEF Goes, Ends
  <2>2. NextOf(pc) = "remove" => pc = "resolve_remove"
    BY <1>1, StageOrder DEF NextOf
  <2>3. NextOf(pc) # "resolve_remove"
    BY <1>1, StageOrder DEF NextOf
  <2>4. NextOf(pc) = "over" => "add" \notin StageSet /\ "remove" \notin StageSet
    <3>1. "add" \in StageSet \/ "remove" \in StageSet =>
            pc \in {"resolve_add", "resolve_remove"} /\ cmd.kind # "calendar_create"
      BY <1>1 DEF StageSet, WellFormed, Kinds
    <3> QED BY <3>1 DEF NextOf
  <2>5. pc' = "over" \/ ~ReportedDone'
    BY DEF ReportedDone, Over
  <2> QED BY <2>1, <2>2, <2>3, <2>4, <2>5, MembersRest
<1>5. CASE Goes("invite")
  <2>1. ~ReportedDone' /\ pc' = "invite"
    BY <1>5 DEF Goes, ReportedDone, Over
  <2> QED BY <2>1, MembersRest
<1>6. CASE pc = "event" /\ Ends("done")
  <2>1. "add" \notin StageSet /\ "remove" \notin StageSet
    BY <1>1, <1>6, StageKinds DEF StageSet
  <2>2. pc' = "over"
    BY <1>6 DEF Ends
  <2> QED BY <2>1, <2>2, MembersRest
<1> QED BY <1>2, <1>3, <1>4, <1>5, <1>6 DEF Moves, Words

\* The people that the arguments mean are among those asked for.
LEMMA MeansAsked ==
  ASSUME NEW c, NEW args, NEW ps, Means(c, args, Roughly, ps)
  PROVE  ps \subseteq Asked(c, args)
  BY DEF Means, Asked

\* What a request adds or removes was asked for, whoever hears of it.
LEMMA MembersWithin ==
  ASSUME MembersInv, ResolvedInv, cmd' = cmd,
         \/ members' = members
         \/ pc = "add" /\ members' = members \cup who
         \/ pc = "remove" /\ members' = members \ who
  PROVE  /\ members' \ Members \subseteq Asked(cmd, cmd.add)'
         /\ Members \ members' \subseteq Asked(cmd, cmd.remove)'
<1>1. /\ members \ Members \subseteq Asked(cmd, cmd.add)
      /\ Members \ members \subseteq Asked(cmd, cmd.remove)
  BY DEF MembersInv
<1>2. /\ Asked(cmd, cmd.add)' = Asked(cmd, cmd.add)
      /\ Asked(cmd, cmd.remove)' = Asked(cmd, cmd.remove)
  BY DEF Asked, Denotes, RoleOf, IsId
<1>3. /\ pc = "add" => who \subseteq Asked(cmd, cmd.add)
      /\ pc = "remove" => who \subseteq Asked(cmd, cmd.remove)
  BY MeansAsked DEF ResolvedInv
<1> QED BY <1>1, <1>2, <1>3

\* Adding adds those meant and removing removes them, whatever an earlier try did.
LEMMA MembersChange ==
  ASSUME TypeOK, MembersInv, ResolvedInv, NEW o, AddMembers(o) \/ RemoveMembers(o)
  PROVE  MembersInv'
<1>1. /\ WellFormed(cmd) /\ pc \in StageSet /\ pc \in {"add", "remove"} /\ cmd' = cmd
      /\ verdicts \in Seq(Words)
  BY WellFormedCommand DEF AddMembers, RemoveMembers, Change, TypeOK, Control
<1>4. /\ pc = "add" => Means(cmd, cmd.add, Roughly, who) /\ who \subseteq Asked(cmd, cmd.add)
      /\ pc = "remove" => Means(cmd, cmd.remove, Roughly, who)
  BY <1>1, MeansAsked DEF ResolvedInv
<1>5. /\ pc = "add" => members' \in {members, members \cup who}
      /\ pc = "remove" => members' \in {members, members \ who}
  BY DEF AddMembers, RemoveMembers, Change
<1>6. /\ members' \ Members \subseteq Asked(cmd, cmd.add)'
      /\ Members \ members' \subseteq Asked(cmd, cmd.remove)'
  BY <1>1, <1>5, MembersWithin
<1>7. CASE o # "ok"
  <2>1. Ends("failed") /\ "failed" \in Words
    BY <1>7 DEF AddMembers, RemoveMembers, Change, Words
  <2>2. pc' = "over" /\ ~ReportedDone'
    BY <1>1, <2>1, AfterEnds DEF Ends, ReportedDone, Over
  <2> QED BY <1>6, <2>2 DEF MembersInv
<1>8. CASE o = "ok" /\ pc = "add"
  <2>1. members' = members \cup who /\ who' = {} /\ Proceeds
    BY <1>8 DEF AddMembers, RemoveMembers, Change, Took
  <2>2. /\ Means(cmd', cmd'.add, Roughly, who) /\ who \ {} \subseteq members'
        /\ who \in SUBSET Asked(cmd', cmd'.add)
    BY <1>1, <1>4, <1>8, <2>1
  <2>4. Added({})'
    BY <2>2 DEF Added, Asked, Means, Denotes, RoleOf, IsId
  <2>5. Added(who)'
    BY <2>1, <2>4 DEF Added
  <2>6. "remove" \in StageSet => NextOf(pc) # "over"
    BY <1>1, <1>8 DEF NextOf, StageSet, WellFormed, Kinds
  <2>7. pc' = "over" => NextOf(pc) = "over"
    BY <1>1, <2>1, Proceeding DEF Goes
  <2>8. ReportedDone' => "remove" \notin StageSet'
    BY <1>1, <2>6, <2>7, SameCommand DEF ReportedDone, Over
  <2> QED BY <1>6, <2>4, <2>5, <2>8 DEF MembersInv
<1>9. CASE o = "ok" /\ pc = "remove"
  <2>1. members' = members \ who /\ who' = who /\ Proceeds
    BY <1>9 DEF AddMembers, RemoveMembers, Change, Took
  <2>2. pc' = "over"
    <3>1. NextOf(pc) = "over"
      BY <1>9 DEF NextOf
    <3> QED BY <1>1, <2>1, <3>1, Proceeding DEF Ends
  <2>3. "add" \in StageSet => Added(who)'
    <3>1. SUFFICES ASSUME "add" \in StageSet PROVE Added(who)'
      OBVIOUS
    <3>2. PICK ps \in SUBSET Asked(cmd, cmd.add) :
            Means(cmd, cmd.add, Roughly, ps) /\ ps \ {} \subseteq members
      BY <1>9, <3>1 DEF MembersInv, Added
    <3>3. ps \ who' \subseteq members'
      BY <2>1, <3>2
    <3>4. Means(cmd', cmd'.add, Roughly, ps) /\ ps \in SUBSET Asked(cmd', cmd'.add)
      BY <1>1, <3>2
    <3> QED BY <3>3, <3>4 DEF Added, Asked, Means, Denotes, RoleOf, IsId
  <2>4. Means(cmd, cmd.remove, Roughly, who)' /\ members' \cap who' = {}
    <3>1. Means(cmd', cmd'.remove, Roughly, who')
      BY <1>1, <1>4, <1>9, <2>1
    <3> QED BY <2>1, <3>1 DEF Means, Denotes, RoleOf, IsId
  <2> QED BY <1>1, <1>6, <2>2, <2>3, <2>4, SameCommand DEF MembersInv
<1> QED BY <1>1, <1>7, <1>8, <1>9

\* What is told of members stays true in every step.
LEMMA MembersStep ==
  ASSUME TypeOK, MembersInv, ResolvedInv, [Next]_vars
  PROVE  MembersInv'
<1>0. WellFormed(cmd) /\ verdicts \in Seq(Words) /\ pc \in StageSet \cup {"over"}
  BY WellFormedCommand DEF TypeOK, Control
<1>1. CASE Start
  <2>1. cmd' = cmd /\ members' = members /\ pc' = FirstStage
    BY <1>0, <1>1, Starting DEF Start, server, Goes
  <2>2. FirstStage \in {"resolve_remove", "remove"} => "add" \notin StageSet
    BY <1>0 DEF FirstStage, StageSet, WellFormed, Kinds
  <2>3. FirstStage # "over"
    BY DEF FirstStage
  <2>4. ~ReportedDone'
    BY <2>1, <2>3 DEF ReportedDone, Over
  <2> QED BY <2>1, <2>2, <2>4, MembersRest
<1>2. CASE Killed
  <2>1. /\ cmd' = cmd /\ Ends("killed") /\ "killed" \in Words
        /\ \/ members' = members
           \/ pc = "add" /\ members' = members \cup who
           \/ pc = "remove" /\ members' = members \ who
    BY <1>2, KilledCases
  <2>2. pc' = "over" /\ ~ReportedDone'
    BY <1>0, <2>1, AfterEnds DEF Ends, ReportedDone, Over
  <2> QED BY <2>1, <2>2, MembersWithin DEF MembersInv
<1>3. CASE UNCHANGED vars \/ \E r \in Rooms : Books(r)
  <2>1. UNCHANGED <<cmd, members, pc, verdicts, who>>
    BY <1>3 DEF vars, server, Books
  <2>2. ReportedDone' <=> ReportedDone
    BY <2>1 DEF ReportedDone, Over
  <2> QED BY <2>1, <2>2, MembersRest
<1>4. CASE Given
  <2>1. cmd' = cmd /\ members' = members /\ pc \notin {"add", "remove", "over"} /\ Moves
    BY <1>4, ResolveMoves, ResolveCases DEF server
  <2> QED BY <2>1, MembersMove
<1>5. CASE \E o \in Outcomes : Request(o)
  <2>1. PICK o \in Outcomes : Request(o)
    BY <1>5
  <2>2. CASE AddMembers(o) \/ RemoveMembers(o)
    BY <2>2, MembersChange
  <2>3. CASE Draft(o) \/ Send(o)
    <3>1. cmd' = cmd /\ members' = members /\ pc \in {"draft", "send"} /\ pc' \in {"over", "send"}
      BY <2>3 DEF Draft, Send, Goes, Ends
    <3>2. "add" \notin StageSet /\ "remove" \notin StageSet
      BY <1>0, <3>1, StageKinds DEF StageSet
    <3> QED BY <3>1, <3>2, MembersRest
  <2>4. CASE ~AddMembers(o) /\ ~RemoveMembers(o) /\ ~Draft(o) /\ ~Send(o)
    <3>1. members' = members /\ pc \notin {"add", "remove"}
      BY <2>1, <2>4 DEF Request, Asks, Resolve, Mention, Original, Compose, Event, RoomScopes, Room,
                        Busy, Invite, Each, DeleteBatch, Post, server
    <3> QED BY <2>1, <2>4, <3>1, OtherMoves, MembersMove
  <2> QED BY <2>2, <2>3, <2>4
<1> QED BY <1>1, <1>2, <1>3, <1>4, <1>5 DEF Next

-----------------------------------------------------------------------------
(* Posts.                                                                  *)

\* A task or a mention has the people named, in every step.
LEMMA PostsStep ==
  ASSUME TypeOK, PostsInv, ResolvedInv, [Next]_vars
  PROVE  PostsInv'
<1>1. CASE UNCHANGED <<cmd, posts>>
  BY <1>1 DEF PostsInv, Means
<1>2. CASE pc = "post" /\ cmd' = cmd /\ posts' \in {posts, Posted}
  <2> DEFINE x == [run |-> Run, who |-> who]
             R == [run : Nat, who : SUBSET Castings]
  <2>2. pc = "post" /\ cmd' = cmd /\ (posts' = posts \/ posts' = Append(posts, x))
    BY <1>2 DEF Posted
  <2>3. posts \in Seq(R) /\ x.who = who
    BY DEF TypeOK, Data
  <2> HIDE DEF x, R
  <2>4. \A i \in DOMAIN posts' : posts'[i] = x \/ (i \in DOMAIN posts /\ posts'[i] = posts[i])
    <3>1. \A i \in DOMAIN Append(posts, x) :
            Append(posts, x)[i] = x \/ (i \in DOMAIN posts /\ Append(posts, x)[i] = posts[i])
      BY <2>3, AppendedAt
    <3> QED BY <2>2, <3>1
  <2>5. /\ cmd.kind = "tasks_create" => Means(cmd, cmd.add, Roughly, who)
        /\ cmd.kind = "docs_add_mention" =>
             Means(cmd, cmd.add, Exactly, who) /\ Single(cmd.add, {})
    BY <2>2 DEF ResolvedInv
  <2>6. ASSUME NEW i \in DOMAIN posts'
        PROVE  /\ cmd.kind = "tasks_create" => Means(cmd, cmd.add, Roughly, posts'[i].who)
               /\ cmd.kind = "docs_add_mention" =>
                    Means(cmd, cmd.add, Exactly, posts'[i].who) /\ Single(cmd.add, {})
    BY <2>3, <2>4, <2>5 DEF PostsInv
  <2>7. ASSUME NEW args, NEW found, NEW ps
        PROVE  Means(cmd, args, found, ps) <=> Means(cmd', args, found, ps)
    BY <2>2
  <2> QED BY <2>2, <2>6, <2>7 DEF PostsInv, Single, Alone, IsId
<1>3. CASE \E o \in Outcomes : Request(o) /\ ~Post(o)
  BY <1>1, <1>3 DEF Request, Asks, Resolve, Mention, Original, Compose, Draft, Send, Event,
     RoomScopes, Room, Busy, Invite, AddMembers, RemoveMembers, Change, Each, DeleteBatch, server
<1>4. CASE \E o \in Outcomes : Post(o)
  BY <1>2, <1>4 DEF Post
<1>5. CASE Killed
  BY <1>1, <1>2, <1>5, KilledCases
<1> QED BY <1>1, <1>3, <1>4, <1>5 DEF Next, Start, Given, Books, vars, server

-----------------------------------------------------------------------------
(* Deletions.                                                              *)

Deleting == cmd.kind \in {"mail_trash", "mail_draft_delete", "board_delete_nodes"}

\* A step that deletes and reports nothing.
LEMMA DeletionsRest ==
  ASSUME DeletionsInv, UNCHANGED <<cmd, things, reports>>, pc' \notin {"scopes", "each", "batch"},
         ~Deleting \/ ~ReportedDone'
  PROVE  DeletionsInv'
  BY DEF DeletionsInv, Deleting, ReportedIds, Treated

\* Before the first id nothing is reported.
LEMMA DeletionsAsks ==
  ASSUME TypeOK, DeletionsInv, NEW o, Asks(o)
  PROVE  DeletionsInv'
<1>1. /\ WellFormed(cmd) /\ pc \in StageSet /\ cmd' = cmd /\ things' = things /\ reports' = reports
      /\ pc \in {"scopes", "primary", "document", "upload"} /\ verdicts \in Seq(Words)
  BY WellFormedCommand DEF Asks, TypeOK, Control, server, client
<1>2. CASE o # "ok"
  <2>1. Ends("failed") /\ "failed" \in Words
    BY <1>2 DEF Asks, Words
  <2>2. pc' = "over" /\ ~ReportedDone'
    BY <1>1, <2>1, AfterEnds DEF Ends, ReportedDone, Over
  <2> QED BY <1>1, <2>2, DeletionsRest
<1>3. CASE o = "ok" /\ Deleting
  <2>1. pc = "scopes" /\ reports = {}
    BY <1>1, <1>3, StageKinds DEF Deleting, DeletionsInv
  <2>2. NextOf(pc) \in {"each", "batch"}
    BY <1>3, <2>1 DEF NextOf, AfterScopes, Deleting
  <2>3. Goes(NextOf(pc))
    BY <1>1, <1>3, <2>2, Proceeding DEF Asks
  <2>4. pc' \in {"each", "batch"} /\ todo' = cmd.ids
    BY <2>2, <2>3 DEF Goes, Items
  <2>5. ~ReportedDone'
    BY <2>4 DEF ReportedDone, Over
  <2>6. ReportedIds' = {}
    BY <1>1, <2>1 DEF ReportedIds
  <2> QED BY <1>1, <2>1, <2>4, <2>5, <2>6 DEF DeletionsInv
<1>4. CASE o = "ok" /\ ~Deleting
  <2>1. pc' = "over" \/ pc' = NextOf(pc)
    BY <1>1, <1>4, Proceeding DEF Asks, Goes, Ends
  <2>2. NextOf(pc) \notin {"scopes", "each", "batch"}
    <3>1. pc = "scopes" => AfterScopes \notin {"scopes", "each", "batch"}
      BY <1>1, <1>4 DEF StageSet, AfterScopes, Deleting, WellFormed, Kinds
    <3> QED BY <1>1, <3>1 DEF NextOf
  <2> QED BY <1>1, <1>4, <2>1, <2>2, DeletionsRest
<1> QED BY <1>2, <1>3, <1>4

\* One thing is deleted or not, and reported.
LEMMA DeletionsEach ==
  ASSUME TypeOK, DeletionsInv, NEW o, Each(o)
  PROVE  DeletionsInv'
<1> DEFINE h == Head(todo)
           word == IF o = "ok" THEN "ok" ELSE "error"
<1>1. /\ WellFormed(cmd) /\ pc \in StageSet /\ cmd' = cmd /\ pc = "each"
      /\ reports' = reports \cup {<<h, word>>}
  BY WellFormedCommand DEF Each, TypeOK, Control
<1>2. /\ things' \subseteq things /\ things \ things' \subseteq {h}
      /\ o = "ok" => Treated(h, things', cmd)
  BY DEF Each, Took, Trashed, Treated
<1>3. /\ ToSet(todo) = {h} \cup ToSet(Tail(todo)) /\ ToSet(todo) \subseteq ToSet(cmd.ids)
      /\ Len(todo) = 1 => ToSet(todo) = {h}
  BY <1>1, TodoFacts DEF Items
<1>4. ReportedIds' = ReportedIds \cup {h}
  <2>1. <<h, word>>[1] = h
    OBVIOUS
  <2> HIDE DEF word, h
  <2> QED BY <1>1, <2>1 DEF ReportedIds
<1>5. \A r \in reports' : r[2] = "ok" => Treated(r[1], things', cmd)
  <2>1. <<h, word>>[1] = h /\ <<h, word>>[2] = word /\ (word = "ok" => o = "ok")
    OBVIOUS
  <2>2. \A id : Treated(id, things, cmd) => Treated(id, things', cmd)
    BY <1>2 DEF Treated
  <2> HIDE DEF word, h
  <2> QED BY <1>1, <1>2, <2>1, <2>2 DEF DeletionsInv
<1>6. Things \ things' \subseteq ToSet(cmd.ids)
  BY <1>2, <1>3 DEF DeletionsInv
<1>7. ReportedIds \cup ToSet(todo) = ToSet(cmd.ids) /\ cmd.kind # "board_delete_nodes"
  BY <1>1, StageKinds DEF DeletionsInv
<1> HIDE DEF h, word
<1>8. CASE Len(todo) # 1
  <2>1. pc' = "each" /\ todo' = Tail(todo)
    BY <1>1, <1>8 DEF Each
  <2>2. ReportedIds' \cup ToSet(todo') = ToSet(cmd.ids)
    BY <1>3, <1>4, <1>7, <2>1
  <2>3. ~ReportedDone'
    BY <2>1 DEF ReportedDone, Over
  <2> QED BY <1>1, <1>5, <1>6, <2>1, <2>2, <2>3 DEF DeletionsInv
<1>9. CASE Len(todo) = 1
  <2>1. NextOf(pc) = "over" /\ Proceeds
    BY <1>1, <1>9 DEF NextOf, Each
  <2>2. pc' = "over"
    BY <1>1, <2>1, Proceeding DEF Ends
  <2>3. ReportedIds' = ToSet(cmd.ids)
    BY <1>3, <1>4, <1>7, <1>9
  <2> QED BY <1>1, <1>5, <1>6, <1>7, <2>2, <2>3 DEF DeletionsInv
<1> QED BY <1>8, <1>9

\* A batch is gone before the next one is taken.
LEMMA DeletionsBatch ==
  ASSUME TypeOK, DeletionsInv, NEW o, DeleteBatch(o)
  PROVE  DeletionsInv'
<1>1. /\ WellFormed(cmd) /\ pc \in StageSet /\ cmd' = cmd /\ pc = "batch" /\ reports' = reports
      /\ verdicts \in Seq(Words)
  BY WellFormedCommand DEF DeleteBatch, TypeOK, Control
<1>2. /\ things' \subseteq things /\ things \ things' \subseteq ToSet(Batch)
      /\ o = "ok" => things' \cap ToSet(Batch) = {}
  BY DEF DeleteBatch, Took
<1>3. ToSet(todo) = ToSet(Batch) \cup ToSet(Rest) /\ ToSet(todo) \subseteq ToSet(cmd.ids)
  BY <1>1, BatchFacts, TodoFacts DEF Items
<1>4. /\ Things \ things' \subseteq ToSet(cmd.ids)
      /\ \A r \in reports' : r[2] = "ok" => Treated(r[1], things', cmd)
  BY <1>1, <1>2, <1>3 DEF DeletionsInv, Treated
<1>5. /\ things \cap (ToSet(cmd.ids) \ ToSet(todo)) = {}
      /\ cmd.kind = "board_delete_nodes"
  BY <1>1, StageKinds DEF DeletionsInv
<1>6. o = "ok" => things' \cap (ToSet(cmd.ids) \ ToSet(Rest)) = {}
  BY <1>2, <1>3, <1>5
<1>7. CASE o # "ok"
  <2>1. Ends("failed") /\ "failed" \in Words
    BY <1>7 DEF DeleteBatch, Words
  <2>2. pc' = "over" /\ ~ReportedDone'
    BY <1>1, <2>1, AfterEnds DEF Ends, ReportedDone, Over
  <2> QED BY <1>1, <1>4, <2>2 DEF DeletionsInv
<1>8. CASE o = "ok" /\ Rest = << >>
  <2>1. NextOf(pc) = "over" /\ Proceeds
    BY <1>1, <1>8 DEF NextOf, DeleteBatch
  <2>2. pc' = "over"
    BY <1>1, <2>1, Proceeding DEF Ends
  <2>3. things' \cap ToSet(cmd.ids) = {}
    <3>1. ToSet(Rest) = {}
      BY <1>8 DEF ToSet
    <3> QED BY <1>6, <1>8, <3>1
  <2> QED BY <1>1, <1>4, <1>5, <2>2, <2>3 DEF DeletionsInv
<1>9. CASE o = "ok" /\ Rest # << >>
  <2>1. pc' = "batch" /\ todo' = Rest
    BY <1>1, <1>9 DEF DeleteBatch
  <2>2. ~ReportedDone'
    BY <2>1 DEF ReportedDone, Over
  <2> QED BY <1>1, <1>4, <1>6, <1>9, <2>1, <2>2 DEF DeletionsInv
<1> QED BY <1>7, <1>8, <1>9

\* A request of a command that deletes nothing.
LEMMA DeletionsMove ==
  ASSUME TypeOK, DeletionsInv, UNCHANGED <<cmd, things, reports>>, Moves,
         pc \notin {"scopes", "each", "batch", "over"}
  PROVE  DeletionsInv'
<1>1. WellFormed(cmd) /\ pc \in StageSet
  BY WellFormedCommand DEF TypeOK, Control
<1>2. ~Deleting
  BY <1>1 DEF StageSet, Deleting
<1>3. pc' \notin {"scopes", "each", "batch"}
  <2>1. pc' = NextOf(pc) \/ pc' \in {pc, "invite", "over"}
    BY <1>1, Proceeding DEF Moves, Goes, Ends
  <2>2. NextOf(pc) \notin {"scopes", "each", "batch"}
    BY <1>1, StageOrder
  <2> QED BY <2>1, <2>2
<1> QED BY <1>2, <1>3, DeletionsRest

\* What is told of deletions stays true in every step.
LEMMA DeletionsStep ==
  ASSUME TypeOK, DeletionsInv, [Next]_vars
  PROVE  DeletionsInv'
<1>0. WellFormed(cmd) /\ verdicts \in Seq(Words) /\ pc \in StageSet \cup {"over"}
  BY WellFormedCommand DEF TypeOK, Control
<1>1. CASE Start
  <2>1. cmd' = cmd /\ things' = things /\ reports' = {} /\ pc' = FirstStage
    BY <1>0, <1>1, Starting DEF Start, server, Fresh, Goes
  <2>2. pc' \notin {"each", "batch", "over"}
    BY <2>1 DEF FirstStage
  <2>3. ~ReportedDone'
    BY <2>2 DEF ReportedDone, Over
  <2> QED BY <2>1, <2>2, <2>3 DEF DeletionsInv
<1>2. CASE Killed
  <2>1. /\ UNCHANGED <<cmd, reports>> /\ Ends("killed") /\ "killed" \in Words
        /\ \/ things' = things
           \/ pc = "each" /\ things' = things \ Trashed
           \/ pc = "batch" /\ things' = things \ ToSet(Batch)
    BY <1>2, KilledCases
  <2>2. pc' = "over" /\ ~ReportedDone'
    BY <1>0, <2>1, AfterEnds DEF Ends, ReportedDone, Over
  <2>3. pc = "each" => Trashed \subseteq ToSet(cmd.ids)
    BY TodoFacts DEF Items, Trashed
  <2>4. pc = "batch" => ToSet(Batch) \subseteq ToSet(cmd.ids)
    BY BatchFacts, TodoFacts DEF Items
  <2>5. things' \subseteq things /\ things \ things' \subseteq ToSet(cmd.ids)
    BY <2>1, <2>3, <2>4
  <2> QED BY <2>1, <2>2, <2>5 DEF DeletionsInv, Treated
<1>3. CASE UNCHANGED vars \/ \E r \in Rooms : Books(r)
  <2>1. UNCHANGED <<cmd, things, reports, pc, todo, verdicts>>
    BY <1>3 DEF vars, server, Books
  <2> QED BY <2>1 DEF DeletionsInv, ReportedDone, Over, ReportedIds, Treated
<1>4. CASE Given
  <2>1. UNCHANGED <<cmd, things, reports>> /\ Moves
        /\ pc \notin {"scopes", "each", "batch", "over"}
    BY <1>4, ResolveMoves, ResolveCases DEF server
  <2> QED BY <2>1, DeletionsMove
<1>5. CASE \E o \in Outcomes : Request(o)
  <2>1. PICK o \in Outcomes : Request(o)
    BY <1>5
  <2>2. CASE Asks(o) \/ Each(o) \/ DeleteBatch(o)
    BY <2>2, DeletionsAsks, DeletionsEach, DeletionsBatch
  <2>3. CASE Draft(o) \/ Send(o)
    <3>1. /\ UNCHANGED <<cmd, things, reports>> /\ pc \in {"draft", "send"}
          /\ pc' \in {"over", "send"}
      BY <2>3 DEF Draft, Send, Goes, Ends, client
    <3>2. ~Deleting
      BY <1>0, <3>1 DEF StageSet, Deleting
    <3> QED BY <3>1, <3>2, DeletionsRest
  <2>4. CASE ~Asks(o) /\ ~Each(o) /\ ~DeleteBatch(o) /\ ~Draft(o) /\ ~Send(o)
    <3>1. UNCHANGED <<things, reports>> /\ pc \notin {"scopes", "each", "batch"}
      BY <2>1, <2>4 DEF Request, Resolve, Mention, Original, Compose, Event, RoomScopes, Room,
                        Busy, Invite, AddMembers, RemoveMembers, Change, Post, server, client
    <3> QED BY <2>1, <2>4, <3>1, OtherMoves, DeletionsMove
  <2> QED BY <2>2, <2>3, <2>4
<1> QED BY <1>1, <1>2, <1>3, <1>4, <1>5 DEF Next

-----------------------------------------------------------------------------
(* The invariant.                                                          *)

\* The invariant holds at first,
LEMMA InitInv == Init => IInv
<1> SUFFICES ASSUME Init PROVE IInv
  OBVIOUS
<1>1. TypeOK
  BY TypesInit
<1>2. /\ letters = << >> /\ events = << >> /\ posts = << >> /\ verdicts = << >>
      /\ DOMAIN letters = {} /\ DOMAIN events = {} /\ DOMAIN posts = {} /\ DOMAIN verdicts = {}
      /\ pc = "over" /\ room = None /\ reports = {} /\ members = Members /\ things = Things
  BY DEF Init
<1>3. Past(letters, Len(verdicts)) /\ Past(events, Len(verdicts))
  BY <1>2 DEF Past
<1>4. ~ReportedDone
  BY <1>2 DEF ReportedDone
<1>5. LettersInv
  BY <1>2, <1>3 DEF LettersInv
<1>6. RepliesInv
  BY <1>2 DEF RepliesInv
<1>7. EventsInv
  BY <1>2, <1>3 DEF EventsInv, Late
<1>8. RoomInv
  BY <1>2 DEF RoomInv, ByKeyword
<1>9. ResolvedInv /\ HeldInv
  BY <1>2, MadeInStepsAssumption DEF Init, ResolvedInv, HeldInv, None
<1>10. MembersInv
  BY <1>2, <1>4 DEF MembersInv
<1>11. PostsInv
  BY <1>2 DEF PostsInv
<1>12. DeletionsInv
  BY <1>2, <1>4 DEF DeletionsInv
<1> QED BY <1>1, <1>5, <1>6, <1>7, <1>8, <1>9, <1>10, <1>11, <1>12 DEF IInv

\* and every step keeps it.
LEMMA StepInv == IInv /\ [Next]_vars => IInv'
<1> SUFFICES ASSUME IInv, [Next]_vars PROVE IInv'
  OBVIOUS
<1>1. TypeOK'
  BY TypesStep DEF IInv
<1>2. LettersInv' /\ RepliesInv'
  BY LettersStep, RepliesStep DEF IInv
<1>3. EventsInv' /\ RoomInv' /\ HeldInv' /\ ResolvedInv'
  BY EventsStep, RoomStep, HeldStep, ResolvedStep DEF IInv
<1>4. MembersInv' /\ PostsInv' /\ DeletionsInv'
  BY MembersStep, PostsStep, DeletionsStep DEF IInv
<1> QED BY <1>1, <1>2, <1>3, <1>4 DEF IInv

\* The stage of a command, what it has resolved, and what the server has of all its runs
\* agree with what the user was told.
THEOREM Invariance == Spec => []IInv
  BY InitInv, StepInv, PTL DEF Spec

-----------------------------------------------------------------------------
(* What it gives.                                                          *)

\* The stages, as a set.
LEMMA StagesAre == IInv => ToSet(Stages) = StageSet
  BY WellFormedCommand, StagesFacts DEF IInv, Walk

\* The invariant implies what the user is told of letters.
LEMMA LettersKnown == IInv => LettersTold
<1> SUFFICES ASSUME IInv PROVE LettersTold
  OBVIOUS
<1> DEFINE n == Len(verdicts)
<1>1. /\ n \in Nat /\ DOMAIN verdicts = 1..n /\ Run = n + 1 /\ LettersInv
      /\ Len(letters) \in Nat /\ DOMAIN letters = 1..Len(letters)
  BY LettersTyped DEF IInv, Run
<1> HIDE DEF n
<1>2. Past(letters, n + 1)
  BY <1>1, LettersTyped DEF IInv, LettersInv, n
<1>3. \A i, j \in DOMAIN letters : letters[i].run = letters[j].run => i = j
  <2>1. SUFFICES ASSUME NEW i \in DOMAIN letters, NEW j \in DOMAIN letters,
                        letters[i].run = letters[j].run, i # j
                 PROVE  FALSE
    OBVIOUS
  <2>2. letters[i].run \in 1..(n + 1) /\ letters[j].run \in 1..(n + 1)
    BY <1>2 DEF Past
  <2>3. i < j \/ j < i
    BY <1>1, <2>1
  <2>4. letters[i].run < letters[j].run \/ letters[j].run < letters[i].run
    BY <1>2, <2>3 DEF Past
  <2> QED BY <2>1, <2>2, <2>4
<1>4. pc = "send" => letters # << >> /\ Last(letters).run = Run /\ ~Last(letters).sent
  BY <1>1 DEF LettersInv, Current, Last, n
<1>5. ASSUME NEW i \in DOMAIN letters
      PROVE  LET told == Verdict(letters[i].run) IN
               IF letters[i].sent THEN ~cmd.draft /\ told \in {"sent", "failed", "killed"}
                                  ELSE told \in {"saved", "failed", "killed", "none"}
  <2>1. CASE letters[i].run \in DOMAIN verdicts
    BY <1>1, <2>1 DEF LettersInv, LetterTold, Verdict
  <2>2. CASE letters[i].run \notin DOMAIN verdicts
    <3>1. pc = "send"
      BY <1>1, <2>2 DEF LettersInv, Past, n
    <3>2. i = Len(letters)
      BY <1>1, <2>2, <3>1, LettersTyped DEF IInv, LettersInv, n
    <3>3. ~letters[i].sent
      BY <1>1, <3>1, <3>2 DEF LettersInv
    <3> QED BY <2>2, <3>3 DEF Verdict
  <2> QED BY <2>1, <2>2
<1> QED BY <1>1, <1>3, <1>4, <1>5 DEF LettersTold, LettersInv

\* Over any number of runs, lost answers and kills, what the user is told of a letter is
\* true: one letter per run, sent only when told sent or failed or when the run was killed,
\* never with --draft.
THEOREM LettersAsTold == Spec => []LettersTold
  BY Invariance, LettersKnown, PTL

\* The invariant implies that replies reach everybody.
LEMMA Reached == IInv => ReplyReaches
  BY DEF IInv, RepliesInv, Reaches, ReplyReaches

\* Every reply that is drafted reaches the sender or those given instead, with --all all
\* others too, and no one twice, for lists of any length.
THEOREM RepliesReach == Spec => []ReplyReaches
  BY Invariance, Reached, PTL

\* The invariant implies what the user is told of events.
LEMMA Completed == IInv => EventsComplete
<1> SUFFICES ASSUME IInv PROVE EventsComplete
  OBVIOUS
<1>1. EventsInv
  BY DEF IInv
<1>2. ASSUME NEW i \in DOMAIN events
      PROVE  LET e == events[i]  told == Verdict(events[i].run) IN
        /\ e.people = {} \/ Means(cmd, cmd.add, Roughly, e.people)
        /\ told = "done" /\ e.named =>
             Means(cmd, cmd.add, Roughly, e.people) /\ (cmd.room # << >> => e.room # None)
        /\ told = "occupied" => e.people = {} /\ e.room = None
        /\ e.room # None /\ ~IsId(cmd.room) =>
             \E k \in DOMAIN RoomList : RoomList[k] = [room |-> e.room, enabled |-> TRUE]
  BY <1>1 DEF EventsInv, EventTold, ByKeyword, Verdict
<1> QED BY <1>2 DEF EventsComplete

\* An event reported without a warning has everybody and the room, unless the server did
\* not tell its id; one that is left behind because of an occupied room has nobody; a
\* keyword never leads to a disabled room.
THEOREM EventsAsTold == Spec => []EventsComplete
  BY Invariance, Completed, PTL

\* The invariant implies that members and posts are as named.
LEMMA Named == IInv => PeopleAsNamed
<1> SUFFICES ASSUME IInv PROVE PeopleAsNamed
  OBVIOUS
<1>1. MembersInv /\ PostsInv /\ ToSet(Stages) = StageSet
  BY StagesAre DEF IInv
<1> QED BY <1>1, Zenon DEF PeopleAsNamed, MembersInv, PostsInv, Asked, Added, ReportedDone, Single,
           Alone

\* Nobody but the people named is added or removed, and a change reported as done is
\* there as a whole, also after an earlier try that stopped half-way.
THEOREM PeopleNamed == Spec => []PeopleAsNamed
  BY Invariance, Named, PTL

\* The invariant implies what the user is told of deletions.
LEMMA Deleted == IInv => DeletionsTold
<1> SUFFICES ASSUME IInv PROVE DeletionsTold
  OBVIOUS
<1>1. DeletionsInv
  BY DEF IInv
<1>2. pc = "batch" => Len(Batch) \in 1..BatchSize
  BY BatchFacts DEF IInv
<1> QED BY <1>1, <1>2 DEF DeletionsTold, DeletionsInv, ReportedDone, ReportedIds, Treated

\* What is reported as deleted is gone, a draft that is trashed excepted, for any number
\* of ids, batches, kills and tries.
THEOREM DeletionsAsTold == Spec => []DeletionsTold
  BY Invariance, Deleted, PTL

\* What one step can add as a room of an event.
LEMMA RoomsInvited ==
  ASSUME IInv, [Next]_vars
  PROVE  \A i \in DOMAIN events' :
           /\ events'[i].room # None
           /\ i \in DOMAIN events => events[i].room = None
           => events'[i].room \notin seen /\ (None \in seen => warned)
<1> SUFFICES ASSUME NEW i \in DOMAIN events', events'[i].room # None,
                    i \in DOMAIN events => events[i].room = None
             PROVE  events'[i].room \notin seen /\ (None \in seen => warned)
  OBVIOUS
<1>1. events \in Seq(EventRecords)
  BY DEF IInv, TypeOK, Data, EventRecords
<1>2. ASSUME NEW named \in BOOLEAN, events' = Made(named)
      PROVE  FALSE
  <2> DEFINE x == [run |-> Run, named |-> named, people |-> {}, room |-> None]
  <2>1. events' = Append(events, x) /\ x.room = None
    BY <1>2 DEF Made
  <2> HIDE DEF x
  <2>2. \A k \in DOMAIN Append(events, x) :
          Append(events, x)[k] = x \/ (k \in DOMAIN events /\ Append(events, x)[k] = events[k])
    BY <1>1, AppendedAt
  <2>3. events'[i] = x \/ (i \in DOMAIN events /\ events'[i] = events[i])
    BY <2>1, <2>2
  <2> QED BY <2>1, <2>3
<1>3. CASE pc = "invite" /\ events' = Invited
  <2> DEFINE m == Len(events)
  <2>1. events' = [events EXCEPT ![m] = [@ EXCEPT !.people = who, !.room = room]]
    BY <1>3 DEF Invited
  <2>2. \A r \in EventRecords : [r EXCEPT !.people = who, !.room = room].room = room
    BY DEF EventRecords
  <2> HIDE DEF m
  <2>3. i \in DOMAIN events
    BY <2>1
  <2>4. events[i] \in EventRecords
    BY <1>1, <2>3
  <2>5. \/ events'[i] = events[i]
        \/ events'[i] = [events[i] EXCEPT !.people = who, !.room = room]
    BY <2>1, <2>3
  <2>6. events'[i].room = room
    BY <2>2, <2>3, <2>4, <2>5
  <2> QED BY <1>3, <2>6 DEF IInv, RoomInv
<1>4. CASE events' = events
  BY <1>4
<1>5. CASE \E o \in Outcomes : Event(o)
  BY <1>2, <1>4, <1>5 DEF Event
<1>6. CASE \E o \in Outcomes : Invite(o)
  BY <1>3, <1>4, <1>6 DEF Invite
<1>7. CASE Killed
  <2>1. \/ events' = events
        \/ pc = "event" /\ events' = Made(FALSE)
        \/ pc = "invite" /\ events' = Invited
    BY <1>7, KilledCases DEF IInv
  <2> QED BY <1>2, <1>3, <1>4, <2>1
<1>8. events' = events \/ Killed \/ \E o \in Outcomes : Event(o) \/ Invite(o)
  BY DEF Next, Start, Given, Books, vars, server, Request, Asks, Resolve, Mention, Original,
         Compose, Draft, Send, RoomScopes, Room, Busy, AddMembers, RemoveMembers, Change, Each,
         DeleteBatch, Post
<1> QED BY <1>4, <1>5, <1>6, <1>7, <1>8

\* A room that was taken when the command asked is never invited, and one of which nobody
\* answered only after a warning.
THEOREM TakenRoomsNotInvited == Spec => TakenNotInvited
  BY Invariance, RoomsInvited, PTL DEF Spec, TakenNotInvited
=============================================================================
