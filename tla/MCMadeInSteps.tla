--------------------------- MODULE MCMadeInSteps ---------------------------
(* Small instances for MadeInSteps.                                        *)
EXTENDS MadeInSteps

\* Two people have the same name, one is found by a part of his; nobody is Zoe.  A
\* search for Ann finds three people, one more than an answer has.
Everybody == {"ann1", "ann2", "anna", "bob"}
SameName == [n \in {"Ann", "Bob", "Bo", "Zoe"} |->
               CASE n = "Ann" -> {"ann1", "ann2"} [] n = "Bob" -> {"bob"} [] OTHER -> {}]
SearchFinds == [n \in {"Ann", "Bob", "Bo", "Zoe"} |->
             CASE n = "Ann" -> {"ann1", "ann2", "anna"} [] n \in {"Bo", "Bob"} -> {"bob"}
               [] OTHER -> {}]

TwoRooms == {"r1", "r2"}
FirstDisabled == <<[room |-> "r1", enabled |-> FALSE], [room |-> "r2", enabled |-> TRUE]>>
SomeMembers == {<<"follower", "ann1">>, <<"editor", "bob">>, <<"assignee", "bob">>}
FourThings == {"t1", "t2", "t3", "t4"}
OneDraft == {"t2"}

ToAll == [from |-> "carl", to |-> <<"me", "dora">>, cc |-> <<"eve">>]
NoSender == [from |-> "", to |-> <<"me", "carl">>, cc |-> << >>]

Plain(kind) ==
  [kind |-> kind, to |-> << >>, cc |-> << >>, original |-> ToAll, from |-> TRUE, draft |-> FALSE,
   add |-> << >>, remove |-> << >>, room |-> << >>, ids |-> << >>, token |-> FALSE,
   bcc |-> << >>, role |-> "editor"]

Lists == {<<Id("ann1")>>, <<Name("Bo"), Name("Ann")>>, <<Name("Bob"), Name("Zoe")>>}

Mails ==
  {[Plain("mail_send") EXCEPT !.to = t, !.from = f, !.draft = d] :
     t \in {<<"dora">>, << >>}, f \in BOOLEAN, d \in BOOLEAN}
  \cup {[Plain("mail_send") EXCEPT !.bcc = <<"dora">>]}
  \cup {[Plain(k) EXCEPT !.to = t, !.cc = <<"eve">>, !.original = m, !.draft = d] :
          k \in {"mail_reply", "mail_reply_all", "mail_forward"}, t \in {<<"dora">>, << >>},
          m \in {ToAll, NoSender}, d \in BOOLEAN}

Calendars ==
  {[Plain("calendar_create") EXCEPT !.add = a, !.room = r] :
     a \in Lists \cup {<< >>}, r \in {<< >>, Id("r1"), Name("16")}}
  \cup {Plain("calendar_rsvp")}

Tasks ==
  {[Plain(k) EXCEPT !.add = a] :
     k \in {"tasks_create", "tasks_assign", "tasks_follow"}, a \in Lists}
  \cup {[Plain(k) EXCEPT !.remove = a] : k \in {"tasks_unassign", "tasks_unfollow"}, a \in Lists}
  \cup {[Plain("tasks_tasklist_members") EXCEPT !.add = a, !.remove = b] :
          a \in Lists \cup {<< >>}, b \in Lists}
  \cup {[Plain("tasks_tasklist_members") EXCEPT !.remove = <<Id("bob")>>, !.role = "viewer"]}
  \cup {[Plain(k) EXCEPT !.add = <<As("follower", Name("Bob")), Id("ann1")>>] :
          k \in {"tasks_create", "tasks_assign"}}
  \cup {[Plain("tasks_unassign") EXCEPT !.remove = <<As("follower", Id("ann1"))>>]}
  \cup {[Plain("tasks_tasklist_members") EXCEPT !.add = a] : a \in Lists}

Others ==
  {[Plain("docs_add_mention") EXCEPT !.add = a] : a \in Lists \cup {<<Name("Bob")>>, <<Name("Ann")>>}}
  \cup {Plain("im_send"), Plain("im_send_file"), Plain("docs_add_mention"), Plain("tasks_create")}
  \cup {[Plain("board_create_nodes") EXCEPT !.token = t] : t \in BOOLEAN}
  \cup {[Plain(k) EXCEPT !.ids = <<"t1", "t2", "t3">>] :
          k \in {"mail_trash", "mail_draft_delete", "board_delete_nodes"}}

AllCommands == Mails \cup Calendars \cup Tasks \cup Others
AllOutcomes == {"ok", "failed", "lost"}
=============================================================================
