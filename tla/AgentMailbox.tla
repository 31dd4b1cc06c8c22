---------------------------- MODULE AgentMailbox ----------------------------
(***************************************************************************)
(* What `larkctl agent serve` promises the users of its chats: a message   *)
(* is either accepted by the mailbox of its chat or finished at once (it   *)
(* was dropped, or it was a /stop answered out of band), and the accepted  *)
(* messages of a chat are finished oldest first, each of them once.        *)
(***************************************************************************)
EXTENDS Integers

CONSTANTS
  Chats,
  Ids             \* messages: numbers, in the order they arrived

VARIABLES
  waiting,        \* waiting[c]: the accepted messages of c not yet finished
  finished,       \* the messages that will never be touched again
  closed          \* the program has ended

boxVars == <<waiting, finished, closed>>

Known == finished \cup UNION {waiting[c] : c \in Chats}

Init ==
  /\ waiting = [c \in Chats |-> {}]
  /\ finished = {}
  /\ closed = FALSE

\* A message is only accepted behind the ones its chat already waits for.
Accept(c, i) ==
  /\ ~closed
  /\ i \notin Known
  /\ \A j \in waiting[c] : j < i
  /\ waiting' = [waiting EXCEPT ![c] = @ \cup {i}]
  /\ UNCHANGED <<finished, closed>>

\* Dropped, or answered out of band.
FinishAtOnce(i) ==
  /\ ~closed
  /\ i \notin Known
  /\ finished' = finished \cup {i}
  /\ UNCHANGED <<waiting, closed>>

\* One turn settles the oldest messages of its chat together.
SettleOldest(c, group) ==
  /\ ~closed
  /\ group # {}
  /\ \A i \in group, j \in waiting[c] \ group : i < j
  /\ waiting' = [waiting EXCEPT ![c] = @ \ group]
  /\ finished' = finished \cup group
  /\ UNCHANGED closed

Close ==
  /\ closed' = TRUE
  /\ UNCHANGED <<waiting, finished>>

Next ==
  \/ \E c \in Chats, i \in Ids : Accept(c, i)
  \/ \E i \in Ids : FinishAtOnce(i)
  \/ \E c \in Chats : \E group \in SUBSET waiting[c] : SettleOldest(c, group)
  \/ Close

Spec == Init /\ [][Next]_boxVars

\* An accepted message is finished, unless the program ends first.
Delivery ==
  \A c \in Chats, i \in Ids : i \in waiting[c] ~> (i \notin waiting[c] \/ closed)

=============================================================================
