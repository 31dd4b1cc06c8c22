---------------------------- MODULE MCAgentServe ----------------------------
(* Small instances of AgentServe for TLC.                                  *)
EXTENDS AgentServe

CONSTANTS c1, c2, home, work, ws

OneChat == {c1}
TwoChats == {c1, c2}
OneDir == {home}
TwoDirs == {home, work}
OneName == {ws}
NoName == {}

\* What can interrupt a turn, and what it can interrupt.
Interrupts == {"text", "media", "stop", "new"}

\* What moves a chat between directories.
Moves == {"text", "new", "cd", "wsLike"}

\* The chats are interchangeable (no liveness is checked with this).
ChatSymmetry == Permutations(TwoChats)

\* Each path a message can take through a worker, once.
Paths == {"media", "stop", "cd", "wsLike", "cmdArgs"}
=============================================================================
