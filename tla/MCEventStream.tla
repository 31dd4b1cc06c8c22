--------------------------- MODULE MCEventStream ---------------------------
(* Small instances for EventStream.                                        *)
EXTENDS EventStream

SomeTexts == {"none", "empty", "part", "ready", "superseded", "account", "newer", "e", "f1", "f2"}

\* An event in one line, one in two lines, and a heartbeat.
SomeEvents == {Frame("none", <<"e">>), Frame("none", <<"f1", "f2">>), Nothing}
=============================================================================
