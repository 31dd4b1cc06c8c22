----------------------------- MODULE EventStream -----------------------------
(***************************************************************************)
(* `larkctl im listen`: the event stream of an account, from the gateway's *)
(* lines to what the callback gets.  Several listeners of one account take *)
(* the stream over from one another, streams break off in the middle of a  *)
(* line, requests for a stream fail, the session expires.  The gateway is  *)
(* modelled from how the code uses it: it sends to the newest stream, and  *)
(* tells the one before that it is superseded.                             *)
(***************************************************************************)
EXTENDS Integers, Sequences, FiniteSets, SequencesExt

CONSTANTS
  Listeners,  \* processes that run im listen
  Once,       \* those with --once
  Texts,      \* names of frames and contents of data lines
  Events,     \* frames that the gateway may push, a heartbeat among them
  MaxEvents,  \* bound: frames pushed
  MaxBreaks   \* bound: streams that break off and requests that fail

\* A frame as the callback gets it: a name, "none" for an event of Feishu, and the
\* texts of its data lines.  A heartbeat has neither.
Frame(event, data) == [event |-> event, data |-> data]
Ready == Frame("ready", <<"account">>)
Superseded == Frame("superseded", <<"newer">>)
Frames == [event : Texts, data : Seq(Texts)]

ASSUME EventStreamAssumption ==
  /\ Once \subseteq Listeners /\ {MaxEvents, MaxBreaks} \subseteq Nat
  /\ {"none", "empty", "part", "ready", "superseded", "account", "newer"} \subseteq Texts
  /\ Events \subseteq Frames
  /\ \A f \in Events : f.event = "none"

VARIABLES
  pc,          \* "off", "connect", "reading", "pause" of 5 s, "ended"
  stream,      \* of a listener's stream: "open", "closed" by the gateway, "broken"
  given,       \* history: the frames that the gateway has sent on it, but heartbeats
  wire,        \* its lines that the listener has not read
  parser,      \* parseSSE: event and data of the frame being read
  out,         \* the frames that the callback got from this stream
  superseded,  \* the callback's flag
  verdict,     \* what the listener ended with
  streams,     \* how many streams there have been
  turn,        \* turn[l]: the number of l's last one
  valid,       \* the session has not expired
  events,      \* frames pushed
  breaks

client == <<pc, parser, out, superseded, verdict>>
gateway == <<stream, given, wire, streams, turn>>
vars == <<client, gateway, valid, events, breaks>>

Line(field, text) == [field |-> field, text |-> text]
AllLines == [field : {"comment", "event", "data", "blank"}, text : Texts]
Nothing == Frame("none", << >>)

\* The lines of a frame; a heartbeat is a comment.
Lines(f) ==
  (IF f = Nothing THEN <<Line("comment", "empty")>> ELSE << >>)
  \o (IF f.event # "none" THEN <<Line("event", f.event)>> ELSE << >>)
  \o [i \in DOMAIN f.data |-> Line("data", f.data[i])]
  \o <<Line("blank", "empty")>>

Init ==
  /\ pc = [l \in Listeners |-> "off"] /\ verdict = [l \in Listeners |-> "none"]
  /\ stream = [l \in Listeners |-> "closed"] /\ turn = [l \in Listeners |-> 0] /\ streams = 0
  /\ given = [l \in Listeners |-> << >>] /\ wire = [l \in Listeners |-> << >>]
  /\ parser = [l \in Listeners |-> Nothing] /\ out = [l \in Listeners |-> << >>]
  /\ superseded = [l \in Listeners |-> FALSE]
  /\ valid = TRUE /\ events = 0 /\ breaks = 0

-----------------------------------------------------------------------------
(* The gateway, the network and the user.                                  *)

Open == {l \in Listeners : stream[l] = "open"}

Push(l, f) ==
  /\ l \in Open /\ events < MaxEvents
  /\ events' = events + 1
  /\ given' = [given EXCEPT ![l] = IF f = Nothing THEN @ ELSE Append(@, f)]
  /\ wire' = [wire EXCEPT ![l] = @ \o Lines(f)]
  /\ UNCHANGED <<client, stream, streams, turn, valid, breaks>>

\* What can arrive of a line that is cut off, which the scanner returns as a line;
\* a piece of the name of a field is ignored, as if nothing arrived.
Leftovers(line) ==
  {<< >>} \cup (IF line.field = "event" THEN {<<Line("event", "part")>>} ELSE {})
         \cup (IF line.field = "data" THEN {<<Line("data", t)>> : t \in {"part", "empty"}} ELSE {})

\* Also what the gateway sent before it closed the stream may not arrive.  A line of
\* more than 4 MB, at which the scanner stops, ends the stream in this way, too.
Break(l) ==
  /\ pc[l] = "reading" /\ stream[l] # "broken" /\ breaks < MaxBreaks
  /\ breaks' = breaks + 1
  /\ stream' = [stream EXCEPT ![l] = "broken"]
  /\ \/ UNCHANGED wire
     \/ \E k \in DOMAIN wire[l] : \E rest \in Leftovers(wire[l][k]) :
          wire' = [wire EXCEPT ![l] = SubSeq(@, 1, k - 1) \o rest]
  /\ UNCHANGED <<client, given, streams, turn, valid, events>>

Expires ==
  /\ valid /\ valid' = FALSE
  /\ UNCHANGED <<client, gateway, events, breaks>>

Start(l) ==
  /\ pc[l] = "off"
  /\ pc' = [pc EXCEPT ![l] = "connect"]
  /\ UNCHANGED <<parser, out, superseded, verdict, gateway, valid, events, breaks>>

Killed(l) ==
  /\ pc[l] \notin {"off", "ended"}
  /\ pc' = [pc EXCEPT ![l] = "ended"] /\ verdict' = [verdict EXCEPT ![l] = "killed"]
  /\ stream' = [stream EXCEPT ![l] = "closed"]
  /\ given' = [given EXCEPT ![l] = << >>] /\ wire' = [wire EXCEPT ![l] = << >>]
  /\ out' = [out EXCEPT ![l] = << >>] /\ parser' = [parser EXCEPT ![l] = Nothing]
  /\ superseded' = [superseded EXCEPT ![l] = FALSE]
  /\ UNCHANGED <<streams, turn, valid, events, breaks>>

-----------------------------------------------------------------------------
(* The listener.                                                           *)

\* Mutant: a listener that is superseded connects again.
ReturnedAgain(l, flag) ==
  /\ pc' = [pc EXCEPT ![l] = IF l \in Once THEN "ended" ELSE "pause"]
  /\ verdict' = [verdict EXCEPT ![l] = IF l \in Once THEN "eof" ELSE @]

\* StreamEvents has returned to im listen.
Returned(l, flag) ==
  /\ pc' = [pc EXCEPT ![l] = IF flag \/ l \in Once THEN "ended" ELSE "pause"]
  /\ verdict' = [verdict EXCEPT ![l] = IF flag THEN "superseded"
                                       ELSE IF l \in Once THEN "eof" ELSE @]

\* The new stream supersedes the one before, which the gateway closes.
StreamEvents(l) ==
  /\ pc[l] = "connect" /\ valid
  /\ pc' = [pc EXCEPT ![l] = "reading"]
  /\ superseded' = [superseded EXCEPT ![l] = FALSE]
  /\ parser' = [parser EXCEPT ![l] = Nothing]
  /\ out' = [out EXCEPT ![l] = << >>]
  /\ given' = [m \in Listeners |-> IF m = l THEN <<Ready>>
                 ELSE IF m \in Open THEN Append(given[m], Superseded) ELSE given[m]]
  /\ wire' = [m \in Listeners |-> IF m = l THEN Lines(Ready)
                 ELSE IF m \in Open THEN wire[m] \o Lines(Superseded) ELSE wire[m]]
  /\ stream' = [m \in Listeners |-> IF m = l THEN "open"
                 ELSE IF m \in Open THEN "closed" ELSE stream[m]]
  /\ streams' = streams + 1 /\ turn' = [turn EXCEPT ![l] = streams + 1]
  /\ UNCHANGED <<verdict, valid, events, breaks>>

\* No answer, or one that is no stream because the session has expired: unlike
\* other requests this one does not renew it.
Refused(l) ==
  /\ pc[l] = "connect"
  /\ IF valid THEN breaks < MaxBreaks /\ breaks' = breaks + 1 ELSE UNCHANGED breaks
  /\ superseded' = [superseded EXCEPT ![l] = FALSE]
  /\ Returned(l, FALSE)
  /\ UNCHANGED <<parser, out, gateway, valid, events>>

\* Mutant: the loop is not entered again.
AgainNever(l) == pc[l] = "off" /\ UNCHANGED vars

\* After 5 s.
Again(l) ==
  /\ pc[l] = "pause"
  /\ pc' = [pc EXCEPT ![l] = "connect"]
  /\ UNCHANGED <<parser, out, superseded, verdict, gateway, valid, events, breaks>>

\* Mutant: only the two named frames are no events of Feishu.
CallbackAnyName(flag, f) == flag \/ f.event \notin {"ready", "none"}

\* The callback of im listen: it reports a ready, and prints other frames.
Callback(flag, f) == flag \/ f.event = "superseded"

flush(l, f) ==
  /\ out' = [out EXCEPT ![l] = IF f = Nothing THEN @ ELSE Append(@, f)]
  /\ superseded' = [superseded EXCEPT ![l] = IF f = Nothing THEN @ ELSE Callback(@, f)]
  /\ parser' = [parser EXCEPT ![l] = Nothing]

\* Mutant: of several data lines the last one counts.
AddedReplaces(f, line) ==
  CASE line.field = "event" -> [f EXCEPT !.event = line.text]
    [] line.field = "data" -> [f EXCEPT !.data = <<line.text>>]
    [] OTHER -> f

\* What a line adds to the frame being read.
Added(f, line) ==
  CASE line.field = "event" -> [f EXCEPT !.event = line.text]
    [] line.field = "data" -> [f EXCEPT !.data = Append(@, line.text)]
    [] OTHER -> f

\* Mutant: the end of a frame waits for the line after it.
parseSSEPeeks(l) ==
  /\ pc[l] = "reading" /\ wire[l] # << >>
  /\ stream[l] = "open" => Len(wire[l]) > 1
  /\ wire' = [wire EXCEPT ![l] = Tail(@)]
  /\ IF Head(wire[l]).field = "blank"
       THEN flush(l, parser[l])
       ELSE /\ parser' = [parser EXCEPT ![l] = Added(@, Head(wire[l]))]
            /\ UNCHANGED <<out, superseded>>
  /\ UNCHANGED <<pc, verdict, stream, given, streams, turn, valid, events, breaks>>

\* parseSSE: the next line.
parseSSE(l) ==
  /\ pc[l] = "reading" /\ wire[l] # << >>
  /\ wire' = [wire EXCEPT ![l] = Tail(@)]
  /\ IF Head(wire[l]).field = "blank"
       THEN flush(l, parser[l])
       ELSE /\ parser' = [parser EXCEPT ![l] = Added(@, Head(wire[l]))]
            /\ UNCHANGED <<out, superseded>>
  /\ UNCHANGED <<pc, verdict, stream, given, streams, turn, valid, events, breaks>>

\* The end of the stream: what there is of a frame counts as one.
EndOfStream(l) ==
  /\ pc[l] = "reading" /\ wire[l] = << >> /\ stream[l] # "open"
  /\ flush(l, parser[l])
  /\ Returned(l, superseded'[l])
  /\ UNCHANGED <<gateway, valid, events, breaks>>

Listen(l) == StreamEvents(l) \/ Refused(l) \/ Again(l) \/ parseSSE(l) \/ EndOfStream(l)

Next ==
  \/ Expires
  \/ \E l \in Listeners : \/ Start(l) \/ Killed(l) \/ Break(l) \/ Listen(l)
                          \/ \E f \in Events : Push(l, f)

\* What a listener does by itself; lines that have been sent arrive.  The client that
\* asks for a stream has no time-out: a request may be neither answered nor fail.
Proceeds(l) == Again(l) \/ parseSSE(l) \/ EndOfStream(l)

Spec == Init /\ [][Next]_vars /\ \A l \in Listeners : WF_vars(Proceeds(l))

-----------------------------------------------------------------------------
(* Properties.                                                             *)

\* One stream is open at most, the newest, and its listener reads; a listener that
\* does not read keeps nothing of a frame.
TypeOK ==
  /\ pc \in [Listeners -> {"off", "connect", "reading", "pause", "ended"}]
  /\ stream \in [Listeners -> {"open", "closed", "broken"}]
  /\ verdict \in [Listeners -> {"none", "killed", "eof", "superseded"}]
  /\ given \in [Listeners -> Seq(Frames)] /\ wire \in [Listeners -> Seq(AllLines)]
  /\ parser \in [Listeners -> Frames] /\ out \in [Listeners -> Seq(Frames)]
  /\ superseded \in [Listeners -> BOOLEAN] /\ valid \in BOOLEAN
  /\ turn \in [Listeners -> 0..streams]
  /\ streams \in Nat /\ events \in Nat /\ breaks \in Nat
  /\ \A l \in Listeners :
       /\ (verdict[l] # "none") <=> (pc[l] = "ended")
       /\ stream[l] = "open" => pc[l] = "reading" /\ turn[l] = streams
       /\ pc[l] # "reading" => parser[l] = Nothing
  /\ \A l, m \in Open : l = m

\* g is what a stream that broke off in the middle of f made of it.
PartOf(g, f) ==
  /\ g.event \in {f.event, "part", "none"}
  /\ Len(g.data) <= Len(f.data)
  /\ \A i \in DOMAIN g.data : g.data[i] \in {f.data[i], "part", "empty"}
  /\ \A i \in DOMAIN g.data : i < Len(g.data) => g.data[i] = f.data[i]

\* The callback gets the frames that the gateway sent on this stream, whole, in
\* order, none twice and none left out.  Only when the stream has broken off may
\* the last of them be a part: im listen prints it like an event.
FramesInOrder ==
  \A l \in Listeners : \A i \in DOMAIN out[l] :
    /\ i \in DOMAIN given[l]
    /\ \/ out[l][i] = given[l][i]
       \/ /\ i = Len(out[l]) /\ stream[l] # "open" /\ pc[l] # "reading"
          /\ PartOf(out[l][i], given[l][i])

\* A listener ends as taken over only if another one has got its stream later, so
\* that it is never the newest that goes.
NewestStays ==
  \A l \in Listeners : verdict[l] = "superseded" => \E m \in Listeners : turn[m] > turn[l]

\* Whether l has got the frame by which the gateway told it.
Told(l) == Superseded \in ToSet(out[l])

\* A listener that was told that it is superseded never asks for a stream again, so
\* that two of them do not take it from one another for ever.  One whose stream
\* breaks off before it is told does.
NeverBack == [][\A l \in Listeners : Told(l) => turn'[l] = turn[l] /\ pc'[l] # "pause"]_vars

\* Without --once a listener that was started reads a stream again and again, or
\* ends because it was told or killed, or has no valid session any more, or waits
\* for ever on a request that the gateway does not answer.
ComesBack ==
  \A l \in Listeners \ Once :
    pc[l] = "pause" ~> \/ pc[l] = "reading"
                       \/ verdict[l] \in {"superseded", "killed"} \/ ~valid
                       \/ [](pc[l] = "connect")

\* What the gateway sends on a stream that does not break off reaches the callback
\* without another frame coming after it.
AllHeard ==
  \A l \in Listeners : []<>(pc[l] = "reading" /\ stream[l] # "broken" => Len(out[l]) = Len(given[l]))
=============================================================================
