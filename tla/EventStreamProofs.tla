-------------------------- MODULE EventStreamProofs --------------------------
(***************************************************************************)
(* Proofs about EventStream, for every number of listeners, events and     *)
(* breaks, whatever frames the gateway pushes and wherever a stream breaks *)
(* off.  The invariant that NewestStays needs says that nothing of a       *)
(* superseded frame can be found anywhere on the way to the newest         *)
(* listener: not on the wire, in the parser, in the flag or in the verdict.*)
(***************************************************************************)
EXTENDS EventStream, SequenceTheorems, TLAPS

\* Another listener has got its stream after l.
Later(l) == \E m \in Listeners : turn[m] > turn[l]

\* The lines that do not supersede.
Quiet == AllLines \ {Line("event", "superseded")}

Calm(l) ==
  /\ wire[l] \in Seq(Quiet)
  /\ parser[l].event # "superseded"
  /\ ~superseded[l]
  /\ verdict[l] # "superseded"

Causes == \A l \in Listeners : Later(l) \/ Calm(l)

IInv == TypeOK /\ Causes

-----------------------------------------------------------------------------
(* Lines.                                                                  *)

\* The sequences of no element and of one.
LEMMA ShortSequences == \A S : << >> \in Seq(S) /\ \A x \in S : <<x>> \in Seq(S)
  OBVIOUS

\* The texts that the gateway itself sends.
LEMMA OwnTexts ==
  /\ "none" \in Texts /\ "empty" \in Texts /\ "part" \in Texts /\ "ready" \in Texts
  /\ "superseded" \in Texts /\ "account" \in Texts /\ "newer" \in Texts
  BY EventStreamAssumption

\* The frames that the gateway itself sends, and the empty one.
LEMMA OwnFrames == Ready \in Frames /\ Superseded \in Frames /\ Nothing \in Frames
  <1>1. <<"account">> \in Seq(Texts) /\ <<"newer">> \in Seq(Texts)
    BY OwnTexts, ShortSequences, Zenon
  <1>2. Frame("ready", <<"account">>) \in Frames
    BY <1>1, OwnTexts DEF Frame, Frames
  <1>3. Frame("superseded", <<"newer">>) \in Frames
    BY <1>1, OwnTexts DEF Frame, Frames
  <1>4. Frame("none", << >>) \in Frames
    BY OwnTexts, ShortSequences DEF Frame, Frames
  <1> QED BY <1>2, <1>3, <1>4 DEF Ready, Superseded, Nothing

\* Every line but one is quiet.
LEMMA LineQuiet ==
  ASSUME NEW field \in {"comment", "event", "data", "blank"}, NEW text \in Texts
  PROVE  /\ Line(field, text) \in AllLines
         /\ field # "event" \/ text # "superseded" => Line(field, text) \in Quiet
  BY DEF Line, AllLines, Quiet

\* Four sequences over a set make one over that set.
LEMMA FourParts ==
  \A S : \A a, b, c, d \in Seq(S) : a \o b \o c \o d \in Seq(S)
  <1> SUFFICES ASSUME NEW S, NEW a \in Seq(S), NEW b \in Seq(S), NEW c \in Seq(S), NEW d \in Seq(S)
               PROVE  a \o b \o c \o d \in Seq(S)
    OBVIOUS
  <1>1. a \o b \in Seq(S)
    OBVIOUS
  <1>2. (a \o b) \o c \in Seq(S)
    BY <1>1
  <1> QED BY <1>2

\* Only a frame of that name supersedes.
LEMMA LinesType ==
  ASSUME NEW f \in Frames
  PROVE  /\ Lines(f) \in Seq(AllLines)
         /\ f.event # "superseded" => Lines(f) \in Seq(Quiet)
  <1> DEFINE data == [i \in DOMAIN f.data |-> Line("data", f.data[i])]
             name == IF f.event # "none" THEN <<Line("event", f.event)>> ELSE << >>
             beat == IF f = Nothing THEN <<Line("comment", "empty")>> ELSE << >>
  <1>1. f.event \in Texts /\ f.data \in Seq(Texts)
    BY DEF Frames
  <1>2. data \in Seq(Quiet)
    <2>1. DOMAIN f.data = 1..Len(f.data) /\ Len(f.data) \in Nat
      BY <1>1
    <2>2. \A i \in 1..Len(f.data) : Line("data", f.data[i]) \in Quiet
      BY <1>1, LineQuiet
    <2> QED BY <2>1, <2>2
  <1>3. beat \in Seq(Quiet)
    BY LineQuiet, OwnTexts, ShortSequences, Zenon
  <1>4. <<Line("blank", "empty")>> \in Seq(Quiet)
    BY LineQuiet, OwnTexts, ShortSequences, Zenon
  <1>5. \A s : s \in Seq(Quiet) => s \in Seq(AllLines)
    BY DEF Quiet
  <1>6. name \in Seq(AllLines)
    BY <1>1, LineQuiet, ShortSequences, Zenon
  <1>7. ASSUME f.event # "superseded" PROVE name \in Seq(Quiet)
    BY <1>1, <1>7, LineQuiet, ShortSequences, Zenon
  <1>8. Lines(f) = beat \o name \o data \o <<Line("blank", "empty")>>
    BY Zenon DEF Lines
  <1> HIDE DEF data, name, beat
  <1> DEFINE blank == <<Line("blank", "empty")>>
  <1> HIDE DEF blank
  <1>9. beat \o name \o data \o blank \in Seq(AllLines)
    BY <1>2, <1>3, <1>4, <1>5, <1>6, FourParts DEF blank
  <1>10. f.event # "superseded" => beat \o name \o data \o blank \in Seq(Quiet)
    BY <1>2, <1>3, <1>4, <1>7, FourParts DEF blank
  <1> QED BY <1>8, <1>9, <1>10 DEF blank

\* What is left of a line that was cut off supersedes nothing.
LEMMA LeftoverLines ==
  ASSUME NEW line, NEW rest \in Leftovers(line)
  PROVE  rest \in Seq(Quiet)
  <1>1. \/ rest = << >>
        \/ rest = <<Line("event", "part")>>
        \/ rest = <<Line("data", "part")>>
        \/ rest = <<Line("data", "empty")>>
    BY Zenon DEF Leftovers
  <1>2. /\ Line("event", "part") \in Quiet
        /\ Line("data", "part") \in Quiet /\ Line("data", "empty") \in Quiet
    BY LineQuiet, OwnTexts
  <1> QED BY <1>1, <1>2, ShortSequences, Zenon

\* What is left of a stream that broke off is made of lines of the same set.
LEMMA BrokenOff ==
  ASSUME NEW S, Quiet \subseteq S,
         NEW w \in Seq(S), NEW k \in 1..Len(w), NEW rest \in Leftovers(w[k])
  PROVE  SubSeq(w, 1, k - 1) \o rest \in Seq(S)
  <1>1. SubSeq(w, 1, k - 1) \in Seq(S)
    <2>1. Len(w) \in Nat /\ k \in Nat /\ \A i \in 1..(k - 1) : w[i] \in S
      OBVIOUS
    <2> QED BY <2>1
  <1>2. rest \in Seq(S)
    BY LeftoverLines
  <1> QED BY <1>1, <1>2

\* A line makes a frame of a frame, and only the line of that name makes it supersede.
LEMMA AddedType ==
  ASSUME NEW f \in Frames, NEW line \in AllLines
  PROVE  /\ Added(f, line) \in Frames
         /\ f.event # "superseded" /\ line \in Quiet => Added(f, line).event # "superseded"
  <1>1. f.event \in Texts /\ f.data \in Seq(Texts) /\ line.text \in Texts
    BY DEF Frames, AllLines
  <1>2. Append(f.data, line.text) \in Seq(Texts)
    BY <1>1
  <1>3. CASE line.field = "event"
    <2>1. Added(f, line) = [f EXCEPT !.event = line.text]
      BY <1>3 DEF Added
    <2>2. Added(f, line) \in Frames /\ Added(f, line).event = line.text
      BY <1>1, <2>1 DEF Frames
    <2>3. line \in Quiet => line.text # "superseded"
      BY <1>3 DEF Quiet, AllLines, Line
    <2> QED BY <2>2, <2>3
  <1>4. CASE line.field = "data"
    <2>1. Added(f, line) = [f EXCEPT !.data = Append(f.data, line.text)]
      BY <1>4 DEF Added
    <2> QED BY <1>1, <1>2, <2>1 DEF Frames
  <1>5. CASE line.field \notin {"event", "data"}
    BY <1>5 DEF Added
  <1> QED BY <1>3, <1>4, <1>5

-----------------------------------------------------------------------------
(* Types.                                                                  *)

\* Nothing has been read or sent.
LEMMA TypeInit == Init => TypeOK
  BY OwnFrames, ShortSequences DEF Init, TypeOK, Open

\* The gateway, the network and the end of the session.
LEMMA GatewayType ==
  ASSUME TypeOK, NEW l \in Listeners,
         Break(l) \/ (\E f \in Events : Push(l, f)) \/ Expires
  PROVE  TypeOK'
  <1>1. ASSUME NEW f \in Events, Push(l, f) PROVE TypeOK'
    <2>1. f \in Frames /\ Lines(f) \in Seq(AllLines)
      BY LinesType, EventStreamAssumption
    <2>2. /\ given' \in [Listeners -> Seq(Frames)]
          /\ wire' \in [Listeners -> Seq(AllLines)]
      BY <1>1, <2>1 DEF Push, TypeOK
    <2>3. events' \in Nat
      BY <1>1 DEF Push, TypeOK
    <2> QED BY <1>1, <2>2, <2>3 DEF Push, TypeOK, Open, client
  <1>2. CASE Break(l)
    <2>1. wire' \in [Listeners -> Seq(AllLines)]
      <3>1. CASE UNCHANGED wire
        BY <3>1 DEF TypeOK
      <3>2. ASSUME NEW k \in DOMAIN wire[l], NEW rest \in Leftovers(wire[l][k]),
                   wire' = [wire EXCEPT ![l] = SubSeq(@, 1, k - 1) \o rest]
            PROVE  wire' \in [Listeners -> Seq(AllLines)]
        <4>1. wire[l] \in Seq(AllLines)
          BY DEF TypeOK
        <4>2. k \in 1..Len(wire[l])
          BY <4>1
        <4>3. SubSeq(wire[l], 1, k - 1) \o rest \in Seq(AllLines)
          <5>1. Quiet \subseteq AllLines
            BY DEF Quiet
          <5> QED BY <4>1, <4>2, <5>1, BrokenOff
        <4> QED BY <3>2, <4>3 DEF TypeOK
      <3> QED BY <1>2, <3>1, <3>2 DEF Break
    <2>2. stream' \in [Listeners -> {"open", "closed", "broken"}] /\ breaks' \in Nat
      BY <1>2 DEF Break, TypeOK
    <2>3. stream'[l] = "broken" /\ \A m \in Listeners \ {l} : stream'[m] = stream[m]
      BY <1>2 DEF Break, TypeOK
    <2> QED BY <1>2, <2>1, <2>2, <2>3 DEF Break, TypeOK, Open, client
  <1>3. CASE Expires
    BY <1>3 DEF Expires, TypeOK, Open, client, gateway
  <1> QED BY <1>1, <1>2, <1>3

\* What im listen does after a stream.
LEMMA ReturnedType ==
  ASSUME TypeOK, NEW l \in Listeners, NEW flag \in BOOLEAN, Returned(l, flag),
         pc[l] \in {"connect", "reading"}
  PROVE  /\ pc' \in [Listeners -> {"off", "connect", "reading", "pause", "ended"}]
         /\ verdict' \in [Listeners -> {"none", "killed", "eof", "superseded"}]
         /\ \A m \in Listeners : (verdict'[m] # "none") <=> (pc'[m] = "ended")
         /\ pc'[l] \in {"pause", "ended"} /\ \A m \in Listeners \ {l} : pc'[m] = pc[m]
  BY DEF Returned, TypeOK

\* Nothing changes for the gateway, and the parser is empty.
LEMMA Returning ==
  ASSUME TypeOK, NEW l \in Listeners, NEW flag \in BOOLEAN, Returned(l, flag),
         pc[l] \in {"connect", "reading"}, stream[l] # "open",
         UNCHANGED <<gateway, valid, events>>, breaks' \in Nat,
         out' \in [Listeners -> Seq(Frames)], superseded' \in [Listeners -> BOOLEAN],
         parser' \in [Listeners -> Frames], parser'[l] = Nothing,
         \A m \in Listeners \ {l} : parser'[m] = parser[m]
  PROVE  TypeOK'
  <1>1. UNCHANGED <<stream, given, wire, streams, turn, valid, events>>
    BY DEF gateway
  <1>2. ASSUME NEW m \in Listeners, stream'[m] = "open"
        PROVE  pc'[m] = "reading" /\ turn'[m] = streams'
    <2>1. stream[m] = "open" /\ m # l
      BY <1>1, <1>2
    <2>2. pc[m] = "reading" /\ turn[m] = streams
      BY <2>1 DEF TypeOK
    <2>3. pc'[m] = pc[m]
      BY <2>1, ReturnedType
    <2> QED BY <1>1, <2>2, <2>3
  <1>3. ASSUME NEW m \in Listeners, pc'[m] # "reading" PROVE parser'[m] = Nothing
    <2>1. CASE m = l
      BY <2>1
    <2>2. CASE m # l
      <3>1. pc'[m] = pc[m] /\ parser'[m] = parser[m]
        BY <2>2, ReturnedType
      <3> QED BY <1>3, <3>1 DEF TypeOK
    <2> QED BY <2>1, <2>2
  <1>4. \A m, n \in Open' : m = n
    BY <1>1 DEF TypeOK, Open
  <1> QED BY <1>1, <1>2, <1>3, <1>4, ReturnedType DEF TypeOK

\* A frame is passed on.
LEMMA flushType ==
  ASSUME TypeOK, NEW l \in Listeners, flush(l, parser[l])
  PROVE  /\ out' \in [Listeners -> Seq(Frames)]
         /\ superseded' \in [Listeners -> BOOLEAN]
         /\ parser' = [parser EXCEPT ![l] = Nothing] /\ parser' \in [Listeners -> Frames]
  <1>1. parser[l] \in Frames /\ out[l] \in Seq(Frames) /\ superseded[l] \in BOOLEAN
    BY DEF TypeOK
  <1>2. Append(out[l], parser[l]) \in Seq(Frames)
    BY <1>1
  <1>3. Callback(superseded[l], parser[l]) \in BOOLEAN
    BY <1>1 DEF Callback
  <1> QED BY <1>1, <1>2, <1>3, OwnFrames DEF flush, TypeOK

\* The steps of a listener and of its user.
LEMMA ListenType ==
  ASSUME TypeOK, NEW l \in Listeners, Listen(l) \/ Start(l) \/ Killed(l)
  PROVE  TypeOK'
  <1>1. CASE StreamEvents(l)
    <2>1. Lines(Ready) \in Seq(AllLines) /\ Lines(Superseded) \in Seq(AllLines)
      BY OwnFrames, LinesType
    <2>2. wire' \in [Listeners -> Seq(AllLines)]
      BY <1>1, <2>1 DEF StreamEvents, TypeOK
    <2>3. given' \in [Listeners -> Seq(Frames)]
      <3>1. <<Ready>> \in Seq(Frames)
        BY OwnFrames, ShortSequences, Zenon
      <3>2. \A m \in Listeners : Append(given[m], Superseded) \in Seq(Frames)
        BY OwnFrames DEF TypeOK
      <3> QED BY <1>1, <3>1, <3>2 DEF StreamEvents, TypeOK
    <2>4. /\ stream' \in [Listeners -> {"open", "closed", "broken"}]
          /\ \A m \in Listeners : stream'[m] = "open" => m = l
      BY <1>1 DEF StreamEvents, TypeOK, Open
    <2>5. streams' \in Nat /\ turn' \in [Listeners -> 0..streams'] /\ turn'[l] = streams'
      BY <1>1 DEF StreamEvents, TypeOK
    <2>6. /\ pc' \in [Listeners -> {"off", "connect", "reading", "pause", "ended"}]
          /\ pc'[l] = "reading" /\ \A m \in Listeners \ {l} : pc'[m] = pc[m]
      BY <1>1 DEF StreamEvents, TypeOK
    <2>7. /\ parser' \in [Listeners -> Frames] /\ \A m \in Listeners \ {l} : parser'[m] = parser[m]
          /\ out' \in [Listeners -> Seq(Frames)] /\ superseded' \in [Listeners -> BOOLEAN]
      BY <1>1, OwnFrames DEF StreamEvents, TypeOK
    <2>8. verdict' = verdict /\ valid' = valid /\ events' = events /\ breaks' = breaks
          /\ pc[l] = "connect"
      BY <1>1 DEF StreamEvents
    <2> QED BY <2>2, <2>3, <2>4, <2>5, <2>6, <2>7, <2>8 DEF TypeOK, Open
  <1>2. CASE Refused(l)
    <2>1. pc[l] = "connect" /\ Returned(l, FALSE)
      BY <1>2 DEF Refused
    <2>2. breaks' \in Nat /\ superseded' \in [Listeners -> BOOLEAN] /\ stream[l] # "open"
      BY <1>2 DEF Refused, TypeOK
    <2>3. parser[l] = Nothing /\ parser' = parser /\ out' = out
          /\ UNCHANGED <<gateway, valid, events>>
      BY <1>2, <2>1 DEF Refused, TypeOK
    <2> QED BY <2>1, <2>2, <2>3, Returning DEF TypeOK
  <1>3. CASE Again(l)
    BY <1>3 DEF Again, TypeOK, Open, gateway
  <1>4. CASE parseSSE(l)
    <2>1. pc[l] = "reading" /\ wire[l] \in Seq(AllLines) /\ wire[l] # << >>
      BY <1>4 DEF parseSSE, TypeOK
    <2>2. Tail(wire[l]) \in Seq(AllLines) /\ Head(wire[l]) \in AllLines
      BY <2>1
    <2>3. wire' \in [Listeners -> Seq(AllLines)]
      BY <1>4, <2>2 DEF parseSSE, TypeOK
    <2>4. /\ parser' \in [Listeners -> Frames] /\ \A m \in Listeners \ {l} : parser'[m] = parser[m]
          /\ out' \in [Listeners -> Seq(Frames)] /\ superseded' \in [Listeners -> BOOLEAN]
      <3>1. CASE Head(wire[l]).field = "blank"
        <4>1. flush(l, parser[l])
          BY <1>4, <3>1 DEF parseSSE
        <4> QED BY <4>1, flushType DEF TypeOK
      <3>2. CASE Head(wire[l]).field # "blank"
        <4>1. /\ parser' = [parser EXCEPT ![l] = Added(parser[l], Head(wire[l]))]
              /\ UNCHANGED <<out, superseded>>
          BY <1>4, <3>2 DEF parseSSE, TypeOK
        <4>2. Added(parser[l], Head(wire[l])) \in Frames
          BY <2>2, AddedType DEF TypeOK
        <4> QED BY <4>1, <4>2 DEF TypeOK
      <3> QED BY <3>1, <3>2
    <2>5. UNCHANGED <<pc, verdict, stream, given, streams, turn, valid, events, breaks>>
      BY <1>4 DEF parseSSE
    <2>6. \A m \in Listeners : pc[m] # "reading" => parser'[m] = Nothing
      BY <2>1, <2>4 DEF TypeOK
    <2> QED BY <2>3, <2>4, <2>5, <2>6 DEF TypeOK, Open
  <1>5. CASE EndOfStream(l)
    <2>1. pc[l] = "reading" /\ stream[l] # "open" /\ flush(l, parser[l])
          /\ Returned(l, superseded'[l]) /\ UNCHANGED <<gateway, valid, events, breaks>>
      BY <1>5 DEF EndOfStream
    <2>2. superseded'[l] \in BOOLEAN
      BY <2>1, flushType
    <2>3. parser'[l] = Nothing /\ \A m \in Listeners \ {l} : parser'[m] = parser[m]
      BY <2>1, flushType DEF TypeOK
    <2>4. breaks' \in Nat
      BY <2>1 DEF TypeOK
    <2> QED BY <2>1, <2>2, <2>3, <2>4, flushType, Returning
  <1>6. CASE Start(l)
    BY <1>6 DEF Start, TypeOK, Open, gateway
  <1>7. CASE Killed(l)
    BY <1>7, OwnFrames, ShortSequences DEF Killed, TypeOK, Open
  <1> QED BY <1>1, <1>2, <1>3, <1>4, <1>5, <1>6, <1>7 DEF Listen

\* All steps.
LEMMA TypeStep == TypeOK /\ [Next]_vars => TypeOK'
  <1> SUFFICES ASSUME TypeOK, [Next]_vars PROVE TypeOK'
    OBVIOUS
  <1>1. CASE UNCHANGED vars
    BY <1>1 DEF vars, client, gateway, TypeOK, Open
  <1>2. CASE Expires
    BY <1>2 DEF Expires, TypeOK, Open, client, gateway
  <1>3. CASE Next /\ ~Expires
    BY <1>3, GatewayType, ListenType DEF Next
  <1> QED BY <1>1, <1>2, <1>3

-----------------------------------------------------------------------------
(* The newest listener stays.                                              *)

\* A step after which l is as calm as before and the turns are the same.
LEMMA CalmKept ==
  ASSUME TypeOK, Causes, NEW l \in Listeners, turn' = turn,
         Calm(l) => Calm(l)',
         \A m \in Listeners \ {l} :
           /\ wire'[m] = wire[m] /\ parser'[m] = parser[m]
           /\ superseded'[m] = superseded[m] /\ verdict'[m] = verdict[m]
  PROVE  Causes'
  <1> SUFFICES ASSUME NEW m \in Listeners PROVE (Later(m) \/ Calm(m))'
    BY DEF Causes
  <1>1. CASE Later(m)
    BY <1>1 DEF Later
  <1>2. CASE Calm(m) /\ m # l
    BY <1>2 DEF Calm
  <1>3. CASE Calm(m) /\ m = l
    BY <1>3
  <1> QED BY <1>1, <1>2, <1>3 DEF Causes

\* A frame of another name is passed on.
LEMMA flushCalm ==
  ASSUME TypeOK, NEW l \in Listeners, Calm(l), flush(l, parser[l])
  PROVE  /\ parser'[l].event # "superseded" /\ ~superseded'[l]
         /\ \A m \in Listeners \ {l} : parser'[m] = parser[m] /\ superseded'[m] = superseded[m]
  <1>1. ~superseded[l] /\ parser[l].event # "superseded"
    BY DEF Calm
  <1>2. ~Callback(superseded[l], parser[l])
    BY <1>1 DEF Callback
  <1>3. Nothing.event # "superseded"
    BY DEF Nothing, Frame
  <1>4. superseded'[l] = (IF parser[l] = Nothing THEN superseded[l]
                                                 ELSE Callback(superseded[l], parser[l]))
    BY DEF flush, TypeOK
  <1>5. parser'[l] = Nothing
    BY DEF flush, TypeOK
  <1>6. \A m \in Listeners \ {l} : parser'[m] = parser[m] /\ superseded'[m] = superseded[m]
    BY DEF flush, TypeOK
  <1> QED BY <1>1, <1>2, <1>3, <1>4, <1>5, <1>6

\* l gets its stream: it is the newest, and everybody else has a later one.
LEMMA StreamCalm ==
  ASSUME TypeOK, NEW l \in Listeners, StreamEvents(l)
  PROVE  Causes'
  <1>1. /\ turn'[l] = streams + 1
        /\ \A m \in Listeners \ {l} : turn'[m] = turn[m] /\ turn[m] <= streams
    BY DEF StreamEvents, TypeOK
  <1>2. \A m \in Listeners \ {l} : turn'[l] > turn'[m]
    BY <1>1 DEF TypeOK
  <1>3. Calm(l)'
    <2>1. wire'[l] = Lines(Ready) /\ parser'[l] = Nothing /\ superseded'[l] = FALSE
      BY DEF StreamEvents, TypeOK
    <2>2. verdict'[l] # "superseded"
      BY DEF StreamEvents, TypeOK
    <2>3. Lines(Ready) \in Seq(Quiet)
      <3>1. Ready.event # "superseded"
        BY DEF Ready, Frame
      <3> QED BY <3>1, OwnFrames, LinesType
    <2>4. Nothing.event # "superseded"
      BY DEF Nothing, Frame
    <2> QED BY <2>1, <2>2, <2>3, <2>4 DEF Calm
  <1> QED BY <1>2, <1>3 DEF Causes, Later

\* Every step leaves a listener calm or followed by another one.
LEMMA CausesStep == TypeOK /\ Causes /\ [Next]_vars => Causes'
  <1> SUFFICES ASSUME TypeOK, Causes, [Next]_vars PROVE Causes'
    OBVIOUS
  <1>1. CASE UNCHANGED vars \/ Expires
    BY <1>1 DEF vars, client, gateway, Expires, Causes, Calm, Later
  <1>2. ASSUME NEW l \in Listeners, NEW f \in Events, Push(l, f) PROVE Causes'
    <2>1. f \in Frames /\ f.event # "superseded"
      BY EventStreamAssumption
    <2>2. Lines(f) \in Seq(Quiet)
      BY <2>1, LinesType
    <2>3. Calm(l) => Calm(l)'
      BY <1>2, <2>2 DEF Push, Calm, client, TypeOK
    <2> QED BY <1>2, <2>3, CalmKept DEF Push, client, TypeOK
  <1>3. ASSUME NEW l \in Listeners, Break(l) PROVE Causes'
    <2>1. Calm(l) => wire'[l] \in Seq(Quiet)
      <3> SUFFICES ASSUME Calm(l) PROVE wire'[l] \in Seq(Quiet)
        OBVIOUS
      <3>1. wire[l] \in Seq(Quiet)
        BY DEF Calm
      <3>2. ASSUME NEW k \in DOMAIN wire[l], NEW rest \in Leftovers(wire[l][k]),
                   wire' = [wire EXCEPT ![l] = SubSeq(@, 1, k - 1) \o rest]
            PROVE  wire'[l] \in Seq(Quiet)
        <4>1. k \in 1..Len(wire[l])
          BY <3>1
        <4>2. SubSeq(wire[l], 1, k - 1) \o rest \in Seq(Quiet)
          BY <3>1, <4>1, BrokenOff
        <4> QED BY <3>2, <4>2 DEF TypeOK
      <3> QED BY <1>3, <3>1, <3>2 DEF Break
    <2>2. \A m \in Listeners \ {l} : wire'[m] = wire[m]
      BY <1>3 DEF Break, TypeOK
    <2>3. turn' = turn /\ UNCHANGED client
      BY <1>3 DEF Break
    <2> QED BY <2>1, <2>2, <2>3, CalmKept DEF Calm, client
  <1>4. ASSUME NEW l \in Listeners, Start(l) PROVE Causes'
    BY <1>4, CalmKept DEF Start, Calm, gateway
  <1>5. ASSUME NEW l \in Listeners, Killed(l) PROVE Causes'
    <2>1. << >> \in Seq(Quiet) /\ Nothing.event # "superseded"
      BY ShortSequences DEF Nothing, Frame
    <2>2. Calm(l)'
      BY <1>5, <2>1 DEF Killed, Calm, TypeOK
    <2> QED BY <1>5, <2>2, CalmKept DEF Killed, TypeOK
  <1>6. ASSUME NEW l \in Listeners, StreamEvents(l) PROVE Causes'
    BY <1>6, StreamCalm
  <1>7. ASSUME NEW l \in Listeners, Refused(l) PROVE Causes'
    BY <1>7, CalmKept DEF Refused, Returned, Calm, TypeOK, gateway
  <1>8. ASSUME NEW l \in Listeners, Again(l) PROVE Causes'
    BY <1>8, CalmKept DEF Again, Calm, gateway
  <1>9. ASSUME NEW l \in Listeners, parseSSE(l) PROVE Causes'
    <2>1. wire' = [wire EXCEPT ![l] = Tail(@)] /\ wire[l] # << >>
          /\ UNCHANGED <<verdict, turn>>
      BY <1>9 DEF parseSSE
    <2>2. /\ Calm(l) => parser'[l].event # "superseded" /\ ~superseded'[l]
          /\ \A m \in Listeners \ {l} : parser'[m] = parser[m] /\ superseded'[m] = superseded[m]
      <3>1. CASE Head(wire[l]).field = "blank"
        <4>1. flush(l, parser[l])
          BY <1>9, <3>1 DEF parseSSE
        <4>2. \A m \in Listeners \ {l} : parser'[m] = parser[m] /\ superseded'[m] = superseded[m]
          BY <4>1 DEF flush, TypeOK
        <4> QED BY <4>1, <4>2, flushCalm
      <3>2. CASE Head(wire[l]).field # "blank"
        <4>1. /\ parser' = [parser EXCEPT ![l] = Added(parser[l], Head(wire[l]))]
              /\ superseded' = superseded
          BY <1>9, <3>2 DEF parseSSE, TypeOK
        <4>2. ASSUME Calm(l) PROVE Added(parser[l], Head(wire[l])).event # "superseded"
          <5>1. Head(wire[l]) \in Quiet /\ Head(wire[l]) \in AllLines
            BY <2>1, <4>2 DEF Calm, Quiet
          <5>2. parser[l] \in Frames /\ parser[l].event # "superseded"
            BY <4>2 DEF Calm, TypeOK
          <5> QED BY <5>1, <5>2, AddedType
        <4> QED BY <4>1, <4>2 DEF Calm, TypeOK
      <3> QED BY <3>1, <3>2
    <2>3. /\ Calm(l) => wire'[l] \in Seq(Quiet)
          /\ \A m \in Listeners \ {l} : wire'[m] = wire[m]
      BY <2>1 DEF Calm, TypeOK
    <2> QED BY <2>1, <2>2, <2>3, CalmKept DEF Calm
  <1>10. ASSUME NEW l \in Listeners, EndOfStream(l) PROVE Causes'
    <2>1. /\ flush(l, parser[l]) /\ Returned(l, superseded'[l])
          /\ wire' = wire /\ turn' = turn
      BY <1>10 DEF EndOfStream, gateway
    <2>2. \A m \in Listeners \ {l} :
            /\ parser'[m] = parser[m] /\ superseded'[m] = superseded[m]
            /\ verdict'[m] = verdict[m]
      BY <2>1 DEF flush, Returned, TypeOK
    <2>3. ASSUME Calm(l) PROVE Calm(l)'
      <3>1. parser'[l].event # "superseded" /\ ~superseded'[l]
        BY <2>1, <2>3, flushCalm
      <3>2. verdict'[l] # "superseded"
        BY <2>1, <2>3, <3>1 DEF Returned, Calm, TypeOK
      <3> QED BY <2>1, <2>3, <3>1, <3>2 DEF Calm
    <2> QED BY <2>1, <2>2, <2>3, CalmKept
  <1> QED BY <1>1, <1>2, <1>3, <1>4, <1>5, <1>6, <1>7, <1>8, <1>9, <1>10 DEF Next, Listen

\* Nobody has been told anything.
LEMMA InitIInv == Init => IInv
  <1> SUFFICES ASSUME Init PROVE Causes
    BY TypeInit DEF IInv
  <1>1. << >> \in Seq(Quiet) /\ Nothing.event # "superseded"
    BY ShortSequences DEF Nothing, Frame
  <1> QED BY <1>1 DEF Init, Causes, Calm

THEOREM Invariance == Spec => []IInv
  <1>1. IInv /\ [Next]_vars => IInv'
    BY TypeStep, CausesStep DEF IInv
  <1> QED BY <1>1, InitIInv, PTL DEF Spec

\* The types and what belongs together: of the streams only the newest is open.
THEOREM TypeCorrect == Spec => []TypeOK
  <1>1. IInv => TypeOK
    BY DEF IInv
  <1> QED BY <1>1, Invariance, PTL

\* A listener that ends as superseded has been followed by another one, however
\* streams break off, so that not all of them can take one another for newer.
THEOREM TheNewestStays == Spec => []NewestStays
  <1>1. IInv => NewestStays
    BY DEF IInv, Causes, Calm, Later, NewestStays
  <1> QED BY <1>1, Invariance, PTL

-----------------------------------------------------------------------------
(* One that was told never comes back.                                     *)

\* Who has got the frame has set the flag, and reads what is left or has ended.
ToldStays ==
  \A l \in Listeners : Told(l) => superseded[l] /\ pc[l] \in {"reading", "ended"}

\* The frame that supersedes sets the flag when it is passed on.
LEMMA flushTold ==
  ASSUME TypeOK, ToldStays, NEW l \in Listeners, flush(l, parser[l])
  PROVE  /\ Told(l) => Told(l)' /\ superseded'[l]
         /\ Told(l)' => superseded'[l]
         /\ \A m \in Listeners \ {l} : out'[m] = out[m] /\ superseded'[m] = superseded[m]
  <1>1. out[l] \in Seq(Frames) /\ parser[l] \in Frames
    BY DEF TypeOK
  <1>2. /\ superseded'[l] = (IF parser[l] = Nothing THEN superseded[l]
                                                    ELSE Callback(superseded[l], parser[l]))
        /\ out'[l] = IF parser[l] = Nothing THEN out[l] ELSE Append(out[l], parser[l])
        /\ \A m \in Listeners \ {l} : out'[m] = out[m] /\ superseded'[m] = superseded[m]
    BY DEF flush, TypeOK
  <1>3. ToSet(Append(out[l], parser[l])) = ToSet(out[l]) \cup {parser[l]}
    <2>1. DOMAIN out[l] = 1..Len(out[l]) /\ Len(out[l]) \in Nat
      BY <1>1
    <2>2. DOMAIN Append(out[l], parser[l]) = 1..(Len(out[l]) + 1)
      BY <1>1
    <2>3. \A i \in 1..Len(out[l]) : Append(out[l], parser[l])[i] = out[l][i]
      BY <1>1
    <2>4. Append(out[l], parser[l])[Len(out[l]) + 1] = parser[l]
      BY <1>1
    <2> QED BY <2>1, <2>2, <2>3, <2>4 DEF ToSet
  <1>4. parser[l] = Superseded => Callback(superseded[l], parser[l])
    BY DEF Callback, Superseded, Frame
  <1>5. Told(l) => superseded[l]
    BY DEF ToldStays
  <1>6. superseded[l] => superseded'[l]
    BY <1>2 DEF Callback
  <1>7. Told(l)' => Told(l) \/ (parser[l] # Nothing /\ parser[l] = Superseded)
    BY <1>2, <1>3 DEF Told
  <1>8. Told(l) => Told(l)'
    BY <1>2, <1>3 DEF Told
  <1> QED BY <1>2, <1>4, <1>5, <1>6, <1>7, <1>8

\* A step of l keeps the others as they are.
LEMMA ToldKept ==
  ASSUME ToldStays, NEW l \in Listeners,
         Told(l)' => superseded'[l] /\ pc'[l] \in {"reading", "ended"},
         \A m \in Listeners \ {l} :
           out'[m] = out[m] /\ superseded'[m] = superseded[m] /\ pc'[m] = pc[m]
  PROVE  ToldStays'
  BY DEF ToldStays, Told

\* Nobody who was told asks for a stream, in a step of l.
Firm(l) ==
  /\ ToldStays'
  /\ \A m \in Listeners : Told(m) => turn'[m] = turn[m] /\ pc'[m] # "pause"

\* Whoever was told has no step that asks for a stream.
LEMMA ListenFirm ==
  ASSUME TypeOK, ToldStays, NEW l \in Listeners, Listen(l) \/ Start(l) \/ Killed(l)
  PROVE  Firm(l)
  <1>1. CASE StreamEvents(l)
    <2>1. pc[l] = "connect" /\ ~Told(l)
      BY <1>1 DEF StreamEvents, ToldStays
    <2>2. out'[l] = << >> /\ superseded'[l] = FALSE /\ pc'[l] = "reading"
          /\ \A m \in Listeners \ {l} :
               /\ out'[m] = out[m] /\ superseded'[m] = superseded[m] /\ pc'[m] = pc[m]
               /\ turn'[m] = turn[m]
      BY <1>1 DEF StreamEvents, TypeOK
    <2>3. ~Told(l)'
      BY <2>2 DEF Told, ToSet
    <2>4. ToldStays'
      BY <2>2, <2>3, ToldKept
    <2> QED BY <2>1, <2>2, <2>4 DEF Firm, ToldStays
  <1>2. CASE Refused(l)
    <2>1. pc[l] = "connect" /\ ~Told(l)
      BY <1>2 DEF Refused, ToldStays
    <2>2. out' = out /\ turn' = turn
          /\ \A m \in Listeners \ {l} : superseded'[m] = superseded[m] /\ pc'[m] = pc[m]
      BY <1>2 DEF Refused, Returned, TypeOK, gateway
    <2>3. ~Told(l)'
      BY <2>1, <2>2 DEF Told
    <2>4. ToldStays'
      BY <2>2, <2>3, ToldKept
    <2> QED BY <2>1, <2>2, <2>4 DEF Firm, ToldStays
  <1>3. CASE Again(l) \/ Start(l)
    <2>1. ~Told(l) /\ UNCHANGED <<out, superseded, turn>>
          /\ \A m \in Listeners \ {l} : pc'[m] = pc[m]
      BY <1>3 DEF Again, Start, ToldStays, TypeOK, gateway
    <2>2. ToldStays'
      BY <2>1, ToldKept DEF Told
    <2> QED BY <2>1, <2>2 DEF Firm, ToldStays
  <1>4. CASE Killed(l)
    <2>1. out'[l] = << >> /\ turn' = turn /\ pc'[l] = "ended"
          /\ \A m \in Listeners \ {l} :
               out'[m] = out[m] /\ superseded'[m] = superseded[m] /\ pc'[m] = pc[m]
      BY <1>4 DEF Killed, TypeOK
    <2>2. ~Told(l)'
      BY <2>1 DEF Told, ToSet
    <2>3. ToldStays'
      BY <2>1, <2>2, ToldKept
    <2> QED BY <2>1, <2>3 DEF Firm, ToldStays
  <1>5. CASE parseSSE(l)
    <2>1. pc[l] = "reading" /\ pc' = pc /\ turn' = turn
      BY <1>5 DEF parseSSE
    <2>2. /\ Told(l)' => superseded'[l]
          /\ \A m \in Listeners \ {l} : out'[m] = out[m] /\ superseded'[m] = superseded[m]
      <3>1. CASE Head(wire[l]).field = "blank"
        BY <1>5, <3>1, flushTold DEF parseSSE
      <3>2. CASE Head(wire[l]).field # "blank"
        BY <1>5, <3>2 DEF parseSSE, ToldStays, Told
      <3> QED BY <3>1, <3>2
    <2>3. ToldStays'
      BY <2>1, <2>2, ToldKept
    <2> QED BY <2>1, <2>3 DEF Firm, ToldStays
  <1>6. CASE EndOfStream(l)
    <2>1. flush(l, parser[l]) /\ Returned(l, superseded'[l]) /\ turn' = turn
      BY <1>6 DEF EndOfStream, gateway
    <2>2. superseded'[l] => pc'[l] = "ended"
      BY <2>1 DEF Returned, TypeOK
    <2>3. \A m \in Listeners \ {l} : pc'[m] = pc[m]
      BY <2>1 DEF Returned, TypeOK
    <2>4. ToldStays'
      BY <2>1, <2>2, <2>3, flushTold, ToldKept
    <2>5. Told(l) => pc'[l] # "pause"
      BY <2>1, <2>2, flushTold
    <2> QED BY <2>1, <2>3, <2>4, <2>5 DEF Firm, ToldStays
  <1> QED BY <1>1, <1>2, <1>3, <1>4, <1>5, <1>6 DEF Listen

\* All steps.
LEMMA ToldStep ==
  ASSUME TypeOK, ToldStays, [Next]_vars
  PROVE  /\ ToldStays'
         /\ \A l \in Listeners : Told(l) => turn'[l] = turn[l] /\ pc'[l] # "pause"
  <1>1. ASSUME UNCHANGED <<client, turn>>
        PROVE  /\ ToldStays'
               /\ \A l \in Listeners : Told(l) => turn'[l] = turn[l] /\ pc'[l] # "pause"
    BY <1>1 DEF client, ToldStays, Told
  <1>2. CASE UNCHANGED vars \/ Expires
    BY <1>1, <1>2 DEF vars, gateway, Expires
  <1>3. ASSUME NEW l \in Listeners, Break(l) \/ (\E f \in Events : Push(l, f))
        PROVE  UNCHANGED <<client, turn>>
    BY <1>3 DEF Break, Push
  <1>4. ASSUME NEW l \in Listeners, Listen(l) \/ Start(l) \/ Killed(l)
        PROVE  Firm(l)
    BY <1>4, ListenFirm
  <1> QED BY <1>1, <1>2, <1>3, <1>4 DEF Next, Firm

\* A listener that has got the frame by which the gateway told it that it is
\* superseded never asks for a stream again.
THEOREM TheToldStayAway == Spec => NeverBack
  <1>1. Init => ToldStays
    BY DEF Init, ToldStays, Told, ToSet
  <1>2. TypeOK /\ ToldStays /\ [Next]_vars => ToldStays'
    BY ToldStep
  <1>3. TypeOK /\ ToldStays /\ [Next]_vars =>
          [\A l \in Listeners : Told(l) => turn'[l] = turn[l] /\ pc'[l] # "pause"]_vars
    BY ToldStep
  <1> QED BY <1>1, <1>2, <1>3, TypeCorrect, PTL DEF Spec, NeverBack

-----------------------------------------------------------------------------
(* What the callback gets: the lines on the wire spell the frames that the  *)
(* gateway has sent.                                                        *)

\* The state of the parser: the frame being read and the frames that it has passed on.
States == [frame : Frames, got : Seq(Frames)]
State(p, g) == [frame |-> p, got |-> g]

\* What parseSSE makes of a state and a line.
ReadLine(s, line) ==
  IF line.field = "blank"
    THEN State(Nothing, IF s.frame = Nothing THEN s.got ELSE Append(s.got, s.frame))
    ELSE State(Added(s.frame, line), s.got)

Begins(s, g) == Len(s) <= Len(g) /\ \A i \in 1..Len(s) : s[i] = g[i]

\* The frame being read is a beginning of the one that g has next.
Within(s, g) ==
  /\ Begins(s.got, g)
  /\ \/ s.frame = Nothing
     \/ /\ Len(s.got) < Len(g)
        /\ s.frame.event \in {"none", g[Len(s.got) + 1].event}
        /\ Begins(s.frame.data, g[Len(s.got) + 1].data)

\* It is what is left of it.
Torn(s, g) ==
  /\ Begins(s.got, g)
  /\ \/ s.frame = Nothing
     \/ Len(s.got) < Len(g) /\ PartOf(s.frame, g[Len(s.got) + 1])

\* Reading lines w from state s on passes R, and nothing that is not in g, and comes to
\* the end of g, or, if the lines are not whole, to a piece of the next frame.
Passes(R, s, w) ==
  /\ R[0] = s
  /\ \A i \in 1..Len(w) : R[i] = ReadLine(R[i - 1], w[i])
Reads(R, w, g, whole) ==
  /\ \A i \in 1..Len(w) : Within(R[i - 1], g)
  /\ IF whole THEN R[Len(w)] = State(Nothing, g) ELSE Torn(R[Len(w)], g)
Spells(s, w, g, whole) ==
  \E R \in [0..Len(w) -> States] : Passes(R, s, w) /\ Reads(R, w, g, whole)

\* Lines that a gateway sends: the name of an event is not that of no event.
Clear == AllLines \ {Line("event", "none")}

\* The parts of a state.
LEMMA StateType ==
  ASSUME NEW p \in Frames, NEW g \in Seq(Frames)
  PROVE  State(p, g) \in States /\ State(p, g).frame = p /\ State(p, g).got = g
  BY DEF State, States

\* A line makes a state of a state.
LEMMA ReadLineType ==
  ASSUME NEW s \in States, NEW line \in AllLines
  PROVE  ReadLine(s, line) \in States
  <1>1. s.frame \in Frames /\ s.got \in Seq(Frames)
    BY DEF States
  <1>2. Added(s.frame, line) \in Frames
    BY <1>1, AddedType
  <1>3. Append(s.got, s.frame) \in Seq(Frames)
    BY <1>1
  <1> QED BY <1>1, <1>2, <1>3, OwnFrames, StateType DEF ReadLine

\* Nothing is being read at the end of a frame.
LEMMA AtTheEnd ==
  ASSUME NEW g \in Seq(Frames)
  PROVE  Within(State(Nothing, g), g)
  <1>1. State(Nothing, g).frame = Nothing /\ State(Nothing, g).got = g
    BY OwnFrames, StateType
  <1>2. Begins(g, g)
    BY DEF Begins
  <1> QED BY <1>1, <1>2 DEF Within

\* A beginning of g is one of what g goes on to.
LEMMA LongerBegins ==
  ASSUME NEW s, Len(s) \in Nat, NEW g \in Seq(Frames), NEW f \in Frames, Begins(s, g)
  PROVE  Begins(s, Append(g, f))
  BY DEF Begins

\* What was within g is within what g goes on to.
LEMMA WithinLonger ==
  ASSUME NEW s \in States, NEW g \in Seq(Frames), NEW f \in Frames, Within(s, g)
  PROVE  Within(s, Append(g, f))
  <1>1. s.got \in Seq(Frames) /\ Len(s.got) \in Nat
    BY DEF States
  <1>2. Begins(s.got, Append(g, f))
    BY <1>1, LongerBegins DEF Within
  <1>3. CASE s.frame = Nothing
    BY <1>2, <1>3 DEF Within
  <1>4. CASE s.frame # Nothing
    <2>1. Len(s.got) < Len(g)
      BY <1>4 DEF Within
    <2>2. /\ Append(g, f)[Len(s.got) + 1] = g[Len(s.got) + 1]
          /\ Len(s.got) < Len(Append(g, f))
      BY <1>1, <2>1
    <2> QED BY <1>2, <1>4, <2>1, <2>2 DEF Within
  <1> QED BY <1>3, <1>4

\* What is whole is also a piece.
LEMMA WithinTorn ==
  ASSUME NEW s \in States, NEW g \in Seq(Frames), Within(s, g)
  PROVE  Torn(s, g)
  <1>1. CASE s.frame = Nothing
    BY <1>1 DEF Within, Torn
  <1>2. CASE s.frame # Nothing
    <2>1. s.frame.data \in Seq(Texts) /\ Len(s.frame.data) \in Nat
      BY DEF States, Frames
    <2>2. DOMAIN s.frame.data = 1..Len(s.frame.data)
      BY <2>1
    <2>3. PartOf(s.frame, g[Len(s.got) + 1])
      BY <1>2, <2>2 DEF Within, Begins, PartOf
    <2> QED BY <1>2, <2>3 DEF Within, Torn
  <1> QED BY <1>1, <1>2

\* Lines that are whole can be the last of a stream that breaks off.
LEMMA WholeOrNot ==
  ASSUME NEW s \in States, NEW w \in Seq(AllLines), NEW g \in Seq(Frames), Spells(s, w, g, TRUE)
  PROVE  Spells(s, w, g, FALSE)
  <1>1. PICK R \in [0..Len(w) -> States] : Passes(R, s, w) /\ Reads(R, w, g, TRUE)
    BY DEF Spells
  <1>2. Len(w) \in 0..Len(w) /\ R[Len(w)] \in States
    <2>1. Len(w) \in Nat
      OBVIOUS
    <2> QED BY <2>1
  <1>3. Torn(R[Len(w)], g)
    BY <1>1, <1>2, AtTheEnd, WithinTorn DEF Reads
  <1>4. Reads(R, w, g, FALSE)
    BY <1>1, <1>3 DEF Reads
  <1> QED BY <1>1, <1>4 DEF Spells

\* The first of the lines is read.
LEMMA NextLine ==
  ASSUME NEW s \in States, NEW w \in Seq(AllLines), w # << >>, NEW g \in Seq(Frames),
         NEW whole \in BOOLEAN, Spells(s, w, g, whole)
  PROVE  Spells(ReadLine(s, Head(w)), Tail(w), g, whole)
  <1>1. PICK R \in [0..Len(w) -> States] : Passes(R, s, w) /\ Reads(R, w, g, whole)
    BY DEF Spells
  <1>2. Len(w) \in Nat \ {0} /\ Len(Tail(w)) = Len(w) - 1
    OBVIOUS
  <1> DEFINE n == Len(Tail(w))
             Q == [i \in 0..n |-> R[i + 1]]
  <1>3. n \in Nat /\ \A i \in 0..n : i + 1 \in 0..Len(w)
    BY <1>2
  <1>4. Q \in [0..n -> States]
    BY <1>3
  <1>5. Passes(Q, ReadLine(s, Head(w)), Tail(w))
    <2>1. Q[0] = R[1] /\ R[1] = ReadLine(R[0], w[1]) /\ w[1] = Head(w) /\ R[0] = s
      BY <1>1, <1>2, <1>3 DEF Passes
    <2>2. ASSUME NEW i \in 1..n PROVE Q[i] = ReadLine(Q[i - 1], Tail(w)[i])
      <3>1. Tail(w)[i] = w[i + 1] /\ i + 1 \in 1..Len(w) /\ i - 1 \in 0..n /\ i \in 0..n
        BY <1>2
      <3>2. Q[i] = R[i + 1] /\ Q[i - 1] = R[(i - 1) + 1] /\ (i - 1) + 1 = i /\ (i + 1) - 1 = i
        BY <3>1
      <3>3. R[i + 1] = ReadLine(R[(i + 1) - 1], w[i + 1])
        BY <1>1, <3>1 DEF Passes
      <3> QED BY <3>1, <3>2, <3>3
    <2> QED BY <2>1, <2>2 DEF Passes
  <1>6. Reads(Q, Tail(w), g, whole)
    <2>1. Q[n] = R[Len(w)]
      BY <1>2, <1>3
    <2>2. ASSUME NEW i \in 1..n PROVE Within(Q[i - 1], g)
      <3>1. i + 1 \in 1..Len(w) /\ i - 1 \in 0..n /\ (i - 1) + 1 = i /\ (i + 1) - 1 = i
        BY <1>2
      <3>2. Q[i - 1] = R[i]
        BY <3>1
      <3>3. Within(R[(i + 1) - 1], g)
        BY <1>1, <3>1 DEF Reads
      <3> QED BY <3>1, <3>2, <3>3
    <2> QED BY <1>1, <2>1, <2>2 DEF Reads
  <1> QED BY <1>4, <1>5, <1>6 DEF Spells

\* Lines v come after lines w, when these are whole.
LEMMA MoreLines ==
  ASSUME NEW s \in States, NEW w \in Seq(AllLines), NEW v \in Seq(AllLines),
         NEW g \in Seq(Frames), NEW h \in Seq(Frames),
         h = g \/ \E f \in Frames : h = Append(g, f),
         Spells(s, w, g, TRUE), Spells(State(Nothing, g), v, h, TRUE)
  PROVE  Spells(s, w \o v, h, TRUE)
  <1>1. PICK R \in [0..Len(w) -> States] : Passes(R, s, w) /\ Reads(R, w, g, TRUE)
    BY DEF Spells
  <1>2. PICK Q \in [0..Len(v) -> States] : Passes(Q, State(Nothing, g), v) /\ Reads(Q, v, h, TRUE)
    BY DEF Spells
  <1>3. /\ Len(w) \in Nat /\ Len(v) \in Nat /\ Len(w \o v) = Len(w) + Len(v)
        /\ \A i \in 1..Len(w) : (w \o v)[i] = w[i]
        /\ \A i \in 1..Len(v) : (w \o v)[Len(w) + i] = v[i]
    OBVIOUS
  <1> DEFINE m == Len(w)
             n == Len(v)
             P == [i \in 0..(m + n) |-> IF i <= m THEN R[i] ELSE Q[i - m]]
  <1>4. P \in [0..(m + n) -> States]
    BY <1>3
  <1>5. /\ \A i \in 0..m : P[i] = R[i]
        /\ \A i \in 0..n : P[m + i] = Q[i]
    <2>1. R[m] = Q[0]
      BY <1>1, <1>2, <1>3 DEF Passes, Reads
    <2>2. \A i \in 0..m : P[i] = R[i]
      BY <1>3
    <2>3. ASSUME NEW i \in 0..n PROVE P[m + i] = Q[i]
      <3>1. m + i \in 0..(m + n) /\ (m + i) - m = i /\ (m + i <= m => i = 0)
        BY <1>3
      <3> QED BY <2>1, <3>1
    <2> QED BY <2>2, <2>3
  <1>6. m \in Nat /\ n \in Nat /\ Len(w \o v) = m + n
    BY <1>3
  <1> HIDE DEF P, m, n
  <1>7. ASSUME NEW i \in 1..(m + n)
        PROVE  P[i] = ReadLine(P[i - 1], (w \o v)[i]) /\ Within(P[i - 1], h)
    <2>1. CASE i <= m
      <3>1. i \in 1..m /\ i - 1 \in 0..m /\ i \in 0..m
        BY <1>6, <2>1
      <3>2. P[i] = R[i] /\ P[i - 1] = R[i - 1] /\ (w \o v)[i] = w[i]
        BY <1>3, <1>5, <3>1 DEF m
      <3>3. R[i] = ReadLine(R[i - 1], w[i]) /\ Within(R[i - 1], g) /\ R[i - 1] \in States
        BY <1>1, <3>1 DEF Passes, Reads, m
      <3>4. Within(R[i - 1], h)
        BY <3>3, WithinLonger
      <3> QED BY <3>2, <3>3, <3>4
    <2>2. CASE i > m
      <3> DEFINE j == i - m
      <3>1. j \in 1..n /\ j - 1 \in 0..n /\ j \in 0..n /\ m + j = i /\ m + (j - 1) = i - 1
        BY <1>6, <2>2
      <3> HIDE DEF j
      <3>2. P[i] = Q[j] /\ P[i - 1] = Q[j - 1] /\ (w \o v)[i] = v[j]
        <4>1. P[m + j] = Q[j] /\ P[m + (j - 1)] = Q[j - 1]
          BY <1>5, <3>1
        <4>2. (w \o v)[m + j] = v[j]
          BY <1>3, <3>1 DEF m, n
        <4> QED BY <4>1, <4>2, <3>1
      <3>3. Q[j] = ReadLine(Q[j - 1], v[j]) /\ Within(Q[j - 1], h)
        BY <1>2, <3>1 DEF Passes, Reads, n
      <3> QED BY <3>2, <3>3
    <2> QED BY <1>6, <2>1, <2>2
  <1>8. P[0] = s /\ P[m + n] = State(Nothing, h)
    <2>1. R[0] = s /\ Q[n] = State(Nothing, h)
      BY <1>1, <1>2 DEF Passes, Reads, n
    <2> QED BY <1>5, <1>6, <2>1
  <1> QED BY <1>4, <1>6, <1>7, <1>8 DEF Spells, Passes, Reads

\* One element at the end of a sequence.
LEMMA AppendAt ==
  ASSUME NEW S, NEW s \in Seq(S), NEW x \in S
  PROVE  /\ Len(s) \in Nat /\ Len(Append(s, x)) = Len(s) + 1
         /\ DOMAIN Append(s, x) = 1..Len(Append(s, x))
         /\ Append(s, x)[Len(s) + 1] = x
         /\ \A i \in 1..Len(s) : Append(s, x)[i] = s[i]
  OBVIOUS

\* A stream that breaks off leaves a piece of the frame whose line is cut.
LEMMA CutLines ==
  ASSUME NEW s \in States, NEW w \in Seq(Clear), NEW g \in Seq(Frames), Spells(s, w, g, TRUE),
         NEW k \in 1..Len(w), NEW rest \in Leftovers(w[k])
  PROVE  Spells(s, SubSeq(w, 1, k - 1) \o rest, g, FALSE)
  <1>1. PICK R \in [0..Len(w) -> States] : Passes(R, s, w) /\ Reads(R, w, g, TRUE)
    BY DEF Spells
  <1> DEFINE u == SubSeq(w, 1, k - 1)
  <1>2. k \in Nat /\ Len(w) \in Nat /\ k - 1 \in Nat /\ k - 1 \in 0..Len(w) /\ k \in 0..Len(w)
    OBVIOUS
  <1>3. u \in Seq(AllLines) /\ Len(u) = k - 1 /\ \A i \in 1..(k - 1) : u[i] = w[i]
    <2>1. w \in Seq(AllLines)
      BY DEF Clear
    <2> QED BY <1>2, <2>1
  <1>4. R[k - 1] \in States /\ Within(R[k - 1], g) /\ R[k] = ReadLine(R[k - 1], w[k])
        /\ \A i \in 1..(k - 1) : R[i] = ReadLine(R[i - 1], w[i]) /\ Within(R[i - 1], g)
        /\ R[0] = s
    BY <1>1, <1>2 DEF Passes, Reads
  <1> HIDE DEF u
  <1>5. CASE rest = << >>
    <2> DEFINE Q == [i \in 0..(k - 1) |-> R[i]]
    <2>1. Q \in [0..(k - 1) -> States] /\ \A i \in 0..(k - 1) : Q[i] = R[i]
      BY <1>2
    <2>2. u \o rest = u
      BY <1>3, <1>5
    <2>3. Torn(Q[k - 1], g)
      BY <1>2, <1>4, <2>1, WithinTorn
    <2> HIDE DEF Q
    <2>4. \A i \in 1..(k - 1) : Q[i] = ReadLine(Q[i - 1], u[i]) /\ Within(Q[i - 1], g)
      <3> TAKE i \in 1..(k - 1)
      <3>1. i - 1 \in 0..(k - 1) /\ i \in 0..(k - 1)
        BY <1>2
      <3> QED BY <1>3, <1>4, <2>1, <3>1
    <2>5. Q[0] = s
      <3>1. 0 \in 0..(k - 1)
        BY <1>2
      <3>2. R[0] = s
        BY <1>1 DEF Passes
      <3> QED BY <2>1, <3>1, <3>2
    <2> QED BY <1>3, <2>1, <2>2, <2>3, <2>4, <2>5 DEF Spells, Passes, Reads, u
  <1>6. ASSUME NEW line \in AllLines, rest = <<line>>, Torn(ReadLine(R[k - 1], line), g)
        PROVE  Spells(s, u \o rest, g, FALSE)
    <2> DEFINE Q == [i \in 0..k |-> IF i < k THEN R[i] ELSE ReadLine(R[k - 1], line)]
    <2>1. /\ Q \in [0..k -> States] /\ \A i \in 0..(k - 1) : Q[i] = R[i]
          /\ Q[k] = ReadLine(R[k - 1], line)
      <3>1. ReadLine(R[k - 1], line) \in States
        BY <1>4, <1>6, ReadLineType
      <3>2. \A i \in 0..k : i < k => R[i] \in States
        BY <1>2
      <3>3. \A i \in 0..(k - 1) : i \in 0..k /\ i < k
        BY <1>2
      <3>4. k \in 0..k /\ ~(k < k)
        BY <1>2
      <3> QED BY <3>1, <3>2, <3>3, <3>4
    <2>2. /\ Len(u \o rest) = k /\ (u \o rest)[k] = line
          /\ \A i \in 1..(k - 1) : (u \o rest)[i] = w[i]
      <3>1. <<line>> \in Seq(AllLines) /\ Len(<<line>>) = 1 /\ <<line>>[1] = line
        BY <1>6
      <3> QED BY <1>2, <1>3, <1>6, <3>1
    <2> HIDE DEF Q
    <2>3. ASSUME NEW i \in 1..k
          PROVE  Q[i] = ReadLine(Q[i - 1], (u \o rest)[i]) /\ Within(Q[i - 1], g)
      <3>1. i - 1 \in 0..(k - 1) /\ (i = k \/ i \in 1..(k - 1))
        BY <1>2
      <3>2. Q[i - 1] = R[i - 1]
        BY <2>1, <3>1
      <3>3. CASE i = k
        BY <1>4, <2>1, <2>2, <3>2, <3>3
      <3>4. CASE i \in 1..(k - 1)
        <4>1. i \in 0..(k - 1)
          BY <3>4, <1>2
        <4> QED BY <1>4, <2>1, <2>2, <3>2, <3>4, <4>1
      <3> QED BY <3>1, <3>3, <3>4
    <2>4. Q[0] = s
      <3>1. 0 \in 0..(k - 1)
        BY <1>2
      <3>2. R[0] = s
        BY <1>1 DEF Passes
      <3> QED BY <2>1, <3>1, <3>2
    <2> QED BY <1>2, <1>6, <2>1, <2>2, <2>3, <2>4 DEF Spells, Passes, Reads
  <1>7. Within(R[k], g) /\ R[k] \in States
    <2>1. CASE k = Len(w)
      BY <1>1, <2>1, AtTheEnd, <1>2 DEF Reads
    <2>2. CASE k # Len(w)
      <3>1. k + 1 \in 1..Len(w) /\ (k + 1) - 1 = k
        BY <1>2, <2>2
      <3> QED BY <1>1, <1>2, <3>1 DEF Reads
    <2> QED BY <2>1, <2>2
  <1>8. w[k] \in AllLines /\ w[k] # Line("event", "none")
    BY DEF Clear
  <1>9. CASE w[k].field = "event" /\ rest = <<Line("event", "part")>>
    <2>1. Line("event", "part") \in AllLines
      BY OwnTexts, LineQuiet
    <2>2. Torn(ReadLine(R[k - 1], Line("event", "part")), g)
      <3> DEFINE p == R[k - 1].frame
                 q == [p EXCEPT !.event = "part"]
                 r == [p EXCEPT !.event = w[k].text]
                 got == R[k - 1].got
      <3>1. p \in Frames /\ got \in Seq(Frames) /\ q \in Frames /\ r \in Frames
        BY <1>4, <1>8, OwnTexts DEF States, Frames, AllLines
      <3>2. ReadLine(R[k - 1], Line("event", "part")) = State(q, got) /\ R[k] = State(r, got)
        BY <1>4, <1>9 DEF ReadLine, Added, Line
      <3>3. r.event # "none" /\ r # Nothing
        <4>1. w[k].text # "none"
          BY <1>8, <1>9 DEF Line, AllLines
        <4>2. r.event = w[k].text
          BY <3>1 DEF Frames
        <4> QED BY <4>1, <4>2 DEF Nothing, Frame
      <3>4. Begins(got, g) /\ Len(got) < Len(g) /\ Begins(r.data, g[Len(got) + 1].data)
        <4>1. R[k].frame = r /\ R[k].got = got
          BY <3>1, <3>2, StateType
        <4> HIDE DEF p, q, r, got
        <4> QED BY <1>7, <3>3, <4>1 DEF Within
      <3>5. /\ q.data = r.data /\ q.event = "part"
            /\ DOMAIN q.data = 1..Len(q.data) /\ Len(q.data) \in Nat
        BY <3>1 DEF Frames
      <3> HIDE DEF p, q, r, got
      <3>6. PartOf(q, g[Len(got) + 1])
        BY <3>4, <3>5 DEF PartOf, Begins
      <3> QED BY <3>1, <3>2, <3>4, <3>6, StateType DEF Torn
    <2> QED BY <1>6, <1>9, <2>1, <2>2 DEF u
  <1>10. ASSUME w[k].field = "data", NEW t \in {"part", "empty"}, rest = <<Line("data", t)>>
         PROVE  Spells(s, SubSeq(w, 1, k - 1) \o rest, g, FALSE)
    <2>1. Line("data", t) \in AllLines
      BY OwnTexts, LineQuiet
    <2>2. Torn(ReadLine(R[k - 1], Line("data", t)), g)
      <3> DEFINE p == R[k - 1].frame
                 q == [p EXCEPT !.data = Append(p.data, t)]
                 r == [p EXCEPT !.data = Append(p.data, w[k].text)]
                 got == R[k - 1].got
      <3>1. p \in Frames /\ got \in Seq(Frames) /\ p.data \in Seq(Texts)
        BY <1>4 DEF States, Frames
      <3>2. Append(p.data, t) \in Seq(Texts) /\ Append(p.data, w[k].text) \in Seq(Texts)
        BY <3>1, <1>8, OwnTexts DEF AllLines
      <3>3. q \in Frames /\ r \in Frames
        BY <3>1, <3>2 DEF Frames
      <3>4. ReadLine(R[k - 1], Line("data", t)) = State(q, got) /\ R[k] = State(r, got)
        BY <1>4, <1>10 DEF ReadLine, Added, Line
      <3>5. q.data = Append(p.data, t) /\ r.data = Append(p.data, w[k].text)
            /\ q.event = p.event /\ r.event = p.event
        BY <3>1 DEF Frames
      <3>6. r # Nothing
        BY <3>1, <3>5 DEF Nothing, Frame
      <3> HIDE DEF q, r, got, p
      <3>7. /\ Begins(got, g) /\ Len(got) < Len(g)
            /\ r.event \in {"none", g[Len(got) + 1].event}
            /\ Begins(r.data, g[Len(got) + 1].data)
        BY <1>7, <3>1, <3>3, <3>4, <3>6, StateType DEF Within
      <3>8. /\ Len(q.data) = Len(p.data) + 1 /\ Len(r.data) = Len(p.data) + 1 /\ Len(p.data) \in Nat
            /\ DOMAIN q.data = 1..Len(q.data)
            /\ q.data[Len(p.data) + 1] = t
            /\ \A i \in 1..Len(p.data) : q.data[i] = r.data[i]
        BY <1>8, <3>1, <3>2, <3>5, OwnTexts, AppendAt DEF AllLines
      <3>9. PartOf(q, g[Len(got) + 1])
        <4> DEFINE f == g[Len(got) + 1]
                   n == Len(p.data)
        <4>1. /\ n \in Nat /\ Len(q.data) = n + 1 /\ Len(r.data) = n + 1
              /\ q.data[n + 1] = t /\ \A i \in 1..n : q.data[i] = r.data[i]
              /\ DOMAIN q.data = 1..(n + 1)
          BY <3>8
        <4>2. q.event \in {f.event, "part", "none"}
          BY <3>5, <3>7
        <4>3. n + 1 <= Len(f.data) /\ \A i \in 1..(n + 1) : r.data[i] = f.data[i]
          BY <3>7, <4>1 DEF Begins
        <4> HIDE DEF f, n
        <4>4. \A i \in 1..n : q.data[i] = f.data[i]
          BY <4>1, <4>3
        <4>5. \A i \in 1..(n + 1) : i = n + 1 \/ i \in 1..n
          BY <4>1
        <4>6. \A i \in 1..(n + 1) : q.data[i] \in {f.data[i], "part", "empty"}
          BY <1>10, <4>1, <4>4, <4>5
        <4>7. \A i \in 1..(n + 1) : i < n + 1 => q.data[i] = f.data[i]
          BY <4>1, <4>4, <4>5
        <4>8. Len(q.data) <= Len(f.data)
          BY <4>1, <4>3
        <4>9. PartOf(q, f)
          BY <4>1, <4>2, <4>6, <4>7, <4>8 DEF PartOf
        <4> QED BY <4>9 DEF f
      <3> QED BY <3>1, <3>3, <3>4, <3>7, <3>9, StateType DEF Torn
    <2> QED BY <1>6, <1>10, <2>1, <2>2 DEF u
  <1>11. \/ rest = << >>
         \/ w[k].field = "event" /\ rest = <<Line("event", "part")>>
         \/ w[k].field = "data" /\ \E t \in {"part", "empty"} : rest = <<Line("data", t)>>
    BY Zenon DEF Leftovers
  <1> QED BY <1>5, <1>9, <1>10, <1>11 DEF u

\* A sequence of one element at the end of another.
LEMMA OneMore ==
  ASSUME NEW S, NEW s \in Seq(S), NEW t \in Seq(S), Len(t) = 1
  PROVE  /\ Len(s \o t) = Len(s) + 1 /\ (s \o t)[Len(s) + 1] = t[1] /\ Len(s) \in Nat
         /\ \A i \in 1..Len(s) : (s \o t)[i] = s[i]
  <1>1. Len(s) \in Nat /\ Len(s \o t) = Len(s) + 1
    <2>1. Len(s) \in Nat
      OBVIOUS
    <2>2. Len(s \o t) = Len(s) + Len(t)
      BY ConcatProperties, Zenon
    <2> QED BY <2>1, <2>2
  <1>2. (s \o t)[Len(s) + 1] = t[1]
    BY <1>1, ConcatProperties
  <1>3. \A i \in 1..Len(s) : (s \o t)[i] = s[i]
    BY <1>1, ConcatProperties
  <1> QED BY <1>1, <1>2, <1>3

\* The lines of a frame spell it.
LEMMA FrameLines ==
  ASSUME NEW g \in Seq(Frames), NEW f \in Frames
  PROVE  Spells(State(Nothing, g), Lines(f), IF f = Nothing THEN g ELSE Append(g, f), TRUE)
  <1>1. /\ State(Nothing, g) \in States
        /\ State(Nothing, g).frame = Nothing /\ State(Nothing, g).got = g
    BY OwnFrames, StateType
  <1>2. Nothing.event = "none" /\ Nothing.data = << >>
    BY DEF Nothing, Frame
  <1>3. CASE f = Nothing
    <2> DEFINE beat == <<Line("comment", "empty")>>
               blank == <<Line("blank", "empty")>>
    <2>1. Lines(f) = beat \o blank
      <3>1. [i \in DOMAIN f.data |-> Line("data", f.data[i])] = << >>
        BY <1>2, <1>3
      <3>2. (beat \o << >>) \o << >> = beat
        OBVIOUS
      <3> QED BY <1>2, <1>3, <3>1, <3>2 DEF Lines
    <2> DEFINE R == [i \in 0..2 |-> State(Nothing, g)]
    <2>2. /\ Len(Lines(f)) = 2
          /\ Lines(f)[1] = Line("comment", "empty") /\ Lines(f)[2] = Line("blank", "empty")
      <3>1. beat \in Seq(AllLines) /\ blank \in Seq(AllLines)
        BY OwnTexts, LineQuiet
      <3>2. Len(beat) = 1 /\ Len(blank) = 1 /\ beat[1] = Line("comment", "empty")
            /\ blank[1] = Line("blank", "empty")
        OBVIOUS
      <3> HIDE DEF beat, blank
      <3> QED BY <2>1, <3>1, <3>2, OneMore
    <2>3. \A i \in 1..2 : ReadLine(State(Nothing, g), Lines(f)[i]) = State(Nothing, g)
      BY <1>1, <2>2 DEF ReadLine, Added, Line
    <2>4. R \in [0..2 -> States] /\ \A i \in 0..2 : R[i] = State(Nothing, g)
      BY <1>1
    <2> HIDE DEF R
    <2>5. \A i \in 1..2 : i - 1 \in 0..2 /\ i \in 0..2
      OBVIOUS
    <2>6. Passes(R, State(Nothing, g), Lines(f))
      BY <2>2, <2>3, <2>4, <2>5 DEF Passes
    <2>7. Reads(R, Lines(f), g, TRUE)
      BY <2>2, <2>4, <2>5, AtTheEnd DEF Reads
    <2> QED BY <1>3, <2>2, <2>4, <2>6, <2>7 DEF Spells
  <1>4. CASE f # Nothing
    <2> DEFINE d == Len(f.data)
               o == IF f.event # "none" THEN 1 ELSE 0
               h == Append(g, f)
               Part(i) == [event |-> f.event, data |-> SubSeq(f.data, 1, i)]
               w == Lines(f)
    <2>1. f.event \in Texts /\ f.data \in Seq(Texts) /\ d \in Nat /\ DOMAIN f.data = 1..d
          /\ f = [event |-> f.event, data |-> f.data]
      BY DEF Frames
    <2>2. /\ Len(w) = o + d + 1
          /\ o = 1 => w[1] = Line("event", f.event)
          /\ \A i \in 1..d : w[o + i] = Line("data", f.data[i])
          /\ w[o + d + 1] = Line("blank", "empty")
      <3> DEFINE data == [i \in DOMAIN f.data |-> Line("data", f.data[i])]
                 blank == <<Line("blank", "empty")>>
      <3>1. /\ data \in Seq(AllLines) /\ Len(data) = d
            /\ \A i \in 1..d : data[i] = Line("data", f.data[i])
        <4>1. \A i \in 1..d : Line("data", f.data[i]) \in AllLines
          BY <2>1, LineQuiet
        <4> QED BY <2>1, <4>1
      <3>2. blank \in Seq(AllLines) /\ Len(blank) = 1 /\ blank[1] = Line("blank", "empty")
        BY OwnTexts, LineQuiet
      <3>3. CASE f.event # "none"
        <4>1. w = ((<< >> \o <<Line("event", f.event)>>) \o data) \o blank
          BY <1>4, <3>3 DEF Lines
        <4>2. << >> \o <<Line("event", f.event)>> = <<Line("event", f.event)>>
          OBVIOUS
        <4>3. <<Line("event", f.event)>> \in Seq(AllLines)
          BY <2>1, LineQuiet
        <4> HIDE DEF data, blank, w
        <4> DEFINE u == <<Line("event", f.event)>> \o data
        <4>4. /\ u \in Seq(AllLines) /\ Len(u) = d + 1 /\ u[1] = Line("event", f.event)
              /\ \A i \in 1..d : u[1 + i] = data[i]
          BY <3>1, <4>3, <2>1
        <4>5. w = u \o blank
          BY <4>1, <4>2
        <4> HIDE DEF u
        <4>6. /\ Len(w) = d + 2 /\ w[d + 2] = blank[1] /\ \A i \in 1..(d + 1) : w[i] = u[i]
          <5>1. d + 1 + 1 = d + 2
            BY <2>1
          <5>2. /\ Len(w) = Len(u) + 1 /\ w[Len(u) + 1] = blank[1]
                /\ \A i \in 1..Len(u) : w[i] = u[i]
            BY <3>2, <4>4, <4>5, OneMore, Zenon
          <5>3. Len(u) = d + 1
            BY <4>4
          <5> HIDE DEF d
          <5> QED BY <5>1, <5>2, <5>3
        <4>7. o = 1
          BY <3>3
        <4> HIDE DEF o, d
        <4>8. \A i \in 1..d : o + i \in 1..(d + 1) /\ o + i = 1 + i
          BY <2>1, <4>7
        <4>9. 1 \in 1..(d + 1) /\ o + d + 1 = d + 2
          BY <2>1, <4>7
        <4> QED BY <3>1, <3>2, <4>4, <4>6, <4>7, <4>8, <4>9
      <3>4. CASE f.event = "none"
        <4>1. w = ((<< >> \o << >>) \o data) \o blank
          BY <1>4, <3>4 DEF Lines
        <4> HIDE DEF data, blank, w
        <4>2. w = data \o blank
          BY <4>1, <3>1
        <4>3. Len(w) = d + 1 /\ w[d + 1] = blank[1] /\ \A i \in 1..d : w[i] = data[i]
          BY <3>1, <3>2, <4>2, OneMore
        <4>4. o = 0
          BY <3>4
        <4> QED BY <3>1, <3>2, <4>3, <4>4, <2>1
      <3> QED BY <3>3, <3>4
    <2>3. o \in 0..1 /\ (o = 0 => f.event = "none")
      OBVIOUS
    <2>4. /\ \A i \in 0..d : Part(i) \in Frames /\ Part(i).event = f.event
          /\ \A i \in 0..d : Begins(Part(i).data, f.data)
          /\ Part(d) = f
          /\ o = 0 => Part(0) = Nothing
          /\ \A i \in 1..d : Part(i).data = Append(Part(i - 1).data, f.data[i])
      <3>1. \A i \in 0..d : SubSeq(f.data, 1, i) \in Seq(Texts) /\ Len(SubSeq(f.data, 1, i)) = i
                            /\ \A j \in 1..i : SubSeq(f.data, 1, i)[j] = f.data[j]
        BY <2>1
      <3>2. SubSeq(f.data, 1, d) = f.data
        BY <2>1
      <3>3. SubSeq(f.data, 1, 0) = << >>
        BY <2>1
      <3>4. ASSUME NEW i \in 1..d
            PROVE  SubSeq(f.data, 1, i) = Append(SubSeq(f.data, 1, i - 1), f.data[i])
        BY <2>1
      <3>5. \A i \in 0..d : Part(i) \in Frames
        BY <2>1, <3>1 DEF Frames
      <3>6. \A i \in 0..d : Begins(SubSeq(f.data, 1, i), f.data)
        BY <2>1, <3>1 DEF Begins
      <3> QED BY <2>1, <2>3, <3>2, <3>3, <3>4, <3>5, <3>6 DEF Nothing, Frame
    <2>5. /\ h \in Seq(Frames) /\ Len(h) = Len(g) + 1 /\ h[Len(g) + 1] = f /\ Begins(g, h)
          /\ Len(g) \in Nat
      <3>1. h \in Seq(Frames) /\ Len(h) = Len(g) + 1 /\ h[Len(g) + 1] = f /\ Len(g) \in Nat
        OBVIOUS
      <3>2. \A i \in 1..Len(g) : h[i] = g[i]
        OBVIOUS
      <3> QED BY <3>1, <3>2 DEF Begins
    <2> HIDE DEF w, h
    <2> DEFINE R == [i \in 0..(o + d + 1) |->
                       IF i < o THEN State(Nothing, g)
                       ELSE IF i <= o + d THEN State(Part(i - o), g)
                       ELSE State(Nothing, h)]
    <2>6. \A i \in 0..d : o + i \in 0..(o + d + 1) /\ R[o + i] = State(Part(i), g)
      <3> TAKE i \in 0..d
      <3>1. o + i \in 0..(o + d + 1) /\ ~(o + i < o) /\ o + i <= o + d /\ (o + i) - o = i
        BY <2>1, <2>3
      <3> HIDE DEF o
      <3> QED BY <3>1
    <2>7. R[0] = State(Nothing, g) /\ R[o + d + 1] = State(Nothing, h)
      <3>1. 0 \in 0..(o + d + 1) /\ o + d + 1 \in 0..(o + d + 1) /\ ~(o + d + 1 <= o + d)
            /\ ~(o + d + 1 < o)
        BY <2>1, <2>3
      <3>2. o = 0 => R[0] = State(Part(0), g) /\ Part(0) = Nothing
        BY <2>4, <2>6, <2>1
      <3> HIDE DEF o
      <3>3. o = 1 => R[0] = State(Nothing, g)
        <4>1. o = 1 => 0 < o
          OBVIOUS
        <4> QED BY <3>1, <4>1
      <3> QED BY <2>3, <3>1, <3>2, <3>3
    <2>8. \A k \in 0..(o + d + 1) : \/ (k = 0 /\ o = 1)
                                    \/ k = o + d + 1
                                    \/ \E i \in 0..d : k = o + i
      <3> TAKE k \in 0..(o + d + 1)
      <3>1. k - o \in 0..d => k = o + (k - o)
        BY <2>3
      <3>2. (k = 0 /\ o = 1) \/ k = o + d + 1 \/ k - o \in 0..d
        BY <2>1, <2>3
      <3> QED BY <3>1, <3>2
    <2> HIDE DEF R, o, d, Part
    <2>9. \A i \in 0..d : State(Part(i), g) \in States /\ State(Part(i), g).frame = Part(i)
                          /\ State(Part(i), g).got = g
      BY <2>4, StateType
    <2>10. State(Nothing, h) \in States
      BY <2>5, OwnFrames, StateType
    <2>11. R \in [0..(o + d + 1) -> States]
      <3>1. \A k \in 0..(o + d + 1) : R[k] \in States
        BY <1>1, <2>6, <2>7, <2>8, <2>9, <2>10
      <3>2. R = [k \in 0..(o + d + 1) |-> R[k]]
        BY DEF R
      <3> QED BY <3>1, <3>2
    <2>12. \A i \in 0..d : Within(State(Part(i), g), h)
      BY <2>4, <2>5, <2>9 DEF Within
    <2>13. Within(State(Nothing, g), h)
      BY <1>1, <2>5 DEF Within
    <2>14. ASSUME NEW k \in 1..(o + d + 1)
           PROVE  R[k] = ReadLine(R[k - 1], w[k]) /\ Within(R[k - 1], h)
      <3>0. k - 1 \in 0..(o + d + 1) /\ k \in 0..(o + d + 1) /\ k # 0
        BY <2>1, <2>3
      <3>1. CASE k = 1 /\ o = 1
        <4>1. R[0] = State(Nothing, g) /\ R[1] = State(Part(0), g)
          BY <2>1, <2>6, <2>7, <3>1
        <4>2. w[1] = Line("event", f.event)
          BY <2>2, <3>1
        <4>3. [Nothing EXCEPT !.event = f.event] = Part(0)
          <5>1. SubSeq(f.data, 1, 0) = << >>
            BY <2>1
          <5> QED BY <5>1 DEF Nothing, Frame, Part
        <4>4. ReadLine(State(Nothing, g), Line("event", f.event)) = State(Part(0), g)
          BY <1>1, <4>3 DEF ReadLine, Added, Line
        <4> QED BY <2>13, <3>1, <4>1, <4>2, <4>4
      <3>2. CASE k = o + d + 1
        <4>1. R[k - 1] = State(Part(d), g)
          <5>1. d \in 0..d /\ k - 1 = o + d
            BY <2>1, <2>3, <3>2
          <5> QED BY <2>6, <5>1
        <4>2. w[k] = Line("blank", "empty")
          BY <2>2, <3>2
        <4>3. ReadLine(State(Part(d), g), Line("blank", "empty")) = State(Nothing, Append(g, f))
          BY <1>4, <2>1, <2>4, <2>9 DEF ReadLine, Line
        <4>4. Within(State(Part(d), g), h)
          BY <2>1, <2>12
        <4> QED BY <2>7, <3>2, <4>1, <4>2, <4>3, <4>4 DEF h
      <3>3. ASSUME NEW i \in 1..d, k = o + i
            PROVE  R[k] = ReadLine(R[k - 1], w[k]) /\ Within(R[k - 1], h)
        <4>1. i - 1 \in 0..d /\ i \in 0..d /\ k - 1 = o + (i - 1)
          BY <2>1, <2>3, <3>3
        <4>2. R[k] = State(Part(i), g) /\ R[k - 1] = State(Part(i - 1), g)
          BY <2>6, <3>3, <4>1
        <4>3. w[k] = Line("data", f.data[i])
          BY <2>2, <3>3
        <4>4. [Part(i - 1) EXCEPT !.data = Append(@, f.data[i])] = Part(i)
          <5>1. SubSeq(f.data, 1, i) = Append(SubSeq(f.data, 1, i - 1), f.data[i])
            BY <2>4 DEF Part
          <5> DEFINE x == SubSeq(f.data, 1, i - 1)
                     y == SubSeq(f.data, 1, i)
          <5>2. /\ Part(i - 1) = [event |-> f.event, data |-> x]
                /\ Part(i) = [event |-> f.event, data |-> y]
            BY DEF Part
          <5>3. y = Append(x, f.data[i])
            BY <5>1
          <5> HIDE DEF x, y
          <5>4. Part(i - 1).data = x
            BY <5>2
          <5>5. [[event |-> f.event, data |-> x] EXCEPT !.data = y]
                  = [event |-> f.event, data |-> y]
            OBVIOUS
          <5> QED BY <5>2, <5>3, <5>4, <5>5, Zenon
        <4>5. ReadLine(State(Part(i - 1), g), Line("data", f.data[i])) = State(Part(i), g)
          BY <2>9, <4>1, <4>4 DEF ReadLine, Added, Line
        <4> QED BY <2>12, <4>1, <4>2, <4>3, <4>5
      <3>4. \/ k = 1 /\ o = 1
            \/ k = o + d + 1
            \/ \E i \in 1..d : k = o + i
        <4>1. ASSUME NEW i \in 0..d, k = o + i, i = 0 PROVE k = 1 /\ o = 1
          BY <2>3, <3>0, <4>1
        <4>2. ASSUME NEW i \in 0..d, k = o + i, i # 0 PROVE i \in 1..d
          BY <2>1, <4>2
        <4> QED BY <2>8, <3>0, <4>1, <4>2
      <3> QED BY <3>1, <3>2, <3>3, <3>4
    <2>15. Passes(R, State(Nothing, g), w) /\ Reads(R, w, h, TRUE)
      BY <2>2, <2>7, <2>14 DEF Passes, Reads
    <2>16. Spells(State(Nothing, g), w, h, TRUE)
      BY <2>2, <2>11, <2>15 DEF Spells
    <2> QED BY <1>4, <2>16 DEF w, h
  <1> QED BY <1>3, <1>4

\* The gateway names an event or leaves the line out.
LEMMA FrameClear ==
  ASSUME NEW f \in Frames
  PROVE  Lines(f) \in Seq(Clear)
  <1> DEFINE data == [i \in DOMAIN f.data |-> Line("data", f.data[i])]
             name == IF f.event # "none" THEN <<Line("event", f.event)>> ELSE << >>
             beat == IF f = Nothing THEN <<Line("comment", "empty")>> ELSE << >>
             blank == <<Line("blank", "empty")>>
  <1>1. f.event \in Texts /\ f.data \in Seq(Texts)
    BY DEF Frames
  <1>2. /\ \A t \in Texts : Line("data", t) \in Clear /\ Line("blank", t) \in Clear
                            /\ Line("comment", t) \in Clear
        /\ f.event # "none" => Line("event", f.event) \in Clear
    BY <1>1, LineQuiet DEF Clear, Line
  <1>3. data \in Seq(Clear)
    <2>1. DOMAIN f.data = 1..Len(f.data) /\ Len(f.data) \in Nat
      BY <1>1
    <2>2. \A i \in 1..Len(f.data) : Line("data", f.data[i]) \in Clear
      BY <1>1, <1>2
    <2> QED BY <2>1, <2>2
  <1>4. beat \in Seq(Clear) /\ blank \in Seq(Clear)
    BY <1>2, OwnTexts, ShortSequences, Zenon
  <1>5. name \in Seq(Clear)
    BY <1>2, ShortSequences, Zenon
  <1>6. Lines(f) = beat \o name \o data \o blank
    BY Zenon DEF Lines
  <1> HIDE DEF data, name, beat, blank
  <1> QED BY <1>3, <1>4, <1>5, <1>6, FourParts

-----------------------------------------------------------------------------
(* The frames in order.                                                     *)

\* What is on the wire to a listener completes what it has got to what the gateway has
\* sent, or, on a stream that has broken off, to a part of it.
Heard(l) ==
  pc[l] = "reading" =>
    /\ wire[l] \in Seq(Clear)
    /\ Spells(State(parser[l], out[l]), wire[l], given[l], stream[l] # "broken")

InOrder(l) ==
  \A i \in DOMAIN out[l] :
    /\ i \in DOMAIN given[l]
    /\ \/ out[l][i] = given[l][i]
       \/ /\ i = Len(out[l]) /\ stream[l] # "open" /\ pc[l] # "reading"
          /\ PartOf(out[l][i], given[l][i])

Keeps(l) == pc[l] # "reading" => InOrder(l)
Hears == \A l \in Listeners : Heard(l) /\ Keeps(l)

\* A beginning has the elements of the whole.
LEMMA BeginsInOrder ==
  ASSUME NEW s \in Seq(Frames), NEW g \in Seq(Frames), Begins(s, g), NEW i \in DOMAIN s
  PROVE  i \in DOMAIN g /\ s[i] = g[i]
  <1>1. DOMAIN s = 1..Len(s) /\ DOMAIN g = 1..Len(g) /\ Len(s) \in Nat /\ Len(g) \in Nat
    OBVIOUS
  <1> QED BY <1>1 DEF Begins

\* What has been read is a beginning of what was sent.
LEMMA SpelledSoFar ==
  ASSUME NEW s \in States, NEW w \in Seq(AllLines), NEW g \in Seq(Frames),
         NEW whole \in BOOLEAN, Spells(s, w, g, whole)
  PROVE  Begins(s.got, g)
  <1>1. PICK R \in [0..Len(w) -> States] : Passes(R, s, w) /\ Reads(R, w, g, whole)
    BY DEF Spells
  <1>2. R[0] = s /\ Len(w) \in Nat
    BY <1>1 DEF Passes
  <1>3. CASE Len(w) = 0
    <2>1. Torn(s, g)
      BY <1>1, <1>2, <1>3, AtTheEnd, WithinTorn DEF Reads
    <2> QED BY <2>1 DEF Torn
  <1>4. CASE Len(w) # 0
    <2>1. Within(R[1 - 1], g)
      BY <1>1, <1>2, <1>4 DEF Reads
    <2> QED BY <1>2, <2>1 DEF Within
  <1> QED BY <1>3, <1>4

\* Nothing is left to read.
LEMMA NoLines ==
  ASSUME NEW s, NEW g, NEW whole \in BOOLEAN, Spells(s, << >>, g, whole)
  PROVE  IF whole THEN s = State(Nothing, g) ELSE Torn(s, g)
  <1>1. Len(<< >>) = 0
    OBVIOUS
  <1>2. PICK R \in [0..0 -> States] : Passes(R, s, << >>) /\ Reads(R, << >>, g, whole)
    BY <1>1 DEF Spells
  <1> QED BY <1>1, <1>2 DEF Passes, Reads

\* A listener that reads has got a beginning of what was sent.
LEMMA ReadingInOrder ==
  ASSUME TypeOK, NEW l \in Listeners, pc[l] = "reading", Heard(l)
  PROVE  InOrder(l)
  <1>1. parser[l] \in Frames /\ out[l] \in Seq(Frames) /\ given[l] \in Seq(Frames)
        /\ wire[l] \in Seq(AllLines)
    BY DEF TypeOK
  <1>2. State(parser[l], out[l]) \in States /\ State(parser[l], out[l]).got = out[l]
    BY <1>1, StateType
  <1>3. Spells(State(parser[l], out[l]), wire[l], given[l], stream[l] # "broken")
    BY DEF Heard
  <1>4. (stream[l] # "broken") \in BOOLEAN
    OBVIOUS
  <1>5. Begins(out[l], given[l])
    BY <1>1, <1>2, <1>3, <1>4, SpelledSoFar
  <1> QED BY <1>1, <1>5, BeginsInOrder DEF InOrder

\* A listener whose frames are the same, and who is not reading or whose wire is the
\* same too, hears what it heard.
LEMMA Undisturbed ==
  ASSUME NEW m \in Listeners, Heard(m), Keeps(m),
         out'[m] = out[m], given'[m] = given[m], stream'[m] = stream[m],
         \/ pc[m] # "reading" /\ pc'[m] # "reading"
         \/ pc'[m] = pc[m] /\ wire'[m] = wire[m] /\ parser'[m] = parser[m]
  PROVE  Heard(m)' /\ Keeps(m)'
  <1>1. (pc'[m] = "reading") <=> (pc[m] = "reading")
    OBVIOUS
  <1>2. Keeps(m)'
    BY <1>1 DEF Keeps, InOrder
  <1>3. Heard(m)'
    BY <1>1 DEF Heard
  <1> QED BY <1>2, <1>3

\* Nobody reads.
LEMMA HearsInit == Init => Hears
  <1> SUFFICES ASSUME Init, NEW l \in Listeners PROVE Heard(l) /\ Keeps(l)
    BY DEF Hears
  <1>1. pc[l] = "off" /\ out[l] = << >>
    BY DEF Init
  <1> QED BY <1>1 DEF Heard, Keeps, InOrder

\* The gateway sends a frame on the stream of m.
LEMMA SentOn ==
  ASSUME TypeOK, NEW m \in Listeners, Heard(m), stream[m] = "open", NEW f \in Frames,
         pc'[m] = pc[m], parser'[m] = parser[m], out'[m] = out[m], stream'[m] # "broken",
         given'[m] = IF f = Nothing THEN given[m] ELSE Append(given[m], f),
         wire'[m] = wire[m] \o Lines(f)
  PROVE  Heard(m)' /\ Keeps(m)'
  <1>1. pc[m] = "reading" /\ parser[m] \in Frames /\ out[m] \in Seq(Frames)
        /\ given[m] \in Seq(Frames) /\ wire[m] \in Seq(AllLines)
    BY DEF TypeOK
  <1>2. wire[m] \in Seq(Clear) /\ Spells(State(parser[m], out[m]), wire[m], given[m], TRUE)
    BY <1>1 DEF Heard
  <1> DEFINE h == IF f = Nothing THEN given[m] ELSE Append(given[m], f)
  <1>3. h \in Seq(Frames) /\ (h = given[m] \/ \E e \in Frames : h = Append(given[m], e))
    BY <1>1
  <1>4. Lines(f) \in Seq(Clear) /\ Lines(f) \in Seq(AllLines)
    BY FrameClear, LinesType
  <1>5. Spells(State(Nothing, given[m]), Lines(f), h, TRUE)
    BY <1>1, FrameLines
  <1>6. State(parser[m], out[m]) \in States
    BY <1>1, StateType
  <1> HIDE DEF h
  <1>7. Spells(State(parser[m], out[m]), wire[m] \o Lines(f), h, TRUE)
    BY <1>1, <1>2, <1>3, <1>4, <1>5, <1>6, MoreLines
  <1>8. wire[m] \o Lines(f) \in Seq(Clear)
    BY <1>2, <1>4
  <1>9. given'[m] = h
    BY DEF h
  <1>10. Heard(m)'
    BY <1>7, <1>8, <1>9 DEF Heard
  <1> QED BY <1>1, <1>10 DEF Keeps

\* The gateway sends a frame, or the stream breaks off.
LEMMA GatewayHears ==
  ASSUME TypeOK, Hears, NEW l \in Listeners, Break(l) \/ \E f \in Events : Push(l, f)
  PROVE  Hears'
  <1> SUFFICES ASSUME NEW m \in Listeners PROVE Heard(m)' /\ Keeps(m)'
    BY DEF Hears
  <1>1. Heard(m) /\ Keeps(m) /\ UNCHANGED <<pc, parser, out>>
    BY DEF Hears, Break, Push, client
  <1>2. CASE m # l
    <2>1. given'[m] = given[m] /\ stream'[m] = stream[m] /\ wire'[m] = wire[m]
      BY <1>2 DEF Break, Push, TypeOK
    <2> QED BY <1>1, <2>1, Undisturbed
  <1>3. ASSUME m = l, NEW f \in Events, Push(l, f) PROVE Heard(m)' /\ Keeps(m)'
    <2>1. f \in Frames /\ stream[m] = "open" /\ stream' = stream
      BY <1>3, EventStreamAssumption DEF Push, Open
    <2>2. given'[m] = (IF f = Nothing THEN given[m] ELSE Append(given[m], f))
          /\ wire'[m] = wire[m] \o Lines(f)
      BY <1>3 DEF Push, TypeOK
    <2> QED BY <1>1, <2>1, <2>2, SentOn
  <1>4. CASE m = l /\ Break(l)
    <2>1. pc[m] = "reading" /\ stream[m] # "broken" /\ stream'[m] = "broken" /\ given' = given
      BY <1>4 DEF Break, TypeOK
    <2>2. parser[m] \in Frames /\ out[m] \in Seq(Frames) /\ given[m] \in Seq(Frames)
          /\ wire[m] \in Seq(AllLines)
      BY DEF TypeOK
    <2>3. wire[m] \in Seq(Clear) /\ Spells(State(parser[m], out[m]), wire[m], given[m], TRUE)
      BY <1>1, <2>1 DEF Heard
    <2>4. State(parser[m], out[m]) \in States
      BY <2>2, StateType
    <2>5. CASE UNCHANGED wire
      <3>1. Spells(State(parser[m], out[m]), wire[m], given[m], FALSE)
        BY <2>2, <2>3, <2>4, WholeOrNot
      <3> QED BY <1>1, <2>1, <2>3, <2>5, <3>1 DEF Heard, Keeps
    <2>6. ASSUME NEW k \in DOMAIN wire[m], NEW rest \in Leftovers(wire[m][k]),
                 wire' = [wire EXCEPT ![m] = SubSeq(@, 1, k - 1) \o rest]
          PROVE  Heard(m)' /\ Keeps(m)'
      <3>1. k \in 1..Len(wire[m])
        BY <2>2
      <3>2. Spells(State(parser[m], out[m]), SubSeq(wire[m], 1, k - 1) \o rest, given[m], FALSE)
        BY <2>2, <2>3, <2>4, <3>1, CutLines
      <3>3. SubSeq(wire[m], 1, k - 1) \o rest \in Seq(Clear)
        <4>1. rest \in Seq(Clear)
          <5>1. \/ rest = << >>
                \/ rest = <<Line("event", "part")>>
                \/ rest = <<Line("data", "part")>>
                \/ rest = <<Line("data", "empty")>>
            BY Zenon DEF Leftovers
          <5>2. /\ Line("event", "part") \in Clear
                /\ Line("data", "part") \in Clear /\ Line("data", "empty") \in Clear
            BY LineQuiet, OwnTexts DEF Clear, Line
          <5> QED BY <5>1, <5>2, ShortSequences, Zenon
        <4>2. SubSeq(wire[m], 1, k - 1) \in Seq(Clear)
          <5>1. Len(wire[m]) \in Nat /\ k \in Nat /\ \A i \in 1..(k - 1) : wire[m][i] \in Clear
            BY <2>3, <3>1
          <5> QED BY <2>3, <3>1, <5>1
        <4> QED BY <4>1, <4>2
      <3>4. wire'[m] = SubSeq(wire[m], 1, k - 1) \o rest
        BY <2>6 DEF TypeOK
      <3>5. Heard(m)'
        BY <1>1, <2>1, <3>2, <3>3, <3>4 DEF Heard
      <3> QED BY <1>1, <2>1, <3>5 DEF Keeps
    <2> QED BY <1>4, <2>5, <2>6 DEF Break
  <1> QED BY <1>2, <1>3, <1>4

\* A listener gets a stream, and the gateway tells the one before.
LEMMA StreamHears ==
  ASSUME TypeOK, Hears, NEW l \in Listeners, StreamEvents(l)
  PROVE  Hears'
  <1> SUFFICES ASSUME NEW m \in Listeners PROVE Heard(m)' /\ Keeps(m)'
    BY DEF Hears
  <1>0. Heard(m) /\ Keeps(m)
    BY DEF Hears
  <1>1. CASE m = l
    <2>1. /\ pc'[m] = "reading" /\ parser'[m] = Nothing /\ out'[m] = << >>
          /\ given'[m] = <<Ready>> /\ wire'[m] = Lines(Ready) /\ stream'[m] # "broken"
      BY <1>1 DEF StreamEvents, TypeOK
    <2>2. << >> \in Seq(Frames) /\ Append(<< >>, Ready) = <<Ready>> /\ Ready # Nothing
      BY DEF Ready, Nothing, Frame
    <2>3. Spells(State(Nothing, << >>), Lines(Ready), <<Ready>>, TRUE)
      BY <2>2, OwnFrames, FrameLines
    <2>4. Lines(Ready) \in Seq(Clear)
      BY OwnFrames, FrameClear
    <2> QED BY <2>1, <2>3, <2>4 DEF Heard, Keeps
  <1>2. CASE m # l /\ m \in Open
    <2>1. /\ pc'[m] = pc[m] /\ parser'[m] = parser[m] /\ out'[m] = out[m]
          /\ given'[m] = Append(given[m], Superseded) /\ wire'[m] = wire[m] \o Lines(Superseded)
          /\ stream'[m] # "broken" /\ stream[m] = "open"
      BY <1>2 DEF StreamEvents, TypeOK, Open
    <2>2. Superseded # Nothing
      BY DEF Superseded, Nothing, Frame
    <2> QED BY <1>0, <2>1, <2>2, OwnFrames, SentOn
  <1>3. CASE m # l /\ m \notin Open
    <2>1. /\ pc'[m] = pc[m] /\ parser'[m] = parser[m] /\ out'[m] = out[m]
          /\ given'[m] = given[m] /\ wire'[m] = wire[m] /\ stream'[m] = stream[m]
      BY <1>3 DEF StreamEvents, TypeOK
    <2> QED BY <1>0, <2>1, Undisturbed
  <1> QED BY <1>1, <1>2, <1>3

\* A line is read.
LEMMA LineHears ==
  ASSUME TypeOK, Hears, NEW l \in Listeners, parseSSE(l)
  PROVE  Hears'
  <1> SUFFICES ASSUME NEW m \in Listeners PROVE Heard(m)' /\ Keeps(m)'
    BY DEF Hears
  <1>0. Heard(m) /\ Keeps(m)
    BY DEF Hears
  <1>1. CASE m # l
    <2>1. /\ pc'[m] = pc[m] /\ given'[m] = given[m] /\ wire'[m] = wire[m] /\ stream'[m] = stream[m]
      BY <1>1 DEF parseSSE, TypeOK
    <2>2. out'[m] = out[m] /\ parser'[m] = parser[m]
      BY <1>1 DEF parseSSE, flush, TypeOK
    <2> QED BY <1>0, <2>1, <2>2, Undisturbed
  <1>2. CASE m = l
    <2>1. /\ pc[m] = "reading" /\ wire[m] # << >> /\ wire'[m] = Tail(wire[m])
          /\ pc' = pc /\ given' = given /\ stream' = stream
      BY <1>2 DEF parseSSE, TypeOK
    <2>2. parser[m] \in Frames /\ out[m] \in Seq(Frames) /\ given[m] \in Seq(Frames)
          /\ wire[m] \in Seq(AllLines)
      BY DEF TypeOK
    <2>3. State(parser[m], out[m]) \in States /\ State(parser[m], out[m]).frame = parser[m]
          /\ State(parser[m], out[m]).got = out[m]
      BY <2>2, StateType
    <2>4. State(parser'[m], out'[m]) = ReadLine(State(parser[m], out[m]), Head(wire[m]))
      <3>1. CASE Head(wire[m]).field = "blank"
        <4>1. /\ parser'[m] = Nothing
              /\ out'[m] = IF parser[m] = Nothing THEN out[m] ELSE Append(out[m], parser[m])
          BY <1>2, <3>1 DEF parseSSE, flush, TypeOK
        <4> QED BY <2>3, <3>1, <4>1 DEF ReadLine
      <3>2. CASE Head(wire[m]).field # "blank"
        <4>1. parser'[m] = Added(parser[m], Head(wire[m])) /\ out'[m] = out[m]
          BY <1>2, <3>2 DEF parseSSE, TypeOK
        <4> QED BY <2>3, <3>2, <4>1 DEF ReadLine
      <3> QED BY <3>1, <3>2
    <2>5. wire[m] \in Seq(Clear)
          /\ Spells(State(parser[m], out[m]), wire[m], given[m], stream[m] # "broken")
      BY <1>0, <2>1 DEF Heard
    <2>6. (stream[m] # "broken") \in BOOLEAN
      OBVIOUS
    <2>7. Spells(State(parser'[m], out'[m]), Tail(wire[m]), given[m], stream[m] # "broken")
      BY <2>1, <2>2, <2>3, <2>4, <2>5, <2>6, NextLine
    <2>8. Tail(wire[m]) \in Seq(Clear)
      BY <2>1, <2>5
    <2>9. Heard(m)'
      BY <2>1, <2>7, <2>8 DEF Heard
    <2> QED BY <2>1, <2>9 DEF Keeps
  <1> QED BY <1>1, <1>2

\* The stream has ended: what there is of a frame is passed on.
LEMMA EndHears ==
  ASSUME TypeOK, Hears, NEW l \in Listeners, EndOfStream(l)
  PROVE  Hears'
  <1> SUFFICES ASSUME NEW m \in Listeners PROVE Heard(m)' /\ Keeps(m)'
    BY DEF Hears
  <1>0. Heard(m) /\ Keeps(m)
    BY DEF Hears
  <1>1. given' = given /\ wire' = wire /\ stream' = stream
    BY DEF EndOfStream, gateway
  <1>2. CASE m # l
    <2>1. pc'[m] = pc[m] /\ out'[m] = out[m] /\ parser'[m] = parser[m]
      BY <1>2 DEF EndOfStream, flush, Returned, TypeOK
    <2> QED BY <1>0, <1>1, <2>1, Undisturbed
  <1>3. CASE m = l
    <2>1. /\ pc[m] = "reading" /\ wire[m] = << >> /\ stream[m] # "open" /\ pc'[m] # "reading"
          /\ out'[m] = IF parser[m] = Nothing THEN out[m] ELSE Append(out[m], parser[m])
      BY <1>3 DEF EndOfStream, flush, Returned, TypeOK
    <2>2. parser[m] \in Frames /\ out[m] \in Seq(Frames) /\ given[m] \in Seq(Frames)
      BY DEF TypeOK
    <2> DEFINE s == State(parser[m], out[m])
    <2>3. s \in States /\ s.frame = parser[m] /\ s.got = out[m]
      BY <2>2, StateType
    <2>4. Spells(s, << >>, given[m], stream[m] # "broken") /\ (stream[m] # "broken") \in BOOLEAN
      BY <1>0, <2>1 DEF Heard
    <2> HIDE DEF s
    <2>5. Torn(s, given[m])
      <3>1. IF stream[m] # "broken" THEN s = State(Nothing, given[m]) ELSE Torn(s, given[m])
        BY <2>4, NoLines
      <3> QED BY <2>2, <2>3, <3>1, AtTheEnd, WithinTorn
    <2>6. Begins(out[m], given[m])
      BY <2>3, <2>5 DEF Torn
    <2>7. InOrder(m)'
      <3>1. CASE parser[m] = Nothing
        <4>1. out'[m] = out[m]
          BY <2>1, <3>1
        <4> QED BY <1>1, <2>2, <2>6, <4>1, BeginsInOrder DEF InOrder
      <3>2. CASE parser[m] # Nothing
        <4>1. /\ Len(out[m]) < Len(given[m])
              /\ PartOf(parser[m], given[m][Len(out[m]) + 1])
          BY <2>3, <2>5, <3>2 DEF Torn
        <4>2. out'[m] = Append(out[m], parser[m])
          BY <2>1, <3>2
        <4>3. /\ DOMAIN Append(out[m], parser[m]) = 1..(Len(out[m]) + 1) /\ Len(out[m]) \in Nat
              /\ Len(Append(out[m], parser[m])) = Len(out[m]) + 1
              /\ Append(out[m], parser[m])[Len(out[m]) + 1] = parser[m]
              /\ \A i \in 1..Len(out[m]) : Append(out[m], parser[m])[i] = out[m][i]
              /\ DOMAIN out[m] = 1..Len(out[m])
              /\ DOMAIN given[m] = 1..Len(given[m]) /\ Len(given[m]) \in Nat
          BY <2>2
        <4>4. ASSUME NEW i \in DOMAIN Append(out[m], parser[m])
              PROVE  /\ i \in DOMAIN given[m]
                     /\ \/ Append(out[m], parser[m])[i] = given[m][i]
                        \/ /\ i = Len(Append(out[m], parser[m]))
                           /\ PartOf(Append(out[m], parser[m])[i], given[m][i])
          <5>1. CASE i = Len(out[m]) + 1
            BY <4>1, <4>3, <5>1
          <5>2. CASE i \in 1..Len(out[m])
            BY <2>2, <2>6, <4>3, <5>2, BeginsInOrder
          <5> QED BY <4>3, <5>1, <5>2
        <4> QED BY <1>1, <2>1, <4>2, <4>4 DEF InOrder
      <3> QED BY <3>1, <3>2
    <2> QED BY <2>1, <2>7 DEF Heard, Keeps
  <1> QED BY <1>2, <1>3

\* All steps.
LEMMA HearsStep == TypeOK /\ Hears /\ [Next]_vars => Hears'
  <1> SUFFICES ASSUME TypeOK, Hears, [Next]_vars PROVE Hears'
    OBVIOUS
  <1>1. ASSUME UNCHANGED <<pc, parser, out, given, wire, stream>> PROVE Hears'
    BY <1>1, Undisturbed DEF Hears
  <1>2. CASE UNCHANGED vars \/ Expires
    BY <1>1, <1>2 DEF vars, client, gateway, Expires
  <1>3. ASSUME NEW l \in Listeners, Start(l) \/ Refused(l) \/ Again(l) PROVE Hears'
    <2> SUFFICES ASSUME NEW m \in Listeners PROVE Heard(m)' /\ Keeps(m)'
      BY DEF Hears
    <2>1. UNCHANGED <<out, parser, given, wire, stream>>
      BY <1>3 DEF Start, Refused, Again, gateway
    <2>2. m = l => pc[m] # "reading" /\ pc'[m] # "reading"
      BY <1>3 DEF Start, Refused, Again, Returned, TypeOK
    <2>3. m # l => pc'[m] = pc[m]
      BY <1>3 DEF Start, Refused, Again, Returned, TypeOK
    <2> QED BY <2>1, <2>2, <2>3, Undisturbed DEF Hears
  <1>4. ASSUME NEW l \in Listeners, Killed(l) PROVE Hears'
    <2> SUFFICES ASSUME NEW m \in Listeners PROVE Heard(m)' /\ Keeps(m)'
      BY DEF Hears
    <2>1. CASE m = l
      <3>1. pc'[m] = "ended" /\ out'[m] = << >>
        BY <1>4, <2>1 DEF Killed, TypeOK
      <3> QED BY <3>1 DEF Heard, Keeps, InOrder
    <2>2. CASE m # l
      <3>1. /\ pc'[m] = pc[m] /\ out'[m] = out[m] /\ parser'[m] = parser[m]
            /\ given'[m] = given[m] /\ wire'[m] = wire[m] /\ stream'[m] = stream[m]
        BY <1>4, <2>2 DEF Killed, TypeOK
      <3> QED BY <3>1, Undisturbed DEF Hears
    <2> QED BY <2>1, <2>2
  <1> QED BY <1>2, <1>3, <1>4, GatewayHears, StreamHears, LineHears, EndHears DEF Next, Listen

\* What is heard, and what listeners keep that do not read, is in order.
LEMMA HeardInOrder == TypeOK /\ Hears => FramesInOrder
  <1> SUFFICES ASSUME TypeOK, Hears, NEW l \in Listeners PROVE InOrder(l)
    BY DEF FramesInOrder, InOrder
  <1> QED BY ReadingInOrder DEF Hears, Keeps

\* However often streams are taken over, broken off in the middle of a line and asked for
\* again: the callback gets the frames that the gateway sent on a stream, whole and in
\* order, but for a part of the last one when the stream has broken off.
THEOREM FramesAsSent == Spec => []FramesInOrder
  <1>1. TypeOK /\ Hears /\ [Next]_vars => Hears'
    BY HearsStep
  <1> QED BY <1>1, HearsInit, HeardInOrder, TypeCorrect, PTL DEF Spec
=============================================================================
