--------------------------- MODULE DocUpdateProofs ---------------------------
(***************************************************************************)
(* Proofs about DocUpdate, for every document, file, batch size and number  *)
(* of edits, whatever requests fail or are answered and whatever a         *)
(* colleague does meanwhile.                                               *)
(***************************************************************************)
EXTENDS DocUpdate, DataInduction, SequenceTheorems, FiniteSetTheorems, TLAPS

-----------------------------------------------------------------------------
(* Lists.                                                                  *)

\* Keep sifts a list.
LEMMA KeepSifts == \A s, K : Keep(s, K) = Sift(s, K)
BY DEF Keep, Sift

\* Keep keeps what it is told to, and nothing twice if s does not.
LEMMA Kept ==
  ASSUME NEW A, NEW s \in Seq(A), NEW K
  PROVE  /\ Keep(s, K) \in Seq(A)
         /\ ToSet(Keep(s, K)) = ToSet(s) \cap K
         /\ IsInjective(s) => IsInjective(Keep(s, K))
BY Sifted, KeepSifts

-----------------------------------------------------------------------------
(* The parser: a list of lines gives a list of entries.                    *)

Strings == Texts \cup {""}
EntryTypes == LineKinds \cup {"text", "code", "quoteContainer"}

\* Lines, entries and parsers whose ids are in B, which has NoBid in it.
LinesOn(B) ==
  [kind : LineKinds, text : Strings, style : Styles, indent : Nat, bid : B]
EntriesOn(B) ==
  [bid : B, type : EntryTypes, text : Strings, style : Styles, level : Nat]
ParsersOn(B) ==
  [out : Seq(EntriesOn(B)), bid : B, at : Contexts, indents : Seq(Nat), err : BOOLEAN]
EntrySet == EntriesOn(Nat)

\* The paragraph that a number without a text becomes.
Number == Line("para", Numeral)
LEMMA NumberType == ASSUME NEW B, NoBid \in B PROVE Number \in LinesOn(B)
BY TextAssumption DEF Number, Line, LinesOn, Strings, LineKinds

\* An entry made of a line.
LEMMA EntryType ==
  ASSUME NEW B, NEW ln \in LinesOn(B), NEW b \in B, NEW t \in EntryTypes, NEW n \in Nat
  PROVE  /\ Entry(b, ln, t) \in EntriesOn(B)
         /\ [Entry(b, ln, t) EXCEPT !.level = n] \in EntriesOn(B)
BY DEF Entry, EntriesOn, LinesOn, Strings

\* A parser with one more entry, wherever it is then.
LEMMA AddType ==
  ASSUME NEW B, NoBid \in B, NEW ps \in ParsersOn(B), NEW e \in EntriesOn(B)
  PROVE  /\ Add(ps, e) \in ParsersOn(B)
         /\ \A a \in Contexts : [Add(ps, e) EXCEPT !.at = a] \in ParsersOn(B)
<1>1. Append(ps.out, e) \in Seq(EntriesOn(B)) /\ ps \in ParsersOn(B)
  BY DEF ParsersOn
<1>2. "top" \in Contexts /\ NoBid \in B
  BY DEF Contexts, NoBid
<1>3. Add(ps, e) \in ParsersOn(B)
  BY <1>1, <1>2 DEF Add, ParsersOn
<1> QED BY <1>3 DEF ParsersOn

\* A list item, with the stack of the open ones.
LEMMA AddItemType ==
  ASSUME NEW B, NoBid \in B, NEW ps \in ParsersOn(B), NEW ln \in LinesOn(B)
  PROVE  AddItem(ps, ln) \in ParsersOn(B)
<1> DEFINE listed == ps.at \in {"list", "gap"}
           less == {k \in DOMAIN ps.indents : ps.indents[k] < ln.indent}
           open == IF listed /\ less # {} THEN SubSeq(ps.indents, 1, Max(less)) ELSE << >>
           b == IF listed THEN NoBid ELSE ps.bid
           item == Entry(b, ln, ln.kind)
<1>1. ps.indents \in Seq(Nat) /\ ln.indent \in Nat /\ ln.kind \in EntryTypes /\ b \in B
  BY DEF ParsersOn, LinesOn, EntryTypes, NoBid
<1>2. open \in Seq(Nat)
  <2> SUFFICES ASSUME less # {} PROVE SubSeq(ps.indents, 1, Max(less)) \in Seq(Nat)
    OBVIOUS
  <2>1. less \subseteq 1..Len(ps.indents) /\ Len(ps.indents) \in Nat
    BY <1>1
  <2>2. Max(less) \in 1..Len(ps.indents)
    BY <2>1, MaxOf
  <2> HIDE DEF less
  <2>3. \A i \in 1..Max(less) : ps.indents[i] \in Nat
    BY <1>1, <2>2
  <2> QED BY <1>1, <2>2, <2>3, SubSeqProperties
<1> HIDE DEF open
<1>3. Len(open) \in Nat /\ Append(open, ln.indent) \in Seq(Nat)
  BY <1>1, <1>2
<1> HIDE DEF b
<1>4. [item EXCEPT !.level = Len(open)] \in EntriesOn(B)
  BY <1>1, <1>3, EntryType
<1> DEFINE next == Add(ps, [item EXCEPT !.level = Len(open)])
<1>5. next \in ParsersOn(B)
  BY <1>4, AddType
<1>6. AddItem(ps, ln) = [next EXCEPT !.at = "list", !.indents = Append(open, ln.indent)]
  BY DEF AddItem, open, b
<1> HIDE DEF next
<1> QED BY <1>3, <1>5, <1>6 DEF ParsersOn, Contexts

\* A line of a quote.
LEMMA AddQuoteType ==
  ASSUME NEW B, NoBid \in B, NEW ps \in ParsersOn(B), NEW ln \in LinesOn(B)
  PROVE  AddQuote(ps, ln) \in ParsersOn(B)
<1> DEFINE child == [Entry(NoBid, ln, "text") EXCEPT !.level = 1]
           opened == IF ps.at = "quote" THEN ps
                     ELSE Add(ps, Entry(ps.bid, Line("quote", ""), "quoteContainer"))
<1>1. child \in EntriesOn(B)
  BY EntryType DEF NoBid, EntryTypes
<1>2. Line("quote", "") \in LinesOn(B)
  BY TextAssumption DEF Line, LinesOn, LineKinds, Strings
<1>3. ps.bid \in B /\ "quoteContainer" \in EntryTypes
  BY DEF ParsersOn, EntryTypes
<1>4. Entry(ps.bid, Line("quote", ""), "quoteContainer") \in EntriesOn(B)
  BY <1>2, <1>3, EntryType
<1>5. opened \in ParsersOn(B)
  BY <1>4, AddType
<1>6. AddQuote(ps, ln) = [opened EXCEPT !.out = Append(@, child), !.at = "quote"]
  BY DEF AddQuote
<1> HIDE DEF opened, child
<1>7. Append(opened.out, child) \in Seq(EntriesOn(B))
  BY <1>1, <1>5 DEF ParsersOn
<1> QED BY <1>5, <1>6, <1>7 DEF ParsersOn, Contexts

\* The content of a code block, and its end.
LEMMA CodeTypes ==
  ASSUME NEW B, NoBid \in B, NEW ps \in ParsersOn(B), NEW ln \in LinesOn(B)
  PROVE  AddContent(ps, ln) \in ParsersOn(B) /\ CloseCode(ps) \in ParsersOn(B)
<1> DEFINE o == ps.out
           n == Len(o)
<1>1. o \in Seq(EntriesOn(B)) /\ n \in Nat /\ DOMAIN o = 1..n /\ ln.text \in Strings
  <2>1. o \in Seq(EntriesOn(B))
    BY DEF ParsersOn
  <2>2. ln.text \in Strings
    BY DEF LinesOn, Strings
  <2> HIDE DEF o
  <2> QED BY <2>1, <2>2
<1>2. [o EXCEPT ![n].text = ln.text] \in Seq(EntriesOn(B))
  <2>1. CASE n = 0
    <3> DEFINE r == [o EXCEPT ![n].text = ln.text]
    <3>1. o = << >>
      BY <1>1, <2>1
    <3>2. DOMAIN r = DOMAIN o
      OBVIOUS
    <3>3. r = [i \in DOMAIN r |-> r[i]]
      OBVIOUS
    <3> HIDE DEF r, o
    <3>4. DOMAIN r = {}
      BY <3>1, <3>2
    <3>5. r = << >>
      BY <3>3, <3>4
    <3>6. << >> \in Seq(EntriesOn(B))
      OBVIOUS
    <3> QED BY <3>5, <3>6, Zenon DEF r
  <2>2. CASE n # 0
    <3>1. n \in 1..n /\ o[n] \in EntriesOn(B)
      BY <1>1, <2>2
    <3>2. [o[n] EXCEPT !.text = ln.text] \in EntriesOn(B)
      BY <1>1, <3>1 DEF EntriesOn
    <3> DEFINE e == [o[n] EXCEPT !.text = ln.text]
    <3>3. [o EXCEPT ![n].text = ln.text] = [o EXCEPT ![n] = e]
      OBVIOUS
    <3> HIDE DEF e, o, n
    <3>4. [o EXCEPT ![n] = e] \in Seq(EntriesOn(B))
      BY <1>1, <3>1, <3>2 DEF e
    <3> QED BY <3>3, <3>4
  <2> QED BY <2>1, <2>2
<1>3. Front(o) \in Seq(EntriesOn(B))
  <2>1. CASE n = 0
    <3>1. o = << >>
      BY <1>1, <2>1
    <3> QED BY <2>1, <3>1 DEF Front
  <2>2. CASE n # 0
    <3>1. n - 1 \in Nat /\ \A i \in 1..(n - 1) : o[i] \in EntriesOn(B)
      BY <1>1, <2>2
    <3> HIDE DEF o, n
    <3>2. SubSeq(o, 1, n - 1) \in Seq(EntriesOn(B))
      BY <1>1, <3>1, SubSeqProperties DEF n
    <3> QED BY <3>2 DEF Front, n
  <2> QED BY <2>1, <2>2
<1>4. AddContent(ps, ln) = [ps EXCEPT !.out = [o EXCEPT ![n].text = ln.text]]
  BY DEF AddContent, ParsersOn
<1>5. \E r \in {o, Front(o)} : CloseCode(ps) = [ps EXCEPT !.at = "top", !.out = r]
  BY DEF CloseCode, ParsersOn
<1> HIDE DEF o, n
<1>6. AddContent(ps, ln) \in ParsersOn(B)
  BY <1>2, <1>4 DEF ParsersOn
<1>7. CloseCode(ps) \in ParsersOn(B)
  <2>1. o \in Seq(EntriesOn(B)) /\ "top" \in Contexts
    BY <1>1 DEF o, ParsersOn, Contexts
  <2>2. \A r \in Seq(EntriesOn(B)) : [ps EXCEPT !.at = "top", !.out = r] \in ParsersOn(B)
    BY <2>1 DEF ParsersOn
  <2> QED BY <1>3, <1>5, <2>1, <2>2
<1> QED BY <1>6, <1>7

\* One line, wherever the parser is.
LEMMA ParseLineType ==
  ASSUME NEW B, NoBid \in B, NEW ps \in ParsersOn(B), NEW ln \in LinesOn(B)
  PROVE  ParseLine(ps, ln) \in ParsersOn(B)
<1>1. /\ ps.bid \in B /\ ps.err \in BOOLEAN /\ ln.bid \in B /\ ln.kind \in EntryTypes
      /\ {"text", "code", "callout"} \subseteq EntryTypes
  BY DEF ParsersOn, LinesOn, EntryTypes, LineKinds
<1>2. \A t \in EntryTypes, a \in Contexts :
        LET e == Entry(ps.bid, ln, t) IN
        Add(ps, e) \in ParsersOn(B) /\ [Add(ps, e) EXCEPT !.at = a] \in ParsersOn(B)
  BY <1>1, EntryType, AddType
<1>3. \A a \in Contexts : [ps EXCEPT !.at = a] \in ParsersOn(B)
  BY DEF ParsersOn
<1>4. TopLine(ps, ln) \in ParsersOn(B)
  <2>1. CASE ln.kind \in {"marker", "blank"} \/ (ln.kind = "heading" /\ ln.text = "")
    <3>1. \/ TopLine(ps, ln) = [ps EXCEPT !.bid = ln.bid, !.at = "top"]
          \/ TopLine(ps, ln) = [ps EXCEPT !.bid = NoBid, !.at = "top"]
          \/ \E a \in {"gap", "top"} : TopLine(ps, ln) = [ps EXCEPT !.at = a]
      <4>1. CASE ln.kind = "marker"
        BY <4>1 DEF TopLine, PreserveOnly, ListTypes
      <4>2. CASE ln.kind = "blank"
        <5>1. TopLine(ps, ln) = [ps EXCEPT !.at = IF ps.at = "list" THEN "gap" ELSE "top"]
          BY <4>2 DEF TopLine, ParsersOn, PreserveOnly, ListTypes
        <5> QED BY <5>1
      <4>3. CASE ln.kind = "heading" /\ ln.text = ""
        BY <4>3 DEF TopLine, PreserveOnly, ListTypes
      <4> QED BY <2>1, <4>1, <4>2, <4>3
    <3>2. \A n \in B : [ps EXCEPT !.bid = n, !.at = "top"] \in ParsersOn(B)
      BY DEF ParsersOn, Contexts
    <3>3. ln.bid \in B /\ NoBid \in B /\ {"gap", "top"} \subseteq Contexts
      BY <1>1 DEF NoBid, Contexts
    <3> QED BY <1>3, <3>1, <3>2, <3>3
  <2>2. CASE ln.kind \in {"math", "fence"}
    <3>1. \E a \in {"math", "code"} :
            TopLine(ps, ln) = [Add(ps, Entry(ps.bid, ln, "code")) EXCEPT !.at = a]
      BY <2>2 DEF TopLine, PreserveOnly, ListTypes
    <3>2. {"math", "code"} \subseteq Contexts /\ "code" \in EntryTypes
      BY <1>1 DEF Contexts
    <3> QED BY <1>2, <3>1, <3>2
  <2>3. CASE ln.kind \in PreserveOnly
    <3> DEFINE next == Add(ps, Entry(ps.bid, ln, ln.kind))
    <3>1. next \in ParsersOn(B)
      BY <1>1, <1>2 DEF Contexts
    <3>2. ln.kind \notin {"marker", "blank", "math", "fence"}
      BY <2>3 DEF PreserveOnly
    <3>3. TopLine(ps, ln) = [next EXCEPT !.err = @ \/ ps.bid = NoBid]
      BY <2>3, <3>2 DEF TopLine, PreserveOnly, ListTypes
    <3> HIDE DEF next
    <3>4. TopLine(ps, ln) = [next EXCEPT !.err = (next.err \/ ps.bid = NoBid)]
      BY <3>1, <3>3 DEF ParsersOn
    <3> QED BY <3>1, <3>4 DEF ParsersOn
  <2>4. CASE ln.kind \in ListTypes
    <3>1. TopLine(ps, ln) = AddItem(ps, ln) \/ TopLine(ps, ln) = Add(ps, Entry(ps.bid, Number, "text"))
      BY <2>4 DEF TopLine, ListTypes, PreserveOnly, Number
    <3> QED BY <1>1, <3>1, AddItemType, NumberType, EntryType, AddType
  <2>5. CASE ln.kind = "quote"
    BY <2>5, AddQuoteType DEF TopLine, ListTypes, PreserveOnly
  <2>6. CASE ln.kind = "callout"
    BY <1>1, <1>2, <2>6 DEF TopLine, AddCallout, ListTypes, PreserveOnly, Contexts
  <2>7. CASE ln.kind \notin {"marker", "blank", "math", "fence", "quote", "callout"}
                           \cup PreserveOnly \cup ListTypes
             /\ ~(ln.kind = "heading" /\ ln.text = "")
    <3>1. \E t \in {"text", ln.kind} : TopLine(ps, ln) = Add(ps, Entry(ps.bid, ln, t))
      BY <2>7 DEF TopLine, ListTypes
    <3> QED BY <1>1, <1>2, <3>1 DEF Contexts
  <2> QED BY <2>1, <2>2, <2>3, <2>4, <2>5, <2>6, <2>7
<1> QED BY <1>3, <1>4, CodeTypes DEF ParseLine, Contexts

\* The equation of the fold by which Parse goes through the lines.
Steps(g, ls) ==
  [s \in SUBSET (DOMAIN ls) |->
     IF s = {} THEN ParserInit ELSE ParseLine(g[s \ {Max(s)}], ls[Max(s)])]

\* tr is what the parser goes through from one line to the next.
Traces(tr, ps, ls) ==
  /\ tr[0] = ps
  /\ \A k \in 1 .. Len(ls) : tr[k] = ParseLine(tr[k - 1], ls[k])

\* The parser goes through the lines one by one.
LEMMA ParseTrace ==
  ASSUME NEW B, NoBid \in B, NEW ls \in Seq(LinesOn(B))
  PROVE  \E tr \in [0 .. Len(ls) -> ParsersOn(B)] :
           Traces(tr, ParserInit, ls) /\ Parse(ls) = tr[Len(ls)]
<1> DEFINE n == Len(ls)
           F == [p \in ParsersOn(B) \X LinesOn(B) |-> ParseLine(p[1], p[2])]
           g == CHOOSE f : f = Steps(f, ls)
<1>1. n \in Nat /\ DOMAIN ls = 1..n /\ ls \in [1..n -> LinesOn(B)]
  OBVIOUS
<1> HIDE DEF n
<1>2. /\ F \in [ParsersOn(B) \X LinesOn(B) -> ParsersOn(B)]
      /\ \A ps \in ParsersOn(B), ln \in LinesOn(B) : F[<<ps, ln>>] = ParseLine(ps, ln)
  BY ParseLineType
<1> HIDE DEF F
<1>3. ParserInit \in ParsersOn(B)
  BY DEF ParserInit, ParsersOn, Contexts
<1>4. PICK f \in [SUBSET (1..n) -> ParsersOn(B)] : FoldsUp(f, F, ParserInit, ls, n)
  BY <1>1, <1>2, <1>3, FoldExists
<1>5. \A s \in SUBSET (1..n) : s # {} => Max(s) \in 1..n
  BY <1>1, MaxOf
<1>6. f = Steps(f, ls)
  <2>1. ASSUME NEW s \in SUBSET (1..n)
        PROVE  f[s] = IF s = {} THEN ParserInit ELSE ParseLine(f[s \ {Max(s)}], ls[Max(s)])
    <3>1. CASE s = {}
      BY <3>1, <1>4 DEF FoldsUp
    <3>2. CASE s # {}
      <4>1. f[s \ {Max(s)}] \in ParsersOn(B) /\ ls[Max(s)] \in LinesOn(B)
        BY <1>1, <1>5, <3>2
      <4>2. f[s] = F[<<f[s \ {Max(s)}], ls[Max(s)]>>]
        BY <3>2, <1>4 DEF FoldsUp
      <4> QED BY <1>2, <3>2, <4>1, <4>2
    <3> QED BY <3>1, <3>2
  <2> QED BY <1>1, <2>1, Zenon DEF Steps
<1>7. g = Steps(g, ls)
  BY <1>6, Zenon
<1>8. Parse(ls) = g[1..n]
  BY <1>1 DEF Parse, FoldLeft, MapThenFoldSet, Steps
<1> HIDE DEF g
<1>9. \A s \in SUBSET (1..n) :
        g[s] = IF s = {} THEN ParserInit ELSE ParseLine(g[s \ {Max(s)}], ls[Max(s)])
  BY <1>1, <1>7, Zenon DEF Steps
<1>10. g[1..0] = ParserInit
  <2>1. 1..0 = {} /\ {} \in SUBSET (1..n)
    OBVIOUS
  <2> QED BY <1>9, <2>1, Zenon
<1>11. ASSUME NEW m \in Nat, m + 1 <= n
       PROVE  g[1..(m + 1)] = ParseLine(g[1..m], ls[m + 1]) /\ ls[m + 1] \in LinesOn(B)
  <2>1. Max(1..(m + 1)) = m + 1
    <3>1. /\ Max(1..(m + 1)) \in 1..(m + 1)
          /\ \A x \in 1..(m + 1) : x <= Max(1..(m + 1))
      BY MaxOf, m + 1 \in Nat, m + 1 \in 1..(m + 1)
    <3> QED BY <3>1, m + 1 \in 1..(m + 1)
  <2>2. /\ (1..(m + 1)) \ {m + 1} = 1..m /\ 1..(m + 1) \in SUBSET (1..n)
        /\ m + 1 \in 1..n /\ 1..(m + 1) # {}
    <3>1. m + 1 \in 1..(m + 1) /\ \A x \in 1..(m + 1) : x \in 1..n
      BY <1>1, <1>11
    <3>2. m + 1 \in 1..n /\ (1..(m + 1)) \ {m + 1} = 1..m
      BY <1>1, <1>11
    <3> QED BY <3>1, <3>2
  <2>3. g[1..(m + 1)] = ParseLine(g[(1..(m + 1)) \ {Max(1..(m + 1))}], ls[Max(1..(m + 1))])
    BY <1>9, <2>2, Zenon
  <2> QED BY <1>1, <2>1, <2>2, <2>3
<1> DEFINE S == {m \in Nat : m <= n => g[1..m] \in ParsersOn(B)}
<1>12. 0 \in S
  BY <1>3, <1>10
<1>13. ASSUME NEW m \in Nat, m \in S PROVE m + 1 \in S
  <2> SUFFICES ASSUME m + 1 <= n PROVE g[1..(m + 1)] \in ParsersOn(B)
    OBVIOUS
  <2>1. g[1..m] \in ParsersOn(B)
    BY <1>1, <1>13
  <2> QED BY <1>11, <2>1, ParseLineType
<1> HIDE DEF S
<1>14. \A k \in 0..n : g[1..k] \in ParsersOn(B)
  <2>1. Nat \subseteq S
    BY <1>12, <1>13, SetInduction
  <2> QED BY <1>1, <2>1 DEF S
<1> DEFINE tr == [k \in 0..n |-> g[1..k]]
<1>15. tr \in [0..n -> ParsersOn(B)]
  BY <1>14
<1>16. tr[0] = ParserInit /\ tr[n] = g[1..n]
  BY <1>1, <1>10
<1>17. ASSUME NEW k \in 1..n PROVE tr[k] = ParseLine(tr[k - 1], ls[k])
  <2>1. k - 1 \in Nat /\ (k - 1) + 1 = k /\ k - 1 \in 0..n /\ k \in 0..n /\ k <= n
    BY <1>1
  <2>2. g[1..k] = ParseLine(g[1..(k - 1)], ls[k])
    BY <1>11, <2>1
  <2> QED BY <2>1, <2>2
<1> HIDE DEF tr
<1> QED BY <1>8, <1>15, <1>16, <1>17 DEF Traces, n

\* The entries have ids of markers.
LEMMA ParseOn ==
  ASSUME NEW B, NoBid \in B, NEW ls \in Seq(LinesOn(B))
  PROVE  Parse(ls) \in ParsersOn(B) /\ Parse(ls).out \in Seq(EntriesOn(B))
<1>1. PICK tr \in [0 .. Len(ls) -> ParsersOn(B)] : Parse(ls) = tr[Len(ls)]
  BY ParseTrace
<1>2. Len(ls) \in 0 .. Len(ls)
  OBVIOUS
<1>3. Parse(ls) \in ParsersOn(B)
  BY <1>1, <1>2
<1> QED BY <1>3 DEF ParsersOn

\* The parser makes a list of entries of every list of lines.
LEMMA ParseType ==
  ASSUME NEW ls \in Seq(LinesOn(Nat))
  PROVE  Parse(ls).out \in Seq(EntrySet)
BY ParseOn DEF NoBid, EntrySet

-----------------------------------------------------------------------------
(* The export: a document gives a list of lines.                           *)

\* The lines of one block.
LEMMA LineTypes ==
  ASSUME NEW B, NoBid \in B
  PROVE
  /\ Blank \in LinesOn(B)
  /\ \A b \in B : Marker(b) \in LinesOn(B)
  /\ \A t \in Strings : Para(t) \in LinesOn(B)
  /\ \A k \in LineKinds, t \in Strings : Line(k, t) \in LinesOn(B)
  /\ \A k \in LineKinds, t \in Strings, n \in Nat, st \in Styles :
       /\ [Line(k, t) EXCEPT !.style = st] \in LinesOn(B)
       /\ [Line(k, t) EXCEPT !.indent = n, !.style = st] \in LinesOn(B)
<1>1. \A k \in LineKinds, t \in Strings : Line(k, t) \in LinesOn(B)
  BY TextAssumption DEF Line, LinesOn, Strings
<1>2. {"blank", "marker", "para"} \subseteq LineKinds /\ "" \in Strings
  BY DEF LineKinds, Strings
<1>3. Blank \in LinesOn(B)
  BY <1>1, <1>2 DEF Blank
<1>4. \A b \in B : Marker(b) \in LinesOn(B)
  <2>1. Line("marker", "") \in LinesOn(B)
    BY <1>1, <1>2
  <2>2. \A ln \in LinesOn(B), b \in B : [ln EXCEPT !.bid = b] \in LinesOn(B)
    BY DEF LinesOn
  <2> QED BY <2>1, <2>2 DEF Marker
<1>5. \A t \in Strings : Para(t) \in LinesOn(B)
  BY <1>1, <1>2, <1>3 DEF Para
<1> QED BY <1>1, <1>3, <1>4, <1>5 DEF LinesOn

\* The lines of several blocks.
LEMMA LinesOfType ==
  ASSUME NEW B, NEW ids, NEW bs \in Seq(ids), NEW lines, NEW d,
         \A k \in DOMAIN bs : lines[bs[k]][d] \in Seq(LinesOn(B))
  PROVE  LinesOf(lines, bs, d) \in Seq(LinesOn(B))
<1> DEFINE ss == [k \in DOMAIN bs |-> lines[bs[k]][d]]
<1>1. ss \in Seq(Seq(LinesOn(B)))
  <2>1. DOMAIN bs = 1..Len(bs) /\ Len(bs) \in Nat
    OBVIOUS
  <2>2. ss \in [1..Len(bs) -> Seq(LinesOn(B))]
    BY <2>1
  <2> HIDE DEF ss
  <2> QED BY <2>1, <2>2
<1> HIDE DEF ss
<1>2. FlattenSeq(ss) \in Seq(LinesOn(B))
  BY <1>1, Flattened
<1> QED BY <1>2 DEF LinesOf, ss

\* The texts of a container are texts.
LEMMA ContentType ==
  ASSUME NEW ids, NEW d \in [ids -> Blocks(ids)], NEW b \in ids
  PROVE  ContentOf(d, b) \in Seq(Strings)
<1> DEFINE texts == Keep(d[b].children, {c \in DOMAIN d : d[c].type \in HasContent})
<1>1. d[b].children \in Seq(ids) /\ \A c \in ids : d[c].text \in Strings
  BY DEF Blocks, Strings
<1>2. texts \in Seq(ids)
  BY <1>1, Kept
<1> HIDE DEF texts
<1>3. [k \in DOMAIN texts |-> d[texts[k]].text] \in Seq(Strings)
  BY <1>1, <1>2
<1> QED BY <1>3 DEF ContentOf, texts

\* The blocks whose lines a block passes on as they are.
Passes(d, b) ==
  IF d[b].type \notin Transparent THEN {}
  ELSE IF d[b].type = "grid" THEN UNION {ToSet(d[c].children) : c \in ToSet(d[b].children)}
  ELSE ToSet(d[b].children)

\* A block is rendered as a list of lines, if the blocks behind it are.
LEMMA BlockLinesType ==
  ASSUME NEW B, NoBid \in B,
         NEW ids \in SUBSET Nat, NEW doc_ \in [ids -> Blocks(ids)], NEW b \in ids, NEW d \in Nat,
         \A x \in ids : \A c \in ToSet(doc_[x].children) : x < c,
         NEW lines, \A c \in ids : b < c => lines[c][d + 1] \in Seq(LinesOn(B)),
         \A c \in Passes(doc_, b) : b < c => lines[c][d] \in Seq(LinesOn(B))
  PROVE  BlockLines(doc_, lines, b, d) \in Seq(LinesOn(B))
<1> DEFINE blk == doc_[b]
           texts == ContentOf(doc_, b)
           quotes == [k \in DOMAIN texts |-> Line("quote", texts[k])]
           columns == Keep(blk.children, {c \in DOMAIN doc_ : doc_[c].type = "column"})
           grid == FlattenSeq([k \in DOMAIN columns |->
                                 LinesOf(lines, doc_[columns[k]].children, d)])
<1>1. /\ blk.type \in BlockTypes /\ blk.text \in Strings /\ blk.style \in Styles
      /\ \A x \in ids : doc_[x].children \in Seq(ids)
  BY DEF Blocks, Strings
<1>2. ASSUME NEW x \in ids, NEW e \in Nat, b <= x,
             \A c \in ToSet(doc_[x].children) : b < c => lines[c][e] \in Seq(LinesOn(B))
      PROVE  LinesOf(lines, doc_[x].children, e) \in Seq(LinesOn(B))
  <2> DEFINE bs == doc_[x].children
  <2>1. \A k \in DOMAIN bs : bs[k] \in ToSet(bs) /\ b < bs[k]
    <3> SUFFICES ASSUME NEW k \in DOMAIN bs PROVE bs[k] \in ToSet(bs) /\ b < bs[k]
      OBVIOUS
    <3>1. bs[k] \in ids /\ bs[k] \in ToSet(bs)
      BY <1>1 DEF ToSet
    <3>2. x < bs[k]
      BY <3>1
    <3>3. b \in Nat /\ x \in Nat /\ bs[k] \in Nat
      BY <3>1
    <3> HIDE DEF bs
    <3> QED BY <1>2, <3>1, <3>2, <3>3
  <2>2. bs \in Seq(ids)
    BY <1>1
  <2>3. \A c \in ToSet(bs) : b < c => lines[c][e] \in Seq(LinesOn(B))
    BY <1>2
  <2> HIDE DEF bs
  <2>4. \A k \in DOMAIN bs : lines[bs[k]][e] \in Seq(LinesOn(B))
    BY <2>1, <2>3
  <2>5. LinesOf(lines, bs, e) \in Seq(LinesOn(B))
    BY <2>2, <2>4, LinesOfType
  <2> QED BY <2>5 DEF bs
<1>3. texts \in Seq(Strings)
  BY ContentType
<1>4. Append(quotes, Blank) \in Seq(LinesOn(B))
  <2> HIDE DEF texts
  <2>1. "quote" \in LineKinds /\ \A k \in DOMAIN texts : texts[k] \in Strings
    BY <1>3 DEF LineKinds
  <2>2. \A k \in DOMAIN texts : Line("quote", texts[k]) \in LinesOn(B)
    BY <2>1, LineTypes
  <2>3. quotes \in Seq(LinesOn(B))
    BY <1>3, <2>2
  <2>4. Blank \in LinesOn(B)
    BY LineTypes
  <2> HIDE DEF quotes
  <2> QED BY <2>3, <2>4
<1>5. blk.type = "grid" => grid \in Seq(LinesOn(B))
  <2> SUFFICES ASSUME blk.type = "grid" PROVE grid \in Seq(LinesOn(B))
    OBVIOUS
  <2>1. columns \in Seq(ids) /\ ToSet(columns) \subseteq ToSet(blk.children)
    <3> DEFINE C == {c \in DOMAIN doc_ : doc_[c].type = "column"}
    <3>1. blk.children \in Seq(ids)
      BY <1>1
    <3> HIDE DEF C, blk
    <3>2. Keep(blk.children, C) \in Seq(ids) /\ ToSet(Keep(blk.children, C)) = ToSet(blk.children) \cap C
      BY <3>1, Kept
    <3>3. columns = Keep(blk.children, C)
      BY DEF C
    <3> HIDE DEF columns
    <3> QED BY <3>2, <3>3
  <2> DEFINE ss == [k \in DOMAIN columns |-> LinesOf(lines, doc_[columns[k]].children, d)]
  <2>2. \A k \in DOMAIN columns : LinesOf(lines, doc_[columns[k]].children, d) \in Seq(LinesOn(B))
    <3> SUFFICES ASSUME NEW k \in DOMAIN columns
                 PROVE  LinesOf(lines, doc_[columns[k]].children, d) \in Seq(LinesOn(B))
      OBVIOUS
    <3> HIDE DEF columns
    <3>1. columns[k] \in ids /\ columns[k] \in ToSet(columns)
      BY <2>1 DEF ToSet
    <3>2. b < columns[k]
      BY <2>1, <3>1
    <3>3. b <= columns[k]
      <4>1. b \in Nat /\ columns[k] \in Nat
        BY <3>1
      <4> QED BY <3>2, <4>1
    <3>4. ToSet(doc_[columns[k]].children) \subseteq Passes(doc_, b)
      <4>1. columns[k] \in ToSet(blk.children)
        BY <2>1, <3>1
      <4> QED BY <4>1 DEF Passes, Transparent
    <3>5. \A c \in ToSet(doc_[columns[k]].children) : b < c => lines[c][d] \in Seq(LinesOn(B))
      BY <3>4
    <3> QED BY <1>2, <3>1, <3>3, <3>5
  <2>3. ss \in Seq(Seq(LinesOn(B)))
    <3> HIDE DEF columns
    <3>1. DOMAIN columns = 1..Len(columns) /\ Len(columns) \in Nat
      BY <2>1
    <3>2. ss \in [1..Len(columns) -> Seq(LinesOn(B))]
      BY <2>2, <3>1
    <3> HIDE DEF ss
    <3> QED BY <3>1, <3>2
  <2> HIDE DEF ss
  <2>4. FlattenSeq(ss) \in Seq(LinesOn(B))
    BY <2>3, Flattened
  <2> QED BY <2>4 DEF ss
<1>6. BlockLines(doc_, lines, b, d) \in Seq(LinesOn(B))
  <2>1. b <= b /\ d + 1 \in Nat
    OBVIOUS
  <2>2. LinesOf(lines, blk.children, d + 1) \in Seq(LinesOn(B))
    <3>1. ToSet(blk.children) \subseteq ids
      BY <1>1 DEF ToSet
    <3>2. \A c \in ToSet(blk.children) : b < c => lines[c][d + 1] \in Seq(LinesOn(B))
      BY <3>1
    <3> QED BY <1>2, <2>1, <3>2
  <2>3. /\ {"heading", "todo", "quote", "callout", "fence", "content", "math", "divider",
           "image", "file", "table", "bullet", "ordered"} \subseteq LineKinds
        /\ "" \in Strings
    BY DEF LineKinds, ListTypes, Strings
  <2> HIDE DEF grid, quotes, columns, texts
  <2>4. CASE blk.type \in {"text", "linkPreview", "board"}
    <3>1. BlockLines(doc_, lines, b, d) = <<Para(blk.text), Blank>>
      BY <2>4, Zenon DEF BlockLines
    <3>2. Para(blk.text) \in LinesOn(B) /\ Blank \in LinesOn(B)
      BY <1>1, LineTypes
    <3> QED BY <3>1, <3>2, ShortLists
  <2>5. CASE blk.type \in {"heading", "quote", "divider", "image", "file", "table"}
    <3>1. BlockLines(doc_, lines, b, d) = <<Line(blk.type, blk.text), Blank>>
      BY <2>5, Zenon DEF BlockLines
    <3>2. Line(blk.type, blk.text) \in LinesOn(B) /\ Blank \in LinesOn(B)
      BY <1>1, <2>3, <2>5, LineTypes
    <3> QED BY <3>1, <3>2, ShortLists, Zenon
  <2>6. CASE blk.type \in {"bullet", "ordered"}
    <3> DEFINE ln == [Line(blk.type, blk.text) EXCEPT !.indent = d, !.style = blk.style]
               rest == LinesOf(lines, blk.children, d + 1)
    <3>1. BlockLines(doc_, lines, b, d) = (<<ln>> \o rest)
      BY <2>6, Zenon DEF BlockLines
    <3>2. ln \in LinesOn(B)
      BY <1>1, <2>3, <2>6, LineTypes
    <3> HIDE DEF ln, rest
    <3>3. rest \in Seq(LinesOn(B))
      BY <2>2 DEF rest
    <3>4. <<ln>> \o rest \in Seq(LinesOn(B))
      BY <3>2, <3>3
    <3> QED BY <3>1, <3>4, Zenon
  <2>7. CASE blk.type = "todo"
    <3>1. BlockLines(doc_, lines, b, d) =
            <<[Line("todo", blk.text) EXCEPT !.style = blk.style]>>
      BY <2>7 DEF BlockLines
    <3>2. [Line("todo", blk.text) EXCEPT !.style = blk.style] \in LinesOn(B)
      BY <1>1, <2>3, LineTypes
    <3> QED BY <3>1, <3>2
  <2>8. CASE blk.type = "quoteContainer"
    <3>1. BlockLines(doc_, lines, b, d) = Append(quotes, Blank)
      BY <2>8 DEF BlockLines, quotes, texts
    <3> QED BY <1>4, <3>1
  <2>9. CASE blk.type = "callout"
    <3> DEFINE ln == [Line("callout", "") EXCEPT !.style = blk.style]
               rest == Append(quotes, Blank)
    <3>1. BlockLines(doc_, lines, b, d) = (<<ln>> \o rest)
      BY <2>9 DEF BlockLines, quotes, texts
    <3>2. ln \in LinesOn(B)
      BY <1>1, <2>3, LineTypes
    <3> HIDE DEF ln, rest
    <3>3. <<ln>> \o rest \in Seq(LinesOn(B))
      BY <1>4, <3>2 DEF rest
    <3> QED BY <3>1, <3>3
  <2>10. CASE blk.type = "code"
    <3> DEFINE ln == [Line("fence", "") EXCEPT !.style = blk.style]
    <3>1. BlockLines(doc_, lines, b, d) =
            <<ln, Line("content", blk.text), Line("fence", ""), Blank>>
      BY <2>10 DEF BlockLines
    <3>2. /\ ln \in LinesOn(B) /\ Line("content", blk.text) \in LinesOn(B)
          /\ Line("fence", "") \in LinesOn(B) /\ Blank \in LinesOn(B)
      BY <1>1, <2>3, LineTypes
    <3> HIDE DEF ln
    <3>3. <<ln, Line("content", blk.text), Line("fence", ""), Blank>> \in Seq(LinesOn(B))
      BY <3>2, ShortLists, Zenon
    <3> QED BY <3>1, <3>3, Zenon
  <2>11. CASE blk.type = "equation"
    <3>1. BlockLines(doc_, lines, b, d) =
            <<Line("math", ""), Line("content", blk.text), Line("math", ""), Blank>>
      BY <2>11 DEF BlockLines
    <3>2. Line("math", "") \in LinesOn(B) /\ Line("content", blk.text) \in LinesOn(B) /\ Blank \in LinesOn(B)
      BY <1>1, <2>3, LineTypes
    <3>3. <<Line("math", ""), Line("content", blk.text), Line("math", ""), Blank>>
            \in Seq(LinesOn(B))
      BY <3>2, ShortLists, Zenon
    <3> QED BY <3>1, <3>3, Zenon
  <2>12. CASE blk.type = "grid"
    <3>1. BlockLines(doc_, lines, b, d) = grid
      BY <2>12 DEF BlockLines, grid, columns
    <3> QED BY <1>5, <2>12, <3>1
  <2>13. CASE blk.type \notin {"text", "linkPreview", "board", "heading", "quote", "divider",
                               "image", "file", "table", "bullet", "ordered", "todo",
                               "quoteContainer", "callout", "code", "equation", "grid"}
    <3>1. BlockLines(doc_, lines, b, d) = LinesOf(lines, blk.children, d)
      BY <2>13 DEF BlockLines
    <3>2. Passes(doc_, b) = ToSet(blk.children)
      <4>1. blk.type \in Transparent /\ blk.type # "grid"
        BY <1>1, <2>13 DEF BlockTypes, Transparent, ListTypes, Containers
      <4> QED BY <4>1 DEF Passes
    <3>3. LinesOf(lines, blk.children, d) \in Seq(LinesOn(B))
      BY <1>2, <2>1, <3>2
    <3> QED BY <3>1, <3>3
  <2> QED BY <2>4, <2>5, <2>6, <2>7, <2>8, <2>9, <2>10, <2>11, <2>12, <2>13
<1> QED BY <1>6

\* So is it with its marker, which it has at the top only.
LEMMA RenderType ==
  ASSUME NEW B, NoBid \in B,
         NEW ids \in SUBSET Nat, NEW doc_ \in [ids -> Blocks(ids)], NEW b \in ids, NEW d \in Nat,
         \A x \in ids : \A c \in ToSet(doc_[x].children) : x < c,
         NEW lines, \A c \in ids : b < c => lines[c][d + 1] \in Seq(LinesOn(B)),
         \A c \in Passes(doc_, b) : b < c => lines[c][d] \in Seq(LinesOn(B)),
         d = 0 => b \in B
  PROVE  Render(doc_, lines, b, d) \in Seq(LinesOn(B))
<1> DEFINE mark == IF d = 0 THEN <<Marker(b)>> ELSE << >>
           r == BlockLines(doc_, lines, b, d)
<1>1. r \in Seq(LinesOn(B))
  BY BlockLinesType
<1>2. d = 0 => Marker(b) \in LinesOn(B)
  BY LineTypes
<1>3. mark \in Seq(LinesOn(B))
  BY <1>2
<1>4. Render(doc_, lines, b, d) = mark \o r
  BY DEF Render
<1> HIDE DEF mark, r
<1> QED BY <1>1, <1>3, <1>4

\* The lines of a block depend on the blocks behind it only.
LEMMA RenderLocal ==
  ASSUME NEW ids \in SUBSET Nat, NEW doc_ \in [ids -> Blocks(ids)], NEW b \in ids, NEW d \in Nat,
         \A x \in ids : \A c \in ToSet(doc_[x].children) : x < c,
         NEW f, NEW g, \A c \in ids, e \in Nat : b < c => f[c][e] = g[c][e]
  PROVE  Render(doc_, f, b, d) = Render(doc_, g, b, d)
<1> DEFINE blk == doc_[b]
           columns == Keep(blk.children, {c \in DOMAIN doc_ : doc_[c].type = "column"})
           Grid(h) == FlattenSeq([k \in DOMAIN columns |->
                                    LinesOf(h, doc_[columns[k]].children, d)])
<1>1. \A x \in ids : doc_[x].children \in Seq(ids)
  BY DEF Blocks
<1>2. \A x \in ids, e \in Nat : b <= x =>
        LinesOf(f, doc_[x].children, e) = LinesOf(g, doc_[x].children, e)
  <2> SUFFICES ASSUME NEW x \in ids, NEW e \in Nat, b <= x
               PROVE  LinesOf(f, doc_[x].children, e) = LinesOf(g, doc_[x].children, e)
    OBVIOUS
  <2> DEFINE bs == doc_[x].children
  <2>1. \A k \in DOMAIN bs : bs[k] \in ids /\ b < bs[k]
    <3> SUFFICES ASSUME NEW k \in DOMAIN bs PROVE bs[k] \in ids /\ b < bs[k]
      OBVIOUS
    <3>1. bs \in Seq(ids)
      BY <1>1
    <3>2. bs[k] \in ids /\ bs[k] \in ToSet(bs)
      <4> HIDE DEF bs
      <4> QED BY <3>1 DEF ToSet
    <3>3. x < bs[k]
      BY <3>2
    <3>4. b \in Nat /\ x \in Nat /\ bs[k] \in Nat
      BY <3>2
    <3> HIDE DEF bs
    <3> QED BY <3>2, <3>3, <3>4
  <2> HIDE DEF bs
  <2>2. \A k \in DOMAIN bs : f[bs[k]][e] = g[bs[k]][e]
    BY <2>1
  <2>3. [k \in DOMAIN bs |-> f[bs[k]][e]] = [k \in DOMAIN bs |-> g[bs[k]][e]]
    BY <2>2, Zenon
  <2>4. LinesOf(f, bs, e) = LinesOf(g, bs, e)
    BY <2>3 DEF LinesOf
  <2> QED BY <2>4 DEF bs
<1>3. Grid(f) = Grid(g)
  <2>1. columns \in Seq(ids) /\ ToSet(columns) \subseteq ToSet(blk.children)
    BY <1>1, Kept
  <2>2. ASSUME NEW k \in DOMAIN columns
        PROVE  LinesOf(f, doc_[columns[k]].children, d) = LinesOf(g, doc_[columns[k]].children, d)
    <3> HIDE DEF columns
    <3>1. columns[k] \in ids /\ columns[k] \in ToSet(columns)
      BY <2>1 DEF ToSet
    <3>2. b < columns[k]
      BY <2>1, <3>1
    <3>3. b \in Nat /\ columns[k] \in Nat
      BY <3>1
    <3>4. b <= columns[k]
      BY <3>2, <3>3
    <3> QED BY <1>2, <3>1, <3>4
  <2> HIDE DEF columns
  <2>3. [k \in DOMAIN columns |-> LinesOf(f, doc_[columns[k]].children, d)]
          = [k \in DOMAIN columns |-> LinesOf(g, doc_[columns[k]].children, d)]
    BY <2>2, Zenon
  <2> QED BY <2>3
<1>4. /\ LinesOf(f, blk.children, d) = LinesOf(g, blk.children, d)
      /\ LinesOf(f, blk.children, d + 1) = LinesOf(g, blk.children, d + 1)
  <2>1. b <= b /\ d + 1 \in Nat
    OBVIOUS
  <2> QED BY <1>2, <2>1
<1>5. BlockLines(doc_, f, b, d) = BlockLines(doc_, g, b, d)
  BY <1>3, <1>4, Zenon DEF BlockLines
<1> QED BY <1>5 DEF Render

\* The equation of Rendered.
Lined(h, doc_) == [b \in DOMAIN doc_ |-> [d \in Nat |-> Render(doc_, h, b, d)]]

\* It has a solution.
LEMMA RenderedExists ==
  ASSUME NEW m \in Nat, NEW doc_ \in [0..m -> Blocks(0..m)],
         \A x \in 0..m : \A c \in ToSet(doc_[x].children) : x < c
  PROVE  \E h : h = Lined(h, doc_)
<1> DEFINE ids == 0..m
           At(h, b) == h[b] = [d \in Nat |-> Render(doc_, h, b, d)]
           Good(h, b) == \A c \in ids : b <= c => At(h, c)
           S == {b \in ids : \E h : DOMAIN h = ids /\ h = [c \in ids |-> h[c]] /\ Good(h, b)}
<1>1. ids \in SUBSET Nat /\ doc_ \in [ids -> Blocks(ids)]
  OBVIOUS
<1>2. ASSUME NEW b \in ids, \A c \in ids : b < c => c \in S PROVE b \in S
  <2>1. \E h : DOMAIN h = ids /\ h = [c \in ids |-> h[c]] /\ \A c \in ids : b < c => At(h, c)
    <3> HIDE DEF At
    <3>1. CASE b = m
      <4> DEFINE h == [c \in ids |-> 0]
      <4>1. DOMAIN h = ids /\ h = [c \in ids |-> h[c]]
        OBVIOUS
      <4>2. \A c \in ids : ~(b < c)
        BY <3>1
      <4> HIDE DEF h
      <4> QED BY <4>1, <4>2
    <3>2. CASE b # m
      <4>1. b + 1 \in ids /\ b < b + 1
        BY <3>2
      <4>2. PICK h : DOMAIN h = ids /\ h = [c \in ids |-> h[c]] /\ Good(h, b + 1)
        BY <1>2, <4>1
      <4>3. \A c \in ids : b < c => b + 1 <= c
        OBVIOUS
      <4> QED BY <4>2, <4>3
    <3> QED BY <3>1, <3>2
  <2>2. PICK h : DOMAIN h = ids /\ h = [c \in ids |-> h[c]] /\ \A c \in ids : b < c => At(h, c)
    BY <2>1
  <2> DEFINE v == [d \in Nat |-> Render(doc_, h, b, d)]
             g == [c \in ids |-> IF c = b THEN v ELSE h[c]]
  <2>3. DOMAIN g = ids /\ g = [c \in ids |-> g[c]] /\ g[b] = v
    <3> HIDE DEF v
    <3> QED OBVIOUS
  <2>4. \A c \in ids : b < c => g[c] = h[c]
    OBVIOUS
  <2> HIDE DEF g
  <2>5. ASSUME NEW c \in ids, b <= c PROVE At(g, c)
    <3>1. \A x \in ids, e \in Nat : c < x => g[x][e] = h[x][e]
      <4>1. \A x \in ids : c < x => b < x
        BY <2>5
      <4> QED BY <2>4, <4>1
    <3>2. \A d \in Nat : Render(doc_, g, c, d) = Render(doc_, h, c, d)
      <4>1. \A x \in ids : \A k \in ToSet(doc_[x].children) : x < k
        OBVIOUS
      <4> HIDE DEF ids, g
      <4> SUFFICES ASSUME NEW d \in Nat PROVE Render(doc_, g, c, d) = Render(doc_, h, c, d)
        OBVIOUS
      <4> QED BY <1>1, <2>5, <3>1, <4>1, RenderLocal, SMTT(60)
    <3>3. [d \in Nat |-> Render(doc_, g, c, d)] = [d \in Nat |-> Render(doc_, h, c, d)]
      BY <3>2, Zenon
    <3>4. CASE c = b
      BY <2>3, <3>3, <3>4
    <3>5. CASE c # b
      <4>1. b < c
        BY <2>5, <3>5
      <4> QED BY <2>2, <2>4, <3>3, <4>1
    <3> QED BY <3>4, <3>5
  <2> HIDE DEF At
  <2> QED BY <2>3, <2>5
<1> HIDE DEF S
<1>3. 0 \in S
  <2>1. 0 \in 0..m
    OBVIOUS
  <2> QED BY <1>2, <2>1, Downward
<1>4. PICK h : DOMAIN h = ids /\ h = [c \in ids |-> h[c]] /\ Good(h, 0)
  BY <1>3 DEF S
<1>5. \A c \in ids : h[c] = [d \in Nat |-> Render(doc_, h, c, d)]
  BY <1>4
<1>6. h = [c \in ids |-> [d \in Nat |-> Render(doc_, h, c, d)]]
  BY <1>4, <1>5, Zenon
<1>7. DOMAIN doc_ = ids
  BY <1>1
<1> HIDE DEF ids
<1> QED BY <1>6, <1>7 DEF Lined

\* What is written of a block is what Render makes of it.
LEMMA RenderedIs ==
  ASSUME NEW doc_ \in Docs
  PROVE  \A b \in DOMAIN doc_, d \in Nat :
           Rendered(doc_)[b][d] = Render(doc_, Rendered(doc_), b, d)
<1> DEFINE lines == Rendered(doc_)
           m == Max(DOMAIN doc_)
<1>1. /\ m \in Nat /\ DOMAIN doc_ = 0..m /\ doc_ \in [0..m -> Blocks(0..m)]
      /\ \A x \in 0..m : \A c \in ToSet(doc_[x].children) : x < c
  BY DocsAssumption
<1> HIDE DEF m
<1>2. \E h : h = Lined(h, doc_)
  BY <1>1, RenderedExists
<1>3. lines = CHOOSE h : h = Lined(h, doc_)
  BY Zenon DEF Rendered, Lined
<1> HIDE DEF lines
<1>4. lines = Lined(lines, doc_)
  BY <1>2, <1>3, Zenon
<1>5. \A b \in DOMAIN doc_ : lines[b] = [d \in Nat |-> Render(doc_, lines, b, d)]
  BY <1>4, Zenon DEF Lined
<1>6. \A b \in DOMAIN doc_, d \in Nat : lines[b][d] = Render(doc_, lines, b, d)
  BY <1>5
<1> QED BY <1>6 DEF lines

\* Every block of a document is written as a list of lines; below the top none
\* of them is a marker.
LEMMA RenderedType ==
  ASSUME NEW doc_ \in Docs, NEW from \in {0, 1}, NEW B, NoBid \in B,
         from = 0 => DOMAIN doc_ \subseteq B
  PROVE  \A b \in DOMAIN doc_, d \in Nat : from <= d => Rendered(doc_)[b][d] \in Seq(LinesOn(B))
<1> DEFINE m == Max(DOMAIN doc_)
           ids == DOMAIN doc_
           lines == Rendered(doc_)
           S == {b \in 0..m : \A d \in Nat : from <= d => lines[b][d] \in Seq(LinesOn(B))}
<1>1. /\ m \in Nat /\ ids = 0..m /\ ids \in SUBSET Nat /\ doc_ \in [ids -> Blocks(ids)]
      /\ \A x \in ids : \A c \in ToSet(doc_[x].children) : x < c
  BY DocsAssumption
<1> HIDE DEF m
<1>2. \A b \in ids, d \in Nat : lines[b][d] = Render(doc_, lines, b, d)
  BY RenderedIs
<1> HIDE DEF lines
<1>3. ASSUME NEW b \in ids PROVE Passes(doc_, b) \subseteq ids
  <2>1. \A x \in ids : ToSet(doc_[x].children) \subseteq ids
    <3>1. \A x \in ids : doc_[x].children \in Seq(ids)
      BY <1>1 DEF Blocks
    <3>2. \A q \in Seq(ids) : ToSet(q) \subseteq ids
      BY DEF ToSet
    <3> QED BY <3>1, <3>2
  <2> QED BY <2>1 DEF Passes
<1>4. ASSUME NEW b \in 0..m, \A c \in 0..m : b < c => c \in S PROVE b \in S
  <2> SUFFICES ASSUME NEW d \in Nat, from <= d
               PROVE  lines[b][d] \in Seq(LinesOn(B))
    OBVIOUS
  <2>1. \A c \in ids, e \in Nat : b < c /\ from <= e => lines[c][e] \in Seq(LinesOn(B))
    BY <1>1, <1>4
  <2>2. b \in ids /\ d + 1 \in Nat /\ from <= d + 1
    BY <1>1
  <2>3. d = 0 => b \in B
    BY <2>2
  <2>4. /\ \A c \in ids : b < c => lines[c][d + 1] \in Seq(LinesOn(B))
        /\ \A c \in Passes(doc_, b) : b < c => lines[c][d] \in Seq(LinesOn(B))
    BY <1>3, <2>1, <2>2
  <2> HIDE DEF ids
  <2>5. Render(doc_, lines, b, d) \in Seq(LinesOn(B))
    BY <1>1, <2>2, <2>3, <2>4, RenderType
  <2> QED BY <1>2, <2>2, <2>5
<1> HIDE DEF S
<1>5. 0..m \subseteq S
  BY <1>1, <1>4, Downward
<1> QED BY <1>1, <1>5 DEF S, lines

\* Ids are numbers, so an export is a list of lines.
LEMMA LinesAre == Lines = LinesOn(Nat)
BY DEF Lines, LinesOn, Strings

\* An export's ids are those of the blocks that are marked.
LEMMA ExportOn ==
  ASSUME NEW doc_ \in Docs, NEW B,
         \A b \in ToSet(doc_[Page].children) : Rendered(doc_)[b][0] \in Seq(LinesOn(B))
  PROVE  Export(doc_) \in Seq(LinesOn(B))
<1> DEFINE bs == doc_[Page].children
           ids == DOMAIN doc_
           lines == Rendered(doc_)
<1>1. bs \in Seq(ids)
  <2>1. Page \in ids /\ doc_ \in [ids -> Blocks(ids)]
    BY DocsAssumption DEF Page
  <2> HIDE DEF ids
  <2> QED BY <2>1 DEF Blocks
<1>2. \A b \in ToSet(bs) : lines[b][0] \in Seq(LinesOn(B))
  OBVIOUS
<1> HIDE DEF bs, ids, lines
<1>3. \A k \in DOMAIN bs : lines[bs[k]][0] \in Seq(LinesOn(B))
  BY <1>2 DEF ToSet
<1>4. LinesOf(lines, bs, 0) \in Seq(LinesOn(B))
  BY <1>1, <1>3, LinesOfType
<1> QED BY <1>4 DEF Export, lines, bs

\* The children of the page are blocks of the document.
LEMMA TopsAre ==
  ASSUME NEW doc_ \in Docs
  PROVE  Page \in DOMAIN doc_ /\ \A b \in DOMAIN doc_ : ToSet(doc_[b].children) \subseteq DOMAIN doc_
<1> DEFINE ids == DOMAIN doc_
<1>1. \A b \in ids : doc_[b].children \in Seq(ids)
  BY DocsAssumption DEF Blocks
<1>2. \A q \in Seq(ids) : ToSet(q) \subseteq ids
  BY DEF ToSet
<1>3. Page \in ids
  BY DocsAssumption DEF Page
<1> QED BY <1>1, <1>2, <1>3

\* A document is exported as a list of lines.
LEMMA ExportType ==
  ASSUME NEW doc_ \in Docs
  PROVE  Export(doc_) \in Seq(Lines)
<1>1. NoBid \in Nat /\ DOMAIN doc_ \subseteq Nat
  BY DocsAssumption DEF NoBid
<1>2. \A b \in DOMAIN doc_ : Rendered(doc_)[b][0] \in Seq(LinesOn(Nat))
  BY <1>1, RenderedType
<1>3. Export(doc_) \in Seq(LinesOn(Nat))
  BY <1>2, TopsAre, ExportOn
<1> QED BY <1>3, LinesAre

\* The blocks of the page, and those in its views.
Marked(d) == {b \in DOMAIN d : Known(d, b)}

\* Without grids the markers of an export are those of blocks that are known.
LEMMA ExportMarks ==
  ASSUME NEW doc_ \in Docs, GridFree(doc_)
  PROVE  Export(doc_) \in Seq(LinesOn({NoBid} \cup Marked(doc_)))
<1> DEFINE B == {NoBid} \cup Marked(doc_)
           ids == DOMAIN doc_
           lines == Rendered(doc_)
           tops == ToSet(doc_[Page].children)
<1>1. /\ ids \in SUBSET Nat /\ doc_ \in [ids -> Blocks(ids)]
      /\ \A x \in ids : \A c \in ToSet(doc_[x].children) : x < c
  BY DocsAssumption
<1>2. \A b \in ids, d \in Nat : lines[b][d] = Render(doc_, lines, b, d)
  BY RenderedIs
<1>3. NoBid \in B
  OBVIOUS
<1> HIDE DEF B
<1>4. \A b \in ids : lines[b][1] \in Seq(LinesOn(B))
  BY <1>3, RenderedType
<1>5. Page \in ids /\ tops \subseteq ids /\ \A b \in ids : ToSet(doc_[b].children) \subseteq ids
  BY TopsAre
<1> HIDE DEF lines
<1>6. ASSUME NEW b \in ids, b \in B, Passes(doc_, b) = {} \/
               \A c \in Passes(doc_, b) : lines[c][0] \in Seq(LinesOn(B))
      PROVE  lines[b][0] \in Seq(LinesOn(B))
  <2>1. 0 \in Nat /\ 0 + 1 = 1
    OBVIOUS
  <2> HIDE DEF ids
  <2>2. Render(doc_, lines, b, 0) \in Seq(LinesOn(B))
    BY <1>1, <1>3, <1>4, <1>6, <2>1, RenderType
  <2> QED BY <1>2, <2>1, <2>2
<1>7. ASSUME NEW b \in tops PROVE lines[b][0] \in Seq(LinesOn(B))
  <2>1. b \in ids /\ b \in B
    BY <1>5 DEF B, Marked, Known
  <2>2. CASE Passes(doc_, b) = {}
    BY <1>6, <2>1, <2>2
  <2>3. CASE Passes(doc_, b) # {}
    <3>1. doc_[b].type \in Transparent
      BY <2>3 DEF Passes
    <3>2. ToSet(doc_[b].children) # {}
      BY <2>3 DEF Passes
    <3>3. doc_[b].type = "view"
      BY <3>1, <3>2 DEF GridFree
    <3>4. Passes(doc_, b) = ToSet(doc_[b].children)
      BY <3>3 DEF Passes, Transparent
    <3>5. ASSUME NEW c \in ToSet(doc_[b].children) PROVE lines[c][0] \in Seq(LinesOn(B))
      <4>1. c \in ids
        BY <1>5, <2>1
      <4>2. doc_[c].type \notin Transparent
        BY <3>1, <3>5 DEF GridFree
      <4>3. Passes(doc_, c) = {}
        BY <4>2 DEF Passes
      <4>4. c \in B
        BY <2>1, <3>3, <4>1 DEF B, Marked, Known, Wraps
      <4> QED BY <1>6, <4>1, <4>3, <4>4
    <3> QED BY <1>6, <2>1, <3>4, <3>5
  <2> QED BY <2>2, <2>3
<1> QED BY <1>7, ExportOn DEF B, lines

-----------------------------------------------------------------------------
(* What is exported reads back.                                            *)

\* The lines ls take the parser from ps to qs.
Runs(ps, ls, qs) ==
  \E tr \in [0 .. Len(ls) -> ParsersOn(Nat)] : Traces(tr, ps, ls) /\ tr[Len(ls)] = qs

\* No line, and one line.
LEMMA RunsOne ==
  ASSUME NEW ps \in ParsersOn(Nat)
  PROVE  /\ Runs(ps, << >>, ps)
         /\ \A ln \in LinesOn(Nat) : /\ Runs(ps, <<ln>>, ParseLine(ps, ln))
                                     /\ ParseLine(ps, ln) \in ParsersOn(Nat)
<1>1. Runs(ps, << >>, ps)
  <2> DEFINE tr == [k \in 0 .. 0 |-> ps]
  <2>1. tr \in [0 .. Len(<< >>) -> ParsersOn(Nat)] /\ Traces(tr, ps, << >>) /\ tr[Len(<< >>)] = ps
    BY DEF Traces
  <2> HIDE DEF tr
  <2> QED BY <2>1 DEF Runs
<1>2. ASSUME NEW ln \in LinesOn(Nat)
      PROVE  Runs(ps, <<ln>>, ParseLine(ps, ln)) /\ ParseLine(ps, ln) \in ParsersOn(Nat)
  <2> DEFINE qs == ParseLine(ps, ln)
             tr == [k \in 0 .. 1 |-> IF k = 0 THEN ps ELSE qs]
  <2>1. qs \in ParsersOn(Nat)
    BY ParseLineType DEF NoBid
  <2>2. Traces(tr, ps, <<ln>>)
    BY DEF Traces
  <2> HIDE DEF qs
  <2>3. tr \in [0 .. Len(<<ln>>) -> ParsersOn(Nat)] /\ tr[Len(<<ln>>)] = qs
    BY <2>1
  <2> HIDE DEF tr
  <2>4. Runs(ps, <<ln>>, qs)
    BY <2>2, <2>3 DEF Runs
  <2> QED BY <2>1, <2>4 DEF qs
<1> QED BY <1>1, <1>2

\* More lines after lines.
LEMMA RunsOn ==
  ASSUME NEW ls \in Seq(LinesOn(Nat)), NEW ms \in Seq(LinesOn(Nat)), NEW ps, NEW qs, NEW rs,
         Runs(ps, ls, qs), Runs(qs, ms, rs)
  PROVE  Runs(ps, ls \o ms, rs)
<1> DEFINE m == Len(ls)
           n == Len(ms)
           all == ls \o ms
<1>1. /\ m \in Nat /\ n \in Nat /\ Len(all) = m + n
      /\ \A k \in 1 .. m : all[k] = ls[k]
      /\ \A k \in 1 .. n : all[m + k] = ms[k]
  OBVIOUS
<1>2. PICK f \in [0 .. m -> ParsersOn(Nat)] : Traces(f, ps, ls) /\ f[m] = qs
  BY DEF Runs
<1>3. PICK g \in [0 .. n -> ParsersOn(Nat)] : Traces(g, qs, ms) /\ g[n] = rs
  BY DEF Runs
<1> DEFINE tr == [k \in 0 .. m + n |-> IF k <= m THEN f[k] ELSE g[k - m]]
<1>4. f[0] = ps /\ \A k \in 1 .. m : f[k] = ParseLine(f[k - 1], ls[k])
  BY <1>2 DEF Traces
<1>5. g[0] = qs /\ \A k \in 1 .. n : g[k] = ParseLine(g[k - 1], ms[k])
  BY <1>3 DEF Traces
<1> HIDE DEF m, n, all
<1>6. tr \in [0 .. m + n -> ParsersOn(Nat)]
  BY <1>1, <1>2, <1>3
<1>7. tr[0] = ps /\ tr[m + n] = rs
  BY <1>1, <1>2, <1>3, <1>4, <1>5
<1>8. ASSUME NEW k \in 1 .. m + n PROVE tr[k] = ParseLine(tr[k - 1], all[k])
  <2>1. CASE k <= m
    BY <1>1, <1>4, <2>1
  <2>2. CASE k > m
    <3> DEFINE j == k - m
    <3>1. /\ j \in 1 .. n /\ k = m + j /\ tr[k] = g[j]
          /\ k - 1 \in 0 .. m + n /\ j - 1 = (k - 1) - m
      BY <1>1, <2>2
    <3>2. tr[k - 1] = g[j - 1]
      <4>1. CASE j = 1
        <5>1. k - 1 = m /\ j - 1 = 0
          BY <1>1, <3>1, <4>1
        <5>2. tr[k - 1] = f[m]
          BY <3>1, <5>1
        <5> QED BY <1>2, <1>5, <5>1, <5>2
      <4>2. CASE j # 1
        <5>1. ~(k - 1 <= m)
          BY <1>1, <3>1, <4>2
        <5> QED BY <3>1, <5>1
      <4> QED BY <4>1, <4>2
    <3> HIDE DEF j, tr
    <3>3. all[k] = ms[j]
      BY <1>1, <3>1
    <3> QED BY <1>5, <3>1, <3>2, <3>3
  <2> QED BY <1>1, <2>1, <2>2
<1> HIDE DEF tr
<1>9. Traces(tr, ps, all)
  BY <1>1, <1>7, <1>8 DEF Traces
<1>10. Runs(ps, all, rs)
  BY <1>1, <1>6, <1>7, <1>9 DEF Runs
<1> QED BY <1>10 DEF all

\* The lines of a file take the parser to what Parse gives.
LEMMA ParseIs ==
  ASSUME NEW ls \in Seq(LinesOn(Nat)), NEW qs, Runs(ParserInit, ls, qs)
  PROVE  Parse(ls) = qs /\ qs \in ParsersOn(Nat)
<1> DEFINE n == Len(ls)
<1>1. n \in Nat
  OBVIOUS
<1>2. PICK f \in [0 .. n -> ParsersOn(Nat)] : Traces(f, ParserInit, ls) /\ f[n] = qs
  BY DEF Runs
<1>3. PICK g \in [0 .. n -> ParsersOn(Nat)] : Traces(g, ParserInit, ls) /\ Parse(ls) = g[n]
  BY ParseTrace DEF NoBid
<1> DEFINE S == {k \in Nat : k <= n => f[k] = g[k]}
<1>4. 0 \in S
  BY <1>2, <1>3 DEF Traces
<1>5. ASSUME NEW k \in Nat, k \in S PROVE k + 1 \in S
  <2> SUFFICES ASSUME k + 1 <= n PROVE f[k + 1] = g[k + 1]
    OBVIOUS
  <2>1. k + 1 \in 1 .. n /\ (k + 1) - 1 = k /\ f[k] = g[k]
    BY <1>1, <1>5
  <2>2. f[k + 1] = ParseLine(f[k], ls[k + 1]) /\ g[k + 1] = ParseLine(g[k], ls[k + 1])
    BY <1>2, <1>3, <2>1 DEF Traces
  <2> QED BY <2>1, <2>2
<1> HIDE DEF S
<1>6. n \in S
  BY <1>1, <1>4, <1>5, SetInduction
<1> QED BY <1>1, <1>2, <1>3, <1>6 DEF S

\* Lines each of which keeps the parser in G.
LEMMA RunsThrough ==
  ASSUME NEW ls \in Seq(LinesOn(Nat)), NEW G \in SUBSET ParsersOn(Nat),
         \A ps \in G, k \in DOMAIN ls : ParseLine(ps, ls[k]) \in G,
         NEW ps \in G
  PROVE  \E qs \in G : Runs(ps, ls, qs)
<1> DEFINE n == Len(ls)
           upto(k) == SubSeq(ls, 1, k)
           S == {k \in Nat : k <= n => \E qs \in G : Runs(ps, upto(k), qs)}
<1>1. n \in Nat /\ DOMAIN ls = 1 .. n
  OBVIOUS
<1>2. 0 \in S
  <2>1. upto(0) = << >>
    OBVIOUS
  <2>2. Runs(ps, << >>, ps)
    BY RunsOne
  <2> QED BY <2>1, <2>2
<1>3. ASSUME NEW k \in Nat, k \in S PROVE k + 1 \in S
  <2> SUFFICES ASSUME k + 1 <= n PROVE \E qs \in G : Runs(ps, upto(k + 1), qs)
    OBVIOUS
  <2>1. PICK qs \in G : Runs(ps, upto(k), qs)
    BY <1>1, <1>3
  <2>2. k + 1 \in DOMAIN ls /\ ls[k + 1] \in LinesOn(Nat)
    BY <1>1
  <2>3. upto(k + 1) = upto(k) \o <<ls[k + 1]>> /\ upto(k) \in Seq(LinesOn(Nat))
        /\ <<ls[k + 1]>> \in Seq(LinesOn(Nat))
    BY <1>1, <2>2
  <2> DEFINE rs == ParseLine(qs, ls[k + 1])
  <2>4. rs \in G /\ Runs(qs, <<ls[k + 1]>>, rs)
    BY <2>1, <2>2, RunsOne
  <2> HIDE DEF upto, rs
  <2>5. ps \in G /\ upto(k) \in Seq(LinesOn(Nat)) /\ <<ls[k + 1]>> \in Seq(LinesOn(Nat))
        /\ Runs(ps, upto(k), qs) /\ Runs(qs, <<ls[k + 1]>>, rs)
    BY <2>1, <2>3, <2>4
  <2>6. Runs(ps, upto(k) \o <<ls[k + 1]>>, rs)
    BY ONLY <2>5, RunsOn
  <2> QED BY <2>3, <2>4, <2>6
<1> HIDE DEF S
<1>4. n \in S
  BY <1>1, <1>2, <1>3, SetInduction
<1>5. upto(n) = ls
  OBVIOUS
<1> HIDE DEF n, upto
<1>6. \E qs \in G : Runs(ps, upto(n), qs)
  BY <1>1, <1>4 DEF S
<1> QED BY <1>5, <1>6

\* The entries that were read are not touched.
Holds(qs, ps) ==
  /\ DOMAIN ps.out \subseteq DOMAIN qs.out
  /\ \A i \in DOMAIN ps.out : qs.out[i] = ps.out[i]

\* Lists of lines each of which takes the parser from G to G and to H of it.
LEMMA RunsAlong ==
  ASSUME NEW ss \in Seq(Seq(LinesOn(Nat))), NEW G \in SUBSET ParsersOn(Nat), NEW H,
         \A k \in DOMAIN ss, ps \in G :
           \E qs \in G : qs \in H[k] /\ Runs(ps, ss[k], qs) /\ Holds(qs, ps),
         \A k \in DOMAIN ss, ps \in G, qs \in G : ps \in H[k] /\ Holds(qs, ps) => qs \in H[k],
         NEW ps \in G
  PROVE  \E qs \in G : /\ Runs(ps, FlattenSeq(ss), qs) /\ Holds(qs, ps)
                       /\ \A k \in DOMAIN ss : qs \in H[k]
<1> DEFINE n == Len(ss)
           h == CHOOSE g : g = Flat(g, ss)
           Soundly(m, ls) == /\ ls \in Seq(LinesOn(Nat))
                          /\ \E qs \in G : /\ Runs(ps, ls, qs) /\ Holds(qs, ps)
                                           /\ \A k \in 1 .. m : qs \in H[k]
           S == {m \in Nat : m \in 1 .. n => Soundly(m, h[m])}
<1>1. n \in Nat /\ DOMAIN ss = 1 .. n /\ \A k \in 1 .. n : ss[k] \in Seq(LinesOn(Nat))
  OBVIOUS
<1>2. CASE n = 0
  <2>1. FlattenSeq(ss) = << >> /\ DOMAIN ss = {}
    BY <1>1, <1>2 DEF FlattenSeq
  <2>2. Runs(ps, << >>, ps) /\ Holds(ps, ps)
    BY RunsOne DEF Holds
  <2> QED BY <2>1, <2>2
<1>3. CASE n # 0
  <2>1. h = Flat(h, ss)
    BY FlatExists
  <2>2. FlattenSeq(ss) = h[n]
    BY <1>3 DEF FlattenSeq, Flat
  <2> HIDE DEF h
  <2>3. \A k \in 1 .. n : h[k] = IF k = 1 THEN ss[k] ELSE h[k - 1] \o ss[k]
    BY <2>1 DEF Flat
  <2> HIDE DEF n
  <2>4. 0 \in S
    OBVIOUS
  <2>5. ASSUME NEW m \in Nat, m \in S PROVE m + 1 \in S
    <3> SUFFICES ASSUME m + 1 \in 1 .. n PROVE Soundly(m + 1, h[m + 1])
      OBVIOUS
    <3>1. CASE m = 0
      <4>1. h[1] = ss[1] /\ 1 \in 1 .. n
        BY <2>3, <3>1
      <4>2. PICK qs \in G : qs \in H[1] /\ Runs(ps, ss[1], qs) /\ Holds(qs, ps)
        BY <1>1, <4>1
      <4> QED BY <1>1, <3>1, <4>1, <4>2
    <3>2. CASE m # 0
      <4>1. m \in 1 .. n /\ (m + 1) - 1 = m
        BY <1>1, <3>2
      <4>2. Soundly(m, h[m])
        BY <2>5, <4>1
      <4>3. h[m + 1] = h[m] \o ss[m + 1]
        <5>1. m + 1 # 1
          BY <3>2
        <5> QED BY <2>3, <4>1, <5>1
      <4>4. h[m] \in Seq(LinesOn(Nat)) /\ ss[m + 1] \in Seq(LinesOn(Nat))
        BY <1>1, <4>2
      <4>5. PICK qs \in G : Runs(ps, h[m], qs) /\ Holds(qs, ps) /\ \A k \in 1 .. m : qs \in H[k]
        BY <4>2
      <4>6. PICK rs \in G : rs \in H[m + 1] /\ Runs(qs, ss[m + 1], rs) /\ Holds(rs, qs)
        BY <1>1, <4>5
      <4>7. Runs(ps, h[m] \o ss[m + 1], rs) /\ h[m] \o ss[m + 1] \in Seq(LinesOn(Nat))
        BY <4>4, <4>5, <4>6, RunsOn
      <4>8. Holds(rs, ps)
        BY <4>5, <4>6 DEF Holds
      <4>9. \A k \in 1 .. m + 1 : rs \in H[k]
        <5>1. \A k \in 1 .. m : k \in DOMAIN ss
          BY <1>1, <4>1
        <5>2. \A k \in 1 .. m : rs \in H[k]
          BY <4>5, <4>6, <5>1
        <5> QED BY <4>6, <5>2
      <4> QED BY <4>3, <4>6, <4>7, <4>8, <4>9
    <3> QED BY <3>1, <3>2
  <2> HIDE DEF S
  <2>6. n \in S
    BY <1>1, <2>4, <2>5, SetInduction
  <2>7. Soundly(n, h[n])
    BY <1>1, <1>3, <2>6 DEF S
  <2> QED BY <1>1, <2>2, <2>7
<1> QED BY <1>2, <1>3

\* Nothing after an entry of the top level is at the top level: all is below it.
LEMMA AfterLast ==
  ASSUME NEW es \in Seq(EntrySet), NEW i \in DOMAIN es, es[i].level = 0,
         \A j \in i + 1 .. Len(es) : es[j].level > 0
  PROVE  After(es, i) = Len(es) + 1
<1>1. \A j \in i + 1 .. Len(es) : es[j] \in EntrySet
  OBVIOUS
<1>2. \A j \in i + 1 .. Len(es) : ~(es[j].level <= es[i].level)
  BY <1>1 DEF EntrySet, EntriesOn
<1> QED BY <1>2 DEF After

\* What is below an entry ends before the next entry of the top level.
LEMMA AfterKept ==
  ASSUME NEW out \in Seq(EntrySet), NEW es \in Seq(EntrySet), es # << >>, es[1].level = 0,
         NEW i \in DOMAIN out, out[i].level = 0
  PROVE  After(out \o es, i) = After(out, i) /\ After(out, i) \in i + 1 .. Len(out) + 1
<1> DEFINE m == Len(out)
           n == Len(es)
           all == out \o es
           a == {j \in i + 1 .. m : out[j].level <= out[i].level}
           b == {j \in i + 1 .. Len(all) : all[j].level <= all[i].level}
<1>1. /\ m \in Nat /\ i \in 1 .. m /\ n \in Nat \ {0} /\ Len(all) = m + n
      /\ all[m + 1] = es[1] /\ \A j \in 1 .. m : all[j] = out[j]
  OBVIOUS
<1>2. After(all, i) = (IF b = {} THEN Len(all) + 1 ELSE Min(b))
      /\ After(out, i) = IF a = {} THEN m + 1 ELSE Min(a)
  BY DEF After
<1> HIDE DEF m, n, all
<1>3. m + 1 \in b
  BY <1>1
<1>4. a = {j \in b : j <= m} /\ b \subseteq Nat /\ a \subseteq i + 1 .. m /\ a \subseteq Nat
  BY <1>1
<1> HIDE DEF a, b
<1>5. After(all, i) = Min(b) /\ Min(b) = IF a = {} THEN m + 1 ELSE Min(a)
  <2>1. After(all, i) = Min(b)
    BY <1>2, <1>3
  <2>2. m \in Nat /\ b \subseteq Nat /\ m + 1 \in b /\ a = {j \in b : j <= m}
    BY <1>1, <1>3, <1>4
  <2>3. Min(b) = IF a = {} THEN m + 1 ELSE Min(a)
    BY ONLY <2>2, FirstUpTo
  <2> QED BY <2>1, <2>3
<1>6. a # {} => Min(a) \in a
  BY <1>4, MinOf
<1>7. After(all, i) = After(out, i)
  BY <1>2, <1>5
<1>8. After(out, i) \in i + 1 .. m + 1
  <2>1. CASE a = {}
    BY <1>1, <1>2, <2>1
  <2>2. CASE a # {}
    <3>1. Min(a) \in i + 1 .. m
      BY <1>4, <1>6, <2>2
    <3> QED BY <1>1, <1>2, <2>2, <3>1
  <2> QED BY <2>1, <2>2
<1> QED BY <1>7, <1>8 DEF all, m

\* So it is compared as before when entries are added.
LEMMA ComparedAsBefore ==
  ASSUME NEW out \in Seq(EntrySet), NEW es \in Seq(EntrySet), es # << >>, es[1].level = 0,
         NEW i \in DOMAIN out, out[i].level = 0
  PROVE  EntryComparable(out \o es, i) = EntryComparable(out, i)
<1> DEFINE n == After(out, i) - 1
<1>1. After(out \o es, i) - 1 = n /\ n \in i .. Len(out)
  BY AfterKept
<1> HIDE DEF n
<1>2. (out \o es)[i] = out[i]
  OBVIOUS
<1>3. SubSeq(out \o es, i + 1, n) = SubSeq(out, i + 1, n)
  <2>1. CASE i + 1 <= n
    <3>1. i + 1 \in 1 .. Len(out) /\ n \in 1 .. Len(out)
      BY <1>1, <2>1
    <3> QED BY <3>1, SubSeqOfConcat1
  <2>2. CASE ~(i + 1 <= n)
    <3>1. i + 1 \in Int /\ n \in Int /\ n < i + 1
      BY <1>1, <2>2
    <3> QED BY <3>1, SubSeqEmpty
  <2> QED BY <2>1, <2>2
<1> QED BY <1>1, <1>2, <1>3 DEF EntryComparable, n

\* A new entry and what is in it is compared as if nothing was before.
LEMMA ComparedAlone ==
  ASSUME NEW out \in Seq(EntrySet), NEW es \in Seq(EntrySet), es # << >>, es[1].level = 0,
         \A k \in 2 .. Len(es) : es[k].level > 0
  PROVE  EntryComparable(out \o es, Len(out) + 1) = EntryComparable(es, 1)
<1> DEFINE m == Len(out)
           n == Len(es)
           all == out \o es
<1>1. /\ m \in Nat /\ n \in Nat \ {0} /\ Len(all) = m + n /\ all \in Seq(EntrySet)
      /\ \A k \in 1 .. n : all[m + k] = es[k]
  OBVIOUS
<1>2. SubSeq(all, m + 2, m + n) = SubSeq(es, 2, n)
  <2>1. CASE n = 1
    <3>1. m + n < m + 2 /\ n < 2 /\ m + n \in Int /\ m + 2 \in Int
      BY <1>1, <2>1
    <3> QED BY <3>1, SubSeqEmpty
  <2>2. CASE n # 1
    <3>1. m + 2 \in m + 1 .. m + n /\ m + n \in m + 1 .. m + n
          /\ (m + 2) - m = 2 /\ (m + n) - m = n
      <4> HIDE DEF all, m, n
      <4> QED BY <1>1, <2>2
    <3> QED BY <3>1, SubSeqOfConcat2
  <2> QED BY <2>1, <2>2
<1> HIDE DEF all, m, n
<1>3. all[m + 1] = es[1] /\ m + 1 \in DOMAIN all /\ 1 \in DOMAIN es /\ n = Len(es)
  BY <1>1 DEF n
<1>4. \A j \in (m + 1) + 1 .. Len(all) : all[j].level > 0
  <2> SUFFICES ASSUME NEW j \in (m + 1) + 1 .. Len(all) PROVE all[j].level > 0
    OBVIOUS
  <2>1. j - m \in 2 .. n /\ j = m + (j - m)
    BY <1>1
  <2>2. PICK k \in 2 .. n : j = m + k
    BY <2>1
  <2>3. k \in 1 .. n
    BY <1>1
  <2>4. all[m + k] = es[k]
    BY <1>1, <2>3, Zenon
  <2> QED BY <1>3, <2>2, <2>4
<1>5. After(all, m + 1) = (m + n) + 1
  BY <1>1, <1>3, <1>4, AfterLast
<1>6. After(es, 1) = n + 1
  BY <1>3, AfterLast
<1>7. SubSeq(all, (m + 1) + 1, After(all, m + 1) - 1) = SubSeq(es, 1 + 1, After(es, 1) - 1)
  <2>1. /\ (m + 1) + 1 = m + 2 /\ After(all, m + 1) - 1 = m + n
        /\ 1 + 1 = 2 /\ After(es, 1) - 1 = n
    BY <1>1, <1>5, <1>6
  <2> QED BY <1>2, <2>1
<1> QED BY <1>3, <1>7 DEF EntryComparable, all, m

\* Entry i stands for the block that it is marked with, as the diff compares them.
Stands(d, es, i) ==
  /\ es[i].bid # NoBid /\ Known(d, es[i].bid)
  /\ d[es[i].bid].type = es[i].type => BlockComparable(d, es[i].bid) = EntryComparable(es, i)

\* Parsers that can take a block, and those whose entries all stand for blocks.
Between == {ps \in ParsersOn(Nat) : ps.at \notin {"code", "math"}}
Sound(d) ==
  {ps \in Between : \A i \in DOMAIN ps.out : ps.out[i].level = 0 => Stands(d, ps.out, i)}

\* The entries es are block b: one with its marker and what is in it.
Answers(d, b, es) ==
  /\ es \in Seq(EntrySet) /\ es # << >>
  /\ es[1].level = 0 /\ es[1].bid = b
  /\ \A k \in 2 .. Len(es) : es[k].level > 0
  /\ d[b].type = es[1].type => BlockComparable(d, b) = EntryComparable(es, 1)

\* The entries are followed by those of block b.
FollowedBy(d, b, out, next) == \E es : Answers(d, b, es) /\ next = out \o es

\* An entry of the top level is marked b.
Has(ps, b) == \E i \in DOMAIN ps.out : ps.out[i].level = 0 /\ ps.out[i].bid = b

\* A parser that has read a block is sound if it was.
LEMMA Answered ==
  ASSUME NEW d, NEW b \in Nat \ {0}, Known(d, b), NEW ps \in Sound(d), NEW qs \in Between,
         FollowedBy(d, b, ps.out, qs.out)
  PROVE  qs \in Sound(d) /\ Holds(qs, ps) /\ Has(qs, b)
<1> PICK es : Answers(d, b, es) /\ qs.out = ps.out \o es
  BY DEF FollowedBy
<1> DEFINE out == ps.out
           m == Len(out)
           n == Len(es)
           all == out \o es
<1>1. out \in Seq(EntrySet) /\ es \in Seq(EntrySet) /\ es # << >> /\ es[1].level = 0 /\ es[1].bid = b
      /\ \A k \in 2 .. n : es[k].level > 0
  BY DEF Sound, Between, ParsersOn, EntrySet, Answers
<1>2. \A i \in DOMAIN out : out[i].level = 0 => Stands(d, out, i)
  BY DEF Sound
<1> HIDE DEF out
<1>3. /\ m \in Nat /\ n \in Nat \ {0} /\ Len(all) = m + n /\ DOMAIN all = 1 .. m + n
      /\ DOMAIN out = 1 .. m /\ \A i \in 1 .. m : all[i] = out[i]
      /\ \A k \in 1 .. n : all[m + k] = es[k]
  BY <1>1
<1>4. \A i \in DOMAIN out : out[i].level = 0 => EntryComparable(all, i) = EntryComparable(out, i)
  BY <1>1, ComparedAsBefore
<1>5. EntryComparable(all, m + 1) = EntryComparable(es, 1)
  BY <1>1, ComparedAlone
<1> HIDE DEF all, m, n
<1>6. all[m + 1] = es[1] /\ m + 1 \in DOMAIN all
  BY <1>3
<1>7. ASSUME NEW i \in DOMAIN all, all[i].level = 0 PROVE Stands(d, all, i)
  <2>1. CASE i <= m
    <3>1. i \in DOMAIN out /\ all[i] = out[i]
      BY <1>3, <2>1
    <3> QED BY <1>2, <1>4, <1>7, <3>1 DEF Stands
  <2>2. CASE i = m + 1
    BY <1>1, <1>5, <1>6, <2>2 DEF Stands, Answers, NoBid
  <2>3. CASE i > m + 1
    <3>1. i - m \in 2 .. n /\ i = m + (i - m)
      BY <1>3, <2>3
    <3>2. PICK k \in 2 .. n : i = m + k
      BY <3>1
    <3>3. k \in 1 .. n
      BY <1>3
    <3>4. all[m + k] = es[k]
      BY <1>3, <3>3, Zenon
    <3>5. es[k].level > 0
      BY <1>1
    <3> QED BY <1>7, <3>2, <3>4, <3>5
  <2> QED BY <1>3, <2>1, <2>2, <2>3
<1>8. qs.out = all
  BY DEF all, out
<1>9. qs \in Sound(d)
  BY <1>7, <1>8 DEF Sound
<1>10. Holds(qs, ps)
  <2>1. 1 .. m \subseteq 1 .. m + n
    BY <1>3
  <2> QED BY <1>3, <1>8, <2>1 DEF Holds, out
<1> QED BY <1>1, <1>6, <1>8, <1>9, <1>10 DEF Has

\* A single entry with the text and the style of the block.
LEMMA AnswersAlone ==
  ASSUME NEW d, NEW b, NEW e \in EntrySet, e.level = 0, e.bid = b,
         d[b].type = e.type => /\ e.type \notin Containers /\ e.text = d[b].text
                               /\ e.type \in StyleCompared => e.style = d[b].style
  PROVE  Answers(d, b, <<e>>)
<1>1. <<e>> \in Seq(EntrySet) /\ <<e>> # << >> /\ <<e>>[1] = e /\ Len(<<e>>) = 1
  OBVIOUS
<1>2. d[b].type = e.type => BlockComparable(d, b) = EntryComparable(<<e>>, 1)
  BY <1>1 DEF BlockComparable, EntryComparable
<1> QED BY <1>1, <1>2 DEF Answers

\* What a block is.
LEMMA BlockIs ==
  ASSUME NEW doc_ \in Docs, NEW b \in DOMAIN doc_
  PROVE  /\ b \in Nat /\ doc_[b].type \in BlockTypes /\ doc_[b].text \in Strings
         /\ doc_[b].style \in Styles /\ doc_[b].children \in Seq(DOMAIN doc_)
<1>1. doc_ \in [DOMAIN doc_ -> Blocks(DOMAIN doc_)] /\ DOMAIN doc_ \subseteq Nat
  BY DocsAssumption
<1> QED BY <1>1 DEF Blocks, Strings

\* A blank line ends a block.
LEMMA BlankReads ==
  ASSUME NEW ps \in Between
  PROVE  \E qs \in Between : Runs(ps, <<Blank>>, qs) /\ qs.out = ps.out
<1>1. ps \in ParsersOn(Nat) /\ Blank \in LinesOn(Nat)
  BY LineTypes DEF Between, NoBid
<1> DEFINE qs == ParseLine(ps, Blank)
<1>2. qs \in ParsersOn(Nat) /\ Runs(ps, <<Blank>>, qs)
  BY <1>1, RunsOne
<1>3. qs = [ps EXCEPT !.at = IF ps.at = "list" THEN "gap" ELSE "top"]
  <2>1. Blank.kind = "blank"
    BY DEF Blank, Line
  <2> QED BY <2>1 DEF ParseLine, TopLine, Between, PreserveOnly, ListTypes
<1> HIDE DEF qs
<1>4. qs.at \notin {"code", "math"} /\ qs.out = ps.out
  BY <1>1, <1>3 DEF ParsersOn
<1> QED BY <1>2, <1>4 DEF Between

\* A marker, whatever was before.
LEMMA MarkerReads ==
  ASSUME NEW ps \in Between, NEW b \in Nat
  PROVE  \E qs \in Between : /\ Runs(ps, <<Marker(b)>>, qs)
                             /\ qs.out = ps.out /\ qs.bid = b /\ qs.at = "top"
<1>1. ps \in ParsersOn(Nat) /\ Marker(b) \in LinesOn(Nat)
  BY LineTypes DEF Between, NoBid
<1> DEFINE qs == ParseLine(ps, Marker(b))
<1>2. qs \in ParsersOn(Nat) /\ Runs(ps, <<Marker(b)>>, qs)
  BY <1>1, RunsOne
<1>3. qs = [ps EXCEPT !.bid = b, !.at = "top"]
  <2>1. Marker(b).kind = "marker" /\ Marker(b).bid = b
    BY DEF Marker, Line
  <2> QED BY <2>1 DEF ParseLine, TopLine, Between, PreserveOnly, ListTypes
<1> HIDE DEF qs
<1>4. qs.at = "top" /\ qs.out = ps.out /\ qs.bid = b
  BY <1>1, <1>3 DEF ParsersOn
<1> QED BY <1>2, <1>4 DEF Between

\* An entry is at the top level at first; so is the first item of a list.
LEMMA TopEntry == \A b, ln, t : [Entry(b, ln, t) EXCEPT !.level = 0] = Entry(b, ln, t)
BY DEF Entry

\* What is appended to the empty list.
LEMMA FirstItem == Len(<< >>) = 0 /\ \A x : Append(<< >>, x) = <<x>>
OBVIOUS

\* The line of a block that has one.
LEMMA LineReads ==
  ASSUME NEW ps \in ParsersOn(Nat), ps.at = "top", NEW ln \in LinesOn(Nat),
         ln.kind \in {"para", "heading", "divider"} \cup PreserveOnly \cup ListTypes,
         ln.kind \in {"heading", "ordered"} => ln.text # ""
  PROVE  LET qs == ParseLine(ps, ln)
             e == Entry(ps.bid, ln, IF ln.kind = "para" THEN "text" ELSE ln.kind)
         IN /\ qs \in Between /\ Runs(ps, <<ln>>, qs)
            /\ e \in EntrySet /\ qs.out = ps.out \o <<e>>
            /\ ln.kind \in ListTypes => qs.at = "list" /\ qs.indents = <<ln.indent>>
<1> DEFINE qs == ParseLine(ps, ln)
           e == Entry(ps.bid, ln, IF ln.kind = "para" THEN "text" ELSE ln.kind)
<1>1. qs \in ParsersOn(Nat) /\ Runs(ps, <<ln>>, qs)
  BY RunsOne
<1>2. ps.out \in Seq(EntrySet) /\ ps.bid \in Nat /\ ps = [ps EXCEPT !.at = "top"]
  BY DEF ParsersOn, EntrySet
<1>3. e \in EntrySet /\ e.level = 0
  BY <1>2, EntryType DEF EntrySet, EntryTypes, NoBid, LinesOn, Entry
<1>4. Append(ps.out, e) = ps.out \o <<e>>
  BY <1>2, <1>3, AppendIsConcat
<1>5. qs = TopLine(ps, ln)
  BY DEF ParseLine
<1>6. CASE ln.kind \in ListTypes
  <2>1. qs = AddItem(ps, ln)
    BY <1>5, <1>6 DEF TopLine, ListTypes, PreserveOnly
  <2>2. e = Entry(ps.bid, ln, ln.kind)
    BY <1>6 DEF ListTypes
  <2>7. [Entry(ps.bid, ln, ln.kind) EXCEPT !.level = 0] = Entry(ps.bid, ln, ln.kind)
    BY TopEntry, Zenon
  <2> HIDE DEF e
  <2>3. [e EXCEPT !.level = 0] = e
    BY <2>2, <2>7
  <2>4. AddItem(ps, ln) =
          [Add(ps, [e EXCEPT !.level = 0]) EXCEPT !.at = "list", !.indents = <<ln.indent>>]
    BY <2>2, FirstItem DEF AddItem
  <2> HIDE DEF qs
  <2>5. qs = [Add(ps, e) EXCEPT !.at = "list", !.indents = <<ln.indent>>]
    BY <2>1, <2>3, <2>4
  <2>6. qs.out = Append(ps.out, e) /\ qs.at = "list" /\ qs.indents = <<ln.indent>>
    BY <2>5 DEF Add, ParsersOn
  <2> QED BY <1>1, <1>3, <1>4, <2>6 DEF Between, qs, e
<1>7. CASE ln.kind \notin ListTypes
  <2>1. qs = Add(ps, e) \/ qs = [Add(ps, e) EXCEPT !.err = ps.err \/ ps.bid = NoBid]
    BY <1>5, <1>7 DEF TopLine, ListTypes, PreserveOnly, Add
  <2> HIDE DEF qs, e
  <2>2. qs.out = Append(ps.out, e) /\ qs.at = "top"
    BY <2>1 DEF Add, ParsersOn
  <2> QED BY <1>1, <1>3, <1>4, <1>7, <2>2 DEF Between, qs, e
<1> QED BY <1>6, <1>7

\* The lines ls are read as block b.
ReadsAs(d, b, ps, ls) ==
  \E qs \in Between : \E es : Runs(ps, ls, qs) /\ Answers(d, b, es) /\ qs.out = ps.out \o es

\* A line without a style; four lines.
LEMMA PlainLine == \A k, t : [Line(k, t) EXCEPT !.style = NoStyle] = Line(k, t)
BY DEF Line

\* A block with a line of its own, and one that ends there.
LEMMA OneLineReads ==
  ASSUME NEW doc_ \in Docs, NEW b \in DOMAIN doc_, Readable(doc_, b),
         doc_[b].type \in {"text", "linkPreview", "board", "heading", "todo", "divider"} \cup PreserveOnly,
         NEW lines, NEW ps \in ParsersOn(Nat), ps.at = "top", ps.bid = b
  PROVE  ReadsAs(doc_, b, ps, BlockLines(doc_, lines, b, 0))
<1> DEFINE blk == doc_[b]
           all == BlockLines(doc_, lines, b, 0)
<1>1. b \in Nat /\ blk.type \in BlockTypes /\ blk.text \in Strings /\ blk.style \in Styles
  BY BlockIs
<1>2. Blank \in LinesOn(Nat) /\ NoBid \in Nat
  BY LineTypes DEF NoBid
<1>3. ASSUME NEW ln \in LinesOn(Nat),
             ln.kind \in {"para", "heading", "divider", "todo"} \cup PreserveOnly,
             ln.kind = "heading" => ln.text # "",
             ln.text = blk.text, blk.type \in StyleCompared => ln.style = blk.style,
             all = <<ln>> \/ all = <<ln, Blank>>
      PROVE  ReadsAs(doc_, b, ps, all)
  <2> DEFINE qs == ParseLine(ps, ln)
             t == IF ln.kind = "para" THEN "text" ELSE ln.kind
             e == Entry(ps.bid, ln, t)
  <2>1. qs \in Between /\ Runs(ps, <<ln>>, qs) /\ e \in EntrySet /\ qs.out = ps.out \o <<e>>
    BY <1>3, LineReads DEF ListTypes, PreserveOnly
  <2>2. e.level = 0 /\ e.bid = b /\ e.type = t /\ e.text = blk.text /\ e.style = ln.style
    BY <1>3 DEF Entry
  <2>3. t \notin Containers
    BY <1>3 DEF Containers, PreserveOnly, ListTypes
  <2> HIDE DEF qs, t, e, all
  <2>4. Answers(doc_, b, <<e>>)
    BY <1>3, <2>1, <2>2, <2>3, AnswersAlone
  <2>5. CASE all = <<ln>>
    BY <2>1, <2>4, <2>5 DEF ReadsAs
  <2>6. CASE all = <<ln, Blank>>
    <3>1. PICK rs \in Between : Runs(qs, <<Blank>>, rs) /\ rs.out = qs.out
      BY <2>1, BlankReads
    <3>2. <<ln>> \in Seq(LinesOn(Nat)) /\ <<Blank>> \in Seq(LinesOn(Nat))
          /\ <<ln, Blank>> = <<ln>> \o <<Blank>>
      BY <1>2
    <3>3. Runs(ps, all, rs)
      BY <2>1, <2>6, <3>1, <3>2, RunsOn
    <3> QED BY <2>1, <2>4, <3>1, <3>3 DEF ReadsAs
  <2> QED BY <1>3, <2>5, <2>6
<1>4. {"para", "heading", "divider", "todo"} \cup PreserveOnly \subseteq LineKinds
  BY DEF LineKinds, PreserveOnly, ListTypes
<1>5. CASE blk.type \in {"text", "linkPreview", "board"}
  <2> DEFINE ln == Line("para", blk.text)
  <2>1. all = <<Para(blk.text), Blank>> /\ blk.text # ""
    BY <1>5 DEF BlockLines, Readable
  <2>2. all = <<ln, Blank>>
    BY <2>1 DEF Para
  <2>3. ln \in LinesOn(Nat) /\ ln.kind = "para" /\ ln.text = blk.text
    BY <1>1, <1>2, <1>4, LineTypes DEF Line
  <2>4. blk.type \notin StyleCompared
    BY <1>5 DEF StyleCompared
  <2> HIDE DEF ln, all
  <2>5. /\ ln.kind \in {"para", "heading", "divider", "todo"} \cup PreserveOnly
        /\ ln.kind = "heading" => ln.text # ""
        /\ blk.type \in StyleCompared => ln.style = blk.style
    BY <2>3, <2>4
  <2> QED BY <1>3, <2>2, <2>3, <2>5, Zenon DEF all
<1>6. CASE blk.type \in {"heading", "divider"} \cup PreserveOnly
  <2> DEFINE ln == Line(blk.type, blk.text)
  <2>1. all = <<ln, Blank>>
    BY <1>6 DEF BlockLines, PreserveOnly
  <2>2. ln \in LinesOn(Nat) /\ ln.kind = blk.type /\ ln.text = blk.text
    BY <1>1, <1>2, <1>4, <1>6, LineTypes DEF Line
  <2>3. blk.type \notin StyleCompared
    BY <1>6 DEF StyleCompared, PreserveOnly
  <2>4. blk.type = "heading" => blk.text # ""
    BY DEF Readable
  <2> HIDE DEF ln, all
  <2>5. /\ ln.kind \in {"para", "heading", "divider", "todo"} \cup PreserveOnly
        /\ ln.kind = "heading" => ln.text # ""
        /\ blk.type \in StyleCompared => ln.style = blk.style
    BY <1>6, <2>2, <2>3, <2>4
  <2> QED BY <1>3, <2>1, <2>2, <2>5, Zenon DEF all
<1>7. CASE blk.type = "todo"
  <2> DEFINE ln == [Line("todo", blk.text) EXCEPT !.style = blk.style]
  <2>1. all = <<ln>>
    BY <1>7 DEF BlockLines
  <2>2. ln \in LinesOn(Nat) /\ ln.kind = "todo" /\ ln.text = blk.text /\ ln.style = blk.style
    BY <1>1, <1>2, <1>4, LineTypes DEF Line
  <2> HIDE DEF ln, all
  <2>3. /\ ln.kind \in {"para", "heading", "divider", "todo"} \cup PreserveOnly
        /\ ln.kind = "heading" => ln.text # ""
        /\ blk.type \in StyleCompared => ln.style = blk.style
    BY <2>2
  <2> QED BY <1>3, <2>1, <2>2, <2>3, Zenon DEF all
<1> QED BY <1>5, <1>6, <1>7

\* A code block, or an equation.
LEMMA CodeReads ==
  ASSUME NEW doc_ \in Docs, NEW b \in DOMAIN doc_, Readable(doc_, b),
         doc_[b].type \in {"code", "equation"},
         NEW lines, NEW ps \in ParsersOn(Nat), ps.at = "top", ps.bid = b
  PROVE  ReadsAs(doc_, b, ps, BlockLines(doc_, lines, b, 0))
<1> DEFINE blk == doc_[b]
           isCode == blk.type = "code"
           knd == IF isCode THEN "fence" ELSE "math"
           where == IF isCode THEN "code" ELSE "math"
           l1 == [Line(knd, "") EXCEPT !.style = IF isCode THEN blk.style ELSE NoStyle]
           l2 == Line("content", blk.text)
           l3 == Line(knd, "")
           all == BlockLines(doc_, lines, b, 0)
<1>1. b \in Nat /\ blk.text \in Strings /\ blk.style \in Styles /\ NoStyle \in Styles
  BY BlockIs, TextAssumption
<1>2. all = <<l1, l2, l3, Blank>>
  <2>1. CASE isCode
    BY <2>1 DEF BlockLines
  <2>2. CASE ~isCode
    <3>1. all = <<l3, l2, l3, Blank>>
      BY <2>2 DEF BlockLines
    <3>2. l1 = l3
      BY <2>2, PlainLine
    <3> QED BY <3>1, <3>2, Zenon
  <2> QED BY <2>1, <2>2
<1>3. /\ l1 \in LinesOn(Nat) /\ l2 \in LinesOn(Nat) /\ l3 \in LinesOn(Nat) /\ Blank \in LinesOn(Nat)
  <2>1. {"fence", "math", "content"} \subseteq LineKinds /\ "" \in Strings
    BY DEF LineKinds, Strings
  <2> QED BY <1>1, <2>1, LineTypes DEF NoBid
<1>4. /\ l1.kind = knd /\ l2.kind = "content" /\ l3.kind = knd /\ l2.text = blk.text
      /\ isCode => l1.style = blk.style
  BY DEF Line
<1> DEFINE e1 == Entry(b, l1, "code")
           e2 == [e1 EXCEPT !.text = blk.text]
           q1 == [Add(ps, e1) EXCEPT !.at = where]
           q2 == [q1 EXCEPT !.out = Append(ps.out, e2)]
           q3 == [q2 EXCEPT !.at = "top"]
<1>5. /\ ps.out \in Seq(EntrySet) /\ e1 \in EntrySet /\ e2 \in EntrySet /\ e2.text = blk.text
      /\ e2.level = 0 /\ e2.bid = b /\ e2.type = "code"
      /\ isCode => e2.style = blk.style
  <2> HIDE DEF l1
  <2>1. ps.out \in Seq(EntrySet) /\ "code" \in EntryTypes
    BY DEF ParsersOn, EntrySet, EntryTypes
  <2>2. e1 \in EntrySet
    BY <1>1, <1>3, <2>1, EntryType DEF EntrySet
  <2>3. e2 \in EntrySet
    BY <1>1, <2>2 DEF EntrySet, EntriesOn
  <2> QED BY <1>4, <2>1, <2>2, <2>3 DEF Entry
<1> HIDE DEF l1, l2, l3, e2
<1>6. ParseLine(ps, l1) = q1
  BY <1>4 DEF ParseLine, TopLine, PreserveOnly, ListTypes
<1> HIDE DEF e1
<1>7. ParseLine(q1, l2) = q2
  <2>1. /\ q1.at = where /\ q1.out = Append(ps.out, e1) /\ q1 \in ParsersOn(Nat)
    <3>1. q1 = ParseLine(ps, l1)
      BY <1>6
    <3>2. q1 \in ParsersOn(Nat)
      BY <1>3, <3>1, RunsOne
    <3>3. q1.at = where /\ q1.out = Append(ps.out, e1)
      BY DEF Add, ParsersOn
    <3> QED BY <3>2, <3>3
  <2> HIDE DEF q1
  <2>2. ParseLine(q1, l2) = AddContent(q1, l2)
    BY <1>4, <2>1 DEF ParseLine
  <2>3. [q1.out EXCEPT ![Len(q1.out)].text = blk.text] = Append(ps.out, e2)
    <3>1. /\ Len(q1.out) = Len(ps.out) + 1 /\ q1.out[Len(ps.out) + 1] = e1
          /\ DOMAIN q1.out = 1 .. Len(ps.out) + 1 /\ Len(ps.out) \in Nat
          /\ \A k \in 1 .. Len(ps.out) : q1.out[k] = ps.out[k]
      BY <1>5, <2>1
    <3>2. /\ DOMAIN Append(ps.out, e2) = 1 .. Len(ps.out) + 1 /\ Append(ps.out, e2)[Len(ps.out) + 1] = e2
          /\ \A k \in 1 .. Len(ps.out) : Append(ps.out, e2)[k] = ps.out[k]
          /\ Append(ps.out, e2) \in Seq(EntrySet)
      BY <1>5
    <3> DEFINE new == [q1.out EXCEPT ![Len(q1.out)].text = blk.text]
    <3>3. /\ new = [k \in 1 .. Len(ps.out) + 1 |-> IF k = Len(ps.out) + 1 THEN e2 ELSE ps.out[k]]
      <4>1. new = [k \in DOMAIN q1.out |-> IF k = Len(q1.out) THEN [q1.out[k] EXCEPT !.text = blk.text]
                                           ELSE q1.out[k]]
        OBVIOUS
      <4> HIDE DEF new
      <4>2. [q1.out[Len(ps.out) + 1] EXCEPT !.text = blk.text] = e2
        BY <3>1 DEF e2
      <4> QED BY <3>1, <4>1, <4>2
    <3> HIDE DEF new
    <3>4. Append(ps.out, e2) = [k \in 1 .. Len(ps.out) + 1 |-> Append(ps.out, e2)[k]]
      BY <3>2
    <3>5. \A k \in 1 .. Len(ps.out) + 1 : Append(ps.out, e2)[k] = new[k]
      BY <3>1, <3>2, <3>3
    <3> QED BY <3>3, <3>4, <3>5 DEF new
  <2>4. AddContent(q1, l2) = q2
    BY <1>4, <2>3 DEF AddContent
  <2> QED BY <2>2, <2>4
<1>8. ParseLine(q2, l3) = q3
  <2>1. /\ q2.at = where /\ q2.out = Append(ps.out, e2) /\ q2 = [q2 EXCEPT !.out = Append(ps.out, e2)]
    BY DEF Add, ParsersOn
  <2> HIDE DEF q2
  <2>2. CASE isCode
    <3>1. ParseLine(q2, l3) = CloseCode(q2)
      BY <1>4, <2>1, <2>2 DEF ParseLine
    <3>2. e2.text # ""
      BY <1>5, <2>2 DEF Readable
    <3>3. Last(Append(ps.out, e2)) = e2
      BY <1>5 DEF Last
    <3> QED BY <2>1, <3>1, <3>2, <3>3 DEF CloseCode
  <2>3. CASE ~isCode
    BY <1>4, <2>1, <2>3 DEF ParseLine
  <2> QED BY <2>2, <2>3
<1>9. q1 \in ParsersOn(Nat) /\ q2 \in ParsersOn(Nat) /\ q3 \in ParsersOn(Nat)
      /\ Runs(ps, <<l1>>, q1) /\ Runs(q1, <<l2>>, q2) /\ Runs(q2, <<l3>>, q3)
  <2> HIDE DEF q1, q2, q3
  <2>1. q1 \in ParsersOn(Nat) /\ Runs(ps, <<l1>>, q1)
    BY <1>3, <1>6, RunsOne
  <2>2. q2 \in ParsersOn(Nat) /\ Runs(q1, <<l2>>, q2)
    BY <1>3, <1>7, <2>1, RunsOne
  <2> QED BY <1>3, <1>8, <2>1, <2>2, RunsOne
<1>10. q3.at = "top" /\ q3.out = Append(ps.out, e2)
  BY DEF Add, ParsersOn
<1> HIDE DEF q1, q2, q3
<1>11. PICK q4 \in Between : Runs(q3, <<Blank>>, q4) /\ q4.out = q3.out
  BY <1>9, <1>10, BlankReads DEF Between
<1>12. Runs(ps, all, q4)
  <2>1. /\ <<l1>> \in Seq(LinesOn(Nat)) /\ <<l2>> \in Seq(LinesOn(Nat)) /\ <<l3>> \in Seq(LinesOn(Nat))
        /\ <<Blank>> \in Seq(LinesOn(Nat)) /\ <<l1>> \o <<l2>> \in Seq(LinesOn(Nat))
        /\ (<<l1>> \o <<l2>>) \o <<l3>> \in Seq(LinesOn(Nat))
    BY <1>3
  <2>2. ((<<l1>> \o <<l2>>) \o <<l3>>) \o <<Blank>> = <<l1, l2, l3, Blank>>
    BY <1>3, FourLines
  <2>3. Runs(ps, <<l1>> \o <<l2>>, q2)
    BY <1>9, <2>1, RunsOn
  <2>4. Runs(ps, (<<l1>> \o <<l2>>) \o <<l3>>, q3)
    BY <1>9, <2>1, <2>3, RunsOn
  <2>5. Runs(ps, ((<<l1>> \o <<l2>>) \o <<l3>>) \o <<Blank>>, q4)
    BY <1>11, <2>1, <2>4, RunsOn
  <2> QED BY <1>2, <2>2, <2>5
<1>13. Answers(doc_, b, <<e2>>)
  BY <1>5, AnswersAlone DEF Containers
<1>14. q4.out = ps.out \o <<e2>>
  BY <1>5, <1>10, <1>11, AppendIsConcat
<1> QED BY <1>12, <1>13, <1>14 DEF ReadsAs

\* The entry of a line of a quote, and those of several.
Kid(t) == [Entry(NoBid, Line("quote", t), "text") EXCEPT !.level = 1]
Quoted(ts) == [k \in DOMAIN ts |-> Kid(ts[k])]
Quotes(ts) == [k \in DOMAIN ts |-> Line("quote", ts[k])]

\* They are entries and lines.
LEMMA KidsType ==
  ASSUME NEW ts \in Seq(Strings)
  PROVE  /\ Quoted(ts) \in Seq(EntrySet) /\ Quotes(ts) \in Seq(LinesOn(Nat))
         /\ Len(Quoted(ts)) = Len(ts) /\ Len(Quotes(ts)) = Len(ts)
         /\ \A t \in Strings : /\ Kid(t) \in EntrySet /\ Kid(t).text = t /\ Kid(t).level = 1
                               /\ Line("quote", t) \in LinesOn(Nat)
<1>1. "quote" \in LineKinds /\ "text" \in EntryTypes /\ NoBid \in Nat
  BY DEF LineKinds, EntryTypes, NoBid
<1>2. ASSUME NEW t \in Strings
      PROVE  /\ Kid(t) \in EntrySet /\ Kid(t).text = t /\ Kid(t).level = 1
             /\ Line("quote", t) \in LinesOn(Nat)
  <2>1. Line("quote", t) \in LinesOn(Nat) /\ Line("quote", t).text = t
    BY <1>1, LineTypes DEF Line
  <2>2. Kid(t) \in EntrySet
    BY <1>1, <2>1, EntryType DEF Kid, EntrySet
  <2> QED BY <2>1, <2>2 DEF Kid, Entry
<1>3. \A k \in DOMAIN ts : ts[k] \in Strings
  OBVIOUS
<1>4. Quoted(ts) \in Seq(EntrySet) /\ Len(Quoted(ts)) = Len(ts)
  BY <1>2, <1>3 DEF Quoted
<1>5. Quotes(ts) \in Seq(LinesOn(Nat)) /\ Len(Quotes(ts)) = Len(ts)
  BY <1>2, <1>3 DEF Quotes
<1> QED BY <1>2, <1>4, <1>5

\* A text more.
LEMMA KidsMore ==
  ASSUME NEW ts \in Seq(Strings), NEW t \in Strings
  PROVE  /\ Quoted(ts \o <<t>>) = Quoted(ts) \o <<Kid(t)>>
         /\ Quotes(ts \o <<t>>) = Quotes(ts) \o <<Line("quote", t)>>
<1> DEFINE n == Len(ts)
           all == ts \o <<t>>
<1>1. /\ n \in Nat /\ all \in Seq(Strings) /\ Len(all) = n + 1
      /\ all[n + 1] = t /\ \A k \in 1 .. n : all[k] = ts[k]
      /\ DOMAIN ts = 1 .. n /\ DOMAIN all = 1 .. n + 1
  OBVIOUS
<1> HIDE DEF all, n
<1>2. Quoted(all) = Quoted(ts) \o <<Kid(t)>>
  <2> DEFINE s == Quoted(ts) \o <<Kid(t)>>
  <2>1. /\ Quoted(ts) \in Seq(EntrySet) /\ Kid(t) \in EntrySet /\ Len(Quoted(ts)) = n
        /\ Quoted(all) \in Seq(EntrySet) /\ Len(Quoted(all)) = n + 1
    BY <1>1, KidsType DEF n
  <2>2. s \in Seq(EntrySet) /\ Len(s) = n + 1 /\ s[n + 1] = Kid(t)
        /\ \A k \in 1 .. n : s[k] = Quoted(ts)[k]
    BY <2>1
  <2> HIDE DEF s
  <2>3. \A k \in 1 .. n : Quoted(ts)[k] = Kid(ts[k])
    BY <1>1 DEF Quoted
  <2>4. \A k \in 1 .. n + 1 : Quoted(all)[k] = Kid(all[k])
    BY <1>1 DEF Quoted
  <2>5. ASSUME NEW k \in 1 .. n + 1 PROVE Quoted(all)[k] = s[k]
    <3>1. CASE k \in 1 .. n
      BY <1>1, <2>2, <2>3, <2>4, <3>1
    <3>2. CASE k = n + 1
      BY <1>1, <2>2, <2>4, <3>2
    <3> QED BY <1>1, <3>1, <3>2
  <2>6. Quoted(all) = s
    BY <2>1, <2>2, <2>5, SeqEqual
  <2> QED BY <2>6 DEF s
<1>3. Quotes(all) = Quotes(ts) \o <<Line("quote", t)>>
  <2> DEFINE s == Quotes(ts) \o <<Line("quote", t)>>
  <2>1. /\ Quotes(ts) \in Seq(LinesOn(Nat)) /\ Line("quote", t) \in LinesOn(Nat) /\ Len(Quotes(ts)) = n
        /\ Quotes(all) \in Seq(LinesOn(Nat)) /\ Len(Quotes(all)) = n + 1
    BY <1>1, KidsType DEF n
  <2>2. s \in Seq(LinesOn(Nat)) /\ Len(s) = n + 1 /\ s[n + 1] = Line("quote", t)
        /\ \A k \in 1 .. n : s[k] = Quotes(ts)[k]
    BY <2>1
  <2> HIDE DEF s
  <2>3. \A k \in 1 .. n : Quotes(ts)[k] = Line("quote", ts[k])
    BY <1>1 DEF Quotes
  <2>4. \A k \in 1 .. n + 1 : Quotes(all)[k] = Line("quote", all[k])
    BY <1>1 DEF Quotes
  <2>5. ASSUME NEW k \in 1 .. n + 1 PROVE Quotes(all)[k] = s[k]
    <3>1. CASE k \in 1 .. n
      BY <1>1, <2>2, <2>3, <2>4, <3>1
    <3>2. CASE k = n + 1
      BY <1>1, <2>2, <2>4, <3>2
    <3> QED BY <1>1, <3>1, <3>2
  <2>6. Quotes(all) = s
    BY <2>1, <2>2, <2>5, SeqEqual
  <2> QED BY <2>6 DEF s
<1> QED BY <1>2, <1>3 DEF all

\* The parser when it has opened a quote.
Opened(ps) == [Add(ps, Entry(ps.bid, Line("quote", ""), "quoteContainer")) EXCEPT !.at = "quote"]

\* A line of a quote that is open, and one that opens it.
LEMMA QuoteLine ==
  ASSUME NEW ps \in ParsersOn(Nat), NEW qs \in ParsersOn(Nat), qs.at = "quote", NEW t \in Strings,
         \/ ps = qs
         \/ /\ ps.at = "top"
            /\ qs = Opened(ps)
  PROVE  LET rs == ParseLine(ps, Line("quote", t))
         IN /\ rs \in ParsersOn(Nat) /\ Runs(ps, <<Line("quote", t)>>, rs)
            /\ rs.at = "quote" /\ rs.out = qs.out \o <<Kid(t)>>
<1> DEFINE ln == Line("quote", t)
           rs == ParseLine(ps, ln)
<1>1. ln \in LinesOn(Nat) /\ Kid(t) \in EntrySet
  <2>1. << >> \in Seq(Strings)
    OBVIOUS
  <2> QED BY <2>1, KidsType
<1>2. rs \in ParsersOn(Nat) /\ Runs(ps, <<ln>>, rs)
  BY <1>1, RunsOne
<1>3. rs = AddQuote(ps, ln)
  <2>1. ln.kind = "quote"
    BY DEF Line
  <2> QED BY <2>1 DEF ParseLine, TopLine, PreserveOnly, ListTypes
<1>4. rs = [qs EXCEPT !.out = Append(qs.out, Kid(t)), !.at = "quote"]
  <2> DEFINE add(p) == [p EXCEPT !.out = Append(@, Kid(t)), !.at = "quote"]
             new == Add(ps, Entry(ps.bid, Line("quote", ""), "quoteContainer"))
  <2>1. AddQuote(ps, ln) = add(IF ps.at = "quote" THEN ps ELSE new)
    BY DEF AddQuote, Kid
  <2> HIDE DEF new
  <2>2. CASE ps = qs
    BY <1>3, <2>1, <2>2
  <2>3. CASE ps # qs
    <3>1. AddQuote(ps, ln) = add(new) /\ qs = [new EXCEPT !.at = "quote"]
      BY <2>1, <2>3 DEF Opened, new
    <3>2. new.out = qs.out
      BY <2>3 DEF Opened, new, Add, ParsersOn
    <3>3. add(new) = [qs EXCEPT !.out = Append(new.out, Kid(t)), !.at = "quote"]
      BY <3>1
    <3> QED BY <1>3, <3>1, <3>2, <3>3
  <2> QED BY <2>2, <2>3
<1> HIDE DEF rs
<1>5. rs.at = "quote" /\ rs.out = Append(qs.out, Kid(t))
  BY <1>4 DEF ParsersOn
<1>6. qs.out \in Seq(EntrySet)
  BY DEF ParsersOn, EntrySet
<1>7. Append(qs.out, Kid(t)) = qs.out \o <<Kid(t)>>
  BY <1>1, <1>6, AppendIsConcat
<1> QED BY <1>2, <1>5, <1>7 DEF rs

\* The lines of a quote: the first may open it.
LEMMA QuotesRead ==
  ASSUME NEW ts \in Seq(Strings), NEW ps \in ParsersOn(Nat), NEW qs \in ParsersOn(Nat), qs.at = "quote",
         \/ ps = qs
         \/ /\ ts # << >> /\ ps.at = "top"
            /\ qs = Opened(ps)
  PROVE  \E rs \in ParsersOn(Nat) :
           Runs(ps, Quotes(ts), rs) /\ rs.at = "quote" /\ rs.out = qs.out \o Quoted(ts)
<1> DEFINE n == Len(ts)
           upto(k) == SubSeq(ts, 1, k)
           ReadTo(s) == \E rs \in ParsersOn(Nat) :
                        Runs(ps, Quotes(s), rs) /\ rs.at = "quote" /\ rs.out = qs.out \o Quoted(s)
           S == {k \in Nat : k <= n => k = 0 \/ ReadTo(upto(k))}
<1>1. n \in Nat /\ DOMAIN ts = 1 .. n
  OBVIOUS
<1>2. qs.out \in Seq(EntrySet)
  BY DEF ParsersOn, EntrySet
<1>3. Quoted(<< >>) = << >> /\ Quotes(<< >>) = << >>
  BY DEF Quoted, Quotes
<1>4. 0 \in S
  OBVIOUS
<1>5. ASSUME NEW k \in Nat, k \in S PROVE k + 1 \in S
  <2> SUFFICES ASSUME k + 1 <= n PROVE ReadTo(upto(k + 1))
    <3> HIDE DEF ReadTo, upto
    <3> QED OBVIOUS
  <2> DEFINE t == ts[k + 1]
             ln == Line("quote", t)
  <2>1. k + 1 \in DOMAIN ts /\ t \in Strings
    BY <1>1
  <2>2. upto(k + 1) = upto(k) \o <<t>> /\ upto(k) \in Seq(Strings)
    BY <1>1, <2>1
  <2>3. k = 0 => upto(k) = << >>
    OBVIOUS
  <2>4. ts # << >>
    BY <2>1
  <2> HIDE DEF upto, t
  <2>5. /\ Quoted(upto(k + 1)) = Quoted(upto(k)) \o <<Kid(t)>>
        /\ Quotes(upto(k + 1)) = Quotes(upto(k)) \o <<ln>>
    BY <2>1, <2>2, KidsMore
  <2>6. /\ Quoted(upto(k)) \in Seq(EntrySet) /\ Quotes(upto(k)) \in Seq(LinesOn(Nat))
        /\ Kid(t) \in EntrySet /\ ln \in LinesOn(Nat)
    BY <2>1, <2>2, KidsType
  <2> HIDE DEF ln
  <2>7. CASE k = 0
    <3>1. PICK rs \in ParsersOn(Nat) :
            Runs(ps, <<ln>>, rs) /\ rs.at = "quote" /\ rs.out = qs.out \o <<Kid(t)>>
      BY <2>1, <2>4, QuoteLine DEF ln
    <3>2. Quoted(upto(k)) = << >> /\ Quotes(upto(k)) = << >>
      BY <1>3, <2>3, <2>7
    <3>3. Quoted(upto(k + 1)) = <<Kid(t)>> /\ Quotes(upto(k + 1)) = <<ln>>
      BY <2>5, <2>6, <3>2
    <3> QED BY <3>1, <3>3
  <2>8. CASE k # 0
    <3>1. PICK rs \in ParsersOn(Nat) :
            Runs(ps, Quotes(upto(k)), rs) /\ rs.at = "quote" /\ rs.out = qs.out \o Quoted(upto(k))
      BY <1>1, <1>5, <2>8
    <3>2. PICK os \in ParsersOn(Nat) :
            Runs(rs, <<ln>>, os) /\ os.at = "quote" /\ os.out = rs.out \o <<Kid(t)>>
      BY <2>1, <3>1, QuoteLine DEF ln
    <3>3. Runs(ps, Quotes(upto(k)) \o <<ln>>, os)
      <4>1. <<ln>> \in Seq(LinesOn(Nat))
        BY <2>6
      <4> QED BY <2>6, <3>1, <3>2, <4>1, RunsOn
    <3>4. os.out = qs.out \o (Quoted(upto(k)) \o <<Kid(t)>>)
      <4>1. <<Kid(t)>> \in Seq(EntrySet)
        BY <2>6
      <4>2. (qs.out \o Quoted(upto(k))) \o <<Kid(t)>> = qs.out \o (Quoted(upto(k)) \o <<Kid(t)>>)
        <5> DEFINE a == qs.out
                   c == Quoted(upto(k))
                   d == <<Kid(t)>>
        <5>1. a \in Seq(EntrySet) /\ c \in Seq(EntrySet) /\ d \in Seq(EntrySet)
          BY <1>2, <2>6, <4>1
        <5> HIDE DEF a, c, d
        <5>2. (a \o c) \o d = a \o (c \o d)
          BY <5>1, ConcatAssociative
        <5> QED BY <5>2 DEF a, c, d
      <4> QED BY <3>1, <3>2, <4>2
    <3> QED BY <2>5, <3>2, <3>3, <3>4
  <2> QED BY <2>7, <2>8
<1> HIDE DEF S, ReadTo
<1>6. n \in S
  BY <1>1, <1>4, <1>5, SetInduction
<1>7. upto(n) = ts
  OBVIOUS
<1>8. CASE n = 0
  <2>1. ts = << >>
    BY <1>1, <1>8
  <2>2. ps = qs /\ Runs(ps, << >>, ps)
    BY <2>1, RunsOne
  <2>3. qs.out \o << >> = qs.out
    BY <1>2, ConcatEmptySeq
  <2> QED BY <1>3, <2>1, <2>2, <2>3
<1>9. CASE n # 0
  <2> HIDE DEF n, upto
  <2>1. ReadTo(ts)
    BY <1>1, <1>6, <1>7, <1>9 DEF S
  <2> QED BY <2>1 DEF ReadTo
<1> QED BY <1>8, <1>9

\* An entry and the lines of a quote below it.
LEMMA AnswersKids ==
  ASSUME NEW d, NEW b, NEW ts \in Seq(Strings), NEW e \in EntrySet, e.level = 0, e.bid = b,
         d[b].type = e.type => e.type \in Containers /\ ts = ContentOf(d, b)
  PROVE  Answers(d, b, <<e>> \o Quoted(ts))
<1> DEFINE n == Len(ts)
           kids == Quoted(ts)
           es == <<e>> \o kids
<1>1. /\ n \in Nat /\ DOMAIN ts = 1 .. n /\ kids \in Seq(EntrySet) /\ Len(kids) = n
      /\ \A k \in 1 .. n : kids[k] = Kid(ts[k]) /\ kids[k].level = 1 /\ kids[k].text = ts[k]
  <2>1. /\ kids \in Seq(EntrySet) /\ Len(kids) = n
        /\ \A t \in Strings : Kid(t).text = t /\ Kid(t).level = 1
    BY KidsType
  <2>2. n \in Nat /\ DOMAIN ts = 1 .. n /\ \A k \in 1 .. n : ts[k] \in Strings
    OBVIOUS
  <2>3. \A k \in 1 .. n : kids[k] = Kid(ts[k])
    BY <2>2 DEF Quoted
  <2> HIDE DEF kids, n
  <2> QED BY <2>1, <2>2, <2>3
<1> HIDE DEF kids, n
<1>2. /\ es \in Seq(EntrySet) /\ es # << >> /\ Len(es) = n + 1 /\ es[1] = e
      /\ \A k \in 1 .. n : es[k + 1] = kids[k]
  BY <1>1
<1> HIDE DEF es
<1>3. ASSUME NEW k \in 2 .. Len(es) PROVE es[k].level > 0
  <2>1. k - 1 \in 1 .. n /\ k = (k - 1) + 1
    BY <1>1, <1>2
  <2>2. PICK j \in 1 .. n : k = j + 1
    BY <2>1
  <2>3. es[j + 1] = kids[j] /\ kids[j].level = 1
    BY <1>1, <1>2
  <2> QED BY <2>2, <2>3
<1>4. ASSUME d[b].type = e.type PROVE BlockComparable(d, b) = EntryComparable(es, 1)
  <2>1. After(es, 1) = (n + 1) + 1
    <3>1. 1 \in DOMAIN es /\ 1 + 1 = 2
      BY <1>1, <1>2
    <3> QED BY <1>2, <1>3, <3>1, AfterLast
  <2>2. SubSeq(es, 1 + 1, After(es, 1) - 1) = kids
    <3>1. After(es, 1) - 1 = n + 1 /\ 1 + 1 = 2
      BY <1>1, <2>1
    <3>2. SubSeq(es, 2, n + 1) = kids
      <4> DEFINE s == SubSeq(es, 2, n + 1)
      <4>1. s \in Seq(EntrySet) /\ Len(s) = n /\ \A k \in 1 .. n : s[k] = es[k + 1]
        BY <1>1, <1>2
      <4> HIDE DEF s
      <4>2. s = kids
        BY <1>1, <1>2, <4>1, SeqEqual
      <4> QED BY <4>2 DEF s
    <3> QED BY <3>1, <3>2
  <2>3. [k \in DOMAIN kids |-> kids[k].text] = ts
    <3>1. DOMAIN kids = 1 .. n
      BY <1>1
    <3>2. ts = [k \in 1 .. n |-> ts[k]]
      BY <1>1
    <3> QED BY <1>1, <3>1, <3>2
  <2>4. EntryComparable(es, 1) = [text |-> Joined(ts), style |-> NoStyle]
    BY <1>2, <1>4, <2>2, <2>3 DEF EntryComparable
  <2>5. BlockComparable(d, b) = [text |-> Joined(ContentOf(d, b)), style |-> NoStyle]
    BY <1>4 DEF BlockComparable
  <2> QED BY <1>4, <2>4, <2>5
<1> QED BY <1>2, <1>3, <1>4 DEF Answers, es, kids

\* A quote that is open, or that the first of the texts opens.
Opens(ps, qs, ts) == ps = qs \/ (ts # << >> /\ ps.at = "top" /\ qs = Opened(ps))

\* The entry e of b was read last, and the texts ts are to be below it.
Begun(d, b, ts, qs, out, e) ==
  /\ qs.at = "quote" /\ qs.out = out \o <<e>>
  /\ e.level = 0 /\ e.bid = b
  /\ d[b].type = e.type => e.type \in Containers /\ ts = ContentOf(d, b)

\* The lines ls are read as block b after the entries out.
ReadsTo(d, b, ps, ls, out) ==
  \E qs \in Between : \E es : Runs(ps, ls, qs) /\ Answers(d, b, es) /\ qs.out = out \o es

\* The lines of a quote and the blank line that ends it.
LEMMA KidsRead ==
  ASSUME NEW d, NEW b, NEW ts \in Seq(Strings), NEW ps \in ParsersOn(Nat), NEW qs \in ParsersOn(Nat),
         Opens(ps, qs, ts), NEW out \in Seq(EntrySet), NEW e \in EntrySet, Begun(d, b, ts, qs, out, e)
  PROVE  ReadsTo(d, b, ps, Append(Quotes(ts), Blank), out)
<1>1. PICK rs \in ParsersOn(Nat) :
        Runs(ps, Quotes(ts), rs) /\ rs.at = "quote" /\ rs.out = qs.out \o Quoted(ts)
  BY QuotesRead DEF Opens, Begun
<1>2. PICK os \in Between : Runs(rs, <<Blank>>, os) /\ os.out = rs.out
  BY <1>1, BlankReads DEF Between
<1>3. Quotes(ts) \in Seq(LinesOn(Nat)) /\ Blank \in LinesOn(Nat) /\ <<Blank>> \in Seq(LinesOn(Nat))
      /\ Quoted(ts) \in Seq(EntrySet) /\ <<e>> \in Seq(EntrySet)
  <2>1. Blank \in LinesOn(Nat)
    BY LineTypes DEF NoBid
  <2>2. Quotes(ts) \in Seq(LinesOn(Nat)) /\ Quoted(ts) \in Seq(EntrySet)
    BY KidsType
  <2> QED BY <2>1, <2>2
<1>4. Append(Quotes(ts), Blank) = Quotes(ts) \o <<Blank>>
  BY <1>3, AppendIsConcat
<1>5. Runs(ps, Append(Quotes(ts), Blank), os)
  BY <1>1, <1>2, <1>3, <1>4, RunsOn
<1>6. os.out = out \o (<<e>> \o Quoted(ts))
  <2>1. (out \o <<e>>) \o Quoted(ts) = out \o (<<e>> \o Quoted(ts))
    <3> DEFINE a == <<e>>
               c == Quoted(ts)
    <3>1. a \in Seq(EntrySet) /\ c \in Seq(EntrySet)
      BY <1>3
    <3> HIDE DEF a, c
    <3>2. (out \o a) \o c = out \o (a \o c)
      BY <3>1, ConcatAssociative
    <3> QED BY <3>2 DEF a, c
  <2> QED BY <1>1, <1>2, <2>1 DEF Begun
<1>7. Answers(d, b, <<e>> \o Quoted(ts))
  BY AnswersKids DEF Begun
<1> QED BY <1>5, <1>6, <1>7 DEF ReadsTo

\* A quote, which is read as a container, and a container.
LEMMA QuoteReads ==
  ASSUME NEW doc_ \in Docs, NEW b \in DOMAIN doc_, Readable(doc_, b),
         doc_[b].type \in {"quote", "quoteContainer"},
         NEW lines, NEW ps \in ParsersOn(Nat), ps.at = "top", ps.bid = b
  PROVE  ReadsAs(doc_, b, ps, BlockLines(doc_, lines, b, 0))
<1> DEFINE t == doc_[b].text
           ts == IF doc_[b].type = "quote" THEN <<t>> ELSE ContentOf(doc_, b)
           ln == Line("quote", "")
           e == Entry(b, ln, "quoteContainer")
           qs == Opened(ps)
           all == BlockLines(doc_, lines, b, 0)
<1>1. b \in Nat /\ t \in Strings /\ doc_ \in [DOMAIN doc_ -> Blocks(DOMAIN doc_)]
  BY BlockIs, DocsAssumption
<1>2. ts \in Seq(Strings) /\ ts # << >>
  <2>1. ContentOf(doc_, b) \in Seq(Strings)
    BY <1>1, ContentType
  <2>2. <<t>> \in Seq(Strings) /\ <<t>> # << >>
    BY <1>1
  <2> HIDE DEF t
  <2> QED BY <2>1, <2>2 DEF Readable
<1>3. all = Append(Quotes(ts), Blank)
  <2>1. CASE doc_[b].type = "quote"
    <3>1. all = <<Line("quote", t), Blank>>
      BY <2>1 DEF BlockLines
    <3>2. Quotes(<<t>>) = <<Line("quote", t)>>
      BY <1>1 DEF Quotes
    <3>3. Append(<<Line("quote", t)>>, Blank) = <<Line("quote", t), Blank>>
      <4> DEFINE x == Line("quote", t)
      <4>1. x \in LinesOn(Nat) /\ Blank \in LinesOn(Nat)
        BY <1>1, LineTypes DEF NoBid, LineKinds
      <4> HIDE DEF x
      <4>2. /\ <<x>> \in Seq(LinesOn(Nat)) /\ <<Blank>> \in Seq(LinesOn(Nat))
            /\ <<x, Blank>> = <<x>> \o <<Blank>>
        BY <4>1
      <4> QED BY <4>1, <4>2, AppendIsConcat DEF x
    <3> QED BY <2>1, <3>1, <3>2, <3>3
  <2>2. CASE doc_[b].type = "quoteContainer"
    BY <2>2 DEF BlockLines, Quotes
  <2> QED BY <2>1, <2>2
<1>4. ln \in LinesOn(Nat) /\ e \in EntrySet /\ e.level = 0 /\ e.bid = b /\ e.type = "quoteContainer"
  <2>1. ln \in LinesOn(Nat)
    BY LineTypes DEF NoBid, LineKinds, Strings
  <2>2. "quoteContainer" \in EntryTypes
    BY DEF EntryTypes
  <2>3. e \in EntrySet
    BY <1>1, <2>1, <2>2, EntryType DEF EntrySet
  <2> QED BY <2>1, <2>3 DEF Entry
<1>5. ps.out \in Seq(EntrySet)
  BY DEF ParsersOn, EntrySet
<1>6. qs \in ParsersOn(Nat) /\ qs.at = "quote" /\ qs.out = ps.out \o <<e>>
  <2>1. qs = [Add(ps, e) EXCEPT !.at = "quote"]
    BY DEF Opened
  <2> HIDE DEF qs, e
  <2>2. Append(ps.out, e) \in Seq(EntrySet) /\ Append(ps.out, e) = ps.out \o <<e>>
    BY <1>4, <1>5, AppendIsConcat, AppendProperties
  <2>3. qs = [ps EXCEPT !.out = Append(ps.out, e), !.bid = NoBid, !.at = "quote"]
    BY <2>1 DEF Add, ParsersOn
  <2>4. NoBid \in Nat /\ "quote" \in Contexts
    BY DEF NoBid, Contexts
  <2> QED BY <2>2, <2>3, <2>4 DEF ParsersOn, EntrySet
<1>7. Begun(doc_, b, ts, qs, ps.out, e)
  BY <1>4, <1>6 DEF Containers, Begun
<1> HIDE DEF ts, e, qs, all
<1>8. ReadsTo(doc_, b, ps, Append(Quotes(ts), Blank), ps.out)
  <2>1. Opens(ps, qs, ts)
    BY <1>2 DEF qs, Opens
  <2> QED BY <1>2, <1>4, <1>5, <1>6, <1>7, <2>1, KidsRead
<1> QED BY <1>3, <1>8 DEF ReadsAs, ReadsTo, all

\* A callout.
LEMMA CalloutReads ==
  ASSUME NEW doc_ \in Docs, NEW b \in DOMAIN doc_, doc_[b].type = "callout",
         NEW lines, NEW ps \in ParsersOn(Nat), ps.at = "top", ps.bid = b
  PROVE  ReadsAs(doc_, b, ps, BlockLines(doc_, lines, b, 0))
<1> DEFINE ts == ContentOf(doc_, b)
           ln == [Line("callout", "") EXCEPT !.style = doc_[b].style]
           e == Entry(b, ln, "callout")
           qs == ParseLine(ps, ln)
           rest == Append(Quotes(ts), Blank)
           all == BlockLines(doc_, lines, b, 0)
<1>1. b \in Nat /\ doc_[b].style \in Styles /\ doc_ \in [DOMAIN doc_ -> Blocks(DOMAIN doc_)]
  BY BlockIs, DocsAssumption
<1>2. ts \in Seq(Strings)
  BY <1>1, ContentType
<1>3. all = <<ln>> \o rest
  BY DEF BlockLines, Quotes
<1>4. ln \in LinesOn(Nat) /\ ln.kind = "callout" /\ Blank \in LinesOn(Nat)
  <2>1. "callout" \in LineKinds /\ "" \in Strings
    BY DEF LineKinds, Strings
  <2> QED BY <1>1, <2>1, LineTypes DEF NoBid, Line
<1> HIDE DEF ln
<1>5. e \in EntrySet /\ e.level = 0 /\ e.bid = b /\ e.type = "callout"
  <2>1. "callout" \in EntryTypes
    BY DEF EntryTypes, LineKinds
  <2>2. e \in EntrySet
    BY <1>1, <1>4, <2>1, EntryType DEF EntrySet
  <2> QED BY <2>2 DEF Entry
<1>6. ps.out \in Seq(EntrySet)
  BY DEF ParsersOn, EntrySet
<1>7. qs \in ParsersOn(Nat) /\ Runs(ps, <<ln>>, qs)
  BY <1>4, RunsOne
<1>8. qs = [Add(ps, e) EXCEPT !.at = "quote"]
  BY <1>4 DEF ParseLine, TopLine, AddCallout, PreserveOnly, ListTypes
<1> HIDE DEF qs, e
<1>9. qs.at = "quote" /\ qs.out = ps.out \o <<e>>
  <2>1. qs.at = "quote" /\ qs.out = Append(ps.out, e)
    BY <1>8 DEF Add, ParsersOn
  <2> QED BY <1>5, <1>6, <2>1, AppendIsConcat
<1>10. Begun(doc_, b, ts, qs, ps.out, e) /\ Opens(qs, qs, ts)
  BY <1>5, <1>9 DEF Containers, Begun, Opens
<1> HIDE DEF ts, all
<1>11. PICK os \in Between : \E es : Runs(qs, rest, os) /\ Answers(doc_, b, es) /\ os.out = ps.out \o es
  <2>1. ReadsTo(doc_, b, qs, rest, ps.out)
    BY <1>2, <1>5, <1>6, <1>7, <1>10, KidsRead
  <2> QED BY <2>1 DEF ReadsTo
<1>12. rest \in Seq(LinesOn(Nat)) /\ <<ln>> \in Seq(LinesOn(Nat))
  <2>1. Quotes(ts) \in Seq(LinesOn(Nat))
    BY <1>2, KidsType
  <2> QED BY <1>4, <2>1
<1> HIDE DEF rest
<1>13. Runs(ps, <<ln>> \o rest, os)
  BY <1>7, <1>11, <1>12, RunsOn
<1> QED BY <1>3, <1>11, <1>13 DEF ReadsAs, all

\* A block whose own text is compared, and what is below it.
LEMMA AnswersBelow ==
  ASSUME NEW d, NEW b, NEW e \in EntrySet, e.level = 0, e.bid = b,
         e.type \notin Containers, e.text = d[b].text, e.type \in StyleCompared => e.style = d[b].style,
         NEW es \in Seq(EntrySet), \A k \in DOMAIN es : es[k].level > 0
  PROVE  Answers(d, b, <<e>> \o es)
<1> DEFINE n == Len(es)
           all == <<e>> \o es
<1>1. n \in Nat /\ DOMAIN es = 1 .. n
  OBVIOUS
<1>2. all \in Seq(EntrySet) /\ all # << >> /\ Len(all) = n + 1 /\ all[1] = e
      /\ \A k \in 1 .. n : all[k + 1] = es[k]
  BY <1>1
<1> HIDE DEF all, n
<1>3. ASSUME NEW k \in 2 .. Len(all) PROVE all[k].level > 0
  <2>1. k - 1 \in 1 .. n /\ k = (k - 1) + 1
    BY <1>1, <1>2
  <2>2. PICK j \in 1 .. n : k = j + 1
    BY <2>1
  <2>3. all[j + 1] = es[j] /\ es[j].level > 0
    BY <1>1, <1>2
  <2> QED BY <2>2, <2>3
<1>4. d[b].type = e.type => BlockComparable(d, b) = EntryComparable(all, 1)
  BY <1>2 DEF BlockComparable, EntryComparable
<1> QED BY <1>2, <1>3, <1>4 DEF Answers, all

\* The lines of what is in a list.
ItemLines == {ln \in LinesOn(Nat) : /\ ln.kind \in {"bullet", "ordered"} /\ ln.indent > 0
                                    /\ ln.kind = "ordered" => ln.text # ""}

\* The line of an item.
Item(blk, d) == [Line(blk.type, blk.text) EXCEPT !.indent = d, !.style = blk.style]

\* It is one.
LEMMA ItemType ==
  ASSUME NEW doc_ \in Docs, NEW b \in DOMAIN doc_, doc_[b].type \in {"bullet", "ordered"}, NEW d \in Nat
  PROVE  LET ln == Item(doc_[b], d)
         IN /\ ln \in LinesOn(Nat) /\ ln.kind = doc_[b].type /\ ln.text = doc_[b].text
            /\ ln.style = doc_[b].style /\ ln.indent = d
<1>1. doc_[b].text \in Strings /\ doc_[b].style \in Styles /\ {"bullet", "ordered"} \subseteq LineKinds
      /\ NoBid \in Nat /\ NoStyle \in Styles
  BY BlockIs, TextAssumption DEF LineKinds, ListTypes, NoBid
<1> QED BY <1>1 DEF Item, Line, LinesOn

\* In a list there are only items.
LEMMA ItemsBelow ==
  ASSUME NEW doc_ \in Docs, RoundTrips(doc_)
  PROVE  \A b \in DOMAIN doc_, d \in Nat \ {0} :
           doc_[b].type \in {"bullet", "ordered"} => Rendered(doc_)[b][d] \in Seq(ItemLines)
<1> DEFINE m == Max(DOMAIN doc_)
           lines == Rendered(doc_)
           S == {b \in 0 .. m : doc_[b].type \in {"bullet", "ordered"} =>
                                  \A d \in Nat \ {0} : lines[b][d] \in Seq(ItemLines)}
<1>1. /\ m \in Nat /\ DOMAIN doc_ = 0 .. m
      /\ \A x \in 0 .. m : \A c \in ToSet(doc_[x].children) : x < c
  BY DocsAssumption
<1> HIDE DEF m
<1>2. \A b \in 0 .. m, d \in Nat : lines[b][d] = Render(doc_, lines, b, d)
  BY <1>1, RenderedIs
<1> HIDE DEF lines
<1>3. ASSUME NEW b \in 0 .. m, \A c \in 0 .. m : b < c => c \in S PROVE b \in S
  <2> SUFFICES ASSUME doc_[b].type \in {"bullet", "ordered"}, NEW d \in Nat \ {0}
               PROVE  lines[b][d] \in Seq(ItemLines)
    OBVIOUS
  <2> DEFINE bs == doc_[b].children
             ln == Item(doc_[b], d)
             ss == [k \in DOMAIN bs |-> lines[bs[k]][d + 1]]
  <2>1. d \in Nat /\ d # 0 /\ d + 1 \in Nat \ {0} /\ d > 0
    OBVIOUS
  <2>2. bs \in Seq(0 .. m) /\ DOMAIN bs = 1 .. Len(bs) /\ Len(bs) \in Nat
    BY <1>1, BlockIs
  <2>3. ASSUME NEW k \in DOMAIN bs PROVE ss[k] \in Seq(ItemLines)
    <3>1. bs[k] \in ToSet(bs) /\ bs[k] \in 0 .. m
      <4> HIDE DEF bs, ss
      <4>1. k \in DOMAIN bs
        OBVIOUS
      <4>2. bs[k] \in ToSet(bs)
        BY <4>1 DEF ToSet
      <4>3. k \in 1 .. Len(bs)
        BY <2>2, <4>1
      <4>4. bs[k] \in 0 .. m
        BY <2>2, <4>3, ElementOfSeq, Zenon
      <4> QED BY <4>2, <4>4
    <3>2. b < bs[k] /\ doc_[bs[k]].type \in {"bullet", "ordered"}
      BY <1>1, <3>1 DEF RoundTrips
    <3> QED BY <1>3, <2>1, <3>1, <3>2
  <2> HIDE DEF bs
  <2>4. ss \in Seq(Seq(ItemLines))
    BY <2>2, <2>3
  <2>5. LinesOf(lines, bs, d + 1) = FlattenSeq(ss)
    BY DEF LinesOf
  <2> HIDE DEF ss
  <2>6. LinesOf(lines, bs, d + 1) \in Seq(ItemLines)
    BY <2>4, <2>5, Flattened
  <2>7. ln \in ItemLines
    <3>0. b \in DOMAIN doc_ /\ doc_[b].type \in {"bullet", "ordered"} /\ d \in Nat
      BY <1>1, <2>1
    <3>1. ln \in LinesOn(Nat) /\ ln.kind = doc_[b].type /\ ln.text = doc_[b].text /\ ln.indent = d
      BY ONLY doc_ \in Docs, <3>0, ItemType DEF ln
    <3> HIDE DEF ln
    <3>2. /\ ln.kind \in {"bullet", "ordered"} /\ ln.indent > 0
          /\ ln.kind = "ordered" => ln.text # ""
      BY <2>1, <3>0, <3>1 DEF RoundTrips
    <3> QED BY <3>1, <3>2 DEF ItemLines
  <2>8. lines[b][d] = << >> \o (<<ln>> \o LinesOf(lines, bs, d + 1))
    BY <1>2, <2>1, Zenon DEF Render, BlockLines, Item, bs
  <2> HIDE DEF ln
  <2> QED BY <2>6, <2>7, <2>8
<1> HIDE DEF S
<1>4. 0 .. m \subseteq S
  BY <1>1, <1>3, Downward
<1> QED BY <1>1, <1>4 DEF S, lines

\* A parser in a list that began with the entries before, and more of its items.
Listing(from) ==
  {ps \in Between :
     /\ ps.at = "list" /\ ps.indents # << >> /\ ps.indents[1] = 0
     /\ \E es \in Seq(EntrySet) : ps.out = from \o es /\ \A k \in DOMAIN es : es[k].level > 0}

\* Another item leaves the parser in the list.
LEMMA ItemReads ==
  ASSUME NEW from \in Seq(EntrySet), NEW ps \in Listing(from), NEW ln \in ItemLines
  PROVE  ParseLine(ps, ln) \in Listing(from)
<1> DEFINE less == {k \in DOMAIN ps.indents : ps.indents[k] < ln.indent}
           open == SubSeq(ps.indents, 1, Max(less))
           e == [Entry(NoBid, ln, ln.kind) EXCEPT !.level = Len(open)]
           qs == ParseLine(ps, ln)
<1>1. /\ ps \in ParsersOn(Nat) /\ ps.at = "list" /\ ps.indents # << >> /\ ps.indents[1] = 0
      /\ ps.indents \in Seq(Nat) /\ ps.out \in Seq(EntrySet)
      /\ ln \in LinesOn(Nat) /\ ln.kind \in {"bullet", "ordered"} /\ ln.indent > 0 /\ ln.indent \in Nat
  BY DEF Listing, Between, ItemLines, LinesOn, ParsersOn, EntrySet
<1>2. PICK es \in Seq(EntrySet) : ps.out = from \o es /\ \A k \in DOMAIN es : es[k].level > 0
  BY DEF Listing
<1>3. /\ 1 \in less /\ less \subseteq 1 .. Len(ps.indents) /\ Len(ps.indents) \in Nat
  BY <1>1
<1>4. Max(less) \in 1 .. Len(ps.indents)
  <2> HIDE DEF less
  <2> QED BY <1>3, MaxOf
<1> HIDE DEF less
<1>5. open \in Seq(Nat) /\ Len(open) = Max(less) /\ Len(open) > 0 /\ Len(open) \in Nat /\ open[1] = 0
  <2> DEFINE n == Max(less)
  <2> HIDE DEF n
  <2>1. n \in 1 .. Len(ps.indents) /\ \A k \in 1 .. n : ps.indents[k] \in Nat
    BY <1>1, <1>4 DEF n
  <2>2. SubSeq(ps.indents, 1, n) \in Seq(Nat) /\ Len(SubSeq(ps.indents, 1, n)) = n
        /\ SubSeq(ps.indents, 1, n)[1] = ps.indents[1]
    BY <1>1, <2>1
  <2>3. n > 0 /\ n \in Nat
    BY <1>3, <2>1
  <2> QED BY <1>1, <2>2, <2>3 DEF n
<1>6. qs = [Add(ps, e) EXCEPT !.at = "list", !.indents = Append(open, ln.indent)]
  <2>1. qs = AddItem(ps, ln)
    BY <1>1 DEF ParseLine, TopLine, PreserveOnly, ListTypes, ItemLines
  <2>2. less # {}
    BY <1>3
  <2> HIDE DEF qs
  <2>3. AddItem(ps, ln) =
          [Add(ps, [Entry(NoBid, ln, ln.kind) EXCEPT !.level = Len(open)])
             EXCEPT !.at = "list", !.indents = Append(open, ln.indent)]
    BY <1>1, <2>2 DEF AddItem, less
  <2> QED BY <2>1, <2>3
<1>7. qs \in ParsersOn(Nat)
  BY <1>1, RunsOne
<1>8. e \in EntrySet /\ e.level > 0
  <2>1. ln.kind \in EntryTypes /\ NoBid \in Nat
    BY <1>1 DEF EntryTypes, LineKinds, ListTypes, NoBid
  <2> HIDE DEF open
  <2>2. e \in EntrySet
    BY <1>1, <1>5, <2>1, EntryType DEF EntrySet
  <2> QED BY <1>5, <2>2 DEF Entry
<1> HIDE DEF qs, e, open
<1>9. qs.at = "list" /\ qs.indents = Append(open, ln.indent) /\ qs.out = Append(ps.out, e)
  BY <1>6 DEF Add, ParsersOn
<1>10. qs.indents # << >> /\ qs.indents[1] = 0
  BY <1>1, <1>5, <1>9
<1>11. qs.out = from \o Append(es, e) /\ Append(es, e) \in Seq(EntrySet)
  <2>1. Append(ps.out, e) = ps.out \o <<e>> /\ Append(es, e) = es \o <<e>> /\ Append(es, e) \in Seq(EntrySet)
        /\ <<e>> \in Seq(EntrySet)
    BY <1>1, <1>8, AppendIsConcat, AppendProperties
  <2> DEFINE w == <<e>>
  <2> HIDE DEF w
  <2>2. w \in Seq(EntrySet)
    BY <2>1 DEF w
  <2>3. (from \o es) \o w = from \o (es \o w)
    BY <2>2, ConcatAssociative
  <2> QED BY <1>2, <1>9, <2>1, <2>3 DEF w
<1>12. \A k \in DOMAIN Append(es, e) : Append(es, e)[k].level > 0
  BY <1>2, <1>8
<1>13. qs \in Listing(from)
  BY <1>7, <1>9, <1>10, <1>11, <1>12 DEF Listing, Between
<1> QED BY <1>13 DEF qs

\* A list.
LEMMA ListReads ==
  ASSUME NEW doc_ \in Docs, RoundTrips(doc_), NEW b \in DOMAIN doc_, doc_[b].type \in {"bullet", "ordered"},
         NEW ps \in ParsersOn(Nat), ps.at = "top", ps.bid = b
  PROVE  ReadsAs(doc_, b, ps, BlockLines(doc_, Rendered(doc_), b, 0))
<1> DEFINE lines == Rendered(doc_)
           bs == doc_[b].children
           ln == Item(doc_[b], 0)
           ss == [k \in DOMAIN bs |-> lines[bs[k]][1]]
           rest == LinesOf(lines, bs, 1)
           all == BlockLines(doc_, lines, b, 0)
           q0 == ParseLine(ps, ln)
           e == Entry(b, ln, ln.kind)
           from == ps.out \o <<e>>
<1>0. ItemLines \subseteq LinesOn(Nat)
  BY DEF ItemLines
<1>1. all = <<ln>> \o rest
  <2>1. all = <<ln>> \o LinesOf(lines, bs, 0 + 1)
    <3> HIDE DEF lines
    <3> QED BY Zenon DEF BlockLines, Item
  <2> QED BY <2>1
<1>2. \A c \in DOMAIN doc_ : doc_[c].type \in {"bullet", "ordered"} => lines[c][1] \in Seq(ItemLines)
  BY ItemsBelow
<1> HIDE DEF lines
<1>3. rest \in Seq(ItemLines)
  <2>1. bs \in Seq(DOMAIN doc_) /\ DOMAIN bs = 1 .. Len(bs) /\ Len(bs) \in Nat
    BY BlockIs
  <2>2. ASSUME NEW k \in DOMAIN bs PROVE ss[k] \in Seq(ItemLines)
    <3>1. bs[k] \in ToSet(bs) /\ bs[k] \in DOMAIN doc_
      BY <2>1 DEF ToSet
    <3>2. doc_[bs[k]].type \in {"bullet", "ordered"}
      BY <3>1 DEF RoundTrips
    <3> QED BY <1>2, <3>1, <3>2
  <2>3. rest = FlattenSeq(ss)
    BY DEF LinesOf
  <2> HIDE DEF bs, rest
  <2>4. ss \in Seq(Seq(ItemLines))
    BY <2>1, <2>2
  <2> HIDE DEF ss
  <2> QED BY <2>3, <2>4, Flattened
<1>4. /\ ln \in LinesOn(Nat) /\ ln.kind = doc_[b].type /\ ln.text = doc_[b].text
      /\ ln.style = doc_[b].style /\ ln.indent = 0
  BY ItemType
<1> HIDE DEF ln, rest, all
<1>5. /\ q0 \in Between /\ Runs(ps, <<ln>>, q0) /\ e \in EntrySet /\ q0.out = from
      /\ q0.at = "list" /\ q0.indents = <<0>>
  <2>1. /\ ln.kind \in {"para", "heading", "divider"} \cup PreserveOnly \cup ListTypes
        /\ ln.kind \in {"heading", "ordered"} => ln.text # ""
        /\ ln.kind \in ListTypes /\ ln.kind # "para"
    BY <1>4 DEF ListTypes, RoundTrips
  <2> QED BY <1>4, <2>1, LineReads
<1>6. ps.out \in Seq(EntrySet) /\ from \in Seq(EntrySet)
  <2>1. ps.out \in Seq(EntrySet) /\ q0.out \in Seq(EntrySet)
    BY <1>5 DEF Between, ParsersOn, EntrySet
  <2> HIDE DEF q0, e
  <2> QED BY <1>5, <2>1
<1>7. e.level = 0 /\ e.bid = b /\ e.type = doc_[b].type /\ e.text = doc_[b].text /\ e.style = doc_[b].style
  BY <1>4 DEF Entry
<1> HIDE DEF q0, e
<1>8. q0 \in Listing(from)
  <2>1. from \o << >> = from /\ << >> \in Seq(EntrySet) /\ DOMAIN << >> = {}
    BY <1>6, ConcatEmptySeq
  <2>2. <<0>> # << >> /\ <<0>>[1] = 0
    OBVIOUS
  <2> HIDE DEF from
  <2> QED BY <1>5, <2>1, <2>2 DEF Listing
<1> HIDE DEF from
<1>9. PICK qs \in Listing(from) : Runs(q0, rest, qs)
  <2>1. rest \in Seq(LinesOn(Nat)) /\ \A k \in DOMAIN rest : rest[k] \in ItemLines
    BY <1>3, <1>0
  <2>2. \A p \in Listing(from), k \in DOMAIN rest : ParseLine(p, rest[k]) \in Listing(from)
    BY <1>6, <2>1, ItemReads
  <2>3. Listing(from) \in SUBSET ParsersOn(Nat)
    BY DEF Listing, Between
  <2> QED BY <1>8, <2>1, <2>2, <2>3, RunsThrough
<1>10. PICK es \in Seq(EntrySet) : qs.out = from \o es /\ \A k \in DOMAIN es : es[k].level > 0
  BY <1>9 DEF Listing
<1>11. Runs(ps, all, qs)
  <2>1. rest \in Seq(LinesOn(Nat)) /\ <<ln>> \in Seq(LinesOn(Nat))
    BY <1>0, <1>3, <1>4
  <2> QED BY <1>1, <1>5, <1>9, <2>1, RunsOn
<1>12. Answers(doc_, b, <<e>> \o es)
  <2>1. e.type \notin Containers
    BY <1>7 DEF Containers
  <2> QED BY <1>5, <1>7, <1>10, <2>1, AnswersBelow
<1>13. qs.out = ps.out \o (<<e>> \o es)
  <2> DEFINE a == ps.out
             w == <<e>>
  <2>1. a \in Seq(EntrySet) /\ w \in Seq(EntrySet)
    BY <1>5, <1>6
  <2> HIDE DEF a, w
  <2>2. (a \o w) \o es = a \o (w \o es)
    BY <2>1, ConcatAssociative
  <2> QED BY <1>10, <2>2 DEF a, w, from
<1>14. qs \in Between
  BY <1>9 DEF Listing
<1> QED BY <1>11, <1>12, <1>13, <1>14 DEF ReadsAs, all, lines

\* A block that has lines of its own.
LEMMA BlockReads ==
  ASSUME NEW doc_ \in Docs, RoundTrips(doc_), NEW b \in DOMAIN doc_, Readable(doc_, b),
         NEW ps \in ParsersOn(Nat), ps.at = "top", ps.bid = b
  PROVE  ReadsAs(doc_, b, ps, BlockLines(doc_, Rendered(doc_), b, 0))
<1> DEFINE t == doc_[b].type
<1>1. t \in BlockTypes /\ t \notin Transparent
  BY BlockIs DEF Readable
<1>2. CASE t \in {"text", "linkPreview", "board", "heading", "todo", "divider"} \cup PreserveOnly
  BY <1>2, OneLineReads
<1>3. CASE t \in {"code", "equation"}
  BY <1>3, CodeReads
<1>4. CASE t \in {"quote", "quoteContainer"}
  BY <1>4, QuoteReads
<1>5. CASE t = "callout"
  BY <1>5, CalloutReads
<1>6. CASE t \in {"bullet", "ordered"}
  BY <1>6, ListReads
<1> HIDE DEF t
<1>7. \/ t \in {"text", "linkPreview", "board", "heading", "todo", "divider"} \cup PreserveOnly
      \/ t \in {"code", "equation"} \/ t \in {"quote", "quoteContainer"} \/ t = "callout"
      \/ t \in {"bullet", "ordered"}
  BY <1>1 DEF BlockTypes, Transparent, ListTypes, Containers, PreserveOnly
<1> QED BY <1>2, <1>3, <1>4, <1>5, <1>6, <1>7

\* It stays.
LEMMA HasKept ==
  ASSUME NEW ps, NEW qs, NEW b, Has(ps, b), Holds(qs, ps)
  PROVE  Has(qs, b)
BY DEF Has, Holds

\* A block with its marker.
LEMMA MarkedReads ==
  ASSUME NEW doc_ \in Docs, RoundTrips(doc_), NEW b \in DOMAIN doc_, Readable(doc_, b), Known(doc_, b),
         b # NoBid, NEW ps \in Sound(doc_)
  PROVE  \E qs \in Sound(doc_) : Runs(ps, Rendered(doc_)[b][0], qs) /\ Holds(qs, ps) /\ Has(qs, b)
<1> DEFINE ls == BlockLines(doc_, Rendered(doc_), b, 0)
           all == Rendered(doc_)[b][0]
<1>1. b \in Nat \ {0}
  BY BlockIs DEF NoBid
<1>2. all = <<Marker(b)>> \o ls
  <2>1. 0 \in Nat
    OBVIOUS
  <2> QED BY <2>1, RenderedIs DEF Render
<1>3. all \in Seq(LinesOn(Nat))
  <2>1. DOMAIN doc_ \subseteq Nat /\ NoBid \in Nat /\ 0 \in {0, 1} /\ 0 \in Nat /\ 0 <= 0
    BY DocsAssumption DEF NoBid
  <2> QED BY <2>1, RenderedType
<1>4. PICK q1 \in Between : /\ Runs(ps, <<Marker(b)>>, q1)
                            /\ q1.out = ps.out /\ q1.bid = b /\ q1.at = "top"
  BY <1>1, MarkerReads DEF Sound
<1>5. ReadsAs(doc_, b, q1, ls)
  BY <1>4, BlockReads DEF Between
<1>6. ls \in Seq(LinesOn(Nat)) /\ <<Marker(b)>> \in Seq(LinesOn(Nat))
  <2>1. Marker(b) \in LinesOn(Nat)
    BY <1>1, LineTypes DEF NoBid
  <2>2. DOMAIN doc_ \subseteq Nat /\ NoBid \in Nat /\ 0 \in {0, 1}
    BY DocsAssumption DEF NoBid
  <2>3. ASSUME NEW c \in DOMAIN doc_, NEW d \in Nat PROVE Rendered(doc_)[c][d] \in Seq(LinesOn(Nat))
    <3>1. 0 \in Nat /\ 0 <= d
      OBVIOUS
    <3> QED BY <2>2, <3>1, RenderedType
  <2>4. ls \in Seq(LinesOn(Nat))
    <3>1. /\ DOMAIN doc_ \in SUBSET Nat /\ doc_ \in [DOMAIN doc_ -> Blocks(DOMAIN doc_)]
          /\ \A x \in DOMAIN doc_ : \A c \in ToSet(doc_[x].children) : x < c
          /\ 0 \in Nat /\ 0 + 1 \in Nat
      BY DocsAssumption
    <3>2. Passes(doc_, b) = {}
      BY DEF Passes, Readable
    <3>3. \A c \in DOMAIN doc_ : Rendered(doc_)[c][0 + 1] \in Seq(LinesOn(Nat))
      BY <2>3
    <3>4. \A c \in Passes(doc_, b) : b < c => Rendered(doc_)[c][0] \in Seq(LinesOn(Nat))
      BY <3>2
    <3> QED BY <2>2, <3>1, <3>3, <3>4, BlockLinesType
  <2> QED BY <2>1, <2>4
<1> HIDE DEF ls, all
<1>7. PICK qs \in Between : \E es : Runs(q1, ls, qs) /\ Answers(doc_, b, es) /\ qs.out = ps.out \o es
  BY <1>4, <1>5 DEF ReadsAs
<1>8. PICK es : Runs(q1, ls, qs) /\ Answers(doc_, b, es) /\ qs.out = ps.out \o es
  BY <1>7
<1>9. Runs(ps, all, qs)
  BY <1>2, <1>4, <1>6, <1>8, RunsOn
<1>10. qs \in Sound(doc_) /\ Holds(qs, ps) /\ Has(qs, b)
  <2>1. FollowedBy(doc_, b, ps.out, qs.out)
    BY <1>8, Zenon DEF FollowedBy
  <2> QED BY <1>1, <2>1, Answered
<1> QED BY <1>9, <1>10 DEF all

\* An entry of the top level is marked with b, or with a block in the view b.
Shown(d, b) == {ps \in ParsersOn(Nat) : \E c : Has(ps, c) /\ (c = b \/ Wraps(d, b, c))}

\* A view of blocks with lines of their own.
LEMMA ViewReads ==
  ASSUME NEW doc_ \in Docs, RoundTrips(doc_), NEW b \in ToSet(doc_[Page].children),
         doc_[b].type = "view", doc_[b].children # << >>,
         \A c \in ToSet(doc_[b].children) : Readable(doc_, c), NEW ps \in Sound(doc_)
  PROVE  \E qs \in Sound(doc_) : Runs(ps, Rendered(doc_)[b][0], qs) /\ Holds(qs, ps) /\ qs \in Shown(doc_, b)
<1> DEFINE ids == DOMAIN doc_
           lines == Rendered(doc_)
           bs == doc_[b].children
           ss == [k \in DOMAIN bs |-> lines[bs[k]][0]]
           H == [k \in DOMAIN bs |-> {qs \in Sound(doc_) : Has(qs, bs[k])}]
<1>1. ids \subseteq Nat /\ \A x \in ids : \A c \in ToSet(doc_[x].children) : x < c
  BY DocsAssumption
<1>2. Page \in ids /\ b \in ids /\ ToSet(bs) \subseteq ids
  BY TopsAre
<1>3. bs \in Seq(ids) /\ DOMAIN bs = 1 .. Len(bs) /\ Len(bs) \in Nat /\ b \in Nat
  BY <1>2, BlockIs
<1>4. lines[b][0] = <<Marker(b)>> \o FlattenSeq(ss)
  <2>1. 0 \in Nat
    BY Z3
  <2>2. lines[b][0] = <<Marker(b)>> \o LinesOf(lines, bs, 0)
    BY <1>2, <2>1, RenderedIs, Zenon DEF Render, BlockLines
  <2> QED BY <2>2 DEF LinesOf
<1>5. \A c \in ids : lines[c][0] \in Seq(LinesOn(Nat))
  <2>1. NoBid \in Nat /\ 0 \in {0, 1} /\ 0 \in Nat /\ 0 <= 0
    BY DEF NoBid
  <2> QED BY <1>1, <2>1, RenderedType
<1>6. ASSUME NEW k \in DOMAIN bs
      PROVE  /\ bs[k] \in ids /\ bs[k] \in ToSet(bs) /\ Readable(doc_, bs[k])
             /\ bs[k] # NoBid /\ Known(doc_, bs[k]) /\ Wraps(doc_, b, bs[k])
  <2>1. bs[k] \in ToSet(bs) /\ bs[k] \in ids
    <3>1. bs[k] \in ToSet(bs)
      BY DEF ToSet
    <3> QED BY <1>2, <3>1
  <2>2. bs[k] # NoBid
    <3>1. b < bs[k] /\ bs[k] \in Nat
      BY <1>1, <1>2, <2>1
    <3> QED BY <1>3, <3>1 DEF NoBid
  <2>3. Wraps(doc_, b, bs[k])
    BY <2>1 DEF Wraps
  <2> QED BY <1>2, <2>1, <2>2, <2>3 DEF Known
<1>7. PICK q1 \in Between : /\ Runs(ps, <<Marker(b)>>, q1)
                            /\ q1.out = ps.out /\ q1.bid = b /\ q1.at = "top"
  BY <1>3, MarkerReads DEF Sound
<1>8. q1 \in Sound(doc_)
  BY <1>7 DEF Sound
<1>9. ASSUME NEW k \in DOMAIN ss, NEW p \in Sound(doc_)
      PROVE  \E qs \in Sound(doc_) : qs \in H[k] /\ Runs(p, ss[k], qs) /\ Holds(qs, p)
  <2>1. k \in DOMAIN bs /\ ss[k] = lines[bs[k]][0]
    OBVIOUS
  <2>2. PICK qs \in Sound(doc_) : Runs(p, lines[bs[k]][0], qs) /\ Holds(qs, p) /\ Has(qs, bs[k])
    BY <1>6, <2>1, MarkedReads
  <2>3. qs \in H[k]
    BY <2>1, <2>2
  <2> HIDE DEF ss, H
  <2> QED BY <2>1, <2>2, <2>3
<1>10. ASSUME NEW k \in DOMAIN ss, NEW p \in Sound(doc_), NEW q \in Sound(doc_), p \in H[k], Holds(q, p)
       PROVE  q \in H[k]
  <2>1. k \in DOMAIN bs /\ H[k] = {qs \in Sound(doc_) : Has(qs, bs[k])}
    OBVIOUS
  <2> HIDE DEF H
  <2>2. Has(p, bs[k])
    BY <1>10, <2>1
  <2>3. Has(q, bs[k])
    BY <1>10, <2>2, HasKept
  <2> QED BY <2>1, <2>3
<1>11. ss \in Seq(Seq(LinesOn(Nat))) /\ DOMAIN ss = DOMAIN bs
  <2>1. \A k \in DOMAIN bs : lines[bs[k]][0] \in Seq(LinesOn(Nat))
    BY <1>5, <1>6
  <2> HIDE DEF lines
  <2> QED BY <1>3, <2>1
<1>12. 1 \in DOMAIN bs
  BY <1>3
<1>13. Sound(doc_) \in SUBSET ParsersOn(Nat)
  BY DEF Sound, Between
<1> HIDE DEF ss, lines
<1>14. PICK qs \in Sound(doc_) : /\ Runs(q1, FlattenSeq(ss), qs) /\ Holds(qs, q1)
                                 /\ \A k \in DOMAIN ss : qs \in H[k]
  <2> HIDE DEF H
  <2> QED BY <1>8, <1>9, <1>10, <1>11, <1>13, RunsAlong
<1>15. Has(qs, bs[1])
  BY <1>11, <1>12, <1>14
<1>16. qs \in Shown(doc_, b)
  BY <1>6, <1>12, <1>13, <1>15 DEF Shown
<1>17. Runs(ps, lines[b][0], qs)
  <2>1. FlattenSeq(ss) \in Seq(LinesOn(Nat))
    BY <1>11, Flattened
  <2>2. Marker(b) \in LinesOn(Nat)
    BY <1>3, LineTypes DEF NoBid
  <2>3. <<Marker(b)>> \in Seq(LinesOn(Nat))
    BY <2>2
  <2> QED BY <1>4, <1>7, <1>14, <2>1, <2>3, RunsOn
<1>18. Holds(qs, ps)
  BY <1>7, <1>14 DEF Holds
<1> QED BY <1>16, <1>17, <1>18 DEF lines

\* The whole page: every entry of the top level stands for its block, and every
\* block of the page is shown.
LEMMA ExportReads ==
  ASSUME NEW doc_ \in Docs, RoundTrips(doc_)
  PROVE  /\ Parse(Export(doc_)) \in Sound(doc_)
         /\ \A b \in ToSet(doc_[Page].children) : Parse(Export(doc_)) \in Shown(doc_, b)
<1> DEFINE ids == DOMAIN doc_
           lines == Rendered(doc_)
           bs == doc_[Page].children
           ss == [k \in DOMAIN bs |-> lines[bs[k]][0]]
           H == [k \in DOMAIN bs |-> Shown(doc_, bs[k])]
<1>1. ids \subseteq Nat /\ \A x \in ids : \A c \in ToSet(doc_[x].children) : x < c
  BY DocsAssumption
<1>2. Page \in ids /\ ToSet(bs) \subseteq ids
  BY TopsAre
<1>3. bs \in Seq(ids) /\ DOMAIN bs = 1 .. Len(bs) /\ Len(bs) \in Nat
  BY <1>2, BlockIs
<1>4. Export(doc_) = FlattenSeq(ss)
  BY DEF Export, LinesOf
<1>5. \A c \in ids : lines[c][0] \in Seq(LinesOn(Nat))
  <2>1. NoBid \in Nat /\ 0 \in {0, 1} /\ 0 \in Nat /\ 0 <= 0
    BY DEF NoBid
  <2> QED BY <1>1, <2>1, RenderedType
<1>6. ASSUME NEW k \in DOMAIN bs PROVE bs[k] \in ids /\ bs[k] \in ToSet(bs)
  <2>1. bs[k] \in ToSet(bs)
    BY DEF ToSet
  <2> QED BY <1>2, <2>1
<1>7. ParserInit \in Sound(doc_)
  <2>1. ParserInit.out = << >> /\ ParserInit.at = "top" /\ DOMAIN << >> = {}
    BY DEF ParserInit
  <2>2. ParserInit \in ParsersOn(Nat)
    BY DEF ParserInit, ParsersOn, NoBid, Contexts
  <2> QED BY <2>1, <2>2 DEF Sound, Between
<1>8. ASSUME NEW b \in ToSet(bs), NEW p \in Sound(doc_)
      PROVE  \E qs \in Sound(doc_) : Runs(p, lines[b][0], qs) /\ Holds(qs, p) /\ qs \in Shown(doc_, b)
  <2>1. CASE Readable(doc_, b)
    <3>1. b \in ids /\ b # NoBid /\ Known(doc_, b)
      <4>1. Page < b
        BY <1>1, <1>2
      <4> QED BY <1>2, <4>1 DEF Known, Page, NoBid
    <3>2. PICK qs \in Sound(doc_) : Runs(p, lines[b][0], qs) /\ Holds(qs, p) /\ Has(qs, b)
      BY <2>1, <3>1, MarkedReads
    <3>3. qs \in Shown(doc_, b)
      BY <3>2 DEF Shown, Sound, Between
    <3> QED BY <3>2, <3>3
  <2>2. CASE ~Readable(doc_, b)
    <3>1. /\ doc_[b].type = "view" /\ doc_[b].children # << >>
          /\ \A c \in ToSet(doc_[b].children) : Readable(doc_, c)
      BY <2>2 DEF RoundTrips
    <3> QED BY <3>1, ViewReads
  <2> QED BY <2>1, <2>2
<1>9. ASSUME NEW k \in DOMAIN ss, NEW p \in Sound(doc_)
      PROVE  \E qs \in Sound(doc_) : qs \in H[k] /\ Runs(p, ss[k], qs) /\ Holds(qs, p)
  <2>1. k \in DOMAIN bs /\ ss[k] = lines[bs[k]][0] /\ H[k] = Shown(doc_, bs[k])
    OBVIOUS
  <2> HIDE DEF ss, H
  <2> QED BY <1>6, <1>8, <2>1
<1>10. ASSUME NEW k \in DOMAIN ss, NEW p \in Sound(doc_), NEW q \in Sound(doc_), p \in H[k], Holds(q, p)
       PROVE  q \in H[k]
  <2>1. k \in DOMAIN bs /\ H[k] = Shown(doc_, bs[k])
    OBVIOUS
  <2> HIDE DEF H
  <2>2. PICK c : Has(p, c) /\ (c = bs[k] \/ Wraps(doc_, bs[k], c))
    BY <1>10, <2>1 DEF Shown
  <2>3. Has(q, c)
    BY <1>10, <2>2, HasKept
  <2> QED BY <2>1, <2>2, <2>3 DEF Shown, Sound, Between
<1>11. ss \in Seq(Seq(LinesOn(Nat))) /\ DOMAIN ss = DOMAIN bs
  <2>1. \A k \in DOMAIN bs : lines[bs[k]][0] \in Seq(LinesOn(Nat))
    BY <1>5, <1>6
  <2> HIDE DEF lines
  <2> QED BY <1>3, <2>1
<1>12. Sound(doc_) \in SUBSET ParsersOn(Nat)
  BY DEF Sound, Between
<1> HIDE DEF ss, lines
<1>13. PICK qs \in Sound(doc_) : /\ Runs(ParserInit, FlattenSeq(ss), qs)
                                 /\ \A k \in DOMAIN ss : qs \in H[k]
  <2> HIDE DEF H
  <2> QED BY <1>7, <1>9, <1>10, <1>11, <1>12, RunsAlong
<1>14. Parse(Export(doc_)) = qs
  <2>1. FlattenSeq(ss) \in Seq(LinesOn(Nat))
    BY <1>11, Flattened
  <2> QED BY <1>4, <1>13, <2>1, ParseIs
<1>15. ASSUME NEW b \in ToSet(bs) PROVE qs \in Shown(doc_, b)
  <2>1. PICK k \in DOMAIN bs : b = bs[k]
    BY DEF ToSet
  <2> QED BY <1>11, <1>13, <2>1
<1> QED BY <1>13, <1>14, <1>15

\* Nothing is read of an empty page.
LEMMA NothingRead ==
  ASSUME NEW doc_ \in Docs, doc_[Page].children = << >>
  PROVE  Parse(Export(doc_)).out = << >>
<1>1. ParserInit \in ParsersOn(Nat) /\ ParserInit.out = << >>
  BY DEF ParserInit, ParsersOn, NoBid, Contexts
<1>2. Export(doc_) = << >>
  BY DEF Export, LinesOf, FlattenSeq
<1>3. << >> \in Seq(LinesOn(Nat)) /\ Runs(ParserInit, << >>, ParserInit)
  BY <1>1, RunsOne
<1>4. Parse(<< >>) = ParserInit
  BY <1>3, ParseIs
<1> QED BY <1>1, <1>2, <1>4

-----------------------------------------------------------------------------
(* Nothing is created twice.                                               *)

\* Before the first block is created.
Early == {"export", "edit", "get", "update", "delete"}
Walking == {"walk", "parent", "find", "fill"}

\* The entries that have a block.
Placed == {r[1] : r \in made}

\* What the file and its entries are.
FileTyped ==
  /\ file \in Seq(Lines)
  /\ entries \in Seq(EntrySet)
  /\ pc = "export" => doc \in Docs

\* The entries that wait for a block wait once and have none, unless they are
\* sent again.
WaitOnce ==
  /\ todo \in Seq(Nat) /\ flat \in Seq(Nat)
  /\ IsInjective(todo) /\ IsInjective(flat)
  /\ ToSet(todo) \cap Placed \subseteq twice /\ ToSet(flat) \cap Placed \subseteq twice
  /\ AtMostOnce

\* A replacement gets blocks for the entries it has passed only.
Passed ==
  /\ at \in Nat \ {0}
  /\ ~IsDiff => /\ ToSet(todo) \cup ToSet(flat) \subseteq 1 .. at - 1
                /\ pc # "failed" => Placed \ twice \subseteq 1 .. at - 1

\* Where the command is.
Placing ==
  /\ pc \in Early => made = {} /\ flat = << >>
  /\ pc \in {"export", "edit", "get"} => todo = << >>
  /\ pc \in Walking => ~IsDiff
  /\ pc = "create" => flat = << >>
  /\ pc = "parent" => at <= Len(entries) /\ HasChildren(entries, at)
  /\ pc \in {"find", "fill"} => at <= Len(entries)

OnceInv == FileTyped /\ WaitOnce /\ Passed /\ Placing

\* A run starts with nothing to create.
LEMMA StartsOnce ==
  ASSUME Init
  PROVE  OnceInv
<1>1. entries = << >> /\ todo = << >> /\ flat = << >> /\ made = {} /\ at = 1
      /\ pc = "export" /\ file = << >> /\ doc \in Docs
  BY DEF Init
<1>2. ToSet(<< >>) = {} /\ IsInjective(<< >>) /\ Placed = {} /\ AtMostOnce
  BY <1>1 DEF ToSet, IsInjective, Placed, AtMostOnce
<1> QED BY <1>1, <1>2 DEF OnceInv, FileTyped, WaitOnce, Passed, Placing, Early, Walking

\* A step that neither places an entry nor collects one.
LEMMA Moved ==
  ASSUME OnceInv, UNCHANGED <<entries, made, todo, flat, at, twice>>,
         file' \in Seq(Lines), pc' # "export" \/ UNCHANGED <<pc, doc>>,
         pc = "failed" => pc' = "failed",
         IsDiff' = IsDiff /\ HasChildren(entries, at)' = HasChildren(entries, at) => Placing'
  PROVE  OnceInv'
<1>1. IsDiff' = IsDiff /\ HasChildren(entries, at)' = HasChildren(entries, at)
  BY DEF IsDiff, Tops, HasChildren
<1>2. FileTyped'
  BY DEF OnceInv, FileTyped
<1>3. Placed' = Placed /\ AtMostOnce' = AtMostOnce
  BY DEF Placed, AtMostOnce
<1>4. WaitOnce'
  BY <1>3 DEF OnceInv, WaitOnce
<1>5. Passed'
  BY <1>1, <1>3 DEF OnceInv, Passed
<1> QED BY <1>1, <1>2, <1>4, <1>5 DEF OnceInv

\* An export: a document as a list of lines.
LEMMA ExportOnce ==
  ASSUME OnceInv, ExportFile
  PROVE  OnceInv'
<1>1. doc \in Docs /\ pc = "export" /\ pc' = "edit" /\ file' = Export(doc)
  BY DEF OnceInv, FileTyped, ExportFile
<1>2. file' \in Seq(Lines)
  BY <1>1, ExportType
<1>3. UNCHANGED <<entries, made, todo, flat, at, twice>>
  BY DEF ExportFile, planVars, walkVars, sendVars
<1>4. Placing'
  BY <1>1, <1>3 DEF OnceInv, Placing, Early, Walking
<1> QED BY <1>1, <1>2, <1>3, <1>4, Moved

\* An edit makes lines of lines, with no other markers.
LEMMA EditLines ==
  ASSUME NEW B, NoBid \in B, file \in Seq(LinesOn(B)), EditFile
  PROVE  /\ pc = "edit" /\ pc' = "edit" /\ file' \in Seq(LinesOn(B))
         /\ UNCHANGED <<doc, fresh, base, entries, made, todo, flat, at, twice, unnamed>>
<1> DEFINE n == Len(file)
<1>1. file \in Seq(LinesOn(B)) /\ n \in Nat /\ DOMAIN file = 1..n
  OBVIOUS
<1>2. \A f : Edited(f) => /\ pc = "edit" /\ pc' = "edit" /\ file' = f
                           /\ UNCHANGED <<doc, fresh, base, entries, made, todo, flat, at, twice, unnamed>>
  BY DEF Edited, planVars, walkVars, sendVars
<1>3. \A k \in 1..n : SubSeq(file, 1, k - 1) \in Seq(LinesOn(B))
  BY <1>1, SubSeqProperties
<1>4. \A k \in 1..(n + 1) : SubSeq(file, k, n) \in Seq(LinesOn(B))
  BY <1>1, SubSeqProperties
<1>5. \E f \in Seq(LinesOn(B)) : Edited(f)
  <2>1. CASE \E k \in DOMAIN file, t \in Texts : ChangeText(k, t)
    <3>1. PICK k \in 1..n, t \in Texts : ChangeText(k, t)
      BY <1>1, <2>1
    <3>2. file[k] \in LinesOn(B)
      BY <1>1
    <3>3. [file[k] EXCEPT !.text = t] \in LinesOn(B)
      BY <3>2 DEF LinesOn, Strings
    <3>4. [file EXCEPT ![k].text = t] \in Seq(LinesOn(B))
      BY <1>1, <3>3
    <3> QED BY <3>1, <3>4 DEF ChangeText
  <2>2. CASE \E k \in Markers : RemoveSection(k)
    <3>1. PICK k \in Markers : RemoveSection(k)
      BY <2>2
    <3>2. k \in 1..n
      BY <1>1, <3>1 DEF Markers
    <3>3. SectionEnd(k) + 1 \in 1..(n + 1)
      <4> DEFINE next == {m \in Markers : m > k}
      <4>1. next \subseteq 1..n
        BY <1>1 DEF Markers
      <4>2. CASE next = {}
        BY <1>1, <4>2 DEF SectionEnd
      <4>3. CASE next # {}
        <5> HIDE DEF next
        <5>1. Min(next) \in 1..n
          <6>1. next \subseteq Nat
            BY <4>1
          <6>2. Min(next) \in next
            BY <4>3, <6>1, MinOf
          <6> QED BY <4>1, <6>2
        <5>2. SectionEnd(k) = Min(next) - 1
          BY <4>3 DEF SectionEnd, next
        <5> QED BY <1>1, <5>1, <5>2
      <4> QED BY <4>2, <4>3
    <3>4. SubSeq(file, 1, k - 1) \o SubSeq(file, SectionEnd(k) + 1, n) \in Seq(LinesOn(B))
      BY <1>3, <1>4, <3>2, <3>3
    <3> QED BY <3>1, <3>4 DEF RemoveSection
  <2>3. CASE \E k \in Markers \cup {Len(file) + 1}, knd \in Insertable, t \in Texts :
               InsertLine(k, Line(knd, t))
    <3>1. PICK k \in Markers \cup {n + 1}, knd \in Insertable, t \in Texts :
                 InsertLine(k, Line(knd, t))
      BY <2>3
    <3>2. k \in 1..(n + 1)
      BY <1>1, <3>1 DEF Markers
    <3>3. Line(knd, t) \in LinesOn(B)
      BY UpdateAssumption, LineTypes DEF Strings, NoBid
    <3>4. SubSeq(file, 1, k - 1) \in Seq(LinesOn(B)) /\ SubSeq(file, k, n) \in Seq(LinesOn(B))
      BY <1>1, <1>4, <3>2, SubSeqProperties
    <3> DEFINE ln == Line(knd, t)
    <3>5. <<ln>> \in Seq(LinesOn(B))
      BY <3>3, ShortLists
    <3> HIDE DEF ln
    <3>6. SubSeq(file, 1, k - 1) \o <<ln>> \o SubSeq(file, k, n) \in Seq(LinesOn(B))
      BY <3>4, <3>5
    <3> QED BY <3>1, <3>6 DEF InsertLine, ln
  <2>4. CASE StripMarkers
    BY <1>1, <2>4, Kept DEF StripMarkers
  <2> QED BY <2>1, <2>2, <2>3, <2>4 DEF EditFile
<1> QED BY <1>2, <1>5

\* So the entries are not touched.
LEMMA EditOnce ==
  ASSUME OnceInv, EditFile
  PROVE  OnceInv'
<1>1. file \in Seq(LinesOn(Nat)) /\ NoBid \in Nat
  BY LinesAre DEF OnceInv, FileTyped, NoBid
<1>2. /\ pc = "edit" /\ pc' = "edit" /\ file' \in Seq(Lines)
      /\ UNCHANGED <<entries, made, todo, flat, at, twice>>
  BY <1>1, EditLines, LinesAre
<1>3. Placing'
  BY <1>2 DEF OnceInv, Placing, Early, Walking
<1> QED BY <1>2, <1>3, Moved

\* A colleague has no part in it.
LEMMA ColleagueOnce ==
  ASSUME OnceInv, Colleague
  PROVE  OnceInv'
<1>1. /\ pc # "export" /\ pc' = pc /\ file' = file
      /\ UNCHANGED <<entries, made, todo, flat, at, twice>>
  BY DEF Colleague, fileVars, planVars, walkVars, sendVars
<1>2. file' \in Seq(Lines)
  BY <1>1 DEF OnceInv, FileTyped
<1>3. IsDiff' = IsDiff /\ HasChildren(entries, at)' = HasChildren(entries, at) => Placing'
  BY <1>1 DEF OnceInv, Placing
<1> QED BY <1>1, <1>2, <1>3, Moved

\* Parsing: a list of entries, none created yet.
LEMMA StartOnce ==
  ASSUME OnceInv, Start
  PROVE  OnceInv'
<1>1. /\ pc = "edit" /\ pc' \in {"refused", "get"} /\ entries' = Parse(file).out
      /\ UNCHANGED <<file, made, todo, flat, at, twice>>
  BY DEF Start, fileVars, walkVars, sendVars
<1>2. FileTyped'
  BY <1>1, ParseType, LinesAre DEF OnceInv, FileTyped
<1>3. made = {} /\ todo = << >> /\ flat = << >> /\ Placed = {} /\ ToSet(<< >>) = {}
  BY <1>1 DEF OnceInv, Placing, Early, Placed, ToSet
<1>4. Placed' = {}
  BY <1>1, <1>3 DEF Placed
<1>5. WaitOnce'
  BY <1>1, <1>3, <1>4 DEF OnceInv, WaitOnce, AtMostOnce
<1>6. Passed'
  BY <1>1, <1>3, <1>4 DEF OnceInv, Passed
<1>7. Placing'
  BY <1>1, <1>3 DEF Placing, Early, Walking
<1> QED BY <1>2, <1>5, <1>6, <1>7 DEF OnceInv

\* The plan of a diff: every new entry once.
LEMMA GetOnce ==
  ASSUME NEW o, OnceInv, GetBlocks(o)
  PROVE  OnceInv'
<1>1. /\ pc = "get" /\ pc' \in {"failed", "delete", "refused", "update"}
      /\ UNCHANGED <<file, entries, made, flat, at, twice>>
      /\ todo' = todo \/ (IsDiff /\ todo' = ToCreate(doc))
  BY DEF GetBlocks, fileVars
<1>2. made = {} /\ todo = << >> /\ flat = << >> /\ Placed = {} /\ ToSet(<< >>) = {}
  BY <1>1 DEF OnceInv, Placing, Early, Placed, ToSet
<1>3. Placed' = {} /\ IsDiff' = IsDiff
  BY <1>1, <1>2 DEF Placed, IsDiff, Tops
<1>4. FileTyped'
  BY <1>1 DEF OnceInv, FileTyped
<1>5. todo' \in Seq(Nat) /\ IsInjective(todo')
  <2> DEFINE all == [k \in DOMAIN entries |-> k]
             K == {i \in Tops : ~Matched(doc, i)}
  <2>1. all \in Seq(Nat)
    BY DEF OnceInv, FileTyped
  <2>2. IsInjective(all)
    BY DEF IsInjective
  <2> HIDE DEF all, K
  <2>3. Keep(all, K) \in Seq(Nat) /\ IsInjective(Keep(all, K))
    BY <2>1, <2>2, Kept
  <2>4. ToCreate(doc) = Keep(all, K)
    BY DEF ToCreate, all, K
  <2> QED BY <1>1, <1>2, <2>3, <2>4 DEF OnceInv, WaitOnce
<1>6. WaitOnce'
  BY <1>1, <1>2, <1>3, <1>5 DEF OnceInv, WaitOnce, AtMostOnce
<1>7. Passed'
  BY <1>1, <1>2, <1>3 DEF OnceInv, Passed
<1>8. Placing'
  BY <1>1, <1>2 DEF Placing, Early, Walking
<1> QED BY <1>4, <1>6, <1>7, <1>8 DEF OnceInv

\* The requests and moves that leave the entries alone.
LEMMA RequestsOnce ==
  ASSUME NEW o, OnceInv,
         \/ BatchUpdate(o) \/ DeleteNext(o) \/ FindAutoChild(o)
         \/ DeletesDone \/ BatchesDone
  PROVE  OnceInv'
<1>1. /\ pc \in {"update", "delete", "find", "create"} /\ pc' # "export" /\ file' = file
      /\ UNCHANGED <<entries, made, todo, flat, at, twice>>
  BY DEF BatchUpdate, DeleteNext, FindAutoChild, DeletesDone, BatchesDone, fileVars, planVars,
         walkVars, sendVars
<1>2. file' \in Seq(Lines)
  BY <1>1 DEF OnceInv, FileTyped
<1>3. \/ pc \in {"update", "delete"} /\ pc' \in {"delete", "failed"}
      \/ pc = "find" /\ pc' \in {"fill", "walk"}
      \/ pc = "delete" /\ pc' = (IF ~IsDiff THEN "walk" ELSE IF todo = << >> THEN "done" ELSE "create")
      \/ pc = "create" /\ pc' = (IF lastErr THEN "failed" ELSE IF IsDiff THEN "done" ELSE "walk")
  BY DEF BatchUpdate, DeleteNext, FindAutoChild, DeletesDone, BatchesDone
<1>4. ASSUME IsDiff' = IsDiff PROVE Placing'
  <2>1. \/ pc \in {"update", "delete"} /\ pc' \in {"delete", "failed"}
        \/ pc = "find" /\ pc' \in {"fill", "walk"}
        \/ pc = "delete" /\ pc' \in {"done", "create"}
        \/ pc \in {"delete", "create"} /\ pc' = "walk" /\ ~IsDiff
        \/ pc = "create" /\ pc' \in {"failed", "done"}
    BY <1>3
  <2> QED BY <1>1, <1>4, <2>1 DEF OnceInv, Placing, Early, Walking
<1> QED BY <1>1, <1>2, <1>4, Moved

\* Entries that waited are placed: all of front, and not what is left.
LEMMA PlacedOnce ==
  ASSUME NEW front \in Seq(Nat), IsInjective(front), ToSet(front) \cap Placed \subseteq twice,
         AtMostOnce, twice \subseteq twice', NEW blocks,
         made' = made \cup {<<front[k], blocks[k]>> : k \in DOMAIN front}
  PROVE  AtMostOnce' /\ Placed' = Placed \cup ToSet(front)
<1>1. Placed' = Placed \cup ToSet(front)
  <2>1. \A k \in DOMAIN front : <<front[k], blocks[k]>>[1] = front[k]
    OBVIOUS
  <2>2. \A r \in made' : r \in made \/ \E k \in DOMAIN front : r[1] = front[k]
    BY <2>1
  <2>3. made \subseteq made' /\ \A k \in DOMAIN front : \E r \in made' : r[1] = front[k]
    BY <2>1
  <2>4. Placed' = {r[1] : r \in made'} /\ ToSet(front) = {front[k] : k \in DOMAIN front}
    BY DEF Placed, ToSet
  <2>5. \A x \in Placed' : x \in Placed \cup ToSet(front)
    BY <2>2, <2>4 DEF Placed
  <2>6. \A x \in Placed \cup ToSet(front) : x \in Placed'
    BY <2>3, <2>4 DEF Placed
  <2> QED BY <2>5, <2>6
<1>2. ASSUME NEW r \in made', NEW q \in made', r[1] = q[1], r[1] \notin twice' PROVE r = q
  <2>1. CASE r \in made /\ q \in made
    BY <1>2, <2>1 DEF AtMostOnce
  <2>2. ASSUME NEW x \in made, NEW y \in made' \ made PROVE x[1] # y[1] \/ x[1] \in twice
    <3>1. PICK k \in DOMAIN front : y = <<front[k], blocks[k]>>
      BY <2>2
    <3>2. y[1] \in ToSet(front) /\ x[1] \in Placed
      BY <3>1 DEF ToSet, Placed
    <3> QED BY <3>2
  <2>3. CASE r \notin made /\ q \notin made
    <3>1. PICK k \in DOMAIN front : r = <<front[k], blocks[k]>>
      BY <2>3
    <3>2. PICK l \in DOMAIN front : q = <<front[l], blocks[l]>>
      BY <2>3
    <3>3. front[k] = front[l]
      BY <1>2, <3>1, <3>2
    <3>4. k = l
      BY <3>3 DEF IsInjective
    <3> QED BY <3>1, <3>2, <3>4
  <2> QED BY <1>2, <2>1, <2>2, <2>3
<1> QED BY <1>1, <1>2 DEF AtMostOnce

\* A batch places the entries at the head of the queue.
LEMMA BatchOnce ==
  ASSUME NEW o, OnceInv, CreateBatch(o)
  PROVE  OnceInv'
<1> DEFINE n == IF Len(todo) < BatchSize THEN Len(todo) ELSE BatchSize
           front == SubSeq(todo, 1, n)
           rest == SubSeq(todo, n + 1, Len(todo))
           effect == Done(o) /\ Parent \in DOMAIN doc
<1>1. /\ pc = "create" /\ pc' = pc /\ todo # << >>
      /\ UNCHANGED <<file, entries, flat, at>>
      /\ IF effect THEN Created(front) /\ SentTwice(front, o) ELSE NotCreated
      /\ todo' = IF Retries(o) THEN todo ELSE rest
  BY DEF CreateBatch, fileVars, planVars, walkVars
<1>2. todo \in Seq(Nat) /\ Len(todo) \in Nat /\ DOMAIN todo = 1..Len(todo) /\ n \in 1..Len(todo)
  BY <1>1, UpdateAssumption DEF OnceInv, WaitOnce
<1> HIDE DEF n
<1>3. /\ front \in Seq(Nat) /\ DOMAIN front = 1..n
      /\ \A k \in 1..n : front[k] = todo[k]
  BY <1>2, SubSeqProperties
<1>4. /\ rest \in Seq(Nat) /\ DOMAIN rest = 1..(Len(todo) - n)
      /\ \A k \in 1..(Len(todo) - n) : rest[k] = todo[n + k] /\ n + k \in 1..Len(todo)
  <2> DEFINE l == Len(todo)
  <2>1. /\ n + 1 \in Int /\ l \in Int
        /\ \A k \in (n + 1)..l : todo[k] \in Nat
    BY <1>2
  <2>2. /\ rest \in Seq(Nat)
        /\ Len(rest) = IF n + 1 <= l THEN l - (n + 1) + 1 ELSE 0
        /\ \A k \in 1 .. l - (n + 1) + 1 : rest[k] = todo[(n + 1) + k - 1]
    BY <2>1, SubSeqProperties
  <2> HIDE DEF l, rest
  <2>3. /\ l - (n + 1) + 1 = l - n /\ Len(rest) = l - n
        /\ \A k \in 1..(l - n) : (n + 1) + k - 1 = n + k /\ n + k \in 1..l
    <3>1. l \in Nat /\ n \in 1..l
      BY <1>2 DEF l
    <3> QED BY <2>2, <3>1
  <2>4. DOMAIN rest = 1..(l - n) /\ \A k \in 1..(l - n) : rest[k] = todo[n + k]
    BY <2>2, <2>3
  <2> QED BY <2>2, <2>3, <2>4 DEF l
<1> HIDE DEF front, rest
<1>5. IsInjective(todo) /\ ToSet(todo) \cap Placed \subseteq twice /\ AtMostOnce
  BY DEF OnceInv, WaitOnce
<1>6. IsInjective(front) /\ IsInjective(rest)
  <2>1. IsInjective(front)
    BY <1>2, <1>3, <1>5 DEF IsInjective
  <2>2. ASSUME NEW k \in DOMAIN rest, NEW l \in DOMAIN rest, rest[k] = rest[l] PROVE k = l
    <3>1. n + k = n + l
      BY <1>2, <1>4, <1>5, <2>2 DEF IsInjective
    <3> QED BY <1>2, <1>4, <3>1
  <2> QED BY <2>1, <2>2 DEF IsInjective
<1>7. ToSet(front) \subseteq ToSet(todo) /\ ToSet(rest) \subseteq ToSet(todo)
      /\ ToSet(front) \cap ToSet(rest) = {}
  <2>1. \A k \in 1..n : front[k] \in ToSet(todo)
    <3>1. \A k \in DOMAIN todo : todo[k] \in ToSet(todo)
      BY DEF ToSet
    <3>2. \A k \in 1..n : front[k] = todo[k] /\ k \in DOMAIN todo
      BY <1>2, <1>3
    <3> QED BY <3>1, <3>2
  <2>2. \A k \in DOMAIN rest : rest[k] \in ToSet(todo)
    <3>1. \A k \in DOMAIN todo : todo[k] \in ToSet(todo)
      BY DEF ToSet
    <3>2. \A k \in DOMAIN rest : rest[k] = todo[n + k] /\ n + k \in DOMAIN todo
      BY <1>2, <1>4
    <3> QED BY <3>1, <3>2
  <2>3. ASSUME NEW k \in 1..n, NEW l \in DOMAIN rest PROVE front[k] # rest[l]
    <3>1. k # n + l /\ k \in DOMAIN todo /\ n + l \in DOMAIN todo
      <4> DEFINE all == Len(todo)
      <4>1. all \in Nat /\ n \in 1..all /\ l \in 1..(all - n) /\ DOMAIN todo = 1..all
        BY <1>2, <1>4
      <4> HIDE DEF all
      <4> QED BY <4>1
    <3> QED BY <1>3, <1>4, <1>5, <3>1 DEF IsInjective
  <2>4. ToSet(front) = {front[k] : k \in 1..n} /\ ToSet(rest) = {rest[k] : k \in DOMAIN rest}
    BY <1>3 DEF ToSet
  <2> QED BY <2>1, <2>2, <2>3, <2>4
<1>8. IsDiff' = IsDiff /\ flat = << >> /\ ToSet(<< >>) = {} /\ flat' = << >>
  BY <1>1 DEF OnceInv, Placing, IsDiff, Tops, ToSet
<1>9. FileTyped'
  BY <1>1 DEF OnceInv, FileTyped
<1>10. Placing'
  BY <1>1, <1>8 DEF Placing, Early, Walking
<1>11. Passed /\ WaitOnce
  BY DEF OnceInv
<1>12. CASE effect
  <2>1. /\ twice \subseteq twice'
        /\ todo' = rest \/ (todo' = todo /\ ToSet(front) \subseteq twice')
    BY <1>1, <1>12 DEF Retries, SentTwice, Done
  <2> DEFINE bodies == [k \in DOMAIN front |-> Body(front[k])]
             blocks == [k \in DOMAIN front |-> IdOf(bodies, fresh, k)]
  <2>2. made' = made \cup {<<front[k], IdOf(bodies, fresh, k)>> : k \in DOMAIN front}
    BY <1>1, <1>12 DEF Created
  <2> HIDE DEF bodies
  <2>3. made' = made \cup {<<front[k], blocks[k]>> : k \in DOMAIN front}
    BY <2>2
  <2> HIDE DEF blocks
  <2>4. AtMostOnce' /\ Placed' = Placed \cup ToSet(front)
    BY <1>3, <1>5, <1>6, <1>7, <2>1, <2>3, PlacedOnce
  <2>5. WaitOnce'
    <3>1. todo' \in Seq(Nat) /\ IsInjective(todo')
      BY <1>2, <1>4, <1>5, <1>6, <2>1
    <3>2. ToSet(todo') \cap Placed' \subseteq twice'
      BY <1>5, <1>7, <2>1, <2>4
    <3> QED BY <1>8, <1>11, <2>4, <3>1, <3>2 DEF WaitOnce
  <2>6. Passed'
    BY <1>1, <1>7, <1>8, <1>11, <2>1, <2>4 DEF Passed
  <2> QED BY <1>9, <1>10, <2>5, <2>6 DEF OnceInv
<1>13. CASE ~effect
  <2>1. made' = made /\ twice' = twice /\ (todo' = todo \/ todo' = rest)
    BY <1>1, <1>13 DEF NotCreated
  <2>2. Placed' = Placed /\ AtMostOnce' = AtMostOnce /\ twice' = twice
    BY <2>1 DEF Placed, AtMostOnce
  <2>3. todo' \in Seq(Nat) /\ IsInjective(todo') /\ ToSet(todo') \subseteq ToSet(todo)
    BY <1>2, <1>4, <1>5, <1>6, <1>7, <2>1
  <2>4. WaitOnce'
    BY <1>1, <1>5, <1>8, <1>11, <2>2, <2>3 DEF WaitOnce
  <2>5. Passed'
    BY <1>1, <1>8, <1>11, <2>2, <2>3 DEF Passed
  <2> QED BY <1>9, <1>10, <2>4, <2>5 DEF OnceInv
<1> QED BY <1>12, <1>13

\* The descent: an entry that is collected has been passed, and waits once.
LEMMA WalkOnce ==
  ASSUME OnceInv, Walk
  PROVE  OnceInv'
<1>1. pc = "walk" /\ ~IsDiff /\ UNCHANGED <<file, entries, made, twice>>
  BY DEF OnceInv, Placing, Walking, Walk, fileVars, planVars
<1>2. IsDiff' = IsDiff /\ Placed' = Placed /\ AtMostOnce' = AtMostOnce /\ twice' = twice
  BY <1>1 DEF IsDiff, Tops, Placed, AtMostOnce
<1>3. /\ todo \in Seq(Nat) /\ flat \in Seq(Nat) /\ IsInjective(todo) /\ IsInjective(flat)
      /\ ToSet(todo) \cap Placed \subseteq twice /\ ToSet(flat) \cap Placed \subseteq twice
      /\ AtMostOnce
  BY DEF OnceInv, WaitOnce
<1>4. /\ at \in Nat \ {0} /\ ToSet(todo) \cup ToSet(flat) \subseteq 1 .. at - 1
      /\ Placed \ twice \subseteq 1 .. at - 1
  BY <1>1 DEF OnceInv, Passed
<1>5. \/ Flush
      \/ Collect
      \/ ReachParent /\ ~Flush
      \/ EndOfList /\ ~Flush
  BY DEF Walk, ReachParent, EndOfList
<1>6. entries \in Seq(EntrySet) /\ file \in Seq(Lines) /\ Len(entries) \in Nat
  BY DEF OnceInv, FileTyped
<1>7. CASE Flush
  <2>1. pc' = "create" /\ todo' = flat /\ flat' = << >> /\ at' = at
    BY <1>7 DEF Flush
  <2>2. ToSet(<< >>) = {} /\ IsInjective(<< >>)
    BY DEF ToSet, IsInjective
  <2>3. FileTyped'
    BY <1>1, <1>6, <2>1 DEF FileTyped
  <2>4. WaitOnce'
    BY <1>2, <1>3, <2>1, <2>2 DEF WaitOnce
  <2>5. Passed'
    BY <1>2, <1>4, <2>1, <2>2 DEF Passed
  <2>6. Placing'
    BY <2>1 DEF Placing, Early, Walking
  <2> QED BY <2>3, <2>4, <2>5, <2>6 DEF OnceInv
<1>8. CASE Collect
  <2>1. pc' = pc /\ todo' = todo /\ flat' = Append(flat, at) /\ at' = at + 1
    BY <1>8 DEF Collect
  <2>2. at \in Nat /\ at \notin 1 .. at - 1 /\ 1 .. at - 1 \subseteq 1 .. at'  - 1
        /\ at \in 1 .. at' - 1 /\ at' \in Nat \ {0}
    BY <1>4, <2>1
  <2>3. /\ flat' \in Seq(Nat) /\ ToSet(flat') = ToSet(flat) \cup {at} /\ IsInjective(flat')
    BY <1>3, <1>4, <2>1, <2>2, OneBehind
  <2>4. FileTyped'
    BY <1>1, <1>6, <2>1 DEF FileTyped
  <2>5. WaitOnce'
    BY <1>2, <1>3, <1>4, <2>1, <2>2, <2>3 DEF WaitOnce
  <2>6. Passed'
    BY <1>2, <1>4, <2>1, <2>2, <2>3 DEF Passed
  <2>7. Placing'
    BY <1>1, <1>2, <2>1 DEF Placing, Early, Walking
  <2> QED BY <2>4, <2>5, <2>6, <2>7 DEF OnceInv
<1>9. CASE ReachParent /\ ~Flush
  <2>1. /\ pc' = "parent" /\ UNCHANGED <<entries, made, todo, flat, at, twice>> /\ flat = << >>
        /\ HasChildren(entries, at)
    BY <1>1, <1>9 DEF ReachParent
  <2>2. at <= Len(entries)
    BY <1>4, <1>6, <2>1 DEF HasChildren
  <2>3. IsDiff' = IsDiff /\ HasChildren(entries, at)' = HasChildren(entries, at) => Placing'
    BY <1>1, <2>1, <2>2 DEF Placing, Early, Walking
  <2> QED BY <1>1, <1>6, <2>1, <2>3, Moved
<1>10. CASE EndOfList /\ ~Flush
  <2>1. pc' \in {"done", "walk"} /\ UNCHANGED <<entries, made, todo, flat, at, twice>>
    BY <1>1, <1>10 DEF EndOfList
  <2>2. IsDiff' = IsDiff /\ HasChildren(entries, at)' = HasChildren(entries, at) => Placing'
    BY <1>1, <2>1 DEF Placing, Early, Walking
  <2> QED BY <1>1, <1>6, <2>1, <2>2, Moved
<1> QED BY <1>5, <1>7, <1>8, <1>9, <1>10

\* What a parent or an auto-created child places: the entry at hand.
LEMMA OneMore ==
  ASSUME NEW b, AtMostOnce, at \in Placed => at \in twice', twice \subseteq twice',
         made' = made \cup {<<at, b>>}
  PROVE  AtMostOnce' /\ Placed' = Placed \cup {at}
<1>1. \A x \in made : x[1] \in Placed
  BY DEF Placed
<1>2. <<at, b>>[1] = at
  OBVIOUS
<1>3. AtMostOnce'
  BY <1>1, <1>2 DEF AtMostOnce
<1>4. Placed' = {r[1] : r \in made'}
  BY DEF Placed
<1>5. \A x \in Placed' : x \in Placed \cup {at}
  BY <1>2, <1>4 DEF Placed
<1>6. \A x \in Placed \cup {at} : x \in Placed'
  BY <1>2, <1>4 DEF Placed
<1> QED BY <1>3, <1>5, <1>6

\* What comes behind an entry and what is nested in it comes behind it.
LEMMA AfterEntry ==
  ASSUME NEW es \in Seq(EntrySet), NEW i \in Nat, i <= Len(es)
  PROVE  After(es, i) \in Nat /\ i < After(es, i)
<1> DEFINE ends == {j \in i + 1 .. Len(es) : es[j].level <= es[i].level}
<1>1. CASE ends = {}
  BY <1>1 DEF After
<1>2. CASE ends # {}
  <2>1. ends \subseteq Nat /\ \A j \in ends : i < j
    OBVIOUS
  <2>2. Min(ends) \in ends
    BY <1>2, <2>1, MinOf
  <2>3. After(es, i) = Min(ends)
    BY <1>2 DEF After
  <2> HIDE DEF ends
  <2> QED BY <2>1, <2>2, <2>3
<1> QED BY <1>1, <1>2

\* A parent is placed, or nothing is; if the answer is lost, it is sent again or
\* the command fails.
LEMMA ParentOnce ==
  ASSUME NEW o, OnceInv, CreateParent(o)
  PROVE  OnceInv'
<1> DEFINE effect == Done(o) /\ Parent \in DOMAIN doc
           created == effect /\ o = "ok"
<1>1. /\ pc = "parent" /\ UNCHANGED <<file, entries, todo, flat>>
      /\ IF effect THEN Created(<<at>>) /\ SentTwice(<<at>>, o) ELSE NotCreated
      /\ \/ created /\ at' \in {at + 1, After(entries, at)} /\ pc' \in {"walk"}
         \/ created /\ at' = at + 1 /\ pc' = "find"
         \/ ~created /\ at' = at /\ pc' = IF Retries(o) THEN "parent" ELSE "failed"
  BY DEF CreateParent, fileVars, planVars
<1>2. IsDiff' = IsDiff /\ ~IsDiff /\ HasChildren(entries, at)
  BY <1>1 DEF IsDiff, Tops, OnceInv, Placing, Walking
<1>3. /\ todo \in Seq(Nat) /\ flat \in Seq(Nat) /\ IsInjective(todo) /\ IsInjective(flat)
      /\ ToSet(todo) \cap Placed \subseteq twice /\ ToSet(flat) \cap Placed \subseteq twice
      /\ AtMostOnce
  BY DEF OnceInv, WaitOnce
<1>4. /\ at \in Nat \ {0} /\ ToSet(todo) \cup ToSet(flat) \subseteq 1 .. at - 1
      /\ Placed \ twice \subseteq 1 .. at - 1
  BY <1>1, <1>2 DEF OnceInv, Passed
<1>5. entries \in Seq(EntrySet) /\ file \in Seq(Lines) /\ Len(entries) \in Nat
  BY DEF OnceInv, FileTyped
<1>6. FileTyped'
  <2>1. pc' # "export"
    BY <1>1
  <2> QED BY <1>1, <1>5, <2>1 DEF FileTyped
<1>7. /\ at \notin 1 .. at - 1 /\ at <= Len(entries)
      /\ \A n \in {at + 1, After(entries, at)} :
           n \in Nat \ {0} /\ at \in 1 .. n - 1 /\ 1 .. at - 1 \subseteq 1 .. n - 1
  <2>1. at <= Len(entries)
    BY <1>2, <1>4, <1>5 DEF HasChildren
  <2> QED BY <1>4, <1>5, <2>1, AfterEntry
<1>8. CASE effect
  <2>1. twice \subseteq twice' /\ (Retries(o) => at \in twice')
    <3>1. at \in ToSet(<<at>>)
      BY DEF ToSet
    <3> QED BY <1>1, <1>8, <3>1 DEF Retries, SentTwice, Done
  <2> DEFINE bodies == [k \in DOMAIN <<at>> |-> Body(<<at>>[k])]
             b == IdOf(bodies, fresh, 1)
  <2>2. made' = made \cup {<<<<at>>[k], IdOf(bodies, fresh, k)>> : k \in DOMAIN <<at>>}
    BY <1>1, <1>8 DEF Created
  <2> HIDE DEF bodies
  <2>3. made' = made \cup {<<at, b>>}
    BY <2>2
  <2> HIDE DEF b
  <2>4. AtMostOnce' /\ Placed' = Placed \cup {at}
    BY <1>3, <1>4, <1>7, <2>1, <2>3, OneMore
  <2>5. WaitOnce'
    BY <1>1, <1>3, <1>4, <1>7, <2>1, <2>4 DEF WaitOnce
  <2>6. \/ at' \in {at + 1, After(entries, at)} /\ pc' = "walk"
        \/ at' = at + 1 /\ pc' = "find"
        \/ at' = at /\ (pc' = "failed" \/ (pc' = "parent" /\ at \in twice'))
    BY <1>1, <1>8, <2>1
  <2>7. Passed'
    BY <1>1, <1>2, <1>4, <1>7, <2>1, <2>4, <2>6 DEF Passed
  <2>8. Placing'
    <3>1. at + 1 <= Len(entries)
      BY <1>2, <1>4, <1>5 DEF HasChildren
    <3>2. HasChildren(entries, at)' \/ at' # at
      BY <1>1, <1>2 DEF HasChildren
    <3> QED BY <1>1, <1>2, <1>7, <2>6, <3>1, <3>2 DEF Placing, Early, Walking
  <2> QED BY <1>6, <2>5, <2>7, <2>8 DEF OnceInv
<1>9. CASE ~effect
  <2>1. UNCHANGED <<entries, made, todo, flat, at, twice>> /\ pc' \in {"parent", "failed"}
    BY <1>1, <1>9 DEF NotCreated
  <2>2. file' \in Seq(Lines)
    BY <1>1, <1>5
  <2>3. ASSUME HasChildren(entries, at)' = HasChildren(entries, at) PROVE Placing'
    <3>1. at <= Len(entries)
      BY <1>2, <1>4, <1>5 DEF HasChildren
    <3> QED BY <1>2, <2>1, <2>3, <3>1 DEF Placing, Early, Walking
  <2> QED BY <1>1, <2>1, <2>2, <2>3, Moved
<1> QED BY <1>8, <1>9

\* The auto-created child is the block of the container's first entry.
LEMMA FillOnce ==
  ASSUME NEW o, OnceInv, FillAutoChild(o)
  PROVE  OnceInv'
<1> DEFINE auto == Head(doc[Last(path)].children)
<1>1. /\ pc = "fill" /\ UNCHANGED <<file, entries, todo, flat>>
      /\ twice' = twice /\ made' = IF Done(o) THEN made \cup {<<at, auto>>} ELSE made
      /\ at' = IF o = "ok" THEN After(entries, at) ELSE at
      /\ pc' = IF o = "ok" THEN "walk" ELSE "failed"
  BY DEF FillAutoChild, fileVars, planVars, sendVars
<1> HIDE DEF auto
<1>2. IsDiff' = IsDiff /\ ~IsDiff /\ at <= Len(entries)
  BY <1>1 DEF IsDiff, Tops, OnceInv, Placing, Walking
<1>3. /\ todo \in Seq(Nat) /\ flat \in Seq(Nat) /\ IsInjective(todo) /\ IsInjective(flat)
      /\ ToSet(todo) \cap Placed \subseteq twice /\ ToSet(flat) \cap Placed \subseteq twice
      /\ AtMostOnce
  BY DEF OnceInv, WaitOnce
<1>4. /\ at \in Nat \ {0} /\ ToSet(todo) \cup ToSet(flat) \subseteq 1 .. at - 1
      /\ Placed \ twice \subseteq 1 .. at - 1
  BY <1>1, <1>2 DEF OnceInv, Passed
<1>5. entries \in Seq(EntrySet) /\ file \in Seq(Lines) /\ Len(entries) \in Nat
  BY DEF OnceInv, FileTyped
<1>6. After(entries, at) \in Nat /\ at < After(entries, at)
  BY <1>2, <1>4, <1>5, AfterEntry
<1>7. /\ at' \in Nat \ {0} /\ 1 .. at - 1 \subseteq 1 .. at' - 1
      /\ pc' # "failed" => at \in 1 .. at' - 1
  BY <1>1, <1>4, <1>6
<1>8. at \notin 1 .. at - 1
  BY <1>4
<1>9. /\ AtMostOnce' /\ Placed' \subseteq Placed \cup {at}
  <2>1. CASE made' = made
    BY <1>1, <1>3, <2>1 DEF AtMostOnce, Placed
  <2>2. CASE made' = made \cup {<<at, auto>>}
    BY <1>1, <1>3, <1>4, <1>8, <2>2, OneMore
  <2> QED BY <1>1, <2>1, <2>2
<1>10. FileTyped'
  <2>1. pc' # "export"
    BY <1>1
  <2> QED BY <1>1, <1>5, <2>1 DEF FileTyped
<1>11. WaitOnce'
  BY <1>1, <1>3, <1>4, <1>8, <1>9 DEF WaitOnce
<1>12. Passed'
  BY <1>1, <1>2, <1>4, <1>7, <1>9 DEF Passed
<1>13. Placing'
  BY <1>1, <1>2 DEF Placing, Early, Walking
<1> QED BY <1>10, <1>11, <1>12, <1>13 DEF OnceInv

\* Each step keeps it.
LEMMA StepsOnce ==
  ASSUME OnceInv, [Next]_vars
  PROVE  OnceInv'
<1>1. CASE ExportFile
  BY <1>1, ExportOnce
<1>2. CASE EditFile
  BY <1>2, EditOnce
<1>3. CASE Colleague
  BY <1>3, ColleagueOnce
<1>4. CASE Start
  BY <1>4, StartOnce
<1>5. CASE DeletesDone \/ BatchesDone
  BY <1>5, RequestsOnce
<1>6. CASE Walk
  BY <1>6, WalkOnce
<1>7. ASSUME NEW o \in Outcomes, Request(o) PROVE OnceInv'
  BY <1>7, GetOnce, RequestsOnce, BatchOnce, ParentOnce, FillOnce DEF Request
<1>8. CASE UNCHANGED vars
  <2>1. UNCHANGED <<doc, file, pc, entries, made, todo, flat, at, twice>>
    BY <1>8 DEF vars, fileVars, planVars, walkVars, sendVars
  <2>2. file' \in Seq(Lines)
    BY <2>1 DEF OnceInv, FileTyped
  <2>3. IsDiff' = IsDiff /\ HasChildren(entries, at)' = HasChildren(entries, at) => Placing'
    BY <2>1 DEF OnceInv, Placing
  <2> QED BY <2>1, <2>2, <2>3, Moved
<1> QED BY <1>1, <1>2, <1>3, <1>4, <1>5, <1>6, <1>7, <1>8 DEF Next, Command

\* No entry of the file is ever created twice, in either mode, whatever requests
\* fail or lose their answers, but for those sent again on an error that read as
\* a 429 although they had been created: all else that waits has no block yet.
THEOREM EntriesOnce == Spec => []AtMostOnce
<1>1. Init => OnceInv
  BY StartsOnce
<1>2. OnceInv /\ [Next]_vars => OnceInv'
  BY StepsOnce
<1>3. OnceInv => AtMostOnce
  BY DEF OnceInv, WaitOnce
<1> QED BY <1>1, <1>2, <1>3, PTL DEF Spec

-----------------------------------------------------------------------------
(* What a colleague adds stays.                                            *)

\* A document whose blocks have ids below n, each behind its parent.
Tree(d, n) ==
  /\ DOMAIN d \subseteq 0 .. n - 1 /\ Page \in DOMAIN d
  /\ d \in [DOMAIN d -> Blocks(DOMAIN d)]
  /\ \A x \in DOMAIN d : \A c \in ToSet(d[x].children) : x < c

\* The blocks that were read, but for the page.
Read == DOMAIN base \ {Page}

\* A deletion names a block that was read, and below those are only such.
NewInv ==
  /\ fresh \in Nat \ {0}
  /\ NewcomersSurvive
  /\ pc \in Early => Tree(doc, fresh)
  /\ pc \in {"export", "edit", "get"} => base = << >>
  /\ pc \in {"update", "delete"} =>
       /\ DOMAIN base \subseteq 0 .. fresh - 1
       /\ deletes \in Seq(Read)
       /\ \A x \in DOMAIN doc \cap Read : ToSet(doc[x].children) \subseteq Read

\* The equation of Subtree.
Below(h, d) == [x \in DOMAIN d |-> {x} \cup UNION {h[c] : c \in ToSet(d[x].children)}]

\* It has a solution.
LEMMA BelowExists ==
  ASSUME NEW n \in Nat \ {0}, NEW d, Tree(d, n)
  PROVE  \E h : h = Below(h, d)
<1> DEFINE m == n - 1
           D == DOMAIN d
           Kids(x) == ToSet(d[x].children)
           At(h, x) == h[x] = {x} \cup UNION {h[c] : c \in Kids(x)}
           S == {b \in 0..m : \E h \in [D -> SUBSET D] : \A x \in D : b <= x => At(h, x)}
<1>1. /\ m \in Nat /\ D \subseteq 0..m
      /\ \A x \in D : Kids(x) \subseteq D /\ \A c \in Kids(x) : x < c
  <2>1. \A x \in D : d[x].children \in Seq(D)
    BY DEF Tree, Blocks
  <2>2. \A q \in Seq(D) : ToSet(q) \subseteq D
    BY DEF ToSet
  <2> QED BY <2>1, <2>2 DEF Tree
<1> HIDE DEF m, D, Kids
<1>2. ASSUME NEW b \in 0..m, \A c \in 0..m : b < c => c \in S PROVE b \in S
  <2>1. \E h \in [D -> SUBSET D] : \A x \in D : b < x => At(h, x)
    <3>1. CASE b = m
      <4>1. [x \in D |-> {}] \in [D -> SUBSET D] /\ \A x \in D : ~(b < x)
        BY <1>1, <3>1
      <4> HIDE DEF At
      <4> QED BY <4>1, Zenon
    <3>2. CASE b # m
      <4>1. b + 1 \in 0..m /\ b < b + 1
        BY <1>1, <3>2
      <4>2. PICK h \in [D -> SUBSET D] : \A x \in D : b + 1 <= x => At(h, x)
        BY <1>2, <4>1
      <4>3. \A x \in D : b < x => b + 1 <= x
        BY <1>1
      <4> HIDE DEF At
      <4> QED BY <4>2, <4>3
    <3> QED BY <3>1, <3>2
  <2>2. PICK h \in [D -> SUBSET D] : \A x \in D : b < x => At(h, x)
    BY <2>1
  <2> DEFINE v == {b} \cup UNION {h[c] : c \in Kids(b)}
             g == [h EXCEPT ![b] = v]
  <2>3. g \in [D -> SUBSET D]
    <3>1. b \in D => v \in SUBSET D
      BY <1>1
    <3> HIDE DEF v
    <3> QED BY <3>1
  <2>4. \A x \in D : x # b => g[x] = h[x]
    OBVIOUS
  <2>5. b \in D => g[b] = v
    OBVIOUS
  <2> HIDE DEF g
  <2>6. ASSUME NEW x \in D, b <= x PROVE At(g, x)
    <3>1. \A c \in Kids(x) : g[c] = h[c]
      <4> SUFFICES ASSUME NEW c \in Kids(x) PROVE g[c] = h[c]
        OBVIOUS
      <4>1. c \in D /\ x < c
        BY <1>1
      <4>2. c # b
        BY <1>1, <2>6, <4>1
      <4> QED BY <2>4, <4>1, <4>2
    <3>2. {g[c] : c \in Kids(x)} = {h[c] : c \in Kids(x)}
      BY <3>1
    <3>3. CASE x = b
      BY <2>5, <3>2, <3>3
    <3>4. CASE x # b
      <4>1. b < x
        BY <1>1, <2>6, <3>4
      <4>2. At(h, x)
        BY <2>2, <4>1
      <4> QED BY <2>4, <3>2, <3>4, <4>2
    <3> QED BY <3>3, <3>4
  <2> HIDE DEF At
  <2> QED BY <2>3, <2>6
<1> HIDE DEF S
<1>3. 0 \in S
  <2>1. 0 \in 0..m
    BY <1>1
  <2> QED BY <1>1, <1>2, <2>1, Downward
<1>4. PICK h \in [D -> SUBSET D] : \A x \in D : 0 <= x => At(h, x)
  BY <1>3 DEF S
<1>5. \A x \in D : h[x] = {x} \cup UNION {h[c] : c \in Kids(x)}
  BY <1>1, <1>4
<1>6. h = [x \in D |-> {x} \cup UNION {h[c] : c \in Kids(x)}]
  BY <1>4, <1>5, Zenon
<1> QED BY <1>6 DEF Below, D, Kids

\* What holds children with their parents holds all that is below.
LEMMA SubtreeIn ==
  ASSUME NEW n \in Nat \ {0}, NEW d, Tree(d, n), NEW C,
         \A x \in DOMAIN d \cap C : ToSet(d[x].children) \subseteq C,
         NEW b \in DOMAIN d \cap C
  PROVE  Subtree(d, b) \subseteq C
<1> DEFINE m == n - 1
           D == DOMAIN d
           Kids(x) == ToSet(d[x].children)
           below == CHOOSE h : h = Below(h, d)
           S == {x \in 0..m : x \in D \cap C => below[x] \subseteq C}
<1>1. /\ m \in Nat /\ D \subseteq 0..m
      /\ \A x \in D : Kids(x) \subseteq D /\ \A c \in Kids(x) : x < c
  <2>1. \A x \in D : d[x].children \in Seq(D)
    BY DEF Tree, Blocks
  <2>2. \A q \in Seq(D) : ToSet(q) \subseteq D
    BY DEF ToSet
  <2> QED BY <2>1, <2>2 DEF Tree
<1>2. below = Below(below, d)
  BY BelowExists
<1>3. Subtree(d, b) = below[b]
  BY Zenon DEF Subtree, Below
<1> HIDE DEF below
<1>4. \A x \in D : below[x] = {x} \cup UNION {below[c] : c \in Kids(x)}
  BY <1>2, Zenon DEF Below
<1>5. \A x \in D \cap C : Kids(x) \subseteq C
  OBVIOUS
<1> HIDE DEF m, D, Kids
<1>6. ASSUME NEW x \in 0..m, \A c \in 0..m : x < c => c \in S PROVE x \in S
  <2> SUFFICES ASSUME x \in D \cap C PROVE below[x] \subseteq C
    OBVIOUS
  <2>1. \A c \in Kids(x) : below[c] \subseteq C
    BY <1>1, <1>5, <1>6
  <2> QED BY <1>4, <2>1
<1> HIDE DEF S
<1>7. 0..m \subseteq S
  BY <1>1, <1>6, Downward
<1>8. b \in D \cap C /\ b \in 0..m
  BY <1>1 DEF D
<1> QED BY <1>3, <1>7, <1>8 DEF S

\* A deletion leaves a document that is one, and every block that is not below.
LEMMA RemoveKeeps ==
  ASSUME NEW n \in Nat \ {0}, NEW d, Tree(d, n), NEW C, Page \notin C,
         \A x \in DOMAIN d \cap C : ToSet(d[x].children) \subseteq C,
         NEW b \in C
  PROVE  /\ Tree(RemoveBlock(d, b), n)
         /\ DOMAIN d \ C \subseteq DOMAIN RemoveBlock(d, b)
         /\ DOMAIN RemoveBlock(d, b) \subseteq DOMAIN d
         /\ \A x \in DOMAIN RemoveBlock(d, b) \cap C :
              ToSet(RemoveBlock(d, b)[x].children) \subseteq C
<1>1. CASE b \notin DOMAIN d
  BY <1>1 DEF RemoveBlock
<1>2. CASE b \in DOMAIN d
  <2> DEFINE left == DOMAIN d \ Subtree(d, b)
             kept(x) == Keep(d[x].children, left)
             e == [x \in left |-> [d[x] EXCEPT !.children = kept(x)]]
  <2>1. Subtree(d, b) \subseteq C
    BY <1>2, SubtreeIn
  <2>2. left \subseteq DOMAIN d /\ DOMAIN d \ C \subseteq left
    BY <2>1
  <2> HIDE DEF left
  <2>3. \A x \in DOMAIN d : d[x] \in Blocks(DOMAIN d)
    BY DEF Tree
  <2>4. ASSUME NEW x \in DOMAIN d
        PROVE  kept(x) \in Seq(left) /\ ToSet(kept(x)) \subseteq ToSet(d[x].children)
    <3>1. d[x].children \in Seq(DOMAIN d)
      BY <2>3 DEF Blocks
    <3>2. kept(x) \in Seq(DOMAIN d) /\ ToSet(kept(x)) = ToSet(d[x].children) \cap left
      BY <3>1, Kept
    <3> HIDE DEF kept
    <3>3. \A k \in DOMAIN kept(x) : kept(x)[k] \in left
      BY <3>2 DEF ToSet
    <3> QED BY <3>2, <3>3
  <2> HIDE DEF kept
  <2>5. ASSUME NEW x \in left PROVE e[x] \in Blocks(left) /\ e[x].children = kept(x)
    <3>1. d[x] \in Blocks(DOMAIN d) /\ kept(x) \in Seq(left)
      BY <2>2, <2>3, <2>4
    <3>2. e[x] = [d[x] EXCEPT !.children = kept(x)]
      OBVIOUS
    <3> QED BY <3>1, <3>2 DEF Blocks
  <2>6. RemoveBlock(d, b) = e
    BY <1>2, Zenon DEF RemoveBlock, e, left, kept
  <2>7. DOMAIN e = left /\ e = [x \in left |-> e[x]]
    OBVIOUS
  <2> HIDE DEF e
  <2>8. e \in [left -> Blocks(left)]
    BY <2>5, <2>7
  <2>9. \A x \in left : ToSet(e[x].children) \subseteq ToSet(d[x].children)
    BY <2>2, <2>4, <2>5
  <2>10. Tree(e, n)
    <3>1. left \subseteq 0 .. n - 1 /\ Page \in left
      BY <2>2 DEF Tree
    <3>2. \A x \in left : \A c \in ToSet(e[x].children) : x < c
      BY <2>2, <2>9 DEF Tree
    <3> QED BY <2>7, <2>8, <3>1, <3>2 DEF Tree
  <2>11. \A x \in left \cap C : ToSet(e[x].children) \subseteq C
    BY <2>2, <2>9
  <2> QED BY <2>2, <2>6, <2>7, <2>10, <2>11
<1> QED BY <1>1, <1>2

\* Ids are numbers.
LEMMA IdType ==
  ASSUME NEW bs, NEW id \in Nat, NEW k \in Nat \ {0}
  PROVE  IdOf(bs, id, k) \in Nat /\ id + k - 1 <= IdOf(bs, id, k)
<1> DEFINE T == {j \in 1 .. k - 1 : bs[j].type \in Containers}
<1>1. IsFiniteSet(1 .. k - 1)
  BY FS_Interval
<1>2. IsFiniteSet(T)
  BY <1>1, FS_Subset
<1>3. Cardinality(T) \in Nat
  BY <1>2, FS_CardinalityType
<1> HIDE DEF T
<1>4. IdOf(bs, id, k) = id + k - 1 + Cardinality(T)
  BY DEF IdOf, T
<1> QED BY <1>3, <1>4

\* d with the block blk, called id, at the end of the page.
WithLast(d, id, blk) ==
  [x \in DOMAIN d \cup {id} |->
     IF x = id THEN blk
     ELSE IF x = Page THEN [d[Page] EXCEPT !.children = @ \o <<id>>] ELSE d[x]]

\* One new text block: it has the next id, and only its parent changes.
LEMMA OneBlock ==
  ASSUME NEW d, NEW id \in Nat, NEW t, NEW blk, blk = NewBlock("text", t, NoStyle)
  PROVE  AddBlocks(d, Page, <<blk>>, id) = WithLast(d, id, blk)
<1> DEFINE bs == <<blk>>
           ids == [k \in DOMAIN bs |-> IdOf(bs, id, k)]
           all == id .. IdOf(bs, id, Len(bs) + 1) - 1
           autos == all \ ToSet(ids)
           new(x) ==
             IF x \in autos THEN NewBlock("text", "", NoStyle)
             ELSE LET k == CHOOSE k \in DOMAIN bs : ids[k] = x IN
                  [bs[k] EXCEPT !.children = IF x + 1 \in autos THEN <<x + 1>> ELSE << >>]
<1>1. /\ AddBlocks(d, Page, bs, id) =
           [x \in DOMAIN d \cup all |->
              IF x \in all THEN new(x)
              ELSE IF x = Page THEN [d[Page] EXCEPT !.children = @ \o ids] ELSE d[x]]
  BY Zenon DEF AddBlocks
<1>2. DOMAIN bs = {1} /\ Len(bs) = 1 /\ bs[1] = blk
  OBVIOUS
<1>3. IdOf(bs, id, 1) = id /\ IdOf(bs, id, 2) = id + 1
  <2>1. {j \in 1 .. 1 - 1 : bs[j].type \in Containers} = {}
    OBVIOUS
  <2>2. {j \in 1 .. 2 - 1 : bs[j].type \in Containers} = {}
    BY <1>2 DEF NewBlock, Containers
  <2>3. Cardinality({}) = 0
    BY FS_EmptySet
  <2>4. id + 1 - 1 + 0 = id /\ id + 2 - 1 + 0 = id + 1
    OBVIOUS
  <2> HIDE DEF bs
  <2> QED BY <2>1, <2>2, <2>3, <2>4 DEF IdOf
<1>4. ids = <<id>>
  BY <1>2, <1>3
<1>5. all = {id}
  BY <1>2, <1>3
<1>6. ToSet(<<id>>) = {id}
  BY DEF ToSet
<1>7. autos = {}
  BY <1>4, <1>5, <1>6
<1>8. new(id) = blk
  <2> HIDE DEF ids, all, autos, bs
  <2>1. (CHOOSE k \in DOMAIN bs : ids[k] = id) = 1
    BY <1>2, <1>4
  <2>2. new(id) = [blk EXCEPT !.children = << >>]
    BY <1>2, <1>7, <2>1
  <2>3. [blk EXCEPT !.children = << >>] = blk
    BY DEF NewBlock
  <2> QED BY <2>2, <2>3
<1> HIDE DEF new, ids, all, autos, bs
<1>9. AddBlocks(d, Page, bs, id) =
        [x \in DOMAIN d \cup {id} |->
           IF x = id THEN blk
           ELSE IF x = Page THEN [d[Page] EXCEPT !.children = @ \o <<id>>] ELSE d[x]]
  BY <1>1, <1>4, <1>5, <1>8
<1> QED BY <1>9, Zenon DEF bs, WithLast

\* Created adds blocks and takes none.
LEMMA CreatedKeeps ==
  ASSUME NEW is \in Seq(Nat), Created(is), fresh \in Nat \ {0}
  PROVE  DOMAIN doc \subseteq DOMAIN doc' /\ fresh' \in Nat \ {0}
<1> DEFINE bodies == [k \in DOMAIN is |-> Body(is[k])]
<1>1. /\ doc' = AddBlocks(doc, Parent, bodies, fresh)
      /\ fresh' = IdOf(bodies, fresh, Len(is) + 1)
  BY DEF Created
<1> HIDE DEF bodies
<1>2. Len(is) + 1 \in Nat \ {0} /\ fresh <= fresh + (Len(is) + 1) - 1
  OBVIOUS
<1>3. fresh' \in Nat \ {0}
  <2>1. IdOf(bodies, fresh, Len(is) + 1) \in Nat
        /\ fresh + (Len(is) + 1) - 1 <= IdOf(bodies, fresh, Len(is) + 1)
    BY <1>2, IdType
  <2> QED BY <1>1, <1>2, <2>1
<1>4. DOMAIN doc \subseteq DOMAIN doc'
  BY <1>1 DEF AddBlocks
<1> QED BY <1>3, <1>4

\* e is d with the block n, elsewhere as it was.
Grown(e, d, n) ==
  /\ Tree(e, n + 1) /\ DOMAIN e = DOMAIN d \cup {n}
  /\ \A x \in DOMAIN d \ {Page} : e[x] = d[x]
  /\ e[Page].type = d[Page].type /\ e[n].children = << >>
  /\ ToSet(e[Page].children) = ToSet(d[Page].children) \cup {n}

\* A new paragraph at the end of the page leaves a document that is one.
LEMMA ParagraphKeeps ==
  ASSUME NEW d, NEW n \in Nat \ {0}, Tree(d, n), NEW t \in Texts,
         NEW blk, blk = NewBlock("text", t, NoStyle),
         NEW e, e = AddBlocks(d, Page, <<blk>>, n)
  PROVE  Grown(e, d, n)
<1> DEFINE D == DOMAIN d
           ids == D \cup {n}
           kids == d[Page].children \o <<n>>
<1>1. e = [x \in ids |-> IF x = n THEN blk
                         ELSE IF x = Page THEN [d[Page] EXCEPT !.children = kids] ELSE d[x]]
  <2>1. AddBlocks(d, Page, <<blk>>, n) = WithLast(d, n, blk)
    BY OneBlock
  <2> QED BY <2>1 DEF WithLast
<1>2. /\ D \subseteq 0 .. n - 1 /\ Page \in D /\ n \notin D /\ D \subseteq ids /\ n \in ids
      /\ \A x \in D : d[x] \in Blocks(D) /\ \A c \in ToSet(d[x].children) : x < c
  BY DEF Tree
<1>3. \A x \in D : d[x] \in Blocks(ids)
  <2>1. Seq(D) \subseteq Seq(ids)
    BY <1>2
  <2> QED BY <1>2, <2>1 DEF Blocks
<1>4. blk \in Blocks(ids) /\ blk.children = << >>
  <2> HIDE DEF ids
  <2>1. << >> \in Seq(ids) /\ "text" \in BlockTypes /\ NoStyle \in Styles
    <3>1. << >> \in Seq(ids)
      OBVIOUS
    <3> QED BY <3>1, TextAssumption DEF BlockTypes
  <2> QED BY <2>1 DEF NewBlock, Blocks
<1>5. kids \in Seq(ids) /\ ToSet(kids) = ToSet(d[Page].children) \cup {n}
  <2>1. d[Page].children \in Seq(ids) /\ <<n>> \in Seq(ids)
    <3>1. d[Page] \in Blocks(ids) /\ n \in ids
      BY <1>2, <1>3
    <3> HIDE DEF ids
    <3>2. \A x \in Blocks(ids) : x.children \in Seq(ids)
      BY DEF Blocks
    <3>3. <<n>> \in Seq(ids)
      BY <3>1
    <3> QED BY <3>1, <3>2, <3>3
  <2>2. ToSet(<<n>>) = {n}
    BY DEF ToSet
  <2> DEFINE old == d[Page].children
             one == <<n>>
  <2> HIDE DEF old, one, ids
  <2>3. old \o one \in Seq(ids) /\ ToSet(old \o one) = ToSet(old) \cup ToSet(one)
    <3>1. old \in Seq(ids) /\ one \in Seq(ids)
      BY <2>1 DEF old, one
    <3> QED BY <3>1, Concatenated
  <2> QED BY <2>2, <2>3 DEF old, one
<1>6. [d[Page] EXCEPT !.children = kids] \in Blocks(ids)
  <2> HIDE DEF kids
  <2> QED BY <1>2, <1>3, <1>5 DEF Blocks
<1> DEFINE top == [d[Page] EXCEPT !.children = kids]
<1>7. top.children = kids /\ top.type = d[Page].type
  <2> HIDE DEF kids
  <2>1. d[Page] \in Blocks(ids)
    BY <1>2, <1>3
  <2> QED BY <2>1 DEF Blocks
<1>8. DOMAIN e = ids /\ e[n] = blk /\ e[Page] = top /\ \A x \in D \ {Page} : e[x] = d[x]
  <2> HIDE DEF top, kids
  <2> QED BY <1>1, <1>2 DEF top
<1>9. e = [x \in ids |-> e[x]]
  BY <1>1
<1> HIDE DEF top, kids, ids, D
<1>10. \A x \in ids : e[x] \in Blocks(ids)
  BY <1>3, <1>4, <1>6, <1>8 DEF ids, top
<1>11. ASSUME NEW x \in ids, NEW c \in ToSet(e[x].children) PROVE x < c
  <2>1. CASE x = n
    BY <1>4, <1>8, <1>11, <2>1 DEF ToSet
  <2>2. CASE x = Page
    <3>1. Page < n
      BY <1>2 DEF Page
    <3> QED BY <1>2, <1>5, <1>7, <1>8, <1>11, <2>2, <3>1
  <2>3. CASE x \in D \ {Page}
    BY <1>2, <1>8, <1>11, <2>3
  <2> QED BY <2>1, <2>2, <2>3 DEF ids
<1>12. e \in [ids -> Blocks(ids)]
  BY <1>9, <1>10
<1>13. ids \subseteq 0 .. (n + 1) - 1 /\ Page \in ids
  BY <1>2 DEF ids
<1>14. Tree(e, n + 1)
  BY <1>8, <1>11, <1>12, <1>13 DEF Tree
<1> QED BY <1>4, <1>5, <1>7, <1>8, <1>14 DEF ids, D, Grown

\* e is d with other texts.
Retexted(e, d) ==
  /\ e = [x \in DOMAIN d |-> e[x]]
  /\ \A x \in DOMAIN d : e[x] = d[x] \/ \E t \in Strings : e[x] = [d[x] EXCEPT !.text = t]

\* New texts leave a document that is one, its blocks where they are.
LEMMA TextsKeep ==
  ASSUME NEW d, NEW n \in Nat \ {0}, Tree(d, n), NEW e, Retexted(e, d)
  PROVE  /\ Tree(e, n) /\ DOMAIN e = DOMAIN d
         /\ \A x \in DOMAIN d : e[x].children = d[x].children /\ e[x].type = d[x].type
<1>1. DOMAIN e = DOMAIN d /\ e = [x \in DOMAIN d |-> e[x]]
  BY DEF Retexted
<1>2. \A x \in DOMAIN d : d[x] \in Blocks(DOMAIN d)
  BY DEF Tree
<1>3. \A x \in DOMAIN d : e[x] \in Blocks(DOMAIN d) /\ e[x].children = d[x].children
                         /\ e[x].type = d[x].type
  <2> DEFINE D == DOMAIN d
  <2> HIDE DEF D
  <2>1. ASSUME NEW b \in Blocks(D), NEW t \in Strings
        PROVE  [b EXCEPT !.text = t] \in Blocks(D) /\ [b EXCEPT !.text = t].children = b.children
               /\ [b EXCEPT !.text = t].type = b.type
    BY DEF Blocks, Strings
  <2>2. \A x \in D : d[x] \in Blocks(D)
        /\ (e[x] = d[x] \/ \E t \in Strings : e[x] = [d[x] EXCEPT !.text = t])
    BY <1>2 DEF D, Retexted
  <2>3. \A x \in D : e[x] \in Blocks(D) /\ e[x].children = d[x].children /\ e[x].type = d[x].type
    <3> SUFFICES ASSUME NEW x \in D
                 PROVE  e[x] \in Blocks(D) /\ e[x].children = d[x].children /\ e[x].type = d[x].type
      OBVIOUS
    <3>1. CASE e[x] = d[x]
      BY <2>2, <3>1
    <3>2. CASE \E t \in Strings : e[x] = [d[x] EXCEPT !.text = t]
      <4>1. PICK t \in Strings : e[x] = [d[x] EXCEPT !.text = t]
        BY <3>2
      <4>2. d[x] \in Blocks(D)
        BY <2>2
      <4> QED BY <2>1, <4>1, <4>2
    <3> QED BY <2>2, <3>1, <3>2
  <2> QED BY <2>3 DEF D
<1>4. e \in [DOMAIN d -> Blocks(DOMAIN d)]
  BY <1>1, <1>3
<1> QED BY <1>1, <1>3, <1>4 DEF Tree

\* A run starts with a document, and no colleague yet.
LEMMA NewStarts ==
  ASSUME Init
  PROVE  NewInv
<1> DEFINE m == Max(DOMAIN doc)
<1>1. /\ doc \in Docs /\ fresh = m + 1 /\ others = {} /\ base = << >> /\ pc = "export"
  BY DEF Init
<1>2. /\ m \in Nat /\ DOMAIN doc = 0 .. m /\ doc \in [DOMAIN doc -> Blocks(DOMAIN doc)]
      /\ \A b \in DOMAIN doc : \A c \in ToSet(doc[b].children) : b < c
  BY <1>1, DocsAssumption
<1> HIDE DEF m
<1>3. fresh \in Nat \ {0} /\ 0 .. m \subseteq 0 .. fresh - 1 /\ Page \in 0 .. m
  BY <1>1, <1>2 DEF Page
<1>4. Tree(doc, fresh)
  BY <1>2, <1>3 DEF Tree
<1> QED BY <1>1, <1>3, <1>4 DEF NewInv, NewcomersSurvive

\* The colleague's own steps.
LEMMA NewColleague ==
  ASSUME NewInv, Colleague
  PROVE  NewInv'
<1>1. UNCHANGED <<pc, base, deletes>> /\ Read' = Read
  BY DEF Colleague, planVars, Read
<1>2. fresh \in Nat \ {0} /\ others \ DOMAIN base \subseteq DOMAIN doc
  BY DEF NewInv, NewcomersSurvive
<1>3. ASSUME NEW t \in Texts,
             doc' = AddBlocks(doc, Page, <<NewBlock("text", t, NoStyle)>>, fresh),
             fresh' = fresh + 1, others' = others \cup {fresh}
      PROVE  NewInv'
  <2>1. DOMAIN doc' = DOMAIN doc \cup {fresh}
    <3>1. fresh \in Nat
      BY <1>2
    <3> DEFINE blk == NewBlock("text", t, NoStyle)
    <3>2. AddBlocks(doc, Page, <<blk>>, fresh) = WithLast(doc, fresh, blk)
      BY <3>1, OneBlock, Zenon
    <3> QED BY <1>3, <3>2 DEF WithLast
  <2>2. fresh' \in Nat \ {0} /\ 0 .. fresh - 1 \subseteq 0 .. fresh' - 1 /\ fresh \notin 0 .. fresh - 1
    BY <1>2, <1>3
  <2>3. NewcomersSurvive'
    BY <1>1, <1>2, <1>3, <2>1 DEF NewcomersSurvive
  <2>4. pc \in Early => /\ Tree(doc', fresh')
                        /\ \A x \in DOMAIN doc \ {Page} : doc'[x] = doc[x]
    <3> SUFFICES ASSUME pc \in Early
                 PROVE  Tree(doc', fresh') /\ \A x \in DOMAIN doc \ {Page} : doc'[x] = doc[x]
      OBVIOUS
    <3>1. Tree(doc, fresh)
      BY DEF NewInv
    <3> DEFINE blk == NewBlock("text", t, NoStyle)
               e == AddBlocks(doc, Page, <<blk>>, fresh)
    <3>2. fresh \in Nat \ {0} /\ Tree(doc, fresh) /\ t \in Texts
      BY <1>2, <3>1
    <3>3. Grown(e, doc, fresh)
      <4> HIDE DEF blk
      <4>1. e = AddBlocks(doc, Page, <<blk>>, fresh) /\ blk = NewBlock("text", t, NoStyle)
        BY DEF blk
      <4> HIDE DEF e
      <4> QED BY <3>2, <4>1, ParagraphKeeps
    <3>4. doc' = e
      BY <1>3
    <3> HIDE DEF e, blk
    <3> QED BY <1>3, <3>3, <3>4 DEF Grown
  <2>5. ASSUME pc \in {"update", "delete"}
        PROVE  /\ DOMAIN base \subseteq 0 .. fresh' - 1
               /\ \A x \in DOMAIN doc' \cap Read : ToSet(doc'[x].children) \subseteq Read
    <3>1. /\ DOMAIN base \subseteq 0 .. fresh - 1 /\ pc \in Early
          /\ \A x \in DOMAIN doc \cap Read : ToSet(doc[x].children) \subseteq Read
      BY <2>5 DEF NewInv, Early
    <3>2. \A x \in DOMAIN doc' \cap Read : x \in DOMAIN doc \ {Page}
      BY <2>1, <2>2, <3>1 DEF Read
    <3> QED BY <2>2, <2>4, <3>1, <3>2
  <2> QED BY <1>1, <2>2, <2>3, <2>4, <2>5 DEF NewInv
<1>4. ASSUME NEW b \in DOMAIN doc, NEW t \in Texts, doc' = SetText(doc, b, t),
             others' = others \cup {b}, fresh' = fresh
      PROVE  NewInv'
  <2>1. DOMAIN doc' = DOMAIN doc
    BY <1>4 DEF SetText
  <2>2. NewcomersSurvive'
    BY <1>1, <1>2, <1>4, <2>1 DEF NewcomersSurvive
  <2>3. Retexted(doc', doc)
    <3>1. doc' = [x \in DOMAIN doc |-> IF x = b THEN [doc[b] EXCEPT !.text = t] ELSE doc[x]]
      BY <1>4 DEF SetText
    <3>2. t \in Strings
      BY DEF Strings
    <3> QED BY <3>1, <3>2 DEF Retexted
  <2>4. pc \in Early => /\ Tree(doc', fresh)
                        /\ \A x \in DOMAIN doc : doc'[x].children = doc[x].children
    BY <1>2, <2>3, TextsKeep DEF NewInv
  <2> QED BY <1>1, <1>2, <1>4, <2>1, <2>2, <2>4 DEF NewInv, Early
<1> QED BY <1>3, <1>4 DEF Colleague

\* The answer that is read: all that is below the page was read.
LEMMA NewGet ==
  ASSUME NEW o, NewInv, GetBlocks(o)
  PROVE  NewInv'
<1>1. /\ pc = "get" /\ UNCHANGED <<doc, fresh, others>>
      /\ \/ pc' = "failed" /\ base' = base
         \/ pc' = "refused"
         \/ pc' \in {"delete", "update"} /\ deletes' \in {doc[Page].children, ToDelete(doc)}
      /\ base' = base \/ base' = doc
  BY DEF GetBlocks
<1>2. Tree(doc, fresh) /\ base = << >> /\ fresh \in Nat \ {0} /\ others \ DOMAIN base \subseteq DOMAIN doc
  BY <1>1 DEF NewInv, Early, NewcomersSurvive
<1>3. others \subseteq DOMAIN doc
  BY <1>2
<1>4. NewcomersSurvive'
  BY <1>1, <1>3 DEF NewcomersSurvive
<1>5. ASSUME pc' \in {"delete", "update"}
      PROVE  /\ DOMAIN base' \subseteq 0 .. fresh - 1
             /\ deletes' \in Seq(DOMAIN doc \ {Page})
             /\ base' = doc
             /\ \A x \in DOMAIN doc \ {Page} : ToSet(doc[x].children) \subseteq DOMAIN doc \ {Page}
  <2>1. base' = doc
    BY <1>1, <1>5 DEF GetBlocks
  <2>2. \A x \in DOMAIN doc : doc[x].children \in Seq(DOMAIN doc)
    BY <1>2 DEF Tree, Blocks
  <2>3. DOMAIN doc \subseteq 0 .. fresh - 1 /\ Page \in DOMAIN doc
    BY <1>2 DEF Tree
  <2>4. ASSUME NEW x \in DOMAIN doc, NEW c \in ToSet(doc[x].children)
        PROVE  c \in DOMAIN doc \ {Page}
    <3>1. c \in DOMAIN doc
      BY <2>2, <2>4 DEF ToSet
    <3>2. x < c
      BY <1>2, <2>4 DEF Tree
    <3> QED BY <2>3, <3>1, <3>2 DEF Page
  <2>5. \A q \in Seq(DOMAIN doc) : ToSet(q) \subseteq DOMAIN doc \ {Page} =>
          q \in Seq(DOMAIN doc \ {Page})
    BY DEF ToSet
  <2> DEFINE K == {b \in DOMAIN doc : ~Referenced(doc, b)}
  <2>6. /\ Keep(doc[Page].children, K) \in Seq(DOMAIN doc)
        /\ ToSet(Keep(doc[Page].children, K)) \subseteq ToSet(doc[Page].children)
    <3> HIDE DEF K
    <3> QED BY <2>2, <2>3, Kept
  <2>7. ToDelete(doc) = Keep(doc[Page].children, K)
    BY DEF ToDelete
  <2>8. deletes' \in Seq(DOMAIN doc) /\ ToSet(deletes') \subseteq ToSet(doc[Page].children)
    BY <1>1, <1>5, <2>2, <2>3, <2>6, <2>7
  <2>9. ToSet(deletes') \subseteq DOMAIN doc \ {Page}
    BY <2>3, <2>4, <2>8
  <2> QED BY <2>1, <2>3, <2>4, <2>5, <2>8, <2>9
<1>6. Read' = DOMAIN base' \ {Page}
  BY DEF Read
<1> QED BY <1>1, <1>2, <1>4, <1>5, <1>6 DEF NewInv, Early

\* The update request leaves the blocks where they are.
LEMMA RewrittenShape ==
  ASSUME NEW o, NewInv, FileTyped, BatchUpdate(o)
  PROVE  Tree(doc', fresh) /\ DOMAIN doc' = DOMAIN doc
         /\ \A x \in DOMAIN doc : doc'[x].children = doc[x].children /\ doc'[x].type = doc[x].type
<1>1. /\ pc = "update" /\ doc' \in {doc, Rewritten(doc)} /\ Tree(doc, fresh) /\ fresh \in Nat \ {0}
  BY DEF BatchUpdate, NewInv, Early
<1>2. CASE doc' = doc
  BY <1>1, <1>2
<1>3. CASE doc' = Rewritten(doc)
  <2> DEFINE R(b) == {i \in Updates(base) : entries[i].bid = b /\ entries[i].type \in Rewritable}
  <2>1. doc' = [b \in DOMAIN doc |-> IF R(b) = {} THEN doc[b]
                  ELSE [doc[b] EXCEPT !.text = entries[Max(R(b))].text]]
    BY <1>3, Zenon DEF Rewritten
  <2>2. ASSUME NEW b, R(b) # {} PROVE entries[Max(R(b))].text \in Strings
    <3>1. R(b) \subseteq 1..Len(entries) /\ Len(entries) \in Nat /\ entries \in Seq(EntrySet)
      BY DEF FileTyped, Updates, Tops
    <3> HIDE DEF R
    <3>2. Max(R(b)) \in 1..Len(entries)
      BY <2>2, <3>1, MaxOf
    <3>3. entries[Max(R(b))] \in EntrySet
      BY <3>1, <3>2
    <3> QED BY <3>3 DEF EntrySet, EntriesOn
  <2> HIDE DEF R
  <2>3. doc' = [b \in DOMAIN doc |-> doc'[b]]
    BY <2>1
  <2>4. \A b \in DOMAIN doc : doc'[b] = doc[b] \/ \E t \in Strings : doc'[b] = [doc[b] EXCEPT !.text = t]
    BY <2>1, <2>2
  <2>5. Retexted(doc', doc)
    BY <2>3, <2>4 DEF Retexted
  <2> QED BY <1>1, <2>5, TextsKeep
<1> QED BY <1>1, <1>2, <1>3

\* The update request changes texts.
LEMMA NewUpdate ==
  ASSUME NEW o, NewInv, FileTyped, BatchUpdate(o)
  PROVE  NewInv'
<1>1. /\ pc = "update" /\ pc' \in {"delete", "failed"} /\ UNCHANGED <<fresh, base, deletes, others>>
      /\ doc' \in {doc, Rewritten(doc)}
  BY DEF BatchUpdate, planVars
<1>2. Read' = Read
  BY <1>1 DEF Read
<1>3. Tree(doc, fresh) /\ fresh \in Nat \ {0}
  BY <1>1 DEF NewInv, Early
<1>4. Tree(doc', fresh) /\ DOMAIN doc' = DOMAIN doc
      /\ \A x \in DOMAIN doc : doc'[x].children = doc[x].children
  BY RewrittenShape
<1>5. NewcomersSurvive'
  BY <1>1, <1>4 DEF NewInv, NewcomersSurvive
<1>6. /\ DOMAIN base \subseteq 0 .. fresh - 1 /\ deletes \in Seq(Read)
      /\ \A x \in DOMAIN doc' \cap Read : ToSet(doc'[x].children) \subseteq Read
  BY <1>1, <1>4 DEF NewInv
<1> QED BY <1>1, <1>2, <1>3, <1>4, <1>5, <1>6 DEF NewInv

\* A deletion takes blocks that were read.
LEMMA NewDelete ==
  ASSUME NEW o, NewInv, DeleteNext(o)
  PROVE  NewInv'
<1>1. /\ pc = "delete" /\ pc' = pc /\ UNCHANGED <<fresh, base, others>> /\ deletes # << >>
      /\ deletes' = Tail(deletes)
      /\ doc' \in {doc, RemoveBlock(doc, Head(deletes))}
  BY DEF DeleteNext, planVars
<1>2. Read' = Read
  BY <1>1 DEF Read
<1>3. /\ Tree(doc, fresh) /\ fresh \in Nat \ {0} /\ DOMAIN base \subseteq 0 .. fresh - 1
      /\ deletes \in Seq(Read) /\ others \ DOMAIN base \subseteq DOMAIN doc
      /\ \A x \in DOMAIN doc \cap Read : ToSet(doc[x].children) \subseteq Read
  BY <1>1 DEF NewInv, Early, NewcomersSurvive
<1>4. Head(deletes) \in Read /\ Tail(deletes) \in Seq(Read) /\ Page \notin Read
  BY <1>1, <1>3 DEF Read
<1>5. /\ Tree(doc', fresh) /\ DOMAIN doc \ Read \subseteq DOMAIN doc'
      /\ \A x \in DOMAIN doc' \cap Read : ToSet(doc'[x].children) \subseteq Read
  <2>1. CASE doc' = doc
    BY <1>3, <2>1
  <2>2. CASE doc' = RemoveBlock(doc, Head(deletes))
    BY <1>3, <1>4, <2>2, RemoveKeeps
  <2> QED BY <1>1, <2>1, <2>2
<1>6. NewcomersSurvive'
  <2>1. others \ DOMAIN base \subseteq DOMAIN doc \ Read
    BY <1>3 DEF Read
  <2> QED BY <1>1, <1>5, <2>1 DEF NewcomersSurvive
<1> QED BY <1>1, <1>2, <1>3, <1>4, <1>5, <1>6 DEF NewInv

\* Afterwards the document only grows.
LEMMA NewLater ==
  ASSUME NewInv, pc \notin Early \ {"delete"}, pc' \notin Early,
         UNCHANGED <<base, others>>, DOMAIN doc \subseteq DOMAIN doc', fresh' \in Nat \ {0}
  PROVE  NewInv'
<1>1. NewcomersSurvive'
  BY DEF NewInv, NewcomersSurvive
<1> QED BY <1>1 DEF NewInv, Early

\* A request to make blocks makes the document no smaller.
LEMMA Grows ==
  ASSUME OnceInv, NewInv, NEW o,
         CreateBatch(o) \/ CreateParent(o) \/ FindAutoChild(o) \/ FillAutoChild(o)
  PROVE  /\ pc \notin Early /\ pc' \notin Early /\ UNCHANGED <<base, entries, others>>
         /\ DOMAIN doc \subseteq DOMAIN doc' /\ fresh' \in Nat \ {0}
<1>1. todo \in Seq(Nat) /\ at \in Nat /\ fresh \in Nat \ {0}
  BY DEF OnceInv, WaitOnce, Passed, NewInv
<1>2. /\ pc \notin Early /\ pc' \notin Early /\ UNCHANGED <<base, entries, others>>
  BY DEF CreateBatch, CreateParent, FindAutoChild, FillAutoChild, planVars, Early
<1>3. ASSUME CreateBatch(o) PROVE DOMAIN doc \subseteq DOMAIN doc' /\ fresh' \in Nat \ {0}
  <2> DEFINE n == IF Len(todo) < BatchSize THEN Len(todo) ELSE BatchSize
             front == SubSeq(todo, 1, n)
  <2>1. Created(front) \/ NotCreated
    BY <1>3 DEF CreateBatch
  <2>2. front \in Seq(Nat)
    <3>1. n \in Nat /\ n <= Len(todo)
      BY <1>1, UpdateAssumption
    <3> HIDE DEF n
    <3>2. \A k \in 1..n : todo[k] \in Nat
      BY <1>1, <3>1
    <3> QED BY <3>1, <3>2, SubSeqProperties
  <2> HIDE DEF front
  <2> QED BY <1>1, <2>1, <2>2, CreatedKeeps DEF NotCreated
<1>4. ASSUME CreateParent(o) PROVE DOMAIN doc \subseteq DOMAIN doc' /\ fresh' \in Nat \ {0}
  <2>1. Created(<<at>>) \/ NotCreated
    BY <1>4 DEF CreateParent
  <2>2. <<at>> \in Seq(Nat)
    BY <1>1
  <2> QED BY <1>1, <2>1, <2>2, CreatedKeeps DEF NotCreated
<1>5. ASSUME FindAutoChild(o) \/ FillAutoChild(o)
      PROVE  DOMAIN doc \subseteq DOMAIN doc' /\ fresh' \in Nat \ {0}
  BY <1>1, <1>5 DEF FindAutoChild, FillAutoChild, SetText
<1> QED BY <1>2, <1>3, <1>4, <1>5

\* Each step keeps it.
LEMMA NewSteps ==
  ASSUME OnceInv, NewInv, [Next]_vars
  PROVE  NewInv'
<1>1. FileTyped /\ todo \in Seq(Nat) /\ at \in Nat /\ fresh \in Nat \ {0}
  BY DEF OnceInv, WaitOnce, Passed, NewInv
<1>2. CASE ExportFile \/ EditFile \/ Start
  <2>1. /\ UNCHANGED <<doc, fresh, base, others>> /\ pc \in {"export", "edit"}
        /\ pc' \in {"edit", "get", "refused"}
    BY <1>2 DEF ExportFile, EditFile, Start, planVars, ChangeText, RemoveSection, InsertLine,
                StripMarkers, Edited
  <2>2. NewcomersSurvive'
    BY <2>1 DEF NewInv, NewcomersSurvive
  <2> QED BY <2>1, <2>2 DEF NewInv, Early
<1>3. CASE Colleague
  BY <1>3, NewColleague
<1>4. CASE DeletesDone \/ BatchesDone \/ Walk
  <2>1. /\ UNCHANGED <<doc, fresh, base, others>> /\ pc \in {"delete", "create", "walk"}
        /\ pc' \notin Early
    BY <1>4 DEF DeletesDone, BatchesDone, Walk, Collect, ReachParent, EndOfList, Flush, planVars, Early
  <2> QED BY <1>1, <2>1, NewLater DEF Early
<1>5. ASSUME NEW o \in Outcomes, Request(o) PROVE NewInv'
  <2>1. CASE GetBlocks(o) \/ BatchUpdate(o) \/ DeleteNext(o)
    BY <1>1, <2>1, NewGet, NewUpdate, NewDelete
  <2>2. CASE CreateBatch(o) \/ CreateParent(o) \/ FindAutoChild(o) \/ FillAutoChild(o)
    BY <2>2, Grows, NewLater
  <2> QED BY <1>5, <2>1, <2>2 DEF Request
<1>6. CASE UNCHANGED vars
  <2>1. UNCHANGED <<doc, fresh, pc, base, deletes, others>>
    BY <1>6 DEF vars, planVars
  <2>2. NewcomersSurvive' = NewcomersSurvive /\ Read' = Read
    BY <2>1 DEF NewcomersSurvive, Read
  <2> QED BY <2>1, <2>2 DEF NewInv
<1> QED BY <1>2, <1>3, <1>4, <1>5, <1>6 DEF Next, Command

\* What a colleague adds to the document after the command has read it is still
\* there when the command ends: deletions take blocks that were read, and what
\* is below them, and a new block is below the page.
THEOREM NewcomersKept == Spec => []NewcomersSurvive
<1>1. Init => OnceInv /\ NewInv
  BY StartsOnce, NewStarts
<1>2. OnceInv /\ NewInv /\ [Next]_vars => (OnceInv /\ NewInv)'
  BY StepsOnce, NewSteps
<1>3. NewInv => NewcomersSurvive
  BY DEF NewInv
<1> QED BY <1>1, <1>2, <1>3, PTL DEF Spec

-----------------------------------------------------------------------------
(* What is marked stays.                                                   *)

\* The blocks that a diff knows, and the id of an entry without a marker.
Named(d) == {NoBid} \cup Marked(d)

\* The blocks that were read and are kept, and those that are not.
Saved == {b \in DOMAIN base : b = Page \/ Referenced(base, b)}
Loose == {b \in DOMAIN base : b # Page /\ ~Referenced(base, b)}

\* Markers name blocks that the diff knows.  What it deletes is not referenced,
\* and no block that is referenced is below.
MarkInv ==
  /\ pc = "edit" => file \in Seq(LinesOn(Named(doc)))
  /\ pc = "get" => entries \in Seq(EntriesOn(Named(doc)))
  /\ pc \in {"edit", "get"} => OneParent(doc)
  /\ pc \in {"export", "edit"} => entries = << >>
  /\ base = << >> \/ entries \in Seq(EntriesOn(Named(base)))
  /\ IsDiff => Saved \subseteq DOMAIN doc
  /\ IsDiff /\ pc \in {"update", "delete"} =>
       /\ deletes \in Seq(Loose)
       /\ \A x \in DOMAIN doc \cap Loose : ToSet(doc[x].children) \subseteq Loose

\* More ids, more lines and entries.
LEMMA OnMore ==
  ASSUME NEW B, NEW C, B \subseteq C
  PROVE  Seq(LinesOn(B)) \subseteq Seq(LinesOn(C)) /\ Seq(EntriesOn(B)) \subseteq Seq(EntriesOn(C))
<1>1. LinesOn(B) \subseteq LinesOn(C) /\ EntriesOn(B) \subseteq EntriesOn(C)
  BY DEF LinesOn, EntriesOn
<1>2. \A S, T : S \subseteq T => Seq(S) \subseteq Seq(T)
  OBVIOUS
<1> QED BY <1>1, <1>2, Zenon

\* What a colleague does to a document.
LEMMA ColleagueDoes ==
  ASSUME Colleague, fresh \in Nat \ {0}, Tree(doc, fresh)
  PROVE  Grown(doc', doc, fresh) \/ Retexted(doc', doc)
<1>1. ASSUME NEW t \in Texts, doc' = AddBlocks(doc, Page, <<NewBlock("text", t, NoStyle)>>, fresh)
      PROVE  Grown(doc', doc, fresh)
  <2> DEFINE blk == NewBlock("text", t, NoStyle)
             e == AddBlocks(doc, Page, <<blk>>, fresh)
  <2>1. Grown(e, doc, fresh)
    <3> HIDE DEF blk
    <3>1. e = AddBlocks(doc, Page, <<blk>>, fresh) /\ blk = NewBlock("text", t, NoStyle)
      BY DEF blk
    <3> HIDE DEF e
    <3> QED BY <3>1, ParagraphKeeps
  <2>2. doc' = e
    BY <1>1
  <2> HIDE DEF e, blk
  <2> QED BY <2>1, <2>2
<1>2. ASSUME NEW b \in DOMAIN doc, NEW t \in Texts, doc' = SetText(doc, b, t)
      PROVE  Retexted(doc', doc)
  <2>1. doc' = [x \in DOMAIN doc |-> IF x = b THEN [doc[b] EXCEPT !.text = t] ELSE doc[x]]
    BY <1>2 DEF SetText
  <2>2. t \in Strings
    BY DEF Strings
  <2> QED BY <2>1, <2>2 DEF Retexted
<1> QED BY <1>1, <1>2 DEF Colleague

\* The blocks stay what and where they are; only the page may get a new one.
LEMMA ShapeKept ==
  ASSUME NEW n \in Nat \ {0}, NEW d, Tree(d, n), NEW e, Grown(e, d, n) \/ Retexted(e, d)
  PROVE  /\ DOMAIN d \subseteq DOMAIN e
         /\ \A x \in DOMAIN d : e[x].type = d[x].type
                                /\ ToSet(d[x].children) \subseteq ToSet(e[x].children)
         /\ \A x \in DOMAIN d \ {Page} : ToSet(e[x].children) = ToSet(d[x].children)
         /\ OneParent(d) => OneParent(e)
<1>1. CASE Retexted(e, d)
  <2>1. DOMAIN e = DOMAIN d /\ \A x \in DOMAIN d : e[x].children = d[x].children /\ e[x].type = d[x].type
    BY <1>1, TextsKeep
  <2> QED BY <2>1 DEF OneParent
<1>2. CASE Grown(e, d, n)
  <2>1. /\ DOMAIN e = DOMAIN d \cup {n} /\ \A x \in DOMAIN d \ {Page} : e[x] = d[x]
        /\ e[Page].type = d[Page].type /\ ToSet(e[n].children) = {}
        /\ ToSet(e[Page].children) = ToSet(d[Page].children) \cup {n}
    BY <1>2 DEF Grown, ToSet
  <2>2. Page \in DOMAIN d /\ n \notin DOMAIN d /\ \A x \in DOMAIN d : n \notin ToSet(d[x].children)
    <3>1. \A x \in DOMAIN d : d[x].children \in Seq(DOMAIN d)
      BY DEF Tree, Blocks
    <3>2. \A q \in Seq(DOMAIN d) : ToSet(q) \subseteq DOMAIN d
      BY DEF ToSet
    <3> QED BY <3>1, <3>2 DEF Tree
  <2>3. ASSUME OneParent(d) PROVE OneParent(e)
    <3>1. \A a, b \in DOMAIN d : a # b => ToSet(d[a].children) \cap ToSet(d[b].children) = {}
      BY <2>3 DEF OneParent
    <3>2. \A a \in DOMAIN d \ {Page} : ToSet(e[a].children) = ToSet(d[a].children)
      BY <2>1
    <3> DEFINE Kids(f, x) == ToSet(f[x].children)
    <3>3. \A a, b \in DOMAIN e : a # b => Kids(e, a) \cap Kids(e, b) = {}
      <4> SUFFICES ASSUME NEW a \in DOMAIN e, NEW b \in DOMAIN e, a # b
                   PROVE  Kids(e, a) \cap Kids(e, b) = {}
        OBVIOUS
      <4>1. CASE a = n \/ b = n
        BY <2>1, <4>1
      <4>2. CASE a # n /\ b # n
        BY <2>1, <2>2, <3>1, <3>2, <4>2
      <4> QED BY <4>1, <4>2
    <3> QED BY <3>3 DEF OneParent
  <2> QED BY <2>1, <2>2, <2>3
<1> QED BY <1>1, <1>2

\* So the blocks that were known are known.
LEMMA MarkedStays ==
  ASSUME NEW d, NEW e, Page \in DOMAIN d, DOMAIN d \subseteq DOMAIN e,
         \A x \in DOMAIN d : ToSet(d[x].children) \subseteq DOMAIN d,
         \A x \in DOMAIN d : e[x].type = d[x].type
                             /\ ToSet(d[x].children) \subseteq ToSet(e[x].children)
  PROVE  Named(d) \subseteq Named(e)
<1>1. ASSUME NEW v, NEW b, Wraps(d, v, b) PROVE Wraps(e, v, b)
  BY <1>1 DEF Wraps
<1>2. ASSUME NEW b \in DOMAIN d, Known(d, b) PROVE b \in DOMAIN e /\ Known(e, b)
  BY <1>1, <1>2 DEF Known
<1> QED BY <1>2 DEF Named, Marked

\* Nothing is below what is not referenced that is.
LEMMA LooseBelow ==
  ASSUME NEW d, NEW n \in Nat \ {0}, Tree(d, n), OneParent(d),
         NEW x \in DOMAIN d, x # Page, ~Referenced(d, x),
         NEW c \in ToSet(d[x].children)
  PROVE  c \in DOMAIN d /\ c # Page /\ ~Referenced(d, c)
<1>1. Page \in DOMAIN d /\ \A y \in DOMAIN d : ToSet(d[y].children) \subseteq DOMAIN d
  <2>1. \A y \in DOMAIN d : d[y].children \in Seq(DOMAIN d)
    BY DEF Tree, Blocks
  <2>2. \A q \in Seq(DOMAIN d) : ToSet(q) \subseteq DOMAIN d
    BY DEF ToSet
  <2> QED BY <2>1, <2>2 DEF Tree
<1>2. c \in DOMAIN d /\ c # Page
  <2>1. x < c /\ x \in Nat
    BY DEF Tree
  <2> QED BY <1>1, <2>1 DEF Page
<1>3. \A y \in DOMAIN d : c \in ToSet(d[y].children) => y = x
  BY DEF OneParent
<1>4. c \notin ToSet(d[Page].children)
  BY <1>1, <1>3
<1>5. ASSUME Referenced(d, c) PROVE FALSE
  <2>1. PICK i \in Tops : LET e == entries[i].bid IN
                            e # NoBid /\ Known(d, e) /\ (c = e \/ Wraps(d, c, e))
    BY <1>5 DEF Referenced
  <2>2. c = entries[i].bid
    BY <1>4, <2>1 DEF Wraps
  <2>3. PICK v \in DOMAIN d : Wraps(d, v, c)
    BY <1>4, <2>1, <2>2 DEF Known
  <2>4. v = x
    BY <1>3, <2>3 DEF Wraps
  <2> QED BY <2>1, <2>2, <2>3, <2>4 DEF Referenced
<1> QED BY <1>2, <1>5

\* An export of a document without grids.
LEMMA ExportMarked ==
  ASSUME \A d \in Docs : GridFree(d), FileTyped, MarkInv, NewInv, ExportFile
  PROVE  MarkInv'
<1>1. /\ doc \in Docs /\ pc' = "edit" /\ file' = Export(doc) /\ base = << >> /\ entries = << >>
      /\ UNCHANGED <<doc, entries, base>>
  BY DEF ExportFile, FileTyped, MarkInv, NewInv, planVars
<1>2. file' \in Seq(LinesOn(Named(doc)))
  BY <1>1, ExportMarks DEF Named
<1>3. OneParent(doc)
  BY <1>1, DocsAssumption
<1>4. IsDiff' = IsDiff /\ ~IsDiff
  BY <1>1 DEF IsDiff, Tops
<1> QED BY <1>1, <1>2, <1>3, <1>4 DEF MarkInv

\* An edit adds no marker but an empty one.
LEMMA EditMarked ==
  ASSUME MarkInv, NewInv, EditFile
  PROVE  MarkInv'
<1>1. file \in Seq(LinesOn(Named(doc))) /\ NoBid \in Named(doc) /\ pc = "edit"
  BY DEF EditFile, ChangeText, RemoveSection, InsertLine, StripMarkers, Edited, MarkInv, Named
<1>2. /\ pc' = "edit" /\ file' \in Seq(LinesOn(Named(doc)))
      /\ UNCHANGED <<doc, entries, base>>
  BY <1>1, EditLines
<1>3. IsDiff' = IsDiff /\ base = << >> /\ entries = << >> /\ ~IsDiff
  BY <1>1, <1>2 DEF IsDiff, Tops, NewInv, MarkInv
<1> QED BY <1>1, <1>2, <1>3 DEF MarkInv

\* The entries have markers of the file.
LEMMA StartMarked ==
  ASSUME MarkInv, NewInv, Start
  PROVE  MarkInv'
<1>1. /\ pc = "edit" /\ pc' \in {"refused", "get"} /\ entries' = Parse(file).out
      /\ UNCHANGED <<doc, base>> /\ base = << >>
  BY DEF Start, NewInv
<1>2. file \in Seq(LinesOn(Named(doc))) /\ NoBid \in Named(doc) /\ OneParent(doc)
  BY <1>1 DEF MarkInv, Named
<1>3. entries' \in Seq(EntriesOn(Named(doc)))
  BY <1>1, <1>2, ParseOn
<1>4. Saved' = {}
  BY <1>1 DEF Saved
<1> QED BY <1>1, <1>2, <1>3, <1>4 DEF MarkInv

\* A colleague leaves what is known where it is.
LEMMA ColleagueMarked ==
  ASSUME MarkInv, NewInv, Colleague
  PROVE  MarkInv'
<1>1. UNCHANGED <<pc, file, entries, base, deletes>> /\ pc # "export"
  BY DEF Colleague, fileVars, planVars
<1>2. IsDiff' = IsDiff /\ Saved' = Saved /\ Loose' = Loose
  BY <1>1 DEF IsDiff, Tops, Saved, Loose, Referenced
<1>3. DOMAIN doc \subseteq DOMAIN doc'
  <2> DEFINE blk(t) == NewBlock("text", t, NoStyle)
  <2>1. ASSUME NEW t \in Texts, doc' = AddBlocks(doc, Page, <<blk(t)>>, fresh)
        PROVE  DOMAIN doc \subseteq DOMAIN doc'
    <3>1. fresh \in Nat
      BY DEF NewInv
    <3>2. AddBlocks(doc, Page, <<blk(t)>>, fresh) = WithLast(doc, fresh, blk(t))
      BY <3>1, OneBlock, Zenon
    <3> QED BY <2>1, <3>2 DEF WithLast
  <2>2. ASSUME NEW b \in DOMAIN doc, NEW t \in Texts, doc' = SetText(doc, b, t)
        PROVE  DOMAIN doc \subseteq DOMAIN doc'
    BY <2>2 DEF SetText
  <2> QED BY <2>1, <2>2 DEF Colleague
<1>4. IsDiff => Saved \subseteq DOMAIN doc'
  BY <1>3 DEF MarkInv
<1>5. CASE pc \notin Early
  BY <1>1, <1>2, <1>4, <1>5 DEF MarkInv, Early
<1>6. CASE pc \in Early
  <2>1. fresh \in Nat \ {0} /\ Tree(doc, fresh)
    BY <1>6 DEF NewInv
  <2>2. Grown(doc', doc, fresh) \/ Retexted(doc', doc)
    BY <2>1, ColleagueDoes
  <2>3. /\ \A x \in DOMAIN doc : doc'[x].type = doc[x].type
                                /\ ToSet(doc[x].children) \subseteq ToSet(doc'[x].children)
        /\ \A x \in DOMAIN doc \ {Page} : ToSet(doc'[x].children) = ToSet(doc[x].children)
        /\ OneParent(doc) => OneParent(doc')
    BY <2>1, <2>2, ShapeKept
  <2>4. Named(doc) \subseteq Named(doc')
    <3>1. \A x \in DOMAIN doc : doc[x].children \in Seq(DOMAIN doc)
      BY <2>1 DEF Tree, Blocks
    <3>2. \A q \in Seq(DOMAIN doc) : ToSet(q) \subseteq DOMAIN doc
      BY DEF ToSet
    <3>3. Page \in DOMAIN doc /\ \A x \in DOMAIN doc : ToSet(doc[x].children) \subseteq DOMAIN doc
      BY <2>1, <3>1, <3>2 DEF Tree
    <3> QED BY <1>3, <2>3, <3>3, MarkedStays
  <2>5. /\ Seq(LinesOn(Named(doc))) \subseteq Seq(LinesOn(Named(doc')))
        /\ Seq(EntriesOn(Named(doc))) \subseteq Seq(EntriesOn(Named(doc')))
    BY <2>4, OnMore
  <2>6. ASSUME IsDiff, pc \in {"update", "delete"}
        PROVE  \A x \in DOMAIN doc' \cap Loose : ToSet(doc'[x].children) \subseteq Loose
    <3>1. DOMAIN base \subseteq 0 .. fresh - 1 /\ fresh \notin 0 .. fresh - 1
      BY <2>1, <2>6 DEF NewInv
    <3>2. DOMAIN doc' \subseteq DOMAIN doc \cup {fresh}
      BY <2>2 DEF Grown, Retexted
    <3>3. \A x \in DOMAIN doc' \cap Loose : x \in DOMAIN doc \ {Page}
      BY <3>1, <3>2 DEF Loose
    <3> QED BY <2>3, <2>6, <3>3 DEF MarkInv
  <2> QED BY <1>1, <1>2, <1>4, <2>3, <2>5, <2>6 DEF MarkInv
<1> QED BY <1>5, <1>6

\* What the diff makes of the answer.
LEMMA GetMarked ==
  ASSUME NEW o, MarkInv, NewInv, NewInv', GetBlocks(o)
  PROVE  MarkInv'
<1>1. /\ pc = "get" /\ UNCHANGED <<doc, entries>> /\ base = << >>
      /\ \/ pc' = "failed" /\ base' = base
         \/ pc' = "refused" /\ base' = doc
         \/ pc' \in {"delete", "update"} /\ base' = doc /\ (IsDiff => deletes' = ToDelete(doc))
  BY DEF GetBlocks, NewInv
<1>2. IsDiff' = IsDiff
  BY <1>1 DEF IsDiff, Tops
<1>3. Tree(doc, fresh) /\ fresh \in Nat \ {0} /\ OneParent(doc) /\ entries \in Seq(EntriesOn(Named(doc)))
  BY <1>1 DEF NewInv, Early, MarkInv
<1>4. CASE pc' = "failed"
  <2>1. Saved' = {}
    BY <1>1, <1>4 DEF Saved
  <2> QED BY <1>1, <1>2, <1>4, <2>1 DEF MarkInv
<1>5. CASE pc' # "failed"
  <2>1. base' = doc
    BY <1>1, <1>5
  <2>2. \A b : Referenced(base, b)' = Referenced(doc, b)
    BY <1>1, <2>1 DEF Referenced, Known, Wraps, Tops
  <2>3. Saved' \subseteq DOMAIN doc /\ Loose' = {b \in DOMAIN doc : b # Page /\ ~Referenced(doc, b)}
    BY <2>1, <2>2 DEF Saved, Loose
  <2>4. \A x \in DOMAIN doc \cap Loose' : ToSet(doc[x].children) \subseteq Loose'
    BY <1>3, <2>3, LooseBelow
  <2>5. ASSUME IsDiff, pc' \in {"update", "delete"} PROVE deletes' \in Seq(Loose')
    <3> DEFINE K == {b \in DOMAIN doc : ~Referenced(doc, b)}
    <3>1. deletes' = Keep(doc[Page].children, K)
      BY <1>1, <2>5 DEF ToDelete
    <3>2. doc[Page].children \in Seq(DOMAIN doc)
      BY <1>3 DEF Tree, Blocks
    <3> HIDE DEF K
    <3>3. ToSet(deletes') \subseteq K
      BY <3>1, <3>2, Kept
    <3>4. deletes' \in Seq(DOMAIN doc \ {Page})
      <4>1. deletes' \in Seq(Read')
        BY <2>5 DEF NewInv
      <4> QED BY <2>1, <4>1 DEF Read
    <3>5. \A k \in DOMAIN deletes' : deletes'[k] \in Loose'
      BY <2>3, <3>3, <3>4 DEF ToSet, K
    <3> QED BY <3>4, <3>5
  <2> QED BY <1>1, <1>2, <1>3, <2>1, <2>3, <2>4, <2>5 DEF MarkInv
<1> QED BY <1>1, <1>4, <1>5

\* A deletion takes no block that is referenced.
LEMMA DeleteMarked ==
  ASSUME NEW o, MarkInv, NewInv, DeleteNext(o)
  PROVE  MarkInv'
<1>1. /\ pc = "delete" /\ pc' = pc /\ UNCHANGED <<entries, base>> /\ deletes # << >>
      /\ deletes' = Tail(deletes)
      /\ doc' \in {doc, RemoveBlock(doc, Head(deletes))}
  BY DEF DeleteNext, planVars
<1>2. IsDiff' = IsDiff /\ Saved' = Saved /\ Loose' = Loose
  BY <1>1 DEF IsDiff, Tops, Saved, Loose, Referenced
<1>3. base = << >> \/ entries \in Seq(EntriesOn(Named(base)))
  BY DEF MarkInv
<1>4. CASE ~IsDiff
  BY <1>1, <1>2, <1>3, <1>4 DEF MarkInv
<1>5. CASE IsDiff
  <2>1. /\ Tree(doc, fresh) /\ fresh \in Nat \ {0} /\ deletes \in Seq(Loose)
        /\ \A x \in DOMAIN doc \cap Loose : ToSet(doc[x].children) \subseteq Loose
        /\ Saved \subseteq DOMAIN doc
    BY <1>1, <1>5 DEF NewInv, MarkInv, Early
  <2>2. Head(deletes) \in Loose /\ Tail(deletes) \in Seq(Loose) /\ Page \notin Loose
        /\ Saved \cap Loose = {}
    BY <1>1, <2>1 DEF Loose, Saved
  <2>3. /\ DOMAIN doc \ Loose \subseteq DOMAIN doc'
        /\ \A x \in DOMAIN doc' \cap Loose : ToSet(doc'[x].children) \subseteq Loose
    <3>1. CASE doc' = doc
      BY <2>1, <3>1
    <3>2. CASE doc' = RemoveBlock(doc, Head(deletes))
      BY <2>1, <2>2, <3>2, RemoveKeeps
    <3> QED BY <1>1, <3>1, <3>2
  <2>4. Saved \subseteq DOMAIN doc'
    BY <2>1, <2>2, <2>3
  <2> QED BY <1>1, <1>2, <1>3, <2>2, <2>3, <2>4 DEF MarkInv
<1> QED BY <1>4, <1>5

\* The update request leaves blocks where they are.
LEMMA UpdateMarked ==
  ASSUME NEW o, MarkInv, NewInv, FileTyped, BatchUpdate(o)
  PROVE  MarkInv'
<1>1. pc = "update" /\ pc' \in {"delete", "failed"} /\ UNCHANGED <<entries, base, deletes>>
  BY DEF BatchUpdate, planVars
<1>2. IsDiff' = IsDiff /\ Saved' = Saved /\ Loose' = Loose
  BY <1>1 DEF IsDiff, Tops, Saved, Loose, Referenced
<1>3. DOMAIN doc' = DOMAIN doc /\ \A x \in DOMAIN doc : doc'[x].children = doc[x].children
  BY RewrittenShape
<1>4. base = << >> \/ entries \in Seq(EntriesOn(Named(base)))
  BY DEF MarkInv
<1> QED BY <1>1, <1>2, <1>3, <1>4 DEF MarkInv

\* Afterwards the document only grows.
LEMMA LaterMarked ==
  ASSUME MarkInv, pc \notin {"export", "edit", "get", "update"}, pc' \notin Early,
         UNCHANGED <<base, entries>>, DOMAIN doc \subseteq DOMAIN doc'
  PROVE  MarkInv'
<1>1. IsDiff' = IsDiff /\ Saved' = Saved
  BY DEF IsDiff, Tops, Saved, Referenced
<1>2. base = << >> \/ entries \in Seq(EntriesOn(Named(base)))
  BY DEF MarkInv
<1> QED BY <1>1, <1>2 DEF MarkInv, Early

\* A run starts before anything is read.
LEMMA StartsMarked ==
  ASSUME Init
  PROVE  MarkInv
<1>1. entries = << >> /\ base = << >> /\ pc = "export"
  BY DEF Init
<1>2. ~IsDiff
  BY <1>1 DEF IsDiff, Tops
<1> QED BY <1>1, <1>2 DEF MarkInv

\* Each step keeps it.
LEMMA MarkSteps ==
  ASSUME \A d \in Docs : GridFree(d), OnceInv, NewInv, NewInv', MarkInv, [Next]_vars
  PROVE  MarkInv'
<1>1. FileTyped
  BY DEF OnceInv
<1>2. CASE ExportFile \/ EditFile \/ Start \/ Colleague
  BY <1>1, <1>2, ExportMarked, EditMarked, StartMarked, ColleagueMarked
<1>3. CASE DeletesDone \/ BatchesDone \/ Walk
  <2>1. /\ UNCHANGED <<doc, base, entries>> /\ pc \in {"delete", "create", "walk"}
        /\ pc' \notin Early
    BY <1>3 DEF DeletesDone, BatchesDone, Walk, Collect, ReachParent, EndOfList, Flush, planVars, Early
  <2> QED BY <2>1, LaterMarked
<1>4. ASSUME NEW o \in Outcomes, Request(o) PROVE MarkInv'
  <2>1. CASE GetBlocks(o) \/ BatchUpdate(o) \/ DeleteNext(o)
    BY <1>1, <2>1, GetMarked, UpdateMarked, DeleteMarked
  <2>2. CASE CreateBatch(o) \/ CreateParent(o) \/ FindAutoChild(o) \/ FillAutoChild(o)
    BY <2>2, Grows, LaterMarked DEF Early
  <2> QED BY <1>4, <2>1, <2>2 DEF Request
<1>5. CASE UNCHANGED vars
  <2>1. UNCHANGED <<doc, file, pc, entries, base, deletes>>
    BY <1>5 DEF vars, planVars, fileVars
  <2>2. IsDiff' = IsDiff /\ Saved' = Saved /\ Loose' = Loose
    BY <2>1 DEF IsDiff, Tops, Saved, Loose, Referenced
  <2> QED BY <2>1, <2>2 DEF MarkInv
<1> QED BY <1>2, <1>3, <1>4, <1>5 DEF Next, Command

\* A block that the file names is kept.
LEMMA MarkedSaved ==
  ASSUME FileTyped, NewInv, MarkInv
  PROVE  MarkedSurvive
<1> SUFFICES ASSUME IsDiff, pc # "edit", NEW i \in Tops, entries[i].bid \in DOMAIN base
             PROVE  entries[i].bid \in DOMAIN doc
  BY DEF MarkedSurvive
<1> DEFINE e == entries[i].bid
<1>1. i \in DOMAIN entries /\ entries[i].level = 0
  BY DEF Tops
<1>2. e \in Named(base)
  <2>1. base # << >>
    OBVIOUS
  <2>2. entries \in Seq(EntriesOn(Named(base)))
    BY <2>1 DEF MarkInv
  <2>3. entries[i] \in EntriesOn(Named(base))
    BY <1>1, <2>2
  <2> QED BY <2>3 DEF EntriesOn
<1>3. e \in Saved
  BY <1>2 DEF Saved, Referenced, Named, Marked, NoBid, Page
<1> QED BY <1>3 DEF MarkInv

\* A block whose marker is in the file outlives the command, whatever the
\* server answers and whatever a colleague does meanwhile (the keepSet and
\* wrapperOf of doDiffUpdate), in every document without a grid: the export of
\* a grid marks blocks that the diff takes for new.
THEOREM MarkedKept ==
  ASSUME \A d \in Docs : GridFree(d)
  PROVE  Spec => []MarkedSurvive
<1>1. Init => OnceInv /\ NewInv /\ MarkInv
  BY StartsOnce, NewStarts, StartsMarked
<1>2. OnceInv /\ NewInv /\ MarkInv /\ [Next]_vars => (OnceInv /\ NewInv /\ MarkInv)'
  BY StepsOnce, NewSteps, MarkSteps
<1>3. OnceInv /\ NewInv /\ MarkInv => MarkedSurvive
  BY MarkedSaved DEF OnceInv
<1> QED BY <1>1, <1>2, <1>3, PTL DEF Spec

-----------------------------------------------------------------------------
(* An export that nobody edits changes nothing.                            *)

\* Neither the user nor a colleague has changed anything.
Unedited == edits = 0 /\ others = {}

\* Until it is sent back the export is what the document reads as; the diff
\* then finds nothing to do.
NoopInv ==
  /\ edits \in Nat
  /\ Unedited =>
       /\ doc \in Docs /\ doc = exported
       /\ pc \in {"export", "edit", "get", "delete"} \cup Ended
       /\ pc = "edit" => file = Export(doc)
       /\ pc = "get" => entries = Parse(Export(doc)).out /\ entries # << >>
       /\ pc = "delete" => IsDiff /\ deletes = << >> /\ todo = << >>

\* The diff of a document with its own export.
LEMMA NoDiff ==
  ASSUME doc \in Docs, RoundTrips(doc), entries = Parse(Export(doc)).out, entries # << >>
  PROVE  /\ IsDiff
         /\ (\A i \in Tops : ~Unsupported(doc, i)) =>
              Updates(doc) = {} /\ ToDelete(doc) = << >> /\ ToCreate(doc) = << >>
<1> DEFINE ps == Parse(Export(doc))
           bs == doc[Page].children
<1>1. ps \in Sound(doc) /\ \A b \in ToSet(bs) : ps \in Shown(doc, b)
  BY ExportReads
<1>2. entries \in Seq(EntrySet) /\ \A i \in Tops : Stands(doc, entries, i)
  BY <1>1 DEF Sound, Between, ParsersOn, EntrySet, Tops
<1>3. ASSUME NEW b \in ToSet(bs)
      PROVE  \E i \in Tops : entries[i].bid = b \/ Wraps(doc, b, entries[i].bid)
  BY <1>1 DEF Shown, Has, Tops
<1>4. bs \in Seq(DOMAIN doc)
  BY TopsAre, BlockIs
<1>5. IsDiff
  <2>1. bs # << >>
    BY NothingRead
  <2>2. bs[1] \in ToSet(bs)
    BY <1>4, <2>1 DEF ToSet
  <2>3. PICK i \in Tops : TRUE
    BY <1>3, <2>2
  <2> QED BY <1>2, <2>3 DEF IsDiff, Stands
<1>6. ASSUME \A i \in Tops : ~Unsupported(doc, i)
      PROVE  Updates(doc) = {} /\ ToDelete(doc) = << >> /\ ToCreate(doc) = << >>
  <2>1. ASSUME NEW i \in Tops PROVE Matched(doc, i) /\ ~ContentDiffers(doc, i)
    <3>1. Matched(doc, i)
      BY <1>2 DEF Stands, Matched
    <3>2. ~TypeDiffers(doc, i)
      BY <1>6, <3>1 DEF Unsupported
    <3> QED BY <1>2, <3>1, <3>2 DEF TypeDiffers, ContentDiffers, Stands
  <2>2. Updates(doc) = {}
    BY <2>1 DEF Updates
  <2>3. \A A, s : s \in Seq(A) /\ ToSet(s) = {} => s = << >>
    BY NoElement
  <2>4. ToDelete(doc) = << >>
    <3> DEFINE K == {b \in DOMAIN doc : ~Referenced(doc, b)}
    <3>1. \A b \in ToSet(bs) : Referenced(doc, b)
      BY <1>2, <1>3 DEF Referenced, Stands
    <3>2. ToSet(bs) \cap K = {}
      BY <3>1
    <3>3. ToDelete(doc) = Keep(bs, K)
      BY DEF ToDelete
    <3> HIDE DEF K, bs
    <3>4. Keep(bs, K) \in Seq(DOMAIN doc) /\ ToSet(Keep(bs, K)) = ToSet(bs) \cap K
      BY <1>4, Kept
    <3> QED BY <2>3, <3>2, <3>3, <3>4
  <2>5. ToCreate(doc) = << >>
    <3> DEFINE s == [i \in DOMAIN entries |-> i]
               K == {i \in Tops : ~Matched(doc, i)}
    <3>1. K = {}
      BY <2>1
    <3>2. s \in Seq(Nat)
      BY <1>2
    <3>3. ToCreate(doc) = Keep(s, K)
      BY DEF ToCreate
    <3> HIDE DEF K, s
    <3>4. Keep(s, K) \in Seq(Nat) /\ ToSet(Keep(s, K)) = ToSet(s) \cap K
      BY <3>2, Kept
    <3> QED BY <2>3, <3>1, <3>3, <3>4
  <2> QED BY <2>2, <2>4, <2>5
<1> QED BY <1>5, <1>6

\* A run starts with nothing edited.
LEMMA StartsUnedited ==
  ASSUME Init
  PROVE  NoopInv
BY DEF Init, NoopInv, Unedited, Ended

\* Each step keeps it.
LEMMA StepsUnedited ==
  ASSUME \A d \in Docs : RoundTrips(d), NoopInv, [Next]_vars
  PROVE  NoopInv'
<1>1. edits \in Nat
  BY DEF NoopInv
<1>2. CASE EditFile
  <2>1. edits' = edits + 1
    BY <1>2 DEF EditFile, ChangeText, RemoveSection, InsertLine, StripMarkers, Edited
  <2>2. edits' \in Nat /\ edits' # 0
    BY <1>1, <2>1
  <2> QED BY <2>2 DEF NoopInv, Unedited
<1>3. CASE Colleague
  <2>1. edits' = edits /\ others' # {}
    BY <1>3 DEF Colleague, fileVars
  <2> QED BY <1>1, <2>1 DEF NoopInv, Unedited
<1>4. ASSUME UNCHANGED <<edits, others>>,
             Unedited => \/ /\ UNCHANGED <<doc, exported>> /\ doc \in Docs /\ doc = exported
                            /\ \/ pc' \in Ended
                               \/ pc' = "get" /\ entries' = Parse(Export(doc)).out /\ entries' # << >>
                               \/ pc' = "delete" /\ IsDiff' /\ deletes' = << >> /\ todo' = << >>
                         \/ /\ pc' = "edit" /\ doc' = doc /\ exported' = doc /\ doc \in Docs
                            /\ file' = Export(doc)
      PROVE  NoopInv'
  <2>1. Unedited' <=> Unedited
    BY <1>4 DEF Unedited
  <2> QED BY <1>1, <1>4, <2>1 DEF NoopInv, Ended
<1>5. CASE ExportFile
  BY <1>4, <1>5 DEF ExportFile, NoopInv
<1>6. CASE Start
  BY <1>4, <1>6 DEF Start, NoopInv, fileVars, Ended
<1>7. CASE Command
  <2>1. UNCHANGED <<edits, others, exported>>
    BY <1>7 DEF Command, Request, DeletesDone, BatchesDone, Walk, Collect, ReachParent, EndOfList, Flush,
      GetBlocks, BatchUpdate, DeleteNext, CreateBatch, CreateParent, FindAutoChild, FillAutoChild, fileVars
  <2>2. CASE Unedited
    <3>1. /\ doc \in Docs /\ doc = exported /\ pc \in {"export", "edit", "get", "delete"} \cup Ended
          /\ pc = "get" => entries = Parse(Export(doc)).out /\ entries # << >>
          /\ pc = "delete" => IsDiff /\ deletes = << >> /\ todo = << >>
      BY <2>2 DEF NoopInv
    <3>2. DeletesDone \/ \E o \in Outcomes : GetBlocks(o)
      BY <1>7, <3>1 DEF Command, Request, BatchesDone, Walk, Collect, ReachParent, EndOfList, Flush,
        BatchUpdate, DeleteNext, CreateBatch, CreateParent, FindAutoChild, FillAutoChild, Ended
    <3>3. CASE DeletesDone
      <4>1. doc' = doc /\ pc' = "done"
        BY <3>1, <3>3 DEF DeletesDone
      <4> QED BY <1>4, <2>1, <3>1, <4>1 DEF Ended
    <3>4. ASSUME NEW o \in Outcomes, GetBlocks(o) PROVE NoopInv'
      <4>1. pc = "get" /\ doc' = doc /\ entries' = entries
        BY <3>4 DEF GetBlocks
      <4>2. IsDiff /\ RoundTrips(doc)
        BY <3>1, <4>1, NoDiff
      <4>3. IsDiff'
        BY <4>1, <4>2 DEF IsDiff, Tops
      <4>4. CASE pc' \in Ended
        BY <1>4, <2>1, <3>1, <4>1, <4>4
      <4>5. CASE pc' \notin Ended
        <5>1. /\ ~\E i \in Tops : Unsupported(doc, i)
              /\ deletes' = ToDelete(doc) /\ todo' = ToCreate(doc)
              /\ pc' = IF Updates(doc) = {} THEN "delete" ELSE "update"
          BY <3>4, <4>2, <4>5 DEF GetBlocks, Ended
        <5>2. pc' = "delete" /\ deletes' = << >> /\ todo' = << >>
          BY <3>1, <4>1, <4>2, <5>1, NoDiff
        <5> QED BY <1>4, <2>1, <3>1, <4>1, <4>3, <5>2
      <4> QED BY <4>4, <4>5
    <3> QED BY <3>2, <3>3, <3>4
  <2>3. CASE ~Unedited
    BY <1>4, <2>1, <2>3
  <2> QED BY <2>2, <2>3
<1>8. CASE UNCHANGED vars
  <2>1. UNCHANGED <<doc, exported, file, edits, pc, entries, deletes, todo, others>>
    BY <1>8 DEF vars, fileVars, planVars, sendVars
  <2>2. IsDiff' = IsDiff /\ Unedited' = Unedited
    BY <2>1 DEF IsDiff, Tops, Unedited
  <2> QED BY <2>1, <2>2 DEF NoopInv
<1> QED BY <1>2, <1>3, <1>5, <1>6, <1>7, <1>8 DEF Next

\* An export that nobody edited, sent back while no colleague is at work, leaves
\* the document as it is, whatever the server answers: what is read back
\* compares equal to every block (blockComparableContent against
\* mdBlockEntry.Comparable) and no block of the page loses its marker.  This is
\* so in every document that consists of blocks whose Markdown is read back as
\* an entry, and of views of such blocks, with only lists in lists.
THEOREM UneditedKept ==
  ASSUME \A d \in Docs : RoundTrips(d)
  PROVE  Spec => []UneditedIsNoop
<1>1. Init => NoopInv
  BY StartsUnedited
<1>2. NoopInv /\ [Next]_vars => NoopInv'
  BY StepsUnedited
<1>3. NoopInv => UneditedIsNoop
  BY DEF NoopInv, Unedited, UneditedIsNoop
<1> QED BY <1>1, <1>2, <1>3, PTL DEF Spec

-----------------------------------------------------------------------------
(* What a file is parsed to: how its entries are nested.                   *)

\* Only list items and containers have something nested in them, one level deeper,
\* and containers texts.
Regular(es) ==
  /\ \A k \in DOMAIN es : es[k].type \in BlockTypes
  /\ es # << >> => es[1].level = 0
  /\ \A k \in 1 .. Len(es) - 1 : es[k + 1].level > es[k].level =>
       /\ es[k + 1].level = es[k].level + 1
       /\ es[k].type \in ListTypes \/ (es[k].type \in Containers /\ es[k + 1].type = "text")

\* Where a parser must be for its next entries to be such.
Steady ==
  {ps \in ParsersOn(Nat) :
     LET last == ps.out[Len(ps.out)] IN
     /\ Regular(ps.out)
     /\ ps.at \in {"list", "gap"} =>
          ps.out # << >> /\ last.type \in ListTypes /\ last.level + 1 = Len(ps.indents)
     /\ ps.at = "quote" =>
          ps.out # << >> /\ (last.level = 1 \/ (last.type \in Containers /\ last.level = 0))}

\* One more entry.
LEMMA RegularMore ==
  ASSUME NEW es \in Seq(EntrySet), Regular(es), NEW e \in EntrySet, e.type \in BlockTypes,
         e.level = 0 \/
           /\ es # << >> /\ e.level <= es[Len(es)].level + 1
           /\ \/ e.level <= es[Len(es)].level \/ es[Len(es)].type \in ListTypes
              \/ es[Len(es)].type \in Containers /\ e.type = "text"
  PROVE  Regular(Append(es, e)) /\ Append(es, e)[Len(Append(es, e))] = e
<1> DEFINE n == Len(es)
           fs == Append(es, e)
<1>1. /\ n \in Nat /\ DOMAIN es = 1 .. n /\ Len(fs) = n + 1 /\ DOMAIN fs = 1 .. n + 1
      /\ \A k \in 1 .. n : fs[k] = es[k] /\ es[k].level \in Nat
      /\ fs[n + 1] = e /\ e.level \in Nat
  <2>1. \A x \in EntrySet : x.level \in Nat
    BY DEF EntrySet, EntriesOn
  <2> QED BY <2>1
<1>2. es = << >> <=> n = 0
  OBVIOUS
<1> HIDE DEF n, fs
<1>3. \A k \in DOMAIN fs : fs[k].type \in BlockTypes
  BY <1>1 DEF Regular
<1>4. fs[1].level = 0
  BY <1>1, <1>2 DEF n, Regular
<1>5. ASSUME NEW k \in 1 .. Len(fs) - 1, fs[k + 1].level > fs[k].level
      PROVE  /\ fs[k + 1].level = fs[k].level + 1
             /\ fs[k].type \in ListTypes \/ (fs[k].type \in Containers /\ fs[k + 1].type = "text")
  <2>1. CASE k = n
    BY <1>1, <1>5, <2>1 DEF n
  <2>2. CASE k # n
    <3>1. k \in 1 .. n - 1 /\ k \in 1 .. n /\ k + 1 \in 1 .. n
      BY <1>1, <2>2
    <3> QED BY <1>1, <1>5, <3>1 DEF Regular, n
  <2> QED BY <2>1, <2>2
<1> QED BY <1>1, <1>3, <1>4, <1>5 DEF Regular, fs

\* A parser that has taken one more entry at the top.
LEMMA AddSteady ==
  ASSUME NEW ps \in Steady, NEW e \in EntrySet, e.type \in BlockTypes, e.level = 0,
         NEW a \in Contexts, a \notin {"list", "gap"}, a = "quote" => e.type \in Containers
  PROVE  [Add(ps, e) EXCEPT !.at = a] \in Steady
<1> DEFINE qs == [Add(ps, e) EXCEPT !.at = a]
<1>1. ps \in ParsersOn(Nat) /\ Regular(ps.out) /\ ps.out \in Seq(EntrySet)
  BY DEF Steady, ParsersOn, EntrySet
<1>2. qs \in ParsersOn(Nat)
  BY <1>1, AddType DEF EntrySet, NoBid
<1>3. qs.out = Append(ps.out, e) /\ qs.at = a
  BY <1>1 DEF Add, ParsersOn
<1> HIDE DEF qs
<1>4. Regular(qs.out) /\ qs.out[Len(qs.out)] = e /\ qs.out # << >>
  BY <1>1, <1>3, RegularMore
<1> QED BY <1>2, <1>3, <1>4, Zenon DEF Steady, qs

\* An item of a list.
LEMMA ItemSteady ==
  ASSUME NEW ps \in Steady, NEW ln \in LinesOn(Nat), ln.kind \in ListTypes
  PROVE  AddItem(ps, ln) \in Steady
<1> DEFINE listed == ps.at \in {"list", "gap"}
           less == {k \in DOMAIN ps.indents : ps.indents[k] < ln.indent}
           open == IF listed /\ less # {} THEN SubSeq(ps.indents, 1, Max(less)) ELSE << >>
           b == IF listed THEN NoBid ELSE ps.bid
           e == [Entry(b, ln, ln.kind) EXCEPT !.level = Len(open)]
           last == ps.out[Len(ps.out)]
<1>1. /\ ps \in ParsersOn(Nat) /\ Regular(ps.out) /\ ps.out \in Seq(EntrySet)
      /\ ps.indents \in Seq(Nat) /\ ps.bid \in Nat /\ ln.indent \in Nat
      /\ listed => ps.out # << >> /\ last.type \in ListTypes /\ last.level + 1 = Len(ps.indents)
  BY DEF Steady, ParsersOn, EntrySet, LinesOn
<1>2. open \in Seq(Nat) /\ (open # << >> => listed /\ Len(open) <= Len(ps.indents))
  <2> SUFFICES ASSUME less # {}
               PROVE  SubSeq(ps.indents, 1, Max(less)) \in Seq(Nat)
                      /\ Len(SubSeq(ps.indents, 1, Max(less))) <= Len(ps.indents)
    OBVIOUS
  <2>1. less \subseteq 1..Len(ps.indents) /\ Len(ps.indents) \in Nat
    BY <1>1
  <2>2. Max(less) \in 1..Len(ps.indents)
    BY <2>1, MaxOf
  <2> HIDE DEF less
  <2>3. \A i \in 1..Max(less) : ps.indents[i] \in Nat
    BY <1>1, <2>2
  <2> QED BY <1>1, <2>2, <2>3, SubSeqProperties
<1> HIDE DEF open
<1>3. b \in Nat /\ ln.kind \in EntryTypes /\ ln.kind \in BlockTypes
  BY <1>1 DEF NoBid, EntryTypes, LinesOn, BlockTypes
<1>4. Len(open) \in Nat /\ Append(open, ln.indent) \in Seq(Nat)
      /\ Len(Append(open, ln.indent)) = Len(open) + 1
  BY <1>1, <1>2
<1> HIDE DEF b
<1>5. e \in EntrySet /\ e.type = ln.kind /\ e.level = Len(open)
  <2>1. e \in EntrySet
    BY <1>3, <1>4, EntryType DEF EntrySet
  <2> QED BY <2>1 DEF Entry
<1>6. AddItem(ps, ln) = [Add(ps, e) EXCEPT !.at = "list", !.indents = Append(open, ln.indent)]
  BY DEF AddItem, open, b
<1> DEFINE qs == AddItem(ps, ln)
<1>7. qs \in ParsersOn(Nat)
  BY <1>1, AddItemType DEF NoBid
<1> HIDE DEF e
<1>8. qs.out = Append(ps.out, e) /\ qs.at = "list" /\ qs.indents = Append(open, ln.indent)
  BY <1>1, <1>6 DEF Add, ParsersOn
<1>9. e.level = 0 \/ (ps.out # << >> /\ e.level <= last.level + 1 /\ last.type \in ListTypes)
  BY <1>1, <1>2, <1>5
<1> HIDE DEF qs, last
<1>10. Regular(qs.out) /\ qs.out[Len(qs.out)] = e /\ qs.out # << >>
  BY <1>1, <1>3, <1>5, <1>8, <1>9, RegularMore DEF last
<1>11. e.level + 1 = Len(qs.indents)
  BY <1>4, <1>5, <1>8
<1> QED BY <1>3, <1>5, <1>7, <1>8, <1>10, <1>11, Zenon DEF Steady, qs

\* A line of a quote.
LEMMA QuoteSteady ==
  ASSUME NEW ps \in Steady, NEW ln \in LinesOn(Nat)
  PROVE  AddQuote(ps, ln) \in Steady
<1> DEFINE child == [Entry(NoBid, ln, "text") EXCEPT !.level = 1]
           first == Entry(ps.bid, Line("quote", ""), "quoteContainer")
           opened == IF ps.at = "quote" THEN ps ELSE [Add(ps, first) EXCEPT !.at = "quote"]
           qs == AddQuote(ps, ln)
<1>1. ps \in ParsersOn(Nat) /\ ps.bid \in Nat
  BY DEF Steady, ParsersOn
<1>2. child \in EntrySet /\ child.type = "text" /\ child.level = 1
  <2>1. child \in EntrySet
    BY EntryType DEF NoBid, EntryTypes, EntrySet
  <2> QED BY <2>1 DEF Entry
<1>3. first \in EntrySet /\ first.type = "quoteContainer" /\ first.level = 0
  <2>1. Line("quote", "") \in LinesOn(Nat)
    BY TextAssumption DEF Line, LinesOn, LineKinds, Strings, NoBid
  <2>2. first \in EntrySet
    BY <1>1, <2>1, EntryType DEF EntryTypes, EntrySet
  <2> QED BY <2>2 DEF Entry
<1>4. opened \in Steady /\ opened.at = "quote" /\ opened \in ParsersOn(Nat)
  <2>1. CASE ps.at = "quote"
    BY <1>1, <2>1
  <2>2. CASE ps.at # "quote"
    <3> HIDE DEF first
    <3>1. [Add(ps, first) EXCEPT !.at = "quote"] \in Steady
      BY <1>3, AddSteady DEF Contexts, BlockTypes, Containers
    <3>2. [Add(ps, first) EXCEPT !.at = "quote"].at = "quote"
      BY <1>1 DEF Add, ParsersOn
    <3> QED BY <2>2, <3>1, <3>2 DEF Steady
  <2> QED BY <2>1, <2>2
<1>5. qs.out = Append(opened.out, child) /\ qs.at = "quote" /\ qs \in ParsersOn(Nat)
  <2>1. qs \in ParsersOn(Nat)
    BY <1>1, AddQuoteType DEF NoBid
  <2>2. CASE ps.at = "quote"
    BY <1>1, <2>1, <2>2 DEF AddQuote, ParsersOn
  <2>3. CASE ps.at # "quote"
    BY <1>1, <2>1, <2>3 DEF AddQuote, ParsersOn, Add
  <2> QED BY <2>2, <2>3
<1> HIDE DEF qs, opened, child, first
<1> DEFINE last == opened.out[Len(opened.out)]
<1>6. /\ Regular(opened.out) /\ opened.out \in Seq(EntrySet) /\ opened.out # << >>
      /\ last.level = 1 \/ (last.type \in Containers /\ last.level = 0)
  BY <1>4 DEF Steady, ParsersOn, EntrySet
<1>7. child.level <= last.level + 1
      /\ (child.level <= last.level \/ (last.type \in Containers /\ child.type = "text"))
  BY <1>2, <1>6
<1>8. Regular(qs.out) /\ qs.out[Len(qs.out)] = child /\ qs.out # << >>
  BY <1>2, <1>5, <1>6, <1>7, RegularMore DEF BlockTypes
<1> QED BY <1>2, <1>5, <1>8, Zenon DEF Steady, qs

\* Content, and the end of a code block.
LEMMA ContentSteady ==
  ASSUME NEW ps \in Steady, NEW ln \in LinesOn(Nat), ps.at \in {"code", "math"}
  PROVE  AddContent(ps, ln) \in Steady /\ CloseCode(ps) \in Steady
<1> DEFINE o == ps.out
           n == Len(o)
<1>1. ps \in ParsersOn(Nat) /\ Regular(o) /\ o \in Seq(EntrySet) /\ n \in Nat /\ DOMAIN o = 1 .. n
  BY DEF Steady, ParsersOn, EntrySet
<1>2. AddContent(ps, ln) \in ParsersOn(Nat) /\ CloseCode(ps) \in ParsersOn(Nat)
  BY <1>1, CodeTypes DEF NoBid
<1>3. AddContent(ps, ln) \in Steady
  <2> DEFINE qs == AddContent(ps, ln)
  <2>1. qs.at = ps.at /\ qs.out = [o EXCEPT ![n].text = ln.text]
    BY <1>1 DEF AddContent, ParsersOn
  <2>2. Len(qs.out) = n /\ DOMAIN qs.out = 1 .. n
        /\ \A k \in 1 .. n : qs.out[k].type = o[k].type /\ qs.out[k].level = o[k].level
    <3>1. \A k \in 1 .. n : o[k] \in EntrySet
      BY <1>1
    <3>2. qs.out = [k \in 1 .. n |-> IF k = n THEN [o[n] EXCEPT !.text = ln.text] ELSE o[k]]
      BY <1>1, <2>1
    <3> HIDE DEF o, n, qs
    <3>3. \A k \in 1 .. n : qs.out[k].type = o[k].type /\ qs.out[k].level = o[k].level
      BY <3>1, <3>2 DEF EntrySet, EntriesOn
    <3>4. DOMAIN qs.out = 1 .. n
      BY <3>2
    <3>5. qs.out \in Seq(EntrySet)
      BY <1>2 DEF ParsersOn, EntrySet, qs
    <3> QED BY <1>1, <3>3, <3>4, <3>5
  <2> HIDE DEF qs, o, n
  <2>3. Regular(qs.out)
    <3>1. qs.out # << >> => 1 \in 1 .. n
      BY <1>1, <2>2 DEF n
    <3>2. o # << >> <=> 1 \in 1 .. n
      BY <1>1 DEF n
    <3>3. \A k \in 1 .. n - 1 : k \in 1 .. n /\ k + 1 \in 1 .. n
      BY <1>1
    <3> QED BY <1>1, <2>2, <3>1, <3>2, <3>3 DEF Regular, n
  <2> QED BY <1>2, <2>1, <2>3, Zenon DEF Steady, qs
<1>4. CloseCode(ps) \in Steady
  <2> DEFINE qs == CloseCode(ps)
  <2>1. qs.at = "top" /\ qs.out \in {o, Front(o)}
    BY <1>1 DEF CloseCode, ParsersOn
  <2>2. Regular(Front(o))
    <3>1. CASE n = 0
      <4>1. o = << >>
        BY <1>1, <3>1
      <4>2. Front(o) = << >>
        BY <4>1, <3>1 DEF Front
      <4> QED BY <1>1, <4>1, <4>2
    <3>2. CASE n # 0
      <4> DEFINE f == SubSeq(o, 1, n - 1)
      <4>1. n - 1 \in Nat /\ \A k \in 1 .. n - 1 : o[k] \in EntrySet
        BY <1>1, <3>2
      <4>2. Len(f) = n - 1 /\ DOMAIN f = 1 .. n - 1 /\ \A k \in 1 .. n - 1 : f[k] = o[k]
        <5> HIDE DEF o, n
        <5>1. f \in Seq(EntrySet) /\ Len(f) = n - 1 /\ \A k \in 1 .. n - 1 : f[k] = o[k]
          BY <1>1, <4>1, SubSeqProperties
        <5> HIDE DEF f
        <5> QED BY <5>1
      <4>3. Front(o) = f
        BY DEF Front
      <4> HIDE DEF f
      <4>4. f # << >> => 1 \in 1 .. n - 1 /\ o # << >>
        BY <4>1, <4>2
      <4> HIDE DEF o, n
      <4>5. \A k \in 1 .. (n - 1) - 1 : k \in 1 .. n - 1 /\ k + 1 \in 1 .. n - 1
        BY <1>1, <4>1
      <4>6. \A k \in 1 .. n - 1 : k \in 1 .. n
        BY <1>1
      <4> QED BY <1>1, <4>2, <4>3, <4>4, <4>5, <4>6 DEF Regular, n
    <3> QED BY <3>1, <3>2
  <2> HIDE DEF qs, o
  <2>3. Regular(qs.out)
    BY <1>1, <2>1, <2>2
  <2> QED BY <1>2, <2>1, <2>3, Zenon DEF Steady, qs
<1> QED BY <1>3, <1>4

\* A line, wherever the parser is.
LEMMA LineSteady ==
  ASSUME NEW ps \in Steady, NEW ln \in LinesOn(Nat)
  PROVE  ParseLine(ps, ln) \in Steady
<1>1. /\ ps \in ParsersOn(Nat) /\ ps.at \in Contexts /\ ps.bid \in Nat /\ ps.err \in BOOLEAN
      /\ ln.kind \in LineKinds /\ ln.bid \in Nat
  BY DEF Steady, ParsersOn, LinesOn
<1>2. ASSUME NEW t \in EntryTypes, t \in BlockTypes, NEW a \in Contexts, a \notin {"list", "gap"},
             a = "quote" => t \in Containers
      PROVE  [Add(ps, Entry(ps.bid, ln, t)) EXCEPT !.at = a] \in Steady
  <2>1. Entry(ps.bid, ln, t) \in EntrySet
    BY <1>1, EntryType DEF EntrySet
  <2>2. Entry(ps.bid, ln, t).type = t /\ Entry(ps.bid, ln, t).level = 0
    BY DEF Entry
  <2> DEFINE e == Entry(ps.bid, ln, t)
  <2> HIDE DEF e
  <2>3. e \in EntrySet /\ e.type \in BlockTypes /\ e.level = 0
    BY <1>2, <2>1, <2>2 DEF e
  <2>4. [Add(ps, e) EXCEPT !.at = a] \in Steady
    BY <1>2, <2>2, <2>3, AddSteady DEF e
  <2> QED BY <2>4 DEF e
<1>3. ASSUME NEW t \in EntryTypes, t \in BlockTypes
      PROVE  Add(ps, Entry(ps.bid, ln, t)) \in Steady
  <2> DEFINE e == Entry(ps.bid, ln, t)
  <2>1. [Add(ps, e) EXCEPT !.at = "top"] \in Steady
    <3> HIDE DEF e
    <3> QED BY <1>2, <1>3 DEF Contexts, e
  <2>2. [Add(ps, e) EXCEPT !.at = "top"] = Add(ps, e)
    BY <1>1 DEF Add, ParsersOn
  <2> QED BY <2>1, <2>2
<1>4. ASSUME NEW qs \in ParsersOn(Nat), qs.out = ps.out, qs.at \notin {"list", "gap", "quote"}
      PROVE  qs \in Steady
  BY <1>4, Zenon DEF Steady
<1>5. TopLine(ps, ln) \in Steady
  <2>1. CASE ln.kind = "marker" \/ (ln.kind = "heading" /\ ln.text = "")
    <3>1. \E n \in Nat : TopLine(ps, ln) = [ps EXCEPT !.bid = n, !.at = "top"]
      BY <1>1, <2>1 DEF TopLine, PreserveOnly, ListTypes, NoBid
    <3>2. PICK n \in Nat : TopLine(ps, ln) = [ps EXCEPT !.bid = n, !.at = "top"]
      BY <3>1
    <3> DEFINE qs == [ps EXCEPT !.bid = n, !.at = "top"]
    <3>3. qs \in ParsersOn(Nat) /\ qs.out = ps.out /\ qs.at = "top"
      BY <1>1 DEF ParsersOn, Contexts
    <3> HIDE DEF qs
    <3>4. qs \in Steady
      BY <1>4, <3>3
    <3> QED BY <3>2, <3>4 DEF qs
  <2>2. CASE ln.kind = "blank"
    <3> DEFINE a == IF ps.at = "list" THEN "gap" ELSE "top"
               qs == [ps EXCEPT !.at = a]
    <3>1. TopLine(ps, ln) = qs
      BY <1>1, <2>2 DEF TopLine, ParsersOn, PreserveOnly, ListTypes
    <3>2. qs \in ParsersOn(Nat) /\ qs.out = ps.out /\ qs.indents = ps.indents /\ qs.at = a
      BY <1>1 DEF ParsersOn, Contexts
    <3> HIDE DEF qs
    <3>3. qs \in Steady
      <4>1. CASE ps.at = "list"
        BY <3>2, <4>1, Zenon DEF Steady
      <4>2. CASE ps.at # "list"
        BY <1>4, <3>2, <4>2
      <4> QED BY <4>1, <4>2
    <3> QED BY <3>1, <3>3
  <2>3. CASE ln.kind \in {"math", "fence"}
    <3>1. \E a \in {"math", "code"} :
            TopLine(ps, ln) = [Add(ps, Entry(ps.bid, ln, "code")) EXCEPT !.at = a]
      BY <2>3 DEF TopLine, PreserveOnly, ListTypes
    <3>2. {"math", "code"} \subseteq Contexts /\ "code" \in EntryTypes /\ "code" \in BlockTypes
      BY DEF Contexts, EntryTypes, BlockTypes
    <3> QED BY <1>2, <3>1, <3>2
  <2>4. CASE ln.kind \in PreserveOnly
    <3> DEFINE next == Add(ps, Entry(ps.bid, ln, ln.kind))
    <3>1. next \in Steady /\ next.at = "top"
      <4>1. ln.kind \in EntryTypes /\ ln.kind \in BlockTypes
        BY <1>1, <2>4 DEF PreserveOnly, EntryTypes, BlockTypes
      <4>2. next.at = "top"
        BY <1>1 DEF Add, ParsersOn
      <4> QED BY <1>3, <4>1, <4>2
    <3>2. ln.kind \notin {"marker", "blank", "math", "fence"}
      BY <2>4 DEF PreserveOnly
    <3>3. TopLine(ps, ln) = [next EXCEPT !.err = @ \/ ps.bid = NoBid]
      BY <2>4, <3>2 DEF TopLine, PreserveOnly, ListTypes
    <3> HIDE DEF next
    <3> DEFINE qs == [next EXCEPT !.err = @ \/ ps.bid = NoBid]
    <3>4. next \in ParsersOn(Nat)
      BY <3>1 DEF Steady
    <3>5. qs.out = next.out /\ qs.at = "top"
      BY <3>1, <3>4 DEF ParsersOn
    <3>6. qs \in ParsersOn(Nat)
      BY <1>1, <3>3, ParseLineType, <3>4 DEF ParsersOn
    <3> HIDE DEF qs
    <3>7. qs \in Steady
      BY <3>1, <3>5, <3>6, Zenon DEF Steady
    <3> QED BY <3>3, <3>7 DEF qs
  <2>5. CASE ln.kind \in ListTypes
    <3> DEFINE e == Entry(ps.bid, Number, "text")
    <3>1. TopLine(ps, ln) = AddItem(ps, ln) \/ TopLine(ps, ln) = Add(ps, e)
      BY <2>5 DEF TopLine, ListTypes, PreserveOnly, Number
    <3>2. e \in EntrySet /\ e.type = "text" /\ e.level = 0
      BY <1>1, NumberType, EntryType DEF EntrySet, EntryTypes, NoBid, Entry
    <3> HIDE DEF e
    <3>3. [Add(ps, e) EXCEPT !.at = "top"] \in Steady
      BY <3>2, AddSteady DEF BlockTypes, Contexts
    <3>4. [Add(ps, e) EXCEPT !.at = "top"] = Add(ps, e)
      BY <1>1 DEF Add, ParsersOn
    <3> QED BY <2>5, <3>1, <3>3, <3>4, ItemSteady
  <2>6. CASE ln.kind = "quote"
    BY <2>6, QuoteSteady DEF TopLine, ListTypes, PreserveOnly
  <2>7. CASE ln.kind = "callout"
    <3>1. TopLine(ps, ln) = [Add(ps, Entry(ps.bid, ln, "callout")) EXCEPT !.at = "quote"]
      BY <2>7 DEF TopLine, AddCallout, ListTypes, PreserveOnly
    <3>2. /\ "callout" \in EntryTypes /\ "callout" \in BlockTypes /\ "callout" \in Containers
          /\ "quote" \in Contexts
      BY DEF EntryTypes, LineKinds, BlockTypes, Containers, Contexts
    <3> QED BY <1>2, <3>1, <3>2
  <2>8. CASE ln.kind \notin {"marker", "blank", "math", "fence", "quote", "callout"}
                           \cup PreserveOnly \cup ListTypes
             /\ ~(ln.kind = "heading" /\ ln.text = "")
    <3>1. \E t \in {"text", "heading", "divider"} : TopLine(ps, ln) = Add(ps, Entry(ps.bid, ln, t))
      BY <2>8 DEF TopLine, ListTypes
    <3>2. {"text", "heading", "divider"} \subseteq EntryTypes \cap BlockTypes
      BY DEF EntryTypes, LineKinds, BlockTypes
    <3> QED BY <1>3, <3>1, <3>2
  <2> QED BY <2>1, <2>2, <2>3, <2>4, <2>5, <2>6, <2>7, <2>8
<1>6. [ps EXCEPT !.at = "top"] \in Steady
  <2> DEFINE qs == [ps EXCEPT !.at = "top"]
  <2>1. qs \in ParsersOn(Nat) /\ qs.out = ps.out /\ qs.at = "top"
    BY <1>1 DEF ParsersOn, Contexts
  <2> HIDE DEF qs
  <2>2. qs \in Steady
    BY <1>4, <2>1
  <2> QED BY <2>2 DEF qs
<1> QED BY <1>5, <1>6, ContentSteady DEF ParseLine

\* So the entries of a file are such.
LEMMA ParseRegular ==
  ASSUME NEW ls \in Seq(Lines)
  PROVE  Regular(Parse(ls).out)
<1>1. ls \in Seq(LinesOn(Nat))
  BY LinesAre
<1>2. ParserInit \in Steady
  <2>1. ParserInit \in ParsersOn(Nat)
    BY DEF ParserInit, ParsersOn, Contexts, NoBid
  <2>2. Regular(ParserInit.out)
    BY DEF ParserInit, Regular
  <2>3. ParserInit.at = "top"
    BY DEF ParserInit
  <2> QED BY <2>1, <2>2, <2>3 DEF Steady
<1>3. Steady \in SUBSET ParsersOn(Nat)
  BY DEF Steady
<1>4. \A ps \in Steady, k \in DOMAIN ls : ParseLine(ps, ls[k]) \in Steady
  BY <1>1, LineSteady
<1>5. PICK qs \in Steady : Runs(ParserInit, ls, qs)
  BY <1>1, <1>2, <1>3, <1>4, RunsThrough
<1> QED BY <1>1, <1>5, ParseIs DEF Steady

-----------------------------------------------------------------------------
(* What is in a document, in reading order.                                *)

\* Keep goes through lists that are put together one by one.
LEMMA KeepJoin ==
  ASSUME NEW A, NEW s \in Seq(A), NEW t \in Seq(A), NEW K
  PROVE  Keep(s \o t, K) = Keep(s, K) \o Keep(t, K)
<1>1. Sift(s \o t, K) = Sift(s, K) \o Sift(t, K)
  BY SiftJoin
<1> QED BY <1>1, KeepSifts

\* What keeps nothing, and a list of one.
LEMMA KeepOne ==
  ASSUME NEW A, NEW s \in Seq(A), NEW K
  PROVE  /\ \A x \in A : Keep(<<x>>, K) = IF x \in K THEN <<x>> ELSE << >>
         /\ ToSet(s) \cap K = {} => Keep(s, K) = << >>
BY SiftOne, KeepSifts

\* Keep goes through a list of lists.
LEMMA KeepFlat ==
  ASSUME NEW A, NEW B, NEW K, NEW s \in Seq(A), NEW f \in Maps(A, Seq(B)),
         NEW g \in Maps(A, Seq(B)), \A x \in A : g[x] = Keep(f[x], K)
  PROVE  Keep(FlattenSeq(Image(f, s)), K) = FlattenSeq(Image(g, s))
<1>1. \A x \in A : g[x] = Sift(f[x], K)
  BY KeepSifts
<1> QED BY <1>1, SiftFlat, KeepSifts

\* The equation of Order.
Listed(h, d) == [x \in DOMAIN d |-> <<x>> \o FlattenSeq(Image(h, d[x].children))]

\* It has a solution.
LEMMA OrderExists ==
  ASSUME NEW n \in Nat \ {0}, NEW d, Tree(d, n)
  PROVE  \E h \in Maps(DOMAIN d, Seq(DOMAIN d)) : h = Listed(h, d)
<1> DEFINE m == n - 1
           D == DOMAIN d
           kids(x) == d[x].children
           v(h, x) == <<x>> \o FlattenSeq(Image(h, kids(x)))
           At(h, x) == h[x] = v(h, x)
           S == {b \in 0..m : \E h \in Maps(D, Seq(D)) : \A x \in D : b <= x => At(h, x)}
<1>1. /\ m \in Nat /\ D \subseteq 0..m
      /\ \A x \in D : kids(x) \in Seq(D) /\ \A c \in ToSet(kids(x)) : x < c
  <2>1. \A x \in D : d[x].children \in Seq(D)
    BY DEF Tree, Blocks
  <2> QED BY <2>1 DEF Tree
<1> HIDE DEF m, D, kids
<1>2. ASSUME NEW b \in 0..m, \A c \in 0..m : b < c => c \in S PROVE b \in S
  <2>1. \E h \in Maps(D, Seq(D)) : \A x \in D : b < x => At(h, x)
    <3>1. CASE b = m
      <4>1. [x \in D |-> << >>] \in Maps(D, Seq(D)) /\ \A x \in D : ~(b < x)
        BY <1>1, <3>1 DEF Maps
      <4> HIDE DEF At
      <4> QED BY <4>1, Zenon
    <3>2. CASE b # m
      <4>1. b + 1 \in 0..m /\ b < b + 1
        BY <1>1, <3>2
      <4>2. PICK h \in Maps(D, Seq(D)) : \A x \in D : b + 1 <= x => At(h, x)
        BY <1>2, <4>1
      <4>3. \A x \in D : b < x => b + 1 <= x
        BY <1>1
      <4> HIDE DEF At
      <4> QED BY <4>2, <4>3
    <3> QED BY <3>1, <3>2
  <2>2. PICK h \in Maps(D, Seq(D)) : \A x \in D : b < x => At(h, x)
    BY <2>1
  <2> DEFINE w == v(h, b)
             g == [h EXCEPT ![b] = w]
  <2>3. b \in D => w \in Seq(D)
    <3> SUFFICES ASSUME b \in D PROVE w \in Seq(D)
      OBVIOUS
    <3> DEFINE ss == Image(h, kids(b))
    <3>1. ss \in Seq(Seq(D))
      BY <1>1, EachType
    <3> HIDE DEF ss
    <3>2. FlattenSeq(ss) \in Seq(D) /\ <<b>> \in Seq(D)
      BY <3>1, Flattened
    <3>3. <<b>> \o FlattenSeq(ss) \in Seq(D)
      BY <3>2
    <3> QED BY <3>3 DEF ss
  <2> HIDE DEF w
  <2>4. h \in [D -> Seq(D)]
    BY <2>2 DEF Maps
  <2>5. g \in [D -> Seq(D)]
    BY <2>3, <2>4
  <2>6. \A x \in D : x # b => g[x] = h[x]
    BY <2>4
  <2>7. b \in D => g[b] = w
    BY <2>4
  <2> HIDE DEF g
  <2>8. ASSUME NEW x \in D, b <= x PROVE At(g, x)
    <3>1. \A c \in ToSet(kids(x)) : g[c] = h[c]
      <4> SUFFICES ASSUME NEW c \in ToSet(kids(x)) PROVE g[c] = h[c]
        OBVIOUS
      <4>1. c \in D /\ x < c
        <5>1. \A q \in Seq(D) : ToSet(q) \subseteq D
          BY DEF ToSet
        <5> QED BY <1>1, <5>1
      <4>2. c # b
        BY <1>1, <2>8, <4>1
      <4> QED BY <2>6, <4>1, <4>2
    <3>2. Image(g, kids(x)) = Image(h, kids(x))
      BY <1>1, <3>1, EachSame
    <3>3. CASE x = b
      BY <2>7, <3>2, <3>3 DEF w
    <3>4. CASE x # b
      <4>1. b < x
        BY <1>1, <2>8, <3>4
      <4>2. At(h, x)
        BY <2>2, <4>1
      <4> QED BY <2>6, <3>2, <3>4, <4>2
    <3> QED BY <3>3, <3>4
  <2>9. g \in Maps(D, Seq(D))
    BY <2>5 DEF Maps
  <2> HIDE DEF At
  <2> QED BY <2>8, <2>9
<1> HIDE DEF S
<1>3. 0 \in S
  <2>1. 0 \in 0..m
    BY <1>1
  <2> QED BY <1>1, <1>2, <2>1, Downward
<1>4. PICK h \in Maps(D, Seq(D)) : \A x \in D : 0 <= x => At(h, x)
  BY <1>3 DEF S
<1>5. \A x \in D : h[x] = v(h, x)
  BY <1>1, <1>4
<1>6. h = [x \in D |-> v(h, x)]
  <2>1. h \in [D -> Seq(D)]
    BY <1>4 DEF Maps
  <2> HIDE DEF v
  <2> QED BY <1>5, <2>1, Zenon
<1> QED BY <1>4, <1>6 DEF Listed, D, kids

\* The blocks of K that are b or below, in reading order.
Under(d, K, b) == Keep(Order(d, b), K)
Unders(d, K) == [x \in DOMAIN d |-> Under(d, K, x)]

\* The block, and behind it what is below each child.
LEMMA UnderIs ==
  ASSUME NEW n \in Nat \ {0}, NEW d, Tree(d, n), NEW K
  PROVE  /\ Unders(d, K) \in Maps(DOMAIN d, Seq(DOMAIN d))
         /\ \A x \in DOMAIN d :
              /\ Order(d, x) \in Seq(DOMAIN d)
              /\ Under(d, K, x) = (IF x \in K THEN <<x>> ELSE << >>)
                                    \o FlattenSeq(Image(Unders(d, K), d[x].children))
<1> DEFINE D == DOMAIN d
           m == n - 1
           h == CHOOSE g : g = Listed(g, d)
           u == Unders(d, K)
           kids(x) == d[x].children
<1>1. /\ m \in Nat /\ D \subseteq 0..m
      /\ \A x \in D : /\ kids(x) \in Seq(D)
                     /\ \A c \in ToSet(kids(x)) : c \in D /\ x < c
  <2>1. \A x \in D : d[x].children \in Seq(D)
    BY DEF Tree, Blocks
  <2>2. \A q \in Seq(D) : ToSet(q) \subseteq D
    BY DEF ToSet
  <2> QED BY <2>1, <2>2 DEF Tree
<1>2. PICK f \in Maps(D, Seq(D)) : f = Listed(f, d)
  BY OrderExists
<1>3. h = Listed(h, d)
  BY <1>2
<1>4. \A x \in D : Order(d, x) = h[x]
  BY Zenon DEF Order, Listed, Image
<1> HIDE DEF h
<1>5. \A x \in D : /\ f[x] = <<x>> \o FlattenSeq(Image(f, kids(x)))
                   /\ h[x] = <<x>> \o FlattenSeq(Image(h, kids(x)))
  BY <1>2, <1>3, Zenon DEF Listed
<1> HIDE DEF D, m, kids
<1>6. \A x \in D : h[x] = f[x]
  <2> DEFINE S == {x \in 0..m : x \in D => h[x] = f[x]}
  <2>1. ASSUME NEW x \in 0..m, \A c \in 0..m : x < c => c \in S PROVE x \in S
    <3> SUFFICES ASSUME x \in D PROVE h[x] = f[x]
      OBVIOUS
    <3>1. \A c \in ToSet(kids(x)) : h[c] = f[c]
      BY <1>1, <2>1
    <3>2. Image(h, kids(x)) = Image(f, kids(x))
      BY <1>1, <3>1, EachSame
    <3> QED BY <1>5, <3>2
  <2> HIDE DEF S
  <2>2. 0..m \subseteq S
    BY <1>1, <2>1, Downward
  <2> QED BY <1>1, <2>2 DEF S
<1>7. /\ u \in Maps(D, Seq(D)) /\ u = [x \in D |-> Keep(f[x], K)]
      /\ \A x \in D : Order(d, x) = f[x] /\ f[x] \in Seq(D)
  <2>1. \A x \in D : Order(d, x) = f[x] /\ f[x] \in Seq(D)
    BY <1>4, <1>6 DEF Maps
  <2>2. u = [x \in D |-> Keep(f[x], K)]
    BY <2>1, Zenon DEF Unders, Under, D
  <2>3. \A x \in D : Keep(f[x], K) \in Seq(D)
    BY <2>1, Kept
  <2>4. u \in Maps(D, Seq(D))
    BY <2>2, <2>3, Zenon DEF Maps
  <2> QED BY <2>1, <2>2, <2>4
<1> HIDE DEF u
<1>8. ASSUME NEW x \in D
      PROVE  Under(d, K, x) = (IF x \in K THEN <<x>> ELSE << >>) \o FlattenSeq(Image(u, kids(x)))
  <2> DEFINE ss == Image(f, kids(x))
             a == <<x>>
             b == FlattenSeq(ss)
  <2>1. kids(x) \in Seq(D)
    BY <1>1
  <2>2. ss \in Seq(Seq(D))
    BY <2>1, EachType
  <2>3. b \in Seq(D)
    <3> HIDE DEF ss
    <3> QED BY <2>2, Flattened
  <2>4. Keep(b, K) = FlattenSeq(Image(u, kids(x)))
    <3>1. u \in Maps(D, Seq(D)) /\ \A y \in D : u[y] = Keep(f[y], K)
      BY <1>7
    <3> HIDE DEF D
    <3> QED BY <2>1, <3>1, KeepFlat
  <2>5. a \in Seq(D) /\ Keep(a, K) = IF x \in K THEN <<x>> ELSE << >>
    <3>1. a \in Seq(D)
      OBVIOUS
    <3> QED BY <3>1, KeepOne
  <2>6. Order(d, x) = a \o b
    BY <1>5, <1>7
  <2> HIDE DEF a, b, ss
  <2>7. Keep(a \o b, K) = Keep(a, K) \o Keep(b, K)
    <3>1. a \in Seq(D) /\ b \in Seq(D)
      BY <2>3, <2>5
    <3> QED BY <3>1, KeepJoin
  <2> QED BY <2>4, <2>5, <2>6, <2>7 DEF Under
<1> QED BY <1>7, <1>8 DEF D, u, kids

-----------------------------------------------------------------------------
(* What is added at the end of a way down from the page.                   *)

\* c is a child of b, and nothing of K is below the children behind it.
LastChild(d, K, b, c) ==
  \E j \in DOMAIN d[b].children :
    /\ d[b].children[j] = c
    /\ \A i \in DOMAIN d[b].children : i # j => d[b].children[i] # c
    /\ \A i \in DOMAIN d[b].children : i > j => Under(d, K, d[b].children[i]) = << >>

\* A way down from the page, along such children.
Trunk(d, K, way) ==
  /\ way \in Seq(DOMAIN d) /\ Len(way) > 0 /\ way[1] = Page /\ IsInjective(way)
  /\ \A k \in 1 .. Len(way) - 1 : LastChild(d, K, way[k], way[k + 1])

\* A block of it is below the block before it, and not below others.
LEMMA OnTrunk ==
  ASSUME NEW n \in Nat \ {0}, NEW d, Tree(d, n), OneParent(d), NEW K, NEW way, Trunk(d, K, way),
         NEW b \in DOMAIN d, NEW c \in ToSet(d[b].children), c \in ToSet(way)
  PROVE  \E k \in 1 .. Len(way) - 1 : b = way[k] /\ c = way[k + 1]
<1> DEFINE l == Len(way)
<1>1. l \in Nat /\ DOMAIN way = 1..l /\ \A k \in 1..l : way[k] \in DOMAIN d
  BY DEF Trunk
<1>2. PICK m \in 1..l : c = way[m]
  BY <1>1 DEF ToSet
<1>3. b < c /\ b \in Nat
  BY DEF Tree
<1>4. m # 1
  BY <1>2, <1>3 DEF Trunk, Page
<1>5. m - 1 \in 1 .. l - 1 /\ (m - 1) + 1 = m /\ m - 1 \in 1..l
  BY <1>1, <1>4
<1>6. LastChild(d, K, way[m - 1], way[m])
  BY <1>5 DEF Trunk
<1>7. way[m] \in ToSet(d[way[m - 1]].children)
  BY <1>6 DEF LastChild, ToSet
<1>8. way[m - 1] = b
  BY <1>1, <1>2, <1>5, <1>7 DEF OneParent
<1> QED BY <1>2, <1>5, <1>8

\* Between d and e only x gets other children, and only x may be of K or L alone.
Changed(e, L, d, K, x) ==
  /\ DOMAIN d \subseteq DOMAIN e
  /\ \A b \in DOMAIN d : b # x => e[b].children = d[b].children /\ (b \in L <=> b \in K)

\* What is not above x is as before.
LEMMA OffTrunk ==
  ASSUME NEW n \in Nat \ {0}, NEW d, Tree(d, n), OneParent(d),
         NEW m \in Nat \ {0}, NEW e, Tree(e, m),
         NEW K, NEW L, NEW way, Trunk(d, K, way), Changed(e, L, d, K, way[Len(way)])
  PROVE  \A b \in DOMAIN d : b \notin ToSet(way) => Under(e, L, b) = Under(d, K, b)
<1> DEFINE D == DOMAIN d
           E == DOMAIN e
           u == Unders(d, K)
           v == Unders(e, L)
           S == {b \in 0 .. n - 1 : b \in D /\ b \notin ToSet(way) => v[b] = u[b]}
<1>1. /\ n - 1 \in Nat /\ D \subseteq 0 .. n - 1 /\ D \subseteq E
      /\ \A b \in D : d[b].children \in Seq(D) /\ \A c \in ToSet(d[b].children) : c \in D /\ b < c
  <2>1. \A b \in D : d[b].children \in Seq(D)
    BY DEF Tree, Blocks
  <2>2. \A q \in Seq(D) : ToSet(q) \subseteq D
    BY DEF ToSet
  <2> QED BY <2>1, <2>2 DEF Tree, Changed
<1>2. \A b \in D : u[b] = Under(d, K, b) /\ v[b] = Under(e, L, b)
  BY <1>1, Zenon DEF Unders
<1> HIDE DEF u, v
<1>3. ASSUME NEW b \in 0 .. n - 1, \A c \in 0 .. n - 1 : b < c => c \in S PROVE b \in S
  <2> SUFFICES ASSUME b \in D, b \notin ToSet(way) PROVE v[b] = u[b]
    OBVIOUS
  <2>1. b # way[Len(way)]
    BY DEF Trunk, ToSet
  <2>2. e[b].children = d[b].children /\ (b \in L <=> b \in K)
    BY <2>1 DEF Changed
  <2>3. \A c \in ToSet(d[b].children) : c \in D /\ b < c /\ c \notin ToSet(way)
    <3> SUFFICES ASSUME NEW c \in ToSet(d[b].children), c \in ToSet(way) PROVE FALSE
      BY <1>1
    <3>1. PICK k \in 1 .. Len(way) - 1 : b = way[k]
      BY OnTrunk
    <3>2. k \in DOMAIN way
      BY DEF Trunk
    <3> QED BY <3>1, <3>2 DEF ToSet
  <2>4. \A c \in ToSet(d[b].children) : v[c] = u[c]
    BY <1>1, <1>3, <2>3
  <2>5. Image(v, d[b].children) = Image(u, d[b].children)
    BY <1>1, <2>4, EachSame
  <2>6. /\ Under(d, K, b) = (IF b \in K THEN <<b>> ELSE << >>) \o FlattenSeq(Image(u, d[b].children))
        /\ Under(e, L, b) = (IF b \in L THEN <<b>> ELSE << >>) \o FlattenSeq(Image(v, e[b].children))
    BY <1>1, UnderIs DEF u, v
  <2> QED BY <1>2, <2>2, <2>5, <2>6
<1> HIDE DEF S
<1>4. 0 .. n - 1 \subseteq S
  BY <1>1, <1>3, Downward
<1> QED BY <1>1, <1>2, <1>4 DEF S

\* What is below x in e is what is below it in d, and s behind it.
Gains(e, L, d, K, x, s) == s \in Seq(DOMAIN e) /\ Under(e, L, x) = Under(d, K, x) \o s

\* What is added below x is added below all that is above x.
LEMMA UpTrunk ==
  ASSUME NEW n \in Nat \ {0}, NEW d, Tree(d, n), OneParent(d),
         NEW m \in Nat \ {0}, NEW e, Tree(e, m),
         NEW K, NEW L, NEW way, Trunk(d, K, way), Changed(e, L, d, K, way[Len(way)]),
         NEW s, Gains(e, L, d, K, way[Len(way)], s)
  PROVE  /\ Gains(e, L, d, K, Page, s)
         /\ \A k \in 1 .. Len(way) - 1 : LastChild(e, L, way[k], way[k + 1])
<1> DEFINE D == DOMAIN d
           E == DOMAIN e
           u == Unders(d, K)
           v == Unders(e, L)
           l == Len(way)
           S == {k \in 0..l : k # 0 => Under(e, L, way[k]) = Under(d, K, way[k]) \o s}
<1>0. s \in Seq(E) /\ Under(e, L, way[l]) = Under(d, K, way[l]) \o s
  BY DEF Gains
<1>1. /\ D \subseteq E /\ u \in Maps(D, Seq(D)) /\ v \in Maps(E, Seq(E))
      /\ \A b \in D : d[b].children \in Seq(D) /\ ToSet(d[b].children) \subseteq D
      /\ \A b \in D : u[b] = Under(d, K, b) /\ v[b] = Under(e, L, b)
  <2>1. \A b \in D : d[b].children \in Seq(D)
    BY DEF Tree, Blocks
  <2>2. \A q \in Seq(D) : ToSet(q) \subseteq D
    BY DEF ToSet
  <2>3. D \subseteq E
    BY DEF Changed
  <2>4. \A b \in D : u[b] = Under(d, K, b) /\ v[b] = Under(e, L, b)
    BY <2>3, Zenon DEF Unders
  <2> HIDE DEF u, v
  <2> QED BY <2>1, <2>2, <2>3, <2>4, UnderIs DEF u, v
<1>2. /\ l \in Nat /\ l # 0 /\ DOMAIN way = 1..l /\ \A k \in 1..l : way[k] \in D
      /\ way[1] = Page /\ \A i, k \in 1..l : way[i] = way[k] => i = k
  BY DEF Trunk, IsInjective
<1>9. \A b \in D : b \notin ToSet(way) => Under(e, L, b) = Under(d, K, b)
  BY OffTrunk
<1>10. \A b \in D :
         /\ Under(d, K, b) = (IF b \in K THEN <<b>> ELSE << >>) \o FlattenSeq(Image(u, d[b].children))
         /\ Under(e, L, b) = (IF b \in L THEN <<b>> ELSE << >>) \o FlattenSeq(Image(v, e[b].children))
  <2>1. \A b \in D : Under(d, K, b) = (IF b \in K THEN <<b>> ELSE << >>) \o FlattenSeq(Image(u, d[b].children))
    <3>1. n \in Nat \ {0} /\ Tree(d, n)
      OBVIOUS
    <3> HIDE DEF v, E, l, S
    <3> QED BY <3>1, UnderIs
  <2>2. \A b \in E : Under(e, L, b) = (IF b \in L THEN <<b>> ELSE << >>) \o FlattenSeq(Image(v, e[b].children))
    BY UnderIs
  <2> QED BY <1>1, <2>1, <2>2
<1> HIDE DEF u, v, l
<1>3. ASSUME NEW k \in 1 .. l - 1
      PROVE  /\ way[k] # way[l] /\ e[way[k]].children = d[way[k]].children
             /\ (way[k] \in L <=> way[k] \in K) /\ k \in 1..l /\ k + 1 \in 1..l
             /\ LastChild(d, K, way[k], way[k + 1])
             /\ \A c \in ToSet(d[way[k]].children) : c # way[k + 1] => c \notin ToSet(way) /\ v[c] = u[c]
  <2>1. k \in 1..l /\ k + 1 \in 1..l /\ k # l /\ l \in 1..l
    BY <1>2
  <2>2. way[k] # way[l] /\ way[k] \in D
    BY <1>2, <2>1
  <2>3. LastChild(d, K, way[k], way[k + 1])
    BY DEF Trunk, l
  <2>4. ASSUME NEW c \in ToSet(d[way[k]].children), c # way[k + 1]
        PROVE  c \notin ToSet(way) /\ v[c] = u[c]
    <3>1. c \notin ToSet(way)
      <4> SUFFICES ASSUME c \in ToSet(way) PROVE FALSE
        OBVIOUS
      <4>1. PICK i \in 1 .. l - 1 : way[k] = way[i] /\ c = way[i + 1]
        BY <2>2, OnTrunk DEF l
      <4>2. i = k
        BY <1>2, <2>1, <4>1
      <4> QED BY <2>4, <4>1, <4>2
    <3> QED BY <1>1, <1>9, <2>2, <3>1
  <2> QED BY <2>1, <2>2, <2>3, <2>4 DEF Changed, l
<1>4. ASSUME NEW k \in 0..l, \A i \in 0..l : k < i => i \in S PROVE k \in S
  <2> SUFFICES ASSUME k # 0 PROVE Under(e, L, way[k]) = Under(d, K, way[k]) \o s
    OBVIOUS
  <2>1. CASE k = l
    BY <1>0, <2>1
  <2>2. CASE k # l
    <3> DEFINE b == way[k]
               ch == d[b].children
               ss == Image(u, ch)
               tt == Image(v, ch)
               own == IF b \in K THEN <<b>> ELSE << >>
    <3>1. k \in 1 .. l - 1 /\ k + 1 \in 0..l /\ k + 1 # 0 /\ k < k + 1
      BY <1>2, <2>2
    <3>2. b \in D /\ ch \in Seq(D) /\ ch \in Seq(E) /\ e[b].children = ch
      <4>1. Seq(D) \subseteq Seq(E)
        BY <1>1
      <4> QED BY <1>1, <1>2, <1>3, <3>1, <4>1
    <3>3. v[way[k + 1]] = u[way[k + 1]] \o s
      <4>1. k + 1 \in S /\ way[k + 1] \in D
        BY <1>2, <1>3, <1>4, <3>1
      <4> QED BY <1>1, <3>1, <4>1
    <3>4. PICK j \in DOMAIN ch :
            /\ ch[j] = way[k + 1]
            /\ \A i \in DOMAIN ch : i # j => ch[i] # way[k + 1]
            /\ \A i \in DOMAIN ch : i > j => Under(d, K, ch[i]) = << >>
      BY <1>3, <3>1 DEF LastChild
    <3>5. \A i \in DOMAIN ch : i # j => v[ch[i]] = u[ch[i]]
      <4>1. \A i \in DOMAIN ch : ch[i] \in ToSet(ch)
        BY DEF ToSet
      <4> QED BY <1>3, <3>1, <3>4, <4>1
    <3>6. \A i \in DOMAIN ch : i > j => u[ch[i]] = << >>
      <4>1. \A i \in DOMAIN ch : ch[i] \in D
        BY <3>2
      <4> QED BY <1>1, <3>4, <4>1
    <3>7. /\ Under(d, K, b) = own \o FlattenSeq(ss)
          /\ Under(e, L, b) = own \o FlattenSeq(tt)
      <4>1. b \in L <=> b \in K
        BY <1>3, <3>1
      <4>2. /\ Under(d, K, b) = (IF b \in K THEN <<b>> ELSE << >>) \o FlattenSeq(Image(u, d[b].children))
            /\ Under(e, L, b) = (IF b \in L THEN <<b>> ELSE << >>) \o FlattenSeq(Image(v, e[b].children))
        BY <1>10, <3>2
      <4> QED BY <3>2, <4>1, <4>2
    <3> HIDE DEF ch, b
    <3>8. /\ ss \in Seq(Seq(D)) /\ Len(ss) = Len(ch) /\ \A i \in 1..Len(ch) : ss[i] = u[ch[i]]
      BY <1>1, <3>2, EachType
    <3>9. /\ tt \in Seq(Seq(E)) /\ Len(tt) = Len(ch) /\ \A i \in 1..Len(ch) : tt[i] = v[ch[i]]
      BY <1>1, <3>2, EachType
    <3>10. ss \in Seq(Seq(E)) /\ DOMAIN ch = 1..Len(ch) /\ j \in Nat /\ own \in Seq(E)
      <4>1. Seq(Seq(D)) \subseteq Seq(Seq(E)) /\ b \in E
        <5>1. Seq(D) \subseteq Seq(E)
          BY <1>1
        <5> QED BY <1>1, <3>2, <5>1
      <4>2. DOMAIN ch = 1..Len(ch) /\ j \in Nat
        BY <3>2, <3>4
      <4>3. own \in Seq(E)
        <5>1. b \in E
          BY <4>1
        <5>2. <<b>> \in Seq(E) /\ << >> \in Seq(E)
          BY <5>1
        <5> QED BY <5>2
      <4> QED BY <3>8, <4>1, <4>2, <4>3
    <3> HIDE DEF ss, tt, own
    <3>11. Longer(tt, ss, j, s)
      <4>1. Len(tt) = Len(ss) /\ j \in 1..Len(ss)
        BY <3>8, <3>9, <3>10
      <4>2. ss[j] = u[ch[j]] /\ tt[j] = v[ch[j]] /\ ch[j] = way[k + 1]
        BY <3>4, <3>8, <3>9, <3>10
      <4>3. tt[j] = ss[j] \o s
        BY <3>3, <4>2
      <4>4. \A i \in 1..Len(ss) : i # j => tt[i] = ss[i]
        BY <3>5, <3>8, <3>9, <3>10
      <4>5. \A i \in 1..Len(ss) : i > j => ss[i] = << >>
        BY <3>6, <3>8, <3>10
      <4>6. \A i \in 1..Len(ss) : (i < j => i # j) /\ (j < i => i # j /\ i > j)
        BY <4>1
      <4> QED BY <4>1, <4>3, <4>4, <4>5, <4>6 DEF Longer
    <3>12. FlattenSeq(tt) = FlattenSeq(ss) \o s /\ FlattenSeq(ss) \in Seq(E)
      <4>1. s \in Seq(E)
        BY <1>0
      <4>2. tt \in Seq(Seq(E)) /\ ss \in Seq(Seq(E)) /\ j \in Nat /\ Longer(tt, ss, j, s)
        BY <3>9, <3>10, <3>11
      <4>3. FlattenSeq(tt) = FlattenSeq(ss) \o s
        BY ONLY <4>1, <4>2, FlatGrows
      <4>4. FlattenSeq(ss) \in Seq(E)
        BY ONLY <4>2, Flattened
      <4> QED BY <4>3, <4>4
    <3> DEFINE c == FlattenSeq(ss)
    <3> HIDE DEF c
    <3>13. own \o (c \o s) = (own \o c) \o s
      <4>1. own \in Seq(E) /\ c \in Seq(E) /\ s \in Seq(E)
        BY <1>0, <3>10, <3>12 DEF c
      <4> QED BY <4>1
    <3> QED BY <3>7, <3>12, <3>13 DEF b, c
  <2> QED BY <2>1, <2>2
<1> HIDE DEF S
<1>5. 0..l \subseteq S
  BY <1>2, <1>4, Downward
<1>6. Under(e, L, Page) = Under(d, K, Page) \o s
  <2>1. 1 \in 0..l /\ 1 # 0
    BY <1>2
  <2> QED BY <1>2, <1>5, <2>1 DEF S
<1>7. ASSUME NEW k \in 1 .. l - 1 PROVE LastChild(e, L, way[k], way[k + 1])
  <2> DEFINE b == way[k]
             ch == d[b].children
  <2>1. PICK j \in DOMAIN ch :
            /\ ch[j] = way[k + 1]
            /\ \A i \in DOMAIN ch : i # j => ch[i] # way[k + 1]
            /\ \A i \in DOMAIN ch : i > j => Under(d, K, ch[i]) = << >>
    BY <1>3 DEF LastChild
  <2>2. e[b].children = ch /\ b \in D
    BY <1>2, <1>3
  <2>3. \A i \in DOMAIN ch : ch[i] \in ToSet(ch) /\ ch[i] \in D
    BY <1>1, <2>2 DEF ToSet
  <2>4. \A i \in DOMAIN ch : i > j /\ i # j => Under(e, L, ch[i]) = << >>
    <3> SUFFICES ASSUME NEW i \in DOMAIN ch, i > j, i # j PROVE Under(e, L, ch[i]) = << >>
      OBVIOUS
    <3>1. ch[i] # way[k + 1] /\ Under(d, K, ch[i]) = << >>
      BY <2>1
    <3>2. ch[i] \in ToSet(ch) /\ ch[i] \in D
      BY <2>3
    <3>3. v[ch[i]] = u[ch[i]]
      BY <1>3, <3>1, <3>2
    <3>4. \A x \in D : u[x] = Under(d, K, x) /\ v[x] = Under(e, L, x)
      BY <1>1
    <3> HIDE DEF D, ch
    <3> QED BY <3>1, <3>2, <3>3, <3>4
  <2>5. \A i \in DOMAIN ch : i > j => i # j
    BY <1>1, <2>2
  <2> HIDE DEF ch
  <2> QED BY <2>1, <2>2, <2>4, <2>5 DEF LastChild
<1>8. Gains(e, L, d, K, Page, s)
  BY <1>0, <1>6 DEF Gains
<1> QED BY <1>7, <1>8 DEF l

\* Ids grow.
LEMMA IdsGrow ==
  ASSUME NEW bs, NEW id \in Nat, NEW k \in Nat \ {0}, NEW l \in Nat \ {0}, k < l
  PROVE  IdOf(bs, id, k) < IdOf(bs, id, l)
<1> DEFINE T(i) == {j \in 1 .. i - 1 : bs[j].type \in Containers}
<1>1. ASSUME NEW i \in Nat PROVE IsFiniteSet(T(i)) /\ Cardinality(T(i)) \in Nat
  <2>1. IsFiniteSet(1 .. i - 1)
    BY FS_Interval
  <2>2. IsFiniteSet(T(i))
    BY <2>1, FS_Subset
  <2> HIDE DEF T
  <2> QED BY <2>2, FS_CardinalityType
<1>2. T(k) \subseteq T(l)
  OBVIOUS
<1>3. IdOf(bs, id, k) = id + k - 1 + Cardinality(T(k)) /\ IdOf(bs, id, l) = id + l - 1 + Cardinality(T(l))
  BY DEF IdOf
<1> HIDE DEF T
<1>4. Cardinality(T(k)) <= Cardinality(T(l))
  BY <1>1, <1>2, FS_Subset
<1> DEFINE a == Cardinality(T(k))
           b == Cardinality(T(l))
<1>5. a \in Nat /\ b \in Nat /\ a <= b
  BY <1>1, <1>4
<1> HIDE DEF a, b
<1>6. id + k - 1 + a < id + l - 1 + b
  BY <1>5
<1> QED BY <1>3, <1>6 DEF a, b

\* e is d with the new blocks bs, called ids, at the end of p; their ids and those
\* of the blocks made with them are n .. m - 1.
Added(e, d, p, bs, ids, n, m) ==
  /\ m \in Nat /\ n <= m /\ DOMAIN e = DOMAIN d \cup (n .. m - 1) /\ e = [x \in DOMAIN e |-> e[x]]
  /\ ids \in Seq(n .. m - 1) /\ Len(ids) = Len(bs) /\ IsInjective(ids)
  /\ \A x \in DOMAIN d : x # p => e[x] = d[x]
  /\ e[p] = [d[p] EXCEPT !.children = d[p].children \o ids]
  /\ \A x \in (n .. m - 1) \ ToSet(ids) : e[x] = NewBlock("text", "", NoStyle)
  /\ \A k \in 1..Len(bs) : \E c \in {<< >>, <<ids[k] + 1>>} :
       /\ e[ids[k]] = [bs[k] EXCEPT !.children = c]
       /\ c # << >> => ids[k] + 1 \in (n .. m - 1) \ ToSet(ids)

\* AddBlocks does that.
LEMMA AddBlocksIs ==
  ASSUME NEW n \in Nat \ {0}, NEW d, Tree(d, n), NEW p \in DOMAIN d, NEW B, NEW bs \in Seq(B),
         NEW ids, ids = [k \in DOMAIN bs |-> IdOf(bs, n, k)]
  PROVE  Added(AddBlocks(d, p, bs, n), d, p, bs, ids, n, IdOf(bs, n, Len(bs) + 1))
<1> DEFINE l == Len(bs)
           m == IdOf(bs, n, l + 1)
           all == n .. m - 1
           autos == all \ ToSet(ids)
           own(x) == CHOOSE k \in DOMAIN bs : ids[k] = x
           kids(x) == IF x + 1 \in autos THEN <<x + 1>> ELSE << >>
           new(x) == IF x \in autos THEN NewBlock("text", "", NoStyle)
                     ELSE [bs[own(x)] EXCEPT !.children = kids(x)]
           top == [d[p] EXCEPT !.children = d[p].children \o ids]
           e == [x \in DOMAIN d \cup all |-> IF x \in all THEN new(x) ELSE IF x = p THEN top ELSE d[x]]
<1>1. AddBlocks(d, p, bs, n) = e
  BY DEF AddBlocks
<1>2. l \in Nat /\ DOMAIN bs = 1..l
  OBVIOUS
<1>3. m \in Nat /\ n <= m
  <2>1. l + 1 \in Nat \ {0} /\ n \in Nat
    BY <1>2
  <2> HIDE DEF l
  <2>2. m \in Nat /\ n + (l + 1) - 1 <= m
    BY <2>1, IdType
  <2> HIDE DEF m
  <2> QED BY <1>2, <2>2
<1>4. \A k \in 1..l : ids[k] = IdOf(bs, n, k) /\ ids[k] \in all
  <2> SUFFICES ASSUME NEW k \in 1..l PROVE ids[k] = IdOf(bs, n, k) /\ ids[k] \in all
    OBVIOUS
  <2>1. k \in Nat \ {0} /\ l + 1 \in Nat \ {0} /\ k < l + 1 /\ n \in Nat
    BY <1>2
  <2>2. ids[k] = IdOf(bs, n, k)
    BY <1>2
  <2> HIDE DEF l
  <2>3. IdOf(bs, n, k) \in Nat /\ n + k - 1 <= IdOf(bs, n, k) /\ IdOf(bs, n, k) < m
    BY <2>1, IdType, IdsGrow
  <2> DEFINE i == IdOf(bs, n, k)
  <2> HIDE DEF m, i
  <2>4. i \in n .. m - 1
    BY <1>3, <2>1, <2>3 DEF i
  <2> QED BY <2>2, <2>4 DEF i
<1>5. \A j, k \in 1..l : j # k => ids[j] # ids[k]
  <2>1. ASSUME NEW j \in 1..l, NEW k \in 1..l, j < k PROVE ids[j] < ids[k]
    <3>1. j \in Nat \ {0} /\ k \in Nat \ {0} /\ n \in Nat
      BY <1>2
    <3>2. IdOf(bs, n, j) < IdOf(bs, n, k)
      BY <2>1, <3>1, IdsGrow
    <3> QED BY <1>4, <3>2
  <2>2. \A j \in 1..l : ids[j] \in Nat
    <3>1. all \subseteq Nat
      <4> HIDE DEF m
      <4> QED BY <1>3
    <3> HIDE DEF all, l
    <3> QED BY <1>4, <3>1
  <2>3. ASSUME NEW j \in 1..l, NEW k \in 1..l, j # k PROVE ids[j] # ids[k]
    <3>1. j < k \/ k < j
      BY <1>2, <2>3
    <3> HIDE DEF l
    <3>2. ids[j] < ids[k] \/ ids[k] < ids[j]
      BY <2>1, <3>1
    <3>3. ids[j] \in Nat /\ ids[k] \in Nat
      BY <2>2
    <3> QED BY <3>2, <3>3
  <2> QED BY <2>3
<1>6. ids \in Seq(all) /\ Len(ids) = l /\ DOMAIN ids = 1..l
  <2>1. ids \in [1..l -> all]
    <3>1. ids = [k \in 1..l |-> ids[k]]
      BY <1>2
    <3> HIDE DEF all
    <3> QED BY <1>4, <3>1
  <2> HIDE DEF l, all
  <2> QED BY <1>2, <2>1
<1>7. IsInjective(ids)
  BY <1>5, <1>6 DEF IsInjective
<1> HIDE DEF all, m
<1>8. DOMAIN e = DOMAIN d \cup all /\ \A x \in DOMAIN d \cup all :
        e[x] = IF x \in all THEN new(x) ELSE IF x = p THEN top ELSE d[x]
  BY Zenon
<1>9. \A x \in DOMAIN d : x \notin all
  BY <1>3 DEF all, Tree
<1>10. ASSUME NEW k \in 1..l
       PROVE  e[ids[k]] = [bs[k] EXCEPT !.children = kids(ids[k])]
  <2>1. ids[k] \in all /\ ids[k] \in ToSet(ids)
    BY <1>4, <1>6 DEF ToSet
  <2>2. own(ids[k]) = k
    BY <1>2, <1>5
  <2>3. e[ids[k]] = new(ids[k]) /\ ids[k] \notin autos
    BY <1>8, <2>1
  <2> HIDE DEF own, kids, e, autos
  <2> QED BY <2>2, <2>3
<1> HIDE DEF top, new
<1>11. \A x \in autos : e[x] = NewBlock("text", "", NoStyle)
  BY <1>8 DEF new
<1>12. e[p] = top /\ \A x \in DOMAIN d : x # p => e[x] = d[x]
  BY <1>8, <1>9
<1>13. e = [x \in DOMAIN e |-> e[x]]
  BY Zenon
<1> HIDE DEF e
<1> QED BY <1>1, <1>3, <1>6, <1>7, <1>8, <1>10, <1>11, <1>12, <1>13 DEF Added, m, all, top, l

\* A block with other children.
LEMMA WithChildren ==
  ASSUME NEW X, NEW Y, NEW b \in Blocks(X), NEW c \in Seq(Y)
  PROVE  /\ [b EXCEPT !.children = c] \in Blocks(Y)
         /\ [b EXCEPT !.children = c].children = c
         /\ [b EXCEPT !.children = c].type = b.type /\ [b EXCEPT !.children = c].text = b.text
BY DEF Blocks

\* The blocks of a document with new ones.
AddedFacts(e, d, p, bs, ids, n, m) ==
  /\ m \in Nat \ {0} /\ n <= m /\ DOMAIN e = DOMAIN d \cup (n .. m - 1)
  /\ e \in [DOMAIN e -> Blocks(DOMAIN e)]
  /\ ids \in Seq(n .. m - 1) /\ Len(ids) = Len(bs) /\ IsInjective(ids)
  /\ \A x \in DOMAIN d : /\ e[x].type = d[x].type /\ e[x].text = d[x].text
                         /\ x # p => e[x].children = d[x].children
  /\ e[p].children = d[p].children \o ids
  /\ \A x \in (n .. m - 1) \ ToSet(ids) : e[x].type = "text" /\ e[x].children = << >>
  /\ \A k \in 1..Len(bs) :
       /\ e[ids[k]].type = bs[k].type /\ e[ids[k]].text = bs[k].text
       /\ \/ e[ids[k]].children = << >>
          \/ e[ids[k]].children = <<ids[k] + 1>> /\ ids[k] + 1 \in (n .. m - 1) \ ToSet(ids)

\* They are what AddBlocks makes.
LEMMA AddedIs ==
  ASSUME NEW n \in Nat \ {0}, NEW d, Tree(d, n), NEW p \in DOMAIN d, NEW bs \in Seq(Blocks({})),
         NEW ids, NEW m, NEW e, Added(e, d, p, bs, ids, n, m)
  PROVE  AddedFacts(e, d, p, bs, ids, n, m)
<1> DEFINE D == DOMAIN d
           E == DOMAIN e
           all == n .. m - 1
           rest == all \ ToSet(ids)
<1>1. /\ m \in Nat \ {0} /\ n <= m /\ E = D \cup all /\ e = [x \in E |-> e[x]]
      /\ ids \in Seq(all) /\ Len(ids) = Len(bs) /\ IsInjective(ids) /\ DOMAIN ids = 1..Len(bs)
  <2>1. /\ m \in Nat /\ n <= m /\ E = D \cup all /\ e = [x \in E |-> e[x]]
        /\ ids \in Seq(all) /\ Len(ids) = Len(bs) /\ IsInjective(ids)
    BY DEF Added
  <2>2. m \in Nat \ {0}
    BY <2>1
  <2> HIDE DEF all
  <2>3. DOMAIN ids = 1..Len(ids)
    BY <2>1
  <2> QED BY <2>1, <2>2, <2>3
<1>2. \A x \in D : d[x] \in Blocks(D) /\ d[x] \in Blocks(E)
  <2>1. D \subseteq E
    BY <1>1
  <2>2. Seq(D) \subseteq Seq(E)
    BY <2>1
  <2>3. \A x \in D : d[x] \in Blocks(D)
    BY DEF Tree
  <2> HIDE DEF D, E
  <2> QED BY <2>2, <2>3 DEF Blocks
<1>3. /\ \A x \in D : x # p => e[x] = d[x]
      /\ e[p] = [d[p] EXCEPT !.children = d[p].children \o ids]
      /\ \A x \in rest : e[x] = NewBlock("text", "", NoStyle)
      /\ \A k \in 1..Len(bs) : \E c \in {<< >>, <<ids[k] + 1>>} :
           /\ e[ids[k]] = [bs[k] EXCEPT !.children = c]
           /\ c # << >> => ids[k] + 1 \in rest
  BY DEF Added
<1> HIDE DEF D, E, all, rest
<1>4. /\ e[p] \in Blocks(E) /\ e[p].children = d[p].children \o ids
      /\ e[p].type = d[p].type /\ e[p].text = d[p].text
  <2>1. d[p] \in Blocks(E) /\ p \in D
    BY <1>2 DEF D
  <2>2. d[p].children \in Seq(E)
    BY <2>1 DEF Blocks
  <2> DEFINE a == d[p].children
             c == a \o ids
  <2>3. a \in Seq(E) /\ ids \in Seq(E)
    <3>1. all \subseteq E
      BY <1>1
    <3> QED BY <1>1, <2>2, <3>1
  <2>4. c \in Seq(E)
    <3> HIDE DEF a
    <3> QED BY <2>3
  <2> HIDE DEF c
  <2>5. e[p] = [d[p] EXCEPT !.children = c]
    BY <1>3 DEF c
  <2>6. d[p] \in Blocks(E)
    BY <2>1
  <2>7. /\ [d[p] EXCEPT !.children = c] \in Blocks(E)
        /\ [d[p] EXCEPT !.children = c].children = c
        /\ [d[p] EXCEPT !.children = c].type = d[p].type
        /\ [d[p] EXCEPT !.children = c].text = d[p].text
    BY <2>4, <2>6, WithChildren
  <2> QED BY <2>5, <2>7 DEF c
<1>5. ASSUME NEW x \in rest
      PROVE  e[x] \in Blocks(E) /\ e[x].type = "text" /\ e[x].children = << >>
  <2> DEFINE b == NewBlock("text", "", NoStyle)
  <2>1. "text" \in BlockTypes
    BY DEF BlockTypes
  <2>2. << >> \in Seq(E)
    OBVIOUS
  <2>3. b \in Blocks(E) /\ b.type = "text" /\ b.children = << >>
    BY <2>1, <2>2, TextAssumption DEF NewBlock, Blocks
  <2>4. e[x] = b
    BY <1>3
  <2> HIDE DEF b
  <2> QED BY <2>3, <2>4
<1>6. ASSUME NEW k \in 1..Len(bs)
      PROVE  /\ e[ids[k]] \in Blocks(E)
             /\ e[ids[k]].type = bs[k].type /\ e[ids[k]].text = bs[k].text
             /\ \/ e[ids[k]].children = << >>
                \/ e[ids[k]].children = <<ids[k] + 1>> /\ ids[k] + 1 \in rest
  <2>1. PICK c \in {<< >>, <<ids[k] + 1>>} :
           /\ e[ids[k]] = [bs[k] EXCEPT !.children = c]
           /\ c # << >> => ids[k] + 1 \in rest
    BY <1>3
  <2>2. bs[k] \in Blocks({})
    OBVIOUS
  <2>3. c \in Seq(E)
    <3>1. CASE c = << >>
      BY <3>1
    <3>2. CASE c # << >>
      <4>1. ids[k] + 1 \in E /\ c = <<ids[k] + 1>>
        BY <1>1, <2>1, <3>2 DEF rest
      <4> QED BY <4>1
    <3> QED BY <3>1, <3>2
  <2>4. e[ids[k]] \in Blocks(E) /\ e[ids[k]].type = bs[k].type /\ e[ids[k]].text = bs[k].text
        /\ e[ids[k]].children = c
    BY <2>1, <2>2, <2>3, WithChildren
  <2> QED BY <2>1, <2>4
<1>7. \A x \in E : e[x] \in Blocks(E)
  <2> SUFFICES ASSUME NEW x \in E PROVE e[x] \in Blocks(E)
    OBVIOUS
  <2>1. CASE x \in D
    BY <1>2, <1>3, <1>4, <2>1
  <2>2. CASE x \in rest
    BY <1>5, <2>2
  <2>3. CASE x \in ToSet(ids)
    <3>1. PICK k \in 1..Len(bs) : x = ids[k]
      BY <1>1, <2>3 DEF ToSet
    <3> QED BY <1>6, <3>1
  <2> QED BY <1>1, <2>1, <2>2, <2>3 DEF rest
<1>8. e \in [E -> Blocks(E)]
  BY <1>1, <1>7
<1>9. \A x \in D : /\ e[x].type = d[x].type /\ e[x].text = d[x].text
                   /\ x # p => e[x].children = d[x].children
  BY <1>3, <1>4
<1> QED BY <1>1, <1>4, <1>5, <1>6, <1>8, <1>9 DEF AddedFacts, D, E, all, rest

\* The new document is one, and no block has two parents.
LEMMA AddedTree ==
  ASSUME NEW n \in Nat \ {0}, NEW d, Tree(d, n), OneParent(d), NEW p \in DOMAIN d, NEW bs, NEW ids,
         NEW m, NEW e, AddedFacts(e, d, p, bs, ids, n, m)
  PROVE  Tree(e, m) /\ OneParent(e) /\ ToSet(e[p].children) = ToSet(d[p].children) \cup ToSet(ids)
<1> DEFINE D == DOMAIN d
           E == DOMAIN e
           all == n .. m - 1
           rest == all \ ToSet(ids)
           kids(x) == ToSet(d[x].children)
           kids2(x) == ToSet(e[x].children)
<1>1. /\ m \in Nat \ {0} /\ n <= m /\ E = D \cup all /\ ids \in Seq(all)
      /\ ToSet(ids) \subseteq all /\ DOMAIN ids = 1..Len(bs)
  <2>1. ids \in Seq(all) /\ m \in Nat \ {0} /\ n <= m /\ E = D \cup all /\ Len(ids) = Len(bs)
    BY DEF AddedFacts
  <2> HIDE DEF all
  <2>2. DOMAIN ids = 1..Len(ids) /\ \A k \in DOMAIN ids : ids[k] \in all
    BY <2>1
  <2>3. ToSet(ids) \subseteq all
    BY <2>2 DEF ToSet
  <2> QED BY <2>1, <2>2, <2>3
<1>2. /\ D \subseteq 0 .. n - 1 /\ Page \in D
      /\ \A x \in D : d[x].children \in Seq(D) /\ kids(x) \subseteq D /\ \A c \in kids(x) : x < c
  <2>1. \A x \in D : d[x].children \in Seq(D)
    BY DEF Tree, Blocks
  <2>2. \A q \in Seq(D) : ToSet(q) \subseteq D
    BY DEF ToSet
  <2> QED BY <2>1, <2>2 DEF Tree
<1>3. \A x \in D : x # p => kids2(x) = kids(x)
  BY DEF AddedFacts
<1>4. kids2(p) = kids(p) \cup ToSet(ids)
  <2>1. e[p].children = d[p].children \o ids
    BY DEF AddedFacts
  <2> DEFINE a == d[p].children
             X == D \cup all
  <2>2. a \in Seq(X) /\ ids \in Seq(X)
    <3>0. D \subseteq X /\ all \subseteq X /\ p \in D
      OBVIOUS
    <3> HIDE DEF X, D, all
    <3>1. Seq(D) \subseteq Seq(X) /\ Seq(all) \subseteq Seq(X)
      BY <3>0
    <3> QED BY <1>1, <1>2, <3>0, <3>1
  <2> HIDE DEF a, X
  <2>3. ToSet(a \o ids) = ToSet(a) \cup ToSet(ids)
    BY <2>2, Concatenated
  <2> QED BY <2>1, <2>3 DEF a
<1>5. \A x \in rest : kids2(x) = {}
  <2>1. \A x \in rest : e[x].children = << >>
    BY DEF AddedFacts
  <2>2. ToSet(<< >>) = {}
    BY DEF ToSet
  <2> QED BY <2>1, <2>2
<1>6. \A x \in ToSet(ids) : kids2(x) = {} \/ (kids2(x) = {x + 1} /\ x + 1 \in rest)
  <2> SUFFICES ASSUME NEW x \in ToSet(ids) PROVE kids2(x) = {} \/ (kids2(x) = {x + 1} /\ x + 1 \in rest)
    OBVIOUS
  <2>1. PICK k \in 1..Len(bs) : x = ids[k]
    BY <1>1 DEF ToSet
  <2>2. e[x].children = << >> \/ (e[x].children = <<x + 1>> /\ x + 1 \in rest)
    BY <2>1 DEF AddedFacts
  <2>3. ToSet(<< >>) = {} /\ ToSet(<<x + 1>>) = {x + 1}
    BY DEF ToSet
  <2> QED BY <2>2, <2>3
<1> HIDE DEF kids, kids2
<1>7. \A x \in E : x \in D \/ x \in rest \/ x \in ToSet(ids)
  BY <1>1
<1>8. \A x \in D : x \notin all
  BY <1>2
<1> HIDE DEF D, all
<1>9. ASSUME NEW x \in E, NEW c \in kids2(x) PROVE x < c
  <2>1. CASE x \in D
    <3>1. \A y \in all : x < y
      BY <1>2, <2>1 DEF all
    <3> QED BY <1>1, <1>2, <1>3, <1>4, <1>9, <2>1, <3>1
  <2>2. CASE x \in ToSet(ids)
    <3>1. c = x + 1 /\ x \in Nat
      <4>1. \A y \in all : y \in Nat
        BY <1>1 DEF all
      <4> QED BY <1>1, <1>6, <1>9, <2>2, <4>1
    <3> QED BY <3>1
  <2> QED BY <1>5, <1>7, <1>9, <2>1, <2>2
<1>10. ASSUME NEW a \in E, NEW b \in E, a # b PROVE kids2(a) \cap kids2(b) = {}
  <2>1. \A x \in D, y \in D : x # y => kids(x) \cap kids(y) = {}
    BY DEF OneParent, D, kids
  <2>2. \A x \in D : kids(x) \cap all = {}
    BY <1>2, <1>8
  <2>3. \A x \in D : kids2(x) \subseteq kids(x) \cup ToSet(ids) /\ (x # p => kids2(x) = kids(x))
    BY <1>3, <1>4
  <2>4. \A x \in D, y \in D : x # y => kids2(x) \cap kids2(y) = {}
    BY <1>1, <2>1, <2>2, <2>3
  <2>5. \A x \in D : kids2(x) \cap rest = {}
    BY <2>2, <2>3
  <2>6. \A x \in D, y \in ToSet(ids) : kids2(x) \cap kids2(y) = {}
    BY <1>6, <2>5
  <2>7. \A x, y \in ToSet(ids) : x # y => kids2(x) \cap kids2(y) = {}
    <3> SUFFICES ASSUME NEW x \in ToSet(ids), NEW y \in ToSet(ids), x # y
                 PROVE  kids2(x) \cap kids2(y) = {}
      OBVIOUS
    <3>1. x + 1 # y + 1
      <4>1. x \in Nat /\ y \in Nat
        <5>1. \A z \in all : z \in Nat
          BY <1>1 DEF all
        <5> QED BY <1>1, <5>1
      <4> QED BY <4>1
    <3> QED BY <1>6, <3>1
  <2> HIDE DEF rest
  <2> QED BY <1>5, <1>7, <1>10, <2>4, <2>6, <2>7
<1>11. e \in [E -> Blocks(E)]
  BY DEF AddedFacts
<1>12. E \subseteq 0 .. m - 1 /\ Page \in E
  BY <1>1, <1>2 DEF all
<1>13. Tree(e, m)
  BY <1>9, <1>11, <1>12 DEF Tree, kids2
<1>14. OneParent(e)
  BY <1>10 DEF OneParent, kids2
<1> QED BY <1>4, <1>13, <1>14 DEF kids, kids2

\* A block without children.
LEMMA Childless ==
  ASSUME NEW n \in Nat \ {0}, NEW d, Tree(d, n), NEW K, NEW b \in DOMAIN d, d[b].children = << >>
  PROVE  (b \in K => Under(d, K, b) = <<b>>) /\ (b \notin K => Under(d, K, b) = << >>)
<1> DEFINE u == Unders(d, K)
           own == IF b \in K THEN <<b>> ELSE << >>
<1>1. Under(d, K, b) = own \o FlattenSeq(Image(u, d[b].children))
  BY UnderIs
<1>2. Image(u, d[b].children) = << >>
  BY DEF Image
<1>3. FlattenSeq(<< >>) = << >>
  BY DEF FlattenSeq
<1>4. <<b>> \o << >> = <<b>> /\ << >> \o << >> = << >>
  OBVIOUS
<1> QED BY <1>1, <1>2, <1>3, <1>4

\* A block of K whose one child has none of K.
LEMMA AboveNothing ==
  ASSUME NEW n \in Nat \ {0}, NEW d, Tree(d, n), NEW K, NEW b \in DOMAIN d, NEW c \in DOMAIN d,
         b \in K, d[b].children = <<c>>, Under(d, K, c) = << >>
  PROVE  Under(d, K, b) = <<b>>
<1> DEFINE u == Unders(d, K)
<1>1. Under(d, K, b) = <<b>> \o FlattenSeq(Image(u, d[b].children))
  BY UnderIs
<1>2. u[c] = << >>
  BY DEF Unders
<1> HIDE DEF u
<1>3. Image(u, d[b].children) = <<u[c]>>
  BY DEF Image
<1>4. FlattenSeq(<<u[c]>>) = u[c]
  <2>1. << >> \in Seq(DOMAIN d)
    OBVIOUS
  <2> QED BY <1>2, <2>1, FlatOne
<1>5. <<b>> \o << >> = <<b>>
  OBVIOUS
<1> QED BY <1>1, <1>2, <1>3, <1>4, <1>5

\* Between d and e only x changes: it gets the children ids.
Extended(e, L, d, K, x, ids) ==
  /\ Changed(e, L, d, K, x) /\ (x \in L <=> x \in K)
  /\ ids \in Seq(DOMAIN e) /\ e[x].children = d[x].children \o ids

\* What there is of L from the blocks ids down.
Offspring(e, L, ids) == FlattenSeq(Image(Unders(e, L), ids))

\* What is added below x: what is below its new children.
LEMMA GrowsAt ==
  ASSUME NEW n \in Nat \ {0}, NEW d, Tree(d, n), OneParent(d),
         NEW m \in Nat \ {0}, NEW e, Tree(e, m),
         NEW K, NEW L, NEW way, Trunk(d, K, way),
         NEW ids, Extended(e, L, d, K, way[Len(way)], ids)
  PROVE  Gains(e, L, d, K, way[Len(way)], Offspring(e, L, ids))
<1> DEFINE x == way[Len(way)]
<1>0. /\ Changed(e, L, d, K, x) /\ (x \in L <=> x \in K)
      /\ ids \in Seq(DOMAIN e) /\ e[x].children = d[x].children \o ids
  BY DEF Extended
<1> DEFINE D == DOMAIN d
           E == DOMAIN e
           u == Unders(d, K)
           v == Unders(e, L)
           ch == d[x].children
           own == IF x \in K THEN <<x>> ELSE << >>
<1>1. /\ D \subseteq E /\ u \in Maps(D, Seq(D)) /\ v \in Maps(E, Seq(E))
      /\ x \in D /\ ch \in Seq(D) /\ ToSet(ch) \subseteq D
  <2>1. \A b \in D : d[b].children \in Seq(D)
    BY DEF Tree, Blocks
  <2>2. \A q \in Seq(D) : ToSet(q) \subseteq D
    BY DEF ToSet
  <2>3. D \subseteq E
    BY <1>0 DEF Changed
  <2>4. x \in D
    BY DEF Trunk
  <2>5. u \in Maps(D, Seq(D))
    BY UnderIs
  <2>6. v \in Maps(E, Seq(E))
    BY UnderIs
  <2> QED BY <2>1, <2>2, <2>3, <2>4, <2>5, <2>6
<1>2. Under(d, K, x) = own \o FlattenSeq(Image(u, ch))
  <2>1. \A b \in D : Under(d, K, b) = (IF b \in K THEN <<b>> ELSE << >>) \o FlattenSeq(Image(u, d[b].children))
    BY UnderIs
  <2> QED BY <1>1, <2>1
<1>3. Under(e, L, x) = own \o FlattenSeq(Image(v, ch \o ids))
  <2>1. x \in E
    BY <1>1
  <2>2. \A b \in E : Under(e, L, b) = (IF b \in L THEN <<b>> ELSE << >>) \o FlattenSeq(Image(v, e[b].children))
    BY UnderIs
  <2> QED BY <1>0, <2>1, <2>2
<1>4. \A c \in ToSet(ch) : v[c] = u[c]
  <2> SUFFICES ASSUME NEW c \in ToSet(ch) PROVE v[c] = u[c]
    OBVIOUS
  <2>1. c \in D /\ c \in E
    BY <1>1
  <2>2. c \notin ToSet(way)
    <3> SUFFICES ASSUME c \in ToSet(way) PROVE FALSE
      OBVIOUS
    <3>1. PICK k \in 1 .. Len(way) - 1 : x = way[k]
      BY <1>1, OnTrunk
    <3>2. k \in DOMAIN way /\ Len(way) \in DOMAIN way /\ k # Len(way)
      BY <3>1 DEF Trunk
    <3> QED BY <3>1, <3>2 DEF Trunk, IsInjective
  <2>3. Under(e, L, c) = Under(d, K, c)
    <3>1. \A b \in DOMAIN d : b \notin ToSet(way) => Under(e, L, b) = Under(d, K, b)
      <4>1. Changed(e, L, d, K, way[Len(way)])
        BY <1>0
      <4> HIDE DEF D, E, u, v, ch, own
      <4> QED BY <4>1, OffTrunk
    <3> QED BY <2>1, <2>2, <3>1
  <2> QED BY <2>1, <2>3 DEF Unders
<1> HIDE DEF x, D, E, u, v, ch, own
<1>5. Image(v, ch) = Image(u, ch)
  BY <1>1, <1>4, EachSame
<1>6. ch \in Seq(E) /\ ids \in Seq(E)
  <2>1. Seq(D) \subseteq Seq(E)
    BY <1>1
  <2> QED BY <1>0, <1>1, <2>1 DEF E
<1> DEFINE ss == Image(v, ch)
           tt == Image(v, ids)
<1>7. Image(v, ch \o ids) = ss \o tt
  BY <1>1, <1>6, EachJoin
<1>8. ss \in Seq(Seq(E)) /\ tt \in Seq(Seq(E))
  BY <1>1, <1>6, EachType
<1> HIDE DEF ss, tt
<1>9. FlattenSeq(ss \o tt) = FlattenSeq(ss) \o FlattenSeq(tt)
  BY <1>8, FlatJoin
<1>10. FlattenSeq(ss) \in Seq(E) /\ FlattenSeq(tt) \in Seq(E)
  BY <1>8, Flattened
<1>11. own \in Seq(E)
  <2>1. x \in E
    BY <1>1
  <2>2. <<x>> \in Seq(E) /\ << >> \in Seq(E)
    BY <2>1
  <2> QED BY <2>2 DEF own
<1> DEFINE a == FlattenSeq(ss)
           b == FlattenSeq(tt)
<1>12. a \in Seq(E) /\ b \in Seq(E)
  BY <1>10
<1> HIDE DEF a, b
<1>13. own \o (a \o b) = (own \o a) \o b
  <2>1. own \in Seq(E) /\ a \in Seq(E) /\ b \in Seq(E)
    BY <1>11, <1>12
  <2> QED BY <2>1
<1>14. Under(e, L, x) = Under(d, K, x) \o b
  BY <1>2, <1>3, <1>5, <1>7, <1>9, <1>13 DEF a, b, ss, tt
<1>15. b = Offspring(e, L, ids)
  BY DEF b, tt, v, Offspring
<1>16. Gains(e, L, d, K, x, b)
  BY <1>12, <1>14 DEF Gains, E
<1> QED BY <1>15, <1>16 DEF x

\* One more block at the end of the way: the last child of the last one.
LEMMA TrunkMore ==
  ASSUME NEW n \in Nat \ {0}, NEW d, Tree(d, n), NEW K, NEW way, Trunk(d, K, way),
         NEW c \in DOMAIN d, c \notin ToSet(way),
         NEW q \in Seq(DOMAIN d), d[way[Len(way)]].children = Append(q, c), c \notin ToSet(q)
  PROVE  Trunk(d, K, Append(way, c))
<1> DEFINE D == DOMAIN d
           l == Len(way)
           more == Append(way, c)
           ch == Append(q, c)
           i == Len(q)
<1>1. /\ way \in Seq(D) /\ l \in Nat /\ l > 0 /\ way[1] = Page /\ IsInjective(way)
      /\ \A k \in 1 .. l - 1 : LastChild(d, K, way[k], way[k + 1])
  BY DEF Trunk
<1>2. /\ more \in Seq(D) /\ Len(more) = l + 1 /\ IsInjective(more)
      /\ more[l + 1] = c /\ \A k \in 1..l : more[k] = way[k]
  <2>1. c \in D /\ c \notin ToSet(way)
    OBVIOUS
  <2>2. more \in Seq(D) /\ IsInjective(more)
    BY <1>1, <2>1, OneBehind
  <2>3. Len(more) = l + 1 /\ more[l + 1] = c /\ \A k \in 1..l : more[k] = way[k]
    BY <1>1
  <2> QED BY <2>2, <2>3
<1>3. LastChild(d, K, way[l], c)
  <2>1. /\ i \in Nat /\ DOMAIN ch = 1 .. i + 1 /\ ch[i + 1] = c
        /\ \A k \in 1..i : ch[k] = q[k] /\ q[k] \in ToSet(q)
    BY DEF ToSet
  <2>2. d[way[l]].children = ch /\ c \notin ToSet(q)
    OBVIOUS
  <2> HIDE DEF ch, i, l
  <2>3. i + 1 \in DOMAIN ch /\ (\A k \in DOMAIN ch : k # i + 1 => ch[k] # c)
        /\ \A k \in DOMAIN ch : ~(k > i + 1)
    <3>1. \A k \in 1 .. i + 1 : k # i + 1 => k \in 1..i
      BY <2>1
    <3> QED BY <2>1, <2>2, <3>1
  <2> QED BY <2>1, <2>2, <2>3 DEF LastChild
<1> HIDE DEF l, more, ch, i
<1>4. ASSUME NEW k \in 1 .. (l + 1) - 1 PROVE LastChild(d, K, more[k], more[k + 1])
  <2>1. CASE k = l
    BY <1>1, <1>2, <1>3, <2>1
  <2>2. CASE k # l
    <3>1. k \in 1 .. l - 1 /\ k \in 1..l /\ k + 1 \in 1..l
      BY <1>1, <2>2
    <3> QED BY <1>1, <1>2, <3>1
  <2> QED BY <2>1, <2>2
<1>5. Len(more) > 0 /\ more[1] = Page
  BY <1>1, <1>2
<1> QED BY <1>2, <1>4, <1>5 DEF Trunk, more, D

\* One block less.
LEMMA TrunkLess ==
  ASSUME NEW d, NEW K, NEW way, Trunk(d, K, way), Len(way) # 1
  PROVE  Trunk(d, K, Front(way)) /\ Len(Front(way)) = Len(way) - 1
         /\ \A k \in 1 .. Len(way) - 1 : Front(way)[k] = way[k]
<1> DEFINE D == DOMAIN d
           l == Len(way)
           less == SubSeq(way, 1, l - 1)
<1>1. /\ way \in Seq(D) /\ l \in Nat /\ l > 0 /\ way[1] = Page /\ IsInjective(way)
      /\ \A k \in 1 .. l - 1 : LastChild(d, K, way[k], way[k + 1])
  BY DEF Trunk
<1>2. l - 1 \in 1..l /\ \A k \in 1 .. l - 1 : way[k] \in D
  <2>1. l # 1
    OBVIOUS
  <2> HIDE DEF l
  <2>2. l - 1 \in 1..l
    BY <1>1, <2>1
  <2>3. \A k \in 1..l : way[k] \in D
    BY <1>1 DEF l
  <2> QED BY <1>1, <2>2, <2>3
<1>3. less \in Seq(D) /\ Len(less) = l - 1 /\ \A k \in 1 .. l - 1 : less[k] = way[k]
  BY <1>1, <1>2, SubSeqProperties
<1>4. Front(way) = less
  BY DEF Front
<1> HIDE DEF l, less
<1>5. IsInjective(less)
  <2>1. DOMAIN less = 1 .. l - 1 /\ DOMAIN way = 1..l
    BY <1>1, <1>3 DEF l
  <2>2. 1 .. l - 1 \subseteq 1..l
    BY <1>1
  <2> QED BY <1>1, <1>3, <2>1, <2>2 DEF IsInjective
<1>6. \A k \in 1 .. (l - 1) - 1 : LastChild(d, K, less[k], less[k + 1])
  <2> SUFFICES ASSUME NEW k \in 1 .. (l - 1) - 1 PROVE LastChild(d, K, less[k], less[k + 1])
    OBVIOUS
  <2>1. k \in 1 .. l - 1 /\ k + 1 \in 1 .. l - 1
    BY <1>1
  <2> QED BY <1>1, <1>3, <2>1
<1>7. Len(less) > 0 /\ less[1] = Page
  <2>1. 1 \in 1 .. l - 1 /\ l - 1 > 0
    BY <1>2
  <2> QED BY <1>1, <1>3, <2>1
<1>8. Trunk(d, K, less)
  BY <1>3, <1>5, <1>6, <1>7 DEF Trunk, D
<1> QED BY <1>3, <1>4, <1>8 DEF l

\* New children of the last block of the way, and what becomes of the page.
LEMMA Extending ==
  ASSUME NEW n \in Nat \ {0}, NEW d, Tree(d, n), OneParent(d),
         NEW m \in Nat \ {0}, NEW e, Tree(e, m),
         NEW K, NEW L, NEW way, Trunk(d, K, way),
         NEW ids, Extended(e, L, d, K, way[Len(way)], ids)
  PROVE  /\ Gains(e, L, d, K, Page, Offspring(e, L, ids))
         /\ \A b \in DOMAIN d : b \notin ToSet(way) => Under(e, L, b) = Under(d, K, b)
         /\ Trunk(e, L, way)
<1> DEFINE s == Offspring(e, L, ids)
<1>1. Gains(e, L, d, K, way[Len(way)], s)
  BY GrowsAt
<1> HIDE DEF s
<1>2. Changed(e, L, d, K, way[Len(way)])
  BY DEF Extended
<1>3. /\ Gains(e, L, d, K, Page, s)
      /\ \A k \in 1 .. Len(way) - 1 : LastChild(e, L, way[k], way[k + 1])
  BY <1>1, <1>2, UpTrunk
<1>4. \A b \in DOMAIN d : b \notin ToSet(way) => Under(e, L, b) = Under(d, K, b)
  BY <1>2, OffTrunk
<1>5. way \in Seq(DOMAIN e) /\ Len(way) > 0 /\ way[1] = Page /\ IsInjective(way)
  <2>1. DOMAIN d \subseteq DOMAIN e
    BY <1>2 DEF Changed
  <2>2. way \in Seq(DOMAIN d) /\ Len(way) > 0 /\ way[1] = Page /\ IsInjective(way)
    BY DEF Trunk
  <2>3. Seq(DOMAIN d) \subseteq Seq(DOMAIN e)
    BY <2>1
  <2> QED BY <2>2, <2>3
<1>6. Trunk(e, L, way)
  BY <1>3, <1>5 DEF Trunk
<1> QED BY <1>3, <1>4, <1>6 DEF s

-----------------------------------------------------------------------------
(* The blocks that are laid so far, and the way down to the last one.      *)

\* The blocks bs stand in the document in this order, down to the end of the way
\* nothing of them behind it.
Laid(d, n, bs, way) ==
  /\ n \in Nat \ {0} /\ Tree(d, n) /\ OneParent(d)
  /\ bs \in Seq(DOMAIN d \ {Page}) /\ Under(d, ToSet(bs), Page) = bs
  /\ Trunk(d, ToSet(bs), way)

\* What follows of it.
LEMMA LaidAre ==
  ASSUME NEW d, NEW n, NEW bs, NEW way, Laid(d, n, bs, way)
  PROVE  /\ ToSet(bs) \subseteq DOMAIN d \ {Page} /\ bs \in Seq(DOMAIN d)
         /\ DOMAIN d \subseteq 0 .. n - 1 /\ Page \in DOMAIN d
         /\ way \in Seq(DOMAIN d) /\ Len(way) \in Nat \ {0}
         /\ \A k \in 1..Len(way) : way[k] \in DOMAIN d /\ way[k] \in ToSet(way)
         /\ \A x \in DOMAIN d : /\ d[x] \in Blocks(DOMAIN d) /\ d[x].children \in Seq(DOMAIN d)
                                /\ \A c \in ToSet(d[x].children) : c \in DOMAIN d /\ c # Page
<1>1. ToSet(bs) \subseteq DOMAIN d \ {Page} /\ bs \in Seq(DOMAIN d)
  BY DEF Laid, ToSet
<1>2. DOMAIN d \subseteq 0 .. n - 1 /\ Page \in DOMAIN d
  BY DEF Laid, Tree
<1>3. way \in Seq(DOMAIN d) /\ Len(way) \in Nat \ {0}
  BY DEF Laid, Trunk
<1>4. \A k \in 1..Len(way) : way[k] \in DOMAIN d /\ way[k] \in ToSet(way)
  BY <1>3 DEF ToSet
<1>5. ASSUME NEW x \in DOMAIN d
      PROVE  /\ d[x] \in Blocks(DOMAIN d) /\ d[x].children \in Seq(DOMAIN d)
             /\ \A c \in ToSet(d[x].children) : c \in DOMAIN d /\ c # Page
  <2>1. d[x] \in Blocks(DOMAIN d)
    BY DEF Laid, Tree
  <2>2. d[x].children \in Seq(DOMAIN d)
    BY <2>1 DEF Blocks
  <2>3. \A c \in ToSet(d[x].children) : c \in DOMAIN d
    BY <2>2 DEF ToSet
  <2>4. \A c \in ToSet(d[x].children) : x < c
    BY DEF Laid, Tree
  <2>5. x \in 0 .. n - 1 /\ n \in Nat
    BY <1>2 DEF Laid
  <2>6. \A c \in ToSet(d[x].children) : c # Page
    BY <2>4, <2>5 DEF Page
  <2> QED BY <2>1, <2>2, <2>3, <2>6
<1> QED BY <1>1, <1>2, <1>3, <1>4, <1>5

\* The page alone, before the first block.
LEMMA LaidFirst ==
  ASSUME NEW n \in Nat \ {0}, NEW d, Tree(d, n), OneParent(d)
  PROVE  Laid(d, n, << >>, <<Page>>)
<1>1. Page \in DOMAIN d /\ Order(d, Page) \in Seq(DOMAIN d)
  BY UnderIs DEF Tree
<1>2. ToSet(<< >>) = {} /\ ToSet(Order(d, Page)) \cap {} = {}
  BY DEF ToSet
<1>3. Under(d, {}, Page) = << >>
  BY <1>1, <1>2, KeepOne DEF Under
<1>4. <<Page>> \in Seq(DOMAIN d) /\ Len(<<Page>>) = 1 /\ <<Page>>[1] = Page /\ IsInjective(<<Page>>)
  BY <1>1 DEF IsInjective
<1>5. Trunk(d, {}, <<Page>>)
  BY <1>4 DEF Trunk
<1>6. << >> \in Seq(DOMAIN d \ {Page})
  OBVIOUS
<1> QED BY <1>2, <1>3, <1>5, <1>6 DEF Laid

\* The end of the way is left.
LEMMA LaidLess ==
  ASSUME NEW d, NEW n, NEW bs, NEW way, Laid(d, n, bs, way), Len(way) # 1
  PROVE  Laid(d, n, bs, Front(way)) /\ Len(Front(way)) = Len(way) - 1
         /\ \A k \in 1 .. Len(way) - 1 : Front(way)[k] = way[k]
<1>1. Trunk(d, ToSet(bs), way)
  BY DEF Laid
<1>2. Trunk(d, ToSet(bs), Front(way)) /\ Len(Front(way)) = Len(way) - 1
      /\ \A k \in 1 .. Len(way) - 1 : Front(way)[k] = way[k]
  BY <1>1, TrunkLess
<1> QED BY <1>2 DEF Laid

\* Of L there are the blocks ids themselves below ids, in their order.
Alone(e, L, ids) == ids \in Seq(DOMAIN e) /\ Offspring(e, L, ids) = ids

\* What the new blocks have below them.
LEMMA AddedUnder ==
  ASSUME NEW n \in Nat \ {0}, NEW d, Tree(d, n), OneParent(d), NEW p \in DOMAIN d, NEW cs, NEW ids,
         NEW m, NEW e, AddedFacts(e, d, p, cs, ids, n, m), NEW K \in SUBSET DOMAIN d
  PROVE  Alone(e, K \cup ToSet(ids), ids)
<1> DEFINE D == DOMAIN d
           E == DOMAIN e
           all == n .. m - 1
           new == ToSet(ids)
           rest == all \ new
           L == K \cup new
           v == Unders(e, L)
<1>1. /\ m \in Nat \ {0} /\ n <= m /\ E = D \cup all /\ ids \in Seq(all)
      /\ Len(ids) = Len(cs) /\ DOMAIN ids = 1..Len(cs)
  <2>1. /\ m \in Nat \ {0} /\ n <= m /\ E = D \cup all /\ ids \in Seq(all) /\ Len(ids) = Len(cs)
    BY DEF AddedFacts
  <2> QED BY <2>1
<1>2. \A x \in rest : e[x].children = << >>
  BY DEF AddedFacts
<1>3. \A k \in DOMAIN ids : \/ e[ids[k]].children = << >>
                            \/ e[ids[k]].children = <<ids[k] + 1>> /\ ids[k] + 1 \in rest
  BY <1>1 DEF AddedFacts
<1>4. Tree(e, m)
  BY AddedTree
<1>5. D \subseteq 0 .. n - 1
  BY DEF Tree
<1>6. \A k \in DOMAIN ids : ids[k] \in all /\ ids[k] \in new /\ ids[k] \in E /\ ids[k] \in L
  BY <1>1 DEF ToSet
<1>7. \A x \in rest : x \in E /\ x \notin L
  <2>1. \A x \in all : x \notin D
    BY <1>5
  <2> QED BY <1>1, <2>1
<1>8. v \in Maps(E, Seq(E))
  BY <1>1, <1>4, UnderIs
<1>9. \A x \in E : v[x] = Under(e, L, x)
  BY DEF Unders
<1> HIDE DEF D, E, all, rest, L, v
<1>10. ids \in Seq(E)
  <2>1. all \subseteq E
    BY <1>1
  <2> QED BY <1>1, <2>1
<1>13. \A b \in E : e[b].children = << >> =>
         (b \in L => Under(e, L, b) = <<b>>) /\ (b \notin L => Under(e, L, b) = << >>)
  <2> SUFFICES ASSUME NEW b \in DOMAIN e, e[b].children = << >>
               PROVE  (b \in L => Under(e, L, b) = <<b>>) /\ (b \notin L => Under(e, L, b) = << >>)
    BY DEF E
  <2>1. m \in Nat \ {0}
    BY <1>1
  <2> QED BY <1>4, <2>1, Childless
<1>14. \A b, c \in E : b \in L /\ e[b].children = <<c>> /\ Under(e, L, c) = << >> =>
         Under(e, L, b) = <<b>>
  <2> SUFFICES ASSUME NEW b \in DOMAIN e, NEW c \in DOMAIN e,
                      b \in L, e[b].children = <<c>>, Under(e, L, c) = << >>
               PROVE  Under(e, L, b) = <<b>>
    BY DEF E
  <2>1. m \in Nat \ {0}
    BY <1>1
  <2> QED BY <1>4, <2>1, AboveNothing
<1>11. ASSUME NEW k \in DOMAIN ids PROVE v[ids[k]] = <<ids[k]>>
  <2>0. ids[k] \in E /\ ids[k] \in L
    BY <1>6
  <2>1. CASE e[ids[k]].children = << >>
    <3> DEFINE b == ids[k]
    <3>0. b \in E /\ b \in L /\ e[b].children = << >>
      BY <2>0, <2>1
    <3> HIDE DEF b
    <3>1. Under(e, L, b) = <<b>>
      BY <1>13, <3>0
    <3> QED BY <1>9, <3>0, <3>1 DEF b
  <2>2. CASE e[ids[k]].children = <<ids[k] + 1>> /\ ids[k] + 1 \in rest
    <3> DEFINE a == ids[k] + 1
    <3>0. a \in rest /\ e[ids[k]].children = <<a>>
      BY <2>2
    <3> HIDE DEF a
    <3>1. a \in E /\ a \notin L /\ e[a].children = << >>
      BY <1>2, <1>7, <3>0
    <3>2. Under(e, L, a) = << >>
      BY <1>13, <3>1
    <3>3. Under(e, L, ids[k]) = <<ids[k]>>
      BY <1>14, <2>0, <3>0, <3>1, <3>2
    <3> QED BY <1>9, <2>0, <3>3
  <2> QED BY <1>3, <2>1, <2>2
<1>12. FlattenSeq(Image(v, ids)) = ids
  BY <1>8, <1>10, <1>11, Singles
<1> QED BY <1>10, <1>12 DEF Alone, Offspring, v, L, E

\* New blocks at the end of the way.
LEMMA LaidMore ==
  ASSUME NEW d, NEW n, NEW bs, NEW way, Laid(d, n, bs, way), NEW cs, NEW ids, NEW m, NEW e,
         AddedFacts(e, d, way[Len(way)], cs, ids, n, m)
  PROVE  Laid(e, m, bs \o ids, way)
<1> DEFINE D == DOMAIN d
           E == DOMAIN e
           p == way[Len(way)]
           K == ToSet(bs)
           L == K \cup ToSet(ids)
           all == n .. m - 1
<1>1. /\ n \in Nat \ {0} /\ Tree(d, n) /\ OneParent(d) /\ bs \in Seq(D \ {Page}) /\ bs \in Seq(D)
      /\ Under(d, K, Page) = bs /\ Trunk(d, K, way)
      /\ K \subseteq D \ {Page} /\ D \subseteq 0 .. n - 1 /\ Page \in D
  <2>1. K \subseteq D \ {Page} /\ bs \in Seq(D) /\ D \subseteq 0 .. n - 1 /\ Page \in D
    BY LaidAre
  <2> QED BY <2>1 DEF Laid
<1>2. p \in D
  <2>1. Len(way) \in 1..Len(way)
    BY LaidAre
  <2> QED BY <2>1, LaidAre
<1>3. AddedFacts(e, d, p, cs, ids, n, m)
  OBVIOUS
<1>4. /\ m \in Nat \ {0} /\ n <= m /\ E = D \cup all /\ ids \in Seq(all)
      /\ e[p].children = d[p].children \o ids
      /\ \A x \in D : x # p => e[x].children = d[x].children
  BY <1>3 DEF AddedFacts
<1>5. \A x \in all : x \notin D
  BY <1>1
<1> HIDE DEF D, E, p, K, all
<1>6. ToSet(ids) \subseteq all
  BY <1>4 DEF ToSet
<1>7. Tree(e, m) /\ OneParent(e)
  BY <1>1, <1>2, <1>3, AddedTree DEF D
<1>8. ids \in Seq(E) /\ Offspring(e, L, ids) = ids
  <2>1. K \in SUBSET DOMAIN d /\ p \in DOMAIN d
    BY <1>1, <1>2 DEF D
  <2>2. n \in Nat \ {0} /\ Tree(d, n) /\ OneParent(d)
    BY <1>1
  <2>3. Alone(e, K \cup ToSet(ids), ids)
    BY <1>3, <2>1, <2>2, AddedUnder
  <2> QED BY <2>3 DEF Alone, E
<1>9. /\ D \subseteq E /\ (\A b \in D : b # p => e[b].children = d[b].children)
      /\ \A b \in D : b \in L <=> b \in K
  BY <1>4, <1>5, <1>6
<1> HIDE DEF L
<1>10. Extended(e, L, d, K, p, ids)
  <2>1. Changed(e, L, d, K, p)
    BY <1>9 DEF Changed, D, E
  <2> QED BY <1>2, <1>4, <1>8, <1>9, <2>1 DEF Extended, E
<1>11. Gains(e, L, d, K, Page, ids) /\ Trunk(e, L, way)
  <2>1. Extended(e, L, d, K, way[Len(way)], ids)
    BY <1>10 DEF p
  <2>2. m \in Nat \ {0}
    BY <1>4
  <2>3. Gains(e, L, d, K, Page, Offspring(e, L, ids)) /\ Trunk(e, L, way)
    BY <1>1, <1>7, <2>1, <2>2, Extending
  <2> QED BY <1>8, <2>3
<1>12. Under(e, L, Page) = bs \o ids
  BY <1>1, <1>11 DEF Gains
<1>13. bs \o ids \in Seq(E \ {Page}) /\ ToSet(bs \o ids) = L
  <2>1. D \ {Page} \subseteq E \ {Page} /\ all \subseteq E \ {Page}
    BY <1>1, <1>4, <1>5
  <2> DEFINE A == E \ {Page}
  <2>2. bs \in Seq(A) /\ ids \in Seq(A)
    BY <1>1, <1>4, <2>1
  <2> HIDE DEF A
  <2>3. bs \o ids \in Seq(A) /\ ToSet(bs \o ids) = ToSet(bs) \cup ToSet(ids)
    BY <2>2, Concatenated
  <2> QED BY <2>3 DEF A, L, K
<1> DEFINE r == bs \o ids
<1>14. r \in Seq(E \ {Page}) /\ ToSet(r) = L /\ Under(e, L, Page) = r
  BY <1>12, <1>13
<1> HIDE DEF r
<1>15. Laid(e, m, r, way)
  BY <1>4, <1>7, <1>11, <1>14 DEF Laid, E
<1> QED BY <1>15 DEF r

\* One new block at the end of the way, and the way on to it.
LEMMA LaidOn ==
  ASSUME NEW d, NEW n, NEW bs, NEW way, Laid(d, n, bs, way), NEW cs, NEW c, NEW m, NEW e,
         AddedFacts(e, d, way[Len(way)], cs, <<c>>, n, m)
  PROVE  Laid(e, m, bs \o <<c>>, Append(way, c)) /\ c \in n .. m - 1
<1> DEFINE p == way[Len(way)]
           q == d[p].children
           r == bs \o <<c>>
           ids == <<c>>
<1>1. Laid(e, m, r, way)
  BY LaidMore
<1>2. n \in Nat \ {0} /\ DOMAIN d \subseteq 0 .. n - 1 /\ way \in Seq(DOMAIN d) /\ p \in DOMAIN d
      /\ q \in Seq(DOMAIN d)
  <2>1. Len(way) \in 1..Len(way)
    BY LaidAre
  <2>2. p \in DOMAIN d
    BY <2>1, LaidAre
  <2> QED BY <2>2, LaidAre DEF Laid
<1>3. AddedFacts(e, d, p, cs, ids, n, m)
  OBVIOUS
<1>4. e[p].children = q \o ids /\ ids \in Seq(n .. m - 1) /\ m \in Nat \ {0}
      /\ DOMAIN e = DOMAIN d \cup (n .. m - 1)
  BY <1>3 DEF AddedFacts
<1>5. c \in n .. m - 1
  BY <1>4
<1>6. c \in DOMAIN e /\ c \notin DOMAIN d
  BY <1>2, <1>4, <1>5
<1>7. c \notin ToSet(way) /\ c \notin ToSet(q)
  BY <1>2, <1>6 DEF ToSet
<1>8. q \o ids = Append(q, c)
  BY <1>2
<1>9. q \in Seq(DOMAIN e)
  <2>1. DOMAIN d \subseteq DOMAIN e
    BY <1>4
  <2> QED BY <1>2, <2>1
<1>10. Tree(e, m) /\ Trunk(e, ToSet(r), way) /\ e[way[Len(way)]].children = Append(q, c)
  BY <1>1, <1>4, <1>8 DEF Laid
<1> HIDE DEF p, q, r, ids
<1>11. Trunk(e, ToSet(r), Append(way, c))
  BY <1>4, <1>6, <1>7, <1>9, <1>10, TrunkMore
<1>12. Laid(e, m, r, Append(way, c))
  BY <1>1, <1>11 DEF Laid
<1> QED BY <1>5, <1>12 DEF r

\* No block.
LEMMA AloneNone ==
  ASSUME NEW e, NEW L
  PROVE  Alone(e, L, << >>)
<1>1. Image(Unders(e, L), << >>) = << >>
  BY DEF Image
<1>2. FlattenSeq(<< >>) = << >>
  BY DEF FlattenSeq
<1>3. << >> \in Seq(DOMAIN e)
  OBVIOUS
<1> QED BY <1>1, <1>2, <1>3 DEF Alone, Offspring

\* A block that is not of L and has no children.
LEMMA OtherBelow ==
  ASSUME NEW n \in Nat \ {0}, NEW e, Tree(e, n), NEW L, NEW c \in DOMAIN e, c \notin L,
         e[c].children = << >>
  PROVE  <<c>> \in Seq(DOMAIN e) /\ Under(e, L, c) = << >>
         /\ Offspring(e, L, <<c>>) = << >>
<1>1. <<c>> \in Seq(DOMAIN e)
  OBVIOUS
<1>2. Under(e, L, c) = << >>
  BY Childless
<1>3. Unders(e, L)[c] = << >>
  BY <1>2 DEF Unders
<1> DEFINE v == Unders(e, L)
<1> HIDE DEF v
<1>4. Image(v, <<c>>) = <<v[c]>>
  BY DEF Image
<1>5. << >> \in Seq(DOMAIN e)
  OBVIOUS
<1>6. FlattenSeq(<< << >> >>) = << >>
  BY <1>5, FlatOne
<1> QED BY <1>1, <1>2, <1>3, <1>4, <1>6 DEF v, Offspring

\* A block is rewritten.
LEMMA LaidTexted ==
  ASSUME NEW d, NEW n, NEW bs, NEW way, Laid(d, n, bs, way), NEW e, Retexted(e, d)
  PROVE  Laid(e, n, bs, way)
<1> DEFINE D == DOMAIN d
           K == ToSet(bs)
           p == way[Len(way)]
<1>1. /\ n \in Nat \ {0} /\ Tree(d, n) /\ OneParent(d) /\ bs \in Seq(D \ {Page})
      /\ Under(d, K, Page) = bs /\ Trunk(d, K, way)
  BY DEF Laid
<1>2. p \in D /\ d[p].children \in Seq(D)
  <2>1. Len(way) \in 1..Len(way)
    BY LaidAre
  <2>2. p \in D
    BY <2>1, LaidAre
  <2> QED BY <2>2, LaidAre
<1>3. Tree(e, n) /\ DOMAIN e = D /\ \A x \in D : e[x].children = d[x].children
  BY <1>1, TextsKeep
<1>4. OneParent(e)
  BY <1>1, ShapeKept
<1> HIDE DEF K, p
<1>5. e[p].children = d[p].children \o << >>
  BY <1>2, <1>3
<1> HIDE DEF D
<1>6. Extended(e, K, d, K, p, << >>)
  BY <1>3, <1>5 DEF Extended, Changed, D
<1>7. Extended(e, K, d, K, way[Len(way)], << >>)
  BY <1>6 DEF p
<1>8. Gains(e, K, d, K, Page, Offspring(e, K, << >>)) /\ Trunk(e, K, way)
  BY <1>1, <1>3, <1>7, Extending
<1>9. Gains(e, K, d, K, Page, << >>)
  BY <1>8, AloneNone DEF Alone
<1>10. bs \o << >> = bs
  BY <1>1
<1>11. Under(e, K, Page) = bs
  BY <1>1, <1>9, <1>10 DEF Gains
<1> QED BY <1>1, <1>3, <1>4, <1>8, <1>11 DEF Laid, D, K

\* One more block on the page, at its end, and nothing else.
Sprouted(e, d, n) == Grown(e, d, n) /\ e[Page].children = d[Page].children \o <<n>>

\* A block that is not of them is added to the page.
LEMMA LaidBeside ==
  ASSUME NEW d, NEW n, NEW bs, NEW way, Laid(d, n, bs, way), NEW e, Sprouted(e, d, n)
  PROVE  Laid(e, n + 1, bs, way)
<1> DEFINE D == DOMAIN d
           E == DOMAIN e
           K == ToSet(bs)
           start == <<Page>>
           ch == d[Page].children
           more == ch \o <<n>>
<1>1. /\ n \in Nat \ {0} /\ n + 1 \in Nat \ {0} /\ Tree(d, n) /\ OneParent(d)
      /\ bs \in Seq(D \ {Page}) /\ Under(d, K, Page) = bs /\ Trunk(d, K, way)
      /\ K \subseteq D \ {Page} /\ D \subseteq 0 .. n - 1 /\ Page \in D /\ ch \in Seq(D)
  <2>1. K \subseteq D \ {Page} /\ D \subseteq 0 .. n - 1 /\ Page \in D
    BY LaidAre
  <2>2. ch \in Seq(D)
    BY <2>1, LaidAre
  <2> QED BY <2>1, <2>2 DEF Laid
<1>2. /\ Tree(e, n + 1) /\ E = D \cup {n} /\ e[n].children = << >>
      /\ \A x \in D \ {Page} : e[x] = d[x]
      /\ e[Page].children = more
  BY DEF Sprouted, Grown
<1>3. OneParent(e)
  <2>1. Grown(e, d, n)
    BY DEF Sprouted
  <2> QED BY <1>1, <2>1, ShapeKept
<1>4. n \in E /\ n \notin D /\ n \notin K
  <2>1. n \notin D
    BY <1>1
  <2> QED BY <1>1, <1>2, <2>1
<1> HIDE DEF K, ch, more
<1>5. <<n>> \in Seq(E) /\ Under(e, K, n) = << >> /\ Offspring(e, K, <<n>>) = << >>
  BY <1>1, <1>2, <1>4, OtherBelow
<1>6. /\ start[Len(start)] = Page /\ Trunk(d, K, start) /\ ToSet(start) = {Page}
  <2>1. start \in Seq(D) /\ Len(start) = 1 /\ start[1] = Page /\ IsInjective(start)
    BY <1>1 DEF IsInjective
  <2> QED BY <2>1 DEF Trunk, ToSet
<1>7. Extended(e, K, d, K, start[Len(start)], <<n>>)
  <2>1. Extended(e, K, d, K, Page, <<n>>)
    BY <1>2, <1>5 DEF Extended, Changed, more, ch
  <2> QED BY <1>6, <2>1
<1>8. /\ Gains(e, K, d, K, Page, Offspring(e, K, <<n>>))
      /\ \A b \in D : b \notin ToSet(start) => Under(e, K, b) = Under(d, K, b)
  <2> DEFINE m == n + 1
             w == start
             ids == <<n>>
  <2>1. m \in Nat \ {0} /\ Tree(e, m) /\ Tree(d, n) /\ OneParent(d)
    BY <1>1, <1>2
  <2>2. Trunk(d, K, w) /\ Extended(e, K, d, K, w[Len(w)], ids)
    BY <1>6, <1>7
  <2> HIDE DEF m, w, ids
  <2>3. Gains(e, K, d, K, Page, Offspring(e, K, ids))
    BY <1>1, <2>1, <2>2, Extending
  <2>4. \A b \in DOMAIN d : b \notin ToSet(w) => Under(e, K, b) = Under(d, K, b)
    <3>1. n \in Nat \ {0} /\ Changed(e, K, d, K, w[Len(w)])
      BY <1>1, <2>2 DEF Extended
    <3> HIDE DEF D, E, start
    <3> QED BY <2>1, <2>2, <3>1, OffTrunk
  <2> QED BY <2>3, <2>4 DEF w, ids
<1>9. Under(e, K, Page) = bs
  <2>1. Gains(e, K, d, K, Page, << >>)
    BY <1>5, <1>8
  <2>2. bs \o << >> = bs
    BY <1>1
  <2> QED BY <1>1, <2>1, <2>2 DEF Gains
<1>10. \A b \in D : b # Page => Under(e, K, b) = Under(d, K, b)
  BY <1>6, <1>8
<1>11. /\ way \in Seq(D) /\ Len(way) > 0 /\ way[1] = Page /\ IsInjective(way)
       /\ \A k \in 1 .. Len(way) - 1 : LastChild(d, K, way[k], way[k + 1])
  BY <1>1 DEF Trunk
<1>12. ASSUME NEW k \in 1 .. Len(way) - 1 PROVE LastChild(e, K, way[k], way[k + 1])
  <2> DEFINE b == way[k]
             c == way[k + 1]
  <2>1. b \in D /\ c \in D /\ k \in DOMAIN way /\ k + 1 \in DOMAIN way
    BY <1>11
  <2>2. PICK j \in DOMAIN d[b].children :
          /\ d[b].children[j] = c
          /\ \A i \in DOMAIN d[b].children : i # j => d[b].children[i] # c
          /\ \A i \in DOMAIN d[b].children : i > j => Under(d, K, d[b].children[i]) = << >>
    BY <1>11 DEF LastChild
  <2>3. \A x \in D : d[x].children \in Seq(D) /\ \A y \in ToSet(d[x].children) : y \in D /\ y # Page
    BY LaidAre
  <2>4. \A i \in DOMAIN d[b].children : d[b].children[i] \in D /\ d[b].children[i] # Page
    BY <2>1, <2>3 DEF ToSet
  <2> HIDE DEF b, c
  <2>5. CASE b # Page
    <3>1. e[b].children = d[b].children
      BY <1>2, <2>1, <2>5
    <3>2. \A i \in DOMAIN d[b].children : i > j => Under(e, K, d[b].children[i]) = << >>
      BY <1>10, <2>2, <2>4
    <3>3. LastChild(e, K, b, c)
      BY <2>2, <3>1, <3>2 DEF LastChild
    <3> QED BY <3>3 DEF b, c
  <2>6. CASE b = Page
    <3> DEFINE m == Len(ch)
    <3>1. /\ m \in Nat /\ DOMAIN ch = 1..m /\ DOMAIN more = 1 .. m + 1 /\ more[m + 1] = n
          /\ \A i \in 1..m : more[i] = ch[i]
      BY <1>1 DEF more
    <3> HIDE DEF m
    <3>2. /\ j \in 1..m /\ ch[j] = c
          /\ \A i \in 1..m : i # j => ch[i] # c
          /\ \A i \in 1..m : i > j => Under(d, K, ch[i]) = << >>
          /\ \A i \in 1..m : ch[i] \in D /\ ch[i] # Page
      BY <2>2, <2>4, <2>6, <3>1 DEF ch
    <3>3. \A i \in 1 .. m + 1 : i \in 1..m \/ i = m + 1
      BY <3>1
    <3>4. j \in 1 .. m + 1 /\ more[j] = c
      BY <3>1, <3>2
    <3>5. \A i \in 1 .. m + 1 : i # j => more[i] # c
      BY <1>4, <2>1, <3>1, <3>2, <3>3
    <3>6. \A i \in 1 .. m + 1 : i > j => Under(e, K, more[i]) = << >>
      BY <1>5, <1>10, <3>1, <3>2, <3>3
    <3>7. e[b].children = more /\ DOMAIN more = 1 .. m + 1
      BY <1>2, <2>6, <3>1
    <3>8. LastChild(e, K, b, c)
      BY <3>4, <3>5, <3>6, <3>7 DEF LastChild
    <3> QED BY <3>8 DEF b, c
  <2> QED BY <2>5, <2>6
<1>13. Trunk(e, K, way) /\ bs \in Seq(E \ {Page})
  <2>1. D \subseteq E /\ D \ {Page} \subseteq E \ {Page}
    BY <1>2
  <2>2. Seq(D) \subseteq Seq(E) /\ Seq(D \ {Page}) \subseteq Seq(E \ {Page})
    BY <2>1
  <2>3. way \in Seq(E) /\ bs \in Seq(E \ {Page})
    BY <1>1, <1>11, <2>2
  <2> QED BY <1>11, <1>12, <2>3 DEF Trunk
<1> QED BY <1>1, <1>2, <1>3, <1>9, <1>13 DEF Laid, K

\* The one child of the last block of the way, made with it, becomes one of the blocks.
LEMMA LaidFilled ==
  ASSUME NEW d, NEW n, NEW bs, NEW way, Laid(d, n, bs, way), ToSet(way) \subseteq ToSet(bs) \cup {Page},
         NEW a, d[way[Len(way)]].children = <<a>>, a \notin ToSet(bs), d[a].children = << >>,
         NEW e, Retexted(e, d)
  PROVE  Laid(e, n, bs \o <<a>>, way)
<1> DEFINE D == DOMAIN d
           K == ToSet(bs)
           L == K \cup {a}
           p == way[Len(way)]
           on == Append(way, a)
           one == <<a>>
<1>1. /\ n \in Nat \ {0} /\ Tree(d, n) /\ OneParent(d) /\ bs \in Seq(D \ {Page})
      /\ Under(d, K, Page) = bs /\ Trunk(d, K, way) /\ way \in Seq(D)
  BY DEF Laid, Trunk
<1>2. p \in D
  <2>1. Len(way) \in 1..Len(way)
    BY LaidAre
  <2> QED BY <2>1, LaidAre
<1>3. a \in D \ {Page} /\ one \in Seq(D \ {Page}) /\ ToSet(one) = {a}
  <2>1. one[1] = a /\ 1 \in DOMAIN one /\ ToSet(one) = {a}
    BY DEF ToSet
  <2>2. a \in ToSet(d[p].children)
    BY <2>1
  <2>3. a \in D /\ a # Page
    BY <1>2, <2>2, LaidAre
  <2> QED BY <2>1, <2>3
<1>4. Tree(e, n) /\ DOMAIN e = D /\ \A x \in D : e[x].children = d[x].children
  BY <1>1, TextsKeep
<1>5. OneParent(e)
  BY <1>1, ShapeKept
<1>6. a \notin ToSet(way)
  BY <1>3
<1>7. Trunk(d, K, on)
  <2> DEFINE q == << >>
  <2>1. q \in Seq(D) /\ ToSet(q) = {} /\ <<a>> = Append(q, a)
    BY DEF ToSet
  <2>2. d[way[Len(way)]].children = Append(q, a) /\ a \notin ToSet(q)
    BY <2>1
  <2> HIDE DEF q, K
  <2> QED BY <1>1, <1>3, <1>6, <2>1, <2>2, TrunkMore
<1>8. Len(on) = Len(way) + 1 /\ on[Len(on)] = a /\ \A k \in 1..Len(way) : on[k] = way[k]
  BY <1>1
<1>9. Under(d, K, a) = << >> /\ Under(e, L, a) = <<a>>
  <2>1. a \in DOMAIN d /\ a \notin K /\ d[a].children = << >>
    BY <1>3
  <2>2. a \in DOMAIN e /\ a \in L /\ e[a].children = << >>
    BY <1>3, <1>4
  <2> HIDE DEF K, L
  <2>3. Under(d, K, a) = << >>
    BY <1>1, <2>1, Childless
  <2>4. Under(e, L, a) = <<a>>
    BY <1>1, <1>4, <2>2, Childless
  <2> QED BY <2>3, <2>4
<1>10. Changed(e, L, d, K, a)
  BY <1>4 DEF Changed
<1>11. Gains(e, L, d, K, a, one)
  <2>1. one \in Seq(DOMAIN e)
    BY <1>3, <1>4
  <2>2. << >> \o one = one
    OBVIOUS
  <2> QED BY <1>9, <2>1, <2>2 DEF Gains
<1> HIDE DEF K, L, on, one, p
<1>12. Gains(e, L, d, K, Page, one) /\ \A k \in 1 .. Len(on) - 1 : LastChild(e, L, on[k], on[k + 1])
  <2>1. Changed(e, L, d, K, on[Len(on)]) /\ Gains(e, L, d, K, on[Len(on)], one)
    BY <1>8, <1>10, <1>11
  <2> QED BY <1>1, <1>4, <1>7, <2>1, UpTrunk
<1>13. \A k \in 1 .. Len(way) - 1 : LastChild(e, L, way[k], way[k + 1])
  <2> SUFFICES ASSUME NEW k \in 1 .. Len(way) - 1 PROVE LastChild(e, L, way[k], way[k + 1])
    OBVIOUS
  <2>1. Len(way) \in Nat
    BY <1>1
  <2>2. k \in 1 .. Len(on) - 1 /\ k \in 1..Len(way) /\ k + 1 \in 1..Len(way)
    BY <1>8, <2>1
  <2> QED BY <1>8, <1>12, <2>2
<1>14. Trunk(e, L, way)
  BY <1>1, <1>4, <1>13 DEF Trunk
<1> DEFINE r == bs \o one
<1>15. r \in Seq(DOMAIN e \ {Page}) /\ ToSet(r) = L /\ Under(e, L, Page) = r
  <2>1. Under(e, L, Page) = r
    BY <1>1, <1>12 DEF Gains
  <2> DEFINE A == D \ {Page}
  <2>2. bs \in Seq(A) /\ one \in Seq(A)
    BY <1>1, <1>3
  <2> HIDE DEF A
  <2>3. r \in Seq(A) /\ ToSet(r) = ToSet(bs) \cup ToSet(one)
    BY <2>2, Concatenated
  <2> QED BY <1>3, <1>4, <2>1, <2>3 DEF A, K, L
<1> HIDE DEF r
<1>16. Laid(e, n, r, way)
  BY <1>1, <1>4, <1>5, <1>14, <1>15 DEF Laid
<1> QED BY <1>16 DEF r, one

-----------------------------------------------------------------------------
(* The entries they stand for.                                             *)

\* The entry whose list entry i is in, and the block of it, if bs are the blocks
\* of the entries.
ListOf(es, i) ==
  LET above == {j \in 1 .. i - 1 : es[j].level < es[i].level}
  IN IF above = {} THEN 0 ELSE Max(above)
Over(es, bs, i) == IF ListOf(es, i) = 0 THEN Page ELSE bs[ListOf(es, i)]

\* It is an earlier one.
LEMMA ListBefore ==
  ASSUME NEW es, NEW i \in Nat \ {0}
  PROVE  ListOf(es, i) \in 0 .. i - 1
<1> DEFINE above == {j \in 1 .. i - 1 : es[j].level < es[i].level}
<1>1. CASE above = {}
  BY <1>1 DEF ListOf
<1>2. CASE above # {}
  <2>1. above \subseteq 1 .. i - 1 /\ i - 1 \in Nat
    OBVIOUS
  <2>2. ListOf(es, i) = Max(above)
    BY <1>2 DEF ListOf
  <2> HIDE DEF above
  <2>3. Max(above) \in above
    BY <1>2, <2>1, MaxOf
  <2>4. ListOf(es, i) \in 1 .. i - 1
    BY <2>1, <2>2, <2>3
  <2> DEFINE e == ListOf(es, i)
  <2>5. e \in 1 .. i - 1
    BY <2>4
  <2> HIDE DEF e
  <2>6. e \in 0 .. i - 1
    BY <2>5
  <2> QED BY <2>6 DEF e
<1> QED BY <1>1, <1>2

\* It is e, when the entries behind e are as deep as i.
LEMMA ListIs ==
  ASSUME NEW es \in Seq(EntrySet), NEW i \in DOMAIN es
  PROVE  /\ es[i].level = 0 => ListOf(es, i) = 0
         /\ \A e \in 1 .. i - 1 :
              es[e].level < es[i].level /\ (\A j \in e + 1 .. i - 1 : es[j].level >= es[i].level)
                => ListOf(es, i) = e
<1> DEFINE above == {j \in 1 .. i - 1 : es[j].level < es[i].level}
<1>1. i \in Nat /\ \A j \in 1..i : es[j].level \in Nat
  <2>1. i \in Nat /\ \A j \in 1..i : es[j] \in EntrySet
    OBVIOUS
  <2> QED BY <2>1 DEF EntrySet, EntriesOn
<1>2. ASSUME es[i].level = 0 PROVE ListOf(es, i) = 0
  <2>1. above = {}
    BY <1>1, <1>2
  <2> QED BY <2>1 DEF ListOf
<1>3. ASSUME NEW e \in 1 .. i - 1, es[e].level < es[i].level,
             \A j \in e + 1 .. i - 1 : es[j].level >= es[i].level
      PROVE  ListOf(es, i) = e
  <2>1. e \in above /\ above \subseteq Int /\ above # {}
    BY <1>3
  <2>2. \A j \in above : j <= e
    <3> SUFFICES ASSUME NEW j \in 1 .. i - 1, es[j].level < es[i].level, j > e PROVE FALSE
      BY <1>1
    <3>1. j \in e + 1 .. i - 1
      BY <1>1
    <3>2. es[j].level >= es[i].level
      BY <1>3, <3>1
    <3> QED BY <1>1, <3>2
  <2>3. Max(above) = e
    <3> HIDE DEF above
    <3>1. i - 1 \in Nat /\ above \subseteq 1 .. i - 1
      BY <1>1 DEF above
    <3>2. Max(above) \in above /\ \A j \in above : j <= Max(above)
      BY <2>1, <3>1, MaxOf
    <3>3. Max(above) \in Int /\ e \in Int /\ Max(above) <= e /\ e <= Max(above)
      BY <2>1, <2>2, <3>2
    <3> QED BY <3>3
  <2> QED BY <2>1, <2>3 DEF ListOf
<1> QED BY <1>2, <1>3

\* The blocks of the way are those of the entries that are open: what follows them
\* before entry a is deeper.
Leads(es, bs, way, a) ==
  \A k \in 2 .. Len(way) : \E e \in 1 .. Len(bs) :
    /\ way[k] = bs[e] /\ es[e].level = k - 2
    /\ \A j \in e + 1 .. a - 1 : es[j].level >= k - 1

\* The entries w, behind those of bs and before a, wait for a block in the last one of the way.
Waits(es, bs, way, w, a) ==
  /\ a = Len(bs) + Len(w) + 1 /\ a <= Len(es) + 1
  /\ \A k \in 1..Len(w) : w[k] = Len(bs) + k /\ es[Len(bs) + k].level = Len(way) - 1
  /\ a <= Len(es) => es[a].level <= Len(way) - 1
  /\ Leads(es, bs, way, a)

\* cs begins as bs.
Begins(cs, bs) == Len(bs) \in Nat /\ \A j \in 1..Len(bs) : cs[j] = bs[j]

\* Entry i is behind those of bs and not behind a, on the level of the way.
Meets(es, bs, way, a, i) ==
  /\ i \in DOMAIN es /\ Len(bs) < i /\ i <= a
  /\ Len(way) \in Nat \ {0} /\ way[1] = Page /\ es[i].level = Len(way) - 1

\* An entry on the level of the way is in the list of its last block.
LEMMA OverIs ==
  ASSUME NEW es \in Seq(EntrySet), NEW bs, NEW way, NEW a \in Nat, Leads(es, bs, way, a),
         NEW i, Meets(es, bs, way, a, i), NEW cs, Begins(cs, bs)
  PROVE  Over(es, cs, i) = way[Len(way)]
<1> DEFINE l == Len(way)
           m == Len(bs)
<1>0. /\ i \in DOMAIN es /\ m < i /\ i <= a /\ l \in Nat \ {0} /\ way[1] = Page
      /\ es[i].level = l - 1 /\ m \in Nat
  BY DEF Meets, Begins
<1>1. i \in Nat /\ i # 0 /\ m \in Nat /\ l \in Nat \ {0} /\ \A j \in 1..m : cs[j] = bs[j]
  BY <1>0 DEF Begins
<1>2. CASE l = 1
  <2>1. ListOf(es, i) = 0
    BY <1>0, <1>2, ListIs
  <2> QED BY <1>0, <1>2, <2>1 DEF Over
<1>3. CASE l # 1
  <2>0. l \in 2..l
    <3> HIDE DEF l
    <3> QED BY <1>1, <1>3
  <2>1. PICK e \in 1..m : /\ way[l] = bs[e] /\ es[e].level = l - 2
                          /\ \A j \in e + 1 .. a - 1 : es[j].level >= l - 1
    BY <2>0 DEF Leads
  <2>2. e \in 1 .. i - 1 /\ e # 0
    BY <1>0, <1>1
  <2>3. \A j \in e + 1 .. i - 1 : es[j].level >= l - 1
    <3>1. \A j \in e + 1 .. i - 1 : j \in e + 1 .. a - 1
      BY <1>0, <1>1
    <3> QED BY <2>1, <3>1
  <2>4. es[e].level < es[i].level /\ es[i].level = l - 1
    BY <1>0, <1>1, <2>1
  <2>5. ListOf(es, i) = e
    BY <1>0, <2>2, <2>3, <2>4, ListIs
  <2>6. cs[e] = bs[e]
    BY <1>1
  <2>7. Over(es, cs, i) = cs[e]
    BY <2>2, <2>5 DEF Over
  <2> QED BY <2>1, <2>6, <2>7
<1> QED BY <1>2, <1>3

\* Each block shows its entry, unless a colleague changed it, and is where it is to be.
Nested(d, es, oth, bs) ==
  \A i \in 1..Len(bs) :
    /\ bs[i] \in oth \/ (d[bs[i]].type = es[i].type /\ d[bs[i]].text = es[i].text)
    /\ bs[i] \in ToSet(d[Over(es, bs, i)].children)

\* More blocks do not change what the earlier ones are in.
LEMMA OverKept ==
  ASSUME NEW es, NEW A, NEW bs \in Seq(A), NEW ids \in Seq(A), Page \in A, NEW i \in 1..Len(bs)
  PROVE  Over(es, bs \o ids, i) = Over(es, bs, i) /\ Over(es, bs, i) \in A
<1> DEFINE e == ListOf(es, i)
           cs == bs \o ids
<1>1. e \in 0 .. i - 1
  BY ListBefore
<1>2. e # 0 => e \in 1..Len(bs) /\ cs[e] = bs[e] /\ bs[e] \in A
  BY <1>1
<1> HIDE DEF e, cs
<1> QED BY <1>2 DEF Over, e, cs

\* From d to e blocks of bs change only if they are of more, lose no children, and
\* ids show the entries behind those of bs and are where they are to be.
Follow(e, d, es, oth, more, bs, ids) ==
  /\ DOMAIN d \subseteq DOMAIN e /\ oth \subseteq more
  /\ \A x \in DOMAIN d : ToSet(d[x].children) \subseteq ToSet(e[x].children)
  /\ \A x \in ToSet(bs) : x \in more \/ (e[x].type = d[x].type /\ e[x].text = d[x].text)
  /\ ids \in Seq(DOMAIN e)
  /\ \A k \in 1..Len(ids) :
       /\ e[ids[k]].type = es[Len(bs) + k].type /\ e[ids[k]].text = es[Len(bs) + k].text
       /\ ids[k] \in ToSet(e[Over(es, bs \o ids, Len(bs) + k)].children)

\* The blocks ids take their places behind those of bs.
LEMMA NestedOn ==
  ASSUME NEW d, NEW n, NEW bs, NEW way, Laid(d, n, bs, way), NEW es, NEW oth, Nested(d, es, oth, bs),
         NEW e, NEW more, NEW ids, Follow(e, d, es, oth, more, bs, ids)
  PROVE  Nested(e, es, more, bs \o ids)
<1> DEFINE D == DOMAIN d
           E == DOMAIN e
           m == Len(bs)
           l == Len(ids)
           cs == bs \o ids
<1>1. bs \in Seq(D) /\ Page \in D
  BY LaidAre
<1>2. /\ D \subseteq E /\ oth \subseteq more /\ ids \in Seq(E)
      /\ \A x \in D : ToSet(d[x].children) \subseteq ToSet(e[x].children)
      /\ \A x \in ToSet(bs) : x \in more \/ (e[x].type = d[x].type /\ e[x].text = d[x].text)
      /\ \A k \in 1..l : /\ e[ids[k]].type = es[m + k].type /\ e[ids[k]].text = es[m + k].text
                         /\ ids[k] \in ToSet(e[Over(es, cs, m + k)].children)
  BY DEF Follow
<1>3. bs \in Seq(E) /\ Page \in E
  <2>1. Seq(D) \subseteq Seq(E)
    BY <1>2
  <2> QED BY <1>1, <1>2, <2>1
<1>4. /\ m \in Nat /\ l \in Nat /\ Len(cs) = m + l
      /\ \A i \in 1..m : cs[i] = bs[i] /\ bs[i] \in ToSet(bs)
      /\ \A k \in 1..l : cs[m + k] = ids[k]
  <2>1. \A i \in 1..m : bs[i] \in ToSet(bs)
    BY <1>1 DEF ToSet
  <2> QED BY <1>2, <1>3, <2>1
<1>5. \A i \in 1..m : Over(es, cs, i) = Over(es, bs, i) /\ Over(es, bs, i) \in D
  <2> SUFFICES ASSUME NEW i \in 1..m PROVE Over(es, cs, i) = Over(es, bs, i) /\ Over(es, bs, i) \in D
    OBVIOUS
  <2>1. Over(es, cs, i) = Over(es, bs, i)
    BY <1>2, <1>3, OverKept
  <2>2. << >> \in Seq(D)
    OBVIOUS
  <2>3. Over(es, bs, i) \in D
    BY <1>1, <2>2, OverKept
  <2> QED BY <2>1, <2>3
<1>6. \A i \in 1..m : /\ bs[i] \in oth \/ (d[bs[i]].type = es[i].type /\ d[bs[i]].text = es[i].text)
                      /\ bs[i] \in ToSet(d[Over(es, bs, i)].children)
  BY DEF Nested
<1> HIDE DEF m, l, cs, D
<1>7. ASSUME NEW i \in 1 .. m + l
      PROVE  /\ cs[i] \in more \/ (e[cs[i]].type = es[i].type /\ e[cs[i]].text = es[i].text)
             /\ cs[i] \in ToSet(e[Over(es, cs, i)].children)
  <2>1. CASE i <= m
    <3>1. i \in 1..m
      BY <1>4, <2>1
    <3>2. cs[i] = bs[i] /\ bs[i] \in ToSet(bs)
      BY <1>4, <3>1
    <3>3. bs[i] \in more \/ (e[bs[i]].type = es[i].type /\ e[bs[i]].text = es[i].text)
      BY <1>2, <1>6, <3>1, <3>2
    <3>4. bs[i] \in ToSet(e[Over(es, cs, i)].children)
      BY <1>2, <1>5, <1>6, <3>1
    <3> QED BY <3>2, <3>3, <3>4
  <2>2. CASE ~(i <= m)
    <3> DEFINE k == i - m
    <3>1. k \in 1..l /\ m + k = i
      BY <1>4, <2>2
    <3> HIDE DEF k
    <3> QED BY <1>2, <1>4, <3>1
  <2> QED BY <2>1, <2>2
<1> QED BY <1>4, <1>7 DEF Nested, m, l, cs

\* A list with nothing behind it.
LEMMA NestedSame ==
  ASSUME NEW d, NEW n, NEW bs, NEW way, Laid(d, n, bs, way), NEW es, NEW oth, Nested(d, es, oth, bs),
         NEW e, NEW more, Follow(e, d, es, oth, more, bs, << >>)
  PROVE  Nested(e, es, more, bs)
<1>1. bs \o << >> = bs
  BY DEF Laid
<1>2. Nested(e, es, more, bs \o << >>)
  BY NestedOn
<1> QED BY <1>1, <1>2

\* New blocks in the last one of the way, for the entries behind those of bs.
LEMMA NestedMore ==
  ASSUME NEW d, NEW n, NEW bs, NEW way, Laid(d, n, bs, way), NEW es, NEW oth, Nested(d, es, oth, bs),
         NEW cs, NEW ids, NEW m, NEW e, AddedFacts(e, d, way[Len(way)], cs, ids, n, m),
         \A k \in 1..Len(ids) :
           /\ cs[k].type = es[Len(bs) + k].type /\ cs[k].text = es[Len(bs) + k].text
           /\ Over(es, bs \o ids, Len(bs) + k) = way[Len(way)]
  PROVE  Nested(e, es, oth, bs \o ids)
<1> DEFINE p == way[Len(way)]
           D == DOMAIN d
           E == DOMAIN e
<1>1. n \in Nat \ {0} /\ Tree(d, n) /\ OneParent(d) /\ ToSet(bs) \subseteq D
  BY LaidAre DEF Laid
<1>2. p \in D
  <2>1. Len(way) \in 1..Len(way)
    BY LaidAre
  <2> QED BY <2>1, LaidAre
<1>3. AddedFacts(e, d, p, cs, ids, n, m)
  OBVIOUS
<1>4. /\ E = D \cup (n .. m - 1) /\ ids \in Seq(n .. m - 1) /\ Len(ids) = Len(cs)
      /\ \A x \in D : /\ e[x].type = d[x].type /\ e[x].text = d[x].text
                      /\ x # p => e[x].children = d[x].children
      /\ \A k \in 1..Len(cs) : e[ids[k]].type = cs[k].type /\ e[ids[k]].text = cs[k].text
  BY <1>3 DEF AddedFacts
<1>5. ToSet(e[p].children) = ToSet(d[p].children) \cup ToSet(ids)
  BY <1>1, <1>2, <1>3, AddedTree
<1>6. \A k \in 1..Len(ids) : ids[k] \in ToSet(ids)
  BY <1>4 DEF ToSet
<1> DEFINE r == bs \o ids
<1>7. \A k \in 1..Len(ids) :
           /\ cs[k].type = es[Len(bs) + k].type /\ cs[k].text = es[Len(bs) + k].text
           /\ Over(es, r, Len(bs) + k) = p
  OBVIOUS
<1>8. ids \in Seq(E)
  <2> DEFINE all == n .. m - 1
  <2>1. all \subseteq E /\ ids \in Seq(all)
    BY <1>4
  <2> HIDE DEF all, E
  <2> QED BY <2>1
<1> HIDE DEF r, p, D, E
<1>9. \A k \in 1..Len(ids) :
       /\ e[ids[k]].type = es[Len(bs) + k].type /\ e[ids[k]].text = es[Len(bs) + k].text
       /\ ids[k] \in ToSet(e[Over(es, r, Len(bs) + k)].children)
  BY <1>4, <1>5, <1>6, <1>7
<1>10. \A x \in D : ToSet(d[x].children) \subseteq ToSet(e[x].children)
  BY <1>4, <1>5
<1>11. Follow(e, d, es, oth, oth, bs, ids)
  BY <1>1, <1>4, <1>8, <1>9, <1>10 DEF Follow, r, D, E
<1> QED BY <1>11, NestedOn

\* The entries of a list stand for blocks that a create request can have.
LEMMA BodyType ==
  ASSUME entries \in Seq(EntrySet), Regular(entries), NEW i \in DOMAIN entries
  PROVE  /\ Body(i) \in Blocks({})
         /\ Body(i).type = entries[i].type /\ Body(i).text = entries[i].text
<1>1. entries[i] \in EntrySet
  OBVIOUS
<1>2. entries[i].type \in BlockTypes /\ entries[i].text \in Texts \cup {""} /\ entries[i].style \in Styles
  BY <1>1 DEF EntrySet, EntriesOn, Strings, Regular
<1>3. << >> \in Seq({})
  OBVIOUS
<1> QED BY <1>2, <1>3 DEF Body, NewBlock, Blocks

\* What is so of the blocks bs of the first entries.
Landed(bs) ==
  /\ Laid(doc, fresh, bs, path)
  /\ made = Pairs(bs)
  /\ Nested(doc, entries, others, bs)

Bodies(is) == [k \in DOMAIN is |-> Body(is[k])]

\* The entries that a request is for: those behind bs, in the list of the last block of the path.
Nexts(is, bs) ==
  \A k \in 1..Len(is) : is[k] = Len(bs) + k /\ entries[is[k]].level = Len(path) - 1

\* A create request.
LEMMA CreatedLands ==
  ASSUME entries \in Seq(EntrySet), Regular(entries), ~IsDiff, NEW bs, Landed(bs),
         NEW is \in Seq(Nat), Nexts(is, bs), Len(bs) + Len(is) <= Len(entries),
         NEW a \in Nat, Leads(entries, bs, path, a), Len(bs) + Len(is) <= a, Created(is),
         UNCHANGED <<entries, others>>
  PROVE  \E ids : /\ Laid(doc', fresh', bs \o ids, path)
                  /\ made' = Pairs(bs \o ids)
                  /\ Nested(doc', entries, others, bs \o ids)
                  /\ AddedFacts(doc', doc, path[Len(path)], Bodies(is), ids, fresh, fresh')
                  /\ Len(ids) = Len(is)
                  /\ \A k \in 1..Len(ids) : ids[k] = IdOf(Bodies(is), fresh, k)
<1> DEFINE D == DOMAIN doc
           p == path[Len(path)]
           cs == Bodies(is)
           ids == [k \in DOMAIN cs |-> IdOf(cs, fresh, k)]
           r == bs \o ids
           m == Len(bs)
           l == Len(is)
<1>1. /\ Laid(doc, fresh, bs, path) /\ made = Pairs(bs) /\ Nested(doc, entries, others, bs)
      /\ fresh \in Nat \ {0} /\ Tree(doc, fresh) /\ OneParent(doc)
  BY DEF Landed, Laid
<1>2. /\ path \in Seq(D) /\ Len(path) \in Nat \ {0} /\ path[1] = Page /\ p \in D
      /\ bs \in Seq(D) /\ Page \in D /\ D \subseteq 0 .. fresh - 1 /\ m \in Nat
  <2>1. path[1] = Page
    BY <1>1 DEF Laid, Trunk
  <2>2. /\ path \in Seq(D) /\ Len(path) \in Nat \ {0} /\ bs \in Seq(D) /\ Page \in D
        /\ D \subseteq 0 .. fresh - 1
    BY <1>1, LaidAre
  <2>3. Len(path) \in 1..Len(path)
    BY <2>2
  <2> QED BY <2>1, <2>2, <2>3
<1>3. l \in Nat /\ DOMAIN is = 1..l
      /\ \A k \in 1..l : /\ is[k] = m + k /\ is[k] \in DOMAIN entries
                         /\ entries[is[k]].level = Len(path) - 1
  <2>1. l \in Nat /\ DOMAIN is = 1..l /\ Len(entries) \in Nat /\ DOMAIN entries = 1..Len(entries)
    OBVIOUS
  <2>2. \A k \in 1..l : is[k] = m + k /\ entries[is[k]].level = Len(path) - 1
    BY DEF Nexts
  <2>3. m + l <= Len(entries)
    OBVIOUS
  <2> HIDE DEF m, l
  <2>4. \A k \in 1..l : m + k \in 1..Len(entries)
    BY <1>2, <2>1, <2>3 DEF m
  <2> QED BY <2>1, <2>2, <2>4
<1>4. /\ DOMAIN cs = 1..l /\ Len(cs) = l /\ cs \in Seq(Blocks({}))
      /\ \A k \in 1..l : cs[k].type = entries[is[k]].type /\ cs[k].text = entries[is[k]].text
  <2>1. \A k \in 1..l : /\ Body(is[k]) \in Blocks({})
                        /\ Body(is[k]).type = entries[is[k]].type /\ Body(is[k]).text = entries[is[k]].text
    BY <1>3, BodyType
  <2>2. cs \in [1..l -> Blocks({})] /\ \A k \in 1..l : cs[k] = Body(is[k])
    BY <1>3, <2>1 DEF Bodies
  <2> HIDE DEF cs, l
  <2>3. cs \in Seq(Blocks({})) /\ Len(cs) = l /\ DOMAIN cs = 1..l
    BY <1>3, <2>2
  <2> QED BY <2>1, <2>2, <2>3
<1>5. /\ doc' = AddBlocks(doc, p, cs, fresh) /\ fresh' = IdOf(cs, fresh, Len(cs) + 1)
      /\ made' = made \cup {<<is[k], IdOf(cs, fresh, k)>> : k \in DOMAIN is}
  <2>1. Parent = p
    BY DEF Parent, Last
  <2> HIDE DEF p
  <2>2. /\ doc' = AddBlocks(doc, Parent, cs, fresh) /\ fresh' = IdOf(cs, fresh, Len(is) + 1)
        /\ made' = made \cup {<<is[k], IdOf(cs, fresh, k)>> : k \in DOMAIN is}
    BY DEF Created, Bodies
  <2> QED BY <1>4, <2>1, <2>2
<1> HIDE DEF cs
<1>6. Added(doc', doc, p, cs, ids, fresh, fresh')
  <2>1. Added(AddBlocks(doc, p, cs, fresh), doc, p, cs, ids, fresh, IdOf(cs, fresh, Len(cs) + 1))
    BY <1>1, <1>2, <1>4, AddBlocksIs
  <2> QED BY <1>5, <2>1
<1>7. AddedFacts(doc', doc, p, cs, ids, fresh, fresh')
  <2> HIDE DEF ids, p
  <2> QED BY <1>1, <1>2, <1>4, <1>6, AddedIs
<1>8. Laid(doc', fresh', r, path)
  <2> HIDE DEF ids
  <2> QED BY <1>1, <1>7, LaidMore
<1>9. ids \in Seq(Nat) /\ Len(ids) = l /\ \A k \in 1..l : ids[k] = IdOf(cs, fresh, k)
  <2>1. Len(ids) = l /\ ids \in Seq(fresh .. fresh' - 1)
    BY <1>4, <1>7 DEF AddedFacts
  <2>2. \A k \in 1..l : ids[k] = IdOf(cs, fresh, k)
    BY <1>4
  <2> DEFINE all == fresh .. fresh' - 1
  <2>3. all \subseteq Nat /\ ids \in Seq(all)
    BY <1>1, <2>1
  <2> HIDE DEF all, ids
  <2>4. ids \in Seq(Nat)
    BY <2>3, Widened
  <2> QED BY <2>1, <2>2, <2>4
<1>10. made' = Pairs(r)
  <2>1. bs \in Seq(Nat)
    <3>1. D \subseteq Nat
      BY <1>1, <1>2
    <3> HIDE DEF D
    <3> QED BY <1>2, <3>1, Widened
  <2> HIDE DEF ids
  <2>2. Pairs(r) = Pairs(bs) \cup {<<Len(bs) + k, ids[k]>> : k \in 1..Len(ids)}
    BY <1>9, <2>1, PairsMore
  <2> HIDE DEF m, l, r
  <2>3. {<<is[k], IdOf(cs, fresh, k)>> : k \in DOMAIN is} = {<<m + k, ids[k]>> : k \in 1..l}
    BY <1>3, <1>9
  <2> QED BY <1>1, <1>5, <1>9, <2>2, <2>3 DEF m
<1>11. ASSUME NEW k \in 1..l PROVE Over(entries, r, m + k) = p
  <2> DEFINE i == m + k
  <2>1. i \in DOMAIN entries /\ entries[i].level = Len(path) - 1 /\ m < i /\ i <= m + l
    <3>1. m < m + k /\ m + k <= m + l
      BY <1>2, <1>3
    <3> QED BY <1>3, <3>1
  <2>2. i <= a
    <3>1. m + l <= a
      OBVIOUS
    <3> HIDE DEF m, l
    <3>2. m + k <= m + l
      BY <1>2, <1>3
    <3> QED BY <1>2, <1>3, <3>1, <3>2
  <2>3. \A j \in 1..Len(bs) : r[j] = bs[j]
    <3> DEFINE A == D \cup Nat
    <3>1. D \subseteq A /\ Nat \subseteq A /\ bs \in Seq(D) /\ ids \in Seq(Nat)
      BY <1>2, <1>9
    <3> HIDE DEF A, D, ids
    <3>2. bs \in Seq(A) /\ ids \in Seq(A)
      BY <3>1, Widened
    <3> QED BY <3>2, JoinedAt
  <2> HIDE DEF i, ids, D, l, r, p
  <2>4. Len(bs) < i /\ i <= a /\ Len(bs) \in Nat
    BY <1>2, <2>1, <2>2
  <2> HIDE DEF m
  <2>5. Begins(r, bs)
    BY <2>3, <2>4 DEF Begins
  <2>6. Meets(entries, bs, path, a, i)
    BY <1>2, <2>1, <2>4 DEF Meets
  <2>7. Over(entries, r, i) = path[Len(path)]
    BY <2>5, <2>6, OverIs
  <2> QED BY <2>7 DEF i, p
<1>12. Nested(doc', entries, others, r)
  <2> HIDE DEF ids
  <2>1. \A k \in 1..Len(ids) :
           /\ cs[k].type = entries[Len(bs) + k].type /\ cs[k].text = entries[Len(bs) + k].text
           /\ Over(entries, bs \o ids, Len(bs) + k) = path[Len(path)]
    BY <1>3, <1>4, <1>9, <1>11
  <2>2. AddedFacts(doc', doc, path[Len(path)], cs, ids, fresh, fresh')
    BY <1>7
  <2> HIDE DEF r, p, m, l
  <2>3. Nested(doc', entries, others, bs \o ids)
    BY <1>1, <2>1, <2>2, NestedMore
  <2> QED BY <2>3 DEF r
<1>13. /\ Laid(doc', fresh', bs \o ids, path) /\ made' = Pairs(bs \o ids)
       /\ Nested(doc', entries, others, bs \o ids)
       /\ AddedFacts(doc', doc, path[Len(path)], cs, ids, fresh, fresh') /\ Len(ids) = Len(is)
       /\ \A k \in 1..Len(ids) : ids[k] = IdOf(cs, fresh, k)
  BY <1>7, <1>8, <1>9, <1>10, <1>12
<1> HIDE DEF ids
<1> QED BY <1>13 DEF cs

-----------------------------------------------------------------------------
(* A replacement puts every entry where it belongs.                        *)

\* The entry a goes into the last block of the way, or into the one child of it
\* that the server made.
Fits(d, es, bs, way, a) ==
  /\ es[a].type = "text" /\ Len(way) > 1
  /\ \/ d[way[Len(way)]].children = << >>
     \/ \E c : /\ d[way[Len(way)]].children = <<c>> /\ c \notin ToSet(bs)
               /\ d[c].type = "text" /\ d[c].children = << >>

\* It does as long as only the page gets other children.
LEMMA FitsKept ==
  ASSUME NEW d, NEW n, NEW bs, NEW way, Laid(d, n, bs, way), NEW es, NEW a, Fits(d, es, bs, way, a),
         NEW e, \A x \in DOMAIN d \ {Page} : e[x].type = d[x].type /\ e[x].children = d[x].children
  PROVE  Fits(e, es, bs, way, a) /\ e[way[Len(way)]].children = d[way[Len(way)]].children
<1> DEFINE p == way[Len(way)]
<1>1. es[a].type = "text" /\ Len(way) > 1
  BY DEF Fits
<1>2. p \in DOMAIN d \ {Page}
  <2>1. way \in Seq(DOMAIN d) /\ way[1] = Page /\ IsInjective(way)
    BY DEF Laid, Trunk
  <2>2. 1 \in DOMAIN way /\ Len(way) \in DOMAIN way /\ Len(way) # 1
    BY <1>1, <2>1
  <2>3. p # way[1]
    BY <2>2, <2>1 DEF IsInjective
  <2> QED BY <2>1, <2>2, <2>3
<1>3. e[p].children = d[p].children
  BY <1>2
<1>4. \A x \in DOMAIN d : \A c \in ToSet(d[x].children) : c \in DOMAIN d /\ c # Page
  BY LaidAre
<1> HIDE DEF p
<1>5. ASSUME NEW c, d[p].children = <<c>>, c \notin ToSet(bs), d[c].type = "text", d[c].children = << >>
      PROVE  e[p].children = <<c>> /\ e[c].type = "text" /\ e[c].children = << >>
  <2>1. c \in ToSet(<<c>>)
    BY OneElement
  <2>2. c \in DOMAIN d \ {Page}
    BY <1>2, <1>4, <1>5, <2>1
  <2> QED BY <1>3, <1>5, <2>2
<1>6. \/ d[p].children = << >>
      \/ \E c : /\ d[p].children = <<c>> /\ c \notin ToSet(bs)
                /\ d[c].type = "text" /\ d[c].children = << >>
  BY DEF Fits, p
<1>7. Fits(e, es, bs, way, a)
  <2>1. \/ e[p].children = << >>
        \/ \E c : /\ e[p].children = <<c>> /\ c \notin ToSet(bs)
                  /\ e[c].type = "text" /\ e[c].children = << >>
    BY <1>3, <1>5, <1>6
  <2> QED BY <1>1, <2>1 DEF Fits, p
<1> QED BY <1>3, <1>7 DEF p

\* The entries that wait for a block.
Waiting == IF pc = "create" THEN todo ELSE flat

\* A replacement has given the blocks bs to the first entries, and is where it
\* can go on with those behind them.
Lands(bs) ==
  /\ Landed(bs)
  /\ Waits(entries, bs, path, Waiting, at)
  /\ pc # "create" => todo = << >>
  /\ pc \in {"parent", "find", "fill"} =>
       flat = << >> /\ at <= Len(entries) /\ entries[at].level = Len(path) - 1
  /\ pc \in {"find", "fill"} => Fits(doc, entries, bs, path, at)
  /\ pc = "fill" => doc[path[Len(path)]].children # << >>
  /\ pc = "delete" => bs = << >> /\ path = <<Page>>
  /\ pc = "done" => at = Len(entries) + 1 /\ flat = << >>

\* A colleague adds a paragraph at the end of the page, or rewrites a block.
LEMMA ColleagueIs ==
  ASSUME Colleague, fresh \in Nat \ {0}, Tree(doc, fresh)
  PROVE  \/ Sprouted(doc', doc, fresh) /\ fresh' = fresh + 1 /\ others' = others \cup {fresh}
         \/ /\ Retexted(doc', doc) /\ fresh' = fresh
            /\ \E b \in DOMAIN doc :
                 others' = others \cup {b} /\ \A x \in DOMAIN doc : x # b => doc'[x] = doc[x]
<1>1. ASSUME NEW t \in Texts, doc' = AddBlocks(doc, Page, <<NewBlock("text", t, NoStyle)>>, fresh)
      PROVE  Sprouted(doc', doc, fresh)
  <2> DEFINE blk == NewBlock("text", t, NoStyle)
             e == AddBlocks(doc, Page, <<blk>>, fresh)
  <2>1. Grown(e, doc, fresh) /\ e[Page].children = doc[Page].children \o <<fresh>>
    <3> HIDE DEF blk
    <3>1. e = AddBlocks(doc, Page, <<blk>>, fresh) /\ blk = NewBlock("text", t, NoStyle)
      BY DEF blk
    <3>2. e = WithLast(doc, fresh, blk)
      BY <3>1, OneBlock
    <3> HIDE DEF e
    <3>3. Grown(e, doc, fresh)
      BY <3>1, ParagraphKeeps
    <3>4. Page \in DOMAIN doc /\ Page # fresh
      BY DEF Tree, Page
    <3>5. e[Page] = [doc[Page] EXCEPT !.children = @ \o <<fresh>>]
      BY <3>2, <3>4 DEF WithLast
    <3>6. doc[Page] \in Blocks(DOMAIN doc)
      BY <3>4 DEF Tree
    <3>7. e[Page].children = doc[Page].children \o <<fresh>>
      BY <3>5, <3>6 DEF Blocks
    <3> QED BY <3>3, <3>7
  <2>2. doc' = e
    BY <1>1
  <2> HIDE DEF e, blk
  <2> QED BY <2>1, <2>2 DEF Sprouted
<1>2. ASSUME NEW b \in DOMAIN doc, NEW t \in Texts, doc' = SetText(doc, b, t)
      PROVE  Retexted(doc', doc) /\ \A x \in DOMAIN doc : x # b => doc'[x] = doc[x]
  <2>1. doc' = [x \in DOMAIN doc |-> IF x = b THEN [doc[b] EXCEPT !.text = t] ELSE doc[x]]
    BY <1>2 DEF SetText
  <2>2. t \in Strings
    BY DEF Strings
  <2> QED BY <2>1, <2>2 DEF Retexted
<1> QED BY <1>1, <1>2 DEF Colleague

\* What a colleague does leaves the blocks as they are laid.
LEMMA ColleagueLands ==
  ASSUME NEW bs, Lands(bs), Colleague
  PROVE  Lands(bs)'
<1>1. /\ Laid(doc, fresh, bs, path) /\ made = Pairs(bs) /\ Nested(doc, entries, others, bs)
      /\ fresh \in Nat \ {0} /\ Tree(doc, fresh)
  BY DEF Lands, Landed, Laid
<1>2. UNCHANGED <<pc, entries, at, path, flat, todo, made>>
  BY DEF Colleague, planVars, walkVars, sendVars
<1>3. /\ DOMAIN doc \subseteq DOMAIN doc' /\ others \subseteq others'
      /\ Laid(doc', fresh', bs, path)
      /\ \A x \in DOMAIN doc \ {Page} :
           x \in others' \/ (doc'[x].type = doc[x].type /\ doc'[x].text = doc[x].text)
      /\ \A x \in DOMAIN doc : ToSet(doc[x].children) \subseteq ToSet(doc'[x].children)
      /\ \A x \in DOMAIN doc \ {Page} : doc'[x].type = doc[x].type /\ doc'[x].children = doc[x].children
  <2>1. CASE Sprouted(doc', doc, fresh) /\ fresh' = fresh + 1 /\ others' = others \cup {fresh}
    <3>1. Laid(doc', fresh', bs, path)
      BY <1>1, <2>1, LaidBeside
    <3>2. Grown(doc', doc, fresh)
      BY <2>1 DEF Sprouted
    <3>3. /\ DOMAIN doc \subseteq DOMAIN doc'
          /\ \A x \in DOMAIN doc : ToSet(doc[x].children) \subseteq ToSet(doc'[x].children)
      BY <1>1, <3>2, ShapeKept
    <3>4. \A x \in DOMAIN doc \ {Page} : doc'[x] = doc[x]
      BY <3>2 DEF Grown
    <3> QED BY <2>1, <3>1, <3>3, <3>4
  <2>2. CASE /\ Retexted(doc', doc) /\ fresh' = fresh
             /\ \E b \in DOMAIN doc :
                  others' = others \cup {b} /\ \A x \in DOMAIN doc : x # b => doc'[x] = doc[x]
    <3>1. Laid(doc', fresh', bs, path)
      BY <1>1, <2>2, LaidTexted
    <3>2. DOMAIN doc' = DOMAIN doc /\ \A x \in DOMAIN doc : doc'[x].children = doc[x].children /\ doc'[x].type = doc[x].type
      BY <1>1, <2>2, TextsKeep
    <3> QED BY <2>2, <3>1, <3>2
  <2> QED BY <1>1, <2>1, <2>2, ColleagueIs
<1>4. Nested(doc', entries, others', bs)
  <2>1. \A x \in ToSet(bs) : x \in DOMAIN doc \ {Page}
    BY <1>1, LaidAre
  <2>2. << >> \in Seq(DOMAIN doc') /\ Len(<< >>) = 0
    OBVIOUS
  <2>3. Follow(doc', doc, entries, others, others', bs, << >>)
    BY <1>3, <2>1, <2>2 DEF Follow
  <2> QED BY <1>1, <2>3, NestedSame
<1>5. pc \in {"find", "fill"} =>
        Fits(doc', entries, bs, path, at) /\ doc'[path[Len(path)]].children = doc[path[Len(path)]].children
  <2> SUFFICES ASSUME pc \in {"find", "fill"}
               PROVE  Fits(doc', entries, bs, path, at)
                      /\ doc'[path[Len(path)]].children = doc[path[Len(path)]].children
    OBVIOUS
  <2>1. Fits(doc, entries, bs, path, at)
    BY DEF Lands
  <2> QED BY <1>1, <1>3, <2>1, FitsKept
<1>6. /\ Landed(bs)'
      /\ Waits(entries, bs, path, Waiting, at)'
  <2>1. Landed(bs)'
    BY <1>1, <1>2, <1>3, <1>4 DEF Landed
  <2>2. Waits(entries, bs, path, Waiting, at)'
    <3>1. Waits(entries, bs, path, Waiting, at)
      BY DEF Lands
    <3> QED BY <1>2, <3>1 DEF Waiting
  <2> QED BY <2>1, <2>2
<1> QED BY <1>2, <1>5, <1>6 DEF Lands

\* An entry has a level.
LEMMA LevelIs ==
  ASSUME NEW es \in Seq(EntrySet)
  PROVE  Len(es) \in Nat /\ \A i \in 1..Len(es) : es[i].level \in Nat
<1>1. \A i \in 1..Len(es) : es[i] \in EntrySet
  OBVIOUS
<1>2. \A e \in EntrySet : e.level \in Nat
  BY DEF EntrySet, EntriesOn
<1> QED BY <1>1, <1>2

\* Nothing has a block yet.
LEMMA NothingYet ==
  ASSUME NEW n \in Nat \ {0}, NEW d, Tree(d, n), OneParent(d), NEW es \in Seq(EntrySet), Regular(es), NEW oth
  PROVE  /\ Laid(d, n, << >>, <<Page>>) /\ {} = Pairs(<< >>) /\ Nested(d, es, oth, << >>)
         /\ Waits(es, << >>, <<Page>>, << >>, 1)
<1>1. Laid(d, n, << >>, <<Page>>)
  BY LaidFirst
<1>2. {} = Pairs(<< >>) /\ Nested(d, es, oth, << >>)
  BY DEF Pairs, Nested
<1>3. Waits(es, << >>, <<Page>>, << >>, 1)
  <2>1. Len(<< >>) = 0 /\ Len(<<Page>>) = 1
    OBVIOUS
  <2>2. Len(es) \in Nat /\ (1 <= Len(es) => es[1].level = 0)
    BY DEF Regular
  <2> DEFINE bs == << >>
             way == <<Page>>
  <2> HIDE DEF bs, way
  <2>3. Len(bs) = 0 /\ Len(way) = 1
    BY <2>1 DEF bs, way
  <2>4. Leads(es, bs, way, 1)
    BY <2>3 DEF Leads
  <2>5. Waits(es, bs, way, bs, 1)
    BY <2>2, <2>3, <2>4 DEF Waits
  <2> QED BY <2>5 DEF bs, way
<1> QED BY <1>1, <1>2, <1>3

\* The document is read.
LEMMA GetLands ==
  ASSUME NewInv, OnceInv, NEW o, GetBlocks(o), OneParent(doc), at = 1, Regular(entries), ~IsDiff,
         pc' = "delete"
  PROVE  Lands(<< >>)'
<1>1. /\ pc = "get" /\ path' = <<Page>> /\ UNCHANGED <<doc, fresh, entries, at, flat, todo, made, others>>
  BY DEF GetBlocks
<1>2. /\ Tree(doc, fresh) /\ fresh \in Nat \ {0} /\ entries \in Seq(EntrySet)
      /\ made = {} /\ flat = << >> /\ todo = << >>
  BY <1>1 DEF NewInv, OnceInv, Placing, FileTyped, Early
<1>3. /\ Laid(doc, fresh, << >>, <<Page>>) /\ {} = Pairs(<< >>) /\ Nested(doc, entries, others, << >>)
      /\ Waits(entries, << >>, <<Page>>, << >>, 1)
  BY <1>2, NothingYet
<1>4. Landed(<< >>)'
  BY <1>1, <1>2, <1>3 DEF Landed
<1>5. Waits(entries, << >>, path, Waiting, at)'
  BY <1>1, <1>2, <1>3 DEF Waiting
<1> QED BY <1>1, <1>2, <1>4, <1>5 DEF Lands

\* Another block is deleted.
LEMMA OneParentLess ==
  ASSUME NEW n \in Nat \ {0}, NEW d, Tree(d, n), OneParent(d), NEW b
  PROVE  OneParent(RemoveBlock(d, b))
<1> DEFINE left == DOMAIN d \ Subtree(d, b)
           e == RemoveBlock(d, b)
<1>1. CASE b \notin DOMAIN d
  BY <1>1 DEF RemoveBlock
<1>2. CASE b \in DOMAIN d
  <2>1. e = [x \in left |-> [d[x] EXCEPT !.children = Keep(@, left)]]
    BY <1>2 DEF RemoveBlock
  <2>2. \A x \in DOMAIN d : d[x].children \in Seq(DOMAIN d) /\ d[x] \in Blocks(DOMAIN d)
    BY DEF Tree, Blocks
  <2> HIDE DEF left, e
  <2>3. left \subseteq DOMAIN d
    BY DEF left
  <2>4. \A x \in left : e[x].children = Keep(d[x].children, left)
    BY <2>1, <2>2, <2>3 DEF Blocks
  <2>5. \A x \in left : ToSet(e[x].children) \subseteq ToSet(d[x].children)
    <3> SUFFICES ASSUME NEW x \in left PROVE ToSet(e[x].children) \subseteq ToSet(d[x].children)
      OBVIOUS
    <3>1. ToSet(Keep(d[x].children, left)) = ToSet(d[x].children) \cap left
      BY <2>2, <2>3, Kept
    <3> QED BY <2>4, <3>1
  <2>6. DOMAIN e = left
    BY <2>1
  <2>7. OneParent(e)
    BY <2>3, <2>5, <2>6 DEF OneParent
  <2> QED BY <2>7 DEF e
<1> QED BY <1>1, <1>2

\* Nothing is laid before all deletions are done.
LEMMA DeleteLands ==
  ASSUME NewInv, NewInv', OnceInv, NEW bs, Lands(bs), Regular(entries), NEW o, DeleteNext(o)
  PROVE  Lands(bs)'
<1>1. /\ pc = "delete" /\ pc' = "delete"
      /\ UNCHANGED <<fresh, entries, at, path, flat, todo, made, others>>
      /\ doc' \in {doc, RemoveBlock(doc, Head(deletes))}
  BY DEF DeleteNext, planVars, walkVars, sendVars
<1>2. /\ bs = << >> /\ path = <<Page>> /\ Laid(doc, fresh, bs, path) /\ made = Pairs(bs) /\ todo = << >>
      /\ Waits(entries, bs, path, Waiting, at) /\ entries \in Seq(EntrySet)
  BY <1>1 DEF Lands, Landed, OnceInv, FileTyped
<1>3. /\ Tree(doc, fresh) /\ Tree(doc', fresh) /\ fresh \in Nat \ {0} /\ OneParent(doc)
  BY <1>1, <1>2 DEF NewInv, Early, Laid
<1>4. OneParent(doc')
  BY <1>1, <1>3, OneParentLess
<1>5. Laid(doc', fresh, << >>, <<Page>>) /\ Nested(doc', entries, others, << >>)
  BY <1>2, <1>3, <1>4, NothingYet
<1>6. Landed(bs)'
  BY <1>1, <1>2, <1>5 DEF Landed
<1>7. Waits(entries, bs, path, Waiting, at)'
  BY <1>1, <1>2 DEF Waiting
<1> QED BY <1>1, <1>2, <1>6, <1>7 DEF Lands

\* Another entry on the level of the way, and more blocks.
LEMMA LeadsOn ==
  ASSUME NEW es \in Seq(EntrySet), NEW bs, NEW way, NEW a \in Nat, Leads(es, bs, way, a),
         Len(bs) \in Nat, Len(way) \in Nat, es[a].level = Len(way) - 1
  PROVE  Leads(es, bs, way, a + 1)
<1> SUFFICES ASSUME NEW k \in 2 .. Len(way)
             PROVE  \E e \in 1 .. Len(bs) :
                      /\ way[k] = bs[e] /\ es[e].level = k - 2
                      /\ \A j \in e + 1 .. a + 1 - 1 : es[j].level >= k - 1
  BY DEF Leads
<1>1. PICK e \in 1 .. Len(bs) : /\ way[k] = bs[e] /\ es[e].level = k - 2
                                /\ \A j \in e + 1 .. a - 1 : es[j].level >= k - 1
  BY DEF Leads
<1>2. es[a].level >= k - 1
  OBVIOUS
<1>3. \A j \in e + 1 .. a + 1 - 1 : j \in e + 1 .. a - 1 \/ j = a
  OBVIOUS
<1>4. \A j \in e + 1 .. a + 1 - 1 : es[j].level >= k - 1
  BY <1>1, <1>2, <1>3
<1> QED BY <1>1, <1>4

\* More blocks behind bs do not change the way.
LEMMA LeadsMore ==
  ASSUME NEW es, NEW A, NEW bs \in Seq(A), NEW ids \in Seq(A), NEW way, NEW a, Leads(es, bs, way, a)
  PROVE  Leads(es, bs \o ids, way, a)
<1> DEFINE cs == bs \o ids
<1>1. Len(cs) = Len(bs) + Len(ids) /\ Len(bs) \in Nat /\ Len(ids) \in Nat /\ \A e \in 1 .. Len(bs) : cs[e] = bs[e]
  BY JoinedAt
<1> HIDE DEF cs
<1>2. 1..Len(bs) \subseteq 1..Len(cs)
  BY <1>1
<1>3. Leads(es, cs, way, a)
  BY <1>1, <1>2 DEF Leads
<1> QED BY <1>3 DEF cs

\* The walk: entries are collected, sent, or their list has ended.
LEMMA WalkLands ==
  ASSUME OnceInv, Regular(entries), NEW bs, Lands(bs), Walk
  PROVE  Lands(bs)'
<1>1. pc = "walk" /\ UNCHANGED <<doc, fresh, entries, made, others>>
  BY DEF Walk, planVars
<1>2. /\ Laid(doc, fresh, bs, path) /\ made = Pairs(bs) /\ Nested(doc, entries, others, bs)
      /\ Waits(entries, bs, path, flat, at) /\ todo = << >> /\ Landed(bs)
  BY <1>1 DEF Lands, Landed, Waiting
<1>3. /\ entries \in Seq(EntrySet) /\ flat \in Seq(Nat) /\ at \in Nat \ {0}
      /\ Len(entries) \in Nat /\ Len(flat) \in Nat /\ Len(bs) \in Nat /\ Len(path) \in Nat \ {0}
      /\ \A i \in 1..Len(entries) : entries[i].level \in Nat
  <2>1. entries \in Seq(EntrySet) /\ flat \in Seq(Nat) /\ at \in Nat \ {0}
    BY DEF OnceInv, FileTyped, WaitOnce, Passed
  <2>2. bs \in Seq(DOMAIN doc) /\ Len(path) \in Nat \ {0}
    BY <1>2, LaidAre
  <2> QED BY <2>1, <2>2, LevelIs
<1>4. /\ at = Len(bs) + Len(flat) + 1 /\ at <= Len(entries) + 1
      /\ \A k \in 1..Len(flat) : flat[k] = Len(bs) + k /\ entries[Len(bs) + k].level = Len(path) - 1
      /\ at <= Len(entries) => entries[at].level <= Len(path) - 1
      /\ Leads(entries, bs, path, at)
  BY <1>2 DEF Waits
<1>5. \/ Flush
      \/ Collect
      \/ ReachParent /\ ~Flush
      \/ EndOfList /\ ~Flush
  BY DEF Walk, ReachParent, EndOfList
<1>6. CASE Flush
  <2>1. pc' = "create" /\ todo' = flat /\ flat' = << >> /\ UNCHANGED <<at, path>>
    BY <1>6 DEF Flush
  <2>2. Landed(bs)'
    BY <1>1, <1>2, <2>1 DEF Landed
  <2>3. Waits(entries, bs, path, Waiting, at)'
    BY <1>1, <1>2, <2>1 DEF Waiting
  <2> QED BY <2>1, <2>2, <2>3 DEF Lands
<1>7. CASE Collect
  <2>1. /\ pc' = "walk" /\ todo' = todo /\ flat' = Append(flat, at) /\ at' = at + 1 /\ path' = path
        /\ at <= Len(entries) /\ entries[at].level = Len(path) - 1 /\ ~HasChildren(entries, at)
    BY <1>1, <1>7 DEF Collect, InList
  <2>2. Landed(bs)'
    BY <1>1, <1>2, <2>1 DEF Landed
  <2>3. Leads(entries, bs, path, at + 1)
    BY <1>3, <1>4, <2>1, LeadsOn
  <2>4. at + 1 <= Len(entries) => entries[at + 1].level <= Len(path) - 1
    <3> SUFFICES ASSUME at + 1 <= Len(entries) PROVE entries[at + 1].level <= Len(path) - 1
      OBVIOUS
    <3>1. at < Len(entries) /\ at + 1 \in 1..Len(entries) /\ at \in 1..Len(entries)
      BY <1>3
    <3>2. entries[at + 1].level \in Nat /\ entries[at].level \in Nat
      BY <1>3, <3>1
    <3>3. ~(entries[at + 1].level > entries[at].level)
      BY <2>1, <3>1 DEF HasChildren
    <3> QED BY <2>1, <3>2, <3>3
  <2> DEFINE w == Append(flat, at)
  <2>5. /\ Len(w) = Len(flat) + 1 /\ w[Len(flat) + 1] = at
        /\ \A k \in 1..Len(flat) : w[k] = flat[k]
    BY <1>3
  <2> HIDE DEF w
  <2>6. \A k \in 1..Len(w) : w[k] = Len(bs) + k /\ entries[Len(bs) + k].level = Len(path) - 1
    <3> SUFFICES ASSUME NEW k \in 1..Len(w)
                 PROVE  w[k] = Len(bs) + k /\ entries[Len(bs) + k].level = Len(path) - 1
      OBVIOUS
    <3>1. CASE k \in 1..Len(flat)
      BY <1>4, <2>5, <3>1
    <3>2. CASE k = Len(flat) + 1
      <4>1. Len(bs) + k = at
        BY <1>3, <1>4, <3>2
      <4> QED BY <2>1, <2>5, <3>2, <4>1
    <3> QED BY <1>3, <2>5, <3>1, <3>2
  <2>7. Waits(entries, bs, path, w, at + 1)
    <3>1. at + 1 = Len(bs) + Len(w) + 1 /\ at + 1 <= Len(entries) + 1
      BY <1>3, <1>4, <2>1, <2>5
    <3> QED BY <2>3, <2>4, <2>6, <3>1 DEF Waits
  <2>8. Waits(entries, bs, path, Waiting, at)'
    BY <1>1, <2>1, <2>7 DEF Waiting, w
  <2> QED BY <1>2, <2>1, <2>2, <2>8 DEF Lands
<1>8. CASE ReachParent /\ ~Flush
  <2>1. /\ pc' = "parent" /\ UNCHANGED <<todo, flat, at, path>> /\ flat = << >>
        /\ at <= Len(entries) /\ entries[at].level = Len(path) - 1
    BY <1>1, <1>8 DEF ReachParent, InList
  <2>2. Landed(bs)'
    BY <1>1, <1>2, <2>1 DEF Landed
  <2>3. Waits(entries, bs, path, Waiting, at)'
    BY <1>1, <1>2, <2>1 DEF Waiting
  <2> QED BY <1>1, <1>2, <2>1, <2>2, <2>3 DEF Lands
<1>9. CASE EndOfList /\ ~Flush
  <2>1. /\ ~InList /\ flat = << >> /\ UNCHANGED <<at, flat, todo>>
        /\ pc' = IF Len(path) = 1 THEN "done" ELSE "walk"
        /\ path' = IF Len(path) = 1 THEN path ELSE Front(path)
    BY <1>9 DEF EndOfList
  <2>2. at <= Len(entries) => entries[at].level < Len(path) - 1
    <3> SUFFICES ASSUME at <= Len(entries) PROVE entries[at].level < Len(path) - 1
      OBVIOUS
    <3>1. entries[at].level # Len(path) - 1
      BY <2>1 DEF InList
    <3>2. entries[at].level \in Nat
      BY <1>3
    <3> QED BY <1>3, <1>4, <3>1, <3>2
  <2>3. CASE Len(path) = 1
    <3>1. pc' = "done" /\ path' = path
      BY <2>1, <2>3
    <3>2. at = Len(entries) + 1
      <4>1. ~(at <= Len(entries))
        <5> SUFFICES ASSUME at <= Len(entries) PROVE FALSE
          OBVIOUS
        <5>1. entries[at].level \in Nat
          BY <1>3
        <5> QED BY <2>2, <2>3, <5>1
      <4> QED BY <1>3, <1>4, <4>1
    <3>3. Landed(bs)'
      BY <1>1, <1>2, <3>1 DEF Landed
    <3>4. Waits(entries, bs, path, Waiting, at)'
      BY <1>1, <1>2, <2>1, <3>1 DEF Waiting
    <3> QED BY <1>1, <1>2, <2>1, <3>1, <3>2, <3>3, <3>4 DEF Lands
  <2>4. CASE Len(path) # 1
    <3> DEFINE less == Front(path)
    <3>1. pc' = "walk" /\ path' = less
      BY <2>1, <2>4
    <3>2. /\ Laid(doc, fresh, bs, less) /\ Len(less) = Len(path) - 1
          /\ \A k \in 1 .. Len(path) - 1 : less[k] = path[k]
        <4>1. Laid(doc, fresh, bs, less) /\ Len(less) = Len(path) - 1
        BY <1>2, <2>4, LaidLess
      <4>2. path \in Seq(DOMAIN doc)
        BY <1>2, LaidAre
      <4>3. \A k \in 1 .. Len(path) - 1 : less[k] = path[k]
        BY <1>3, <4>2 DEF Front
      <4> QED BY <4>1, <4>3
    <3> HIDE DEF less
    <3>3. Landed(bs)'
      BY <1>1, <1>2, <3>1, <3>2 DEF Landed
    <3>4. Leads(entries, bs, less, at)
      <4>1. \A k \in 2 .. Len(less) : k \in 2 .. Len(path) /\ less[k] = path[k]
        BY <1>3, <3>2
      <4> QED BY <1>4, <4>1 DEF Leads
    <3>5. Waits(entries, bs, less, flat, at)
      <4>1. Len(flat) = 0
        BY <2>1
      <4>2. \A k \in 1..Len(flat) : FALSE
        BY <4>1
      <4>3. at <= Len(entries) => entries[at].level <= Len(less) - 1
        <5> SUFFICES ASSUME at <= Len(entries) PROVE entries[at].level <= Len(less) - 1
          OBVIOUS
        <5>1. entries[at].level \in Nat
          BY <1>3
        <5> QED BY <1>3, <2>2, <3>2, <5>1
      <4> QED BY <1>4, <3>4, <4>2, <4>3 DEF Waits
    <3>6. Waits(entries, bs, path, Waiting, at)'
      BY <1>1, <2>1, <3>1, <3>5 DEF Waiting
    <3> QED BY <1>1, <1>2, <2>1, <3>1, <3>3, <3>6 DEF Lands
  <2> QED BY <2>3, <2>4
<1> QED BY <1>5, <1>6, <1>7, <1>8, <1>9

\* A batch of those that wait.
LEMMA BatchLands ==
  ASSUME OnceInv, NewInv, Regular(entries), ~IsDiff, NEW bs, Lands(bs), NEW o, CreateBatch(o), ~lastErr',
         twice' = {}
  PROVE  \E cs : Lands(cs)'
<1> DEFINE n == IF Len(todo) < BatchSize THEN Len(todo) ELSE BatchSize
           is == SubSeq(todo, 1, n)
           rest == SubSeq(todo, n + 1, Len(todo))
           effect == Done(o) /\ Parent \in DOMAIN doc
<1>1. /\ pc = "create" /\ pc' = "create" /\ todo # << >>
      /\ UNCHANGED <<entries, at, path, flat, others>>
      /\ IF effect THEN Created(is) /\ SentTwice(is, o) ELSE UNCHANGED <<doc, fresh, made>>
      /\ todo' = IF Retries(o) THEN todo ELSE rest
      /\ Retries(o) \/ (effect /\ o = "ok")
  <2>1. lastErr' = (lastErr \/ ~(Retries(o) \/ (effect /\ o = "ok")))
    BY DEF CreateBatch
  <2>2. Retries(o) \/ (effect /\ o = "ok")
    BY <2>1
  <2> HIDE DEF effect
  <2>3. /\ pc = "create" /\ pc' = "create" /\ todo # << >>
        /\ UNCHANGED <<entries, at, path, flat, others>>
    BY DEF CreateBatch, planVars, walkVars
  <2>4. todo' = IF Retries(o) THEN todo ELSE rest
    BY DEF CreateBatch
  <2>5. IF effect THEN Created(is) /\ SentTwice(is, o) ELSE UNCHANGED <<doc, fresh, made>>
    BY DEF CreateBatch, NotCreated, effect
  <2> QED BY <2>2, <2>3, <2>4, <2>5
<1>2. /\ Laid(doc, fresh, bs, path) /\ made = Pairs(bs) /\ Landed(bs)
      /\ Waits(entries, bs, path, todo, at)
  BY <1>1 DEF Lands, Landed, Waiting
<1>3. CASE Retries(o)
  <2>1. UNCHANGED <<doc, fresh, made, todo>>
    <3>1. ~effect
      <4>1. n \in 1..Len(todo) /\ \A k \in 1..Len(todo) : todo[k] \in Nat
        BY <1>1, UpdateAssumption DEF OnceInv, WaitOnce
      <4> HIDE DEF n
      <4>2. Len(is) = n /\ 1 \in DOMAIN is
        BY <4>1, SubSeqProperties
      <4>3. ToSet(is) # {}
        BY <4>2 DEF ToSet
      <4> HIDE DEF is
      <4> QED BY <1>1, <1>3, <4>3 DEF Retries, SentTwice, Done
    <3> HIDE DEF effect, is, rest
    <3> QED BY <1>1, <1>3, <3>1
  <2>2. Landed(bs)'
    BY <1>1, <1>2, <2>1 DEF Landed
  <2>3. Waits(entries, bs, path, Waiting, at)'
    BY <1>1, <1>2, <2>1 DEF Waiting
  <2>4. Lands(bs)'
    BY <1>1, <2>2, <2>3 DEF Lands
  <2> QED BY <2>4
<1>4. CASE ~Retries(o)
  <2>1. todo' = rest /\ Created(is)
    <3> HIDE DEF is, rest
    <3> QED BY <1>1, <1>4
  <2>2. /\ entries \in Seq(EntrySet) /\ todo \in Seq(Nat) /\ at \in Nat \ {0}
        /\ Len(entries) \in Nat /\ Len(todo) \in Nat /\ Len(bs) \in Nat
        /\ bs \in Seq(DOMAIN doc) /\ DOMAIN doc \subseteq Nat /\ fresh \in Nat \ {0}
    <3>1. entries \in Seq(EntrySet) /\ todo \in Seq(Nat) /\ at \in Nat \ {0} /\ fresh \in Nat \ {0}
      BY DEF OnceInv, FileTyped, WaitOnce, Passed, NewInv
    <3>2. bs \in Seq(DOMAIN doc) /\ DOMAIN doc \subseteq 0 .. fresh - 1
      BY <1>2, LaidAre
    <3> QED BY <3>1, <3>2
  <2>3. n \in 0..Len(todo)
    BY <2>2, UpdateAssumption
  <2> HIDE DEF n
  <2>4. /\ is \in Seq(Nat) /\ Len(is) = n /\ \A k \in 1..n : is[k] = todo[k]
        /\ Len(rest) = Len(todo) - n /\ \A k \in 1 .. Len(todo) - n : rest[k] = todo[n + k]
    BY <2>2, <2>3, Parted
  <2> HIDE DEF is, rest
  <2>5. /\ at = Len(bs) + Len(todo) + 1 /\ at <= Len(entries) + 1
        /\ \A k \in 1..Len(todo) : todo[k] = Len(bs) + k /\ entries[Len(bs) + k].level = Len(path) - 1
        /\ at <= Len(entries) => entries[at].level <= Len(path) - 1
        /\ Leads(entries, bs, path, at)
    BY <1>2 DEF Waits
  <2>6. Nexts(is, bs)
    <3>1. \A k \in 1..n : k \in 1..Len(todo)
      BY <2>2, <2>3
    <3>2. \A k \in 1..n : is[k] = Len(bs) + k
      BY <2>4, <2>5, <3>1
    <3>3. \A k \in 1..n : entries[Len(bs) + k].level = Len(path) - 1
      BY <2>5, <3>1
    <3>4. \A k \in 1..n : is[k] = Len(bs) + k /\ entries[is[k]].level = Len(path) - 1
      BY <3>2, <3>3
    <3> QED BY <2>4, <3>4 DEF Nexts
  <2>7. Len(bs) + Len(is) <= Len(entries) /\ Len(bs) + Len(is) <= at
    BY <2>2, <2>3, <2>4, <2>5
  <2>8. PICK ids : /\ Laid(doc', fresh', bs \o ids, path)
                   /\ made' = Pairs(bs \o ids)
                   /\ Nested(doc', entries, others, bs \o ids)
                   /\ AddedFacts(doc', doc, path[Len(path)], Bodies(is), ids, fresh, fresh')
                   /\ Len(ids) = Len(is)
    <3> DEFINE a == at
    <3>1. a \in Nat /\ Leads(entries, bs, path, a) /\ Len(bs) + Len(is) <= a
      BY <2>2, <2>5, <2>7
    <3> HIDE DEF a
    <3>2. entries \in Seq(EntrySet) /\ Regular(entries) /\ ~IsDiff /\ Landed(bs) /\ is \in Seq(Nat)
      BY <1>1, <1>2, <2>1, <2>2, <2>4
    <3>3. UNCHANGED <<entries, others>> /\ Created(is)
      BY <1>1, <1>2, <2>1
    <3> QED BY <2>6, <2>7, <3>1, <3>2, <3>3, CreatedLands
  <2>9. ids \in Seq(Nat)
    <3> DEFINE all == fresh .. fresh' - 1
    <3>1. all \subseteq Nat /\ ids \in Seq(all)
      BY <2>2, <2>8 DEF AddedFacts
    <3> HIDE DEF all
    <3> QED BY <3>1, Widened
  <2>10. bs \in Seq(Nat)
    BY <2>2, Widened
  <2> DEFINE cs == bs \o ids
  <2>11. Len(cs) = Len(bs) + n
    BY <2>4, <2>8, <2>9, <2>10
  <2>12. Leads(entries, cs, path, at)
    BY <2>5, <2>9, <2>10, LeadsMore
  <2>13. Landed(cs)'
    <3> HIDE DEF cs
    <3>1. Laid(doc', fresh', cs, path) /\ made' = Pairs(cs) /\ Nested(doc', entries, others, cs)
      BY <2>8 DEF cs
    <3> QED BY <1>1, <3>1 DEF Landed
  <2> HIDE DEF cs
  <2>14. Waits(entries, cs, path, rest, at)
    <3>1. at = Len(cs) + Len(rest) + 1
      BY <2>2, <2>3, <2>4, <2>5, <2>11
    <3>2. \A k \in 1..Len(rest) : rest[k] = Len(cs) + k /\ entries[Len(cs) + k].level = Len(path) - 1
      <4> SUFFICES ASSUME NEW k \in 1..Len(rest)
                   PROVE  rest[k] = Len(cs) + k /\ entries[Len(cs) + k].level = Len(path) - 1
        OBVIOUS
      <4>1. k \in Nat /\ n \in Nat /\ n + k \in 1..Len(todo) /\ rest[k] = todo[n + k]
            /\ Len(bs) + (n + k) = Len(cs) + k
        BY <2>2, <2>3, <2>4, <2>11
      <4> QED BY <2>5, <4>1
    <3> QED BY <2>5, <2>12, <3>1, <3>2 DEF Waits
  <2>15. Waits(entries, cs, path, Waiting, at)'
    BY <1>1, <2>1, <2>14 DEF Waiting
  <2>16. Lands(cs)'
    BY <1>1, <2>13, <2>15 DEF Lands
  <2> QED BY <2>16
<1> QED BY <1>3, <1>4

\* What has something nested in it.
LEMMA NestIs ==
  ASSUME NEW es \in Seq(EntrySet), Regular(es), NEW a \in 1..Len(es)
  PROVE  /\ a + 1 <= Len(es) => es[a + 1].level <= es[a].level + 1
         /\ HasChildren(es, a) =>
              /\ a + 1 <= Len(es) /\ es[a + 1].level = es[a].level + 1
              /\ es[a].type \in Containers => es[a + 1].type = "text"
         /\ es[a].type = "text" => ~HasChildren(es, a)
<1>1. Len(es) \in Nat /\ es[a].level \in Nat
  BY LevelIs
<1>2. ASSUME a + 1 <= Len(es) PROVE es[a + 1].level \in Nat
  <2>1. a + 1 \in 1..Len(es)
    BY <1>1, <1>2
  <2> QED BY <2>1, LevelIs
<1>3. ASSUME a + 1 <= Len(es), es[a + 1].level > es[a].level
      PROVE  /\ es[a + 1].level = es[a].level + 1
             /\ es[a].type \in ListTypes \/ (es[a].type \in Containers /\ es[a + 1].type = "text")
  <2>1. a \in 1 .. Len(es) - 1
    BY <1>1, <1>3
  <2> QED BY <1>3, <2>1 DEF Regular
<1>4. a + 1 <= Len(es) => es[a + 1].level <= es[a].level + 1
  <2> SUFFICES ASSUME a + 1 <= Len(es) PROVE es[a + 1].level <= es[a].level + 1
    OBVIOUS
  <2>1. CASE es[a + 1].level > es[a].level
    BY <1>1, <1>2, <1>3, <2>1
  <2>2. CASE ~(es[a + 1].level > es[a].level)
    BY <1>1, <1>2, <2>2
  <2> QED BY <2>1, <2>2
<1>5. HasChildren(es, a) => a + 1 <= Len(es) /\ es[a + 1].level > es[a].level
  BY <1>1 DEF HasChildren
<1>6. \A t \in ListTypes : t \notin Containers /\ t # "text"
  BY DEF ListTypes, Containers
<1>7. "text" \notin Containers
  BY DEF Containers
<1> QED BY <1>3, <1>4, <1>5, <1>6, <1>7

\* The first of new blocks has the next id.
LEMMA FirstId ==
  ASSUME NEW cs, NEW id \in Nat
  PROVE  IdOf(cs, id, 1) = id
<1>1. {j \in 1 .. 1 - 1 : cs[j].type \in Containers} = {}
  OBVIOUS
<1>2. Cardinality({}) = 0
  BY FS_EmptySet
<1>3. id + 1 - 1 + 0 = id
  OBVIOUS
<1> QED BY <1>1, <1>2, <1>3 DEF IdOf

\* The way goes on to the block of another entry, on the level of the way.
LEMMA LeadsDown ==
  ASSUME NEW es \in Seq(EntrySet), NEW A, NEW bs \in Seq(A), NEW way \in Seq(A), NEW c \in A,
         NEW a \in Nat, a = Len(bs) + 1, Leads(es, bs, way, a), es[a].level = Len(way) - 1
  PROVE  Leads(es, bs \o <<c>>, Append(way, c), a + 1)
<1> DEFINE cs == bs \o <<c>>
           on == Append(way, c)
<1>1. /\ Len(bs) \in Nat /\ Len(way) \in Nat
      /\ Len(cs) = Len(bs) + 1 /\ cs[Len(bs) + 1] = c
      /\ Len(on) = Len(way) + 1 /\ on[Len(way) + 1] = c
      /\ \A k \in 1..Len(way) : on[k] = way[k]
  OBVIOUS
<1>2. Leads(es, cs, way, a + 1)
  <2>1. Leads(es, bs, way, a + 1)
    BY <1>1, LeadsOn
  <2>2. <<c>> \in Seq(A)
    OBVIOUS
  <2> QED BY <2>1, <2>2, LeadsMore
<1> HIDE DEF cs, on
<1>3. ASSUME NEW k \in 2 .. Len(on)
      PROVE  \E e \in 1 .. Len(cs) :
               /\ on[k] = cs[e] /\ es[e].level = k - 2
               /\ \A j \in e + 1 .. a + 1 - 1 : es[j].level >= k - 1
  <2>1. CASE k \in 2 .. Len(way)
    <3>1. on[k] = way[k]
      BY <1>1, <2>1
    <3>2. \E e \in 1 .. Len(cs) :
            /\ way[k] = cs[e] /\ es[e].level = k - 2
            /\ \A j \in e + 1 .. a + 1 - 1 : es[j].level >= k - 1
      BY <1>2, <2>1 DEF Leads
    <3> QED BY <3>1, <3>2
  <2>2. CASE k = Len(way) + 1
    <3>1. a \in 1 .. Len(cs) /\ on[k] = cs[a] /\ es[a].level = k - 2
      BY <1>1, <2>2
    <3>2. \A j \in a + 1 .. a + 1 - 1 : FALSE
      OBVIOUS
    <3> QED BY <3>1, <3>2
  <2> QED BY <1>1, <2>1, <2>2
<1>4. Leads(es, cs, on, a + 1)
  BY <1>3 DEF Leads
<1> QED BY <1>4 DEF cs, on

\* An entry with something nested in it.
LEMMA ParentLands ==
  ASSUME OnceInv, NewInv, Regular(entries), NEW bs, Lands(bs), NEW o, CreateParent(o), pc' # "failed",
         twice' = {}, unnamed' = {}
  PROVE  \E cs : Lands(cs)'
<1> DEFINE effect == Done(o) /\ Parent \in DOMAIN doc
           created == effect /\ o = "ok"
<1>1. /\ pc = "parent" /\ UNCHANGED <<entries, flat, todo, others>>
      /\ IF effect THEN Created(<<at>>) /\ SentTwice(<<at>>, o) ELSE UNCHANGED <<doc, fresh, made>>
      /\ \/ /\ created /\ path' = Append(path, fresh) /\ at' = at + 1
            /\ pc' = IF entries[at].type \in Containers THEN "find" ELSE "walk"
         \/ /\ ~created /\ UNCHANGED <<path, at>>
            /\ pc' = IF Retries(o) THEN "parent" ELSE "failed"
  <2>1. unnamed' # unnamed \cup {at}
    OBVIOUS
  <2> QED BY <2>1, Zenon DEF CreateParent, planVars, NotCreated
<1>2. /\ Laid(doc, fresh, bs, path) /\ made = Pairs(bs) /\ Nested(doc, entries, others, bs) /\ Landed(bs)
      /\ Waits(entries, bs, path, flat, at) /\ todo = << >> /\ flat = << >>
      /\ at <= Len(entries) /\ entries[at].level = Len(path) - 1
  BY <1>1 DEF Lands, Landed, Waiting
<1>3. CASE Retries(o)
  <2>1. pc' = "parent" /\ UNCHANGED <<doc, fresh, made, path, at>>
    <3>1. ~effect /\ ~created
      <4>1. ToSet(<<at>>) # {}
        BY DEF ToSet
      <4> QED BY <1>1, <1>3, <4>1 DEF Retries, SentTwice, Done
    <3> HIDE DEF effect, created
    <3> QED BY <1>1, <1>3, <3>1
  <2>2. Landed(bs)'
    BY <1>1, <1>2, <2>1 DEF Landed
  <2>3. Waits(entries, bs, path, Waiting, at)'
    BY <1>1, <1>2, <2>1 DEF Waiting
  <2>4. Lands(bs)'
    BY <1>1, <1>2, <2>1, <2>2, <2>3 DEF Lands
  <2> QED BY <2>4
<1>4. ASSUME ~Retries(o), NEW c, c = fresh PROVE \E cs : Lands(cs)'
  <2> DEFINE is == <<at>>
  <2>1. /\ Created(is) /\ path' = Append(path, fresh) /\ at' = at + 1
        /\ pc' = IF entries[at].type \in Containers THEN "find" ELSE "walk"
    <3>1. created
      <4> HIDE DEF created
      <4> QED BY <1>1, <1>4
    <3>2. effect
      BY <3>1
    <3> HIDE DEF effect, created, is
    <3> QED BY <1>1, <1>4, <3>1, <3>2 DEF is
  <2>2. /\ entries \in Seq(EntrySet) /\ at \in Nat \ {0} /\ fresh \in Nat \ {0}
        /\ Len(entries) \in Nat /\ at \in 1..Len(entries) /\ HasChildren(entries, at)
        /\ bs \in Seq(DOMAIN doc) /\ path \in Seq(DOMAIN doc) /\ Len(path) \in Nat \ {0}
        /\ Len(bs) \in Nat /\ DOMAIN doc \subseteq 0 .. fresh - 1 /\ ToSet(bs) \subseteq DOMAIN doc
    <3>1. entries \in Seq(EntrySet) /\ at \in Nat \ {0} /\ fresh \in Nat \ {0} /\ HasChildren(entries, at)
      BY <1>1 DEF OnceInv, FileTyped, Passed, Placing, NewInv
    <3>2. /\ bs \in Seq(DOMAIN doc) /\ path \in Seq(DOMAIN doc) /\ Len(path) \in Nat \ {0}
          /\ DOMAIN doc \subseteq 0 .. fresh - 1 /\ ToSet(bs) \subseteq DOMAIN doc
      BY <1>2, LaidAre
    <3> QED BY <1>2, <3>1, <3>2
  <2>3. at = Len(bs) + 1 /\ Leads(entries, bs, path, at)
    <3>1. at = Len(bs) + Len(flat) + 1 /\ Len(flat) = 0
      BY <1>2 DEF Waits
    <3> QED BY <1>2, <2>2, <3>1 DEF Waits
  <2>4. is \in Seq(Nat) /\ Len(is) = 1 /\ is[1] = at
    BY <2>2
  <2> HIDE DEF is, effect, created
  <2>5. Nexts(is, bs) /\ Len(bs) + Len(is) <= Len(entries) /\ Len(bs) + Len(is) <= at
    <3>1. \A k \in 1..Len(is) : k = 1
      BY <2>4
    <3> QED BY <1>2, <2>2, <2>3, <2>4, <3>1 DEF Nexts
  <2>6. ~IsDiff
    BY <1>1 DEF OnceInv, Placing, Walking
  <2>7. PICK ids : /\ Laid(doc', fresh', bs \o ids, path)
                   /\ made' = Pairs(bs \o ids)
                   /\ Nested(doc', entries, others, bs \o ids)
                   /\ AddedFacts(doc', doc, path[Len(path)], Bodies(is), ids, fresh, fresh')
                   /\ Len(ids) = Len(is)
                   /\ \A k \in 1..Len(ids) : ids[k] = IdOf(Bodies(is), fresh, k)
    <3> DEFINE a == at
    <3>1. a \in Nat /\ Leads(entries, bs, path, a) /\ Len(bs) + Len(is) <= a
      BY <2>2, <2>3, <2>5
    <3>2. UNCHANGED <<entries, others>> /\ Created(is) /\ Landed(bs)
      BY <1>1, <1>2, <2>1
    <3>3. entries \in Seq(EntrySet)
      BY <2>2
    <3> HIDE DEF a
    <3> QED BY <2>4, <2>5, <2>6, <3>1, <3>2, <3>3, CreatedLands
  <2> DEFINE on == Append(path, c)
             cs == bs \o <<c>>
  <2>8. ids = <<c>>
    <3>1. ids[1] = c
      BY <1>4, <2>2, <2>4, <2>7, FirstId
    <3>2. Len(ids) = 1 /\ ids \in Seq(fresh .. fresh' - 1)
      BY <2>4, <2>7 DEF AddedFacts
    <3> QED BY <3>1, <3>2
  <2>9. Laid(doc', fresh', cs, on) /\ c \in fresh .. fresh' - 1
    <3>1. AddedFacts(doc', doc, path[Len(path)], Bodies(is), <<c>>, fresh, fresh')
      BY <2>7, <2>8
    <3>2. Laid(doc', fresh', bs \o <<c>>, Append(path, c)) /\ c \in fresh .. fresh' - 1
      BY <1>2, <3>1, LaidOn
    <3> QED BY <3>2
  <2>10. Landed(cs)'
    <3>1. made' = Pairs(cs) /\ Nested(doc', entries, others, cs) /\ path' = on
      BY <1>4, <2>1, <2>7, <2>8
    <3> HIDE DEF cs, on
    <3> QED BY <1>1, <2>9, <3>1 DEF Landed
  <2>11. /\ Len(cs) = Len(bs) + 1 /\ Len(on) = Len(path) + 1 /\ on[Len(on)] = c
         /\ ToSet(cs) \subseteq ToSet(bs) \cup {c}
    <3> DEFINE A == DOMAIN doc \cup {c}
    <3>1. DOMAIN doc \subseteq A /\ c \in A
      OBVIOUS
    <3> HIDE DEF A
    <3>2. bs \in Seq(A) /\ <<c>> \in Seq(A) /\ path \in Seq(A)
      BY <2>2, <3>1, Widened
    <3>3. ToSet(<<c>>) \subseteq {c}
      BY OneElement
    <3>4. ToSet(cs) = ToSet(bs) \cup ToSet(<<c>>)
      BY ONLY <3>2, Concatenated DEF cs
    <3>5. Len(cs) = Len(bs) + 1 /\ Len(on) = Len(path) + 1 /\ on[Len(on)] = c
      BY <3>2
    <3> QED BY <3>3, <3>4, <3>5
  <2>12. Leads(entries, cs, on, at + 1)
    <3> DEFINE A == DOMAIN doc \cup {c}
               a == at
    <3>1. DOMAIN doc \subseteq A /\ c \in A
      OBVIOUS
    <3> HIDE DEF A
    <3>2. bs \in Seq(A) /\ path \in Seq(A)
      BY <2>2, <3>1, Widened
    <3>3. a \in Nat /\ a = Len(bs) + 1 /\ Leads(entries, bs, path, a) /\ entries[a].level = Len(path) - 1
      BY <1>2, <2>2, <2>3
    <3> HIDE DEF a
    <3>4. Leads(entries, bs \o <<c>>, Append(path, c), a + 1)
      BY <2>2, <3>1, <3>2, <3>3, LeadsDown
    <3> QED BY <3>4 DEF a
  <2>13. /\ at + 1 <= Len(entries) /\ entries[at + 1].level = Len(on) - 1
         /\ entries[at].type \in Containers => entries[at + 1].type = "text"
    <3> DEFINE a == at
    <3>1. a \in 1..Len(entries) /\ HasChildren(entries, a) /\ entries[a].level = Len(path) - 1
      BY <1>2, <2>2
    <3> HIDE DEF a, on
    <3>2. /\ a + 1 <= Len(entries) /\ entries[a + 1].level = entries[a].level + 1
          /\ entries[a].type \in Containers => entries[a + 1].type = "text"
      BY <2>2, <3>1, NestIs
    <3>3. entries[a + 1].level = Len(on) - 1
      BY <2>2, <2>11, <3>1, <3>2
    <3> QED BY <3>2, <3>3 DEF a
  <2>14. Fits(doc', entries, cs, on, at + 1) \/ entries[at].type \notin Containers
    <3> SUFFICES ASSUME entries[at].type \in Containers PROVE Fits(doc', entries, cs, on, at + 1)
      OBVIOUS
    <3> HIDE DEF cs, on
    <3>1. entries[at + 1].type = "text" /\ Len(on) > 1 /\ on[Len(on)] = c
      BY <2>2, <2>11, <2>13
    <3>2. Len(Bodies(is)) = 1
      BY <2>4 DEF Bodies
    <3>3. /\ \A x \in (fresh .. fresh' - 1) \ ToSet(ids) : doc'[x].type = "text" /\ doc'[x].children = << >>
          /\ \/ doc'[c].children = << >>
             \/ doc'[c].children = <<c + 1>> /\ c + 1 \in (fresh .. fresh' - 1) \ ToSet(ids)
      <4> DEFINE bodies == Bodies(is)
                 p == path[Len(path)]
      <4>1. AddedFacts(doc', doc, p, bodies, ids, fresh, fresh') /\ Len(bodies) = 1
        BY <2>7, <3>2
      <4>2. ids[1] = c
        BY <2>8
      <4> HIDE DEF bodies, p
      <4>3. 1 \in 1..Len(bodies)
        BY <4>1
      <4>4. \A x \in (fresh .. fresh' - 1) \ ToSet(ids) : doc'[x].type = "text" /\ doc'[x].children = << >>
        BY <4>1 DEF AddedFacts
      <4>5. \/ doc'[ids[1]].children = << >>
            \/ doc'[ids[1]].children = <<ids[1] + 1>> /\ ids[1] + 1 \in (fresh .. fresh' - 1) \ ToSet(ids)
        BY <4>1, <4>3 DEF AddedFacts
      <4> QED BY <4>2, <4>4, <4>5
    <3>4. c + 1 \notin ToSet(cs)
      <4>1. ToSet(cs) \subseteq 0 .. fresh
        <5>1. 0 .. fresh - 1 \subseteq 0 .. fresh /\ c \in 0 .. fresh
          BY <1>4, <2>2
        <5> HIDE DEF cs
        <5> QED BY <2>2, <2>11, <5>1
      <4> QED BY <1>4, <2>2, <4>1
    <3>5. \/ doc'[c].children = << >>
          \/ \E b : /\ doc'[c].children = <<b>> /\ b \notin ToSet(cs)
                    /\ doc'[b].type = "text" /\ doc'[b].children = << >>
      BY <3>3, <3>4
    <3> QED BY <3>1, <3>5 DEF Fits
  <2>15. Waits(entries, cs, on, << >>, at + 1)
    <3> HIDE DEF cs, on
    <3> DEFINE w == << >>
    <3>1. Len(w) = 0
      OBVIOUS
    <3> HIDE DEF w
    <3>2. at + 1 = Len(cs) + Len(w) + 1 /\ at + 1 <= Len(entries) + 1
      BY <2>2, <2>3, <2>11, <3>1
    <3>3. \A k \in 1..Len(w) : FALSE
      BY <3>1
    <3>4. entries[at + 1].level <= Len(on) - 1
      BY <2>2, <2>11, <2>13
    <3>5. Waits(entries, cs, on, w, at + 1)
      BY <2>12, <3>2, <3>3, <3>4 DEF Waits
    <3> QED BY <3>5 DEF w
  <2>16. path' = on
    BY <1>4, <2>1
  <2> HIDE DEF cs, on
  <2>17. Waits(entries, cs, path, Waiting, at)'
    BY <1>1, <1>2, <2>1, <2>15, <2>16 DEF Waiting
  <2>18. pc' \in {"find", "walk"} /\ (pc' = "find" => entries[at].type \in Containers)
    BY <2>1
  <2>19. pc' = "find" => Fits(doc, entries, cs, path, at)'
    BY <1>1, <2>1, <2>14, <2>16, <2>18
  <2>20. Lands(cs)'
    BY <1>1, <1>2, <2>1, <2>10, <2>13, <2>16, <2>17, <2>18, <2>19 DEF Lands
  <2> QED BY <2>20
<1> HIDE DEF effect, created
<1> QED BY <1>3, <1>4

\* The child is looked for.
LEMMA FindLands ==
  ASSUME NEW bs, Lands(bs), NEW o, FindAutoChild(o)
  PROVE  Lands(bs)'
<1>1. /\ pc = "find" /\ pc' \in {"fill", "walk"}
      /\ pc' = "fill" => doc[Last(path)].children # << >>
      /\ UNCHANGED <<doc, fresh, entries, at, path, flat, todo, made, others>>
  BY DEF FindAutoChild, planVars, walkVars, sendVars
<1>2. /\ Landed(bs) /\ Waits(entries, bs, path, Waiting, at) /\ todo = << >> /\ flat = << >>
      /\ at <= Len(entries) /\ entries[at].level = Len(path) - 1 /\ Fits(doc, entries, bs, path, at)
  BY <1>1 DEF Lands
<1>3. Landed(bs)'
  BY <1>1, <1>2 DEF Landed
<1>4. Waits(entries, bs, path, Waiting, at)'
  BY <1>1, <1>2 DEF Waiting
<1>5. pc' = "fill" => doc[path[Len(path)]].children # << >>
  BY <1>1 DEF Last
<1>6. Fits(doc, entries, bs, path, at)'
  BY <1>1, <1>2
<1> QED BY <1>1, <1>2, <1>3, <1>4, <1>5, <1>6 DEF Lands

\* An entry with nothing in it is followed by the next one.
LEMMA AfterText ==
  ASSUME NEW es \in Seq(EntrySet), NEW a \in 1..Len(es), ~HasChildren(es, a)
  PROVE  After(es, a) = a + 1
<1>1. Len(es) \in Nat /\ es[a].level \in Nat /\ a \in Nat /\ a <= Len(es)
  BY LevelIs
<1> DEFINE ends == {j \in a + 1 .. Len(es) : es[j].level <= es[a].level}
<1>2. CASE a + 1 <= Len(es)
  <2>1. a + 1 \in 1..Len(es) /\ a < Len(es)
    BY <1>1, <1>2
  <2>2. es[a + 1].level \in Nat /\ ~(es[a + 1].level > es[a].level)
    BY <2>1, LevelIs DEF HasChildren
  <2>3. a + 1 \in ends /\ ends \subseteq Nat /\ \A j \in ends : a + 1 <= j
    BY <1>1, <1>2, <2>2
  <2> HIDE DEF ends
  <2>4. Min(ends) = a + 1
    <3>1. Min(ends) \in ends /\ \A j \in ends : Min(ends) <= j
      BY <2>3, MinOf
    <3>2. Min(ends) <= a + 1 /\ a + 1 <= Min(ends) /\ Min(ends) \in Nat
      BY <2>3, <3>1
    <3> QED BY <1>1, <3>2
  <2> QED BY <2>3, <2>4 DEF After, ends
<1>3. CASE ~(a + 1 <= Len(es))
  <2>1. ends = {} /\ a = Len(es)
    BY <1>1, <1>3
  <2> QED BY <2>1 DEF After
<1> QED BY <1>2, <1>3

\* The entry goes into the child that the server made.
LEMMA FillLands ==
  ASSUME OnceInv, Regular(entries), NEW bs, Lands(bs), NEW o, FillAutoChild(o), pc' # "failed"
  PROVE  \E cs : Lands(cs)'
<1> DEFINE p == path[Len(path)]
<1>1. /\ pc = "fill" /\ pc' = "walk" /\ UNCHANGED <<fresh, entries, path, flat, todo, others>>
      /\ doc' = SetText(doc, Head(doc[Last(path)].children), entries[at].text)
      /\ made' = made \cup {<<at, Head(doc[Last(path)].children)>>}
      /\ at' = After(entries, at)
  BY DEF FillAutoChild, planVars, sendVars, Done
<1>2. /\ Laid(doc, fresh, bs, path) /\ made = Pairs(bs) /\ Nested(doc, entries, others, bs)
      /\ Waits(entries, bs, path, flat, at) /\ todo = << >> /\ flat = << >>
      /\ at <= Len(entries) /\ entries[at].level = Len(path) - 1
      /\ Fits(doc, entries, bs, path, at) /\ doc[p].children # << >>
  BY <1>1 DEF Lands, Landed, Waiting
<1>3. PICK c : /\ doc[p].children = <<c>> /\ c \notin ToSet(bs)
               /\ doc[c].type = "text" /\ doc[c].children = << >>
  BY <1>2 DEF Fits
<1>4. Last(path) = p /\ Head(doc[p].children) = c
  BY <1>3 DEF Last
<1>5. doc' = SetText(doc, c, entries[at].text) /\ made' = made \cup {<<at, c>>}
  <2> HIDE DEF p
  <2> QED BY <1>1, <1>4
<1>6. /\ entries \in Seq(EntrySet) /\ at \in Nat \ {0} /\ Len(entries) \in Nat /\ at \in 1..Len(entries)
      /\ bs \in Seq(DOMAIN doc) /\ ToSet(bs) \subseteq DOMAIN doc \ {Page}
      /\ path \in Seq(DOMAIN doc) /\ Len(path) \in Nat \ {0} /\ path[1] = Page
      /\ Len(bs) \in Nat /\ c \in DOMAIN doc /\ Page \in DOMAIN doc
  <2>1. entries \in Seq(EntrySet) /\ at \in Nat \ {0}
    BY DEF OnceInv, FileTyped, Passed
  <2>2. /\ bs \in Seq(DOMAIN doc) /\ ToSet(bs) \subseteq DOMAIN doc \ {Page}
        /\ path \in Seq(DOMAIN doc) /\ Len(path) \in Nat \ {0} /\ Page \in DOMAIN doc
        /\ \A x \in DOMAIN doc : \A y \in ToSet(doc[x].children) : y \in DOMAIN doc
    BY <1>2, LaidAre
  <2>3. path[1] = Page
    BY <1>2 DEF Laid, Trunk
  <2>4. p \in DOMAIN doc
    <3>1. Len(path) \in 1..Len(path)
      BY <2>2
    <3> QED BY <2>2, <3>1
  <2> HIDE DEF p
  <2>5. c \in ToSet(doc[p].children)
    <3>1. c \in ToSet(<<c>>)
      BY OneElement
    <3> QED BY <1>3, <3>1
  <2> QED BY <1>2, <2>1, <2>2, <2>3, <2>4, <2>5
<1>7. at = Len(bs) + 1 /\ Leads(entries, bs, path, at) /\ entries[at].type = "text"
  <2>1. at = Len(bs) + Len(flat) + 1 /\ Len(flat) = 0
    BY <1>2 DEF Waits
  <2> QED BY <1>2, <1>6, <2>1 DEF Waits, Fits
<1>8. at' = at + 1 /\ (at + 1 <= Len(entries) => entries[at + 1].level <= Len(path) - 1)
  <2> DEFINE a == at
  <2>1. a \in 1..Len(entries) /\ entries[a].type = "text" /\ entries[a].level = Len(path) - 1
    BY <1>2, <1>6, <1>7
  <2> HIDE DEF a
  <2>2. ~HasChildren(entries, a)
    BY <1>6, <2>1, NestIs
  <2>3. After(entries, a) = a + 1
    BY <1>6, <2>1, <2>2, AfterText
  <2>4. a + 1 <= Len(entries) => entries[a + 1].level <= Len(path) - 1
    <3> SUFFICES ASSUME a + 1 <= Len(entries) PROVE entries[a + 1].level <= Len(path) - 1
      OBVIOUS
    <3>1. a + 1 \in 1..Len(entries) /\ a < Len(entries)
      BY <1>6, <2>1
    <3>2. entries[a + 1].level \in Nat
      BY <1>6, <3>1, LevelIs
    <3>3. ~(entries[a + 1].level > entries[a].level)
      BY <2>2, <3>1 DEF HasChildren
    <3> QED BY <1>6, <2>1, <3>2, <3>3
  <2> QED BY <1>1, <2>3, <2>4 DEF a
<1>9. /\ Retexted(doc', doc) /\ DOMAIN doc' = DOMAIN doc
      /\ \A x \in DOMAIN doc : doc'[x].children = doc[x].children /\ (x # c => doc'[x] = doc[x])
      /\ doc'[c].type = "text" /\ doc'[c].text = entries[at].text
  <2> DEFINE t == entries[at].text
  <2>1. t \in Strings
    <3>1. entries[at] \in EntrySet
      BY <1>6
    <3> QED BY <3>1 DEF EntrySet, EntriesOn
  <2>2. doc' = [x \in DOMAIN doc |-> IF x = c THEN [doc[c] EXCEPT !.text = t] ELSE doc[x]]
    BY <1>5, <1>6 DEF SetText, Laid, Tree
  <2>3. doc[c] \in Blocks(DOMAIN doc)
    BY <1>2, <1>6, LaidAre
  <2> HIDE DEF t
  <2>4. Retexted(doc', doc)
    BY <2>1, <2>2 DEF Retexted
  <2>5. doc'[c].type = doc[c].type /\ doc'[c].children = doc[c].children /\ doc'[c].text = t
    BY <1>6, <2>2, <2>3 DEF Blocks
  <2> QED BY <1>3, <2>2, <2>4, <2>5 DEF t
<1> DEFINE cs == bs \o <<c>>
<1>10. Laid(doc', fresh, cs, path)
  <2>1. ToSet(path) \subseteq ToSet(bs) \cup {Page}
    <3> SUFFICES ASSUME NEW k \in 1..Len(path) PROVE path[k] \in ToSet(bs) \cup {Page}
      BY <1>6 DEF ToSet
    <3>1. CASE k = 1
      BY <1>6, <3>1
    <3>2. CASE k \in 2 .. Len(path)
      <4>1. PICK e \in 1 .. Len(bs) : path[k] = bs[e]
        BY <1>7, <3>2 DEF Leads
      <4> QED BY <1>6, <4>1 DEF ToSet
    <3> QED BY <1>6, <3>1, <3>2
  <2> QED BY <1>2, <1>3, <1>9, <2>1, LaidFilled
<1>11. made' = Pairs(cs)
  <2> DEFINE ids == <<c>>
  <2>1. ids \in Seq(DOMAIN doc) /\ Len(ids) = 1 /\ ids[1] = c
    BY <1>6
  <2> HIDE DEF ids
  <2>2. Pairs(bs \o ids) = Pairs(bs) \cup {<<Len(bs) + k, ids[k]>> : k \in 1..Len(ids)}
    BY <1>6, <2>1, PairsMore
  <2>3. {<<Len(bs) + k, ids[k]>> : k \in 1..Len(ids)} = {<<at, c>>}
    <3>1. 1..Len(ids) = {1}
      BY <2>1
    <3> QED BY <1>7, <2>1, <3>1
  <2> QED BY <1>2, <1>5, <2>2, <2>3 DEF ids
<1>12. Over(entries, cs, at) = p
  <2>1. \A j \in 1..Len(bs) : cs[j] = bs[j]
    BY <1>6
  <2> DEFINE a == at
  <2> HIDE DEF cs, a
  <2>2. Begins(cs, bs)
    BY <1>6, <2>1 DEF Begins
  <2>3. /\ a \in Nat /\ a \in DOMAIN entries /\ Len(bs) < a /\ a <= a /\ entries[a].level = Len(path) - 1
        /\ Leads(entries, bs, path, a)
    BY <1>2, <1>6, <1>7 DEF a
  <2>4. Meets(entries, bs, path, a, a)
    BY <1>6, <2>3 DEF Meets
  <2>5. Over(entries, cs, a) = path[Len(path)]
    BY <1>6, <2>2, <2>3, <2>4, OverIs
  <2> QED BY <2>5 DEF a
<1>13. Nested(doc', entries, others, cs)
  <2> DEFINE ids == <<c>>
  <2>1. ids \in Seq(DOMAIN doc') /\ Len(ids) = 1 /\ ids[1] = c /\ cs = bs \o ids
    BY <1>6, <1>9
  <2>2. c \in ToSet(doc'[p].children)
    <3>1. doc'[p].children = ids
      <4>1. p \in DOMAIN doc
        <5>1. Len(path) \in 1..Len(path)
          BY <1>6
        <5> QED BY <1>6, <5>1
      <4> QED BY <1>3, <1>9, <4>1
    <3>2. 1 \in DOMAIN ids
      OBVIOUS
    <3> HIDE DEF ids, p
    <3> QED BY <2>1, <3>1, <3>2 DEF ToSet
  <2> HIDE DEF ids, cs, p
  <2>3. ASSUME NEW k \in 1..Len(ids)
        PROVE  /\ doc'[ids[k]].type = entries[Len(bs) + k].type /\ doc'[ids[k]].text = entries[Len(bs) + k].text
               /\ ids[k] \in ToSet(doc'[Over(entries, bs \o ids, Len(bs) + k)].children)
    <3>1. k = 1 /\ Len(bs) + k = at /\ ids[k] = c
      BY <1>6, <1>7, <2>1
    <3>2. Over(entries, bs \o ids, Len(bs) + k) = p
      BY <1>12, <2>1, <3>1
    <3>3. entries[Len(bs) + k] = entries[at]
      BY <3>1
    <3> QED BY <1>7, <1>9, <2>2, <3>1, <3>2, <3>3
  <2>4. Follow(doc', doc, entries, others, others, bs, ids)
    <3>1. \A x \in ToSet(bs) : doc'[x].type = doc[x].type /\ doc'[x].text = doc[x].text
      BY <1>3, <1>6, <1>9
    <3>2. \A x \in DOMAIN doc : ToSet(doc[x].children) \subseteq ToSet(doc'[x].children)
      BY <1>9
    <3> QED BY <1>9, <2>1, <2>3, <3>1, <3>2 DEF Follow
  <2>5. Nested(doc', entries, others, bs \o ids)
    BY <1>2, <2>4, NestedOn
  <2> QED BY <2>1, <2>5
<1>14. Leads(entries, cs, path, at + 1)
  <2> DEFINE a == at
             ids == <<c>>
  <2>1. a \in Nat /\ Leads(entries, bs, path, a) /\ entries[a].level = Len(path) - 1 /\ ids \in Seq(DOMAIN doc)
    BY <1>2, <1>6, <1>7
  <2> HIDE DEF a, ids, cs
  <2>2. Leads(entries, bs, path, a + 1)
    BY <1>6, <2>1, LeadsOn
  <2>3. Leads(entries, bs \o ids, path, a + 1)
    BY <1>6, <2>1, <2>2, LeadsMore
  <2> QED BY <2>3 DEF a, ids, cs
<1>15. Waits(entries, cs, path, << >>, at + 1)
  <2>1. Len(cs) = Len(bs) + 1
    BY <1>6
  <2> DEFINE w == << >>
  <2>2. Len(w) = 0
    OBVIOUS
  <2> HIDE DEF cs, w
  <2>3. at + 1 = Len(cs) + Len(w) + 1 /\ at + 1 <= Len(entries) + 1
    BY <1>6, <1>7, <2>1, <2>2
  <2>4. \A k \in 1..Len(w) : FALSE
    BY <2>2
  <2>5. Waits(entries, cs, path, w, at + 1)
    BY <1>8, <1>14, <2>3, <2>4 DEF Waits
  <2> QED BY <2>5 DEF w
<1> HIDE DEF cs, p
<1>16. Landed(cs)'
  BY <1>1, <1>10, <1>11, <1>13 DEF Landed
<1>17. Waits(entries, cs, path, Waiting, at)'
  BY <1>1, <1>2, <1>8, <1>15 DEF Waiting
<1>18. Lands(cs)'
  BY <1>1, <1>2, <1>16, <1>17 DEF Lands
<1> QED BY <1>18

\* The deletions of a replacement are over, or its last batch.
LEMMA DoneLands ==
  ASSUME OnceInv, NEW bs, Lands(bs), ~IsDiff, DeletesDone \/ BatchesDone, pc' # "failed"
  PROVE  Lands(bs)'
<1>1. /\ pc' = "walk" /\ UNCHANGED <<doc, fresh, entries, at, path, flat, todo, made, others>>
      /\ pc \in {"create", "delete"} /\ (pc = "create" => todo = << >>)
  BY DEF DeletesDone, BatchesDone, planVars, walkVars, sendVars
<1>2. Landed(bs) /\ Waits(entries, bs, path, Waiting, at)
  BY DEF Lands
<1>3. todo = << >> /\ (pc = "create" => flat = << >>)
  BY <1>1 DEF Lands, OnceInv, Placing
<1>4. Landed(bs)'
  BY <1>1, <1>2 DEF Landed
<1>5. Waiting = flat
  BY <1>1, <1>3 DEF Waiting
<1>6. Waits(entries, bs, path, Waiting, at)'
  BY <1>1, <1>2, <1>5 DEF Waiting
<1> QED BY <1>1, <1>3, <1>4, <1>6 DEF Lands

\* A replacement all whose batches were created, so far, and none of them twice.
Landing ==
  /\ ~IsDiff /\ (pc \in Walking \cup {"delete", "done"} \/ (pc = "create" /\ ~lastErr))
  /\ twice = {} /\ unnamed = {}

\* It has blocks for the first entries, in their order and where they are to be.
LandInv ==
  /\ pc \in {"export", "edit", "get"} => OneParent(doc) /\ at = 1
  /\ pc \notin {"export", "edit"} => Regular(entries)
  /\ pc = "update" => IsDiff
  /\ Landing => \E bs : Lands(bs)

\* A run starts with nothing to replace.
LEMMA StartsLanding ==
  ASSUME Init
  PROVE  LandInv
<1>1. doc \in Docs /\ at = 1 /\ pc = "export"
  BY DEF Init
<1>2. OneParent(doc)
  BY <1>1, DocsAssumption
<1> QED BY <1>1, <1>2 DEF LandInv, Landing, Walking

\* Until the document is read.
LEMMA FileLands ==
  ASSUME OnceInv, LandInv, ExportFile \/ EditFile \/ Start
  PROVE  LandInv'
<1>1. pc \in {"export", "edit"} /\ UNCHANGED <<doc, at>>
      /\ (pc' = "edit" \/ (pc' \in {"get", "refused"} /\ entries' = Parse(file).out))
  <2>1. CASE ExportFile
    BY <2>1 DEF ExportFile, walkVars
  <2>2. CASE EditFile
    <3>1. file \in Seq(LinesOn(Nat)) /\ NoBid \in Nat
      BY LinesAre DEF OnceInv, FileTyped, NoBid
    <3>2. pc = "edit" /\ pc' = "edit" /\ UNCHANGED <<doc, at>>
      BY <2>2, <3>1, EditLines
    <3> QED BY <3>2
  <2>3. CASE Start
    BY <2>3 DEF Start, walkVars
  <2> QED BY <2>1, <2>2, <2>3
<1>2. Regular(Parse(file).out)
  BY ParseRegular DEF OnceInv, FileTyped
<1>3. OneParent(doc') /\ at' = 1
  BY <1>1 DEF LandInv
<1>4. pc' # "edit" => Regular(entries)'
  BY <1>1, <1>2
<1> QED BY <1>1, <1>3, <1>4 DEF LandInv, Landing, Walking

\* A colleague disturbs no replacement.
LEMMA ColleagueLanding ==
  ASSUME OnceInv, NewInv, LandInv, Colleague
  PROVE  LandInv'
<1>1. UNCHANGED <<pc, entries, at, lastErr, twice, unnamed>>
  BY DEF Colleague, planVars, walkVars, sendVars
<1>2. IsDiff' = IsDiff /\ Landing' = Landing /\ Regular(entries)' = Regular(entries)
  BY <1>1 DEF IsDiff, Tops, Landing
<1>3. pc \in {"export", "edit", "get"} => OneParent(doc')
  <2> SUFFICES ASSUME pc \in {"export", "edit", "get"} PROVE OneParent(doc')
    OBVIOUS
  <2>1. fresh \in Nat \ {0} /\ Tree(doc, fresh) /\ OneParent(doc)
    BY DEF NewInv, LandInv, Early
  <2> QED BY <2>1, ColleagueDoes, ShapeKept
<1>4. Landing => \E bs : Lands(bs)'
  BY ColleagueLands DEF LandInv
<1> QED BY <1>1, <1>2, <1>3, <1>4 DEF LandInv

\* The document is read, and blocks are rewritten or deleted.
LEMMA ReadLands ==
  ASSUME OnceInv, NewInv, NewInv', LandInv, NEW o, GetBlocks(o) \/ BatchUpdate(o) \/ DeleteNext(o)
  PROVE  LandInv'
<1>1. entries' = entries
  BY DEF GetBlocks, BatchUpdate, DeleteNext, planVars
<1>2. IsDiff' = IsDiff /\ Regular(entries)' = Regular(entries)
  BY <1>1 DEF IsDiff, Tops
<1>3. CASE GetBlocks(o)
  <2>1. /\ pc = "get" /\ pc' \in {"failed", "delete", "refused", "update"}
        /\ pc' = "update" => IsDiff
    BY <1>3 DEF GetBlocks
  <2>2. OneParent(doc) /\ at = 1 /\ Regular(entries)
    BY <2>1 DEF LandInv
  <2>3. pc' = "delete" /\ ~IsDiff => \E bs : Lands(bs)'
    BY <1>3, <2>2, GetLands
  <2> QED BY <1>2, <2>1, <2>2, <2>3 DEF LandInv, Landing, Walking
<1>4. CASE BatchUpdate(o)
  <2>1. pc = "update" /\ pc' \in {"delete", "failed"}
    BY <1>4 DEF BatchUpdate
  <2>2. IsDiff /\ Regular(entries)
    BY <2>1 DEF LandInv
  <2> QED BY <1>2, <2>1, <2>2 DEF LandInv, Landing
<1>5. CASE DeleteNext(o)
  <2>1. pc = "delete" /\ pc' = "delete" /\ UNCHANGED <<twice, unnamed>>
    BY <1>5 DEF DeleteNext, sendVars
  <2>2. Regular(entries)
    BY <2>1 DEF LandInv
  <2>3. Landing => \E bs : Lands(bs)'
    BY <1>5, <2>2, DeleteLands DEF LandInv
  <2>4. Landing' => Landing
    BY <1>2, <2>1 DEF Landing
  <2> QED BY <1>2, <2>1, <2>2, <2>3, <2>4 DEF LandInv
<1> QED BY <1>3, <1>4, <1>5

\* Afterwards.
LEMMA LaterLands ==
  ASSUME OnceInv, NewInv, LandInv, NEW o,
         \/ DeletesDone \/ BatchesDone \/ Walk
         \/ CreateBatch(o) \/ CreateParent(o) \/ FindAutoChild(o) \/ FillAutoChild(o)
  PROVE  LandInv'
<1>1. /\ entries' = entries /\ pc \in Walking \cup {"delete", "create"}
      /\ pc' \in Walking \cup {"create", "done", "failed"}
  BY DEF DeletesDone, BatchesDone, Walk, Collect, ReachParent, EndOfList, Flush, CreateBatch,
         CreateParent, FindAutoChild, FillAutoChild, planVars, Walking
<1>2. IsDiff' = IsDiff /\ Regular(entries)' = Regular(entries) /\ Regular(entries)
  <2>1. Regular(entries)
    BY <1>1 DEF LandInv, Walking
  <2> QED BY <1>1, <2>1 DEF IsDiff, Tops
<1>3. ASSUME Landing' PROVE Landing /\ ~IsDiff /\ pc' # "failed"
  <2>1. ~IsDiff /\ pc' # "failed" /\ twice = {} /\ unnamed = {}
    <3>1. twice \subseteq twice' /\ unnamed \subseteq unnamed'
      BY DEF DeletesDone, BatchesDone, Walk, CreateBatch, CreateParent, FindAutoChild,
             FillAutoChild, NotCreated, SentTwice, sendVars
    <3> QED BY <1>2, <1>3, <3>1 DEF Landing, Walking
  <2>2. CASE pc # "create"
    BY <1>1, <2>1, <2>2 DEF Landing
  <2>3. CASE pc = "create"
    <3>1. ~lastErr
      <4>1. CASE BatchesDone
        <5>1. pc' = IF lastErr THEN "failed" ELSE IF IsDiff THEN "done" ELSE "walk"
          BY <4>1 DEF BatchesDone
        <5> QED BY <2>1, <5>1
      <4>2. CASE CreateBatch(o)
        <5>1. pc' = pc /\ (lastErr => lastErr')
          BY <4>2 DEF CreateBatch
        <5>2. ~lastErr'
          BY <1>3, <2>3, <5>1 DEF Landing, Walking
        <5> QED BY <5>1, <5>2
      <4>3. ~(DeletesDone \/ Walk \/ CreateParent(o) \/ FindAutoChild(o) \/ FillAutoChild(o))
        BY <2>3 DEF DeletesDone, Walk, CreateParent, FindAutoChild, FillAutoChild
      <4> QED BY <4>1, <4>2, <4>3
    <3> QED BY <2>1, <2>3, <3>1 DEF Landing
  <2> QED BY <2>1, <2>2, <2>3
<1>4. ASSUME Landing' PROVE \E cs : Lands(cs)'
  <2>1. Landing /\ ~IsDiff /\ pc' # "failed"
    BY <1>3, <1>4
  <2>2. PICK bs : Lands(bs)
    BY <2>1 DEF LandInv
  <2>3. CASE DeletesDone \/ BatchesDone
    BY <2>1, <2>2, <2>3, DoneLands
  <2>4. CASE Walk
    BY <1>2, <2>2, <2>4, WalkLands
  <2>5. CASE CreateBatch(o)
    <3>1. ~lastErr'
      <4>1. pc' = "create"
        BY <2>5 DEF CreateBatch
      <4> QED BY <1>4, <4>1 DEF Landing, Walking
    <3>2. twice' = {}
      BY <1>4 DEF Landing
    <3> QED BY <1>2, <2>1, <2>2, <2>5, <3>1, <3>2, BatchLands
  <2>6. CASE CreateParent(o)
    <3>1. twice' = {} /\ unnamed' = {}
      BY <1>4 DEF Landing
    <3> QED BY <1>2, <2>1, <2>2, <2>6, <3>1, ParentLands
  <2>7. CASE FindAutoChild(o)
    BY <2>2, <2>7, FindLands
  <2>8. CASE FillAutoChild(o)
    BY <1>2, <2>1, <2>2, <2>8, FillLands
  <2> QED BY <2>3, <2>4, <2>5, <2>6, <2>7, <2>8
<1> QED BY <1>1, <1>2, <1>4 DEF LandInv, Walking

\* No step disturbs it.
LEMMA LandSteps ==
  ASSUME OnceInv, NewInv, NewInv', LandInv, [Next]_vars
  PROVE  LandInv'
<1>1. CASE UNCHANGED vars
  <2>1. UNCHANGED <<doc, fresh, pc, entries, at, path, flat, todo, lastErr, twice, unnamed, made, others>>
    BY <1>1 DEF vars, planVars, walkVars, sendVars
  <2>2. IsDiff' = IsDiff /\ Landing' = Landing
    BY <2>1 DEF IsDiff, Tops, Landing
  <2>3. ASSUME NEW bs, Lands(bs) PROVE Lands(bs)'
    BY <2>1, <2>3 DEF Lands, Landed, Waiting
  <2> QED BY <2>1, <2>2, <2>3 DEF LandInv
<1>2. CASE ExportFile \/ EditFile \/ Start
  BY <1>2, FileLands
<1>3. CASE Colleague
  BY <1>3, ColleagueLanding
<1>4. CASE Command
  <2>1. CASE DeletesDone \/ BatchesDone \/ Walk
    BY <2>1, LaterLands
  <2>2. CASE \E o \in Outcomes : Request(o)
    <3>1. PICK o \in Outcomes : Request(o)
      BY <2>2
    <3>2. \/ GetBlocks(o) \/ BatchUpdate(o) \/ DeleteNext(o)
          \/ CreateBatch(o) \/ CreateParent(o) \/ FindAutoChild(o) \/ FillAutoChild(o)
      BY <3>1 DEF Request
    <3> QED BY <3>2, ReadLands, LaterLands
  <2> QED BY <1>4, <2>1, <2>2 DEF Command
<1> QED BY <1>1, <1>2, <1>3, <1>4 DEF Next

\* At the end the blocks of all entries are there.
LEMMA AllLand ==
  ASSUME OnceInv, LandInv
  PROVE  ReplaceLands
<1> SUFFICES ASSUME pc = "done", ~IsDiff, twice = {}, unnamed = {}
             PROVE  LET placed == Keep(Order(doc, Page), {m[2] : m \in made})
                    IN /\ Len(placed) = Len(entries)
                       /\ \A i \in DOMAIN entries :
                            /\ placed[i] \in others \/ Shows(placed[i], i)
                            /\ LET p == ParentEntry(i) IN
                               placed[i] \in ToSet(doc[IF p = 0 THEN Page ELSE placed[p]].children)
  BY DEF ReplaceLands
<1>1. PICK bs : Lands(bs)
  BY DEF LandInv, Landing
<1>2. /\ Laid(doc, fresh, bs, path) /\ made = Pairs(bs) /\ Nested(doc, entries, others, bs)
      /\ Waits(entries, bs, path, flat, at) /\ at = Len(entries) + 1 /\ flat = << >>
      /\ entries \in Seq(EntrySet)
  BY <1>1 DEF Lands, Landed, Waiting, OnceInv, FileTyped
<1>3. bs \in Seq(DOMAIN doc) /\ Len(bs) \in Nat
  BY <1>2, LaidAre
<1>4. Len(bs) = Len(entries) /\ DOMAIN entries = 1..Len(bs)
  <2>1. at = Len(bs) + Len(flat) + 1 /\ Len(flat) = 0
    BY <1>2 DEF Waits
  <2> QED BY <1>2, <1>3, <2>1
<1>5. Keep(Order(doc, Page), {m[2] : m \in made}) = bs
  <2>1. {m[2] : m \in made} = ToSet(bs)
    BY <1>2, <1>3, PairsOf
  <2>2. Under(doc, ToSet(bs), Page) = bs
    BY <1>2 DEF Laid
  <2> QED BY <2>1, <2>2 DEF Under
<1>6. ASSUME NEW i \in DOMAIN entries
      PROVE  /\ bs[i] \in others \/ Shows(bs[i], i)
             /\ bs[i] \in ToSet(doc[IF ParentEntry(i) = 0 THEN Page ELSE bs[ParentEntry(i)]].children)
  <2>1. /\ bs[i] \in others \/ (doc[bs[i]].type = entries[i].type /\ doc[bs[i]].text = entries[i].text)
        /\ bs[i] \in ToSet(doc[Over(entries, bs, i)].children)
    BY <1>2, <1>4 DEF Nested
  <2>2. ListOf(entries, i) = ParentEntry(i)
    BY DEF ListOf, ParentEntry
  <2>3. Over(entries, bs, i) = IF ParentEntry(i) = 0 THEN Page ELSE bs[ParentEntry(i)]
    BY <2>2 DEF Over
  <2> QED BY <2>1, <2>3 DEF Shows
<1> QED BY <1>4, <1>5, <1>6

\* A replacement that ends well, that sent nothing again that had been created and
\* got the ids of all parents, leaves every entry of the file in the document
\* exactly once, in the order of the file, with its text, and under the block of
\* the entry it is nested in (doFullReplace, createEntriesRecursive).
THEOREM ReplacementLands == Spec => []ReplaceLands
<1>1. Init => OnceInv /\ NewInv /\ LandInv
  BY StartsOnce, NewStarts, StartsLanding
<1>2. OnceInv /\ NewInv /\ LandInv /\ [Next]_vars => (OnceInv /\ NewInv /\ LandInv)'
  BY StepsOnce, NewSteps, LandSteps
<1>3. OnceInv /\ NewInv /\ LandInv => ReplaceLands
  BY AllLand
<1> QED BY <1>1, <1>2, <1>3, PTL DEF Spec

-----------------------------------------------------------------------------
(* A diff leaves the blocks of the file on the page.                       *)

\* The blocks made for entries; the blocks of the page that a diff keeps; and
\* the blocks that it may delete: no kept one, and none of a kept one.
Ours == {m[2] : m \in made}
Staying == {b \in ToSet(base[Page].children) : Referenced(base, b)}
Spare == {x \in Read : x \notin Staying /\ \A s \in Staying : x \notin ToSet(base[s].children)}

\* The page has what stays and what is made, and nothing that has no reason to be there.
OnPage ==
  /\ Tree(doc, fresh) /\ OneParent(doc) /\ deletes \in Seq(Spare)
  /\ \A s \in Staying : /\ s \in ToSet(doc[Page].children) /\ doc[s].type = base[s].type
                        /\ ToSet(base[s].children) \subseteq ToSet(doc[s].children)
  /\ ToSet(doc[Page].children) \subseteq Staying \cup ToSet(deletes) \cup skipped \cup others \cup Ours
  /\ Ours \subseteq ToSet(doc[Page].children)

\* An entry without a block that was read waits for one, or has one, or there was an error.
Planned ==
  /\ \A i \in ToSet(todo) : i \in Tops /\ ~Matched(base, i)
  /\ \A m \in made : m = <<m[1], m[2]>> /\ m[1] \in Tops /\ ~Matched(base, m[1])
  /\ \A i \in Tops : Matched(base, i) \/ i \in ToSet(todo) \/ i \in Placed \/ lastErr

PlaceInv ==
  /\ pc \in Early => ~lastErr
  /\ IsDiff /\ pc \in {"update", "delete", "create", "done"} => OnPage /\ Planned
  /\ IsDiff /\ pc \in {"create", "done"} => deletes = << >>
  /\ IsDiff /\ pc = "done" => todo = << >> /\ ~lastErr

\* Steps that leave blocks where they are, and put on the page what is ours or a colleague's.
LEMMA PageKept ==
  ASSUME OnPage, UNCHANGED <<entries, base, deletes, skipped>>, Tree(doc', fresh'), OneParent(doc'),
         \A x \in DOMAIN doc : doc'[x].type = doc[x].type
                               /\ ToSet(doc[x].children) \subseteq ToSet(doc'[x].children),
         ToSet(doc'[Page].children) \subseteq ToSet(doc[Page].children) \cup others' \cup Ours',
         others \subseteq others', Ours \subseteq Ours',
         Ours' \subseteq Ours \cup ToSet(doc'[Page].children)
  PROVE  OnPage'
<1>1. Staying' = Staying /\ Spare' = Spare
  BY DEF Staying, Spare, Read, Referenced, Known, Wraps, Tops
<1>2. /\ Page \in DOMAIN doc /\ ToSet(doc[Page].children) \subseteq DOMAIN doc
      /\ deletes \in Seq(Spare)
      /\ \A s \in Staying : /\ s \in ToSet(doc[Page].children) /\ doc[s].type = base[s].type
                            /\ ToSet(base[s].children) \subseteq ToSet(doc[s].children)
      /\ ToSet(doc[Page].children) \subseteq Staying \cup ToSet(deletes) \cup skipped \cup others \cup Ours
      /\ Ours \subseteq ToSet(doc[Page].children)
  <2>1. Page \in DOMAIN doc /\ doc[Page].children \in Seq(DOMAIN doc)
    BY DEF OnPage, Tree, Blocks
  <2>2. ToSet(doc[Page].children) \subseteq DOMAIN doc
    BY <2>1 DEF ToSet
  <2> QED BY <2>1, <2>2 DEF OnPage
<1>3. \A s \in Staying : /\ s \in ToSet(doc'[Page].children) /\ doc'[s].type = base[s].type
                         /\ ToSet(base[s].children) \subseteq ToSet(doc'[s].children)
  BY <1>2
<1>4. ToSet(doc'[Page].children) \subseteq Staying \cup ToSet(deletes) \cup skipped \cup others' \cup Ours'
  BY <1>2
<1>5. Ours' \subseteq ToSet(doc'[Page].children)
  BY <1>2
<1> QED BY <1>1, <1>2, <1>3, <1>4, <1>5 DEF OnPage

\* Steps that leave the document and what belongs to it alone.
LEMMA PageSame ==
  ASSUME OnPage, UNCHANGED <<doc, fresh, entries, base, deletes, skipped, made, others>>
  PROVE  OnPage'
<1>1. Ours' = Ours /\ Tree(doc', fresh') /\ OneParent(doc') /\ Ours \subseteq ToSet(doc'[Page].children)
  BY DEF OnPage, Ours
<1> QED BY <1>1, PageKept

\* A colleague's paragraph is the colleague's.
LEMMA ColleaguePage ==
  ASSUME OnPage, fresh \in Nat \ {0}, Colleague
  PROVE  OnPage'
<1>1. UNCHANGED <<entries, base, deletes, skipped, made>> /\ Ours' = Ours
  BY DEF Colleague, planVars, Ours
<1>2. Tree(doc, fresh) /\ OneParent(doc)
  BY DEF OnPage
<1>3. CASE Sprouted(doc', doc, fresh) /\ fresh' = fresh + 1 /\ others' = others \cup {fresh}
  <2>1. Grown(doc', doc, fresh)
    BY <1>3 DEF Sprouted
  <2>2. /\ Tree(doc', fresh') /\ ToSet(doc'[Page].children) = ToSet(doc[Page].children) \cup {fresh}
    BY <1>3, <2>1 DEF Grown
  <2>3. /\ OneParent(doc')
        /\ \A x \in DOMAIN doc : doc'[x].type = doc[x].type
                                 /\ ToSet(doc[x].children) \subseteq ToSet(doc'[x].children)
    BY <1>2, <2>1, ShapeKept
  <2> QED BY <1>1, <1>3, <2>2, <2>3, PageKept
<1>4. CASE Retexted(doc', doc) /\ fresh' = fresh /\ others \subseteq others'
  <2>1. Tree(doc', fresh') /\ \A x \in DOMAIN doc : doc'[x].children = doc[x].children
                                                    /\ doc'[x].type = doc[x].type
    BY <1>2, <1>4, TextsKeep
  <2>2. OneParent(doc')
    BY <1>2, <1>4, ShapeKept
  <2>3. Page \in DOMAIN doc
    BY <1>2 DEF Tree
  <2> QED BY <1>1, <1>4, <2>1, <2>2, <2>3, PageKept
<1> QED BY <1>2, <1>3, <1>4, ColleagueIs

\* What is read: the page has what stays and what is to be deleted.
LEMMA GetPage ==
  ASSUME OnceInv, NewInv, NewInv', LandInv, NEW o, GetBlocks(o), IsDiff, pc' \in {"update", "delete"}
  PROVE  OnPage' /\ Planned'
<1>1. /\ pc = "get" /\ UNCHANGED <<doc, fresh, entries, made, skipped, others>>
      /\ base' = doc /\ deletes' = ToDelete(doc) /\ todo' = ToCreate(doc)
  BY DEF GetBlocks
<1>2. /\ Tree(doc, fresh) /\ OneParent(doc) /\ made = {} /\ entries \in Seq(EntrySet)
  BY <1>1 DEF NewInv, LandInv, OnceInv, Placing, FileTyped, Early
<1> DEFINE K == {b \in DOMAIN doc : ~Referenced(doc, b)}
           S == {b \in ToSet(doc[Page].children) : Referenced(doc, b)}
<1>3. Tops' = Tops /\ \A b : Referenced(base, b)' = Referenced(doc, b)
  BY <1>1 DEF Referenced, Known, Wraps, Tops
<1>4. Staying' = S /\ Ours' = {}
  BY <1>1, <1>2, <1>3 DEF Staying, Ours
<1>5. /\ Page \in DOMAIN doc /\ doc[Page].children \in Seq(DOMAIN doc)
      /\ ToSet(doc[Page].children) \subseteq DOMAIN doc /\ Page \notin ToSet(doc[Page].children)
  <2>1. Page \in DOMAIN doc /\ doc[Page].children \in Seq(DOMAIN doc)
    BY <1>2 DEF Tree, Blocks
  <2>2. ToSet(doc[Page].children) \subseteq DOMAIN doc
    BY <2>1 DEF ToSet
  <2>3. \A c \in ToSet(doc[Page].children) : Page < c
    BY <1>2, <2>1 DEF Tree
  <2> QED BY <2>1, <2>2, <2>3 DEF Page
<1>6. ToSet(deletes') = ToSet(doc[Page].children) \cap K
  <2> HIDE DEF K
  <2>1. ToSet(Keep(doc[Page].children, K)) = ToSet(doc[Page].children) \cap K
    BY <1>5, Kept
  <2> QED BY <1>1, <2>1 DEF ToDelete, K
<1>7. deletes' \in Seq(Spare')
  <2>1. deletes' \in Seq(Read')
    BY DEF NewInv
  <2>2. ASSUME NEW x \in ToSet(deletes') PROVE x \in Spare'
    <3>1. x \in Read'
      BY <2>1 DEF ToSet
    <3>2. \A s \in S : x \notin ToSet(doc[s].children)
      BY <1>2, <1>5, <1>6 DEF OneParent
    <3> QED BY <1>1, <1>4, <1>6, <3>1, <3>2 DEF Spare
  <2>3. \A k \in DOMAIN deletes' : deletes'[k] \in Spare'
    BY <2>2 DEF ToSet
  <2> QED BY <2>1, <2>3
<1>8. OnPage'
  <2>1. ToSet(doc[Page].children) \subseteq S \cup ToSet(deletes')
    BY <1>5, <1>6
  <2> HIDE DEF S
  <2> QED BY <1>1, <1>2, <1>4, <1>7, <2>1 DEF OnPage, S
<1>9. Planned'
  <2> DEFINE T == {i \in Tops : ~Matched(doc, i)}
             s == [i \in DOMAIN entries |-> i]
  <2>1. todo' = Keep(s, T)
    BY <1>1 DEF ToCreate
  <2>2. s \in Seq(Nat) /\ ToSet(s) = DOMAIN entries
    <3>1. DOMAIN entries = 1..Len(entries) /\ Len(entries) \in Nat
      BY <1>2
    <3> QED BY <3>1 DEF ToSet
  <2> HIDE DEF s, T
  <2>3. ToSet(todo') = DOMAIN entries \cap T
    BY <2>1, <2>2, Kept
  <2>4. \A i : Matched(base, i)' = Matched(doc, i)
    BY <1>1 DEF Matched, Known, Wraps
  <2>5. \A i \in Tops : i \in DOMAIN entries
    BY DEF Tops
  <2> QED BY <1>1, <1>2, <1>3, <2>3, <2>4, <2>5 DEF Planned, T
<1> QED BY <1>8, <1>9

\* The blocks that a deletion leaves, and their children that it leaves.
LEMMA RemoveLeaves ==
  ASSUME NEW n \in Nat \ {0}, NEW d, Tree(d, n), NEW b, NEW e, e = RemoveBlock(d, b)
  PROVE  /\ b \notin DOMAIN e
         /\ \A x \in DOMAIN e : /\ x \in DOMAIN d /\ e[x].type = d[x].type
                                /\ ToSet(e[x].children) = ToSet(d[x].children) \cap DOMAIN e
<1>1. CASE b \notin DOMAIN d
  <2>1. \A x \in DOMAIN d : d[x].children \in Seq(DOMAIN d)
    BY DEF Tree, Blocks
  <2>2. \A x \in DOMAIN d : ToSet(d[x].children) \subseteq DOMAIN d
    BY <2>1 DEF ToSet
  <2>3. e = d
    BY <1>1 DEF RemoveBlock
  <2> QED BY <1>1, <2>2, <2>3
<1>2. CASE b \in DOMAIN d
  <2> DEFINE left == DOMAIN d \ Subtree(d, b)
             below == CHOOSE h : h = Below(h, d)
  <2>1. b \in Subtree(d, b)
    <3>1. below = Below(below, d)
      BY BelowExists
    <3>2. Subtree(d, b) = below[b]
      BY Zenon DEF Subtree, Below
    <3> HIDE DEF below
    <3>3. below[b] = {b} \cup UNION {below[c] : c \in ToSet(d[b].children)}
      BY <1>2, <3>1, Zenon DEF Below
    <3> QED BY <3>2, <3>3
  <2>2. e = [x \in left |-> [d[x] EXCEPT !.children = Keep(@, left)]]
    BY <1>2 DEF RemoveBlock
  <2>3. left \subseteq DOMAIN d /\ b \notin left
    BY <2>1
  <2> HIDE DEF left
  <2>4. ASSUME NEW x \in left
        PROVE  e[x].type = d[x].type /\ ToSet(e[x].children) = ToSet(d[x].children) \cap left
    <3>1. d[x] \in Blocks(DOMAIN d) /\ d[x].children \in Seq(DOMAIN d)
      BY <2>3 DEF Tree, Blocks
    <3>2. e[x] = [d[x] EXCEPT !.children = Keep(d[x].children, left)]
      BY <2>2
    <3>3. e[x].type = d[x].type /\ e[x].children = Keep(d[x].children, left)
      BY <3>1, <3>2 DEF Blocks
    <3> QED BY <3>1, <3>3, Kept
  <2> QED BY <2>2, <2>3, <2>4
<1> QED BY <1>1, <1>2

\* A deletion takes nothing that stays; what it does not take is skipped.
LEMMA DeletePage ==
  ASSUME OnceInv, NewInv, OnPage, Planned, NEW o, DeleteNext(o)
  PROVE  OnPage' /\ Planned'
<1> DEFINE h == Head(deletes)
           Kids(d, x) == ToSet(d[x].children)
<1>1. /\ pc = "delete" /\ deletes # << >> /\ deletes' = Tail(deletes)
      /\ UNCHANGED <<fresh, entries, base, todo, lastErr, made, others>>
      /\ \/ doc' = RemoveBlock(doc, h) /\ skipped' = skipped
         \/ doc' = doc /\ skipped' = skipped \cup {h}
  BY DEF DeleteNext, planVars, sendVars
<1>2. /\ Tree(doc, fresh) /\ OneParent(doc) /\ deletes \in Seq(Spare) /\ Ours \subseteq Kids(doc, Page)
      /\ \A s \in Staying : /\ s \in Kids(doc, Page) /\ doc[s].type = base[s].type
                            /\ Kids(base, s) \subseteq Kids(doc, s)
      /\ Kids(doc, Page) \subseteq Staying \cup ToSet(deletes) \cup skipped \cup others \cup Ours
  BY DEF OnPage
<1>3. /\ fresh \in Nat \ {0} /\ made = {}
      /\ \A x \in DOMAIN doc \cap Read : Kids(doc, x) \subseteq Read
  BY <1>1 DEF NewInv, OnceInv, Placing, Early
<1>4. Staying' = Staying /\ Spare' = Spare /\ Ours' = {} /\ Ours = {}
  BY <1>1, <1>3 DEF Staying, Spare, Read, Ours, Referenced, Known, Wraps, Tops
<1>5. h \in Spare /\ Tail(deletes) \in Seq(Spare) /\ ToSet(deletes) \subseteq ToSet(Tail(deletes)) \cup {h}
  <2>2. h \in Spare /\ Tail(deletes) \in Seq(Spare)
    BY <1>1, <1>2
  <2>3. \A k \in 1..Len(deletes) : k = 1 \/ (k - 1 \in 1..Len(Tail(deletes)) /\ deletes[k] = Tail(deletes)[k - 1])
    BY <1>1, <1>2
  <2>4. DOMAIN deletes = 1..Len(deletes) /\ DOMAIN Tail(deletes) = 1..Len(Tail(deletes)) /\ deletes[1] = h
    BY <1>1, <1>2
  <2>5. \A x \in ToSet(deletes) : \E k \in 1..Len(deletes) : x = deletes[k]
    BY <2>4, Zenon DEF ToSet
  <2>6. \A k \in 1..Len(Tail(deletes)) : Tail(deletes)[k] \in ToSet(Tail(deletes))
    BY <2>4, Zenon DEF ToSet
  <2> HIDE DEF h
  <2>7. \A x \in ToSet(deletes) : x = h \/ x \in ToSet(Tail(deletes))
    <3> SUFFICES ASSUME NEW k \in 1..Len(deletes)
                 PROVE  deletes[k] = h \/ deletes[k] \in ToSet(Tail(deletes))
      BY <2>5, Zenon
    <3>1. CASE k = 1
      BY <2>4, <3>1
    <3>2. CASE k - 1 \in 1..Len(Tail(deletes)) /\ deletes[k] = Tail(deletes)[k - 1]
      BY <2>6, <3>2, Zenon
    <3> QED BY <2>3, <3>1, <3>2
  <2> QED BY <2>2, <2>7
<1>6. Planned'
  <2>1. Tops' = Tops /\ Placed' = Placed /\ \A i : Matched(base, i)' = Matched(base, i)
    BY <1>1 DEF Tops, Placed, Matched, Known, Wraps
  <2> QED BY <1>1, <2>1 DEF Planned
<1> HIDE DEF h
<1>7. CASE doc' = doc /\ skipped' = skipped \cup {h}
  BY <1>1, <1>2, <1>4, <1>5, <1>6, <1>7 DEF OnPage
<1>8. CASE doc' = RemoveBlock(doc, h) /\ skipped' = skipped
  <2>1. Page \in DOMAIN doc /\ \A x \in DOMAIN doc : Kids(doc, x) \subseteq DOMAIN doc
    <3>1. Page \in DOMAIN doc /\ \A x \in DOMAIN doc : doc[x].children \in Seq(DOMAIN doc)
      BY <1>2 DEF Tree, Blocks
    <3>2. \A q \in Seq(DOMAIN doc) : ToSet(q) \subseteq DOMAIN doc
      BY DEF ToSet
    <3> QED BY <3>1, <3>2
  <2>2. Page \notin Spare /\ \A s \in Staying : s \notin Spare /\ Kids(base, s) \cap Spare = {}
    BY DEF Spare, Read
  <2>3. ASSUME NEW x \in DOMAIN doc \cap Spare, NEW c \in Kids(doc, x) PROVE c \in Spare
    <3>1. x \in Read /\ x # Page /\ c \in Read
      BY <1>3 DEF Spare, Read
    <3>2. \A y \in DOMAIN doc : c \in Kids(doc, y) => y = x
      BY <1>2 DEF OneParent
    <3>3. c \notin Staying
      BY <1>2, <2>1, <3>1, <3>2
    <3>4. \A s \in Staying : c \notin Kids(base, s)
      BY <1>2, <2>1, <2>2, <3>2
    <3> QED BY <3>1, <3>3, <3>4 DEF Spare
  <2>4. Tree(doc', fresh) /\ DOMAIN doc \ Spare \subseteq DOMAIN doc'
    <3>1. \A x \in DOMAIN doc \cap Spare : ToSet(doc[x].children) \subseteq Spare
      BY <2>3
    <3> QED BY <1>2, <1>3, <1>5, <1>8, <2>2, <3>1, RemoveKeeps
  <2>5. OneParent(doc')
    BY <1>2, <1>3, <1>8, OneParentLess
  <2>6. /\ h \notin DOMAIN doc'
        /\ \A x \in DOMAIN doc' : /\ x \in DOMAIN doc /\ doc'[x].type = doc[x].type
                                  /\ Kids(doc', x) = Kids(doc, x) \cap DOMAIN doc'
    BY <1>2, <1>3, <1>8, RemoveLeaves
  <2>7. Page \in DOMAIN doc'
    BY <2>1, <2>2, <2>4
  <2>8. ASSUME NEW s \in Staying
        PROVE  /\ s \in Kids(doc', Page) /\ doc'[s].type = base[s].type
               /\ Kids(base, s) \subseteq Kids(doc', s)
    <3>1. s \in DOMAIN doc' /\ Kids(base, s) \subseteq DOMAIN doc'
      BY <1>2, <2>1, <2>2, <2>4
    <3> QED BY <1>2, <2>6, <2>7, <3>1
  <2>9. Kids(doc', Page) \subseteq Staying \cup ToSet(Tail(deletes)) \cup skipped \cup others
    BY <1>2, <1>4, <1>5, <2>6, <2>7
  <2> QED BY <1>1, <1>4, <1>5, <1>6, <1>8, <2>4, <2>5, <2>8, <2>9 DEF OnPage
<1> QED BY <1>1, <1>7, <1>8

\* The update request leaves the blocks where they are.
LEMMA UpdatePage ==
  ASSUME OnceInv, NewInv, OnPage, NEW o, BatchUpdate(o)
  PROVE  OnPage'
<1>1. UNCHANGED <<fresh, entries, base, deletes, skipped, made, others>> /\ Ours' = Ours
  BY DEF BatchUpdate, planVars, Ours
<1>2. /\ Tree(doc', fresh) /\ DOMAIN doc' = DOMAIN doc
      /\ \A x \in DOMAIN doc : doc'[x].children = doc[x].children /\ doc'[x].type = doc[x].type
  BY RewrittenShape DEF OnceInv
<1>3. OneParent(doc) /\ Page \in DOMAIN doc
  BY DEF OnPage, Tree
<1>4. OneParent(doc')
  BY <1>2, <1>3 DEF OneParent
<1> QED BY <1>1, <1>2, <1>3, <1>4, PageKept

\* A batch puts its entries on the page, or there is an error, or it is sent again.
LEMMA BatchPage ==
  ASSUME OnceInv, NewInv, Regular(entries), IsDiff, OnPage, Planned, NEW o, CreateBatch(o)
  PROVE  OnPage' /\ Planned'
<1> DEFINE n == IF Len(todo) < BatchSize THEN Len(todo) ELSE BatchSize
           is == SubSeq(todo, 1, n)
           rest == SubSeq(todo, n + 1, Len(todo))
           effect == Done(o) /\ Page \in DOMAIN doc
           cs == Bodies(is)
           ids == [k \in DOMAIN cs |-> IdOf(cs, fresh, k)]
<1>1. /\ UNCHANGED <<entries, base, deletes, skipped, others>> /\ Parent = Page
      /\ IF effect THEN Created(is) ELSE UNCHANGED <<doc, fresh, made>>
      /\ todo' = IF Retries(o) THEN todo ELSE rest
      /\ lastErr' = (lastErr \/ ~(Retries(o) \/ (effect /\ o = "ok")))
  BY DEF CreateBatch, planVars, NotCreated, Parent
<1>2. /\ entries \in Seq(EntrySet) /\ todo \in Seq(Nat) /\ fresh \in Nat \ {0}
      /\ Tree(doc, fresh) /\ OneParent(doc) /\ Page \in DOMAIN doc /\ ToSet(todo) \subseteq DOMAIN entries
      /\ Ours \subseteq ToSet(doc[Page].children)
  BY DEF OnceInv, FileTyped, WaitOnce, NewInv, OnPage, Tree, Planned, Tops
<1>3. Tops' = Tops /\ \A i : Matched(base, i)' = Matched(base, i)
  BY <1>1 DEF Tops, Matched, Known, Wraps
<1>4. n \in 0..Len(todo) /\ Len(todo) \in Nat
  BY <1>2, UpdateAssumption
<1> HIDE DEF n
<1>5. /\ is \in Seq(Nat) /\ ToSet(is) \subseteq ToSet(todo) /\ ToSet(rest) \subseteq ToSet(todo)
      /\ ToSet(todo) \subseteq ToSet(is) \cup ToSet(rest)
  <2>1. /\ is \in Seq(Nat) /\ Len(is) = n /\ \A k \in 1..n : is[k] = todo[k]
        /\ rest \in Seq(Nat) /\ Len(rest) = Len(todo) - n
        /\ \A k \in 1 .. Len(todo) - n : rest[k] = todo[n + k]
    BY <1>2, <1>4, Parted
  <2> HIDE DEF is, rest
  <2>2. /\ DOMAIN is = 1..n /\ DOMAIN rest = 1 .. Len(todo) - n /\ DOMAIN todo = 1..Len(todo)
        /\ \A k \in 1..n : k \in 1..Len(todo)
        /\ \A k \in 1 .. Len(todo) - n : n + k \in 1..Len(todo)
        /\ \A k \in 1..Len(todo) : k \in 1..n \/ (k - n \in 1 .. Len(todo) - n /\ n + (k - n) = k)
    BY <1>2, <1>4, <2>1
  <2>3. \A x \in ToSet(todo) : x \in ToSet(is) \cup ToSet(rest)
    <3> SUFFICES ASSUME NEW k \in 1..Len(todo) PROVE todo[k] \in ToSet(is) \cup ToSet(rest)
      BY <2>2 DEF ToSet
    <3>1. CASE k \in 1..n
      BY <2>1, <2>2, <3>1 DEF ToSet
    <3>2. CASE k - n \in 1 .. Len(todo) - n /\ n + (k - n) = k
      BY <2>1, <2>2, <3>2 DEF ToSet
    <3> QED BY <2>2, <3>1, <3>2
  <2>4. ToSet(is) \subseteq ToSet(todo) /\ ToSet(rest) \subseteq ToSet(todo)
    BY <2>1, <2>2 DEF ToSet
  <2> QED BY <2>1, <2>3, <2>4
<1> HIDE DEF is, rest, effect
<1>6. CASE ~effect
  <2>1. UNCHANGED <<doc, fresh, made>> /\ (todo' = todo \/ (todo' = rest /\ lastErr'))
        /\ (lastErr => lastErr')
    BY <1>1, <1>6
  <2>2. Ours' = Ours /\ Placed' = Placed
    BY <2>1 DEF Ours, Placed
  <2>3. OnPage'
    BY <1>1, <1>2, <2>1, <2>2, PageKept
  <2> QED BY <1>3, <1>5, <2>1, <2>2, <2>3 DEF Planned
<1>7. CASE effect
  <2>1. Created(is) /\ todo' \in {todo, rest} /\ (lastErr => lastErr')
    BY <1>1, <1>7
  <2>2. /\ DOMAIN is = 1..Len(is) /\ DOMAIN cs = 1..Len(is) /\ Len(cs) = Len(is) /\ cs \in Seq(Blocks({}))
    <3>1. DOMAIN is = 1..Len(is) /\ Len(is) \in Nat
      BY <1>5
    <3>2. \A k \in 1..Len(is) : Body(is[k]) \in Blocks({})
      BY <1>2, <1>5, <3>1, BodyType DEF ToSet
    <3>3. cs \in [1..Len(is) -> Blocks({})]
      BY <3>1, <3>2 DEF Bodies
    <3> HIDE DEF cs
    <3> DEFINE l == Len(is)
    <3> HIDE DEF l
    <3>4. cs \in [1..l -> Blocks({})] /\ l \in Nat
      BY <3>1, <3>3 DEF l
    <3>5. cs \in Seq(Blocks({})) /\ Len(cs) = l /\ DOMAIN cs = 1..l
      BY <3>4
    <3> QED BY <3>1, <3>5 DEF l
  <2>3. /\ doc' = AddBlocks(doc, Page, cs, fresh) /\ fresh' = IdOf(cs, fresh, Len(cs) + 1)
        /\ made' = made \cup {<<is[k], ids[k]>> : k \in DOMAIN is}
    <3>1. /\ doc' = AddBlocks(doc, Parent, cs, fresh) /\ fresh' = IdOf(cs, fresh, Len(is) + 1)
          /\ made' = made \cup {<<is[k], IdOf(cs, fresh, k)>> : k \in DOMAIN is}
      BY <2>1 DEF Created, Bodies
    <3>2. \A k \in DOMAIN is : ids[k] = IdOf(cs, fresh, k)
      BY <2>2
    <3> HIDE DEF ids, cs
    <3> QED BY <1>1, <2>2, <3>1, <3>2
  <2> HIDE DEF cs
  <2>4. Added(doc', doc, Page, cs, ids, fresh, fresh')
    BY <1>2, <2>2, <2>3, AddBlocksIs
  <2>5. DOMAIN ids = DOMAIN is
    BY <2>2
  <2> HIDE DEF ids
  <2>6. AddedFacts(doc', doc, Page, cs, ids, fresh, fresh')
    BY <1>2, <2>2, <2>4, AddedIs
  <2>7. /\ Tree(doc', fresh') /\ OneParent(doc')
        /\ ToSet(doc'[Page].children) = ToSet(doc[Page].children) \cup ToSet(ids)
    BY <1>2, <2>6, AddedTree
  <2>8. \A x \in DOMAIN doc : doc'[x].type = doc[x].type
                              /\ ToSet(doc[x].children) \subseteq ToSet(doc'[x].children)
    BY <2>6, <2>7 DEF AddedFacts
  <2>9. /\ \A k \in DOMAIN is : <<is[k], ids[k]>>[1] = is[k] /\ <<is[k], ids[k]>>[2] = ids[k]
        /\ ToSet(is) = {is[k] : k \in DOMAIN is} /\ ToSet(ids) = {ids[k] : k \in DOMAIN is}
    BY <2>5 DEF ToSet
  <2>10. Ours' = Ours \cup ToSet(ids) /\ Placed' = Placed \cup ToSet(is)
    <3>1. \A m \in made' : m \in made \/ \E k \in DOMAIN is : m[1] = is[k] /\ m[2] = ids[k]
      BY <2>3, <2>9
    <3>2. made \subseteq made' /\ \A k \in DOMAIN is : \E m \in made' : m[1] = is[k] /\ m[2] = ids[k]
      BY <2>3, <2>9
    <3> QED BY <2>9, <3>1, <3>2 DEF Ours, Placed
  <2>11. OnPage'
    BY <1>1, <2>7, <2>8, <2>10, PageKept
  <2>12. \A m \in made' : m = <<m[1], m[2]>> /\ m[1] \in Tops /\ ~Matched(base, m[1])
    BY <1>5, <2>3, <2>9 DEF Planned
  <2> QED BY <1>3, <1>5, <2>1, <2>10, <2>11, <2>12 DEF Planned
<1> QED BY <1>6, <1>7

\* Each step keeps it.
LEMMA PlaceSteps ==
  ASSUME OnceInv, OnceInv', NewInv, NewInv', LandInv, PlaceInv, [Next]_vars
  PROVE  PlaceInv'
<1> DEFINE Later == pc \in {"update", "delete", "create", "done"}
<1>1. CASE ExportFile \/ EditFile \/ Start
  <2>1. /\ pc \in {"export", "edit"} /\ lastErr' = lastErr /\ pc' \in {"edit", "get", "refused"}
    BY <1>1 DEF ExportFile, EditFile, Start, sendVars, ChangeText, RemoveSection, InsertLine,
                StripMarkers, Edited
  <2> QED BY <2>1 DEF PlaceInv, Early
<1>2. CASE Colleague \/ UNCHANGED vars
  <2>1. UNCHANGED <<pc, entries, base, deletes, todo, lastErr, made>>
    BY <1>2 DEF Colleague, vars, planVars, sendVars
  <2>2. IsDiff' = IsDiff /\ (Planned => Planned')
    BY <2>1 DEF IsDiff, Tops, Planned, Placed, Matched, Known, Wraps
  <2>3. OnPage => OnPage'
    <3>1. CASE Colleague
      BY <3>1, ColleaguePage DEF NewInv
    <3>2. CASE UNCHANGED vars
      BY <3>2, PageSame DEF vars, planVars
    <3> QED BY <1>2, <3>1, <3>2
  <2> QED BY <2>1, <2>2, <2>3 DEF PlaceInv
<1>3. CASE DeletesDone \/ BatchesDone
  <2>1. /\ UNCHANGED <<doc, fresh, entries, base, deletes, todo, lastErr, made, skipped, others>>
        /\ pc \in {"delete", "create"} /\ (pc = "delete" => deletes = << >>)
        /\ IsDiff => \/ pc' = "create"
                     \/ pc' = "done" /\ todo = << >> /\ (pc = "delete" \/ ~lastErr)
                     \/ pc' = "failed"
    BY <1>3 DEF DeletesDone, BatchesDone, planVars, sendVars
  <2>2. IsDiff' = IsDiff /\ (Planned => Planned') /\ (OnPage => OnPage')
    <3>1. IsDiff' = IsDiff /\ (Planned => Planned')
      BY <2>1 DEF IsDiff, Tops, Planned, Placed, Matched, Known, Wraps
    <3> QED BY <2>1, <3>1, PageSame
  <2>3. pc' \in Early => FALSE
    BY <1>3 DEF DeletesDone, BatchesDone, Early
  <2> QED BY <2>1, <2>2, <2>3 DEF PlaceInv, Early
<1>4. CASE Walk
  <2>1. pc = "walk" /\ entries' = entries /\ pc' \notin Early
    BY <1>4 DEF Walk, Collect, ReachParent, EndOfList, Flush, planVars, Early
  <2>2. ~IsDiff /\ IsDiff' = IsDiff
    BY <2>1 DEF OnceInv, Placing, Walking, IsDiff, Tops
  <2> QED BY <2>1, <2>2 DEF PlaceInv
<1>5. ASSUME NEW o \in Outcomes, Request(o) PROVE PlaceInv'
  <2>1. CASE GetBlocks(o)
    <3>1. pc = "get" /\ pc' \in {"update", "delete", "refused", "failed"} /\ UNCHANGED <<entries, lastErr>>
      BY <2>1 DEF GetBlocks
    <3>2. IsDiff' = IsDiff
      BY <3>1 DEF IsDiff, Tops
    <3>3. IsDiff /\ pc' \in {"update", "delete"} => OnPage' /\ Planned'
      BY <2>1, GetPage
    <3> QED BY <3>1, <3>2, <3>3 DEF PlaceInv, Early
  <2>2. CASE BatchUpdate(o)
    <3>1. /\ pc = "update" /\ pc' \in {"delete", "failed"}
          /\ UNCHANGED <<entries, base, todo, lastErr, made>>
      BY <2>2 DEF BatchUpdate, planVars, sendVars
    <3>2. IsDiff' = IsDiff /\ (Planned => Planned')
      BY <3>1 DEF IsDiff, Tops, Planned, Placed, Matched, Known, Wraps
    <3> QED BY <2>2, <3>1, <3>2, UpdatePage DEF PlaceInv, Early
  <2>3. CASE DeleteNext(o)
    <3>1. pc = "delete" /\ pc' = "delete" /\ UNCHANGED <<entries, lastErr>>
      BY <2>3 DEF DeleteNext, planVars, sendVars
    <3>2. IsDiff' = IsDiff
      BY <3>1 DEF IsDiff, Tops
    <3> QED BY <2>3, <3>1, <3>2, DeletePage DEF PlaceInv, Early
  <2>4. CASE CreateBatch(o)
    <3>1. pc = "create" /\ pc' = "create" /\ UNCHANGED <<entries, deletes>>
      BY <2>4 DEF CreateBatch, planVars
    <3>2. IsDiff' = IsDiff /\ Regular(entries)
      BY <3>1 DEF IsDiff, Tops, LandInv
    <3> QED BY <2>4, <3>1, <3>2, BatchPage DEF PlaceInv, Early
  <2>5. CASE CreateParent(o) \/ FindAutoChild(o) \/ FillAutoChild(o)
    <3>1. pc \in Walking /\ entries' = entries /\ pc' \notin Early
      BY <2>5 DEF CreateParent, FindAutoChild, FillAutoChild, planVars, Walking, Early
    <3>2. ~IsDiff /\ IsDiff' = IsDiff
      BY <3>1 DEF OnceInv, Placing, IsDiff, Tops
    <3> QED BY <3>1, <3>2 DEF PlaceInv
  <2> QED BY <1>5, <2>1, <2>2, <2>3, <2>4, <2>5 DEF Request
<1> QED BY <1>1, <1>2, <1>3, <1>4, <1>5 DEF Next, Command

\* At the end each entry has its block on the page, and each block its entry.
LEMMA AllPlaced ==
  ASSUME AtMostOnce, PlaceInv
  PROVE  DiffPlaces
<1> SUFFICES ASSUME pc = "done", IsDiff
             PROVE  /\ \A i \in Tops : Known(doc, BlockOf(i))
                    /\ \A b \in ToSet(doc[Page].children) \ (skipped \cup others) :
                         \E i \in Tops : \/ b = BlockOf(i) \/ Wraps(doc, b, BlockOf(i))
                                         \/ i \in twice /\ <<i, b>> \in made
  BY DEF DiffPlaces
<1>1. /\ ToSet(doc[Page].children) \subseteq DOMAIN doc /\ ToSet(<< >>) = {}
      /\ deletes = << >> /\ todo = << >> /\ ~lastErr
      /\ OnPage /\ Planned
  <2>1. OnPage /\ Planned /\ deletes = << >> /\ todo = << >> /\ ~lastErr
    BY DEF PlaceInv
  <2>2. doc[Page].children \in Seq(DOMAIN doc)
    BY <2>1 DEF OnPage, Tree, Blocks
  <2> QED BY <2>1, <2>2 DEF ToSet
<1>2. ASSUME NEW v \in Staying, NEW b, Wraps(base, v, b) PROVE Wraps(doc, v, b)
  BY <1>1, <1>2 DEF Wraps, OnPage
<1>3. ASSUME NEW i \in Tops, Matched(base, i)
      PROVE  BlockOf(i) = entries[i].bid /\ Known(doc, BlockOf(i))
  <2> DEFINE e == entries[i].bid
  <2>1. e # NoBid /\ Known(base, e) /\ BlockOf(i) = e
    BY <1>3 DEF Matched, BlockOf
  <2>2. CASE e \in ToSet(base[Page].children)
    <3>1. e \in Staying
      BY <2>1, <2>2 DEF Staying, Referenced
    <3> QED BY <1>1, <2>1, <3>1 DEF OnPage, Known
  <2>3. ASSUME NEW v, Wraps(base, v, e) PROVE Known(doc, e)
    <3>1. v \in Staying
      BY <2>1, <2>3 DEF Staying, Referenced, Wraps
    <3>2. v \in DOMAIN doc
      BY <1>1, <3>1 DEF OnPage
    <3> QED BY <1>2, <2>3, <3>1, <3>2 DEF Known
  <2> QED BY <2>1, <2>2, <2>3 DEF Known
<1>4. ASSUME NEW i \in Tops, NEW b, <<i, b>> \in made
      PROVE  Known(doc, BlockOf(i)) /\ (BlockOf(i) = b \/ i \in twice)
  <2>1. \A c : <<i, c>>[1] = i /\ <<i, c>>[2] = c
    OBVIOUS
  <2>2. ~Matched(base, i) /\ \A c : <<i, c>> \in made => c \in ToSet(doc[Page].children)
    BY <1>1, <1>4, <2>1 DEF Planned, OnPage, Ours
  <2>3. <<i, BlockOf(i)>> \in made
    <3>1. b \in DOMAIN doc
      BY <1>1, <1>4, <2>2
    <3>2. BlockOf(i) = CHOOSE c \in DOMAIN doc : <<i, c>> \in made
      BY <2>2 DEF BlockOf
    <3> QED BY <1>4, <3>1, <3>2
  <2>4. BlockOf(i) = b \/ i \in twice
    <3>1. <<i, b>> = <<i, BlockOf(i)>> \/ i \in twice
      BY <1>4, <2>1, <2>3 DEF AtMostOnce
    <3> QED BY <2>1, <3>1
  <2> QED BY <2>2, <2>3, <2>4 DEF Known
<1>5. ASSUME NEW i \in Tops PROVE Known(doc, BlockOf(i))
  <2>1. CASE Matched(base, i)
    BY <1>3, <2>1
  <2>2. CASE ~Matched(base, i)
    <3>1. PICK m \in made : m[1] = i /\ m = <<m[1], m[2]>>
      BY <1>1, <2>2 DEF Planned, Placed
    <3> QED BY <1>4, <3>1 DEF Known
  <2> QED BY <2>1, <2>2
<1>6. ASSUME NEW b \in ToSet(doc[Page].children), b \notin skipped \cup others
      PROVE  \E i \in Tops : \/ b = BlockOf(i) \/ Wraps(doc, b, BlockOf(i))
                             \/ i \in twice /\ <<i, b>> \in made
  <2>1. CASE b \in Staying
    <3>1. PICK i \in Tops : /\ entries[i].bid # NoBid /\ Known(base, entries[i].bid)
                            /\ b = entries[i].bid \/ Wraps(base, b, entries[i].bid)
      BY <2>1 DEF Staying, Referenced
    <3>2. BlockOf(i) = entries[i].bid
      BY <1>3, <3>1 DEF Matched
    <3> QED BY <1>2, <2>1, <3>1, <3>2
  <2>2. CASE b \in Ours
    <3>1. PICK m \in made : b = m[2]
      BY <2>2 DEF Ours
    <3>2. <<m[1], b>> \in made /\ m[1] \in Tops
      BY <1>1, <3>1 DEF Planned
    <3> QED BY <1>4, <3>2
  <2> QED BY <1>1, <1>6, <2>1, <2>2 DEF OnPage
<1> QED BY <1>5, <1>6

\* A diff that ends well leaves the page with exactly the blocks of the file
\* (doDiffUpdate): each top-level entry has its block there, or in a view there,
\* and what else is there could not be deleted, is a colleague's or was sent again.
THEOREM DiffPlaced == Spec => []DiffPlaces
<1>1. Init => OnceInv /\ NewInv /\ LandInv /\ PlaceInv
  <2>1. Init => PlaceInv
    BY DEF Init, PlaceInv
  <2> QED BY <2>1, StartsOnce, NewStarts, StartsLanding
<1>2. /\ OnceInv /\ NewInv /\ LandInv /\ PlaceInv /\ [Next]_vars
      => (OnceInv /\ NewInv /\ LandInv /\ PlaceInv)'
  BY StepsOnce, NewSteps, LandSteps, PlaceSteps
<1>3. OnceInv /\ NewInv /\ LandInv /\ PlaceInv => DiffPlaces
  BY AllPlaced DEF OnceInv, WaitOnce
<1> QED BY <1>1, <1>2, <1>3, PTL DEF Spec

=============================================================================
