----------------------------- MODULE DocMarkdown -----------------------------
(***************************************************************************)
(* A Feishu document as Markdown and back: blocksToMarkdown, which marks   *)
(* every top-level block with its id, markdownToBlocksWithIDs, which       *)
(* reads the lines back into entries, and the comparable contents by which *)
(* `docs update` decides what changed.                                     *)
(*                                                                         *)
(* A document is a function from block ids to blocks.  A line is what the  *)
(* parser tells apart of it: its kind, its text, its style and its indent. *)
(* Texts are plain: no line break, and nothing that reads as the start of  *)
(* another construct.  A table, an equation and a code block have one line *)
(* of content each; heading levels are one type.                           *)
(***************************************************************************)
EXTENDS Integers, SequencesExt

CONSTANTS
  Texts,   \* the texts a block can hold, besides ""
  Numeral, \* one of them: the number of a list item, with no text behind it
  Styles   \* what a block has besides text: language, done, colour, sequence

Page == 0        \* the id of the page block
NoBid == 0       \* "" as the id of an entry: the page itself is never marked
NoStyle == "-"

\* The types whose Markdown starts with a line of the type's own kind.
ListTypes == {"bullet", "ordered", "todo"}
Containers == {"quoteContainer", "callout"}
BlockTypes == ListTypes \cup Containers \cup
  {"page", "text", "heading", "code", "divider", "image", "file", "table",
   "equation", "quote", "linkPreview", "board", "grid", "column", "view",
   "iframe", "other"}

\* getContentRT finds rich text in these.
HasContent == {"text", "bullet", "ordered", "quote", "todo", "heading"}

\* The comparable content of these includes the style.
StyleCompared == {"ordered", "todo", "code"}

ASSUME TextAssumption == "" \notin Texts /\ Numeral \in Texts /\ NoStyle \in Styles

\* What a block is: its children are further blocks of its document.
Blocks(ids) ==
  [type : BlockTypes, text : Texts \cup {""}, style : Styles, children : Seq(ids)]

\* What a line is.  Indents and the ids of markers are numbers.
LineKinds == ListTypes \cup
  {"marker", "blank", "para", "heading", "quote", "callout", "fence", "content",
   "math", "divider", "image", "file", "table"}
Lines ==
  [kind : LineKinds, text : Texts \cup {""}, style : Styles, indent : Nat, bid : Nat]

\* The elements of s that are in K, in their order.
Keep(s, K) ==
  FlattenSeq([k \in DOMAIN s |-> IF s[k] \in K THEN <<s[k]>> ELSE << >>])

-----------------------------------------------------------------------------
(* Export.                                                                 *)

Line(k, t) ==
  [kind |-> k, text |-> t, style |-> NoStyle, indent |-> 0, bid |-> NoBid]
Marker(b) == [Line("marker", "") EXCEPT !.bid = b]
Blank == Line("blank", "")
Para(t) == IF t = "" THEN Blank ELSE Line("para", t)

\* The texts of a container's children, as blockComparableContent and
\* renderBlock collect them.
ContentOf(doc, b) ==
  LET texts == Keep(doc[b].children, {c \in DOMAIN doc : doc[c].type \in HasContent})
  IN [k \in DOMAIN texts |-> doc[texts[k]].text]

\* The lines of blocks bs at depth d.
LinesOf(lines, bs, d) == FlattenSeq([k \in DOMAIN bs |-> lines[bs[k]][d]])

\* renderBlock's switch: block b at depth d, its children as in lines.
BlockLines(doc, lines, b, d) ==
  LET blk == doc[b]
      texts == ContentOf(doc, b)
      quotes == [k \in DOMAIN texts |-> Line("quote", texts[k])]
      columns == Keep(blk.children, {c \in DOMAIN doc : doc[c].type = "column"})
  IN CASE blk.type = "text" -> <<Para(blk.text), Blank>>
       [] blk.type = "heading" -> <<Line("heading", blk.text), Blank>>
       [] blk.type \in {"bullet", "ordered"} ->
            <<[Line(blk.type, blk.text) EXCEPT !.indent = d, !.style = blk.style]>>
              \o LinesOf(lines, blk.children, d + 1)
       [] blk.type = "todo" ->
            <<[Line("todo", blk.text) EXCEPT !.style = blk.style]>>
       [] blk.type = "quote" -> <<Line("quote", blk.text), Blank>>
       [] blk.type = "quoteContainer" -> Append(quotes, Blank)
       [] blk.type = "callout" ->
            <<[Line("callout", "") EXCEPT !.style = blk.style]>>
              \o Append(quotes, Blank)
       [] blk.type = "code" ->
            <<[Line("fence", "") EXCEPT !.style = blk.style],
              Line("content", blk.text), Line("fence", ""), Blank>>
       [] blk.type = "equation" ->
            <<Line("math", ""), Line("content", blk.text), Line("math", ""), Blank>>
       [] blk.type \in {"divider", "image", "file", "table"} ->
            <<Line(blk.type, blk.text), Blank>>
       [] blk.type \in {"linkPreview", "board"} -> <<Para(blk.text), Blank>>
       [] blk.type = "grid" ->
            FlattenSeq([k \in DOMAIN columns |-> LinesOf(lines, doc[columns[k]].children, d)])
       [] OTHER -> LinesOf(lines, blk.children, d)

\* renderBlock: only what is at the top gets a marker.
Render(doc, lines, b, d) ==
  (IF d = 0 THEN <<Marker(b)>> ELSE << >>) \o BlockLines(doc, lines, b, d)

Rendered(doc) ==
  LET lines[b \in DOMAIN doc] == [d \in Nat |-> Render(doc, lines, b, d)] IN lines

\* blocksToMarkdown
Export(doc) == LinesOf(Rendered(doc), doc[Page].children, 0)

-----------------------------------------------------------------------------
(* Import.  Entries are kept in reading order, each with its level: the    *)
(* children of an entry are the deeper ones that follow it.                *)

Entry(b, ln, type) ==
  [bid |-> b, type |-> type, text |-> ln.text, style |-> ln.style, level |-> 0]

\* mdBlockEntry.Body = nil: these can only be kept or deleted.
PreserveOnly == {"image", "file", "table"}

\* Where the parser is: at the top level, in a list, just after a blank line
\* in a list, in a quote, in a code block or in a block equation.
Contexts == {"top", "list", "gap", "quote", "code", "math"}

ParserInit ==
  [out |-> << >>, bid |-> NoBid, at |-> "top", indents |-> << >>, err |-> FALSE]

\* A new top-level entry takes the pending marker with it.
Add(ps, e) == [ps EXCEPT !.out = Append(@, e), !.bid = NoBid, !.at = "top"]

\* parseListBlock: the open items are taken from the stack until one is indented
\* less than the new item.
AddItem(ps, ln) ==
  LET listed == ps.at \in {"list", "gap"}
      less == {k \in DOMAIN ps.indents : ps.indents[k] < ln.indent}
      open == IF listed /\ less # {} THEN SubSeq(ps.indents, 1, Max(less)) ELSE << >>
      item == Entry(IF listed THEN NoBid ELSE ps.bid, ln, ln.kind)
  IN [Add(ps, [item EXCEPT !.level = Len(open)])
        EXCEPT !.at = "list", !.indents = Append(open, ln.indent)]

\* A quote line: the first opens the container, every one is a child of it.
AddQuote(ps, ln) ==
  LET child == [Entry(NoBid, ln, "text") EXCEPT !.level = 1]
      opened == IF ps.at = "quote" THEN ps
                ELSE Add(ps, Entry(ps.bid, Line("quote", ""), "quoteContainer"))
  IN [opened EXCEPT !.out = Append(@, child), !.at = "quote"]

\* Mutant: a callout does not take the pending marker.
AddCalloutUnmarked(ps, ln) == [Add(ps, Entry(NoBid, ln, "callout")) EXCEPT !.at = "quote"]

AddCallout(ps, ln) == [Add(ps, Entry(ps.bid, ln, "callout")) EXCEPT !.at = "quote"]

\* Inside ``` or $$: the content belongs to the entry just opened.  A code
\* block that turns out empty leaves no entry.
AddContent(ps, ln) == [ps EXCEPT !.out[Len(ps.out)].text = ln.text]
CloseCode(ps) ==
  [ps EXCEPT !.at = "top",
             !.out = IF Last(@).text = "" THEN Front(@) ELSE @]

\* One line at the top level of markdownToBlocksWithIDs.  A number without a text
\* is no item (parseMarkdownOrderedItem): it ends the list and becomes a paragraph.
TopLine(ps, ln) ==
  CASE ln.kind = "marker" -> [ps EXCEPT !.bid = ln.bid, !.at = "top"]
    [] ln.kind = "blank" ->
         [ps EXCEPT !.at = IF @ = "list" THEN "gap" ELSE "top"]
    [] ln.kind = "math" ->
         [Add(ps, Entry(ps.bid, ln, "code")) EXCEPT !.at = "math"]
    [] ln.kind = "fence" ->
         [Add(ps, Entry(ps.bid, ln, "code")) EXCEPT !.at = "code"]
    [] ln.kind \in PreserveOnly ->
         [Add(ps, Entry(ps.bid, ln, ln.kind)) EXCEPT !.err = @ \/ ps.bid = NoBid]
    [] ln.kind = "heading" /\ ln.text = "" ->
         [ps EXCEPT !.bid = NoBid, !.at = "top"]
    [] ln.kind = "divider" \/ (ln.kind = "heading" /\ ln.text # "") ->
         Add(ps, Entry(ps.bid, ln, ln.kind))
    [] ln.kind = "ordered" /\ ln.text = "" ->
         Add(ps, Entry(ps.bid, Line("para", Numeral), "text"))
    [] ln.kind \in ListTypes -> AddItem(ps, ln)
    [] ln.kind = "quote" -> AddQuote(ps, ln)
    [] ln.kind = "callout" -> AddCallout(ps, ln)
    [] OTHER -> Add(ps, Entry(ps.bid, ln, "text"))

ParseLine(ps, ln) ==
  IF ps.at = "code" /\ ln.kind = "fence"     THEN CloseCode(ps)
  ELSE IF ps.at = "math" /\ ln.kind = "math" THEN [ps EXCEPT !.at = "top"]
  ELSE IF ps.at \in {"code", "math"}         THEN AddContent(ps, ln)
  ELSE TopLine(ps, ln)

\* parseMarkdownWithIDs: the entries in .out, or .err
Parse(lines) == FoldLeft(ParseLine, ParserInit, lines)

-----------------------------------------------------------------------------
(* What is compared.                                                       *)

HasChildren(es, i) == i < Len(es) /\ es[i + 1].level > es[i].level

\* The index of the first entry after i that is not below it.
After(es, i) ==
  LET ends == {j \in i + 1 .. Len(es) : es[j].level <= es[i].level}
  IN IF ends = {} THEN Len(es) + 1 ELSE Min(ends)

\* strings.Join of no text and of one empty text are the same.
Joined(s) == IF s = << >> THEN <<"">> ELSE s

\* mdBlockEntry.Comparable
EntryComparable(es, i) ==
  LET kids == SubSeq(es, i + 1, After(es, i) - 1) IN
  IF es[i].type \in Containers
    THEN [text |-> Joined([k \in DOMAIN kids |-> kids[k].text]), style |-> NoStyle]
    ELSE [text |-> <<es[i].text>>,
          style |-> IF es[i].type \in StyleCompared THEN es[i].style ELSE NoStyle]

\* blockComparableContent
BlockComparable(doc, b) ==
  IF doc[b].type \in Containers
    THEN [text |-> Joined(ContentOf(doc, b)), style |-> NoStyle]
    ELSE [text |-> <<doc[b].text>>,
          style |-> IF doc[b].type \in StyleCompared THEN doc[b].style
                                                     ELSE NoStyle]

-----------------------------------------------------------------------------
(* Documents.                                                              *)

\* Blocks that are rendered as what is in them, without a line of their own.
Transparent == {"page", "grid", "column", "view", "iframe", "other"}

\* Of the blocks at the top only a view has others in it that are marked too.
GridFree(d) ==
  \A b \in ToSet(d[Page].children) : d[b].type \in Transparent =>
    \A c \in ToSet(d[b].children) : d[b].type = "view" /\ d[c].type \notin Transparent

\* Blocks whose lines are read back as an entry with their marker.
Readable(d, b) ==
  /\ d[b].type \notin Transparent
  /\ d[b].type \in {"text", "heading", "code", "linkPreview", "board"} => d[b].text # ""
  /\ d[b].type = "quoteContainer" => ContentOf(d, b) # << >>

\* All blocks of the page are, or are views of such; in lists there are lists, and
\* every ordered item has a text.
RoundTrips(d) ==
  /\ \A b \in ToSet(d[Page].children) :
       \/ Readable(d, b)
       \/ /\ d[b].type = "view"
          /\ d[b].children # << >>
          /\ \A c \in ToSet(d[b].children) : Readable(d, c)
  /\ \A b \in DOMAIN d : d[b].type \in {"bullet", "ordered"} =>
       /\ d[b].type = "ordered" => d[b].text # ""
       /\ \A c \in ToSet(d[b].children) : d[c].type \in {"bullet", "ordered"}
=============================================================================
