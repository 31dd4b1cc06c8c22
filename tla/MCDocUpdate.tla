----------------------------- MODULE MCDocUpdate -----------------------------
(* Small documents for DocUpdate.                                          *)
EXTENDS DocUpdate

TextsPQ == {"p", "1."}
StylesAB == {NoStyle, "a"}

B(type, text, kids) ==
  [type |-> type, text |-> text,
   style |-> IF type \in StyleCompared \cup {"callout"} THEN "a" ELSE NoStyle,
   children |-> kids]

\* The page with children top, and the blocks 1, 2, ...
Doc(top, bs) ==
  [b \in 0 .. Len(bs) |-> IF b = Page THEN B("page", "", top) ELSE bs[b]]

\* Documents whose blocks are single lines, or are compared by their texts.
FlatDocs == {
  Doc(<<1, 2, 3>>, <<B("text", "p", << >>), B("heading", "1.", << >>), B("bullet", "p", << >>)>>),
  Doc(<<1, 2>>, <<B("view", "", <<3>>), B("code", "1.", << >>), B("file", "p", << >>)>>),
  Doc(<<1, 2, 3>>, <<B("image", "p", << >>), B("ordered", "p", << >>), B("todo", "1.", << >>)>>),
  Doc(<<1, 3>>, <<B("callout", "", <<2>>), B("text", "p", << >>), B("table", "p", << >>)>>),
  Doc(<<1, 3>>, <<B("quoteContainer", "", <<2>>), B("text", "1.", << >>), B("divider", "", << >>)>>),
  Doc(<<1, 2>>, <<B("equation", "p", << >>), B("text", "p", << >>)>>)}

\* A list whose items are of two types, in two levels.
ListDoc == Doc(<<1, 4>>, <<B("bullet", "p", <<2, 3>>), B("ordered", "p", << >>),
                           B("bullet", "1.", << >>), B("text", "p", << >>)>>)
DiffedDocs == FlatDocs \cup {ListDoc}

\* Documents with lists and quotes to rebuild.
NestedDocs == {
  Doc(<<1, 5>>, <<B("bullet", "p", <<2, 4>>), B("bullet", "1.", <<3>>), B("ordered", "p", << >>),
                  B("bullet", "p", << >>), B("text", "1.", << >>)>>),
  Doc(<<1, 4>>, <<B("quoteContainer", "", <<2, 3>>), B("text", "p", << >>), B("text", "1.", << >>),
                  B("text", "p", << >>)>>),
  Doc(<<1, 2, 3>>, <<B("text", "p", << >>), B("text", "1.", << >>), B("callout", "", <<4>>),
                     B("text", "1.", << >>)>>)}

\* Documents that do not come back as they were: a block without a line of its
\* own, a grid, and an item without a text in a list.
OddDocs == {
  Doc(<<1, 2, 3>>, <<B("text", "", << >>), B("other", "", << >>), B("text", "p", << >>)>>),
  Doc(<<1>>, <<B("grid", "", <<2>>), B("column", "", <<3>>), B("text", "p", << >>)>>),
  Doc(<<1, 3>>, <<B("bullet", "p", <<2>>), B("ordered", "", << >>), B("text", "p", << >>)>>)}

\* The theorems about markers and about unedited exports are about documents like
\* these.
RegularDocs == DiffedDocs \cup NestedDocs
ASSUME RoundTripAssumption == \A d \in RegularDocs : GridFree(d) /\ RoundTrips(d)

AllDocs == RegularDocs \cup OddDocs

AllOutcomes == {"ok", "limited", "failed", "lost", "lost429"}
TextLines == {"para", "heading", "bullet", "content", "ordered", "todo", "quote"}
Paras == {"para"}
ParasQuotes == {"para", "quote"}
=============================================================================
