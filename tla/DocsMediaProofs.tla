-------------------------- MODULE DocsMediaProofs --------------------------
(***************************************************************************)
(* Proofs about DocsMedia.  The inductive invariant relates the page, the  *)
(* media blocks the server knows and what the command holds: block numbers *)
(* are given once, the blocks without a file are the command's own or the  *)
(* ones nobody was told of, and the media blocks are on the page in the    *)
(* order of their numbers.                                                 *)
(***************************************************************************)
EXTENDS DocsMedia, SequenceTheorems, TLAPS

Names == {"text", "media", "view"}
Blocks == Names \X Nat

\* Between the answered create of a block and the end of its file.
Holding == {"open", "upload", "attach", "find", "delete"}

IsMedia(b) == b[1] # "text"

Types ==
  /\ page \in Seq(Blocks)
  /\ DOMAIN token \subseteq Nat /\ \A n \in DOMAIN token : token[n] \in Nat
  /\ token = [n \in DOMAIN token |-> token[n]]
  /\ fresh \in Nat /\ fresh > 0
  /\ others \in Nat /\ inserted \in BOOLEAN
  /\ kind \in {"image", "file"}
  /\ pc \in {"resolve", "stat", "create"} \cup Holding \cup Ended
  /\ at \in Nat \cup {-1}
  /\ arg \in Nat /\ arg > 0 /\ arg = Len(printed) + 1
  /\ mine \in Nat /\ leftover \in Nat
  /\ printed \in Seq(Nat)

\* What the command makes.
MediaName == IF kind = "file" THEN "view" ELSE "media"

\* A number names one block, and the server holds the media of the page.
Numbers ==
  /\ \A i \in DOMAIN page : page[i][2] > 0 /\ page[i][2] < fresh
  /\ \A i, j \in DOMAIN page : page[i][2] = page[j][2] => i = j
  /\ \A i \in DOMAIN page :
       IsMedia(page[i]) => page[i][1] = MediaName /\ page[i][2] \in DOMAIN token
  /\ \A n \in DOMAIN token : \E i \in DOMAIN page : page[i] = CreatedBlock(n)

\* The blocks without a file.
Unfilled ==
  \A n \in DOMAIN token :
    token[n] = NoFile => n \in unanswered \/ n = IF pc \in Ended THEN leftover ELSE mine

\* The block in hand, and the ones reported.
Hand ==
  /\ pc \in Holding => mine > 0
  /\ pc \notin Holding \cup {"failed"} => mine = 0
  /\ mine < fresh
  /\ \A k \in DOMAIN printed : printed[k] > 0 /\ printed[k] < fresh
  /\ pc \in Holding => \A k \in DOMAIN printed : printed[k] < mine
  /\ \A j, k \in DOMAIN printed : j < k => printed[j] < printed[k]

Reported ==
  \A k \in DOMAIN printed :
    /\ printed[k] \in DOMAIN token => token[printed[k]] = k
    /\ printed[k] \notin DOMAIN token => others > 0

\* The media blocks are on the page in the order they were made in.
Sorted ==
  at = -1 \/ ~inserted =>
    \A i, j \in DOMAIN page :
      IsMedia(page[i]) /\ IsMedia(page[j]) /\ page[i][2] < page[j][2] => i < j

\* Nothing the command made lies behind the index it counts.
Reach ==
  at # -1 /\ ~inserted =>
    \A i \in DOMAIN page :
      IsMedia(page[i]) => i <= IF pc \in Holding \cup {"failed"} THEN at + 1 ELSE at

IInv == Types /\ Numbers /\ Unfilled /\ Hand /\ Reported /\ Sorted /\ Reach

-----------------------------------------------------------------------------
(* Sequences.                                                              *)

\* The elements of a sequence with one put in: those before it, it, those after.
LEMMA Inserted ==
  ASSUME NEW S, NEW s \in Seq(S), NEW e \in S, NEW i \in 1 .. Len(s) + 1
  PROVE  /\ InsertAt(s, i, e) \in Seq(S)
         /\ Len(InsertAt(s, i, e)) = Len(s) + 1
         /\ \A j \in 1 .. Len(s) + 1 :
              InsertAt(s, i, e)[j] = IF j < i THEN s[j] ELSE IF j = i THEN e ELSE s[j - 1]
<1> DEFINE before == SubSeq(s, 1, i - 1)
           after == SubSeq(s, i, Len(s))
<1>1. /\ before \in Seq(S) /\ Len(before) = i - 1
      /\ \A j \in 1 .. i - 1 : before[j] = s[j]
  OBVIOUS
<1>2. /\ after \in Seq(S) /\ Len(after) = Len(s) + 1 - i
      /\ \A j \in 1 .. Len(s) + 1 - i : after[j] = s[i + j - 1]
  OBVIOUS
<1>3. InsertAt(s, i, e) = (before \o <<e>>) \o after
  BY DEF InsertAt
<1> HIDE DEF before, after
<1>4. Append(before, e) = before \o <<e>>
  BY <1>1, AppendIsConcat
<1> DEFINE front == Append(before, e)
<1>5. /\ front \in Seq(S) /\ Len(front) = i
      /\ \A j \in 1 .. i : front[j] = IF j < i THEN s[j] ELSE e
  BY <1>1, AppendProperties
<1> HIDE DEF front
<1>6. /\ front \o after \in Seq(S) /\ Len(front \o after) = Len(s) + 1
      /\ \A j \in 1 .. Len(s) + 1 :
           (front \o after)[j] = IF j <= i THEN front[j] ELSE after[j - i]
  BY <1>2, <1>5, ConcatProperties
<1>7. InsertAt(s, i, e) = front \o after
  BY <1>3, <1>4 DEF front
<1>8. ASSUME NEW j \in 1 .. Len(s) + 1
      PROVE  InsertAt(s, i, e)[j] = IF j < i THEN s[j] ELSE IF j = i THEN e ELSE s[j - 1]
  <2>1. CASE j <= i
    BY <2>1, <1>5, <1>6, <1>7
  <2>2. CASE j > i
    <3>1. j - i \in 1 .. Len(s) + 1 - i /\ i + (j - i) - 1 = j - 1
      BY <2>2
    <3>2. after[j - i] = s[j - 1]
      BY <3>1, <1>2
    <3> QED
      BY <2>2, <3>2, <1>6, <1>7
  <2> QED
    BY <2>1, <2>2
<1> QED
  BY <1>6, <1>7, <1>8

\* The elements of a sequence with one taken out.
LEMMA RemovedAt ==
  ASSUME NEW S, NEW s \in Seq(S), NEW i \in 1 .. Len(s)
  PROVE  /\ RemoveAt(s, i) \in Seq(S)
         /\ Len(RemoveAt(s, i)) = Len(s) - 1
         /\ \A j \in 1 .. Len(s) - 1 : RemoveAt(s, i)[j] = IF j < i THEN s[j] ELSE s[j + 1]
<1> DEFINE before == SubSeq(s, 1, i - 1)
           after == SubSeq(s, i + 1, Len(s))
<1>1. /\ before \in Seq(S) /\ Len(before) = i - 1
      /\ \A j \in 1 .. i - 1 : before[j] = s[j]
  OBVIOUS
<1>2. /\ after \in Seq(S) /\ Len(after) = Len(s) - i
      /\ \A j \in 1 .. Len(s) - i : after[j] = s[i + j]
  OBVIOUS
<1>3. RemoveAt(s, i) = before \o after
  BY DEF RemoveAt
<1> HIDE DEF before, after
<1>4. /\ before \o after \in Seq(S)
      /\ Len(before \o after) = Len(before) + Len(after)
      /\ \A j \in 1 .. Len(before) + Len(after) :
           (before \o after)[j] = IF j <= Len(before) THEN before[j] ELSE after[j - Len(before)]
  BY <1>1, <1>2, ConcatProperties
<1>5. ASSUME NEW j \in 1 .. Len(s) - 1
      PROVE  RemoveAt(s, i)[j] = IF j < i THEN s[j] ELSE s[j + 1]
  <2>1. CASE j < i
    <3>1. j <= Len(before) /\ j \in 1 .. Len(before) + Len(after)
      BY <2>1, <1>1, <1>2
    <3> QED
      BY <2>1, <3>1, <1>1, <1>3, <1>4
  <2>2. CASE j >= i
    <3>1. j - (i - 1) \in 1 .. Len(s) - i /\ i + (j - (i - 1)) = j + 1
      BY <2>2
    <3>2. after[j - (i - 1)] = s[j + 1]
      BY <3>1, <1>2
    <3>3. ~(j <= Len(before)) /\ j \in 1 .. Len(before) + Len(after)
      BY <2>2, <1>1, <1>2
    <3> QED
      BY <2>2, <3>2, <3>3, <1>1, <1>3, <1>4
  <2> QED
    BY <2>1, <2>2
<1> QED
  BY <1>1, <1>2, <1>3, <1>4, <1>5

\* In a sequence without repetition RemoveFirst takes out the one that there is.
LEMMA RemovedFirst ==
  ASSUME NEW S, NEW s \in Seq(S), NEW i \in 1 .. Len(s),
         \A j \in 1 .. Len(s) : s[j] = s[i] => j = i
  PROVE  RemoveFirst(s, s[i]) = RemoveAt(s, i)
<1> DEFINE I == {j \in 1 .. Len(s) : s[j] = s[i]}
<1>1. I = {i}
  OBVIOUS
<1>2. Min(I) = i
  BY <1>1 DEF Min
<1>3. SelectInSeq(s, LAMBDA v : v = s[i]) = i
  BY <1>1, <1>2 DEF SelectInSeq
<1> QED
  BY <1>3 DEF RemoveFirst

-----------------------------------------------------------------------------
(* The changes of the page.                                                *)

\* A block as what it is and its number.
LEMMA BlockFields ==
  ASSUME NEW b \in Blocks
  PROVE  b[1] \in Names /\ b[2] \in Nat /\ b = <<b[1], b[2]>>
BY DEF Blocks

\* The block that a create makes is a media block with the number it is given.
LEMMA CreatedFields ==
  ASSUME kind \in {"image", "file"}, NEW n \in Nat
  PROVE  /\ CreatedBlock(n) \in Blocks
         /\ CreatedBlock(n) = <<MediaName, n>>
         /\ IsMedia(CreatedBlock(n)) /\ CreatedBlock(n)[2] = n
BY DEF CreatedBlock, View, Media, Blocks, Names, IsMedia, MediaName

\* The media the server holds have numbers that were given.
LEMMA TokenNumbers ==
  ASSUME Types, Numbers
  PROVE  \A n \in DOMAIN token : n \in Nat /\ n > 0 /\ n < fresh
<1> SUFFICES ASSUME NEW n \in DOMAIN token PROVE n \in Nat /\ n > 0 /\ n < fresh
  OBVIOUS
<1>1. n \in Nat /\ kind \in {"image", "file"}
  BY DEF Types
<1>2. PICK i \in DOMAIN page : page[i] = CreatedBlock(n)
  BY DEF Numbers
<1>3. page[i][2] = n
  BY <1>1, <1>2, CreatedFields
<1> QED
  BY <1>1, <1>3 DEF Numbers

\* What there is on the page after a new block is put in at i, and that the
\* numbers still name the blocks.
LEMMA InsertStep ==
  ASSUME Types, Numbers, NEW i \in 1 .. Len(page) + 1, NEW e \in Blocks,
         e[2] = fresh, IsMedia(e) => e = CreatedBlock(fresh),
         page' = InsertAt(page, i, e), fresh' = fresh + 1, kind' = kind,
         DOMAIN token' = DOMAIN token \cup (IF IsMedia(e) THEN {fresh} ELSE {})
  PROVE  /\ page' \in Seq(Blocks)
         /\ Len(page') = Len(page) + 1
         /\ \A j \in DOMAIN page' :
              page'[j] = IF j < i THEN page[j] ELSE IF j = i THEN e ELSE page[j - 1]
         /\ Numbers'
<1>1. /\ page \in Seq(Blocks) /\ fresh \in Nat /\ fresh > 0 /\ DOMAIN page = 1 .. Len(page)
      /\ kind \in {"image", "file"} /\ DOMAIN token \subseteq Nat
  BY DEF Types
<1>2. /\ page' \in Seq(Blocks) /\ Len(page') = Len(page) + 1
      /\ DOMAIN page' = 1 .. Len(page) + 1
      /\ \A j \in 1 .. Len(page) + 1 :
           page'[j] = IF j < i THEN page[j] ELSE IF j = i THEN e ELSE page[j - 1]
  <2> DEFINE s == InsertAt(page, i, e)
  <2>1. /\ s \in Seq(Blocks) /\ Len(s) = Len(page) + 1
        /\ \A j \in 1 .. Len(page) + 1 :
             s[j] = IF j < i THEN page[j] ELSE IF j = i THEN e ELSE page[j - 1]
    <3> HIDE DEF s
    <3>1. page \in Seq(Blocks)
      BY <1>1
    <3> QED
      BY ONLY <3>1, i \in 1 .. Len(page) + 1, e \in Blocks, Inserted DEF s
  <2>2. page' = s
    OBVIOUS
  <2> HIDE DEF s
  <2> QED
    BY <2>1, <2>2
<1> DEFINE old(j) == IF j < i THEN j ELSE j - 1
<1>3. ASSUME NEW j \in 1 .. Len(page) + 1, j # i
      PROVE  old(j) \in DOMAIN page /\ page'[j] = page[old(j)]
  BY <1>1, <1>2, <1>3
<1>4. ASSUME NEW j \in 1 .. Len(page) + 1, NEW k \in 1 .. Len(page) + 1, j # i, k # i
      PROVE  old(j) = old(k) => j = k
  BY <1>1, <1>4
<1>5. page'[i] = e
  BY <1>1, <1>2
<1> HIDE DEF old
<1>6. \A n : CreatedBlock(n)' = CreatedBlock(n)
  BY DEF CreatedBlock, View, Media
<1>7. \A j \in DOMAIN page' : page'[j][2] > 0 /\ page'[j][2] < fresh'
  <2> SUFFICES ASSUME NEW j \in DOMAIN page' PROVE page'[j][2] > 0 /\ page'[j][2] < fresh'
    OBVIOUS
  <2>1. CASE j = i
    BY <2>1, <1>1, <1>5
  <2>2. CASE j # i
    <3>1. old(j) \in DOMAIN page /\ page'[j] = page[old(j)]
      BY <2>2, <1>2, <1>3
    <3>2. page[old(j)] \in Blocks
      BY <3>1, <1>1
    <3>3. page[old(j)][2] \in Nat
      BY <3>2, BlockFields
    <3> QED
      BY <3>1, <3>3, <1>1 DEF Numbers
  <2> QED
    BY <2>1, <2>2
<1>8. \A j, k \in DOMAIN page' : page'[j][2] = page'[k][2] => j = k
  <2> SUFFICES ASSUME NEW j \in DOMAIN page', NEW k \in DOMAIN page', page'[j][2] = page'[k][2]
               PROVE  j = k
    OBVIOUS
  <2>1. ASSUME NEW l \in DOMAIN page', l # i
        PROVE  /\ old(l) \in DOMAIN page /\ page'[l] = page[old(l)]
               /\ page[old(l)][2] # fresh
    <3>1. old(l) \in DOMAIN page /\ page'[l] = page[old(l)]
      BY <2>1, <1>2, <1>3
    <3>2. page[old(l)][2] \in Nat
      BY <3>1, <1>1, BlockFields
    <3> QED
      BY <3>1, <3>2, <1>1 DEF Numbers
  <2>2. CASE j = i \/ k = i
    BY <2>2, <2>1, <1>5
  <2>3. CASE j # i /\ k # i
    BY <2>3, <2>1, <1>2, <1>4 DEF Numbers
  <2> QED
    BY <2>2, <2>3
<1>9. ASSUME NEW j \in DOMAIN page', IsMedia(page'[j])
      PROVE  page'[j][1] = MediaName' /\ page'[j][2] \in DOMAIN token'
  <2>1. CASE j = i
    <3>1. e = <<MediaName, fresh>>
      BY <2>1, <1>1, <1>5, <1>9, CreatedFields
    <3> QED
      BY <2>1, <3>1, <1>5, <1>9 DEF MediaName
  <2>2. CASE j # i
    <3>1. old(j) \in DOMAIN page /\ page'[j] = page[old(j)]
      BY <2>2, <1>2, <1>3
    <3> QED
      BY <3>1, <1>9 DEF Numbers, MediaName
  <2> QED
    BY <2>1, <2>2
<1>10. ASSUME NEW n \in DOMAIN token' PROVE \E j \in DOMAIN page' : page'[j] = CreatedBlock(n)'
  <2>1. CASE n \in DOMAIN token
    <3>1. PICK k \in DOMAIN page : page[k] = CreatedBlock(n)
      BY <2>1 DEF Numbers
    <3>2. IF k < i THEN k \in DOMAIN page' /\ page'[k] = page[k]
                   ELSE k + 1 \in DOMAIN page' /\ page'[k + 1] = page[k]
      BY <1>1, <1>2
    <3> QED
      BY <3>1, <3>2, <1>6
  <2>2. CASE n \notin DOMAIN token
    <3>1. n = fresh /\ IsMedia(e)
      BY <2>2, <1>10
    <3> QED
      BY <3>1, <1>2, <1>5, <1>6
  <2> QED
    BY <2>1, <2>2
<1>11. Numbers'
  BY <1>7, <1>8, <1>9, <1>10 DEF Numbers, IsMedia
<1> QED
  BY <1>2, <1>11

\* What there is on the page after a block is taken out: the others, in their
\* order, each at most where it was; and the numbers still name the blocks.
LEMMA RemoveStep ==
  ASSUME Types, Numbers, NEW b, RemoveBlock(b), fresh' = fresh, kind' = kind,
         b \in ToSet(page) \/ \E n \in Nat : b = CreatedBlock(n)
  PROVE  /\ page' \in Seq(Blocks)
         /\ DOMAIN token' = DOMAIN token \ (IF b[1] = "text" THEN {} ELSE {b[2]})
         /\ \A n \in DOMAIN token' : n \in DOMAIN token /\ token'[n] = token[n]
         /\ token' = [n \in DOMAIN token' |-> token'[n]]
         /\ \E f \in [DOMAIN page' -> DOMAIN page] :
              /\ \A j \in DOMAIN page' : page'[j] = page[f[j]] /\ j <= f[j]
              /\ \A j, k \in DOMAIN page' : j < k <=> f[j] < f[k]
         /\ Numbers'
<1> DEFINE Old(f) == /\ \A j \in DOMAIN page' : page'[j] = page[f[j]] /\ j <= f[j]
                     /\ \A j, k \in DOMAIN page' : j < k <=> f[j] < f[k]
<1>1. /\ page \in Seq(Blocks) /\ fresh \in Nat /\ fresh > 0 /\ DOMAIN page = 1 .. Len(page)
      /\ kind \in {"image", "file"} /\ DOMAIN token \subseteq Nat /\ Len(page) \in Nat
  BY DEF Types
<1>2. /\ DOMAIN token' = DOMAIN token \ (IF b[1] = "text" THEN {} ELSE {b[2]})
      /\ \A n \in DOMAIN token' : n \in DOMAIN token /\ token'[n] = token[n]
      /\ token' = [n \in DOMAIN token' |-> token'[n]]
  BY DEF RemoveBlock
<1>3. page' = RemoveFirst(page, b)
  BY DEF RemoveBlock
<1>4. \A n : CreatedBlock(n)' = CreatedBlock(n)
  BY DEF CreatedBlock, View, Media
<1>5. /\ page' \in Seq(Blocks)
      /\ \E f \in [DOMAIN page' -> DOMAIN page] : Old(f)
      /\ \A j \in DOMAIN page : page[j] # b => \E k \in DOMAIN page' : page'[k] = page[j]
      /\ \A n \in DOMAIN token' : CreatedBlock(n) # b
      /\ \A k \in DOMAIN page' : page'[k] # b
  <2>1. CASE b \in ToSet(page)
    <3>1. PICK i \in DOMAIN page : page[i] = b
      BY <2>1 DEF ToSet
    <3>2. \A j \in 1 .. Len(page) : page[j] = page[i] => j = i
      BY <3>1, <1>1 DEF Numbers
    <3>3. page' = RemoveAt(page, i)
      BY ONLY <1>1, <1>3, <3>1, <3>2, RemovedFirst
    <3>4. /\ RemoveAt(page, i) \in Seq(Blocks)
          /\ Len(RemoveAt(page, i)) = Len(page) - 1
          /\ \A j \in 1 .. Len(page) - 1 :
               RemoveAt(page, i)[j] = IF j < i THEN page[j] ELSE page[j + 1]
      <4>1. page \in Seq(Blocks) /\ i \in 1 .. Len(page)
        BY ONLY <1>1, i \in DOMAIN page
      <4> QED
        BY ONLY <4>1, RemovedAt
    <3>5. /\ page' \in Seq(Blocks) /\ Len(page') = Len(page) - 1
          /\ DOMAIN page' = 1 .. Len(page) - 1
          /\ \A j \in 1 .. Len(page) - 1 : page'[j] = IF j < i THEN page[j] ELSE page[j + 1]
      BY <3>3, <3>4
    <3> DEFINE f == [j \in DOMAIN page' |-> IF j < i THEN j ELSE j + 1]
    <3>6. f \in [DOMAIN page' -> DOMAIN page]
      BY <1>1, <3>1, <3>5
    <3>7. \A j \in DOMAIN page' : f[j] = IF j < i THEN j ELSE j + 1
      OBVIOUS
    <3> HIDE DEF f
    <3>8. Old(f)
      <4>1. \A j \in DOMAIN page' : page'[j] = page[f[j]] /\ j <= f[j]
        BY <1>1, <3>1, <3>5, <3>7
      <4>2. i \in Nat /\ DOMAIN page' \subseteq Nat
        BY <1>1, <3>5
      <4>3. \A j, k \in DOMAIN page' : j < k <=> f[j] < f[k]
        BY ONLY <3>7, <4>2
      <4> QED
        BY <4>1, <4>3
    <3>9. ASSUME NEW j \in DOMAIN page, page[j] # b
          PROVE  \E k \in DOMAIN page' : page'[k] = page[j]
      <4>1. j # i
        BY <3>9, <3>1
      <4>2. IF j < i THEN j \in DOMAIN page' /\ page'[j] = page[j]
                     ELSE j - 1 \in DOMAIN page' /\ page'[j - 1] = page[j]
        BY <4>1, <1>1, <3>1, <3>5
      <4> QED
        BY <4>2
    <3>10. \A n \in DOMAIN token' : CreatedBlock(n) # b
      <4> SUFFICES ASSUME NEW n \in DOMAIN token', CreatedBlock(n) = b PROVE FALSE
        OBVIOUS
      <4>1. n \in Nat /\ n \in DOMAIN token
        BY <1>1, <1>2
      <4>2. IsMedia(b) /\ b[2] = n
        BY <4>1, <1>1, CreatedFields
      <4> QED
        BY <4>2, <1>2 DEF IsMedia
    <3>11. ASSUME NEW k \in DOMAIN page' PROVE page'[k] # b
      <4>1. f[k] \in DOMAIN page /\ page'[k] = page[f[k]] /\ f[k] # i
        BY <3>6, <3>7, <3>8, <1>1, <3>1, <3>5
      <4> QED
        BY <4>1, <1>1, <3>2, <3>1
    <3> QED
      BY <3>5, <3>6, <3>8, <3>9, <3>10, <3>11
  <2>2. CASE b \notin ToSet(page)
    <3>1. page' = page
      BY <2>2, <1>1, <1>3 DEF RemoveFirst, ToSet
    <3> DEFINE f == [j \in DOMAIN page |-> j]
    <3>2. f \in [DOMAIN page' -> DOMAIN page] /\ \A j \in DOMAIN page' : f[j] = j
      BY <3>1
    <3> HIDE DEF f
    <3>3. Old(f)
      BY <1>1, <3>1, <3>2
    <3>4. \A n \in DOMAIN token' : CreatedBlock(n) # b
      BY <1>2, <2>2 DEF Numbers, ToSet
    <3> QED
      BY <1>1, <2>2, <3>1, <3>2, <3>3, <3>4 DEF ToSet
  <2> QED
    BY <2>1, <2>2
<1>6. PICK f \in [DOMAIN page' -> DOMAIN page] : Old(f)
  BY <1>5
<1>7. \A j \in DOMAIN page' : page'[j][2] > 0 /\ page'[j][2] < fresh'
  BY <1>6 DEF Numbers
<1>8. \A j, k \in DOMAIN page' : page'[j][2] = page'[k][2] => j = k
  <2> SUFFICES ASSUME NEW j \in DOMAIN page', NEW k \in DOMAIN page', page'[j][2] = page'[k][2]
               PROVE  j = k
    OBVIOUS
  <2>1. f[j] = f[k] /\ f[j] \in Nat
    BY <1>1, <1>6 DEF Numbers
  <2>2. ~(j < k) /\ ~(k < j)
    BY <2>1, <1>6
  <2>3. j \in Nat /\ k \in Nat
    BY <1>5
  <2> QED
    BY <2>2, <2>3
<1>9. ASSUME NEW j \in DOMAIN page', IsMedia(page'[j])
      PROVE  page'[j][1] = MediaName' /\ page'[j][2] \in DOMAIN token'
  <2>1. f[j] \in DOMAIN page /\ page'[j] = page[f[j]]
    BY <1>6
  <2>2. page[f[j]][1] = MediaName /\ page[f[j]][2] \in DOMAIN token
    BY <2>1, <1>9 DEF Numbers
  <2>3. page[f[j]][2] # b[2] \/ b[1] = "text"
    <3> SUFFICES ASSUME page[f[j]][2] = b[2], b[1] # "text" PROVE FALSE
      OBVIOUS
    <3>0. page[f[j]] \in Blocks /\ page'[j] # b
      BY <2>1, <1>1, <1>5
    <3>1. CASE b \in ToSet(page)
      BY <3>1, <3>0, <2>1 DEF ToSet, Numbers
    <3>2. CASE \E n \in Nat : b = CreatedBlock(n)
      <4>1. b = <<MediaName, b[2]>>
        BY <3>2, <1>1, CreatedFields
      <4>2. page[f[j]] = <<MediaName, page[f[j]][2]>>
        BY <3>0, <2>2, BlockFields
      <4> QED
        BY <4>1, <4>2, <3>0, <2>1
    <3> QED
      BY <3>1, <3>2
  <2> QED
    BY <2>1, <2>2, <2>3, <1>2 DEF MediaName
<1>10. ASSUME NEW n \in DOMAIN token' PROVE \E j \in DOMAIN page' : page'[j] = CreatedBlock(n)'
  <2>1. PICK k \in DOMAIN page : page[k] = CreatedBlock(n)
    BY <1>2 DEF Numbers
  <2> QED
    BY <2>1, <1>4, <1>5
<1>11. Numbers'
  BY <1>7, <1>8, <1>9, <1>10 DEF Numbers, IsMedia
<1> QED
  BY <1>2, <1>5, <1>11

-----------------------------------------------------------------------------
(* The steps.                                                              *)

\* The invariant holds of a document nobody has touched yet.
LEMMA InitInv == Init => IInv
<1> SUFFICES ASSUME Init PROVE IInv
  OBVIOUS
<1>1. /\ NTexts \in Nat /\ kind \in {"image", "file"} /\ at \in Nat \cup {-1}
  BY DocsMediaAssumption DEF Init
<1>2. /\ page \in Seq(Blocks) /\ DOMAIN page = 1 .. NTexts /\ Len(page) = NTexts
      /\ \A i \in DOMAIN page : page[i] = <<"text", i>>
  <2>1. \A i \in 1 .. NTexts : Text(i) \in Blocks
    BY <1>1 DEF Text, Blocks, Names
  <2> QED
    BY <1>1, <2>1 DEF Init, Text
<1>3. printed = << >> /\ DOMAIN printed = {} /\ Len(printed) = 0 /\ printed \in Seq(Nat)
  BY DEF Init
<1>4. DOMAIN token = {} /\ token = [n \in DOMAIN token |-> token[n]]
  <2>1. token = << >>
    BY DEF Init
  <2> QED
    BY <2>1
<1>5. Types
  <2>1. /\ fresh = NTexts + 1 /\ others = 0 /\ inserted = FALSE
        /\ pc = "resolve" /\ mine = 0 /\ leftover = 0 /\ arg = 1
    BY Zenon DEF Init
  <2>3. fresh \in Nat /\ fresh > 0 /\ others \in Nat
    BY <1>1, <2>1
  <2>4. inserted \in BOOLEAN
    BY <2>1, Zenon
  <2>2. DOMAIN token \subseteq Nat /\ \A n \in DOMAIN token : token[n] \in Nat
    BY <1>4
  <2> QED
    BY <1>1, <1>2, <1>3, <1>4, <2>1, <2>2, <2>3, <2>4 DEF Types
<1>6. Numbers
  BY <1>1, <1>2, <1>4 DEF Init, Numbers, IsMedia
<1>7. Unfilled /\ Hand /\ Reported
  BY <1>1, <1>3, <1>4 DEF Init, Unfilled, Hand, Reported, Holding
<1>8. Sorted /\ Reach
  BY <1>2 DEF Sorted, Reach, IsMedia
<1> QED
  BY <1>5, <1>6, <1>7, <1>8 DEF IInv

\* A step of the command that asks something of nobody or of the server, and
\* changes nothing of the document, keeps the invariant.
LEMMA QuietStep ==
  ASSUME IInv,
         \/ \E o \in Outcomes : Resolve(o) \/ Upload(o) \/ FindParent(o)
         \/ Stat \/ Open
  PROVE  IInv'
<1> DEFINE Quiet ==
      /\ UNCHANGED <<docVars, otherVars, kind, at, arg, mine, printed, unanswered>>
      /\ pc' \in {"resolve", "stat", "create"} \cup Holding \cup Ended
      /\ leftover' \in {leftover, mine}
      /\ pc' \in Ended => leftover' = mine \/ (mine = 0 /\ leftover' = leftover)
      /\ \/ pc \in Holding /\ pc' \in Holding \cup {"failed"}
         \/ pc \notin Holding \cup Ended /\ pc' \in {"stat", "create", "failed"}
<1>0. /\ pc \notin Holding \cup {"failed"} => mine = 0
  BY DEF IInv, Hand
<1>1. Quiet
  <2>1. CASE \E o \in Outcomes : Resolve(o)
    BY <2>1, <1>0 DEF Resolve, Holding, Ended, toldVars
  <2>2. CASE \E o \in Outcomes : Upload(o)
    BY <2>2, <1>0 DEF Upload, Holding, Ended, toldVars
  <2>3. CASE \E o \in Outcomes : FindParent(o)
    BY <2>3, <1>0 DEF FindParent, Holding, Ended, toldVars
  <2>4. CASE Stat
    BY <2>4, <1>0 DEF Stat, Holding, Ended, toldVars
  <2>5. CASE Open
    BY <2>5, <1>0 DEF Open, Holding, Ended, toldVars
  <2> QED
    BY <2>1, <2>2, <2>3, <2>4, <2>5
<1>2. /\ page' = page /\ token' = token /\ fresh' = fresh /\ others' = others
      /\ inserted' = inserted /\ kind' = kind /\ at' = at /\ arg' = arg /\ mine' = mine
      /\ printed' = printed /\ unanswered' = unanswered
  BY <1>1 DEF docVars, otherVars
<1>3. Types'
  BY <1>1, <1>2 DEF IInv, Types
<1>4. Numbers'
  BY <1>2 DEF IInv, Numbers, CreatedBlock, View, Media, MediaName
<1>5. Unfilled'
  <2>1. \A n \in DOMAIN token : n > 0
    BY TokenNumbers DEF IInv
  <2> QED
    BY <1>1, <1>2, <2>1 DEF IInv, Unfilled, Types, Hand, Holding, Ended
<1>6. Hand'
  BY <1>1, <1>2 DEF IInv, Hand, Holding, Ended
<1>7. Reported' /\ Sorted'
  BY <1>2 DEF IInv, Reported, Sorted
<1>8. Reach'
  <2>1. page \in Seq(Blocks) /\ at \in Nat \cup {-1}
    BY DEF IInv, Types
  <2>2. DOMAIN page \subseteq Nat
    BY <2>1
  <2> QED
    BY <1>1, <1>2, <2>1, <2>2 DEF IInv, Reach, Holding, Ended
<1> QED
  BY <1>3, <1>4, <1>5, <1>6, <1>7, <1>8 DEF IInv

\* A text that the colleague puts in moves blocks down, and ends what is
\* promised of an index.
LEMMA ColleagueInsertsStep ==
  ASSUME IInv, NEW i \in 1 .. Len(page) + 1, ColleagueInserts(i)
  PROVE  IInv'
<1>1. /\ Types /\ Numbers /\ fresh \in Nat /\ others \in Nat
      /\ page \in Seq(Blocks) /\ DOMAIN page = 1 .. Len(page) /\ Len(page) \in Nat
  BY DEF IInv, Types
<1>2. /\ page' = InsertAt(page, i, Text(fresh)) /\ fresh' = fresh + 1
      /\ others' = others + 1 /\ inserted' = TRUE
      /\ token' = token /\ kind' = kind /\ pc' = pc /\ at' = at /\ arg' = arg /\ mine' = mine
      /\ printed' = printed /\ leftover' = leftover /\ unanswered' = unanswered
  BY DEF ColleagueInserts, toldVars
<1>3. Text(fresh) \in Blocks /\ Text(fresh)[2] = fresh /\ ~IsMedia(Text(fresh))
  BY <1>1 DEF Text, Blocks, Names, IsMedia
<1>4. /\ page' \in Seq(Blocks) /\ Len(page') = Len(page) + 1
      /\ \A j \in DOMAIN page' :
           page'[j] = IF j < i THEN page[j] ELSE IF j = i THEN Text(fresh) ELSE page[j - 1]
      /\ Numbers'
  <2> DEFINE e == Text(fresh)
  <2>1. /\ e \in Blocks /\ e[2] = fresh /\ IsMedia(e) => e = CreatedBlock(fresh)
        /\ page' = InsertAt(page, i, e)
        /\ DOMAIN token' = DOMAIN token \cup (IF IsMedia(e) THEN {fresh} ELSE {})
    BY <1>2, <1>3
  <2> HIDE DEF e
  <2>2. /\ page' \in Seq(Blocks) /\ Len(page') = Len(page) + 1
        /\ \A j \in DOMAIN page' :
             page'[j] = IF j < i THEN page[j] ELSE IF j = i THEN e ELSE page[j - 1]
        /\ Numbers'
    BY <1>1, <1>2, <1>3, <2>1, InsertStep DEF e
  <2> QED
    BY <2>2 DEF e
<1>5. Types'
  <2>1. fresh' \in Nat /\ fresh' > 0 /\ others' \in Nat
    BY <1>1, <1>2
  <2>2. inserted' \in BOOLEAN
    BY <1>2, Zenon
  <2> QED
    BY <1>1, <1>2, <1>4, <2>1, <2>2 DEF Types
<1>6. Unfilled' /\ Reported'
  BY <1>1, <1>2 DEF IInv, Unfilled, Reported
<1>7. Hand'
  <2>1. /\ mine \in Nat /\ mine < fresh /\ fresh' = fresh + 1
        /\ \A k \in DOMAIN printed : printed[k] \in Nat /\ printed[k] < fresh
    BY <1>1, <1>2 DEF IInv, Hand, Types
  <2>2. /\ mine < fresh'
        /\ \A k \in DOMAIN printed : printed[k] < fresh'
    BY <2>1, <1>1
  <2> QED
    BY <1>2, <2>2 DEF IInv, Hand
<1>8. Reach'
  BY <1>2 DEF Reach
<1>9. Sorted'
  <2> SUFFICES ASSUME at = -1,
                      NEW j \in DOMAIN page', NEW k \in DOMAIN page',
                      IsMedia(page'[j]), IsMedia(page'[k]), page'[j][2] < page'[k][2]
               PROVE  j < k
    BY <1>2 DEF Sorted, IsMedia
  <2> DEFINE old(l) == IF l < i THEN l ELSE l - 1
  <2>1. j # i /\ k # i
    BY <1>3, <1>4
  <2>2. /\ old(j) \in DOMAIN page /\ page'[j] = page[old(j)]
        /\ old(k) \in DOMAIN page /\ page'[k] = page[old(k)]
    BY <1>1, <1>4, <2>1
  <2>3. old(j) < old(k)
    BY <2>2 DEF IInv, Sorted
  <2> QED
    BY <1>1, <1>4, <2>1, <2>3
<1> QED
  BY <1>4, <1>5, <1>6, <1>7, <1>8, <1>9 DEF IInv

\* Taking a block out keeps the others in their order and in front of where
\* they were.
LEMMA RemovalKeeps ==
  ASSUME IInv, at' = at, inserted' = inserted, page' \in Seq(Blocks),
         \/ pc' = pc
         \/ pc \in Holding /\ pc' = "failed",
         \E f \in [DOMAIN page' -> DOMAIN page] :
           /\ \A j \in DOMAIN page' : page'[j] = page[f[j]] /\ j <= f[j]
           /\ \A j, k \in DOMAIN page' : j < k <=> f[j] < f[k]
  PROVE  Sorted' /\ Reach'
<1>1. PICK f \in [DOMAIN page' -> DOMAIN page] :
        /\ \A j \in DOMAIN page' : page'[j] = page[f[j]] /\ j <= f[j]
        /\ \A j, k \in DOMAIN page' : j < k <=> f[j] < f[k]
  OBVIOUS
<1>2. Sorted'
  <2> SUFFICES ASSUME at = -1 \/ ~inserted,
                      NEW j \in DOMAIN page', NEW k \in DOMAIN page',
                      IsMedia(page'[j]), IsMedia(page'[k]), page'[j][2] < page'[k][2]
               PROVE  j < k
    BY DEF Sorted, IsMedia
  <2> QED
    BY <1>1 DEF IInv, Sorted
<1>3. Reach'
  <2> SUFFICES ASSUME at # -1, ~inserted, NEW j \in DOMAIN page', IsMedia(page'[j])
               PROVE  j <= IF pc' \in Holding \cup {"failed"} THEN at + 1 ELSE at
    BY DEF Reach, IsMedia
  <2>1. f[j] <= IF pc \in Holding \cup {"failed"} THEN at + 1 ELSE at
    BY <1>1 DEF IInv, Reach
  <2>2. f[j] \in Nat /\ j \in Nat /\ at \in Nat /\ j <= f[j]
    BY <1>1 DEF IInv, Types
  <2>3. pc \in Holding \cup {"failed"} <=> pc' \in Holding \cup {"failed"}
    OBVIOUS
  <2> QED
    BY <2>1, <2>2, <2>3
<1> QED
  BY <1>2, <1>3

\* What the colleague deletes is no longer there, with the file it held.
LEMMA ColleagueDeletesStep ==
  ASSUME IInv, NEW b \in ToSet(page), ColleagueDeletes(b)
  PROVE  IInv'
<1>1. /\ Types /\ Numbers /\ others \in Nat /\ DOMAIN token \subseteq Nat
      /\ \A n \in DOMAIN token : token[n] \in Nat
  BY DEF IInv, Types
<1>2. /\ others' = others + 1 /\ fresh' = fresh /\ inserted' = inserted
      /\ kind' = kind /\ pc' = pc /\ at' = at /\ arg' = arg /\ mine' = mine
      /\ printed' = printed /\ leftover' = leftover /\ unanswered' = unanswered
      /\ RemoveBlock(b)
  BY DEF ColleagueDeletes, toldVars
<1>3. /\ page' \in Seq(Blocks)
      /\ \A n \in DOMAIN token' : n \in DOMAIN token /\ token'[n] = token[n]
      /\ token' = [n \in DOMAIN token' |-> token'[n]]
      /\ \E f \in [DOMAIN page' -> DOMAIN page] :
           /\ \A j \in DOMAIN page' : page'[j] = page[f[j]] /\ j <= f[j]
           /\ \A j, k \in DOMAIN page' : j < k <=> f[j] < f[k]
      /\ Numbers'
  BY <1>1, <1>2, RemoveStep
<1>4. Sorted' /\ Reach'
  BY <1>2, <1>3, RemovalKeeps
<1>5. Types'
  <2>1. others' \in Nat
    BY <1>1, <1>2
  <2>2. DOMAIN token' \subseteq Nat /\ \A n \in DOMAIN token' : token'[n] \in Nat
    BY <1>1, <1>3
  <2> QED
    BY <1>1, <1>2, <1>3, <2>1, <2>2 DEF Types
<1>6. Unfilled' /\ Reported' /\ Hand'
  BY <1>1, <1>2, <1>3 DEF IInv, Unfilled, Reported, Hand
<1> QED
  BY <1>3, <1>4, <1>5, <1>6 DEF IInv

\* A new block is behind all that the command made, and nobody is told of it
\* only when the answer does not come.
LEMMA CreateStep ==
  ASSUME IInv, NEW o \in Outcomes, Create(o)
  PROVE  IInv'
<1>1. /\ Types /\ Numbers /\ fresh \in Nat /\ fresh > 0 /\ at \in Nat \cup {-1}
      /\ page \in Seq(Blocks) /\ DOMAIN page = 1 .. Len(page) /\ Len(page) \in Nat
      /\ kind \in {"image", "file"} /\ DOMAIN token \subseteq Nat
      /\ \A n \in DOMAIN token : token[n] \in Nat
      /\ pc = "create" /\ mine = 0
  BY DEF IInv, Types, Hand, Create, Holding
<1>2. /\ others' = others /\ inserted' = inserted /\ kind' = kind /\ at' = at /\ arg' = arg
      /\ printed' = printed /\ leftover' = leftover
      /\ pc' \in {"open", "failed"}
  BY DEF Create, otherVars, toldVars
<1>3. CASE page' = page /\ token' = token /\ fresh' = fresh /\ mine' = mine
           /\ unanswered' = unanswered /\ pc' = "failed"
  <2>1. Types'
    BY <1>2, <1>3 DEF IInv, Types, Ended
  <2>2. Numbers'
    BY <1>2, <1>3 DEF IInv, Numbers, MediaName, CreatedBlock, View, Media
  <2>3. Unfilled'
    <3>1. \A n \in DOMAIN token : n > 0
      BY <1>1, TokenNumbers
    <3> QED
      BY <1>1, <1>3, <3>1 DEF IInv, Unfilled, Ended
  <2>4. Hand' /\ Reported' /\ Sorted'
    BY <1>1, <1>2, <1>3 DEF IInv, Hand, Reported, Sorted, Holding
  <2>5. Reach'
    BY <1>1, <1>2, <1>3 DEF IInv, Reach, Holding
  <2> QED
    BY <2>1, <2>2, <2>3, <2>4, <2>5 DEF IInv
<1>4. CASE EmptyBlock(o) /\ at <= Len(page) /\ pc' = (IF o = "ok" THEN "open" ELSE "failed")
  <2> DEFINE i == IF at = -1 THEN Len(page) + 1 ELSE at + 1
             e == CreatedBlock(fresh)
  <2>1. i \in 1 .. Len(page) + 1
    BY <1>1, <1>4
  <2>2. e \in Blocks /\ e[2] = fresh /\ IsMedia(e)
    BY <1>1, CreatedFields
  <2>3. /\ page' = InsertAt(page, i, e) /\ fresh' = fresh + 1
        /\ DOMAIN token' = DOMAIN token \cup {fresh}
        /\ token'[fresh] = NoFile /\ fresh \notin DOMAIN token
        /\ \A n \in DOMAIN token : token'[n] = token[n]
        /\ token' = [n \in DOMAIN token' |-> token'[n]]
        /\ mine' = (IF o = "ok" THEN fresh ELSE 0)
        /\ unanswered' = (IF o = "ok" THEN unanswered ELSE unanswered \cup {fresh})
    <3>1. fresh \notin DOMAIN token
      BY <1>1, TokenNumbers
    <3> QED
      BY <1>4, <3>1 DEF EmptyBlock
  <2> HIDE DEF i, e
  <2>4. /\ page' \in Seq(Blocks) /\ Len(page') = Len(page) + 1
        /\ \A j \in DOMAIN page' :
             page'[j] = IF j < i THEN page[j] ELSE IF j = i THEN e ELSE page[j - 1]
        /\ Numbers'
    <3>1. IsMedia(e) => e = CreatedBlock(fresh)
      BY DEF e
    <3>2. DOMAIN token' = DOMAIN token \cup (IF IsMedia(e) THEN {fresh} ELSE {})
      BY <2>2, <2>3
    <3> QED
      BY <1>1, <1>2, <2>1, <2>2, <2>3, <3>1, <3>2, InsertStep
  <2>5. Types'
    <3>1. /\ fresh' \in Nat /\ fresh' > 0 /\ mine' \in Nat
          /\ DOMAIN token' \subseteq Nat /\ \A n \in DOMAIN token' : token'[n] \in Nat
      BY <1>1, <2>3 DEF NoFile
    <3>2. pc' \in Holding \cup Ended
      BY <1>2 DEF Holding, Ended
    <3> QED
      BY <1>1, <1>2, <2>3, <2>4, <3>1, <3>2 DEF Types
  <2>6. Unfilled'
    <3>1. \A n \in DOMAIN token : n > 0
      BY <1>1, TokenNumbers
    <3> SUFFICES ASSUME NEW n \in DOMAIN token', token'[n] = NoFile
                 PROVE  n \in unanswered' \/ n = IF pc' \in Ended THEN leftover' ELSE mine'
      BY DEF Unfilled
    <3>2. CASE n = fresh
      BY <3>2, <1>4, <2>3 DEF Ended
    <3>3. CASE n # fresh
      <4>1. n \in DOMAIN token /\ token[n] = NoFile
        BY <3>3, <2>3
      <4>2. n \in unanswered
        BY <4>1, <1>1, <3>1 DEF IInv, Unfilled, Ended
      <4> QED
        BY <4>2, <2>3
    <3> QED
      BY <3>2, <3>3
  <2>7. Hand'
    <3>1. \A k \in DOMAIN printed : printed[k] > 0 /\ printed[k] < fresh /\ printed[k] \in Nat
      BY DEF IInv, Hand, Types
    <3>2. \A j, k \in DOMAIN printed : j < k => printed[j] < printed[k]
      BY DEF IInv, Hand
    <3>3. IF o = "ok" THEN pc' = "open" /\ mine' = fresh ELSE pc' = "failed" /\ mine' = 0
      BY <1>4, <2>3
    <3> QED
      BY <1>1, <1>2, <2>3, <3>1, <3>2, <3>3 DEF Hand, Holding
  <2>8. Reported'
    <3>1. \A k \in DOMAIN printed : printed[k] # fresh
      BY <1>1 DEF IInv, Hand, Types
    <3> QED
      BY <1>2, <2>3, <3>1 DEF IInv, Reported
  <2>9. Sorted'
    <3> SUFFICES ASSUME at = -1 \/ ~inserted,
                        NEW j \in DOMAIN page', NEW k \in DOMAIN page',
                        IsMedia(page'[j]), IsMedia(page'[k]), page'[j][2] < page'[k][2]
                 PROVE  j < k
      BY <1>2 DEF Sorted, IsMedia
    <3> DEFINE old(l) == IF l < i THEN l ELSE l - 1
    <3>1. ASSUME NEW l \in DOMAIN page', l # i
          PROVE  old(l) \in DOMAIN page /\ page'[l] = page[old(l)]
      BY <3>1, <1>1, <2>1, <2>4
    <3>2. j # i
      <4> SUFFICES ASSUME j = i PROVE FALSE
        OBVIOUS
      <4>1. k # i
        BY <2>1, <2>2, <2>4, <1>1
      <4>2. /\ old(k) \in DOMAIN page /\ page'[k] = page[old(k)]
            /\ page'[j] = e
        BY <4>1, <3>1, <2>4
      <4> HIDE DEF old
      <4>3. page[old(k)] \in Blocks /\ page[old(k)][2] < fresh
        BY <4>2, <1>1 DEF Numbers
      <4>4. page[old(k)][2] > fresh
        BY <4>2, <2>2
      <4> QED
        BY <4>3, <4>4, <1>1, BlockFields
    <3>3. CASE k = i
      <4>1. page'[j] = page[old(j)] /\ old(j) \in DOMAIN page
        BY <3>1, <3>2
      <4>2. old(j) < i
        <5>1. CASE at = -1
          BY <5>1, <4>1, <1>1 DEF i
        <5>2. CASE at # -1
          <6>1. old(j) <= at
            BY <5>2, <4>1, <1>1 DEF IInv, Reach, Holding
          <6> QED
            BY <5>2, <6>1, <1>1, <4>1 DEF i
        <5> QED
          BY <5>1, <5>2
      <4> QED
        BY <3>3, <4>2, <3>2, <1>1, <2>1, <2>4
    <3>4. CASE k # i
      <4>1. /\ page'[j] = page[old(j)] /\ old(j) \in DOMAIN page
            /\ page'[k] = page[old(k)] /\ old(k) \in DOMAIN page
        BY <3>1, <3>2, <3>4
      <4>2. old(j) < old(k)
        BY <4>1 DEF IInv, Sorted
      <4> QED
        BY <4>2, <3>2, <3>4, <1>1, <2>1, <2>4
    <3> QED
      BY <3>3, <3>4
  <2>10. Reach'
    <3> SUFFICES ASSUME at # -1, ~inserted, NEW j \in DOMAIN page', IsMedia(page'[j])
                 PROVE  j <= at + 1
      BY <1>2 DEF Reach, IsMedia, Holding
    <3>1. i = at + 1 /\ at \in Nat /\ j \in Nat
      BY <1>1, <2>4 DEF i
    <3>2. CASE j < i
      BY <3>1, <3>2
    <3>3. CASE j = i
      BY <3>1, <3>3
    <3>4. CASE j > i
      <4>1. j - 1 \in DOMAIN page /\ page'[j] = page[j - 1]
        BY <3>4, <1>1, <2>1, <2>4
      <4>2. j - 1 <= at
        BY <4>1, <1>1 DEF IInv, Reach, Holding
      <4> QED
        BY <4>2, <3>1
    <3> QED
      BY <3>1, <3>2, <3>3, <3>4
  <2> QED
    BY <2>4, <2>5, <2>6, <2>7, <2>8, <2>9, <2>10 DEF IInv
<1> QED
  BY <1>3, <1>4 DEF Create, docVars

\* The token goes into the block in hand, and a file is reported only once
\* its block holds it.
LEMMA AttachStep ==
  ASSUME IInv, NEW o \in Outcomes, Attach(o)
  PROVE  IInv'
<1>1. /\ Types /\ Numbers /\ at \in Nat \cup {-1} /\ arg \in Nat /\ arg > 0
      /\ mine \in Nat /\ mine > 0 /\ mine < fresh /\ fresh \in Nat
      /\ printed \in Seq(Nat) /\ arg = Len(printed) + 1 /\ DOMAIN printed = 1 .. Len(printed)
      /\ DOMAIN token \subseteq Nat /\ \A n \in DOMAIN token : token[n] \in Nat
      /\ token = [n \in DOMAIN token |-> token[n]]
      /\ page \in Seq(Blocks) /\ DOMAIN page \subseteq Nat
      /\ pc = "attach" /\ pc \in Holding /\ Len(printed) \in Nat
  BY DEF IInv, Types, Hand, Attach, Holding
<1>2. /\ page' = page /\ fresh' = fresh /\ others' = others /\ inserted' = inserted
      /\ kind' = kind /\ leftover' = leftover /\ unanswered' = unanswered
      /\ token' = IF Took(o) /\ mine \in DOMAIN token
                    THEN [token EXCEPT ![mine] = arg] ELSE token
  BY DEF Attach, otherVars
<1>3. /\ DOMAIN token' = DOMAIN token
      /\ \A n \in DOMAIN token : n # mine => token'[n] = token[n]
      /\ mine \in DOMAIN token => token'[mine] \in {token[mine], arg}
      /\ o = "ok" /\ mine \in DOMAIN token => token'[mine] = arg
      /\ token' = [n \in DOMAIN token' |-> token'[n]]
  BY <1>1, <1>2 DEF Took
<1>4. Numbers'
  BY <1>2, <1>3 DEF IInv, Numbers, MediaName, CreatedBlock, View, Media
<1>5. \A n \in DOMAIN token' : token'[n] \in Nat
  BY <1>1, <1>3
<1>6. CASE o = "ok" /\ mine \in DOMAIN token
  <2>1. /\ printed' = Append(printed, mine) /\ arg' = arg + 1 /\ at' = NextAt /\ mine' = 0
        /\ pc' \in {"done", "stat"}
    BY <1>6 DEF Attach
  <2>2. /\ printed' \in Seq(Nat) /\ Len(printed') = arg /\ DOMAIN printed' = 1 .. arg
        /\ \A k \in 1 .. arg : printed'[k] = IF k = arg THEN mine ELSE printed[k]
    BY <1>1, <2>1, AppendProperties
  <2>3. at' \in Nat \cup {-1} /\ (at = -1 <=> at' = -1) /\ (at # -1 => at' = at + 1)
    BY <1>1, <2>1 DEF NextAt
  <2>4. Types'
    <3>1. arg' \in Nat /\ arg' > 0 /\ mine' \in Nat /\ arg' = Len(printed') + 1
      BY <1>1, <2>1, <2>2
    <3>2. pc' \in {"resolve", "stat", "create"} \cup Holding \cup Ended
      BY <2>1 DEF Ended
    <3> QED
      BY <1>2, <1>3, <1>5, <2>2, <2>3, <3>1, <3>2 DEF IInv, Types
  <2>5. Unfilled'
    <3> SUFFICES ASSUME NEW n \in DOMAIN token, token'[n] = NoFile
                 PROVE  n \in unanswered
      BY <1>2, <1>3 DEF Unfilled
    <3>1. n # mine
      BY <1>1, <1>3, <1>6 DEF NoFile
    <3>2. token[n] = NoFile
      BY <3>1, <1>3
    <3> QED
      BY <3>1, <3>2, <1>1 DEF IInv, Unfilled, Ended
  <2>6. Hand'
    <3>1. \A k \in DOMAIN printed : printed[k] > 0 /\ printed[k] < mine /\ printed[k] \in Nat
      BY <1>1 DEF IInv, Hand, Types
    <3>0. \A k \in DOMAIN printed' :
            \/ k = arg /\ printed'[k] = mine
            \/ k \in DOMAIN printed /\ printed'[k] = printed[k] /\ k < arg
      BY <1>1, <2>2
    <3>2. \A k \in DOMAIN printed' : printed'[k] > 0 /\ printed'[k] < fresh'
      <4> SUFFICES ASSUME NEW k \in DOMAIN printed'
                   PROVE  printed'[k] > 0 /\ printed'[k] < fresh'
        OBVIOUS
      <4>1. printed'[k] = mine \/ (printed'[k] \in Nat /\ printed'[k] > 0 /\ printed'[k] < mine)
        BY <3>0, <3>1
      <4> QED
        BY <4>1, <1>1, <1>2
    <3>3. \A j, k \in DOMAIN printed' : j < k => printed'[j] < printed'[k]
      <4> SUFFICES ASSUME NEW j \in DOMAIN printed', NEW k \in DOMAIN printed', j < k
                   PROVE  printed'[j] < printed'[k]
        OBVIOUS
      <4>0. j # arg
        BY <1>1, <2>2
      <4>1. j \in DOMAIN printed /\ printed'[j] = printed[j]
        BY <4>0, <3>0
      <4> QED
        BY <4>1, <3>0, <3>1 DEF IInv, Hand
    <3> QED
      BY <1>1, <1>2, <2>1, <3>2, <3>3 DEF Hand, Holding
  <2>7. Reported'
    <3> SUFFICES ASSUME NEW k \in 1 .. arg
                 PROVE  /\ printed'[k] \in DOMAIN token' => token'[printed'[k]] = k
                        /\ printed'[k] \notin DOMAIN token' => others' > 0
      BY <2>2 DEF Reported
    <3>1. CASE k = arg
      BY <3>1, <1>3, <1>6, <2>2
    <3>2. CASE k # arg
      <4>1. k \in DOMAIN printed /\ printed'[k] = printed[k]
        BY <3>2, <1>1, <2>2
      <4>2. printed[k] # mine
        BY <4>1, <1>1 DEF IInv, Hand, Types
      <4> QED
        BY <4>1, <4>2, <1>2, <1>3 DEF IInv, Reported
    <3> QED
      BY <3>1, <3>2
  <2>8. Sorted'
    BY <1>2, <2>3 DEF IInv, Sorted
  <2>9. Reach'
    <3> SUFFICES ASSUME at # -1, ~inserted, NEW i \in DOMAIN page, IsMedia(page[i])
                 PROVE  i <= at'
      BY <1>2, <2>1, <2>3 DEF Reach, IsMedia, Holding
    <3> QED
      BY <1>1, <2>3 DEF IInv, Reach
  <2> QED
    BY <1>4, <2>4, <2>5, <2>6, <2>7, <2>8, <2>9 DEF IInv
<1>7. CASE ~(o = "ok" /\ mine \in DOMAIN token)
  <2>1. printed' = printed /\ arg' = arg /\ at' = at /\ mine' = mine /\ pc' = "find"
    BY <1>7 DEF Attach
  <2>2. Types'
    BY <1>2, <1>3, <1>5, <2>1 DEF IInv, Types, Holding
  <2>3. Unfilled'
    BY <1>1, <1>2, <1>3, <2>1 DEF IInv, Unfilled, Holding, Ended
  <2>4. Hand'
    BY <1>1, <1>2, <2>1 DEF IInv, Hand, Holding
  <2>5. Reported'
    <3>1. \A k \in DOMAIN printed : printed[k] # mine
      BY <1>1 DEF IInv, Hand, Types
    <3> QED
      BY <1>2, <1>3, <2>1, <3>1 DEF IInv, Reported
  <2>6. Sorted' /\ Reach'
    BY <1>1, <1>2, <2>1 DEF IInv, Sorted, Reach, Holding
  <2> QED
    BY <1>4, <2>2, <2>3, <2>4, <2>5, <2>6 DEF IInv
<1> QED
  BY <1>6, <1>7

\* The rollback takes out the block in hand, or the message names it.
LEMMA DeleteStep ==
  ASSUME IInv, NEW o \in Outcomes, Delete(o)
  PROVE  IInv'
<1>1. /\ Types /\ Numbers /\ mine \in Nat /\ mine > 0 /\ mine < fresh
      /\ kind \in {"image", "file"}
      /\ DOMAIN token \subseteq Nat /\ \A n \in DOMAIN token : token[n] \in Nat
      /\ page \in Seq(Blocks) /\ pc = "delete" /\ pc \in Holding
  BY DEF IInv, Types, Hand, Delete, Holding
<1>2. /\ fresh' = fresh /\ others' = others /\ inserted' = inserted /\ kind' = kind
      /\ at' = at /\ arg' = arg /\ mine' = mine /\ printed' = printed
      /\ unanswered' = unanswered /\ pc' = "failed"
      /\ leftover' = IF o = "ok" THEN 0 ELSE mine
      /\ IF Took(o) THEN RemoveBlock(RollbackBlock) ELSE UNCHANGED <<page, token>>
  BY DEF Delete, otherVars
<1>3. ASSUME Took(o)
      PROVE  /\ page' \in Seq(Blocks)
             /\ DOMAIN token' = DOMAIN token \ {mine}
             /\ \A n \in DOMAIN token' : n \in DOMAIN token /\ token'[n] = token[n]
             /\ token' = [n \in DOMAIN token' |-> token'[n]]
             /\ Numbers' /\ Sorted' /\ Reach'
  <2>1. /\ RollbackBlock = CreatedBlock(mine) /\ RollbackBlock[2] = mine
        /\ RollbackBlock[1] # "text" /\ RemoveBlock(RollbackBlock)
    BY <1>1, <1>2, <1>3, CreatedFields DEF RollbackBlock, IsMedia
  <2> DEFINE b == RollbackBlock
  <2>2. \E n \in Nat : b = CreatedBlock(n)
    BY <1>1, <2>1
  <2>3. b[2] = mine /\ b[1] # "text" /\ RemoveBlock(b)
    BY <2>1
  <2> HIDE DEF b
  <2>4. /\ page' \in Seq(Blocks)
        /\ DOMAIN token' = DOMAIN token \ (IF b[1] = "text" THEN {} ELSE {b[2]})
        /\ \A n \in DOMAIN token' : n \in DOMAIN token /\ token'[n] = token[n]
        /\ token' = [n \in DOMAIN token' |-> token'[n]]
        /\ \E f \in [DOMAIN page' -> DOMAIN page] :
             /\ \A j \in DOMAIN page' : page'[j] = page[f[j]] /\ j <= f[j]
             /\ \A j, k \in DOMAIN page' : j < k <=> f[j] < f[k]
        /\ Numbers'
    BY <1>1, <1>2, <2>2, <2>3, RemoveStep
  <2>5. Sorted' /\ Reach'
    BY <1>1, <1>2, <2>4, RemovalKeeps
  <2>6. DOMAIN token' = DOMAIN token \ {mine}
    BY <2>3, <2>4
  <2> QED
    BY <2>4, <2>5, <2>6
<1>4. ASSUME ~Took(o)
      PROVE  /\ page' = page /\ token' = token
             /\ Numbers' /\ Sorted' /\ Reach'
  <2>1. page' = page /\ token' = token
    BY <1>2, <1>4
  <2>2. Numbers'
    BY <1>2, <2>1 DEF IInv, Numbers, MediaName, CreatedBlock, View, Media
  <2>3. Sorted' /\ Reach'
    BY <1>1, <1>2, <2>1 DEF IInv, Sorted, Reach
  <2> QED
    BY <2>1, <2>2, <2>3
<1>5. /\ page' \in Seq(Blocks)
      /\ \A n \in DOMAIN token' : n \in DOMAIN token /\ token'[n] = token[n]
      /\ token' = [n \in DOMAIN token' |-> token'[n]]
      /\ Took(o) => mine \notin DOMAIN token'
      /\ DOMAIN token \subseteq DOMAIN token' \cup {mine}
  <2>1. CASE Took(o)
    BY <2>1, <1>3
  <2>2. CASE ~Took(o)
    <3>1. page' = page /\ token' = token
      BY <2>2, <1>4
    <3> QED
      BY <3>1, <2>2, <1>1 DEF Types
  <2> QED
    BY <2>1, <2>2
<1>10. Numbers' /\ Sorted' /\ Reach'
  BY <1>3, <1>4
<1>6. Types'
  BY <1>1, <1>2, <1>5 DEF Types, Ended
<1>7. Unfilled'
  <2>1. \A n \in DOMAIN token' : token'[n] = NoFile => n \in unanswered \/ n = mine
    BY <1>1, <1>5 DEF IInv, Unfilled, Holding, Ended
  <2>2. o = "ok" => mine \notin DOMAIN token'
    BY <1>5 DEF Took
  <2> QED
    BY <1>2, <2>1, <2>2 DEF Unfilled, Ended
<1>8. Hand'
  BY <1>1, <1>2 DEF IInv, Hand, Holding
<1>9. Reported'
  <2>1. \A k \in DOMAIN printed : printed[k] # mine
    BY <1>1 DEF IInv, Hand, Types
  <2> QED
    BY <1>2, <1>5, <2>1 DEF IInv, Reported
<1> QED
  BY <1>6, <1>7, <1>8, <1>9, <1>10 DEF IInv

-----------------------------------------------------------------------------
(* The theorems.                                                           *)

\* Every step of the command, of the server and of the colleague keeps it.
LEMMA NextInv == IInv /\ [Next]_vars => IInv'
<1> SUFFICES ASSUME IInv, [Next]_vars PROVE IInv'
  OBVIOUS
<1>1. ASSUME NEW i \in 1 .. Len(page) + 1, ColleagueInserts(i) PROVE IInv'
  BY <1>1, ColleagueInsertsStep
<1>2. ASSUME NEW b \in ToSet(page), ColleagueDeletes(b) PROVE IInv'
  BY <1>2, ColleagueDeletesStep
<1>3. CASE Stat \/ Open
  BY <1>3, QuietStep
<1>4. ASSUME NEW o \in Outcomes, Create(o) PROVE IInv'
  BY <1>4, CreateStep
<1>5. ASSUME NEW o \in Outcomes, Resolve(o) \/ Upload(o) \/ FindParent(o) PROVE IInv'
  BY <1>5, QuietStep
<1>6. ASSUME NEW o \in Outcomes, Attach(o) PROVE IInv'
  BY <1>6, AttachStep
<1>7. ASSUME NEW o \in Outcomes, Delete(o) PROVE IInv'
  BY <1>7, DeleteStep
<1>8. CASE UNCHANGED vars
  BY <1>8 DEF vars, docVars, otherVars, toldVars, IInv, Types, Numbers, Unfilled, Hand, Reported,
              Sorted, Reach, MediaName, CreatedBlock, View, Media
<1> QED
  BY <1>1, <1>2, <1>3, <1>4, <1>5, <1>6, <1>7, <1>8 DEF Next

\* The strengthening holds in every state that can be reached.
THEOREM Invariance == Spec => []IInv
BY InitInv, NextInv, PTL DEF Spec

\* When the command has ended, every broken block on the page is the one its
\* error message names, or one whose creation was never answered.
THEOREM NothingBrokenUntold == Spec => []NoScar
<1>1. IInv => NoScar
  <2> SUFFICES ASSUME IInv, pc \in Ended, NEW b \in ToSet(page), b[1] # "text", Broken(b[2])
               PROVE  b[2] = leftover \/ b[2] \in unanswered
    BY DEF NoScar
  <2>1. b[2] \in DOMAIN token
    BY DEF IInv, Numbers, ToSet, IsMedia
  <2> QED
    BY <2>1 DEF IInv, Unfilled, Broken
<1> QED
  BY <1>1, Invariance, PTL

\* A file that was reported is where it was reported to be, unless the
\* colleague has taken it out.
THEOREM ReportedStays == Spec => []ReportedHolds
<1>1. IInv => ReportedHolds
  BY DEF IInv, Reported, ReportedHolds
<1> QED
  BY <1>1, Invariance, PTL

\* The files are on the page in the order of the arguments, whatever the
\* colleague deletes.
THEOREM InArgumentOrder == Spec => []ArgumentOrder
<1>1. IInv => ArgumentOrder
  <2> SUFFICES ASSUME IInv, at = -1 \/ ~inserted,
                      NEW j \in DOMAIN printed, NEW k \in DOMAIN printed, j < k,
                      printed[j] \in DOMAIN token, printed[k] \in DOMAIN token
               PROVE  Place(printed[j]) < Place(printed[k])
    BY DEF ArgumentOrder
  <2>1. ASSUME NEW n \in DOMAIN token
        PROVE  /\ Place(n) \in DOMAIN page
               /\ IsMedia(page[Place(n)]) /\ page[Place(n)][2] = n
    <3>1. n \in Nat /\ kind \in {"image", "file"}
      BY DEF IInv, Types
    <3>2. Place(n) \in DOMAIN page /\ page[Place(n)] = CreatedBlock(n)
      BY DEF IInv, Numbers, Place
    <3> QED
      BY <3>1, <3>2, CreatedFields
  <2>2. printed[j] < printed[k]
    BY DEF IInv, Hand
  <2> QED
    BY <2>1, <2>2 DEF IInv, Sorted
<1> QED
  BY <1>1, Invariance, PTL
=============================================================================
