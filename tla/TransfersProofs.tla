--------------------------- MODULE TransfersProofs ---------------------------
(***************************************************************************)
(* Proofs about Transfers, for every number of processes, images, pieces,  *)
(* polls and releases, with every outcome and fault: the program can be    *)
(* run at any time, no command reports what the server has not said, and   *)
(* every file that is not complete is accounted for.                       *)
(***************************************************************************)
EXTENDS Transfers, FiniteSetTheorems, FunctionTheorems, SequenceTheorems, TLAPS

Up(p) == kind[p] = "upgrade"

\* The files that the other commands write.
Others == Names \ {Binary, Temp}

\* The stages of a command of kind k.
StagesOf(k) ==
  CASE k \in {"docs_export", "sheets_export", "im_download"} -> {"create", "poll", "open"}
    [] k = "drive_import" -> {"upload", "create", "poll"}
    [] k \in {"drive_download", "drive_media"} -> {"open"}
    [] k = "images" -> {"list", "open"}
    [] k = "sheet_images" -> {"list", "create", "poll", "fetch", "open"}
    [] OTHER -> {"request", "open"}

Types ==
  /\ kind \in [Procs -> Kinds]
  /\ \A p \in Procs : pc[p] \in StagesOf(kind[p]) \cup {"copy"} \cup Ended
  /\ DOMAIN pc = Procs /\ DOMAIN job = Procs /\ DOMAIN told = Procs
  /\ todo \in [Procs -> Seq(Names)]
  /\ fd \in [Procs -> Inodes \cup {NoFile}] /\ off \in [Procs -> 0..Chunks]
  /\ release \in 1..Releases /\ body \in [Procs -> 1..release]
  /\ dir \in [Names -> Inodes \cup {NoFile}]
  /\ data \in [Inodes -> [1..Chunks -> 0..Releases]]
  /\ last \in [Names -> Procs \cup {Nobody}] /\ overlapped \subseteq Procs

\* What a process has still to fill, and what it has open.
Work ==
  \A p \in Procs :
    /\ (fd[p] # NoFile) <=> (pc[p] = "copy")
    /\ Up(p) => todo[p] \in Seq({Temp})
    /\ ~Up(p) => todo[p] \in Seq(Others)
    /\ kind[p] = "drive_import" => pc[p] # "copy"
    /\ kind[p] # "drive_import" /\ pc[p] \notin Ended => todo[p] # << >>

Upgrading(p) == Up(p) /\ pc[p] = "copy"

\* No two names for one inode.
Distinct == \A m, n \in Names : m # n /\ dir[m] # NoFile => dir[m] # dir[n]

\* The other commands write neither the program nor the temporary file.
Separate ==
  /\ dir[Binary] # NoFile
  /\ Distinct
  /\ \A p \in Procs : ~Up(p) /\ fd[p] # NoFile => fd[p] \notin {dir[Binary], dir[Temp]}

\* An upgrade that no other overlaps with writes the temporary file, and it alone.
Alone ==
  \A p \in Procs : Upgrading(p) /\ p \notin overlapped =>
    /\ dir[Temp] = fd[p]
    /\ \A q \in Procs : Upgrading(q) => q = p
    /\ \A c \in 1..off[p] : data[fd[p]][c] = body[p]

\* The temporary file is what the upgrade that opened it last has left of it.
TempState ==
  dir[Temp] # NoFile =>
    \E w \in Procs :
      /\ w = last[Temp] /\ Up(w) /\ (fd[w] = dir[Temp] \/ pc[w] \in Ended)
      /\ release = 1 => \A c \in 1..off[w] : data[dir[Temp]][c] = 1
      /\ \A p \in Procs : p # w /\ Upgrading(p) => w \in overlapped

\* A piece of the program is missing only when one of two upgrades at the same time
\* has not written it.
Program ==
  /\ (\A q \in overlapped : ~Up(q)) => Whole(Binary)
  /\ release = 1 =>
       \A c \in 1..Chunks :
         \/ data[dir[Binary]][c] = 1
         \/ \E q \in overlapped : Up(q) /\ off[q] < c /\ (fd[q] = dir[Binary] \/ pc[q] \in Ended)

Disk == Separate /\ Alone /\ TempState /\ Program

-----------------------------------------------------------------------------
(* Constants.                                                              *)

\* What the assumption says of the constants.
LEMMA Constants ==
  /\ IsFiniteSet(Procs) /\ Nobody \notin Procs
  /\ NImages \in Nat \ {0} /\ Chunks \in Nat \ {0} /\ MaxPolls \in Nat \ {0}
  /\ Releases \in Nat \ {0}
  /\ \A m \in Mixes : m \in [Procs -> Kinds]
  BY TransfersAssumption DEF Nobody

\* The program, the temporary file and the files of the other commands are distinct.
LEMMA NamesFacts ==
  /\ Binary \in Names /\ Temp \in Names /\ Out \in Others /\ InSheet \in Others
  /\ Binary # Temp /\ Binary \notin Others /\ Temp \notin Others /\ Temp # InSheet
  /\ \A i \in 1..NImages : Png(i) \in Others /\ Jpg(i) \in Others
  /\ \A n \in Names : n = Binary \/ n = Temp \/ n \in Others
  /\ Others \subseteq Names
  BY DEF Names, Others, Pictures, Binary, Temp, Out, InSheet, Png, Jpg

\* There are finitely many names.
LEMMA NamesFinite == IsFiniteSet(Names) /\ Cardinality(Names) \in Nat /\ Cardinality(Names) >= 2
  <1> DEFINE I == 1..NImages
             pngs == {Png(i) : i \in I}
             jpgs == {Jpg(i) : i \in I}
  <1>1. IsFiniteSet(I)
    BY Constants, FS_Interval
  <1>2. [i \in I |-> Png(i)] \in Surjection(I, pngs) /\ [i \in I |-> Jpg(i)] \in Surjection(I, jpgs)
    BY DEF Surjection
  <1>3. IsFiniteSet(pngs) /\ IsFiniteSet(jpgs)
    BY <1>1, <1>2, FS_Surjection
  <1>4. IsFiniteSet({Out, Binary, Temp}) /\ IsFiniteSet({InSheet})
    <2>1. {Out, Binary, Temp} = ({Out} \cup {Binary}) \cup {Temp}
      OBVIOUS
    <2>2. /\ IsFiniteSet({Out}) /\ IsFiniteSet({Binary})
          /\ IsFiniteSet({Temp}) /\ IsFiniteSet({InSheet})
      BY FS_Singleton
    <2>3. IsFiniteSet({Out} \cup {Binary})
      BY <2>2, FS_Union
    <2>4. IsFiniteSet(({Out} \cup {Binary}) \cup {Temp})
      BY <2>2, <2>3, FS_Union
    <2> QED BY <2>1, <2>2, <2>4
  <1>5. IsFiniteSet(pngs \cup jpgs)
    BY <1>3, FS_Union
  <1>6. IsFiniteSet(Pictures)
    BY <1>4, <1>5, FS_Union DEF Pictures
  <1>7. IsFiniteSet(Names)
    BY <1>4, <1>6, FS_Union DEF Names
  <1>8. Cardinality(Names) \in Nat
    BY <1>7, FS_CardinalityType
  <1>9. {Binary} \cup {Temp} \subseteq Names
    BY NamesFacts
  <1>10. IsFiniteSet({Binary}) /\ Cardinality({Binary}) = 1
    BY FS_Singleton
  <1>11. Cardinality({Binary} \cup {Temp}) = 2
    <2>1. Temp \notin {Binary}
      BY NamesFacts
    <2>2. Cardinality({Binary} \cup {Temp}) = Cardinality({Binary}) + 1
      BY <1>10, <2>1, FS_AddElement
    <2> QED BY <1>10, <2>2
  <1> QED BY <1>7, <1>8, <1>9, <1>11, FS_Subset

\* Inodes are numbers; 0 is none.
LEMMA InodesFacts ==
  /\ Cardinality(Procs) \in Nat
  /\ Inodes = 1..(Cardinality(Names) + Cardinality(Procs))
  /\ 1 \in Inodes /\ 2 \in Inodes /\ NoFile \notin Inodes
  <1>1. Cardinality(Procs) \in Nat
    BY Constants, FS_CardinalityType
  <1> QED BY <1>1, NamesFinite DEF Inodes, NoFile

\* The values of a function on all of a finite set but one element are fewer.
LEMMA SmallImage ==
  ASSUME NEW S, IsFiniteSet(S), NEW x \in S, NEW f, NEW T,
         \A t \in T : \E y \in S \ {x} : t = f[y]
  PROVE  IsFiniteSet(T) /\ Cardinality(T) \in Nat /\ Cardinality(T) < Cardinality(S)
  <1> DEFINE R == S \ {x}
             U == {f[y] : y \in R}
  <1>1. IsFiniteSet(R) /\ Cardinality(R) = Cardinality(S) - 1
    BY FS_RemoveElement
  <1>2. [y \in R |-> f[y]] \in Surjection(R, U)
    BY DEF Surjection
  <1>3. IsFiniteSet(U) /\ Cardinality(U) <= Cardinality(R)
    BY <1>1, <1>2, FS_Surjection
  <1>4. T \subseteq U
    OBVIOUS
  <1>5. IsFiniteSet(T) /\ Cardinality(T) <= Cardinality(U)
    BY <1>3, <1>4, FS_Subset
  <1>6. Cardinality(T) \in Nat /\ Cardinality(U) \in Nat /\ Cardinality(S) \in Nat
    BY <1>3, <1>5, FS_CardinalityType
  <1> HIDE DEF R, U
  <1> QED BY <1>1, <1>3, <1>5, <1>6

\* A union is at most as large as its parts together.
LEMMA UnionBound ==
  ASSUME NEW A, IsFiniteSet(A), NEW B, IsFiniteSet(B)
  PROVE  /\ IsFiniteSet(A \cup B) /\ Cardinality(A \cup B) \in Nat
         /\ Cardinality(A \cup B) <= Cardinality(A) + Cardinality(B)
  <1>1. IsFiniteSet(A \cap B)
    BY FS_Intersection
  <1>2. Cardinality(A \cap B) \in Nat /\ Cardinality(A) \in Nat /\ Cardinality(B) \in Nat
    BY <1>1, FS_CardinalityType
  <1>3. IsFiniteSet(A \cup B)
        /\ Cardinality(A \cup B) = Cardinality(A) + Cardinality(B) - Cardinality(A \cap B)
    BY FS_Union
  <1>4. Cardinality(A \cup B) \in Nat
    BY <1>3, FS_CardinalityType
  <1>5. \A a, b, c \in Nat : a + b - c <= a + b
    OBVIOUS
  <1> QED BY <1>2, <1>3, <1>4, <1>5

\* A process that creates a file finds an unused inode.
LEMMA UnusedExists ==
  ASSUME Types, NEW p \in Procs, NEW n \in Names, fd[p] = NoFile, dir[n] = NoFile
  PROVE  \E i \in Inodes : i \in Unused
  <1> DEFINE A == {dir[m] : m \in Names \ {n}}
             B == {fd[q] : q \in Procs \ {p}}
  <1>1. \A t \in A : \E m \in Names \ {n} : t = dir[m]
    OBVIOUS
  <1>2. \A t \in B : \E q \in Procs \ {p} : t = fd[q]
    OBVIOUS
  <1>3. SUFFICES ASSUME \A i \in Inodes : i \notin Unused PROVE FALSE
    OBVIOUS
  <1>4. Inodes \subseteq A \cup B
    BY <1>3, InodesFacts DEF Unused
  <1> HIDE DEF A, B
  <1>5. IsFiniteSet(A) /\ Cardinality(A) \in Nat /\ Cardinality(A) < Cardinality(Names)
    BY <1>1, NamesFinite, SmallImage
  <1>6. IsFiniteSet(B) /\ Cardinality(B) \in Nat /\ Cardinality(B) < Cardinality(Procs)
    BY <1>2, Constants, SmallImage
  <1>7. IsFiniteSet(A \cup B) /\ Cardinality(A \cup B) \in Nat
        /\ Cardinality(A \cup B) <= Cardinality(A) + Cardinality(B)
    BY <1>5, <1>6, UnionBound
  <1>8. Cardinality(Inodes) = Cardinality(Names) + Cardinality(Procs)
    BY InodesFacts, NamesFinite, FS_Interval
  <1>9. Cardinality(Inodes) <= Cardinality(A \cup B)
    BY <1>4, <1>7, FS_Subset
  <1> QED BY <1>5, <1>6, <1>7, <1>8, <1>9, InodesFacts, NamesFinite

-----------------------------------------------------------------------------
(* Commands.                                                               *)

\* The member after one of a sequence of stages, or done after the last.
LEMMA NextStage ==
  ASSUME NEW R, NEW s \in Seq(R), NEW x, \E j \in 1..Len(s) : s[j] = x
  PROVE  LET i == CHOOSE j \in DOMAIN s : s[j] = x
         IN (IF i = Len(s) THEN "done" ELSE s[i + 1]) \in R \cup {"done"}
  <1> DEFINE i == CHOOSE j \in DOMAIN s : s[j] = x
  <1>1. DOMAIN s = 1..Len(s) /\ Len(s) \in Nat
    OBVIOUS
  <1>2. i \in 1..Len(s)
    BY <1>1
  <1> HIDE DEF i
  <1>3. \A n \in Nat : \A m \in 1..n : m # n => m + 1 \in 1..n
    OBVIOUS
  <1>4. \A j \in 1..Len(s) : s[j] \in R
    OBVIOUS
  <1>5. (IF i = Len(s) THEN "done" ELSE s[i + 1]) \in R \cup {"done"}
    BY <1>1, <1>2, <1>3, <1>4
  <1> QED BY <1>5 DEF i

\* The members of R are those of the sequence s.
Lists(s, R) ==
  s \in Seq(R) /\ s # << >> /\ \A x \in R : \E j \in 1..Len(s) : s[j] = x

\* The members of a sequence that is written out.
LEMMA ShortLists ==
  /\ \A a : Lists(<<a>>, {a})
  /\ \A a, b : Lists(<<a, b>>, {a, b})
  /\ \A a, b, c : Lists(<<a, b, c>>, {a, b, c})
  /\ \A a, b, c, d, e : Lists(<<a, b, c, d, e>>, {a, b, c, d, e})
  <1>1. ASSUME NEW a PROVE Lists(<<a>>, {a})
    <2>1. <<a>>[1] = a /\ 1 \in 1..Len(<<a>>)
      OBVIOUS
    <2> QED BY <2>1 DEF Lists
  <1>2. ASSUME NEW a, NEW b PROVE Lists(<<a, b>>, {a, b})
    <2> DEFINE s == <<a, b>>
    <2>1. /\ s[1] = a /\ s[2] = b /\ s # << >> /\ s \in Seq({a, b})
          /\ 1 \in 1..Len(s) /\ 2 \in 1..Len(s)
      OBVIOUS
    <2> HIDE DEF s
    <2> QED BY <2>1 DEF Lists, s
  <1>3. ASSUME NEW a, NEW b, NEW c PROVE Lists(<<a, b, c>>, {a, b, c})
    <2> DEFINE s == <<a, b, c>>
    <2>1. /\ s[1] = a /\ s[2] = b /\ s[3] = c /\ s # << >> /\ s \in Seq({a, b, c})
          /\ 1 \in 1..Len(s) /\ 2 \in 1..Len(s) /\ 3 \in 1..Len(s)
      OBVIOUS
    <2> HIDE DEF s
    <2>2. Lists(s, {a, b, c})
      BY <2>1 DEF Lists
    <2> QED BY <2>2 DEF s
  <1>4. ASSUME NEW a, NEW b, NEW c, NEW d, NEW e
        PROVE  Lists(<<a, b, c, d, e>>, {a, b, c, d, e})
    <2> DEFINE s == <<a, b, c, d, e>>
    <2>1. /\ s[1] = a /\ s[2] = b /\ s[3] = c /\ s[4] = d /\ s[5] = e
          /\ s # << >> /\ s \in Seq({a, b, c, d, e})
          /\ 1 \in 1..Len(s) /\ 2 \in 1..Len(s) /\ 3 \in 1..Len(s)
          /\ 4 \in 1..Len(s) /\ 5 \in 1..Len(s)
      OBVIOUS
    <2> HIDE DEF s
    <2>2. Lists(s, {a, b, c, d, e})
      BY <2>1 DEF Lists
    <2> QED BY <2>2 DEF s
  <1> QED BY <1>1, <1>2, <1>3, <1>4

\* StagesOf names the stages of each command.
LEMMA StagesFacts ==
  ASSUME NEW p, kind[p] \in Kinds
  PROVE  Lists(Profile(p).stages, StagesOf(kind[p]))
  <1> DEFINE k == kind[p]
             s == Profile(p).stages
  <1>1. CASE k \in {"docs_export", "sheets_export", "im_download"}
    <2>1. s = <<"create", "poll", "open">>
      BY <1>1 DEF Profile, DocsExport, SheetsExport, ImDownload
    <2>2. StagesOf(k) = {"create", "poll", "open"}
      BY <1>1 DEF StagesOf
    <2>3. Lists(<<"create", "poll", "open">>, {"create", "poll", "open"})
      BY ShortLists
    <2> QED BY <2>1, <2>2, <2>3
  <1>2. CASE k = "drive_import"
    <2>1. s = <<"upload", "create", "poll">>
      BY <1>2 DEF Profile, DriveImport
    <2>2. StagesOf(k) = {"upload", "create", "poll"}
      BY <1>2 DEF StagesOf
    <2>3. Lists(<<"upload", "create", "poll">>, {"upload", "create", "poll"})
      BY ShortLists
    <2> QED BY <2>1, <2>2, <2>3
  <1>3. CASE k \in {"drive_download", "drive_media"}
    <2>1. s = <<"open">>
      BY <1>3 DEF Profile, DriveDownload, DriveMedia
    <2>2. StagesOf(k) = {"open"}
      BY <1>3 DEF StagesOf
    <2>3. Lists(<<"open">>, {"open"})
      BY ShortLists
    <2> QED BY <2>1, <2>2, <2>3
  <1>4. CASE k = "images"
    <2>1. s = <<"list", "open">>
      BY <1>4 DEF Profile, DocImages
    <2>2. StagesOf(k) = {"list", "open"}
      BY <1>4 DEF StagesOf
    <2>3. Lists(<<"list", "open">>, {"list", "open"})
      BY ShortLists
    <2> QED BY <2>1, <2>2, <2>3
  <1>5. CASE k = "sheet_images"
    <2>1. s = <<"list", "create", "poll", "fetch", "open">>
      BY <1>5 DEF Profile, SheetImages
    <2>2. StagesOf(k) = {"list", "create", "poll", "fetch", "open"}
      BY <1>5 DEF StagesOf
    <2>3. Lists(<<"list", "create", "poll", "fetch", "open">>,
                {"list", "create", "poll", "fetch", "open"})
      BY ShortLists
    <2> QED BY <2>1, <2>2, <2>3
  <1>6. CASE k = "upgrade"
    <2>1. s = <<"request", "open">>
      BY <1>6 DEF Profile, Upgrade
    <2>2. StagesOf(k) = {"request", "open"}
      BY <1>6 DEF StagesOf
    <2>3. Lists(<<"request", "open">>, {"request", "open"})
      BY ShortLists
    <2> QED BY <2>1, <2>2, <2>3
  <1> QED BY <1>1, <1>2, <1>3, <1>4, <1>5, <1>6 DEF Kinds

\* A command starts at one of its stages.
LEMMA FirstStage ==
  ASSUME NEW p, kind[p] \in Kinds
  PROVE  Profile(p).stages[1] \in StagesOf(kind[p])
  <1> DEFINE s == Profile(p).stages
  <1>1. s \in Seq(StagesOf(kind[p])) /\ s # << >>
    BY StagesFacts DEF Lists
  <1> HIDE DEF s
  <1>2. s[1] \in StagesOf(kind[p])
    BY <1>1
  <1> QED BY <1>2 DEF s

\* A stage is followed by a stage of the same command.
LEMMA AfterStage ==
  ASSUME NEW p, kind[p] \in Kinds, pc[p] \in StagesOf(kind[p])
  PROVE  After(p) \in StagesOf(kind[p]) \cup {"done"}
  <1> DEFINE s == Profile(p).stages
  <1>1. s \in Seq(StagesOf(kind[p])) /\ \E j \in 1..Len(s) : s[j] = pc[p]
    BY StagesFacts DEF Lists
  <1> HIDE DEF s
  <1>2. LET i == CHOOSE j \in DOMAIN s : s[j] = pc[p]
        IN (IF i = Len(s) THEN "done" ELSE s[i + 1]) \in StagesOf(kind[p]) \cup {"done"}
    BY <1>1, NextStage
  <1> QED BY <1>2, Zenon DEF After, s

\* An upgrade fills the temporary file, the others never do, and all but imports fill one.
LEMMA FilesFacts ==
  ASSUME NEW p, kind[p] \in Kinds
  PROVE  /\ Up(p) => Profile(p).files \in Seq({Temp})
         /\ ~Up(p) => Profile(p).files \in Seq(Others)
         /\ kind[p] # "drive_import" => Profile(p).files # << >>
         /\ Profile(p).keeps = (kind[p] \notin {"images", "sheet_images", "upgrade"})
  <1> DEFINE k == kind[p]
  <1> USE DEF Profile, Up
  <1>1. <<Temp>> \in Seq({Temp}) /\ <<Temp>> # << >>
    OBVIOUS
  <1>2. <<Out>> \in Seq(Others) /\ <<Out>> # << >> /\ << >> \in Seq(Others)
    BY NamesFacts
  <1>3. [i \in 1..NImages |-> Png(i)] \in Seq(Others) /\ [i \in 1..NImages |-> Png(i)] # << >>
    BY NamesFacts, Constants
  <1>4. CASE k \in {"docs_export", "sheets_export"}
    BY <1>2, <1>4 DEF DocsExport, SheetsExport
  <1>5. CASE k = "drive_import"
    BY <1>2, <1>5 DEF DriveImport
  <1>6. CASE k \in {"drive_download", "drive_media"}
    BY <1>2, <1>6 DEF DriveDownload, DriveMedia
  <1>7. CASE k = "im_download"
    BY <1>2, <1>7 DEF ImDownload
  <1>8. CASE k = "images"
    BY <1>3, <1>8 DEF DocImages, Sequence
  <1>9. CASE k = "sheet_images"
    BY <1>3, <1>9 DEF SheetImages, Sequence
  <1>10. CASE k = "upgrade"
    BY <1>1, <1>10 DEF Upgrade
  <1> QED BY <1>4, <1>5, <1>6, <1>7, <1>8, <1>9, <1>10 DEF Kinds

\* Which commands have which stages.
LEMMA StageMembers ==
  ASSUME NEW k \in Kinds
  PROVE  /\ "create" \in StagesOf(k) => "poll" \in StagesOf(k)
         /\ k # "drive_import" <=> "open" \in StagesOf(k)
         /\ "list" \in StagesOf(k) => k \in {"images", "sheet_images"}
         /\ "fetch" \in StagesOf(k) => k = "sheet_images"
         /\ k = "upgrade" <=> "request" \in StagesOf(k)
         /\ k = "drive_import" <=> "upload" \in StagesOf(k)
         /\ k = "upgrade" => StagesOf(k) = {"request", "open"}
         /\ "create" \in StagesOf(k) \/ "poll" \in StagesOf(k) =>
              k \in {"docs_export", "sheets_export", "im_download", "drive_import", "sheet_images"}
         /\ "copy" \notin StagesOf(k) /\ StagesOf(k) \cap Ended = {}
  BY DEF Kinds, StagesOf, Ended

\* What p fills next.
LEMMA CurrentFile ==
  ASSUME Types, Work, NEW p \in Procs, pc[p] \in {"open", "copy"}
  PROVE  /\ kind[p] # "drive_import" /\ todo[p] # << >>
         /\ Up(p) => Current(p) = Temp
         /\ ~Up(p) => Current(p) \in Others
         /\ Current(p) \in Names
  <1>1. kind[p] \in Kinds /\ pc[p] \in StagesOf(kind[p]) \cup {"copy"} \cup Ended
    BY DEF Types
  <1>2. kind[p] # "drive_import"
    BY <1>1, StageMembers DEF Work, Ended
  <1>3. todo[p] # << >>
    BY <1>2 DEF Work, Ended
  <1>4. Up(p) => Head(todo[p]) = Temp
    BY <1>3 DEF Work
  <1>5. ~Up(p) => Head(todo[p]) \in Others
    BY <1>3 DEF Work
  <1> QED BY <1>2, <1>3, <1>4, <1>5, NamesFacts DEF Current

-----------------------------------------------------------------------------
(* What the actions of a command do to it.                                 *)

\* p goes on, with the files as they are.
Waits(p) ==
  /\ UNCHANGED <<disk, release, kind, fd, off>>
  /\ pc[p] \notin {"copy"} \cup Ended
  /\ DOMAIN pc' = Procs /\ \A q \in Procs \ {p} : pc'[q] = pc[q]
  /\ pc'[p] \in StagesOf(kind[p]) \cup Ended
  /\ todo' = [todo EXCEPT ![p] = todo'[p]]
  /\ \/ todo'[p] = todo[p]
     \/ kind[p] = "sheet_images" /\ todo'[p] = <<InSheet>> \o todo[p]
  /\ body' = [body EXCEPT ![p] = body'[p]] /\ body'[p] \in 1..release

\* p leaves the file that it has open, if any.
Leaves(p) ==
  /\ UNCHANGED <<data, release, kind, off, body, overlapped>>
  /\ pc[p] \notin Ended
  /\ DOMAIN pc' = Procs /\ \A q \in Procs \ {p} : pc'[q] = pc[q]
  /\ \/ pc'[p] \in Ended
     \/ pc[p] \in {"open", "copy"} /\ ~Up(p) /\ pc'[p] = "open"
  /\ todo' = [todo EXCEPT ![p] = todo'[p]]
  /\ \/ todo'[p] = todo[p]
     \/ todo[p] # << >> /\ todo'[p] = Tail(todo[p])
  /\ pc'[p] \notin Ended => todo'[p] # << >>
  /\ fd' = [fd EXCEPT ![p] = NoFile]

\* What Types and Work need of a step.
LEMMA WaitsTypes ==
  ASSUME Types, Work, NEW p \in Procs, Waits(p), DOMAIN job' = Procs, DOMAIN told' = Procs
  PROVE  Types' /\ Work'
  <1>1. kind[p] \in Kinds
    BY DEF Types
  <1>2. todo'[p] \in Seq(Names) /\ (Up(p) => todo'[p] \in Seq({Temp}))
        /\ (~Up(p) => todo'[p] \in Seq(Others)) /\ (todo[p] # << >> => todo'[p] # << >>)
    <2>1. CASE todo'[p] = todo[p]
      BY <2>1 DEF Types, Work
    <2>2. CASE kind[p] = "sheet_images" /\ todo'[p] = <<InSheet>> \o todo[p]
      <3>1. ~Up(p) /\ todo[p] \in Seq(Others)
        BY <2>2 DEF Up, Work
      <3>2. <<InSheet>> \in Seq(Others) /\ Others \subseteq Names
        BY NamesFacts
      <3>3. <<InSheet>> \o todo[p] \in Seq(Others) /\ <<InSheet>> \o todo[p] # << >>
        BY <3>1, <3>2
      <3> QED BY <2>2, <3>1, <3>2, <3>3
    <2> QED BY <2>1, <2>2 DEF Waits
  <1>3. Types'
    <2>1. \A q \in Procs : pc'[q] \in StagesOf(kind'[q]) \cup {"copy"} \cup Ended
      BY DEF Types, Waits
    <2>2. todo' \in [Procs -> Seq(Names)] /\ body' \in [Procs -> 1..release']
      BY <1>2 DEF Types, Waits
    <2> QED BY <2>1, <2>2 DEF Types, Waits, disk
  <1>4. Work'
    <2> SUFFICES ASSUME NEW q \in Procs
                 PROVE  /\ (fd'[q] # NoFile) <=> (pc'[q] = "copy")
                        /\ Up(q)' => todo'[q] \in Seq({Temp})
                        /\ ~Up(q)' => todo'[q] \in Seq(Others)
                        /\ kind'[q] = "drive_import" => pc'[q] # "copy"
                        /\ kind'[q] # "drive_import" /\ pc'[q] \notin Ended => todo'[q] # << >>
      BY DEF Work
    <2>1. CASE q # p
      <3>1. fd'[q] = fd[q] /\ pc'[q] = pc[q] /\ kind'[q] = kind[q] /\ todo'[q] = todo[q]
        BY <2>1 DEF Waits, Types
      <3> QED BY <3>1 DEF Work, Up
    <2>2. CASE q = p
      <3>1. pc[p] # "copy" /\ pc'[p] # "copy" /\ fd'[p] = fd[p] /\ kind'[p] = kind[p]
            /\ pc[p] \notin Ended
        BY <1>1, StageMembers DEF Waits, Ended
      <3> QED BY <1>2, <2>2, <3>1 DEF Work, Up
    <2> QED BY <2>1, <2>2
  <1> QED BY <1>3, <1>4

\* Leaving a file keeps Types and Work.
LEMMA LeavesTypes ==
  ASSUME Types, Work, NEW p \in Procs, Leaves(p), DOMAIN job' = Procs, DOMAIN told' = Procs,
         dir' \in [Names -> Inodes \cup {NoFile}], last' \in [Names -> Procs \cup {Nobody}]
  PROVE  Types' /\ Work'
  <1>1. kind[p] \in Kinds
    BY DEF Types
  <1>2. todo'[p] \in Seq(Names) /\ (Up(p) => todo'[p] \in Seq({Temp}))
        /\ (~Up(p) => todo'[p] \in Seq(Others))
    <2>1. CASE todo'[p] = todo[p]
      BY <2>1 DEF Types, Work
    <2>2. CASE todo[p] # << >> /\ todo'[p] = Tail(todo[p])
      BY <2>2 DEF Types, Work
    <2> QED BY <2>1, <2>2 DEF Leaves
  <1>3. pc[p] \in {"open", "copy"} => "open" \in StagesOf(kind[p])
    <2>1. pc[p] = "open" => pc[p] \in StagesOf(kind[p])
      BY DEF Types, Ended
    <2>2. pc[p] = "copy" => "open" \in StagesOf(kind[p])
      BY <1>1, StageMembers DEF Work
    <2> QED BY <2>1, <2>2
  <1>4. pc'[p] \in StagesOf(kind[p]) \cup Ended
    BY <1>3 DEF Leaves
  <1>5. Types'
    <2>1. \A q \in Procs : pc'[q] \in StagesOf(kind'[q]) \cup {"copy"} \cup Ended
      BY <1>4 DEF Types, Leaves
    <2>2. todo' \in [Procs -> Seq(Names)]
      BY <1>2 DEF Types, Leaves
    <2>3. fd' \in [Procs -> Inodes \cup {NoFile}]
      BY DEF Types, Leaves
    <2> QED BY <2>1, <2>2, <2>3 DEF Types, Leaves
  <1>6. Work'
    <2> SUFFICES ASSUME NEW q \in Procs
                 PROVE  /\ (fd'[q] # NoFile) <=> (pc'[q] = "copy")
                        /\ Up(q)' => todo'[q] \in Seq({Temp})
                        /\ ~Up(q)' => todo'[q] \in Seq(Others)
                        /\ kind'[q] = "drive_import" => pc'[q] # "copy"
                        /\ kind'[q] # "drive_import" /\ pc'[q] \notin Ended => todo'[q] # << >>
      BY DEF Work
    <2>1. CASE q # p
      <3>1. fd'[q] = fd[q] /\ pc'[q] = pc[q] /\ kind'[q] = kind[q] /\ todo'[q] = todo[q]
        BY <2>1 DEF Leaves, Types
      <3> QED BY <3>1 DEF Work, Up
    <2>2. CASE q = p
      <3>1. pc'[p] # "copy" /\ fd'[p] = NoFile /\ kind'[p] = kind[p]
        BY <1>1, <1>4, StageMembers DEF Leaves, Ended, Types
      <3>2. pc'[p] \notin Ended => todo'[p] # << >>
        BY DEF Leaves
      <3> QED BY <1>2, <2>2, <3>1, <3>2 DEF Up
    <2> QED BY <2>1, <2>2
  <1> QED BY <1>5, <1>6

-----------------------------------------------------------------------------
(* The actions, as steps of these two kinds.                               *)

\* A step that changes nothing but the stage is one of these.
LEMMA WaitsIf ==
  ASSUME Types, NEW p \in Procs, pc[p] \notin {"copy"} \cup Ended,
         NEW s \in StagesOf(kind[p]) \cup Ended,
         pc' = [pc EXCEPT ![p] = s] \/ (pc' = pc /\ pc[p] = s),
         UNCHANGED <<dir, data, last, overlapped, release, kind, todo, fd, off, body>>
  PROVE  Waits(p)
  <1>1. UNCHANGED <<disk, release, kind, fd, off>>
    BY DEF disk
  <1>2. DOMAIN pc' = Procs /\ (\A q \in Procs \ {p} : pc'[q] = pc[q]) /\ pc'[p] = s
    BY DEF Types
  <1>3. todo' = [todo EXCEPT ![p] = todo'[p]] /\ body' = [body EXCEPT ![p] = body'[p]]
    BY DEF Types
  <1>4. body'[p] \in 1..release /\ todo'[p] = todo[p]
    BY DEF Types
  <1>5. pc'[p] \in StagesOf(kind[p]) \cup Ended
    BY <1>2
  <1> QED BY <1>1, <1>2, <1>3, <1>4, <1>5, Zenon DEF Waits

\* List, Upload, Create, Poll, Timeout and Fetch leave the files as they are.
LEMMA ListWaits ==
  ASSUME Types, Work, NEW p \in Procs, NEW o, List(p, o)
  PROVE  Waits(p) /\ DOMAIN job' = Procs /\ DOMAIN told' = Procs
  <1>1. kind[p] \in Kinds /\ pc[p] = "list" /\ "list" \in StagesOf(kind[p])
    <2>1. pc[p] = "list" /\ pc[p] \notin {"copy"} \cup Ended
      BY DEF List, Ended
    <2> QED BY <2>1 DEF Types
  <1>2. After(p) \in StagesOf(kind[p]) \cup {"done"}
    BY <1>1, AfterStage
  <1>3. "open" \in StagesOf(kind[p])
    BY <1>1, StageMembers
  <1>4. \E s \in StagesOf(kind[p]) \cup Ended : pc' = [pc EXCEPT ![p] = s]
    BY <1>2, <1>3, Zenon DEF List, Goes, Ends, Ended
  <1>5. DOMAIN told' = Procs
    BY DEF List, Ends, Types
  <1>6. UNCHANGED <<dir, data, last, overlapped, release, kind, todo, fd, off, body>>
    BY DEF List, filling, disk
  <1>7. Waits(p)
    BY <1>1, <1>4, <1>6, WaitsIf DEF Ended
  <1> QED BY <1>5, <1>7 DEF List, Types

\* So does an upload, which takes the version that it receives.
LEMMA UploadWaits ==
  ASSUME Types, Work, NEW p \in Procs, NEW o, Upload(p, o)
  PROVE  Waits(p) /\ DOMAIN job' = Procs /\ DOMAIN told' = Procs
  <1>1. kind[p] \in Kinds /\ pc[p] \in {"upload", "request"} /\ pc[p] \in StagesOf(kind[p])
    BY DEF Types, Upload, Ended
  <1>2. After(p) \in StagesOf(kind[p]) \cup {"done"}
    BY <1>1, AfterStage
  <1>4. \E s \in StagesOf(kind[p]) \cup Ended : pc' = [pc EXCEPT ![p] = s]
    BY <1>2, Zenon DEF Upload, Goes, Ends, Ended
  <1>5. DOMAIN told' = Procs
    BY DEF Upload, Ends, Types
  <1>6. UNCHANGED <<disk, release, kind, fd, off>> /\ todo' = todo /\ job' = job
    BY DEF Upload
  <1>7. body' = [body EXCEPT ![p] = body'[p]] /\ body'[p] = release /\ release \in 1..release
    BY Constants DEF Upload, Types
  <1>8. todo' = [todo EXCEPT ![p] = todo'[p]]
    BY <1>6 DEF Types
  <1>9. DOMAIN pc' = Procs /\ (\A q \in Procs \ {p} : pc'[q] = pc[q])
        /\ pc'[p] \in StagesOf(kind[p]) \cup Ended
    BY <1>4 DEF Types
  <1>10. DOMAIN job' = Procs
    BY <1>6 DEF Types
  <1>11. pc[p] \notin {"copy"} \cup Ended /\ todo'[p] = todo[p] /\ body'[p] \in 1..release
    BY <1>1, <1>6, <1>7 DEF Ended
  <1> QED BY <1>5, <1>6, <1>7, <1>8, <1>9, <1>10, <1>11, Zenon DEF Waits

\* So does the request that makes a job.
LEMMA CreateWaits ==
  ASSUME Types, Work, NEW p \in Procs, NEW o, Create(p, o)
  PROVE  Waits(p) /\ DOMAIN job' = Procs /\ DOMAIN told' = Procs
  <1>1. kind[p] \in Kinds /\ pc[p] = "create" /\ "create" \in StagesOf(kind[p])
    BY DEF Types, Create, Ended
  <1>2. "poll" \in StagesOf(kind[p])
    BY <1>1, StageMembers
  <1>3. kind[p] \in {"im_download", "sheet_images"} => "open" \in StagesOf(kind[p])
    BY <1>1, StageMembers
  <1>4. \E s \in StagesOf(kind[p]) \cup Ended : pc' = [pc EXCEPT ![p] = s]
    BY <1>2, <1>3, Zenon DEF Create, Goes, Ends, GivesUp, Ended
  <1>5. DOMAIN told' = Procs /\ DOMAIN job' = Procs
    BY DEF Create, Ends, GivesUp, Types
  <1>6. UNCHANGED <<dir, data, last, overlapped, release, kind, todo, fd, off, body>>
    BY DEF Create, filling, disk
  <1>7. Waits(p)
    BY <1>1, <1>4, <1>6, WaitsIf DEF Ended
  <1> QED BY <1>5, <1>7 DEF Create, Types

\* So does a question for the job.
LEMMA PollWaits ==
  ASSUME Types, Work, NEW p \in Procs, NEW o, NEW status, Poll(p, o, status)
  PROVE  Waits(p) /\ DOMAIN job' = Procs /\ DOMAIN told' = Procs
  <1>1. kind[p] \in Kinds /\ pc[p] = "poll" /\ "poll" \in StagesOf(kind[p])
    BY DEF Types, Poll, Ended
  <1>2. After(p) \in StagesOf(kind[p]) \cup {"done"}
    BY <1>1, AfterStage
  <1>3. kind[p] = "sheet_images" => "open" \in StagesOf(kind[p])
    BY <1>1, StageMembers
  <1>4. \E s \in StagesOf(kind[p]) \cup Ended :
          pc' = [pc EXCEPT ![p] = s] \/ (pc' = pc /\ pc[p] = s)
    BY <1>1, <1>2, <1>3, Zenon DEF Poll, Goes, Ends, GivesUp, Ended
  <1>5. DOMAIN told' = Procs
    BY DEF Poll, Ends, GivesUp, Types
  <1>6. UNCHANGED <<dir, data, last, overlapped, release, kind, todo, fd, off, body>>
    BY DEF Poll, filling, disk
  <1>7. Waits(p)
    BY <1>1, <1>4, <1>6, WaitsIf DEF Ended
  <1> QED BY <1>5, <1>7 DEF Poll, Types

\* So does the end of the questions.
LEMMA TimeoutWaits ==
  ASSUME Types, Work, NEW p \in Procs, Timeout(p)
  PROVE  Waits(p) /\ DOMAIN job' = Procs /\ DOMAIN told' = Procs
  <1>1. kind[p] \in Kinds /\ pc[p] = "poll"
    BY DEF Types, Timeout
  <1>2. kind[p] = "sheet_images" => "open" \in StagesOf(kind[p])
    BY <1>1, StageMembers
  <1>4. \E s \in StagesOf(kind[p]) \cup Ended : pc' = [pc EXCEPT ![p] = s]
    BY <1>2, Zenon DEF Timeout, Goes, Ends, GivesUp, Ended
  <1>5. DOMAIN told' = Procs
    BY DEF Timeout, Ends, GivesUp, Types
  <1>6. UNCHANGED <<dir, data, last, overlapped, release, kind, todo, fd, off, body>>
    BY DEF Timeout, filling, disk
  <1>7. Waits(p)
    BY <1>1, <1>4, <1>6, WaitsIf DEF Ended
  <1> QED BY <1>5, <1>7 DEF Timeout, Types

\* So does Fetch, which puts a picture of a cell in front of the others.
LEMMA FetchWaits ==
  ASSUME Types, Work, NEW p \in Procs, NEW o, Fetch(p, o)
  PROVE  Waits(p) /\ DOMAIN job' = Procs /\ DOMAIN told' = Procs
  <1>1. kind[p] \in Kinds /\ pc[p] = "fetch" /\ "fetch" \in StagesOf(kind[p])
    BY DEF Types, Fetch, Ended
  <1>2. kind[p] = "sheet_images" /\ "open" \in StagesOf(kind[p])
    BY <1>1, StageMembers
  <1>3. pc' = [pc EXCEPT ![p] = "open"]
    BY DEF Fetch, Goes
  <1>4. /\ todo' = [todo EXCEPT ![p] = todo'[p]]
        /\ todo'[p] = todo[p] \/ todo'[p] = <<InSheet>> \o todo[p]
    BY DEF Fetch, Types
  <1>5. UNCHANGED <<disk, release, kind, fd, off, body, job, told>>
    BY DEF Fetch, filling
  <1>6. body' = [body EXCEPT ![p] = body'[p]] /\ body'[p] \in 1..release
    BY <1>5 DEF Types
  <1>7. DOMAIN pc' = Procs /\ (\A q \in Procs \ {p} : pc'[q] = pc[q]) /\ pc'[p] = "open"
    BY <1>3 DEF Types
  <1>8. DOMAIN job' = Procs /\ DOMAIN told' = Procs
    BY <1>5 DEF Types
  <1>9. pc[p] \notin {"copy"} \cup Ended /\ pc'[p] \in StagesOf(kind[p]) \cup Ended
    BY <1>1, <1>2, <1>7 DEF Ended
  <1> QED BY <1>2, <1>4, <1>5, <1>6, <1>7, <1>8, <1>9, Zenon DEF Waits

\* Leaving the current file, and the end of the command.
LEMMA NextFileLeaves ==
  ASSUME Types, Work, NEW p \in Procs, pc[p] \in {"open", "copy"}, ~Up(p), NextFile(p),
         UNCHANGED <<data, release, kind, off, body, overlapped>>
  PROVE  Leaves(p) /\ DOMAIN told' = Procs
  <1>1. todo[p] # << >> /\ todo[p] \in Seq(Names)
    BY CurrentFile DEF Types
  <1>2. todo' = [todo EXCEPT ![p] = todo'[p]] /\ todo'[p] = Tail(todo[p])
    BY DEF NextFile, Types
  <1>3. \A t \in Seq(Names) : t # << >> /\ Len(t) # 1 => Tail(t) # << >>
    <2> TAKE t \in Seq(Names)
    <2> HAVE t # << >> /\ Len(t) # 1
    <2>1. Len(t) \in Nat /\ Len(t) # 0 /\ Len(Tail(t)) = Len(t) - 1
      BY EmptySeq, HeadTailProperties
    <2>2. Len(Tail(t)) # 0
      BY <2>1
    <2>3. Len(<< >>) = 0
      OBVIOUS
    <2> QED BY <2>2, <2>3, Zenon
  <1>4. /\ DOMAIN pc' = Procs /\ \A q \in Procs \ {p} : pc'[q] = pc[q]
        /\ pc'[p] = IF Len(todo[p]) = 1 THEN "done" ELSE "open"
    BY DEF NextFile, Goes, Types
  <1>5. fd' = [fd EXCEPT ![p] = NoFile] /\ DOMAIN told' = Procs
    BY DEF NextFile, Types
  <1>6. pc'[p] \notin Ended => todo'[p] # << >>
    BY <1>1, <1>2, <1>3, <1>4 DEF Ended
  <1>7. pc[p] \notin Ended
        /\ \/ pc'[p] \in Ended
           \/ pc[p] \in {"open", "copy"} /\ ~Up(p) /\ pc'[p] = "open"
    BY <1>4 DEF Ended
  <1> QED BY <1>1, <1>2, <1>4, <1>5, <1>6, <1>7, Zenon DEF Leaves

\* A command that ends closes its file.
LEMMA ClosesLeaves ==
  ASSUME Types, Work, NEW p \in Procs, pc[p] \notin Ended, NEW how \in Ended, NEW words,
         Closes(p, how, words), UNCHANGED <<data, release, kind, off, body, overlapped>>
  PROVE  Leaves(p) /\ DOMAIN told' = Procs
  <1>1. DOMAIN pc' = Procs /\ (\A q \in Procs \ {p} : pc'[q] = pc[q]) /\ pc'[p] = how
    BY DEF Closes, Ends, Goes, Types
  <1>2. DOMAIN told' = Procs /\ todo' = [todo EXCEPT ![p] = todo'[p]] /\ todo'[p] = todo[p]
    BY DEF Closes, Ends, Types
  <1>3. fd' = [fd EXCEPT ![p] = NoFile]
    BY DEF Closes
  <1> QED BY <1>1, <1>2, <1>3, Zenon DEF Leaves

\* So does one that is killed.
LEMMA KilledLeaves ==
  ASSUME Types, Work, NEW p \in Procs, Killed(p)
  PROVE  Leaves(p) /\ DOMAIN job' = Procs /\ DOMAIN told' = Procs
  <1>1. UNCHANGED <<data, release, kind, off, body, overlapped, job, told, todo>>
    BY DEF Killed, disk
  <1>2. DOMAIN pc' = Procs /\ (\A q \in Procs \ {p} : pc'[q] = pc[q]) /\ pc'[p] = "killed"
    BY DEF Killed, Goes, Types
  <1>3. todo' = [todo EXCEPT ![p] = todo'[p]] /\ todo'[p] = todo[p]
    BY <1>1 DEF Types
  <1>4. pc[p] \notin Ended /\ fd' = [fd EXCEPT ![p] = NoFile] /\ pc'[p] \in Ended
    BY <1>2 DEF Killed, Ended
  <1>5. DOMAIN job' = Procs /\ DOMAIN told' = Procs
    BY <1>1 DEF Types
  <1> QED BY <1>1, <1>2, <1>3, <1>4, <1>5, Zenon DEF Leaves

-----------------------------------------------------------------------------
(* The program and the temporary file, when a process leaves a file.       *)

\* p leaves its file, the program is as it was, and so is the temporary file unless
\* p is an upgrade that removes it.
Spares(p) ==
  /\ Leaves(p)
  /\ dir' \in [Names -> Inodes \cup {NoFile}] /\ last' \in [Names -> Procs \cup {Nobody}]
  /\ Distinct'
  /\ dir'[Binary] = dir[Binary]
  /\ \/ dir'[Temp] = dir[Temp] /\ last'[Temp] = last[Temp]
     \/ Upgrading(p) /\ dir'[Temp] = NoFile

\* A step that changes no name spares the program.
LEMMA SparesSame ==
  ASSUME Types, Separate, NEW p \in Procs, Leaves(p), dir' = dir, last' = last
  PROVE  Spares(p)
  BY DEF Spares, Separate, Distinct, Types

\* So does one that removes the file that could not be filled.
LEMMA SparesRemove ==
  ASSUME Types, Work, Separate, NEW p \in Procs, Leaves(p), pc[p] = "copy",
         Remove(Current(p)), last' = last
  PROVE  Spares(p)
  <1>1. Current(p) \in Names /\ Current(p) # Binary /\ (~Up(p) => Current(p) # Temp)
    BY CurrentFile, NamesFacts
  <1>2. dir' = [dir EXCEPT ![Current(p)] = NoFile]
    BY DEF Remove
  <1>3. dir' \in [Names -> Inodes \cup {NoFile}] /\ last' \in [Names -> Procs \cup {Nobody}]
    BY <1>2 DEF Types
  <1>4. \A n \in Names : dir'[n] = IF n = Current(p) THEN NoFile ELSE dir[n]
    BY <1>2 DEF Types
  <1> HIDE DEF NoFile
  <1>5. Distinct'
    BY <1>4 DEF Separate, Distinct
  <1>6. dir'[Binary] = dir[Binary]
    BY <1>1, <1>4, NamesFacts
  <1>7. dir'[Temp] = dir[Temp] \/ (Upgrading(p) /\ dir'[Temp] = NoFile)
    BY <1>1, <1>4, NamesFacts DEF Upgrading
  <1> QED BY <1>3, <1>5, <1>6, <1>7 DEF Spares

\* So does the renaming of a picture.
LEMMA SparesRename ==
  ASSUME Types, Work, Separate, NEW p \in Procs, Leaves(p), pc[p] = "copy", ~Up(p),
         NEW to, to \notin {Binary, Temp}, Rename(p, to)
  PROVE  Spares(p)
  <1>1. Current(p) \in Others /\ Current(p) \in Names
    BY CurrentFile
  <1>2. Current(p) # Binary /\ Current(p) # Temp
    BY <1>1, NamesFacts
  <1>3. dir' = [dir EXCEPT ![to] = dir[Current(p)], ![Current(p)] = NoFile]
        /\ last' = [last EXCEPT ![to] = p]
    BY DEF Rename
  <1>4. dir' \in [Names -> Inodes \cup {NoFile}] /\ last' \in [Names -> Procs \cup {Nobody}]
    BY <1>1, <1>3 DEF Types
  <1>5. \A n \in Names : dir'[n] = IF n = Current(p) THEN NoFile
                                   ELSE IF n = to THEN dir[Current(p)] ELSE dir[n]
    BY <1>3 DEF Types
  <1>6. Distinct'
    BY <1>1, <1>5 DEF Separate, Distinct
  <1>7. dir'[Binary] = dir[Binary] /\ dir'[Temp] = dir[Temp] /\ last'[Temp] = last[Temp]
    BY <1>2, <1>3, <1>5, NamesFacts DEF Types
  <1> QED BY <1>4, <1>6, <1>7 DEF Spares

\* Such a step keeps what is known of the program and the temporary file.
LEMMA SparesDisk ==
  ASSUME Types, Work, Disk, NEW p \in Procs, Spares(p)
  PROVE  Disk'
  <1>1. UNCHANGED <<data, release, kind, off, body, overlapped>> /\ dir'[Binary] = dir[Binary]
    BY DEF Spares, Leaves
  <1>2. \A q \in Procs : /\ q # p => fd'[q] = fd[q] /\ pc'[q] = pc[q]
                         /\ Up(q)' = Up(q) /\ off'[q] = off[q] /\ body'[q] = body[q]
    BY DEF Spares, Leaves, Types, Up
  <1>3. fd'[p] = NoFile /\ pc'[p] # "copy" /\ pc[p] \notin Ended /\ (Up(p) => pc'[p] \in Ended)
    BY DEF Spares, Leaves, Types, Ended
  <1>4. \A q \in Procs : Upgrading(q)' => Upgrading(q) /\ q # p
    BY <1>2, <1>3 DEF Upgrading
  <1>5. \/ dir'[Temp] = dir[Temp] /\ last'[Temp] = last[Temp]
        \/ Upgrading(p) /\ dir'[Temp] = NoFile
    BY DEF Spares
  <1>6. Separate'
    <2>1. Distinct' /\ dir'[Binary] # NoFile
      BY <1>1 DEF Spares, Disk, Separate
    <2>2. ASSUME NEW q \in Procs, ~Up(q)', fd'[q] # NoFile
          PROVE  fd'[q] \notin {dir'[Binary], dir'[Temp]}
      BY <1>1, <1>2, <1>3, <1>5, <2>2 DEF Disk, Separate
    <2> QED BY <2>1, <2>2 DEF Separate
  <1>7. Alone'
    <2> SUFFICES ASSUME NEW q \in Procs, Upgrading(q)', q \notin overlapped'
                 PROVE  /\ dir'[Temp] = fd'[q]
                        /\ \A r \in Procs : Upgrading(r)' => r = q
                        /\ \A c \in 1..off'[q] : data'[fd'[q]][c] = body'[q]
      BY DEF Alone
    <2>1. Upgrading(q) /\ q # p /\ q \notin overlapped
      BY <1>1, <1>4
    <2>2. /\ dir[Temp] = fd[q]
          /\ \A r \in Procs : Upgrading(r) => r = q
          /\ \A c \in 1..off[q] : data[fd[q]][c] = body[q]
      BY <2>1 DEF Disk, Alone
    <2>3. dir'[Temp] = dir[Temp]
      BY <1>5, <2>1, <2>2
    <2> QED BY <1>1, <1>2, <1>4, <2>1, <2>2, <2>3
  <1>8. TempState'
    <2> SUFFICES ASSUME dir'[Temp] # NoFile PROVE TempState'
      BY DEF TempState
    <2>1. dir'[Temp] = dir[Temp] /\ last'[Temp] = last[Temp]
      BY <1>5
    <2>2. PICK w \in Procs :
            /\ w = last[Temp] /\ Up(w) /\ (fd[w] = dir[Temp] \/ pc[w] \in Ended)
            /\ release = 1 => \A c \in 1..off[w] : data[dir[Temp]][c] = 1
            /\ \A q \in Procs : q # w /\ Upgrading(q) => w \in overlapped
      BY <2>1 DEF Disk, TempState
    <2>3. w = last'[Temp] /\ Up(w)' /\ (fd'[w] = dir'[Temp] \/ pc'[w] \in Ended)
      BY <1>2, <1>3, <2>1, <2>2
    <2>4. release' = 1 => \A c \in 1..off'[w] : data'[dir'[Temp]][c] = 1
      BY <1>1, <2>1, <2>2
    <2>5. \A q \in Procs : q # w /\ Upgrading(q)' => w \in overlapped'
      BY <1>1, <1>4, <2>2
    <2> QED BY <2>3, <2>4, <2>5 DEF TempState
  <1>9. Program'
    <2>1. Whole(Binary) => Whole(Binary)'
      BY <1>1 DEF Whole
    <2>2. overlapped \subseteq Procs
      BY DEF Types
    <2>3. (\A q \in overlapped' : ~Up(q)') => Whole(Binary)'
      BY <1>1, <1>2, <2>1, <2>2 DEF Disk, Program
    <2>4. ASSUME NEW q \in overlapped, NEW c \in 1..Chunks, Up(q), off[q] < c,
                 fd[q] = dir[Binary] \/ pc[q] \in Ended
          PROVE  off'[q] < c /\ Up(q)' /\ (fd'[q] = dir'[Binary] \/ pc'[q] \in Ended)
      BY <1>1, <1>2, <1>3, <2>2, <2>4
    <2>5. ASSUME release' = 1, NEW c \in 1..Chunks
          PROVE  \/ data'[dir'[Binary]][c] = 1
                 \/ \E q \in overlapped' : Up(q)' /\ off'[q] < c
                                          /\ (fd'[q] = dir'[Binary] \/ pc'[q] \in Ended)
      BY <1>1, <2>4, <2>5 DEF Disk, Program
    <2> QED BY <2>3, <2>5 DEF Program
  <1> QED BY <1>6, <1>7, <1>8, <1>9 DEF Disk

\* So does a step that leaves the files as they are.
LEMMA WaitsDisk ==
  ASSUME Types, Work, Disk, NEW p \in Procs, Waits(p)
  PROVE  Disk'
  <1>1. UNCHANGED <<dir, data, last, overlapped, release, kind, fd, off>>
    BY DEF Waits, disk
  <1>2. \A q \in Procs : /\ q # p => pc'[q] = pc[q] /\ body'[q] = body[q]
                         /\ Up(q)' = Up(q)
    BY DEF Waits, Types, Up
  <1>3. pc'[p] # "copy" /\ pc[p] \notin Ended
    BY StageMembers DEF Waits, Types, Ended
  <1>4. \A q \in Procs : Upgrading(q)' => Upgrading(q) /\ q # p
    BY <1>2, <1>3 DEF Upgrading
  <1>5. \A q \in Procs : pc[q] \in Ended => pc'[q] \in Ended
    BY <1>2, <1>3
  <1>6. Separate'
    BY <1>1, <1>2 DEF Disk, Separate, Distinct
  <1>7. Alone'
    BY <1>1, <1>2, <1>4 DEF Disk, Alone
  <1>8. TempState'
    BY <1>1, <1>2, <1>4, <1>5 DEF Disk, TempState
  <1>9. Program'
    <2>1. Whole(Binary) => Whole(Binary)'
      BY <1>1 DEF Whole
    <2>2. overlapped \subseteq Procs
      BY DEF Types
    <2> QED BY <1>1, <1>2, <1>5, <2>1, <2>2 DEF Disk, Program
  <1> QED BY <1>6, <1>7, <1>8, <1>9 DEF Disk

\* An upgrade that has not overlapped, or none, has copied the whole program; of two
\* at the same time, the one that opened the temporary file last may not.
LEMMA RenameDisk ==
  ASSUME Types, Work, Disk, NEW p \in Procs, Leaves(p), Upgrading(p), off[p] = Chunks,
         dir[Temp] # NoFile, Rename(p, Binary)
  PROVE  /\ Disk'
         /\ dir' \in [Names -> Inodes \cup {NoFile}] /\ last' \in [Names -> Procs \cup {Nobody}]
  <1>1. Current(p) = Temp
    BY CurrentFile DEF Upgrading
  <1>2. dir' = [dir EXCEPT ![Binary] = dir[Temp], ![Temp] = NoFile]
        /\ last' = [last EXCEPT ![Binary] = p]
    BY <1>1 DEF Rename
  <1>3. dir' \in [Names -> Inodes \cup {NoFile}] /\ last' \in [Names -> Procs \cup {Nobody}]
    BY <1>2, NamesFacts DEF Types
  <1>4. \A n \in Names : dir'[n] = IF n = Temp THEN NoFile
                                   ELSE IF n = Binary THEN dir[Temp] ELSE dir[n]
    BY <1>2 DEF Types
  <1>5. UNCHANGED <<data, release, kind, off, body, overlapped>>
    BY DEF Leaves
  <1>6. \A q \in Procs : /\ q # p => fd'[q] = fd[q] /\ pc'[q] = pc[q]
                         /\ Up(q)' = Up(q) /\ off'[q] = off[q] /\ body'[q] = body[q]
    BY DEF Leaves, Types, Up
  <1>7. fd'[p] = NoFile /\ pc'[p] \in Ended
    BY DEF Leaves, Types, Upgrading
  <1>8. Binary \in Names /\ Temp \in Names /\ Binary # Temp
    BY NamesFacts
  <1>9. dir'[Binary] = dir[Temp] /\ dir'[Temp] = NoFile
    BY <1>4, <1>8
  <1>10. Separate'
    <2>1. Distinct'
      BY <1>4, <1>8 DEF Disk, Separate, Distinct
    <2>2. ASSUME NEW q \in Procs, ~Up(q)', fd'[q] # NoFile
          PROVE  fd'[q] \notin {dir'[Binary], dir'[Temp]}
      <3>1. q # p /\ fd'[q] = fd[q] /\ ~Up(q)
        BY <1>6, <1>7, <2>2
      <3> QED BY <1>9, <2>2, <3>1 DEF Disk, Separate
    <2> QED BY <1>9, <2>1, <2>2 DEF Separate
  <1>11. Alone'
    <2>1. ASSUME NEW q \in Procs, Upgrading(q)', q \notin overlapped' PROVE FALSE
      <3>1. q # p /\ Upgrading(q) /\ q \notin overlapped
        BY <1>5, <1>6, <1>7, <2>1 DEF Upgrading, Ended
      <3> QED BY <3>1 DEF Disk, Alone
    <2> QED BY <2>1 DEF Alone
  <1>12. TempState'
    BY <1>9 DEF TempState
  <1>13. Program'
    <2>1. ASSUME \A q \in overlapped' : ~Up(q)' PROVE Whole(Binary)'
      <3>1. p \notin overlapped
        BY <1>5, <1>6, <2>1 DEF Upgrading
      <3>2. dir[Temp] = fd[p] /\ \A c \in 1..Chunks : data[dir[Temp]][c] = body[p]
        BY <3>1 DEF Disk, Alone
      <3>3. body[p] \in 1..Releases
        BY Constants DEF Types
      <3> QED BY <1>5, <1>9, <3>2, <3>3 DEF Whole
    <2>2. ASSUME release' = 1, NEW c \in 1..Chunks
          PROVE  \/ data'[dir'[Binary]][c] = 1
                 \/ \E q \in overlapped' : Up(q)' /\ off'[q] < c
                                          /\ (fd'[q] = dir'[Binary] \/ pc'[q] \in Ended)
      <3>1. PICK w \in Procs :
              /\ Up(w) /\ (fd[w] = dir[Temp] \/ pc[w] \in Ended)
              /\ \A d \in 1..off[w] : data[dir[Temp]][d] = 1
              /\ p # w => w \in overlapped
        BY <1>5, <2>2 DEF Disk, TempState
      <3>2. off[w] \in 0..Chunks
        BY DEF Types
      <3>3. CASE c <= off[w]
        BY <1>5, <1>9, <3>1, <3>2, <3>3
      <3>4. CASE ~(c <= off[w])
        <4>1. w # p /\ off[w] < c
          BY <3>2, <3>4, Constants
        <4> QED BY <1>5, <1>6, <1>9, <3>1, <4>1
      <3> QED BY <3>3, <3>4
    <2> QED BY <2>1, <2>2 DEF Program
  <1> QED BY <1>3, <1>10, <1>11, <1>12, <1>13 DEF Disk

-----------------------------------------------------------------------------
(* The program and the temporary file, when a file is opened and written.  *)

\* A file that is opened is the one that was there, emptied, or has an unused inode.
LEMMA OpenFacts ==
  ASSUME Types, Work, NEW p \in Procs, Open(p)
  PROVE  \E i \in Inodes :
           /\ dir' = [dir EXCEPT ![Current(p)] = i]
           /\ data' = [data EXCEPT ![i] = Empty]
           /\ fd' = [fd EXCEPT ![p] = i]
           /\ \/ i = dir[Current(p)]
              \/ dir[Current(p)] = NoFile /\ i \in Unused
  <1>1. pc[p] = "open" /\ fd[p] = NoFile /\ Current(p) \in Names
    BY CurrentFile DEF Open, Work
  <1>2. dir[Current(p)] # NoFile => dir[Current(p)] \in Inodes
    BY <1>1 DEF Types
  <1>3. dir[Current(p)] = NoFile => (CHOOSE j \in Unused : TRUE) \in Unused
    BY <1>1, UnusedExists
  <1>4. Unused \subseteq Inodes
    BY DEF Unused
  <1>5. PICK i \in {IF dir[Current(p)] # NoFile THEN dir[Current(p)]
                    ELSE CHOOSE j \in Unused : TRUE} :
          /\ dir' = [dir EXCEPT ![Current(p)] = i]
          /\ data' = [data EXCEPT ![i] = Empty]
          /\ fd' = [fd EXCEPT ![p] = i]
    BY DEF Open
  <1>6. \/ i \in Inodes /\ i = dir[Current(p)]
        \/ i \in Inodes /\ dir[Current(p)] = NoFile /\ i \in Unused
    BY <1>2, <1>3, <1>4, <1>5
  <1> QED BY <1>5, <1>6, Zenon

\* Opening a file keeps Types and Work.
LEMMA OpenTypes ==
  ASSUME Types, Work, NEW p \in Procs, Open(p)
  PROVE  Types' /\ Work'
  <1>1. PICK i \in Inodes :
          /\ dir' = [dir EXCEPT ![Current(p)] = i]
          /\ data' = [data EXCEPT ![i] = Empty]
          /\ fd' = [fd EXCEPT ![p] = i]
    BY OpenFacts
  <1>2. pc[p] = "open" /\ kind[p] # "drive_import"
    BY CurrentFile DEF Open
  <1>3. UNCHANGED <<release, job, kind, todo, told>> /\ off' = [off EXCEPT ![p] = 0]
        /\ pc' = [pc EXCEPT ![p] = "copy"] /\ last' = [last EXCEPT ![Current(p)] = p]
    BY DEF Open, Goes
  <1>4. dir' \in [Names -> Inodes \cup {NoFile}] /\ last' \in [Names -> Procs \cup {Nobody}]
        /\ fd' \in [Procs -> Inodes \cup {NoFile}]
    BY <1>1, <1>3 DEF Types
  <1>5. data' \in [Inodes -> [1..Chunks -> 0..Releases]]
    <2>1. Empty \in [1..Chunks -> 0..Releases]
      BY Constants DEF Empty, Blank
    <2> QED BY <1>1, <2>1 DEF Types
  <1>6. off' \in [Procs -> 0..Chunks] /\ body' \in [Procs -> 1..release']
    <2>1. 0 \in 0..Chunks /\ release \in 1..release
      BY Constants DEF Types
    <2> QED BY <1>3, <2>1 DEF Types, Open
  <1>7. overlapped' \subseteq Procs
    BY DEF Open, Types, Rivals
  <1>8. DOMAIN pc' = Procs /\ \A q \in Procs : pc'[q] = IF q = p THEN "copy" ELSE pc[q]
    BY <1>3 DEF Types
  <1>9. Types'
    <2>1. \A q \in Procs : pc'[q] \in StagesOf(kind'[q]) \cup {"copy"} \cup Ended
      BY <1>3, <1>8 DEF Types
    <2>2. DOMAIN job' = Procs /\ DOMAIN told' = Procs /\ release' \in 1..Releases
          /\ kind' \in [Procs -> Kinds] /\ todo' \in [Procs -> Seq(Names)]
      BY <1>3 DEF Types
    <2> QED BY <1>4, <1>5, <1>6, <1>7, <1>8, <2>1, <2>2 DEF Types
  <1>10. Work'
    <2> SUFFICES ASSUME NEW q \in Procs
                 PROVE  /\ (fd'[q] # NoFile) <=> (pc'[q] = "copy")
                        /\ Up(q)' => todo'[q] \in Seq({Temp})
                        /\ ~Up(q)' => todo'[q] \in Seq(Others)
                        /\ kind'[q] = "drive_import" => pc'[q] # "copy"
                        /\ kind'[q] # "drive_import" /\ pc'[q] \notin Ended => todo'[q] # << >>
      BY DEF Work
    <2>1. fd'[q] = IF q = p THEN i ELSE fd[q]
      BY <1>1 DEF Types
    <2>2. i # NoFile
      BY InodesFacts
    <2>3. kind[p] # "drive_import" /\ todo[p] # << >>
      BY <1>2 DEF Work, Ended
    <2> QED BY <1>2, <1>3, <1>8, <2>1, <2>2, <2>3 DEF Work, Up
  <1> QED BY <1>9, <1>10

\* Those whom an upgrade overlaps with are the other upgrades.
LEMMA RivalsFacts ==
  ASSUME Types, Work, NEW p \in Procs, pc[p] = "open"
  PROVE  /\ Rivals(p) \subseteq Procs
         /\ Up(p) => \A q \in Procs : q # p /\ Upgrading(q) => q \in Rivals(p)
         /\ ~Up(p) => \A q \in Rivals(p) : ~Up(q)
  <1>1. \A q \in Procs : Upgrading(q) => Current(q) = Temp /\ fd[q] # NoFile
    BY CurrentFile DEF Upgrading, Work
  <1>2. \A q \in Procs : Up(q) /\ fd[q] # NoFile => Current(q) = Temp
    BY CurrentFile DEF Work
  <1>3. Up(p) => Current(p) = Temp
    BY CurrentFile
  <1>4. ~Up(p) => Current(p) # Temp
    BY CurrentFile, NamesFacts
  <1> QED BY <1>1, <1>2, <1>3, <1>4 DEF Rivals

\* Opening a file keeps Disk: an upgrade that finds another one at work is overlapped.
LEMMA OpenDisk ==
  ASSUME Types, Work, Disk, NEW p \in Procs, Open(p)
  PROVE  Disk'
  <1>1. PICK i \in Inodes :
          /\ dir' = [dir EXCEPT ![Current(p)] = i]
          /\ data' = [data EXCEPT ![i] = Empty]
          /\ fd' = [fd EXCEPT ![p] = i]
          /\ \/ i = dir[Current(p)]
             \/ dir[Current(p)] = NoFile /\ i \in Unused
    BY OpenFacts
  <1>2. pc[p] = "open" /\ fd[p] = NoFile /\ i # NoFile
    BY InodesFacts DEF Open, Work
  <1>3. Current(p) \in Names /\ Current(p) # Binary /\ Binary \in Names /\ Temp \in Names
        /\ Binary # Temp /\ (Current(p) = Temp <=> Up(p))
    BY <1>2, CurrentFile, NamesFacts
  <1>4. UNCHANGED <<release, kind>>
    BY DEF Open
  <1>5. \A q \in Procs :
          /\ pc'[q] = IF q = p THEN "copy" ELSE pc[q]
          /\ off'[q] = IF q = p THEN 0 ELSE off[q]
          /\ q # p => body'[q] = body[q]
          /\ fd'[q] = IF q = p THEN i ELSE fd[q]
          /\ Up(q)' = Up(q)
    BY <1>1 DEF Open, Goes, Types, Up
  <1>6. \A n \in Names : dir'[n] = IF n = Current(p) THEN i ELSE dir[n]
    BY <1>1 DEF Types
  <1>7. \A n \in Names : n # Current(p) => dir[n] # i
    BY <1>1, <1>2, <1>3 DEF Disk, Separate, Distinct, Unused
  <1>8. \A j \in Inodes : j # i => data'[j] = data[j]
    BY <1>1 DEF Types
  <1>9. overlapped \subseteq overlapped' /\ overlapped' \subseteq overlapped \cup Rivals(p) \cup {p}
        /\ (Rivals(p) # {} => Rivals(p) \cup {p} \subseteq overlapped')
    BY DEF Open
  <1>10. dir'[Binary] = dir[Binary] /\ dir[Binary] \in Inodes /\ dir[Binary] # i
    BY <1>3, <1>6, <1>7 DEF Types, Disk, Separate
  <1>11. data'[dir'[Binary]] = data[dir[Binary]]
    BY <1>8, <1>10
  <1>12. Separate'
    <2>1. Distinct'
      BY <1>2, <1>6, <1>7 DEF Disk, Separate, Distinct
    <2>2. ASSUME NEW q \in Procs, ~Up(q)', fd'[q] # NoFile
          PROVE  fd'[q] \notin {dir'[Binary], dir'[Temp]}
      <3>1. CASE q = p
        BY <1>3, <1>5, <1>6, <1>7, <1>10, <2>2, <3>1
      <3>2. CASE q # p
        <4>1. fd'[q] = fd[q] /\ fd[q] \notin {dir[Binary], dir[Temp]}
          BY <1>5, <2>2, <3>2 DEF Disk, Separate
        <4>2. i \in Unused => fd[q] # i
          BY DEF Unused
        <4> QED BY <1>1, <1>3, <1>6, <1>10, <4>1, <4>2
      <3> QED BY <3>1, <3>2
    <2> QED BY <1>2, <1>10, <2>1, <2>2 DEF Separate, Disk
  <1>13. Program'
    <2>1. Whole(Binary) => Whole(Binary)'
      BY <1>10, <1>11 DEF Whole
    <2>2. overlapped \subseteq Procs
      BY DEF Types
    <2>3. (\A q \in overlapped' : ~Up(q)') => Whole(Binary)'
      BY <1>5, <1>9, <2>1, <2>2 DEF Disk, Program
    <2>4. ASSUME NEW q \in overlapped, NEW c \in 1..Chunks, Up(q), off[q] < c,
                 fd[q] = dir[Binary] \/ pc[q] \in Ended
          PROVE  off'[q] < c /\ Up(q)' /\ (fd'[q] = dir'[Binary] \/ pc'[q] \in Ended)
      <3>1. q # p
        BY <1>2, <2>4 DEF Disk, Separate, Ended
      <3> QED BY <1>5, <1>10, <2>2, <2>4, <3>1
    <2>5. ASSUME release' = 1, NEW c \in 1..Chunks
          PROVE  \/ data'[dir'[Binary]][c] = 1
                 \/ \E q \in overlapped' : Up(q)' /\ off'[q] < c
                                          /\ (fd'[q] = dir'[Binary] \/ pc'[q] \in Ended)
      BY <1>4, <1>9, <1>11, <2>4, <2>5 DEF Disk, Program
    <2> QED BY <2>3, <2>5 DEF Program
  <1>14. CASE Up(p)
    <2>1. Current(p) = Temp /\ dir'[Temp] = i
      BY <1>3, <1>6, <1>14
    <2>2. \A q \in Procs : q # p /\ Upgrading(q)' => q \in overlapped' /\ p \in overlapped'
      BY <1>2, <1>5, <1>9, <1>14, RivalsFacts DEF Upgrading
    <2>3. Alone'
      <3> SUFFICES ASSUME NEW q \in Procs, Upgrading(q)', q \notin overlapped'
                   PROVE  /\ dir'[Temp] = fd'[q]
                          /\ \A r \in Procs : Upgrading(r)' => r = q
                          /\ \A c \in 1..off'[q] : data'[fd'[q]][c] = body'[q]
        BY DEF Alone
      <3>1. q = p
        BY <2>2
      <3>2. fd'[p] = i /\ off'[p] = 0
        BY <1>5
      <3> QED BY <2>1, <2>2, <3>1, <3>2
    <2>4. TempState'
      <3>1. p = last'[Temp]
        BY <1>3, <2>1 DEF Open, Types
      <3>2. Up(p)' /\ fd'[p] = dir'[Temp] /\ off'[p] = 0
        BY <1>5, <1>14, <2>1
      <3>3. \A c \in 1..off'[p] : data'[dir'[Temp]][c] = 1
        BY <3>2
      <3>4. \A q \in Procs : q # p /\ Upgrading(q)' => p \in overlapped'
        BY <2>2
      <3> QED BY <3>1, <3>2, <3>3, <3>4 DEF TempState
    <2> QED BY <1>12, <1>13, <2>3, <2>4 DEF Disk
  <1>15. CASE ~Up(p)
    <2>1. dir'[Temp] = dir[Temp] /\ dir[Temp] # i /\ last'[Temp] = last[Temp]
      BY <1>3, <1>6, <1>7, <1>15 DEF Open, Types
    <2>2. dir[Temp] # NoFile => data'[dir[Temp]] = data[dir[Temp]]
      BY <1>3, <1>8, <2>1 DEF Types
    <2>3. \A q \in Procs : Up(q) => q # p /\ (q \in overlapped' <=> q \in overlapped)
      BY <1>2, <1>9, <1>15, RivalsFacts
    <2>4. \A q \in Procs : Upgrading(q)' => Upgrading(q) /\ q # p
      BY <1>5, <2>3 DEF Upgrading
    <2>5. Alone'
      <3> SUFFICES ASSUME NEW q \in Procs, Upgrading(q)', q \notin overlapped'
                   PROVE  /\ dir'[Temp] = fd'[q]
                          /\ \A r \in Procs : Upgrading(r)' => r = q
                          /\ \A c \in 1..off'[q] : data'[fd'[q]][c] = body'[q]
        BY DEF Alone
      <3>1. Upgrading(q) /\ q # p /\ q \notin overlapped
        BY <2>3, <2>4 DEF Upgrading
      <3>2. /\ dir[Temp] = fd[q]
            /\ \A r \in Procs : Upgrading(r) => r = q
            /\ \A c \in 1..off[q] : data[fd[q]][c] = body[q]
        BY <3>1 DEF Disk, Alone
      <3>3. fd[q] # NoFile
        BY <3>1 DEF Upgrading, Work
      <3>4. data'[fd'[q]] = data[fd[q]] /\ off'[q] = off[q] /\ body'[q] = body[q] /\ fd'[q] = fd[q]
        BY <1>5, <2>2, <3>1, <3>2, <3>3
      <3> QED BY <2>1, <2>4, <3>2, <3>4
    <2>6. TempState'
      <3> SUFFICES ASSUME dir'[Temp] # NoFile PROVE TempState'
        BY DEF TempState
      <3>1. PICK w \in Procs :
              /\ w = last[Temp] /\ Up(w) /\ (fd[w] = dir[Temp] \/ pc[w] \in Ended)
              /\ release = 1 => \A c \in 1..off[w] : data[dir[Temp]][c] = 1
              /\ \A q \in Procs : q # w /\ Upgrading(q) => w \in overlapped
        BY <2>1 DEF Disk, TempState
      <3>2. w # p
        BY <2>3, <3>1
      <3>3. w = last'[Temp] /\ Up(w)' /\ (fd'[w] = dir'[Temp] \/ pc'[w] \in Ended)
        BY <1>5, <2>1, <3>1, <3>2
      <3>4. release' = 1 => \A c \in 1..off'[w] : data'[dir'[Temp]][c] = 1
        BY <1>4, <1>5, <2>1, <2>2, <3>1, <3>2
      <3>5. \A q \in Procs : q # w /\ Upgrading(q)' => w \in overlapped'
        BY <1>9, <2>4, <3>1
      <3> QED BY <3>3, <3>4, <3>5 DEF TempState
    <2> QED BY <1>12, <1>13, <2>5, <2>6 DEF Disk
  <1> QED BY <1>14, <1>15

\* A copy writes one piece of the file that is open.
LEMMA CopyFacts ==
  ASSUME Types, Work, NEW p \in Procs, Copy(p)
  PROVE  /\ Types' /\ Work'
         /\ pc[p] = "copy" /\ fd[p] \in Inodes /\ off[p] + 1 \in 1..Chunks
         /\ UNCHANGED <<dir, last, overlapped, release, job, kind, pc, fd, body, told>>
         /\ off' = [off EXCEPT ![p] = off[p] + 1]
         /\ \A j \in Inodes, c \in 1..Chunks :
              data'[j][c] = IF j = fd[p] /\ c = off[p] + 1 THEN body[p] ELSE data[j][c]
  <1>1. pc[p] = "copy" /\ fd[p] \in Inodes
    BY DEF Copy, Types, Work
  <1>2. off[p] \in Nat /\ off[p] + 1 \in 1..Chunks
    BY Constants DEF Copy, Types
  <1>3. UNCHANGED <<dir, last, overlapped, release, job, kind, pc, todo, fd, body, told>>
    BY DEF Copy
  <1>4. off' = [off EXCEPT ![p] = off[p] + 1]
    BY DEF Copy
  <1>5. body[p] \in 0..Releases
    BY Constants DEF Types
  <1>6. data' = [data EXCEPT ![fd[p]] = [data[fd[p]] EXCEPT ![off[p] + 1] = body[p]]]
    BY DEF Copy
  <1>7. data[fd[p]] \in [1..Chunks -> 0..Releases]
    BY <1>1 DEF Types
  <1>8. [data[fd[p]] EXCEPT ![off[p] + 1] = body[p]] \in [1..Chunks -> 0..Releases]
    BY <1>2, <1>5, <1>7
  <1>9. data' \in [Inodes -> [1..Chunks -> 0..Releases]]
    BY <1>1, <1>6, <1>8 DEF Types
  <1>10. ASSUME NEW j \in Inodes, NEW c \in 1..Chunks
         PROVE  data'[j][c] = IF j = fd[p] /\ c = off[p] + 1 THEN body[p] ELSE data[j][c]
    <2>1. CASE j = fd[p]
      BY <1>6, <1>7, <2>1 DEF Types
    <2>2. CASE j # fd[p]
      BY <1>6, <2>2 DEF Types
    <2> QED BY <2>1, <2>2
  <1>11. off' \in [Procs -> 0..Chunks]
    BY <1>2, <1>4 DEF Types
  <1>12. Types'
    BY <1>3, <1>9, <1>11 DEF Types
  <1>13. Work'
    BY <1>3 DEF Work, Up
  <1> QED BY <1>1, <1>2, <1>3, <1>4, <1>10, <1>12, <1>13

\* A copy keeps Disk: the piece goes to a file of the command's own, or an overlapped one.
LEMMA CopyDisk ==
  ASSUME Types, Work, Disk, NEW p \in Procs, Copy(p)
  PROVE  Disk'
  <1>1. /\ pc[p] = "copy" /\ fd[p] \in Inodes /\ off[p] + 1 \in 1..Chunks
        /\ UNCHANGED <<dir, last, overlapped, release, kind, pc, fd, body>>
        /\ off' = [off EXCEPT ![p] = off[p] + 1]
        /\ \A j \in Inodes, c \in 1..Chunks :
             data'[j][c] = IF j = fd[p] /\ c = off[p] + 1 THEN body[p] ELSE data[j][c]
    BY CopyFacts
  <1>2. fd[p] # NoFile /\ \A q \in Procs : Up(q)' = Up(q) /\ Upgrading(q)' = Upgrading(q)
    BY <1>1, InodesFacts DEF Up, Upgrading
  <1>3. \A q \in Procs :
          off[q] \in 0..Chunks /\ off'[q] = IF q = p THEN off[p] + 1 ELSE off[q]
    BY <1>1 DEF Types
  <1>11. \A q \in Procs : \A c \in 1..off'[q] :
           c \in 1..Chunks /\ (c \in 1..off[q] \/ (q = p /\ c = off[p] + 1))
    <2> TAKE q \in Procs
    <2>1. Chunks \in Nat /\ off[q] \in 0..Chunks
      BY <1>3, Constants
    <2>2. CASE q = p
      BY <1>1, <1>3, <2>1, <2>2
    <2>3. CASE q # p
      BY <1>3, <2>1, <2>3
    <2> QED BY <2>2, <2>3
  <1>4. release = 1 => body[p] = 1
    BY DEF Types
  <1>5. Binary \in Names /\ Temp \in Names /\ Binary # Temp
    BY NamesFacts
  <1>6. dir[Binary] \in Inodes /\ (dir[Temp] # NoFile => dir[Temp] \in Inodes)
    BY <1>5 DEF Types, Disk, Separate
  <1>7. Separate'
    BY <1>1, <1>2 DEF Disk, Separate, Distinct
  <1>8. Alone'
    <2> SUFFICES ASSUME NEW q \in Procs, Upgrading(q), q \notin overlapped
                 PROVE  \A c \in 1..off'[q] : data'[fd[q]][c] = body[q]
      BY <1>1, <1>2 DEF Disk, Alone
    <2>1. /\ dir[Temp] = fd[q] /\ (Upgrading(p) => p = q)
          /\ \A c \in 1..off[q] : data[fd[q]][c] = body[q]
      BY DEF Disk, Alone
    <2>2. fd[q] \in Inodes
      BY DEF Upgrading, Work, Types
    <2>3. CASE q = p
      BY <1>1, <1>11, <2>1, <2>2, <2>3
    <2>4. CASE q # p
      <3>1. fd[q] # fd[p]
        BY <1>1, <1>2, <2>1, <2>4 DEF Disk, Separate, Upgrading
      <3> QED BY <1>1, <1>11, <2>1, <2>2, <2>4, <3>1
    <2> QED BY <2>3, <2>4
  <1>9. TempState'
    <2> SUFFICES ASSUME dir[Temp] # NoFile PROVE TempState'
      BY <1>1 DEF TempState
    <2>1. PICK w \in Procs :
            /\ w = last[Temp] /\ Up(w) /\ (fd[w] = dir[Temp] \/ pc[w] \in Ended)
            /\ release = 1 => \A c \in 1..off[w] : data[dir[Temp]][c] = 1
            /\ \A q \in Procs : q # w /\ Upgrading(q) => w \in overlapped
      BY DEF Disk, TempState
    <2>2. ASSUME release = 1, NEW c \in 1..off'[w] PROVE data'[dir[Temp]][c] = 1
      <3>1. c \in 1..Chunks
        BY <1>11, <2>2
      <3>2. CASE c \in 1..off[w]
        BY <1>1, <1>4, <1>6, <2>1, <2>2, <3>1, <3>2
      <3>3. CASE c \notin 1..off[w]
        <4>1. w = p /\ c = off[p] + 1
          BY <1>11, <2>2, <3>3
        <4>2. fd[p] = dir[Temp]
          BY <1>1, <2>1, <4>1 DEF Ended
        <4> QED BY <1>1, <1>4, <2>2, <3>1, <4>1, <4>2
      <3> QED BY <3>2, <3>3
    <2> QED BY <1>1, <1>2, <2>1, <2>2 DEF TempState
  <1>10. Program'
    <2>1. overlapped \subseteq Procs
      BY DEF Types
    <2>2. ASSUME \A q \in overlapped : ~Up(q) PROVE Whole(Binary)'
      <3>1. fd[p] # dir[Binary]
        <4>1. CASE Up(p)
          <5>1. dir[Temp] = fd[p]
            BY <1>1, <2>2, <4>1 DEF Disk, Alone, Upgrading
          <5> QED BY <1>2, <1>5, <5>1 DEF Disk, Separate, Distinct
        <4>2. CASE ~Up(p)
          BY <1>2, <4>2 DEF Disk, Separate
        <4> QED BY <4>1, <4>2
      <3>2. Whole(Binary)
        BY <2>2 DEF Disk, Program
      <3> QED BY <1>1, <1>6, <3>1, <3>2 DEF Whole
    <2>3. ASSUME release = 1, NEW c \in 1..Chunks
          PROVE  \/ data'[dir[Binary]][c] = 1
                 \/ \E q \in overlapped : Up(q) /\ off'[q] < c
                                          /\ (fd[q] = dir[Binary] \/ pc[q] \in Ended)
      <3>1. CASE data[dir[Binary]][c] = 1
        BY <1>1, <1>4, <1>6, <2>3, <3>1
      <3>2. ASSUME NEW q \in overlapped, Up(q), off[q] < c,
                   fd[q] = dir[Binary] \/ pc[q] \in Ended
            PROVE  off'[q] < c \/ data'[dir[Binary]][c] = 1
        <4>1. q \in Procs
          BY <2>1
        <4>2. CASE q # p \/ off[p] + 1 < c
          BY <1>3, <3>2, <4>1, <4>2
        <4>3. CASE q = p /\ ~(off[p] + 1 < c)
          <5>1. c = off[p] + 1
            BY <1>3, <3>2, <4>3
          <5>2. fd[p] = dir[Binary]
            BY <1>1, <3>2, <4>3 DEF Ended
          <5> QED BY <1>1, <1>4, <2>3, <5>1, <5>2
        <4> QED BY <4>2, <4>3
      <3> QED BY <2>3, <3>1, <3>2 DEF Disk, Program
    <2>4. (\A q \in overlapped' : ~Up(q)') => Whole(Binary)'
      BY <1>1, <1>2, <2>1, <2>2
    <2>5. ASSUME release' = 1, NEW c \in 1..Chunks
          PROVE  \/ data'[dir'[Binary]][c] = 1
                 \/ \E q \in overlapped' : Up(q)' /\ off'[q] < c
                                          /\ (fd'[q] = dir'[Binary] \/ pc'[q] \in Ended)
      BY <1>1, <1>2, <2>1, <2>3, <2>5
    <2> QED BY <2>4, <2>5 DEF Program
  <1> QED BY <1>7, <1>8, <1>9, <1>10 DEF Disk

-----------------------------------------------------------------------------
(* The other steps of a command.                                           *)

\* The inductive invariant.
IInv == Types /\ Work /\ Disk

\* The steps that spare the program keep the invariant.
LEMMA SparesStep ==
  ASSUME IInv, NEW p \in Procs, Spares(p), DOMAIN job' = Procs, DOMAIN told' = Procs
  PROVE  IInv'
  <1>1. Leaves(p) /\ dir' \in [Names -> Inodes \cup {NoFile}]
        /\ last' \in [Names -> Procs \cup {Nobody}]
    BY DEF Spares
  <1> QED BY <1>1, LeavesTypes, SparesDisk DEF IInv

\* So do those that leave the files as they are.
LEMMA WaitsStep ==
  ASSUME IInv, NEW p \in Procs, Waits(p), DOMAIN job' = Procs, DOMAIN told' = Procs
  PROVE  IInv'
  BY WaitsTypes, WaitsDisk DEF IInv

\* A kill keeps the invariant.
LEMMA KilledStep ==
  ASSUME IInv, NEW p \in Procs, Killed(p)
  PROVE  IInv'
  <1>1. Leaves(p) /\ DOMAIN job' = Procs /\ DOMAIN told' = Procs /\ dir' = dir /\ last' = last
    BY KilledLeaves DEF IInv, Killed, disk
  <1>2. Spares(p)
    BY <1>1, SparesSame DEF IInv, Disk
  <1> QED BY <1>1, <1>2, SparesStep

\* A file that cannot be opened keeps the invariant.
LEMMA OpenFailsStep ==
  ASSUME IInv, NEW p \in Procs, OpenFails(p)
  PROVE  IInv'
  <1>1. pc[p] = "open" /\ pc[p] \notin Ended /\ "failed" \in Ended
    BY DEF OpenFails, Ended
  <1>2. UNCHANGED <<data, release, kind, off, body, overlapped, dir, last, job>>
    BY DEF OpenFails, disk
  <1>3. CASE Current(p) = InSheet
    <2>1. ~Up(p)
      BY <1>1, <1>3, CurrentFile, NamesFacts DEF IInv
    <2>2. Leaves(p) /\ DOMAIN told' = Procs
      BY <1>1, <1>2, <1>3, <2>1, NextFileLeaves DEF IInv, OpenFails
    <2>3. Spares(p) /\ DOMAIN job' = Procs
      BY <1>2, <2>2, SparesSame DEF IInv, Disk, Types
    <2> QED BY <2>2, <2>3, SparesStep
  <1>4. CASE Current(p) # InSheet
    <2>1. Leaves(p) /\ DOMAIN told' = Procs
      BY <1>1, <1>2, <1>4, ClosesLeaves DEF IInv, OpenFails
    <2>2. Spares(p) /\ DOMAIN job' = Procs
      BY <1>2, <2>1, SparesSame DEF IInv, Disk, Types
    <2> QED BY <2>1, <2>2, SparesStep
  <1> QED BY <1>3, <1>4

\* A download that breaks off keeps the invariant.
LEMMA CopyFailsStep ==
  ASSUME IInv, NEW p \in Procs, CopyFails(p)
  PROVE  IInv'
  <1>1. pc[p] = "copy" /\ pc[p] \notin Ended /\ "failed" \in Ended /\ kind[p] \in Kinds
    BY DEF CopyFails, Ended, IInv, Types
  <1>2. UNCHANGED <<data, release, kind, off, body, overlapped, last, job>>
    BY DEF CopyFails
  <1>3. CASE Profile(p).keeps
    <2>1. Leaves(p) /\ DOMAIN told' = Procs
      BY <1>1, <1>2, <1>3, ClosesLeaves DEF IInv, CopyFails
    <2>2. Spares(p) /\ DOMAIN job' = Procs
      BY <1>2, <1>3, <2>1, SparesSame DEF IInv, Disk, Types, CopyFails
    <2> QED BY <2>1, <2>2, SparesStep
  <1>4. CASE ~Profile(p).keeps
    <2>1. Remove(Current(p))
      BY <1>4 DEF CopyFails
    <2>2. Leaves(p) /\ DOMAIN told' = Procs
      <3>1. CASE Up(p)
        <4>1. Closes(p, "failed", "error")
          BY <1>4, <3>1 DEF CopyFails, Up
        <4> QED BY <1>1, <1>2, <4>1, ClosesLeaves DEF IInv
      <3>2. CASE ~Up(p)
        <4>1. NextFile(p)
          BY <1>4, <3>2 DEF CopyFails, Up
        <4> QED BY <1>1, <1>2, <3>2, <4>1, NextFileLeaves DEF IInv
      <3> QED BY <3>1, <3>2
    <2>3. Spares(p) /\ DOMAIN job' = Procs
      BY <1>1, <1>2, <2>1, <2>2, SparesRemove DEF IInv, Disk, Types
    <2> QED BY <2>2, <2>3, SparesStep
  <1> QED BY <1>3, <1>4

\* A saved output keeps the invariant.
LEMMA SaveOutputStep ==
  ASSUME IInv, NEW p \in Procs, SaveOutput(p)
  PROVE  IInv'
  <1>1. pc[p] \notin Ended /\ "done" \in Ended /\ Closes(p, "done", "saved")
    BY DEF SaveOutput, Complete, Ended
  <1>2. UNCHANGED <<data, release, kind, off, body, overlapped, dir, last, job>>
    BY DEF SaveOutput, disk
  <1>3. Leaves(p) /\ DOMAIN told' = Procs
    BY <1>1, <1>2, ClosesLeaves DEF IInv
  <1>4. Spares(p) /\ DOMAIN job' = Procs
    BY <1>2, <1>3, SparesSame DEF IInv, Disk, Types
  <1> QED BY <1>3, <1>4, SparesStep

\* A saved picture keeps the invariant.
LEMMA SavePictureStep ==
  ASSUME IInv, NEW p \in Procs, SavePicture(p)
  PROVE  IInv'
  <1>1. pc[p] = "copy" /\ NextFile(p) /\ ~Up(p)
    BY DEF SavePicture, Complete, Up
  <1>2. UNCHANGED <<data, release, kind, off, body, overlapped, dir, last, job>>
    BY DEF SavePicture, disk
  <1>3. Leaves(p) /\ DOMAIN told' = Procs
    BY <1>1, <1>2, NextFileLeaves DEF IInv
  <1>4. Spares(p) /\ DOMAIN job' = Procs
    BY <1>2, <1>3, SparesSame DEF IInv, Disk, Types
  <1> QED BY <1>3, <1>4, SparesStep

\* A renamed picture keeps the invariant.
LEMMA RenamePictureStep ==
  ASSUME IInv, NEW p \in Procs, NEW fails, RenamePicture(p, fails)
  PROVE  IInv'
  <1> DEFINE jpg == Jpg(Current(p)[2])
  <1>1. pc[p] = "copy" /\ NextFile(p) /\ ~Up(p)
    BY DEF RenamePicture, Complete, Up
  <1>2. UNCHANGED <<data, release, kind, off, body, overlapped, job>>
    BY DEF RenamePicture
  <1>3. Leaves(p) /\ DOMAIN told' = Procs
    BY <1>1, <1>2, NextFileLeaves DEF IInv
  <1>4. (dir' = dir /\ last' = last) \/ Rename(p, jpg)
    BY DEF RenamePicture
  <1>5. jpg \notin {Binary, Temp}
    BY DEF Jpg, Binary, Temp
  <1> HIDE DEF jpg
  <1>6. Spares(p)
    BY <1>1, <1>3, <1>4, <1>5, SparesSame, SparesRename DEF IInv, Disk
  <1>7. DOMAIN job' = Procs
    BY <1>2 DEF IInv, Types
  <1> QED BY <1>3, <1>6, <1>7, SparesStep

\* A replaced program keeps the invariant: what is renamed to it is complete.
LEMMA ReplaceStep ==
  ASSUME IInv, NEW p \in Procs, NEW fails, Replace(p, fails)
  PROVE  IInv'
  <1>1. pc[p] = "copy" /\ Upgrading(p) /\ off[p] = Chunks /\ pc[p] \notin Ended
        /\ "failed" \in Ended /\ "done" \in Ended
    BY DEF Replace, Complete, Up, Upgrading, Ended
  <1>2. UNCHANGED <<data, release, kind, off, body, overlapped, job>>
    BY DEF Replace
  <1>3. DOMAIN job' = Procs
    BY <1>2 DEF IInv, Types
  <1>4. Current(p) = Temp
    BY <1>1, CurrentFile DEF IInv, Upgrading
  <1>5. CASE dir[Current(p)] = NoFile \/ fails
    <2>1. Remove(Current(p)) /\ Closes(p, "failed", "error") /\ last' = last
      BY <1>5 DEF Replace
    <2>2. Leaves(p) /\ DOMAIN told' = Procs
      BY <1>1, <1>2, <2>1, ClosesLeaves DEF IInv
    <2>3. Spares(p)
      BY <1>1, <2>1, <2>2, SparesRemove DEF IInv, Disk
    <2> QED BY <1>3, <2>2, <2>3, SparesStep
  <1>6. CASE ~(dir[Current(p)] = NoFile \/ fails)
    <2>1. Rename(p, Binary) /\ Closes(p, "done", "saved") /\ dir[Temp] # NoFile
      BY <1>4, <1>6 DEF Replace
    <2>2. Leaves(p) /\ DOMAIN told' = Procs
      BY <1>1, <1>2, <2>1, ClosesLeaves DEF IInv
    <2>3. Disk' /\ dir' \in [Names -> Inodes \cup {NoFile}]
          /\ last' \in [Names -> Procs \cup {Nobody}]
      BY <1>1, <2>1, <2>2, RenameDisk DEF IInv
    <2> QED BY <1>3, <2>2, <2>3, LeavesTypes DEF IInv
  <1> QED BY <1>5, <1>6

-----------------------------------------------------------------------------
(* The theorems.                                                           *)

\* Types, Work and Disk hold when the commands start ...
THEOREM Initial == Init => IInv
  <1> SUFFICES ASSUME Init PROVE IInv
    OBVIOUS
  <1>1. kind \in [Procs -> Kinds] /\ \A p \in Procs : kind[p] \in Kinds
    BY Constants DEF Init
  <1>2. PICK i \in {NoFile, 2} :
          dir = [n \in Names |-> IF n = Binary THEN 1 ELSE IF n = Out THEN i ELSE NoFile]
    BY DEF Init
  <1>3. dir \in [Names -> Inodes \cup {NoFile}]
    BY <1>2, InodesFacts
  <1>4. data \in [Inodes -> [1..Chunks -> 0..Releases]] /\ \A c \in 1..Chunks : data[1][c] = 1
    BY Constants, InodesFacts DEF Init, Blank
  <1>5. pc = [p \in Procs |-> Profile(p).stages[1]] /\ todo = [p \in Procs |-> Profile(p).files]
    BY DEF Init
  <1>6. \A p \in Procs : pc[p] \in StagesOf(kind[p])
    BY <1>1, <1>5, FirstStage
  <1>7. \A p \in Procs : pc[p] # "copy"
    BY <1>1, <1>6, StageMembers
  <1>8. \A p \in Procs : /\ Up(p) => todo[p] \in Seq({Temp})
                         /\ ~Up(p) => todo[p] \in Seq(Others)
                         /\ kind[p] # "drive_import" => todo[p] # << >>
    BY <1>1, <1>5, FilesFacts
  <1>9. \A R : R \subseteq Names => Seq(R) \subseteq Seq(Names)
    OBVIOUS
  <1>10. todo \in [Procs -> Seq(Names)]
    <2>1. {Temp} \subseteq Names /\ Others \subseteq Names
      BY NamesFacts
    <2>2. Seq({Temp}) \subseteq Seq(Names) /\ Seq(Others) \subseteq Seq(Names)
      BY <1>9, <2>1
    <2> QED BY <1>5, <1>8, <2>2
  <1>11. fd = [p \in Procs |-> NoFile] /\ off = [p \in Procs |-> 0]
         /\ body = [p \in Procs |-> 1] /\ release = 1 /\ overlapped = {}
         /\ last = [n \in Names |-> Nobody]
    BY DEF Init
  <1>12. Types
    <2>1. DOMAIN pc = Procs /\ DOMAIN job = Procs /\ DOMAIN told = Procs
      BY DEF Init
    <2>2. fd \in [Procs -> Inodes \cup {NoFile}] /\ off \in [Procs -> 0..Chunks]
          /\ release \in 1..Releases /\ body \in [Procs -> 1..release]
          /\ last \in [Names -> Procs \cup {Nobody}] /\ overlapped \subseteq Procs
      BY <1>11, Constants
    <2> QED BY <1>1, <1>3, <1>4, <1>6, <1>10, <2>1, <2>2 DEF Types
  <1>13. Work
    <2>1. \A p \in Procs : fd[p] = NoFile
      BY <1>11
    <2> QED BY <1>7, <1>8, <2>1 DEF Work
  <1>14. dir[Binary] = 1 /\ dir[Temp] = NoFile /\ NoFile # 1
    <2>1. Binary \in Names /\ Temp \in Names /\ Temp # Binary /\ Temp # Out
      BY NamesFacts
    <2> QED BY <1>2, <2>1 DEF NoFile
  <1>15. Separate
    <2>1. Distinct
      BY <1>2 DEF Distinct, NoFile
    <2> QED BY <1>11, <1>14, <2>1 DEF Separate
  <1>16. Alone /\ TempState
    BY <1>7, <1>14 DEF Alone, Upgrading, TempState
  <1>17. Program
    <2>1. Whole(Binary)
      BY <1>4, <1>14, Constants DEF Whole
    <2> QED BY <1>4, <1>14, <2>1 DEF Program
  <1> QED BY <1>12, <1>13, <1>15, <1>16, <1>17 DEF IInv, Disk

\* The server and time.
LEMMA PublishStep ==
  ASSUME IInv, Publish
  PROVE  IInv'
  <1>1. UNCHANGED <<dir, data, last, overlapped, job, kind, pc, todo, fd, off, body, told>>
        /\ release' = release + 1 /\ release < Releases
    BY DEF Publish, disk, filling
  <1>2. release \in 1..Releases /\ release' \in 1..Releases /\ release' # 1
        /\ 1..release \subseteq 1..release'
    BY <1>1, Constants DEF IInv, Types
  <1>3. Types'
    BY <1>1, <1>2 DEF IInv, Types
  <1>4. Work'
    BY <1>1 DEF IInv, Work, Up
  <1>5. \A q : Up(q)' = Up(q) /\ Upgrading(q)' = Upgrading(q)
    BY <1>1 DEF Up, Upgrading
  <1>6. Separate' /\ Alone'
    BY <1>1, <1>5 DEF IInv, Disk, Separate, Distinct, Alone
  <1>7. TempState'
    BY <1>1, <1>2, <1>5 DEF IInv, Disk, TempState
  <1>8. Program'
    BY <1>1, <1>2, <1>5 DEF IInv, Disk, Program, Whole
  <1> QED BY <1>3, <1>4, <1>6, <1>7, <1>8 DEF IInv, Disk

\* A step that changes no file and no command keeps the invariant.
LEMMA UnchangedStep ==
  ASSUME IInv, UNCHANGED <<dir, data, last, overlapped, release, kind, pc, todo, fd, off, body>>,
         DOMAIN job' = Procs, DOMAIN told' = Procs
  PROVE  IInv'
  <1>1. Types' /\ Work'
    BY DEF IInv, Types, Work, Up
  <1>2. \A q : Up(q)' = Up(q) /\ Upgrading(q)' = Upgrading(q)
    BY DEF Up, Upgrading
  <1>3. Separate' /\ Alone' /\ TempState'
    BY <1>2 DEF IInv, Disk, Separate, Distinct, Alone, TempState
  <1>4. Program'
    BY <1>2 DEF IInv, Disk, Program, Whole
  <1> QED BY <1>1, <1>3, <1>4 DEF IInv, Disk

\* ... and every step of a command, of the server, or a kill, keeps them.
THEOREM Step == IInv /\ [Next]_vars => IInv'
  <1> SUFFICES ASSUME IInv, [Next]_vars PROVE IInv'
    OBVIOUS
  <1> USE DEF IInv
  <1>1. CASE Publish
    BY <1>1, PublishStep
  <1>2. ASSUME NEW p \in Procs, Command(p) PROVE IInv'
    <2>1. ASSUME NEW o \in Outcomes, List(p, o) PROVE IInv'
      BY <2>1, ListWaits, WaitsStep
    <2>2. ASSUME NEW o \in Outcomes, Upload(p, o) PROVE IInv'
      BY <2>2, UploadWaits, WaitsStep
    <2>3. ASSUME NEW o \in Outcomes, Create(p, o) PROVE IInv'
      BY <2>3, CreateWaits, WaitsStep
    <2>4. ASSUME NEW o \in Outcomes, NEW status \in Statuses, Poll(p, o, status) PROVE IInv'
      BY <2>4, PollWaits, WaitsStep
    <2>5. ASSUME NEW o \in Outcomes, Fetch(p, o) PROVE IInv'
      BY <2>5, FetchWaits, WaitsStep
    <2>6. CASE Timeout(p)
      BY <2>6, TimeoutWaits, WaitsStep
    <2>7. CASE Open(p)
      BY <2>7, OpenTypes, OpenDisk
    <2>8. CASE OpenFails(p)
      BY <2>8, OpenFailsStep
    <2>9. CASE Copy(p)
      BY <2>9, CopyFacts, CopyDisk
    <2>10. CASE CopyFails(p)
      BY <2>10, CopyFailsStep
    <2>11. CASE SaveOutput(p)
      BY <2>11, SaveOutputStep
    <2>12. CASE SavePicture(p)
      BY <2>12, SavePictureStep
    <2>13. ASSUME NEW fails \in MayFail, RenamePicture(p, fails) PROVE IInv'
      BY <2>13, RenamePictureStep
    <2>14. ASSUME NEW fails \in MayFail, Replace(p, fails) PROVE IInv'
      BY <2>14, ReplaceStep
    <2> HIDE DEF IInv
    <2> QED
      BY <1>2, <2>1, <2>2, <2>3, <2>4, <2>5, <2>6, <2>7, <2>8, <2>9, <2>10, <2>11, <2>12,
         <2>13, <2>14 DEF Command
  <1>3. ASSUME NEW p \in Procs, Killed(p) PROVE IInv'
    BY <1>3, KilledStep
  <1>4. ASSUME NEW p \in Procs, NEW how \in {"ready", "broken"}, JobEnds(p, how) PROVE IInv'
    <2>1. UNCHANGED <<dir, data, last, overlapped, release, kind, pc, todo, fd, off, body, told>>
          /\ DOMAIN job' = Procs /\ DOMAIN told' = Procs
      BY <1>4 DEF JobEnds, disk, filling, Types
    <2> QED BY <2>1, UnchangedStep
  <1>5. CASE UNCHANGED vars
    <2>1. UNCHANGED <<dir, data, last, overlapped, release, kind, pc, todo, fd, off, body,
                      told, job>>
      BY <1>5 DEF vars, disk
    <2>2. DOMAIN job' = Procs /\ DOMAIN told' = Procs
      BY <2>1 DEF Types
    <2> QED BY <2>1, <2>2, UnchangedStep
  <1> HIDE DEF IInv
  <1> QED BY <1>1, <1>2, <1>3, <1>4, <1>5 DEF Next

\* The inductive invariant: the types, what each command has open and has to do, and
\* who may write the program and the temporary file of an upgrade.
THEOREM Invariance == Spec => []IInv
  BY Initial, Step, PTL DEF Spec

\* A program of which no piece is missing can be run.
LEMMA WholeProgram == IInv => BinaryRuns
  <1> SUFFICES ASSUME IInv, ~\E p \in overlapped :
                               kind[p] = "upgrade" /\ (release > 1 \/ off[p] < Chunks)
               PROVE  Whole(Binary)
    BY DEF BinaryRuns
  <1>1. \A q \in overlapped : Up(q) => ~(release > 1) /\ ~(off[q] < Chunks)
    BY DEF Up
  <1>2. release \in 1..Releases /\ Releases \in Nat /\ Chunks \in Nat /\ overlapped \subseteq Procs
        /\ \A q \in Procs : off[q] \in 0..Chunks
    BY Constants DEF IInv, Types
  <1>3. CASE \A q \in overlapped : ~Up(q)
    BY <1>3 DEF IInv, Disk, Program
  <1>4. CASE \E q \in overlapped : Up(q)
    <2>1. release = 1
      BY <1>1, <1>2, <1>4
    <2>2. \A q \in overlapped, c \in 1..Chunks : Up(q) => ~(off[q] < c)
      BY <1>1, <1>2
    <2>3. \A c \in 1..Chunks : data[dir[Binary]][c] = 1
      BY <2>1, <2>2 DEF IInv, Disk, Program
    <2>4. dir[Binary] # NoFile /\ 1 \in 1..Releases
      BY <1>2 DEF IInv, Disk, Separate
    <2> QED BY <2>3, <2>4 DEF Whole
  <1> QED BY <1>3, <1>4

\* The larkctl program can be run at any time, whatever upgrades are broken off,
\* killed, repeated or run beside other commands (doUpgrade); with the exception that
\* BinaryRuns states for two upgrades at the same time.
THEOREM ProgramRuns == Spec => []BinaryRuns
  BY Invariance, WholeProgram, PTL

-----------------------------------------------------------------------------
(* What the user is told.                                                  *)

Exports == {"docs_export", "sheets_export", "im_download"}

\* The job ended well, as far as the answers say.
Well(p) == job[p] = "ready" \/ p \in unstated

\* A verdict is the last word, and an export that is past its job has a job done.
Verdict(p) ==
  /\ told[p] = "imported" => pc[p] \in Ended /\ Well(p)
  /\ told[p] = "broken" => pc[p] \in Ended /\ job[p] = "broken"
  /\ kind[p] \in Exports /\ pc[p] \in {"open", "copy"} => Well(p)

Verdicts == \A p \in Procs : Verdict(p)

\* An export asks for its job before it opens its file.
LEMMA ExportStages ==
  ASSUME Types, NEW p \in Procs, pc[p] \in {"list", "upload", "request", "fetch"}
  PROVE  kind[p] \notin Exports
  <1>1. kind[p] \in Kinds /\ pc[p] \in StagesOf(kind[p])
    BY DEF Types, Ended
  <1>2. kind[p] \in Exports => StagesOf(kind[p]) = {"create", "poll", "open"}
    BY DEF Exports, StagesOf
  <1> QED BY <1>1, <1>2

\* A process of which nothing changes keeps its verdict.
LEMMA OtherVerdicts ==
  ASSUME Types, Verdicts, NEW p \in Procs, Verdict(p)', kind' = kind,
         unstated \subseteq unstated',
         \A q \in Procs \ {p} : pc'[q] = pc[q] /\ job'[q] = job[q] /\ told'[q] = told[q]
  PROVE  Verdicts'
  <1>1. ASSUME NEW q \in Procs \ {p} PROVE Verdict(q)'
    BY <1>1 DEF Verdicts, Verdict, Well
  <1> QED BY <1>1 DEF Verdicts

\* No verdict is told by a step that ends otherwise than in one.
LEMMA PlainStep ==
  ASSUME Types, Verdicts, NEW p \in Procs, kind' = kind, job' = job,
         unstated' = unstated, pc[p] \notin Ended,
         NEW s, pc' = [pc EXCEPT ![p] = s],
         \/ told' = told
         \/ \E words \in {"error", "timeout", "saved"} : told' = [told EXCEPT ![p] = words],
         kind[p] \in Exports => s \in Ended \/ Well(p)
  PROVE  Verdicts'
  <1>1. told[p] # "imported" /\ told[p] # "broken"
    BY DEF Verdicts, Verdict
  <1>2. told'[p] # "imported" /\ told'[p] # "broken"
        /\ \A q \in Procs \ {p} : told'[q] = told[q]
    BY <1>1 DEF Types
  <1>3. pc'[p] = s /\ \A q \in Procs \ {p} : pc'[q] = pc[q]
    BY DEF Types
  <1>4. Verdict(p)'
    BY <1>2, <1>3 DEF Verdict, Well, Ended
  <1> QED BY <1>2, <1>3, <1>4, OtherVerdicts

\* Going on to the next file says nothing new.
LEMMA NextFileVerdicts ==
  ASSUME Types, Work, Verdicts, NEW p \in Procs, pc[p] \in {"open", "copy"}, NextFile(p),
         UNCHANGED <<kind, job, unstated>>
  PROVE  Verdicts'
  <1> DEFINE s == IF Len(todo[p]) = 1 THEN "done" ELSE "open"
  <1>1. pc' = [pc EXCEPT ![p] = s] /\ told' = told
    BY DEF NextFile, Goes
  <1>2. pc[p] \notin Ended
    BY DEF Ended
  <1>3. kind[p] \in Exports => s \in Ended \/ Well(p)
    BY DEF Verdicts, Verdict, Ended
  <1> HIDE DEF s
  <1> QED BY <1>1, <1>2, <1>3, PlainStep

\* The end of a command that fills files says nothing of a job.
LEMMA ClosesVerdicts ==
  ASSUME Types, Verdicts, NEW p \in Procs, pc[p] \notin Ended, NEW how \in Ended,
         NEW words \in {"error", "timeout", "saved"}, Ends(p, how, words),
         UNCHANGED <<kind, job, unstated>>
  PROVE  Verdicts'
  <1>1. pc' = [pc EXCEPT ![p] = how] /\ told' = [told EXCEPT ![p] = words]
    BY DEF Ends, Goes
  <1> QED BY <1>1, PlainStep

\* The end of a command that gives up its job.
LEMMA GivesUpVerdicts ==
  ASSUME Types, Verdicts, NEW p \in Procs, pc[p] \notin Ended,
         NEW words \in {"error", "timeout"}, GivesUp(p, words), UNCHANGED <<kind, job, unstated>>
  PROVE  Verdicts'
  <1>1. CASE kind[p] = "sheet_images"
    <2>1. pc' = [pc EXCEPT ![p] = "open"] /\ told' = told /\ kind[p] \notin Exports
      BY <1>1 DEF GivesUp, Goes, Exports
    <2> QED BY <2>1, PlainStep
  <1>2. CASE kind[p] # "sheet_images"
    BY <1>2, ClosesVerdicts DEF GivesUp, Ended
  <1> QED BY <1>1, <1>2

\* Consent or a ticket.
LEMMA CreateVerdicts ==
  ASSUME IInv, Verdicts, NEW p \in Procs, NEW o, Create(p, o)
  PROVE  Verdicts'
  <1> USE DEF IInv
  <1>1. pc[p] = "create" /\ pc[p] \notin Ended /\ UNCHANGED <<kind, unstated>>
        /\ told[p] \notin {"imported", "broken"}
    BY DEF Create, filling, Ended, Verdicts, Verdict
  <1>2. \A q \in Procs \ {p} : pc'[q] = pc[q] /\ job'[q] = job[q] /\ told'[q] = told[q]
    BY <1>1 DEF Create, Goes, Ends, GivesUp, Types
  <1>3. told'[p] \notin {"imported", "broken"}
    BY <1>1 DEF Create, Ends, GivesUp, Types
  <1>4. kind[p] \in Exports => \/ pc'[p] \in {"poll", "failed"}
                               \/ pc'[p] = "open" /\ job'[p] = "ready"
    BY DEF Create, Goes, Ends, GivesUp, Types, Exports
  <1>5. Verdict(p)'
    BY <1>1, <1>3, <1>4 DEF Verdict, Well
  <1> QED BY <1>1, <1>2, <1>5, OtherVerdicts

\* An answer of the server about the job.
LEMMA PollVerdicts ==
  ASSUME IInv, Verdicts, NEW p \in Procs, NEW o, NEW status, Poll(p, o, status)
  PROVE  Verdicts'
  <1> USE DEF IInv
  <1>1. pc[p] = "poll" /\ pc[p] \notin Ended /\ UNCHANGED <<kind, job>>
        /\ unstated \subseteq unstated' /\ told[p] \notin {"imported", "broken"}
    BY DEF Poll, filling, Ended, Verdicts, Verdict
  <1>2. \A q \in Procs \ {p} : pc'[q] = pc[q] /\ job'[q] = job[q] /\ told'[q] = told[q]
    BY <1>1 DEF Poll, Goes, Ends, GivesUp, Types
  <1>3. ASSUME o = "ok", Finished(status) PROVE Well(p)'
    <2>1. status = "ready" \/ status = "missing"
      BY <1>3 DEF Finished
    <2>2. status = "missing" => p \in unstated'
      BY <1>3 DEF Poll
    <2>3. status # "missing" => job'[p] = status
      BY <1>1 DEF Poll, Answers
    <2> QED BY <2>1, <2>2, <2>3 DEF Well
  <1>4. status = "broken" => job'[p] = "broken"
    BY <1>1 DEF Poll, Answers
  <1>5. Verdict(p)'
    <2>1. CASE UNCHANGED <<pc, told>>
      BY <1>1, <2>1 DEF Verdict, Verdicts
    <2>2. CASE \E words \in {"error", "broken"} :
                 GivesUp(p, words) /\ (words = "broken" => status = "broken")
      BY <1>1, <1>4, <2>2 DEF GivesUp, Goes, Ends, Types, Verdict, Verdicts, Ended, Exports
    <2>3. CASE o = "ok" /\ Finished(status) /\ Ends(p, "done", "imported")
      BY <1>1, <1>3, <2>3 DEF Goes, Ends, Types, Verdict, Ended
    <2>4. CASE o = "ok" /\ Finished(status) /\ told' = told
      BY <1>1, <1>3, <2>4 DEF Verdict, Ended
    <2> QED BY <2>1, <2>2, <2>3, <2>4 DEF Poll
  <1> QED BY <1>1, <1>2, <1>5, OtherVerdicts

\* A piece is written only after the job.
LEMMA CopyVerdicts ==
  ASSUME IInv, Verdicts, NEW p \in Procs, Copy(p)
  PROVE  Verdicts'
  <1>1. UNCHANGED <<kind, job, unstated, pc, told>>
    BY DEF Copy
  <1> QED BY <1>1 DEF Verdicts, Verdict, Well

\* A file is opened only after the job.
LEMMA OpenVerdicts ==
  ASSUME IInv, Verdicts, NEW p \in Procs, Open(p)
  PROVE  Verdicts'
  <1> USE DEF IInv
  <1>1. pc[p] = "open" /\ pc[p] \notin Ended /\ UNCHANGED <<kind, job, unstated, told>>
        /\ pc' = [pc EXCEPT ![p] = "copy"]
    BY DEF Open, Goes, Ended
  <1>2. pc'[p] = "copy" /\ \A q \in Procs \ {p} : pc'[q] = pc[q]
    BY <1>1 DEF Types
  <1>3. Verdict(p)'
    BY <1>1, <1>2 DEF Verdict, Verdicts, Well, Ended
  <1> QED BY <1>1, <1>2, <1>3, OtherVerdicts

\* Every step keeps the verdicts true.
LEMMA VerdictsStep == IInv /\ Verdicts /\ [Next]_vars => Verdicts'
  <1> SUFFICES ASSUME IInv, Verdicts, [Next]_vars PROVE Verdicts'
    OBVIOUS
  <1>0. Types /\ Work
    BY DEF IInv
  <1>1. CASE Publish
    BY <1>1 DEF Publish, filling, Verdicts, Verdict, Well
  <1>2. ASSUME NEW p \in Procs, Command(p) PROVE Verdicts'
    <2>1. ASSUME NEW o \in Outcomes, List(p, o) \/ Upload(p, o) \/ Fetch(p, o) PROVE Verdicts'
      <3>1. pc[p] \notin Ended /\ kind[p] \notin Exports
        BY <1>0, <2>1, ExportStages DEF List, Upload, Fetch, Ended
      <3>2. UNCHANGED <<kind, job, unstated>>
        BY <2>1 DEF List, Upload, Fetch, filling
      <3>3. /\ \E s : pc' = [pc EXCEPT ![p] = s]
            /\ told' = told \/ told' = [told EXCEPT ![p] = "error"]
        BY <2>1, Zenon DEF List, Upload, Fetch, Goes, Ends
      <3> QED BY <1>0, <3>1, <3>2, <3>3, PlainStep
    <2>2. ASSUME NEW o \in Outcomes, Create(p, o) PROVE Verdicts'
      BY <2>2, CreateVerdicts
    <2>3. ASSUME NEW o \in Outcomes, NEW status \in Statuses, Poll(p, o, status) PROVE Verdicts'
      BY <2>3, PollVerdicts
    <2>4. CASE Timeout(p)
      BY <1>0, <2>4, GivesUpVerdicts DEF Timeout, filling, Ended
    <2>5. CASE Open(p)
      BY <2>5, OpenVerdicts
    <2>6. CASE OpenFails(p)
      <3>1. pc[p] = "open" /\ pc[p] \notin Ended /\ UNCHANGED <<kind, job, unstated>>
            /\ (NextFile(p) \/ Ends(p, "failed", "error"))
        BY <2>6 DEF OpenFails, Closes, Ended
      <3> QED BY <1>0, <3>1, NextFileVerdicts, ClosesVerdicts DEF Ended
    <2>7. CASE Copy(p)
      BY <2>7, CopyVerdicts
    <2>8. CASE CopyFails(p)
      <3>1. pc[p] = "copy" /\ pc[p] \notin Ended /\ UNCHANGED <<kind, job, unstated>>
            /\ (NextFile(p) \/ Ends(p, "failed", "error"))
        BY <2>8 DEF CopyFails, Closes, Ended
      <3> QED BY <1>0, <3>1, NextFileVerdicts, ClosesVerdicts DEF Ended
    <2>9. CASE SaveOutput(p)
      <3>1. pc[p] \notin Ended /\ UNCHANGED <<kind, job, unstated>> /\ Ends(p, "done", "saved")
        BY <2>9 DEF SaveOutput, Complete, Closes, Ended
      <3> QED BY <1>0, <3>1, ClosesVerdicts DEF Ended
    <2>10. CASE SavePicture(p)
      BY <1>0, <2>10, NextFileVerdicts DEF SavePicture, Complete
    <2>11. ASSUME NEW fails \in MayFail, RenamePicture(p, fails) PROVE Verdicts'
      BY <1>0, <2>11, NextFileVerdicts DEF RenamePicture, Complete
    <2>12. ASSUME NEW fails \in MayFail, Replace(p, fails) PROVE Verdicts'
      <3>1. pc[p] \notin Ended /\ UNCHANGED <<kind, job, unstated>>
            /\ (Ends(p, "done", "saved") \/ Ends(p, "failed", "error"))
        BY <2>12 DEF Replace, Complete, Closes, Ended
      <3> QED BY <1>0, <3>1, ClosesVerdicts DEF Ended
    <2> QED
      BY <1>2, <2>1, <2>2, <2>3, <2>4, <2>5, <2>6, <2>7, <2>8, <2>9, <2>10, <2>11, <2>12
      DEF Command
  <1>3. ASSUME NEW p \in Procs, Killed(p) PROVE Verdicts'
    <2>1. pc[p] \notin Ended /\ UNCHANGED <<kind, job, unstated, told>> /\ "killed" \in Ended
          /\ pc' = [pc EXCEPT ![p] = "killed"]
      BY <1>3 DEF Killed, Goes, Ended
    <2> QED BY <1>0, <2>1, PlainStep
  <1>4. ASSUME NEW p \in Procs, NEW how \in {"ready", "broken"}, JobEnds(p, how) PROVE Verdicts'
    <2>1. job[p] = "running" /\ UNCHANGED <<kind, pc, unstated, told>> /\ job' = [job EXCEPT ![p] = how]
      BY <1>4 DEF JobEnds, filling
    <2>2. \A q \in Procs \ {p} : job'[q] = job[q]
      BY <1>0, <2>1 DEF Types
    <2>3. Verdict(p)'
      BY <1>0, <2>1 DEF Verdicts, Verdict, Well, Types
    <2> QED BY <1>0, <2>1, <2>2, <2>3, OtherVerdicts
  <1>5. CASE UNCHANGED vars
    BY <1>5 DEF vars, Verdicts, Verdict, Well
  <1> QED BY <1>1, <1>2, <1>3, <1>4, <1>5 DEF Next

\* The verdicts of drive import, of the exports and of the consent that im download
\* waits for are the server's: nothing is called imported or broken, and no output is
\* opened, before the job has ended so, unless an answer came without a job_status.
THEOREM VerdictsTrue == Spec => []VerdictsHold
  <1>1. Init => Verdicts
    <2> SUFFICES ASSUME Init, NEW p \in Procs PROVE Verdict(p)
      BY DEF Verdicts
    <2>1. kind[p] \in Kinds /\ told[p] = "nothing"
      BY Constants DEF Init
    <2>2. kind[p] \in Exports => pc[p] \notin {"open", "copy"}
      BY <2>1 DEF Init, Exports, Profile, DocsExport, SheetsExport, ImDownload
    <2> QED BY <2>1, <2>2 DEF Verdict
  <1>2. IInv /\ Verdicts => VerdictsHold
    BY DEF IInv, Work, Verdicts, Verdict, Well, VerdictsHold, Exports
  <1> QED BY <1>1, <1>2, Invariance, VerdictsStep, PTL DEF Spec

-----------------------------------------------------------------------------
(* The files: what a command has open, what it has reported, and what      *)
(* excuses a file that is not complete.                                    *)

\* What a command of kind k may open, and the names that files are renamed to.
FilesOf(k) ==
  IF k = "upgrade" THEN {Temp}
  ELSE IF k \in {"images", "sheet_images"} THEN {Png(i) : i \in 1..NImages} \cup {InSheet}
  ELSE {Out}
Renamed == {Binary} \cup {Jpg(i) : i \in 1..NImages}

\* A command opens no name twice, and none that it has reported.
Queue ==
  /\ DOMAIN listed = Procs
  /\ \A p \in Procs :
       /\ listed[p] \subseteq Names
       /\ \A k \in DOMAIN todo[p] : todo[p][k] \in FilesOf(kind[p])
       /\ pc[p] \notin Ended =>
            /\ \A j, k \in DOMAIN todo[p] : todo[p][j] = todo[p][k] => j = k
            /\ \A k \in DOMAIN todo[p] : todo[p][k] \notin listed[p]
       /\ pc[p] \notin {"open", "copy"} \cup Ended =>
            /\ listed[p] = {}
            /\ \A k \in DOMAIN todo[p] : todo[p][k] # InSheet

\* A command that writes a file is the last one that opened it and has it to itself, or
\* it is overlapped, and so is the last one.
Owns(p) ==
  pc[p] = "copy" =>
    /\ \A q \in Procs : q # p /\ pc[q] = "copy" /\ Current(q) = Current(p) => p \in overlapped
    /\ last[Current(p)] = p \/ last[Current(p)] \in overlapped
    /\ p \notin overlapped =>
         /\ dir[Current(p)] = fd[p] /\ last[Current(p)] = p
         /\ \A c \in 1..off[p] : data[fd[p]][c] = body[p]
    /\ \A n \in Names :
         dir[n] = fd[p] => n = Current(p) \/ (n \in Renamed /\ last[n] \in overlapped)
Sharing == \A p \in Procs : Owns(p)

Listed == \A p \in Procs \ overlapped : \A n \in listed[p] : last[n] = p => Whole(n)

Unfinished(p, n) ==
  \/ pc[p] = "copy" /\ Current(p) = n
  \/ pc[p] = "killed"
  \/ pc[p] = "failed" /\ Profile(p).keeps

Excused(n) ==
  /\ last[n] \in Procs
  /\ last[n] \in overlapped \/ (n \notin Renamed /\ Unfinished(last[n], n))

Accounted ==
  /\ \A n \in Names : dir[n] # NoFile /\ ~Whole(n) => Excused(n)
  /\ \A n \in Renamed : last[n] \in Procs => dir[n] # NoFile

Filled == Queue /\ Sharing /\ Listed /\ Accounted

-----------------------------------------------------------------------------
(* What a command opens next.                                              *)

\* No command opens a name that files are renamed to.
LEMMA FilesOfFacts ==
  /\ \A k \in Kinds : FilesOf(k) \subseteq Names /\ FilesOf(k) \cap Renamed = {}
  /\ Renamed \subseteq Names /\ InSheet \notin Renamed
  BY DEF FilesOf, Renamed, Names, Pictures, Binary, Temp, Out, InSheet, Png, Jpg

\* The file that a command opens is its own kind's, and it has not reported it.
LEMMA OpenedFile ==
  ASSUME Types, Work, Queue, NEW p \in Procs, pc[p] \in {"open", "copy"}
  PROVE  /\ todo[p] # << >> /\ 1 \in DOMAIN todo[p] /\ Current(p) = todo[p][1]
         /\ Current(p) \in Names /\ Current(p) \in FilesOf(kind[p])
         /\ Current(p) \notin Renamed /\ Current(p) \notin listed[p]
  <1>1. todo[p] # << >> /\ Current(p) \in Names
    BY CurrentFile
  <1>2. todo[p] \in Seq(Names)
    BY DEF Types
  <1>3. 1 \in DOMAIN todo[p] /\ Head(todo[p]) = todo[p][1]
    BY <1>1, <1>2
  <1>4. Current(p) = todo[p][1]
    BY <1>3 DEF Current
  <1>5. Current(p) \in FilesOf(kind[p]) /\ kind[p] \in Kinds
    BY <1>3, <1>4 DEF Queue, Types
  <1>6. Current(p) \notin listed[p]
    BY <1>3, <1>4 DEF Queue, Ended
  <1>7. Current(p) \notin Renamed
    BY <1>5, FilesOfFacts
  <1> QED BY <1>1, <1>3, <1>4, <1>5, <1>6, <1>7

\* A command keeps its profile.
LEMMA SameProfile ==
  ASSUME kind' = kind, NEW p
  PROVE  (Profile(p).keeps)' = Profile(p).keeps
  BY DEF Profile

\* A name refers to a whole file as long as its inode is not written.
LEMMA WholeMoved ==
  ASSUME NEW m, NEW n, dir'[n] = dir[m], dir[m] = NoFile \/ data'[dir[m]] = data[dir[m]]
  PROVE  Whole(n)' = Whole(m)
  BY Zenon DEF Whole

\* What a command has written that has its file to itself.
LEMMA OwnFile ==
  ASSUME Types, Work, Sharing, NEW p \in Procs, Complete(p), p \notin overlapped
  PROVE  Whole(Current(p)) /\ last[Current(p)] = p
  <1>1. /\ pc[p] = "copy" /\ off[p] = Chunks /\ fd[p] # NoFile
        /\ dir[Current(p)] = fd[p] /\ last[Current(p)] = p
        /\ \A c \in 1..off[p] : data[fd[p]][c] = body[p]
    BY DEF Complete, Sharing, Owns, Work
  <1>2. body[p] \in 1..Releases
    BY Constants DEF Types
  <1> QED BY <1>1, <1>2 DEF Whole

-----------------------------------------------------------------------------
(* A command that asks the server, and what does not touch files at all.   *)

\* The files, and what is known of them, are as they were.
LEMMA SameFiles ==
  ASSUME Types, Work, Filled, UNCHANGED <<dir, data, last, overlapped, kind, fd, off, listed>>,
         NEW P \in SUBSET Procs,
         \A q \in Procs : q \notin P => pc'[q] = pc[q] /\ todo'[q] = todo[q] /\ body'[q] = body[q],
         \A q \in P : pc[q] \notin {"copy"} \cup Ended /\ pc'[q] # "copy"
  PROVE  Sharing' /\ Listed' /\ Accounted'
  <1>1. ASSUME NEW q \in Procs, pc'[q] = "copy"
        PROVE  q \notin P /\ pc[q] = "copy" /\ Current(q)' = Current(q)
    BY <1>1 DEF Current
  <1>2. Sharing'
    <2> SUFFICES ASSUME NEW q \in Procs, pc'[q] = "copy" PROVE Owns(q)'
      BY DEF Sharing, Owns
    <2>1. pc[q] = "copy" /\ Current(q)' = Current(q)
      BY <1>1
    <2>2. Owns(q)
      BY DEF Filled, Sharing
    <2>3. \A r \in Procs : r # q /\ pc'[r] = "copy" /\ Current(r)' = Current(q) => q \in overlapped
      BY <1>1, <2>1, <2>2 DEF Owns
    <2> QED BY <2>1, <2>2, <2>3 DEF Owns
  <1>3. \A n : Whole(n)' = Whole(n)
    BY WholeMoved
  <1>4. Listed'
    BY <1>3 DEF Filled, Listed
  <1>5. ASSUME NEW n, Excused(n)
        PROVE  Excused(n)'
    <2>1. last[n] \in Procs /\ last' = last /\ overlapped' = overlapped
      BY <1>5 DEF Excused
    <2>2. CASE last[n] \in overlapped
      BY <2>1, <2>2 DEF Excused
    <2>3. CASE n \notin Renamed /\ Unfinished(last[n], n)
      <3>1. last[n] \notin P
        BY <2>1, <2>3 DEF Unfinished, Ended
      <3>2. pc'[last[n]] = pc[last[n]] /\ todo'[last[n]] = todo[last[n]]
        BY <2>1, <3>1
      <3>3. (Profile(last[n]).keeps)' = Profile(last[n]).keeps
        BY SameProfile
      <3>4. Unfinished(last[n], n)'
        BY <2>1, <2>3, <3>2, <3>3 DEF Unfinished, Current
      <3> QED BY <2>1, <2>3, <3>4 DEF Excused
    <2> QED BY <1>5, <2>2, <2>3 DEF Excused
  <1>6. Accounted'
    BY <1>3, <1>5 DEF Filled, Accounted
  <1> QED BY <1>2, <1>4, <1>6

\* A request leaves the files, and what was reported, as they were.
LEMMA WaitsFilled ==
  ASSUME Types, Work, Filled, NEW p \in Procs, Waits(p), listed' = listed, pc[p] # "open",
         todo'[p] = todo[p] \/ pc'[p] = "open"
  PROVE  Filled'
  <1>1. /\ UNCHANGED <<dir, data, last, overlapped, kind, fd, off, listed>>
        /\ pc[p] \notin {"open", "copy"} \cup Ended
        /\ pc'[p] \in StagesOf(kind[p]) \cup Ended
        /\ \A q \in Procs \ {p} : pc'[q] = pc[q] /\ todo'[q] = todo[q] /\ body'[q] = body[q]
    BY DEF Waits, disk, Types
  <1>2. Sharing' /\ Listed' /\ Accounted'
    <2>1. {p} \in SUBSET Procs /\ pc'[p] # "copy"
      BY <1>1, StageMembers DEF Types, Ended
    <2> QED BY <1>1, <2>1, SameFiles
  <1>3. /\ listed[p] \subseteq Names /\ listed[p] = {}
        /\ \A k \in DOMAIN todo[p] : todo[p][k] \in FilesOf(kind[p]) /\ todo[p][k] # InSheet
        /\ \A j, k \in DOMAIN todo[p] : todo[p][j] = todo[p][k] => j = k
    BY <1>1 DEF Filled, Queue
  <1>4. /\ \A k \in DOMAIN todo'[p] : todo'[p][k] \in FilesOf(kind[p])
        /\ \A j, k \in DOMAIN todo'[p] : todo'[p][j] = todo'[p][k] => j = k
        /\ pc'[p] # "open" => \A k \in DOMAIN todo'[p] : todo'[p][k] # InSheet
    <2>1. CASE todo'[p] = todo[p]
      BY <1>3, <2>1
    <2>2. CASE kind[p] = "sheet_images" /\ todo'[p] = <<InSheet>> \o todo[p] /\ pc'[p] = "open"
      <3> DEFINE t == todo[p]
                 u == <<InSheet>> \o t
      <3>1. t \in Seq(Names) /\ DOMAIN t = 1..Len(t) /\ Len(t) \in Nat
        BY DEF Types
      <3>2. InSheet \in FilesOf(kind[p])
        BY <2>2 DEF FilesOf
      <3> HIDE DEF t
      <3>3. /\ DOMAIN u = 1 .. Len(t) + 1 /\ u[1] = InSheet
            /\ \A k \in 2 .. Len(t) + 1 : k - 1 \in 1..Len(t) /\ u[k] = t[k - 1]
        BY <3>1
      <3>4. \A k \in DOMAIN t : t[k] \in FilesOf(kind[p]) /\ t[k] # InSheet
        BY <1>3 DEF t
      <3>5. \A j, k \in DOMAIN t : t[j] = t[k] => j = k
        BY <1>3 DEF t
      <3> HIDE DEF u
      <3>6. \A k \in DOMAIN u : k = 1 \/ k \in 2 .. Len(t) + 1
        BY <3>1, <3>3
      <3>7. \A k \in DOMAIN u : u[k] \in FilesOf(kind[p])
        BY <3>1, <3>2, <3>3, <3>4, <3>6
      <3>8. ASSUME NEW j \in DOMAIN u, NEW k \in DOMAIN u, u[j] = u[k] PROVE j = k
        <4>1. CASE j = 1 \/ k = 1
          BY <3>1, <3>3, <3>4, <3>6, <3>8, <4>1
        <4>2. CASE j # 1 /\ k # 1
          <5>1. j \in 2 .. Len(t) + 1 /\ k \in 2 .. Len(t) + 1
            BY <3>6, <4>2
          <5>2. t[j - 1] = t[k - 1] /\ j - 1 \in DOMAIN t /\ k - 1 \in DOMAIN t
            BY <3>1, <3>3, <3>8, <5>1
          <5>3. j - 1 = k - 1
            BY <3>5, <5>2
          <5> QED BY <5>1, <5>3
        <4> QED BY <4>1, <4>2
      <3>9. todo'[p] = u
        BY <2>2 DEF u, t
      <3> QED BY <2>2, <3>7, <3>8, <3>9
    <2> QED BY <2>1, <2>2 DEF Waits
  <1>5. Queue'
    <2>1. DOMAIN listed' = Procs
      BY <1>1 DEF Filled, Queue
    <2> SUFFICES ASSUME NEW q \in Procs
                 PROVE  /\ listed'[q] \subseteq Names
                        /\ \A k \in DOMAIN todo'[q] : todo'[q][k] \in FilesOf(kind'[q])
                        /\ pc'[q] \notin Ended =>
                             /\ \A j, k \in DOMAIN todo'[q] : todo'[q][j] = todo'[q][k] => j = k
                             /\ \A k \in DOMAIN todo'[q] : todo'[q][k] \notin listed'[q]
                        /\ pc'[q] \notin {"open", "copy"} \cup Ended =>
                             /\ listed'[q] = {}
                             /\ \A k \in DOMAIN todo'[q] : todo'[q][k] # InSheet
      BY <2>1 DEF Queue
    <2>2. CASE q = p
      BY <1>1, <1>3, <1>4, <2>2
    <2>3. CASE q # p
      <3>1. pc'[q] = pc[q] /\ todo'[q] = todo[q] /\ listed'[q] = listed[q] /\ kind'[q] = kind[q]
        BY <1>1, <2>3
      <3> QED BY <3>1 DEF Filled, Queue
    <2> QED BY <2>2, <2>3
  <1> QED BY <1>2, <1>5 DEF Filled

-----------------------------------------------------------------------------
(* A command that leaves a file.                                           *)

\* A name is left as it was, removed when it was being written, or given to the file
\* that was complete.
LeftAs(p, n) ==
  \/ dir'[n] = dir[n] /\ last'[n] = last[n]
  \/ pc[p] = "copy" /\ n = Current(p) /\ dir'[n] = NoFile /\ last'[n] = last[n]
  \/ /\ Complete(p) /\ n \in Renamed /\ dir[Current(p)] # NoFile
     /\ dir'[n] = dir[Current(p)] /\ last'[n] = p

\* An incomplete file stays only where a command may leave one, and only complete
\* ones are reported.
Leaving(p) ==
  /\ Leaves(p)
  /\ \A n \in Names : LeftAs(p, n)
  /\ pc[p] = "copy" => \/ Complete(p) \/ dir'[Current(p)] = NoFile
                       \/ pc'[p] = "killed" \/ (pc'[p] = "failed" /\ Profile(p).keeps)
  /\ pc'[p] \notin Ended => pc[p] \in {"open", "copy"} /\ todo'[p] = Tail(todo[p])
  /\ DOMAIN listed' = Procs /\ \A q \in Procs \ {p} : listed'[q] = listed[q]
  /\ \A n \in listed'[p] : \/ n \in listed[p]
                           \/ Complete(p) /\ n = Current(p) /\ dir'[n] = dir[n]
                           \/ Complete(p) /\ n \in Renamed

\* Whoever leaves a file disturbs no other command.
LEMMA LeavesFacts ==
  ASSUME Types, Types', Work, Filled, NEW p \in Procs, Leaving(p)
  PROVE  /\ UNCHANGED <<data, kind, off, body, overlapped>> /\ pc[p] \notin Ended
         /\ pc'[p] \in Ended \/ pc'[p] = "open"
         /\ \A q \in Procs \ {p} : /\ pc'[q] = pc[q] /\ todo'[q] = todo[q] /\ fd'[q] = fd[q]
                                   /\ Current(q)' = Current(q)
         /\ pc[p] = "copy" => Current(p) \in Names /\ Current(p) \notin Renamed
                              /\ Current(p) \notin listed[p]
         /\ \A q \in Procs : pc'[q] = "copy" => q # p /\ pc[q] = "copy"
         /\ \A q \in Procs : pc[q] = "copy" => Current(q) \in Names /\ Current(q) \notin Renamed
  <1>1. /\ UNCHANGED <<data, kind, off, body, overlapped>> /\ pc[p] \notin Ended
        /\ pc'[p] \in Ended \/ pc'[p] = "open"
    BY DEF Leaving, Leaves
  <1>2. \A q \in Procs \ {p} : pc'[q] = pc[q] /\ todo'[q] = todo[q] /\ fd'[q] = fd[q]
    BY DEF Leaving, Leaves, Types
  <1>3. \A q \in Procs \ {p} : Current(q)' = Current(q)
    BY <1>2 DEF Current
  <1>4. \A q \in Procs : pc[q] = "copy" => Current(q) \in Names /\ Current(q) \notin Renamed
                                          /\ Current(q) \notin listed[q]
    BY OpenedFile DEF Filled
  <1>5. \A q \in Procs : pc'[q] = "copy" => q # p /\ pc[q] = "copy"
    BY <1>1, <1>2 DEF Ended
  <1> QED BY <1>1, <1>2, <1>3, <1>4, <1>5

\* The others have their files as before, or are overlapped.
LEMMA LeavingSharing ==
  ASSUME Types, Types', Work, Filled, NEW p \in Procs, Leaving(p)
  PROVE  Sharing'
  <1> SUFFICES ASSUME NEW q \in Procs, pc'[q] = "copy" PROVE Owns(q)'
    BY DEF Sharing, Owns
  <1>1. /\ UNCHANGED <<data, off, body, overlapped>>
        /\ \A r \in Procs : pc'[r] = "copy" => pc[r] = "copy" /\ Current(r)' = Current(r)
        /\ q # p /\ pc[q] = "copy" /\ Current(q)' = Current(q) /\ fd'[q] = fd[q]
        /\ Current(q) \in Names /\ Current(q) \notin Renamed
        /\ pc[p] = "copy" => Current(p) \in Names /\ Current(p) \notin Renamed
    BY LeavesFacts
  <1>2. Owns(q) /\ Owns(p) /\ fd[q] # NoFile
    BY <1>1 DEF Filled, Sharing, Work
  <1>3. \A n \in Names : LeftAs(p, n)
    BY DEF Leaving
  <1>4. \A r \in Procs : r # q /\ pc'[r] = "copy" /\ Current(r)' = Current(q) => q \in overlapped
    BY <1>1, <1>2 DEF Owns
  <1>5. last'[Current(q)] = last[Current(q)]
    BY <1>1, <1>3 DEF LeftAs
  <1>6. q \notin overlapped => dir'[Current(q)] = dir[Current(q)]
    BY <1>1, <1>2, <1>3 DEF LeftAs, Owns
  <1>7. ASSUME NEW n \in Names, dir'[n] = fd[q]
        PROVE  n = Current(q) \/ (n \in Renamed /\ last'[n] \in overlapped)
    <2>1. CASE dir'[n] = dir[n] /\ last'[n] = last[n]
      BY <1>1, <1>2, <1>7, <2>1 DEF Owns
    <2>2. CASE Complete(p) /\ n \in Renamed /\ dir'[n] = dir[Current(p)] /\ last'[n] = p
      <3>1. pc[p] = "copy" /\ dir[Current(p)] = fd[q]
        BY <1>7, <2>2 DEF Complete
      <3>2. Current(p) = Current(q)
        BY <1>1, <1>2, <3>1 DEF Owns
      <3>3. p \in overlapped
        BY <1>1, <1>2, <3>1, <3>2 DEF Owns
      <3> QED BY <2>2, <3>3
    <2> QED BY <1>2, <1>3, <1>7, <2>1, <2>2 DEF LeftAs
  <1> QED BY <1>1, <1>2, <1>4, <1>5, <1>6, <1>7 DEF Owns

\* What is reported now is complete, and what was reported before still is.
LEMMA LeavingListed ==
  ASSUME Types, Types', Work, Filled, NEW p \in Procs, Leaving(p)
  PROVE  Listed'
  <1> SUFFICES ASSUME NEW q \in Procs, q \notin overlapped', NEW n \in listed'[q], last'[n] = q
               PROVE  Whole(n)'
    BY DEF Listed
  <1>1. /\ UNCHANGED <<data, overlapped>> /\ pc[p] \notin Ended
        /\ pc[p] = "copy" => Current(p) \in Names /\ Current(p) \notin Renamed
                             /\ Current(p) \notin listed[p]
    BY LeavesFacts
  <1>2. Owns(p) /\ listed[q] \subseteq Names /\ Renamed \subseteq Names
    BY FilesOfFacts DEF Filled, Sharing, Queue
  <1>3. q # p => n \in listed[q]
    BY DEF Leaving
  <1>4. n \in listed[q] \/ (q = p /\ Complete(p) /\ n = Current(p) /\ dir'[n] = dir[n])
        \/ (q = p /\ Complete(p) /\ n \in Renamed)
    BY <1>3 DEF Leaving
  <1>5. n \in Names
    BY <1>1, <1>2, <1>4 DEF Complete
  <1>6. LeftAs(p, n)
    BY <1>5 DEF Leaving
  <1>7. Complete(p) /\ p \notin overlapped => Whole(Current(p))
    BY OwnFile DEF Filled
  <1>8. CASE dir'[n] = dir[n] /\ last'[n] = last[n]
    <2>1. Whole(n)
      <3>1. CASE n \in listed[q]
        BY <1>1, <1>8, <3>1 DEF Filled, Listed
      <3>2. CASE q = p /\ Complete(p) /\ n = Current(p)
        BY <1>1, <1>7, <3>2
      <3>3. CASE q = p /\ Complete(p) /\ n \in Renamed
        <4>1. last[n] = p /\ p \notin overlapped
          BY <1>1, <1>8, <3>3
        <4>2. dir[n] # NoFile /\ ~Excused(n)
          BY <3>3, <4>1 DEF Filled, Accounted, Excused
        <4> QED BY <1>5, <4>2 DEF Filled, Accounted
      <3> QED BY <1>4, <3>1, <3>2, <3>3
    <2> QED BY <1>1, <1>8, <2>1, WholeMoved
  <1>9. CASE pc[p] = "copy" /\ n = Current(p) /\ dir'[n] = NoFile /\ last'[n] = last[n]
    <2>1. q # p => FALSE
      BY <1>1, <1>2, <1>9 DEF Owns
    <2>2. q = p => n \in listed[p] \/ (dir'[n] = dir[n] /\ last'[n] = last[n])
      BY <1>1, <1>4, <1>9
    <2> QED BY <1>1, <1>8, <1>9, <2>1, <2>2
  <1>10. CASE Complete(p) /\ n \in Renamed /\ dir'[n] = dir[Current(p)] /\ last'[n] = p
    <2>1. Whole(Current(p))
      BY <1>1, <1>7, <1>10
    <2> QED BY <1>1, <1>10, <2>1, WholeMoved
  <1> QED BY <1>6, <1>8, <1>9, <1>10 DEF LeftAs

\* What stays incomplete is excused by how the command went on.
LEMMA LeavingAccounted ==
  ASSUME Types, Types', Work, Filled, NEW p \in Procs, Leaving(p)
  PROVE  Accounted'
  <1>1. /\ UNCHANGED <<data, kind, overlapped>> /\ pc[p] \notin Ended
        /\ \A q \in Procs \ {p} : pc'[q] = pc[q] /\ Current(q)' = Current(q)
        /\ pc[p] = "copy" => Current(p) \in Names /\ Current(p) \notin Renamed
    BY LeavesFacts
  <1>2. Renamed \subseteq Names
    BY FilesOfFacts
  <1>3. ASSUME NEW n \in Renamed, last'[n] \in Procs
        PROVE  dir'[n] # NoFile
    <2>1. LeftAs(p, n)
      BY <1>2 DEF Leaving
    <2>2. last[n] \in Procs => dir[n] # NoFile
      BY DEF Filled, Accounted
    <2> QED BY <1>1, <1>3, <2>1, <2>2 DEF LeftAs
  <1>4. ASSUME NEW n \in Names, dir'[n] # NoFile, ~Whole(n)'
        PROVE  Excused(n)'
    <2>1. LeftAs(p, n)
      BY DEF Leaving
    <2>2. CASE dir'[n] = dir[n] /\ last'[n] = last[n]
      <3>1. ~Whole(n) /\ dir[n] # NoFile
        BY <1>1, <1>4, <2>2, WholeMoved
      <3>2. Excused(n)
        BY <3>1 DEF Filled, Accounted
      <3>3. CASE last[n] \in overlapped
        BY <1>1, <2>2, <3>2, <3>3 DEF Excused
      <3>4. CASE last[n] \notin overlapped /\ last[n] # p
        <4>1. PICK w \in Procs : w = last[n] /\ w # p
          BY <3>2, <3>4 DEF Excused
        <4>2. n \notin Renamed /\ Unfinished(w, n)
          BY <3>2, <3>4, <4>1 DEF Excused
        <4>3. (Profile(w).keeps)' = Profile(w).keeps
          BY <1>1, SameProfile
        <4>4. pc'[w] = pc[w] /\ Current(w)' = Current(w)
          BY <1>1, <4>1
        <4>5. Unfinished(w, n)'
          BY <4>2, <4>3, <4>4 DEF Unfinished
        <4>6. last'[n] = w
          BY <2>2, <4>1
        <4> HIDE DEF Unfinished
        <4> QED BY <4>2, <4>5, <4>6, Zenon DEF Excused
      <3>5. CASE last[n] \notin overlapped /\ last[n] = p
        <4>1. n \notin Renamed /\ pc[p] = "copy" /\ Current(p) = n
          BY <1>1, <3>2, <3>5 DEF Excused, Unfinished, Ended
        <4>2. ~Complete(p)
          BY <3>1, <3>5, <4>1, OwnFile DEF Filled
        <4>3. pc'[p] = "killed" \/ (pc'[p] = "failed" /\ Profile(p).keeps)
          BY <1>4, <4>1, <4>2 DEF Leaving
        <4>4. (Profile(p).keeps)' = Profile(p).keeps
          BY <1>1, SameProfile
        <4>5. Unfinished(p, n)'
          BY <4>3, <4>4 DEF Unfinished
        <4> QED BY <2>2, <3>5, <4>1, <4>5 DEF Excused
      <3> QED BY <3>3, <3>4, <3>5
    <2>3. CASE Complete(p) /\ n \in Renamed /\ dir'[n] = dir[Current(p)] /\ last'[n] = p
      <3>1. ~Whole(Current(p))
        BY <1>1, <1>4, <2>3, WholeMoved
      <3>2. p \in overlapped
        BY <2>3, <3>1, OwnFile DEF Filled
      <3> QED BY <1>1, <2>3, <3>2 DEF Excused
    <2> QED BY <1>4, <2>1, <2>2, <2>3 DEF LeftAs
  <1> QED BY <1>3, <1>4 DEF Accounted

\* The file that was left does not come again.
LEMMA LeavingQueue ==
  ASSUME Types, Types', Work, Filled, NEW p \in Procs, Leaving(p)
  PROVE  Queue'
  <1>1. /\ kind' = kind /\ pc[p] \notin Ended
        /\ pc'[p] \in Ended \/ pc'[p] = "open"
        /\ \A q \in Procs \ {p} : pc'[q] = pc[q] /\ todo'[q] = todo[q]
        /\ pc[p] = "copy" => Current(p) \in Names
    BY LeavesFacts
  <1>2. DOMAIN listed' = Procs /\ \A q \in Procs \ {p} : listed'[q] = listed[q]
    BY DEF Leaving
  <1>3. /\ listed[p] \subseteq Names
        /\ \A k \in DOMAIN todo[p] : todo[p][k] \in FilesOf(kind[p])
        /\ \A j, k \in DOMAIN todo[p] : todo[p][j] = todo[p][k] => j = k
        /\ \A k \in DOMAIN todo[p] : todo[p][k] \notin listed[p]
    BY <1>1 DEF Filled, Queue
  <1>4. listed'[p] \subseteq Names
    BY <1>1, <1>3, FilesOfFacts DEF Leaving, Complete
  <1>5. todo'[p] = todo[p] \/ (todo[p] # << >> /\ todo'[p] = Tail(todo[p]))
    BY DEF Leaving, Leaves
  <1>6. todo[p] # << >> => \A k \in DOMAIN Tail(todo[p]) : /\ k + 1 \in DOMAIN todo[p] /\ k + 1 # 1
                                                          /\ Tail(todo[p])[k] = todo[p][k + 1]
                                                          /\ k \in Nat
    <2> DEFINE t == todo[p]
    <2>1. t \in Seq(Names)
      BY DEF Types
    <2> HIDE DEF t
    <2>2. t # << >> => \A k \in DOMAIN Tail(t) : k + 1 \in DOMAIN t /\ k + 1 # 1
                                                 /\ Tail(t)[k] = t[k + 1] /\ k \in Nat
      BY <2>1
    <2> QED BY <2>2 DEF t
  <1>7. \A k \in DOMAIN todo'[p] : todo'[p][k] \in FilesOf(kind[p])
    BY <1>3, <1>5, <1>6
  <1>8. ASSUME pc'[p] \notin Ended
        PROVE  /\ \A j, k \in DOMAIN todo'[p] : todo'[p][j] = todo'[p][k] => j = k
               /\ \A k \in DOMAIN todo'[p] : todo'[p][k] \notin listed'[p]
    <2>1. todo'[p] = Tail(todo[p]) /\ pc[p] \in {"open", "copy"}
      BY <1>8 DEF Leaving
    <2>2. /\ todo[p] # << >> /\ 1 \in DOMAIN todo[p] /\ Current(p) = todo[p][1]
      BY <2>1, OpenedFile DEF Filled
    <2>3. \A j, k \in DOMAIN todo'[p] : todo'[p][j] = todo'[p][k] => j = k
      <3> TAKE j, k \in DOMAIN todo'[p]
      <3> HAVE todo'[p][j] = todo'[p][k]
      <3>1. j + 1 = k + 1 /\ j \in Nat /\ k \in Nat
        BY <1>3, <1>6, <2>1, <2>2
      <3> QED BY <3>1
    <2>4. ASSUME NEW k \in DOMAIN todo'[p], todo'[p][k] \in listed'[p] PROVE FALSE
      <3> DEFINE n == todo[p][k + 1]
      <3>1. k + 1 \in DOMAIN todo[p] /\ todo'[p][k] = n /\ k + 1 # 1
        BY <1>6, <2>1, <2>2
      <3>2. n \notin listed[p] /\ n # Current(p) /\ n \in FilesOf(kind[p])
        BY <1>3, <2>2, <3>1
      <3>3. n \notin Renamed
        BY <3>2, FilesOfFacts DEF Types
      <3> HIDE DEF n
      <3> QED BY <2>4, <3>1, <3>2, <3>3 DEF Leaving
    <2> QED BY <2>3, <2>4
  <1> SUFFICES ASSUME NEW q \in Procs
               PROVE  /\ listed'[q] \subseteq Names
                      /\ \A k \in DOMAIN todo'[q] : todo'[q][k] \in FilesOf(kind'[q])
                      /\ pc'[q] \notin Ended =>
                           /\ \A j, k \in DOMAIN todo'[q] : todo'[q][j] = todo'[q][k] => j = k
                           /\ \A k \in DOMAIN todo'[q] : todo'[q][k] \notin listed'[q]
                      /\ pc'[q] \notin {"open", "copy"} \cup Ended =>
                           /\ listed'[q] = {}
                           /\ \A k \in DOMAIN todo'[q] : todo'[q][k] # InSheet
    BY <1>2 DEF Queue
  <1>9. CASE q = p
    BY <1>1, <1>4, <1>7, <1>8, <1>9
  <1>10. CASE q # p
    <2>1. pc'[q] = pc[q] /\ todo'[q] = todo[q] /\ listed'[q] = listed[q] /\ kind'[q] = kind[q]
      BY <1>1, <1>2, <1>10
    <2> QED BY <2>1 DEF Filled, Queue
  <1> QED BY <1>9, <1>10

\* Leaving a file in one of these ways keeps Filled.
LEMMA LeavingFilled ==
  ASSUME Types, Types', Work, Filled, NEW p \in Procs, Leaving(p)
  PROVE  Filled'
  <1>1. Queue' /\ Sharing'
    BY LeavingQueue, LeavingSharing
  <1>2. Listed' /\ Accounted'
    BY LeavingListed, LeavingAccounted
  <1> QED BY <1>1, <1>2 DEF Filled

\* The ways of leaving a file, and what is reported then.
LEMMA LeavingSame ==
  ASSUME Filled, NEW p \in Procs, Leaves(p), dir' = dir, last' = last,
         pc[p] = "copy" => \/ Complete(p) \/ pc'[p] = "killed"
                           \/ (pc'[p] = "failed" /\ Profile(p).keeps),
         pc'[p] \notin Ended => pc[p] \in {"open", "copy"} /\ todo'[p] = Tail(todo[p]),
         \/ listed' = listed
         \/ Complete(p) /\ listed' = [listed EXCEPT ![p] = @ \cup {Current(p)}]
         \/ Complete(p) /\ \E n \in Renamed : listed' = [listed EXCEPT ![p] = @ \cup {n}]
  PROVE  Leaving(p)
  <1>1. DOMAIN listed = Procs
    BY DEF Filled, Queue
  <1>2. \A n \in Names : LeftAs(p, n)
    BY DEF LeftAs
  <1>3. DOMAIN listed' = Procs /\ \A q \in Procs \ {p} : listed'[q] = listed[q]
    BY <1>1
  <1>4. \A n \in listed'[p] : \/ n \in listed[p]
                              \/ Complete(p) /\ n = Current(p) /\ dir'[n] = dir[n]
                              \/ Complete(p) /\ n \in Renamed
    BY <1>1
  <1> QED BY <1>2, <1>3, <1>4 DEF Leaving

\* The file that could not be filled is removed.
LEMMA LeavingRemoved ==
  ASSUME Types, Filled, NEW p \in Procs, Leaves(p), pc[p] = "copy", Remove(Current(p)),
         Current(p) \in Names, last' = last, listed' = listed,
         pc'[p] \notin Ended => todo'[p] = Tail(todo[p])
  PROVE  Leaving(p)
  <1>1. \A n \in Names : dir'[n] = IF n = Current(p) THEN NoFile ELSE dir[n]
    BY DEF Remove, Types
  <1>2. \A n \in Names : LeftAs(p, n)
    BY <1>1 DEF LeftAs
  <1>3. dir'[Current(p)] = NoFile
    BY <1>1
  <1>4. DOMAIN listed' = Procs
    BY DEF Filled, Queue
  <1> QED BY <1>2, <1>3, <1>4 DEF Leaving

\* The file that is complete is renamed.
LEMMA LeavingRenamed ==
  ASSUME Types, Work, Filled, NEW p \in Procs, Leaves(p), Complete(p), NEW to \in Renamed,
         Rename(p, to), dir[Current(p)] # NoFile,
         listed' = [listed EXCEPT ![p] = @ \cup {to}],
         pc'[p] \notin Ended => todo'[p] = Tail(todo[p])
  PROVE  Leaving(p)
  <1>1. pc[p] = "copy" /\ Current(p) \in Names /\ to # Current(p) /\ to \in Names
    BY OpenedFile, FilesOfFacts DEF Complete, Filled
  <1>2. \A n \in Names : /\ dir'[n] = IF n = Current(p) THEN NoFile
                                      ELSE IF n = to THEN dir[Current(p)] ELSE dir[n]
                         /\ last'[n] = IF n = to THEN p ELSE last[n]
    BY <1>1 DEF Rename, Types
  <1>3. \A n \in Names : LeftAs(p, n)
    BY <1>1, <1>2 DEF LeftAs
  <1>4. DOMAIN listed = Procs
    BY DEF Filled, Queue
  <1>5. DOMAIN listed' = Procs /\ \A q \in Procs \ {p} : listed'[q] = listed[q]
    BY <1>4
  <1>6. \A n \in listed'[p] : n \in listed[p] \/ n = to
    BY <1>4
  <1> QED BY <1>1, <1>3, <1>5, <1>6 DEF Leaving

\* A picture that has another extension is one of the images of a document.
LEMMA PngFile ==
  ASSUME Types, Work, Filled, NEW p \in Procs, pc[p] = "copy",
         kind[p] \in {"images", "sheet_images"}, Current(p) # InSheet
  PROVE  Jpg(Current(p)[2]) \in Renamed
  <1>1. Current(p) \in FilesOf(kind[p])
    BY OpenedFile DEF Filled
  <1>2. PICK i \in 1..NImages : Current(p) = Png(i)
    BY <1>1 DEF FilesOf
  <1>3. Png(i)[2] = i
    BY DEF Png
  <1> QED BY <1>2, <1>3 DEF Renamed

\* Where a command goes on after a file.
LEMMA NextFileAt ==
  ASSUME Types, NEW p \in Procs, NextFile(p)
  PROVE  /\ todo'[p] = Tail(todo[p]) /\ (pc'[p] = "done" \/ pc'[p] = "open")
         /\ fd' = [fd EXCEPT ![p] = NoFile]
  BY DEF NextFile, Goes, Types

\* Where a command ends.
LEMMA ClosesAt ==
  ASSUME Types, NEW p \in Procs, NEW how, NEW words, Closes(p, how, words)
  PROVE  pc'[p] = how
  BY DEF Closes, Ends, Goes, Types

\* A kill leaves an incomplete file, and excuses it.
LEMMA KilledLeaving ==
  ASSUME IInv, Filled, NEW p \in Procs, Killed(p)
  PROVE  Leaving(p)
  <1>1. Leaves(p) /\ dir' = dir /\ last' = last /\ listed' = listed
    BY KilledLeaves DEF IInv, Killed, disk
  <1>2. pc'[p] = "killed"
    BY DEF Killed, Goes, IInv, Types
  <1> QED BY <1>1, <1>2, LeavingSame DEF Ended

\* Nothing was open.
LEMMA OpenFailsLeaving ==
  ASSUME IInv, Filled, NEW p \in Procs, OpenFails(p)
  PROVE  Leaving(p)
  <1>1. /\ pc[p] = "open" /\ pc[p] \notin Ended /\ "failed" \in Ended
        /\ UNCHANGED <<data, release, kind, off, body, overlapped, dir, last, job, listed>>
    BY DEF OpenFails, Ended, disk
  <1>2. CASE Current(p) = InSheet
    <2>1. ~Up(p) /\ NextFile(p)
      BY <1>1, <1>2, CurrentFile, NamesFacts DEF IInv, OpenFails
    <2>2. Leaves(p) /\ todo'[p] = Tail(todo[p])
      BY <1>1, <2>1, NextFileLeaves, NextFileAt DEF IInv
    <2> QED BY <1>1, <2>2, LeavingSame
  <1>3. CASE Current(p) # InSheet
    <2>1. Closes(p, "failed", "error")
      BY <1>3 DEF OpenFails
    <2>2. Leaves(p) /\ pc'[p] = "failed"
      BY <1>1, <2>1, ClosesLeaves, ClosesAt DEF IInv
    <2> QED BY <1>1, <2>2, LeavingSame
  <1> QED BY <1>2, <1>3

\* A download that breaks off is removed, or its command fails.
LEMMA CopyFailsLeaving ==
  ASSUME IInv, Filled, NEW p \in Procs, CopyFails(p)
  PROVE  Leaving(p)
  <1>1. /\ pc[p] = "copy" /\ pc[p] \notin Ended /\ "failed" \in Ended
        /\ UNCHANGED <<data, release, kind, off, body, overlapped, last, job, listed>>
    BY DEF CopyFails, Ended
  <1>2. CASE Profile(p).keeps
    <2>1. Closes(p, "failed", "error") /\ dir' = dir
      BY <1>2 DEF CopyFails
    <2>2. Leaves(p) /\ pc'[p] = "failed"
      BY <1>1, <2>1, ClosesLeaves, ClosesAt DEF IInv
    <2> QED BY <1>1, <1>2, <2>1, <2>2, LeavingSame
  <1>3. CASE ~Profile(p).keeps
    <2>1. Remove(Current(p)) /\ Current(p) \in Names
      BY <1>1, <1>3, CurrentFile DEF CopyFails, IInv
    <2>2. CASE Up(p)
      <3>1. Closes(p, "failed", "error")
        BY <1>3, <2>2 DEF CopyFails, Up
      <3>2. Leaves(p) /\ pc'[p] = "failed"
        BY <1>1, <3>1, ClosesLeaves, ClosesAt DEF IInv
      <3> QED BY <1>1, <2>1, <3>2, LeavingRemoved DEF IInv
    <2>3. CASE ~Up(p)
      <3>1. NextFile(p)
        BY <1>3, <2>3 DEF CopyFails, Up
      <3>2. Leaves(p) /\ todo'[p] = Tail(todo[p])
        BY <1>1, <2>3, <3>1, NextFileLeaves, NextFileAt DEF IInv
      <3> QED BY <1>1, <2>1, <3>2, LeavingRemoved DEF IInv
    <2> QED BY <2>2, <2>3
  <1> QED BY <1>2, <1>3

\* A file is reported as saved when it is complete.
LEMMA SavesLeaving ==
  ASSUME IInv, Filled, NEW p \in Procs, SaveOutput(p) \/ SavePicture(p)
  PROVE  Leaving(p)
  <1>1. /\ Complete(p) /\ pc[p] = "copy" /\ pc[p] \notin Ended /\ "done" \in Ended
        /\ UNCHANGED <<data, release, kind, off, body, overlapped, dir, last, job>>
        /\ listed' = [listed EXCEPT ![p] = @ \cup {Current(p)}]
    BY DEF SaveOutput, SavePicture, Complete, Ended, disk
  <1>2. CASE SaveOutput(p)
    <2>1. Closes(p, "done", "saved")
      BY <1>2 DEF SaveOutput
    <2>2. Leaves(p) /\ pc'[p] = "done"
      BY <1>1, <2>1, ClosesLeaves, ClosesAt DEF IInv
    <2> QED BY <1>1, <2>2, LeavingSame
  <1>3. CASE SavePicture(p)
    <2>1. NextFile(p) /\ ~Up(p)
      BY <1>3 DEF SavePicture, Up
    <2>2. Leaves(p) /\ todo'[p] = Tail(todo[p])
      BY <1>1, <2>1, NextFileLeaves, NextFileAt DEF IInv
    <2> QED BY <1>1, <2>2, LeavingSame
  <1> QED BY <1>2, <1>3

\* The new name is reported, also when the renaming failed.
LEMMA RenamePictureLeaving ==
  ASSUME IInv, Filled, NEW p \in Procs, NEW fails, RenamePicture(p, fails)
  PROVE  Leaving(p)
  <1> DEFINE jpg == Jpg(Current(p)[2])
  <1>1. /\ Complete(p) /\ pc[p] = "copy" /\ NextFile(p) /\ ~Up(p)
        /\ UNCHANGED <<data, release, kind, off, body, overlapped, job>>
    BY DEF RenamePicture, Complete, Up
  <1>2. Leaves(p) /\ todo'[p] = Tail(todo[p])
    BY <1>1, NextFileLeaves, NextFileAt DEF IInv
  <1>3. jpg \in Renamed
    BY <1>1, PngFile DEF IInv, RenamePicture
  <1>4. listed' = [listed EXCEPT ![p] = @ \cup {jpg}]
    BY DEF RenamePicture
  <1>5. \/ dir' = dir /\ last' = last
        \/ Rename(p, jpg) /\ dir[Current(p)] # NoFile
    BY DEF RenamePicture
  <1> HIDE DEF jpg
  <1>6. CASE dir' = dir /\ last' = last
    BY <1>1, <1>2, <1>3, <1>4, <1>6, LeavingSame
  <1>7. CASE Rename(p, jpg) /\ dir[Current(p)] # NoFile
    BY <1>1, <1>2, <1>3, <1>4, <1>7, LeavingRenamed DEF IInv
  <1> QED BY <1>5, <1>6, <1>7

\* The temporary file is renamed when it is complete, or removed.
LEMMA ReplaceLeaving ==
  ASSUME IInv, Filled, NEW p \in Procs, NEW fails, Replace(p, fails)
  PROVE  Leaving(p)
  <1>1. /\ Complete(p) /\ pc[p] = "copy" /\ pc[p] \notin Ended
        /\ "failed" \in Ended /\ "done" \in Ended
        /\ UNCHANGED <<data, release, kind, off, body, overlapped, job>>
    BY DEF Replace, Complete, Ended
  <1>2. Current(p) \in Names /\ Binary \in Renamed
    BY <1>1, CurrentFile DEF IInv, Renamed
  <1>3. CASE dir[Current(p)] = NoFile \/ fails
    <2>1. Remove(Current(p)) /\ Closes(p, "failed", "error") /\ last' = last /\ listed' = listed
      BY <1>3 DEF Replace
    <2>2. Leaves(p) /\ pc'[p] = "failed"
      BY <1>1, <2>1, ClosesLeaves, ClosesAt DEF IInv
    <2> QED BY <1>1, <1>2, <2>1, <2>2, LeavingRemoved DEF IInv
  <1>4. CASE ~(dir[Current(p)] = NoFile \/ fails)
    <2>1. /\ Rename(p, Binary) /\ Closes(p, "done", "saved") /\ dir[Current(p)] # NoFile
          /\ listed' = [listed EXCEPT ![p] = @ \cup {Binary}]
      BY <1>4 DEF Replace
    <2>2. Leaves(p) /\ pc'[p] = "done"
      BY <1>1, <2>1, ClosesLeaves, ClosesAt DEF IInv
    <2> QED BY <1>1, <1>2, <2>1, <2>2, LeavingRenamed DEF IInv
  <1> QED BY <1>3, <1>4

-----------------------------------------------------------------------------
(* A command that opens a file, and writes it.                             *)

\* Functions with the same values are the same.
LEMMA SameValues ==
  ASSUME NEW S, NEW T, NEW g \in [S -> T], NEW h \in [S -> T], \A c \in S : g[c] = h[c]
  PROVE  g = h
  OBVIOUS

\* Opening a file empties it, and makes everyone who writes it overlapped.
LEMMA OpenFilled ==
  ASSUME IInv, Types', Filled, NEW p \in Procs, Open(p)
  PROVE  Filled'
  <1> USE DEF IInv
  <1> DEFINE f == Current(p)
  <1>1. PICK i \in Inodes :
          /\ dir' = [dir EXCEPT ![f] = i]
          /\ data' = [data EXCEPT ![i] = Empty]
          /\ fd' = [fd EXCEPT ![p] = i]
          /\ i = dir[f] \/ (dir[f] = NoFile /\ i \in Unused)
    BY OpenFacts
  <1>2. /\ pc[p] = "open" /\ fd[p] = NoFile /\ i # NoFile
        /\ f \in Names /\ f \notin Renamed /\ f \notin listed[p]
    BY OpenedFile, InodesFacts DEF Open, Filled, Work
  <1>3. /\ UNCHANGED <<kind, todo, listed>>
        /\ pc' = [pc EXCEPT ![p] = "copy"] /\ last' = [last EXCEPT ![f] = p]
        /\ off' = [off EXCEPT ![p] = 0]
        /\ overlapped' = IF Rivals(p) = {} THEN overlapped ELSE overlapped \cup Rivals(p) \cup {p}
        /\ \A q \in Procs \ {p} : body'[q] = body[q]
    BY DEF Open, Goes, Types
  <1>4. /\ \A n \in Names : dir'[n] = IF n = f THEN i ELSE dir[n]
        /\ \A n \in Names : last'[n] = IF n = f THEN p ELSE last[n]
        /\ \A q \in Procs : pc'[q] = IF q = p THEN "copy" ELSE pc[q]
        /\ \A q \in Procs : fd'[q] = IF q = p THEN i ELSE fd[q]
        /\ \A q \in Procs : Current(q)' = Current(q)
    BY <1>1, <1>2, <1>3 DEF Types, Current
  <1>5. overlapped \subseteq overlapped'
        /\ \A q \in Rivals(p) : q \in overlapped' /\ p \in overlapped'
    BY <1>3
  <1>6. \A q \in Procs \ {p} : pc[q] = "copy" /\ Current(q) = f => q \in Rivals(p)
    BY DEF Rivals, Work
  \* No other name, and no other file that is being written, has the inode.
  <1>7. \A n \in Names : n # f => dir[n] # i
    <2> TAKE n \in Names
    <2> HAVE n # f
    <2>1. CASE i = dir[f]
      BY <1>2, <2>1 DEF Disk, Separate, Distinct
    <2>2. CASE i \in Unused
      BY <2>2 DEF Unused
    <2> QED BY <1>1, <2>1, <2>2
  <1>8. \A q \in Procs : pc[q] = "copy" /\ fd[q] = i => Current(q) = f
    <2> TAKE q \in Procs
    <2> HAVE pc[q] = "copy" /\ fd[q] = i
    <2>1. CASE i = dir[f]
      BY <1>2, <2>1 DEF Filled, Sharing, Owns
    <2>2. CASE i \in Unused
      BY <2>2 DEF Unused
    <2> QED BY <1>1, <2>1, <2>2
  <1>9. \A j \in Inodes : j # i => data'[j] = data[j]
    BY <1>1 DEF Types
  <1>10. \A n \in Names : n # f => Whole(n)' = Whole(n)
    <2> TAKE n \in Names
    <2> HAVE n # f
    <2>1. dir'[n] = dir[n] /\ (dir[n] = NoFile \/ data'[dir[n]] = data[dir[n]])
      BY <1>4, <1>7, <1>9 DEF Types
    <2> QED BY <2>1, WholeMoved
  <1> HIDE DEF f
  <1>11. Sharing'
    <2> SUFFICES ASSUME NEW q \in Procs, pc'[q] = "copy" PROVE Owns(q)'
      BY DEF Sharing, Owns
    <2>1. \A r \in Procs :
            r # q /\ pc'[r] = "copy" /\ Current(r)' = Current(q)' => q \in overlapped'
      <3> TAKE r \in Procs
      <3> HAVE r # q /\ pc'[r] = "copy" /\ Current(r)' = Current(q)'
      <3>1. CASE r # p /\ q # p
        BY <1>4, <1>5, <3>1 DEF Filled, Sharing, Owns
      <3>2. CASE r = p
        BY <1>4, <1>5, <1>6, <3>2 DEF f
      <3>3. CASE q = p
        BY <1>4, <1>5, <1>6, <3>3 DEF f
      <3> QED BY <3>1, <3>2, <3>3
    <2>2. CASE q = p
      <3>1. dir'[f] = i /\ fd'[p] = i /\ last'[f] = p /\ Current(p)' = f /\ off'[p] = 0
        BY <1>2, <1>3, <1>4 DEF f, Types
      <3>2. \A n \in Names : dir'[n] = i => n = f
        BY <1>4, <1>7
      <3>3. \A c \in 1..off'[p] : data'[fd'[p]][c] = body'[p]
        BY <3>1
      <3> QED BY <2>1, <2>2, <3>1, <3>2, <3>3 DEF Owns
    <2>3. CASE q # p
      <3>1. /\ pc[q] = "copy" /\ Current(q)' = Current(q) /\ fd'[q] = fd[q] /\ off'[q] = off[q]
            /\ body'[q] = body[q] /\ Current(q) \in Names /\ Owns(q) /\ fd[q] # NoFile
            /\ fd[q] \in Inodes
        <4>1. pc[q] = "copy" /\ Current(q)' = Current(q) /\ fd'[q] = fd[q]
          BY <1>4, <2>3
        <4>2. off'[q] = off[q] /\ body'[q] = body[q]
          BY <1>3, <2>3 DEF Types
        <4>3. Owns(q)
          BY DEF Filled, Sharing
        <4>4. fd[q] # NoFile /\ fd[q] \in Inodes
          BY <4>1 DEF Work, Types
        <4>5. Current(q) \in Names
          BY <4>1, OpenedFile DEF Filled
        <4> QED BY <4>1, <4>2, <4>3, <4>4, <4>5
      <3>2. last'[Current(q)] = q \/ last'[Current(q)] \in overlapped'
        <4>1. CASE Current(q) = f
          BY <1>4, <1>5, <1>6, <2>3, <3>1, <4>1
        <4>2. CASE Current(q) # f
          BY <1>4, <1>5, <3>1, <4>2 DEF Owns
        <4> QED BY <4>1, <4>2
      <3>3. ASSUME q \notin overlapped'
            PROVE  /\ dir'[Current(q)] = fd[q] /\ last'[Current(q)] = q
                   /\ \A c \in 1..off[q] : data'[fd[q]][c] = body[q]
        <4>1. Current(q) # f /\ q \notin overlapped
          BY <1>5, <1>6, <2>3, <3>1, <3>3
        <4>2. fd[q] # i
          BY <1>8, <3>1, <4>1
        <4> QED BY <1>4, <1>9, <3>1, <4>1, <4>2 DEF Owns
      <3>4. ASSUME NEW n \in Names, dir'[n] = fd[q]
            PROVE  n = Current(q) \/ (n \in Renamed /\ last'[n] \in overlapped')
        <4>1. CASE n = f
          BY <1>4, <1>8, <3>1, <3>4, <4>1
        <4>2. CASE n # f
          BY <1>4, <1>5, <3>1, <3>4, <4>2 DEF Owns
        <4> QED BY <4>1, <4>2
      <3> QED BY <2>1, <3>1, <3>2, <3>3, <3>4 DEF Owns
    <2> QED BY <2>2, <2>3
  <1>12. Listed'
    <2> SUFFICES ASSUME NEW q \in Procs, q \notin overlapped', NEW n \in listed'[q], last'[n] = q
                 PROVE  Whole(n)'
      BY DEF Listed
    <2>1. n \in listed[q] /\ n \in Names /\ q \notin overlapped
      BY <1>3, <1>5 DEF Filled, Queue
    <2>2. n # f
      BY <1>2, <1>4, <2>1
    <2>3. Whole(n)
      BY <1>4, <2>1, <2>2 DEF Filled, Listed
    <2> QED BY <1>10, <2>1, <2>2, <2>3
  <1>13. Accounted'
    <2>1. \A n \in Renamed : last'[n] \in Procs => dir'[n] # NoFile
      BY <1>2, <1>4, FilesOfFacts DEF Filled, Accounted
    <2>2. ASSUME NEW n \in Names, dir'[n] # NoFile, ~Whole(n)'
          PROVE  Excused(n)'
      <3>1. CASE n = f
        <4>1. Unfinished(p, n)'
          BY <1>4, <3>1 DEF Unfinished, f
        <4>2. last'[n] = p
          BY <1>4, <3>1
        <4> HIDE DEF Unfinished
        <4> QED BY <1>2, <3>1, <4>1, <4>2, Zenon DEF Excused
      <3>2. CASE n # f
        <4>1. Excused(n) /\ last'[n] = last[n]
          BY <1>4, <1>10, <2>2, <3>2 DEF Filled, Accounted
        <4>2. PICK w \in Procs : w = last[n]
          BY <4>1 DEF Excused
        <4>3. CASE w \in overlapped
          BY <1>5, <4>1, <4>2, <4>3 DEF Excused
        <4>4. CASE n \notin Renamed /\ Unfinished(w, n)
          <5>1. w # p
            BY <1>2, <4>4 DEF Unfinished
          <5>2. (Profile(w).keeps)' = Profile(w).keeps
            BY <1>3, SameProfile
          <5>3. Unfinished(w, n)'
            BY <1>4, <4>4, <5>1, <5>2 DEF Unfinished
          <5>4. last'[n] = w
            BY <4>1, <4>2
          <5> HIDE DEF Unfinished
          <5> QED BY <4>4, <5>3, <5>4, Zenon DEF Excused
        <4> QED BY <4>1, <4>2, <4>3, <4>4 DEF Excused
      <3> QED BY <3>1, <3>2
    <2> QED BY <2>1, <2>2 DEF Accounted
  <1>14. Queue'
    <2>1. \A q \in Procs : pc'[q] \in Ended <=> pc[q] \in Ended
      BY <1>2, <1>4 DEF Ended
    <2>2. \A q \in Procs : pc'[q] \in {"open", "copy"} <=> pc[q] \in {"open", "copy"}
      BY <1>2, <1>4
    <2> QED BY <1>3, <2>1, <2>2 DEF Filled, Queue
  <1> QED BY <1>11, <1>12, <1>13, <1>14 DEF Filled

\* A copy writes only a file of its own, or one whose last user is overlapped.
LEMMA CopyFilled ==
  ASSUME IInv, Types', Filled, NEW p \in Procs, Copy(p)
  PROVE  Filled'
  <1> USE DEF IInv
  <1>1. /\ pc[p] = "copy" /\ fd[p] \in Inodes /\ off[p] + 1 \in 1..Chunks
        /\ UNCHANGED <<dir, last, overlapped, kind, pc, fd, body>>
        /\ off' = [off EXCEPT ![p] = off[p] + 1]
        /\ \A j \in Inodes, c \in 1..Chunks :
             data'[j][c] = IF j = fd[p] /\ c = off[p] + 1 THEN body[p] ELSE data[j][c]
    BY CopyFacts
  <1>2. UNCHANGED <<todo, listed>>
    BY DEF Copy
  <1>3. /\ \A q \in Procs : Current(q)' = Current(q) /\ fd'[q] = fd[q]
        /\ Owns(p) /\ Current(p) \in Names /\ Current(p) \notin Renamed
        /\ Current(p) \notin listed[p]
    BY <1>1, <1>2, OpenedFile DEF Filled, Sharing, Current
  <1>4. \A j \in Inodes : j # fd[p] => data'[j] = data[j]
    <2> TAKE j \in Inodes
    <2> HAVE j # fd[p]
    <2>1. data'[j] \in [1..Chunks -> 0..Releases] /\ data[j] \in [1..Chunks -> 0..Releases]
      BY DEF Types
    <2>2. \A c \in 1..Chunks : data'[j][c] = data[j][c]
      BY <1>1
    <2> DEFINE g == data'[j]
               h == data[j]
               S == 1..Chunks
               T == 0..Releases
    <2> HIDE DEF g, h, S, T
    <2>3. g \in [S -> T] /\ h \in [S -> T] /\ \A c \in S : g[c] = h[c]
      BY <2>1, <2>2 DEF g, h, S, T
    <2>4. g = h
      BY <2>3, SameValues
    <2> QED BY <2>4 DEF g, h
  <1>5. ASSUME NEW n \in Names, dir[n] # fd[p]
        PROVE  Whole(n)' = Whole(n)
    <2>1. dir'[n] = dir[n] /\ (dir[n] = NoFile \/ data'[dir[n]] = data[dir[n]])
      BY <1>1, <1>4, <1>5 DEF Types
    <2> QED BY <2>1, WholeMoved
  \* Whoever used the inode last is excused.
  <1>6. ASSUME NEW n \in Names, dir[n] = fd[p]
        PROVE  /\ last[n] = p \/ last[n] \in overlapped
               /\ n = Current(p) \/ last[n] \in overlapped
    BY <1>1, <1>3, <1>6 DEF Owns
  <1>7. Sharing'
    <2> SUFFICES ASSUME NEW q \in Procs, pc'[q] = "copy" PROVE Owns(q)'
      BY DEF Sharing, Owns
    <2>1. pc[q] = "copy" /\ Owns(q) /\ fd[q] \in Inodes /\ Current(q) \in Names
      <3>1. pc[q] = "copy"
        BY <1>1
      <3>2. Owns(q)
        BY DEF Filled, Sharing
      <3>3. fd[q] \in Inodes
        BY <3>1 DEF Work, Types
      <3>4. Current(q) \in Names
        BY <3>1, OpenedFile DEF Filled
      <3> QED BY <3>1, <3>2, <3>3, <3>4
    <2>2. ASSUME q \notin overlapped
          PROVE  \A c \in 1..off'[q] : data'[fd[q]][c] = body[q]
      <3>0. off[q] \in 0..Chunks /\ Chunks \in Nat /\ \A c \in 1..off[q] : data[fd[q]][c] = body[q]
        BY <2>1, <2>2, Constants DEF Owns, Types
      <3>1. CASE q = p
        <4>1. off'[p] = off[p] + 1
          BY <1>1 DEF Types
        <4> TAKE c \in 1..off'[q]
        <4>2. c \in 1..Chunks /\ (c = off[p] + 1 \/ c \in 1..off[p])
          BY <1>1, <3>0, <3>1, <4>1
        <4> QED BY <1>1, <3>0, <3>1, <4>2
      <3>2. CASE q # p
        <4>1. off'[q] = off[q]
          BY <1>1, <3>2 DEF Types
        <4>2. fd[q] # fd[p]
          <5>1. dir[Current(q)] = fd[q]
            BY <2>1, <2>2 DEF Owns
          <5>2. Current(q) = Current(p) => q \in overlapped
            BY <1>1, <2>1, <3>2 DEF Owns
          <5>3. last[Current(q)] = q
            BY <2>1, <2>2 DEF Owns
          <5> QED BY <1>6, <2>1, <2>2, <3>2, <5>1, <5>2, <5>3
        <4> QED BY <1>4, <2>1, <3>0, <4>1, <4>2
      <3> QED BY <3>1, <3>2
    <2>3. /\ pc' = pc /\ dir' = dir /\ last' = last /\ overlapped' = overlapped
          /\ fd'[q] = fd[q] /\ body'[q] = body[q] /\ Current(q)' = Current(q)
          /\ \A r \in Procs : Current(r)' = Current(r)
      BY <1>1, <1>3
    <2> QED BY <2>1, <2>2, <2>3 DEF Owns
  <1>8. Listed'
    <2> SUFFICES ASSUME NEW q \in Procs, q \notin overlapped, NEW n \in listed[q], last[n] = q
                 PROVE  Whole(n)'
      BY <1>1, <1>2 DEF Listed
    <2>1. n \in Names /\ Whole(n)
      BY DEF Filled, Queue, Listed
    <2>2. dir[n] # fd[p]
      BY <1>3, <1>6, <2>1
    <2> QED BY <1>5, <2>1, <2>2
  <1>9. ASSUME NEW n, Excused(n)
        PROVE  Excused(n)'
    <2>1. PICK w \in Procs : w = last[n] /\ last'[n] = w
      BY <1>1, <1>9 DEF Excused
    <2>2. (Profile(w).keeps)' = Profile(w).keeps
      BY <1>1, SameProfile
    <2>3. Unfinished(w, n) => Unfinished(w, n)'
      BY <1>1, <1>3, <2>2 DEF Unfinished
    <2> HIDE DEF Unfinished
    <2> QED BY <1>1, <1>9, <2>1, <2>3 DEF Excused
  <1>10. Accounted'
    <2>1. ASSUME NEW n \in Names, dir'[n] # NoFile, ~Whole(n)'
          PROVE  Excused(n)'
      <3>1. CASE dir[n] # fd[p]
        BY <1>1, <1>5, <1>9, <2>1, <3>1 DEF Filled, Accounted
      <3>2. CASE dir[n] = fd[p]
        <4>1. CASE last[n] \in overlapped
          BY <1>1, <4>1 DEF Excused, Types
        <4>2. CASE last[n] \notin overlapped
          <5>1. last[n] = p /\ n = Current(p)
            BY <1>6, <3>2, <4>2
          <5>2. Unfinished(p, n)
            BY <1>1, <5>1 DEF Unfinished
          <5> QED BY <1>3, <1>9, <5>1, <5>2 DEF Excused
        <4> QED BY <4>1, <4>2
      <3> QED BY <3>1, <3>2
    <2> QED BY <1>1, <2>1 DEF Filled, Accounted
  <1>11. Queue'
    BY <1>1, <1>2 DEF Filled, Queue
  <1> QED BY <1>7, <1>8, <1>10, <1>11 DEF Filled

-----------------------------------------------------------------------------
(* Every file is accounted for.                                            *)

\* Names of F, none twice, and no picture of a cell.
Distinguished(t, F) ==
  /\ \A k \in DOMAIN t : t[k] \in F /\ t[k] # InSheet
  /\ \A j, k \in DOMAIN t : t[j] = t[k] => j = k

\* One file, or none.
LEMMA OneFile ==
  /\ \A f, F : f \in F /\ f # InSheet => Distinguished(<<f>>, F)
  /\ \A F : Distinguished(<< >>, F)
  <1>1. ASSUME NEW f, NEW F, f \in F, f # InSheet PROVE Distinguished(<<f>>, F)
    <2>1. \A k \in DOMAIN <<f>> : k = 1 /\ <<f>>[k] = f
      OBVIOUS
    <2> QED BY <1>1, <2>1 DEF Distinguished
  <1>2. \A F : Distinguished(<< >>, F)
    BY DEF Distinguished
  <1> QED BY <1>1, <1>2

\* When the commands start the files are whole and nothing is reported.
LEMMA FilledInit == Init => Filled
  <1> SUFFICES ASSUME Init PROVE Filled
    OBVIOUS
  <1>1. Types /\ Work
    BY Initial DEF IInv
  <1>2. \A p \in Procs : kind[p] \in Kinds
    BY <1>1 DEF Types
  <1>3. /\ fd = [p \in Procs |-> NoFile] /\ overlapped = {} /\ last = [n \in Names |-> Nobody]
        /\ listed = [p \in Procs |-> {}] /\ todo = [p \in Procs |-> Profile(p).files]
        /\ pc = [p \in Procs |-> Profile(p).stages[1]]
    BY DEF Init
  <1>4. \A p \in Procs : pc[p] # "copy" /\ pc[p] \notin Ended
    <2>1. \A p \in Procs : pc[p] # "copy"
      BY <1>1, <1>3 DEF Work
    <2>2. \A p \in Procs : pc[p] \in StagesOf(kind[p])
      BY <1>2, <1>3, FirstStage
    <2> QED BY <1>2, <2>1, <2>2, StageMembers
  <1>5. Sharing /\ Listed
    BY <1>3, <1>4 DEF Sharing, Owns, Listed
  <1>6. Accounted
    <2>1. PICK i \in {NoFile, 2} :
            dir = [n \in Names |-> IF n = Binary THEN 1 ELSE IF n = Out THEN i ELSE NoFile]
      BY DEF Init
    <2>2. \A n \in Names : dir[n] \in {NoFile, 1, 2}
      BY <2>1
    <2>3. \A j \in {1, 2} : \A c \in 1..Chunks : data[j][c] = 1
      BY InodesFacts DEF Init
    <2>4. \A n \in Names : dir[n] # NoFile => Whole(n)
      BY <2>2, <2>3, Constants DEF Whole
    <2>5. \A n \in Renamed : last[n] \notin Procs
      BY <1>3, FilesOfFacts, Constants
    <2> QED BY <2>4, <2>5 DEF Accounted
  <1>7. Queue
    <2> SUFFICES ASSUME NEW p \in Procs PROVE Distinguished(todo[p], FilesOf(kind[p]))
      BY <1>3 DEF Queue, Distinguished
    <2>1. CASE kind[p] \in {"docs_export", "sheets_export", "drive_download", "drive_media",
                            "im_download"}
      <3>1. todo[p] = <<Out>> /\ FilesOf(kind[p]) = {Out}
        BY <1>3, <2>1 DEF Profile, DocsExport, SheetsExport, DriveDownload, DriveMedia,
                          ImDownload, FilesOf
      <3>2. Out # InSheet
        BY DEF Out, InSheet
      <3> QED BY <3>1, <3>2, OneFile
    <2>2. CASE kind[p] = "drive_import"
      <3>1. todo[p] = << >>
        BY <1>3, <2>2 DEF Profile, DriveImport
      <3> QED BY <3>1, OneFile
    <2>3. CASE kind[p] \in {"images", "sheet_images"}
      <3>1. todo[p] = [i \in 1..NImages |-> Png(i)]
        BY <1>3, <2>3 DEF Profile, DocImages, SheetImages, Sequence
      <3>2. FilesOf(kind[p]) = {Png(i) : i \in 1..NImages} \cup {InSheet}
        BY <2>3 DEF FilesOf
      <3>3. \A i, j \in 1..NImages : Png(i) # InSheet /\ (Png(i) = Png(j) => i = j)
        BY DEF Png, InSheet
      <3> QED BY <3>1, <3>2, <3>3 DEF Distinguished
    <2>4. CASE kind[p] = "upgrade"
      <3>1. todo[p] = <<Temp>> /\ FilesOf(kind[p]) = {Temp}
        BY <1>3, <2>4 DEF Profile, Upgrade, FilesOf
      <3>2. Temp # InSheet
        BY DEF Temp, InSheet
      <3> QED BY <3>1, <3>2, OneFile
    <2> QED BY <1>2, <2>1, <2>2, <2>3, <2>4 DEF Kinds
  <1> QED BY <1>5, <1>6, <1>7 DEF Filled

\* A request, or the end of waiting for the server.
LEMMA AsksFilled ==
  ASSUME IInv, Filled, NEW p \in Procs, NEW o \in Outcomes, NEW status \in Statuses,
         \/ List(p, o) \/ Upload(p, o) \/ Create(p, o) \/ Fetch(p, o) \/ Timeout(p)
         \/ Poll(p, o, status)
  PROVE  Filled'
  <1> USE DEF IInv
  <1>1. Waits(p)
    BY ListWaits, UploadWaits, CreateWaits, PollWaits, FetchWaits, TimeoutWaits
  <1>2. pc[p] # "open" /\ listed' = listed
    BY DEF List, Upload, Create, Poll, Fetch, Timeout, filling
  <1>3. todo' = todo \/ Fetch(p, o)
    BY DEF List, Upload, Create, Poll, Timeout
  <1>4. Fetch(p, o) => pc'[p] = "open"
    BY DEF Fetch, Goes, Types
  <1> QED BY <1>1, <1>2, <1>3, <1>4, WaitsFilled

\* No command does anything.
LEMMA RestFilled ==
  ASSUME Types, Work, Filled,
         UNCHANGED <<dir, data, last, overlapped, kind, fd, off, body, pc, todo, listed>>
  PROVE  Filled'
  <1>1. Sharing' /\ Listed' /\ Accounted'
    <2>1. {} \in SUBSET Procs
      OBVIOUS
    <2> QED BY <2>1, SameFiles
  <1>2. Queue'
    BY DEF Filled, Queue
  <1> QED BY <1>1, <1>2 DEF Filled

\* Every step keeps Filled.
LEMMA FilledStep == IInv /\ IInv' /\ Filled /\ [Next]_vars => Filled'
  <1> SUFFICES ASSUME IInv, IInv', Filled, [Next]_vars PROVE Filled'
    OBVIOUS
  <1>1. Types /\ Work /\ Types'
    BY DEF IInv
  <1>2. CASE Publish
    <2>1. UNCHANGED <<dir, data, last, overlapped, kind, fd, off, body, pc, todo, listed>>
      BY <1>2 DEF Publish, disk, filling
    <2> QED BY <1>1, <2>1, RestFilled
  <1>3. ASSUME NEW p \in Procs, Leaving(p) PROVE Filled'
    BY <1>1, <1>3, LeavingFilled
  <1>4. ASSUME NEW p \in Procs, Command(p) PROVE Filled'
    <2>1. ASSUME NEW o \in Outcomes, NEW status \in Statuses,
                 \/ List(p, o) \/ Upload(p, o) \/ Create(p, o) \/ Fetch(p, o)
                 \/ Poll(p, o, status)
          PROVE  Filled'
      BY <2>1, AsksFilled
    <2>0. "none" \in Statuses
      BY DEF Statuses
    <2>2. CASE Timeout(p)
      <3>1. Waits(p) /\ pc[p] # "open" /\ listed' = listed /\ todo' = todo
        BY <1>1, <2>2, TimeoutWaits DEF Timeout, filling
      <3> QED BY <1>1, <3>1, WaitsFilled
    <2>3. CASE Open(p)
      BY <1>1, <2>3, OpenFilled
    <2>4. CASE OpenFails(p)
      BY <1>3, <2>4, OpenFailsLeaving
    <2>5. CASE Copy(p)
      BY <1>1, <2>5, CopyFilled
    <2>6. CASE CopyFails(p)
      BY <1>3, <2>6, CopyFailsLeaving
    <2>7. CASE SaveOutput(p) \/ SavePicture(p)
      BY <1>3, <2>7, SavesLeaving
    <2>8. ASSUME NEW fails \in MayFail, RenamePicture(p, fails) PROVE Filled'
      BY <1>3, <2>8, RenamePictureLeaving
    <2>9. ASSUME NEW fails \in MayFail, Replace(p, fails) PROVE Filled'
      BY <1>3, <2>9, ReplaceLeaving
    <2> QED BY <1>4, <2>0, <2>1, <2>2, <2>3, <2>4, <2>5, <2>6, <2>7, <2>8, <2>9 DEF Command
  <1>5. ASSUME NEW p \in Procs, Killed(p) PROVE Filled'
    BY <1>3, <1>5, KilledLeaving
  <1>6. ASSUME NEW p \in Procs, NEW how \in {"ready", "broken"}, JobEnds(p, how) PROVE Filled'
    <2>1. UNCHANGED <<dir, data, last, overlapped, kind, fd, off, body, pc, todo, listed>>
      BY <1>6 DEF JobEnds, disk, filling
    <2> QED BY <1>1, <2>1, RestFilled
  <1>7. CASE UNCHANGED vars
    <2>1. UNCHANGED <<dir, data, last, overlapped, kind, fd, off, body, pc, todo, listed>>
      BY <1>7 DEF vars, disk
    <2> QED BY <1>1, <2>1, RestFilled
  <1> QED BY <1>2, <1>4, <1>5, <1>6, <1>7 DEF Next

\* A file that is not excused is whole, and a file that was reported is not excused.
LEMMA AllAccounted == Filled => FilesAccounted
  <1> SUFFICES ASSUME Filled PROVE FilesAccounted
    OBVIOUS
  <1>1. \A p \in Procs \ overlapped : \A n \in listed[p] : last[n] = p => Whole(n)
    BY DEF Filled, Listed
  <1>2. ASSUME NEW n \in Names, dir[n] # NoFile, ~Whole(n)
        PROVE  \/ pc[last[n]] \in {"copy", "killed"}
               \/ pc[last[n]] = "failed" /\ Profile(last[n]).keeps
               \/ last[n] \in overlapped
    <2>1. Excused(n)
      BY <1>2 DEF Filled, Accounted
    <2> QED BY <2>1 DEF Excused, Unfinished
  <1> QED BY <1>1, <1>2 DEF FilesAccounted

\* Whatever downloads break off, disks fill up and commands are killed, and whoever else
\* writes the same names: a file reported as saved is complete unless another command wrote
\* it at the same time or later, and an incomplete one is explained.
THEOREM FilesTold == Spec => []FilesAccounted
  <1>1. Init => IInv /\ Filled
    BY Initial, FilledInit
  <1>2. (IInv /\ Filled) /\ [Next]_vars => (IInv /\ Filled)'
    BY Step, FilledStep
  <1>3. IInv /\ Filled => FilesAccounted
    BY AllAccounted
  <1> QED BY <1>1, <1>2, <1>3, PTL DEF Spec
=============================================================================
