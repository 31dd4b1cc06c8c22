---------------------------- MODULE DataInduction ----------------------------
(***************************************************************************)
(* Facts about lists, and induction over the natural numbers and over the  *)
(* lists that a fold goes through.  The induction theorems of the library  *)
(* take an operator as a parameter; here the numbers for which a property  *)
(* holds are a set.                                                        *)
(***************************************************************************)
EXTENDS Integers, SequencesExt, SequenceTheorems, WellFoundedInduction, TLAPS

\* A set of natural numbers that is not empty has a smallest one.
LEMMA LeastOf ==
  ASSUME NEW T, T \subseteq Nat, T # {}
  PROVE  \E x \in T : \A y \in T : x <= y
<1>1. IsWellFoundedOn(OpToRel(<, Nat), Nat)
  BY NatLessThanWellFounded
<1>2. PICK x \in T : \A y \in T : ~(<<y, x>> \in OpToRel(<, Nat))
  BY <1>1, WFMin, Zenon
<1>3. \A y \in T : ~(y < x)
  BY <1>2 DEF OpToRel
<1> QED BY <1>3

\* It is the one that Min chooses.
LEMMA MinOf ==
  ASSUME NEW T, T \subseteq Nat, T # {}
  PROVE  Min(T) \in T /\ \A x \in T : Min(T) <= x
<1>1. \E x \in T : \A y \in T : x <= y
  BY LeastOf
<1> QED BY <1>1 DEF Min

\* Induction over the natural numbers.
LEMMA SetInduction ==
  ASSUME NEW S, 0 \in S, \A n \in Nat : n \in S => n + 1 \in S
  PROVE  Nat \subseteq S
<1> SUFFICES ASSUME Nat \ S # {} PROVE FALSE
  OBVIOUS
<1>1. PICK x \in Nat \ S : \A y \in Nat \ S : x <= y
  BY LeastOf
<1>2. x - 1 \in Nat /\ x - 1 \in S
  BY <1>1
<1> QED BY <1>2, <1>1

\* The largest member of a set of numbers up to n.
LEMMA MaxOf ==
  ASSUME NEW n \in Nat, NEW T, T \subseteq 1..n, T # {}
  PROVE  Max(T) \in T /\ \A x \in T : x <= Max(T)
<1> DEFINE D == {d \in Nat : \E x \in T : d = n - x}
<1>1. D \subseteq Nat /\ D # {}
  <2>1. PICK x \in T : TRUE
    OBVIOUS
  <2>2. n - x \in Nat
    BY <2>1
  <2>3. n - x \in D
    BY <2>1, <2>2
  <2> QED BY <2>3
<1>2. PICK d \in D : \A e \in D : d <= e
  BY <1>1, LeastOf
<1>3. PICK m \in T : d = n - m
  BY <1>2
<1>4. \A x \in T : n - x \in D
  OBVIOUS
<1> HIDE DEF D
<1>5. \A x \in T : x <= m
  <2> TAKE x \in T
  <2>1. n - m <= n - x
    BY <1>2, <1>3, <1>4
  <2> QED BY <2>1, <1>3
<1>6. \E m1 \in T : \A x \in T : m1 >= x
  BY <1>3, <1>5
<1> QED BY <1>6 DEF Max

\* g has at every subset of 1..m what folding F over the values of y there, from x
\* on, gives: the equation by which the community modules define their folds.
FoldsUp(g, F, x, y, m) ==
  \A s \in SUBSET (1..m) :
    g[s] = IF s = {} THEN x ELSE F[<<g[s \ {Max(s)}], y[Max(s)]>>]

\* There is a function that satisfies the equation of a fold.
LEMMA FoldExists ==
  ASSUME NEW A, NEW B, NEW F \in [A \X B -> A], NEW n \in Nat, NEW y \in [1..n -> B], NEW x \in A
  PROVE  \E g \in [SUBSET (1..n) -> A] : FoldsUp(g, F, x, y, n)
<1> DEFINE P(m) == \E g \in [SUBSET (1..n) -> A] : FoldsUp(g, F, x, y, m)
           S == {m \in Nat : m <= n => P(m)}
<1>1. 0 \in S
  <2> DEFINE g == [s \in SUBSET (1..n) |-> x]
  <2>1. g \in [SUBSET (1..n) -> A]
    OBVIOUS
  <2>2. \A s \in SUBSET (1..0) : s = {} /\ g[s] = x
    OBVIOUS
  <2> HIDE DEF g
  <2>3. FoldsUp(g, F, x, y, 0)
    BY <2>2 DEF FoldsUp
  <2>4. P(0)
    BY <2>1, <2>3
  <2> HIDE DEF P
  <2> QED BY <2>4
<1>2. ASSUME NEW m \in Nat, m \in S PROVE m + 1 \in S
  <2> HIDE DEF P
  <2> SUFFICES ASSUME m + 1 <= n
               PROVE  P(m + 1)
    OBVIOUS
  <2>0. P(m)
    BY <1>2
  <2> HIDE DEF S
  <2>1. PICK g \in [SUBSET (1..n) -> A] : FoldsUp(g, F, x, y, m)
    BY <2>0, Zenon DEF P
  <2> DEFINE h == [s \in SUBSET (1..n) |->
                     IF m + 1 \in s THEN F[<<g[s \ {m + 1}], y[m + 1]>>] ELSE g[s]]
  <2>2. h \in [SUBSET (1..n) -> A]
    <3> SUFFICES ASSUME NEW s \in SUBSET (1..n), m + 1 \in s
                 PROVE  F[<<g[s \ {m + 1}], y[m + 1]>>] \in A
      OBVIOUS
    <3>1. g[s \ {m + 1}] \in A /\ y[m + 1] \in B
      OBVIOUS
    <3> QED BY <3>1
  <2>3. ASSUME NEW s \in SUBSET (1..(m + 1))
        PROVE  h[s] = IF s = {} THEN x ELSE F[<<h[s \ {Max(s)}], y[Max(s)]>>]
    <3>0. s \in SUBSET (1..n) /\ s \ {Max(s)} \in SUBSET (1..n) /\ s \ {m + 1} \in SUBSET (1..n)
      <4>1. \A k \in s : k \in 1..n
        OBVIOUS
      <4> QED BY <4>1
    <3>1. CASE m + 1 \in s
      <4>1. Max(s) \in s /\ \A z \in s : z <= Max(s)
        BY <3>1, MaxOf, m + 1 \in Nat
      <4>2. Max(s) \in 1..(m + 1) /\ m + 1 <= Max(s)
        BY <4>1, <3>1
      <4>3. Max(s) = m + 1
        BY <4>2
      <4>4. h[s] = F[<<g[s \ {m + 1}], y[m + 1]>>]
        BY <3>0, <3>1
      <4>5. h[s \ {m + 1}] = g[s \ {m + 1}]
        BY <3>0
      <4> QED BY <4>3, <4>4, <4>5, <3>1
    <3>2. CASE ~(m + 1 \in s)
      <4>1. s \in SUBSET (1..m)
        BY <3>2
      <4>2. g[s] = IF s = {} THEN x ELSE F[<<g[s \ {Max(s)}], y[Max(s)]>>]
        BY <4>1, <2>1 DEF FoldsUp
      <4>3. h[s] = g[s] /\ h[s \ {Max(s)}] = g[s \ {Max(s)}]
        BY <3>0, <3>2
      <4> QED BY <4>2, <4>3
    <3> QED BY <3>1, <3>2
  <2> HIDE DEF h
  <2>4. FoldsUp(h, F, x, y, m + 1)
    BY <2>3 DEF FoldsUp
  <2> QED BY <2>2, <2>4, Zenon DEF P
<1> HIDE DEF P, S
<1>3. n \in S
  BY <1>1, <1>2, SetInduction
<1>4. P(n)
  BY <1>3 DEF S
<1> QED BY <1>4, Zenon DEF P

-----------------------------------------------------------------------------
(* Lists.                                                                  *)

\* What a concatenation holds, and when it holds nothing twice.
LEMMA Concatenated ==
  ASSUME NEW A, NEW s \in Seq(A), NEW t \in Seq(A)
  PROVE  /\ s \o t \in Seq(A)
         /\ ToSet(s \o t) = ToSet(s) \cup ToSet(t)
         /\ IsInjective(s) /\ IsInjective(t) /\ ToSet(s) \cap ToSet(t) = {} =>
              IsInjective(s \o t)
<1> DEFINE u == s \o t
           m == Len(s)
           n == Len(t)
<1>1. /\ u \in Seq(A) /\ m \in Nat /\ n \in Nat /\ Len(u) = m + n
      /\ \A i \in 1..m : u[i] = s[i]
      /\ \A i \in 1..n : u[m + i] = t[i]
  BY ConcatProperties
<1>2. DOMAIN s = 1..m /\ DOMAIN t = 1..n /\ DOMAIN u = 1..(m + n)
  BY <1>1
<1> HIDE DEF u, m, n
<1>3. \A i \in 1..(m + n) : i \in 1..m \/ (i - m \in 1..n /\ u[i] = t[i - m])
  <2> SUFFICES ASSUME NEW i \in 1..(m + n), i \notin 1..m
               PROVE  i - m \in 1..n /\ u[i] = t[i - m]
    OBVIOUS
  <2>1. i - m \in 1..n /\ m + (i - m) = i
    BY <1>1
  <2> QED BY <1>1, <2>1
<1>4. ToSet(u) = ToSet(s) \cup ToSet(t)
  <2>1. ASSUME NEW x \in ToSet(u) PROVE x \in ToSet(s) \cup ToSet(t)
    <3>1. PICK i \in 1..(m + n) : x = u[i]
      BY <1>2 DEF ToSet
    <3> QED BY <1>1, <1>2, <1>3, <3>1 DEF ToSet
  <2>2. ASSUME NEW x \in ToSet(s) PROVE x \in ToSet(u)
    <3>1. PICK i \in 1..m : x = s[i]
      BY <1>2 DEF ToSet
    <3>2. i \in 1..(m + n)
      BY <1>1
    <3> QED BY <1>1, <1>2, <3>1, <3>2 DEF ToSet
  <2>3. ASSUME NEW x \in ToSet(t) PROVE x \in ToSet(u)
    <3>1. PICK i \in 1..n : x = t[i]
      BY <1>2 DEF ToSet
    <3>2. m + i \in 1..(m + n)
      BY <1>1
    <3> QED BY <1>1, <1>2, <3>1, <3>2 DEF ToSet
  <2> QED BY <2>1, <2>2, <2>3
<1>5. ASSUME IsInjective(s), IsInjective(t), ToSet(s) \cap ToSet(t) = {}
      PROVE  IsInjective(u)
  <2> SUFFICES ASSUME NEW i \in 1..(m + n), NEW j \in 1..(m + n), u[i] = u[j]
               PROVE  i = j
    BY <1>2 DEF IsInjective
  <2>1. \A k \in 1..m : s[k] \in ToSet(s)
    BY <1>2 DEF ToSet
  <2>2. \A k \in 1..n : t[k] \in ToSet(t)
    BY <1>2 DEF ToSet
  <2>3. CASE i \in 1..m /\ j \in 1..m
    BY <1>1, <1>2, <1>5, <2>3 DEF IsInjective
  <2>4. CASE i \notin 1..m /\ j \notin 1..m
    <3>1. i - m = j - m
      BY <1>2, <1>3, <1>5, <2>4 DEF IsInjective
    <3> QED BY <1>1, <3>1
  <2>5. ~(i \in 1..m /\ j \notin 1..m) /\ ~(j \in 1..m /\ i \notin 1..m)
    <3>1. ASSUME NEW k \in 1..m, NEW l \in 1..(m + n), l \notin 1..m, u[k] = u[l] PROVE FALSE
      <4>1. u[k] \in ToSet(s) /\ u[l] \in ToSet(t)
        BY <1>1, <1>3, <2>1, <2>2, <3>1
      <4> QED BY <1>5, <3>1, <4>1
    <3> QED BY <3>1
  <2> QED BY <2>3, <2>4, <2>5
<1> QED BY <1>1, <1>4, <1>5 DEF u

\* The equation of FlattenSeq.
Flat(h, ss) ==
  [i \in 1 .. Len(ss) |-> IF i = 1 THEN ss[i] ELSE h[i - 1] \o ss[i]]

\* It has a solution.
LEMMA FlatExists ==
  ASSUME NEW A, NEW ss \in Seq(Seq(A))
  PROVE  \E h : h = Flat(h, ss)
<1> DEFINE n == Len(ss)
           Good(h, m) == \A i \in 1..n : i <= m => h[i] = IF i = 1 THEN ss[i] ELSE h[i - 1] \o ss[i]
           S == {m \in Nat : \E h \in [1..n -> Seq(A)] : Good(h, m)}
<1>1. n \in Nat /\ \A i \in 1..n : ss[i] \in Seq(A)
  OBVIOUS
<1>2. 0 \in S
  <2>1. [i \in 1..n |-> ss[i]] \in [1..n -> Seq(A)] /\ \A i \in 1..n : ~(i <= 0)
    BY <1>1
  <2> QED BY <2>1, Zenon
<1>3. ASSUME NEW m \in Nat, m \in S PROVE m + 1 \in S
  <2>1. PICK h \in [1..n -> Seq(A)] : Good(h, m)
    BY <1>3
  <2> DEFINE next == IF m = 0 THEN ss[1] ELSE h[m] \o ss[m + 1]
             k == [h EXCEPT ![m + 1] = next]
  <2>2. k \in [1..n -> Seq(A)]
    <3>1. m + 1 \in 1..n => next \in Seq(A)
      <4>1. CASE m = 0
        BY <1>1, <4>1
      <4>2. ASSUME m # 0, m + 1 \in 1..n PROVE h[m] \o ss[m + 1] \in Seq(A)
        <5>1. m \in 1..n
          BY <1>1, <4>2
        <5>2. h[m] \in Seq(A) /\ ss[m + 1] \in Seq(A)
          BY <1>1, <4>2, <5>1
        <5> QED BY <5>2
      <4> QED BY <4>1, <4>2
    <3> HIDE DEF next
    <3> QED BY <3>1
  <2>3. \A i \in 1..n : i # m + 1 => k[i] = h[i]
    OBVIOUS
  <2>4. m + 1 \in 1..n => k[m + 1] = next
    OBVIOUS
  <2>5. Good(k, m + 1)
    <3> HIDE DEF k
    <3> SUFFICES ASSUME NEW i \in 1..n, i <= m + 1
                 PROVE  k[i] = IF i = 1 THEN ss[i] ELSE k[i - 1] \o ss[i]
      OBVIOUS
    <3>1. i # 1 => i - 1 \in 1..n /\ k[i - 1] = h[i - 1]
      BY <1>1, <2>3
    <3>2. CASE i = m + 1
      BY <2>4, <3>1, <3>2
    <3>3. CASE i # m + 1
      <4>1. i <= m /\ k[i] = h[i]
        BY <1>1, <2>3, <3>3
      <4>2. h[i] = IF i = 1 THEN ss[i] ELSE h[i - 1] \o ss[i]
        BY <2>1, <4>1
      <4> HIDE DEF Good
      <4>3. CASE i = 1
        BY <4>1, <4>2, <4>3
      <4>4. CASE i # 1
        BY <3>1, <4>1, <4>2, <4>4
      <4> QED BY <4>3, <4>4
    <3> QED BY <3>2, <3>3
  <2> HIDE DEF Good, k
  <2> QED BY <2>2, <2>5
<1> HIDE DEF S
<1>4. n \in S
  BY <1>1, <1>2, <1>3, SetInduction
<1>5. PICK h \in [1..n -> Seq(A)] : Good(h, n)
  BY <1>4 DEF S
<1>6. h = Flat(h, ss)
  <2>1. \A i \in 1..n : i <= n
    BY <1>1
  <2>2. \A i \in 1..n : h[i] = IF i = 1 THEN ss[i] ELSE h[i - 1] \o ss[i]
    BY <1>5, <2>1
  <2> HIDE DEF Good
  <2>3. h = [i \in 1..n |-> h[i]]
    BY <1>5
  <2>4. [i \in 1..n |-> h[i]] = [i \in 1..n |-> IF i = 1 THEN ss[i] ELSE h[i - 1] \o ss[i]]
    BY <2>2, Zenon
  <2> QED BY <2>3, <2>4 DEF Flat
<1> QED BY <1>6

\* FlattenSeq puts lists together: it holds what they hold, and nothing twice if
\* they do not.
LEMMA Flattened ==
  ASSUME NEW A, NEW ss \in Seq(Seq(A))
  PROVE  /\ FlattenSeq(ss) \in Seq(A)
         /\ ToSet(FlattenSeq(ss)) = UNION {ToSet(ss[i]) : i \in DOMAIN ss}
         /\ /\ \A i \in DOMAIN ss : IsInjective(ss[i])
            /\ \A i, j \in DOMAIN ss : i # j => ToSet(ss[i]) \cap ToSet(ss[j]) = {}
            => IsInjective(FlattenSeq(ss))
<1> DEFINE n == Len(ss)
           h == CHOOSE g : g = Flat(g, ss)
           Apart == /\ \A i \in 1..n : IsInjective(ss[i])
                    /\ \A i, j \in 1..n : i # j => ToSet(ss[i]) \cap ToSet(ss[j]) = {}
           Upto(m) == /\ h[m] \in Seq(A)
                      /\ ToSet(h[m]) = UNION {ToSet(ss[i]) : i \in 1..m}
                      /\ Apart => IsInjective(h[m])
           S == {m \in Nat : m \in 1..n => Upto(m)}
<1>1. n \in Nat /\ DOMAIN ss = 1..n /\ \A i \in 1..n : ss[i] \in Seq(A)
  OBVIOUS
<1>2. CASE n = 0
  <2>1. FlattenSeq(ss) = << >> /\ DOMAIN ss = {}
    BY <1>1, <1>2 DEF FlattenSeq
  <2> QED BY <2>1 DEF ToSet, IsInjective
<1>3. CASE n # 0
  <2>1. h = Flat(h, ss)
    BY FlatExists
  <2>2. FlattenSeq(ss) = h[n]
    BY <1>3 DEF FlattenSeq, Flat
  <2> HIDE DEF h
  <2>3. \A i \in 1..n : h[i] = IF i = 1 THEN ss[i] ELSE h[i - 1] \o ss[i]
    BY <2>1 DEF Flat
  <2> HIDE DEF n
  <2>4. 0 \in S
    OBVIOUS
  <2>5. ASSUME NEW m \in Nat, m \in S PROVE m + 1 \in S
    <3> HIDE DEF Upto
    <3> SUFFICES ASSUME m + 1 \in 1..n PROVE Upto(m + 1)
      OBVIOUS
    <3>1. CASE m = 0
      <4>1. h[1] = ss[1] /\ 1 \in 1..n
        BY <2>3, <3>1
      <4>2. UNION {ToSet(ss[i]) : i \in 1..1} = ToSet(ss[1])
        OBVIOUS
      <4> QED BY <1>1, <3>1, <4>1, <4>2 DEF Upto
    <3>2. CASE m # 0
      <4>1. m \in 1..n
        BY <1>1, <3>2
      <4>2. Upto(m)
        BY <2>5, <4>1
      <4>3. h[m + 1] = h[m] \o ss[m + 1] /\ h[m] \in Seq(A) /\ ss[m + 1] \in Seq(A)
        <5>1. m + 1 # 1 /\ (m + 1) - 1 = m
          BY <3>2
        <5>2. h[m + 1] = h[m] \o ss[m + 1]
          BY <2>3, <5>1
        <5> QED BY <1>1, <4>2, <5>2 DEF Upto
      <4>4. UNION {ToSet(ss[i]) : i \in 1..(m + 1)} =
              (UNION {ToSet(ss[i]) : i \in 1..m}) \cup ToSet(ss[m + 1])
        OBVIOUS
      <4>5. ToSet(h[m]) = UNION {ToSet(ss[i]) : i \in 1..m}
        BY <4>2 DEF Upto
      <4>6. Apart => ToSet(h[m]) \cap ToSet(ss[m + 1]) = {} /\ IsInjective(h[m])
                     /\ IsInjective(ss[m + 1])
        <5> SUFFICES ASSUME Apart PROVE /\ ToSet(h[m]) \cap ToSet(ss[m + 1]) = {}
                                        /\ IsInjective(h[m]) /\ IsInjective(ss[m + 1])
          OBVIOUS
        <5>1. \A i \in 1..m : i \in 1..n /\ i # m + 1
          BY <1>1
        <5>2. \A i \in 1..m : ToSet(ss[i]) \cap ToSet(ss[m + 1]) = {}
          BY <5>1
        <5>3. ToSet(h[m]) \cap ToSet(ss[m + 1]) = {}
          BY <4>5, <5>2
        <5> QED BY <4>2, <5>3 DEF Upto
      <4> HIDE DEF Apart
      <4>7. /\ h[m + 1] \in Seq(A)
            /\ ToSet(h[m + 1]) = ToSet(h[m]) \cup ToSet(ss[m + 1])
            /\ Apart => IsInjective(h[m + 1])
        BY <4>3, <4>6, Concatenated
      <4> QED BY <4>4, <4>5, <4>7 DEF Upto
    <3> QED BY <3>1, <3>2
  <2> HIDE DEF S
  <2>6. n \in S
    BY <1>1, <2>4, <2>5, SetInduction
  <2>7. Upto(n)
    BY <1>1, <1>3, <2>6 DEF S
  <2> QED BY <1>1, <2>2, <2>7
<1> QED BY <1>2, <1>3

\* What stands where in two lists, one behind the other.
LEMMA JoinedAt ==
  ASSUME NEW A, NEW s \in Seq(A), NEW t \in Seq(A)
  PROVE  /\ s \o t \in Seq(A) /\ Len(s \o t) = Len(s) + Len(t)
         /\ \A i \in 1..Len(s) : (s \o t)[i] = s[i]
         /\ \A i \in 1..Len(t) : (s \o t)[Len(s) + i] = t[i]
  OBVIOUS

\* A list on a larger set.
LEMMA Widened ==
  ASSUME NEW A, NEW B, A \subseteq B, NEW s \in Seq(A)
  PROVE  s \in Seq(B)
OBVIOUS

\* A list in two parts.
LEMMA Parted ==
  ASSUME NEW s \in Seq(Nat), NEW n \in 0..Len(s)
  PROVE  /\ SubSeq(s, 1, n) \in Seq(Nat) /\ Len(SubSeq(s, 1, n)) = n
         /\ \A k \in 1..n : SubSeq(s, 1, n)[k] = s[k]
         /\ Len(SubSeq(s, n + 1, Len(s))) = Len(s) - n
         /\ \A k \in 1 .. Len(s) - n : SubSeq(s, n + 1, Len(s))[k] = s[n + k]
<1>1. Len(s) \in Nat /\ n \in Nat /\ n <= Len(s)
  OBVIOUS
<1>2. SubSeq(s, 1, n) \in Seq(Nat) /\ Len(SubSeq(s, 1, n)) = n /\ \A k \in 1..n : SubSeq(s, 1, n)[k] = s[k]
  BY <1>1
<1>3. Len(SubSeq(s, n + 1, Len(s))) = Len(s) - n
  BY <1>1
<1>4. \A k \in 1 .. Len(s) - n : SubSeq(s, n + 1, Len(s))[k] = s[n + k]
  BY <1>1
<1> QED BY <1>2, <1>3, <1>4

\* Short lists.
LEMMA ShortLists ==
  ASSUME NEW A, NEW w \in A, NEW x \in A, NEW y \in A, NEW z \in A
  PROVE  <<w>> \in Seq(A) /\ <<w, x>> \in Seq(A) /\ <<w, x, y, z>> \in Seq(A)
OBVIOUS

\* What blocks lead to when the blocks behind them do, all blocks do.
LEMMA Downward ==
  ASSUME NEW m \in Nat, NEW S,
         \A b \in 0..m : (\A c \in 0..m : b < c => c \in S) => b \in S
  PROVE  0..m \subseteq S
<1> DEFINE T == {n \in Nat : m - n \in (0..m) \ S}
<1> SUFFICES ASSUME NEW x \in 0..m, x \notin S PROVE FALSE
  OBVIOUS
<1>1. m - x \in Nat /\ m - (m - x) = x
  OBVIOUS
<1>2. T # {} /\ T \subseteq Nat
  <2>1. m - x \in T
    BY <1>1
  <2> QED BY <2>1
<1>3. PICK n \in T : \A k \in T : n <= k
  BY <1>2, LeastOf
<1>4. ASSUME NEW c \in 0..m, m - n < c PROVE c \in S
  <2>1. m - c \in Nat /\ m - (m - c) = c /\ m - c < n
    BY <1>3, <1>4
  <2>2. m - c \notin T
    BY <1>3, <2>1
  <2> QED BY <2>1, <2>2
<1> QED BY <1>3, <1>4

\* The first of some numbers is the first of those up to m, or else m + 1.
LEMMA FirstUpTo ==
  ASSUME NEW m \in Nat, NEW a, NEW b, b \subseteq Nat, m + 1 \in b, a = {j \in b : j <= m}
  PROVE  Min(b) = IF a = {} THEN m + 1 ELSE Min(a)
<1>1. Min(b) \in b /\ Min(b) \in Nat /\ \A j \in b : Min(b) <= j
  BY MinOf
<1>2. a \subseteq Nat /\ \A j \in a : j \in b /\ j <= m
  OBVIOUS
<1>3. CASE a = {}
  <2>1. ~(Min(b) <= m)
    BY <1>1, <1>3
  <2>2. Min(b) <= m + 1
    BY <1>1
  <2>3. Min(b) = m + 1
    BY <1>1, <2>1, <2>2
  <2> QED BY <1>3, <2>3
<1>4. CASE a # {}
  <2>1. Min(a) \in a /\ Min(a) \in Nat /\ \A j \in a : Min(a) <= j
    BY <1>2, <1>4, MinOf
  <2>2. Min(b) <= Min(a) /\ Min(a) <= m
    BY <1>1, <1>2, <2>1
  <2>3. Min(b) \in a
    BY <1>1, <2>1, <2>2
  <2>4. Min(a) <= Min(b)
    BY <2>1, <2>3
  <2> QED BY <1>1, <1>4, <2>1, <2>2, <2>4
<1> QED BY <1>3, <1>4

\* Four lines, put together one by one.
LEMMA FourLines ==
  ASSUME NEW A, NEW w \in A, NEW x \in A, NEW y \in A, NEW z \in A
  PROVE  ((<<w>> \o <<x>>) \o <<y>>) \o <<z>> = <<w, x, y, z>>
<1>1. <<w>> \o <<x>> = <<w, x>>
  <2>1. <<w>> \in [1 .. 1 -> A] /\ <<x>> \in [1 .. 1 -> A]
    OBVIOUS
  <2>2. <<w>> \o <<x>> = [i \in 1 .. 2 |-> IF i <= 1 THEN <<w>>[i] ELSE <<x>>[i - 1]]
    OBVIOUS
  <2>3. <<w, x>> = [i \in 1 .. 2 |-> IF i <= 1 THEN <<w>>[i] ELSE <<x>>[i - 1]]
    OBVIOUS
  <2> QED BY <2>1, <2>2, <2>3
<1>2. /\ <<w, x>> \in Seq(A) /\ <<y>> \in Seq(A)
      /\ <<w, x, y>> = <<w, x>> \o <<y>>
  OBVIOUS
<1>3. /\ <<w, x, y>> \in Seq(A) /\ <<z>> \in Seq(A)
      /\ <<w, x, y, z>> = <<w, x, y>> \o <<z>>
  OBVIOUS
<1> QED BY <1>1, <1>2, <1>3

\* The first m lists of ss, put together.
Upto(ss, m) == FlattenSeq(SubSeq(ss, 1, m))

\* It grows by one list after the other.
LEMMA UptoGrows ==
  ASSUME NEW A, NEW ss \in Seq(Seq(A))
  PROVE  /\ Upto(ss, 0) = << >> /\ Upto(ss, Len(ss)) = FlattenSeq(ss)
         /\ \A m \in 0 .. Len(ss) : Upto(ss, m) \in Seq(A)
         /\ \A m \in 1 .. Len(ss) : Upto(ss, m) = Upto(ss, m - 1) \o ss[m]
<1> DEFINE n == Len(ss)
           h(s) == CHOOSE g : g = Flat(g, s)
           front(m) == SubSeq(ss, 1, m)
<1>1. n \in Nat /\ DOMAIN ss = 1..n /\ \A i \in 1..n : ss[i] \in Seq(A)
  OBVIOUS
<1>2. SubSeq(ss, 1, n) = ss /\ SubSeq(ss, 1, 0) = << >>
  OBVIOUS
<1>3. FlattenSeq(<< >>) = << >>
  BY DEF FlattenSeq
<1> HIDE DEF n
<1>4. ASSUME NEW m \in 0..n
      PROVE  /\ front(m) \in Seq(Seq(A)) /\ Len(front(m)) = m
             /\ \A i \in 1..m : front(m)[i] = ss[i]
  <2>1. \A i \in 1..m : ss[i] \in Seq(A)
    BY <1>1
  <2> QED BY <1>1, <2>1, SubSeqProperties
<1> HIDE DEF front
<1>5. ASSUME NEW m \in 1..n
      PROVE  /\ FlattenSeq(front(m)) = h(front(m))[m]
             /\ \A i \in 1..m : h(front(m))[i] = IF i = 1 THEN ss[i] ELSE h(front(m))[i - 1] \o ss[i]
  <2> DEFINE s == front(m)
  <2>0. m \in 0..n /\ m # 0 /\ m \in Nat
    BY <1>1
  <2>1. s \in Seq(Seq(A)) /\ Len(s) = m /\ \A i \in 1..m : s[i] = ss[i]
    BY <1>4, <2>0
  <2> HIDE DEF s
  <2>2. h(s) = Flat(h(s), s)
    BY <2>1, FlatExists
  <2>3. FlattenSeq(s) = h(s)[m]
    BY <2>0, <2>1 DEF FlattenSeq, Flat
  <2> HIDE DEF h
  <2>4. \A i \in 1..m : h(s)[i] = IF i = 1 THEN s[i] ELSE h(s)[i - 1] \o s[i]
    BY <2>1, <2>2 DEF Flat
  <2>5. \A i \in 1..m : h(s)[i] = IF i = 1 THEN ss[i] ELSE h(s)[i - 1] \o ss[i]
    BY <2>1, <2>4
  <2> QED BY <2>3, <2>5 DEF s
<1> HIDE DEF h
<1>6. ASSUME NEW m \in 1..n, NEW k \in 1..n, m <= k PROVE h(front(k))[m] = h(front(m))[m]
  <2> DEFINE S == {i \in Nat : i \in 1..m => h(front(k))[i] = h(front(m))[i]}
             a == h(front(k))
             b == h(front(m))
  <2>1. \A i \in 1..m : /\ a[i] = IF i = 1 THEN ss[i] ELSE a[i - 1] \o ss[i]
                        /\ b[i] = IF i = 1 THEN ss[i] ELSE b[i - 1] \o ss[i]
    <3>1. \A i \in 1..m : i \in 1..k
      BY <1>1, <1>6
    <3> QED BY <1>5, <3>1
  <2> HIDE DEF a, b
  <2>2. \A i \in Nat : i \in 1..m => a[i] = b[i]
    <3> DEFINE T == {i \in Nat : i \in 1..m => a[i] = b[i]}
    <3>1. 0 \in T
      OBVIOUS
    <3>2. ASSUME NEW i \in Nat, i \in T PROVE i + 1 \in T
      <4> SUFFICES ASSUME i + 1 \in 1..m PROVE a[i + 1] = b[i + 1]
        OBVIOUS
      <4>1. CASE i = 0
        BY <2>1, <4>1
      <4>2. CASE i # 0
        <5>1. i \in 1..m /\ (i + 1) - 1 = i /\ i + 1 # 1
          BY <1>1, <4>2
        <5>2. a[i] = b[i]
          BY <3>2, <5>1
        <5> QED BY <2>1, <5>1, <5>2
      <4> QED BY <4>1, <4>2
    <3> HIDE DEF T
    <3>3. Nat \subseteq T
      BY <3>1, <3>2, SetInduction
    <3> QED BY <3>3 DEF T
  <2>3. m \in Nat /\ m \in 1..m
    BY <1>1
  <2> QED BY <2>2, <2>3 DEF a, b
<1>7. ASSUME NEW m \in 1..n PROVE FlattenSeq(front(m)) = FlattenSeq(front(m - 1)) \o ss[m]
  <2>1. CASE m = 1
    <3>1. FlattenSeq(front(0)) = << >> /\ 1 \in 1..n /\ 1 \in 1..1
      <4>1. 1 \in 1..n /\ 1 \in 1..1
        BY <2>1
      <4> QED BY <1>2, <1>3, <4>1 DEF front
    <3>2. FlattenSeq(front(1)) = ss[1] /\ ss[1] \in Seq(A)
      BY <1>1, <1>5, <3>1
    <3> QED BY <2>1, <3>1, <3>2
  <2>2. CASE m # 1
    <3>1. m - 1 \in 1..n /\ m - 1 <= m /\ m \in 1..m
      BY <1>1, <2>2
    <3>2. h(front(m))[m - 1] = h(front(m - 1))[m - 1]
      BY <1>6, <3>1
    <3>3. FlattenSeq(front(m - 1)) = h(front(m - 1))[m - 1]
      BY <1>5, <3>1
    <3>4. FlattenSeq(front(m)) = h(front(m))[m - 1] \o ss[m]
      BY <1>5, <2>2, <3>1
    <3> QED BY <3>2, <3>3, <3>4
  <2> QED BY <2>1, <2>2
<1>8. \A m \in 0..n : FlattenSeq(front(m)) \in Seq(A)
  BY <1>4, Flattened
<1> QED BY <1>2, <1>3, <1>7, <1>8 DEF Upto, front, n

\* Lists of lists, one behind the other.
LEMMA FlatJoin ==
  ASSUME NEW A, NEW ss \in Seq(Seq(A)), NEW tt \in Seq(Seq(A))
  PROVE  FlattenSeq(ss \o tt) = FlattenSeq(ss) \o FlattenSeq(tt)
<1> DEFINE m == Len(ss)
           n == Len(tt)
           uu == ss \o tt
<1>1. /\ m \in Nat /\ n \in Nat /\ uu \in Seq(Seq(A)) /\ Len(uu) = m + n
      /\ \A i \in 1..m : uu[i] = ss[i]
      /\ \A i \in 1..n : uu[m + i] = tt[i]
      /\ \A i \in 1..n : tt[i] \in Seq(A)
  OBVIOUS
<1> HIDE DEF m, n, uu
<1>2. /\ Upto(ss, 0) = << >> /\ Upto(tt, 0) = << >> /\ Upto(uu, 0) = << >>
      /\ \A i \in 1..m : Upto(ss, i) = Upto(ss, i - 1) \o ss[i]
      /\ \A i \in 1..n : Upto(tt, i) = Upto(tt, i - 1) \o tt[i]
      /\ \A i \in 1..(m + n) : Upto(uu, i) = Upto(uu, i - 1) \o uu[i]
      /\ Upto(ss, m) \in Seq(A) /\ \A i \in 0..n : Upto(tt, i) \in Seq(A)
      /\ Upto(ss, m) = FlattenSeq(ss) /\ Upto(tt, n) = FlattenSeq(tt)
      /\ Upto(uu, m + n) = FlattenSeq(uu)
  BY <1>1, UptoGrows, m \in 0..m DEF m, n
<1> DEFINE S == {i \in Nat : i <= m => Upto(uu, i) = Upto(ss, i)}
           T == {i \in Nat : i <= n => Upto(uu, m + i) = Upto(ss, m) \o Upto(tt, i)}
<1>3. m \in S
  <2>1. 0 \in S
    BY <1>2
  <2>2. ASSUME NEW i \in Nat, i \in S PROVE i + 1 \in S
    <3> SUFFICES ASSUME i + 1 <= m PROVE Upto(uu, i + 1) = Upto(ss, i + 1)
      OBVIOUS
    <3>1. i + 1 \in 1..m /\ i + 1 \in 1..(m + n) /\ (i + 1) - 1 = i /\ Upto(uu, i) = Upto(ss, i)
      BY <1>1, <2>2
    <3> QED BY <1>1, <1>2, <3>1
  <2> HIDE DEF S
  <2> QED BY <1>1, <2>1, <2>2, SetInduction
<1>4. n \in T
  <2>1. 0 \in T
    BY <1>1, <1>2, <1>3
  <2>2. ASSUME NEW i \in Nat, i \in T PROVE i + 1 \in T
    <3> SUFFICES ASSUME i + 1 <= n PROVE Upto(uu, m + (i + 1)) = Upto(ss, m) \o Upto(tt, i + 1)
      OBVIOUS
    <3>1. /\ i + 1 \in 1..n /\ m + (i + 1) \in 1..(m + n) /\ (i + 1) - 1 = i
          /\ (m + (i + 1)) - 1 = m + i /\ Upto(uu, m + i) = Upto(ss, m) \o Upto(tt, i) /\ i \in 0..n
      BY <1>1, <2>2
    <3> DEFINE a == Upto(ss, m)
               b == Upto(tt, i)
               c == tt[i + 1]
    <3>2. a \in Seq(A) /\ b \in Seq(A) /\ c \in Seq(A)
      BY <1>1, <1>2, <3>1
    <3>3. Upto(uu, m + (i + 1)) = (a \o b) \o c /\ Upto(tt, i + 1) = b \o c
      BY <1>1, <1>2, <3>1
    <3> HIDE DEF a, b, c
    <3>4. (a \o b) \o c = a \o (b \o c)
      BY <3>2
    <3> QED BY <3>3, <3>4 DEF a
  <2> HIDE DEF T
  <2> QED BY <1>1, <2>1, <2>2, SetInduction
<1> QED BY <1>1, <1>2, <1>4 DEF uu

\* A list of lists of one.
LEMMA FlatOne ==
  ASSUME NEW A, NEW y \in Seq(A)
  PROVE  FlattenSeq(<<y>>) = y
<1> DEFINE ss == <<y>>
<1>1. ss \in Seq(Seq(A)) /\ Len(ss) = 1 /\ ss[1] = y
  OBVIOUS
<1> HIDE DEF ss
<1>2. /\ Upto(ss, 0) = << >> /\ Upto(ss, 1) = FlattenSeq(ss)
      /\ \A m \in 1 .. 1 : Upto(ss, m) = Upto(ss, m - 1) \o ss[m]
  BY <1>1, UptoGrows
<1>3. 1 \in 1..1 /\ 1 - 1 = 0
  OBVIOUS
<1>4. FlattenSeq(ss) = << >> \o y
  BY <1>1, <1>2, <1>3
<1>5. << >> \o y = y
  OBVIOUS
<1> QED BY <1>4, <1>5 DEF ss

\* The j-th list is longer by e, and those behind it are empty.
Longer(tt, ss, j, e) ==
  /\ Len(tt) = Len(ss) /\ j \in 1..Len(ss) /\ tt[j] = ss[j] \o e
  /\ \A i \in 1..Len(ss) : i < j => tt[i] = ss[i]
  /\ \A i \in 1..Len(ss) : j < i => tt[i] = << >> /\ ss[i] = << >>

\* So is what they are put together.
LEMMA FlatGrows ==
  ASSUME NEW A, NEW ss \in Seq(Seq(A)), NEW tt \in Seq(Seq(A)), NEW j \in Nat, NEW e \in Seq(A),
         Longer(tt, ss, j, e)
  PROVE  FlattenSeq(tt) = FlattenSeq(ss) \o e
<1> DEFINE n == Len(ss)
           S == {i \in Nat : i < j => Upto(tt, i) = Upto(ss, i)}
           T == {i \in Nat : j + i <= n => Upto(tt, j + i) = Upto(ss, j + i) \o e}
<1>1. /\ n \in Nat /\ Len(tt) = n /\ \A i \in 1..n : ss[i] \in Seq(A) /\ tt[i] \in Seq(A)
  BY DEF Longer
<1>2. /\ Upto(ss, 0) = << >> /\ Upto(tt, 0) = << >>
      /\ \A i \in 1..n : Upto(ss, i) = Upto(ss, i - 1) \o ss[i]
      /\ \A i \in 1..n : Upto(tt, i) = Upto(tt, i - 1) \o tt[i]
      /\ \A i \in 0..n : Upto(ss, i) \in Seq(A)
      /\ Upto(ss, n) = FlattenSeq(ss) /\ Upto(tt, n) = FlattenSeq(tt)
  BY <1>1, UptoGrows
<1>3. /\ \A i \in 1..n : i < j => tt[i] = ss[i]
      /\ \A i \in 1..n : j < i => tt[i] = << >> /\ ss[i] = << >>
      /\ j <= n /\ j \in 1..n /\ tt[j] = ss[j] \o e
  BY DEF Longer
<1>0. n \in Nat /\ j \in Nat /\ j <= n
  BY <1>1, <1>3
<1> HIDE DEF n
<1>4. \A i \in Nat : i \in S
  <2>1. 0 \in S
    BY <1>2
  <2>2. ASSUME NEW i \in Nat, i \in S PROVE i + 1 \in S
    <3> SUFFICES ASSUME i + 1 < j PROVE Upto(tt, i + 1) = Upto(ss, i + 1)
      OBVIOUS
    <3>1. i + 1 < j /\ Upto(tt, i) = Upto(ss, i)
      BY <2>2
    <3> HIDE DEF S
    <3>2. i + 1 \in 1..n /\ (i + 1) - 1 = i
      BY <1>0, <3>1
    <3> QED BY <1>2, <1>3, <3>1, <3>2
  <2> HIDE DEF S
  <2> QED BY <2>1, <2>2, SetInduction
<1>5. 0 \in T
  <2> DEFINE a == Upto(ss, j - 1)
             b == ss[j]
  <2>1. j - 1 \in Nat /\ j - 1 < j /\ j \in 1..n /\ j - 1 \in 0..n /\ j + 0 = j
    BY <1>1, <1>3
  <2>2. Upto(tt, j - 1) = a
    BY <1>4, <2>1
  <2>3. /\ a \in Seq(A) /\ b \in Seq(A) /\ Upto(ss, j) = a \o b
        /\ Upto(tt, j) = a \o (b \o e)
    BY <1>1, <1>2, <1>3, <2>1, <2>2
  <2> HIDE DEF a, b
  <2>4. (a \o b) \o e = a \o (b \o e)
    <3>1. a \in Seq(A) /\ b \in Seq(A) /\ e \in Seq(A)
      BY <2>3
    <3> QED BY <3>1
  <2> QED BY <2>1, <2>3, <2>4
<1>6. ASSUME NEW i \in Nat, i \in T PROVE i + 1 \in T
  <2> SUFFICES ASSUME j + (i + 1) <= n
               PROVE  Upto(tt, j + (i + 1)) = Upto(ss, j + (i + 1)) \o e
    OBVIOUS
  <2> DEFINE k == j + (i + 1)
             a == Upto(ss, k - 1)
  <2>0. j + (i + 1) <= n
    OBVIOUS
  <2> HIDE DEF T
  <2>1. k \in 1..n /\ k - 1 \in 0..n /\ k - 1 = j + i /\ j + i <= n /\ j < k
    BY <1>1, <2>0
  <2>2. Upto(tt, k - 1) = a \o e
    BY <1>6, <2>1 DEF T
  <2> HIDE DEF k
  <2>3. /\ a \in Seq(A) /\ tt[k] = << >> /\ ss[k] = << >>
        /\ Upto(ss, k) = a \o ss[k] /\ Upto(tt, k) = (a \o e) \o tt[k]
    BY <1>2, <1>3, <2>1, <2>2
  <2> HIDE DEF a
  <2>4. a \o << >> = a /\ (a \o e) \o << >> = a \o e
    BY <2>3
  <2>5. Upto(tt, k) = Upto(ss, k) \o e
    BY <2>3, <2>4
  <2> QED BY <2>5 DEF k
<1> HIDE DEF S, T
<1>7. n - j \in Nat /\ j + (n - j) = n
  BY <1>1, <1>3
<1>8. n - j \in T
  BY <1>5, <1>6, <1>7, SetInduction
<1>9. Upto(tt, n) = Upto(ss, n) \o e
  BY <1>7, <1>8 DEF T
<1> QED BY <1>2, <1>9

\* Functions from A to B, and f of every element of s.
Maps(A, B) == [A -> B]
Image(f, s) == [k \in DOMAIN s |-> f[s[k]]]

\* It is a list of what f gives.
LEMMA EachType ==
  ASSUME NEW A, NEW B, NEW f \in Maps(A, B), NEW s \in Seq(A)
  PROVE  /\ Image(f, s) \in Seq(B) /\ Len(Image(f, s)) = Len(s) /\ DOMAIN Image(f, s) = 1..Len(s)
         /\ \A k \in 1..Len(s) : Image(f, s)[k] = f[s[k]]
<1>1. DOMAIN s = 1..Len(s) /\ Len(s) \in Nat /\ \A k \in 1..Len(s) : f[s[k]] \in B
  BY DEF Maps
<1>2. Image(f, s) \in [1..Len(s) -> B]
  BY <1>1 DEF Image
<1> DEFINE n == Len(s)
<1>3. n \in Nat /\ Image(f, s) \in [1..n -> B]
  BY <1>1, <1>2
<1> HIDE DEF n
<1>4. Image(f, s) \in Seq(B) /\ Len(Image(f, s)) = n
  BY <1>3
<1> QED BY <1>1, <1>4 DEF Image, n

\* Two lists, one behind the other.
LEMMA EachJoin ==
  ASSUME NEW A, NEW B, NEW f \in Maps(A, B), NEW s \in Seq(A), NEW t \in Seq(A)
  PROVE  Image(f, s \o t) = Image(f, s) \o Image(f, t)
<1> DEFINE m == Len(s)
           n == Len(t)
           u == s \o t
           a == Image(f, s)
           b == Image(f, t)
           w == Image(f, u)
           v == a \o b
<1>1. /\ m \in Nat /\ n \in Nat /\ u \in Seq(A) /\ Len(u) = m + n
      /\ \A i \in 1..m : u[i] = s[i]
      /\ \A i \in 1..n : u[m + i] = t[i]
  OBVIOUS
<1> HIDE DEF m, n, u
<1>2. /\ a \in Seq(B) /\ Len(a) = m /\ \A k \in 1..m : a[k] = f[s[k]]
      /\ b \in Seq(B) /\ Len(b) = n /\ \A k \in 1..n : b[k] = f[t[k]]
      /\ w \in Seq(B) /\ Len(w) = m + n /\ \A k \in 1..(m + n) : w[k] = f[u[k]]
  <2>1. a \in Seq(B) /\ Len(a) = m /\ \A k \in 1..m : a[k] = f[s[k]]
    BY EachType DEF m
  <2>2. b \in Seq(B) /\ Len(b) = n /\ \A k \in 1..n : b[k] = f[t[k]]
    BY EachType DEF n
  <2>3. w \in Seq(B) /\ Len(w) = m + n /\ \A k \in 1..(m + n) : w[k] = f[u[k]]
    BY <1>1, EachType
  <2> QED BY <2>1, <2>2, <2>3
<1> HIDE DEF a, b, w
<1>3. /\ v \in Seq(B) /\ Len(v) = m + n
      /\ \A i \in 1..m : v[i] = a[i]
      /\ \A i \in 1..n : v[m + i] = b[i]
  <2>1. a \in Seq(B) /\ Len(a) = m /\ b \in Seq(B) /\ Len(b) = n
    BY <1>2
  <2>2. a \o b \in Seq(B) /\ Len(a \o b) = Len(a) + Len(b)
    BY <2>1, JoinedAt
  <2>3. \A i \in 1..Len(a) : (a \o b)[i] = a[i]
    BY <2>1, JoinedAt
  <2>4. \A i \in 1..Len(b) : (a \o b)[Len(a) + i] = b[i]
    BY <2>1, JoinedAt
  <2>5. v = a \o b
    OBVIOUS
  <2> HIDE DEF v
  <2> QED BY <2>1, <2>2, <2>3, <2>4, <2>5
<1> HIDE DEF v
<1>4. ASSUME NEW i \in 1..(m + n) PROVE v[i] = w[i]
  <2>1. CASE i \in 1..m
    <3>1. v[i] = a[i] /\ u[i] = s[i] /\ w[i] = f[u[i]] /\ a[i] = f[s[i]]
      BY <1>1, <1>2, <1>3, <2>1, Zenon
    <3> QED BY <3>1
  <2>2. CASE i \notin 1..m
    <3> DEFINE j == i - m
    <3>1. j \in 1..n /\ m + j = i
      BY <1>1, <2>2
    <3> HIDE DEF j
    <3>2. v[i] = b[j] /\ u[i] = t[j] /\ w[i] = f[u[i]] /\ b[j] = f[t[j]]
      BY <1>1, <1>2, <1>3, <3>1
    <3> QED BY <3>2
  <2> QED BY <2>1, <2>2
<1>5. v = w
  <2> DEFINE l == m + n
  <2>1. l \in Nat /\ Len(v) = l /\ Len(w) = l /\ \A i \in 1..l : v[i] = w[i]
    BY <1>1, <1>2, <1>3, <1>4
  <2> HIDE DEF l
  <2> QED BY <1>2, <1>3, <2>1
<1> QED BY <1>5 DEF v, w, u, a, b

\* What keeps everything: the list, put together of lists of one.
LEMMA Singles ==
  ASSUME NEW A, NEW s \in Seq(A), NEW f \in Maps(A, Seq(A)), \A k \in DOMAIN s : f[s[k]] = <<s[k]>>
  PROVE  FlattenSeq(Image(f, s)) = s
<1> DEFINE n == Len(s)
           ss == Image(f, s)
           S == {m \in Nat : m <= n => Upto(ss, m) = SubSeq(s, 1, m)}
<1>1. /\ n \in Nat /\ ss \in Seq(Seq(A)) /\ Len(ss) = n
      /\ \A k \in 1..n : ss[k] = <<s[k]>> /\ s[k] \in A
  <2>1. DOMAIN s = 1..n /\ n \in Nat /\ \A k \in 1..n : s[k] \in A
    OBVIOUS
  <2>2. ss \in Seq(Seq(A)) /\ Len(ss) = n /\ \A k \in 1..n : ss[k] = f[s[k]]
    <3> HIDE DEF ss
    <3> QED BY EachType DEF ss
  <2> QED BY <2>1, <2>2
<1> HIDE DEF n, ss
<1>2. /\ Upto(ss, 0) = << >> /\ Upto(ss, n) = FlattenSeq(ss)
      /\ \A m \in 1..n : Upto(ss, m) = Upto(ss, m - 1) \o ss[m]
  BY <1>1, UptoGrows
<1>3. 0 \in S
  <2>1. SubSeq(s, 1, 0) = << >>
    OBVIOUS
  <2> QED BY <1>2, <2>1
<1>4. ASSUME NEW m \in Nat, m \in S PROVE m + 1 \in S
  <2> SUFFICES ASSUME m + 1 <= n PROVE Upto(ss, m + 1) = SubSeq(s, 1, m + 1)
    OBVIOUS
  <2>0. m + 1 <= n
    OBVIOUS
  <2> HIDE DEF S
  <2>1. m <= n /\ m + 1 \in 1..n /\ (m + 1) - 1 = m
    BY <1>1, <2>0
  <2>2. Upto(ss, m) = SubSeq(s, 1, m)
    BY <1>4, <2>1 DEF S
  <2>3. Upto(ss, m + 1) = SubSeq(s, 1, m) \o <<s[m + 1]>>
    BY <1>1, <1>2, <2>1, <2>2
  <2>4. SubSeq(s, 1, m + 1) = SubSeq(s, 1, m) \o <<s[m + 1]>>
    <3> DEFINE a == SubSeq(s, 1, m)
               b == SubSeq(s, 1, m + 1)
               c == <<s[m + 1]>>
    <3>1. /\ a \in Seq(A) /\ Len(a) = m /\ \A k \in 1..m : a[k] = s[k]
          /\ b \in Seq(A) /\ Len(b) = m + 1 /\ \A k \in 1..(m + 1) : b[k] = s[k]
          /\ c \in Seq(A) /\ Len(c) = 1 /\ c[1] = s[m + 1]
      <4>1. Len(s) = n /\ m \in Nat /\ m + 1 <= n /\ n \in Nat
        BY <1>1, <2>0 DEF n
      <4> QED BY <4>1, <1>1, <2>1
    <3> HIDE DEF a, b, c
    <3>2. a \o c \in Seq(A) /\ Len(a \o c) = m + 1 /\ (\A k \in 1..m : (a \o c)[k] = a[k])
          /\ (a \o c)[m + 1] = s[m + 1]
      <4>1. a \in Seq(A) /\ Len(a) = m /\ c \in Seq(A) /\ Len(c) = 1 /\ c[1] = s[m + 1]
        BY <3>1
      <4> DEFINE r == a \o c
      <4>0. a \in Seq(A) /\ c \in Seq(A)
        BY <4>1
      <4>2. a \o c \in Seq(A) /\ Len(a \o c) = Len(a) + Len(c)
        BY <4>0, JoinedAt
      <4>3. \A k \in 1..Len(a) : (a \o c)[k] = a[k]
        BY <4>0, JoinedAt
      <4>4. \A k \in 1..Len(c) : (a \o c)[Len(a) + k] = c[k]
        BY <4>0, JoinedAt
      <4>5. r = a \o c
        OBVIOUS
      <4> HIDE DEF r
      <4>6. r \in Seq(A) /\ Len(r) = m + 1 /\ (\A k \in 1..m : r[k] = a[k]) /\ r[m + 1] = s[m + 1]
        <5>1. 1 \in 1..1
          OBVIOUS
        <5> QED BY <4>1, <4>2, <4>3, <4>4, <4>5, <5>1
      <4> QED BY <4>5, <4>6
    <3>3. \A k \in 1..(m + 1) : (a \o c)[k] = b[k]
      <4>1. \A k \in 1..(m + 1) : k \in 1..m \/ k = m + 1
        OBVIOUS
      <4> QED BY <3>1, <3>2, <4>1
    <3>4. a \o c = b
      <4> DEFINE r == a \o c
      <4>1. r \in Seq(A) /\ Len(r) = m + 1 /\ \A k \in 1..(m + 1) : r[k] = b[k]
        BY <3>2, <3>3
      <4> HIDE DEF r
      <4>2. r = b
        BY <3>1, <4>1
      <4> QED BY <4>2 DEF r
    <3> QED BY <3>4 DEF a, b, c
  <2> QED BY <2>3, <2>4
<1> HIDE DEF S
<1>5. n \in S
  BY <1>1, <1>3, <1>4, SetInduction
<1>6. Upto(ss, n) = SubSeq(s, 1, n)
  BY <1>1, <1>5 DEF S
<1>7. SubSeq(s, 1, n) = s
  BY DEF n
<1> QED BY <1>2, <1>6, <1>7 DEF ss

\* What f and g both give is the same for every element.
LEMMA EachSame ==
  ASSUME NEW A, NEW s \in Seq(A), NEW f, NEW g, \A x \in ToSet(s) : f[x] = g[x]
  PROVE  Image(f, s) = Image(g, s)
<1>1. \A k \in DOMAIN s : s[k] \in ToSet(s)
  BY DEF ToSet
<1> QED BY <1>1, Zenon DEF Image

\* A list as pairs, each of a place and an element.
Pairs(bs) == {<<i, bs[i]>> : i \in 1..Len(bs)}

\* A longer list, more pairs.
LEMMA PairsMore ==
  ASSUME NEW A, NEW bs \in Seq(A), NEW ids \in Seq(A)
  PROVE  Pairs(bs \o ids) = Pairs(bs) \cup {<<Len(bs) + k, ids[k]>> : k \in 1..Len(ids)}
<1> DEFINE m == Len(bs)
           n == Len(ids)
           cs == bs \o ids
<1>1. /\ m \in Nat /\ n \in Nat /\ Len(cs) = m + n
      /\ \A i \in 1..m : cs[i] = bs[i]
      /\ \A k \in 1..n : cs[m + k] = ids[k]
  OBVIOUS
<1> HIDE DEF m, n, cs
<1>2. ASSUME NEW i \in 1 .. m + n
      PROVE  <<i, cs[i]>> \in {<<j, bs[j]>> : j \in 1..m} \cup {<<m + k, ids[k]>> : k \in 1..n}
  <2>1. CASE i <= m
    <3>1. i \in 1..m
      BY <1>1, <2>1
    <3> QED BY <1>1, <3>1
  <2>2. CASE ~(i <= m)
    <3>1. i - m \in 1..n /\ m + (i - m) = i
      BY <1>1, <2>2
    <3>2. cs[i] = ids[i - m]
      BY <1>1, <3>1
    <3> QED BY <3>1, <3>2
  <2> QED BY <2>1, <2>2
<1>3. ASSUME NEW i \in 1..m PROVE <<i, bs[i]>> \in {<<j, cs[j]>> : j \in 1 .. m + n}
  <2>1. i \in 1 .. m + n
    BY <1>1
  <2> QED BY <1>1, <2>1
<1>4. ASSUME NEW k \in 1..n PROVE <<m + k, ids[k]>> \in {<<j, cs[j]>> : j \in 1 .. m + n}
  <2>1. m + k \in 1 .. m + n
    BY <1>1
  <2> QED BY <1>1, <2>1
<1>5. {<<j, cs[j]>> : j \in 1 .. m + n} =
        {<<j, bs[j]>> : j \in 1..m} \cup {<<m + k, ids[k]>> : k \in 1..n}
  BY <1>2, <1>3, <1>4
<1> QED BY <1>1, <1>5 DEF Pairs, m, n, cs

\* Their second parts.
LEMMA PairsOf ==
  ASSUME NEW A, NEW bs \in Seq(A)
  PROVE  {m[2] : m \in Pairs(bs)} = ToSet(bs)
<1>1. \A i \in 1..Len(bs) : <<i, bs[i]>>[2] = bs[i]
  OBVIOUS
<1>2. DOMAIN bs = 1..Len(bs)
  OBVIOUS
<1>3. ASSUME NEW x \in {m[2] : m \in Pairs(bs)} PROVE x \in ToSet(bs)
  <2>1. PICK m \in Pairs(bs) : x = m[2]
    BY <1>3
  <2>2. PICK i \in 1..Len(bs) : m = <<i, bs[i]>>
    BY <2>1 DEF Pairs
  <2> QED BY <1>2, <2>1, <2>2 DEF ToSet
<1>4. ASSUME NEW x \in ToSet(bs) PROVE x \in {m[2] : m \in Pairs(bs)}
  <2>1. PICK i \in 1..Len(bs) : x = bs[i]
    BY <1>2, <1>4 DEF ToSet
  <2>2. <<i, bs[i]>> \in Pairs(bs)
    BY DEF Pairs
  <2> QED BY <1>1, <2>1, <2>2
<1> QED BY <1>3, <1>4

\* One more element.
LEMMA OneBehind ==
  ASSUME NEW A, NEW s \in Seq(A), NEW e \in A
  PROVE  /\ Append(s, e) \in Seq(A)
         /\ ToSet(Append(s, e)) = ToSet(s) \cup {e}
         /\ IsInjective(s) /\ e \notin ToSet(s) => IsInjective(Append(s, e))
<1> DEFINE u == Append(s, e)
           n == Len(s)
<1>1. /\ n \in Nat /\ u \in Seq(A) /\ DOMAIN s = 1..n /\ DOMAIN u = 1..(n + 1)
      /\ u[n + 1] = e /\ \A k \in 1..n : u[k] = s[k]
  OBVIOUS
<1> HIDE DEF u, n
<1>2. \A k \in 1..(n + 1) : k \in 1..n \/ k = n + 1
  BY <1>1
<1>3. 1..n \subseteq 1..(n + 1) /\ n + 1 \in 1..(n + 1)
  BY <1>1
<1>4. ToSet(u) = ToSet(s) \cup {e}
  BY <1>1, <1>2, <1>3 DEF ToSet
<1>5. \A k \in 1..n : s[k] \in ToSet(s)
  BY <1>1 DEF ToSet
<1>6. IsInjective(s) /\ e \notin ToSet(s) => IsInjective(u)
  BY <1>1, <1>2, <1>5 DEF IsInjective
<1> QED BY <1>1, <1>4, <1>6 DEF u

\* A list of one element, and of none.
LEMMA OneElement == \A e : ToSet(<<e>>) = {e} /\ IsInjective(<<e>>)
<1> SUFFICES ASSUME NEW e PROVE ToSet(<<e>>) = {e} /\ IsInjective(<<e>>)
  OBVIOUS
<1> DEFINE s == <<e>>
<1>1. DOMAIN s = {1} /\ s[1] = e
  OBVIOUS
<1> HIDE DEF s
<1>2. ToSet(s) = {e} /\ IsInjective(s)
  BY <1>1 DEF ToSet, IsInjective
<1> QED BY <1>2 DEF s

LEMMA NoElement ==
  ASSUME NEW A, NEW s \in Seq(A), ToSet(s) = {}
  PROVE  s = << >>
<1>1. 1 \notin DOMAIN s
  BY DEF ToSet
<1>2. Len(s) = 0
  BY <1>1
<1> QED BY <1>2

\* The elements of a list that are in K.
Sift(s, K) == FlattenSeq([k \in DOMAIN s |-> IF s[k] \in K THEN <<s[k]>> ELSE << >>])

LEMMA Sifted ==
  ASSUME NEW A, NEW s \in Seq(A), NEW K
  PROVE  /\ Sift(s, K) \in Seq(A) /\ ToSet(Sift(s, K)) = ToSet(s) \cap K
         /\ IsInjective(s) => IsInjective(Sift(s, K))
<1> DEFINE ss == [k \in DOMAIN s |-> IF s[k] \in K THEN <<s[k]>> ELSE << >>]
           n == Len(s)
<1>1. n \in Nat /\ DOMAIN s = 1..n /\ \A k \in 1..n : s[k] \in A
  OBVIOUS
<1>2. ss \in Seq(Seq(A)) /\ DOMAIN ss = 1..n
  BY <1>1
<1>3. \A k \in 1..n : ss[k] = IF s[k] \in K THEN <<s[k]>> ELSE << >>
  BY <1>1
<1> HIDE DEF ss, n
<1>4. \A k \in 1..n : ToSet(ss[k]) = {s[k]} \cap K /\ IsInjective(ss[k])
  <2> SUFFICES ASSUME NEW k \in 1..n
               PROVE  ToSet(ss[k]) = {s[k]} \cap K /\ IsInjective(ss[k])
    OBVIOUS
  <2> DEFINE e == s[k]
  <2>1. CASE e \in K
    <3>1. ss[k] = <<e>>
      BY <1>3, <2>1
    <3> QED BY <2>1, <3>1, OneElement
  <2>2. CASE e \notin K
    <3>1. ss[k] = << >>
      BY <1>3, <2>2
    <3>2. ToSet(<< >>) = {} /\ IsInjective(<< >>)
      BY DEF ToSet, IsInjective
    <3> QED BY <2>2, <3>1, <3>2
  <2> QED BY <2>1, <2>2
<1>5. UNION {ToSet(ss[i]) : i \in DOMAIN ss} = ToSet(s) \cap K
  <2>1. ToSet(s) = {s[i] : i \in 1..n}
    BY <1>1 DEF ToSet
  <2> QED BY <1>2, <1>4, <2>1
<1>6. IsInjective(s) => \A i, j \in DOMAIN ss : i # j => ToSet(ss[i]) \cap ToSet(ss[j]) = {}
  BY <1>1, <1>2, <1>4 DEF IsInjective
<1>7. /\ FlattenSeq(ss) \in Seq(A)
      /\ ToSet(FlattenSeq(ss)) = UNION {ToSet(ss[i]) : i \in DOMAIN ss}
  BY <1>2, Flattened
<1>8. ASSUME IsInjective(s) PROVE IsInjective(FlattenSeq(ss))
  <2>1. \A i \in DOMAIN ss : IsInjective(ss[i])
    BY <1>2, <1>4
  <2> QED BY <1>2, <1>6, <1>8, <2>1, Flattened
<1> QED BY <1>5, <1>7, <1>8 DEF ss, Sift
\* What Sift puts together.
LEMMA SiftIs ==
  ASSUME NEW A, NEW K, NEW s \in Seq(A), NEW f, f = [x \in A |-> IF x \in K THEN <<x>> ELSE << >>]
  PROVE  Sift(s, K) = FlattenSeq(Image(f, s)) /\ f \in Maps(A, Seq(A))
<1>1. [k \in DOMAIN s |-> IF s[k] \in K THEN <<s[k]>> ELSE << >>] = Image(f, s)
  <2>1. \A k \in DOMAIN s : s[k] \in A
    OBVIOUS
  <2>2. \A k \in DOMAIN s : f[s[k]] = IF s[k] \in K THEN <<s[k]>> ELSE << >>
    BY <2>1
  <2> QED BY <2>2, Zenon DEF Image
<1>2. f \in Maps(A, Seq(A))
  BY DEF Maps
<1> QED BY <1>1, <1>2 DEF Sift

\* Sift goes through lists that are put together one by one.
LEMMA SiftJoin ==
  ASSUME NEW A, NEW s \in Seq(A), NEW t \in Seq(A), NEW K
  PROVE  Sift(s \o t, K) = Sift(s, K) \o Sift(t, K)
<1> DEFINE f == [x \in A |-> IF x \in K THEN <<x>> ELSE << >>]
           u == s \o t
<1>0. u \in Seq(A)
  OBVIOUS
<1>1. /\ f \in Maps(A, Seq(A)) /\ Sift(s, K) = FlattenSeq(Image(f, s))
      /\ Sift(t, K) = FlattenSeq(Image(f, t)) /\ Sift(u, K) = FlattenSeq(Image(f, u))
  <2>1. f = [x \in A |-> IF x \in K THEN <<x>> ELSE << >>]
    OBVIOUS
  <2> HIDE DEF f, u
  <2> QED BY <1>0, <2>1, SiftIs
<1> HIDE DEF f
<1>2. Image(f, s) \in Seq(Seq(A)) /\ Image(f, t) \in Seq(Seq(A))
  BY <1>1, EachType
<1>3. Image(f, u) = Image(f, s) \o Image(f, t)
  BY <1>1, EachJoin
<1>4. FlattenSeq(Image(f, s) \o Image(f, t)) = FlattenSeq(Image(f, s)) \o FlattenSeq(Image(f, t))
  BY <1>2, FlatJoin
<1> QED BY <1>1, <1>3, <1>4

\* What keeps nothing, and a list of one.
LEMMA SiftOne ==
  ASSUME NEW A, NEW s \in Seq(A), NEW K
  PROVE  /\ \A x \in A : Sift(<<x>>, K) = IF x \in K THEN <<x>> ELSE << >>
         /\ ToSet(s) \cap K = {} => Sift(s, K) = << >>
<1>1. ASSUME NEW x \in A PROVE Sift(<<x>>, K) = IF x \in K THEN <<x>> ELSE << >>
  <2> DEFINE y == IF x \in K THEN <<x>> ELSE << >>
  <2>1. Sift(<<x>>, K) = FlattenSeq(<<y>>)
    <3>1. [k \in DOMAIN <<x>> |-> IF <<x>>[k] \in K THEN <<<<x>>[k]>> ELSE << >>] = <<y>>
      OBVIOUS
    <3> QED BY <3>1 DEF Sift
  <2>2. y \in Seq(A)
    OBVIOUS
  <2> HIDE DEF y
  <2> QED BY <2>1, <2>2, FlatOne DEF y
<1>2. ASSUME ToSet(s) \cap K = {} PROVE Sift(s, K) = << >>
  <2>1. Sift(s, K) \in Seq(A) /\ ToSet(Sift(s, K)) = {}
    BY <1>2, Sifted
  <2> QED BY <2>1, NoElement
<1> QED BY <1>1, <1>2

\* Sift goes through a list of lists.
LEMMA SiftFlat ==
  ASSUME NEW A, NEW B, NEW K, NEW s \in Seq(A), NEW f \in Maps(A, Seq(B)),
         NEW g \in Maps(A, Seq(B)), \A x \in A : g[x] = Sift(f[x], K)
  PROVE  Sift(FlattenSeq(Image(f, s)), K) = FlattenSeq(Image(g, s))
<1> DEFINE n == Len(s)
           ss == Image(f, s)
           tt == Image(g, s)
           S == {m \in Nat : m <= n => Sift(Upto(ss, m), K) = Upto(tt, m)}
<1>1. g \in Maps(A, Seq(B)) /\ \A x \in A : g[x] = Sift(f[x], K)
  OBVIOUS
<1>2. /\ n \in Nat /\ \A k \in 1..n : s[k] \in A
      /\ ss \in Seq(Seq(B)) /\ Len(ss) = n /\ \A k \in 1..n : ss[k] = f[s[k]]
      /\ tt \in Seq(Seq(B)) /\ Len(tt) = n /\ \A k \in 1..n : tt[k] = g[s[k]]
  <2>1. n \in Nat /\ \A k \in 1..n : s[k] \in A
    OBVIOUS
  <2>2. ss \in Seq(Seq(B)) /\ Len(ss) = Len(s) /\ \A k \in 1..Len(s) : ss[k] = f[s[k]]
    BY EachType
  <2>3. tt \in Seq(Seq(B)) /\ Len(tt) = Len(s) /\ \A k \in 1..Len(s) : tt[k] = g[s[k]]
    BY <1>1, EachType
  <2> QED BY <2>1, <2>2, <2>3
<1> HIDE DEF n, ss, tt
<1>3. \A k \in 1..n : ss[k] \in Seq(B) /\ tt[k] = Sift(ss[k], K)
  <2> SUFFICES ASSUME NEW k \in 1..n PROVE ss[k] \in Seq(B) /\ tt[k] = Sift(ss[k], K)
    OBVIOUS
  <2>1. s[k] \in A /\ ss[k] = f[s[k]] /\ tt[k] = g[s[k]]
    BY <1>2
  <2>2. g[s[k]] = Sift(f[s[k]], K)
    BY <1>1, <2>1
  <2>3. ss[k] \in Seq(B)
    BY <1>2
  <2> QED BY <2>1, <2>2, <2>3
<1>4. /\ Upto(ss, 0) = << >> /\ Upto(tt, 0) = << >>
      /\ \A i \in 1..n : Upto(ss, i) = Upto(ss, i - 1) \o ss[i]
      /\ \A i \in 1..n : Upto(tt, i) = Upto(tt, i - 1) \o tt[i]
      /\ \A i \in 0..n : Upto(ss, i) \in Seq(B)
      /\ Upto(ss, n) = FlattenSeq(ss) /\ Upto(tt, n) = FlattenSeq(tt)
  BY <1>2, UptoGrows
<1>5. 0 \in S
  <2>1. << >> \in Seq(B) /\ ToSet(<< >>) \cap K = {}
    BY DEF ToSet
  <2>2. Sift(<< >>, K) = << >>
    BY <2>1, SiftOne
  <2> QED BY <1>4, <2>2
<1>6. ASSUME NEW m \in Nat, m \in S PROVE m + 1 \in S
  <2> SUFFICES ASSUME m + 1 <= n PROVE Sift(Upto(ss, m + 1), K) = Upto(tt, m + 1)
    OBVIOUS
  <2>0. m + 1 <= n
    OBVIOUS
  <2> HIDE DEF S
  <2>1. m <= n /\ m + 1 \in 1..n /\ (m + 1) - 1 = m /\ m \in 0..n
    BY <1>2, <2>0
  <2>2. Sift(Upto(ss, m), K) = Upto(tt, m)
    BY <1>6, <2>1 DEF S
  <2> DEFINE a == Upto(ss, m)
             b == ss[m + 1]
  <2>3. Upto(ss, m + 1) = a \o b /\ Upto(tt, m + 1) = Upto(tt, m) \o Sift(b, K)
    BY <1>3, <1>4, <2>1
  <2>4. a \in Seq(B) /\ b \in Seq(B)
    BY <1>3, <1>4, <2>1
  <2> HIDE DEF a, b
  <2>5. Sift(a \o b, K) = Sift(a, K) \o Sift(b, K)
    BY <2>4, SiftJoin
  <2> QED BY <2>2, <2>3, <2>5 DEF a
<1> HIDE DEF S
<1>7. n \in S
  BY <1>2, <1>5, <1>6, SetInduction
<1>8. Sift(Upto(ss, n), K) = Upto(tt, n)
  BY <1>2, <1>7 DEF S
<1> QED BY <1>1, <1>4, <1>8 DEF ss, tt
=============================================================================
