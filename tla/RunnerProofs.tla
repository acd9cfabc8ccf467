---- MODULE RunnerProofs ----
(***************************************************************************)
(* Proofs about Runner: rows and verdict of a submission tell one story,   *)
(* Accepted means that every test case was passed, and the self test       *)
(* agrees with the judge, for all texts, programs, test cases and edits.   *)
(***************************************************************************)
EXTENDS Runner, FiniteSetTheorems, SequenceTheorems, TLAPS

-----------------------------------------------------------------------------
(* Arranging a finite set.                                                 *)

LEMMA FunctionIsSeq ==
    ASSUME NEW n \in Nat, NEW S, NEW f \in [1 .. n -> S]
    PROVE  f \in Seq(S) /\ Len(f) = n /\ DOMAIN f = 1 .. n
BY SeqDef

Orders(before, S) ==
    /\ \A x \in S : <<x, x>> \notin before
    /\ \A x, y \in S : x # y => <<x, y>> \in before \/ <<y, x>> \in before
    /\ \A x, y, z \in S : <<x, y>> \in before /\ <<y, z>> \in before => <<x, z>> \in before

IsArranged(s, S, before) ==
    /\ s \in [1 .. Cardinality(S) -> S]
    /\ \A x \in S : \E i \in 1 .. Cardinality(S) : s[i] = x
    /\ \A i, j \in 1 .. Cardinality(S) : i < j => <<s[i], s[j]>> \in before

\* An element has its place: one more than there are elements before it.
Place(x, S, before) == 1 + Cardinality({y \in S : <<y, x>> \in before})

LEMMA PlaceGrows ==
    ASSUME NEW S, IsFiniteSet(S), NEW before, Orders(before, S), NEW x \in S
    PROVE  /\ Place(x, S, before) \in 1 .. Cardinality(S)
           /\ \A y \in S : <<x, y>> \in before => Place(x, S, before) < Place(y, S, before)
<1> DEFINE P(y) == {z \in S : <<z, y>> \in before}
<1>1. \A y \in S : IsFiniteSet(P(y)) /\ Cardinality(P(y)) \in Nat
  BY FS_Subset, FS_CardinalityType
<1>2. Cardinality(S) \in Nat BY FS_CardinalityType
<1>3. Cardinality(P(x)) < Cardinality(S)
  <2>1. P(x) \in SUBSET S /\ P(x) # S BY DEF Orders
  <2>2. Cardinality(P(x)) <= Cardinality(S) /\ Cardinality(P(x)) # Cardinality(S)
    BY <2>1, FS_Subset
  <2> HIDE DEF P
  <2> QED BY <1>1, <1>2, <2>2
<1>4. ASSUME NEW y \in S, <<x, y>> \in before PROVE Cardinality(P(x)) < Cardinality(P(y))
  <2>1. P(x) \in SUBSET P(y) /\ P(x) # P(y) BY <1>4 DEF Orders
  <2>2. IsFiniteSet(P(y)) BY <1>1
  <2> HIDE DEF P
  <2>3. Cardinality(P(x)) <= Cardinality(P(y)) /\ Cardinality(P(x)) # Cardinality(P(y))
    BY <2>1, <2>2, FS_Subset
  <2> QED BY <1>1, <2>3
<1>5. \A y : Place(y, S, before) = 1 + Cardinality(P(y)) BY DEF Place
<1> HIDE DEF P
<1> QED BY <1>1, <1>2, <1>3, <1>4, <1>5

LEMMA Arranged ==
    ASSUME NEW S, IsFiniteSet(S), NEW before, Orders(before, S)
    PROVE  Cardinality(S) \in Nat /\ IsArranged(Arrange(S, before), S, before)
<1> DEFINE k == Cardinality(S)
           f == [x \in S |-> Place(x, S, before)]
           s == [i \in 1 .. k |-> CHOOSE x \in S : f[x] = i]
<1>1. k \in Nat /\ IsFiniteSet(1 .. k) /\ Cardinality(1 .. k) = k
  <2>1. k \in Nat BY FS_CardinalityType
  <2> HIDE DEF k
  <2>2. 1 \in Int /\ k \in Int /\ (1 > k => k = 0) BY <2>1
  <2> QED BY <2>1, <2>2, FS_Interval
<1>2. f \in [S -> 1 .. k] BY PlaceGrows
<1>3. \A x, y \in S : <<x, y>> \in before => f[x] < f[y] BY PlaceGrows
<1> HIDE DEF f
<1>4. \A x, y \in S : f[x] \in Nat /\ (f[x] = f[y] => x = y)
  <2> SUFFICES ASSUME NEW x \in S, NEW y \in S PROVE f[x] \in Nat /\ (f[x] = f[y] => x = y)
    OBVIOUS
  <2>1. f[x] \in 1 .. k /\ f[y] \in 1 .. k BY <1>2
  <2>2. f[x] \in Nat /\ f[y] \in Nat BY <1>1, <2>1
  <2>3. x # y => f[x] < f[y] \/ f[y] < f[x] BY <1>3 DEF Orders
  <2> QED BY <2>2, <2>3
<1>5. f \in Surjection(S, 1 .. k)
  <2>1. f \in Injection(S, 1 .. k) BY <1>2, <1>4 DEF Injection, IsInjective
  <2>2. IsFiniteSet(1 .. k) /\ Cardinality(S) = Cardinality(1 .. k) BY <1>1
  <2> HIDE DEF k
  <2> QED BY <2>1, <2>2, FS_Injection
<1>6. \A i \in 1 .. k : \E x \in S : f[x] = i BY <1>5 DEF Surjection
<1>7. \A i \in 1 .. k : s[i] \in S /\ f[s[i]] = i BY <1>6
<1>8. s \in [1 .. k -> S] BY <1>7
<1>9. \A x \in S : \E i \in 1 .. k : s[i] = x
  <2> SUFFICES ASSUME NEW x \in S PROVE s[f[x]] = x BY <1>2
  <2> HIDE DEF s
  <2> QED BY <1>2, <1>4, <1>7
<1>10. ASSUME NEW i \in 1 .. k, NEW j \in 1 .. k, i < j PROVE <<s[i], s[j]>> \in before
  <2> HIDE DEF s
  <2>1. s[i] \in S /\ s[j] \in S /\ f[s[i]] = i /\ f[s[j]] = j BY <1>7
  <2>2. i \in Nat /\ j \in Nat BY <1>1
  <2>3. s[i] # s[j] BY <1>10, <2>1, <2>2
  <2>4. ~(<<s[j], s[i]>> \in before) BY <1>3, <1>10, <2>1, <2>2
  <2> QED BY <2>1, <2>3, <2>4 DEF Orders
<1> HIDE DEF s
<1>11. \E t \in [1 .. Cardinality(S) -> S] :
          /\ \A x \in S : \E i \in DOMAIN t : t[i] = x
          /\ \A i, j \in DOMAIN t : i < j => <<t[i], t[j]>> \in before
  BY <1>8, <1>9, <1>10
<1> DEFINE c == Arrange(S, before)
<1>12. /\ c \in [1 .. Cardinality(S) -> S]
       /\ \A x \in S : \E i \in DOMAIN c : c[i] = x
       /\ \A i, j \in DOMAIN c : i < j => <<c[i], c[j]>> \in before
  BY <1>11 DEF Arrange
<1> HIDE DEF c
<1>13. IsArranged(c, S, before) BY <1>12 DEF IsArranged
<1> QED BY <1>1, <1>13 DEF c

\* The test cases a run reads are those there are, each once.
LEMMA SortedCases ==
    ASSUME TypeOK
    PROVE  /\ Sorted \in Seq({i \in CaseIds : Exists(i)})
           /\ Len(Sorted) \in Nat /\ DOMAIN Sorted = 1 .. Len(Sorted)
<1> DEFINE S == {i \in CaseIds : Exists(i)}
           R == {p \in S \X S : Earlier(p[1], p[2])}
<1>1. IsFiniteSet(S) BY FS_Subset, RunnerAssumption
<1>2. \A i \in S : i \in Nat /\ cases[i] \in Contents /\ cases[i].sort \in Nat
  BY RunnerAssumption DEF TypeOK, Exists
<1>3. \A i, j \in S : <<i, j>> \in R <=> Earlier(i, j) OBVIOUS
<1>4. Sorted = Arrange(S, R) BY DEF Sorted
<1> HIDE DEF S, R
<1>5. Orders(R, S) BY <1>2, <1>3 DEF Orders, Earlier
<1>6. Cardinality(S) \in Nat /\ IsArranged(Sorted, S, R) BY <1>1, <1>4, <1>5, Arranged
<1>7. Sorted \in [1 .. Cardinality(S) -> S] BY <1>6 DEF IsArranged
<1> DEFINE k == Cardinality(S)
<1> HIDE DEF k
<1>8. k \in Nat /\ Sorted \in [1 .. k -> S] BY <1>6, <1>7 DEF k
<1>9. Sorted \in Seq(S) BY <1>8, FunctionIsSeq
<1> QED BY <1>9 DEF S

-----------------------------------------------------------------------------
\* Among natural numbers there is a least one.
LEMMA LeastNat ==
    ASSUME NEW T \in SUBSET Nat, T # {} PROVE \E x \in T : \A y \in T : x <= y
<1>1. \E x \in T : \A y \in T : ~(<<y, x>> \in OpToRel(<, Nat))
  BY NatLessThanWellFounded, WFMin
<1>2. ASSUME NEW y \in Nat, NEW x \in Nat PROVE <<y, x>> \in OpToRel(<, Nat) <=> y < x
  BY DEF OpToRel
<1>3. PICK x \in T : \A y \in T : ~(<<y, x>> \in OpToRel(<, Nat)) BY <1>1
<1>4. \A y \in T : x <= y
  <2> SUFFICES ASSUME NEW y \in T PROVE x <= y OBVIOUS
  <2>1. ~(y < x) /\ x \in Nat /\ y \in Nat BY <1>2, <1>3
  <2> QED BY <2>1
<1> QED BY <1>4

-----------------------------------------------------------------------------
(* The places of a text.                                                   *)

Text == Seq(Characters)

LEMMA TextFacts ==
    ASSUME NEW s \in Text
    PROVE  /\ Len(s) \in Nat /\ DOMAIN s = 1 .. Len(s)
           /\ \A n \in 1 .. Len(s) : n \in Nat /\ n >= 1 /\ n <= Len(s) /\ s[n] \in Characters
           /\ Visible(s) \in SUBSET (1 .. Len(s)) /\ IsFiniteSet(1 .. Len(s))
<1>1. Len(s) \in Nat /\ DOMAIN s = 1 .. Len(s) BY DEF Text
<1>2. \A n \in 1 .. Len(s) : n \in Nat /\ n >= 1 /\ n <= Len(s) BY <1>1
<1>3. \A n \in 1 .. Len(s) : s[n] \in Characters BY ElementOfSeq DEF Text
<1>4. Visible(s) \in SUBSET (1 .. Len(s)) BY <1>1 DEF Visible
<1>5. IsFiniteSet(1 .. Len(s))
  <2>1. 1 \in Int /\ Len(s) \in Int BY <1>1
  <2> QED BY <2>1, FS_Interval
<1> QED BY <1>1, <1>2, <1>3, <1>4, <1>5

\* The kinds of characters.
LEMMA Kinds ==
    ASSUME NEW c \in Characters
    PROVE  /\ Blank(c) => Space(c) /\ c # "nl" /\ c # "cr"
           /\ Space(c) => Blank(c) \/ c = "nl" \/ c = "cr"
           /\ c = "nl" \/ c = "cr" => Space(c) /\ ~Blank(c)
BY DEF Blank, Space, Characters

\* A subset of the places, and one with a place more.
LEMMA MorePlaces ==
    ASSUME NEW s \in Text, NEW T \in SUBSET (1 .. Len(s)), NEW S \in SUBSET T
    PROVE  /\ Cardinality(S) \in Nat /\ Cardinality(T) \in Nat /\ Cardinality(S) <= Cardinality(T)
           /\ S # T => Cardinality(S) < Cardinality(T)
<1>1. IsFiniteSet(T) BY TextFacts, FS_Subset
<1>2. IsFiniteSet(S) BY <1>1, FS_Subset
<1>3. Cardinality(S) \in Nat /\ Cardinality(T) \in Nat BY <1>1, <1>2, FS_CardinalityType
<1>4. Cardinality(S) <= Cardinality(T) /\ (Cardinality(S) = Cardinality(T) => S = T)
  BY <1>1, FS_Subset
<1> QED BY <1>3, <1>4

LEMMA RanksGrow ==
    ASSUME NEW s \in Text, NEW m \in 1 .. Len(s), NEW n \in 1 .. Len(s), m <= n
    PROVE  /\ Rank(s, m) \in Nat /\ Rank(s, n) \in Nat /\ Rank(s, m) <= Rank(s, n)
           /\ \A v \in Visible(s) : m <= v /\ v < n => Rank(s, m) < Rank(s, n)
<1> DEFINE S == {v \in Visible(s) : v < m}
           T == {v \in Visible(s) : v < n}
<1>0. m \in Nat /\ n \in Nat BY TextFacts
<1>1. \A v \in Visible(s) : v \in Nat BY TextFacts
<1>2. S \in SUBSET T /\ T \in SUBSET (1 .. Len(s)) BY <1>0, <1>1, TextFacts
<1>3. ASSUME NEW v \in Visible(s), m <= v, v < n PROVE S # T BY <1>0, <1>1, <1>3
<1>4. Rank(s, m) = Cardinality(S) /\ Rank(s, n) = Cardinality(T) BY DEF Rank
<1> HIDE DEF S, T
<1> QED BY <1>2, <1>3, <1>4, MorePlaces

Ends(s, n) == {m \in DOMAIN s : m < n /\ LineEnd(s, m) /\ \E v \in Visible(s) : v < m}

LEMMA RowsGrow ==
    ASSUME NEW s \in Text, NEW m \in 1 .. Len(s), NEW n \in 1 .. Len(s), m <= n
    PROVE  /\ RowOf(s, m) \in Nat /\ RowOf(s, n) \in Nat /\ RowOf(s, m) <= RowOf(s, n)
           /\ (\E e \in Ends(s, n) : m <= e) => RowOf(s, m) < RowOf(s, n)
           /\ ~(\E e \in Ends(s, n) : m <= e) => RowOf(s, m) = RowOf(s, n)
<1>0. m \in Nat /\ n \in Nat BY TextFacts
<1>1. \A e \in DOMAIN s : e \in Nat BY TextFacts
<1>2. /\ \A e \in Ends(s, m) : e \in DOMAIN s /\ e < m /\ e \in Ends(s, n)
      /\ \A e \in Ends(s, n) : e \in DOMAIN s /\ (e < m => e \in Ends(s, m))
  BY <1>0, <1>1 DEF Ends
<1>3. Ends(s, m) \in SUBSET Ends(s, n) /\ Ends(s, n) \in SUBSET (1 .. Len(s)) BY <1>2, TextFacts
<1>4. ASSUME NEW e \in Ends(s, n), m <= e PROVE Ends(s, m) # Ends(s, n)
  BY <1>0, <1>1, <1>2, <1>4
<1>5. ASSUME ~(\E e \in Ends(s, n) : m <= e) PROVE Ends(s, m) = Ends(s, n)
  <2>1. \A e \in Ends(s, n) : e < m BY <1>0, <1>1, <1>2, <1>5
  <2> QED BY <1>2, <2>1
<1>6. RowOf(s, m) = Cardinality(Ends(s, m)) /\ RowOf(s, n) = Cardinality(Ends(s, n))
  BY DEF RowOf, Ends
<1> QED BY <1>3, <1>4, <1>5, <1>6, MorePlaces

\* The blanks in front of a place begin somewhere, and only there.
LEMMA BlanksBegin ==
    ASSUME NEW s \in Text, NEW n \in 1 .. Len(s)
    PROVE  /\ \E b \in 1 .. n : BlanksFrom(s, b, n)
           /\ \A b, c \in 1 .. n : BlanksFrom(s, b, n) /\ BlanksFrom(s, c, n) => b = c
<1>0. n \in Nat /\ n >= 1 BY TextFacts
<1>1. \E b \in 1 .. n : BlanksFrom(s, b, n)
  <2> DEFINE T == {b \in 1 .. n : \A m \in b .. n - 1 : Blank(s[m])}
  <2>1. n \in T BY <1>0
  <2>2. T \in SUBSET Nat BY <1>0
  <2> HIDE DEF T
  <2>3. PICK b \in T : \A c \in T : b <= c BY <2>1, <2>2, LeastNat
  <2>4. b \in 1 .. n /\ \A m \in b .. n - 1 : Blank(s[m]) BY DEF T
  <2>5. ASSUME b # 1, Blank(s[b - 1]) PROVE FALSE
    <3>1. b - 1 \in 1 .. n BY <1>0, <2>4, <2>5
    <3>2. ASSUME NEW m \in b - 1 .. n - 1 PROVE Blank(s[m])
      <4>1. m = b - 1 \/ m \in b .. n - 1 BY <1>0, <2>4
      <4> QED BY <2>4, <2>5, <4>1
    <3>3. b - 1 \in T BY <3>1, <3>2 DEF T
    <3>4. b <= b - 1 BY <2>3, <3>3
    <3> QED BY <1>0, <2>4, <3>4
  <2> QED BY <2>4, <2>5 DEF BlanksFrom
<1>2. ASSUME NEW b \in 1 .. n, NEW c \in 1 .. n, BlanksFrom(s, b, n), BlanksFrom(s, c, n), b < c
      PROVE  FALSE
  <2>1. c # 1 /\ c - 1 \in b .. n - 1 BY <1>0, <1>2
  <2> QED BY <1>2, <2>1 DEF BlanksFrom
<1>3. \A b \in 1 .. n : b \in Nat BY <1>0
<1>4. ASSUME NEW b \in 1 .. n, NEW c \in 1 .. n, BlanksFrom(s, b, n), BlanksFrom(s, c, n)
      PROVE  b = c
  <2>1. b \in Nat /\ c \in Nat BY <1>3
  <2>2. ~(b < c) /\ ~(c < b) BY <1>2, <1>4
  <2> QED BY <2>1, <2>2
<1> QED BY <1>1, <1>4

LEMMA BlanksAre ==
    ASSUME NEW s \in Text, NEW n \in 1 .. Len(s), NEW b \in 1 .. n, BlanksFrom(s, b, n),
           NEW v \in Visible(s), v < n
    PROVE  BlanksBefore(s, n) = SubSeq(s, b, n - 1)
<1>1. v \in Nat /\ n \in Nat BY TextFacts
<1>2. ~(v >= n) BY <1>1
<1>3. \E c \in 1 .. n : BlanksFrom(s, c, n) OBVIOUS
<1> DEFINE c == CHOOSE c \in 1 .. n : BlanksFrom(s, c, n)
<1>4. c \in 1 .. n /\ BlanksFrom(s, c, n) BY <1>3
<1> HIDE DEF c
<1>5. c = b BY <1>4, BlanksBegin
<1>6. BlanksBefore(s, n) = SubSeq(s, c, n - 1) BY <1>2 DEF BlanksBefore, c
<1> QED BY <1>5, <1>6

Item(s, n) == [char |-> s[n], rank |-> Rank(s, n), row |-> RowOf(s, n), blanks |-> BlanksBefore(s, n)]

LEMMA LayoutItems == ASSUME NEW s PROVE Layout(s) = {Item(s, n) : n \in Visible(s)}
BY DEF Layout, Item

LEMMA SameItems ==
    ASSUME NEW s, NEW t, NEW m, NEW n, Item(s, m) = Item(t, n)
    PROVE  /\ s[m] = t[n] /\ Rank(s, m) = Rank(t, n) /\ RowOf(s, m) = RowOf(t, n)
           /\ BlanksBefore(s, m) = BlanksBefore(t, n)
BY DEF Item

-----------------------------------------------------------------------------
(* A text that keeps the visible characters, line ends and indents of      *)
(* another one has its layout.                                             *)

\* t is made of the characters of s at the places h[1] < h[2] < ..., with a
\* line feed for a carriage return.
Selects(s, t, h) ==
    /\ h \in [1 .. Len(t) -> 1 .. Len(s)]
    /\ \A i, j \in 1 .. Len(t) : i < j => h[i] < h[j]
    /\ \A k \in 1 .. Len(t) : t[k] = s[h[k]] \/ (t[k] = "nl" /\ s[h[k]] = "cr")

Kept(t, h, n) == \E k \in 1 .. Len(t) : h[k] = n

KeepsLayout(s, t, h) ==
    /\ \A n \in Visible(s) : Kept(t, h, n)
    /\ \A k \in 1 .. Len(t) : LineEnd(t, k) <=> LineEnd(s, h[k])
    /\ \A m \in 1 .. Len(s), v \in Visible(s), w \in Visible(s) :
           LineEnd(s, m) /\ v < m /\ m < w => Kept(t, h, m)
    /\ \A n \in Visible(s), v \in Visible(s), m \in 1 .. Len(s) :
           v < n /\ m < n /\ (\A j \in m + 1 .. n - 1 : Blank(s[j])) => Kept(t, h, m)

LEMMA SelectsFacts ==
    ASSUME NEW s \in Text, NEW t \in Text, NEW h, Selects(s, t, h)
    PROVE  /\ \A k \in 1 .. Len(t) : h[k] \in 1 .. Len(s) /\ h[k] \in Nat /\ k \in Nat
           /\ \A i, j \in 1 .. Len(t) : (i < j <=> h[i] < h[j]) /\ (h[i] = h[j] => i = j)
           /\ \A k \in 1 .. Len(t) : k \in Visible(t) <=> h[k] \in Visible(s)
           /\ \A k \in 1 .. Len(t) : Blank(t[k]) <=> Blank(s[h[k]])
           /\ \A k \in Visible(t) : t[k] = s[h[k]]
<1>1. \A k \in 1 .. Len(t) : h[k] \in 1 .. Len(s) /\ h[k] \in Nat /\ k \in Nat
  BY TextFacts DEF Selects
<1>2. \A i, j \in 1 .. Len(t) : (i < j <=> h[i] < h[j]) /\ (h[i] = h[j] => i = j)
  <2> SUFFICES ASSUME NEW i \in 1 .. Len(t), NEW j \in 1 .. Len(t)
               PROVE  (i < j <=> h[i] < h[j]) /\ (h[i] = h[j] => i = j)
    OBVIOUS
  <2>1. i \in Nat /\ j \in Nat /\ h[i] \in Nat /\ h[j] \in Nat BY <1>1
  <2>2. (i < j => h[i] < h[j]) /\ (j < i => h[j] < h[i]) BY DEF Selects
  <2> QED BY <2>1, <2>2
<1>3. ASSUME NEW k \in 1 .. Len(t)
      PROVE  /\ k \in Visible(t) <=> h[k] \in Visible(s)
             /\ Blank(t[k]) <=> Blank(s[h[k]])
             /\ k \in Visible(t) => t[k] = s[h[k]]
  <2>1. t[k] = s[h[k]] \/ (t[k] = "nl" /\ s[h[k]] = "cr") BY DEF Selects
  <2>2. k \in DOMAIN t /\ h[k] \in DOMAIN s BY <1>1, TextFacts
  <2>3. /\ k \in Visible(t) <=> ~Space(t[k])
        /\ h[k] \in Visible(s) <=> ~Space(s[h[k]])
    BY <2>2 DEF Visible
  <2>4. s[h[k]] = "cr" /\ t[k] = "nl" =>
           Space(s[h[k]]) /\ Space(t[k]) /\ ~Blank(s[h[k]]) /\ ~Blank(t[k])
    BY DEF Space, Blank
  <2> QED BY <2>1, <2>3, <2>4
<1>4. Visible(t) \in SUBSET (1 .. Len(t)) BY TextFacts
<1> QED BY <1>1, <1>2, <1>3, <1>4

\* Sets of places that correspond have the same size.
LEMMA SameSize ==
    ASSUME NEW s \in Text, NEW t \in Text, NEW h, Selects(s, t, h),
           NEW T \in SUBSET (1 .. Len(t)), NEW S \in SUBSET (1 .. Len(s)),
           \A k \in T : h[k] \in S, \A n \in S : \E k \in T : h[k] = n
    PROVE  Cardinality(T) = Cardinality(S)
<1> DEFINE f == [k \in T |-> h[k]]
<1>1. f \in [T -> S] OBVIOUS
<1>2. \A i, j \in T : f[i] = f[j] => i = j BY SelectsFacts
<1>3. \A n \in S : \E k \in T : f[k] = n OBVIOUS
<1> HIDE DEF f
<1>4. f \in Bijection(T, S)
  BY <1>1, <1>2, <1>3 DEF Bijection, Injection, Surjection, IsInjective
<1>5. ExistsBijection(T, S) BY <1>4 DEF ExistsBijection
<1>6. IsFiniteSet(T) BY TextFacts, FS_Subset
<1> QED BY <1>5, <1>6, FS_Bijection

LEMMA RanksStay ==
    ASSUME NEW s \in Text, NEW t \in Text, NEW h, Selects(s, t, h), KeepsLayout(s, t, h),
           NEW k \in Visible(t)
    PROVE  Rank(t, k) = Rank(s, h[k])
<1> DEFINE T == {m \in Visible(t) : m < k}
           S == {m \in Visible(s) : m < h[k]}
<1>1. k \in 1 .. Len(t) /\ T \in SUBSET (1 .. Len(t)) /\ S \in SUBSET (1 .. Len(s)) BY TextFacts
<1>2. \A j \in T : h[j] \in S
  <2> SUFFICES ASSUME NEW j \in T PROVE h[j] \in S OBVIOUS
  <2>1. j \in 1 .. Len(t) /\ j \in Visible(t) /\ j < k BY <1>1
  <2> QED BY <1>1, <2>1, SelectsFacts
<1>3. ASSUME NEW n \in S PROVE \E j \in T : h[j] = n
  <2>1. PICK j \in 1 .. Len(t) : h[j] = n BY DEF KeepsLayout, Kept
  <2>2. j \in Visible(t) /\ j < k BY <1>1, <2>1, SelectsFacts
  <2> QED BY <2>1, <2>2
<1>4. Rank(t, k) = Cardinality(T) /\ Rank(s, h[k]) = Cardinality(S) BY DEF Rank
<1> HIDE DEF T, S
<1> QED BY <1>1, <1>2, <1>3, <1>4, SameSize

LEMMA RowsStay ==
    ASSUME NEW s \in Text, NEW t \in Text, NEW h, Selects(s, t, h), KeepsLayout(s, t, h),
           NEW k \in Visible(t)
    PROVE  RowOf(t, k) = RowOf(s, h[k])
<1>0. k \in 1 .. Len(t) /\ h[k] \in Visible(s) BY TextFacts, SelectsFacts
<1>1. Ends(t, k) \in SUBSET (1 .. Len(t)) /\ Ends(s, h[k]) \in SUBSET (1 .. Len(s))
  BY TextFacts DEF Ends
<1>2. ASSUME NEW j \in Ends(t, k) PROVE h[j] \in Ends(s, h[k])
  <2>1. PICK v \in Visible(t) : v < j BY DEF Ends
  <2>2. j \in 1 .. Len(t) /\ v \in 1 .. Len(t) /\ j < k /\ LineEnd(t, j) BY <1>1, TextFacts DEF Ends
  <2>3. h[v] \in Visible(s) /\ h[v] < h[j] /\ h[j] < h[k] /\ h[j] \in 1 .. Len(s)
    BY <1>0, <2>1, <2>2, SelectsFacts
  <2>4. LineEnd(s, h[j]) BY <2>2 DEF KeepsLayout
  <2> QED BY <2>3, <2>4, TextFacts DEF Ends
<1>3. ASSUME NEW n \in Ends(s, h[k]) PROVE \E j \in Ends(t, k) : h[j] = n
  <2>1. PICK v \in Visible(s) : v < n BY DEF Ends
  <2>2. n \in 1 .. Len(s) /\ n < h[k] /\ LineEnd(s, n) BY <1>1 DEF Ends
  <2>3. Kept(t, h, n) /\ Kept(t, h, v) BY <1>0, <2>1, <2>2 DEF KeepsLayout
  <2>4. PICK j \in 1 .. Len(t), w \in 1 .. Len(t) : h[j] = n /\ h[w] = v BY <2>3 DEF Kept
  <2>5. j < k /\ w < j /\ w \in Visible(t) BY <1>0, <2>1, <2>2, <2>4, SelectsFacts
  <2>6. LineEnd(t, j) BY <2>2, <2>4 DEF KeepsLayout
  <2> QED BY <2>4, <2>5, <2>6, TextFacts DEF Ends
<1>4. RowOf(t, k) = Cardinality(Ends(t, k)) /\ RowOf(s, h[k]) = Cardinality(Ends(s, h[k]))
  BY DEF RowOf, Ends
<1> QED BY <1>1, <1>2, <1>3, <1>4, SameSize

\* A stretch of kept places is a stretch of the text that keeps them.
LEMMA Stretch ==
    ASSUME NEW s \in Text, NEW t \in Text, NEW h, Selects(s, t, h),
           NEW a \in 1 .. Len(s), NEW d \in Nat, a + d \in 1 .. Len(s),
           \A m \in a .. a + d : Kept(t, h, m),
           NEW c \in 1 .. Len(t), h[c] = a
    PROVE  \A i \in 0 .. d : c + i \in 1 .. Len(t) /\ h[c + i] = a + i
<1> DEFINE Good(i) == c + i \in 1 .. Len(t) /\ h[c + i] = a + i
           Bad == {i \in 0 .. d : ~Good(i)}
<1> SUFFICES ASSUME Bad # {} PROVE FALSE OBVIOUS
<1>0. a \in Nat /\ c \in Nat /\ Len(t) \in Nat BY TextFacts
<1>1. PICK i \in Bad : \A j \in Bad : i <= j
  <2>1. Bad \in SUBSET Nat OBVIOUS
  <2> HIDE DEF Bad
  <2> QED BY <2>1, LeastNat
<1>2. i \in 0 .. d /\ i \in Nat /\ ~Good(i) OBVIOUS
<1>3. i # 0 BY <1>0, <1>2
<1>4. i - 1 \in 0 .. d BY <1>2, <1>3
<1>5. Good(i - 1)
  <2> SUFFICES ASSUME ~Good(i - 1) PROVE FALSE OBVIOUS
  <2>1. i <= i - 1 BY <1>1, <1>4
  <2> QED BY <1>2, <2>1
<1>6. a + i \in a .. a + d BY <1>0, <1>2
<1>7. PICK j \in 1 .. Len(t) : h[j] = a + i BY <1>6 DEF Kept
<1>8. c + (i - 1) \in 1 .. Len(t) /\ h[c + (i - 1)] = a + (i - 1) BY <1>5
<1>9. PICK p \in 1 .. Len(t) : p = c + (i - 1) BY <1>8
<1>10. h[p] = a + (i - 1) /\ p \in Nat BY <1>8, <1>9, TextFacts
<1>11. j \in Nat /\ j <= Len(t) BY <1>0
<1>12. p < j
  <2>1. h[p] < h[j] BY <1>0, <1>2, <1>7, <1>10
  <2> QED BY <2>1, SelectsFacts
<1>13. c + i \in 1 .. Len(t) BY <1>0, <1>2, <1>3, <1>9, <1>11, <1>12
<1>14. CASE j = c + i BY <1>2, <1>7, <1>13, <1>14
<1>15. CASE j # c + i
  <2>1. PICK q \in 1 .. Len(t) : q = c + i BY <1>13
  <2>2. q < j /\ p < q BY <1>0, <1>2, <1>9, <1>11, <1>12, <1>15, <2>1
  <2>3. h[q] < h[j] /\ h[p] < h[q] /\ h[q] \in Nat BY <2>2, SelectsFacts
  <2> QED BY ONLY <1>0, <1>2, <1>7, <1>10, <2>3
<1> QED BY <1>14, <1>15

LEMMA BlanksStay ==
    ASSUME NEW s \in Text, NEW t \in Text, NEW h, Selects(s, t, h), KeepsLayout(s, t, h),
           NEW k \in Visible(t)
    PROVE  BlanksBefore(t, k) = BlanksBefore(s, h[k])
<1> DEFINE n == h[k]
<1>0. k \in 1 .. Len(t) /\ n \in Visible(s) /\ n \in 1 .. Len(s) /\ k \in Nat /\ n \in Nat
  BY TextFacts, SelectsFacts
<1>1. CASE \A v \in Visible(s) : v >= n
  <2>1. ASSUME NEW w \in Visible(t) PROVE w >= k
    <3>1. w \in 1 .. Len(t) /\ w \in Nat BY TextFacts
    <3>2. h[w] \in Visible(s) /\ h[w] \in Nat BY <3>1, SelectsFacts
    <3>3. ~(h[w] < h[k]) BY <1>0, <1>1, <3>2
    <3>4. ~(w < k) BY <1>0, <3>1, <3>3, SelectsFacts
    <3> QED BY <1>0, <3>1, <3>4
  <2> HIDE DEF n
  <2>2. BlanksBefore(t, k) = <<>> /\ BlanksBefore(s, n) = <<>> BY <1>1, <2>1 DEF BlanksBefore
  <2> QED BY <2>2 DEF n
<1>2. CASE \E v \in Visible(s) : v < n
  <2>1. PICK v \in Visible(s) : v < n BY <1>2
  <2>2. v \in 1 .. Len(s) /\ v \in Nat /\ v >= 1 /\ ~Blank(s[v])
    BY TextFacts DEF Visible, Space, Blank
  <2>3. PICK b \in 1 .. n : BlanksFrom(s, b, n) BY <1>0, BlanksBegin
  <2> HIDE DEF n
  <2>4. b \in Nat /\ b <= n BY <1>0, <2>3
  <2>5. v < b
    <3>1. ~(v \in b .. n - 1) BY <2>2, <2>3 DEF BlanksFrom
    <3> QED BY <1>0, <2>1, <2>2, <2>4, <3>1
  <2>6. b - 1 \in 1 .. Len(s) /\ b - 1 \in Nat
    <3>1. n <= Len(s) /\ Len(s) \in Nat BY <1>0, TextFacts
    <3> QED BY ONLY <1>0, <2>2, <2>4, <2>5, <3>1
  <2>7. ASSUME NEW m \in b - 1 .. n PROVE Kept(t, h, m)
    <3>1. CASE m = n BY <1>0, <3>1 DEF KeepsLayout
    <3>2. CASE m # n
      <4>1. m \in Nat /\ m < n /\ m \in 1 .. Len(s)
        <5>1. n <= Len(s) /\ Len(s) \in Nat BY <1>0, TextFacts
        <5> QED BY <1>0, <2>6, <3>2, <5>1
      <4>2. \A j \in m + 1 .. n - 1 : j \in b .. n - 1 BY <1>0, <2>4, <4>1
      <4>3. \A j \in m + 1 .. n - 1 : Blank(s[j]) BY <2>3, <4>2 DEF BlanksFrom
      <4> QED BY <1>0, <2>1, <4>1, <4>3 DEF KeepsLayout
    <3> QED BY <3>1, <3>2
  <2>8. PICK c \in 1 .. Len(t) : h[c] = b - 1
    <3>1. b - 1 \in b - 1 .. n BY <1>0, <2>4
    <3> QED BY <2>7, <3>1 DEF Kept
  <2> DEFINE d == n - b + 1
  <2>9. d \in Nat /\ (b - 1) + d = n BY <1>0, <2>4
  <2> HIDE DEF d
  <2>10. \A i \in 0 .. d : c + i \in 1 .. Len(t) /\ h[c + i] = (b - 1) + i
    <3>1. PICK a \in 1 .. Len(s) : a = b - 1 BY <2>6
    <3>2. /\ h[c] = a /\ a + d \in 1 .. Len(s) /\ d \in Nat /\ c \in 1 .. Len(t)
          /\ \A m \in a .. a + d : Kept(t, h, m)
      BY <1>0, <2>7, <2>8, <2>9, <3>1
    <3>3. \A i \in 0 .. d : c + i \in 1 .. Len(t) /\ h[c + i] = a + i
      BY ONLY s \in Text, t \in Text, Selects(s, t, h), a \in 1 .. Len(s), <3>2, Stretch
    <3> QED BY <3>1, <3>3
  <2>11. c + d = k
    <3>1. d \in 0 .. d BY <2>9
    <3>2. c + d \in 1 .. Len(t) /\ h[c + d] = h[k] BY <2>9, <2>10, <3>1 DEF n
    <3> QED BY <1>0, <3>2, SelectsFacts
  <2>12. c \in Nat /\ c >= 1 BY TextFacts
  <2>13. c + 1 \in 1 .. k BY <2>4, <2>9, <2>11, <2>12, <1>0 DEF d
  <2>14. ASSUME NEW i \in 1 .. n - b
         PROVE  /\ c + i \in 1 .. Len(t) /\ t[c + i] = s[b + i - 1] /\ Blank(t[c + i])
    <3>1. i \in 0 .. d /\ i \in Nat BY <1>0, <2>4 DEF d
    <3>2. c + i \in 1 .. Len(t) /\ h[c + i] = (b - 1) + i BY <2>10, <3>1
    <3>3. (b - 1) + i = b + i - 1 /\ b + i - 1 \in b .. n - 1 BY <1>0, <2>4, <3>1
    <3>4. Blank(s[b + i - 1]) BY <2>3, <3>3 DEF BlanksFrom
    <3>5. t[c + i] = s[h[c + i]] \/ s[h[c + i]] = "cr" BY <3>2 DEF Selects
    <3>6. s[h[c + i]] # "cr" BY <3>2, <3>3, <3>4 DEF Blank
    <3> QED BY <3>2, <3>3, <3>4, <3>5, <3>6
  <2>15. BlanksFrom(t, c + 1, k)
    <3>1. ASSUME NEW m \in c + 1 .. k - 1 PROVE Blank(t[m])
      <4>1. m - c \in 1 .. n - b /\ c + (m - c) = m BY <1>0, <2>4, <2>11, <2>12 DEF d
      <4>2. Blank(t[c + (m - c)]) BY <2>14, <4>1
      <4> QED BY <4>1, <4>2
    <3>2. ~Blank(t[c])
      <4>1. b # 1 BY <2>2, <2>5
      <4>2. ~Blank(s[b - 1]) BY <2>3, <4>1 DEF BlanksFrom
      <4> QED BY <2>8, <4>2, SelectsFacts
    <3>3. (c + 1) - 1 = c BY <2>12
    <3> QED BY <3>1, <3>2, <3>3 DEF BlanksFrom
  <2>16. PICK w \in Visible(t) : w < k
    <3>1. PICK j \in 1 .. Len(t) : h[j] = v BY DEF KeepsLayout, Kept
    <3>2. j \in Visible(t) /\ j < k BY <1>0, <2>1, <3>1, SelectsFacts DEF n
    <3> QED BY <3>2
  <2>17. BlanksBefore(t, k) = SubSeq(t, c + 1, k - 1)
    <3> DEFINE e == c + 1
    <3>1. e \in 1 .. k /\ BlanksFrom(t, e, k) BY <2>13, <2>15
    <3> HIDE DEF e
    <3>2. BlanksBefore(t, k) = SubSeq(t, e, k - 1) BY <1>0, <2>16, <3>1, BlanksAre
    <3> QED BY <3>2 DEF e
  <2>18. BlanksBefore(s, n) = SubSeq(s, b, n - 1) BY <1>0, <2>1, <2>3, BlanksAre
  <2>19. SubSeq(t, c + 1, k - 1) = SubSeq(s, b, n - 1)
    <3>1. k - 1 \in Nat /\ k - 1 <= Len(t) /\ c + 1 >= 1 /\ (k - 1) - (c + 1) + 1 = n - b
      BY <1>0, <2>4, <2>11, <2>12 DEF d
    <3>2. n - 1 \in Nat /\ n - 1 <= Len(s) /\ b >= 1 /\ (n - 1) - b + 1 = n - b /\ n - b \in Nat
      BY <1>0, <2>2, <2>4, <2>5
    <3>3. \A i \in c + 1 .. k - 1 : t[i] \in Characters
      <4>1. \A i \in c + 1 .. k - 1 : i \in 1 .. Len(t) BY <2>12, <3>1
      <4> QED BY <4>1, TextFacts
    <3>4. \A i \in b .. n - 1 : s[i] \in Characters
      <4>1. \A i \in b .. n - 1 : i \in 1 .. Len(s) BY <2>4, <3>2
      <4> QED BY <4>1, TextFacts
    <3> DEFINE x == SubSeq(t, c + 1, k - 1)
               y == SubSeq(s, b, n - 1)
    <3>5. /\ x \in Seq(Characters) /\ Len(x) = n - b
          /\ \A i \in 1 .. n - b : x[i] = t[(c + 1) + i - 1]
      <4>1. c + 1 \in Int /\ k - 1 \in Int BY <2>12, <3>1
      <4>2. /\ x \in Seq(Characters)
            /\ Len(x) = IF c + 1 <= k - 1 THEN (k - 1) - (c + 1) + 1 ELSE 0
            /\ \A i \in 1 .. (k - 1) - (c + 1) + 1 : x[i] = t[(c + 1) + i - 1]
        BY <3>3, <4>1, SubSeqProperties
      <4> HIDE DEF x
      <4>3. c + 1 <= k - 1 \/ n - b = 0 BY <2>12, <3>1, <3>2
      <4> QED BY <2>12, <3>1, <3>2, <4>2, <4>3
    <3>6. /\ y \in Seq(Characters) /\ Len(y) = n - b
          /\ \A i \in 1 .. n - b : y[i] = s[b + i - 1]
      <4>1. b \in Int /\ n - 1 \in Int BY <2>4, <3>2
      <4>2. /\ y \in Seq(Characters)
            /\ Len(y) = IF b <= n - 1 THEN (n - 1) - b + 1 ELSE 0
            /\ \A i \in 1 .. (n - 1) - b + 1 : y[i] = s[b + i - 1]
        BY <3>4, <4>1, SubSeqProperties
      <4> HIDE DEF y
      <4>3. b <= n - 1 \/ n - b = 0 BY <2>4, <3>2
      <4> QED BY <2>4, <3>2, <4>2, <4>3
    <3> HIDE DEF x, y
    <3>7. ASSUME NEW i \in 1 .. n - b PROVE x[i] = y[i]
      <4>1. (c + 1) + i - 1 = c + i BY <2>12, <3>2
      <4> QED BY <2>14, <3>5, <3>6, <4>1
    <3>8. x = y BY <3>5, <3>6, <3>7, SeqEqual
    <3> QED BY <3>8 DEF x, y
  <2> QED BY <2>17, <2>18, <2>19 DEF n
<1>3. \A v \in Visible(s) : v \in Nat BY TextFacts
<1> QED BY <1>0, <1>1, <1>2, <1>3

LEMMA LayoutStays ==
    ASSUME NEW s \in Text, NEW t \in Text, NEW h, Selects(s, t, h), KeepsLayout(s, t, h)
    PROVE  Layout(t) = Layout(s)
<1>1. ASSUME NEW k \in Visible(t) PROVE h[k] \in Visible(s) /\ Item(t, k) = Item(s, h[k])
  <2>1. k \in 1 .. Len(t) BY TextFacts
  <2>2. h[k] \in Visible(s) /\ t[k] = s[h[k]] BY <2>1, SelectsFacts
  <2>3. /\ Rank(t, k) = Rank(s, h[k]) /\ RowOf(t, k) = RowOf(s, h[k])
        /\ BlanksBefore(t, k) = BlanksBefore(s, h[k])
    BY RanksStay, RowsStay, BlanksStay
  <2> QED BY <2>2, <2>3 DEF Item
<1>2. ASSUME NEW n \in Visible(s) PROVE \E k \in Visible(t) : h[k] = n
  <2>1. PICK k \in 1 .. Len(t) : h[k] = n BY DEF KeepsLayout, Kept
  <2> QED BY <2>1, SelectsFacts
<1>3. Layout(t) = {Item(t, k) : k \in Visible(t)} /\ Layout(s) = {Item(s, n) : n \in Visible(s)}
  BY LayoutItems
<1> QED BY <1>1, <1>2, <1>3

-----------------------------------------------------------------------------
(* The passes.                                                             *)

\* At(x, S) selects the places S of a text x.
LEMMA Selected ==
    ASSUME NEW x \in Text, NEW S \in SUBSET (1 .. Len(x))
    PROVE  /\ At(x, S) \in Text
           /\ \E h : /\ h \in [1 .. Len(At(x, S)) -> S]
                     /\ \A n \in S : \E k \in 1 .. Len(At(x, S)) : h[k] = n
                     /\ \A i, j \in 1 .. Len(At(x, S)) : i < j => h[i] < h[j]
                     /\ \A k \in 1 .. Len(At(x, S)) : At(x, S)[k] = x[h[k]]
<1> DEFINE R == {p \in S \X S : p[1] < p[2]}
           h == Arrange(S, R)
           t == At(x, S)
           c == Cardinality(S)
<1>1. \A n \in S : n \in Nat /\ x[n] \in Characters BY TextFacts
<1>2. \A m, n \in S : <<m, n>> \in R <=> m < n OBVIOUS
<1>3. IsFiniteSet(S) BY TextFacts, FS_Subset
<1>4. t = [k \in DOMAIN h |-> x[h[k]]] BY DEF At
<1> HIDE DEF R, t
<1>5. Orders(R, S) BY <1>1, <1>2 DEF Orders
<1>6. Cardinality(S) \in Nat /\ IsArranged(h, S, R) BY <1>3, <1>5, Arranged
<1>7. /\ h \in [1 .. Cardinality(S) -> S]
      /\ \A n \in S : \E k \in 1 .. Cardinality(S) : h[k] = n
      /\ \A i, j \in 1 .. Cardinality(S) : i < j => <<h[i], h[j]>> \in R
  BY <1>6 DEF IsArranged
<1> HIDE DEF h, c
<1>8. /\ c \in Nat /\ h \in [1 .. c -> S] /\ \A n \in S : \E k \in 1 .. c : h[k] = n
      /\ \A i, j \in 1 .. c : i < j => <<h[i], h[j]>> \in R
  BY <1>6, <1>7 DEF c
<1>9. \A i, j \in 1 .. c : i < j => h[i] < h[j] BY <1>2, <1>8
<1>10. t = [k \in 1 .. c |-> x[h[k]]] BY <1>4, <1>8
<1>11. t \in [1 .. c -> Characters] /\ \A k \in 1 .. c : t[k] = x[h[k]] BY <1>1, <1>8, <1>10
<1>12. t \in Text /\ Len(t) = c BY <1>8, <1>11, FunctionIsSeq DEF Text
<1> QED BY <1>8, <1>9, <1>11, <1>12 DEF t

\* A text without carriage returns.
NoReturns(s) == \A n \in 1 .. Len(s) : s[n] # "cr"
\* A text without blanks at the ends of its lines.
CleanLines(s) == \A n \in 1 .. Len(s) : Blank(s[n]) => n < Len(s) /\ s[n + 1] # "nl"
\* A text that begins and ends with something one can see.
Trimmed(s) == Len(s) # 0 => 1 \in Visible(s) /\ Len(s) \in Visible(s)

LEMMA NoReturnEnds ==
    ASSUME NEW s \in Text, NoReturns(s), NEW n \in 1 .. Len(s)
    PROVE  LineEnd(s, n) <=> s[n] = "nl"
BY DEF LineEnd, NoReturns

LEMMA LineEndsUnified ==
    ASSUME NEW s \in Text
    PROVE  /\ UnifyLineEnds(s) \in Text /\ NoReturns(UnifyLineEnds(s))
           /\ Layout(UnifyLineEnds(s)) = Layout(s)
<1> DEFINE x == [n \in DOMAIN s |-> IF s[n] = "cr" THEN "nl" ELSE s[n]]
           S == {n \in DOMAIN s : ~(s[n] = "cr" /\ n < Len(s) /\ s[n + 1] = "nl")}
           t == At(x, S)
<1>1. t = UnifyLineEnds(s) BY DEF UnifyLineEnds
<1>2. /\ x \in [1 .. Len(s) -> Characters] /\ Len(s) \in Nat
      /\ \A n \in 1 .. Len(s) : x[n] = IF s[n] = "cr" THEN "nl" ELSE s[n]
  BY TextFacts DEF Characters
<1>3. \A n \in 1 .. Len(s) : n \in S <=> ~(s[n] = "cr" /\ n < Len(s) /\ s[n + 1] = "nl")
  BY TextFacts
<1>4. S \in SUBSET (1 .. Len(s)) BY TextFacts
<1> HIDE DEF x, S
<1>5. x \in Text /\ Len(x) = Len(s) BY <1>2, FunctionIsSeq DEF Text
<1>6. t \in Text BY <1>4, <1>5, Selected
<1>7. PICK h : /\ h \in [1 .. Len(t) -> S]
               /\ \A n \in S : \E k \in 1 .. Len(t) : h[k] = n
               /\ \A i, j \in 1 .. Len(t) : i < j => h[i] < h[j]
               /\ \A k \in 1 .. Len(t) : t[k] = x[h[k]]
  BY <1>4, <1>5, Selected
<1> HIDE DEF t
<1>8. \A k \in 1 .. Len(t) : h[k] \in 1 .. Len(s) /\ h[k] \in S BY <1>4, <1>7
<1>9. \A k \in 1 .. Len(t) : t[k] = IF s[h[k]] = "cr" THEN "nl" ELSE s[h[k]] BY <1>2, <1>7, <1>8
<1>10. Selects(s, t, h) BY <1>4, <1>7, <1>8, <1>9 DEF Selects
<1>11. NoReturns(t) BY <1>9 DEF NoReturns
<1>12. \A n \in S : Kept(t, h, n) BY <1>7 DEF Kept
<1>13. KeepsLayout(s, t, h)
  <2>1. ASSUME NEW n \in Visible(s) PROVE Kept(t, h, n)
    <3>1. n \in 1 .. Len(s) /\ s[n] # "cr" BY TextFacts DEF Visible, Space
    <3> QED BY <1>3, <1>12, <3>1
  <2>2. ASSUME NEW k \in 1 .. Len(t) PROVE LineEnd(t, k) <=> LineEnd(s, h[k])
    <3>1. LineEnd(t, k) <=> t[k] = "nl" BY <1>6, <1>11, NoReturnEnds
    <3> QED BY <1>3, <1>8, <1>9, <3>1 DEF LineEnd
  <2>3. ASSUME NEW m \in 1 .. Len(s), LineEnd(s, m) PROVE Kept(t, h, m)
    BY <1>3, <1>12, <2>3 DEF LineEnd
  <2>4. ASSUME NEW n \in Visible(s), NEW m \in 1 .. Len(s), m < n,
               \A j \in m + 1 .. n - 1 : Blank(s[j])
        PROVE  Kept(t, h, m)
    <3>1. n \in 1 .. Len(s) /\ n \in Nat /\ m \in Nat /\ s[n] # "nl" BY TextFacts DEF Visible, Space
    <3>2. m + 1 = n \/ m + 1 \in m + 1 .. n - 1 BY <2>4, <3>1
    <3>3. s[m + 1] # "nl" BY <2>4, <3>1, <3>2 DEF Blank
    <3> QED BY <1>3, <1>12, <3>3
  <2> QED BY <2>1, <2>2, <2>3, <2>4 DEF KeepsLayout
<1>14. Layout(t) = Layout(s) BY <1>6, <1>10, <1>13, LayoutStays
<1> QED BY <1>1, <1>6, <1>11, <1>14

LEMMA LinesTrimmed ==
    ASSUME NEW s \in Text, NoReturns(s)
    PROVE  /\ TrimLines(s) \in Text /\ NoReturns(TrimLines(s)) /\ CleanLines(TrimLines(s))
           /\ Layout(TrimLines(s)) = Layout(s)
<1> DEFINE Stays(n) == Blank(s[n]) => \E m \in n .. Len(s) : /\ \A k \in n .. m - 1 : Blank(s[k])
                                                             /\ ~Blank(s[m]) /\ s[m] # "nl"
           S == {n \in DOMAIN s : Stays(n)}
           t == At(s, S)
<1>1. t = TrimLines(s) BY DEF TrimLines
<1>2. \A n \in 1 .. Len(s) : n \in S <=> Stays(n) BY TextFacts
<1>3. S \in SUBSET (1 .. Len(s)) BY TextFacts
<1> HIDE DEF S
<1>4. t \in Text BY <1>3, Selected
<1>5. PICK h : /\ h \in [1 .. Len(t) -> S]
               /\ \A n \in S : \E k \in 1 .. Len(t) : h[k] = n
               /\ \A i, j \in 1 .. Len(t) : i < j => h[i] < h[j]
               /\ \A k \in 1 .. Len(t) : t[k] = s[h[k]]
  BY <1>3, Selected
<1> HIDE DEF t
<1>6. \A k \in 1 .. Len(t) : h[k] \in 1 .. Len(s) /\ h[k] \in S BY <1>3, <1>5
<1>7. Selects(s, t, h) BY <1>3, <1>5, <1>6 DEF Selects
<1>8. NoReturns(t) BY <1>5, <1>6 DEF NoReturns
<1>9. \A n \in S : Kept(t, h, n) BY <1>5 DEF Kept
<1>10. KeepsLayout(s, t, h)
  <2>1. ASSUME NEW n \in Visible(s) PROVE Kept(t, h, n)
    <3>1. n \in 1 .. Len(s) /\ ~Blank(s[n]) BY TextFacts DEF Visible, Space, Blank
    <3> QED BY <1>2, <1>9, <3>1
  <2>2. ASSUME NEW k \in 1 .. Len(t) PROVE LineEnd(t, k) <=> LineEnd(s, h[k])
    <3>1. LineEnd(t, k) <=> t[k] = "nl" BY <1>4, <1>8, NoReturnEnds
    <3>2. LineEnd(s, h[k]) <=> s[h[k]] = "nl" BY <1>6, NoReturnEnds
    <3> QED BY <1>5, <3>1, <3>2
  <2>3. ASSUME NEW m \in 1 .. Len(s), LineEnd(s, m) PROVE Kept(t, h, m)
    <3>1. s[m] = "nl" BY <2>3, NoReturnEnds
    <3>2. ~Blank(s[m]) BY <3>1 DEF Blank
    <3> QED BY <1>2, <1>9, <3>2
  <2>4. ASSUME NEW n \in Visible(s), NEW m \in 1 .. Len(s), m < n,
               \A j \in m + 1 .. n - 1 : Blank(s[j])
        PROVE  Kept(t, h, m)
    <3>1. n \in 1 .. Len(s) /\ n \in Nat /\ m \in Nat BY TextFacts
    <3>2. ~Blank(s[n]) /\ s[n] # "nl" BY DEF Visible, Space, Blank
    <3>3. Len(s) \in Nat /\ n <= Len(s) BY TextFacts
    <3>4. ASSUME Blank(s[m]) PROVE \A k \in m .. n - 1 : Blank(s[k])
      <4> SUFFICES ASSUME NEW k \in m .. n - 1 PROVE Blank(s[k]) OBVIOUS
      <4>1. k = m \/ k \in m + 1 .. n - 1 BY <3>1
      <4> QED BY <2>4, <3>4, <4>1
    <3>5. n \in m .. Len(s) BY <2>4, <3>1, <3>3
    <3>6. Stays(m) BY <3>2, <3>4, <3>5
    <3> QED BY <1>2, <1>9, <3>6
  <2> QED BY <2>1, <2>2, <2>3, <2>4 DEF KeepsLayout
<1>11. CleanLines(t)
  <2> SUFFICES ASSUME NEW k \in 1 .. Len(t), Blank(t[k]) PROVE k < Len(t) /\ t[k + 1] # "nl"
    BY DEF CleanLines
  <2> DEFINE n == h[k]
  <2>1. n \in 1 .. Len(s) /\ n \in S /\ Blank(s[n]) BY <1>5, <1>6
  <2>2. PICK m \in n .. Len(s) : /\ \A j \in n .. m - 1 : Blank(s[j])
                                 /\ ~Blank(s[m]) /\ s[m] # "nl"
    BY <1>2, <2>1
  <2>3. n \in Nat /\ Len(s) \in Nat /\ k \in Nat /\ Len(t) \in Nat BY <1>4, <2>1, TextFacts
  <2>4. m # n /\ m \in Nat /\ m \in 1 .. Len(s) /\ n < m BY <2>1, <2>2, <2>3
  <2>5. m \in S BY <1>2, <2>2, <2>4
  <2>6. PICK j \in 1 .. Len(t) : h[j] = m BY <1>5, <2>5
  <2>7. k < j BY <1>4, <1>7, <2>4, <2>6, SelectsFacts
  <2>8. k < Len(t) /\ k + 1 \in 1 .. Len(t) /\ (k + 1 = j \/ k + 1 < j) BY <2>3, <2>6, <2>7
  <2>9. PICK q \in 1 .. Len(t) : q = k + 1 BY <2>8
  <2>10. k < q /\ (q = j \/ q < j) BY <2>3, <2>8, <2>9
  <2>11. n < h[q] /\ h[q] \in Nat /\ (h[q] = m \/ h[q] < m)
    BY <1>4, <1>7, <2>6, <2>10, SelectsFacts
  <2> HIDE DEF n
  <2>12. h[q] = m \/ h[q] \in n .. m - 1 BY <2>3, <2>4, <2>11
  <2>13. s[h[q]] # "nl" BY <2>2, <2>12 DEF Blank
  <2> QED BY <1>5, <2>8, <2>9, <2>13
<1>12. Layout(t) = Layout(s) BY <1>4, <1>7, <1>10, LayoutStays
<1> QED BY <1>1, <1>4, <1>8, <1>11, <1>12

\* The first and the last number of a set of places.
LEMMA FirstAndLast ==
    ASSUME NEW l \in Nat, NEW T \in SUBSET (1 .. l), T # {}
    PROVE  /\ Min(T) \in T /\ \A n \in T : Min(T) <= n
           /\ Max(T) \in T /\ \A n \in T : n <= Max(T)
<1>1. \E x \in T : \A y \in T : x <= y
  <2>1. T \in SUBSET Nat OBVIOUS
  <2> QED BY <2>1, LeastNat
<1>2. \E x \in T : \A y \in T : x >= y
  <2> DEFINE U == {n \in Nat : \E y \in T : n = l - y}
  <2>1. U \in SUBSET Nat OBVIOUS
  <2>2. \A y \in T : l - y \in U OBVIOUS
  <2>3. \A n \in U : l - n \in T /\ n \in Nat
    <3> SUFFICES ASSUME NEW n \in U PROVE l - n \in T /\ n \in Nat OBVIOUS
    <3>1. PICK y \in T : n = l - y OBVIOUS
    <3>2. l - n = y BY <3>1
    <3> QED BY <3>2
  <2>4. U # {} BY <2>2
  <2> HIDE DEF U
  <2>5. PICK n \in U : \A m \in U : n <= m BY <2>1, <2>4, LeastNat
  <2>6. ASSUME NEW y \in T PROVE l - n >= y
    <3>1. n <= l - y /\ n \in Nat /\ y \in Nat BY <2>2, <2>3, <2>5
    <3> QED BY <3>1
  <2> QED BY <2>3, <2>6
<1>3. Min(T) \in T /\ \A n \in T : Min(T) <= n BY <1>1 DEF Min
<1>4. Max(T) \in T /\ \A n \in T : Max(T) >= n BY <1>2 DEF Max
<1>5. \A n \in T : n <= Max(T) BY <1>4
<1> QED BY <1>3, <1>4, <1>5

LEMMA SpaceTrimmed ==
    ASSUME NEW s \in Text, NoReturns(s), CleanLines(s)
    PROVE  /\ TrimSpace(s) \in Text /\ NoReturns(TrimSpace(s)) /\ CleanLines(TrimSpace(s))
           /\ Trimmed(TrimSpace(s)) /\ Layout(TrimSpace(s)) = Layout(s)
<1>1. CASE Visible(s) = {}
  <2> DEFINE t == TrimSpace(s)
  <2>1. t = <<>> BY <1>1 DEF TrimSpace
  <2> HIDE DEF t
  <2>2. t \in Text /\ Len(t) = 0 BY <2>1 DEF Text
  <2>3. \A n \in 1 .. Len(t) : n \notin 1 .. Len(t) BY <2>2
  <2>4. Visible(t) = {} BY <2>2, TextFacts
  <2>5. Layout(t) = {} /\ Layout(s) = {} BY <1>1, <2>4 DEF Layout
  <2>6. NoReturns(t) /\ CleanLines(t) /\ Trimmed(t)
    BY <2>2, <2>3 DEF NoReturns, CleanLines, Trimmed
  <2> QED BY <2>2, <2>5, <2>6 DEF t
<1>2. CASE Visible(s) # {}
  <2> DEFINE t == TrimSpace(s)
  <2>0. Len(s) \in Nat BY TextFacts
  <2>1. PICK a \in Visible(s), b \in Visible(s) :
            /\ \A n \in Visible(s) : a <= n /\ n <= b
            /\ t = SubSeq(s, a, b)
    <3>1. /\ Min(Visible(s)) \in Visible(s) /\ \A n \in Visible(s) : Min(Visible(s)) <= n
          /\ Max(Visible(s)) \in Visible(s) /\ \A n \in Visible(s) : n <= Max(Visible(s))
      BY <1>2, <2>0, TextFacts, FirstAndLast
    <3>2. t = SubSeq(s, Min(Visible(s)), Max(Visible(s))) BY <1>2 DEF TrimSpace
    <3> QED BY <3>1, <3>2
  <2> HIDE DEF t
  <2>2. a \in 1 .. Len(s) /\ b \in 1 .. Len(s) /\ a \in Nat /\ b \in Nat /\ a <= b
    BY <2>0, <2>1, TextFacts
  <2>3. t \in Text /\ Len(t) = b - a + 1 /\ \A k \in 1 .. b - a + 1 : t[k] = s[a + k - 1]
    <3>1. \A i \in a .. b : s[i] \in Characters
      <4>1. \A i \in a .. b : i \in 1 .. Len(s) BY <2>0, <2>2
      <4> QED BY <4>1, TextFacts
    <3>2. a \in Int /\ b \in Int BY <2>2
    <3> QED BY <2>1, <2>2, <3>1, <3>2, SubSeqProperties DEF Text
  <2> DEFINE h == [k \in 1 .. Len(t) |-> a + k - 1]
  <2>4. \A k \in 1 .. Len(t) : /\ h[k] = a + k - 1 /\ h[k] \in 1 .. Len(s) /\ h[k] \in Nat
                               /\ h[k] >= a /\ h[k] <= b /\ t[k] = s[h[k]]
    BY <2>0, <2>2, <2>3
  <2>5. h \in [1 .. Len(t) -> 1 .. Len(s)] BY <2>4
  <2>6. \A i, j \in 1 .. Len(t) : i < j => h[i] < h[j] BY <2>2, <2>3
  <2>7. \A n \in a .. b : \E k \in 1 .. Len(t) : h[k] = n
    <3> SUFFICES ASSUME NEW n \in a .. b PROVE \E k \in 1 .. Len(t) : h[k] = n OBVIOUS
    <3>1. n - a + 1 \in 1 .. Len(t) /\ a + (n - a + 1) - 1 = n BY <2>2, <2>3
    <3>2. h[n - a + 1] = n BY <3>1
    <3> QED BY <3>1, <3>2
  <2> HIDE DEF h
  <2>8. Selects(s, t, h) BY <2>4, <2>5, <2>6 DEF Selects
  <2>9. \A n \in a .. b : Kept(t, h, n) BY <2>7 DEF Kept
  <2>10. NoReturns(t) BY <2>4 DEF NoReturns
  <2>11. \A n \in Visible(s) : n \in a .. b /\ n \in Nat
    <3> SUFFICES ASSUME NEW n \in Visible(s) PROVE n \in a .. b /\ n \in Nat OBVIOUS
    <3>1. n \in Nat BY TextFacts
    <3> QED BY <2>1, <2>2, <3>1
  <2>12. KeepsLayout(s, t, h)
    <3>1. \A n \in Visible(s) : Kept(t, h, n) BY <2>9, <2>11
    <3>2. ASSUME NEW k \in 1 .. Len(t) PROVE LineEnd(t, k) <=> LineEnd(s, h[k])
      <4>1. LineEnd(t, k) <=> t[k] = "nl" BY <2>3, <2>10, NoReturnEnds
      <4>2. LineEnd(s, h[k]) <=> s[h[k]] = "nl" BY <2>4, NoReturnEnds
      <4> QED BY <2>4, <4>1, <4>2
    <3>3. ASSUME NEW m \in 1 .. Len(s), NEW v \in Visible(s), NEW w \in Visible(s), v < m, m < w
          PROVE  Kept(t, h, m)
      <4>1. m \in Nat /\ v \in a .. b /\ w \in a .. b BY <2>11, TextFacts
      <4>2. m \in a .. b BY <2>2, <3>3, <4>1
      <4> QED BY <2>9, <4>2
    <3> DEFINE AllBlank(m, n) == \A j \in m + 1 .. n - 1 : Blank(s[j])
    <3>4. ASSUME NEW n \in Visible(s), NEW v \in Visible(s), NEW m \in 1 .. Len(s), v < n, m < n,
                 AllBlank(m, n)
          PROVE  Kept(t, h, m)
      <4>1. m \in Nat /\ v \in a .. b /\ n \in a .. b /\ v \in Nat /\ n \in Nat BY <2>11, TextFacts
      <4>2. v <= m
        <5> SUFFICES ASSUME m < v PROVE FALSE BY <4>1
        <5>1. v \in m + 1 .. n - 1 BY <3>4, <4>1
        <5>2. Blank(s[v]) BY <3>4, <5>1
        <5> QED BY <5>2 DEF Visible, Blank, Space
      <4>3. m \in a .. b BY <2>2, <3>4, <4>1, <4>2
      <4> QED BY <2>9, <4>3
    <3> QED BY <3>1, <3>2, <3>3, <3>4 DEF KeepsLayout
  <2>13. Layout(t) = Layout(s) BY <2>3, <2>8, <2>12, LayoutStays
  <2>14. Trimmed(t)
    <3>1. 1 \in 1 .. Len(t) /\ Len(t) \in 1 .. Len(t) BY <2>2, <2>3
    <3>2. h[1] = a /\ h[Len(t)] = b BY <2>2, <2>3, <2>4, <3>1
    <3>3. 1 \in Visible(t) /\ Len(t) \in Visible(t) BY <2>3, <2>8, <3>1, <3>2, SelectsFacts
    <3> QED BY <3>3 DEF Trimmed
  <2>15. CleanLines(t)
    <3> SUFFICES ASSUME NEW k \in 1 .. Len(t), Blank(t[k]) PROVE k < Len(t) /\ t[k + 1] # "nl"
      BY DEF CleanLines
    <3>1. h[k] \in 1 .. Len(s) /\ Blank(s[h[k]]) /\ h[k] = a + k - 1 BY <2>4
    <3>2. h[k] < Len(s) /\ s[h[k] + 1] # "nl" BY <3>1 DEF CleanLines
    <3>3. h[k] # b BY <3>1 DEF Visible, Blank, Space
    <3>4. k < Len(t) /\ k + 1 \in 1 .. Len(t) BY <2>2, <2>3, <3>1, <3>3
    <3>5. h[k + 1] = h[k] + 1 BY <2>2, <2>4, <3>1, <3>4
    <3> QED BY <2>4, <3>2, <3>4, <3>5
  <2> QED BY <2>3, <2>10, <2>13, <2>14, <2>15 DEF t
<1> QED BY <1>1, <1>2

-----------------------------------------------------------------------------
(* Two neat texts with one layout are the same.                            *)

Neat(s) == s \in Text /\ NoReturns(s) /\ CleanLines(s) /\ Trimmed(s)

\* u and v are the same in front of place k.
Agree(u, v, k) ==
    /\ k \in Nat /\ k >= 1 /\ k - 1 <= Len(u) /\ k - 1 <= Len(v)
    /\ \A i \in 1 .. k - 1 : u[i] = v[i]

\* p is the first place from k on where one sees something.
NextVisible(s, k, p) == p \in Visible(s) /\ k <= p /\ \A m \in k .. p - 1 : m \notin Visible(s)

LEMMA SomethingFollows ==
    ASSUME NEW u, Neat(u), NEW k \in 1 .. Len(u)
    PROVE  \E p \in 1 .. Len(u) : NextVisible(u, k, p)
<1> DEFINE T == {p \in Visible(u) : k <= p}
<1>0. u \in Text /\ Len(u) \in Nat /\ k \in Nat /\ k <= Len(u) BY TextFacts DEF Neat
<1>1. \A p \in Visible(u) : p \in 1 .. Len(u) /\ p \in Nat BY <1>0, TextFacts
<1>2. Len(u) \in T BY <1>0 DEF Neat, Trimmed
<1>3. PICK p \in T : \A q \in T : p <= q
  <2>1. T \in SUBSET Nat BY <1>1
  <2> HIDE DEF T
  <2> QED BY <1>2, <2>1, LeastNat
<1>4. p \in Visible(u) /\ k <= p /\ p \in Nat BY <1>1
<1>5. ASSUME NEW m \in k .. p - 1 PROVE m \notin Visible(u)
  <2> SUFFICES ASSUME m \in Visible(u) PROVE FALSE OBVIOUS
  <2>1. m \in T /\ m < p /\ m \in Nat BY <1>0, <1>4
  <2>2. p <= m BY <1>3, <2>1
  <2> QED BY <1>4, <2>1, <2>2
<1> QED BY <1>1, <1>4, <1>5 DEF NextVisible

\* What precedes it is blank if the first of it is no line end.
LEMMA BlanksUpTo ==
    ASSUME NEW u, Neat(u), NEW k \in 1 .. Len(u), NEW p, NextVisible(u, k, p), u[k] # "nl"
    PROVE  \A m \in k .. p - 1 : Blank(u[m])
<1>0. u \in Text /\ k \in Nat /\ Len(u) \in Nat /\ p \in Nat /\ p <= Len(u) /\ k >= 1
  BY TextFacts DEF Neat, NextVisible
<1> DEFINE T == {m \in k .. p - 1 : ~Blank(u[m])}
<1> SUFFICES ASSUME T # {} PROVE FALSE OBVIOUS
<1>1. PICK m \in T : \A j \in T : m <= j
  <2>1. T \in SUBSET Nat BY <1>0
  <2> HIDE DEF T
  <2> QED BY <2>1, LeastNat
<1>2. m \in k .. p - 1 /\ ~Blank(u[m]) /\ m \in Nat BY <1>0
<1>3. m \in 1 .. Len(u) /\ m \notin Visible(u) BY <1>0, <1>2 DEF NextVisible
<1>4. u[m] \in Characters /\ Space(u[m]) BY <1>0, <1>3, TextFacts DEF Visible
<1>5. u[m] = "nl" BY <1>2, <1>3, <1>4, Kinds DEF Neat, NoReturns
<1>6. m # k BY <1>5
<1>7. m - 1 \in k .. p - 1 /\ m - 1 \in 1 .. Len(u) BY <1>0, <1>2, <1>6
<1>8. Blank(u[m - 1])
  <2> SUFFICES ASSUME ~Blank(u[m - 1]) PROVE FALSE OBVIOUS
  <2>1. m <= m - 1 BY <1>1, <1>7
  <2> QED BY <1>2, <2>1
<1>9. u[(m - 1) + 1] # "nl" BY <1>7, <1>8 DEF Neat, CleanLines
<1> QED BY <1>2, <1>5, <1>9

LEMMA AgreeFacts ==
    ASSUME NEW u, NEW v, Neat(u), Neat(v), NEW k, Agree(u, v, k)
    PROVE  /\ k \in Nat /\ k >= 1 /\ Agree(v, u, k)
           /\ \A i \in 1 .. k - 1 : /\ i \in 1 .. Len(u) /\ i \in 1 .. Len(v) /\ u[i] = v[i]
                                    /\ i \in Visible(u) <=> i \in Visible(v)
                                    /\ LineEnd(u, i) <=> LineEnd(v, i)
           /\ {m \in Visible(u) : m < k} = {m \in Visible(v) : m < k}
<1>0. u \in Text /\ v \in Text /\ Len(u) \in Nat /\ Len(v) \in Nat BY TextFacts DEF Neat
<1>1. k \in Nat /\ k >= 1 /\ Agree(v, u, k) BY DEF Agree
<1>2. ASSUME NEW i \in 1 .. k - 1
      PROVE  /\ i \in 1 .. Len(u) /\ i \in 1 .. Len(v) /\ u[i] = v[i]
             /\ i \in Visible(u) <=> i \in Visible(v)
             /\ LineEnd(u, i) <=> LineEnd(v, i)
  <2>1. i \in 1 .. Len(u) /\ i \in 1 .. Len(v) /\ u[i] = v[i] BY <1>0, <1>1 DEF Agree
  <2>2. i \in DOMAIN u /\ i \in DOMAIN v BY <1>0, <2>1, TextFacts
  <2>3. i \in Visible(u) <=> i \in Visible(v) BY <2>1, <2>2 DEF Visible
  <2>4. (LineEnd(u, i) <=> u[i] = "nl") /\ (LineEnd(v, i) <=> v[i] = "nl")
    BY <2>1, NoReturnEnds DEF Neat
  <2> QED BY <2>1, <2>3, <2>4
<1>3. {m \in Visible(u) : m < k} = {m \in Visible(v) : m < k}
  <2>1. \A m \in Visible(u) : m \in Nat /\ m >= 1 BY <1>0, TextFacts
  <2>2. \A m \in Visible(v) : m \in Nat /\ m >= 1 BY <1>0, TextFacts
  <2>3. \A m \in Nat : m >= 1 /\ m < k => m \in 1 .. k - 1 BY <1>1
  <2> QED BY <1>2, <2>1, <2>2, <2>3
<1> QED BY <1>1, <1>2, <1>3

\* The next visible place of one text has a counterpart in the other one.
LEMMA Counterpart ==
    ASSUME NEW u, NEW v, Neat(u), Neat(v), NEW k, Agree(u, v, k), Layout(u) = Layout(v),
           NEW p, NextVisible(u, k, p)
    PROVE  \E n \in 1 .. Len(v) : NextVisible(v, k, n) /\ Item(u, p) = Item(v, n)
<1>0. u \in Text /\ v \in Text /\ Len(v) \in Nat /\ k \in Nat BY TextFacts, AgreeFacts DEF Neat
<1>1. p \in Visible(u) /\ k <= p /\ p \in Nat BY <1>0, TextFacts DEF NextVisible
<1>2. PICK n \in Visible(v) : Item(u, p) = Item(v, n) BY <1>1, LayoutItems
<1>3. n \in 1 .. Len(v) /\ n \in Nat BY <1>0, TextFacts
<1>4. \A m \in Visible(u) : m \in Nat BY <1>0, TextFacts
<1>5. \A m \in Visible(v) : m \in Nat BY <1>0, TextFacts
<1> DEFINE U == {m \in Visible(u) : m < p}
           V == {m \in Visible(v) : m < n}
           W == {m \in Visible(v) : m < k}
<1>6. U = W
  <2>1. \A m \in Visible(u) : m < p <=> m < k
    <3> SUFFICES ASSUME NEW m \in Visible(u) PROVE m < p <=> m < k OBVIOUS
    <3>1. m \notin k .. p - 1 BY DEF NextVisible
    <3> QED BY <1>0, <1>1, <1>4, <3>1
  <2>2. {m \in Visible(u) : m < k} = W BY AgreeFacts
  <2> QED BY <2>1, <2>2
<1>7. Cardinality(V) = Cardinality(W)
  <2>1. Rank(u, p) = Rank(v, n) BY <1>2, SameItems
  <2>2. Rank(u, p) = Cardinality(U) /\ Rank(v, n) = Cardinality(V) BY DEF Rank
  <2> HIDE DEF U, V, W
  <2> QED BY <1>6, <2>1, <2>2
<1>8. V \in SUBSET (1 .. Len(v)) /\ W \in SUBSET (1 .. Len(v)) BY <1>0, TextFacts
<1>9. k <= n
  <2> SUFFICES ASSUME n < k PROVE FALSE BY <1>0, <1>3
  <2>1. V \in SUBSET W
    <3> SUFFICES ASSUME NEW j \in V PROVE j \in W OBVIOUS
    <3>1. j \in Visible(v) /\ j < n /\ j \in Nat BY <1>5
    <3>2. j < k BY <1>0, <1>3, <3>1
    <3> QED BY <3>1, <3>2
  <2>2. n \in W /\ n \notin V BY <1>0, <1>2, <1>3
  <2> HIDE DEF V, W
  <2>3. V # W BY <2>2
  <2> QED BY <1>0, <1>7, <1>8, <2>1, <2>3, MorePlaces
<1>10. ASSUME NEW m \in k .. n - 1 PROVE m \notin Visible(v)
  <2> SUFFICES ASSUME m \in Visible(v) PROVE FALSE OBVIOUS
  <2>1. m \in Nat /\ m < n /\ ~(m < k) BY <1>0, <1>3
  <2>2. W \in SUBSET V
    <3> SUFFICES ASSUME NEW j \in W PROVE j \in V OBVIOUS
    <3>1. j \in Visible(v) /\ j < k /\ j \in Nat BY <1>5
    <3>2. j < n BY <1>0, <1>3, <1>9, <3>1
    <3> QED BY <3>1, <3>2
  <2>3. m \in V /\ m \notin W BY <2>1
  <2> HIDE DEF V, W
  <2>4. V # W BY <2>3
  <2> QED BY <1>0, <1>7, <1>8, <2>2, <2>4, MorePlaces
<1> QED BY <1>2, <1>3, <1>9, <1>10 DEF NextVisible

\* Between k and the counterpart there are only blanks, if that is so here.
LEMMA BlanksThere ==
    ASSUME NEW u, NEW v, Neat(u), Neat(v), NEW k, Agree(u, v, k), k > 1,
           NEW p, NextVisible(u, k, p), \A m \in k .. p - 1 : Blank(u[m]),
           NEW n, NextVisible(v, k, n), RowOf(u, p) = RowOf(v, n)
    PROVE  \A m \in k .. n - 1 : Blank(v[m])
<1>0. u \in Text /\ v \in Text /\ Len(u) \in Nat /\ Len(v) \in Nat /\ k \in Nat
  BY TextFacts, AgreeFacts DEF Neat
<1>1. p \in Visible(u) /\ k <= p /\ p \in 1 .. Len(u) /\ p \in Nat BY <1>0, TextFacts DEF NextVisible
<1>2. n \in Visible(v) /\ k <= n /\ n \in 1 .. Len(v) /\ n \in Nat BY <1>0, TextFacts DEF NextVisible
<1>3. 1 \in Visible(u) /\ 1 \in Visible(v) BY <1>1, <1>2 DEF Neat, Trimmed
<1>4. ASSUME NEW e \in Ends(u, p) PROVE e \in Ends(v, k)
  <2>1. e \in 1 .. Len(u) /\ e < p /\ LineEnd(u, e) /\ e \in Nat BY <1>0, TextFacts DEF Ends
  <2>2. u[e] = "nl" BY <2>1, NoReturnEnds DEF Neat
  <2>3. e \notin k .. p - 1 BY <2>2 DEF Blank
  <2>4. e < k /\ e \in 1 .. k - 1 BY <1>0, <1>1, <2>1, <2>3
  <2>5. LineEnd(v, e) /\ e \in DOMAIN v BY <1>0, <2>1, <2>4, AgreeFacts, TextFacts
  <2>6. \E w \in Visible(v) : w < e
    <3>1. PICK w \in Visible(u) : w < e BY DEF Ends
    <3>2. w \in 1 .. k - 1 BY <1>0, <2>1, <2>4, <3>1, TextFacts
    <3> QED BY <3>1, <3>2, AgreeFacts
  <2> QED BY <2>4, <2>5, <2>6 DEF Ends
<1>5. ASSUME NEW e \in Ends(v, k) PROVE e \in Ends(u, p)
  <2>1. e \in 1 .. Len(v) /\ e < k /\ LineEnd(v, e) /\ e \in Nat BY <1>0, TextFacts DEF Ends
  <2>2. e \in 1 .. k - 1 /\ e < p BY <1>0, <1>1, <2>1
  <2>3. e \in 1 .. Len(u) /\ LineEnd(u, e) BY <2>1, <2>2, AgreeFacts
  <2>4. \E w \in Visible(u) : w < e
    <3>1. PICK w \in Visible(v) : w < e BY DEF Ends
    <3>2. w \in 1 .. k - 1 BY <1>0, <2>1, <3>1, TextFacts
    <3> QED BY <3>1, <3>2, AgreeFacts
  <2> QED BY <1>0, <2>2, <2>3, <2>4, TextFacts DEF Ends
<1>6. Cardinality(Ends(v, n)) = Cardinality(Ends(v, k))
  <2>1. Ends(u, p) = Ends(v, k) BY <1>4, <1>5
  <2>2. RowOf(u, p) = Cardinality(Ends(u, p)) /\ RowOf(v, n) = Cardinality(Ends(v, n))
    BY DEF RowOf, Ends
  <2> QED BY <2>1, <2>2
<1>7. Ends(v, k) \in SUBSET Ends(v, n) /\ Ends(v, n) \in SUBSET (1 .. Len(v))
  <2>1. \A e \in DOMAIN v : e \in Nat BY <1>0, TextFacts
  <2> QED BY <1>0, <1>2, <2>1, TextFacts DEF Ends
<1>8. ASSUME NEW m \in k .. n - 1, ~Blank(v[m]) PROVE FALSE
  <2>1. m \in 1 .. Len(v) /\ m \notin Visible(v) /\ m \in Nat /\ m < n /\ ~(m < k) /\ 1 < m
    BY <1>0, <1>2 DEF NextVisible
  <2>2. v[m] \in Characters /\ Space(v[m]) BY <1>0, <2>1, TextFacts DEF Visible
  <2>3. v[m] = "nl" BY <1>8, <2>1, <2>2, Kinds DEF Neat, NoReturns
  <2>4. LineEnd(v, m) /\ m \in DOMAIN v BY <1>0, <2>1, <2>3, NoReturnEnds, TextFacts DEF Neat
  <2>5. m \in Ends(v, n) /\ m \notin Ends(v, k) BY <1>3, <2>1, <2>4 DEF Ends
  <2>6. Ends(v, k) # Ends(v, n) BY <2>5
  <2> QED BY <1>0, <1>6, <1>7, <2>6, MorePlaces
<1> QED BY <1>8

LEMMA SameCharacter ==
    ASSUME NEW u, NEW v, Neat(u), Neat(v), NEW k, Agree(u, v, k), Layout(u) = Layout(v),
           k \in 1 .. Len(u), u[k] # "nl"
    PROVE  k \in 1 .. Len(v) /\ v[k] = u[k]
<1>0. u \in Text /\ v \in Text /\ Len(u) \in Nat /\ Len(v) \in Nat /\ k \in Nat /\ k >= 1
  BY TextFacts, AgreeFacts DEF Neat
<1>1. PICK p \in 1 .. Len(u) : NextVisible(u, k, p) BY SomethingFollows
<1>2. PICK n \in 1 .. Len(v) : NextVisible(v, k, n) /\ Item(u, p) = Item(v, n) BY <1>1, Counterpart
<1>3. p \in Visible(u) /\ k <= p /\ p \in Nat /\ p <= Len(u) BY <1>0, <1>1 DEF NextVisible
<1>4. n \in Visible(v) /\ k <= n /\ n \in Nat /\ n <= Len(v) BY <1>0, <1>2 DEF NextVisible
<1>5. /\ u[p] = v[n] /\ RowOf(u, p) = RowOf(v, n) /\ BlanksBefore(u, p) = BlanksBefore(v, n)
  BY <1>2, SameItems
<1>6. 1 \in Visible(u) /\ 1 \in Visible(v) BY <1>0, <1>3, <1>4 DEF Neat, Trimmed
<1>7. k \in 1 .. Len(v) BY <1>0, <1>4
<1>8. CASE k = 1
  <2>1. 1 \notin 1 .. p - 1 /\ 1 \notin 1 .. n - 1 BY <1>1, <1>2, <1>6, <1>8 DEF NextVisible
  <2>2. p = 1 /\ n = 1 BY <1>0, <1>3, <1>4, <2>1
  <2> QED BY <1>5, <1>7, <1>8, <2>2
<1>9. CASE k # 1
  <2>0. k > 1 /\ 1 < p /\ 1 < n BY <1>0, <1>3, <1>4, <1>9
  <2>1. \A m \in k .. p - 1 : Blank(u[m]) BY <1>1, BlanksUpTo
  <2>2. \A m \in k .. n - 1 : Blank(v[m]) BY <1>1, <1>2, <1>5, <2>0, <2>1, BlanksThere
  <2>3. PICK f \in 1 .. p : BlanksFrom(u, f, p) BY <1>0, BlanksBegin
  <2>4. f \in Nat /\ f >= 1 /\ f <= p BY <1>3
  <2>5. f <= k
    <3> SUFFICES ASSUME k < f PROVE FALSE BY <1>0, <2>4
    <3>1. f - 1 \in k .. p - 1 /\ f # 1 BY <1>0, <1>3, <2>4
    <3> QED BY <2>1, <2>3, <3>1 DEF BlanksFrom
  <2>6. f \in 1 .. n BY <1>0, <1>4, <2>4, <2>5
  <2>7. BlanksFrom(v, f, n)
    <3>1. ASSUME NEW m \in f .. n - 1 PROVE Blank(v[m])
      <4>1. CASE m \in k .. n - 1 BY <2>2, <4>1
      <4>2. CASE m \notin k .. n - 1
        <5>1. m \in 1 .. k - 1 /\ m \in f .. p - 1 BY <1>0, <1>3, <1>4, <2>4, <4>2
        <5>2. Blank(u[m]) BY <2>3, <5>1 DEF BlanksFrom
        <5>3. u[m] = v[m] BY <5>1, AgreeFacts
        <5> QED BY <5>2, <5>3
      <4> QED BY <4>1, <4>2
    <3>2. ASSUME f # 1 PROVE ~Blank(v[f - 1])
      <4>1. f - 1 \in 1 .. k - 1 BY <1>0, <2>4, <2>5, <3>2
      <4>2. ~Blank(u[f - 1]) BY <2>3, <3>2 DEF BlanksFrom
      <4>3. u[f - 1] = v[f - 1] BY <4>1, AgreeFacts
      <4> QED BY <4>2, <4>3
    <3> QED BY <3>1, <3>2 DEF BlanksFrom
  <2>8. BlanksBefore(u, p) = SubSeq(u, f, p - 1) BY <1>0, <1>6, <2>0, <2>3, BlanksAre
  <2>9. BlanksBefore(v, n) = SubSeq(v, f, n - 1) BY <1>0, <1>6, <2>0, <2>6, <2>7, BlanksAre
  <2> DEFINE x == SubSeq(u, f, p - 1)
             y == SubSeq(v, f, n - 1)
  <2>10. x = y BY <1>5, <2>8, <2>9
  <2>11. Len(x) = p - f /\ \A i \in 1 .. p - f : x[i] = u[f + i - 1]
    <3>1. \A i \in f .. p - 1 : u[i] \in Characters
      <4>1. \A i \in f .. p - 1 : i \in 1 .. Len(u) BY <1>0, <1>3, <2>4
      <4> QED BY <1>0, <4>1, TextFacts
    <3>2. f \in Int /\ p - 1 \in Int BY <1>3, <2>4
    <3>3. /\ Len(x) = IF f <= p - 1 THEN (p - 1) - f + 1 ELSE 0
          /\ \A i \in 1 .. (p - 1) - f + 1 : x[i] = u[f + i - 1]
      BY <3>1, <3>2, SubSeqProperties
    <3> HIDE DEF x
    <3>4. (p - 1) - f + 1 = p - f /\ (f <= p - 1 \/ p - f = 0) BY <1>3, <2>4
    <3> QED BY <3>3, <3>4
  <2>12. Len(y) = n - f /\ \A i \in 1 .. n - f : y[i] = v[f + i - 1]
    <3>1. \A i \in f .. n - 1 : v[i] \in Characters
      <4>1. \A i \in f .. n - 1 : i \in 1 .. Len(v) BY <1>0, <1>4, <2>4
      <4> QED BY <1>0, <4>1, TextFacts
    <3>2. f \in Int /\ n - 1 \in Int BY <1>4, <2>4
    <3>3. /\ Len(y) = IF f <= n - 1 THEN (n - 1) - f + 1 ELSE 0
          /\ \A i \in 1 .. (n - 1) - f + 1 : y[i] = v[f + i - 1]
      BY <3>1, <3>2, SubSeqProperties
    <3> HIDE DEF y
    <3>4. (n - 1) - f + 1 = n - f /\ (f <= n - 1 \/ n - f = 0) BY <1>4, <2>4, <2>6
    <3> QED BY <3>3, <3>4
  <2> HIDE DEF x, y
  <2>13. p = n BY <1>3, <1>4, <2>4, <2>10, <2>11, <2>12
  <2>14. CASE k = p BY <1>5, <1>7, <2>13, <2>14
  <2>15. CASE k # p
    <3>1. k - f + 1 \in 1 .. p - f /\ f + (k - f + 1) - 1 = k BY <1>0, <1>3, <2>4, <2>5, <2>15
    <3>2. x[k - f + 1] = u[f + (k - f + 1) - 1] /\ y[k - f + 1] = v[f + (k - f + 1) - 1]
      BY <2>11, <2>12, <2>13, <3>1
    <3> QED BY <1>7, <2>10, <3>1, <3>2
  <2> QED BY <2>14, <2>15
<1> QED BY <1>8, <1>9

LEMMA SamePlace ==
    ASSUME NEW u, NEW v, Neat(u), Neat(v), NEW k, Agree(u, v, k), Layout(u) = Layout(v),
           k \in 1 .. Len(u)
    PROVE  k \in 1 .. Len(v) /\ v[k] = u[k]
<1>1. CASE u[k] # "nl" BY <1>1, SameCharacter
<1>2. CASE u[k] = "nl"
  <2>1. PICK p \in 1 .. Len(u) : NextVisible(u, k, p) BY SomethingFollows
  <2>2. PICK n \in 1 .. Len(v) : NextVisible(v, k, n) BY <2>1, Counterpart
  <2>3. k \in 1 .. Len(v)
    <3>1. n \in Nat /\ n <= Len(v) /\ k <= n /\ Len(v) \in Nat /\ k \in Nat /\ k >= 1
      BY <2>2, TextFacts, AgreeFacts DEF Neat, NextVisible
    <3> QED BY <3>1
  <2>4. Agree(v, u, k) BY AgreeFacts
  <2>5. v[k] # "nl" => u[k] = v[k] BY <2>3, <2>4, SameCharacter
  <2> QED BY <1>2, <2>3, <2>5
<1> QED BY <1>1, <1>2

LEMMA OneNeatText ==
    ASSUME NEW u, NEW v, Neat(u), Neat(v), Layout(u) = Layout(v)
    PROVE  u = v
<1>0. u \in Text /\ v \in Text /\ Len(u) \in Nat /\ Len(v) \in Nat BY TextFacts DEF Neat
<1> DEFINE Same(k) == k \in 1 .. Len(u) /\ k \in 1 .. Len(v) /\ u[k] = v[k]
           T == {k \in Nat : k >= 1 /\ (k <= Len(u) \/ k <= Len(v)) /\ ~Same(k)}
<1>1. ASSUME T # {} PROVE FALSE
  <2>1. PICK k \in T : \A j \in T : k <= j
    <3>1. T \in SUBSET Nat OBVIOUS
    <3> HIDE DEF T
    <3> QED BY <1>1, <3>1, LeastNat
  <2>2. k \in Nat /\ k >= 1 /\ (k <= Len(u) \/ k <= Len(v)) /\ ~Same(k) OBVIOUS
  <2>3. ASSUME NEW i \in 1 .. k - 1 PROVE Same(i)
    <3> SUFFICES ASSUME ~Same(i) PROVE FALSE OBVIOUS
    <3>1. i \in Nat /\ i >= 1 /\ i < k /\ (i <= Len(u) \/ i <= Len(v)) BY <1>0, <2>2
    <3>2. i \in T BY <3>1
    <3>3. k <= i BY <2>1, <3>2
    <3> QED BY <2>2, <3>1, <3>3
  <2>4. k - 1 <= Len(u) /\ k - 1 <= Len(v)
    <3>1. CASE k = 1 BY <1>0, <3>1
    <3>2. CASE k # 1
      <4>1. k - 1 \in 1 .. k - 1 BY <2>2, <3>2
      <4>2. Same(k - 1) BY <2>3, <4>1
      <4> QED BY <1>0, <4>2
    <3> QED BY <3>1, <3>2
  <2>5. Agree(u, v, k) /\ Agree(v, u, k) BY <2>2, <2>3, <2>4 DEF Agree
  <2>6. k \in 1 .. Len(u) \/ k \in 1 .. Len(v) BY <1>0, <2>2
  <2>7. CASE k \in 1 .. Len(u)
    <3>1. k \in 1 .. Len(v) /\ v[k] = u[k] BY <2>5, <2>7, SamePlace
    <3> QED BY <2>2, <2>7, <3>1
  <2>8. CASE k \in 1 .. Len(v)
    <3>1. k \in 1 .. Len(u) /\ u[k] = v[k] BY <2>5, <2>8, SamePlace
    <3> QED BY <2>2, <2>8, <3>1
  <2> QED BY <2>6, <2>7, <2>8
<1>2. \A k \in Nat : k >= 1 /\ (k <= Len(u) \/ k <= Len(v)) => Same(k) BY <1>1
<1>3. Len(u) = Len(v)
  <2>1. Len(u) = 0 \/ Same(Len(u)) BY <1>0, <1>2
  <2>2. Len(v) = 0 \/ Same(Len(v)) BY <1>0, <1>2
  <2> QED BY <1>0, <2>1, <2>2
<1>4. \A k \in 1 .. Len(u) : u[k] = v[k]
  <2>1. \A k \in 1 .. Len(u) : k \in Nat /\ k >= 1 /\ k <= Len(u) BY <1>0
  <2> QED BY <1>2, <2>1
<1> QED BY <1>0, <1>3, <1>4, SeqEqual DEF Text

\* normalizeOutput makes the same of two texts exactly when they have one layout.
LEMMA NormalFormsTell ==
    ASSUME NEW x \in Texts, NEW y \in Texts
    PROVE  normalizeOutput[x] = normalizeOutput[y] <=> SameText(x, y)
<1> DEFINE N(s) == TrimSpace(TrimLines(UnifyLineEnds(s)))
<1>1. ASSUME NEW s \in Text PROVE Neat(N(s)) /\ Layout(N(s)) = Layout(s)
  <2>1. PICK a \in Text : /\ a = UnifyLineEnds(s)
                          /\ NoReturns(a) /\ Layout(a) = Layout(s)
    BY LineEndsUnified
  <2>2. PICK b \in Text : /\ b = TrimLines(a)
                          /\ NoReturns(b) /\ CleanLines(b) /\ Layout(b) = Layout(a)
    BY <2>1, LinesTrimmed
  <2>3. Neat(TrimSpace(b)) /\ Layout(TrimSpace(b)) = Layout(b) BY <2>2, SpaceTrimmed DEF Neat
  <2> QED BY <2>1, <2>2, <2>3
<1>2. Texts \in SUBSET Text
  <2>1. \A c \in Contents : c.expected \in Text BY RunnerAssumption DEF Text
  <2>2. \A c \in SelfTests : c.expected \in Text BY RunnerAssumption DEF Text
  <2>3. \A p \in Programs : \A i \in Inputs : p.run[i].output \in Text
    BY RunnerAssumption DEF Text
  <2> QED BY <2>1, <2>2, <2>3 DEF Texts
<1>3. normalizeOutput[x] = N(x) /\ normalizeOutput[y] = N(y) BY DEF normalizeOutput
<1>4. /\ Neat(N(x)) /\ Layout(N(x)) = Layout(x)
      /\ Neat(N(y)) /\ Layout(N(y)) = Layout(y)
  BY <1>1, <1>2
<1> HIDE DEF N
<1> QED BY <1>3, <1>4, OneNeatText DEF SameText

-----------------------------------------------------------------------------
(* Types.                                                                  *)

\* What may be counted stays within its bound.
LEMMA Counters ==
    ASSUME TypeOK
    PROVE  /\ edits' = edits \/ Edit => edits' \in 0 .. MaxEdits
           /\ faults' = faults \/ Fault => faults' \in 0 .. MaxFaults
<1>1. edits \in 0 .. MaxEdits /\ faults \in 0 .. MaxFaults BY DEF TypeOK
<1> QED BY <1>1, RunnerAssumption DEF Edit, Fault

LEMMA OutcomeOfCase ==
    ASSUME NEW run, NEW l, NEW e PROVE CaseStatus(run, l, e) \in Outcomes
<1>1. CASE ~Fits(run, l) BY <1>1 DEF CaseStatus, Outcomes
<1>2. CASE Fits(run, l) /\ run.exit = 137 BY <1>2 DEF CaseStatus, Outcomes
<1>3. CASE Fits(run, l) /\ run.exit \notin {0, 137} BY <1>3 DEF CaseStatus, Outcomes
<1>4. CASE Fits(run, l) /\ run.exit = 0 BY <1>4 DEF CaseStatus, Outcomes
<1> QED BY <1>1, <1>2, <1>3, <1>4

LEMMA OutcomeOfSelfTest ==
    ASSUME NEW run, NEW l, NEW e PROVE SelfTestStatus(run, l, e) \in Outcomes
<1>1. CASE ~Fits(run, l) BY <1>1 DEF SelfTestStatus, Outcomes
<1>2. CASE Fits(run, l) /\ run.exit = 137 BY <1>2 DEF SelfTestStatus, Outcomes
<1>3. CASE Fits(run, l) /\ run.exit \notin {0, 137} BY <1>3 DEF SelfTestStatus, Outcomes
<1>4. CASE Fits(run, l) /\ run.exit = 0 BY <1>4 DEF SelfTestStatus, Outcomes
<1> QED BY <1>1, <1>2, <1>3, <1>4

LEMMA InitTypes == ASSUME Init PROVE TypeOK
<1>1. limit \in Nat /\ 0 \in Nat /\ 0 \in 0 .. MaxEdits /\ 0 \in 0 .. MaxFaults
  BY RunnerAssumption DEF Init
<1>2. results \in Seq([id : CaseIds, status : Outcomes, time : Nat]) BY DEF Init
<1>3. testCases \in Seq([id : CaseIds, case : Contents]) /\ index \in 0 .. Len(testCases)
  BY DEF Init
<1>4. pc = "load" /\ finalStatus \in Outcomes BY DEF Init, Outcomes
<1> QED BY <1>1, <1>2, <1>3, <1>4, RunnerAssumption DEF Init, TypeOK

\* Steps of administrators and of the self test leave the run alone.
LEMMA OtherTypes ==
    ASSUME TypeOK,
           \/ \E t \in SelfTests : RequestSelfTest(t)
           \/ RunSelfTest \/ SelfTestFails
           \/ \E i \in CaseIds : \/ DeleteTestCase(i)
                                 \/ \E c \in Contents : CreateTestCase(i, c) \/ UpdateTestCase(i, c)
           \/ \E l \in Limits : \/ ChangeLimit(l)
                                \/ \E ids \in SUBSET CaseIds : \E file \in [ids -> Importable] :
                                      ImportProblem(file, l)
           \/ DeleteProblem
    PROVE  TypeOK' /\ UNCHANGED <<program, rowVars, runVars>>
<1> DEFINE Tests == [input : Inputs, expected : Seq(Characters), limit : Limits,
                     answer : Outcomes \cup {"none", "Compile Error", "System Error"}]
<1>1. UNCHANGED <<program, rowVars, runVars>>
  BY DEF RequestSelfTest, RunSelfTest, SelfTestFails, DeleteTestCase, CreateTestCase, UpdateTestCase,
         ChangeLimit, ImportProblem, DeleteProblem
<1>2. selfTest' \in {None} \cup Tests
  <2>1. CASE \E t \in SelfTests : RequestSelfTest(t)
    <3>1. PICK t \in SelfTests : RequestSelfTest(t) BY <2>1
    <3>2. t.input \in Inputs /\ t.expected \in Seq(Characters) BY RunnerAssumption
    <3>3. limit \in Limits
      <4>1. limit > 0 BY <3>1 DEF RequestSelfTest
      <4>2. limit \in Limits \cup {0} BY DEF TypeOK
      <4> QED BY <4>1, <4>2
    <3>4. [input |-> t.input, expected |-> t.expected, limit |-> limit, answer |-> "none"] \in Tests
      BY <3>2, <3>3
    <3> QED BY <3>1, <3>4 DEF RequestSelfTest
  <2>2. CASE RunSelfTest
    <3>1. selfTest \in Tests BY <2>2 DEF RunSelfTest, TypeOK
    <3>2. SelfTestStatus(program.run[selfTest.input], selfTest.limit, selfTest.expected) \in Outcomes
      BY OutcomeOfSelfTest
    <3> QED BY <2>2, <3>1, <3>2 DEF RunSelfTest
  <2>3. CASE SelfTestFails
    <3>1. selfTest \in Tests BY <2>3 DEF SelfTestFails, TypeOK
    <3> QED BY <2>3, <3>1 DEF SelfTestFails
  <2>4. CASE UNCHANGED selfTest BY <2>4 DEF TypeOK
  <2> QED BY <2>1, <2>2, <2>3, <2>4 DEF DeleteTestCase, CreateTestCase, UpdateTestCase,
             ChangeLimit, ImportProblem, DeleteProblem
<1>3. edits' \in 0 .. MaxEdits /\ faults' \in 0 .. MaxFaults
  BY Counters DEF Fine, RequestSelfTest, RunSelfTest, SelfTestFails,
         DeleteTestCase, CreateTestCase, UpdateTestCase, ChangeLimit, ImportProblem, DeleteProblem
<1>4. limit' \in Limits \cup {0}
  BY DEF TypeOK, RequestSelfTest, RunSelfTest, SelfTestFails, DeleteTestCase, CreateTestCase,
         UpdateTestCase, ChangeLimit, ImportProblem, DeleteProblem, problemVars
<1>5. cases' \in [CaseIds -> Contents \cup {None, Deleted}]
  <2>1. CASE \E ids \in SUBSET CaseIds, l \in Limits :
                \E file \in [ids -> Importable] : ImportProblem(file, l)
    <3>1. PICK ids \in SUBSET CaseIds, l \in Limits :
                  \E file \in [ids -> Importable] : ImportProblem(file, l)
      BY <2>1
    <3>2. PICK file \in [ids -> Importable] : ImportProblem(file, l) BY <3>1
    <3>3. \A i \in ids : file[i] \in Contents BY DEF Importable
    <3>4. \A i \in CaseIds : cases[i] \in Contents \cup {None, Deleted} BY DEF TypeOK
    <3> QED BY <3>2, <3>3, <3>4 DEF ImportProblem
  <2>2. CASE \E i \in CaseIds : \/ DeleteTestCase(i)
                                \/ \E c \in Contents : CreateTestCase(i, c) \/ UpdateTestCase(i, c)
    BY <2>2 DEF DeleteTestCase, CreateTestCase, UpdateTestCase, TypeOK
  <2>3. CASE UNCHANGED cases BY <2>3 DEF TypeOK
  <2> QED BY <2>1, <2>2, <2>3 DEF RequestSelfTest, RunSelfTest, SelfTestFails, ChangeLimit,
             DeleteProblem, problemVars
<1>6. UNCHANGED <<program, status, time, results, pc, runLimit, testCases, index, worst,
                  finalStatus, killed>>
  BY <1>1 DEF rowVars, runVars
<1> QED BY <1>1, <1>2, <1>3, <1>4, <1>5, <1>6 DEF TypeOK

\* What recording a result does to the types.
LEMMA RecordTypes ==
    ASSUME TypeOK, pc = "run", NEW s \in Outcomes, NEW t \in Nat, Record(s, t)
    PROVE  /\ index' = index + 1 /\ index' \in 1 .. Len(testCases)
           /\ results' = Append(results, [id |-> testCases[index + 1].id, status |-> s, time |-> t])
           /\ results' \in Seq([id : CaseIds, status : Outcomes, time : Nat])
           /\ worst' \in Nat /\ finalStatus' \in Outcomes
           /\ pc' \in {"run", "final"}
           /\ (pc' = "run" <=> (s = "Accepted" /\ index + 1 < Len(testCases)))
<1>0. /\ testCases \in Seq([id : CaseIds, case : Contents])
      /\ index \in 0 .. Len(testCases) /\ index < Len(testCases)
      /\ results \in Seq([id : CaseIds, status : Outcomes, time : Nat])
      /\ worst \in Nat /\ finalStatus \in Outcomes
  BY DEF TypeOK
<1>1. index \in Nat /\ Len(testCases) \in Nat /\ index + 1 \in 1 .. Len(testCases)
  BY <1>0
<1>2. testCases[index + 1].id \in CaseIds
  <2>1. testCases[index + 1] \in [id : CaseIds, case : Contents] BY <1>0, <1>1, ElementOfSeq
  <2> QED BY <2>1
<1>3. [id |-> testCases[index + 1].id, status |-> s, time |-> t]
          \in [id : CaseIds, status : Outcomes, time : Nat]
  BY <1>2
<1>4. index' = index + 1 /\ index' \in 1 .. Len(testCases) BY <1>1 DEF Record
<1>5. results' = Append(results, [id |-> testCases[index + 1].id, status |-> s, time |-> t])
  BY <1>4 DEF Record
<1>6. results' \in Seq([id : CaseIds, status : Outcomes, time : Nat])
  BY <1>0, <1>3, <1>5, AppendProperties
<1>7. worst' \in Nat /\ finalStatus' \in Outcomes BY <1>0 DEF Record
<1>8. pc' = IF s = "Accepted" /\ index + 1 < Len(testCases) THEN "run" ELSE "final"
  BY <1>4 DEF Record, Goto
<1>9. pc' \in {"run", "final"} /\ (pc' = "run" <=> (s = "Accepted" /\ index + 1 < Len(testCases)))
  BY <1>8
<1> QED BY <1>4, <1>5, <1>6, <1>7, <1>9

\* Before the first case of a run there are test cases and none has been run.
StageInv == pc \in {"judging", "clear", "compile"} => index = 0 /\ testCases # <<>>

\* The run of a case takes a number of milliseconds and has an outcome.
LEMMA RunOutcomeIsCases ==
    ASSUME TypeOK, RunCase
    PROVE  LET next == testCases[index + 1].case
               run == program.run[next.input]
           IN  \E t \in Nat : Record(CaseStatus(run, runLimit, next.expected), t)
<1> DEFINE next == testCases[index + 1].case
           run == program.run[next.input]
<1>1. Record(CaseStatus(run, runLimit, next.expected), Duration(run, runLimit)) BY DEF RunCase
<1>2. /\ testCases \in Seq([id : CaseIds, case : Contents]) /\ index \in 0 .. Len(testCases)
      /\ index < Len(testCases) /\ runLimit \in Limits \cup {0} /\ program \in Programs
  BY DEF TypeOK, RunCase
<1>0. index + 1 \in 1 .. Len(testCases) BY <1>2
<1>3. testCases[index + 1] \in [id : CaseIds, case : Contents] BY <1>0, <1>2, ElementOfSeq
<1>4. next.input \in Inputs BY <1>3, RunnerAssumption
<1>5. run.time \in Nat BY <1>2, <1>4, RunnerAssumption
<1>6. runLimit \in Nat /\ Grace \in Nat BY <1>2, RunnerAssumption
<1> HIDE DEF run
<1>7. Duration(run, runLimit) \in Nat BY <1>5, <1>6 DEF Duration
<1> QED BY <1>1, <1>7 DEF run

LEMMA RunOutcome ==
    ASSUME TypeOK, RunCase PROVE \E s \in Outcomes, t \in Nat : Record(s, t)
BY RunOutcomeIsCases, OutcomeOfCase

LEMMA RunTypes ==
    ASSUME TypeOK, StageInv,
           \/ LoadSubmission \/ LoadCases \/ MarkJudging \/ DeleteResults
           \/ Compile \/ RunCase \/ WriteVerdict
           \/ KilledByShutdown \/ CommandFails \/ DatabaseFails \/ Retry
    PROVE  TypeOK' /\ StageInv' /\ UNCHANGED <<problemVars, program, selfTest>>
<1>1. UNCHANGED <<limit, cases, program, selfTest, edits>>
  BY DEF LoadSubmission, LoadCases, MarkJudging, DeleteResults, Compile, RunCase, WriteVerdict,
         KilledByShutdown, CommandFails, DatabaseFails, Retry, problemVars
<1>2. faults' \in 0 .. MaxFaults
  BY Counters DEF Fine, LoadSubmission, LoadCases, MarkJudging,
         DeleteResults, Compile, RunCase, WriteVerdict,
         KilledByShutdown, CommandFails, DatabaseFails, Retry
<1>3. /\ status' \in Outcomes \cup {"Pending", "Judging", "Compile Error", "System Error"}
      /\ pc' \in {"load", "cases", "judging", "clear", "compile", "run", "final", "failed", "done"}
      /\ runLimit' \in Limits \cup {0} /\ killed' \in BOOLEAN
  BY DEF TypeOK, LoadSubmission, LoadCases, MarkJudging, DeleteResults, Compile, RunCase, WriteVerdict,
         KilledByShutdown, CommandFails, DatabaseFails, Retry, Goto, Record, CompileError, rowVars
<1> DEFINE Rest == /\ time' \in Nat /\ worst' \in Nat
                   /\ results' \in Seq([id : CaseIds, status : Outcomes, time : Nat])
                   /\ testCases' \in Seq([id : CaseIds, case : Contents])
                   /\ index' \in 0 .. Len(testCases') /\ (pc' = "run" => index' < Len(testCases'))
                   /\ finalStatus' \in Outcomes
<1>0. /\ time \in Nat /\ worst \in Nat /\ finalStatus \in Outcomes
      /\ results \in Seq([id : CaseIds, status : Outcomes, time : Nat])
      /\ testCases \in Seq([id : CaseIds, case : Contents])
      /\ index \in 0 .. Len(testCases)
      /\ \A i \in CaseIds : Exists(i) => cases[i] \in Contents
  BY DEF TypeOK, Exists
<1>4. Rest
  <2>1. CASE LoadCases
    <3>1. /\ Sorted \in Seq({i \in CaseIds : Exists(i)})
          /\ Len(Sorted) \in Nat /\ DOMAIN Sorted = 1 .. Len(Sorted)
      BY SortedCases
    <3>2. \A n \in 1 .. Len(Sorted) : Sorted[n] \in CaseIds /\ cases[Sorted[n]] \in Contents
      <4>1. \A n \in 1 .. Len(Sorted) : Sorted[n] \in {i \in CaseIds : Exists(i)}
        BY <3>1, ElementOfSeq
      <4> QED BY <1>0, <4>1
    <3>3. testCases' \in Seq([id : CaseIds, case : Contents])
      <4>1. testCases' = [n \in 1 .. Len(Sorted) |-> [id |-> Sorted[n], case |-> cases[Sorted[n]]]]
        BY <2>1, <3>1 DEF LoadCases
      <4>2. testCases' \in [1 .. Len(Sorted) -> [id : CaseIds, case : Contents]] BY <3>2, <4>1
      <4>3. Len(Sorted) \in Nat BY <3>1
      <4> QED BY <4>2, <4>3, FunctionIsSeq
    <3>4. pc' # "run" /\ index' = 0 /\ UNCHANGED <<time, results, worst, finalStatus>>
      BY <2>1 DEF LoadCases, Goto
    <3>5. Len(testCases') \in Nat BY <3>3
    <3>6. index' \in 0 .. Len(testCases') BY <3>4, <3>5
    <3> QED BY <1>0, <3>3, <3>4, <3>6
  <2>2. CASE DeleteResults
    <3>1. results' = <<>> /\ pc' # "run"
          /\ UNCHANGED <<time, worst, testCases, index, finalStatus>>
      BY <2>2 DEF DeleteResults, Goto
    <3>2. results' \in Seq([id : CaseIds, status : Outcomes, time : Nat]) BY <3>1
    <3> QED BY <1>0, <3>1, <3>2
  <2>3. CASE Compile
    <3>1. /\ worst' = 0 /\ finalStatus' \in Outcomes
          /\ UNCHANGED <<time, results, testCases, index>>
      BY <2>3 DEF Compile, Outcomes
    <3>2. index = 0 /\ testCases # <<>> BY <2>3 DEF Compile, StageInv
    <3>3. index < Len(testCases) BY <1>0, <3>2
    <3> QED BY <1>0, <3>1, <3>3
  <2>4. CASE RunCase
    <3>1. pc = "run" /\ UNCHANGED <<testCases, time>> BY <2>4 DEF RunCase
    <3>2. PICK s \in Outcomes, t \in Nat : Record(s, t) BY <2>4, RunOutcome
    <3>3. /\ index' \in 1 .. Len(testCases) /\ index' = index + 1
          /\ results' \in Seq([id : CaseIds, status : Outcomes, time : Nat])
          /\ worst' \in Nat /\ finalStatus' \in Outcomes
          /\ (pc' = "run" <=> (s = "Accepted" /\ index + 1 < Len(testCases)))
      BY <3>1, <3>2, RecordTypes
    <3>4. index' \in 0 .. Len(testCases') /\ (pc' = "run" => index' < Len(testCases'))
      BY <3>1, <3>3
    <3> QED BY <1>0, <3>1, <3>3, <3>4
  <2>5. CASE KilledByShutdown
    <3>0. UNCHANGED <<testCases, time>> BY <2>5 DEF KilledByShutdown
    <3>1. CASE pc = "run"
      <4>1. Record("Runtime Error", 0) /\ "Runtime Error" \in Outcomes /\ 0 \in Nat
        BY <2>5, <3>1 DEF KilledByShutdown, Outcomes
      <4>2. /\ index' \in 1 .. Len(testCases) /\ index' = index + 1
            /\ results' \in Seq([id : CaseIds, status : Outcomes, time : Nat])
            /\ worst' \in Nat /\ finalStatus' \in Outcomes
            /\ (pc' = "run" <=> ("Runtime Error" = "Accepted" /\ index + 1 < Len(testCases)))
        BY ONLY TypeOK, <3>1, <4>1, RecordTypes
      <4>3. index' \in 0 .. Len(testCases') /\ (pc' = "run" => index' < Len(testCases'))
        BY <3>0, <4>2
      <4> QED BY <1>0, <3>0, <4>2, <4>3
    <3>2. CASE pc = "compile"
      <4>1. pc' = "done" /\ UNCHANGED <<results, index, worst, finalStatus>>
        BY <2>5, <3>2 DEF KilledByShutdown, CompileError, Goto
      <4> QED BY <1>0, <3>0, <4>1
    <3> QED BY <2>5, <3>1, <3>2 DEF KilledByShutdown
  <2>6. CASE LoadSubmission \/ MarkJudging \/ WriteVerdict \/ CommandFails \/ DatabaseFails \/ Retry
    <3>1. /\ time' \in {time, worst} /\ pc' # "run"
          /\ UNCHANGED <<results, testCases, index, worst, finalStatus>>
      BY <2>6 DEF LoadSubmission, MarkJudging, WriteVerdict, CommandFails, DatabaseFails, Retry,
                 Goto, rowVars
    <3> QED BY <1>0, <3>1
  <2> QED BY <2>1, <2>2, <2>3, <2>4, <2>5, <2>6
<1>5. StageInv'
  <2>1. CASE LoadCases
    <3>1. Sorted \in Seq({i \in CaseIds : Exists(i)}) /\ DOMAIN Sorted = 1 .. Len(Sorted)
      BY SortedCases
    <3>2. DOMAIN testCases' = DOMAIN Sorted /\ index' = 0 BY <2>1 DEF LoadCases
    <3>3. pc' = "judging" => Sorted # <<>> BY <2>1 DEF LoadCases, Goto
    <3>4. pc' \in {"judging", "done"} BY <2>1 DEF LoadCases, Goto
    <3>5. testCases' = <<>> => DOMAIN Sorted = {} BY <3>2
    <3>6. DOMAIN Sorted = {} => Sorted = <<>> BY <3>1, EmptySeq
    <3> QED BY <3>2, <3>3, <3>4, <3>5, <3>6 DEF StageInv
  <2>2. CASE RunCase \/ KilledByShutdown
    BY <2>2 DEF RunCase, KilledByShutdown, Record, CompileError, Goto, StageInv
  <2>3. CASE LoadSubmission \/ MarkJudging \/ DeleteResults \/ Compile \/ WriteVerdict
             \/ CommandFails \/ DatabaseFails \/ Retry
    BY <2>3 DEF LoadSubmission, MarkJudging, DeleteResults, Compile, WriteVerdict,
               CommandFails, DatabaseFails, Retry, CompileError, Goto, StageInv
  <2> QED BY <2>1, <2>2, <2>3
<1> HIDE DEF Rest
<1> QED BY <1>1, <1>2, <1>3, <1>4, <1>5 DEF TypeOK, problemVars, Rest

-----------------------------------------------------------------------------
(* Rows and verdict.                                                       *)

\* The rows are those of the first test cases; worst is their longest time.
RowsTold ==
    /\ Len(results) = index
    /\ \A n \in 1 .. index : results[n].id = testCases[n].id /\ results[n].time <= worst
    /\ \A n \in 1 .. index - 1 : results[n].status = "Accepted"
    /\ index = 0 => worst = 0
    /\ index > 0 => \E n \in 1 .. index : results[n].time = worst

\* The verdict v is that of the last row.
VerdictTold(v) ==
    /\ RowsTold /\ index >= 1 /\ v = results[index].status
    /\ v = "Accepted" => index = Len(testCases)

StoryInv ==
    /\ pc = "compile" => results = <<>>
    /\ pc = "run" => /\ RowsTold /\ finalStatus = "Accepted"
                     /\ \A n \in 1 .. index : results[n].status = "Accepted"
    /\ pc = "final" => VerdictTold(finalStatus)
    /\ pc # "done" => status \in {"Pending", "Judging"}
    /\ pc = "done" /\ status = "Compile Error" => results = <<>>
    /\ pc = "done" /\ status \in Outcomes => VerdictTold(status) /\ time = worst

\* What recording a result does to the story.
LEMMA RecordTells ==
    ASSUME TypeOK, TypeOK', pc = "run", RowsTold, finalStatus = "Accepted",
           \A n \in 1 .. index : results[n].status = "Accepted",
           NEW s \in Outcomes, NEW t \in Nat, Record(s, t), UNCHANGED testCases
    PROVE  /\ RowsTold' /\ pc' \in {"run", "final"}
           /\ pc' = "run" => /\ finalStatus' = "Accepted"
                             /\ \A n \in 1 .. index' : results'[n].status = "Accepted"
           /\ pc' = "final" => VerdictTold(finalStatus)'
<1> DEFINE row == [id |-> testCases[index + 1].id, status |-> s, time |-> t]
           Row == [id : CaseIds, status : Outcomes, time : Nat]
<1>1. /\ index' = index + 1 /\ index' \in 1 .. Len(testCases) /\ results' = Append(results, row)
      /\ pc' \in {"run", "final"} /\ (pc' = "run" <=> (s = "Accepted" /\ index + 1 < Len(testCases)))
  BY RecordTypes
<1>2. /\ index \in Nat /\ Len(testCases) \in Nat /\ index < Len(testCases)
      /\ results \in Seq(Row) /\ worst \in Nat /\ worst' \in Nat
  <2>1. /\ testCases \in Seq([id : CaseIds, case : Contents]) /\ index \in 0 .. Len(testCases)
        /\ index < Len(testCases) /\ results \in Seq(Row) /\ worst \in Nat
    BY DEF TypeOK
  <2>2. worst' \in Nat BY DEF TypeOK
  <2> QED BY <2>1, <2>2
<1>3. Len(results) = index BY DEF RowsTold
<1>4. worst' = (IF t > worst THEN t ELSE worst)
      /\ finalStatus' = IF s = "Accepted" THEN finalStatus ELSE s
  BY DEF Record
<1>5. row.id = testCases[index + 1].id /\ row.status = s /\ row.time = t OBVIOUS
<1> HIDE DEF row
<1>6. /\ Len(results') = index + 1 /\ results'[index + 1] = row
      /\ \A n \in 1 .. index : results'[n] = results[n]
  BY <1>1, <1>2, <1>3, AppendProperties
<1>7. \A n \in 1 .. index : results[n].time \in Nat
  <2>1. \A n \in 1 .. index : results[n] \in Row BY <1>2, <1>3, ElementOfSeq
  <2> QED BY <2>1
<1>8. \A n \in 1 .. index + 1 : n \in 1 .. index \/ n = index + 1 BY <1>2
<1>9. RowsTold'
  <2>1. ASSUME NEW n \in 1 .. index + 1
        PROVE  results'[n].id = testCases'[n].id /\ results'[n].time <= worst'
    <3>1. CASE n \in 1 .. index
      <4>1. results[n].id = testCases[n].id /\ results[n].time <= worst BY <3>1 DEF RowsTold
      <4>2. worst <= worst' BY <1>2, <1>4
      <4> QED BY <1>2, <1>6, <1>7, <3>1, <4>1, <4>2
    <3>2. CASE n = index + 1 BY <1>2, <1>4, <1>5, <1>6, <3>2
    <3> QED BY <1>8, <3>1, <3>2
  <2>2. \A n \in 1 .. index' - 1 : results'[n].status = "Accepted"
    <3>1. index' - 1 = index BY <1>1, <1>2
    <3> QED BY <1>6, <3>1
  <2>3. \E n \in 1 .. index + 1 : results'[n].time = worst'
    <3>1. CASE worst' = t
      <4>1. index + 1 \in 1 .. index + 1 BY <1>2
      <4> QED BY <1>5, <1>6, <3>1, <4>1
    <3>2. CASE worst' # t
      <4>1. worst' = worst /\ worst > 0 BY <1>2, <1>4, <3>2
      <4>2. index > 0 BY <1>2, <4>1 DEF RowsTold
      <4>3. PICK n \in 1 .. index : results[n].time = worst BY <4>2 DEF RowsTold
      <4>4. n \in 1 .. index + 1 BY <1>2
      <4> QED BY <1>6, <4>1, <4>3, <4>4
    <3> QED BY <3>1, <3>2
  <2>4. Len(results') = index' /\ index' # 0 BY <1>1, <1>2, <1>6
  <2> QED BY <1>1, <2>1, <2>2, <2>3, <2>4 DEF RowsTold
<1>10. s = "Accepted" => \A n \in 1 .. index' : results'[n].status = "Accepted"
  BY <1>1, <1>5, <1>6, <1>8
<1>11. pc' = "final" => VerdictTold(finalStatus)'
  <2>1. finalStatus' = s BY <1>4
  <2>2. results'[index'].status = s /\ index' >= 1 BY <1>1, <1>2, <1>5, <1>6
  <2>3. pc' = "final" /\ s = "Accepted" => index' = Len(testCases') BY <1>1, <1>2
  <2> QED BY <1>9, <2>1, <2>2, <2>3 DEF VerdictTold
<1> QED BY <1>1, <1>4, <1>9, <1>10, <1>11

LEMMA RunTells ==
    ASSUME TypeOK, TypeOK', StageInv, StoryInv,
           \/ LoadSubmission \/ LoadCases \/ MarkJudging \/ DeleteResults
           \/ Compile \/ RunCase \/ WriteVerdict
           \/ KilledByShutdown \/ CommandFails \/ DatabaseFails \/ Retry
    PROVE  StoryInv'
<1>1. CASE LoadSubmission \/ LoadCases \/ MarkJudging \/ DeleteResults \/ CommandFails
           \/ DatabaseFails \/ Retry
  <2>1. pc' \notin {"run", "final"} /\ pc # "done"
    BY <1>1 DEF LoadSubmission, LoadCases, MarkJudging, DeleteResults, CommandFails, DatabaseFails,
                Retry, Goto
  <2>2. pc' = "done" => status' = "System Error"
    BY <1>1 DEF LoadSubmission, LoadCases, MarkJudging, DeleteResults, CommandFails, DatabaseFails,
                Retry, Goto
  <2>3. pc' # "done" => status' \in {"Pending", "Judging"}
    BY <1>1, <2>1 DEF LoadSubmission, LoadCases, MarkJudging, DeleteResults, CommandFails,
                DatabaseFails, Retry, Goto, StoryInv, rowVars
  <2>4. pc' = "compile" => results' = <<>>
    BY <1>1 DEF LoadSubmission, LoadCases, MarkJudging, DeleteResults, CommandFails, DatabaseFails,
                Retry, Goto
  <2> QED BY <2>1, <2>2, <2>3, <2>4 DEF StoryInv, Outcomes
<1>2. CASE Compile
  <2>1. index = 0 /\ results = <<>> /\ status \in {"Pending", "Judging"}
    BY <1>2 DEF Compile, StageInv, StoryInv
  <2>2. UNCHANGED <<results, index, testCases>> /\ worst' = 0 /\ finalStatus' = "Accepted"
    BY <1>2 DEF Compile
  <2>3. \/ pc' = "run" /\ status' = status
        \/ pc' = "done" /\ status' = "Compile Error"
    BY <1>2 DEF Compile, CompileError, Goto
  <2>4. RowsTold' BY <2>1, <2>2 DEF RowsTold
  <2>5. \A n \in 1 .. index' : results'[n].status = "Accepted" BY <2>1, <2>2
  <2> QED BY <2>1, <2>2, <2>3, <2>4, <2>5 DEF StoryInv, Outcomes
<1>3. CASE RunCase
  <2>1. PICK s \in Outcomes, t \in Nat : Record(s, t) BY <1>3, RunOutcome
  <2>2. pc = "run" /\ UNCHANGED <<status, testCases>> BY <1>3 DEF RunCase
  <2>3. /\ RowsTold' /\ pc' \in {"run", "final"}
        /\ pc' = "run" => /\ finalStatus' = "Accepted"
                          /\ \A n \in 1 .. index' : results'[n].status = "Accepted"
        /\ pc' = "final" => VerdictTold(finalStatus)'
    BY <2>1, <2>2, RecordTells DEF StoryInv
  <2> QED BY <2>2, <2>3 DEF StoryInv
<1>4. CASE WriteVerdict
  <2>1. VerdictTold(finalStatus) BY <1>4 DEF WriteVerdict, StoryInv
  <2>2. /\ UNCHANGED <<results, index, worst, testCases>> /\ pc' = "done"
        /\ status' = finalStatus /\ time' = worst
    BY <1>4 DEF WriteVerdict, Goto
  <2>3. VerdictTold(status)' BY <2>1, <2>2 DEF VerdictTold, RowsTold
  <2>4. finalStatus \in Outcomes BY DEF TypeOK
  <2>5. finalStatus # "Compile Error" BY <2>4 DEF Outcomes
  <2> QED BY <2>2, <2>3, <2>5 DEF StoryInv
<1>5. CASE KilledByShutdown
  <2>1. CASE pc = "compile"
    <3>1. results = <<>> BY <2>1 DEF StoryInv
    <3>2. pc' = "done" /\ status' = "Compile Error" /\ results' = results
      BY <1>5, <2>1 DEF KilledByShutdown, CompileError, Goto
    <3> QED BY <3>1, <3>2 DEF StoryInv, Outcomes
  <2>2. CASE pc = "run"
    <3>1. Record("Runtime Error", 0) /\ UNCHANGED <<status, testCases>>
      BY <1>5, <2>2 DEF KilledByShutdown
    <3>2. PICK s \in Outcomes, t \in Nat : Record(s, t) BY <3>1 DEF Outcomes
    <3>3. /\ RowsTold' /\ pc' \in {"run", "final"}
          /\ pc' = "run" => /\ finalStatus' = "Accepted"
                            /\ \A n \in 1 .. index' : results'[n].status = "Accepted"
          /\ pc' = "final" => VerdictTold(finalStatus)'
      BY <2>2, <3>1, <3>2, RecordTells DEF StoryInv
    <3> QED BY <2>2, <3>1, <3>3 DEF StoryInv
  <2> QED BY <1>5, <2>1, <2>2 DEF KilledByShutdown
<1> QED BY <1>1, <1>2, <1>3, <1>4, <1>5

-----------------------------------------------------------------------------
(* Rows and verdict are what the programs deserve.                         *)

\* The n-th row has the outcome of the program on the n-th test case.
Deserved(n) ==
    results[n].status = CaseStatus(program.run[testCases[n].case.input], runLimit,
                                   testCases[n].case.expected)

JudgedInv ==
    ~killed =>
        /\ pc \in {"run", "final"} \/ (pc = "done" /\ status \in Outcomes) =>
               program.compiles /\ \A n \in 1 .. Len(results) : Deserved(n)
        /\ pc = "done" /\ status = "Compile Error" => ~program.compiles

SelfInv ==
    selfTest # None /\ selfTest.answer \in Outcomes =>
        /\ program.compiles
        /\ selfTest.answer = SelfTestStatus(program.run[selfTest.input], selfTest.limit,
                                            selfTest.expected)

LEMMA RunJudges ==
    ASSUME TypeOK, TypeOK', StageInv, StoryInv, JudgedInv,
           \/ LoadSubmission \/ LoadCases \/ MarkJudging \/ DeleteResults
           \/ Compile \/ RunCase \/ WriteVerdict
           \/ KilledByShutdown \/ CommandFails \/ DatabaseFails \/ Retry
    PROVE  JudgedInv'
<1>1. CASE LoadSubmission \/ LoadCases \/ MarkJudging \/ DeleteResults \/ CommandFails
           \/ DatabaseFails \/ Retry
  <2>1. pc' \notin {"run", "final"} /\ (pc' = "done" => status' = "System Error")
    BY <1>1 DEF LoadSubmission, LoadCases, MarkJudging, DeleteResults, CommandFails, DatabaseFails,
                Retry, Goto
  <2> QED BY <2>1 DEF JudgedInv, Outcomes
<1>2. CASE Compile
  <2>1. Len(results) = 0 BY <1>2 DEF Compile, StoryInv
  <2>2. UNCHANGED <<results, program>>
    BY <1>2 DEF Compile
  <2>3. \/ pc' = "run" /\ program.compiles
        \/ pc' = "done" /\ status' = "Compile Error" /\ ~program.compiles
    BY <1>2 DEF Compile, CompileError, Goto
  <2>4. \A n \in 1 .. Len(results') : Deserved(n)' BY <2>1, <2>2
  <2> QED BY <2>2, <2>3, <2>4 DEF JudgedInv, Outcomes
<1>3. CASE RunCase
  <2> DEFINE next == testCases[index + 1].case
             run == program.run[next.input]
  <2>1. PICK t \in Nat : Record(CaseStatus(run, runLimit, next.expected), t)
    BY <1>3, RunOutcomeIsCases
  <2>2. pc = "run" /\ UNCHANGED <<program, testCases, runLimit, killed>> BY <1>3 DEF RunCase
  <2>3. Len(results) = index BY <2>2 DEF StoryInv, RowsTold
  <2>4. /\ results' = Append(results, [id |-> testCases[index + 1].id, time |-> t,
                                       status |-> CaseStatus(run, runLimit, next.expected)])
        /\ pc' # "done"
    BY <2>1, <2>2, OutcomeOfCase, RecordTypes
  <2>5. results \in Seq([id : CaseIds, status : Outcomes, time : Nat]) /\ index \in Nat
    <3>1. /\ results \in Seq([id : CaseIds, status : Outcomes, time : Nat])
          /\ index \in 0 .. Len(testCases)
      BY DEF TypeOK
    <3> QED BY <3>1
  <2>6. /\ Len(results') = index + 1
        /\ results'[index + 1].status = CaseStatus(run, runLimit, next.expected)
        /\ \A n \in 1 .. index : results'[n] = results[n]
    BY <2>3, <2>4, <2>5, AppendProperties
  <2>7. ASSUME ~killed, NEW n \in 1 .. index + 1 PROVE Deserved(n)'
    <3>1. CASE n \in 1 .. index
      <4>1. Deserved(n) BY <2>2, <2>3, <2>7, <3>1 DEF JudgedInv
      <4> QED BY <2>2, <2>6, <3>1, <4>1 DEF Deserved
    <3>2. CASE n = index + 1 BY <2>2, <2>6, <3>2 DEF Deserved
    <3> QED BY <2>5, <3>1, <3>2
  <2>8. ~killed => program.compiles BY <2>2 DEF JudgedInv
  <2> QED BY <2>2, <2>4, <2>6, <2>7, <2>8 DEF JudgedInv
<1>4. CASE WriteVerdict
  <2>1. /\ pc = "final" /\ pc' = "done" /\ status' = finalStatus
        /\ UNCHANGED <<program, results, testCases, runLimit, killed>>
    BY <1>4 DEF WriteVerdict, Goto
  <2>2. finalStatus \in Outcomes BY DEF TypeOK
  <2>3. finalStatus # "Compile Error" BY <2>2 DEF Outcomes
  <2> QED BY <2>1, <2>3 DEF JudgedInv, Deserved
<1>5. CASE KilledByShutdown BY <1>5 DEF KilledByShutdown, JudgedInv
<1> QED BY <1>1, <1>2, <1>3, <1>4, <1>5

LEMMA SelfTestsJudge ==
    ASSUME TypeOK, SelfInv,
           \/ \E t \in SelfTests : RequestSelfTest(t)
           \/ RunSelfTest \/ SelfTestFails,
           UNCHANGED program
    PROVE  SelfInv'
<1>1. CASE \E t \in SelfTests : RequestSelfTest(t)
  BY <1>1 DEF RequestSelfTest, SelfInv, Outcomes
<1>2. CASE SelfTestFails
  <2>1. selfTest' = [selfTest EXCEPT !.answer = "System Error"] /\ selfTest # None
    BY <1>2 DEF SelfTestFails
  <2>2. selfTest'.answer = "System Error" BY <2>1 DEF TypeOK
  <2> QED BY <2>2 DEF SelfInv, Outcomes
<1>3. CASE RunSelfTest
  <2> DEFINE a == IF ~program.compiles THEN "Compile Error"
                  ELSE SelfTestStatus(program.run[selfTest.input], selfTest.limit,
                                      selfTest.expected)
  <2>1. selfTest' = [selfTest EXCEPT !.answer = a] /\ selfTest # None BY <1>3 DEF RunSelfTest
  <2>2. /\ selfTest'.answer = a /\ selfTest'.input = selfTest.input
        /\ selfTest'.limit = selfTest.limit /\ selfTest'.expected = selfTest.expected
    <3> HIDE DEF a
    <3> QED BY <2>1 DEF TypeOK
  <2>3. a \in Outcomes => program.compiles BY DEF Outcomes
  <2> QED BY <2>2, <2>3 DEF SelfInv
<1> QED BY <1>1, <1>2, <1>3

-----------------------------------------------------------------------------
(* The theorems.                                                           *)

RunnerInv == TypeOK /\ StageInv /\ StoryInv /\ JudgedInv /\ SelfInv

LEMMA RunnerInitially == ASSUME Init PROVE RunnerInv
<1>1. TypeOK BY InitTypes
<1>2. StageInv /\ StoryInv /\ JudgedInv /\ SelfInv
  BY DEF Init, StageInv, StoryInv, JudgedInv, SelfInv
<1> QED BY <1>1, <1>2 DEF RunnerInv

LEMMA NothingHappens == ASSUME RunnerInv, UNCHANGED vars PROVE RunnerInv'
<1>1. /\ limit' = limit /\ cases' = cases /\ program' = program /\ status' = status
      /\ time' = time /\ results' = results /\ pc' = pc /\ runLimit' = runLimit
      /\ testCases' = testCases /\ index' = index /\ worst' = worst
      /\ finalStatus' = finalStatus /\ killed' = killed /\ selfTest' = selfTest
      /\ edits' = edits /\ faults' = faults
  BY DEF vars, problemVars, rowVars, runVars
<1>2. TypeOK'
  <2>1. (limit \in Limits \cup {0})' /\ (cases \in [CaseIds -> Contents \cup {None, Deleted}])'
        /\ (program \in Programs)' /\ (time \in Nat /\ worst \in Nat)'
    BY <1>1, Zenon DEF RunnerInv, TypeOK
  <2>2. /\ (status \in Outcomes \cup {"Pending", "Judging", "Compile Error", "System Error"})'
        /\ (results \in Seq([id : CaseIds, status : Outcomes, time : Nat]))'
    BY <1>1, Zenon DEF RunnerInv, TypeOK
  <2>3. /\ (pc \in {"load", "cases", "judging", "clear", "compile", "run", "final", "failed", "done"})'
        /\ (runLimit \in Limits \cup {0})'
    BY <1>1, Zenon DEF RunnerInv, TypeOK
  <2>4. /\ (testCases \in Seq([id : CaseIds, case : Contents]))'
        /\ (index \in 0 .. Len(testCases) /\ (pc = "run" => index < Len(testCases)))'
    BY <1>1, Zenon DEF RunnerInv, TypeOK
  <2>5. /\ (finalStatus \in Outcomes /\ killed \in BOOLEAN)'
        /\ (edits \in 0 .. MaxEdits /\ faults \in 0 .. MaxFaults)'
    BY <1>1, Zenon DEF RunnerInv, TypeOK
  <2>6. (selfTest \in {None} \cup
            [input : Inputs, expected : Seq(Characters), limit : Limits,
             answer : Outcomes \cup {"none", "Compile Error", "System Error"}])'
    BY <1>1, Zenon DEF RunnerInv, TypeOK
  <2> QED BY <2>1, <2>2, <2>3, <2>4, <2>5, <2>6 DEF TypeOK
<1>3. StageInv' BY <1>1 DEF RunnerInv, StageInv
<1>4. StoryInv' BY <1>1 DEF RunnerInv, StoryInv, VerdictTold, RowsTold
<1>5. JudgedInv' /\ SelfInv' BY <1>1 DEF RunnerInv, JudgedInv, SelfInv, Deserved
<1> QED BY <1>2, <1>3, <1>4, <1>5 DEF RunnerInv

LEMMA RunnerKeeps == ASSUME RunnerInv, [Next]_vars PROVE RunnerInv'
<1> USE DEF RunnerInv
<1>1. CASE \/ LoadSubmission \/ LoadCases \/ MarkJudging \/ DeleteResults
           \/ Compile \/ RunCase \/ WriteVerdict
           \/ KilledByShutdown \/ CommandFails \/ DatabaseFails \/ Retry
  <2>1. TypeOK' /\ StageInv' /\ UNCHANGED <<program, selfTest>> BY <1>1, RunTypes
  <2>2. StoryInv' BY <1>1, <2>1, RunTells
  <2>3. JudgedInv' BY <1>1, <2>1, RunJudges
  <2>4. SelfInv' BY <2>1 DEF SelfInv
  <2> QED BY <2>1, <2>2, <2>3, <2>4
<1> DEFINE ByTester == \/ \E t \in SelfTests : RequestSelfTest(t)
                       \/ RunSelfTest \/ SelfTestFails
           ByAdmin == \/ \E i \in CaseIds : \/ DeleteTestCase(i)
                                            \/ \E c \in Contents : \/ CreateTestCase(i, c)
                                                                   \/ UpdateTestCase(i, c)
                      \/ \E l \in Limits :
                            \/ ChangeLimit(l)
                            \/ \E ids \in SUBSET CaseIds : \E file \in [ids -> Importable] :
                                  ImportProblem(file, l)
                      \/ DeleteProblem
<1>2. CASE ByTester \/ ByAdmin
  <2>1. TypeOK' /\ UNCHANGED <<program, rowVars, runVars>> BY <1>2, OtherTypes
  <2>2. StageInv' /\ StoryInv' /\ JudgedInv'
    BY <2>1 DEF rowVars, runVars, StageInv, StoryInv, JudgedInv, VerdictTold, RowsTold, Deserved
  <2>3. SelfInv'
    <3>1. CASE ByTester BY <2>1, <3>1, SelfTestsJudge
    <3>2. CASE ByAdmin
      <4>1. UNCHANGED selfTest
        BY <3>2 DEF DeleteTestCase, CreateTestCase, UpdateTestCase, ChangeLimit, ImportProblem,
                    DeleteProblem
      <4> QED BY <2>1, <4>1 DEF SelfInv
    <3> QED BY <1>2, <3>1, <3>2
  <2> QED BY <2>1, <2>2, <2>3
<1>3. CASE UNCHANGED vars BY <1>3, NothingHappens
<1> QED BY <1>1, <1>2, <1>3 DEF Next

LEMMA RunnerAlways == Spec => []RunnerInv
<1>1. Init => RunnerInv BY RunnerInitially
<1>2. RunnerInv /\ [Next]_vars => RunnerInv' BY RunnerKeeps
<1> QED BY <1>1, <1>2, PTL DEF Spec

LEMMA StoryIsTold == ASSUME RunnerInv PROVE RowsTellTheVerdict
<1>1. TypeOK /\ StoryInv BY DEF RunnerInv
<1>2. ASSUME pc = "done", status \in Outcomes
      PROVE  LET last == Len(results)
             IN  /\ last \in 1 .. Len(testCases)
                 /\ \A n \in 1 .. last : results[n].id = testCases[n].id
                 /\ \A n \in 1 .. last - 1 : results[n].status = "Accepted"
                 /\ results[last].status = status
                 /\ status = "Accepted" => last = Len(testCases)
                 /\ \A n \in 1 .. last : results[n].time <= time
                 /\ \E n \in 1 .. last : results[n].time = time
  <2>1. VerdictTold(status) /\ time = worst BY <1>1, <1>2 DEF StoryInv
  <2>2. index \in 0 .. Len(testCases) /\ Len(testCases) \in Nat
    <3>1. testCases \in Seq([id : CaseIds, case : Contents]) /\ index \in 0 .. Len(testCases)
      BY <1>1 DEF TypeOK
    <3> QED BY <3>1
  <2>3. index \in 1 .. Len(testCases) BY <2>1, <2>2 DEF VerdictTold
  <2>4. index > 0 BY <2>2, <2>3
  <2> QED BY <2>1, <2>3, <2>4 DEF VerdictTold, RowsTold
<1>3. pc = "done" /\ status = "Compile Error" => results = <<>> BY <1>1 DEF StoryInv
<1> QED BY <1>1, <1>2, <1>3 DEF RowsTellTheVerdict

\* The rows of a judged submission are the first test cases of one list in
\* order, all but the last Accepted, and status and time are those of the rows:
\* for any number of test cases, attempts, edits and failures.
THEOREM RowsAndVerdict == Spec => []RowsTellTheVerdict
<1>1. RunnerInv => RowsTellTheVerdict BY StoryIsTold
<1> QED BY <1>1, RunnerAlways, PTL

LEMMA BothJudge ==
    ASSUME NEW run, NEW l, NEW e, TrimSpace(e) # <<>>
    PROVE  CaseStatus(run, l, e) = SelfTestStatus(run, l, e)
<1>1. CASE ~Fits(run, l) BY <1>1 DEF CaseStatus, SelfTestStatus
<1>2. CASE Fits(run, l) /\ run.exit = 137 BY <1>2 DEF CaseStatus, SelfTestStatus
<1>3. CASE Fits(run, l) /\ run.exit \notin {0, 137} BY <1>3 DEF CaseStatus, SelfTestStatus
<1>4. CASE Fits(run, l) /\ run.exit = 0 BY <1>4 DEF CaseStatus, SelfTestStatus
<1> QED BY <1>1, <1>2, <1>3, <1>4

LEMMA SelfTestsAgree == ASSUME RunnerInv PROVE SelfTestAgrees
<1> SUFFICES ASSUME pc = "done", ~killed, selfTest # None, selfTest.answer \in Outcomes
             PROVE  /\ status # "Compile Error"
                    /\ status \in Outcomes /\ TrimSpace(selfTest.expected) # <<>> =>
                          \A n \in DOMAIN results :
                              (/\ testCases[n].case.input = selfTest.input
                               /\ testCases[n].case.expected = selfTest.expected
                               /\ runLimit = selfTest.limit) => results[n].status = selfTest.answer
  BY DEF SelfTestAgrees
<1>1. /\ program.compiles
      /\ selfTest.answer = SelfTestStatus(program.run[selfTest.input], selfTest.limit,
                                          selfTest.expected)
  BY DEF RunnerInv, SelfInv
<1>2. status # "Compile Error" BY <1>1 DEF RunnerInv, JudgedInv
<1>3. ASSUME status \in Outcomes, TrimSpace(selfTest.expected) # <<>>, NEW n \in DOMAIN results,
             testCases[n].case.input = selfTest.input,
             testCases[n].case.expected = selfTest.expected, runLimit = selfTest.limit
      PROVE  results[n].status = selfTest.answer
  <2>1. results \in Seq([id : CaseIds, status : Outcomes, time : Nat]) BY DEF RunnerInv, TypeOK
  <2>2. n \in 1 .. Len(results) BY <2>1
  <2>3. Deserved(n) BY <1>3, <2>2 DEF RunnerInv, JudgedInv
  <2>4. CaseStatus(program.run[selfTest.input], selfTest.limit, selfTest.expected)
            = SelfTestStatus(program.run[selfTest.input], selfTest.limit, selfTest.expected)
    BY <1>3, BothJudge
  <2> QED BY <1>1, <1>3, <2>3, <2>4 DEF Deserved
<1> QED BY <1>2, <1>3

\* What a self test says of an input and an expected output that is not blank
\* is what the judge says of the test case with the two, under the same limit.
THEOREM SelfTestsTell == Spec => []SelfTestAgrees
<1>1. RunnerInv => SelfTestAgrees BY SelfTestsAgree
<1> QED BY <1>1, RunnerAlways, PTL

\* Only a run that ends well in time and says the right thing is Accepted.
LEMMA OnlyGoodRuns ==
    ASSUME NEW run, NEW l, NEW e,
           normalizeOutput[run.output] = normalizeOutput[e] <=> SameText(run.output, e)
    PROVE  CaseStatus(run, l, e) = "Accepted" <=> Passes(run, l, e)
<1>0. Passes(run, l, e) <=> Fits(run, l) /\ run.exit = 0 /\ SameText(run.output, e)
  BY DEF Passes, Fits
<1>1. CASE ~Fits(run, l)
  <2>1. CaseStatus(run, l, e) = "Time Limit Exceeded" BY <1>1 DEF CaseStatus
  <2> QED BY <1>0, <1>1, <2>1
<1>2. CASE Fits(run, l) /\ run.exit = 137
  <2>1. CaseStatus(run, l, e) = "Memory Limit Exceeded" BY <1>2 DEF CaseStatus
  <2>2. ~(run.exit = 0) BY <1>2
  <2>3. ~Passes(run, l, e) BY <1>0, <2>2
  <2> QED BY <2>1, <2>3
<1>3. CASE Fits(run, l) /\ run.exit \notin {0, 137}
  <2>1. CaseStatus(run, l, e) = "Runtime Error" BY <1>3 DEF CaseStatus
  <2> QED BY <1>0, <1>3, <2>1
<1>4. CASE Fits(run, l) /\ run.exit = 0
  <2>1. CaseStatus(run, l, e) = IF normalizeOutput[run.output] = normalizeOutput[e]
                                THEN "Accepted" ELSE "Wrong Answer"
    BY <1>4 DEF CaseStatus
  <2> QED BY <1>0, <1>4, <2>1
<1> QED BY <1>1, <1>2, <1>3, <1>4

\* The verdict on a test case and what the test case asks.
LEMMA AcceptedIsPassed ==
    ASSUME TypeOK, NEW n \in 1 .. Len(testCases)
    PROVE  LET case == testCases[n].case
               run == program.run[case.input]
           IN  CaseStatus(run, runLimit, case.expected) = "Accepted"
                   <=> Passes(run, runLimit, case.expected)
<1> DEFINE case == testCases[n].case
           run == program.run[case.input]
<1>1. testCases \in Seq([id : CaseIds, case : Contents]) /\ program \in Programs BY DEF TypeOK
<1>2. case \in Contents
  <2>1. testCases[n] \in [id : CaseIds, case : Contents] BY <1>1, ElementOfSeq
  <2> QED BY <2>1
<1>3. case.input \in Inputs BY <1>2, RunnerAssumption
<1>4. case.expected \in Texts /\ run.output \in Texts BY <1>1, <1>2, <1>3 DEF Texts
<1> HIDE DEF case, run
<1>5. normalizeOutput[run.output] = normalizeOutput[case.expected]
          <=> SameText(run.output, case.expected)
  BY <1>4, NormalFormsTell
<1>10. CaseStatus(run, runLimit, case.expected) = "Accepted"
          <=> Passes(run, runLimit, case.expected)
  BY <1>5, OnlyGoodRuns
<1> QED BY <1>10 DEF case, run

LEMMA AcceptedFits == ASSUME RunnerInv PROVE AcceptedIffAllPass
<1> DEFINE Passed(n) == LET case == testCases[n].case
                        IN  Passes(program.run[case.input], runLimit, case.expected)
<1> SUFFICES ASSUME pc = "done", ~killed, status \in Outcomes \cup {"Compile Error"}
             PROVE  status = "Accepted" <=>
                        program.compiles /\ \A n \in DOMAIN testCases : Passed(n)
  BY DEF AcceptedIffAllPass
<1>1. TypeOK /\ RowsTellTheVerdict BY StoryIsTold DEF RunnerInv
<1>2. CASE status = "Compile Error"
  <2>1. ~program.compiles BY <1>2 DEF RunnerInv, JudgedInv
  <2> QED BY <1>2, <2>1
<1>3. CASE status \in Outcomes
  <2> DEFINE last == Len(results)
  <2>1. program.compiles /\ \A n \in 1 .. last : Deserved(n)
    BY <1>3 DEF RunnerInv, JudgedInv
  <2>2. /\ last \in 1 .. Len(testCases)
        /\ \A n \in 1 .. last - 1 : results[n].status = "Accepted"
        /\ results[last].status = status
        /\ status = "Accepted" => last = Len(testCases)
    BY <1>1, <1>3 DEF RowsTellTheVerdict
  <2>3. DOMAIN testCases = 1 .. Len(testCases) /\ Len(testCases) \in Nat
    <3>1. testCases \in Seq([id : CaseIds, case : Contents]) BY <1>1 DEF TypeOK
    <3>2. DOMAIN testCases = 1 .. Len(testCases) BY ONLY <3>1
    <3>3. Len(testCases) \in Nat BY ONLY <3>1
    <3> QED BY <3>2, <3>3
  <2> HIDE DEF last, Passed
  <2>7. last \in Nat /\ last >= 1 /\ last <= Len(testCases)
    <3>1. last \in 1 .. Len(testCases) BY <2>2
    <3> QED BY ONLY <2>3, <3>1
  <2>4. ASSUME NEW n \in 1 .. last PROVE results[n].status = "Accepted" <=> Passed(n)
    <3>1. n \in 1 .. Len(testCases) BY ONLY n \in 1 .. last, <2>3, <2>7
    <3>2. CaseStatus(program.run[testCases[n].case.input], runLimit, testCases[n].case.expected)
              = "Accepted" <=> Passed(n)
      BY <1>1, <3>1, AcceptedIsPassed DEF Passed
    <3> QED BY <2>1, <3>1, <3>2 DEF Deserved
  <2>5. ASSUME status = "Accepted", NEW n \in DOMAIN testCases PROVE Passed(n)
    <3>1. n \in 1 .. last /\ (n = last \/ n \in 1 .. last - 1) BY <2>2, <2>3, <2>5, <2>7
    <3>2. results[n].status = "Accepted" BY <2>2, <2>5, <3>1
    <3> QED BY <2>4, <3>1, <3>2
  <2>6. ASSUME \A n \in DOMAIN testCases : Passed(n) PROVE status = "Accepted"
    <3>1. last \in 1 .. last BY ONLY <2>7
    <3>2. Passed(last) BY <2>2, <2>3, <2>6
    <3> QED BY <2>2, <2>4, <3>1, <3>2
  <2> QED BY <2>1, <2>5, <2>6
<1> QED BY <1>2, <1>3

\* A program is Accepted exactly when it compiles and passes every test case it
\* was judged by: the three passes of normalizeOutput leave of every text the
\* one representative of those that look the same.
THEOREM AcceptedMeansPassed == Spec => []AcceptedIffAllPass
<1>1. RunnerInv => AcceptedIffAllPass BY AcceptedFits
<1> QED BY <1>1, RunnerAlways, PTL
====
