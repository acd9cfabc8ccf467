---- MODULE StandingsProofs ----
(***************************************************************************)
(* Proofs about Standings for any number of users, problems, submissions,  *)
(* edits and rejudges: every answer follows the rules of the ranking, and  *)
(* none takes back what an earlier one showed as solved.                   *)
(*                                                                         *)
(* The submissions a query takes are arranged in their order, so what was  *)
(* added before one of them is what comes before it; the rows after a set  *)
(* of submissions are those that RowOf states of that set, and each step   *)
(* of the loop adds one submission to the set (NextRows).  After the last  *)
(* one the set is all that was taken (RowsAre), and the rows are ranked by *)
(* what they contain (Ranked).                                             *)
(***************************************************************************)
EXTENDS Standings, FiniteSetTheorems, SequenceTheorems, TLAPS

-----------------------------------------------------------------------------
(* Arranging a finite set.                                                 *)

\* A function on 1 .. n is a sequence of length n.
LEMMA FunctionIsSeq ==
    ASSUME NEW n \in Nat, NEW S, NEW f \in [1 .. n -> S]
    PROVE  f \in Seq(S) /\ Len(f) = n /\ DOMAIN f = 1 .. n
BY SeqDef

Orders(before, S) ==
    /\ \A x \in S : <<x, x>> \notin before
    /\ \A x, y \in S : x # y => <<x, y>> \in before \/ <<y, x>> \in before
    /\ \A x, y, z \in S : <<x, y>> \in before /\ <<y, z>> \in before => <<x, z>> \in before

IsArranged(s, S, before) ==
    /\ s \in [1 .. Cardinality(S) -> S]
    /\ \A x \in S : \E i \in 1 .. Cardinality(S) : s[i] = x
    /\ \A i, j \in 1 .. Cardinality(S) : i < j => <<s[i], s[j]>> \in before

\* An element has its place: one more than there are elements before it.
Place(x, S, before) == 1 + Cardinality({y \in S : <<y, x>> \in before})

\* Places go up to the size of the set, in the order.
LEMMA PlaceGrows ==
    ASSUME NEW S, IsFiniteSet(S), NEW before, Orders(before, S), NEW x \in S
    PROVE  /\ Place(x, S, before) \in 1 .. Cardinality(S)
           /\ \A y \in S : <<x, y>> \in before => Place(x, S, before) < Place(y, S, before)
<1> DEFINE P(y) == {z \in S : <<z, y>> \in before}
<1>1. \A y \in S : IsFiniteSet(P(y)) /\ Cardinality(P(y)) \in Nat
  BY FS_Subset, FS_CardinalityType
<1>2. Cardinality(S) \in Nat BY FS_CardinalityType
<1>3. Cardinality(P(x)) < Cardinality(S)
  <2>1. P(x) \in SUBSET S /\ P(x) # S BY DEF Orders
  <2>2. Cardinality(P(x)) <= Cardinality(S) /\ Cardinality(P(x)) # Cardinality(S)
    BY <2>1, FS_Subset
  <2> HIDE DEF P
  <2> QED BY <1>1, <1>2, <2>2
<1>4. ASSUME NEW y \in S, <<x, y>> \in before PROVE Cardinality(P(x)) < Cardinality(P(y))
  <2>1. P(x) \in SUBSET P(y) /\ P(x) # P(y) BY <1>4 DEF Orders
  <2>2. IsFiniteSet(P(y)) BY <1>1
  <2> HIDE DEF P
  <2>3. Cardinality(P(x)) <= Cardinality(P(y)) /\ Cardinality(P(x)) # Cardinality(P(y))
    BY <2>1, <2>2, FS_Subset
  <2> QED BY <1>1, <2>3
<1>5. \A y : Place(y, S, before) = 1 + Cardinality(P(y)) BY DEF Place
<1> HIDE DEF P
<1> QED BY <1>1, <1>2, <1>3, <1>4, <1>5

\* A finite set that is ordered has an arrangement.
LEMMA Arranged ==
    ASSUME NEW S, IsFiniteSet(S), NEW before, Orders(before, S)
    PROVE  Cardinality(S) \in Nat /\ IsArranged(Arrange(S, before), S, before)
<1> DEFINE k == Cardinality(S)
           f == [x \in S |-> Place(x, S, before)]
           s == [i \in 1 .. k |-> CHOOSE x \in S : f[x] = i]
<1>1. k \in Nat /\ IsFiniteSet(1 .. k) /\ Cardinality(1 .. k) = k
  <2>1. k \in Nat BY FS_CardinalityType
  <2> HIDE DEF k
  <2>2. 1 \in Int /\ k \in Int /\ (1 > k => k = 0) BY <2>1
  <2> QED BY <2>1, <2>2, FS_Interval
<1>2. f \in [S -> 1 .. k] BY PlaceGrows
<1>3. \A x, y \in S : <<x, y>> \in before => f[x] < f[y] BY PlaceGrows
<1> HIDE DEF f
<1>4. \A x, y \in S : f[x] \in Nat /\ (f[x] = f[y] => x = y)
  <2> SUFFICES ASSUME NEW x \in S, NEW y \in S PROVE f[x] \in Nat /\ (f[x] = f[y] => x = y)
    OBVIOUS
  <2>1. f[x] \in 1 .. k /\ f[y] \in 1 .. k BY <1>2
  <2>2. f[x] \in Nat /\ f[y] \in Nat BY <1>1, <2>1
  <2>3. x # y => f[x] < f[y] \/ f[y] < f[x] BY <1>3 DEF Orders
  <2> QED BY <2>2, <2>3
<1>5. f \in Surjection(S, 1 .. k)
  <2>1. f \in Injection(S, 1 .. k) BY <1>2, <1>4 DEF Injection, IsInjective
  <2>2. IsFiniteSet(1 .. k) /\ Cardinality(S) = Cardinality(1 .. k) BY <1>1
  <2> HIDE DEF k
  <2> QED BY <2>1, <2>2, FS_Injection
<1>6. \A i \in 1 .. k : \E x \in S : f[x] = i BY <1>5 DEF Surjection
<1>7. \A i \in 1 .. k : s[i] \in S /\ f[s[i]] = i BY <1>6
<1>8. s \in [1 .. k -> S] BY <1>7
<1>9. \A x \in S : \E i \in 1 .. k : s[i] = x
  <2> SUFFICES ASSUME NEW x \in S PROVE s[f[x]] = x BY <1>2
  <2> HIDE DEF s
  <2> QED BY <1>2, <1>4, <1>7
<1>10. ASSUME NEW i \in 1 .. k, NEW j \in 1 .. k, i < j PROVE <<s[i], s[j]>> \in before
  <2> HIDE DEF s
  <2>1. s[i] \in S /\ s[j] \in S /\ f[s[i]] = i /\ f[s[j]] = j BY <1>7
  <2>2. i \in Nat /\ j \in Nat BY <1>1
  <2>3. s[i] # s[j] BY <1>10, <2>1, <2>2
  <2>4. ~(<<s[j], s[i]>> \in before) BY <1>3, <1>10, <2>1, <2>2
  <2> QED BY <2>1, <2>3, <2>4 DEF Orders
<1> HIDE DEF s
<1>11. \E t \in [1 .. Cardinality(S) -> S] :
          /\ \A x \in S : \E i \in DOMAIN t : t[i] = x
          /\ \A i, j \in DOMAIN t : i < j => <<t[i], t[j]>> \in before
  BY <1>8, <1>9, <1>10
<1> DEFINE c == Arrange(S, before)
<1>12. /\ c \in [1 .. Cardinality(S) -> S]
       /\ \A x \in S : \E i \in DOMAIN c : c[i] = x
       /\ \A i, j \in DOMAIN c : i < j => <<c[i], c[j]>> \in before
  BY <1>11 DEF Arrange
<1> HIDE DEF c
<1>13. IsArranged(c, S, before) BY <1>12 DEF IsArranged
<1> QED BY <1>1, <1>13 DEF c

\* Among natural numbers there is a least one.
LEMMA LeastNat ==
    ASSUME NEW T \in SUBSET Nat, T # {} PROVE \E x \in T : \A y \in T : x <= y
<1>1. \E x \in T : \A y \in T : ~(<<y, x>> \in OpToRel(<, Nat))
  BY NatLessThanWellFounded, WFMin
<1>2. ASSUME NEW y \in Nat, NEW x \in Nat PROVE <<y, x>> \in OpToRel(<, Nat) <=> y < x
  BY DEF OpToRel
<1>3. PICK x \in T : \A y \in T : ~(<<y, x>> \in OpToRel(<, Nat)) BY <1>1
<1>4. \A y \in T : x <= y
  <2> SUFFICES ASSUME NEW y \in T PROVE x <= y OBVIOUS
  <2>1. ~(y < x) /\ x \in Nat /\ y \in Nat BY <1>2, <1>3
  <2> QED BY <2>1
<1> QED BY <1>4

\* In an arrangement every element stands at its place.
LEMMA ArrangedPlace ==
    ASSUME NEW S, IsFiniteSet(S), NEW before, Orders(before, S), NEW x \in S
    PROVE  /\ Place(x, S, before) \in 1 .. Cardinality(S)
           /\ Arrange(S, before)[Place(x, S, before)] = x
<1> DEFINE s == Arrange(S, before)
           P == {y \in S : <<y, x>> \in before}
<1>1. Cardinality(S) \in Nat /\ IsArranged(s, S, before) BY Arranged
<1> DEFINE k == Cardinality(S)
<1> HIDE DEF s
<1>2. PICK i \in 1 .. k : s[i] = x BY <1>1 DEF IsArranged
<1>3. /\ s \in [1 .. k -> S]
      /\ \A a \in S : \E b \in 1 .. k : s[b] = a
      /\ \A a, b \in 1 .. k : a < b => <<s[a], s[b]>> \in before
  BY <1>1 DEF IsArranged
<1>4. /\ \A a \in S : <<a, a>> \notin before
      /\ \A a, b \in S : <<a, b>> \in before => <<b, a>> \notin before
  BY DEF Orders
<1> HIDE DEF k
<1>5. k \in Nat BY <1>1 DEF k
<1> DEFINE g == [j \in 1 .. i - 1 |-> s[j]]
<1>6. i \in Nat /\ i - 1 \in Nat /\ 1 .. i - 1 \subseteq 1 .. k BY <1>2, <1>5
<1>7. g \in [1 .. i - 1 -> P]
  <2> SUFFICES ASSUME NEW j \in 1 .. i - 1 PROVE s[j] \in P OBVIOUS
  <2>1. j \in 1 .. k /\ j < i BY <1>6
  <2> QED BY <1>2, <1>3, <2>1
<1>8. \A a, b \in 1 .. k : s[a] = s[b] => a = b
  <2> SUFFICES ASSUME NEW a \in 1 .. k, NEW b \in 1 .. k, a < b PROVE s[a] # s[b]
    BY <1>5
  <2> QED BY <1>3, <1>4
<1>9. \A y \in P : \E j \in 1 .. i - 1 : g[j] = y
  <2> SUFFICES ASSUME NEW y \in P PROVE \E j \in 1 .. i - 1 : s[j] = y OBVIOUS
  <2>1. PICK j \in 1 .. k : s[j] = y BY <1>3
  <2>2. ~(i < j) /\ i # j BY <1>2, <1>3, <1>4, <2>1
  <2>3. j \in 1 .. i - 1 BY <1>2, <1>5, <1>6, <2>2
  <2> QED BY <2>1, <2>3
<1>10. g \in Bijection(1 .. i - 1, P)
  BY <1>6, <1>7, <1>8, <1>9 DEF Bijection, Injection, Surjection, IsInjective
<1>11. ExistsBijection(1 .. i - 1, P) BY <1>10 DEF ExistsBijection
<1> HIDE DEF P
<1>12. Cardinality(P) = i - 1 BY <1>6, <1>11, FS_CountingElements
<1>13. Place(x, S, before) = 1 + Cardinality(P) BY DEF Place, P
<1> QED BY <1>2, <1>6, <1>12, <1>13 DEF s, k

-----------------------------------------------------------------------------
(* The loop over the submissions.                                          *)

IsLoop(v, list, k, f) ==
    f = [n \in 0 .. k |-> IF n = 0 THEN NewRows(v)
                          ELSE AddTo(v, f[n - 1], v.submissions[list[n]])]

\* What the first k steps of the loop leave, step by step.
LEMMA LoopIs ==
    ASSUME NEW v, NEW list, NEW k \in Nat, NEW f, IsLoop(v, list, k, f)
    PROVE  /\ f[0] = NewRows(v)
           /\ \A n \in 1 .. k : f[n] = AddTo(v, f[n - 1], v.submissions[list[n]])
<1>1. 0 \in 0 .. k /\ \A n \in 1 .. k : n \in 0 .. k /\ n # 0 OBVIOUS
<1>2. \A n \in 0 .. k : f[n] = IF n = 0 THEN NewRows(v)
                               ELSE AddTo(v, f[n - 1], v.submissions[list[n]])
  BY DEF IsLoop
<1> QED BY <1>1, <1>2

\* A loop of k steps can take one more.
LEMMA LoopGoesOn ==
    ASSUME NEW v, NEW list, NEW k \in Nat, NEW f, IsLoop(v, list, k, f)
    PROVE  \E g : IsLoop(v, list, k + 1, g)
<1> DEFINE g == [n \in 0 .. k + 1 |-> IF n <= k THEN f[n]
                                      ELSE AddTo(v, f[n - 1], v.submissions[list[n]])]
           h == [n \in 0 .. k + 1 |-> IF n = 0 THEN NewRows(v)
                                      ELSE AddTo(v, g[n - 1], v.submissions[list[n]])]
<1>0. /\ f[0] = NewRows(v)
      /\ \A m \in 1 .. k : f[m] = AddTo(v, f[m - 1], v.submissions[list[m]])
  BY LoopIs
<1>1. ASSUME NEW n \in 0 .. k + 1 PROVE g[n] = h[n]
  <2>1. n \in Nat /\ 0 \in 0 .. k /\ (n # 0 => n - 1 \in 0 .. k + 1 /\ n - 1 <= k) OBVIOUS
  <2>2. CASE n = 0
    <3>1. g[n] = f[0] BY <2>2
    <3> QED BY <1>0, <2>2, <3>1
  <2>3. CASE n # 0
    <3>1. g[n - 1] = f[n - 1] BY <2>1, <2>3
    <3>2. h[n] = AddTo(v, f[n - 1], v.submissions[list[n]]) BY <2>3, <3>1
    <3>3. CASE n <= k
      <4>1. n \in 1 .. k BY <2>1, <2>3, <3>3
      <4>2. f[n] = AddTo(v, f[n - 1], v.submissions[list[n]]) BY ONLY <1>0, <4>1
      <4> QED BY <3>2, <3>3, <4>2
    <3>4. CASE ~(n <= k) BY <3>2, <3>4
    <3> QED BY <3>3, <3>4
  <2> QED BY <2>2, <2>3
<1>2. g = h BY <1>1
<1> HIDE DEF g
<1>3. IsLoop(v, list, k + 1, g) BY <1>2 DEF IsLoop
<1> QED BY <1>3

\* The recursive definition of the loop defines a function.
LEMMA LoopExists == ASSUME NEW v, NEW list, NEW k \in Nat PROVE \E f : IsLoop(v, list, k, f)
<1> DEFINE T == {n \in Nat : ~ \E f : IsLoop(v, list, n, f)}
<1>1. SUFFICES ASSUME T # {} PROVE FALSE OBVIOUS
<1>2. PICK n \in T : \A m \in T : n <= m BY <1>1, LeastNat
<1>3. n # 0
  <2> DEFINE f == [m \in {0} |-> NewRows(v)]
  <2>1. 0 .. 0 = {0} OBVIOUS
  <2>2. f = [m \in 0 .. 0 |-> IF m = 0 THEN NewRows(v)
                              ELSE AddTo(v, f[m - 1], v.submissions[list[m]])]
    BY <2>1
  <2> HIDE DEF f
  <2>3. IsLoop(v, list, 0, f) BY <2>2 DEF IsLoop
  <2> QED BY <2>3
<1>4. n \in Nat /\ n - 1 \in Nat /\ n - 1 \notin T /\ (n - 1) + 1 = n BY <1>2, <1>3
<1>5. PICK f : IsLoop(v, list, n - 1, f) BY <1>4
<1>6. \E g : IsLoop(v, list, (n - 1) + 1, g) BY ONLY <1>4, <1>5, LoopGoesOn
<1>7. \E g : IsLoop(v, list, n, g) BY <1>4, <1>6
<1> QED BY <1>2, <1>7

\* The rows of the standings are those after the last step.
LEMMA RowsAreLast ==
    ASSUME NEW v, Len(Counted(v)) \in Nat
    PROVE  \E f : IsLoop(v, Counted(v), Len(Counted(v)), f) /\ Rows(v) = f[Len(Counted(v))]
<1> DEFINE f == CHOOSE g : IsLoop(v, Counted(v), Len(Counted(v)), g)
<1>1. IsLoop(v, Counted(v), Len(Counted(v)), f) BY LoopExists
<1>2. Rows(v) = f[Len(Counted(v))] BY DEF Rows, IsLoop
<1> QED BY <1>1, <1>2

-----------------------------------------------------------------------------
(* The submissions in their order.                                         *)

\* Submissions of a snapshot, whenever it was taken.
Entries == [user : Users, problem : Problems, created : Nat, status : Statuses]

IsSnapshot(v) ==
    /\ v.contest.start \in Nat /\ v.contest.end \in Nat
    /\ v.joined \in [Users -> Nat \cup {None}]
    /\ v.submissions \in Seq(Entries)

\* Types of the submissions of a snapshot.
LEMMA SubmissionIs ==
    ASSUME NEW v, IsSnapshot(v)
    PROVE  /\ Len(v.submissions) \in Nat /\ DOMAIN v.submissions = 1 .. Len(v.submissions)
           /\ \A n \in DOMAIN v.submissions :
                /\ v.submissions[n] \in Entries /\ n \in Nat
                /\ v.submissions[n].user \in Users /\ v.submissions[n].created \in Nat
<1>1. v.submissions \in Seq(Entries) BY DEF IsSnapshot
<1>2. Len(v.submissions) \in Nat /\ DOMAIN v.submissions = 1 .. Len(v.submissions)
  BY <1>1, LenProperties
<1>3. ASSUME NEW n \in DOMAIN v.submissions PROVE v.submissions[n] \in Entries /\ n \in Nat
  BY <1>1, <1>2, ElementOfSeq
<1>4. \A s \in Entries : s.user \in Users /\ s.created \in Nat BY DEF Entries
<1> QED BY <1>2, <1>3, <1>4

\* The order of the query is total.
LEMMA BeforeOrders ==
    ASSUME NEW v, IsSnapshot(v), NEW D \in SUBSET DOMAIN v.submissions
    PROVE  /\ \A m \in D : ~Before(v, m, m)
           /\ \A m, n \in D : m # n => Before(v, m, n) \/ Before(v, n, m)
           /\ \A k, m, n \in D : Before(v, k, m) /\ Before(v, m, n) => Before(v, k, n)
<1>1. \A m \in D : m \in Nat /\ v.submissions[m].created \in Nat BY SubmissionIs
<1> QED BY <1>1 DEF Before

\* The list the query returns holds every submission it takes, in order.
LEMMA CountedIs ==
    ASSUME NEW v, IsSnapshot(v)
    PROVE  /\ Len(Counted(v)) \in Nat
           /\ Counted(v) \in [1 .. Len(Counted(v)) -> Taken(v)]
           /\ \A n \in Taken(v) : \E i \in 1 .. Len(Counted(v)) : Counted(v)[i] = n
           /\ \A i, j \in 1 .. Len(Counted(v)) :
                 i < j => Before(v, Counted(v)[i], Counted(v)[j])
<1> DEFINE S == Taken(v)
           R == {x \in S \X S : Before(v, x[1], x[2])}
           list == Counted(v)
<1>1. S \in SUBSET DOMAIN v.submissions BY DEF Taken
<1>2. IsFiniteSet(S)
  <2>1. 1 \in Int /\ Len(v.submissions) \in Int BY SubmissionIs
  <2>2. IsFiniteSet(1 .. Len(v.submissions)) BY <2>1, FS_Interval
  <2>3. IsFiniteSet(DOMAIN v.submissions) BY <2>2, SubmissionIs
  <2> HIDE DEF S
  <2> QED BY <1>1, <2>3, FS_Subset
<1>3. list = Arrange(S, R) BY DEF Counted
<1>4. \A m, n \in S : <<m, n>> \in R <=> Before(v, m, n) OBVIOUS
<1> HIDE DEF S, R, list
<1>5. Orders(R, S) BY <1>1, <1>4, BeforeOrders DEF Orders
<1>6. Cardinality(S) \in Nat /\ IsArranged(list, S, R) BY <1>2, <1>3, <1>5, Arranged
<1> DEFINE k == Cardinality(S)
<1>7. /\ k \in Nat /\ list \in [1 .. k -> S]
      /\ \A n \in S : \E i \in 1 .. k : list[i] = n
      /\ \A i, j \in 1 .. k : i < j => <<list[i], list[j]>> \in R
  BY <1>6 DEF IsArranged
<1> HIDE DEF k
<1>8. Len(list) = k BY <1>7, FunctionIsSeq
<1>9. \A i, j \in 1 .. k : i < j => Before(v, list[i], list[j]) BY <1>4, <1>7
<1> QED BY <1>7, <1>8, <1>9 DEF list, S

\* The submissions among the first k.
Seen(v, k) == {Counted(v)[i] : i \in 1 .. k}

\* Each place of the list adds the submission that comes after those seen.
LEMMA SeenGrows ==
    ASSUME NEW v, IsSnapshot(v)
    PROVE  /\ Seen(v, 0) = {} /\ Seen(v, Len(Counted(v))) = Taken(v)
           /\ \A k \in 1 .. Len(Counted(v)) :
                /\ Counted(v)[k] \in Taken(v)
                /\ Seen(v, k) = Seen(v, k - 1) \cup {Counted(v)[k]}
                /\ Seen(v, k - 1) = {m \in Taken(v) : Before(v, m, Counted(v)[k])}
<1> DEFINE list == Counted(v)
           L == Len(list)
<1>1. /\ L \in Nat /\ list \in [1 .. L -> Taken(v)]
      /\ \A n \in Taken(v) : \E i \in 1 .. L : list[i] = n
      /\ \A i, j \in 1 .. L : i < j => Before(v, list[i], list[j])
  BY CountedIs
<1>2. \A k : Seen(v, k) = {list[i] : i \in 1 .. k} BY DEF Seen
<1>3. Taken(v) \in SUBSET DOMAIN v.submissions BY DEF Taken
<1> HIDE DEF list, L
<1>4. Seen(v, 0) = {}
  <2>1. 1 .. 0 = {} OBVIOUS
  <2> QED BY <1>2, <2>1
<1>5. Seen(v, L) = Taken(v)
  <2>1. \A i \in 1 .. L : list[i] \in Taken(v) BY <1>1
  <2>2. Seen(v, L) = {list[i] : i \in 1 .. L} BY <1>2
  <2> QED BY <1>1, <2>1, <2>2
<1>6. ASSUME NEW k \in 1 .. L
      PROVE  /\ list[k] \in Taken(v)
             /\ Seen(v, k) = Seen(v, k - 1) \cup {list[k]}
             /\ Seen(v, k - 1) = {m \in Taken(v) : Before(v, m, list[k])}
  <2>1. k \in Nat /\ 1 .. k = (1 .. k - 1) \cup {k} /\ 1 .. k - 1 \subseteq 1 .. L
        /\ \A i \in 1 .. k - 1 : i < k
    BY <1>1
  <2>2. list[k] \in Taken(v) BY <1>1
  <2>3. Seen(v, k) = Seen(v, k - 1) \cup {list[k]} BY <1>2, <2>1
  <2>4. Seen(v, k - 1) \subseteq {m \in Taken(v) : Before(v, m, list[k])} BY <1>1, <1>2, <2>1
  <2>5. ASSUME NEW m \in Taken(v), Before(v, m, list[k]) PROVE m \in Seen(v, k - 1)
    <3>1. PICK i \in 1 .. L : list[i] = m BY <1>1
    <3>2. ~(k < i) /\ k # i
      <4>1. ~Before(v, list[k], m) BY <1>3, <2>2, <2>5, BeforeOrders
      <4>2. m # list[k] BY <1>3, <2>2, <2>5, BeforeOrders
      <4> QED BY <1>1, <3>1, <4>1, <4>2
    <3>3. i \in 1 .. k - 1 BY <1>1, <3>2
    <3> QED BY <1>2, <3>1, <3>3
  <2> QED BY <2>2, <2>3, <2>4, <2>5
<1> QED BY <1>4, <1>5, <1>6 DEF list, L

-----------------------------------------------------------------------------
(* The rows that a set D of submissions gives.                             *)

MineIn(v, u, p, D) == Mine(v, u, p) \cap D
SolutionsIn(v, u, p, D) == Solutions(v, u, p) \cap D

SolvedIn(v, u, D) == {p \in v.problems : SolutionsIn(v, u, p, D) # {}}

UnitsOf(v, u, p) == {p} \X (1 .. Penalty(v, u, p))
UnitsIn(v, u, D) == UNION {UnitsOf(v, u, p) : p \in SolvedIn(v, u, D)}

\* What u sent for p before n.
Tried(v, u, p, n) == {m \in Mine(v, u, p) : Before(v, m, n)}

SolvedCell(v, u, p) ==
    [accepted |-> TRUE, penalty |-> Penalty(v, u, p),
     attempts |-> 1 + Cardinality(Tried(v, u, p, First(v, u, p)))]

CellOf(v, u, p, D) ==
    IF SolutionsIn(v, u, p, D) # {} THEN SolvedCell(v, u, p)
    ELSE [accepted |-> FALSE, penalty |-> 0, attempts |-> Cardinality(MineIn(v, u, p, D))]

CellsOf(v, u, D) == [p \in v.problems |-> CellOf(v, u, p, D)]

RowOf(v, u, D) ==
    [user |-> u, solved |-> Cardinality(SolvedIn(v, u, D)),
     total |-> Cardinality(UnitsIn(v, u, D)), cells |-> CellsOf(v, u, D)]

RowsOf(v, D) == [u \in Participants(v) |-> RowOf(v, u, D)]

AreFinite(v, D) ==
    \A u \in Participants(v) : IsFiniteSet(SolvedIn(v, u, D)) /\ IsFiniteSet(UnitsIn(v, u, D))

\* No submission gives the new rows.
LEMMA NothingSeen == ASSUME NEW v PROVE RowsOf(v, {}) = NewRows(v) /\ AreFinite(v, {})
<1>1. ASSUME NEW u PROVE SolvedIn(v, u, {}) = {} /\ UnitsIn(v, u, {}) = {}
  BY DEF SolvedIn, UnitsIn, SolutionsIn
<1>2. IsFiniteSet({}) /\ Cardinality({}) = 0 BY FS_EmptySet
<1>3. ASSUME NEW u, NEW p PROVE CellOf(v, u, p, {}) = NoCell
  <2>1. SolutionsIn(v, u, p, {}) = {} /\ MineIn(v, u, p, {}) = {} BY DEF SolutionsIn, MineIn
  <2> QED BY <1>2, <2>1 DEF CellOf, NoCell
<1>4. ASSUME NEW u
      PROVE  RowOf(v, u, {}) = [user |-> u, solved |-> 0, total |-> 0,
                                cells |-> [p \in v.problems |-> NoCell]]
  BY <1>1, <1>2, <1>3 DEF RowOf, CellsOf
<1> QED BY <1>1, <1>2, <1>4 DEF RowsOf, NewRows, AreFinite

\* The conditions under which a submission counts and solves.
LEMMA MineIs ==
    ASSUME NEW v, NEW u, NEW p, NEW n
    PROVE  /\ n \in Mine(v, u, p) <=>
                  /\ n \in DOMAIN v.submissions
                  /\ v.submissions[n].user = u /\ v.submissions[n].problem = p
                  /\ v.joined[u] <= v.submissions[n].created
                  /\ v.submissions[n].created >= v.contest.start
                  /\ v.submissions[n].created < v.contest.end
           /\ n \in Solutions(v, u, p) <=>
                  n \in Mine(v, u, p) /\ v.submissions[n].status = "Accepted"
BY DEF Mine, Solutions

\* What counts for a problem of the contest is among what the query takes.
LEMMA MineTaken ==
    ASSUME NEW v, IsSnapshot(v), NEW u, NEW p \in v.problems
    PROVE  Mine(v, u, p) \subseteq Taken(v) /\ Mine(v, u, p) \in SUBSET DOMAIN v.submissions
<1> SUFFICES ASSUME NEW m \in Mine(v, u, p) PROVE m \in Taken(v) /\ m \in DOMAIN v.submissions
  OBVIOUS
<1>1. /\ m \in DOMAIN v.submissions /\ v.submissions[m].problem = p
      /\ v.submissions[m].created >= v.contest.start
      /\ v.submissions[m].created < v.contest.end
  BY MineIs
<1>2. v.submissions[m].created \in Nat /\ v.contest.start \in Nat
  BY <1>1, SubmissionIs DEF IsSnapshot
<1> QED BY <1>1, <1>2 DEF Taken

\* A submission that does not count for a problem leaves its cell alone.
LEMMA CellStays ==
    ASSUME NEW v, NEW u, NEW p, NEW D, NEW n, NEW E, E = D \cup {n}, n \notin Mine(v, u, p)
    PROVE  /\ SolutionsIn(v, u, p, E) = SolutionsIn(v, u, p, D)
           /\ CellOf(v, u, p, E) = CellOf(v, u, p, D)
<1>1. n \notin Solutions(v, u, p) BY DEF Solutions
<1>2. /\ SolutionsIn(v, u, p, E) = SolutionsIn(v, u, p, D)
      /\ MineIn(v, u, p, E) = MineIn(v, u, p, D)
  BY <1>1 DEF MineIn, SolutionsIn
<1> QED BY <1>2 DEF CellOf

\* A submission that counts for no problem of u leaves the row alone.
LEMMA RowStays ==
    ASSUME NEW v, NEW u, NEW D, NEW n, NEW E, E = D \cup {n},
           \A p \in v.problems : n \notin Mine(v, u, p)
    PROVE  /\ RowOf(v, u, E) = RowOf(v, u, D)
           /\ SolvedIn(v, u, E) = SolvedIn(v, u, D)
           /\ UnitsIn(v, u, E) = UnitsIn(v, u, D)
<1>1. \A p \in v.problems : /\ SolutionsIn(v, u, p, E) = SolutionsIn(v, u, p, D)
                            /\ CellOf(v, u, p, E) = CellOf(v, u, p, D)
  <2> SUFFICES ASSUME NEW p \in v.problems
               PROVE  /\ SolutionsIn(v, u, p, E) = SolutionsIn(v, u, p, D)
                      /\ CellOf(v, u, p, E) = CellOf(v, u, p, D)
    OBVIOUS
  <2>1. n \notin Mine(v, u, p) OBVIOUS
  <2> QED BY <2>1, CellStays
<1>2. SolvedIn(v, u, E) = SolvedIn(v, u, D) /\ UnitsIn(v, u, E) = UnitsIn(v, u, D)
  BY <1>1 DEF SolvedIn, UnitsIn
<1>3. CellsOf(v, u, E) = CellsOf(v, u, D) BY <1>1 DEF CellsOf
<1>4. RowOf(v, u, E) = RowOf(v, u, D) BY <1>2, <1>3 DEF RowOf
<1> QED BY <1>2, <1>4

\* The first solution is the one that comes before the others.
LEMMA FirstIs ==
    ASSUME NEW v, IsSnapshot(v), NEW u, NEW p, NEW n \in Solutions(v, u, p),
           \A m \in Solutions(v, u, p) \ {n} : Before(v, n, m)
    PROVE  First(v, u, p) = n
<1>1. Solutions(v, u, p) \in SUBSET DOMAIN v.submissions BY DEF Solutions, Mine
<1>2. \A m \in Solutions(v, u, p) :
         (\A k \in Solutions(v, u, p) \ {m} : Before(v, m, k)) => m = n
  <2> SUFFICES ASSUME NEW m \in Solutions(v, u, p), m # n, Before(v, m, n) PROVE FALSE
    OBVIOUS
  <2>1. Before(v, n, m) OBVIOUS
  <2> QED BY <1>1, <2>1, BeforeOrders
<1> QED BY <1>2 DEF First

-----------------------------------------------------------------------------
(* One more submission.                                                    *)

\* What was seen before n, and n, which u sent for p while the contest ran.
IsNext(v, u, p, D, n) ==
    /\ IsSnapshot(v) /\ D = {m \in Taken(v) : Before(v, m, n)} /\ n \in Taken(v)
    /\ p \in v.problems /\ n \in Mine(v, u, p)

\* Then it is new, and what counts of those seen are the attempts before it.
LEMMA NextIsNew ==
    ASSUME NEW v, NEW u, NEW p, NEW D, NEW n, IsNext(v, u, p, D, n)
    PROVE  /\ n \notin D /\ IsFiniteSet(MineIn(v, u, p, D))
           /\ MineIn(v, u, p, D) = Tried(v, u, p, n)
           /\ Cardinality(MineIn(v, u, p, D \cup {n})) = Cardinality(MineIn(v, u, p, D)) + 1
<1>1. IsSnapshot(v) /\ n \in Mine(v, u, p) /\ p \in v.problems
      /\ D = {m \in Taken(v) : Before(v, m, n)}
  BY DEF IsNext
<1>2. Mine(v, u, p) \subseteq Taken(v) /\ Mine(v, u, p) \in SUBSET DOMAIN v.submissions
  BY <1>1, MineTaken
<1>3. n \notin D BY <1>1, <1>2, BeforeOrders
<1>4. MineIn(v, u, p, D) = Tried(v, u, p, n) BY <1>1, <1>2 DEF Tried, MineIn
<1>5. IsFiniteSet(MineIn(v, u, p, D))
  <2>1. 1 \in Int /\ Len(v.submissions) \in Int BY <1>1, SubmissionIs
  <2>2. IsFiniteSet(1 .. Len(v.submissions)) BY <2>1, FS_Interval
  <2>3. IsFiniteSet(DOMAIN v.submissions) BY <1>1, <2>2, SubmissionIs
  <2>4. MineIn(v, u, p, D) \in SUBSET DOMAIN v.submissions BY <1>2 DEF MineIn
  <2> QED BY ONLY <2>3, <2>4, FS_Subset
<1>6. MineIn(v, u, p, D \cup {n}) = MineIn(v, u, p, D) \cup {n} BY <1>1 DEF MineIn
<1>7. n \notin MineIn(v, u, p, D) BY <1>3 DEF MineIn
<1>8. Cardinality(MineIn(v, u, p, D) \cup {n}) = Cardinality(MineIn(v, u, p, D)) + 1
  BY ONLY <1>5, <1>7, FS_AddElement
<1> QED BY <1>3, <1>4, <1>5, <1>6, <1>8

\* The first accepted submission of a problem sets its cell.
LEMMA SolvesIt ==
    ASSUME NEW v, NEW u, NEW p, NEW D, NEW n, IsNext(v, u, p, D, n),
           SolutionsIn(v, u, p, D) = {}, v.submissions[n].status = "Accepted"
    PROVE  /\ First(v, u, p) = n
           /\ Penalty(v, u, p) = v.submissions[n].created - v.contest.start
           /\ Penalty(v, u, p) \in Nat
           /\ CellOf(v, u, p, D \cup {n}) =
                 [accepted |-> TRUE, penalty |-> v.submissions[n].created - v.contest.start,
                  attempts |-> 1 + Cardinality(MineIn(v, u, p, D))]
<1>1. /\ IsSnapshot(v) /\ n \in Mine(v, u, p) /\ p \in v.problems /\ n \in Taken(v)
      /\ D = {m \in Taken(v) : Before(v, m, n)}
  BY DEF IsNext
<1>0. /\ n \notin D /\ IsFiniteSet(MineIn(v, u, p, D))
      /\ MineIn(v, u, p, D) = Tried(v, u, p, n)
      /\ Cardinality(MineIn(v, u, p, D \cup {n})) = Cardinality(MineIn(v, u, p, D)) + 1
  BY NextIsNew
<1>2. n \in Solutions(v, u, p) BY <1>1, MineIs
<1>3. ASSUME NEW m \in Solutions(v, u, p) \ {n} PROVE Before(v, n, m)
  <2>1. m \in Mine(v, u, p) /\ m \notin D BY DEF Solutions, SolutionsIn
  <2>2. ~Before(v, m, n) BY <1>0, <2>1 DEF Tried, MineIn
  <2>3. n \in DOMAIN v.submissions /\ m \in DOMAIN v.submissions BY <1>1, <2>1 DEF Mine
  <2> QED BY <1>1, <2>2, <2>3, BeforeOrders
<1>4. First(v, u, p) = n BY <1>1, <1>2, <1>3, FirstIs
<1>5. Penalty(v, u, p) = v.submissions[n].created - v.contest.start BY <1>4 DEF Penalty
<1>6. Penalty(v, u, p) \in Nat
  <2>1. n \in DOMAIN v.submissions /\ v.submissions[n].created >= v.contest.start
    BY <1>1, MineIs
  <2>2. v.submissions[n].created \in Nat /\ v.contest.start \in Nat
    BY <1>1, <2>1, SubmissionIs DEF IsSnapshot
  <2> QED BY <1>5, <2>1, <2>2
<1>7. SolutionsIn(v, u, p, D \cup {n}) # {} BY <1>2 DEF SolutionsIn
<1>8. Tried(v, u, p, First(v, u, p)) = MineIn(v, u, p, D)
  BY <1>0, <1>4
<1>9. CellOf(v, u, p, D \cup {n}) = SolvedCell(v, u, p) BY <1>7 DEF CellOf
<1> QED BY <1>4, <1>5, <1>6, <1>8, <1>9 DEF SolvedCell

\* A problem more, and its penalty.
LEMMA SumGrows ==
    ASSUME NEW v, NEW u, NEW p, NEW D, NEW n, IsNext(v, u, p, D, n),
           SolutionsIn(v, u, p, D) = {}, v.submissions[n].status = "Accepted",
           IsFiniteSet(SolvedIn(v, u, D)), IsFiniteSet(UnitsIn(v, u, D))
    PROVE  /\ IsFiniteSet(SolvedIn(v, u, D \cup {n})) /\ IsFiniteSet(UnitsIn(v, u, D \cup {n}))
           /\ Cardinality(SolvedIn(v, u, D \cup {n})) = Cardinality(SolvedIn(v, u, D)) + 1
           /\ Cardinality(UnitsIn(v, u, D \cup {n})) =
                 Cardinality(UnitsIn(v, u, D)) + Penalty(v, u, p)
<1> DEFINE S == SolvedIn(v, u, D)
           U == UnitsIn(v, u, D)
           E == D \cup {n}
           N == UnitsOf(v, u, p)
           k == Penalty(v, u, p)
<1>1. n \in Mine(v, u, p) /\ p \in v.problems BY DEF IsNext
<1>2. SolvedIn(v, u, E) = S \cup {p}
  <2>1. ASSUME NEW q \in v.problems, q # p
        PROVE  SolutionsIn(v, u, q, E) = SolutionsIn(v, u, q, D)
    <3>1. n \notin Mine(v, u, q) BY <1>1, <2>1, MineIs
    <3> QED BY <3>1, CellStays
  <2>2. SolutionsIn(v, u, p, E) # {} BY <1>1, MineIs DEF SolutionsIn, E
  <2> HIDE DEF E
  <2> QED BY <1>1, <2>1, <2>2 DEF SolvedIn
<1>3. p \notin S BY DEF SolvedIn
<1>4. UnitsIn(v, u, E) = U \cup N
  <2> HIDE DEF E, N
  <2>1. UnitsIn(v, u, E) = UNION {UnitsOf(v, u, q) : q \in S \cup {p}} BY <1>2 DEF UnitsIn
  <2>2. U = UNION {UnitsOf(v, u, q) : q \in S} BY DEF UnitsIn
  <2> HIDE DEF S, U
  <2> QED BY <2>1, <2>2 DEF N
<1>5. U \cap N = {} BY <1>3 DEF UnitsIn, UnitsOf
<1>6. k \in Nat BY SolvesIt
<1>7. IsFiniteSet(N) /\ Cardinality(N) = k
  <2> HIDE DEF k
  <2>1. 1 \in Int /\ k \in Int BY <1>6
  <2>2. IsFiniteSet(1 .. k) /\ Cardinality(1 .. k) = IF 1 > k THEN 0 ELSE k - 1 + 1
    BY <2>1, FS_Interval
  <2>3. Cardinality(1 .. k) = k BY <1>6, <2>2
  <2>4. IsFiniteSet({p}) /\ Cardinality({p}) = 1 BY FS_Singleton
  <2> DEFINE I == 1 .. k
             O == {p}
  <2> HIDE DEF I, O
  <2>5. IsFiniteSet(I) /\ Cardinality(I) = k /\ IsFiniteSet(O) /\ Cardinality(O) = 1
    BY <2>2, <2>3, <2>4 DEF I, O
  <2>6. IsFiniteSet(O \X I) /\ Cardinality(O \X I) = Cardinality(O) * Cardinality(I)
    BY <2>5, FS_Product
  <2>7. IsFiniteSet(O \X I) /\ Cardinality(O \X I) = k BY <1>6, <2>5, <2>6
  <2> QED BY <2>7 DEF UnitsOf, k, I, O
<1> HIDE DEF S, U, E, N, k
<1>8. IsFiniteSet(S) /\ IsFiniteSet(U) BY DEF S, U
<1>9. IsFiniteSet(S \cup {p}) /\ Cardinality(S \cup {p}) = Cardinality(S) + 1
  BY <1>3, <1>8, FS_AddElement
<1>10. IsFiniteSet(U \cup N) /\ Cardinality(U \cup N) = Cardinality(U) + k
  <2>1. /\ IsFiniteSet(U \cup N)
        /\ Cardinality(U \cup N) = Cardinality(U) + Cardinality(N) - Cardinality(U \cap N)
    BY <1>7, <1>8, FS_Union
  <2>2. Cardinality(U \cap N) = 0 BY <1>5, FS_EmptySet
  <2>3. Cardinality(U) \in Nat BY <1>8, FS_CardinalityType
  <2> QED BY <1>6, <1>7, <2>1, <2>2, <2>3
<1> QED BY <1>2, <1>4, <1>9, <1>10 DEF S, U, E, k

\* What AddSubmission makes of a row: nothing more of a solved problem.
LEMMA SolvedRowStays ==
    ASSUME NEW v, NEW s, NEW row, row.cells[s.problem].accepted
    PROVE  AddSubmission(v, row, s) = row
BY DEF AddSubmission

\* An attempt more.
LEMMA TriedRow ==
    ASSUME NEW v, NEW s, NEW row, ~row.cells[s.problem].accepted, s.status # "Accepted"
    PROVE  AddSubmission(v, row, s) =
              [user |-> row.user, solved |-> row.solved, total |-> row.total + 0,
               cells |-> [row.cells EXCEPT ![s.problem] =
                            [attempts |-> row.cells[s.problem].attempts + 1,
                             accepted |-> FALSE, penalty |-> 0]]]
BY DEF AddSubmission

\* A problem solved.
LEMMA AcceptedRow ==
    ASSUME NEW v, NEW s, NEW row, ~row.cells[s.problem].accepted, s.status = "Accepted",
           NEW since \in Nat, since = s.created - v.contest.start
    PROVE  AddSubmission(v, row, s) =
              [user |-> row.user, solved |-> row.solved + 1, total |-> row.total + since,
               cells |-> [row.cells EXCEPT ![s.problem] =
                            [attempts |-> row.cells[s.problem].attempts + 1,
                             accepted |-> TRUE, penalty |-> since]]]
<1>1. (IF s.status = "Accepted" /\ since > 0 THEN since ELSE 0) = since OBVIOUS
<1> QED BY <1>1 DEF AddSubmission

\* AddSubmission leads from the row of D to that of D and n.
LEMMA NextRow ==
    ASSUME NEW v, NEW u, NEW p, NEW D, NEW n, NEW E, E = D \cup {n}, IsNext(v, u, p, D, n),
           IsFiniteSet(SolvedIn(v, u, D)), IsFiniteSet(UnitsIn(v, u, D))
    PROVE  /\ AddSubmission(v, RowOf(v, u, D), v.submissions[n]) = RowOf(v, u, E)
           /\ IsFiniteSet(SolvedIn(v, u, E)) /\ IsFiniteSet(UnitsIn(v, u, E))
<1> DEFINE s == v.submissions[n]
           row == RowOf(v, u, D)
           a == Cardinality(SolvedIn(v, u, D))
           b == Cardinality(UnitsIn(v, u, D))
           c == CellsOf(v, u, D)
           since == s.created - v.contest.start
           old == CellOf(v, u, p, D)
<1>1. /\ IsSnapshot(v) /\ n \in Mine(v, u, p) /\ p \in v.problems BY DEF IsNext
<1>2. s.problem = p /\ n \in DOMAIN v.submissions /\ s.created >= v.contest.start
  BY <1>1, MineIs
<1>3. since \in Nat /\ a \in Nat /\ b \in Nat
  <2>1. s.created \in Nat /\ v.contest.start \in Nat
    BY <1>1, <1>2, SubmissionIs DEF IsSnapshot
  <2>2. a \in Nat /\ b \in Nat BY FS_CardinalityType
  <2> QED BY <1>2, <2>1, <2>2
<1>4. row = [user |-> u, solved |-> a, total |-> b, cells |-> c] BY DEF RowOf
<1>5. c[p] = old BY <1>1 DEF CellsOf
<1>6. \A q \in v.problems : q # p =>
          /\ SolutionsIn(v, u, q, E) = SolutionsIn(v, u, q, D)
          /\ CellOf(v, u, q, E) = CellOf(v, u, q, D)
  <2> SUFFICES ASSUME NEW q \in v.problems, q # p
               PROVE  /\ SolutionsIn(v, u, q, E) = SolutionsIn(v, u, q, D)
                      /\ CellOf(v, u, q, E) = CellOf(v, u, q, D)
    OBVIOUS
  <2>1. n \notin Mine(v, u, q) BY <1>2, MineIs
  <2> QED BY <2>1, CellStays
<1>7. RowOf(v, u, E) = [user |-> u, solved |-> Cardinality(SolvedIn(v, u, E)),
                        total |-> Cardinality(UnitsIn(v, u, E)), cells |-> CellsOf(v, u, E)]
  BY DEF RowOf
<1>8. CellsOf(v, u, E) = [c EXCEPT ![p] = CellOf(v, u, p, E)]
  BY <1>1, <1>6 DEF CellsOf
<1>9. CASE SolutionsIn(v, u, p, D) # {}
  <2>1. old.accepted /\ old = SolvedCell(v, u, p) BY <1>9 DEF CellOf, SolvedCell
  <2>2. SolutionsIn(v, u, p, E) # {} BY <1>9 DEF SolutionsIn
  <2>3. CellOf(v, u, p, E) = old BY <2>1, <2>2 DEF CellOf
  <2>4. SolvedIn(v, u, E) = SolvedIn(v, u, D) /\ UnitsIn(v, u, E) = UnitsIn(v, u, D)
    BY <1>6, <1>9, <2>2 DEF SolvedIn, UnitsIn
  <2>5. CellsOf(v, u, E) = c BY <1>6, <1>5, <2>3 DEF CellsOf
  <2>6. RowOf(v, u, E) = row BY <2>4, <2>5 DEF RowOf
  <2> HIDE DEF s, row, a, b, c, old
  <2>7. row.cells[s.problem].accepted BY <1>2, <1>4, <1>5, <2>1
  <2>8. AddSubmission(v, row, s) = row BY <2>7, SolvedRowStays
  <2> QED BY <2>4, <2>6, <2>8 DEF s, row
<1>10. CASE SolutionsIn(v, u, p, D) = {} /\ s.status # "Accepted"
  <2>1. old = [accepted |-> FALSE, penalty |-> 0, attempts |-> Cardinality(MineIn(v, u, p, D))]
    BY <1>10 DEF CellOf
  <2>2. n \notin Solutions(v, u, p) BY <1>10 DEF Solutions
  <2>3. SolutionsIn(v, u, p, E) = {} BY <1>10, <2>2 DEF SolutionsIn
  <2>4. /\ n \notin D /\ IsFiniteSet(MineIn(v, u, p, D))
        /\ MineIn(v, u, p, D) = Tried(v, u, p, n)
        /\ Cardinality(MineIn(v, u, p, D \cup {n})) = Cardinality(MineIn(v, u, p, D)) + 1
    BY NextIsNew
  <2>5. CellOf(v, u, p, E) = [accepted |-> FALSE, penalty |-> 0, attempts |-> old.attempts + 1]
    <3>1. CellOf(v, u, p, E) = [accepted |-> FALSE, penalty |-> 0,
                                attempts |-> Cardinality(MineIn(v, u, p, E))]
      BY <2>3 DEF CellOf
    <3>2. Cardinality(MineIn(v, u, p, E)) = old.attempts + 1 BY <2>1, <2>4
    <3> QED BY <3>1, <3>2
  <2>6. SolvedIn(v, u, E) = SolvedIn(v, u, D) /\ UnitsIn(v, u, E) = UnitsIn(v, u, D)
    BY <1>6, <1>10, <2>3 DEF SolvedIn, UnitsIn
  <2>7. ~old.accepted BY <2>1
  <2> HIDE DEF s, row, a, b, c, old
  <2>9. AddSubmission(v, row, s) =
            [user |-> u, solved |-> a, total |-> b,
             cells |-> [c EXCEPT ![p] = [attempts |-> old.attempts + 1, accepted |-> FALSE,
                                         penalty |-> 0]]]
    <3>1. ~row.cells[s.problem].accepted BY <1>2, <1>4, <1>5, <2>7
    <3>2. AddSubmission(v, row, s) =
             [user |-> row.user, solved |-> row.solved, total |-> row.total + 0,
              cells |-> [row.cells EXCEPT ![s.problem] =
                            [attempts |-> row.cells[s.problem].attempts + 1,
                             accepted |-> FALSE, penalty |-> 0]]]
      BY <1>10, <3>1, TriedRow
    <3>3. row.total + 0 = b BY <1>3, <1>4
    <3> QED BY <1>2, <1>3, <1>4, <1>5, <3>2, <3>3
  <2>10. RowOf(v, u, E) = AddSubmission(v, row, s)
    BY <1>7, <1>8, <2>5, <2>6, <2>9 DEF a, b
  <2> QED BY <2>6, <2>10 DEF s, row
<1>11. CASE SolutionsIn(v, u, p, D) = {} /\ s.status = "Accepted"
  <2>1. old = [accepted |-> FALSE, penalty |-> 0, attempts |-> Cardinality(MineIn(v, u, p, D))]
    BY <1>11 DEF CellOf
  <2>2. /\ Penalty(v, u, p) = v.submissions[n].created - v.contest.start
        /\ CellOf(v, u, p, D \cup {n}) =
                 [accepted |-> TRUE, penalty |-> v.submissions[n].created - v.contest.start,
                  attempts |-> 1 + Cardinality(MineIn(v, u, p, D))]
    BY <1>11, SolvesIt
  <2>3. /\ IsFiniteSet(SolvedIn(v, u, D \cup {n})) /\ IsFiniteSet(UnitsIn(v, u, D \cup {n}))
        /\ Cardinality(SolvedIn(v, u, D \cup {n})) = Cardinality(SolvedIn(v, u, D)) + 1
        /\ Cardinality(UnitsIn(v, u, D \cup {n})) =
                 Cardinality(UnitsIn(v, u, D)) + Penalty(v, u, p)
    BY <1>11, SumGrows
  <2>4. /\ n \notin D /\ IsFiniteSet(MineIn(v, u, p, D))
        /\ MineIn(v, u, p, D) = Tried(v, u, p, n)
        /\ Cardinality(MineIn(v, u, p, D \cup {n})) = Cardinality(MineIn(v, u, p, D)) + 1
    BY NextIsNew
  <2>5. Cardinality(MineIn(v, u, p, D)) \in Nat BY <2>4, FS_CardinalityType
  <2>6. CellOf(v, u, p, E) = [accepted |-> TRUE, penalty |-> since,
                              attempts |-> old.attempts + 1]
    <3>1. 1 + Cardinality(MineIn(v, u, p, D)) = old.attempts + 1 BY <2>1, <2>5
    <3>2. CellOf(v, u, p, E) = CellOf(v, u, p, D \cup {n}) OBVIOUS
    <3> QED BY <2>2, <3>1, <3>2
  <2>7. ~old.accepted BY <2>1
  <2>9. Cardinality(SolvedIn(v, u, E)) = a + 1 /\ Cardinality(UnitsIn(v, u, E)) = b + since
    BY <2>2, <2>3
  <2> HIDE DEF s, row, a, b, c, old
  <2>10. AddSubmission(v, row, s) =
            [user |-> u, solved |-> a + 1, total |-> b + since,
             cells |-> [c EXCEPT ![p] = [attempts |-> old.attempts + 1, accepted |-> TRUE,
                                         penalty |-> since]]]
    <3>1. ~row.cells[s.problem].accepted BY <1>2, <1>4, <1>5, <2>7
    <3>2. AddSubmission(v, row, s) =
             [user |-> row.user, solved |-> row.solved + 1, total |-> row.total + since,
              cells |-> [row.cells EXCEPT ![s.problem] =
                            [attempts |-> row.cells[s.problem].attempts + 1,
                             accepted |-> TRUE, penalty |-> since]]]
      BY <1>3, <1>11, <3>1, AcceptedRow
    <3> QED BY <1>2, <1>3, <1>4, <1>5, <3>2
  <2>11. RowOf(v, u, E) = AddSubmission(v, row, s)
    BY <1>7, <1>8, <2>6, <2>9, <2>10
  <2> QED BY <2>3, <2>11 DEF s, row
<1> QED BY <1>9, <1>10, <1>11

\* One step of the loop adds one submission.
LEMMA NextRows ==
    ASSUME NEW v, IsSnapshot(v), NEW n \in Taken(v), NEW D, D = {m \in Taken(v) : Before(v, m, n)},
           NEW E, E = D \cup {n}, AreFinite(v, D)
    PROVE  AddTo(v, RowsOf(v, D), v.submissions[n]) = RowsOf(v, E) /\ AreFinite(v, E)
<1> DEFINE s == v.submissions[n]
           P == Participants(v)
           rows == RowsOf(v, D)
<1>1. /\ n \in DOMAIN v.submissions /\ s.problem \in v.problems
      /\ v.contest.start <= s.created /\ s.created < v.contest.end
      /\ s.created \in Nat /\ s.user \in Users /\ v.contest.start \in Nat
  BY SubmissionIs DEF Taken, IsSnapshot
<1>2. ASSUME NEW u \in P, \A p \in v.problems : n \notin Mine(v, u, p)
      PROVE  /\ RowOf(v, u, E) = RowOf(v, u, D)
             /\ IsFiniteSet(SolvedIn(v, u, E)) /\ IsFiniteSet(UnitsIn(v, u, E))
  <2>1. /\ RowOf(v, u, E) = RowOf(v, u, D) /\ SolvedIn(v, u, E) = SolvedIn(v, u, D)
        /\ UnitsIn(v, u, E) = UnitsIn(v, u, D)
    BY <1>2, RowStays
  <2> QED BY <2>1 DEF AreFinite
<1>3. ASSUME NEW u \in P, u # s.user PROVE \A p \in v.problems : n \notin Mine(v, u, p)
  BY <1>3, MineIs
<1>4. \A u \in P : rows[u] = RowOf(v, u, D) BY DEF RowsOf
<1>5. CASE s.user \notin P \/ s.created < v.joined[s.user]
  <2>1. AddTo(v, rows, s) = rows BY <1>5 DEF AddTo
  <2>2. ASSUME NEW u \in P PROVE \A p \in v.problems : n \notin Mine(v, u, p)
    <3>1. CASE u # s.user BY <1>3, <3>1
    <3>2. CASE u = s.user
      <4>1. v.joined[u] \in Nat BY DEF Participants, IsSnapshot
      <4>2. ~(v.joined[u] <= s.created) BY <1>1, <1>5, <3>2, <4>1
      <4> QED BY <4>2, MineIs
    <3> QED BY <3>1, <3>2
  <2>3. RowsOf(v, E) = rows BY <1>2, <2>2 DEF RowsOf
  <2> QED BY <1>2, <2>1, <2>2, <2>3 DEF AreFinite
<1>6. CASE s.user \in P /\ ~(s.created < v.joined[s.user])
  <2> DEFINE w == s.user
  <2>1. AddTo(v, rows, s) = [rows EXCEPT ![w] = AddSubmission(v, RowOf(v, w, D), s)]
    BY <1>4, <1>6 DEF AddTo
  <2>2. v.joined[w] \in Nat BY <1>6 DEF Participants, IsSnapshot
  <2>3. n \in Mine(v, w, s.problem) BY <1>1, <1>6, <2>2, MineIs
  <2>4. IsNext(v, w, s.problem, D, n) BY <1>1, <2>3 DEF IsNext
  <2>5. IsFiniteSet(SolvedIn(v, w, D)) /\ IsFiniteSet(UnitsIn(v, w, D)) BY <1>6 DEF AreFinite
  <2>6. /\ AddSubmission(v, RowOf(v, w, D), v.submissions[n]) = RowOf(v, w, E)
        /\ IsFiniteSet(SolvedIn(v, w, E)) /\ IsFiniteSet(UnitsIn(v, w, E))
    <3> DEFINE q == s.problem
    <3>1. IsNext(v, w, q, D, n) BY <2>4
    <3> HIDE DEF w, q
    <3> QED BY <2>5, <3>1, NextRow
  <2>7. ASSUME NEW u \in P, u # w
        PROVE  /\ RowOf(v, u, E) = RowOf(v, u, D)
               /\ IsFiniteSet(SolvedIn(v, u, E)) /\ IsFiniteSet(UnitsIn(v, u, E))
    BY <1>2, <1>3, <2>7
  <2>8. RowsOf(v, E) = [rows EXCEPT ![w] = RowOf(v, w, E)] BY <1>6, <2>7 DEF RowsOf
  <2> HIDE DEF w
  <2>9. AddTo(v, rows, s) = RowsOf(v, E) BY <2>1, <2>6, <2>8
  <2> QED BY <2>6, <2>7, <2>9 DEF AreFinite
<1> QED BY <1>5, <1>6

\* The rows of the answer are those that all submissions of the query give.
LEMMA RowsAre ==
    ASSUME NEW v, IsSnapshot(v)
    PROVE  Rows(v) = RowsOf(v, Taken(v)) /\ AreFinite(v, Taken(v))
<1> DEFINE list == Counted(v)
           L == Len(list)
<1>1. L \in Nat BY CountedIs
<1>2. PICK f : IsLoop(v, list, L, f) /\ Rows(v) = f[L] BY <1>1, RowsAreLast
<1>3. /\ f[0] = NewRows(v)
      /\ \A n \in 1 .. L : f[n] = AddTo(v, f[n - 1], v.submissions[list[n]])
  BY <1>1, <1>2, LoopIs
<1>4. /\ Seen(v, 0) = {} /\ Seen(v, L) = Taken(v)
      /\ \A k \in 1 .. L : /\ list[k] \in Taken(v)
                           /\ Seen(v, k) = Seen(v, k - 1) \cup {list[k]}
                           /\ Seen(v, k - 1) = {m \in Taken(v) : Before(v, m, list[k])}
  BY SeenGrows
<1> DEFINE Good(k) == f[k] = RowsOf(v, Seen(v, k)) /\ AreFinite(v, Seen(v, k))
           T == {k \in 0 .. L : ~Good(k)}
<1> HIDE DEF list, L
<1>5. Good(0) BY <1>3, <1>4, NothingSeen
<1>6. ASSUME NEW k \in 1 .. L, Good(k - 1) PROVE Good(k)
  <2> DEFINE n == list[k]
             D == Seen(v, k - 1)
             E == Seen(v, k)
  <2>1. n \in Taken(v) /\ E = D \cup {n} /\ D = {m \in Taken(v) : Before(v, m, n)} BY <1>4
  <2>2. f[k - 1] = RowsOf(v, D) /\ AreFinite(v, D) BY <1>6
  <2>3. f[k] = AddTo(v, f[k - 1], v.submissions[n]) BY <1>3
  <2> HIDE DEF n, D, E
  <2>4. AddTo(v, RowsOf(v, D), v.submissions[n]) = RowsOf(v, E) /\ AreFinite(v, E)
    BY <2>1, <2>2, NextRows
  <2>5. f[k] = RowsOf(v, E) BY <2>2, <2>3, <2>4
  <2> QED BY <2>4, <2>5 DEF E
<1> HIDE DEF Good
<1>7. T = {}
  <2> SUFFICES ASSUME T # {} PROVE FALSE OBVIOUS
  <2>1. T \in SUBSET Nat OBVIOUS
  <2>2. PICK k \in T : \A j \in T : k <= j BY <2>1, LeastNat
  <2>3. k \in 0 .. L /\ ~Good(k) OBVIOUS
  <2>4. k # 0 BY <1>5, <2>3
  <2>5. k \in 1 .. L /\ k - 1 \in 0 .. L /\ ~(k <= k - 1) BY <1>1, <2>3, <2>4
  <2>6. Good(k - 1) BY <2>2, <2>5
  <2> QED BY <1>6, <2>3, <2>5, <2>6
<1>8. Good(L) BY <1>1, <1>7
<1> QED BY <1>2, <1>4, <1>8 DEF Good, L, list

\* All that counts is in the set after the last step.
LEMMA AllMineTaken ==
    ASSUME NEW v, IsSnapshot(v), NEW u, NEW p \in v.problems
    PROVE  /\ Mine(v, u, p) \subseteq Taken(v)
           /\ MineIn(v, u, p, Taken(v)) = Mine(v, u, p)
           /\ SolutionsIn(v, u, p, Taken(v)) = Solutions(v, u, p)
<1>1. Mine(v, u, p) \subseteq Taken(v) BY MineTaken
<1> QED BY <1>1 DEF MineIn, SolutionsIn, Solutions

\* A row tells what its user solved, by the definitions of the ranking.
LEMMA RowTells ==
    ASSUME NEW v, IsSnapshot(v), NEW u \in Participants(v)
    PROVE  /\ u \in DOMAIN Rows(v) /\ DOMAIN Rows(v) = Participants(v)
           /\ Rows(v)[u].user = u
           /\ Rows(v)[u].solved = Cardinality(Solved(v, u)) /\ Rows(v)[u].solved \in Nat
           /\ Rows(v)[u].total = Total(v, u) /\ Rows(v)[u].total \in Nat
           /\ \A p \in v.problems :
                 Rows(v)[u].cells[p] =
                    IF p \in Solved(v, u) THEN SolvedCell(v, u, p)
                    ELSE [accepted |-> FALSE, penalty |-> 0,
                          attempts |-> Cardinality(Mine(v, u, p))]
<1> DEFINE D == Taken(v)
<1>1. Rows(v) = RowsOf(v, D) /\ AreFinite(v, D) BY RowsAre
<1>2. DOMAIN Rows(v) = Participants(v) /\ Rows(v)[u] = RowOf(v, u, D) BY <1>1 DEF RowsOf
<1>3. \A p \in v.problems : /\ MineIn(v, u, p, D) = Mine(v, u, p)
                            /\ SolutionsIn(v, u, p, D) = Solutions(v, u, p)
  BY AllMineTaken
<1> HIDE DEF D
<1>4. SolvedIn(v, u, D) = Solved(v, u) BY <1>3 DEF SolvedIn, Solved
<1>5. Cardinality(UnitsIn(v, u, D)) = Total(v, u) BY <1>4 DEF UnitsIn, UnitsOf, Total
<1>6. Cardinality(Solved(v, u)) \in Nat /\ Total(v, u) \in Nat
  <2>1. IsFiniteSet(SolvedIn(v, u, D)) /\ IsFiniteSet(UnitsIn(v, u, D)) BY <1>1 DEF AreFinite
  <2> QED BY <1>4, <1>5, <2>1, FS_CardinalityType
<1>7. ASSUME NEW p \in v.problems
      PROVE  CellOf(v, u, p, D) = IF p \in Solved(v, u) THEN SolvedCell(v, u, p)
                                  ELSE [accepted |-> FALSE, penalty |-> 0,
                                        attempts |-> Cardinality(Mine(v, u, p))]
  BY <1>3 DEF CellOf, Solved
<1>8. \A p \in v.problems : Rows(v)[u].cells[p] = CellOf(v, u, p, D)
  BY <1>2 DEF RowOf, CellsOf
<1>9. /\ Rows(v)[u].user = u /\ Rows(v)[u].solved = Cardinality(Solved(v, u))
      /\ Rows(v)[u].total = Total(v, u)
  BY <1>2, <1>4, <1>5 DEF RowOf
<1> QED BY <1>2, <1>6, <1>7, <1>8, <1>9

-----------------------------------------------------------------------------
(* The ranking.                                                            *)

\* The order of the rows is that of what their users solved.
LEMMA BeatsIs ==
    ASSUME NEW v, IsSnapshot(v), NEW x \in Participants(v), NEW y \in Participants(v)
    PROVE  Precedes(Rows(v)[x], Rows(v)[y]) <=> Beats(v, x, y)
<1>1. /\ Rows(v)[x].user = x /\ Rows(v)[x].solved = Cardinality(Solved(v, x))
      /\ Rows(v)[x].total = Total(v, x)
  BY RowTells
<1>2. /\ Rows(v)[y].user = y /\ Rows(v)[y].solved = Cardinality(Solved(v, y))
      /\ Rows(v)[y].total = Total(v, y)
  BY RowTells
<1> QED BY <1>1, <1>2 DEF Precedes, Beats

\* Every participant's row stands at the rank the definitions give.
LEMMA Ranked ==
    ASSUME NEW v, IsSnapshot(v)
    PROVE  /\ Len(Standings(v)) = Cardinality(Participants(v))
           /\ \A u \in Participants(v) :
                 Standings(v)[1 + Cardinality({w \in Participants(v) \ {u} : Beats(v, w, u)})]
                    = Rows(v)[u]
<1> DEFINE P == Participants(v)
           rows == Rows(v)
           R == {x \in P \X P : Precedes(rows[x[1]], rows[x[2]])}
           order == Arrange(P, R)
           k == Cardinality(P)
<1>1. Standings(v) = [i \in DOMAIN order |-> rows[order[i]]] BY DEF Standings
<1>2. P \in SUBSET Users /\ IsFiniteSet(Users) /\ Users \subseteq Nat
  BY ContestAssumption DEF Participants
<1>3. IsFiniteSet(P) BY <1>2, FS_Subset
<1>4. \A x, y \in P : <<x, y>> \in R <=> Beats(v, x, y)
  <2> SUFFICES ASSUME NEW x \in P, NEW y \in P PROVE <<x, y>> \in R <=> Beats(v, x, y)
    OBVIOUS
  <2>1. <<x, y>> \in R <=> Precedes(rows[x], rows[y]) OBVIOUS
  <2>2. Precedes(rows[x], rows[y]) <=> Beats(v, x, y) BY BeatsIs
  <2> QED BY <2>1, <2>2
<1>5. \A x \in P : x \in Nat /\ Cardinality(Solved(v, x)) \in Nat /\ Total(v, x) \in Nat
  <2> SUFFICES ASSUME NEW x \in P
               PROVE  x \in Nat /\ Cardinality(Solved(v, x)) \in Nat /\ Total(v, x) \in Nat
    OBVIOUS
  <2>1. /\ Rows(v)[x].solved = Cardinality(Solved(v, x)) /\ Rows(v)[x].solved \in Nat
        /\ Rows(v)[x].total = Total(v, x) /\ Rows(v)[x].total \in Nat
    BY RowTells
  <2> QED BY <1>2, <2>1
<1> HIDE DEF R
<1>6. Orders(R, P)
  <2>1. \A x \in P : <<x, x>> \notin R BY <1>4, <1>5 DEF Beats
  <2>2. ASSUME NEW x \in P, NEW y \in P, x # y PROVE <<x, y>> \in R \/ <<y, x>> \in R
    BY <1>4, <1>5, <2>2 DEF Beats
  <2>3. ASSUME NEW x \in P, NEW y \in P, NEW z \in P, <<x, y>> \in R, <<y, z>> \in R
        PROVE  <<x, z>> \in R
    <3>1. Beats(v, x, y) /\ Beats(v, y, z) BY <1>4, <2>3
    <3>2. Beats(v, x, z) BY <1>5, <3>1 DEF Beats
    <3> QED BY <1>4, <3>2
  <2> QED BY <2>1, <2>2, <2>3 DEF Orders
<1> HIDE DEF P, order, rows
<1>7. k \in Nat /\ IsArranged(order, P, R) BY <1>3, <1>6, Arranged DEF order
<1>8. order \in [1 .. k -> P] BY <1>7 DEF IsArranged
<1>9. Len(Standings(v)) = k
  <2> DEFINE Q == {rows[u] : u \in P}
             t == [i \in 1 .. k |-> rows[order[i]]]
  <2>1. Standings(v) = t BY <1>1, <1>8
  <2>2. t \in [1 .. k -> Q] BY <1>8
  <2> HIDE DEF Q, t, k
  <2>3. k \in Nat BY <1>7 DEF k
  <2> QED BY <2>1, <2>2, <2>3, FunctionIsSeq
<1>10. ASSUME NEW u \in P
       PROVE  Standings(v)[1 + Cardinality({w \in P \ {u} : Beats(v, w, u)})] = rows[u]
  <2> DEFINE i == Place(u, P, R)
  <2>1. i \in 1 .. k /\ order[i] = u BY <1>3, <1>6, ArrangedPlace DEF order
  <2>2. {y \in P : <<y, u>> \in R} = {w \in P \ {u} : Beats(v, w, u)}
    <3>1. <<u, u>> \notin R BY <1>6 DEF Orders
    <3> QED BY <1>4, <3>1
  <2>3. i = 1 + Cardinality({w \in P \ {u} : Beats(v, w, u)}) BY <2>2 DEF Place
  <2> HIDE DEF i
  <2>4. Standings(v)[i] = rows[u] BY <1>1, <1>8, <2>1
  <2> QED BY <2>3, <2>4
<1> QED BY <1>9, <1>10 DEF P, rows, k

-----------------------------------------------------------------------------
(* The inductive invariant.                                                *)

Joins == [Users -> (0 .. now) \cup {None}]
Written == [user : Users, problem : Problems, created : 0 .. now, status : Statuses]

TablesOK ==
    /\ now \in Nat /\ changes \in Nat
    /\ contest \in Contests \cup {None} /\ problems \in SUBSET Problems
    /\ joined \in Joins
    /\ submissions \in Seq(Written)
    /\ overwritten \subseteq DOMAIN submissions

Views ==
    {Idle}
    \cup [pc : {"problems"}, since : 0 .. changes, contest : Contests]
    \cup [pc : {"participants"}, since : 0 .. changes, contest : Contests,
          problems : SUBSET Problems]
    \cup [pc : {"submissions"}, since : 0 .. changes, contest : Contests,
          problems : SUBSET Problems, joined : Joins]

ShownOK ==
    /\ shown.since \in 0 .. changes
    /\ shown.penalty \in [Users -> [Problems -> (0 .. now) \cup {None}]]

TypesOK == TablesOK /\ view \in Views /\ ShownOK

\* Unless there was an edit or a rejudge, what a request read is still so.
ViewIsCurrent ==
    view # Idle /\ view.since = changes =>
        /\ view.contest = contest
        /\ view.pc # "problems" => view.problems = problems
        /\ view.pc = "submissions" =>
              \A u \in Users : view.joined[u] # None => joined[u] = view.joined[u]

\* Submission n is an accepted one of u for p with this penalty.
Shows(n, u, p, penalty) ==
    /\ submissions[n].user = u /\ submissions[n].problem = p
    /\ submissions[n].status = "Accepted"
    /\ joined[u] # None /\ joined[u] <= submissions[n].created
    /\ p \in problems
    /\ contest.start <= submissions[n].created /\ submissions[n].created < contest.end
    /\ penalty = submissions[n].created - contest.start

\* Unless there was one, or a status was overwritten, what the last answer showed
\* as solved is solved, and by users whom a request that has read the participants knows.
ShownIsSolved ==
    shown.since = changes =>
        \A u \in Users, p \in Problems :
            shown.penalty[u][p] # None /\ ~Overwritten(u, p) =>
                /\ \E n \in DOMAIN submissions : Shows(n, u, p, shown.penalty[u][p])
                /\ view.pc = "submissions" /\ view.since = changes => view.joined[u] # None

StandingsInv == TypesOK /\ ViewIsCurrent /\ ShownIsSolved

-----------------------------------------------------------------------------
(* What a step of the tables does.                                         *)

\* Nothing is taken away, and without an edit or a rejudge no verdict changes
\* that is not overwritten.
Grows ==
    /\ now' \in Nat /\ now <= now' /\ changes' \in Nat /\ changes <= changes'
    /\ overwritten \subseteq overwritten'
    /\ \A n \in DOMAIN submissions :
          /\ n \in DOMAIN submissions'
          /\ submissions'[n].user = submissions[n].user
          /\ submissions'[n].problem = submissions[n].problem
    /\ changes' = changes =>
          /\ contest' = contest /\ problems' = problems
          /\ \A u \in Users : joined[u] # None => joined'[u] = joined[u]
          /\ \A n \in DOMAIN submissions :
                submissions[n].status = "Accepted" /\ n \notin overwritten' =>
                    submissions'[n] = submissions[n]

\* Types of the submissions of the tables.
LEMMA WrittenIs ==
    ASSUME TablesOK
    PROVE  /\ Len(submissions) \in Nat /\ DOMAIN submissions = 1 .. Len(submissions)
           /\ \A n \in DOMAIN submissions : submissions[n] \in Written
<1>1. submissions \in Seq(Written) BY DEF TablesOK
<1>2. Len(submissions) \in Nat /\ DOMAIN submissions = 1 .. Len(submissions)
  BY <1>1, LenProperties
<1> QED BY <1>1, <1>2, ElementOfSeq

\* Times of the past are times of the future.
LEMMA LaterTypes ==
    ASSUME NEW s \in Nat, NEW t \in Nat, s <= t
    PROVE  /\ [Users -> (0 .. s) \cup {None}] \subseteq [Users -> (0 .. t) \cup {None}]
           /\ [user : Users, problem : Problems, created : 0 .. s, status : Statuses]
                 \subseteq [user : Users, problem : Problems, created : 0 .. t, status : Statuses]
<1>1. 0 .. s \subseteq 0 .. t OBVIOUS
<1> QED BY <1>1

\* A status that is set.
LEMMA StatusSet ==
    ASSUME TablesOK, NEW n \in DOMAIN submissions, NEW s \in Statuses,
           submissions' = [submissions EXCEPT ![n].status = s], now' = now
    PROVE  /\ submissions' \in Seq(Written)' /\ DOMAIN submissions' = DOMAIN submissions
           /\ \A m \in DOMAIN submissions :
                 /\ m # n => submissions'[m] = submissions[m]
                 /\ submissions'[m].user = submissions[m].user
                 /\ submissions'[m].problem = submissions[m].problem
<1>1. Len(submissions) \in Nat /\ DOMAIN submissions = 1 .. Len(submissions)
      /\ \A m \in DOMAIN submissions : submissions[m] \in Written
  BY WrittenIs
<1> DEFINE x == [submissions[n] EXCEPT !.status = s]
           L == Len(submissions)
<1>2. submissions[n] \in Written BY <1>1
<1>3. /\ x \in Written
      /\ x.user = submissions[n].user /\ x.problem = submissions[n].problem
  BY <1>2 DEF Written
<1>4. submissions' = [submissions EXCEPT ![n] = x] OBVIOUS
<1> HIDE DEF x, L
<1>5. submissions \in [1 .. L -> Written]
  <2>1. submissions \in Seq(Written) BY DEF TablesOK
  <2> QED BY <1>1, <2>1, LenProperties DEF L
<1>6. submissions' \in [1 .. L -> Written] BY <1>1, <1>3, <1>4, <1>5
<1>7. L \in Nat BY <1>1 DEF L
<1>8. submissions' \in Seq(Written) BY <1>6, <1>7, FunctionIsSeq
<1>9. Written' = Written BY DEF Written
<1> QED BY <1>3, <1>4, <1>5, <1>6, <1>8, <1>9

\* Every step of the tables keeps their types and takes nothing away.
LEMMA TablesStep == ASSUME TablesOK, Next PROVE TablesOK' /\ Grows
<1> USE DEF TablesOK
<1>1. CASE Tick
  <2>1. now' \in Nat /\ now <= now' BY <1>1 DEF Tick
  <2>2. joined' \in Joins' BY <1>1, <2>1, LaterTypes DEF Tick, Joins
  <2>3. submissions' \in Seq(Written)'
    <3>1. Written \subseteq Written' BY <2>1, LaterTypes DEF Written
    <3>2. submissions' \in Seq(Written') BY <1>1, <3>1, SeqMonotonic DEF Tick
    <3> QED BY <3>2
  <2> QED BY <1>1, <2>1, <2>2, <2>3 DEF Tick, Grows
<1>2. ASSUME NEW u \in Users, NEW t \in 0 .. now, Join(u, t) PROVE TablesOK' /\ Grows
  <2>1. joined' \in Joins BY <1>2 DEF Join, Joins
  <2>2. Joins' = Joins /\ Written' = Written BY <1>2 DEF Join, Joins, Written
  <2>3. \A w \in Users : joined[w] # None => joined'[w] = joined[w]
    BY <1>2 DEF Join, IsJoined, Joins
  <2> QED BY <1>2, <2>1, <2>2, <2>3 DEF Join, Grows
<1>3. ASSUME NEW u \in Users, NEW t \in 0 .. now, NEW p \in Problems, Submit(u, p, t)
      PROVE  TablesOK' /\ Grows
  <2> DEFINE x == [user |-> u, problem |-> p, created |-> t, status |-> "Pending"]
  <2>1. x \in Written BY DEF Written, Statuses
  <2>2. submissions' = Append(submissions, x) BY <1>3 DEF Submit
  <2> HIDE DEF x
  <2>3. submissions' \in Seq(Written) BY <2>1, <2>2, AppendProperties
  <2>4. \A n \in DOMAIN submissions : n \in DOMAIN submissions' /\ submissions'[n] = submissions[n]
    <3>1. Len(submissions) \in Nat /\ DOMAIN submissions = 1 .. Len(submissions) BY WrittenIs
    <3>2. Len(submissions') = Len(submissions) + 1
          /\ \A n \in 1 .. Len(submissions) : submissions'[n] = submissions[n]
      BY <2>1, <2>2, AppendProperties
    <3>3. DOMAIN submissions' = 1 .. Len(submissions') BY <2>3, LenProperties
    <3> QED BY <3>1, <3>2, <3>3
  <2>5. Joins' = Joins /\ Written' = Written BY <1>3 DEF Submit, Joins, Written
  <2> QED BY <1>3, <2>3, <2>4, <2>5 DEF Submit, Grows
<1>4. ASSUME NEW n \in DOMAIN submissions, Judge(n) PROVE TablesOK' /\ Grows
  <2>1. PICK s \in Statuses : submissions' = [submissions EXCEPT ![n].status = s]
    BY <1>4 DEF Judge, SetStatus, Statuses
  <2>2. now' = now /\ submissions[n].status = "Pending" /\ changes' = changes
        /\ contest' = contest /\ problems' = problems /\ joined' = joined
        /\ overwritten' = overwritten
    BY <1>4 DEF Judge
  <2>3. /\ submissions' \in Seq(Written)' /\ DOMAIN submissions' = DOMAIN submissions
        /\ \A m \in DOMAIN submissions :
              /\ m # n => submissions'[m] = submissions[m]
              /\ submissions'[m].user = submissions[m].user
              /\ submissions'[m].problem = submissions[m].problem
    BY <2>1, <2>2, StatusSet
  <2>4. Joins' = Joins BY <2>2 DEF Joins
  <2> QED BY <2>2, <2>3, <2>4 DEF Grows
<1>5. ASSUME NEW n \in DOMAIN submissions, Rejudge(n) PROVE TablesOK' /\ Grows
  <2>1. "Pending" \in Statuses /\ submissions' = [submissions EXCEPT ![n].status = "Pending"]
    BY <1>5 DEF Rejudge, SetStatus, Statuses
  <2>2. now' = now /\ changes' = changes + 1
        /\ contest' = contest /\ problems' = problems /\ joined' = joined
        /\ overwritten' = overwritten
    BY <1>5 DEF Rejudge, Change
  <2>3. /\ submissions' \in Seq(Written)' /\ DOMAIN submissions' = DOMAIN submissions
        /\ \A m \in DOMAIN submissions :
              /\ submissions'[m].user = submissions[m].user
              /\ submissions'[m].problem = submissions[m].problem
    BY <2>1, <2>2, StatusSet
  <2>4. Joins' = Joins BY <2>2 DEF Joins
  <2> QED BY <2>2, <2>3, <2>4 DEF Grows
<1>6. ASSUME NEW c \in Contests \cup {None}, NEW ps \in SUBSET Problems, Edit(c, ps)
      PROVE  TablesOK' /\ Grows
  <2>1. Joins' = Joins /\ Written' = Written BY <1>6 DEF Edit, Joins, Written
  <2> QED BY <1>6, <2>1 DEF Edit, Change, Grows
<1>7. ASSUME NEW n \in DOMAIN submissions, NEW s \in Statuses, Overwrite(n, s)
      PROVE  TablesOK' /\ Grows
  <2>1. submissions' = [submissions EXCEPT ![n].status = s] BY <1>7 DEF Overwrite, SetStatus
  <2>2. now' = now /\ changes' = changes
        /\ contest' = contest /\ problems' = problems /\ joined' = joined
        /\ overwritten' = overwritten \cup {n}
    BY <1>7 DEF Overwrite, Mark
  <2>3. /\ submissions' \in Seq(Written)' /\ DOMAIN submissions' = DOMAIN submissions
        /\ \A m \in DOMAIN submissions :
              /\ m # n => submissions'[m] = submissions[m]
              /\ submissions'[m].user = submissions[m].user
              /\ submissions'[m].problem = submissions[m].problem
    BY <2>1, <2>2, StatusSet
  <2>4. Joins' = Joins BY <2>2 DEF Joins
  <2> QED BY <2>2, <2>3, <2>4 DEF Grows
<1> QED BY <1>1, <1>2, <1>3, <1>4, <1>5, <1>6, <1>7 DEF Next

-----------------------------------------------------------------------------
(* Requests and answers.                                                   *)

\* The fields of a request.
LEMMA ViewIs ==
    ASSUME TypesOK
    PROVE  /\ view.pc \in {"idle", "problems", "participants", "submissions"}
           /\ view.pc = "idle" <=> view = Idle
           /\ view # Idle => view.contest \in Contests /\ view.since \in 0 .. changes
           /\ view.pc \in {"participants", "submissions"} => view.problems \in SUBSET Problems
           /\ view.pc = "submissions" => view.joined \in Joins
BY DEF TypesOK, Views, Idle

\* A contest has a start and an end.
LEMMA ContestIs == \A c \in Contests : c.start \in Nat /\ c.end \in Nat
BY ContestAssumption DEF Contests, Forms

\* What a request has read is a snapshot.
LEMMA SnapshotIs ==
    ASSUME TypesOK, view.pc = "submissions"
    PROVE  IsSnapshot(Snapshot) /\ Snapshot.problems \in SUBSET Problems
<1>1. view # Idle BY ViewIs DEF Idle
<1>2. view.contest \in Contests /\ view.problems \in SUBSET Problems /\ view.joined \in Joins
  BY <1>1, ViewIs
<1>3. /\ Snapshot.contest = view.contest /\ Snapshot.problems = view.problems
      /\ Snapshot.joined = view.joined /\ Snapshot.submissions = submissions
  BY DEF Snapshot
<1>4. submissions \in Seq(Entries)
  <2>1. now \in Nat /\ submissions \in Seq(Written) BY DEF TypesOK, TablesOK
  <2>2. Written \subseteq Entries BY <2>1 DEF Written, Entries
  <2> QED BY <2>1, <2>2, SeqMonotonic
<1>5. view.joined \in [Users -> Nat \cup {None}]
  <2>1. now \in Nat BY DEF TypesOK, TablesOK
  <2> QED BY <1>2, <2>1 DEF Joins
<1> QED BY <1>2, <1>3, <1>4, <1>5, ContestIs DEF IsSnapshot

\* Of the solutions of a problem one is the first.
LEMMA FirstSolves ==
    ASSUME NEW v, IsSnapshot(v), NEW u, NEW p \in v.problems, Solutions(v, u, p) # {}
    PROVE  /\ First(v, u, p) \in Solutions(v, u, p)
           /\ \A m \in Solutions(v, u, p) \ {First(v, u, p)} : Before(v, First(v, u, p), m)
<1> DEFINE S == Solutions(v, u, p)
           list == Counted(v)
           L == Len(list)
           T == {i \in 1 .. L : list[i] \in S}
<1>1. /\ L \in Nat /\ list \in [1 .. L -> Taken(v)]
      /\ \A n \in Taken(v) : \E i \in 1 .. L : list[i] = n
      /\ \A i, j \in 1 .. L : i < j => Before(v, list[i], list[j])
  BY CountedIs
<1>2. S \subseteq Taken(v)
  <2>1. Mine(v, u, p) \subseteq Taken(v) BY AllMineTaken
  <2> QED BY <2>1 DEF Solutions
<1> HIDE DEF S, list, L
<1>3. \A m \in S : \E i \in T : list[i] = m BY <1>1, <1>2
<1>4. S # {} BY DEF S
<1>5. T \in SUBSET Nat /\ T # {} BY <1>1, <1>3, <1>4
<1>6. PICK i \in T : \A j \in T : i <= j BY <1>5, LeastNat
<1>7. ASSUME NEW m \in S \ {list[i]} PROVE Before(v, list[i], m)
  <2>1. PICK j \in T : list[j] = m BY <1>3
  <2>2. i # j /\ i <= j /\ i \in Nat /\ j \in Nat BY <1>1, <1>6, <2>1
  <2>3. i < j /\ i \in 1 .. L /\ j \in 1 .. L BY <1>6, <2>2
  <2> QED BY <1>1, <2>1, <2>3
<1>8. list[i] \in S BY <1>6
<1> QED BY <1>7, <1>8 DEF First, S

\* Submission n solves p for u in what the request has read.
Solves(n, u, p) ==
    /\ n \in DOMAIN submissions /\ submissions[n] \in Written
    /\ submissions[n].user = u /\ submissions[n].problem = p
    /\ submissions[n].status = "Accepted"
    /\ view.joined[u] # None /\ view.joined[u] <= submissions[n].created
    /\ p \in view.problems
    /\ view.contest.start <= submissions[n].created
    /\ submissions[n].created < view.contest.end

\* The answer shows a problem as solved just if some submission solves it, and
\* with the least penalty.
LEMMA AnswerIs ==
    ASSUME TypesOK, ReadSubmissions, NEW u \in Users, NEW p \in Problems
    PROVE  LET value == shown'.penalty[u][p]
           IN  /\ value # None =>
                     \E n : Solves(n, u, p) /\ value = submissions[n].created - view.contest.start
               /\ \A n : Solves(n, u, p) =>
                     value # None /\ value <= submissions[n].created - view.contest.start
<1> DEFINE v == Snapshot
           rows == Rows(v)
           value == shown'.penalty[u][p]
<1>1. view.pc = "submissions" BY DEF ReadSubmissions
<1>2. IsSnapshot(v) BY <1>1, SnapshotIs
<1>3. /\ v.contest = view.contest /\ v.problems = view.problems
      /\ v.joined = view.joined /\ v.submissions = submissions
  BY DEF Snapshot
<1>4. value = IF u \in DOMAIN rows /\ p \in view.problems /\ rows[u].cells[p].accepted
              THEN rows[u].cells[p].penalty ELSE None
  BY DEF ReadSubmissions
<1> HIDE DEF v, rows, value
<1>5. /\ DOMAIN rows = Participants(v)
      /\ u \in Participants(v) => \A q \in v.problems :
            rows[u].cells[q] = IF q \in Solved(v, u) THEN SolvedCell(v, u, q)
                               ELSE [accepted |-> FALSE, penalty |-> 0,
                                     attempts |-> Cardinality(Mine(v, u, q))]
  <2>1. DOMAIN rows = Participants(v)
    <3>1. Rows(v) = RowsOf(v, Taken(v)) BY <1>2, RowsAre
    <3> QED BY <3>1 DEF RowsOf, rows
  <2> QED BY <1>2, <2>1, RowTells DEF rows
<1> DEFINE shows == u \in Participants(v) /\ p \in view.problems /\ p \in Solved(v, u)
<1>6. value = IF shows THEN Penalty(v, u, p) ELSE None
  <2>1. CASE u \in Participants(v) /\ p \in view.problems
    <3>1. p \in v.problems BY <1>3, <2>1
    <3>2. CASE p \in Solved(v, u)
      <4>1. rows[u].cells[p] = SolvedCell(v, u, p) BY <1>5, <2>1, <3>1, <3>2
      <4>2. rows[u].cells[p].accepted /\ rows[u].cells[p].penalty = Penalty(v, u, p)
        BY <4>1 DEF SolvedCell
      <4> QED BY <1>4, <1>5, <2>1, <3>2, <4>2
    <3>3. CASE p \notin Solved(v, u)
      <4>1. rows[u].cells[p] = [accepted |-> FALSE, penalty |-> 0,
                                attempts |-> Cardinality(Mine(v, u, p))]
        BY <1>5, <2>1, <3>1, <3>3
      <4>2. ~rows[u].cells[p].accepted BY <4>1
      <4> QED BY <1>4, <3>3, <4>2
    <3> QED BY <3>2, <3>3
  <2>2. CASE ~(u \in Participants(v) /\ p \in view.problems) BY <1>4, <1>5, <2>2
  <2> QED BY <2>1, <2>2
<1>7. \A n : Solves(n, u, p) <=> n \in Solutions(v, u, p) /\ u \in Participants(v)
                                  /\ p \in view.problems
  <2> SUFFICES ASSUME NEW n
               PROVE  Solves(n, u, p) <=> n \in Solutions(v, u, p) /\ u \in Participants(v)
                                          /\ p \in view.problems
    OBVIOUS
  <2>1. TablesOK BY DEF TypesOK
  <2>2. n \in DOMAIN submissions => submissions[n] \in Written BY <2>1, WrittenIs
  <2>3. n \in DOMAIN submissions =>
           submissions[n].created \in Nat /\ view.contest.start \in Nat
    BY <1>2, <1>3, SubmissionIs DEF IsSnapshot
  <2> QED BY <1>3, <2>2, <2>3, MineIs DEF Solves, Participants
<1>8. shows <=> \E n : Solves(n, u, p) BY <1>3, <1>7 DEF Solved
<1>9. ASSUME shows
      PROVE  /\ Solves(First(v, u, p), u, p)
             /\ Penalty(v, u, p) = submissions[First(v, u, p)].created - view.contest.start
             /\ \A n : Solves(n, u, p) =>
                   Penalty(v, u, p) <= submissions[n].created - view.contest.start
             /\ Penalty(v, u, p) # None
  <2> DEFINE f == First(v, u, p)
  <2>1. p \in v.problems /\ Solutions(v, u, p) # {} BY <1>9 DEF Solved
  <2>2. /\ f \in Solutions(v, u, p)
        /\ \A m \in Solutions(v, u, p) \ {f} : Before(v, f, m)
    BY <1>2, <2>1, FirstSolves
  <2>3. Penalty(v, u, p) = submissions[f].created - view.contest.start BY <1>3 DEF Penalty
  <2> HIDE DEF f
  <2>4. Solves(f, u, p) BY <1>7, <1>9, <2>2
  <2>5. \A n : Solves(n, u, p) => submissions[n].created \in Nat
    BY <1>2, <1>3, SubmissionIs DEF Solves
  <2>6. view.contest.start \in Nat BY <1>2, <1>3 DEF IsSnapshot
  <2>7. ASSUME NEW n, Solves(n, u, p) PROVE submissions[f].created <= submissions[n].created
    <3>1. n \in Solutions(v, u, p) BY <1>7, <2>7
    <3>2. n = f \/ Before(v, f, n) BY <2>2, <3>1
    <3> QED BY <1>3, <2>4, <2>5, <2>7, <3>2 DEF Before
  <2>8. Penalty(v, u, p) \in Nat BY <2>3, <2>4, <2>5, <2>6 DEF Solves
  <2>9. Penalty(v, u, p) # None BY <2>8, ContestAssumption
  <2>10. \A n : Solves(n, u, p) => Penalty(v, u, p) <= submissions[n].created - view.contest.start
    BY <2>3, <2>4, <2>5, <2>6, <2>7
  <2> QED BY <2>3, <2>4, <2>9, <2>10 DEF f
<1> HIDE DEF shows
<1> QED BY <1>6, <1>8, <1>9 DEF value

-----------------------------------------------------------------------------
(* The invariant holds.                                                    *)

\* In the beginning nothing was shown.
LEMMA NoneShown ==
    ASSUME StandingsInit
    PROVE  \A u \in Users, p \in Problems : shown.penalty[u][p] = None
BY DEF StandingsInit

LEMMA StandingsInitially == ASSUME StandingsInit PROVE StandingsInv
<1> USE DEF StandingsInit, Init
<1>1. TablesOK
  <2>1. joined \in Joins BY DEF Joins
  <2>2. submissions \in Seq(Written) BY EmptySeq
  <2>3. contest \in Contests /\ problems \in SUBSET Problems OBVIOUS
  <2> QED BY <2>1, <2>2, <2>3 DEF TablesOK
<1>2. view \in Views BY DEF Views
<1>3. ShownOK BY DEF ShownOK
<1>4. ViewIsCurrent BY DEF ViewIsCurrent
<1>5. ShownIsSolved BY NoneShown DEF ShownIsSolved
<1> QED BY <1>1, <1>2, <1>3, <1>4, <1>5 DEF StandingsInv, TypesOK

\* A step of the tables.
LEMMA TablesKeep ==
    ASSUME StandingsInv, TablesOK', Grows, UNCHANGED <<view, shown>>
    PROVE  StandingsInv'
<1> USE DEF StandingsInv, TypesOK
<1>1. now \in Nat /\ now' \in Nat /\ now <= now' /\ changes \in Nat /\ changes' \in Nat
      /\ changes <= changes'
  BY DEF Grows, TablesOK
<1>2. 0 .. now \subseteq 0 .. now' /\ 0 .. changes \subseteq 0 .. changes' BY <1>1
<1>3. Joins \subseteq Joins' BY <1>1, LaterTypes DEF Joins
<1>4. view' \in Views' BY <1>2, <1>3 DEF Views
<1>5. ShownOK' BY <1>2 DEF ShownOK
<1>6. ViewIsCurrent'
  <2> SUFFICES ASSUME view # Idle, view.since = changes'
               PROVE  /\ view.contest = contest'
                      /\ view.pc # "problems" => view.problems = problems'
                      /\ view.pc = "submissions" =>
                            \A u \in Users : view.joined[u] # None => joined'[u] = view.joined[u]
    BY DEF ViewIsCurrent
  <2>1. changes' = changes
    <3>1. view.since \in 0 .. changes BY ViewIs
    <3> QED BY <1>1, <3>1
  <2>2. /\ view.contest = contest
        /\ view.pc # "problems" => view.problems = problems
        /\ view.pc = "submissions" =>
              \A u \in Users : view.joined[u] # None => joined[u] = view.joined[u]
    BY <2>1 DEF ViewIsCurrent
  <2>3. /\ contest' = contest /\ problems' = problems
        /\ \A u \in Users : joined[u] # None => joined'[u] = joined[u]
    BY <2>1 DEF Grows
  <2> QED BY <2>2, <2>3
<1>7. ShownIsSolved'
  <2> SUFFICES ASSUME shown.since = changes', NEW u \in Users, NEW p \in Problems,
                      shown.penalty[u][p] # None, ~Overwritten(u, p)'
               PROVE  /\ \E n \in DOMAIN submissions' : Shows(n, u, p, shown.penalty[u][p])'
                      /\ view.pc = "submissions" /\ view.since = changes' => view.joined[u] # None
    BY DEF ShownIsSolved
  <2>0. TablesOK BY DEF StandingsInv
  <2>1. changes' = changes /\ ~Overwritten(u, p)
    <3>1. changes' = changes BY <1>1 DEF ShownOK
    <3>2. ~Overwritten(u, p) BY <2>0 DEF Overwritten, Grows, TablesOK
    <3> QED BY <3>1, <3>2
  <2>2. PICK n \in DOMAIN submissions : Shows(n, u, p, shown.penalty[u][p])
    BY <2>1 DEF ShownIsSolved
  <2>3. view.pc = "submissions" /\ view.since = changes => view.joined[u] # None
    BY <2>1 DEF ShownIsSolved
  <2>4. /\ contest' = contest /\ problems' = problems
        /\ (joined[u] # None => joined'[u] = joined[u])
        /\ n \in DOMAIN submissions' /\ submissions'[n] = submissions[n]
    <3>1. /\ n \in DOMAIN submissions' /\ submissions[n].status = "Accepted"
          /\ submissions'[n].user = u /\ submissions'[n].problem = p
      BY <2>2 DEF Grows, Shows
    <3>2. n \notin overwritten' BY <3>1 DEF Overwritten
    <3> QED BY <2>1, <3>1, <3>2 DEF Grows
  <2>5. n \in DOMAIN submissions' /\ Shows(n, u, p, shown.penalty[u][p])'
    BY <2>2, <2>4 DEF Shows
  <2> QED BY <2>1, <2>3, <2>5
<1> QED BY <1>4, <1>5, <1>6, <1>7

\* The first three reads of a request.
LEMMA ReadKeeps ==
    ASSUME StandingsInv, ReadContest \/ ReadProblems \/ ReadParticipants
    PROVE  StandingsInv'
<1>0. TypesOK /\ TablesOK /\ view \in Views /\ ShownOK /\ ViewIsCurrent /\ ShownIsSolved
  BY DEF StandingsInv, TypesOK
<1>1. UNCHANGED <<tables, shown>> BY DEF ReadContest, ReadProblems, ReadParticipants
<1>2. /\ now' = now /\ contest' = contest /\ problems' = problems /\ joined' = joined
      /\ submissions' = submissions /\ changes' = changes /\ shown' = shown
      /\ overwritten' = overwritten
  BY <1>1 DEF tables
<1>3. TablesOK' /\ ShownOK' /\ Joins' = Joins
  BY <1>0, <1>2 DEF TablesOK, ShownOK, Joins, Written
<1>4. ASSUME view'.pc = "submissions" => ReadParticipants PROVE ShownIsSolved'
  <2> SUFFICES ASSUME shown.since = changes, NEW u \in Users, NEW p \in Problems,
                      shown.penalty[u][p] # None, ~Overwritten(u, p)
               PROVE  /\ \E n \in DOMAIN submissions : Shows(n, u, p, shown.penalty[u][p])'
                      /\ view'.pc = "submissions" /\ view'.since = changes
                            => view'.joined[u] # None
    BY <1>2 DEF ShownIsSolved, Overwritten
  <2>1. PICK n \in DOMAIN submissions : Shows(n, u, p, shown.penalty[u][p])
    BY <1>0 DEF ShownIsSolved
  <2>2. joined[u] # None BY <2>1 DEF Shows
  <2>3. ReadParticipants => view'.joined = joined BY DEF ReadParticipants
  <2> QED BY <1>2, <1>4, <2>1, <2>2, <2>3 DEF Shows
<1>5. CASE ReadContest
  <2>1. view' = [pc |-> "problems", since |-> changes, contest |-> contest]
        /\ contest # None
    BY <1>5 DEF ReadContest
  <2>2. view' \in Views'
    BY <1>0, <1>2, <2>1 DEF TablesOK, Views
  <2>3. ViewIsCurrent' BY <1>2, <2>1 DEF ViewIsCurrent
  <2>4. ShownIsSolved' BY <1>4, <2>1
  <2> QED BY <1>3, <2>2, <2>3, <2>4 DEF StandingsInv, TypesOK
<1>6. CASE ReadProblems
  <2>1. /\ view' = [pc |-> "participants", since |-> view.since, contest |-> view.contest,
                    problems |-> problems]
        /\ view # Idle /\ view.pc = "problems"
    BY <1>6 DEF ReadProblems, Idle
  <2>2. view' \in Views'
    <3>1. view.contest \in Contests /\ view.since \in 0 .. changes /\ problems \in SUBSET Problems
      BY <1>0, <2>1, ViewIs DEF TablesOK
    <3> QED BY <1>2, <2>1, <3>1 DEF Views
  <2>3. ViewIsCurrent' BY <1>0, <1>2, <2>1 DEF ViewIsCurrent
  <2>4. ShownIsSolved' BY <1>4, <2>1
  <2> QED BY <1>3, <2>2, <2>3, <2>4 DEF StandingsInv, TypesOK
<1>7. CASE ReadParticipants
  <2>1. /\ view' = [pc |-> "submissions", since |-> view.since, contest |-> view.contest,
                    problems |-> view.problems, joined |-> joined]
        /\ view # Idle /\ view.pc = "participants"
    BY <1>7 DEF ReadParticipants, Idle
  <2>2. view' \in Views'
    <3>1. view.contest \in Contests /\ view.since \in 0 .. changes
          /\ view.problems \in SUBSET Problems /\ joined \in Joins
      BY <1>0, <2>1, ViewIs DEF TablesOK
    <3> QED BY <1>2, <1>3, <2>1, <3>1 DEF Views
  <2>3. ViewIsCurrent' BY <1>0, <1>2, <2>1 DEF ViewIsCurrent
  <2>4. ShownIsSolved' BY <1>4, <1>7
  <2> QED BY <1>3, <2>2, <2>3, <2>4 DEF StandingsInv, TypesOK
<1> QED BY <1>5, <1>6, <1>7

\* The last read and the answer.
LEMMA AnswerKeeps == ASSUME StandingsInv, ReadSubmissions PROVE StandingsInv'
<1>0. TypesOK /\ TablesOK /\ view \in Views /\ ShownOK /\ ViewIsCurrent
  BY DEF StandingsInv, TypesOK
<1>1. view.pc = "submissions" /\ view # Idle /\ view' = Idle /\ UNCHANGED tables
  BY DEF ReadSubmissions, Idle
<1>2. /\ now' = now /\ contest' = contest /\ problems' = problems /\ joined' = joined
      /\ submissions' = submissions /\ changes' = changes /\ overwritten' = overwritten
  BY <1>1 DEF tables
<1>3. TablesOK' BY <1>0, <1>2 DEF TablesOK, Joins, Written
<1>4. view' \in Views' BY <1>1 DEF Views
<1>5. ViewIsCurrent' BY <1>1 DEF ViewIsCurrent
<1>6. /\ shown'.since = view.since
      /\ shown'.penalty \in
            [Users -> [Problems -> {shown'.penalty[u][p] : u \in Users, p \in Problems}]]
  BY DEF ReadSubmissions
<1>7. view.contest \in Contests /\ view.since \in 0 .. changes BY <1>0, <1>1, ViewIs
<1>8. ASSUME NEW u \in Users, NEW p \in Problems, shown'.penalty[u][p] # None
      PROVE  \E n : Solves(n, u, p)
                    /\ shown'.penalty[u][p] = submissions[n].created - view.contest.start
  BY <1>0, <1>8, AnswerIs
<1>9. ShownOK'
  <2>1. ASSUME NEW u \in Users, NEW p \in Problems
        PROVE  shown'.penalty[u][p] \in (0 .. now) \cup {None}
    <3> SUFFICES ASSUME shown'.penalty[u][p] # None PROVE shown'.penalty[u][p] \in 0 .. now
      OBVIOUS
    <3>1. PICK n : /\ Solves(n, u, p)
                   /\ shown'.penalty[u][p] = submissions[n].created - view.contest.start
      BY <1>8
    <3>2. submissions[n].created \in 0 .. now BY <3>1 DEF Solves, Written
    <3>3. view.contest.start <= submissions[n].created BY <3>1 DEF Solves
    <3>4. view.contest.start \in Nat /\ now \in Nat BY <1>0, <1>7, ContestIs DEF TablesOK
    <3> QED BY <3>1, <3>2, <3>3, <3>4
  <2>2. shown'.penalty \in [Users -> [Problems -> (0 .. now) \cup {None}]] BY <1>6, <2>1
  <2> QED BY <1>2, <1>6, <1>7, <2>2 DEF ShownOK
<1>10. ShownIsSolved'
  <2> SUFFICES ASSUME shown'.since = changes, NEW u \in Users, NEW p \in Problems,
                      shown'.penalty[u][p] # None
               PROVE  \E n \in DOMAIN submissions : Shows(n, u, p, shown.penalty[u][p])'
    BY <1>1, <1>2 DEF ShownIsSolved, Idle
  <2>1. PICK n : /\ Solves(n, u, p)
                 /\ shown'.penalty[u][p] = submissions[n].created - view.contest.start
    BY <1>8
  <2>2. /\ view.contest = contest /\ view.problems = problems
        /\ view.joined[u] # None => joined[u] = view.joined[u]
    BY <1>0, <1>1, <1>6 DEF ViewIsCurrent
  <2>3. Shows(n, u, p, shown.penalty[u][p])'
    BY <1>2, <2>1, <2>2 DEF Solves, Shows
  <2> QED BY <2>1, <2>3 DEF Solves
<1> QED BY <1>3, <1>4, <1>5, <1>9, <1>10 DEF StandingsInv, TypesOK

LEMMA StandingsKeep == ASSUME StandingsInv, [StandingsNext]_vars PROVE StandingsInv'
<1>1. CASE Next /\ UNCHANGED <<view, shown>>
  <2>1. TablesOK BY DEF StandingsInv, TypesOK
  <2>2. TablesOK' /\ Grows BY <1>1, <2>1, TablesStep
  <2> QED BY <1>1, <2>2, TablesKeep
<1>2. CASE ReadContest \/ ReadProblems \/ ReadParticipants BY <1>2, ReadKeeps
<1>3. CASE ReadSubmissions BY <1>3, AnswerKeeps
<1>4. CASE UNCHANGED vars
  BY <1>4 DEF vars, tables, StandingsInv, TypesOK, TablesOK, Joins, Written, Views, ShownOK,
              ViewIsCurrent, ShownIsSolved, Shows, Overwritten
<1> QED BY <1>1, <1>2, <1>3, <1>4 DEF StandingsNext

LEMMA StandingsAlways == StandingsSpec => []StandingsInv
BY StandingsInitially, StandingsKeep, PTL DEF StandingsSpec

-----------------------------------------------------------------------------
(* The theorems.                                                           *)

\* The invariant and the lemmas about rows and ranks give the property.
LEMMA AnswersAreRight == ASSUME StandingsInv PROVE StandingsAreRight
<1>0. TypesOK BY DEF StandingsInv
<1>1. TypeOK
  <2>1. ShownOK BY <1>0 DEF TypesOK
  <2> QED BY <1>0, <2>1, ViewIs DEF TypeOK, ShownOK
<1>2. ASSUME view.pc = "submissions"
      PROVE  LET v == Snapshot
                 rows == Standings(v)
             IN  /\ Len(rows) = Cardinality(Participants(v))
                 /\ \A u \in Participants(v) :
                    LET row == rows[1 + Cardinality({w \in Participants(v) \ {u} : Beats(v, w, u)})]
                    IN  /\ row.user = u
                        /\ row.solved = Cardinality(Solved(v, u))
                        /\ row.total = Total(v, u)
                        /\ \A p \in v.problems :
                            IF p \in Solved(v, u)
                            THEN row.cells[p] = [accepted |-> TRUE, penalty |-> Penalty(v, u, p),
                                    attempts |-> 1 + Cardinality({n \in Mine(v, u, p) :
                                                        Before(v, n, First(v, u, p))})]
                            ELSE row.cells[p] = [accepted |-> FALSE, penalty |-> 0,
                                    attempts |-> Cardinality(Mine(v, u, p))]
  <2> DEFINE v == Snapshot
  <2>1. IsSnapshot(v) BY <1>0, <1>2, SnapshotIs
  <2> HIDE DEF v
  <2>2. /\ Len(Standings(v)) = Cardinality(Participants(v))
        /\ \A u \in Participants(v) :
              Standings(v)[1 + Cardinality({w \in Participants(v) \ {u} : Beats(v, w, u)})]
                 = Rows(v)[u]
    BY <2>1, Ranked
  <2>3. ASSUME NEW u \in Participants(v)
        PROVE  /\ Rows(v)[u].user = u
               /\ Rows(v)[u].solved = Cardinality(Solved(v, u))
               /\ Rows(v)[u].total = Total(v, u)
               /\ \A p \in v.problems :
                     IF p \in Solved(v, u)
                     THEN Rows(v)[u].cells[p] =
                             [accepted |-> TRUE, penalty |-> Penalty(v, u, p),
                              attempts |-> 1 + Cardinality({n \in Mine(v, u, p) :
                                                   Before(v, n, First(v, u, p))})]
                     ELSE Rows(v)[u].cells[p] = [accepted |-> FALSE, penalty |-> 0,
                              attempts |-> Cardinality(Mine(v, u, p))]
    <3>1. /\ Rows(v)[u].user = u /\ Rows(v)[u].solved = Cardinality(Solved(v, u))
          /\ Rows(v)[u].total = Total(v, u)
          /\ \A p \in v.problems :
                 Rows(v)[u].cells[p] =
                    IF p \in Solved(v, u) THEN SolvedCell(v, u, p)
                    ELSE [accepted |-> FALSE, penalty |-> 0,
                          attempts |-> Cardinality(Mine(v, u, p))]
      BY <2>1, RowTells
    <3> QED BY <3>1 DEF SolvedCell, Tried
  <2> QED BY <2>2, <2>3 DEF v
<1> QED BY <1>1, <1>2 DEF StandingsAreRight

\* In every reachable state the answer that a request would compute has a row for
\* every participant, at the rank and with the cells that the rules of the ranking
\* give, whatever the rows went through between the four reads.
THEOREM RankingIsRight == StandingsSpec => []StandingsAreRight
BY StandingsAlways, AnswersAreRight, PTL

\* No step takes back a solved problem.
LEMMA NothingUnsolved ==
    ASSUME StandingsInv, [StandingsNext]_vars, shown'.since = shown.since, changes = shown.since,
           NEW u \in Users, NEW p \in Problems, shown.penalty[u][p] # None, ~Overwritten(u, p)
    PROVE  shown'.penalty[u][p] # None /\ shown'.penalty[u][p] <= shown.penalty[u][p]
<1>0. TypesOK /\ TablesOK /\ ShownOK /\ ViewIsCurrent /\ ShownIsSolved
  BY DEF StandingsInv, TypesOK
<1>1. CASE shown' = shown
  <2>1. shown.penalty[u][p] \in 0 .. now /\ now \in Nat BY <1>0 DEF ShownOK, TablesOK
  <2> QED BY <1>1, <2>1
<1>2. CASE ReadSubmissions
  <2>1. view.pc = "submissions" /\ view # Idle /\ shown'.since = view.since
    BY <1>2 DEF ReadSubmissions, Idle
  <2>2. view.since = changes BY <2>1
  <2>3. PICK n \in DOMAIN submissions : Shows(n, u, p, shown.penalty[u][p])
    BY <1>0 DEF ShownIsSolved
  <2>4. view.joined[u] # None BY <1>0, <2>1, <2>2 DEF ShownIsSolved
  <2>5. /\ view.contest = contest /\ view.problems = problems /\ joined[u] = view.joined[u]
    BY <1>0, <2>1, <2>2, <2>4 DEF ViewIsCurrent
  <2>6. submissions[n] \in Written BY <1>0, WrittenIs
  <2>7. Solves(n, u, p) BY <2>3, <2>4, <2>5, <2>6 DEF Shows, Solves
  <2>8. shown.penalty[u][p] = submissions[n].created - view.contest.start
    BY <2>3, <2>5 DEF Shows
  <2>9. /\ shown'.penalty[u][p] # None
        /\ shown'.penalty[u][p] <= submissions[n].created - view.contest.start
    BY <1>0, <1>2, <2>7, AnswerIs
  <2> QED BY <2>8, <2>9
<1>3. shown' = shown \/ ReadSubmissions
  BY DEF StandingsNext, ReadContest, ReadProblems, ReadParticipants, vars
<1> QED BY <1>1, <1>2, <1>3

LEMMA StepKeepsSolved ==
    ASSUME StandingsInv, [StandingsNext]_vars
    PROVE  [shown'.since = shown.since /\ changes = shown.since =>
              \A u \in Users, p \in Problems :
                 shown.penalty[u][p] # None /\ ~Overwritten(u, p) =>
                    shown'.penalty[u][p] # None /\ shown'.penalty[u][p] <= shown.penalty[u][p]]_vars
BY NothingUnsolved

\* Unless there was an edit or a rejudge, or a settled status of a submission of
\* this user to this problem was written again, a problem that one answer showed
\* as solved is solved in the next, with no more penalty.
THEOREM SolvedIsKept == StandingsSpec => SolvedStays
<1>1. StandingsInv /\ [StandingsNext]_vars =>
        [shown'.since = shown.since /\ changes = shown.since =>
              \A u \in Users, p \in Problems :
                 shown.penalty[u][p] # None /\ ~Overwritten(u, p) =>
                    shown'.penalty[u][p] # None /\ shown'.penalty[u][p] <= shown.penalty[u][p]]_vars
  BY StepKeepsSolved
<1> QED BY <1>1, StandingsAlways, PTL DEF StandingsSpec, SolvedStays
====
