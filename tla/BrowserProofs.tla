---- MODULE BrowserProofs ----
(***************************************************************************)
(* Proofs about Browser, part by part, for any tabs, problems, contests,   *)
(* languages, texts, rows, accounts and requests; at the end they are put  *)
(* together: a behaviour of Browser is one of every part of it.            *)
(***************************************************************************)
EXTENDS Browser, FiniteSetTheorems, SequenceTheorems, WellFoundedInduction, TLAPS

----------------------------------------------------------------------------
(* Numbers.                                                                *)

\* Among natural numbers there is a least one.
LEMMA LeastNat ==
    ASSUME NEW T \in SUBSET Nat, T # {} PROVE \E x \in T : \A y \in T : x <= y
<1>1. \E x \in T : \A y \in T : ~(<<y, x>> \in OpToRel(<, Nat))
  BY NatLessThanWellFounded, WFMin
<1>2. ASSUME NEW y \in Nat, NEW x \in Nat PROVE <<y, x>> \in OpToRel(<, Nat) <=> y < x
  BY DEF OpToRel
<1>3. PICK x \in T : \A y \in T : ~(<<y, x>> \in OpToRel(<, Nat)) BY <1>1
<1>4. \A y \in T : x <= y
  <2> SUFFICES ASSUME NEW y \in T PROVE x <= y OBVIOUS
  <2>1. ~(y < x) /\ x \in Nat /\ y \in Nat BY <1>2, <1>3
  <2> QED BY <2>1
<1> QED BY <1>4

----------------------------------------------------------------------------
(* ProblemDrawer: no problem twice, and none missing at the end.           *)

DrawerSpec == DrawerInit /\ [][DrawerNext]_drawerVars

\* s lists S in falling order.
ListsFalling(s, S) ==
    /\ s \in [1 .. Cardinality(S) -> S]
    /\ \A n \in S : \E i \in 1 .. Cardinality(S) : s[i] = n
    /\ \A i, j \in 1 .. Cardinality(S) : i < j => s[i] > s[j]
\* A set that cannot be listed.
Unlisted(S) == ~\E s : ListsFalling(s, S)

LEMMA OneMore ==
    ASSUME NEW T \in SUBSET Nat, IsFiniteSet(T), NEW m \in T, \A x \in T : m <= x,
           NEW s, ListsFalling(s, T \ {m})
    PROVE  \E t : ListsFalling(t, T)
<1> DEFINE k == Cardinality(T)
           t == [i \in 1 .. k |-> IF i = k THEN m ELSE s[i]]
<1>1. IsFiniteSet(T \ {m}) /\ Cardinality(T \ {m}) = k - 1 BY FS_RemoveElement
<1>2. k \in Nat /\ Cardinality(T \ {m}) \in Nat BY <1>1, FS_CardinalityType
<1> HIDE DEF k
<1>3. k >= 1 BY <1>1, <1>2
<1>4. \A i \in 1 .. k : i # k => i \in 1 .. (k - 1) BY <1>2
<1>5. /\ s \in [1 .. (k - 1) -> T \ {m}]
      /\ \A n \in T \ {m} : \E i \in 1 .. (k - 1) : s[i] = n
      /\ \A i, j \in 1 .. (k - 1) : i < j => s[i] > s[j]
  BY <1>1 DEF ListsFalling
<1>6. t \in [1 .. k -> T] BY <1>4, <1>5
<1>7. ASSUME NEW n \in T PROVE \E i \in 1 .. k : t[i] = n
  <2>1. CASE n = m
    <3>1. k \in 1 .. k BY <1>2, <1>3
    <3> QED BY <2>1, <3>1
  <2>2. CASE n # m
    <3>1. PICK i \in 1 .. (k - 1) : s[i] = n BY <1>5, <2>2
    <3>2. i \in 1 .. k /\ i # k BY <1>2
    <3> QED BY <3>1, <3>2
  <2> QED BY <2>1, <2>2
<1>8. ASSUME NEW i \in 1 .. k, NEW j \in 1 .. k, i < j PROVE t[i] > t[j]
  <2>1. i # k /\ i \in 1 .. (k - 1) BY <1>2, <1>8
  <2>2. t[i] = s[i] /\ s[i] \in T \ {m} BY <1>5, <2>1
  <2>3. CASE j = k
    <3>1. m <= s[i] /\ m # s[i] /\ m \in Nat /\ s[i] \in Nat BY <2>2
    <3>2. t[j] = m BY <2>3
    <3> QED BY <2>2, <3>1, <3>2
  <2>4. CASE j # k
    <3>1. j \in 1 .. (k - 1) /\ t[j] = s[j] BY <1>4, <2>4
    <3> QED BY <1>5, <1>8, <2>1, <2>2, <3>1
  <2> QED BY <2>3, <2>4
<1>9. ListsFalling(t, T)
  <2> HIDE DEF t
  <2> QED BY <1>6, <1>7, <1>8 DEF ListsFalling, k
<1> QED BY <1>9

LEMMA EverySetIsListed ==
    ASSUME NEW S \in SUBSET Nat, IsFiniteSet(S) PROVE \E s : ListsFalling(s, S)
<1> SUFFICES ASSUME Unlisted(S) PROVE FALSE BY DEF Unlisted
<1> DEFINE Bad == {T \in SUBSET S : Unlisted(T)}
           Sizes == {Cardinality(T) : T \in Bad}
<1>1. ASSUME NEW T \in SUBSET S PROVE IsFiniteSet(T) /\ Cardinality(T) \in Nat
  BY FS_Subset, FS_CardinalityType
<1>2. Sizes \in SUBSET Nat /\ Sizes # {} BY <1>1
<1>3. \E c \in Sizes : \A d \in Sizes : c <= d
  <2> HIDE DEF Sizes
  <2> QED BY <1>2, LeastNat
<1>4. PICK T \in Bad : \A U \in Bad : Cardinality(T) <= Cardinality(U) BY <1>3
<1>5. T \in SUBSET Nat /\ T \in SUBSET S /\ IsFiniteSet(T) /\ Unlisted(T) BY <1>1
<1>6. CASE T = {}
  <2>1. Cardinality(T) = 0 BY <1>6, FS_EmptySet
  <2>2. ListsFalling([i \in 1 .. 0 |-> 0], T) BY <1>6, <2>1 DEF ListsFalling
  <2> QED BY <1>5, <2>2 DEF Unlisted
<1>7. CASE T # {}
  <2>1. PICK m \in T : \A x \in T : m <= x BY <1>5, <1>7, LeastNat
  <2>2. Cardinality(T \ {m}) = Cardinality(T) - 1 BY <1>5, FS_RemoveElement
  <2>3. Cardinality(T) \in Nat /\ T \ {m} \in SUBSET S BY <1>1, <1>5
  <2>4. ~Unlisted(T \ {m})
    <3>1. SUFFICES ASSUME Unlisted(T \ {m}) PROVE FALSE OBVIOUS
    <3>2. Cardinality(T) <= Cardinality(T \ {m}) BY <1>4, <2>3, <3>1
    <3> QED BY <2>2, <2>3, <3>2
  <2>5. PICK s : ListsFalling(s, T \ {m}) BY <2>4 DEF Unlisted
  <2>6. \E t : ListsFalling(t, T) BY <1>5, <2>1, <2>5, OneMore
  <2> QED BY <1>5, <2>6 DEF Unlisted
<1> QED BY <1>6, <1>7

LEMMA FallingLists ==
    ASSUME NEW S \in SUBSET Nat, IsFiniteSet(S)
    PROVE  /\ ListsFalling(Falling(S), S)
           /\ Cardinality(S) \in Nat /\ Falling(S) \in Seq(S) /\ Len(Falling(S)) = Cardinality(S)
           /\ ToSet(Falling(S)) = S
           /\ \A i, j \in DOMAIN Falling(S) : Falling(S)[i] = Falling(S)[j] => i = j
<1>1. \E s \in [1 .. Cardinality(S) -> S] :
        /\ \A n \in S : \E i \in 1 .. Cardinality(S) : s[i] = n
        /\ \A i, j \in 1 .. Cardinality(S) : i < j => s[i] > s[j]
  BY EverySetIsListed DEF ListsFalling
<1>2. ListsFalling(Falling(S), S) BY <1>1 DEF Falling, ListsFalling
<1>3. Cardinality(S) \in Nat BY FS_CardinalityType
<1> DEFINE s == Falling(S)
           k == Cardinality(S)
<1>4. /\ s \in [1 .. k -> S]
      /\ \A n \in S : \E i \in 1 .. k : s[i] = n
      /\ \A i, j \in 1 .. k : i < j => s[i] > s[j]
  BY <1>2 DEF ListsFalling
<1> HIDE DEF s, k
<1>5. k \in Nat BY <1>3 DEF k
<1>6. s \in Seq(S) /\ Len(s) = k /\ DOMAIN s = 1 .. k BY <1>4, <1>5, SeqDef
<1>7. ToSet(s) = S BY <1>4 DEF ToSet
<1>8. ASSUME NEW i \in 1 .. k, NEW j \in 1 .. k, s[i] = s[j] PROVE i = j
  <2>0. s[i] \in S /\ s[j] \in S BY <1>4, <1>8
  <2>1. s[i] \in Nat /\ s[j] \in Nat BY <2>0
  <2>3. i \in Nat /\ j \in Nat BY <1>5
  <2>2. ~(i < j) /\ ~(j < i) BY <1>4, <1>8, <2>1
  <2> QED BY <2>2, <2>3
<1> QED BY <1>2, <1>3, <1>6, <1>7, <1>8 DEF s, k

----------------------------------------------------------------------------
(* The answers of the server.                                              *)

Ids == Catalogue \cup NewProblems
Distinct(s) == \A i, j \in DOMAIN s : s[i] = s[j] => i = j
Leading(f, n) == {Found(f)[i] : i \in {j \in 1 .. Len(Found(f)) : j <= n}}
FoundIsListed(f) ==
    /\ Found(f) \in Seq(Ids) /\ Len(Found(f)) \in Nat
    /\ DOMAIN Found(f) = 1 .. Len(Found(f))
    /\ ToSet(Found(f)) = catalogue \cap Matches[f]
    /\ Distinct(Found(f))

LEMMA FoundFacts == ASSUME NEW f, catalogue \in SUBSET Ids PROVE FoundIsListed(f)
<1>1. catalogue \cap Matches[f] \in SUBSET Nat /\ catalogue \cap Matches[f] \in SUBSET Ids
  BY DrawerAssumption DEF Ids
<1>2. IsFiniteSet(catalogue \cap Matches[f]) BY <1>1, FS_Subset, DrawerAssumption DEF Ids
<1> DEFINE S == catalogue \cap Matches[f]
<1>3. /\ Falling(S) \in Seq(S) /\ ToSet(Falling(S)) = S /\ Distinct(Falling(S))
  BY <1>1, <1>2, FallingLists DEF Distinct
<1>4. Falling(S) = Found(f) BY DEF Found
<1> HIDE DEF S
<1>5. Found(f) \in Seq(S) /\ ToSet(Found(f)) = S /\ Distinct(Found(f)) BY <1>3, <1>4
<1>6. Len(Found(f)) \in Nat /\ DOMAIN Found(f) = 1 .. Len(Found(f)) BY <1>5
<1>7. \A i \in 1 .. Len(Found(f)) : Found(f)[i] \in Ids BY <1>1, <1>5 DEF S
<1>8. Found(f) \in Seq(Ids) BY <1>5, <1>6, <1>7
<1> QED BY <1>5, <1>6, <1>8 DEF FoundIsListed, S

\* Page n of Found(f) is what lies between the ends of the pages n - 1 and n.
LEMMA PageFacts ==
    ASSUME NEW f, FoundIsListed(f), NEW n \in Nat, n >= 1
    PROVE  /\ PageOfFound(f, n) \in Seq(Ids) /\ Distinct(PageOfFound(f, n))
           /\ \A k \in Nat : k = (n - 1) * DrawerPageSize =>
                  Leading(f, k) \cup ToSet(PageOfFound(f, n)) = Leading(f, n * DrawerPageSize)
<1> DEFINE s == Found(f)
           L == Len(Found(f))
           k == (n - 1) * DrawerPageSize
           top == n * DrawerPageSize
           end == IF top < L THEN top ELSE L
           p == PageOfFound(f, n)
<1>1. DrawerPageSize \in Nat /\ DrawerPageSize >= 1 BY DrawerAssumption
<1>2. k \in Nat /\ top = k + DrawerPageSize
  <2>1. PICK m \in Nat : n = m + 1 /\ m = n - 1 OBVIOUS
  <2>2. (m + 1) * DrawerPageSize = m * DrawerPageSize + DrawerPageSize BY <1>1, <2>1
  <2>3. m * DrawerPageSize \in Nat BY <1>1, <2>1
  <2> QED BY <2>1, <2>2, <2>3
<1>3. p = SubSeq(s, k + 1, end) BY DEF PageOfFound
<1>4. /\ s \in Seq(Ids) /\ L \in Nat /\ L = Len(s) /\ DOMAIN s = 1 .. L
      /\ \A i, j \in 1 .. L : s[i] = s[j] => i = j
  BY DEF FoundIsListed, Distinct
<1>5. Leading(f, k) = {s[i] : i \in {j \in 1 .. L : j <= k}} BY DEF Leading
<1>6. Leading(f, top) = {s[i] : i \in {j \in 1 .. L : j <= top}} BY DEF Leading
<1> HIDE DEF s, L, k, top, p
<1>7. top \in Nat /\ k < top BY <1>1, <1>2
<1>8. end \in Nat /\ end <= L /\ end <= top /\ \A i \in Nat : i <= L /\ i <= top => i <= end
  BY <1>4, <1>7
<1> HIDE DEF end
<1>9. CASE k + 1 <= end
  <2>1. \A i \in k + 1 .. end : i \in 1 .. L BY <1>2, <1>4, <1>8
  <2>2. /\ p \in Seq(Ids) /\ Len(p) = end - (k + 1) + 1
        /\ \A i \in 1 .. end - (k + 1) + 1 : p[i] = s[k + 1 + i - 1]
    BY <1>2, <1>3, <1>4, <1>8, <1>9, <2>1, SubSeqProperties
  <2>3. end - (k + 1) + 1 = end - k /\ end - k \in Nat BY <1>2, <1>8, <1>9
  <2>4. DOMAIN p = 1 .. (end - k) BY <2>2, <2>3
  <2>5. ASSUME NEW i \in 1 .. (end - k)
        PROVE  p[i] = s[k + i] /\ k + i \in 1 .. L /\ k + i <= top /\ i \in Nat
    <3>1. k + 1 + i - 1 = k + i BY <1>2, <1>8
    <3>2. k + i \in 1 .. L /\ k + i <= top BY <1>2, <1>4, <1>8, <2>3
    <3> QED BY <2>2, <2>3, <3>1, <3>2
  <2>6. Distinct(p)
    <3>1. SUFFICES ASSUME NEW i \in 1 .. (end - k), NEW j \in 1 .. (end - k), p[i] = p[j]
                   PROVE  i = j
      BY <2>4 DEF Distinct
    <3>2. k + i = k + j BY <1>4, <2>5, <3>1
    <3> QED BY <1>2, <2>5, <3>2
  <2>7. ASSUME NEW x \in ToSet(p) PROVE x \in Leading(f, top)
    <3>1. PICK i \in 1 .. (end - k) : x = p[i] BY <2>4 DEF ToSet
    <3> QED BY <1>6, <2>5, <3>1
  <2>8. ASSUME NEW x \in Leading(f, top) PROVE x \in Leading(f, k) \cup ToSet(p)
    <3>1. PICK i \in 1 .. L : x = s[i] /\ i <= top BY <1>6
    <3>2. CASE i <= k BY <1>5, <3>1, <3>2
    <3>3. CASE ~(i <= k)
      <4>1. i - k \in 1 .. (end - k) /\ k + (i - k) = i BY <1>2, <1>4, <1>8, <3>1, <3>3
      <4>2. x = p[i - k] BY <2>5, <3>1, <4>1
      <4> QED BY <2>4, <4>1, <4>2 DEF ToSet
    <3> QED BY <3>2, <3>3
  <2>9. Leading(f, k) \subseteq Leading(f, top) BY <1>2, <1>4, <1>5, <1>6, <1>7
  <2>10. Leading(f, k) \cup ToSet(p) = Leading(f, top) BY <2>7, <2>8, <2>9
  <2> QED BY <2>2, <2>6, <2>10 DEF k, top, p
<1>10. CASE ~(k + 1 <= end)
  <2>1. p = <<>> BY <1>2, <1>3, <1>4, <1>8, <1>10, SubSeqProperties
  <2>2. ToSet(p) = {} /\ Distinct(p) /\ p \in Seq(Ids) BY <2>1 DEF ToSet, Distinct
  <2>3. \A i \in 1 .. L : i <= k <=> i <= top BY <1>2, <1>4, <1>7, <1>8, <1>10
  <2>4. Leading(f, k) = Leading(f, top) BY <1>5, <1>6, <2>3
  <2> QED BY <2>2, <2>4 DEF k, top, p
<1> QED BY <1>9, <1>10

----------------------------------------------------------------------------
(* The list grows by a page.                                               *)

\* What of a page is not listed yet, in falling order.
LEMMA AppendFacts ==
    ASSUME NEW more, more \in Seq(Ids), items \in Seq(Ids), Distinct(items)
    PROVE  /\ AppendNew(more) \in Seq(Ids) /\ Distinct(AppendNew(more))
           /\ ToSet(AppendNew(more)) = ToSet(items) \cup ToSet(more)
<1> DEFINE S == ToSet(more) \ ToSet(items)
           t == Falling(S)
           s == AppendNew(more)
<1>1. ToSet(more) \in SUBSET Ids BY DEF ToSet
<1>2. S \in SUBSET Ids /\ S \in SUBSET Nat BY <1>1, DrawerAssumption DEF Ids
<1>3. IsFiniteSet(S) BY <1>2, FS_Subset, DrawerAssumption DEF Ids
<1>4. s = items \o t BY DEF AppendNew
<1>5. t \in Seq(S) /\ ToSet(t) = S /\ \A i, j \in DOMAIN t : t[i] = t[j] => i = j
  <2> HIDE DEF S
  <2> QED BY <1>2, <1>3, FallingLists
<1> DEFINE n == Len(items)
           m == Len(t)
<1> HIDE DEF S, t, s
<1>6. t \in Seq(Ids) /\ DOMAIN t = 1 .. m /\ m \in Nat
  <2>1. DOMAIN t = 1 .. m /\ m \in Nat BY <1>5
  <2>2. \A i \in 1 .. m : t[i] \in S BY <1>5, <2>1
  <2>3. \A i \in 1 .. m : t[i] \in Ids BY <1>2, <2>2
  <2> QED BY <1>5, <2>1, <2>3
<1>7. n \in Nat /\ DOMAIN items = 1 .. n OBVIOUS
<1>8. /\ s \in Seq(Ids) /\ Len(s) = n + m
      /\ \A i \in 1 .. n + m : s[i] = IF i <= n THEN items[i] ELSE t[i - n]
  BY <1>4, <1>6, ConcatProperties
<1> HIDE DEF n, m
<1>9. DOMAIN s = 1 .. (n + m) BY <1>8
<1>10. ASSUME NEW i \in 1 .. n PROVE i \in 1 .. (n + m) /\ s[i] = items[i]
  <2>1. i \in 1 .. (n + m) /\ i <= n BY <1>6, <1>7
  <2> QED BY <1>8, <2>1
<1>11. ASSUME NEW i \in 1 .. m PROVE i + n \in 1 .. (n + m) /\ s[i + n] = t[i]
  <2>1. i + n \in 1 .. (n + m) /\ ~(i + n <= n) /\ (i + n) - n = i BY <1>6, <1>7
  <2> QED BY <1>8, <2>1
<1>12. ASSUME NEW i \in 1 .. (n + m), ~(i \in 1 .. n)
       PROVE  i - n \in 1 .. m /\ s[i] = t[i - n]
  <2>1. i - n \in 1 .. m /\ ~(i <= n) BY <1>6, <1>7, <1>12
  <2> QED BY <1>8, <2>1
<1>13. \A i \in 1 .. m : t[i] \in S BY <1>5, <1>6 DEF ToSet
<1>14. \A i \in 1 .. n : items[i] \in ToSet(items) BY <1>7 DEF ToSet
<1>15. ASSUME NEW i \in 1 .. (n + m), NEW j \in 1 .. (n + m), s[i] = s[j] PROVE i = j
  <2>1. CASE i \in 1 .. n /\ j \in 1 .. n BY <1>7, <1>10, <1>15, <2>1 DEF Distinct
  <2>2. CASE ~(i \in 1 .. n) /\ ~(j \in 1 .. n)
    <3>1. i - n = j - n BY <1>5, <1>6, <1>12, <1>15, <2>2
    <3> QED BY <1>7, <1>6, <3>1
  <2>3. CASE i \in 1 .. n /\ ~(j \in 1 .. n)
    <3>1. s[i] \in ToSet(items) BY <1>10, <1>14, <2>3
    <3>2. s[j] \in S BY <1>12, <1>13, <2>3
    <3> QED BY <1>15, <3>1, <3>2 DEF S
  <2>4. CASE ~(i \in 1 .. n) /\ j \in 1 .. n
    <3>1. s[j] \in ToSet(items) BY <1>10, <1>14, <2>4
    <3>2. s[i] \in S BY <1>12, <1>13, <2>4
    <3> QED BY <1>15, <3>1, <3>2 DEF S
  <2> QED BY <2>1, <2>2, <2>3, <2>4
<1>16. Distinct(s) BY <1>9, <1>15 DEF Distinct
<1>17. ToSet(s) = ToSet(items) \cup S
  <2>1. ASSUME NEW x \in ToSet(s) PROVE x \in ToSet(items) \cup S
    <3>1. PICK i \in 1 .. (n + m) : x = s[i] BY <1>9 DEF ToSet
    <3> QED BY <1>10, <1>12, <1>13, <1>14, <3>1
  <2>2. ASSUME NEW x \in ToSet(items) PROVE x \in ToSet(s)
    <3>1. PICK i \in 1 .. n : x = items[i] BY <1>7 DEF ToSet
    <3> QED BY <1>9, <1>10, <3>1 DEF ToSet
  <2>3. ASSUME NEW x \in S PROVE x \in ToSet(s)
    <3>1. PICK i \in 1 .. m : x = t[i] BY <1>5, <1>6 DEF ToSet
    <3>2. i + n \in 1 .. (n + m) /\ s[i + n] = x BY <1>11, <3>1
    <3> QED BY <1>9, <3>2 DEF ToSet
  <2> QED BY <2>1, <2>2, <2>3
<1>18. ToSet(items) \cup S = ToSet(items) \cup ToSet(more) BY DEF S
<1> QED BY <1>8, <1>16, <1>17, <1>18 DEF s

----------------------------------------------------------------------------
(* The invariant.                                                          *)

\* The drawer shows, or waits for, the list of its filter.
FilterApplied == drawerOpen /\ ~resetTimer
\* The latest list is asked for and not answered.
Awaited(r) == r.reset /\ r.list = resets
RequestOK(r) ==
    /\ r.page >= 1 /\ r.seen <= edits
    /\ r.reset =>
        r.page = 1 /\ r.list <= resets /\ (FilterApplied /\ r.list = resets => r.filter = filter)
\* No page repeats a problem; what the server counted and read is what there is, unless the
\* catalogue changed since it counted.
ServedOK(r) ==
    /\ Distinct(r.rows)
    /\ r.step # "count" /\ r.seen = edits => r.total = Len(Found(r.filter))
    /\ r.step = "answer" /\ r.seen = edits => r.rows = PageOfFound(r.filter, r.page)
\* The pages fetched so far, and whether there are more.
IsFetched ==
    /\ ToSet(items) = Leading(filter, page * DrawerPageSize)
    /\ hasMore = (page * DrawerPageSize < Len(Found(filter)))
Quiet == FilterApplied /\ ~mixed /\ \A r \in drawerAsked : ~Awaited(r)
DrawerInv ==
    /\ DrawerTypeOK
    /\ resetTimer => drawerOpen
    /\ \A r \in drawerAsked : RequestOK(r)
    /\ \A r \in drawerAsked : ServedOK(r)
    /\ Distinct(items)
    /\ Quiet => IsFetched

LEMMA DrawerStart == DrawerInit => DrawerInv
<1> SUFFICES ASSUME DrawerInit PROVE DrawerInv OBVIOUS
<1>1. 0 \in 0 .. MaxResets /\ 0 \in 0 .. MaxEdits BY DrawerAssumption
<1>2. items \in Seq(Catalogue \cup NewProblems) BY DEF DrawerInit
<1>3. DrawerTypeOK BY <1>1, <1>2, DrawerAssumption DEF DrawerInit, DrawerTypeOK
<1>4. Distinct(items) /\ ~Quiet BY DEF DrawerInit, Distinct, Quiet, FilterApplied
<1> QED BY <1>3, <1>4 DEF DrawerInit, DrawerInv

\* While the catalogue stays, what was served stays right.
LEMMA ServedStays ==
    ASSUME UNCHANGED <<catalogue, edits>>, NEW r, ServedOK(r) PROVE ServedOK(r)'
<1>1. ASSUME NEW f PROVE Found(f)' = Found(f) BY DEF Found
<1>2. PageOfFound(r.filter, r.page)' = PageOfFound(r.filter, r.page)
  BY <1>1 DEF PageOfFound, Found
<1> QED BY <1>1, <1>2 DEF ServedOK, Distinct

LEMMA ToggleKeeps == DrawerInv /\ ToggleDrawer => DrawerInv'
<1> SUFFICES ASSUME DrawerInv, ToggleDrawer PROVE DrawerInv' OBVIOUS
<1> USE DEF ToggleDrawer, viewVars
<1>1. DrawerTypeOK' BY DEF DrawerInv, DrawerTypeOK
<1>2. ~FilterApplied' /\ ~Quiet' /\ (resetTimer => drawerOpen)'
  BY DEF DrawerInv, FilterApplied, Quiet
<1>3. (\A r \in drawerAsked : RequestOK(r))' BY <1>2 DEF DrawerInv, RequestOK
<1>4. Distinct(items)' BY DEF DrawerInv, Distinct
<1>5. (\A r \in drawerAsked : ServedOK(r))' BY ServedStays DEF DrawerInv
<1> QED BY <1>1, <1>2, <1>3, <1>4, <1>5 DEF DrawerInv

LEMMA ChangeKeeps == ASSUME NEW f \in Filters PROVE DrawerInv /\ ChangeFilter(f) => DrawerInv'
<1> SUFFICES ASSUME DrawerInv, ChangeFilter(f) PROVE DrawerInv' OBVIOUS
<1> USE DEF ChangeFilter, viewVars
<1>1. DrawerTypeOK' BY DEF DrawerInv, DrawerTypeOK
<1>2. ~FilterApplied' /\ ~Quiet' /\ (resetTimer => drawerOpen)'
  BY DEF DrawerInv, FilterApplied, Quiet
<1>3. (\A r \in drawerAsked : RequestOK(r))' BY <1>2 DEF DrawerInv, RequestOK
<1>4. Distinct(items)' BY DEF DrawerInv, Distinct
<1>5. (\A r \in drawerAsked : ServedOK(r))' BY ServedStays DEF DrawerInv
<1> QED BY <1>1, <1>2, <1>3, <1>4, <1>5 DEF DrawerInv

LEMMA LoadResetKeeps == DrawerInv /\ LoadReset => DrawerInv'
<1> SUFFICES ASSUME DrawerInv, LoadReset PROVE DrawerInv' OBVIOUS
<1>0. /\ drawerAsked' = drawerAsked \cup {NewRequest(TRUE, resets', 1)}
      /\ resets < MaxResets /\ resets' = resets + 1
      /\ UNCHANGED <<catalogue, drawerOpen, filter, items, page, loadingMore, origin, mixed, edits>>
      /\ resetTimer' = FALSE /\ loading' = TRUE /\ hasMore' = TRUE
  BY DEF LoadReset
<1>1. /\ resets \in 0 .. MaxResets /\ MaxResets \in Nat
      /\ drawerAsked \subseteq Request /\ filter \in Filters
  BY DrawerAssumption DEF DrawerInv, DrawerTypeOK, Request
<1>2. resets' \in 0 .. MaxResets BY <1>0, <1>1
<1>3. PICK q \in Request :
          /\ drawerAsked' = drawerAsked \cup {q}
          /\ q.reset = TRUE /\ q.list = resets' /\ q.filter = filter /\ q.page = 1
          /\ q.step = "count" /\ q.seen = 0 /\ q.rows = <<>>
  <2>1. PICK l : l = resets' OBVIOUS
  <2>2. PICK q : q = NewRequest(TRUE, l, 1) OBVIOUS
  <2>3. l \in 0 .. MaxResets /\ 0 \in 0 .. MaxEdits /\ <<>> \in Seq(Catalogue \cup NewProblems)
    BY <1>2, <2>1, DrawerAssumption
  <2>4. /\ q.reset = TRUE /\ q.list = l /\ q.filter = filter /\ q.page = 1
        /\ q.step = "count" /\ q.seen = 0 /\ q.rows = <<>>
    BY <2>2 DEF NewRequest
  <2>5. q \in Request BY <1>1, <2>2, <2>3 DEF NewRequest, Request
  <2>6. drawerAsked' = drawerAsked \cup {q} BY <1>0, <2>1, <2>2 DEF NewRequest
  <2> QED BY <2>1, <2>4, <2>5, <2>6
<1>4. DrawerTypeOK'
  <2>1. drawerAsked' \subseteq Request BY <1>1, <1>3
  <2> QED BY <1>0, <1>2, <2>1 DEF DrawerInv, DrawerTypeOK
<1>5. q \in drawerAsked' /\ Awaited(q)' BY <1>3 DEF Awaited
<1>6. ~Quiet' BY <1>5 DEF Quiet
<1>7. ASSUME NEW r \in drawerAsked' PROVE RequestOK(r)'
  <2>0. edits' \in Nat BY <1>0, DrawerAssumption DEF DrawerInv, DrawerTypeOK
  <2>1. CASE r = q BY <1>0, <1>2, <1>3, <2>0, <2>1 DEF RequestOK
  <2>2. CASE r \in drawerAsked
    <3>1. RequestOK(r) /\ r.list \in 0 .. MaxResets BY <1>1, <2>2 DEF DrawerInv, Request
    <3>2. r.reset => r.list <= resets' /\ r.list # resets' BY <1>0, <1>1, <3>1 DEF RequestOK
    <3> QED BY <1>0, <3>1, <3>2 DEF RequestOK
  <2> QED BY <1>3, <2>1, <2>2
<1>8. (\A r \in drawerAsked : RequestOK(r))' BY <1>7
<1>9. Distinct(items)' /\ (resetTimer => drawerOpen)' BY <1>0 DEF DrawerInv, Distinct
<1>10. (\A r \in drawerAsked : ServedOK(r))'
  <2>1. ServedOK(q)' BY <1>3 DEF ServedOK, Distinct
  <2> QED BY <1>0, <1>3, <2>1, ServedStays DEF DrawerInv
<1> QED BY <1>4, <1>6, <1>8, <1>9, <1>10 DEF DrawerInv

LEMMA LoadMoreKeeps == DrawerInv /\ LoadMore => DrawerInv'
<1> SUFFICES ASSUME DrawerInv, LoadMore PROVE DrawerInv' OBVIOUS
<1>0. /\ drawerAsked' = drawerAsked \cup {NewRequest(FALSE, origin, page + 1)}
      /\ loadingMore' = TRUE
      /\ UNCHANGED <<catalogue, drawerOpen, filter, resetTimer, items, page, hasMore, origin,
                     mixed, loading, resets, edits>>
  BY DEF LoadMore, viewVars
<1>1. /\ drawerAsked \subseteq Request /\ filter \in Filters /\ page \in Nat
      /\ origin \in 0 .. MaxResets
  BY DEF DrawerInv, DrawerTypeOK, Request
<1>2. PICK q \in Request :
          /\ drawerAsked' = drawerAsked \cup {q} /\ q.reset = FALSE /\ q.page = page + 1
          /\ q.step = "count" /\ q.seen = 0 /\ q.rows = <<>>
  <2>1. PICK q : q = NewRequest(FALSE, origin, page + 1) OBVIOUS
  <2>2. 0 \in 0 .. MaxEdits /\ <<>> \in Seq(Catalogue \cup NewProblems) BY DrawerAssumption
  <2>3. q.reset = FALSE /\ q.page = page + 1 /\ q.step = "count" /\ q.seen = 0 /\ q.rows = <<>>
    BY <2>1 DEF NewRequest
  <2>4. q \in Request BY <1>1, <2>1, <2>2 DEF NewRequest, Request
  <2> QED BY <1>0, <2>1, <2>3, <2>4
<1>3. DrawerTypeOK' BY <1>0, <1>1, <1>2 DEF DrawerInv, DrawerTypeOK
<1>4. ASSUME NEW r \in drawerAsked' PROVE RequestOK(r)'
  <2>0. edits' \in Nat BY <1>0, DrawerAssumption DEF DrawerInv, DrawerTypeOK
  <2>1. CASE r = q BY <1>1, <1>2, <2>0, <2>1 DEF RequestOK
  <2>2. CASE r \in drawerAsked BY <1>0, <2>2 DEF DrawerInv, RequestOK, FilterApplied
  <2> QED BY <1>2, <2>1, <2>2
<1>5. (\A r \in drawerAsked : RequestOK(r))' BY <1>4
<1>6. (Quiet => IsFetched)'
  <2>1. Quiet' => Quiet
    <3>1. \A r : Awaited(r)' <=> Awaited(r) BY <1>0 DEF Awaited
    <3> QED BY <1>0, <1>2, <3>1 DEF Quiet, FilterApplied
  <2>2. IsFetched' <=> IsFetched BY <1>0 DEF IsFetched, Leading, Found
  <2> QED BY <2>1, <2>2 DEF DrawerInv
<1>7. Distinct(items)' /\ (resetTimer => drawerOpen)' BY <1>0 DEF DrawerInv, Distinct
<1>8. (\A r \in drawerAsked : ServedOK(r))'
  <2>1. ServedOK(q)' BY <1>2 DEF ServedOK, Distinct
  <2> QED BY <1>0, <1>2, <2>1, ServedStays DEF DrawerInv
<1> QED BY <1>3, <1>5, <1>6, <1>7, <1>8 DEF DrawerInv

LEMMA EditKeeps == DrawerInv /\ EditCatalogue => DrawerInv'
<1> SUFFICES ASSUME DrawerInv, EditCatalogue PROVE DrawerInv' OBVIOUS
<1>0. /\ edits < MaxEdits /\ edits' = edits + 1 /\ mixed' = TRUE
      /\ UNCHANGED <<drawerOpen, filter, resetTimer, items, page, hasMore, loading,
                     loadingMore, drawerAsked, resets, origin>>
      /\ catalogue' \subseteq catalogue \cup NewProblems
  BY DEF EditCatalogue
<1>1. DrawerTypeOK'
  <2>1. edits \in 0 .. MaxEdits /\ MaxEdits \in Nat BY DrawerAssumption DEF DrawerInv, DrawerTypeOK
  <2>2. edits' \in 0 .. MaxEdits BY <1>0, <2>1
  <2> QED BY <1>0, <2>2 DEF DrawerInv, DrawerTypeOK
<1>2. ~Quiet' BY <1>0 DEF Quiet
<1>3. ASSUME NEW r \in drawerAsked PROVE RequestOK(r)' /\ ServedOK(r)'
  <2>1. RequestOK(r) /\ ServedOK(r) /\ r \in Request BY DEF DrawerInv, DrawerTypeOK
  <2>2. r.seen \in Nat /\ edits \in Nat
    BY <2>1, DrawerAssumption DEF DrawerInv, DrawerTypeOK, Request
  <2>3. r.seen <= edits' /\ r.seen # edits' BY <1>0, <2>1, <2>2 DEF RequestOK
  <2>4. RequestOK(r)' BY <1>0, <2>1, <2>3 DEF RequestOK, FilterApplied
  <2>5. ServedOK(r)' BY <2>1, <2>3 DEF ServedOK, Distinct
  <2> QED BY <2>4, <2>5
<1>5. (\A r \in drawerAsked : RequestOK(r))' /\ (\A r \in drawerAsked : ServedOK(r))' BY <1>0, <1>3
<1>4. Distinct(items)' /\ (resetTimer => drawerOpen)' BY <1>0 DEF DrawerInv, Distinct
<1> QED BY <1>1, <1>2, <1>4, <1>5 DEF DrawerInv

\* The server counts what there is, and then reads the page.
LEMMA ServesKeep ==
    ASSUME NEW r \in drawerAsked, CountProblems(r) \/ FindProblems(r), DrawerInv PROVE DrawerInv'
<1>1. /\ r \in Request /\ RequestOK(r) /\ ServedOK(r) /\ edits \in 0 .. MaxEdits
      /\ FoundIsListed(r.filter) /\ r.page \in Nat /\ r.page >= 1
  <2>1. FoundIsListed(r.filter) BY FoundFacts DEF DrawerInv, DrawerTypeOK, Ids
  <2> QED BY <2>1 DEF DrawerInv, DrawerTypeOK, Request, RequestOK
<1>2. PICK s : /\ Becomes(r, s) /\ s \in Request
               /\ s.reset = r.reset /\ s.list = r.list /\ s.filter = r.filter /\ s.page = r.page
               /\ s.seen <= edits /\ ServedOK(s)
  <2>1. CASE CountProblems(r)
    <3>1. PICK s : s = [r EXCEPT !.step = "find", !.seen = edits, !.total = Len(Found(r.filter))]
      OBVIOUS
    <3>2. Len(Found(r.filter)) \in Nat BY <1>1 DEF FoundIsListed
    <3>3. /\ s \in Request /\ s.reset = r.reset /\ s.list = r.list /\ s.filter = r.filter
          /\ s.page = r.page /\ s.seen = edits /\ s.step = "find" /\ s.rows = r.rows
          /\ s.total = Len(Found(r.filter))
      BY <1>1, <3>1, <3>2 DEF Request
    <3>4. edits <= edits BY <1>1, DrawerAssumption
    <3>5. ServedOK(s) BY <1>1, <3>3 DEF ServedOK
    <3>6. Becomes(r, s) BY <2>1, <3>1 DEF CountProblems
    <3> QED BY <3>3, <3>4, <3>5, <3>6
  <2>2. CASE FindProblems(r)
    <3>1. PICK s : s = [r EXCEPT !.step = "answer", !.rows = PageOfFound(r.filter, r.page)]
      OBVIOUS
    <3>2. PageOfFound(r.filter, r.page) \in Seq(Ids) /\ Distinct(PageOfFound(r.filter, r.page))
      BY <1>1, PageFacts
    <3>3. /\ s \in Request /\ s.reset = r.reset /\ s.list = r.list /\ s.filter = r.filter
          /\ s.page = r.page /\ s.seen = r.seen /\ s.step = "answer" /\ s.total = r.total
          /\ s.rows = PageOfFound(r.filter, r.page)
      BY <1>1, <3>1, <3>2 DEF Request, Ids
    <3>4. r.step = "find" /\ Becomes(r, s) BY <2>2, <3>1 DEF FindProblems
    <3>5. ServedOK(s) BY <1>1, <3>2, <3>3, <3>4 DEF ServedOK
    <3>6. s.seen <= edits BY <1>1, <3>3 DEF RequestOK
    <3> QED BY <3>3, <3>4, <3>5, <3>6
  <2> QED BY <2>1, <2>2
<1>3. /\ drawerAsked' = (drawerAsked \ {r}) \cup {s}
      /\ UNCHANGED <<catalogue, drawerOpen, filter, resetTimer, items, page, hasMore, loading,
                     loadingMore, resets, origin, mixed, edits>>
  BY <1>2 DEF Becomes
<1>4. DrawerTypeOK'
  <2>1. drawerAsked' \subseteq Request BY <1>2, <1>3 DEF DrawerInv, DrawerTypeOK
  <2> QED BY <1>3, <2>1 DEF DrawerInv, DrawerTypeOK
<1>5. (\A q \in drawerAsked : RequestOK(q))'
  <2>1. RequestOK(s) BY <1>1, <1>2 DEF RequestOK
  <2> QED BY <1>3, <2>1 DEF DrawerInv, RequestOK, FilterApplied
<1>6. (\A q \in drawerAsked : ServedOK(q))' BY <1>2, <1>3, ServedStays DEF DrawerInv
<1>7. (Quiet => IsFetched)'
  <2>1. Awaited(s) <=> Awaited(r) BY <1>2 DEF Awaited
  <2>2. \A q : Awaited(q)' <=> Awaited(q) BY <1>3 DEF Awaited
  <2>3. Quiet' => Quiet BY <1>3, <2>1, <2>2 DEF Quiet, FilterApplied
  <2>4. IsFetched' <=> IsFetched BY <1>3 DEF IsFetched, Leading, Found
  <2> QED BY <2>3, <2>4 DEF DrawerInv
<1>8. Distinct(items)' /\ (resetTimer => drawerOpen)' BY <1>3 DEF DrawerInv, Distinct
<1> QED BY <1>4, <1>5, <1>6, <1>7, <1>8 DEF DrawerInv

\* A request that is answered or fails leaves the others as they were.
LEMMA FinishKeeps ==
    ASSUME NEW r \in drawerAsked, DrawerInv, Finish(r),
           UNCHANGED <<catalogue, drawerOpen, filter, resetTimer, resets, edits>>
    PROVE  /\ (\A q \in drawerAsked : RequestOK(q))'
           /\ (\A q \in drawerAsked : ServedOK(q))' /\ (resetTimer => drawerOpen)'
           /\ drawerAsked' = drawerAsked \ {r} /\ r \in Request
           /\ loading' \in BOOLEAN /\ loadingMore' \in BOOLEAN
           /\ FilterApplied' <=> FilterApplied
           /\ \A q : Awaited(q)' <=> Awaited(q)
<1>1. drawerAsked' = drawerAsked \ {r} /\ r \in Request
  BY DEF Finish, DrawerInv, DrawerTypeOK
<1>2. loading' \in BOOLEAN /\ loadingMore' \in BOOLEAN BY DEF Finish, DrawerInv, DrawerTypeOK
<1>3. (\A q \in drawerAsked : RequestOK(q))' BY <1>1 DEF DrawerInv, RequestOK, FilterApplied
<1>4. FilterApplied' <=> FilterApplied BY DEF FilterApplied
<1>5. \A q : Awaited(q)' <=> Awaited(q) BY DEF Awaited
<1>6. (\A q \in drawerAsked : ServedOK(q))' BY <1>1, ServedStays DEF DrawerInv
<1> QED BY <1>1, <1>2, <1>3, <1>4, <1>5, <1>6 DEF DrawerInv

LEMMA FailsKeep ==
    ASSUME NEW r \in drawerAsked PROVE DrawerInv /\ DrawerFails(r) => DrawerInv'
<1> SUFFICES ASSUME DrawerInv, DrawerFails(r) PROVE DrawerInv' OBVIOUS
<1>0. /\ mixed' = (mixed \/ Awaited(r)) /\ Finish(r)
      /\ UNCHANGED <<catalogue, drawerOpen, filter, resetTimer, items, page, hasMore, resets,
                     origin, edits>>
  BY DEF DrawerFails, Awaited
<1>1. /\ (\A q \in drawerAsked : RequestOK(q))'
      /\ (\A q \in drawerAsked : ServedOK(q))' /\ (resetTimer => drawerOpen)'
      /\ drawerAsked' = drawerAsked \ {r}
      /\ loading' \in BOOLEAN /\ loadingMore' \in BOOLEAN
      /\ FilterApplied' <=> FilterApplied
      /\ \A q : Awaited(q)' <=> Awaited(q)
  BY <1>0, FinishKeeps
<1>2. DrawerTypeOK' BY <1>0, <1>1 DEF DrawerInv, DrawerTypeOK
<1>3. (Quiet => IsFetched)'
  <2>1. Quiet' => Quiet BY <1>0, <1>1 DEF Quiet
  <2>2. IsFetched' <=> IsFetched BY <1>0 DEF IsFetched, Leading, Found
  <2> QED BY <2>1, <2>2 DEF DrawerInv
<1>4. Distinct(items)' BY <1>0 DEF DrawerInv, Distinct
<1> QED BY <1>1, <1>2, <1>3, <1>4 DEF DrawerInv

\* A new list: its first page.
LEMMA ResetAnswersKeep ==
    ASSUME NEW r \in drawerAsked, r.reset, DrawerInv, DrawerAnswers(r) PROVE DrawerInv'
<1>0. /\ page' = r.page /\ hasMore' = (r.page * DrawerPageSize < r.total) /\ r.step = "answer"
      /\ items' = r.rows /\ origin' = r.list /\ mixed' = (r.seen # edits \/ r.list # resets)
      /\ Finish(r) /\ UNCHANGED <<catalogue, drawerOpen, filter, resetTimer, resets, edits>>
  BY DEF DrawerAnswers
<1>1. /\ (\A q \in drawerAsked : RequestOK(q))'
      /\ (\A q \in drawerAsked : ServedOK(q))' /\ (resetTimer => drawerOpen)'
      /\ drawerAsked' = drawerAsked \ {r} /\ r \in Request
      /\ loading' \in BOOLEAN /\ loadingMore' \in BOOLEAN
      /\ FilterApplied' <=> FilterApplied
  BY <1>0, FinishKeeps
<1>2. RequestOK(r) /\ ServedOK(r) /\ r.page = 1 BY DEF DrawerInv, RequestOK
<1>3. FoundIsListed(r.filter) BY FoundFacts DEF DrawerInv, DrawerTypeOK, Ids
<1>4. items' \in Seq(Ids) /\ Distinct(items') BY <1>0, <1>1, <1>2 DEF ServedOK, Request, Ids
<1>5. Leading(r.filter, 0) = {} BY DEF Leading
<1>6. ASSUME r.seen = edits
      PROVE  /\ ToSet(items') = Leading(r.filter, page' * DrawerPageSize)
             /\ r.total = Len(Found(r.filter))
  <2>1. 0 = (1 - 1) * DrawerPageSize BY DrawerAssumption
  <2>2. items' = PageOfFound(r.filter, 1) /\ r.total = Len(Found(r.filter))
    BY <1>0, <1>2, <1>6 DEF ServedOK
  <2>3. Leading(r.filter, 0) \cup ToSet(items') = Leading(r.filter, 1 * DrawerPageSize)
    BY <1>3, <2>1, <2>2, PageFacts
  <2> QED BY <1>0, <1>2, <1>5, <2>2, <2>3
<1>7. DrawerTypeOK'
  <2>1. hasMore' \in BOOLEAN /\ mixed' \in BOOLEAN BY <1>0
  <2>2. page' \in Nat /\ origin' \in 0 .. MaxResets BY <1>0, <1>1 DEF Request
  <2> QED BY <1>0, <1>1, <1>4, <2>1, <2>2 DEF DrawerInv, DrawerTypeOK, Ids
<1>8. Quiet' => IsFetched'
  <2>1. SUFFICES ASSUME Quiet' PROVE IsFetched' OBVIOUS
  <2>2. r.seen = edits /\ r.list = resets /\ FilterApplied BY <1>0, <1>1, <2>1 DEF Quiet
  <2>3. r.filter = filter BY <1>2, <2>2 DEF RequestOK
  <2>4. \A n : Leading(filter, n)' = Leading(filter, n) BY <1>0 DEF Leading, Found
  <2>5. ToSet(items)' = ToSet(items') BY DEF ToSet
  <2>6. Len(Found(filter))' = Len(Found(filter)) BY <1>0 DEF Found
  <2>7. ToSet(items)' = Leading(filter, page * DrawerPageSize)'
    BY <1>0, <1>6, <2>2, <2>3, <2>5 DEF Leading, Found
  <2>8. hasMore' = (page * DrawerPageSize < Len(Found(filter)))'
    BY <1>0, <1>6, <2>2, <2>3, <2>6
  <2> QED BY <2>7, <2>8 DEF IsFetched
<1>9. Distinct(items)' BY <1>4 DEF Distinct
<1> QED BY <1>1, <1>7, <1>8, <1>9 DEF DrawerInv

\* The next page of the list.
LEMMA MoreAnswersKeep ==
    ASSUME NEW r \in drawerAsked, ~r.reset, DrawerInv, DrawerAnswers(r) PROVE DrawerInv'
<1>0. /\ page' = r.page /\ hasMore' = (r.page * DrawerPageSize < r.total) /\ r.step = "answer"
      /\ items' = AppendNew(r.rows) /\ origin' = origin
      /\ mixed' = (r.seen # edits \/ mixed \/ r.list # origin \/ r.page # page + 1 \/ r.filter # filter)
      /\ Finish(r) /\ UNCHANGED <<catalogue, drawerOpen, filter, resetTimer, resets, edits>>
  BY DEF DrawerAnswers
<1>1. /\ (\A q \in drawerAsked : RequestOK(q))'
      /\ (\A q \in drawerAsked : ServedOK(q))' /\ (resetTimer => drawerOpen)'
      /\ drawerAsked' = drawerAsked \ {r} /\ r \in Request
      /\ loading' \in BOOLEAN /\ loadingMore' \in BOOLEAN
      /\ FilterApplied' <=> FilterApplied
      /\ \A q : Awaited(q)' <=> Awaited(q)
  BY <1>0, FinishKeeps
<1>2. FoundIsListed(r.filter) BY FoundFacts DEF DrawerInv, DrawerTypeOK, Ids
<1>3. r.page \in Nat /\ r.page >= 1 BY <1>1 DEF DrawerInv, RequestOK, Request
<1> PICK more : more = r.rows OBVIOUS
<1>4. /\ more \in Seq(Ids)
      /\ r.seen = edits => r.total = Len(Found(r.filter))
      /\ r.seen = edits =>
            \A k \in Nat : k = (r.page - 1) * DrawerPageSize =>
                Leading(r.filter, k) \cup ToSet(more) = Leading(r.filter, r.page * DrawerPageSize)
  <2>1. more \in Seq(Ids) /\ ServedOK(r) BY <1>1 DEF Request, Ids, DrawerInv
  <2>2. r.seen = edits => more = PageOfFound(r.filter, r.page) /\ r.total = Len(Found(r.filter))
    BY <1>0, <2>1 DEF ServedOK
  <2> QED BY <1>2, <1>3, <2>1, <2>2, PageFacts
<1>5. items' = AppendNew(more) BY <1>0
<1>6. /\ items' \in Seq(Ids) /\ Distinct(items')
      /\ ToSet(items') = ToSet(items) \cup ToSet(more)
  BY <1>4, <1>5, AppendFacts DEF DrawerInv, DrawerTypeOK, Ids
<1>7. DrawerTypeOK'
  <2>1. hasMore' \in BOOLEAN /\ mixed' \in BOOLEAN
    BY <1>0 DEF DrawerInv, DrawerTypeOK
  <2>2. page' \in Nat BY <1>0, <1>3
  <2> QED BY <1>0, <1>1, <1>6, <2>1, <2>2 DEF DrawerInv, DrawerTypeOK, Ids
<1>8. Quiet' => IsFetched'
  <2>1. SUFFICES ASSUME Quiet' PROVE IsFetched' OBVIOUS
  <2>2. ~mixed /\ r.seen = edits /\ r.page = page + 1 /\ r.filter = filter /\ FilterApplied
    BY <1>0, <1>1, <2>1 DEF Quiet
  <2>3. Quiet BY <1>1, <2>1, <2>2 DEF Quiet, Awaited
  <2>4. ToSet(items) = Leading(filter, page * DrawerPageSize) BY <2>3 DEF DrawerInv, IsFetched
  <2>5. page \in Nat BY DEF DrawerInv, DrawerTypeOK
  <2>6. (r.page - 1) * DrawerPageSize = page * DrawerPageSize /\ page * DrawerPageSize \in Nat
    <3>1. r.page - 1 = page BY <2>2, <2>5
    <3> QED BY <2>5, <3>1, DrawerAssumption
  <2>7. ToSet(items') = Leading(r.filter, r.page * DrawerPageSize)
    BY <1>4, <1>6, <2>2, <2>4, <2>6
  <2>8. ToSet(items)' = ToSet(items') BY DEF ToSet
  <2>9. Len(Found(filter))' = Len(Found(filter)) BY <1>0 DEF Found
  <2>10. ToSet(items)' = Leading(filter, page * DrawerPageSize)'
    BY <1>0, <2>2, <2>7, <2>8 DEF Leading, Found
  <2>11. hasMore' = (page * DrawerPageSize < Len(Found(filter)))' BY <1>0, <1>4, <2>2, <2>9
  <2> QED BY <2>10, <2>11 DEF IsFetched
<1>9. Distinct(items)' BY <1>6 DEF Distinct
<1> QED BY <1>1, <1>7, <1>8, <1>9 DEF DrawerInv

LEMMA DrawerStep == DrawerInv /\ [DrawerNext]_drawerVars => DrawerInv'
<1> SUFFICES ASSUME DrawerInv, [DrawerNext]_drawerVars PROVE DrawerInv' OBVIOUS
<1>1. CASE ToggleDrawer BY <1>1, ToggleKeeps
<1>2. CASE \E f \in Filters : ChangeFilter(f) BY <1>2, ChangeKeeps
<1>3. CASE LoadReset BY <1>3, LoadResetKeeps
<1>4. CASE LoadMore BY <1>4, LoadMoreKeeps
<1>5. CASE \E r \in drawerAsked : DrawerAnswers(r) BY <1>5, ResetAnswersKeep, MoreAnswersKeep
<1>6. CASE \E r \in drawerAsked : DrawerFails(r) BY <1>6, FailsKeep
<1>9. CASE \E r \in drawerAsked : CountProblems(r) \/ FindProblems(r) BY <1>9, ServesKeep
<1>7. CASE EditCatalogue BY <1>7, EditKeeps
<1>8. CASE UNCHANGED drawerVars
  <2> USE <1>8 DEF drawerVars
  <2>1. DrawerTypeOK' BY DEF DrawerInv, DrawerTypeOK
  <2>2. (\A r \in drawerAsked : RequestOK(r))' BY DEF DrawerInv, RequestOK, FilterApplied
  <2>3. (Quiet => IsFetched)'
    <3>1. Quiet' <=> Quiet BY DEF Quiet, FilterApplied, Awaited
    <3>2. IsFetched' <=> IsFetched BY DEF IsFetched, Leading, Found
    <3> QED BY <3>1, <3>2 DEF DrawerInv
  <2>4. Distinct(items)' /\ (resetTimer => drawerOpen)' BY DEF DrawerInv, Distinct
  <2>5. (\A r \in drawerAsked : ServedOK(r))' BY ServedStays DEF DrawerInv
  <2> QED BY <2>1, <2>2, <2>3, <2>4, <2>5 DEF DrawerInv
<1> QED BY <1>1, <1>2, <1>3, <1>4, <1>5, <1>6, <1>7, <1>8, <1>9 DEF DrawerNext

\* As many ids as places; and a list with no more to fetch is the whole of what is found.
LEMMA DrawerRight == DrawerInv => DrawerListIsRight
<1> SUFFICES ASSUME DrawerInv PROVE DrawerListIsRight OBVIOUS
<1>1. items \in Seq(Ids) /\ Distinct(items) BY DEF DrawerInv, DrawerTypeOK, Ids
<1> DEFINE n == Len(items)
<1>2. n \in Nat /\ DOMAIN items = 1 .. n BY <1>1
<1>3. Cardinality(ToSet(items)) = n
  <2>1. items \in [1 .. n -> ToSet(items)] BY <1>1, <1>2 DEF ToSet
  <2>2. \A i, j \in 1 .. n : items[i] = items[j] => i = j BY <1>1, <1>2 DEF Distinct
  <2>3. \A x \in ToSet(items) : \E i \in 1 .. n : items[i] = x BY <1>2 DEF ToSet
  <2> HIDE DEF n
  <2>4. items \in Bijection(1 .. n, ToSet(items))
    BY <2>1, <2>2, <2>3 DEF Bijection, Injection, Surjection, IsInjective
  <2> QED BY <1>2, <2>4, FS_CountingElements DEF ExistsBijection
<1>4. ASSUME drawerOpen, ~resetTimer, drawerAsked = {}, AtTheEnd, ~mixed
      PROVE  ToSet(items) = catalogue \cap Matches[filter]
  <2>1. IsFetched BY <1>4 DEF DrawerInv, Quiet, FilterApplied
  <2>2. FoundIsListed(filter) BY FoundFacts DEF DrawerInv, DrawerTypeOK, Ids
  <2> DEFINE k == page * DrawerPageSize
             L == Len(Found(filter))
  <2>3. ToSet(items) = Leading(filter, k) /\ ~(k < L)
    BY <1>4, <2>1 DEF IsFetched, AtTheEnd
  <2>4. k \in Nat BY DrawerAssumption DEF DrawerInv, DrawerTypeOK
  <2>5. L \in Nat BY <2>2 DEF FoundIsListed
  <2> HIDE DEF k
  <2>6. \A j \in 1 .. L : j <= k BY ONLY <2>3, <2>4, <2>5
  <2>7. {j \in 1 .. L : j <= k} = 1 .. L BY <2>6
  <2>8. Leading(filter, k) = {Found(filter)[i] : i \in 1 .. L} BY <2>7 DEF Leading
  <2>9. ToSet(Found(filter)) = {Found(filter)[i] : i \in 1 .. L}
    BY <2>2 DEF FoundIsListed, ToSet
  <2> QED BY <2>2, <2>3, <2>8, <2>9 DEF FoundIsListed
<1> QED BY <1>3, <1>4 DEF DrawerListIsRight

\* The drawer lists no problem twice, and when it says that there are no more, it holds every
\* problem the filter finds (ProblemDetailPage.tsx:170, :722), unless answers of two lists
\* were mixed or the catalogue changed under them.
THEOREM DrawerIsRight == DrawerSpec => []DrawerListIsRight
<1>1. DrawerSpec => []DrawerInv BY DrawerStart, DrawerStep, PTL DEF DrawerSpec
<1> QED BY <1>1, DrawerRight, PTL

----------------------------------------------------------------------------
(* SubmissionWatch: types.                                                 *)

WatchSpec == WatchInit /\ [][WatchNext]_watchVars

LEMMA AskType ==
    ASSUME WatchTypeOK, NEW l \in Lists, NEW p \in Numbers \cup {1}, Ask(l, p)
    PROVE  listAsked' \subseteq [list : Lists, page : Numbers \cup {1},
                                 answer : {NotYet} \cup SUBSET RowSet]
BY DEF Ask, WatchTypeOK

LEMMA AskDetailType ==
    ASSUME WatchTypeOK, NEW s \in Watched, AskDetail(s)
    PROVE  detailAsked' \subseteq [id : Watched, answer : RowSet \cup {None}]
BY DEF AskDetail, WatchTypeOK

LEMMA RowType == WatchTypeOK => \A s \in Watched : Row(s) \in RowSet
BY DEF WatchTypeOK, Row, RowSet

LEMMA WatchTypeStep == WatchTypeOK /\ [WatchNext]_watchVars => WatchTypeOK'
<1> SUFFICES ASSUME WatchTypeOK, [WatchNext]_watchVars PROVE WatchTypeOK'
  OBVIOUS
<1> USE DEF WatchTypeOK, panelVars, detailVars
<1>1. ASSUME NEW s \in Watched, JudgeWatched(s) PROVE WatchTypeOK'
  BY <1>1 DEF JudgeWatched, RowSet, Numbers
<1>2. ASSUME NEW s \in Watched, OpenDetail(s) PROVE WatchTypeOK'
  BY <1>2, AskDetailType DEF OpenDetail
<1>3. ASSUME NEW l \in Lists, OpenList(l) PROVE WatchTypeOK'
  BY <1>3, AskType DEF OpenList
<1>4. CASE CloseList BY <1>4 DEF CloseList
<1>5. CASE PollList BY <1>5, AskType DEF PollList
<1>6. ASSUME NEW p \in Numbers, TurnPage(p) PROVE WatchTypeOK'
  BY <1>6, AskType DEF TurnPage
<1>7. CASE CloseDetail BY <1>7 DEF CloseDetail
<1>8. CASE PollDetail BY <1>8, AskDetailType DEF PollDetail
<1>9. ASSUME NEW r \in listAsked, WriteList(r) PROVE WatchTypeOK'
  <2>1. {Row(s) : s \in {w \in Watched : ListOf[w] = r.list /\ PageOf[w] = r.page}}
            \in SUBSET RowSet
    BY RowType
  <2>. QED BY <1>9, <2>1 DEF WriteList
<1>10. ASSUME NEW r \in detailAsked, WriteDetail(r) PROVE WatchTypeOK'
  BY <1>10, RowType DEF WriteDetail
<1>11. ASSUME NEW r \in listAsked, ReceiveList(r) PROVE WatchTypeOK'
  BY <1>11 DEF ReceiveList
<1>12. ASSUME NEW r \in detailAsked, ReceiveDetail(r) PROVE WatchTypeOK'
  BY <1>12 DEF ReceiveDetail
<1>13. ASSUME NEW r \in listAsked, LoseList(r) PROVE WatchTypeOK'
  BY <1>13, WatchAssumption DEF LoseList
<1>14. ASSUME NEW r \in detailAsked, LoseDetail(r) PROVE WatchTypeOK'
  BY <1>14, WatchAssumption DEF LoseDetail
<1>15. CASE UNCHANGED watchVars BY <1>15 DEF watchVars, RowSet, Numbers
<1>. QED BY <1>1, <1>2, <1>3, <1>4, <1>5, <1>6, <1>7, <1>8, <1>9, <1>10, <1>11, <1>12, <1>13,
            <1>14, <1>15 DEF WatchNext, WriteAny, ReceiveSomeList, ReceiveSomeDetail

LEMMA WatchStart == WatchInit => WatchTypeOK
BY WatchAssumption DEF WatchInit, WatchTypeOK

----------------------------------------------------------------------------
(* ActivityHeatmap: a day is coloured if and only if something was done.   *)

ActivitySpec == ActivityInit /\ [][ActivityNext]_days

Below(T, m) == {x \in T : x <= m}

\* The greatest number has the most numbers up to it.
LEMMA GreatestNat ==
    ASSUME NEW T \in SUBSET Nat, IsFiniteSet(T), T # {} PROVE \E m \in T : \A x \in T : x <= m
<1> DEFINE Above(m) == Cardinality(T) - Cardinality(Below(T, m))
           Counts == {Above(m) : m \in T}
<1>1. ASSUME NEW m \in T
      PROVE  /\ IsFiniteSet(Below(T, m)) /\ Cardinality(Below(T, m)) \in Nat
             /\ Above(m) \in Nat
  <2>1. Below(T, m) \in SUBSET T BY DEF Below
  <2>2. IsFiniteSet(Below(T, m)) /\ Cardinality(Below(T, m)) <= Cardinality(T)
    BY <2>1, FS_Subset
  <2>3. Cardinality(Below(T, m)) \in Nat /\ Cardinality(T) \in Nat BY <2>2, FS_CardinalityType
  <2> QED BY <2>2, <2>3
<1>2. Counts \in SUBSET Nat /\ Counts # {} BY <1>1
<1>3. PICK m \in T : \A c \in Counts : Above(m) <= c
  <2> HIDE DEF Above
  <2>1. \E a \in Counts : \A c \in Counts : a <= c
    <3> HIDE DEF Counts
    <3> QED BY <1>2, LeastNat
  <2> QED BY <2>1
<1>4. ASSUME NEW x \in T, ~(x <= m) PROVE FALSE
  <2>1. m <= x /\ x \notin Below(T, m) /\ x \in Nat /\ m \in Nat BY <1>4 DEF Below
  <2>2. Below(T, m) \cup {x} \in SUBSET Below(T, x)
    <3> SUFFICES ASSUME NEW y \in Below(T, m) \cup {x} PROVE y \in Below(T, x) OBVIOUS
    <3>1. CASE y = x BY <2>1, <3>1 DEF Below
    <3>2. CASE y \in Below(T, m)
      <4>1. y \in T /\ y \in Nat /\ y <= m BY <3>2 DEF Below
      <4>2. y <= x BY ONLY <2>1, <4>1
      <4> QED BY <4>1, <4>2 DEF Below
    <3> QED BY <3>1, <3>2
  <2>3. Cardinality(Below(T, m) \cup {x}) = Cardinality(Below(T, m)) + 1
    BY <1>1, <2>1, FS_AddElement
  <2>4. Cardinality(Below(T, m)) + 1 <= Cardinality(Below(T, x))
    BY <1>1, <2>2, <2>3, FS_Subset
  <2>5. Above(m) <= Above(x) BY <1>3
  <2>6. /\ Cardinality(Below(T, m)) \in Nat /\ Cardinality(Below(T, x)) \in Nat
        /\ Cardinality(T) \in Nat
    BY <1>1, FS_CardinalityType
  <2> QED BY ONLY <2>4, <2>5, <2>6 DEF Above
<1> QED BY <1>4

----------------------------------------------------------------------------
(* The days.                                                               *)

\* A day without submissions is a day on which nothing was done.
DayIsSound(d) ==
    /\ d.submissions \in Nat /\ d.accepted \in Nat /\ IsFiniteSet(d.solved)
    /\ d.submissions = 0 => d.accepted = 0 /\ d.solved = {}
DayOK(d) ==
    /\ d \in [submissions : 0 .. MaxPerDay, accepted : 0 .. MaxPerDay, solved : SUBSET Solvable]
    /\ d.accepted <= d.submissions
    /\ DayIsSound(d)
DaysInv ==
    /\ days \in Seq([submissions : 0 .. MaxPerDay, accepted : 0 .. MaxPerDay,
                     solved : SUBSET Solvable])
    /\ DOMAIN days = 1 .. Window
    /\ \A i \in 1 .. Window : DayOK(days[i])

LEMMA QuietDay == DayOK(NoActivity)
BY ActivityAssumption, FS_EmptySet DEF DayOK, DayIsSound, NoActivity

LEMMA ActivityStart == ActivityInit => DaysInv
<1> SUFFICES ASSUME ActivityInit PROVE DaysInv OBVIOUS
<1>1. days = [i \in 1 .. Window |-> NoActivity] BY DEF ActivityInit
<1>2. Window \in Nat BY ActivityAssumption
<1> DEFINE Days == [submissions : 0 .. MaxPerDay, accepted : 0 .. MaxPerDay,
                    solved : SUBSET Solvable]
<1>3. NoActivity \in Days BY QuietDay DEF DayOK
<1>4. days \in Seq(Days)
  <2> HIDE DEF Days
  <2>1. days \in [1 .. Window -> Days] BY <1>1, <1>3
  <2> QED BY <1>2, <2>1, SeqDef
<1> QED BY <1>1, <1>4, QuietDay DEF DaysInv

LEMMA SubmittedDay ==
    ASSUME NEW d, DayOK(d), d.submissions < MaxPerDay, NEW p \in Solvable, NEW accepted \in BOOLEAN,
           NEW e, e = [d EXCEPT !.submissions = @ + 1,
                                !.accepted = IF accepted THEN @ + 1 ELSE @,
                                !.solved = IF accepted THEN @ \cup {p} ELSE @]
    PROVE  DayOK(e)
<1>1. /\ e.submissions = d.submissions + 1
      /\ e.accepted \in {d.accepted, d.accepted + 1}
      /\ e.solved \in {d.solved, d.solved \cup {p}}
      /\ e = [submissions |-> e.submissions, accepted |-> e.accepted, solved |-> e.solved]
  BY DEF DayOK
<1>2. /\ d.submissions \in 0 .. MaxPerDay /\ d.accepted \in 0 .. MaxPerDay
      /\ d.accepted <= d.submissions /\ d.solved \subseteq Solvable /\ IsFiniteSet(d.solved)
  BY DEF DayOK, DayIsSound
<1>3. /\ e.submissions \in 0 .. MaxPerDay /\ e.accepted \in 0 .. MaxPerDay
      /\ e.accepted <= e.submissions /\ e.submissions # 0
      /\ e.submissions \in Nat /\ e.accepted \in Nat
  BY ONLY <1>1, <1>2, d.submissions < MaxPerDay, ActivityAssumption
<1>4. e.solved \subseteq Solvable BY <1>1, <1>2
<1>5. IsFiniteSet(e.solved) BY <1>1, <1>2, FS_AddElement
<1> QED BY <1>1, <1>3, <1>4, <1>5 DEF DayOK, DayIsSound

LEMMA ActivityStep == DaysInv /\ [ActivityNext]_days => DaysInv'
<1> SUFFICES ASSUME DaysInv, [ActivityNext]_days PROVE DaysInv' OBVIOUS
<1> DEFINE Days == [submissions : 0 .. MaxPerDay, accepted : 0 .. MaxPerDay,
                    solved : SUBSET Solvable]
<1>0. Window \in Nat /\ Window # 0 /\ Len(days) = Window /\ days \in Seq(Days)
  BY ActivityAssumption DEF DaysInv
<1>1. CASE UNCHANGED days BY <1>1 DEF DaysInv
<1>2. CASE DayPasses
  <2>1. days' = Append(Tail(days), NoActivity) BY <1>2 DEF DayPasses
  <2>2. NoActivity \in Days BY QuietDay DEF DayOK
  <2>3. /\ Tail(days) \in Seq(Days) /\ Len(Tail(days)) = Window - 1
        /\ \A i \in 1 .. Window - 1 : Tail(days)[i] = days[i + 1]
    BY <1>0
  <2>4. /\ days' \in Seq(Days) /\ Len(days') = Window
        /\ \A i \in 1 .. Window - 1 : days'[i] = days[i + 1]
        /\ days'[Window] = NoActivity
    BY <1>0, <2>1, <2>2, <2>3
  <2>5. ASSUME NEW i \in 1 .. Window PROVE DayOK(days'[i])
    <3>1. CASE i = Window BY <2>4, <3>1, QuietDay
    <3>2. CASE i # Window
      <4>1. i \in 1 .. Window - 1 /\ i + 1 \in 1 .. Window BY <1>0, <3>2
      <4> QED BY <2>4, <4>1 DEF DaysInv
    <3> QED BY <3>1, <3>2
  <2> QED BY <1>0, <2>4, <2>5 DEF DaysInv, DayOK, DayIsSound
<1>3. ASSUME NEW p \in Solvable, NEW accepted \in BOOLEAN, SubmitToday(p, accepted) PROVE DaysInv'
  <2>1. Window \in 1 .. Window /\ DayOK(days[Window]) BY <1>0 DEF DaysInv
  <2>2. /\ days[Window].submissions < MaxPerDay
        /\ days' = [days EXCEPT ![Window] =
                       [days[Window] EXCEPT !.submissions = @ + 1,
                                            !.accepted = IF accepted THEN @ + 1 ELSE @,
                                            !.solved = IF accepted THEN @ \cup {p} ELSE @]]
    BY <1>3 DEF SubmitToday
  <2>3. PICK e : e = [days[Window] EXCEPT !.submissions = @ + 1,
                                          !.accepted = IF accepted THEN @ + 1 ELSE @,
                                          !.solved = IF accepted THEN @ \cup {p} ELSE @]
    OBVIOUS
  <2>4. DayOK(e) BY <2>1, <2>2, <2>3, SubmittedDay
  <2>5. days' = [days EXCEPT ![Window] = e] BY <2>2, <2>3
  <2>6. e \in Days BY <2>4 DEF DayOK
  <2>7. days' \in Seq(Days) /\ DOMAIN days' = 1 .. Window BY <1>0, <2>1, <2>5, <2>6
  <2>8. \A i \in 1 .. Window : days'[i] = IF i = Window THEN e ELSE days[i]
    BY <1>0, <2>5
  <2>9. \A i \in 1 .. Window : DayOK(days'[i]) BY <2>4, <2>8 DEF DaysInv
  <2> QED BY <2>7, <2>9 DEF DaysInv, DayOK, DayIsSound
<1> QED BY <1>1, <1>2, <1>3 DEF ActivityNext

LEMMA DaysTyped == DaysInv => ActivityTypeOK
BY DEF DaysInv, DayOK, ActivityTypeOK

----------------------------------------------------------------------------
(* The scores of the days, and how many days have at most a score.         *)

LEMMA ScoreOfDay ==
    ASSUME DaysInv, NEW i \in 1 .. Window
    PROVE  Score(i) \in Nat /\ (Score(i) > 0 <=> Active(i))
<1>1. DayIsSound(days[i]) BY DEF DaysInv, DayOK
<1>2. /\ days[i].submissions \in Nat /\ days[i].accepted \in Nat
      /\ Cardinality(days[i].solved) \in Nat
      /\ days[i].submissions = 0 => days[i].accepted = 0 /\ Cardinality(days[i].solved) = 0
  BY <1>1, FS_CardinalityType, FS_EmptySet DEF DayIsSound
<1>3. Score(i) = days[i].submissions + days[i].accepted * 2 + Cardinality(days[i].solved) * 3
  BY DEF Score, activityScore
<1> QED BY <1>2, <1>3 DEF Active

LEMMA ScoredDays ==
    ASSUME DaysInv
    PROVE  /\ IsFiniteSet(Scored) /\ Cardinality(Scored) \in Nat
           /\ Scores \in SUBSET Nat /\ IsFiniteSet(Scores)
           /\ \A i \in Scored : i \in 1 .. Window /\ Score(i) \in Scores /\ Score(i) > 0
<1>1. IsFiniteSet(1 .. Window) BY FS_Interval, ActivityAssumption
<1>2. Scored \in SUBSET (1 .. Window) BY DEF Scored
<1>3. IsFiniteSet(Scored) BY <1>1, <1>2, FS_Subset
<1>4. IsFiniteSet(Scores)
  <2> DEFINE f == [i \in Scored |-> Score(i)]
  <2>1. f \in Surjection(Scored, Scores) BY DEF Surjection, Scores
  <2> QED BY <1>3, <2>1, FS_Surjection
<1>5. Scores \in SUBSET Nat BY <1>2, ScoreOfDay DEF Scores
<1> QED BY <1>2, <1>3, <1>4, <1>5, FS_CardinalityType DEF Scores, Scored

LEMMA AtMostCounts ==
    ASSUME DaysInv
    PROVE  /\ \A s \in Nat : AtMost(s) \in Nat /\ AtMost(s) <= Cardinality(Scored)
           /\ \A r, s \in Nat : r <= s => AtMost(r) <= AtMost(s)
<1>0. IsFiniteSet(Scored) BY ScoredDays
<1>1. ASSUME NEW s \in Nat
      PROVE  /\ IsFiniteSet({i \in Scored : Score(i) <= s})
             /\ AtMost(s) \in Nat /\ AtMost(s) <= Cardinality(Scored)
  <2>1. {i \in Scored : Score(i) <= s} \in SUBSET Scored OBVIOUS
  <2> QED BY <1>0, <2>1, FS_Subset, FS_CardinalityType DEF AtMost
<1>2. ASSUME NEW r \in Nat, NEW s \in Nat, r <= s PROVE AtMost(r) <= AtMost(s)
  <2>1. {i \in Scored : Score(i) <= r} \in SUBSET {i \in Scored : Score(i) <= s}
    <3> SUFFICES ASSUME NEW i \in Scored, Score(i) <= r PROVE Score(i) <= s OBVIOUS
    <3>1. Score(i) \in Nat BY ScoreOfDay DEF Scored
    <3> QED BY <1>2, <3>1
  <2> QED BY <1>1, <2>1, FS_Subset DEF AtMost
<1> QED BY <1>1, <1>2

LEMMA RankOfQuarter ==
    ASSUME DaysInv, Scored # {}, NEW q \in 1 .. 3
    PROVE  Rank(q) \in Nat /\ Rank(q) >= 1 /\ Rank(q) <= Cardinality(Scored)
           /\ 4 * Rank(q) >= Cardinality(Scored) * q
           /\ 4 * Rank(q) <= Cardinality(Scored) * q + 3
<1>1. Cardinality(Scored) \in Nat /\ Cardinality(Scored) # 0
  BY ScoredDays, FS_EmptySet
<1>2. q = 1 \/ q = 2 \/ q = 3 OBVIOUS
<1>3. \A n \in Nat : n # 0 => \A k \in {n * 1, n * 2, n * 3} :
         /\ (k + 3) \div 4 \in Nat /\ (k + 3) \div 4 >= 1 /\ (k + 3) \div 4 <= n
         /\ 4 * ((k + 3) \div 4) >= k /\ 4 * ((k + 3) \div 4) <= k + 3
  OBVIOUS
<1> QED BY <1>1, <1>2, <1>3 DEF Rank

IsMaxScore(m) == m \in Scores /\ \A r \in Scores : r <= m
LEMMA MaxScore ==
    ASSUME DaysInv, Scored # {} PROVE IsMaxScore(maxScore) /\ AtMost(maxScore) = Cardinality(Scored)
<1>1. Scores # {} BY DEF Scores
<1>2. \E m \in Scores : \A r \in Scores : r <= m BY <1>1, ScoredDays, GreatestNat
<1>3. IsMaxScore(maxScore) BY <1>2 DEF maxScore, IsMaxScore
<1>4. {i \in Scored : Score(i) <= maxScore} = Scored
  BY <1>3 DEF IsMaxScore, Scores
<1> QED BY <1>3, <1>4 DEF AtMost

IsQuantile(q, s) == s \in Scores /\ AtMost(s) >= Rank(q)
                    /\ \A r \in Scores : r < s => AtMost(r) < Rank(q)
LEMMA Quantile ==
    ASSUME DaysInv, Scored # {}, NEW q \in 1 .. 3 PROVE IsQuantile(q, quantile(q))
<1> DEFINE T == {s \in Scores : AtMost(s) >= Rank(q)}
<1>1. T \in SUBSET Nat /\ T # {}
  BY MaxScore, RankOfQuarter, ScoredDays DEF IsMaxScore
<1>2. PICK s \in T : \A r \in T : s <= r
  <2> HIDE DEF T
  <2> QED BY <1>1, LeastNat
<1>3. \A r \in Scores : r < s => AtMost(r) < Rank(q)
  <2> SUFFICES ASSUME NEW r \in Scores, r < s PROVE AtMost(r) < Rank(q) OBVIOUS
  <2>1. r \in Nat /\ s \in Nat /\ AtMost(r) \in Nat /\ Rank(q) \in Nat
    BY <1>1, ScoredDays, AtMostCounts, RankOfQuarter
  <2>2. r \notin T BY <1>2, <2>1
  <2> QED BY <2>1, <2>2
<1>4. \E x \in Scores : AtMost(x) >= Rank(q) /\ \A r \in Scores : r < x => AtMost(r) < Rank(q)
  BY <1>2, <1>3
<1> QED BY <1>4 DEF quantile, IsQuantile

\* A lower quantile is at a lower score.
LEMMA QuantilesRise ==
    ASSUME DaysInv, Scored # {}
    PROVE  /\ quantile(1) \in Nat /\ quantile(2) \in Nat /\ quantile(3) \in Nat
           /\ quantile(1) > 0
           /\ quantile(1) <= quantile(2) /\ quantile(2) <= quantile(3)
<1>1. \A q \in 1 .. 3 : IsQuantile(q, quantile(q)) BY Quantile
<1>2. \A q \in 1 .. 3 : quantile(q) \in Scores /\ quantile(q) \in Nat /\ AtMost(quantile(q)) \in Nat
                        /\ Rank(q) \in Nat
  BY <1>1, ScoredDays, AtMostCounts, RankOfQuarter DEF IsQuantile
<1>3. ASSUME NEW p \in 1 .. 3, NEW q \in 1 .. 3, Rank(p) <= Rank(q)
      PROVE  quantile(p) <= quantile(q)
  <2>1. quantile(q) < quantile(p) => AtMost(quantile(q)) < Rank(p)
    BY <1>1, <1>2 DEF IsQuantile
  <2>2. AtMost(quantile(q)) >= Rank(q) BY <1>1 DEF IsQuantile
  <2> QED BY <1>2, <1>3, <2>1, <2>2
<1>4. Rank(1) <= Rank(2) /\ Rank(2) <= Rank(3)
  <2>1. \A n \in Nat : /\ (n * 1 + 3) \div 4 <= (n * 2 + 3) \div 4
                       /\ (n * 2 + 3) \div 4 <= (n * 3 + 3) \div 4
    OBVIOUS
  <2> QED BY <2>1, ScoredDays DEF Rank
<1>5. quantile(1) > 0 BY <1>2 DEF Scores, Scored
<1> QED BY <1>2, <1>3, <1>4, <1>5

\* The quantiles and the best score make a scale: what is done more is not paler.
LEMMA LevelsRise ==
    ASSUME DaysInv, NEW i \in 1 .. Window, NEW j \in 1 .. Window, Score(i) <= Score(j)
    PROVE  activityLevel(i) <= activityLevel(j)
<1>1. Score(i) \in Nat /\ Score(j) \in Nat BY ScoreOfDay
<1>2. CASE Scored = {}
  <2>1. Score(i) = 0 /\ Score(j) = 0 BY <1>1, <1>2 DEF Scored
  <2> QED BY <2>1 DEF activityLevel
<1>3. CASE Scored # {}
  <2>1. PICK low, mid, high, top :
            low = quantile(1) /\ mid = quantile(2) /\ high = quantile(3) /\ top = maxScore
    OBVIOUS
  <2>2. /\ low \in Nat /\ mid \in Nat /\ high \in Nat /\ low <= mid /\ mid <= high
    BY <1>3, <2>1, QuantilesRise
  <2>3. top \in Nat /\ Score(i) <= top /\ Score(j) <= top
    <3>1. top \in Scores /\ \A r \in Scores : r <= top
      BY <1>3, <2>1, MaxScore DEF IsMaxScore
    <3>2. top \in Nat BY <3>1, ScoredDays
    <3>3. ASSUME NEW k \in 1 .. Window, Score(k) \in Nat PROVE Score(k) <= top
      <4>1. CASE Score(k) > 0 BY <3>1, <4>1 DEF Scored, Scores
      <4>2. CASE ~(Score(k) > 0) BY <3>2, <3>3, <4>2
      <4> QED BY <4>1, <4>2
    <3> QED BY <1>1, <3>2, <3>3
  <2>4. \A k \in {i, j} : activityLevel(k) =
            IF Score(k) <= 0 THEN 0
            ELSE IF Score(k) = top /\ Score(k) > high THEN 4
            ELSE IF low = mid /\ mid = high THEN 2
            ELSE IF Score(k) <= low THEN 1
            ELSE IF Score(k) <= mid THEN 2
            ELSE IF Score(k) < high THEN 3
            ELSE 4
    BY <2>1 DEF activityLevel
  <2> QED BY <1>1, <2>2, <2>3, <2>4
<1> QED BY <1>2, <1>3

LEMMA BlankDays ==
    ASSUME DaysInv, NEW i \in 1 .. Window PROVE activityLevel(i) = 0 <=> ~Active(i)
BY ScoreOfDay DEF activityLevel

ActiveDays == {i \in 1 .. Window : Active(i)}
LEMMA StreakIsActive ==
    ASSUME DaysInv PROVE currentStreak <= activeDays /\ recentActiveDays <= activeDays
<1>0. Window \in Nat BY ActivityAssumption
<1>1. IsFiniteSet(ActiveDays) /\ activeDays = Cardinality(ActiveDays)
  <2>1. IsFiniteSet(1 .. Window) BY <1>0, FS_Interval
  <2>2. ActiveDays \in SUBSET (1 .. Window) BY DEF ActiveDays
  <2> QED BY <2>1, <2>2, FS_Subset DEF activeDays, ActiveDays
<1>2. recentActiveDays <= activeDays
  <2>1. {i \in 1 .. Window : i > Window - Recent /\ Active(i)} \in SUBSET ActiveDays
    BY DEF ActiveDays
  <2> QED BY <1>1, <2>1, FS_Subset DEF recentActiveDays
<1>3. \E n \in 0 .. Window : /\ \A i \in Window - n + 1 .. Window : Active(i)
                             /\ n < Window => ~Active(Window - n)
  <2> DEFINE T == {n \in 0 .. Window : n < Window => ~Active(Window - n)}
  <2>1. T \in SUBSET Nat /\ T # {} BY <1>0
  <2>2. PICK n \in T : \A m \in T : n <= m
    <3> HIDE DEF T
    <3> QED BY <2>1, LeastNat
  <2>3. \A i \in Window - n + 1 .. Window : Active(i)
    <3> SUFFICES ASSUME NEW i \in Window - n + 1 .. Window, ~Active(i) PROVE FALSE OBVIOUS
    <3>1. n \in 0 .. Window BY <2>2
    <3>2. PICK m : m = Window - i OBVIOUS
    <3>3. m \in 0 .. Window /\ m < n /\ Window - m = i BY <1>0, <3>1, <3>2
    <3>4. m \in T BY <3>3
    <3> QED BY <2>2, <3>1, <3>3, <3>4
  <2> QED BY <2>2, <2>3
<1>4. PICK n \in 0 .. Window : n = currentStreak /\ \A i \in Window - n + 1 .. Window : Active(i)
  BY <1>3 DEF currentStreak
<1>5. (Window - n + 1 .. Window) \in SUBSET ActiveDays BY <1>0, <1>4 DEF ActiveDays
<1>6. Cardinality(Window - n + 1 .. Window) = n
  <2>1. Window - n + 1 \in Int /\ Window \in Int BY <1>0
  <2>2. Cardinality(Window - n + 1 .. Window) =
            IF Window - n + 1 > Window THEN 0 ELSE Window - (Window - n + 1) + 1
    BY <2>1, FS_Interval
  <2> QED BY <1>0, <2>2
<1>7. Cardinality(Window - n + 1 .. Window) <= Cardinality(ActiveDays)
  BY <1>1, <1>5, FS_Subset
<1> QED BY <1>1, <1>2, <1>4, <1>6, <1>7

\* If three days in four are worse than the best, the third quantile is below the best.
LEMMA BestStandsOut ==
    ASSUME DaysInv, NEW i \in Scored, Score(i) = maxScore,
           4 * Cardinality({j \in Scored : Score(j) < maxScore}) >= 3 * Cardinality(Scored)
    PROVE  activityLevel(i) = 4
<1> DEFINE Worse == {j \in Scored : Score(j) < maxScore}
           WorseScores == {Score(j) : j \in Worse}
<1>0. Scored # {} OBVIOUS
<1>1. /\ IsFiniteSet(Worse) /\ Cardinality(Worse) \in Nat
      /\ WorseScores \in SUBSET Scores /\ WorseScores \in SUBSET Nat /\ IsFiniteSet(WorseScores)
  <2>1. Worse \in SUBSET Scored /\ WorseScores \in SUBSET Scores BY DEF Scores
  <2> QED BY <2>1, ScoredDays, FS_Subset, FS_CardinalityType
<1>2. Cardinality(Scored) \in Nat /\ Cardinality(Scored) # 0 BY <1>0, ScoredDays, FS_EmptySet
<1>3. Rank(3) \in Nat /\ 4 * Rank(3) <= Cardinality(Scored) * 3 + 3 BY <1>0, RankOfQuarter
<1>4. Cardinality(Worse) >= Rank(3) /\ Cardinality(Worse) # 0
  BY <1>1, <1>2, <1>3
<1>5. WorseScores # {} BY <1>1, <1>4, FS_EmptySet
<1>6. PICK m \in WorseScores : \A x \in WorseScores : x <= m
  <2> HIDE DEF WorseScores
  <2> QED BY <1>1, <1>5, GreatestNat
<1>7. {j \in Scored : Score(j) <= m} = Worse
  <2>1. m \in Nat /\ m < maxScore /\ maxScore \in Nat
    BY <1>1, <1>6, <1>0, MaxScore, ScoredDays DEF IsMaxScore
  <2>2. ASSUME NEW j \in Scored PROVE Score(j) <= m <=> Score(j) < maxScore
    <3>1. Score(j) \in Nat BY ScoreOfDay DEF Scored
    <3> QED BY <1>6, <2>1, <3>1
  <2> QED BY <2>2
<1>8. quantile(3) < maxScore
  <2>1. AtMost(m) >= Rank(3) BY <1>4, <1>7 DEF AtMost
  <2>2. IsQuantile(3, quantile(3)) BY <1>0, Quantile
  <2>3. m \in Scores /\ m \in Nat /\ m < maxScore /\ maxScore \in Nat /\ quantile(3) \in Nat
    BY <1>0, <1>1, <1>6, MaxScore, ScoredDays, QuantilesRise DEF IsMaxScore
  <2>4. ~(m < quantile(3))
    <3>1. m < quantile(3) => AtMost(m) < Rank(3) BY <2>2, <2>3 DEF IsQuantile
    <3>2. AtMost(m) \in Nat BY <2>3, AtMostCounts
    <3> QED BY <1>3, <2>1, <3>1, <3>2
  <2> QED BY <2>3, <2>4
<1>9. Score(i) > 0 /\ Score(i) \in Nat BY ScoreOfDay DEF Scored
<1>10. maxScore \in Nat /\ quantile(3) \in Nat
  BY <1>0, MaxScore, ScoredDays, QuantilesRise DEF IsMaxScore
<1> QED BY <1>8, <1>9, <1>10 DEF activityLevel

LEMMA ColoursFollow == DaysInv => ColoursTellActivity
BY LevelsRise, BlankDays, StreakIsActive, BestStandsOut DEF ColoursTellActivity

\* A day of the heatmap is coloured if and only if something was done on it, no day is paler
\* than one on which less was done, and the streak is of active days (ProfilePage.tsx:119).
THEOREM ColoursTell == ActivitySpec => []ColoursTellActivity
BY ActivityStart, ActivityStep, ColoursFollow, PTL DEF ActivitySpec

----------------------------------------------------------------------------
(* SolvePage: drafts.  A step of a page matters to them in five ways.      *)

EditorOK ==
    /\ place \in [Tabs -> Places \cup {None}]
    /\ language \in [Tabs -> Languages]
    /\ code \in [Tabs -> Codes]
    /\ timers \in [Tabs -> SUBSET (Keys \X Codes)]
    /\ saved \in [Keys -> Codes \cup {None}]
    /\ crossed \in [Tabs -> BOOLEAN]

\* A timer of a tab is for the key and the text it shows; without one they are saved.
DraftOf(t) ==
    /\ place[t] = None => timers[t] = {} /\ code[t] = Blank
    /\ timers[t] \subseteq {<<Key(t), code[t]>>}
    /\ place[t] # None /\ timers[t] = {} /\ ~crossed[t] => Draft(Key(t)) = code[t]
DraftInv == \A t \in Tabs : DraftOf(t)

\* What a step does to an editor.
LoadEditor(t) == \E p \in Places, l \in Languages : LoadDraft(t, p, l) /\ UNCHANGED saved
TypeText(t) ==
    /\ place[t] # None
    /\ \E x \in Codes : code' = [code EXCEPT ![t] = x] /\ Rearm(t, Key(t), x)
    /\ UNCHANGED <<place, language, saved, crossed>>
EditorStep(t) ==
    \/ LoadEditor(t) \/ TypeText(t) \/ Unmount(t)
    \/ place[t] # None /\ ResetCode(t)
    \/ \E w \in timers[t] : SaveDraft(t, w)

USE SolveAssumption, ValuesAssumption

\* The opened pages are places, and those with an editor are open.
LEMMA EditorSteps ==
    ASSUME EditorOK, [SolveNext]_solveVars
    PROVE  UNCHANGED <<editorVars, saved, crossed>> \/ \E t \in Tabs : EditorStep(t)
<1>1. CASE UNCHANGED solveVars BY <1>1 DEF solveVars, editorVars
<1>2. ASSUME NEW t \in Tabs, ProblemPageStep(t) \/ ContestPageStep(t)
      PROVE  UNCHANGED <<editorVars, saved, crossed>> \/ EditorStep(t)
  <2>1. CASE OpenProblem(t) \/ OpenContestProblem(t)
    BY <2>1 DEF OpenProblem, OpenContestProblem, Open, EditorStep, LoadEditor, Places
  <2>2. CASE SwitchProblem(t) \/ SwitchContestProblem(t)
    BY <2>2
        DEF SwitchProblem, SwitchContestProblem, Switch, EditorStep, LoadEditor, Places, EditorOK
  <2>3. CASE EditProblemCode(t) \/ EditContestProblemCode(t)
    <3>1. UseEditor(t) /\ place[t] \in Places
      BY <2>3 DEF EditProblemCode, EditContestProblemCode, AtProblem, AtContestProblem, Places
    <3> QED BY <3>1 DEF UseEditor, SelectLanguage, Edit, EditorStep, LoadEditor, TypeText
  <2>4. CASE SubmitProblem(t) \/ SubmitContestProblem(t)
    BY <2>4 DEF SubmitProblem, SubmitContestProblem, Submit
  <2>5. CASE ProblemSubmitted(t) \/ ContestProblemSubmitted(t)
    BY <2>5 DEF ProblemSubmitted, ContestProblemSubmitted, SubmitOk, SubmitFails, EditorStep
  <2>6. ASSUME NEW r \in asked[t], ProblemAnswers(t, r) \/ ContestProblemAnswers(t, r)
        PROVE  UNCHANGED <<editorVars, saved, crossed>>
    BY <2>6 DEF ProblemAnswers, ContestProblemAnswers
  <2> QED BY <1>2, <2>1, <2>2, <2>3, <2>4, <2>5, <2>6 DEF ProblemPageStep, ContestPageStep
<1>3. ASSUME NEW t \in Tabs, Leave(t) PROVE EditorStep(t)
  BY <1>3 DEF Leave, EditorStep
<1>4. ASSUME NEW t \in Tabs, StrayEnds(t)
      PROVE  UNCHANGED <<editorVars, saved, crossed>> \/ EditorStep(t)
  BY <1>4 DEF StrayEnds, EditorStep
<1>5. ASSUME NEW t \in Tabs, NEW w \in timers[t], SaveDraft(t, w) PROVE EditorStep(t)
  BY <1>5 DEF EditorStep
<1> QED BY <1>1, <1>2, <1>3, <1>4, <1>5 DEF SolveNext

LEMMA KeyType ==
    ASSUME EditorOK, NEW t \in Tabs, place[t] # None
    PROVE  Key(t) \in Keys /\ Draft(Key(t)) \in Codes
BY DEF EditorOK, Key, Keys, Draft, Codes

\* A timer writes the text on the screen under the key on the screen.
LEMMA TimerIsOwn ==
    ASSUME EditorOK, DraftInv, NEW t \in Tabs, NEW w \in timers[t]
    PROVE  place[t] # None /\ w[1] = Key(t) /\ w[2] = code[t]
BY DEF DraftInv, DraftOf

LEMMA LoadOK == ASSUME EditorOK, DraftInv, NEW t \in Tabs, LoadEditor(t)
    PROVE EditorOK' /\ DraftInv'
<1>1. PICK p \in Places, l \in Languages : LoadDraft(t, p, l) /\ UNCHANGED saved
  BY DEF LoadEditor
<1> DEFINE k == <<p, l>>
<1>2. k \in Keys /\ Draft(k) \in Codes BY DEF Keys, Draft, Codes, EditorOK
<1>3. /\ place' = [place EXCEPT ![t] = p] /\ language' = [language EXCEPT ![t] = l]
      /\ code' = [code EXCEPT ![t] = Draft(k)] /\ timers' = [timers EXCEPT ![t] = {<<k, Draft(k)>>}]
      /\ crossed' = [crossed EXCEPT ![t] = FALSE] /\ saved' = saved
  BY <1>1 DEF LoadDraft, Rearm
<1>4. EditorOK'
  <2>1. {<<k, Draft(k)>>} \in SUBSET (Keys \X Codes) BY <1>2
  <2> HIDE DEF k
  <2> QED BY <1>2, <1>3, <2>1 DEF EditorOK
<1>5. ASSUME NEW u \in Tabs PROVE DraftOf(u)'
  <2>1. CASE u = t
    <3>1. Key(u)' = k /\ code'[u] = Draft(k) /\ timers'[u] = {<<k, Draft(k)>>} /\ place'[u] # None
      BY <1>3, <2>1 DEF EditorOK, Key
    <3> QED BY <3>1 DEF DraftOf
  <2>2. CASE u # t
    <3>1. DraftOf(u) BY DEF DraftInv
    <3> QED BY <1>3, <2>2, <3>1 DEF DraftOf, EditorOK, Key, Draft
  <2> QED BY <2>1, <2>2
<1> QED BY <1>4, <1>5 DEF DraftInv

LEMMA TypeTextOK ==
    ASSUME EditorOK, DraftInv, NEW t \in Tabs, TypeText(t) PROVE EditorOK' /\ DraftInv'
<1>1. PICK x \in Codes : code' = [code EXCEPT ![t] = x] /\ timers' = [timers EXCEPT ![t] = {<<Key(t), x>>}]
  BY DEF TypeText, Rearm
<1>2. UNCHANGED <<place, language, saved, crossed>> /\ place[t] # None BY DEF TypeText
<1>3. EditorOK'
  <2>1. {<<Key(t), x>>} \in SUBSET (Keys \X Codes) BY <1>2, KeyType
  <2> QED BY <1>1, <1>2, <2>1 DEF EditorOK
<1>4. ASSUME NEW u \in Tabs PROVE DraftOf(u)'
  <2>1. DraftOf(u) BY DEF DraftInv
  <2> QED BY <1>1, <1>2, <2>1 DEF DraftOf, EditorOK, Key, Draft
<1> QED BY <1>3, <1>4 DEF DraftInv

LEMMA UnmountOK == ASSUME EditorOK, DraftInv, NEW t \in Tabs, Unmount(t)
    PROVE EditorOK' /\ DraftInv'
<1>1. EditorOK' BY DEF Unmount, EditorOK, Codes
<1>2. ASSUME NEW u \in Tabs PROVE DraftOf(u)'
  <2>1. DraftOf(u) BY DEF DraftInv
  <2> QED BY <2>1 DEF DraftOf, Unmount, EditorOK, Key, Draft
<1> QED BY <1>1, <1>2 DEF DraftInv

\* What is written by a tab is its own text; whoever else shows the key is told.
LEMMA StoreOK ==
    ASSUME EditorOK, NEW t \in Tabs, NEW u \in Tabs, u # t, place[t] # None,
           NEW x, Store(t, Key(t), x), DraftOf(u),
           place' = place, language' = language, code'[u] = code[u], timers'[u] = timers[u]
    PROVE  DraftOf(u)'
<1>1. Key(u)' = Key(u) BY DEF Key
<1>2. CASE place[u] # None /\ Key(u) = Key(t)
  <2>1. crossed'[u] BY <1>2 DEF Store
  <2> QED BY <1>1, <2>1 DEF DraftOf
<1>3. CASE place[u] # None /\ Key(u) # Key(t)
  <2>1. Key(u) \in Keys BY <1>3, KeyType
  <2>2. saved'[Key(u)] = saved[Key(u)] /\ crossed'[u] = crossed[u]
    BY <1>3, <2>1 DEF Store, EditorOK
  <2> QED BY <1>1, <2>2 DEF DraftOf, Draft
<1>4. CASE place[u] = None BY <1>1, <1>4 DEF DraftOf
<1> QED BY <1>2, <1>3, <1>4

LEMMA StoreType ==
    ASSUME EditorOK, NEW t \in Tabs, place[t] # None, NEW x \in Codes \cup {None},
           Store(t, Key(t), x)
    PROVE  /\ saved' \in [Keys -> Codes \cup {None}] /\ saved'[Key(t)] = x
           /\ crossed' \in [Tabs -> BOOLEAN]
BY KeyType DEF Store, EditorOK

LEMMA ResetOK ==
    ASSUME EditorOK, DraftInv, NEW t \in Tabs, place[t] # None, ResetCode(t)
    PROVE  EditorOK' /\ DraftInv'
<1>1. /\ code' = [code EXCEPT ![t] = Blank] /\ Store(t, Key(t), None)
      /\ place' = place /\ language' = language
      /\ timers' = timers \/ timers' = [timers EXCEPT ![t] = {<<Key(t), Blank>>}]
      /\ timers' = timers => code[t] = Blank \/ timers' = [timers EXCEPT ![t] = {<<Key(t), Blank>>}]
  BY DEF ResetCode, Rearm
<1>2. EditorOK'
  <2>1. {<<Key(t), Blank>>} \in SUBSET (Keys \X Codes) BY KeyType DEF Codes
  <2> QED BY <1>1, <2>1, StoreType DEF EditorOK, Codes
<1>3. ASSUME NEW u \in Tabs PROVE DraftOf(u)'
  <2>1. DraftOf(u) BY DEF DraftInv
  <2>2. CASE u # t
    <3>1. code'[u] = code[u] /\ timers'[u] = timers[u] BY <1>1, <2>2 DEF EditorOK
    <3> QED BY <1>1, <2>1, <2>2, <3>1, StoreOK
  <2>3. CASE u = t
    <3>1. Key(u)' = Key(u) /\ place'[u] # None BY <1>1, <2>3 DEF Key
    <3>2. code'[u] = Blank /\ Draft(Key(u))' = Blank
      BY <1>1, <2>3, <3>1, StoreType DEF EditorOK, Draft
    <3>3. timers'[u] \subseteq {<<Key(u), Blank>>} BY <1>1, <2>1, <2>3 DEF EditorOK, DraftOf
    <3> QED BY <3>1, <3>2, <3>3 DEF DraftOf
  <2> QED BY <2>2, <2>3
<1> QED BY <1>2, <1>3 DEF DraftInv

LEMMA SaveOK ==
    ASSUME EditorOK, DraftInv, NEW t \in Tabs, NEW w \in timers[t], SaveDraft(t, w)
    PROVE  EditorOK' /\ DraftInv'
<1>1. place[t] # None /\ w[1] = Key(t) /\ w[2] = code[t] BY TimerIsOwn
<1>2. /\ Store(t, Key(t), code[t]) /\ place' = place /\ language' = language /\ code' = code
      /\ timers' = [timers EXCEPT ![t] = @ \ {w}]
  BY <1>1 DEF SaveDraft, editorVars
<1>3. code[t] \in Codes /\ code[t] # None BY DEF EditorOK, Codes
<1>4. EditorOK'
  <2>1. timers[t] \ {w} \in SUBSET (Keys \X Codes) BY DEF EditorOK
  <2> QED BY <1>1, <1>2, <1>3, <2>1, StoreType DEF EditorOK
<1>5. ASSUME NEW u \in Tabs PROVE DraftOf(u)'
  <2>1. DraftOf(u) BY DEF DraftInv
  <2>2. CASE u # t
    <3>1. timers'[u] = timers[u] BY <1>2, <2>2 DEF EditorOK
    <3> QED BY <1>1, <1>2, <2>1, <2>2, <3>1, StoreOK
  <2>3. CASE u = t
    <3>1. Key(u)' = Key(u) /\ place'[u] # None BY <1>1, <1>2, <2>3 DEF Key
    <3>2. Draft(Key(u))' = code'[u] BY <1>1, <1>2, <1>3, <2>3, <3>1, StoreType DEF Draft
    <3>3. timers'[u] \subseteq {<<Key(u), code'[u]>>} BY <1>2, <2>1, <2>3 DEF EditorOK, DraftOf
    <3> QED BY <3>1, <3>2, <3>3 DEF DraftOf
  <2> QED BY <2>2, <2>3
<1> QED BY <1>4, <1>5 DEF DraftInv

LEMMA DraftStart == SolveInit => EditorOK /\ DraftInv
<1> SUFFICES ASSUME SolveInit PROVE EditorOK /\ DraftInv
  OBVIOUS
<1>1. EditorOK BY DEF SolveInit, EditorOK, Codes
<1>2. DraftInv BY DEF SolveInit, DraftInv, DraftOf
<1> QED BY <1>1, <1>2

LEMMA DraftStep == EditorOK /\ DraftInv /\ [SolveNext]_solveVars => EditorOK' /\ DraftInv'
<1> SUFFICES ASSUME EditorOK, DraftInv, [SolveNext]_solveVars PROVE EditorOK' /\ DraftInv'
  OBVIOUS
<1>1. CASE UNCHANGED <<editorVars, saved, crossed>>
  BY <1>1 DEF editorVars, EditorOK, DraftInv, DraftOf, Key, Draft
<1>2. ASSUME NEW t \in Tabs, EditorStep(t) PROVE EditorOK' /\ DraftInv'
  BY <1>2, LoadOK, TypeTextOK, UnmountOK, ResetOK, SaveOK DEF EditorStep
<1> QED BY <1>1, <1>2, EditorSteps

\* Once the timers have fired, what an editor shows is the draft that will be loaded when
\* the page is opened again (ProblemDetailPage.tsx:228, ContestProblemPage.tsx), unless
\* another tab has written it since.
THEOREM QuietDraftsSaved == SolveSpec => []QuietMeansSaved
<1>1. DraftInv => QuietMeansSaved BY DEF DraftInv, DraftOf, QuietMeansSaved
<1> QED BY <1>1, DraftStart, DraftStep, PTL DEF SolveSpec

-----------------------------------------------------------------------------
(* The refinement of DraftBook.                                            *)

openEditors == [t \in Tabs |-> IF place[t] = None THEN None ELSE Key(t)]
drafts == [k \in Keys |-> Draft(k)]

\* The book changes where the storage does.
LEMMA StoreWrites ==
    ASSUME EditorOK, NEW t \in Tabs, place[t] # None, NEW x \in Codes \cup {None},
           Store(t, Key(t), x)
    PROVE  drafts' = [drafts EXCEPT ![openEditors[t]] = IF x = None THEN Blank ELSE x]
<1>1. openEditors[t] = Key(t) /\ Key(t) \in Keys BY KeyType DEF openEditors
<1>2. saved' = [saved EXCEPT ![Key(t)] = x] BY DEF Store
<1> QED BY <1>1, <1>2 DEF drafts, Draft, EditorOK

LEMMA LoadTurns ==
    ASSUME EditorOK, NEW t \in Tabs, LoadEditor(t) PROVE \E k \in Keys : Book!Turn(t, k)
<1>1. PICK p \in Places, l \in Languages : LoadDraft(t, p, l) /\ UNCHANGED saved
  BY DEF LoadEditor
<1> DEFINE k == <<p, l>>
<1>2. k \in Keys BY DEF Keys
<1>3. /\ place' = [place EXCEPT ![t] = p] /\ language' = [language EXCEPT ![t] = l]
      /\ code' = [code EXCEPT ![t] = Draft(k)] /\ saved' = saved
  BY <1>1 DEF LoadDraft
<1>4. openEditors' = [openEditors EXCEPT ![t] = k] BY <1>3 DEF openEditors, Key, EditorOK
<1>5. drafts[k] = Draft(k) /\ drafts' = drafts BY <1>2, <1>3 DEF drafts, Draft
<1>6. Book!Turn(t, k) BY <1>3, <1>4, <1>5 DEF Book!Turn, openEditors, drafts
<1> QED BY <1>2, <1>6

\* What the editor of tab t does is what the book lets a tab do.
LEMMA EditorRefines ==
    ASSUME EditorOK, DraftInv, NEW t \in Tabs, EditorStep(t)
    PROVE  Book!BookNext
<1>1. CASE LoadEditor(t) BY <1>1, LoadTurns DEF Book!BookNext
<1>2. CASE TypeText(t)
  <2>1. PICK x \in Codes : code' = [code EXCEPT ![t] = x] BY <1>2 DEF TypeText
  <2>2. openEditors[t] \in Keys BY <1>2, KeyType DEF openEditors, TypeText
  <2>3. openEditors' = openEditors /\ drafts' = drafts
    BY <1>2 DEF TypeText, openEditors, drafts, Key, Draft
  <2>4. Book!Type(t, x) BY <2>1, <2>2, <2>3 DEF Book!Type, openEditors, drafts
  <2> QED BY <2>4 DEF Book!BookNext
<1>3. CASE Unmount(t)
  <2>1. openEditors' = [openEditors EXCEPT ![t] = None]
    BY <1>3 DEF Unmount, openEditors, Key, EditorOK
  <2>2. drafts' = drafts /\ code' = [code EXCEPT ![t] = Blank]
    BY <1>3 DEF Unmount, drafts, Draft
  <2>3. Book!Close(t) BY <2>1, <2>2 DEF Book!Close, openEditors, drafts
  <2> QED BY <2>3 DEF Book!BookNext
<1>4. CASE place[t] # None /\ ResetCode(t)
  <2>1. openEditors' = openEditors /\ code' = [code EXCEPT ![t] = Blank]
    BY <1>4 DEF ResetCode, openEditors, Key
  <2>2. openEditors[t] \in Keys BY <1>4, KeyType DEF openEditors
  <2>3. drafts' = [drafts EXCEPT ![openEditors[t]] = Blank] BY <1>4, StoreWrites DEF ResetCode
  <2>4. Book!Erase(t) BY <2>1, <2>2, <2>3 DEF Book!Erase, openEditors, drafts
  <2> QED BY <2>4 DEF Book!BookNext
<1>5. ASSUME NEW w \in timers[t], SaveDraft(t, w) PROVE Book!BookNext
  <2>1. place[t] # None /\ w[1] = Key(t) /\ w[2] = code[t] BY TimerIsOwn
  <2>2. code[t] \in Codes /\ code[t] # None BY DEF EditorOK, Codes
  <2>3. openEditors' = openEditors /\ code' = code BY <1>5 DEF SaveDraft, openEditors, Key
  <2>4. openEditors[t] \in Keys BY <2>1, KeyType DEF openEditors
  <2>5. drafts' = [drafts EXCEPT ![openEditors[t]] = code[t]]
    BY <1>5, <2>1, <2>2, StoreWrites DEF SaveDraft
  <2>6. Book!Write(t) BY <2>3, <2>4, <2>5 DEF Book!Write, openEditors, drafts
  <2> QED BY <2>6 DEF Book!BookNext
<1> QED BY <1>1, <1>2, <1>3, <1>4, <1>5 DEF EditorStep

\* A tab shows the draft of its own key when the key is opened, and writes what it shows
\* to that key only: the timer of a page or of a language that was left never fires
\* (ProblemDetailPage.tsx:220-240).
THEOREM DraftsKept == SolveSpec => KeepsDrafts
<1>1. SolveInit => Book!BookInit
  BY DEF SolveInit, Book!BookInit, Draft
<1>2. EditorOK /\ DraftInv /\ [SolveNext]_solveVars => [Book!BookNext]_Book!bookVars
  <2> SUFFICES ASSUME EditorOK, DraftInv, [SolveNext]_solveVars
               PROVE  [Book!BookNext]_Book!bookVars
    OBVIOUS
  <2>1. CASE UNCHANGED <<editorVars, saved, crossed>>
    BY <2>1 DEF editorVars, Book!bookVars, Key, Draft
  <2> QED BY <2>1, EditorSteps, EditorRefines
<1> QED BY <1>1, <1>2, DraftStart, DraftStep, PTL DEF SolveSpec, KeepsDrafts, Book!BookSpec

-----------------------------------------------------------------------------
(* Statements.                                                             *)

AskOK ==
    /\ place \in [Tabs -> Places \cup {None}]
    /\ asked \in [Tabs -> SUBSET (Nat \X Places)]
    /\ sent \in [Tabs -> Nat]
    /\ shown \in [Tabs -> Places \cup {None}]
    /\ muddled \in [Tabs -> BOOLEAN]
    /\ moves \in 0 .. MaxMoves

\* The latest request is for the route; when it was answered last, so is the statement.
AskOf(t) ==
    /\ sent[t] <= moves
    /\ \A r \in asked[t] : r[1] <= sent[t] /\ (r[1] = sent[t] => r[2] = place[t])
    /\ place[t] = None => asked[t] = {} /\ shown[t] = None
    /\ place[t] # None /\ ~muddled[t] /\ Newest(t) = {} => shown[t] = place[t]
AskInv == \A t \in Tabs : AskOf(t)

askVars == <<place, asked, sent, shown, muddled>>

AskNow(t) ==
    /\ Move
    /\ \E p \in Places :
           /\ place' = [place EXCEPT ![t] = p]
           /\ \/ AskFirst(t, p)
              \/ AskAgain(t, p) /\ shown' = shown /\ place[t] # None
Hear(t) ==
    /\ place[t] # None
    /\ \E r \in asked[t] :
           ShowAnswer(t, r) \/ (Answered(t, r) /\ MuddleIfNewest(t, r) /\ shown' = shown)
    /\ UNCHANGED <<place, sent, moves>>
AskStep(t) == AskNow(t) \/ Hear(t) \/ Unmount(t)

LEMMA AskSteps ==
    ASSUME AskOK, [SolveNext]_solveVars
    PROVE  (UNCHANGED askVars /\ (moves' = moves \/ Move)) \/ \E t \in Tabs : AskStep(t)
<1> DEFINE Still == UNCHANGED askVars /\ (moves' = moves \/ Move)
<1>1. CASE UNCHANGED solveVars BY <1>1 DEF solveVars, askVars
<1>2. ASSUME NEW t \in Tabs, ProblemPageStep(t) \/ ContestPageStep(t)
      PROVE  Still \/ AskStep(t)
  <2>1. CASE OpenProblem(t) \/ OpenContestProblem(t)
    BY <2>1 DEF OpenProblem, OpenContestProblem, Open, LoadDraft, AskStep, AskNow, Places
  <2>2. CASE SwitchProblem(t) \/ SwitchContestProblem(t)
    BY <2>2 DEF SwitchProblem, SwitchContestProblem, Switch, LoadDraft, AskStep, AskNow, Places
  <2>3. CASE EditProblemCode(t) \/ EditContestProblemCode(t)
    <3>1. UseEditor(t) BY <2>3 DEF EditProblemCode, EditContestProblemCode
    <3>2. ASSUME NEW l \in Languages, SelectLanguage(t, l) PROVE Still
      BY <3>2 DEF SelectLanguage, LoadDraft, statementVars, askVars, AskOK
    <3>3. ASSUME NEW x \in Codes, Edit(t, x) PROVE Still
      BY <3>3 DEF Edit, statementVars, askVars
    <3>4. CASE ResetCode(t) BY <3>4 DEF ResetCode, statementVars, askVars
    <3> QED BY <3>1, <3>2, <3>3, <3>4 DEF UseEditor
  <2>4. CASE SubmitProblem(t) \/ SubmitContestProblem(t)
    BY <2>4 DEF SubmitProblem, SubmitContestProblem, Submit, statementVars, editorVars, askVars
  <2>5. CASE ProblemSubmitted(t) \/ ContestProblemSubmitted(t)
    BY <2>5 DEF ProblemSubmitted, ContestProblemSubmitted, SubmitOk, SubmitFails, AskStep,
                statementVars, editorVars, askVars
  <2>6. ASSUME NEW r \in asked[t], ProblemAnswers(t, r) \/ ContestProblemAnswers(t, r)
        PROVE  AskStep(t)
    <3>1. place[t] # None
      BY <2>6 DEF ProblemAnswers, ContestProblemAnswers, Places
    <3> QED BY <2>6, <3>1 DEF ProblemAnswers, ContestProblemAnswers, AskStep, Hear, editorVars
  <2> QED BY <1>2, <2>1, <2>2, <2>3, <2>4, <2>5, <2>6 DEF ProblemPageStep, ContestPageStep
<1>3. ASSUME NEW t \in Tabs, Leave(t) PROVE AskStep(t)
  BY <1>3 DEF Leave, AskStep
<1>4. ASSUME NEW t \in Tabs, StrayEnds(t) PROVE Still \/ AskStep(t)
  BY <1>4 DEF StrayEnds, AskStep, statementVars, editorVars, askVars
<1>5. ASSUME NEW t \in Tabs, NEW w \in timers[t], SaveDraft(t, w) PROVE Still
  BY <1>5 DEF SaveDraft, statementVars, askVars
<1> QED BY <1>1, <1>2, <1>3, <1>4, <1>5 DEF SolveNext

LEMMA AskKeeps == ASSUME AskOK, AskInv, NEW t \in Tabs, AskNow(t) PROVE AskOK' /\ AskInv'
<1>1. PICK p \in Places :
          /\ place' = [place EXCEPT ![t] = p]
          /\ AskFirst(t, p) \/ (AskAgain(t, p) /\ shown' = shown /\ place[t] # None)
  BY DEF AskNow
<1>2. moves' = moves + 1 /\ moves' \in 0 .. MaxMoves /\ moves' \in Nat /\ moves \in Nat
  BY DEF AskNow, Move, AskOK
<1> DEFINE r == <<moves', p>>
<1>3. r \in Nat \X Places /\ r[1] = moves' /\ r[2] = p BY <1>2
<1> HIDE DEF r
<1>4. PICK old \in {asked[t], {}} : asked' = [asked EXCEPT ![t] = old \cup {r}]
  BY <1>1 DEF AskFirst, AskAgain, r
<1>5. /\ sent' = [sent EXCEPT ![t] = moves'] /\ muddled' = [muddled EXCEPT ![t] = FALSE]
      /\ shown' = shown \/ shown' = [shown EXCEPT ![t] = None]
  BY <1>1 DEF AskFirst, AskAgain
<1>6. AskOK' BY <1>1, <1>2, <1>3, <1>4, <1>5 DEF AskOK
<1>7. ASSUME NEW u \in Tabs PROVE AskOf(u)'
  <2>1. AskOf(u) BY DEF AskInv
  <2>2. CASE u = t
    <3>1. place'[u] = p /\ sent'[u] = moves' /\ asked'[u] = old \cup {r}
      BY <1>1, <1>4, <1>5, <2>2 DEF AskOK
    <3>2. \A q \in old : q[1] \in Nat /\ q[1] < moves'
      BY <1>2, <2>1, <2>2 DEF AskOf, AskOK
    <3>3. r \in Newest(u)' BY <1>3, <3>1 DEF Newest
    <3> QED BY <1>2, <1>3, <3>1, <3>2, <3>3 DEF AskOf
  <2>3. CASE u # t
    <3>1. /\ place'[u] = place[u] /\ sent'[u] = sent[u] /\ asked'[u] = asked[u]
          /\ muddled'[u] = muddled[u] /\ shown'[u] = shown[u]
      BY <1>1, <1>4, <1>5, <2>3 DEF AskOK
    <3> QED BY <1>2, <2>1, <3>1 DEF AskOf, Newest, AskOK
  <2> QED BY <2>2, <2>3
<1> QED BY <1>6, <1>7 DEF AskInv

LEMMA HearKeeps == ASSUME AskOK, AskInv, NEW t \in Tabs, Hear(t) PROVE AskOK' /\ AskInv'
<1>1. PICK r \in asked[t] :
          ShowAnswer(t, r) \/ (Answered(t, r) /\ MuddleIfNewest(t, r) /\ shown' = shown)
  BY DEF Hear
<1>2. UNCHANGED <<place, sent, moves>> /\ place[t] # None BY DEF Hear
<1>3. r \in Nat \X Places BY DEF AskOK
<1>4. asked' = [asked EXCEPT ![t] = asked[t] \ {r}]
  BY <1>1 DEF ShowAnswer, Answered
<1>5. PICK m \in BOOLEAN :
          /\ muddled' = [muddled EXCEPT ![t] = m]
          /\ ~m => ~muddled[t]
          /\ \/ shown' = [shown EXCEPT ![t] = r[2]] /\ (~m => r \in Newest(t) \/ Newest(t) # {})
             \/ shown' = shown /\ (~m => r \notin Newest(t))
  <2>1. CASE ShowAnswer(t, r)
    <3> DEFINE m == muddled[t] \/ (r \notin Newest(t) /\ Newest(t) = {})
    <3>1. m \in BOOLEAN OBVIOUS
    <3>2. muddled' = [muddled EXCEPT ![t] = m] /\ shown' = [shown EXCEPT ![t] = r[2]]
      BY <2>1 DEF ShowAnswer
    <3>3. ~m => ~muddled[t] /\ (r \in Newest(t) \/ Newest(t) # {}) OBVIOUS
    <3> QED BY <3>1, <3>2, <3>3
  <2>2. CASE MuddleIfNewest(t, r) /\ shown' = shown
    <3> DEFINE m == muddled[t] \/ r \in Newest(t)
    <3>1. m \in BOOLEAN OBVIOUS
    <3>2. muddled' = [muddled EXCEPT ![t] = m] BY <2>2 DEF MuddleIfNewest
    <3>3. ~m => ~muddled[t] /\ r \notin Newest(t) OBVIOUS
    <3> QED BY <2>2, <3>1, <3>2, <3>3
  <2> QED BY <1>1, <2>1, <2>2
<1>6. AskOK'
  <2>1. asked[t] \ {r} \in SUBSET (Nat \X Places) /\ r[2] \in Places BY <1>3 DEF AskOK
  <2> QED BY <1>2, <1>4, <1>5, <2>1 DEF AskOK
<1>7. ASSUME NEW u \in Tabs PROVE AskOf(u)'
  <2>1. AskOf(u) BY DEF AskInv
  <2>2. CASE u = t
    <3>1. /\ asked'[u] = asked[u] \ {r} /\ place'[u] = place[u] /\ sent'[u] = sent[u]
          /\ muddled'[u] = m
      BY <1>2, <1>4, <1>5, <2>2 DEF AskOK
    <3>2. Newest(u)' = Newest(u) \ {r} BY <3>1 DEF Newest
    <3>3. ASSUME Newest(u)' = {}, ~m PROVE shown'[u] = place'[u]
      <4>1. CASE shown' = [shown EXCEPT ![t] = r[2]] /\ (r \in Newest(t) \/ Newest(t) # {})
        <5>1. r \in Newest(t) BY <2>2, <3>2, <3>3, <4>1
        <5> QED BY <1>2, <2>1, <2>2, <4>1, <5>1 DEF AskOf, Newest, AskOK
      <4>2. CASE shown' = shown /\ r \notin Newest(t)
        BY <1>2, <1>5, <2>1, <2>2, <3>2, <3>3, <4>2 DEF AskOf
      <4> QED BY <1>5, <3>3, <4>1, <4>2
    <3> QED BY <1>2, <2>1, <2>2, <3>1, <3>3 DEF AskOf
  <2>3. CASE u # t
    <3>1. asked'[u] = asked[u] /\ muddled'[u] = muddled[u] /\ shown'[u] = shown[u]
      BY <1>4, <1>5, <2>3 DEF AskOK
    <3> QED BY <1>2, <2>1, <3>1 DEF AskOf, Newest
  <2> QED BY <2>2, <2>3
<1> QED BY <1>6, <1>7 DEF AskInv

LEMMA UnmountKeeps == ASSUME AskOK, AskInv, NEW t \in Tabs, Unmount(t) PROVE AskOK' /\ AskInv'
<1>1. AskOK' BY DEF Unmount, AskOK
<1>2. ASSUME NEW u \in Tabs PROVE AskOf(u)'
  <2>1. AskOf(u) BY DEF AskInv
  <2> QED BY <2>1 DEF AskOf, Unmount, AskOK, Newest
<1> QED BY <1>1, <1>2 DEF AskInv

LEMMA AskStart == SolveInit => AskOK /\ AskInv
BY DEF SolveInit, AskOK, AskInv, AskOf

LEMMA AskStepOK == AskOK /\ AskInv /\ [SolveNext]_solveVars => AskOK' /\ AskInv'
<1> SUFFICES ASSUME AskOK, AskInv, [SolveNext]_solveVars PROVE AskOK' /\ AskInv'
  OBVIOUS
<1>1. CASE UNCHANGED askVars /\ (moves' = moves \/ Move)
  BY <1>1 DEF askVars, Move, AskOK, AskInv, AskOf, Newest
<1>2. ASSUME NEW t \in Tabs, AskStep(t) PROVE AskOK' /\ AskInv'
  BY <1>2, AskKeeps, HearKeeps, UnmountKeeps DEF AskStep
<1> QED BY <1>1, <1>2, AskSteps

\* When nothing is under way, the statement on the screen is the one the code would be
\* submitted to, unless the latest request failed or an earlier one was answered after it
\* (loadProblem and load do not compare the answer with the route).
THEOREM StatementsFit == SolveSpec => []StatementIsOfTheRoute
<1>1. AskInv => StatementIsOfTheRoute
  BY DEF AskInv, AskOf, Newest, StatementIsOfTheRoute, ProblemStatement, ContestProblemStatement,
         AtProblem, AtContestProblem
<1> QED BY <1>1, AskStart, AskStepOK, PTL DEF SolveSpec

-----------------------------------------------------------------------------
(* Types.                                                                  *)

ButtonsOK ==
    /\ denied \in [Tabs -> BOOLEAN] /\ submitting \in [Tabs -> BOOLEAN]
    /\ strays \in [Tabs -> Nat]

LEMMA StrayType ==
    ASSUME ButtonsOK, NEW t \in Tabs, Stray(t) PROVE strays' \in [Tabs -> Nat]
<1>1. strays[t] + (IF submitting[t] THEN 1 ELSE 0) \in Nat BY DEF ButtonsOK
<1> QED BY <1>1 DEF Stray, ButtonsOK

LEMMA ButtonsStep == ButtonsOK /\ [SolveNext]_solveVars => ButtonsOK'
<1> SUFFICES ASSUME ButtonsOK, [SolveNext]_solveVars PROVE ButtonsOK'
  OBVIOUS
<1> USE DEF ButtonsOK
<1>1. CASE UNCHANGED solveVars BY <1>1 DEF solveVars
<1>2. ASSUME NEW t \in Tabs, ProblemPageStep(t) \/ ContestPageStep(t) PROVE ButtonsOK'
  <2>1. CASE OpenProblem(t) \/ OpenContestProblem(t)
    BY <2>1, StrayType DEF OpenProblem, OpenContestProblem, Open, AskFirst, NotSubmitting
  <2>2. CASE SwitchProblem(t) \/ SwitchContestProblem(t)
    BY <2>2 DEF SwitchProblem, SwitchContestProblem, Switch, submitVars
  <2>3. CASE EditProblemCode(t) \/ EditContestProblemCode(t)
    BY <2>3 DEF EditProblemCode, EditContestProblemCode, UseEditor, SelectLanguage, Edit,
                ResetCode, statementVars, submitVars
  <2>4. CASE SubmitProblem(t) \/ SubmitContestProblem(t)
    BY <2>4 DEF SubmitProblem, SubmitContestProblem, Submit, statementVars
  <2>5. CASE ProblemSubmitted(t) \/ ContestProblemSubmitted(t)
    BY <2>5 DEF ProblemSubmitted, ContestProblemSubmitted, SubmitOk, SubmitFails, Unmount,
                NotSubmitting, statementVars
  <2>6. ASSUME NEW r \in asked[t], ProblemAnswers(t, r) \/ ContestProblemAnswers(t, r)
        PROVE  ButtonsOK'
    BY <2>6 DEF ProblemAnswers, ContestProblemAnswers, submitVars
  <2> QED BY <1>2, <2>1, <2>2, <2>3, <2>4, <2>5, <2>6 DEF ProblemPageStep, ContestPageStep
<1>3. ASSUME NEW t \in Tabs, Leave(t) PROVE ButtonsOK'
  BY <1>3, StrayType DEF Leave, Unmount, NotSubmitting
<1>4. ASSUME NEW t \in Tabs, StrayEnds(t) PROVE ButtonsOK'
  <2>1. /\ strays[t] - 1 \in Nat
        /\ strays[t] - (IF submitting[t] THEN 0 ELSE 1) \in Nat
    BY <1>4 DEF StrayEnds
  <2>2. \/ strays' = [strays EXCEPT ![t] = @ - 1]
        \/ strays' = [strays EXCEPT ![t] = @ - IF submitting[t] THEN 0 ELSE 1]
    BY <1>4 DEF StrayEnds
  <2>3. strays' \in [Tabs -> Nat] BY <2>1, <2>2
  <2>4. denied' \in [Tabs -> BOOLEAN] /\ submitting' \in [Tabs -> BOOLEAN]
    BY <1>4 DEF StrayEnds, Unmount, NotSubmitting, statementVars
  <2> QED BY <2>3, <2>4
<1>5. ASSUME NEW t \in Tabs, NEW w \in timers[t], SaveDraft(t, w) PROVE ButtonsOK'
  BY <1>5 DEF SaveDraft, statementVars, submitVars
<1> QED BY <1>1, <1>2, <1>3, <1>4, <1>5 DEF SolveNext

\* Every value a page holds is of its kind: a draft under the key of a page that exists, a
\* statement that is a page's, as many stray submissions as were sent.
THEOREM SolveTypes == SolveSpec => []SolveTypeOK
<1>1. SolveInit => ButtonsOK BY DEF SolveInit, ButtonsOK
<1>2. EditorOK /\ AskOK /\ ButtonsOK => SolveTypeOK
  BY DEF EditorOK, AskOK, ButtonsOK, SolveTypeOK
<1> QED BY <1>1, <1>2, DraftStart, DraftStep, AskStart, AskStepOK, ButtonsStep, PTL DEF SolveSpec
-----------------------------------------------------------------------------
(* SelfTest.                                                               *)

\* A run under way, or its result, is for what the panel shows, until that changes.
SelfTestInv ==
    /\ endpoint = None => running = None /\ result = None
    /\ running # None /\ ~changed => running = TestNow
    /\ result # None /\ ~result.late =>
          /\ result.of = TestNow
          /\ result.status \in {Verdict(result.of, result.output), "Failed"}

LEMMA SelfTestTypeStep == SelfTestTypeOK /\ SelfTestInv /\ [SelfTestNext]_testVars
    => SelfTestTypeOK'
<1> SUFFICES ASSUME SelfTestTypeOK, SelfTestInv, [SelfTestNext]_testVars
             PROVE  SelfTestTypeOK'
  OBVIOUS
<1> USE DEF SelfTestTypeOK, FieldTexts
<1>1. CASE OpenPanel BY <1>1 DEF OpenPanel
<1>2. CASE ClosePanel BY <1>2 DEF ClosePanel
<1>3. CASE ChangeSubject BY <1>3 DEF ChangeSubject, Changed
<1>4. CASE EditFields BY <1>4 DEF EditFields, FillFields, Changed
<1>5. CASE FillSample BY <1>5 DEF FillSample, FillFields, Changed
<1>6. CASE RunSelfTest
  <2>1. TestNow \in Runs BY <1>6 DEF RunSelfTest, TestNow, Runs
  <2> QED BY <1>6, <2>1 DEF RunSelfTest
<1>7. CASE SelfTestAnswers
  <2>1. running \in Runs BY <1>7 DEF SelfTestAnswers
  <2>2. CASE UNCHANGED result BY <1>7, <2>2 DEF SelfTestAnswers
  <2>3. ASSUME NEW o \in FieldTexts, NEW s \in Statuses, s \in {Verdict(running, o), "Failed"},
               result' = [of |-> running, status |-> s, output |-> o, late |-> changed]
        PROVE  SelfTestTypeOK'
    <3>1. result' \in Results BY <2>1, <2>3 DEF Results, Statuses
    <3> QED BY <1>7, <3>1 DEF SelfTestAnswers
  <2> QED BY <1>7, <2>2, <2>3 DEF SelfTestAnswers
<1>8. CASE UNCHANGED testVars BY <1>8 DEF testVars
<1> QED BY <1>1, <1>2, <1>3, <1>4, <1>5, <1>6, <1>7, <1>8 DEF SelfTestNext

LEMMA SelfTestInvStep == SelfTestTypeOK /\ SelfTestInv /\ [SelfTestNext]_testVars => SelfTestInv'
<1> SUFFICES ASSUME SelfTestTypeOK, SelfTestInv, [SelfTestNext]_testVars
             PROVE  SelfTestInv'
  OBVIOUS
<1> USE SelfTestAssumption DEF SelfTestInv, TestNow
<1>1. CASE OpenPanel BY <1>1 DEF OpenPanel
<1>2. CASE ClosePanel BY <1>2 DEF ClosePanel
<1>3. CASE ChangeSubject BY <1>3 DEF ChangeSubject, Changed
<1>4. CASE EditFields BY <1>4 DEF EditFields, FillFields, Changed
<1>5. CASE FillSample BY <1>5 DEF FillSample, FillFields, Changed
<1>6. CASE RunSelfTest BY <1>6 DEF RunSelfTest, Verdict
<1>7. CASE SelfTestAnswers
  <2>1. CASE UNCHANGED result BY <1>7, <2>1 DEF SelfTestAnswers, Verdict
  <2>2. ASSUME NEW o \in FieldTexts, NEW s \in Statuses, s \in {Verdict(running, o), "Failed"},
               result' = [of |-> running, status |-> s, output |-> o, late |-> changed]
        PROVE  SelfTestInv'
    BY <1>7, <2>2 DEF SelfTestAnswers, Verdict
  <2> QED BY <1>7, <2>1, <2>2 DEF SelfTestAnswers
<1>8. CASE UNCHANGED testVars BY <1>8 DEF testVars, Verdict
<1> QED BY <1>1, <1>2, <1>3, <1>4, <1>5, <1>6, <1>7, <1>8 DEF SelfTestNext

LEMMA SelfTestStart == SelfTestInit => SelfTestTypeOK /\ SelfTestInv
BY DEF SelfTestInit, SelfTestTypeOK, SelfTestInv, FieldTexts

\* The message compares the output with the field, because the server compared it with
\* the same text.
LEMMA MessageFits == SelfTestTypeOK /\ SelfTestInv => ResultFitsTheFields
<1> SUFFICES ASSUME SelfTestTypeOK, SelfTestInv, result # None, ~result.late
             PROVE  /\ result.of = TestNow
                    /\ ResultMessage = "passed" => result.output = expected
                    /\ ResultMessage = "differs" => result.output # expected
  BY DEF ResultFitsTheFields
<1>1. /\ result.of = TestNow /\ TestNow.expected = expected
      /\ result.status \in {Verdict(TestNow, result.output), "Failed"}
  BY DEF SelfTestInv, TestNow
<1> QED BY <1>1, SelfTestAssumption DEF ResultMessage, Verdict

\* The result a user sees beside the fields, in time, is the result for these fields,
\* and its message is true (SelfTestPanel.tsx:37, :46).
THEOREM ResultsFit == SelfTestSpec => []ResultFitsTheFields
<1>1. SelfTestTypeOK /\ SelfTestInv /\ [SelfTestNext]_testVars => (SelfTestTypeOK /\ SelfTestInv)'
  BY SelfTestTypeStep, SelfTestInvStep
<1> QED BY <1>1, SelfTestStart, MessageFits, PTL DEF SelfTestSpec

-----------------------------------------------------------------------------
(* EditForms.                                                              *)

\* The text that row r should have.
Own(r) == IF r \in Rows THEN r ELSE "New"

RowsOwn == \A r \in AnyRow : stored[r] \in {Own(r), None}
SavesOwn == \A c \in saves : c.text = Own(c.row)

\* What an open form holds; the fields of a page may come later, but not from elsewhere.
HoldsOwn ==
    /\ subject = None => text = "New" /\ fills = {}
    /\ subject # None /\ ~doubtful /\ (\A f \in fills : f[1] # filled) => text = Own(subject)

\* Only tags wait for deletions and only pages for fields; no row of a page is deleted.
KindInv ==
    /\ formKind # "page" => fills = {}
    /\ formKind # "tag" => removals = {}
    /\ formKind = "page" => \A r \in Rows : stored[r] # None

\* The latest request of a page is for its row.
FillsInv ==
    /\ KindInv
    /\ formKind # "page" => ~doubtful
    /\ \A f \in fills : f[1] <= filled /\ (f[1] = filled /\ ~doubtful => f[2] = subject)

FormInv == hasty \/ (RowsOwn /\ SavesOwn /\ HoldsOwn /\ FillsInv)

USE FormAssumption

LEMMA FormStart == FormInit => FormInv
<1> SUFFICES ASSUME FormInit PROVE RowsOwn /\ SavesOwn /\ HoldsOwn /\ FillsInv
  BY DEF FormInv
<1>1. stored = [r \in AnyRow |-> IF r \in Rows THEN r ELSE None] BY DEF FormInit
<1>2. RowsOwn /\ \A r \in Rows : stored[r] # None BY <1>1 DEF RowsOwn, Own, AnyRow
<1>3. SavesOwn BY DEF FormInit, SavesOwn
<1>4. HoldsOwn BY DEF FormInit, HoldsOwn
<1>5. KindInv BY <1>2 DEF FormInit, KindInv
<1>6. FillsInv BY <1>5 DEF FormInit, FillsInv
<1> QED BY <1>2, <1>3, <1>4, <1>6

\* A row that exists has a text, its own.
LEMMA ExistingOwn ==
    ASSUME RowsOwn, NEW r \in Existing
    PROVE  r \in AnyRow /\ stored[r] = Own(r)
BY DEF RowsOwn, Existing

\* A save takes the text of the row it is for.
LEMMA SaveOwn ==
    ASSUME FormTypeOK, SavesOwn, text = Own(subject), Save
    PROVE  SavesOwn'
<1> DEFINE c == [n |-> formMoves', row |-> subject, text |-> text, done |-> FALSE]
<1>1. saves' = saves \cup {c} BY DEF Save
<1>2. c.text = Own(c.row) OBVIOUS
<1> QED BY <1>1, <1>2 DEF SavesOwn, Own

\* A form that is not a page waits for nothing, so that it holds its row's text.
LEMMA NoPage ==
    ASSUME FillsInv, HoldsOwn, formKind # "page", subject # None
    PROVE  text = Own(subject)
BY DEF FillsInv, KindInv, HoldsOwn

LEMMA TagKeepsOwn ==
    ASSUME FormTypeOK, RowsOwn, SavesOwn, HoldsOwn, FillsInv, TagStep
    PROVE  FormInv'
<1> USE DEF FormTypeOK
<1>1. ASSUME NEW r \in AnyRow, StartTagEdit(r) PROVE FormInv'
  <2>1. text' = Own(r) /\ subject' = r BY <1>1, ExistingOwn DEF StartTagEdit, Holds
  <2> QED BY <1>1, <2>1
      DEF StartTagEdit, fillVars, FormInv, RowsOwn, SavesOwn, HoldsOwn, FillsInv, KindInv, Own,
               AnyRow
<1>2. ASSUME NEW r \in AnyRow, RemoveTagRow(r) PROVE FormInv'
  BY <1>2 DEF RemoveTagRow, fillVars, FormInv, RowsOwn, SavesOwn, HoldsOwn, FillsInv, KindInv, Own
<1>3. CASE CancelTagEdit
  BY <1>3 DEF CancelTagEdit, CloseForm, Holds, fillVars, FormInv, RowsOwn, SavesOwn, HoldsOwn,
              FillsInv, KindInv, Own
<1>4. CASE SaveTag
  <2>1. SavesOwn' BY <1>4, SaveOwn, NoPage DEF SaveTag, Save
  <2> QED BY <1>4, <2>1
      DEF SaveTag, Save, fillVars, FormInv, RowsOwn, HoldsOwn, FillsInv, KindInv, Own
<1>5. ASSUME NEW d \in removals, TagRemoved(d) PROVE FormInv'
  <2>1. formKind = "tag" /\ d[1] \in AnyRow BY <1>5 DEF FillsInv, KindInv
  <2>2. RowsOwn' BY <1>5, <2>1 DEF TagRemoved, RowsOwn, Own
  <2>3. HoldsOwn'
    BY <1>5, <2>1 DEF TagRemoved, CloseForm, Holds, fillVars, HoldsOwn, FillsInv, KindInv, Own
  <2> QED
    BY <1>5, <2>1, <2>2, <2>3 DEF TagRemoved, fillVars, FormInv, SavesOwn, FillsInv, KindInv, Own
<1>6. ASSUME NEW d \in removals, RemovalFails(d) PROVE FormInv'
  BY <1>6 DEF RemovalFails, fillVars, FormInv, RowsOwn, SavesOwn, HoldsOwn, FillsInv, KindInv, Own
<1> QED BY <1>1, <1>2, <1>3, <1>4, <1>5, <1>6 DEF TagStep

LEMMA DialogKeepsOwn ==
    ASSUME FormTypeOK, RowsOwn, SavesOwn, HoldsOwn, FillsInv, DialogStep
    PROVE  FormInv'
<1> USE DEF FormTypeOK
<1>1. ASSUME NEW s \in Subjects, OpenDialog(s) PROVE FormInv'
  <2>1. text' = Own(s) /\ subject' = s
    BY <1>1, ExistingOwn DEF OpenDialog, Holds, Own, Subjects, AnyRow
  <2> QED BY <1>1, <2>1
      DEF OpenDialog, fillVars, FormInv, RowsOwn, SavesOwn, HoldsOwn, FillsInv, KindInv, Own,
               AnyRow, Subjects
<1>2. CASE CancelDialog
  BY <1>2 DEF CancelDialog, CloseForm, Holds, fillVars, FormInv, RowsOwn, SavesOwn, HoldsOwn,
              FillsInv, KindInv, Own
<1>3. CASE SaveNewTag \/ ChangePassword \/ SaveCase
  <2>1. Save /\ formKind # "page" /\ UNCHANGED hasty
    BY <1>3 DEF SaveNewTag, ChangePassword, SaveCase
  <2>2. SavesOwn' BY <2>1, SaveOwn, NoPage DEF Save
  <2> QED BY <2>1, <2>2 DEF Save, fillVars, FormInv, RowsOwn, HoldsOwn, FillsInv, KindInv, Own
<1>4. ASSUME NEW r \in AnyRow, RemoveCase(r) PROVE FormInv'
  BY <1>4 DEF RemoveCase, fillVars, FormInv, RowsOwn, SavesOwn, HoldsOwn, FillsInv, KindInv, Own
<1> QED BY <1>1, <1>2, <1>3, <1>4 DEF DialogStep

LEMMA PageKeepsOwn ==
    ASSUME FormTypeOK, RowsOwn, SavesOwn, HoldsOwn, FillsInv, PageStep
    PROVE  FormInv'
<1> USE DEF FormTypeOK
<1>1. ASSUME NEW r \in Rows, OpenRowPage(r) PROVE FormInv'
  <2>1. subject' = r /\ filled' = filled + 1 /\ fills' = fills \cup {<<filled', r>>}
    BY <1>1 DEF OpenRowPage, Holds, Fill
  <2>2. FillsInv' BY <1>1, <2>1 DEF OpenRowPage, FillsInv, KindInv
  <2>3. \E f \in fills' : f[1] = filled'
    <3>1. <<filled', r>> \in fills' BY <2>1
    <3>2. <<filled', r>>[1] = filled' OBVIOUS
    <3> QED BY <3>1, <3>2
  <2>4. HoldsOwn' BY <2>1, <2>3 DEF HoldsOwn
  <2> QED BY <1>1, <2>2, <2>4 DEF OpenRowPage, FormInv, RowsOwn, SavesOwn, Own
<1>2. CASE OpenNewPage
  <2>1. subject' = "New" /\ text' = text BY <1>2 DEF OpenNewPage, Holds
  <2> QED
    BY <1>2, <2>1 DEF OpenNewPage, FormInv, RowsOwn, SavesOwn, HoldsOwn, FillsInv, KindInv, Own
<1>3. CASE LeavePage
  BY <1>3
      DEF LeavePage, CloseForm, Holds, FormInv, RowsOwn, SavesOwn, HoldsOwn, FillsInv, KindInv, Own
<1>4. CASE SavePage
  <2>1. SavesOwn' \/ hasty'
    BY <1>4, SaveOwn DEF SavePage, HoldsOwn, Save
  <2> QED BY <1>4, <2>1
      DEF SavePage, Save, fillVars, FormInv, RowsOwn, HoldsOwn, FillsInv, KindInv, Own
<1>5. ASSUME NEW f \in fills, FillPage(f) PROVE FormInv'
  <2>1. formKind = "page" /\ f[2] \in Rows BY <1>5 DEF FillsInv, KindInv
  <2>2. text' = Own(f[2]) BY <1>5, <2>1 DEF FillPage, FillsInv, KindInv, RowsOwn, AnyRow
  <2>3. ~doubtful' => f[1] = filled \/ \E g \in fills' : g[1] = filled'
    BY <1>5 DEF FillPage
  <2>4. HoldsOwn' BY <1>5, <2>2, <2>3 DEF FillPage, HoldsOwn, FillsInv, KindInv
  <2>5. FillsInv' BY <1>5, <2>1 DEF FillPage, FillsInv, KindInv
  <2> QED BY <1>5, <2>4, <2>5 DEF FillPage, FormInv, RowsOwn, SavesOwn, Own
<1>6. ASSUME NEW f \in fills, FillFails(f) PROVE FormInv'
  <2>1. HoldsOwn' BY <1>6 DEF FillFails, HoldsOwn
  <2>2. FillsInv' BY <1>6 DEF FillFails, FillsInv, KindInv
  <2> QED BY <1>6, <2>1, <2>2 DEF FillFails, FormInv, RowsOwn, SavesOwn, Own
<1> QED BY <1>1, <1>2, <1>3, <1>4, <1>5, <1>6 DEF PageStep

LEMMA SavingKeepsOwn ==
    ASSUME FormTypeOK, RowsOwn, SavesOwn, HoldsOwn, FillsInv,
           NEW c \in saves, WriteRow(c) \/ SaveReturns(c) \/ SaveFails(c)
    PROVE  FormInv'
<1> USE DEF FormTypeOK
<1>0. c \in SaveCalls /\ c.text = Own(c.row) BY DEF SavesOwn
<1>1. CASE WriteRow(c)
  <2>1. SavesOwn'
    <3> DEFINE d == [c EXCEPT !.done = TRUE]
    <3>1. d.text = c.text /\ d.row = c.row BY <1>0 DEF SaveCalls
    <3>2. saves' = (saves \ {c}) \cup {d} BY <1>1 DEF WriteRow
    <3> QED BY <1>0, <3>1, <3>2 DEF SavesOwn, Own
  <2>2. CASE UNCHANGED stored
    BY <1>1, <2>1, <2>2 DEF WriteRow, fillVars, FormInv, RowsOwn, HoldsOwn, FillsInv, KindInv, Own
  <2>3. ASSUME NEW r \in AnyRow, Own(r) = Own(c.row), stored' = [stored EXCEPT ![r] = c.text]
        PROVE  FormInv'
    <3>1. stored' = [stored EXCEPT ![r] = Own(r)] /\ Own(r) # None
      BY <1>0, <2>3 DEF Own, AnyRow
    <3>2. RowsOwn' BY <3>1 DEF RowsOwn
    <3>3. FillsInv' BY <1>1, <3>1 DEF WriteRow, fillVars, FillsInv, KindInv, AnyRow
    <3> QED BY <1>1, <2>1, <3>2, <3>3 DEF WriteRow, fillVars, FormInv, HoldsOwn, Own
  <2>4. c.row \in AnyRow \cup {"New"} BY <1>0 DEF SaveCalls, Subjects
  <2>5. ASSUME NEW r \in NewRows PROVE r \in AnyRow /\ Own(r) = Own("New")
    BY DEF AnyRow, Own
  <2> QED BY <1>1, <2>2, <2>3, <2>4, <2>5 DEF WriteRow
<1>2. CASE SaveReturns(c)
  BY <1>2
      DEF SaveReturns, CloseForm, Holds, FormInv, RowsOwn, SavesOwn, HoldsOwn, FillsInv, KindInv, Own
<1>3. CASE SaveFails(c)
  BY <1>3 DEF SaveFails, fillVars, FormInv, RowsOwn, SavesOwn, HoldsOwn, FillsInv, KindInv, Own
<1> QED BY <1>1, <1>2, <1>3

\* A form that was saved before its fields had come has been so for ever.
LEMMA HastyStays == FormNext /\ hasty => hasty'
BY DEF FormNext, TagStep, DialogStep, PageStep, StartTagEdit, RemoveTagRow, CancelTagEdit, SaveTag,
       TagRemoved, RemovalFails, OpenDialog, CancelDialog, SaveNewTag, ChangePassword, SaveCase,
       RemoveCase, OpenRowPage, OpenNewPage, LeavePage, SavePage, FillPage, FillFails, WriteRow,
       SaveReturns, SaveFails

LEMMA FormInvStep == FormTypeOK /\ FormInv /\ [FormNext]_formVars => FormInv'
<1> SUFFICES ASSUME FormTypeOK, FormInv, [FormNext]_formVars PROVE FormInv'
  OBVIOUS
<1>1. CASE UNCHANGED formVars
  BY <1>1 DEF formVars, FormInv, RowsOwn, SavesOwn, HoldsOwn, FillsInv, KindInv, Own
<1>2. CASE hasty /\ FormNext BY <1>2, HastyStays DEF FormInv
<1>3. CASE ~hasty /\ FormNext
  BY <1>3, TagKeepsOwn, DialogKeepsOwn, PageKeepsOwn, SavingKeepsOwn DEF FormNext, FormInv
<1> QED BY <1>1, <1>2, <1>3

-----------------------------------------------------------------------------
\* The text of a row that exists is one a form may hold.
LEMMA ExistingType ==
    ASSUME FormTypeOK, NEW r \in Existing
    PROVE  r \in AnyRow /\ stored[r] \in Subjects
BY DEF FormTypeOK, Existing

LEMMA FormMoveType ==
    ASSUME FormTypeOK, FormMove PROVE formMoves' \in 0 .. MaxFormMoves /\ formMoves' \in Nat
BY DEF FormTypeOK, FormMove

\* A save that is under way has the texts of the form.
LEMMA SaveType ==
    ASSUME FormTypeOK, Save
    PROVE  saves' \subseteq SaveCalls /\ formMoves' \in 0 .. MaxFormMoves
<1> DEFINE c == [n |-> formMoves', row |-> subject, text |-> text, done |-> FALSE]
<1>1. formMoves' \in 0 .. MaxFormMoves /\ formMoves' \in Nat BY FormMoveType DEF Save
<1>2. c \in SaveCalls BY <1>1 DEF FormTypeOK, SaveCalls, Save
<1>3. saves' = saves \cup {c} BY DEF Save
<1> QED BY <1>1, <1>2, <1>3 DEF FormTypeOK

LEMMA TagType == ASSUME FormTypeOK, TagStep PROVE FormTypeOK'
<1>1. ASSUME NEW r \in AnyRow, StartTagEdit(r) PROVE FormTypeOK'
  BY <1>1, ExistingType, FormMoveType DEF StartTagEdit, Holds, fillVars, FormTypeOK, Subjects
<1>2. ASSUME NEW r \in AnyRow, RemoveTagRow(r) PROVE FormTypeOK'
  <2>1. (subject = r) \in BOOLEAN OBVIOUS
  <2>2. <<r, subject = r>> \in AnyRow \X BOOLEAN BY <2>1
  <2> QED BY <1>2, <2>2, FormMoveType DEF RemoveTagRow, fillVars, FormTypeOK
<1>3. CASE CancelTagEdit
  BY <1>3 DEF CancelTagEdit, CloseForm, Holds, fillVars, FormTypeOK, Subjects
<1>4. CASE SaveTag BY <1>4, SaveType DEF SaveTag, Save, fillVars, FormTypeOK
<1>5. ASSUME NEW d \in removals, TagRemoved(d) PROVE FormTypeOK'
  <2>1. d[1] \in AnyRow BY DEF FormTypeOK
  <2>2. stored' \in [AnyRow -> Subjects \cup {None}] BY <1>5, <2>1 DEF TagRemoved, FormTypeOK
  <2>3. subject' \in Subjects \cup {None} /\ text' \in Subjects
    BY <1>5 DEF TagRemoved, CloseForm, Holds, FormTypeOK, Subjects
  <2> QED BY <1>5, <2>2, <2>3 DEF TagRemoved, fillVars, FormTypeOK
<1>6. ASSUME NEW d \in removals, RemovalFails(d) PROVE FormTypeOK'
  BY <1>6 DEF RemovalFails, fillVars, FormTypeOK
<1> QED BY <1>1, <1>2, <1>3, <1>4, <1>5, <1>6 DEF TagStep

LEMMA DialogType == ASSUME FormTypeOK, DialogStep PROVE FormTypeOK'
<1>1. ASSUME NEW s \in Subjects, OpenDialog(s) PROVE FormTypeOK'
  <2>1. text' \in Subjects /\ subject' = s
    BY <1>1, ExistingType DEF OpenDialog, Holds, Subjects
  <2> QED BY <1>1, <2>1, FormMoveType DEF OpenDialog, fillVars, FormTypeOK
<1>2. CASE CancelDialog
  BY <1>2 DEF CancelDialog, CloseForm, Holds, fillVars, FormTypeOK, Subjects
<1>3. CASE SaveNewTag \/ ChangePassword \/ SaveCase
  BY <1>3, SaveType DEF SaveNewTag, ChangePassword, SaveCase, Save, fillVars, FormTypeOK
<1>4. ASSUME NEW r \in AnyRow, RemoveCase(r) PROVE FormTypeOK'
  BY <1>4, FormMoveType DEF RemoveCase, fillVars, FormTypeOK
<1> QED BY <1>1, <1>2, <1>3, <1>4 DEF DialogStep

LEMMA PageType == ASSUME FormTypeOK, KindInv, PageStep PROVE FormTypeOK'
<1>1. ASSUME NEW r \in Rows, OpenRowPage(r) PROVE FormTypeOK'
  <2>1. filled' \in Nat /\ fills' = fills \cup {<<filled', r>>}
    BY <1>1 DEF OpenRowPage, Fill, FormTypeOK
  <2>2. fills' \subseteq Nat \X Rows BY <2>1 DEF FormTypeOK
  <2> QED BY <1>1, <2>1, <2>2, FormMoveType DEF OpenRowPage, Holds, FormTypeOK, Subjects, AnyRow
<1>2. CASE OpenNewPage
  BY <1>2, FormMoveType DEF OpenNewPage, Holds, FormTypeOK, Subjects
<1>3. CASE LeavePage BY <1>3 DEF LeavePage, CloseForm, Holds, FormTypeOK, Subjects
<1>4. CASE SavePage BY <1>4, SaveType DEF SavePage, Save, fillVars, FormTypeOK
<1>5. ASSUME NEW f \in fills, FillPage(f) PROVE FormTypeOK'
  <2>1. stored[f[2]] \in Subjects BY <1>5 DEF KindInv, FormTypeOK, AnyRow
  <2> QED BY <1>5, <2>1 DEF FillPage, FormTypeOK
<1>6. ASSUME NEW f \in fills, FillFails(f) PROVE FormTypeOK'
  BY <1>6 DEF FillFails, FormTypeOK
<1> QED BY <1>1, <1>2, <1>3, <1>4, <1>5, <1>6 DEF PageStep

LEMMA SavingType ==
    ASSUME FormTypeOK, NEW c \in saves, WriteRow(c) \/ SaveReturns(c) \/ SaveFails(c)
    PROVE  FormTypeOK'
<1>0. c \in SaveCalls BY DEF FormTypeOK
<1>1. CASE WriteRow(c)
  <2>1. [c EXCEPT !.done = TRUE] \in SaveCalls BY <1>0 DEF SaveCalls
  <2>2. stored' \in [AnyRow -> Subjects \cup {None}]
    BY <1>0, <1>1 DEF WriteRow, FormTypeOK, SaveCalls, AnyRow
  <2> QED BY <1>1, <2>1, <2>2 DEF WriteRow, fillVars, FormTypeOK
<1>2. CASE SaveReturns(c)
  BY <1>2 DEF SaveReturns, CloseForm, Holds, FormTypeOK, Subjects
<1>3. CASE SaveFails(c) BY <1>3 DEF SaveFails, fillVars, FormTypeOK
<1> QED BY <1>1, <1>2, <1>3

\* Every step but a deletion leaves a text in the rows that have one.
LEMMA KindStep == FormTypeOK /\ KindInv /\ [FormNext]_formVars => KindInv'
<1> SUFFICES ASSUME FormTypeOK, KindInv, [FormNext]_formVars PROVE KindInv'
  OBVIOUS
<1> USE DEF KindInv
<1>1. CASE UNCHANGED formVars BY <1>1 DEF formVars
<1>2. CASE TagStep
  BY <1>2
      DEF TagStep, fillVars, StartTagEdit, RemoveTagRow, CancelTagEdit, SaveTag, Save, TagRemoved,
              RemovalFails
<1>3. CASE DialogStep
  BY <1>3
      DEF DialogStep, fillVars, OpenDialog, CancelDialog, SaveNewTag, ChangePassword, SaveCase, Save,
              RemoveCase
<1>4. CASE PageStep
  BY <1>4
      DEF PageStep, fillVars, OpenRowPage, OpenNewPage, LeavePage, SavePage, Save, FillPage, FillFails
<1>5. ASSUME NEW c \in saves, WriteRow(c) \/ SaveReturns(c) \/ SaveFails(c) PROVE KindInv'
  <2>1. c.text # None BY DEF FormTypeOK, SaveCalls, Subjects, AnyRow
  <2>2. \A r \in Rows : stored[r] # None => stored'[r] # None
    BY <1>5, <2>1 DEF WriteRow, SaveReturns, SaveFails, FormTypeOK, AnyRow
  <2> QED BY <1>5, <2>2 DEF WriteRow, SaveReturns, SaveFails, fillVars
<1> QED BY <1>1, <1>2, <1>3, <1>4, <1>5 DEF FormNext

LEMMA FormTypeStep == FormTypeOK /\ KindInv /\ [FormNext]_formVars => FormTypeOK'
<1> SUFFICES ASSUME FormTypeOK, KindInv, [FormNext]_formVars PROVE FormTypeOK'
  OBVIOUS
<1>1. CASE UNCHANGED formVars BY <1>1 DEF formVars, FormTypeOK
<1>2. CASE FormNext
  BY <1>2, TagType, DialogType, PageType, SavingType DEF FormNext
<1> QED BY <1>1, <1>2

LEMMA FormTypeStart == FormInit => FormTypeOK /\ KindInv
<1> SUFFICES ASSUME FormInit PROVE FormTypeOK /\ KindInv
  OBVIOUS
<1>1. stored \in [AnyRow -> Subjects \cup {None}] BY DEF FormInit, Subjects, AnyRow
<1>2. formMoves \in 0 .. MaxFormMoves BY DEF FormInit
<1>3. KindInv BY DEF FormInit, KindInv, AnyRow
<1> QED BY <1>1, <1>2, <1>3 DEF FormInit, FormTypeOK, Subjects

\* A tag, a test case, a problem or a contest never gets the text of another one: the form
\* holds the text of the row its button is for, and a save carries both, unless a page
\* whose fields had not come was saved (AdminProblemFormPage.tsx:47,
\* AdminContestFormPage.tsx:117, AdminTagsPage.tsx, AdminTestCasesPage.tsx).
THEOREM FormsKeepRows == FormSpec => []RowsKeepTheirText
<1> DEFINE I == FormTypeOK /\ KindInv /\ FormInv
<1>1. FormInit => I BY FormStart, FormTypeStart
<1>2. I /\ [FormNext]_formVars => I' BY FormTypeStep, KindStep, FormInvStep
<1>3. I => RowsKeepTheirText BY DEF FormInv, RowsOwn, RowsKeepTheirText, Own, AnyRow
<1> QED BY <1>1, <1>2, <1>3, PTL DEF FormSpec

----------------------------------------------------------------------------
(* Session: whose user a tab shows, and that an administrator remains.     *)

\* Who is behind a request, and what was read for it, is an account that exists.
CallOf(c) ==
    /\ c.kind \in {"me", "role"} => account[c.as] # None
    /\ c.kind = "role" => c.change # None
    /\ c.step # "sent" => account[c.as] # None /\ c.user # None /\ c.user.id = c.as
CallsInv == \A c \in calls : CallOf(c)

\* A tab that no other tab logged in or out shows the user of the token, whatever is
\* stored; what is stored is that user, unless a late answer wrote another.
StoreInv ==
    /\ \A b \in Browsers : token[b] # None => account[token[b]] # None
    /\ \A b \in Browsers : b \notin leaked => ShowsAccount(storedUser[b], token[b])
    /\ \A t \in Windows : t \notin estranged => ShowsAccount(user[t], token[browserOf[t]])

SessionInv == SessionTypeOK /\ CallsInv /\ StoreInv /\ AnAdminRemains

USE SessionAssumption

LEMMA RecordType ==
    ASSUME SessionTypeOK, NEW a \in Accounts, account[a] # None
    PROVE  RecordOf(a) \in Users /\ RecordOf(a) # None /\ RecordOf(a).id = a
BY DEF SessionTypeOK, RecordOf, Users, Roles

LEMMA SessionStart == SessionInit => SessionInv
<1> SUFFICES ASSUME SessionInit PROVE SessionInv
  OBVIOUS
<1>1. /\ account \in [Accounts -> Roles \cup {None}] /\ account[Seeded] = "admin"
      /\ browserOf \in [Windows -> Browsers]
      /\ token \in [Browsers -> Accounts \cup {None}]
      /\ \A b \in Browsers : token[b] # None => account[token[b]] # None
  BY DEF SessionInit
<1>2. ASSUME NEW b \in Browsers
      PROVE  storedUser[b] \in Users \cup {None} /\ ShowsAccount(storedUser[b], token[b])
  <2>1. storedUser[b] = RecordOf(token[b]) BY DEF SessionInit
  <2>2. CASE token[b] = None BY <2>1, <2>2 DEF RecordOf, ShowsAccount
  <2>3. CASE token[b] # None
    BY <1>1, <2>1, <2>3 DEF RecordOf, ShowsAccount, Users, Roles
  <2> QED BY <2>2, <2>3
<1>3. storedUser \in [Browsers -> Users \cup {None}] BY <1>2 DEF SessionInit
<1>4. user \in [Windows -> Users \cup {None}] BY <1>1, <1>3 DEF SessionInit
<1>5. SessionTypeOK
  <2>1. route \in [Windows -> Routes] /\ acts \in 0 .. MaxActs BY DEF SessionInit, Routes
  <2> QED BY <1>1, <1>3, <1>4, <2>1 DEF SessionInit, SessionTypeOK
<1>6. CallsInv BY DEF SessionInit, CallsInv
<1>7. StoreInv BY <1>1, <1>2 DEF SessionInit, StoreInv
<1> QED BY <1>1, <1>5, <1>6, <1>7 DEF SessionInv, AnAdminRemains

LEMMA GuardedType == ASSUME NEW r \in Routes, NEW u PROVE Guarded(r, u) \in Routes
BY DEF Guarded, Routes

\* A new request in the name of the token is one that can be answered.
LEMMA NewCallOK ==
    ASSUME SessionInv, NEW t \in Windows, token[browserOf[t]] # None,
           NEW kind \in {"me", "role"}, NEW change \in Users \cup {None},
           kind = "role" => change # None
    PROVE  NewCall(t, kind, change) \in Calls /\ CallOf(NewCall(t, kind, change))
<1>1. token[browserOf[t]] \in Accounts /\ account[token[browserOf[t]]] # None
  BY DEF SessionInv, SessionTypeOK, StoreInv
<1> QED BY <1>1 DEF NewCall, Calls, CallOf

LEMMA CallOK ==
    ASSUME SessionInv, NEW t \in Windows, NEW kind \in {"me", "role"},
           NEW change \in Users \cup {None}, kind = "role" => change # None,
           Call(t, kind, change), account' = account
    PROVE  calls' \subseteq Calls /\ CallsInv'
<1>1. /\ calls' = calls \cup {NewCall(t, kind, change)}
      /\ NewCall(t, kind, change) \in Calls /\ CallOf(NewCall(t, kind, change))
  BY NewCallOK DEF Call
<1> QED BY <1>1 DEF SessionInv, SessionTypeOK, CallsInv, CallOf

LEMMA ActType == ASSUME SessionTypeOK, Act PROVE acts' \in 0 .. MaxActs
BY DEF SessionTypeOK, Act

LEMMA VisitKeeps ==
    ASSUME SessionInv, NEW t \in Windows, NEW r \in Routes, Visit(t, r) PROVE SessionInv'
<1>1. UNCHANGED <<account, browserOf, token, storedUser, user, estranged, leaked, raced>>
  BY DEF Visit
<1>2. route' \in [Windows -> Routes] BY GuardedType DEF Visit, SessionInv, SessionTypeOK
<1>3. calls' \subseteq Calls /\ CallsInv' /\ acts' \in 0 .. MaxActs
  <2>1. CASE UNCHANGED <<calls, acts>>
    BY <1>1, <2>1 DEF SessionInv, SessionTypeOK, CallsInv, CallOf
  <2>2. CASE Act /\ Call(t, "me", None)
    BY <1>1, <2>2, CallOK, ActType DEF SessionInv
  <2> QED BY <2>1, <2>2 DEF Visit, Mount
<1> QED BY <1>1, <1>2, <1>3 DEF SessionInv, SessionTypeOK, StoreInv, AnAdminRemains

LEMMA ReloadKeeps == ASSUME SessionInv, NEW t \in Windows, Reload(t) PROVE SessionInv'
<1> DEFINE b == browserOf[t]
           r == Guarded(route[t], storedUser[b])
           orphans == {IF c.tab = t THEN [c EXCEPT !.tab = None] ELSE c : c \in calls}
           mine == IF r = "profile" /\ token[b] # None THEN {NewCall(t, "me", None)} ELSE {}
<1>1. /\ UNCHANGED <<account, browserOf, token, storedUser, leaked, raced>> /\ Act
      /\ user' = [user EXCEPT ![t] = storedUser[b]] /\ route' = [route EXCEPT ![t] = r]
      /\ calls' = orphans \cup mine
      /\ estranged' = IF b \in leaked THEN estranged \cup {t} ELSE estranged \ {t}
  BY DEF Reload
<1>2. b \in Browsers /\ r \in Routes BY GuardedType DEF SessionInv, SessionTypeOK
<1>3. ASSUME NEW c \in orphans \cup mine PROVE c \in Calls /\ CallOf(c)
  <2>1. CASE c \in mine BY <2>1, NewCallOK
  <2>2. ASSUME NEW d \in calls, c = d \/ c = [d EXCEPT !.tab = None]
        PROVE  c \in Calls /\ CallOf(c)
    <3>1. d \in Calls /\ CallOf(d) BY DEF SessionInv, SessionTypeOK, CallsInv
    <3> QED BY <2>2, <3>1 DEF Calls, CallOf
  <2> QED BY <2>1, <2>2
<1> HIDE DEF orphans, mine, r
<1>4. calls' \subseteq Calls /\ CallsInv' BY <1>1, <1>3 DEF CallsInv, CallOf
<1>5. SessionTypeOK'
  BY <1>1, <1>2, <1>4, ActType DEF SessionInv, SessionTypeOK
<1>6. StoreInv' BY <1>1, <1>2 DEF SessionInv, SessionTypeOK, StoreInv
<1> QED BY <1>1, <1>4, <1>5, <1>6 DEF SessionInv, AnAdminRemains

LEMMA LogoutKeeps == ASSUME SessionInv, NEW t \in Windows, Logout(t) PROVE SessionInv'
<1> DEFINE b == browserOf[t]
<1>1. /\ token' = [token EXCEPT ![b] = None] /\ storedUser' = [storedUser EXCEPT ![b] = None]
      /\ user' = [user EXCEPT ![t] = None] /\ route' = [route EXCEPT ![t] = "problems"]
      /\ estranged' = (estranged \ {t}) \cup Others(t) /\ leaked' = leaked \ {b}
      /\ UNCHANGED <<account, browserOf, calls, raced>> /\ Act
  BY DEF Logout
<1>2. SessionTypeOK' BY <1>1, ActType DEF SessionInv, SessionTypeOK, Routes, Others
<1>3. StoreInv'
  <2>1. \A w \in Windows : w \notin estranged' /\ w # t => browserOf[w] # b /\ w \notin estranged
    BY <1>1 DEF Others
  <2> QED BY <1>1, <2>1 DEF SessionInv, SessionTypeOK, StoreInv, ShowsAccount
<1> QED BY <1>1, <1>2, <1>3 DEF SessionInv, CallsInv, CallOf, AnAdminRemains

\* Requests that leave the stores alone.
LEMMA AskingKeeps ==
    ASSUME SessionInv, NEW t \in Windows,
           \/ SaveProfile(t)
           \/ \E a \in Accounts : Login(t, a) \/ Register(t, a)
           \/ \E a \in Accounts, r \in Roles : UpdateRoleOf(t, a, r)
    PROVE  SessionInv'
<1>1. UNCHANGED <<account, storeVars, raced>> /\ Act
  BY DEF SaveProfile, Login, Register, LoginOrRegister, UpdateRoleOf
<1>2. calls' \subseteq Calls /\ CallsInv'
  <2>1. CASE SaveProfile(t) BY <1>1, <2>1, CallOK DEF SaveProfile
  <2>2. ASSUME NEW a \in Accounts, Login(t, a) \/ Register(t, a)
        PROVE  calls' \subseteq Calls /\ CallsInv'
    <3>1. PICK kind \in {"login", "register"} :
              calls' = calls \cup {[tab |-> t, kind |-> kind, as |-> a, step |-> "sent",
                                    user |-> None, change |-> None]}
      BY <2>2 DEF Login, Register, LoginOrRegister
    <3> QED BY <1>1, <3>1 DEF SessionInv, SessionTypeOK, CallsInv, CallOf, Calls
  <2>3. ASSUME NEW a \in Accounts, NEW r \in Roles, UpdateRoleOf(t, a, r)
        PROVE  calls' \subseteq Calls /\ CallsInv'
    <3>1. [id |-> a, role |-> r] \in Users BY DEF Users
    <3> QED BY <1>1, <2>3, <3>1, CallOK DEF UpdateRoleOf
  <2> QED BY <2>1, <2>2, <2>3
<1> QED BY <1>1, <1>2, ActType
    DEF storeVars, SessionInv, SessionTypeOK, StoreInv, AnAdminRemains

LEMMA ReturnKeeps == ASSUME SessionInv, NEW c \in calls, CallReturns(c) PROVE SessionInv'
<1>1. UNCHANGED <<account, acts, raced>> /\ calls' = calls \ {c} /\ c.step = "done"
  BY DEF CallReturns
<1>2. c \in Calls /\ CallOf(c) BY DEF SessionInv, SessionTypeOK, CallsInv
<1>3. /\ c.as \in Accounts /\ account[c.as] # None
      /\ c.user \in Users /\ c.user # None /\ c.user.id = c.as
  BY <1>1, <1>2 DEF Calls, CallOf
<1>4. CallsInv' BY <1>1 DEF SessionInv, CallsInv, CallOf
<1>5. CASE UNCHANGED storeVars
  BY <1>1, <1>4, <1>5 DEF storeVars, SessionInv, SessionTypeOK, StoreInv, AnAdminRemains
<1> DEFINE t == c.tab
           b == browserOf[t]
<1>6. CASE t # None /\ LoginAnswers(c)
  <2>1. t \in Windows /\ b \in Browsers BY <1>2, <1>6 DEF Calls, SessionInv, SessionTypeOK
  <2>2. /\ token' = [token EXCEPT ![b] = c.as] /\ storedUser' = [storedUser EXCEPT ![b] = c.user]
        /\ user' = [user EXCEPT ![t] = c.user] /\ route' = [route EXCEPT ![t] = "problems"]
        /\ estranged' = (estranged \ {t}) \cup Others(t) /\ leaked' = leaked \ {b}
        /\ browserOf' = browserOf
    BY <1>6 DEF LoginAnswers
  <2>3. SessionTypeOK'
    BY <1>1, <1>3, <2>1, <2>2 DEF SessionInv, SessionTypeOK, Routes, Others
  <2>4. \A w \in Windows : w \notin estranged' /\ w # t => browserOf[w] # b /\ w \notin estranged
    BY <2>2 DEF Others
  <2>5. StoreInv'
    BY <1>1, <1>3, <2>1, <2>2, <2>4 DEF SessionInv, SessionTypeOK, StoreInv, ShowsAccount
  <2> QED BY <1>1, <1>4, <2>3, <2>5 DEF SessionInv, AnAdminRemains
<1>7. CASE t # None /\ MeAnswers(c)
  <2>1. t \in Windows /\ b \in Browsers BY <1>2, <1>7 DEF Calls, SessionInv, SessionTypeOK
  <2>2. /\ storedUser' = [storedUser EXCEPT ![b] = c.user] /\ user' = [user EXCEPT ![t] = c.user]
        /\ route' = [route EXCEPT ![t] = Guarded(route[t], c.user)]
        /\ IF c.as = token[b] THEN leaked' = leaked \ {b} /\ estranged' = estranged \ {t}
                              ELSE leaked' = leaked \cup {b} /\ estranged' = estranged \cup {t}
        /\ UNCHANGED <<browserOf, token>>
    BY <1>7 DEF MeAnswers
  <2>3. Guarded(route[t], c.user) \in Routes
    BY <2>1, GuardedType DEF SessionInv, SessionTypeOK
  <2>4. SessionTypeOK'
    BY <1>1, <1>3, <2>1, <2>2, <2>3 DEF SessionInv, SessionTypeOK
  <2>5. StoreInv'
    BY <1>1, <1>3, <2>1, <2>2 DEF SessionInv, SessionTypeOK, StoreInv, ShowsAccount
  <2> QED BY <1>1, <1>4, <2>4, <2>5 DEF SessionInv, AnAdminRemains
<1> QED BY <1>5, <1>6, <1>7 DEF CallReturns

LEMMA FailKeeps == ASSUME SessionInv, NEW c \in calls, CallFails(c) PROVE SessionInv'
BY DEF CallFails, storeVars, SessionInv, SessionTypeOK, StoreInv, CallsInv, CallOf, AnAdminRemains

\* An account that exists keeps existing, and its requests and tokens with it.
LEMMA ServedKeeps ==
    ASSUME SessionInv, NEW c \in calls, NEW new \in Calls, Become(c, new),
           UNCHANGED <<storeVars, acts>>, raced' \in BOOLEAN,
           account' \in [Accounts -> Roles \cup {None}],
           \A a \in Accounts : account[a] # None => account'[a] # None,
           CallOf(new)', AnAdminRemains'
    PROVE  SessionInv'
<1>1. SessionTypeOK' BY DEF Become, storeVars, SessionInv, SessionTypeOK
<1>2. CallsInv'
  <2>1. ASSUME NEW d \in calls PROVE CallOf(d)'
    BY DEF SessionInv, SessionTypeOK, CallsInv, CallOf, Calls
  <2> QED BY <2>1 DEF Become, CallsInv
<1>3. StoreInv' BY DEF storeVars, SessionInv, SessionTypeOK, StoreInv
<1> QED BY <1>1, <1>2, <1>3 DEF SessionInv

LEMMA ServeKeeps == ASSUME SessionInv, NEW c \in calls, ServeCall(c) PROVE SessionInv'
<1>1. c \in Calls /\ CallOf(c) /\ c.as \in Accounts
  BY DEF SessionInv, SessionTypeOK, CallsInv, Calls
<1>2. UNCHANGED <<storeVars, acts>> BY DEF ServeCall
<1>3. CASE ServeLogin(c) \/ LoadUser(c)
  <2>1. account[c.as] # None /\ account' = account /\ raced' = raced
    BY <1>1, <1>3 DEF ServeLogin, LoadUser, CallOf
  <2>2. PICK u \in Users : u = RecordOf(c.as) /\ u # None /\ u.id = c.as
    BY <1>1, <2>1, RecordType DEF SessionInv
  <2>3. PICK s \in {"done", "read"} : Become(c, [c EXCEPT !.step = s, !.user = u])
    BY <1>3, <2>2 DEF ServeLogin, LoadUser
  <2> DEFINE new == [c EXCEPT !.step = s, !.user = u]
  <2>4. new \in Calls /\ CallOf(new)'
    BY <1>1, <2>1, <2>2 DEF Calls, CallOf
  <2>5. AnAdminRemains' BY <2>1 DEF SessionInv, AnAdminRemains
  <2>6. /\ raced' \in BOOLEAN /\ account' \in [Accounts -> Roles \cup {None}]
        /\ \A a \in Accounts : account[a] # None => account'[a] # None
    BY <2>1 DEF SessionInv, SessionTypeOK
  <2> HIDE DEF new
  <2> QED BY <1>2, <2>3, <2>4, <2>5, <2>6, ServedKeeps DEF new
<1>4. CASE ServeRegister(c)
  <2> DEFINE u == [id |-> c.as, role |-> "user"]
             new == [c EXCEPT !.step = "done", !.user = u]
  <2>1. /\ account[c.as] = None /\ account' = [account EXCEPT ![c.as] = "user"]
        /\ Become(c, new) /\ raced' = raced
    BY <1>4 DEF ServeRegister
  <2>2. account' \in [Accounts -> Roles \cup {None}] /\ account'[c.as] # None
    BY <1>1, <2>1 DEF SessionInv, SessionTypeOK, Roles
  <2>3. u \in Users /\ u # None /\ u.id = c.as BY <1>1 DEF Users, Roles
  <2> HIDE DEF u
  <2>4. new \in Calls /\ CallOf(new)' BY <1>1, <1>4, <2>2, <2>3 DEF Calls, CallOf, ServeRegister
  <2>5. AnAdminRemains'
    <3>1. ASSUME NEW a \in Accounts, account[a] = "admin" PROVE account'[a] = "admin"
      BY <1>1, <2>1, <3>1 DEF SessionInv, SessionTypeOK, Roles
    <3> QED BY <2>1, <3>1 DEF SessionInv, AnAdminRemains
  <2>6. \A a \in Accounts : account[a] # None => account'[a] # None
    BY <2>1, <2>2 DEF SessionInv, SessionTypeOK
  <2>7. raced' \in BOOLEAN BY <2>1 DEF SessionInv, SessionTypeOK
  <2> HIDE DEF new
  <2> QED BY <1>2, <2>1, <2>2, <2>4, <2>5, <2>6, <2>7, ServedKeeps
<1>5. CASE WriteRole(c)
  <2> DEFINE new == [c EXCEPT !.step = "done"]
  <2>1. /\ c.kind = "role" /\ c.step = "read" /\ Become(c, new)
        /\ ~(c.change.id = c.user.id /\ c.change.role # "admin")
        /\ account' = [account EXCEPT ![c.change.id] = c.change.role]
        /\ raced' = (raced \/ account[c.as] # "admin")
    BY <1>5 DEF WriteRole
  <2>2. /\ c.change \in Users /\ c.change.id \in Accounts /\ c.change.role \in Roles
        /\ c.user.id = c.as
    <3>1. c.change \in Users \cup {None} /\ c.change # None BY <1>1, <2>1 DEF CallOf, Calls
    <3> QED BY <1>1, <2>1, <3>1 DEF CallOf, Users
  <2>3. account' \in [Accounts -> Roles \cup {None}]
    BY <2>1, <2>2 DEF SessionInv, SessionTypeOK
  <2>4. \A a \in Accounts : account[a] # None => account'[a] # None
    BY <2>1, <2>2 DEF SessionInv, SessionTypeOK, Roles
  <2>5. AnAdminRemains'
    <3>1. CASE account[c.as] # "admin" BY <2>1, <3>1 DEF AnAdminRemains
    <3>2. CASE account[c.as] = "admin"
      <4>1. account'[c.as] = "admin"
        BY <1>1, <2>1, <2>2, <3>2 DEF SessionInv, SessionTypeOK
      <4> QED BY <1>1, <4>1 DEF AnAdminRemains
    <3> QED BY <3>1, <3>2
  <2>6. new \in Calls /\ CallOf(new)'
    BY <1>1, <2>1, <2>4 DEF Calls, CallOf
  <2>7. raced' \in BOOLEAN BY <2>1
  <2> HIDE DEF new
  <2> QED BY <1>2, <2>1, <2>3, <2>4, <2>5, <2>6, <2>7, ServedKeeps
<1> QED BY <1>3, <1>4, <1>5 DEF ServeCall

LEMMA SessionStep == SessionInv /\ [SessionNext]_sessionVars => SessionInv'
<1> SUFFICES ASSUME SessionInv, [SessionNext]_sessionVars PROVE SessionInv'
  OBVIOUS
<1>1. CASE UNCHANGED sessionVars
  BY <1>1 DEF sessionVars, SessionInv, SessionTypeOK, CallsInv, CallOf, StoreInv, AnAdminRemains
<1>2. CASE SessionNext
  BY <1>2, VisitKeeps, ReloadKeeps, LogoutKeeps, AskingKeeps, ReturnKeeps, FailKeeps, ServeKeeps
     DEF SessionNext
<1> QED BY <1>1, <1>2

\* Every request in flight, user on a screen and token is of its kind.
THEOREM SessionTypes == SessionSpec => []SessionTypeOK
<1>1. SessionInv => SessionTypeOK BY DEF SessionInv
<1> QED BY <1>1, SessionStart, SessionStep, PTL DEF SessionSpec

\* A tab shows the user whose token its requests carry, unless another tab of its browser
\* logged in or out, or an answer came after its session had ended (AuthContext.tsx:34).
THEOREM ScreensFit == SessionSpec => []ScreenIsTheTokens
<1>1. SessionInv => ScreenIsTheTokens
  BY DEF SessionInv, SessionTypeOK, StoreInv, ScreenIsTheTokens
<1> QED BY <1>1, SessionStart, SessionStep, PTL DEF SessionSpec

\* An administrator remains unless one lost the role between adminRequired and the update
\* of another's (handler_user.go:111): nobody takes their own.
THEOREM AdminsRemain == SessionSpec => []AnAdminRemains
<1>1. SessionInv => AnAdminRemains BY DEF SessionInv
<1> QED BY <1>1, SessionStart, SessionStep, PTL DEF SessionSpec

----------------------------------------------------------------------------
(* ContestPage: a page shows the contest of its route.                     *)

ContestPageSpec == ContestPageInit /\ [][ContestPageNext]_contestVars

\* After a join that the server has seen, the page will ask for the kind again.
WillAsk(k, id) ==
    \E c \in contestCalls :
        /\ c.id = id /\ c.joining
        /\ \/ c.kind = "join" /\ c.answer # None
           \/ c.kind = "contest" /\ k = "standings"

\* A view of a contest that is true, or will be made so.
Fits(view, k, id) ==
    /\ view # None /\ view.id = id
    /\ view.joined => id \in members
    /\ id \in members => view.joined \/ WillAsk(k, id)

ShownOf(k) == IF k = "contest" THEN contestShown ELSE standingsShown

\* The latest request of a kind is for the contest of the route, its answer is right, and
\* when it has come and has not been overtaken, it is what the page shows.
Good(c, k) ==
    /\ c.kind = k /\ c.latest /\ c.id = contestId
    /\ c.answer # None => Fits(c.answer, k, contestId)
Asked(k) == \E c \in contestCalls : Good(c, k)
Shows(k) == contestId # None => Fits(ShownOf(k), k, contestId)
Settled(k) == Shows(k) /\ \A c \in contestCalls : c.kind = k => ~c.latest
LatestInv == \A k \in Parts \ mixedUp : Asked(k) \/ Settled(k)

IsLatest(c) ==
    c.kind \in Parts /\ c.latest /\ c.kind \notin mixedUp =>
        /\ c.id = contestId
        /\ \A d \in contestCalls : d.kind = c.kind /\ d.latest => d = c

TellsMembers(c) ==
    /\ c.answer # None => c.answer.id = c.id /\ (c.answer.joined => c.id \in members)
    /\ c.kind = "join" => c.joining /\ (c.answer # None => c.id \in members)
    /\ c.kind \in Parts /\ c.joining => c.id \in members
    /\ c.kind = "contest" /\ c.joining /\ c.answer # None => c.answer.joined

CallInv(c) == IsLatest(c) /\ TellsMembers(c)

NoPageInv ==
    contestId = None => contestShown = None /\ standingsShown = None /\ contestCalls = {}

ContestInv == LatestInv /\ (\A c \in contestCalls : CallInv(c)) /\ NoPageInv

LEMMA ContestStart == ContestPageInit => ContestPageTypeOK /\ ContestInv
<1> SUFFICES ASSUME ContestPageInit PROVE ContestPageTypeOK /\ ContestInv
  OBVIOUS
<1>1. \A k \in Parts : NewContestCall(0, k, contestId, FALSE) \in ContestCalls
  BY ContestPageAssumption DEF ContestPageInit, NewContestCall, ContestCalls, Parts
<1>2. contestCalls = {NewContestCall(0, k, contestId, FALSE) : k \in Parts}
  BY DEF ContestPageInit
<1>3. ContestPageTypeOK
  <2>1. contestCalls \subseteq ContestCalls BY <1>1, <1>2
  <2>2. contestMoves \in 0 .. MaxContestMoves BY ContestPageAssumption DEF ContestPageInit
  <2> QED BY <2>1, <2>2 DEF ContestPageInit, ContestPageTypeOK
<1>4. ASSUME NEW k \in Parts
      PROVE  LET c == NewContestCall(0, k, contestId, FALSE)
             IN  c.kind = k /\ c.id = contestId /\ ~c.joining /\ c.answer = None /\ c.latest
  BY DEF NewContestCall
<1>5. ASSUME NEW c \in contestCalls
      PROVE  c.kind \in Parts /\ c.id = contestId /\ ~c.joining /\ c.answer = None
             /\ c = NewContestCall(0, c.kind, contestId, FALSE)
  <2>1. PICK k \in Parts : c = NewContestCall(0, k, contestId, FALSE) BY <1>2
  <2> QED BY <2>1, <1>4
<1>6. ASSUME NEW c \in contestCalls PROVE CallInv(c)
  <2>1. c.kind \in Parts /\ c.id = contestId /\ ~c.joining /\ c.answer = None BY <1>5
  <2>2. ASSUME NEW d \in contestCalls, d.kind = c.kind PROVE d = c BY <1>5, <2>2
  <2>3. IsLatest(c) BY <2>1, <2>2 DEF IsLatest
  <2>4. TellsMembers(c) BY <2>1 DEF TellsMembers, Parts
  <2> QED BY <2>3, <2>4 DEF CallInv
<1>7. LatestInv
  <2>1. ASSUME NEW k \in Parts PROVE Asked(k)
    <3>1. NewContestCall(0, k, contestId, FALSE) \in contestCalls BY <1>2
    <3> QED BY <3>1, <1>4 DEF Asked, Good
  <2> QED BY <2>1 DEF LatestInv
<1>8. NoPageInv BY ContestPageAssumption DEF ContestPageInit, NoPageInv
<1> QED BY <1>3, <1>6, <1>7, <1>8 DEF ContestInv

\* What becomes of the requests before, and what the new ones are.
Older(c, ks) == [c EXCEPT !.latest = @ /\ c.kind \notin ks]

LEMMA OlderCall ==
    ASSUME ContestPageTypeOK, NEW c \in contestCalls, NEW ks \in SUBSET Parts
    PROVE  LET d == Older(c, ks)
           IN  /\ d \in ContestCalls
               /\ d.kind = c.kind /\ d.id = c.id /\ d.joining = c.joining /\ d.answer = c.answer
               /\ d.latest = (c.latest /\ c.kind \notin ks)
               /\ c.kind \notin ks => d = c
BY DEF ContestPageTypeOK, ContestCalls, Older

LEMMA NewerCall ==
    ASSUME NEW n \in 0 .. MaxContestMoves, NEW k \in Parts \cup {"join"}, NEW id \in Shown,
           NEW joining \in BOOLEAN
    PROVE  LET d == NewContestCall(n, k, id, joining)
           IN  /\ d \in ContestCalls /\ d.kind = k /\ d.id = id /\ d.joining = joining
               /\ d.answer = None /\ d.latest
BY DEF NewContestCall, ContestCalls

\* The requests that go on, and new ones.
AsksFor(n, ks, id, joining, others) ==
    /\ \A d \in contestCalls' : \/ \E c \in others : d = Older(c, ks)
                               \/ \E k \in ks : d = NewContestCall(n, k, id, joining)
    /\ \A c \in others : Older(c, ks) \in contestCalls'
    /\ \A k \in ks : NewContestCall(n, k, id, joining) \in contestCalls'

\* Requests for both kinds or for one, after others were dropped: they are right if those
\* that join are for a contest the user has joined, and are those of the route unless
\* the kind is given up.
LEMMA AskCalls ==
    ASSUME ContestPageTypeOK, \A c \in contestCalls : CallInv(c),
           NEW others \in SUBSET contestCalls, NEW ks \in SUBSET Parts,
           NEW n \in 0 .. MaxContestMoves, NEW id \in Shown, NEW joining \in BOOLEAN,
           AsksFor(n, ks, id, joining, others),
           mixedUp \ ks \subseteq mixedUp',
           \A k \in ks \ mixedUp' : id = contestId',
           \A k \in Parts \ mixedUp' : k \notin ks => contestId' = contestId,
           joining => id \in members,
           members' = members
    PROVE  contestCalls' \subseteq ContestCalls /\ \A c \in contestCalls' : CallInv(c)'
<1>1. ASSUME NEW d \in contestCalls'
      PROVE  \/ \E c \in others : d = Older(c, ks)
             \/ d.kind \in ks /\ d = NewContestCall(n, d.kind, id, joining)
  BY NewerCall DEF AsksFor
<1>2. ASSUME NEW d \in contestCalls', d.latest, d.kind \in ks
      PROVE  d = NewContestCall(n, d.kind, id, joining) /\ d.id = id
  <2>1. ASSUME NEW c \in others, d = Older(c, ks) PROVE FALSE
    BY <1>2, <2>1, OlderCall
  <2> QED BY <1>1, <1>2, <2>1, NewerCall
<1>3. ASSUME NEW d \in contestCalls', d.kind \notin ks PROVE d \in contestCalls
  BY <1>1, <1>3, OlderCall
<1>4. ASSUME NEW d \in contestCalls' PROVE d \in ContestCalls
  BY <1>1, OlderCall, NewerCall
<1>5. ASSUME NEW c \in contestCalls' PROVE IsLatest(c)'
  <2>1. CASE c.kind \in ks
    <3>1. ASSUME NEW d \in contestCalls', d.kind = c.kind, d.latest, c.latest PROVE d = c
      BY <1>2, <2>1, <3>1
    <3> QED BY <1>2, <2>1, <3>1 DEF IsLatest
  <2>2. CASE c.kind \notin ks
    <3>1. ASSUME NEW d \in contestCalls', d.kind = c.kind PROVE d \in contestCalls
      BY <1>3, <2>2, <3>1
    <3> QED BY <1>3, <2>2, <3>1 DEF CallInv, IsLatest
  <2> QED BY <2>1, <2>2
<1>6. ASSUME NEW d \in contestCalls' PROVE TellsMembers(d)'
  <2>1. ASSUME NEW c \in others, d = Older(c, ks) PROVE TellsMembers(d)'
    BY <2>1, OlderCall DEF CallInv, TellsMembers
  <2>2. ASSUME d.kind \in ks, d = NewContestCall(n, d.kind, id, joining) PROVE TellsMembers(d)'
    <3>1. d.answer = None /\ d.kind \in Parts /\ d.id = id /\ d.joining = joining
      BY <2>2, NewerCall
    <3> QED BY <3>1 DEF TellsMembers, Parts
  <2> QED BY <1>1, <2>1, <2>2
<1> QED BY <1>4, <1>5, <1>6 DEF CallInv

\* A promise to ask again stays, unless the request that makes it is dropped.
LEMMA AskPromises ==
    ASSUME ContestPageTypeOK, NEW others \in SUBSET contestCalls, NEW ks \in SUBSET Parts,
           NEW n, NEW id, NEW joining, AsksFor(n, ks, id, joining, others),
           NEW k, NEW i,
           \E c \in others : /\ c.id = i /\ c.joining
                             /\ \/ c.kind = "join" /\ c.answer # None
                                \/ c.kind = "contest" /\ k = "standings"
    PROVE  WillAsk(k, i)'
<1>1. PICK c \in others : /\ c.id = i /\ c.joining
                          /\ \/ c.kind = "join" /\ c.answer # None
                             \/ c.kind = "contest" /\ k = "standings"
  OBVIOUS
<1>2. Older(c, ks) \in contestCalls' BY DEF AsksFor
<1> QED BY <1>1, <1>2, OlderCall DEF WillAsk

\* What a view says stays true when promises do.
LEMMA FitsStays ==
    ASSUME NEW v, NEW k, NEW i, Fits(v, k, i), members \subseteq members',
           i \in members' => i \in members \/ WillAsk(k, i)', WillAsk(k, i) => WillAsk(k, i)'
    PROVE  Fits(v, k, i)'
BY DEF Fits

\* A step that leaves the latest request of a kind and what is shown as they are.
LEMMA LatestStays ==
    ASSUME NEW k \in Parts, contestId' = contestId, Asked(k) \/ Settled(k),
           \A v : Fits(v, k, contestId) => Fits(v, k, contestId)',
           \A c \in contestCalls : c.kind = k /\ c.latest => c \in contestCalls',
           \A c \in contestCalls' : c.kind = k /\ c.latest => c \in contestCalls,
           \/ ShownOf(k)' = ShownOf(k)
           \/ \E c \in contestCalls' : c.kind = k /\ c.latest
    PROVE  Asked(k)' \/ Settled(k)'
<1>1. ASSUME NEW c \in contestCalls, Good(c, k) PROVE Asked(k)'
  <2>1. c \in contestCalls' BY <1>1 DEF Good
  <2> QED BY <1>1, <2>1 DEF Good, Asked
<1>2. ASSUME Settled(k) PROVE Settled(k)'
  <2>1. \A c \in contestCalls' : c.kind = k => ~c.latest BY <1>2 DEF Settled
  <2>2. ShownOf(k)' = ShownOf(k) BY <2>1
  <2> QED BY <1>2, <2>1, <2>2 DEF Settled, Shows
<1> QED BY <1>1, <1>2 DEF Asked

\* Requests of other kinds are made: kind k is as it was.
LEMMA OthersAsked ==
    ASSUME ContestPageTypeOK, NEW ks \in SUBSET Parts, NEW k \in Parts \ ks,
           NEW n \in 0 .. MaxContestMoves, NEW id \in Shown, NEW joining \in BOOLEAN,
           NEW others \in SUBSET contestCalls, AsksFor(n, ks, id, joining, others),
           \A c \in contestCalls : c.kind = k => c \in others,
           contestId' = contestId, members' = members, ShownOf(k)' = ShownOf(k),
           WillAsk(k, contestId) => WillAsk(k, contestId)', Asked(k) \/ Settled(k)
    PROVE  Asked(k)' \/ Settled(k)'
<1>1. \A v : Fits(v, k, contestId) => Fits(v, k, contestId)' BY DEF Fits
<1>2. \A c \in contestCalls : c.kind = k /\ c.latest => c \in contestCalls'
  BY OlderCall DEF AsksFor
<1>3. \A c \in contestCalls' : c.kind = k /\ c.latest => c \in contestCalls
  <2>1. ASSUME NEW c \in contestCalls', c.kind = k, NEW d \in others, c = Older(d, ks)
        PROVE  c \in contestCalls
    BY <2>1, OlderCall
  <2>2. ASSUME NEW c \in contestCalls', c.kind = k, NEW j \in ks,
               c = NewContestCall(n, j, id, joining)
        PROVE  FALSE
    BY <2>2, NewerCall
  <2> QED BY <2>1, <2>2 DEF AsksFor
<1> QED BY <1>1, <1>2, <1>3, LatestStays

\* The page asks for kinds ks of the contest of its route: the latest of these are new.
LEMMA AskPartsKeep ==
    ASSUME ContestPageTypeOK, ContestInv, NEW ks \in SUBSET Parts,
           NEW n \in 0 .. MaxContestMoves, NEW id \in Shown,
           AskParts(n, ks, id, FALSE, contestCalls), contestId' = id,
           ks = Parts \/ contestId = id,
           UNCHANGED <<members, contestShown, standingsShown>>
    PROVE  contestCalls' \subseteq ContestCalls /\ mixedUp' \subseteq Parts /\ ContestInv'
<1>1. AsksFor(n, ks, id, FALSE, contestCalls) /\ mixedUp' = mixedUp \ ks
  BY DEF AskParts, Older, AsksFor
<1>2. contestCalls' \subseteq ContestCalls /\ \A c \in contestCalls' : CallInv(c)'
  <2>1. \A c \in contestCalls : CallInv(c) BY DEF ContestInv
  <2>2. mixedUp \ ks \subseteq mixedUp' BY <1>1
  <2>3. \A k \in ks \ mixedUp' : id = contestId' OBVIOUS
  <2>4. \A k \in Parts \ mixedUp' : k \notin ks => contestId' = contestId OBVIOUS
  <2> QED BY <1>1, <2>1, <2>2, <2>3, <2>4, AskCalls
<1>3. LatestInv'
  <2> SUFFICES ASSUME NEW k \in Parts \ mixedUp' PROVE Asked(k)' \/ Settled(k)'
    BY DEF LatestInv
  <2>1. CASE k \in ks
    <3>1. NewContestCall(n, k, id, FALSE) \in contestCalls' BY <1>1, <2>1 DEF AsksFor
    <3> QED BY <3>1, NewerCall DEF Asked, Good
  <2>2. CASE k \notin ks
    <3>1. contestId' = contestId /\ k \in Parts \ mixedUp BY <1>1, <2>2
    <3>2. Asked(k) \/ Settled(k) BY <3>1 DEF ContestInv, LatestInv
    <3>3. ASSUME WillAsk(k, contestId) PROVE WillAsk(k, contestId)'
      <4>1. PICK c \in contestCalls : /\ c.id = contestId /\ c.joining
                                      /\ \/ c.kind = "join" /\ c.answer # None
                                         \/ c.kind = "contest" /\ k = "standings"
        BY <3>3 DEF WillAsk
      <4>2. Older(c, ks) \in contestCalls' BY <1>1 DEF AsksFor
      <4>3. contestId = id BY <2>2
      <4>4. WillAsk(k, id)' BY <4>1, <4>2, <4>3, OlderCall DEF WillAsk
      <4> QED BY <3>1, <4>4 DEF WillAsk
    <3>4. ShownOf(k)' = ShownOf(k) BY DEF ShownOf
    <3> QED BY <1>1, <2>2, <3>1, <3>2, <3>3, <3>4, OthersAsked
  <2> QED BY <2>1, <2>2
<1>4. NoPageInv' BY ContestPageAssumption DEF NoPageInv
<1> QED BY <1>1, <1>2, <1>3, <1>4 DEF ContestInv, ContestPageTypeOK

LEMMA ShowContestKeeps ==
    ASSUME ContestPageTypeOK, ContestInv, NEW id \in Shown, ShowContest(id)
    PROVE  ContestPageTypeOK' /\ ContestInv'
<1>1. contestMoves + 1 \in 0 .. MaxContestMoves /\ contestMoves' \in 0 .. MaxContestMoves
  BY ContestPageAssumption DEF ShowContest, ContestMove, ContestPageTypeOK
<1>2. contestCalls' \subseteq ContestCalls /\ mixedUp' \subseteq Parts /\ ContestInv'
  BY <1>1, AskPartsKeep DEF ShowContest, LoadBoth
<1> QED BY <1>1, <1>2 DEF ShowContest, ContestPageTypeOK

LEMMA RefreshStandingsKeeps ==
    ASSUME ContestPageTypeOK, ContestInv, RefreshStandings
    PROVE  ContestPageTypeOK' /\ ContestInv'
<1>1. contestMoves + 1 \in 0 .. MaxContestMoves /\ contestMoves' \in 0 .. MaxContestMoves
  BY ContestPageAssumption DEF RefreshStandings, ContestMove, ContestPageTypeOK
<1>2. contestId \in Shown
  BY DEF RefreshStandings, ContestInv, NoPageInv, ContestPageTypeOK
<1> DEFINE ks == {"standings"}
<1>3. ks \in SUBSET Parts BY DEF Parts
<1>4. contestCalls' \subseteq ContestCalls /\ mixedUp' \subseteq Parts /\ ContestInv'
  <2>1. AskParts(contestMoves + 1, ks, contestId, FALSE, contestCalls) /\ contestId' = contestId
    BY DEF RefreshStandings
  <2>2. UNCHANGED <<members, contestShown, standingsShown>> BY DEF RefreshStandings
  <2> HIDE DEF ks
  <2> QED BY <1>1, <1>2, <1>3, <2>1, <2>2, AskPartsKeep
<1> QED BY <1>1, <1>4 DEF RefreshStandings, ContestPageTypeOK

LEMMA LeaveContestKeeps ==
    ASSUME ContestPageTypeOK, ContestInv, LeaveContest
    PROVE  ContestPageTypeOK' /\ ContestInv'
<1>1. members' \subseteq Shown
  BY DEF LeaveContest, ContestPageTypeOK, ContestCalls
<1>2. ContestPageTypeOK' BY <1>1 DEF LeaveContest, ContestPageTypeOK
<1>3. LatestInv' BY DEF LeaveContest, LatestInv, Settled, Shows
<1>4. \A c \in contestCalls' : CallInv(c)' BY DEF LeaveContest
<1>5. NoPageInv' BY DEF LeaveContest, NoPageInv
<1> QED BY <1>2, <1>3, <1>4, <1>5 DEF ContestInv

LEMMA JoinKeeps ==
    ASSUME ContestPageTypeOK, ContestInv, Join
    PROVE  ContestPageTypeOK' /\ ContestInv'
<1> DEFINE new == NewContestCall(contestMoves + 1, "join", contestId, TRUE)
<1>1. contestMoves + 1 \in 0 .. MaxContestMoves /\ contestMoves' \in 0 .. MaxContestMoves
  BY ContestPageAssumption DEF Join, ContestMove, ContestPageTypeOK
<1>2. contestId \in Shown BY DEF Join, ContestInv, NoPageInv, ContestPageTypeOK
<1>3. /\ new \in ContestCalls /\ new.kind = "join" /\ new.id = contestId /\ new.joining
      /\ new.answer = None
  BY <1>1, <1>2 DEF NewContestCall, ContestCalls
<1>4. contestCalls' = contestCalls \cup {new} BY DEF Join
<1> HIDE DEF new
<1>5. ContestPageTypeOK'
  <2>1. contestCalls' \subseteq ContestCalls BY <1>3, <1>4 DEF ContestPageTypeOK
  <2> QED BY <1>1, <2>1 DEF Join, ContestPageTypeOK
<1>6. \A k, i : WillAsk(k, i) => WillAsk(k, i)' BY <1>4 DEF WillAsk
<1>7. LatestInv'
  <2> SUFFICES ASSUME NEW k \in Parts \ mixedUp' PROVE Asked(k)' \/ Settled(k)'
    BY DEF LatestInv
  <2>1. /\ contestId' = contestId /\ members' = members /\ ShownOf(k)' = ShownOf(k)
        /\ mixedUp' = mixedUp
    BY DEF Join, ShownOf
  <2>2. Asked(k) \/ Settled(k) BY <2>1 DEF ContestInv, LatestInv
  <2>3. \A v : Fits(v, k, contestId) => Fits(v, k, contestId)'
    BY <1>4, <2>1 DEF Fits, WillAsk
  <2>4. \A c \in contestCalls' : c.kind = k => c \in contestCalls BY <1>3, <1>4 DEF Parts
  <2> QED BY <1>4, <2>1, <2>2, <2>3, <2>4, LatestStays
<1>8. ASSUME NEW c \in contestCalls' PROVE CallInv(c)'
  <2>1. contestId' = contestId /\ members' = members /\ mixedUp' = mixedUp BY DEF Join
  <2>2. CASE c = new BY <1>3, <2>1, <2>2 DEF CallInv, IsLatest, TellsMembers, Parts
  <2>3. CASE c \in contestCalls
    <3>1. CallInv(c) BY <2>3 DEF ContestInv
    <3>2. TellsMembers(c)' BY <2>1, <3>1 DEF CallInv, TellsMembers
    <3>3. IsLatest(c)' BY <1>3, <1>4, <2>1, <3>1 DEF CallInv, IsLatest, Parts
    <3> QED BY <3>2, <3>3 DEF CallInv
  <2> QED BY <1>4, <2>2, <2>3
<1>9. NoPageInv' BY <1>2, ContestPageAssumption DEF Join, NoPageInv
<1> QED BY <1>5, <1>7, <1>8, <1>9 DEF ContestInv

LEMMA JoinReturnsKeeps ==
    ASSUME ContestPageTypeOK, ContestInv, NEW c \in contestCalls, JoinReturns(c),
           UNCHANGED <<contestId, members, over, contestMoves>>
    PROVE  ContestPageTypeOK' /\ ContestInv'
<1> DEFINE ks == {"contest"}
           others == contestCalls \ {c}
<1>1. ks \in SUBSET Parts /\ others \in SUBSET contestCalls BY DEF Parts
<1>2. c.kind = "join" /\ c.answer # None /\ c.joining /\ c.id \in members
  BY DEF JoinReturns, ContestInv, CallInv, TellsMembers
<1>3. c.n \in 0 .. MaxContestMoves /\ c.id \in Shown
  BY DEF ContestPageTypeOK, ContestCalls
<1>4. /\ AsksFor(c.n, ks, c.id, TRUE, others)
      /\ mixedUp' = IF c.id # contestId THEN mixedUp \cup ks ELSE mixedUp \ ks
  BY DEF JoinReturns, AskParts, Older, AsksFor
<1>5. contestShown' = contestShown /\ standingsShown' = standingsShown BY DEF JoinReturns
<1> HIDE DEF ks, others
<1>6. contestCalls' \subseteq ContestCalls /\ \A d \in contestCalls' : CallInv(d)'
  <2>1. \A d \in contestCalls : CallInv(d) BY DEF ContestInv
  <2>2. mixedUp \ ks \subseteq mixedUp' BY <1>4
  <2>3. \A k \in ks \ mixedUp' : c.id = contestId' BY <1>4
  <2>4. \A k \in Parts \ mixedUp' : k \notin ks => contestId' = contestId OBVIOUS
  <2> QED BY <1>1, <1>2, <1>3, <1>4, <2>1, <2>2, <2>3, <2>4, AskCalls
<1>7. LatestInv'
  <2> SUFFICES ASSUME NEW k \in Parts \ mixedUp' PROVE Asked(k)' \/ Settled(k)'
    BY DEF LatestInv
  <2>1. CASE k \in ks
    <3>1. NewContestCall(c.n, k, c.id, TRUE) \in contestCalls' BY <1>4, <2>1 DEF AsksFor
    <3>2. c.id = contestId BY <1>4, <2>1
    <3> QED BY <1>3, <2>1, <3>1, <3>2, NewerCall DEF Asked, Good
  <2>2. CASE k \notin ks
    <3>1. k = "standings" /\ k \in Parts \ mixedUp BY <1>4, <2>2 DEF Parts, ks
    <3>2. Asked(k) \/ Settled(k) BY <3>1 DEF ContestInv, LatestInv
    <3>3. ASSUME WillAsk(k, contestId) PROVE WillAsk(k, contestId)'
      <4>1. PICK d \in contestCalls : /\ d.id = contestId /\ d.joining
                                      /\ \/ d.kind = "join" /\ d.answer # None
                                         \/ d.kind = "contest" /\ k = "standings"
        BY <3>3 DEF WillAsk
      <4>2. CASE d = c
        <5>1. NewContestCall(c.n, "contest", c.id, TRUE) \in contestCalls'
          BY <1>4 DEF AsksFor, ks
        <5>2. LET new == NewContestCall(c.n, "contest", c.id, TRUE)
              IN  new.id = c.id /\ new.joining /\ new.kind = "contest"
          BY DEF NewContestCall
        <5> QED BY <3>1, <4>1, <4>2, <5>1, <5>2, <1>4 DEF WillAsk
      <4>3. CASE d # c
        <5>1. d \in others BY <4>3 DEF others
        <5>2. PICK i : i = contestId OBVIOUS
        <5>3. WillAsk(k, i)' BY <1>1, <1>4, <4>1, <5>1, <5>2, AskPromises
        <5> QED BY <5>2, <5>3 DEF WillAsk
      <4> QED BY <4>2, <4>3
    <3>4. ShownOf(k)' = ShownOf(k) BY <1>5 DEF ShownOf
    <3>5. \A d \in contestCalls : d.kind = k => d \in others BY <1>2, <3>1 DEF others
    <3> QED BY <1>1, <1>3, <1>4, <2>2, <3>1, <3>2, <3>3, <3>4, <3>5, OthersAsked
  <2> QED BY <2>1, <2>2
<1>8. ContestPageTypeOK'
  <2>1. mixedUp' \subseteq Parts BY <1>1, <1>4 DEF ContestPageTypeOK
  <2> QED BY <1>5, <1>6, <2>1 DEF ContestPageTypeOK
<1>9. NoPageInv' BY <1>5 DEF ContestInv, NoPageInv
<1> QED BY <1>6, <1>7, <1>8, <1>9 DEF ContestInv

\* The answer of a request for kind k that does not join is shown.
LEMMA AnswerShown ==
    ASSUME ContestPageTypeOK, ContestInv, NEW c \in contestCalls, c.answer # None,
           c.kind \in Parts, c.kind = "contest" => ~c.joining,
           contestCalls' = contestCalls \ {c}, mixedUp' = mixedUp \cup Overtaken(c),
           ShownOf(c.kind)' = c.answer,
           \A k \in Parts : k # c.kind => ShownOf(k)' = ShownOf(k),
           contestId' = contestId, members' = members
    PROVE  ContestInv'
<1>1. ASSUME NEW k \in Parts, NEW v, Fits(v, k, contestId) PROVE Fits(v, k, contestId)'
  <2>1. WillAsk(k, contestId) => WillAsk(k, contestId)' BY DEF WillAsk, Parts
  <2> QED BY <1>1, <2>1 DEF Fits
<1>2. LatestInv'
  <2> SUFFICES ASSUME NEW k \in Parts \ mixedUp' PROVE Asked(k)' \/ Settled(k)'
    BY DEF LatestInv
  <2>1. Asked(k) \/ Settled(k) BY DEF ContestInv, LatestInv
  <2>2. CASE k # c.kind
    <3>1. ShownOf(k)' = ShownOf(k) BY <2>2
    <3> QED BY <1>1, <2>1, <2>2, <3>1, LatestStays
  <2>3. CASE k = c.kind
    <3>1. PICK d \in contestCalls : d.kind = k /\ d.latest BY <2>3 DEF Overtaken
    <3>2. IsLatest(d) BY DEF ContestInv, CallInv
    <3>3. \A e \in contestCalls : e.kind = k /\ e.latest => e = d BY <3>1, <3>2 DEF IsLatest
    <3>4. Good(d, k) BY <2>1, <3>1, <3>3 DEF Asked, Settled, Good
    <3>5. CASE d = c
      <4>1. Fits(c.answer, k, contestId)' BY <1>1, <3>4, <3>5 DEF Good
      <4>2. Shows(k)' BY <2>3, <4>1 DEF Shows
      <4>3. \A e \in contestCalls' : e.kind = k => ~e.latest BY <3>3, <3>5
      <4> QED BY <4>2, <4>3 DEF Settled
    <3>6. CASE d # c
      <4>1. d \in contestCalls' BY <3>6
      <4> QED BY <1>1, <3>4, <4>1 DEF Asked, Good
    <3> QED BY <3>5, <3>6
  <2> QED BY <2>2, <2>3
<1>3. ASSUME NEW d \in contestCalls' PROVE CallInv(d)'
  BY DEF ContestInv, CallInv, IsLatest, TellsMembers
<1>4. NoPageInv' BY DEF ContestInv, NoPageInv, ShownOf
<1> QED BY <1>2, <1>3, <1>4 DEF ContestInv

LEMMA ContestReturnsKeeps ==
    ASSUME ContestPageTypeOK, ContestInv, NEW c \in contestCalls, ContestReturns(c),
           UNCHANGED <<contestId, members, over, contestMoves>>
    PROVE  ContestPageTypeOK' /\ ContestInv'
<1>1. /\ c.kind = "contest" /\ c.answer # None /\ c.answer \in Views
      /\ c.n \in 0 .. MaxContestMoves /\ c.id \in Shown /\ c.joining \in BOOLEAN
  BY DEF ContestReturns, ContestPageTypeOK, ContestCalls
<1>2. contestShown' = c.answer /\ standingsShown' = standingsShown BY DEF ContestReturns
<1>3. CASE ~c.joining
  <2>1. contestCalls' = contestCalls \ {c} /\ mixedUp' = mixedUp \cup Overtaken(c)
    BY <1>3 DEF ContestReturns
  <2>2. ContestInv' BY <1>1, <1>2, <1>3, <2>1, AnswerShown DEF ShownOf, Parts
  <2>3. ContestPageTypeOK' BY <1>1, <1>2, <2>1 DEF ContestPageTypeOK, Overtaken
  <2> QED BY <2>2, <2>3
<1>4. CASE c.joining
  <2> DEFINE ks == {"standings"}
             others == contestCalls \ {c}
  <2>1. ks \in SUBSET Parts /\ others \in SUBSET contestCalls BY DEF Parts
  <2>2. /\ AsksFor(c.n, ks, c.id, TRUE, others)
        /\ mixedUp' = IF c.id # contestId THEN Parts ELSE (mixedUp \cup Overtaken(c)) \ ks
    BY <1>4 DEF ContestReturns, Older, AsksFor
  <2>3. CallInv(c) BY DEF ContestInv
  <2>4. c.id \in members /\ c.answer.id = c.id /\ c.answer.joined
    BY <1>1, <1>4, <2>3 DEF CallInv, TellsMembers, Parts
  <2> HIDE DEF ks, others
  <2>5. contestCalls' \subseteq ContestCalls /\ \A d \in contestCalls' : CallInv(d)'
    <3>1. \A d \in contestCalls : CallInv(d) BY DEF ContestInv
    <3>2. mixedUp \ ks \subseteq mixedUp' BY <2>2 DEF ContestPageTypeOK
    <3>3. \A k \in ks \ mixedUp' : c.id = contestId' BY <2>1, <2>2
    <3>4. \A k \in Parts \ mixedUp' : k \notin ks => contestId' = contestId OBVIOUS
    <3> QED BY <1>1, <1>4, <2>1, <2>2, <2>4, <3>1, <3>2, <3>3, <3>4, AskCalls
  <2>6. LatestInv'
    <3> SUFFICES ASSUME NEW k \in Parts \ mixedUp' PROVE Asked(k)' \/ Settled(k)'
      BY DEF LatestInv
    <3>1. c.id = contestId BY <2>2
    <3>2. CASE k \in ks
      <4>1. NewContestCall(c.n, k, c.id, TRUE) \in contestCalls' BY <2>2, <3>2 DEF AsksFor
      <4> QED BY <1>1, <3>1, <3>2, <4>1, NewerCall DEF Asked, Good
    <3>3. CASE k \notin ks
      <4>1. k = "contest" /\ k \notin Overtaken(c) /\ k \notin mixedUp
        BY <2>2, <3>1, <3>3 DEF Parts, ks
      <4>2. PICK d \in contestCalls : d.kind = k /\ d.latest BY <1>1, <4>1 DEF Overtaken
      <4>3. IsLatest(d) BY DEF ContestInv, CallInv
      <4>4. \A e \in contestCalls : e.kind = k /\ e.latest => e = d
        BY <4>1, <4>2, <4>3 DEF IsLatest
      <4>5. CASE d = c
        <5>1. ASSUME NEW e \in contestCalls', e.kind = k PROVE ~e.latest
          <6>1. ASSUME NEW a \in others, e = Older(a, ks) PROVE ~e.latest
            BY <2>1, <3>3, <4>1, <4>4, <4>5, <5>1, <6>1, OlderCall DEF others
          <6>2. ASSUME NEW j \in ks, e = NewContestCall(c.n, j, c.id, TRUE) PROVE FALSE
            BY <3>3, <5>1, <6>2 DEF NewContestCall
          <6> QED BY <2>2, <6>1, <6>2 DEF AsksFor
        <5>2. Shows(k)' BY <1>1, <1>2, <2>4, <3>1, <4>1 DEF Shows, ShownOf, Fits
        <5> QED BY <5>1, <5>2 DEF Settled
      <4>6. CASE d # c
        <5>1. d \in others /\ Older(d, ks) = d BY <2>1, <3>3, <4>2, <4>6, OlderCall DEF others
        <5>2. d \in contestCalls' BY <2>2, <5>1 DEF AsksFor
        <5>3. Good(d, k)
          BY <3>1, <4>2, <4>4, <4>1 DEF ContestInv, LatestInv, Asked, Settled, Good
        <5>4. ASSUME WillAsk(k, contestId) PROVE WillAsk(k, contestId)'
          <6>1. PICK e \in contestCalls : /\ e.id = contestId /\ e.joining
                                          /\ e.kind = "join" /\ e.answer # None
            BY <4>1, <5>4 DEF WillAsk
          <6>2. e \in others BY <1>1, <6>1 DEF others
          <6>3. Older(e, ks) \in contestCalls' BY <2>2, <6>2 DEF AsksFor
          <6> QED BY <2>1, <6>1, <6>3, OlderCall DEF WillAsk
        <5>5. Good(d, k)' BY <5>3, <5>4 DEF Good, Fits
        <5> QED BY <5>2, <5>5 DEF Asked
      <4> QED BY <4>5, <4>6
    <3> QED BY <3>2, <3>3
  <2>7. ContestPageTypeOK'
    <3>1. mixedUp' \subseteq Parts BY <2>2 DEF ContestPageTypeOK, Overtaken
    <3> QED BY <1>1, <1>2, <2>5, <3>1 DEF ContestPageTypeOK
  <2>8. NoPageInv' BY DEF ContestInv, NoPageInv
  <2> QED BY <2>5, <2>6, <2>7, <2>8 DEF ContestInv
<1> QED BY <1>1, <1>3, <1>4

LEMMA StandingsReturnKeeps ==
    ASSUME ContestPageTypeOK, ContestInv, NEW c \in contestCalls, StandingsReturn(c),
           UNCHANGED <<contestId, members, over, contestMoves>>
    PROVE  ContestPageTypeOK' /\ ContestInv'
<1>1. /\ c.kind = "standings" /\ c.answer # None /\ c.answer \in Views
      /\ standingsShown' = c.answer /\ contestShown' = contestShown
      /\ contestCalls' = contestCalls \ {c} /\ mixedUp' = mixedUp \cup Overtaken(c)
  BY DEF StandingsReturn, ContestPageTypeOK, ContestCalls
<1>2. ContestInv' BY <1>1, AnswerShown DEF ShownOf, Parts
<1>3. ContestPageTypeOK' BY <1>1 DEF ContestPageTypeOK, Overtaken
<1> QED BY <1>2, <1>3

LEMMA ContestCallFailsKeeps ==
    ASSUME ContestPageTypeOK, ContestInv, NEW c \in contestCalls, ContestCallFails(c)
    PROVE  ContestPageTypeOK' /\ ContestInv'
<1>1. /\ contestCalls' = contestCalls \ {c} /\ contestId' = contestId /\ members' = members
      /\ mixedUp' = mixedUp \cup (IF c.joining THEN Parts
                                  ELSE {k \in Parts : k = c.kind /\ c.latest})
      /\ contestShown' = contestShown /\ standingsShown' = standingsShown
  BY DEF ContestCallFails
<1>2. ContestPageTypeOK'
  <2>1. contestCalls' \subseteq ContestCalls /\ mixedUp' \subseteq Parts
    BY <1>1 DEF ContestPageTypeOK
  <2> QED BY <2>1 DEF ContestCallFails, ContestPageTypeOK
<1>3. ASSUME NEW k \in Parts \ mixedUp' PROVE Asked(k)' \/ Settled(k)'
  <2>1. ~c.joining /\ (c.kind = k => ~c.latest) /\ k \in Parts \ mixedUp BY <1>1
  <2>2. WillAsk(k, contestId) => WillAsk(k, contestId)' BY <1>1, <2>1 DEF WillAsk
  <2>3. \A v : Fits(v, k, contestId) => Fits(v, k, contestId)' BY <1>1, <2>2 DEF Fits
  <2>4. \A d \in contestCalls : d.kind = k /\ d.latest => d \in contestCalls' BY <1>1, <2>1
  <2>5. ShownOf(k)' = ShownOf(k) BY <1>1 DEF ShownOf
  <2> QED BY <1>1, <2>1, <2>3, <2>4, <2>5, LatestStays DEF ContestInv, LatestInv
<1>4. ASSUME NEW d \in contestCalls' PROVE CallInv(d)'
  BY <1>1 DEF ContestInv, CallInv, IsLatest, TellsMembers
<1>5. NoPageInv' BY <1>1 DEF ContestInv, NoPageInv
<1> QED BY <1>2, <1>3, <1>4, <1>5 DEF ContestInv, LatestInv

LEMMA ServeContestCallKeeps ==
    ASSUME ContestPageTypeOK, ContestInv, NEW c \in contestCalls, ServeContestCall(c)
    PROVE  ContestPageTypeOK' /\ ContestInv'
<1>a. PICK view : view = ViewOf(c.id) OBVIOUS
<1>b. PICK served : served = [c EXCEPT !.answer = view] OBVIOUS
<1>1. /\ c \in ContestCalls /\ c.id \in Shown /\ c.answer = None
      /\ contestId' = contestId /\ mixedUp' = mixedUp
      /\ contestShown' = contestShown /\ standingsShown' = standingsShown
      /\ contestCalls' = (contestCalls \ {c}) \cup {served}
  BY <1>a, <1>b DEF ServeContestCall, ContestPageTypeOK, ContestCalls
<1>2. members' = (IF c.kind = "join" THEN members \cup {c.id} ELSE members)
  BY DEF ServeContestCall
<1>3. /\ view \in Views /\ view # None /\ view.id = c.id
      /\ view.joined <=> c.id \in members'
  <2>1. view \in Views BY <1>1, <1>a DEF ViewOf, Views
  <2>2. view # None BY <2>1, ContestPageAssumption
  <2> QED BY <1>a, <2>1, <2>2 DEF ViewOf
<1>4. /\ served \in ContestCalls /\ served.kind = c.kind /\ served.id = c.id
      /\ served.joining = c.joining /\ served.latest = c.latest /\ served.answer = view
  BY <1>1, <1>3, <1>b DEF ContestCalls
<1>5. CallInv(c) BY DEF ContestInv
<1>6. ContestPageTypeOK'
  <2>1. contestCalls' \subseteq ContestCalls BY <1>1, <1>4 DEF ContestPageTypeOK
  <2>2. members' \subseteq Shown BY <1>1, <1>2 DEF ContestPageTypeOK
  <2> QED BY <2>1, <2>2 DEF ServeContestCall, ContestPageTypeOK
<1>7. ASSUME NEW k, WillAsk(k, contestId) PROVE WillAsk(k, contestId)'
  <2>1. PICK d \in contestCalls : /\ d.id = contestId /\ d.joining
                                  /\ \/ d.kind = "join" /\ d.answer # None
                                     \/ d.kind = "contest" /\ k = "standings"
    BY <1>7 DEF WillAsk
  <2>2. CASE d = c BY <1>1, <1>4, <2>1, <2>2, <1>3 DEF WillAsk
  <2>3. CASE d # c BY <1>1, <2>1, <2>3 DEF WillAsk
  <2> QED BY <2>2, <2>3
<1>8. ASSUME NEW k, contestId \in members' PROVE contestId \in members \/ WillAsk(k, contestId)'
  <2>1. CASE c.kind = "join" /\ c.id = contestId
    <3>1. c.joining BY <1>5, <2>1 DEF CallInv, TellsMembers
    <3>2. served \in contestCalls' BY <1>1
    <3> QED BY <1>1, <1>3, <1>4, <2>1, <3>1, <3>2 DEF WillAsk
  <2>2. CASE ~(c.kind = "join" /\ c.id = contestId) BY <1>2, <1>8, <2>2
  <2> QED BY <2>1, <2>2
<1>9. ASSUME NEW k, NEW v, Fits(v, k, contestId) PROVE Fits(v, k, contestId)'
  BY <1>1, <1>2, <1>7, <1>8, <1>9 DEF Fits
<1>10. ASSUME NEW k \in Parts, Asked(k) \/ Settled(k) PROVE Asked(k)' \/ Settled(k)'
  <2>1. ASSUME NEW d \in contestCalls, Good(d, k) PROVE Asked(k)'
    <3>1. CASE d = c
      <4>1. /\ view.joined => contestId \in members'
            /\ contestId \in members' => view.joined
        BY <1>3, <2>1, <3>1 DEF Good
      <4>2. Fits(view, k, contestId)' BY <1>1, <1>3, <2>1, <3>1, <4>1 DEF Good, Fits
      <4>3. Good(served, k)' BY <1>1, <1>4, <2>1, <3>1, <4>2 DEF Good
      <4> QED BY <1>1, <4>3 DEF Asked
    <3>2. CASE d # c
      <4>1. Good(d, k)' BY <1>1, <1>9, <2>1 DEF Good
      <4> QED BY <1>1, <3>2, <4>1 DEF Asked
    <3> QED BY <3>1, <3>2
  <2>2. ASSUME Settled(k) PROVE Settled(k)'
    <3>1. ShownOf(k)' = ShownOf(k) BY <1>1 DEF ShownOf
    <3>2. Shows(k)' BY <1>1, <1>9, <2>2, <3>1 DEF Settled, Shows
    <3>3. \A d \in contestCalls' : d.kind = k => ~d.latest BY <1>1, <1>4, <2>2 DEF Settled
    <3> QED BY <3>2, <3>3 DEF Settled
  <2> QED BY <1>10, <2>1, <2>2 DEF Asked
<1>11. ASSUME NEW d \in contestCalls' PROVE CallInv(d)'
  <2>1. CASE d = served
    <3>1. IsLatest(d)'
      <4>1. ASSUME served.kind \in Parts, served.latest, served.kind \notin mixedUp'
            PROVE  /\ served.id = contestId
                   /\ \A e \in contestCalls' : e.kind = served.kind /\ e.latest => e = served
        BY <1>1, <1>4, <1>5, <4>1 DEF CallInv, IsLatest
      <4> QED BY <1>1, <2>1, <4>1 DEF IsLatest
    <3>2. TellsMembers(d)'
      <4>1. c.kind = "join" => c.joining /\ c.id \in members'
        BY <1>2, <1>5 DEF CallInv, TellsMembers
      <4>2. c.kind \in Parts /\ c.joining => c.id \in members'
        BY <1>2, <1>5 DEF CallInv, TellsMembers
      <4> QED BY <1>3, <1>4, <2>1, <4>1, <4>2 DEF TellsMembers, Parts
    <3> QED BY <3>1, <3>2 DEF CallInv
  <2>2. CASE d \in contestCalls \ {c}
    <3>1. CallInv(d) BY <2>2 DEF ContestInv
    <3>2. IsLatest(d)'
      <4>1. ASSUME d.kind \in Parts, d.latest, d.kind \notin mixedUp, NEW e \in contestCalls',
                   e.kind = d.kind, e.latest
            PROVE  e = d
        BY <1>1, <1>4, <2>2, <3>1, <4>1 DEF CallInv, IsLatest
      <4> QED BY <1>1, <3>1, <4>1 DEF CallInv, IsLatest
    <3>3. TellsMembers(d)' BY <1>2, <3>1 DEF CallInv, TellsMembers
    <3> QED BY <3>2, <3>3 DEF CallInv
  <2> QED BY <1>1, <2>1, <2>2
<1>12. LatestInv' BY <1>1, <1>10 DEF ContestInv, LatestInv
<1>13. NoPageInv' BY <1>1 DEF ContestInv, NoPageInv
<1> QED BY <1>6, <1>11, <1>12, <1>13 DEF ContestInv

LEMMA ContestEndsKeeps ==
    ASSUME ContestPageTypeOK, ContestInv, NEW id \in Shown, ContestEnds(id)
    PROVE  ContestPageTypeOK' /\ ContestInv'
<1>1. contestMoves' \in 0 .. MaxContestMoves
  BY ContestPageAssumption DEF ContestEnds, ContestMove, ContestPageTypeOK
<1>2. ContestPageTypeOK' BY <1>1 DEF ContestEnds, ContestPageTypeOK
<1>3. ContestInv'
  BY DEF ContestEnds, ContestInv, LatestInv, Asked, Settled, Shows, ShownOf, Good, Fits,
         WillAsk, CallInv, IsLatest, TellsMembers, NoPageInv
<1> QED BY <1>2, <1>3

LEMMA ContestStutters ==
    ASSUME ContestPageTypeOK, ContestInv, UNCHANGED contestVars
    PROVE  ContestPageTypeOK' /\ ContestInv'
<1>1. ContestPageTypeOK' BY DEF contestVars, ContestPageTypeOK
<1>2. ContestInv'
  BY DEF contestVars, ContestInv, LatestInv, Asked, Settled, Shows, ShownOf, Good, Fits,
         WillAsk, CallInv, IsLatest, TellsMembers, NoPageInv
<1> QED BY <1>1, <1>2

LEMMA ContestStep ==
    ASSUME ContestPageTypeOK, ContestInv, [ContestPageNext]_contestVars
    PROVE  ContestPageTypeOK' /\ ContestInv'
<1>1. ASSUME NEW id \in Shown, ShowContest(id) PROVE ContestPageTypeOK' /\ ContestInv'
  BY <1>1, ShowContestKeeps
<1>2. ASSUME NEW id \in Shown, ContestEnds(id) PROVE ContestPageTypeOK' /\ ContestInv'
  BY <1>2, ContestEndsKeeps
<1>3. ASSUME NEW c \in contestCalls, ContestAnswers(c)
      PROVE  ContestPageTypeOK' /\ ContestInv'
  BY <1>3, JoinReturnsKeeps, ContestReturnsKeeps, StandingsReturnKeeps DEF ContestAnswers
<1>4. ASSUME NEW c \in contestCalls, ServeContestCall(c) \/ ContestCallFails(c)
      PROVE  ContestPageTypeOK' /\ ContestInv'
  BY <1>4, ServeContestCallKeeps, ContestCallFailsKeeps
<1>5. CASE LeaveContest \/ RefreshStandings \/ Join
  BY <1>5, LeaveContestKeeps, RefreshStandingsKeeps, JoinKeeps
<1>6. CASE UNCHANGED contestVars BY <1>6, ContestStutters
<1> QED BY <1>1, <1>2, <1>3, <1>4, <1>5, <1>6 DEF ContestPageNext

LEMMA ContestInvIsRight == ContestInv => ContestIsTheRoutes
BY DEF ContestInv, LatestInv, Asked, Settled, Shows, ShownOf, Fits, WillAsk, Parts,
       ContestIsTheRoutes, Enterable

\* The contest, the standings and the requests of a contest page are of their kind.
THEOREM ContestPageIsTyped == ContestPageSpec => []ContestPageTypeOK
<1>1. ContestPageInit => ContestPageTypeOK /\ ContestInv BY ContestStart
<1>2. ContestPageTypeOK /\ ContestInv /\ [ContestPageNext]_contestVars
      => (ContestPageTypeOK /\ ContestInv)'
  BY ContestStep
<1> QED BY <1>1, <1>2, PTL DEF ContestPageSpec

\* Once nothing is under way, a contest page shows the contest of its route with its standings,
\* and lets the user in if they are a member, unless an answer was overtaken by an older one or
\* a request failed (ContestDetailPage.tsx:32, :39).
THEOREM ContestIsRight == ContestPageSpec => []ContestIsTheRoutes
<1>1. ContestPageInit => ContestPageTypeOK /\ ContestInv BY ContestStart
<1>2. ContestPageTypeOK /\ ContestInv /\ [ContestPageNext]_contestVars
      => (ContestPageTypeOK /\ ContestInv)'
  BY ContestStep
<1>3. ContestInv => ContestIsTheRoutes BY ContestInvIsRight
<1> QED BY <1>1, <1>2, <1>3, PTL DEF ContestPageSpec

----------------------------------------------------------------------------
(* ProfileForm: the profile shown is the saved one.                        *)

ProfileSpec == ProfileInit /\ [][ProfileNext]_profileVars

\* What was read for a request, and what it will write, is a profile.
ReadInv ==
    \A c \in profileCalls :
        /\ c.step # "sent" => c.user \in Profiles
        /\ c.step = "read" => c.kind # "load"

\* Until requests overlap or one fails, there is one at most; what it has read, and with
\* its own column what it answers, is what is saved; with none under way that is shown.
OneCallInv ==
    ~blurred =>
        /\ \A c, d \in profileCalls : c = d
        /\ \A c \in profileCalls : c.step # "sent" => c.user = profile
        /\ profileCalls = {} => shownProfile = profile

ProfileInv == ReadInv /\ OneCallInv

LEMMA ProfileStart == ProfileInit => ProfileTypeOK /\ ProfileInv
<1> SUFFICES ASSUME ProfileInit PROVE ProfileTypeOK /\ ProfileInv
  OBVIOUS
<1>1. 0 \in Numbered BY ProfileAssumption DEF Numbered
<1>2. [nickname |-> 0, image |-> 0] \in Profiles BY <1>1 DEF Profiles
<1>3. ProfileTypeOK BY <1>1, <1>2 DEF ProfileInit, ProfileTypeOK
<1>4. ProfileInv BY DEF ProfileInit, ProfileInv, ReadInv, OneCallInv
<1> QED BY <1>3, <1>4

LEMMA ProfileMoveType ==
    ASSUME ProfileTypeOK, ProfileMove PROVE profileMoves' \in Numbered
BY ProfileAssumption DEF ProfileTypeOK, ProfileMove, Numbered

LEMMA SendOK ==
    ASSUME ProfileTypeOK, ProfileInv, NEW kind \in {"load", "nickname", "image"},
           NEW value \in Numbered, profileMoves' \in Numbered,
           Send(kind, value, profileCalls), profile' = profile, shownProfile' = shownProfile
    PROVE  profileCalls' \subseteq ProfileCalls /\ blurred' \in BOOLEAN /\ ProfileInv'
<1>1. PICK new : new = [n |-> profileMoves', kind |-> kind, value |-> value,
                        step |-> "sent", user |-> None, mine |-> TRUE, lost |-> FALSE]
  OBVIOUS
<1>2. profileCalls' = profileCalls \cup {new} /\ blurred' = (profileCalls # {})
  BY <1>1 DEF Send
<1>3. new \in ProfileCalls /\ new.step = "sent" BY <1>1 DEF ProfileCalls
<1>4. profileCalls' \subseteq ProfileCalls BY <1>2, <1>3 DEF ProfileTypeOK
<1>5. ProfileInv' BY <1>2, <1>3 DEF ProfileInv, ReadInv, OneCallInv
<1> QED BY <1>2, <1>4, <1>5

LEMMA SendingKeeps ==
    ASSUME ProfileTypeOK, ProfileInv, EnterProfile \/ SaveNickname \/ UploadImage
    PROVE  ProfileTypeOK' /\ ProfileInv'
<1>1. profileMoves' \in Numbered
  BY ProfileMoveType DEF EnterProfile, SaveNickname, UploadImage
<1>2. /\ profile' = profile /\ shownProfile' = shownProfile
      /\ \E kind \in {"load", "nickname", "image"}, value \in Numbered :
             Send(kind, value, profileCalls)
  BY <1>1, ProfileAssumption
     DEF EnterProfile, SaveNickname, UploadImage, ProfileTypeOK, Numbered
<1>3. profileCalls' \subseteq ProfileCalls /\ blurred' \in BOOLEAN /\ ProfileInv'
  BY <1>1, <1>2, SendOK
<1>4. nicknameDraft' \in Numbered
  BY ProfileAssumption DEF EnterProfile, SaveNickname, UploadImage, ProfileTypeOK, Numbered
<1>5. ProfileTypeOK'
  BY <1>1, <1>2, <1>3, <1>4 DEF EnterProfile, SaveNickname, UploadImage, ProfileTypeOK
<1> QED BY <1>3, <1>5

LEMMA EditingKeeps ==
    ASSUME ProfileTypeOK, ProfileInv, StartNicknameEdit \/ CancelNicknameEdit \/ TypeNickname
    PROVE  ProfileTypeOK' /\ ProfileInv'
<1>1. profileMoves' \in Numbered
  BY ProfileMoveType DEF StartNicknameEdit, CancelNicknameEdit, TypeNickname, ProfileTypeOK
<1>2. nicknameDraft' \in Numbered
  BY <1>1 DEF StartNicknameEdit, CancelNicknameEdit, TypeNickname, ProfileTypeOK, Profiles
<1>3. ProfileTypeOK'
  BY <1>1, <1>2 DEF StartNicknameEdit, CancelNicknameEdit, TypeNickname, ProfileTypeOK
<1>4. ProfileInv'
  BY DEF StartNicknameEdit, CancelNicknameEdit, TypeNickname, ProfileInv, ReadInv, OneCallInv
<1> QED BY <1>3, <1>4

LEMMA LeaveProfileKeeps ==
    ASSUME ProfileTypeOK, ProfileInv, LeaveProfile
    PROVE  ProfileTypeOK' /\ ProfileInv'
<1> DEFINE left(c) == [c EXCEPT !.mine = FALSE]
<1>1. ASSUME NEW c \in profileCalls
      PROVE  /\ left(c) \in ProfileCalls /\ left(c).step = c.step
             /\ left(c).kind = c.kind /\ left(c).user = c.user
  BY DEF ProfileTypeOK, ProfileCalls
<1>2. profileCalls' = {left(c) : c \in profileCalls} BY DEF LeaveProfile
<1> HIDE DEF left
<1>3. ProfileTypeOK'
  <2>1. profileCalls' \subseteq ProfileCalls BY <1>1, <1>2
  <2> QED BY <2>1 DEF LeaveProfile, ProfileTypeOK
<1>4. ReadInv' BY <1>1, <1>2 DEF ProfileInv, ReadInv
<1>5. OneCallInv'
  <2>1. UNCHANGED <<profile, shownProfile, blurred>> BY DEF LeaveProfile
  <2> QED BY <1>1, <1>2, <2>1 DEF ProfileInv, OneCallInv
<1> QED BY <1>3, <1>4, <1>5 DEF ProfileInv

LEMMA AnswerKeeps ==
    ASSUME ProfileTypeOK, ProfileInv, NEW c \in profileCalls, ProfileAnswers(c)
    PROVE  ProfileTypeOK' /\ ProfileInv'
<1>1. profileCalls' \subseteq ProfileCalls /\ savingNickname' \in BOOLEAN /\ uploading' \in BOOLEAN
  BY DEF ProfileAnswers, Settle, ProfileTypeOK
<1>2. shownProfile' \in Profiles
  BY DEF ProfileAnswers, ProfileTypeOK, ProfileInv, ReadInv
<1>3. nicknameDraft' \in Numbered
  BY DEF ProfileAnswers, ProfileTypeOK, ProfileInv, ReadInv, Profiles
<1>4. ProfileTypeOK' BY <1>1, <1>2, <1>3 DEF ProfileAnswers, ProfileTypeOK
<1>5. ProfileInv' BY DEF ProfileAnswers, ProfileInv, ReadInv, OneCallInv
<1> QED BY <1>4, <1>5

\* What the server goes on with keeps what it has read.
LEMMA ProfileFailureKeeps ==
    ASSUME ProfileTypeOK, ProfileInv, NEW c \in profileCalls, ProfileCallFails(c)
    PROVE  ProfileTypeOK' /\ ProfileInv'
<1>1. PICK d : d = [c EXCEPT !.lost = TRUE, !.mine = FALSE] OBVIOUS
<1>2. /\ d \in ProfileCalls /\ d.step = c.step /\ d.kind = c.kind /\ d.user = c.user
      /\ profileCalls' \subseteq profileCalls \cup {d}
  BY <1>1 DEF ProfileCallFails, ProfileTypeOK, ProfileCalls
<1>3. ProfileTypeOK' BY <1>2 DEF ProfileCallFails, Settle, ProfileTypeOK
<1>4. ReadInv' BY <1>2 DEF ProfileInv, ReadInv
<1>5. OneCallInv' BY DEF ProfileCallFails, OneCallInv
<1> QED BY <1>3, <1>4, <1>5 DEF ProfileInv

\* One request goes on; what it has read is what is saved unless others are under way.
LEMMA ProgressKeeps ==
    ASSUME ProfileTypeOK, ProfileInv, NEW c \in profileCalls, NEW new \in ProfileCalls,
           Progress(c, new), new.step # "sent", new.user \in Profiles,
           new.step = "read" => new.kind # "load", profile' \in Profiles,
           ~blurred => new.user = profile'
    PROVE  ProfileTypeOK' /\ ProfileInv'
<1>1. profileCalls' = (profileCalls \ {c}) \cup {new} /\ blurred' = blurred
  BY DEF Progress
<1>2. ProfileTypeOK'
  <2>1. profileCalls' \subseteq ProfileCalls BY <1>1 DEF ProfileTypeOK
  <2> QED BY <2>1 DEF Progress, pageVars, ProfileTypeOK
<1>3. ReadInv' BY <1>1 DEF ProfileInv, ReadInv
<1>4. OneCallInv'
  <2> SUFFICES ASSUME ~blurred PROVE profileCalls' = {new}
    BY <1>1 DEF OneCallInv
  <2> QED BY <1>1 DEF ProfileInv, OneCallInv
<1> QED BY <1>2, <1>3, <1>4 DEF ProfileInv

LEMMA ServeProfileKeeps ==
    ASSUME ProfileTypeOK, ProfileInv, NEW c \in profileCalls,
           ReadProfile(c) \/ WriteProfile(c)
    PROVE  ProfileTypeOK' /\ ProfileInv'
<1>1. c \in ProfileCalls /\ profile \in Profiles BY DEF ProfileTypeOK
<1>2. CASE ReadProfile(c)
  <2>1. PICK new : new = [c EXCEPT !.step = IF c.kind = "load" THEN "done" ELSE "read",
                                   !.user = profile]
    OBVIOUS
  <2>2. /\ new \in ProfileCalls /\ new.step = (IF c.kind = "load" THEN "done" ELSE "read")
        /\ new.user = profile /\ new.kind = c.kind
    BY <1>1, <2>1 DEF ProfileCalls
  <2>3. Progress(c, new) /\ profile' = profile BY <1>2, <2>1 DEF ReadProfile
  <2> QED BY <1>1, <2>2, <2>3, ProgressKeeps
<1>3. CASE WriteProfile(c)
  <2>1. PICK new : new = [c EXCEPT !.step = "done", !.user = AnswerOf(c)] OBVIOUS
  <2>2. c.kind \in {"nickname", "image"} /\ c.user \in Profiles /\ c.value \in Numbered
    BY <1>1, <1>3 DEF WriteProfile, ProfileInv, ReadInv, ProfileCalls
  <2>3. AnswerOf(c) \in Profiles /\ profile' \in Profiles
    BY <1>1, <1>3, <2>2 DEF WriteProfile, AnswerOf, Profiles
  <2>4. new \in ProfileCalls /\ new.step = "done" /\ new.user = AnswerOf(c)
    BY <1>1, <2>1, <2>3 DEF ProfileCalls
  <2>5. ~blurred => AnswerOf(c) = profile'
    BY <1>3 DEF WriteProfile, AnswerOf, ProfileInv, OneCallInv
  <2>6. Progress(c, new) BY <1>3, <2>1 DEF WriteProfile
  <2> QED BY <2>3, <2>4, <2>5, <2>6, ProgressKeeps
<1> QED BY <1>2, <1>3

LEMMA ProfileStep ==
    ASSUME ProfileTypeOK, ProfileInv, [ProfileNext]_profileVars
    PROVE  ProfileTypeOK' /\ ProfileInv'
<1>1. CASE UNCHANGED profileVars
  BY <1>1 DEF profileVars, ProfileTypeOK, ProfileInv, ReadInv, OneCallInv
<1>2. CASE ProfileNext
  BY <1>2, SendingKeeps, EditingKeeps, LeaveProfileKeeps, AnswerKeeps, ProfileFailureKeeps,
     ServeProfileKeeps
     DEF ProfileNext
<1> QED BY <1>1, <1>2

\* Once nothing is under way, the profile on the screen is the saved one, unless the latest
\* requests overlapped on the server (handler_profile.go:57, :91) or failed.
THEOREM ProfileShown == ProfileSpec => []ShownProfileIsSaved
<1>1. ProfileInit => ProfileTypeOK /\ ProfileInv BY ProfileStart
<1>2. ProfileTypeOK /\ ProfileInv /\ [ProfileNext]_profileVars => (ProfileTypeOK /\ ProfileInv)'
  BY ProfileStep
<1>3. ProfileInv => ShownProfileIsSaved BY DEF ProfileInv, OneCallInv, ShownProfileIsSaved
<1> QED BY <1>1, <1>2, <1>3, PTL DEF ProfileSpec

----------------------------------------------------------------------------
(* FilteredLists: the rows answer the filters shown.                       *)

ListSpec == ListInit /\ [][ListNext]_listVars

\* The filters that a page asks with, and the query, for a user who is a member or not.
UrlFor(m, k, f) ==
    IF k = "problems" /\ ~m THEN Without(f, "status")
    ELSE IF k = "submissions" /\ f["scope"] # Blank THEN Without(f, "user") ELSE f
PublicUrl(k, f) == UrlFor(FALSE, k, f)
QueryFor(m, k, u) == [filters |-> UrlFor(m, k, u.filters), page |-> u.page]

\* A query that answers the URL, and the inputs unless they were changed.
FitsTo(q, k, m, u, f, t) ==
    /\ k \in UrlKinds => q = QueryFor(m, k, u)
    /\ ~t => q.filters = UrlFor(m, k, f)
Fitting(q) == FitsTo(q, pageKind, member, url, inputs, touched)

\* The latest request, or else what is shown, fits.
LatestRequestInv ==
    /\ \A r, s \in listRequests : r[1] <= listSent /\ (r[1] = s[1] => r = s)
    /\ ~outdated =>
           /\ \A r \in listRequests : r[1] = listSent => Fitting(r[2])
           /\ (\A r \in listRequests : r[1] # listSent) => Fitting(listed)

\* Inputs that were not changed ask for what the URL asks for.
InputsInv ==
    pageKind \in UrlKinds /\ ~touched =>
        /\ PublicUrl(pageKind, url.filters) = PublicUrl(pageKind, inputs)
        /\ (pageKind = "problems" => ~outdated) =>
               UrlFor(member, pageKind, url.filters) = UrlFor(member, pageKind, inputs)

ChangesInv == pageKind = "problems" => changes = {}

ListInv == LatestRequestInv /\ InputsInv /\ ChangesInv

LEMMA WithoutFilter ==
    ASSUME NEW f \in FilterSet, NEW x \in Fields
    PROVE  /\ Without(f, x) \in FilterSet
           /\ \A y \in Fields : Without(f, x)[y] = IF y = x THEN Blank ELSE f[y]
           /\ Without(Without(f, x), x) = Without(f, x)
BY DEF Without, FilterSet

LEMMA UrlForOK ==
    ASSUME NEW m, NEW k, NEW f \in FilterSet
    PROVE  /\ UrlFor(m, k, f) \in FilterSet
           /\ UrlFor(m, k, UrlFor(m, k, f)) = UrlFor(m, k, f)
<1>1. "status" \in Fields /\ "user" \in Fields /\ "scope" \in Fields BY DEF Fields
<1> QED BY <1>1, WithoutFilter DEF UrlFor

LEMMA PublicUrlOK ==
    ASSUME NEW m \in BOOLEAN, NEW k, NEW f \in FilterSet
    PROVE  PublicUrl(k, UrlFor(m, k, f)) = PublicUrl(k, f)
<1>1. "status" \in Fields /\ "user" \in Fields /\ "scope" \in Fields BY DEF Fields
<1> QED BY <1>1, WithoutFilter DEF UrlFor, PublicUrl

LEMMA QueryForOK ==
    ASSUME NEW m, NEW k, NEW u \in Queries
    PROVE  /\ QueryFor(m, k, u) \in Queries
           /\ QueryFor(m, k, u).filters = UrlFor(m, k, u.filters)
BY UrlForOK DEF QueryFor, Queries

LEMMA UrlIs == \A k, f : UrlOf(k, f) = UrlFor(member, k, f)
BY DEF UrlOf, UrlFor, ProblemsUrl, SubmissionsUrl, AdminSubmissionsUrl

LEMMA QueryIs == ASSUME NEW k, NEW u \in Queries PROVE QueryOf(k, u) = QueryFor(member, k, u)
BY DEF QueryOf, QueryFor, UrlFor, ProblemsQuery, SubmissionsQuery, AdminSubmissionsQuery,
       AdminTagsQuery, AdminProblemsQuery, ProblemsUrl, SubmissionsUrl, Queries

LEMMA EnabledIs == Enabled = UrlFor(member, pageKind, inputs)
BY DEF Enabled, UrlFor, ProblemsUrl, SubmissionsUrl

LEMMA ListTypes ==
    /\ NoFilter \in FilterSet /\ \A k : FiltersOf(k) \subseteq FilterSet
    /\ \A k : QueriesOf(k) \subseteq Queries
BY DEF NoFilter, FilterSet, FiltersOf, QueriesOf, Queries

LEMMA ListMoveType == ASSUME ListTypeOK, ListMove PROVE listMoves' \in 0 .. MaxListMoves
BY ListAssumption DEF ListTypeOK, ListMove

\* A request for a query that fits, or that the page knows not to fit.
LEMMA LoadKeeps ==
    ASSUME ListTypeOK, ListInv, NEW q \in Queries, Load(q), ~outdated' => Fitting(q)'
    PROVE  listRequests' \subseteq Nat \X Queries /\ listSent' \in Nat /\ LatestRequestInv'
<1> DEFINE new == <<listSent + 1, q>>
<1>1. listSent' = listSent + 1 /\ listRequests' = listRequests \cup {new} BY DEF Load
<1>2. new \in Nat \X Queries /\ new[1] = listSent + 1 /\ new[2] = q BY DEF ListTypeOK
<1>3. \A r \in listRequests : r[1] \in Nat /\ r[1] <= listSent
  BY DEF ListTypeOK, ListInv, LatestRequestInv
<1>4. listSent \in Nat BY DEF ListTypeOK
<1> HIDE DEF new
<1>5. \A r \in listRequests' : r[1] <= listSent' BY <1>1, <1>2, <1>3, <1>4
<1>6. \A r, s \in listRequests' : r[1] = s[1] => r = s
  BY <1>1, <1>2, <1>3, <1>4 DEF ListInv, LatestRequestInv
<1>7. \A r \in listRequests' : r[1] = listSent' => r = new BY <1>1, <1>3, <1>4
<1>8. new \in listRequests' /\ new[1] = listSent' BY <1>1, <1>2
<1>9. LatestRequestInv' BY <1>2, <1>5, <1>6, <1>7, <1>8 DEF LatestRequestInv
<1> QED BY <1>1, <1>2, <1>4, <1>9 DEF ListTypeOK

\* No request is made, and what fitted fits.
LEMMA SameRequests ==
    ASSUME ListInv, UNCHANGED <<listSent, listRequests, listed>>,
           ~outdated' => ~outdated /\ \A q : Fitting(q) => Fitting(q)'
    PROVE  LatestRequestInv'
BY DEF ListInv, LatestRequestInv

LEMMA ListStart == ListInit => ListTypeOK /\ ListInv
<1> SUFFICES ASSUME ListInit PROVE ListTypeOK /\ ListInv
  OBVIOUS
<1> DEFINE q == QueryFor(member, pageKind, url)
<1>1. url \in Queries /\ inputs = url.filters /\ inputs \in FilterSet
  BY ListTypes DEF ListInit, Queries
<1>2. q \in Queries /\ q.filters = UrlFor(member, pageKind, inputs) BY <1>1, QueryForOK
<1>3. listRequests = {<<1, q>>} /\ listSent = 1 BY <1>1, QueryIs DEF ListInit
<1> HIDE DEF q
<1>4. ListTypeOK
  <2>1. listRequests \subseteq Nat \X Queries BY <1>2, <1>3
  <2>2. listMoves \in 0 .. MaxListMoves BY ListAssumption DEF ListInit
  <2>3. listSent \in Nat BY <1>3
  <2> QED BY <1>1, <2>1, <2>2, <2>3 DEF ListInit, ListTypeOK
<1>5. Fitting(q) BY <1>2 DEF Fitting, FitsTo, q
<1>6. LatestRequestInv BY <1>3, <1>5 DEF LatestRequestInv
<1>7. InputsInv BY <1>1 DEF InputsInv
<1> QED BY <1>4, <1>6, <1>7 DEF ListInit, ListInv, ChangesInv

-----------------------------------------------------------------------------
(* Pages with a URL.                                                       *)

LEMMA GoKeeps ==
    ASSUME ListTypeOK, ListInv, NEW u \in Queries, NEW f \in FilterSet,
           pageKind \in UrlKinds, Go(u, f), ListMove,
           u = url => UrlFor(member, pageKind, url.filters) = UrlFor(member, pageKind, f)
    PROVE  ListTypeOK' /\ ListInv'
<1>1. /\ pageKind' = pageKind /\ member' = member /\ listed' = listed /\ changes' = changes
      /\ url' = u /\ touched' = FALSE /\ u.filters \in FilterSet
      /\ inputs' = IF u = url THEN f ELSE u.filters
  BY DEF Go, Show, Queries
<1>2. CASE u = url
  <2>1. UNCHANGED <<listSent, listRequests, listed>> /\ outdated' = outdated
    BY <1>2 DEF Go
  <2>2. ASSUME NEW q, Fitting(q) PROVE Fitting(q)'
    <3>1. q = QueryFor(member, pageKind, url) BY <2>2 DEF Fitting, FitsTo
    <3> QED BY <1>1, <1>2, <3>1, QueryForOK DEF Fitting, FitsTo, ListTypeOK
  <2>3. LatestRequestInv' BY <2>1, <2>2, SameRequests
  <2>4. InputsInv'
    <3>1. PublicUrl(pageKind, url.filters) = PublicUrl(pageKind, f)
      <4>1. member \in BOOLEAN BY DEF ListTypeOK
      <4>2. url.filters \in FilterSet BY <1>1, <1>2
      <4>3. UrlFor(member, pageKind, url.filters) = UrlFor(member, pageKind, f) BY <1>2
      <4>4. PublicUrl(pageKind, UrlFor(member, pageKind, url.filters))
              = PublicUrl(pageKind, url.filters)
        BY <4>1, <4>2, PublicUrlOK
      <4>5. PublicUrl(pageKind, UrlFor(member, pageKind, f)) = PublicUrl(pageKind, f)
        BY <4>1, PublicUrlOK
      <4> QED BY <4>3, <4>4, <4>5
    <3> QED BY <1>1, <1>2, <3>1 DEF InputsInv
  <2>5. ListTypeOK' BY <1>1, <2>1, ListMoveType DEF ListTypeOK
  <2> QED BY <1>1, <2>3, <2>4, <2>5 DEF ListInv, ChangesInv
<1>3. CASE u # url
  <2>1. PICK q \in Queries : q = QueryFor(member, pageKind, u) BY QueryForOK
  <2>2. Load(q) /\ outdated' = FALSE BY <1>3, <2>1, QueryIs DEF Go
  <2>3. Fitting(q)' BY <1>1, <1>3, <2>1, QueryForOK DEF Fitting, FitsTo
  <2>4. listRequests' \subseteq Nat \X Queries /\ listSent' \in Nat /\ LatestRequestInv'
    BY <2>2, <2>3, LoadKeeps
  <2>5. InputsInv' BY <1>1, <1>3 DEF InputsInv
  <2>6. ListTypeOK' BY <1>1, <2>2, <2>4, ListMoveType DEF ListTypeOK
  <2> QED BY <1>1, <2>4, <2>5, <2>6 DEF ListInv, ChangesInv
<1> QED BY <1>2, <1>3

LEMMA FollowLinkKeeps == ASSUME ListTypeOK, ListInv, FollowLink PROVE ListTypeOK' /\ ListInv'
<1>1. PICK u \in QueriesOf(pageKind) \ {url} : Go(u, u.filters) BY DEF FollowLink
<1>2. u \in Queries /\ u.filters \in FilterSet /\ u # url BY <1>1, ListTypes DEF Queries
<1> QED BY <1>1, <1>2, GoKeeps DEF FollowLink

LEMMA ApplyKeeps ==
    ASSUME ListTypeOK, ListInv, NEW f \in FilterSet, pageKind \in UrlKinds, Apply(f)
    PROVE  ListTypeOK' /\ ListInv'
<1>1. PICK u : u = [filters |-> UrlFor(member, pageKind, f), page |-> 1] OBVIOUS
<1>2. u \in Queries /\ u.filters = UrlFor(member, pageKind, f)
  BY <1>1, UrlForOK, ListAssumption DEF Queries
<1>3. Go(u, f) /\ ListMove BY <1>1, UrlIs DEF Apply
<1>4. UrlFor(member, pageKind, u.filters) = UrlFor(member, pageKind, f) BY <1>2, UrlForOK
<1> QED BY <1>2, <1>3, <1>4, GoKeeps

LEMMA TurnKeeps ==
    ASSUME ListTypeOK, ListInv, NEW p \in ListPages, pageKind \in UrlKinds, Turn(p)
    PROVE  ListTypeOK' /\ ListInv'
<1>1. url.filters \in FilterSet /\ inputs \in FilterSet BY DEF ListTypeOK, Queries
<1>2. PICK u : u = [filters |-> UrlFor(member, pageKind, url.filters), page |-> p] OBVIOUS
<1>3. u \in Queries /\ u.page = p BY <1>1, <1>2, UrlForOK DEF Queries
<1>4. Go(u, inputs) /\ ListMove /\ p # url.page BY <1>2, UrlIs DEF Turn
<1> QED BY <1>1, <1>3, <1>4, GoKeeps

LEMMA InputKeeps ==
    ASSUME ListTypeOK, ListInv, NEW f \in FilterSet, Input(f)
    PROVE  ListTypeOK' /\ ListInv'
<1>1. ListTypeOK' BY ListMoveType DEF Input, ListTypeOK
<1>2. \A q : Fitting(q) => Fitting(q)' BY DEF Input, Fitting, FitsTo
<1>3. LatestRequestInv' BY <1>2, SameRequests DEF Input
<1> QED BY <1>1, <1>3 DEF Input, ListInv, InputsInv, ChangesInv

LEMMA UserChangesKeeps == ASSUME ListTypeOK, ListInv, UserChanges PROVE ListTypeOK' /\ ListInv'
<1>1. /\ pageKind = "problems" /\ pageKind' = pageKind /\ url' = url /\ inputs' = inputs
      /\ listed' = listed /\ changes' = changes /\ touched' = touched /\ member' \in BOOLEAN
      /\ outdated' = (member' /\ ~touched /\ inputs # url.filters)
  BY DEF UserChanges, ListTypeOK
<1>2. url \in Queries /\ url.filters \in FilterSet /\ inputs \in FilterSet
  BY DEF ListTypeOK, Queries
<1>3. PICK q \in Queries : q = QueryFor(member', pageKind, url) BY <1>2, QueryForOK
<1>4. Load(q) BY <1>1, <1>2, <1>3 DEF UserChanges, QueryFor, UrlFor, Queries
<1>5. InputsInv'
  <2>1. CASE member' BY <1>1, <2>1 DEF ListInv, InputsInv
  <2>2. CASE ~member'
    <3>1. member' = FALSE BY <1>1, <2>2
    <3>2. ~touched => PublicUrl(pageKind, url.filters) = PublicUrl(pageKind, inputs)
      BY <1>1 DEF ListInv, InputsInv, UrlKinds
    <3> QED BY <1>1, <3>1, <3>2 DEF InputsInv, PublicUrl
  <2> QED BY <2>1, <2>2
<1>6. ~outdated' => Fitting(q)'
  BY <1>1, <1>2, <1>3, <1>5, QueryForOK DEF Fitting, FitsTo, InputsInv, UrlKinds
<1>7. listRequests' \subseteq Nat \X Queries /\ listSent' \in Nat /\ LatestRequestInv'
  BY <1>4, <1>6, LoadKeeps
<1>8. ListTypeOK' BY <1>1, <1>7, ListMoveType DEF UserChanges, ListTypeOK
<1> QED BY <1>1, <1>5, <1>7, <1>8 DEF ListInv, ChangesInv

\* The tags follow the keyword of the URL; what is typed stays while only the page turns.
LEMMA GoTagsKeeps ==
    ASSUME ListTypeOK, ListInv, NEW u \in Queries, NEW f \in FilterSet, GoTags(u, f),
           f = inputs \/ f = u.filters
    PROVE  ListTypeOK' /\ ListInv'
<1> USE DEF UrlFor, PublicUrl
<1>1. /\ pageKind = "adminTags" /\ pageKind' = pageKind /\ member' = member /\ listed' = listed
      /\ changes' = changes /\ url' = u /\ u.filters \in FilterSet
  BY DEF GoTags, Queries
<1>2. inputs' \in FilterSet /\ touched' \in BOOLEAN /\ (~touched' => inputs' = u.filters)
  <2>1. CASE u.filters # url.filters BY <1>1, <2>1 DEF GoTags, Show
  <2>2. CASE u.filters = url.filters
    <3>1. inputs' = f /\ touched' = (touched /\ f # u.filters) BY <2>2 DEF GoTags
    <3>2. ~touched => inputs = url.filters BY <1>1 DEF ListInv, InputsInv, UrlKinds
    <3> QED BY <2>2, <3>1, <3>2 DEF ListTypeOK
  <2> QED BY <2>1, <2>2
<1>3. InputsInv' BY <1>1, <1>2 DEF InputsInv
<1>4. CASE u = url
  <2>1. UNCHANGED <<listSent, listRequests, listed>> /\ outdated' = outdated
    BY <1>4 DEF GoTags
  <2>2. ASSUME NEW q, Fitting(q) PROVE Fitting(q)'
    BY <1>1, <1>2, <1>4, <2>2 DEF Fitting, FitsTo, QueryFor, UrlKinds
  <2>3. LatestRequestInv' BY <2>1, <2>2, SameRequests
  <2>4. ListTypeOK' BY <1>1, <1>2, <2>1, ListMoveType DEF GoTags, ListTypeOK
  <2> QED BY <1>1, <1>3, <2>3, <2>4 DEF ListInv, ChangesInv
<1>5. CASE u # url
  <2>1. Load(u) /\ outdated' = FALSE BY <1>5 DEF GoTags, AdminTagsQuery
  <2>2. u = [filters |-> u.filters, page |-> u.page] BY DEF Queries
  <2>3. Fitting(u)' BY <1>1, <1>2, <2>2 DEF Fitting, FitsTo, QueryFor
  <2>4. listRequests' \subseteq Nat \X Queries /\ listSent' \in Nat /\ LatestRequestInv'
    BY <2>1, <2>3, LoadKeeps
  <2>5. ListTypeOK' BY <1>1, <1>2, <2>1, <2>4, ListMoveType DEF GoTags, ListTypeOK
  <2> QED BY <1>1, <1>3, <2>4, <2>5 DEF ListInv, ChangesInv
<1> QED BY <1>4, <1>5

LEMMA TagsKeep ==
    ASSUME ListTypeOK, ListInv, SearchTags \/ ResetTags \/ TurnTags \/ LinkToTags
    PROVE  ListTypeOK' /\ ListInv'
<1>1. inputs \in FilterSet /\ NoFilter \in FilterSet /\ 1 \in ListPages
  BY ListTypes, ListAssumption DEF ListTypeOK
<1>2. CASE SearchTags
  <2>1. PICK u : u = [filters |-> inputs, page |-> 1] OBVIOUS
  <2>2. u \in Queries /\ GoTags(u, inputs) BY <1>1, <1>2, <2>1 DEF SearchTags, Queries
  <2> QED BY <1>1, <2>2, GoTagsKeeps
<1>3. CASE ResetTags
  <2>1. PICK u : u = [filters |-> NoFilter, page |-> 1] OBVIOUS
  <2>2. u \in Queries /\ GoTags(u, NoFilter) /\ u.filters = NoFilter
    BY <1>1, <1>3, <2>1 DEF ResetTags, Queries
  <2> QED BY <1>1, <2>2, GoTagsKeeps
<1>4. CASE TurnTags
  <2>1. PICK p \in ListPages : GoTags([url EXCEPT !.page = p], inputs) BY <1>4 DEF TurnTags
  <2>2. PICK u : u = [url EXCEPT !.page = p] OBVIOUS
  <2>3. u \in Queries BY <2>2 DEF ListTypeOK, Queries
  <2> QED BY <1>1, <2>1, <2>2, <2>3, GoTagsKeeps
<1>5. CASE LinkToTags
  <2>1. PICK u \in QueriesOf("adminTags") : GoTags(u, inputs) BY <1>5 DEF LinkToTags
  <2>2. u \in Queries BY ListTypes
  <2> QED BY <1>1, <2>1, <2>2, GoTagsKeeps
<1> QED BY <1>2, <1>3, <1>4, <1>5

LEMMA TypingKeeps ==
    ASSUME ListTypeOK, ListInv,
           \/ TypeProblemFilter \/ TypeSubmissionFilter \/ TypeContestFilter \/ TypeAdminFilter
           \/ TypeTagKeyword \/ TypeUserFilter \/ TypeAdminContestKeyword
    PROVE  ListTypeOK' /\ ListInv'
<1>1. PICK f \in FiltersOf(pageKind) : Input(f)
  BY DEF TypeProblemFilter, TypeSubmissionFilter, TypeContestFilter, TypeAdminFilter,
         TypeTagKeyword, TypeUserFilter, TypeAdminContestKeyword
<1>2. f \in FilterSet BY ListTypes
<1> QED BY <1>1, <1>2, InputKeeps

LEMMA ApplyingKeeps ==
    ASSUME ListTypeOK, ListInv,
           \/ SearchProblems \/ ResetProblems \/ ApplyTag
           \/ SearchSubmissions \/ ResetSubmissions \/ ChangeScope \/ ClickUser
           \/ SearchAdminSubmissions \/ ResetAdminSubmissions
    PROVE  ListTypeOK' /\ ListInv'
<1>1. inputs \in FilterSet /\ NoFilter \in FilterSet BY ListTypes DEF ListTypeOK
<1>2. PICK f \in FilterSet : Apply(f)
  <2>1. CASE ApplyTag BY <1>1, <2>1 DEF ApplyTag, FilterSet
  <2>2. CASE ClickUser BY <1>1, <2>2 DEF ClickUser, FilterSet
  <2>3. CASE ChangeScope
    <3>1. PICK s \in {Filled, Blank} :
              Apply(LET f == [inputs EXCEPT !["scope"] = s]
                    IN IF s = Blank THEN f ELSE Without(f, "user"))
      BY <2>3 DEF ChangeScope
    <3> QED BY <1>1, <3>1 DEF FilterSet, Without
  <2> QED BY <1>1, <2>1, <2>2, <2>3
        DEF SearchProblems, ResetProblems, SearchSubmissions, ResetSubmissions,
            SearchAdminSubmissions, ResetAdminSubmissions
<1>3. pageKind \in UrlKinds
  BY DEF SearchProblems, ResetProblems, ApplyTag, SearchSubmissions, ResetSubmissions,
         ChangeScope, ClickUser, SearchAdminSubmissions, ResetAdminSubmissions, UrlKinds
<1> QED BY <1>2, <1>3, ApplyKeeps

LEMMA TurningKeeps ==
    ASSUME ListTypeOK, ListInv,
           TurnProblems \/ TurnSubmissions \/ TurnAdminSubmissions \/ TurnAdminProblems
    PROVE  ListTypeOK' /\ ListInv'
<1>1. PICK p \in ListPages : Turn(p)
  BY DEF TurnProblems, TurnSubmissions, TurnAdminSubmissions, TurnAdminProblems
<1>2. pageKind \in UrlKinds
  BY DEF TurnProblems, TurnSubmissions, TurnAdminSubmissions, TurnAdminProblems, UrlKinds
<1> QED BY <1>1, <1>2, TurnKeeps

-----------------------------------------------------------------------------
(* Pages without a URL, changes and answers.                               *)

\* A load with the inputs of the moment, after which the page shows inputs f.
LEMMA LoadNowKeeps ==
    ASSUME ListTypeOK, ListInv, pageKind \in {"users", "contests", "adminContests"},
           NEW q \in Queries, NEW f \in FilterSet, url' = q, Load(q), Show(f), ListMove,
           outdated' \in BOOLEAN, ~outdated' => q.filters = f,
           UNCHANGED <<pageKind, member, listed, changes>>
    PROVE  ListTypeOK' /\ ListInv'
<1>1. pageKind' = pageKind /\ pageKind' \notin UrlKinds /\ pageKind' # "problems" BY DEF UrlKinds
<1>2. ~outdated' => Fitting(q)' BY <1>1 DEF Show, Fitting, FitsTo, UrlFor
<1>3. listRequests' \subseteq Nat \X Queries /\ listSent' \in Nat /\ LatestRequestInv'
  BY <1>2, LoadKeeps
<1>4. ListTypeOK' BY <1>3, ListMoveType DEF Show, ListTypeOK
<1>5. InputsInv' /\ ChangesInv' BY <1>1 DEF InputsInv, ChangesInv
<1> QED BY <1>3, <1>4, <1>5 DEF ListInv

LEMMA DataPageType == ListTypeOK => DataPage \in ListPages
BY ListAssumption DEF ListTypeOK, DataPage, Queries

LEMMA FilteringKeeps ==
    ASSUME ListTypeOK, ListInv, FilterUsers \/ FilterContests \/ FilterAdminContests
    PROVE  ListTypeOK' /\ ListInv'
<1>1. /\ pageKind \in {"users", "contests", "adminContests"} /\ ListMove /\ Show(inputs)
      /\ \E p \in ListPages : LoadNow([filters |-> inputs, page |-> p])
  BY DEF FilterUsers, FilterContests, FilterAdminContests
<1>2. PICK p \in ListPages : LoadNow([filters |-> inputs, page |-> p]) BY <1>1
<1>3. PICK q : q = [filters |-> inputs, page |-> p] OBVIOUS
<1>4. q \in Queries /\ q.filters = inputs /\ inputs \in FilterSet
  BY <1>3 DEF ListTypeOK, Queries
<1>5. /\ url' = q /\ Load(q) /\ outdated' = FALSE
      /\ UNCHANGED <<pageKind, member, listed, changes>>
  BY <1>2, <1>3 DEF LoadNow
<1> QED BY <1>1, <1>4, <1>5, LoadNowKeeps

LEMMA ResetUsersKeeps == ASSUME ListTypeOK, ListInv, ResetUsers PROVE ListTypeOK' /\ ListInv'
<1>1. PICK q : q = [filters |-> inputs, page |-> DataPage] OBVIOUS
<1>2. q \in Queries /\ q.filters = inputs
  BY <1>1, DataPageType DEF ListTypeOK, Queries
<1>3. NoFilter \in FilterSet BY ListTypes
<1>4. /\ pageKind = "users" /\ ListMove /\ url' = q /\ Show(NoFilter)
      /\ outdated' = (inputs # NoFilter) /\ UNCHANGED <<pageKind, member, listed, changes>>
  BY <1>1 DEF ResetUsers, Load
<1>5. Load(q)
  <2>1. listSent' = listSent + 1 /\ listRequests' = listRequests \cup {<<listSent', url'>>}
    BY DEF ResetUsers, Load
  <2> QED BY <1>4, <2>1 DEF Load
<1> QED BY <1>2, <1>3, <1>4, <1>5, LoadNowKeeps

LEMMA ChangingKeeps ==
    ASSUME ListTypeOK, ListInv,
           Rejudge \/ RemoveTag \/ RemoveProblem \/ UpdateRole \/ RemoveContest
    PROVE  ListTypeOK' /\ ListInv'
<1>1. [filters |-> inputs, page |-> DataPage] \in Queries
  BY DataPageType DEF ListTypeOK, Queries
<1>2. url \in Queries BY DEF ListTypeOK
<1>3. PICK k \in {"adminSubmissions", "adminTags", "adminProblems", "users", "adminContests"},
           q \in Queries : Change(k, q)
  BY <1>1, <1>2 DEF Rejudge, RemoveTag, RemoveProblem, UpdateRole, RemoveContest,
                    AdminSubmissionsQuery, AdminTagsQuery, AdminProblemsQuery
<1>4. ListTypeOK' BY <1>3, ListMoveType DEF Change, ListTypeOK
<1>5. UNCHANGED <<pageKind, member, url, inputs, listRequests, listSent, listed, touched, outdated>>
  BY <1>3 DEF Change
<1>6. LatestRequestInv' /\ InputsInv'
  BY <1>5 DEF ListInv, LatestRequestInv, InputsInv, Fitting
<1>7. ChangesInv' BY <1>3, <1>5 DEF Change, ChangesInv
<1> QED BY <1>4, <1>6, <1>7 DEF ListInv

LEMMA CurrentFits == ListTypeOK /\ ListInv /\ pageKind # "problems" => Fitting(Current)
<1> SUFFICES ASSUME ListTypeOK, ListInv, pageKind # "problems" PROVE Fitting(Current)
  OBVIOUS
<1>1. url \in Queries BY DEF ListTypeOK
<1>2. CASE pageKind \in UrlKinds
  <2>1. Current = QueryFor(member, pageKind, url) BY <1>1, <1>2, QueryIs DEF Current
  <2>2. ~touched => UrlFor(member, pageKind, url.filters) = UrlFor(member, pageKind, inputs)
    BY <1>2 DEF ListInv, InputsInv
  <2> QED BY <1>1, <1>2, <2>1, <2>2, QueryForOK DEF Fitting, FitsTo
<1>3. CASE pageKind \notin UrlKinds
  <2>1. Current.filters = inputs BY <1>3 DEF Current
  <2>2. UrlFor(member, pageKind, inputs) = inputs BY <1>3 DEF UrlFor, UrlKinds
  <2> QED BY <1>3, <2>1, <2>2 DEF Fitting, FitsTo
<1> QED BY <1>2, <1>3

LEMMA ChangeDoneKeeps ==
    ASSUME ListTypeOK, ListInv, NEW q \in changes, ChangeDone(q)
    PROVE  ListTypeOK' /\ ListInv'
<1>1. /\ pageKind # "problems" /\ q \in Queries
      /\ UNCHANGED <<pageKind, member, url, inputs, listed, touched, listMoves>>
      /\ changes' \subseteq changes
  BY DEF ListInv, ChangesInv, ListTypeOK, ChangeDone
<1>2. Fitting(Current) BY <1>1, CurrentFits
<1>3. InputsInv' /\ ChangesInv' BY <1>1 DEF ListInv, InputsInv, ChangesInv
<1>4. CASE Load(q) /\ outdated' = (q # Current)
  <2>1. ~outdated' => Fitting(q)' BY <1>1, <1>2, <1>4 DEF Fitting
  <2>2. listRequests' \subseteq Nat \X Queries /\ listSent' \in Nat /\ LatestRequestInv'
    BY <1>1, <1>4, <2>1, LoadKeeps
  <2> QED BY <1>1, <1>3, <1>4, <2>2 DEF ListTypeOK, ListInv
<1>5. CASE UNCHANGED <<listSent, listRequests, outdated>>
  <2>1. LatestRequestInv' BY <1>1, <1>5 DEF ListInv, LatestRequestInv, Fitting
  <2> QED BY <1>1, <1>3, <1>5, <2>1 DEF ListTypeOK, ListInv
<1> QED BY <1>4, <1>5 DEF ChangeDone

LEMMA ListReturnsKeep ==
    ASSUME ListTypeOK, ListInv, NEW r \in listRequests, ListAnswers(r) \/ ListFails(r)
    PROVE  ListTypeOK' /\ ListInv'
<1>1. /\ UNCHANGED <<pageKind, member, url, inputs, listSent, changes, listMoves, touched>>
      /\ listRequests' = listRequests \ {r} /\ outdated' \in BOOLEAN
      /\ outdated => outdated'
  BY DEF ListAnswers, ListFails, ListTypeOK
<1>2. r[2] \in Queries BY DEF ListTypeOK
<1>3. ListTypeOK' BY <1>1, <1>2 DEF ListAnswers, ListFails, ListTypeOK
<1>4. \A s \in listRequests' : s \in listRequests /\ s # r BY <1>1
<1>5. \A q : Fitting(q) => Fitting(q)' BY <1>1 DEF Fitting
<1>6. LatestRequestInv'
  <2>1. \A s, t \in listRequests' : s[1] <= listSent' /\ (s[1] = t[1] => s = t)
    BY <1>1, <1>4 DEF ListInv, LatestRequestInv
  <2>2. ASSUME ~outdated', NEW s \in listRequests', s[1] = listSent' PROVE Fitting(s[2])'
    BY <1>1, <1>4, <1>5, <2>2 DEF ListInv, LatestRequestInv
  <2>3. ASSUME ~outdated', \A s \in listRequests' : s[1] # listSent' PROVE Fitting(listed)'
    <3>1. CASE ListAnswers(r)
      <4>1. PICK s \in listRequests : s[1] = listSent BY <2>3, <3>1 DEF ListAnswers
      <4>2. s = r BY <1>1, <2>3, <4>1
      <4>3. Fitting(r[2]) BY <1>1, <2>3, <4>1, <4>2 DEF ListInv, LatestRequestInv
      <4> QED BY <1>1, <3>1, <4>3 DEF ListAnswers, Fitting
    <3>2. CASE ListFails(r)
      <4>1. r[1] # listSent BY <2>3, <3>2 DEF ListFails
      <4>2. \A s \in listRequests : s[1] # listSent BY <1>1, <2>3, <4>1
      <4>3. Fitting(listed) BY <1>1, <2>3, <4>2 DEF ListInv, LatestRequestInv
      <4> QED BY <1>1, <3>2, <4>3 DEF ListFails, Fitting
    <3> QED BY <3>1, <3>2
  <2> QED BY <2>1, <2>2, <2>3 DEF LatestRequestInv
<1>7. InputsInv' /\ ChangesInv' BY <1>1 DEF ListInv, InputsInv, ChangesInv
<1> QED BY <1>3, <1>6, <1>7 DEF ListInv

LEMMA ListStep ==
    ASSUME ListTypeOK, ListInv, [ListNext]_listVars
    PROVE  ListTypeOK' /\ ListInv'
<1>1. CASE UNCHANGED listVars
  BY <1>1 DEF listVars, ListTypeOK, ListInv, LatestRequestInv, InputsInv, ChangesInv, Fitting
<1>2. CASE ListNext
  BY <1>2, FollowLinkKeeps, UserChangesKeeps, TagsKeep, TypingKeeps, ApplyingKeeps,
     TurningKeeps, FilteringKeeps, ResetUsersKeeps, ChangingKeeps, ChangeDoneKeeps,
     ListReturnsKeep
     DEF ListNext, PublicListStep, AdminListStep
<1> QED BY <1>1, <1>2

LEMMA SettledRowsFit == ListTypeOK /\ ListInv => RowsFitTheFilters
<1> SUFFICES ASSUME ListTypeOK, ListInv, listRequests = {}, ~outdated
             PROVE  /\ pageKind \in UrlKinds => listed = QueryOf(pageKind, url)
                    /\ ~touched => listed.filters = Enabled
  BY DEF RowsFitTheFilters
<1>1. Fitting(listed) BY DEF ListInv, LatestRequestInv
<1>2. url \in Queries BY DEF ListTypeOK
<1> QED BY <1>1, <1>2, QueryIs, EnabledIs DEF Fitting, FitsTo

\* A list that has settled answers its URL, or the filters on the screen, and what the user may
\* see, unless an answer was overtaken, the latest request failed, or the list was asked for
\* with filters that are not those on the screen (ProblemListPage.tsx:245, :283).
THEOREM RowsFit == ListSpec => []RowsFitTheFilters
<1>1. ListInit => ListTypeOK /\ ListInv BY ListStart
<1>2. ListTypeOK /\ ListInv /\ [ListNext]_listVars => (ListTypeOK /\ ListInv)' BY ListStep
<1>3. ListTypeOK /\ ListInv => RowsFitTheFilters BY SettledRowsFit
<1> QED BY <1>1, <1>2, <1>3, PTL DEF ListSpec

----------------------------------------------------------------------------
(* The parts put together.                                                 *)

\* A step of Browser is one of a part, and the others do not move.
LEMMA StepOfEveryPart ==
    ASSUME [BrowserNext]_browserVars
    PROVE  /\ [SolveNext]_solveVars /\ [SelfTestNext]_testVars /\ [WatchNext]_watchVars
           /\ [DrawerNext]_drawerVars /\ [ListNext]_listVars /\ [FormNext]_formVars
           /\ [SessionNext]_sessionVars /\ [ProfileNext]_profileVars
           /\ [ContestPageNext]_contestVars /\ [ActivityNext]_days
BY Zenon DEF BrowserNext, Rest, browserVars

LEMMA StartOfEveryPart ==
    ASSUME BrowserInit
    PROVE  /\ SolveInit /\ SelfTestInit /\ WatchInit /\ DrawerInit /\ ListInit /\ FormInit
           /\ SessionInit /\ ProfileInit /\ ContestPageInit /\ ActivityInit
BY DEF BrowserInit

\* The client starts every part and takes its steps alone.
THEOREM BrowserRunsItsParts ==
    BrowserSpec => /\ SolveSpec /\ SelfTestSpec /\ WatchSpec /\ DrawerSpec /\ ListSpec /\ FormSpec
                   /\ SessionSpec /\ ProfileSpec /\ ContestPageSpec /\ ActivitySpec
BY StepOfEveryPart, StartOfEveryPart, PTL
   DEF BrowserSpec, SolveSpec, SelfTestSpec, WatchSpec, DrawerSpec, ListSpec, FormSpec, SessionSpec,
       ProfileSpec, ContestPageSpec, ActivitySpec

\* In whatever part the client is, every value it holds is of its kind.
THEOREM BrowserIsTyped == BrowserSpec => []BrowserTypeOK
<1>1. BrowserInit => part \in BrowserParts BY DEF BrowserInit
<1>2. part \in BrowserParts /\ [BrowserNext]_browserVars => (part \in BrowserParts)'
  BY Zenon DEF BrowserNext, Rest, browserVars
<1>3. BrowserSpec => [](part \in BrowserParts) BY <1>1, <1>2, PTL DEF BrowserSpec
<1>4. SelfTestTypeOK /\ SelfTestInv /\ [SelfTestNext]_testVars => (SelfTestTypeOK /\ SelfTestInv)'
  BY SelfTestTypeStep, SelfTestInvStep
<1>5. SelfTestSpec => []SelfTestTypeOK BY <1>4, SelfTestStart, PTL DEF SelfTestSpec
<1>6. WatchSpec => []WatchTypeOK BY WatchStart, WatchTypeStep, PTL DEF WatchSpec
<1>7. DrawerSpec => []DrawerTypeOK
  <2>1. DrawerInv => DrawerTypeOK BY DEF DrawerInv
  <2> QED BY <2>1, DrawerStart, DrawerStep, PTL DEF DrawerSpec
<1>8. ListSpec => []ListTypeOK
  <2>1. ListInit => ListTypeOK /\ ListInv BY ListStart
  <2>2. ListTypeOK /\ ListInv /\ [ListNext]_listVars => (ListTypeOK /\ ListInv)' BY ListStep
  <2> QED BY <2>1, <2>2, PTL DEF ListSpec
<1>9. FormSpec => []FormTypeOK
  <2>1. FormTypeOK /\ KindInv /\ [FormNext]_formVars => (FormTypeOK /\ KindInv)'
    BY FormTypeStep, KindStep
  <2> QED BY <2>1, FormTypeStart, PTL DEF FormSpec
<1>10. ProfileSpec => []ProfileTypeOK
  <2>1. ProfileInit => ProfileTypeOK /\ ProfileInv BY ProfileStart
  <2>2. ProfileTypeOK /\ ProfileInv /\ [ProfileNext]_profileVars
        => (ProfileTypeOK /\ ProfileInv)'
    BY ProfileStep
  <2> QED BY <2>1, <2>2, PTL DEF ProfileSpec
<1>11. ActivitySpec => []ActivityTypeOK
  BY ActivityStart, ActivityStep, DaysTyped, PTL DEF ActivitySpec
<1>12. /\ part \in BrowserParts
       /\ SolveTypeOK /\ SelfTestTypeOK /\ WatchTypeOK /\ DrawerTypeOK /\ ListTypeOK
       /\ FormTypeOK /\ SessionTypeOK /\ ProfileTypeOK /\ ContestPageTypeOK /\ ActivityTypeOK
       => BrowserTypeOK
  BY DEF BrowserTypeOK
<1> QED
  BY <1>3, <1>5, <1>6, <1>7, <1>8, <1>9, <1>10, <1>11, <1>12, BrowserRunsItsParts, SolveTypes,
     SessionTypes, ContestPageIsTyped, PTL

\* What holds of the parts holds of the client: whatever page it is, drafts that are quiet are
\* saved, screens, rows, results, statements and forms show what they say they show, and an
\* administrator remains.
THEOREM BrowserIsRight ==
    BrowserSpec => /\ []QuietMeansSaved /\ []StatementIsOfTheRoute /\ []ResultFitsTheFields
                   /\ []DrawerListIsRight /\ []RowsFitTheFilters /\ []ScreenIsTheTokens
                   /\ []AnAdminRemains /\ []ShownProfileIsSaved /\ []RowsKeepTheirText
                   /\ []ContestIsTheRoutes /\ []ColoursTellActivity
                   /\ KeepsDrafts
BY BrowserRunsItsParts, QuietDraftsSaved, StatementsFit, ResultsFit, DrawerIsRight, RowsFit,
   ScreensFit, AdminsRemain, ProfileShown, FormsKeepRows, ContestIsRight, ColoursTell,
            DraftsKept, PTL
====
