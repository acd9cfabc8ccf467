---- MODULE ActivityHeatmap ----
(***************************************************************************)
(* The activity of a user, day by day (handler_profile.go, getMyActivity), *)
(* and what the profile page makes of it (ProfilePage.tsx): the colours of *)
(* the heat map, which depend on the scores of all days that are shown,    *)
(* and the streak.                                                         *)
(***************************************************************************)
EXTENDS Integers, FiniteSets, Sequences

CONSTANTS
    Solvable,       \* problems
    Window,         \* days shown (365 in the code)
    Recent,         \* days of the recent activity (30 in the code)
    MaxPerDay       \* bound: submissions of a day

ASSUME ActivityAssumption == Window \in Nat \ {0} /\ Recent \in Nat /\ MaxPerDay \in Nat

VARIABLE days       \* the days shown, today the last: submissions, those accepted, and
                    \* the problems they solved

NoActivity == [submissions |-> 0, accepted |-> 0, solved |-> {}]

ActivityTypeOK ==
    days \in [1 .. Window -> [submissions : 0 .. MaxPerDay, accepted : 0 .. MaxPerDay,
                              solved : SUBSET Solvable]]

ActivityInit == days = [i \in 1 .. Window |-> NoActivity]

SubmitToday(p, accepted) ==
    /\ days[Window].submissions < MaxPerDay
    /\ days' = [days EXCEPT ![Window].submissions = @ + 1,
                            ![Window].accepted = IF accepted THEN @ + 1 ELSE @,
                            ![Window].solved = IF accepted THEN @ \cup {p} ELSE @]

\* A day without submissions is in the answer too; the oldest one leaves it.
DayPasses == days' = Append(Tail(days), NoActivity)

ActivityNext == DayPasses \/ \E p \in Solvable, accepted \in BOOLEAN : SubmitToday(p, accepted)

-----------------------------------------------------------------------------
(* The page.                                                               *)

activityScore(d) == d.submissions + d.accepted * 2 + Cardinality(d.solved) * 3
Score(i) == activityScore(days[i])
Scored == {i \in 1 .. Window : Score(i) > 0}
Scores == {Score(i) : i \in Scored}

AtMost(s) == Cardinality({i \in Scored : Score(i) <= s})
Rank(quarters) == (Cardinality(Scored) * quarters + 3) \div 4

\* The score at a quarter, half or three quarters of the sorted scores.
quantile(quarters) ==
    CHOOSE s \in Scores : AtMost(s) >= Rank(quarters)
                          /\ \A r \in Scores : r < s => AtMost(r) < Rank(quarters)

maxScore == CHOOSE s \in Scores : \A r \in Scores : r <= s

\* Wrong variant: whether the days differ at all is tested first.
LevelTestingSpreadFirst(i) ==
    LET low == quantile(1)  mid == quantile(2)  high == quantile(3) IN
    IF Score(i) <= 0 THEN 0
    ELSE IF low = mid /\ mid = high THEN 2
    ELSE IF Score(i) = maxScore /\ Score(i) > high THEN 4
    ELSE IF Score(i) <= low THEN 1
    ELSE IF Score(i) <= mid THEN 2
    ELSE IF Score(i) < high THEN 3
    ELSE 4
activityLevel(i) ==
    LET low == quantile(1)  mid == quantile(2)  high == quantile(3) IN
    IF Score(i) <= 0 THEN 0
    ELSE IF Score(i) = maxScore /\ Score(i) > high THEN 4
    ELSE IF low = mid /\ mid = high THEN 2
    ELSE IF Score(i) <= low THEN 1
    ELSE IF Score(i) <= mid THEN 2
    ELSE IF Score(i) < high THEN 3
    ELSE 4

Active(i) == days[i].submissions > 0
activeDays == Cardinality({i \in 1 .. Window : Active(i)})
recentActiveDays == Cardinality({i \in 1 .. Window : i > Window - Recent /\ Active(i)})
currentStreak ==
    CHOOSE n \in 0 .. Window : /\ \A i \in Window - n + 1 .. Window : Active(i)
                               /\ n < Window => ~Active(Window - n)

-----------------------------------------------------------------------------
(* The colours tell the activity, whatever the other days are that their     *)
(* scale is made from: a day without submissions is blank, no other is, and  *)
(* no day is paler than one on which less was done; the days of the streak   *)
(* are active days, and the best day stands out unless three in four are as  *)
(* good (ProfilePage.tsx:119).                                               *)
ColoursTellActivity ==
    /\ \A i, j \in 1 .. Window : Score(i) <= Score(j) => activityLevel(i) <= activityLevel(j)
    /\ \A i \in 1 .. Window : activityLevel(i) = 0 <=> ~Active(i)
    /\ currentStreak <= activeDays /\ recentActiveDays <= activeDays
    /\ \A i \in Scored :
           Score(i) = maxScore /\ 4 * Cardinality({j \in Scored : Score(j) < maxScore})
                                  >= 3 * Cardinality(Scored)
               => activityLevel(i) = 4
====
