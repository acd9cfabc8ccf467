---- MODULE ContestPage ----
(***************************************************************************)
(* The page of a contest (ContestDetailPage.tsx): the contest and its      *)
(* standings are asked for by two requests, joining asks for both again    *)
(* one after the other, and every answer is shown when it comes.  An       *)
(* answer is what the server knew when it wrote it.                        *)
(***************************************************************************)
EXTENDS ClientValues

CONSTANTS
    Shown,              \* contests a tab may show
    MaxContestMoves     \* bound: what the user does, and contests that end

VARIABLES
    contestId,      \* contest of the route, None when the page is not mounted
    members,        \* server: contests the user has joined
    over,           \* server: contests that have ended
    contestShown,   \* the contest shown: its id, joined and ended, or None
    standingsShown, \* the contest whose standings are shown, with or without the user
    contestCalls,   \* requests under way, with their answer once it is written
    contestMoves,
    mixedUp         \* history: kinds whose latest request failed, was overtaken, or is
                    \* for a contest that was left, or was not made after joining

contestVars == <<contestId, members, over, contestShown, standingsShown,
                 contestCalls, contestMoves, mixedUp>>

Views == [id : Shown, joined : BOOLEAN, ended : BOOLEAN]

ASSUME ContestPageAssumption ==
    None \notin Shown /\ None \notin Views /\ MaxContestMoves \in Nat

Parts == {"contest", "standings"}
ContestCalls == [n : 0 .. MaxContestMoves, kind : Parts \cup {"join"}, id : Shown,
                 joining : BOOLEAN, latest : BOOLEAN, answer : Views \cup {None}]

ContestPageTypeOK ==
    /\ contestId \in Shown \cup {None}
    /\ members \subseteq Shown /\ over \subseteq Shown
    /\ contestShown \in Views \cup {None} /\ standingsShown \in Views \cup {None}
    /\ contestCalls \subseteq ContestCalls
    /\ contestMoves \in 0 .. MaxContestMoves /\ mixedUp \subseteq Parts

NewContestCall(n, k, id, joining) ==
    [n |-> n, kind |-> k, id |-> id, joining |-> joining, latest |-> TRUE, answer |-> None]

\* A page has just been mounted.
ContestPageInit ==
    /\ contestId \in Shown
    /\ members \in SUBSET Shown /\ over = {}
    /\ contestShown = None /\ standingsShown = None
    /\ contestCalls = {NewContestCall(0, k, contestId, FALSE) : k \in Parts}
    /\ contestMoves = 0 /\ mixedUp = {}

ContestMove == contestMoves < MaxContestMoves /\ contestMoves' = contestMoves + 1

\* The requests of kinds ks are made for the contest of the route; the others go on.
AskParts(n, ks, id, joining, others) ==
    /\ contestCalls' =
           {[c EXCEPT !.latest = @ /\ c.kind \notin ks] : c \in others}
           \cup {NewContestCall(n, k, id, joining) : k \in ks}
    /\ mixedUp' = IF joining /\ id # contestId THEN mixedUp \cup ks ELSE mixedUp \ ks

-----------------------------------------------------------------------------
(* The page.                                                               *)

\* Wrong variant: the effect loads the standings when the page is mounted only.
LoadFirst(id) ==
    AskParts(contestMoves + 1, IF contestId = None THEN Parts ELSE {"contest"}, id, FALSE,
             contestCalls)
\* The effect on [id]: what is shown stays until the answers come.
LoadBoth(id) == AskParts(contestMoves + 1, Parts, id, FALSE, contestCalls)

ShowContest(id) ==
    /\ id # contestId /\ contestId' = id
    /\ ContestMove
    /\ LoadBoth(id)
    /\ UNCHANGED <<members, over, contestShown, standingsShown>>

\* Nobody waits for the answers; the server may still see a request to join.
LeaveContest ==
    /\ contestId # None /\ contestId' = None
    /\ contestShown' = None /\ standingsShown' = None
    /\ contestCalls' = {} /\ mixedUp' = {}
    /\ \E joins \in SUBSET {c.id : c \in {d \in contestCalls : d.kind = "join"}} :
           members' = members \cup joins
    /\ UNCHANGED <<over, contestMoves>>

RefreshStandings ==
    /\ contestShown # None
    /\ ContestMove
    /\ AskParts(contestMoves + 1, {"standings"}, contestId, FALSE, contestCalls)
    /\ UNCHANGED <<contestId, members, over, contestShown, standingsShown>>

\* The button looks at the contest that is shown and joins the one of the route.
Join ==
    /\ contestShown # None /\ ~contestShown.joined /\ ~contestShown.ended
    /\ ContestMove
    /\ contestCalls' = contestCalls \cup {NewContestCall(contestMoves + 1, "join", contestId, TRUE)}
    /\ UNCHANGED <<contestId, members, over, contestShown, standingsShown,
                   mixedUp>>

\* After it has joined, the page asks for the contest, and then for the standings.
JoinReturns(c) ==
    /\ c.kind = "join" /\ c.answer # None
    /\ AskParts(c.n, {"contest"}, c.id, TRUE, contestCalls \ {c})
    /\ UNCHANGED <<contestShown, standingsShown>>

\* The latest answer of the kind is shown already.
Overtaken(c) == {k \in Parts : k = c.kind /\ \A d \in contestCalls : d.kind = k => ~d.latest}

ContestReturns(c) ==
    /\ c.kind = "contest" /\ c.answer # None
    /\ contestShown' = c.answer
    /\ \/ /\ c.joining
          /\ contestCalls' =
                 {[d EXCEPT !.latest = @ /\ d.kind # "standings"] : d \in contestCalls \ {c}}
                 \cup {NewContestCall(c.n, "standings", c.id, TRUE)}
          /\ mixedUp' = IF c.id # contestId THEN Parts
                        ELSE (mixedUp \cup Overtaken(c)) \ {"standings"}
       \/ /\ ~c.joining
          /\ contestCalls' = contestCalls \ {c}
          /\ mixedUp' = mixedUp \cup Overtaken(c)
    /\ UNCHANGED standingsShown

StandingsReturn(c) ==
    /\ c.kind = "standings" /\ c.answer # None
    /\ standingsShown' = c.answer
    /\ contestCalls' = contestCalls \ {c}
    /\ mixedUp' = mixedUp \cup Overtaken(c)
    /\ UNCHANGED contestShown

ContestAnswers(c) ==
    /\ JoinReturns(c) \/ ContestReturns(c) \/ StandingsReturn(c)
    /\ UNCHANGED <<contestId, members, over, contestMoves>>

\* An error ends the sequence of a join.
ContestCallFails(c) ==
    /\ contestCalls' = contestCalls \ {c}
    /\ mixedUp' = mixedUp \cup (IF c.joining THEN Parts
                                ELSE {k \in Parts : k = c.kind /\ c.latest})
    /\ UNCHANGED <<contestId, members, over, contestShown, standingsShown,
                   contestMoves>>

-----------------------------------------------------------------------------
(* The server.                                                             *)

ViewOf(id) == [id |-> id, joined |-> id \in members', ended |-> id \in over]

ServeContestCall(c) ==
    /\ c.answer = None
    /\ c.kind = "join" => c.id \notin over
    /\ members' = IF c.kind = "join" THEN members \cup {c.id} ELSE members
    /\ contestCalls' = (contestCalls \ {c}) \cup {[c EXCEPT !.answer = ViewOf(c.id)]}
    /\ UNCHANGED <<contestId, over, contestShown, standingsShown, contestMoves,
                   mixedUp>>

ContestEnds(id) ==
    /\ id \notin over /\ over' = over \cup {id}
    /\ ContestMove
    /\ UNCHANGED <<contestId, members, contestShown, standingsShown, contestCalls, mixedUp>>

ContestPageNext ==
    \/ \E id \in Shown : ShowContest(id) \/ ContestEnds(id)
    \/ LeaveContest \/ RefreshStandings \/ Join
    \/ \E c \in contestCalls : ServeContestCall(c) \/ ContestAnswers(c) \/ ContestCallFails(c)

-----------------------------------------------------------------------------
\* The problems can be opened, and submitted to (by an administrator always).
Enterable == contestShown # None /\ contestShown.joined

(* Once its requests have settled, the page shows the contest of the route    *)
(* and its standings, and lets the user in if they are a member, also when    *)
(* they joined while the requests of the page before were under way; unless   *)
(* an answer was overtaken by an older one, which the page shows              *)
(* (ContestDetailPage.tsx:32, :39), or a request failed.                      *)
ContestIsTheRoutes ==
    contestId # None /\ contestCalls = {} =>
        /\ "contest" \notin mixedUp =>
               contestShown.id = contestId /\ (Enterable <=> contestId \in members)
        /\ "standings" \notin mixedUp =>
               standingsShown.id = contestId /\ (standingsShown.joined <=> contestId \in members)
====
