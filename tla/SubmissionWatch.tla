---- MODULE SubmissionWatch ----
(***************************************************************************)
(* A user waits for a verdict: the list of submissions beside a problem    *)
(* (ProblemSubmissionsPanel.tsx) and the page of one submission            *)
(* (SubmissionDetailPage.tsx) ask again every 1.5 s while they show one    *)
(* that is not judged yet.  A request does not wait for the one before, so *)
(* answers come in any order, each with what the server knew when it wrote *)
(* it.  Requests that ask the same, and have the same answer or none yet,   *)
(* are taken for one.  A tab shows one of the two pages.                   *)
(***************************************************************************)
EXTENDS ClientValues

CONSTANTS
    Watched,    \* submissions
    Lists,      \* endpoints of the panel: one for each problem
    ListOf,     \* submission -> its endpoint
    PageOf,     \* submission -> the page of the list it is on
    MaxAsked,   \* bound: requests under way of one kind
    MaxFailed   \* bound: requests that fail

ASSUME WatchAssumption == None \notin Watched \cup Lists /\ MaxFailed \in Nat

VARIABLES
    verdict,    \* what the server knows
    list,       \* endpoint of the panel, None when it is not mounted
    rows,       \* submissions it shows, with their status
    rowsPage,
    listAsked,  \* its requests under way, with their answer once it is written
    opened,     \* id of the detail page, None when it is not mounted
    detail,     \* the submission it shows, or None
    detailAsked,
    failed

watchVars == <<verdict, list, rows, rowsPage, listAsked, opened, detail, detailAsked, failed>>
panelVars == <<list, rows, rowsPage, listAsked>>
detailVars == <<opened, detail, detailAsked>>

Row(s) == [id |-> s, status |-> verdict[s]]
RowSet == [id : Watched, status : {"Pending", "Judging", "Judged"}]
Numbers == {PageOf[s] : s \in Watched}
NotYet == {None}

WatchTypeOK ==
    /\ verdict \in [Watched -> {"Pending", "Judging", "Judged"}]
    /\ list \in Lists \cup {None} /\ rows \subseteq RowSet /\ rowsPage \in Numbers \cup {1}
    /\ listAsked \subseteq [list : Lists, page : Numbers \cup {1},
                            answer : {NotYet} \cup SUBSET RowSet]
    /\ opened \in Watched \cup {None} /\ detail \in RowSet \cup {None}
    /\ detailAsked \subseteq [id : Watched, answer : RowSet \cup {None}]
    /\ failed \in 0 .. MaxFailed

WatchInit ==
    /\ verdict = [s \in Watched |-> "Pending"]
    /\ list = None /\ rows = {} /\ rowsPage = 1 /\ listAsked = {}
    /\ opened = None /\ detail = None /\ detailAsked = {}
    /\ failed = 0

\* Wrong variant: a submission being judged is taken for judged.
OnlyPending(s) == s = "Pending"
Running(s) == s \in {"Pending", "Judging"}

JudgeWatched(s) ==
    /\ \/ verdict[s] = "Pending" /\ verdict' = [verdict EXCEPT ![s] = "Judging"]
       \/ verdict[s] = "Judging" /\ verdict' = [verdict EXCEPT ![s] = "Judged"]
    /\ UNCHANGED <<panelVars, detailVars, failed>>

-----------------------------------------------------------------------------
(* ProblemSubmissionsPanel.                                                *)

Ask(l, p) ==
    /\ Cardinality(listAsked) < MaxAsked
    /\ listAsked' = listAsked \cup {[list |-> l, page |-> p, answer |-> NotYet]}

HasRunning == \E r \in rows : Running(r.status)

\* The panel is opened, or another problem beside it: the rows stay until an answer.
OpenList(l) ==
    /\ l # list /\ opened = None
    /\ list' = l
    /\ Ask(l, 1)
    /\ UNCHANGED <<verdict, rows, rowsPage, detailVars, failed>>

CloseList ==
    /\ list # None
    /\ list' = None /\ rows' = {} /\ rowsPage' = 1 /\ listAsked' = {}
    /\ UNCHANGED <<verdict, detailVars, failed>>

PollList ==
    /\ list # None /\ HasRunning
    /\ Ask(list, rowsPage)
    /\ UNCHANGED <<verdict, list, rows, rowsPage, detailVars, failed>>

\* The refresh button, and the pages of the table.
TurnPage(p) ==
    /\ list # None
    /\ Ask(list, p)
    /\ UNCHANGED <<verdict, list, rows, rowsPage, detailVars, failed>>

WriteList(r) ==
    /\ r.answer = NotYet
    /\ listAsked' = (listAsked \ {r}) \cup
           {[r EXCEPT !.answer = {Row(s) : s \in {w \in Watched : ListOf[w] = r.list /\ PageOf[w] = r.page}}]}
    /\ UNCHANGED <<verdict, list, rows, rowsPage, detailVars, failed>>

\* setData: the last answer to come is shown, whatever it was asked for.
ReceiveList(r) ==
    /\ r.answer # NotYet
    /\ listAsked' = listAsked \ {r}
    /\ rows' = r.answer /\ rowsPage' = r.page
    /\ UNCHANGED <<verdict, list, detailVars, failed>>

LoseList(r) ==
    /\ failed < MaxFailed /\ failed' = failed + 1
    /\ listAsked' = listAsked \ {r}
    /\ UNCHANGED <<verdict, list, rows, rowsPage, detailVars>>

-----------------------------------------------------------------------------
(* SubmissionDetailPage.                                                   *)

AskDetail(s) ==
    /\ Cardinality(detailAsked) < MaxAsked
    /\ detailAsked' = detailAsked \cup {[id |-> s, answer |-> None]}

OpenDetail(s) ==
    /\ s # opened /\ list = None
    /\ opened' = s
    /\ AskDetail(s)
    /\ UNCHANGED <<verdict, panelVars, detail, failed>>

CloseDetail ==
    /\ opened # None
    /\ opened' = None /\ detail' = None /\ detailAsked' = {}
    /\ UNCHANGED <<verdict, panelVars, failed>>

\* The interval asks for the id of the route, as long as what it shows is running.
PollDetail ==
    /\ opened # None /\ detail # None
    /\ Running(detail.status)
    /\ AskDetail(opened)
    /\ UNCHANGED <<verdict, panelVars, opened, detail, failed>>

WriteDetail(r) ==
    /\ r.answer = None
    /\ detailAsked' = (detailAsked \ {r}) \cup {[r EXCEPT !.answer = Row(r.id)]}
    /\ UNCHANGED <<verdict, panelVars, opened, detail, failed>>

ReceiveDetail(r) ==
    /\ r.answer # None
    /\ detailAsked' = detailAsked \ {r}
    /\ detail' = r.answer
    /\ UNCHANGED <<verdict, panelVars, opened, failed>>

LoseDetail(r) ==
    /\ failed < MaxFailed /\ failed' = failed + 1
    /\ detailAsked' = detailAsked \ {r}
    /\ UNCHANGED <<verdict, panelVars, opened, detail>>

-----------------------------------------------------------------------------
WriteAny == (\E r \in listAsked : WriteList(r)) \/ \E r \in detailAsked : WriteDetail(r)
ReceiveSomeList == \E r \in listAsked : ReceiveList(r)
ReceiveSomeDetail == \E r \in detailAsked : ReceiveDetail(r)

WatchNext ==
    \/ \E s \in Watched : JudgeWatched(s) \/ OpenDetail(s)
    \/ \E l \in Lists : OpenList(l)
    \/ CloseList \/ PollList \/ \E p \in Numbers : TurnPage(p)
    \/ CloseDetail \/ PollDetail
    \/ WriteAny \/ ReceiveSomeList \/ ReceiveSomeDetail
    \/ \E r \in listAsked : LoseList(r)
    \/ \E r \in detailAsked : LoseDetail(r)

-----------------------------------------------------------------------------
(* What the panel says, "Pending / Judging is refreshed automatically"      *)
(* (ProblemSubmissionsPanel.tsx:119), and the detail page does as well: a   *)
(* submission is not shown as running for ever, though answers that are     *)
(* older than the one before may show it as running again for a while.      *)
VerdictsAreShown ==
    \A s \in Watched :
        /\ (\E r \in rows : r.id = s /\ r.status # "Judged")
               ~> ~(\E r \in rows : r.id = s /\ r.status # "Judged")
        /\ (detail # None /\ detail.id = s /\ detail.status # "Judged")
               ~> ~(detail # None /\ detail.id = s /\ detail.status # "Judged")
====
