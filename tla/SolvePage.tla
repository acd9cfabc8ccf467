---- MODULE SolvePage ----
(***************************************************************************)
(* The two pages with an editor, ProblemDetailPage.tsx and                 *)
(* ContestProblemPage.tsx, in the tabs of one browser: the statement they  *)
(* ask for, the code and its draft in local storage, saved by a timer, and *)
(* the submission whose answer takes the tab to another page.              *)
(***************************************************************************)
EXTENDS ClientValues

CONSTANTS
    Tabs,
    Problems, Contests,     \* ids
    Cpp,                    \* the language selected when a page opens
    Texts,                  \* programs, not blank
    MaxMoves                \* bound: what the user does

\* The routes of the two pages.
ProblemPages == [page : {"problem"}, problem : Problems]
ContestPages == [page : {"contest"}, contest : Contests, problem : Problems]
Places == ProblemPages \cup ContestPages
Keys == Places \X Languages
Codes == Texts \cup {Blank}

ASSUME SolveAssumption ==
    /\ Cpp \in Languages /\ Blank \notin Texts /\ None \notin Texts \cup {Blank}
    /\ None \notin Places
    /\ MaxMoves \in Nat

VARIABLES
    place,      \* tab -> route, None when the tab is on another page
    language,
    code,       \* tab -> text of the editor
    timers,     \* tab -> saves that a timer will make
    saved,      \* local storage: key -> text or None
    asked,      \* tab -> requests for a statement without an answer yet
    sent,       \* tab -> number of the latest of these requests
    shown,      \* tab -> the page whose statement it has, or None
    denied,     \* tab -> accessError
    submitting, \* tab -> the page shows that its submission is under way
    strays,     \* tab -> submissions under way of a page that was left
    moves,      \* what the user did so far
    muddled,    \* history: the latest request failed or was overtaken
    crossed     \* history: another tab wrote the draft that the tab shows

solveVars == <<place, language, code, timers, saved, asked, sent, shown, denied,
               submitting, strays, moves, muddled, crossed>>
editorVars == <<place, language, code, timers>>
statementVars == <<asked, sent, shown, denied, muddled>>
submitVars == <<submitting, strays>>

Key(t) == <<place[t], language[t]>>
Draft(k) == IF saved[k] = None THEN Blank ELSE saved[k]

SolveTypeOK ==
    /\ place \in [Tabs -> Places \cup {None}]
    /\ language \in [Tabs -> Languages]
    /\ code \in [Tabs -> Codes]
    /\ timers \in [Tabs -> SUBSET (Keys \X Codes)]
    /\ saved \in [Keys -> Codes \cup {None}]
    /\ asked \in [Tabs -> SUBSET (Nat \X Places)]
    /\ sent \in [Tabs -> Nat]
    /\ shown \in [Tabs -> Places \cup {None}]
    /\ denied \in [Tabs -> BOOLEAN] /\ submitting \in [Tabs -> BOOLEAN]
    /\ strays \in [Tabs -> Nat]
    /\ moves \in 0 .. MaxMoves
    /\ muddled \in [Tabs -> BOOLEAN] /\ crossed \in [Tabs -> BOOLEAN]

SolveInit ==
    /\ place = [t \in Tabs |-> None]
    /\ language = [t \in Tabs |-> Cpp]
    /\ code = [t \in Tabs |-> Blank]
    /\ timers = [t \in Tabs |-> {}]
    /\ saved = [k \in Keys |-> None]
    /\ asked = [t \in Tabs |-> {}]
    /\ sent = [t \in Tabs |-> 0]
    /\ shown = [t \in Tabs |-> None]
    /\ denied = [t \in Tabs |-> FALSE]
    /\ submitting = [t \in Tabs |-> FALSE]
    /\ strays = [t \in Tabs |-> 0]
    /\ moves = 0
    /\ muddled = [t \in Tabs |-> FALSE]
    /\ crossed = [t \in Tabs |-> FALSE]

Move == moves < MaxMoves /\ moves' = moves + 1

-----------------------------------------------------------------------------
(* Drafts: the effects on [draftKey] and on [draftKey, code].              *)

\* Wrong variant: the timer of the key that is left is not cleared.
RearmKeepingOld(t, k, x) == timers' = [timers EXCEPT ![t] = @ \cup {<<k, x>>}]
\* A change of the key or of the code clears the timer and starts another.
Rearm(t, k, x) == timers' = [timers EXCEPT ![t] = {<<k, x>>}]

\* The tab shows key <<p, l>>: the draft is loaded and a timer will save it again.
LoadDraft(t, p, l) ==
    /\ place' = [place EXCEPT ![t] = p]
    /\ language' = [language EXCEPT ![t] = l]
    /\ code' = [code EXCEPT ![t] = Draft(<<p, l>>)]
    /\ Rearm(t, <<p, l>>, Draft(<<p, l>>))
    /\ crossed' = [crossed EXCEPT ![t] = FALSE]

\* What tab t writes to key k is news to the other tabs that show k.
Store(t, k, x) ==
    /\ saved' = [saved EXCEPT ![k] = x]
    /\ crossed' = [u \in Tabs |-> IF u # t /\ place[u] # None /\ Key(u) = k
                                  THEN TRUE ELSE crossed[u]]

SaveDraft(t, w) ==
    /\ w \in timers[t]
    /\ timers' = [timers EXCEPT ![t] = @ \ {w}]
    /\ Store(t, w[1], w[2])
    /\ UNCHANGED <<place, language, code, statementVars, submitVars, moves>>

-----------------------------------------------------------------------------
(* Statements: requests are numbered by the move that sent them.           *)

Newest(t) == {r \in asked[t] : r[1] = sent[t]}

AskAgain(t, p) ==
    /\ asked' = [asked EXCEPT ![t] = @ \cup {<<moves', p>>}]
    /\ sent' = [sent EXCEPT ![t] = moves']
    /\ muddled' = [muddled EXCEPT ![t] = FALSE]

\* A page that opens starts anew: nobody waits for the answers of the one before.
AskFirst(t, p) ==
    /\ asked' = [asked EXCEPT ![t] = {<<moves', p>>}]
    /\ sent' = [sent EXCEPT ![t] = moves']
    /\ shown' = [shown EXCEPT ![t] = None]
    /\ denied' = [denied EXCEPT ![t] = FALSE]
    /\ muddled' = [muddled EXCEPT ![t] = FALSE]

Answered(t, r) == asked' = [asked EXCEPT ![t] = @ \ {r}]

\* Every answer is shown, also one to an earlier request.
ShowAnswer(t, r) ==
    /\ Answered(t, r)
    /\ shown' = [shown EXCEPT ![t] = r[2]]
    /\ muddled' = [muddled EXCEPT ![t] = @ \/ (r \notin Newest(t) /\ Newest(t) = {})]

MuddleIfNewest(t, r) == muddled' = [muddled EXCEPT ![t] = @ \/ r \in Newest(t)]

\* The page is left: its timer is cleared, its state is gone, its submission goes on.
Unmount(t) ==
    /\ place' = [place EXCEPT ![t] = None]
    /\ code' = [code EXCEPT ![t] = Blank]
    /\ timers' = [timers EXCEPT ![t] = {}]
    /\ asked' = [asked EXCEPT ![t] = {}]
    /\ shown' = [shown EXCEPT ![t] = None]
    /\ denied' = [denied EXCEPT ![t] = FALSE]
    /\ muddled' = [muddled EXCEPT ![t] = FALSE]
    /\ crossed' = [crossed EXCEPT ![t] = FALSE]
    /\ UNCHANGED <<language, saved, sent, moves>>

\* A submission of the page that is left can no longer reset its button.
Stray(t) == strays' = [strays EXCEPT ![t] = @ + IF submitting[t] THEN 1 ELSE 0]
NotSubmitting(t) == submitting' = [submitting EXCEPT ![t] = FALSE]

\* Any link, the browser's history, or a click on submit while logged out.
Leave(t) ==
    /\ place[t] # None
    /\ Unmount(t)
    /\ Stray(t) /\ NotSubmitting(t)

\* The page is opened from elsewhere, or from the page of the other kind.
Open(t, p) ==
    /\ Move
    /\ LoadDraft(t, p, Cpp)
    /\ AskFirst(t, p)
    /\ Stray(t) /\ NotSubmitting(t)
    /\ UNCHANGED saved

\* Only the parameter of the route changes: the page keeps its state (but see denied).
Switch(t, p) ==
    /\ p # place[t]
    /\ Move
    /\ LoadDraft(t, p, language[t])
    /\ UNCHANGED <<saved, shown, submitVars>>
    /\ AskAgain(t, p)

-----------------------------------------------------------------------------
(* The editor panel of either page, and the submit button.                 *)

SelectLanguage(t, l) ==
    /\ l # language[t]
    /\ Move
    /\ LoadDraft(t, place[t], l)
    /\ UNCHANGED <<saved, statementVars, submitVars>>

Edit(t, x) ==
    /\ x # code[t]
    /\ Move
    /\ code' = [code EXCEPT ![t] = x]
    /\ Rearm(t, Key(t), x)
    /\ UNCHANGED <<place, language, saved, statementVars, submitVars, crossed>>

\* Wrong variant: the text on the screen stays, without a timer to save it.
ResetStorageOnly(t) ==
    /\ Move
    /\ Store(t, Key(t), None)
    /\ timers' = [timers EXCEPT ![t] = {}]
    /\ UNCHANGED <<place, language, code, statementVars, submitVars>>
\* The draft is removed; the timer, if the code changes, will store a blank one.
ResetCode(t) ==
    /\ Move
    /\ code' = [code EXCEPT ![t] = Blank]
    /\ Store(t, Key(t), None)
    /\ IF code[t] = Blank THEN UNCHANGED timers ELSE Rearm(t, Key(t), Blank)
    /\ UNCHANGED <<place, language, statementVars, submitVars>>

UseEditor(t) ==
    \/ \E l \in Languages : SelectLanguage(t, l)
    \/ \E x \in Codes : Edit(t, x)
    \/ ResetCode(t)

Submit(t) ==
    /\ ~submitting[t]
    /\ code[t] # Blank
    /\ Move
    /\ submitting' = [submitting EXCEPT ![t] = TRUE]
    /\ UNCHANGED <<editorVars, saved, statementVars, strays, crossed>>

SubmitFails(t) ==
    /\ NotSubmitting(t)
    /\ UNCHANGED <<editorVars, saved, statementVars, strays, moves, crossed>>

\* The answer takes the tab to the page of the submission.
SubmitOk(t) ==
    /\ Unmount(t)
    /\ NotSubmitting(t) /\ UNCHANGED strays

\* It does so as well when the page that submitted was left, whatever is open now.
StrayEnds(t) ==
    /\ strays[t] > 0
    /\ \/ /\ strays' = [strays EXCEPT ![t] = @ - 1]
          /\ UNCHANGED <<editorVars, saved, statementVars, submitting, moves, crossed>>
       \/ /\ strays' = [strays EXCEPT ![t] = @ - IF submitting[t] THEN 0 ELSE 1]
          /\ Unmount(t) /\ NotSubmitting(t)

-----------------------------------------------------------------------------
(* ProblemDetailPage.                                                      *)

\* Without a statement there is a spinner or an empty page, and no editor.
AtProblem(t) == place[t] \in ProblemPages /\ shown[t] # None

OpenProblem(t) ==
    \E p \in ProblemPages : place[t] \notin ProblemPages /\ Open(t, p)

\* Wrong variant: the effect does not depend on the id.
SwitchKeepingStatement(t) ==
    /\ place[t] \in ProblemPages
    /\ \E p \in ProblemPages :
           /\ p # place[t]
           /\ Move
           /\ LoadDraft(t, p, language[t])
           /\ UNCHANGED <<saved, statementVars, submitVars>>
\* A problem of the drawer, or the browser's history.
SwitchProblem(t) ==
    /\ place[t] \in ProblemPages
    /\ \E p \in ProblemPages : Switch(t, p)
    /\ UNCHANGED denied

\* loadProblem: an error leaves the statement that was there.
ProblemAnswers(t, r) ==
    /\ place[t] \in ProblemPages
    /\ \/ ShowAnswer(t, r)
       \/ Answered(t, r) /\ MuddleIfNewest(t, r) /\ UNCHANGED shown
    /\ UNCHANGED <<editorVars, saved, sent, denied, submitVars, moves, crossed>>

EditProblemCode(t) == AtProblem(t) /\ UseEditor(t)
SubmitProblem(t) == AtProblem(t) /\ Submit(t)
ProblemSubmitted(t) ==
    place[t] \in ProblemPages /\ submitting[t] /\ (SubmitOk(t) \/ SubmitFails(t))

\* What the statement tab describes.
ProblemStatement(t) == IF AtProblem(t) THEN shown[t] ELSE None

-----------------------------------------------------------------------------
(* ContestProblemPage.                                                     *)

AtContestProblem(t) == place[t] \in ContestPages /\ shown[t] # None /\ ~denied[t]

OpenContestProblem(t) ==
    \E p \in ContestPages : place[t] \notin ContestPages /\ Open(t, p)

\* load begins with setAccessError("").
SwitchContestProblem(t) ==
    /\ place[t] \in ContestPages
    /\ \E p \in ContestPages : Switch(t, p)
    /\ denied' = [denied EXCEPT ![t] = FALSE]

\* load: an error hides the page, and an answer does not bring it back.
ContestProblemAnswers(t, r) ==
    /\ place[t] \in ContestPages
    /\ \/ ShowAnswer(t, r) /\ UNCHANGED denied
       \/ /\ Answered(t, r) /\ MuddleIfNewest(t, r)
          /\ denied' = [denied EXCEPT ![t] = TRUE]
          /\ UNCHANGED shown
    /\ UNCHANGED <<editorVars, saved, sent, submitVars, moves, crossed>>

EditContestProblemCode(t) == AtContestProblem(t) /\ UseEditor(t)
SubmitContestProblem(t) == AtContestProblem(t) /\ Submit(t)
ContestProblemSubmitted(t) ==
    place[t] \in ContestPages /\ submitting[t] /\ (SubmitOk(t) \/ SubmitFails(t))

ContestProblemStatement(t) == IF AtContestProblem(t) THEN shown[t] ELSE None

-----------------------------------------------------------------------------
ProblemPageStep(t) ==
    \/ OpenProblem(t) \/ SwitchProblem(t) \/ EditProblemCode(t)
    \/ SubmitProblem(t) \/ ProblemSubmitted(t)
    \/ \E r \in asked[t] : ProblemAnswers(t, r)

ContestPageStep(t) ==
    \/ OpenContestProblem(t) \/ SwitchContestProblem(t) \/ EditContestProblemCode(t)
    \/ SubmitContestProblem(t) \/ ContestProblemSubmitted(t)
    \/ \E r \in asked[t] : ContestProblemAnswers(t, r)

SolveNext ==
    \E t \in Tabs :
        \/ ProblemPageStep(t) \/ ContestPageStep(t)
        \/ Leave(t) \/ StrayEnds(t)
        \/ \E w \in timers[t] : SaveDraft(t, w)

SolveSpec == SolveInit /\ [][SolveNext]_solveVars

-----------------------------------------------------------------------------
(* A tab always shows the draft of its own page and language, and writes    *)
(* only what it shows, and only under that key: the timer of a page, or a   *)
(* language, that was left never fires (ProblemDetailPage.tsx:228).         *)
Book == INSTANCE DraftBook WITH
            Texts <- Codes, NoKey <- None,
            open <- [t \in Tabs |-> IF place[t] = None THEN None ELSE Key(t)],
            screen <- code,
            book <- [k \in Keys |-> Draft(k)]
KeepsDrafts == Book!BookSpec

\* Once the timers have fired, the draft of an open page is what its editor shows,
\* unless another tab has written the same draft.
QuietMeansSaved ==
    \A t \in Tabs :
        place[t] # None /\ timers[t] = {} /\ ~crossed[t] => Draft(Key(t)) = code[t]

\* Once no request is under way, the statement shown is the one of the route, to which
\* the code will be submitted, unless the latest request failed or was overtaken by an
\* earlier one (loadProblem and load accept every answer).
StatementIsOfTheRoute ==
    \A t \in Tabs :
        asked[t] = {} /\ ~muddled[t] =>
            {ProblemStatement(t), ContestProblemStatement(t)} \subseteq {None, place[t]}

\* What the footer of both editors says, "code drafts are saved locally automatically"
\* (ProblemDetailPage.tsx:608): a tab that leaves a draft has saved what it showed.
LeavingKeepsEdits ==
    [][\A t \in Tabs :
           place[t] # None /\ (place[t] # place'[t] \/ language[t] # language'[t])
               => Draft(Key(t)) = code[t]]_solveVars
====
