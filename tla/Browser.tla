---- MODULE Browser ----
(***************************************************************************)
(* The web client: its pages share nothing but the session and the drafts  *)
(* in local storage, so that a behaviour of this module is one of a part   *)
(* of it, chosen at first, while the others keep the state they have       *)
(* before their page is opened.                                            *)
(***************************************************************************)
EXTENDS SolvePage, SelfTest, SubmissionWatch, ProblemDrawer, FilteredLists, EditForms,
        Session, ProfileForm, ContestPage, ActivityHeatmap

VARIABLE part

browserVars == <<part, solveVars, testVars, watchVars, drawerVars, listVars, formVars,
                 sessionVars, profileVars, contestVars, days>>
BrowserParts == {"solve", "selfTest", "watch", "drawer", "lists", "forms", "session", "profile",
                 "contest", "heatmap"}

BrowserTypeOK ==
    /\ part \in BrowserParts
    /\ SolveTypeOK /\ SelfTestTypeOK /\ WatchTypeOK /\ DrawerTypeOK /\ ListTypeOK /\ FormTypeOK
    /\ SessionTypeOK /\ ProfileTypeOK /\ ContestPageTypeOK /\ ActivityTypeOK

\* A part of which the behaviour is not rests in one of its initial states.
Resting(p, state) == part = p \/ state
BrowserInit ==
    /\ part \in BrowserParts
    /\ SolveInit /\ WatchInit /\ DrawerInit /\ ProfileInit /\ ActivityInit
    /\ SelfTestInit /\ Resting("selfTest", testLanguage = Cpp)
    /\ ListInit /\ Resting("lists", /\ pageKind = "contests" /\ ~member
                                     /\ url = [filters |-> NoFilter, page |-> 1])
    /\ FormInit /\ Resting("forms", formKind = "tag")
    /\ SessionInit /\ Resting("session", /\ token = [b \in Browsers |-> None]
                                         /\ account = [a \in Accounts |-> "admin"]
                                         /\ browserOf = CHOOSE h \in Homes : TRUE)
    /\ ContestPageInit /\ Resting("contest", /\ members = {}
                                             /\ contestId = CHOOSE c \in Shown : TRUE)

Rest(p) ==
    /\ part = p /\ UNCHANGED part
    /\ p # "solve" => UNCHANGED solveVars
    /\ p # "selfTest" => UNCHANGED testVars
    /\ p # "watch" => UNCHANGED watchVars
    /\ p # "drawer" => UNCHANGED drawerVars
    /\ p # "lists" => UNCHANGED listVars
    /\ p # "forms" => UNCHANGED formVars
    /\ p # "session" => UNCHANGED sessionVars
    /\ p # "profile" => UNCHANGED profileVars
    /\ p # "contest" => UNCHANGED contestVars
    /\ p # "heatmap" => UNCHANGED days

BrowserNext ==
    \/ Rest("solve") /\ SolveNext
    \/ Rest("selfTest") /\ SelfTestNext
    \/ Rest("watch") /\ WatchNext
    \/ Rest("drawer") /\ DrawerNext
    \/ Rest("lists") /\ ListNext
    \/ Rest("forms") /\ FormNext
    \/ Rest("session") /\ SessionNext
    \/ Rest("profile") /\ ProfileNext
    \/ Rest("contest") /\ ContestPageNext
    \/ Rest("heatmap") /\ ActivityNext

\* The judge and the server go on, and so do the timers of a page that is open.
BrowserSpec ==
    /\ BrowserInit /\ [][BrowserNext]_browserVars
    /\ \A s \in Watched : WF_watchVars(part = "watch" /\ JudgeWatched(s))
    /\ WF_watchVars(part = "watch" /\ PollList)
    /\ WF_watchVars(part = "watch" /\ PollDetail)
    /\ WF_watchVars(part = "watch" /\ WriteAny)
    /\ WF_watchVars(part = "watch" /\ ReceiveSomeList)
    /\ WF_watchVars(part = "watch" /\ ReceiveSomeDetail)
====
