---- MODULE FilteredLists ----
(***************************************************************************)
(* The pages that list problems, submissions, tags, users and contests:    *)
(* filters, pages, and requests whose answers come in any order.  Five     *)
(* keep filters and page in the URL, and an effect loads what it asks for; *)
(* the others load when a button is pressed, with the filters of their     *)
(* inputs.  Filters that a page treats alike are one: "keyword" stands for *)
(* those without a rule of their own.  Rows are the query they answer.     *)
(***************************************************************************)
EXTENDS ClientValues

CONSTANTS
    Kinds,          \* pages to open
    Filled,         \* a value of a filter; a blank one does not filter
    ListPages,      \* numbers of pages
    MaxListMoves    \* bound: what the user does

ASSUME ListAssumption ==
    /\ Kinds \subseteq {"problems", "submissions", "adminSubmissions", "adminTags",
                        "adminProblems", "users", "adminContests", "contests"}
    /\ Filled # Blank /\ 1 \in ListPages /\ ListPages \subseteq Nat /\ MaxListMoves \in Nat

UrlKinds == {"problems", "submissions", "adminSubmissions", "adminTags", "adminProblems"}
Fields == {"keyword", "tag", "status", "scope", "user"}
FieldsOf(k) == CASE k = "problems" -> {"keyword", "tag", "status"}
                 [] k = "submissions" -> {"keyword", "scope", "user"}
                 [] k = "adminSubmissions" -> {"keyword", "user"}
                 [] k = "adminProblems" -> {}
                 [] OTHER -> {"keyword"}

FilterSet == [Fields -> {Filled, Blank}]
FiltersOf(k) == {f \in FilterSet : \A x \in Fields \ FieldsOf(k) : f[x] = Blank}
NoFilter == [x \in Fields |-> Blank]
Queries == [filters : FilterSet, page : ListPages]
QueriesOf(k) == [filters : FiltersOf(k), page : ListPages]

VARIABLES
    pageKind,       \* the page
    member,         \* somebody is logged in
    url,            \* filters and page of the URL; of the latest load for other pages
    inputs,         \* what the filters of the page show
    listRequests,   \* <<number, query>> of the requests under way
    listSent,       \* requests so far
    listed,         \* the query whose rows are shown, or None
    changes,        \* rejudges, deletions and changes of roles under way, each with
                    \* the query its page will load again
    listMoves,
    touched,        \* history: inputs were changed since they were last applied
    outdated        \* history: the latest request failed, was overtaken, or was made
                    \* with filters that are not those of the page

listVars == <<pageKind, member, url, inputs, listRequests, listSent, listed, changes,
              listMoves, touched, outdated>>

ListTypeOK ==
    /\ pageKind \in Kinds /\ member \in BOOLEAN
    /\ url \in Queries /\ inputs \in FilterSet
    /\ listRequests \subseteq Nat \X Queries /\ listSent \in Nat
    /\ listed \in Queries \cup {None} /\ changes \subseteq Queries
    /\ listMoves \in 0 .. MaxListMoves
    /\ touched \in BOOLEAN /\ outdated \in BOOLEAN

ListMove == listMoves < MaxListMoves /\ listMoves' = listMoves + 1

-----------------------------------------------------------------------------
(* What each page writes to its URL, and what it asks for.                 *)

Without(f, x) == [f EXCEPT ![x] = Blank]

ProblemsUrl(f) == IF member THEN f ELSE Without(f, "status")
ProblemsQuery(u) == [u EXCEPT !.filters = ProblemsUrl(@)]

\* "mine" is the scope that is set, "all" the one that is not.
SubmissionsUrl(f) == IF f["scope"] = Blank THEN f ELSE Without(f, "user")
SubmissionsQuery(u) == [u EXCEPT !.filters = SubmissionsUrl(@)]

AdminSubmissionsUrl(f) == f
AdminSubmissionsQuery(u) == u
AdminTagsQuery(u) == u
AdminProblemsQuery(u) == u

UrlOf(k, f) == CASE k = "problems" -> ProblemsUrl(f)
                 [] k = "submissions" -> SubmissionsUrl(f)
                 [] OTHER -> AdminSubmissionsUrl(f)
QueryOf(k, u) == CASE k = "problems" -> ProblemsQuery(u)
                   [] k = "submissions" -> SubmissionsQuery(u)
                   [] k = "adminSubmissions" -> AdminSubmissionsQuery(u)
                   [] k = "adminTags" -> AdminTagsQuery(u)
                   [] OTHER -> AdminProblemsQuery(u)

Load(q) ==
    /\ listSent' = listSent + 1
    /\ listRequests' = listRequests \cup {<<listSent', q>>}

ListInit ==
    /\ pageKind \in Kinds /\ member \in BOOLEAN
    /\ pageKind \notin {"problems", "contests"} => member
    /\ url \in QueriesOf(pageKind)
    /\ pageKind \notin UrlKinds => url = [filters |-> NoFilter, page |-> 1]
    /\ inputs = url.filters
    /\ listSent = 1 /\ listRequests = {<<1, QueryOf(pageKind, url)>>}
    /\ listed = None /\ changes = {}
    /\ listMoves = 0 /\ touched = FALSE /\ outdated = FALSE

-----------------------------------------------------------------------------
(* Pages with a URL.                                                       *)

Show(f) == inputs' = f /\ touched' = FALSE

\* Wrong variant: the effect that loads depends on the filters and not on the page.
GoKeepingRows(u, f) ==
    /\ url' = u
    /\ Show(IF u = url THEN f ELSE u.filters)
    /\ IF u.filters # url.filters
       THEN Load(QueryOf(pageKind, u)) /\ outdated' = FALSE
       ELSE UNCHANGED <<listSent, listRequests, outdated>>
    /\ UNCHANGED <<pageKind, member, listed, changes>>
\* setSearchParams: when the URL changes, one effect shows its filters and another one
\* loads; when it does not, the page shows the filters f that the handler has set.
Go(u, f) ==
    /\ url' = u
    /\ Show(IF u = url THEN f ELSE u.filters)
    /\ IF u # url THEN Load(QueryOf(pageKind, u)) /\ outdated' = FALSE
                  ELSE UNCHANGED <<listSent, listRequests, outdated>>
    /\ UNCHANGED <<pageKind, member, listed, changes>>

\* A link, or the browser's history.
FollowLink ==
    /\ pageKind \in UrlKinds \ {"adminTags"} /\ ListMove
    /\ \E u \in QueriesOf(pageKind) \ {url} : Go(u, u.filters)

Apply(f) == ListMove /\ Go([filters |-> UrlOf(pageKind, f), page |-> 1], f)
Turn(p) ==
    /\ p # url.page /\ ListMove
    /\ Go([filters |-> UrlOf(pageKind, url.filters), page |-> p], inputs)

Input(f) ==
    /\ f # inputs /\ ListMove
    /\ inputs' = f /\ touched' = TRUE
    /\ UNCHANGED <<pageKind, member, url, listRequests, listSent, listed, changes, outdated>>

\* ProblemListPage: the status can be chosen by who is logged in.
TypeProblemFilter ==
    /\ pageKind = "problems"
    /\ \E f \in FiltersOf(pageKind) : Input(f) /\ (~member => f["status"] = inputs["status"])
SearchProblems == pageKind = "problems" /\ Apply(inputs)
ResetProblems == pageKind = "problems" /\ Apply(NoFilter)
ApplyTag == pageKind = "problems" /\ Apply([inputs EXCEPT !["tag"] = Filled])
TurnProblems == pageKind = "problems" /\ \E p \in ListPages : Turn(p)

\* The list depends on the user: it is loaded again after a login or a logout, with the
\* status of the URL, which need not be the one that the page showed without a user.
UserChanges ==
    /\ pageKind = "problems" /\ ListMove
    /\ member' = ~member
    /\ Load([url EXCEPT !.filters = IF member' THEN @ ELSE Without(@, "status")])
    /\ outdated' = (member' /\ ~touched /\ inputs # url.filters)
    /\ UNCHANGED <<pageKind, url, inputs, listed, changes, touched>>

\* SubmissionsPage: the user is not an input of "mine", and a change of scope, or a
\* click on a user, applies all inputs.
TypeSubmissionFilter ==
    /\ pageKind = "submissions"
    /\ \E f \in FiltersOf(pageKind) :
           /\ Input(f) /\ f["scope"] = inputs["scope"]
           /\ f["scope"] # Blank => f["user"] = inputs["user"]
SearchSubmissions == pageKind = "submissions" /\ Apply(inputs)
ResetSubmissions == pageKind = "submissions" /\ Apply(NoFilter)
ChangeScope ==
    /\ pageKind = "submissions"
    /\ \E s \in {Filled, Blank} :
           Apply(LET f == [inputs EXCEPT !["scope"] = s]
                 IN IF s = Blank THEN f ELSE Without(f, "user"))
ClickUser ==
    /\ pageKind = "submissions"
    /\ Apply([inputs EXCEPT !["scope"] = Blank, !["user"] = Filled])
TurnSubmissions == pageKind = "submissions" /\ \E p \in ListPages : Turn(p)

\* AdminSubmissionsPage.
TypeAdminFilter == pageKind = "adminSubmissions" /\ \E f \in FiltersOf(pageKind) : Input(f)
SearchAdminSubmissions == pageKind = "adminSubmissions" /\ Apply(inputs)
ResetAdminSubmissions == pageKind = "adminSubmissions" /\ Apply(NoFilter)
TurnAdminSubmissions == pageKind = "adminSubmissions" /\ \E p \in ListPages : Turn(p)

\* AdminTagsPage: the input follows the keyword of the URL only when that changes.
GoTags(u, f) ==
    /\ pageKind = "adminTags" /\ ListMove
    /\ url' = u
    /\ IF u.filters # url.filters THEN Show(u.filters)
       ELSE inputs' = f /\ touched' = (touched /\ f # u.filters)
    /\ IF u # url THEN Load(AdminTagsQuery(u)) /\ outdated' = FALSE
                  ELSE UNCHANGED <<listSent, listRequests, outdated>>
    /\ UNCHANGED <<pageKind, member, listed, changes>>
TypeTagKeyword == pageKind = "adminTags" /\ \E f \in FiltersOf(pageKind) : Input(f)
SearchTags == GoTags([filters |-> inputs, page |-> 1], inputs)
ResetTags == GoTags([filters |-> NoFilter, page |-> 1], NoFilter)
TurnTags == \E p \in ListPages \ {url.page} : GoTags([url EXCEPT !.page = p], inputs)
LinkToTags == \E u \in QueriesOf("adminTags") \ {url} : GoTags(u, inputs)

\* AdminProblemListPage has pages only.
TurnAdminProblems == pageKind = "adminProblems" /\ \E p \in ListPages : Turn(p)

-----------------------------------------------------------------------------
(* Pages without a URL: load(page) asks with the inputs of the moment.     *)

\* data.page, of the latest answer.
DataPage == IF listed = None THEN 1 ELSE listed.page

LoadNow(q) ==
    /\ url' = q
    /\ Load(q) /\ outdated' = FALSE
    /\ UNCHANGED <<pageKind, member, listed, changes>>

FilterUsers ==
    /\ pageKind = "users" /\ ListMove
    /\ \E p \in ListPages : LoadNow([filters |-> inputs, page |-> p])
    /\ Show(inputs)
TypeUserFilter == pageKind = "users" /\ \E f \in FiltersOf(pageKind) : Input(f)
\* The inputs are emptied, but load still sees them as they were.
ResetUsers ==
    /\ pageKind = "users" /\ ListMove
    /\ url' = [filters |-> inputs, page |-> DataPage]
    /\ Load(url')
    /\ Show(NoFilter)
    /\ outdated' = (inputs # NoFilter)
    /\ UNCHANGED <<pageKind, member, listed, changes>>

FilterContests ==
    /\ pageKind = "contests" /\ ListMove
    /\ \E p \in ListPages : LoadNow([filters |-> inputs, page |-> p])
    /\ Show(inputs)
TypeContestFilter == pageKind = "contests" /\ \E f \in FiltersOf(pageKind) : Input(f)

FilterAdminContests ==
    /\ pageKind = "adminContests" /\ ListMove
    /\ \E p \in ListPages : LoadNow([filters |-> inputs, page |-> p])
    /\ Show(inputs)
TypeAdminContestKeyword == pageKind = "adminContests" /\ \E f \in FiltersOf(pageKind) : Input(f)

-----------------------------------------------------------------------------
(* Changes of a row, after which the page loads again with the filters and  *)
(* the page that its handler saw when the button was pressed.              *)

Change(k, q) ==
    /\ pageKind = k /\ ListMove
    /\ listed # None
    /\ changes' = changes \cup {q}
    /\ UNCHANGED <<pageKind, member, url, inputs, listRequests, listSent, listed, touched,
                   outdated>>

Rejudge == Change("adminSubmissions", AdminSubmissionsQuery(url))
RemoveTag == Change("adminTags", AdminTagsQuery(url))
RemoveProblem == Change("adminProblems", AdminProblemsQuery(url))
UpdateRole == Change("users", [filters |-> inputs, page |-> DataPage])
RemoveContest == Change("adminContests", [filters |-> inputs, page |-> DataPage])

\* What the page would ask for now.
Current == IF pageKind \in UrlKinds THEN QueryOf(pageKind, url)
           ELSE [filters |-> inputs, page |-> DataPage]

ChangeDone(q) ==
    /\ changes' = changes \ {q}
    /\ \/ Load(q) /\ outdated' = (q # Current)
       \/ UNCHANGED <<listSent, listRequests, outdated>>
    /\ UNCHANGED <<pageKind, member, url, inputs, listed, listMoves, touched>>

-----------------------------------------------------------------------------
(* Answers.                                                                *)

ListAnswers(r) ==
    /\ listRequests' = listRequests \ {r}
    /\ listed' = r[2]
    /\ outdated' = (outdated \/ \A s \in listRequests : s[1] # listSent)
    /\ UNCHANGED <<pageKind, member, url, inputs, listSent, changes, listMoves, touched>>

ListFails(r) ==
    /\ listRequests' = listRequests \ {r}
    /\ outdated' = (outdated \/ r[1] = listSent)
    /\ UNCHANGED <<pageKind, member, url, inputs, listSent, listed, changes, listMoves,
                   touched>>

PublicListStep ==
    \/ TypeProblemFilter \/ SearchProblems \/ ResetProblems \/ ApplyTag \/ TurnProblems
    \/ UserChanges
    \/ TypeSubmissionFilter \/ SearchSubmissions \/ ResetSubmissions \/ ChangeScope
    \/ ClickUser \/ TurnSubmissions
    \/ TypeContestFilter \/ FilterContests

AdminListStep ==
    \/ TypeAdminFilter \/ SearchAdminSubmissions \/ ResetAdminSubmissions
    \/ TurnAdminSubmissions \/ Rejudge
    \/ TypeTagKeyword \/ SearchTags \/ ResetTags \/ TurnTags \/ LinkToTags \/ RemoveTag
    \/ TurnAdminProblems \/ RemoveProblem
    \/ TypeUserFilter \/ FilterUsers \/ ResetUsers \/ UpdateRole
    \/ TypeAdminContestKeyword \/ FilterAdminContests \/ RemoveContest

ListNext ==
    \/ FollowLink \/ PublicListStep \/ AdminListStep
    \/ \E q \in changes : ChangeDone(q)
    \/ \E r \in listRequests : ListAnswers(r) \/ ListFails(r)

-----------------------------------------------------------------------------
\* The filters a page shows and lets the user change.
Enabled == CASE pageKind = "problems" -> ProblemsUrl(inputs)
             [] pageKind = "submissions" -> SubmissionsUrl(inputs)
             [] OTHER -> inputs

(* Once a list has settled, its rows answer the URL - page, filters, and the *)
(* user's rights to them - and, if no input was changed since, the filters   *)
(* on the screen; unless an answer was overtaken, the latest request failed, *)
(* or the page loaded with filters that are not those on the screen: a       *)
(* handler had captured them before they changed                             *)
(* (AdminSubmissionsPage.tsx:148, AdminUsersPage.tsx:132), or the user, and  *)
(* with them the status, came back after a search without one                *)
(* (ProblemListPage.tsx:245, :283).                                          *)
RowsFitTheFilters ==
    listRequests = {} /\ ~outdated =>
        /\ pageKind \in UrlKinds => listed = QueryOf(pageKind, url)
        /\ ~touched => listed.filters = Enabled
====
