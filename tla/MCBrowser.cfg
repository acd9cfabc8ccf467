\* Two tabs of one browser or of two, two problems and a contest problem each; every
\* part of the client takes a few moves of its user, and polling a failed request.
CONSTANTS
    None = None
    Blank = blank
    t1 = t1
    t2 = t2
    b1 = b1
    b2 = b2
    s1 = s1
    s2 = s2
    l1 = l1
    l2 = l2
    all = all
    hard = hard
    Languages = {cpp, py}
    Tabs = {t1, t2}
    Problems = {1, 2}
    Contests = {1}
    Cpp = cpp
    Texts = {x}
    MaxMoves = 3
    Endpoints = {e1, e2}
    Lines = {x}
    Watched = {s1, s2}
    Lists = {l1, l2}
    ListOf <- MCListOf
    PageOf <- MCPageOf
    MaxAsked = 2
    MaxFailed = 1
    Catalogue = {1, 2, 3}
    NewProblems = {5}
    Filters = {all, hard}
    AllProblems = all
    Matches <- MCMatches
    DrawerPageSize = 1
    MaxResets = 2
    MaxEdits = 1
    Kinds = {"problems", "submissions", "adminSubmissions", "adminTags", "adminProblems", "users", "adminContests", "contests"}
    Filled = filled
    ListPages = {1, 2}
    MaxListMoves = 2
    FormKinds = {"tag", "newTag", "case", "page", "password"}
    Rows = {r1, r2}
    NewRows = {r3}
    MaxFormMoves = 4
    Windows = {t1, t2}
    Browsers = {b1, b2}
    Homes <- MCHomes
    Accounts = {a1, a2}
    Seeded = a1
    MaxActs = 2
    MaxProfileMoves = 3
    Shown = {1, 2}
    MaxContestMoves = 2
    Solvable = {p1}
    Window = 4
    Recent = 2
    MaxPerDay = 2
SPECIFICATION BrowserSpec
INVARIANTS BrowserTypeOK QuietMeansSaved StatementIsOfTheRoute ResultFitsTheFields DrawerListIsRight RowsFitTheFilters ScreenIsTheTokens AnAdminRemains ShownProfileIsSaved RowsKeepTheirText ContestIsTheRoutes ColoursTellActivity
PROPERTIES KeepsDrafts VerdictsAreShown
\* What users do is bounded.
CHECK_DEADLOCK FALSE
