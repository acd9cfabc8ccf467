---- MODULE ProblemDrawer ----
(***************************************************************************)
(* The drawer of ProblemDetailPage.tsx: a list of problems that grows when *)
(* the user scrolls and begins anew, after a delay, when a filter changes. *)
(* The server counts the problems and then reads the page, and the         *)
(* catalogue may change before, between and after; answers come in any     *)
(* order and are all used.                                                 *)
(***************************************************************************)
EXTENDS ClientValues, Sequences, SequencesExt

CONSTANTS
    Catalogue,      \* ids of the problems there are at first
    NewProblems,    \* ids of those an administrator may add
    Filters, AllProblems,   \* keyword and difficulty, and the empty filter
    Matches,        \* filter -> ids that match it
    DrawerPageSize,
    MaxResets,      \* bound: lists begun anew
    MaxEdits        \* bound: problems added or deleted

ASSUME DrawerAssumption ==
    /\ Catalogue \cup NewProblems \subseteq Nat
    /\ IsFiniteSet(Catalogue \cup NewProblems)
    /\ AllProblems \in Filters /\ DrawerPageSize \in Nat \ {0}
    /\ MaxResets \in Nat /\ MaxEdits \in Nat

VARIABLES
    catalogue,
    drawerOpen, filter,
    resetTimer,     \* the timer that will begin the list anew is set
    items,          \* the list
    page, hasMore, loading, loadingMore,
    drawerAsked,    \* requests under way
    resets,         \* lists begun anew so far
    origin,         \* history: number of the list that items belongs to
    mixed,          \* history: items is not of one list, of the latest, or of one catalogue
    edits           \* history: changes of the catalogue so far

drawerVars == <<catalogue, drawerOpen, filter, resetTimer, items, page, hasMore, loading,
                loadingMore, drawerAsked, resets, origin, mixed, edits>>
viewVars == <<items, page, hasMore, origin, mixed>>

\* The answer, as far as the server has come with it: after which edit it counted, the
\* number it counted, and the page it read.
Request ==
    [reset : BOOLEAN, list : 0 .. MaxResets, filter : Filters, page : Nat,
     step : {"count", "find", "answer"}, seen : 0 .. MaxEdits, total : Nat,
     rows : Seq(Catalogue \cup NewProblems)]

DrawerTypeOK ==
    /\ catalogue \subseteq Catalogue \cup NewProblems
    /\ drawerOpen \in BOOLEAN /\ filter \in Filters /\ resetTimer \in BOOLEAN
    /\ items \in Seq(Catalogue \cup NewProblems) /\ page \in Nat
    /\ hasMore \in BOOLEAN /\ loading \in BOOLEAN /\ loadingMore \in BOOLEAN
    /\ drawerAsked \subseteq Request
    /\ resets \in 0 .. MaxResets /\ origin \in 0 .. MaxResets /\ mixed \in BOOLEAN
    /\ edits \in 0 .. MaxEdits

DrawerInit ==
    /\ catalogue = Catalogue
    /\ drawerOpen = FALSE /\ filter = AllProblems /\ resetTimer = FALSE
    /\ items = <<>> /\ page = 1 /\ hasMore = TRUE
    /\ loading = FALSE /\ loadingMore = FALSE
    /\ drawerAsked = {} /\ resets = 0 /\ origin = 0 /\ mixed = FALSE
    /\ edits = 0

-----------------------------------------------------------------------------
(* The server: GET /problems, by falling id.                               *)

\* The numbers of S from the greatest to the least.
Falling(S) ==
    CHOOSE s \in [1 .. Cardinality(S) -> S] :
        /\ \A n \in S : \E i \in 1 .. Cardinality(S) : s[i] = n
        /\ \A i, j \in 1 .. Cardinality(S) : i < j => s[i] > s[j]

Found(f) == Falling(catalogue \cap Matches[f])
PageOfFound(f, n) ==
    LET found == Found(f)
        first == (n - 1) * DrawerPageSize + 1
    IN SubSeq(found, first, IF n * DrawerPageSize < Len(found) THEN n * DrawerPageSize ELSE Len(found))

Becomes(r, s) ==
    /\ drawerAsked' = (drawerAsked \ {r}) \cup {s}
    /\ UNCHANGED <<catalogue, drawerOpen, filter, resetTimer, items, page, hasMore, loading,
                   loadingMore, resets, origin, mixed, edits>>

CountProblems(r) ==
    /\ r.step = "count"
    /\ Becomes(r, [r EXCEPT !.step = "find", !.seen = edits, !.total = Len(Found(r.filter))])

FindProblems(r) ==
    /\ r.step = "find"
    /\ Becomes(r, [r EXCEPT !.step = "answer", !.rows = PageOfFound(r.filter, r.page)])

EditCatalogue ==
    /\ edits < MaxEdits /\ edits' = edits + 1
    /\ \/ \E n \in NewProblems \ catalogue : catalogue' = catalogue \cup {n}
       \/ \E n \in catalogue : catalogue' = catalogue \ {n}
    /\ mixed' = TRUE
    /\ UNCHANGED <<drawerOpen, filter, resetTimer, items, page, hasMore, loading,
                   loadingMore, drawerAsked, resets, origin>>

-----------------------------------------------------------------------------
(* The drawer.                                                             *)

NewRequest(reset, list, n) ==
    [reset |-> reset, list |-> list, filter |-> filter, page |-> n,
     step |-> "count", seen |-> 0, total |-> 0, rows |-> <<>>]

ToggleDrawer ==
    /\ drawerOpen' = ~drawerOpen
    /\ resetTimer' = drawerOpen'
    /\ UNCHANGED <<catalogue, filter, viewVars, loading, loadingMore, drawerAsked, resets, edits>>

ChangeFilter(f) ==
    /\ drawerOpen /\ f # filter
    /\ filter' = f
    /\ resetTimer' = TRUE
    /\ UNCHANGED <<catalogue, drawerOpen, viewVars, loading, loadingMore, drawerAsked, resets, edits>>

\* loadProblemList(true), 240 ms after the latest change.
LoadReset ==
    /\ resetTimer /\ resetTimer' = FALSE
    /\ resets < MaxResets /\ resets' = resets + 1
    /\ loading' = TRUE /\ hasMore' = TRUE
    /\ drawerAsked' = drawerAsked \cup {NewRequest(TRUE, resets', 1)}
    /\ UNCHANGED <<catalogue, drawerOpen, filter, items, page, loadingMore, origin, mixed, edits>>

\* loadProblemList(false), when the user scrolls to the end; an empty list does not scroll.
LoadMore ==
    /\ items # <<>>
    /\ drawerOpen /\ hasMore /\ ~loading /\ ~loadingMore
    /\ loadingMore' = TRUE
    /\ drawerAsked' = drawerAsked \cup {NewRequest(FALSE, origin, page + 1)}
    /\ UNCHANGED <<catalogue, drawerOpen, filter, resetTimer, viewVars, loading, resets, edits>>

\* Wrong variant: the new page is appended as it is.
AppendAll(more) == items \o more
\* A page is in falling order, and so is what is left of it without the known ids.
AppendNew(more) == items \o Falling(ToSet(more) \ ToSet(items))

Finish(r) ==
    /\ drawerAsked' = drawerAsked \ {r}
    /\ IF r.reset THEN loading' = FALSE /\ UNCHANGED loadingMore
                  ELSE loadingMore' = FALSE /\ UNCHANGED loading

DrawerAnswers(r) ==
    /\ r.step = "answer"
    /\ page' = r.page
    /\ hasMore' = (r.page * DrawerPageSize < r.total)
    /\ items' = IF r.reset THEN r.rows ELSE AppendNew(r.rows)
    /\ origin' = IF r.reset THEN r.list ELSE origin
    /\ mixed' = \/ r.seen # edits
                \/ IF r.reset THEN r.list # resets
                   ELSE mixed \/ r.list # origin \/ r.page # page + 1 \/ r.filter # filter
    /\ Finish(r)
    /\ UNCHANGED <<catalogue, drawerOpen, filter, resetTimer, resets, edits>>

DrawerFails(r) ==
    /\ mixed' = (mixed \/ (r.reset /\ r.list = resets))
    /\ Finish(r)
    /\ UNCHANGED <<catalogue, drawerOpen, filter, resetTimer, items, page, hasMore, resets,
                   origin, edits>>

DrawerNext ==
    \/ ToggleDrawer \/ \E f \in Filters : ChangeFilter(f)
    \/ LoadReset \/ LoadMore
    \/ \E r \in drawerAsked : CountProblems(r) \/ FindProblems(r)
    \/ \E r \in drawerAsked : DrawerAnswers(r) \/ DrawerFails(r)
    \/ EditCatalogue

-----------------------------------------------------------------------------
\* "已经到底啦": the list claims to be complete.
AtTheEnd == items # <<>> /\ ~loading /\ ~loadingMore /\ ~hasMore

(* No problem is listed twice, whatever answers cross and whatever is added *)
(* or deleted meanwhile; and a list that says it has come to its end        *)
(* (ProblemDetailPage.tsx:722) holds every problem that matches the filter, *)
(* unless answers of two lists were mixed or the catalogue changed since    *)
(* one of its pages was counted.                                            *)
DrawerListIsRight ==
    /\ Cardinality(ToSet(items)) = Len(items)
    /\ drawerOpen /\ ~resetTimer /\ drawerAsked = {} /\ AtTheEnd /\ ~mixed =>
           ToSet(items) = catalogue \cap Matches[filter]
====
