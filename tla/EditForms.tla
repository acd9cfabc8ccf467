---- MODULE EditForms ----
(***************************************************************************)
(* The forms that create and change rows: tags in their table and in a     *)
(* dialog (AdminTagsPage.tsx), test cases in a dialog                      *)
(* (AdminTestCasesPage.tsx), problems and contests on pages of their own,  *)
(* filled by a request (AdminProblemFormPage.tsx, AdminContestFormPage.tsx)*)
(* and one's password in a drawer (ProfilePage.tsx).  A text is known by   *)
(* the row it began as; what the user types keeps it the text of that row. *)
(***************************************************************************)
EXTENDS ClientValues

CONSTANTS
    FormKinds,      \* forms to open
    Rows,           \* rows at first
    NewRows,        \* rows that may be created, numbers
    MaxFormMoves    \* bound: what the user does

ASSUME FormAssumption ==
    /\ FormKinds \subseteq {"tag", "newTag", "case", "page", "password"}
    /\ "New" \notin Rows \cup NewRows /\ Rows \cap NewRows = {}
    /\ None \notin Rows \cup NewRows \cup {"New"} /\ MaxFormMoves \in Nat

VARIABLES
    formKind,
    stored,         \* server: row -> the row whose text it has, None when there is no row
    subject,        \* row the form is open for, "New", or None when it is closed
    text,           \* row whose text the form holds
    saving,         \* the form shows that a save is under way: its row, or None
    saves,          \* saves under way
    removals,       \* deletions of tags under way: <<row, its editor was open>>
    fills,          \* requests of a page for the text of its row
    filled,         \* number of the latest of them
    formMoves,
    doubtful,       \* history: the fields of the page may not be its row's: the latest
                    \* request failed or was overtaken, or a page for a new row was
                    \* reached straight from that of a row, which leaves its fields
    hasty           \* history: such a page was saved, or one before its text had come

formVars == <<formKind, stored, subject, text, saving, saves, removals, fills, filled,
              formMoves, doubtful, hasty>>
fillVars == <<fills, filled, doubtful>>
AnyRow == Rows \cup NewRows
Subjects == AnyRow \cup {"New"}
SaveCalls == [n : Nat, row : Subjects, text : Subjects, done : BOOLEAN]

FormTypeOK ==
    /\ formKind \in FormKinds
    /\ stored \in [AnyRow -> Subjects \cup {None}]
    /\ subject \in Subjects \cup {None} /\ text \in Subjects
    /\ saving \in Subjects \cup {None} /\ saves \subseteq SaveCalls
    /\ removals \subseteq AnyRow \X BOOLEAN
    /\ fills \subseteq Nat \X Rows /\ filled \in Nat
    /\ formMoves \in 0 .. MaxFormMoves /\ doubtful \in BOOLEAN /\ hasty \in BOOLEAN

FormInit ==
    /\ formKind \in FormKinds
    /\ stored = [r \in AnyRow |-> IF r \in Rows THEN r ELSE None]
    /\ subject = None /\ text = "New" /\ saving = None
    /\ saves = {} /\ removals = {} /\ fills = {} /\ filled = 0
    /\ formMoves = 0 /\ doubtful = FALSE /\ hasty = FALSE

FormMove == formMoves < MaxFormMoves /\ formMoves' = formMoves + 1

Holds(s, x) == subject' = s /\ text' = x
CloseForm == Holds(None, "New")
Existing == {r \in AnyRow : stored[r] # None}

\* A save knows the row it is for when the button is pressed.
Save ==
    /\ subject # None /\ FormMove
    /\ saves' = saves \cup {[n |-> formMoves', row |-> subject, text |-> text, done |-> FALSE]}
    /\ UNCHANGED <<formKind, stored, subject, text, removals, fillVars>>

-----------------------------------------------------------------------------
(* A tag in the table: nothing but the two buttons of its row waits.       *)

StartTagEdit(r) ==
    /\ formKind = "tag" /\ r \in Existing /\ r # subject /\ FormMove
    /\ Holds(r, stored[r])
    /\ UNCHANGED <<formKind, stored, saving, saves, removals, fillVars, hasty>>

\* The button is disabled during the save of its row, the Escape key is not; a name
\* that was not changed is not saved either.
CancelTagEdit ==
    /\ formKind = "tag" /\ subject # None
    /\ CloseForm
    /\ UNCHANGED <<formKind, stored, saving, saves, removals, fillVars, formMoves, hasty>>

SaveTag ==
    /\ formKind = "tag"
    /\ Save
    /\ saving' = subject
    /\ UNCHANGED hasty

RemoveTagRow(r) ==
    /\ formKind = "tag" /\ r \in Existing /\ FormMove
    /\ removals' = removals \cup {<<r, subject = r>>}
    /\ UNCHANGED <<formKind, stored, subject, text, saving, saves, fillVars, hasty>>

\* An editor is closed if it was the row's when the button was pressed.
TagRemoved(d) ==
    /\ removals' = removals \ {d}
    /\ stored' = [stored EXCEPT ![d[1]] = None]
    /\ IF d[2] THEN CloseForm ELSE UNCHANGED <<subject, text>>
    /\ UNCHANGED <<formKind, saving, saves, fillVars, formMoves, hasty>>

RemovalFails(d) ==
    /\ removals' = removals \ {d}
    /\ UNCHANGED <<formKind, stored, subject, text, saving, saves, fillVars, formMoves, hasty>>

-----------------------------------------------------------------------------
(* Dialogs: a new tag, a test case, a password.  They can be closed at any  *)
(* time, also during a save.                                               *)

OpenDialog(s) ==
    /\ \/ formKind \in {"newTag", "password"} /\ s = "New"
       \/ formKind = "case" /\ s \in Existing \cup {"New"}
    /\ subject = None /\ FormMove
    /\ Holds(s, IF s = "New" THEN "New" ELSE stored[s])
    /\ UNCHANGED <<formKind, stored, saving, saves, removals, fillVars, hasty>>

CancelDialog ==
    /\ formKind \in {"newTag", "case", "password"} /\ subject # None
    /\ CloseForm
    /\ UNCHANGED <<formKind, stored, saving, saves, removals, fillVars, formMoves, hasty>>

\* The button shows that the save is under way.
SaveNewTag == formKind = "newTag" /\ saving = None /\ Save /\ saving' = subject /\ UNCHANGED hasty
ChangePassword ==
    formKind = "password" /\ saving = None /\ Save /\ saving' = subject /\ UNCHANGED hasty

\* The one of a test case does not.
SaveCase == formKind = "case" /\ Save /\ UNCHANGED <<saving, hasty>>

RemoveCase(r) ==
    /\ formKind = "case" /\ subject = None /\ r \in Existing /\ FormMove
    /\ stored' = [stored EXCEPT ![r] = None]
    /\ UNCHANGED <<formKind, subject, text, saving, saves, removals, fillVars, hasty>>

-----------------------------------------------------------------------------
(* Pages.  Those of two rows, or of a row and a new one, follow each other  *)
(* without a list between them when the user jumps in the history.         *)

\* Wrong variant: the effect runs when the page is mounted and not when its id changes.
FillOnce(r) ==
    IF subject = None THEN filled' = filled + 1 /\ fills' = {<<filled', r>>}
    ELSE UNCHANGED <<filled, fills>>
\* A page that opens, or whose id changes, asks for its row.
Fill(r) ==
    /\ filled' = filled + 1
    /\ fills' = fills \cup {<<filled', r>>}

\* A mounted page keeps its fields until the answer comes.
OpenRowPage(r) ==
    /\ formKind = "page" /\ r \in Rows /\ r # subject /\ FormMove
    /\ Holds(r, text)
    /\ Fill(r)
    /\ doubtful' = FALSE
    /\ UNCHANGED <<formKind, stored, saving, saves, removals, hasty>>

\* Only the fields with a default are set.
OpenNewPage ==
    /\ formKind = "page" /\ subject # "New" /\ FormMove
    /\ Holds("New", text)
    /\ doubtful' = (subject # None)
    /\ UNCHANGED <<formKind, stored, saving, saves, removals, fills, filled, hasty>>

LeavePage ==
    /\ formKind = "page" /\ subject # None
    /\ CloseForm
    /\ fills' = {} /\ doubtful' = FALSE
    /\ UNCHANGED <<formKind, stored, saving, saves, removals, filled, formMoves, hasty>>

\* setFieldsValue, whatever the page is for by now.
FillPage(f) ==
    /\ fills' = fills \ {f}
    /\ text' = stored[f[2]]
    /\ doubtful' = (doubtful \/ \A g \in fills : g[1] # filled)
    /\ UNCHANGED <<formKind, stored, subject, saving, saves, removals, filled, formMoves, hasty>>

FillFails(f) ==
    /\ fills' = fills \ {f}
    /\ doubtful' = (doubtful \/ f[1] = filled)
    /\ UNCHANGED <<formKind, stored, subject, text, saving, saves, removals, filled, formMoves,
                   hasty>>

\* onFinish: the row of the route is changed, whatever the fields hold.
SavePage ==
    /\ formKind = "page"
    /\ Save
    /\ hasty' = (hasty \/ doubtful \/ fills # {})
    /\ UNCHANGED saving

-----------------------------------------------------------------------------
(* The server, and its answers.                                            *)

WriteRow(c) ==
    /\ ~c.done
    /\ saves' = (saves \ {c}) \cup {[c EXCEPT !.done = TRUE]}
    /\ \/ c.row = "New" /\ formKind # "password" /\ \E r \in NewRows :
              stored[r] = None /\ stored' = [stored EXCEPT ![r] = c.text]
       \/ c.row = "New" /\ formKind = "password" /\ UNCHANGED stored
       \/ c.row # "New" /\ stored[c.row] # None /\ stored' = [stored EXCEPT ![c.row] = c.text]
    /\ UNCHANGED <<formKind, subject, text, saving, removals, fillVars, formMoves, hasty>>

\* The form is closed, or the page left for the list, whichever row it is for by now.
SaveReturns(c) ==
    /\ c.done
    /\ saves' = saves \ {c}
    /\ CloseForm
    /\ saving' = None /\ fills' = {} /\ doubtful' = FALSE
    /\ UNCHANGED <<formKind, stored, removals, filled, formMoves, hasty>>

SaveFails(c) ==
    /\ saves' = saves \ {c}
    /\ saving' = None
    /\ UNCHANGED <<formKind, stored, subject, text, removals, fillVars, formMoves, hasty>>

-----------------------------------------------------------------------------
TagStep ==
    \/ \E r \in AnyRow : StartTagEdit(r) \/ RemoveTagRow(r)
    \/ CancelTagEdit \/ SaveTag
    \/ \E d \in removals : TagRemoved(d) \/ RemovalFails(d)
DialogStep ==
    \/ \E s \in Subjects : OpenDialog(s)
    \/ CancelDialog \/ SaveNewTag \/ ChangePassword \/ SaveCase
    \/ \E r \in AnyRow : RemoveCase(r)
PageStep ==
    \/ \E r \in Rows : OpenRowPage(r)
    \/ OpenNewPage \/ LeavePage \/ SavePage
    \/ \E f \in fills : FillPage(f) \/ FillFails(f)

FormNext ==
    \/ TagStep \/ DialogStep \/ PageStep
    \/ \E c \in saves : WriteRow(c) \/ SaveReturns(c) \/ SaveFails(c)

FormSpec == FormInit /\ [][FormNext]_formVars

-----------------------------------------------------------------------------
(* No form stores the text of one row in another, whatever is opened, saved  *)
(* and answered in whatever order, unless a page is saved with fields that   *)
(* are not, or not yet, those of its row: onFinish (AdminProblemFormPage.tsx *)
(* :47, AdminContestFormPage.tsx:117) does not look whether they have come.  *)
RowsKeepTheirText ==
    hasty \/ /\ \A r \in Rows : stored[r] \in {r, None}
             /\ \A r \in NewRows : stored[r] \in {"New", None}
====
