---- MODULE CatalogProofs ----
(***************************************************************************)
(* Proofs about Catalog, for any problems, slugs, imports, servers and     *)
(* requests and whatever the bounds are.                                   *)
(***************************************************************************)
EXTENDS Catalog, FiniteSetTheorems, TLAPS

----------------------------------------------------------------------------
(* Types.                                                                  *)

RowsOK ==
    /\ rows \in [Ids -> Row \cup {None}]
    /\ \A i, j \in Ids : (Exists(i) /\ Exists(j) /\ rows[i].slug = rows[j].slug) => i = j
Places == {"down", "failed", "up", "admin", "create admin", "sample", "tag", "create tag",
           "create sample"}
ImportStates ==
    [pc : {"next"}, todo : SUBSET Names] \cup [pc : {"failed"}]
    \cup [pc : {"save"}, todo : SUBSET Names, name : Names,
          id : Ids \cup {None}, row : Row \cup {None}, tag : BOOLEAN]
UpdateStates == [pc : {"new", "done"}] \cup [pc : {"write"}, id : Ids, row : Row]
SubmitStates == [pc : {"new", "done"}] \cup [pc : {"insert", "count"}, id : Ids]
\* Everybody's progress, the counters and the histories.
ProgressOK ==
    /\ submissions \in [Ids -> Nat]
    /\ admin \in BOOLEAN /\ tag \in BOOLEAN
    /\ server \in [Servers -> Places]
    /\ import \in [Importers -> ImportStates]
    /\ update \in [Updates -> UpdateStates]
    /\ submit \in [Submits -> SubmitStates]
    /\ missed \subseteq Ids /\ overlapped \subseteq Ids
    /\ changes \in 0 .. MaxChanges /\ faults \in 0 .. MaxFaults

LEMMA TypesAre == TypeOK <=> RowsOK /\ ProgressOK /\ disturbed \subseteq Servers \cup Importers
BY DEF TypeOK, RowsOK, ProgressOK, Places, ImportStates, UpdateStates, SubmitStates

\* The row of a problem is written, and no other problem has its slug.
RowMove ==
    \E i \in Ids, row \in Row : SetRow(i, row) /\ Owners(row.slug) \subseteq {i}

LEMMA RowMoves == ASSUME RowsOK, RowMove \/ UNCHANGED rows PROVE RowsOK'
<1>1. CASE UNCHANGED rows BY <1>1 DEF RowsOK, Exists
<1>2. CASE RowMove
  <2>1. PICK i \in Ids, row \in Row : SetRow(i, row) /\ Owners(row.slug) \subseteq {i}
    BY <1>2 DEF RowMove
  <2>2. rows' = [rows EXCEPT ![i] = row] BY <2>1 DEF SetRow
  <2>3. rows' \in [Ids -> Row \cup {None}] BY <2>2 DEF RowsOK
  <2>4. ASSUME NEW j \in Ids, NEW k \in Ids, rows'[j] # None, rows'[k] # None,
               rows'[j].slug = rows'[k].slug
        PROVE  j = k
    <3>1. \A l \in Ids : l # i => rows'[l] = rows[l] BY <2>2 DEF RowsOK
    <3>2. rows'[i] = row BY <2>2 DEF RowsOK
    <3>3. \A l \in Ids : l # i /\ rows[l] # None => rows[l].slug # row.slug
      BY <2>1 DEF Owners, Exists
    <3>4. CASE j # i /\ k # i BY <2>4, <3>1, <3>4 DEF RowsOK, Exists
    <3>5. CASE j = i /\ k # i BY <2>4, <3>1, <3>2, <3>3, <3>5
    <3>6. CASE j # i /\ k = i BY <2>4, <3>1, <3>2, <3>3, <3>6
    <3> QED BY <3>4, <3>5, <3>6
  <2> QED BY <2>3, <2>4 DEF RowsOK, Exists
<1> QED BY <1>1, <1>2

LEMMA InsertMoves == ASSUME NEW slug \in Slugs, Insert(slug) PROVE RowMove
<1>1. PICK i \in Ids : SetRow(i, [slug |-> slug, deleted |-> FALSE, submits |-> 0])
  BY DEF Insert
<1>2. [slug |-> slug, deleted |-> FALSE, submits |-> 0] \in Row BY DEF Row
<1> QED BY <1>1, <1>2 DEF Insert, RowMove

LEMMA TypeInit == Init => TypeOK
<1> SUFFICES ASSUME Init PROVE TypeOK OBVIOUS
<1>1. RowsOK BY DEF Init, RowsOK, Exists
<1>2. ProgressOK
  <2>1. server \in [Servers -> Places] BY DEF Init, Places
  <2>2. import \in [Importers -> ImportStates] BY CatalogAssumption DEF Init, ImportStates
  <2>3. /\ update \in [Updates -> UpdateStates]
        /\ submit \in [Submits -> SubmitStates]
    BY DEF Init, UpdateStates, SubmitStates
  <2>4. changes \in 0 .. MaxChanges /\ faults \in 0 .. MaxFaults BY CatalogAssumption DEF Init
  <2> QED BY <2>1, <2>2, <2>3, <2>4 DEF Init, ProgressOK
<1> QED BY <1>1, <1>2, TypesAre DEF Init

\* Administrators.
AdminStep ==
    \/ \E slug \in Slugs : CreateProblem(slug) \/ \E e \in Updates : UpdateProblem(e, slug)
    \/ \E i \in Ids : DeleteProblem(i) \/ \E e \in Updates : ReadToUpdate(e, i)
    \/ \E e \in Updates : UpdateFails(e)
    \/ ChangeTag
SubmitStep ==
    \E r \in Submits : \/ \E i \in Ids : ReadToSubmit(r, i)
                       \/ InsertSubmission(r) \/ CountSubmission(r) \/ CountFails(r)
ImportStep ==
    \E m \in Importers : \/ \E name \in Names : LookUp(m, name)
                         \/ SaveProblem(m) \/ ImportCollides(m) \/ ImportFails(m) \/ StartImport(m)
ServerStep ==
    \E v \in Servers : \/ Start(v) \/ FindAdmin(v) \/ CreateAdmin(v) \/ CountSample(v)
                       \/ FindTag(v) \/ CreateTag(v) \/ CreateSample(v) \/ ServerStops(v)

LEMMA StepIs == Step <=> AdminStep \/ SubmitStep \/ ImportStep \/ ServerStep
BY DEF Step, AdminStep, SubmitStep, ImportStep, ServerStep

LEMMA BoundsType == ASSUME ProgressOK, Change \/ Fault \/ Fine
                    PROVE  changes' \in 0 .. MaxChanges /\ faults' \in 0 .. MaxFaults
<1>1. changes \in 0 .. MaxChanges /\ faults \in 0 .. MaxFaults BY DEF ProgressOK
<1>2. MaxChanges \in Nat /\ MaxFaults \in Nat BY CatalogAssumption
<1>3. CASE Change BY <1>1, <1>2, <1>3 DEF Change
<1>4. CASE Fault BY <1>1, <1>2, <1>4 DEF Fault
<1>5. CASE Fine BY <1>1, <1>5 DEF Fine, bounds
<1> QED BY <1>3, <1>4, <1>5

LEMMA LiveRow == ASSUME RowsOK, NEW i \in Ids, Exists(i)
                 PROVE  rows[i] \in Row /\ Owners(rows[i].slug) \subseteq {i}
BY DEF RowsOK, Exists, Owners

LEMMA AdminType == ASSUME RowsOK, ProgressOK, AdminStep PROVE RowsOK' /\ ProgressOK'
<1> USE DEF database, history
<1>1. ASSUME NEW slug \in Slugs, CreateProblem(slug) PROVE RowsOK' /\ ProgressOK'
  <2>1. RowsOK' BY <1>1, InsertMoves, RowMoves DEF CreateProblem
  <2>2. ProgressOK' BY <1>1, BoundsType DEF CreateProblem, Tagged, ProgressOK
  <2> QED BY <2>1, <2>2
<1>2. ASSUME NEW slug \in Slugs, NEW e \in Updates, UpdateProblem(e, slug)
      PROVE  RowsOK' /\ ProgressOK'
  <2>1. update[e] \in [pc : {"write"}, id : Ids, row : Row]
    BY <1>2 DEF UpdateProblem, ProgressOK, UpdateStates
  <2>2. PICK i \in Ids : i = update[e].id BY <2>1
  <2>3. RowMove \/ UNCHANGED rows
    <3>1. CASE ~Live(i) BY <1>2, <2>2, <3>1 DEF UpdateProblem
    <3>2. CASE Live(i)
      <4>1. rows[i] \in Row BY <3>2, LiveRow DEF Live
      <4>2. PICK row : row = [rows[i] EXCEPT !.slug = slug] OBVIOUS
      <4>3. row \in Row /\ row.slug = slug BY <4>1, <4>2 DEF Row
      <4>4. SetRow(i, row) /\ Owners(slug) \subseteq {i} BY <1>2, <2>2, <3>2, <4>2 DEF UpdateProblem
      <4> QED BY <4>3, <4>4 DEF RowMove
    <3> QED BY <3>1, <3>2
  <2>4. RowsOK' BY <2>3, RowMoves
  <2>5. update' \in [Updates -> UpdateStates]
    BY <1>2 DEF UpdateProblem, EndUpdate, ProgressOK, UpdateStates
  <2>6. ProgressOK' BY <1>2, <2>5, BoundsType DEF UpdateProblem, Tagged, ProgressOK
  <2> QED BY <2>4, <2>6
<1>3. ASSUME NEW i \in Ids, DeleteProblem(i) PROVE RowsOK' /\ ProgressOK'
  <2>1. rows[i] \in Row /\ Owners(rows[i].slug) \subseteq {i}
    BY <1>3, LiveRow DEF DeleteProblem, Live
  <2>2. PICK row : row = [rows[i] EXCEPT !.deleted = TRUE] OBVIOUS
  <2>3. row \in Row /\ row.slug = rows[i].slug BY <2>1, <2>2 DEF Row
  <2>4. RowMove BY <1>3, <2>1, <2>2, <2>3 DEF DeleteProblem, RowMove
  <2>5. ProgressOK' BY <1>3, BoundsType DEF DeleteProblem, ProgressOK
  <2> QED BY <2>4, <2>5, RowMoves
<1>4. ASSUME NEW i \in Ids, NEW e \in Updates, ReadToUpdate(e, i) PROVE RowsOK' /\ ProgressOK'
  <2>1. rows[i] \in Row BY <1>4, LiveRow DEF ReadToUpdate, Live
  <2>2. [pc |-> "write", id |-> i, row |-> rows[i]] \in UpdateStates BY <2>1 DEF UpdateStates
  <2>3. update' \in [Updates -> UpdateStates] BY <1>4, <2>2 DEF ReadToUpdate, ProgressOK
  <2>4. ProgressOK' BY <1>4, <2>3, BoundsType DEF ReadToUpdate, ProgressOK
  <2> QED BY <1>4, <2>4, RowMoves DEF ReadToUpdate
<1>5. ASSUME NEW e \in Updates, UpdateFails(e) PROVE RowsOK' /\ ProgressOK'
  <2>1. update' \in [Updates -> UpdateStates]
    BY <1>5 DEF UpdateFails, EndUpdate, ProgressOK, UpdateStates
  <2>2. ProgressOK' BY <1>5, <2>1, BoundsType DEF UpdateFails, ProgressOK
  <2> QED BY <1>5, <2>2, RowMoves DEF UpdateFails
<1>6. CASE ChangeTag
  <2>1. ProgressOK' BY <1>6, BoundsType DEF ChangeTag, ProgressOK
  <2> QED BY <1>6, <2>1, RowMoves DEF ChangeTag
<1> QED BY <1>1, <1>2, <1>3, <1>4, <1>5, <1>6 DEF AdminStep

LEMMA SubmitType == ASSUME RowsOK, ProgressOK, SubmitStep PROVE RowsOK' /\ ProgressOK'
<1> USE DEF database, history
<1>1. ASSUME NEW r \in Submits, NEW i \in Ids, ReadToSubmit(r, i) PROVE RowsOK' /\ ProgressOK'
  <2>1. [pc |-> "insert", id |-> i] \in SubmitStates BY DEF SubmitStates
  <2>2. submit' \in [Submits -> SubmitStates] BY <1>1, <2>1 DEF ReadToSubmit, ProgressOK
  <2>3. ProgressOK' BY <1>1, <2>2, BoundsType DEF ReadToSubmit, ProgressOK
  <2> QED BY <1>1, <2>3, RowMoves DEF ReadToSubmit
<1>2. ASSUME NEW r \in Submits, InsertSubmission(r) PROVE RowsOK' /\ ProgressOK'
  <2>1. submit[r] \in [pc : {"insert", "count"}, id : Ids]
    BY <1>2 DEF InsertSubmission, ProgressOK, SubmitStates
  <2>2. PICK new : new = [submit[r] EXCEPT !.pc = "count"] OBVIOUS
  <2>3. new \in SubmitStates BY <2>1, <2>2 DEF SubmitStates
  <2>4. submit' = [submit EXCEPT ![r] = new] BY <1>2, <2>2 DEF InsertSubmission
  <2>5. submit' \in [Submits -> SubmitStates] BY <2>3, <2>4 DEF ProgressOK
  <2>6. submissions' \in [Ids -> Nat] BY <1>2, <2>1 DEF InsertSubmission, ProgressOK
  <2>7. ProgressOK' BY <1>2, <2>5, <2>6, BoundsType DEF InsertSubmission, ProgressOK
  <2> QED BY <1>2, <2>7, RowMoves DEF InsertSubmission
<1>3. ASSUME NEW r \in Submits, CountSubmission(r) PROVE RowsOK' /\ ProgressOK'
  <2>1. submit[r] \in [pc : {"insert", "count"}, id : Ids]
    BY <1>3 DEF CountSubmission, ProgressOK, SubmitStates
  <2>2. PICK i \in Ids : i = submit[r].id BY <2>1
  <2>3. RowMove \/ UNCHANGED rows
    <3>1. CASE ~Live(i) BY <1>3, <2>2, <3>1 DEF CountSubmission
    <3>2. CASE Live(i)
      <4>1. rows[i] \in Row /\ Owners(rows[i].slug) \subseteq {i} BY <3>2, LiveRow DEF Live
      <4>2. PICK row : row = [rows[i] EXCEPT !.submits = @ + 1] OBVIOUS
      <4>3. row \in Row /\ row.slug = rows[i].slug BY <4>1, <4>2 DEF Row
      <4>4. SetRow(i, row) BY <1>3, <2>2, <3>2, <4>2 DEF CountSubmission
      <4> QED BY <4>1, <4>3, <4>4 DEF RowMove
    <3> QED BY <3>1, <3>2
  <2>4. submit' \in [Submits -> SubmitStates]
    BY <1>3 DEF CountSubmission, ProgressOK, SubmitStates
  <2>5. missed' \subseteq Ids /\ overlapped' \subseteq Ids
    BY <1>3, <2>2 DEF CountSubmission, ProgressOK
  <2>6. ProgressOK' BY <1>3, <2>4, <2>5, BoundsType DEF CountSubmission, ProgressOK
  <2> QED BY <2>3, <2>6, RowMoves
<1>4. ASSUME NEW r \in Submits, CountFails(r) PROVE RowsOK' /\ ProgressOK'
  <2>1. submit[r].id \in Ids BY <1>4 DEF CountFails, ProgressOK, SubmitStates
  <2>2. submit' \in [Submits -> SubmitStates] BY <1>4 DEF CountFails, ProgressOK, SubmitStates
  <2>3. ProgressOK' BY <1>4, <2>1, <2>2, BoundsType DEF CountFails, ProgressOK
  <2> QED BY <1>4, <2>3, RowMoves DEF CountFails
<1> QED BY <1>1, <1>2, <1>3, <1>4 DEF SubmitStep

\* A problem that an import has read is there, and was counted since, if at all, in overlapped.
ReadInv(m) ==
    LET s == import[m]
    IN  s.pc = "save" /\ s.id # None =>
            /\ Exists(s.id) /\ s.row # None
            /\ s.id \notin overlapped => s.row.submits = rows[s.id].submits

LEMMA ImportType ==
    ASSUME RowsOK, ProgressOK, \A m \in Importers : ReadInv(m), ImportStep
    PROVE  RowsOK' /\ ProgressOK'
<1> USE DEF database, history
<1>1. ASSUME NEW m \in Importers, NEW name \in Names, LookUp(m, name)
      PROVE  RowsOK' /\ ProgressOK'
  <2>1. PICK id \in Ids \cup {None} : Found(m, name, id) /\ (id # None => id \in Owners(name))
    BY <1>1 DEF LookUp, Owners
  <2>2. PICK row : row = IF id = None THEN None ELSE rows[id] OBVIOUS
  <2>3. row \in Row \cup {None} BY <2>1, <2>2 DEF RowsOK
  <2>4. import[m].todo \in SUBSET Names /\ tag \in BOOLEAN
    BY <2>1 DEF Found, ProgressOK, ImportStates
  <2>5. PICK new : new = [pc |-> "save", todo |-> import[m].todo, name |-> name, id |-> id,
                          row |-> row, tag |-> tag]
    OBVIOUS
  <2>6. new \in ImportStates BY <2>3, <2>4, <2>5 DEF ImportStates
  <2>7. import' = [import EXCEPT ![m] = new] BY <2>1, <2>2, <2>5 DEF Found, SetImport
  <2>8. import' \in [Importers -> ImportStates] BY <2>6, <2>7 DEF ProgressOK
  <2>9. ProgressOK' BY <2>1, <2>8, BoundsType DEF Found, ProgressOK
  <2> QED BY <2>1, <2>9, RowMoves DEF Found
<1>2. ASSUME NEW m \in Importers, SaveProblem(m) PROVE RowsOK' /\ ProgressOK'
  <2>1. PICK s : s = import[m] OBVIOUS
  <2>2. /\ s.todo \in SUBSET Names /\ s.name \in Names /\ s.id \in Ids \cup {None}
        /\ s.row \in Row \cup {None}
    BY <1>2, <2>1 DEF SaveProblem, ProgressOK, ImportStates
  <2> DEFINE slug == Trim[s.name]
  <2>9. slug \in Slugs BY <2>2, CatalogAssumption
  <2>3. [pc |-> "next", todo |-> s.todo \ {s.name}] \in ImportStates BY <2>2 DEF ImportStates
  <2>4. import' = [import EXCEPT ![m] = [pc |-> "next", todo |-> s.todo \ {s.name}]]
    BY <1>2, <2>1 DEF SaveProblem, SetImport
  <2>5. import' \in [Importers -> ImportStates] BY <2>3, <2>4 DEF ProgressOK
  <2>6. ProgressOK' BY <1>2, <2>5, BoundsType DEF SaveProblem, ProgressOK
  <2>7. CASE s.id = None BY <1>2, <2>1, <2>6, <2>7, <2>9, InsertMoves, RowMoves DEF SaveProblem
  <2>8. CASE s.id # None
    <3>1. PICK row : row = [s.row EXCEPT !.slug = slug, !.deleted = FALSE] OBVIOUS
    <3>2. SetRow(s.id, row) /\ Owners(slug) \subseteq {s.id}
      BY <1>2, <2>1, <2>8, <3>1 DEF SaveProblem, Collides
    <3>3. row \in Row /\ row.slug = slug
      <4>1. s.row \in Row BY <1>2, <2>1, <2>2, <2>8 DEF SaveProblem, ReadInv
      <4> QED BY <2>9, <3>1, <4>1 DEF Row
    <3>4. RowMove BY <2>2, <2>8, <3>2, <3>3 DEF RowMove
    <3> QED BY <2>6, <3>4, RowMoves
  <2> QED BY <2>7, <2>8
<1>3. ASSUME NEW m \in Importers, ImportCollides(m) \/ ImportFails(m) \/ StartImport(m)
      PROVE  RowsOK' /\ ProgressOK'
  <2>1. import' \in [Importers -> ImportStates]
    BY <1>3, CatalogAssumption
       DEF ImportCollides, ImportFails, StartImport, FailImport, SetImport, ProgressOK, ImportStates
  <2>2. ProgressOK'
    BY <1>3, <2>1, BoundsType DEF ImportCollides, ImportFails, StartImport, ProgressOK
  <2> QED BY <1>3, <2>2, RowMoves DEF ImportCollides, ImportFails, StartImport
<1> QED BY <1>1, <1>2, <1>3 DEF ImportStep

LEMMA ServerType == ASSUME RowsOK, ProgressOK, ServerStep PROVE RowsOK' /\ ProgressOK'
<1> USE DEF database, history
<1> PICK v \in Servers : \/ Start(v) \/ FindAdmin(v) \/ CreateAdmin(v) \/ CountSample(v)
                         \/ FindTag(v) \/ CreateTag(v) \/ CreateSample(v) \/ ServerStops(v)
  BY DEF ServerStep
<1>1. CASE Start(v) \/ FindAdmin(v) \/ CountSample(v) \/ FindTag(v) \/ ServerStops(v)
  <2>1. server' \in [Servers -> Places]
    BY <1>1 DEF Start, FindAdmin, CountSample, FindTag, ServerStops, ServerGoto, ProgressOK, Places
  <2>2. ProgressOK'
    BY <1>1, <2>1, BoundsType DEF Start, FindAdmin, CountSample, FindTag, ServerStops, ProgressOK
  <2> QED BY <1>1, <2>2, RowMoves DEF Start, FindAdmin, CountSample, FindTag, ServerStops
<1>2. CASE CreateAdmin(v) \/ CreateTag(v)
  <2>1. server' \in [Servers -> Places]
    BY <1>2 DEF CreateAdmin, CreateTag, ServerGoto, ProgressOK, Places
  <2>2. ProgressOK' BY <1>2, <2>1, BoundsType DEF CreateAdmin, CreateTag, ProgressOK
  <2> QED BY <1>2, <2>2, RowMoves DEF CreateAdmin, CreateTag
<1>3. CASE CreateSample(v)
  <2>1. server' \in [Servers -> Places] BY <1>3 DEF CreateSample, ServerGoto, ProgressOK, Places
  <2>2. ProgressOK' BY <1>3, <2>1, BoundsType DEF CreateSample, ProgressOK
  <2>3. RowMove \/ UNCHANGED rows BY <1>3, CatalogAssumption, InsertMoves DEF CreateSample
  <2> QED BY <2>2, <2>3, RowMoves
<1> QED BY <1>1, <1>2, <1>3

----------------------------------------------------------------------------
(* The counters follow the submissions.                                    *)

\* Who submits has read a problem that is there, and no other has submissions.
UsedInv ==
    /\ \A r \in Submits : submit[r].pc \in {"insert", "count"} => Exists(submit[r].id)
    /\ \A i \in Ids : ~Exists(i) => submissions[i] = 0
Counted(i) ==
    Exists(i) /\ i \notin missed /\ i \notin overlapped =>
        rows[i].submits + Cardinality(ToCount(i)) = submissions[i]
CountsInv ==
    /\ \A m \in Importers : ReadInv(m)
    /\ UsedInv
    /\ \A i \in Ids : Counted(i)

\* No problem goes, a new one is not counted yet, and no counter moves unless an import that
\* overlapped a count sets it back.
QuietRows ==
    \A i \in Ids :
        /\ Exists(i) => Exists(i)' /\ (i \notin overlapped => rows'[i].submits = rows[i].submits)
        /\ ~Exists(i) /\ Exists(i)' => rows'[i].submits = 0
\* An import stays, does not save, or has just read.
QuietImport(m) ==
    \/ import'[m] = import[m]
    \/ import'[m].pc # "save"
    \/ /\ UNCHANGED rows
       /\ import'[m].id # None =>
              Exists(import'[m].id) /\ import'[m].row = rows[import'[m].id]
\* A submit request stays or has just read.
QuietSubmit(r) ==
    \/ submit'[r] = submit[r]
    \/ submit[r].pc = "new" /\ submit'[r].pc = "insert" /\ Exists(submit'[r].id)
QuietStep ==
    /\ QuietRows
    /\ \A m \in Importers : QuietImport(m)
    /\ \A r \in Submits : QuietSubmit(r)
    /\ UNCHANGED <<submissions, missed, overlapped>>

LEMMA QuietKeeps == ASSUME RowsOK, ProgressOK, ProgressOK', CountsInv, QuietStep PROVE CountsInv'
<1>1. ASSUME NEW m \in Importers PROVE ReadInv(m)'
  <2>1. ReadInv(m) /\ QuietImport(m) /\ overlapped' = overlapped BY DEF CountsInv, QuietStep
  <2>2. SUFFICES ASSUME import'[m].pc = "save", import'[m].id # None
                 PROVE  /\ rows'[import'[m].id] # None /\ import'[m].row # None
                        /\ import'[m].id \notin overlapped =>
                               import'[m].row.submits = rows'[import'[m].id].submits
    BY <2>1 DEF ReadInv, Exists
  <2>3. import'[m].id \in Ids BY <2>2 DEF ProgressOK, ImportStates
  <2>4. CASE import'[m] = import[m]
    <3>1. PICK i \in Ids : i = import[m].id /\ i = import'[m].id BY <2>3, <2>4
    <3>2. /\ Exists(i) /\ import[m].row # None
          /\ i \notin overlapped => import[m].row.submits = rows[i].submits
      BY <2>1, <2>2, <2>4, <3>1 DEF ReadInv
    <3>3. Exists(i)' /\ (i \notin overlapped => rows'[i].submits = rows[i].submits)
      BY <3>2 DEF QuietStep, QuietRows
    <3> QED BY <2>1, <2>4, <3>1, <3>2, <3>3 DEF Exists
  <2>5. CASE UNCHANGED rows /\ Exists(import'[m].id) /\ import'[m].row = rows[import'[m].id]
    BY <2>5 DEF Exists
  <2> QED BY <2>1, <2>2, <2>4, <2>5 DEF QuietImport
<1>2. UsedInv'
  <2>1. ASSUME NEW r \in Submits, submit'[r].pc \in {"insert", "count"}
        PROVE  rows'[submit'[r].id] # None
    <3>1. submit'[r].id \in Ids BY <2>1 DEF ProgressOK, SubmitStates
    <3>2. Exists(submit'[r].id) BY <2>1 DEF CountsInv, UsedInv, QuietStep, QuietSubmit
    <3>3. PICK i \in Ids : i = submit'[r].id BY <3>1
    <3>4. Exists(i)' BY <3>2, <3>3 DEF QuietStep, QuietRows
    <3> QED BY <3>3, <3>4 DEF Exists
  <2>2. ASSUME NEW i \in Ids, ~Exists(i)' PROVE submissions'[i] = 0
    BY <2>2 DEF CountsInv, UsedInv, QuietStep, QuietRows
  <2> QED BY <2>1, <2>2 DEF UsedInv, Exists
<1>3. ASSUME NEW i \in Ids PROVE Counted(i)'
  <2>1. ToCount(i)' = ToCount(i) BY DEF ToCount, QuietStep, QuietSubmit
  <2>2. CASE Exists(i)
    BY <2>1, <2>2 DEF Counted, CountsInv, QuietStep, QuietRows
  <2>3. CASE ~Exists(i)
    <3>1. ToCount(i) = {} BY <2>3 DEF ToCount, CountsInv, UsedInv
    <3>2. submissions'[i] = 0 BY <2>3 DEF CountsInv, UsedInv, QuietStep
    <3>3. Exists(i)' => rows'[i].submits = 0 BY <2>3 DEF QuietStep, QuietRows
    <3>4. Cardinality(ToCount(i))' = 0 BY <2>1, <3>1, FS_EmptySet
    <3> QED BY <3>2, <3>3, <3>4 DEF Counted
  <2> QED BY <2>2, <2>3
<1> QED BY <1>1, <1>2, <1>3 DEF CountsInv

\* The ways in which the table changes quietly.
LEMMA SameRows == ASSUME UNCHANGED rows PROVE QuietRows
BY DEF QuietRows, Exists

LEMMA InsertQuiet == ASSUME RowsOK, NEW slug \in Slugs, Insert(slug) PROVE QuietRows
<1>1. PICK i \in Ids : ~Exists(i) /\ SetRow(i, [slug |-> slug, deleted |-> FALSE, submits |-> 0])
  BY DEF Insert
<1> QED BY <1>1 DEF SetRow, RowsOK, QuietRows, Exists

LEMMA RowQuiet ==
    ASSUME RowsOK, NEW i \in Ids, Exists(i), NEW row \in Row, SetRow(i, row),
           i \notin overlapped => row.submits = rows[i].submits
    PROVE  QuietRows
<1>1. row # None BY CatalogAssumption
<1> QED BY <1>1 DEF SetRow, RowsOK, QuietRows, Exists

LEMMA AdminQuiet == ASSUME RowsOK, ProgressOK, AdminStep PROVE QuietStep
<1> USE DEF database, history
<1>1. QuietRows
  <2>1. ASSUME NEW slug \in Slugs, CreateProblem(slug) PROVE QuietRows
    BY <2>1, InsertQuiet DEF CreateProblem
  <2>2. ASSUME NEW slug \in Slugs, NEW e \in Updates, UpdateProblem(e, slug) PROVE QuietRows
    <3>1. PICK i : i = update[e].id OBVIOUS
    <3>2. i \in Ids BY <2>2, <3>1 DEF UpdateProblem, ProgressOK, UpdateStates
    <3>3. CASE ~Live(i) BY <2>2, <3>1, <3>3, SameRows DEF UpdateProblem
    <3>4. CASE Live(i)
      <4>1. rows[i] \in Row BY <3>2, <3>4, LiveRow DEF Live
      <4>2. PICK row : row = [rows[i] EXCEPT !.slug = slug] OBVIOUS
      <4>3. row \in Row /\ row.submits = rows[i].submits BY <4>1, <4>2 DEF Row
      <4>4. SetRow(i, row) BY <2>2, <3>1, <3>4, <4>2 DEF UpdateProblem
      <4> QED BY <3>2, <3>4, <4>3, <4>4, RowQuiet DEF Live
    <3> QED BY <3>3, <3>4
  <2>3. ASSUME NEW i \in Ids, DeleteProblem(i) PROVE QuietRows
    <3>1. rows[i] \in Row /\ Exists(i) BY <2>3, LiveRow DEF DeleteProblem, Live
    <3>2. PICK row : row = [rows[i] EXCEPT !.deleted = TRUE] OBVIOUS
    <3>3. row \in Row /\ row.submits = rows[i].submits BY <3>1, <3>2 DEF Row
    <3>4. SetRow(i, row) BY <2>3, <3>2 DEF DeleteProblem
    <3> QED BY <3>1, <3>3, <3>4, RowQuiet
  <2>4. ASSUME NEW i \in Ids, NEW e \in Updates, ReadToUpdate(e, i) PROVE QuietRows
    BY <2>4, SameRows DEF ReadToUpdate
  <2>5. ASSUME NEW e \in Updates, UpdateFails(e) PROVE QuietRows BY <2>5, SameRows DEF UpdateFails
  <2>6. CASE ChangeTag BY <2>6, SameRows DEF ChangeTag
  <2> QED BY <2>1, <2>2, <2>3, <2>4, <2>5, <2>6 DEF AdminStep
<1>2. UNCHANGED <<import, submit, submissions, missed, overlapped>>
  BY
      DEF AdminStep, CreateProblem, UpdateProblem, DeleteProblem, ReadToUpdate, UpdateFails, ChangeTag
<1> QED BY <1>1, <1>2 DEF QuietStep, QuietImport, QuietSubmit

LEMMA ServerQuiet == ASSUME RowsOK, ProgressOK, ServerStep PROVE QuietStep
<1> USE DEF database, history
<1> PICK v \in Servers : \/ Start(v) \/ FindAdmin(v) \/ CreateAdmin(v) \/ CountSample(v)
                         \/ FindTag(v) \/ CreateTag(v) \/ CreateSample(v) \/ ServerStops(v)
  BY DEF ServerStep
<1>1. QuietRows
  <2>1. CASE CreateSample(v)
    BY <2>1, CatalogAssumption, InsertQuiet, SameRows DEF CreateSample
  <2>2. CASE ~CreateSample(v)
    BY <2>2, SameRows
       DEF Start, FindAdmin, CreateAdmin, CountSample, FindTag, CreateTag, ServerStops
  <2> QED BY <2>1, <2>2
<1>2. UNCHANGED <<import, submit, submissions, missed, overlapped>>
  BY DEF Start, FindAdmin, CreateAdmin, CountSample, FindTag, CreateTag, CreateSample, ServerStops
<1> QED BY <1>1, <1>2 DEF QuietStep, QuietImport, QuietSubmit

LEMMA ImportQuiet == ASSUME RowsOK, ProgressOK, CountsInv, ImportStep PROVE QuietStep
<1> USE DEF database, history
<1>1. ASSUME NEW m \in Importers, NEW name \in Names, LookUp(m, name) PROVE QuietStep
  <2>1. PICK id \in Ids \cup {None} : Found(m, name, id) /\ (id # None => id \in Owners(name))
    BY <1>1 DEF LookUp, Owners
  <2>2. /\ import'[m].id = id /\ UNCHANGED rows
        /\ id # None => import'[m].row = rows[id] /\ Exists(id)
    BY <2>1 DEF Found, SetImport, ProgressOK, Owners
  <2>3. QuietImport(m) BY <2>2 DEF QuietImport
  <2>4. \A n \in Importers : n # m => import'[n] = import[n]
    BY <2>1 DEF Found, SetImport, ProgressOK
  <2>5. QuietRows /\ UNCHANGED <<submit, submissions, missed, overlapped>>
    BY <2>1, SameRows DEF Found
  <2> QED BY <2>3, <2>4, <2>5 DEF QuietStep, QuietImport, QuietSubmit
<1>2. ASSUME NEW m \in Importers, SaveProblem(m) PROVE QuietStep
  <2>1. PICK s : s = import[m] OBVIOUS
  <2>2. s.name \in Names /\ s.id \in Ids \cup {None} /\ s.row \in Row \cup {None} /\ s.pc = "save"
    BY <1>2, <2>1 DEF SaveProblem, ProgressOK, ImportStates
  <2> DEFINE slug == Trim[s.name]
  <2>5. slug \in Slugs BY <2>2, CatalogAssumption
  <2>3. QuietRows
    <3>1. CASE s.id = None BY <1>2, <2>1, <2>5, <3>1, InsertQuiet DEF SaveProblem
    <3>2. CASE s.id # None
      <4>1. /\ Exists(s.id) /\ s.row \in Row
            /\ s.id \notin overlapped => s.row.submits = rows[s.id].submits
        BY <2>1, <2>2, <3>2 DEF CountsInv, ReadInv
      <4>2. PICK row : row = [s.row EXCEPT !.slug = slug, !.deleted = FALSE] OBVIOUS
      <4>3. row \in Row /\ row.submits = s.row.submits BY <2>5, <4>1, <4>2 DEF Row
      <4>4. SetRow(s.id, row) BY <1>2, <2>1, <3>2, <4>2 DEF SaveProblem
      <4> QED BY <2>2, <3>2, <4>1, <4>3, <4>4, RowQuiet
    <3> QED BY <3>1, <3>2
  <2>4. /\ import'[m].pc = "next" /\ \A n \in Importers : n # m => import'[n] = import[n]
        /\ UNCHANGED <<submit, submissions, missed, overlapped>>
    BY <1>2 DEF SaveProblem, SetImport, ProgressOK
  <2> QED BY <2>3, <2>4 DEF QuietStep, QuietImport, QuietSubmit
<1>3. ASSUME NEW m \in Importers, ImportCollides(m) \/ ImportFails(m) \/ StartImport(m)
      PROVE  QuietStep
  <2>1. /\ import'[m].pc # "save" /\ \A n \in Importers : n # m => import'[n] = import[n]
        /\ UNCHANGED <<rows, submit, submissions, missed, overlapped>>
    BY <1>3 DEF ImportCollides, ImportFails, StartImport, FailImport, SetImport, ProgressOK
  <2> QED BY <2>1, SameRows DEF QuietStep, QuietImport, QuietSubmit
<1> QED BY <1>1, <1>2, <1>3 DEF ImportStep

LEMMA ToCountIsFinite ==
    ASSUME NEW i PROVE IsFiniteSet(ToCount(i)) /\ Cardinality(ToCount(i)) \in Nat
<1>1. ToCount(i) \in SUBSET Submits BY DEF ToCount
<1> QED BY <1>1, CatalogAssumption, FS_Subset, FS_CardinalityType

LEMMA InsertKeeps ==
    ASSUME RowsOK, ProgressOK, CountsInv, NEW r \in Submits, InsertSubmission(r) PROVE CountsInv'
<1> USE DEF database, history
<1>1. PICK i \in Ids : i = submit[r].id
  BY DEF InsertSubmission, ProgressOK, SubmitStates
<1>2. /\ submit[r].pc = "insert" /\ submissions' = [submissions EXCEPT ![i] = @ + 1]
      /\ submit' = [submit EXCEPT ![r].pc = "count"]
      /\ UNCHANGED <<rows, import, missed, overlapped>>
  BY <1>1 DEF InsertSubmission
<1>3. submit[r] \in [pc : {"insert", "count"}, id : Ids]
  BY <1>2 DEF ProgressOK, SubmitStates
<1>4. /\ submit'[r].pc = "count" /\ submit'[r].id = i
      /\ \A q \in Submits : q # r => submit'[q] = submit[q]
  BY <1>1, <1>2, <1>3 DEF ProgressOK
<1>5. Exists(i) BY <1>1, <1>2 DEF CountsInv, UsedInv
<1>6. ASSUME NEW m \in Importers PROVE ReadInv(m)' BY <1>2 DEF CountsInv, ReadInv, Exists
<1>7. UsedInv'
  <2>1. \A q \in Submits : submit'[q].pc \in {"insert", "count"} => rows'[submit'[q].id] # None
    BY <1>2, <1>4, <1>5 DEF CountsInv, UsedInv, Exists
  <2>2. \A j \in Ids : ~Exists(j)' => submissions'[j] = 0
    BY <1>2, <1>5 DEF CountsInv, UsedInv, Exists, ProgressOK
  <2> QED BY <2>1, <2>2 DEF UsedInv, Exists
<1>8. ASSUME NEW j \in Ids PROVE Counted(j)'
  <2>1. CASE j # i
    <3>1. ToCount(j)' = ToCount(j) BY <1>1, <1>4, <2>1 DEF ToCount
    <3>2. submissions'[j] = submissions[j] BY <1>2, <2>1 DEF ProgressOK
    <3> QED BY <1>2, <3>1, <3>2 DEF CountsInv, Counted, Exists
  <2>2. CASE j = i
    <3>1. ToCount(i)' = ToCount(i) \cup {r} /\ r \notin ToCount(i) BY <1>2, <1>4 DEF ToCount
    <3>2. Cardinality(ToCount(i))' = Cardinality(ToCount(i)) + 1
      BY <3>1, ToCountIsFinite, FS_AddElement
    <3>3. submissions'[i] = submissions[i] + 1 /\ submissions[i] \in Nat BY <1>2 DEF ProgressOK
    <3>4. rows'[i] \in Row /\ rows'[i] = rows[i] /\ rows[i].submits \in Nat
      BY <1>2, <1>5 DEF RowsOK, Exists, Row
    <3>5. Cardinality(ToCount(i)) \in Nat BY ToCountIsFinite
    <3> QED BY <1>2, <1>5, <2>2, <3>2, <3>3, <3>4, <3>5 DEF CountsInv, Counted, Exists
  <2> QED BY <2>1, <2>2
<1> QED BY <1>6, <1>7, <1>8 DEF CountsInv

\* A request is counted, or it never will be: its problem is among the missed.
LEMMA CountKeeps ==
    ASSUME RowsOK, ProgressOK, CountsInv, NEW r \in Submits, CountSubmission(r) \/ CountFails(r)
    PROVE  CountsInv'
<1> USE DEF database, history
<1>1. PICK i \in Ids : i = submit[r].id
  BY DEF CountSubmission, CountFails, ProgressOK, SubmitStates
<1>2. /\ submit[r].pc = "count" /\ submit' = [submit EXCEPT ![r] = [pc |-> "done"]]
      /\ UNCHANGED <<submissions, import>>
  BY DEF CountSubmission, CountFails
<1>3. submit'[r].pc = "done" /\ \A q \in Submits : q # r => submit'[q] = submit[q]
  BY <1>2 DEF ProgressOK
<1>4. Exists(i) BY <1>1, <1>2 DEF CountsInv, UsedInv
<1>5. \A j \in Ids : j # i => ToCount(j)' = ToCount(j) BY <1>1, <1>3 DEF ToCount
<1>6. CASE UNCHANGED <<rows, overlapped>> /\ missed' = missed \cup {i}
  <2>1. ASSUME NEW m \in Importers PROVE ReadInv(m)' BY <1>2, <1>6 DEF CountsInv, ReadInv, Exists
  <2>2. UsedInv' BY <1>2, <1>3, <1>6 DEF CountsInv, UsedInv, Exists
  <2>3. ASSUME NEW j \in Ids PROVE Counted(j)'
    <3>1. CASE j = i BY <1>6, <3>1 DEF Counted
    <3>2. CASE j # i BY <1>2, <1>5, <1>6, <3>2 DEF CountsInv, Counted, Exists
    <3> QED BY <3>1, <3>2
  <2> QED BY <2>1, <2>2, <2>3 DEF CountsInv
<1>7. CASE /\ SetRow(i, [rows[i] EXCEPT !.submits = @ + 1]) /\ UNCHANGED missed
           /\ overlapped' = IF ReadByImport(i) THEN overlapped \cup {i} ELSE overlapped
  <2>1. rows[i] \in Row BY <1>4 DEF RowsOK, Exists
  <2>2. PICK row : row = [rows[i] EXCEPT !.submits = @ + 1] OBVIOUS
  <2>3. row \in Row /\ row.submits = rows[i].submits + 1 BY <2>1, <2>2 DEF Row
  <2>4. rows' = [rows EXCEPT ![i] = row] BY <1>7, <2>2 DEF SetRow
  <2>5. /\ rows'[i] = row /\ row # None /\ \A j \in Ids : j # i => rows'[j] = rows[j]
    BY <2>3, <2>4, CatalogAssumption DEF RowsOK
  <2>6. ASSUME NEW m \in Importers PROVE ReadInv(m)'
    <3>1. SUFFICES ASSUME import[m].pc = "save", import[m].id # None
                   PROVE  /\ rows'[import[m].id] # None /\ import[m].row # None
                          /\ import[m].id \notin overlapped' =>
                                 import[m].row.submits = rows'[import[m].id].submits
      BY <1>2 DEF ReadInv, Exists
    <3>2. PICK j \in Ids : j = import[m].id BY <3>1 DEF ProgressOK, ImportStates
    <3>3. /\ Exists(j) /\ import[m].row # None
          /\ j \notin overlapped => import[m].row.submits = rows[j].submits
      BY <3>1, <3>2 DEF CountsInv, ReadInv
    <3>4. CASE j = i
      <4>1. i \in overlapped' BY <1>7, <3>1, <3>2, <3>4 DEF ReadByImport
      <4> QED BY <2>5, <3>2, <3>3, <3>4, <4>1
    <3>5. CASE j # i BY <1>7, <2>5, <3>2, <3>3, <3>5 DEF Exists
    <3> QED BY <3>4, <3>5
  <2>7. UsedInv'
    <3>1. \A j \in Ids : Exists(j)' <=> Exists(j) BY <1>4, <2>5 DEF Exists
    <3>2. ASSUME NEW q \in Submits, submit'[q].pc \in {"insert", "count"}
          PROVE  rows'[submit'[q].id] # None
      <4>1. q # r /\ submit'[q] = submit[q] BY <1>3, <3>2
      <4>2. PICK j \in Ids : j = submit[q].id BY <3>2, <4>1 DEF ProgressOK, SubmitStates
      <4>3. Exists(j) BY <3>2, <4>1, <4>2 DEF CountsInv, UsedInv
      <4> QED BY <3>1, <4>1, <4>2, <4>3 DEF Exists
    <3>3. \A j \in Ids : ~Exists(j)' => submissions'[j] = 0 BY <1>2, <3>1 DEF CountsInv, UsedInv
    <3> QED BY <3>2, <3>3 DEF UsedInv, Exists
  <2>8. ASSUME NEW j \in Ids PROVE Counted(j)'
    <3>1. CASE j # i BY <1>2, <1>5, <1>7, <2>5, <3>1 DEF CountsInv, Counted, Exists
    <3>2. CASE j = i
      <4>1. ToCount(i)' = ToCount(i) \ {r} /\ r \in ToCount(i) BY <1>1, <1>2, <1>3 DEF ToCount
      <4>2. Cardinality(ToCount(i))' = Cardinality(ToCount(i)) - 1
        BY <4>1, ToCountIsFinite, FS_RemoveElement
      <4>3. Cardinality(ToCount(i)) \in Nat BY ToCountIsFinite
      <4>4. rows[i].submits \in Nat BY <2>1 DEF Row
      <4>5. i \notin missed' /\ i \notin overlapped' => i \notin missed /\ i \notin overlapped
        BY <1>7
      <4>6. submissions'[i] = submissions[i] BY <1>2
      <4>7. rows'[i].submits = rows[i].submits + 1 BY <2>3, <2>5
      <4> QED BY <1>4, <3>2, <4>2, <4>3, <4>4, <4>5, <4>6, <4>7 DEF CountsInv, Counted
    <3> QED BY <3>1, <3>2
  <2> QED BY <2>6, <2>7, <2>8 DEF CountsInv
<1> QED BY <1>1, <1>6, <1>7 DEF CountSubmission, CountFails

LEMMA ReadKeeps ==
    ASSUME RowsOK, ProgressOK, NEW r \in Submits, NEW i \in Ids, ReadToSubmit(r, i)
    PROVE  QuietStep
<1>1. /\ submit[r].pc = "new" /\ Exists(i)
      /\ submit' = [submit EXCEPT ![r] = [pc |-> "insert", id |-> i]]
      /\ UNCHANGED <<rows, import, submissions, missed, overlapped>>
  BY DEF ReadToSubmit, Live, database, history
<1>2. \A q \in Submits : QuietSubmit(q) BY <1>1 DEF QuietSubmit, ProgressOK
<1> QED BY <1>1, <1>2, SameRows DEF QuietStep, QuietImport

CatalogInv == TypeOK /\ CountsInv

LEMMA CatalogStart == Init => CatalogInv
<1> SUFFICES ASSUME Init PROVE CatalogInv OBVIOUS
<1>1. UsedInv /\ \A m \in Importers : ReadInv(m) BY DEF Init, UsedInv, ReadInv, Exists
<1>2. \A i \in Ids : Counted(i) BY DEF Init, Counted, Exists
<1> QED BY <1>1, <1>2, TypeInit DEF CatalogInv, CountsInv

LEMMA StepKeeps ==
    ASSUME RowsOK, ProgressOK, CountsInv, Step PROVE RowsOK' /\ ProgressOK' /\ CountsInv'
<1>1. CASE AdminStep BY <1>1, AdminType, AdminQuiet, QuietKeeps
<1>2. CASE ServerStep BY <1>2, ServerType, ServerQuiet, QuietKeeps
<1>3. CASE ImportStep
  <2>1. \A m \in Importers : ReadInv(m) BY DEF CountsInv
  <2> QED BY <1>3, <2>1, ImportType, ImportQuiet, QuietKeeps
<1>4. CASE SubmitStep
  <2>1. RowsOK' /\ ProgressOK' BY <1>4, SubmitType
  <2> QED BY <1>4, <2>1, ReadKeeps, QuietKeeps, InsertKeeps, CountKeeps DEF SubmitStep
<1> QED BY <1>1, <1>2, <1>3, <1>4, StepIs

LEMMA CatalogStep == CatalogInv /\ [Next]_vars => CatalogInv'
<1> SUFFICES ASSUME CatalogInv, [Next]_vars PROVE CatalogInv' OBVIOUS
<1>1. RowsOK /\ ProgressOK /\ CountsInv /\ disturbed \subseteq Servers \cup Importers
  BY TypesAre DEF CatalogInv
<1>2. CASE UNCHANGED vars
  <2> USE <1>2 DEF vars, database, history, bounds
  <2>1. TypeOK' BY DEF CatalogInv, TypeOK, Exists
  <2>2. UNCHANGED <<rows, submissions, submit, import, missed, overlapped>> OBVIOUS
  <2>3. QuietStep BY <2>2, SameRows DEF QuietStep, QuietImport, QuietSubmit
  <2>4. ProgressOK' BY <2>1, TypesAre, PTL
  <2> QED BY <1>1, <2>1, <2>3, <2>4, QuietKeeps DEF CatalogInv
<1>3. CASE Next
  <2>1. RowsOK' /\ ProgressOK' /\ CountsInv' BY <1>1, <1>3, StepKeeps DEF Next
  <2>2. (disturbed \subseteq Servers \cup Importers)' BY <1>3 DEF Next, Observe
  <2>3. TypeOK' BY <2>1, <2>2, TypesAre, PTL
  <2> QED BY <2>1, <2>3 DEF CatalogInv
<1> QED BY <1>2, <1>3

\* "The submission row is authoritative. submit_count is a derived counter": however often a
\* problem is edited, deleted, restored and imported, its counter is the number of its
\* submissions, less those about to be counted, unless one could not be counted or an import
\* read the problem before it was counted and saved it after.
THEOREM CountersFollow == Spec => []CountsFollow
<1>1. CatalogInv => CountsFollow BY DEF CatalogInv, CountsInv, Counted, CountsFollow
<1> QED BY <1>1, CatalogStart, CatalogStep, PTL DEF Spec

----------------------------------------------------------------------------
(* Imports and starts can be repeated.                                     *)

\* Nothing an import has read is in its way, unless it was disturbed or has read
\* a name that is not a slug.
ReadHolds(m) == Importing(m) /\ m \notin disturbed => ~Collides(import[m]) \/ Misread(import[m])
\* What a server did not find is not there, unless it was disturbed.
SearchHolds(v) ==
    v \notin disturbed =>
        /\ server[v] = "create admin" => ~admin
        /\ server[v] = "create tag" => ~tag
        /\ server[v] \in {"tag", "create tag", "create sample"} =>
               \A i \in Owners(Sample) : ~Live(i)
RepeatInv == (\A m \in Importers : ReadHolds(m)) /\ (\A v \in Servers : SearchHolds(v))

LEMMA RepeatStart == Init => RepeatInv
BY DEF Init, RepeatInv, ReadHolds, SearchHolds, Importing

\* Who has read in this step has read what is there.
LEMMA FreshRead ==
    ASSUME RowsOK, ProgressOK, NEW m \in Importers, Step, import'[m] # import[m], Importing(m)'
    PROVE  UNCHANGED database /\ (~Collides(import'[m]) \/ Misread(import'[m]))
<1>1. PICK name \in Names : LookUp(m, name)
  <2>1. ImportStep
    BY StepIs DEF AdminStep, CreateProblem, UpdateProblem, DeleteProblem, ReadToUpdate, UpdateFails,
        ChangeTag, SubmitStep, ReadToSubmit, InsertSubmission, CountSubmission, CountFails,
                 ServerStep,
        Start, FindAdmin, CreateAdmin, CountSample, FindTag, CreateTag, CreateSample, ServerStops
  <2>2. PICK n \in Importers : \/ \E name \in Names : LookUp(n, name)
                               \/ SaveProblem(n) \/ ImportCollides(n) \/ ImportFails(n)
                               \/ StartImport(n)
    BY <2>1 DEF ImportStep
  <2>3. n = m
    BY <2>2 DEF LookUp, Found, SaveProblem, ImportCollides, ImportFails, StartImport, FailImport,
        SetImport, ProgressOK
  <2>4. ~(SaveProblem(m) \/ ImportCollides(m) \/ ImportFails(m) \/ StartImport(m))
    BY DEF SaveProblem, ImportCollides, ImportFails, StartImport, FailImport, SetImport, ProgressOK,
        Importing
  <2> QED BY <2>2, <2>3, <2>4
<1>2. PICK id : Found(m, name, id) /\ Owners(name) \subseteq {id}
  <2>1. \A i \in Owners(name) : Owners(name) \subseteq {i} BY DEF RowsOK, Owners
  <2> QED BY <1>1, <2>1 DEF LookUp
<1>3. /\ import'[m].name = name /\ import'[m].id = id /\ import'[m].tag = tag
      /\ UNCHANGED database
  BY <1>2 DEF Found, SetImport, ProgressOK
<1> QED BY <1>2, <1>3 DEF Collides, Misread

LEMMA ReadHoldsOn ==
    ASSUME RowsOK, ProgressOK, NEW m \in Importers, ReadHolds(m), Next PROVE ReadHolds(m)'
<1> SUFFICES ASSUME Importing(m)', m \notin disturbed' PROVE (~Collides(import[m]) \/ Misread(import[m]))'
  BY DEF ReadHolds
<1>1. CASE import'[m] = import[m]
  <2>1. Importing(m) BY <1>1 DEF Importing
  <2>2. m \notin disturbed /\ UNCHANGED database BY <1>1, <2>1 DEF Next, Observe
  <2>3. ~Collides(import[m]) \/ Misread(import[m]) BY <2>1, <2>2 DEF ReadHolds
  <2> QED BY <1>1, <2>2, <2>3 DEF Collides, Misread, Owners, Exists, database
<1>2. CASE import'[m] # import[m]
  <2>1. UNCHANGED database /\ (~Collides(import'[m]) \/ Misread(import'[m]))
    BY <1>2, FreshRead DEF Next
  <2> QED BY <2>1 DEF Collides, Misread, Owners, Exists, database
<1> QED BY <1>1, <1>2

\* A server that moves has taken one of its own steps.
LEMMA OwnStep ==
    ASSUME ProgressOK, NEW v \in Servers, Step, server'[v] # server[v]
    PROVE  \/ Start(v) \/ FindAdmin(v) \/ CreateAdmin(v) \/ CountSample(v)
           \/ FindTag(v) \/ CreateTag(v) \/ CreateSample(v) \/ ServerStops(v)
<1>1. ServerStep
  BY StepIs DEF AdminStep, CreateProblem, UpdateProblem, DeleteProblem, ReadToUpdate, UpdateFails,
      ChangeTag, SubmitStep, ReadToSubmit, InsertSubmission, CountSubmission, CountFails,
               ImportStep,
      LookUp, Found, SaveProblem, ImportCollides, ImportFails, StartImport
<1>2. PICK w \in Servers : \/ Start(w) \/ FindAdmin(w) \/ CreateAdmin(w) \/ CountSample(w)
                           \/ FindTag(w) \/ CreateTag(w) \/ CreateSample(w) \/ ServerStops(w)
  BY <1>1 DEF ServerStep
<1>3. w = v
  BY <1>2 DEF Start, FindAdmin, CreateAdmin, CountSample, FindTag, CreateTag, CreateSample,
      ServerStops, ServerGoto, ProgressOK
<1> QED BY <1>2, <1>3

LEMMA SearchHoldsOn ==
    ASSUME ProgressOK, NEW v \in Servers, SearchHolds(v), Next PROVE SearchHolds(v)'
<1> SUFFICES ASSUME v \notin disturbed', Starting(v)' PROVE SearchHolds(v)'
  BY DEF SearchHolds, Starting
<1>1. Starting(v) => v \notin disturbed BY DEF Next, Observe
<1>2. CASE server'[v] = server[v]
  <2>1. Starting(v) BY <1>2 DEF Starting
  <2>2. UNCHANGED database BY <1>2, <2>1 DEF Next, Observe
  <2> QED BY <1>1, <1>2, <2>1, <2>2 DEF SearchHolds, Owners, Live, Exists, database
<1>3. CASE server'[v] # server[v]
  <2> USE DEF ServerGoto, ProgressOK, database
  <2>1. CASE Start(v) BY <2>1 DEF Start, SearchHolds
  <2>2. CASE FindAdmin(v) BY <2>2 DEF FindAdmin, SearchHolds
  <2>3. CASE CreateAdmin(v) BY <2>3 DEF CreateAdmin, SearchHolds
  <2>4. CASE CountSample(v)
    <3>1. server'[v] \in {"up", "tag"} BY <2>4 DEF CountSample
    <3>2. server'[v] = "tag" => \A i \in Owners(Sample) : ~Live(i) BY <2>4 DEF CountSample
    <3>3. UNCHANGED rows BY <2>4 DEF CountSample
    <3> QED BY <3>1, <3>2, <3>3 DEF SearchHolds, Owners, Live, Exists
  <2>5. CASE FindTag(v)
    <3>1. Starting(v) /\ server[v] = "tag" BY <2>5 DEF FindTag, Starting
    <3>2. \A i \in Owners(Sample) : ~Live(i) BY <1>1, <3>1 DEF SearchHolds
    <3>3. server'[v] = IF tag THEN "create sample" ELSE "create tag" BY <2>5 DEF FindTag
    <3>4. UNCHANGED rows /\ tag' = tag BY <2>5 DEF FindTag
    <3> QED BY <3>2, <3>3, <3>4 DEF SearchHolds, Owners, Live, Exists
  <2>6. CASE CreateTag(v)
    <3>1. Starting(v) /\ server[v] = "create tag" BY <2>6 DEF CreateTag, Starting
    <3>2. \A i \in Owners(Sample) : ~Live(i) BY <1>1, <3>1 DEF SearchHolds
    <3>3. server'[v] \in {"create sample", "failed"} /\ UNCHANGED rows BY <2>6 DEF CreateTag
    <3> QED BY <3>2, <3>3 DEF SearchHolds, Owners, Live, Exists
  <2>7. CASE CreateSample(v)
    <3>1. server'[v] \in {"up", "failed"} BY <2>7 DEF CreateSample
    <3> QED BY <3>1 DEF SearchHolds
  <2>8. CASE ServerStops(v) BY <2>8 DEF ServerStops, SearchHolds
  <2> QED BY <1>3, <2>1, <2>2, <2>3, <2>4, <2>5, <2>6, <2>7, <2>8, OwnStep DEF Next
<1> QED BY <1>2, <1>3

LEMMA RepeatStep == CatalogInv /\ RepeatInv /\ [Next]_vars => RepeatInv'
<1> SUFFICES ASSUME CatalogInv, RepeatInv, [Next]_vars PROVE RepeatInv' OBVIOUS
<1>1. CASE UNCHANGED vars
  BY <1>1
      DEF vars, database, RepeatInv, ReadHolds, SearchHolds, Importing, Collides, Misread, Owners, Exists,
      Live
<1>2. CASE Next
  <2>1. RowsOK /\ ProgressOK BY TypesAre DEF CatalogInv
  <2> QED BY <1>2, <2>1, ReadHoldsOn, SearchHoldsOn DEF RepeatInv
<1> QED BY <1>1, <1>2

LEMMA ImportSucceeds ==
    ASSUME CatalogInv, RepeatInv, Next, NEW m \in Importers,
           import[m].pc = "save", import'[m].pc = "failed", faults' = faults
    PROVE  m \in disturbed \/ Misread(import[m])
<1>1. RowsOK /\ ProgressOK BY TypesAre DEF CatalogInv
<1>2. faults \in Nat BY <1>1, CatalogAssumption DEF ProgressOK
<1>3. ImportStep
  BY StepIs DEF Next, AdminStep, CreateProblem, UpdateProblem, DeleteProblem, ReadToUpdate,
      UpdateFails, ChangeTag, SubmitStep, ReadToSubmit, InsertSubmission, CountSubmission,
               CountFails,
      ServerStep, Start, FindAdmin, CreateAdmin, CountSample, FindTag, CreateTag, CreateSample,
      ServerStops
<1>4. PICK n \in Importers : \/ \E name \in Names : LookUp(n, name)
                             \/ SaveProblem(n) \/ ImportCollides(n) \/ ImportFails(n)
                             \/ StartImport(n)
  BY <1>3 DEF ImportStep
<1>5. n = m
  BY <1>1, <1>4
      DEF LookUp, Found, SaveProblem, ImportCollides, ImportFails, StartImport, FailImport,
      SetImport, ProgressOK
<1>6. ImportCollides(m)
  BY <1>1, <1>2, <1>4, <1>5
     DEF LookUp, Found, SaveProblem, ImportFails, StartImport, Fault, SetImport, ProgressOK
<1>7. Importing(m) /\ Collides(import[m]) BY <1>6 DEF ImportCollides, Importing
<1> QED BY <1>7 DEF RepeatInv, ReadHolds

LEMMA StartSucceeds ==
    ASSUME CatalogInv, RepeatInv, Next, NEW v \in Servers, Starting(v), server'[v] = "failed"
    PROVE  v \in disturbed \/ \E i \in Owners(Sample) : rows[i].deleted
<1>1. ProgressOK BY TypesAre DEF CatalogInv
<1>2. CreateAdmin(v) \/ CreateTag(v) \/ CreateSample(v)
  <2>1. server'[v] # server[v] BY DEF Starting
  <2> QED BY <1>1, <2>1, OwnStep
          DEF Next, Start, FindAdmin, CountSample, FindTag, ServerStops, ServerGoto, ProgressOK
<1>3. SUFFICES ASSUME v \notin disturbed PROVE \E i \in Owners(Sample) : rows[i].deleted OBVIOUS
<1>4. SearchHolds(v) BY DEF RepeatInv
<1>5. CASE CreateAdmin(v)
  BY <1>1, <1>3, <1>4, <1>5 DEF CreateAdmin, SearchHolds, ServerGoto, ProgressOK
<1>6. CASE CreateTag(v) BY <1>1, <1>3, <1>4, <1>6 DEF CreateTag, SearchHolds, ServerGoto, ProgressOK
<1>7. CASE CreateSample(v)
  <2>1. Owners(Sample) # {} BY <1>1, <1>7 DEF CreateSample, ServerGoto, ProgressOK
  <2>2. \A i \in Owners(Sample) : ~Live(i) BY <1>3, <1>4, <1>7 DEF CreateSample, SearchHolds
  <2> QED BY <2>1, <2>2 DEF Live, Owners
<1> QED BY <1>2, <1>5, <1>6, <1>7

\* What was done before, by whomever, makes neither an import nor a start fail: an import fails
\* on a slug or a tag, and a start on an administrator, a tag or the sample problem, only if
\* somebody else wrote after they had read - or, for a start, if the sample problem is deleted,
\* and for an import, if the file spells a slug that is taken with a blank in front
\* (cmd/import-problems/main.go, model/seed.go).
THEOREM RepeatsAreSafe == Spec => RepeatsSucceed
<1>1. CatalogInv /\ RepeatInv /\ [Next]_vars
      => [\A m \in Importers :
             (import[m].pc = "save" /\ import'[m].pc = "failed" /\ faults' = faults)
                 => m \in disturbed \/ Misread(import[m])]_vars
  BY ImportSucceeds
<1>2. CatalogInv /\ RepeatInv /\ [Next]_vars
      => [\A v \in Servers :
             (Starting(v) /\ server'[v] = "failed")
                 => \/ v \in disturbed
                    \/ \E i \in Owners(Sample) : rows[i].deleted]_vars
  BY StartSucceeds
<1> QED BY <1>1, <1>2, CatalogStart, CatalogStep, RepeatStart, RepeatStep, PTL
        DEF Spec, RepeatsSucceed, ImportsSucceed, StartsAgain
====
