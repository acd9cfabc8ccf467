---- MODULE Catalog ----
(***************************************************************************)
(* The problems of the judge and everybody who writes them: administrators *)
(* who create, edit and delete problems, the tool import-problems, API     *)
(* servers that seed an administrator and a sample problem whenever they   *)
(* start, and submit requests that are counted at their problem.  Problems *)
(* are deleted softly: a deleted problem still owns its slug, and whoever  *)
(* does not ask for deleted problems does not find it.                     *)
(*                                                                         *)
(* A transaction reads first and takes its locks with its first write, so  *)
(* what it reads is an action and all it writes is another one.            *)
(***************************************************************************)
EXTENDS Naturals, FiniteSets

CONSTANTS
    Ids,            \* ids of problems
    Slugs,
    Sample,         \* "a-plus-b"
    Names,          \* slugs as a file spells them, some with a blank in front
    Trim,           \* the slug of a name
    Importers,      \* operators who run import-problems, again after a failure
    Files,          \* what they may import: sets of names that validateProblems accepts
    Servers,        \* API servers
    Submits,        \* submit requests
    Updates,        \* adminUpdateProblem requests
    MaxChanges,     \* bound: problems created and deleted by hand
    MaxFaults,      \* bound: failures of the database, of servers and of the tool
    None            \* no problem

\* A problem in the table, and its derived counter.
Row == [slug : Slugs, deleted : BOOLEAN, submits : Nat]

ASSUME CatalogAssumption ==
    /\ Sample \in Slugs
    /\ Slugs \subseteq Names /\ Trim \in [Names -> Slugs] /\ \A slug \in Slugs : Trim[slug] = slug
    /\ Files \subseteq SUBSET Names
    /\ \A file \in Files : \A x, y \in file : Trim[x] = Trim[y] => x = y
    /\ None \notin Ids /\ None \notin Row
    /\ IsFiniteSet(Submits)
    /\ Importers \cap Servers = {}
    /\ MaxChanges \in Nat /\ MaxFaults \in Nat

VARIABLES
    rows,           \* problems, also those that are deleted
    submissions,    \* how many rows of submissions each problem has
    admin,          \* the administrator's account exists
    tag,            \* the tag of the sample problem exists
    server,         \* progress of a server's start
    import,         \* progress of an import: the names to come, the problem it has read
    update,         \* progress of an update request, and the problem it has read
    submit,         \* progress of a submit request, and its problem
    missed,         \* history: problems with a submission that was not counted
    overlapped,     \* history: problems counted between the two halves of an import
    disturbed,      \* history: starts and imports during which somebody else wrote
    changes, faults

database == <<rows, admin, tag>>
bounds == <<changes, faults>>
history == <<missed, overlapped>>
vars == <<database, submissions, server, import, update, submit, history, disturbed, bounds>>

Init ==
    /\ rows = [i \in Ids |-> None]
    /\ submissions = [i \in Ids |-> 0]
    /\ admin = FALSE /\ tag = FALSE
    /\ server = [v \in Servers |-> "down"]
    /\ import = [m \in Importers |-> [pc |-> "next", todo |-> {}]]
    /\ update = [e \in Updates |-> [pc |-> "new"]]
    /\ submit = [r \in Submits |-> [pc |-> "new"]]
    /\ missed = {} /\ overlapped = {} /\ disturbed = {}
    /\ changes = 0 /\ faults = 0

Change == changes < MaxChanges /\ changes' = changes + 1 /\ UNCHANGED faults
Fault == faults < MaxFaults /\ faults' = faults + 1 /\ UNCHANGED changes
Fine == UNCHANGED bounds

Exists(i) == rows[i] # None
Live(i) == Exists(i) /\ ~rows[i].deleted
Owners(slug) == {i \in Ids : Exists(i) /\ rows[i].slug = slug}

SetRow(i, row) == rows' = [rows EXCEPT ![i] = row]

\* A new problem; the unique index counts deleted problems too.
Insert(slug) ==
    /\ Owners(slug) = {}
    /\ \E i \in Ids : ~Exists(i) /\ SetRow(i, [slug |-> slug, deleted |-> FALSE, submits |-> 0])

----------------------------------------------------------------------------
(* Administrators.                                                         *)

\* Requests and files name the tags of a problem; those that are missing are
\* created with it, also when they were deleted since they were looked up.
Tagged == tag' \in {tag, TRUE}

CreateProblem(slug) ==
    /\ Insert(slug) /\ Tagged
    /\ Change
    /\ UNCHANGED <<submissions, admin, server, import, update, submit, history>>

DeleteProblem(i) ==
    /\ Live(i)
    /\ SetRow(i, [rows[i] EXCEPT !.deleted = TRUE])
    /\ Change
    /\ UNCHANGED <<submissions, admin, tag, server, import, update, submit, history>>

ReadToUpdate(e, i) ==
    /\ update[e].pc = "new" /\ Live(i)
    /\ update' = [update EXCEPT ![e] = [pc |-> "write", id |-> i, row |-> rows[i]]]
    /\ Fine
    /\ UNCHANGED <<database, submissions, server, import, submit, history>>

\* adminCreateTag, adminUpdateTag and adminDeleteTag.
ChangeTag ==
    /\ tag' = ~tag
    /\ Change
    /\ UNCHANGED <<rows, submissions, admin, server, import, update, submit, history>>

EndUpdate(e) == update' = [update EXCEPT ![e] = [pc |-> "done"]]

\* A slug that somebody else has, a tag that somebody else is creating or any
\* other error undoes the transaction.
UpdateFails(e) ==
    /\ update[e].pc = "write"
    /\ EndUpdate(e)
    /\ Fine
    /\ UNCHANGED <<database, submissions, server, import, submit, history>>

\* Wrong variant: saves the whole problem as it was read.
UpdateWholeProblem(e, slug) ==
    LET i == update[e].id
    IN  /\ update[e].pc = "write"
        /\ IF Live(i)
           THEN Owners(slug) \subseteq {i} /\ SetRow(i, [update[e].row EXCEPT !.slug = slug])
           ELSE UNCHANGED rows
        /\ Tagged
        /\ EndUpdate(e)
        /\ Fine
        /\ UNCHANGED <<submissions, admin, server, import, submit, history>>

\* Writes the columns of the form and no other; a problem that was deleted
\* meanwhile gets only its tags.
UpdateProblem(e, slug) ==
    LET i == update[e].id
    IN  /\ update[e].pc = "write"
        /\ IF Live(i)
           THEN Owners(slug) \subseteq {i} /\ SetRow(i, [rows[i] EXCEPT !.slug = slug])
           ELSE UNCHANGED rows
        /\ Tagged
        /\ EndUpdate(e)
        /\ Fine
        /\ UNCHANGED <<submissions, admin, server, import, submit, history>>

----------------------------------------------------------------------------
(* Submissions and submit_count.                                           *)

ReadToSubmit(r, i) ==
    /\ submit[r].pc = "new" /\ Live(i)
    /\ submit' = [submit EXCEPT ![r] = [pc |-> "insert", id |-> i]]
    /\ Fine
    /\ UNCHANGED <<database, submissions, server, import, update, history>>

InsertSubmission(r) ==
    /\ submit[r].pc = "insert"
    /\ submissions' = [submissions EXCEPT ![submit[r].id] = @ + 1]
    /\ submit' = [submit EXCEPT ![r].pc = "count"]
    /\ Fine
    /\ UNCHANGED <<database, server, import, update, history>>

ReadByImport(i) == \E m \in Importers : import[m].pc = "save" /\ import[m].id = i

\* A statement of its own, after the insert: it does not find a problem that
\* was deleted meanwhile.
CountSubmission(r) ==
    LET i == submit[r].id
    IN  /\ submit[r].pc = "count"
        /\ IF Live(i)
           THEN /\ SetRow(i, [rows[i] EXCEPT !.submits = @ + 1])
                /\ overlapped' = IF ReadByImport(i) THEN overlapped \cup {i} ELSE overlapped
                /\ UNCHANGED missed
           ELSE missed' = missed \cup {i} /\ UNCHANGED <<rows, overlapped>>
        /\ submit' = [submit EXCEPT ![r] = [pc |-> "done"]]
        /\ Fine
        /\ UNCHANGED <<submissions, admin, tag, server, import, update>>

\* The statement fails, which is only logged, or the server dies before it.
CountFails(r) ==
    /\ submit[r].pc = "count"
    /\ missed' = missed \cup {submit[r].id}
    /\ submit' = [submit EXCEPT ![r] = [pc |-> "done"]]
    /\ Fault
    /\ UNCHANGED <<database, submissions, server, import, update, overlapped>>

----------------------------------------------------------------------------
(* import-problems: one transaction for each problem of the file.          *)

SetImport(m, state) == import' = [import EXCEPT ![m] = state]
FailImport(m) == SetImport(m, [pc |-> "failed"])

Found(m, name, id) ==
    /\ import[m].pc = "next" /\ name \in import[m].todo
    /\ SetImport(m, [pc |-> "save", todo |-> import[m].todo, name |-> name, id |-> id,
                     row |-> IF id = None THEN None ELSE rows[id], tag |-> tag])
    /\ Fine
    /\ UNCHANGED <<database, submissions, server, update, submit, history>>

\* Wrong variant: does not ask for deleted problems.
LookUpLive(m, name) ==
    \/ \E i \in Owners(name) : Live(i) /\ Found(m, name, i)
    \/ {i \in Owners(name) : Live(i)} = {} /\ Found(m, name, None)

\* Unscoped: the problem of the slug, deleted or not. The name is not trimmed
\* before, and with a blank in front it is no problem's slug.
LookUp(m, name) ==
    \/ \E i \in Owners(name) : Found(m, name, i)
    \/ Owners(name) = {} /\ Found(m, name, None)

\* The transaction sees the tags of its beginning; the file gives the sample
\* problem its tag.
Collides(s) ==
    \/ ~(Owners(Trim[s.name]) \subseteq {s.id})
    \/ Trim[s.name] = Sample /\ tag /\ ~s.tag

\* Creates the problem, or restores it and saves it whole, with the counters as
\* they were read; what is stored is the trimmed slug.
SaveProblem(m) ==
    LET s == import[m]
    IN  /\ s.pc = "save" /\ ~Collides(s)
        /\ IF s.id = None THEN Insert(Trim[s.name])
           ELSE SetRow(s.id, [s.row EXCEPT !.slug = Trim[s.name], !.deleted = FALSE])
        /\ tag' = (tag \/ Trim[s.name] = Sample)
        /\ SetImport(m, [pc |-> "next", todo |-> s.todo \ {s.name}])
        /\ Fine
        /\ UNCHANGED <<submissions, admin, server, update, submit, history>>

\* A slug or a tag that somebody else created meanwhile ends the tool.
ImportCollides(m) ==
    /\ import[m].pc = "save" /\ Collides(import[m])
    /\ FailImport(m)
    /\ Fine
    /\ UNCHANGED <<database, submissions, server, update, submit, history>>

\* A statement fails or the tool is stopped: the transaction is undone.
ImportFails(m) ==
    /\ import[m].pc \in {"next", "save"} /\ import[m].todo # {}
    /\ FailImport(m)
    /\ Fault
    /\ UNCHANGED <<database, submissions, server, update, submit, history>>

\* The operator starts the tool, for the first time or again, with a whole file,
\* the same or another one.
StartImport(m) ==
    /\ import[m] \in {[pc |-> "failed"], [pc |-> "next", todo |-> {}]}
    /\ \E file \in Files : SetImport(m, [pc |-> "next", todo |-> file])
    /\ Fine
    /\ UNCHANGED <<database, submissions, server, update, submit, history>>

----------------------------------------------------------------------------
(* Starts of API servers: SeedDefaults.  Each of the three rows is looked   *)
(* for and created when it is not found; an error ends the server.          *)

ServerGoto(v, l) == server' = [server EXCEPT ![v] = l]

Start(v) ==
    /\ server[v] \in {"down", "failed"}
    /\ ServerGoto(v, "admin")
    /\ Fine
    /\ UNCHANGED <<database, submissions, import, update, submit, history>>

FindAdmin(v) ==
    /\ server[v] = "admin"
    /\ ServerGoto(v, IF admin THEN "sample" ELSE "create admin")
    /\ Fine
    /\ UNCHANGED <<database, submissions, import, update, submit, history>>

CreateAdmin(v) ==
    /\ server[v] = "create admin"
    /\ admin' = TRUE
    /\ ServerGoto(v, IF admin THEN "failed" ELSE "sample")
    /\ Fine
    /\ UNCHANGED <<rows, tag, submissions, import, update, submit, history>>

\* Counts the problems of the slug that are not deleted.
CountSample(v) ==
    /\ server[v] = "sample"
    /\ ServerGoto(v, IF \E i \in Owners(Sample) : Live(i) THEN "up" ELSE "tag")
    /\ Fine
    /\ UNCHANGED <<database, submissions, import, update, submit, history>>

FindTag(v) ==
    /\ server[v] = "tag"
    /\ ServerGoto(v, IF tag THEN "create sample" ELSE "create tag")
    /\ Fine
    /\ UNCHANGED <<database, submissions, import, update, submit, history>>

CreateTag(v) ==
    /\ server[v] = "create tag"
    /\ tag' = TRUE
    /\ ServerGoto(v, IF tag THEN "failed" ELSE "create sample")
    /\ Fine
    /\ UNCHANGED <<rows, admin, submissions, import, update, submit, history>>

CreateSample(v) ==
    /\ server[v] = "create sample"
    /\ IF Owners(Sample) = {}
       THEN Insert(Sample) /\ tag' = TRUE /\ ServerGoto(v, "up")
       ELSE UNCHANGED <<rows, tag>> /\ ServerGoto(v, "failed")
    /\ Fine
    /\ UNCHANGED <<admin, submissions, import, update, submit, history>>

ServerStops(v) ==
    /\ server[v] \notin {"down", "failed"}
    /\ ServerGoto(v, "down")
    /\ Fault
    /\ UNCHANGED <<database, submissions, import, update, submit, history>>

----------------------------------------------------------------------------

Starting(v) == server[v] \notin {"down", "failed", "up"}
Importing(m) == import[m].pc = "save"

\* Somebody else changed the database since a start or a transaction of an
\* import began.
Observe ==
    disturbed' =
        {v \in Servers : Starting(v)' /\ (\/ Starting(v) /\ v \in disturbed
                                          \/ database' # database /\ server'[v] = server[v])}
        \cup {m \in Importers : Importing(m)' /\ (\/ Importing(m) /\ m \in disturbed
                                                  \/ database' # database /\ import'[m] = import[m])}

Step ==
    \/ \E slug \in Slugs : \/ CreateProblem(slug)
                           \/ \E e \in Updates : UpdateProblem(e, slug)
    \/ \E i \in Ids : \/ DeleteProblem(i)
                      \/ \E e \in Updates : ReadToUpdate(e, i)
                      \/ \E r \in Submits : ReadToSubmit(r, i)
    \/ \E e \in Updates : UpdateFails(e)
    \/ ChangeTag
    \/ \E r \in Submits : InsertSubmission(r) \/ CountSubmission(r) \/ CountFails(r)
    \/ \E m \in Importers : \/ StartImport(m) \/ \E name \in Names : LookUp(m, name)
                            \/ SaveProblem(m) \/ ImportCollides(m) \/ ImportFails(m)
    \/ \E v \in Servers : \/ Start(v) \/ FindAdmin(v) \/ CreateAdmin(v) \/ CountSample(v)
                          \/ FindTag(v) \/ CreateTag(v) \/ CreateSample(v) \/ ServerStops(v)

Next == Step /\ Observe

Spec == Init /\ [][Next]_vars

----------------------------------------------------------------------------
(* Properties.                                                             *)

\* Types of the tables and of everybody's progress; no two problems, deleted
\* ones included, have one slug.
TypeOK ==
    /\ rows \in [Ids -> Row \cup {None}]
    /\ \A i, j \in Ids : (Exists(i) /\ Exists(j) /\ rows[i].slug = rows[j].slug) => i = j
    /\ submissions \in [Ids -> Nat]
    /\ admin \in BOOLEAN /\ tag \in BOOLEAN
    /\ server \in [Servers -> {"down", "failed", "up", "admin", "create admin", "sample", "tag",
                               "create tag", "create sample"}]
    /\ import \in [Importers ->
                       [pc : {"next"}, todo : SUBSET Names] \cup [pc : {"failed"}]
                       \cup [pc : {"save"}, todo : SUBSET Names, name : Names,
                             id : Ids \cup {None}, row : Row \cup {None}, tag : BOOLEAN]]
    /\ update \in [Updates -> [pc : {"new", "done"}] \cup [pc : {"write"}, id : Ids, row : Row]]
    /\ submit \in [Submits -> [pc : {"new", "done"}] \cup [pc : {"insert", "count"}, id : Ids]]
    /\ missed \subseteq Ids /\ overlapped \subseteq Ids
    /\ disturbed \subseteq Servers \cup Importers
    /\ changes \in 0 .. MaxChanges /\ faults \in 0 .. MaxFaults

ToCount(i) == {r \in Submits : submit[r].pc = "count" /\ submit[r].id = i}

\* The types hold. "The submission row is authoritative. submit_count is a derived counter": it
\* is the number of submissions of the problem, less those about to be counted
\* or that could not be, however often the problem is edited, deleted and
\* restored -- unless an import reads the problem before and saves it after
\* a submission is counted.
CountsFollow ==
    /\ TypeOK
    /\ \A i \in Ids : (Exists(i) /\ i \notin missed \cup overlapped) =>
        rows[i].submits + Cardinality(ToCount(i)) = submissions[i]

\* The name has a blank in front and its slug is taken: by an earlier import of
\* the same file, for instance.
Misread(s) == Trim[s.name] # s.name /\ Owners(Trim[s.name]) # {}

\* An import that nobody disturbs does not fail on a slug, whatever
\* administrators, other imports and starts did before: also a problem that was
\* deleted or renamed to the slug is found and restored -- unless the file
\* spells the slug with a blank in front: that import succeeds only once.
ImportsSucceed ==
    [][\A m \in Importers :
          (import[m].pc = "save" /\ import'[m].pc = "failed" /\ faults' = faults) =>
              m \in disturbed \/ Misread(import[m])]_vars

\* A server that nobody disturbs starts, as often as it is started -- unless
\* the sample problem is deleted: its slug is taken, the seed does not find it
\* and no server ever starts again until it is restored.
StartsAgain ==
    [][\A v \in Servers :
          (Starting(v) /\ server'[v] = "failed") =>
              \/ v \in disturbed
              \/ \E i \in Owners(Sample) : rows[i].deleted]_vars

\* What was done before, by whomever, makes neither an import nor a start fail.
RepeatsSucceed == ImportsSucceed /\ StartsAgain
====
