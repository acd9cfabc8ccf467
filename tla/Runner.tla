---- MODULE Runner ----
(***************************************************************************)
(* Judging one submission: JudgeSubmission reads the submission with its   *)
(* problem, then the test cases, compiles the program, runs it on one case *)
(* after the other until one fails, stores a result row per case and at    *)
(* last the verdict.  Meanwhile administrators edit the test cases and the *)
(* limits or delete the problem, and the author runs self tests, which     *)
(* repeat compiling, running and comparing in code of their own.           *)
(***************************************************************************)
EXTENDS Arrangement, Sequences, SequencesExt, FiniteSetsExt

CONSTANTS
    CaseIds,        \* ids of test cases, in the order of their creation
    Contents,       \* what a test case may hold: sort order, input, expected output
    Limits,         \* time limits of a problem
    Inputs,
    Programs,       \* submissions: whether they compile, and their run on each input
    SelfTests,      \* inputs and expected outputs of self tests
    Grace,          \* the half second on top of the time limit
    MaxEdits,       \* bound: edits of the problem
    MaxFaults,      \* bound: failures of the database, of commands and of the worker
    None,           \* no test case yet, no self test
    Deleted         \* a test case that was deleted

Characters == {"a", "b", "sp", "tab", "nl", "cr"}

ASSUME RunnerAssumption ==
    /\ CaseIds \subseteq Nat /\ IsFiniteSet(CaseIds)
    /\ Contents \subseteq [sort : Nat, input : Inputs, expected : Seq(Characters)]
    /\ Limits \subseteq Nat \ {0}
    /\ Programs \subseteq
           [compiles : BOOLEAN,
            run : [Inputs -> [time : Nat, exit : Nat, output : Seq(Characters)]]]
    /\ SelfTests \subseteq [input : Inputs, expected : Seq(Characters)]
    /\ Grace \in Nat /\ MaxEdits \in Nat /\ MaxFaults \in Nat
    /\ None \notin Contents /\ Deleted \notin Contents

VARIABLES
    limit,          \* problems.time_limit_ms, 0 once the problem is deleted
    cases,          \* rows of test_cases that are not deleted
    program,        \* what the submitted program does
    status,         \* submissions.status
    time,           \* submissions.time_used_ms
    results,        \* rows of submission_results, in the order of insertion
    pc,
    runLimit,       \* submission.Problem.TimeLimitMS as this run has read it
    testCases,      \* the test cases as this run has read them
    index,          \* test cases this run has run
    worst,          \* maxTimeMS
    finalStatus,
    killed,         \* history: the worker was stopped during a command of this run
    selfTest,       \* the self test: its request, the limit it read, its answer
    edits, faults

problemVars == <<limit, cases>>
rowVars == <<status, time, results>>
runVars == <<pc, runLimit, testCases, index, worst, finalStatus, killed>>
vars == <<problemVars, program, rowVars, runVars, selfTest, edits, faults>>

Init ==
    /\ limit \in Limits
    /\ cases \in [CaseIds -> Contents \cup {None}]
    /\ \A i, j \in CaseIds : i < j /\ cases[i] = None => cases[j] = None
    /\ program \in Programs
    /\ status = "Pending" /\ time = 0 /\ results = <<>>
    /\ pc = "load"
    /\ runLimit = 0 /\ testCases = <<>> /\ index = 0 /\ worst = 0
    /\ finalStatus = "Accepted" /\ killed = FALSE
    /\ selfTest = None
    /\ edits = 0 /\ faults = 0

Fault == faults < MaxFaults /\ faults' = faults + 1
Fine == UNCHANGED faults

----------------------------------------------------------------------------
(* Comparing outputs.                                                      *)

Blank(ch) == ch \in {"sp", "tab"}
Space(ch) == ch \in {"sp", "tab", "nl", "cr"}

\* What a text says at the places of S.
At(s, S) ==
    LET places == Arrange(S, {p \in S \X S : p[1] < p[2]})
    IN  [k \in DOMAIN places |-> s[places[k]]]

\* Both replacements of line ends: "\r\n" by "\n", then "\r" by "\n".
UnifyLineEnds(s) ==
    At([n \in DOMAIN s |-> IF s[n] = "cr" THEN "nl" ELSE s[n]],
       {n \in DOMAIN s : ~(s[n] = "cr" /\ n < Len(s) /\ s[n + 1] = "nl")})

\* TrimRight of every line: a blank stays in front of something else in its line.
TrimLines(s) ==
    At(s, {n \in DOMAIN s :
              Blank(s[n]) => \E m \in n .. Len(s) : /\ \A k \in n .. m - 1 : Blank(s[k])
                                                    /\ ~Blank(s[m]) /\ s[m] # "nl"})

Visible(s) == {n \in DOMAIN s : ~Space(s[n])}

TrimSpace(s) ==
    IF Visible(s) = {} THEN <<>> ELSE SubSeq(s, Min(Visible(s)), Max(Visible(s)))

Texts == {c.expected : c \in Contents \cup SelfTests}
         \cup {p.run[i].output : p \in Programs, i \in Inputs}

\* Wrong variants: lines keep the blanks at their ends; every "\r" is a line end.
normalizeKeepingBlanks == [s \in Texts |-> TrimSpace(UnifyLineEnds(s))]

normalizeOutput == [s \in Texts |-> TrimSpace(TrimLines(UnifyLineEnds(s)))]

----------------------------------------------------------------------------
(* Commands.                                                               *)

Fits(run, l) == run.time <= l + Grace

\* The order of the tests for an outcome: time, memory, exit code, output.
CaseStatus(run, l, expected) ==
    CASE ~Fits(run, l) -> "Time Limit Exceeded"
      [] Fits(run, l) /\ run.exit = 137 -> "Memory Limit Exceeded"
      [] Fits(run, l) /\ run.exit \notin {0, 137} -> "Runtime Error"
      [] OTHER -> IF normalizeOutput[run.output] = normalizeOutput[expected]
                  THEN "Accepted" ELSE "Wrong Answer"

\* A command that overruns is killed at the limit.
Duration(run, l) == IF Fits(run, l) THEN run.time ELSE l + Grace

----------------------------------------------------------------------------
(* JudgeSubmission.                                                        *)

Goto(l) == pc' = l

\* The submission is read with its problem; a deleted problem is not found and
\* leaves the zero value, which is no error.
LoadSubmission ==
    /\ pc = "load"
    /\ runLimit' = limit
    /\ killed' = FALSE
    /\ Goto("cases")
    /\ Fine
    /\ UNCHANGED <<problemVars, program, rowVars, testCases, index, worst, finalStatus, selfTest, edits>>

Exists(i) == cases[i] \notin {None, Deleted}

\* By sort order, then by id.
Earlier(i, j) ==
    \/ cases[i].sort < cases[j].sort
    \/ cases[i].sort = cases[j].sort /\ i < j

Sorted ==
    LET there == {i \in CaseIds : Exists(i)}
    IN  Arrange(there, {p \in there \X there : Earlier(p[1], p[2])})

\* Without test cases the submission ends as System Error.
LoadCases ==
    /\ pc = "cases"
    /\ testCases' = [n \in DOMAIN Sorted |-> [id |-> Sorted[n], case |-> cases[Sorted[n]]]]
    /\ index' = 0
    /\ IF Sorted = <<>> THEN status' = "System Error" /\ Goto("done")
                        ELSE UNCHANGED status /\ Goto("judging")
    /\ Fine
    /\ UNCHANGED <<problemVars, program, time, results, runLimit, worst, finalStatus,
                   killed, selfTest, edits>>

MarkJudging ==
    /\ pc = "judging"
    /\ status' = "Judging"
    /\ Goto("clear")
    /\ Fine
    /\ UNCHANGED <<problemVars, program, time, results, runLimit, testCases, index, worst, finalStatus,
                   killed, selfTest, edits>>

\* Wrong variant: the rows of an earlier attempt stay.
KeepResults ==
    /\ pc = "clear"
    /\ Goto("compile")
    /\ Fine
    /\ UNCHANGED <<problemVars, program, rowVars, runLimit, testCases, index, worst, finalStatus, killed,
                   selfTest, edits>>

DeleteResults ==
    /\ pc = "clear"
    /\ results' = <<>>
    /\ Goto("compile")
    /\ Fine
    /\ UNCHANGED <<problemVars, program, status, time, runLimit, testCases, index, worst, finalStatus,
                   killed, selfTest, edits>>

CompileError == status' = "Compile Error" /\ Goto("done")

\* A compiler that fails or takes more than 30 seconds ends the run.
Compile ==
    /\ pc = "compile"
    /\ IF program.compiles THEN Goto("run") /\ UNCHANGED status ELSE CompileError
    /\ worst' = 0 /\ finalStatus' = "Accepted"
    /\ Fine
    /\ UNCHANGED <<problemVars, program, time, results, runLimit, testCases, index, killed, selfTest,
                   edits>>

\* Wrong variant: the loop goes on after a failure.
RecordAll(s, t) ==
    /\ index' = index + 1
    /\ results' = Append(results, [id |-> testCases[index'].id, status |-> s, time |-> t])
    /\ worst' = IF t > worst THEN t ELSE worst
    /\ finalStatus' = s
    /\ Goto(IF index' < Len(testCases) THEN "run" ELSE "final")

\* The row of the next case is inserted; the first failure ends the loop.
Record(s, t) ==
    /\ index' = index + 1
    /\ results' = Append(results, [id |-> testCases[index'].id, status |-> s, time |-> t])
    /\ worst' = IF t > worst THEN t ELSE worst
    /\ finalStatus' = IF s = "Accepted" THEN finalStatus ELSE s
    /\ Goto(IF s = "Accepted" /\ index' < Len(testCases) THEN "run" ELSE "final")

RunCase ==
    /\ pc = "run"
    /\ LET next == testCases[index + 1].case
           run == program.run[next.input]
       IN  Record(CaseStatus(run, runLimit, next.expected), Duration(run, runLimit))
    /\ Fine
    /\ UNCHANGED <<problemVars, program, status, time, runLimit, testCases, killed, selfTest, edits>>

WriteVerdict ==
    /\ pc = "final"
    /\ status' = finalStatus /\ time' = worst
    /\ Goto("done")
    /\ Fine
    /\ UNCHANGED <<problemVars, program, results, runLimit, testCases, index, worst, finalStatus, killed,
                   selfTest, edits>>

\* SIGTERM of the worker kills the command: its exit code -1 is taken for the
\* compiler's or the program's.
KilledByShutdown ==
    /\ \/ pc = "compile" /\ CompileError /\ UNCHANGED <<results, index, worst, finalStatus>>
       \/ pc = "run" /\ Record("Runtime Error", 0) /\ UNCHANGED status
    /\ killed' = TRUE
    /\ Fault
    /\ UNCHANGED <<problemVars, program, time, runLimit, testCases, selfTest, edits>>

\* A file cannot be written, or a command cannot be started.
CommandFails ==
    /\ pc \in {"compile", "run"}
    /\ status' = "System Error"
    /\ Goto("done")
    /\ Fault
    /\ UNCHANGED <<problemVars, program, time, results, runLimit, testCases, index, worst, finalStatus,
                   killed, selfTest, edits>>

\* A statement of the database fails: JudgeSubmission returns the error.
DatabaseFails ==
    /\ pc \notin {"done", "failed"}
    /\ Goto("failed")
    /\ Fault
    /\ UNCHANGED <<problemVars, program, rowVars, runLimit, testCases, index, worst, finalStatus, killed,
                   selfTest, edits>>

\* The worker's next attempt, or its end of the attempts.
Retry ==
    /\ pc = "failed"
    /\ \/ status' = "Pending" /\ Goto("load")
       \/ status' = "System Error" /\ Goto("done")
    /\ Fine
    /\ UNCHANGED <<problemVars, program, time, results, runLimit, testCases, index, worst, finalStatus,
                   killed, selfTest, edits>>

----------------------------------------------------------------------------
(* RunSelfTest.                                                            *)

\* Wrong variant: exit codes are looked at before the time.
SelfTestExitFirst(run, l, expected) ==
    CASE run.exit = 137 -> "Memory Limit Exceeded"
      [] run.exit \notin {0, 137} -> "Runtime Error"
      [] run.exit = 0 /\ ~Fits(run, l) -> "Time Limit Exceeded"
      [] OTHER -> IF normalizeOutput[run.output] # normalizeOutput[expected]
                  THEN "Wrong Answer" ELSE "Accepted"

\* Without an expected output a run that ends well is Accepted.
SelfTestStatus(run, l, expected) ==
    CASE ~Fits(run, l) -> "Time Limit Exceeded"
      [] Fits(run, l) /\ run.exit = 137 -> "Memory Limit Exceeded"
      [] Fits(run, l) /\ run.exit \notin {0, 137} -> "Runtime Error"
      [] OTHER -> IF /\ TrimSpace(expected) # <<>>
                     /\ normalizeOutput[run.output] # normalizeOutput[expected]
                  THEN "Wrong Answer" ELSE "Accepted"

\* The handler reads the limit of the problem, which must not be deleted.
RequestSelfTest(t) ==
    /\ selfTest = None /\ limit > 0
    /\ selfTest' = [input |-> t.input, expected |-> t.expected, limit |-> limit, answer |-> "none"]
    /\ Fine
    /\ UNCHANGED <<problemVars, program, rowVars, runVars, edits>>

RunSelfTest ==
    /\ selfTest # None /\ selfTest.answer = "none"
    /\ selfTest' = [selfTest EXCEPT !.answer =
                       IF ~program.compiles THEN "Compile Error"
                       ELSE SelfTestStatus(program.run[selfTest.input], selfTest.limit,
                                           selfTest.expected)]
    /\ Fine
    /\ UNCHANGED <<problemVars, program, rowVars, runVars, edits>>

SelfTestFails ==
    /\ selfTest # None /\ selfTest.answer = "none"
    /\ selfTest' = [selfTest EXCEPT !.answer = "System Error"]
    /\ Fault
    /\ UNCHANGED <<problemVars, program, rowVars, runVars, edits>>

----------------------------------------------------------------------------
(* Administrators.                                                         *)

Edit == edits < MaxEdits /\ edits' = edits + 1

Valid == {c \in Contents : TrimSpace(c.expected) # <<>>}

\* None of the test case handlers looks at the problem.
CreateTestCase(i, c) ==
    /\ c \in Valid
    /\ cases[i] = None /\ \A j \in CaseIds : j < i => cases[j] # None
    /\ cases' = [cases EXCEPT ![i] = c]
    /\ Edit /\ Fine
    /\ UNCHANGED <<limit, program, rowVars, runVars, selfTest>>

UpdateTestCase(i, c) ==
    /\ c \in Valid /\ Exists(i)
    /\ cases' = [cases EXCEPT ![i] = c]
    /\ Edit /\ Fine
    /\ UNCHANGED <<limit, program, rowVars, runVars, selfTest>>

DeleteTestCase(i) ==
    /\ Exists(i)
    /\ cases' = [cases EXCEPT ![i] = Deleted]
    /\ Edit /\ Fine
    /\ UNCHANGED <<limit, program, rowVars, runVars, selfTest>>

ChangeLimit(l) ==
    /\ limit > 0 /\ limit' = l
    /\ Edit /\ Fine
    /\ UNCHANGED <<cases, program, rowVars, runVars, selfTest>>

DeleteProblem ==
    /\ limit > 0 /\ limit' = 0
    /\ Edit /\ Fine
    /\ UNCHANGED <<cases, program, rowVars, runVars, selfTest>>

\* A file's texts lose their trailing line ends; what is left may be blank.
Importable ==
    {c \in Contents : /\ c.sort > 0 /\ c.expected # <<>>
                      /\ Last(c.expected) \notin {"cr", "nl"}}

\* The import tool, in one transaction: a deleted problem comes back, all its
\* test cases go, those of the file are created.
ImportProblem(file, l) ==
    /\ DOMAIN file # {}
    /\ \A i \in DOMAIN file : cases[i] = None
    /\ \A i \in DOMAIN file, j \in CaseIds \ DOMAIN file : j < i => cases[j] # None
    /\ limit' = l
    /\ cases' = [i \in CaseIds |-> IF i \in DOMAIN file THEN file[i]
                                  ELSE IF Exists(i) THEN Deleted ELSE cases[i]]
    /\ Edit /\ Fine
    /\ UNCHANGED <<program, rowVars, runVars, selfTest>>

Next ==
    \/ LoadSubmission \/ LoadCases \/ MarkJudging \/ DeleteResults
    \/ Compile \/ RunCase \/ WriteVerdict
    \/ KilledByShutdown \/ CommandFails \/ DatabaseFails \/ Retry
    \/ \E t \in SelfTests : RequestSelfTest(t)
    \/ RunSelfTest \/ SelfTestFails
    \/ \E i \in CaseIds : \/ DeleteTestCase(i)
                          \/ \E c \in Contents : CreateTestCase(i, c) \/ UpdateTestCase(i, c)
    \/ \E l \in Limits : \/ ChangeLimit(l)
                        \/ \E ids \in SUBSET CaseIds : \E file \in [ids -> Importable] :
                              ImportProblem(file, l)
    \/ DeleteProblem

Spec == Init /\ [][Next]_vars

----------------------------------------------------------------------------
(* Properties.                                                             *)

Outcomes == {"Accepted", "Wrong Answer", "Runtime Error", "Time Limit Exceeded",
             "Memory Limit Exceeded"}

\* Types of the problem, the submission with its rows, the run and the self test.
TypeOK ==
    /\ limit \in Limits \cup {0}
    /\ cases \in [CaseIds -> Contents \cup {None, Deleted}]
    /\ program \in Programs
    /\ status \in Outcomes \cup {"Pending", "Judging", "Compile Error", "System Error"}
    /\ time \in Nat /\ worst \in Nat
    /\ results \in Seq([id : CaseIds, status : Outcomes, time : Nat])
    /\ pc \in {"load", "cases", "judging", "clear", "compile", "run", "final", "failed", "done"}
    /\ runLimit \in Limits \cup {0}
    /\ testCases \in Seq([id : CaseIds, case : Contents])
    /\ index \in 0 .. Len(testCases) /\ (pc = "run" => index < Len(testCases))
    /\ finalStatus \in Outcomes /\ killed \in BOOLEAN
    /\ selfTest \in {None} \cup
           [input : Inputs, expected : Seq(Characters), limit : Limits,
            answer : Outcomes \cup {"none", "Compile Error", "System Error"}]
    /\ edits \in 0 .. MaxEdits /\ faults \in 0 .. MaxFaults

\* The types hold, and the rows and the verdict tell one story, after any number
\* of failed attempts and edits: the rows are the first test cases of one list in order, all but
\* the last are Accepted, the verdict is that of the last and the time is the
\* longest; Accepted needs a row for every test case, a compile error has none.
RowsTellTheVerdict ==
    /\ TypeOK
    /\ pc = "done" =>
        /\ status = "Compile Error" => results = <<>>
        /\ status \in Outcomes =>
              LET last == Len(results)
              IN  /\ last \in 1 .. Len(testCases)
                  /\ \A n \in 1 .. last : results[n].id = testCases[n].id
                  /\ \A n \in 1 .. last - 1 : results[n].status = "Accepted"
                  /\ results[last].status = status
                  /\ status = "Accepted" => last = Len(testCases)
                  /\ \A n \in 1 .. last : results[n].time <= time
                  /\ \E n \in 1 .. last : results[n].time = time

\* The characters one can see, each with its row below the first of them and
\* the blanks in front of it, those before the first one left out.
LineEnd(s, n) == s[n] = "nl" \/ (s[n] = "cr" /\ ~(n < Len(s) /\ s[n + 1] = "nl"))
Rank(s, n) == Cardinality({m \in Visible(s) : m < n})
RowOf(s, n) ==
    Cardinality({m \in DOMAIN s : m < n /\ LineEnd(s, m) /\ \E v \in Visible(s) : v < m})
\* The blanks from b on are those in front of n.
BlanksFrom(s, b, n) ==
    /\ \A m \in b .. n - 1 : Blank(s[m])
    /\ b = 1 \/ ~Blank(s[b - 1])
BlanksBefore(s, n) ==
    IF \A m \in Visible(s) : m >= n THEN <<>>
    ELSE SubSeq(s, CHOOSE b \in 1 .. n : BlanksFrom(s, b, n), n - 1)
Layout(s) ==
    {[char |-> s[n], rank |-> Rank(s, n), row |-> RowOf(s, n), blanks |-> BlanksBefore(s, n)] :
        n \in Visible(s)}
SameText(x, y) == Layout(x) = Layout(y)

\* What a test case asks of a program.
Passes(run, l, expected) == run.time <= l + Grace /\ run.exit = 0 /\ SameText(run.output, expected)

\* A program is Accepted exactly when it compiles and passes every test case of
\* the list that was judged, whatever the order of the checks: line ends, blanks
\* at the end of lines and empty lines around the output do not count, all
\* else does.
AcceptedIffAllPass ==
    (pc = "done" /\ ~killed /\ status \in Outcomes \cup {"Compile Error"}) =>
        (status = "Accepted" <=>
            /\ program.compiles
            /\ \A n \in DOMAIN testCases :
                  LET case == testCases[n].case
                  IN  Passes(program.run[case.input], runLimit, case.expected))

\* The self test says of an input and an expected output what the judge says of
\* a test case with the two, under the same limit; unless the expected output is
\* blank, which the self test does not compare (self_examine.go:175) and the
\* judge does, and which an imported test case may be.
SelfTestAgrees ==
    (pc = "done" /\ ~killed /\ selfTest # None /\ selfTest.answer \in Outcomes) =>
        /\ status # "Compile Error"
        /\ status \in Outcomes /\ TrimSpace(selfTest.expected) # <<>> =>
              \A n \in DOMAIN results :
                  (/\ testCases[n].case.input = selfTest.input
                   /\ testCases[n].case.expected = selfTest.expected
                   /\ runLimit = selfTest.limit) => results[n].status = selfTest.answer
====
