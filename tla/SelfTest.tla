---- MODULE SelfTest ----
(***************************************************************************)
(* SelfTestPanel.tsx: a run of the code on an input of the user's, whose   *)
(* result is shown beside fields that may have changed while it was under  *)
(* way.  The pages around it give the endpoint and the language.           *)
(***************************************************************************)
EXTENDS ClientValues

CONSTANTS
    Endpoints,  \* of problems, and of problems in contests
    Lines       \* inputs and outputs, not blank

ASSUME SelfTestAssumption ==
    None \notin {"error", "passed", "differs"} \cup Endpoints /\ Blank \notin Lines

VARIABLES
    endpoint, testLanguage,
    input, expected,    \* the two fields
    running,            \* the request under way, or None
    result,             \* the answer shown, or None
    changed             \* history: the page changed since the request was sent

testVars == <<endpoint, testLanguage, input, expected, running, result, changed>>

FieldTexts == Lines \cup {Blank}
Runs == [endpoint : Endpoints, language : Languages, input : FieldTexts, expected : FieldTexts]
Statuses == {"Accepted", "Wrong Answer", "Failed"}
Results == [of : Runs, status : Statuses, output : FieldTexts, late : BOOLEAN]

SelfTestTypeOK ==
    /\ endpoint \in Endpoints \cup {None} /\ testLanguage \in Languages
    /\ input \in FieldTexts /\ expected \in FieldTexts
    /\ running \in Runs \cup {None} /\ result \in Results \cup {None}
    /\ changed \in BOOLEAN

SelfTestInit ==
    /\ endpoint = None /\ testLanguage \in Languages
    /\ input = Blank /\ expected = Blank
    /\ running = None /\ result = None
    /\ changed = FALSE

TestNow == [endpoint |-> endpoint, language |-> testLanguage, input |-> input,
            expected |-> expected]

\* The panel is mounted when it is opened: it knows nothing of earlier runs.
OpenPanel ==
    /\ endpoint = None
    /\ endpoint' \in Endpoints
    /\ input' = Blank /\ expected' = Blank /\ running' = None /\ result' = None
    /\ changed' = FALSE
    /\ UNCHANGED testLanguage

ClosePanel ==
    /\ endpoint # None
    /\ endpoint' = None
    /\ input' = Blank /\ expected' = Blank /\ running' = None /\ result' = None
    /\ changed' = FALSE
    /\ UNCHANGED testLanguage

Changed == changed' = TRUE

\* Wrong variant: the result stays when the language changes.
ClearOnEndpoint ==
    /\ endpoint # None
    /\ endpoint' \in Endpoints /\ testLanguage' \in Languages
    /\ <<endpoint', testLanguage'>> # <<endpoint, testLanguage>>
    /\ result' = IF endpoint' = endpoint THEN result ELSE None
    /\ Changed
    /\ UNCHANGED <<input, expected, running>>
\* The page shows another problem, or another language: the effect clears the result.
ChangeSubject ==
    /\ endpoint # None
    /\ endpoint' \in Endpoints /\ testLanguage' \in Languages
    /\ <<endpoint', testLanguage'>> # <<endpoint, testLanguage>>
    /\ result' = None
    /\ Changed
    /\ UNCHANGED <<input, expected, running>>

\* A sample button, or the user's typing; nothing is disabled during a run.
FillFields(i, e) ==
    /\ endpoint # None
    /\ <<i, e>> # <<input, expected>>
    /\ input' = i /\ expected' = e
    /\ result' = None
    /\ Changed
    /\ UNCHANGED <<endpoint, testLanguage, running>>

EditFields ==
    \/ \E i \in FieldTexts : FillFields(i, expected)
    \/ \E e \in FieldTexts : FillFields(input, e)

FillSample == \E i, e \in Lines : FillFields(i, e)

\* The button shows that a run is under way and takes no other click.
RunSelfTest ==
    /\ endpoint # None /\ running = None
    /\ running' = TestNow
    /\ changed' = FALSE
    /\ UNCHANGED <<endpoint, testLanguage, input, expected, result>>

\* What the server answers; it compares only when an output is expected.
Verdict(run, output) ==
    IF run.expected \in {Blank, output} THEN "Accepted" ELSE "Wrong Answer"

SelfTestAnswers ==
    /\ running # None
    /\ running' = None
    /\ \/ \E o \in FieldTexts, s \in Statuses :
              /\ s \in {Verdict(running, o), "Failed"}
              /\ result' = [of |-> running, status |-> s, output |-> o,
                            late |-> changed]
       \/ UNCHANGED result
    /\ UNCHANGED <<endpoint, testLanguage, input, expected, changed>>

\* getMessage: decided by the field as it is now, not as it was sent.
ResultMessage ==
    IF result = None THEN None
    ELSE IF result.status = "Failed" THEN "error"
    ELSE IF expected = Blank THEN None
    ELSE IF result.status = "Accepted" THEN "passed" ELSE "differs"

SelfTestNext ==
    \/ OpenPanel \/ ClosePanel \/ ChangeSubject
    \/ EditFields \/ FillSample \/ RunSelfTest \/ SelfTestAnswers

SelfTestSpec == SelfTestInit /\ [][SelfTestNext]_testVars

-----------------------------------------------------------------------------
(* The result on the screen belongs to the problem, the language and the    *)
(* fields on the screen, and the message tells how its output compares with *)
(* the expected one (SelfTestPanel.tsx:37, :46), unless something changed   *)
(* while the run was under way: its answer is then shown all the same.      *)
ResultFitsTheFields ==
    result # None /\ ~result.late =>
        /\ result.of = TestNow
        /\ ResultMessage = "passed" => result.output = expected
        /\ ResultMessage = "differs" => result.output # expected
====
