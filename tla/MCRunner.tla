---- MODULE MCRunner ----
(***************************************************************************)
(* An instance of Runner for TLC: two test cases that differ in order,     *)
(* input and expected output, and programs that print the answer in        *)
(* several layouts, a wrong one, take too long, fail or are out of memory. *)
(***************************************************************************)
EXTENDS Runner

CONSTANTS i1, i2

Case(s, i, text) == [sort |-> s, input |-> i, expected |-> text]
Run(t, code, text) == [time |-> t, exit |-> code, output |-> text]

TwoRows == <<"a", "nl", "sp", "b", "nl">>

\* The last one can only have been imported.
MCContents == {Case(1, i1, <<"a">>), Case(2, i2, <<"a">>), Case(1, i2, TwoRows),
               Case(1, i2, <<"sp">>)}

\* The answer "a" with blanks and an empty line around it, the two rows with
\* other line ends, and "a" after the time.
Padded == Run(1, 0, <<"nl", "sp", "a", "tab", "cr", "nl">>)
OtherEnds == Run(2, 0, <<"a", "sp", "cr", "sp", "b">>)
Slow == Run(3, 0, <<"a">>)

MCPrograms ==
    [compiles : {TRUE},
     run : {[i \in {i1, i2} |-> IF i = i1 THEN Padded ELSE r] :
               r \in {Padded, OtherEnds, Slow,
                      Run(1, 0, <<"a", "cr", "cr", "nl", "sp", "b">>),
                      Run(1, 0, <<"a", "nl", "b">>),
                      Run(1, 1, <<"a">>), Run(4, 137, <<>>), Run(2, 137, <<>>)}}
           \cup {[i \in {i1, i2} |-> IF i = i1 THEN Slow ELSE Padded]}]
    \cup [compiles : {FALSE}, run : {[i \in {i1, i2} |-> Padded]}]

MCSelfTests == [input : {i2}, expected : {TwoRows, <<"a">>, <<"sp">>}]
====
