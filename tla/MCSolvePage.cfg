\* One tab, two problems and a contest problem each, two languages.
CONSTANTS
    Tabs = {t1}
    Problems = {1, 2}
    Contests = {1}
    Languages = {cpp, py}
    Cpp = cpp
    Texts = {x}
    Blank = blank
    None = None
    MaxMoves = 4
SPECIFICATION SolveSpec
PROPERTIES
    LeavingKeepsEdits
\* What the user does is bounded.
CHECK_DEADLOCK FALSE
