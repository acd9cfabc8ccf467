---- MODULE DraftBook ----
(***************************************************************************)
(* What the two pages with an editor promise about drafts: a book with one *)
(* text for each key, which the tabs of a browser share.  A tab that opens *)
(* a key shows the text of the book; it changes the text on its screen,    *)
(* and writes it to the book, under the open key and no other, at any time *)
(* or never.  SolvePage implements it with local storage and timers.       *)
(***************************************************************************)
CONSTANTS
    Tabs, Keys, Texts,
    Blank,      \* the empty text
    NoKey       \* nothing is open

VARIABLES
    open,       \* tab -> the key it shows
    screen,     \* tab -> the text in its editor
    book        \* key -> text

bookVars == <<open, screen, book>>

BookInit ==
    /\ open = [t \in Tabs |-> NoKey]
    /\ screen = [t \in Tabs |-> Blank]
    /\ book = [k \in Keys |-> Blank]

Turn(t, k) ==
    /\ open' = [open EXCEPT ![t] = k]
    /\ screen' = [screen EXCEPT ![t] = book[k]]
    /\ UNCHANGED book

Close(t) ==
    /\ open' = [open EXCEPT ![t] = NoKey]
    /\ screen' = [screen EXCEPT ![t] = Blank]
    /\ UNCHANGED book

Type(t, x) ==
    /\ open[t] \in Keys
    /\ screen' = [screen EXCEPT ![t] = x]
    /\ UNCHANGED <<open, book>>

Write(t) ==
    /\ open[t] \in Keys
    /\ book' = [book EXCEPT ![open[t]] = screen[t]]
    /\ UNCHANGED <<open, screen>>

Erase(t) ==
    /\ open[t] \in Keys
    /\ screen' = [screen EXCEPT ![t] = Blank]
    /\ book' = [book EXCEPT ![open[t]] = Blank]
    /\ UNCHANGED open

BookNext ==
    \E t \in Tabs :
        \/ Close(t) \/ Write(t) \/ Erase(t)
        \/ \E k \in Keys : Turn(t, k)
        \/ \E x \in Texts : Type(t, x)

BookSpec == BookInit /\ [][BookNext]_bookVars
====
