------------------------------ MODULE Terminal ------------------------------
(***************************************************************************)
(* What the console promises its callers: rows of characters and a cursor. *)
(* Every character printed stays until it is overwritten, cleared or moved *)
(* out at the top; behind the last row everything moves up by a row.       *)
(***************************************************************************)
EXTENDS Integers

CONSTANTS
    Width,      \* characters in a row
    Last,       \* number of the last row, counted from 0
    Symbols,    \* what a place can show
    Blank,
    Spinner     \* what the timer shows at the right end of the first row

VARIABLES rows, x, y

vars == <<rows, x, y>>

Columns == 0 .. Width - 1
Rows == 0 .. Last

Init ==
    /\ rows \in [Rows -> [Columns -> Symbols]]
    /\ x = 0
    /\ y = 0

BlankRow == [c \in Columns |-> Blank]

\* Everything moves up by a row.
Scrolled(screen) ==
    [r \in Rows |-> IF r < Last THEN screen[r + 1] ELSE BlankRow]

NextRow == IF y < Last THEN y + 1 ELSE y

\* The screen with room for another row below the cursor's.
Advanced == IF y < Last THEN rows ELSE Scrolled(rows)

NewLine ==
    /\ rows' = Advanced
    /\ x' = 0
    /\ y' = NextRow

\* A character goes to the cursor; behind a full row it starts the next one.
Put(c) ==
    \/ /\ x < Width
       /\ rows' = [rows EXCEPT ![y][x] = c]
       /\ x' = x + 1
       /\ y' = y
    \/ /\ x = Width
       /\ rows' = [Advanced EXCEPT ![NextRow][0] = c]
       /\ x' = 1
       /\ y' = NextRow

Clear ==
    /\ rows' = [r \in Rows |-> BlankRow]
    /\ x' = 0
    /\ y' = 0

MoveCursor ==
    /\ x' \in 0 .. Width
    /\ y' \in Rows
    /\ UNCHANGED rows

Tick ==
    /\ rows' = [rows EXCEPT ![0][Width - 1] = Spinner]
    /\ UNCHANGED <<x, y>>

Next ==
    \/ \E c \in Symbols : Put(c)
    \/ NewLine
    \/ Clear
    \/ MoveCursor
    \/ Tick

Spec == Init /\ [][Next]_vars
=============================================================================
