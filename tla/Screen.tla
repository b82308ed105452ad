------------------------------- MODULE Screen -------------------------------
(***************************************************************************)
(* The console, kernel/src/code/screen.c, and the timer interrupt          *)
(* (kernel/src/code/cpu/timer-isr.s), which shares the text buffer with it.*)
(*                                                                         *)
(* The text buffer is one array of characters; the console uses its rows   *)
(* 0 to SCREEN_HIGHT.  Every other row of the buffer is kept as one row,   *)
(* SCREEN_HIGHT + 1.  Attributes and number formats are left out: a number *)
(* is so many characters.                                                  *)
(***************************************************************************)
EXTENDS Integers

CONSTANTS
    SCREEN_WIDTH,   \* 80
    SCREEN_HIGHT,   \* 19, the number of the last row
    Chars,          \* the characters callers print
    Blank,          \* a space, or the 0 screenUp fills with
    Firmware,       \* what the firmware left on the screen
    Spinner         \* what syscounter_isr shows

ASSUME ScreenAssumption ==
    /\ SCREEN_WIDTH \in Nat \ {0}
    /\ SCREEN_HIGHT \in Nat \ {0}
    /\ Blank \in Chars
    /\ Spinner \notin Chars \cup {Firmware}

VARIABLES
    cells,          \* the characters of the text buffer
    cur_X, cur_Y,   \* where the next character goes
    printStatus,    \* 1: screenPrint prints nothing
    IF_flag         \* interrupts are enabled

vars == <<cells, cur_X, cur_Y, printStatus, IF_flag>>

Symbols == Chars \cup {Firmware, Spinner}

Positions == 0 .. (SCREEN_HIGHT + 2) * SCREEN_WIDTH - 1

TypeOK ==
    /\ cells \in [Positions -> Symbols]
    /\ cur_X \in 0 .. SCREEN_WIDTH
    /\ cur_Y \in 0 .. SCREEN_HIGHT
    /\ printStatus \in {0, 1}
    /\ IF_flag \in BOOLEAN

Init ==
    /\ cells = [p \in Positions |-> Firmware]
    /\ cur_X = 0
    /\ cur_Y = 0
    /\ printStatus = 0
    /\ IF_flag = FALSE

\* Mutant: the last row is left out.
screenUp_Short(buffer) ==
    [p \in Positions |->
        CASE p < (SCREEN_HIGHT - 1) * SCREEN_WIDTH -> buffer[p + SCREEN_WIDTH]
          [] p >= SCREEN_HIGHT * SCREEN_WIDTH /\ p < (SCREEN_HIGHT + 1) * SCREEN_WIDTH -> Blank
          [] OTHER -> buffer[p]]

\* Mutant: the rows move down.
screenUp_Down(buffer) ==
    [p \in Positions |->
        CASE p < SCREEN_WIDTH -> Blank
          [] p < (SCREEN_HIGHT + 1) * SCREEN_WIDTH -> buffer[p - SCREEN_WIDTH]
          [] OTHER -> buffer[p]]

\* The buffer after screenUp: row by row upwards, the last row blank.
screenUp(buffer) ==
    [p \in Positions |->
        CASE p < SCREEN_HIGHT * SCREEN_WIDTH       -> buffer[p + SCREEN_WIDTH]
          [] p >= SCREEN_HIGHT * SCREEN_WIDTH
             /\ p < (SCREEN_HIGHT + 1) * SCREEN_WIDTH -> Blank
          [] OTHER                                 -> buffer[p]]

\* What screenNl and screenPrintChar end with, for a cursor row and a buffer:
\* behind the last row the console moves up.  screenUp's sti enables the
\* interrupts, whether they were enabled before or not.
Settled(row, buffer) ==
    IF row > SCREEN_HIGHT
    THEN cur_Y' = row - 1 /\ cells' = screenUp(buffer) /\ IF_flag' = TRUE
    ELSE cur_Y' = row /\ cells' = buffer /\ UNCHANGED IF_flag

screenNl ==
    /\ cur_X' = 0
    /\ Settled(cur_Y + 1, cells)
    /\ UNCHANGED printStatus

screenSetChar(c, pos) == [cells EXCEPT ![pos] = c]

\* Mutant: the row is not ended.
screenPrintChar_NoWrap(c) ==
    /\ cur_X' = cur_X + 1
    /\ Settled(cur_Y, screenSetChar(c, cur_Y * SCREEN_WIDTH + cur_X))
    /\ UNCHANGED printStatus

screenPrintChar(c) ==
    /\ cur_X' = IF cur_X + 1 > SCREEN_WIDTH THEN 0 ELSE cur_X + 1
    /\ Settled(IF cur_X + 1 > SCREEN_WIDTH THEN cur_Y + 1 ELSE cur_Y,
               screenSetChar(c, cur_Y * SCREEN_WIDTH + cur_X))
    /\ UNCHANGED printStatus

\* The loop ends before row SCREEN_HIGHT.
screenClear ==
    /\ cells' = [p \in Positions |->
                    IF p < SCREEN_HIGHT * SCREEN_WIDTH THEN Blank ELSE cells[p]]
    /\ cur_X' = 0
    /\ cur_Y' = 0
    /\ UNCHANGED <<printStatus, IF_flag>>

\* One part of a format: a character, a digit of a number or a character of
\* a string; /n; /0.  All of it only if printing is not switched off.
screenPrint ==
    /\ printStatus # 1
    /\ (\E c \in Chars : screenPrintChar(c)) \/ screenNl \/ screenClear

\* One part of a string; printStatus is not looked at.
screenPrintChars == (\E c \in Chars : screenPrintChar(c)) \/ screenNl

screenSetPrintStatus(status) ==
    /\ printStatus' = status
    /\ UNCHANGED <<cells, cur_X, cur_Y, IF_flag>>

Clip(n, limit) == IF n < 0 THEN 0 ELSE IF n > limit THEN limit ELSE n

screenCursorSet(x, y) ==
    /\ cur_X' = Clip(x, SCREEN_WIDTH)
    /\ cur_Y' = Clip(y, SCREEN_HIGHT)
    /\ UNCHANGED <<cells, printStatus, IF_flag>>

screenCursorMove(x, y) == screenCursorSet(cur_X + x, cur_Y + y)

\* kernel.c enables the interrupts once.
enable_irqs ==
    /\ ~ IF_flag
    /\ IF_flag' = TRUE
    /\ UNCHANGED <<cells, cur_X, cur_Y, printStatus>>

\* The timer interrupts whenever interrupts are enabled.  screenUp runs with
\* interrupts disabled; the other operations touch the spinner's place with
\* at most one access, so the interrupt falls before or after them.
syscounter_isr ==
    /\ IF_flag
    /\ cells' = [cells EXCEPT ![SCREEN_WIDTH - 1] = Spinner]
    /\ UNCHANGED <<cur_X, cur_Y, printStatus, IF_flag>>

Next ==
    \/ screenPrint
    \/ screenPrintChars
    \/ screenClear
    \/ \E status \in {0, 1} : screenSetPrintStatus(status)
    \/ \E x \in -1 .. SCREEN_WIDTH + 1, y \in -1 .. SCREEN_HIGHT + 1 :
          screenCursorSet(x, y)
    \/ \E x, y \in {-1, 1} : screenCursorMove(x, y)
    \/ enable_irqs
    \/ syscounter_isr

Spec == Init /\ [][Next]_vars

-----------------------------------------------------------------------------
(* Properties.                                                             *)

\* The spinner is drawn over the first row and the rows move: it never
\* spreads to another place, however ticks and scrolling alternate.
SpinnerStays == \A p \in Positions : cells[p] = Spinner => p = SCREEN_WIDTH - 1

Rows == 0 .. SCREEN_HIGHT
Columns == 0 .. SCREEN_WIDTH - 1

\* What a buffer shows in the console's rows.
Text(buffer) == [r \in Rows |-> [c \in Columns |-> buffer[r * SCREEN_WIDTH + c]]]

Terminal == INSTANCE Terminal
    WITH Width <- SCREEN_WIDTH,
         Last  <- SCREEN_HIGHT,
         rows  <- Text(cells),
         x     <- cur_X,
         y     <- cur_Y

\* First exception.  A character behind a full row is not kept: the row ends,
\* the cursor stays in column 0 and the next character takes its place
\* (screen.c:70 compares with >, so the column behind the row counts); behind
\* the last row it goes below the console (screen.c:68) and is never seen.
LosesCharacter ==
    /\ cur_X = SCREEN_WIDTH
    /\ cur_X' = 0
    /\ cur_Y' = Terminal!NextRow
    /\ IF cur_Y < SCREEN_HIGHT
       THEN \E c \in Chars :
               Text(cells)' = [Text(cells) EXCEPT ![cur_Y + 1][0] = c]
       ELSE Text(cells)' = Terminal!Scrolled(Text(cells))

\* Second exception.  screen.h:36 says "/0  ->  clear screen"; the loop of
\* screen.c:123 leaves the last row as it is.
KeepsLastRow ==
    /\ Text(cells)' = [r \in Rows |-> IF r = SCREEN_HIGHT THEN Text(cells)[r]
                                                           ELSE Terminal!BlankRow]
    /\ cur_X' = 0
    /\ cur_Y' = 0

\* The array with its row arithmetic is a terminal, but for these two steps: a
\* character changes one place, scrolling loses the first row only, nothing
\* else moves (screen.c:30-130, timer-isr.s).
TerminalButTwoSteps ==
    /\ Terminal!Init
    /\ [][Terminal!Next \/ LosesCharacter \/ KeepsLastRow]_(Terminal!vars)
=============================================================================
