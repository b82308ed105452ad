---------------------------- MODULE ScreenProofs ----------------------------
(***************************************************************************)
(* The console implements a terminal, but for two steps that the property  *)
(* names, for every width and height: proofs.                              *)
(* The work is in the arithmetic of rows: which place of the linear buffer *)
(* is which character of which row, and what scrolling does to it.         *)
(***************************************************************************)
EXTENDS Screen, TLAPS

W == SCREEN_WIDTH
H == SCREEN_HIGHT

\* A row further down starts at a place further on.
LEMMA RowOrder ==
    ASSUME NEW a \in Nat, NEW b \in Nat, NEW w \in Nat, a < b
    PROVE  a * w + w <= b * w
<1>1. PICK d \in Nat : b = a + 1 + d
  BY b - a - 1 \in Nat, b = a + 1 + (b - a - 1)
<1>2. b * w = a * w + w + d * w
  BY <1>1
<1>3. d * w >= 0
  OBVIOUS
<1> QED
  BY <1>2, <1>3

\* Where the characters of the console's rows, and of the row below, lie.
LEMMA Place ==
    ASSUME NEW r \in 0 .. H + 1, NEW c \in Columns
    PROVE  /\ r * W + c \in Positions
           /\ r < H => r * W + c < H * W
           /\ r < H => r * W + c + W = (r + 1) * W + c
           /\ r = H => r * W + c >= H * W /\ r * W + c < (H + 1) * W
           /\ r <= H => r * W + c < (H + 1) * W
           /\ r = H + 1 => r * W + c >= (H + 1) * W
<1> USE DEF W, H, Columns
<1>0. W \in Nat /\ W > 0 /\ H \in Nat /\ c \in Nat /\ c < W /\ r \in Nat
  BY ScreenAssumption
<1>1. r * W + W <= (H + 2) * W
  BY <1>0, RowOrder, r < H + 2, H + 2 \in Nat
<1>2. r < H => r * W + W <= H * W
  BY <1>0, RowOrder
<1>3. (r + 1) * W = r * W + W
  BY <1>0
<1>4. (H + 1) * W = H * W + W
  BY <1>0
<1>5. r * W \in Nat /\ H * W \in Nat /\ (H + 2) * W \in Nat
  BY <1>0
<1>6. r * W + c \in Positions
  BY <1>0, <1>1, <1>5 DEF Positions
<1>7. r <= H => r * W + c < (H + 1) * W
  <2>1. CASE r = H
    BY <2>1, <1>0, <1>4, <1>5
  <2>2. CASE r < H
    BY <2>2, <1>0, <1>2, <1>4, <1>5
  <2> QED
    BY <2>1, <2>2, <1>0
<1> QED
  BY <1>0, <1>2, <1>3, <1>4, <1>5, <1>6, <1>7

\* Two characters lie at the same place only if they are the same one.
LEMMA PlacesDiffer ==
    ASSUME NEW r \in 0 .. H + 1, NEW c \in Columns,
           NEW s \in 0 .. H + 1, NEW d \in Columns,
           r * W + c = s * W + d
    PROVE  r = s /\ c = d
<1> USE DEF W, H, Columns
<1>0. W \in Nat /\ c \in Nat /\ d \in Nat /\ c < W /\ d < W /\ r \in Nat /\ s \in Nat
  BY ScreenAssumption
<1>1. r * W \in Nat /\ s * W \in Nat
  BY <1>0
<1>2. ~ (r < s)
  BY <1>0, <1>1, RowOrder
<1>3. ~ (s < r)
  BY <1>0, <1>1, RowOrder
<1>4. r = s
  BY <1>0, <1>2, <1>3
<1> QED
  BY <1>0, <1>1, <1>4

Buffers == [Positions -> Symbols]

\* What screenUp puts at a place.
LEMMA ScreenUpAt ==
    ASSUME NEW buffer \in Buffers, NEW p \in Positions
    PROVE  /\ p < H * W => screenUp(buffer)[p] = buffer[p + W]
           /\ p >= H * W /\ p < (H + 1) * W => screenUp(buffer)[p] = Blank
           /\ p >= (H + 1) * W => screenUp(buffer)[p] = buffer[p]
<1>1. p \in Int /\ H * W \in Int /\ (H + 1) * W \in Int /\ W \in Nat
  BY ScreenAssumption DEF Positions, H, W
<1>2. (H + 1) * W = H * W + W
  BY ScreenAssumption DEF H, W
<1> QED
  BY <1>1, <1>2 DEF screenUp, H, W

\* screenUp on the buffer is scrolling of the rows.
LEMMA TextScrolled ==
    ASSUME NEW buffer \in Buffers
    PROVE  Text(screenUp(buffer)) = Terminal!Scrolled(Text(buffer))
<1>0. H \in Nat /\ W \in Nat
  BY ScreenAssumption DEF W, H
<1>1. ASSUME NEW r \in Rows, NEW c \in Columns
      PROVE  screenUp(buffer)[r * W + c]
               = IF r < H THEN Text(buffer)[r + 1][c] ELSE Blank
  <2>1. r \in 0 .. H + 1 /\ r <= H
    BY <1>0 DEF Rows, H
  <2>2. r * W + c \in Positions
    BY <2>1, Place
  <2>3. CASE r < H
    <3>1. r * W + c < H * W /\ r * W + c + W = (r + 1) * W + c
      BY <2>1, <2>3, Place
    <3>2. r + 1 \in Rows
      BY <1>0, <2>1, <2>3 DEF Rows, H
    <3>3. screenUp(buffer)[r * W + c] = buffer[(r + 1) * W + c]
      BY <2>2, <3>1, ScreenUpAt
    <3> QED
      BY <2>3, <3>2, <3>3 DEF Text, W
  <2>4. CASE r = H
    <3>1. r * W + c >= H * W /\ r * W + c < (H + 1) * W
      BY <1>0, <2>1, <2>4, Place
    <3> QED
      BY <2>2, <2>4, <3>1, <1>0, ScreenUpAt
  <2> QED
    BY <1>0, <2>1, <2>3, <2>4
<1>2. ASSUME NEW r \in Rows
      PROVE  Text(screenUp(buffer))[r] = Terminal!Scrolled(Text(buffer))[r]
  <2>1. CASE r < H
    <3>1. r + 1 \in Rows
      BY <1>0, <2>1 DEF Rows, H
    <3>2. Terminal!Scrolled(Text(buffer))[r] = [c \in Columns |-> Text(buffer)[r + 1][c]]
      BY <2>1, <3>1 DEF Terminal!Scrolled, Terminal!Rows, Rows, Text, H
    <3>3. Text(screenUp(buffer))[r] = [c \in Columns |-> screenUp(buffer)[r * W + c]]
      BY DEF Text, W
    <3>4. \A c \in Columns : screenUp(buffer)[r * W + c] = Text(buffer)[r + 1][c]
      BY <1>1, <2>1
    <3> QED
      BY <3>2, <3>3, <3>4
  <2>2. CASE ~ (r < H)
    <3>1. Terminal!Scrolled(Text(buffer))[r] = [c \in Columns |-> Blank]
      BY <2>2 DEF Terminal!Scrolled, Terminal!BlankRow, Terminal!Rows, Terminal!Columns,
                  Rows, Columns, H
    <3> QED
      BY <1>1, <2>2, <3>1 DEF Text, W
  <2> QED
    BY <2>1, <2>2
<1> QED
  BY <1>2 DEF Text, Terminal!Scrolled, Terminal!Rows, Rows

\* A character inside the rows changes one place of one row.
LEMMA TextSet ==
    ASSUME cells \in Buffers, NEW ch \in Symbols, NEW s \in Rows, NEW d \in Columns
    PROVE  Text(screenSetChar(ch, s * W + d)) = [Text(cells) EXCEPT ![s][d] = ch]
<1>1. SUFFICES ASSUME NEW r \in Rows, NEW c \in Columns
               PROVE  screenSetChar(ch, s * W + d)[r * W + c]
                        = IF r = s /\ c = d THEN ch ELSE cells[r * W + c]
  BY ZenonT(30) DEF Text, W
<1>2. r \in 0 .. H + 1 /\ s \in 0 .. H + 1
  BY ScreenAssumption DEF Rows, H
<1>3. r * W + c \in Positions /\ s * W + d \in Positions
  BY <1>2, Place
<1>4. r * W + c = s * W + d => r = s /\ c = d
  BY <1>2, PlacesDiffer
<1> QED
  BY <1>3, <1>4 DEF screenSetChar, Buffers

\* A character below the last row changes none of the rows.
LEMMA TextSetBelow ==
    ASSUME cells \in Buffers, NEW ch \in Symbols
    PROVE  Text(screenSetChar(ch, (H + 1) * W)) = Text(cells)
<1>1. SUFFICES ASSUME NEW r \in Rows, NEW c \in Columns
               PROVE  screenSetChar(ch, (H + 1) * W)[r * W + c] = cells[r * W + c]
  BY DEF Text, W
<1>2. r \in 0 .. H + 1 /\ r <= H /\ (H + 1) * W \in Int /\ r * W + c \in Int
  BY ScreenAssumption DEF Rows, H, W, Columns
<1>3. r * W + c \in Positions /\ r * W + c < (H + 1) * W
  BY <1>2, Place
<1>4. r * W + c # (H + 1) * W
  BY <1>2, <1>3
<1> QED
  BY <1>3, <1>4 DEF screenSetChar, Buffers

-----------------------------------------------------------------------------
(* Type correctness.                                                       *)

LEMMA ScreenUpType ==
    ASSUME NEW buffer \in Buffers
    PROVE  screenUp(buffer) \in Buffers
<1>0. W \in Nat /\ W > 0 /\ H \in Nat /\ Blank \in Symbols
  BY ScreenAssumption DEF W, H, Symbols
<1>1. ASSUME NEW p \in Positions
      PROVE  screenUp(buffer)[p] \in Symbols
  <2>1. p \in Int /\ p >= 0 /\ H * W \in Int /\ (H + 1) * W \in Int
    BY <1>0 DEF Positions
  <2>2. (H + 2) * W = H * W + W + W
    BY <1>0
  <2>3. p < H * W => p + W \in Positions
    BY <1>0, <2>1, <2>2 DEF Positions, W, H
  <2> QED
    BY <1>0, <2>1, <2>3, ScreenUpAt DEF Buffers
<1> QED
  BY <1>1 DEF screenUp, Buffers

\* The place a character goes to, in a row or behind a full one.
LEMMA CursorPlace ==
    ASSUME NEW a \in 0 .. H, NEW b \in 0 .. W
    PROVE  a * W + b \in Positions
<1>0. a \in 0 .. H + 1 /\ a + 1 \in 0 .. H + 1 /\ 0 \in Columns /\ W \in Nat
  BY ScreenAssumption DEF H, W, Columns
<1>1. CASE b < W
  BY <1>0, <1>1, Place DEF Columns, W
<1>2. CASE b = W
  <2>1. a * W + b = (a + 1) * W + 0
    BY <1>0, <1>2
  <2> QED
    BY <1>0, <2>1, Place
<1> QED
  BY <1>0, <1>1, <1>2

LEMMA SettledType ==
    ASSUME TypeOK, NEW row \in 0 .. H + 1, NEW buffer \in Buffers, Settled(row, buffer)
    PROVE  cells' \in Buffers /\ cur_Y' \in 0 .. H /\ IF_flag' \in BOOLEAN
<1>0. H \in Nat
  BY ScreenAssumption DEF H
<1>1. CASE row > H
  BY <1>0, <1>1, ScreenUpType DEF Settled, H
<1>2. CASE ~ (row > H)
  BY <1>0, <1>2 DEF Settled, TypeOK, H
<1> QED
  BY <1>1, <1>2

LEMMA NlType ==
    ASSUME TypeOK, screenNl
    PROVE  TypeOK'
<1>1. cells \in Buffers /\ cur_Y + 1 \in 0 .. H + 1 /\ Settled(cur_Y + 1, cells)
  BY ScreenAssumption DEF TypeOK, Buffers, H, screenNl
<1>2. cells' \in Buffers /\ cur_Y' \in 0 .. H /\ IF_flag' \in BOOLEAN
  BY <1>1, SettledType
<1> QED
  BY <1>2, ScreenAssumption DEF screenNl, TypeOK, Buffers, H

LEMMA PrintCharType ==
    ASSUME TypeOK, NEW c \in Chars, screenPrintChar(c)
    PROVE  TypeOK'
<1> DEFINE row == IF cur_X + 1 > W THEN cur_Y + 1 ELSE cur_Y
           buffer == screenSetChar(c, cur_Y * W + cur_X)
<1>1. Settled(row, buffer)
  BY DEF screenPrintChar, W
<1>2. buffer \in Buffers
  BY DEF screenSetChar, TypeOK, Buffers, Symbols
<1>3. row \in 0 .. H + 1
  BY ScreenAssumption DEF TypeOK, H, W
<1>4. cells' \in Buffers /\ cur_Y' \in 0 .. H /\ IF_flag' \in BOOLEAN
  <2> HIDE DEF row, buffer
  <2> QED
    BY <1>1, <1>2, <1>3, SettledType
<1>5. cur_X' \in 0 .. W
  BY ScreenAssumption DEF screenPrintChar, TypeOK, W
<1> QED
  BY <1>4, <1>5 DEF screenPrintChar, TypeOK, Buffers, H, W

LEMMA ClearType ==
    ASSUME TypeOK, screenClear
    PROVE  TypeOK'
BY ScreenAssumption DEF screenClear, TypeOK, Symbols

LEMMA TypeInit == Init => TypeOK
<1> SUFFICES ASSUME Init PROVE TypeOK
  OBVIOUS
<1>1. cells \in [Positions -> Symbols]
  BY DEF Init, Symbols
<1>2. cur_X \in 0 .. SCREEN_WIDTH /\ cur_Y \in 0 .. SCREEN_HIGHT /\ printStatus \in {0, 1}
  BY ScreenAssumption DEF Init
<1>3. IF_flag \in BOOLEAN
  BY DEF Init
<1> QED
  BY <1>1, <1>2, <1>3 DEF TypeOK

LEMMA TypeStep ==
    ASSUME TypeOK, [Next]_vars
    PROVE  TypeOK'
<1>0. SCREEN_WIDTH \in Nat /\ SCREEN_HIGHT \in Nat
  BY ScreenAssumption
<1>1. CASE screenPrint
  BY <1>1, PrintCharType, NlType, ClearType DEF screenPrint
<1>2. CASE screenPrintChars
  BY <1>2, PrintCharType, NlType DEF screenPrintChars
<1>3. CASE screenClear
  BY <1>3, ClearType
<1>4. ASSUME NEW status \in {0, 1}, screenSetPrintStatus(status)
      PROVE  TypeOK'
  BY <1>4 DEF screenSetPrintStatus, TypeOK
<1>5. ASSUME NEW x \in Int, NEW y \in Int, screenCursorSet(x, y)
      PROVE  TypeOK'
  BY <1>0, <1>5 DEF screenCursorSet, Clip, TypeOK
<1>6. ASSUME NEW x \in {-1, 1}, NEW y \in {-1, 1}, screenCursorMove(x, y)
      PROVE  TypeOK'
  <2>1. cur_X + x \in Int /\ cur_Y + y \in Int
    BY <1>0 DEF TypeOK
  <2> QED
    BY <1>5, <1>6, <2>1 DEF screenCursorMove
<1>7. CASE enable_irqs
  BY <1>7 DEF enable_irqs, TypeOK
<1>8. CASE syscounter_isr
  BY <1>8 DEF syscounter_isr, TypeOK, Symbols
<1>9. CASE UNCHANGED vars
  BY <1>9 DEF vars, TypeOK
<1>10. ASSUME NEW x \in -1 .. SCREEN_WIDTH + 1, NEW y \in -1 .. SCREEN_HIGHT + 1,
              screenCursorSet(x, y)
       PROVE  TypeOK'
  <2>1. x \in Int /\ y \in Int
    BY <1>0
  <2> QED
    BY <1>5, <1>10, <2>1
<1> QED
  BY <1>1, <1>2, <1>3, <1>4, <1>6, <1>7, <1>8, <1>9, <1>10 DEF Next, vars

\* The console's variables have their types: the cursor stays on the console.
THEOREM TypeCorrect == Spec => []TypeOK
BY TypeInit, TypeStep, PTL DEF Spec

\* Wherever the cursor is, behind a full last row too, the next character is
\* written inside the text buffer (screen.c:109 checks nothing).
THEOREM WritesInBuffer ==
    Spec => [](cur_Y * SCREEN_WIDTH + cur_X \in Positions)
<1>1. TypeOK => cur_Y * SCREEN_WIDTH + cur_X \in Positions
  BY CursorPlace DEF TypeOK, H, W
<1> QED
  BY <1>1, TypeCorrect, PTL

-----------------------------------------------------------------------------
(* The spinner.                                                            *)

LEMMA SpinnerScreenUp ==
    ASSUME NEW buffer \in Buffers,
           \A p \in Positions : buffer[p] = Spinner => p = W - 1
    PROVE  \A p \in Positions : screenUp(buffer)[p] = Spinner => p = W - 1
<1>0. W \in Nat /\ W > 0 /\ H \in Nat /\ Blank # Spinner
  BY ScreenAssumption DEF W, H
<1>1. SUFFICES ASSUME NEW p \in Positions, screenUp(buffer)[p] = Spinner
               PROVE  p = W - 1
  OBVIOUS
<1>2. p \in Int /\ p >= 0 /\ H * W \in Int /\ (H + 1) * W \in Int
  BY <1>0 DEF Positions
<1>3. ~ (p < H * W)
  <2>1. (H + 2) * W = H * W + W + W
    BY <1>0
  <2>2. p < H * W => p + W \in Positions
    BY <1>0, <1>2, <2>1 DEF Positions, W, H
  <2> QED
    BY <1>0, <1>1, <1>2, <2>2, ScreenUpAt
<1>4. p >= (H + 1) * W
  BY <1>0, <1>1, <1>2, <1>3, ScreenUpAt
<1> QED
  BY <1>1, <1>4, ScreenUpAt

LEMMA SpinnerSettled ==
    ASSUME NEW row, NEW buffer \in Buffers, Settled(row, buffer),
           \A p \in Positions : buffer[p] = Spinner => p = W - 1
    PROVE  SpinnerStays'
BY SpinnerScreenUp DEF Settled, SpinnerStays, W

LEMMA SpinnerNl ==
    ASSUME TypeOK, SpinnerStays, screenNl
    PROVE  SpinnerStays'
BY SpinnerSettled DEF screenNl, SpinnerStays, TypeOK, Buffers, W

LEMMA SpinnerPrintChar ==
    ASSUME TypeOK, SpinnerStays, NEW c \in Chars, screenPrintChar(c)
    PROVE  SpinnerStays'
<1> DEFINE row == IF cur_X + 1 > W THEN cur_Y + 1 ELSE cur_Y
           buffer == screenSetChar(c, cur_Y * W + cur_X)
<1>1. Settled(row, buffer)
  BY DEF screenPrintChar, W
<1>2. buffer \in Buffers
  BY DEF screenSetChar, TypeOK, Buffers, Symbols
<1>3. \A p \in Positions : buffer[p] = Spinner => p = W - 1
  BY ScreenAssumption DEF screenSetChar, SpinnerStays, TypeOK, W
<1> HIDE DEF row, buffer
<1> QED
  BY <1>1, <1>2, <1>3, SpinnerSettled

LEMMA SpinnerClear ==
    ASSUME SpinnerStays, screenClear
    PROVE  SpinnerStays'
BY ScreenAssumption DEF screenClear, SpinnerStays

LEMMA SpinnerStep ==
    ASSUME TypeOK, SpinnerStays, [Next]_vars
    PROVE  SpinnerStays'
<1>1. CASE screenPrint
  BY <1>1, SpinnerPrintChar, SpinnerNl, SpinnerClear DEF screenPrint
<1>2. CASE screenPrintChars
  BY <1>2, SpinnerPrintChar, SpinnerNl DEF screenPrintChars
<1>3. CASE screenClear
  BY <1>3, SpinnerClear
<1>4. CASE syscounter_isr
  BY <1>4 DEF syscounter_isr, SpinnerStays, TypeOK
<1>5. CASE UNCHANGED cells
  BY <1>5 DEF SpinnerStays
<1> QED
  BY <1>1, <1>2, <1>3, <1>4, <1>5
     DEF Next, vars, screenSetPrintStatus, screenCursorSet, screenCursorMove, enable_irqs

\* However ticks and scrolling alternate (timer-isr.s writes where screenUp
\* copies), a spinner never shows anywhere but at the end of the first row.
THEOREM SpinnerSteady == Spec => []SpinnerStays
<1>1. Init => SpinnerStays
  BY ScreenAssumption DEF Init, SpinnerStays
<1> QED
  BY <1>1, SpinnerStep, TypeCorrect, PTL DEF Spec

-----------------------------------------------------------------------------
(* The console implements the terminal: each operation maps to a step of   *)
(* it or changes nothing it shows.                                         *)

LEMMA RefineInit == Init => Terminal!Init
<1> SUFFICES ASSUME Init PROVE Terminal!Init
  OBVIOUS
<1>1. cells \in Buffers
  BY TypeInit DEF TypeOK, Buffers
<1>2. ASSUME NEW r \in Rows, NEW c \in Columns
      PROVE  cells[r * W + c] \in Symbols
  BY <1>1, Place, ScreenAssumption DEF Buffers, Rows, H
<1>3. Text(cells) \in [Rows -> [Columns -> Symbols]]
  BY <1>2 DEF Text, W
<1> QED
  BY <1>3 DEF Init, Terminal!Init, Terminal!Rows, Terminal!Columns, Rows, Columns

\* Ending a row of a buffer: where the cursor goes and what the rows show.
LEMMA RefineNextRow ==
    ASSUME TypeOK, NEW buffer \in Buffers, Settled(cur_Y + 1, buffer)
    PROVE  /\ cur_Y' = Terminal!NextRow
           /\ Text(cells)' = IF cur_Y < H THEN Text(buffer)
                                          ELSE Terminal!Scrolled(Text(buffer))
<1>0. cur_Y \in 0 .. H /\ H \in Nat
  BY ScreenAssumption DEF TypeOK, H
<1>1. CASE cur_Y < H
  <2>1. cur_Y' = cur_Y + 1 /\ cells' = buffer
    BY <1>0, <1>1 DEF Settled, H
  <2>2. Text(cells)' = Text(buffer)
    BY <2>1 DEF Text
  <2> QED
    BY <1>1, <2>1, <2>2 DEF Terminal!NextRow, H
<1>2. CASE cur_Y = H
  <2>1. cur_Y' = cur_Y /\ cells' = screenUp(buffer)
    BY <1>0, <1>2 DEF Settled, H
  <2>2. Text(cells)' = Text(screenUp(buffer))
    BY <2>1 DEF Text
  <2> QED
    BY <1>0, <1>2, <2>1, <2>2, TextScrolled DEF Terminal!NextRow, H
<1> QED
  BY <1>0, <1>1, <1>2

LEMMA RefineNl ==
    ASSUME TypeOK, screenNl
    PROVE  Terminal!NewLine
<1>1. cells \in Buffers /\ Settled(cur_Y + 1, cells) /\ cur_X' = 0
  BY DEF screenNl, TypeOK, Buffers
<1> QED
  BY <1>1, RefineNextRow DEF Terminal!NewLine, Terminal!Advanced, H

\* A character in a row is put there; one behind a full row is lost.
LEMMA RefinePrintChar ==
    ASSUME TypeOK, NEW c \in Chars, screenPrintChar(c)
    PROVE  Terminal!Put(c) \/ LosesCharacter
<1> DEFINE buffer == screenSetChar(c, cur_Y * W + cur_X)
<1>0. /\ cur_Y \in 0 .. H /\ cur_X \in 0 .. W /\ H \in Nat /\ W \in Nat /\ W > 0
      /\ cells \in Buffers /\ c \in Symbols
  BY ScreenAssumption DEF TypeOK, H, W, Buffers, Symbols
<1>1. buffer \in Buffers
  BY <1>0 DEF screenSetChar, Buffers
<1>2. CASE cur_X < W
  <2>1. cur_X' = cur_X + 1 /\ Settled(cur_Y, buffer)
    BY <1>0, <1>2 DEF screenPrintChar, W
  <2>2. cur_Y' = cur_Y /\ cells' = buffer
    BY <1>0, <2>1 DEF Settled, H
  <2>3. cur_Y \in Rows /\ cur_X \in Columns
    BY <1>0, <1>2 DEF Rows, Columns, H, W
  <2>4. Text(buffer) = [Text(cells) EXCEPT ![cur_Y][cur_X] = c]
    BY <1>0, <2>3, TextSet
  <2>5. Text(cells)' = Text(buffer)
    BY <2>2 DEF Text
  <2> HIDE DEF buffer
  <2> QED
    BY <1>2, <2>1, <2>2, <2>4, <2>5 DEF Terminal!Put, W
<1>3. CASE cur_X = W
  <2>1. cur_X' = 0 /\ Settled(cur_Y + 1, buffer)
    BY <1>0, <1>3 DEF screenPrintChar, W
  <2>2. /\ cur_Y' = Terminal!NextRow
        /\ Text(cells)' = IF cur_Y < H THEN Text(buffer)
                                       ELSE Terminal!Scrolled(Text(buffer))
    <3> HIDE DEF buffer
    <3> QED
      BY <1>1, <2>1, RefineNextRow
  <2>3. cur_Y * W + cur_X = (cur_Y + 1) * W + 0
    BY <1>0, <1>3
  <2>4. CASE cur_Y < H
    <3>1. cur_Y + 1 \in Rows /\ 0 \in Columns
      BY <1>0, <2>4 DEF Rows, Columns, H, W
    <3>2. Text(buffer) = [Text(cells) EXCEPT ![cur_Y + 1][0] = c]
      BY <1>0, <2>3, <3>1, TextSet
    <3> HIDE DEF buffer
    <3> QED
      BY <1>3, <2>1, <2>2, <2>4, <3>2 DEF LosesCharacter, H, W
  <2>5. CASE cur_Y = H
    <3>1. cur_Y * W + cur_X = (H + 1) * W
      BY <1>0, <2>3, <2>5
    <3>2. Text(buffer) = Text(cells)
      BY <1>0, <3>1, TextSetBelow
    <3> HIDE DEF buffer
    <3> QED
      BY <1>0, <1>3, <2>1, <2>2, <2>5, <3>2 DEF LosesCharacter, H, W
  <2> QED
    BY <1>0, <2>4, <2>5
<1> QED
  BY <1>0, <1>2, <1>3

LEMMA RefineClear ==
    ASSUME TypeOK, screenClear
    PROVE  KeepsLastRow
<1>0. H \in Nat /\ W \in Nat /\ H * W \in Int
  BY ScreenAssumption DEF H, W
<1>1. ASSUME NEW r \in Rows, NEW c \in Columns
      PROVE  cells'[r * W + c] = IF r = H THEN cells[r * W + c] ELSE Blank
  <2>1. r \in 0 .. H + 1 /\ r * W + c \in Int
    BY <1>0 DEF Rows, Columns, H, W
  <2>2. r * W + c \in Positions /\ (r < H => r * W + c < H * W)
    BY <2>1, Place
  <2>3. r # H => r < H
    BY <1>0 DEF Rows, H
  <2>4. r = H => ~ (r * W + c < H * W)
    BY <1>0, <2>1, Place
  <2> QED
    BY <2>2, <2>3, <2>4 DEF screenClear, H, W
<1>2. ASSUME NEW r \in Rows
      PROVE  Text(cells)'[r] = IF r = H THEN Text(cells)[r] ELSE Terminal!BlankRow
  <2>1. CASE r = H
    <3>1. \A c \in Columns : cells'[r * W + c] = cells[r * W + c]
      BY <1>1, <2>1
    <3> QED
      BY <2>1, <3>1 DEF Text, W
  <2>2. CASE r # H
    <3>1. \A c \in Columns : cells'[r * W + c] = Blank
      BY <1>1, <2>2
    <3> QED
      BY <2>2, <3>1 DEF Text, Terminal!BlankRow, Terminal!Columns, Columns, W
  <2> QED
    BY <2>1, <2>2
<1>3. Text(cells)' = [r \in Rows |-> Text(cells)'[r]]
  BY DEF Text
<1> QED
  BY <1>2, <1>3 DEF KeepsLastRow, H, screenClear

LEMMA RefineTick ==
    ASSUME TypeOK, syscounter_isr
    PROVE  Terminal!Tick
<1>0. 0 \in Rows /\ W - 1 \in Columns /\ W - 1 = 0 * W + (W - 1)
  BY ScreenAssumption DEF Rows, Columns, W
<1>1. cells \in Buffers /\ Spinner \in Symbols
  BY DEF TypeOK, Buffers, Symbols
<1>2. cells' = screenSetChar(Spinner, 0 * W + (W - 1))
  BY <1>0 DEF syscounter_isr, screenSetChar, W
<1>3. Text(cells)' = Text(screenSetChar(Spinner, 0 * W + (W - 1)))
  BY <1>2 DEF Text
<1>4. Text(cells)' = [Text(cells) EXCEPT ![0][W - 1] = Spinner]
  BY <1>0, <1>1, <1>3, TextSet
<1> QED
  BY <1>4 DEF Terminal!Tick, syscounter_isr, W

LEMMA RefineStep ==
    ASSUME TypeOK, TypeOK', [Next]_vars
    PROVE  [Terminal!Next \/ LosesCharacter \/ KeepsLastRow]_(Terminal!vars)
<1>1. ASSUME NEW c \in Chars, screenPrintChar(c)
      PROVE  Terminal!Next \/ LosesCharacter
  BY <1>1, RefinePrintChar DEF Terminal!Next, Symbols
<1>2. CASE screenNl
  BY <1>2, RefineNl DEF Terminal!Next
<1>3. CASE screenClear
  BY <1>3, RefineClear
<1>4. CASE syscounter_isr
  BY <1>4, RefineTick DEF Terminal!Next
<1>5. CASE UNCHANGED cells
  <2>1. UNCHANGED Text(cells)
    BY <1>5 DEF Text
  <2>2. Terminal!MoveCursor
    BY <2>1 DEF Terminal!MoveCursor, Terminal!Rows, TypeOK
  <2> QED
    BY <2>2 DEF Terminal!Next
<1> QED
  BY <1>1, <1>2, <1>3, <1>4, <1>5
     DEF Next, vars, screenPrint, screenPrintChars, screenSetPrintStatus, screenCursorSet,
         screenCursorMove, enable_irqs

\* The linear text buffer with its row arithmetic (screen.c) is a terminal of
\* rows and a cursor, but for the character behind a full row (screen.c:70) and
\* the last row of a cleared screen (screen.c:123).
THEOREM ConsoleIsTerminalButTwoSteps == Spec => TerminalButTwoSteps
BY RefineInit, RefineStep, TypeCorrect, PTL DEF Spec, TerminalButTwoSteps
=============================================================================
