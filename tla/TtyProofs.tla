------------------------------ MODULE TtyProofs ------------------------------
(***************************************************************************)
(* Proofs about text.  The text terminals, for every size of the screen,   *)
(* every set of terminals and every set of bytes that writers send:        *)
(* terminals do not disturb each other.  For the bytes that leave the      *)
(* cursor on the screen: nothing is stored outside the frame buffer, text  *)
(* before the cursor stays, and the cursor of the VGA follows it.  printk, *)
(* for every set of formats and arguments: what it prints reads back as    *)
(* the number passed, and which formats let the walk leave them.  The      *)
(* string functions, for every memory and all their arguments.             *)
(***************************************************************************)
EXTENDS Tty, Strings, Printk, SequenceTheorems, Induction

-----------------------------------------------------------------------------
(* The shape of the state, whatever is written                             *)

Scr(c, w, v, h) == [cells |-> c, x |-> w, y |-> v, hw |-> h]

CellValues == {NUL, GLYPH} \X Attributes
Pages == [Cells -> CellValues]

\* A screen: a record of its four parts, with a whole frame buffer.
IsScr(s) == s = Scr(s.cells, s.x, s.y, s.hw) /\ s.cells \in Pages

\* What a switch saves of a terminal.
Term(q, w, v, f, b) == [page |-> q, x |-> w, y |-> v, fore |-> f, back |-> b]

IsSaved(r) ==
    /\ r = Term(r.page, r.x, r.y, r.fore, r.back)
    /\ r.page \in Pages \cup {NoPage}
    /\ r.fore \in 0 .. 15 /\ r.back \in 0 .. 15

ShapeInv ==
    /\ IsScr(scr)
    /\ fore \in 0 .. 15 /\ back \in 0 .. 15
    /\ curr_tty \in Ttys
    /\ ttys = [t \in Ttys |-> ttys[t]]
    /\ \A t \in Ttys : IsSaved(ttys[t])

\* The attribute of the current colours is a byte.
LEMMA ColourIsByte ==
  ASSUME NEW f \in 0 .. 15, NEW b \in 0 .. 15
  PROVE  b * 16 + f \in Attributes
  BY DEF Attributes

\* The screen has a cell, and a page is not the NULL pointer.
LEMMA PagesAreThere == /\ 0 \in Cells
                       /\ \A c \in Pages : c # NoPage
                       /\ Zeroed \in Pages
  <1>1. VGA_COLUMN * (VGA_ROW + 1) >= 1 /\ VGA_COLUMN * (VGA_ROW + 1) \in Nat
    BY TtyAssumption
  <1>2. 0 \in Cells
    BY <1>1 DEF Cells
  <1>3. ASSUME NEW c \in Pages
        PROVE  c # NoPage
    <2>1. 0 \in DOMAIN c
      BY <1>2 DEF Pages
    <2>2. DOMAIN NoPage = {}
      BY DEF NoPage
    <2> QED BY <2>1, <2>2
  <1>4. Zeroed \in Pages
    BY DEF Zeroed, Pages, CellValues, Attributes
  <1> QED BY <1>2, <1>3, <1>4

\* Changing one part of a screen leaves the others.
LEMMA ScrExcept ==
  ASSUME NEW s, IsScr(s), NEW v
  PROVE  /\ [s EXCEPT !.x = v] = Scr(s.cells, v, s.y, s.hw)
         /\ [s EXCEPT !.y = v] = Scr(s.cells, s.x, v, s.hw)
         /\ [s EXCEPT !.hw = v] = Scr(s.cells, s.x, s.y, v)
         /\ [s EXCEPT !.cells = v] = Scr(v, s.x, s.y, s.hw)
  BY DEF IsScr, Scr

\* A screen made of its parts has them.
LEMMA ScrParts ==
  ASSUME NEW c, NEW w, NEW v, NEW h
  PROVE  /\ Scr(c, w, v, h).cells = c /\ Scr(c, w, v, h).x = w
         /\ Scr(c, w, v, h).y = v /\ Scr(c, w, v, h).hw = h
         /\ c \in Pages => IsScr(Scr(c, w, v, h))
  BY DEF IsScr, Scr

-----------------------------------------------------------------------------
(* What the operations do to a screen                                      *)

\* move_cursor changes the register of the VGA only.
LEMMA MoveCursorIs ==
  ASSUME NEW s, IsScr(s)
  PROVE  /\ IsScr(move_cursor(s))
         /\ move_cursor(s).cells = s.cells
         /\ move_cursor(s).x = s.x /\ move_cursor(s).y = s.y
         /\ move_cursor(s).hw = IF s.x \in 0 .. VGA_COLUMN /\ s.y \in 0 .. VGA_ROW
                                THEN Pos(s) ELSE s.hw
  <1>1. s.cells \in Pages
    BY DEF IsScr
  <1>2. CASE s.x \in 0 .. VGA_COLUMN /\ s.y \in 0 .. VGA_ROW
    <2>1. move_cursor(s) = Scr(s.cells, s.x, s.y, Pos(s))
      BY <1>2, ScrExcept DEF move_cursor
    <2> QED BY <1>1, <1>2, <2>1, ScrParts
  <1>3. CASE ~ (s.x \in 0 .. VGA_COLUMN /\ s.y \in 0 .. VGA_ROW)
    <2>1. move_cursor(s) = s
      BY <1>3 DEF move_cursor
    <2> QED BY <1>3, <2>1
  <1> QED BY <1>2, <1>3

\* scrup moves the rows up and leaves the position.
LEMMA ScrupIs ==
  ASSUME NEW s, IsScr(s), NEW a \in Attributes
  PROVE  /\ IsScr(scrup(s, a))
         /\ scrup(s, a).x = s.x /\ scrup(s, a).y = s.y /\ scrup(s, a).hw = s.hw
         /\ \A q \in Cells : q + VGA_COLUMN \in Cells =>
               scrup(s, a).cells[q] = s.cells[q + VGA_COLUMN]
  <1> DEFINE c == [q \in Cells |->
                     IF q + VGA_COLUMN \in Cells THEN s.cells[q + VGA_COLUMN] ELSE <<NUL, a>>]
  <1>1. c \in Pages
    BY DEF IsScr, Pages, CellValues
  <1>2. scrup(s, a) = Scr(c, s.x, s.y, s.hw)
    BY ScrExcept DEF scrup
  <1>3. \A q \in Cells : q + VGA_COLUMN \in Cells => c[q] = s.cells[q + VGA_COLUMN]
    OBVIOUS
  <1> HIDE DEF c
  <1> QED BY <1>1, <1>2, <1>3, ScrParts

\* The screen with a character stored at its position.
Stored(s, c, a) ==
    [s EXCEPT !.cells = [q \in Cells |-> IF q = Pos(s) THEN <<c, a>> ELSE @[q]]]

\* Storing a character changes the cell at the position only.
LEMMA StoredIs ==
  ASSUME NEW s, IsScr(s), NEW a \in Attributes, NEW c \in {NUL, GLYPH}
  PROVE  /\ IsScr(Stored(s, c, a))
         /\ Stored(s, c, a).x = s.x /\ Stored(s, c, a).y = s.y /\ Stored(s, c, a).hw = s.hw
         /\ \A q \in Cells : q # Pos(s) => Stored(s, c, a).cells[q] = s.cells[q]
  <1> DEFINE painted == [q \in Cells |-> IF q = Pos(s) THEN <<c, a>> ELSE s.cells[q]]
  <1>1. painted \in Pages
    BY DEF IsScr, Pages, CellValues
  <1>2. Stored(s, c, a) = [s EXCEPT !.cells = painted]
    BY DEF Stored
  <1>3. \A q \in Cells : q # Pos(s) => painted[q] = s.cells[q]
    OBVIOUS
  <1> HIDE DEF painted
  <1>4. Stored(s, c, a) = Scr(painted, s.x, s.y, s.hw)
    BY <1>2, ScrExcept
  <1> QED BY <1>1, <1>3, <1>4, ScrParts

\* A screen with another position.
At(s, w, v) == Scr(s.cells, w, v, s.hw)

\* It differs in nothing else.
LEMMA AtIs ==
  ASSUME NEW s, IsScr(s), NEW w, NEW v
  PROVE  /\ IsScr(At(s, w, v)) /\ At(s, w, v).cells = s.cells
         /\ At(s, w, v).x = w /\ At(s, w, v).y = v /\ At(s, w, v).hw = s.hw
  <1>1. s.cells \in Pages
    BY DEF IsScr
  <1> QED BY <1>1, ScrParts DEF At

\* It is what the assignments to x and y make of the screen.
LEMMA AtExcept ==
  ASSUME NEW s, IsScr(s), NEW w, NEW v
  PROVE  /\ [s EXCEPT !.x = w] = At(s, w, s.y)
         /\ [s EXCEPT !.y = v] = At(s, s.x, v)
  BY ScrExcept DEF At

\* Setting x and y of a screen.
LEMMA BothExcept ==
  ASSUME NEW s, IsScr(s), NEW w, NEW v
  PROVE  [s EXCEPT !.x = w, !.y = v] = At(s, w, v)
  <1>1. [s EXCEPT !.x = w, !.y = v] = [[s EXCEPT !.x = w] EXCEPT !.y = v]
    OBVIOUS
  <1>2. [s EXCEPT !.x = w] = At(s, w, s.y)
    BY AtExcept
  <1>3. [At(s, w, s.y) EXCEPT !.y = v] = At(s, w, v)
    BY DEF At, Scr
  <1> QED BY <1>1, <1>2, <1>3

\* putglyph stores the character and goes on: behind the last cell it scrolls
\* and starts the row again, at the end of a row it starts the next one.
LEMMA PutglyphIs ==
  ASSUME NEW s, IsScr(s), NEW a \in Attributes, NEW c \in {NUL, GLYPH}
  PROVE  putglyph(s, c, a) =
            IF s.y = VGA_ROW /\ s.x = VGA_COLUMN - 1
            THEN move_cursor(scrup(At(Stored(s, c, a), 0, s.y), a))
            ELSE IF s.x # VGA_COLUMN - 1
                 THEN move_cursor(At(Stored(s, c, a), s.x + 1, s.y))
                 ELSE move_cursor(At(Stored(s, c, a), 0, s.y + 1))
  <1> DEFINE t == Stored(s, c, a)
  <1>1. IsScr(t) /\ t.x = s.x /\ t.y = s.y
    BY StoredIs
  <1>2. putglyph(s, c, a) = IF s.y = VGA_ROW /\ s.x = VGA_COLUMN - 1
                            THEN move_cursor(scrup([t EXCEPT !.x = 0], a))
                            ELSE step_cursor(t)
    BY DEF putglyph, Stored
  <1> HIDE DEF t
  <1>3. /\ [t EXCEPT !.x = 0] = At(t, 0, t.y)
        /\ [t EXCEPT !.x = s.x + 1] = At(t, s.x + 1, t.y)
    BY <1>1, AtExcept
  <1>4. [t EXCEPT !.x = 0, !.y = s.y + 1] = At(t, 0, s.y + 1)
    BY <1>1, BothExcept
  <1>5. CASE s.y = VGA_ROW /\ s.x = VGA_COLUMN - 1
    BY <1>1, <1>2, <1>3, <1>5 DEF t
  <1>6. CASE ~ (s.y = VGA_ROW /\ s.x = VGA_COLUMN - 1)
    <2>1. CASE s.x # VGA_COLUMN - 1
      <3>1. step_cursor(t) = move_cursor([t EXCEPT !.x = s.x + 1])
        BY <1>1, <2>1 DEF step_cursor
      <3> QED BY <1>1, <1>2, <1>3, <1>6, <2>1, <3>1 DEF t
    <2>2. CASE s.x = VGA_COLUMN - 1
      <3>1. step_cursor(t) = move_cursor([t EXCEPT !.x = 0, !.y = s.y + 1])
        BY <1>1, <1>6, <2>2 DEF step_cursor
      <3>2. step_cursor(t) = move_cursor(At(t, 0, s.y + 1))
        BY <1>4, <3>1
      <3> QED BY <1>2, <1>6, <2>2, <3>2 DEF t
    <2> QED BY <2>1, <2>2
  <1> QED BY <1>5, <1>6

\* The shape of a screen survives a character.
LEMMA PutglyphShape ==
  ASSUME NEW s, IsScr(s), NEW a \in Attributes, NEW c \in {NUL, GLYPH}
  PROVE  IsScr(putglyph(s, c, a))
  <1>1. IsScr(Stored(s, c, a))
    BY StoredIs
  <1>2. /\ IsScr(At(Stored(s, c, a), 0, s.y))
        /\ IsScr(At(Stored(s, c, a), s.x + 1, s.y))
        /\ IsScr(At(Stored(s, c, a), 0, s.y + 1))
    BY <1>1, AtIs
  <1>3. IsScr(scrup(At(Stored(s, c, a), 0, s.y), a))
    BY <1>2, ScrupIs
  <1> QED BY <1>2, <1>3, PutglyphIs, MoveCursorIs

\* The screens between which linebreak, vertical_tab, backspace and '\r' choose.
LEMMA MovesAre ==
  ASSUME NEW s, IsScr(s), NEW a
  PROVE  /\ linebreak(s, a) = IF s.y = VGA_ROW THEN move_cursor(scrup(At(s, 0, s.y), a))
                              ELSE move_cursor(At(s, 0, s.y + 1))
         /\ vertical_tab(s, a) = IF s.y = VGA_ROW THEN scrup(s, a)
                                 ELSE move_cursor(At(s, s.x, s.y + 1))
         /\ backspace(s) = IF s.x # 0 THEN move_cursor(At(s, s.x - 1, s.y))
                           ELSE IF s.y # 0 THEN move_cursor(At(s, VGA_COLUMN - 1, s.y - 1))
                           ELSE s
         /\ move_cursor([s EXCEPT !.x = 0]) = move_cursor(At(s, 0, s.y))
  <1>1. /\ [s EXCEPT !.x = 0] = At(s, 0, s.y)
        /\ [s EXCEPT !.x = s.x - 1] = At(s, s.x - 1, s.y)
        /\ [s EXCEPT !.x = VGA_COLUMN - 1] = At(s, VGA_COLUMN - 1, s.y)
        /\ [s EXCEPT !.y = s.y + 1] = At(s, s.x, s.y + 1)
    BY AtExcept
  <1>2. [s EXCEPT !.x = 0, !.y = s.y + 1] = At(s, 0, s.y + 1)
    BY BothExcept
  <1>3. [s EXCEPT !.x = VGA_COLUMN - 1, !.y = s.y - 1] = At(s, VGA_COLUMN - 1, s.y - 1)
    BY BothExcept
  <1>4. linebreak(s, a) = IF s.y = VGA_ROW THEN move_cursor(scrup(At(s, 0, s.y), a))
                          ELSE move_cursor(At(s, 0, s.y + 1))
    <2>1. linebreak(s, a) = IF s.y = VGA_ROW THEN move_cursor(scrup([s EXCEPT !.x = 0], a))
                            ELSE move_cursor([s EXCEPT !.x = 0, !.y = s.y + 1])
      BY DEF linebreak
    <2> QED BY <1>1, <1>2, <2>1
  <1>5. vertical_tab(s, a) = IF s.y = VGA_ROW THEN scrup(s, a)
                             ELSE move_cursor(At(s, s.x, s.y + 1))
    BY <1>1 DEF vertical_tab
  <1>6. backspace(s) = IF s.x # 0 THEN move_cursor(At(s, s.x - 1, s.y))
                       ELSE IF s.y # 0 THEN move_cursor(At(s, VGA_COLUMN - 1, s.y - 1))
                       ELSE s
    <2>1. backspace(s) = IF s.x # 0 THEN move_cursor([s EXCEPT !.x = s.x - 1])
                         ELSE IF s.y # 0
                         THEN move_cursor([s EXCEPT !.x = VGA_COLUMN - 1, !.y = s.y - 1])
                         ELSE s
      BY DEF backspace
    <2> QED BY <1>1, <1>3, <2>1
  <1> QED BY <1>1, <1>4, <1>5, <1>6

\* A frame buffer of one colour without characters.
Cleared(a) == [q \in Cells |-> <<NUL, a>>]

\* cls goes to the beginning of a cleared screen.
LEMMA ClsIs ==
  ASSUME NEW s, IsScr(s), NEW a \in Attributes
  PROVE  /\ Cleared(a) \in Pages
         /\ cls(s, a) = move_cursor(Scr(Cleared(a), 0, 0, s.hw))
         /\ IsScr(Scr(Cleared(a), 0, 0, s.hw))
  <1>1. Cleared(a) \in Pages
    BY DEF Cleared, Pages, CellValues
  <1>2. cls(s, a) = move_cursor([s EXCEPT !.cells = Cleared(a), !.x = 0, !.y = 0])
    BY DEF cls, Cleared
  <1>3. [s EXCEPT !.cells = Cleared(a), !.x = 0, !.y = 0]
           = [[[s EXCEPT !.cells = Cleared(a)] EXCEPT !.x = 0] EXCEPT !.y = 0]
    OBVIOUS
  <1>4. [s EXCEPT !.cells = Cleared(a)] = Scr(Cleared(a), s.x, s.y, s.hw)
    BY ScrExcept
  <1>5. /\ [Scr(Cleared(a), s.x, s.y, s.hw) EXCEPT !.x = 0] = Scr(Cleared(a), 0, s.y, s.hw)
        /\ [Scr(Cleared(a), 0, s.y, s.hw) EXCEPT !.y = 0] = Scr(Cleared(a), 0, 0, s.hw)
    BY DEF Scr
  <1>6. cls(s, a) = move_cursor(Scr(Cleared(a), 0, 0, s.hw))
    BY <1>2, <1>3, <1>4, <1>5
  <1> QED BY <1>1, <1>6, ScrParts

\* putchar is one of the nine operations.
LEMMA PutcharIs ==
  ASSUME NEW s, NEW c, NEW a
  PROVE  \/ putchar(s, c, a) = s
         \/ putchar(s, c, a) = backspace(s)
         \/ putchar(s, c, a) = cls(s, a)
         \/ putchar(s, c, a) = linebreak(s, a)
         \/ putchar(s, c, a) = move_cursor([s EXCEPT !.x = 0])
         \/ putchar(s, c, a) = tab(s, a)
         \/ putchar(s, c, a) = vertical_tab(s, a)
         \/ \E g \in {NUL, GLYPH} : putchar(s, c, a) = putglyph(s, g, a)
  BY DEF putchar

\* A byte outside an escape sequence keeps the shape of the screen.
LEMMA PutcharShape ==
  ASSUME NEW s, IsScr(s), NEW a \in Attributes, NEW c
  PROVE  IsScr(putchar(s, c, a))
  <1>1. IsScr(backspace(s))
    <2>1. IsScr(At(s, s.x - 1, s.y)) /\ IsScr(At(s, VGA_COLUMN - 1, s.y - 1))
      BY AtIs
    <2>2. /\ IsScr(move_cursor(At(s, s.x - 1, s.y)))
          /\ IsScr(move_cursor(At(s, VGA_COLUMN - 1, s.y - 1)))
      BY <2>1, MoveCursorIs
    <2> QED BY <2>2, MovesAre, Zenon
  <1>2. IsScr(cls(s, a))
    BY ClsIs, MoveCursorIs
  <1>3. IsScr(linebreak(s, a))
    <2>1. IsScr(At(s, 0, s.y)) /\ IsScr(At(s, 0, s.y + 1))
      BY AtIs
    <2>2. IsScr(scrup(At(s, 0, s.y), a))
      BY <2>1, ScrupIs
    <2>3. /\ IsScr(move_cursor(scrup(At(s, 0, s.y), a)))
          /\ IsScr(move_cursor(At(s, 0, s.y + 1)))
      BY <2>1, <2>2, MoveCursorIs
    <2> QED BY <2>3, MovesAre, Zenon
  <1>4. IsScr(move_cursor([s EXCEPT !.x = 0]))
    <2>1. IsScr(At(s, 0, s.y))
      BY AtIs
    <2> QED BY <2>1, MovesAre, MoveCursorIs
  <1>5. IsScr(tab(s, a))
    <2> DEFINE again(t) == putglyph(t, NUL, a)
    <2>1. \A t : IsScr(t) => IsScr(again(t))
      BY PutglyphShape
    <2>2. tab(s, a) = again(again(again(again(s))))
      BY DEF tab
    <2> HIDE DEF again
    <2> QED BY <2>1, <2>2
  <1>6. IsScr(vertical_tab(s, a))
    <2>1. IsScr(At(s, s.x, s.y + 1))
      BY AtIs
    <2>2. IsScr(scrup(s, a))
      BY ScrupIs
    <2>3. IsScr(move_cursor(At(s, s.x, s.y + 1)))
      BY <2>1, MoveCursorIs
    <2> QED BY <2>2, <2>3, MovesAre, Zenon
  <1>7. \A g \in {NUL, GLYPH} : IsScr(putglyph(s, g, a))
    BY PutglyphShape
  <1> QED BY <1>1, <1>2, <1>3, <1>4, <1>5, <1>6, <1>7, PutcharIs

\* A cursor command sets x and y only.
LEMMA CursorCommandIs ==
  ASSUME NEW s, IsScr(s), NEW c, NEW n, NEW m
  PROVE  LET r == CursorCommand(s, c, n, m)
         IN  \/ r = s
             \/ c = "A" /\ r = At(s, s.x, Minus(s.y, n))
             \/ c = "B" /\ r = At(s, s.x, AtMost(s.y + n, VGA_ROW))
             \/ c = "C" /\ r = At(s, AtMost(s.x + n, VGA_COLUMN), s.y)
             \/ c = "D" /\ r = At(s, Minus(s.x, n), s.y)
             \/ c = "E" /\ r = At(s, 0, AtMost(s.y + n, VGA_ROW))
             \/ c = "F" /\ r = At(s, 0, Minus(s.y, n))
             \/ c = "G" /\ r = At(s, Within(n, VGA_COLUMN), s.y)
             \/ c = "H" /\ r = At(s, 0, 0)
             \/ /\ c \in {"H", "f"} /\ m # -1
                /\ r = At(s, Within(n, VGA_COLUMN), Within(m, VGA_ROW))
  <1> DEFINE r == CursorCommand(s, c, n, m)
             up == Minus(s.y, n)
             down == AtMost(s.y + n, VGA_ROW)
             left == Minus(s.x, n)
             right == AtMost(s.x + n, VGA_COLUMN)
             column == Within(n, VGA_COLUMN)
             line == Within(m, VGA_ROW)
  <1>1. \/ r = s
        \/ c = "A" /\ r = [s EXCEPT !.y = up]
        \/ c = "B" /\ r = [s EXCEPT !.y = down]
        \/ c = "C" /\ r = [s EXCEPT !.x = right]
        \/ c = "D" /\ r = [s EXCEPT !.x = left]
        \/ c = "E" /\ r = [s EXCEPT !.x = 0, !.y = down]
        \/ c = "F" /\ r = [s EXCEPT !.x = 0, !.y = up]
        \/ c = "G" /\ r = [s EXCEPT !.x = column]
        \/ c = "H" /\ r = [s EXCEPT !.x = 0, !.y = 0]
        \/ c \in {"H", "f"} /\ m # -1 /\ r = [s EXCEPT !.x = column, !.y = line]
    BY DEF CursorCommand
  <1> HIDE DEF r, up, down, left, right, column, line
  <1>2. /\ [s EXCEPT !.y = up] = At(s, s.x, up)
        /\ [s EXCEPT !.y = down] = At(s, s.x, down)
        /\ [s EXCEPT !.x = right] = At(s, right, s.y)
        /\ [s EXCEPT !.x = left] = At(s, left, s.y)
        /\ [s EXCEPT !.x = column] = At(s, column, s.y)
    BY AtExcept
  <1>3. [s EXCEPT !.x = 0, !.y = down] = At(s, 0, down)
    BY BothExcept
  <1>4. [s EXCEPT !.x = 0, !.y = up] = At(s, 0, up)
    BY BothExcept
  <1>5. [s EXCEPT !.x = 0, !.y = 0] = At(s, 0, 0)
    BY BothExcept
  <1>6. [s EXCEPT !.x = column, !.y = line] = At(s, column, line)
    BY BothExcept
  <1> QED BY <1>1, <1>2, <1>3, <1>4, <1>5, <1>6, Zenon
          DEF r, up, down, left, right, column, line

\* An erase command keeps the position, or clears the screen.
LEMMA EraseIs ==
  ASSUME NEW s, IsScr(s), NEW from, NEW to
  PROVE  /\ IsScr(Erase(s, from, to))
         /\ Erase(s, from, to).x = s.x /\ Erase(s, from, to).y = s.y
         /\ Erase(s, from, to).hw = s.hw
  <1> DEFINE painted == [q \in Cells |-> IF from <= q /\ q < to THEN <<NUL, 0>> ELSE s.cells[q]]
  <1>1. painted \in Pages
    BY DEF IsScr, Pages, CellValues, Attributes
  <1>2. Erase(s, from, to) = [s EXCEPT !.cells = painted]
    BY DEF Erase
  <1> HIDE DEF painted
  <1>3. Erase(s, from, to) = Scr(painted, s.x, s.y, s.hw)
    BY <1>2, ScrExcept
  <1> QED BY <1>1, <1>3, ScrParts

LEMMA EraseCommandIs ==
  ASSUME NEW s, NEW c, NEW n, NEW a
  PROVE  LET r == EraseCommand(s, c, n, a)
         IN  r = s \/ r = cls(s, a) \/ \E from, to : r = Erase(s, from, to)
  BY DEF EraseCommand

\* The command of an escape sequence keeps the shape of the screen.
LEMMA CommandShape ==
  ASSUME NEW s, IsScr(s), NEW c, NEW n, NEW m, NEW a \in Attributes
  PROVE  IsScr(EraseCommand(CursorCommand(s, c, n, m), c, n, a))
  <1> DEFINE t == CursorCommand(s, c, n, m)
  <1>1. t = s \/ \E w, v : t = At(s, w, v)
    BY CursorCommandIs
  <1> HIDE DEF t
  <1>2. IsScr(t)
    BY <1>1, AtIs
  <1>3. IsScr(cls(t, a)) /\ \A from, to : IsScr(Erase(t, from, to))
    BY <1>2, ClsIs, MoveCursorIs, EraseIs
  <1> DEFINE r == EraseCommand(t, c, n, a)
  <1>4. r = t \/ r = cls(t, a) \/ \E from, to : r = Erase(t, from, to)
    BY EraseCommandIs
  <1> HIDE DEF r
  <1>5. IsScr(r)
    BY <1>2, <1>3, <1>4
  <1> QED BY <1>5 DEF r, t

\* 'm' selects one of the sixteen colours.
LEMMA ColourIs ==
  ASSUME NEW n, NEW m, NEW base \in {30, 40}, NEW default \in 0 .. 15, NEW old \in 0 .. 15
  PROVE  Colour(n, m, base, default, old) \in 0 .. 15
  <1>1. \A i \in 1 .. 16 : jmptable[i] \in 0 .. 15
    BY DEF jmptable
  <1>2. CASE n = 0
    BY <1>2 DEF Colour
  <1>3. CASE n # 0 /\ n \in base .. base + 7
    BY <1>1, <1>3 DEF Colour
  <1>4. CASE n = 1 /\ m \in base .. base + 7
    BY <1>1, <1>4 DEF Colour
  <1>5. CASE n # 0 /\ n \notin base .. base + 7 /\ ~ (n = 1 /\ m \in base .. base + 7)
    BY <1>5 DEF Colour
  <1> QED BY <1>2, <1>3, <1>4, <1>5

-----------------------------------------------------------------------------
(* Terminals do not disturb each other                                     *)

\* The parts of a terminal.
LEMMA TermParts ==
  ASSUME NEW q, NEW w, NEW v, NEW f, NEW b
  PROVE  /\ Term(q, w, v, f, b).page = q
         /\ Term(q, w, v, f, b).x = w /\ Term(q, w, v, f, b).y = v
         /\ Term(q, w, v, f, b).fore = f /\ Term(q, w, v, f, b).back = b
         /\ q \in Pages \cup {NoPage} /\ f \in 0 .. 15 /\ b \in 0 .. 15 =>
               IsSaved(Term(q, w, v, f, b))
  BY DEF IsSaved, Term

\* The page of a terminal that was never switched to is a new one, zeroed.
PageOf(r) == IF r.page = NoPage THEN Zeroed ELSE r.page

LEMMA PageIs ==
  ASSUME NEW r, IsSaved(r)
  PROVE  /\ PageOf(r) \in Pages
         /\ [r EXCEPT !.page = PageOf(r)] = Term(PageOf(r), r.x, r.y, r.fore, r.back)
         /\ IsSaved(Term(PageOf(r), r.x, r.y, r.fore, r.back))
  <1>1. PageOf(r) \in Pages
    BY PagesAreThere DEF PageOf, IsSaved
  <1>2. [r EXCEPT !.page = PageOf(r)] = Term(PageOf(r), r.x, r.y, r.fore, r.back)
    BY DEF IsSaved, Term
  <1>3. r.fore \in 0 .. 15 /\ r.back \in 0 .. 15
    BY DEF IsSaved
  <1> QED BY <1>1, <1>2, <1>3, TermParts

\* What a switch leaves in the arrays: the current terminal as it is shown,
\* a page for the next one, and the others as they were.
LEMMA SavedIs ==
  ASSUME ShapeInv, NEW data \in Ttys, data # curr_tty
  PROVE  /\ Saved(data) = [t \in Ttys |-> Saved(data)[t]]
         /\ Saved(data)[curr_tty] = Term(scr.cells, scr.x, scr.y, fore, back)
         /\ Saved(data)[data] = Term(PageOf(ttys[data]), ttys[data].x, ttys[data].y,
                                     ttys[data].fore, ttys[data].back)
         /\ \A t \in Ttys \ {data, curr_tty} : Saved(data)[t] = ttys[t]
  <1> DEFINE now == Term(scr.cells, scr.x, scr.y, fore, back)
             then == [ttys[data] EXCEPT !.page = PageOf(ttys[data])]
             saved == [[ttys EXCEPT ![curr_tty] = now] EXCEPT ![data] = then]
  <1>1. curr_tty \in Ttys /\ ttys = [t \in Ttys |-> ttys[t]] /\ IsSaved(ttys[data])
    BY DEF ShapeInv
  <1>2. Saved(data) = saved
    BY <1>1 DEF Saved, PageOf, Term
  <1>3. then = Term(PageOf(ttys[data]), ttys[data].x, ttys[data].y,
                    ttys[data].fore, ttys[data].back)
    BY <1>1, PageIs
  <1> HIDE DEF now, then
  <1>4. /\ saved = [t \in Ttys |-> saved[t]]
        /\ saved[curr_tty] = now /\ saved[data] = then
        /\ \A t \in Ttys \ {data, curr_tty} : saved[t] = ttys[t]
    BY <1>1
  <1> HIDE DEF saved
  <1> QED BY <1>2, <1>3, <1>4 DEF now

LEMMA ShapeInit == Init => ShapeInv
  <1> SUFFICES ASSUME Init PROVE ShapeInv
    OBVIOUS
  <1>1. scr = Scr(Cleared(7), 0, 0, 0) /\ Cleared(7) \in Pages
    BY DEF Init, Scr, Cleared, Pages, CellValues, Attributes, DEFAULT_BACK, DEFAULT_FORE
  <1>2. IsScr(scr)
    BY <1>1, ScrParts
  <1>3. fore \in 0 .. 15 /\ back \in 0 .. 15 /\ curr_tty \in Ttys
    BY TtyAssumption DEF Init, DEFAULT_FORE, DEFAULT_BACK
  <1>4. ttys = [t \in Ttys |-> Term(NoPage, 0, 0, 0, 0)]
    BY DEF Init, Term
  <1>5. IsSaved(Term(NoPage, 0, 0, 0, 0))
    BY TermParts
  <1>6. ttys = [t \in Ttys |-> ttys[t]] /\ \A t \in Ttys : IsSaved(ttys[t])
    BY <1>4, <1>5
  <1> QED BY <1>2, <1>3, <1>6 DEF ShapeInv

LEMMA ShapeStep == ShapeInv /\ [Next]_vars => ShapeInv'
  <1> SUFFICES ASSUME ShapeInv, [Next]_vars PROVE ShapeInv'
    OBVIOUS
  <1>1. /\ IsScr(scr) /\ fore \in 0 .. 15 /\ back \in 0 .. 15 /\ curr_tty \in Ttys
        /\ ttys = [t \in Ttys |-> ttys[t]] /\ \A t \in Ttys : IsSaved(ttys[t])
    BY DEF ShapeInv
  <1>2. ASSEMB_COLOUR \in Attributes
    BY <1>1, ColourIsByte DEF ASSEMB_COLOUR
  <1>3. CASE tty_init
    <2> DEFINE new(t) == [ttys[t] EXCEPT !.page = IF t = 1 THEN Zeroed ELSE ttys[t].page,
                                         !.fore = DEFAULT_FORE, !.back = DEFAULT_BACK]
    <2>1. ttys' = [t \in Ttys |-> new(t)] /\ UNCHANGED <<scr, fore, back>> /\ curr_tty' = 1
      BY <1>3 DEF tty_init, colours
    <2>2. ASSUME NEW t \in Ttys
          PROVE  IsSaved(new(t))
      <3> DEFINE q == IF t = 1 THEN Zeroed ELSE ttys[t].page
                 r == ttys[t]
      <3>1. r = Term(r.page, r.x, r.y, r.fore, r.back) /\ q \in Pages \cup {NoPage}
        BY <1>1, PagesAreThere DEF IsSaved
      <3>2. new(t) = [[[r EXCEPT !.page = q] EXCEPT !.fore = DEFAULT_FORE]
                          EXCEPT !.back = DEFAULT_BACK]
        OBVIOUS
      <3> HIDE DEF q, r
      <3>3. /\ [r EXCEPT !.page = q] = Term(q, r.x, r.y, r.fore, r.back)
            /\ [Term(q, r.x, r.y, r.fore, r.back) EXCEPT !.fore = DEFAULT_FORE]
                  = Term(q, r.x, r.y, DEFAULT_FORE, r.back)
            /\ [Term(q, r.x, r.y, DEFAULT_FORE, r.back) EXCEPT !.back = DEFAULT_BACK]
                  = Term(q, r.x, r.y, DEFAULT_FORE, DEFAULT_BACK)
        BY <3>1 DEF Term
      <3>4. IsSaved(Term(q, r.x, r.y, DEFAULT_FORE, DEFAULT_BACK))
        BY <3>1, TermParts DEF DEFAULT_FORE, DEFAULT_BACK
      <3> QED BY <3>2, <3>3, <3>4
    <2> HIDE DEF new
    <2>3. ttys' = [t \in Ttys |-> ttys'[t]] /\ \A t \in Ttys : IsSaved(ttys'[t])
      BY <2>1, <2>2
    <2> QED BY <1>1, <2>1, <2>3, TtyAssumption DEF ShapeInv
  <1>4. ASSUME NEW data \in Ttys, tty_switch(data)
        PROVE  ShapeInv'
    <2>1. data # curr_tty /\ ttys' = Saved(data) /\ curr_tty' = data
      BY <1>4 DEF tty_switch
    <2>2. IsSaved(Term(scr.cells, scr.x, scr.y, fore, back))
      BY <1>1, TermParts DEF IsScr
    <2>3. IsSaved(ttys[data])
      BY <1>1
    <2>4. IsSaved(Term(PageOf(ttys[data]), ttys[data].x, ttys[data].y,
                       ttys[data].fore, ttys[data].back)) /\ PageOf(ttys[data]) \in Pages
      BY <2>3, PageIs
    <2>5. ttys' = [t \in Ttys |-> ttys'[t]] /\ \A t \in Ttys : IsSaved(ttys'[t])
      BY <1>1, <2>1, <2>2, <2>4, SavedIs
    <2>6. ttys'[data].page \in Pages
      BY <2>1, <2>4, SavedIs, TermParts
    <2>7. scr' = Scr(ttys'[data].page, ttys'[data].x, ttys'[data].y, scr.hw)
      <3> DEFINE q == ttys'[data].page
                 w == ttys'[data].x
                 v == ttys'[data].y
      <3>1. scr' = [[[scr EXCEPT !.cells = q] EXCEPT !.x = w] EXCEPT !.y = v]
        BY <1>4 DEF tty_switch
      <3> HIDE DEF q, w, v
      <3>2. /\ [scr EXCEPT !.cells = q] = Scr(q, scr.x, scr.y, scr.hw)
            /\ [Scr(q, scr.x, scr.y, scr.hw) EXCEPT !.x = w] = Scr(q, w, scr.y, scr.hw)
            /\ [Scr(q, w, scr.y, scr.hw) EXCEPT !.y = v] = Scr(q, w, v, scr.hw)
        BY <1>1 DEF IsScr, Scr
      <3> QED BY <3>1, <3>2 DEF q, w, v
    <2>8. IsScr(scr')
      BY <2>6, <2>7, ScrParts
    <2>9. fore' \in 0 .. 15 /\ back' \in 0 .. 15
      BY <1>4, <2>5 DEF tty_switch, IsSaved
    <2> QED BY <2>1, <2>5, <2>8, <2>9 DEF ShapeInv
  <1>5. ASSUME NEW c \in Bytes, tty_write(c)
        PROVE  ShapeInv'
    <2>1. UNCHANGED <<curr_tty, ttys>>
      BY <1>5 DEF tty_write, sequence_start, sequence_parameter, sequence_command, print
    <2>2. IsScr(scr') /\ fore' \in 0 .. 15 /\ back' \in 0 .. 15
      <3>1. CASE sequence_start(c) \/ sequence_parameter(c)
        BY <1>1, <3>1 DEF sequence_start, sequence_parameter, colours
      <3>2. CASE sequence_command(c)
        <4> DEFINE q == atoi_comma(command_buf)
        <4>1. /\ scr' = EraseCommand(CursorCommand(scr, c, q[1], q[2]),
                                     c, q[1], ASSEMB_COLOUR)
              /\ \/ /\ fore' = Colour(q[1], q[2], 30, DEFAULT_FORE, fore)
                    /\ back' = Colour(q[1], q[2], 40, DEFAULT_BACK, back)
                 \/ UNCHANGED <<fore, back>>
          BY <3>2 DEF sequence_command, colours
        <4> HIDE DEF q
        <4>2. /\ Colour(q[1], q[2], 30, DEFAULT_FORE, fore) \in 0 .. 15
              /\ Colour(q[1], q[2], 40, DEFAULT_BACK, back) \in 0 .. 15
          BY <1>1, ColourIs DEF DEFAULT_FORE, DEFAULT_BACK
        <4>3. IsScr(scr')
          BY <1>1, <1>2, <4>1, CommandShape
        <4> QED BY <1>1, <4>1, <4>2, <4>3
      <3>3. CASE print(c)
        BY <1>1, <1>2, <3>3, PutcharShape DEF print, colours
      <3> QED BY <1>5, <3>1, <3>2, <3>3 DEF tty_write
    <2> QED BY <1>1, <2>1, <2>2 DEF ShapeInv
  <1>6. CASE UNCHANGED vars
    BY <1>1, <1>6 DEF vars, colours, ShapeInv
  <1> QED BY <1>3, <1>4, <1>5, <1>6 DEF Next

LEMMA ShapeAlways == Spec => []ShapeInv
  BY ShapeInit, ShapeStep, PTL DEF Spec

(* A switch changes no terminal, and a byte changes the current one only:  *)
(* what TerminalsApart says of tty_write, for every size of the screen and *)
(* all bytes, also those that take the cursor off the screen.              *)
THEOREM TtyTerminalsApart == Spec => TerminalsApart
  <1>1. ShapeInv /\ [Next]_vars => [Initialised =>
          \A t \in Ttys : t # curr_tty \/ curr_tty' # curr_tty =>
                           Terminal(t)' = Terminal(t)]_vars
    <2> SUFFICES ASSUME ShapeInv, Next, Initialised,
                        NEW t \in Ttys, t # curr_tty \/ curr_tty' # curr_tty
                 PROVE  Terminal(t)' = Terminal(t)
      OBVIOUS
    <2>1. IsSaved(ttys[t]) /\ IsScr(scr) /\ curr_tty \in Ttys
      BY DEF ShapeInv
    <2>2. t # curr_tty => Terminal(t) = Term(PageOf(ttys[t]), ttys[t].x, ttys[t].y,
                                             ttys[t].fore, ttys[t].back)
      <3>1. t # curr_tty => Terminal(t) = [ttys[t] EXCEPT !.page = PageOf(ttys[t])]
        BY DEF Terminal, PageOf
      <3> QED BY <2>1, <3>1, PageIs
    <2>3. ASSUME NEW data \in Ttys, tty_switch(data)
          PROVE  Terminal(t)' = Terminal(t)
      <3>1. data # curr_tty /\ ttys' = Saved(data) /\ curr_tty' = data
        BY <2>3 DEF tty_switch
      <3>2. CASE t = data
        <4>1. /\ scr'.cells = ttys'[t].page /\ scr'.x = ttys'[t].x /\ scr'.y = ttys'[t].y
              /\ fore' = ttys'[t].fore /\ back' = ttys'[t].back
          BY <2>1, <2>3, <3>2 DEF tty_switch, IsScr, Scr
        <4>2. Terminal(t)' = Term(ttys'[t].page, ttys'[t].x, ttys'[t].y,
                                  ttys'[t].fore, ttys'[t].back)
          BY <3>1, <3>2, <4>1 DEF Terminal, Term
        <4>3. ttys'[t] = Term(PageOf(ttys[t]), ttys[t].x, ttys[t].y,
                              ttys[t].fore, ttys[t].back)
          BY <3>1, <3>2, SavedIs
        <4>4. Terminal(t)' = Term(PageOf(ttys[t]), ttys[t].x, ttys[t].y,
                                  ttys[t].fore, ttys[t].back)
          BY <4>2, <4>3, TermParts
        <4> QED BY <2>2, <3>1, <3>2, <4>4
      <3>3. CASE t = curr_tty
        <4> DEFINE r == Term(scr.cells, scr.x, scr.y, fore, back)
        <4>1. Terminal(t) = r
          BY <3>3 DEF Terminal, Term
        <4>2. ttys'[t] = r
          BY <3>1, <3>3, SavedIs
        <4>3. r.page # NoPage
          BY <2>1, PagesAreThere, TermParts DEF IsScr
        <4>4. [r EXCEPT !.page = r.page] = r
          BY DEF Term
        <4> HIDE DEF r
        <4>5. Terminal(t)' = [r EXCEPT !.page = r.page]
          BY <3>1, <3>3, <4>2, <4>3 DEF Terminal
        <4> QED BY <4>1, <4>4, <4>5
      <3>4. CASE t # data /\ t # curr_tty
        <4>1. ttys'[t] = ttys[t]
          BY <3>1, <3>4, SavedIs
        <4> QED BY <3>1, <3>4, <4>1 DEF Terminal
      <3> QED BY <3>2, <3>3, <3>4
    <2>4. ASSUME NEW c \in Bytes, tty_write(c)
          PROVE  Terminal(t)' = Terminal(t)
      <3>1. UNCHANGED <<curr_tty, ttys>>
        BY <2>4 DEF tty_write, sequence_start, sequence_parameter, sequence_command, print
      <3> QED BY <3>1 DEF Terminal
    <2>5. ~ tty_init
      BY DEF tty_init
    <2> QED BY <2>3, <2>4, <2>5 DEF Next
  <1> QED BY <1>1, ShapeAlways, PTL DEF Spec, TerminalsApart

-----------------------------------------------------------------------------
(* Text on the screen                                                      *)

OnScr(s) ==
    /\ IsScr(s)
    /\ s.x \in 0 .. VGA_COLUMN - 1 /\ s.y \in 0 .. VGA_ROW
    /\ s.hw \in 0 .. VGA_COLUMN * (VGA_ROW + 1)

\* A position on the screen is a cell.
LEMMA PositionIsCell ==
  ASSUME NEW w \in 0 .. VGA_COLUMN - 1, NEW v \in 0 .. VGA_ROW
  PROVE  /\ v * VGA_COLUMN \in Nat /\ v * VGA_COLUMN <= VGA_ROW * VGA_COLUMN
         /\ v * VGA_COLUMN + w \in Cells
         /\ v * VGA_COLUMN + w \in 0 .. VGA_COLUMN * (VGA_ROW + 1)
         /\ VGA_COLUMN * (VGA_ROW + 1) = VGA_ROW * VGA_COLUMN + VGA_COLUMN
  <1>1. VGA_COLUMN \in Nat /\ VGA_ROW \in Nat /\ v \in Nat /\ v <= VGA_ROW
    BY TtyAssumption
  <1>2. v * VGA_COLUMN \in Nat /\ v * VGA_COLUMN <= VGA_ROW * VGA_COLUMN
    BY <1>1
  <1>3. VGA_COLUMN * (VGA_ROW + 1) = VGA_ROW * VGA_COLUMN + VGA_COLUMN
    BY <1>1
  <1>4. VGA_ROW * VGA_COLUMN \in Nat
    BY <1>1
  <1> QED BY <1>1, <1>2, <1>3, <1>4 DEF Cells

\* Moved to a position on the screen, the cursor of the VGA is moved there.
LEMMA MoveOnScreen ==
  ASSUME NEW s, IsScr(s), s.x \in 0 .. VGA_COLUMN - 1, s.y \in 0 .. VGA_ROW
  PROVE  LET t == move_cursor(s)
         IN  /\ OnScr(t) /\ t.cells = s.cells /\ t.x = s.x /\ t.y = s.y
             /\ t.hw = Pos(s) /\ Pos(t) = Pos(s)
  <1> DEFINE t == move_cursor(s)
  <1>1. IsScr(t) /\ t.cells = s.cells /\ t.x = s.x /\ t.y = s.y
    BY MoveCursorIs
  <1>2. s.x \in 0 .. VGA_COLUMN
    BY TtyAssumption
  <1>3. t.hw = Pos(s)
    BY <1>2, MoveCursorIs
  <1>4. Pos(s) \in 0 .. VGA_COLUMN * (VGA_ROW + 1)
    BY PositionIsCell DEF Pos
  <1>5. Pos(t) = Pos(s)
    BY <1>1 DEF Pos
  <1> QED BY <1>1, <1>3, <1>4, <1>5 DEF OnScr

LEMMA AtOnScreen ==
  ASSUME NEW s, IsScr(s), NEW w \in 0 .. VGA_COLUMN - 1, NEW v \in 0 .. VGA_ROW
  PROVE  LET t == move_cursor(At(s, w, v))
         IN  /\ OnScr(t) /\ t.cells = s.cells /\ t.x = w /\ t.y = v
             /\ t.hw = Pos(t) /\ Pos(t) = v * VGA_COLUMN + w
  <1>1. /\ IsScr(At(s, w, v)) /\ At(s, w, v).cells = s.cells
        /\ At(s, w, v).x = w /\ At(s, w, v).y = v
    BY AtIs
  <1> QED BY <1>1, MoveOnScreen DEF Pos

\* From s to t, k rows were pushed off the top, and nothing else happened to
\* the cells before the cursor.
Shifted(s, t, k) ==
    \A q \in Cells : q < Pos(s) /\ q >= k * VGA_COLUMN =>
        t.cells[q - k * VGA_COLUMN] = s.cells[q]

\* From s to t the cursor went n characters on.
Advance(s, t, k, n) ==
    /\ Pos(t) + k * VGA_COLUMN = Pos(s) + n
    /\ k > 0 => t.y = VGA_ROW
    /\ s.y = VGA_ROW => t.y = VGA_ROW
    /\ Shifted(s, t, k)

\* The position of a screen with the cursor on it.
LEMMA OnScrPosition ==
  ASSUME NEW s, OnScr(s)
  PROVE  /\ Pos(s) \in Cells /\ Pos(s) \in Nat
         /\ s.y = VGA_ROW => Pos(s) >= VGA_ROW * VGA_COLUMN
  <1>1. s.x \in 0 .. VGA_COLUMN - 1 /\ s.y \in 0 .. VGA_ROW
    BY DEF OnScr
  <1>2. Pos(s) \in Cells /\ s.y * VGA_COLUMN \in Nat
    BY <1>1, PositionIsCell DEF Pos
  <1> QED BY <1>1, <1>2 DEF Pos, Cells

\* Two advances make one.
LEMMA AdvanceTwice ==
  ASSUME NEW s, NEW t, NEW w, OnScr(s), OnScr(t), OnScr(w),
         NEW k \in Nat, NEW l \in Nat, NEW n \in Nat, NEW m \in Nat,
         Advance(s, t, k, n), Advance(t, w, l, m)
  PROVE  Advance(s, w, k + l, n + m)
  <1> DEFINE K == k * VGA_COLUMN
             L == l * VGA_COLUMN
             KL == (k + l) * VGA_COLUMN
  <1>1. K \in Nat /\ L \in Nat
    BY TtyAssumption
  <1>2. KL = K + L
    BY TtyAssumption
  <1>3. Pos(s) \in Nat /\ Pos(t) \in Nat /\ Pos(w) \in Nat
    BY OnScrPosition
  <1>4. Pos(t) + K = Pos(s) + n /\ Pos(w) + L = Pos(t) + m
    BY DEF Advance
  <1>5. \A q \in Cells : q < Pos(s) /\ q >= K => t.cells[q - K] = s.cells[q]
    BY DEF Advance, Shifted
  <1>6. \A q \in Cells : q < Pos(t) /\ q >= L => w.cells[q - L] = t.cells[q]
    BY DEF Advance, Shifted
  <1>7. k + l > 0 => w.y = VGA_ROW
    BY DEF Advance
  <1>8. s.y = VGA_ROW => w.y = VGA_ROW
    BY DEF Advance
  <1> HIDE DEF K, L, KL
  <1>9. Pos(w) + KL = Pos(s) + (n + m)
    BY <1>1, <1>2, <1>3, <1>4
  <1>10. ASSUME NEW q \in Cells, q < Pos(s), q >= KL
         PROVE  w.cells[q - KL] = s.cells[q]
    <2> DEFINE end == VGA_COLUMN * (VGA_ROW + 1) - 1
    <2>1. q \in 0 .. end /\ end \in Int
      BY TtyAssumption DEF Cells
    <2> HIDE DEF end
    <2>2. q - K \in 0 .. end /\ q - K < Pos(t) /\ q - K >= L /\ q >= K
      BY <1>1, <1>2, <1>3, <1>4, <1>10, <2>1
    <2>3. q - K \in Cells
      BY <2>2 DEF end, Cells
    <2>4. (q - K) - L = q - KL
      BY <1>1, <1>2, <2>1
    <2>5. t.cells[q - K] = s.cells[q]
      BY <1>5, <1>10, <2>2
    <2>6. w.cells[(q - K) - L] = t.cells[q - K]
      BY <1>6, <2>2, <2>3
    <2> QED BY <2>4, <2>5, <2>6
  <1> QED BY <1>7, <1>8, <1>9, <1>10 DEF Advance, Shifted, KL

\* Scrolling pushes one row off.
LEMMA ScrupShifts ==
  ASSUME NEW s, IsScr(s), NEW a \in Attributes, NEW q \in Cells, q >= VGA_COLUMN
  PROVE  scrup(s, a).cells[q - VGA_COLUMN] = s.cells[q]
  <1>1. q - VGA_COLUMN \in Cells /\ (q - VGA_COLUMN) + VGA_COLUMN = q
    <2> DEFINE end == VGA_COLUMN * (VGA_ROW + 1) - 1
    <2>1. q \in 0 .. end /\ end \in Int /\ VGA_COLUMN \in Nat
      BY TtyAssumption DEF Cells
    <2> HIDE DEF end
    <2>2. q - VGA_COLUMN \in 0 .. end /\ (q - VGA_COLUMN) + VGA_COLUMN = q
      BY <2>1
    <2> QED BY <2>2 DEF end, Cells
  <1> QED BY <1>1, ScrupIs

\* A row is pushed off when s is scrolled and its cursor set to (x, VGA_ROW).
LEMMA ScrollOnScreen ==
  ASSUME NEW s, IsScr(s), s.y = VGA_ROW, NEW a \in Attributes, s.x \in 0 .. VGA_COLUMN - 1
  PROVE  LET t == move_cursor(scrup(s, a))
         IN  /\ OnScr(t) /\ t.x = s.x /\ t.y = VGA_ROW
             /\ t.hw = Pos(t) /\ Pos(t) = Pos(s)
             /\ \A q \in Cells : q >= VGA_COLUMN => t.cells[q - VGA_COLUMN] = s.cells[q]
  <1> DEFINE r == scrup(s, a)
             t == move_cursor(r)
  <1>1. IsScr(r) /\ r.x = s.x /\ r.y = s.y
    BY ScrupIs
  <1>2. \A q \in Cells : q >= VGA_COLUMN => r.cells[q - VGA_COLUMN] = s.cells[q]
    BY ScrupShifts
  <1> HIDE DEF r
  <1>3. VGA_ROW \in 0 .. VGA_ROW
    BY TtyAssumption
  <1>4. /\ OnScr(t) /\ t.cells = r.cells /\ t.x = r.x /\ t.y = r.y
        /\ t.hw = Pos(r) /\ Pos(t) = Pos(r)
    BY <1>1, <1>3, MoveOnScreen
  <1>5. Pos(r) = Pos(s)
    BY <1>1 DEF Pos
  <1> HIDE DEF t
  <1>6. /\ OnScr(t) /\ t.x = s.x /\ t.y = VGA_ROW
        /\ t.hw = Pos(t) /\ Pos(t) = Pos(s)
        /\ \A q \in Cells : q >= VGA_COLUMN => t.cells[q - VGA_COLUMN] = s.cells[q]
    BY <1>1, <1>2, <1>4, <1>5
  <1> QED BY <1>6 DEF t, r

\* A character goes one position on.
LEMMA PutglyphAdvances ==
  ASSUME NEW s, OnScr(s), NEW a \in Attributes, NEW c \in {NUL, GLYPH}
  PROVE  LET t == putglyph(s, c, a)
         IN  /\ OnScr(t) /\ t.hw = Pos(t)
             /\ \E k \in 0 .. 1 : Advance(s, t, k, 1)
  <1> DEFINE t == putglyph(s, c, a)
             st == Stored(s, c, a)
  <1>1. /\ IsScr(s) /\ s.x \in 0 .. VGA_COLUMN - 1 /\ s.y \in 0 .. VGA_ROW
        /\ VGA_ROW \in Nat /\ VGA_COLUMN \in Nat \ {0}
    BY TtyAssumption DEF OnScr
  <1>2. IsScr(st) /\ \A q \in Cells : q # Pos(s) => st.cells[q] = s.cells[q]
    BY <1>1, StoredIs
  <1>3. Pos(s) = s.y * VGA_COLUMN + s.x /\ Pos(s) \in Nat /\ s.y * VGA_COLUMN \in Nat
    BY <1>1, OnScrPosition, PositionIsCell DEF Pos
  <1>4. \A q \in Cells : q \in Nat
    BY DEF Cells
  <1>5. 0 * VGA_COLUMN = 0 /\ 1 * VGA_COLUMN = VGA_COLUMN
    BY <1>1
  <1>6. CASE s.y = VGA_ROW /\ s.x = VGA_COLUMN - 1
    <2> DEFINE r == At(st, 0, s.y)
    <2>1. t = move_cursor(scrup(r, a))
      BY <1>1, <1>6, PutglyphIs
    <2>2. IsScr(r) /\ r.cells = st.cells /\ r.x = 0 /\ r.y = VGA_ROW
      BY <1>2, <1>6, AtIs
    <2>3. Pos(r) = s.y * VGA_COLUMN
      BY <1>3, <1>6, <2>2 DEF Pos
    <2> HIDE DEF r, st, t
    <2>4. 0 \in 0 .. VGA_COLUMN - 1
      BY <1>1
    <2>5. /\ OnScr(t) /\ t.y = VGA_ROW /\ t.hw = Pos(t) /\ Pos(t) = Pos(r)
          /\ \A q \in Cells : q >= VGA_COLUMN => t.cells[q - VGA_COLUMN] = r.cells[q]
      BY <2>1, <2>2, <2>4, ScrollOnScreen
    <2>6. Pos(t) + 1 * VGA_COLUMN = Pos(s) + 1
      BY <1>1, <1>3, <1>5, <1>6, <2>3, <2>5
    <2>7. Shifted(s, t, 1)
      BY <1>2, <1>3, <1>4, <1>5, <2>2, <2>5 DEF Shifted
    <2>8. Advance(s, t, 1, 1)
      BY <2>5, <2>6, <2>7 DEF Advance
    <2> QED BY <2>5, <2>8 DEF t
  <1>7. ASSUME NEW w \in 0 .. VGA_COLUMN - 1, NEW v \in 0 .. VGA_ROW,
               t = move_cursor(At(st, w, v)), v * VGA_COLUMN + w = Pos(s) + 1,
               s.y = VGA_ROW => v = VGA_ROW
        PROVE  OnScr(t) /\ t.hw = Pos(t) /\ \E k \in 0 .. 1 : Advance(s, t, k, 1)
    <2> HIDE DEF t, st
    <2>1. /\ OnScr(t) /\ t.cells = st.cells /\ t.y = v
          /\ t.hw = Pos(t) /\ Pos(t) = Pos(s) + 1
      BY <1>2, <1>7, AtOnScreen
    <2>2. Shifted(s, t, 0)
      BY <1>2, <1>3, <1>4, <1>5, <2>1 DEF Shifted
    <2>3. Advance(s, t, 0, 1)
      BY <1>3, <1>5, <1>7, <2>1, <2>2 DEF Advance
    <2> QED BY <2>1, <2>3
  <1>8. CASE s.x # VGA_COLUMN - 1
    <2>1. t = move_cursor(At(st, s.x + 1, s.y))
      BY <1>1, <1>8, PutglyphIs
    <2>2. s.x + 1 \in 0 .. VGA_COLUMN - 1 /\ s.y * VGA_COLUMN + (s.x + 1) = Pos(s) + 1
      BY <1>1, <1>3, <1>8
    <2> HIDE DEF t, st
    <2>3. OnScr(t) /\ t.hw = Pos(t) /\ \E k \in 0 .. 1 : Advance(s, t, k, 1)
      BY <1>1, <1>7, <2>1, <2>2
    <2> QED BY <2>3 DEF t
  <1>9. CASE s.x = VGA_COLUMN - 1 /\ s.y # VGA_ROW
    <2>1. t = move_cursor(At(st, 0, s.y + 1))
      BY <1>1, <1>9, PutglyphIs
    <2>2. 0 \in 0 .. VGA_COLUMN - 1 /\ s.y + 1 \in 0 .. VGA_ROW
      BY <1>1, <1>9
    <2>3. (s.y + 1) * VGA_COLUMN = s.y * VGA_COLUMN + VGA_COLUMN
      BY <1>1
    <2>4. (s.y + 1) * VGA_COLUMN + 0 = Pos(s) + 1
      BY <1>1, <1>3, <1>9, <2>3
    <2> HIDE DEF t, st
    <2>5. OnScr(t) /\ t.hw = Pos(t) /\ \E k \in 0 .. 1 : Advance(s, t, k, 1)
      BY <1>7, <1>9, <2>1, <2>2, <2>4
    <2> QED BY <2>5 DEF t
  <1> QED BY <1>6, <1>8, <1>9

\* A tab is four characters.
LEMMA TabAdvances ==
  ASSUME NEW s, OnScr(s), NEW a \in Attributes
  PROVE  LET t == tab(s, a)
         IN  /\ OnScr(t) /\ t.hw = Pos(t)
             /\ \E k \in 0 .. 4 : Advance(s, t, k, 4)
  <1> DEFINE again(t) == putglyph(t, NUL, a)
  <1>1. \A t : OnScr(t) => /\ OnScr(again(t)) /\ again(t).hw = Pos(again(t))
                           /\ \E k \in 0 .. 1 : Advance(t, again(t), k, 1)
    BY PutglyphAdvances
  <1> DEFINE s1 == again(s)
             s2 == again(s1)
             s3 == again(s2)
             s4 == again(s3)
  <1>2. tab(s, a) = s4
    BY DEF tab
  <1> HIDE DEF again
  <1>3. OnScr(s1) /\ OnScr(s2) /\ OnScr(s3) /\ OnScr(s4) /\ s4.hw = Pos(s4)
    BY <1>1
  <1>4. PICK k1 \in 0 .. 1 : Advance(s, s1, k1, 1)
    BY <1>1
  <1>5. PICK k2 \in 0 .. 1 : Advance(s1, s2, k2, 1)
    BY <1>1, <1>3
  <1>6. PICK k3 \in 0 .. 1 : Advance(s2, s3, k3, 1)
    BY <1>1, <1>3
  <1>7. PICK k4 \in 0 .. 1 : Advance(s3, s4, k4, 1)
    BY <1>1, <1>3
  <1> HIDE DEF s1, s2, s3, s4
  <1>8. Advance(s, s2, k1 + k2, 1 + 1)
    BY <1>3, <1>4, <1>5, AdvanceTwice
  <1>9. Advance(s2, s4, k3 + k4, 1 + 1)
    BY <1>3, <1>6, <1>7, AdvanceTwice
  <1>10. k1 + k2 \in Nat /\ k3 + k4 \in Nat /\ 1 + 1 \in Nat
    OBVIOUS
  <1>11. Advance(s, s4, (k1 + k2) + (k3 + k4), (1 + 1) + (1 + 1))
    BY <1>3, <1>8, <1>9, <1>10, AdvanceTwice
  <1>12. (k1 + k2) + (k3 + k4) \in 0 .. 4 /\ (1 + 1) + (1 + 1) = 4
    OBVIOUS
  <1>13. Advance(s, s4, (k1 + k2) + (k3 + k4), 4)
    BY <1>11, <1>12
  <1> QED BY <1>2, <1>3, <1>12, <1>13

\* What TextBeforeCursorStays allows a byte to do to the screen s, in the
\* colours a.
KeepsText(s, t, a) ==
    \/ Pos(t) = 0 /\ \A q \in Cells : t.cells[q] = <<NUL, a>>
    \/ \E k \in 0 .. 4 :
         /\ k > 0 => /\ t.y = VGA_ROW
                     /\ \/ Pos(t) + k * VGA_COLUMN <= Pos(s) + VGA_COLUMN
                        \/ Pos(t) + k * VGA_COLUMN <= Pos(s) + 4
         /\ Shifted(s, t, k)

\* What CursorFollowsText asks of it.
Follows(s, t) == (s.x = t.x /\ s.y = t.y) \/ t.hw = Pos(t)

\* An advance of up to four characters keeps the text.
LEMMA AdvanceKeeps ==
  ASSUME NEW s, NEW t, NEW a, OnScr(s), OnScr(t), NEW n \in {1, 4},
         \E k \in 0 .. n : Advance(s, t, k, n)
  PROVE  KeepsText(s, t, a)
  <1>1. PICK k \in 0 .. n : Advance(s, t, k, n)
    OBVIOUS
  <1>2. k \in 0 .. 4 /\ k * VGA_COLUMN \in Nat
    BY TtyAssumption
  <1>3. Pos(s) \in Nat /\ Pos(t) \in Nat
    BY OnScrPosition
  <1>4. Pos(t) + k * VGA_COLUMN <= Pos(s) + 4
    BY <1>1, <1>3 DEF Advance
  <1> QED BY <1>1, <1>2, <1>4 DEF KeepsText, Advance

\* A step that leaves the cells keeps the text.
LEMMA CellsKeep ==
  ASSUME NEW s, NEW t, NEW a, t.cells = s.cells
  PROVE  KeepsText(s, t, a)
  <1>1. 0 * VGA_COLUMN = 0 /\ \A q \in Cells : q - 0 = q
    BY TtyAssumption DEF Cells
  <1>2. Shifted(s, t, 0)
    BY <1>1 DEF Shifted
  <1> QED BY <1>2 DEF KeepsText

\* Scrolling in the last row, the cursor not moved to the right, keeps it.
LEMMA ScrollKeeps ==
  ASSUME NEW s, NEW t, NEW a, OnScr(s), OnScr(t), s.y = VGA_ROW, t.y = VGA_ROW, t.x <= s.x,
         \A q \in Cells : q >= VGA_COLUMN => t.cells[q - VGA_COLUMN] = s.cells[q]
  PROVE  KeepsText(s, t, a)
  <1>1. 1 * VGA_COLUMN = VGA_COLUMN /\ VGA_COLUMN \in Nat
    BY TtyAssumption
  <1>2. Shifted(s, t, 1)
    BY <1>1 DEF Shifted
  <1>3. s.x \in Nat /\ t.x \in Nat /\ VGA_ROW * VGA_COLUMN \in Nat
    BY TtyAssumption DEF OnScr
  <1>4. Pos(t) + 1 * VGA_COLUMN <= Pos(s) + VGA_COLUMN
    BY <1>1, <1>3 DEF Pos
  <1> QED BY <1>2, <1>4 DEF KeepsText

\* A byte outside an escape sequence stays on the screen, keeps the text
\* before the cursor and takes the cursor of the VGA along.
Writes(s, t, a) == OnScr(t) /\ KeepsText(s, t, a) /\ Follows(s, t)

\* Clearing the screen goes to its beginning.
LEMMA ClsWrites ==
  ASSUME NEW s, OnScr(s), NEW a \in Attributes
  PROVE  Writes(s, cls(s, a), a)
  <1> DEFINE r == Scr(Cleared(a), 0, 0, s.hw)
             t == move_cursor(r)
  <1>1. 0 \in 0 .. VGA_COLUMN - 1 /\ 0 \in 0 .. VGA_ROW
    BY TtyAssumption
  <1>2. cls(s, a) = t /\ IsScr(r)
    BY ClsIs DEF OnScr
  <1>3. r.cells = Cleared(a) /\ r.x = 0 /\ r.y = 0
    BY ScrParts
  <1> HIDE DEF r
  <1>4. OnScr(t) /\ t.cells = Cleared(a) /\ t.hw = Pos(r) /\ Pos(t) = Pos(r)
    BY <1>1, <1>2, <1>3, MoveOnScreen
  <1>5. Pos(r) = 0
    BY <1>3, TtyAssumption DEF Pos
  <1> HIDE DEF t
  <1>6. KeepsText(s, t, a)
    BY <1>4, <1>5 DEF KeepsText, Cleared
  <1> QED BY <1>2, <1>4, <1>6 DEF Writes, Follows

LEMMA PutcharWrites ==
  ASSUME NEW s, OnScr(s), NEW a \in Attributes, NEW c
  PROVE  Writes(s, putchar(s, c, a), a)
  <1>1. /\ IsScr(s) /\ s.x \in 0 .. VGA_COLUMN - 1 /\ s.y \in 0 .. VGA_ROW
        /\ VGA_ROW \in Nat /\ VGA_COLUMN \in Nat \ {0}
    BY TtyAssumption DEF OnScr
  <1>2. 0 \in 0 .. VGA_COLUMN - 1 /\ 0 \in 0 .. VGA_ROW /\ VGA_COLUMN - 1 \in 0 .. VGA_COLUMN - 1
    BY <1>1
  <1>3. ASSUME NEW w \in 0 .. VGA_COLUMN - 1, NEW v \in 0 .. VGA_ROW
        PROVE  Writes(s, move_cursor(At(s, w, v)), a)
    <2> DEFINE t == move_cursor(At(s, w, v))
    <2>1. OnScr(t) /\ t.cells = s.cells /\ t.hw = Pos(t)
      BY <1>1, AtOnScreen
    <2> HIDE DEF t
    <2>2. Writes(s, t, a)
      BY <2>1, CellsKeep DEF Writes, Follows
    <2> QED BY <2>2 DEF t
  <1>4. Writes(s, s, a)
    BY CellsKeep DEF Writes, Follows
  <1>5. Writes(s, backspace(s), a)
    <2>1. CASE s.x # 0
      <3>1. s.x - 1 \in 0 .. VGA_COLUMN - 1
        BY <1>1, <2>1
      <3>2. Writes(s, move_cursor(At(s, s.x - 1, s.y)), a)
        BY <1>1, <1>3, <3>1
      <3>3. backspace(s) = move_cursor(At(s, s.x - 1, s.y))
        BY <1>1, <2>1, MovesAre
      <3> QED BY <3>2, <3>3
    <2>2. CASE s.x = 0 /\ s.y # 0
      <3>1. s.y - 1 \in 0 .. VGA_ROW
        BY <1>1, <2>2
      <3>2. Writes(s, move_cursor(At(s, VGA_COLUMN - 1, s.y - 1)), a)
        BY <1>2, <1>3, <3>1
      <3>3. backspace(s) = move_cursor(At(s, VGA_COLUMN - 1, s.y - 1))
        BY <1>1, <2>2, MovesAre
      <3> QED BY <3>2, <3>3
    <2>3. CASE s.x = 0 /\ s.y = 0
      <3>1. backspace(s) = s
        BY <1>1, <2>3, MovesAre
      <3> QED BY <1>4, <3>1
    <2> QED BY <2>1, <2>2, <2>3
  <1>6. Writes(s, cls(s, a), a)
    BY ClsWrites
  <1>7. Writes(s, linebreak(s, a), a)
    <2>1. CASE s.y = VGA_ROW
      <3> DEFINE r == At(s, 0, s.y)
                 t == move_cursor(scrup(r, a))
      <3>1. linebreak(s, a) = t
        BY <1>1, <2>1, MovesAre
      <3>2. IsScr(r) /\ r.cells = s.cells /\ r.x = 0 /\ r.y = VGA_ROW
        BY <1>1, <2>1, AtIs
      <3> HIDE DEF r
      <3>3. /\ OnScr(t) /\ t.x = 0 /\ t.y = VGA_ROW /\ t.hw = Pos(t)
            /\ \A q \in Cells : q >= VGA_COLUMN => t.cells[q - VGA_COLUMN] = s.cells[q]
        BY <1>2, <3>2, ScrollOnScreen
      <3> HIDE DEF t
      <3>4. t.x <= s.x
        BY <1>1, <3>3
      <3>5. KeepsText(s, t, a)
        BY <2>1, <3>3, <3>4, ScrollKeeps
      <3> QED BY <3>1, <3>3, <3>5 DEF Writes, Follows
    <2>2. CASE s.y # VGA_ROW
      <3>1. s.y + 1 \in 0 .. VGA_ROW
        BY <1>1, <2>2
      <3>2. Writes(s, move_cursor(At(s, 0, s.y + 1)), a)
        BY <1>2, <1>3, <3>1
      <3>3. linebreak(s, a) = move_cursor(At(s, 0, s.y + 1))
        BY <1>1, <2>2, MovesAre
      <3> QED BY <3>2, <3>3
    <2> QED BY <2>1, <2>2
  <1>8. Writes(s, move_cursor([s EXCEPT !.x = 0]), a)
    <2>1. Writes(s, move_cursor(At(s, 0, s.y)), a)
      BY <1>1, <1>2, <1>3
    <2>2. move_cursor([s EXCEPT !.x = 0]) = move_cursor(At(s, 0, s.y))
      BY <1>1, MovesAre
    <2> QED BY <2>1, <2>2
  <1>9. Writes(s, tab(s, a), a)
    <2> DEFINE t == tab(s, a)
    <2>1. OnScr(t) /\ t.hw = Pos(t) /\ \E k \in 0 .. 4 : Advance(s, t, k, 4)
      BY TabAdvances
    <2> HIDE DEF t
    <2>2. KeepsText(s, t, a)
      BY <2>1, AdvanceKeeps
    <2> QED BY <2>1, <2>2 DEF Writes, Follows, t
  <1>10. Writes(s, vertical_tab(s, a), a)
    <2>1. CASE s.y = VGA_ROW
      <3> DEFINE t == scrup(s, a)
      <3>1. vertical_tab(s, a) = t
        BY <1>1, <2>1, MovesAre
      <3>2. IsScr(t) /\ t.x = s.x /\ t.y = s.y /\ t.hw = s.hw
        BY <1>1, ScrupIs
      <3>3. \A q \in Cells : q >= VGA_COLUMN => t.cells[q - VGA_COLUMN] = s.cells[q]
        BY <1>1, ScrupShifts
      <3> HIDE DEF t
      <3>4. OnScr(t)
        BY <3>2 DEF OnScr
      <3>5. t.x <= s.x
        BY <1>1, <3>2
      <3>6. KeepsText(s, t, a)
        BY <2>1, <3>2, <3>3, <3>4, <3>5, ScrollKeeps
      <3> QED BY <3>1, <3>2, <3>4, <3>6 DEF Writes, Follows
    <2>2. CASE s.y # VGA_ROW
      <3>1. s.y + 1 \in 0 .. VGA_ROW
        BY <1>1, <2>2
      <3>2. Writes(s, move_cursor(At(s, s.x, s.y + 1)), a)
        BY <1>1, <1>3, <3>1
      <3>3. vertical_tab(s, a) = move_cursor(At(s, s.x, s.y + 1))
        BY <1>1, <2>2, MovesAre
      <3> QED BY <3>2, <3>3
    <2> QED BY <2>1, <2>2
  <1>11. ASSUME NEW g \in {NUL, GLYPH}
         PROVE  Writes(s, putglyph(s, g, a), a)
    <2> DEFINE t == putglyph(s, g, a)
    <2>1. OnScr(t) /\ t.hw = Pos(t) /\ \E k \in 0 .. 1 : Advance(s, t, k, 1)
      BY PutglyphAdvances
    <2> HIDE DEF t
    <2>2. KeepsText(s, t, a)
      BY <2>1, AdvanceKeeps
    <2> QED BY <2>1, <2>2 DEF Writes, Follows, t
  <1> QED BY <1>4, <1>5, <1>6, <1>7, <1>8, <1>9, <1>10, <1>11, PutcharIs

\* The commands but 'C' and 'G', and 'H' and 'f' with two parameters, leave
\* the cursor on the screen.
LEMMA CommandOnScreen ==
  ASSUME NEW s, OnScr(s), NEW c, c \notin {"C", "G"}, NEW n \in Nat, NEW a \in Attributes
  PROVE  OnScr(EraseCommand(CursorCommand(s, c, n, -1), c, n, a))
  <1> DEFINE t == CursorCommand(s, c, n, -1)
  <1>1. /\ IsScr(s) /\ s.x \in 0 .. VGA_COLUMN - 1 /\ s.y \in 0 .. VGA_ROW
        /\ s.hw \in 0 .. VGA_COLUMN * (VGA_ROW + 1)
        /\ VGA_ROW \in Nat /\ VGA_COLUMN \in Nat \ {0}
    BY TtyAssumption DEF OnScr
  <1>2. ASSUME NEW w \in 0 .. VGA_COLUMN - 1, NEW v \in 0 .. VGA_ROW
        PROVE  OnScr(At(s, w, v))
    BY <1>1, AtIs DEF OnScr
  <1>3. /\ Minus(s.y, n) \in 0 .. VGA_ROW /\ AtMost(s.y + n, VGA_ROW) \in 0 .. VGA_ROW
        /\ Minus(s.x, n) \in 0 .. VGA_COLUMN - 1
        /\ 0 \in 0 .. VGA_COLUMN - 1 /\ 0 \in 0 .. VGA_ROW
    BY <1>1 DEF Minus, AtMost
  <1>4. \/ t = s
        \/ t = At(s, s.x, Minus(s.y, n)) \/ t = At(s, s.x, AtMost(s.y + n, VGA_ROW))
        \/ t = At(s, Minus(s.x, n), s.y) \/ t = At(s, 0, AtMost(s.y + n, VGA_ROW))
        \/ t = At(s, 0, Minus(s.y, n)) \/ t = At(s, 0, 0)
    BY <1>1, CursorCommandIs
  <1> HIDE DEF t
  <1>5. OnScr(t)
    BY <1>1, <1>2, <1>3, <1>4
  <1>6. OnScr(cls(t, a))
    BY <1>5, ClsWrites DEF Writes
  <1>7. \A from, to : OnScr(Erase(t, from, to))
    BY <1>5, EraseIs DEF OnScr
  <1>8. OnScr(EraseCommand(t, c, n, a))
    BY <1>5, <1>6, <1>7, EraseCommandIs
  <1> QED BY <1>8 DEF t

\* The bytes of a parameter.
Digits == DOMAIN ByteValue \ {";"}

\* What is asked of the writers: not 'C' and 'G', no ';', which makes 'H' and
\* 'f' set the column, and parameters of at most nine digits, which an int
\* holds.
TextOnly ==
    /\ Bytes \cap {"C", "G", ";"} = {}
    /\ MaxParam <= 9

\* Every terminal has its cursor on the screen, also those that are not shown.
\* The digits of an unfinished escape sequence are numbers without a ';'.
TextInv ==
    /\ ShapeInv
    /\ OnScr(scr)
    /\ \A t \in Ttys : ttys[t].x \in 0 .. VGA_COLUMN - 1 /\ ttys[t].y \in 0 .. VGA_ROW
    /\ command_sequence_status \in 0 .. 2
    /\ command_buf \in Seq(Digits)
    /\ Len(command_buf) <= MaxParam

LEMMA TextInit == Init => TextInv
  <1> SUFFICES ASSUME Init PROVE TextInv
    OBVIOUS
  <1>1. ShapeInv
    BY ShapeInit
  <1>2. scr.x = 0 /\ scr.y = 0 /\ scr.hw = 0 /\ IsScr(scr)
    BY <1>1 DEF Init, ShapeInv
  <1>3. OnScr(scr)
    <2>1. 0 \in 0 .. VGA_COLUMN - 1 /\ 0 \in 0 .. VGA_ROW
      BY TtyAssumption
    <2>2. 0 * VGA_COLUMN + 0 = 0
      BY TtyAssumption
    <2>3. 0 \in 0 .. VGA_COLUMN * (VGA_ROW + 1)
      BY <2>1, <2>2, PositionIsCell
    <2> QED BY <1>2, <2>1, <2>3 DEF OnScr
  <1>4. \A t \in Ttys : ttys[t].x \in 0 .. VGA_COLUMN - 1 /\ ttys[t].y \in 0 .. VGA_ROW
    BY TtyAssumption DEF Init
  <1>5. /\ command_sequence_status \in 0 .. 2
        /\ command_buf \in Seq(Digits) /\ Len(command_buf) <= MaxParam
    BY TtyAssumption DEF Init
  <1> QED BY <1>1, <1>3, <1>4, <1>5 DEF TextInv

LEMMA DigitsAre == \A c \in Digits : ByteValue[c] \in Nat
  BY DEF Digits, ByteValue

\* atoi makes a number of up to ten digits.
LEMMA AtoiIsNat ==
  ASSUME NEW dec \in Seq(Digits), Len(dec) <= 10
  PROVE  atoi(dec) \in Nat
  <1> DEFINE S == 0 .. Len(dec)
             body(f, i) == IF i = 0 THEN 0 ELSE 10 * f[i - 1] + ByteValue[dec[i]]
             value == CHOOSE f : f = [i \in S |-> body(f, i)]
  <1>1. Len(dec) \in Nat /\ Len(dec) \in S
    OBVIOUS
  <1>2. atoi(dec) = value[Len(dec)]
    <2>1. ~ (Len(dec) > 10)
      BY <1>1
    <2> QED BY <2>1 DEF atoi
  <1> DEFINE digit == [i \in Nat |-> IF i \in 1 .. Len(dec) THEN ByteValue[dec[i]] ELSE 0]
             round == [r \in Nat \X Nat |-> 10 * r[2] + digit[r[1]]]
  <1>3. PICK g \in [S -> Nat] : Iterates(g, 0, round, Len(dec))
    <2>1. \A i \in 1 .. Len(dec) : ByteValue[dec[i]] \in Nat
      BY DigitsAre
    <2>2. digit \in [Nat -> Nat]
      BY <2>1
    <2> HIDE DEF digit
    <2>3. round \in [Nat \X Nat -> Nat]
      <3>1. ASSUME NEW r \in Nat \X Nat
            PROVE  10 * r[2] + digit[r[1]] \in Nat
        <4>1. r[1] \in Nat /\ r[2] \in Nat
          OBVIOUS
        <4>2. digit[r[1]] \in Nat
          BY <2>2, <4>1
        <4> QED BY <4>1, <4>2
      <3> QED BY <3>1
    <2> HIDE DEF round
    <2> QED BY <1>1, <2>3, LoopRuns
  <1>4. g = [i \in S |-> body(g, i)]
    <2>1. ASSUME NEW i \in S
          PROVE  g[i] = body(g, i)
      <3>1. CASE i = 0
        BY <1>3, <3>1 DEF Iterates
      <3>2. CASE i # 0
        <4>1. i \in 1 .. Len(dec) /\ i \in Nat /\ i - 1 \in S
          BY <3>2
        <4>2. g[i] = round[<<i, g[i - 1]>>] /\ g[i - 1] \in Nat
          BY <1>3, <4>1 DEF Iterates
        <4>3. round[<<i, g[i - 1]>>] = 10 * g[i - 1] + digit[i]
          BY <4>1, <4>2
        <4>4. digit[i] = ByteValue[dec[i]]
          BY <4>1
        <4> QED BY <3>2, <4>2, <4>3, <4>4
      <3> QED BY <3>1, <3>2
    <2> HIDE DEF body, S
    <2> QED BY <1>3, <2>1
  <1>5. value = [i \in S |-> body(value, i)]
    <2> HIDE DEF body
    <2>1. \E f : f = [i \in S |-> body(f, i)]
      BY <1>4
    <2> QED BY <2>1
  <1> HIDE DEF value
  <1>6. \A i \in S : value[i] = body(value, i)
    <2> HIDE DEF body
    <2> QED BY <1>5
  <1> DEFINE T == {i \in S : value[i] \notin Nat}
  <1>7. T = {}
    <2> SUFFICES ASSUME T # {} PROVE FALSE
      OBVIOUS
    <2>1. PICK i \in T : \A y \in T : i <= y
      <3>1. T \in SUBSET Nat
        OBVIOUS
      <3> HIDE DEF T
      <3> QED BY <3>1, LeastNat
    <2>2. i \in 0 .. Len(dec) /\ value[i] \notin Nat
      BY <2>1
    <2>3. i # 0
      BY <1>6, <2>2
    <2>4. i - 1 \in S /\ ~ (i <= i - 1) /\ i \in 1 .. Len(dec)
      BY <2>2, <2>3
    <2>5. value[i - 1] \in Nat
      BY <2>1, <2>4
    <2>6. ByteValue[dec[i]] \in Nat
      BY <2>4, DigitsAre
    <2>7. value[i] = 10 * value[i - 1] + ByteValue[dec[i]]
      BY <1>6, <2>2, <2>3
    <2> QED BY <2>2, <2>5, <2>6, <2>7
  <1> QED BY <1>1, <1>2, <1>7

\* The parameters of a sequence without ';'.
LEMMA ParametersAre ==
  ASSUME TextOnly, NEW dec \in Seq(Digits), Len(dec) <= MaxParam
  PROVE  atoi_comma(dec) = <<atoi(dec), -1>> /\ atoi(dec) \in Nat
  <1>1. ";" \notin Digits
    BY DEF Digits
  <1>2. \A i \in 1 .. Len(dec) : dec[i] \in Digits
    OBVIOUS
  <1>3. ~ Contains(dec, ";")
    BY <1>1, <1>2 DEF Contains
  <1>4. atoi_comma(dec) = <<atoi(dec), -1>>
    BY <1>3 DEF atoi_comma
  <1>5. MaxParam <= 9
    BY DEF TextOnly
  <1>6. Len(dec) \in Nat /\ MaxParam \in Nat
    BY TtyAssumption
  <1>7. Len(dec) <= 10
    BY <1>5, <1>6
  <1> QED BY <1>4, <1>7, AtoiIsNat

LEMMA TextStep ==
  ASSUME TextOnly
  PROVE  TextInv /\ [Next]_vars => TextInv'
  <1> SUFFICES ASSUME TextInv, [Next]_vars PROVE TextInv'
    OBVIOUS
  <1>1. /\ ShapeInv /\ OnScr(scr) /\ command_sequence_status \in 0 .. 2
        /\ \A t \in Ttys : ttys[t].x \in 0 .. VGA_COLUMN - 1 /\ ttys[t].y \in 0 .. VGA_ROW
        /\ command_buf \in Seq(Digits) /\ Len(command_buf) <= MaxParam
    BY DEF TextInv
  <1>2. ShapeInv'
    BY <1>1, ShapeStep
  <1>3. /\ fore \in 0 .. 15 /\ back \in 0 .. 15 /\ curr_tty \in Ttys
        /\ ttys = [t \in Ttys |-> ttys[t]] /\ \A t \in Ttys : IsSaved(ttys[t])
    BY <1>1 DEF ShapeInv
  <1>4. ASSEMB_COLOUR \in Attributes
    BY <1>3, ColourIsByte DEF ASSEMB_COLOUR
  <1>5. /\ <<>> \in Seq(Digits) /\ Len(<<>>) <= MaxParam
        /\ scr.x \in 0 .. VGA_COLUMN - 1 /\ scr.y \in 0 .. VGA_ROW
    BY <1>1, TtyAssumption DEF OnScr
  <1>6. CASE tty_init
    <2>1. UNCHANGED <<scr, command_sequence_status, command_buf>>
      BY <1>6 DEF tty_init, sequence
    <2>2. ASSUME NEW t \in Ttys
          PROVE  ttys'[t].x = ttys[t].x /\ ttys'[t].y = ttys[t].y
      <3> DEFINE q == IF t = 1 THEN Zeroed ELSE ttys[t].page
                 r == ttys[t]
      <3>1. r = Term(r.page, r.x, r.y, r.fore, r.back)
        BY <1>3 DEF IsSaved
      <3>2. ttys'[t] = [[[r EXCEPT !.page = q] EXCEPT !.fore = DEFAULT_FORE]
                          EXCEPT !.back = DEFAULT_BACK]
        BY <1>6 DEF tty_init
      <3> HIDE DEF q, r
      <3>3. [r EXCEPT !.page = q] = Term(q, r.x, r.y, r.fore, r.back)
        BY <3>1 DEF Term
      <3>4. [Term(q, r.x, r.y, r.fore, r.back) EXCEPT !.fore = DEFAULT_FORE]
               = Term(q, r.x, r.y, DEFAULT_FORE, r.back)
        BY DEF Term
      <3>5. [Term(q, r.x, r.y, DEFAULT_FORE, r.back) EXCEPT !.back = DEFAULT_BACK]
               = Term(q, r.x, r.y, DEFAULT_FORE, DEFAULT_BACK)
        BY DEF Term
      <3>6. ttys'[t].x = r.x /\ ttys'[t].y = r.y
        BY <3>2, <3>3, <3>4, <3>5, TermParts
      <3> QED BY <3>6 DEF r
    <2> QED BY <1>1, <1>2, <2>1, <2>2 DEF TextInv
  <1>7. ASSUME NEW data \in Ttys, tty_switch(data)
        PROVE  TextInv'
    <2>1. /\ data # curr_tty /\ ttys' = Saved(data)
          /\ UNCHANGED <<command_sequence_status, command_buf>>
      BY <1>7 DEF tty_switch, sequence
    <2>2. ASSUME NEW t \in Ttys
          PROVE  ttys'[t].x \in 0 .. VGA_COLUMN - 1 /\ ttys'[t].y \in 0 .. VGA_ROW
      <3>1. CASE t = curr_tty
        BY <1>1, <1>5, <2>1, <3>1, SavedIs, TermParts
      <3>2. CASE t = data
        BY <1>1, <2>1, <3>2, SavedIs, TermParts
      <3>3. CASE t # data /\ t # curr_tty
        BY <1>1, <2>1, <3>3, SavedIs
      <3> QED BY <3>1, <3>2, <3>3
    <2>3. scr'.x = ttys'[data].x /\ scr'.y = ttys'[data].y /\ scr'.hw = scr.hw
      BY <1>1, <1>7 DEF tty_switch, ShapeInv, IsScr, Scr
    <2>4. OnScr(scr')
      BY <1>1, <1>2, <2>2, <2>3 DEF OnScr, ShapeInv
    <2> QED BY <1>1, <1>2, <2>1, <2>2, <2>4 DEF TextInv
  <1>8. ASSUME NEW c \in Bytes, tty_write(c)
        PROVE  TextInv'
    <2>1. ttys' = ttys
      BY <1>8 DEF tty_write, sequence_start, sequence_parameter, sequence_command, print
    <2>2. CASE sequence_start(c)
      <3>1. scr' = scr /\ command_buf' = command_buf /\ command_sequence_status' \in 0 .. 2
        BY <2>2 DEF sequence_start
      <3> QED BY <1>1, <1>2, <2>1, <3>1 DEF TextInv
    <2>3. CASE sequence_parameter(c)
      <3>1. /\ scr' = scr /\ command_sequence_status' = command_sequence_status
            /\ command_buf' = Append(command_buf, c) /\ Len(command_buf) < MaxParam
            /\ c \in DOMAIN ByteValue
        BY <2>3 DEF sequence_parameter, is_number_or_comma
      <3>2. c \in Digits
        BY <3>1 DEF Digits, TextOnly
      <3>3. command_buf' \in Seq(Digits) /\ Len(command_buf') <= MaxParam
        BY <1>1, <3>1, <3>2, TtyAssumption
      <3> QED BY <1>1, <1>2, <2>1, <3>1, <3>3 DEF TextInv
    <2>4. CASE sequence_command(c)
      <3> DEFINE q == atoi_comma(command_buf)
      <3>1. /\ scr' = EraseCommand(CursorCommand(scr, c, q[1], q[2]), c, q[1], ASSEMB_COLOUR)
            /\ command_sequence_status' = 0 /\ command_buf' = <<>>
        BY <2>4 DEF sequence_command, terminate_sequence
      <3>2. q = <<atoi(command_buf), -1>> /\ atoi(command_buf) \in Nat
        BY <1>1, ParametersAre
      <3> HIDE DEF q
      <3>3. q[1] \in Nat /\ q[2] = -1
        BY <3>2
      <3>4. c \notin {"C", "G"}
        BY DEF TextOnly
      <3>5. OnScr(scr')
        BY <1>1, <1>4, <3>1, <3>3, <3>4, CommandOnScreen
      <3> QED BY <1>1, <1>2, <1>5, <2>1, <3>1, <3>5 DEF TextInv
    <2>5. CASE print(c)
      <3>1. /\ scr' = putchar(scr, c, ASSEMB_COLOUR)
            /\ command_sequence_status' = 0 /\ command_buf' = <<>>
        BY <2>5 DEF print, terminate_sequence
      <3>2. OnScr(scr')
        BY <1>1, <1>4, <3>1, PutcharWrites DEF Writes
      <3> QED BY <1>1, <1>2, <1>5, <2>1, <3>1, <3>2 DEF TextInv
    <2> QED BY <1>8, <2>2, <2>3, <2>4, <2>5 DEF tty_write
  <1>9. CASE UNCHANGED vars
    BY <1>1, <1>2, <1>9 DEF vars, sequence, TextInv
  <1> QED BY <1>6, <1>7, <1>8, <1>9 DEF Next

LEMMA TextAlways ==
  ASSUME TextOnly
  PROVE  Spec => []TextInv
  BY TextInit, TextStep, PTL DEF Spec

(* The write position is a cell of the frame buffer, so every store of     *)
(* putchar and every range the erase commands clear lies inside it, and    *)
(* the cells and colours keep their types: ScreenSound of the run, for     *)
(* every size of the screen.                                               *)
THEOREM TtyScreenSound ==
  ASSUME TextOnly
  PROVE  Spec => []ScreenSound
  <1>1. TextInv => ScreenSound
    <2> SUFFICES ASSUME TextInv PROVE ScreenSound
      OBVIOUS
    <2>1. /\ ShapeInv /\ OnScr(scr) /\ command_sequence_status \in 0 .. 2
          /\ Len(command_buf) <= MaxParam
      BY DEF TextInv
    <2>2. /\ IsScr(scr) /\ scr.x \in 0 .. VGA_COLUMN - 1 /\ scr.y \in 0 .. VGA_ROW
          /\ scr.hw \in 0 .. VGA_COLUMN * (VGA_ROW + 1)
      BY <2>1 DEF OnScr
    <2>3. /\ DOMAIN scr.cells = Cells
          /\ \A q \in Cells : scr.cells[q] \in {NUL, GLYPH} \X Attributes
      BY <2>2 DEF IsScr, Pages, CellValues
    <2>4. scr.x \in Int /\ scr.y \in Int
      BY <2>2
    <2>5. /\ fore \in 0 .. 15 /\ back \in 0 .. 15 /\ curr_tty \in Ttys
          /\ \A t \in Ttys : ttys[t].page = NoPage \/ DOMAIN ttys[t].page = Cells
      BY <2>1 DEF ShapeInv, IsSaved, Pages
    <2> QED BY <2>1, <2>2, <2>3, <2>4, <2>5 DEF ScreenSound, TypeOK, CursorOnScreen
  <1> QED BY <1>1, TextAlways, PTL

\* What a byte outside an escape sequence does to the screen.
LEMMA StepWrites ==
  ASSUME TextInv, Next, command_sequence_status # 2, curr_tty' = curr_tty
  PROVE  KeepsText(scr, scr', ASSEMB_COLOUR) /\ Follows(scr, scr')
  <1>1. OnScr(scr) /\ fore \in 0 .. 15 /\ back \in 0 .. 15
    BY DEF TextInv, ShapeInv
  <1>2. ASSEMB_COLOUR \in Attributes
    BY <1>1, ColourIsByte DEF ASSEMB_COLOUR
  <1>3. scr' = scr => KeepsText(scr, scr', ASSEMB_COLOUR) /\ Follows(scr, scr')
    BY CellsKeep DEF Follows
  <1>4. CASE tty_init
    BY <1>3, <1>4 DEF tty_init
  <1>5. \A t \in Ttys : ~ tty_switch(t)
    BY DEF tty_switch
  <1>6. ASSUME NEW c \in Bytes, tty_write(c)
        PROVE  KeepsText(scr, scr', ASSEMB_COLOUR) /\ Follows(scr, scr')
    <2>1. ~ sequence_parameter(c) /\ ~ sequence_command(c)
      BY DEF sequence_parameter, sequence_command
    <2>2. CASE sequence_start(c)
      BY <1>3, <2>2 DEF sequence_start
    <2>3. CASE print(c)
      BY <1>1, <1>2, <2>3, PutcharWrites DEF print, Writes
    <2> QED BY <1>6, <2>1, <2>2, <2>3 DEF tty_write
  <1> QED BY <1>4, <1>5, <1>6 DEF Next

(* A byte outside an escape sequence changes nothing before the cursor but *)
(* by pushing rows off the top to make room, or clears the whole screen:   *)
(* TextBeforeCursorStays of the run, for every size of the screen, also    *)
(* those on which a tab scrolls more than once.                            *)
THEOREM TtyTextBeforeCursorStays ==
  ASSUME TextOnly
  PROVE  Spec => TextBeforeCursorStays
  <1>1. TextInv /\ [Next]_vars =>
          [command_sequence_status # 2 /\ curr_tty' = curr_tty =>
             \/ /\ Pos(scr') = 0
                /\ \A q \in Cells : scr'.cells[q] = <<NUL, ASSEMB_COLOUR>>
             \/ \E k \in 0..4 :
                  /\ k > 0 =>
                       /\ scr'.y = VGA_ROW
                       /\ \/ Pos(scr') + k * VGA_COLUMN <= Pos(scr) + VGA_COLUMN
                          \/ Pos(scr') + k * VGA_COLUMN <= Pos(scr) + 4
                  /\ \A q \in Cells :
                       q < Pos(scr) /\ q >= k * VGA_COLUMN =>
                          scr'.cells[q - k * VGA_COLUMN] = scr.cells[q]]_vars
    <2> SUFFICES ASSUME TextInv, Next, command_sequence_status # 2, curr_tty' = curr_tty
                 PROVE  KeepsText(scr, scr', ASSEMB_COLOUR)
      BY DEF KeepsText, Shifted
    <2> QED BY StepWrites
  <1> QED BY <1>1, TextAlways, PTL DEF Spec, TextBeforeCursorStays

(* Whenever such a byte moves the write position, the cursor of the VGA    *)
(* goes there too: CursorFollowsText of the run, for every screen.         *)
THEOREM TtyCursorFollowsText ==
  ASSUME TextOnly
  PROVE  Spec => CursorFollowsText
  <1>1. TextInv /\ [Next]_vars =>
          [command_sequence_status # 2 /\ curr_tty' = curr_tty
             /\ <<scr.x, scr.y>> # <<scr'.x, scr'.y>> => scr'.hw = Pos(scr')]_vars
    <2> SUFFICES ASSUME TextInv, Next, command_sequence_status # 2, curr_tty' = curr_tty,
                        <<scr.x, scr.y>> # <<scr'.x, scr'.y>>
                 PROVE  scr'.hw = Pos(scr')
      OBVIOUS
    <2> QED BY StepWrites DEF Follows
  <1> QED BY <1>1, TextAlways, PTL DEF Spec, CursorFollowsText

-----------------------------------------------------------------------------
(* printk: what is left of a format ends as the format does                *)

\* Two numbers are either equal or not.
LEMMA LessOrEqual ==
  ASSUME NEW m \in Nat, NEW n \in Nat, m <= n
  PROVE  (m < n \/ m = n) /\ ~ (m < n /\ m = n)
  OBVIOUS

\* f ends with m percent signs and not with one more.
EndsWith(f, m) ==
    /\ m \in 0 .. Len(f)
    /\ \A k \in Len(f) - m + 1 .. Len(f) : f[k] = "%"
    /\ m < Len(f) => f[Len(f) - m] # "%"

\* Every sequence ends with some number of percent signs.
LEMMA EndsSomehow ==
  ASSUME NEW f \in Seq(Character)
  PROVE  \E m \in Nat : EndsWith(f, m)
  <1> DEFINE T == {n \in 0 .. Len(f) : n < Len(f) => f[Len(f) - n] # "%"}
  <1>1. Len(f) \in Nat
    OBVIOUS
  <1>2. PICK m \in T : \A n \in T : m <= n
    <2>1. T \in SUBSET Nat /\ Len(f) \in T
      BY <1>1
    <2> HIDE DEF T
    <2> QED BY <2>1, LeastNat
  <1>3. ASSUME NEW k \in Len(f) - m + 1 .. Len(f)
        PROVE  f[k] = "%"
    <2>1. Len(f) - k \in 0 .. Len(f) /\ ~ (m <= Len(f) - k) /\ Len(f) - (Len(f) - k) = k
      BY <1>1, <1>2
    <2>2. Len(f) - k \notin T
      BY <1>2, <2>1
    <2> QED BY <2>1, <2>2
  <1> QED BY <1>1, <1>2, <1>3 DEF EndsWith

\* What Front makes of a sequence.
LEMMA FrontIs ==
  ASSUME NEW S, NEW s \in Seq(S), s # <<>>
  PROVE  /\ Len(s) \in Nat /\ Len(s) >= 1 /\ s[Len(s)] \in S
         /\ Front(s) \in Seq(S) /\ Len(Front(s)) = Len(s) - 1
         /\ \A k \in 1 .. Len(s) - 1 : Front(s)[k] = s[k]
  <1> DEFINE m == Len(s)
  <1>1. m \in Nat /\ m >= 1 /\ \A k \in 1 .. m : s[k] \in S
    OBVIOUS
  <1>2. Front(s) = SubSeq(s, 1, m - 1)
    BY DEF Front
  <1> HIDE DEF m
  <1>3. 1 \in Int /\ m - 1 \in Int /\ \A k \in 1 .. m - 1 : s[k] \in S
    BY <1>1
  <1>4. /\ SubSeq(s, 1, m - 1) \in Seq(S)
        /\ Len(SubSeq(s, 1, m - 1)) = IF 1 <= m - 1 THEN (m - 1) - 1 + 1 ELSE 0
        /\ \A k \in 1 .. (m - 1) - 1 + 1 : SubSeq(s, 1, m - 1)[k] = s[1 + k - 1]
    BY <1>3, SubSeqProperties
  <1>5. Len(Front(s)) = m - 1
    BY <1>1, <1>2, <1>4
  <1>6. \A k \in 1 .. m - 1 : Front(s)[k] = s[k]
    <2> SUFFICES ASSUME NEW k \in 1 .. m - 1 PROVE Front(s)[k] = s[k]
      OBVIOUS
    <2>1. k \in 1 .. (m - 1) - 1 + 1 /\ 1 + k - 1 = k
      BY <1>1
    <2>2. SubSeq(s, 1, m - 1)[k] = s[1 + k - 1]
      BY <1>4, <2>1
    <2> QED BY <1>2, <2>1, <2>2
  <1>7. m \in Nat /\ m >= 1 /\ s[m] \in S /\ Front(s) \in Seq(S)
    BY <1>1, <1>2, <1>4
  <1> QED BY <1>5, <1>6, <1>7 DEF m

\* Whether a conversion is begun at the end is a matter of their number.
LEMMA UnfinishedIsOdd ==
  ASSUME NEW f \in Seq(Character), NEW m, EndsWith(f, m)
  PROVE  Unfinished(f) <=> m % 2 = 1
  <1> DEFINE percents == {j \in DOMAIN f : \A k \in j .. Len(f) : f[k] = "%"}
             a == Len(f) - m + 1
  <1>1. Len(f) \in Nat /\ DOMAIN f = 1 .. Len(f) /\ m \in 0 .. Len(f)
    BY DEF EndsWith
  <1>2. percents = a .. a + m - 1
    <2>1. ASSUME NEW j \in a .. a + m - 1
          PROVE  j \in percents
      BY <1>1 DEF EndsWith
    <2>2. ASSUME NEW j \in percents
          PROVE  j \in a .. a + m - 1
      <3>1. j \in 1 .. Len(f) /\ \A k \in j .. Len(f) : f[k] = "%"
        BY <1>1
      <3>2. ~ (j < a)
        <4> SUFFICES ASSUME j < a PROVE FALSE
          OBVIOUS
        <4>1. Len(f) - m \in j .. Len(f) /\ m < Len(f)
          BY <1>1, <3>1
        <4> QED BY <3>1, <4>1 DEF EndsWith
      <3> QED BY <1>1, <3>1, <3>2
    <2> QED BY <2>1, <2>2
  <1>3. Cardinality(a .. a + m - 1) = m
    <2>1. a \in Int /\ m \in Nat
      BY <1>1
    <2> HIDE DEF a
    <2> QED BY <2>1, IntervalSize
  <1> QED BY <1>2, <1>3 DEF Unfinished

\* What is left of f behind its first n characters.
Left(f, n) == SubSeq(f, n + 1, Len(f))

LEMMA LeftIs ==
  ASSUME NEW f \in Seq(Character), NEW n \in 0 .. Len(f)
  PROVE  /\ Left(f, n) \in Seq(Character)
         /\ Len(Left(f, n)) = Len(f) - n
         /\ \A k \in 1 .. Len(f) - n : Left(f, n)[k] = f[n + k]
  <1>1. Len(f) \in Nat /\ n + 1 \in Int /\ Len(f) \in Int
    OBVIOUS
  <1>2. \A k \in n + 1 .. Len(f) : f[k] \in Character
    BY <1>1
  <1>3. /\ SubSeq(f, n + 1, Len(f)) \in Seq(Character)
        /\ Len(SubSeq(f, n + 1, Len(f))) = IF n + 1 <= Len(f) THEN Len(f) - (n + 1) + 1 ELSE 0
        /\ \A k \in 1 .. Len(f) - (n + 1) + 1 :
              SubSeq(f, n + 1, Len(f))[k] = f[(n + 1) + k - 1]
    BY <1>1, <1>2, SubSeqProperties
  <1> QED BY <1>1, <1>3 DEF Left

\* Behind what is no percent sign, or behind two of them, a format ends as it
\* did before.
LEMMA LeftEndsTheSame ==
  ASSUME NEW f \in Seq(Character), NEW n \in 1 .. Len(f),
         f[n] # "%" \/ (n = 2 /\ f[1] = "%" /\ f[2] = "%")
  PROVE  Unfinished(Left(f, n)) <=> Unfinished(f)
  <1> DEFINE g == Left(f, n)
  <1>1. /\ g \in Seq(Character) /\ Len(g) = Len(f) - n /\ Len(f) \in Nat
        /\ \A k \in 1 .. Len(f) - n : g[k] = f[n + k]
    BY LeftIs
  <1> HIDE DEF g
  <1>2. PICK m \in Nat : EndsWith(g, m)
    BY <1>1, EndsSomehow
  <1>3. /\ m \in 0 .. Len(f) - n
        /\ \A k \in Len(g) - m + 1 .. Len(g) : g[k] = "%"
        /\ m < Len(g) => g[Len(g) - m] # "%"
    BY <1>1, <1>2 DEF EndsWith
  <1>4. ASSUME NEW k \in Len(f) - m + 1 .. Len(f)
        PROVE  f[k] = "%"
    <2>1. k - n \in Len(g) - m + 1 .. Len(g) /\ k - n \in 1 .. Len(f) - n /\ n + (k - n) = k
      BY <1>1, <1>3
    <2> QED BY <1>1, <1>3, <2>1
  <1>5. m < Len(g) => f[Len(f) - m] # "%"
    <2> SUFFICES ASSUME m < Len(g) PROVE f[Len(f) - m] # "%"
      OBVIOUS
    <2>1. Len(g) - m \in 1 .. Len(f) - n /\ n + (Len(g) - m) = Len(f) - m
      BY <1>1, <1>3
    <2> QED BY <1>1, <1>3, <2>1
  <1>6. CASE m < Len(g) \/ f[n] # "%"
    <2>1. EndsWith(f, m)
      <3>1. m < Len(f) => f[Len(f) - m] # "%"
        <4>1. m = Len(g) => Len(f) - m = n
          BY <1>1
        <4>2. m < Len(g) \/ m = Len(g)
          <5>1. m \in Nat /\ Len(g) \in Nat /\ m <= Len(g)
            BY <1>1, <1>3
          <5> QED BY <5>1, LessOrEqual
        <4> QED BY <1>5, <1>6, <4>1, <4>2
      <3> QED BY <1>1, <1>3, <1>4, <3>1 DEF EndsWith
    <2>2. Unfinished(f) <=> m % 2 = 1
      BY <2>1, UnfinishedIsOdd
    <2>3. Unfinished(g) <=> m % 2 = 1
      BY <1>1, <1>2, UnfinishedIsOdd
    <2> QED BY <2>2, <2>3 DEF g
  <1>7. CASE m = Len(g) /\ f[n] = "%"
    <2>1. n = 2 /\ f[1] = "%" /\ f[2] = "%" /\ Len(f) = m + 2
      BY <1>1, <1>7
    <2>2. EndsWith(f, m + 2)
      <3>1. ASSUME NEW k \in 1 .. Len(f)
            PROVE  f[k] = "%"
        <4>1. k = 1 \/ k = 2 \/ k \in Len(f) - m + 1 .. Len(f)
          BY <1>1, <2>1
        <4> QED BY <1>4, <2>1, <4>1
      <3> QED BY <1>1, <2>1, <3>1 DEF EndsWith
    <2>3. Unfinished(f) <=> (m + 2) % 2 = 1
      BY <2>2, UnfinishedIsOdd
    <2>4. Unfinished(g) <=> m % 2 = 1
      BY <1>1, <1>2, UnfinishedIsOdd
    <2> QED BY <2>3, <2>4 DEF g
  <1> QED BY <1>1, <1>3, <1>6, <1>7

\* A percent sign is left in f.
HasPercent(f) == \E j \in 1 .. Len(f) : f[j] = "%"

LEMMA LeftHasPercent ==
  ASSUME NEW f \in Seq(Character), NEW n \in 0 .. Len(f), HasPercent(Left(f, n))
  PROVE  HasPercent(f)
  <1>1. /\ Len(Left(f, n)) = Len(f) - n /\ Len(f) \in Nat
        /\ \A k \in 1 .. Len(f) - n : Left(f, n)[k] = f[n + k]
    BY LeftIs
  <1>2. PICK j \in 1 .. Len(f) - n : Left(f, n)[j] = "%"
    BY <1>1 DEF HasPercent
  <1>3. n + j \in 1 .. Len(f) /\ f[n + j] = "%"
    BY <1>1, <1>2
  <1> QED BY <1>3 DEF HasPercent

-----------------------------------------------------------------------------
(* The invariant of the walk                                               *)

\* A percent sign in a string that was passed.
Tainted == \E s \in passed : Contains(s, "%")

\* What the outermost call has left ends as its format does, and the percent
\* signs of an inner call are those of a string that was passed to %s.
WalkInv ==
    /\ format \in Seq(Character)
    /\ calls \in Seq(Seq(Character))
    /\ calls # <<>> /\ ~ wild => (Unfinished(calls[1]) => Unfinished(format))
    /\ \A k \in 2 .. Len(calls) : HasPercent(calls[k]) => Tainted
    /\ StaysInside

\* The innermost call has n characters less left, and there are no others than
\* those before.
LEMMA BehindIs ==
  ASSUME WalkInv, calls # <<>>, NEW n \in 0 .. Len(fmt)
  PROVE  /\ fmt \in Seq(Character) /\ fmt = calls[Len(calls)]
         /\ Behind(n) \in Seq(Seq(Character))
         /\ Len(Behind(n)) = Len(calls) /\ Len(calls) \in Nat /\ Len(calls) >= 1
         /\ Behind(n)[Len(calls)] = Left(fmt, n)
         /\ \A k \in 1 .. Len(calls) - 1 : Behind(n)[k] = calls[k]
  <1>1. calls \in Seq(Seq(Character)) /\ Len(calls) \in Nat /\ Len(calls) >= 1
    BY DEF WalkInv
  <1>2. fmt \in Seq(Character) /\ fmt = calls[Len(calls)]
    BY <1>1 DEF fmt, Last
  <1> DEFINE front == Front(calls)
             rest == Left(fmt, n)
  <1>3. rest \in Seq(Character)
    BY <1>2, LeftIs
  <1>4. /\ front \in Seq(Seq(Character)) /\ Len(front) = Len(calls) - 1
        /\ \A k \in 1 .. Len(calls) - 1 : front[k] = calls[k]
    BY <1>1, FrontIs
  <1>5. Behind(n) = Append(front, rest)
    BY DEF Behind, Left
  <1> HIDE DEF front, rest
  <1>6. /\ Append(front, rest) \in Seq(Seq(Character))
        /\ Len(Append(front, rest)) = Len(front) + 1
        /\ \A k \in 1 .. Len(front) : Append(front, rest)[k] = front[k]
        /\ Append(front, rest)[Len(front) + 1] = rest
    BY <1>3, <1>4, AppendProperties
  <1> QED BY <1>1, <1>2, <1>4, <1>5, <1>6 DEF rest

\* A step of the walk over n characters that ends no conversion keeps the
\* invariant of all calls.
LEMMA BehindKeeps ==
  ASSUME WalkInv, calls # <<>>, ~ wild, NEW n \in 1 .. Len(fmt),
         fmt[n] # "%" \/ (n = 2 /\ fmt[1] = "%" /\ fmt[2] = "%")
  PROVE  /\ Unfinished(Behind(n)[1]) => Unfinished(format)
         /\ \A k \in 2 .. Len(Behind(n)) : HasPercent(Behind(n)[k]) => Tainted
  <1>1. /\ fmt \in Seq(Character) /\ fmt = calls[Len(calls)] /\ n \in 0 .. Len(fmt)
        /\ Len(Behind(n)) = Len(calls) /\ Len(calls) \in Nat /\ Len(calls) >= 1
        /\ Behind(n)[Len(calls)] = Left(fmt, n)
        /\ \A k \in 1 .. Len(calls) - 1 : Behind(n)[k] = calls[k]
    <2>1. n \in 0 .. Len(fmt)
      OBVIOUS
    <2> QED BY <2>1, BehindIs
  <1>2. Unfinished(Left(fmt, n)) <=> Unfinished(fmt)
    BY <1>1, LeftEndsTheSame
  <1>3. Unfinished(Behind(n)[1]) => Unfinished(calls[1])
    <2>1. CASE Len(calls) = 1
      BY <1>1, <1>2, <2>1
    <2>2. CASE Len(calls) > 1
      <3>1. 1 \in 1 .. Len(calls) - 1
        BY <1>1, <2>2
      <3> QED BY <1>1, <3>1
    <2> QED BY <1>1, <2>1, <2>2
  <1>4. ASSUME NEW k \in 2 .. Len(Behind(n)), HasPercent(Behind(n)[k])
        PROVE  Tainted
    <2>1. k \in 2 .. Len(calls)
      BY <1>1
    <2>2. CASE k = Len(calls)
      <3>1. HasPercent(fmt)
        BY <1>1, <1>4, <2>2, LeftHasPercent
      <3> QED BY <1>1, <2>1, <2>2, <3>1 DEF WalkInv
    <2>3. CASE k # Len(calls)
      <3>1. k \in 1 .. Len(calls) - 1
        BY <1>1, <2>1, <2>3
      <3> QED BY <1>1, <1>4, <2>1, <3>1 DEF WalkInv
    <2> QED BY <2>2, <2>3
  <1> QED BY <1>3, <1>4 DEF WalkInv

LEMMA WalkInit == PrintkInit => WalkInv
  <1> SUFFICES ASSUME PrintkInit
               PROVE  WalkInv
    OBVIOUS
  <1>1. format \in Seq(Character) /\ calls = <<format>> /\ wild = FALSE
    BY PrintkAssumption DEF PrintkInit
  <1> QED BY <1>1 DEF WalkInv, StaysInside

LEMMA WalkStep == WalkInv /\ [printk]_printkVars => WalkInv'
  <1> SUFFICES ASSUME WalkInv, [printk]_printkVars
               PROVE  WalkInv'
    OBVIOUS
  <1>1. CASE UNCHANGED printkVars
    BY <1>1 DEF printkVars, WalkInv, StaysInside, Tainted
  <1> SUFFICES ASSUME printk
               PROVE  WalkInv'
    BY <1>1
  <1>2. ~ wild /\ calls # <<>> /\ calls \in Seq(Seq(Character)) /\ format \in Seq(Character)
    BY DEF printk, Walking, WalkInv
  <1>3. fmt \in Seq(Character) /\ fmt = calls[Len(calls)] /\ Len(calls) \in Nat /\ Len(calls) >= 1
    BY <1>2 DEF fmt, Last
  <1>4. Len(fmt) \in Nat
    BY <1>3
  <1>5. /\ Len(calls) = 1 \/ Len(calls) > 1
        /\ ~ (Len(calls) = 1 /\ Len(calls) > 1)
    <2>1. Len(calls) \in Nat /\ 1 \in Nat /\ 1 <= Len(calls)
      BY <1>3
    <2>2. (1 < Len(calls) \/ 1 = Len(calls)) /\ ~ (1 < Len(calls) /\ 1 = Len(calls))
      BY <2>1, LessOrEqual
    <2> QED BY <2>1, <2>2
  <1>6. CASE number
    <2> DEFINE n == IF fmt[2] = "x" /\ Len(fmt) >= 3 /\ IS_NUM(fmt[3]) THEN 3 ELSE 2
    <2>1. calls' = Behind(n) /\ UNCHANGED <<format, passed, wild>>
      BY <1>6, Zenon DEF number
    <2>2. Len(fmt) >= 2 /\ fmt[1] = "%" /\ fmt[2] \in {"d", "u", "x", "X", "p"}
      BY <1>6 DEF number, Converts
    <2>3. n \in 1 .. Len(fmt) /\ n \in 0 .. Len(fmt) /\ fmt[n] # "%"
      BY <1>4, <2>2 DEF IS_NUM, Digit
    <2> HIDE DEF n
    <2>4. /\ Unfinished(Behind(n)[1]) => Unfinished(format)
          /\ \A k \in 2 .. Len(Behind(n)) : HasPercent(Behind(n)[k]) => Tainted
      BY <1>2, <2>3, BehindKeeps
    <2>5. Behind(n) \in Seq(Seq(Character))
      BY <1>2, <2>3, BehindIs
    <2> QED BY <1>2, <2>1, <2>4, <2>5 DEF WalkInv, StaysInside, Tainted
  <1>7. CASE string
    <2>1. Len(fmt) >= 2 /\ fmt[1] = "%" /\ fmt[2] = "s"
      BY <1>7 DEF string, Converts
    <2>2. 2 \in 1 .. Len(fmt) /\ 2 \in 0 .. Len(fmt) /\ fmt[2] # "%"
      BY <1>4, <2>1
    <2>3. /\ Unfinished(Behind(2)[1]) => Unfinished(format)
          /\ \A k \in 2 .. Len(Behind(2)) : HasPercent(Behind(2)[k]) => Tainted
      BY <1>2, <2>2, BehindKeeps
    <2>4. Behind(2) \in Seq(Seq(Character)) /\ Len(Behind(2)) = Len(calls)
      BY <1>2, <2>2, BehindIs
    <2>5. CASE Len(calls) = 1
      <3>1. /\ UNCHANGED <<format, wild>>
            /\ \E s \in Strings : calls' = Append(Behind(2), s) /\ passed' = passed \cup {s}
        BY <1>7, <2>5 DEF string
      <3>2. PICK s \in Strings : calls' = Append(Behind(2), s) /\ passed' = passed \cup {s}
        BY <3>1
      <3>3. s \in Seq(Character)
        BY PrintkAssumption
      <3> DEFINE b == Behind(2)
      <3>4. b \in Seq(Seq(Character)) /\ Len(b) = 1
        BY <2>4, <2>5
      <3>5. calls' = Append(b, s)
        BY <3>2
      <3> HIDE DEF b
      <3>6. /\ calls' \in Seq(Seq(Character)) /\ Len(calls') = 2
            /\ calls'[1] = b[1] /\ calls'[2] = s
        <4>1. /\ Append(b, s) \in Seq(Seq(Character)) /\ Len(Append(b, s)) = Len(b) + 1
              /\ \A k \in 1 .. Len(b) : Append(b, s)[k] = b[k]
              /\ Append(b, s)[Len(b) + 1] = s
          <5> DEFINE C == Character
                     S == Seq(C)
          <5>1. s \in S /\ b \in Seq(S)
            BY <3>3, <3>4
          <5> HIDE DEF S
          <5>2. /\ Append(b, s) \in Seq(S) /\ Len(Append(b, s)) = Len(b) + 1
                /\ \A k \in 1 .. Len(b) : Append(b, s)[k] = b[k]
                /\ Append(b, s)[Len(b) + 1] = s
            BY <5>1, AppendProperties
          <5> QED BY <5>2 DEF S
        <4>2. 1 \in 1 .. Len(b) /\ Len(b) + 1 = 2
          BY <3>4
        <4> QED BY <3>5, <4>1, <4>2
      <3>7. HasPercent(s) => Tainted'
        BY <3>2 DEF HasPercent, Tainted, Contains
      <3>8. \A k \in 2 .. Len(calls') : calls'[k] = s
        BY <3>6
      <3>9. Unfinished(calls'[1]) => Unfinished(format')
        BY <2>3, <3>1, <3>6 DEF b
      <3>10. StaysInside'
        BY <1>2, <3>1 DEF StaysInside
      <3> QED BY <1>2, <3>1, <3>6, <3>7, <3>8, <3>9, <3>10 DEF WalkInv
    <2>6. CASE Len(calls) > 1
      <3>1. UNCHANGED <<format, passed>> /\ calls' = Behind(2) /\ wild' = TRUE
        <4>1. ~ (Len(calls) = 1)
          BY <1>5, <2>6
        <4> QED BY <1>7, <4>1, Zenon DEF string
      <3>2. Tainted
        <4>1. Len(calls) \in 2 .. Len(calls)
          BY <1>3, <2>6
        <4>2. HasPercent(fmt)
          BY <2>1, <2>2 DEF HasPercent
        <4> QED BY <1>3, <4>1, <4>2 DEF WalkInv
      <3> QED BY <1>2, <2>3, <2>4, <3>1, <3>2 DEF WalkInv, StaysInside, Tainted
    <2> QED BY <1>5, <2>5, <2>6
  <1>8. CASE character
    <2> DEFINE n == IF fmt[1] = "%" /\ Len(fmt) >= 2 THEN 2 ELSE 1
    <2>1. /\ fmt # <<>> /\ wild' = (fmt = <<"%">>) /\ calls' = Behind(n)
          /\ UNCHANGED <<format, passed>>
      BY <1>8, Zenon DEF character
    <2>2. Len(fmt) >= 1
      BY <1>3, <2>1
    <2>3. n \in 0 .. Len(fmt) /\ n \in 1 .. Len(fmt)
      BY <1>4, <2>2
    <2> HIDE DEF n
    <2>4. Behind(n) \in Seq(Seq(Character)) /\ Len(Behind(n)) = Len(calls)
      BY <1>2, <2>3, BehindIs
    <2>5. CASE fmt = <<"%">>
      <3>1. /\ n = 1 /\ Len(fmt) = 1 /\ fmt[1] = "%"
        BY <2>5 DEF n
      <3>2. Unfinished(format) \/ Tainted
        <4>1. CASE Len(calls) = 1
          <5>1. EndsWith(fmt, 1)
            BY <3>1 DEF EndsWith
          <5>2. Unfinished(fmt)
            BY <1>3, <5>1, UnfinishedIsOdd
          <5> QED BY <1>2, <1>3, <4>1, <5>2 DEF WalkInv
        <4>2. CASE Len(calls) > 1
          <5>1. Len(calls) \in 2 .. Len(calls)
            BY <1>3, <4>2
          <5>2. HasPercent(fmt)
            BY <3>1 DEF HasPercent
          <5> QED BY <1>3, <5>1, <5>2 DEF WalkInv
        <4> QED BY <1>5, <4>1, <4>2
      <3>3. wild'
        BY <2>1, <2>5
      <3>4. \A k \in 2 .. Len(calls') : HasPercent(calls'[k]) => Tainted
        <4> SUFFICES ASSUME NEW k \in 2 .. Len(calls'), HasPercent(calls'[k])
                     PROVE  Tainted
          OBVIOUS
        <4>1. k \in 2 .. Len(calls)
          BY <2>1, <2>4
        <4>2. CASE k = Len(calls)
          <5>1. HasPercent(fmt)
            BY <3>1 DEF HasPercent
          <5> QED BY <1>3, <4>1, <4>2, <5>1 DEF WalkInv
        <4>3. CASE k # Len(calls)
          <5>1. k \in 1 .. Len(calls) - 1
            BY <1>3, <4>1, <4>3
          <5>2. calls'[k] = calls[k]
            BY <1>2, <2>1, <2>3, <5>1, BehindIs
          <5> QED BY <4>1, <5>2 DEF WalkInv
        <4> QED BY <4>2, <4>3
      <3> QED BY <1>2, <2>1, <2>4, <3>2, <3>3, <3>4 DEF WalkInv, StaysInside, Tainted
    <2>6. CASE fmt # <<"%">>
      <3>1. fmt[n] # "%" \/ (n = 2 /\ fmt[1] = "%" /\ fmt[2] = "%")
        <4>1. Len(fmt) = 1 => fmt[1] # "%"
          <5> SUFFICES ASSUME Len(fmt) = 1, fmt[1] = "%"
                       PROVE  FALSE
            OBVIOUS
          <5> DEFINE f == fmt
                     one == <<"%">>
          <5>1. f \in Seq(Character) /\ one \in Seq(Character) /\ Len(f) = Len(one) /\ Len(f) = 1
            BY <1>3
          <5>2. \A k \in 1 .. Len(f) : f[k] = one[k]
            BY <5>1
          <5> HIDE DEF f, one
          <5>3. f = one
            BY <5>1, <5>2, SeqEqual
          <5> QED BY <2>6, <5>3 DEF f, one
        <4>2. CASE fmt[1] = "%" /\ Len(fmt) >= 2
          BY <4>2 DEF n
        <4>3. CASE ~ (fmt[1] = "%" /\ Len(fmt) >= 2)
          <5>1. n = 1
            BY <4>3 DEF n
          <5>2. fmt[1] # "%"
            <6> SUFFICES ASSUME fmt[1] = "%" PROVE FALSE
              OBVIOUS
            <6>1. ~ (1 < Len(fmt))
              BY <1>4, <4>3
            <6>2. 1 \in Nat /\ 1 <= Len(fmt)
              BY <1>4, <2>2
            <6>3. 1 = Len(fmt)
              BY <1>4, <6>1, <6>2, LessOrEqual
            <6> QED BY <4>1, <6>3
          <5> QED BY <5>1, <5>2
        <4> QED BY <4>2, <4>3
      <3>2. /\ Unfinished(Behind(n)[1]) => Unfinished(format)
            /\ \A k \in 2 .. Len(Behind(n)) : HasPercent(Behind(n)[k]) => Tainted
        BY <1>2, <2>3, <3>1, BehindKeeps
      <3>3. ~ wild'
        BY <2>1, <2>6
      <3> QED BY <1>2, <2>1, <2>4, <3>2, <3>3 DEF WalkInv, StaysInside, Tainted
    <2> QED BY <2>5, <2>6
  <1>9. CASE return
    <2>1. calls' = Front(calls) /\ UNCHANGED <<format, passed, wild>>
      BY <1>9 DEF return
    <2>2. /\ calls' \in Seq(Seq(Character)) /\ Len(calls') = Len(calls) - 1
          /\ \A k \in 1 .. Len(calls) - 1 : calls'[k] = calls[k]
      BY <1>2, <2>1, FrontIs
    <2>3. calls' # <<>> => (Unfinished(calls'[1]) => Unfinished(format'))
      <3> SUFFICES ASSUME calls' # <<>>
                   PROVE  Unfinished(calls'[1]) => Unfinished(format')
        OBVIOUS
      <3>1. 1 \in 1 .. Len(calls) - 1
        BY <1>3, <2>2
      <3> QED BY <1>2, <2>1, <2>2, <3>1 DEF WalkInv
    <2>4. \A k \in 2 .. Len(calls') : HasPercent(calls'[k]) => Tainted
      <3> SUFFICES ASSUME NEW k \in 2 .. Len(calls'), HasPercent(calls'[k])
                   PROVE  Tainted
        OBVIOUS
      <3>1. k \in 2 .. Len(calls) /\ k \in 1 .. Len(calls) - 1
        BY <1>3, <2>2
      <3> QED BY <2>2, <3>1 DEF WalkInv
    <2> QED BY <1>2, <2>1, <2>2, <2>3, <2>4 DEF WalkInv, StaysInside, Tainted
  <1> QED BY <1>6, <1>7, <1>8, <1>9 DEF printk

\* printk reads behind its format or its arguments only if the format ends
\* within a conversion or a string that was passed to %s has a percent sign,
\* for formats and strings of every length.
THEOREM PrintkStaysInside == PrintkSpec => []StaysInside
  <1>1. WalkInv => StaysInside
    BY DEF WalkInv
  <1> QED BY <1>1, WalkInit, WalkStep, PTL DEF PrintkSpec

-----------------------------------------------------------------------------
(* printk: words and powers                                                *)

\* Sixteens are powers of 16.
LEMMA SixteensAre ==
  ASSUME NEW n \in Nat
  PROVE  /\ Sixteens(0) = 1 /\ Sixteens(n) \in Nat /\ Sixteens(n) >= 1
         /\ Sixteens(n + 1) = 16 * Sixteens(n)
  <1>1. Sixteens(0) = 1
    <2>1. 4 * 0 = 0
      OBVIOUS
    <2> QED BY <2>1, Doubling DEF Sixteens
  <1> DEFINE m == 4 * n
  <1>2. m \in Nat /\ m + 1 \in Nat /\ (m + 1) + 1 \in Nat /\ ((m + 1) + 1) + 1 \in Nat
    OBVIOUS
  <1>3. 4 * (n + 1) = (((m + 1) + 1) + 1) + 1
    OBVIOUS
  <1> HIDE DEF m
  <1>4. /\ 2 ^ m \in Nat \ {0} /\ 2 ^ (m + 1) = 2 * 2 ^ m
        /\ 2 ^ ((m + 1) + 1) = 2 * 2 ^ (m + 1)
        /\ 2 ^ (((m + 1) + 1) + 1) = 2 * 2 ^ ((m + 1) + 1)
        /\ 2 ^ ((((m + 1) + 1) + 1) + 1) = 2 * 2 ^ (((m + 1) + 1) + 1)
    BY <1>2, PowerDoubles
  <1> DEFINE b == 2 ^ m
  <1>5. 2 ^ (4 * (n + 1)) = 16 * b /\ b \in Nat /\ b >= 1
    BY <1>3, <1>4
  <1> QED BY <1>1, <1>5 DEF m, Sixteens

\* Half of the words are negative as an int.
LEMMA WordsAre ==
  \E h \in Nat : /\ h >= 1 /\ Sixteens(NrDigits) = 2 * h /\ INT_MIN = -h
                 /\ Words = 0 .. 2 * h - 1
  <1>1. NrDigits - 1 \in Nat /\ (NrDigits - 1) + 1 = NrDigits
    BY PrintkAssumption
  <1> DEFINE b == Sixteens(NrDigits - 1)
  <1>2. b \in Nat /\ b >= 1 /\ Sixteens(NrDigits) = 16 * b
    BY <1>1, SixteensAre
  <1> HIDE DEF b
  <1>3. (16 * b) \div 2 = 8 * b
    BY <1>2
  <1> QED BY <1>2, <1>3 DEF INT_MIN, Words

\* Tens are powers of 10.
LEMMA TensAre ==
  /\ Tens \in [0 .. BufSize -> Nat] /\ Tens[0] = 1
  /\ \A n \in 1 .. BufSize : Tens[n] = 10 * Tens[n - 1]
  <1> DEFINE S == 0 .. BufSize
             body(f, n) == IF n = 0 THEN 1 ELSE 10 * f[n - 1]
             round == [r \in Nat \X Nat |-> 10 * r[2]]
  <1>1. BufSize \in Nat
    BY PrintkAssumption
  <1>2. PICK f \in [0 .. BufSize -> Nat] : Iterates(f, 1, round, BufSize)
    <2>1. round \in [Nat \X Nat -> Nat]
      OBVIOUS
    <2> HIDE DEF round
    <2> QED BY <1>1, <2>1, LoopRuns
  <1>3. \A n \in S : f[n] = body(f, n)
    <2> SUFFICES ASSUME NEW n \in S PROVE f[n] = body(f, n)
      OBVIOUS
    <2>1. CASE n = 0
      BY <1>2, <2>1 DEF Iterates
    <2>2. CASE n # 0
      <3>1. n \in 1 .. BufSize /\ n - 1 \in 0 .. BufSize /\ n \in Nat
        BY <1>1, <2>2
      <3>2. f[n] = round[<<n, f[n - 1]>>] /\ f[n - 1] \in Nat
        BY <1>2, <3>1 DEF Iterates
      <3> QED BY <2>2, <3>1, <3>2
    <2> QED BY <2>1, <2>2
  <1> HIDE DEF round
  <1>4. Tens = [n \in S |-> body(Tens, n)]
    <2> DEFINE at == CHOOSE g : g = [n \in S |-> body(g, n)]
    <2>1. Tens = at
      BY DEF Tens
    <2>2. \E g : g = [n \in S |-> body(g, n)]
      <3> HIDE DEF body
      <3> QED BY <1>2, <1>3
    <2>3. at = [n \in S |-> body(at, n)]
      <3> HIDE DEF body
      <3> QED BY <2>2
    <2> HIDE DEF at
    <2> QED BY <2>1, <2>3
  <1>5. \A n \in S : Tens[n] = body(Tens, n)
    <2> HIDE DEF body
    <2> QED BY <1>4
  <1> DEFINE T == {n \in S : Tens[n] \in Nat}
  <1>6. \A n \in 0 .. BufSize : n \in T
    <2>1. 0 \in T
      BY <1>1, <1>5
    <2>2. ASSUME NEW n \in 0 .. BufSize - 1, n \in T
          PROVE  n + 1 \in T
      <3>1. n + 1 \in S /\ n + 1 # 0 /\ (n + 1) - 1 = n /\ Tens[n] \in Nat
        BY <1>1, <2>2
      <3>2. Tens[n + 1] = 10 * Tens[n]
        BY <1>5, <3>1
      <3> QED BY <3>1, <3>2
    <2> HIDE DEF T
    <2> QED BY <1>1, <2>1, <2>2, UpTo
  <1>7. Tens \in [0 .. BufSize -> Nat]
    <2>1. DOMAIN Tens = 0 .. BufSize
      BY <1>4
    <2>2. Tens = [n \in 0 .. BufSize |-> Tens[n]]
      <3> HIDE DEF body
      <3> QED BY <1>4, <2>1
    <2> QED BY <1>6, <2>2
  <1>8. ASSUME NEW n \in 1 .. BufSize
        PROVE  Tens[n] = 10 * Tens[n - 1]
    <2>1. n \in S /\ n # 0
      BY <1>1
    <2> QED BY <1>5, <2>1
  <1> QED BY <1>1, <1>5, <1>7, <1>8

-----------------------------------------------------------------------------
(* printk: the value of digits                                             *)

\* f[k] is the value of the first k digits.
ValuesOf(f, s, b) ==
    f[0] = 0 /\ \A k \in 1 .. Len(s) : f[k] = b * f[k - 1] + s[k]

\* ValueOf is the last of them.
LEMMA ValueIs ==
  ASSUME NEW s \in Seq(Nat), NEW b \in Nat, NEW f, ValuesOf(f, s, b)
  PROVE  ValueOf(s, b) = f[Len(s)]
  <1> DEFINE n == Len(s)
             S == 0 .. n
             body(g, k) == IF k = 0 THEN 0 ELSE b * g[k - 1] + s[k]
             value == CHOOSE g : g = [k \in S |-> body(g, k)]
  <1>1. n \in Nat
    OBVIOUS
  <1>2. ValueOf(s, b) = value[n]
    BY DEF ValueOf
  <1> HIDE DEF n
  <1>3. f[0] = 0 /\ \A k \in 1 .. n : f[k] = b * f[k - 1] + s[k]
    BY DEF ValuesOf, n
  <1>4. \A k \in S : f[k] = body(f, k)
    <2> SUFFICES ASSUME NEW k \in S PROVE f[k] = body(f, k)
      OBVIOUS
    <2>1. k = 0 \/ k \in 1 .. n
      BY <1>1
    <2> QED BY <1>3, <2>1
  <1>5. value = [k \in S |-> body(value, k)]
    <2> DEFINE h == [k \in S |-> f[k]]
    <2>1. \A k \in S : h[k] = body(h, k)
      <3> SUFFICES ASSUME NEW k \in S PROVE h[k] = body(h, k)
        OBVIOUS
      <3>1. k # 0 => k - 1 \in S
        BY <1>1
      <3>2. h[k] = f[k] /\ (k # 0 => h[k - 1] = f[k - 1])
        BY <3>1
      <3> HIDE DEF h
      <3> QED BY <1>4, <3>2
    <2> HIDE DEF body
    <2>2. h = [k \in S |-> body(h, k)]
      BY <2>1
    <2> HIDE DEF h
    <2> QED BY <2>2
  <1> HIDE DEF value
  <1>6. \A k \in S : value[k] = body(value, k)
    <2> HIDE DEF body
    <2> QED BY <1>5
  <1> DEFINE T == {k \in S : value[k] = f[k]}
  <1>7. \A k \in 0 .. n : k \in T
    <2>1. 0 \in T
      BY <1>1, <1>4, <1>6
    <2>2. ASSUME NEW k \in 0 .. n - 1, k \in T
          PROVE  k + 1 \in T
      <3>1. k + 1 \in S /\ k + 1 # 0 /\ (k + 1) - 1 = k
        BY <1>1
      <3>2. value[k] = f[k]
        BY <2>2
      <3>3. /\ value[k + 1] = b * value[k] + s[k + 1]
            /\ f[k + 1] = b * f[k] + s[k + 1]
        BY <1>4, <1>6, <3>1
      <3> QED BY <3>1, <3>2, <3>3
    <2> HIDE DEF T
    <2> QED BY <1>1, <2>1, <2>2, UpTo
  <1>8. n \in T
    BY <1>1, <1>7
  <1> QED BY <1>2, <1>8 DEF n

\* Every sequence of digits has a value, and one more digit counts b times as
\* much.
LEMMA ValueAppends ==
  ASSUME NEW s \in Seq(Nat), NEW b \in Nat, NEW c \in Nat
  PROVE  /\ ValueOf(<<>>, b) = 0 /\ ValueOf(s, b) \in Nat
         /\ ValueOf(Append(s, c), b) = b * ValueOf(s, b) + c
  <1> DEFINE n == Len(s)
             round == [r \in Nat \X Nat |-> IF r[1] \in 1 .. n THEN b * r[2] + s[r[1]] ELSE r[2]]
  <1>1. n \in Nat /\ \A k \in 1 .. n : s[k] \in Nat
    OBVIOUS
  <1>2. ValueOf(<<>>, b) = 0
    <2> DEFINE f == [k \in 0 .. 0 |-> 0]
    <2>1. <<>> \in Seq(Nat) /\ Len(<<>>) = 0 /\ ValuesOf(f, <<>>, b)
      BY DEF ValuesOf
    <2>2. ValueOf(<<>>, b) = f[Len(<<>>)]
      BY <2>1, ValueIs
    <2> QED BY <2>1, <2>2
  <1>3. PICK f \in [0 .. n -> Nat] : Iterates(f, 0, round, n)
    <2>1. round \in [Nat \X Nat -> Nat]
      <3> HIDE DEF n
      <3>1. ASSUME NEW r \in Nat \X Nat
            PROVE  (IF r[1] \in 1 .. n THEN b * r[2] + s[r[1]] ELSE r[2]) \in Nat
        <4>1. r[1] \in Nat /\ r[2] \in Nat
          OBVIOUS
        <4>2. b * r[2] \in Nat
          BY <4>1
        <4>3. r[1] \in 1 .. n => b * r[2] + s[r[1]] \in Nat
          BY <1>1, <4>2
        <4> QED BY <4>1, <4>3
      <3> QED BY <3>1
    <2> HIDE DEF round
    <2> QED BY <1>1, <2>1, LoopRuns
  <1>4. f[0] = 0
    BY <1>3 DEF Iterates
  <1>5. ASSUME NEW k \in 1 .. n
        PROVE  f[k] = b * f[k - 1] + s[k]
    <2>1. f[k] = round[<<k, f[k - 1]>>]
      BY <1>3 DEF Iterates
    <2>2. k \in Nat /\ f[k - 1] \in Nat
      <3>1. k \in Nat /\ k - 1 \in 0 .. n
        BY <1>1
      <3> HIDE DEF n
      <3> QED BY <1>3, <3>1
    <2> QED BY <2>1, <2>2
  <1>6. ValueOf(s, b) = f[n]
    <2>1. ValuesOf(f, s, b)
      BY <1>4, <1>5 DEF ValuesOf
    <2> QED BY <2>1, ValueIs
  <1> DEFINE t == Append(s, c)
             h == [k \in 0 .. n + 1 |-> IF k = n + 1 THEN b * f[n] + c ELSE f[k]]
  <1>7. /\ t \in Seq(Nat) /\ Len(t) = n + 1 /\ t[n + 1] = c
        /\ \A k \in 1 .. n : t[k] = s[k]
    BY AppendProperties
  <1> HIDE DEF t, n, round
  <1>8. h[0] = 0 /\ h[n + 1] = b * f[n] + c /\ \A k \in 0 .. n : h[k] = f[k]
    BY <1>1, <1>4
  <1> HIDE DEF h
  <1>9. ASSUME NEW k \in 1 .. n + 1
        PROVE  h[k] = b * h[k - 1] + t[k]
    <2>1. CASE k = n + 1
      <3>1. k - 1 = n /\ n \in 0 .. n
        BY <1>1, <2>1
      <3> QED BY <1>7, <1>8, <2>1, <3>1
    <2>2. CASE k # n + 1
      <3>1. k \in 1 .. n /\ k \in 0 .. n /\ k - 1 \in 0 .. n
        BY <1>1, <2>2
      <3>2. h[k] = f[k] /\ h[k - 1] = f[k - 1] /\ t[k] = s[k]
        BY <1>7, <1>8, <3>1
      <3> QED BY <1>5, <3>1, <3>2
    <2> QED BY <2>1, <2>2
  <1>10. ValueOf(t, b) = h[n + 1]
    <2>1. ValuesOf(h, t, b)
      BY <1>7, <1>8, <1>9 DEF ValuesOf
    <2> QED BY <1>7, <2>1, ValueIs
  <1>11. f[n] \in Nat
    BY <1>1, <1>3
  <1> QED BY <1>2, <1>6, <1>8, <1>10, <1>11 DEF t

-----------------------------------------------------------------------------
(* printk: decimal digits                                                  *)

\* Division and remainder come nearer to zero.
LEMMA QuotientIs ==
  ASSUME NEW v \in Int
  PROVE  /\ quotient(v) \in Int /\ remainder(v) \in Int
         /\ v > 0 => /\ 0 <= quotient(v) /\ quotient(v) < v
                     /\ remainder(v) \in 0 .. 9
                     /\ 10 * quotient(v) + remainder(v) = v
         /\ v < 0 => v < quotient(v) /\ quotient(v) <= 0
  BY DEF quotient, remainder

\* One more round of the recursion, and the recursion for D.
DecimalRound(D, f) ==
    [v \in D |-> IF v = 0 THEN <<>> ELSE Append(f[quotient(v)], remainder(v))]

\* The loop of d and u has a result, for negative numbers too.
LEMMA DecimalIs ==
  \A v \in INT_MIN .. Sixteens(NrDigits) - 1 :
     decimal[v] = IF v = 0 THEN <<>> ELSE Append(decimal[quotient(v)], remainder(v))
  <1> DEFINE D == INT_MIN .. Sixteens(NrDigits) - 1
             S == [D -> Seq(Int)]
             start0 == [v \in D |-> <<>>]
             round == [r \in Nat \X S |-> DecimalRound(D, r[2])]
  <1>1. PICK h \in Nat : h >= 1 /\ D = -h .. 2 * h - 1
    BY WordsAre
  <1> HIDE DEF D
  <1>2. ASSUME NEW v \in D
        PROVE  /\ v \in Int /\ quotient(v) \in D /\ remainder(v) \in Int
               /\ v > 0 => 0 <= quotient(v) /\ quotient(v) < v
               /\ v < 0 => v < quotient(v) /\ quotient(v) <= 0
    <2>1. v \in Int /\ -h <= v /\ v <= 2 * h - 1
      BY <1>1
    <2>2. /\ quotient(v) \in Int /\ remainder(v) \in Int
          /\ v > 0 => 0 <= quotient(v) /\ quotient(v) < v
          /\ v < 0 => v < quotient(v) /\ quotient(v) <= 0
      BY <2>1, QuotientIs
    <2>3. v = 0 => quotient(v) = 0
      BY DEF quotient
    <2> QED BY <1>1, <2>1, <2>2, <2>3
  <1>3. \A s \in Seq(Int), c \in Int : Append(s, c) \in Seq(Int)
    OBVIOUS
  <1>4. \A f \in S : DecimalRound(D, f) \in S
    <2> SUFFICES ASSUME NEW f \in S PROVE DecimalRound(D, f) \in S
      OBVIOUS
    <2>1. <<>> \in Seq(Int)
      OBVIOUS
    <2> DEFINE M == Seq(Int)
    <2> HIDE DEF M
    <2>2. ASSUME NEW v \in D
          PROVE  (IF v = 0 THEN <<>> ELSE Append(f[quotient(v)], remainder(v))) \in M
      <3>1. f[quotient(v)] \in M
        BY <1>2 DEF M
      <3> QED BY <1>2, <1>3, <2>1, <3>1 DEF M
    <2> QED BY <2>2 DEF DecimalRound, M
  <1> DEFINE m == 2 * h
  <1>5. m \in Nat /\ m + 1 \in Nat
    OBVIOUS
  <1>6. start0 \in S
    OBVIOUS
  <1> HIDE DEF S, start0, m
  <1>7. round \in [Nat \X S -> S]
    <2>1. \A r \in Nat \X S : DecimalRound(D, r[2]) \in S
      BY <1>4
    <2> QED BY <2>1
  <1>8. PICK f \in [0 .. m + 1 -> S] : Iterates(f, start0, round, m + 1)
    <2> HIDE DEF round
    <2> QED BY <1>5, <1>6, <1>7, LoopRuns
  <1>9. ASSUME NEW k \in 1 .. m + 1
        PROVE  f[k] = DecimalRound(D, f[k - 1]) /\ f[k] \in S
    <2>1. k \in Nat /\ k - 1 \in 0 .. m + 1 /\ k \in 0 .. m + 1
      BY <1>5
    <2>2. f[k] = round[<<k, f[k - 1]>>] /\ f[k - 1] \in S /\ f[k] \in S
      BY <1>8, <2>1 DEF Iterates
    <2> QED BY <2>1, <2>2
  <1> HIDE DEF round
  \* what is k or less from zero is settled after k rounds
  <1> DEFINE T == {k \in 0 .. m : \A v \in D : -k <= v /\ v <= k => f[k + 1][v] = f[k][v]}
  <1>10. \A k \in 0 .. m : k \in T
    <2>1. 0 \in T
      <3>1. 0 \in 0 .. m /\ 0 + 1 \in 1 .. m + 1 /\ (0 + 1) - 1 = 0
        BY <1>5
      <3>2. f[0 + 1] = DecimalRound(D, f[0]) /\ f[0] = start0
        BY <1>8, <1>9, <3>1 DEF Iterates
      <3>3. ASSUME NEW v \in D, -0 <= v, v <= 0
            PROVE  f[0 + 1][v] = f[0][v]
        <4>1. v = 0
          BY <1>2, <3>3
        <4>2. f[0 + 1][v] = <<>>
          BY <3>2, <4>1 DEF DecimalRound
        <4>3. f[0][v] = <<>>
          BY <3>2 DEF start0
        <4> QED BY <4>2, <4>3
      <3> QED BY <3>1, <3>3
    <2>2. ASSUME NEW k \in 0 .. m - 1, k \in T
          PROVE  k + 1 \in T
      <3>1. /\ k + 1 \in 0 .. m /\ k + 1 \in 1 .. m + 1 /\ (k + 1) + 1 \in 1 .. m + 1
            /\ (k + 1) - 1 = k /\ ((k + 1) + 1) - 1 = k + 1 /\ k \in Nat
        BY <1>5
      <3>2. /\ f[(k + 1) + 1] = DecimalRound(D, f[k + 1])
            /\ f[k + 1] = DecimalRound(D, f[k])
        BY <1>9, <3>1
      <3>3. ASSUME NEW v \in D, -(k + 1) <= v, v <= k + 1
            PROVE  f[(k + 1) + 1][v] = f[k + 1][v]
        <4>1. CASE v = 0
          BY <3>2, <4>1 DEF DecimalRound
        <4>2. CASE v # 0
          <5> DEFINE q == quotient(v)
          <5>1. /\ v \in Int /\ q \in D /\ q \in Int
                /\ v > 0 => 0 <= q /\ q < v
                /\ v < 0 => v < q /\ q <= 0
            <6>1. \A w \in D : w \in Int
              BY <1>1
            <6> QED BY <1>2, <6>1
          <5> HIDE DEF q
          <5>2. -k <= q /\ q <= k
            BY <3>1, <3>3, <4>2, <5>1
          <5>3. f[k + 1][q] = f[k][q]
            BY <2>2, <5>1, <5>2
          <5>4. /\ f[(k + 1) + 1][v] = Append(f[k + 1][q], remainder(v))
                /\ f[k + 1][v] = Append(f[k][q], remainder(v))
            BY <3>2, <4>2 DEF DecimalRound, q
          <5> QED BY <5>3, <5>4
        <4> QED BY <4>1, <4>2
      <3> QED BY <3>1, <3>3
    <2> HIDE DEF T
    <2> QED BY <1>5, <2>1, <2>2, UpTo
  <1> DEFINE g == f[m]
             body(e, v) == IF v = 0 THEN <<>> ELSE Append(e[quotient(v)], remainder(v))
  <1>11. g = [v \in D |-> body(g, v)]
    <2>1. m \in T /\ m \in 0 .. m + 1 /\ m + 1 \in 1 .. m + 1 /\ (m + 1) - 1 = m
      BY <1>5, <1>10
    <2>2. f[m + 1] = DecimalRound(D, g) /\ g \in S
      BY <1>8, <1>9, <2>1
    <2>3. \A v \in D : -m <= v /\ v <= m
      BY <1>1 DEF m
    <2>4. \A v \in D : f[m + 1][v] = g[v]
      BY <2>1, <2>3
    <2>5. \A v \in D : g[v] = body(g, v)
      BY <2>2, <2>4 DEF DecimalRound
    <2>6. g = [v \in D |-> g[v]]
      BY <2>2 DEF S
    <2> HIDE DEF g, body
    <2> QED BY <2>5, <2>6
  <1> HIDE DEF g, T
  <1>12. decimal = [v \in D |-> body(decimal, v)]
    <2> DEFINE at == CHOOSE e : e = [v \in D |-> body(e, v)]
    <2>1. decimal = at
      BY DEF decimal, D
    <2>2. at = [v \in D |-> body(at, v)]
      <3> HIDE DEF body
      <3> QED BY <1>11
    <2> HIDE DEF at, body
    <2> QED BY <2>1, <2>2
  <1>13. \A v \in D : decimal[v] = body(decimal, v)
    <2> HIDE DEF body
    <2> QED BY <1>12
  <1> QED BY <1>13 DEF D

\* ds stands for v with base b: it has digits, the first of which is no 0.
Shortest(ds, v, b) ==
    /\ ds \in Seq(0 .. b - 1) /\ ValueOf(ds, b) = v
    /\ Len(ds) >= 1 /\ ds[1] # 0

\* What the loop of d and u puts out is the shortest number that reads back,
\* and has a place in buf.
LEMMA DecimalReads ==
  ASSUME NEW v \in Words, v # 0
  PROVE  Shortest(decimal[v], v, 10) /\ Len(decimal[v]) <= BufSize
  <1>1. PICK h \in Nat : /\ h >= 1 /\ Sixteens(NrDigits) = 2 * h /\ INT_MIN = -h
                         /\ Words = 0 .. 2 * h - 1
    BY WordsAre
  <1> DEFINE Decimals == 0 .. 9
             Fits(w) == \A n \in 0 .. BufSize : w < Tens[n] => Len(decimal[w]) <= n
             Right(w) == Shortest(decimal[w], w, 10) /\ Fits(w)
             T == {w \in Words : w # 0 /\ ~ Right(w)}
  <1>2. /\ BufSize \in Nat /\ Tens \in [0 .. BufSize -> Nat] /\ Tens[0] = 1
        /\ \A n \in 1 .. BufSize : Tens[n] = 10 * Tens[n - 1]
    BY TensAre, PrintkAssumption
  <1>3. T = {}
    <2> SUFFICES ASSUME T # {} PROVE FALSE
      OBVIOUS
    <2>1. PICK w \in T : \A y \in T : w <= y
      <3>1. T \in SUBSET Nat
        BY <1>1
      <3> HIDE DEF T
      <3> QED BY <3>1, LeastNat
    <2>2. w \in Words /\ w # 0 /\ ~ Right(w)
      BY <2>1
    <2> DEFINE q == quotient(w)
               r == remainder(w)
    <2>3. /\ w \in Int /\ w > 0 /\ q \in Int /\ 0 <= q /\ q < w /\ r \in 0 .. 9
          /\ 10 * q + r = w
      <3>1. w \in Int /\ w > 0
        BY <1>1, <2>2
      <3> QED BY <3>1, QuotientIs
    <2>4. decimal[w] = Append(decimal[q], r)
      <3>1. w \in INT_MIN .. Sixteens(NrDigits) - 1
        BY <1>1, <2>2
      <3> QED BY <2>2, <3>1, DecimalIs
    <2> HIDE DEF q, r
    <2>5. q \in Words /\ q \in Nat /\ r \in Nat
      BY <1>1, <2>2, <2>3
    <2>6. CASE q = 0
      <3>1. decimal[q] = <<>>
        <4>1. 0 \in INT_MIN .. Sixteens(NrDigits) - 1
          BY <1>1
        <4> QED BY <2>6, <4>1, DecimalIs
      <3>2. decimal[w] = <<r>>
        BY <2>4, <3>1
      <3>3. r # 0 /\ r = w
        BY <2>3, <2>6
      <3>4. ValueOf(decimal[w], 10) = w
        <4>1. /\ ValueOf(<<>>, 10) = 0
              /\ ValueOf(Append(<<>>, r), 10) = 10 * ValueOf(<<>>, 10) + r
          <5>1. <<>> \in Seq(Nat) /\ 10 \in Nat
            OBVIOUS
          <5> QED BY <2>5, <5>1, ValueAppends
        <4> QED BY <2>4, <2>5, <3>1, <3>3, <4>1
      <3>5. Shortest(decimal[w], w, 10)
        <4>1. <<r>> \in Seq(0 .. 10 - 1) /\ Len(<<r>>) = 1 /\ <<r>>[1] = r
          BY <2>3
        <4> QED BY <3>2, <3>3, <3>4, <4>1 DEF Shortest
      <3>6. Fits(w)
        <4> SUFFICES ASSUME NEW n \in 0 .. BufSize, w < Tens[n]
                     PROVE  Len(decimal[w]) <= n
          OBVIOUS
        <4>1. n # 0
          BY <1>2, <2>3
        <4>2. Len(decimal[w]) = 1
          BY <3>2
        <4> QED BY <1>2, <4>1, <4>2
      <3> QED BY <2>2, <3>5, <3>6
    <2>7. CASE q # 0
      <3>1. Right(q)
        BY <2>1, <2>3, <2>5, <2>7
      <3> DEFINE s == decimal[q]
                 t == Append(s, r)
      <3>2. s \in Seq(0 .. 10 - 1) /\ ValueOf(s, 10) = q /\ Len(s) >= 1 /\ s[1] # 0 /\ Fits(q)
        BY <3>1 DEF Shortest
      <3> HIDE DEF s
      <3>3. /\ t \in Seq(0 .. 10 - 1) /\ Len(t) = Len(s) + 1 /\ Len(s) \in Nat
            /\ \A k \in 1 .. Len(s) : t[k] = s[k]
        <4> DEFINE D == 0 .. 10 - 1
        <4>1. r \in D
          BY <2>3
        <4> HIDE DEF D
        <4>2. s \in Seq(D)
          BY <3>2 DEF D
        <4>3. /\ t \in Seq(D) /\ Len(t) = Len(s) + 1
              /\ \A k \in 1 .. Len(s) : t[k] = s[k]
          BY <4>1, <4>2, AppendProperties
        <4>4. Len(s) \in Nat
          BY <4>2, LenProperties
        <4> QED BY <4>3, <4>4 DEF D
      <3>4. ValueOf(t, 10) = w
        <4>1. s \in Seq(Nat) /\ 10 \in Nat
          BY <3>2
        <4>2. ValueOf(t, 10) = 10 * ValueOf(s, 10) + r
          BY <2>5, <4>1, ValueAppends
        <4> QED BY <2>3, <3>2, <4>2
      <3>5. Len(t) >= 1 /\ t[1] # 0
        <4>1. 1 \in 1 .. Len(s)
          BY <3>2, <3>3
        <4>2. t[1] = s[1]
          BY <3>3, <4>1
        <4> QED BY <3>2, <3>3, <4>2
      <3> HIDE DEF t
      <3>6. decimal[w] = t
        BY <2>4 DEF s, t
      <3>7. Shortest(decimal[w], w, 10)
        BY <3>3, <3>4, <3>5, <3>6 DEF Shortest
      <3>8. Fits(w)
        <4> SUFFICES ASSUME NEW n \in 0 .. BufSize, w < Tens[n]
                     PROVE  Len(decimal[w]) <= n
          OBVIOUS
        <4>1. n # 0
          BY <1>2, <2>3
        <4>2. n \in 1 .. BufSize /\ n - 1 \in 0 .. BufSize
          BY <1>2, <4>1
        <4>3. Tens[n] = 10 * Tens[n - 1] /\ Tens[n - 1] \in Nat
          BY <1>2, <4>2
        <4>4. q < Tens[n - 1]
          BY <2>3, <4>3
        <4>5. Len(s) <= n - 1
          BY <3>2, <4>2, <4>4 DEF s
        <4> QED BY <3>3, <3>6, <4>2, <4>5
      <3> QED BY <2>2, <3>7, <3>8
    <2> QED BY <2>6, <2>7
  <1>4. Right(v)
    BY <1>3
  <1>5. v < Tens[BufSize]
    <2>1. v \in Int /\ v < Sixteens(NrDigits) /\ Sixteens(NrDigits) \in Int
      BY <1>1
    <2>2. Tens[BufSize] \in Int /\ Sixteens(NrDigits) <= Tens[BufSize]
      BY <1>2, PrintkAssumption
    <2> QED BY <2>1, <2>2
  <1> QED BY <1>2, <1>4, <1>5

-----------------------------------------------------------------------------
(* printk: hexadecimal digits                                              *)

\* A shift by one digit more.
LEMMA ShiftMore ==
  ASSUME NEW w \in Nat, NEW b \in Nat, b >= 1
  PROVE  w \div (16 * b) = (w \div b) \div 16
  <1> DEFINE q == w \div b
             r == w % b
             q1 == q \div 16
             r1 == q % 16
             rest == b * r1 + r
  <1>1. q \in Nat /\ r \in 0 .. b - 1 /\ w = b * q + r
    OBVIOUS
  <1> HIDE DEF q, r
  <1>2. q1 \in Int /\ r1 \in 0 .. 15 /\ q = 16 * q1 + r1
    BY <1>1
  <1> HIDE DEF q1, r1
  <1>3. b * r1 \in Nat /\ b * r1 <= 15 * b
    BY <1>2
  <1>4. rest \in 0 .. (16 * b) - 1
    BY <1>1, <1>3
  <1>5. w = q1 * (16 * b) + rest
    <2>1. b * q = q1 * (16 * b) + b * r1
      BY <1>2
    <2> QED BY <1>1, <1>2, <1>3, <2>1
  <1> HIDE DEF rest
  <1> DEFINE c == 16 * b
  <1>6. c \in Nat /\ c >= 1
    OBVIOUS
  <1>7. rest \in 0 .. c - 1 /\ w = q1 * c + rest
    BY <1>4, <1>5
  <1> HIDE DEF c
  <1>8. w \div c = q1
    BY <1>2, <1>6, <1>7, DivisionIs
  <1> QED BY <1>8 DEF c, q1, q

\* The digits of a word, and the number the first of them are.
LEMMA NibblesAre ==
  ASSUME NEW w \in Words
  PROVE  \E f \in [0 .. NrDigits -> Nat] :
            /\ f[0] = 0 /\ f[NrDigits] = w
            /\ \A k \in 1 .. NrDigits : f[k] = 16 * f[k - 1] + nibbles(w)[k]
            /\ nibbles(w) \in Seq(0 .. 15) /\ Len(nibbles(w)) = NrDigits
  <1> DEFINE n == NrDigits
             f == [k \in 0 .. n |-> w \div Sixteens(n - k)]
             ds == nibbles(w)
  <1>1. n \in Nat /\ n >= 1
    BY PrintkAssumption
  <1> HIDE DEF n
  <1>2. w \in Nat /\ w < Sixteens(n) /\ Sixteens(n) \in Nat
    <2>1. PICK h \in Nat : Sixteens(NrDigits) = 2 * h /\ Words = 0 .. 2 * h - 1
      BY WordsAre
    <2> QED BY <2>1 DEF n
  <1>3. ASSUME NEW k \in 0 .. n
        PROVE  Sixteens(n - k) \in Nat /\ Sixteens(n - k) >= 1
    <2>1. n - k \in Nat
      BY <1>1
    <2> QED BY <2>1, SixteensAre
  <1>4. f \in [0 .. n -> Nat]
    <2>1. ASSUME NEW k \in 0 .. n
          PROVE  w \div Sixteens(n - k) \in Nat
      <3> DEFINE b == Sixteens(n - k)
      <3>1. b \in Nat /\ b >= 1
        BY <1>3
      <3> HIDE DEF b
      <3>2. w \div b \in Nat
        BY <1>2, <3>1
      <3> QED BY <3>2 DEF b
    <2> QED BY <2>1
  <1>5. f[0] = 0
    <2> DEFINE b == Sixteens(n)
    <2>1. f[0] = w \div b
      BY <1>1
    <2>2. b \in Nat /\ b >= 1 /\ w \in 0 .. b - 1
      BY <1>2
    <2> HIDE DEF b
    <2>3. w = 0 * b + w /\ 0 \in Int /\ w \in Int
      BY <2>2
    <2>4. w \div b = 0
      BY <2>2, <2>3, DivisionIs
    <2> QED BY <2>1, <2>4
  <1>6. f[n] = w
    <2>1. f[n] = w \div Sixteens(0)
      BY <1>1
    <2>2. Sixteens(0) = 1
      BY <1>1, SixteensAre
    <2> QED BY <1>2, <2>1, <2>2
  <1>7. ds = [k \in 1 .. n |-> (w \div Sixteens(n - k)) % 16]
    BY DEF nibbles, n
  <1>8. ASSUME NEW k \in 1 .. n
        PROVE  ds[k] = f[k] % 16 /\ f[k] \in Nat
    <2>1. k \in 0 .. n
      BY <1>1
    <2> QED BY <1>4, <1>7, <2>1
  <1>9. ds \in Seq(0 .. 15) /\ Len(ds) = n
    <2>1. \A k \in 1 .. n : (w \div Sixteens(n - k)) % 16 \in 0 .. 15
      <3> SUFFICES ASSUME NEW k \in 1 .. n
                   PROVE  (w \div Sixteens(n - k)) % 16 \in 0 .. 15
        OBVIOUS
      <3>1. f[k] \in Nat /\ f[k] = w \div Sixteens(n - k)
        <4>1. k \in 0 .. n
          BY <1>1
        <4> QED BY <1>4, <4>1
      <3> HIDE DEF f
      <3> QED BY <3>1
    <2> QED BY <1>1, <1>7, <2>1
  <1>10. ASSUME NEW k \in 1 .. n
         PROVE  f[k] = 16 * f[k - 1] + ds[k]
    <2> DEFINE b == Sixteens(n - k)
    <2>1. n - k \in Nat /\ n - (k - 1) = (n - k) + 1 /\ k \in 0 .. n /\ k - 1 \in 0 .. n
      BY <1>1
    <2>2. b \in Nat /\ b >= 1 /\ Sixteens((n - k) + 1) = 16 * b
      BY <2>1, SixteensAre
    <2>3. f[k] = w \div b /\ f[k - 1] = w \div (16 * b)
      BY <2>1, <2>2
    <2> HIDE DEF f, b, ds
    <2>4. f[k - 1] = f[k] \div 16
      BY <1>2, <2>2, <2>3, ShiftMore
    <2>5. f[k] \in Nat /\ ds[k] = f[k] % 16
      BY <1>8
    <2> QED BY <2>4, <2>5
  <1> QED BY <1>4, <1>5, <1>6, <1>9, <1>10 DEF n

\* What zeros puts out, nothing if there is no room for it.
LEMMA ZerosAre ==
  ASSUME NEW n \in Int
  PROVE  /\ zeros(n) \in Seq(0 .. 15) /\ Len(zeros(n)) = (IF n >= 0 THEN n ELSE 0)
         /\ \A k \in 1 .. Len(zeros(n)) : zeros(n)[k] = 0
  <1>1. CASE n >= 0
    BY <1>1 DEF zeros
  <1>2. CASE n < 0
    <2>1. 1 .. n = 1 .. 0
      BY <1>2
    <2>2. zeros(n) = [k \in 1 .. 0 |-> 0]
      BY <2>1 DEF zeros
    <2> DEFINE s == [k \in 1 .. 0 |-> 0]
    <2>3. s \in Seq(0 .. 15) /\ Len(s) = 0
      OBVIOUS
    <2> HIDE DEF s
    <2> QED BY <1>2, <2>2, <2>3 DEF s
  <1> QED BY <1>1, <1>2

\* Hexadecimal digits are numbers.
LEMMA DigitsAreNat ==
  ASSUME NEW s \in Seq(0 .. 15)
  PROVE  s \in Seq(Nat)
  OBVIOUS

\* f counts the value of ds, and the digits before the first make 0.
Leading(ds, n, f, first) ==
    /\ ds \in Seq(0 .. 15) /\ n \in Nat /\ Len(ds) = n /\ f \in [0 .. n -> Nat]
    /\ \A k \in 1 .. n : f[k] = 16 * f[k - 1] + ds[k]
    /\ first \in 1 .. n /\ f[first - 1] = 0

\* t, with pad zeros before them, is worth what f counts.
Padded(t, ds, n, f, first, pad) ==
    /\ t \in Seq(0 .. 15) /\ ValueOf(t, 16) = f[n]
    /\ Len(t) = (IF pad >= 0 THEN pad ELSE 0) + ((n - first) + 1)
    /\ pad <= 0 => t[1] = ds[first]

\* The digits behind those that make 0 are worth as much as all of them, with
\* any number of zeros before them.
LEMMA PaddingKeepsValue ==
  ASSUME NEW ds, NEW n, NEW f, NEW first, Leading(ds, n, f, first),
         NEW pad \in Int
  PROVE  Padded(zeros(pad) \o SubSeq(ds, first, n), ds, n, f, first, pad)
  <1> DEFINE D == 0 .. 15
             s == SubSeq(ds, first, n)
             t == zeros(pad) \o SubSeq(ds, first, n)
             z == Len(zeros(pad))
             m == (n - first) + 1
  <1>a. /\ ds \in Seq(0 .. 15) /\ n \in Nat /\ Len(ds) = n /\ f \in [0 .. n -> Nat]
        /\ first \in 1 .. n /\ f[first - 1] = 0
    BY DEF Leading
  <1>b. \A k \in 1 .. n : f[k] = 16 * f[k - 1] + ds[k]
    BY DEF Leading
  <1>1. /\ zeros(pad) \in Seq(D) /\ z = (IF pad >= 0 THEN pad ELSE 0) /\ z \in Nat
        /\ \A k \in 1 .. z : zeros(pad)[k] = 0
    <2>1. /\ zeros(pad) \in Seq(0 .. 15)
          /\ Len(zeros(pad)) = (IF pad >= 0 THEN pad ELSE 0)
          /\ \A k \in 1 .. Len(zeros(pad)) : zeros(pad)[k] = 0
      BY ZerosAre
    <2> QED BY <1>a, <2>1
  <1>2. ds \in Seq(D) /\ D \subseteq Nat
    BY <1>a
  <1> HIDE DEF D, z, t
  <1>3. /\ s \in Seq(D) /\ Len(s) = m
        /\ \A k \in 1 .. m : s[k] = ds[first + k - 1]
    <2>1. \A k \in first .. n : ds[k] \in D
      BY <1>a, <1>2
    <2>2. s = [k \in 1 .. m |-> ds[first + k - 1]]
      BY <1>a, <1>2
    <2>3. m \in Nat /\ \A k \in 1 .. m : first + k - 1 \in first .. n
      BY <1>a
    <2>4. \A k \in 1 .. m : ds[first + k - 1] \in D
      BY <1>a, <2>1, <2>3
    <2> HIDE DEF m, s
    <2> QED BY <1>a, <2>2, <2>3, <2>4
  <1>4. m \in Nat /\ m >= 1 /\ first + m - 1 = n
    BY <1>a
  <1> HIDE DEF s, m
  <1>5. /\ t \in Seq(D) /\ Len(t) = z + m
        /\ \A k \in 1 .. z : t[k] = 0
        /\ \A k \in z + 1 .. z + m : t[k] = ds[first + (k - z) - 1]
    <2> DEFINE p0 == zeros(pad)
    <2>1. p0 \in Seq(D) /\ Len(p0) = z
      BY <1>a, <1>1 DEF z
    <2>2. t = p0 \o s
      BY DEF s, t
    <2> HIDE DEF p0
    <2>3. /\ t \in Seq(D) /\ Len(t) = z + m
          /\ \A k \in 1 .. z + m : t[k] = IF k <= z THEN p0[k] ELSE s[k - z]
      <3>1. /\ p0 \o s \in Seq(D) /\ Len(p0 \o s) = Len(p0) + Len(s)
            /\ \A k \in 1 .. Len(p0) + Len(s) :
                  (p0 \o s)[k] = IF k <= Len(p0) THEN p0[k] ELSE s[k - Len(p0)]
        BY <1>a, <1>3, <2>1, ConcatProperties
      <3> QED BY <1>a, <1>3, <2>1, <2>2, <3>1
    <2>4. ASSUME NEW k \in 1 .. z
          PROVE  t[k] = 0
      <3>1. k \in 1 .. z + m /\ k <= z
        BY <1>a, <1>1, <1>4
      <3> QED BY <1>a, <1>1, <2>3, <3>1 DEF p0
    <2>5. ASSUME NEW k \in z + 1 .. z + m
          PROVE  t[k] = ds[first + (k - z) - 1]
      <3>1. k \in 1 .. z + m /\ ~ (k <= z) /\ k - z \in 1 .. m
        BY <1>a, <1>1, <1>4
      <3>2. s[k - z] = ds[first + (k - z) - 1]
        BY <1>a, <1>3, <3>1
      <3> QED BY <1>a, <2>3, <3>1, <3>2
    <2> QED BY <1>a, <2>3, <2>4, <2>5
  <1> DEFINE h == [k \in 0 .. z + m |-> IF k <= z THEN 0 ELSE f[first - 1 + (k - z)]]
  <1>0. \A k \in 0 .. z + m : h[k] = IF k <= z THEN 0 ELSE f[first - 1 + (k - z)]
    BY <1>a
  <1> HIDE DEF h
  <1>6. h[0] = 0 /\ h[z + m] = f[n]
    <2>1. /\ 0 \in 0 .. z + m /\ 0 <= z /\ z + m \in 0 .. z + m /\ ~ (z + m <= z)
          /\ first - 1 + ((z + m) - z) = n
      BY <1>a, <1>1, <1>4
    <2> QED BY <1>a, <1>0, <2>1
  <1>7. ASSUME NEW k \in 1 .. z + m
        PROVE  h[k] = 16 * h[k - 1] + t[k]
    <2>1. CASE k <= z
      <3>1. k \in 1 .. z /\ k - 1 \in 0 .. z + m /\ k \in 0 .. z + m /\ k - 1 <= z
        BY <1>a, <1>1, <1>4, <2>1
      <3>2. h[k] = 0 /\ h[k - 1] = 0 /\ t[k] = 0
        BY <1>a, <1>5, <1>0, <2>1, <3>1
      <3> QED BY <1>a, <3>2
    <2>2. CASE k > z
      <3> DEFINE j == first - 1 + (k - z)
      <3>1. /\ k \in z + 1 .. z + m /\ k - 1 \in 0 .. z + m /\ k \in 0 .. z + m
            /\ j \in 1 .. n /\ j = first + (k - z) - 1
            /\ j - 1 = first - 1 + ((k - 1) - z)
        BY <1>a, <1>1, <1>4, <2>2
      <3>2. h[k] = f[j] /\ t[k] = ds[j]
        <4>1. ~ (k <= z)
          BY <1>a, <1>1, <2>2
        <4> QED BY <1>a, <1>5, <1>0, <3>1, <4>1
      <3>3. h[k - 1] = f[j - 1]
        <4>1. CASE k - 1 <= z
          <5>1. j - 1 = first - 1
            BY <1>a, <1>1, <2>2, <4>1
          <5> QED BY <1>a, <1>0, <3>1, <4>1, <5>1
        <4>2. CASE ~ (k - 1 <= z)
          BY <1>a, <1>0, <3>1, <4>2
        <4> QED BY <1>a, <4>1, <4>2
      <3> HIDE DEF j
      <3> QED BY <1>a, <1>b, <3>1, <3>2, <3>3
    <2>3. k <= z \/ k > z
      BY <1>a, <1>1, <1>4
    <2> QED BY <1>a, <2>1, <2>2, <2>3
  <1>8. ValueOf(t, 16) = f[n]
    <2>1. t \in Seq(Nat)
      <3>1. t \in Seq(0 .. 15)
        BY <1>a, <1>5 DEF D
      <3> QED BY <1>a, <3>1, DigitsAreNat
    <2>2. ValuesOf(h, t, 16) /\ 16 \in Nat
      BY <1>a, <1>5, <1>6, <1>7 DEF ValuesOf
    <2>3. ValueOf(t, 16) = h[Len(t)]
      BY <1>a, <2>1, <2>2, ValueIs
    <2> QED BY <1>a, <1>5, <1>6, <2>3
  <1>9. pad <= 0 => t[1] = ds[first]
    <2> SUFFICES ASSUME pad <= 0 PROVE t[1] = ds[first]
      OBVIOUS
    <2>1. z = 0 /\ 1 \in z + 1 .. z + m /\ first + (1 - z) - 1 = first
      BY <1>a, <1>1, <1>4
    <2> QED BY <1>a, <1>5, <2>1
  <1> QED BY <1>a, <1>1, <1>5, <1>8, <1>9 DEF D, m, Padded, t

\* %p puts all the digits of a word out, and they read back.
LEMMA PReads ==
  ASSUME NEW w \in Words
  PROVE  p(w) \in Seq(0 .. 15) /\ ValueOf(p(w), 16) = w /\ Len(p(w)) = NrDigits
  <1> DEFINE ds == nibbles(w)
  <1>1. PICK f \in [0 .. NrDigits -> Nat] :
            /\ f[0] = 0 /\ f[NrDigits] = w
            /\ \A k \in 1 .. NrDigits : f[k] = 16 * f[k - 1] + ds[k]
            /\ ds \in Seq(0 .. 15) /\ Len(ds) = NrDigits
    BY NibblesAre
  <1> HIDE DEF ds
  <1>2. ds \in Seq(Nat) /\ 16 \in Nat /\ ValuesOf(f, ds, 16)
    BY <1>1, DigitsAreNat DEF ValuesOf
  <1>3. ValueOf(ds, 16) = f[Len(ds)]
    BY <1>2, ValueIs
  <1> QED BY <1>1, <1>3 DEF p, ds

\* What %x puts out reads back, with no zero at its head that the padding did
\* not ask for.
LEMMA XReads ==
  ASSUME NEW w \in Words, NEW padding \in Nat, NEW t, t = x(w, padding)
  PROVE  /\ t \in Seq(0 .. 15) /\ ValueOf(t, 16) = w
         /\ t[1] = 0 => Len(t) <= (IF padding = 0 THEN 1 ELSE padding)
  <1> DEFINE n == NrDigits
             ds == nibbles(w)
             first == CHOOSE i \in DOMAIN ds : ds[i] # 0 /\ \A j \in 1 .. i - 1 : ds[j] = 0
  <1>1. n \in Nat /\ n >= 1
    BY PrintkAssumption
  <1>2. PICK f \in [0 .. n -> Nat] :
            /\ f[0] = 0 /\ f[n] = w
            /\ \A k \in 1 .. n : f[k] = 16 * f[k - 1] + ds[k]
            /\ ds \in Seq(0 .. 15) /\ Len(ds) = n
    BY NibblesAre
  <1>3. CASE w = 0
    <2> DEFINE pad == IF padding = 0 THEN 1 ELSE padding
    <2>1. pad \in Nat /\ pad \in Int /\ pad >= 0
      OBVIOUS
    <2>2. t = zeros(pad)
      BY <1>3 DEF x
    <2> HIDE DEF pad
    <2>3. /\ t \in Seq(0 .. 15) /\ Len(t) = pad
          /\ \A k \in 1 .. Len(t) : t[k] = 0
      <3>1. /\ zeros(pad) \in Seq(0 .. 15)
            /\ Len(zeros(pad)) = (IF pad >= 0 THEN pad ELSE 0)
            /\ \A k \in 1 .. Len(zeros(pad)) : zeros(pad)[k] = 0
        BY <2>1, ZerosAre
      <3> QED BY <2>1, <2>2, <3>1
    <2> DEFINE h == [k \in 0 .. pad |-> 0]
    <2>4. ValuesOf(h, t, 16)
      <3>1. \A k \in 1 .. pad : k - 1 \in 0 .. pad /\ k \in 0 .. pad
        BY <2>1
      <3>2. h[0] = 0 /\ \A k \in 1 .. pad : h[k] = 0 /\ h[k - 1] = 0 /\ t[k] = 0
        BY <2>1, <2>3, <3>1
      <3> HIDE DEF h
      <3>3. \A k \in 1 .. Len(t) : h[k] = 16 * h[k - 1] + t[k]
        BY <2>3, <3>2
      <3> QED BY <3>2, <3>3 DEF ValuesOf
    <2>5. t \in Seq(Nat) /\ 16 \in Nat
      BY <2>3, DigitsAreNat
    <2>6. ValueOf(t, 16) = h[Len(t)]
      <3> HIDE DEF h
      <3> QED BY <2>4, <2>5, ValueIs
    <2>7. ValueOf(t, 16) = 0
      BY <2>1, <2>3, <2>6
    <2> QED BY <1>3, <2>1, <2>3, <2>7 DEF pad
  <1>4. CASE w # 0
    <2>1. t = zeros(padding - (n - first + 1)) \o SubSeq(ds, first, n)
      BY <1>4 DEF x
    <2> HIDE DEF ds, n
    <2>2. DOMAIN ds = 1 .. n
      <3>1. ds \in Seq(0 .. 15) /\ Len(ds) = n
        BY <1>2
      <3> QED BY <3>1, LenProperties
    <2>3. \E i \in 1 .. n : ds[i] # 0
      <3> SUFFICES ASSUME \A i \in 1 .. n : ds[i] = 0 PROVE FALSE
        OBVIOUS
      <3> DEFINE T == {k \in 0 .. n : f[k] = 0}
      <3>1. 0 \in T
        BY <1>1, <1>2
      <3>2. ASSUME NEW k \in 0 .. n - 1, k \in T
            PROVE  k + 1 \in T
        <4>1. k + 1 \in 1 .. n /\ k + 1 \in 0 .. n /\ (k + 1) - 1 = k
          BY <1>1
        <4>2. f[k + 1] = 16 * f[k] + ds[k + 1] /\ f[k] = 0 /\ ds[k + 1] = 0
          BY <1>2, <3>2, <4>1
        <4> QED BY <4>1, <4>2
      <3> HIDE DEF T
      <3>3. \A k \in 0 .. n : k \in T
        BY <1>1, <3>1, <3>2, UpTo
      <3>4. f[n] = 0
        BY <1>1, <3>3 DEF T
      <3> QED BY <1>2, <1>4, <3>4
    <2>4. \E i \in DOMAIN ds : ds[i] # 0 /\ \A j \in 1 .. i - 1 : ds[j] = 0
      <3> DEFINE T == {i \in 1 .. n : ds[i] # 0}
      <3>1. T \in SUBSET Nat /\ T # {}
        BY <2>3
      <3> HIDE DEF T
      <3>2. PICK i \in T : \A j \in T : i <= j
        BY <3>1, LeastNat
      <3>3. i \in 1 .. n /\ ds[i] # 0
        BY <3>2 DEF T
      <3>4. ASSUME NEW j \in 1 .. i - 1
            PROVE  ds[j] = 0
        <4>1. j \in 1 .. n /\ ~ (i <= j)
          BY <1>1, <3>3
        <4> QED BY <3>2, <4>1 DEF T
      <3> QED BY <2>2, <3>3, <3>4
    <2>5. first \in 1 .. n /\ ds[first] # 0 /\ \A j \in 1 .. first - 1 : ds[j] = 0
      BY <2>2, <2>4
    <2> HIDE DEF first
    <2>6. f[first - 1] = 0
      <3> DEFINE m == first - 1
                 T == {k \in 0 .. n : f[k] = 0}
      <3>1. m \in Nat /\ m + 1 \in 1 .. n
        BY <1>1, <2>5
      <3>2. 0 \in T
        BY <1>1, <1>2
      <3>3. ASSUME NEW k \in 0 .. m - 1, k \in T
            PROVE  k + 1 \in T
        <4>1. /\ k + 1 \in 1 .. n /\ k + 1 \in 0 .. n /\ (k + 1) - 1 = k
              /\ k + 1 \in 1 .. first - 1
          BY <1>1, <2>5
        <4>2. f[k + 1] = 16 * f[k] + ds[k + 1] /\ f[k] = 0 /\ ds[k + 1] = 0
          BY <1>2, <2>5, <3>3, <4>1
        <4> QED BY <4>1, <4>2
      <3> HIDE DEF T, m
      <3>4. \A k \in 0 .. m : k \in T
        BY <3>1, <3>2, <3>3, UpTo
      <3>5. f[m] = 0
        BY <3>1, <3>4 DEF T
      <3> QED BY <3>5 DEF m
    <2> DEFINE pad == padding - (n - first + 1)
    <2>7. pad \in Int /\ (n - first) + 1 \in Nat /\ padding = pad + ((n - first) + 1)
      BY <1>1, <2>5
    <2>8. t = zeros(pad) \o SubSeq(ds, first, n)
      BY <2>1
    <2> HIDE DEF pad
    <2>a. Padded(t, ds, n, f, first, pad)
      <3>1. Leading(ds, n, f, first)
        BY <1>1, <1>2, <2>5, <2>6 DEF Leading
      <3>2. Padded(zeros(pad) \o SubSeq(ds, first, n), ds, n, f, first, pad)
        BY <2>7, <3>1, PaddingKeepsValue
      <3> QED BY <2>8, <3>2
    <2>9. /\ t \in Seq(0 .. 15) /\ ValueOf(t, 16) = f[n]
          /\ Len(t) = (IF pad >= 0 THEN pad ELSE 0) + ((n - first) + 1)
          /\ (pad <= 0 => t[1] = ds[first])
      BY <2>a DEF Padded
    <2>10. t[1] = 0 => Len(t) <= (IF padding = 0 THEN 1 ELSE padding)
      <3> SUFFICES ASSUME t[1] = 0
                   PROVE  Len(t) <= (IF padding = 0 THEN 1 ELSE padding)
        OBVIOUS
      <3>1. pad > 0
        BY <2>5, <2>7, <2>9
      <3>2. Len(t) = padding /\ padding > 0
        BY <2>7, <2>9, <3>1
      <3> QED BY <3>2
    <2> QED BY <1>2, <2>9, <2>10
  <1> QED BY <1>3, <1>4

\* A decimal number in its buffer, with a zero at its head only if it is 0.
Decimal(ds, v) ==
    /\ ds \in Seq(0 .. 9) /\ ValueOf(ds, 10) = v
    /\ Len(ds) <= BufSize /\ (ds[1] = 0 => Len(ds) <= 1)

\* What %u puts out.
LEMMA UReads ==
  ASSUME NEW v \in Words
  PROVE  Decimal(IF v = 0 THEN <<0>> ELSE decimal[v], v)
  <1>1. CASE v = 0
    <2>1. /\ ValueOf(<<>>, 10) = 0
          /\ ValueOf(Append(<<>>, 0), 10) = 10 * ValueOf(<<>>, 10) + 0
      <3>1. <<>> \in Seq(Nat) /\ 10 \in Nat /\ 0 \in Nat
        OBVIOUS
      <3> QED BY <3>1, ValueAppends
    <2>2. Append(<<>>, 0) = <<0>>
      OBVIOUS
    <2>3. ValueOf(<<0>>, 10) = 0
      BY <2>1, <2>2
    <2>4. BufSize >= 1
      <3>1. PICK h \in Nat : h >= 1 /\ Sixteens(NrDigits) = 2 * h
        BY WordsAre
      <3>2. Tens[0] = 1 /\ BufSize \in Nat /\ Sixteens(NrDigits) <= Tens[BufSize]
        BY TensAre, PrintkAssumption
      <3> QED BY <3>1, <3>2
    <2>5. <<0>> \in Seq(0 .. 9) /\ Len(<<0>>) = 1 /\ BufSize \in Nat
      BY PrintkAssumption
    <2> QED BY <1>1, <2>3, <2>4, <2>5 DEF Decimal
  <1>2. CASE v # 0
    <2>1. Shortest(decimal[v], v, 10) /\ Len(decimal[v]) <= BufSize
      BY <1>2, DecimalReads
    <2>2. 10 - 1 = 9
      OBVIOUS
    <2> QED BY <1>2, <2>1, <2>2 DEF Decimal, Shortest
  <1> QED BY <1>1, <1>2

\* What %d puts out, but for the smallest int.
LEMMA DReads ==
  ASSUME NEW w \in Words, NEW v, v = signed(w)
  PROVE  /\ v \in Int
         /\ v < 0 => d(v).negative = TRUE
         /\ ~ (v < 0) => d(v).negative = FALSE
         /\ v # INT_MIN => Decimal(d(v).digits, IF v < 0 THEN -v ELSE v)
  <1>1. PICK h \in Nat : /\ h >= 1 /\ Sixteens(NrDigits) = 2 * h /\ INT_MIN = -h
                         /\ Words = 0 .. 2 * h - 1
    BY WordsAre
  <1>2. v \in -h .. h - 1
    BY <1>1 DEF signed
  <1> DEFINE a == IF v < 0 THEN -v ELSE v
             ds == d(v).digits
  <1>3. v # INT_MIN => a \in Words /\ (a = 0 <=> v = 0)
    BY <1>1, <1>2
  <1>4. v # INT_MIN => ds = IF a = 0 THEN <<0>> ELSE decimal[a]
    BY <1>2, <1>3 DEF d, negate
  <1>5. v # INT_MIN => Decimal(ds, a)
    <2> HIDE DEF a, ds
    <2> QED BY <1>3, <1>4, UReads
  <1>6. v < 0 => d(v).negative = TRUE
    BY Zenon DEF d
  <1>7. ~ (v < 0) => d(v).negative = FALSE
    <2>1. d(v).negative = (v < 0)
      BY Zenon DEF d
    <2>2. ~ (v < 0) => (v < 0) = FALSE
      BY <1>2
    <2> QED BY <2>1, <2>2
  <1> QED BY <1>2, <1>5, <1>6, <1>7

\* What is said of the last conversion.
Reads(c) ==
    LET ds == c.digits
        base == IF c.conv \in {"d", "u"} THEN 10 ELSE 16
        value == IF c.negative THEN -ValueOf(ds, base) ELSE ValueOf(ds, base)
    IN  ~ (c.conv = "d" /\ c.arg = INT_MIN) =>
            /\ \A i \in DOMAIN ds : ds[i] \in 0 .. base - 1
            /\ value = c.arg
            /\ c.conv \in {"d", "u"} => Len(ds) <= BufSize
            /\ c.conv = "p" => Len(ds) = NrDigits
            /\ c.conv # "p" /\ ds[1] = 0 =>
                  Len(ds) <= (IF c.pad = 0 THEN 1 ELSE c.pad)

\* Every conversion reads back.
LEMMA ConversionReads ==
  ASSUME NEW conv \in {"d", "u", "x", "X", "p"}, NEW w \in Words, NEW pad \in Nat,
         convert(conv, w, pad)
  PROVE  Reads(last')
  <1>1. CASE conv = "d"
    <2> DEFINE v == signed(w)
               ds == d(v).digits
               neg == d(v).negative
    <2>1. last' = [conv |-> "d", arg |-> v, pad |-> pad, negative |-> neg, digits |-> ds]
      BY <1>1 DEF convert, Shown
    <2>2. /\ v \in Int /\ (v < 0 => neg = TRUE) /\ (~ (v < 0) => neg = FALSE)
          /\ v # INT_MIN => Decimal(ds, IF v < 0 THEN -v ELSE v)
      BY DReads
    <2> HIDE DEF v, ds, neg
    <2>3. CASE v = INT_MIN
      BY <2>1, <2>3 DEF Reads
    <2>4. CASE v # INT_MIN
      <3>1. /\ ds \in Seq(0 .. 9) /\ ValueOf(ds, 10) = (IF v < 0 THEN -v ELSE v)
            /\ Len(ds) <= BufSize /\ (ds[1] = 0 => Len(ds) <= 1)
        BY <2>2, <2>4 DEF Decimal
      <3>2. \A i \in DOMAIN ds : ds[i] \in 0 .. 10 - 1
        BY <3>1
      <3>3. (IF neg THEN -ValueOf(ds, 10) ELSE ValueOf(ds, 10)) = v
        <4>1. CASE v < 0
          <5>1. neg = TRUE /\ -(-v) = v
            BY <2>2, <4>1
          <5> QED BY <3>1, <4>1, <5>1
        <4>2. CASE ~ (v < 0)
          <5>1. neg = FALSE
            BY <2>2, <4>2
          <5> QED BY <3>1, <4>2, <5>1
        <4> QED BY <4>1, <4>2
      <3>4. ds[1] = 0 => Len(ds) <= (IF pad = 0 THEN 1 ELSE pad)
        <4>1. Len(ds) \in Nat
          BY <3>1
        <4> QED BY <3>1, <4>1
      <3> QED BY <2>1, <3>1, <3>2, <3>3, <3>4 DEF Reads
    <2> QED BY <2>3, <2>4
  <1>2. CASE conv = "u"
    <2> DEFINE ds == u(w)
    <2>1. last' = [conv |-> "u", arg |-> w, pad |-> pad, negative |-> FALSE, digits |-> ds]
      BY <1>2 DEF convert, Shown
    <2>2. /\ ds \in Seq(0 .. 9) /\ ValueOf(ds, 10) = w
          /\ Len(ds) <= BufSize /\ (ds[1] = 0 => Len(ds) <= 1)
      <3>1. Decimal(IF w = 0 THEN <<0>> ELSE decimal[w], w)
        BY UReads
      <3> QED BY <3>1 DEF Decimal, u
    <2> HIDE DEF ds
    <2>3. \A i \in DOMAIN ds : ds[i] \in 0 .. 10 - 1
      BY <2>2
    <2>4. ds[1] = 0 => Len(ds) <= (IF pad = 0 THEN 1 ELSE pad)
      <3>1. Len(ds) \in Nat
        BY <2>2
      <3> QED BY <2>2, <3>1
    <2> QED BY <2>1, <2>2, <2>3, <2>4 DEF Reads
  <1>3. CASE conv \in {"x", "X"}
    <2> DEFINE ds == x(w, pad)
    <2>1. last' = [conv |-> conv, arg |-> w, pad |-> pad, negative |-> FALSE, digits |-> ds]
      BY <1>3 DEF convert, Shown
    <2>2. /\ ds \in Seq(0 .. 15) /\ ValueOf(ds, 16) = w
          /\ ds[1] = 0 => Len(ds) <= (IF pad = 0 THEN 1 ELSE pad)
      BY XReads
    <2> HIDE DEF ds
    <2>3. \A i \in DOMAIN ds : ds[i] \in 0 .. 16 - 1
      BY <2>2
    <2> QED BY <1>3, <2>1, <2>2, <2>3 DEF Reads
  <1>4. CASE conv = "p"
    <2> DEFINE ds == p(w)
    <2>1. last' = [conv |-> "p", arg |-> w, pad |-> pad, negative |-> FALSE, digits |-> ds]
      BY <1>4 DEF convert, Shown
    <2>2. ds \in Seq(0 .. 15) /\ ValueOf(ds, 16) = w /\ Len(ds) = NrDigits
      BY PReads
    <2> HIDE DEF ds
    <2>3. \A i \in DOMAIN ds : ds[i] \in 0 .. 16 - 1
      BY <2>2
    <2> QED BY <2>1, <2>2, <2>3 DEF Reads
  <1> QED BY <1>1, <1>2, <1>3, <1>4

\* A step of printk leaves the last conversion alone, or makes a right one.
LEMMA ReadsStep == ReadsBack /\ [printk]_printkVars => ReadsBack'
  <1> SUFFICES ASSUME ReadsBack, [printk]_printkVars PROVE ReadsBack'
    OBVIOUS
  <1>1. CASE last' = last
    BY <1>1 DEF ReadsBack
  <1>2. CASE number
    <2> DEFINE padded == fmt[2] = "x" /\ Len(fmt) >= 3 /\ IS_NUM(fmt[3])
               pad == IF padded THEN Digit[fmt[3]] ELSE 0
    <2>1. PICK w \in Words : convert(fmt[2], w, pad)
      BY <1>2 DEF number
    <2>2. fmt[2] \in {"d", "u", "x", "X", "p"}
      BY <1>2 DEF number, Converts
    <2>3. pad \in Nat
      BY DEF IS_NUM, Digit
    <2> HIDE DEF pad
    <2>4. Reads(last')
      BY <2>1, <2>2, <2>3, ConversionReads
    <2> QED BY <2>4 DEF Reads, ReadsBack
  <1> QED BY <1>1, <1>2 DEF printk, string, character, return, printkVars

\* Whatever a format asks for: the digits that a conversion puts out are those
\* of its argument, as many as needed, and they fit in the buffer; the smallest
\* int is the exception.
THEOREM PrintkReadsBack == PrintkSpec => []ReadsBack
  <1>1. PrintkInit => ReadsBack
    BY DEF PrintkInit, ReadsBack
  <1> QED BY <1>1, ReadsStep, PTL DEF PrintkSpec

-----------------------------------------------------------------------------
(* The string functions: what the loops leave in memory                    *)

Memories == [Where -> Chars]

\* The round k of a copy.
CopyRound(h, dst, src, k) == [h EXCEPT ![dst + k - 1] = h[src + k - 1]]

\* f is the memory after each round of a copy of n bytes.
Rounds(f, m, dst, src, n) ==
    /\ f \in [0 .. n -> Memories] /\ f[0] = m
    /\ \A k \in 1 .. n : f[k] = CopyRound(f[k - 1], dst, src, k)
    /\ copied(m, dst, src, n) = f[n]

\* A copy comes to its end, round by round.
LEMMA CopyRuns ==
  ASSUME NEW m \in Memories, NEW dst \in Nat, NEW src \in Nat, NEW count \in Nat,
         Inside(dst, count), Inside(src, count)
  PROVE  \E f : Rounds(f, m, dst, src, count)
  <1> DEFINE S == 0 .. count
             body(f, k) == IF k = 0 THEN m
                           ELSE [f[k - 1] EXCEPT ![dst + k - 1] = f[k - 1][src + k - 1]]
             at == CHOOSE f : f = [k \in S |-> body(f, k)]
             M == Memories
             round == [r \in Nat \X M |->
                         IF r[1] \in 1 .. count THEN CopyRound(r[2], dst, src, r[1]) ELSE r[2]]
  <1>1. copied(m, dst, src, count) = at[count]
    BY DEF copied
  <1>2. ASSUME NEW h \in M, NEW k \in 1 .. count
        PROVE  CopyRound(h, dst, src, k) \in M
    <2>1. src + k - 1 \in Where
      BY StringsAssumption DEF Inside, Where
    <2>2. h \in [Where -> Chars] /\ h[src + k - 1] \in Chars
      BY <2>1 DEF Memories
    <2> QED BY <2>2 DEF CopyRound, Memories
  <1>3. round \in [Nat \X M -> M]
    <2>1. ASSUME NEW r \in Nat \X M
          PROVE  (IF r[1] \in 1 .. count THEN CopyRound(r[2], dst, src, r[1]) ELSE r[2]) \in M
      <3>1. r[1] \in Nat /\ r[2] \in M
        OBVIOUS
      <3> HIDE DEF M
      <3> QED BY <1>2, <3>1
    <2> QED BY <2>1
  <1> HIDE DEF M
  <1>4. PICK f \in [0 .. count -> M] : Iterates(f, m, round, count)
    <2>1. m \in M
      BY DEF M
    <2> HIDE DEF round
    <2> QED BY <1>3, <2>1, LoopRuns
  <1>5. \A k \in S : f[k] = body(f, k)
    <2> SUFFICES ASSUME NEW k \in S PROVE f[k] = body(f, k)
      OBVIOUS
    <2>1. CASE k = 0
      BY <1>4, <2>1 DEF Iterates
    <2>2. CASE k # 0
      <3>1. k \in 1 .. count /\ k - 1 \in 0 .. count /\ k \in Nat
        BY <2>2
      <3>2. f[k] = round[<<k, f[k - 1]>>] /\ f[k - 1] \in M
        BY <1>4, <3>1 DEF Iterates
      <3>3. round[<<k, f[k - 1]>>] = CopyRound(f[k - 1], dst, src, k)
        BY <3>1, <3>2
      <3> QED BY <2>2, <3>2, <3>3 DEF CopyRound
    <2> QED BY <2>1, <2>2
  <1> HIDE DEF round
  <1>6. at = [k \in S |-> body(at, k)]
    <2> HIDE DEF body
    <2>1. \E h : h = [k \in S |-> body(h, k)]
      BY <1>4, <1>5
    <2> QED BY <2>1
  <1> HIDE DEF at
  <1>7. DOMAIN at = S /\ \A k \in S : at[k] = body(at, k)
    <2> HIDE DEF body
    <2> QED BY <1>6
  <1> DEFINE T == {k \in S : at[k] = f[k]}
  <1>8. \A k \in 0 .. count : k \in T
    <2>1. 0 \in T
      BY <1>5, <1>7
    <2>2. ASSUME NEW k \in 0 .. count - 1, k \in T
          PROVE  k + 1 \in T
      <3>1. k + 1 \in S /\ k + 1 # 0 /\ (k + 1) - 1 = k
        OBVIOUS
      <3>2. at[k] = f[k]
        BY <2>2
      <3> QED BY <1>5, <1>7, <3>1, <3>2
    <2> HIDE DEF T
    <2> QED BY <2>1, <2>2, UpTo
  <1>9. at[count] = f[count]
    BY <1>8
  <1>10. f[0] = m
    BY <1>4 DEF Iterates
  <1>11. ASSUME NEW k \in 1 .. count
         PROVE  f[k] = CopyRound(f[k - 1], dst, src, k)
    <2>1. k \in S /\ k # 0
      OBVIOUS
    <2> QED BY <1>5, <2>1 DEF CopyRound
  <1>12. f \in [0 .. count -> Memories]
    BY <1>4 DEF M
  <1> QED BY <1>1, <1>9, <1>10, <1>11, <1>12 DEF Rounds

\* A copy of n bytes of m turned it into o: what is outside the target stayed,
\* and unless the regions overlap the wrong way the target has got what was at
\* the source before.
CopyDone(o, m, dst, src, n) ==
    /\ o \in Memories
    /\ \A a \in Where : a \notin dst .. dst + n - 1 => o[a] = m[a]
    /\ ~ Clash(dst, src, n) => \A i \in 0 .. n - 1 : o[dst + i] = m[src + i]

\* What the rounds of a copy come to.
LEMMA CopiedIs ==
  ASSUME NEW m \in Memories, NEW dst \in Nat, NEW src \in Nat, NEW count \in Nat,
         Inside(dst, count), Inside(src, count)
  PROVE  CopyDone(copied(m, dst, src, count), m, dst, src, count)
  <1> PICK f : Rounds(f, m, dst, src, count)
    BY CopyRuns
  <1>1. /\ f \in [0 .. count -> Memories] /\ f[0] = m
        /\ \A k \in 1 .. count : f[k] = CopyRound(f[k - 1], dst, src, k)
        /\ copied(m, dst, src, count) = f[count]
    BY DEF Rounds
  <1>2. MemSize \in Nat /\ dst + count <= MemSize /\ src + count <= MemSize
    BY StringsAssumption DEF Inside
  <1>3. ASSUME NEW k \in 0 .. count - 1
        PROVE  /\ f[k] \in [Where -> Chars] /\ dst + k \in Where /\ src + k \in Where
               /\ f[k + 1] = [f[k] EXCEPT ![dst + k] = f[k][src + k]]
    <2>1. k + 1 \in 1 .. count /\ (k + 1) - 1 = k /\ k \in 0 .. count
      OBVIOUS
    <2>2. f[k + 1] = CopyRound(f[k], dst, src, k + 1)
      BY <1>1, <2>1
    <2>3. dst + (k + 1) - 1 = dst + k /\ src + (k + 1) - 1 = src + k
      OBVIOUS
    <2>4. dst + k \in Where /\ src + k \in Where
      BY <1>2 DEF Where
    <2> QED BY <1>1, <2>1, <2>2, <2>3, <2>4 DEF CopyRound, Memories
  <1> DEFINE T == {k \in 0 .. count :
                     /\ \A a \in Where : a \notin dst .. dst + k - 1 => f[k][a] = m[a]
                     /\ ~ Clash(dst, src, count) =>
                           \A i \in 0 .. k - 1 : f[k][dst + i] = m[src + i]}
  <1>4. \A k \in 0 .. count : k \in T
    <2>1. 0 \in T
      BY <1>1
    <2>2. ASSUME NEW k \in 0 .. count - 1, k \in T
          PROVE  k + 1 \in T
      <3>1. /\ f[k] \in [Where -> Chars] /\ dst + k \in Where /\ src + k \in Where
            /\ f[k + 1] = [f[k] EXCEPT ![dst + k] = f[k][src + k]]
        BY <1>3
      <3>2. /\ \A a \in Where : a \notin dst .. dst + k - 1 => f[k][a] = m[a]
            /\ ~ Clash(dst, src, count) => \A i \in 0 .. k - 1 : f[k][dst + i] = m[src + i]
        BY <2>2
      <3>3. ASSUME NEW a \in Where, a \notin dst .. dst + (k + 1) - 1
            PROVE  f[k + 1][a] = m[a]
        <4>1. a # dst + k /\ a \notin dst .. dst + k - 1
          BY <3>3 DEF Where
        <4> QED BY <3>1, <3>2, <4>1
      <3>4. ASSUME ~ Clash(dst, src, count), NEW i \in 0 .. (k + 1) - 1
            PROVE  f[k + 1][dst + i] = m[src + i]
        <4>1. dst + i \in Where
          BY <1>2 DEF Where
        <4>2. CASE i = k
          <5>1. src + k \notin dst .. dst + k - 1
            BY <3>4 DEF Clash
          <5>2. f[k][src + k] = m[src + k]
            BY <3>1, <3>2, <5>1
          <5> QED BY <3>1, <4>1, <4>2, <5>2
        <4>3. CASE i # k
          <5>1. i \in 0 .. k - 1 /\ dst + i # dst + k
            BY <4>3
          <5> QED BY <3>1, <3>2, <3>4, <4>1, <5>1
        <4> QED BY <4>2, <4>3
      <3>5. k + 1 \in 0 .. count
        OBVIOUS
      <3> QED BY <3>3, <3>4, <3>5
    <2> HIDE DEF T
    <2> QED BY <2>1, <2>2, UpTo
  <1> HIDE DEF T
  <1>5. count \in T
    BY <1>4
  <1>6. f[count] \in Memories
    BY <1>1
  <1> QED BY <1>1, <1>5, <1>6 DEF CopyDone, T

-----------------------------------------------------------------------------
(* The string functions: strings                                           *)

\* The string at s in memory m has n characters.
HasLength(m, s, n) ==
    /\ n \in Nat /\ s + n \in Where /\ m[s + n] = Terminator
    /\ \A i \in 0 .. n - 1 : m[s + i] # Terminator

\* Where a Terminator comes there is a string.
LEMMA StringEnds ==
  ASSUME NEW m, NEW s \in Where, Nuls(m, s) # {}
  PROVE  HasLength(m, s, EndOf(m, s) - s)
  <1> DEFINE T == Nuls(m, s)
             e == EndOf(m, s)
  <1>1. MemSize \in Nat /\ s \in Nat
    BY StringsAssumption DEF Where
  <1>2. T = {a \in s .. MemSize - 1 : m[a] = Terminator}
    BY DEF Nuls
  <1>3. \E a \in T : \A b \in T : a <= b
    <2>1. T \in SUBSET Nat /\ T # {}
      BY <1>1, <1>2
    <2> HIDE DEF T
    <2> QED BY <2>1, LeastNat
  <1>4. e \in T /\ \A b \in T : e <= b
    <2>1. e = CHOOSE a \in T : \A b \in T : a <= b
      BY DEF EndOf, Min
    <2> HIDE DEF T, e
    <2> QED BY <1>3, <2>1
  <1> HIDE DEF T, e
  <1>5. e \in s .. MemSize - 1 /\ m[e] = Terminator
    BY <1>2, <1>4
  <1>6. e - s \in Nat /\ s + (e - s) = e /\ e \in Where
    BY <1>1, <1>5 DEF Where
  <1>7. ASSUME NEW i \in 0 .. (e - s) - 1
        PROVE  m[s + i] # Terminator
    <2>1. s + i \in s .. MemSize - 1 /\ ~ (e <= s + i)
      BY <1>1, <1>5
    <2> QED BY <1>2, <1>4, <2>1
  <1> QED BY <1>5, <1>6, <1>7 DEF HasLength, e

\* The string in memory is what its length says.
LEMMA StringIs ==
  ASSUME NEW m, NEW s \in Where, NEW n, HasLength(m, s, n)
  PROVE  /\ Nuls(m, s) # {} /\ EndOf(m, s) = s + n
         /\ StringAt(m, s) = [i \in 1 .. n |-> m[s + i - 1]]
  <1> DEFINE T == Nuls(m, s)
             e == EndOf(m, s)
  <1>1. MemSize \in Nat /\ s \in Nat /\ n \in Nat /\ s + n \in Where /\ m[s + n] = Terminator
    BY StringsAssumption DEF Where, HasLength
  <1>2. T = {a \in s .. MemSize - 1 : m[a] = Terminator}
    BY DEF Nuls
  <1>3. s + n \in T
    BY <1>1, <1>2 DEF Where
  <1>4. \A a \in T : s + n <= a
    <2> SUFFICES ASSUME NEW a \in T, ~ (s + n <= a)
                 PROVE  FALSE
      OBVIOUS
    <2>1. a \in s .. MemSize - 1 /\ m[a] = Terminator
      BY <1>2
    <2>2. a - s \in 0 .. n - 1 /\ s + (a - s) = a
      BY <1>1, <2>1
    <2>3. m[s + (a - s)] # Terminator
      BY <2>2 DEF HasLength
    <2> QED BY <2>1, <2>2, <2>3
  <1>5. T \subseteq Int
    BY <1>1, <1>2
  <1>6. e = s + n
    <2>1. e = CHOOSE a \in T : \A b \in T : a <= b
      BY DEF EndOf, Min
    <2> HIDE DEF T, e
    <2>2. e \in T /\ \A b \in T : e <= b
      BY <1>3, <1>4, <2>1
    <2>3. e <= s + n /\ s + n <= e /\ e \in Int
      BY <1>3, <1>4, <1>5, <2>2
    <2> QED BY <1>1, <2>3
  <1>7. e - s = n
    BY <1>1, <1>6
  <1> HIDE DEF e
  <1>8. StringAt(m, s) = [i \in 1 .. n |-> m[s + i - 1]]
    BY <1>7 DEF StringAt, e
  <1> QED BY <1>3, <1>6, <1>8 DEF e

\* Where a Terminator comes, the length of the string is where.
LEMMA StringThere ==
  ASSUME NEW m, NEW s \in Where, Nuls(m, s) # {}
  PROVE  \E n \in Nat : /\ HasLength(m, s, n) /\ EndOf(m, s) = s + n
                        /\ StringAt(m, s) = [i \in 1 .. n |-> m[s + i - 1]]
  <1>1. HasLength(m, s, EndOf(m, s) - s)
    BY StringEnds
  <1>2. EndOf(m, s) - s \in Nat
    BY <1>1 DEF HasLength
  <1> QED BY <1>1, <1>2, StringIs

\* Len of a string.
LEMMA StringLength ==
  ASSUME NEW m \in Memories, NEW s \in Where, NEW n, HasLength(m, s, n)
  PROVE  /\ StringAt(m, s) \in Seq(Chars) /\ Len(StringAt(m, s)) = n
         /\ \A i \in 1 .. n : StringAt(m, s)[i] = m[s + i - 1]
  <1>1. n \in Nat /\ s \in Nat /\ s + n \in Where /\ MemSize \in Nat
    BY StringsAssumption DEF HasLength, Where
  <1>2. StringAt(m, s) = [i \in 1 .. n |-> m[s + i - 1]]
    BY StringIs
  <1>3. \A i \in 1 .. n : m[s + i - 1] \in Chars
    <2> SUFFICES ASSUME NEW i \in 1 .. n PROVE m[s + i - 1] \in Chars
      OBVIOUS
    <2>1. s + i - 1 \in Where
      BY <1>1 DEF Where
    <2> QED BY <2>1 DEF Memories
  <1> QED BY <1>1, <1>2, <1>3

\* Two strings are the same if they are as long and hold the same characters.
LEMMA SameString ==
  ASSUME NEW m \in Memories, NEW s \in Where, NEW o \in Memories, NEW t \in Where,
         NEW n, HasLength(m, s, n), HasLength(o, t, n),
         \A i \in 0 .. n - 1 : m[s + i] = o[t + i]
  PROVE  StringAt(m, s) = StringAt(o, t)
  <1>1. n \in Nat /\ s \in Nat /\ t \in Nat
    BY DEF HasLength, Where
  <1>2. /\ StringAt(m, s) = [i \in 1 .. n |-> m[s + i - 1]]
        /\ StringAt(o, t) = [i \in 1 .. n |-> o[t + i - 1]]
    BY StringIs
  <1>3. ASSUME NEW i \in 1 .. n
        PROVE  m[s + i - 1] = o[t + i - 1]
    <2>1. i - 1 \in 0 .. n - 1 /\ s + (i - 1) = s + i - 1 /\ t + (i - 1) = t + i - 1
      BY <1>1
    <2>2. m[s + (i - 1)] = o[t + (i - 1)]
      BY <2>1
    <2> QED BY <2>1, <2>2
  <1> QED BY <1>2, <1>3

\* A string followed in memory by another, without the Terminator between them.
LEMMA JoinedString ==
  ASSUME NEW m \in Memories, NEW o \in Memories, NEW s \in Where, NEW t \in Where,
         NEW k, NEW n, HasLength(m, s, k), HasLength(m, t, n),
         HasLength(o, s, k + n),
         \A i \in 0 .. k - 1 : o[s + i] = m[s + i],
         \A i \in 0 .. n - 1 : o[s + k + i] = m[t + i]
  PROVE  StringAt(o, s) = StringAt(m, s) \o StringAt(m, t)
  <1> DEFINE a == StringAt(m, s)
             b == StringAt(m, t)
             c == StringAt(o, s)
             ab == a \o b
  <1>1. k \in Nat /\ n \in Nat /\ k + n \in Nat /\ s \in Nat /\ t \in Nat
    BY DEF HasLength, Where
  <1>2. /\ a \in Seq(Chars) /\ Len(a) = k /\ \A i \in 1 .. k : a[i] = m[s + i - 1]
        /\ b \in Seq(Chars) /\ Len(b) = n /\ \A i \in 1 .. n : b[i] = m[t + i - 1]
        /\ c \in Seq(Chars) /\ Len(c) = k + n
        /\ \A i \in 1 .. k + n : c[i] = o[s + i - 1]
    BY StringLength
  <1> HIDE DEF a, b, c
  <1>3. /\ ab \in Seq(Chars) /\ Len(ab) = Len(a) + Len(b)
        /\ \A i \in 1 .. Len(a) + Len(b) :
              ab[i] = IF i <= Len(a) THEN a[i] ELSE b[i - Len(a)]
    BY <1>2, ConcatProperties
  <1> HIDE DEF ab
  <1>4. ASSUME NEW i \in 1 .. Len(c)
        PROVE  c[i] = ab[i]
    <2>1. i \in 1 .. k + n /\ c[i] = o[s + i - 1]
      BY <1>2
    <2>2. CASE i <= k
      <3>1. i - 1 \in 0 .. k - 1 /\ s + (i - 1) = s + i - 1 /\ i \in 1 .. k
        BY <1>1, <2>1, <2>2
      <3>2. o[s + (i - 1)] = m[s + (i - 1)]
        BY <3>1
      <3>3. ab[i] = a[i]
        BY <1>2, <1>3, <2>1, <2>2
      <3> QED BY <1>2, <2>1, <3>1, <3>2, <3>3
    <2>3. CASE ~ (i <= k)
      <3>1. /\ i - k - 1 \in 0 .. n - 1 /\ s + k + (i - k - 1) = s + i - 1
            /\ t + (i - k - 1) = t + (i - k) - 1 /\ i - k \in 1 .. n
        <4>1. i \in Int /\ k < i /\ i <= k + n
          BY <1>1, <2>1, <2>3
        <4> QED BY <1>1, <4>1
      <3>2. o[s + k + (i - k - 1)] = m[t + (i - k - 1)]
        BY <3>1
      <3>3. ab[i] = b[i - k]
        BY <1>2, <1>3, <2>1, <2>3
      <3> QED BY <1>2, <2>1, <3>1, <3>2, <3>3
    <2> QED BY <2>2, <2>3
  <1>5. Len(c) = Len(ab)
    BY <1>2, <1>3
  <1>6. c = ab
    BY <1>2, <1>3, <1>4, <1>5, SeqEqual
  <1> QED BY <1>6 DEF a, b, c, ab

-----------------------------------------------------------------------------
(* The string functions: copies of strings                                 *)

\* What strcpy and strcat leave at dst is the string at src; in front of dst
\* nothing changes.
LEMMA TerminatedIs ==
  ASSUME NEW m \in Memories, NEW dst \in Where, NEW src \in Where, NEW n,
         HasLength(m, src, n), Inside(dst, n + 1), dst \notin src + 1 .. src + n
  PROVE  LET after == terminated_copy(m, dst, src)
         IN  /\ after \in Memories /\ HasLength(after, dst, n)
             /\ \A i \in 0 .. n - 1 : after[dst + i] = m[src + i]
             /\ \A a \in Where : a < dst => after[a] = m[a]
  <1> DEFINE c == copied(m, dst, src, n)
             after == terminated_copy(m, dst, src)
  <1>1. /\ n \in Nat /\ dst \in Nat /\ src \in Nat /\ MemSize \in Nat
        /\ dst + n + 1 <= MemSize /\ src + n <= MemSize - 1 /\ m[src + n] = Terminator
        /\ \A i \in 0 .. n - 1 : m[src + i] # Terminator
    BY StringsAssumption DEF HasLength, Where, Inside
  <1>2. EndOf(m, src) - src = n
    BY <1>1, StringIs
  <1>3. after = [c EXCEPT ![dst + n] = Terminator]
    BY <1>2 DEF terminated_copy
  <1>4. Inside(dst, n) /\ Inside(src, n) /\ ~ Clash(dst, src, n)
    BY <1>1 DEF Inside, Clash
  <1>5. /\ c \in Memories
        /\ \A a \in Where : a \notin dst .. dst + n - 1 => c[a] = m[a]
        /\ \A i \in 0 .. n - 1 : c[dst + i] = m[src + i]
    <2>1. CopyDone(c, m, dst, src, n)
      BY <1>1, <1>4, CopiedIs
    <2> QED BY <1>4, <2>1 DEF CopyDone
  <1> HIDE DEF c, after
  <1>6. c \in [Where -> Chars] /\ Terminator \in Chars /\ dst + n \in Where
    BY <1>1, <1>5, StringsAssumption DEF Memories, Where
  <1>7. /\ after \in [Where -> Chars] /\ after[dst + n] = Terminator
        /\ \A a \in Where : a # dst + n => after[a] = c[a]
    BY <1>3, <1>6
  <1>8. ASSUME NEW i \in 0 .. n - 1
        PROVE  after[dst + i] = m[src + i]
    <2>1. dst + i \in Where /\ dst + i # dst + n
      BY <1>1 DEF Where
    <2> QED BY <1>5, <1>7, <2>1
  <1>9. ASSUME NEW a \in Where, a < dst
        PROVE  after[a] = m[a]
    <2>1. a # dst + n /\ a \notin dst .. dst + n - 1
      BY <1>1, <1>9 DEF Where
    <2> QED BY <1>5, <1>7, <2>1
  <1>10. HasLength(after, dst, n)
    BY <1>1, <1>6, <1>7, <1>8 DEF HasLength
  <1>11. after \in Memories
    BY <1>7 DEF Memories
  <1> QED BY <1>8, <1>9, <1>10, <1>11 DEF after

\* The string that ends at e, followed by another one there.
LEMMA AppendedString ==
  ASSUME NEW m \in Memories, NEW o \in Memories, NEW s \in Where, NEW t \in Where,
         NEW k, NEW n, HasLength(m, s, k), HasLength(m, t, n), HasLength(o, s + k, n),
         \A a \in Where : a < s + k => o[a] = m[a],
         \A i \in 0 .. n - 1 : o[s + k + i] = m[t + i]
  PROVE  StringAt(o, s) = StringAt(m, s) \o StringAt(m, t)
  <1>1. /\ k \in Nat /\ n \in Nat /\ s \in Nat /\ t \in Nat /\ s + k \in Where
        /\ (s + k) + n \in Where /\ o[(s + k) + n] = Terminator /\ MemSize \in Nat
    BY StringsAssumption DEF HasLength, Where
  <1>2. ASSUME NEW i \in 0 .. k - 1
        PROVE  o[s + i] = m[s + i] /\ m[s + i] # Terminator
    <2>1. s + i \in Where /\ s + i < s + k
      BY <1>1 DEF Where
    <2> QED BY <2>1 DEF HasLength
  <1>3. HasLength(o, s, k + n)
    <2>1. k + n \in Nat /\ s + (k + n) = (s + k) + n
      BY <1>1
    <2>2. ASSUME NEW i \in 0 .. (k + n) - 1
          PROVE  o[s + i] # Terminator
      <3>1. CASE i < k
        <4>1. i \in 0 .. k - 1
          BY <1>1, <3>1
        <4> QED BY <1>2, <4>1
      <3>2. CASE ~ (i < k)
        <4>1. i - k \in 0 .. n - 1 /\ (s + k) + (i - k) = s + i
          BY <1>1, <3>2
        <4>2. o[(s + k) + (i - k)] # Terminator
          BY <4>1 DEF HasLength
        <4> QED BY <4>1, <4>2
      <3> QED BY <3>1, <3>2
    <2> QED BY <1>1, <2>1, <2>2 DEF HasLength
  <1> QED BY <1>2, <1>3, JoinedString

\* A region the copy of which does not reach over it is copied as it was.
LEMMA CopyIsRight ==
  ASSUME mem \in Memories, NEW dst \in Where, NEW src \in Where,
         NEW n \in 0 .. MemSize, Inside(dst, n), Inside(src, n), ~ Clash(dst, src, n)
  PROVE  \A a \in Where :
            copied(mem, dst, src, n)[a] =
               IF a \in dst .. dst + n - 1 THEN mem[src + a - dst] ELSE mem[a]
  <1> DEFINE c == copied(mem, dst, src, n)
  <1>1. n \in Nat /\ dst \in Nat /\ src \in Nat
    BY StringsAssumption DEF Where
  <1>2. /\ \A a \in Where : a \notin dst .. dst + n - 1 => c[a] = mem[a]
        /\ \A i \in 0 .. n - 1 : c[dst + i] = mem[src + i]
    <2>1. CopyDone(c, mem, dst, src, n)
      BY <1>1, CopiedIs
    <2> QED BY <2>1 DEF CopyDone
  <1> HIDE DEF c
  <1>3. ASSUME NEW a \in Where, a \in dst .. dst + n - 1
        PROVE  c[a] = mem[src + a - dst]
    <2>1. a - dst \in 0 .. n - 1 /\ dst + (a - dst) = a /\ src + (a - dst) = src + a - dst
      BY <1>1, <1>3
    <2>2. c[dst + (a - dst)] = mem[src + (a - dst)]
      BY <1>2, <2>1
    <2> QED BY <2>1, <2>2
  <1> QED BY <1>2, <1>3 DEF c

LEMMA StrcpyIsRight ==
  ASSUME mem \in Memories, NEW dst \in Where, NEW src \in Where, Copyable(dst, src)
  PROVE  /\ terminated_copy(mem, dst, src) \in Memories
         /\ StringAt(terminated_copy(mem, dst, src), dst) = StringAt(mem, src)
  <1> DEFINE m == mem
             after == terminated_copy(m, dst, src)
  <1>1. PICK n \in Nat : HasLength(m, src, n) /\ EndOf(m, src) = src + n
    <2>1. Nuls(m, src) # {}
      BY DEF Copyable
    <2> QED BY <2>1, StringThere
  <1>2. src \in Nat
    BY DEF Where
  <1>3. Inside(dst, n + 1) /\ dst \notin src + 1 .. src + n
    <2>1. EndOf(m, src) - src + 1 = n + 1
      BY <1>1, <1>2
    <2> QED BY <1>1, <2>1 DEF Copyable
  <1>4. m \in Memories
    OBVIOUS
  <1> HIDE DEF m
  <1>5. /\ after \in Memories /\ HasLength(after, dst, n)
        /\ \A i \in 0 .. n - 1 : after[dst + i] = m[src + i]
    BY <1>1, <1>3, <1>4, TerminatedIs
  <1> HIDE DEF after
  <1>6. StringAt(after, dst) = StringAt(m, src)
    BY <1>1, <1>4, <1>5, SameString
  <1> QED BY <1>5, <1>6 DEF after, m

LEMMA StrcatIsRight ==
  ASSUME mem \in Memories, NEW dst \in Where, NEW src \in Where,
         Nuls(mem, dst) # {}, Copyable(EndOf(mem, dst), src)
  PROVE  LET after == terminated_copy(mem, EndOf(mem, dst), src)
         IN  /\ after \in Memories
             /\ StringAt(after, dst) = StringAt(mem, dst) \o StringAt(mem, src)
  <1> DEFINE m == mem
             e == EndOf(m, dst)
             after == terminated_copy(m, e, src)
  <1>1. PICK k \in Nat : HasLength(m, dst, k) /\ EndOf(m, dst) = dst + k
    BY StringThere
  <1>2. PICK n \in Nat : HasLength(m, src, n) /\ EndOf(m, src) = src + n
    <2>1. Nuls(m, src) # {}
      BY DEF Copyable
    <2> QED BY <2>1, StringThere
  <1>3. src \in Nat /\ e \in Where /\ e = dst + k
    BY <1>1 DEF Where, HasLength
  <1>4. Inside(e, n + 1) /\ e \notin src + 1 .. src + n
    <2>1. EndOf(m, src) - src + 1 = n + 1
      BY <1>2, <1>3
    <2> QED BY <1>2, <2>1 DEF Copyable
  <1>5. m \in Memories
    OBVIOUS
  <1> HIDE DEF m, e
  <1>6. /\ after \in Memories /\ HasLength(after, e, n)
        /\ \A i \in 0 .. n - 1 : after[e + i] = m[src + i]
        /\ \A a \in Where : a < e => after[a] = m[a]
    BY <1>2, <1>3, <1>4, <1>5, TerminatedIs
  <1> HIDE DEF after
  <1>7. StringAt(after, dst) = StringAt(m, dst) \o StringAt(m, src)
    <2>1. /\ HasLength(m, dst, k) /\ HasLength(m, src, n) /\ HasLength(after, dst + k, n)
          /\ \A a \in Where : a < dst + k => after[a] = m[a]
          /\ \A i \in 0 .. n - 1 : after[dst + k + i] = m[src + i]
      BY <1>1, <1>2, <1>3, <1>6
    <2> QED BY <1>5, <1>6, <2>1, AppendedString
  <1> QED BY <1>6, <1>7 DEF after, e, m

LEMMA StrncatIsRight ==
  ASSUME mem \in Memories, NEW dst \in Where, NEW src \in Where, NEW count \in 0 .. MemSize,
         Nuls(mem, dst) # {}, Inside(EndOf(mem, dst), count), Inside(src, count)
  PROVE  LET after == copied(mem, EndOf(mem, dst), src, count)
         IN  /\ after \in Memories
             /\ Nuls(mem, src) # {} /\ count > Len(StringAt(mem, src))
                   /\ ~ Clash(EndOf(mem, dst), src, count) =>
                StringAt(after, dst) = StringAt(mem, dst) \o StringAt(mem, src)
  <1> DEFINE m == mem
             e == EndOf(m, dst)
             after == copied(m, e, src, count)
  <1>1. PICK k \in Nat : HasLength(m, dst, k) /\ EndOf(m, dst) = dst + k
    BY StringThere
  <1>2. src \in Nat /\ e \in Where /\ e \in Nat /\ e = dst + k /\ count \in Nat /\ MemSize \in Nat
    BY <1>1, StringsAssumption DEF Where, HasLength
  <1>3. m \in Memories /\ Inside(e, count) /\ Inside(src, count)
    OBVIOUS
  <1> HIDE DEF m, e
  <1>4. /\ after \in Memories
        /\ \A a \in Where : a \notin e .. e + count - 1 => after[a] = m[a]
        /\ ~ Clash(e, src, count) => \A i \in 0 .. count - 1 : after[e + i] = m[src + i]
    <2>1. CopyDone(after, m, e, src, count)
      BY <1>2, <1>3, CopiedIs
    <2> QED BY <2>1 DEF CopyDone
  <1> HIDE DEF after
  <1>5. ASSUME Nuls(m, src) # {}, count > Len(StringAt(m, src)), ~ Clash(e, src, count)
        PROVE  StringAt(after, dst) = StringAt(m, dst) \o StringAt(m, src)
    <2>1. PICK n \in Nat : HasLength(m, src, n) /\ EndOf(m, src) = src + n
      BY <1>5, StringThere
    <2>2. Len(StringAt(m, src)) = n
      BY <1>3, <2>1, StringLength
    <2>3. n \in 0 .. count - 1 /\ e + n \in Where
      BY <1>2, <1>3, <1>5, <2>2 DEF Inside, Where
    <2>4. \A i \in 0 .. count - 1 : after[e + i] = m[src + i]
      BY <1>4, <1>5
    <2>5. HasLength(after, e, n)
      <3>1. after[e + n] = Terminator
        BY <2>1, <2>3, <2>4 DEF HasLength
      <3>2. ASSUME NEW i \in 0 .. n - 1
            PROVE  after[e + i] # Terminator
        <4>1. i \in 0 .. count - 1
          BY <1>2, <2>3
        <4>2. m[src + i] # Terminator
          BY <2>1 DEF HasLength
        <4> QED BY <2>4, <4>1, <4>2
      <3> QED BY <2>3, <3>1, <3>2 DEF HasLength
    <2>6. \A i \in 0 .. n - 1 : after[e + i] = m[src + i]
      <3>1. \A i \in 0 .. n - 1 : i \in 0 .. count - 1
        BY <1>2, <2>3
      <3> QED BY <2>4, <3>1
    <2>7. ASSUME NEW a \in Where, a < e
          PROVE  after[a] = m[a]
      <3>1. a \notin e .. e + count - 1
        BY <1>2, <2>7 DEF Where
      <3> QED BY <1>4, <3>1
    <2>8. /\ HasLength(m, dst, k) /\ HasLength(m, src, n) /\ HasLength(after, dst + k, n)
          /\ \A a \in Where : a < dst + k => after[a] = m[a]
          /\ \A i \in 0 .. n - 1 : after[dst + k + i] = m[src + i]
      BY <1>1, <1>2, <2>1, <2>5, <2>6, <2>7
    <2> QED BY <1>3, <1>4, <2>8, AppendedString
  <1> QED BY <1>4, <1>5 DEF after, e, m

-----------------------------------------------------------------------------
(* The string functions: answers                                           *)

\* The register of strlen wraps twice and holds the length in the end.
LEMMA LengthIsRight ==
  ASSUME mem \in Memories, NEW s \in Where, Nuls(mem, s) # {}
  PROVE  length(s) = Len(StringAt(mem, s)) % 2 ^ WordBits
  <1> DEFINE w == 2 ^ WordBits
  <1>1. w \in Nat /\ w >= 1
    BY StringsAssumption, PowerIsNat
  <1> DEFINE m == mem
             e == EndOf(m, s)
  <1>2. PICK n \in Nat : HasLength(m, s, n) /\ e = s + n
    BY StringThere
  <1>3. Len(StringAt(mem, s)) = n
    BY <1>2, StringLength
  <1>4. EndOf(mem, s) - s + 1 = n + 1
    <2>1. s \in Nat
      BY DEF Where
    <2> QED BY <1>2, <2>1
  <1> DEFINE x1 == (w - 1) - (n + 1)
             x2 == (x1 % w) - (w - 1)
             x3 == - (x2 % w)
             x4 == (x3 % w) - 1
  <1>5. length(s) = x4 % w
    BY <1>4 DEF length, Wrap
  <1> DEFINE q == n \div w
             r == n % w
  <1> HIDE DEF w, e, m
  <1>6. q \in Int /\ r \in 0 .. w - 1 /\ n = w * q + r /\ w * q = q * w
    BY <1>1
  <1> HIDE DEF q, r
  <1>7. CASE r = w - 1
    <2>1. x1 % w = w - 1
      <3>1. x1 = (-q - 1) * w + (w - 1)
        <4>1. (-q - 1) * w = - (q * w) - w
          BY <1>1, <1>6
        <4> QED BY <1>1, <1>6, <1>7, <4>1
      <3>2. -q - 1 \in Int /\ w - 1 \in 0 .. w - 1 /\ x1 \in Int
        BY <1>1, <1>6
      <3> DEFINE y == -q - 1
                 z == w - 1
      <3> HIDE DEF x1
      <3>3. y \in Int /\ z \in 0 .. w - 1 /\ x1 \in Int /\ x1 = y * w + z
        BY <3>1, <3>2
      <3> HIDE DEF y, z
      <3>4. x1 % w = z
        BY <1>1, <3>3, DivisionIs
      <3> QED BY <3>4 DEF z
    <2>2. 0 % w = 0
      <3>1. 0 = 0 * w + 0 /\ 0 \in 0 .. w - 1
        BY <1>1
      <3> QED BY <1>1, <3>1, DivisionIs
    <2>3. x2 % w = 0
      <3>1. x2 = 0
        BY <1>1, <2>1
      <3> QED BY <2>2, <3>1
    <2>4. x3 % w = 0
      <3>1. x3 = 0
        BY <2>3
      <3> QED BY <2>2, <3>1
    <2>5. x4 % w = r
      <3>1. x4 = -1 /\ x4 = (-1) * w + r /\ x4 \in Int
        BY <1>1, <1>6, <1>7, <2>4
      <3> HIDE DEF x4
      <3> QED BY <1>1, <1>6, <3>1, DivisionIs
    <2> QED BY <1>3, <1>5, <2>5 DEF r, w
  <1>8. CASE r # w - 1
    <2>1. r \in 0 .. w - 2
      BY <1>1, <1>6, <1>8
    <2>2. x1 % w = w - 2 - r
      <3>1. x1 = (-q) * w + (w - 2 - r)
        <4>1. (-q) * w = - (q * w)
          BY <1>1, <1>6
        <4> QED BY <1>1, <1>6, <2>1, <4>1
      <3>2. -q \in Int /\ w - 2 - r \in 0 .. w - 1 /\ x1 \in Int
        BY <1>1, <1>6, <2>1
      <3> DEFINE y == -q
                 z == w - 2 - r
      <3> HIDE DEF x1
      <3>3. y \in Int /\ z \in 0 .. w - 1 /\ x1 \in Int /\ x1 = y * w + z
        BY <3>1, <3>2
      <3> HIDE DEF y, z
      <3>4. x1 % w = z
        BY <1>1, <3>3, DivisionIs
      <3> QED BY <3>4 DEF z
    <2>3. x2 % w = w - 1 - r
      <3> DEFINE z == w - 1 - r
      <3>1. x2 = (-1) * w + z /\ z \in 0 .. w - 1 /\ x2 \in Int /\ -1 \in Int
        BY <1>1, <2>1, <2>2
      <3> HIDE DEF x2, z
      <3>2. x2 % w = z
        BY <1>1, <3>1, DivisionIs
      <3> QED BY <3>2 DEF z
    <2>4. x3 % w = r + 1
      <3>1. x3 = (-1) * w + (r + 1) /\ r + 1 \in 0 .. w - 1 /\ x3 \in Int
        BY <1>1, <2>1, <2>3
      <3> DEFINE z == r + 1
      <3> HIDE DEF x3
      <3>2. z \in 0 .. w - 1 /\ x3 = (-1) * w + z /\ x3 \in Int /\ -1 \in Int
        BY <3>1
      <3> HIDE DEF z
      <3>3. x3 % w = z
        BY <1>1, <3>2, DivisionIs
      <3> QED BY <3>3 DEF z
    <2>5. x4 % w = r
      <3>1. x4 = r /\ x4 = 0 * w + r /\ x4 \in Int
        BY <1>1, <1>6, <2>1, <2>4
      <3> HIDE DEF x4
      <3> QED BY <1>1, <1>6, <3>1, DivisionIs
    <2> QED BY <1>3, <1>5, <2>5 DEF r, w
  <1> QED BY <1>7, <1>8

\* memcmp says whether the regions hold the same.
LEMMA DifferIsRight ==
  ASSUME NEW dst \in Where, NEW src \in Where, NEW n \in 0 .. MemSize
  PROVE  ~ differ(dst, src, n) <=>
            [k \in 1 .. n |-> mem[dst + k - 1]] = [k \in 1 .. n |-> mem[src + k - 1]]
  <1> DEFINE m == mem
             f == [k \in 1 .. n |-> m[dst + k - 1]]
             g == [k \in 1 .. n |-> m[src + k - 1]]
  <1>1. dst \in Nat /\ src \in Nat /\ n \in Nat
    BY StringsAssumption DEF Where
  <1>2. differ(dst, src, n) <=> \E i \in 0 .. n - 1 : m[dst + i] # m[src + i]
    BY DEF differ
  <1> HIDE DEF m
  <1>3. ASSUME f = g, NEW i \in 0 .. n - 1
        PROVE  m[dst + i] = m[src + i]
    <2>1. i + 1 \in 1 .. n /\ dst + (i + 1) - 1 = dst + i /\ src + (i + 1) - 1 = src + i
      BY <1>1
    <2>2. f[i + 1] = g[i + 1]
      BY <1>3
    <2> QED BY <2>1, <2>2
  <1>4. ASSUME \A i \in 0 .. n - 1 : m[dst + i] = m[src + i]
        PROVE  f = g
    <2>1. ASSUME NEW k \in 1 .. n
          PROVE  m[dst + k - 1] = m[src + k - 1]
      <3>1. k - 1 \in 0 .. n - 1 /\ dst + (k - 1) = dst + k - 1 /\ src + (k - 1) = src + k - 1
        BY <1>1
      <3>2. m[dst + (k - 1)] = m[src + (k - 1)]
        BY <1>4, <3>1
      <3> QED BY <3>1, <3>2
    <2> QED BY <2>1
  <1>5. ~ differ(dst, src, n) <=> f = g
    BY <1>2, <1>3, <1>4
  <1> QED BY <1>5 DEF m

\* Where strcmp may stop.
Stops(m, dst, src) ==
    {i \in 0 .. MemSize - 1 :
        /\ Inside(dst, i + 1) /\ Inside(src, i + 1)
        /\ m[dst + i] # m[src + i] \/ m[src + i] = Terminator}

\* strcmp says whether the strings are the same.
LEMMA StrcmpIsRight ==
  ASSUME NEW m \in Memories, NEW dst \in Where, NEW src \in Where,
         Stops(m, dst, src) # {}, Nuls(m, dst) # {}, Nuls(m, src) # {}
  PROVE  m[dst + Min(Stops(m, dst, src))] = m[src + Min(Stops(m, dst, src))]
            <=> StringAt(m, dst) = StringAt(m, src)
  <1> DEFINE T == Stops(m, dst, src)
             i == Min(T)
  <1>1. MemSize \in Nat /\ dst \in Nat /\ src \in Nat
    BY StringsAssumption DEF Where
  <1>2. T = {k \in 0 .. MemSize - 1 :
                /\ dst + (k + 1) <= MemSize /\ src + (k + 1) <= MemSize
                /\ m[dst + k] # m[src + k] \/ m[src + k] = Terminator}
    BY DEF Stops, Inside
  <1>3. \E a \in T : \A b \in T : a <= b
    <2>1. T \in SUBSET Nat /\ T # {}
      BY <1>1, <1>2
    <2> HIDE DEF T
    <2> QED BY <2>1, LeastNat
  <1>4. i \in T /\ \A b \in T : i <= b
    <2>1. i = CHOOSE a \in T : \A b \in T : a <= b
      BY DEF Min
    <2> HIDE DEF T, i
    <2> QED BY <1>3, <2>1
  <1> HIDE DEF T, i
  <1>5. /\ i \in 0 .. MemSize - 1 /\ dst + (i + 1) <= MemSize /\ src + (i + 1) <= MemSize
        /\ m[dst + i] # m[src + i] \/ m[src + i] = Terminator
    BY <1>2, <1>4
  <1>6. ASSUME NEW k \in 0 .. i - 1
        PROVE  m[dst + k] = m[src + k] /\ m[src + k] # Terminator
    <2>1. /\ k \in 0 .. MemSize - 1 /\ dst + (k + 1) <= MemSize
          /\ src + (k + 1) <= MemSize /\ ~ (i <= k)
      BY <1>1, <1>5
    <2> QED BY <1>2, <1>4, <2>1
  <1>7. ASSUME m[dst + i] = m[src + i]
        PROVE  StringAt(m, dst) = StringAt(m, src)
    <2>1. i \in Nat /\ dst + i \in Where /\ src + i \in Where
      BY <1>1, <1>5 DEF Where
    <2>2. HasLength(m, dst, i) /\ HasLength(m, src, i)
      BY <1>5, <1>6, <1>7, <2>1 DEF HasLength
    <2>3. \A k \in 0 .. i - 1 : m[dst + k] = m[src + k]
      BY <1>6
    <2> QED BY <2>2, <2>3, SameString
  <1>8. ASSUME StringAt(m, dst) = StringAt(m, src)
        PROVE  m[dst + i] = m[src + i]
    <2>1. PICK n \in Nat : HasLength(m, dst, n)
      BY StringThere
    <2>2. PICK k \in Nat : HasLength(m, src, k)
      BY StringThere
    <2>3. /\ Len(StringAt(m, dst)) = n
          /\ \A j \in 1 .. n : StringAt(m, dst)[j] = m[dst + j - 1]
      BY <2>1, StringLength
    <2>4. /\ Len(StringAt(m, src)) = k
          /\ \A j \in 1 .. k : StringAt(m, src)[j] = m[src + j - 1]
      BY <2>2, StringLength
    <2>5. n = k
      BY <1>8, <2>3, <2>4
    <2>6. /\ dst + n \in Where /\ src + n \in Where
          /\ m[dst + n] = Terminator /\ m[src + n] = Terminator
      BY <2>1, <2>2, <2>5 DEF HasLength
    <2>7. n \in T
      <3>1. n \in 0 .. MemSize - 1 /\ dst + (n + 1) <= MemSize /\ src + (n + 1) <= MemSize
        BY <1>1, <2>6 DEF Where
      <3> QED BY <1>2, <2>6, <3>1
    <2>8. i <= n
      BY <1>4, <2>7
    <2>9. CASE i = n
      BY <2>6, <2>9
    <2>10. CASE i # n
      <3>1. /\ i + 1 \in 1 .. n /\ dst + (i + 1) - 1 = dst + i
            /\ src + (i + 1) - 1 = src + i
        BY <1>1, <1>5, <2>8, <2>10
      <3>2. m[dst + (i + 1) - 1] = m[src + (i + 1) - 1]
        BY <1>8, <2>3, <2>4, <2>5, <3>1
      <3> QED BY <3>1, <3>2
    <2> QED BY <2>9, <2>10
  <1> QED BY <1>7, <1>8 DEF i, T

-----------------------------------------------------------------------------
(* The string functions: every call                                        *)

\* What StringsRight says of a call that turned m into o and answered result.
CallIsRight(m, o, op, dst, src, n, answer) ==
    /\ op \in {"memcpy", "strncpy"} /\ ~ Clash(dst, src, n) =>
          \A a \in Where :
             o[a] = IF a \in dst .. dst + n - 1 THEN m[src + a - dst] ELSE m[a]
    /\ op = "strcpy" => StringAt(o, dst) = StringAt(m, src)
    /\ op = "strcat" => StringAt(o, dst) = StringAt(m, dst) \o StringAt(m, src)
    /\ op = "strncat" /\ Nuls(m, src) # {} /\ n > Len(StringAt(m, src))
          /\ ~ Clash(EndOf(m, dst), src, n) =>
          StringAt(o, dst) = StringAt(m, dst) \o StringAt(m, src)
    /\ op = "strlen" => answer = Len(StringAt(m, src)) % 2 ^ WordBits
    /\ op = "strcmp" /\ Nuls(m, dst) # {} /\ Nuls(m, src) # {} =>
          (answer = 0 <=> StringAt(m, dst) = StringAt(m, src))
    /\ op = "memcmp" => (answer = 0 <=>
          [k \in 1 .. n |-> m[dst + k - 1]] = [k \in 1 .. n |-> m[src + k - 1]])

\* Every call keeps the memory one of characters and does what it should.
LEMMA StringsStep ==
  ASSUME mem \in Memories, StringsNext
  PROVE  mem' \in Memories /\ RightCall
  <1>1. PICK dst \in Where, src \in Where :
            \/ \E count \in 0 .. MemSize :
                \/ memcpy(dst, src, count) \/ strncpy(dst, src, count)
                \/ strncat(dst, src, count) \/ memcmp(dst, src, count)
                \/ src \in Chars /\ memset(dst, src, count)
            \/ strcpy(dst, src) \/ strcat(dst, src) \/ strcmp(dst, src)
            \/ src = dst /\ strlen(src)
    BY DEF StringsNext
  <1>2. dst \in Nat /\ src \in Nat /\ \A count \in 0 .. MemSize : count \in Nat
    BY StringsAssumption DEF Where
  <1>3. ASSUME NEW op, NEW to, NEW s, NEW n, NEW answer, Did(op, to, s, n, answer),
               CallIsRight(mem, mem', op, to, s, n, answer)
        PROVE  RightCall
    <2>1. /\ did'.op = op /\ did'.dst = to /\ did'.src = s
          /\ did'.size = n /\ did'.result = answer
      BY <1>3 DEF Did
    <2> QED BY <1>3, <2>1 DEF RightCall, CallIsRight
  <1>4. ASSUME NEW count \in 0 .. MemSize, NEW op \in {"memcpy", "strncpy"}, NEW answer,
               Inside(dst, count), Inside(src, count), mem' = copied(mem, dst, src, count),
               Did(op, dst, src, count, answer)
        PROVE  mem' \in Memories /\ RightCall
    <2> DEFINE o == copied(mem, dst, src, count)
    <2>1. ~ Clash(dst, src, count) =>
             \A a \in Where :
                o[a] = IF a \in dst .. dst + count - 1 THEN mem[src + a - dst] ELSE mem[a]
      BY <1>4, CopyIsRight
    <2>2. o \in Memories
      <3>1. CopyDone(o, mem, dst, src, count)
        BY <1>2, <1>4, CopiedIs
      <3> QED BY <3>1 DEF CopyDone
    <2> HIDE DEF o
    <2>3. CallIsRight(mem, o, op, dst, src, count, answer)
      BY <2>1 DEF CallIsRight
    <2>4. mem' = o
      BY <1>4 DEF o
    <2> QED BY <1>3, <1>4, <2>2, <2>3, <2>4
  <1>5. ASSUME NEW count \in 0 .. MemSize, memcpy(dst, src, count)
        PROVE  mem' \in Memories /\ RightCall
    BY <1>4, <1>5 DEF memcpy
  <1>6. ASSUME NEW count \in 0 .. MemSize, strncpy(dst, src, count)
        PROVE  mem' \in Memories /\ RightCall
    BY <1>4, <1>6 DEF strncpy
  <1>7. ASSUME NEW count \in 0 .. MemSize, strncat(dst, src, count)
        PROVE  mem' \in Memories /\ RightCall
    <2> DEFINE o == copied(mem, EndOf(mem, dst), src, count)
    <2>1. /\ o \in Memories
          /\ Nuls(mem, src) # {} /\ count > Len(StringAt(mem, src))
                /\ ~ Clash(EndOf(mem, dst), src, count) =>
             StringAt(o, dst) = StringAt(mem, dst) \o StringAt(mem, src)
      BY <1>7, StrncatIsRight DEF strncat
    <2> HIDE DEF o
    <2>2. CallIsRight(mem, o, "strncat", dst, src, count, dst)
      BY <2>1 DEF CallIsRight
    <2>3. mem' = o /\ Did("strncat", dst, src, count, dst)
      BY <1>7 DEF strncat, o
    <2> QED BY <1>3, <2>1, <2>2, <2>3
  <1>8. ASSUME NEW count \in 0 .. MemSize, memcmp(dst, src, count)
        PROVE  mem' \in Memories /\ RightCall
    <2> DEFINE answer == IF differ(dst, src, count) THEN 1 ELSE 0
    <2>1. answer = 0 <=> [k \in 1 .. count |-> mem[dst + k - 1]]
                            = [k \in 1 .. count |-> mem[src + k - 1]]
      BY DifferIsRight
    <2>2. Did("memcmp", dst, src, count, answer) /\ mem' = mem
      BY <1>8 DEF memcmp
    <2> HIDE DEF answer
    <2>3. CallIsRight(mem, mem', "memcmp", dst, src, count, answer)
      BY <2>1 DEF CallIsRight
    <2> QED BY <1>3, <2>2, <2>3
  <1>9. ASSUME NEW count \in 0 .. MemSize, src \in Chars, memset(dst, src, count)
        PROVE  mem' \in Memories /\ RightCall
    <2>1. /\ mem' = [a \in Where |-> IF a \in dst .. dst + count - 1 THEN src ELSE mem[a]]
          /\ Did("memset", dst, src, count, 0)
      BY <1>9 DEF memset
    <2>2. mem' \in Memories
      BY <1>9, <2>1 DEF Memories
    <2>3. CallIsRight(mem, mem', "memset", dst, src, count, 0)
      BY DEF CallIsRight
    <2> QED BY <1>3, <2>1, <2>2, <2>3
  <1>10. ASSUME strcpy(dst, src)
         PROVE  mem' \in Memories /\ RightCall
    <2> DEFINE o == terminated_copy(mem, dst, src)
    <2>1. o \in Memories /\ StringAt(o, dst) = StringAt(mem, src)
      BY <1>10, StrcpyIsRight DEF strcpy
    <2> HIDE DEF o
    <2>2. CallIsRight(mem, o, "strcpy", dst, src, 0, dst)
      BY <2>1 DEF CallIsRight
    <2>3. mem' = o /\ Did("strcpy", dst, src, 0, dst)
      BY <1>10 DEF strcpy, o
    <2> QED BY <1>3, <2>1, <2>2, <2>3
  <1>11. ASSUME strcat(dst, src)
         PROVE  mem' \in Memories /\ RightCall
    <2> DEFINE o == terminated_copy(mem, EndOf(mem, dst), src)
    <2>1. o \in Memories /\ StringAt(o, dst) = StringAt(mem, dst) \o StringAt(mem, src)
      BY <1>11, StrcatIsRight DEF strcat
    <2> HIDE DEF o
    <2>2. CallIsRight(mem, o, "strcat", dst, src, 0, dst)
      BY <2>1 DEF CallIsRight
    <2>3. mem' = o /\ Did("strcat", dst, src, 0, dst)
      BY <1>11 DEF strcat, o
    <2> QED BY <1>3, <2>1, <2>2, <2>3
  <1>12. ASSUME strcmp(dst, src)
         PROVE  mem' \in Memories /\ RightCall
    <2> DEFINE m == mem
               i == Min(Stops(m, dst, src))
               answer == IF m[dst + i] # m[src + i] THEN 1 ELSE 0
    <2>1. /\ Stops(m, dst, src) # {} /\ mem' = m
          /\ Did("strcmp", dst, src, 0, answer)
      BY <1>12 DEF strcmp, Stops
    <2>2. m \in Memories
      OBVIOUS
    <2> HIDE DEF m
    <2>3. Nuls(m, dst) # {} /\ Nuls(m, src) # {} =>
             (m[dst + i] = m[src + i] <=> StringAt(m, dst) = StringAt(m, src))
      BY <2>1, <2>2, StrcmpIsRight
    <2>4. answer = 0 <=> m[dst + i] = m[src + i]
      OBVIOUS
    <2> HIDE DEF answer, i
    <2>5. CallIsRight(m, mem', "strcmp", dst, src, 0, answer)
      BY <2>3, <2>4 DEF CallIsRight
    <2> QED BY <1>3, <2>1, <2>5 DEF m
  <1>13. ASSUME src = dst, strlen(src)
         PROVE  mem' \in Memories /\ RightCall
    <2>1. length(src) = Len(StringAt(mem, src)) % 2 ^ WordBits
      BY <1>13, LengthIsRight DEF strlen
    <2>2. Did("strlen", src, src, 0, length(src)) /\ mem' = mem
      BY <1>13 DEF strlen
    <2>3. CallIsRight(mem, mem', "strlen", src, src, 0, length(src))
      BY <2>1 DEF CallIsRight
    <2> QED BY <1>3, <2>2, <2>3
  <1> QED
    BY <1>1, <1>5, <1>6, <1>7, <1>8, <1>9, <1>10, <1>11, <1>12, <1>13

\* Every string function does what its name says, for every memory, every set
\* of characters and every width of the register strlen counts in.
THEOREM StringFunctionsRight == StringsSpec => StringsRight
  <1>1. StringsInit => mem \in Memories
    BY DEF StringsInit, Memories
  <1>2. mem \in Memories /\ [StringsNext]_stringVars => (mem \in Memories)'
    BY StringsStep DEF stringVars
  <1>3. mem \in Memories /\ [StringsNext]_stringVars => [RightCall]_stringVars
    BY StringsStep
  <1> QED BY <1>1, <1>2, <1>3, PTL DEF StringsSpec, StringsRight
=============================================================================
