-------------------------------- MODULE Tty ---------------------------------
(***************************************************************************)
(* The text terminals of drivers/char/tty.c: the cursor, scrolling and the *)
(* escape sequences of tty_write, and the switch between terminals that    *)
(* share the one frame buffer.                                             *)
(*                                                                         *)
(* The frame buffer is a function from cells to a character and a colour   *)
(* attribute.  Memory behind the last cell is not modelled: a store there  *)
(* hits no cell.  palloc is assumed to find the page of a new terminal.    *)
(***************************************************************************)
EXTENDS Integers, Sequences, SequencesExt, FiniteSets

CONSTANTS
    VGA_COLUMN,     \* columns of the screen, 80
    VGA_ROW,        \* the number of the last row, 24
    CMD_BUF_SZ,     \* size of command_buf, 32
    Ttys,           \* the terminals that are ever switched to
    Bytes,          \* the bytes writers send
    MaxParam        \* bound on the parameter bytes of one escape sequence

VARIABLES
    scr,            \* frame buffer, x, y and the cursor register of the VGA
    fore, back,     \* the colours characters are written in
    curr_tty,
    ttys,           \* ttys, xs, ys, fores and backs: what a switch saves
    command_sequence_status,
    command_buf     \* the buf_ptr bytes of command_buf in use

colours == <<fore, back>>
sequence == <<command_sequence_status, command_buf>>
vars == <<scr, colours, curr_tty, ttys, sequence>>

ASSUME TtyAssumption ==
    /\ VGA_COLUMN \in Nat \ {0} /\ VGA_ROW \in Nat
    /\ CMD_BUF_SZ \in Nat \ {0} /\ MaxParam \in Nat
    /\ Ttys \subseteq 1..127 /\ 1 \in Ttys
    /\ Bytes \subseteq STRING

DEFAULT_FORE == 7
DEFAULT_BACK == 0
ASSEMB_COLOUR == back * 16 + fore

jmptable == <<0, 4, 2, 6, 1, 5, 3, 7, 8, 12, 10, 14, 9, 13, 11, 15>>

Cells == 0..VGA_COLUMN * (VGA_ROW + 1) - 1
Pos(s) == s.y * VGA_COLUMN + s.x

\* A cell holds NUL or some other character; which one makes no difference.
NUL == "nul"
GLYPH == "glyph"
Zeroed == [p \in Cells |-> <<NUL, 0>>]
NoPage == <<>>      \* a NULL entry of ttys

-----------------------------------------------------------------------------
(* Cursor and screen, as functions of scr; a is the colour attribute       *)

move_cursor(s) ==
    IF s.x \in 0..VGA_COLUMN /\ s.y \in 0..VGA_ROW
    THEN [s EXCEPT !.hw = Pos(s)] ELSE s

step_cursor(s) ==
    move_cursor(
        IF s.x # VGA_COLUMN - 1 THEN [s EXCEPT !.x = @ + 1]
        ELSE [s EXCEPT !.x = 0, !.y = IF @ # VGA_ROW THEN @ + 1 ELSE @])

\* mutant: the rows are copied one row too far
scrup_two(s, a) ==
    [s EXCEPT !.cells = [p \in Cells |->
        IF p + 2 * VGA_COLUMN \in Cells THEN s.cells[p + 2 * VGA_COLUMN]
        ELSE <<NUL, a>>]]

scrup(s, a) ==
    [s EXCEPT !.cells = [p \in Cells |->
        IF p + VGA_COLUMN \in Cells THEN s.cells[p + VGA_COLUMN]
        ELSE <<NUL, a>>]]

\* mutant: the cursor register is left alone
linebreak_stay(s, a) ==
    IF s.y = VGA_ROW THEN scrup([s EXCEPT !.x = 0], a)
    ELSE [s EXCEPT !.x = 0, !.y = @ + 1]

linebreak(s, a) ==
    move_cursor(
        IF s.y = VGA_ROW THEN scrup([s EXCEPT !.x = 0], a)
        ELSE [s EXCEPT !.x = 0, !.y = @ + 1])

cls(s, a) ==
    move_cursor([s EXCEPT !.cells = [p \in Cells |-> <<NUL, a>>],
                          !.x = 0, !.y = 0])

backspace(s) ==
    CASE s.x # 0 -> move_cursor([s EXCEPT !.x = @ - 1])
      [] s.x = 0 /\ s.y # 0 ->
            move_cursor([s EXCEPT !.x = VGA_COLUMN - 1, !.y = @ - 1])
      [] OTHER -> s

vertical_tab(s, a) ==
    IF s.y = VGA_ROW THEN scrup(s, a) ELSE move_cursor([s EXCEPT !.y = @ + 1])

\* Any byte that is not a control character is stored at the cursor.
putglyph(s, c, a) ==
    LET t == [s EXCEPT !.cells =
                 [p \in Cells |-> IF p = Pos(s) THEN <<c, a>> ELSE @[p]]]
    IN  IF s.y = VGA_ROW /\ s.x = VGA_COLUMN - 1
        THEN move_cursor(scrup([t EXCEPT !.x = 0], a))
        ELSE step_cursor(t)

\* Four times the NUL character.
tab(s, a) ==
    LET again(t) == putglyph(t, NUL, a)
    IN  again(again(again(again(s))))

putchar(s, c, a) ==
    CASE c = "bel" -> s
      [] c = "bs" -> backspace(s)
      [] c = "ff" -> cls(s, a)
      [] c = "nl" -> linebreak(s, a)
      [] c = "cr" -> move_cursor([s EXCEPT !.x = 0])
      [] c = "ht" -> tab(s, a)
      [] c = "vt" -> vertical_tab(s, a)
      [] c = NUL  -> putglyph(s, NUL, a)
      [] OTHER    -> putglyph(s, GLYPH, a)

-----------------------------------------------------------------------------
(* Parameters of an escape sequence                                        *)

\* dec[j] - '0': a second ';' counts as a digit of value 11.
ByteValue ==
    [c \in {"0", "1", "2", "3", "4", "5", "6", "7", "8", "9", ";"} |->
        CASE c = "0" -> 0 [] c = "1" -> 1 [] c = "2" -> 2 [] c = "3" -> 3
          [] c = "4" -> 4 [] c = "5" -> 5 [] c = "6" -> 6 [] c = "7" -> 7
          [] c = "8" -> 8 [] c = "9" -> 9 [] c = ";" -> 11]

is_number_or_comma(c) == c \in DOMAIN ByteValue

\* Up to nine bytes are a number that an int holds; MaxParam keeps to those.
atoi(dec) ==
    LET value[i \in 0 .. Len(dec)] ==
            IF i = 0 THEN 0 ELSE 10 * value[i - 1] + ByteValue[dec[i]]
    IN  IF Len(dec) > 10 THEN -1 ELSE value[Len(dec)]

\* <<num, second>> of atoi_comma.
atoi_comma(dec) ==
    IF Contains(dec, ";")
    THEN LET i == SelectInSeq(dec, LAMBDA c : c = ";")
         IN  <<atoi(SubSeq(dec, 1, i - 1)), atoi(SubSeq(dec, i + 1, Len(dec)))>>
    ELSE <<atoi(dec), -1>>

-----------------------------------------------------------------------------
(* Commands of an escape sequence with the parameters n and m              *)

Minus(v, n) == IF v < n THEN 0 ELSE v - n
AtMost(v, last) == IF v > last THEN last ELSE v
Within(v, last) == IF v < 0 THEN 0 ELSE AtMost(v, last)

\* mutant: cursor down may leave the screen
CursorCommand_unclamped(s, c, n, m) ==
    IF c = "B" THEN [s EXCEPT !.y = @ + n] ELSE s

\* The commands that set x and y; none of them calls move_cursor.
CursorCommand(s, c, n, m) ==
    CASE c = "A" -> [s EXCEPT !.y = Minus(@, n)]
      [] c = "B" -> [s EXCEPT !.y = AtMost(@ + n, VGA_ROW)]
      [] c = "C" -> [s EXCEPT !.x = AtMost(@ + n, VGA_COLUMN)]
      [] c = "D" -> [s EXCEPT !.x = Minus(@, n)]
      [] c = "E" -> [s EXCEPT !.x = 0, !.y = AtMost(@ + n, VGA_ROW)]
      [] c = "F" -> [s EXCEPT !.x = 0, !.y = Minus(@, n)]
      [] c = "G" -> [s EXCEPT !.x = Within(n, VGA_COLUMN)]
      [] c = "H" /\ m = -1 -> [s EXCEPT !.x = 0, !.y = 0]
      [] c \in {"H", "f"} /\ m # -1 ->
            [s EXCEPT !.x = Within(n, VGA_COLUMN), !.y = Within(m, VGA_ROW)]
      [] OTHER -> s

\* memset of the cells from .. to - 1; x > VGA_COLUMN, where the length is
\* negative, is left out.
Erase(s, from, to) ==
    [s EXCEPT !.cells =
        [p \in Cells |-> IF from <= p /\ p < to THEN <<NUL, 0>> ELSE @[p]]]

EraseCommand(s, c, n, a) ==
    LET row == s.y * VGA_COLUMN
    IN  CASE c = "J" /\ n = 0 -> Erase(s, Pos(s), VGA_COLUMN * (VGA_ROW + 1))
          [] c = "J" /\ n = 1 -> Erase(s, 0, Pos(s))
          [] c = "J" /\ n = 2 -> cls(s, a)
          [] c = "K" /\ n = 0 -> Erase(s, Pos(s), row + VGA_COLUMN)
          [] c = "K" /\ n = 1 -> Erase(s, row, Pos(s))
          [] c = "K" /\ n = 2 -> Erase(s, row, row + VGA_COLUMN)
          [] c \in {"S", "T"} -> cls(s, a)
          [] OTHER -> s

\* The colour 'm' selects in base .. base + 7, or again the old one.
Colour(n, m, base, default, old) ==
    CASE n = 0 -> default
      [] n \in base..base + 7 -> jmptable[n - base + 1]
      [] n = 1 /\ m \in base..base + 7 -> jmptable[m - base + 9]
      [] OTHER -> old

-----------------------------------------------------------------------------

\* After tty_preinit: the screen is cleared, no terminal has a page and the
\* static arrays are zero.
Init ==
    /\ scr = [cells |-> [p \in Cells |-> <<NUL, DEFAULT_BACK * 16 + DEFAULT_FORE>>],
              x |-> 0, y |-> 0, hw |-> 0]
    /\ fore = DEFAULT_FORE /\ back = DEFAULT_BACK
    /\ curr_tty = 1
    /\ ttys = [t \in Ttys |->
                 [page |-> NoPage, x |-> 0, y |-> 0, fore |-> 0, back |-> 0]]
    /\ command_sequence_status = 0
    /\ command_buf = <<>>

Initialised == ttys[1].page # NoPage

\* char_init calls tty_init once.  The new page of terminal 1 is written
\* before it is ever read; fores and backs keep the default in every byte.
tty_init ==
    /\ ~ Initialised
    /\ curr_tty' = 1
    /\ ttys' = [t \in Ttys |->
                  [ttys[t] EXCEPT !.page = IF t = 1 THEN Zeroed ELSE @,
                                  !.fore = DEFAULT_FORE, !.back = DEFAULT_BACK]]
    /\ UNCHANGED <<scr, colours, sequence>>

\* What a switch to data leaves in the arrays.
\* mutant: the column is not saved
Saved_no_x(data) ==
    [ttys EXCEPT
        ![curr_tty] = [page |-> scr.cells, x |-> ttys[curr_tty].x, y |-> scr.y,
                       fore |-> fore, back |-> back],
        ![data].page = IF @ = NoPage THEN Zeroed ELSE @]

Saved(data) ==
    [ttys EXCEPT
        ![curr_tty] = [page |-> scr.cells, x |-> scr.x, y |-> scr.y,
                       fore |-> fore, back |-> back],
        ![data].page = IF @ = NoPage THEN Zeroed ELSE @]

\* tty_write(0, data): a switch to 0 or to the current terminal does nothing.
tty_switch(data) ==
    /\ Initialised
    /\ data # curr_tty
    /\ ttys' = Saved(data)
    /\ curr_tty' = data
    /\ scr' = [scr EXCEPT !.cells = ttys'[data].page,
                          !.x = ttys'[data].x, !.y = ttys'[data].y]
    /\ fore' = ttys'[data].fore
    /\ back' = ttys'[data].back
    /\ UNCHANGED sequence

terminate_sequence ==
    /\ command_sequence_status' = 0
    /\ command_buf' = <<>>

\* The byte starts or continues an escape sequence.
sequence_start(data) ==
    /\ \/ data = "esc" /\ command_sequence_status' = 1
       \/ data = "[" /\ command_sequence_status = 1 /\ command_sequence_status' = 2
    /\ UNCHANGED <<scr, colours, curr_tty, ttys, command_buf>>

\* The length check behind the return is never reached.
sequence_parameter(data) ==
    /\ command_sequence_status = 2
    /\ is_number_or_comma(data)
    /\ Len(command_buf) < MaxParam
    /\ command_buf' = Append(command_buf, data)
    /\ UNCHANGED <<scr, colours, curr_tty, ttys, command_sequence_status>>

sequence_command(data) ==
    /\ command_sequence_status = 2
    /\ data # "esc" /\ ~ is_number_or_comma(data)
    /\ LET p == atoi_comma(command_buf)
       IN  /\ scr' = EraseCommand(CursorCommand(scr, data, p[1], p[2]),
                                  data, p[1], ASSEMB_COLOUR)
           /\ IF data = "m"
              THEN /\ fore' = Colour(p[1], p[2], 30, DEFAULT_FORE, fore)
                   /\ back' = Colour(p[1], p[2], 40, DEFAULT_BACK, back)
              ELSE UNCHANGED colours
    /\ terminate_sequence
    /\ UNCHANGED <<curr_tty, ttys>>

print(data) ==
    /\ command_sequence_status # 2
    /\ data # "esc" /\ ~ (data = "[" /\ command_sequence_status = 1)
    /\ scr' = putchar(scr, data, ASSEMB_COLOUR)
    /\ terminate_sequence
    /\ UNCHANGED <<colours, curr_tty, ttys>>

\* tty_write(minor, data) with any other minor: it is the current terminal
\* that is written to.
tty_write(data) ==
    \/ sequence_start(data)
    \/ sequence_parameter(data)
    \/ sequence_command(data)
    \/ print(data)

Next ==
    \/ tty_init
    \/ \E t \in Ttys : tty_switch(t)
    \/ \E c \in Bytes : tty_write(c)

Spec == Init /\ [][Next]_vars

-----------------------------------------------------------------------------

Attributes == 0..255

TypeOK ==
    /\ DOMAIN scr.cells = Cells
    /\ \A p \in Cells : scr.cells[p] \in {NUL, GLYPH} \X Attributes
    /\ scr.x \in Int /\ scr.y \in Int /\ scr.hw \in 0..VGA_COLUMN * (VGA_ROW + 1)
    /\ fore \in 0..15 /\ back \in 0..15
    /\ curr_tty \in Ttys
    /\ \A t \in Ttys : ttys[t].page = NoPage \/ DOMAIN ttys[t].page = Cells
    /\ command_sequence_status \in 0..2
    /\ Len(command_buf) <= MaxParam

(* The write position is a cell of the screen, so every character that      *)
(* putchar stores and every range the erase commands clear lies inside the  *)
(* frame buffer.  True of the bytes without 'C', 'G' and parameters of 'H'  *)
(* and 'f', whose clamp lets x be VGA_COLUMN, and of parameters short       *)
(* enough for an int: atoi's -1 takes 'A' and 'B' across an edge.           *)
CursorOnScreen == scr.x \in 0..VGA_COLUMN - 1 /\ scr.y \in 0..VGA_ROW

(* The statics of tty.c keep to the screen and to the sixteen colours.      *)
ScreenSound == TypeOK /\ CursorOnScreen

(* A position move_cursor would refuse with its "error" is never reached.   *)
(* False once 'C' has set x to VGA_COLUMN: step_cursor waits for 79 to wrap *)
(* and counts past it.                                                      *)
PositionAccepted == scr.x \in 0..VGA_COLUMN /\ scr.y \in 0..VGA_ROW

(* The sequence ends when command_buf is full, as the check behind the      *)
(* return of tty_write means it to.                                         *)
ParametersFit == Len(command_buf) < CMD_BUF_SZ

(* What is written before the cursor stays: a byte outside an escape        *)
(* sequence may push rows off the top, only when the cursor ends on the     *)
(* last row and no more of them than make room for a line or a tab, and     *)
(* changes no character before the cursor, unless it clears the whole       *)
(* screen and goes to its beginning ('\f').                                 *)
TextBeforeCursorStays ==
    [][command_sequence_status # 2 /\ curr_tty' = curr_tty =>
         \/ /\ Pos(scr') = 0
            /\ \A q \in Cells : scr'.cells[q] = <<NUL, ASSEMB_COLOUR>>
         \/ \E k \in 0..4 :
              /\ k > 0 =>
                   /\ scr'.y = VGA_ROW
                   /\ \/ Pos(scr') + k * VGA_COLUMN <= Pos(scr) + VGA_COLUMN
                      \/ Pos(scr') + k * VGA_COLUMN <= Pos(scr) + 4
              /\ \A q \in Cells :
                   q < Pos(scr) /\ q >= k * VGA_COLUMN =>
                      scr'.cells[q - k * VGA_COLUMN] = scr.cells[q]]_vars

(* Whenever a byte outside an escape sequence moves the write position, the *)
(* cursor of the VGA is moved there too: move_cursor is called after every  *)
(* such change and does not refuse it.                                      *)
CursorFollowsText ==
    [][command_sequence_status # 2 /\ curr_tty' = curr_tty
         /\ <<scr.x, scr.y>> # <<scr'.x, scr'.y>> => scr'.hw = Pos(scr')]_vars

\* What terminal t shows: in the frame buffer and the statics while it is
\* the current one, in the arrays otherwise.
Terminal(t) ==
    IF t = curr_tty
    THEN [page |-> scr.cells, x |-> scr.x, y |-> scr.y, fore |-> fore, back |-> back]
    ELSE [ttys[t] EXCEPT !.page = IF @ = NoPage THEN Zeroed ELSE @]

(* Terminals do not disturb each other: a switch changes no terminal, and   *)
(* between switches only the current one changes, so a terminal comes back  *)
(* with the text, position and colours it had when it was left.             *)
TerminalsApart ==
    [][Initialised =>
         \A t \in Ttys :
            t # curr_tty \/ curr_tty' # curr_tty => Terminal(t)' = Terminal(t)]_vars
=============================================================================
