------------------------------- MODULE MCTty --------------------------------
(* Instances of Tty on screens of a few cells.                             *)
EXTENDS Tty

\* One character, every control character, and the commands whose clamp
\* keeps the cursor on the screen.
TextBytes ==
    {"x", "bel", "bs", "ff", "nl", "cr", "ht", "vt", "esc", "[", "1", "2",
     "A", "B", "D", "E", "F", "H", "J", "K", "S"}

\* One character in several colours; 33 and 43 select a colour, 3 none.
ColourBytes == {"x", "esc", "[", "3", "m"}

\* Cursor right.
RightBytes == {"x", "esc", "[", "3", "C", "G", "f", ";"}
=============================================================================
