------------------------------ MODULE Terminal ------------------------------
(***************************************************************************)
(* What a console promises: a terminal with a column of at most Height     *)
(* lines, the last of which is being written.  There is no buffer to move  *)
(* and no glyph to draw and to erase here.  The character under the cursor *)
(* is always gone: a carriage return wipes the first one of its line, and  *)
(* typing over a line wipes it cell by cell, one ahead.                    *)
(***************************************************************************)
EXTENDS Sequences, Integers

CONSTANTS Width, Height, Blank, LF, CR, Question, Chars, Nobody

VARIABLES
  lines,   \* the lines on the screen, the oldest first
  column,  \* where the next character goes
  key      \* the character that was received in the last step, or Nobody

termVars == <<lines, column, key>>

NewLine == [i \in 0 .. Width - 1 |-> Blank]

TermInit == lines = <<NewLine>> /\ column = 0 /\ key = Nobody

----------------------------------------------------------------------------
InLine(i, c, ls) == [ls EXCEPT ![Len(ls)][i] = c]

Feed(ls) == IF Len(ls) = Height THEN Append(Tail(ls), NewLine) ELSE Append(ls, NewLine)

LineFeed == key' = LF /\ lines' = Feed(lines) /\ column' = 0

CarriageReturn == key' = CR /\ lines' = InLine(0, Blank, lines) /\ column' = 0

Type(c) ==
  LET typed == InLine(column, IF c = 0 THEN Question ELSE c, lines)
  IN /\ key' = c
     /\ IF column = Width - 1 THEN lines' = Feed(typed) /\ column' = 0
        ELSE lines' = InLine(column + 1, Blank, typed) /\ column' = column + 1

Rest == key' = Nobody /\ UNCHANGED <<lines, column>>

TermNext == LineFeed \/ CarriageReturn \/ (\E c \in Chars \ {LF, CR} : Type(c)) \/ Rest

TermSpec == TermInit /\ [][TermNext]_termVars
=============================================================================
