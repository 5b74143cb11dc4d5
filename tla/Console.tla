------------------------------- MODULE Console -------------------------------
(***************************************************************************)
(* The text console of the simulator: a buffer of Width * Height cells and *)
(* a cursor, whose cell shows a glyph.  A console is a record, because the *)
(* testbench has several; the operations return the console after the call.*)
(***************************************************************************)
EXTENDS Integers

CONSTANTS
  Width, Height,  \* 64 and 16
  LF, CR,         \* '\n' and '\r'
  Question,       \* '?'
  Glyph           \* 30, drawn at the cursor

ASSUME ScreenAssumption ==
  /\ Width \in Nat \ {0} /\ Height \in Nat \ {0}
  /\ {LF, CR, Question, Glyph} \subseteq Nat \ {0} /\ LF # CR /\ Glyph # Question

Blank == 0     \* an empty cell holds the character 0
Cells == 0 .. Width * Height - 1

NewConsole == [buf |-> [i \in Cells |-> Blank], x |-> 0, y |-> 0]

Cursor(con) == con.y * Width + con.x

(* Mutant: the glyph stays where the cursor was.                           *)
Written_KeepsGlyph(con, c) ==
  IF c = LF THEN [buf |-> con.buf, x |-> 0, y |-> con.y + 1]
  ELSE IF c = CR THEN [buf |-> con.buf, x |-> 0, y |-> con.y]
  ELSE [buf |-> [con.buf EXCEPT ![Cursor(con)] = IF c = 0 THEN Question ELSE c],
        x |-> con.x + 1, y |-> con.y]

(* Any character but the two control characters is typed, 0 as '?'.        *)
Written(con, c) ==
  IF c = LF THEN [buf |-> [con.buf EXCEPT ![Cursor(con)] = Blank], x |-> 0, y |-> con.y + 1]
  ELSE IF c = CR THEN [buf |-> [con.buf EXCEPT ![Cursor(con)] = Blank], x |-> 0, y |-> con.y]
  ELSE [buf |-> [con.buf EXCEPT ![Cursor(con)] = IF c = 0 THEN Question ELSE c],
        x |-> con.x + 1, y |-> con.y]

(* Mutant: the line is wrapped one column late.                            *)
Wrapped_Late(con) ==
  IF con.x > Width THEN [buf |-> con.buf, x |-> 0, y |-> con.y + 1] ELSE con

Wrapped(con) == IF con.x = Width THEN [buf |-> con.buf, x |-> 0, y |-> con.y + 1] ELSE con

(* Mutant: the last line is not cleared when the text moves up.            *)
Scrolled_KeepsLast(con) ==
  IF con.y = Height
  THEN [buf |-> [i \in Cells |-> IF i < Width * (Height - 1) THEN con.buf[i + Width]
                                 ELSE con.buf[i]],
        x |-> con.x, y |-> Height - 1]
  ELSE con

Scrolled(con) ==
  IF con.y = Height
  THEN [buf |-> [i \in Cells |-> IF i < Width * (Height - 1) THEN con.buf[i + Width]
                                 ELSE Blank],
        x |-> con.x, y |-> Height - 1]
  ELSE con

Marked(con) == [con EXCEPT !.buf[Cursor(con)] = Glyph]

putchar(con, c) == Marked(Scrolled(Wrapped(Written(con, c))))

(* A console on the bus prints the low byte of the data bus whenever its   *)
(* address is stored to.  The program never resets it.                     *)
tick(con, selected, stores, c) == IF selected /\ stores THEN putchar(con, c) ELSE con
=============================================================================
