------------------------------ MODULE Console ------------------------------
(***************************************************************************)
(* The framebuffer console (vaerk-console/mod.cpp).  A framebuffer is a   *)
(* number of pixel rows; one column of the model is one cell wide, so a   *)
(* glyph is a column of FontHeight pixels.  Pixel rows under the last     *)
(* line of text are kept, scrolling moves them too.                       *)
(*                                                                         *)
(* A reader of the screen expects a roll of paper: `roll` is all that was *)
(* printed since the screen was cleared, line by line, and the screen     *)
(* should show its last lines.                                            *)
(***************************************************************************)
EXTENDS Integers, Sequences

CONSTANTS
    FontHeight,   \* pixel rows of a glyph, 18 in the code
    Buffers,      \* the framebuffers a client binds: [width, height] in cells, pixels
    Rune,         \* the runes a client writes
    MaxLines      \* bound: lines printed between two clears

TabWidth == 4

ASSUME ConsoleAssumption ==
    /\ FontHeight \in Nat \ {0} /\ MaxLines \in Nat
    /\ Buffers \subseteq [width : Nat, height : Nat]
    /\ Rune \subseteq {"newline", "return", "tab", "backspace", "escape", "a", "1", "alien", "bell"}

Blank   == "blank"     \* a pixel of value 0, and the glyph of a space
Garbage == "garbage"   \* what a framebuffer holds when it is bound
NoBuffer == [width |-> 0, height |-> 0]

VARIABLES
    enabled, escaped,   \* _enabled, _escaped
    fb,                 \* _frontbuffer, without its pixels; NoBuffer is a null buf
    px,                 \* the pixels: row -> column -> a pixel of a glyph
    cx, cy,             \* _cx, _cy
    wild,               \* history: the last rune drew outside the framebuffer
    unfit,              \* history: bind left the cursor outside the framebuffer
    clean,              \* history: the framebuffer bound was cleared
    roll                \* history: the lines printed since

vars == <<enabled, escaped, fb, px, cx, cy, wild, unfit, clean, roll>>

Columns == 0 .. fb.width - 1
Rows    == 0 .. fb.height - 1
Height  == fb.height \div FontHeight
BlankLine(width) == [x \in 0 .. width - 1 |-> Blank]

Init ==
    /\ enabled = FALSE /\ escaped = FALSE
    /\ fb = NoBuffer
    /\ px = <<>>
    /\ cx = 0 /\ cy = 0
    /\ wild = FALSE /\ unfit = FALSE /\ clean = FALSE
    /\ roll = <<BlankLine(0)>>

-----------------------------------------------------------------------------
(* The screen as a value, [px, cx, cy, wild], so that a tab can print more  *)
(* than one space in a step.                                                *)

Screen == [px |-> px, cx |-> cx, cy |-> cy, wild |-> FALSE]

(* Mutant: the last line is moved up and left where it was. *)
ScrollNoFill(p, lines) ==
    [y \in Rows |-> IF y < fb.height - lines THEN p[y + lines] ELSE p[y]]

Scroll(p, lines) ==
    [y \in Rows |-> IF lines < fb.height /\ y < fb.height - lines
                    THEN p[y + lines] ELSE BlankLine(fb.width)]

Pixel(c, gy) == IF c = Blank THEN Blank ELSE <<c, gy>>

(* _set and blit. *)
Set(s, c) ==
    LET top == s.cy * FontHeight
    IN  [s EXCEPT
            !.px = [y \in Rows |->
                      IF s.cx \in Columns /\ y \in top .. top + FontHeight - 1
                      THEN [s.px[y] EXCEPT ![s.cx] = Pixel(c, y - top)] ELSE s.px[y]],
            !.wild = @ \/ s.cx >= fb.width \/ s.cy >= Height]

Newline(s) ==
    IF s.cy + 1 < Height THEN [s EXCEPT !.cx = 0, !.cy = @ + 1]
    ELSE [s EXCEPT !.cx = 0, !.px = Scroll(@, FontHeight)]

(* Mutant: the cursor wraps one column late. *)
PutLate(s, c) ==
    LET t == Set(IF s.cx > fb.width THEN Newline(s) ELSE s, c)
    IN  [t EXCEPT !.cx = @ + 1]

Put(s, c) ==
    LET t == Set(IF s.cx >= fb.width THEN Newline(s) ELSE s, c)
    IN  [t EXCEPT !.cx = @ + 1]

Spaces(column) == TabWidth - (column % TabWidth)

Tab(s) ==
    LET after[n \in 0 .. TabWidth] == IF n = 0 THEN s ELSE Put(after[n - 1], Blank)
    IN  after[Spaces(s.cx)]

Backspace(s) == IF s.cx > 0 THEN Set([s EXCEPT !.cx = @ - 1], Blank) ELSE s

(* A rune the font has no glyph for is shown as a question mark. *)
Glyph(rune) == IF rune = "alien" THEN "?" ELSE rune

Printed(s, rune) ==
    CASE rune = "newline" -> Newline(s)
      [] rune = "return" -> [s EXCEPT !.cx = 0]
      [] rune = "tab" -> Tab(s)
      [] rune = "backspace" -> Backspace(s)
      [] rune \in {"a", "1", "alien"} /\ ~escaped -> Put(s, Glyph(rune))
      [] OTHER -> s

-----------------------------------------------------------------------------
(* The roll of paper, for the property only: lines, and a column. *)

RollPut(r, c) ==
    LET wraps == r.column >= fb.width
        lines == IF wraps THEN Append(r.lines, BlankLine(fb.width)) ELSE r.lines
        at    == IF wraps THEN 0 ELSE r.column
    IN  [lines |-> [lines EXCEPT ![Len(lines)][at] = c], column |-> at + 1]

RollTab(r) ==
    LET after[n \in 0 .. TabWidth] == IF n = 0 THEN r ELSE RollPut(after[n - 1], Blank)
    IN  after[Spaces(r.column)]

RollPrinted(lines, column, rune) ==
    LET r == [lines |-> lines, column |-> column]
    IN  CASE rune = "newline" -> Append(lines, BlankLine(fb.width))
          [] rune = "tab" -> RollTab(r).lines
          [] rune = "backspace" /\ column > 0 -> [lines EXCEPT ![Len(lines)][column - 1] = Blank]
          [] rune \in {"a", "1", "alien"} /\ ~escaped -> RollPut(r, Glyph(rune)).lines
          [] OTHER -> lines

-----------------------------------------------------------------------------

Enable(on) ==
    /\ enabled' = on
    /\ UNCHANGED <<escaped, fb, px, cx, cy, wild, unfit, clean, roll>>

Bind(buffer) ==
    /\ fb' = buffer
    /\ px' = [y \in 0 .. buffer.height - 1 |-> [x \in 0 .. buffer.width - 1 |-> Garbage]]
    /\ clean' = FALSE /\ wild' = FALSE
    /\ unfit' = (cy >= buffer.height \div FontHeight \/ cx > buffer.width)
    /\ roll' = <<BlankLine(buffer.width)>>
    /\ UNCHANGED <<enabled, escaped, cx, cy>>

(* clear returns at once without a framebuffer. *)
Clear ==
    /\ fb # NoBuffer
    /\ px' = [y \in Rows |-> BlankLine(fb.width)]
    /\ cx' = 0 /\ cy' = 0
    /\ clean' = TRUE /\ unfit' = FALSE /\ wild' = FALSE
    /\ roll' = <<BlankLine(fb.width)>>
    /\ UNCHANGED <<enabled, escaped, fb>>

Shows == enabled /\ fb # NoBuffer /\ fb.width > 0 /\ Height > 0

(* writeRune: nothing, not even an escape, is noticed while nothing shows. *)
WriteRune(rune) ==
    LET s == Printed(Screen, rune)
        r == IF clean THEN RollPrinted(roll, cx, rune) ELSE roll
    IN  /\ Shows
        /\ Len(r) <= MaxLines
        /\ px' = s.px /\ cx' = s.cx /\ cy' = s.cy /\ wild' = s.wild
        /\ escaped' = (rune = "escape" \/ (escaped /\ rune # "a"))
        /\ roll' = r
        /\ UNCHANGED <<enabled, fb, unfit, clean>>

Next ==
    \/ \E on \in BOOLEAN : Enable(on)
    \/ \E buffer \in Buffers : Bind(buffer)
    \/ Clear
    \/ \E rune \in Rune : WriteRune(rune)

Spec == Init /\ [][Next]_vars

-----------------------------------------------------------------------------
(* Properties. *)

(* No glyph is drawn outside the framebuffer, unless one too small for the  *)
(* place of the cursor was bound and the screen has not been cleared: bind  *)
(* does not move the cursor.                                                *)
DrawsInside == wild => unfit

(* A cell of the screen shows a character when all its pixels do.           *)
ShowsChar(x, y, c) ==
    \A gy \in 0 .. FontHeight - 1 : px[y * FontHeight + gy][x] = Pixel(c, gy)

(* A screen that was cleared shows the last lines of what was printed, the  *)
(* cursor is on the last of them, and lines not printed yet are blank:      *)
(* wrapping, tabs, scrolling and backspace never tear a glyph, lose a line  *)
(* or leave an old one behind.                                              *)
ShowsTheRoll ==
    clean /\ Height > 0 =>
        LET top == IF Len(roll) > Height THEN Len(roll) - Height ELSE 0
        IN  /\ cy = Len(roll) - top - 1
            /\ \A y \in 0 .. Height - 1, x \in Columns :
                  ShowsChar(x, y, IF top + y + 1 <= Len(roll) THEN roll[top + y + 1][x]
                                  ELSE Blank)
=============================================================================
