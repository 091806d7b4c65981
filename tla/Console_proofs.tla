---------------------------- MODULE Console_proofs ----------------------------
(***************************************************************************)
(* The screen shows the last lines printed, for every size of screen and  *)
(* of font and whatever is printed.                                       *)
(***************************************************************************)
EXTENDS Console, TLAPS

-----------------------------------------------------------------------------
(* Screens, rolls, and how they agree. *)

Chars == {Blank, "a", "1", "?"}
Dots  == {Blank, Garbage} \cup (Chars \X Nat)
Lines == [Columns -> Chars]
Screens == [px : [Rows -> [Columns -> Dots]], cx : Nat, cy : Nat, wild : BOOLEAN]

PixelRow(y, gy) == y * FontHeight + gy

Top(lines) == IF Len(lines) > Height THEN Len(lines) - Height ELSE 0

CharAt(lines, y, x) ==
    IF Top(lines) + y + 1 <= Len(lines) THEN lines[Top(lines) + y + 1][x] ELSE Blank

(* Besides what ShowsTheRoll says, the pixel rows under the last line are   *)
(* blank: a scroll moves them up into it.                                   *)
Agree(s, lines) ==
    /\ s \in Screens /\ s.cx <= fb.width /\ s.cy < Height
    /\ lines \in Seq(Lines) /\ Len(lines) > 0
    /\ s.cy = Len(lines) - Top(lines) - 1
    /\ \A y \in 0 .. Height - 1, x \in Columns, gy \in 0 .. FontHeight - 1 :
          s.px[PixelRow(y, gy)][x] = Pixel(CharAt(lines, y, x), gy)
    /\ \A row \in Rows, x \in Columns : row >= Height * FontHeight => s.px[row][x] = Blank

FbType == fb \in [width : Nat, height : Nat]

-----------------------------------------------------------------------------
(* Rows of pixels. *)

LEMMA LinesApart ==
    ASSUME NEW y \in Nat, NEW z \in Nat, y < z
    PROVE  y * FontHeight + FontHeight <= z * FontHeight
<1>1. PICK d \in Nat : z = y + 1 + d
  <2>1. z - (y + 1) \in Nat /\ z = y + 1 + (z - (y + 1))
    OBVIOUS
  <2> QED BY <2>1
<1>2. PICK h \in Nat : h = FontHeight
  BY ConsoleAssumption
<1>3. z * h = y * h + h + d * h
  BY <1>1
<1>4. d * h \in Nat
  OBVIOUS
<1> QED BY <1>2, <1>3, <1>4

LEMMA HeightIs ==
    ASSUME FbType
    PROVE  /\ FontHeight \in Nat \ {0} /\ Height \in Nat /\ fb.width \in Nat /\ fb.height \in Nat
           /\ Height * FontHeight \in Nat /\ Height * FontHeight <= fb.height
           /\ fb.height < Height * FontHeight + FontHeight
<1>1. PICK h \in Nat \ {0}, n \in Nat : h = FontHeight /\ n = fb.height
  BY ConsoleAssumption DEF FbType
<1>2. n \div h \in Nat /\ n % h \in Nat /\ n % h < h
  OBVIOUS
<1>3. n - (n % h) <= h * (n \div h)
  OBVIOUS
<1>4. n >= h * (n \div h) + (n % h)
  OBVIOUS
<1>5. PICK q \in Nat, r \in Nat : q = n \div h /\ r = n % h
  BY <1>2
<1>6. n - r <= h * q /\ n >= h * q + r /\ r < h
  BY <1>2, <1>3, <1>4, <1>5
<1>7. q * h \in Nat /\ q * h <= n /\ n < q * h + h
  BY <1>6
<1>8. fb.width \in Nat
  BY DEF FbType
<1> QED BY <1>1, <1>5, <1>7, <1>8 DEF Height

(* The pixel rows of lines do not overlap.                                  *)
LEMMA RowsOf ==
    ASSUME FbType, NEW y \in 0 .. Height - 1, NEW gy \in 0 .. FontHeight - 1
    PROVE  /\ PixelRow(y, gy) \in Rows /\ PixelRow(y, gy) \in Nat
           /\ PixelRow(y, gy) + FontHeight = PixelRow(y + 1, gy)
           /\ PixelRow(y, gy) + FontHeight <= Height * FontHeight + gy
           /\ \A z \in Nat : PixelRow(y, gy) \in z * FontHeight .. z * FontHeight + FontHeight - 1
                             <=> y = z
           /\ PixelRow(y, gy) - y * FontHeight = gy
<1>1. PICK h \in Nat \ {0}, n \in Nat : h = FontHeight /\ n = Height /\ n * h <= fb.height
  BY HeightIs
<1>2. y \in Nat /\ y < n /\ gy \in Nat /\ gy < h /\ y * h \in Nat /\ n * h \in Nat /\ fb.height \in Nat
  BY <1>1, HeightIs
<1>3. y * h + h <= n * h
  BY <1>1, <1>2, LinesApart
<1>4. (y + 1) * h = y * h + h
  BY <1>2
<1>5. \A z \in Nat : y * h + gy \in z * h .. z * h + h - 1 <=> y = z
  <2> TAKE z \in Nat
  <2>1. z * h \in Nat
    OBVIOUS
  <2>2. CASE y < z
    <3>1. y * h + h <= z * h
      BY <1>1, <1>2, <2>2, LinesApart
    <3> QED BY <1>2, <2>1, <2>2, <3>1
  <2>3. CASE z < y
    <3>1. z * h + h <= y * h
      BY <1>1, <1>2, <2>3, LinesApart
    <3> QED BY <1>2, <2>1, <2>3, <3>1
  <2>4. CASE y = z
    BY <1>2, <2>1, <2>4
  <2> QED BY <1>2, <2>2, <2>3, <2>4
<1>6. PICK a \in Nat, b \in Nat : a = y * h /\ b = n * h
  BY <1>2
<1>7. a + gy \in 0 .. fb.height - 1 /\ a + gy \in Nat /\ a + gy + h <= b + gy /\ (a + gy) - a = gy
  BY <1>1, <1>2, <1>3, <1>6
<1> QED
  <2>1. PixelRow(y, gy) = a + gy /\ PixelRow(y + 1, gy) = a + h + gy
    BY <1>1, <1>4, <1>6 DEF PixelRow
  <2>2. PixelRow(y, gy) + FontHeight = PixelRow(y + 1, gy)
    BY <1>1, <1>2, <2>1
  <2> QED BY <1>1, <1>5, <1>6, <1>7, <2>1, <2>2 DEF Rows

-----------------------------------------------------------------------------
(* A glyph is drawn, a line begun. *)

LEMMA PixelTypes ==
    ASSUME NEW c \in Chars, NEW gy \in Nat
    PROVE  Pixel(c, gy) \in Dots /\ Pixel(Blank, gy) = Blank /\ Blank \in Dots
BY DEF Pixel, Chars, Dots

LEMMA SetTypes ==
    ASSUME FbType, NEW s \in Screens, NEW c \in Chars
    PROVE  /\ Set(s, c) \in Screens /\ Set(s, c).cx = s.cx /\ Set(s, c).cy = s.cy
           /\ Set(s, c).wild = (s.wild \/ s.cx >= fb.width \/ s.cy >= Height)
           /\ \A y \in Rows, x \in Columns :
                 Set(s, c).px[y][x] =
                   IF x = s.cx /\ y \in s.cy * FontHeight .. s.cy * FontHeight + FontHeight - 1
                   THEN Pixel(c, y - s.cy * FontHeight) ELSE s.px[y][x]
<1>1. s.px \in [Rows -> [Columns -> Dots]] /\ s.cx \in Nat /\ s.cy \in Nat /\ s.wild \in BOOLEAN
  BY DEF Screens
<1>2. PICK top \in Nat : top = s.cy * FontHeight
  BY <1>1, HeightIs
<1> DEFINE line(y) == IF s.cx \in Columns /\ y \in top .. top + FontHeight - 1
                      THEN [s.px[y] EXCEPT ![s.cx] = Pixel(c, y - top)] ELSE s.px[y]
           px1 == [y \in Rows |-> line(y)]
           wild1 == s.wild \/ s.cx >= fb.width \/ s.cy >= Height
<1>3. Set(s, c) = [s EXCEPT !.px = px1, !.wild = wild1]
  BY <1>2 DEF Set
<1>4. \A y \in Rows : /\ line(y) \in [Columns -> Dots]
                      /\ \A x \in Columns : line(y)[x] =
                            IF x = s.cx /\ y \in top .. top + FontHeight - 1
                            THEN Pixel(c, y - top) ELSE s.px[y][x]
  <2> SUFFICES ASSUME NEW y \in Rows
               PROVE  /\ line(y) \in [Columns -> Dots]
                      /\ \A x \in Columns : line(y)[x] =
                            IF x = s.cx /\ y \in top .. top + FontHeight - 1
                            THEN Pixel(c, y - top) ELSE s.px[y][x]
    OBVIOUS
  <2>1. s.px[y] \in [Columns -> Dots]
    BY <1>1
  <2>2. CASE s.cx \in Columns /\ y \in top .. top + FontHeight - 1
    <3>1. y - top \in Nat
      BY <1>2, <2>2, HeightIs
    <3>2. Pixel(c, y - top) \in Dots
      BY <3>1, PixelTypes
    <3> QED BY <2>1, <2>2, <3>2
  <2>3. CASE ~(s.cx \in Columns /\ y \in top .. top + FontHeight - 1)
    BY <2>1, <2>3
  <2> QED BY <2>2, <2>3
<1> HIDE DEF line
<1>5. px1 \in [Rows -> [Columns -> Dots]] /\ wild1 \in BOOLEAN
  BY <1>4
<1>6. \A y \in Rows : px1[y] = line(y)
  OBVIOUS
<1> HIDE DEF px1, wild1
<1>7. PICK t : t = Set(s, c)
  OBVIOUS
<1>8. t = [s EXCEPT !.px = px1, !.wild = wild1] /\ s \in Screens
  BY <1>3, <1>7
<1>9. t \in Screens /\ t.cx = s.cx /\ t.cy = s.cy /\ t.wild = wild1 /\ t.px = px1
  BY <1>5, <1>8 DEF Screens
<1>10. t.wild = (s.wild \/ s.cx >= fb.width \/ s.cy >= Height)
  BY <1>9 DEF wild1
<1> QED BY <1>2, <1>4, <1>6, <1>7, <1>9, <1>10

(* What the roll says of the screen, when its last line changes.            *)
LEMMA RollSet ==
    ASSUME FbType, NEW lines \in Seq(Lines), Len(lines) > 0, NEW x \in Columns, NEW c \in Chars
    PROVE  \E new : /\ new = [lines EXCEPT ![Len(lines)][x] = c]
                    /\ new \in Seq(Lines) /\ Len(new) = Len(lines) /\ Top(new) = Top(lines)
                    /\ \A y \in Nat, z \in Columns :
                          CharAt(new, y, z) = IF Top(lines) + y + 1 = Len(lines) /\ z = x THEN c
                                              ELSE CharAt(lines, y, z)
<1> DEFINE new == [lines EXCEPT ![Len(lines)][x] = c]
           n == Len(lines)
<1>1. n \in Nat /\ n > 0 /\ lines \in [1 .. n -> Lines] /\ n \in 1 .. n
  OBVIOUS
<1>2. [lines[n] EXCEPT ![x] = c] \in Lines
  BY <1>1 DEF Lines
<1>3. new = [lines EXCEPT ![n] = [lines[n] EXCEPT ![x] = c]]
  OBVIOUS
<1>4. new \in [1 .. n -> Lines] /\ new \in Seq(Lines) /\ Len(new) = n
  BY <1>1, <1>2, <1>3
<1>5. \A k \in 1 .. n, z \in Columns : new[k][z] = IF k = n /\ z = x THEN c ELSE lines[k][z]
  BY <1>1, <1>3 DEF Lines
<1> HIDE DEF new
<1>6. Top(new) = Top(lines)
  BY <1>4 DEF Top
<1>7. Top(lines) \in Nat
  BY <1>1, HeightIs DEF Top
<1>8. \A y \in Nat, z \in Columns :
        CharAt(new, y, z) = IF Top(lines) + y + 1 = n /\ z = x THEN c ELSE CharAt(lines, y, z)
  <2> TAKE y \in Nat, z \in Columns
  <2>1. PICK k \in Nat \ {0} : k = Top(lines) + y + 1
    BY <1>7
  <2>2. CharAt(new, y, z) = IF k <= n THEN new[k][z] ELSE Blank
    BY <1>4, <1>6, <2>1 DEF CharAt
  <2>3. CharAt(lines, y, z) = IF k <= n THEN lines[k][z] ELSE Blank
    BY <2>1 DEF CharAt
  <2>4. CASE k <= n
    <3>1. new[k][z] = IF k = n /\ z = x THEN c ELSE lines[k][z]
      <4>1. k \in 1 .. n
        BY <1>1, <2>1, <2>4
      <4> QED BY <1>5, <4>1
    <3> QED BY <2>1, <2>2, <2>3, <2>4, <3>1
  <2>5. CASE ~ k <= n
    <3>1. k # n
      BY <1>1, <2>1, <2>5
    <3> QED BY <2>1, <2>2, <2>3, <2>5, <3>1
  <2> QED BY <2>4, <2>5
<1> QED BY <1>4, <1>6, <1>8 DEF new

(* Drawing a glyph where the cursor is.                                     *)
LEMMA SetAgrees ==
    ASSUME FbType, NEW s, NEW lines, Agree(s, lines), s.cx < fb.width, NEW c \in Chars
    PROVE  /\ Agree(Set(s, c), [lines EXCEPT ![Len(lines)][s.cx] = c])
           /\ Set(s, c).wild = s.wild
<1>1. /\ s \in Screens /\ s.cx \in Nat /\ s.cy \in Nat /\ s.cy < Height /\ s.wild \in BOOLEAN
      /\ lines \in Seq(Lines) /\ Len(lines) > 0 /\ Len(lines) \in Nat
      /\ s.cy = Len(lines) - Top(lines) - 1
  BY DEF Agree, Screens
<1>2. s.cx \in Columns /\ s.cy \in 0 .. Height - 1 /\ Height \in Nat /\ fb.width \in Nat
  BY <1>1, HeightIs DEF Columns
<1>3. PICK x \in Columns : x = s.cx
  BY <1>2
<1>4. PICK t : t = Set(s, c)
  OBVIOUS
<1>5. PICK new : /\ new = [lines EXCEPT ![Len(lines)][x] = c]
                 /\ new \in Seq(Lines) /\ Len(new) = Len(lines) /\ Top(new) = Top(lines)
                 /\ \A y \in Nat, z \in Columns :
                       CharAt(new, y, z) = IF Top(lines) + y + 1 = Len(lines) /\ z = x THEN c
                                           ELSE CharAt(lines, y, z)
  BY <1>1, RollSet, Zenon
<1>6. /\ new \in Seq(Lines) /\ Len(new) = Len(lines) /\ Top(new) = Top(lines)
      /\ \A y \in Nat, z \in Columns :
            CharAt(new, y, z) = IF Top(lines) + y + 1 = Len(lines) /\ z = x THEN c
                                ELSE CharAt(lines, y, z)
  BY <1>5
<1>7. /\ t \in Screens /\ t.cx = s.cx /\ t.cy = s.cy
      /\ t.wild = (s.wild \/ s.cx >= fb.width \/ s.cy >= Height)
      /\ \A y \in Rows, z \in Columns :
            t.px[y][z] = IF z = x /\ y \in s.cy * FontHeight .. s.cy * FontHeight + FontHeight - 1
                         THEN Pixel(c, y - s.cy * FontHeight) ELSE s.px[y][z]
  BY <1>1, <1>3, <1>4, SetTypes
<1>8. t.wild = s.wild
  BY <1>1, <1>2, <1>3, <1>7
<1>9. Top(lines) \in Nat
  BY <1>1, <1>2 DEF Top
<1>10. \A y \in 0 .. Height - 1, z \in Columns, gy \in 0 .. FontHeight - 1 :
          t.px[PixelRow(y, gy)][z] = Pixel(CharAt(new, y, z), gy)
  <2> TAKE y \in 0 .. Height - 1, z \in Columns, gy \in 0 .. FontHeight - 1
  <2>1. /\ PixelRow(y, gy) \in Rows
        /\ PixelRow(y, gy) \in s.cy * FontHeight .. s.cy * FontHeight + FontHeight - 1 <=> y = s.cy
        /\ PixelRow(y, gy) - y * FontHeight = gy
    BY <1>1, RowsOf
  <2>2. s.px[PixelRow(y, gy)][z] = Pixel(CharAt(lines, y, z), gy)
    BY DEF Agree
  <2>3. y \in Nat /\ (Top(lines) + y + 1 = Len(lines) <=> y = s.cy)
    BY <1>1, <1>2, <1>9
  <2>4. CharAt(new, y, z) = IF y = s.cy /\ z = x THEN c ELSE CharAt(lines, y, z)
    BY <1>6, <2>3
  <2>5. CASE y = s.cy /\ z = x
    BY <1>7, <2>1, <2>4, <2>5
  <2>6. CASE ~(y = s.cy /\ z = x)
    BY <1>7, <2>1, <2>2, <2>4, <2>6
  <2> QED BY <2>5, <2>6
<1>11. \A row \in Rows, z \in Columns : row >= Height * FontHeight => t.px[row][z] = Blank
  <2> SUFFICES ASSUME NEW row \in Rows, NEW z \in Columns, row >= Height * FontHeight
               PROVE  t.px[row][z] = Blank
    OBVIOUS
  <2>1. s.cy * FontHeight + FontHeight <= Height * FontHeight
    BY <1>1, <1>2, LinesApart
  <2>2. PICK a \in Nat, b \in Nat : a = s.cy * FontHeight /\ b = Height * FontHeight
    BY <1>1, HeightIs
  <2>3. row \in Int
    BY HeightIs DEF Rows
  <2>4. row \notin a .. a + FontHeight - 1
    BY <2>1, <2>2, <2>3, HeightIs
  <2>5. s.px[row][z] = Blank
    BY DEF Agree
  <2> QED BY <1>7, <2>2, <2>4, <2>5
<1>12. Agree(t, new)
  BY <1>1, <1>2, <1>3, <1>6, <1>7, <1>10, <1>11 DEF Agree
<1> QED BY <1>3, <1>4, <1>5, <1>8, <1>12

(* A new line: the cursor goes down, or the screen up.                      *)
LEMMA NewlineTypes ==
    ASSUME FbType, NEW s \in Screens
    PROVE  /\ Newline(s) \in Screens /\ Newline(s).cx = 0 /\ Newline(s).wild = s.wild
           /\ s.cy + 1 < Height => Newline(s).cy = s.cy + 1 /\ Newline(s).px = s.px
           /\ ~ s.cy + 1 < Height =>
                 /\ Newline(s).cy = s.cy
                 /\ \A y \in Rows, x \in Columns :
                       Newline(s).px[y][x] =
                         IF FontHeight < fb.height /\ y < fb.height - FontHeight
                         THEN s.px[y + FontHeight][x] ELSE Blank
<1>1. s.px \in [Rows -> [Columns -> Dots]] /\ s.cx \in Nat /\ s.cy \in Nat /\ s.wild \in BOOLEAN
  BY DEF Screens
<1>2. PICK h \in Nat \ {0} : h = FontHeight
  BY HeightIs
<1>3. PICK p : p = Scroll(s.px, h)
  OBVIOUS
<1>4. p = [y \in Rows |-> IF h < fb.height /\ y < fb.height - h
                          THEN s.px[y + h] ELSE BlankLine(fb.width)]
  BY <1>3 DEF Scroll
<1>5. BlankLine(fb.width) \in [Columns -> Dots] /\ \A x \in Columns : BlankLine(fb.width)[x] = Blank
  BY DEF BlankLine, Columns, Dots
<1>6. \A y \in Rows : h < fb.height /\ y < fb.height - h => y + h \in Rows
  BY <1>2, HeightIs DEF Rows
<1>7. p \in [Rows -> [Columns -> Dots]]
  BY <1>1, <1>4, <1>5, <1>6
<1>8. \A y \in Rows, x \in Columns :
        p[y][x] = IF h < fb.height /\ y < fb.height - h THEN s.px[y + h][x] ELSE Blank
  BY <1>4, <1>5
<1>9. CASE s.cy + 1 < Height
  <2>1. PICK t : t = Newline(s)
    OBVIOUS
  <2>2. PICK j \in Nat : j = s.cy + 1
    BY <1>1
  <2>3. t = [s EXCEPT !.cx = 0, !.cy = j]
    BY <1>9, <2>1, <2>2 DEF Newline
  <2>4. t \in Screens /\ t.cx = 0 /\ t.wild = s.wild /\ t.cy = j /\ t.px = s.px
    BY <1>1, <2>2, <2>3 DEF Screens
  <2> QED BY <1>9, <2>1, <2>2, <2>4
<1>10. CASE ~ s.cy + 1 < Height
  <2>1. PICK t : t = Newline(s)
    OBVIOUS
  <2>2. t = [s EXCEPT !.cx = 0, !.px = p]
    BY <1>2, <1>3, <1>10, <2>1 DEF Newline
  <2>3. t \in Screens /\ t.cx = 0 /\ t.wild = s.wild /\ t.cy = s.cy /\ t.px = p
    BY <1>1, <1>7, <2>2 DEF Screens
  <2> QED BY <1>2, <1>8, <1>10, <2>1, <2>3
<1> QED BY <1>9, <1>10

LEMMA RollAppend ==
    ASSUME FbType, NEW lines \in Seq(Lines), Len(lines) > 0
    PROVE  \E new : /\ new = Append(lines, BlankLine(fb.width))
                    /\ new \in Seq(Lines) /\ Len(new) = Len(lines) + 1
                    /\ \A k \in 1 .. Len(lines) : new[k] = lines[k]
                    /\ \A x \in Columns : new[Len(lines) + 1][x] = Blank
<1>1. BlankLine(fb.width) \in Lines /\ \A x \in Columns : BlankLine(fb.width)[x] = Blank
  BY DEF BlankLine, Columns, Lines, Chars
<1>2. PICK blank \in Lines : blank = BlankLine(fb.width)
  BY <1>1
<1>3. PICK new : new = Append(lines, blank)
  OBVIOUS
<1>4. /\ new \in Seq(Lines) /\ Len(new) = Len(lines) + 1 /\ new[Len(lines) + 1] = blank
      /\ \A k \in 1 .. Len(lines) : new[k] = lines[k]
  BY <1>3
<1> QED BY <1>1, <1>2, <1>3, <1>4

LEMMA NewlineAgrees ==
    ASSUME FbType, NEW s, NEW lines, Agree(s, lines)
    PROVE  /\ Agree(Newline(s), Append(lines, BlankLine(fb.width)))
           /\ Newline(s).wild = s.wild /\ Newline(s).cx = 0
<1>1. /\ s \in Screens /\ s.cx \in Nat /\ s.cy \in Nat /\ s.cy < Height
      /\ lines \in Seq(Lines) /\ Len(lines) > 0 /\ Len(lines) \in Nat
      /\ s.cy = Len(lines) - Top(lines) - 1
  BY DEF Agree, Screens
<1>2. Height \in Nat /\ fb.width \in Nat
  BY HeightIs
<1>3. PICK new : /\ new = Append(lines, BlankLine(fb.width))
                 /\ new \in Seq(Lines) /\ Len(new) = Len(lines) + 1
                 /\ \A k \in 1 .. Len(lines) : new[k] = lines[k]
                 /\ \A x \in Columns : new[Len(lines) + 1][x] = Blank
  BY <1>1, RollAppend, Zenon
<1>4. PICK n \in Nat \ {0}, top \in Nat : n = Len(lines) /\ top = Top(lines)
  <2>1. Top(lines) \in Nat /\ Len(lines) # 0
    BY <1>1, <1>2 DEF Top
  <2> QED BY <1>1, <2>1
<1>5. PICK t : t = Newline(s)
  OBVIOUS
<1>6. t \in Screens /\ t.cx = 0 /\ t.wild = s.wild
  BY <1>1, <1>5, NewlineTypes
<1>7. CASE s.cy + 1 < Height
  <2>1. t.cy = s.cy + 1 /\ t.px = s.px
    BY <1>1, <1>5, <1>7, NewlineTypes
  <2>2. ~ n > Height /\ ~ n + 1 > Height /\ top = 0 /\ Top(new) = 0
    BY <1>1, <1>2, <1>3, <1>4, <1>7 DEF Top
  <2>3. \A y \in 0 .. Height - 1, x \in Columns : CharAt(new, y, x) = CharAt(lines, y, x)
    <3> TAKE y \in 0 .. Height - 1, x \in Columns
    <3>1. PICK k \in Nat \ {0} : k = 0 + y + 1
      BY <1>2
    <3>2. CharAt(new, y, x) = IF k <= n + 1 THEN new[k][x] ELSE Blank
      BY <1>3, <1>4, <2>2, <3>1 DEF CharAt
    <3>3. CharAt(lines, y, x) = IF k <= n THEN lines[k][x] ELSE Blank
      BY <1>4, <2>2, <3>1 DEF CharAt
    <3>4. CASE k \in 1 .. n
      BY <1>3, <1>4, <3>1, <3>2, <3>3, <3>4
    <3>5. CASE k = n + 1
      BY <1>3, <1>4, <3>1, <3>2, <3>3, <3>5
    <3>6. CASE k > n + 1
      BY <1>4, <3>1, <3>2, <3>3, <3>6
    <3> QED BY <1>4, <3>1, <3>4, <3>5, <3>6
  <2>4. \A y \in 0 .. Height - 1, x \in Columns, gy \in 0 .. FontHeight - 1 :
          t.px[PixelRow(y, gy)][x] = Pixel(CharAt(new, y, x), gy)
    BY <2>1, <2>3 DEF Agree
  <2>5. \A row \in Rows, x \in Columns : row >= Height * FontHeight => t.px[row][x] = Blank
    BY <2>1 DEF Agree
  <2>6. t.cx <= fb.width /\ t.cy < Height /\ Len(new) > 0 /\ t.cy = Len(new) - Top(new) - 1
    BY <1>1, <1>2, <1>3, <1>4, <1>6, <1>7, <2>1, <2>2
  <2>7. Agree(t, new)
    BY <1>3, <1>6, <2>4, <2>5, <2>6 DEF Agree
  <2> QED BY <1>3, <1>5, <1>6, <2>7
<1>8. CASE ~ s.cy + 1 < Height
  <2>1. /\ t.cy = s.cy
        /\ \A y \in Rows, x \in Columns :
              t.px[y][x] = IF FontHeight < fb.height /\ y < fb.height - FontHeight
                           THEN s.px[y + FontHeight][x] ELSE Blank
    BY <1>1, <1>5, <1>8, NewlineTypes
  <2>2. n - top = Height /\ n + 1 > Height /\ Top(new) = top + 1
    BY <1>1, <1>2, <1>3, <1>4, <1>8 DEF Top
  <2>3. \A y \in 0 .. Height - 1, x \in Columns :
          CharAt(new, y, x) = IF y + 1 < Height THEN CharAt(lines, y + 1, x) ELSE Blank
    <3> TAKE y \in 0 .. Height - 1, x \in Columns
    <3>1. PICK k \in Nat \ {0} : k = (top + 1) + y + 1 /\ k = top + (y + 1) + 1
      BY <1>2, <1>4
    <3>2. CharAt(new, y, x) = IF k <= n + 1 THEN new[k][x] ELSE Blank
      BY <1>3, <1>4, <2>2, <3>1 DEF CharAt
    <3>3. CharAt(lines, y + 1, x) = IF k <= n THEN lines[k][x] ELSE Blank
      BY <1>4, <3>1 DEF CharAt
    <3>4. CASE y + 1 < Height
      <4>1. k \in 1 .. n /\ k <= n + 1 /\ k <= n
        BY <1>2, <1>4, <2>2, <3>1, <3>4
      <4> QED BY <1>3, <1>4, <3>2, <3>3, <3>4, <4>1
    <3>5. CASE ~ y + 1 < Height
      <4>1. k = n + 1
        <5>1. y + 1 = Height
          BY <1>2, <3>5
        <5>2. k = top + Height + 1 /\ n = top + Height
          <6>1. PICK h \in Nat : h = Height
            BY <1>2
          <6>2. y + 1 = h /\ k = (top + 1) + y + 1 /\ n - top = h /\ y \in Int
            BY <2>2, <3>1, <5>1, <6>1
          <6>3. k = top + h + 1 /\ n = top + h
            BY <1>4, <6>1, <6>2
          <6> QED BY <6>1, <6>3
        <5> QED BY <5>2
      <4> QED BY <1>3, <1>4, <3>2, <3>5, <4>1
    <3> QED BY <3>4, <3>5
  <2>4. \A y \in 0 .. Height - 1, x \in Columns, gy \in 0 .. FontHeight - 1 :
          t.px[PixelRow(y, gy)][x] = Pixel(CharAt(new, y, x), gy)
    <3> TAKE y \in 0 .. Height - 1, x \in Columns, gy \in 0 .. FontHeight - 1
    <3>1. PICK row \in Nat : row = PixelRow(y, gy) /\ row \in Rows
      BY RowsOf
    <3>2. /\ row + FontHeight = PixelRow(y + 1, gy)
          /\ row + FontHeight <= Height * FontHeight + gy
      BY <3>1, RowsOf
    <3>3. CASE y + 1 < Height
      <4>1. y + 1 \in 0 .. Height - 1
        BY <1>2, <3>3
      <4>2. PixelRow(y + 1, gy) \in Rows
        BY <4>1, RowsOf
      <4>3. FontHeight < fb.height /\ row < fb.height - FontHeight
        <5>1. row + FontHeight < fb.height
          BY <3>2, <4>2, HeightIs DEF Rows
        <5>2. row >= 0 /\ (row = 0 \/ row > 0)
          BY <3>1
        <5> QED BY <3>1, <5>1, HeightIs
      <4>4. s.px[PixelRow(y + 1, gy)][x] = Pixel(CharAt(lines, y + 1, x), gy)
        BY <4>1 DEF Agree
      <4> QED BY <2>1, <2>3, <3>1, <3>2, <3>3, <4>3, <4>4
    <3>4. CASE ~ y + 1 < Height
      <4>1. CharAt(new, y, x) = Blank
        BY <2>3, <3>4
      <4>2. t.px[row][x] = Blank
        <5>1. CASE FontHeight < fb.height /\ row < fb.height - FontHeight
          <6>1. row + FontHeight \in Rows
            BY <3>1, <5>1, HeightIs DEF Rows
          <6>2. row + FontHeight >= Height * FontHeight
            <7>1. y + 1 = Height
              BY <1>2, <3>4
            <7>2. PixelRow(y + 1, gy) = Height * FontHeight + gy
              BY <7>1 DEF PixelRow
            <7> QED BY <3>2, <7>2, HeightIs
          <6>3. s.px[row + FontHeight][x] = Blank
            BY <6>1, <6>2 DEF Agree
          <6> QED BY <2>1, <3>1, <5>1, <6>3
        <5>2. CASE ~(FontHeight < fb.height /\ row < fb.height - FontHeight)
          BY <2>1, <3>1, <5>2
        <5> QED BY <5>1, <5>2
      <4> QED BY <3>1, <4>1, <4>2 DEF Pixel
    <3> QED BY <3>3, <3>4
  <2>5. \A row \in Rows, x \in Columns : row >= Height * FontHeight => t.px[row][x] = Blank
    <3> SUFFICES ASSUME NEW row \in Rows, NEW x \in Columns, row >= Height * FontHeight
                 PROVE  t.px[row][x] = Blank
      OBVIOUS
    <3>1. ~ row < fb.height - FontHeight
      BY HeightIs DEF Rows
    <3> QED BY <2>1, <3>1
  <2>6. t.cx <= fb.width /\ t.cy < Height /\ Len(new) > 0 /\ t.cy = Len(new) - Top(new) - 1
    BY <1>1, <1>2, <1>3, <1>4, <1>6, <2>1, <2>2
  <2>7. Agree(t, new)
    BY <1>3, <1>6, <2>4, <2>5, <2>6 DEF Agree
  <2> QED BY <1>3, <1>5, <1>6, <2>7
<1> QED BY <1>7, <1>8
-----------------------------------------------------------------------------
(* A character, and a tab.                                                  *)

(* The roll, and the column of its last line, are those of the screen.      *)
Matches(s, r) == r = [lines |-> r.lines, column |-> s.cx] /\ Agree(s, r.lines)

LEMMA CursorAgrees ==
    ASSUME FbType, NEW s, NEW lines, Agree(s, lines), NEW j \in Nat, j <= fb.width
    PROVE  \E t : /\ t = [s EXCEPT !.cx = j] /\ Agree(t, lines) /\ t.cx = j /\ t.wild = s.wild
<1>1. s \in Screens
  BY DEF Agree
<1>2. PICK t : t = [s EXCEPT !.cx = j]
  OBVIOUS
<1>3. t \in Screens /\ t.cx = j /\ t.wild = s.wild /\ t.cy = s.cy /\ t.px = s.px
  BY <1>1, <1>2 DEF Screens
<1>4. Agree(t, lines)
  BY <1>3 DEF Agree
<1> QED BY <1>2, <1>3, <1>4

LEMMA PutMatches ==
    ASSUME FbType, fb.width > 0, NEW s, NEW r, Matches(s, r), NEW c \in Chars
    PROVE  Matches(Put(s, c), RollPut(r, c)) /\ Put(s, c).wild = s.wild
<1>1. /\ Agree(s, r.lines) /\ r.column = s.cx /\ s.cx \in Nat /\ s.cx <= fb.width
      /\ fb.width \in Nat /\ 0 < fb.width
  BY HeightIs DEF Matches, Agree, Screens
<1>2. PICK u, lines, x : /\ u = (IF s.cx >= fb.width THEN Newline(s) ELSE s)
                         /\ lines = (IF r.column >= fb.width
                                     THEN Append(r.lines, BlankLine(fb.width)) ELSE r.lines)
                         /\ x = (IF r.column >= fb.width THEN 0 ELSE r.column)
  OBVIOUS
<1>3. Agree(u, lines) /\ u.cx = x /\ u.wild = s.wild /\ x \in Nat /\ x < fb.width
  <2>1. CASE s.cx >= fb.width
    <3>1. u = Newline(s) /\ lines = Append(r.lines, BlankLine(fb.width)) /\ x = 0
      BY <1>1, <1>2, <2>1
    <3>2. Agree(Newline(s), Append(r.lines, BlankLine(fb.width)))
          /\ Newline(s).wild = s.wild /\ Newline(s).cx = 0
      BY <1>1, NewlineAgrees
    <3> QED BY <1>1, <3>1, <3>2
  <2>2. CASE ~ s.cx >= fb.width
    BY <1>1, <1>2, <2>2
  <2> QED BY <2>1, <2>2
<1>4. PICK t, new : t = Set(u, c) /\ new = [lines EXCEPT ![Len(lines)][x] = c]
  OBVIOUS
<1>5. Agree(t, new) /\ t.wild = s.wild
  <2>1. u.cx < fb.width
    BY <1>3
  <2>2. Agree(Set(u, c), [lines EXCEPT ![Len(lines)][u.cx] = c]) /\ Set(u, c).wild = u.wild
    BY <1>3, <2>1, SetAgrees
  <2> QED BY <1>3, <1>4, <2>2
<1>6. t.cx = x
  <2>1. u \in Screens
    BY <1>3 DEF Agree
  <2> QED BY <1>3, <1>4, <2>1, SetTypes
<1>7. PICK j \in Nat : j = x + 1
  BY <1>3
<1>8. PICK v : v = [t EXCEPT !.cx = j] /\ Agree(v, new) /\ v.cx = j /\ v.wild = t.wild
  <2>1. j <= fb.width
    BY <1>1, <1>3, <1>7
  <2> QED BY <1>5, <2>1, CursorAgrees, Zenon
<1>9. Put(s, c) = v
  <2>1. Put(s, c) = [t EXCEPT !.cx = t.cx + 1]
    BY <1>2, <1>4 DEF Put
  <2> QED BY <1>6, <1>7, <1>8, <2>1
<1>10. RollPut(r, c) = [lines |-> new, column |-> j]
  BY <1>2, <1>4, <1>7 DEF RollPut
<1> QED BY <1>5, <1>8, <1>9, <1>10 DEF Matches

(* A tab is the spaces to the next tab stop, one after the other.           *)
LEMMA SpacesRange ==
    ASSUME NEW column \in Nat
    PROVE  Spaces(column) \in 1 .. 4
<1>1. column % 4 \in 0 .. 3
  OBVIOUS
<1> QED BY <1>1 DEF Spaces, TabWidth

LEMMA TabIs ==
    ASSUME NEW s
    PROVE  \E f : /\ Tab(s) = f[Spaces(s.cx)] /\ f[0] = s
                  /\ \A n \in 1 .. 4 : f[n] = Put(f[n - 1], Blank)
<1> DEFINE p1 == Put(s, Blank)
           p2 == Put(p1, Blank)
           p3 == Put(p2, Blank)
           p4 == Put(p3, Blank)
           f == [n \in 0 .. 4 |-> IF n = 0 THEN s ELSE IF n = 1 THEN p1 ELSE IF n = 2 THEN p2
                                  ELSE IF n = 3 THEN p3 ELSE p4]
           at == CHOOSE g : g = [n \in 0 .. 4 |-> IF n = 0 THEN s ELSE Put(g[n - 1], Blank)]
<1>1. f[0] = s /\ f[1] = p1 /\ f[2] = p2 /\ f[3] = p3 /\ f[4] = p4
  <2> HIDE DEF p1, p2, p3, p4
  <2> QED OBVIOUS
<1>2. \A n \in 0 .. 4 : f[n] = IF n = 0 THEN s ELSE Put(f[n - 1], Blank)
  <2> TAKE n \in 0 .. 4
  <2>1. n = 0 \/ n = 1 \/ n = 2 \/ n = 3 \/ n = 4
    OBVIOUS
  <2> HIDE DEF f
  <2> QED BY <1>1, <2>1
<1>3. f = [n \in 0 .. 4 |-> IF n = 0 THEN s ELSE Put(f[n - 1], Blank)]
  <2>1. f = [n \in 0 .. 4 |-> f[n]]
    <3> HIDE DEF p1, p2, p3, p4
    <3> QED OBVIOUS
  <2> HIDE DEF f
  <2> QED BY <1>2, <2>1
<1>4. at = [n \in 0 .. 4 |-> IF n = 0 THEN s ELSE Put(at[n - 1], Blank)]
  <2> HIDE DEF f
  <2> QED BY <1>3
<1>5. Tab(s) = at[Spaces(s.cx)]
  BY DEF Tab, TabWidth
<1> HIDE DEF at
<1>6. at[0] = s /\ \A n \in 1 .. 4 : at[n] = Put(at[n - 1], Blank)
  BY <1>4
<1> QED BY <1>5, <1>6

LEMMA RollTabIs ==
    ASSUME NEW r
    PROVE  \E f : /\ RollTab(r) = f[Spaces(r.column)] /\ f[0] = r
                  /\ \A n \in 1 .. 4 : f[n] = RollPut(f[n - 1], Blank)
<1> DEFINE p1 == RollPut(r, Blank)
           p2 == RollPut(p1, Blank)
           p3 == RollPut(p2, Blank)
           p4 == RollPut(p3, Blank)
           f == [n \in 0 .. 4 |-> IF n = 0 THEN r ELSE IF n = 1 THEN p1 ELSE IF n = 2 THEN p2
                                  ELSE IF n = 3 THEN p3 ELSE p4]
           at == CHOOSE g : g = [n \in 0 .. 4 |-> IF n = 0 THEN r ELSE RollPut(g[n - 1], Blank)]
<1>1. f[0] = r /\ f[1] = p1 /\ f[2] = p2 /\ f[3] = p3 /\ f[4] = p4
  <2> HIDE DEF p1, p2, p3, p4
  <2> QED OBVIOUS
<1>2. \A n \in 0 .. 4 : f[n] = IF n = 0 THEN r ELSE RollPut(f[n - 1], Blank)
  <2> TAKE n \in 0 .. 4
  <2>1. n = 0 \/ n = 1 \/ n = 2 \/ n = 3 \/ n = 4
    OBVIOUS
  <2> HIDE DEF f
  <2> QED BY <1>1, <2>1
<1>3. f = [n \in 0 .. 4 |-> IF n = 0 THEN r ELSE RollPut(f[n - 1], Blank)]
  <2>1. f = [n \in 0 .. 4 |-> f[n]]
    <3> HIDE DEF p1, p2, p3, p4
    <3> QED OBVIOUS
  <2> HIDE DEF f
  <2> QED BY <1>2, <2>1
<1>4. at = [n \in 0 .. 4 |-> IF n = 0 THEN r ELSE RollPut(at[n - 1], Blank)]
  <2> HIDE DEF f
  <2> QED BY <1>3
<1>5. RollTab(r) = at[Spaces(r.column)]
  BY DEF RollTab, TabWidth
<1> HIDE DEF at
<1>6. at[0] = r /\ \A n \in 1 .. 4 : at[n] = RollPut(at[n - 1], Blank)
  BY <1>4
<1> QED BY <1>5, <1>6
LEMMA TabMatches ==
    ASSUME FbType, fb.width > 0, NEW s, NEW r, Matches(s, r)
    PROVE  Matches(Tab(s), RollTab(r))
<1>1. s.cx \in Nat /\ r.column = s.cx
  BY DEF Matches, Agree, Screens
<1>2. PICK n \in 1 .. 4 : n = Spaces(s.cx) /\ n = Spaces(r.column)
  BY <1>1, SpacesRange
<1>3. PICK f : /\ Tab(s) = f[Spaces(s.cx)] /\ f[0] = s
               /\ \A k \in 1 .. 4 : f[k] = Put(f[k - 1], Blank)
  BY TabIs
<1>4. PICK g : /\ RollTab(r) = g[Spaces(r.column)] /\ g[0] = r
               /\ \A k \in 1 .. 4 : g[k] = RollPut(g[k - 1], Blank)
  BY RollTabIs
<1>5. \A k \in 1 .. 4 : Matches(f[k - 1], g[k - 1]) => Matches(f[k], g[k])
  <2> TAKE k \in 1 .. 4
  <2> HAVE Matches(f[k - 1], g[k - 1])
  <2>1. Blank \in Chars
    BY DEF Chars
  <2>2. Matches(Put(f[k - 1], Blank), RollPut(g[k - 1], Blank))
    BY <2>1, PutMatches
  <2> QED BY <1>3, <1>4, <2>2
<1>6. Matches(f[0], g[0])
  BY <1>3, <1>4
<1>7. Matches(f[1], g[1])
  BY <1>5, <1>6
<1>8. Matches(f[2], g[2])
  BY <1>5, <1>7
<1>9. Matches(f[3], g[3])
  BY <1>5, <1>8
<1>10. Matches(f[4], g[4])
  BY <1>5, <1>9
<1>11. n = 1 \/ n = 2 \/ n = 3 \/ n = 4
  OBVIOUS
<1>12. Matches(f[n], g[n])
  BY <1>7, <1>8, <1>9, <1>10, <1>11
<1> QED BY <1>2, <1>3, <1>4, <1>12

LEMMA BackspaceAgrees ==
    ASSUME FbType, NEW s, NEW lines, Agree(s, lines), s.cx > 0
    PROVE  Agree(Backspace(s), [lines EXCEPT ![Len(lines)][s.cx - 1] = Blank])
<1>1. s.cx \in Nat /\ s.cx <= fb.width /\ fb.width \in Nat
  BY HeightIs DEF Agree, Screens
<1>2. PICK j \in Nat : j = s.cx - 1 /\ j <= fb.width /\ j < fb.width
  <2>1. s.cx - 1 \in Nat /\ s.cx - 1 <= fb.width /\ s.cx - 1 < fb.width
    BY <1>1
  <2> QED BY <2>1
<1>3. PICK t : t = [s EXCEPT !.cx = j] /\ Agree(t, lines) /\ t.cx = j /\ t.wild = s.wild
  BY <1>2, CursorAgrees, Zenon
<1>4. Blank \in Chars /\ t.cx < fb.width
  BY <1>2, <1>3 DEF Chars
<1>5. Agree(Set(t, Blank), [lines EXCEPT ![Len(lines)][t.cx] = Blank])
  BY <1>3, <1>4, SetAgrees
<1>6. Backspace(s) = Set(t, Blank)
  <2>1. Backspace(s) = Set([s EXCEPT !.cx = s.cx - 1], Blank)
    BY DEF Backspace
  <2> QED BY <1>2, <1>3, <2>1
<1> QED BY <1>2, <1>3, <1>5, <1>6

(* Every rune.                                                              *)
LEMMA PrintedAgrees ==
    ASSUME FbType, fb.width > 0, NEW s, NEW lines, Agree(s, lines), NEW rune \in Rune
    PROVE  Agree(Printed(s, rune), RollPrinted(lines, s.cx, rune))
<1>1. PICK r : r = [lines |-> lines, column |-> s.cx]
  OBVIOUS
<1>2. Matches(s, r) /\ r.lines = lines
  BY <1>1 DEF Matches
<1>3. CASE rune = "newline"
  <2>1. Printed(s, rune) = Newline(s)
        /\ RollPrinted(lines, s.cx, rune) = Append(lines, BlankLine(fb.width))
    BY <1>3 DEF Printed, RollPrinted
  <2> QED BY <2>1, NewlineAgrees
<1>4. CASE rune = "return"
  <2>1. Printed(s, rune) = [s EXCEPT !.cx = 0] /\ RollPrinted(lines, s.cx, rune) = lines
    BY <1>4 DEF Printed, RollPrinted
  <2>2. PICK j \in Nat : j = 0 /\ j <= fb.width
    BY HeightIs
  <2>3. PICK t : t = [s EXCEPT !.cx = j] /\ Agree(t, lines) /\ t.cx = j /\ t.wild = s.wild
    BY <2>2, CursorAgrees, Zenon
  <2> QED BY <2>1, <2>2, <2>3
<1>5. CASE rune = "tab"
  <2>1. Printed(s, rune) = Tab(s) /\ RollPrinted(lines, s.cx, rune) = RollTab(r).lines
    BY <1>1, <1>5 DEF Printed, RollPrinted
  <2>2. Matches(Tab(s), RollTab(r))
    BY <1>2, TabMatches
  <2> QED BY <2>1, <2>2 DEF Matches
<1>6. CASE rune = "backspace"
  <2>1. Printed(s, rune) = Backspace(s)
    BY <1>6 DEF Printed
  <2>2. CASE s.cx > 0
    <3>1. RollPrinted(lines, s.cx, rune) = [lines EXCEPT ![Len(lines)][s.cx - 1] = Blank]
      BY <1>6, <2>2 DEF RollPrinted
    <3> QED BY <2>1, <2>2, <3>1, BackspaceAgrees
  <2>3. CASE ~ s.cx > 0
    <3>1. RollPrinted(lines, s.cx, rune) = lines /\ Backspace(s) = s
      BY <1>6, <2>3 DEF RollPrinted, Backspace
    <3> QED BY <2>1, <3>1
  <2> QED BY <2>2, <2>3
<1>7. CASE rune \in {"a", "1", "alien"} /\ ~escaped
  <2>1. Printed(s, rune) = Put(s, Glyph(rune))
        /\ RollPrinted(lines, s.cx, rune) = RollPut(r, Glyph(rune)).lines
    BY <1>1, <1>7 DEF Printed, RollPrinted
  <2>2. Glyph(rune) \in Chars
    BY <1>7 DEF Glyph, Chars
  <2>3. Matches(Put(s, Glyph(rune)), RollPut(r, Glyph(rune)))
    BY <1>2, <2>2, PutMatches
  <2> QED BY <2>1, <2>3 DEF Matches
<1>8. CASE /\ rune \notin {"newline", "return", "tab", "backspace"}
           /\ ~(rune \in {"a", "1", "alien"} /\ ~escaped)
  <2>1. Printed(s, rune) = s /\ RollPrinted(lines, s.cx, rune) = lines
    BY <1>8 DEF Printed, RollPrinted
  <2> QED BY <2>1
<1> QED BY <1>3, <1>4, <1>5, <1>6, <1>7, <1>8

-----------------------------------------------------------------------------
(* What printing leaves of a screen that shows anything else.               *)

Inside(s) == s.cx <= fb.width /\ s.cy < Height

(* A step of printing: t is a screen, and inside like s was.                *)
Keeps(s, t) == t \in Screens /\ (Inside(s) => Inside(t) /\ t.wild = s.wild)

LEMMA PutKeeps ==
    ASSUME FbType, fb.width > 0, NEW s \in Screens, NEW c \in Chars
    PROVE  Keeps(s, Put(s, c))
<1>1. s.cx \in Nat /\ s.cy \in Nat /\ fb.width \in Nat /\ Height \in Nat /\ s.wild \in BOOLEAN
  BY HeightIs DEF Screens
<1>2. PICK u : u = IF s.cx >= fb.width THEN Newline(s) ELSE s
  OBVIOUS
<1>3. /\ u \in Screens /\ u.wild = s.wild /\ (Inside(s) => u.cy < Height)
      /\ u.cx < fb.width
  <2>1. CASE s.cx >= fb.width
    <3>1. u = Newline(s)
      BY <1>2, <2>1
    <3>2. u \in Screens /\ u.cx = 0 /\ u.wild = s.wild /\ ((u.cy = s.cy + 1 /\ s.cy + 1 < Height) \/ u.cy = s.cy)
      BY <3>1, NewlineTypes
    <3> QED BY <1>1, <3>2 DEF Inside
  <2>2. CASE ~ s.cx >= fb.width
    BY <1>1, <1>2, <2>2 DEF Inside
  <2> QED BY <2>1, <2>2
<1>4. PICK t : t = Set(u, c)
  OBVIOUS
<1>5. /\ t \in Screens /\ t.cx = u.cx /\ t.cy = u.cy
      /\ t.wild = (u.wild \/ u.cx >= fb.width \/ u.cy >= Height)
  BY <1>3, <1>4, SetTypes
<1>6. u.cx \in Nat /\ u.cy \in Nat
  BY <1>3 DEF Screens
<1>7. PICK j \in Nat : j = t.cx + 1 /\ j <= fb.width
  BY <1>1, <1>3, <1>5, <1>6
<1>8. PICK v : v = [t EXCEPT !.cx = j]
  OBVIOUS
<1>9. v \in Screens /\ v.cx = j /\ v.cy = t.cy /\ v.wild = t.wild
  BY <1>5, <1>8 DEF Screens
<1>10. Put(s, c) = v
  BY <1>2, <1>4, <1>7, <1>8 DEF Put
<1>11. Inside(s) => v.cx <= fb.width /\ v.cy < Height
  BY <1>3, <1>5, <1>7, <1>9
<1>12. Inside(s) => v.wild = s.wild
  <2> HAVE Inside(s)
  <2>1. ~ u.cx >= fb.width /\ ~ u.cy >= Height
    BY <1>1, <1>3, <1>6
  <2> QED BY <1>1, <1>3, <1>5, <1>9, <2>1
<1> QED BY <1>9, <1>10, <1>11, <1>12 DEF Keeps, Inside

LEMMA TabKeeps ==
    ASSUME FbType, fb.width > 0, NEW s \in Screens
    PROVE  Keeps(s, Tab(s))
<1>1. s.cx \in Nat
  BY DEF Screens
<1>2. PICK n \in 1 .. 4 : n = Spaces(s.cx)
  BY <1>1, SpacesRange
<1>3. PICK f : /\ Tab(s) = f[Spaces(s.cx)] /\ f[0] = s
               /\ \A k \in 1 .. 4 : f[k] = Put(f[k - 1], Blank)
  BY TabIs
<1>4. \A k \in 1 .. 4 : Keeps(s, f[k - 1]) => Keeps(s, f[k])
  <2> TAKE k \in 1 .. 4
  <2> HAVE Keeps(s, f[k - 1])
  <2>1. Blank \in Chars /\ f[k - 1] \in Screens
    BY DEF Chars, Keeps
  <2>2. Keeps(f[k - 1], Put(f[k - 1], Blank))
    BY <2>1, PutKeeps
  <2>3. f[k] = Put(f[k - 1], Blank)
    BY <1>3
  <2> QED BY <2>2, <2>3 DEF Keeps
<1>5. Keeps(s, f[0])
  BY <1>3 DEF Keeps
<1>6. Keeps(s, f[1])
  BY <1>4, <1>5
<1>7. Keeps(s, f[2])
  BY <1>4, <1>6
<1>8. Keeps(s, f[3])
  BY <1>4, <1>7
<1>9. Keeps(s, f[4])
  BY <1>4, <1>8
<1>10. n = 1 \/ n = 2 \/ n = 3 \/ n = 4
  OBVIOUS
<1>11. Keeps(s, f[n])
  BY <1>6, <1>7, <1>8, <1>9, <1>10
<1> QED BY <1>2, <1>3, <1>11

LEMMA CursorKeeps ==
    ASSUME FbType, NEW s \in Screens, NEW j \in Nat
    PROVE  \E t : /\ t = [s EXCEPT !.cx = j] /\ t \in Screens
                  /\ t.cx = j /\ t.cy = s.cy /\ t.wild = s.wild
<1>1. PICK t : t = [s EXCEPT !.cx = j]
  OBVIOUS
<1>2. t \in Screens /\ t.cx = j /\ t.cy = s.cy /\ t.wild = s.wild
  BY <1>1 DEF Screens
<1> QED BY <1>1, <1>2

LEMMA BackspaceKeeps ==
    ASSUME FbType, NEW s \in Screens
    PROVE  Keeps(s, Backspace(s))
<1>1. s.cx \in Nat /\ s.cy \in Nat /\ fb.width \in Nat /\ Height \in Nat /\ s.wild \in BOOLEAN
  BY HeightIs DEF Screens
<1>2. CASE s.cx > 0
  <2>1. PICK j \in Nat : j = s.cx - 1
    BY <1>1, <1>2
  <2>2. PICK t : /\ t = [s EXCEPT !.cx = j] /\ t \in Screens
                 /\ t.cx = j /\ t.cy = s.cy /\ t.wild = s.wild
    BY CursorKeeps, Zenon
  <2>3. PICK v : v = Set(t, Blank)
    OBVIOUS
  <2>4. Backspace(s) = v
    <3>1. Backspace(s) = Set([s EXCEPT !.cx = s.cx - 1], Blank)
      BY <1>2 DEF Backspace
    <3> QED BY <2>1, <2>2, <2>3, <3>1
  <2>5. /\ v \in Screens /\ v.cx = t.cx /\ v.cy = t.cy
        /\ v.wild = (t.wild \/ t.cx >= fb.width \/ t.cy >= Height)
    <3>1. Blank \in Chars /\ t \in Screens
      BY <2>2 DEF Chars
    <3> QED BY <2>3, <3>1, SetTypes
  <2>6. Inside(s) => ~ t.cx >= fb.width /\ ~ t.cy >= Height /\ v.cx <= fb.width /\ v.cy < Height
    BY <1>1, <1>2, <2>1, <2>2, <2>5 DEF Inside
  <2>7. Inside(s) => v.wild = s.wild
    BY <1>1, <2>2, <2>5, <2>6
  <2> QED BY <2>4, <2>5, <2>6, <2>7 DEF Keeps, Inside
<1>3. CASE ~ s.cx > 0
  <2>1. Backspace(s) = s
    BY <1>3 DEF Backspace
  <2> QED BY <2>1 DEF Keeps
<1> QED BY <1>2, <1>3

LEMMA PrintedKeeps ==
    ASSUME FbType, fb.width > 0, NEW s \in Screens, NEW rune \in Rune
    PROVE  Keeps(s, Printed(s, rune))
<1>1. s.cx \in Nat /\ s.cy \in Nat /\ fb.width \in Nat /\ Height \in Nat
  BY HeightIs DEF Screens
<1>2. CASE rune = "newline"
  <2>1. Printed(s, rune) = Newline(s)
    BY <1>2 DEF Printed
  <2>2. PICK t : t = Newline(s)
    OBVIOUS
  <2>3. t \in Screens /\ t.cx = 0 /\ t.wild = s.wild /\ ((t.cy = s.cy + 1 /\ s.cy + 1 < Height) \/ t.cy = s.cy)
    BY <2>2, NewlineTypes
  <2>4. Inside(s) => t.cx <= fb.width /\ t.cy < Height
    BY <1>1, <2>3 DEF Inside
  <2> QED BY <2>1, <2>2, <2>3, <2>4 DEF Keeps, Inside
<1>3. CASE rune = "return"
  <2>1. Printed(s, rune) = [s EXCEPT !.cx = 0]
    BY <1>3 DEF Printed
  <2>2. PICK j \in Nat : j = 0
    OBVIOUS
  <2>3. PICK t : /\ t = [s EXCEPT !.cx = j] /\ t \in Screens
                 /\ t.cx = j /\ t.cy = s.cy /\ t.wild = s.wild
    BY CursorKeeps, Zenon
  <2>4. Inside(s) => t.cx <= fb.width /\ t.cy < Height
    BY <1>1, <2>2, <2>3 DEF Inside
  <2> QED BY <2>1, <2>2, <2>3, <2>4 DEF Keeps, Inside
<1>4. CASE rune = "tab"
  <2>1. Printed(s, rune) = Tab(s)
    BY <1>4 DEF Printed
  <2> QED BY <2>1, TabKeeps
<1>5. CASE rune = "backspace"
  <2>1. Printed(s, rune) = Backspace(s)
    BY <1>5 DEF Printed
  <2> QED BY <2>1, BackspaceKeeps
<1>6. CASE rune \in {"a", "1", "alien"} /\ ~escaped
  <2>1. Printed(s, rune) = Put(s, Glyph(rune))
    BY <1>6 DEF Printed
  <2>2. Glyph(rune) \in Chars
    BY <1>6 DEF Glyph, Chars
  <2> QED BY <2>1, <2>2, PutKeeps
<1>7. CASE /\ rune \notin {"newline", "return", "tab", "backspace"}
           /\ ~(rune \in {"a", "1", "alien"} /\ ~escaped)
  <2>1. Printed(s, rune) = s
    BY <1>7 DEF Printed
  <2> QED BY <2>1 DEF Keeps
<1> QED BY <1>2, <1>3, <1>4, <1>5, <1>6, <1>7
-----------------------------------------------------------------------------
(* The inductive invariant.  A screen that does not fit its cursor is only  *)
(* known to be a screen: until it is cleared nothing is claimed about it.   *)

TypeInv ==
    /\ FbType /\ Screen \in Screens
    /\ clean \in BOOLEAN /\ unfit \in BOOLEAN /\ wild \in BOOLEAN

FitsInv == ~unfit => cx <= fb.width /\ (Height > 0 => cy < Height)

RollInv == clean => ~unfit /\ (Height > 0 => Agree(Screen, roll))

IInv == TypeInv /\ FitsInv /\ RollInv /\ DrawsInside

LEMMA ScreenIs ==
    /\ Screen.px = px /\ Screen.cx = cx /\ Screen.cy = cy /\ Screen.wild = FALSE
BY DEF Screen

LEMMA BlankRows ==
    ASSUME FbType
    PROVE  /\ [y \in Rows |-> BlankLine(fb.width)] \in [Rows -> [Columns -> Dots]]
           /\ BlankLine(fb.width) \in Lines
           /\ \A x \in Columns : BlankLine(fb.width)[x] = Blank
BY DEF BlankLine, Columns, Lines, Dots, Chars

(* A cleared screen, or one with nothing in it yet, shows an empty line.    *)
LEMMA ClearAgrees ==
    ASSUME FbType, Height > 0,
           NEW s, s = [px |-> [y \in Rows |-> BlankLine(fb.width)], cx |-> 0, cy |-> 0, wild |-> FALSE]
    PROVE  Agree(s, <<BlankLine(fb.width)>>)
<1>1. PICK blank \in Lines : blank = BlankLine(fb.width)
  BY BlankRows
<1>2. \A x \in Columns : blank[x] = Blank
  BY <1>1, BlankRows
<1>3. PICK p : p = [y \in Rows |-> blank]
  OBVIOUS
<1>4. p \in [Rows -> [Columns -> Dots]] /\ \A y \in Rows, x \in Columns : p[y][x] = Blank
  BY <1>1, <1>2, <1>3, BlankRows
<1>5. s \in Screens /\ s.px = p /\ s.cx = 0 /\ s.cy = 0
  BY <1>1, <1>3, <1>4 DEF Screens
<1>6. PICK lines : lines = <<blank>>
  OBVIOUS
<1>7. lines \in Seq(Lines) /\ Len(lines) = 1 /\ lines[1] = blank
  BY <1>1, <1>6
<1>8. Height \in Nat /\ fb.width \in Nat
  BY HeightIs
<1>9. Top(lines) = 0
  BY <1>7, <1>8 DEF Top
<1>10. \A y \in 0 .. Height - 1, x \in Columns : CharAt(lines, y, x) = Blank
  <2> TAKE y \in 0 .. Height - 1, x \in Columns
  <2>1. PICK k \in Nat \ {0} : k = 0 + y + 1
    BY <1>8
  <2>2. CharAt(lines, y, x) = IF k <= 1 THEN lines[k][x] ELSE Blank
    BY <1>7, <1>9, <2>1 DEF CharAt
  <2>3. CASE k = 1
    BY <1>2, <1>7, <2>2, <2>3
  <2>4. CASE k > 1
    BY <2>1, <2>2, <2>4
  <2> QED BY <2>1, <2>3, <2>4
<1>11. \A y \in 0 .. Height - 1, x \in Columns, gy \in 0 .. FontHeight - 1 :
          s.px[PixelRow(y, gy)][x] = Pixel(CharAt(lines, y, x), gy)
  <2> TAKE y \in 0 .. Height - 1, x \in Columns, gy \in 0 .. FontHeight - 1
  <2>1. PixelRow(y, gy) \in Rows
    BY RowsOf
  <2> QED BY <1>4, <1>5, <1>10, <2>1 DEF Pixel
<1>12. Agree(s, lines)
  BY <1>4, <1>5, <1>7, <1>8, <1>9, <1>11 DEF Agree
<1> QED BY <1>1, <1>6, <1>12

LEMMA TypeInit ==
    ASSUME Init
    PROVE  IInv
<1>1. FbType /\ fb = NoBuffer /\ fb.width = 0 /\ fb.height = 0
  BY DEF Init, NoBuffer, FbType
<1>2. Screen \in Screens
  <2>1. Rows = {}
    BY <1>1 DEF Rows
  <2>2. px \in [Rows -> [Columns -> Dots]]
    BY <2>1 DEF Init
  <2> QED BY <2>2 DEF Init, Screen, Screens
<1>3. cx = 0 /\ cy = 0 /\ clean = FALSE /\ unfit = FALSE /\ wild = FALSE
  BY DEF Init
<1>4. FitsInv
  BY <1>1, <1>3 DEF FitsInv
<1> QED BY <1>1, <1>2, <1>3, <1>4 DEF IInv, TypeInv, RollInv, DrawsInside

(* While the framebuffer stays, screens and rolls agree as before.          *)
LEMMA SameBuffer ==
    ASSUME fb' = fb, NEW s, NEW lines
    PROVE  Agree(s, lines) = Agree(s, lines)' /\ Height' = Height /\ Screens' = Screens
BY DEF Agree, Height, Screens, Lines, Columns, Rows, Top, CharAt

LEMMA EnableKeeps ==
    ASSUME IInv, NEW on \in BOOLEAN, Enable(on)
    PROVE  IInv'
BY DEF Enable, IInv, TypeInv, FbType, FitsInv, RollInv, DrawsInside, Agree, Height, Screens, Screen,
       Lines, Columns, Rows, Top, CharAt

LEMMA BindKeeps ==
    ASSUME IInv, NEW buffer \in Buffers, Bind(buffer)
    PROVE  IInv'
<1>1. FbType' /\ fb' = buffer /\ cx' = cx /\ cy' = cy /\ clean' = FALSE /\ wild' = FALSE
  BY ConsoleAssumption DEF Bind, FbType
<1>2. cx \in Nat /\ cy \in Nat
  BY DEF IInv, TypeInv, Screen, Screens
<1>3. Screen' \in Screens'
  <2>1. px' \in [Rows' -> [Columns' -> Dots]]
    BY DEF Bind, Rows, Columns, Dots
  <2> QED BY <1>1, <1>2, <2>1 DEF Screen, Screens
<1>4. FontHeight \in Nat \ {0} /\ buffer.width \in Nat /\ buffer.height \in Nat
  BY ConsoleAssumption
<1>5. PICK h \in Nat : h = buffer.height \div FontHeight
  BY <1>4
<1>6. unfit' = (cy >= h \/ cx > buffer.width) /\ Height' = h
  BY <1>1, <1>5 DEF Bind, Height
<1>7. unfit' \in BOOLEAN
  BY <1>6, Zenon
<1>8. FitsInv'
  <2>1. ~ cy >= h => cy < h
    BY <1>2, <1>5
  <2>2. ~ cx > buffer.width => cx <= buffer.width
    BY <1>2, <1>4
  <2> QED BY <1>1, <1>6, <2>1, <2>2 DEF FitsInv
<1> QED BY <1>1, <1>3, <1>7, <1>8 DEF IInv, TypeInv, RollInv, DrawsInside

LEMMA ClearKeeps ==
    ASSUME IInv, Clear
    PROVE  IInv'
<1>1. /\ FbType /\ fb' = fb /\ cx' = 0 /\ cy' = 0
      /\ clean' = TRUE /\ unfit' = FALSE /\ wild' = FALSE
      /\ px' = [y \in Rows |-> BlankLine(fb.width)] /\ roll' = <<BlankLine(fb.width)>>
  BY DEF Clear, IInv, TypeInv
<1>2. FbType'
  BY <1>1 DEF FbType
<1>3. PICK s, lines : /\ s = [px |-> px', cx |-> 0, cy |-> 0, wild |-> FALSE]
                      /\ lines = roll'
  OBVIOUS
<1>4. Screen' = s
  BY <1>1, <1>3 DEF Screen
<1>5. s \in Screens
  BY <1>1, <1>3, BlankRows DEF Screens
<1>6. Height > 0 => Agree(s, lines)
  BY <1>1, <1>3, ClearAgrees
<1>7. Screen' \in Screens' /\ (Height' > 0 => Agree(s, lines)')
  BY <1>1, <1>4, <1>5, <1>6, SameBuffer
<1>8. RollInv'
  BY <1>1, <1>3, <1>4, <1>7 DEF RollInv
<1>9. FitsInv'
  BY <1>1, <1>2 DEF FitsInv, FbType
<1> QED BY <1>1, <1>2, <1>7, <1>8, <1>9 DEF IInv, TypeInv, DrawsInside

LEMMA WriteRuneKeeps ==
    ASSUME IInv, NEW rune \in Rune, WriteRune(rune)
    PROVE  IInv'
<1>1. PICK s, t : s = Screen /\ t = Printed(s, rune)
  OBVIOUS
<1>2. /\ fb' = fb /\ unfit' = unfit /\ clean' = clean
      /\ px' = t.px /\ cx' = t.cx /\ cy' = t.cy /\ wild' = t.wild
      /\ roll' = IF clean THEN RollPrinted(roll, cx, rune) ELSE roll
      /\ fb.width > 0 /\ Height > 0
  BY <1>1 DEF WriteRune, Shows
<1>3. /\ FbType /\ s \in Screens /\ clean \in BOOLEAN /\ unfit \in BOOLEAN
      /\ s.cx = cx /\ s.cy = cy /\ s.wild = FALSE
  BY <1>1, ScreenIs DEF IInv, TypeInv
<1>4. FbType'
  BY <1>2, <1>3 DEF FbType
<1>5. Keeps(s, t)
  BY <1>1, <1>2, <1>3, PrintedKeeps
<1>6. t \in Screens /\ (Inside(s) => Inside(t) /\ t.wild = FALSE)
  BY <1>3, <1>5 DEF Keeps
<1>7. t.px \in [Rows -> [Columns -> Dots]] /\ t.cx \in Nat /\ t.cy \in Nat /\ t.wild \in BOOLEAN
  BY <1>6 DEF Screens
<1>8. PICK v : v = [px |-> t.px, cx |-> t.cx, cy |-> t.cy, wild |-> FALSE]
  OBVIOUS
<1>9. v \in Screens /\ v.px = t.px /\ v.cx = t.cx /\ v.cy = t.cy
  BY <1>7, <1>8 DEF Screens
<1>10. Screen' = v
  BY <1>2, <1>8 DEF Screen
<1>11. ~unfit => Inside(s)
  BY <1>2, <1>3 DEF IInv, FitsInv, Inside
<1>12. TypeInv'
  BY <1>2, <1>3, <1>4, <1>7, <1>9, <1>10, SameBuffer DEF TypeInv
<1>13. FitsInv'
  BY <1>2, <1>6, <1>11, SameBuffer DEF FitsInv, Inside
<1>14. DrawsInside'
  BY <1>2, <1>6, <1>11 DEF DrawsInside
<1>15. RollInv'
  <2>1. CASE clean
    <3>1. Agree(s, roll) /\ ~unfit
      BY <1>1, <1>2, <2>1 DEF IInv, RollInv
    <3>2. PICK lines : lines = RollPrinted(roll, cx, rune)
      OBVIOUS
    <3>3. roll' = lines
      BY <1>2, <2>1, <3>2
    <3>4. Agree(t, lines)
      BY <1>1, <1>2, <1>3, <3>1, <3>2, PrintedAgrees
    <3>5. Agree(v, lines)
      BY <1>9, <3>4 DEF Agree
    <3>6. Agree(v, lines)'
      BY <1>2, <3>5, SameBuffer
    <3> QED BY <1>2, <1>10, <3>1, <3>3, <3>6 DEF RollInv
  <2>2. CASE ~clean
    BY <1>2, <2>2 DEF RollInv
  <2> QED BY <1>3, <2>1, <2>2
<1> QED BY <1>12, <1>13, <1>14, <1>15 DEF IInv

LEMMA StutterKeeps ==
    ASSUME IInv, UNCHANGED vars
    PROVE  IInv'
<1>1. fb' = fb /\ cx' = cx /\ cy' = cy /\ wild' = wild /\ unfit' = unfit /\ clean' = clean /\ roll' = roll
  BY DEF vars
<1>2. PICK s, lines : s = Screen /\ lines = roll
  OBVIOUS
<1>3. Screen' = s
  BY <1>2 DEF vars, Screen
<1>4. Height' = Height /\ Screens' = Screens /\ Agree(s, lines) = Agree(s, lines)'
  BY <1>1, SameBuffer
<1>5. TypeInv'
  BY <1>1, <1>2, <1>3, <1>4 DEF IInv, TypeInv, FbType
<1>6. FitsInv'
  BY <1>1, <1>4 DEF IInv, FitsInv
<1>7. RollInv'
  <2>1. clean => ~unfit /\ (Height > 0 => Agree(s, lines))
    BY <1>2 DEF IInv, RollInv
  <2> QED BY <1>1, <1>2, <1>3, <1>4, <2>1 DEF RollInv
<1> QED BY <1>1, <1>5, <1>6, <1>7 DEF IInv, DrawsInside

LEMMA Inductive == Spec => []IInv
<1>1. Init => IInv
  BY TypeInit
<1>2. IInv /\ [Next]_vars => IInv'
  <2> SUFFICES ASSUME IInv, [Next]_vars PROVE IInv'
    OBVIOUS
  <2>1. ASSUME NEW on \in BOOLEAN, Enable(on) PROVE IInv'
    BY <2>1, EnableKeeps
  <2>2. ASSUME NEW buffer \in Buffers, Bind(buffer) PROVE IInv'
    BY <2>2, BindKeeps
  <2>3. CASE Clear
    BY <2>3, ClearKeeps
  <2>4. ASSUME NEW rune \in Rune, WriteRune(rune) PROVE IInv'
    BY <2>4, WriteRuneKeeps
  <2>5. CASE UNCHANGED vars
    BY <2>5, StutterKeeps
  <2> QED BY <2>1, <2>2, <2>3, <2>4, <2>5 DEF Next
<1> QED BY <1>1, <1>2, PTL DEF Spec

(* No glyph is drawn outside the framebuffer unless one too small for the   *)
(* place of the cursor was bound and not cleared since: whatever the size   *)
(* of the screen and of the font, wrapping and scrolling keep the cursor    *)
(* where drawing is safe (writeRune, _set).                                 *)
THEOREM ConsoleDrawsInside == Spec => []DrawsInside
<1>1. IInv => DrawsInside
  BY DEF IInv
<1> QED BY <1>1, Inductive, PTL

(* A cleared screen shows the last lines of all that was printed since,     *)
(* pixel for pixel, and blank lines below them (writeRune, _scroll).        *)
THEOREM ConsoleShowsTheRoll == Spec => []ShowsTheRoll
<1>1. IInv => ShowsTheRoll
  <2> SUFFICES ASSUME IInv, clean, Height > 0 PROVE ShowsTheRoll
    BY DEF ShowsTheRoll
  <2>1. PICK s : s = Screen
    OBVIOUS
  <2>2. Agree(s, roll) /\ s.px = px /\ s.cy = cy
    BY <2>1, ScreenIs DEF IInv, RollInv
  <2>3. PICK top : top = Top(roll)
    OBVIOUS
  <2>4. cy = Len(roll) - top - 1
    BY <2>2, <2>3 DEF Agree
  <2>5. \A y \in 0 .. Height - 1, x \in Columns :
           ShowsChar(x, y, IF top + y + 1 <= Len(roll) THEN roll[top + y + 1][x] ELSE Blank)
    <3> TAKE y \in 0 .. Height - 1, x \in Columns
    <3>1. CharAt(roll, y, x) = IF top + y + 1 <= Len(roll) THEN roll[top + y + 1][x] ELSE Blank
      BY <2>3 DEF CharAt
    <3>2. \A gy \in 0 .. FontHeight - 1 : px[y * FontHeight + gy][x] = Pixel(CharAt(roll, y, x), gy)
      BY <2>2 DEF Agree, PixelRow
    <3> QED BY <3>1, <3>2 DEF ShowsChar
  <2> QED BY <2>3, <2>4, <2>5 DEF ShowsTheRoll, Top
<1> QED BY <1>1, Inductive, PTL
=============================================================================
