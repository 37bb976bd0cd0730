----------------------------- MODULE LibraryProofs -----------------------------
(***************************************************************************)
(* The console's two promises, for every size of the screen, every set of  *)
(* glyphs and every length of the output: the cursor is on the screen      *)
(* whenever the reaper is not inside putc, and while no putc was           *)
(* interrupted by another the screen shows the tail of what was printed.   *)
(* The compiler runtime's, for every width of a machine word: each         *)
(* function returns what C's operator means, and no divq faults.  And the  *)
(* boot archive's, for every archive: its entries are read in turn.        *)
(***************************************************************************)
EXTENDS Console, CompilerRt, CpioLoader, ListProofs

-----------------------------------------------------------------------------
(* The console.                                                            *)

Chars == Glyphs \cup {LF, CR, BS}
Lines == [0..(Cols - 1) -> Glyphs \cup {Blank}]
Places == {"out", "col", "col++", "wrap", "row", "row++", "scroll", "last"}

Types ==
    /\ console_col \in Nat /\ console_row \in Nat /\ reg \in Nat
    /\ cells \in [0..(Rows - 1) -> Lines]
    /\ at \in Places /\ torn \in BOOLEAN
    /\ terminal = [lines |-> terminal.lines, col |-> terminal.col]
    /\ terminal.lines \in Seq(Lines) /\ Len(terminal.lines) > 0
    /\ terminal.col \in 0..(Cols - 1)

(* Where the cursor may be while the reaper is at each of its steps: putc  *)
(* of another thread keeps every one of these bounds, so the register the  *)
(* reaper resumes with is not stale beyond the edge of the screen.         *)
CursorBounds ==
    /\ console_col <= Cols /\ console_row <= Rows
    /\ at # "wrap" => console_col < Cols
    /\ at \notin {"scroll", "last"} => console_row < Rows
    /\ at = "col++" => reg < Cols
    /\ at = "row++" => reg < Rows

(* The screen that shows the last of the first m lines, and the row on it  *)
(* of line m.                                                              *)
Above(m) == IF m > Rows THEN m - Rows ELSE 0
Shown(lines, m) ==
    [y \in 0..(Rows - 1) |->
        IF Above(m) + y + 1 <= m THEN lines[Above(m) + y + 1] ELSE BlankLine]
RowOf(m) == m - Above(m) - 1

(* The reaper's putc draws its glyph first, moves the column next and the  *)
(* row last.  Pending: the printed text has gone to a new line and the     *)
(* screen has not.                                                         *)
OnLine(m) == cells = Shown(terminal.lines, m) /\ console_row = RowOf(m)
Pending ==
    /\ Len(terminal.lines) > 1
    /\ terminal.lines[Len(terminal.lines)] = BlankLine
    /\ terminal.col = 0
ScreenFollows ==
    /\ at = "out" => OnLine(Len(terminal.lines)) /\ console_col = terminal.col
    /\ (at \in {"col", "col++"} /\ console_col + 1 < Cols) =>
           OnLine(Len(terminal.lines)) /\ terminal.col = console_col + 1
    /\ (at \in {"col", "col++"} /\ console_col + 1 >= Cols) =>
           OnLine(Len(terminal.lines) - 1) /\ Pending
    /\ at \in {"wrap", "row", "row++"} => OnLine(Len(terminal.lines) - 1) /\ Pending
    /\ at = "scroll" => /\ cells = Shown(terminal.lines, Len(terminal.lines) - 1)
                        /\ Len(terminal.lines) > Rows /\ Pending
    /\ at = "last" => /\ cells = Shown(terminal.lines, Len(terminal.lines))
                      /\ Len(terminal.lines) > Rows /\ terminal.col = 0
    /\ at \in {"row", "row++", "scroll", "last"} => console_col = 0
    /\ at = "col++" => reg = console_col
    /\ at = "row++" => reg = console_row

IInv == Types /\ CursorBounds /\ (~torn => ScreenFollows)

-----------------------------------------------------------------------------
(* A line of the screen is a line: all blank, or with one glyph drawn.     *)
LEMMA LineFacts ==
    /\ BlankLine \in Lines
    /\ \A l \in Lines, x \in Nat, g \in Glyphs : [l EXCEPT ![x] = g] \in Lines
BY ConsoleAssumption DEF Lines, BlankLine

(* Drawing a glyph and scrolling keep a screen a screen.                   *)
LEMMA ScreenFacts ==
    ASSUME NEW screen \in [0..(Rows - 1) -> Lines]
    PROVE  /\ Scrolled(screen) \in [0..(Rows - 1) -> Lines]
           /\ \A x \in Nat, y \in Nat, g \in Glyphs :
                 Drawn(screen, x, y, g) \in [0..(Rows - 1) -> Lines]
<1>1. Scrolled(screen) \in [0..(Rows - 1) -> Lines]
  <2>1. ASSUME NEW y \in 0..(Rows - 1), y # Rows - 1
        PROVE  screen[y + 1] \in Lines
    BY <2>1, ConsoleAssumption
  <2> QED
    BY <2>1, LineFacts DEF Scrolled
<1>2. ASSUME NEW x \in Nat, NEW y \in Nat, NEW g \in Glyphs
      PROVE  Drawn(screen, x, y, g) \in [0..(Rows - 1) -> Lines]
  <2>1. ASSUME y < Rows
        PROVE  [screen[y] EXCEPT ![x] = g] \in Lines
    BY <2>1, LineFacts, ConsoleAssumption
  <2>2. ASSUME y < Rows
        PROVE  [screen EXCEPT ![y][x] = g] \in [0..(Rows - 1) -> Lines]
    BY <2>1, <2>2
  <2> QED
    BY <2>2 DEF Drawn
<1> QED
  BY <1>1, <1>2

(* What the last m lines of a text look like does not depend on what comes *)
(* after line m.                                                           *)
LEMMA ShownPrefix ==
    ASSUME NEW ls \in Seq(Lines), NEW l \in Lines, Len(ls) > 0
    PROVE  Shown(Append(ls, l), Len(ls)) = Shown(ls, Len(ls))
<1>1. Len(ls) \in Nat
  OBVIOUS
<1>2. ASSUME NEW i \in 1..Len(ls)
      PROVE  Append(ls, l)[i] = ls[i]
  OBVIOUS
<1>3. ASSUME NEW y \in 0..(Rows - 1), Above(Len(ls)) + y + 1 <= Len(ls)
      PROVE  Above(Len(ls)) + y + 1 \in 1..Len(ls)
  BY <1>1, <1>3, ConsoleAssumption DEF Above
<1> QED
  BY <1>2, <1>3 DEF Shown

(* Drawing at the end of the text draws on the screen at its row.          *)
LEMMA ShownDrawn ==
    ASSUME NEW ls \in Seq(Lines), Len(ls) > 0,
           NEW x \in 0..(Cols - 1), NEW g \in Glyphs
    PROVE  Drawn(Shown(ls, Len(ls)), x, RowOf(Len(ls)), g)
               = Shown([ls EXCEPT ![Len(ls)][x] = g], Len(ls))
<1> DEFINE m == Len(ls)
           ms == [ls EXCEPT ![m][x] = g]
           l == [ls[m] EXCEPT ![x] = g]
<1>1. m \in Nat /\ m > 0
  OBVIOUS
<1>2. RowOf(m) \in 0..(Rows - 1) /\ Above(m) + RowOf(m) + 1 = m /\ x < Cols
  BY <1>1, ConsoleAssumption DEF RowOf, Above
<1>3. DOMAIN ls = 1..m
  OBVIOUS
<1>4. \A i \in 1..m : ms[i] = IF i = m THEN l ELSE ls[i]
  BY <1>3
<1>5. Drawn(Shown(ls, m), x, RowOf(m), g) = [Shown(ls, m) EXCEPT ![RowOf(m)][x] = g]
  BY <1>2, ConsoleAssumption DEF Drawn
<1>6. Shown(ls, m)[RowOf(m)] = ls[m]
  BY <1>1, <1>2 DEF Shown
<1>7. [Shown(ls, m) EXCEPT ![RowOf(m)][x] = g] = [Shown(ls, m) EXCEPT ![RowOf(m)] = l]
  BY <1>6
<1>8. ASSUME NEW y \in 0..(Rows - 1)
      PROVE  [Shown(ls, m) EXCEPT ![RowOf(m)] = l][y] = Shown(ms, m)[y]
  <2>1. CASE y = RowOf(m)
    BY <2>1, <1>1, <1>2, <1>4 DEF Shown
  <2>2. CASE y # RowOf(m)
    <3>1. Above(m) \in Nat
      BY <1>1, ConsoleAssumption DEF Above
    <3>2. Above(m) + y + 1 # m
      BY <2>2, <1>1, <1>2, <3>1 DEF RowOf
    <3>3. Above(m) + y + 1 <= m => Above(m) + y + 1 \in 1..m
      BY <1>1, <3>1
    <3>4. Above(m) + y + 1 <= m => ms[Above(m) + y + 1] = ls[Above(m) + y + 1]
      BY <1>4, <3>2, <3>3
    <3>5. [Shown(ls, m) EXCEPT ![RowOf(m)] = l][y] = Shown(ls, m)[y]
      BY <2>2 DEF Shown
    <3> QED
      BY <3>4, <3>5 DEF Shown
  <2> QED
    BY <2>1, <2>2
<1> HIDE DEF m, ms, l
<1>9. [Shown(ls, m) EXCEPT ![RowOf(m)] = l] = Shown(ms, m)
  <2>1. Shown(ms, m) = [y \in 0..(Rows - 1) |-> Shown(ms, m)[y]]
    BY DEF Shown
  <2>2. [Shown(ls, m) EXCEPT ![RowOf(m)] = l]
          = [y \in 0..(Rows - 1) |-> [Shown(ls, m) EXCEPT ![RowOf(m)] = l][y]]
    BY DEF Shown
  <2> QED
    BY <2>1, <2>2, <1>8
<1> QED
  BY <1>5, <1>7, <1>9 DEF m, ms

(* A new blank line below the last row is a line of the screen already,    *)
(* and one past the bottom of the screen comes with a scroll.              *)
LEMMA ShownNext ==
    ASSUME NEW ls, NEW m \in Nat, m > 0, ls[m + 1] = BlankLine
    PROVE  /\ RowOf(m) \in 0..(Rows - 1)
           /\ RowOf(m) + 1 < Rows => /\ Shown(ls, m + 1) = Shown(ls, m)
                                     /\ RowOf(m + 1) = RowOf(m) + 1
           /\ RowOf(m) + 1 >= Rows => /\ m >= Rows
                                      /\ Shown(ls, m + 1) = Scrolled(Shown(ls, m))
                                      /\ RowOf(m + 1) = Rows - 1
<1>1. RowOf(m) \in 0..(Rows - 1)
  BY ConsoleAssumption DEF RowOf, Above
<1>2. ASSUME RowOf(m) + 1 < Rows
      PROVE  Shown(ls, m + 1) = Shown(ls, m) /\ RowOf(m + 1) = RowOf(m) + 1
  <2>1. m < Rows
    BY <1>2, ConsoleAssumption DEF RowOf, Above
  <2>2. Above(m) = 0 /\ Above(m + 1) = 0
    BY <2>1, ConsoleAssumption DEF Above
  <2>3. RowOf(m + 1) = RowOf(m) + 1
    BY <2>2 DEF RowOf
  <2>4. ASSUME NEW y \in 0..(Rows - 1)
        PROVE  (IF y + 1 <= m + 1 THEN ls[y + 1] ELSE BlankLine)
                 = (IF y + 1 <= m THEN ls[y + 1] ELSE BlankLine)
    <3>1. CASE y = m
      BY <3>1
    <3>2. CASE y # m
      <4>1. (y + 1 <= m + 1) <=> (y + 1 <= m)
        BY <3>2, ConsoleAssumption
      <4> QED
        BY <4>1
    <3> QED
      BY <3>1, <3>2
  <2>5. ASSUME NEW y \in 0..(Rows - 1)
        PROVE  0 + y + 1 = y + 1
    BY <2>5, ConsoleAssumption
  <2> QED
    BY <2>2, <2>3, <2>4, <2>5 DEF Shown
<1>3. ASSUME RowOf(m) + 1 >= Rows
      PROVE  /\ m >= Rows
             /\ Shown(ls, m + 1) = Scrolled(Shown(ls, m))
             /\ RowOf(m + 1) = Rows - 1
  <2>1. m >= Rows
    BY <1>3, ConsoleAssumption DEF RowOf, Above
  <2>2. Above(m) = m - Rows /\ Above(m + 1) = m + 1 - Rows
    BY <2>1, ConsoleAssumption DEF Above
  <2>3. RowOf(m + 1) = Rows - 1
    BY <2>2, ConsoleAssumption DEF RowOf
  <2>4. ASSUME NEW y \in 0..(Rows - 1)
        PROVE  /\ Shown(ls, m + 1)[y] = ls[m + 1 - Rows + y + 1]
               /\ Shown(ls, m)[y] = ls[m - Rows + y + 1]
    <3>1. m + 1 - Rows + y + 1 <= m + 1 /\ m - Rows + y + 1 <= m
      BY ConsoleAssumption
    <3> QED
      BY <3>1, <2>2 DEF Shown
  <2>5. ASSUME NEW y \in 0..(Rows - 1)
        PROVE  Shown(ls, m + 1)[y] = Scrolled(Shown(ls, m))[y]
    <3>1. CASE y = Rows - 1
      <4>1. m + 1 - Rows + y + 1 = m + 1
        BY <3>1, ConsoleAssumption
      <4> QED
        BY <4>1, <3>1, <2>4 DEF Scrolled
    <3>2. CASE y # Rows - 1
      <4>1. y + 1 \in 0..(Rows - 1) /\ m - Rows + (y + 1) + 1 = m + 1 - Rows + y + 1
        BY <3>2, ConsoleAssumption
      <4>2. Shown(ls, m)[y + 1] = ls[m - Rows + (y + 1) + 1]
        BY <4>1, <2>4
      <4> QED
        BY <4>1, <4>2, <3>2, <2>4 DEF Scrolled
    <3> QED
      BY <3>1, <3>2
  <2>6. Shown(ls, m + 1) = Scrolled(Shown(ls, m))
    <3>1. Shown(ls, m + 1) = [y \in 0..(Rows - 1) |-> Shown(ls, m + 1)[y]]
      BY DEF Shown
    <3>2. Scrolled(Shown(ls, m)) = [y \in 0..(Rows - 1) |-> Scrolled(Shown(ls, m))[y]]
      BY DEF Scrolled
    <3> QED
      BY <3>1, <3>2, <2>5
  <2> QED
    BY <2>1, <2>3, <2>6
<1> QED
  BY <1>1, <1>2, <1>3

-----------------------------------------------------------------------------
(* linearfb_console_putc, case by case, on a console Z.                    *)
IsConsole(Z) ==
    /\ Z = [col |-> Z.col, row |-> Z.row, cells |-> Z.cells]
    /\ Z.col \in Nat /\ Z.row \in Nat

(* A new line, with and without a scroll.                                  *)
LEMMA NextLineIs ==
    ASSUME NEW Z, IsConsole(Z)
    PROVE  /\ Z.row + 1 >= Rows =>
                 NextLine(Z) = [col |-> 0, row |-> Rows - 1, cells |-> Scrolled(Z.cells)]
           /\ Z.row + 1 < Rows =>
                 NextLine(Z) = [col |-> 0, row |-> Z.row + 1, cells |-> Z.cells]
<1> DEFINE T == [col |-> 0, row |-> Z.row + 1, cells |-> Z.cells]
<1>1. console_scroll(T) = [col |-> 0, row |-> Rows - 1, cells |-> Scrolled(Z.cells)]
  BY DEF console_scroll
<1>2. T.row = Z.row + 1
  OBVIOUS
<1>3. NextLine(Z) = IF T.row >= Rows THEN console_scroll(T) ELSE T
  BY DEF NextLine
<1>4. Z.row + 1 < Rows => ~(Z.row + 1 >= Rows)
  BY ConsoleAssumption DEF IsConsole
<1> HIDE DEF T
<1>5. Z.row + 1 >= Rows =>
        NextLine(Z) = [col |-> 0, row |-> Rows - 1, cells |-> Scrolled(Z.cells)]
  BY <1>1, <1>2, <1>3
<1>6. Z.row + 1 < Rows => NextLine(Z) = T
  BY <1>2, <1>3, <1>4
<1> QED
  BY <1>5, <1>6 DEF T

(* The four kinds of character.                                            *)
LEMMA PutcIs ==
    ASSUME NEW Z, IsConsole(Z)
    PROVE  /\ putc(Z, LF) = NextLine(Z)
           /\ putc(Z, CR) = [col |-> 0, row |-> Z.row, cells |-> Z.cells]
           /\ putc(Z, BS) = [col |-> IF Z.col > 0 THEN Z.col - 1 ELSE Z.col,
                             row |-> Z.row, cells |-> Z.cells]
           /\ \A g \in Glyphs :
                /\ Z.col + 1 >= Cols =>
                     putc(Z, g) = NextLine([col |-> Z.col + 1, row |-> Z.row,
                                            cells |-> Drawn(Z.cells, Z.col, Z.row, g)])
                /\ Z.col + 1 < Cols =>
                     putc(Z, g) = [col |-> Z.col + 1, row |-> Z.row,
                                   cells |-> Drawn(Z.cells, Z.col, Z.row, g)]
<1>0. Z = [col |-> Z.col, row |-> Z.row, cells |-> Z.cells] /\ Z.col \in Nat
  BY DEF IsConsole
<1>1. putc(Z, LF) = NextLine(Z)
  BY DEF putc, LF, CR, BS
<1>2. putc(Z, CR) = [col |-> 0, row |-> Z.row, cells |-> Z.cells]
  <2>1. putc(Z, CR) = [Z EXCEPT !.col = 0]
    BY DEF putc, LF, CR, BS
  <2> QED
    BY <1>0, <2>1
<1>3. putc(Z, BS) = [col |-> IF Z.col > 0 THEN Z.col - 1 ELSE Z.col,
                     row |-> Z.row, cells |-> Z.cells]
  <2>1. putc(Z, BS) = [Z EXCEPT !.col = IF @ > 0 THEN @ - 1 ELSE @]
    BY DEF putc, LF, CR, BS
  <2> QED
    BY <1>0, <2>1
<1>4. ASSUME NEW g \in Glyphs
      PROVE  /\ Z.col + 1 >= Cols =>
                  putc(Z, g) = NextLine([col |-> Z.col + 1, row |-> Z.row,
                                         cells |-> Drawn(Z.cells, Z.col, Z.row, g)])
             /\ Z.col + 1 < Cols =>
                  putc(Z, g) = [col |-> Z.col + 1, row |-> Z.row,
                                cells |-> Drawn(Z.cells, Z.col, Z.row, g)]
  <2> DEFINE T == [col |-> Z.col + 1, row |-> Z.row, cells |-> Drawn(Z.cells, Z.col, Z.row, g)]
  <2>1. g # LF /\ g # CR /\ g # BS
    BY ConsoleAssumption
  <2>2. T.col = Z.col + 1
    OBVIOUS
  <2>3. putc(Z, g) = IF T.col >= Cols THEN NextLine(T) ELSE T
    BY <2>1 DEF putc
  <2>4. Z.col + 1 < Cols => ~(Z.col + 1 >= Cols)
    BY <1>0, ConsoleAssumption
  <2> HIDE DEF T
  <2>5. Z.col + 1 >= Cols => putc(Z, g) = NextLine(T)
    BY <2>2, <2>3
  <2>6. Z.col + 1 < Cols => putc(Z, g) = T
    BY <2>2, <2>3, <2>4
  <2> QED
    BY <2>5, <2>6 DEF T
<1> QED
  BY <1>1, <1>2, <1>3, <1>4

(* Whatever the position a preempted putc left the cursor in, at most one  *)
(* step off the screen, putc of a character leaves it no further off, and  *)
(* on the screen when it was on it.                                        *)
LEMMA PutcBounds ==
    ASSUME NEW Z, IsConsole(Z), Z.col <= Cols, Z.row <= Rows,
           Z.cells \in [0..(Rows - 1) -> Lines],
           NEW c \in Chars
    PROVE  /\ putc(Z, c).col \in Nat /\ putc(Z, c).col <= Cols
           /\ putc(Z, c).row \in Nat /\ putc(Z, c).row <= Rows
           /\ Z.col < Cols => putc(Z, c).col < Cols
           /\ Z.row < Rows => putc(Z, c).row < Rows
           /\ putc(Z, c).cells \in [0..(Rows - 1) -> Lines]
<1> DEFINE Goal(s) == /\ s.col \in Nat /\ s.col <= Cols
                      /\ s.row \in Nat /\ s.row <= Rows
                      /\ Z.col < Cols => s.col < Cols
                      /\ Z.row < Rows => s.row < Rows
                      /\ s.cells \in [0..(Rows - 1) -> Lines]
<1>1. Z.col \in Nat /\ Z.row \in Nat
  BY DEF IsConsole
<1>2. ASSUME NEW Y, IsConsole(Y), Y.row = Z.row, Y.cells \in [0..(Rows - 1) -> Lines]
      PROVE  Goal(NextLine(Y))
  <2>1. Scrolled(Y.cells) \in [0..(Rows - 1) -> Lines]
    BY <1>2, ScreenFacts
  <2>2. CASE Y.row + 1 >= Rows
    <3>1. NextLine(Y) = [col |-> 0, row |-> Rows - 1, cells |-> Scrolled(Y.cells)]
      BY <1>2, <2>2, NextLineIs
    <3> QED
      BY <3>1, <2>1, ConsoleAssumption
  <2>3. CASE Y.row + 1 < Rows
    <3>1. NextLine(Y) = [col |-> 0, row |-> Y.row + 1, cells |-> Y.cells]
      BY <1>2, <2>3, NextLineIs
    <3> QED
      BY <3>1, <2>3, <1>1, <1>2, ConsoleAssumption
  <2> QED
    BY <2>2, <2>3, <1>1, <1>2, ConsoleAssumption
<1>3. CASE c = LF
  <2>1. putc(Z, c) = NextLine(Z)
    BY <1>3, PutcIs
  <2> QED
    BY <1>2, <2>1
<1>4. CASE c = CR
  <2>1. putc(Z, c) = [col |-> 0, row |-> Z.row, cells |-> Z.cells]
    BY <1>4, PutcIs
  <2> QED
    BY <1>1, <2>1, ConsoleAssumption
<1>5. CASE c = BS
  <2>1. putc(Z, c) = [col |-> IF Z.col > 0 THEN Z.col - 1 ELSE Z.col,
                      row |-> Z.row, cells |-> Z.cells]
    BY <1>5, PutcIs
  <2> QED
    BY <1>1, <2>1, ConsoleAssumption
<1>6. CASE c \in Glyphs
  <2> DEFINE T == [col |-> Z.col + 1, row |-> Z.row, cells |-> Drawn(Z.cells, Z.col, Z.row, c)]
  <2>1. T.cells \in [0..(Rows - 1) -> Lines]
    BY <1>1, <1>6, ScreenFacts
  <2>2. IsConsole(T) /\ T.row = Z.row /\ T.col = Z.col + 1
    BY <1>1 DEF IsConsole
  <2>3. Z.col + 1 >= Cols => putc(Z, c) = NextLine(T)
    BY <1>6, PutcIs
  <2>4. Z.col + 1 < Cols => putc(Z, c) = T
    BY <1>6, PutcIs
  <2> HIDE DEF T
  <2>5. CASE Z.col + 1 >= Cols
    BY <1>2, <2>1, <2>2, <2>3, <2>5
  <2>6. CASE Z.col + 1 < Cols
    BY <1>1, <2>1, <2>2, <2>4, <2>6, ConsoleAssumption
  <2> QED
    BY <2>5, <2>6, <1>1, ConsoleAssumption
<1> QED
  BY <1>3, <1>4, <1>5, <1>6 DEF Chars

-----------------------------------------------------------------------------
(* The terminal of unbounded length, case by case.                         *)
IsTerminal(T) ==
    /\ T = [lines |-> T.lines, col |-> T.col]
    /\ T.lines \in Seq(Lines) /\ Len(T.lines) > 0
    /\ T.col \in 0..(Cols - 1)

(* The four kinds of character again.                                      *)
LEMMA TypedIs ==
    ASSUME NEW T, IsTerminal(T)
    PROVE  /\ Typed(T, LF) = [lines |-> Append(T.lines, BlankLine), col |-> 0]
           /\ Typed(T, CR) = [lines |-> T.lines, col |-> 0]
           /\ Typed(T, BS) = [lines |-> T.lines,
                              col |-> IF T.col > 0 THEN T.col - 1 ELSE T.col]
           /\ \A g \in Glyphs :
                /\ T.col + 1 < Cols =>
                     Typed(T, g) = [lines |-> [T.lines EXCEPT ![Len(T.lines)][T.col] = g],
                                    col |-> T.col + 1]
                /\ T.col + 1 >= Cols =>
                     Typed(T, g) =
                       [lines |-> Append([T.lines EXCEPT ![Len(T.lines)][T.col] = g],
                                         BlankLine),
                        col |-> 0]
<1>1. T = [lines |-> T.lines, col |-> T.col] /\ T.col \in Nat
  BY ConsoleAssumption DEF IsTerminal
<1>2. Typed(T, LF) = [lines |-> Append(T.lines, BlankLine), col |-> 0]
  BY DEF Typed, LF, CR, BS
<1>3. Typed(T, CR) = [lines |-> T.lines, col |-> 0]
  <2>1. Typed(T, CR) = [T EXCEPT !.col = 0]
    BY DEF Typed, LF, CR, BS
  <2> QED
    BY <2>1, <1>1
<1>4. Typed(T, BS) = [lines |-> T.lines, col |-> IF T.col > 0 THEN T.col - 1 ELSE T.col]
  <2>1. Typed(T, BS) = [T EXCEPT !.col = IF @ > 0 THEN @ - 1 ELSE @]
    BY DEF Typed, LF, CR, BS
  <2> QED
    BY <2>1, <1>1
<1>5. ASSUME NEW g \in Glyphs
      PROVE  /\ T.col + 1 < Cols =>
                  Typed(T, g) = [lines |-> [T.lines EXCEPT ![Len(T.lines)][T.col] = g],
                                 col |-> T.col + 1]
             /\ T.col + 1 >= Cols =>
                  Typed(T, g) =
                    [lines |-> Append([T.lines EXCEPT ![Len(T.lines)][T.col] = g],
                                      BlankLine),
                     col |-> 0]
  <2>1. g # LF /\ g # CR /\ g # BS
    BY ConsoleAssumption
  <2>2. Typed(T, g) =
          IF T.col + 1 < Cols
          THEN [lines |-> [T.lines EXCEPT ![Len(T.lines)][T.col] = g], col |-> T.col + 1]
          ELSE [lines |-> Append([T.lines EXCEPT ![Len(T.lines)][T.col] = g], BlankLine),
                col |-> 0]
    BY <2>1 DEF Typed
  <2>3. T.col + 1 >= Cols => ~(T.col + 1 < Cols)
    BY <1>1, ConsoleAssumption
  <2> QED
    BY <2>2, <2>3
<1> QED
  BY <1>2, <1>3, <1>4, <1>5

(* Drawing in the last line keeps the lines lines, and their number.       *)
LEMMA DrawnLines ==
    ASSUME NEW ls \in Seq(Lines), Len(ls) > 0, NEW x \in Nat, NEW g \in Glyphs
    PROVE  /\ [ls EXCEPT ![Len(ls)][x] = g] \in Seq(Lines)
           /\ Len([ls EXCEPT ![Len(ls)][x] = g]) = Len(ls)
<1>1. Len(ls) \in 1..Len(ls) /\ DOMAIN ls = 1..Len(ls) /\ ls[Len(ls)] \in Lines
  OBVIOUS
<1>2. [ls[Len(ls)] EXCEPT ![x] = g] \in Lines
  BY <1>1, LineFacts
<1>3. [ls EXCEPT ![Len(ls)][x] = g] = [ls EXCEPT ![Len(ls)] = [ls[Len(ls)] EXCEPT ![x] = g]]
  OBVIOUS
<1> QED
  BY <1>1, <1>2, <1>3

(* A character typed on a terminal gives a terminal.                       *)
LEMMA TypedTypes ==
    ASSUME NEW T, IsTerminal(T), NEW c \in Chars
    PROVE  IsTerminal(Typed(T, c))
<1>1. T.lines \in Seq(Lines) /\ Len(T.lines) > 0 /\ T.col \in Nat /\ T.col < Cols
  BY ConsoleAssumption DEF IsTerminal
<1>2. ASSUME NEW ls \in Seq(Lines), Len(ls) > 0, NEW k \in 0..(Cols - 1)
      PROVE  IsTerminal([lines |-> ls, col |-> k])
  BY <1>2 DEF IsTerminal
<1>3. ASSUME NEW ls \in Seq(Lines)
      PROVE  Append(ls, BlankLine) \in Seq(Lines) /\ Len(Append(ls, BlankLine)) > 0
  BY LineFacts
<1>4. 0 \in 0..(Cols - 1)
  BY ConsoleAssumption
<1>5. CASE c = LF
  <2>1. Typed(T, c) = [lines |-> Append(T.lines, BlankLine), col |-> 0]
    BY <1>5, TypedIs
  <2>2. Append(T.lines, BlankLine) \in Seq(Lines) /\ Len(Append(T.lines, BlankLine)) > 0
    BY <1>1, <1>3
  <2> QED
    BY <1>2, <1>4, <2>1, <2>2
<1>6. CASE c = CR
  BY <1>1, <1>2, <1>4, <1>6, TypedIs
<1>7. CASE c = BS
  <2>1. (IF T.col > 0 THEN T.col - 1 ELSE T.col) \in 0..(Cols - 1)
    BY <1>1, ConsoleAssumption
  <2> QED
    BY <1>1, <1>2, <1>7, <2>1, TypedIs
<1>8. CASE c \in Glyphs
  <2> DEFINE ls == [T.lines EXCEPT ![Len(T.lines)][T.col] = c]
  <2>1. ls \in Seq(Lines) /\ Len(ls) > 0
    BY <1>1, <1>8, DrawnLines
  <2>2. T.col + 1 < Cols => Typed(T, c) = [lines |-> ls, col |-> T.col + 1]
    BY <1>8, TypedIs
  <2>3. T.col + 1 >= Cols => Typed(T, c) = [lines |-> Append(ls, BlankLine), col |-> 0]
    BY <1>8, TypedIs
  <2> HIDE DEF ls
  <2>4. CASE T.col + 1 < Cols
    <3>1. T.col + 1 \in 0..(Cols - 1)
      BY <2>4, <1>1, ConsoleAssumption
    <3> QED
      BY <2>1, <2>2, <2>4, <3>1, <1>2
  <2>5. CASE T.col + 1 >= Cols
    BY <2>1, <2>3, <2>5, <1>2, <1>3, <1>4
  <2> QED
    BY <2>4, <2>5, <1>1, ConsoleAssumption
<1> QED
  BY <1>5, <1>6, <1>7, <1>8 DEF Chars

-----------------------------------------------------------------------------
(* A new line on a screen that shows the text shows the text with a line   *)
(* more.                                                                   *)
LEMMA NextLineShows ==
    ASSUME NEW Z, IsConsole(Z), NEW ls \in Seq(Lines), Len(ls) > 0,
           Z.cells = Shown(ls, Len(ls)), Z.row = RowOf(Len(ls))
    PROVE  NextLine(Z) = [col |-> 0, row |-> RowOf(Len(ls) + 1),
                          cells |-> Shown(Append(ls, BlankLine), Len(ls) + 1)]
<1> DEFINE m == Len(ls)
           ms == Append(ls, BlankLine)
<1>1. m \in Nat /\ m > 0 /\ ms[m + 1] = BlankLine
  OBVIOUS
<1>2. Shown(ms, m) = Z.cells
  BY LineFacts, ShownPrefix
<1> HIDE DEF m, ms
<1>3. /\ RowOf(m) + 1 < Rows => Shown(ms, m + 1) = Shown(ms, m) /\ RowOf(m + 1) = RowOf(m) + 1
      /\ RowOf(m) + 1 >= Rows => /\ Shown(ms, m + 1) = Scrolled(Shown(ms, m))
                                 /\ RowOf(m + 1) = Rows - 1
  BY <1>1, ShownNext
<1>4. Z.row = RowOf(m) /\ RowOf(m) \in Int
  BY <1>1, ShownNext DEF m
<1>5. CASE RowOf(m) + 1 < Rows
  <2>1. NextLine(Z) = [col |-> 0, row |-> Z.row + 1, cells |-> Z.cells]
    BY <1>4, <1>5, NextLineIs
  <2> QED
    BY <1>2, <1>3, <1>4, <1>5, <2>1 DEF m, ms
<1>6. CASE RowOf(m) + 1 >= Rows
  <2>1. NextLine(Z) = [col |-> 0, row |-> Rows - 1, cells |-> Scrolled(Z.cells)]
    BY <1>4, <1>6, NextLineIs
  <2> QED
    BY <1>2, <1>3, <1>6, <2>1 DEF m, ms
<1> QED
  BY <1>4, <1>5, <1>6, ConsoleAssumption

(* putc on a screen that shows the text shows the text with the character. *)
LEMMA PutcShows ==
    ASSUME NEW Z, IsConsole(Z), NEW T, IsTerminal(T),
           Z.cells = Shown(T.lines, Len(T.lines)), Z.row = RowOf(Len(T.lines)),
           Z.col = T.col, NEW c \in Chars
    PROVE  /\ putc(Z, c).cells = Shown(Typed(T, c).lines, Len(Typed(T, c).lines))
           /\ putc(Z, c).row = RowOf(Len(Typed(T, c).lines))
           /\ putc(Z, c).col = Typed(T, c).col
<1>1. T.lines \in Seq(Lines) /\ Len(T.lines) > 0 /\ T.col \in 0..(Cols - 1)
  BY DEF IsTerminal
<1>2. ASSUME NEW ls \in Seq(Lines)
      PROVE  Len(Append(ls, BlankLine)) = Len(ls) + 1
  OBVIOUS
<1>3. CASE c = LF
  <2>1. putc(Z, c) = [col |-> 0, row |-> RowOf(Len(T.lines) + 1),
                      cells |-> Shown(Append(T.lines, BlankLine), Len(T.lines) + 1)]
    BY <1>1, <1>3, PutcIs, NextLineShows
  <2>2. Typed(T, c) = [lines |-> Append(T.lines, BlankLine), col |-> 0]
    BY <1>3, TypedIs
  <2> QED
    BY <1>1, <1>2, <2>1, <2>2
<1>4. CASE c = CR
  <2>1. putc(Z, c) = [col |-> 0, row |-> Z.row, cells |-> Z.cells]
    BY <1>4, PutcIs
  <2>2. Typed(T, c) = [lines |-> T.lines, col |-> 0]
    BY <1>4, TypedIs
  <2> QED
    BY <2>1, <2>2
<1>5. CASE c = BS
  <2>1. putc(Z, c) = [col |-> IF Z.col > 0 THEN Z.col - 1 ELSE Z.col,
                      row |-> Z.row, cells |-> Z.cells]
    BY <1>5, PutcIs
  <2>2. Typed(T, c) = [lines |-> T.lines, col |-> IF T.col > 0 THEN T.col - 1 ELSE T.col]
    BY <1>5, TypedIs
  <2> QED
    BY <2>1, <2>2
<1>6. CASE c \in Glyphs
  <2> DEFINE ls == [T.lines EXCEPT ![Len(T.lines)][T.col] = c]
             Y == [col |-> Z.col + 1, row |-> Z.row, cells |-> Drawn(Z.cells, Z.col, Z.row, c)]
  <2>1. ls \in Seq(Lines) /\ Len(ls) = Len(T.lines)
    BY <1>1, <1>6, DrawnLines, ConsoleAssumption
  <2>2. Y.cells = Shown(ls, Len(T.lines))
    BY <1>1, <1>6, ShownDrawn
  <2>3. IsConsole(Y) /\ Y.row = Z.row /\ Y.col = Z.col + 1
    BY DEF IsConsole
  <2>4. /\ Z.col + 1 >= Cols => putc(Z, c) = NextLine(Y)
        /\ Z.col + 1 < Cols => putc(Z, c) = Y
    BY <1>6, PutcIs
  <2>5. /\ T.col + 1 >= Cols => Typed(T, c) = [lines |-> Append(ls, BlankLine), col |-> 0]
        /\ T.col + 1 < Cols => Typed(T, c) = [lines |-> ls, col |-> T.col + 1]
    BY <1>6, TypedIs
  <2> HIDE DEF ls, Y
  <2>6. CASE Z.col + 1 >= Cols
    <3>1. NextLine(Y) = [col |-> 0, row |-> RowOf(Len(ls) + 1),
                         cells |-> Shown(Append(ls, BlankLine), Len(ls) + 1)]
      BY <1>1, <2>1, <2>2, <2>3, NextLineShows
    <3>2. putc(Z, c) = NextLine(Y) /\ Typed(T, c) = [lines |-> Append(ls, BlankLine), col |-> 0]
      BY <2>4, <2>5, <2>6
    <3>3. Len(Append(ls, BlankLine)) = Len(ls) + 1
      BY <1>2, <2>1
    <3> QED
      BY <3>1, <3>2, <3>3
  <2>7. CASE Z.col + 1 < Cols
    <3>1. putc(Z, c) = Y /\ Typed(T, c) = [lines |-> ls, col |-> T.col + 1]
      BY <2>4, <2>5, <2>7
    <3> QED
      BY <2>1, <2>2, <2>3, <3>1
  <2> QED
    BY <2>6, <2>7, <1>1, ConsoleAssumption
<1> QED
  BY <1>3, <1>4, <1>5, <1>6 DEF Chars

-----------------------------------------------------------------------------
(* An empty screen shows the empty text.                                   *)
LEMMA InitHolds == ConsoleInit => IInv
<1> SUFFICES ASSUME ConsoleInit PROVE IInv
  OBVIOUS
<1>1. 0 < Cols /\ 0 < Rows /\ Cols \in Nat /\ Rows \in Nat
  BY ConsoleAssumption
<1>2. terminal.lines = <<BlankLine>> /\ Len(terminal.lines) = 1 /\ terminal.col = 0
  BY DEF ConsoleInit
<1>3. Types
  <2>1. <<BlankLine>> \in Seq(Lines)
    BY LineFacts
  <2>2. cells \in [0..(Rows - 1) -> Lines]
    BY LineFacts DEF ConsoleInit
  <2>3. terminal = [lines |-> terminal.lines, col |-> terminal.col]
    BY DEF ConsoleInit
  <2>4. terminal.col \in 0..(Cols - 1) /\ Len(terminal.lines) > 0
    BY <1>1, <1>2
  <2>5. /\ console_col \in Nat /\ console_row \in Nat /\ reg \in Nat
        /\ at \in Places /\ torn \in BOOLEAN
    BY DEF ConsoleInit, Places
  <2> QED
    BY <1>2, <2>1, <2>2, <2>3, <2>4, <2>5 DEF Types
<1>4. CursorBounds
  BY <1>1 DEF CursorBounds, ConsoleInit
<1>5. OnLine(Len(terminal.lines))
  <2>1. Above(1) = 0 /\ RowOf(1) = 0
    <3>1. Above(1) = 0
      BY ConsoleAssumption DEF Above
    <3> QED
      BY <3>1 DEF RowOf
  <2>2. Shown(<<BlankLine>>, 1) = [y \in 0..(Rows - 1) |-> BlankLine]
    <3>1. ASSUME NEW y \in 0..(Rows - 1)
          PROVE  (IF 0 + y + 1 <= 1 THEN <<BlankLine>>[0 + y + 1] ELSE BlankLine) = BlankLine
      <4>1. 0 + y + 1 <= 1 => 0 + y + 1 = 1
        BY <1>1
      <4> QED
        BY <4>1
    <3> QED
      BY <2>1, <3>1 DEF Shown
  <2> QED
    BY <1>2, <2>1, <2>2 DEF OnLine, ConsoleInit
<1> QED
  BY <1>2, <1>3, <1>4, <1>5 DEF IInv, ScreenFollows, ConsoleInit

(* What every step may use of the invariant.                               *)
LEMMA NowFacts ==
    ASSUME IInv
    PROVE  /\ Cols \in Nat /\ Cols > 0 /\ Rows \in Nat /\ Rows > 0
           /\ IsTerminal(terminal)
           /\ Len(terminal.lines) \in Nat /\ Len(terminal.lines) > 0
           /\ Types /\ CursorBounds
           /\ ~torn => ScreenFollows
<1>1. terminal.lines \in Seq(Lines) => Len(terminal.lines) \in Nat
  OBVIOUS
<1> QED
  BY <1>1, ConsoleAssumption DEF IInv, IsTerminal, Types

(* A character that a system call prints, wherever the reaper is.          *)
LEMMA CallPrintsKeeps ==
    ASSUME IInv, NEW c \in Chars, CallPrints(c)
    PROVE  IInv'
<1> DEFINE Z == [col |-> console_col, row |-> console_row, cells |-> cells]
<1>1. /\ console_col' = putc(Z, c).col /\ console_row' = putc(Z, c).row
      /\ cells' = putc(Z, c).cells
      /\ at' = at /\ reg' = reg /\ torn' = (torn \/ at # "out")
      /\ terminal' = Typed(terminal, c)
  BY DEF CallPrints, Prints
<1>2. /\ IsConsole(Z) /\ Z.col = console_col /\ Z.row = console_row /\ Z.cells = cells
      /\ cells \in [0..(Rows - 1) -> Lines]
      /\ console_col <= Cols /\ console_row <= Rows
  BY NowFacts DEF IsConsole, Types, CursorBounds
<1> HIDE DEF Z
<1>3. IsTerminal(terminal)'
  BY <1>1, NowFacts, TypedTypes
<1>4. /\ console_col' \in Nat /\ console_col' <= Cols
      /\ console_row' \in Nat /\ console_row' <= Rows
      /\ console_col < Cols => console_col' < Cols
      /\ console_row < Rows => console_row' < Rows
      /\ cells' \in [0..(Rows - 1) -> Lines]
  BY <1>1, <1>2, PutcBounds
<1>5. Types'
  <2>1. reg' \in Nat /\ at' \in Places /\ torn' \in BOOLEAN
    BY <1>1, NowFacts DEF Types
  <2> QED
    BY <1>3, <1>4, <2>1 DEF Types, IsTerminal
<1>6. CursorBounds'
  BY <1>1, <1>4, NowFacts DEF CursorBounds
<1>7. ASSUME ~torn'
      PROVE  ScreenFollows'
  <2>1. ~torn /\ at = "out"
    BY <1>1, <1>7
  <2>2. /\ cells = Shown(terminal.lines, Len(terminal.lines))
        /\ console_row = RowOf(Len(terminal.lines))
        /\ console_col = terminal.col
    BY <2>1, NowFacts DEF ScreenFollows, OnLine
  <2>3. /\ putc(Z, c).cells = Shown(Typed(terminal, c).lines, Len(Typed(terminal, c).lines))
        /\ putc(Z, c).row = RowOf(Len(Typed(terminal, c).lines))
        /\ putc(Z, c).col = Typed(terminal, c).col
    BY <1>2, <2>2, NowFacts, PutcShows
  <2>4. OnLine(Len(terminal.lines))' /\ console_col' = terminal'.col /\ at' = "out"
    BY <1>1, <2>1, <2>3 DEF OnLine
  <2> QED
    BY <2>4 DEF ScreenFollows
<1> QED
  BY <1>5, <1>6, <1>7 DEF IInv

(* A glyph that the reaper draws.                                          *)
LEMMA ReaperDrawsKeeps ==
    ASSUME IInv, NEW c \in Glyphs, ReaperDraws(c)
    PROVE  IInv'
<1> DEFINE m == Len(terminal.lines)
           ls == [terminal.lines EXCEPT ![m][terminal.col] = c]
<1>1. /\ at = "out" /\ at' = "col" /\ torn' = torn /\ reg' = reg
      /\ console_col' = console_col /\ console_row' = console_row
      /\ cells' = Drawn(cells, console_col, console_row, c)
      /\ terminal' = Typed(terminal, c)
  BY DEF ReaperDraws, Prints
<1>2. IsTerminal(terminal)'
  BY <1>1, NowFacts, TypedTypes DEF Chars
<1>3. Types'
  <2>1. /\ console_col' \in Nat /\ console_row' \in Nat /\ reg' \in Nat
        /\ at' \in Places /\ torn' \in BOOLEAN
    BY <1>1, NowFacts DEF Types, Places
  <2>2. cells' \in [0..(Rows - 1) -> Lines]
    BY <1>1, NowFacts, ScreenFacts DEF Types
  <2> QED
    BY <1>2, <2>1, <2>2 DEF Types, IsTerminal
<1>4. CursorBounds'
  BY <1>1, NowFacts DEF CursorBounds
<1>5. ASSUME ~torn'
      PROVE  ScreenFollows'
  <2>1. /\ cells = Shown(terminal.lines, m) /\ console_row = RowOf(m)
        /\ console_col = terminal.col
    BY <1>1, <1>5, NowFacts DEF ScreenFollows, OnLine
  <2>2. terminal.lines \in Seq(Lines) /\ terminal.col \in 0..(Cols - 1) /\ terminal.col \in Nat
    BY NowFacts DEF IsTerminal
  <2>3. ls \in Seq(Lines) /\ Len(ls) = m /\ m \in Nat /\ m > 0
    BY <2>2, NowFacts, DrawnLines
  <2>4. cells' = Shown(ls, m)
    BY <1>1, <2>1, <2>2, NowFacts, ShownDrawn
  <2>5. /\ terminal.col + 1 >= Cols =>
             Typed(terminal, c) = [lines |-> Append(ls, BlankLine), col |-> 0]
        /\ terminal.col + 1 < Cols =>
             Typed(terminal, c) = [lines |-> ls, col |-> terminal.col + 1]
    BY NowFacts, TypedIs
  <2> HIDE DEF m, ls
  <2>6. CASE terminal.col + 1 < Cols
    <3>1. terminal' = [lines |-> ls, col |-> terminal.col + 1]
      BY <1>1, <2>5, <2>6
    <3>2. OnLine(Len(terminal.lines))' /\ terminal'.col = console_col' + 1
      BY <1>1, <2>1, <2>3, <2>4, <3>1 DEF OnLine
    <3>3. ~(console_col' + 1 >= Cols)
      BY <1>1, <2>1, <2>2, <2>6, ConsoleAssumption
    <3> QED
      BY <1>1, <3>2, <3>3 DEF ScreenFollows
  <2>7. CASE terminal.col + 1 >= Cols
    <3>1. terminal' = [lines |-> Append(ls, BlankLine), col |-> 0]
      BY <1>1, <2>5, <2>7
    <3>2. /\ Len(Append(ls, BlankLine)) = m + 1
          /\ Append(ls, BlankLine)[m + 1] = BlankLine
      BY <2>3
    <3>3. Len(terminal'.lines) - 1 = m /\ Len(terminal'.lines) > 1
      BY <2>3, <3>1, <3>2
    <3>4. Shown(terminal'.lines, m) = Shown(ls, m)
      BY <2>3, <3>1, LineFacts, ShownPrefix
    <3>5. OnLine(Len(terminal.lines) - 1)'
      BY <1>1, <2>1, <2>4, <3>3, <3>4 DEF OnLine
    <3>6. Pending'
      BY <3>1, <3>2, <3>3 DEF Pending
    <3>7. ~(console_col' + 1 < Cols)
      BY <1>1, <2>1, <2>2, <2>7, ConsoleAssumption
    <3> QED
      BY <1>1, <3>5, <3>6, <3>7 DEF ScreenFollows
  <2> QED
    BY <2>2, <2>6, <2>7, ConsoleAssumption
<1> QED
  BY <1>3, <1>4, <1>5 DEF IInv

(* The end of a line that the reaper prints.                               *)
LEMMA ReaperEndsLineKeeps ==
    ASSUME IInv, ReaperEndsLine
    PROVE  IInv'
<1> DEFINE m == Len(terminal.lines)
<1>1. /\ at = "out" /\ at' = "row" /\ torn' = torn /\ reg' = reg
      /\ console_col' = 0 /\ console_row' = console_row /\ cells' = cells
      /\ terminal' = Typed(terminal, LF)
  BY DEF ReaperEndsLine, Prints
<1>2. IsTerminal(terminal)'
  BY <1>1, NowFacts, TypedTypes DEF Chars
<1>3. Types'
  <2>1. /\ console_col' \in Nat /\ console_row' \in Nat /\ reg' \in Nat
        /\ at' \in Places /\ torn' \in BOOLEAN /\ cells' \in [0..(Rows - 1) -> Lines]
    BY <1>1, NowFacts DEF Types, Places
  <2> QED
    BY <1>2, <2>1 DEF Types, IsTerminal
<1>4. CursorBounds'
  BY <1>1, NowFacts DEF CursorBounds
<1>5. ASSUME ~torn'
      PROVE  ScreenFollows'
  <2>1. cells = Shown(terminal.lines, m) /\ console_row = RowOf(m)
    BY <1>1, <1>5, NowFacts DEF ScreenFollows, OnLine
  <2>2. terminal.lines \in Seq(Lines) /\ m \in Nat /\ m > 0
    BY NowFacts DEF IsTerminal
  <2>3. terminal' = [lines |-> Append(terminal.lines, BlankLine), col |-> 0]
    BY <1>1, NowFacts, TypedIs
  <2>4. /\ Len(Append(terminal.lines, BlankLine)) = m + 1
        /\ Append(terminal.lines, BlankLine)[m + 1] = BlankLine
    BY <2>2
  <2>5. Shown(terminal'.lines, m) = Shown(terminal.lines, m)
    BY <2>2, <2>3, LineFacts, ShownPrefix
  <2> HIDE DEF m
  <2>6. Len(terminal'.lines) - 1 = m /\ Len(terminal'.lines) > 1
    BY <2>2, <2>3, <2>4
  <2>7. OnLine(Len(terminal.lines) - 1)'
    BY <1>1, <2>1, <2>5, <2>6 DEF OnLine
  <2>8. Pending'
    BY <2>3, <2>4, <2>6 DEF Pending
  <2> QED
    BY <1>1, <2>7, <2>8 DEF ScreenFollows
<1> QED
  BY <1>3, <1>4, <1>5 DEF IInv

(* The reaper's steps after it has drawn: none of them prints.             *)
Moves ==
    \/ ReaperLoads
    \/ ReaperStoresCol
    \/ ReaperWraps
    \/ ReaperStoresRow
    \/ ReaperScrolls
    \/ ReaperSetsRow

(* They keep the types and the bounds of the cursor.                       *)
LEMMA MovesKeepBounds ==
    ASSUME IInv, Moves
    PROVE  Types' /\ CursorBounds' /\ terminal' = terminal /\ torn' = torn
<1>1. terminal' = terminal /\ torn' = torn
  BY DEF Moves, ReaperLoads, ReaperStoresCol, ReaperWraps, ReaperStoresRow, ReaperScrolls,
         ReaperSetsRow
<1>2. IsTerminal(terminal)' /\ torn' \in BOOLEAN
  BY <1>1, NowFacts DEF Types
<1>3. /\ console_col \in Nat /\ console_row \in Nat /\ reg \in Nat
      /\ cells \in [0..(Rows - 1) -> Lines] /\ at \in Places
  BY NowFacts DEF Types
<1>4. ASSUME /\ console_col' \in Nat /\ console_row' \in Nat /\ reg' \in Nat
             /\ cells' \in [0..(Rows - 1) -> Lines] /\ at' \in Places
      PROVE  Types'
  BY <1>2, <1>4 DEF Types, IsTerminal
<1>5. CASE ReaperLoads
  <2>1. Types'
    BY <1>3, <1>4, <1>5 DEF ReaperLoads, Places
  <2> QED
    BY <1>1, <1>5, <2>1, NowFacts DEF ReaperLoads, CursorBounds
<1>6. CASE ReaperStoresCol
  <2>1. Types'
    BY <1>3, <1>4, <1>6 DEF ReaperStoresCol, Places
  <2>2. reg < Cols /\ console_row < Rows
    BY <1>6, NowFacts DEF ReaperStoresCol, CursorBounds
  <2> QED
    BY <1>1, <1>3, <1>6, <2>1, <2>2, NowFacts DEF ReaperStoresCol, CursorBounds
<1>7. CASE ReaperWraps
  <2>1. Types'
    BY <1>3, <1>4, <1>7 DEF ReaperWraps, Places
  <2> QED
    BY <1>1, <1>7, <2>1, NowFacts DEF ReaperWraps, CursorBounds
<1>8. CASE ReaperStoresRow
  <2>1. Types'
    BY <1>3, <1>4, <1>8 DEF ReaperStoresRow, Places
  <2>2. reg < Rows /\ console_col < Cols
    BY <1>8, NowFacts DEF ReaperStoresRow, CursorBounds
  <2> QED
    BY <1>1, <1>3, <1>8, <2>1, <2>2, NowFacts DEF ReaperStoresRow, CursorBounds
<1>9. CASE ReaperScrolls
  <2>1. cells' \in [0..(Rows - 1) -> Lines]
    BY <1>3, <1>9, ScreenFacts DEF ReaperScrolls
  <2>2. Types'
    BY <1>3, <1>4, <1>9, <2>1 DEF ReaperScrolls, Places
  <2> QED
    BY <1>1, <1>9, <2>2, NowFacts DEF ReaperScrolls, CursorBounds
<1>10. CASE ReaperSetsRow
  <2>1. console_row' = Rows - 1 /\ Rows - 1 \in Nat /\ Rows - 1 < Rows
    BY <1>10, NowFacts DEF ReaperSetsRow
  <2>2. Types'
    BY <1>3, <1>4, <1>10, <2>1 DEF ReaperSetsRow, Places
  <2> QED
    BY <1>1, <1>10, <2>1, <2>2, NowFacts DEF ReaperSetsRow, CursorBounds
<1> QED
  BY <1>5, <1>6, <1>7, <1>8, <1>9, <1>10 DEF Moves

(* And, when no other putc has come between them, they take the screen to  *)
(* where the text is.                                                      *)
LEMMA MovesFollow ==
    ASSUME IInv, Moves, ~torn
    PROVE  ScreenFollows'
<1> DEFINE m == Len(terminal.lines)
<1>1. terminal' = terminal
  BY MovesKeepBounds
<1>2. /\ m \in Nat /\ m > 0 /\ ScreenFollows /\ CursorBounds
      /\ Cols \in Nat /\ Cols > 0 /\ Rows \in Nat /\ Rows > 0
      /\ console_col \in Nat /\ console_row \in Nat
  BY NowFacts DEF Types
<1>3. CASE ReaperLoads
  <2>1. /\ console_col' = console_col /\ console_row' = console_row /\ cells' = cells
        /\ \/ at = "col" /\ reg' = console_col /\ at' = "col++"
           \/ at = "row" /\ reg' = console_row /\ at' = "row++"
    BY <1>3 DEF ReaperLoads
  <2>2. (OnLine(m) => OnLine(m)') /\ (OnLine(m - 1) => OnLine(m - 1)') /\ (Pending => Pending')
    BY <1>1, <2>1 DEF OnLine, Pending
  <2>3. CASE at = "col"
    BY <1>1, <1>2, <2>1, <2>2, <2>3 DEF ScreenFollows
  <2>4. CASE at = "row"
    BY <1>1, <1>2, <2>1, <2>2, <2>4 DEF ScreenFollows
  <2> QED
    BY <2>1, <2>3, <2>4
<1>4. CASE ReaperStoresCol
  <2>1. /\ at = "col++" /\ console_col' = console_col + 1
        /\ at' = IF console_col + 1 >= Cols THEN "wrap" ELSE "out"
        /\ console_row' = console_row /\ cells' = cells
    BY <1>2, <1>4 DEF ReaperStoresCol, ScreenFollows
  <2>2. (OnLine(m) => OnLine(m)') /\ (OnLine(m - 1) => OnLine(m - 1)') /\ (Pending => Pending')
    BY <1>1, <2>1 DEF OnLine, Pending
  <2>3. CASE console_col + 1 >= Cols
    <3>1. at' = "wrap" /\ OnLine(m - 1)' /\ Pending'
      BY <1>2, <2>1, <2>2, <2>3 DEF ScreenFollows
    <3> QED
      BY <1>1, <3>1 DEF ScreenFollows
  <2>4. CASE console_col + 1 < Cols
    <3>1. at' = "out" /\ OnLine(m)' /\ terminal.col = console_col'
      BY <1>2, <2>1, <2>2, <2>4 DEF ScreenFollows
    <3> QED
      BY <1>1, <3>1 DEF ScreenFollows
  <2> QED
    BY <1>2, <2>3, <2>4
<1>5. CASE ReaperWraps
  <2>1. /\ at = "wrap" /\ console_col' = 0 /\ at' = "row"
        /\ console_row' = console_row /\ cells' = cells
    BY <1>5 DEF ReaperWraps
  <2>2. OnLine(m - 1)' /\ Pending'
    BY <1>1, <1>2, <2>1 DEF OnLine, Pending, ScreenFollows
  <2> QED
    BY <1>1, <2>1, <2>2 DEF ScreenFollows
<1>6. CASE ReaperStoresRow
  <2>1. /\ at = "row++" /\ console_row' = console_row + 1
        /\ at' = IF console_row + 1 >= Rows THEN "scroll" ELSE "out"
        /\ console_col' = console_col /\ cells' = cells
    BY <1>2, <1>6 DEF ReaperStoresRow, ScreenFollows
  <2>2. OnLine(m - 1) /\ Pending /\ console_col = 0
    BY <1>2, <2>1 DEF ScreenFollows
  <2>3. m - 1 \in Nat /\ m - 1 > 0 /\ m - 1 + 1 = m /\ terminal.lines[m] = BlankLine
    BY <1>2, <2>2 DEF Pending
  <2>4. /\ RowOf(m - 1) + 1 < Rows => /\ Shown(terminal.lines, m) = Shown(terminal.lines, m - 1)
                                      /\ RowOf(m) = RowOf(m - 1) + 1
        /\ RowOf(m - 1) + 1 >= Rows => m - 1 >= Rows
    BY <2>3, ShownNext
  <2>5. cells = Shown(terminal.lines, m - 1) /\ console_row = RowOf(m - 1)
    BY <2>2 DEF OnLine
  <2> HIDE DEF m
  <2>6. CASE console_row + 1 >= Rows
    <3>1. at' = "scroll" /\ m > Rows
      BY <1>2, <2>1, <2>4, <2>5, <2>6
    <3>2. Pending'
      BY <1>1, <2>2 DEF Pending
    <3> QED
      BY <1>1, <2>1, <2>2, <2>5, <3>1, <3>2 DEF ScreenFollows, m
  <2>7. CASE console_row + 1 < Rows
    <3>1. at' = "out"
      BY <1>2, <2>1, <2>7
    <3>2. cells' = Shown(terminal'.lines, m) /\ console_row' = RowOf(m)
      BY <1>1, <2>1, <2>4, <2>5, <2>7
    <3>3. terminal.col = 0
      BY <2>2 DEF Pending
    <3> QED
      BY <1>1, <2>1, <2>2, <3>1, <3>2, <3>3 DEF ScreenFollows, OnLine, m
  <2> QED
    BY <1>2, <2>6, <2>7
<1>7. CASE ReaperScrolls
  <2>1. /\ at = "scroll" /\ at' = "last" /\ cells' = Scrolled(cells)
        /\ console_col' = console_col /\ console_row' = console_row
    BY <1>7 DEF ReaperScrolls
  <2>2. /\ cells = Shown(terminal.lines, m - 1) /\ m > Rows /\ Pending
        /\ console_col = 0
    BY <1>2, <2>1 DEF ScreenFollows
  <2>3. /\ m - 1 \in Nat /\ m - 1 > 0 /\ m - 1 + 1 = m /\ terminal.lines[m] = BlankLine
        /\ terminal.col = 0
    BY <1>2, <2>2 DEF Pending
  <2>4. RowOf(m - 1) + 1 >= Rows
    BY <1>2, <2>2 DEF RowOf, Above
  <2>5. Shown(terminal.lines, m) = Scrolled(Shown(terminal.lines, m - 1))
    BY <2>3, <2>4, ShownNext
  <2> QED
    BY <1>1, <2>1, <2>2, <2>3, <2>5 DEF ScreenFollows
<1>8. CASE ReaperSetsRow
  <2>1. /\ at = "last" /\ at' = "out" /\ console_row' = Rows - 1
        /\ console_col' = console_col /\ cells' = cells
    BY <1>8 DEF ReaperSetsRow
  <2>2. cells = Shown(terminal.lines, m) /\ m > Rows /\ terminal.col = 0 /\ console_col = 0
    BY <1>2, <2>1 DEF ScreenFollows
  <2>3. RowOf(m) = Rows - 1
    BY <1>2, <2>2 DEF RowOf, Above
  <2> QED
    BY <1>1, <2>1, <2>2, <2>3 DEF ScreenFollows, OnLine
<1> QED
  BY <1>3, <1>4, <1>5, <1>6, <1>7, <1>8 DEF Moves

(* The invariant holds after every step of the console.                    *)
THEOREM Invariance == ConsoleSpec => []IInv
<1>1. IInv /\ [ConsoleNext]_consoleVars => IInv'
  <2> SUFFICES ASSUME IInv, [ConsoleNext]_consoleVars PROVE IInv'
    OBVIOUS
  <2>1. ASSUME NEW c \in Glyphs \cup {LF, CR, BS}, CallPrints(c) PROVE IInv'
    BY <2>1, CallPrintsKeeps DEF Chars
  <2>2. ASSUME NEW c \in Glyphs, ReaperDraws(c) PROVE IInv'
    BY <2>2, ReaperDrawsKeeps
  <2>3. CASE ReaperEndsLine
    BY <2>3, ReaperEndsLineKeeps
  <2>4. CASE Moves
    BY <2>4, MovesKeepBounds, MovesFollow DEF IInv
  <2>5. CASE UNCHANGED consoleVars
    BY <2>5 DEF consoleVars, IInv, Types, CursorBounds, ScreenFollows, OnLine, Pending
  <2> QED
    BY <2>1, <2>2, <2>3, <2>4, <2>5 DEF ConsoleNext, Moves
<1> QED
  BY <1>1, InitHolds, PTL DEF ConsoleSpec

(* Two printers that share an unguarded cursor never leave it off the      *)
(* screen: when the reaper is outside linearfb_console_putc the next glyph *)
(* is drawn on the screen, however the kernel's printers interleaved.      *)
THEOREM CursorAlwaysInRange == ConsoleSpec => []CursorInRange
<1>1. IInv => CursorInRange
  BY DEF IInv, CursorBounds, CursorInRange
<1> QED
  BY <1>1, Invariance, PTL

(* While no linearfb_console_putc was interrupted by another, the screen   *)
(* shows the last lines of all that was printed, and the cursor is where   *)
(* the text ends, through wraps and scrolls and for every screen.          *)
THEOREM TailAlwaysShown == ConsoleSpec => []ScreenShowsTail
<1>1. IInv => ScreenShowsTail
  <2> SUFFICES ASSUME IInv, ~torn, at = "out"
               PROVE  /\ cells = Shown(terminal.lines, Len(terminal.lines))
                      /\ console_col = terminal.col
                      /\ Above(Len(terminal.lines)) + console_row + 1 = Len(terminal.lines)
    BY DEF ScreenShowsTail, Shown, Above
  <2>1. OnLine(Len(terminal.lines)) /\ console_col = terminal.col
    BY NowFacts DEF ScreenFollows
  <2>2. Len(terminal.lines) \in Nat /\ Above(Len(terminal.lines)) \in Int
    BY NowFacts DEF Above
  <2> QED
    BY <2>1, <2>2 DEF OnLine, RowOf
<1> QED
  BY <1>1, Invariance, PTL

-----------------------------------------------------------------------------
(* The compiler runtime.  Pow2 is what its recursion says.                 *)
LEMMA Pow2Is ==
    /\ Pow2[0] = 1
    /\ \A k \in 1..W : Pow2[k] = 2 * Pow2[k - 1]
<1> DEFINE Rec(g, m) == g = [k \in 0..m |-> IF k = 0 THEN 1 ELSE 2 * g[k - 1]]
           B == {m \in Nat : ~ \E g : Rec(g, m)}
<1>1. Rec([k \in 0..0 |-> 1], 0)
  OBVIOUS
<1>2. ASSUME NEW m \in Nat, NEW g, Rec(g, m)
      PROVE  \E h : Rec(h, m + 1)
  <2> DEFINE h == [k \in 0..(m + 1) |-> IF k = m + 1 THEN 2 * g[m] ELSE g[k]]
  <2>1. \A k \in 0..m : h[k] = g[k]
    OBVIOUS
  <2>2. ASSUME NEW k \in 0..(m + 1)
        PROVE  h[k] = IF k = 0 THEN 1 ELSE 2 * h[k - 1]
    <3>1. CASE k = m + 1
      <4>1. k - 1 = m /\ m \in 0..m /\ k # 0
        BY <3>1
      <4>2. h[k - 1] = g[m]
        BY <2>1, <4>1
      <4> HIDE DEF h
      <4>3. h[k] = 2 * g[m]
        BY <3>1 DEF h
      <4> QED
        BY <3>1, <4>1, <4>2, <4>3
    <3>2. CASE k = 0
      BY <1>2, <3>2
    <3>3. CASE k # 0 /\ k # m + 1
      <4>1. k \in 0..m /\ k - 1 \in 0..m
        BY <3>3
      <4>2. h[k] = g[k] /\ h[k - 1] = g[k - 1]
        BY <2>1, <4>1
      <4>3. g[k] = 2 * g[k - 1]
        BY <1>2, <3>3, <4>1
      <4> QED
        BY <3>3, <4>2, <4>3
    <3> QED
      BY <3>1, <3>2, <3>3
  <2>3. Rec(h, m + 1)
    <3>1. h = [k \in 0..(m + 1) |-> h[k]]
      OBVIOUS
    <3> HIDE DEF h
    <3> QED
      BY <2>2, <3>1
  <2> QED
    BY <2>3
<1> HIDE DEF Rec
<1>3. B = {}
  <2> SUFFICES ASSUME B # {} PROVE FALSE
    OBVIOUS
  <2>1. PICK m \in B : \A j \in B : m <= j
    BY LeastElement
  <2>2. m \in Nat /\ m # 0
    BY <1>1
  <2>3. m - 1 \in Nat /\ m - 1 \notin B
    BY <2>1, <2>2
  <2>4. PICK g : Rec(g, m - 1)
    BY <2>3
  <2>5. \E h : Rec(h, (m - 1) + 1)
    BY <1>2, <2>3, <2>4
  <2>6. (m - 1) + 1 = m
    BY <2>2
  <2> QED
    BY <2>5, <2>6
<1>4. \E g : Rec(g, W)
  BY <1>3, WordAssumption
<1>5. Pow2 = CHOOSE g : Rec(g, W)
  BY DEF Pow2, Rec
<1>6. Rec(Pow2, W)
  BY <1>4, <1>5
<1>7. \A k \in 0..W : Pow2[k] = IF k = 0 THEN 1 ELSE 2 * Pow2[k - 1]
  <2> DEFINE f == Pow2
  <2>1. Rec(f, W)
    BY <1>6
  <2> HIDE DEF f
  <2>2. \A k \in 0..W : f[k] = IF k = 0 THEN 1 ELSE 2 * f[k - 1]
    BY <2>1 DEF Rec
  <2> QED
    BY <2>2 DEF f
<1>8. 0 \in 0..W /\ \A k \in 1..W : k \in 0..W /\ k # 0
  BY WordAssumption
<1> QED
  BY <1>7, <1>8, Zenon

(* Powers of two are positive, and grow with the exponent.                 *)
LEMMA Pow2Type ==
    \A k \in 0..W : Pow2[k] \in Nat /\ Pow2[k] > 0
<1> DEFINE Good(k) == Pow2[k] \in Nat /\ Pow2[k] > 0
           B == {k \in 0..W : ~Good(k)}
<1>1. Good(0)
  BY Pow2Is
<1>2. ASSUME NEW k \in 1..W, Good(k - 1) PROVE Good(k)
  <2>1. Pow2[k] = 2 * Pow2[k - 1]
    BY Pow2Is
  <2> QED
    BY <1>2, <2>1
<1> HIDE DEF Good
<1>3. B = {}
  <2> SUFFICES ASSUME B # {} PROVE FALSE
    OBVIOUS
  <2>1. B \subseteq Nat
    BY WordAssumption
  <2>2. PICK k \in B : \A j \in B : k <= j
    BY <2>1, LeastElement
  <2>3. k \in 1..W /\ k - 1 \in 0..W
    BY <1>1, WordAssumption
  <2>4. k - 1 \notin B
    <3> HIDE DEF B
    <3> QED
      BY <2>2, <2>3, WordAssumption
  <2>5. Good(k - 1)
    BY <2>3, <2>4
  <2> QED
    BY <1>2, <2>3, <2>5
<1> QED
  BY <1>3 DEF Good

(* Exponents add up.                                                       *)
LEMMA Pow2Sum ==
    \A k \in 0..W : Pow2[W - k] * Pow2[k] = Word
<1> DEFINE Good(k) == Pow2[W - k] * Pow2[k] = Word
           B == {k \in 0..W : ~Good(k)}
<1>0. W \in Nat \ {0}
  BY WordAssumption
<1>1. Good(0)
  <2>1. W - 0 = W /\ W \in 0..W /\ Pow2[W] \in Nat /\ Pow2[0] = 1
    BY <1>0, Pow2Is, Pow2Type
  <2> QED
    BY <2>1 DEF Word
<1>2. ASSUME NEW k \in 1..W, Good(k - 1) PROVE Good(k)
  <2> DEFINE m == W - k
  <2>1. m + 1 \in 1..W /\ m \in 0..W /\ k - 1 \in 0..W /\ W - (k - 1) = m + 1 /\ (m + 1) - 1 = m
    BY <1>0
  <2>2. Pow2[k] = 2 * Pow2[k - 1] /\ Pow2[m + 1] = 2 * Pow2[m]
    BY <2>1, Pow2Is
  <2>3. Pow2[k - 1] \in Nat /\ Pow2[m] \in Nat
    BY <2>1, Pow2Type
  <2>4. Pow2[m + 1] * Pow2[k - 1] = Word
    BY <1>2, <2>1
  <2> HIDE DEF m
  <2>5. \A x, y \in Nat : (2 * x) * y = x * (2 * y)
    OBVIOUS
  <2>6. Pow2[m] * Pow2[k] = Word
    BY <2>2, <2>3, <2>4, <2>5
  <2> QED
    BY <2>6 DEF m
<1> HIDE DEF Good
<1>3. B = {}
  <2> SUFFICES ASSUME B # {} PROVE FALSE
    OBVIOUS
  <2>1. B \subseteq Nat
    BY <1>0
  <2>2. PICK k \in B : \A j \in B : k <= j
    BY <2>1, LeastElement
  <2>3. k \in 1..W /\ k - 1 \in 0..W
    BY <1>0, <1>1
  <2>4. k - 1 \notin B
    <3> HIDE DEF B
    <3> QED
      BY <2>2, <2>3, <1>0
  <2>5. Good(k - 1)
    BY <2>3, <2>4
  <2> QED
    BY <1>2, <2>3, <2>5
<1> QED
  BY <1>3 DEF Good

-----------------------------------------------------------------------------
(* Products.                                                               *)
LEMMA Products ==
    ASSUME NEW x \in Int, NEW y \in Int, NEW z \in Int
    PROVE  /\ x * y \in Int /\ x * y = y * x
           /\ (x + y) * z = x * z + y * z /\ (x - y) * z = x * z - y * z
           /\ (x * y) * z = x * (y * z)
           /\ z >= 0 /\ x <= y => x * z <= y * z
           /\ x >= 0 /\ y >= 0 => x * y >= 0
<1>1. x * y \in Int /\ x * y = y * x
  OBVIOUS
<1>2. (x + y) * z = x * z + y * z /\ (x - y) * z = x * z - y * z
  OBVIOUS
<1>3. (x * y) * z = x * (y * z)
  OBVIOUS
<1>4. x >= 0 /\ y >= 0 => x * y >= 0
  OBVIOUS
<1>5. z >= 0 /\ x <= y => x * z <= y * z
  OBVIOUS
<1> QED
  BY <1>1, <1>2, <1>3, <1>4, <1>5

(* A quotient with its remainder.                                          *)
Divided(x, y, quo, rem) ==
    quo \in Int /\ rem \in Nat /\ rem < y /\ x = quo * y + rem

LEMMA DivisionIs ==
    ASSUME NEW x \in Int, NEW y \in Nat \ {0}
    PROVE  Divided(x, y, x \div y, x % y)
BY DEF Divided

(* There is one only.                                                      *)
LEMMA DivisionOnly ==
    ASSUME NEW x \in Int, NEW y \in Nat \ {0}, NEW quo, NEW rem, Divided(x, y, quo, rem)
    PROVE  quo = x \div y /\ rem = x % y
<1> DEFINE c == x \div y
           e == x % y
<1>1. c \in Int /\ e \in Nat /\ e < y /\ x = c * y + e
  BY DivisionIs DEF Divided
<1>2. quo \in Int /\ rem \in Nat /\ rem < y /\ x = quo * y + rem
  BY DEF Divided
<1> HIDE DEF c, e
<1>3. \A i, j \in Int : i < j => j * y >= i * y + y
  <2> SUFFICES ASSUME NEW i \in Int, NEW j \in Int, i < j PROVE j * y >= i * y + y
    OBVIOUS
  <2>1. (i + 1) * y <= j * y
    BY Products
  <2>2. (i + 1) * y = i * y + y
    OBVIOUS
  <2>3. i * y \in Int /\ j * y \in Int /\ (i + 1) * y \in Int
    OBVIOUS
  <2> QED
    BY <2>1, <2>2, <2>3
<1>4. c * y \in Int /\ quo * y \in Int
  BY <1>1, <1>2
<1>5. ~(c < quo)
  <2> SUFFICES ASSUME c < quo PROVE FALSE
    OBVIOUS
  <2>1. quo * y >= c * y + y
    BY <1>1, <1>2, <1>3
  <2> QED
    BY <1>1, <1>2, <1>4, <2>1
<1>6. ~(quo < c)
  <2> SUFFICES ASSUME quo < c PROVE FALSE
    OBVIOUS
  <2>1. c * y >= quo * y + y
    BY <1>1, <1>2, <1>3
  <2> QED
    BY <1>1, <1>2, <1>4, <2>1
<1>7. quo = c
  BY <1>1, <1>2, <1>5, <1>6
<1>8. rem = e
  BY <1>1, <1>2, <1>4, <1>7
<1> QED
  BY <1>7, <1>8 DEF c, e

(* A quotient is small where the dividend is.                              *)
LEMMA QuotientBelow ==
    ASSUME NEW x \in Int, NEW y \in Nat \ {0}, NEW quo, NEW rem, Divided(x, y, quo, rem),
           NEW m \in Int
    PROVE  /\ x < m * y => quo < m
           /\ x >= 0 => quo >= 0
<1>0. quo \in Int /\ rem \in Nat /\ rem < y /\ x = quo * y + rem
  BY DEF Divided
<1>1. ASSUME x < m * y, m <= quo PROVE FALSE
  <2>1. m * y <= quo * y
    BY <1>0, <1>1, Products
  <2>2. m * y \in Int /\ quo * y \in Int
    BY <1>0
  <2> QED
    BY <1>0, <1>1, <2>1, <2>2
<1>2. ASSUME x >= 0, quo <= -1 PROVE FALSE
  <2>1. quo * y <= (-1) * y
    BY <1>0, <1>2, Products
  <2>2. (-1) * y = -y /\ quo * y \in Int
    BY <1>0
  <2> QED
    BY <1>0, <1>2, <2>1, <2>2
<1> QED
  BY <1>0, <1>1, <1>2

(* Of natural numbers, the quotient is natural too, and not above the      *)
(* dividend.                                                               *)
LEMMA QuotientNat ==
    ASSUME NEW x \in Nat, NEW y \in Nat \ {0}
    PROVE  /\ x \div y \in Nat /\ x % y \in Nat /\ x % y < y
           /\ (x \div y) * y + (x % y) = x /\ x \div y <= x
<1>1. x \in Int /\ Divided(x, y, x \div y, x % y)
  <2>1. x \in Int
    OBVIOUS
  <2> QED
    BY <2>1, DivisionIs, Zenon
<1>2. x \div y >= 0
  BY <1>1, QuotientBelow
<1> DEFINE c == x \div y
           e == x % y
<1>3. c \in Nat /\ e \in Nat /\ e < y /\ c * y + e = x
  BY <1>1, <1>2 DEF Divided
<1> HIDE DEF c, e
<1>4. 1 * c <= y * c /\ y * c = c * y /\ c * y \in Nat /\ 1 * c = c
  BY <1>3, Products
<1>5. c <= x
  BY <1>3, <1>4
<1>6. x \div y = c /\ x % y = e
  BY DEF c, e
<1> QED
  BY <1>3, <1>5, <1>6

-----------------------------------------------------------------------------
(* Words and wide numbers.                                                 *)
LEMMA WordType ==
    /\ Word \in Nat /\ Word >= 2
    /\ Wide \in Nat /\ Wide >= 2 * Word
<1>1. W \in 1..W /\ W - 1 \in 0..W
  BY WordAssumption
<1>2. Word = 2 * Pow2[W - 1]
  BY <1>1, Pow2Is DEF Word
<1>3. Pow2[W - 1] \in Nat /\ Pow2[W - 1] >= 1
  <2>1. Pow2[W - 1] \in Nat /\ Pow2[W - 1] > 0
    BY <1>1, Pow2Type
  <2> QED
    BY <2>1
<1>4. Word \in Nat /\ Word >= 2
  BY <1>2, <1>3
<1> QED
  BY <1>4, Products DEF Wide

(* A wide number is its two words.                                         *)
LEMMA TwoWords ==
    ASSUME NEW v \in 0..(Wide - 1)
    PROVE  /\ Hi(v) \in 0..(Word - 1) /\ Lo(v) \in 0..(Word - 1)
           /\ v = Hi(v) * Word + Lo(v) /\ Hi(v) * Word \in Nat
<1>1. Word \in Nat \ {0} /\ Wide \in Nat /\ v \in Nat /\ v < Wide
  BY WordType
<1>2. Hi(v) \in Nat /\ Lo(v) \in Nat /\ Lo(v) < Word /\ Hi(v) * Word + Lo(v) = v
  BY <1>1, QuotientNat DEF Hi, Lo
<1>3. Divided(v, Word, Hi(v), Lo(v))
  BY <1>2 DEF Divided
<1>4. Hi(v) < Word
  BY <1>1, <1>3, QuotientBelow DEF Wide
<1> QED
  BY <1>1, <1>2, <1>4, Products

(* Every word but zero has its number of leading zeros.                    *)
LEMMA LeadingZeros ==
    ASSUME NEW v \in 1..(Word - 1)
    PROVE  clz(v) \in 0..(W - 1) /\ Pow2[W - 1 - clz(v)] <= v /\ v < Pow2[W - clz(v)]
<1> DEFINE B == {k \in 0..W : v < Pow2[k]}
<1>1. W \in B /\ B \subseteq Nat
  BY WordAssumption, WordType DEF Word
<1>2. PICK k \in B : \A j \in B : k <= j
  BY <1>1, LeastElement
<1>3. k \in 0..W /\ v < Pow2[k]
  OBVIOUS
<1>4. k # 0
  BY <1>3, Pow2Is, WordType
<1>5. k - 1 \in 0..W /\ k - 1 \notin B
  <2> HIDE DEF B
  <2> QED
    BY <1>2, <1>3, <1>4, WordAssumption
<1>6. Pow2[k - 1] <= v
  <2>1. Pow2[k - 1] \in Nat /\ v \in Nat /\ ~(v < Pow2[k - 1])
    BY <1>5, Pow2Type, WordType
  <2> QED
    BY <2>1
<1> DEFINE z == W - k
<1>7. z \in 0..(W - 1) /\ W - 1 - z = k - 1 /\ W - z = k
  BY <1>3, <1>4, WordAssumption
<1>8. Pow2[W - 1 - z] <= v /\ v < Pow2[W - z]
  BY <1>3, <1>6, <1>7
<1> HIDE DEF z
<1> QED
  BY <1>7, <1>8 DEF clz

-----------------------------------------------------------------------------
(* Signed numbers.                                                         *)
LEMMA SignedValues ==
    ASSUME NEW v \in 0..(Wide - 1)
    PROVE  /\ Magnitude(v) \in 0..(Wide - 1) /\ (Magnitude(v) = 0 <=> v = 0)
           /\ Magnitude(v) = Abs(ValueOf(v))
           /\ ValueOf(v) \in Int /\ (ValueOf(v) < 0 <=> Negative(v))
           /\ ValueOf(v) = IF Negative(v) THEN -Magnitude(v) ELSE Magnitude(v)
           /\ Negative(v) \in BOOLEAN
<1> DEFINE h == Wide \div 2
<1>1. Wide \in Nat /\ Wide >= 4 /\ v \in Nat /\ v < Wide
  BY WordType
<1>2. h \in Nat /\ h > 0
  BY <1>1
<1>3. (Negative(v) <=> v >= h) /\ Negative(v) \in BOOLEAN
  <2>1. (v >= Wide \div 2) \in BOOLEAN
    BY <1>1, <1>2 DEF h
  <2> QED
    BY <2>1 DEF Negative, h
<1> HIDE DEF h
<1>4. CASE v >= h
  <2>1. Negate(v) = Wide - v /\ Wide - v \in 1..(Wide - 1)
    <3>1. Wide - v \in 1..(Wide - 1)
      BY <1>1, <1>2, <1>4
    <3>2. Divided(Wide - v, Wide, 0, Wide - v)
      BY <1>1, <3>1 DEF Divided
    <3> QED
      BY <1>1, <3>1, <3>2, DivisionOnly DEF Negate
  <2>2. Negative(v)
    BY <1>3, <1>4
  <2>3. Magnitude(v) = Wide - v /\ ValueOf(v) = v - Wide
    BY <2>1, <2>2 DEF Magnitude, ValueOf
  <2> QED
    BY <1>1, <1>2, <1>3, <1>4, <2>1, <2>2, <2>3 DEF Abs
<1>5. CASE ~(v >= h)
  <2>1. ~Negative(v)
    BY <1>3, <1>5
  <2>2. Magnitude(v) = v /\ ValueOf(v) = v
    BY <2>1 DEF Magnitude, ValueOf
  <2> QED
    BY <1>1, <1>3, <2>1, <2>2 DEF Abs
<1> QED
  BY <1>4, <1>5

(* Negation is that of the number, modulo Wide.                            *)
LEMMA ModWide ==
    ASSUME NEW v \in 0..(Wide - 1)
    PROVE  v % Wide = v /\ (-v) % Wide = Negate(v)
<1>1. Wide \in Nat \ {0} /\ v \in Nat /\ v < Wide
  BY WordType
<1>2. Divided(v, Wide, 0, v)
  BY <1>1 DEF Divided
<1>3. v % Wide = v
  BY <1>1, <1>2, DivisionOnly
<1>4. CASE v = 0
  <2>1. Divided(Wide, Wide, 1, 0) /\ Divided(0, Wide, 0, 0)
    BY <1>1 DEF Divided
  <2>2. 0 = Wide % Wide /\ 0 = 0 % Wide
    BY <1>1, <2>1, DivisionOnly
  <2> QED
    BY <1>1, <1>3, <1>4, <2>2 DEF Negate
<1>5. CASE v # 0
  <2>1. Divided(Wide - v, Wide, 0, Wide - v) /\ Divided(-v, Wide, -1, Wide - v)
    BY <1>1, <1>5 DEF Divided
  <2>2. Wide - v = (Wide - v) % Wide /\ Wide - v = (-v) % Wide
    BY <1>1, <2>1, DivisionOnly
  <2> QED
    BY <1>3, <2>2 DEF Negate
<1> QED
  BY <1>4, <1>5

(* The quotient and the remainder of the magnitudes, with the signs that   *)
(* __divti3 and __modti3 give them, are those of C.                        *)
LEMMA SignedDivision ==
    ASSUME NEW u \in 0..(Wide - 1), NEW v \in 1..(Wide - 1), NEW quo, NEW rem,
           Divided(Magnitude(u), Magnitude(v), quo, rem)
    PROVE  /\ CQuotient(ValueOf(u), ValueOf(v)) % Wide =
                  IF Negative(u) # Negative(v) THEN Negate(quo) ELSE quo
           /\ CRemainder(ValueOf(u), ValueOf(v)) % Wide =
                  IF Negative(u) THEN Negate(rem) ELSE rem
<1> DEFINE x == Magnitude(u)
           y == Magnitude(v)
           nx == Negative(u)
           ny == Negative(v)
<1>1. v \in 0..(Wide - 1) /\ v # 0 /\ Wide \in Nat
  BY WordType
<1>2. /\ x \in Nat /\ x < Wide /\ y \in Nat \ {0} /\ y < Wide
      /\ nx \in BOOLEAN /\ ny \in BOOLEAN
  BY <1>1, SignedValues
<1>3. /\ ValueOf(u) = (IF nx THEN -x ELSE x) /\ (ValueOf(u) < 0 <=> nx)
      /\ ValueOf(v) = (IF ny THEN -y ELSE y) /\ (ValueOf(v) < 0 <=> ny)
      /\ Abs(ValueOf(u)) = x /\ Abs(ValueOf(v)) = y
      /\ ValueOf(u) \in Int /\ ValueOf(v) \in Int
  BY <1>1, SignedValues
<1>4. Divided(x, y, quo, rem)
  OBVIOUS
<1> HIDE DEF x, y, nx, ny
<1>5. quo = x \div y /\ rem = x % y
  BY <1>2, <1>4, DivisionOnly
<1>6. quo \in Nat /\ rem \in Nat /\ quo <= x /\ rem < y /\ quo * y + rem = x
  BY <1>2, <1>5, QuotientNat
<1>7. CQuotient(ValueOf(u), ValueOf(v)) = IF nx <=> ny THEN quo ELSE -quo
  <2>1. (ValueOf(u) < 0) # (ValueOf(v) < 0) <=> ~(nx <=> ny)
    BY <1>2, <1>3
  <2> QED
    BY <1>3, <1>5, <2>1 DEF CQuotient
<1>8. CRemainder(ValueOf(u), ValueOf(v)) = IF nx THEN -rem ELSE rem
  <2> DEFINE p == quo * y
  <2>1. p \in Nat /\ y * quo = p /\ y * (-quo) = -p /\ (-y) * quo = -p /\ (-y) * (-quo) = p
    BY <1>2, <1>6
  <2>2. p + rem = x
    BY <1>6
  <2>3. CRemainder(ValueOf(u), ValueOf(v))
          = ValueOf(u) - ValueOf(v) * (IF nx <=> ny THEN quo ELSE -quo)
    BY <1>7 DEF CRemainder
  <2> HIDE DEF p
  <2>4. CASE nx /\ ny
    <3>1. CRemainder(ValueOf(u), ValueOf(v)) = (-x) - (-y) * quo
      BY <1>3, <2>3, <2>4
    <3> QED
      BY <1>2, <1>6, <2>1, <2>2, <2>4, <3>1
  <2>5. CASE nx /\ ~ny
    <3>1. CRemainder(ValueOf(u), ValueOf(v)) = (-x) - y * (-quo)
      BY <1>3, <2>3, <2>5
    <3> QED
      BY <1>2, <1>6, <2>1, <2>2, <2>5, <3>1
  <2>6. CASE ~nx /\ ny
    <3>1. CRemainder(ValueOf(u), ValueOf(v)) = x - (-y) * (-quo)
      BY <1>3, <2>3, <2>6
    <3> QED
      BY <1>2, <1>6, <2>1, <2>2, <2>6, <3>1
  <2>7. CASE ~nx /\ ~ny
    <3>1. CRemainder(ValueOf(u), ValueOf(v)) = x - y * quo
      BY <1>3, <2>3, <2>7
    <3> QED
      BY <1>2, <1>6, <2>1, <2>2, <2>7, <3>1
  <2> QED
    BY <2>4, <2>5, <2>6, <2>7
<1>9. quo \in 0..(Wide - 1) /\ rem \in 0..(Wide - 1)
  BY <1>1, <1>2, <1>6
<1>10. /\ quo % Wide = quo /\ (-quo) % Wide = Negate(quo)
       /\ rem % Wide = rem /\ (-rem) % Wide = Negate(rem)
  BY <1>9, ModWide
<1>11. (IF nx # ny THEN Negate(quo) ELSE quo) = IF nx <=> ny THEN quo ELSE Negate(quo)
  BY <1>2, Zenon
<1> QED
  BY <1>7, <1>8, <1>10, <1>11 DEF nx, ny

(* Of products, only the multiples of Wide depend on the signs.            *)
LEMMA SignedProduct ==
    ASSUME NEW u \in 0..(Wide - 1), NEW v \in 0..(Wide - 1),
           NEW m \in Int, NEW p \in 0..(Wide - 1), u * v = m * Wide + p
    PROVE  (ValueOf(u) * ValueOf(v)) % Wide = p
<1>1. Wide \in Nat \ {0} /\ u \in Int /\ v \in Int /\ p \in Nat /\ p < Wide
  BY WordType
<1>2. ASSUME NEW k \in Int, ValueOf(u) * ValueOf(v) = k * Wide + p
      PROVE  (ValueOf(u) * ValueOf(v)) % Wide = p
  <2>1. k * Wide + p \in Int
    BY <1>1
  <2>2. Divided(k * Wide + p, Wide, k, p)
    BY <1>1 DEF Divided
  <2> QED
    BY <1>1, <1>2, <2>1, <2>2, DivisionOnly
<1>3. u * v = v * u /\ u * Wide = Wide * u /\ Wide * v = v * Wide
  BY <1>1
<1>4. (u - Wide) * v = u * v - v * Wide /\ u * (v - Wide) = u * v - u * Wide
  BY <1>1, <1>3, Products
<1>5. (u - Wide) * (v - Wide) = (u * v - v * Wide) - u * Wide + Wide * Wide
  BY <1>1
<1>6. CASE ~Negative(u) /\ ~Negative(v)
  BY <1>1, <1>2, <1>6 DEF ValueOf
<1>7. CASE Negative(u) /\ ~Negative(v)
  <2>1. (m - v) * Wide = m * Wide - v * Wide /\ m * Wide \in Int /\ v * Wide \in Int /\ m - v \in Int
    BY <1>1
  <2>2. (u - Wide) * v = (m - v) * Wide + p
    BY <1>1, <1>4, <2>1
  <2>3. ValueOf(u) = u - Wide /\ ValueOf(v) = v
    BY <1>7 DEF ValueOf
  <2> QED
    BY <1>2, <2>1, <2>2, <2>3
<1>8. CASE ~Negative(u) /\ Negative(v)
  <2>1. (m - u) * Wide = m * Wide - u * Wide /\ m * Wide \in Int /\ u * Wide \in Int /\ m - u \in Int
    BY <1>1
  <2>2. u * (v - Wide) = (m - u) * Wide + p
    BY <1>1, <1>4, <2>1
  <2>3. ValueOf(u) = u /\ ValueOf(v) = v - Wide
    BY <1>8 DEF ValueOf
  <2> QED
    BY <1>2, <2>1, <2>2, <2>3
<1>9. CASE Negative(u) /\ Negative(v)
  <2>1. (m - v - u + Wide) * Wide = m * Wide - v * Wide - u * Wide + Wide * Wide
    BY <1>1
  <2>2. m * Wide \in Int /\ u * Wide \in Int /\ v * Wide \in Int /\ Wide * Wide \in Int /\ m - v - u + Wide \in Int
    BY <1>1
  <2>3. (u - Wide) * (v - Wide) = (m - v - u + Wide) * Wide + p
    BY <1>1, <1>5, <2>1, <2>2
  <2>4. ValueOf(u) = u - Wide /\ ValueOf(v) = v - Wide
    BY <1>9 DEF ValueOf
  <2> QED
    BY <1>2, <2>2, <2>3, <2>4
<1> QED
  BY <1>6, <1>7, <1>8, <1>9

-----------------------------------------------------------------------------
(* The divq instruction does not fault where the high word is below the    *)
(* divisor.                                                                *)
LEMMA WordDivision ==
    ASSUME NEW hi \in Nat, NEW lo \in 0..(Word - 1), NEW y \in Nat \ {0}, hi < y
    PROVE  /\ Divided(Join(hi, lo), y, Quotient(hi, lo, y), Remainder(hi, lo, y))
           /\ Divides(hi, lo, y) = "return"
<1>1. Word \in Nat /\ lo \in Nat /\ lo < Word
  BY WordType
<1>2. Join(hi, lo) \in Nat /\ Join(hi, lo) = hi * Word + lo /\ hi * Word \in Nat
  BY <1>1, Products DEF Join
<1>3. Join(hi, lo) < Word * y
  <2>1. (hi + 1) * Word <= y * Word /\ y * Word = Word * y
    BY <1>1, Products
  <2>2. (hi + 1) * Word = hi * Word + Word /\ Word * y \in Nat
    BY <1>1
  <2> QED
    BY <1>1, <1>2, <2>1, <2>2
<1>4. Divided(Join(hi, lo), y, Quotient(hi, lo, y), Remainder(hi, lo, y))
  BY <1>2, DivisionIs DEF Quotient, Remainder
<1>5. Quotient(hi, lo, y) < Word
  BY <1>1, <1>2, <1>3, <1>4, QuotientBelow
<1> QED
  BY <1>4, <1>5 DEF Divides

(* The two divisions of fast path 3 make one.                              *)
LEMMA TwoDivisions ==
    ASSUME NEW x \in 0..(Wide - 1), NEW y \in Nat \ {0}, y < Word
    PROVE  LET r_hi == Remainder(0, Hi(x), y)
           IN  /\ Divided(x, y, Join(Quotient(0, Hi(x), y), Quotient(r_hi, Lo(x), y)),
                          Remainder(r_hi, Lo(x), y))
               /\ Divides(r_hi, Lo(x), y) = "return"
<1> DEFINE h == Hi(x)
           l == Lo(x)
           q1 == Quotient(0, h, y)
           r1 == Remainder(0, h, y)
           q2 == Quotient(r1, l, y)
           r2 == Remainder(r1, l, y)
<1>1. /\ Word \in Nat /\ h \in 0..(Word - 1) /\ l \in 0..(Word - 1) /\ l \in Nat
      /\ h \in Nat /\ x = h * Word + l /\ h * Word \in Nat
  BY TwoWords, WordType
<1>2. Join(0, h) = h
  BY <1>1 DEF Join
<1>3. Divided(h, y, q1, r1)
  BY <1>1, <1>2, DivisionIs DEF Quotient, Remainder
<1>4. q1 \in Int /\ r1 \in Nat /\ r1 < y /\ h = q1 * y + r1
  BY <1>3 DEF Divided
<1> HIDE DEF h, l, q1, r1
<1>5. Divided(Join(r1, l), y, q2, r2) /\ Divides(r1, l, y) = "return"
  BY <1>1, <1>4, WordDivision
<1>6. q2 \in Int /\ r2 \in Nat /\ r2 < y /\ r1 * Word + l = q2 * y + r2
  BY <1>5 DEF Divided, Join
<1> HIDE DEF q2, r2
<1>7. Divided(x, y, Join(q1, q2), r2)
  <2>1. (q1 * Word + q2) * y = (q1 * Word) * y + q2 * y
    BY <1>1, <1>4, <1>6
  <2>2. (q1 * Word) * y = (q1 * y) * Word
    BY <1>1, <1>4
  <2>3. h * Word = (q1 * y) * Word + r1 * Word
    BY <1>1, <1>4
  <2>4. /\ (q1 * y) * Word \in Int /\ r1 * Word \in Int /\ q2 * y \in Int
        /\ q1 * Word + q2 \in Int
    BY <1>1, <1>4, <1>6
  <2>5. x = (q1 * Word + q2) * y + r2
    <3> DEFINE hw == h * Word
               qyw == (q1 * y) * Word
               rw == r1 * Word
               qy == q2 * y
               qq == (q1 * Word + q2) * y
    <3>1. hw = qyw + rw /\ qq = qyw + qy /\ x = hw + l /\ rw + l = qy + r2
      BY <1>1, <1>6, <2>1, <2>2, <2>3
    <3>2. qyw \in Int /\ rw \in Int /\ qy \in Int /\ l \in Int /\ r2 \in Int
      BY <1>1, <1>6, <2>4
    <3> HIDE DEF hw, qyw, rw, qy, qq
    <3>3. x = qq + r2
      BY <3>1, <3>2
    <3> QED
      BY <3>3 DEF qq
  <2> QED
    BY <1>6, <2>4, <2>5 DEF Divided, Join
<1> QED
  BY <1>5, <1>7 DEF h, l, q1, r1, q2, r2

(* Shifted by the leading zeros of its high word, a divisor still fits in  *)
(* a wide number, and its double does not.                                 *)
LEMMA Normalised ==
    ASSUME NEW y \in 0..(Wide - 1), Hi(y) # 0
    PROVE  /\ clz(Hi(y)) \in 0..(W - 1)
           /\ y * Pow2[clz(Hi(y))] \in Nat
           /\ y * Pow2[clz(Hi(y))] < Wide
           /\ 2 * (y * Pow2[clz(Hi(y))]) >= Wide
<1> DEFINE h == Hi(y)
           z == clz(Hi(y))
           p == Pow2[z]
           t == Pow2[W - z]
           u == Pow2[W - 1 - z]
<1>1. /\ Word \in Nat /\ Wide \in Nat /\ h \in 1..(Word - 1) /\ h \in Nat /\ y \in Nat
      /\ Lo(y) \in Nat /\ Lo(y) < Word /\ y = h * Word + Lo(y) /\ h * Word \in Nat
  BY TwoWords, WordType
<1>2. z \in 0..(W - 1) /\ u <= h /\ h < t
  BY <1>1, LeadingZeros
<1>3. z \in 0..W /\ W - z \in 1..W /\ W - z \in 0..W /\ W - 1 - z \in 0..W /\ (W - z) - 1 = W - 1 - z
  BY <1>2, WordAssumption
<1>4. p \in Nat /\ p > 0 /\ t \in Nat /\ u \in Nat
  BY <1>3, Pow2Type
<1>5. t = 2 * u
  BY <1>3, Pow2Is
<1>6. t * p = Word
  BY <1>3, Pow2Sum
<1> HIDE DEF h, z, p, t, u
<1>7. (t * Word) * p = Wide
  <2>1. (t * Word) * p = (t * p) * Word
    BY <1>1, <1>4
  <2> QED
    BY <1>6, <2>1 DEF Wide
<1>8. y * p \in Nat /\ t * Word \in Nat /\ (t * Word) * p \in Nat
  BY <1>1, <1>4
<1>9. y * p < Wide
  <2>1. y + 1 <= t * Word
    <3>1. (h + 1) * Word <= t * Word
      BY <1>1, <1>2, <1>4, Products
    <3>2. (h + 1) * Word = h * Word + Word
      BY <1>1
    <3> QED
      BY <1>1, <1>8, <3>1, <3>2
  <2>2. (y + 1) * p <= (t * Word) * p
    BY <1>1, <1>4, <1>8, <2>1, Products
  <2>3. (y + 1) * p = y * p + p
    BY <1>1, <1>4
  <2> QED
    BY <1>1, <1>4, <1>7, <1>8, <2>2, <2>3
<1>10. 2 * (y * p) >= Wide
  <2>1. u * Word <= h * Word /\ u * Word \in Nat
    BY <1>1, <1>2, <1>4, Products
  <2>2. t * Word = 2 * (u * Word)
    BY <1>1, <1>4, <1>5
  <2>3. t * Word <= 2 * y
    BY <1>1, <2>1, <2>2
  <2>4. (t * Word) * p <= (2 * y) * p
    BY <1>1, <1>4, <1>8, <2>3, Products
  <2>5. (2 * y) * p = 2 * (y * p)
    BY <1>1, <1>4
  <2> QED
    BY <1>1, <1>7, <1>8, <2>4, <2>5
<1>11. z \in 0..(W - 1) /\ y * p \in Nat /\ y * p < Wide /\ 2 * (y * p) >= Wide
  BY <1>2, <1>8, <1>9, <1>10
<1> QED
  BY <1>11 DEF p, z

(* One round of the loop: the doubled quotient does not overflow, and the  *)
(* remainder is below this round's divisor afterwards.                     *)
LEMMA Round ==
    ASSUME NEW x \in 0..(Wide - 1), NEW s \in Nat \ {0}, NEW quo \in Nat, NEW rem \in Nat,
           rem < 2 * s, x = quo * (2 * s) + rem
    PROVE  /\ (2 * quo) % Wide = 2 * quo
           /\ rem >= s => Divided(x, s, 2 * quo + 1, rem - s)
           /\ rem < s => Divided(x, s, 2 * quo, rem)
<1>1. Wide \in Nat \ {0} /\ x \in Nat /\ x < Wide
  BY WordType
<1> DEFINE p == (2 * quo) * s
<1>2. p \in Nat /\ quo * (2 * s) = p /\ (2 * quo + 1) * s = p + s
  OBVIOUS
<1>3. 2 * quo <= p
  <2>1. 1 * (2 * quo) <= s * (2 * quo) /\ s * (2 * quo) = (2 * quo) * s
    BY Products
  <2> QED
    BY <2>1
<1> HIDE DEF p
<1>4. 2 * quo \in 0..(Wide - 1)
  BY <1>1, <1>2, <1>3
<1>5. (2 * quo) % Wide = 2 * quo
  BY <1>4, ModWide
<1>6. ASSUME rem >= s PROVE Divided(x, s, 2 * quo + 1, rem - s)
  BY <1>2, <1>6 DEF Divided
<1>7. ASSUME rem < s PROVE Divided(x, s, 2 * quo, rem)
  BY <1>2, <1>7 DEF Divided, p
<1> QED
  BY <1>5, <1>6, <1>7

-----------------------------------------------------------------------------
(* The invariant of the runtime.  In the loop, the dividend is what the    *)
(* quotient so far has taken off it at twice this round's divisor, and the *)
(* remainder; the divisor is shifted by the rounds left after this one.    *)
LoopInvariant ==
    /\ left \in 1..W /\ q \in Nat /\ r \in Nat
    /\ d_shifted = d * Pow2[left - 1]
    /\ r < 2 * d_shifted /\ n = q * (2 * d_shifted) + r

ArithInvariant ==
    /\ a \in 0..(Wide - 1) /\ b \in 0..(Wide - 1)
    /\ stage \in {"divide", "loop", "return"} => fn \in Divisions /\ b # 0
    /\ stage = "multiply" => fn = "__multi3"
    /\ stage = "loop" => LoopInvariant
    /\ stage = "return" => Divided(n, d, q, r)
    /\ ArithmeticRight

LEMMA OperandTypes ==
    ASSUME a \in 0..(Wide - 1), b \in 0..(Wide - 1)
    PROVE  n \in 0..(Wide - 1) /\ d \in 0..(Wide - 1) /\ (b # 0 => d # 0)
BY SignedValues DEF n, d

(* A step inside UDivMod128 keeps the arguments.                           *)
LEMMA OperandsKept ==
    ASSUME UNCHANGED <<fn, a, b>>
    PROVE  n' = n /\ d' = d
BY DEF n, d

(* A path of UDivMod128 that leaves it is done when it has divided.        *)
LEMMA PathReturns ==
    ASSUME ArithInvariant, stage \in {"divide", "loop"}, UNCHANGED <<fn, a, b>>,
           stage' = "return", Divided(n, d, q', r')
    PROVE  ArithInvariant'
BY OperandsKept DEF ArithInvariant, ArithmeticRight

LEMMA DividingTypes ==
    ASSUME ArithInvariant, stage \in {"divide", "loop", "return"}
    PROVE  /\ fn \in Divisions /\ b # 0 /\ a \in 0..(Wide - 1) /\ b \in 0..(Wide - 1)
           /\ n \in 0..(Wide - 1) /\ d \in 0..(Wide - 1) /\ n \in Nat /\ d \in Nat \ {0}
<1>1. fn \in Divisions /\ b # 0 /\ a \in 0..(Wide - 1) /\ b \in 0..(Wide - 1)
  BY DEF ArithInvariant
<1>2. n \in 0..(Wide - 1) /\ d \in 0..(Wide - 1) /\ d # 0
  BY <1>1, OperandTypes
<1> QED
  BY <1>1, <1>2, WordType

(* A number whose high word is zero is its low word.                       *)
LEMMA OneWord ==
    ASSUME NEW v \in 0..(Wide - 1), Hi(v) = 0
    PROVE  Lo(v) = v /\ v < Word
<1>1. Lo(v) \in Nat /\ Lo(v) < Word /\ v = 0 * Word + Lo(v) /\ Word \in Nat
  BY TwoWords, WordType
<1> QED
  BY <1>1

LEMMA CallOK ==
    ASSUME ArithInvariant, Call
    PROVE  ArithInvariant'
<1>1. PICK f \in Functions, x \in 0..(Wide - 1), y \in 0..(Wide - 1) :
          /\ fn' = f /\ a' = x /\ b' = y
          /\ stage' = CASE f = "__multi3" -> "multiply"
                        [] f # "__multi3" /\ y = 0 -> "bug"
                        [] OTHER -> "divide"
  BY DEF Call
<1>2. CASE f = "__multi3"
  BY <1>1, <1>2 DEF ArithInvariant, ArithmeticRight
<1>3. CASE f # "__multi3" /\ y = 0
  BY <1>1, <1>3 DEF ArithInvariant, ArithmeticRight
<1>4. CASE f # "__multi3" /\ y # 0
  <2>1. stage' = "divide" /\ f \in Divisions
    BY <1>1, <1>4 DEF Functions
  <2> QED
    BY <1>1, <1>4, <2>1 DEF ArithInvariant, ArithmeticRight
<1> QED
  BY <1>2, <1>3, <1>4

LEMMA DivideWordsOK ==
    ASSUME ArithInvariant, DivideWords
    PROVE  ArithInvariant'
<1>1. stage = "divide" /\ Hi(n) = 0 /\ Hi(d) = 0 /\ stage' = "return" /\ UNCHANGED <<fn, a, b>>
  BY DEF DivideWords
<1>2. n \in 0..(Wide - 1) /\ d \in 0..(Wide - 1) /\ n \in Nat /\ d \in Nat \ {0}
  BY <1>1, DividingTypes
<1>3. Lo(n) = n /\ Lo(d) = d
  BY <1>1, <1>2, OneWord
<1>4. q' = n \div d /\ r' = n % d
  BY <1>3 DEF DivideWords
<1>5. Divided(n, d, q', r')
  <2>1. n \in Int
    BY <1>2
  <2>2. Divided(n, d, n \div d, n % d)
    BY <1>2, <2>1, DivisionIs, Zenon
  <2> QED
    BY <1>4, <2>2
<1> QED
  BY <1>1, <1>5, PathReturns

LEMMA DivideByWordOK ==
    ASSUME ArithInvariant, DivideByWord
    PROVE  ArithInvariant'
<1>1. stage = "divide" /\ Hi(d) = 0 /\ Hi(n) < Lo(d) /\ UNCHANGED <<fn, a, b>>
  BY DEF DivideByWord
<1>2. n \in 0..(Wide - 1) /\ d \in 0..(Wide - 1) /\ n \in Nat /\ d \in Nat \ {0}
  BY <1>1, DividingTypes
<1>3. Lo(d) = d
  BY <1>1, <1>2, OneWord
<1>4. Hi(n) \in Nat /\ Lo(n) \in 0..(Word - 1) /\ Join(Hi(n), Lo(n)) = n
  BY <1>2, TwoWords, WordType DEF Join
<1>5. Divided(n, d, Quotient(Hi(n), Lo(n), d), Remainder(Hi(n), Lo(n), d))
  BY <1>1, <1>2, <1>3, <1>4, WordDivision
<1>6. Divides(Hi(n), Lo(n), d) = "return"
  BY <1>1, <1>2, <1>3, <1>4, WordDivision
<1>7. stage' = "return" /\ Divided(n, d, q', r')
  BY <1>3, <1>5, <1>6 DEF DivideByWord
<1> QED
  BY <1>1, <1>7, PathReturns

LEMMA DivideTwiceOK ==
    ASSUME ArithInvariant, DivideTwice
    PROVE  ArithInvariant'
<1>1. stage = "divide" /\ Hi(d) = 0 /\ UNCHANGED <<fn, a, b>>
  BY DEF DivideTwice
<1>2. n \in 0..(Wide - 1) /\ d \in 0..(Wide - 1) /\ d \in Nat \ {0}
  BY <1>1, DividingTypes
<1>3. Lo(d) = d /\ d < Word
  BY <1>1, <1>2, OneWord
<1> DEFINE r_hi == Remainder(0, Hi(n), d)
<1>4. /\ Divided(n, d, Join(Quotient(0, Hi(n), d), Quotient(r_hi, Lo(n), d)),
                 Remainder(r_hi, Lo(n), d))
      /\ Divides(r_hi, Lo(n), d) = "return"
  BY <1>2, <1>3, TwoDivisions
<1>5. /\ q' = Join(Quotient(0, Hi(n), d), Quotient(r_hi, Lo(n), d))
      /\ r' = Remainder(r_hi, Lo(n), d)
      /\ stage' = Divides(r_hi, Lo(n), d)
  BY <1>3 DEF DivideTwice
<1>6. stage' = "return" /\ Divided(n, d, q', r')
  BY <1>4, <1>5
<1> QED
  BY <1>1, <1>6, PathReturns

LEMMA DivideSmallerOK ==
    ASSUME ArithInvariant, DivideSmaller
    PROVE  ArithInvariant'
<1>1. /\ stage = "divide" /\ n < d /\ q' = 0 /\ r' = n /\ stage' = "return"
      /\ UNCHANGED <<fn, a, b>>
  BY DEF DivideSmaller
<1>2. n \in Nat /\ d \in Nat \ {0}
  BY <1>1, DividingTypes
<1>3. Divided(n, d, q', r')
  <2>1. ASSUME NEW x \in Nat, NEW y \in Nat \ {0}, x < y PROVE Divided(x, y, 0, x)
    BY <2>1 DEF Divided
  <2> QED
    BY <1>1, <1>2, <2>1
<1> QED
  BY <1>1, <1>3, PathReturns

LEMMA NormaliseOK ==
    ASSUME ArithInvariant, Normalise
    PROVE  ArithInvariant'
<1> DEFINE z == clz(Hi(d))
           s == d * Pow2[z]
<1>1. /\ stage = "divide" /\ Hi(d) # 0 /\ q' = 0 /\ r' = n /\ stage' = "loop"
      /\ d_shifted' = s % Wide /\ left' = z + 1 /\ UNCHANGED <<fn, a, b>>
  BY DEF Normalise
<1>2. n \in 0..(Wide - 1) /\ d \in 0..(Wide - 1) /\ n \in Nat
  BY <1>1, DividingTypes
<1>3. z \in 0..(W - 1) /\ s \in Nat /\ s < Wide /\ 2 * s >= Wide
  BY <1>1, <1>2, Normalised
<1>4. n' = n /\ d' = d
  BY <1>1, OperandsKept
<1>5. z + 1 \in 1..W /\ (z + 1) - 1 = z
  BY <1>3, WordAssumption
<1>6. left' \in 1..W /\ d' * Pow2[left' - 1] = s
  BY <1>1, <1>4, <1>5
<1> HIDE DEF z, s
<1>7. d_shifted' = s
  <2>1. s \in 0..(Wide - 1)
    BY <1>3, WordType
  <2> QED
    BY <1>1, <2>1, ModWide
<1>8. LoopInvariant'
  <2>1. n < 2 * s /\ n = 0 * (2 * s) + n
    BY <1>2, <1>3, WordType
  <2> QED
    BY <1>1, <1>2, <1>4, <1>6, <1>7, <2>1 DEF LoopInvariant
<1> QED
  BY <1>1, <1>8, DividingTypes DEF ArithInvariant, ArithmeticRight

LEMMA SubtractOK ==
    ASSUME ArithInvariant, Subtract
    PROVE  ArithInvariant'
<1>1. /\ stage = "loop" /\ d_shifted' = d_shifted \div 2 /\ left' = left - 1
      /\ stage' = (IF left = 1 THEN "return" ELSE "loop") /\ UNCHANGED <<fn, a, b>>
  BY DEF Subtract
<1>2. n \in 0..(Wide - 1) /\ n \in Nat /\ d \in Nat \ {0}
  BY <1>1, DividingTypes
<1>3. /\ left \in 1..W /\ q \in Nat /\ r \in Nat /\ d_shifted = d * Pow2[left - 1]
      /\ r < 2 * d_shifted /\ n = q * (2 * d_shifted) + r
  BY <1>1 DEF ArithInvariant, LoopInvariant
<1>4. left - 1 \in 0..W /\ Pow2[left - 1] \in Nat \ {0}
  <2>1. left - 1 \in 0..W
    BY <1>3, WordAssumption
  <2>2. Pow2[left - 1] \in Nat /\ Pow2[left - 1] > 0
    BY <2>1, Pow2Type
  <2> QED
    BY <2>1, <2>2
<1>5. d_shifted \in Nat \ {0}
  <2>1. ASSUME NEW x \in Nat \ {0}, NEW y \in Nat \ {0} PROVE x * y \in Nat \ {0}
    OBVIOUS
  <2> QED
    BY <1>2, <1>3, <1>4, <2>1
<1>6. Divided(n, d_shifted, q', r')
  <2>1. /\ (2 * q) % Wide = 2 * q
        /\ r >= d_shifted => Divided(n, d_shifted, 2 * q + 1, r - d_shifted)
        /\ r < d_shifted => Divided(n, d_shifted, 2 * q, r)
    BY <1>2, <1>3, <1>5, Round
  <2>2. CASE r >= d_shifted
    BY <2>1, <2>2 DEF Subtract
  <2>3. CASE r < d_shifted
    <3>1. ~(r >= d_shifted)
      BY <1>3, <1>5, <2>3
    <3> QED
      BY <2>1, <2>3, <3>1 DEF Subtract
  <2> QED
    BY <1>3, <1>5, <2>2, <2>3
<1>7. CASE left = 1
  <2>1. Pow2[left - 1] = 1
    BY <1>7, Pow2Is
  <2>2. d_shifted = d
    BY <1>2, <1>3, <2>1
  <2>3. stage' = "return" /\ Divided(n, d, q', r')
    BY <1>1, <1>6, <1>7, <2>2
  <2> QED
    BY <1>1, <2>3, PathReturns
<1>8. CASE left # 1
  <2> DEFINE s == d * Pow2[left - 2]
  <2>1. left - 1 \in 1..W /\ (left - 1) - 1 = left - 2 /\ left - 2 \in 0..W
    BY <1>3, <1>8, WordAssumption
  <2>2. Pow2[left - 1] = 2 * Pow2[left - 2] /\ Pow2[left - 2] \in Nat
    BY <2>1, Pow2Is, Pow2Type
  <2>3. s \in Nat /\ d_shifted = 2 * s
    BY <1>2, <1>3, <2>2
  <2>4. n' = n /\ d' = d
    BY <1>1, OperandsKept
  <2>5. left' \in 1..W /\ d' * Pow2[left' - 1] = s
    BY <1>1, <2>1, <2>4
  <2> HIDE DEF s
  <2>6. d_shifted' = s
    BY <1>1, <2>3
  <2>7. q' \in Int /\ r' \in Nat /\ r' < 2 * s /\ n = q' * (2 * s) + r'
    BY <1>6, <2>3 DEF Divided
  <2>8. q' \in Nat
    <3>1. q' >= 0
      BY <1>2, <1>5, <1>6, QuotientBelow
    <3> QED
      BY <2>7, <3>1
  <2>9. LoopInvariant'
    BY <2>4, <2>5, <2>6, <2>7, <2>8 DEF LoopInvariant
  <2>10. stage' = "loop"
    BY <1>1, <1>8
  <2> QED
    BY <1>1, <2>9, <2>10, DividingTypes DEF ArithInvariant, ArithmeticRight
<1> QED
  BY <1>7, <1>8

LEMMA ReturnOK ==
    ASSUME ArithInvariant, Return
    PROVE  ArithInvariant'
<1>1. stage = "return" /\ stage' = "returned" /\ UNCHANGED <<fn, a, b>>
  BY DEF Return
<1>2. /\ fn \in Divisions /\ a \in 0..(Wide - 1) /\ b \in 0..(Wide - 1) /\ b # 0
      /\ n \in Nat /\ d \in Nat \ {0}
  BY <1>1, DividingTypes
<1>3. Divided(n, d, q, r)
  BY <1>1 DEF ArithInvariant
<1>4. q = n \div d /\ r = n % d
  BY <1>2, <1>3, DivisionOnly
<1>5. CASE fn \in Unsigned
  <2>1. n = a /\ d = b
    BY <1>5 DEF n, d
  <2>2. q = a \div b /\ r = a % b
    BY <1>4, <2>1
  <2>3. CASE fn = "__udivti3"
    <3>1. result' = a \div b
      BY <2>2, <2>3 DEF Return
    <3> QED
      BY <1>1, <1>2, <2>3, <3>1 DEF ArithInvariant, ArithmeticRight
  <2>4. CASE fn = "__umodti3"
    <3>1. result' = a % b
      BY <2>2, <2>4 DEF Return
    <3> QED
      BY <1>1, <1>2, <2>4, <3>1 DEF ArithInvariant, ArithmeticRight
  <2>5. CASE fn = "__udivmodti4"
    <3>1. result' = <<a \div b, a % b>>
      BY <2>2, <2>5 DEF Return
    <3> QED
      BY <1>1, <1>2, <2>5, <3>1 DEF ArithInvariant, ArithmeticRight
  <2> QED
    BY <1>5, <2>3, <2>4, <2>5 DEF Unsigned
<1>6. CASE fn \notin Unsigned
  <2>1. n = Magnitude(a) /\ d = Magnitude(b)
    BY <1>6 DEF n, d
  <2>2. b \in 1..(Wide - 1)
    BY <1>2, WordType
  <2>3. /\ CQuotient(ValueOf(a), ValueOf(b)) % Wide =
               (IF Negative(a) # Negative(b) THEN Negate(q) ELSE q)
        /\ CRemainder(ValueOf(a), ValueOf(b)) % Wide = (IF Negative(a) THEN Negate(r) ELSE r)
    BY <1>2, <1>3, <2>1, <2>2, SignedDivision
  <2>4. CASE fn = "__divti3"
    <3>1. result' = CQuotient(ValueOf(a), ValueOf(b)) % Wide
      BY <2>3, <2>4 DEF Return
    <3> QED
      BY <1>1, <1>2, <2>4, <3>1 DEF ArithInvariant, ArithmeticRight
  <2>5. CASE fn = "__modti3"
    <3>1. result' = CRemainder(ValueOf(a), ValueOf(b)) % Wide
      BY <2>3, <2>5 DEF Return
    <3> QED
      BY <1>1, <1>2, <2>5, <3>1 DEF ArithInvariant, ArithmeticRight
  <2> QED
    BY <1>2, <1>6, <2>4, <2>5 DEF Divisions, Unsigned
<1> QED
  BY <1>5, <1>6

(* The product of two wide numbers, from the products of their words.      *)
LEMMA WideProduct ==
    ASSUME NEW u \in 0..(Wide - 1), NEW v \in 0..(Wide - 1)
    PROVE  LET low == Lo(u) * Lo(v)
               high == (Hi(low) + Lo(u) * Hi(v) + Hi(u) * Lo(v)) % Word
           IN  (ValueOf(u) * ValueOf(v)) % Wide = Join(high, Lo(low))
<1> DEFINE ul == Lo(u)
           uh == Hi(u)
           vl == Lo(v)
           vh == Hi(v)
           low == ul * vl
           ll == Lo(low)
           lh == Hi(low)
           sum == lh + ul * vh + uh * vl
           high == sum % Word
           over == sum \div Word
<1>1. /\ Word \in Nat \ {0} /\ Wide = Word * Word
      /\ ul \in Nat /\ uh \in Nat /\ vl \in Nat /\ vh \in Nat
      /\ u = uh * Word + ul /\ v = vh * Word + vl
  BY TwoWords, WordType DEF Wide
<1> HIDE DEF ul, uh, vl, vh
<1>2. low \in Nat
  BY <1>1
<1>3. lh \in Nat /\ ll \in Nat /\ ll < Word /\ lh * Word + ll = low
  BY <1>1, <1>2, QuotientNat DEF Hi, Lo
<1> HIDE DEF ll, lh
<1>4. sum \in Nat
  BY <1>1, <1>3
<1>5. over \in Nat /\ high \in Nat /\ high < Word /\ over * Word + high = sum
  BY <1>1, <1>4, QuotientNat
<1> HIDE DEF over, high
<1>6. u * v = (uh * vh + over) * Wide + (high * Word + ll)
  <2> DEFINE x1 == uh * vh
             x2 == ul * vh
             x3 == uh * vl
  <2>1. u * v = x1 * (Word * Word) + x3 * Word + x2 * Word + low
    BY <1>1
  <2>2. (over * Word + high) * Word = (lh + x2 + x3) * Word
    BY <1>5
  <2>3. x1 \in Nat /\ x2 \in Nat /\ x3 \in Nat
    BY <1>1
  <2> HIDE DEF x1, x2, x3, low
  <2>4. (over * Word + high) * Word = over * (Word * Word) + high * Word
    BY <1>1, <1>5
  <2>5. (lh + x2 + x3) * Word = lh * Word + x2 * Word + x3 * Word
    BY <1>1, <1>3, <2>3
  <2>6. (x1 + over) * (Word * Word) = x1 * (Word * Word) + over * (Word * Word)
    BY <1>1, <1>5, <2>3
  <2> DEFINE y1 == x1 * (Word * Word)
             y2 == x2 * Word
             y3 == x3 * Word
             y4 == over * (Word * Word)
             y5 == high * Word
             y6 == lh * Word
             y7 == (x1 + over) * (Word * Word)
             y8 == u * v
  <2>7. /\ y1 \in Int /\ y2 \in Int /\ y3 \in Int /\ y4 \in Int /\ y5 \in Int /\ y6 \in Int
        /\ ll \in Int /\ low \in Int
    BY <1>1, <1>2, <1>3, <1>5, <2>3
  <2>8. y8 = y1 + y3 + y2 + low /\ y4 + y5 = y6 + y2 + y3 /\ y6 + ll = low /\ y7 = y1 + y4
    BY <1>3, <2>1, <2>2, <2>4, <2>5, <2>6
  <2> HIDE DEF y1, y2, y3, y4, y5, y6, y7, y8
  <2>9. y8 = y7 + (y5 + ll)
    BY <2>7, <2>8
  <2> QED
    BY <1>1, <2>9 DEF y5, y7, y8, x1
<1>7. Join(high, ll) \in 0..(Wide - 1) /\ Join(high, ll) = high * Word + ll
  <2>1. (high + 1) * Word <= Word * Word /\ high * Word \in Nat /\ Word * Word \in Nat
    BY <1>1, <1>5, Products
  <2>2. (high + 1) * Word = high * Word + Word
    BY <1>1, <1>5
  <2>3. high * Word + ll \in 0..(Word * Word - 1)
    BY <1>1, <1>3, <2>1, <2>2
  <2> QED
    BY <1>1, <2>3 DEF Join
<1>8. uh * vh + over \in Int
  BY <1>1, <1>5
<1>9. (ValueOf(u) * ValueOf(v)) % Wide = Join(high, ll)
  BY <1>6, <1>7, <1>8, SignedProduct
<1> QED
  BY <1>9 DEF high, ll, lh, ul, uh, vl, vh

LEMMA MultiplyOK ==
    ASSUME ArithInvariant, Multiply
    PROVE  ArithInvariant'
<1>1. stage = "multiply" /\ stage' = "returned" /\ UNCHANGED <<fn, a, b>>
  BY DEF Multiply
<1>2. fn = "__multi3" /\ a \in 0..(Wide - 1) /\ b \in 0..(Wide - 1)
  BY <1>1 DEF ArithInvariant
<1>3. result' = (ValueOf(a) * ValueOf(b)) % Wide
  BY <1>2, WideProduct DEF Multiply
<1> QED
  BY <1>1, <1>2, <1>3 DEF ArithInvariant, ArithmeticRight

LEMMA CallerGoesOnOK ==
    ASSUME CallerGoesOn
    PROVE  ArithInvariant'
<1>1. 0 \in 0..(Wide - 1)
  BY WordType
<1> QED
  BY <1>1 DEF CallerGoesOn, ArithInvariant, ArithmeticRight

(* Whatever the width of a word, every function of the runtime returns     *)
(* what C's operator means modulo Wide, and no divq of UDivMod128 faults.  *)
THEOREM ArithmeticIsRight == ArithSpec => []ArithmeticRight
<1>1. ArithInit => ArithInvariant
  <2>1. 0 \in 0..(Wide - 1)
    BY WordType
  <2> QED
    BY <2>1 DEF ArithInit, ArithInvariant, ArithmeticRight
<1>2. ASSUME ArithInvariant, [ArithNext]_arithVars
      PROVE  ArithInvariant'
  <2>1. CASE ArithNext
    BY <1>2, <2>1, CallOK, DivideWordsOK, DivideByWordOK, DivideTwiceOK, DivideSmallerOK,
       NormaliseOK, SubtractOK, ReturnOK, MultiplyOK, CallerGoesOnOK DEF ArithNext
  <2>2. CASE UNCHANGED arithVars
    <3>1. UNCHANGED <<fn, a, b, stage, q, r, d_shifted, left, result>>
      BY <2>2 DEF arithVars
    <3>2. n' = n /\ d' = d
      BY <3>1, OperandsKept
    <3> QED
      BY <1>2, <3>1, <3>2 DEF ArithInvariant, LoopInvariant, ArithmeticRight, Divided
  <2> QED
    BY <1>2, <2>1, <2>2
<1>3. ArithInvariant => ArithmeticRight
  BY DEF ArithInvariant
<1> QED
  BY <1>1, <1>2, <1>3, PTL DEF ArithSpec

-----------------------------------------------------------------------------
(* The loader of the boot archive.  The digits that cpio writes are parsed *)
(* to the number they stand for.                                           *)
LEMMA CutIs ==
    ASSUME NEW v \in Nat
    PROVE  /\ Cut(v)[0] = v
           /\ \A k \in 1..8 : Cut(v)[k] = Cut(v)[k - 1] \div 16
           /\ \A k \in 0..8 : Cut(v)[k] \in Nat
<1> DEFINE step == [x \in Nat \X Nat |-> x[1] \div 16]
           len == 8
           Rec(g) == g = [k \in 0..len |-> IF k = 0 THEN v ELSE g[k - 1] \div 16]
           A == CHOOSE g : Rec(g)
<1>1. len \in Nat
  OBVIOUS
<1>2. Cut(v) = A
  BY DEF Cut
<1> HIDE DEF len
<1>3. step \in [Nat \X Nat -> Nat]
  OBVIOUS
<1>4. \A t, k \in Nat : step[<<t, k>>] = t \div 16
  OBVIOUS
<1> HIDE DEF step
<1>5. PICK g : Iterated(g, Nat, v, step, len)
  BY <1>1, <1>3, Iterates, Zenon
<1>6. \A k \in 1..len : g[k] = g[k - 1] \div 16
  <2> SUFFICES ASSUME NEW k \in 1..len PROVE g[k] = g[k - 1] \div 16
    OBVIOUS
  <2>1. k - 1 \in 0..len /\ k \in Nat
    BY <1>1
  <2> QED
    BY <1>4, <1>5, <2>1 DEF Iterated
<1>7. Rec(g)
  <2>1. \A k \in 0..len : k = 0 \/ k \in 1..len
    BY <1>1
  <2> QED
    BY <1>5, <1>6, <2>1 DEF Iterated
<1>8. Rec(A)
  BY <1>7
<1> HIDE DEF A
<1>9. A[0] = v /\ \A k \in 1..len : A[k] = A[k - 1] \div 16
  BY <1>1, <1>8
<1> HIDE DEF Rec
<1> DEFINE B == {k \in 0..len : A[k] \notin Nat}
<1>10. B = {}
  <2> SUFFICES ASSUME B # {} PROVE FALSE
    OBVIOUS
  <2>1. B \subseteq Nat
    BY <1>1
  <2>2. PICK k \in B : \A j \in B : k <= j
    BY <2>1, LeastElement
  <2>3. k \in 1..len /\ k - 1 \in 0..len /\ A[k] \notin Nat
    BY <1>1, <1>9
  <2>4. k - 1 \notin B
    <3> HIDE DEF B
    <3> QED
      BY <1>1, <2>2, <2>3
  <2>5. A[k - 1] \in Nat /\ A[k] = A[k - 1] \div 16
    BY <1>9, <2>3, <2>4
  <2> QED
    BY <2>3, <2>5
<1>11. \A k \in 0..len : A[k] \in Nat
  BY <1>10
<1> QED
  BY <1>2, <1>9, <1>11 DEF len

LEMMA ParsesBack ==
    ASSUME NEW v, Fits(v)
    PROVE  ParseHex(Hex(v)) = v
<1> DEFINE rest == Cut(v)
<1>1. /\ rest[0] = v /\ rest[8] = 0
      /\ \A k \in 1..8 : rest[k] = rest[k - 1] \div 16
      /\ \A k \in 0..8 : rest[k] \in Nat
      /\ Hex(v) = [i \in 1..8 |-> rest[8 - i] % 16]
  BY CutIs DEF Fits, Hex
<1> HIDE DEF rest
<1> DEFINE str == Hex(v)
           Rec(g) == g = [k \in 0..Len(str) |-> IF k = 0 THEN 0 ELSE g[k - 1] * 16 + str[k]]
           A == CHOOSE g : Rec(g)
           B == [k \in 0..8 |-> rest[8 - k]]
<1>2. Len(str) = 8 /\ \A k \in 1..8 : str[k] = rest[8 - k] % 16
  BY <1>1
<1> HIDE DEF str
<1>3. ASSUME NEW k \in 1..8 PROVE B[k] = B[k - 1] * 16 + str[k]
  <2> DEFINE x == rest[8 - k]
             y == rest[9 - k]
  <2>1. /\ 8 - k \in 0..8 /\ 9 - k \in 1..8 /\ 9 - k \in 0..8 /\ (9 - k) - 1 = 8 - k
        /\ 8 - (k - 1) = 9 - k /\ k - 1 \in 0..8 /\ k \in 0..8
    OBVIOUS
  <2>2. x \in Nat /\ y \in Nat /\ y = x \div 16
    BY <1>1, <2>1
  <2>3. B[k] = x /\ B[k - 1] = y /\ str[k] = x % 16
    BY <1>2, <2>1
  <2> HIDE DEF x, y, B
  <2> QED
    BY <2>2, <2>3
<1>4. B[0] = 0 /\ B[8] = v
  BY <1>1
<1>5. Rec(B)
  <2>1. B = [k \in 0..8 |-> B[k]]
    OBVIOUS
  <2> HIDE DEF B
  <2>2. \A k \in 0..8 : B[k] = IF k = 0 THEN 0 ELSE B[k - 1] * 16 + str[k]
    <3>1. \A k \in 0..8 : k = 0 \/ k \in 1..8
      OBVIOUS
    <3> QED
      BY <1>3, <1>4, <3>1
  <2> QED
    BY <1>2, <2>1, <2>2
<1>6. Rec(A)
  BY <1>5
<1>7. ParseHex(str) = A[8]
  BY <1>2 DEF ParseHex
<1> HIDE DEF A, B
<1>8. A[0] = 0 /\ \A k \in 1..8 : A[k] = A[k - 1] * 16 + str[k]
  BY <1>2, <1>6
<1> HIDE DEF Rec
<1>9. A[0] = B[0] /\ \A k \in 1..8 : A[k - 1] = B[k - 1] => A[k] = B[k]
  BY <1>3, <1>4, <1>8
<1>10. A[8] = B[8]
  BY <1>9
<1> QED
  BY <1>4, <1>7, <1>10 DEF str

(* Padding.                                                                *)
LEMMA PaddedIs ==
    ASSUME NEW x \in Nat
    PROVE  /\ Padded(x) \in Nat /\ Padded(x) >= x /\ Padded(x) % 4 = 0
           /\ \A p \in Nat : p % 4 = 0 => Padded(p + x) = p + Padded(x)
BY DEF Padded

LEMMA Fourfold ==
    ASSUME NEW x \in Nat, NEW y \in Nat, x % 4 = 0, y % 4 = 0
    PROVE  x + y \in Nat /\ (x + y) % 4 = 0
OBVIOUS

LEMMA SizeIs ==
    ASSUME NEW s, Written(s), NEW i \in 1..Len(s)
    PROVE  /\ SizeOf(s[i]) \in Nat /\ SizeOf(s[i]) > 0 /\ SizeOf(s[i]) % 4 = 0
           /\ \A p \in Nat : p % 4 = 0 =>
                Padded(Padded(p + HeaderSize + ParseHex(Header(s[i]).namesize))
                       + ParseHex(Header(s[i]).filesize)) = p + SizeOf(s[i])
<1> DEFINE x == s[i].namelen
           y == Len(s[i].data)
           u == Padded(110 + x + 1)
           w == Padded(y)
<1>1. x \in Nat /\ Fits(x + 1) /\ Fits(y) /\ y \in Nat /\ 110 + x + 1 \in Nat
  <2>1. x \in Nat /\ Fits(x + 1) /\ Fits(y)
    BY DEF Written
  <2> HIDE DEF x, y
  <2> QED
    BY <2>1 DEF Fits
<1>2. ParseHex(Header(s[i]).namesize) = x + 1 /\ ParseHex(Header(s[i]).filesize) = y
  BY <1>1, ParsesBack DEF Header
<1>3. SizeOf(s[i]) = u + w
  BY DEF SizeOf, HeaderSize
<1>4. /\ u \in Nat /\ u >= 110 + x + 1 /\ u % 4 = 0 /\ w \in Nat /\ w >= y /\ w % 4 = 0
  BY <1>1, PaddedIs
<1>5. ASSUME NEW p \in Nat, p % 4 = 0
      PROVE  Padded(Padded(p + 110 + (x + 1)) + y) = p + (u + w)
  <2>1. p + 110 + (x + 1) = p + (110 + x + 1)
    <3> HIDE DEF x
    <3> QED
      BY <1>1
  <2>2. Padded(p + (110 + x + 1)) = p + u
    BY <1>1, <1>5, PaddedIs
  <2>3. p + u \in Nat /\ (p + u) % 4 = 0
    BY <1>4, <1>5
  <2>4. Padded((p + u) + y) = (p + u) + w
    BY <1>1, <2>3, PaddedIs
  <2> HIDE DEF x, y, u, w
  <2>5. (p + u) + w = p + (u + w)
    BY <1>4
  <2> QED
    BY <2>1, <2>2, <2>4, <2>5
<1> HIDE DEF x, y, u, w
<1>6. u + w \in Nat /\ u + w > 0 /\ (u + w) % 4 = 0
  BY <1>1, <1>4
<1> QED
  BY <1>2, <1>3, <1>5, <1>6 DEF HeaderSize

(* Where the entries of an archive end.                                    *)
Sums(s) == CHOOSE g : g = [k \in 0..Len(s) |->
                              IF k = 0 THEN 0 ELSE g[k - 1] + SizeOf(s[k])]

LEMMA SumsAre ==
    ASSUME NEW s, Written(s)
    PROVE  /\ Sums(s)[0] = 0
           /\ \A k \in 1..Len(s) : Sums(s)[k] = Sums(s)[k - 1] + SizeOf(s[k])
           /\ \A k \in 0..Len(s) : Sums(s)[k] \in Nat /\ Sums(s)[k] % 4 = 0
<1> DEFINE len == Len(s)
           step == [x \in Nat \X Nat |-> IF x[2] \in 1..len THEN x[1] + SizeOf(s[x[2]]) ELSE 0]
           Rec(g) == g = [k \in 0..len |-> IF k = 0 THEN 0 ELSE g[k - 1] + SizeOf(s[k])]
           A == CHOOSE g : Rec(g)
<1>1. len \in Nat /\ \A k \in 1..len : SizeOf(s[k]) \in Nat /\ SizeOf(s[k]) % 4 = 0
  BY SizeIs DEF Written
<1> HIDE DEF len
<1>2. step \in [Nat \X Nat -> Nat]
  BY <1>1
<1>3. \A t \in Nat, k \in 1..len : step[<<t, k>>] = t + SizeOf(s[k])
  BY <1>1
<1> HIDE DEF step
<1>4. PICK g : Iterated(g, Nat, 0, step, len)
  <2>1. 0 \in Nat /\ len \in Nat
    BY <1>1
  <2> QED
    BY <1>2, <2>1, Iterates, Zenon
<1>5. \A k \in 1..len : g[k] = g[k - 1] + SizeOf(s[k])
  <2> SUFFICES ASSUME NEW k \in 1..len PROVE g[k] = g[k - 1] + SizeOf(s[k])
    OBVIOUS
  <2>1. k - 1 \in 0..len
    BY <1>1
  <2> QED
    BY <1>3, <1>4, <2>1 DEF Iterated
<1>6. Rec(g)
  <2>1. \A k \in 0..len : k = 0 \/ k \in 1..len
    BY <1>1
  <2> QED
    BY <1>4, <1>5, <2>1 DEF Iterated
<1>7. Rec(A)
  BY <1>6
<1>8. Sums(s) = A
  BY DEF Sums, len
<1> HIDE DEF A
<1>9. A[0] = 0 /\ \A k \in 1..len : A[k] = A[k - 1] + SizeOf(s[k])
  BY <1>1, <1>7
<1> HIDE DEF Rec
<1> DEFINE Good(k) == A[k] \in Nat /\ A[k] % 4 = 0
           B == {k \in 0..len : ~Good(k)}
<1>10. Good(0)
  BY <1>9
<1>11. ASSUME NEW k \in 1..len, Good(k - 1) PROVE Good(k)
  <2>1. A[k] = A[k - 1] + SizeOf(s[k])
    BY <1>9
  <2> QED
    BY <1>1, <1>11, <2>1, Fourfold
<1> HIDE DEF Good
<1>12. B = {}
  <2> SUFFICES ASSUME B # {} PROVE FALSE
    OBVIOUS
  <2>1. B \subseteq Nat
    BY <1>1
  <2>2. PICK k \in B : \A j \in B : k <= j
    BY <2>1, LeastElement
  <2>3. k \in 1..len /\ k - 1 \in 0..len
    BY <1>1, <1>10
  <2>4. k - 1 \notin B
    <3> HIDE DEF B
    <3> QED
      BY <1>1, <2>2, <2>3
  <2> QED
    BY <1>11, <2>3, <2>4
<1>13. \A k \in 0..len : A[k] \in Nat /\ A[k] % 4 = 0
  BY <1>12 DEF Good
<1> QED
  BY <1>8, <1>9, <1>13 DEF len

(* No two entries begin at the same place.                                 *)
LEMMA SumsGrow ==
    ASSUME NEW s, Written(s), NEW j \in 0..Len(s), NEW k \in 0..Len(s), j < k
    PROVE  Sums(s)[j] < Sums(s)[k]
<1> DEFINE A == Sums(s)
           len == Len(s)
           Good(m) == A[j] < A[m]
           B == {m \in (j + 1)..len : ~Good(m)}
<1>1. len \in Nat /\ j \in Nat /\ j \in 0..len
  BY DEF Written
<1>2. /\ \A m \in 1..len : A[m] = A[m - 1] + SizeOf(s[m])
      /\ \A m \in 0..len : A[m] \in Nat
  BY SumsAre
<1>3. \A m \in 1..len : SizeOf(s[m]) \in Nat /\ SizeOf(s[m]) > 0
  BY SizeIs
<1> HIDE DEF A
<1>4. ASSUME NEW m \in (j + 1)..len, m - 1 = j \/ Good(m - 1) PROVE Good(m)
  <2>1. m \in 1..len /\ m - 1 \in 0..len
    BY <1>1
  <2> HIDE DEF len
  <2>2. A[m] = A[m - 1] + SizeOf(s[m]) /\ SizeOf(s[m]) \in Nat /\ SizeOf(s[m]) > 0
        /\ A[m - 1] \in Nat /\ A[j] \in Nat
    BY <1>1, <1>2, <1>3, <2>1
  <2> QED
    BY <1>4, <2>2
<1> HIDE DEF Good
<1>5. B = {}
  <2> SUFFICES ASSUME B # {} PROVE FALSE
    OBVIOUS
  <2>1. B \subseteq Nat
    BY <1>1
  <2>2. PICK m \in B : \A i \in B : m <= i
    BY <2>1, LeastElement
  <2>3. m \in (j + 1)..len /\ ~Good(m)
    OBVIOUS
  <2>4. m - 1 = j \/ m - 1 \in (j + 1)..len
    BY <1>1, <2>3
  <2>5. m - 1 \notin B
    <3> HIDE DEF B
    <3> QED
      BY <1>1, <2>2, <2>3
  <2> QED
    BY <1>4, <2>3, <2>4, <2>5
<1>6. k \in (j + 1)..len
  BY <1>1
<1> QED
  BY <1>5, <1>6 DEF Good, A

-----------------------------------------------------------------------------
(* The invariant of Populate.                                              *)
InTurn(s, pos, place, i) ==
    /\ pos = Base + Sums(s)[i - 1]
    /\ \A j \in 1..(i - 1) : ~IsTrailer(s[j])
    /\ place = "done" => i = Len(s) + 1 \/ IsTrailer(s[i])

LoaderInvariant ==
    /\ archive = <<>> \/ archive \in Archives
    /\ loader = "idle" => ptr = Base
    /\ \E i \in 1..(Len(archive) + 1) : InTurn(archive, ptr, loader, i)

LEMMA InTurnIs == EntriesReadInTurn <=>
    \E i \in 1..(Len(archive) + 1) : InTurn(archive, ptr, loader, i)
<1>1. \A i : Offset(i) = Sums(archive)[i - 1]
  BY DEF Offset, Sums
<1> QED
  BY <1>1 DEF EntriesReadInTurn, InTurn

LEMMA ArchiveWritten ==
    ASSUME NEW s, s = <<>> \/ s \in Archives
    PROVE  Written(s) /\ Len(s) \in Nat
<1>1. Written(<<>>)
  BY DEF Written
<1>2. \A x \in Archives : Written(x)
  BY CpioAssumption
<1> QED
  BY <1>1, <1>2 DEF Written

(* The header at the place that Populate has come to.                      *)
LEMMA HeaderHere ==
    ASSUME archive = <<>> \/ archive \in Archives,
           NEW i \in 1..(Len(archive) + 1), ptr = Base + Sums(archive)[i - 1]
    PROVE  /\ HeadersAt(ptr) = {i} \cap (1..Len(archive))
           /\ ptr >= End => i = Len(archive) + 1
           /\ Base \in Nat /\ ptr \in Nat /\ ptr % 4 = 0
<1> DEFINE A == Sums(archive)
           len == Len(archive)
<1>1. Written(archive) /\ len \in Nat /\ DOMAIN archive = 1..len
  BY ArchiveWritten DEF Written
<1>2. /\ \A k \in 0..len : A[k] \in Nat /\ A[k] % 4 = 0
      /\ \A j, k \in 0..len : j < k => A[j] < A[k]
  BY <1>1, SumsAre, SumsGrow
<1>3. \A k : Offset(k) = A[k - 1]
  BY DEF Offset, Sums
<1>4. ptr = Base + A[i - 1] /\ i \in 1..(len + 1)
  OBVIOUS
<1>5. Base \in Nat /\ Base % 4 = 0
  BY CpioAssumption
<1>6. HeadersAt(ptr) = {k \in 1..len : Base + A[k - 1] = ptr}
  BY <1>1, <1>3 DEF HeadersAt
<1>7. End = Base + A[len]
  <2>1. (len + 1) - 1 = len
    BY <1>1
  <2> QED
    BY <1>3, <2>1 DEF End
<1> HIDE DEF A, len
<1>8. i - 1 \in 0..len /\ A[i - 1] \in Nat /\ A[i - 1] % 4 = 0
  BY <1>1, <1>2, <1>4
<1>9. ASSUME NEW k \in 1..len PROVE Base + A[k - 1] = ptr <=> k = i
  <2>1. k - 1 \in 0..len /\ A[k - 1] \in Nat
    BY <1>1, <1>2
  <2>2. CASE k - 1 < i - 1
    <3>1. A[k - 1] < A[i - 1]
      BY <1>2, <1>8, <2>1, <2>2
    <3> QED
      BY <1>1, <1>4, <1>5, <1>8, <2>1, <2>2, <3>1
  <2>3. CASE i - 1 < k - 1
    <3>1. A[i - 1] < A[k - 1]
      BY <1>2, <1>8, <2>1, <2>3
    <3> QED
      BY <1>1, <1>4, <1>5, <1>8, <2>1, <2>3, <3>1
  <2>4. CASE k = i
    BY <1>4, <2>4
  <2> QED
    BY <1>1, <1>4, <2>2, <2>3, <2>4
<1>10. HeadersAt(ptr) = {i} \cap (1..len)
  BY <1>6, <1>9
<1>11. ASSUME ptr >= End, i # len + 1 PROVE FALSE
  <2>1. i - 1 < len /\ len \in 0..len
    BY <1>1, <1>4, <1>11
  <2>2. A[i - 1] < A[len] /\ A[len] \in Nat
    BY <1>2, <1>8, <2>1
  <2> QED
    BY <1>4, <1>5, <1>7, <1>8, <1>11, <2>2
<1>12. ptr \in Nat /\ ptr % 4 = 0
  BY <1>4, <1>5, <1>8, Fourfold
<1> QED
  BY <1>5, <1>10, <1>11, <1>12 DEF len

LEMMA PopulateOK ==
    ASSUME LoaderInvariant, Populate
    PROVE  LoaderInvariant'
<1>1. /\ loader = "idle" /\ archive' \in Archives /\ loader' = "loading" /\ ptr' = ptr
      /\ ptr = Base /\ Base \in Nat
  BY CpioAssumption DEF Populate, LoaderInvariant
<1>2. Written(archive') /\ Len(archive') \in Nat
  BY <1>1, ArchiveWritten
<1>3. Sums(archive')[0] = 0
  BY <1>2, SumsAre
<1>4. 1 \in 1..(Len(archive') + 1) /\ 1 - 1 = 0 /\ Base + 0 = Base /\ 1..0 = {}
  BY <1>1, <1>2
<1>5. InTurn(archive', ptr', loader', 1)
  BY <1>1, <1>3, <1>4 DEF InTurn
<1> QED
  BY <1>1, <1>4, <1>5 DEF LoaderInvariant

LEMMA LoadEntryOK ==
    ASSUME LoaderInvariant, LoadEntry
    PROVE  LoaderInvariant'
<1>1. loader = "loading" /\ ~AtTrailer /\ archive' = archive /\ loader' = loader
  BY DEF LoadEntry
<1>2. archive = <<>> \/ archive \in Archives
  BY DEF LoaderInvariant
<1>3. PICK i \in 1..(Len(archive) + 1) : InTurn(archive, ptr, loader, i)
  BY DEF LoaderInvariant
<1>4. ptr = Base + Sums(archive)[i - 1]
  BY <1>3 DEF InTurn
<1>5. /\ HeadersAt(ptr) = {i} \cap (1..Len(archive))
      /\ Base \in Nat /\ ptr \in Nat /\ ptr % 4 = 0
  BY <1>2, <1>4, HeaderHere
<1>6. PICK j \in HeadersAt(ptr) :
         ptr' = Padded(Padded(ptr + HeaderSize + ParseHex(Header(archive[j]).namesize))
                       + ParseHex(Header(archive[j]).filesize))
  BY DEF LoadEntry
<1>7. j = i /\ i \in 1..Len(archive)
  BY <1>5, <1>6
<1>8. Written(archive) /\ Len(archive) \in Nat
  BY <1>2, ArchiveWritten
<1>9. ptr' = ptr + SizeOf(archive[i]) /\ SizeOf(archive[i]) \in Nat
  BY <1>5, <1>6, <1>7, <1>8, SizeIs
<1>10. /\ Sums(archive)[i] = Sums(archive)[i - 1] + SizeOf(archive[i])
       /\ Sums(archive)[i - 1] \in Nat
  <2>1. i - 1 \in 0..Len(archive)
    BY <1>7, <1>8
  <2> QED
    BY <1>7, <1>8, <2>1, SumsAre
<1>11. ptr' = Base + Sums(archive)[i]
  BY <1>4, <1>5, <1>9, <1>10
<1>12. ~IsTrailer(archive[i])
  BY <1>1, <1>6, <1>7 DEF AtTrailer
<1>13. \A k \in 1..i : ~IsTrailer(archive[k])
  <2>1. \A k \in 1..(i - 1) : ~IsTrailer(archive[k])
    BY <1>3 DEF InTurn
  <2>2. \A k \in 1..i : k = i \/ k \in 1..(i - 1)
    BY <1>7, <1>8
  <2> QED
    BY <1>12, <2>1, <2>2
<1>14. i + 1 \in 1..(Len(archive) + 1) /\ (i + 1) - 1 = i
  BY <1>7, <1>8
<1>15. InTurn(archive', ptr', loader', i + 1)
  BY <1>1, <1>11, <1>13, <1>14 DEF InTurn
<1> QED
  BY <1>1, <1>2, <1>14, <1>15 DEF LoaderInvariant

LEMMA PopulateReturnsOK ==
    ASSUME LoaderInvariant, PopulateReturns
    PROVE  LoaderInvariant'
<1>1. /\ loader = "loading" /\ loader' = "done" /\ archive' = archive /\ ptr' = ptr
      /\ ptr >= End \/ HeadersAt(ptr) = {} \/ AtTrailer
  BY DEF PopulateReturns
<1>2. archive = <<>> \/ archive \in Archives
  BY DEF LoaderInvariant
<1>3. PICK i \in 1..(Len(archive) + 1) : InTurn(archive, ptr, loader, i)
  BY DEF LoaderInvariant
<1>4. ptr = Base + Sums(archive)[i - 1]
  BY <1>3 DEF InTurn
<1>5. /\ HeadersAt(ptr) = {i} \cap (1..Len(archive))
      /\ ptr >= End => i = Len(archive) + 1
  BY <1>2, <1>4, HeaderHere
<1>6. Len(archive) \in Nat
  BY <1>2, ArchiveWritten
<1>7. i = Len(archive) + 1 \/ IsTrailer(archive[i])
  <2>1. CASE ptr >= End
    BY <1>5, <2>1
  <2>2. CASE HeadersAt(ptr) = {}
    <3>1. i \notin 1..Len(archive)
      BY <1>5, <2>2
    <3> QED
      BY <1>6, <3>1
  <2>3. CASE AtTrailer
    BY <1>5, <2>3 DEF AtTrailer
  <2> QED
    BY <1>1, <2>1, <2>2, <2>3
<1>8. InTurn(archive', ptr', loader', i)
  BY <1>1, <1>3, <1>7 DEF InTurn
<1> QED
  BY <1>1, <1>2, <1>8 DEF LoaderInvariant

(* For every archive that cpio can write, Populate reads its entries one   *)
(* after the other, the trailer ends it, and nothing else ends it early.   *)
THEOREM EntriesAlwaysInTurn == LoaderSpec => []EntriesReadInTurn
<1>1. LoaderInit => LoaderInvariant
  <2> SUFFICES ASSUME LoaderInit PROVE LoaderInvariant
    OBVIOUS
  <2>1. archive = <<>> /\ ptr = Base /\ loader = "idle" /\ Base \in Nat
    BY CpioAssumption DEF LoaderInit
  <2>2. Sums(<<>>)[0] = 0 /\ Len(<<>>) = 0
    BY ArchiveWritten, SumsAre
  <2>3. 1 \in 1..(0 + 1) /\ 1 - 1 = 0 /\ Base + 0 = Base /\ 1..0 = {}
    BY <2>1
  <2>4. InTurn(archive, ptr, loader, 1)
    BY <2>1, <2>2, <2>3 DEF InTurn
  <2> QED
    BY <2>1, <2>2, <2>3, <2>4 DEF LoaderInvariant
<1>2. ASSUME LoaderInvariant, [LoaderNext]_loaderVars
      PROVE  LoaderInvariant'
  <2>1. CASE LoaderNext
    BY <1>2, <2>1, PopulateOK, LoadEntryOK, PopulateReturnsOK DEF LoaderNext
  <2>2. CASE UNCHANGED loaderVars
    BY <1>2, <2>2 DEF LoaderInvariant, loaderVars
  <2> QED
    BY <1>2, <2>1, <2>2
<1>3. LoaderInvariant => EntriesReadInTurn
  BY InTurnIs DEF LoaderInvariant
<1> QED
  BY <1>1, <1>2, <1>3, PTL DEF LoaderSpec
=============================================================================
