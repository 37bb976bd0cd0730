-------------------------------- MODULE Console --------------------------------
(***************************************************************************)
(* The framebuffer console at the granularity of glyph cells.  Nothing     *)
(* guards its cursor.  System calls and the kernel's log messages in them  *)
(* print with interrupts masked, so each of their characters is one step;  *)
(* the reaper logs with interrupts enabled and can be preempted between    *)
(* any two of its accesses to the cursor.  putpixel drops what lies off    *)
(* the screen.  The machine has a framebuffer.                             *)
(***************************************************************************)
EXTENDS Integers, Sequences

CONSTANTS
    Cols, Rows,     \* glyph cells of the screen
    Glyphs,         \* the printable characters
    MaxOutput       \* characters printed in a behaviour

LF == "LF"
CR == "CR"
BS == "BS"

ASSUME ConsoleAssumption ==
    Cols \in Nat \ {0} /\ Rows \in Nat \ {0} /\ {LF, CR, BS} \cap Glyphs = {}

VARIABLES
    console_col, console_row,
    cells,          \* what each cell shows
    at, reg,        \* where the reaper is in putc, and its register
    output,         \* how many characters were printed so far
    terminal,       \* and what they show on a terminal of unbounded length
    torn            \* whether somebody printed inside the reaper's putc
consoleVars == <<console_col, console_row, cells, at, reg, output, terminal, torn>>

Blank == "blank"
BlankLine == [x \in 0..(Cols - 1) |-> Blank]

(* linearfb_console_init: an empty screen, the cursor at its top left.     *)
ConsoleInit ==
    /\ console_col = 0 /\ console_row = 0
    /\ cells = [y \in 0..(Rows - 1) |-> BlankLine]
    /\ at = "out" /\ reg = 0
    /\ output = 0 /\ terminal = [lines |-> <<BlankLine>>, col |-> 0] /\ torn = FALSE

Drawn(screen, x, y, g) ==
    IF x < Cols /\ y < Rows THEN [screen EXCEPT ![y][x] = g] ELSE screen
(* Faulty: the last row is moved up and not cleared.                       *)
ScrolledKeepsLast(screen) ==
    [y \in 0..(Rows - 1) |-> IF y = Rows - 1 THEN screen[y] ELSE screen[y + 1]]
Scrolled(screen) ==
    [y \in 0..(Rows - 1) |-> IF y = Rows - 1 THEN BlankLine ELSE screen[y + 1]]

(* linearfb_console_putc, uninterrupted, on S = [col, row, cells].         *)
console_scroll(S) == [col |-> S.col, row |-> Rows - 1, cells |-> Scrolled(S.cells)]
NextLine(S) ==
    LET T == [col |-> 0, row |-> S.row + 1, cells |-> S.cells]
    IN  IF T.row >= Rows THEN console_scroll(T) ELSE T
putc(S, c) ==
    CASE c = LF -> NextLine(S)
      [] c = CR -> [S EXCEPT !.col = 0]
      [] c = BS -> [S EXCEPT !.col = IF @ > 0 THEN @ - 1 ELSE @]
      [] OTHER ->
           LET T == [col |-> S.col + 1, row |-> S.row,
                     cells |-> Drawn(S.cells, S.col, S.row, c)]
           IN  IF T.col >= Cols THEN NextLine(T) ELSE T

(* A terminal of unbounded length: its lines, and the column of the cursor *)
(* in the last one.                                                        *)
Typed(T, c) ==
    CASE c = LF -> [lines |-> Append(T.lines, BlankLine), col |-> 0]
      [] c = CR -> [T EXCEPT !.col = 0]
      [] c = BS -> [T EXCEPT !.col = IF @ > 0 THEN @ - 1 ELSE @]
      [] OTHER ->
           LET lines == [T.lines EXCEPT ![Len(T.lines)][T.col] = c]
           IN  IF T.col + 1 < Cols THEN [lines |-> lines, col |-> T.col + 1]
               ELSE [lines |-> Append(lines, BlankLine), col |-> 0]
Prints(c) ==
    output < MaxOutput /\ output' = output + 1 /\ terminal' = Typed(terminal, c)

(* One character of a write to stdout or /dev/tty, or of a log message of  *)
(* a system call.                                                          *)
CallPrints(c) ==
    /\ Prints(c)
    /\ LET S == putc([col |-> console_col, row |-> console_row, cells |-> cells], c)
       IN  console_col' = S.col /\ console_row' = S.row /\ cells' = S.cells
    /\ torn' = (torn \/ at # "out")
    /\ UNCHANGED <<at, reg>>

(* The reaper prints a glyph or ends its line: each access to the cursor   *)
(* is a step.                                                              *)
ReaperDraws(c) ==
    /\ at = "out" /\ Prints(c)
    /\ cells' = Drawn(cells, console_col, console_row, c)
    /\ at' = "col"
    /\ UNCHANGED <<console_col, console_row, reg, torn>>
ReaperEndsLine ==
    /\ at = "out" /\ Prints(LF)
    /\ console_col' = 0 /\ at' = "row"
    /\ UNCHANGED <<console_row, cells, reg, torn>>
ReaperLoads ==
    \/ /\ at = "col" /\ reg' = console_col /\ at' = "col++"
       /\ UNCHANGED <<console_col, console_row, cells, output, terminal, torn>>
    \/ /\ at = "row" /\ reg' = console_row /\ at' = "row++"
       /\ UNCHANGED <<console_col, console_row, cells, output, terminal, torn>>
ReaperStoresCol ==
    /\ at = "col++"
    /\ console_col' = reg + 1
    /\ at' = IF reg + 1 >= Cols THEN "wrap" ELSE "out"
    /\ UNCHANGED <<console_row, cells, reg, output, terminal, torn>>
ReaperWraps ==
    /\ at = "wrap"
    /\ console_col' = 0 /\ at' = "row"
    /\ UNCHANGED <<console_row, cells, reg, output, terminal, torn>>
ReaperStoresRow ==
    /\ at = "row++"
    /\ console_row' = reg + 1
    /\ at' = IF reg + 1 >= Rows THEN "scroll" ELSE "out"
    /\ UNCHANGED <<console_col, cells, reg, output, terminal, torn>>
ReaperScrolls ==
    /\ at = "scroll"
    /\ cells' = Scrolled(cells) /\ at' = "last"
    /\ UNCHANGED <<console_col, console_row, reg, output, terminal, torn>>
(* Faulty: console_scroll leaves the row to its caller.                    *)
ReaperKeepsRow ==
    /\ at = "last"
    /\ at' = "out"
    /\ UNCHANGED <<console_col, console_row, cells, reg, output, terminal, torn>>
ReaperSetsRow ==
    /\ at = "last"
    /\ console_row' = Rows - 1 /\ at' = "out"
    /\ UNCHANGED <<console_col, cells, reg, output, terminal, torn>>

ConsoleNext ==
    \/ \E c \in Glyphs \cup {LF, CR, BS} : CallPrints(c)
    \/ \E c \in Glyphs : ReaperDraws(c)
    \/ ReaperEndsLine
    \/ ReaperLoads
    \/ ReaperStoresCol
    \/ ReaperWraps
    \/ ReaperStoresRow
    \/ ReaperScrolls
    \/ ReaperSetsRow
ConsoleSpec == ConsoleInit /\ [][ConsoleNext]_consoleVars

-----------------------------------------------------------------------------
(* However the printers of the kernel interleave, a cursor that a          *)
(* preempted putc has left off the screen is back on it when that putc     *)
(* ends: no glyph is drawn off the screen for ever after.                  *)
CursorInRange == at = "out" => console_col < Cols /\ console_row < Rows

(* While no putc has been interrupted by another, the screen shows the     *)
(* last lines of all that was printed, scrolled by whole lines, and the    *)
(* next character goes where the printed text ends.                        *)
ScreenShowsTail ==
    (~torn /\ at = "out") =>
        LET T == terminal
            above == IF Len(T.lines) > Rows THEN Len(T.lines) - Rows ELSE 0
            Line(y) == above + y + 1
        IN  /\ cells = [y \in 0..(Rows - 1) |->
                           IF Line(y) <= Len(T.lines) THEN T.lines[Line(y)] ELSE BlankLine]
            /\ console_col = T.col
            /\ Line(console_row) = Len(T.lines)
=============================================================================
