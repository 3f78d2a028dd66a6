------------------------------- MODULE Console -------------------------------
(***************************************************************************)
(* The framebuffer console of src/kernel/gfx/console.c: the grid of        *)
(* characters s_text, the pixels that show it, and the block cursor that   *)
(* the timer blinks.  Every entry takes s_lock for all it does, so each is *)
(* one step.                                                               *)
(*                                                                         *)
(* The pixels of a cell are the glyph drawn there and whether it is drawn  *)
(* inverted.  Glyphs, colours, the splash and the border of the panic page *)
(* are left out; the layout is what remains of them, the number of rows    *)
(* below the splash and of the whole screen.                               *)
(***************************************************************************)
EXTENDS Integers, Sequences

CONSTANTS
  Cols,      \* s_cols
  BootRows,  \* s_rows below the splash
  FullRows,  \* s_rows of the whole screen
  TabStop,   \* CON_TAB_STOP
  Letter,    \* the characters that are drawn, besides the space
  Writes,    \* what is written, sequences of letters and controls
  MaxLine,   \* bound: how many lines are written before the screen is cleared
  MaxMsg,    \* bound: the lines of a panic's message
  NoText

\* A space, and the controls \n, \r, \b and \t.
Space == " "
Control == {"nl", "cr", "bs", "tab"}

ASSUME ConsoleAssumption ==
  /\ Cols \in Nat \ {0} /\ BootRows \in Nat \ {0} /\ FullRows \in Nat \ {0}
  /\ TabStop \in Nat \ {0} /\ MaxLine \in Nat /\ MaxMsg \in Nat
  /\ MaxLine >= FullRows - 1 /\ MaxLine >= BootRows - 1
  /\ Writes \subseteq Seq(Letter \cup {Space} \cup Control)

VARIABLES
  s_ready,
  con,     \* the console: rows, text, pix, cx, cy, and the cursor's phase and enabled
  paper,   \* history: the lines written since the screen was cleared, however many
  line,    \* history: the line of the paper that is being written
  col      \* history: and the column

consoleVars == <<s_ready, con, paper, line, col>>

Blank == [c \in 0 .. Cols - 1 |-> Space]
Cell(ch, inverted) == [ch |-> ch, inv |-> inverted]

-----------------------------------------------------------------------------
(* Drawing.                                                                *)

con_draw_locked(k, x, y, ch) == [k EXCEPT !.pix[y][x] = Cell(ch, FALSE)]

\* A space when there is no buffer.
con_cell_char_locked(k, x, y) == IF k.text = NoText THEN Space ELSE k.text[y][x]

con_cursor_paint_locked(k, show) ==
  IF k.enabled
  THEN [k EXCEPT !.pix[k.cy][k.cx] = Cell(con_cell_char_locked(k, k.cx, k.cy), show)]
  ELSE k

HideUnpainted(k) == [k EXCEPT !.phase = FALSE]

con_cursor_hide_locked(k) ==
  IF k.phase THEN [con_cursor_paint_locked(k, FALSE) EXCEPT !.phase = FALSE] ELSE k

con_cursor_restart_locked(k) ==
  [con_cursor_paint_locked(con_cursor_hide_locked(k), TRUE) EXCEPT !.phase = TRUE]

ScrolledUp(rows, grid, last) == [y \in 0 .. rows - 1 |-> IF y = rows - 1 THEN last ELSE grid[y + 1]]

\* The grid of characters and the pixels move up together.
con_scroll_locked(k) ==
  [k EXCEPT !.text = IF @ = NoText THEN NoText ELSE ScrolledUp(k.rows, @, Blank),
            !.pix  = ScrolledUp(k.rows, @, [c \in 0 .. Cols - 1 |-> Cell(Space, FALSE)])]

ScrollDue(k) == k.cy + 1 >= k.rows

con_newline_locked(k) ==
  IF ScrollDue(k) THEN [con_scroll_locked(k) EXCEPT !.cx = 0, !.cy = k.rows - 1]
  ELSE [k EXCEPT !.cx = 0, !.cy = @ + 1]

SetText(k, x, y, ch) == IF k.text = NoText THEN k ELSE [k EXCEPT !.text[y][x] = ch]

\* A character that is drawn; the cursor moves on, and wraps.
con_putglyph(k, ch) ==
  LET drawn == con_draw_locked(SetText(k, k.cx, k.cy, ch), k.cx, k.cy, ch)
  IN  IF k.cx + 1 >= Cols THEN con_newline_locked(drawn) ELSE [drawn EXCEPT !.cx = @ + 1]

tab_step(k) == IF k.cx % TabStop # 0 THEN con_putglyph(k, Space) ELSE k

\* Spaces, at least one, up to the next stop or the end of the line.
tab_loop(k) ==
  LET f[i \in 0 .. TabStop - 1] == IF i = 0 THEN con_putglyph(k, Space) ELSE tab_step(f[i - 1])
  IN  f

con_tab(k) == tab_loop(k)[TabStop - 1]

con_putchar_locked(k, ch) ==
  CASE ch = "nl" -> con_newline_locked(k)
    [] ch = "cr" -> [k EXCEPT !.cx = 0]
    [] ch = "bs" -> IF k.cx = 0 THEN k
                    ELSE con_draw_locked(SetText([k EXCEPT !.cx = @ - 1], k.cx - 1, k.cy, Space),
                                         k.cx - 1, k.cy, Space)
    [] ch = "tab" -> con_tab(k)
    [] OTHER     -> con_putglyph(k, ch)

\* The screens of fb_console_write after each character of s.
write_loop(k, s) ==
  LET f[i \in 0 .. Len(s)] == IF i = 0 THEN k ELSE con_putchar_locked(f[i - 1], s[i])
  IN  f

\* con_text_alloc_locked: a buffer of the right size is kept, and cleared; without
\* memory there is none.
con_text_alloc_locked(k, rows, memory) ==
  IF (k.text # NoText /\ k.rows = rows) \/ memory THEN [y \in 0 .. rows - 1 |-> Blank] ELSE NoText

con_reset_full_locked(k, rows, memory) ==
  [rows |-> rows, text |-> con_text_alloc_locked(k, rows, memory),
   pix |-> [y \in 0 .. rows - 1 |-> [c \in 0 .. Cols - 1 |-> Cell(Space, FALSE)]],
   cx |-> 0, cy |-> 0, phase |-> FALSE, enabled |-> k.enabled]

\* A row of the panic page: the letter repeated stands for its text.
con_draw_centered_locked(k, y, ch) ==
  IF y >= k.rows THEN k
  ELSE [k EXCEPT !.text = IF @ = NoText THEN NoText
                          ELSE [k.text EXCEPT ![y] = [c \in 0 .. Cols - 1 |-> ch]],
                 !.pix[y] = [c \in 0 .. Cols - 1 |-> Cell(ch, FALSE)]]

\* The screens after each of the rows.
page_loop(k, rows) ==
  LET f[i \in 0 .. Len(rows)] ==
        IF i = 0 THEN k ELSE con_draw_centered_locked(f[i - 1], rows[i][1], rows[i][2])
  IN  f

-----------------------------------------------------------------------------
(* The paper: what a terminal without an end would hold.                   *)

\* The paper after ch at column x of a line with the content `row`, as the column,
\* the content, and whether the line ends there.
Typed(row, x, ch) ==
  LET fill(from, to, c) == [i \in DOMAIN row |-> IF from <= i /\ i < to THEN c ELSE row[i]]
      stop == (x \div TabStop + 1) * TabStop
      to   == IF ch # "tab" THEN x + 1 ELSE IF stop < Cols THEN stop ELSE Cols
  IN  CASE ch = "nl" -> [row |-> row, x |-> 0, ends |-> TRUE]
        [] ch = "cr" -> [row |-> row, x |-> 0, ends |-> FALSE]
        [] ch = "bs" -> [row |-> fill(x - 1, x, Space), x |-> IF x = 0 THEN 0 ELSE x - 1, ends |-> FALSE]
        [] OTHER     -> [row |-> fill(x, to, IF ch = "tab" THEN Space ELSE ch),
                         x |-> to % Cols, ends |-> to = Cols]

OnPaper(p, ch) ==
  LET t == Typed(p.paper[p.line], p.col, ch)
  IN  [paper |-> [p.paper EXCEPT ![p.line] = t.row],
       line |-> IF t.ends THEN p.line + 1 ELSE p.line, col |-> t.x]

paper_loop(p, s) ==
  LET f[i \in 0 .. Len(s)] == IF i = 0 THEN p ELSE OnPaper(f[i - 1], s[i])
  IN  f

NoPaper == [l \in 0 .. MaxLine |-> Blank]

\* A paper with the rows of a page.
PagePaper(rows) ==
  [l \in 0 .. MaxLine |->
     LET at == {i \in DOMAIN rows : rows[i][1] = l}
     IN  IF l < FullRows /\ at # {}
         THEN LET ch == rows[CHOOSE i \in at : TRUE][2] IN [c \in DOMAIN Blank |-> ch]
         ELSE Blank]

FreshPaper == paper' = NoPaper /\ line' = 0 /\ col' = 0

-----------------------------------------------------------------------------
(* The entries.                                                            *)

ConsoleInit ==
  /\ s_ready = FALSE
  /\ con = [rows |-> BootRows, text |-> NoText, pix |-> <<>>, cx |-> 0, cy |-> 0,
            phase |-> FALSE, enabled |-> FALSE]
  /\ paper = NoPaper /\ line = 0 /\ col = 0

fb_console_init_boot(memory) ==
  /\ ~s_ready
  /\ s_ready' = TRUE
  /\ con' = con_cursor_restart_locked(
       [con_reset_full_locked(con, BootRows, memory) EXCEPT !.enabled = TRUE])
  /\ FreshPaper

\* fb_console_write, and fb_console_puts.
fb_console_write(s) ==
  LET sheet == paper_loop([paper |-> paper, line |-> line, col |-> col], s)[Len(s)]
  IN  /\ s_ready
      /\ line + Len(s) <= MaxLine \* bound
      /\ con' = con_cursor_restart_locked(write_loop(con_cursor_hide_locked(con), s)[Len(s)])
      /\ paper' = sheet.paper /\ line' = sheet.line /\ col' = sheet.col
      /\ UNCHANGED s_ready

\* The timer's tick, when it is time to blink.
fb_console_tick ==
  /\ s_ready /\ con.enabled
  /\ con' = con_cursor_paint_locked([con EXCEPT !.phase = ~@], ~con.phase)
  /\ UNCHANGED <<s_ready, paper, line, col>>

fb_console_clear_full(memory) ==
  /\ s_ready
  /\ con' = con_cursor_restart_locked(con_reset_full_locked(con, FullRows, memory))
  /\ FreshPaper
  /\ UNCHANGED s_ready

\* The rows of the panic page: the title, an empty row, the lines of the message as
\* far as they fit, an empty row and the note that the system has halted.
PanicLines(rows, n) ==
  LET room == IF rows > 4 THEN rows - 4 ELSE 0 IN IF n < room THEN n ELSE room

PanicRows(rows, n) ==
  LET lines == PanicLines(rows, n)
      row   == IF lines + 4 < rows THEN (rows - (lines + 4)) \div 2 ELSE 0
  IN  <<<<row, "T">>>> \o [i \in 1 .. lines |-> <<row + 1 + i, "M">>] \o <<<<row + lines + 3, "H">>>>

\* fb_console_panic_page with a message of n lines.  The cursor is switched off; the
\* CPUs that did not panic may write on.
fb_console_panic_page(n, memory) ==
  LET rows == PanicRows(FullRows, n)
      page == page_loop(con_reset_full_locked(con, FullRows, memory), rows)[Len(rows)]
  IN  /\ s_ready
      /\ con' = [page EXCEPT !.enabled = FALSE]
      /\ paper' = PagePaper(rows)
      /\ line' = 0 /\ col' = 0
      /\ UNCHANGED s_ready

ConsoleNext ==
  \/ \E memory \in BOOLEAN :
       \/ fb_console_init_boot(memory) \/ fb_console_clear_full(memory)
       \/ \E n \in 0 .. MaxMsg : fb_console_panic_page(n, memory)
  \/ \E s \in Writes : fb_console_write(s)
  \/ fb_console_tick

-----------------------------------------------------------------------------
(* Properties.                                                             *)

\* The line of the paper in the first row of the screen.
Top == IF line < con.rows THEN 0 ELSE line - con.rows + 1

\* The grid shows the last rows of the endless paper, and the cursor is where the
\* next character goes: wrapping, tabs, backspaces and scrolling lose nothing.
PaperExact ==
  s_ready =>
    /\ con.cx = col /\ con.cy = line - Top
    /\ con.text # NoText => \A y \in 0 .. con.rows - 1 : con.text[y] = paper[Top + y]

\* The pixels show the paper, inverted where the cursor is and nowhere else, however
\* ticks and writes alternate; without the buffer the cursor may have rubbed a
\* character out, but never puts another in its place.
PixelsExact ==
  s_ready =>
    \A y \in 0 .. con.rows - 1, x \in 0 .. Cols - 1 :
      /\ con.pix[y][x].inv <=> (con.phase /\ con.enabled /\ x = con.cx /\ y = con.cy)
      /\ con.pix[y][x].ch = paper[Top + y][x] \/ (con.text = NoText /\ con.pix[y][x].ch = Space)

\* Writes of several lines, ticks of the blinking cursor, the switch to the full
\* screen and the panic page leave on the screen what was printed.
ScreenExact == PaperExact /\ PixelsExact

=============================================================================
