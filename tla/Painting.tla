------------------------------ MODULE Painting ------------------------------
(***************************************************************************)
(* How a frame gets to the terminal: the renderer writes cells into a grid *)
(* (crates/onda-render/src/grid.rs, view.rs), flush sends the cells that   *)
(* differ from the last frame's (backend.rs), and the terminal, which is   *)
(* not asked, shows what all of that adds up to.  A wide character takes   *)
(* two columns: its cell, W, and a continuation, c, which is compared with *)
(* the last frame's but never sent.                                        *)
(*                                                                         *)
(* The screen is a pane of text, the border at its right, and an overlay   *)
(* (a picker, a float) that is drawn over both; every frame writes every   *)
(* cell.  Colours are left out: a cell of another colour is another cell.  *)
(***************************************************************************)
EXTENDS Integers, Sequences, FiniteSets, SequencesExt

CONSTANTS Columns,  \* width of the screen; the border is its last column
          Rows,     \* its height
          Texts,    \* what a row of the pane may hold, sequences of characters
          From, To  \* the columns of the overlay

VARIABLES text,     \* the text of each row
          overlay,  \* whether the overlay is open
          current,  \* DoubleBuffer::current
          previous, \* DoubleBuffer::previous
          screen,   \* what the terminal shows
          whole     \* history: no frame since the last full redraw cut a character in two

vars == <<text, overlay, current, previous, screen, whole>>

\* A cell is its character; its place is its number in the rows joined, from 0.
Places == 0..(Columns * Rows - 1)
Cols == 0..(Columns - 1)
Edge == Columns - 1
Cells(ch) == IF ch = "W" THEN 2 ELSE IF ch = "c" THEN 0 ELSE 1
Sentinel == [p \in Places |-> "z"]

-----------------------------------------------------------------------------
RowUnmarked(line) ==  \* a mutant: the column after a wide character is left blank
  FoldLeft(LAMBDA s, ch :
             IF s.col >= Edge THEN s
             ELSE [cells |-> [s.cells EXCEPT ![s.col] = ch], col |-> s.col + Cells(ch)],
           [cells |-> [c \in Cols |-> IF c = Edge THEN "|" ELSE " "], col |-> 0],
           line).cells

\* render_with_highlights, for one row: the characters that start before the edge of
\* the pane, a continuation after a wide one unless the edge is there, then blanks.
Row(line) ==
  FoldLeft(LAMBDA s, ch :
             IF s.col >= Edge THEN s
             ELSE [cells |-> [c \in Cols |->
                                IF c = s.col THEN ch
                                ELSE IF Cells(ch) = 2 /\ c = s.col + 1 /\ c < Edge THEN "c"
                                ELSE s.cells[c]],
                   col |-> s.col + Cells(ch)],
           [cells |-> [c \in Cols |-> IF c = Edge THEN "|" ELSE " "], col |-> 0],
           line).cells

\* render_frame: the rows, and the overlay over them.
Drawn(lines, over) ==
  [p \in Places |->
     IF over /\ p % Columns \in From..To THEN "#"
     ELSE Row(lines[p \div Columns + 1])[p % Columns]]

\* No wide character of the rows is cut in two: by the edge, or by the overlay.
Whole(lines, over) ==
  \A r \in 1..Rows : \A c \in Cols :
    Row(lines[r])[c] = "W" =>
      /\ c + 1 < Edge
      /\ over => (c \in From..To <=> c + 1 \in From..To)

-----------------------------------------------------------------------------
\* The terminal: a character is put at the cursor; of one it covers half of, the other
\* half is blank or stays, as the terminal likes: not what any cell of a grid says.
Shown(shows, p, ch) ==
  LET end == p + Cells(ch) - 1
  IN IF end \div Columns # p \div Columns THEN shows
     ELSE [q \in Places |->
             IF q = p THEN ch
             ELSE IF q = end THEN "c"
             ELSE IF \/ q = p - 1 /\ shows[p] = "c"
                     \/ q = end + 1 /\ shows[end] = "W" THEN "?"
             ELSE shows[q]]

\* Grid::diff
Diff(now, before) == SelectSeq([i \in 1..Cardinality(Places) |-> i - 1],
                               LAMBDA p : now[p] # before[p])

\* draw_cells: the cursor is moved only where the last character did not leave it.
DrawCells(shows, now, places) ==
  FoldLeft(LAMBDA t, p :
             IF Cells(now[p]) = 0 THEN t
             ELSE LET at == IF t.last = <<p \div Columns, p % Columns>> THEN t.at ELSE p
                  IN [shows |-> Shown(t.shows, at, now[p]),
                      at |-> at + Cells(now[p]),
                      last |-> <<p \div Columns, (p % Columns) + Cells(now[p])>>],
           [shows |-> shows, at |-> 0, last |-> <<Rows, 0>>],
           places).shows

\* Compositor::flush, of a frame drawn for these rows and overlay: the difference is
\* sent and the frame kept.  All cells differ from an invalidated buffer.
Flush(lines, over, invalidated) ==
  LET before == IF invalidated THEN Sentinel ELSE previous
      frame == Drawn(lines, over)
  IN /\ current' = frame
     /\ screen' = DrawCells(screen, frame, Diff(frame, before))
     /\ previous' = frame
     /\ whole' = (Whole(lines, over) /\ (invalidated \/ whole))

-----------------------------------------------------------------------------
Init ==
  /\ text = [r \in 1..Rows |-> <<>>]
  /\ overlay = FALSE
  /\ current = [p \in Places |-> " "]
  /\ previous = Sentinel
  /\ screen = [p \in Places |-> "?"]
  /\ whole = FALSE

\* An edit or a scroll: a row of the text is another.
Edit ==
  /\ \E r \in 1..Rows : \E line \in Texts : text' = [text EXCEPT ![r] = line]
  /\ Flush(text', overlay, FALSE)
  /\ UNCHANGED overlay

\* A picker, a float or a menu opens or closes: nothing is invalidated.
Overlay ==
  /\ overlay' = ~overlay
  /\ Flush(text, overlay', FALSE)
  /\ UNCHANGED text

\* What invalidates the buffer: the sidebar, the panels, a theme, another view.
Redraw ==
  /\ \E over \in BOOLEAN : overlay' = over
  /\ Flush(text, overlay', TRUE)
  /\ UNCHANGED text

\* Nothing happened: the loop draws a frame all the same.
Idle ==
  /\ Flush(text, overlay, FALSE)
  /\ UNCHANGED <<text, overlay>>

Next == Edit \/ Overlay \/ Redraw \/ Idle

Spec == Init /\ [][Next]_vars

-----------------------------------------------------------------------------
\* What a grid means to show: a wide character hides the cell after it.
Means(grid) ==
  [p \in Places |-> IF p % Columns > 0 /\ grid[p - 1] = "W" THEN "c" ELSE grid[p]]

\* The differences sent over all frames add up to the last one: the terminal shows the
\* grid, as long as no frame since the last full redraw has cut a wide character in
\* two (the edge of a pane or of an overlay does; what it leaves behind stays there).
ScreenShowsTheFrame == whole => screen = Means(current)
=============================================================================
