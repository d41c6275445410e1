-------------------------------- MODULE View --------------------------------
(***************************************************************************)
(* Where a frame shows the text: the areas of the screen and the panes     *)
(* (render_frame of crates/onda/src/main.rs, Layout::rects of              *)
(* crates/onda-render/src/split.rs), the scrolling of each window and the  *)
(* rows of its lines (crates/onda-render/src/view.rs), and the two that    *)
(* must agree with them: the place of the terminal's cursor and the click  *)
(* of the mouse.  Every event ends in render_frame, which scrolls every    *)
(* window to its cursor: it is part of every action.                       *)
(*                                                                         *)
(* A text is the kinds of its characters: n takes one cell, w two; t, a    *)
(* tab, is drawn in one.  Lines, characters, rows, columns count from 0.   *)
(* A window is only ever added by a split of the whole layout, so the      *)
(* layout is the directions of the splits, window i + 1 made by the i-th.  *)
(***************************************************************************)
EXTENDS Integers, Sequences, SequencesExt

CONSTANTS Text,       \* the lines of the text all windows show
          Sizes,      \* the sizes the terminal takes, <<columns, rows>>
          Chromes,    \* what may be open: width of the left chrome, agent panel, tabs
          Scrolloffs, \* what scrolloff is set to; the least is that of a new window
          MaxWindows  \* bound on the windows

VARIABLES terminal, \* the size of the compositor's grid
          size,     \* Backend::size
          shell,    \* what the frame leaves to the chrome, and soft_wrap
          dirs,     \* App::layout
          windows,  \* App::windows: cursor, first line shown, scrolloff
          focused   \* App::focused_window, from 1

vars == <<terminal, size, shell, dirs, windows, focused>>

Gutter == 4
Less(a, b) == Max({a - b, 0})
LineLen(l) == Len(Text[l + 1])
Cells(ch) == IF ch = "w" THEN 2 ELSE 1
\* What char_to_display_col counts for it: a control character has no width.
Counted(ch) == IF ch = "t" THEN 0 ELSE Cells(ch)
CellsOf(chars) == FoldLeft(LAMBDA sum, ch : sum + Cells(ch), 0, chars)
\* char_to_display_col
CountedOf(chars) == FoldLeft(LAMBDA sum, ch : sum + Counted(ch), 0, chars)
Chars(l, from, to) == SubSeq(Text[l + 1], from + 1, to)
Positions == UNION {{<<l, c>> : c \in 0..LineLen(l)} : l \in 0..(Len(Text) - 1)}

-----------------------------------------------------------------------------
(* The panes. *)

PanelWidth(s, sz) ==
  IF s.panel THEN Min({Max({30, Min({sz[1] \div 3, 64})}), Less(sz[1], 20)}) ELSE 0

\* What is left of the screen for the panes.
Area(s, sz) ==
  LET editor == sz[1] - PanelWidth(s, sz)
      left == Min({s.sidebar, Less(editor, 20)})
      top == IF s.tabs THEN 1 ELSE 0
  IN [x |-> left, y |-> top, w |-> Less(editor, left), h |-> Less(Less(sz[2], 2), top)]

\* split_rect at ratio 0.5, a half rounded up; a cell between the two is the border.
SplitRect(r, dir) ==
  IF dir = "below" THEN
    LET usable == Less(r.h, 1)
        first == (usable + 1) \div 2
    IN <<[r EXCEPT !.h = first], [r EXCEPT !.y = r.y + first + 1, !.h = usable - first]>>
  ELSE
    LET usable == Less(r.w, 1)
        first == (usable + 1) \div 2
    IN <<[r EXCEPT !.w = first], [r EXCEPT !.x = r.x + first + 1, !.w = usable - first]>>

\* The panes, in the order of their windows: the last split divides the whole area.
Rects(ds, area) ==
  LET n == Len(ds) + 1
      room[i \in 1..n] == IF i = n THEN area ELSE SplitRect(room[i + 1], ds[i])[1]
  IN [i \in 1..n |-> IF i = 1 THEN room[1] ELSE SplitRect(room[i], ds[i - 1])[2]]

Panes == Rects(dirs, Area(shell, size))

-----------------------------------------------------------------------------
(* The lines a pane shows. *)

ScrollToShort(w, h) ==  \* a mutant: one line too few
  LET line == w.head[1]
      below == line >= w.top + Less(h, w.off)
  IN CASE Less(h, 2 * w.off) = 0 -> line
       [] Less(h, 2 * w.off) > 0 /\ line < w.top + w.off -> Less(line, w.off)
       [] Less(h, 2 * w.off) > 0 /\ line >= w.top + w.off /\ below ->
            line + w.off - Min({h, line + 1})
       [] OTHER -> w.top

\* Viewport::scroll_to: the first line shown, for a window of height h.
ScrollTo(w, h) ==
  LET line == w.head[1]
      below == line >= w.top + Less(h, w.off)
  IN CASE Less(h, 2 * w.off) = 0 -> line
       [] Less(h, 2 * w.off) > 0 /\ line < w.top + w.off -> Less(line, w.off)
       [] Less(h, 2 * w.off) > 0 /\ line >= w.top + w.off /\ below ->
            line + w.off + 1 - Min({h, line + 1})
       [] OTHER -> w.top

\* wrap_line_segments: where the rows of a line start, as many cells in each as fit.
Segments(l, width) ==
  IF LineLen(l) = 0 \/ width = 0 THEN <<0>>
  ELSE FoldLeft(LAMBDA s, i :
                  LET cells == Cells(Text[l + 1][i])
                  IN IF s.cells + cells > width /\ i - 1 > Last(s.starts)
                     THEN [starts |-> Append(s.starts, i - 1), cells |-> cells]
                     ELSE [s EXCEPT !.cells = s.cells + cells],
                [starts |-> <<0>>, cells |-> 0],
                [i \in 1..LineLen(l) |-> i]).starts

RowsOfLine(l, width, wrap) ==
  LET starts == IF wrap THEN Segments(l, width) ELSE <<0>>
  IN [i \in DOMAIN starts |->
        [line |-> l, from |-> starts[i],
         to |-> IF i = Len(starts) THEN LineLen(l) ELSE starts[i + 1]]]

\* build_row_layout: the rows of a pane, fewer than its height at the end of the text.
RowLayout(top, h, width, wrap) ==
  LET lines == [i \in 1..Less(Len(Text), top) |-> RowsOfLine(top + i - 1, width, wrap)]
      rows == FlattenSeq(lines)
  IN SubSeq(rows, 1, Min({h, Len(rows)}))

Rows(i) ==
  RowLayout(windows[i].top, Panes[i].h, Less(Panes[i].w, Gutter), shell.wrap)

\* locate_in_layout: the row a position is on; the end of a row is the next row's start.
Locate(rows, head) ==
  SelectInSeq([i \in DOMAIN rows |-> i],
    LAMBDA i :
      LET row == rows[i]
          last == i = Len(rows) \/ rows[i + 1].line # row.line
      IN /\ row.line = head[1]
         /\ head[2] >= row.from
         /\ IF last THEN head[2] <= row.to ELSE head[2] < row.to)

-----------------------------------------------------------------------------
(* The cursor and the mouse. *)

OnScreen(col, row) == <<Min({col, Less(size[1], 1)}), Min({row, Less(size[2], 3)})>>

\* cursor_screen_pos, for a text that is neither a table nor a preview: where the
\* terminal's cursor is put.
CursorScreenPos ==
  LET w == windows[focused]
      r == Panes[focused]
      rows == Rows(focused)
      at == Locate(rows, w.head)
  IN IF shell.wrap /\ at # 0
     THEN OnScreen(r.x + CellsOf(Chars(w.head[1], rows[at].from, w.head[2])) + Gutter,
                   r.y + at - 1)
     ELSE OnScreen(r.x + CountedOf(Chars(w.head[1], 0, w.head[2])) + Gutter,
                   r.y + Less(w.head[1], w.top))

\* render_with_highlights: the cells where a position's character, or the end of its
\* line, comes to be drawn; none when it is not.
PaintedAt(i, head) ==
  LET r == Panes[i]
      rows == Rows(i)
  IN {<<r.x + Gutter + CellsOf(Chars(head[1], rows[k].from, head[2])), r.y + k - 1>> :
        k \in {k \in DOMAIN rows : /\ rows[k].line = head[1]
                                   /\ head[2] >= rows[k].from
                                   /\ \/ head[2] < rows[k].to
                                      \/ head[2] = LineLen(head[1]) /\ rows[k].to = head[2]}}

\* The panes a click is looked up in (handle_mouse_event).
ClickPanesUntabbed(s) ==  \* a mutant: the tabline is forgotten
  Rects(dirs, Area([s EXCEPT !.tabs = FALSE], size))
ClickPanes(s) == Rects(dirs, Area(s, size))

Inside(cell, r) ==
  /\ cell[1] >= r.x /\ cell[1] < r.x + r.w
  /\ cell[2] >= r.y /\ cell[2] < r.y + r.h

\* A position is never past the last character of the text.
Clamped(pos) ==
  LET last == Len(Text) - 1
  IN IF pos # <<last, LineLen(last)>> THEN pos
     ELSE IF LineLen(last) > 0 THEN <<last, LineLen(last) - 1>>
     ELSE IF last > 0 THEN <<last - 1, LineLen(last - 1)>> ELSE pos

\* What a click on a cell does: the window it focuses, 0 for none, and its cursor.
Clicked(cell) ==
  LET panes == ClickPanes(shell)
      i == SelectInSeq(panes, LAMBDA r : Inside(cell, r))
      r == panes[i]
      line == windows[i].top + cell[2] - r.y
  IN [window |-> i,
      head |-> IF i = 0 THEN <<0, 0>>
               ELSE IF line >= Len(Text) THEN windows[i].head
               ELSE Clamped(<<line, Min({Less(cell[1], r.x + Gutter), LineLen(line)})>>)]

-----------------------------------------------------------------------------
Init ==
  /\ terminal \in Sizes
  /\ size = terminal
  /\ shell = [sidebar |-> 0, panel |-> FALSE, tabs |-> FALSE, wrap |-> FALSE]
  /\ dirs = <<>>
  /\ windows = <<[head |-> <<0, 0>>, top |-> 0, off |-> Min(Scrolloffs)]>>
  /\ focused = 1

\* An event leaves these; render_frame then scrolls every window to its cursor, for
\* the size the backend took when it was made: nothing calls update_size.
Frame(s, ds, ws) ==
  /\ shell' = s
  /\ dirs' = ds
  /\ LET panes == Rects(ds, Area(s, size))
     IN windows' = [i \in DOMAIN ws |-> [ws[i] EXCEPT !.top = ScrollTo(ws[i], panes[i].h)]]
  /\ UNCHANGED size

\* A motion or an edit puts the cursor anywhere in the text.
Move ==
  /\ \E pos \in Positions : Frame(shell, dirs, [windows EXCEPT ![focused].head = pos])
  /\ UNCHANGED <<terminal, focused>>

Click ==
  /\ \E i \in DOMAIN windows : \E dx \in {0, Gutter + 1}, dy \in {0, Less(Panes[i].h, 1)} :
       LET hit == Clicked(<<Panes[i].x + dx, Panes[i].y + dy>>)
       IN /\ hit.window # 0
          /\ Frame(shell, dirs, [windows EXCEPT ![hit.window].head = hit.head])
          /\ focused' = hit.window
  /\ UNCHANGED terminal

\* The wheel scrolls; the frame brings the cursor's line back.
Wheel ==
  /\ LET top == windows[focused].top
     IN \E to \in {top + 3, Less(top, 3)} :
          Frame(shell, dirs, [windows EXCEPT ![focused].top = to])
  /\ UNCHANGED <<terminal, focused>>

\* :zz, by the height of the whole screen.
Center ==
  /\ Frame(shell, dirs, [windows EXCEPT ![focused].top =
                           Less(windows[focused].head[1], Less(terminal[2], 2) \div 2)])
  /\ UNCHANGED <<terminal, focused>>

\* :set scrolloff=n, :set wrap, :set nowrap
Set ==
  /\ \/ \E n \in Scrolloffs : Frame(shell, dirs, [windows EXCEPT ![focused].off = n])
     \/ \E b \in BOOLEAN : Frame([shell EXCEPT !.wrap = b], dirs, windows)
  /\ UNCHANGED <<terminal, focused>>

\* The sidebar, the agent panel and the tabs of several documents come and go.
Chrome ==
  /\ \E c \in Chromes :
       Frame([shell EXCEPT !.sidebar = c[1], !.panel = c[2], !.tabs = c[3]], dirs, windows)
  /\ UNCHANGED <<terminal, focused>>

Split ==
  /\ Len(windows) < MaxWindows
  /\ \E dir \in {"below", "right"} :
       Frame(shell, Append(dirs, dir),
             Append(windows, [head |-> <<0, 0>>, top |-> 0, off |-> Min(Scrolloffs)]))
  /\ UNCHANGED <<terminal, focused>>

FocusNext ==
  /\ focused' = IF focused = Len(windows) THEN 1 ELSE focused + 1
  /\ Frame(shell, dirs, windows)
  /\ UNCHANGED terminal

\* Event::Resize: the compositor's grid takes the new size.
Resize ==
  /\ terminal' \in Sizes
  /\ Frame(shell, dirs, windows)
  /\ UNCHANGED focused

Next ==
  \/ Move \/ Click \/ Wheel \/ Center \/ Set \/ Chrome \/ Split \/ FocusNext \/ Resize

Spec == Init /\ [][Next]_vars

-----------------------------------------------------------------------------

Untabbed(pos) == \A i \in 1..pos[2] : Text[pos[1] + 1][i] # "t"
Narrow(pos) == \A i \in 1..pos[2] : Text[pos[1] + 1][i] = "n"

\* Scrolling, row layout and cursor agree in every pane, after any event: without
\* wrapping the focused window's cursor is on a row of its pane, and wherever the
\* renderer draws the cursor's character, there the terminal's cursor is, unless a tab
\* precedes it or the pane ends before it.
CursorIsOnItsCharacter ==
  LET head == windows[focused].head
      r == Panes[focused]
      shown == {cell \in PaintedAt(focused, head) : Inside(cell, r)}
  IN /\ ~shell.wrap /\ r.h > 0 => PaintedAt(focused, head) # {}
     /\ Untabbed(head) /\ shown # {} => shown = {CursorScreenPos}

\* The panes, the scrolling and the columns are worked out twice, to draw and to take
\* a click ("so clicks map to the right cell"): without wrapping, a click on the cell
\* of a cursor among narrow characters finds that cursor, in every window.
ClicksFindTheCursor ==
  ~shell.wrap =>
    \A i \in DOMAIN windows :
      LET head == windows[i].head
      IN Narrow(head) /\ Clamped(head) = head =>
           \A cell \in PaintedAt(i, head) :
             Inside(cell, Panes[i]) => Clicked(cell) = [window |-> i, head |-> head]

\* "resize redraws correctly": the frame is laid out for the terminal as it is.
FrameFitsTheTerminal == Area(shell, size) = Area(shell, terminal)
=============================================================================
