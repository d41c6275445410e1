------------------------------ MODULE MCScreen ------------------------------
(***************************************************************************)
(* What is on the screen, for TLC: the highlights a worker computes        *)
(* (SyntaxWorker), the windows and their terminals (WindowLayout), the     *)
(* overlays that take the keys (Shell), where a frame shows text and       *)
(* cursor (View), how it gets to the terminal (Painting) and the table     *)
(* view of CSV (TableView).  A behaviour is of one of them, the part; the  *)
(* others rest.                                                            *)
(***************************************************************************)
EXTENDS WindowLayout, Shell

CONSTANTS Parts,                               \* the parts looked at
          QueueSize, Lengths, MaxRevs,         \* of SyntaxWorker
          Scrolloffs, MaxPanesShown,           \* of View, TableView
          Height, MaxEdits                     \* of TableView

VARIABLES part,
          text, lastLen, queue, worker, shown, accepted,
          terminal, size, shell, dirs, views, view,
          lines, overlay, current, previous, screen, whole,
          table, dialect, widths, on, head, top, off, edits

syntaxVars == <<text, lastLen, queue, worker, shown, accepted>>
viewVars == <<terminal, size, shell, dirs, views, view>>
paintVars == <<lines, overlay, current, previous, screen, whole>>
tableVars == <<table, dialect, widths, on, head, top, off, edits>>
screenVars == <<part, vars, syntaxVars, shellVars, viewVars, paintVars, tableVars>>

\* A tab, an empty line, and a line of characters two cells wide.
MCText == <<<<"n", "t">>, <<>>, <<"w", "w", "w">>>>
MCSizes == {<<60, 6>>, <<40, 8>>}
MCChromes == {<<0, FALSE, FALSE>>, <<30, TRUE, TRUE>>}
\* Rows with wide characters before, at and over the edge of the pane.
MCRows == {<<>>, <<"a">>, <<"W">>, <<"a", "W">>, <<"W", "b">>, <<"W", "W">>,
           <<"a", "a", "a", "W">>}
\* A table with a quoted delimiter and a number, and one of another dialect.
MCTables == {<<<<"a">>, <<"q", "a", ",", "q">>, <<"1", ",", "a">>>>, <<<<"a", ";", "a">>, <<>>>>}

Sy == INSTANCE SyntaxWorker
Vi == INSTANCE View WITH windows <- views, focused <- view, MaxWindows <- MaxPanesShown,
                         Text <- MCText, Sizes <- MCSizes, Chromes <- MCChromes
Pa == INSTANCE Painting WITH text <- lines, Texts <- MCRows,
                             Columns <- 5, Rows <- 2, From <- 1, To <- 2
Ta == INSTANCE TableView WITH text <- table, Tables <- MCTables, Delimiters <- <<",", ";">>

\* A worker with nothing left to do.
Rested ==
  /\ text = [rev |-> 0, len |-> CHOOSE n \in Lengths : TRUE]
  /\ lastLen = -1
  /\ queue = <<>>
  /\ worker = Sy!Idle
  /\ shown = 0
  /\ accepted = 0

ScreenInit ==
  /\ part \in Parts
  /\ IF part = "syntax" THEN Sy!Init ELSE Rested
  /\ Init /\ ShellInit /\ Vi!Init /\ Pa!Init /\ Ta!Init
  /\ part # "view" => terminal = CHOOSE s \in MCSizes : TRUE
  /\ part # "table" => table = (CHOOSE t \in MCTables : TRUE) /\ off = 0

ScreenNext ==
  \/ /\ part = "syntax" /\ (Sy!EditorStep \/ Sy!WorkerStep)
     /\ UNCHANGED <<part, vars, shellVars, viewVars, paintVars, tableVars>>
  \/ /\ part = "layout" /\ Next
     /\ UNCHANGED <<part, syntaxVars, shellVars, viewVars, paintVars, tableVars>>
  \/ /\ part = "shell" /\ ShellNext
     /\ UNCHANGED <<part, vars, syntaxVars, viewVars, paintVars, tableVars>>
  \/ /\ part = "view" /\ Vi!Next
     /\ UNCHANGED <<part, vars, syntaxVars, shellVars, paintVars, tableVars>>
  \/ /\ part = "painting" /\ Pa!Next
     /\ UNCHANGED <<part, vars, syntaxVars, shellVars, viewVars, tableVars>>
  \/ /\ part = "table" /\ Ta!Next
     /\ UNCHANGED <<part, vars, syntaxVars, shellVars, viewVars, paintVars>>

ScreenSpec == ScreenInit /\ [][ScreenNext]_screenVars /\ WF_syntaxVars(Sy!WorkerStep)

-----------------------------------------------------------------------------
\* KeysReachTheFocusedPane stands in WindowLayout (handle_terminal_key), EscLeadsHome and
\* ListsMeanWhatTheyShow in Shell (handle_key, handle_picker_key); what the others say
\* stands in their modules.
\* The highlights end up those of the last request taken (worker_task).
LastAcceptedIsShown == Sy!LastAcceptedIsShown
\* The terminal's cursor is where its character is drawn (cursor_screen_pos).
CursorIsOnItsCharacter == part = "view" => Vi!CursorIsOnItsCharacter
\* A click on a cursor's cell finds that cursor (handle_mouse_event).
ClicksFindTheCursor == part = "view" => Vi!ClicksFindTheCursor
\* The frame is laid out for the terminal as it is (Event::Resize).
FrameFitsTheTerminal == Vi!FrameFitsTheTerminal
\* The terminal shows the grid (Grid::diff, draw_cells).
ScreenShowsTheFrame == part = "painting" => Pa!ScreenShowsTheFrame
\* The cursor is on its cell of the table (table_cell_screen_col).
TableCursorIsOnItsCell == part = "table" => Ta!TableCursorIsOnItsCell
=============================================================================
