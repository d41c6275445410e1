---------------------------- MODULE WindowLayout ----------------------------
(***************************************************************************)
(* Where the windows of the editor are: App::windows, a vector; the layout *)
(* tree of crates/onda-render/src/split.rs, whose leaves are window ids;   *)
(* App::focused_window; and the terminal panes windows show.  The editor   *)
(* uses ids as places in the vector: an id that is not the place of its    *)
(* window is not an error anywhere, until it is past the end.              *)
(*                                                                         *)
(* Only the order of the leaves matters to what follows, so a layout is    *)
(* the sequence of its leaves: a split puts its leaf after all others.     *)
(* Ids and places count from 0.  What no key and no ex command is bound to *)
(* (CloseWindow, OnlyWindow, FocusWindowPrev) is left out.                 *)
(***************************************************************************)
EXTENDS Integers, Sequences, SequencesExt

CONSTANTS MaxWindows,  \* bound on the windows
          MaxPanes,    \* bound on the terminals opened
          MaxIds       \* bound on the window ids given

VARIABLES windows,   \* App::windows: the pane each was opened for, 0 for a text
          layout,    \* the leaves of App::layout
          focused,   \* App::focused_window
          nextId,    \* App::next_window_id
          paneOf,    \* App::window_to_pane
          live,      \* App::terminal_panes
          opened,    \* App::next_pane_id, the number of panes opened
          mode,      \* normal, or terminal: keys go to a pane
          status,    \* running or crashed
          restored   \* history: a session was restored

vars == <<windows, layout, focused, nextId, paneOf, live, opened, mode, status, restored>>

Init ==
  /\ windows = <<0>>
  /\ layout = <<0>>
  /\ focused = 0
  /\ nextId = 1
  /\ paneOf = [id \in {} |-> 0]
  /\ live = {}
  /\ opened = 0
  /\ mode = "normal"
  /\ status = "running"
  /\ restored = FALSE

Running == status = "running"
Normal == Running /\ mode = "normal"
IsWindow(i) == i < Len(windows)

\* Every event ends in render_frame, which looks the focused window up.
Frame == status' = IF focused' < Len(windows') THEN "running" ELSE "crashed"

-----------------------------------------------------------------------------

\* A new window, for a pane or a text, and its leaf.
AddWindow(pane) ==
  /\ Len(windows) < MaxWindows
  /\ nextId < MaxIds
  /\ windows' = Append(windows, pane)
  /\ layout' = Append(layout, nextId)
  /\ nextId' = nextId + 1

\* :split and :vsplit leave the focus where it is.
Split ==
  /\ Normal
  /\ AddWindow(0)
  /\ UNCHANGED <<focused, paneOf, live, opened, mode, restored>>
  /\ Frame

OpenTerminalUnfocused ==  \* a mutant: the terminal's window is not focused
  /\ Normal
  /\ opened < MaxPanes
  /\ opened' = opened + 1
  /\ AddWindow(opened')
  /\ live' = live \cup {opened'}
  /\ paneOf' = [id \in DOMAIN paneOf \cup {focused} |->
                  IF id = focused THEN opened' ELSE paneOf[id]]
  /\ mode' = "terminal"
  /\ UNCHANGED <<focused, restored>>
  /\ Frame

\* :terminal opens a pane, a window for it, and goes there.
OpenTerminal ==
  /\ Normal
  /\ opened < MaxPanes
  /\ opened' = opened + 1
  /\ AddWindow(opened')
  /\ live' = live \cup {opened'}
  /\ paneOf' = [id \in DOMAIN paneOf \cup {nextId} |->
                  IF id = nextId THEN opened' ELSE paneOf[id]]
  /\ focused' = nextId
  /\ mode' = "terminal"
  /\ UNCHANGED restored
  /\ Frame

\* cycle_next: the leaf after the focused window's, the first if it has none.
Next1(i) == IF i = Len(layout) THEN 1 ELSE i + 1
CycleNext(id) ==
  IF id \notin ToSet(layout) THEN Head(layout)
  ELSE layout[Next1(SelectInSeq(layout, LAMBDA leaf : leaf = id))]

FocusNext ==
  /\ Normal
  /\ focused' = CycleNext(focused)
  /\ UNCHANGED <<windows, layout, nextId, paneOf, live, opened, mode, restored>>
  /\ Frame

\* A click on a leaf focuses the window at its place, whatever the mode.
Click ==
  /\ Running
  /\ \E id \in ToSet(layout) : IsWindow(id) /\ focused' = id
  /\ UNCHANGED <<windows, layout, nextId, paneOf, live, opened, mode, restored>>
  /\ Frame

\* :session restore puts the windows of a saved session, none of them a terminal, in
\* place of all others, under a layout of one leaf; the panes and the ids go on.
RestoreSession ==
  /\ Normal
  /\ \E n \in 1..MaxWindows :
       /\ windows' = [i \in 1..n |-> 0]
       /\ focused' \in 0..(n - 1)
  /\ layout' = <<0>>
  /\ restored' = TRUE
  /\ UNCHANGED <<nextId, paneOf, live, opened, mode>>
  /\ Frame

\* Ctrl-n gives the keys back to the editor.
LeaveTerminal ==
  /\ Running
  /\ mode = "terminal"
  /\ mode' = "normal"
  /\ UNCHANGED <<windows, layout, focused, nextId, paneOf, live, opened, restored>>
  /\ Frame

\* The process of a pane ends.
PtyExited ==
  /\ Running
  /\ \E p \in live : live' = live \ {p}
  /\ mode' = "normal"
  /\ UNCHANGED <<windows, layout, focused, nextId, paneOf, opened, restored>>
  /\ Frame

Next ==
  \/ Split \/ OpenTerminal \/ FocusNext \/ Click \/ RestoreSession
  \/ LeaveTerminal \/ PtyExited

Spec == Init /\ [][Next]_vars

-----------------------------------------------------------------------------
\* The pane the keys of terminal mode go to, 0 for none (handle_terminal_key).
KeysGoTo ==
  IF focused \in DOMAIN paneOf /\ paneOf[focused] \in live THEN paneOf[focused] ELSE 0

\* Keys of terminal mode reach the pane of the focused window or none, until a
\* session is restored, however often terminals come, go and are clicked away from.
KeysReachTheFocusedPane ==
  ~restored /\ mode = "terminal" => KeysGoTo \in {0, windows[focused + 1]}
=============================================================================
