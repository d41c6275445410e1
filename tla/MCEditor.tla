------------------------------ MODULE MCEditor ------------------------------
(***************************************************************************)
(* Editor over files of one or two characters and two inks, with different *)
(* parts of the editor in use.                                             *)
(***************************************************************************)
EXTENDS Editor

MCFiles == {<<1>>, <<1, 2>>}
MCOneFile == {<<1>>}

MCWindows == {"split", "mouse"}
MCBuffers == {"buffers"}
MCSplit == {"split"}

\* Windows on one document, typed in and clicked, without what comes from outside.
WindowsNext ==
  \/ TypeChar \/ TypeEnter \/ Backspace \/ DeleteKey \/ Escape
  \/ EnterInsert \/ OpenLine \/ DeleteOperator \/ ChangeOperator \/ Move
  \/ UndoKey \/ RedoKey \/ OlderKey \/ NewerKey
  \/ Split \/ FocusWindow \/ Click

WindowsSpec == EditorInit /\ [][WindowsNext]_editorVars

\* The state but for the histories that only the properties of one window read.
MCView == <<docs, windows, focus, mode, status, edits>>
=============================================================================
