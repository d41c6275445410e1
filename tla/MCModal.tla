------------------------------ MODULE MCModal ------------------------------
(***************************************************************************)
(* Keys, TextCommands and Editor for TLC.  A behaviour is of one of them.  *)
(* The keyboards are for the dot, for macros, for what a key awaits and    *)
(* for jumps; the texts are every short one of letters, white space,       *)
(* points and newlines, and of brackets, quotes and letters; the editor    *)
(* has one window, over one or two buffers.                                *)
(***************************************************************************)
EXTENDS Keys, Editor

CONSTANTS MaxLen, MaxSteps, Short

VARIABLES side, text, head, reg, regex, outcome, steps

textVars == <<text, head, reg, regex, outcome, steps>>

MCKeyboards == {{"x", "d", "w", "i", "Esc", "2", "."},
                {"c", "h", "w", "x", "Esc", "."},
                {"q", "a", "@", "x", "Esc", "."},
                {"v", "r", "i", "w", "d", "g", "q"},
                {"m", "a", "tick", "G", "^o", "^i", "x"}}
MCTexts == SeqOf({"a", ".", "sp", "nl"}, 3) \cup SeqOf({"(", ")", "q"}, 3)
             \cup SeqOf({"(", ")"}, 4) \cup SeqOf({"a", "nl"}, 4)

\* One file, and all of the editor but a second window.
MCFiles == {<<1>>}
MCFeatures == {"buffers", "mouse", "lsp", "plugin", "substitute"}

Te == INSTANCE TextCommands
        WITH status <- outcome, Texts <- MCTexts, WordChars <- {"a", "A"}, Spaces <- {"sp", "nl"},
             NL <- "nl", SPACE <- "sp", Pairs <- {<<"(", ")">>}, Quotes <- {"q"},
             Counts <- {1, 2}, Typed <- {"a"}, Replacements <- {<<>>, <<"a">>, <<"nl">>},
             TabWidth <- 1, UpperOf <- [c \in {"a"} |-> "A"]

ModalInit ==
  /\ side \in {"keys", "text", "editor"}
  /\ KeysInit /\ Te!Init /\ EditorInit
  /\ side # "keys" => keyboard = CHOOSE k \in Keyboards : TRUE
  /\ side # "text" => text = <<>>

ModalNext ==
  \/ side = "keys" /\ KeysNext /\ UNCHANGED <<side, textVars, editorVars>>
  \/ side = "text" /\ Te!Next /\ UNCHANGED <<side, keysVars, editorVars>>
  \/ side = "editor" /\ EditorNext /\ UNCHANGED <<side, keysVars, textVars>>

ModalSpec == ModalInit /\ [][ModalNext]_<<side, keysVars, textVars, editorVars>>

\* The state but for the editor's history that no property here reads.
MCModalView ==
  <<side, keysVars, textVars, docs, windows, focus, mode, status, edits, run>>

-----------------------------------------------------------------------------
\* DotRepeatsTheChange and MacroIsWhatWasTyped stand in Keys (dot_feed, finalize_dot,
\* record_key, discard_last_recorded_key), InsertRunIsOneStep in Editor (begin_group).

\* The properties of TextCommands and Motions.
\* What d takes, p gives back (delete, paste_after, paste_before).
DeletionCanBePasted == side = "text" => Te!DeletionCanBePasted
\* A count is the motion done that often, and delimiters pair up (Motion::apply).
MotionsCompose == side = "text" => Te!MotionsCompose
\* :g substitutes on each line that had a match (run_global_command).
GlobalEditsEachLine == side = "text" => Te!GlobalEditsEachLine
=============================================================================
