------------------------------ MODULE MCStores ------------------------------
(***************************************************************************)
(* What the editor keeps outside its buffers, for TLC: files, sessions and *)
(* undo trees (Files), plugins (Plugins), the file tree (Explorer), the    *)
(* repository (SourceControl) and the proposals of an agent (AgentReview). *)
(* A behaviour is of one of them, the part; the others rest.               *)
(***************************************************************************)
EXTENDS Files, Plugins, SourceControl, Explorer

CONSTANTS Lines, MaxLen, MaxWrites  \* of AgentReview

VARIABLES part,
          contents, missing, staging, review, writes, edited

reviewVars == <<contents, missing, staging, review, writes, edited>>
storeVars == <<part, vars, reviewVars, pluginVars, treeVars, gitVars>>

Package(name, entry, write, fs) ==
  [name |-> name, manifest |-> TRUE, entry |-> entry, write |-> write, fs |-> fs]

\* One plugin in two versions, of which one writes; another that asks for a directory
\* outside the project; packages without a component or with a manifest that does not
\* parse.
MCPackages ==
  {Package("blame", TRUE, TRUE, <<"data">>),
   Package("blame", TRUE, FALSE, <<".">>),
   Package("todo", TRUE, TRUE, <<"..", "other">>),
   Package("todo", FALSE, FALSE, <<>>),
   [Package("blame", TRUE, FALSE, <<>>) EXCEPT !.manifest = FALSE]}

Re == INSTANCE AgentReview WITH text <- contents, edits <- edited

StoresInit ==
  /\ part \in {"files", "plugins", "tree", "git", "review"}
  /\ Init /\ Re!Init /\ PluginsInit /\ TreeInit /\ GitInit
  /\ part # "files" => disk = [p \in Paths |-> 0]
  /\ part # "review" => missing = Re!ReviewPaths
  /\ part # "git" => repo = [f \in Tracked |-> Clean]

StoresNext ==
  \/ part = "files" /\ Next /\ UNCHANGED <<part, reviewVars, pluginVars, treeVars, gitVars>>
  \/ part = "plugins" /\ PluginsNext /\ UNCHANGED <<part, vars, reviewVars, treeVars, gitVars>>
  \/ part = "tree" /\ TreeNext /\ UNCHANGED <<part, vars, reviewVars, pluginVars, gitVars>>
  \/ part = "git" /\ GitNext /\ UNCHANGED <<part, vars, reviewVars, pluginVars, treeVars>>
  \/ part = "review" /\ Re!Next /\ UNCHANGED <<part, vars, pluginVars, treeVars, gitVars>>

StoresSpec == StoresInit /\ [][StoresNext]_storeVars

-----------------------------------------------------------------------------
\* FilesAreWhole, UndoFitsTheText and UnsavedIsAskedFor stand in Files (Document::save_to,
\* maybe_load_persistent_undo, :q, :wq, :wqa), StoreIsSound and EditsHitTheirTarget in
\* Plugins (install, remove, apply_plugin_calls), PanelShowsTheRepository in SourceControl
\* (scm_run_then_refresh), OnlyTheNamedIsTouched in Explorer (commit_prompt, rename_entry);
\* what the others say stands in their modules.
\* A clean merge has both edits, the agent's and the user's (StagingArea::resolve).
MergeHasBothEdits == part = "review" => Re!MergeHasBothEdits
\* A review applies what was accepted (review_apply).
ReviewDecides == Re!ReviewDecides

\* A file of three lines and one of a single line.
MCMaxLen == <<3, 1>>
=============================================================================
