------------------------------- MODULE Shell -------------------------------
(***************************************************************************)
(* Who gets a key: the overlays of the editor and what opens and closes    *)
(* them (handle_event, handle_key and the key handlers it routes to, in    *)
(* crates/onda/src/main.rs; crates/onda-modal/src/picker.rs, command.rs    *)
(* and complete.rs).  Between two keys anything may arrive: answers of the *)
(* language server, which open pickers and edit texts; the end of a        *)
(* terminal; clicks, which the chrome takes before any overlay.            *)
(*                                                                         *)
(* Of a text only which document it is matters.  The command line is       *)
(* empty, typed, or what a completion wrote.                               *)
(***************************************************************************)
EXTENDS Integers, Sequences, FiniteSets, SequencesExt

CONSTANTS Docs,      \* the open documents, numbers
          Namesakes, \* those of them whose file name is the same
          MaxAsks,   \* bound on the requests to the language server
          EscBound   \* how many times Esc may be needed

\* The editor starts with a document; Esc is counted to five at least.
ASSUME ShellAssumption == Docs # {} /\ EscBound \in Nat /\ EscBound >= 5

VARIABLES ui,       \* what App keeps for the routing of keys
          answers,  \* the requests the language server has not answered
          asks,     \* number of requests sent, for the bound
          escs      \* history: how many times Esc was pressed in a row

shellVars == <<ui, answers, asks, escs>>

\* The keys that are told apart; all but the first five are characters.  In
\* normal mode e stands for a command that edits.
Keys == {"esc", "enter", "tab", "backspace", "down",
         "space", "i", ":", "/", "a", "e", "p", "s", "c", "r", "F"}
IsChar(key) == key \notin {"esc", "enter", "tab", "backspace", "down"}

NoRename == [doc |-> 0, typed |-> FALSE]
Closed == [visible |-> FALSE, kind |-> "none", items |-> <<>>, filtered |-> <<>>,
           selected |-> 1]
Typed == -1

ShellInit ==
  /\ ui = [mode |-> "normal", pending |-> FALSE, shown |-> CHOOSE d \in Docs : TRUE,
           rename |-> NoRename, picker |-> Closed, review |-> FALSE, agent |-> FALSE,
           open |-> FALSE, sidebar |-> FALSE, prompt |-> FALSE,
           line |-> 0, completion |-> 0, search |-> FALSE,
           symbols |-> <<>>, actions |-> <<>>]
  /\ answers = {}
  /\ asks = 0
  /\ escs = 0

-----------------------------------------------------------------------------
\* What a handler returns: the new state of the interface and the request it sent,
\* if any.
NoAsk == [kind |-> "none", doc |-> 0]
Result(u) == [ui |-> u, ask |-> NoAsk]
Asking(u, kind, doc) == [Result(u) EXCEPT !.ask = [kind |-> kind, doc |-> doc]]

Show(u, doc) == [u EXCEPT !.shown = doc]

OpenPicker(u, kind, items) ==
  [u EXCEPT !.picker = [visible |-> TRUE, kind |-> kind, items |-> items,
                        filtered |-> [i \in 1..Len(items) |-> i], selected |-> 1]]
Plain == <<NoAsk, NoAsk>>  \* items nothing is looked up for

\* A picker that was closed is not shown again: a new one takes its place.
\* Nor are the lists behind it read before they are replaced.
ClosePicker(u) == [u EXCEPT !.picker = Closed, !.symbols = <<>>, !.actions = <<>>]
FocusSidebar(u) == [u EXCEPT !.open = TRUE, !.sidebar = TRUE, !.pending = FALSE]

\* The ex commands that touch the routing: :agent, :agent-review, :terminal, :e.
ExCommand(u) ==
  LET n == [u EXCEPT !.mode = "normal"]
  IN  {n, [n EXCEPT !.agent = ~@], [n EXCEPT !.review = TRUE, !.agent = FALSE],
       [n EXCEPT !.mode = "terminal"]} \cup {Show(n, d) : d \in Docs}

-----------------------------------------------------------------------------
\* handle_lsp_rename_prompt_key: lsp_rename_commit asks with the path of the prompt.
RenameKey(u, key) ==
  LET left == [u EXCEPT !.rename = NoRename]
  IN  CASE key = "esc" -> {Result(left)}
        [] key = "enter" ->
             IF u.rename.typed THEN {Asking(left, "rename", u.rename.doc)}
             ELSE {Result(left)}
        [] key = "backspace" ->
             {Result([u EXCEPT !.rename.typed = t]) : t \in {FALSE, u.rename.typed}}
        [] IsChar(key) -> {Result([u EXCEPT !.rename.typed = TRUE])}
        [] OTHER -> {Result(u)}

\* Picker::refilter, for a query of at least one character: some of the
\* items, best first; without a query all of them in their order.
Refiltered(picker) == {f \in SeqOf(DOMAIN picker.items, Len(picker.items)) : IsInjective(f)}
Unfiltered(picker) == {[i \in DOMAIN picker.items |-> i]}
Filtered(u, lists) ==
  {Result([u EXCEPT !.picker.filtered = f, !.picker.selected = 1]) : f \in lists}

\* What is chosen is looked up by its row, in the list the kind says; a symbol or a code
\* action moves the cursor or edits texts, and nothing of the routing.
PickedRow(u) == u.picker.filtered[u.picker.selected]

\* The buffer picker finds a document by its file name: the first that has it.
FirstNamed(doc) ==
  IF doc \in Namesakes THEN CHOOSE d \in Namesakes : \A e \in Namesakes : d <= e ELSE doc

\* run_palette_value
PaletteResults(u) ==
  {Result(x) : x \in ExCommand(u) \cup
     {OpenPicker(u, "file", Plain), OpenPicker(u, "buffer", Plain), FocusSidebar(u)}}

Picked(u) ==
  LET row == PickedRow(u)
      c == ClosePicker(u)
  IN  CASE u.picker.kind = "file" -> {Result(Show(c, d)) : d \in Docs}
        [] u.picker.kind = "buffer" -> {Result(Show(c, FirstNamed(row)))}
        [] u.picker.kind = "command" -> PaletteResults(c)
        [] OTHER -> {Result(c)}

\* handle_picker_key: an Enter on an empty list does nothing; the letters j
\* and k move, and so cannot be typed.
PickerKey(u, key) ==
  LET n == Len(u.picker.filtered)
  IN  CASE key = "esc" -> {Result(ClosePicker(u))}
        [] key = "enter" -> IF u.picker.selected <= n THEN Picked(u) ELSE {Result(u)}
        [] key = "down" ->
             {Result([u EXCEPT !.picker.selected = IF n = 0 THEN @ ELSE (@ % n) + 1])}
        [] key = "backspace" ->
             Filtered(u, Unfiltered(u.picker)
                         \cup IF u.picker.filtered \in Unfiltered(u.picker) THEN {}
                              ELSE Refiltered(u.picker))
        [] IsChar(key) -> Filtered(u, Refiltered(u.picker))
        [] OTHER -> {Result(u)}

\* handle_review_key: Enter goes on to the next file or ends the review.
ReviewKey(u, key) ==
  CASE key = "esc" -> {Result([u EXCEPT !.review = FALSE])}
    [] key = "enter" -> {Result([u EXCEPT !.review = r]) : r \in BOOLEAN}
    [] OTHER -> {Result(u)}

\* handle_agent_input_key; other keys are not its own.
AgentTakes(key) == key \in {"esc", "enter", "backspace"} \/ IsChar(key)
AgentKey(u, key) == {Result([u EXCEPT !.agent = key # "esc"])}

PromptKeyKeeps(u, key) ==  \* a mutant: Esc is a key like another
  {[u EXCEPT !.prompt = (key # "enter")]}

\* handle_prompt_key: a delete is left by any character.
PromptKey(u, key) ==
  CASE key \in {"esc", "enter"} -> {[u EXCEPT !.prompt = FALSE]}
    [] IsChar(key) -> {[u EXCEPT !.prompt = p] : p \in BOOLEAN}
    [] OTHER -> {u}

\* handle_sidebar_key and handle_explorer_key (for q, which closes it, : here).
SidebarKey(u, key) ==
  LET results ==
        IF u.prompt THEN PromptKey(u, key)
        ELSE CASE key = "esc" -> {[u EXCEPT !.sidebar = FALSE]}
               [] key = ":" -> {[u EXCEPT !.open = FALSE, !.sidebar = FALSE]}
               [] key = "a" -> {[u EXCEPT !.prompt = TRUE]}
               [] key = "enter" -> {u} \cup {Show([u EXCEPT !.sidebar = FALSE], d) : d \in Docs}
               [] OTHER -> {u}
  IN  {Result(x) : x \in results}

\* handle_insert_key
InsertKey(u, key) ==
  {IF key = "esc" THEN Result([u EXCEPT !.mode = "normal", !.pending = FALSE])
   ELSE IF key = "tab" \/ key = "down" THEN Result(u)
   ELSE Result(u)}

\* A character or a Backspace closes the completion.
Typing(u) == [u EXCEPT !.line = Typed, !.completion = 0]

\* cmd_complete_advance: there may be nothing to complete.
Complete(u) ==
  LET next == IF u.completion = 0 THEN 1 ELSE (u.completion % 2) + 1
  IN  {[u EXCEPT !.completion = next, !.line = next]}
      \cup (IF u.completion = 0 THEN {u} ELSE {})

\* handle_command_key: the completion is left first.
CommandKey(u, key) ==
  LET left == [u EXCEPT !.mode = "normal", !.line = 0, !.search = FALSE]
  IN  {Result(x) : x \in
         CASE key = "tab" -> IF u.search THEN {u} ELSE Complete(u)
           [] key \in {"esc", "enter"} /\ u.completion # 0 -> {[u EXCEPT !.completion = 0]}
           [] key = "esc" /\ u.completion = 0 -> {left}
           [] key = "enter" /\ u.completion = 0 ->
                IF u.search THEN {left}
                ELSE ExCommand([u EXCEPT !.line = 0])
           [] key = "backspace" ->
                IF u.line = 0 THEN {[left EXCEPT !.completion = 0]}
                ELSE {Typing(u), [Typing(u) EXCEPT !.line = 0]}
           [] IsChar(key) -> {Typing(u)}
           [] OTHER -> {u}}

\* The leader sequences (ds, ca and rn are one key here).
Leader(u, key) ==
  LET n == [u EXCEPT !.pending = FALSE]
  IN  CASE key = "e" -> {Result(IF u.open THEN [n EXCEPT !.open = FALSE, !.sidebar = FALSE]
                                ELSE FocusSidebar(n))}
        [] key = "p" -> {Result(OpenPicker(n, "command", Plain))}
        [] key = "s" -> {Asking(n, "symbol", u.shown)}
        [] key = "c" -> {Asking(n, "action", u.shown)}
        [] key = "F" -> {Asking(n, "format", u.shown)}
        [] key = "r" -> {Result([n EXCEPT !.rename = [doc |-> u.shown, typed |-> FALSE]])}
        [] OTHER -> {Result(n)}

\* handle_normal_key, for the keys that leave the mode or open something.
NormalKey(u, key) ==
  LET Mode(m) == {Result([u EXCEPT !.mode = m])}
      CommandLine(s) ==
        {Result([u EXCEPT !.mode = "command", !.line = 0, !.search = s])}
  IN  IF u.pending THEN Leader(u, key)
      ELSE CASE key = "esc" -> Mode("normal")
             [] key = "space" -> {Result([u EXCEPT !.pending = TRUE])}
             [] key \in {"i", "a"} -> Mode("insert")
             [] key = ":" -> CommandLine(FALSE)
             [] key = "/" -> CommandLine(TRUE)
             [] key = "e" -> {Result(u)}
             [] OTHER -> {Result(u)}

ModeKey(u, key) ==
  CASE u.mode = "insert" -> InsertKey(u, key)
    [] u.mode = "command" -> CommandKey(u, key)
    [] OTHER -> NormalKey(u, key)

\* handle_key: the first overlay that takes the key.
SidebarTakes(u, key) ==
  u.sidebar /\ (u.prompt \/ (~u.pending /\ key # "space"))

HandleKey(u, key) ==
  CASE u.rename # NoRename -> RenameKey(u, key)
    [] u.rename = NoRename /\ u.picker.visible -> PickerKey(u, key)
    [] u.rename = NoRename /\ ~u.picker.visible /\ u.review -> ReviewKey(u, key)
    [] OTHER -> IF u.agent /\ AgentTakes(key) THEN AgentKey(u, key)
                ELSE IF SidebarTakes(u, key) THEN SidebarKey(u, key)
                ELSE ModeKey(u, key)

-----------------------------------------------------------------------------
\* handle_event: in a terminal every key but Ctrl-n goes to the process.
Key ==
  \E esc \in BOOLEAN :
    /\ escs' = IF ~esc THEN 0 ELSE IF escs < EscBound THEN escs + 1 ELSE escs
    /\ IF ui.mode = "terminal" THEN UNCHANGED <<ui, answers, asks>>
       ELSE \E result \in UNION {HandleKey(ui, key) : key \in {k \in Keys : (k = "esc") = esc}} :
              /\ ui' = result.ui
              /\ IF result.ask = NoAsk THEN UNCHANGED <<answers, asks>>
                 ELSE /\ asks < MaxAsks /\ asks' = asks + 1
                      /\ answers' = answers \cup {result.ask}

Happens(u) == ui' = u /\ escs' = 0 /\ UNCHANGED <<answers, asks>>

EndTerminalMode == ui.mode = "terminal" /\ Happens([ui EXCEPT !.mode = "normal"])

\* handle_shell_click, before any overlay; and what comes through bg_rx.
ClickTab == \E doc \in Docs : doc # ui.shown /\ Happens(Show(ui, doc))
ClickSidebar == ui.open /\ Happens([ui EXCEPT !.sidebar = TRUE, !.pending = FALSE])
DebuggerStops == ~ui.open /\ Happens([ui EXCEPT !.open = TRUE])
PluginPicks == ~ui.picker.visible /\ Happens(OpenPicker(ui, "plugin", Plain))

SymbolsStoredFirst(a, list) ==  \* a mutant: an empty answer empties the list too
  [(IF list = <<>> THEN ui ELSE OpenPicker(ui, "symbol", list)) EXCEPT !.symbols = list]

\* handle_lsp_event, SymbolResult and CodeActionResult.
SymbolsArrive(a, list) ==
  IF list = <<>> THEN ui ELSE [OpenPicker(ui, "symbol", list) EXCEPT !.symbols = list]
ActionsArrive(a, list) ==
  IF list = <<>> THEN ui ELSE [OpenPicker(ui, "action", list) EXCEPT !.actions = list]

\* An empty answer opens nothing, an answer to format or rename edits texts.
Answer ==
  \E a \in answers :
    /\ answers' = answers \ {a}
    /\ escs' = 0 /\ UNCHANGED asks
    /\ \E list \in {<<>>, <<a, a>>} :
         ui' = CASE a.kind = "symbol" -> SymbolsArrive(a, list)
                 [] a.kind = "action" -> ActionsArrive(a, list)
                 [] OTHER -> ui

ShellNext == Key \/ EndTerminalMode \/ ClickTab \/ ClickSidebar \/ DebuggerStops \/ PluginPicks \/ Answer

ShellSpec == ShellInit /\ [][ShellNext]_shellVars

-----------------------------------------------------------------------------
Overlaid == ui.rename # NoRename \/ ui.picker.visible \/ ui.review \/ ui.agent

\* Outside a terminal, Esc pressed often enough and nothing else leads to
\* normal mode with nothing open over the text (every handler's Key::Esc arm).
EscLeadsHome ==
  escs = EscBound /\ ui.mode # "terminal" =>
    /\ ui.mode = "normal" /\ ~ui.pending /\ ~Overlaid
    /\ ~ui.sidebar /\ ~ui.prompt /\ ui.completion = 0

\* A row of the symbols or of the code actions stands for what it shows
\* (handle_lsp_event, handle_picker_key), and the popup of the completion for
\* what is in the command line (cmd_complete_advance).
ListsMeanWhatTheyShow ==
  /\ ui.picker.visible /\ ui.picker.kind = "symbol" => ui.picker.items = ui.symbols
  /\ ui.picker.visible /\ ui.picker.kind = "action" => ui.picker.items = ui.actions
  /\ ui.completion # 0 => ui.mode = "command" /\ ~ui.search /\ ui.line = ui.completion
=============================================================================
