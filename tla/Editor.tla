------------------------------- MODULE Editor -------------------------------
(***************************************************************************)
(* The editor proper (crates/onda/src/main.rs): documents, the windows     *)
(* that show them, one undo tree per window, and the edits that reach a    *)
(* document: typing, operators, undo and redo in the focused window, and   *)
(* the language server and plugins from outside.  Documents and undo trees *)
(* are those of ChangeSet and UndoOps.                                     *)
(*                                                                         *)
(* One step is one key, click, ex command or background message; the       *)
(* event loop runs each to its end.  Lines are abstracted: where a command *)
(* depends on a line's bounds, any bounds around the cursor are possible.  *)
(***************************************************************************)
EXTENDS ChangeSet, UndoOps

CONSTANTS Files,     \* texts of the files that can be opened
          Ink,       \* characters that can be typed
          MaxText,   \* bound on the length of a document
          MaxEdits,  \* bound on the transactions applied outside undo and redo
          MaxRuns,   \* bound on the groups begun in a window's tree
          MaxOpen,   \* bound on the documents and the windows together
          Features   \* the parts of the editor in use besides one window's keys

ASSUME FeaturesAssumption ==
  Features \subseteq {"split", "mouse", "buffers", "lsp", "plugin", "substitute"}

\* A file is read into a text, a sequence of its characters.
ASSUME FilesAssumption == \A file \in Files : file \in Seq({file[i] : i \in 1..Len(file)})

VARIABLES docs,     \* App::docs, the texts
          windows,  \* App::windows
          focus,    \* App::focused_window, from 1
          mode,     \* normal or insert
          status,   \* running or crashed
          edits,    \* transactions applied so far
          had,      \* history: the texts each document has had
          run       \* history: the last insert-mode run

editorVars == <<docs, windows, focus, mode, status, edits, had, run>>

\* seen and foreign are history: the texts the window's tree was built on, and
\* whether its document changed, or was changed for another, behind the tree's back.
NewWindow(d, text) ==
  [doc |-> d, head |-> 0, undo |-> EmptyTree, seen |-> <<text>>, foreign |-> FALSE]

NoRun == [kind |-> "none", start |-> <<>>, from |-> Root, phase |-> "gone"]

EditorInit ==
  \E text \in Files :
    /\ docs = <<text>>
    /\ windows = <<NewWindow(1, text)>>
    /\ focus = 1
    /\ mode = "normal"
    /\ status = "running"
    /\ edits = 0
    /\ had = <<{text}>>
    /\ run = NoRun

W == windows[focus]
Text == docs[W.doc]
Min2(a, b) == IF a < b THEN a ELSE b

\* Replace the n characters of a text of length len at from by s.
Splice(len, from, n, s) ==
  Build(PushRetain(PushInsert(PushDelete(PushRetain(Identity(len), from), n), s), len - from - n))

\* How much text :s, the server and plugins replace at a time.
Cuts == {0, 1}

-----------------------------------------------------------------------------
\* The window w after its document became text without its tree being told.
Disturbed(w, text) ==
  IF w.undo.nodes = <<>> THEN [w EXCEPT !.seen = <<text>>] ELSE [w EXCEPT !.foreign = TRUE]

\* All windows, the focused one being w, after document d became text.
WindowsAfter(w, d, text) ==
  [i \in DOMAIN windows |->
     IF i = focus THEN w
     ELSE IF windows[i].doc = d /\ text # docs[d] THEN Disturbed(windows[i], text)
     ELSE windows[i]]

Store(d, text) ==
  /\ docs' = [docs EXCEPT ![d] = text]
  /\ had' = [had EXCEPT ![d] = @ \cup {text}]

Crash ==
  /\ status' = "crashed"
  /\ UNCHANGED <<docs, windows, focus, mode, had>>

Running == status = "running"
RunIs(phase) == run' = [run EXCEPT !.phase = phase]

CanEdit(cs) ==
  /\ edits < MaxEdits
  /\ cs.after <= MaxText
  /\ edits' = edits + 1

Grouped(t, opens) == IF opens THEN BeginGroup(t) ELSE t

\* Apply cs to the focused document, put the cursor at head, push the transaction
\* and begin a group when opens is TRUE.
PushEdit(cs, head, opens) ==
  LET done == DocApply(cs, Text)
  IN  /\ CanEdit(cs)
      /\ IF done.status # "ok" THEN Crash
         ELSE /\ Store(W.doc, done.rope)
              /\ windows' = WindowsAfter(
                   [W EXCEPT !.head = head,
                             !.undo = Grouped(Push(@, cs, done.inverse, W.head, head), opens),
                             !.seen = Append(@, done.rope)],
                   W.doc, done.rope)
              /\ UNCHANGED <<focus, status>>

\* A position past the end of the document makes len - pos overflow.
Stale == W.head > Len(Text)

GroupsLeft == W.undo.group # 0 \/ W.undo.nextGroup <= MaxRuns

-----------------------------------------------------------------------------
\* Insert mode: handle_insert_key.
Typing == Running /\ mode = "insert" /\ GroupsLeft /\ UNCHANGED <<mode, run>>

InsertText(opens) ==
  /\ Typing
  /\ \/ Stale /\ Crash /\ UNCHANGED edits
     \/ /\ ~Stale
        /\ \E c \in Ink : PushEdit(Splice(Len(Text), W.head, 0, <<c>>), W.head + 1, opens)

TypeChar == InsertText(TRUE)
TypeEnter == InsertText(FALSE)

\* The range before the cursor, cut to the document; nothing to do when empty.
Backspace ==
  /\ Typing
  /\ W.head > 0
  /\ W.head - 1 < Len(Text)
  /\ PushEdit(Splice(Len(Text), W.head - 1, 1, <<>>), W.head - 1, TRUE)

DeleteKey ==
  /\ Typing
  /\ W.head < Len(Text)
  /\ PushEdit(Splice(Len(Text), W.head, 1, <<>>), W.head, TRUE)

\* Esc steps left unless the cursor is at the start of its line.
Escape ==
  /\ Running
  /\ mode = "insert"
  /\ mode' = "normal"
  /\ \E head \in {W.head, W.head - 1} \cap Nat :
       windows' = [windows EXCEPT ![focus].head = head, ![focus].undo = EndGroup(@)]
  /\ RunIs(IF run.phase = "on" THEN "over" ELSE "gone")
  /\ UNCHANGED <<docs, focus, status, edits, had>>

-----------------------------------------------------------------------------
\* Normal mode: execute_action.
Normal == Running /\ mode = "normal"

StartRun(kind) ==
  /\ GroupsLeft
  /\ mode' = "insert"
  /\ run' = [kind |-> kind, start |-> Text, from |-> W.undo.current, phase |-> "on"]

EnterInsertUngrouped ==  \* a mutant: the group is left to the first character
  /\ Normal
  /\ StartRun("i")
  /\ \E head \in {W.head} \cup 0..Len(Text) : windows' = [windows EXCEPT ![focus].head = head]
  /\ UNCHANGED <<docs, focus, status, edits, had>>

\* i leaves the cursor, a, I and A move it within the document.
EnterInsert ==
  /\ Normal
  /\ StartRun("i")
  /\ \E head \in {W.head} \cup 0..Len(Text) :
       windows' = [windows EXCEPT ![focus].head = head, ![focus].undo = BeginGroup(@)]
  /\ UNCHANGED <<docs, focus, status, edits, had>>

\* o and O push the new line before the group begins.
OpenLine ==
  /\ Normal
  /\ StartRun("o")
  /\ \E pos \in 0..Len(Text), below \in {0, 1}, c \in Ink :
       PushEdit(Splice(Len(Text), pos, 0, <<c>>), pos + below, TRUE)

\* The text between the cursor and where a motion goes, both included.
Selected(m) ==
  LET from == Min2(Min2(W.head, m), Len(Text))
      to == Min2((IF W.head < m THEN m ELSE W.head) + 1, Len(Text))
  IN  [from |-> from, n |-> SatSub(to, from)]

OperatorHead(cs, from) == Min2(MapPos(cs, from, "after"), SatSub(cs.after, 1))

\* d and x: nothing is pushed when nothing is selected.
DeleteOperator ==
  /\ Normal
  /\ \E m \in 0..Len(Text) :
       LET s == Selected(m)
           cs == Splice(Len(Text), s.from, s.n, <<>>)
       IN  s.n > 0 /\ PushEdit(cs, OperatorHead(cs, s.from), FALSE)
  /\ RunIs("gone")
  /\ UNCHANGED mode

\* c: the deletion is pushed before the group begins.
ChangeOperator ==
  /\ Normal
  /\ StartRun("c")
  /\ \E m \in 0..Len(Text) :
       LET s == Selected(m)
           cs == Splice(Len(Text), s.from, s.n, <<>>)
       IN  IF s.n = 0
           THEN /\ windows' = [windows EXCEPT ![focus].undo = BeginGroup(@)]
                /\ UNCHANGED <<docs, focus, status, edits, had>>
           ELSE PushEdit(cs, OperatorHead(cs, s.from), TRUE)

Move ==
  /\ Normal
  /\ \E head \in 0..Len(Text) : windows' = [windows EXCEPT ![focus].head = head]
  /\ UNCHANGED <<docs, focus, mode, status, edits, had, run>>

\* :s replaces a range of the document and leaves the cursor where it was.
Substitute ==
  /\ "substitute" \in Features
  /\ Normal
  /\ \E from \in 0..Len(Text), n \in Cuts \ {0}, s \in {<<>>} \cup {<<c>> : c \in Ink} :
       from + n <= Len(Text) /\ PushEdit(Splice(Len(Text), from, n, s), W.head, FALSE)
  /\ RunIs("gone")
  /\ UNCHANGED mode

-----------------------------------------------------------------------------
\* Undo and redo.  A walk holds the node reached, the text and the selection; a
\* transaction that is rejected, or that panics, ends it where it is.
Replay(walk, cs, node, sel) ==
  LET done == DocApply(cs, walk.text)
  IN  IF done.status = "ok"
      THEN [walk EXCEPT !.text = done.rope, !.at = node, !.sel = sel]
      ELSE [walk EXCEPT !.text = done.rope, !.status = done.status]

UpStays(t, walk) ==  \* a mutant: the node reached stays
  LET n == t.nodes[walk.at] IN Replay(walk, n.inverse, walk.at, n.before)

Up(t, walk) ==
  LET n == t.nodes[walk.at] IN Replay(walk, n.inverse, n.parent, n.before)
Down(t, walk, i) == Replay(walk, t.nodes[i].forward, i, t.nodes[i].after)

\* Whether a walk goes on from node n: up or down through a group, up to where two paths
\* meet, or down to a target.
WalksOn(t, n, way) ==
  CASE way.by = "undo" -> InGroup(t, n, way.to)
    [] way.by = "redo" -> Children(t, n) # {} /\ InGroup(t, Newest(t, Children(t, n)), way.to)
    [] way.by = "climb" -> n \notin {way.to, Root}
    [] way.by = "descend" -> n # way.to

NextDown(t, n, way) ==
  IF way.by = "redo" THEN Newest(t, Children(t, n))
  ELSE CHOOSE i \in Children(t, n) \cap PathFrom(t, way.to) : TRUE

Onward(t, walk, way) ==
  IF walk.status # "ok" \/ ~WalksOn(t, walk.at, way) THEN walk
  ELSE IF way.by \in {"undo", "climb"} THEN Up(t, walk)
  ELSE Down(t, walk, NextDown(t, walk.at, way))

\* A tree of n nodes is crossed in n steps each way.
Walked(t, walk, way) ==
  LET after[k \in 0..Len(t.nodes)] ==
        IF k = 0 THEN walk ELSE Onward(t, after[k - 1], way)
  IN  after[Len(t.nodes)]

UndoWalk(t, walk) ==
  Walked(t, Up(t, walk), [by |-> "undo", to |-> t.nodes[walk.at].group])

RedoWalk(t, walk) ==
  LET i == Newest(t, Children(t, walk.at))
  IN  Walked(t, Down(t, walk, i), [by |-> "redo", to |-> t.nodes[i].group])

SeekWalk(t, walk, target) ==
  LET up == Walked(t, walk, [by |-> "climb", to |-> Meet(t, walk.at, target)])
  IN  Walked(t, up, [by |-> "descend", to |-> target])

Start == [at |-> W.undo.current, text |-> Text, sel |-> W.head, status |-> "ok"]

\* execute_action on the outcome of a walk: the selection is only taken when all of
\* it went well, but what was replayed before a rejection stays.
Replayed(walk) ==
  /\ Normal
  /\ IF walk.status = "panic" THEN Crash
     ELSE /\ Store(W.doc, walk.text)
          /\ windows' = WindowsAfter(
               [W EXCEPT !.undo.current = walk.at,
                         !.head = IF walk.status = "ok" THEN walk.sel ELSE @],
               W.doc, walk.text)
          /\ UNCHANGED <<focus, mode, status>>
  /\ RunIs("gone")
  /\ UNCHANGED edits

UndoKey ==
  /\ W.undo.current # Root
  /\ Replayed(UndoWalk(W.undo, Start))

RedoKey ==
  /\ Children(W.undo, W.undo.current) # {}
  /\ Replayed(RedoWalk(W.undo, Start))

OlderKey ==
  /\ W.undo.current # Root
  /\ OlderNodes(W.undo, W.undo.current) # {}
  /\ Replayed(SeekWalk(W.undo, Start, PrevInTime(W.undo, W.undo.current)))

NewerKey ==
  /\ NewerNodes(W.undo, W.undo.current) # {}
  /\ Replayed(SeekWalk(W.undo, Start, NextInTime(W.undo, W.undo.current)))

-----------------------------------------------------------------------------
\* Windows and buffers.  Windows are only opened here, so that each is found at its
\* place; WindowLayout has what else becomes of them.
\* :split shows the same document in a new window, which is not focused.
Split ==
  /\ "split" \in Features
  /\ Normal
  /\ Len(docs) + Len(windows) < MaxOpen
  /\ windows' = Append(windows, NewWindow(W.doc, Text))
  /\ UNCHANGED <<docs, focus, mode, status, edits, had, run>>

FocusWindow ==
  /\ Normal
  /\ focus' \in DOMAIN windows \ {focus}
  /\ RunIs("gone")
  /\ UNCHANGED <<docs, windows, mode, status, edits, had>>

\* A click focuses a window in any mode, and puts its cursor on a character.
Click ==
  /\ "mouse" \in Features
  /\ Running
  /\ focus' \in DOMAIN windows
  /\ \E head \in 0..SatSub(Len(docs[windows[focus'].doc]), 1) :
       windows' = [windows EXCEPT ![focus'].head = head]
  /\ RunIs("gone")
  /\ UNCHANGED <<docs, mode, status, edits, had>>

\* The focused window shows document d, of text text, and keeps its undo tree.
Show(d, text) ==
  /\ windows' = [windows EXCEPT ![focus] = [Disturbed(W, text) EXCEPT !.doc = d, !.head = 0]]
  /\ RunIs("gone")
  /\ UNCHANGED <<focus, mode, status, edits>>

\* :e, the file picker and the tree open a file in a new buffer.
OpenFile ==
  /\ "buffers" \in Features
  /\ Normal
  /\ Len(docs) + Len(windows) < MaxOpen
  /\ \E text \in Files :
       /\ docs' = Append(docs, text)
       /\ had' = Append(had, {text})
       /\ Show(Len(docs) + 1, text)

\* :bnext and :bprev, and a click on a tab in any mode.
SwitchBuffer ==
  /\ Normal \/ (Running /\ "mouse" \in Features)
  /\ \E d \in DOMAIN docs \ {W.doc} : Show(d, docs[d])
  /\ UNCHANGED <<docs, had>>

-----------------------------------------------------------------------------
\* apply_lsp_edits: pushed when the focused window shows the document, else applied
\* behind every tree.
LspEdit ==
  /\ "lsp" \in Features
  /\ Running
  /\ \E d \in DOMAIN docs, s \in {<<>>} \cup {<<c>> : c \in Ink} :
       \E from \in 0..Len(docs[d]), n \in Cuts :
         LET cs == Splice(Len(docs[d]), from, n, s)
         IN  /\ from + n <= Len(docs[d])
             /\ cs.ops # <<>>
             /\ IF W.doc = d
                THEN PushEdit(cs, MapPos(cs, W.head, "after"), FALSE)
                ELSE /\ CanEdit(cs)
                     /\ Store(d, ApplyChanges(cs, docs[d]).rope)
                     /\ windows' = WindowsAfter(W, d, ApplyChanges(cs, docs[d]).rope)
                     /\ UNCHANGED <<focus, status>>
  /\ RunIs("gone")
  /\ UNCHANGED mode

\* apply_plugin_calls, BufferApply: no tree and no cursor is told.
PluginEdit ==
  /\ "plugin" \in Features
  /\ Running
  /\ \E d \in DOMAIN docs, s \in {<<>>} \cup {<<c>> : c \in Ink} :
       \E from \in 0..Len(docs[d]), n \in Cuts :
         LET cs == Splice(Len(docs[d]), from, n, s)
             text == ApplyChanges(cs, docs[d]).rope
         IN  /\ from + n <= Len(docs[d])
             /\ CanEdit(cs)
             /\ Store(d, text)
             /\ windows' = [i \in DOMAIN windows |->
                             IF windows[i].doc = d /\ text # docs[d]
                             THEN Disturbed(windows[i], text) ELSE windows[i]]
  /\ RunIs("gone")
  /\ UNCHANGED <<focus, mode, status>>

EditorNext ==
  \/ TypeChar \/ TypeEnter \/ Backspace \/ DeleteKey \/ Escape
  \/ EnterInsert \/ OpenLine \/ DeleteOperator \/ ChangeOperator \/ Move \/ Substitute
  \/ UndoKey \/ RedoKey \/ OlderKey \/ NewerKey
  \/ Split \/ FocusWindow \/ Click \/ OpenFile \/ SwitchBuffer
  \/ LspEdit \/ PluginEdit

EditorSpec == EditorInit /\ [][EditorNext]_editorVars

-----------------------------------------------------------------------------
Windows == DOMAIN windows

\* As long as nothing changes a window's document behind its undo tree, the document is
\* the text the tree's current node was recorded with; and the editor only goes down with
\* a cursor past the end of its document, or replaying a tree on a document that changed
\* behind it.
OnlyStaleWindowsFail ==
  /\ \A i \in Windows :
       LET w == windows[i]
       IN  ~w.foreign => docs[w.doc] = w.seen[w.undo.current + 1]
  /\ status = "crashed" => W.head > Len(Text) \/ W.foreign

\* "undo/redo restores exact text" (docs/plan/PHASE0_PLAN.md:115): undo and redo show a
\* text the document has had, whichever buffers the window has shown (UndoTree::undo,
\* redo, undo_older, undo_newer).
WalkedBack == windows'[focus].undo.current # W.undo.current /\ edits' = edits /\ focus' = focus
UndoIsExactAcrossBuffers == [][WalkedBack => docs'[W.doc] \in had[W.doc]]_editorVars

\* "insert-mode run = one undo step" (docs/plan/PHASE0_PLAN.md:113): one undo takes back
\* all that a run did, when it was entered with i, a, I or A and nobody else edited
\* meanwhile, and the document is again what it was when the run began (begin_group).
InsertRunIsOneStep ==
  [][run.kind = "i" /\ run.phase = "over" /\ run.from # W.undo.current
       => (UndoKey => docs'[W.doc] = run.start)]_editorVars

\* "two windows on one buffer must stay consistent" (docs/plan/PHASE1_PLAN.md:180-181):
\* typing in either of them does not crash the editor.
WindowsStayConsistent == status = "running"

=============================================================================
