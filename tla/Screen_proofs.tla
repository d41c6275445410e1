---------------------------- MODULE Screen_proofs ----------------------------
(***************************************************************************)
(* What is on screen and who gets the keys, for any number of documents,   *)
(* requests, windows, panes, edits and lengths: Esc pressed five times     *)
(* leads home and lists mean what they show (module Shell); the keys of    *)
(* terminal mode reach the pane of the focused window, until a session is  *)
(* restored (WindowLayout); highlights never go back, and when the worker  *)
(* has nothing left to do they are those of the last request the channel   *)
(* took (SyntaxWorker).                                                    *)
(***************************************************************************)
EXTENDS WindowLayout, Shell, TLAPS

CONSTANTS QueueSize, Lengths, MaxRevs  \* of SyntaxWorker

VARIABLES text, lastLen, queue, worker, shown, accepted

Sy == INSTANCE SyntaxWorker

\* What can be on screen: a document, or what a row of the buffers stands for.
Shown == Docs \cup {FirstNamed(row) : row \in Nat}
Asks == [kind : {"none", "rename", "symbol", "action", "format"}, doc : Shown \cup {0}]
Pickers == [visible : BOOLEAN,
            kind : {"none", "file", "buffer", "command", "plugin", "symbol", "action"},
            items : Seq(Asks), filtered : Seq(Nat), selected : Nat \ {0}]
Uis ==
  [mode : {"normal", "insert", "command", "terminal"}, pending : BOOLEAN, shown : Shown,
   rename : [doc : Shown \cup {0}, typed : BOOLEAN], picker : Pickers,
   review : BOOLEAN, agent : BOOLEAN, open : BOOLEAN, sidebar : BOOLEAN, prompt : BOOLEAN,
   line : {Typed, 0, 1, 2}, completion : {0, 1, 2}, search : BOOLEAN,
   symbols : Seq(Asks), actions : Seq(Asks)]

\* Rename, review and the agent's input take turns, in normal mode.
Modal(u) == u.rename # NoRename \/ u.review \/ u.agent
Apart(u) ==
  /\ u.rename # NoRename => ~u.review /\ ~u.agent
  /\ u.review => ~u.agent
  /\ Modal(u) => u.mode = "normal" /\ ~u.pending
  /\ u.picker.visible /\ u.picker.kind = "command" =>
       ~Modal(u) /\ u.mode = "normal" /\ ~u.pending
  /\ u.pending => u.mode = "normal"
  /\ u.prompt => u.sidebar

Lists(u) ==
  /\ u.picker.visible /\ u.picker.kind = "symbol" => u.picker.items = u.symbols
  /\ u.picker.visible /\ u.picker.kind = "action" => u.picker.items = u.actions
  /\ u.completion # 0 => u.mode = "command" /\ ~u.search /\ u.line = u.completion

UiOk(u) == u \in Uis /\ Apart(u) /\ Lists(u)

\* How many times Esc is needed.
Bit(b) == IF b THEN 1 ELSE 0
Rank(u) ==
  Bit(u.rename # NoRename) + Bit(u.picker.visible) + Bit(u.review) + Bit(u.agent) + Bit(u.prompt)
    + Bit(u.sidebar) + Bit(u.pending) + Bit(u.mode # "normal") + Bit(u.completion # 0)
Falls(u, v) == v.mode # "terminal" /\ (Rank(v) < Rank(u) \/ (Rank(u) = 0 /\ Rank(v) = 0))

\* What a key may lead to.
Good(u, key, result) ==
  UiOk(result.ui) /\ result.ask \in Asks /\ (key = "esc" => Falls(u, result.ui))

ShellInv ==
  /\ UiOk(ui)
  /\ answers \subseteq Asks
  /\ escs \in 0..EscBound
  /\ ui.mode # "terminal" => Rank(ui) = 0 \/ Rank(ui) + escs <= EscBound

-----------------------------------------------------------------------------
\* A handler that asks for nothing, and one that asks.
LEMMA ResultGood ==
  ASSUME NEW u, NEW v, NEW key, UiOk(v), key = "esc" => Falls(u, v)
  PROVE  Good(u, key, Result(v))
  BY DEF Good, Result, NoAsk, Asks

\* A handler that asks the language server.
LEMMA AskingGood ==
  ASSUME NEW u, NEW v, NEW key, UiOk(v), key # "esc", NEW doc \in Shown \cup {0},
         NEW kind \in {"rename", "symbol", "action", "format"}
  PROVE  Good(u, key, Asking(v, kind, doc))
  BY DEF Good, Result, Asking, NoAsk, Asks

\* A picker that closes, and one that opens.
LEMMA CloseOk ==
  ASSUME NEW u, UiOk(u)
  PROVE  UiOk(ClosePicker(u)) /\ (u.picker.visible /\ u.mode # "terminal" => Falls(u, ClosePicker(u)))
<1>1. Closed \in Pickers /\ ~Closed.visible /\ <<>> \in Seq(Asks)
  <2>1. <<>> \in Seq(Asks) /\ <<>> \in Seq(Nat)
    OBVIOUS
  <2> QED  BY <2>1 DEF Closed, Pickers
<1>2. UiOk(ClosePicker(u))
  BY <1>1 DEF UiOk, Uis, Apart, Lists, Modal, ClosePicker
<1>3. u.picker.visible /\ u.mode # "terminal" => Falls(u, ClosePicker(u))
  BY <1>1 DEF UiOk, Uis, Pickers, ClosePicker, Falls, Rank, Bit
<1> QED
  BY <1>2, <1>3

\* A picker that opens, with the list it is about.
LEMMA OpenOk ==
  ASSUME NEW u, UiOk(u), NEW list \in Seq(Asks),
         NEW kind \in {"file", "buffer", "command", "plugin", "symbol", "action"},
         kind = "command" => ~Modal(u) /\ u.mode = "normal" /\ ~u.pending
  PROVE  /\ kind \notin {"symbol", "action"} => UiOk(OpenPicker(u, kind, list))
         /\ kind = "symbol" => UiOk([OpenPicker(u, kind, list) EXCEPT !.symbols = list])
         /\ kind = "action" => UiOk([OpenPicker(u, kind, list) EXCEPT !.actions = list])
<1> DEFINE p == [visible |-> TRUE, kind |-> kind, items |-> list,
                 filtered |-> [i \in 1..Len(list) |-> i], selected |-> 1]
<1>1. p \in Pickers /\ p.kind = kind /\ p.items = list
  <2>1. [i \in 1..Len(list) |-> i] \in Seq(Nat)
    OBVIOUS
  <2> QED  BY <2>1 DEF Pickers
<1>2. OpenPicker(u, kind, list) = [u EXCEPT !.picker = p]
  BY DEF OpenPicker
<1> HIDE DEF p
<1>3. CASE kind \notin {"symbol", "action"}
  BY <1>1, <1>2, <1>3 DEF UiOk, Uis, Apart, Lists, Modal
<1>4. CASE kind = "symbol"
  BY <1>1, <1>2, <1>4 DEF UiOk, Uis, Apart, Lists, Modal
<1>5. CASE kind = "action"
  BY <1>1, <1>2, <1>5 DEF UiOk, Uis, Apart, Lists, Modal
<1> QED
  BY <1>3, <1>4, <1>5

\* Items nothing is looked up for are items.
LEMMA PlainItems == Plain \in Seq(Asks)
<1>1. NoAsk \in Asks
  BY DEF NoAsk, Asks
<1> QED
  BY <1>1 DEF Plain

\* Another document on screen.
LEMMA ShowOk ==
  ASSUME NEW u, UiOk(u), NEW doc \in Shown
  PROVE  UiOk(Show(u, doc))
  BY DEF UiOk, Uis, Apart, Lists, Modal, Show

\* The sidebar gets the keys.
LEMMA FocusOk ==
  ASSUME NEW u, UiOk(u)
  PROVE  UiOk(FocusSidebar(u))
  BY DEF UiOk, Uis, Apart, Lists, Modal, FocusSidebar

\* An ex command runs with nothing over the text.
LEMMA ExCommandOk ==
  ASSUME NEW u, UiOk(u), ~Modal(u), ~u.pending, u.completion = 0, ~u.picker.visible,
         NEW v \in ExCommand(u)
  PROVE  UiOk(v)
<1> DEFINE n == [u EXCEPT !.mode = "normal"]
<1>1. UiOk(n)
  BY DEF UiOk, Uis, Apart, Lists, Modal
<1>2. UiOk([n EXCEPT !.agent = ~@])
  BY DEF UiOk, Uis, Apart, Lists, Modal
<1>3. UiOk([n EXCEPT !.review = TRUE, !.agent = FALSE])
  BY DEF UiOk, Uis, Apart, Lists, Modal
<1>4. UiOk([n EXCEPT !.mode = "terminal"])
  BY DEF UiOk, Uis, Apart, Lists, Modal
<1>5. \A d \in Docs : UiOk(Show(n, d))
  BY <1>1, ShowOk DEF Shown
<1>6. \/ v \in {n, [n EXCEPT !.agent = ~@], [n EXCEPT !.review = TRUE, !.agent = FALSE],
                [n EXCEPT !.mode = "terminal"]}
      \/ \E d \in Docs : v = Show(n, d)
  BY DEF ExCommand
<1> QED
  BY <1>1, <1>2, <1>3, <1>4, <1>5, <1>6

-----------------------------------------------------------------------------
\* The prompt of a rename.
LEMMA RenameGood ==
  ASSUME NEW u, UiOk(u), u.mode # "terminal", u.rename # NoRename, NEW key \in Keys,
         NEW r \in RenameKey(u, key)
  PROVE  Good(u, key, r)
<1> DEFINE left == [u EXCEPT !.rename = NoRename]
<1>1. UiOk(left) /\ Falls(u, left)
  <2>1. UiOk(left)
    BY DEF UiOk, Uis, Apart, Lists, Modal, NoRename
  <2>2. Falls(u, left)
    BY DEF UiOk, Uis, Pickers, Falls, Rank, Bit
  <2> QED  BY <2>1, <2>2
<1>2. \A t \in BOOLEAN : UiOk([u EXCEPT !.rename.typed = t])
  BY DEF UiOk, Uis, Apart, Lists, Modal
<1>3. u.rename.doc \in Shown \cup {0} /\ u.rename.typed \in BOOLEAN
  BY DEF UiOk, Uis
<1> HIDE DEF left
<1>4. \/ r = Result(left)
      \/ key # "esc" /\ r = Asking(left, "rename", u.rename.doc)
      \/ key # "esc" /\ \E t \in BOOLEAN : r = Result([u EXCEPT !.rename.typed = t])
      \/ key # "esc" /\ r = Result(u)
  BY <1>3 DEF RenameKey, IsChar, left
<1> QED
  BY <1>1, <1>2, <1>3, <1>4, ResultGood, AskingGood

\* What the palette runs.
LEMMA PaletteOk ==
  ASSUME NEW u, UiOk(u), ~Modal(u), ~u.pending, u.completion = 0, ~u.picker.visible,
         NEW r \in PaletteResults(u)
  PROVE  \E v : r = Result(v) /\ UiOk(v)
<1>1. PICK v \in ExCommand(u) \cup
         {OpenPicker(u, "file", Plain), OpenPicker(u, "buffer", Plain), FocusSidebar(u)} : r = Result(v)
  BY DEF PaletteResults
<1>2. UiOk(OpenPicker(u, "file", Plain)) /\ UiOk(OpenPicker(u, "buffer", Plain))
  BY OpenOk, PlainItems
<1>3. UiOk(v)
  BY <1>1, <1>2, ExCommandOk, FocusOk
<1> QED
  BY <1>1, <1>3

\* What is picked.
LEMMA PickedOk ==
  ASSUME NEW u, UiOk(u), u.picker.visible, u.picker.selected <= Len(u.picker.filtered),
         NEW r \in Picked(u)
  PROVE  \E v : r = Result(v) /\ UiOk(v)
<1> DEFINE c == ClosePicker(u)
           row == PickedRow(u)
<1>1. UiOk(c)
  BY CloseOk
<1>2. row \in Nat
  <2>1. u.picker.filtered \in Seq(Nat) /\ u.picker.selected \in Nat \ {0}
    BY DEF UiOk, Uis, Pickers
  <2>2. u.picker.selected \in 1..Len(u.picker.filtered)
    BY <2>1
  <2> QED  BY <2>1, <2>2 DEF PickedRow
<1>3. UiOk(Show(c, FirstNamed(row)))
  BY <1>1, <1>2, ShowOk DEF Shown
<1>4. \A d \in Docs : UiOk(Show(c, d))
  BY <1>1, ShowOk DEF Shown
<1>5. CASE u.picker.kind = "command"
  <2>1. ~c.picker.visible /\ c.mode = u.mode /\ c.pending = u.pending /\ c.rename = u.rename
        /\ c.review = u.review /\ c.agent = u.agent /\ c.completion = u.completion
    BY DEF ClosePicker, Closed, UiOk, Uis
  <2>2. ~Modal(c) /\ ~c.pending /\ c.completion = 0
    BY <1>5, <2>1 DEF UiOk, Apart, Lists, Modal
  <2>3. r \in PaletteResults(c)
    BY <1>5 DEF Picked
  <2> HIDE DEF c
  <2> QED  BY <1>1, <2>1, <2>2, <2>3, PaletteOk
<1>6. CASE u.picker.kind # "command"
  <2>1. \/ \E d \in Docs : r = Result(Show(c, d))
        \/ r = Result(Show(c, FirstNamed(row)))
        \/ r = Result(c)
    BY <1>6 DEF Picked
  <2> QED  BY <1>1, <1>3, <1>4, <2>1
<1> QED
  BY <1>5, <1>6

\* What is filtered and which row is highlighted.
LEMMA FilterOk ==
  ASSUME NEW u, UiOk(u)
  PROVE  /\ \A f \in Seq(Nat) : UiOk([u EXCEPT !.picker.filtered = f, !.picker.selected = 1])
         /\ \A s \in Nat \ {0} : UiOk([u EXCEPT !.picker.selected = s])
         /\ Refiltered(u.picker) \subseteq Seq(Nat) /\ Unfiltered(u.picker) \subseteq Seq(Nat)
<1>1. ASSUME NEW f \in Seq(Nat) PROVE UiOk([u EXCEPT !.picker.filtered = f, !.picker.selected = 1])
  <2> DEFINE p == [u.picker EXCEPT !.filtered = f, !.selected = 1]
  <2>1. p \in Pickers /\ p.visible = u.picker.visible /\ p.kind = u.picker.kind /\ p.items = u.picker.items
    <3> DEFINE q == [u.picker EXCEPT !.filtered = f]
    <3>1. u.picker \in Pickers
      BY DEF UiOk, Uis
    <3>2. q \in Pickers /\ q.visible = u.picker.visible /\ q.kind = u.picker.kind /\ q.items = u.picker.items
      BY <3>1 DEF Pickers
    <3>3. p = [q EXCEPT !.selected = 1]
      BY <3>1 DEF Pickers
    <3>4. 1 \in Nat \ {0}
      OBVIOUS
    <3> HIDE DEF p, q
    <3> QED  BY <3>2, <3>3, <3>4 DEF Pickers
  <2>2. [u EXCEPT !.picker.filtered = f, !.picker.selected = 1] = [u EXCEPT !.picker = p]
    BY DEF UiOk, Uis
  <2> HIDE DEF p
  <2>3. UiOk([u EXCEPT !.picker = p])
    BY <2>1 DEF UiOk, Uis, Apart, Lists, Modal
  <2> QED  BY <2>2, <2>3
<1>2. ASSUME NEW s \in Nat \ {0} PROVE UiOk([u EXCEPT !.picker.selected = s])
  <2> DEFINE p == [u.picker EXCEPT !.selected = s]
  <2>1. p \in Pickers /\ p.visible = u.picker.visible /\ p.kind = u.picker.kind /\ p.items = u.picker.items
    <3>1. u.picker \in Pickers
      BY DEF UiOk, Uis
    <3> QED  BY <3>1 DEF Pickers
  <2>2. [u EXCEPT !.picker.selected = s] = [u EXCEPT !.picker = p]
    BY DEF UiOk, Uis
  <2> HIDE DEF p
  <2>3. UiOk([u EXCEPT !.picker = p])
    BY <2>1 DEF UiOk, Uis, Apart, Lists, Modal
  <2> QED  BY <2>2, <2>3
<1>3. u.picker.items \in Seq(Asks)
  BY DEF UiOk, Uis, Pickers
<1>4. DOMAIN u.picker.items = 1..Len(u.picker.items) /\ Len(u.picker.items) \in Nat
  BY <1>3
<1>5. Unfiltered(u.picker) \subseteq Seq(Nat)
  BY <1>4 DEF Unfiltered
<1>6. Refiltered(u.picker) \subseteq Seq(Nat)
  BY <1>4 DEF Refiltered, SeqOf
<1> QED
  BY <1>1, <1>2, <1>5, <1>6

\* A picker takes every key.
LEMMA PickerGood ==
  ASSUME NEW u, UiOk(u), u.mode # "terminal", u.picker.visible, NEW key \in Keys,
         NEW r \in PickerKey(u, key)
  PROVE  Good(u, key, r)
<1> DEFINE n == Len(u.picker.filtered)
           s == IF n = 0 THEN u.picker.selected ELSE (u.picker.selected % n) + 1
<1>1. UiOk(ClosePicker(u)) /\ Falls(u, ClosePicker(u))
  BY CloseOk
<1>2. u.picker.selected \in Nat \ {0} /\ n \in Nat
  BY DEF UiOk, Uis, Pickers
<1>3. s \in Nat \ {0}
  BY <1>2
<1>4. UiOk([u EXCEPT !.picker.selected = s])
  BY <1>3, FilterOk
<1>5. key = "esc" => r = Result(ClosePicker(u))
  BY DEF PickerKey, IsChar
<1>6. key = "enter" => (u.picker.selected <= n /\ r \in Picked(u)) \/ r = Result(u)
  BY DEF PickerKey, IsChar
<1>7. key = "down" => r = Result([u EXCEPT !.picker.selected = s])
  BY DEF PickerKey, IsChar
<1>8. key = "backspace" \/ IsChar(key) =>
        r \in Filtered(u, Unfiltered(u.picker)) \cup Filtered(u, Refiltered(u.picker))
  BY DEF PickerKey, IsChar, Filtered
<1>9. key \notin {"esc", "enter", "down", "backspace"} /\ ~IsChar(key) => r = Result(u)
  BY DEF PickerKey
<1> HIDE DEF s, n
<1>10. \A f \in Seq(Nat) : UiOk([u EXCEPT !.picker.filtered = f, !.picker.selected = 1])
  BY FilterOk
<1>11. key = "backspace" \/ IsChar(key) =>
        \E f \in Seq(Nat) : r = Result([u EXCEPT !.picker.filtered = f, !.picker.selected = 1])
  BY <1>8, FilterOk DEF Filtered
<1>12. key = "backspace" \/ IsChar(key) => key # "esc"
  BY DEF IsChar
<1>13. CASE key = "esc"
  BY <1>1, <1>5, <1>13, ResultGood
<1>14. CASE key = "enter"
  <2>1. \E v : r = Result(v) /\ UiOk(v)
    BY <1>6, <1>14, PickedOk DEF n
  <2> QED  BY <1>14, <2>1, ResultGood
<1>15. CASE key = "down"
  BY <1>4, <1>7, <1>15, ResultGood
<1>16. CASE key = "backspace" \/ IsChar(key)
  BY <1>10, <1>11, <1>12, <1>16, ResultGood
<1> QED
  BY <1>9, <1>13, <1>14, <1>15, <1>16, ResultGood

\* The review.
LEMMA ReviewGood ==
  ASSUME NEW u, UiOk(u), u.mode # "terminal", u.review, NEW key \in Keys, NEW r \in ReviewKey(u, key)
  PROVE  Good(u, key, r)
<1>1. \A b \in BOOLEAN : UiOk([u EXCEPT !.review = b])
  BY DEF UiOk, Uis, Apart, Lists, Modal
<1>2. Falls(u, [u EXCEPT !.review = FALSE])
  BY DEF UiOk, Uis, Pickers, Falls, Rank, Bit
<1>3. \/ r = Result([u EXCEPT !.review = FALSE])
      \/ key # "esc" /\ \E b \in BOOLEAN : r = Result([u EXCEPT !.review = b])
      \/ key # "esc" /\ r = Result(u)
  BY DEF ReviewKey
<1> QED
  BY <1>1, <1>2, <1>3, ResultGood

\* The input of the agent.
LEMMA AgentGood ==
  ASSUME NEW u, UiOk(u), u.mode # "terminal", u.agent, NEW key \in Keys, NEW r \in AgentKey(u, key)
  PROVE  Good(u, key, r)
<1>1. \A b \in BOOLEAN : UiOk([u EXCEPT !.agent = b])
  BY DEF UiOk, Uis, Apart, Lists, Modal
<1>2. Falls(u, [u EXCEPT !.agent = FALSE])
  BY DEF UiOk, Uis, Pickers, Falls, Rank, Bit
<1>3. r = Result([u EXCEPT !.agent = (key # "esc")])
  BY DEF AgentKey
<1>4. CASE key = "esc"
  <2>1. r = Result([u EXCEPT !.agent = FALSE])
    BY <1>3, <1>4
  <2> QED  BY <1>1, <1>2, <2>1, ResultGood
<1>5. CASE key # "esc"
  <2>1. r = Result([u EXCEPT !.agent = TRUE])
    BY <1>3, <1>5
  <2> QED  BY <1>1, <1>5, <2>1, ResultGood
<1> QED
  BY <1>4, <1>5

\* The sidebar and its prompt.
LEMMA SidebarGood ==
  ASSUME NEW u, UiOk(u), u.mode # "terminal", u.sidebar, NEW key \in Keys, NEW r \in SidebarKey(u, key)
  PROVE  Good(u, key, r)
<1>1. \A b \in BOOLEAN : UiOk([u EXCEPT !.prompt = b])
  BY DEF UiOk, Uis, Apart, Lists, Modal
<1>2. u.prompt => Falls(u, [u EXCEPT !.prompt = FALSE])
  BY DEF UiOk, Uis, Pickers, Falls, Rank, Bit
<1>3. CASE u.prompt
  <2>1. PICK v \in PromptKey(u, key) : r = Result(v)
    BY <1>3 DEF SidebarKey
  <2>2. \/ v = [u EXCEPT !.prompt = FALSE]
        \/ key # "esc" /\ \E b \in BOOLEAN : v = [u EXCEPT !.prompt = b]
        \/ key # "esc" /\ v = u
    BY <2>1 DEF PromptKey, IsChar
  <2> QED  BY <1>1, <1>2, <1>3, <2>1, <2>2, ResultGood
<1>4. CASE ~u.prompt
  <2> DEFINE left == [u EXCEPT !.sidebar = FALSE]
  <2>1. UiOk(left) /\ Falls(u, left)
    <3>1. UiOk(left)
      BY <1>4 DEF UiOk, Uis, Apart, Lists, Modal
    <3>2. Falls(u, left)
      BY <1>4 DEF UiOk, Uis, Pickers, Falls, Rank, Bit
    <3> QED  BY <3>1, <3>2
  <2>2. UiOk([u EXCEPT !.open = FALSE, !.sidebar = FALSE])
    BY <1>4 DEF UiOk, Uis, Apart, Lists, Modal
  <2>3. \A d \in Docs : UiOk(Show(left, d))
    BY <2>1, ShowOk DEF Shown
  <2>4. \/ r = Result(left)
        \/ key # "esc" /\ r = Result([u EXCEPT !.open = FALSE, !.sidebar = FALSE])
        \/ key # "esc" /\ r = Result([u EXCEPT !.prompt = TRUE])
        \/ key # "esc" /\ r = Result(u)
        \/ key # "esc" /\ \E d \in Docs : r = Result(Show(left, d))
    <3>1. CASE key = "esc"
      BY <1>4, <3>1 DEF SidebarKey
    <3>2. CASE key = ":"
      BY <1>4, <3>2 DEF SidebarKey
    <3>3. CASE key = "a"
      BY <1>4, <3>3 DEF SidebarKey
    <3>4. CASE key = "enter"
      BY <1>4, <3>4 DEF SidebarKey
    <3>5. CASE key \notin {"esc", ":", "a", "enter"}
      BY <1>4, <3>5 DEF SidebarKey
    <3> QED  BY <3>1, <3>2, <3>3, <3>4, <3>5
  <2> HIDE DEF left
  <2>5. UiOk([u EXCEPT !.prompt = TRUE])
    BY <1>1
  <2> QED  BY <2>1, <2>2, <2>3, <2>4, <2>5, ResultGood
<1> QED
  BY <1>3, <1>4

\* Insert mode.
LEMMA InsertGood ==
  ASSUME NEW u, UiOk(u), u.mode = "insert", NEW key \in Keys, NEW r \in InsertKey(u, key)
  PROVE  Good(u, key, r)
<1> DEFINE left == [u EXCEPT !.mode = "normal", !.pending = FALSE]
<1>1. UiOk(left)
  BY DEF UiOk, Uis, Apart, Lists, Modal
<1>2. Falls(u, left)
  BY DEF UiOk, Uis, Apart, Pickers, Falls, Rank, Bit
<1>3. r = Result(left) \/ (key # "esc" /\ r = Result(u))
  BY DEF InsertKey
<1> HIDE DEF left
<1> QED
  BY <1>1, <1>2, <1>3, ResultGood

\* The command line and its completion.
LEMMA CommandGood ==
  ASSUME NEW u, UiOk(u), u.mode = "command", ~u.picker.visible, NEW key \in Keys,
         NEW r \in CommandKey(u, key)
  PROVE  Good(u, key, r)
<1> DEFINE left == [u EXCEPT !.mode = "normal", !.line = 0, !.search = FALSE]
           shut == [u EXCEPT !.completion = 0]
           away == [left EXCEPT !.completion = 0]
           typed == [Typing(u) EXCEPT !.line = 0]
           next == IF u.completion = 0 THEN 1 ELSE (u.completion % 2) + 1
           bare == [u EXCEPT !.line = 0]
           done == [u EXCEPT !.completion = next, !.line = next]
<1>1. UiOk(shut) /\ UiOk(away) /\ UiOk(Typing(u)) /\ UiOk(typed)
  <2>1. UiOk(shut)
    BY DEF UiOk, Uis, Apart, Lists, Modal
  <2>2. UiOk(away)
    BY DEF UiOk, Uis, Apart, Lists, Modal
  <2>3. UiOk(Typing(u))
    BY DEF UiOk, Uis, Apart, Lists, Modal, Typing
  <2>4. UiOk(typed)
    BY DEF UiOk, Uis, Apart, Lists, Modal, Typing
  <2> QED  BY <2>1, <2>2, <2>3, <2>4
<1>2. u.completion = 0 => UiOk(left) /\ UiOk(bare)
  BY DEF UiOk, Uis, Apart, Lists, Modal
<1>3. ~u.search => UiOk(done)
  <2>1. next \in {1, 2}
    BY DEF UiOk, Uis
  <2> HIDE DEF next
  <2>2. next \in {0, 1, 2} /\ next \in {Typed, 0, 1, 2} /\ next # 0
    BY <2>1
  <2>3. ~u.search => done \in Uis
    BY <2>2 DEF UiOk, Uis
  <2> QED  BY <2>2, <2>3 DEF UiOk, Uis, Apart, Lists, Modal
<1>4. /\ u.completion # 0 => Falls(u, shut)
      /\ u.completion = 0 => Falls(u, left)
  BY DEF UiOk, Uis, Apart, Pickers, Falls, Rank, Bit
<1>5. ~Modal(u) /\ ~u.pending
  BY DEF UiOk, Apart
<1>6. ~Modal(bare) /\ ~bare.pending /\ bare.completion = u.completion /\ ~bare.picker.visible
  BY <1>5 DEF UiOk, Uis, Modal
<1>7. \A v \in ExCommand(bare) : u.completion = 0 => UiOk(v)
  <2> HIDE DEF bare
  <2> QED  BY <1>2, <1>6, ExCommandOk
<1>8. key = "tab" => r \in {Result(u), Result(done)} /\ (u.search => r = Result(u))
  BY DEF CommandKey, IsChar, Complete
<1>9. key = "esc" => r = IF u.completion # 0 THEN Result(shut) ELSE Result(left)
  BY DEF CommandKey, IsChar
<1>10. key = "enter" /\ u.completion # 0 => r = Result(shut)
  BY DEF CommandKey, IsChar
<1>11. key = "enter" /\ u.completion = 0 => r = Result(left) \/ \E v \in ExCommand(bare) : r = Result(v)
  BY DEF CommandKey, IsChar
<1>12. key = "backspace" => r \in {Result(away), Result(Typing(u)), Result(typed)}
  BY DEF CommandKey, IsChar
<1>13. IsChar(key) => r = Result(Typing(u))
  BY DEF CommandKey, IsChar
<1>14. key = "down" => r = Result(u)
  BY DEF CommandKey, IsChar
<1> HIDE DEF left, shut, away, typed, bare, done, next
<1>15. key \in {"tab", "backspace", "enter", "down", "esc"} \/ (IsChar(key) /\ key # "esc")
  BY DEF IsChar
<1>16. CASE key = "esc"
  BY <1>1, <1>2, <1>4, <1>9, <1>16, ResultGood
<1>17. CASE key # "esc"
  BY <1>1, <1>2, <1>3, <1>7, <1>8, <1>10, <1>11, <1>12, <1>13, <1>14, <1>15, <1>17, ResultGood
<1> QED
  BY <1>16, <1>17

\* Normal mode, the leader's keys included.
LEMMA NormalGood ==
  ASSUME NEW u, UiOk(u), u.mode = "normal", ~u.picker.visible, u.rename = NoRename, ~u.review,
         NEW key \in Keys, ~(u.agent /\ AgentTakes(key)), ~SidebarTakes(u, key),
         NEW r \in NormalKey(u, key)
  PROVE  Good(u, key, r)
<1>1. CASE u.pending
  <2> DEFINE n == [u EXCEPT !.pending = FALSE]
             out == [n EXCEPT !.open = FALSE, !.sidebar = FALSE]
             ask == [n EXCEPT !.rename = [doc |-> u.shown, typed |-> FALSE]]
  <2>1. ~Modal(u) /\ (key # "esc" \/ u.pending)
    BY <1>1 DEF UiOk, Apart
  <2>2. UiOk(n) /\ ~Modal(n) /\ n.mode = "normal" /\ ~n.pending
    BY <1>1, <2>1 DEF UiOk, Uis, Apart, Lists, Modal
  <2>3. Falls(u, n)
    BY <1>1 DEF UiOk, Uis, Pickers, Falls, Rank, Bit
  <2>4. u.shown \in Shown \cup {0}
    BY DEF UiOk, Uis
  <2>5. key = "e" => ~u.prompt
    BY <1>1 DEF UiOk, Apart, SidebarTakes
  <2>6. key = "e" => UiOk(out)
    BY <1>1, <2>5 DEF UiOk, Uis, Apart, Lists, Modal
  <2>7. key = "r" => UiOk(ask)
    <3>1. ~u.prompt
      BY DEF UiOk, Apart, SidebarTakes
    <3> QED  BY <1>1, <2>1, <2>4, <3>1 DEF UiOk, Uis, Apart, Lists, Modal
  <2>8. UiOk(FocusSidebar(n))
    BY <2>2, FocusOk
  <2>9. UiOk(OpenPicker(n, "command", Plain))
    <3> HIDE DEF n
    <3> QED  BY <2>2, OpenOk, PlainItems
  <2>10. r \in Leader(u, key)
    BY <1>1 DEF NormalKey
  <2>11. \/ r = Result(n)
         \/ key = "e" /\ (r = Result(out) \/ r = Result(FocusSidebar(n)))
         \/ key = "p" /\ r = Result(OpenPicker(n, "command", Plain))
         \/ key = "s" /\ r = Asking(n, "symbol", u.shown)
         \/ key = "c" /\ r = Asking(n, "action", u.shown)
         \/ key = "F" /\ r = Asking(n, "format", u.shown)
         \/ key = "r" /\ r = Result(ask)
    BY <2>10 DEF Leader
  <2> HIDE DEF n, out, ask
  <2>12. CASE r = Result(n)
    BY <2>2, <2>3, <2>12, ResultGood
  <2>13. CASE key = "e" /\ (r = Result(out) \/ r = Result(FocusSidebar(n)))
    BY <2>6, <2>8, <2>13, ResultGood
  <2>14. CASE key = "p" /\ r = Result(OpenPicker(n, "command", Plain))
    BY <2>9, <2>14, ResultGood
  <2>15. CASE \E kind \in {"symbol", "action", "format"} : key # "esc" /\ r = Asking(n, kind, u.shown)
    BY <2>2, <2>4, <2>15, AskingGood
  <2>16. CASE key = "r" /\ r = Result(ask)
    BY <2>7, <2>16, ResultGood
  <2> QED  BY <2>11, <2>12, <2>13, <2>14, <2>15, <2>16
<1>2. CASE ~u.pending
  <2> DEFINE Line(s) == [u EXCEPT !.mode = "command", !.line = 0, !.search = s]
  <2>1. \/ key = "esc" /\ r = Result([u EXCEPT !.mode = "normal"])
        \/ key = "space" /\ r = Result([u EXCEPT !.pending = TRUE])
        \/ key \in {"i", "a"} /\ r = Result([u EXCEPT !.mode = "insert"])
        \/ key = ":" /\ r = Result(Line(FALSE))
        \/ key = "/" /\ r = Result(Line(TRUE))
        \/ key # "esc" /\ r = Result(u)
    BY <1>2 DEF NormalKey
  <2>2. key \in {"esc", "space", "i", "a", ":", "/"} => ~u.agent
    BY DEF AgentTakes, IsChar
  <2>3. key = "esc" => [u EXCEPT !.mode = "normal"] = u /\ Falls(u, u)
    <3>1. [u EXCEPT !.mode = "normal"] = u
      BY DEF UiOk, Uis
    <3>2. key = "esc" => ~u.sidebar /\ ~u.prompt
      BY <1>2 DEF UiOk, Apart, SidebarTakes
    <3>3. u.completion = 0
      BY DEF UiOk, Lists
    <3>4. key = "esc" => Rank(u) = 0
      BY <1>2, <2>2, <3>2, <3>3 DEF Rank, Bit
    <3> QED  BY <3>1, <3>4 DEF Falls
  <2>4. key = "space" => UiOk([u EXCEPT !.pending = TRUE])
    BY <2>2 DEF UiOk, Uis, Apart, Lists, Modal
  <2>5. key \in {"i", "a"} => UiOk([u EXCEPT !.mode = "insert"])
    BY <1>2, <2>2 DEF UiOk, Uis, Apart, Lists, Modal
  <2>6. \A s \in BOOLEAN : key \in {":", "/"} => UiOk(Line(s))
    BY <1>2, <2>2 DEF UiOk, Uis, Apart, Lists, Modal
  <2> HIDE DEF Line
  <2> QED  BY <2>1, <2>3, <2>4, <2>5, <2>6, ResultGood
<1> QED
  BY <1>1, <1>2

\* Whoever gets the key.
LEMMA KeyGood ==
  ASSUME NEW u, UiOk(u), u.mode # "terminal", NEW key \in Keys, NEW r \in HandleKey(u, key)
  PROVE  Good(u, key, r)
<1>1. CASE u.rename # NoRename
  <2>1. r \in RenameKey(u, key)
    BY <1>1 DEF HandleKey
  <2> QED  BY <1>1, <2>1, RenameGood
<1>2. CASE u.rename = NoRename /\ u.picker.visible
  <2>1. r \in PickerKey(u, key)
    BY <1>2 DEF HandleKey
  <2> QED  BY <1>2, <2>1, PickerGood
<1>3. CASE u.rename = NoRename /\ ~u.picker.visible /\ u.review
  <2>1. r \in ReviewKey(u, key)
    BY <1>3 DEF HandleKey
  <2> QED  BY <1>3, <2>1, ReviewGood
<1>4. CASE u.rename = NoRename /\ ~u.picker.visible /\ ~u.review
  <2>1. r \in (IF u.agent /\ AgentTakes(key) THEN AgentKey(u, key)
               ELSE IF SidebarTakes(u, key) THEN SidebarKey(u, key)
               ELSE ModeKey(u, key))
    BY <1>4 DEF HandleKey
  <2>2. CASE u.agent /\ AgentTakes(key)
    BY <2>1, <2>2, AgentGood
  <2>3. CASE ~(u.agent /\ AgentTakes(key)) /\ SidebarTakes(u, key)
    BY <2>1, <2>3, SidebarGood DEF SidebarTakes
  <2>4. CASE ~(u.agent /\ AgentTakes(key)) /\ ~SidebarTakes(u, key)
    <3>1. r \in ModeKey(u, key)
      BY <2>1, <2>4
    <3>2. CASE u.mode = "insert"
      BY <3>1, <3>2, InsertGood DEF ModeKey
    <3>3. CASE u.mode = "command"
      BY <1>4, <3>1, <3>3, CommandGood DEF ModeKey
    <3>4. CASE u.mode = "normal"
      BY <1>4, <2>4, <3>1, <3>4, NormalGood DEF ModeKey
    <3> QED  BY <3>2, <3>3, <3>4 DEF UiOk, Uis
  <2> QED  BY <2>2, <2>3, <2>4
<1> QED
  BY <1>1, <1>2, <1>3, <1>4

-----------------------------------------------------------------------------
\* Esc is never needed more than five times.
LEMMA RankBounded ==
  ASSUME NEW u, UiOk(u), u.mode # "terminal"
  PROVE  Rank(u) \in 0..5
  BY DEF UiOk, Uis, Pickers, Apart, Lists, Modal, Rank, Bit

\* What happens between keys and keeps the interface in order.
LEMMA HappensKeeps ==
  ASSUME EscBound \in Nat, EscBound >= 5, ShellInv, NEW u, UiOk(u), Happens(u)
  PROVE  ShellInv'
<1>1. ui' = u /\ escs' = 0 /\ answers' = answers
  BY DEF Happens
<1>2. u.mode # "terminal" => Rank(u) \in 0..5
  BY RankBounded
<1>3. UiOk(ui)' /\ (answers \subseteq Asks)' /\ (escs \in 0..EscBound)'
  BY <1>1 DEF ShellInv
<1>4. (ui.mode # "terminal" => Rank(ui) = 0 \/ Rank(ui) + escs <= EscBound)'
  BY <1>1, <1>2
<1> QED
  BY <1>3, <1>4 DEF ShellInv

\* A key pressed.
LEMMA KeyKeeps ==
  ASSUME EscBound \in Nat, EscBound >= 5, ShellInv, Key
  PROVE  ShellInv'
<1>1. UiOk(ui) /\ answers \subseteq Asks /\ escs \in 0..EscBound
      /\ (ui.mode # "terminal" => Rank(ui) = 0 \/ Rank(ui) + escs <= EscBound)
  BY DEF ShellInv
<1>2. PICK esc \in BOOLEAN :
        /\ escs' = IF ~esc THEN 0 ELSE IF escs < EscBound THEN escs + 1 ELSE escs
        /\ IF ui.mode = "terminal" THEN UNCHANGED <<ui, answers, asks>>
           ELSE \E result \in UNION {HandleKey(ui, key) : key \in {k \in Keys : (k = "esc") = esc}} :
                  /\ ui' = result.ui
                  /\ IF result.ask = NoAsk THEN UNCHANGED <<answers, asks>>
                     ELSE /\ asks < MaxAsks /\ asks' = asks + 1
                          /\ answers' = answers \cup {result.ask}
  BY DEF Key
<1>3. escs' \in 0..EscBound
  BY <1>1, <1>2
<1>4. CASE ui.mode = "terminal"
  <2>1. UNCHANGED <<ui, answers>>
    BY <1>2, <1>4
  <2> QED  BY <1>1, <1>3, <1>4, <2>1 DEF ShellInv
<1>5. CASE ui.mode # "terminal"
  <2>0. PICK key \in Keys : /\ (key = "esc") = esc
                            /\ \E result \in HandleKey(ui, key) :
                                 /\ ui' = result.ui
                                 /\ answers' = answers \/ answers' = answers \cup {result.ask}
    BY <1>2, <1>5
  <2>1. PICK result \in HandleKey(ui, key) :
          /\ ui' = result.ui
          /\ answers' = answers \/ answers' = answers \cup {result.ask}
    BY <2>0
  <2>2. Good(ui, key, result)
    BY <1>1, <1>5, KeyGood
  <2>3. UiOk(ui') /\ answers' \subseteq Asks /\ (esc => Falls(ui, ui'))
    BY <1>1, <2>0, <2>1, <2>2 DEF Good
  <2>4. ui'.mode # "terminal" => Rank(ui') \in 0..5
    BY <2>3, RankBounded
  <2>5. Rank(ui) \in 0..5
    BY <1>1, <1>5, RankBounded
  <2>6. ui'.mode # "terminal" => Rank(ui') = 0 \/ Rank(ui') + escs' <= EscBound
    <3>1. CASE ~esc
      BY <1>2, <2>4, <3>1
    <3>2. CASE esc
      <4>1. escs' \in {escs + 1, EscBound} /\ escs <= EscBound /\ (escs' = escs + 1 \/ escs = EscBound)
        BY <1>1, <1>2, <3>2
      <4>2. Rank(ui') < Rank(ui) \/ (Rank(ui) = 0 /\ Rank(ui') = 0)
        BY <2>3, <3>2 DEF Falls
      <4>3. Rank(ui') \in 0..5
        BY <2>3, <2>4, <3>2 DEF Falls
      <4> QED  BY <1>1, <1>5, <2>5, <4>1, <4>2, <4>3
    <3> QED  BY <3>1, <3>2
  <2> QED  BY <1>3, <2>3, <2>6 DEF ShellInv
<1> QED
  BY <1>4, <1>5

\* An answer of the language server.
LEMMA AnswerKeeps ==
  ASSUME EscBound \in Nat, EscBound >= 5, ShellInv, Answer
  PROVE  ShellInv'
<1>1. UiOk(ui) /\ answers \subseteq Asks
  BY DEF ShellInv
<1>0. PICK a \in answers :
        /\ answers' = answers \ {a}
        /\ escs' = 0
        /\ \E list \in {<<>>, <<a, a>>} :
             ui' = CASE a.kind = "symbol" -> SymbolsArrive(a, list)
                     [] a.kind = "action" -> ActionsArrive(a, list)
                     [] OTHER -> ui
  BY DEF Answer
<1>2. PICK list \in {<<>>, <<a, a>>} :
        /\ ui' = CASE a.kind = "symbol" -> SymbolsArrive(a, list)
                   [] a.kind = "action" -> ActionsArrive(a, list)
                   [] OTHER -> ui
  BY <1>0
<1>3. list \in Seq(Asks)
  <2>1. a \in Asks
    BY <1>1
  <2>2. <<>> \in Seq(Asks)
    OBVIOUS
  <2>3. <<a, a>> \in Seq(Asks)
    BY <2>1
  <2> QED  BY <2>2, <2>3
<1>4. UiOk(SymbolsArrive(a, list)) /\ UiOk(ActionsArrive(a, list))
  BY <1>1, <1>3, OpenOk DEF SymbolsArrive, ActionsArrive
<1>5. ui' \in {SymbolsArrive(a, list), ActionsArrive(a, list), ui}
  BY <1>2
<1>6. UiOk(ui')
  BY <1>1, <1>4, <1>5
<1>7. ui'.mode # "terminal" => Rank(ui') \in 0..5
  BY <1>6, RankBounded
<1>8. /\ ui'.mode # "terminal" => Rank(ui') + escs' <= EscBound
      /\ escs' \in 0..EscBound
  BY <1>0, <1>7
<1> QED
  BY <1>0, <1>1, <1>3, <1>6, <1>8 DEF ShellInv

\* Nothing is open at first.
LEMMA InitShell == ASSUME EscBound \in Nat, Docs # {}, ShellInit PROVE ShellInv
<1>1. Closed \in Pickers /\ <<>> \in Seq(Asks)
  <2>1. <<>> \in Seq(Asks) /\ <<>> \in Seq(Nat)
    OBVIOUS
  <2> QED  BY <2>1 DEF Closed, Pickers
<1>2. (CHOOSE d \in Docs : TRUE) \in Shown
  BY DEF Shown
<1>3. UiOk(ui)
  BY <1>1, <1>2 DEF ShellInit, UiOk, Uis, Apart, Lists, Modal, NoRename, Closed
<1>4. Rank(ui) = 0
  BY DEF ShellInit, Rank, Bit, Closed
<1> QED
  BY <1>3, <1>4 DEF ShellInit, ShellInv

\* Every step keeps the interface in order.
LEMMA StepShell ==
  ASSUME EscBound \in Nat, EscBound >= 5, ShellInv, [ShellNext]_shellVars
  PROVE  ShellInv'
<1>1. UiOk(ui)
  BY DEF ShellInv
<1>2. CASE UNCHANGED shellVars
  BY <1>2 DEF shellVars, ShellInv
<1>3. CASE EndTerminalMode
  <2>1. UiOk([ui EXCEPT !.mode = "normal"])
    BY <1>1, <1>3 DEF EndTerminalMode, UiOk, Uis, Apart, Lists, Modal
  <2> QED  BY <1>3, <2>1, HappensKeeps DEF EndTerminalMode
<1>4. CASE ClickTab
  <2>1. PICK doc \in Docs : Happens(Show(ui, doc))
    BY <1>4 DEF ClickTab
  <2>2. UiOk(Show(ui, doc))
    BY <1>1, ShowOk DEF Shown
  <2> QED  BY <2>1, <2>2, HappensKeeps
<1>5. CASE ClickSidebar
  <2>1. UiOk([ui EXCEPT !.sidebar = TRUE, !.pending = FALSE])
    BY <1>1 DEF UiOk, Uis, Apart, Lists, Modal
  <2> QED  BY <1>5, <2>1, HappensKeeps DEF ClickSidebar
<1>6. CASE DebuggerStops
  <2>1. UiOk([ui EXCEPT !.open = TRUE])
    BY <1>1 DEF UiOk, Uis, Apart, Lists, Modal
  <2> QED  BY <1>6, <2>1, HappensKeeps DEF DebuggerStops
<1>7. CASE PluginPicks
  <2>1. UiOk(OpenPicker(ui, "plugin", Plain))
    BY <1>1, OpenOk, PlainItems
  <2> QED  BY <1>7, <2>1, HappensKeeps DEF PluginPicks
<1> QED
  BY <1>2, <1>3, <1>4, <1>5, <1>6, <1>7, KeyKeeps, AnswerKeeps DEF ShellNext

\* The interface of the editor stays in order.
LEMMA ShellStays == ShellSpec => []ShellInv
<1>1. ShellInit => ShellInv
  BY ShellAssumption, InitShell
<1>2. ShellInv /\ [ShellNext]_shellVars => ShellInv'
  BY ShellAssumption, StepShell
<1> QED
  BY <1>1, <1>2, PTL DEF ShellSpec

\* For any documents and any number of requests: rows of symbols and code actions stand
\* for what they show, and the popup of a completion for what is in the command line.
THEOREM ListsMean == ShellSpec => []ListsMeanWhatTheyShow
<1>1. ShellInv => ListsMeanWhatTheyShow
  BY DEF ShellInv, UiOk, Lists, ListsMeanWhatTheyShow
<1> QED
  BY <1>1, ShellStays, PTL

\* For any documents and any number of requests, from every state that keys, clicks, answers
\* and the debugger lead to: outside a terminal, Esc pressed five times (or more, EscBound)
\* in a row leads to normal mode with nothing open over the text.
THEOREM EscLeads == ShellSpec => []EscLeadsHome
<1>1. ShellInv => EscLeadsHome
  <2> SUFFICES ASSUME ShellInv, escs = EscBound, ui.mode # "terminal"
               PROVE  /\ ui.mode = "normal" /\ ~ui.pending /\ ~Overlaid
                      /\ ~ui.sidebar /\ ~ui.prompt /\ ui.completion = 0
    BY DEF EscLeadsHome
  <2>1. UiOk(ui) /\ Rank(ui) \in 0..5
    BY RankBounded DEF ShellInv
  <2>2. Rank(ui) = 0
    BY <2>1 DEF ShellInv
  <2> QED  BY <2>1, <2>2 DEF Rank, Bit, Overlaid, UiOk, Uis, Pickers
<1> QED
  BY <1>1, ShellStays, PTL

-----------------------------------------------------------------------------
LayoutTyped ==
  /\ windows \in Seq(Nat)
  /\ nextId \in Nat
  /\ opened \in Nat
  /\ restored \in BOOLEAN

\* What a restore breaks: the next id is the place of the next window, and every pane
\* is known under the place of the window it was opened for.
PanesAreInPlace ==
  ~restored =>
    /\ nextId = Len(windows)
    /\ \A id \in DOMAIN paneOf : id \in 0..(nextId - 1) /\ paneOf[id] = windows[id + 1]

LayoutInv == LayoutTyped /\ PanesAreInPlace

\* The editor starts with one window and no pane (make_app).
LEMMA InitInPlace == Init => LayoutInv
<1> SUFFICES ASSUME Init PROVE LayoutInv
  OBVIOUS
<1>1. windows = <<0>> /\ nextId = 1 /\ opened = 0 /\ restored = FALSE
  BY DEF Init
<1>2. <<0>> \in Seq(Nat) /\ Len(<<0>>) = 1
  OBVIOUS
<1>3. DOMAIN paneOf = {}
  BY DEF Init
<1>4. LayoutTyped
  BY <1>1, <1>2 DEF LayoutTyped
<1>5. PanesAreInPlace
  BY <1>1, <1>2, <1>3 DEF PanesAreInPlace
<1> QED
  BY <1>4, <1>5 DEF LayoutInv

\* A new window is the last, and its id is its place.
LEMMA AddInPlace ==
  ASSUME LayoutInv, NEW pane \in Nat, AddWindow(pane)
  PROVE  /\ windows' \in Seq(Nat)
         /\ nextId' \in Nat
         /\ Len(windows') = Len(windows) + 1
         /\ windows'[Len(windows) + 1] = pane
         /\ \A i \in 1..Len(windows) : windows'[i] = windows[i]
         /\ nextId = Len(windows) => nextId' = Len(windows')
  BY DEF LayoutInv, LayoutTyped, AddWindow

\* Every step keeps panes and places together, or is a restore.
LEMMA StepInPlace == LayoutInv /\ [Next]_vars => LayoutInv'
<1> SUFFICES ASSUME LayoutInv, [Next]_vars PROVE LayoutInv'
  OBVIOUS
<1>1. CASE Split
  <2>1. AddWindow(0)
    BY <1>1 DEF Split
  <2>2. UNCHANGED <<opened, restored, paneOf>>
    BY <1>1 DEF Split
  <2>3. /\ windows' \in Seq(Nat)
        /\ nextId' \in Nat
        /\ Len(windows') = Len(windows) + 1
        /\ \A i \in 1..Len(windows) : windows'[i] = windows[i]
        /\ nextId = Len(windows) => nextId' = Len(windows')
    <3>1. 0 \in Nat
      OBVIOUS
    <3> QED  BY <3>1, <2>1, AddInPlace
  <2>4. LayoutTyped'
    BY <2>2, <2>3 DEF LayoutInv, LayoutTyped
  <2>5. PanesAreInPlace'
    <3> SUFFICES ASSUME ~restored', NEW id \in DOMAIN paneOf'
                 PROVE  /\ nextId' = Len(windows')
                        /\ id \in 0..(nextId' - 1) /\ paneOf'[id] = windows'[id + 1]
      BY <2>2, <2>3 DEF PanesAreInPlace, LayoutInv
    <3>1. ~restored /\ nextId = Len(windows) /\ paneOf' = paneOf
      BY <2>2 DEF PanesAreInPlace, LayoutInv
    <3>2. id \in 0..(nextId - 1) /\ paneOf[id] = windows[id + 1]
      BY <3>1 DEF PanesAreInPlace, LayoutInv
    <3> QED  BY <2>3, <3>1, <3>2 DEF LayoutInv, LayoutTyped
  <2> QED  BY <2>4, <2>5 DEF LayoutInv
<1>2. CASE OpenTerminal
  <2>1. opened' = opened + 1 /\ opened' \in Nat
    BY <1>2 DEF OpenTerminal, LayoutInv, LayoutTyped
  <2>2. AddWindow(opened')
    BY <1>2 DEF OpenTerminal
  <2>3. /\ windows' \in Seq(Nat)
        /\ nextId' \in Nat
        /\ Len(windows') = Len(windows) + 1
        /\ windows'[Len(windows) + 1] = opened'
        /\ \A i \in 1..Len(windows) : windows'[i] = windows[i]
        /\ nextId = Len(windows) => nextId' = Len(windows')
    BY <2>1, <2>2, AddInPlace
  <2>4. UNCHANGED restored
    BY <1>2 DEF OpenTerminal
  <2>5. LayoutTyped'
    BY <2>1, <2>3, <2>4 DEF LayoutInv, LayoutTyped
  <2>6. PanesAreInPlace'
    <3> SUFFICES ASSUME ~restored', NEW id \in DOMAIN paneOf'
                 PROVE  /\ nextId' = Len(windows')
                        /\ id \in 0..(nextId' - 1) /\ paneOf'[id] = windows'[id + 1]
      BY <2>3, <2>4 DEF PanesAreInPlace, LayoutInv
    <3>1. ~restored /\ nextId = Len(windows)
      BY <2>4 DEF PanesAreInPlace, LayoutInv
    <3>2. paneOf' = [i \in DOMAIN paneOf \cup {nextId} |-> IF i = nextId THEN opened' ELSE paneOf[i]]
      BY <1>2 DEF OpenTerminal
    <3>3. CASE id = nextId
      BY <2>3, <3>1, <3>2, <3>3 DEF LayoutInv, LayoutTyped
    <3>4. CASE id # nextId
      <4>1. id \in DOMAIN paneOf /\ paneOf'[id] = paneOf[id]
        BY <3>2, <3>4
      <4>2. id \in 0..(nextId - 1) /\ paneOf[id] = windows[id + 1]
        BY <4>1, <3>1 DEF PanesAreInPlace, LayoutInv
      <4> QED  BY <4>1, <4>2, <2>3, <3>1 DEF LayoutInv, LayoutTyped
    <3> QED  BY <3>3, <3>4
  <2> QED  BY <2>5, <2>6 DEF LayoutInv
<1>3. CASE FocusNext
  BY <1>3 DEF FocusNext, LayoutInv, LayoutTyped, PanesAreInPlace
<1>4. CASE Click
  BY <1>4 DEF Click, LayoutInv, LayoutTyped, PanesAreInPlace
<1>5. CASE RestoreSession
  <2>1. windows' \in Seq(Nat)
    <3>1. PICK n \in 1..MaxWindows : windows' = [i \in 1..n |-> 0]
      BY <1>5 DEF RestoreSession
    <3>2. n \in Nat
      BY <3>1
    <3> QED  BY <3>1, <3>2
  <2>2. restored' = TRUE /\ UNCHANGED <<nextId, opened>>
    BY <1>5 DEF RestoreSession
  <2> QED  BY <2>1, <2>2 DEF LayoutInv, LayoutTyped, PanesAreInPlace
<1>6. CASE LeaveTerminal
  BY <1>6 DEF LeaveTerminal, LayoutInv, LayoutTyped, PanesAreInPlace
<1>7. CASE PtyExited
  BY <1>7 DEF PtyExited, LayoutInv, LayoutTyped, PanesAreInPlace
<1>8. CASE UNCHANGED vars
  BY <1>8 DEF vars, LayoutInv, LayoutTyped, PanesAreInPlace
<1> QED
  BY <1>1, <1>2, <1>3, <1>4, <1>5, <1>6, <1>7, <1>8 DEF Next

\* Keys of terminal mode go to the pane the focused window was opened for, or to none
\* (handle_terminal_key), however many windows and terminals there are.
THEOREM KeysFindTheirPane == Spec => []KeysReachTheFocusedPane
<1>1. Init => LayoutInv
  BY InitInPlace
<1>2. LayoutInv /\ [Next]_vars => LayoutInv'
  BY StepInPlace
<1>3. LayoutInv => KeysReachTheFocusedPane
  BY DEF LayoutInv, PanesAreInPlace, KeysReachTheFocusedPane, KeysGoTo
<1> QED
  BY <1>1, <1>2, <1>3, PTL DEF Spec

-----------------------------------------------------------------------------
Busy == worker.at # "idle"

\* Revisions grow along the way of a request: highlights, worker, channel, editor.
InOrder ==
  /\ shown <= text.rev
  /\ Busy => shown <= worker.rev /\ worker.rev <= text.rev
  /\ \A i \in 1..Len(queue) :
       /\ shown <= queue[i] /\ queue[i] <= text.rev
       /\ Busy => worker.rev <= queue[i]
  /\ \A i, j \in 1..Len(queue) : i < j => queue[i] <= queue[j]

\* The last request the channel took is its last, or the worker's, or on show.
NoneLost ==
  IF Len(queue) > 0 THEN queue[Len(queue)] = accepted
  ELSE IF Busy THEN worker.rev = accepted
  ELSE shown = accepted

\* A busy worker has a request in its hands.
WorkerTyped == Sy!TypeOK /\ (Busy => worker.rev \in Nat)

SyntaxInv == WorkerTyped /\ InOrder /\ NoneLost

\* When the worker rests, the highlights are those of the last request taken.
SettledIsAccepted == queue = <<>> /\ worker.at = "idle" => shown = accepted

\* The first request, sent on opening, is in order (try_spawn_syntax_worker_for_doc).
LEMMA InitInOrder == Sy!Init => SyntaxInv
  BY DEF Sy!Init, SyntaxInv, WorkerTyped, Sy!TypeOK, InOrder, NoneLost, Busy, Sy!Idle

\* A request for the document's text, sent or dropped, keeps the order.
LEMMA RequestInOrder ==
  ASSUME SyntaxInv, UNCHANGED <<worker, shown>>,
         text' \in [rev : Nat, len : Lengths], text.rev <= text'.rev,
         lastLen' \in Lengths \cup {-1},
         Sy!RequestParse(text'.rev) \/ Sy!NoRequest
  PROVE  SyntaxInv'
<1> USE DEF SyntaxInv, WorkerTyped, Sy!TypeOK, Busy
<1>1. CASE UNCHANGED <<queue, accepted>>
  <2>1. WorkerTyped'
    BY <1>1 DEF InOrder
  <2>2. InOrder'
    BY <1>1 DEF InOrder
  <2>3. NoneLost'
    BY <1>1 DEF NoneLost
  <2> QED  BY <2>1, <2>2, <2>3
<1>2. CASE queue' = Append(queue, text'.rev) /\ accepted' = text'.rev /\ Len(queue) < QueueSize
  <2>1. /\ queue' \in Seq(Nat)
        /\ Len(queue') = Len(queue) + 1
        /\ queue'[Len(queue) + 1] = text'.rev
        /\ \A i \in 1..Len(queue) : queue'[i] = queue[i]
    BY <1>2
  <2>2. Sy!TypeOK' /\ WorkerTyped'
    BY <1>2, <2>1
  <2>3. InOrder'
    BY <1>2, <2>1 DEF InOrder
  <2>4. NoneLost'
    BY <1>2, <2>1 DEF NoneLost
  <2> QED  BY <2>2, <2>3, <2>4
<1> QED
  BY <1>1, <1>2 DEF Sy!RequestParse, Sy!NoRequest

\* Taking the head of the channel into the worker's hands keeps the order.
LEMMA ReceiveInOrder ==
  ASSUME SyntaxInv, queue # <<>>, queue' = Tail(queue),
         worker' = [at |-> "draining", rev |-> Head(queue)],
         UNCHANGED <<text, lastLen, shown, accepted>>
  PROVE  SyntaxInv'
<1> USE DEF SyntaxInv, WorkerTyped, Sy!TypeOK, Busy
<1>1. /\ queue' \in Seq(Nat)
      /\ Len(queue') = Len(queue) - 1 /\ Len(queue) >= 1
      /\ Head(queue) = queue[1] /\ queue[1] \in Nat
      /\ \A i \in 1..Len(queue') : queue'[i] = queue[i + 1]
  OBVIOUS
<1>2. WorkerTyped'
  BY <1>1
<1>3. InOrder'
  BY <1>1 DEF InOrder
<1>4. NoneLost'
  <2>1. CASE Len(queue) = 1
    BY <1>1, <2>1 DEF NoneLost
  <2>2. CASE Len(queue) > 1
    <3>1. Len(queue') \in 1..Len(queue') /\ Len(queue') + 1 = Len(queue)
      BY <1>1, <2>2
    <3>2. queue'[Len(queue')] = queue[Len(queue)]
      BY <1>1, <3>1
    <3>3. Len(queue') > 0
      BY <3>1
    <3>4. queue[Len(queue)] = accepted
      BY <2>2 DEF NoneLost
    <3> QED  BY <3>2, <3>3, <3>4 DEF NoneLost
  <2> QED  BY <1>1, <2>1, <2>2
<1> QED
  BY <1>2, <1>3, <1>4

\* Every step of the editor and of the worker keeps the order.
LEMMA StepInOrder == SyntaxInv /\ [Sy!EditorStep \/ Sy!WorkerStep]_Sy!vars => SyntaxInv'
<1> SUFFICES ASSUME SyntaxInv, [Sy!EditorStep \/ Sy!WorkerStep]_Sy!vars PROVE SyntaxInv'
  OBVIOUS
<1>0. text \in [rev : Nat, len : Lengths] /\ lastLen \in Lengths \cup {-1}
  BY DEF SyntaxInv, WorkerTyped, Sy!TypeOK
<1>a. Sy!Changed => text' \in [rev : Nat, len : Lengths] /\ text.rev <= text'.rev
  BY <1>0 DEF Sy!Changed
<1>1. CASE Sy!Key
  <2>1. text' \in [rev : Nat, len : Lengths] /\ text.rev <= text'.rev
    BY <1>0, <1>1, <1>a DEF Sy!Key
  <2>2. lastLen' \in Lengths \cup {-1} /\ (Sy!RequestParse(text'.rev) \/ Sy!NoRequest)
    BY <1>0, <1>1, <2>1 DEF Sy!Key, Sy!Refresh
  <2>3. UNCHANGED <<worker, shown>>
    BY <1>1 DEF Sy!Key
  <2> QED  BY <2>1, <2>2, <2>3, RequestInOrder
<1>2. CASE Sy!LspEdit
  BY <1>0, <1>2, <1>a, RequestInOrder DEF Sy!LspEdit
<1>3. CASE Sy!PluginEdit
  BY <1>0, <1>3, <1>a, RequestInOrder DEF Sy!PluginEdit
<1>4. CASE Sy!Receive
  BY <1>4, ReceiveInOrder DEF Sy!Receive
<1>5. CASE Sy!Drain
  <2>1. worker' = [at |-> "draining", rev |-> Head(queue)]
    BY <1>5 DEF Sy!Drain, SyntaxInv, WorkerTyped, Sy!TypeOK
  <2> QED  BY <1>5, <2>1, ReceiveInOrder DEF Sy!Drain
<1>6. CASE Sy!BeginParse
  BY <1>6 DEF Sy!BeginParse, SyntaxInv, WorkerTyped, Sy!TypeOK, InOrder, NoneLost, Busy
<1>7. CASE Sy!Publish
  <2>1. queue' = queue /\ shown' = worker.rev /\ worker' = [at |-> "idle", rev |-> -1]
        /\ UNCHANGED <<text, lastLen, accepted>> /\ worker.rev \in Nat
    BY <1>7 DEF Sy!Publish, Sy!Idle, SyntaxInv, WorkerTyped, Busy
  <2>2. WorkerTyped'
    BY <2>1 DEF SyntaxInv, WorkerTyped, Sy!TypeOK, Busy
  <2>3. InOrder'
    BY <1>7, <2>1 DEF Sy!Publish, SyntaxInv, WorkerTyped, Sy!TypeOK, InOrder, Busy
  <2>4. NoneLost'
    BY <1>7, <2>1 DEF Sy!Publish, SyntaxInv, NoneLost, Busy
  <2> QED  BY <2>2, <2>3, <2>4 DEF SyntaxInv
<1>8. CASE UNCHANGED Sy!vars
  BY <1>8 DEF Sy!vars, SyntaxInv, WorkerTyped, Sy!TypeOK, InOrder, NoneLost, Busy
<1> QED
  BY <1>1, <1>2, <1>3, <1>4, <1>5, <1>6, <1>7, <1>8 DEF Sy!EditorStep, Sy!WorkerStep

\* What is published is at least as new as what was on show.
LEMMA StepForward == SyntaxInv /\ [Sy!EditorStep \/ Sy!WorkerStep]_Sy!vars => [shown <= shown']_Sy!vars
<1> SUFFICES ASSUME SyntaxInv, [Sy!EditorStep \/ Sy!WorkerStep]_Sy!vars PROVE shown <= shown'
  BY DEF Sy!vars
<1>0. shown \in Int
  BY DEF SyntaxInv, WorkerTyped, Sy!TypeOK
<1>1. CASE Sy!Publish
  BY <1>1 DEF Sy!Publish, SyntaxInv, InOrder, Busy
<1>2. CASE UNCHANGED shown
  BY <1>0, <1>2
<1> QED
  BY <1>1, <1>2 DEF Sy!EditorStep, Sy!WorkerStep, Sy!Key, Sy!LspEdit, Sy!PluginEdit,
                    Sy!Receive, Sy!Drain, Sy!BeginParse, Sy!vars

\* The invariant holds in every reachable state.
THEOREM Ordered == Sy!Spec => []SyntaxInv
  BY InitInOrder, StepInOrder, PTL DEF Sy!Spec

\* The state has its types, and the channel never holds more than its capacity.
THEOREM TypeCorrect == Sy!Spec => []Sy!TypeOK
<1>1. SyntaxInv => Sy!TypeOK
  BY DEF SyntaxInv, WorkerTyped
<1> QED
  BY <1>1, Ordered, PTL

\* Highlights never go back to an older text (worker_task).
THEOREM NeverBack == Sy!Spec => Sy!HighlightsNeverGoBack
  BY Ordered, StepForward, PTL DEF Sy!Spec, Sy!HighlightsNeverGoBack

\* When the worker rests, the highlights are those of the last request taken.
THEOREM Settled == Sy!Spec => []SettledIsAccepted
<1>1. SyntaxInv => SettledIsAccepted
  BY DEF SyntaxInv, NoneLost, SettledIsAccepted, Busy
<1> QED
  BY <1>1, Ordered, PTL
=============================================================================
