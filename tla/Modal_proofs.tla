---------------------------- MODULE Modal_proofs ----------------------------
(***************************************************************************)
(* Macros are what was typed, and . repeats the last change, for every     *)
(* keyboard, text, number of keys and depth of replays: proofs about the   *)
(* module Keys.                                                            *)
(***************************************************************************)
EXTENDS Keys, SequenceTheorems, FiniteSetTheorems, TLAPS

-----------------------------------------------------------------------------
\* Tables: what their values are, and which argument alone leads to a value.
Values(f, V) == \A x \in DOMAIN f : f[x] \in V
OnlyOf(f, x0, v0) == \A x \in DOMAIN f : f[x] = v0 => x = x0

\* They are those of the rows.
LEMMA TableRow ==
  ASSUME NEW rows, NEW x \in DOMAIN Table(rows)
  PROVE  \E r \in rows : r[1] = x /\ Table(rows)[x] = r[2]
<1> DEFINE r == CHOOSE r \in rows : r[1] = x
<1>1. \E y \in rows : y[1] = x
  BY DEF Table
<1>2. r \in rows /\ r[1] = x
  BY <1>1
<1>3. Table(rows)[x] = r[2]
  BY <1>1 DEF Table
<1> QED
  BY <1>2, <1>3

\* The values of a table are those its rows give.
LEMMA TableValues ==
  ASSUME NEW rows, NEW V, \A r \in rows : r[2] \in V
  PROVE  Values(Table(rows), V)
BY TableRow DEF Values

\* A value stands in the table where it stands in the rows.
LEMMA TableOnlyOf ==
  ASSUME NEW rows, NEW x0, NEW v0, \A r \in rows : r[2] = v0 => r[1] = x0
  PROVE  OnlyOf(Table(rows), x0, v0)
BY TableRow DEF OnlyOf

-----------------------------------------------------------------------------
\* What the keymap waits for, its states and the actions it completes.
Flags == {"macro", "play", "register", "mark", "jump", "jumpLine", "find", "replace", "opg",
          "inner", "outer", "selectInner", "selectOuter"}
IsKeymap(km) ==
  /\ DOMAIN km = {"prefix", "count", "op", "awaits"}
  /\ km.op \in OperatorNames \cup {None}
  /\ km.awaits \subseteq Flags
  /\ "macro" \in km.awaits => km.awaits = {"macro"}

LeafNames ==
  {"EnterInsert", "EnterInsertAfter", "EnterVisual", "DeleteChar", "Paste", "DotRepeat",
   "JumpOlder", "JumpNewer"} \cup MotionNames \cup OperatorNames
NamedActs == {"StartRecordMacro", "PlayMacro", "SetRegister", "SetMark", "JumpToMark",
              "JumpToMarkLine"}
OperatorActs == {"OperatorMotion", "OperatorTextObj", "OperatorLine", "OperatorSelection"}
PlainActs ==
  {"EnterInsert", "EnterInsertAfter", "EnterVisual", "EnterNormal", "Move", "SelectTextObj",
   "DeleteChar", "ReplaceChar", "Paste", "SwapAnchorHead", "SetRegister", "SetMark",
   "JumpToMark", "JumpToMarkLine", "JumpOlder", "JumpNewer", "PlayMacro", "PlayLastMacro",
   "DotRepeat"}
IsAct(a) ==
  \/ a.do \in PlainActs \cup {"StartRecordMacro"}
  \/ a.do \in OperatorActs /\ a.op \in OperatorNames

\* What process may do about macros: it starts to wait for a name when nothing is pending,
\* on q, and begins a recording when that name comes.
Processed(km, k, r) ==
  /\ IsKeymap(r.km)
  /\ \A a \in r.act :
       /\ IsAct(a)
       /\ a.do = "StartRecordMacro" => "macro" \in km.awaits /\ "macro" \notin r.km.awaits
  /\ "macro" \in r.km.awaits => "macro" \in km.awaits \/ (Char(k) = "q" /\ ~HasPending(km))

\* The tables of the keymap.
LEMMA Tables ==
  /\ Values(Leaves, LeafNames) /\ Values(LeavesOfG, LeafNames)
  /\ Values(Awaiting, Flags) /\ OnlyOf(Awaiting, "q", "macro")
  /\ Values(Named, NamedActs) /\ OnlyOf(Named, "macro", "StartRecordMacro")
  /\ DOMAIN Named = {"macro", "play", "register", "mark", "jump", "jumpLine"}
  /\ OnlyOf(Ctrl, "q", "q")
<1>1. Values(Leaves, LeafNames)
  BY TableValues DEF Leaves, LeafNames, MotionNames, OperatorNames
<1>2. Values(LeavesOfG, LeafNames)
  BY TableValues DEF LeavesOfG, LeafNames, MotionNames, OperatorNames
<1>3. Values(Awaiting, Flags)
  BY TableValues DEF Awaiting, Flags
<1>4. OnlyOf(Awaiting, "q", "macro")
  BY TableOnlyOf DEF Awaiting
<1>5. Values(Named, NamedActs)
  BY TableValues DEF Named, NamedActs
<1>6. OnlyOf(Named, "macro", "StartRecordMacro")
  BY TableOnlyOf DEF Named
<1>7. DOMAIN Named = {"macro", "play", "register", "mark", "jump", "jumpLine"}
  BY DEF Table, Named
<1>8. OnlyOf(Ctrl, "q", "q")
  BY TableOnlyOf DEF Ctrl
<1> QED
  BY <1>1, <1>2, <1>3, <1>4, <1>5, <1>6, <1>7, <1>8

-----------------------------------------------------------------------------
\* The answers of the keymap, one by one.  Nothing matched: the keymap starts afresh.
LEMMA NoMatchIs ==
  ASSUME NEW km, NEW k, IsKeymap(km)
  PROVE  Processed(km, k, NoMatch)
BY DEF NoMatch, Fresh, Processed, IsKeymap, None

\* A key is awaited.
LEMMA AwaitIs ==
  ASSUME NEW km, NEW k, NEW a \in Flags, IsKeymap(km), "macro" \notin km.awaits,
         a = "macro" => km.awaits = {} /\ Char(k) = "q" /\ ~HasPending(km)
  PROVE  Processed(km, k, Await(km, a))
BY DEF Await, NeedMore, Processed, IsKeymap

\* The name of a macro, a register or a mark.
LEMMA NamedByIs ==
  ASSUME NEW km, NEW k, NEW a \in km.awaits \cap DOMAIN Named, IsKeymap(km)
  PROVE  Processed(km, k, NamedBy(km, a, k))
<1> DEFINE rest == [km EXCEPT !.awaits = @ \ {a}]
<1>1. IsKeymap(rest) /\ "macro" \notin rest.awaits
  BY DEF IsKeymap
<1>2. /\ Named[a] \in NamedActs
      /\ Named[a] = "StartRecordMacro" => a = "macro"
  BY Tables DEF Values, OnlyOf
<1> HIDE DEF rest
<1>3. Processed(km, k, Done(rest, Act("PlayLastMacro", None, None, 1)))
  BY <1>1 DEF Done, Act, Processed, IsAct, PlainActs
<1>4. Processed(km, k, Done(rest, Act(Named[a], None, Char(k), 1)))
  BY <1>1, <1>2 DEF Done, Act, Processed, IsAct, PlainActs, NamedActs
<1> QED
  BY <1>3, <1>4, NoMatchIs DEF NamedBy, rest

\* The object, the character to replace with or to find, the second g.
LEMMA ObjectByIs ==
  ASSUME NEW km, NEW k, NEW as, IsKeymap(km), "macro" \notin km.awaits
  PROVE  Processed(km, k, ObjectBy(km, as, k))
<1> DEFINE rest == [km EXCEPT !.awaits = @ \ as, !.op = None, !.count = NoCount]
<1>1. IsKeymap(rest) /\ "macro" \notin rest.awaits
  BY DEF IsKeymap
<1>2. km.op \in OperatorNames \cup {None}
  BY DEF IsKeymap
<1> HIDE DEF rest
<1>3. Processed(km, k, Done(rest, Act("SelectTextObj", None, Char(k), 1)))
  BY <1>1 DEF Done, Act, Processed, IsAct, PlainActs
<1>4. km.op # None =>
        Processed(km, k, Done(rest, Act("OperatorTextObj", km.op, Char(k), CountOf(km))))
  BY <1>1, <1>2 DEF Done, Act, Processed, IsAct, OperatorActs
<1> QED
  BY <1>3, <1>4, NoMatchIs DEF ObjectBy, rest

\* The character r replaces with.
LEMMA ReplacedByIs ==
  ASSUME NEW km, NEW k, IsKeymap(km), "macro" \notin km.awaits
  PROVE  Processed(km, k, ReplacedBy(km, k))
<1> DEFINE rest == [km EXCEPT !.awaits = @ \ {"replace"}, !.count = NoCount]
<1>1. IsKeymap(rest) /\ "macro" \notin rest.awaits
  BY DEF IsKeymap
<1> HIDE DEF rest
<1>3. Processed(km, k, Done(rest, Act("ReplaceChar", None, Char(k), CountOf(km))))
  BY <1>1 DEF Done, Act, Processed, IsAct, PlainActs
<1>4. Processed(km, k, NeedMore(rest))
  BY <1>1 DEF NeedMore, Processed
<1> QED
  BY <1>3, <1>4 DEF ReplacedBy, rest

\* The character f finds.
LEMMA FoundByIs ==
  ASSUME NEW km, NEW k, IsKeymap(km), "macro" \notin km.awaits
  PROVE  Processed(km, k, FoundBy(km, k))
<1> DEFINE rest == [km EXCEPT !.awaits = @ \ {"find"}, !.op = None, !.count = NoCount]
<1>1. IsKeymap(rest) /\ "macro" \notin rest.awaits
  BY DEF IsKeymap
<1>2. km.op \in OperatorNames \cup {None}
  BY DEF IsKeymap
<1> HIDE DEF rest
<1>3. Processed(km, k, Done(rest, Act("Move", None, "FindChar", CountOf(km))))
  BY <1>1 DEF Done, Act, Processed, IsAct, PlainActs
<1>4. km.op # None =>
        Processed(km, k, Done(rest, Act("OperatorMotion", km.op, "FindChar", CountOf(km))))
  BY <1>1, <1>2 DEF Done, Act, Processed, IsAct, OperatorActs
<1> QED
  BY <1>3, <1>4, NoMatchIs DEF FoundBy, rest

\* The second g, under an operator.
LEMMA SecondGIs ==
  ASSUME NEW km, NEW k, IsKeymap(km), "macro" \notin km.awaits
  PROVE  Processed(km, k, SecondG(km, k))
<1> DEFINE rest == [km EXCEPT !.awaits = @ \ {"opg"}, !.op = None, !.count = NoCount]
<1>1. IsKeymap(rest) /\ "macro" \notin rest.awaits
  BY DEF IsKeymap
<1>2. km.op \in OperatorNames \cup {None}
  BY DEF IsKeymap
<1> HIDE DEF rest
<1>4. km.op # None =>
        Processed(km, k, Done(rest, Act("OperatorMotion", km.op, "DocumentStart", CountOf(km))))
  BY <1>1, <1>2 DEF Done, Act, Processed, IsAct, OperatorActs
<1> QED
  BY <1>4, NoMatchIs DEF SecondG, rest

\* A key under an operator.
LEMMA UnderOperatorIs ==
  ASSUME NEW km, NEW k, IsKeymap(km), "macro" \notin km.awaits, km.op # None
  PROVE  Processed(km, k, UnderOperator(km, k))
<1> DEFINE rest == [km EXCEPT !.op = None, !.count = NoCount]
<1>1. IsKeymap(rest) /\ "macro" \notin rest.awaits
  BY DEF IsKeymap
<1>2. km.op \in OperatorNames
  BY DEF IsKeymap
<1> HIDE DEF rest
<1>3. Processed(km, k, Done(rest, Act("OperatorLine", km.op, None, CountOf(km))))
  BY <1>1, <1>2 DEF Done, Act, Processed, IsAct, OperatorActs
<1>4. Processed(km, k, Done(rest,
        Act("OperatorMotion", km.op, OperatorMotions[Char(k)], CountOf(km))))
  BY <1>1, <1>2 DEF Done, Act, Processed, IsAct, OperatorActs
<1>5. \A a \in {"inner", "outer", "find", "opg"} : Processed(km, k, Await(km, a))
  BY AwaitIs DEF Flags
<1> QED
  BY <1>3, <1>4, <1>5, NoMatchIs DEF UnderOperator, rest

\* A leaf of the trie.
LEMMA LeafIs ==
  ASSUME NEW km, NEW k, NEW name \in LeafNames, NEW mode, IsKeymap(km), "macro" \notin km.awaits
  PROVE  Processed(km, k, Leaf(km, name, mode))
<1> DEFINE rest == [km EXCEPT !.prefix = <<>>, !.count = NoCount]
           deeper == [km EXCEPT !.prefix = <<>>, !.op = name]
<1>1. IsKeymap(rest) /\ "macro" \notin rest.awaits
  BY DEF IsKeymap
<1>2. name \in OperatorNames => IsKeymap(deeper) /\ "macro" \notin deeper.awaits
  BY DEF IsKeymap
<1> HIDE DEF rest, deeper
<1>3. name \in OperatorNames =>
        Processed(km, k, Done(rest, Act("OperatorSelection", name, None, CountOf(km))))
  BY <1>1 DEF Done, Act, Processed, IsAct, OperatorActs
<1>4. name \in OperatorNames => Processed(km, k, NeedMore(deeper))
  BY <1>2 DEF NeedMore, Processed
<1>5. Processed(km, k, Done(rest, Act("Move", None, name, CountOf(km))))
  BY <1>1 DEF Done, Act, Processed, IsAct, PlainActs
<1>6. name \notin OperatorNames \cup MotionNames =>
        Processed(km, k, Done(rest, Act(name, None, None, CountOf(km))))
  BY <1>1 DEF Done, Act, Processed, IsAct, PlainActs, LeafNames
<1>7. \/ Leaf(km, name, mode) = Done(rest, Act("OperatorSelection", name, None, CountOf(km)))
         /\ name \in OperatorNames
      \/ Leaf(km, name, mode) = NeedMore(deeper) /\ name \in OperatorNames
      \/ Leaf(km, name, mode) = Done(rest, Act("Move", None, name, CountOf(km)))
      \/ Leaf(km, name, mode) = Done(rest, Act(name, None, None, CountOf(km)))
         /\ name \notin OperatorNames \cup MotionNames
  BY DEF Leaf, rest, deeper, OperatorNames, MotionNames
<1> QED
  BY <1>3, <1>4, <1>5, <1>6, <1>7

\* A key in the trie.
LEMMA InTrieIs ==
  ASSUME NEW km, NEW k, NEW mode, IsKeymap(km), "macro" \notin km.awaits
  PROVE  Processed(km, k, InTrie(km, k, mode))
<1> DEFINE deeper == [km EXCEPT !.prefix = <<k>>]
           rest == [km EXCEPT !.count = NoCount]
<1>1. /\ IsKeymap(rest) /\ "macro" \notin rest.awaits
      /\ IsKeymap(deeper) /\ "macro" \notin deeper.awaits
  BY DEF IsKeymap
<1> HIDE DEF rest, deeper
<1>2. Processed(km, k, NeedMore(deeper))
  BY <1>1 DEF NeedMore, Processed
<1>3. Processed(km, k, Done(rest, Act("SwapAnchorHead", None, None, CountOf(km))))
  BY <1>1 DEF Done, Act, Processed, IsAct, PlainActs
<1>4. k \in DOMAIN Leaves => Processed(km, k, Leaf(km, Leaves[k], mode))
  BY Tables, LeafIs DEF Values
<1>5. k \in DOMAIN LeavesOfG => Processed(km, k, Leaf(km, LeavesOfG[k], mode))
  BY Tables, LeafIs DEF Values
<1> QED
  BY <1>2, <1>3, <1>4, <1>5, NoMatchIs DEF InTrie, rest, deeper

\* A key, whatever was awaited.
LEMMA ProcessIs ==
  ASSUME NEW km, NEW k, NEW mode, IsKeymap(km)
  PROVE  Processed(km, k, Process(km, k, mode))
<1> DEFINE named == km.awaits \cap DOMAIN Named
           objects == {"inner", "outer"} \cap km.awaits
           selects == {"selectInner", "selectOuter"} \cap km.awaits
           bare == [km EXCEPT !.op = None]
           counted == [km EXCEPT !.count =
                         (IF @ = NoCount THEN 0 ELSE @ * 10) + Digit[Char(k)]]
<1>1. Processed(km, k, NeedMore(Fresh))
  BY DEF NeedMore, Fresh, Processed, IsKeymap, None
<1>2. Processed(km, k, Done(Fresh, Act("EnterNormal", None, None, 1)))
  BY DEF Done, Act, Fresh, Processed, IsKeymap, IsAct, PlainActs, None
<1>3. named # {} => Processed(km, k, NamedBy(km, CHOOSE a \in named : TRUE, k))
  BY NamedByIs
<1>4. named = {} => "macro" \notin km.awaits
  BY Tables
<1>5. named = {} => Processed(km, k, ObjectBy(km, objects, k))
  BY <1>4, ObjectByIs
<1>6. named = {} => Processed(km, k, ObjectBy(bare, selects, k))
  <2>1. IsKeymap(bare) /\ bare.awaits = km.awaits
    BY DEF IsKeymap
  <2>2. ASSUME named = {}
        PROVE  Processed(bare, k, ObjectBy(bare, selects, k))
    BY <2>1, <2>2, <1>4, ObjectByIs
  <2>3. ASSUME named = {}
        PROVE  "macro" \notin ObjectBy(bare, selects, k).km.awaits
    <3> HIDE DEF bare, selects
    <3> QED
      BY <2>1, <2>3, <1>4 DEF ObjectBy, NoMatch, Done, Fresh, IsKeymap
  <2> QED
    BY <2>1, <2>2, <2>3 DEF Processed
<1>7. named = {} => \A a \in {"selectInner", "selectOuter"} : Processed(km, k, Await(km, a))
  BY <1>4, AwaitIs DEF Flags
<1>8. named = {} => Processed(km, k, ReplacedBy(km, k)) /\ Processed(km, k, FoundBy(km, k))
  BY <1>4, ReplacedByIs, FoundByIs
<1>9. named = {} => Processed(km, k, NeedMore(counted))
  BY <1>4 DEF NeedMore, Processed, IsKeymap
<1>10. named = {} => Processed(km, k, SecondG(km, k)) /\ Processed(km, k, InTrie(km, k, mode))
  BY <1>4, SecondGIs, InTrieIs
<1>11. named = {} /\ km.op # None => Processed(km, k, UnderOperator(km, k))
  BY <1>4, UnderOperatorIs
<1>12. ASSUME named = {}, objects = {}, selects = {}, "replace" \notin km.awaits,
              "find" \notin km.awaits, "opg" \notin km.awaits, km.op = None,
              StartsAwaiting(km, k)
       PROVE  Processed(km, k, Await(km, Awaiting[Char(k)]))
  <2>1. km.awaits = {}
    BY <1>12, Tables DEF Flags, IsKeymap
  <2>2. ~HasPending(km)
    BY <1>12, <2>1 DEF HasPending, StartsAwaiting
  <2>3. Awaiting[Char(k)] \in Flags /\ (Awaiting[Char(k)] = "macro" => Char(k) = "q")
    BY <1>12, Tables DEF StartsAwaiting, Values, OnlyOf
  <2> QED
    BY <2>1, <2>2, <2>3, AwaitIs
<1> QED
  BY <1>1, <1>2, <1>3, <1>5, <1>6, <1>7, <1>8, <1>9, <1>10, <1>11, <1>12 DEF Process

-----------------------------------------------------------------------------
\* The App, and two of its states with the same recorder and keymap.
Fields ==
  {"mode", "km", "len", "pos", "anchor", "rev", "register", "marks", "jumps", "recording",
   "current", "macros", "lastChange", "change", "lastMacro", "dotReplaying",
   "dotJustReplayed", "stack", "calls"}
SameRecorder(s, t) ==
  /\ DOMAIN t = DOMAIN s
  /\ t.recording = s.recording /\ t.current = s.current /\ t.macros = s.macros
  /\ t.km = s.km

\* Two of its states with the same command in progress as well, and the same mode.
SameCommand(s, t) ==
  /\ SameRecorder(s, t)
  /\ t.change = s.change /\ t.lastChange = s.lastChange
  /\ t.dotReplaying = s.dotReplaying /\ t.dotJustReplayed = s.dotJustReplayed
  /\ t.stack = s.stack /\ t.calls = s.calls
SameText(s, t) == SameCommand(s, t) /\ t.mode = s.mode

\* No command on the text touches these.  The cursor moves.
LEMMA AtKeeps ==
  ASSUME NEW s, NEW p, DOMAIN s = Fields
  PROVE  SameText(s, At(s, p))
BY DEF SameText, SameCommand, SameRecorder, At, Fields

\* Text is cut.
LEMMA CutKeeps ==
  ASSUME NEW s, NEW from, NEW to, DOMAIN s = Fields
  PROVE  SameText(s, Cut(s, from, to))
<1> DEFINE p == Least(from, SatMinus(s.len - (to - from), 1))
<1>1. SameText(s, At(s, p))
  BY AtKeeps
<1>2. SameText(At(s, p), [At(s, p) EXCEPT !.len = @ - (to - from), !.rev = @ + 1])
  BY <1>1 DEF SameText, SameCommand, SameRecorder, Fields
<1> QED
  BY <1>1, <1>2 DEF Cut, SameText, SameCommand, SameRecorder

\* Text grows.
LEMMA GrownKeeps ==
  ASSUME NEW s, NEW n, DOMAIN s = Fields
  PROVE  SameText(s, Grown(s, n))
BY DEF SameText, SameCommand, SameRecorder, Grown, Fields

\* An operator on characters or lines: only c enters insert mode.
Operated(s, op, t) == SameCommand(s, t) /\ (t.mode = s.mode \/ (op = "Change" /\ t.mode = "Insert"))

\* It does nothing else to the command in progress.
LEMMA OperateKeeps ==
  ASSUME NEW s, NEW op \in OperatorNames, NEW lo, NEW hi, NEW linewise, DOMAIN s = Fields
  PROVE  Operated(s, op, Operate(s, op, lo, hi, linewise))
<1> DEFINE from == IF linewise THEN 0 ELSE Least(lo, s.len)
           to == IF linewise THEN s.len ELSE Least(hi + 1, s.len)
           whole == Cut(s, from, to)
           cut == [whole EXCEPT !.register = None]
           changed == [cut EXCEPT !.mode = "Insert"]
           indented == At(Grown(s, 1), Least(s.pos + 1, s.len))
           lowered == [At(s, from) EXCEPT !.rev = @ + 1]
           yanked == [s EXCEPT !.register = None]
<1>1. SameText(s, whole)
  BY CutKeeps
<1>2. SameText(s, cut) /\ SameCommand(s, changed) /\ changed.mode = "Insert"
  <2> HIDE DEF whole
  <2> QED
    BY <1>1 DEF SameText, SameCommand, SameRecorder, Fields
<1>3. SameText(s, indented)
  BY GrownKeeps, AtKeeps DEF SameText, SameCommand, SameRecorder
<1>4. SameText(s, lowered)
  <2>1. SameText(s, At(s, from))
    BY AtKeeps
  <2> QED
    BY <2>1 DEF SameText, SameCommand, SameRecorder, Fields
<1>5. SameText(s, yanked) /\ SameText(s, s)
  BY DEF SameText, SameCommand, SameRecorder, Fields
<1>6. /\ Operate(s, op, lo, hi, linewise) \in {yanked, cut, changed, indented, lowered, s}
      /\ op # "Change" => Operate(s, op, lo, hi, linewise) \in {yanked, cut, indented, lowered, s}
  <2> HIDE DEF whole
  <2>1. CASE op = "Yank"
    BY <2>1 DEF Operate
  <2>2. CASE op = "Delete"
    BY <2>2 DEF Operate, whole
  <2>3. CASE op = "Change"
    BY <2>3 DEF Operate, whole
  <2>4. CASE op = "Indent"
    BY <2>4 DEF Operate
  <2>5. CASE op = "Lowercase"
    BY <2>5 DEF Operate
  <2> QED
    BY <2>1, <2>2, <2>3, <2>4, <2>5 DEF OperatorNames
<1> HIDE DEF yanked, cut, changed, indented, lowered
<1> QED
  BY <1>2, <1>3, <1>4, <1>5, <1>6 DEF Operated, SameText

\* A motion.
LEMMA MoveKeeps ==
  ASSUME NEW s, NEW motion, NEW n, DOMAIN s = Fields
  PROVE  SameText(s, MoveCursor(s, motion, n))
<1> DEFINE jumped == IF motion \in Far THEN [s EXCEPT !.jumps = PushJump(@, s.pos)] ELSE s
           a == IF s.mode \in Visual THEN jumped.anchor ELSE Target(s, motion, n)
           moved == [jumped EXCEPT !.pos = Target(s, motion, n), !.anchor = a]
<1>1. SameText(s, jumped)
  BY DEF SameText, SameCommand, SameRecorder, Fields
<1>2. SameText(jumped, moved)
  BY <1>1 DEF SameText, SameCommand, SameRecorder, Fields
<1>3. SameText(s, moved)
  BY <1>1, <1>2 DEF SameText, SameCommand, SameRecorder
<1>4. moved = MoveCursor(s, motion, n)
  BY DEF MoveCursor
<1> QED
  BY <1>3, <1>4

\* An operator with a motion (dw, cf).
LEMMA OperatorMotionKeeps ==
  ASSUME NEW s, NEW op \in OperatorNames, NEW motion, NEW n, DOMAIN s = Fields
  PROVE  Operated(s, op, OperatorMotion(s, op, motion, n))
<1>1. \A lo, hi, linewise : Operated(s, op, Operate(s, op, lo, hi, linewise))
  BY OperateKeeps
<1>2. Operated(s, op, s)
  BY DEF Operated, SameCommand, SameRecorder
<1> QED
  BY <1>1, <1>2 DEF OperatorMotion

\* An operator with a text object (diw).
LEMMA OperatorTextObjKeeps ==
  ASSUME NEW s, NEW op \in OperatorNames, NEW o, DOMAIN s = Fields
  PROVE  Operated(s, op, OperatorTextObj(s, op, o))
<1>1. Operated(s, op, Operate(s, op, 0, s.len, op = "Indent"))
  BY OperateKeeps
<1>2. Operated(s, op, s)
  BY DEF Operated, SameCommand, SameRecorder
<1> QED
  BY <1>1, <1>2 DEF OperatorTextObj

\* x.
LEMMA DeleteCharKeeps ==
  ASSUME NEW s, NEW n, DOMAIN s = Fields
  PROVE  SameText(s, DeleteChar(s, n))
<1> DEFINE p == Least(s.pos, SatMinus(SatMinus(s.len, n), 1))
<1>1. SameText(s, At(s, p))
  BY AtKeeps
<1>2. SameText(At(s, p), [At(s, p) EXCEPT !.len = SatMinus(@, n), !.rev = @ + Least(n, s.len)])
  BY <1>1 DEF SameText, SameCommand, SameRecorder, Fields
<1> QED
  BY <1>1, <1>2 DEF DeleteChar, SameText, SameCommand, SameRecorder

\* A jump.
LEMMA JumpToKeeps ==
  ASSUME NEW s, NEW p, DOMAIN s = Fields
  PROVE  SameText(s, JumpTo(s, p))
<1>1. SameText(s, s)
  BY DEF SameText, SameCommand, SameRecorder
<1> QED
  BY <1>1, AtKeeps DEF JumpTo

\* A jump to a mark.
LEMMA JumpToMarkKeeps ==
  ASSUME NEW s, NEW m, NEW line, DOMAIN s = Fields
  PROVE  SameText(s, JumpToMark(s, m, line))
<1> DEFINE jumped == [s EXCEPT !.jumps = PushJump(@, s.pos)]
<1>1. SameText(s, jumped)
  BY DEF SameText, SameCommand, SameRecorder, Fields
<1> HIDE DEF jumped
<1>2. \A p : SameText(jumped, At(jumped, p))
  BY <1>1, AtKeeps DEF SameText, SameCommand, SameRecorder
<1>3. \A p : SameText(s, At(jumped, p))
  BY <1>1, <1>2 DEF SameText, SameCommand, SameRecorder
<1>4. SameText(s, s)
  BY DEF SameText, SameCommand, SameRecorder
<1> QED
  BY <1>3, <1>4 DEF JumpToMark, jumped

\* The call of a replay.
LEMMA CallKeeps ==
  ASSUME NEW s, NEW kind, NEW keys, DOMAIN s = Fields
  PROVE  SameRecorder(s, Call(s, kind, keys))
BY DEF SameRecorder, Call, Fields

\* @, @@ and the dot.
LEMMA PlaysKeep ==
  ASSUME NEW s, NEW c, DOMAIN s = Fields
  PROVE  /\ SameRecorder(s, PlayMacro(s, c))
         /\ SameRecorder(s, PlayLast(s)) /\ SameRecorder(s, DotRepeat(s))
<1> DEFINE named == [s EXCEPT !.lastMacro = c]
           dotted == [s EXCEPT !.dotReplaying = TRUE]
<1>1. SameRecorder(s, named) /\ SameRecorder(s, dotted)
  BY DEF SameRecorder, Fields
<1>2. SameRecorder(s, s)
  BY DEF SameRecorder
<1> HIDE DEF named, dotted
<1>3. \A kind, keys : SameRecorder(s, Call(s, kind, keys))
  BY CallKeeps
<1>4. \A kind, keys : SameRecorder(s, Call(named, kind, keys))
  BY <1>1, CallKeeps DEF SameRecorder
<1>5. \A kind, keys : SameRecorder(s, Call(dotted, kind, keys))
  BY <1>1, CallKeeps DEF SameRecorder
<1>6. SameRecorder(s, PlayMacro(s, c))
  BY <1>2, <1>4 DEF PlayMacro, named
<1>7. SameRecorder(s, PlayLast(s))
  BY <1>2, <1>3 DEF PlayLast
<1>8. SameRecorder(s, DotRepeat(s))
  BY <1>2, <1>5 DEF DotRepeat, dotted
<1> QED
  BY <1>6, <1>7, <1>8

\* The mode n after an action in the mode m.
Plays == {"PlayMacro", "PlayLastMacro", "DotRepeat"}
EntersInsert == {"EnterInsert", "EnterInsertAfter"}
EntersNormal == {"EnterNormal", "OperatorSelection"}
ModeAfter(m, a, n) ==
  /\ a.do \in EntersInsert => n = "Insert"
  /\ a.do \in EntersNormal => n = "Normal"
  /\ a.do = "EnterVisual" => n = "Visual"
  /\ a.do \in OperatorActs \ EntersNormal => n = m \/ (a.op = "Change" /\ n = "Insert")
  /\ a.do \notin EntersInsert \cup EntersNormal \cup OperatorActs \cup {"EnterVisual"} => n = m

\* Of the actions a key completes, those on the text touch neither recorder nor command.
LEMMA TextActsKeep ==
  ASSUME NEW s, NEW a, DOMAIN s = Fields, IsAct(a), a.do \notin Plays \cup {"StartRecordMacro"}
  PROVE  SameCommand(s, Execute(s, a)) /\ ModeAfter(s.mode, a, Execute(s, a).mode)
<1> USE DEF Plays, EntersInsert, EntersNormal, ModeAfter
<1>1. CASE a.do = "EnterInsert"
  <2>1. Execute(s, a) = [At(s, s.pos) EXCEPT !.mode = "Insert"]
    BY <1>1 DEF Execute
  <2> QED
    BY <1>1, <2>1, AtKeeps DEF SameText, SameCommand, SameRecorder, OperatorActs, Fields
<1>2. CASE a.do = "EnterInsertAfter"
  <2>1. Execute(s, a) = [At(s, Least(s.pos + 1, s.len)) EXCEPT !.mode = "Insert"]
    BY <1>2 DEF Execute
  <2> QED
    BY <1>2, <2>1, AtKeeps DEF SameText, SameCommand, SameRecorder, OperatorActs, Fields
<1>3. CASE a.do = "EnterVisual"
  <2>1. Execute(s, a) = [s EXCEPT !.mode = "Visual"]
    BY <1>3 DEF Execute
  <2> QED
    BY <1>3, <2>1 DEF SameText, SameCommand, SameRecorder, OperatorActs, Fields
<1>4. CASE a.do = "EnterNormal"
  <2>1. Execute(s, a) = [At(s, s.pos) EXCEPT !.mode = "Normal"]
    BY <1>4 DEF Execute
  <2> QED
    BY <1>4, <2>1, AtKeeps DEF SameText, SameCommand, SameRecorder, OperatorActs, Fields
<1>5. CASE a.do = "Move"
  <2>1. Execute(s, a) = MoveCursor(s, a.arg, a.n)
    BY <1>5 DEF Execute
  <2> QED
    BY <1>5, <2>1, MoveKeeps DEF SameText, OperatorActs
<1>6. CASE a.do \in OperatorActs
  <2>1. a.op \in OperatorNames
    BY <1>6 DEF IsAct, PlainActs, OperatorActs
  <2>2. CASE a.do = "OperatorMotion"
    <3>1. Execute(s, a) = OperatorMotion(s, a.op, a.arg, a.n)
      BY <2>2 DEF Execute
    <3> QED
      BY <2>2, <2>1, <3>1, OperatorMotionKeeps DEF Operated, OperatorActs
  <2>3. CASE a.do = "OperatorTextObj"
    <3>1. Execute(s, a) = OperatorTextObj(s, a.op, a.arg)
      BY <2>3 DEF Execute
    <3> QED
      BY <2>3, <2>1, <3>1, OperatorTextObjKeeps DEF Operated, OperatorActs
  <2>4. CASE a.do = "OperatorLine"
    <3>1. Execute(s, a) = Operate(s, a.op, s.pos, s.pos, TRUE)
      BY <2>4 DEF Execute
    <3>2. Operated(s, a.op, Operate(s, a.op, s.pos, s.pos, TRUE))
      BY <2>1, OperateKeeps
    <3> QED
      BY <2>4, <3>1, <3>2 DEF Operated, OperatorActs
  <2>5. CASE a.do = "OperatorSelection"
    <3> DEFINE done ==
                 Operate(s, a.op, Least(s.anchor, s.pos), Hi(s.anchor, s.pos), a.op = "Indent")
    <3>1. Execute(s, a) = [done EXCEPT !.mode = "Normal"]
      BY <2>5 DEF Execute
    <3>2. SameCommand(s, done)
      BY <2>1, OperateKeeps DEF Operated
    <3> HIDE DEF done
    <3> QED
      BY <2>5, <3>1, <3>2 DEF SameText, SameCommand, SameRecorder, OperatorActs, Fields
  <2> QED
    BY <1>6, <2>2, <2>3, <2>4, <2>5 DEF OperatorActs
<1>7. CASE a.do = "SelectTextObj"
  <2>1. Execute(s, a) = IF a.arg \in {"w", "p"} /\ s.pos < s.len
                        THEN [s EXCEPT !.anchor = 0, !.pos = s.len] ELSE s
    BY <1>7 DEF Execute
  <2> QED
    BY <1>7, <2>1 DEF SameText, SameCommand, SameRecorder, OperatorActs, Fields
<1>8. CASE a.do = "DeleteChar"
  <2>1. Execute(s, a) = DeleteChar(s, a.n)
    BY <1>8 DEF Execute
  <2> QED
    BY <1>8, <2>1, DeleteCharKeeps DEF SameText, OperatorActs
<1>9. CASE a.do = "ReplaceChar"
  <2>1. Execute(s, a) = IF s.pos < s.len THEN [s EXCEPT !.rev = @ + 1] ELSE s
    BY <1>9 DEF Execute
  <2> QED
    BY <1>9, <2>1 DEF SameText, SameCommand, SameRecorder, OperatorActs, Fields
<1>10. CASE a.do = "Paste"
  <2> DEFINE taken == [s EXCEPT !.register = None]
             pasted == [Grown(taken, 1) EXCEPT !.anchor = s.pos]
  <2>1. Execute(s, a) = IF s.register = "_" THEN taken ELSE pasted
    BY <1>10 DEF Execute
  <2>2. SameText(s, taken)
    BY DEF SameText, SameCommand, SameRecorder, OperatorActs, Fields
  <2>3. SameText(taken, Grown(taken, 1))
    BY <2>2, GrownKeeps DEF SameText, SameCommand, SameRecorder
  <2>4. SameText(s, pasted)
    <3> HIDE DEF taken
    <3> QED
      BY <2>2, <2>3 DEF SameText, SameCommand, SameRecorder, OperatorActs, Fields
  <2> QED
    BY <1>10, <2>1, <2>2, <2>4 DEF SameText, OperatorActs
<1>11. CASE a.do = "SwapAnchorHead"
  <2>1. Execute(s, a) = [s EXCEPT !.pos = s.anchor, !.anchor = s.pos]
    BY <1>11 DEF Execute
  <2> QED
    BY <1>11, <2>1 DEF SameText, SameCommand, SameRecorder, OperatorActs, Fields
<1>12. CASE a.do = "SetRegister"
  <2>1. Execute(s, a) = [s EXCEPT !.register = a.arg]
    BY <1>12 DEF Execute
  <2> QED
    BY <1>12, <2>1 DEF SameText, SameCommand, SameRecorder, OperatorActs, Fields
<1>13. CASE a.do = "SetMark"
  <2>1. Execute(s, a) = [s EXCEPT !.marks = With(@, a.arg, s.pos)]
    BY <1>13 DEF Execute
  <2> QED
    BY <1>13, <2>1 DEF SameText, SameCommand, SameRecorder, OperatorActs, Fields
<1>14. CASE a.do \in {"JumpToMark", "JumpToMarkLine"}
  <2>1. \E line : Execute(s, a) = JumpToMark(s, a.arg, line)
    <3>1. CASE a.do = "JumpToMark"
      BY <3>1 DEF Execute
    <3>2. CASE a.do = "JumpToMarkLine"
      BY <3>2 DEF Execute
    <3> QED
      BY <1>14, <3>1, <3>2
  <2> QED
    BY <1>14, <2>1, JumpToMarkKeeps DEF SameText, OperatorActs
<1>15. CASE a.do \in {"JumpOlder", "JumpNewer"}
  <2>1. \E j, p : Execute(s, a) = JumpTo([s EXCEPT !.jumps = j], p)
    <3>1. CASE a.do = "JumpOlder"
      BY <3>1 DEF Execute
    <3>2. CASE a.do = "JumpNewer"
      BY <3>2 DEF Execute
    <3> QED
      BY <1>15, <3>1, <3>2
  <2>2. PICK j, p : Execute(s, a) = JumpTo([s EXCEPT !.jumps = j], p)
    BY <2>1
  <2> DEFINE t == [s EXCEPT !.jumps = j]
  <2>3. SameText(s, t)
    BY DEF SameText, SameCommand, SameRecorder, OperatorActs, Fields
  <2> HIDE DEF t
  <2>4. SameText(t, JumpTo(t, p))
    BY <2>3, JumpToKeeps DEF SameText, SameCommand, SameRecorder
  <2>5. SameText(s, JumpTo(t, p))
    BY <2>3, <2>4 DEF SameText, SameCommand, SameRecorder
  <2> QED
    BY <1>15, <2>2, <2>5 DEF t, SameText, OperatorActs
<1> QED
  BY <1>1, <1>2, <1>3, <1>4, <1>5, <1>6, <1>7, <1>8, <1>9, <1>10, <1>11, <1>12, <1>13, <1>14, <1>15
  DEF IsAct, PlainActs

\* StartRecordMacro alone touches the recorder.
LEMMA ExecuteKeeps ==
  ASSUME NEW s, NEW a, DOMAIN s = Fields, IsAct(a), a.do # "StartRecordMacro"
  PROVE  SameRecorder(s, Execute(s, a))
<1>1. CASE a.do \in Plays
  <2>1. Execute(s, a) \in {PlayMacro(s, a.arg), PlayLast(s), DotRepeat(s)}
    <3>1. CASE a.do = "PlayMacro"
      BY <3>1 DEF Execute
    <3>2. CASE a.do = "PlayLastMacro"
      BY <3>2 DEF Execute
    <3>3. CASE a.do = "DotRepeat"
      BY <3>3 DEF Execute
    <3> QED
      BY <1>1, <3>1, <3>2, <3>3 DEF Plays
  <2> QED
    BY <2>1, PlaysKeep
<1> QED
  BY <1>1, TextActsKeep DEF SameCommand

-----------------------------------------------------------------------------
\* What is recorded: a sequence of keys, and no name of a macro is awaited meanwhile (q
\* would stop the recording).
IsSequence(c) == c \in Seq({c[i] : i \in DOMAIN c})
Recorder(s) ==
  /\ DOMAIN s = Fields
  /\ IsKeymap(s.km)
  /\ IsSequence(s.current)
  /\ "macro" \in s.km.awaits => s.recording = None

\* A recording goes on, starts or stops, the macro being what was recorded.
GoesOn(s, t, c) == t.recording = s.recording /\ t.current = c
Starts(s, t) == s.recording = None /\ t.current = <<>>
Stops(s, t, c) ==
  s.recording # None /\ t.recording = None /\ t.macros[s.recording] = c

\* One more key makes a longer sequence, and without it the sequence is the old one.
LEMMA OneMoreKey ==
  ASSUME NEW c, NEW k, IsSequence(c)
  PROVE  IsSequence(Append(c, k)) /\ Front(Append(c, k)) = c
<1> DEFINE S == {c[i] : i \in DOMAIN c}
           d == Append(c, k)
<1>1. c \in Seq(S \cup {k})
  BY SeqMonotonic DEF IsSequence
<1>2. /\ d \in Seq(S \cup {k}) /\ Len(d) = Len(c) + 1 /\ Len(c) \in Nat
      /\ \A i \in 1..Len(c) : d[i] = c[i]
  BY <1>1, AppendProperties, LenProperties
<1>3. DOMAIN d = 1..Len(d)
  BY <1>2, LenProperties
<1>4. IsSequence(d)
  <2> DEFINE T == {d[i] : i \in DOMAIN d}
  <2> HIDE DEF d, S
  <2>1. d \in [1..Len(d) -> S \cup {k}]
    BY <1>2, LenProperties
  <2>2. d \in [1..Len(d) -> T]
    BY <2>1
  <2>3. d \in Seq(T)
    <3> HIDE DEF T
    <3> QED
      BY <1>2, <2>2, SeqDef
  <2> QED
    BY <2>3 DEF IsSequence
<1>5. Front(d) = c
  <2> HIDE DEF d, S
  <2>1. Front(d) = SubSeq(d, 1, Len(c))
    BY <1>2 DEF Front
  <2>2. \A i \in 1..Len(c) : d[i] \in S \cup {k}
    BY <1>2, <1>3, ElementOfSeq
  <2>3. SubSeq(d, 1, Len(c)) \in Seq(S \cup {k})
    BY <1>2, <2>2, SubSeqProperties
  <2>4. /\ Len(SubSeq(d, 1, Len(c))) = Len(c)
        /\ \A i \in 1..Len(c) : SubSeq(d, 1, Len(c))[i] = d[i]
    BY <1>2, <2>2, SubSeqProperties
  <2> QED
    BY <1>1, <1>2, <2>1, <2>3, <2>4, SeqEqual
<1> QED
  BY <1>4, <1>5

\* The empty sequence is one.
LEMMA NoKeys == IsSequence(<<>>)
BY DEF IsSequence

\* A key in insert mode.
LEMMA InsertKeyIs ==
  ASSUME NEW s, NEW k, Recorder(s)
  PROVE  Recorder(InsertKey(s, k)) /\ GoesOn(s, InsertKey(s, k), s.current)
<1> DEFINE back == At(s, SatMinus(s.pos, 1))
           left == [back EXCEPT !.mode = "Normal", !.km = Fresh]
           typed == At(Grown(s, 1), s.pos + 1)
<1>1. DOMAIN s = Fields
  BY DEF Recorder
<1>2. Recorder(left) /\ GoesOn(s, left, s.current)
  <2>1. SameText(s, back)
    BY <1>1, AtKeeps
  <2> HIDE DEF back
  <2>2. /\ DOMAIN left = Fields /\ left.km = Fresh
        /\ left.recording = s.recording /\ left.current = s.current
    BY <1>1, <2>1 DEF SameText, SameCommand, SameRecorder, Fields
  <2>3. IsKeymap(Fresh) /\ "macro" \notin Fresh.awaits
    BY DEF Fresh, IsKeymap, None
  <2> HIDE DEF left
  <2> QED
    BY <2>2, <2>3 DEF Recorder, GoesOn
<1>3. Recorder(typed) /\ GoesOn(s, typed, s.current)
  <2>1. SameText(s, Grown(s, 1))
    BY <1>1, GrownKeeps
  <2>2. SameText(s, typed)
    BY <1>1, <2>1, AtKeeps DEF SameText, SameCommand, SameRecorder
  <2> HIDE DEF typed
  <2> QED
    BY <2>2 DEF SameText, SameCommand, SameRecorder, Recorder, GoesOn
<1>4. InsertKey(s, k) \in {left, typed, s}
  BY DEF InsertKey, IsChar
<1> QED
  BY <1>2, <1>3, <1>4 DEF GoesOn

\* q stops a recording.
LEMMA StopIs ==
  ASSUME NEW s, NEW c, NEW k,
         Recorder(s), s.recording # None, IsSequence(c), s.current = Append(c, k)
  PROVE  LET t == StopWithQ(WithoutTheQ(s)) IN Recorder(t) /\ Stops(s, t, c)
<1> DEFINE u == WithoutTheQ(s)
           t == StopWithQ(u)
<1>1. /\ DOMAIN u = Fields /\ u.recording = s.recording /\ u.km = s.km /\ u.macros = s.macros
      /\ u.current = c
  BY OneMoreKey DEF WithoutTheQ, Recorder, Fields
<1> HIDE DEF u
<1>2. /\ DOMAIN t = Fields /\ t.recording = None /\ t.km = s.km /\ t.current = <<>>
      /\ t.macros = With(s.macros, s.recording, c)
  BY <1>1 DEF StopWithQ, Fields
<1>3. t.macros[s.recording] = c
  BY <1>2 DEF With
<1> HIDE DEF t
<1>4. Recorder(t) /\ Stops(s, t, c)
  BY <1>2, <1>3, NoKeys DEF Recorder, Stops
<1> QED
  BY <1>4 DEF t, u

\* The keymap's answer to a key, q being taken when it stops a recording.
LEMMA AnswerIs ==
  ASSUME NEW s, NEW k, Recorder(s), ~StopsRecording(s, k)
  PROVE  LET r == Process(s.km, k, s.mode)
             next == [s EXCEPT !.km = r.km]
             t == IF r.act = {} THEN next ELSE Execute(next, CHOOSE a \in r.act : TRUE)
         IN  Recorder(t) /\ (GoesOn(s, t, s.current) \/ Starts(s, t))
<1> DEFINE r == Process(s.km, k, s.mode)
           next == [s EXCEPT !.km = r.km]
           a == CHOOSE x \in r.act : TRUE
           t == IF r.act = {} THEN next ELSE Execute(next, a)
<1>1. Processed(s.km, k, r)
  BY ProcessIs DEF Recorder
<1> HIDE DEF r
<1>2. /\ DOMAIN next = Fields /\ next.recording = s.recording /\ next.current = s.current
      /\ next.km = r.km
  BY DEF Recorder, Fields
<1> HIDE DEF next
<1>3. "macro" \in r.km.awaits => s.recording = None
  <2>1. CASE "macro" \in s.km.awaits
    BY <2>1 DEF Recorder
  <2>2. CASE Char(k) = "q" /\ ~HasPending(s.km)
    <3>1. k = "q"
      BY <2>2, Tables DEF Char, OnlyOf
    <3> QED
      BY <2>2, <3>1 DEF StopsRecording
  <2> QED
    BY <1>1, <2>1, <2>2 DEF Processed
<1>4. Recorder(next) /\ GoesOn(s, next, s.current)
  BY <1>1, <1>2, <1>3 DEF Recorder, GoesOn, Processed
<1>5. ASSUME r.act # {}
      PROVE  /\ Recorder(Execute(next, a))
             /\ GoesOn(s, Execute(next, a), s.current) \/ Starts(s, Execute(next, a))
  <2>1. a \in r.act
    BY <1>5
  <2>2. IsAct(a)
    BY <1>1, <2>1 DEF Processed
  <2>3. CASE a.do # "StartRecordMacro"
    <3>1. SameRecorder(next, Execute(next, a))
      BY <1>2, <2>2, <2>3, ExecuteKeeps
    <3> QED
      BY <1>4, <3>1 DEF SameRecorder, Recorder, GoesOn
  <2>4. CASE a.do = "StartRecordMacro"
    <3> DEFINE u == Execute(next, a)
    <3>1. s.recording = None /\ "macro" \notin r.km.awaits
      BY <1>1, <2>1, <2>4 DEF Processed, Recorder
    <3>2. u = StartRecording(next, a.arg)
      BY <2>4 DEF Execute
    <3> HIDE DEF u
    <3>3. DOMAIN u = Fields /\ u.km = r.km /\ u.current = <<>>
      BY <1>2, <3>1, <3>2 DEF StartRecording, Fields
    <3>4. Recorder(u) /\ Starts(s, u)
      BY <1>1, <3>1, <3>3, NoKeys DEF Recorder, Starts, Processed
    <3> QED
      BY <3>4 DEF u
  <2> QED
    BY <2>3, <2>4
<1>6. Recorder(t) /\ (GoesOn(s, t, s.current) \/ Starts(s, t))
  <2> HIDE DEF a
  <2> QED
    BY <1>4, <1>5
<1> HIDE DEF t
<1> QED
  BY <1>6 DEF t, next, r, a

\* What settling a command does to the recorder: nothing.
LEMMA SettledKeeps ==
  ASSUME NEW s, NEW before, DOMAIN s = Fields
  PROVE  SameRecorder(s, Settled(s, before))
<1> DEFINE quiet == [s EXCEPT !.dotJustReplayed = FALSE, !.change = <<>>]
           still == [s EXCEPT !.change = <<>>]
<1>1. SameRecorder(s, quiet) /\ SameRecorder(s, still) /\ SameRecorder(s, s)
  BY DEF SameRecorder, Fields
<1>2. SameRecorder(s, Commit(s))
  BY DEF SameRecorder, Fields, Commit
<1>3. Settled(s, before) \in {s, quiet, still, Commit(s)}
  BY DEF Settled
<1> QED
  BY <1>1, <1>2, <1>3

\* A key handled, whoever typed it, goes into the recording, starts one or stops it.
LEMMA HandleKeyIs ==
  ASSUME NEW s, NEW k, Recorder(s)
  PROVE  LET t == HandleKey(s, k)
         IN  /\ Recorder(t)
             /\ \/ s.recording # None /\ GoesOn(s, t, Append(s.current, k))
                \/ s.recording = None /\ GoesOn(s, t, s.current)
                \/ Starts(s, t)
                \/ Stops(s, t, s.current)
<1> DEFINE c == s.current
           u == Received(s, k)
           done == Dispatched(u, k)
           t == HandleKey(s, k)
           Recorded(v) ==
             \/ s.recording # None /\ GoesOn(s, v, Append(c, k))
             \/ s.recording = None /\ GoesOn(s, v, c)
             \/ Starts(s, v)
             \/ Stops(s, v, c)
<1>1. /\ DOMAIN u = Fields /\ u.recording = s.recording /\ u.km = s.km
      /\ u.current = IF s.recording = None THEN c ELSE Append(c, k)
  BY DEF Received, Recorder, Fields
<1>2. Recorder(u) /\ IsSequence(c)
  BY <1>1, OneMoreKey DEF Recorder
<1> HIDE DEF u
<1>3. Recorder(done) /\ Recorded(done)
  <2>1. CASE u.mode = "Insert"
    BY <1>1, <1>2, <2>1, InsertKeyIs DEF Dispatched, GoesOn
  <2>2. CASE u.mode # "Insert" /\ StopsRecording(u, k)
    <3>1. u.recording # None /\ u.current = Append(c, k)
      BY <1>1, <2>2 DEF StopsRecording
    <3>2. done = StopWithQ(WithoutTheQ(u))
      BY <2>2 DEF Dispatched
    <3>3. Recorder(done) /\ Stops(u, done, c)
      BY <1>2, <3>1, <3>2, StopIs
    <3> QED
      BY <1>1, <3>3 DEF Stops
  <2>3. CASE u.mode # "Insert" /\ ~StopsRecording(u, k)
    <3>1. Recorder(done) /\ (GoesOn(u, done, u.current) \/ Starts(u, done))
      BY <1>2, <2>3, AnswerIs DEF Dispatched
    <3> QED
      BY <1>1, <3>1 DEF GoesOn, Starts
  <2> QED
    BY <2>1, <2>2, <2>3
<1>4. SameRecorder(done, t)
  <2> HIDE DEF done
  <2> DEFINE before == [track |-> Tracked(s), mode |-> s.mode, rev |-> s.rev]
             calm == [done EXCEPT !.calls = <<>>]
             settled == Settled(calm, before)
             called == Head(done.calls)
             frame == [kind |-> called.kind, keys |-> called.keys, before |-> before]
             rested == [settled EXCEPT !.stack = s.stack]
             waiting == [done EXCEPT !.calls = <<>>, !.stack = Append(s.stack, frame)]
  <2>1. DOMAIN done = Fields
    BY <1>3 DEF Recorder
  <2>2. SameRecorder(done, calm)
    BY <2>1 DEF SameRecorder, Fields
  <2>3. SameRecorder(calm, settled)
    BY <2>1, <2>2, SettledKeeps DEF SameRecorder
  <2>4. SameRecorder(done, rested)
    <3> HIDE DEF settled, calm
    <3> QED
      BY <2>1, <2>2, <2>3 DEF SameRecorder, Fields
  <2>5. SameRecorder(done, waiting)
    <3> HIDE DEF frame
    <3> QED
      BY <2>1 DEF SameRecorder, Fields
  <2>6. t \in {rested, waiting}
    <3> HIDE DEF settled
    <3> QED
      BY DEF HandleKey, done, u, settled
  <2> QED
    BY <2>4, <2>5, <2>6
<1>5. Recorder(t) /\ Recorded(t)
  <2> HIDE DEF done, t
  <2> QED
    BY <1>3, <1>4 DEF SameRecorder, Recorder, GoesOn, Starts, Stops
<1> QED
  BY <1>5

\* A replay that returns leaves the recorder alone.
LEMMA ReturnedKeeps ==
  ASSUME NEW s, DOMAIN s = Fields
  PROVE  SameRecorder(s, Returned(s))
<1> DEFINE call == Last(s.stack)
           back == [s EXCEPT !.stack = Front(@)]
           dotted == [back EXCEPT !.dotReplaying = FALSE, !.dotJustReplayed = TRUE]
<1>1. SameRecorder(s, back)
  BY DEF SameRecorder, Fields
<1>2. SameRecorder(s, dotted)
  <2> HIDE DEF back
  <2> QED
    BY <1>1 DEF SameRecorder, Fields
<1>3. Returned(s) \in {Settled(back, call.before), Settled(dotted, call.before)}
  BY DEF Returned
<1> HIDE DEF back, dotted
<1>4. SameRecorder(s, Settled(back, call.before)) /\ SameRecorder(s, Settled(dotted, call.before))
  BY <1>1, <1>2, SettledKeeps DEF SameRecorder
<1> QED
  BY <1>3, <1>4

-----------------------------------------------------------------------------
\* The inductive invariant: while all that was handled since q{c} was typed, the
\* recording is what was typed.
Heard ==
  /\ DOMAIN heard = {"keys", "all"}
  /\ ed.recording # None /\ heard.all => ed.current = heard.keys
MacroInv == Recorder(ed) /\ Heard

\* Nothing is recorded at first.
LEMMA MacroInit == KeysInit => MacroInv
<1> SUFFICES ASSUME KeysInit PROVE MacroInv
  OBVIOUS
<1>1. DOMAIN ed = Fields /\ ed.km = Fresh /\ ed.current = <<>> /\ ed.recording = None
  BY DEF KeysInit, Fields
<1>2. IsKeymap(Fresh) /\ Fresh.awaits = {}
  BY DEF Fresh, IsKeymap, None
<1>3. DOMAIN heard = {"keys", "all"}
  BY DEF KeysInit
<1> QED
  BY <1>1, <1>2, <1>3, NoKeys DEF MacroInv, Recorder, Heard

\* What is recorded stays what was typed, and becomes the macro.
WhatWasTyped ==
  ed.recording # None /\ ed'.recording = None /\ heard.all =>
    ed'.macros[ed.recording] = heard.keys
\* A step of the user or of a replay keeps the invariant, and a macro it stops is what was typed.
LEMMA MacroStep == MacroInv /\ [KeysNext]_keysVars => MacroInv' /\ WhatWasTyped
<1> SUFFICES ASSUME MacroInv, [KeysNext]_keysVars PROVE MacroInv' /\ WhatWasTyped
  OBVIOUS
<1> USE DEF MacroInv
<1>1. ASSUME NEW k, Type(k)
      PROVE  MacroInv' /\ WhatWasTyped
  <2>1. ed' = HandleKey(ed, k)
    BY <1>1 DEF Type, Step
  <2>2. heard' = IF ed.recording = None THEN [keys |-> <<>>, all |-> TRUE]
                 ELSE [heard EXCEPT !.keys = Append(@, k)]
    BY <1>1 DEF Type
  <2>3. /\ Recorder(ed')
        /\ \/ ed.recording # None /\ GoesOn(ed, ed', Append(ed.current, k))
           \/ ed.recording = None /\ GoesOn(ed, ed', ed.current)
           \/ Starts(ed, ed')
           \/ Stops(ed, ed', ed.current)
    BY <2>1, HandleKeyIs
  <2>4. Heard'
    BY <2>2, <2>3 DEF Heard, GoesOn, Starts, Stops
  <2>5. WhatWasTyped
    BY <2>3 DEF WhatWasTyped, Heard, GoesOn, Starts, Stops
  <2> QED
    BY <2>3, <2>4, <2>5
<1>2. ASSUME ReplayKeys
      PROVE  MacroInv' /\ WhatWasTyped
  <2> DEFINE n == Len(ed.stack)
             from == [ed EXCEPT !.stack[n].keys = Tail(@)]
             k == Head(ed.stack[n].keys)
  <2>1. ed' = HandleKey(from, k)
    BY <1>2 DEF ReplayKeys, Step
  <2>2. heard' = [heard EXCEPT !.all = FALSE]
    BY <1>2 DEF ReplayKeys
  <2>3. SameRecorder(ed, from)
    BY DEF SameRecorder, Recorder, Fields
  <2> HIDE DEF from, k
  <2>4. Recorder(from)
    BY <2>3 DEF SameRecorder, Recorder
  <2>5. /\ Recorder(ed')
        /\ \/ from.recording # None /\ GoesOn(from, ed', Append(from.current, k))
           \/ from.recording = None /\ GoesOn(from, ed', from.current)
           \/ Starts(from, ed')
           \/ Stops(from, ed', from.current)
    BY <2>1, <2>4, HandleKeyIs
  <2>6. Heard'
    BY <2>2 DEF Heard
  <2>7. WhatWasTyped
    BY <2>3, <2>5 DEF WhatWasTyped, Heard, GoesOn, Starts, Stops, SameRecorder
  <2> QED
    BY <2>5, <2>6, <2>7
<1>3. ASSUME Return
      PROVE  MacroInv' /\ WhatWasTyped
  <2>1. ed' = Returned(ed) /\ heard' = heard
    BY <1>3 DEF Return
  <2>2. SameRecorder(ed, ed')
    BY <2>1, ReturnedKeeps DEF Recorder
  <2> QED
    BY <2>1, <2>2 DEF SameRecorder, Recorder, Heard, WhatWasTyped
<1>4. ASSUME UNCHANGED keysVars
      PROVE  MacroInv' /\ WhatWasTyped
  BY <1>4 DEF keysVars, Recorder, Heard, WhatWasTyped
<1> QED
  BY <1>1, <1>2, <1>3, <1>4 DEF KeysNext

\* For any keyboards, texts of any length, any number of keys and replays within replays of
\* any depth: a macro is what was typed while it was recorded, the q that stopped it left out.
THEOREM MacroIsTyped == KeysSpec => MacroIsWhatWasTyped
<1>1. KeysSpec => []MacroInv
  BY MacroInit, MacroStep, PTL DEF KeysSpec
<1>2. MacroInv /\ [KeysNext]_keysVars => [WhatWasTyped]_keysVars
  BY MacroStep
<1> QED
  BY <1>1, <1>2, PTL DEF KeysSpec, MacroIsWhatWasTyped, WhatWasTyped

-----------------------------------------------------------------------------
\* The dot.  A keymap in normal mode awaits one thing at a time, and nothing within g; what
\* an operator or the dot completes leaves it as it was at first.
Keymaps ==
  [prefix : {<<>>, <<"g">>}, count : Int, op : OperatorNames \cup {None}, awaits : SUBSET Flags]
Calm(km) ==
  /\ km \in Keymaps
  /\ km.awaits = {} \/ \E a : km.awaits = {a}
  /\ km.prefix # <<>> => km.awaits = {} /\ km.op = None
Sound(r) == r.km \in Keymaps /\ (r.act = {} \/ \E a : r.act = {a})
Completes(km, a) ==
  /\ a.do \in OperatorActs \cup {"DotRepeat"} => km = Fresh
  /\ a.op = "Change" => a.do \in OperatorActs
  /\ a.do # "OperatorSelection"
Steady(r) == Calm(r.km) /\ \A a \in r.act : Completes(r.km, a)

\* The keymap at first, and one that awaits nothing.
LEMMA FreshIs ==
  /\ Calm(Fresh) /\ Sound(NoMatch) /\ Steady(NoMatch)
  /\ \A km \in Keymaps : km.prefix = <<>> /\ km.count = NoCount /\ km.op = None /\ km.awaits = {}
                         => km = Fresh
<1>1. Fresh \in Keymaps
  BY DEF Fresh, Keymaps, NoCount, None
<1>2. Calm(Fresh)
  BY <1>1 DEF Calm, Fresh
<1>3. Sound(NoMatch) /\ Steady(NoMatch)
  BY <1>1, <1>2 DEF Sound, Steady, NoMatch
<1> QED
  BY <1>2, <1>3 DEF Fresh, Keymaps

\* An action completed, or a key that leads on.
LEMMA DoneIs ==
  ASSUME NEW km \in Keymaps, NEW do, NEW op, NEW arg, NEW n
  PROVE  Sound(Done(km, Act(do, op, arg, n)))
  BY DEF Done, Act, Sound

\* A command completed leaves a calm keymap calm.
LEMMA DoneSteady ==
  ASSUME NEW km, Calm(km), NEW do, do # "OperatorSelection",
         do \in OperatorActs \cup {"DotRepeat"} => km = Fresh,
         NEW op, op = "Change" => do \in OperatorActs, NEW arg, NEW n
  PROVE  Steady(Done(km, Act(do, op, arg, n)))
<1>1. Done(km, Act(do, op, arg, n)).km = km
  BY DEF Done
<1>2. \A a \in Done(km, Act(do, op, arg, n)).act : a.do = do /\ a.op = op
  BY DEF Done, Act
<1> QED
  BY <1>1, <1>2 DEF Steady, Completes

\* A key that only leads on.
LEMMA NeedMoreIs ==
  ASSUME NEW km \in Keymaps
  PROVE  Sound(NeedMore(km)) /\ (Calm(km) => Steady(NeedMore(km)))
  BY DEF NeedMore, Sound, Steady

\* A key is awaited.
LEMMA AwaitSound ==
  ASSUME NEW km \in Keymaps, NEW a \in Flags
  PROVE  /\ Sound(Await(km, a))
         /\ km.awaits = {} /\ km.prefix = <<>> => Steady(Await(km, a))
<1> DEFINE t == [km EXCEPT !.awaits = @ \cup {a}]
<1>1. t \in Keymaps /\ t.awaits = km.awaits \cup {a} /\ t.prefix = km.prefix
  BY DEF Keymaps
<1>2. Await(km, a) = NeedMore(t)
  BY DEF Await
<1> HIDE DEF t
<1>3. km.awaits = {} /\ km.prefix = <<>> => Calm(t)
  BY <1>1 DEF Calm
<1> QED
  BY <1>1, <1>2, <1>3, NeedMoreIs

\* The name of a macro, a register or a mark.
LEMMA NamedBySound ==
  ASSUME NEW km \in Keymaps, NEW k, NEW a \in km.awaits \cap DOMAIN Named
  PROVE  Sound(NamedBy(km, a, k)) /\ (Calm(km) => Steady(NamedBy(km, a, k)))
<1> DEFINE rest == [km EXCEPT !.awaits = @ \ {a}]
<1>1. rest \in Keymaps /\ rest.awaits = km.awaits \ {a} /\ rest.prefix = km.prefix /\ rest.op = km.op
  BY DEF Keymaps
<1>2. Named[a] \in NamedActs
  BY Tables DEF Values
<1> HIDE DEF rest
<1>3. Calm(km) => Calm(rest)
  BY <1>1 DEF Calm
<1>4. \A do \in NamedActs \cup {"PlayLastMacro"} : do \notin OperatorActs \cup {"DotRepeat"}
  BY DEF NamedActs, OperatorActs
<1>5. None # "Change"
  BY DEF None
<1>6. \A arg : \A do \in NamedActs \cup {"PlayLastMacro"} :
        /\ Sound(Done(rest, Act(do, None, arg, 1)))
        /\ Calm(km) => Steady(Done(rest, Act(do, None, arg, 1)))
  BY <1>1, <1>3, <1>4, <1>5, DoneIs, DoneSteady DEF OperatorActs
<1> QED
  BY <1>2, <1>6, FreshIs DEF NamedBy, rest

\* The object, the character to replace with or to find, the second g.
LEMMA ObjectBySound ==
  ASSUME NEW km \in Keymaps, NEW k, NEW as
  PROVE  /\ Sound(ObjectBy(km, as, k))
         /\ Calm(km) /\ km.awaits \subseteq as /\ km.prefix = <<>> => Steady(ObjectBy(km, as, k))
<1> DEFINE rest == [km EXCEPT !.awaits = @ \ as, !.op = None, !.count = NoCount]
<1>0. km.awaits \ as \in SUBSET Flags /\ NoCount \in Int
  <2>1. km.awaits \in SUBSET Flags
    BY DEF Keymaps
  <2>2. \A F : km.awaits \in SUBSET F => km.awaits \ as \in SUBSET F
    OBVIOUS
  <2>3. NoCount \in Int
    BY DEF NoCount
  <2> QED
    BY <2>1, <2>2, <2>3
<1>1. /\ rest \in Keymaps /\ rest.awaits = km.awaits \ as /\ rest.prefix = km.prefix /\ rest.op = None
      /\ rest.count = NoCount
  BY <1>0 DEF Keymaps
<1> HIDE DEF rest
<1>2. km.awaits \subseteq as /\ km.prefix = <<>> => rest = Fresh /\ Calm(rest)
  BY <1>1, FreshIs
<1>3. \A arg : Sound(Done(rest, Act("SelectTextObj", None, arg, 1)))
  BY <1>1, DoneIs
<1>4. \A op, arg, n : Sound(Done(rest, Act("OperatorTextObj", op, arg, n)))
  BY <1>1, DoneIs
<1>5. ASSUME km.awaits \subseteq as, km.prefix = <<>>, NEW op, NEW arg, NEW n
      PROVE  /\ Steady(Done(rest, Act("SelectTextObj", None, arg, 1)))
             /\ Steady(Done(rest, Act("OperatorTextObj", op, arg, n)))
  BY <1>1, <1>2, <1>5, DoneSteady DEF None, OperatorActs
<1> QED
  BY <1>3, <1>4, <1>5, FreshIs DEF ObjectBy, rest

\* The character r replaces with.
LEMMA ReplacedBySound ==
  ASSUME NEW km \in Keymaps, NEW k
  PROVE  Sound(ReplacedBy(km, k)) /\ (Calm(km) => Steady(ReplacedBy(km, k)))
<1> DEFINE rest == [km EXCEPT !.awaits = @ \ {"replace"}, !.count = NoCount]
<1>0. km.awaits \ {"replace"} \in SUBSET Flags /\ NoCount \in Int
  BY DEF Keymaps, NoCount
<1>1. /\ rest \in Keymaps /\ rest.awaits = km.awaits \ {"replace"} /\ rest.prefix = km.prefix
      /\ rest.op = km.op
  BY <1>0 DEF Keymaps
<1> HIDE DEF rest
<1>2. Calm(km) => Calm(rest)
  BY <1>1 DEF Calm
<1>3. \A arg, n : /\ Sound(Done(rest, Act("ReplaceChar", None, arg, n)))
                  /\ Calm(km) => Steady(Done(rest, Act("ReplaceChar", None, arg, n)))
  BY <1>1, <1>2, DoneIs, DoneSteady DEF None, OperatorActs
<1> QED
  BY <1>1, <1>2, <1>3, NeedMoreIs DEF ReplacedBy, rest

\* The character f finds.
LEMMA FoundBySound ==
  ASSUME NEW km \in Keymaps, NEW k
  PROVE  /\ Sound(FoundBy(km, k))
         /\ km.awaits = {"find"} /\ km.prefix = <<>> => Steady(FoundBy(km, k))
<1> DEFINE rest == [km EXCEPT !.awaits = @ \ {"find"}, !.op = None, !.count = NoCount]
<1>0. km.awaits \ {"find"} \in SUBSET Flags /\ NoCount \in Int
  BY DEF Keymaps, NoCount
<1>1. /\ rest \in Keymaps /\ rest.awaits = km.awaits \ {"find"} /\ rest.prefix = km.prefix
      /\ rest.op = None /\ rest.count = NoCount
  BY <1>0 DEF Keymaps
<1> HIDE DEF rest
<1>2. km.awaits = {"find"} /\ km.prefix = <<>> => rest = Fresh /\ Calm(rest)
  BY <1>1, FreshIs
<1>3. \A n : Sound(Done(rest, Act("Move", None, "FindChar", n)))
  BY <1>1, DoneIs
<1>4. \A op, n : Sound(Done(rest, Act("OperatorMotion", op, "FindChar", n)))
  BY <1>1, DoneIs
<1>5. ASSUME km.awaits = {"find"}, km.prefix = <<>>, NEW op, NEW n
      PROVE  /\ Steady(Done(rest, Act("Move", None, "FindChar", n)))
             /\ Steady(Done(rest, Act("OperatorMotion", op, "FindChar", n)))
  BY <1>1, <1>2, <1>5, DoneSteady DEF None, OperatorActs
<1> QED
  BY <1>3, <1>4, <1>5, FreshIs DEF FoundBy, rest

\* The second g, under an operator.
LEMMA SecondGSound ==
  ASSUME NEW km \in Keymaps, NEW k
  PROVE  /\ Sound(SecondG(km, k))
         /\ km.awaits = {"opg"} /\ km.prefix = <<>> => Steady(SecondG(km, k))
<1> DEFINE rest == [km EXCEPT !.awaits = @ \ {"opg"}, !.op = None, !.count = NoCount]
<1>0. km.awaits \ {"opg"} \in SUBSET Flags /\ NoCount \in Int
  BY DEF Keymaps, NoCount
<1>1. /\ rest \in Keymaps /\ rest.awaits = km.awaits \ {"opg"} /\ rest.prefix = km.prefix
      /\ rest.op = None /\ rest.count = NoCount
  BY <1>0 DEF Keymaps
<1> HIDE DEF rest
<1>2. km.awaits = {"opg"} /\ km.prefix = <<>> => rest = Fresh /\ Calm(rest)
  BY <1>1, FreshIs
<1>3. \A op, n : Sound(Done(rest, Act("OperatorMotion", op, "DocumentStart", n)))
  BY <1>1, DoneIs
<1>4. ASSUME km.awaits = {"opg"}, km.prefix = <<>>, NEW op, NEW n
      PROVE  Steady(Done(rest, Act("OperatorMotion", op, "DocumentStart", n)))
  BY <1>1, <1>2, <1>4, DoneSteady DEF OperatorActs
<1> QED
  BY <1>3, <1>4, FreshIs DEF SecondG, rest

\* A key under an operator.
LEMMA UnderOperatorSound ==
  ASSUME NEW km \in Keymaps, NEW k, km.op # None
  PROVE  /\ Sound(UnderOperator(km, k))
         /\ Calm(km) /\ km.awaits = {} => Steady(UnderOperator(km, k))
<1> DEFINE rest == [km EXCEPT !.op = None, !.count = NoCount]
<1>0. NoCount \in Int
  BY DEF NoCount
<1>1. /\ rest \in Keymaps /\ rest.awaits = km.awaits /\ rest.prefix = km.prefix
      /\ rest.op = None /\ rest.count = NoCount
  BY <1>0 DEF Keymaps
<1> HIDE DEF rest
<1>2. Calm(km) => km.prefix = <<>>
  BY DEF Calm
<1>3. km.awaits = {} /\ km.prefix = <<>> => rest = Fresh /\ Calm(rest)
  BY <1>1, FreshIs
<1>4. \A arg, n : /\ Sound(Done(rest, Act("OperatorLine", km.op, arg, n)))
                  /\ Sound(Done(rest, Act("OperatorMotion", km.op, arg, n)))
  BY <1>1, DoneIs
<1>5. ASSUME Calm(km), km.awaits = {}, NEW arg, NEW n
      PROVE  /\ Steady(Done(rest, Act("OperatorLine", km.op, arg, n)))
             /\ Steady(Done(rest, Act("OperatorMotion", km.op, arg, n)))
  BY <1>2, <1>3, <1>5, DoneSteady DEF OperatorActs
<1>6. \A a \in {"inner", "outer", "find", "opg"} :
        Sound(Await(km, a)) /\ (Calm(km) /\ km.awaits = {} => Steady(Await(km, a)))
  BY <1>2, AwaitSound DEF Flags
<1> QED
  BY <1>4, <1>5, <1>6, FreshIs DEF UnderOperator, rest

\* A leaf of the trie.
LEMMA LeafSound ==
  ASSUME NEW km \in Keymaps, NEW name \in LeafNames, NEW mode
  PROVE  /\ Sound(Leaf(km, name, mode))
         /\ Calm(km) /\ km.awaits = {} /\ km.op = None /\ mode = "Normal" => Steady(Leaf(km, name, mode))
<1> DEFINE rest == [km EXCEPT !.prefix = <<>>, !.count = NoCount]
           deeper == [km EXCEPT !.prefix = <<>>, !.op = name]
<1>0. NoCount \in Int /\ <<>> \in {<<>>, <<"g">>}
  BY DEF NoCount
<1>1. /\ rest \in Keymaps /\ rest.awaits = km.awaits /\ rest.prefix = <<>>
      /\ rest.op = km.op /\ rest.count = NoCount
  BY <1>0 DEF Keymaps
<1>2. name \in OperatorNames => /\ deeper \in Keymaps /\ deeper.awaits = km.awaits
                                /\ deeper.prefix = <<>>
  BY <1>0 DEF Keymaps
<1> HIDE DEF rest, deeper
<1>3. km.awaits = {} /\ km.op = None => rest = Fresh /\ Calm(rest)
  BY <1>1, FreshIs
<1>4. name \in OperatorNames =>
        Sound(NeedMore(deeper)) /\ (Calm(km) /\ km.awaits = {} => Steady(NeedMore(deeper)))
  <2>1. name \in OperatorNames /\ km.awaits = {} => Calm(deeper)
    BY <1>2 DEF Calm
  <2> QED
    BY <1>2, <2>1, NeedMoreIs
<1>5. \A do, op, arg, n : Sound(Done(rest, Act(do, op, arg, n)))
  BY <1>1, DoneIs
<1>6. ASSUME km.awaits = {}, km.op = None, NEW do, do # "OperatorSelection", NEW arg, NEW n
      PROVE  Steady(Done(rest, Act(do, None, arg, n)))
  BY <1>3, <1>6, DoneSteady DEF None, OperatorActs
<1>7. name # "OperatorSelection"
  BY DEF LeafNames, MotionNames, OperatorNames
<1>8. /\ \/ \E do, op, arg, n : Leaf(km, name, mode) = Done(rest, Act(do, op, arg, n))
         \/ Leaf(km, name, mode) = NeedMore(deeper) /\ name \in OperatorNames
      /\ mode = "Normal" =>
           \/ \E do, arg, n : Leaf(km, name, mode) = Done(rest, Act(do, None, arg, n))
                              /\ do # "OperatorSelection"
           \/ Leaf(km, name, mode) = NeedMore(deeper) /\ name \in OperatorNames
  <2>1. CASE name \in OperatorNames /\ mode \in Visual /\ km.prefix = <<>>
    BY <2>1 DEF Leaf, rest, Visual
  <2>2. CASE name \in OperatorNames /\ ~(mode \in Visual /\ km.prefix = <<>>)
    <3>1. name \notin MotionNames
      BY <2>2 DEF MotionNames, OperatorNames
    <3>2. Leaf(km, name, mode) = NeedMore(deeper)
      BY <2>2, <3>1 DEF Leaf, deeper
    <3> QED
      BY <2>2, <3>2
  <2>3. CASE name \in MotionNames
    <3>1. name \notin OperatorNames
      BY <2>3 DEF MotionNames, OperatorNames
    <3>2. Leaf(km, name, mode) = Done(rest, Act("Move", None, name, CountOf(km)))
      BY <2>3, <3>1 DEF Leaf, rest
    <3> QED
      BY <3>2
  <2>4. CASE name \notin OperatorNames \cup MotionNames
    <3>1. Leaf(km, name, mode) = Done(rest, Act(name, None, None, CountOf(km)))
      BY <2>4 DEF Leaf, rest
    <3> QED
      BY <1>7, <3>1
  <2> QED
    BY <2>1, <2>2, <2>3, <2>4
<1> QED
  BY <1>4, <1>5, <1>6, <1>8

\* A key in the trie.
LEMMA InTrieSound ==
  ASSUME NEW km \in Keymaps, NEW k, NEW mode
  PROVE  /\ Sound(InTrie(km, k, mode))
         /\ Calm(km) /\ km.awaits = {} /\ km.op = None /\ mode = "Normal" => Steady(InTrie(km, k, mode))
<1> DEFINE deeper == [km EXCEPT !.prefix = <<k>>]
           rest == [km EXCEPT !.count = NoCount]
<1>0. NoCount \in Int
  BY DEF NoCount
<1>1. rest \in Keymaps
  BY <1>0 DEF Keymaps
<1>2. k = "g" => deeper \in Keymaps /\ deeper.awaits = km.awaits /\ deeper.op = km.op
  BY DEF Keymaps
<1> HIDE DEF rest, deeper
<1>3. k = "g" => Sound(NeedMore(deeper))
                 /\ (km.awaits = {} /\ km.op = None => Steady(NeedMore(deeper)))
  <2>1. k = "g" /\ km.awaits = {} /\ km.op = None => Calm(deeper)
    BY <1>2 DEF Calm
  <2> QED
    BY <1>2, <2>1, NeedMoreIs
<1>4. Sound(Done(rest, Act("SwapAnchorHead", None, None, CountOf(km))))
  BY <1>1, DoneIs
<1>5. k \in DOMAIN Leaves => Leaves[k] \in LeafNames
  BY Tables DEF Values
<1>6. k \in DOMAIN LeavesOfG => LeavesOfG[k] \in LeafNames
  BY Tables DEF Values
<1>7. "Normal" \notin Visual
  BY DEF Visual
<1> QED
  BY <1>3, <1>4, <1>5, <1>6, <1>7, LeafSound, FreshIs DEF InTrie, rest, deeper

\* A key, whatever was awaited.
LEMMA ProcessSound ==
  ASSUME NEW km \in Keymaps, NEW k, NEW mode
  PROVE  /\ Sound(Process(km, k, mode))
         /\ Calm(km) /\ mode = "Normal" => Steady(Process(km, k, mode))
<1> DEFINE named == km.awaits \cap DOMAIN Named
           objects == {"inner", "outer"} \cap km.awaits
           selects == {"selectInner", "selectOuter"} \cap km.awaits
           bare == [km EXCEPT !.op = None]
           n == (IF km.count = NoCount THEN 0 ELSE km.count * 10) + Digit[Char(k)]
           counted == [km EXCEPT !.count = n]
           a == CHOOSE a \in named : TRUE
           Fits(r) == Sound(r) /\ (Calm(km) /\ mode = "Normal" => Steady(r))
<1>1. Fits(NeedMore(Fresh)) /\ Fits(Done(Fresh, Act("EnterNormal", None, None, 1)))
  <2>1. Fresh \in Keymaps
    BY FreshIs DEF Calm
  <2> QED
    BY <2>1, FreshIs, NeedMoreIs, DoneIs, DoneSteady DEF None, OperatorActs
<1>2. named # {} => Fits(NamedBy(km, a, k))
  BY NamedBySound
<1>3. Calm(km) /\ km.awaits # {} => km.prefix = <<>>
  BY DEF Calm
<1>4. objects # {} => Fits(ObjectBy(km, objects, k))
  <2>1. Calm(km) /\ objects # {} => km.awaits \subseteq objects
    BY DEF Calm
  <2> QED
    BY <1>3, <2>1, ObjectBySound
<1>5. selects # {} => Fits(ObjectBy(bare, selects, k))
  <2>1. bare \in Keymaps /\ bare.awaits = km.awaits /\ bare.prefix = km.prefix
    BY DEF Keymaps
  <2>2. Calm(km) /\ selects # {} => Calm(bare) /\ bare.awaits \subseteq selects
    <3> HIDE DEF bare
    <3> QED
      BY <2>1 DEF Calm
  <2> HIDE DEF bare, selects
  <2> QED
    BY <1>3, <2>1, <2>2, ObjectBySound DEF selects
<1>6. mode \in Visual => \A f \in {"selectInner", "selectOuter"} : Fits(Await(km, f))
  BY AwaitSound DEF Flags, Visual
<1>7. "replace" \in km.awaits => Fits(ReplacedBy(km, k))
  BY ReplacedBySound
<1>8. "find" \in km.awaits => Fits(FoundBy(km, k))
  <2>1. Calm(km) /\ "find" \in km.awaits => km.awaits = {"find"}
    BY DEF Calm
  <2> QED
    BY <1>3, <2>1, FoundBySound
<1>9. "opg" \in km.awaits => Fits(SecondG(km, k))
  <2>1. Calm(km) /\ "opg" \in km.awaits => km.awaits = {"opg"}
    BY DEF Calm
  <2> QED
    BY <1>3, <2>1, SecondGSound
<1>10. Char(k) \in DOMAIN Digit => Fits(NeedMore(counted))
  <2>1. Values(Digit, Nat)
    BY TableValues DEF Digit
  <2>2. Char(k) \in DOMAIN Digit => n \in Int
    BY <2>1 DEF Values, Keymaps
  <2> HIDE DEF n
  <2>3. Char(k) \in DOMAIN Digit => /\ counted \in Keymaps /\ counted.awaits = km.awaits
                                    /\ counted.prefix = km.prefix /\ counted.op = km.op
    BY <2>2 DEF Keymaps
  <2> HIDE DEF counted
  <2>4. Char(k) \in DOMAIN Digit /\ Calm(km) => Calm(counted)
    BY <2>3 DEF Calm
  <2> QED
    BY <2>3, <2>4, NeedMoreIs
<1> DEFINE nothing == named = {} /\ objects = {} /\ selects = {} /\ "replace" \notin km.awaits
                      /\ "find" \notin km.awaits /\ "opg" \notin km.awaits
<1>11. nothing => km.awaits = {}
  BY Tables DEF Flags, Keymaps
<1>12. nothing /\ km.op # None => Fits(UnderOperator(km, k))
  BY <1>11, UnderOperatorSound
<1>13. nothing /\ StartsAwaiting(km, k) => Fits(Await(km, Awaiting[Char(k)]))
  BY <1>11, Tables, AwaitSound DEF StartsAwaiting, Values
<1>14. nothing /\ km.op = None => Fits(InTrie(km, k, mode))
  BY <1>11, InTrieSound
<1> HIDE DEF Fits, bare, selects, objects, named, counted, a
<1>15. Fits(Process(km, k, mode))
  BY <1>1, <1>2, <1>4, <1>5, <1>6, <1>7, <1>8, <1>9, <1>10, <1>12, <1>13, <1>14
  DEF Process, bare, selects, objects, named, counted, a, n
<1> QED
  BY <1>15 DEF Fits

-----------------------------------------------------------------------------
\* Sequences: one more element, one less, and the elements of a set of one.
LEMMA SequenceIs ==
  ASSUME NEW c, IsSequence(c)
  PROVE  /\ Len(c) \in Nat /\ DOMAIN c = 1..Len(c)
         /\ c = <<>> <=> Len(c) = 0
<1>1. c \in Seq({c[i] : i \in DOMAIN c})
  BY DEF IsSequence
<1> QED
  BY <1>1, LenProperties, EmptySeq

\* Sequences with the same elements in the same places are the same.
LEMMA SameElements ==
  ASSUME NEW c, NEW d, IsSequence(c), IsSequence(d), Len(c) = Len(d),
         \A i \in 1..Len(c) : c[i] = d[i]
  PROVE  c = d
<1> DEFINE S == {c[i] : i \in DOMAIN c} \cup {d[i] : i \in DOMAIN d}
<1>1. c \in Seq(S) /\ d \in Seq(S)
  BY SeqMonotonic DEF IsSequence
<1> HIDE DEF S
<1> QED
  BY <1>1, SeqEqual

\* Append.
LEMMA AppendIs ==
  ASSUME NEW c, NEW k, IsSequence(c)
  PROVE  LET d == Append(c, k)
         IN  /\ IsSequence(d) /\ d # <<>> /\ Len(d) = Len(c) + 1
             /\ \A i \in 1..Len(c) : d[i] = c[i]
             /\ d[Len(c) + 1] = k
             /\ Tail(d) = IF c = <<>> THEN <<>> ELSE Append(Tail(c), k)
<1> DEFINE S == {c[i] : i \in DOMAIN c} \cup {k}
<1>1. c \in Seq(S) /\ k \in S
  BY SeqMonotonic DEF IsSequence
<1> HIDE DEF S
<1> QED
  BY <1>1, AppendProperties, HeadTailAppend, OneMoreKey

\* A sequence of one.
LEMMA OneAppended ==
  ASSUME NEW k
  PROVE  Append(<<>>, k) # <<>> /\ Tail(Append(<<>>, k)) = <<>>
BY NoKeys, AppendIs

\* Tail.
LEMMA TailIs ==
  ASSUME NEW c, IsSequence(c), c # <<>>
  PROVE  /\ Head(c) = c[1] /\ Len(Tail(c)) = Len(c) - 1 /\ IsSequence(Tail(c))
         /\ \A i \in 1..Len(Tail(c)) : Tail(c)[i] = c[i + 1]
<1> DEFINE S == {c[i] : i \in DOMAIN c}
           d == Tail(c)
<1>1. c \in Seq(S)
  BY DEF IsSequence
<1> HIDE DEF S
<1>2. d \in Seq(S) /\ Len(d) = Len(c) - 1 /\ \A i \in 1..Len(d) : d[i] = c[i + 1]
  BY <1>1, HeadTailProperties
<1>3. Head(c) = c[1]
  <2>1. SubSeq(c, 1, Len(c)) = c
    BY <1>1, SubSeqFull
  <2>2. Len(c) \in Nat /\ Len(c) # 0
    BY SequenceIs
  <2>3. Head(SubSeq(c, 1, Len(c))) = c[1]
    BY <1>1, <2>2, HeadTailOfSubSeq
  <2> QED
    BY <2>1, <2>3
<1>4. IsSequence(d)
  <2> DEFINE T == {d[i] : i \in DOMAIN d}
  <2> HIDE DEF d
  <2>1. d \in [1..Len(d) -> T] /\ Len(d) \in Nat
    BY <1>2, LenProperties
  <2>2. d \in Seq(T)
    <3> HIDE DEF T
    <3> QED
      BY <2>1, SeqDef
  <2> QED
    BY <2>2 DEF IsSequence
<1> QED
  BY <1>2, <1>3, <1>4

\* The actions of a key, at most one, after those before.
Adds(acts, done) == IF done = {} THEN acts ELSE Append(acts, CHOOSE a \in done : TRUE)

\* They are what the script becomes.
LEMMA AddsIs ==
  ASSUME NEW acts, IsSequence(acts), NEW done, done = {} \/ \E a : done = {a}
  PROVE  acts \o SetToSeq(done) = Adds(acts, done) /\ IsSequence(Adds(acts, done))
<1> DEFINE S == {acts[i] : i \in DOMAIN acts} \cup done
<1>1. acts \in Seq(S)
  BY SeqMonotonic DEF IsSequence
<1>2. CASE done = {}
  <2>1. SetToSeq(done) = <<>>
    <3>1. \A f \in [1..0 -> {}] : f = <<>>
      <4>1. \A f \in [1..0 -> {}] : f \in Seq({}) /\ DOMAIN f = 1..0
        BY SeqDef
      <4>2. \A f \in Seq({}) : f # <<>> => Len(f) \in Nat \ {0} /\ DOMAIN f = 1..Len(f)
        BY EmptySeq, LenProperties
      <4> QED
        BY <4>1, <4>2
    <3>2. \E f \in [1..0 -> {}] : IsInjective(f)
      <4>1. [i \in 1..0 |-> i] \in [1..0 -> {}] /\ IsInjective([i \in 1..0 |-> i])
        BY DEF IsInjective
      <4> QED
        BY <4>1
    <3>3. Cardinality({}) = 0
      BY FS_EmptySet
    <3> QED
      BY <1>2, <3>1, <3>2, <3>3 DEF SetToSeq
  <2> QED
    BY <1>1, <1>2, <2>1, ConcatEmptySeq DEF Adds
<1>3. CASE done # {}
  <2>1. PICK a : done = {a}
    BY <1>3
  <2>2. SetToSeq(done) = <<a>>
    <3>1. Cardinality(done) = 1
      BY <2>1, FS_Singleton
    <3>2. [i \in 1..1 |-> a] \in [1..1 -> done] /\ IsInjective([i \in 1..1 |-> a])
      BY <2>1 DEF IsInjective
    <3>3. SetToSeq(done) \in [1..1 -> done]
      BY <3>1, <3>2 DEF SetToSeq
    <3>4. \A f \in [1..1 -> done] : f = <<a>>
      BY <2>1
    <3> QED
      BY <3>3, <3>4
  <2>3. Append(acts, a) = acts \o <<a>>
    BY <1>1, <2>1, AppendIsConcat
  <2>4. Adds(acts, done) = Append(acts, a)
    BY <2>1 DEF Adds
  <2>5. IsSequence(Append(acts, a))
    BY AppendIs
  <2> QED
    BY <2>2, <2>3, <2>4, <2>5
<1> QED
  BY <1>2, <1>3

-----------------------------------------------------------------------------
\* What a replay is called by, and what is the same then.
Modes == {"Insert", "Normal", "Visual"}
Calling(s, a, t) ==
  \E kind, keys :
    /\ t.calls = <<[kind |-> kind, keys |-> keys]>>
    /\ \/ kind = "dot" /\ a.do = "DotRepeat" /\ t.dotReplaying = TRUE /\ keys = s.lastChange
       \/ kind = "macro" /\ t.dotReplaying = s.dotReplaying
SameChange(s, t) ==
  /\ t.change = s.change /\ t.lastChange = s.lastChange
  /\ t.dotJustReplayed = s.dotJustReplayed /\ t.stack = s.stack
NoCall(s, t) == t.calls = <<>> /\ t.dotReplaying = s.dotReplaying

\* @, @@ and the dot call a replay, or do nothing.
LEMMA PlaysCall ==
  ASSUME NEW s, NEW a, DOMAIN s = Fields, s.calls = <<>>, a.do \in Plays
  PROVE  LET t == Execute(s, a)
         IN  /\ DOMAIN t = Fields /\ SameChange(s, t) /\ t.mode = s.mode /\ t.km = s.km
             /\ NoCall(s, t) \/ Calling(s, a, t)
             /\ a.do = "DotRepeat" /\ s.lastChange # <<>> =>
                  /\ t.dotReplaying = TRUE
                  /\ t.calls = <<[kind |-> "dot", keys |-> s.lastChange]>>
<1> DEFINE t == Execute(s, a)
           Plain(v) == DOMAIN v = Fields /\ SameChange(s, v) /\ v.mode = s.mode /\ v.km = s.km
<1>1. \A kind, keys : LET v == Call(s, kind, keys)
                      IN  /\ Plain(v) /\ v.calls = <<[kind |-> kind, keys |-> keys]>>
                          /\ v.dotReplaying = s.dotReplaying
  BY DEF Call, SameChange, Fields
<1>2. Plain(s)
  BY DEF SameChange
<1>3. CASE a.do = "PlayMacro"
  <2> DEFINE named == [s EXCEPT !.lastMacro = a.arg]
  <2>1. Plain(named) /\ DOMAIN named = Fields /\ named.dotReplaying = s.dotReplaying
    BY DEF SameChange, Fields
  <2> HIDE DEF named
  <2>2. \A kind, keys : LET v == Call(named, kind, keys)
                        IN  /\ Plain(v) /\ v.calls = <<[kind |-> kind, keys |-> keys]>>
                            /\ v.dotReplaying = s.dotReplaying
    BY <2>1 DEF Call, SameChange, Fields
  <2>3. t = PlayMacro(s, a.arg)
    BY <1>3 DEF Execute
  <2>4. t = s \/ t = Call(named, "macro", s.macros[a.arg])
    BY <2>3 DEF PlayMacro, named
  <2> HIDE DEF t
  <2>5. CASE t = s
    BY <1>2, <1>3, <2>5 DEF t, NoCall
  <2>6. CASE t = Call(named, "macro", s.macros[a.arg])
    <3> DEFINE ks == s.macros[a.arg]
    <3> HIDE DEF ks
    <3>1. /\ Plain(t) /\ t.calls = <<[kind |-> "macro", keys |-> ks]>>
          /\ t.dotReplaying = s.dotReplaying
      BY <2>2, <2>6 DEF ks
    <3>2. Calling(s, a, t)
      BY <3>1 DEF Calling
    <3> QED
      BY <1>3, <3>1, <3>2 DEF t
  <2> QED
    BY <2>4, <2>5, <2>6
<1>4. CASE a.do = "PlayLastMacro"
  <2>1. t = PlayLast(s)
    BY <1>4 DEF Execute
  <2>2. t = s \/ t = Call(s, "macro", s.macros[s.lastMacro])
    BY <2>1 DEF PlayLast
  <2> HIDE DEF t
  <2>3. CASE t = s
    BY <1>2, <1>4, <2>3 DEF t, NoCall
  <2>4. CASE t = Call(s, "macro", s.macros[s.lastMacro])
    <3> DEFINE ks == s.macros[s.lastMacro]
    <3> HIDE DEF ks
    <3>1. /\ Plain(t) /\ t.calls = <<[kind |-> "macro", keys |-> ks]>>
          /\ t.dotReplaying = s.dotReplaying
      BY <1>1, <2>4 DEF ks
    <3>2. Calling(s, a, t)
      BY <3>1 DEF Calling
    <3> QED
      BY <1>4, <3>1, <3>2 DEF t
  <2> QED
    BY <2>2, <2>3, <2>4
<1>5. CASE a.do = "DotRepeat"
  <2> DEFINE dotted == [s EXCEPT !.dotReplaying = TRUE]
  <2>1. Plain(dotted) /\ DOMAIN dotted = Fields /\ dotted.dotReplaying = TRUE
    BY DEF SameChange, Fields
  <2> HIDE DEF dotted
  <2>2. \A kind, keys : LET v == Call(dotted, kind, keys)
                        IN  /\ Plain(v) /\ v.calls = <<[kind |-> kind, keys |-> keys]>>
                            /\ v.dotReplaying = TRUE
    BY <2>1 DEF Call, SameChange, Fields
  <2>3. t = DotRepeat(s)
    BY <1>5 DEF Execute
  <2>4. t = IF s.lastChange = <<>> THEN s ELSE Call(dotted, "dot", s.lastChange)
    BY <2>3 DEF DotRepeat, dotted
  <2> HIDE DEF t
  <2>5. CASE s.lastChange = <<>>
    BY <1>2, <1>5, <2>4, <2>5 DEF t, NoCall
  <2>6. CASE s.lastChange # <<>>
    BY <1>5, <2>2, <2>4, <2>6 DEF t, Calling
  <2> QED
    BY <2>5, <2>6
<1> QED
  BY <1>3, <1>4, <1>5 DEF Plays

\* The keys of the command in progress, with one more unless the dot replays.
Basic(s) ==
  /\ Recorder(s) /\ s.km \in Keymaps /\ s.mode \in Modes /\ s.calls = <<>>
  /\ IsSequence(s.change) /\ IsSequence(s.lastChange) /\ IsSequence(s.stack)
Longer(s, k) == IF s.dotReplaying THEN s.change ELSE Append(s.change, k)

\* A key received is kept with those, and in a recording.
LEMMA ReceivedIs ==
  ASSUME NEW s, NEW k, Basic(s)
  PROVE  LET u == Received(s, k)
         IN  /\ DOMAIN u = Fields /\ u.mode = s.mode /\ u.km = s.km /\ u.rev = s.rev
             /\ u.change = Longer(s, k) /\ u.lastChange = s.lastChange
             /\ u.dotJustReplayed = s.dotJustReplayed /\ u.stack = s.stack
             /\ NoCall(s, u) /\ u.recording = s.recording
             /\ ActionOf(u, k) = ActionOf(s, k) /\ StopsRecording(u, k) = StopsRecording(s, k)
<1> DEFINE u == Received(s, k)
<1>1. /\ DOMAIN u = Fields /\ u.mode = s.mode /\ u.km = s.km /\ u.rev = s.rev
      /\ u.lastChange = s.lastChange
      /\ u.dotJustReplayed = s.dotJustReplayed /\ u.stack = s.stack
      /\ u.calls = s.calls /\ u.dotReplaying = s.dotReplaying /\ u.recording = s.recording
      /\ u.change = IF Tracked(s) THEN Append(s.change, k) ELSE s.change
  BY DEF Received, Basic, Recorder, Fields
<1> HIDE DEF u
<1>2. Tracked(s) <=> ~s.dotReplaying
  BY DEF Tracked, Basic, Modes
<1>3. u.change = Longer(s, k)
  BY <1>1, <1>2 DEF Longer
<1>4. StopsRecording(u, k) = StopsRecording(s, k)
  BY <1>1 DEF StopsRecording
<1>5. ActionOf(u, k) = ActionOf(s, k)
  BY <1>1, <1>4 DEF ActionOf
<1> QED
  BY <1>1, <1>3, <1>4, <1>5 DEF u, NoCall, Basic

-----------------------------------------------------------------------------
\* What a key does to the command in progress, before it is settled.
Untouched(s, k, d) ==
  /\ d.change = Longer(s, k) /\ d.lastChange = s.lastChange
  /\ d.dotJustReplayed = s.dotJustReplayed /\ d.stack = s.stack
Answered(s, k, d) ==
  /\ DOMAIN d = Fields /\ d.km \in Keymaps /\ d.mode \in Modes /\ Untouched(s, k, d)
  /\ ActionOf(s, k) = {} \/ \E a : ActionOf(s, k) = {a}
  /\ \/ NoCall(s, d)
     \/ s.mode # "Insert" /\ d.mode = s.mode
        /\ \E a \in ActionOf(s, k) : a.do \in Plays /\ Calling(s, a, d)

\* In insert mode.
LEMMA TypedIs ==
  ASSUME NEW s, NEW k, Basic(s), s.mode = "Insert"
  PROVE  LET d == Dispatched(Received(s, k), k)
         IN  /\ Answered(s, k, d)
             /\ d.mode = IF k = "Esc" THEN "Normal" ELSE "Insert"
             /\ d.km = IF k = "Esc" THEN Fresh ELSE s.km
             /\ ActionOf(s, k) = IF IsChar(k) \/ k = "Esc" THEN {Act("Insert", None, k, 1)} ELSE {}
<1> DEFINE u == Received(s, k)
           d == Dispatched(u, k)
           back == At(u, SatMinus(u.pos, 1))
           left == [back EXCEPT !.mode = "Normal", !.km = Fresh]
           typed == At(Grown(u, 1), u.pos + 1)
<1>1. /\ DOMAIN u = Fields /\ u.mode = s.mode /\ u.km = s.km /\ Untouched(s, k, u) /\ NoCall(s, u)
  BY ReceivedIs DEF Untouched
<1>2. d = InsertKey(u, k)
  BY <1>1 DEF Dispatched
<1>3. ActionOf(s, k) = IF IsChar(k) \/ k = "Esc" THEN {Act("Insert", None, k, 1)} ELSE {}
  BY DEF ActionOf
<1> HIDE DEF u
<1>4. d = IF k = "Esc" THEN left ELSE IF IsChar(k) THEN typed ELSE u
  BY <1>2 DEF InsertKey, IsChar
<1>5. /\ DOMAIN left = Fields /\ left.mode = "Normal" /\ left.km = Fresh
      /\ Untouched(s, k, left) /\ NoCall(s, left)
  <2>1. SameText(u, back)
    BY <1>1, AtKeeps
  <2> HIDE DEF back
  <2> QED
    BY <1>1, <2>1 DEF SameText, SameCommand, SameRecorder, Untouched, NoCall, Fields
<1>6. /\ DOMAIN typed = Fields /\ typed.mode = s.mode /\ typed.km = s.km
      /\ Untouched(s, k, typed) /\ NoCall(s, typed)
  <2>1. SameText(u, Grown(u, 1))
    BY <1>1, GrownKeeps
  <2>2. SameText(u, typed)
    BY <1>1, <2>1, AtKeeps DEF SameText, SameCommand, SameRecorder
  <2> HIDE DEF typed
  <2> QED
    BY <1>1, <2>2 DEF SameText, SameCommand, SameRecorder, Untouched, NoCall
<1> HIDE DEF left, typed, d
<1>7. /\ DOMAIN d = Fields /\ Untouched(s, k, d) /\ NoCall(s, d)
      /\ d.mode = IF k = "Esc" THEN "Normal" ELSE "Insert"
      /\ d.km = IF k = "Esc" THEN Fresh ELSE s.km
  BY <1>1, <1>4, <1>5, <1>6
<1>8. Fresh \in Keymaps /\ s.km \in Keymaps
  BY FreshIs DEF Basic, Calm
<1>9. Answered(s, k, d)
  <2>1. d.km \in Keymaps /\ d.mode \in Modes
    BY <1>7, <1>8 DEF Modes
  <2>2. ActionOf(s, k) = {} \/ \E a : ActionOf(s, k) = {a}
    BY <1>3
  <2> QED
    BY <1>7, <2>1, <2>2 DEF Answered
<1> QED
  BY <1>3, <1>7, <1>9 DEF d, u

\* q, when it stops a recording.
LEMMA StoppedIs ==
  ASSUME NEW s, NEW k, Basic(s), s.mode # "Insert", StopsRecording(s, k)
  PROVE  LET d == Dispatched(Received(s, k), k)
         IN  Answered(s, k, d) /\ ActionOf(s, k) = {Act("StopRecordMacro", None, None, 1)}
<1> DEFINE u == Received(s, k)
           v == WithoutTheQ(u)
           d == Dispatched(u, k)
<1>1. /\ DOMAIN u = Fields /\ u.mode = s.mode /\ u.km = s.km /\ Untouched(s, k, u) /\ NoCall(s, u)
      /\ StopsRecording(u, k)
  BY ReceivedIs DEF Untouched
<1>2. d = StopWithQ(v)
  BY <1>1 DEF Dispatched
<1>3. ActionOf(s, k) = {Act("StopRecordMacro", None, None, 1)}
  BY DEF ActionOf
<1> HIDE DEF u
<1>4. DOMAIN v = Fields /\ v.mode = s.mode /\ v.km = s.km /\ Untouched(s, k, v) /\ NoCall(s, v)
  BY <1>1 DEF WithoutTheQ, Untouched, NoCall, Fields
<1> HIDE DEF v, d
<1>5. DOMAIN d = Fields /\ d.mode = s.mode /\ d.km = s.km /\ Untouched(s, k, d) /\ NoCall(s, d)
  BY <1>2, <1>4 DEF StopWithQ, Untouched, NoCall, Fields
<1>6. s.km \in Keymaps /\ s.mode \in Modes /\ \E a : ActionOf(s, k) = {a}
  BY <1>3 DEF Basic
<1> QED
  BY <1>3, <1>5, <1>6 DEF Answered, d, u

\* A command key.
LEMMA CommandIs ==
  ASSUME NEW s, NEW k, Basic(s), s.mode # "Insert", ~StopsRecording(s, k)
  PROVE  LET d == Dispatched(Received(s, k), k)
             r == Process(s.km, k, s.mode)
         IN  /\ Answered(s, k, d) /\ ActionOf(s, k) = r.act /\ d.km = r.km
             /\ r.act = {} => d.mode = s.mode
             /\ \A a \in r.act :
                  /\ a.do \notin Plays \cup {"StartRecordMacro"} => ModeAfter(s.mode, a, d.mode)
                  /\ a.do \in Plays => d.mode = s.mode
                  /\ a.do = "DotRepeat" /\ s.lastChange # <<>> =>
                       /\ d.dotReplaying = TRUE
                       /\ d.calls = <<[kind |-> "dot", keys |-> s.lastChange]>>
<1> DEFINE u == Received(s, k)
           r == Process(s.km, k, s.mode)
           d == Dispatched(u, k)
           next == [u EXCEPT !.km = r.km]
           a0 == CHOOSE a \in r.act : TRUE
<1>1. /\ DOMAIN u = Fields /\ u.mode = s.mode /\ u.km = s.km /\ Untouched(s, k, u) /\ NoCall(s, u)
      /\ ~StopsRecording(u, k)
  BY ReceivedIs DEF Untouched
<1>2. d = IF r.act = {} THEN next ELSE Execute(next, a0)
  BY <1>1 DEF Dispatched
<1>3. ActionOf(s, k) = r.act
  BY DEF ActionOf
<1>4. Processed(s.km, k, r) /\ Sound(r)
  BY ProcessIs, ProcessSound DEF Basic, Recorder
<1> HIDE DEF u, r, d
<1>5. /\ DOMAIN next = Fields /\ next.mode = s.mode /\ next.km = r.km /\ Untouched(s, k, next)
      /\ NoCall(s, next) /\ next.calls = <<>>
  BY <1>1 DEF Untouched, NoCall, Fields, Basic
<1> HIDE DEF next
<1>6. CASE r.act = {}
  <2>1. d.km \in Keymaps /\ d.mode \in Modes /\ d = next
    BY <1>2, <1>4, <1>5, <1>6 DEF Sound, Basic
  <2>2. Answered(s, k, d)
    BY <1>3, <1>5, <1>6, <2>1 DEF Answered
  <2> QED
    BY <1>3, <1>5, <1>6, <2>1, <2>2 DEF d, u, r
<1>7. ASSUME NEW a, r.act = {a}
      PROVE  /\ DOMAIN d = Fields /\ d.km = r.km /\ d.mode \in Modes /\ Untouched(s, k, d)
             /\ NoCall(s, d) \/ (d.mode = s.mode /\ a.do \in Plays /\ Calling(s, a, d))
             /\ a.do \notin Plays \cup {"StartRecordMacro"} => ModeAfter(s.mode, a, d.mode)
             /\ a.do \in Plays => d.mode = s.mode
             /\ a.do = "DotRepeat" /\ s.lastChange # <<>> =>
                  /\ d.dotReplaying = TRUE
                  /\ d.calls = <<[kind |-> "dot", keys |-> s.lastChange]>>
  <2>1. d = Execute(next, a) /\ IsAct(a) /\ s.mode \in Modes
    BY <1>2, <1>4, <1>7 DEF Processed, Basic
  <2>2. CASE a.do \in Plays
    <3>1. /\ DOMAIN d = Fields /\ SameChange(next, d) /\ d.mode = next.mode /\ d.km = next.km
          /\ NoCall(next, d) \/ Calling(next, a, d)
          /\ a.do = "DotRepeat" /\ next.lastChange # <<>> =>
               /\ d.dotReplaying = TRUE
               /\ d.calls = <<[kind |-> "dot", keys |-> next.lastChange]>>
      BY <1>5, <2>1, <2>2, PlaysCall
    <3>2. Untouched(s, k, d)
      BY <1>5, <3>1 DEF SameChange, Untouched
    <3>3. NoCall(s, d) \/ Calling(s, a, d)
      BY <1>5, <3>1 DEF NoCall, Calling, Untouched
    <3>4. next.lastChange = s.lastChange
      BY <1>5 DEF Untouched
    <3> QED
      BY <1>5, <2>1, <2>2, <3>1, <3>2, <3>3, <3>4
  <2>3. CASE a.do = "StartRecordMacro"
    <3>1. d = StartRecording(next, a.arg)
      BY <2>1, <2>3 DEF Execute
    <3>2. /\ DOMAIN d = Fields /\ d.mode = next.mode /\ d.km = next.km
          /\ SameChange(next, d) /\ NoCall(next, d)
      BY <1>5, <3>1 DEF StartRecording, SameChange, NoCall, Fields
    <3>3. Untouched(s, k, d) /\ NoCall(s, d)
      BY <1>5, <3>2 DEF SameChange, Untouched, NoCall
    <3> QED
      BY <1>5, <2>1, <2>3, <3>2, <3>3 DEF Plays
  <2>4. CASE a.do \notin Plays \cup {"StartRecordMacro"}
    <3>1. SameCommand(next, d) /\ ModeAfter(next.mode, a, d.mode)
      BY <1>5, <2>1, <2>4, TextActsKeep
    <3>2. DOMAIN d = Fields /\ d.km = r.km /\ Untouched(s, k, d) /\ NoCall(s, d)
      BY <1>5, <3>1 DEF SameCommand, SameRecorder, Untouched, NoCall
    <3>3. d.mode \in Modes
      BY <1>5, <2>1, <3>1
      DEF ModeAfter, Modes, EntersInsert, EntersNormal, OperatorActs
    <3> QED
      BY <1>5, <2>4, <3>1, <3>2, <3>3 DEF Plays
  <2> QED
    BY <2>2, <2>3, <2>4
<1>8. ASSUME NEW a, r.act = {a}
      PROVE  Answered(s, k, d)
  <2>1. r.km \in Keymaps
    BY <1>4 DEF Sound
  <2> QED
    BY <1>3, <1>7, <1>8, <2>1 DEF Answered
<1>9. ASSUME r.act # {}
      PROVE  /\ Answered(s, k, d) /\ d.km = r.km
             /\ \A a \in r.act :
                  /\ a.do \notin Plays \cup {"StartRecordMacro"} => ModeAfter(s.mode, a, d.mode)
                  /\ a.do \in Plays => d.mode = s.mode
                  /\ a.do = "DotRepeat" /\ s.lastChange # <<>> =>
                       /\ d.dotReplaying = TRUE
                       /\ d.calls = <<[kind |-> "dot", keys |-> s.lastChange]>>
  <2>1. PICK a : r.act = {a}
    BY <1>4, <1>9 DEF Sound
  <2> QED
    BY <1>7, <1>8, <2>1
<1> QED
  BY <1>3, <1>6, <1>9 DEF d, u, r

-----------------------------------------------------------------------------
\* How a command is settled: it goes on, is the one . repeats from now on, or is forgotten.
Waits(km) == HasPending(km) \/ km.count # NoCount
GoesOnWith(s, before) == s.mode = "Insert" \/ (before.mode # "Insert" /\ Waits(s.km))
Commits(s, before) == s.change # <<>> /\ (before.mode = "Insert" \/ s.rev # before.rev)
Settles(s, before, t) ==
  /\ ~before.track =>
       /\ t.change = s.change /\ t.lastChange = s.lastChange
       /\ t.dotJustReplayed = s.dotJustReplayed
  /\ before.track => ~t.dotJustReplayed
  /\ before.track /\ s.dotJustReplayed => t.change = <<>> /\ t.lastChange = s.lastChange
  /\ before.track /\ ~s.dotJustReplayed /\ GoesOnWith(s, before) =>
       t.change = s.change /\ t.lastChange = s.lastChange
  /\ before.track /\ ~s.dotJustReplayed /\ ~GoesOnWith(s, before) =>
       t.change = <<>> /\ t.lastChange = IF Commits(s, before) THEN s.change ELSE s.lastChange
SameScene(s, t) ==
  /\ DOMAIN t = Fields /\ t.mode = s.mode /\ t.km = s.km /\ t.rev = s.rev
  /\ t.calls = s.calls /\ t.dotReplaying = s.dotReplaying

\* Settling a command is one of these.
LEMMA SettledIs ==
  ASSUME NEW s, NEW before, DOMAIN s = Fields
  PROVE  LET t == Settled(s, before)
         IN  SameScene(s, t) /\ t.stack = s.stack /\ Settles(s, before, t)
<1> DEFINE quiet == [s EXCEPT !.dotJustReplayed = FALSE, !.change = <<>>]
           still == [s EXCEPT !.change = <<>>]
           new == Commit(s)
           t == Settled(s, before)
           Same(v) == SameScene(s, v) /\ v.stack = s.stack
<1>1. /\ Same(quiet) /\ ~quiet.dotJustReplayed /\ quiet.change = <<>>
      /\ quiet.lastChange = s.lastChange
  BY DEF SameScene, Fields
<1>2. /\ Same(still) /\ still.dotJustReplayed = s.dotJustReplayed /\ still.change = <<>>
      /\ still.lastChange = s.lastChange
  BY DEF SameScene, Fields
<1>3. /\ Same(new) /\ new.dotJustReplayed = s.dotJustReplayed /\ new.change = <<>>
      /\ new.lastChange = IF s.change = <<>> THEN s.lastChange ELSE s.change
  BY DEF SameScene, Fields, Commit
<1>4. Same(s)
  BY DEF SameScene
<1>5. t = IF ~before.track THEN s
          ELSE IF s.dotJustReplayed THEN quiet
          ELSE IF s.mode = "Insert" THEN s
          ELSE IF before.mode = "Insert" THEN new
          ELSE IF Waits(s.km) THEN s
          ELSE IF s.rev # before.rev THEN new
          ELSE still
  BY DEF Settled, Waits
<1> HIDE DEF quiet, still, new, t
<1>6. Same(t)
  BY <1>1, <1>2, <1>3, <1>4, <1>5
<1>7. Settles(s, before, t)
  BY <1>1, <1>2, <1>3, <1>5 DEF Settles, GoesOnWith, Commits
<1> QED
  BY <1>6, <1>7 DEF t

\* A key handled: settled at once, or the call of a replay that settles it when it returns.
BeforeKey(s) == [track |-> Tracked(s), mode |-> s.mode, rev |-> s.rev]
Handled(s, k, d, t) ==
  /\ DOMAIN t = Fields /\ t.mode = d.mode /\ t.km = d.km /\ t.rev = d.rev
  /\ t.calls = <<>> /\ t.dotReplaying = d.dotReplaying
  /\ d.calls = <<>> => t.stack = s.stack /\ Settles(d, BeforeKey(s), t)
  /\ d.calls # <<>> =>
       /\ t.stack = Append(s.stack, [kind |-> Head(d.calls).kind, keys |-> Head(d.calls).keys,
                                     before |-> BeforeKey(s)])
       /\ t.change = d.change /\ t.lastChange = d.lastChange
       /\ t.dotJustReplayed = d.dotJustReplayed

\* Handling a key is one of these.
LEMMA HandledIs ==
  ASSUME NEW s, NEW k, DOMAIN s = Fields, NEW d, d = Dispatched(Received(s, k), k), DOMAIN d = Fields
  PROVE  Handled(s, k, d, HandleKey(s, k))
<1> DEFINE t == HandleKey(s, k)
           before == BeforeKey(s)
           calm == [d EXCEPT !.calls = <<>>]
           settled == Settled(calm, before)
           called == Head(d.calls)
           frame == [kind |-> called.kind, keys |-> called.keys, before |-> before]
           rested == [settled EXCEPT !.stack = s.stack]
           waiting == [d EXCEPT !.calls = <<>>, !.stack = Append(s.stack, frame)]
<1>1. t = IF d.calls = <<>> THEN rested ELSE waiting
  <2> HIDE DEF settled
  <2> QED
    BY DEF HandleKey, settled, BeforeKey
<1>2. /\ DOMAIN calm = Fields /\ calm.calls = <<>> /\ calm.mode = d.mode /\ calm.km = d.km
      /\ calm.rev = d.rev /\ calm.dotReplaying = d.dotReplaying /\ calm.change = d.change
      /\ calm.lastChange = d.lastChange /\ calm.dotJustReplayed = d.dotJustReplayed
  BY DEF Fields
<1> HIDE DEF calm, before
<1>3. SameScene(calm, settled) /\ Settles(calm, before, settled)
  BY <1>2, SettledIs
<1> HIDE DEF settled
<1>4. Settles(d, before, settled)
  BY <1>2, <1>3 DEF Settles, GoesOnWith, Commits
<1>5. /\ DOMAIN rested = Fields /\ rested.mode = d.mode /\ rested.km = d.km /\ rested.rev = d.rev
      /\ rested.calls = <<>> /\ rested.dotReplaying = d.dotReplaying /\ rested.stack = s.stack
      /\ Settles(d, before, rested)
  BY <1>2, <1>3, <1>4 DEF SameScene, Settles, Fields
<1>6. /\ DOMAIN waiting = Fields /\ waiting.mode = d.mode /\ waiting.km = d.km
      /\ waiting.rev = d.rev
      /\ waiting.calls = <<>> /\ waiting.dotReplaying = d.dotReplaying
      /\ waiting.stack = Append(s.stack, frame)
      /\ waiting.change = d.change /\ waiting.lastChange = d.lastChange
      /\ waiting.dotJustReplayed = d.dotJustReplayed
  <2> HIDE DEF frame
  <2> QED
    BY DEF Fields
<1> HIDE DEF rested, waiting, t
<1> QED
  BY <1>1, <1>5, <1>6 DEF Handled, t, before

\* A replay that returns.
LEMMA ReturnedIs ==
  ASSUME NEW s, DOMAIN s = Fields
  PROVE  LET t == Returned(s)
             call == Last(s.stack)
         IN  \E back :
               /\ DOMAIN back = Fields /\ back.mode = s.mode /\ back.km = s.km /\ back.rev = s.rev
               /\ back.calls = s.calls /\ back.stack = Front(s.stack)
               /\ back.change = s.change /\ back.lastChange = s.lastChange
               /\ back.dotReplaying = IF call.kind = "macro" THEN s.dotReplaying ELSE FALSE
               /\ back.dotJustReplayed = IF call.kind = "macro" THEN s.dotJustReplayed ELSE TRUE
               /\ SameScene(back, t) /\ t.stack = Front(s.stack) /\ Settles(back, call.before, t)
<1> DEFINE call == Last(s.stack)
           popped == [s EXCEPT !.stack = Front(@)]
           dotted == [popped EXCEPT !.dotReplaying = FALSE, !.dotJustReplayed = TRUE]
           back == IF call.kind = "macro" THEN popped ELSE dotted
           Popped(v) ==
             /\ DOMAIN v = Fields /\ v.mode = s.mode /\ v.km = s.km /\ v.rev = s.rev
             /\ v.calls = s.calls /\ v.stack = Front(s.stack)
             /\ v.change = s.change /\ v.lastChange = s.lastChange
<1>1. /\ Popped(popped) /\ popped.dotReplaying = s.dotReplaying
      /\ popped.dotJustReplayed = s.dotJustReplayed
  BY DEF Fields
<1>2. Popped(dotted) /\ dotted.dotReplaying = FALSE /\ dotted.dotJustReplayed = TRUE
  <2> HIDE DEF popped
  <2> QED
    BY <1>1 DEF Fields
<1>3. Returned(s) = Settled(back, call.before)
  BY DEF Returned
<1> HIDE DEF popped, dotted
<1>4. /\ Popped(back)
      /\ back.dotReplaying = IF call.kind = "macro" THEN s.dotReplaying ELSE FALSE
      /\ back.dotJustReplayed = IF call.kind = "macro" THEN s.dotJustReplayed ELSE TRUE
  BY <1>1, <1>2
<1> HIDE DEF back
<1>5. /\ SameScene(back, Settled(back, call.before))
      /\ Settled(back, call.before).stack = back.stack
      /\ Settles(back, call.before, Settled(back, call.before))
  BY <1>4, SettledIs
<1> QED
  BY <1>3, <1>4, <1>5

-----------------------------------------------------------------------------
\* What holds of a key handled, whoever typed it.
Replays(s, acts) ==
  /\ s.stack = <<>> => ~s.dotReplaying /\ ~s.dotJustReplayed
  /\ s.stack # <<>> => s.stack[1].before.track /\ ~Repeatable(acts)
  /\ \A i \in 1..Len(s.stack) :
       /\ DOMAIN s.stack[i] = {"kind", "keys", "before"}
       /\ s.stack[i].kind \in {"macro", "dot"} /\ s.stack[i].before.mode # "Insert"
  /\ s.dotReplaying => \E i \in 1..Len(s.stack) : s.stack[i].kind = "dot"
Changed(s, t, done) == t.rev # s.rev \/ \E a \in done : a.do = "Insert"

\* The answer to a key, in whatever mode.
LEMMA DispatchedIs ==
  ASSUME NEW s, NEW k, Basic(s)
  PROVE  LET d == Dispatched(Received(s, k), k)
         IN  /\ Answered(s, k, d)
             /\ s.mode # "Insert" => \A a \in ActionOf(s, k) : a.do # "Insert"
             /\ ActionOf(s, k) = {} => d.mode = s.mode
             /\ s.mode = "Insert" /\ d.mode # "Insert" => \E a \in ActionOf(s, k) : a.do = "Insert"
<1> DEFINE d == Dispatched(Received(s, k), k)
<1>1. CASE s.mode = "Insert"
  <2>1. /\ Answered(s, k, d)
        /\ d.mode = IF k = "Esc" THEN "Normal" ELSE "Insert"
        /\ ActionOf(s, k) = IF IsChar(k) \/ k = "Esc" THEN {Act("Insert", None, k, 1)} ELSE {}
    BY <1>1, TypedIs
  <2>2. Act("Insert", None, k, 1).do = "Insert"
    BY DEF Act
  <2> HIDE DEF d
  <2>3. /\ ActionOf(s, k) = {} => d.mode = "Insert"
        /\ d.mode # "Insert" => \E a \in ActionOf(s, k) : a.do = "Insert"
    BY <2>1, <2>2
  <2> QED
    BY <1>1, <2>1, <2>3 DEF d
<1>2. CASE s.mode # "Insert" /\ StopsRecording(s, k)
  <2>1. Answered(s, k, d) /\ ActionOf(s, k) = {Act("StopRecordMacro", None, None, 1)}
    BY <1>2, StoppedIs
  <2>2. Act("StopRecordMacro", None, None, 1).do # "Insert"
    BY DEF Act
  <2> QED
    BY <1>2, <2>1, <2>2
<1>3. CASE s.mode # "Insert" /\ ~StopsRecording(s, k)
  <2> DEFINE r == Process(s.km, k, s.mode)
  <2>1. Answered(s, k, d) /\ ActionOf(s, k) = r.act /\ (r.act = {} => d.mode = s.mode)
    BY <1>3, CommandIs
  <2>2. \A a \in r.act : a.do # "Insert"
    <3>1. Processed(s.km, k, r)
      BY ProcessIs DEF Basic, Recorder
    <3> QED
      BY <3>1 DEF Processed, IsAct, PlainActs, OperatorActs
  <2> QED
    BY <1>3, <2>1, <2>2
<1> QED
  BY <1>1, <1>2, <1>3

\* What is appended to the actions that are not all repeatable does not make them so.
LEMMA RepeatableIs ==
  ASSUME NEW acts, IsSequence(acts), NEW done, done = {} \/ \E a : done = {a}
  PROVE  /\ ~Repeatable(acts) => ~Repeatable(Adds(acts, done))
         /\ \A a \in done : ~Repeatable(<<a>>) => ~Repeatable(Adds(acts, done))
         /\ Repeatable(acts) /\ (\A a \in done : Repeatable(<<a>>)) => Repeatable(Adds(acts, done))
<1>1. CASE done = {}
  BY <1>1 DEF Adds
<1>2. CASE done # {}
  <2>1. PICK a : done = {a}
    BY <1>2
  <2> DEFINE b == Append(acts, a)
  <2>2. Adds(acts, done) = b
    BY <2>1 DEF Adds
  <2>3. /\ IsSequence(b) /\ Len(b) = Len(acts) + 1 /\ b[Len(acts) + 1] = a
        /\ \A i \in 1..Len(acts) : b[i] = acts[i]
    BY AppendIs
  <2>4. Len(acts) \in Nat /\ DOMAIN acts = 1..Len(acts) /\ DOMAIN b = 1..Len(b)
    BY <2>3, SequenceIs
  <2>5. /\ \A i \in DOMAIN acts : i \in DOMAIN b /\ b[i] = acts[i]
        /\ Len(acts) + 1 \in DOMAIN b
        /\ \A i \in DOMAIN b : i \in DOMAIN acts \/ i = Len(acts) + 1
    BY <2>3, <2>4
  <2>6. DOMAIN <<a>> = {1} /\ <<a>>[1] = a
    OBVIOUS
  <2> HIDE DEF b
  <2> DEFINE Of(x) == x.do \in {"EnterVisual", "PlayMacro", "PlayLastMacro", "DotRepeat",
                               "StartRecordMacro", "StopRecordMacro"}
  <2>7. \A c : Repeatable(c) <=> \A i \in DOMAIN c : ~Of(c[i])
    BY DEF Repeatable
  <2> HIDE DEF Of
  <2>8. Repeatable(<<a>>) <=> ~Of(a)
    BY <2>6, <2>7
  <2>9. Repeatable(b) <=> Repeatable(acts) /\ ~Of(a)
    BY <2>3, <2>5, <2>7
  <2> QED
    BY <2>1, <2>2, <2>8, <2>9
<1> QED
  BY <1>1, <1>2

\* A key keeps what is known of the replays; the change . repeats is another one only after
\* a change that no replay of the dot makes.
LEMMA KeyKeeps ==
  ASSUME NEW s, NEW k, NEW acts, Basic(s), Replays(s, acts), IsSequence(acts)
  PROVE  LET t == HandleKey(s, k)
             done == ActionOf(s, k)
         IN  /\ Basic(t) /\ Replays(t, Adds(acts, done)) /\ IsSequence(Adds(acts, done))
             /\ s.dotReplaying \/ ~Changed(s, t, done) => t.lastChange = s.lastChange
             /\ AtRest(t) /\ s.stack = <<>> => t.change = <<>>
<1> DEFINE d == Dispatched(Received(s, k), k)
           t == HandleKey(s, k)
           done == ActionOf(s, k)
           acts1 == Adds(acts, done)
           before == BeforeKey(s)
<1>1. /\ Answered(s, k, d) /\ (s.mode # "Insert" => \A a \in done : a.do # "Insert")
      /\ s.mode = "Insert" /\ d.mode # "Insert" => \E a \in done : a.do = "Insert"
  BY DispatchedIs
<1>2. Handled(s, k, d, t)
  <2>1. DOMAIN d = Fields /\ DOMAIN s = Fields
    BY <1>1 DEF Answered, Basic, Recorder
  <2> QED
    BY <2>1, HandledIs
<1>3. Recorder(t)
  BY HandleKeyIs DEF Basic
<1>4. before.mode = s.mode /\ before.rev = s.rev /\ (before.track <=> ~s.dotReplaying)
  BY DEF BeforeKey, Tracked, Basic, Modes
<1>5. IsSequence(Longer(s, k)) /\ IsSequence(<<>>)
  BY OneMoreKey, NoKeys DEF Longer, Basic
<1>6. /\ done = {} \/ \E a : done = {a}
      /\ IsSequence(acts1)
  BY <1>1, AddsIs DEF Answered
<1> HIDE DEF d, t, done, acts1, before
<1>7. CASE d.calls = <<>>
  <2>1. /\ t.stack = s.stack /\ t.dotReplaying = s.dotReplaying /\ t.mode = d.mode /\ t.km = d.km
        /\ t.rev = d.rev /\ Settles(d, before, t) /\ Untouched(s, k, d) /\ t.calls = <<>>
    BY <1>1, <1>2, <1>7 DEF Handled, Answered, NoCall, Calling, before
  <2>2. Basic(t)
    <3>1. IsSequence(t.change) /\ IsSequence(t.lastChange)
      BY <1>5, <2>1 DEF Settles, Untouched, Basic
    <3> QED
      BY <1>1, <1>3, <2>1, <3>1 DEF Basic, Answered
  <2>3. Replays(t, acts1)
    <3>1. ~Repeatable(acts) => ~Repeatable(acts1)
      BY <1>6, RepeatableIs DEF acts1
    <3>2. s.stack = <<>> => ~t.dotReplaying /\ ~t.dotJustReplayed
      BY <1>4, <2>1 DEF Settles, Untouched, Replays
    <3> QED
      BY <2>1, <3>1, <3>2 DEF Replays
  <2>4. ASSUME s.dotReplaying \/ ~Changed(s, t, done)
        PROVE  t.lastChange = s.lastChange
    <3>1. CASE s.dotReplaying
      BY <1>4, <2>1, <3>1 DEF Settles, Untouched
    <3>2. CASE ~Changed(s, t, done)
      <4>1. d.rev = s.rev /\ \A a \in done : a.do # "Insert"
        BY <2>1, <3>2 DEF Changed
      <4>2. before.mode = "Insert" => GoesOnWith(d, before)
        BY <1>1, <1>4, <4>1 DEF GoesOnWith
      <4>3. ~GoesOnWith(d, before) => ~Commits(d, before)
        BY <1>4, <4>1, <4>2 DEF Commits
      <4> QED
        BY <2>1, <4>3 DEF Settles, Untouched
    <3> QED
      BY <2>4, <3>1, <3>2
  <2>5. ASSUME AtRest(t), s.stack = <<>>
        PROVE  t.change = <<>>
    <3>1. before.track /\ ~GoesOnWith(d, before)
      BY <1>4, <2>1, <2>5 DEF AtRest, GoesOnWith, Waits, Replays
    <3> QED
      BY <2>1, <3>1 DEF Settles
  <2> QED
    BY <1>6, <2>2, <2>3, <2>4, <2>5 DEF t, done, acts1
<1>8. CASE d.calls # <<>>
  <2>1. PICK a \in done : /\ a.do \in Plays /\ Calling(s, a, d) /\ s.mode # "Insert" /\ d.mode = s.mode
    BY <1>1, <1>8 DEF Answered, NoCall, done
  <2>2. PICK kind, keys :
          /\ d.calls = <<[kind |-> kind, keys |-> keys]>>
          /\ \/ kind = "dot" /\ a.do = "DotRepeat" /\ d.dotReplaying = TRUE /\ keys = s.lastChange
             \/ kind = "macro" /\ d.dotReplaying = s.dotReplaying
    BY <2>1 DEF Calling
  <2> DEFINE frame == [kind |-> Head(d.calls).kind, keys |-> Head(d.calls).keys,
                       before |-> before]
  <2>3. Head(d.calls) = [kind |-> kind, keys |-> keys]
    BY <2>2
  <2>4. /\ DOMAIN frame = {"kind", "keys", "before"} /\ frame.kind = kind
        /\ frame.kind \in {"macro", "dot"} /\ frame.before = before
    BY <2>2, <2>3
  <2> HIDE DEF frame
  <2>5. /\ t.stack = Append(s.stack, frame) /\ t.dotReplaying = d.dotReplaying
        /\ t.mode = d.mode /\ t.km = d.km
        /\ t.rev = d.rev /\ t.calls = <<>> /\ t.change = d.change
        /\ t.lastChange = d.lastChange /\ Untouched(s, k, d)
    BY <1>1, <1>2, <1>8 DEF Handled, Answered, before, frame
  <2>6. /\ IsSequence(t.stack) /\ t.stack # <<>> /\ Len(t.stack) = Len(s.stack) + 1
        /\ Len(s.stack) \in Nat
        /\ \A i \in 1..Len(s.stack) : t.stack[i] = s.stack[i]
        /\ t.stack[Len(s.stack) + 1] = frame
        /\ s.stack = <<>> <=> Len(s.stack) = 0
    <3>1. IsSequence(s.stack)
      BY DEF Basic
    <3> DEFINE b == Append(s.stack, frame)
    <3>2. /\ IsSequence(b) /\ b # <<>> /\ Len(b) = Len(s.stack) + 1
          /\ \A i \in 1..Len(s.stack) : b[i] = s.stack[i]
          /\ b[Len(s.stack) + 1] = frame
      BY <3>1, AppendIs
    <3>3. Len(s.stack) \in Nat /\ (s.stack = <<>> <=> Len(s.stack) = 0)
      BY <3>1, SequenceIs
    <3>4. t.stack = b
      BY <2>5
    <3> HIDE DEF b
    <3> QED
      BY <3>2, <3>3, <3>4
  <2>7. Basic(t)
    <3>1. IsSequence(t.change) /\ IsSequence(t.lastChange)
      BY <1>5, <2>5 DEF Untouched, Basic
    <3> QED
      BY <1>1, <1>3, <2>5, <2>6, <3>1 DEF Basic, Answered
  <2>8. Replays(t, acts1)
    <3>1. ~Repeatable(acts1)
      <4>1. ~Repeatable(<<a>>)
        <5>1. DOMAIN <<a>> = {1} /\ <<a>>[1] = a
          OBVIOUS
        <5> QED
          BY <2>1, <5>1 DEF Repeatable, Plays
      <4> QED
        BY <1>6, <2>1, <4>1, RepeatableIs DEF acts1
    <3>2. t.stack[1].before.track
      <4>1. CASE s.stack = <<>>
        BY <1>4, <2>4, <2>6, <4>1 DEF Replays
      <4>2. CASE s.stack # <<>>
        BY <2>6, <4>2 DEF Replays
      <4> QED
        BY <4>1, <4>2
    <3>3. \A i \in 1..Len(t.stack) : i \in 1..Len(s.stack) \/ i = Len(s.stack) + 1
      BY <2>6
    <3>4. \A i \in 1..Len(t.stack) :
            /\ DOMAIN t.stack[i] = {"kind", "keys", "before"}
            /\ t.stack[i].kind \in {"macro", "dot"} /\ t.stack[i].before.mode # "Insert"
      BY <1>4, <2>1, <2>4, <2>6, <3>3 DEF Replays
    <3>5. t.dotReplaying => \E i \in 1..Len(t.stack) : t.stack[i].kind = "dot"
      <4>1. CASE kind = "dot"
        BY <2>4, <2>6, <4>1
      <4>2. CASE kind = "macro"
        <5>1. t.dotReplaying = s.dotReplaying
          BY <2>2, <2>5, <4>2
        <5>2. s.dotReplaying => \E i \in 1..Len(s.stack) : s.stack[i].kind = "dot"
          BY DEF Replays
        <5>3. \A i \in 1..Len(s.stack) : i \in 1..Len(t.stack) /\ t.stack[i] = s.stack[i]
          BY <2>6
        <5> QED
          BY <5>1, <5>2, <5>3
      <4> QED
        BY <2>2, <4>1, <4>2
    <3> QED
      BY <2>6, <3>1, <3>2, <3>4, <3>5 DEF Replays
  <2>9. t.lastChange = s.lastChange /\ ~AtRest(t)
    BY <2>5, <2>6 DEF Untouched, AtRest
  <2> QED
    BY <1>6, <2>7, <2>8, <2>9 DEF t, done, acts1
<1> QED
  BY <1>7, <1>8

-----------------------------------------------------------------------------
\* A sequence without its last element.
LEMMA FrontIs ==
  ASSUME NEW c, IsSequence(c), c # <<>>
  PROVE  /\ Last(c) = c[Len(c)] /\ IsSequence(Front(c)) /\ Len(Front(c)) = Len(c) - 1
         /\ \A i \in 1..Len(c) - 1 : Front(c)[i] = c[i]
<1> DEFINE S == {c[i] : i \in DOMAIN c}
           n == Len(c) - 1
           d == SubSeq(c, 1, n)
<1>1. Len(c) \in Nat /\ Len(c) # 0 /\ DOMAIN c = 1..Len(c)
  BY SequenceIs
<1>2. \A i \in 1..n : c[i] \in S
  BY <1>1
<1> HIDE DEF S
<1>3. d \in Seq(S) /\ Len(d) = n /\ \A i \in 1..n : d[i] = c[i]
  BY <1>1, <1>2, SubSeqProperties
<1>4. IsSequence(d)
  <2> DEFINE T == {d[i] : i \in DOMAIN d}
  <2> HIDE DEF d
  <2>1. d \in [1..Len(d) -> T] /\ Len(d) \in Nat
    BY <1>3, LenProperties
  <2>2. d \in Seq(T)
    <3> HIDE DEF T
    <3> QED
      BY <2>1, SeqDef
  <2> QED
    BY <2>2 DEF IsSequence
<1>5. Front(c) = d /\ Last(c) = c[Len(c)]
  BY DEF Front, Last
<1> QED
  BY <1>3, <1>4, <1>5

\* A replay that returns: the change . repeats is another one only after a macro that changed
\* something.
LEMMA ReturnKeeps ==
  ASSUME NEW s, NEW acts, Basic(s), Replays(s, acts), s.stack # <<>>
  PROVE  LET t == Returned(s)
             call == Last(s.stack)
         IN  /\ Basic(t) /\ Replays(t, acts) /\ t.stack = Front(s.stack)
             /\ t.mode = s.mode /\ t.km = s.km
             /\ ~(call.kind = "macro" /\ s.rev # call.before.rev) => t.lastChange = s.lastChange
             /\ AtRest(t) => t.change = <<>>
<1> DEFINE t == Returned(s)
           call == Last(s.stack)
           n == Len(s.stack)
<1>1. PICK back :
        /\ DOMAIN back = Fields /\ back.mode = s.mode /\ back.km = s.km /\ back.rev = s.rev
        /\ back.calls = s.calls /\ back.stack = Front(s.stack)
        /\ back.change = s.change /\ back.lastChange = s.lastChange
        /\ back.dotReplaying = IF call.kind = "macro" THEN s.dotReplaying ELSE FALSE
        /\ back.dotJustReplayed = IF call.kind = "macro" THEN s.dotJustReplayed ELSE TRUE
        /\ SameScene(back, t) /\ t.stack = Front(s.stack) /\ Settles(back, call.before, t)
  BY ReturnedIs DEF Basic, Recorder
<1>2. /\ n \in Nat /\ n # 0 /\ call = s.stack[n]
      /\ IsSequence(Front(s.stack)) /\ Len(Front(s.stack)) = n - 1
      /\ \A i \in 1..n - 1 : Front(s.stack)[i] = s.stack[i]
  BY SequenceIs, FrontIs DEF Basic
<1>3. Recorder(t)
  <2>1. SameRecorder(s, t)
    BY ReturnedKeeps DEF Basic, Recorder
  <2> QED
    BY <2>1 DEF SameRecorder, Recorder, Basic
<1>4. call.kind \in {"macro", "dot"} /\ call.before.mode # "Insert"
  BY <1>2 DEF Replays
<1>5. /\ t.mode = s.mode /\ t.km = s.km /\ t.calls = <<>>
      /\ t.dotReplaying = IF call.kind = "macro" THEN s.dotReplaying ELSE FALSE
  BY <1>1 DEF SameScene, Basic
<1> HIDE DEF t, call, n
<1>6. Basic(t)
  <2>1. IsSequence(t.change) /\ IsSequence(t.lastChange)
    BY <1>1, NoKeys DEF Settles, Basic
  <2> QED
    BY <1>1, <1>2, <1>3, <1>5, <2>1 DEF Basic
<1>7. t.stack = <<>> => n = 1 /\ call.before.track
  <2>1. t.stack = <<>> => Len(t.stack) = 0
    BY <1>1, <1>2, SequenceIs
  <2>2. t.stack = <<>> => n = 1
    BY <1>1, <1>2, <2>1
  <2> QED
    BY <1>2, <2>2 DEF Replays
<1>8. Replays(t, acts)
  <2>1. t.stack = <<>> => ~t.dotReplaying /\ ~t.dotJustReplayed
    <3>1. ASSUME t.stack = <<>>
          PROVE  ~t.dotReplaying
      <4>1. CASE call.kind = "dot"
        BY <1>5, <4>1
      <4>2. CASE call.kind = "macro"
        <5>1. \A i \in 1..Len(s.stack) : s.stack[i].kind # "dot"
          BY <1>2, <1>7, <3>1, <4>2 DEF n
        <5> QED
          BY <1>5, <4>2, <5>1 DEF Replays
      <4> QED
        BY <1>4, <4>1, <4>2
    <3>2. t.stack = <<>> => ~t.dotJustReplayed
      BY <1>1, <1>7 DEF Settles
    <3> QED
      BY <3>1, <3>2
  <2>2. t.stack # <<>> => n - 1 \in Nat \ {0} /\ t.stack[1] = s.stack[1]
    <3>1. t.stack # <<>> => Len(t.stack) # 0
      BY <1>1, <1>2, SequenceIs
    <3> QED
      BY <1>1, <1>2, <3>1
  <2>3. \A i \in 1..Len(t.stack) : i \in 1..Len(s.stack) /\ t.stack[i] = s.stack[i]
    BY <1>1, <1>2 DEF n
  <2>4. t.dotReplaying => \E i \in 1..Len(t.stack) : t.stack[i].kind = "dot"
    <3>1. ASSUME t.dotReplaying
          PROVE  \E i \in 1..Len(t.stack) : t.stack[i].kind = "dot"
      <4>1. call.kind = "macro" /\ s.dotReplaying
        BY <1>5, <3>1
      <4>2. PICK i \in 1..n : s.stack[i].kind = "dot"
        BY <4>1 DEF Replays, n
      <4>3. i # n
        BY <1>2, <4>1, <4>2
      <4>4. i \in 1..Len(t.stack) /\ t.stack[i] = s.stack[i]
        BY <1>1, <1>2, <4>3
      <4> QED
        BY <4>2, <4>4
    <3> QED
      BY <3>1
  <2> QED
    BY <2>1, <2>2, <2>3, <2>4 DEF Replays
<1>9. ASSUME ~(call.kind = "macro" /\ s.rev # call.before.rev)
      PROVE  t.lastChange = s.lastChange
  <2>1. CASE call.kind = "dot"
    BY <1>1, <2>1 DEF Settles
  <2>2. CASE call.kind = "macro"
    <3>1. ~Commits(back, call.before)
      BY <1>1, <1>4, <1>9, <2>2 DEF Commits
    <3> QED
      BY <1>1, <3>1 DEF Settles
  <2> QED
    BY <1>4, <2>1, <2>2
<1>10. ASSUME AtRest(t)
       PROVE  t.change = <<>>
  <2>1. call.before.track
    BY <1>7, <1>10 DEF AtRest
  <2>2. ~GoesOnWith(back, call.before)
    BY <1>1, <1>4, <1>5, <1>10 DEF AtRest, GoesOnWith, Waits
  <2> QED
    BY <1>1, <2>1, <2>2 DEF Settles
<1> QED
  BY <1>1, <1>5, <1>6, <1>8, <1>9, <1>10 DEF t, call

-----------------------------------------------------------------------------
\* The keys of a command, as they lead from mode to mode and through the keymap: none begins
\* or ends a recording, calls a replay or enters visual mode.  The text is not looked at: c
\* is taken to enter insert mode.
Start == [mode |-> "Normal", km |-> Fresh, script |-> <<>>]
Controls(s, acts) == [mode |-> s.mode, km |-> s.km, script |-> acts]
Good(c) ==
  c.mode \in {"Normal", "Insert"} /\ Calm(c.km) /\ IsSequence(c.script) /\ Repeatable(c.script)
ActsOf(c, k) ==
  IF c.mode # "Insert" THEN Process(c.km, k, "Normal").act
  ELSE IF IsChar(k) \/ k = "Esc" THEN {Act("Insert", None, k, 1)} ELSE {}
KmOf(c, k) ==
  IF c.mode # "Insert" THEN Process(c.km, k, "Normal").km ELSE IF k = "Esc" THEN Fresh ELSE c.km
ModeOf(c, k) ==
  IF c.mode = "Insert" THEN IF k = "Esc" THEN "Normal" ELSE "Insert"
  ELSE IF \E a \in ActsOf(c, k) : a.do \in EntersInsert \/ a.op = "Change" THEN "Insert"
  ELSE "Normal"
Passes(c, k) ==
  /\ c.mode # "Insert" => k # "q" \/ HasPending(c.km)
  /\ \A a \in ActsOf(c, k) : Repeatable(<<a>>)
After(c, k) ==
  [mode |-> ModeOf(c, k), km |-> KmOf(c, k), script |-> Adds(c.script, ActsOf(c, k))]

\* One action alone.
LEMMA OneAct ==
  \A a : Repeatable(<<a>>) <=>
    a.do \notin {"EnterVisual", "PlayMacro", "PlayLastMacro", "DotRepeat",
                 "StartRecordMacro", "StopRecordMacro"}
<1> SUFFICES ASSUME NEW a
             PROVE  Repeatable(<<a>>) <=>
                      a.do \notin {"EnterVisual", "PlayMacro", "PlayLastMacro", "DotRepeat",
                                   "StartRecordMacro", "StopRecordMacro"}
  OBVIOUS
<1>1. DOMAIN <<a>> = {1} /\ <<a>>[1] = a
  OBVIOUS
<1> QED
  BY <1>1 DEF Repeatable

\* A key leads on.
LEMMA AfterGood ==
  ASSUME NEW c, NEW k, Good(c), Passes(c, k)
  PROVE  Good(After(c, k)) /\ (ActsOf(c, k) = {} \/ \E a : ActsOf(c, k) = {a})
<1> DEFINE r == Process(c.km, k, "Normal")
<1>1. Sound(r) /\ Steady(r)
  BY ProcessSound DEF Good, Calm
<1>2. ActsOf(c, k) = {} \/ \E a : ActsOf(c, k) = {a}
  BY <1>1 DEF ActsOf, Sound
<1>3. Calm(KmOf(c, k))
  BY <1>1, FreshIs DEF KmOf, Steady, Good
<1>4. ModeOf(c, k) \in {"Normal", "Insert"}
  BY DEF ModeOf
<1>5. IsSequence(Adds(c.script, ActsOf(c, k)))
  BY <1>2, AddsIs DEF Good
<1>6. Repeatable(Adds(c.script, ActsOf(c, k)))
  BY <1>2, RepeatableIs DEF Good, Passes
<1> QED
  BY <1>2, <1>3, <1>4, <1>5, <1>6 DEF Good, After

\* The App follows, but for a c that finds nothing to change.
LEMMA Follows ==
  ASSUME NEW s, NEW k, NEW c, Basic(s), Good(c), s.mode = c.mode, s.km = c.km, Passes(c, k)
  PROVE  LET d == Dispatched(Received(s, k), k)
         IN  /\ Answered(s, k, d) /\ NoCall(s, d) /\ ActionOf(s, k) = ActsOf(c, k)
             /\ d.km = KmOf(c, k)
             /\ \/ d.mode = ModeOf(c, k)
                \/ d.mode = "Normal" /\ \E a \in ActsOf(c, k) : a.op = "Change"
<1> DEFINE d == Dispatched(Received(s, k), k)
           r == Process(s.km, k, s.mode)
<1>1. Answered(s, k, d)
  BY DispatchedIs
<1>2. CASE s.mode = "Insert"
  <2>1. /\ d.mode = IF k = "Esc" THEN "Normal" ELSE "Insert"
        /\ d.km = IF k = "Esc" THEN Fresh ELSE s.km
        /\ ActionOf(s, k) = IF IsChar(k) \/ k = "Esc" THEN {Act("Insert", None, k, 1)} ELSE {}
    BY <1>2, TypedIs
  <2> HIDE DEF d
  <2>2. NoCall(s, d)
    BY <1>1, <1>2 DEF Answered
  <2> QED
    BY <1>1, <1>2, <2>1, <2>2 DEF d, ActsOf, KmOf, ModeOf
<1>3. CASE s.mode # "Insert"
  <2>1. s.mode = "Normal" /\ ~StopsRecording(s, k)
    BY <1>3 DEF Good, Passes, StopsRecording
  <2>2. /\ ActionOf(s, k) = r.act /\ d.km = r.km
        /\ r.act = {} => d.mode = s.mode
        /\ \A a \in r.act :
             a.do \notin Plays \cup {"StartRecordMacro"} => ModeAfter(s.mode, a, d.mode)
    BY <1>3, <2>1, CommandIs
  <2>3. Sound(r) /\ Steady(r) /\ Processed(s.km, k, r)
    BY <2>1, ProcessSound, ProcessIs DEF Good, Basic, Calm, Recorder
  <2>4. ActsOf(c, k) = r.act /\ KmOf(c, k) = r.km
    BY <2>1 DEF ActsOf, KmOf
  <2> HIDE DEF d, r
  <2>5. \A a \in r.act : a.do \notin Plays \cup {"StartRecordMacro", "EnterVisual"}
    BY <2>4, OneAct DEF Passes, Plays
  <2>6. NoCall(s, d)
    BY <1>1, <2>2, <2>5 DEF Answered
  <2>7. CASE r.act = {}
    BY <1>1, <2>1, <2>2, <2>4, <2>6, <2>7 DEF d, ModeOf
  <2>8. ASSUME NEW a, r.act = {a}
        PROVE  d.mode = ModeOf(c, k) \/ (d.mode = "Normal" /\ a.op = "Change")
    <3>1. /\ a.op = "Change" => a.do \in OperatorActs
          /\ a.do # "OperatorSelection"
      BY <2>3, <2>8 DEF Steady, Completes
    <3>2. ModeAfter("Normal", a, d.mode) /\ a.do # "EnterVisual"
      BY <2>1, <2>2, <2>5, <2>8
    <3>3. ModeOf(c, k) = IF a.do \in EntersInsert \/ a.op = "Change" THEN "Insert" ELSE "Normal"
      BY <2>1, <2>4, <2>8 DEF ModeOf
    <3> QED
      BY <3>1, <3>2, <3>3 DEF ModeAfter, EntersInsert, EntersNormal, OperatorActs
  <2>9. r.act # {} => \/ d.mode = ModeOf(c, k)
                      \/ d.mode = "Normal" /\ \E a \in r.act : a.op = "Change"
    BY <2>3, <2>8 DEF Sound
  <2> QED
    BY <1>1, <2>2, <2>4, <2>6, <2>7, <2>9 DEF d
<1> QED
  BY <1>2, <1>3

\* Bare q waits for the name of a macro.
LEMMA BareQ ==
  ASSUME NEW km \in Keymaps, ~HasPending(km)
  PROVE  Process(km, "q", "Normal") = Await(km, "macro")
<1>1. km.op = None /\ km.prefix = <<>> /\ km.awaits = {}
  BY DEF HasPending
<1>2. DOMAIN Ctrl = {"^o", "^i", "^r", "^a"} /\ DOMAIN Digit = {"0", "1", "2"}
  BY DEF Ctrl, Digit, Table
<1>3. Char("q") = "q"
  BY <1>2 DEF Char
<1>4. "q" \in DOMAIN Awaiting
  BY DEF Awaiting, Table
<1>5. Awaiting["q"] = "macro"
  <2> DEFINE rows == {<<"f", "find">>, <<"r", "replace">>, <<"q", "macro">>, <<"@", "play">>,
                      <<"dquote", "register">>, <<"m", "mark">>, <<"tick", "jump">>,
                      <<"quote", "jumpLine">>}
  <2>1. PICK row \in rows : row[1] = "q" /\ Table(rows)["q"] = row[2]
    BY <1>4, TableRow DEF Awaiting
  <2> QED
    BY <2>1 DEF Awaiting
<1>6. StartsAwaiting(km, "q")
  BY <1>1, <1>3, <1>4 DEF StartsAwaiting
<1> QED
  BY <1>1, <1>2, <1>3, <1>5, <1>6 DEF Process, Visual

-----------------------------------------------------------------------------
\* A key that does not lead on: what it does is not for the dot to repeat, or it waits for
\* the name of a macro.
Naming(s) == s.mode = "Normal" /\ "macro" \in s.km.awaits

\* It either does something of that kind or only waits.
LEMMA Strays ==
  ASSUME NEW s, NEW k, NEW c, Basic(s), Good(c), s.mode = c.mode, s.km = c.km, ~Passes(c, k)
  PROVE  LET d == Dispatched(Received(s, k), k)
         IN  \/ \E a \in ActionOf(s, k) : ~Repeatable(<<a>>)
             \/ NoCall(s, d) /\ Naming(d) /\ ActionOf(s, k) = {}
<1> DEFINE d == Dispatched(Received(s, k), k)
           r == Process(s.km, k, s.mode)
<1>1. s.mode # "Insert"
  <2>1. ASSUME c.mode = "Insert"
        PROVE  Passes(c, k)
    <3>1. Repeatable(<<Act("Insert", None, k, 1)>>)
      BY OneAct DEF Act
    <3> QED
      BY <2>1, <3>1 DEF Passes, ActsOf
  <2> QED
    BY <2>1
<1>2. s.mode = "Normal"
  BY <1>1 DEF Good
<1>3. CASE StopsRecording(s, k)
  <2>1. ActionOf(s, k) = {Act("StopRecordMacro", None, None, 1)}
    BY <1>1, <1>3, StoppedIs
  <2>2. ~Repeatable(<<Act("StopRecordMacro", None, None, 1)>>)
    BY OneAct DEF Act
  <2> QED
    BY <2>1, <2>2
<1>4. CASE ~StopsRecording(s, k) /\ k = "q" /\ ~HasPending(s.km)
  <2>1. r = Await(s.km, "macro")
    BY <1>2, <1>4, BareQ DEF Basic
  <2>2. r.act = {} /\ "macro" \in r.km.awaits
    BY <2>1 DEF Await, NeedMore, Basic, Keymaps
  <2>3. Answered(s, k, d) /\ ActionOf(s, k) = r.act /\ d.km = r.km /\ (r.act = {} => d.mode = s.mode)
    BY <1>1, <1>4, CommandIs
  <2> HIDE DEF d, r
  <2>4. NoCall(s, d)
    BY <2>2, <2>3 DEF Answered
  <2> QED
    BY <1>2, <2>2, <2>3, <2>4 DEF d, Naming
<1>5. CASE ~StopsRecording(s, k) /\ ~(k = "q" /\ ~HasPending(s.km))
  <2>1. \E a \in ActsOf(c, k) : ~Repeatable(<<a>>)
    BY <1>5 DEF Passes
  <2>2. ActionOf(s, k) = r.act /\ ActsOf(c, k) = r.act
    BY <1>1, <1>2, <1>5, CommandIs DEF ActsOf
  <2> QED
    BY <2>1, <2>2
<1> QED
  BY <1>3, <1>4, <1>5

\* The name of a macro, or Esc.
LEMMA NamingIs ==
  ASSUME NEW s, NEW k, Basic(s), Naming(s)
  PROVE  LET d == Dispatched(Received(s, k), k)
         IN  \/ \E a \in ActionOf(s, k) : a.do = "StartRecordMacro"
             \/ /\ NoCall(s, d) /\ d.mode = "Normal" /\ d.km = Fresh /\ d.rev = s.rev
                /\ \A a \in ActionOf(s, k) : a.do = "EnterNormal"
<1> DEFINE u == Received(s, k)
           d == Dispatched(u, k)
           r == Process(s.km, k, s.mode)
           esc == Act("EnterNormal", None, None, 1)
           next == [u EXCEPT !.km = r.km]
<1>1. s.km.awaits = {"macro"} /\ s.mode = "Normal" /\ HasPending(s.km)
  BY DEF Naming, Basic, Recorder, IsKeymap, HasPending
<1>2. /\ DOMAIN u = Fields /\ u.mode = s.mode /\ u.km = s.km /\ u.rev = s.rev
      /\ ~StopsRecording(s, k) /\ ~StopsRecording(u, k)
  BY <1>1, ReceivedIs DEF StopsRecording
<1>3. Answered(s, k, d) /\ ActionOf(s, k) = r.act /\ d.km = r.km /\ (r.act = {} => d.mode = s.mode)
  BY <1>1, <1>2, CommandIs
<1>4. \/ r.km = Fresh /\ (r.act = {} \/ r.act = {esc})
      \/ \E a \in r.act : a.do = "StartRecordMacro"
  <2>1. CASE k = "Esc"
    BY <2>1 DEF Process, NeedMore, Done
  <2>2. CASE k # "Esc"
    <3>1. s.km.awaits \cap DOMAIN Named = {"macro"}
      BY <1>1, Tables
    <3>2. (CHOOSE a \in {"macro"} : TRUE) = "macro"
      OBVIOUS
    <3>3. r = NamedBy(s.km, "macro", k)
      BY <2>2, <3>1, <3>2 DEF Process
    <3>4. Named["macro"] = "StartRecordMacro"
      <4> DEFINE rows == {<<"macro", "StartRecordMacro">>, <<"play", "PlayMacro">>,
                          <<"register", "SetRegister">>, <<"mark", "SetMark">>,
                          <<"jump", "JumpToMark">>, <<"jumpLine", "JumpToMarkLine">>}
      <4>1. "macro" \in DOMAIN Named
        BY Tables
      <4>2. PICK row \in rows : row[1] = "macro" /\ Table(rows)["macro"] = row[2]
        BY <4>1, TableRow DEF Named
      <4> QED
        BY <4>2 DEF Named
    <3> HIDE DEF r
    <3> QED
      BY <3>3, <3>4 DEF NamedBy, NoMatch, Done, Act
  <2> QED
    BY <2>1, <2>2
<1>5. ASSUME r.km = Fresh, r.act = {} \/ r.act = {esc}
      PROVE  NoCall(s, d) /\ d.mode = "Normal" /\ d.rev = s.rev
  <2>1. esc.do = "EnterNormal"
    BY DEF Act
  <2>2. NoCall(s, d)
    BY <1>3, <1>5, <2>1 DEF Answered, Plays
  <2>3. d = IF r.act = {} THEN next ELSE Execute(next, CHOOSE a \in r.act : TRUE)
    BY <1>1, <1>2 DEF Dispatched
  <2>4. DOMAIN next = Fields /\ next.mode = s.mode /\ next.rev = s.rev
    BY <1>2 DEF Fields
  <2> HIDE DEF next, r, d, esc, u
  <2>5. CASE r.act = {}
    BY <1>1, <2>2, <2>3, <2>4, <2>5
  <2>6. CASE r.act = {esc}
    <3>1. d = Execute(next, esc)
      BY <2>3, <2>6
    <3>2. d = [At(next, next.pos) EXCEPT !.mode = "Normal"]
      BY <2>1, <3>1 DEF Execute
    <3>3. d.mode = "Normal" /\ d.rev = next.rev
      BY <2>4, <3>2 DEF At, Fields
    <3> QED
      BY <2>2, <2>4, <3>3
  <2> QED
    BY <1>5, <2>5, <2>6
<1>6. esc.do = "EnterNormal"
  BY DEF Act
<1> HIDE DEF d, r, esc
<1> QED
  BY <1>3, <1>4, <1>5, <1>6 DEF d, u

-----------------------------------------------------------------------------
\* The keys of a command, from rest to where they lead.
Trace(h, keys) ==
  /\ h[0] = Start
  /\ \A i \in 0..Len(keys) : Good(h[i])
  /\ \A i \in 1..Len(keys) : Passes(h[i - 1], keys[i]) /\ h[i] = After(h[i - 1], keys[i])
Traced(keys, c) == \E h : Trace(h, keys) /\ h[Len(keys)] = c

\* No key leads nowhere.
LEMMA TracedAtFirst == Traced(<<>>, Start) /\ Good(Start)
<1> DEFINE h == [i \in {0} |-> Start]
<1>1. Good(Start)
  <2>1. IsSequence(<<>>) /\ Repeatable(<<>>)
    BY NoKeys DEF Repeatable
  <2> QED
    BY <2>1, FreshIs DEF Good, Start
<1>2. Len(<<>>) = 0
  OBVIOUS
<1>3. Trace(h, <<>>) /\ h[Len(<<>>)] = Start
  BY <1>1, <1>2 DEF Trace
<1> QED
  BY <1>1, <1>3 DEF Traced

\* One key more.
LEMMA TracedOn ==
  ASSUME NEW keys, NEW c, NEW k, IsSequence(keys), Traced(keys, c), Passes(c, k)
  PROVE  Traced(Append(keys, k), After(c, k)) /\ Good(c) /\ Good(After(c, k))
<1> DEFINE n == Len(keys)
           more == Append(keys, k)
<1>1. PICK h : Trace(h, keys) /\ h[n] = c
  BY DEF Traced
<1>2. n \in Nat
  BY SequenceIs
<1>3. Good(c) /\ Good(After(c, k))
  <2>1. Good(c)
    BY <1>1, <1>2 DEF Trace
  <2> QED
    BY <2>1, AfterGood
<1>4. Len(more) = n + 1 /\ (\A i \in 1..n : more[i] = keys[i]) /\ more[n + 1] = k
  BY AppendIs
<1> DEFINE g == [i \in 0..n + 1 |-> IF i = n + 1 THEN After(c, k) ELSE h[i]]
<1> HIDE DEF more, n
<1>5. g[n + 1] = After(c, k) /\ \A i \in 0..n : g[i] = h[i]
  BY <1>2
<1> HIDE DEF g
<1>6. g[0] = Start
  BY <1>1, <1>2, <1>5 DEF Trace
<1>7. \A i \in 0..Len(more) : Good(g[i])
  <2>1. \A i \in 0..Len(more) : i \in 0..n \/ i = n + 1
    BY <1>2, <1>4
  <2> QED
    BY <1>1, <1>3, <1>5, <2>1 DEF Trace, n
<1>8. \A i \in 1..Len(more) : Passes(g[i - 1], more[i]) /\ g[i] = After(g[i - 1], more[i])
  <2>1. ASSUME NEW i \in 1..Len(more)
        PROVE  Passes(g[i - 1], more[i]) /\ g[i] = After(g[i - 1], more[i])
    <3>1. CASE i \in 1..n
      <4>1. g[i] = h[i] /\ g[i - 1] = h[i - 1]
        BY <1>2, <1>5, <3>1
      <4> QED
        BY <1>1, <1>4, <3>1, <4>1 DEF Trace, n
    <3>2. CASE i = n + 1
      <4>1. g[i - 1] = c
        BY <1>1, <1>2, <1>5, <3>2
      <4> QED
        BY <1>4, <1>5, <3>2, <4>1
    <3> QED
      BY <1>2, <1>4, <2>1, <3>1, <3>2
  <2> QED
    BY <2>1
<1>9. Trace(g, more) /\ g[Len(more)] = After(c, k)
  BY <1>4, <1>5, <1>6, <1>7, <1>8 DEF Trace
<1> QED
  BY <1>3, <1>9 DEF Traced, more

\* A c that does not enter insert mode has changed nothing.
LEMMA ChangeIs ==
  ASSUME NEW s, DOMAIN s = Fields, NEW a, a.op = "Change",
         a.do \in OperatorActs, a.do # "OperatorSelection"
  PROVE  Execute(s, a) = s \/ Execute(s, a).mode = "Insert"
<1>1. \A lo, hi, linewise : Operate(s, "Change", lo, hi, linewise).mode = "Insert"
  <2> SUFFICES ASSUME NEW lo, NEW hi, NEW linewise
               PROVE  Operate(s, "Change", lo, hi, linewise).mode = "Insert"
    OBVIOUS
  <2> DEFINE from == IF linewise THEN 0 ELSE Least(lo, s.len)
             to == IF linewise THEN s.len ELSE Least(hi + 1, s.len)
             whole == Cut(s, from, to)
             cut == [whole EXCEPT !.register = None]
  <2>1. DOMAIN whole = Fields
    BY CutKeeps DEF SameText, SameCommand, SameRecorder
  <2> HIDE DEF whole
  <2>2. [cut EXCEPT !.mode = "Insert"].mode = "Insert"
    BY <2>1 DEF Fields
  <2>3. Operate(s, "Change", lo, hi, linewise) = [cut EXCEPT !.mode = "Insert"]
    BY DEF Operate, whole
  <2> QED
    BY <2>2, <2>3
<1>2. CASE a.do = "OperatorMotion"
  <2>1. Execute(s, a) = OperatorMotion(s, "Change", a.arg, a.n)
    BY <1>2 DEF Execute
  <2> QED
    BY <1>1, <2>1 DEF OperatorMotion
<1>3. CASE a.do = "OperatorTextObj"
  <2>1. Execute(s, a) = OperatorTextObj(s, "Change", a.arg)
    BY <1>3 DEF Execute
  <2> QED
    BY <1>1, <2>1 DEF OperatorTextObj
<1>4. CASE a.do = "OperatorLine"
  <2>1. Execute(s, a) = Operate(s, "Change", s.pos, s.pos, TRUE)
    BY <1>4 DEF Execute
  <2> QED
    BY <1>1, <2>1
<1> QED
  BY <1>2, <1>3, <1>4 DEF OperatorActs

\* So it leaves the keymap at rest, in normal mode.
LEMMA Misses ==
  ASSUME NEW s, NEW k, NEW c, Basic(s), Good(c), s.mode = c.mode, s.km = c.km, Passes(c, k),
         NEW a \in ActsOf(c, k), a.op = "Change"
  PROVE  LET d == Dispatched(Received(s, k), k)
         IN  KmOf(c, k) = Fresh /\ s.mode = "Normal" /\ (d.mode # "Insert" => d.rev = s.rev)
<1> DEFINE u == Received(s, k)
           d == Dispatched(u, k)
           r == Process(s.km, k, s.mode)
           next == [u EXCEPT !.km = r.km]
<1>1. s.mode = "Normal"
  <2>1. s.mode # "Insert"
    BY DEF ActsOf, Act, None
  <2> QED
    BY <2>1 DEF Good
<1>2. Sound(r) /\ Steady(r) /\ ActsOf(c, k) = r.act /\ KmOf(c, k) = r.km
  BY <1>1, ProcessSound DEF Good, Calm, ActsOf, KmOf
<1>3. r.act = {a} /\ r.km = Fresh /\ a.do \in OperatorActs /\ a.do # "OperatorSelection"
  BY <1>2 DEF Sound, Steady, Completes
<1>4. ~StopsRecording(s, k)
  BY <1>1 DEF Passes, StopsRecording
<1>5. DOMAIN u = Fields /\ u.mode = s.mode /\ u.km = s.km /\ u.rev = s.rev /\ ~StopsRecording(u, k)
  BY <1>4, ReceivedIs
<1>6. d = Execute(next, a)
  BY <1>1, <1>3, <1>5 DEF Dispatched
<1>7. DOMAIN next = Fields /\ next.rev = s.rev
  BY <1>5 DEF Fields
<1> HIDE DEF next, d, r
<1>8. d.mode # "Insert" => d.rev = s.rev
  BY <1>3, <1>6, <1>7, ChangeIs
<1> QED
  BY <1>1, <1>2, <1>3, <1>8 DEF d

\* A key typed: the keys of the command in progress lead to where the App is, and once it has
\* changed something and is at rest they are what . repeats.
Composing(s, acts) ==
  ~Repeatable(acts) \/ Naming(s) \/ Traced(s.change, Controls(s, acts))
Taught(keys, acts) == Traced(keys, [Start EXCEPT !.script = acts])

\* Either holds after the next key.
LEMMA TypeComposes ==
  ASSUME NEW s, NEW k, NEW acts, Basic(s), s.stack = <<>>, ~s.dotReplaying, ~s.dotJustReplayed,
         IsSequence(acts), Composing(s, acts)
  PROVE  LET t == HandleKey(s, k)
             done == ActionOf(s, k)
             acts1 == Adds(acts, done)
         IN  /\ t.stack = <<>> => AtRest(t) \/ Composing(t, acts1)
             /\ Changed(s, t, done) /\ AtRest(t) /\ Repeatable(acts1) =>
                  Taught(t.lastChange, acts1)
<1> DEFINE d == Dispatched(Received(s, k), k)
           t == HandleKey(s, k)
           done == ActionOf(s, k)
           acts1 == Adds(acts, done)
           before == BeforeKey(s)
           c == Controls(s, acts)
<1>1. Answered(s, k, d) /\ (s.mode # "Insert" => \A a \in done : a.do # "Insert")
  BY DispatchedIs
<1>2. Handled(s, k, d, t)
  <2>1. DOMAIN d = Fields /\ DOMAIN s = Fields
    BY <1>1 DEF Answered, Basic, Recorder
  <2> QED
    BY <2>1, HandledIs
<1>3. before.mode = s.mode /\ before.rev = s.rev /\ before.track
  BY DEF BeforeKey, Tracked, Basic, Modes
<1>4. done = {} \/ \E a : done = {a}
  BY <1>1 DEF Answered
<1>5. c.mode = s.mode /\ c.km = s.km /\ c.script = acts
  BY DEF Controls
<1>6. NoCall(s, d) => /\ d.calls = <<>> /\ t.stack = <<>> /\ t.mode = d.mode /\ t.km = d.km
                      /\ t.rev = d.rev /\ Settles(d, before, t)
  BY <1>2 DEF NoCall, Handled, before
<1>7. Untouched(s, k, d) /\ d.km \in Keymaps
  BY <1>1 DEF Answered
<1> HIDE DEF d, t, done, before, c
<1> DEFINE Goal ==
             /\ t.stack = <<>> => AtRest(t) \/ Composing(t, acts1)
             /\ Changed(s, t, done) /\ AtRest(t) /\ Repeatable(acts1) => Taught(t.lastChange, acts1)
<1>8. ~Repeatable(acts1) => Goal
  BY DEF Composing
<1>9. CASE ~Repeatable(acts)
  <2>1. ~Repeatable(acts1)
    BY <1>4, <1>9, RepeatableIs
  <2> QED
    BY <1>8, <2>1 DEF t, done
<1>10. CASE Naming(s)
  <2>1. CASE \E a \in done : a.do = "StartRecordMacro"
    <3>1. ~Repeatable(acts1)
      BY <1>4, <2>1, RepeatableIs, OneAct
    <3> QED
      BY <1>8, <3>1 DEF t, done
  <2>2. CASE /\ NoCall(s, d) /\ d.mode = "Normal" /\ d.km = Fresh /\ d.rev = s.rev
             /\ \A a \in done : a.do = "EnterNormal"
    <3>1. AtRest(t)
      BY <1>6, <2>2 DEF AtRest, HasPending, Fresh
    <3>2. ~Changed(s, t, done)
      BY <1>6, <2>2 DEF Changed
    <3> QED
      BY <3>1, <3>2 DEF t, done
  <2>3. \/ \E a \in done : a.do = "StartRecordMacro"
        \/ /\ NoCall(s, d) /\ d.mode = "Normal" /\ d.km = Fresh /\ d.rev = s.rev
           /\ \A a \in done : a.do = "EnterNormal"
    BY <1>10, NamingIs DEF d, done
  <2> QED
    BY <2>1, <2>2, <2>3
<1>11. CASE Traced(s.change, c)
  <2>1. Good(c) /\ IsSequence(s.change)
    <3>1. IsSequence(s.change) /\ Len(s.change) \in Nat
      BY SequenceIs DEF Basic
    <3> QED
      BY <1>11, <3>1 DEF Traced, Trace
  <2>2. CASE ~Passes(c, k)
    <3>1. \/ \E a \in done : ~Repeatable(<<a>>)
          \/ NoCall(s, d) /\ Naming(d) /\ done = {}
      BY <1>5, <2>1, <2>2, Strays DEF d, done
    <3>2. CASE \E a \in done : ~Repeatable(<<a>>)
      <4>1. ~Repeatable(acts1)
        BY <1>4, <3>2, RepeatableIs
      <4> QED
        BY <1>8, <4>1 DEF t, done
    <3>3. CASE NoCall(s, d) /\ Naming(d)
      <4>1. Naming(t)
        BY <1>6, <3>3 DEF Naming
      <4>2. ~AtRest(t)
        BY <4>1 DEF Naming, AtRest, HasPending
      <4> QED
        BY <4>1, <4>2 DEF Composing, t, done
    <3> QED
      BY <3>1, <3>2, <3>3
  <2>3. CASE Passes(c, k)
    <3>1. /\ NoCall(s, d) /\ done = ActsOf(c, k) /\ d.km = KmOf(c, k)
          /\ \/ d.mode = ModeOf(c, k)
             \/ d.mode = "Normal" /\ \E a \in ActsOf(c, k) : a.op = "Change"
      BY <1>5, <2>1, <2>3, Follows DEF d, done
    <3>2. /\ t.stack = <<>> /\ t.mode = d.mode /\ t.km = d.km /\ t.rev = d.rev
          /\ Settles(d, before, t)
      BY <1>6, <3>1
    <3>3. d.change = Append(s.change, k) /\ ~d.dotJustReplayed
      BY <1>7 DEF Untouched, Longer
    <3>4. Traced(d.change, After(c, k)) /\ Good(After(c, k))
      BY <1>11, <2>1, <2>3, <3>3, TracedOn
    <3>5. /\ After(c, k).mode = ModeOf(c, k) /\ After(c, k).km = d.km
          /\ After(c, k).script = acts1
      BY <1>5, <3>1 DEF After
    <3>6. d.change # <<>>
      <4>1. Append(s.change, k) # <<>>
        BY <2>1, AppendIs
      <4> QED
        BY <3>3, <4>1
    <3>7. CASE d.mode = ModeOf(c, k)
      <4>1. After(c, k) = Controls(t, acts1)
        BY <1>5, <3>1, <3>2, <3>7 DEF After, Controls
      <4>2. CASE GoesOnWith(d, before)
        <5>1. t.change = d.change
          BY <1>3, <3>2, <3>3, <4>2 DEF Settles
        <5>2. ~AtRest(t)
          <6>1. CASE d.mode = "Insert"
            BY <3>2, <6>1 DEF AtRest
          <6>2. CASE Waits(d.km)
            BY <3>2, <6>2 DEF AtRest, Waits
          <6> QED
            BY <4>2, <6>1, <6>2 DEF GoesOnWith
        <5> QED
          BY <3>4, <4>1, <5>1, <5>2 DEF Composing, t, done
      <4>3. CASE ~GoesOnWith(d, before)
        <5>1. d.mode = "Normal"
          BY <3>4, <3>5, <3>7, <4>3 DEF GoesOnWith, Good
        <5>2. ~Waits(d.km)
          <6>1. CASE s.mode = "Insert"
            <7>1. d.km = Fresh
              BY <1>5, <3>1, <3>7, <5>1, <6>1 DEF ModeOf, KmOf
            <7> QED
              BY <7>1 DEF Waits, HasPending, Fresh
          <6>2. CASE s.mode # "Insert"
            BY <1>3, <4>3, <6>2 DEF GoesOnWith
          <6> QED
            BY <6>1, <6>2
        <5>3. AtRest(t)
          BY <3>2, <5>1, <5>2 DEF AtRest, Waits
        <5>4. ASSUME Changed(s, t, done)
              PROVE  Taught(t.lastChange, acts1)
          <6>1. Commits(d, before)
            BY <1>1, <1>3, <3>2, <3>6, <5>4 DEF Commits, Changed
          <6>2. t.lastChange = d.change
            BY <1>3, <3>2, <3>3, <4>3, <6>1 DEF Settles
          <6>3. d.km = Fresh
            BY <1>7, <5>2, FreshIs DEF Waits, HasPending
          <6>4. After(c, k) = [Start EXCEPT !.script = acts1]
            BY <3>5, <3>7, <5>1, <6>3 DEF After, Start
          <6> QED
            BY <3>4, <6>2, <6>4 DEF Taught
        <5> QED
          BY <5>3, <5>4 DEF t, done
      <4> QED
        BY <4>2, <4>3
    <3>8. CASE d.mode = "Normal" /\ \E a \in ActsOf(c, k) : a.op = "Change"
      <4>1. KmOf(c, k) = Fresh /\ s.mode = "Normal" /\ d.rev = s.rev
        BY <1>5, <2>1, <2>3, <3>8, Misses DEF d
      <4>2. AtRest(t)
        BY <3>1, <3>2, <3>8, <4>1 DEF AtRest, HasPending, Fresh
      <4>3. ~Changed(s, t, done)
        BY <1>1, <3>2, <4>1 DEF Changed
      <4> QED
        BY <4>2, <4>3 DEF t, done
    <3> QED
      BY <3>1, <3>7, <3>8
  <2> QED
    BY <2>2, <2>3
<1> QED
  BY <1>9, <1>10, <1>11 DEF Composing, c

-----------------------------------------------------------------------------
\* What . does: it goes through the keys of the last change, from rest, or has met a c that
\* found nothing to change.
Lost(acts, mode) ==
  \E i \in 1..Len(acts) :
    /\ acts[i].op = "Change"
    /\ i = Len(acts) => mode # "Insert"
    /\ i # Len(acts) => acts[i + 1].do # "Insert"
Ahead(keys, all, n) ==
  /\ IsSequence(keys) /\ n \in 0..Len(all) /\ Len(keys) = Len(all) - n
  /\ \A i \in 1..Len(keys) : keys[i] = all[n + i]
AtStep(s, acts, c) == s.mode = c.mode /\ s.km = c.km /\ acts # <<>> /\ Tail(acts) = c.script
Halfway(s, acts, learnt) ==
  /\ s.dotReplaying /\ Len(s.stack) = 1 /\ s.stack[1].kind = "dot"
  /\ \E h, n :
       /\ Trace(h, s.lastChange) /\ h[Len(s.lastChange)] = [Start EXCEPT !.script = learnt]
       /\ Ahead(s.stack[1].keys, s.lastChange, n) /\ AtStep(s, acts, h[n])

\* Once met, it stays.
LEMMA LostStays ==
  ASSUME NEW s, NEW k, NEW acts, Basic(s), IsSequence(acts), Lost(acts, s.mode)
  PROVE  Lost(Adds(acts, ActionOf(s, k)), HandleKey(s, k).mode)
<1> DEFINE d == Dispatched(Received(s, k), k)
           t == HandleKey(s, k)
           done == ActionOf(s, k)
           n == Len(acts)
<1>1. /\ Answered(s, k, d) /\ (s.mode # "Insert" => \A a \in done : a.do # "Insert")
      /\ done = {} => d.mode = s.mode
  BY DispatchedIs
<1>2. t.mode = d.mode
  <2>1. DOMAIN d = Fields /\ DOMAIN s = Fields
    BY <1>1 DEF Answered, Basic, Recorder
  <2>2. Handled(s, k, d, t)
    BY <2>1, HandledIs
  <2> QED
    BY <2>2 DEF Handled
<1>3. PICK i \in 1..n : /\ acts[i].op = "Change"
                        /\ i = n => s.mode # "Insert"
                        /\ i # n => acts[i + 1].do # "Insert"
  BY DEF Lost
<1>4. n \in Nat
  BY SequenceIs
<1>5. done = {} \/ \E a : done = {a}
  BY <1>1 DEF Answered
<1> HIDE DEF d, t, done, n
<1>6. CASE done = {}
  BY <1>1, <1>2, <1>6 DEF Adds, t, done
<1>7. CASE done # {}
  <2>1. PICK a : done = {a}
    BY <1>5, <1>7
  <2> DEFINE more == Append(acts, a)
  <2>2. Adds(acts, done) = more
    BY <2>1 DEF Adds
  <2>3. Len(more) = n + 1 /\ (\A j \in 1..n : more[j] = acts[j]) /\ more[n + 1] = a
    BY AppendIs DEF n
  <2> HIDE DEF more
  <2>4. i \in 1..Len(more) /\ i # Len(more) /\ more[i].op = "Change"
    BY <1>3, <1>4, <2>3
  <2>5. more[i + 1].do # "Insert"
    <3>1. CASE i = n
      BY <1>1, <1>3, <2>1, <2>3, <3>1
    <3>2. CASE i # n
      <4>1. i + 1 \in 1..n
        BY <1>3, <1>4, <3>2
      <4> QED
        BY <1>3, <2>3, <3>2, <4>1
    <3> QED
      BY <3>1, <3>2
  <2>6. Lost(more, t.mode)
    BY <2>4, <2>5 DEF Lost
  <2> QED
    BY <2>2, <2>6 DEF t, done
<1> QED
  BY <1>6, <1>7

\* The first key of ., which calls the replay.
LEMMA DotStarts ==
  ASSUME NEW s, NEW k, Basic(s), s.stack = <<>>, Calm(s.km), s.mode = "Normal",
         NEW a \in ActionOf(s, k), a.do = "DotRepeat",
         NEW learnt, learnt # <<>>, Taught(s.lastChange, learnt)
  PROVE  Halfway(HandleKey(s, k), Adds(<<>>, ActionOf(s, k)), learnt)
<1> DEFINE d == Dispatched(Received(s, k), k)
           t == HandleKey(s, k)
           r == Process(s.km, k, s.mode)
           all == s.lastChange
           begun == Adds(<<>>, ActionOf(s, k))
<1>1. PICK h : Trace(h, all) /\ h[Len(all)] = [Start EXCEPT !.script = learnt]
  BY DEF Taught, Traced
<1>2. all # <<>>
  <2>1. CASE all = <<>>
    <3>1. Len(all) = 0
      BY <2>1
    <3>2. Start = [Start EXCEPT !.script = learnt]
      BY <1>1, <3>1 DEF Trace
    <3> QED
      BY <3>2 DEF Start
  <2> QED
    BY <2>1
<1>3. ~StopsRecording(s, k)
  <2>1. CASE StopsRecording(s, k)
    <3>1. ActionOf(s, k) = {Act("StopRecordMacro", None, None, 1)}
      BY <2>1, StoppedIs
    <3> QED
      BY <3>1 DEF Act
  <2> QED
    BY <2>1
<1>4. /\ Answered(s, k, d) /\ ActionOf(s, k) = r.act /\ d.km = r.km /\ d.mode = s.mode
      /\ d.dotReplaying = TRUE /\ d.calls = <<[kind |-> "dot", keys |-> all]>>
  BY <1>2, <1>3, CommandIs DEF Plays
<1>5. r.act = {a} /\ r.km = Fresh
  <2>1. Sound(r) /\ Steady(r)
    BY ProcessSound DEF Basic
  <2> QED
    BY <1>4, <2>1 DEF Sound, Steady, Completes
<1>6. Handled(s, k, d, t)
  <2>1. DOMAIN d = Fields /\ DOMAIN s = Fields
    BY <1>4 DEF Answered, Basic, Recorder
  <2> QED
    BY <2>1, HandledIs
<1>7. begun = Append(<<>>, a)
  BY <1>4, <1>5 DEF Adds
<1>8. begun # <<>> /\ Tail(begun) = <<>>
  <2> HIDE DEF begun
  <2> QED
    BY <1>7, OneAppended
<1> DEFINE frame == [kind |-> Head(d.calls).kind, keys |-> Head(d.calls).keys,
                     before |-> BeforeKey(s)]
<1>9. frame.kind = "dot" /\ frame.keys = all
  <2>1. Head(d.calls) = [kind |-> "dot", keys |-> all]
    BY <1>4
  <2> QED
    BY <2>1
<1> HIDE DEF frame
<1>10. /\ t.mode = "Normal" /\ t.km = Fresh /\ t.dotReplaying /\ t.lastChange = all
       /\ t.stack = Append(<<>>, frame)
  BY <1>4, <1>5, <1>6 DEF Handled, Answered, Untouched, frame
<1>11. Len(t.stack) = 1 /\ t.stack[1] = frame
  <2>1. Len(<<>>) = 0
    OBVIOUS
  <2> QED
    BY <1>10, <2>1, NoKeys, AppendIs
<1>12. Ahead(all, all, 0)
  <2>1. IsSequence(all) /\ Len(all) \in Nat
    BY SequenceIs DEF Basic
  <2> QED
    BY <2>1 DEF Ahead
<1>13. AtStep(t, begun, h[0])
  <2>1. h[0] = Start
    BY <1>1 DEF Trace
  <2> QED
    BY <1>8, <1>10, <2>1 DEF AtStep, Start
<1>14. \E g, n : /\ Trace(g, t.lastChange)
                 /\ g[Len(t.lastChange)] = [Start EXCEPT !.script = learnt]
                 /\ Ahead(t.stack[1].keys, t.lastChange, n) /\ AtStep(t, begun, g[n])
  BY <1>1, <1>9, <1>10, <1>11, <1>12, <1>13
<1> QED
  BY <1>9, <1>10, <1>11, <1>14 DEF Halfway, begun, t

\* The App from which the innermost replay takes its next key.
Popped(s) == [s EXCEPT !.stack[Len(s.stack)].keys = Tail(@)]

\* It is known as the one before, but for that key.
LEMMA PoppedIs ==
  ASSUME NEW s, NEW acts, Basic(s), Replays(s, acts), s.stack # <<>>
  PROVE  LET u == Popped(s)
         IN  /\ Basic(u) /\ Replays(u, acts) /\ u.stack # <<>> /\ Len(u.stack) = Len(s.stack)
             /\ u.mode = s.mode /\ u.km = s.km /\ u.rev = s.rev /\ u.lastChange = s.lastChange
             /\ u.dotReplaying = s.dotReplaying
             /\ Last(u.stack).keys = Tail(Last(s.stack).keys)
             /\ Last(u.stack).kind = Last(s.stack).kind
<1> DEFINE u == Popped(s)
           n == Len(s.stack)
           top == s.stack[n]
           less == [top EXCEPT !.keys = Tail(@)]
<1>1. n \in Nat /\ n # 0 /\ n \in 1..n /\ DOMAIN s.stack = 1..n
  BY SequenceIs DEF Basic
<1>2. Last(s.stack) = top
  BY DEF Last
<1>3. /\ DOMAIN less = {"kind", "keys", "before"} /\ less.kind = top.kind
      /\ less.before = top.before /\ less.keys = Tail(top.keys)
  BY <1>1 DEF Replays
<1> DEFINE stack == [s.stack EXCEPT ![n] = less]
<1>4. u = [s EXCEPT !.stack = stack]
  BY DEF Popped
<1>5. /\ DOMAIN u = Fields /\ u.stack = stack /\ SameRecorder(s, u)
      /\ u.mode = s.mode /\ u.km = s.km /\ u.rev = s.rev /\ u.lastChange = s.lastChange
      /\ u.dotReplaying = s.dotReplaying /\ u.dotJustReplayed = s.dotJustReplayed
      /\ u.calls = s.calls /\ u.change = s.change
  <2> HIDE DEF stack
  <2> QED
    BY <1>4 DEF Basic, Recorder, SameRecorder, Fields
<1> HIDE DEF u, top
<1>6. IsSequence(stack) /\ Len(stack) = n
  <2> DEFINE S == {s.stack[i] : i \in DOMAIN s.stack} \cup {less}
  <2>1. s.stack \in Seq(S) /\ less \in S
    BY SeqMonotonic DEF Basic, IsSequence
  <2> HIDE DEF S, less
  <2>2. stack \in Seq(S) /\ Len(stack) = Len(s.stack)
    BY <1>1, <2>1, ExceptSeq
  <2> HIDE DEF stack
  <2>3. stack \in [1..n -> S] /\ DOMAIN stack = 1..n
    BY <2>2, LenProperties
  <2> DEFINE T == {stack[i] : i \in DOMAIN stack}
  <2>4. stack \in [1..n -> T]
    BY <2>3
  <2>5. stack \in Seq(T)
    <3> HIDE DEF T
    <3> QED
      BY <1>1, <2>4, SeqDef
  <2> QED
    BY <2>2, <2>5 DEF IsSequence
<1>7. /\ stack[n] = less
      /\ \A i \in 1..n : i # n => stack[i] = s.stack[i]
  BY <1>1
<1> HIDE DEF less, stack
<1>8. /\ Last(u.stack) = less /\ u.stack # <<>>
  <2>1. u.stack # <<>>
    BY <1>1, <1>5, <1>6, SequenceIs
  <2> QED
    BY <1>5, <1>6, <1>7, <2>1 DEF Last
<1>9. Basic(u)
  BY <1>5, <1>6 DEF Basic, Recorder, SameRecorder
<1>10. \A i \in 1..n : /\ u.stack[i].kind = s.stack[i].kind /\ u.stack[i].before = s.stack[i].before
                       /\ DOMAIN u.stack[i] = {"kind", "keys", "before"}
  BY <1>3, <1>5, <1>7 DEF Replays, top
<1>11. Replays(u, acts)
  <2>1. 1 \in 1..n
    BY <1>1
  <2>2. u.stack[1].before.track /\ ~Repeatable(acts)
    BY <1>10, <2>1 DEF Replays
  <2>3. \A i \in 1..Len(u.stack) :
          /\ DOMAIN u.stack[i] = {"kind", "keys", "before"}
          /\ u.stack[i].kind \in {"macro", "dot"} /\ u.stack[i].before.mode # "Insert"
    BY <1>5, <1>6, <1>10 DEF Replays
  <2>4. u.dotReplaying => \E i \in 1..Len(u.stack) : u.stack[i].kind = "dot"
    BY <1>5, <1>6, <1>10 DEF Replays
  <2> QED
    BY <1>8, <2>2, <2>3, <2>4 DEF Replays
<1> QED
  BY <1>2, <1>3, <1>5, <1>6, <1>8, <1>9, <1>11 DEF u

\* The replay of . takes a key: it follows the keys of the last change, or is lost.
LEMMA DotGoesOn ==
  ASSUME NEW s, NEW acts, NEW learnt, Basic(s), Replays(s, acts), s.stack # <<>>, IsSequence(acts),
         Halfway(s, acts, learnt), Last(s.stack).keys # <<>>
  PROVE  LET u == Popped(s)
             k == Head(s.stack[Len(s.stack)].keys)
             more == Adds(acts, ActionOf(u, k))
         IN  Halfway(HandleKey(u, k), more, learnt) \/ Lost(more, HandleKey(u, k).mode)
<1> DEFINE u == Popped(s)
           keys == s.stack[1].keys
           all == s.lastChange
           k == Head(keys)
           d == Dispatched(Received(u, k), k)
           t == HandleKey(u, k)
           done == ActionOf(u, k)
           more == Adds(acts, done)
<1>1. PICK h, n : /\ Trace(h, all) /\ h[Len(all)] = [Start EXCEPT !.script = learnt]
                  /\ Ahead(keys, all, n) /\ AtStep(s, acts, h[n])
  BY DEF Halfway
<1> DEFINE c == h[n]
<1>2. /\ Len(s.stack) = 1 /\ s.dotReplaying /\ s.stack[1].kind = "dot" /\ Last(s.stack) = s.stack[1]
      /\ keys # <<>>
  BY DEF Halfway, Last
<1>3. Len(keys) \in Nat /\ Len(keys) # 0 /\ Len(all) \in Nat
  BY <1>1, <1>2, SequenceIs DEF Ahead, Basic
<1>4. n \in Nat /\ n + 1 \in 1..Len(all) /\ n \in 0..Len(all) /\ k = all[n + 1]
  <2>1. Head(keys) = keys[1]
    BY <1>1, <1>2, TailIs DEF Ahead
  <2>2. n \in 0..Len(all) /\ Len(keys) = Len(all) - n /\ keys[1] = all[n + 1]
    <3> HIDE DEF keys, all
    <3>1. n \in 0..Len(all) /\ Len(keys) = Len(all) - n /\ \A i \in 1..Len(keys) : keys[i] = all[n + i]
      BY <1>1 DEF Ahead
    <3>2. 1 \in 1..Len(keys)
      BY <1>3
    <3> QED
      BY <3>1, <3>2
  <2> QED
    BY <1>3, <2>1, <2>2
<1>5. Good(c) /\ Passes(c, k) /\ h[n + 1] = After(c, k)
  <2>1. (n + 1) - 1 = n
    BY <1>4
  <2>2. Good(h[n])
    BY <1>1, <1>4 DEF Trace
  <2>3. Passes(h[(n + 1) - 1], all[n + 1]) /\ h[n + 1] = After(h[(n + 1) - 1], all[n + 1])
    BY <1>1, <1>4 DEF Trace
  <2> QED
    BY <1>4, <2>1, <2>2, <2>3
<1>6. /\ Basic(u) /\ u.mode = s.mode /\ u.km = s.km /\ u.lastChange = all /\ u.dotReplaying
      /\ Len(u.stack) = 1 /\ u.stack[1].kind = "dot" /\ u.stack[1].keys = Tail(keys)
  <2>1. /\ Basic(u) /\ Len(u.stack) = Len(s.stack)
        /\ u.mode = s.mode /\ u.km = s.km /\ u.lastChange = s.lastChange
        /\ u.dotReplaying = s.dotReplaying
        /\ Last(u.stack).keys = Tail(Last(s.stack).keys)
        /\ Last(u.stack).kind = Last(s.stack).kind
    BY PoppedIs
  <2>2. Last(u.stack) = u.stack[1]
    BY <1>2, <2>1 DEF Last
  <2> HIDE DEF u
  <2> QED
    BY <1>2, <2>1, <2>2
<1>7. /\ s.mode = c.mode /\ s.km = c.km /\ acts # <<>> /\ Tail(acts) = c.script
  BY <1>1 DEF AtStep
<1> HIDE DEF u, c, k, keys, all
<1>8. /\ Answered(u, k, d) /\ NoCall(u, d) /\ done = ActsOf(c, k)
      /\ d.km = KmOf(c, k)
      /\ \/ d.mode = ModeOf(c, k)
         \/ d.mode = "Normal" /\ \E a \in ActsOf(c, k) : a.op = "Change"
  BY <1>5, <1>6, <1>7, Follows
<1>9. Handled(u, k, d, t)
  <2>1. DOMAIN d = Fields /\ DOMAIN u = Fields
    BY <1>6, <1>8 DEF Answered, Basic, Recorder
  <2> QED
    BY <2>1, HandledIs
<1> HIDE DEF d, t, done
<1>10. /\ t.mode = d.mode /\ t.km = d.km /\ t.stack = u.stack /\ t.dotReplaying
       /\ t.lastChange = all
  <2>1. t.mode = d.mode /\ t.km = d.km /\ t.stack = u.stack /\ t.dotReplaying
        /\ Settles(d, BeforeKey(u), t)
    BY <1>6, <1>8, <1>9 DEF Handled, NoCall
  <2>2. ~BeforeKey(u).track
    BY <1>6 DEF BeforeKey, Tracked
  <2> QED
    BY <1>6, <1>8, <2>1, <2>2 DEF Settles, Answered, Untouched
<1>11. done = {} \/ \E a : done = {a}
  BY <1>5, <1>8, AfterGood
<1>12. more # <<>> /\ Tail(more) = Adds(Tail(acts), done)
  <2>1. CASE done = {}
    BY <1>7, <2>1 DEF Adds
  <2>2. ASSUME NEW a, done = {a}
        PROVE  more # <<>> /\ Tail(more) = Adds(Tail(acts), done)
    <3>1. more = Append(acts, a) /\ Adds(Tail(acts), done) = Append(Tail(acts), a)
      BY <2>2 DEF Adds
    <3>2. Append(acts, a) # <<>> /\ Tail(Append(acts, a)) = Append(Tail(acts), a)
      <4>1. /\ Append(acts, a) # <<>>
            /\ Tail(Append(acts, a)) = IF acts = <<>> THEN <<>> ELSE Append(Tail(acts), a)
        BY AppendIs
      <4> QED
        BY <1>7, <4>1
    <3> QED
      BY <3>1, <3>2
  <2> QED
    BY <1>11, <2>1, <2>2
<1> HIDE DEF more
<1>13. CASE d.mode = ModeOf(c, k)
  <2>1. AtStep(t, more, h[n + 1])
    <3>1. /\ h[n + 1].mode = ModeOf(c, k) /\ h[n + 1].km = KmOf(c, k)
          /\ h[n + 1].script = Adds(c.script, ActsOf(c, k))
      BY <1>5 DEF After
    <3>2. Tail(more) = Adds(c.script, ActsOf(c, k))
      BY <1>7, <1>8, <1>12
    <3> QED
      BY <1>8, <1>10, <1>12, <1>13, <3>1, <3>2 DEF AtStep
  <2>2. Ahead(Tail(keys), all, n + 1)
    <3>1. /\ IsSequence(Tail(keys)) /\ Len(Tail(keys)) = Len(keys) - 1
          /\ \A i \in 1..Len(Tail(keys)) : Tail(keys)[i] = keys[i + 1]
      BY <1>1, <1>2, TailIs DEF Ahead
    <3>2. Len(keys) = Len(all) - n /\ \A i \in 1..Len(keys) : keys[i] = all[n + i]
      BY <1>1 DEF Ahead
    <3>3. Len(Tail(keys)) = Len(all) - (n + 1) /\ n + 1 \in 0..Len(all)
      BY <1>3, <1>4, <3>1, <3>2
    <3>4. \A i \in 1..Len(Tail(keys)) : Tail(keys)[i] = all[(n + 1) + i]
      <4>1. ASSUME NEW i \in 1..Len(Tail(keys))
            PROVE  Tail(keys)[i] = all[(n + 1) + i]
        <5>1. i + 1 \in 1..Len(keys) /\ n + (i + 1) = (n + 1) + i
          BY <1>3, <1>4, <3>1, <4>1
        <5> QED
          BY <3>1, <3>2, <4>1, <5>1
      <4> QED
        BY <4>1
    <3> QED
      BY <3>1, <3>3, <3>4 DEF Ahead
  <2>3. \E g, m : /\ Trace(g, t.lastChange)
                  /\ g[Len(t.lastChange)] = [Start EXCEPT !.script = learnt]
                  /\ Ahead(t.stack[1].keys, t.lastChange, m) /\ AtStep(t, more, g[m])
    BY <1>1, <1>6, <1>10, <2>1, <2>2
  <2>4. Halfway(t, more, learnt)
    BY <1>6, <1>10, <2>3 DEF Halfway
  <2> QED
    BY <1>2, <2>4 DEF t, more, done, u, k, keys
<1>14. CASE d.mode = "Normal" /\ \E a \in done : a.op = "Change"
  <2>1. PICK a \in done : a.op = "Change"
    BY <1>14
  <2>2. more = Append(acts, a)
    BY <1>11, <2>1 DEF more, Adds
  <2>3. Len(more) = Len(acts) + 1 /\ more[Len(acts) + 1] = a /\ Len(acts) \in Nat
    BY <2>2, AppendIs, SequenceIs
  <2>4. Lost(more, t.mode)
    BY <1>10, <1>14, <2>1, <2>3 DEF Lost
  <2> QED
    BY <1>2, <2>4 DEF t, more, done, u, k, keys
<1> QED
  BY <1>8, <1>13, <1>14

\* And when it returns it has done what was done then.
LEMMA DotEnds ==
  ASSUME NEW s, NEW acts, NEW learnt, Basic(s), Replays(s, acts), s.stack # <<>>,
         Halfway(s, acts, learnt), Last(s.stack).keys = <<>>
  PROVE  AtRest(Returned(s)) /\ Tail(acts) = learnt
<1> DEFINE keys == s.stack[1].keys
           all == s.lastChange
           t == Returned(s)
<1>1. PICK h, n : /\ Trace(h, all) /\ h[Len(all)] = [Start EXCEPT !.script = learnt]
                  /\ Ahead(keys, all, n) /\ AtStep(s, acts, h[n])
  BY DEF Halfway
<1>2. Len(s.stack) = 1 /\ keys = <<>>
  BY DEF Halfway, Last
<1>3. n = Len(all)
  <2>1. n \in 0..Len(all) /\ Len(keys) = Len(all) - n /\ Len(all) \in Nat
    BY <1>1, SequenceIs DEF Ahead, Basic
  <2>2. Len(keys) = 0
    BY <1>2
  <2> HIDE DEF all, keys
  <2> QED
    BY <2>1, <2>2
<1>4. s.mode = "Normal" /\ s.km = Fresh /\ Tail(acts) = learnt
  BY <1>1, <1>3 DEF AtStep, Start
<1>5. t.mode = s.mode /\ t.km = s.km /\ t.stack = Front(s.stack)
  BY ReturnKeeps
<1>6. Front(s.stack) = <<>>
  <2>1. IsSequence(Front(s.stack)) /\ Len(Front(s.stack)) = 0
    BY <1>2, FrontIs DEF Basic
  <2> QED
    BY <2>1, SequenceIs
<1> HIDE DEF t
<1>7. AtRest(t)
  BY <1>4, <1>5, <1>6 DEF AtRest, HasPending, Fresh
<1> QED
  BY <1>4, <1>7 DEF t

-----------------------------------------------------------------------------
\* The inductive invariant.  At rest no keys are kept; the keys of a command in progress lead
\* to where the App is, those of the last change from rest to rest; and the dot, when it is
\* what began the script, has repeated the change, is about it or has missed a c.
Redoing ==
  script # <<>> /\ script[1].do = "DotRepeat" /\ last # <<>> =>
    \/ Lost(script, ed.mode)
    \/ AtRest(ed) /\ Tail(script) = last
    \/ Halfway(ed, script, last)
DotInv ==
  /\ Basic(ed) /\ IsSequence(script) /\ Replays(ed, script)
  /\ AtRest(ed) => ed.change = <<>>
  /\ ed.stack = <<>> => AtRest(ed) \/ Composing(ed, script)
  /\ last # <<>> => Taught(ed.lastChange, last)
  /\ Redoing

\* Nothing was typed at first.
LEMMA DotInit == KeysInit => DotInv
<1> SUFFICES ASSUME KeysInit PROVE DotInv
  OBVIOUS
<1>1. /\ ed.mode = "Normal" /\ ed.km = Fresh /\ ed.change = <<>> /\ ed.lastChange = <<>>
      /\ ed.stack = <<>> /\ ed.calls = <<>> /\ ~ed.dotReplaying /\ ~ed.dotJustReplayed
      /\ script = <<>> /\ last = <<>>
  BY DEF KeysInit
<1>2. Recorder(ed)
  BY MacroInit DEF MacroInv
<1>3. Fresh \in Keymaps
  BY FreshIs DEF Calm
<1>4. AtRest(ed)
  BY <1>1 DEF AtRest, HasPending, Fresh
<1>5. Basic(ed) /\ IsSequence(script)
  BY <1>1, <1>2, <1>3, NoKeys DEF Basic, Modes
<1>6. Replays(ed, script)
  <2>1. Len(ed.stack) = 0
    BY <1>1
  <2> QED
    BY <1>1, <2>1 DEF Replays
<1> QED
  BY <1>1, <1>4, <1>5, <1>6 DEF DotInv, Redoing

\* The change . repeats, as history tells it.
LEMMA LearntIs ==
  ASSUME NEW from, NEW now, NEW done, NEW acts
  PROVE  /\ from.dotReplaying \/ ~Changed(from, now, done) => Learnt(from, now, done, acts) = last
         /\ ~(from.dotReplaying \/ ~Changed(from, now, done)) =>
              Learnt(from, now, done, acts) =
                IF AtRest(now) /\ Repeatable(acts) THEN acts ELSE <<>>
BY DEF Learnt, Changed

\* A script that the dot began is not one it repeats.
LEMMA DotBegan ==
  ASSUME NEW acts, IsSequence(acts), acts # <<>>, acts[1].do = "DotRepeat"
  PROVE  ~Repeatable(acts)
<1>1. 1 \in DOMAIN acts
  BY SequenceIs
<1> QED
  BY <1>1 DEF Repeatable

\* A key typed.
LEMMA DotTyped ==
  ASSUME DotInv, NEW k, Type(k)
  PROVE  DotInv'
<1> DEFINE done == ActionOf(ed, k)
           acts == IF AtRest(ed) THEN <<>> ELSE script
<1>1. /\ ed.stack = <<>> /\ ed' = HandleKey(ed, k) /\ script' = acts \o SetToSeq(done)
      /\ last' = Learnt(ed, ed', done, script')
  BY DEF Type, Step
<1>2. Basic(ed) /\ IsSequence(acts) /\ ~ed.dotReplaying /\ ~ed.dotJustReplayed
  BY <1>1, NoKeys DEF DotInv, Replays
<1>3. done = {} \/ \E a : done = {a}
  <2>1. Answered(ed, k, Dispatched(Received(ed, k), k))
    BY <1>2, DispatchedIs
  <2> QED
    BY <2>1 DEF Answered
<1>4. script' = Adds(acts, done)
  BY <1>1, <1>2, <1>3, AddsIs
<1>5. Composing(ed, acts)
  <2>1. CASE AtRest(ed)
    <3>1. ed.km = Fresh
      BY <1>2, <2>1, FreshIs DEF Basic, AtRest, HasPending
    <3>2. Controls(ed, acts) = Start /\ ed.change = <<>>
      BY <2>1, <3>1 DEF Controls, Start, AtRest, DotInv
    <3> QED
      BY <3>2, TracedAtFirst DEF Composing
  <2>2. CASE ~AtRest(ed)
    BY <1>1, <2>2 DEF DotInv
  <2> QED
    BY <2>1, <2>2
<1>6. Replays(ed, acts)
  BY <1>1 DEF DotInv, Replays
<1>7. acts = <<>> \/ (acts = script /\ ~AtRest(ed))
  OBVIOUS
<1> HIDE DEF done, acts
<1>8. /\ Basic(ed') /\ Replays(ed', script') /\ IsSequence(script')
      /\ ~Changed(ed, ed', done) => ed'.lastChange = ed.lastChange
      /\ AtRest(ed') => ed'.change = <<>>
  BY <1>1, <1>2, <1>4, <1>6, KeyKeeps DEF done
<1>9. /\ ed'.stack = <<>> => AtRest(ed') \/ Composing(ed', script')
      /\ Changed(ed, ed', done) /\ AtRest(ed') /\ Repeatable(script') =>
           Taught(ed'.lastChange, script')
  BY <1>1, <1>2, <1>4, <1>5, TypeComposes DEF done
<1>10. /\ ~Changed(ed, ed', done) => last' = last
       /\ Changed(ed, ed', done) =>
            last' = IF AtRest(ed') /\ Repeatable(script') THEN script' ELSE <<>>
  BY <1>1, <1>2, LearntIs
<1>11. last' # <<>> => Taught(ed'.lastChange, last')
  BY <1>8, <1>9, <1>10 DEF DotInv
<1>12. ASSUME script' # <<>>, script'[1].do = "DotRepeat", last' # <<>>
       PROVE  \/ Lost(script', ed'.mode)
              \/ AtRest(ed') /\ Tail(script') = last'
              \/ Halfway(ed', script', last')
  <2>1. last' = last
    BY <1>8, <1>10, <1>12, DotBegan
  <2>2. CASE acts = <<>>
    <3>1. PICK a : done = {a} /\ script' = Append(<<>>, a)
      BY <1>3, <1>4, <1>12, <2>2 DEF Adds
    <3>2. a.do = "DotRepeat"
      <4>1. Len(<<>>) = 0
        OBVIOUS
      <4>2. Append(<<>>, a)[Len(<<>>) + 1] = a
        BY NoKeys, AppendIs
      <4> QED
        BY <1>12, <3>1, <4>1, <4>2
    <3>3. ~Naming(ed)
      <4>1. ASSUME Naming(ed)
            PROVE  \E b \in done : b.do = "StartRecordMacro" \/ b.do = "EnterNormal"
        <5>1. \/ \E b \in done : b.do = "StartRecordMacro"
              \/ \A b \in done : b.do = "EnterNormal"
          BY <1>2, <4>1, NamingIs DEF done
        <5> QED
          BY <3>1, <5>1
      <4> QED
        BY <3>1, <3>2, <4>1
    <3>4. Traced(ed.change, Controls(ed, acts))
      <4>1. Repeatable(acts)
        BY <2>2 DEF Repeatable
      <4> QED
        BY <1>5, <3>3, <4>1 DEF Composing
    <3>5. Good(Controls(ed, acts))
      <4>1. Len(ed.change) \in Nat
        BY <1>2, SequenceIs DEF Basic
      <4> QED
        BY <3>4, <4>1 DEF Traced, Trace
    <3>6. Calm(ed.km) /\ ed.mode = "Normal"
      <4>1. Calm(ed.km) /\ ed.mode \in {"Normal", "Insert"}
        BY <3>5 DEF Good, Controls
      <4>2. CASE ed.mode = "Insert"
        <5>1. done = IF IsChar(k) \/ k = "Esc" THEN {Act("Insert", None, k, 1)} ELSE {}
          BY <1>2, <4>2, TypedIs DEF done
        <5>2. a = Act("Insert", None, k, 1)
          BY <3>1, <5>1
        <5> QED
          BY <3>2, <5>2 DEF Act
      <4> QED
        BY <4>1, <4>2
    <3>7. Taught(ed.lastChange, last)
      BY <1>12, <2>1 DEF DotInv
    <3>8. Halfway(ed', script', last)
      BY <1>1, <1>2, <1>4, <1>12, <2>1, <2>2, <3>1, <3>2, <3>6, <3>7, DotStarts DEF done
    <3> QED
      BY <2>1, <3>8
  <2>3. CASE acts # <<>>
    <3>1. acts = script /\ ~AtRest(ed) /\ script # <<>>
      BY <1>7, <2>3
    <3>2. script'[1] = script[1]
      <4>1. CASE done = {}
        BY <1>4, <3>1, <4>1 DEF Adds
      <4>2. ASSUME NEW a, done = {a}
            PROVE  script'[1] = script[1]
        <5>1. script' = Append(script, a)
          BY <1>4, <3>1, <4>2 DEF Adds
        <5>2. 1 \in 1..Len(script)
          BY <1>2, <3>1, SequenceIs
        <5>3. \A i \in 1..Len(script) : Append(script, a)[i] = script[i]
          BY <1>2, <3>1, AppendIs
        <5> QED
          BY <5>1, <5>2, <5>3
      <4> QED
        BY <1>3, <4>1, <4>2
    <3>3. Lost(script, ed.mode) \/ Halfway(ed, script, last)
      BY <1>12, <2>1, <3>1, <3>2 DEF DotInv, Redoing
    <3>4. ~Halfway(ed, script, last)
      <4>1. Len(ed.stack) = 0
        BY <1>1
      <4> QED
        BY <4>1 DEF Halfway
    <3>5. Lost(script', ed'.mode)
      BY <1>1, <1>2, <1>4, <3>1, <3>3, <3>4, LostStays DEF done
    <3> QED
      BY <3>5
  <2> QED
    BY <2>2, <2>3
<1> QED
  BY <1>8, <1>9, <1>11, <1>12 DEF DotInv, Redoing

\* A key replayed.
LEMMA DotReplayed ==
  ASSUME DotInv, ReplayKeys
  PROVE  DotInv'
<1> DEFINE u == Popped(ed)
           k == Head(ed.stack[Len(ed.stack)].keys)
           done == ActionOf(u, k)
<1>1. /\ ed.stack # <<>> /\ Last(ed.stack).keys # <<>> /\ ed' = HandleKey(u, k)
      /\ script' = script \o SetToSeq(done) /\ last' = Learnt(u, ed', done, script')
  BY DEF ReplayKeys, Step, Popped
<1>2. Basic(ed) /\ IsSequence(script) /\ Replays(ed, script) /\ ~Repeatable(script)
  BY <1>1 DEF DotInv, Replays
<1>3. /\ Basic(u) /\ Replays(u, script) /\ u.stack # <<>> /\ u.mode = ed.mode
      /\ u.lastChange = ed.lastChange
  BY <1>1, <1>2, PoppedIs
<1>4. done = {} \/ \E a : done = {a}
  <2>1. Answered(u, k, Dispatched(Received(u, k), k))
    BY <1>3, DispatchedIs
  <2> QED
    BY <2>1 DEF Answered
<1>5. script' = Adds(script, done)
  BY <1>1, <1>2, <1>4, AddsIs
<1> HIDE DEF done, u, k
<1>6. /\ Basic(ed') /\ Replays(ed', script') /\ IsSequence(script')
      /\ u.dotReplaying \/ ~Changed(u, ed', done) => ed'.lastChange = ed.lastChange
  BY <1>1, <1>2, <1>3, <1>5, KeyKeeps DEF done
<1>7. ~Repeatable(script')
  BY <1>2, <1>4, <1>5, RepeatableIs
<1>8. ed'.stack # <<>>
  <2> DEFINE d == Dispatched(Received(u, k), k)
  <2>1. Answered(u, k, d)
    BY <1>3, DispatchedIs
  <2>2. Handled(u, k, d, ed')
    <3>1. DOMAIN d = Fields /\ DOMAIN u = Fields
      BY <1>3, <2>1 DEF Answered, Basic, Recorder
    <3> QED
      BY <1>1, <3>1, HandledIs
  <2> HIDE DEF d
  <2>3. CASE d.calls = <<>>
    BY <1>3, <2>2, <2>3 DEF Handled
  <2>4. CASE d.calls # <<>>
    <3> DEFINE f == [kind |-> Head(d.calls).kind, keys |-> Head(d.calls).keys,
                     before |-> BeforeKey(u)]
    <3>1. ed'.stack = Append(u.stack, f)
      BY <2>2, <2>4 DEF Handled
    <3> HIDE DEF f
    <3>2. Append(u.stack, f) # <<>>
      BY <1>3, AppendIs DEF Basic
    <3> QED
      BY <3>1, <3>2
  <2> QED
    BY <2>3, <2>4
<1>9. ~AtRest(ed')
  BY <1>8 DEF AtRest
<1>10. /\ u.dotReplaying \/ ~Changed(u, ed', done) => last' = last
       /\ ~(u.dotReplaying \/ ~Changed(u, ed', done)) => last' = <<>>
  BY <1>1, <1>9, LearntIs
<1>11. last' # <<>> => last' = last /\ Taught(ed'.lastChange, last')
  BY <1>6, <1>10 DEF DotInv
<1>12. ASSUME script' # <<>>, script'[1].do = "DotRepeat", last' # <<>>
       PROVE  Lost(script', ed'.mode) \/ Halfway(ed', script', last')
  <2>1. last' = last
    BY <1>11, <1>12
  <2>2. script # <<>> /\ 1 \in 1..Len(script)
    <3>1. script # <<>>
      BY <1>2 DEF Repeatable
    <3> QED
      BY <1>2, <3>1, SequenceIs
  <2>3. script'[1] = script[1]
    <3>1. CASE done = {}
      BY <1>5, <3>1 DEF Adds
    <3>2. ASSUME NEW a, done = {a}
          PROVE  script'[1] = script[1]
      <4>1. script' = Append(script, a)
        BY <1>5, <3>2 DEF Adds
      <4>2. \A i \in 1..Len(script) : Append(script, a)[i] = script[i]
        BY <1>2, AppendIs
      <4> QED
        BY <2>2, <4>1, <4>2
    <3> QED
      BY <1>4, <3>1, <3>2
  <2>4. Lost(script, ed.mode) \/ Halfway(ed, script, last)
    BY <1>1, <1>12, <2>1, <2>2, <2>3 DEF DotInv, Redoing, AtRest
  <2>5. CASE Lost(script, ed.mode)
    <3>1. Lost(script', ed'.mode)
      BY <1>1, <1>2, <1>3, <1>5, <2>5, LostStays DEF done
    <3> QED
      BY <3>1
  <2>6. CASE Halfway(ed, script, last)
    <3>1. Halfway(ed', script', last) \/ Lost(script', ed'.mode)
      BY <1>1, <1>2, <1>5, <2>6, DotGoesOn DEF done, u, k
    <3> QED
      BY <2>1, <3>1
  <2> QED
    BY <2>4, <2>5, <2>6
<1> QED
  BY <1>6, <1>8, <1>9, <1>11, <1>12 DEF DotInv, Redoing

\* A replay that returns.
LEMMA DotReturned ==
  ASSUME DotInv, Return
  PROVE  DotInv'
<1> DEFINE call == Last(ed.stack)
<1>1. /\ ed.stack # <<>> /\ call.keys = <<>> /\ ed' = Returned(ed) /\ script' = script
      /\ last' = IF call.kind = "macro" /\ ed.rev # call.before.rev THEN <<>> ELSE last
  BY DEF Return
<1>2. Basic(ed) /\ IsSequence(script) /\ Replays(ed, script) /\ ~Repeatable(script)
  BY <1>1 DEF DotInv, Replays
<1>3. /\ Basic(ed') /\ Replays(ed', script) /\ ed'.mode = ed.mode
      /\ ~(call.kind = "macro" /\ ed.rev # call.before.rev) => ed'.lastChange = ed.lastChange
      /\ AtRest(ed') => ed'.change = <<>>
  BY <1>1, <1>2, ReturnKeeps
<1> HIDE DEF call
<1>4. last' # <<>> => last' = last /\ Taught(ed'.lastChange, last')
  BY <1>1, <1>3 DEF DotInv
<1>5. ASSUME script # <<>>, script[1].do = "DotRepeat", last' # <<>>
      PROVE  Lost(script, ed'.mode) \/ (AtRest(ed') /\ Tail(script) = last')
  <2>1. last' = last
    BY <1>4, <1>5
  <2>2. Lost(script, ed.mode) \/ Halfway(ed, script, last)
    BY <1>1, <1>5, <2>1 DEF DotInv, Redoing, AtRest
  <2>3. CASE Lost(script, ed.mode)
    BY <1>3, <2>3
  <2>4. CASE Halfway(ed, script, last)
    <3>1. AtRest(ed') /\ Tail(script) = last
      BY <1>1, <1>2, <2>4, DotEnds DEF call
    <3> QED
      BY <2>1, <3>1
  <2> QED
    BY <2>2, <2>3, <2>4
<1>6. Composing(ed', script')
  BY <1>1, <1>2 DEF Composing
<1> QED
  BY <1>1, <1>2, <1>3, <1>4, <1>5, <1>6 DEF DotInv, Redoing

\* A step keeps the invariant.
LEMMA DotStep == DotInv /\ [KeysNext]_keysVars => DotInv'
<1> SUFFICES ASSUME DotInv, [KeysNext]_keysVars PROVE DotInv'
  OBVIOUS
<1>1. CASE UNCHANGED keysVars
  <2>1. ed' = ed /\ script' = script /\ last' = last
    BY <1>1 DEF keysVars
  <2> QED
    BY <2>1 DEF DotInv, Redoing
<1> QED
  BY <1>1, DotTyped, DotReplayed, DotReturned DEF KeysNext

\* A c that was missed leaves its mark in the script.
LEMMA DotOrMissed == DotInv => DotRepeatsTheChange
<1> SUFFICES ASSUME DotInv, AtRest(ed), script # <<>>, last # <<>>, script[1].do = "DotRepeat",
                    ~Missed(script)
             PROVE  Tail(script) = last
  BY DEF DotRepeatsTheChange
<1>1. DOMAIN script = 1..Len(script)
  BY SequenceIs DEF DotInv
<1>2. ~Lost(script, ed.mode)
  BY <1>1 DEF Lost, Missed
<1>3. ~Halfway(ed, script, last)
  <2>1. Len(ed.stack) = 0
    BY DEF AtRest
  <2> QED
    BY <2>1 DEF Halfway
<1> QED
  BY <1>2, <1>3 DEF DotInv, Redoing

\* For any keyboards, texts of any length, any number of keys and replays within replays of
\* any depth: . executes the actions of the last change again, unless a c of them now finds
\* nothing to change.
THEOREM DotRepeats == KeysSpec => []DotRepeatsTheChange
<1>1. KeysSpec => []DotInv
  BY DotInit, DotStep, PTL DEF KeysSpec
<1> QED
  BY <1>1, DotOrMissed, PTL
=============================================================================
