-------------------------------- MODULE Keys --------------------------------
(***************************************************************************)
(* From keys to commands: KeymapState::process of                          *)
(* crates/onda-modal/src/keymap.rs, the macro recorder, the dot repeat,    *)
(* marks and the jump list, as App::handle_key of crates/onda/src/main.rs  *)
(* drives them.                                                            *)
(*                                                                         *)
(* The text is one word on one line, of which only the length counts.      *)
(* What a macro or the dot replays goes through handle_key again, one key  *)
(* at a time: the calls that wait for their replay are a stack.  Command   *)
(* mode, searches, undo and the overlays that take keys before handle_key  *)
(* reads the mode are not here (see Editor, TextCommands and Shell).       *)
(***************************************************************************)
EXTENDS Integers, Sequences, SequencesExt, FiniteSets

CONSTANTS Keyboards,   \* the keys of a behaviour are one of these sets
          MaxStrokes,  \* bound on the keys typed
          MaxDepth,    \* bound on replays within replays
          MaxChars     \* bound on the length of the text

VARIABLES ed,          \* the App: its mode, keymap state, recorder, text and cursor
          keyboard,
          strokes,     \* keys typed so far
          heard,       \* keys typed since q{c}, and if they are all that was handled
          script,      \* actions executed since the editor was last at rest
          last         \* the script of the last change, <<>> when . is not bound to repeat it

keysVars == <<ed, keyboard, strokes, heard, script, last>>

None == "none"
NoCount == -1
SatMinus(a, b) == IF a > b THEN a - b ELSE 0
Least(a, b) == IF a < b THEN a ELSE b
Hi(a, b) == IF a < b THEN b ELSE a

\* A table given by its rows, and a function with one more or one other value.
Table(rows) == [x \in {r[1] : r \in rows} |-> (CHOOSE r \in rows : r[1] = x)[2]]
With(f, x, v) == [y \in DOMAIN f \cup {x} |-> IF y = x THEN v ELSE f[y]]

-----------------------------------------------------------------------------
\* Keys: characters, which Ctrl may modify, and others.  Most of the keymap looks at the
\* character alone.  tick, quote and dquote are `, ' and ".
Ctrl == Table({<<"^o", "o">>, <<"^i", "i">>, <<"^r", "r">>, <<"^a", "a">>})
Char(k) == IF k \in DOMAIN Ctrl THEN Ctrl[k] ELSE k
IsChar(k) == k \notin {"Esc", "Enter", "Tab", "Left", "Right"}
Digit == Table({<<"0", 0>>, <<"1", 1>>, <<"2", 2>>})

\* The trie: leaves of one key, and those behind g.
Leaves == Table(
  {<<"i", "EnterInsert">>, <<"a", "EnterInsertAfter">>, <<"v", "EnterVisual">>,
   <<"V", "EnterVisual">>, <<"x", "DeleteChar">>, <<"p", "Paste">>, <<".", "DotRepeat">>,
   <<"^o", "JumpOlder">>, <<"^i", "JumpNewer">>, <<"w", "WordForward">>, <<"h", "Left">>,
   <<"Left", "Left">>, <<"0", "LineStart">>, <<"G", "DocumentEnd">>, <<"d", "Delete">>,
   <<"c", "Change">>, <<"y", "Yank">>, <<">", "Indent">>})
LeavesOfG == Table({<<"g", "DocumentStart">>, <<"u", "Lowercase">>})
OperatorNames == {"Delete", "Change", "Yank", "Indent", "Lowercase"}
MotionNames == {"WordForward", "Left", "LineStart", "DocumentEnd", "DocumentStart"}

\* key_to_motion, and the doubled operators
OperatorMotions == Table(
  {<<"w", "WordForward">>, <<"h", "Left">>, <<"Left", "Left">>, <<"0", "LineStart">>,
   <<"G", "DocumentEnd">>})
Doubles == Table(
  {<<"Delete", "d">>, <<"Change", "c">>, <<"Yank", "y">>, <<"Indent", ">">>,
   <<"Lowercase", "u">>})
ObjectKeys == {"w", "p", "(", "a", "c", "dquote"}

\* Keys that wait for one more, and what they wait for
Awaiting == Table(
  {<<"f", "find">>, <<"r", "replace">>, <<"q", "macro">>, <<"@", "play">>,
   <<"dquote", "register">>, <<"m", "mark">>, <<"tick", "jump">>, <<"quote", "jumpLine">>})
Named == Table(
  {<<"macro", "StartRecordMacro">>, <<"play", "PlayMacro">>, <<"register", "SetRegister">>,
   <<"mark", "SetMark">>, <<"jump", "JumpToMark">>, <<"jumpLine", "JumpToMarkLine">>})

\* KeymapState, its flags as the set of what is awaited
Fresh == [prefix |-> <<>>, count |-> NoCount, op |-> None, awaits |-> {}]
HasPending(km) == km.op # None \/ km.prefix # <<>> \/ km.awaits # {}

-----------------------------------------------------------------------------
\* KeymapState::process: the state after a key, and the action it completes, if any
Act(do, op, arg, n) == [do |-> do, op |-> op, arg |-> arg, n |-> n]
NeedMore(km) == [km |-> km, act |-> {}]
NoMatch == [km |-> Fresh, act |-> {}]
Done(km, act) == [km |-> km, act |-> {act}]
CountOf(km) == IF km.count = NoCount THEN 1 ELSE km.count
Await(km, a) == NeedMore([km EXCEPT !.awaits = @ \cup {a}])
Visual == {"Visual"}

\* The answer to the key that was awaited.  A count is kept by q, the register, mark and jump keys.
NamedBy(km, a, k) ==
  LET rest == [km EXCEPT !.awaits = @ \ {a}]
  IN  IF ~IsChar(k) THEN NoMatch
      ELSE IF a = "play" /\ Char(k) = "@" THEN Done(rest, Act("PlayLastMacro", None, None, 1))
      ELSE Done(rest, Act(Named[a], None, Char(k), 1))
ObjectBy(km, as, k) ==
  LET rest == [km EXCEPT !.awaits = @ \ as, !.op = None, !.count = NoCount]
  IN  IF ~IsChar(k) \/ Char(k) \notin ObjectKeys THEN NoMatch
      ELSE IF km.op = None THEN Done(rest, Act("SelectTextObj", None, Char(k), 1))
      ELSE Done(rest, Act("OperatorTextObj", km.op, Char(k), CountOf(km)))
ReplacedBy(km, k) ==
  LET rest == [km EXCEPT !.awaits = @ \ {"replace"}, !.count = NoCount]
  IN  IF IsChar(k) THEN Done(rest, Act("ReplaceChar", None, Char(k), CountOf(km)))
      ELSE NeedMore(rest)
FoundBy(km, k) ==
  LET rest == [km EXCEPT !.awaits = @ \ {"find"}, !.op = None, !.count = NoCount]
  IN  CASE ~IsChar(k) -> NoMatch
        [] IsChar(k) /\ km.op = None -> Done(rest, Act("Move", None, "FindChar", CountOf(km)))
        [] OTHER -> Done(rest, Act("OperatorMotion", km.op, "FindChar", CountOf(km)))
SecondG(km, k) ==
  IF km.op # None /\ Char(k) = "g"
  THEN Done([km EXCEPT !.awaits = @ \ {"opg"}, !.op = None, !.count = NoCount],
            Act("OperatorMotion", km.op, "DocumentStart", CountOf(km)))
  ELSE NoMatch

\* A key under an operator
UnderOperator(km, k) ==
  LET rest == [km EXCEPT !.op = None, !.count = NoCount]
  IN  IF Char(k) = "i" THEN Await(km, "inner")
      ELSE IF Char(k) = "a" THEN Await(km, "outer")
      ELSE IF Char(k) = "f" THEN Await(km, "find")
      ELSE IF Char(k) = Doubles[km.op] THEN Done(rest, Act("OperatorLine", km.op, None, CountOf(km)))
      ELSE IF Char(k) = "g" THEN Await(km, "opg")
      ELSE IF Char(k) \in DOMAIN OperatorMotions
        THEN Done(rest, Act("OperatorMotion", km.op, OperatorMotions[Char(k)], CountOf(km)))
      ELSE NoMatch

\* The trie, from the keys that lead to k
Leaf(km, name, mode) ==
  LET rest == [km EXCEPT !.prefix = <<>>, !.count = NoCount]
  IN  CASE name \in OperatorNames /\ mode \in Visual /\ km.prefix = <<>> ->
             Done(rest, Act("OperatorSelection", name, None, CountOf(km)))
        [] name \in OperatorNames /\ ~(mode \in Visual /\ km.prefix = <<>>) ->
             NeedMore([km EXCEPT !.prefix = <<>>, !.op = name])
        [] name \in MotionNames -> Done(rest, Act("Move", None, name, CountOf(km)))
        [] OTHER -> Done(rest, Act(name, None, None, CountOf(km)))
InTrie(km, k, mode) ==
  IF km.prefix = <<>>
  THEN IF k = "g" THEN NeedMore([km EXCEPT !.prefix = <<k>>])
       ELSE IF mode \in Visual /\ k = "o"
         THEN Done([km EXCEPT !.count = NoCount], Act("SwapAnchorHead", None, None, CountOf(km)))
       ELSE IF k \in DOMAIN Leaves THEN Leaf(km, Leaves[k], mode)
       ELSE NoMatch
  ELSE IF k \in DOMAIN LeavesOfG THEN Leaf(km, LeavesOfG[k], mode) ELSE NoMatch

StartsAwaiting(km, k) == km.prefix = <<>> /\ Char(k) \in DOMAIN Awaiting /\ k # "^r"

Process(km, k, mode) ==
  LET named == km.awaits \cap DOMAIN Named
      objects == {"inner", "outer"} \cap km.awaits
      selects == {"selectInner", "selectOuter"} \cap km.awaits
      digit == IsChar(k) /\ Char(k) \in DOMAIN Digit /\ (Char(k) # "0" \/ km.count # NoCount)
  IN  IF k = "Esc"
        THEN IF km.op # None \/ km.prefix # <<>> THEN NeedMore(Fresh)
             ELSE Done(Fresh, Act("EnterNormal", None, None, 1))
      ELSE IF named # {} THEN NamedBy(km, CHOOSE a \in named : TRUE, k)
      ELSE IF objects # {} THEN ObjectBy(km, objects, k)
      ELSE IF selects # {} THEN ObjectBy([km EXCEPT !.op = None], selects, k)
      ELSE IF mode \in Visual /\ km.op = None /\ Char(k) = "i" THEN Await(km, "selectInner")
      ELSE IF mode \in Visual /\ km.op = None /\ Char(k) = "a" THEN Await(km, "selectOuter")
      ELSE IF "replace" \in km.awaits THEN ReplacedBy(km, k)
      ELSE IF "find" \in km.awaits THEN FoundBy(km, k)
      ELSE IF digit
        THEN NeedMore([km EXCEPT !.count = (IF @ = NoCount THEN 0 ELSE @ * 10) + Digit[Char(k)]])
      ELSE IF "opg" \in km.awaits THEN SecondG(km, k)
      ELSE IF km.op # None THEN UnderOperator(km, k)
      ELSE IF StartsAwaiting(km, k) THEN Await(km, Awaiting[Char(k)])
      ELSE InTrie(km, k, mode)

-----------------------------------------------------------------------------
\* JumpList
PushJump(j, p) ==
  LET kept == SubSeq(j.entries, 1, Least(j.current + 1, Len(j.entries)))
  IN  IF kept # <<>> /\ Last(kept) = p THEN [j EXCEPT !.entries = kept]
      ELSE [entries |-> Append(kept, p), current |-> Len(kept)]

Older(j, here) ==
  LET saved == IF j.current + 1 = Len(j.entries) /\ Last(j.entries) # here
               THEN [entries |-> Append(j.entries, here), current |-> Len(j.entries)] ELSE j
  IN  IF j.entries = <<>> \/ saved.current = 0 THEN [list |-> saved, to |-> NoCount]
      ELSE [list |-> [saved EXCEPT !.current = @ - 1], to |-> saved.entries[saved.current]]
Newer(j) ==
  IF j.current + 1 >= Len(j.entries) THEN [list |-> j, to |-> NoCount]
  ELSE [list |-> [j EXCEPT !.current = @ + 1], to |-> j.entries[j.current + 2]]

-----------------------------------------------------------------------------
\* Actions on the text.  An editor whose text would pass MaxChars is not followed.
At(s, p) == [s EXCEPT !.pos = p, !.anchor = p]
Cut(s, from, to) ==
  IF from >= to THEN s
  ELSE [At(s, Least(from, SatMinus(s.len - (to - from), 1)))
          EXCEPT !.len = @ - (to - from), !.rev = @ + 1]
Grown(s, n) == [s EXCEPT !.len = @ + n, !.rev = @ + 1]

\* apply_operator, on characters lo to hi or on the line
Operate(s, op, lo, hi, linewise) ==
  LET from == IF linewise THEN 0 ELSE Least(lo, s.len)
      to == IF linewise THEN s.len ELSE Least(hi + 1, s.len)
      cut == [Cut(s, from, to) EXCEPT !.register = None]
  IN  CASE op = "Yank" -> [s EXCEPT !.register = None]
        [] op = "Delete" -> cut
        [] op = "Change" -> [cut EXCEPT !.mode = "Insert"]
        [] op = "Indent" -> At(Grown(s, 1), Least(s.pos + 1, s.len))
        [] op = "Lowercase" -> IF from = to THEN s ELSE [At(s, from) EXCEPT !.rev = @ + 1]

Target(s, motion, n) ==
  CASE motion \in {"WordForward", "DocumentEnd"} -> SatMinus(s.len, 1)
    [] motion \in {"LineStart", "DocumentStart"} -> 0
    [] motion = "Left" -> SatMinus(s.pos, n)
    [] motion = "FindChar" -> IF s.pos + n < s.len THEN s.pos + n ELSE s.pos
Far == {"DocumentStart", "DocumentEnd"}

MoveCursor(s, motion, n) ==
  LET jumped == IF motion \in Far THEN [s EXCEPT !.jumps = PushJump(@, s.pos)] ELSE s
  IN  [jumped EXCEPT !.pos = Target(s, motion, n),
                     !.anchor = IF s.mode \in Visual THEN @ ELSE Target(s, motion, n)]

\* cw is ce: up to the end of the word, which it takes.
OperatorMotion(s, op, motion, n) ==
  LET to == Target(s, motion, n)
      lo == Least(s.pos, to)
      hi == Hi(s.pos, to)
      inclusive == motion = "FindChar" \/ (op = "Change" /\ motion = "WordForward" /\ s.pos < s.len)
  IN  IF motion \in Far \/ op = "Indent" THEN Operate(s, op, lo, hi, TRUE)
      ELSE IF inclusive THEN Operate(s, op, lo, hi, FALSE)
      ELSE IF lo = hi THEN s ELSE Operate(s, op, lo, hi - 1, FALSE)

\* Of the objects, words and paragraphs are there: the text.
OperatorTextObj(s, op, o) ==
  IF o \in {"w", "p"} /\ s.pos < s.len THEN Operate(s, op, 0, s.len, op = "Indent") ELSE s

DeleteChar(s, n) ==
  IF s.pos >= s.len \/ n = 0 THEN s
  ELSE [At(s, Least(s.pos, SatMinus(SatMinus(s.len, n), 1)))
          EXCEPT !.len = SatMinus(@, n), !.rev = @ + Least(n, s.len)]

\* Jumps and marks, kept inside the text
JumpTo(s, p) == IF p = NoCount THEN s ELSE At(s, Least(p, SatMinus(s.len, 1)))
JumpToMark(s, m, line) ==
  IF m \notin DOMAIN s.marks THEN s
  ELSE At([s EXCEPT !.jumps = PushJump(@, s.pos)],
          IF line THEN 0 ELSE Least(s.marks[m], SatMinus(s.len, 1)))

-----------------------------------------------------------------------------
\* MacroRecorder
StartRecording(s, c) ==
  IF s.recording # None
  THEN [s EXCEPT !.recording = None, !.current = <<>>, !.macros = With(@, s.recording, s.current)]
  ELSE [s EXCEPT !.recording = c, !.current = <<>>]
StopWithQ(s) ==
  [s EXCEPT !.recording = None, !.current = <<>>, !.macros = With(@, s.recording, s.current)]
Commit(s) == [s EXCEPT !.change = <<>>, !.lastChange = IF s.change = <<>> THEN @ ELSE s.change]

\* A replay is called; the key that called it is settled when the replay has returned.
Call(s, kind, keys) == [s EXCEPT !.calls = <<[kind |-> kind, keys |-> keys]>>]
PlayMacro(s, c) ==
  IF c \notin DOMAIN s.macros THEN s
  ELSE Call([s EXCEPT !.lastMacro = c], "macro", s.macros[c])
PlayLast(s) == IF s.lastMacro = None THEN s ELSE Call(s, "macro", s.macros[s.lastMacro])
DotRepeat(s) ==
  IF s.lastChange = <<>> THEN s
  ELSE Call([s EXCEPT !.dotReplaying = TRUE], "dot", s.lastChange)

Execute(s, a) ==
  CASE a.do = "EnterInsert" -> [At(s, s.pos) EXCEPT !.mode = "Insert"]
    [] a.do = "EnterInsertAfter" -> [At(s, Least(s.pos + 1, s.len)) EXCEPT !.mode = "Insert"]
    [] a.do = "EnterVisual" -> [s EXCEPT !.mode = "Visual"]
    [] a.do = "EnterNormal" -> [At(s, s.pos) EXCEPT !.mode = "Normal"]
    [] a.do = "Move" -> MoveCursor(s, a.arg, a.n)
    [] a.do = "OperatorMotion" -> OperatorMotion(s, a.op, a.arg, a.n)
    [] a.do = "OperatorTextObj" -> OperatorTextObj(s, a.op, a.arg)
    [] a.do = "SelectTextObj" ->
         IF a.arg \in {"w", "p"} /\ s.pos < s.len THEN [s EXCEPT !.anchor = 0, !.pos = s.len] ELSE s
    [] a.do = "OperatorLine" -> Operate(s, a.op, s.pos, s.pos, TRUE)
    [] a.do = "OperatorSelection" ->
         LET done == Operate(s, a.op, Least(s.anchor, s.pos), Hi(s.anchor, s.pos), a.op = "Indent")
         IN  [done EXCEPT !.mode = "Normal"]
    [] a.do = "DeleteChar" -> DeleteChar(s, a.n)
    [] a.do = "ReplaceChar" -> IF s.pos < s.len THEN [s EXCEPT !.rev = @ + 1] ELSE s
    [] a.do = "Paste" ->
         LET taken == [s EXCEPT !.register = None]
         IN  IF s.register = "_" THEN taken ELSE [Grown(taken, 1) EXCEPT !.anchor = s.pos]
    [] a.do = "SwapAnchorHead" -> [s EXCEPT !.pos = s.anchor, !.anchor = s.pos]
    [] a.do = "SetRegister" -> [s EXCEPT !.register = a.arg]
    [] a.do = "SetMark" -> [s EXCEPT !.marks = With(@, a.arg, s.pos)]
    [] a.do = "JumpToMark" -> JumpToMark(s, a.arg, FALSE)
    [] a.do = "JumpToMarkLine" -> JumpToMark(s, a.arg, TRUE)
    [] a.do = "JumpOlder" ->
         LET o == Older(s.jumps, s.pos) IN JumpTo([s EXCEPT !.jumps = o.list], o.to)
    [] a.do = "JumpNewer" ->
         LET o == Newer(s.jumps) IN JumpTo([s EXCEPT !.jumps = o.list], o.to)
    [] a.do = "StartRecordMacro" -> StartRecording(s, a.arg)
    [] a.do = "PlayMacro" -> PlayMacro(s, a.arg)
    [] a.do = "PlayLastMacro" -> PlayLast(s)
    [] a.do = "DotRepeat" -> DotRepeat(s)

\* handle_insert_key
InsertKey(s, k) ==
  CASE k = "Esc" -> [At(s, SatMinus(s.pos, 1)) EXCEPT !.mode = "Normal", !.km = Fresh]
    [] IsChar(k) -> At(Grown(s, 1), s.pos + 1)
    [] OTHER -> s

-----------------------------------------------------------------------------
\* handle_key.  Bare q ends a recording, unless a key is awaited.
\* A mutant: the q that stops the recording stays in it.
WithoutTheQKept(s) == s

WithoutTheQ(s) == [s EXCEPT !.current = Front(@)]

StopsRecording(s, k) == k = "q" /\ s.recording # None /\ ~HasPending(s.km)
Tracked(s) == ~s.dotReplaying /\ s.mode \in {"Insert", "Normal", "Visual"}
Received(s, k) ==
  [s EXCEPT !.current = IF s.recording = None THEN @ ELSE Append(@, k),
            !.change = IF Tracked(s) THEN Append(@, k) ELSE @]

ActionOf(s, k) ==
  IF s.mode = "Insert" THEN IF IsChar(k) \/ k = "Esc" THEN {Act("Insert", None, k, 1)} ELSE {}
  ELSE IF StopsRecording(s, k) THEN {Act("StopRecordMacro", None, None, 1)}
  ELSE Process(s.km, k, s.mode).act
Dispatched(s, k) ==
  IF s.mode = "Insert" THEN InsertKey(s, k)
  ELSE IF StopsRecording(s, k) THEN StopWithQ(WithoutTheQ(s))
  ELSE LET r == Process(s.km, k, s.mode)
           next == [s EXCEPT !.km = r.km]
       IN  IF r.act = {} THEN next ELSE Execute(next, CHOOSE a \in r.act : TRUE)

\* finalize_dot: what becomes of the keys of the command in progress
\* A mutant: digits typed before a command are not part of it.
SettledWithoutCount(s, before) ==
  IF ~before.track THEN s
  ELSE IF s.dotJustReplayed THEN [s EXCEPT !.dotJustReplayed = FALSE, !.change = <<>>]
  ELSE IF s.mode = "Insert" THEN s
  ELSE IF before.mode = "Insert" THEN Commit(s)
  ELSE IF HasPending(s.km) THEN s
  ELSE IF s.rev # before.rev THEN Commit(s)
  ELSE [s EXCEPT !.change = <<>>]

Settled(s, before) ==
  IF ~before.track THEN s
  ELSE IF s.dotJustReplayed THEN [s EXCEPT !.dotJustReplayed = FALSE, !.change = <<>>]
  ELSE IF s.mode = "Insert" THEN s
  ELSE IF before.mode = "Insert" THEN Commit(s)
  ELSE IF HasPending(s.km) \/ s.km.count # NoCount THEN s
  ELSE IF s.rev # before.rev THEN Commit(s)
  ELSE [s EXCEPT !.change = <<>>]

HandleKey(s, k) ==
  LET before == [track |-> Tracked(s), mode |-> s.mode, rev |-> s.rev]
      done == Dispatched(Received(s, k), k)
      settled == Settled([done EXCEPT !.calls = <<>>], before)
      called == Head(done.calls)
  IN  IF done.calls = <<>> THEN [settled EXCEPT !.stack = s.stack]
      ELSE [done EXCEPT !.calls = <<>>,
                        !.stack = Append(s.stack, [kind |-> called.kind, keys |-> called.keys,
                                                   before |-> before])]

\* A replay of the macro, or of the dot, returns to the key that called it.
Returned(s) ==
  LET call == Last(s.stack)
      back == [s EXCEPT !.stack = Front(@)]
  IN  Settled(IF call.kind = "macro" THEN back
              ELSE [back EXCEPT !.dotReplaying = FALSE, !.dotJustReplayed = TRUE], call.before)

-----------------------------------------------------------------------------
AtRest(s) ==
  s.mode = "Normal" /\ s.stack = <<>> /\ ~HasPending(s.km) /\ s.km.count = NoCount

KeysInit ==
  /\ keyboard \in Keyboards
  /\ ed = [mode |-> "Normal", km |-> Fresh, len |-> 2, pos |-> 0, anchor |-> 0, rev |-> 0,
           register |-> None, marks |-> [m \in {} |-> 0], jumps |-> [entries |-> <<>>, current |-> 0],
           recording |-> None, current |-> <<>>, macros |-> [r \in {} |-> <<>>],
           lastChange |-> <<>>, change |-> <<>>, lastMacro |-> None,
           dotReplaying |-> FALSE, dotJustReplayed |-> FALSE, stack |-> <<>>, calls |-> <<>>]
  /\ strokes = 0
  /\ heard = [keys |-> <<>>, all |-> TRUE]
  /\ script = <<>>
  /\ last = <<>>

\* What . is held to repeat: not what was changed in visual mode or by a macro, nor with a
\* recording begun or ended on the way.
Repeatable(acts) ==
  \A i \in DOMAIN acts :
    acts[i].do \notin {"EnterVisual", "PlayMacro", "PlayLastMacro", "DotRepeat",
                      "StartRecordMacro", "StopRecordMacro"}
\* What is changed while . replays is no change of its own.
Learnt(from, now, done, acts) ==
  IF from.dotReplaying \/ (now.rev = from.rev /\ \A a \in done : a.do # "Insert") THEN last
  ELSE IF AtRest(now) /\ Repeatable(acts) THEN acts ELSE <<>>

Step(k, from, acts) ==
  LET done == ActionOf(from, k)
  IN  /\ ed' = HandleKey(from, k)
      /\ ed'.len <= MaxChars /\ Len(ed'.stack) <= MaxDepth
      /\ script' = acts \o SetToSeq(done)
      /\ last' = Learnt(from, ed', done, script')
      /\ UNCHANGED keyboard

\* The user types a key.
Type(k) ==
  /\ ed.stack = <<>> /\ strokes < MaxStrokes
  /\ strokes' = strokes + 1
  /\ heard' = IF ed.recording = None THEN [keys |-> <<>>, all |-> TRUE]
              ELSE [heard EXCEPT !.keys = Append(@, k)]
  /\ Step(k, ed, IF AtRest(ed) THEN <<>> ELSE script)

\* The innermost replay handles its next key, or returns.
ReplayKeys ==
  /\ ed.stack # <<>> /\ Last(ed.stack).keys # <<>>
  /\ LET n == Len(ed.stack)
     IN  Step(Head(ed.stack[n].keys), [ed EXCEPT !.stack[n].keys = Tail(@)], script)
  /\ heard' = [heard EXCEPT !.all = FALSE]
  /\ UNCHANGED strokes
Return ==
  /\ ed.stack # <<>> /\ Last(ed.stack).keys = <<>>
  /\ ed' = Returned(ed)
  /\ last' = LET call == Last(ed.stack)
             IN  IF call.kind = "macro" /\ ed.rev # call.before.rev THEN <<>> ELSE last
  /\ UNCHANGED <<keyboard, strokes, heard, script>>

KeysNext == (\E k \in keyboard : Type(k)) \/ ReplayKeys \/ Return

KeysSpec == KeysInit /\ [][KeysNext]_keysVars

-----------------------------------------------------------------------------
\* When a recording stops, the macro is what was typed since q{c}, the q that stopped it
\* left out.  A replay in between records the keys it replays too, after the key that
\* called it (record_key, discard_last_recorded_key).
MacroIsWhatWasTyped ==
  [][ed.recording # None /\ ed'.recording = None /\ heard.all =>
       ed'.macros[ed.recording] = heard.keys]_keysVars

\* . executes the actions of the last change again, with its count and what was typed in
\* insert mode, however the keys of other commands came between (dot_feed, finalize_dot).
\* Excepted is a change that finds nothing to change and stays out of insert mode (as ch at
\* the start of the line): then the keys once typed into the text are taken for commands.
Missed(acts) ==
  \E i \in DOMAIN acts : acts[i].op = "Change" /\ (i = Len(acts) \/ acts[i + 1].do # "Insert")
DotRepeatsTheChange ==
  AtRest(ed) /\ script # <<>> /\ last # <<>> /\ script[1].do = "DotRepeat" /\ ~Missed(script) =>
    Tail(script) = last
=============================================================================
