---------------------------- MODULE TextCommands ----------------------------
(***************************************************************************)
(* Normal-mode commands on one document: the operators of                  *)
(* crates/onda-modal/src/operator.rs, and what execute_action,             *)
(* apply_operator and the substitute commands of crates/onda/src/main.rs   *)
(* make of them.  A command builds a changeset (ChangeSet.tla), applies it *)
(* and moves the cursor.  Recording for undo is UndoTree's matter.         *)
(***************************************************************************)
EXTENDS Motions

CONSTANTS Texts,       \* the texts to start from
          MaxLen,      \* bound on the length of a text
          MaxSteps,    \* bound on the commands of a behaviour
          Short,       \* length of the texts that take them all, others take one
          Counts,      \* the counts typed
          Typed,       \* characters typed: sought, replaced, searched for
          Replacements,\* of :s
          TabWidth,
          SPACE,
          UpperOf      \* lower case letters to their upper case

VARIABLES text,
          head,        \* the cursor, one range as the app has
          reg,         \* the unnamed register
          regex,       \* SearchState: the character searched for, if any, as a set
          status,      \* "ok" or "panic"
          steps        \* commands so far

vars == <<text, head, reg, regex, status, steps>>

CS == INSTANCE ChangeSet

Init ==
  /\ text \in Texts
  /\ head \in 0..Len(text)
  /\ reg = [text |-> <<>>, linewise |-> FALSE]
  /\ regex = {}
  /\ status = "ok"
  /\ steps = IF Len(text) <= Short THEN 0 ELSE MaxSteps - 1

-----------------------------------------------------------------------------
\* Transactions, from the edits <<from, to, text>> in their order
Changes(t, edits) ==
  LET push(acc, e) ==
        [cs |-> CS!PushInsert(CS!PushDelete(CS!PushRetain(acc.cs, SatSub(e[1], acc.at)), e[2] - e[1]),
                              e[3]),
         at |-> e[2]]
      all == FoldLeft(push, [cs |-> CS!Identity(Len(t)), at |-> 0], edits)
  IN  CS!Build(CS!PushRetain(all.cs, Len(t) - all.at))

Applied(t, cs) == CS!ApplyChanges(cs, t).rope
MapAfter(cs, p) == CS!MapPos(cs, p, "after")

ClampTo(t, p) == Least(p, SatSub(Len(t), 1))

\* The transaction is applied, unless it is empty.
Do(cs, newHead) ==
  /\ text' = Applied(text, cs)
  /\ Len(text') <= MaxLen
  /\ head' = IF cs.ops = <<>> THEN head ELSE newHead
  /\ UNCHANGED <<regex, status>>

Ready == status = "ok"
Fail == status' = "panic" /\ UNCHANGED <<text, head, reg, regex>>

-----------------------------------------------------------------------------
\* Spans of an operator: delete takes the last character too, delete_lines whole lines.
Lo(a, b) == Least(a, b)
Hi(a, b) == IF a < b THEN b ELSE a
CharSpan(t, a, b) == <<Least(Lo(a, b), Len(t)), Least(Hi(a, b) + 1, Len(t))>>
DocLine(t, p) == CharToLine(t, Least(p, Len(t)))
LineSpan(t, a, b) == <<LineToChar(t, DocLine(t, Lo(a, b))), NextLine(t, DocLine(t, Hi(a, b)))>>
\* A mutant: the register takes the half-open range, the deletion the inclusive one.
YankedShort(t, a, b, linewise) ==
  LET s == IF linewise THEN LineSpan(t, a, b) ELSE <<Lo(a, b), Hi(a, b)>>
  IN  [text |-> Slice(t, s[1], s[2]), linewise |-> linewise]

Yanked(t, a, b, linewise) ==
  LET s == IF linewise THEN LineSpan(t, a, b) ELSE CharSpan(t, a, b)
  IN  [text |-> Slice(t, s[1], s[2]), linewise |-> linewise]

Deletion(t, a, b, linewise) ==
  LET s == IF linewise THEN LineSpan(t, a, b) ELSE CharSpan(t, a, b)
  IN  Changes(t, <<<<s[1], s[2], <<>>>>>>)

\* map_case and change_case: what has no other case is kept.
Toggled(c) ==
  CASE c \in DOMAIN UpperOf -> UpperOf[c]
    [] \E l \in DOMAIN UpperOf : UpperOf[l] = c -> CHOOSE l \in DOMAIN UpperOf : UpperOf[l] = c
    [] OTHER -> c
MapCase(c, mode) ==
  CASE mode = "ToggleCase" -> Toggled(c)
    [] mode = "Uppercase" -> IF c \in DOMAIN UpperOf THEN UpperOf[c] ELSE c
    [] mode = "Lowercase" -> IF c \in DOMAIN UpperOf THEN c ELSE Toggled(c)
Recased(t, from, to, mode) ==
  IF from >= to THEN <<>>
  ELSE <<<<from, to, [i \in 1..(to - from) |-> MapCase(At(t, from + i - 1), mode)]>>>>
ChangeCase(t, a, b, mode, linewise) ==
  LET s == IF linewise THEN LineSpan(t, a, b) ELSE CharSpan(t, a, b)
  IN  Changes(t, Recased(t, s[1], s[2], mode))

\* indent_lines, by TabWidth spaces
Leading(t, l) == SkipOver(t, LineToChar(t, l), {SPACE}) - LineToChar(t, l)
IndentLines(t, a, b, dedent) ==
  LET first == DocLine(t, Lo(a, b))
      edit(l) == LET s == LineToChar(t, l)
                 IN  IF dedent THEN <<s, s + Least(Leading(t, l), TabWidth), <<>>>>
                     ELSE <<s, s, [i \in 1..TabWidth |-> SPACE]>>
  IN  Changes(t, [i \in 1..(DocLine(t, Hi(a, b)) - first + 1) |-> edit(first + i - 1)])

\* apply_operator on the range from anchor a to head b
Operators == {"Delete", "Change", "Yank", "Indent", "Dedent", "Lowercase", "Uppercase", "ToggleCase"}
Shifts == {"Indent", "Dedent"}
ApplyOperator(op, a, b, linewise) ==
  CASE op = "Yank" ->
         /\ reg' = Yanked(text, a, b, linewise)
         /\ UNCHANGED <<text, head, regex, status>>
    [] op \in {"Delete", "Change"} ->
         LET cs == Deletion(text, a, b, linewise) IN
         /\ reg' = Yanked(text, a, b, linewise)
         /\ Do(cs, ClampTo(Applied(text, cs), MapAfter(cs, Lo(a, b))))
    [] op \in Shifts ->
         LET cs == IndentLines(text, a, b, op = "Dedent") IN
         /\ Do(cs, ClampTo(Applied(text, cs), MapAfter(cs, b)))
         /\ UNCHANGED reg
    [] OTHER ->
         LET cs == ChangeCase(text, a, b, op, linewise) IN
         /\ Do(cs, ClampTo(Applied(text, cs), MapAfter(cs, Lo(a, b))))
         /\ UNCHANGED reg

-----------------------------------------------------------------------------
\* Motions that ask the rope for the line, or the character, at the cursor
AsksTheRope == {"Left", "Right", "Up", "Down", "LineStart", "LineFirstNonBlank", "LineEnd",
                "WordBackward", "BigWordBackward", "FindCharBack", "TillCharBack",
                "ParagraphForward", "ParagraphBackward"}
MoveFails(motion) == motion \in AsksTheRope /\ head > Len(text)

Move(motion, n, c) ==
  /\ Ready /\ ~MoveFails(motion)
  /\ head' = Moved(text, head, motion, n, c)
  /\ UNCHANGED <<text, reg, regex, status>>

\* cw on a word is ce.
Effective(op, motion) ==
  IF op = "Change" /\ head < Len(text) /\ At(text, head) \notin Spaces
  THEN CASE motion = "WordForward" -> "WordEnd"
         [] motion = "BigWordForward" -> "BigWordEnd"
         [] OTHER -> motion
  ELSE motion

OperatorMotion(op, motion, n, c) ==
  /\ Ready /\ ~MoveFails(motion)
  /\ LET m == Effective(op, motion)
         to == Moved(text, head, m, n, c)
         lo == Lo(head, to)
         hi == Hi(head, to)
     IN  IF m \in Linewise \/ op \in Shifts THEN ApplyOperator(op, lo, hi, TRUE)
         ELSE IF m \in Inclusive THEN ApplyOperator(op, lo, hi, FALSE)
         ELSE lo # hi /\ ApplyOperator(op, lo, hi - 1, FALSE)

OperatorTextObj(op, o) ==
  /\ Ready /\ head <= Len(text)
  /\ LET r == ResolveTextObj(text, head, o) IN
     /\ r \notin {NoObject, Panic}
     /\ ApplyOperator(op, r[1], r[2], op \in Shifts)

OperatorLine(op, n) ==
  /\ Ready
  /\ LET last == Least(DocLine(text, head) + n - 1, LenLines(text) - 1)
     IN  ApplyOperator(op, head, LineToChar(text, last), TRUE)

\* The visual selection starts at any anchor.
OperatorSelection(op, anchor, linewise) ==
  /\ Ready
  /\ ApplyOperator(op, anchor, head, linewise \/ op \in Shifts)

\* C and D
ToEnd(op) ==
  /\ Ready /\ ~MoveFails("LineEnd")
  /\ ApplyOperator(op, head, LineEnd(text, CharToLine(text, head)), FALSE)

\* A key whose command asks for a line or a character that is not there ends the editor.
PanicsOn(motion) == Ready /\ MoveFails(motion) /\ Fail
PanicsOnObject(o) ==
  /\ Ready
  /\ \/ o.kind \in {"pair", "quote", "paragraph"} /\ head > Len(text)
     \/ o.kind = "quote" /\ head = Len(text)
  /\ Fail
PanicsOnPaste == Ready /\ head > Len(text) /\ reg.text # <<>> /\ ~reg.linewise /\ Fail

-----------------------------------------------------------------------------
\* x n times, each followed by the clamp of the cursor; it stops at the end of the text.
DeleteChar(n) ==
  /\ Ready
  /\ LET gone == Least(n, SatSub(Len(text), head))
         cs == Changes(text, IF gone = 0 THEN <<>> ELSE <<<<head, head + gone, <<>>>>>>)
         \* at the end of the text the clamp moves back, and the next x takes from there
         back == Least(n - gone, IF gone = 0 THEN 0 ELSE head)
         t == Applied(text, cs)
     IN  IF gone > 0 /\ back > 0
         THEN Do(Changes(text, <<<<head - back, head + gone, <<>>>>>>), SatSub(head - back, 1))
         ELSE Do(cs, ClampTo(t, head))
  /\ UNCHANGED reg

ReplaceChar(c) ==
  /\ Ready
  /\ Do(Changes(text, IF head >= Len(text) THEN <<>> ELSE <<<<head, head + 1, <<c>>>>>>), head)
  /\ UNCHANGED reg

ToggleCaseChar(n) ==
  /\ Ready
  /\ LET stop == Least(head + n, LineStop(text, DocLine(text, head)))
         cs == Changes(text, IF head >= Len(text) THEN <<>> ELSE Recased(text, head, stop, "ToggleCase"))
     IN  Do(cs, MoveRight(Applied(text, cs), head, n))
  /\ UNCHANGED reg

\* paste_after and paste_before
Pasted(t, p, r, after) ==
  LET lines == IF Last(r.text) = NL THEN r.text ELSE Append(r.text, NL)
      at == IF ~r.linewise THEN (IF after THEN Least(p + 1, Len(t)) ELSE p)
            ELSE IF after THEN NextLine(t, DocLine(t, p))
            ELSE LineToChar(t, DocLine(t, p))
  IN  Changes(t, IF r.text = <<>> THEN <<>>
                 ELSE <<<<at, at, IF r.linewise THEN lines ELSE r.text>>>>)
Paste(after) ==
  /\ Ready /\ (after \/ reg.linewise \/ head <= Len(text))
  /\ LET cs == Pasted(text, head, reg, after) IN Do(cs, MapAfter(cs, head))
  /\ UNCHANGED reg

Joined(t, p) ==
  LET l == DocLine(t, p)
      at == NextLine(t, l) - 1
  IN  Changes(t, IF l + 1 >= LenLines(t) THEN <<>> ELSE <<<<at, at + 1, <<SPACE>>>>>>)
JoinLine == Ready /\ Do(Joined(text, head), head) /\ UNCHANGED reg

\* o and O
OpenLine(above) ==
  /\ Ready
  /\ LET l == DocLine(text, head)
         at == IF above THEN LineToChar(text, l) ELSE LineStop(text, l)
     IN  /\ text' = Applied(text, Changes(text, <<<<at, at, <<NL>>>>>>))
         /\ head' = IF above THEN at ELSE at + 1
  /\ Len(text') <= MaxLen
  /\ UNCHANGED <<reg, regex, status>>

-----------------------------------------------------------------------------
\* / and ?: the match at the cursor counts for /.
Search(c, forward) ==
  /\ Ready
  /\ regex' = {c}
  /\ LET m == IF forward THEN FindNext(text, c, head) ELSE FindPrev(text, c, head)
     IN  head' = IF m = None THEN head ELSE m
  /\ UNCHANGED <<text, reg, status>>

\* n and N, whose way depends on the direction searched
SearchAgain(forward) ==
  /\ Ready
  /\ \E c \in regex :
       LET m == IF forward THEN FindNext(text, c, head + 1) ELSE FindPrev(text, c, head)
       IN  head' = IF m = None THEN head ELSE m
  /\ UNCHANGED <<text, reg, regex, status>>

ClearSearch ==
  /\ Ready
  /\ regex' = {}
  /\ UNCHANGED <<text, head, reg, status>>

\* substitute, over [from, to)
InSpan(t, c, from, to) == {i \in Matches(t, c) : i >= from /\ i < to}
Substituted(t, c, repl, global, from, to) ==
  LET hits == InSpan(t, c, from, to)
      taken == IF global \/ hits = {} THEN hits ELSE {Min(hits)}
      nth == SetToSortSeq(taken, LAMBDA i, j : i < j)
  IN  Changes(t, [k \in 1..Len(nth) |-> <<nth[k], nth[k] + 1, repl>>])

\* :s and :%s.  Without % the span starts at the number of the line taken as a position.
\* The cursor stays as it is.
Substitute(all, c, repl, global) ==
  /\ Ready
  /\ LET line == DocLine(text, head)
         from == IF all THEN 0 ELSE line
         to == IF all THEN Len(text) ELSE LineStop(text, line)
         cs == Substituted(text, c, repl, global, from, to)
     IN  Do(cs, head) /\ UNCHANGED reg

\* :g/c/s: the lines are found first, and edited from the top in one undo group.
\* A mutant: a line whose number was found is edited wherever it is now, from the top
\* of the text.
GlobalFromTop(t, c, sub, repl, global) ==
  LET lines == {l \in 0..(LenLines(t) - 1) : InSpan(t, c, LineToChar(t, l), LineStop(t, l)) # {}}
      inOrder == SetToSortSeq(lines, LAMBDA i, j : i < j)
      step(acc, l) == Applied(acc, Substituted(acc, sub, repl, global, l, LineStop(acc, l)))
  IN  FoldLeft(step, t, inOrder)

Global(t, c, sub, repl, global) ==
  LET lines == {l \in 0..(LenLines(t) - 1) : InSpan(t, c, LineToChar(t, l), LineStop(t, l)) # {}}
      inOrder == SetToSortSeq(lines, LAMBDA i, j : i < j)
      step(acc, l) ==
        IF l >= LenLines(acc) THEN acc
        ELSE Applied(acc, Substituted(acc, sub, repl, global, LineToChar(acc, l), LineStop(acc, l)))
  IN  FoldLeft(step, t, inOrder)
GlobalCommand(c, sub, repl, global) ==
  /\ Ready
  /\ text' = Global(text, c, sub, repl, global)
  /\ Len(text') <= MaxLen
  /\ UNCHANGED <<head, reg, regex, status>>

-----------------------------------------------------------------------------
Moves == [motion : Motions, n : Counts, c : Typed]

Command ==
  \/ \E m \in Moves : Move(m.motion, m.n, m.c) \/ PanicsOn(m.motion)
  \/ \E op \in Operators : \E m \in Moves : OperatorMotion(op, m.motion, m.n, m.c)
  \/ \E op \in Operators : \E o \in Objects : OperatorTextObj(op, o) \/ PanicsOnObject(o)
  \/ \E op \in Operators : \E n \in Counts : OperatorLine(op, n)
  \/ \E op \in Operators : \E a \in 0..Len(text), l \in BOOLEAN : OperatorSelection(op, a, l)
  \/ \E op \in {"Delete", "Change"} : ToEnd(op)
  \/ \E n \in Counts : DeleteChar(n) \/ ToggleCaseChar(n)
  \/ \E c \in Typed : ReplaceChar(c)
  \/ \E after \in BOOLEAN : Paste(after) \/ OpenLine(after)
  \/ PanicsOnPaste \/ JoinLine \/ ClearSearch
  \/ \E c \in Typed, forward \in BOOLEAN : Search(c, forward)
  \/ \E forward \in BOOLEAN : SearchAgain(forward)
  \/ \E all, global \in BOOLEAN, c \in Typed, r \in Replacements : Substitute(all, c, r, global)
  \/ \E global \in BOOLEAN, c, sub \in Typed, r \in Replacements : GlobalCommand(c, sub, r, global)

Next ==
  /\ steps < MaxSteps
  /\ steps' = steps + 1
  /\ Command

Spec == Init /\ [][Next]_vars

-----------------------------------------------------------------------------
\* What d takes, p or P gives back: from any range, of characters or lines, the text
\* with the register pasted at the cursor is the text there was (delete, delete_lines,
\* paste_after, paste_before).  A last line comes back with a newline it did not have.
DeletionCanBePasted ==
  \A b \in 0..Len(text), linewise \in BOOLEAN :
    head <= Len(text) =>
      LET cs == Deletion(text, head, b, linewise)
          t == Applied(text, cs)
          p == ClampTo(t, MapAfter(cs, Lo(head, b)))
          back(after) == Applied(t, Pasted(t, p, Yanked(text, head, b, linewise), after))
      IN  cs.ops # <<>> =>
            \E after \in BOOLEAN : back(after) = text \/ (linewise /\ back(after) = Append(text, NL))

\* A count is the motion done that often, for those that a count repeats; going down a
\* line and up again is going nowhere, unless the line below is the empty last one; N
\* takes back n; % goes to the partner of a bracket and back; and the text inside a
\* bracket object is balanced, with the cursor between its delimiters (Motion::apply,
\* find_next, find_prev, matching_bracket, find_open, find_close).
Repeating == {"Left", "Right", "WordForward", "WordBackward", "WordEnd", "BigWordForward",
              "BigWordBackward", "BigWordEnd", "ParagraphForward", "ParagraphBackward"}
MotionsCompose ==
  head <= Len(text) =>
    /\ \A m \in Repeating :
         Moved(text, head, m, 2, None) = Moved(text, Moved(text, head, m, 1, None), m, 1, None)
    /\ LET line == CharToLine(text, head)
           down == MoveVertical(text, head, 1, None)
       IN  head <= LineEnd(text, line) /\ line + 1 < LenLines(text) /\ NextLine(text, line) < Len(text)
             => MoveVertical(text, down.to, -1, down.goal).to = head
    /\ \A c \in Typed :
         head \in Matches(text, c) => FindPrev(text, c, FindNext(text, c, head + 1)) = head
    /\ head < Len(text) /\ At(text, head) \in Brackets /\ Partner(text, head) # None
         => Partner(text, Partner(text, head)) = head
    /\ \A pair \in Pairs :
         LET r == PairObject(text, head, pair, TRUE) IN
         r # NoObject =>
           /\ head >= r[1] /\ head <= r[2]
           /\ Count(text, r[1], r[2] - 1, pair[1]) = Count(text, r[1], r[2] - 1, pair[2])

\* :g substitutes on each line that had a match and on no other, as long as the
\* replacement keeps lines whole (run_global_command).
GlobalEditsEachLine ==
  \A global \in BOOLEAN, c, sub \in Typed, r \in Replacements :
    NL \notin ToSet(r) =>
      LET lines == [l \in 1..LenLines(text) |->
                     Slice(text, LineToChar(text, l - 1), NextLine(text, l - 1))]
          edited(s) == IF c \in ToSet(s)
                       THEN Applied(s, Substituted(s, sub, r, global, 0, Len(s))) ELSE s
      IN  Global(text, c, sub, r, global) = FlattenSeq([l \in DOMAIN lines |-> edited(lines[l])])
=============================================================================
