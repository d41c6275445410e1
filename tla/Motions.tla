------------------------------ MODULE Motions ------------------------------
(***************************************************************************)
(* Where the cursor goes: the motions of crates/onda-modal/src/motion.rs,  *)
(* the text objects of textobj.rs and the search of search.rs, as          *)
(* functions of a text, a position and a count.                            *)
(*                                                                         *)
(* A text is a sequence of characters, positions count from 0 and go up to *)
(* its length, which a cursor leaving insert mode keeps.  Every character  *)
(* is a grapheme of its own.  A pattern is one character.                  *)
(***************************************************************************)
EXTENDS Integers, Sequences, SequencesExt, FiniteSets, FiniteSetsExt

CONSTANTS WordChars,   \* alphanumeric characters and _
          Spaces,      \* white space, NL included
          NL,
          Pairs,       \* <<open, close>>: the brackets
          Quotes       \* quote characters

None == -1
SatSub(a, b) == IF a > b THEN a - b ELSE 0
Least(a, b) == IF a < b THEN a ELSE b
Times(n) == [i \in 1..n |-> i]

-----------------------------------------------------------------------------
\* The rope
At(t, p) == t[p + 1]
Slice(t, from, to) == SubSeq(t, from + 1, to)
CharToLine(t, p) == Cardinality({i \in 0..(p - 1) : At(t, i) = NL})
LenLines(t) == CharToLine(t, Len(t)) + 1
LineToChar(t, l) == Min({p \in 0..Len(t) : CharToLine(t, p) = l})
NextLine(t, l) == IF l + 1 < LenLines(t) THEN LineToChar(t, l + 1) ELSE Len(t)
LineLen(t, l) == NextLine(t, l) - LineToChar(t, l)
LineStart(t, p) == LineToChar(t, CharToLine(t, p))

\* line_len_no_eol, as the position after the line's last character
LineStop(t, l) == IF l + 1 < LenLines(t) THEN NextLine(t, l) - 1 ELSE NextLine(t, l)

\* line_end_char: the last character of a line, the newline when it is alone
LineEnd(t, l) ==
  LineToChar(t, l) + SatSub(SatSub(LineLen(t, l), IF l + 1 < LenLines(t) THEN 1 ELSE 0), 1)

-----------------------------------------------------------------------------
\* Runs of characters, which the loops of the source skip
SkipOver(t, p, S) == Min({q \in p..Len(t) : q = Len(t) \/ At(t, q) \notin S})
BackTo(t, p, S) == Max({q \in 0..p : q = 0 \/ At(t, q - 1) \notin S})
BackOver(t, p, S) == Max({q \in 0..p : q = 0 \/ At(t, q) \notin S})

AllChars(t) == ToSet(t)
Words(t, big) == IF big THEN AllChars(t) \ Spaces ELSE WordChars
Puncts(t, big) == AllChars(t) \ (Words(t, big) \cup Spaces)

NextWord(t, p, big) ==
  IF p >= Len(t) THEN p
  ELSE LET run == CASE At(t, p) \in Words(t, big) -> Words(t, big)
                    [] At(t, p) \in Spaces -> {}
                    [] OTHER -> Puncts(t, big)
       IN  SkipOver(t, SkipOver(t, p, run), Spaces)

\* A mutant: the white space is skipped once, after the words.
WordForwardSkipsOnce(t, p, n, big) ==
  LET run(q) == IF q >= Len(t) THEN q
                ELSE SkipOver(t, q, IF At(t, q) \in Words(t, big) THEN Words(t, big)
                                    ELSE Puncts(t, big))
  IN  Least(SkipOver(t, FoldLeft(LAMBDA q, i : run(q), p, Times(n)), Spaces), SatSub(Len(t), 1))

WordForward(t, p, n, big) ==
  Least(FoldLeft(LAMBDA q, i : NextWord(t, q, big), p, Times(n)), SatSub(Len(t), 1))

PrevWord(t, p, big) ==
  LET q == IF p = 0 THEN 0 ELSE BackOver(t, p - 1, Spaces)
  IN  IF q = 0 THEN 0
      ELSE BackOver(t, BackTo(t, q, Words(t, big)), Puncts(t, big))
WordBackward(t, p, n, big) == FoldLeft(LAMBDA q, i : PrevWord(t, q, big), p, Times(n))

EndOfWord(t, p, big) ==
  IF p + 1 >= Len(t) THEN p
  ELSE LET q == SkipOver(t, p + 1, Spaces)
       IN  IF q = Len(t) THEN q ELSE SkipOver(t, q + 1, Words(t, big)) - 1
WordEnd(t, p, n, big) ==
  Least(FoldLeft(LAMBDA q, i : EndOfWord(t, q, big), p, Times(n)), SatSub(Len(t), 1))

MoveLeft(t, p, n) == Max({SatSub(p, n), LineStart(t, p)})
MoveRight(t, p, n) == Least(p + n, LineEnd(t, CharToLine(t, p)))

\* move_vertical, with the column it aims at
MoveVertical(t, p, d, goal) ==
  LET line == CharToLine(t, p)
      target == Max({0, Least(line + d, LenLines(t) - 1)})
      column == IF goal = None THEN p - LineToChar(t, line) ELSE goal
      last == LineEnd(t, target) - LineToChar(t, target)
  IN  [to |-> Least(LineToChar(t, target) + Least(column, last), SatSub(Len(t), 1)), goal |-> column]

FirstNonBlank(t, p) ==
  LET from == LineStart(t, p)
      q == SkipOver(t, from, Spaces)
  IN  IF q < NextLine(t, CharToLine(t, p)) THEN q ELSE from

DocumentEnd(t) ==
  LineEnd(t, Max({0} \cup {l \in 0..(LenLines(t) - 1) : LineLen(t, l) > 0}))

\* find_char: stays where it is when there are too few
Nth(S, n, upwards) ==
  CHOOSE i \in S : Cardinality({j \in S : IF upwards THEN j <= i ELSE j >= i}) = n
FindChar(t, p, c, n, till, back) ==
  LET hits == {i \in 0..(Len(t) - 1) : At(t, i) = c /\ (IF back THEN i < p ELSE i > p)}
      off == CASE ~till -> 0 [] back -> 1 [] OTHER -> -1
  IN  IF Cardinality(hits) < n THEN p ELSE Nth(hits, n, ~back) + off

\* matching_bracket: the first bracket from the cursor on its line, and its partner
Count(t, from, to, c) == Cardinality({i \in from..to : At(t, i) = c})

Partner(t, s) ==
  LET pair == CHOOSE pr \in Pairs : At(t, s) \in {pr[1], pr[2]}
      ends == IF At(t, s) = pair[1]
              THEN {j \in s..(Len(t) - 1) : Count(t, s, j, pair[1]) = Count(t, s, j, pair[2])}
              ELSE {j \in 0..s : Count(t, j, s, pair[1]) = Count(t, j, s, pair[2])}
  IN  CASE ends = {} -> None
        [] At(t, s) = pair[1] -> Min(ends)
        [] OTHER -> Max(ends)

Brackets == UNION {{pr[1], pr[2]} : pr \in Pairs}
MatchingBracket(t, p) ==
  LET on == {i \in p..LineEnd(t, CharToLine(t, p)) : i < Len(t) /\ At(t, i) \in Brackets}
  IN  IF p >= Len(t) \/ on = {} \/ Partner(t, Min(on)) = None THEN p ELSE Partner(t, Min(on))

\* paragraph_forward and paragraph_backward, over lines; a line of one character is blank
LinesOver(t, l, blank) ==
  Min({m \in l..LenLines(t) : m = LenLines(t) \/ (LineLen(t, m) <= 1) # blank})
LinesBack(t, l, blank) ==
  IF l <= 0 THEN l ELSE Max({m \in 0..l : m = 0 \/ (LineLen(t, m) <= 1) # blank})
ParagraphForward(t, p, n) ==
  LET l == FoldLeft(LAMBDA m, i : LinesOver(t, LinesOver(t, m, FALSE), TRUE),
                    CharToLine(t, p), Times(n))
  IN  LineToChar(t, Least(l, LenLines(t) - 1))
ParagraphBackward(t, p, n) ==
  LET l == FoldLeft(LAMBDA m, i : LinesBack(t, LinesBack(t, m - 1, FALSE), TRUE),
                    CharToLine(t, p), Times(n))
  IN  LineToChar(t, Max({l, 0}))

-----------------------------------------------------------------------------
\* Motion::apply, and what the operators make of a motion
Motions == {"Left", "Right", "Up", "Down", "WordForward", "WordBackward", "WordEnd",
            "BigWordForward", "BigWordBackward", "BigWordEnd", "LineStart", "LineFirstNonBlank",
            "LineEnd", "DocumentStart", "DocumentEnd", "FindChar", "TillChar", "FindCharBack",
            "TillCharBack", "ParagraphForward", "ParagraphBackward", "MatchingBracket"}
Inclusive == {"WordEnd", "BigWordEnd", "LineEnd", "FindChar", "TillChar", "MatchingBracket"}
Linewise == {"Up", "Down", "DocumentStart", "DocumentEnd"}

\* c is the character sought by f, t, F and T.
Moved(t, p, motion, n, c) ==
  CASE motion = "Left" -> MoveLeft(t, p, n)
    [] motion = "Right" -> MoveRight(t, p, n)
    [] motion = "Up" -> MoveVertical(t, p, -n, None).to
    [] motion = "Down" -> MoveVertical(t, p, n, None).to
    [] motion = "WordForward" -> WordForward(t, p, n, FALSE)
    [] motion = "WordBackward" -> WordBackward(t, p, n, FALSE)
    [] motion = "WordEnd" -> WordEnd(t, p, n, FALSE)
    [] motion = "BigWordForward" -> WordForward(t, p, n, TRUE)
    [] motion = "BigWordBackward" -> WordBackward(t, p, n, TRUE)
    [] motion = "BigWordEnd" -> WordEnd(t, p, n, TRUE)
    [] motion = "LineStart" -> LineStart(t, p)
    [] motion = "LineFirstNonBlank" -> FirstNonBlank(t, p)
    [] motion = "LineEnd" -> LineEnd(t, CharToLine(t, p))
    [] motion = "DocumentStart" -> 0
    [] motion = "DocumentEnd" -> DocumentEnd(t)
    [] motion = "FindChar" -> FindChar(t, p, c, n, FALSE, FALSE)
    [] motion = "TillChar" -> FindChar(t, p, c, n, TRUE, FALSE)
    [] motion = "FindCharBack" -> FindChar(t, p, c, n, FALSE, TRUE)
    [] motion = "TillCharBack" -> FindChar(t, p, c, n, TRUE, TRUE)
    [] motion = "ParagraphForward" -> ParagraphForward(t, p, n)
    [] motion = "ParagraphBackward" -> ParagraphBackward(t, p, n)
    [] motion = "MatchingBracket" -> MatchingBracket(t, p)

-----------------------------------------------------------------------------
\* Text objects: the half-open range <<from, to>>, NoObject, or Panic
NoObject == <<>>
Panic == <<"panic">>

\* find_open and find_close, which pair brackets of one kind around the cursor
OpenBefore(t, p, pair) ==
  {i \in 0..(p - 1) : /\ At(t, i) = pair[1]
                      /\ Count(t, i, p - 1, pair[1]) = Count(t, i, p - 1, pair[2]) + 1
                      /\ \A j \in (i + 1)..(p - 1) :
                           Count(t, j, p - 1, pair[1]) <= Count(t, j, p - 1, pair[2])}
CloseAfter(t, p, pair) ==
  {i \in p..(Len(t) - 1) : /\ At(t, i) = pair[2]
                           /\ Count(t, p, i, pair[2]) = Count(t, p, i, pair[1]) + 1
                           /\ \A j \in p..(i - 1) :
                                Count(t, p, j, pair[2]) <= Count(t, p, j, pair[1])}
Around(open, close, inner) ==
  IF inner THEN <<open + 1, close>> ELSE <<open, close + 1>>
PairObject(t, p, pair, inner) ==
  LET open == OpenBefore(t, p, pair)
      close == CloseAfter(t, Max(open) + 1, pair)
  IN  IF open = {} \/ close = {} THEN NoObject ELSE Around(Max(open), Min(close), inner)

\* inner_sym_pair reads the character at the cursor, which the end of the text has not.
QuoteObject(t, p, q, inner) ==
  IF p = Len(t) THEN Panic
  ELSE LET open == {i \in 0..p : At(t, i) = q}
           close == {i \in (Max(open) + 1)..(Len(t) - 1) : At(t, i) = q}
       IN  IF open = {} \/ close = {} THEN NoObject ELSE Around(Max(open), Min(close), inner)

WordObject(t, p, big, inner) ==
  IF p >= Len(t) \/ At(t, p) \notin Words(t, big) THEN NoObject
  ELSE LET from == BackTo(t, p, Words(t, big))
           to == SkipOver(t, p, Words(t, big))
       IN  CASE inner -> <<from, to>>
             [] ~inner /\ to < Len(t) /\ At(t, to) \in Spaces -> <<from, SkipOver(t, to, Spaces)>>
             [] OTHER -> <<BackTo(t, from, Spaces), to>>

Blank(t, l) == LineLen(t, l) = 0 \/ (LineLen(t, l) = 1 /\ At(t, LineToChar(t, l)) = NL)
LastOf(t, l, blank) ==
  Max({m \in l..(LenLines(t) - 1) : \A k \in (l + 1)..m : Blank(t, k) = blank})
FirstOf(t, l, blank) == Min({m \in 0..l : \A k \in m..(l - 1) : Blank(t, k) = blank})
ParagraphObject(t, p, inner) ==
  LET line == CharToLine(t, p)
      text == {l \in line..(LenLines(t) - 1) : ~Blank(t, l)}
      from == IF inner THEN FirstOf(t, line, FALSE)
              ELSE FirstOf(t, FirstOf(t, Min(text), TRUE), FALSE)
      to == IF inner THEN LastOf(t, line, FALSE)
            ELSE LastOf(t, LastOf(t, Min(text), FALSE), TRUE)
  IN  IF text = {} \/ (inner /\ Blank(t, line)) THEN NoObject
      ELSE <<LineToChar(t, from), NextLine(t, to)>>

\* resolve_textobj, without the tree-sitter objects
Objects == [kind : {"word", "WORD", "paragraph"}, inner : BOOLEAN, of : {None}]
             \cup [kind : {"pair"}, inner : BOOLEAN, of : Pairs]
             \cup [kind : {"quote"}, inner : BOOLEAN, of : Quotes]
ResolveTextObj(t, p, o) ==
  CASE o.kind = "word" -> WordObject(t, p, FALSE, o.inner)
    [] o.kind = "WORD" -> WordObject(t, p, TRUE, o.inner)
    [] o.kind = "paragraph" -> ParagraphObject(t, p, o.inner)
    [] o.kind = "pair" -> PairObject(t, p, o.of, o.inner)
    [] o.kind = "quote" -> QuoteObject(t, p, o.of, o.inner)

-----------------------------------------------------------------------------
\* find_next and find_prev wrap around the text.
Matches(t, c) == {i \in 0..(Len(t) - 1) : At(t, i) = c}
FindNext(t, c, from) ==
  LET ahead == {i \in Matches(t, c) : i >= from}
      behind == {i \in Matches(t, c) : i < from}
  IN  CASE ahead # {} -> Min(ahead) [] behind # {} -> Min(behind) [] OTHER -> None
FindPrev(t, c, from) ==
  LET behind == {i \in Matches(t, c) : i < from}
  IN  CASE behind # {} -> Max(behind) [] Matches(t, c) # {} -> Max(Matches(t, c)) [] OTHER -> None
=============================================================================
