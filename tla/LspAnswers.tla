----------------------------- MODULE LspAnswers -----------------------------
(***************************************************************************)
(* The places in a language server's answers: lines and UTF-16 columns,    *)
(* which the editor turns into characters of its text when the answer      *)
(* arrives (crates/onda/src/lsp_edit.rs and apply_lsp_edits,               *)
(* jump_to_location, handle_lsp_event of crates/onda/src/main.rs) and, for *)
(* diagnostics, into cells (render_with_diagnostics of                     *)
(* crates/onda-render/src/view.rs).  When an answer arrives, and whether   *)
(* it was made for this text, is Lsp's: here the text may move on before   *)
(* the one answer of a behaviour comes.                                    *)
(*                                                                         *)
(* A text is the kinds of its characters: a takes one UTF-16 unit and one  *)
(* cell, k one and two, w two and two; cr and nl end lines, together or    *)
(* each for itself.  Characters, columns and lines count from 0.           *)
(***************************************************************************)
EXTENDS ChangeSet, FiniteSets

CONSTANTS Texts,    \* the texts to start from
          NewTexts, \* what an edit of the server may put in
          MaxTyped  \* bound on the changes the user makes

VARIABLES text,    \* the document in focus
          head,    \* the cursor
          spans,   \* App::diagnostic_spans of the document
          answer,  \* what is under way from the server, and the text it was made for
          typed    \* changes made by the user

vars == <<text, head, spans, answer, typed>>

Waiting == [kind |-> "none yet"]
Arrived == [kind |-> "arrived"]

Units(ch) == IF ch = "w" THEN 2 ELSE 1
Cells(ch) == IF ch \in {"k", "w"} THEN 2 ELSE 1
UnitsOf(chars) == FoldLeft(LAMBDA sum, ch : sum + Units(ch), 0, chars)
CellsOf(chars) == FoldLeft(LAMBDA sum, ch : sum + Cells(ch), 0, chars)

-----------------------------------------------------------------------------
(* The rope's lines. *)

\* The characters, from 1, that end a line.
Breaks(t) ==
  {i \in DOMAIN t : t[i] = "nl" \/ (t[i] = "cr" /\ ~(i < Len(t) /\ t[i + 1] = "nl"))}

LenLines(t) == Cardinality(Breaks(t)) + 1
LineToChar(t, l) ==
  IF l = 0 THEN 0 ELSE CHOOSE i \in Breaks(t) : Cardinality({j \in Breaks(t) : j <= i}) = l
CharToLine(t, c) == Cardinality({i \in Breaks(t) : i <= c})
LineEnd(t, l) == IF l + 1 < LenLines(t) THEN LineToChar(t, l + 1) ELSE Len(t)
Line(t, l) == SubSeq(t, LineToChar(t, l) + 1, LineEnd(t, l))

\* line_len_no_eol: a cr that stands alone is not taken off.
LineLenNoEol(t, l) ==
  LET line == Line(t, l)
      n == Len(line)
  IN CASE n = 0 \/ line[n] # "nl" -> n
       [] n > 1 /\ line[n] = "nl" /\ line[n - 1] = "cr" -> n - 2
       [] OTHER -> n - 1

-----------------------------------------------------------------------------
(* Places. *)

WalkCounted(line, col) ==  \* a mutant: every character is one column
  Min({k \in 0..Len(line) : k = Len(line) \/ k >= col \/ line[k + 1] = "nl"})

\* How many characters of a line are before a column.
Walk(line, col) ==
  Min({k \in 0..Len(line) :
         k = Len(line) \/ UnitsOf(SubSeq(line, 1, k)) >= col \/ line[k + 1] = "nl"})

LspPosToChar(t, pos) ==
  IF pos[1] >= LenLines(t) THEN Len(t)
  ELSE LineToChar(t, pos[1]) + Walk(Line(t, pos[1]), pos[2])

CharToLspPos(t, c) ==
  LET l == CharToLine(t, c)
  IN <<l, UnitsOf(SubSeq(t, LineToChar(t, l) + 1, c))>>

LspRangeToChars(t, range) ==
  LET ends == {LspPosToChar(t, range.from), LspPosToChar(t, range.to)}
  IN [from |-> Min(ends), to |-> Max(ends)]

-----------------------------------------------------------------------------
(* What the editor does with an answer. *)

\* sort_by_key, which keeps the order of edits that start at the same character.
Sorted(edits) ==
  LET Before(i, j) == \/ edits[i].from < edits[j].from
                      \/ edits[i].from = edits[j].from /\ i < j
  IN [k \in DOMAIN edits |->
        edits[CHOOSE i \in DOMAIN edits :
                Cardinality({j \in DOMAIN edits : Before(j, i)}) = k - 1]]

\* text_edits_to_changeset: one that begins before the end of the last is skipped.
TextEditsToChangeset(t, edits) ==
  LET Edit(b, e) ==
        IF e.from < b.pos \/ e.to > Len(t) THEN b
        ELSE [cs |-> PushInsert(PushDelete(PushRetain(b.cs, e.from - b.pos), e.to - e.from),
                                e.new),
              pos |-> e.to]
      built == FoldLeft(Edit, [cs |-> Identity(Len(t)), pos |-> 0], Sorted(edits))
  IN Build(PushRetain(built.cs, Len(t) - built.pos))

InChars(t, edit) == LspRangeToChars(t, edit) @@ [new |-> edit.new]

\* apply_lsp_edits, for the document of the focused window.
ApplyLspEdits(edits) ==
  LET cs == TextEditsToChangeset(text, [i \in DOMAIN edits |-> InChars(text, edits[i])])
      done == DocApply(cs, text)
  IN /\ IF done.status = "ok"
        THEN text' = done.rope /\ head' = MapPos(cs, head, "after")
        ELSE UNCHANGED <<text, head>>
     /\ UNCHANGED spans

\* jump_to_location takes the column for characters.
JumpToLocation(pos) ==
  /\ head' = IF pos[1] < LenLines(text)
             THEN LineToChar(text, pos[1]) + Min({pos[2], LineLenNoEol(text, pos[1])})
             ELSE 0
  /\ UNCHANGED <<text, spans>>

\* handle_lsp_event, too, and does not look where the line ends.
RawPosToChar(t, pos) == IF pos[1] < LenLines(t) THEN LineToChar(t, pos[1]) + pos[2] ELSE Len(t)

StoreDiagnostic(range) ==
  /\ spans' = <<[from |-> RawPosToChar(text, range.from), to |-> RawPosToChar(text, range.to)]>>
  /\ UNCHANGED <<text, head>>

\* render_with_diagnostics, without wrapping: the cells underlined, by line and column.
Underlined(t, span) ==
  UNION {LET start == LineToChar(t, l)
             end == start + LineLenNoEol(t, l)
         IN IF span.to <= start \/ span.from >= end THEN {}
            ELSE {<<l, col>> : col \in (Max({span.from, start}) - start)
                                       ..(Min({span.to, end}) - start - 1)} :
         l \in 0..(LenLines(t) - 1)}

-----------------------------------------------------------------------------
(* The server. *)

\* The places in a text: between the characters of a line, and past its end, which
\* means the end; a line past the last one means the end of the text.
Places(t) ==
  {<<LenLines(t), 0>>}
    \cup UNION {{<<l, UnitsOf(SubSeq(Line(t, l), 1, k))>> : k \in 0..Walk(Line(t, l), 9)} :
                 l \in 0..(LenLines(t) - 1)}
    \cup {<<l, 9>> : l \in 0..(LenLines(t) - 1)}

\* The UTF-16 units before a place, as the protocol has it.
Offset(t, pos) ==
  IF pos[1] >= LenLines(t) THEN UnitsOf(t)
  ELSE LET line == Line(t, pos[1])
           length == UnitsOf(SelectSeq(line, LAMBDA ch : ch \notin {"cr", "nl"}))
       IN UnitsOf(SubSeq(t, 1, LineToChar(t, pos[1]))) + Min({pos[2], length})

Ranges(t) ==
  {[from |-> p, to |-> q] : p, q \in Places(t)} \ {r \in [from : Places(t), to : Places(t)] :
                                                     Offset(t, r.from) > Offset(t, r.to)}

\* What may be edited together: ranges apart from each other, in any order, but that
\* insertions come before a replacement that starts at their place.
Apart(t, e, f) ==
  LET From(r) == Offset(t, r.from)
      To(r) == Offset(t, r.to)
  IN IF From(e) = From(f) THEN From(e) = To(e) ELSE To(e) <= From(f) \/ To(f) <= From(e)

TextEdits(t) ==
  {[from |-> r.from, to |-> r.to, new |-> s] : r \in Ranges(t), s \in NewTexts}
EditLists(t) ==
  {<<e>> : e \in TextEdits(t)}
    \cup {es \in TextEdits(t) \X TextEdits(t) : Apart(t, es[1], es[2])}

-----------------------------------------------------------------------------
Init ==
  /\ text \in Texts
  /\ head \in {0, Len(text)}
  /\ spans = <<>>
  /\ answer = Waiting
  /\ typed = 0

Answer ==
  /\ answer = Waiting
  /\ \/ \E es \in EditLists(text) : answer' = [kind |-> "edits", of |-> text, what |-> es]
     \/ \E p \in Places(text) : answer' = [kind |-> "location", of |-> text, what |-> p]
     \/ \E r \in Ranges(text) : answer' = [kind |-> "diagnostic", of |-> text, what |-> r]
  /\ UNCHANGED <<text, head, spans, typed>>

\* A character is typed, or the one before the cursor deleted.
Type ==
  /\ answer \notin {Waiting, Arrived}
  /\ typed < MaxTyped
  /\ typed' = typed + 1
  /\ \/ text' = InsertAt(text, head + 1, "a") /\ head' = head + 1
     \/ head > 0 /\ text' = RemoveAt(text, head) /\ head' = head - 1
  /\ UNCHANGED <<spans, answer>>

Arrive ==
  /\ \/ answer.kind = "edits" /\ ApplyLspEdits(answer.what)
     \/ answer.kind = "location" /\ JumpToLocation(answer.what)
     \/ answer.kind = "diagnostic" /\ StoreDiagnostic(answer.what)
  /\ answer' = Arrived
  /\ UNCHANGED typed

Next == Answer \/ Type \/ Arrive

Spec == Init /\ [][Next]_vars

-----------------------------------------------------------------------------
(* What the server meant, in UTF-16 units. *)

InUnits(t) ==
  FlattenSeq([i \in DOMAIN t |-> IF t[i] = "w" THEN <<"w", "w">> ELSE <<t[i]>>])

\* All edits at once: each unit stays unless it is in a range, and before it stands
\* what the edits that begin there put in.
Meant(t, edits) ==
  LET old == InUnits(t)
      PutIn(i) == FlattenSeq([k \in DOMAIN edits |->
                                IF Offset(t, edits[k].from) = i THEN InUnits(edits[k].new)
                                ELSE <<>>])
      Gone(i) == \E k \in DOMAIN edits :
                   Offset(t, edits[k].from) <= i /\ i < Offset(t, edits[k].to)
  IN FlattenSeq([i \in 1..(Len(old) + 1) |->
                   PutIn(i - 1) \o IF i > Len(old) \/ Gone(i - 1) THEN <<>> ELSE <<old[i]>>])

\* The cells of the characters of a range that are not ends of lines.
MeantCells(t, range) ==
  {LET l == CharToLine(t, i - 1)
   IN <<l, CellsOf(SubSeq(t, LineToChar(t, l) + 1, i - 1))>> :
     i \in {i \in DOMAIN t : /\ t[i] # "nl"
                             /\ Offset(t, range.from) <= UnitsOf(SubSeq(t, 1, i - 1))
                             /\ UnitsOf(SubSeq(t, 1, i - 1)) < Offset(t, range.to)}}

Has(t, kinds) == \E i \in DOMAIN t : t[i] \in kinds

\* The edits of an answer that meets the text it was made for do to it what the server
\* meant, however they are ordered and whatever characters stand before them, and the
\* place of the cursor that a request carries is the cursor's; among characters of one
\* unit and one cell, jumps and underlines are right too.  A jump never leaves the
\* text, though it moved on.  (A line that cr ends is not asked about: there, a column
\* past the end is taken to be between cr and nl, or on the next line.)
ServerIsUnderstood ==
  [][/\ ~Has(text, {"cr"}) =>
          \A c \in 0..Len(text) : Offset(text, CharToLspPos(text, c)) = UnitsOf(SubSeq(text, 1, c))
     /\ answer'.kind = "arrived" =>
          /\ head' \in 0..Len(text')
          /\ answer.of = text /\ ~Has(text, {"cr"}) =>
               /\ answer.kind = "edits" => InUnits(text') = Meant(text, answer.what)
               /\ ~Has(text, {"k", "w"}) =>
                    /\ answer.kind = "location" =>
                         head' = Offset(text, answer.what) \/ answer.what[1] = LenLines(text)
                    /\ answer.kind = "diagnostic" /\ answer.what.from[2] # 9 /\ answer.what.to[2] # 9 =>
                         Underlined(text, spans'[1]) = MeantCells(text, answer.what)]_vars
=============================================================================
