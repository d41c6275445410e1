----------------------------- MODULE TableView ------------------------------
(***************************************************************************)
(* The table view of a CSV document: the reading of a line into fields     *)
(* (crates/onda-data/src/csv.rs), the column widths cached when the view   *)
(* is turned on (toggle_table_view of crates/onda/src/main.rs), the rows   *)
(* drawn from them (render_table) and the cursor put among them            *)
(* (cursor_screen_pos, table_cell_screen_col).                             *)
(*                                                                         *)
(* A character is a letter, a digit (1), a quote (q) or a delimiter, all a *)
(* column wide.  Columns, characters and lines count from 0, places in a   *)
(* sequence from 1.                                                        *)
(***************************************************************************)
EXTENDS Integers, Sequences, FiniteSets, SequencesExt

CONSTANTS Tables,     \* the texts a document is opened with
          Delimiters, \* the delimiters tried, in order of preference
          Scrolloffs, \* what scrolloff may be
          Height,     \* of the pane
          MaxEdits    \* bound on the edits

VARIABLES text,    \* the lines of the document
          dialect, \* App::table_docs
          widths,  \* App::table_layout, cached
          on,      \* whether the view is on
          head,    \* the cursor, <<line, column>>
          top,     \* Viewport::offset_line
          off,     \* Viewport::scrolloff
          edits    \* number of edits, for the bound

vars == <<text, dialect, widths, on, head, top, off, edits>>

Quote == "q"
Digit == "1"
Separator == 3  \* the columns of the rule between two cells
Less(a, b) == Max({a - b, 0})

-----------------------------------------------------------------------------
(* One line. *)

\* Where a quoted token that is open at place i ends: after the quote that closes it.
QuoteEnd(line, i) ==
  LET n == Len(line)
      end[j \in 1..(n + 1)] ==
        IF j > n THEN j
        ELSE IF line[j] # Quote THEN end[j + 1]
        ELSE IF j < n /\ line[j + 1] = Quote THEN end[j + 2]
        ELSE j + 1
  IN end[i]

\* What such a token holds: a doubled quote is one.
Quoted(line, i) ==
  LET n == Len(line)
      value[j \in 1..(n + 1)] ==
        IF j > n THEN <<>>
        ELSE IF line[j] # Quote THEN <<line[j]>> \o value[j + 1]
        ELSE IF j < n /\ line[j + 1] = Quote THEN <<Quote>> \o value[j + 2]
        ELSE <<>>
  IN value[i]

\* field_spans: the tokens of a line.  What follows a closing quote, if it is no
\* delimiter, ends the line's fields.
FieldSpans(line, delim) ==
  LET n == Len(line)
      plain[j \in 1..(n + 1)] == IF j > n \/ line[j] = delim THEN j ELSE plain[j + 1]
      spans[i \in 1..(n + 1)] ==
        LET open == i <= n /\ line[i] = Quote
            end == IF open THEN QuoteEnd(line, i + 1) ELSE plain[i]
            token == [start |-> i - 1, end |-> end - 1,
                      value |-> IF open THEN Quoted(line, i + 1) ELSE SubSeq(line, i, end - 1)]
        IN IF end <= n /\ line[end] = delim
           THEN <<token>> \o IF end = n THEN <<[start |-> n, end |-> n, value |-> <<>>]>>
                             ELSE spans[end + 1]
           ELSE <<token>>
  IN spans[1]

ParseFields(line, delim) == [i \in DOMAIN FieldSpans(line, delim) |-> FieldSpans(line, delim)[i].value]

\* cell_index_at: the first token the column is in or at the end of, else the last
\* before it.
CellIndexAt(spans, col) ==
  LET within == SelectInSeq(spans, LAMBDA f : f.start <= col /\ col <= f.end)
  IN IF within # 0 THEN within ELSE SelectLastInSeq(spans, LAMBDA f : f.start <= col)

\* cell_inner: a token without the quotes around it.
CellInner(line, f) ==
  IF f.end > f.start /\ line[f.start + 1] = Quote /\ line[f.end] = Quote
  THEN <<f.start + 1, Less(f.end, 1)>>
  ELSE <<f.start, f.end>>

-----------------------------------------------------------------------------
(* The whole text. *)

Sample(lines) == SelectSeq(lines, LAMBDA line : line # <<>>)

\* How consistently a delimiter divides the lines of a sample; 0 if it never does.
Score(lines, delim) ==
  LET counts == [i \in DOMAIN lines |-> Len(FieldSpans(lines[i], delim))]
      most == Max(ToSet(counts))
      even == Cardinality({i \in DOMAIN counts : counts[i] = most})
  IN IF most < 2 THEN 0 ELSE even * 1000 - (Len(lines) - even) * 10 + most

IsNumeric(value) == value # <<>> /\ \A i \in DOMAIN value : value[i] = Digit
SomeNumeric(line, delim) == \E v \in ToSet(ParseFields(line, delim)) : IsNumeric(v)

\* detect_header: the first row holds no number and a later one does.
DetectHeader(lines, delim) ==
  Len(lines) < 2 \/ /\ ~SomeNumeric(lines[1], delim)
                    /\ \E i \in 2..Len(lines) : SomeNumeric(lines[i], delim)

\* sniff: the delimiter of the greatest score, the first tried among equals.
Sniff(lines) ==
  LET sample == Sample(lines)
      scores == [i \in DOMAIN Delimiters |-> Score(sample, Delimiters[i])]
      best == SelectInSeq(scores, LAMBDA s : s = Max(ToSet(scores)))
  IN IF sample = <<>> THEN [delim |-> Delimiters[1], header |-> TRUE]
     ELSE [delim |-> Delimiters[best], header |-> DetectHeader(sample, Delimiters[best])]

\* column_layout: the width of the widest cell of each column.
ColumnLayout(lines, delim) ==
  LET rows == [i \in DOMAIN lines |-> ParseFields(lines[i], delim)]
  IN [c \in 1..Max({Len(rows[i]) : i \in DOMAIN rows}) |->
        Max({Len(rows[i][c]) : i \in {i \in DOMAIN rows : c <= Len(rows[i])}})]

-----------------------------------------------------------------------------
(* The pane. *)

Line(l) == text[l + 1]
Sum(ns) == FoldLeft(LAMBDA a, b : a + b, 0, ns)

\* render_table, one row: the column where its c-th cell starts.  A cell is padded to
\* the cached width and never shortened.
CellColumn(line, c) ==
  LET fields == ParseFields(line, dialect.delim)
      Drawn(i) == Max({widths[i], IF i <= Len(fields) THEN Len(fields[i]) ELSE 0})
  IN Sum([i \in 1..(c - 1) |-> Drawn(i) + Separator])

\* render_table: the rows where a line is drawn; the header is pinned to the first.
RowsOf(l) ==
  LET first == IF dialect.header THEN 1 ELSE 0
      row == first + l - (first + top)
  IN {r \in 0..(Height - 1) : IF dialect.header /\ l = 0 THEN r = 0
                              ELSE l >= first + top /\ r = row}

ScreenColOfRaw(line, col) ==  \* a mutant: the column of the text, not of the table
  col

\* table_cell_screen_col: where the cursor is put in a row.
TableCellScreenCol(line, col) ==
  LET spans == FieldSpans(line, dialect.delim)
      i == CellIndexAt(spans, col)
      inner == CellInner(line, spans[i])
      chars == Min({Max({col, inner[1]}), Max(ToSet(inner))}) - inner[1]
  IN Sum([c \in 1..Min({i - 1, Len(widths)}) |-> widths[c] + Separator])
       + Min({chars, Len(spans[i].value)})

\* cursor_screen_pos, in the table view.
CursorPos == <<TableCellScreenCol(Line(head[1]), head[2]), Less(head[1], top)>>

\* Viewport::scroll_to, of the frame that ends every event.
ScrollTo(line, from) ==
  CASE Less(Height, 2 * off) = 0 -> line
    [] Less(Height, 2 * off) > 0 /\ line < from + off -> Less(line, off)
    [] /\ Less(Height, 2 * off) > 0
       /\ line >= from + off
       /\ line >= from + Less(Height, off) -> line + off + 1 - Min({Height, line + 1})
    [] OTHER -> from

-----------------------------------------------------------------------------
Init ==
  /\ text \in Tables
  /\ dialect = Sniff(<<>>)
  /\ widths = <<>>
  /\ on = FALSE
  /\ head = <<0, 0>>
  /\ top = 0
  /\ off \in Scrolloffs
  /\ edits = 0

\* :table on and off
ToggleTableView ==
  /\ on' = ~on
  /\ IF on THEN UNCHANGED <<dialect, widths>>
     ELSE /\ dialect' = Sniff(text)
          /\ widths' = ColumnLayout(text, dialect'.delim)
  /\ UNCHANGED <<text, head, top, off, edits>>

Move ==
  /\ \E l \in 0..(Len(text) - 1) : \E c \in 0..Len(Line(l)) : head' = <<l, c>>
  /\ top' = ScrollTo(head'[1], top)
  /\ UNCHANGED <<text, dialect, widths, on, off, edits>>

\* A character is typed at the cursor or deleted under it.  The view is not told.
Edit ==
  /\ edits < MaxEdits
  /\ edits' = edits + 1
  /\ LET line == Line(head[1])
         at == head[2] + 1
     IN \/ \E ch \in {Digit, Quote, Delimiters[1]} :
             /\ text' = [text EXCEPT ![head[1] + 1] = InsertAt(line, at, ch)]
             /\ head' = [head EXCEPT ![2] = head[2] + 1]
        \/ /\ at <= Len(line)
           /\ text' = [text EXCEPT ![head[1] + 1] = RemoveAt(line, at)]
           /\ UNCHANGED head
  /\ top' = ScrollTo(head[1], top)
  /\ UNCHANGED <<dialect, widths, on, off>>

Next == ToggleTableView \/ Move \/ Edit

Spec == Init /\ [][Next]_vars

-----------------------------------------------------------------------------
\* The column where the cursor's character is drawn, if it is of a cell without quotes.
DrawnAt ==
  LET line == Line(head[1])
      spans == FieldSpans(line, dialect.delim)
      i == CellIndexAt(spans, head[2])
      f == spans[i]
  IN IF (f.end > f.start /\ line[f.start + 1] = Quote) \/ head[2] > f.end THEN {}
     ELSE {<<CellColumn(line, i) + head[2] - f.start, r>> : r \in RowsOf(head[1])}

\* The table is laid out twice, to draw it and to find the cursor's place in it.  While
\* the widths are those of the text, the two agree: wherever the cursor's character is
\* drawn, there the cursor is, in any dialect and however far the rows are scrolled.
TableCursorIsOnItsCell ==
  on /\ widths = ColumnLayout(text, dialect.delim) => DrawnAt \subseteq {CursorPos}
=============================================================================
