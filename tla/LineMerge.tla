----------------------------- MODULE LineMerge -----------------------------
(***************************************************************************)
(* Line diffs and the three-way merge of crates/onda-agent/src/staging.rs. *)
(* A text is the sequence of its lines; it has at least one, perhaps "".   *)
(***************************************************************************)
EXTENDS Integers, Sequences, SequencesExt

\* The length of a longest common subsequence of what follows i in base and j in other.
Common(base, other) ==
  LET c[p \in (1..Len(base) + 1) \X (1..Len(other) + 1)] ==
        LET i == p[1]  j == p[2]
        IN  IF i > Len(base) \/ j > Len(other) THEN 0
            ELSE IF base[i] = other[j] THEN c[<<i + 1, j + 1>>] + 1
            ELSE LET down == c[<<i + 1, j>>]  right == c[<<i, j + 1>>]
                 IN  IF down >= right THEN down ELSE right
  IN  c

Keep == [kind |-> "keep"]
Delete == [kind |-> "delete"]
Insert(line) == [kind |-> "insert", line |-> line]

\* The walk through both texts, as the steps it takes.
Script(base, other) ==
  LET c == Common(base, other)
      steps[p \in (1..Len(base) + 1) \X (1..Len(other) + 1)] ==
        LET i == p[1]  j == p[2]
            more == i <= Len(base)  otherMore == j <= Len(other)
        IN  IF ~more /\ ~otherMore THEN <<>>
            ELSE IF more /\ otherMore /\ base[i] = other[j]
                 THEN <<Keep>> \o steps[<<i + 1, j + 1>>]
            ELSE IF more /\ (~otherMore \/ c[<<i + 1, j>>] >= c[<<i, j + 1>>])
                 THEN <<Delete>> \o steps[<<i + 1, j>>]
            ELSE <<Insert(other[j])>> \o steps[<<i, j + 1>>]
  IN  steps[<<1, 1>>]

\* get_or_insert: the open hunk, or a new one at the present line.
WithHunk(w) ==
  IF w.open THEN w
  ELSE [w EXCEPT !.open = TRUE,
                 !.hunks = Append(@, [start |-> w.pos, len |-> 0, lines |-> <<>>])]

Walk(w, step) ==
  LET v == WithHunk(w)
      n == Len(v.hunks)
  IN  CASE step.kind = "keep"   -> [w EXCEPT !.open = FALSE, !.pos = @ + 1]
        [] step.kind = "delete" -> [v EXCEPT !.hunks[n].len = @ + 1, !.pos = @ + 1]
        [] step.kind = "insert" -> [v EXCEPT !.hunks[n].lines = Append(@, step.line)]

DiffHunks(base, other) ==
  FoldLeft(Walk, [hunks |-> <<>>, open |-> FALSE, pos |-> 0], Script(base, other)).hunks

\* Copy up to the hunk, then its lines in place of those it replaces.
CopyHunk(base, done, h) ==
  [out |-> done.out \o SubSeq(base, done.pos + 1, h.start) \o h.lines,
   pos |-> (IF h.start > done.pos THEN h.start ELSE done.pos) + h.len]

\* join_lines, and split_lines later: no line at all is the empty text, one empty line.
Joined(out) == IF out = <<>> THEN <<"">> ELSE out

ApplyHunks(base, hunks) ==
  LET done == FoldLeft(LAMBDA d, h : CopyHunk(base, d, h), [out |-> <<>>, pos |-> 0], hunks)
  IN  Joined(done.out \o SubSeq(base, done.pos + 1, Len(base)))

RangesOverlap(a, b) ==
  IF a.len = 0 /\ b.len = 0 THEN a.start = b.start
  ELSE a.start < b.start + b.len /\ b.start < a.start + a.len

\* A mutant: the hunks of the user after those of the agent.
AgentFirst(agent, user) == agent \o user

\* sort_by_key is stable: at equal starts the agent's hunk comes first.
InBaseOrder(agent, user) ==
  LET all == agent \o user
      before(i, j) == all[i].start < all[j].start \/ (all[i].start = all[j].start /\ i < j)
      order == SortSeq([i \in DOMAIN all |-> i], before)
  IN  [i \in DOMAIN all |-> all[order[i]]]

Unchanged == [kind |-> "unchanged"]
Clean(text) == [kind |-> "clean", text |-> text]
Stale == [kind |-> "stale"]

Conflict(agent, user) ==
  \E i \in DOMAIN agent, j \in DOMAIN user : RangesOverlap(agent[i], user[j])

ThreeWayMerge(base, proposed, current) ==
  LET agent == DiffHunks(base, proposed)
      user == DiffHunks(base, current)
  IN  IF proposed = current THEN Unchanged
      ELSE IF current = base THEN Clean(proposed)
      ELSE IF agent = <<>> THEN Unchanged
      ELSE IF Conflict(agent, user) THEN Stale
      ELSE Clean(ApplyHunks(base, InBaseOrder(agent, user)))

-----------------------------------------------------------------------------
\* Reference: hunks of one text moved to where other hunks have put their lines.
Delta(hunks) == FoldLeft(LAMBDA d, h : d + Len(h.lines) - h.len, 0, hunks)

Moved(h, others) ==
  [h EXCEPT !.start = @ + Delta(SelectSeq(others, LAMBDA o : o.start < h.start))]

Rebased(hunks, others) == [i \in DOMAIN hunks |-> Moved(hunks[i], others)]

\* A replacement and an insertion right before it do not overlap for the code, which
\* then puts the agent's first.
Touch(agent, user) ==
  \E i \in DOMAIN agent, j \in DOMAIN user : agent[i].start = user[j].start

\* What takes a hunk of base back, in the text all the hunks lead to.
TakeBack(base, hunks, i) ==
  [start |-> Moved(hunks[i], SubSeq(hunks, 1, i - 1)).start, len |-> Len(hunks[i].lines),
   lines |-> SubSeq(base, hunks[i].start + 1, hunks[i].start + hunks[i].len)]
=============================================================================
