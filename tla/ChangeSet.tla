----------------------------- MODULE ChangeSet -----------------------------
(***************************************************************************)
(* The edit algebra of onda-core (crates/onda-core/src/transaction.rs): a  *)
(* changeset is a list of retain / insert / delete operations over a text, *)
(* which is a sequence of characters.  The operators are the functions of  *)
(* the source, with the ways they fail: a length that does not match, a    *)
(* deletion out of bounds, and the panics of the rope when a position is   *)
(* past its end.                                                           *)
(***************************************************************************)
EXTENDS Integers, Sequences, SequencesExt

Retain(n) == [op |-> "retain", n |-> n, text |-> <<>>]
Insert(s) == [op |-> "insert", n |-> Len(s), text |-> s]
Delete(n) == [op |-> "delete", n |-> n, text |-> <<>>]

\* The identity changeset for a text of length len.
Identity(len) == [ops |-> <<>>, before |-> len, after |-> len]

SatSub(a, b) == IF a > b THEN a - b ELSE 0

\* Append an operation, merging it with a last operation of its own kind.
PushOp(ops, o) ==
  IF o.n = 0 THEN ops
  ELSE IF ops # <<>> /\ Last(ops).op = o.op
       THEN Append(Front(ops), [o EXCEPT !.n = Last(ops).n + @,
                                         !.text = Last(ops).text \o @])
       ELSE Append(ops, o)

PushRetain(cs, n) == [cs EXCEPT !.ops = PushOp(@, Retain(n))]

PushInsert(cs, s) == [cs EXCEPT !.ops = PushOp(@, Insert(s)), !.after = @ + Len(s)]
PushDelete(cs, n) == [cs EXCEPT !.ops = PushOp(@, Delete(n)), !.after = SatSub(@, n)]

\* ChangeSetBuilder::build drops the trailing retain; merging leaves at most one.
Build(cs) ==
  IF cs.ops # <<>> /\ Last(cs.ops).op = "retain"
  THEN [cs EXCEPT !.ops = Front(@)]
  ELSE cs

-----------------------------------------------------------------------------
\* One operation of ChangeSet::apply on the rope being edited.  A failure is
\* final and leaves what was done before it.
ApplyOp(acc, o) ==
  LET r == acc.rope
      p == acc.pos
  IN  IF acc.status # "ok" THEN acc
      ELSE CASE o.op = "retain" -> [acc EXCEPT !.pos = p + o.n]
        [] o.op = "insert" ->
             IF p > Len(r) THEN [acc EXCEPT !.status = "panic"]
             ELSE [acc EXCEPT !.rope = SubSeq(r, 1, p) \o o.text \o SubSeq(r, p + 1, Len(r)),
                              !.pos = p + o.n]
        [] o.op = "delete" ->
             IF p + o.n > Len(r) THEN [acc EXCEPT !.status = "out of bounds"]
             ELSE [acc EXCEPT !.rope = SubSeq(r, 1, p) \o SubSeq(r, p + o.n + 1, Len(r))]

AllApplied(ops, rope) ==
  LET after[i \in 0..Len(ops)] ==
        IF i = 0 THEN [status |-> "ok", rope |-> rope, pos |-> 0]
        ELSE ApplyOp(after[i - 1], ops[i])
  IN  after[Len(ops)]

\* ChangeSet::apply: [status, rope], the rope as the code leaves it.
ApplyChanges(cs, rope) ==
  IF Len(rope) # cs.before
  THEN [status |-> "length mismatch", rope |-> rope, pos |-> 0]
  ELSE AllApplied(cs.ops, rope)

\* A mutant: the last character is left out.
TakenOneLess(rope, pos, n) == SubSeq(rope, pos + 1, pos + n - 1)

\* chars_at(pos).take(n): up to n characters.
Taken(rope, pos, n) ==
  SubSeq(rope, pos + 1, IF pos + n < Len(rope) THEN pos + n ELSE Len(rope))

\* One operation of ChangeSet::invert; chars_at panics past the end of the rope
\* and take(n) stops at it.
InvertOp(original, acc, o) ==
  IF acc.status # "ok" THEN acc
  ELSE CASE o.op = "retain" -> [acc EXCEPT !.inv = PushRetain(@, o.n), !.pos = @ + o.n]
    [] o.op = "insert" -> [acc EXCEPT !.inv = PushDelete(@, o.n)]
    [] o.op = "delete" ->
         IF acc.pos > Len(original) THEN [acc EXCEPT !.status = "panic"]
         ELSE [acc EXCEPT !.inv = PushInsert(@, Taken(original, acc.pos, o.n)),
                          !.pos = @ + o.n]

AllInverted(ops, original, len) ==
  LET after[i \in 0..Len(ops)] ==
        IF i = 0 THEN [status |-> "ok", inv |-> Identity(len), pos |-> 0]
        ELSE InvertOp(original, after[i - 1], ops[i])
  IN  after[Len(ops)]

\* The undo changeset of cs on the text it is applied to.
Invert(cs, original) ==
  [AllInverted(cs.ops, original, cs.after).inv EXCEPT !.before = cs.after, !.after = cs.before]

\* Document::apply inverts first, then applies: an inversion that panics takes
\* the program down before the lengths are compared.
DocApply(cs, rope) ==
  IF AllInverted(cs.ops, rope, cs.after).status = "panic"
  THEN [status |-> "panic", rope |-> rope, inverse |-> Identity(Len(rope))]
  ELSE LET done == ApplyChanges(cs, rope)
       IN  [status |-> done.status, rope |-> done.rope, inverse |-> Invert(cs, rope)]

-----------------------------------------------------------------------------
\* ChangeSet::map_pos: res is -1 until an operation decides the position.
MapOp(pos, assoc, acc, o) ==
  IF acc.res >= 0 THEN acc
  ELSE CASE o.op = "retain" ->
         IF acc.orig + o.n > pos \/ (assoc = "before" /\ acc.orig + o.n = pos)
         THEN [acc EXCEPT !.res = acc.new + (pos - acc.orig)]
         ELSE [acc EXCEPT !.orig = @ + o.n, !.new = @ + o.n]
    [] o.op = "insert" ->
         IF assoc = "before" /\ acc.orig = pos
         THEN [acc EXCEPT !.res = acc.new]
         ELSE [acc EXCEPT !.new = @ + o.n]
    [] o.op = "delete" ->
         IF acc.orig + o.n > pos
         THEN [acc EXCEPT !.res = acc.new]
         ELSE [acc EXCEPT !.orig = @ + o.n]

AllMapped(ops, pos, assoc) ==
  LET after[i \in 0..Len(ops)] ==
        IF i = 0 THEN [orig |-> 0, new |-> 0, res |-> -1]
        ELSE MapOp(pos, assoc, after[i - 1], ops[i])
  IN  after[Len(ops)]

\* A mutant: what follows the last operation is not counted as retained.
MapPosEndsWithOps(cs, pos, assoc) ==
  LET end == AllMapped(cs.ops, pos, assoc)
  IN  IF end.res >= 0 THEN end.res ELSE end.new

MapPos(cs, pos, assoc) ==
  LET end == AllMapped(cs.ops, pos, assoc)
  IN  IF end.res >= 0 THEN end.res ELSE end.new + SatSub(pos, end.orig)
=============================================================================
