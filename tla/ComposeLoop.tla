---------------------------- MODULE ComposeLoop ----------------------------
(***************************************************************************)
(* compose_ops (crates/onda-core/src/transaction.rs): the loop that merges *)
(* two changesets, a for a text and b for what a leaves, into one.  Both   *)
(* are whatever a ChangeSetBuilder can make of its text.  One step is one  *)
(* iteration; an arm of the loop that changes nothing is a step that       *)
(* changes nothing.                                                        *)
(***************************************************************************)
EXTENDS ChangeSet

CONSTANTS MaxLen,    \* longest text
          MaxCalls   \* builder calls per changeset

ASSUME ComposeAssumption == MaxLen \in Nat /\ MaxCalls \in Nat

VARIABLES text, a, b,  \* the text and the two changesets
          ai, ao,      \* the operation of a at hand, and how much of it is consumed
          bi, bo,      \* the same for b
          out          \* the operations composed so far

inputs == <<text, a, b>>
composeVars == <<text, a, b, ai, ao, bi, bo, out>>

\* How much of a text operations are about.
Covered(o) == IF o.op = "insert" THEN 0 ELSE o.n
Extent(ops) ==
  LET upTo[i \in 0..Len(ops)] == IF i = 0 THEN 0 ELSE upTo[i - 1] + Covered(ops[i])
  IN  upTo[Len(ops)]

\* The changesets a builder can produce for a text of length len, inserting
\* characters of ink only.
PushOnto(cs, o) ==
  CASE o.op = "retain" -> PushRetain(cs, o.n)
    [] o.op = "insert" -> PushInsert(cs, o.text)
    [] o.op = "delete" -> PushDelete(cs, o.n)
AllPushed(len, calls) ==
  LET after[i \in 0..Len(calls)] ==
        IF i = 0 THEN Identity(len) ELSE PushOnto(after[i - 1], calls[i])
  IN  after[Len(calls)]
Built(len, calls) == Build(AllPushed(len, calls))
Calls(len, ink) ==
  {Retain(n) : n \in 1..len} \cup {Delete(n) : n \in 1..len}
    \cup {Insert(<<ink>>), Insert(<<ink, ink - 1>>)}
ChangeSets(len, ink) ==
  {Built(len, calls) :
     calls \in {s \in UNION {[1..k -> Calls(len, ink)] : k \in 0..MaxCalls} : Extent(s) <= len}}

ComposeInit ==
  \E len \in 0..MaxLen :
    /\ text = [i \in 1..len |-> i]
    /\ a \in ChangeSets(len, -1)
    /\ b \in ChangeSets(a.after, -3)
    /\ ai = 1 /\ ao = 0 /\ bi = 1 /\ bo = 0
    /\ out = <<>>

ALeft == ai <= Len(a.ops)
BLeft == bi <= Len(b.ops)
Done == ~ALeft /\ ~BLeft

AOp == a.ops[ai]
BOp == b.ops[bi]
AIs(kind) == ALeft /\ AOp.op = kind
BIs(kind) == BLeft /\ BOp.op = kind
ARest == AOp.n - ao
BRest == BOp.n - bo

\* Consume n characters of the operation at hand, going on to the next at its end.
ConsumeA(n) ==
  IF ao + n >= AOp.n THEN ai' = ai + 1 /\ ao' = 0 ELSE ai' = ai /\ ao' = ao + n
ConsumeB(n) ==
  IF bo + n >= BOp.n THEN bi' = bi + 1 /\ bo' = 0 ELSE bi' = bi /\ bo' = bo + n

Both(n) == ConsumeA(n) /\ ConsumeB(n) /\ UNCHANGED inputs
OnlyA(n) == ConsumeA(n) /\ UNCHANGED <<bi, bo, inputs>>
OnlyB(n) == ConsumeB(n) /\ UNCHANGED <<ai, ao, inputs>>

Shorter == IF ARest < BRest THEN ARest ELSE BRest

\* What a inserts, b keeps or deletes again ...
InsertKept ==
  /\ AIs("insert") /\ BIs("retain")
  /\ out' = PushOp(out, Insert(SubSeq(AOp.text, ao + 1, ao + Shorter)))
  /\ Both(Shorter)

InsertDeleted ==
  /\ AIs("insert") /\ BIs("delete")
  /\ out' = out
  /\ Both(Shorter)

\* ... or leaves, when b has ended ...
InsertLeft ==
  /\ AIs("insert") /\ ~BLeft
  /\ out' = PushOp(out, Insert(SubSeq(AOp.text, ao + 1, AOp.n)))
  /\ OnlyA(ARest)

\* ... but an insertion of b at the same place is left to the code below, which the
\* loop never reaches: it continues with nothing changed.
InsertMeetsInsert ==
  /\ AIs("insert") /\ BIs("insert")
  /\ UNCHANGED composeVars

InsertOfB ==
  /\ ~AIs("insert") /\ BIs("insert")
  /\ out' = PushOp(out, BOp)
  /\ OnlyB(BRest)

\* One side has ended: what is left of the other is copied.
DrainA ==
  /\ ~BLeft
  /\ AIs("retain") \/ AIs("delete")
  /\ out' = PushOp(out, [AOp EXCEPT !.n = ARest])
  /\ OnlyA(ARest)

DrainB ==
  /\ ~ALeft
  /\ BIs("retain") \/ BIs("delete")
  /\ out' = PushOp(out, [BOp EXCEPT !.n = BRest])
  /\ OnlyB(BRest)

\* A mutant: all that a retains goes the way of b.
RetainThenBTooLong ==
  /\ AIs("retain")
  /\ BIs("retain") \/ BIs("delete")
  /\ out' = PushOp(out, [BOp EXCEPT !.n = ARest])
  /\ Both(Shorter)

\* What a retains, b retains or deletes; what a deletes, b never sees.
RetainThenB ==
  /\ AIs("retain")
  /\ BIs("retain") \/ BIs("delete")
  /\ out' = PushOp(out, [BOp EXCEPT !.n = Shorter])
  /\ Both(Shorter)

DeletedByA ==
  /\ AIs("delete")
  /\ BIs("retain") \/ BIs("delete")
  /\ out' = PushOp(out, Delete(ARest))
  /\ OnlyA(ARest)

Iteration ==
  \/ InsertKept \/ InsertDeleted \/ InsertLeft \/ InsertMeetsInsert
  \/ InsertOfB \/ DrainA \/ DrainB \/ RetainThenB \/ DeletedByA

ComposeSpec == ComposeInit /\ [][Iteration]_composeVars /\ WF_composeVars(Iteration)

-----------------------------------------------------------------------------
\* The text has distinct characters and a inserts others, so that where a character
\* ends up can be read off the result.
Edited == ApplyChanges(a, text)

\* Undo restores the text: an edit applies to the text it was built for, and the inverse
\* computed before it, applied after it, gives that text back (ChangeSet::invert), as
\* UndoTree assumes of every transaction.
InverseRestores ==
  LET undone == ApplyChanges(Invert(a, text), Edited.rope)
  IN  /\ Edited.status = "ok" /\ Len(Edited.rope) = a.after
      /\ undone.status = "ok" /\ undone.rope = text

\* A cursor on a character the edit keeps stays on that character: the mapped
\* position, counted from 0, holds it in the edited text (ChangeSet::map_pos).
CursorFollowsItsCharacter ==
  \A p \in 0..(Len(text) - 1), q \in 0..(Len(Edited.rope) - 1) :
    Edited.rope[q + 1] = text[p + 1] => MapPos(a, p, "after") = q

Composed == [ops |-> out, before |-> a.before, after |-> b.after]

\* The loop ends, and a changeset composed applies as its two parts do one after the
\* other (ChangeSet::compose) - unless an insertion of a meets one of b: then the loop
\* goes round for ever, although transaction.rs:299 has that "handled below".
ComposeIsSequential ==
  <>(\/ /\ Done
        /\ LET both == ApplyChanges(Composed, text)
           IN  /\ both.status = "ok"
               /\ both.rope = ApplyChanges(b, ApplyChanges(a, text).rope).rope
     \/ AIs("insert") /\ BIs("insert"))
=============================================================================
