------------------------------ MODULE UndoTree ------------------------------
(***************************************************************************)
(* A document and the undo tree that records every transaction applied to  *)
(* it: onda-core's Document and UndoTree, used as the library asks for.    *)
(* The documents, the transactions and what they do are parameters; all    *)
(* that is assumed of them is that an inverse undoes its transaction.      *)
(*                                                                         *)
(* undo, redo, undo_older and undo_newer walk the tree and apply one       *)
(* transaction per node.  A walk is several steps here, one per iteration  *)
(* of the loop in the code, and no other operation starts before it ends:  *)
(* the editor is single-threaded.                                          *)
(***************************************************************************)
EXTENDS UndoOps

CONSTANTS Docs, Txs,        \* documents and transactions
          Fits(_, _),       \* Fits(tx, d): Document::apply accepts tx on d
          Apply(_, _),      \* Apply(tx, d): the document it leaves
          InverseOf(_, _),    \* InverseOf(tx, d): the transaction that undoes it
          Cursors(_),       \* Cursors(d): the selections that lie inside d
          MaxNodes,         \* bound on the transactions recorded
          MaxGroups         \* bound on the groups begun

ASSUME InverseAssumption ==
  \A d \in Docs, tx \in Txs :
    Fits(tx, d) =>
      /\ Apply(tx, d) \in Docs
      /\ InverseOf(tx, d) \in Txs
      /\ Fits(InverseOf(tx, d), Apply(tx, d))
      /\ Apply(InverseOf(tx, d), Apply(tx, d)) = d

ASSUME BoundsAssumption == MaxNodes \in Nat /\ MaxGroups \in Nat

VARIABLES tree,   \* the UndoTree
          doc,    \* the text of the Document
          sel,    \* the selection, as the last operation left it
          walk,   \* the walk under way
          past,   \* history: past[n] is the document node n was pushed with
          left    \* history: the node the last operation left, if it was an undo

history == <<past, left>>
vars == <<tree, doc, sel, walk, past, left>>

Idle == [op |-> "idle", group |-> 0, from |-> Root, target |-> Root,
         meet |-> Root, down |-> FALSE]

Here == tree.nodes[tree.current]

Init ==
  /\ tree = EmptyTree
  /\ doc \in Docs
  /\ sel \in Cursors(doc)
  /\ walk = Idle
  /\ past = [n \in {Root} |-> doc]
  /\ left = Root

\* A caller applies a transaction and pushes it with the inverse it got back.
Edit ==
  /\ walk = Idle
  /\ Len(tree.nodes) < MaxNodes
  /\ \E tx \in Txs :
       /\ Fits(tx, doc)
       /\ doc' = Apply(tx, doc)
       /\ sel' \in Cursors(doc')
       /\ tree' = Push(tree, tx, InverseOf(tx, doc), sel, sel')
  /\ past' = [n \in 0..Len(tree'.nodes) |-> IF n \in DOMAIN past THEN past[n] ELSE doc']
  /\ left' = Root
  /\ UNCHANGED walk

MoveCursor ==
  /\ walk = Idle
  /\ sel' \in Cursors(doc)
  /\ UNCHANGED <<tree, doc, walk, history>>

Begin ==
  /\ walk = Idle
  /\ tree.nextGroup <= MaxGroups
  /\ tree' = BeginGroup(tree)
  /\ UNCHANGED <<doc, sel, walk, history>>

End ==
  /\ walk = Idle
  /\ tree' = EndGroup(tree)
  /\ UNCHANGED <<doc, sel, walk, history>>

-----------------------------------------------------------------------------

\* Apply the inverse of the current node and go to its parent.
StepUp ==
  /\ doc' = Apply(Here.inverse, doc)
  /\ sel' = Here.before
  /\ tree' = [tree EXCEPT !.current = Here.parent]
  /\ UNCHANGED past

\* Apply the transaction of a child of the current node and go to that child.
StepDown(i) ==
  /\ doc' = Apply(tree.nodes[i].forward, doc)
  /\ sel' = tree.nodes[i].after
  /\ tree' = [tree EXCEPT !.current = i]
  /\ UNCHANGED past

\* undo(): one node, then the nodes above it that are in its group.
Undo ==
  /\ walk = Idle
  /\ tree.current # Root
  /\ StepUp
  /\ walk' = [Idle EXCEPT !.op = "undo", !.group = Here.group, !.from = tree.current]
  /\ UNCHANGED left

UndoMore ==
  /\ walk.op = "undo"
  /\ InGroup(tree, tree.current, walk.group)
  /\ StepUp
  /\ UNCHANGED <<walk, left>>

UndoReturn ==
  /\ walk.op = "undo"
  /\ ~InGroup(tree, tree.current, walk.group)
  /\ walk' = Idle
  /\ left' = walk.from
  /\ UNCHANGED <<tree, doc, sel, past>>

\* redo(): the newest child, then the newest children below it that are in its group.
Redo ==
  /\ walk = Idle
  /\ Children(tree, tree.current) # {}
  /\ LET next == Newest(tree, Children(tree, tree.current))
     IN  /\ StepDown(next)
         /\ walk' = [Idle EXCEPT !.op = "redo", !.group = tree.nodes[next].group,
                                 !.from = tree.current]
  /\ UNCHANGED left

\* Does the redo under way go on to a newest child in its group?
RedoGoesOn ==
  /\ Children(tree, tree.current) # {}
  /\ InGroup(tree, Newest(tree, Children(tree, tree.current)), walk.group)

RedoMore ==
  /\ walk.op = "redo"
  /\ RedoGoesOn
  /\ StepDown(Newest(tree, Children(tree, tree.current)))
  /\ UNCHANGED <<walk, left>>

RedoReturnEarly ==  \* a mutant: one node only
  /\ walk.op = "redo"
  /\ walk' = Idle
  /\ left' = Root
  /\ UNCHANGED <<tree, doc, sel, past>>

RedoReturn ==
  /\ walk.op = "redo"
  /\ ~RedoGoesOn
  /\ walk' = Idle
  /\ left' = Root
  /\ UNCHANGED <<tree, doc, sel, past>>

\* undo_older() and undo_newer(): fix the target and where the paths meet, then
\* walk up to the meeting point and down to the target.
SeekTo(op, target) ==
  LET meet == Meet(tree, tree.current, target)
  IN  /\ walk' = [op |-> op, group |-> 0, from |-> tree.current, target |-> target,
                  meet |-> meet, down |-> tree.current \in {meet, Root}]
      /\ UNCHANGED <<tree, doc, sel, past, left>>

UndoOlder ==
  /\ walk = Idle
  /\ tree.current # Root
  /\ OlderNodes(tree, tree.current) # {}
  /\ SeekTo("older", PrevInTime(tree, tree.current))

UndoNewer ==
  /\ walk = Idle
  /\ NewerNodes(tree, tree.current) # {}
  /\ SeekTo("newer", NextInTime(tree, tree.current))

Seeking == walk.op \in {"older", "newer"}

SeekUp ==
  /\ Seeking
  /\ ~walk.down
  /\ StepUp
  /\ walk' = [walk EXCEPT !.down = Here.parent \in {walk.meet, Root}]
  /\ UNCHANGED left

SeekDown ==
  /\ Seeking
  /\ walk.down
  /\ tree.current # walk.target
  /\ \E i \in Children(tree, tree.current) \cap PathFrom(tree, walk.target) : StepDown(i)
  /\ UNCHANGED <<walk, left>>

SeekReturn ==
  /\ Seeking
  /\ walk.down
  /\ tree.current = walk.target
  /\ walk' = Idle
  /\ left' = Root
  /\ UNCHANGED <<tree, doc, sel, past>>

-----------------------------------------------------------------------------
WalkStep == UndoMore \/ UndoReturn \/ RedoMore \/ RedoReturn \/ SeekUp \/ SeekDown \/ SeekReturn

Next ==
  \/ Edit \/ MoveCursor \/ Begin \/ End
  \/ Undo \/ Redo \/ UndoOlder \/ UndoNewer
  \/ WalkStep

Spec == Init /\ [][Next]_vars

-----------------------------------------------------------------------------
NodeIds == 1..Len(tree.nodes)

Node == [parent : Nat, seq : Nat, group : Nat, forward : Txs, inverse : Txs,
         before : UNION {Cursors(d) : d \in Docs}, after : UNION {Cursors(d) : d \in Docs}]

Walk == [op : {"idle", "undo", "redo", "older", "newer"}, group : Nat, from : Nat,
         target : Nat, meet : Nat, down : BOOLEAN]

TypeOK ==
  /\ tree \in [nodes : Seq(Node), current : Nat, group : Nat, nextGroup : Nat, nextSeq : Nat]
  /\ doc \in Docs
  /\ sel \in UNION {Cursors(d) : d \in Docs}
  /\ walk \in Walk
  /\ past \in [0..Len(tree.nodes) -> Docs]
  /\ left \in Nat

\* The tree is well formed: the current node exists, a parent was created before
\* its children, and sequence numbers follow creation (UndoTree::push).
WellFormed ==
  /\ tree.current \in 0..Len(tree.nodes)
  /\ tree.nextSeq = Len(tree.nodes) + 1
  /\ \A i \in NodeIds : tree.nodes[i].seq = i /\ tree.nodes[i].parent \in 0..(i - 1)

\* Every node leads from the document its parent was recorded with to its own,
\* and back (the transactions push() stores).
NodesReplay ==
  \A i \in NodeIds :
    LET n == tree.nodes[i]
        p == past[n.parent]
    IN  /\ Fits(n.forward, p) /\ Apply(n.forward, p) = past[i]
        /\ Fits(n.inverse, past[i]) /\ Apply(n.inverse, past[i]) = p

\* The document is, at every step of every walk, exactly the one the current node
\* was recorded with: undo, redo, g- and g+ restore text, whatever the branches.
DocMatchesHistory == doc = past[tree.current]

\* No transaction a walk applies is rejected, so none of undo(), redo(),
\* undo_older(), undo_newer() can return half-way with an error.
WalksNeverFail ==
  /\ tree.current # Root => Fits(Here.inverse, doc)
  /\ \A i \in Children(tree, tree.current) : Fits(tree.nodes[i].forward, doc)

\* The selection an operation hands back lies inside the document it leaves.
CursorInDoc == sel \in Cursors(doc)

\* g- lands on the state just before the current one in time and g+ just after,
\* on whatever branch it is: the states are visited in creation order.
TimeTravelIsChronological ==
  [][walk' = Idle =>
       /\ walk.op = "older" => tree.current = walk.from - 1
       /\ walk.op = "newer" => tree.current = walk.from + 1]_vars

\* The nodes an undo from n to m took back.
TakenBack(n, m) == PathFrom(tree, n) \ PathFrom(tree, m)

\* A redo right after an undo gives back all that was undone, and nothing but the
\* rest of that group, when what was undone is the newest child at every fork.
RedoRestoresUndo ==
  [][walk.op = "redo" /\ walk' = Idle /\ left # Root
     /\ (\A i \in TakenBack(left, walk.from) :
            i = Newest(tree, Children(tree, tree.nodes[i].parent)))
       => /\ left \in PathFrom(tree, tree.current)
          /\ \A i \in TakenBack(tree.current, left) :
               InGroup(tree, i, tree.nodes[left].group)]_vars

\* Seen between operations, the tree is a Timeline: a walk under way still shows
\* the state it started from.
ShownAt == IF walk = Idle THEN tree.current ELSE walk.from
ShownText == IF walk = Idle THEN doc ELSE past[walk.from]

TL == INSTANCE Timeline WITH states <- past, at <- ShownAt, text <- ShownText

\* The undo tree implements the Timeline.
ImplementsTimeline == TL!TLSpec
=============================================================================
