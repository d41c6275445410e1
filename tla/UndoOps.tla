------------------------------ MODULE UndoOps ------------------------------
(***************************************************************************)
(* The undo tree as a data structure (crates/onda-core/src/undo.rs): nodes *)
(* in creation order, each with the index of its parent (0 stands for the  *)
(* root, where nothing is applied), and the operations that do not touch a *)
(* document.                                                               *)
(***************************************************************************)
EXTENDS Integers, Sequences

Root == 0

EmptyTree == [nodes |-> <<>>, current |-> Root,
              group |-> 0, nextGroup |-> 1, nextSeq |-> 1]

\* A mutant: the nodes not on the way are dropped.
PushOnLast(t, forward, inverse, selBefore, selAfter) ==
  LET node == [parent |-> Len(t.nodes), seq |-> t.nextSeq, group |-> t.group,
               forward |-> forward, inverse |-> inverse,
               before |-> selBefore, after |-> selAfter]
  IN  [t EXCEPT !.nodes = Append(@, node),
                !.current = Len(t.nodes) + 1, !.nextSeq = @ + 1]
PushDropsRedo(t, forward, inverse, selBefore, selAfter) ==
  PushOnLast([t EXCEPT !.nodes = SubSeq(@, 1, t.current)],
             forward, inverse, selBefore, selAfter)

\* Record a transaction that was just applied, as a child of the current node.
Push(t, forward, inverse, selBefore, selAfter) ==
  LET node == [parent |-> t.current, seq |-> t.nextSeq, group |-> t.group,
               forward |-> forward, inverse |-> inverse,
               before |-> selBefore, after |-> selAfter]
  IN  [t EXCEPT !.nodes = Append(@, node),
                !.current = Len(t.nodes) + 1,
                !.nextSeq = @ + 1]

BeginGroup(t) ==
  IF t.group = 0
  THEN [t EXCEPT !.group = t.nextGroup, !.nextGroup = @ + 1]
  ELSE t

EndGroup(t) == [t EXCEPT !.group = 0]

Children(t, n) == {i \in DOMAIN t.nodes : t.nodes[i].parent = n}

\* The child redo follows: the one created last.
Newest(t, S) == CHOOSE i \in S : \A j \in S : t.nodes[j].seq <= t.nodes[i].seq

TimeOf(t, n) == IF n = Root THEN 0 ELSE t.nodes[n].seq

\* The nodes before and after n in creation order, over all branches.
OlderNodes(t, n) == {i \in DOMAIN t.nodes : t.nodes[i].seq < TimeOf(t, n)}
NewerNodes(t, n) == {i \in DOMAIN t.nodes : t.nodes[i].seq > TimeOf(t, n)}
PrevInTime(t, n) == Newest(t, OlderNodes(t, n))
NextInTime(t, n) ==
  CHOOSE i \in NewerNodes(t, n) : \A j \in NewerNodes(t, n) : t.nodes[i].seq <= t.nodes[j].seq

\* The nodes from n up to the root, n included.
PathFrom(t, n) ==
  LET path[i \in 0..Len(t.nodes)] ==
        IF i = Root THEN {} ELSE {i} \cup path[t.nodes[i].parent]
  IN  path[n]

\* The lowest common ancestor of n and m, Root if there is none: a parent's
\* index is below its child's, so the lowest is the one with the largest index.
Meet(t, n, m) ==
  LET common == PathFrom(t, n) \cap PathFrom(t, m)
  IN  IF common = {} THEN Root ELSE CHOOSE i \in common : \A j \in common : j <= i

\* Is the node n part of the group g?  0 is no group.
InGroup(t, n, g) == g # 0 /\ n # Root /\ t.nodes[n].group = g
=============================================================================
