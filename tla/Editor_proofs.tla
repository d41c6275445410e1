--------------------------- MODULE Editor_proofs ---------------------------
(***************************************************************************)
(* Documents, windows and their undo trees: what Editor says of them, for  *)
(* any files, any characters typed and any number of edits and windows.    *)
(***************************************************************************)
EXTENDS Editor, Core_proofs

\* The characters there are, and the texts of them.
Chars == Ink \cup UNION {{file[i] : i \in 1..Len(file)} : file \in Files}
Texts == Seq(Chars)

-----------------------------------------------------------------------------
\* Document::apply of a changeset for the text: it goes well, and so does the inverse it
\* hands out, which gives the text back.
LEMMA DocumentApplies ==
  ASSUME NEW S, NEW q \in Seq(S), NEW cs \in ChangesOf(S), Fitting(cs, q)
  PROVE  LET e == DocApply(cs, q)
         IN  /\ e.status = "ok" /\ e.rope \in Seq(S) /\ e.inverse \in ChangesOf(S)
             /\ DocApply(e.inverse, e.rope).status = "ok"
             /\ DocApply(e.inverse, e.rope).rope = q
<1> DEFINE d == ApplyChanges(cs, q)  v == Invert(cs, q)
<1>1. /\ AllInverted(cs.ops, q, cs.after).status = "ok"
      /\ d.status = "ok" /\ d.rope \in Seq(S)
      /\ v \in ChangesOf(S) /\ Fitting(v, d.rope)
      /\ ApplyChanges(v, d.rope).status = "ok" /\ ApplyChanges(v, d.rope).rope = q
  BY EditsAreUndone
<1> HIDE DEF d, v
<1>2. AllInverted(v.ops, d.rope, v.after).status = "ok"
  BY <1>1, EditsAreUndone
<1>3. DocApply(cs, q) = [status |-> "ok", rope |-> d.rope, inverse |-> v]
  BY <1>1 DEF DocApply, d, v
<1>4. DocApply(v, d.rope).status = "ok" /\ DocApply(v, d.rope).rope = q
  BY <1>1, <1>2 DEF DocApply
<1> QED
  BY <1>1, <1>3, <1>4

\* Applied to any text, a changeset leaves a text and hands out a changeset.
LEMMA DocumentStaysText ==
  ASSUME NEW S, NEW q \in Seq(S), NEW cs \in ChangesOf(S)
  PROVE  /\ ApplyChanges(cs, q).rope \in Seq(S)
         /\ DocApply(cs, q).rope \in Seq(S)
<1>1. cs.ops \in Seq(Operations(S)) /\ Retain(0) \in Operations(S)
  BY OperationsMade DEF ChangesOf
<1>2. AllApplied(cs.ops, q) \in States(S)
  BY <1>1, AppliedOn
<1>3. ApplyChanges(cs, q).rope \in Seq(S)
  BY <1>2 DEF ApplyChanges, States
<1> QED
  BY <1>3 DEF DocApply

\* A builder call with an operation made for it.
LEMMA CallsAre ==
  ASSUME NEW S, NEW cs \in ChangesOf(S), NEW n \in Nat, NEW s \in Seq(S)
  PROVE  /\ PushOnto(cs, Retain(n)) = PushRetain(cs, n)
         /\ PushOnto(cs, Delete(n)) = PushDelete(cs, n)
         /\ PushOnto(cs, Insert(s)) = PushInsert(cs, s)
<1>1. PushOnto(cs, Retain(n)) = PushRetain(cs, n)
  BY DEF PushOnto, Retain
<1>2. PushOnto(cs, Delete(n)) = PushDelete(cs, n)
  BY DEF PushOnto, Delete
<1>3. PushOnto(cs, Insert(s)) = PushInsert(cs, s)
  BY DEF PushOnto, Insert
<1> QED
  BY <1>1, <1>2, <1>3

\* A range of a text that lies in it can be replaced: the splice is a changeset for it
\* (insert_mode.rs, operators.rs).
LEMMA SpliceFits ==
  ASSUME NEW S, NEW q \in Seq(S), NEW from \in Nat, NEW n \in Nat, from + n <= Len(q),
         NEW s \in Seq(S)
  PROVE  /\ Splice(Len(q), from, n, s) \in ChangesOf(S)
         /\ Fitting(Splice(Len(q), from, n, s), q)
<1> DEFINE len == Len(q)  m == len - from - n
           O == Operations(S)
           c1 == Append(<<>>, Retain(from))  c2 == Append(c1, Delete(n))
           c3 == Append(c2, Insert(s))  c4 == Append(c3, Retain(m))
           e1 == PushRetain(Identity(len), from)  e2 == PushDelete(e1, n)
           e3 == PushInsert(e2, s)  e4 == PushRetain(e3, m)
<1>1. len \in Nat /\ m \in Nat /\ from + n + m = len
  BY LenProperties
<1>2. Retain(from) \in O /\ Delete(n) \in O /\ Insert(s) \in O /\ Retain(m) \in O
  BY <1>1, OperationsMade
<1>3. <<>> \in Seq(O) /\ c1 \in Seq(O) /\ c2 \in Seq(O) /\ c3 \in Seq(O) /\ c4 \in Seq(O)
  BY <1>2, EmptySeq, AppendProperties
<1> DEFINE r == Retain(from)  d == Delete(n)  i == Insert(s)  t == Retain(m)
<1>4. Covered(r) = from /\ Covered(d) = n /\ Covered(i) = 0 /\ Covered(t) = m
  BY DEF Covered, Retain, Delete, Insert
<1>5. AllPushed(len, c4) = e4
  <2>1. Identity(len) \in ChangesOf(S)
    BY <1>1 DEF ChangesOf, Identity, Operations
  <2>2. AllPushed(len, <<>>) = Identity(len)
    BY <1>1, <1>2, <1>3, PushedOn
  <2>3. AllPushed(len, c1) = PushOnto(AllPushed(len, <<>>), r)
    BY <1>1, <1>2, <1>3, PushedOn
  <2>4. AllPushed(len, c2) = PushOnto(AllPushed(len, c1), d) /\ AllPushed(len, c1) \in ChangesOf(S)
    <3> HIDE DEF c1
    <3> QED
      BY <1>1, <1>2, <1>3, PushedOn
  <2>5. AllPushed(len, c3) = PushOnto(AllPushed(len, c2), i) /\ AllPushed(len, c2) \in ChangesOf(S)
    <3> HIDE DEF c2
    <3> QED
      BY <1>1, <1>2, <1>3, PushedOn
  <2>6. AllPushed(len, c4) = PushOnto(AllPushed(len, c3), t) /\ AllPushed(len, c3) \in ChangesOf(S)
    <3> HIDE DEF c3
    <3> QED
      BY <1>1, <1>2, <1>3, PushedOn
  <2> HIDE DEF c1, c2, c3, c4
  <2>7. AllPushed(len, c1) = e1
    BY <2>1, <2>2, <2>3, CallsAre
  <2>8. AllPushed(len, c2) = e2
    BY <2>4, <2>7, CallsAre
  <2>9. AllPushed(len, c3) = e3
    BY <2>5, <2>8, CallsAre
  <2> QED
    BY <1>1, <2>6, <2>9, CallsAre
<1>6. Extent(c4) <= len
  <2>1. Extent(<<>>) = 0 /\ Extent(c1) = Extent(<<>>) + Covered(r)
    BY <1>2, <1>3, ExtentOn
  <2>2. Extent(c2) = Extent(c1) + Covered(d)
    <3> HIDE DEF c1
    <3> QED
      BY <1>2, <1>3, ExtentOn
  <2>3. Extent(c3) = Extent(c2) + Covered(i)
    <3> HIDE DEF c2
    <3> QED
      BY <1>2, <1>3, ExtentOn
  <2>4. Extent(c4) = Extent(c3) + Covered(t)
    <3> HIDE DEF c3
    <3> QED
      BY <1>2, <1>3, ExtentOn
  <2> HIDE DEF c1, c2, c3, c4, r, d, i, t
  <2> QED
    BY <1>1, <1>4, <2>1, <2>2, <2>3, <2>4
<1>7. Splice(len, from, n, s) = Built(len, c4)
  BY <1>5 DEF Splice, Built
<1> HIDE DEF c4, len
<1>8. Built(len, c4) \in ChangesOf(S) /\ Fitting(Built(len, c4), q)
  BY <1>1, <1>3, <1>6, BuiltFits DEF len
<1> QED
  BY <1>7, <1>8 DEF len

\* A cursor is mapped to a position (ChangeSet::map_pos).
LEMMA MappedIsPosition ==
  ASSUME NEW S, NEW cs \in ChangesOf(S), NEW pos \in Nat
  PROVE  MapPos(cs, pos, "after") \in Nat
<1> DEFINE M(ops) == AllMapped(ops, pos, "after")
           P == {ops \in Seq(Operations(S)) :
                   /\ M(ops).orig \in Nat /\ M(ops).orig <= pos /\ M(ops).new \in Nat
                   /\ M(ops).res \in Nat \cup {-1}}
<1>1. <<>> \in P
  <2>1. Retain(0) \in Operations(S) /\ <<>> \in Seq(Operations(S))
    BY OperationsMade, EmptySeq
  <2>2. AllMapped(<<>>, pos, "after") = Unmapped
    <3>1. pos \in Int
      OBVIOUS
    <3> QED
      BY <2>1, <3>1, MappedOn
  <2> QED
    BY <2>1, <2>2 DEF Unmapped
<1>2. ASSUME NEW ops \in Seq(Operations(S)), NEW o \in Operations(S), ops \in P
      PROVE  Append(ops, o) \in P
  <2>1. M(Append(ops, o)) = MapOp(pos, "after", M(ops), o) /\ M(ops) \in Positions
    BY MappedOn
  <2>2. o.n \in Nat /\ o.op \in {"retain", "insert", "delete"} /\ Append(ops, o) \in Seq(Operations(S))
    BY OperationIs, AppendProperties
  <2> DEFINE acc == M(ops)  e == MapOp(pos, "after", acc, o)
  <2>3. /\ acc.orig \in Nat /\ acc.orig <= pos /\ acc.new \in Nat /\ acc.res \in Nat \cup {-1}
        /\ acc \in [orig : Int, new : Int, res : Int]
    BY <1>2, <2>1 DEF Positions
  <2> HIDE DEF acc
  <2>4. /\ e.orig \in Nat /\ e.orig <= pos /\ e.new \in Nat /\ e.res \in Nat \cup {-1}
    <3>1. CASE acc.res >= 0
      BY <2>3, <3>1 DEF MapOp
    <3>2. CASE ~(acc.res >= 0) /\ o.op = "retain"
      <4>1. CASE acc.orig + o.n > pos
        <5>1. e = [acc EXCEPT !.res = acc.new + (pos - acc.orig)]
          BY <3>2, <4>1 DEF MapOp
        <5> QED
          BY <2>3, <5>1
      <4>2. CASE ~(acc.orig + o.n > pos)
        <5>1. e = [acc EXCEPT !.orig = @ + o.n, !.new = @ + o.n]
          BY <3>2, <4>2 DEF MapOp
        <5>2. e.orig = acc.orig + o.n /\ e.new = acc.new + o.n /\ e.res = acc.res
          BY <2>3, <5>1
        <5> HIDE DEF e
        <5> QED
          BY <2>2, <2>3, <4>2, <5>2
      <4> QED
        BY <4>1, <4>2
    <3>3. CASE ~(acc.res >= 0) /\ o.op = "insert"
      <4>1. e = [acc EXCEPT !.new = @ + o.n]
        BY <3>3 DEF MapOp
      <4> QED
        BY <2>2, <2>3, <4>1
    <3>4. CASE ~(acc.res >= 0) /\ o.op = "delete"
      <4>1. CASE acc.orig + o.n > pos
        <5>1. e = [acc EXCEPT !.res = acc.new]
          BY <3>4, <4>1 DEF MapOp
        <5> QED
          BY <2>3, <5>1
      <4>2. CASE ~(acc.orig + o.n > pos)
        <5>1. e = [acc EXCEPT !.orig = @ + o.n]
          BY <3>4, <4>2 DEF MapOp
        <5> QED
          BY <2>2, <2>3, <4>2, <5>1
      <4> QED
        BY <4>1, <4>2
    <3> QED
      BY <2>2, <3>1, <3>2, <3>3, <3>4
  <2> QED
    BY <2>1, <2>2, <2>4 DEF acc
<1> HIDE DEF P
<1>3. Seq(Operations(S)) \subseteq P
  BY <1>1, <1>2, ByAppending
<1>4. cs.ops \in P
  BY <1>3 DEF ChangesOf
<1> DEFINE end == AllMapped(cs.ops, pos, "after")
<1>5. end.orig \in Nat /\ end.orig <= pos /\ end.new \in Nat /\ end.res \in Nat \cup {-1}
  BY <1>4 DEF P
<1>6. MapPos(cs, pos, "after") = IF end.res >= 0 THEN end.res ELSE end.new + SatSub(pos, end.orig)
  BY DEF MapPos
<1> HIDE DEF end
<1> QED
  BY <1>5, <1>6 DEF SatSub

-----------------------------------------------------------------------------
\* The undo trees of texts.
TextNode == [parent : Nat, seq : Nat, group : Nat,
             forward : ChangesOf(Chars), inverse : ChangesOf(Chars), before : Nat, after : Nat]
TextTree == [nodes : Seq(TextNode), current : Nat, group : Nat, nextGroup : Nat, nextSeq : Nat]

\* Applied to q, cs gives r.
Leads(cs, q, r) == DocApply(cs, q).status = "ok" /\ DocApply(cs, q).rope = r

\* Every node leads from its parent's text to its own, and back.
Replays(t, seen) ==
  \A i \in Nodes(t) :
    LET n == t.nodes[i]
    IN  /\ Leads(n.forward, seen[n.parent + 1], seen[i + 1])
        /\ Leads(n.inverse, seen[i + 1], seen[n.parent + 1])

\* A tree and the texts it was built on; foreign, if a text was changed behind it.
History(t, seen, foreign) ==
  /\ t \in TextTree /\ Ordered(t)
  /\ t.current \in 0..Len(t.nodes) /\ t.nextSeq = Len(t.nodes) + 1
  /\ seen \in Seq(Texts) /\ Len(seen) = Len(t.nodes) + 1
  /\ ~foreign => Replays(t, seen)

\* The walks through it: those of a tree that is not foreign never fail, and show the
\* text of the node they are at.
Outcomes == {"ok", "panic", "out of bounds", "length mismatch"}
WalksOf(t, seen, foreign) ==
  {w \in [at : 0..Len(t.nodes), text : Texts, sel : Nat, status : Outcomes] :
     ~foreign => w.status = "ok" /\ w.text = seen[w.at + 1]}

\* How the document takes a changeset.
LEMMA OutcomeIsOne ==
  ASSUME NEW S, NEW q \in Seq(S), NEW cs \in ChangesOf(S)
  PROVE  DocApply(cs, q).status \in Outcomes
<1>1. cs.ops \in Seq(Operations(S)) /\ Retain(0) \in Operations(S)
  BY OperationsMade DEF ChangesOf
<1>2. AllApplied(cs.ops, q) \in States(S)
  BY <1>1, AppliedOn
<1>3. ApplyChanges(cs, q).status \in Outcomes
  BY <1>2 DEF ApplyChanges, States, Outcomes
<1> QED
  BY <1>3 DEF DocApply, Outcomes

\* A replayed transaction keeps a walk one of its tree's.
LEMMA ReplayKeeps ==
  ASSUME NEW t, NEW seen, NEW foreign, NEW w \in WalksOf(t, seen, foreign),
         NEW cs \in ChangesOf(Chars), NEW node \in 0..Len(t.nodes), NEW s \in Nat,
         ~foreign => Leads(cs, w.text, seen[node + 1])
  PROVE  /\ Replay(w, cs, node, s) \in WalksOf(t, seen, foreign)
         /\ Replay(w, cs, node, s).status = "ok" => Replay(w, cs, node, s).at = node
<1> DEFINE d == DocApply(cs, w.text)  e == Replay(w, cs, node, s)
           R == [at : 0..Len(t.nodes), text : Texts, sel : Nat, status : Outcomes]
<1>1. w \in R /\ w.text \in Texts
  BY DEF WalksOf
<1>2. d.rope \in Texts /\ d.status \in Outcomes
  BY <1>1, DocumentStaysText, OutcomeIsOne DEF Texts
<1>3. ~foreign => d.status = "ok" /\ d.rope = seen[node + 1]
  BY DEF Leads
<1>4. e = IF d.status = "ok" THEN [w EXCEPT !.text = d.rope, !.at = node, !.sel = s]
          ELSE [w EXCEPT !.text = d.rope, !.status = d.status]
  BY DEF Replay
<1> HIDE DEF d, e
<1>5. CASE d.status = "ok"
  <2>1. e \in R /\ e.text = d.rope /\ e.at = node /\ e.status = w.status
    BY <1>1, <1>2, <1>4, <1>5
  <2>2. ~foreign => w.status = "ok"
    BY DEF WalksOf
  <2> QED
    BY <1>3, <2>1, <2>2 DEF WalksOf, e
<1>6. CASE d.status # "ok"
  <2>1. e \in R /\ e.status = d.status
    BY <1>1, <1>2, <1>4, <1>6
  <2> QED
    BY <1>3, <1>6, <2>1 DEF WalksOf, e
<1> QED
  BY <1>5, <1>6

\* What a history says of a node.
LEMMA NodeIs ==
  ASSUME NEW t, NEW seen, NEW foreign, History(t, seen, foreign), NEW i \in Nodes(t)
  PROVE  /\ t.nodes[i] \in TextNode /\ t.nodes[i].parent \in 0..(i - 1)
         /\ t.nodes[i].parent \in 0..Len(t.nodes) /\ i \in 0..Len(t.nodes)
         /\ t.nodes[i].forward \in ChangesOf(Chars) /\ t.nodes[i].inverse \in ChangesOf(Chars)
         /\ t.nodes[i].before \in Nat /\ t.nodes[i].after \in Nat
<1>1. t.nodes \in Seq(TextNode) /\ Len(t.nodes) \in Nat /\ i \in 1..Len(t.nodes)
  BY DEF History, TextTree, Ordered, Nodes
<1>2. t.nodes[i] \in TextNode
  BY <1>1, ElementOfSeq
<1>3. t.nodes[i].parent \in 0..(i - 1)
  BY DEF History, Ordered
<1>4. t.nodes[i].parent \in 0..Len(t.nodes) /\ i \in 0..Len(t.nodes)
  BY <1>1, <1>3
<1>5. /\ t.nodes[i].forward \in ChangesOf(Chars) /\ t.nodes[i].inverse \in ChangesOf(Chars)
      /\ t.nodes[i].before \in Nat /\ t.nodes[i].after \in Nat
  BY <1>2 DEF TextNode
<1> QED
  BY <1>2, <1>3, <1>4, <1>5

\* One step up ...
LEMMA UpKeeps ==
  ASSUME NEW t, NEW seen, NEW foreign, History(t, seen, foreign),
         NEW w \in WalksOf(t, seen, foreign), w.at # Root
  PROVE  /\ Up(t, w) \in WalksOf(t, seen, foreign)
         /\ Up(t, w).status = "ok" => Up(t, w).at = t.nodes[w.at].parent
<1> DEFINE n == t.nodes[w.at]
<1>1. w.at \in Nodes(t)
  BY DEF WalksOf, Nodes, Root, History, Ordered
<1>2. n.parent \in 0..Len(t.nodes) /\ n.inverse \in ChangesOf(Chars) /\ n.before \in Nat
  BY <1>1, NodeIs
<1>3. ~foreign => Leads(n.inverse, w.text, seen[n.parent + 1])
  BY <1>1 DEF History, Replays, WalksOf
<1>4. Up(t, w) = Replay(w, n.inverse, n.parent, n.before)
  BY DEF Up
<1> HIDE DEF n
<1>5. /\ Replay(w, n.inverse, n.parent, n.before) \in WalksOf(t, seen, foreign)
      /\ Replay(w, n.inverse, n.parent, n.before).status = "ok" =>
           Replay(w, n.inverse, n.parent, n.before).at = n.parent
  BY <1>2, <1>3, ReplayKeeps
<1> QED
  BY <1>4, <1>5 DEF n

\* ... and one down.
LEMMA DownKeeps ==
  ASSUME NEW t, NEW seen, NEW foreign, History(t, seen, foreign),
         NEW w \in WalksOf(t, seen, foreign), NEW i \in Children(t, w.at)
  PROVE  /\ Down(t, w, i) \in WalksOf(t, seen, foreign)
         /\ Down(t, w, i).status = "ok" => Down(t, w, i).at = i
<1> DEFINE n == t.nodes[i]
<1>1. i \in Nodes(t) /\ n.parent = w.at
  BY DEF Children, History, Ordered
<1>2. i \in 0..Len(t.nodes) /\ n.forward \in ChangesOf(Chars) /\ n.after \in Nat
  BY <1>1, NodeIs
<1>3. ~foreign => Leads(n.forward, w.text, seen[i + 1])
  BY <1>1 DEF History, Replays, WalksOf
<1>4. Down(t, w, i) = Replay(w, n.forward, i, n.after)
  BY DEF Down
<1> HIDE DEF n
<1>5. /\ Replay(w, n.forward, i, n.after) \in WalksOf(t, seen, foreign)
      /\ Replay(w, n.forward, i, n.after).status = "ok" =>
           Replay(w, n.forward, i, n.after).at = i
  BY <1>2, <1>3, ReplayKeeps
<1> QED
  BY <1>4, <1>5

\* The steps of a walk, one after the other: the recursive function of Walked exists.
LEMMA WalkedIs ==
  ASSUME NEW t, Len(t.nodes) \in Nat, NEW w, NEW way
  PROVE  \E f : /\ f[0] = w /\ \A k \in 1..Len(t.nodes) : f[k] = Onward(t, f[k - 1], way)
                /\ Walked(t, w, way) = f[Len(t.nodes)]
<1> DEFINE len == Len(t.nodes)
           step(f, k) == IF k = 0 THEN w ELSE Onward(t, f[k - 1], way)
           Steps(f, m) == DOMAIN f = 0..m /\ \A k \in 0..m : f[k] = step(f, k)
           after == CHOOSE f : f = [k \in 0..len |-> step(f, k)]
           S == {m \in Nat : \E f : f = [k \in 0..m |-> f[k]] /\ Steps(f, m)}
<1>1. 0 \in S
  <2> DEFINE f == [k \in 0..0 |-> w]
  <2>1. f = [k \in 0..0 |-> f[k]] /\ Steps(f, 0)
    OBVIOUS
  <2> QED
    BY <2>1
<1>2. ASSUME NEW m \in Nat, m \in S PROVE m + 1 \in S
  <2>1. PICK f : f = [k \in 0..m |-> f[k]] /\ Steps(f, m)
    BY <1>2
  <2> DEFINE g == [k \in 0..(m + 1) |-> IF k = m + 1 THEN Onward(t, f[m], way) ELSE f[k]]
  <2>2. ASSUME NEW k \in 0..(m + 1) PROVE g[k] = step(g, k)
    <3>1. CASE k = m + 1
      <4>1. g[k] = Onward(t, f[m], way) /\ k # 0 /\ k - 1 = m /\ m \in 0..(m + 1) /\ m # m + 1
        BY <3>1
      <4>2. g[m] = f[m]
        BY <4>1
      <4> QED
        BY <4>1, <4>2
    <3>2. CASE k = 0
      BY <2>1, <3>2
    <3>3. CASE k \in 1..m
      <4>1. k \in 0..m /\ k # 0 /\ k # m + 1 /\ k - 1 \in 0..(m + 1) /\ k - 1 # m + 1
        BY <3>3
      <4>2. g[k] = f[k] /\ g[k - 1] = f[k - 1]
        BY <4>1
      <4>3. f[k] = Onward(t, f[k - 1], way)
        BY <2>1, <4>1
      <4> QED
        BY <4>1, <4>2, <4>3
    <3> QED
      BY <3>1, <3>2, <3>3
  <2>3. g = [k \in 0..(m + 1) |-> g[k]] /\ DOMAIN g = 0..(m + 1)
    OBVIOUS
  <2> HIDE DEF g, step
  <2> QED
    BY <2>2, <2>3
<1> HIDE DEF S
<1>3. len \in S
  BY <1>1, <1>2, SetInduction
<1>4. PICK f : f = [k \in 0..len |-> f[k]] /\ Steps(f, len)
  BY <1>3 DEF S
<1>5. f = [k \in 0..len |-> step(f, k)]
  <2> HIDE DEF step
  <2> QED
    BY <1>4
<1>6. after = [k \in 0..len |-> step(after, k)]
  <2> HIDE DEF step
  <2> QED
    BY <1>5
<1>7. Walked(t, w, way) = after[len]
  BY DEF Walked
<1> HIDE DEF after
<1>8. \A k \in 0..len : after[k] = step(after, k)
  <2> HIDE DEF step
  <2> QED
    BY <1>6
<1>9. after[0] = w
  BY <1>8
<1>10. ASSUME NEW k \in 1..len PROVE after[k] = Onward(t, after[k - 1], way)
  <2>1. k \in 0..len /\ k # 0
    OBVIOUS
  <2> QED
    BY <1>8, <2>1
<1> QED
  BY <1>7, <1>9, <1>10

\* What each step of a walk keeps, the walk keeps.
LEMMA WalkedKeeps ==
  ASSUME NEW t, Len(t.nodes) \in Nat, NEW way, NEW T, NEW w \in T,
         \A x \in T : Onward(t, x, way) \in T
  PROVE  Walked(t, w, way) \in T
<1>1. PICK f : /\ f[0] = w /\ \A k \in 1..Len(t.nodes) : f[k] = Onward(t, f[k - 1], way)
               /\ Walked(t, w, way) = f[Len(t.nodes)]
  BY WalkedIs
<1> DEFINE S == {k \in Nat : f[k] \in T}
<1>2. 0 \in S
  BY <1>1
<1>3. \A k \in 1..Len(t.nodes) : k - 1 \in S => k \in S
  BY <1>1
<1> HIDE DEF S
<1>4. \A k \in 0..Len(t.nodes) : k \in S
  BY <1>2, <1>3, UpTo
<1> QED
  BY <1>1, <1>4 DEF S

\* The walks of undo and redo keep to their tree ...
LEMMA UndoWalkKeeps ==
  ASSUME NEW t, NEW seen, NEW foreign, History(t, seen, foreign),
         NEW w \in WalksOf(t, seen, foreign), w.at # Root
  PROVE  UndoWalk(t, w) \in WalksOf(t, seen, foreign)
<1> DEFINE way == [by |-> "undo", to |-> t.nodes[w.at].group]
<1>1. Up(t, w) \in WalksOf(t, seen, foreign) /\ Len(t.nodes) \in Nat
  BY UpKeeps DEF History, Ordered
<1>2. UndoWalk(t, w) = Walked(t, Up(t, w), way) /\ way.by = "undo"
  BY DEF UndoWalk
<1> HIDE DEF way
<1>3. ASSUME NEW x \in WalksOf(t, seen, foreign)
      PROVE  Onward(t, x, way) \in WalksOf(t, seen, foreign)
  <2>1. CASE x.status # "ok" \/ ~WalksOn(t, x.at, way)
    BY <2>1 DEF Onward
  <2>2. CASE ~(x.status # "ok" \/ ~WalksOn(t, x.at, way))
    <3>1. x.at # Root
      BY <1>2, <2>2 DEF WalksOn, InGroup
    <3>2. Onward(t, x, way) = Up(t, x)
      BY <1>2, <2>2 DEF Onward
    <3> QED
      BY <3>1, <3>2, UpKeeps
  <2> QED
    BY <2>1, <2>2
<1> QED
  BY <1>1, <1>2, <1>3, WalkedKeeps

\* The newest child of a node that has one is a child of it.
LEMMA NewestOfChildren ==
  ASSUME NEW t, Ordered(t), NEW n, Children(t, n) # {}
  PROVE  Newest(t, Children(t, n)) \in Children(t, n)
<1>1. Children(t, n) \in SUBSET Nodes(t)
  BY DEF Children, Ordered
<1> QED
  BY <1>1, NewestIsIn

\* ... and so does that of redo ...
LEMMA RedoWalkKeeps ==
  ASSUME NEW t, NEW seen, NEW foreign, History(t, seen, foreign),
         NEW w \in WalksOf(t, seen, foreign), Children(t, w.at) # {}
  PROVE  RedoWalk(t, w) \in WalksOf(t, seen, foreign)
<1> DEFINE i == Newest(t, Children(t, w.at))
           way == [by |-> "redo", to |-> t.nodes[i].group]
<1>1. Ordered(t) /\ Len(t.nodes) \in Nat
  BY DEF History, Ordered
<1>2. i \in Children(t, w.at)
  BY <1>1, NewestOfChildren
<1>3. RedoWalk(t, w) = Walked(t, Down(t, w, i), way) /\ way.by = "redo"
  BY DEF RedoWalk
<1> HIDE DEF way, i
<1>4. Down(t, w, i) \in WalksOf(t, seen, foreign)
  BY <1>2, DownKeeps
<1>5. ASSUME NEW x \in WalksOf(t, seen, foreign)
      PROVE  Onward(t, x, way) \in WalksOf(t, seen, foreign)
  <2>1. CASE x.status # "ok" \/ ~WalksOn(t, x.at, way)
    BY <2>1 DEF Onward
  <2>2. CASE ~(x.status # "ok" \/ ~WalksOn(t, x.at, way))
    <3>1. Children(t, x.at) # {}
      BY <1>3, <2>2 DEF WalksOn
    <3>2. Onward(t, x, way) = Down(t, x, Newest(t, Children(t, x.at)))
      BY <1>3, <2>2 DEF Onward, NextDown
    <3>3. Newest(t, Children(t, x.at)) \in Children(t, x.at)
      BY <1>1, <3>1, NewestOfChildren
    <3> QED
      BY <3>2, <3>3, DownKeeps
  <2> QED
    BY <2>1, <2>2
<1> QED
  BY <1>1, <1>3, <1>4, <1>5, WalkedKeeps

\* A walk on its way up, after k steps: it has arrived, or climbed k nodes.
Climbing(t, seen, foreign, m, k) ==
  {w \in WalksOf(t, seen, foreign) :
     w.status = "ok" => w.at \in {m, Root} \/ w.at <= Len(t.nodes) - k}

\* ... that of g- and g+ on its way up, which ends where the paths meet ...
LEMMA ClimbArrives ==
  ASSUME NEW t, NEW seen, NEW foreign, History(t, seen, foreign),
         NEW w \in WalksOf(t, seen, foreign), NEW m
  PROVE  LET e == Walked(t, w, [by |-> "climb", to |-> m])
         IN  e \in WalksOf(t, seen, foreign) /\ (e.status = "ok" => e.at \in {m, Root})
<1> DEFINE way == [by |-> "climb", to |-> m]  len == Len(t.nodes)
           e == Walked(t, w, way)
<1>1. Ordered(t) /\ len \in Nat
  BY DEF History, Ordered
<1>2. PICK f : /\ f[0] = w /\ \A k \in 1..len : f[k] = Onward(t, f[k - 1], way)
               /\ e = f[len]
  <2> HIDE DEF way
  <2> QED
    BY <1>1, WalkedIs
<1>3. way.by = "climb" /\ way.to = m
  OBVIOUS
<1> HIDE DEF way, len, e
<1> DEFINE S == {k \in Nat : f[k] \in Climbing(t, seen, foreign, m, k)}
<1>4. 0 \in S
  <2>1. w.at \in 0..len
    BY DEF WalksOf, len
  <2> QED
    BY <1>1, <1>2, <2>1 DEF Climbing, len
<1>5. ASSUME NEW k \in 1..len, k - 1 \in S PROVE k \in S
  <2> DEFINE x == f[k - 1]
  <2>1. x \in WalksOf(t, seen, foreign) /\ f[k] = Onward(t, x, way) /\ k \in Nat
    BY <1>2, <1>5 DEF Climbing
  <2>2. x.status = "ok" => x.at \in {m, Root} \/ x.at <= len - (k - 1)
    BY <1>5 DEF Climbing, len
  <2> HIDE DEF x
  <2>3. CASE x.status # "ok" \/ ~WalksOn(t, x.at, way)
    <3>1. f[k] = x
      BY <2>1, <2>3 DEF Onward
    <3>2. x.status = "ok" => x.at \in {m, Root}
      BY <1>3, <2>3 DEF WalksOn
    <3> QED
      BY <2>1, <3>1, <3>2 DEF Climbing
  <2>4. CASE ~(x.status # "ok" \/ ~WalksOn(t, x.at, way))
    <3>1. x.at \notin {m, Root} /\ x.status = "ok"
      BY <1>3, <2>4 DEF WalksOn
    <3>2. f[k] = Up(t, x)
      BY <1>3, <2>1, <2>4 DEF Onward
    <3>3. Up(t, x) \in WalksOf(t, seen, foreign)
          /\ (Up(t, x).status = "ok" => Up(t, x).at = t.nodes[x.at].parent)
      BY <2>1, <3>1, UpKeeps
    <3>4. t.nodes[x.at].parent <= len - k
      <4>1. x.at \in Nodes(t) /\ x.at \in Nat
        BY <1>1, <2>1, <3>1 DEF WalksOf, Nodes, Root, len
      <4>2. t.nodes[x.at].parent \in 0..(x.at - 1)
        BY <1>1, <4>1 DEF Ordered
      <4> QED
        BY <1>1, <2>2, <3>1, <4>1, <4>2
    <3> QED
      BY <2>1, <3>2, <3>3, <3>4 DEF Climbing, len
  <2> QED
    BY <2>3, <2>4
<1> HIDE DEF S
<1>6. \A k \in 0..len : k \in S
  BY <1>1, <1>4, <1>5, UpTo
<1>7. e \in Climbing(t, seen, foreign, m, len)
  <2>1. len \in 0..len
    BY <1>1
  <2> QED
    BY <1>2, <1>6, <2>1 DEF S
<1>8. e.at \in 0..len
  BY <1>7 DEF Climbing, WalksOf, len
<1> QED
  BY <1>1, <1>7, <1>8 DEF Climbing, len, Root, e, way

\* A walk on its way down to a node: it is on the path to it.
Descending(t, seen, foreign, n) ==
  {w \in WalksOf(t, seen, foreign) : w.status = "ok" => w.at \in PathFrom(t, n) \cup {Root}}

\* ... and on its way down.
LEMMA DescentKeeps ==
  ASSUME NEW t, NEW seen, NEW foreign, History(t, seen, foreign), NEW n \in Nodes(t),
         NEW w \in Descending(t, seen, foreign, n)
  PROVE  Walked(t, w, [by |-> "descend", to |-> n]) \in WalksOf(t, seen, foreign)
<1> DEFINE way == [by |-> "descend", to |-> n]
<1>1. Ordered(t) /\ Len(t.nodes) \in Nat
  BY DEF History, Ordered
<1>2. way.by = "descend" /\ way.to = n
  OBVIOUS
<1> HIDE DEF way
<1>3. ASSUME NEW x \in Descending(t, seen, foreign, n)
      PROVE  Onward(t, x, way) \in Descending(t, seen, foreign, n)
  <2>1. CASE x.status # "ok" \/ ~WalksOn(t, x.at, way)
    BY <2>1 DEF Onward
  <2>2. CASE ~(x.status # "ok" \/ ~WalksOn(t, x.at, way))
    <3> DEFINE C == Children(t, x.at) \cap PathFrom(t, n)  i == NextDown(t, x.at, way)
    <3>1. x \in WalksOf(t, seen, foreign) /\ x.at # n /\ x.at \in PathFrom(t, n) \cup {Root}
      BY <1>2, <2>2 DEF Descending, WalksOn
    <3>2. \E j \in PathFrom(t, n) : j \in Nodes(t) /\ t.nodes[j].parent = x.at
      BY <1>1, <3>1, ChildOnPath
    <3>3. C # {}
      BY <1>1, <3>2 DEF Children, Ordered
    <3>4. i \in C
      BY <1>2, <3>3 DEF NextDown
    <3>5. Onward(t, x, way) = Down(t, x, i)
      BY <1>2, <2>2 DEF Onward
    <3> HIDE DEF i
    <3>6. Down(t, x, i) \in WalksOf(t, seen, foreign)
          /\ (Down(t, x, i).status = "ok" => Down(t, x, i).at = i)
      BY <3>1, <3>4, DownKeeps
    <3> QED
      BY <3>4, <3>5, <3>6 DEF Descending
  <2> QED
    BY <2>1, <2>2
<1>4. Walked(t, w, way) \in Descending(t, seen, foreign, n)
  BY <1>1, <1>3, WalkedKeeps
<1> QED
  BY <1>4 DEF Descending, way

\* A walk to any node keeps to its tree (undo_older, undo_newer, seek).
LEMMA SeekWalkKeeps ==
  ASSUME NEW t, NEW seen, NEW foreign, History(t, seen, foreign),
         NEW w \in WalksOf(t, seen, foreign), NEW n \in Nodes(t)
  PROVE  SeekWalk(t, w, n) \in WalksOf(t, seen, foreign)
<1> DEFINE m == Meet(t, w.at, n)
           up == Walked(t, w, [by |-> "climb", to |-> m])
<1>1. up \in WalksOf(t, seen, foreign) /\ (up.status = "ok" => up.at \in {m, Root})
  BY ClimbArrives
<1>2. w.at \in 0..Len(t.nodes) /\ n \in 0..Len(t.nodes) /\ Ordered(t)
  BY DEF WalksOf, History, Ordered, Nodes
<1>3. m \in {Root} \cup (PathFrom(t, w.at) \cap PathFrom(t, n))
  BY <1>2, MeetIsNode
<1>4. SeekWalk(t, w, n) = Walked(t, up, [by |-> "descend", to |-> n])
  BY DEF SeekWalk
<1> HIDE DEF up, m
<1>5. up \in Descending(t, seen, foreign, n)
  BY <1>1, <1>3 DEF Descending
<1> QED
  BY <1>4, <1>5, DescentKeeps

\* The nodes g- and g+ aim at are nodes.
LEMMA TimeNeighbours ==
  ASSUME NEW t, Ordered(t), NEW n \in 0..Len(t.nodes)
  PROVE  /\ OlderNodes(t, n) # {} => PrevInTime(t, n) \in Nodes(t)
         /\ NewerNodes(t, n) # {} => NextInTime(t, n) \in Nodes(t)
<1> DEFINE N == NewerNodes(t, n)  O == OlderNodes(t, n)
<1>1. Len(t.nodes) \in Nat /\ DOMAIN t.nodes = Nodes(t) /\ \A i \in Nodes(t) : t.nodes[i].seq = i
  BY DEF Ordered
<1>2. O \in SUBSET Nodes(t) /\ N \in SUBSET Nodes(t)
  BY <1>1 DEF OlderNodes, NewerNodes
<1>3. O # {} => PrevInTime(t, n) \in Nodes(t)
  BY <1>2, NewestIsIn DEF PrevInTime
<1>4. ASSUME N # {} PROVE NextInTime(t, n) \in Nodes(t)
  <2>1. N \in SUBSET Nat
    BY <1>1, <1>2 DEF Nodes
  <2>2. PICK x \in N : \A y \in N : x <= y
    BY <1>4, <2>1, LeastElement
  <2>3. \E i \in N : \A j \in N : t.nodes[i].seq <= t.nodes[j].seq
    BY <1>1, <1>2, <2>2
  <2>4. NextInTime(t, n) \in N
    BY <2>3 DEF NextInTime
  <2> QED
    BY <1>2, <2>4
<1> QED
  BY <1>3, <1>4

-----------------------------------------------------------------------------
\* The windows: their trees, and the text a document shows if none is foreign to it.
Window == [doc : Nat, head : Nat, undo : TextTree, seen : Seq(Texts), foreign : BOOLEAN]

WindowFits(w, ds) ==
  /\ w \in Window /\ w.doc \in 1..Len(ds)
  /\ History(w.undo, w.seen, w.foreign)
  /\ ~w.foreign => ds[w.doc] = w.seen[w.undo.current + 1]

\* The editor goes down with a cursor past the end, or a tree that is not its document's.
Astray == W.head > Len(Text) \/ W.foreign

\* The inductive invariant.
EditorInv ==
  /\ docs \in Seq(Texts)
  /\ windows \in Seq(Window) /\ focus \in 1..Len(windows)
  /\ \A i \in 1..Len(windows) : WindowFits(windows[i], docs)
  /\ status # "running" => Astray

-----------------------------------------------------------------------------
\* A tree with the same nodes, wherever it stands, has the same history.
LEMMA SameHistory ==
  ASSUME NEW t, NEW seen, NEW foreign, History(t, seen, foreign),
         NEW u \in TextTree, u.nodes = t.nodes, u.nextSeq = t.nextSeq,
         u.current \in 0..Len(t.nodes)
  PROVE  History(u, seen, foreign)
BY DEF History, Ordered, Nodes, Replays

\* Groups are begun and ended without a node.
LEMMA GroupsKeep ==
  ASSUME NEW t, NEW seen, NEW foreign, History(t, seen, foreign), NEW opens
  PROVE  /\ History(Grouped(t, opens), seen, foreign)
         /\ History(BeginGroup(t), seen, foreign) /\ History(EndGroup(t), seen, foreign)
         /\ Grouped(t, opens).current = t.current
         /\ BeginGroup(t).current = t.current /\ EndGroup(t).current = t.current
<1>1. t \in TextTree /\ t.current \in 0..Len(t.nodes)
  BY DEF History
<1> DEFINE g == BeginGroup(t)  e == EndGroup(t)
<1>2. g \in TextTree /\ g.nodes = t.nodes /\ g.nextSeq = t.nextSeq /\ g.current = t.current
  <2>1. CASE t.group = 0
    <3>1. g = [t EXCEPT !.group = t.nextGroup, !.nextGroup = @ + 1]
      BY <2>1 DEF BeginGroup
    <3>2. /\ t = [nodes |-> t.nodes, current |-> t.current, group |-> t.group,
                  nextGroup |-> t.nextGroup, nextSeq |-> t.nextSeq]
          /\ t.nodes \in Seq(TextNode) /\ t.current \in Nat /\ t.nextSeq \in Nat
          /\ t.nextGroup \in Nat
      BY <1>1 DEF TextTree
    <3> HIDE DEF g
    <3>3. g = [nodes |-> t.nodes, current |-> t.current, group |-> t.nextGroup,
               nextGroup |-> t.nextGroup + 1, nextSeq |-> t.nextSeq]
      BY <3>1, <3>2
    <3> QED
      BY <3>2, <3>3 DEF TextTree
  <2>2. CASE t.group # 0
    BY <1>1, <2>2 DEF BeginGroup
  <2> QED
    BY <2>1, <2>2
<1>3. e \in TextTree /\ e.nodes = t.nodes /\ e.nextSeq = t.nextSeq /\ e.current = t.current
  BY <1>1 DEF EndGroup, TextTree
<1> HIDE DEF g, e
<1>4. History(g, seen, foreign) /\ History(e, seen, foreign)
  BY <1>1, <1>2, <1>3, SameHistory
<1> QED
  BY <1>2, <1>3, <1>4 DEF Grouped, g, e

\* In a tree that is not foreign, cs leads from q to r and inv back.
JoinedBy(foreign, cs, inv, q, r) == ~foreign => Leads(cs, q, r) /\ Leads(inv, r, q)

\* A tree stands where its document had the text txt.
Stands(t, seen, foreign, txt) == History(t, seen, foreign) /\ seen[t.current + 1] = txt

\* A transaction pushed (UndoTree::push) becomes part of the history.
LEMMA PushKeeps ==
  ASSUME NEW t, NEW seen, NEW foreign, History(t, seen, foreign),
         NEW cs \in ChangesOf(Chars), NEW inv \in ChangesOf(Chars),
         NEW before \in Nat, NEW after \in Nat, NEW txt \in Texts,
         JoinedBy(foreign, cs, inv, seen[t.current + 1], txt)
  PROVE  Stands(Push(t, cs, inv, before, after), Append(seen, txt), foreign, txt)
<1> DEFINE u == Push(t, cs, inv, before, after)  more == Append(seen, txt)
           len == Len(t.nodes)
           node == [parent |-> t.current, seq |-> t.nextSeq, group |-> t.group,
                    forward |-> cs, inverse |-> inv, before |-> before, after |-> after]
<1>1. /\ t \in TextTree /\ Ordered(t) /\ len \in Nat /\ t.nodes \in Seq(TextNode)
      /\ t.current \in 0..len /\ t.nextSeq = len + 1
      /\ seen \in Seq(Texts) /\ Len(seen) = len + 1
  BY DEF History, Ordered, TextTree
<1>2. node \in TextNode
  BY <1>1 DEF TextNode, TextTree
<1>3. u = [t EXCEPT !.nodes = Append(@, node), !.current = len + 1, !.nextSeq = @ + 1]
  BY DEF Push
<1> HIDE DEF u
<1> DEFINE nodes == Append(t.nodes, node)
<1>4. u.nodes = nodes /\ u.current = len + 1 /\ u.nextSeq = len + 2
      /\ u.group = t.group /\ u.nextGroup = t.nextGroup
  BY <1>1, <1>3 DEF TextTree
<1>5. /\ nodes \in Seq(TextNode) /\ Len(nodes) = len + 1 /\ nodes[len + 1] = node
      /\ \A i \in 1..len : nodes[i] = t.nodes[i]
      /\ DOMAIN nodes = 1..(len + 1)
  <2> HIDE DEF node
  <2>1. nodes \in Seq(TextNode) /\ Len(nodes) = len + 1 /\ nodes[len + 1] = node
        /\ \A i \in 1..len : nodes[i] = t.nodes[i]
    BY <1>1, <1>2, AppendProperties
  <2> HIDE DEF nodes
  <2>2. DOMAIN nodes = 1..Len(nodes)
    BY <2>1, LenProperties
  <2> QED
    BY <2>1, <2>2
<1>6. /\ more \in Seq(Texts) /\ Len(more) = len + 2 /\ more[len + 2] = txt
      /\ \A i \in 1..(len + 1) : more[i] = seen[i]
  <2>1. /\ more \in Seq(Texts) /\ Len(more) = Len(seen) + 1 /\ more[Len(seen) + 1] = txt
        /\ \A i \in 1..Len(seen) : more[i] = seen[i]
    BY <1>1, AppendProperties
  <2> QED
    BY <1>1, <2>1
<1>7. node.parent = t.current /\ node.seq = len + 1 /\ node.forward = cs /\ node.inverse = inv
  BY <1>1
<1> HIDE DEF nodes, node, more, len
<1>8. u \in TextTree
  <2>1. u = [t EXCEPT !.nodes = nodes, !.current = len + 1, !.nextSeq = len + 2]
    <3>1. t.nextSeq + 1 = len + 2
      BY <1>1
    <3> QED
      BY <1>3, <3>1 DEF nodes
  <2>2. /\ t = [nodes |-> t.nodes, current |-> t.current, group |-> t.group,
                nextGroup |-> t.nextGroup, nextSeq |-> t.nextSeq]
        /\ t.group \in Nat /\ t.nextGroup \in Nat
    BY <1>1 DEF TextTree
  <2>3. u = [nodes |-> nodes, current |-> len + 1, group |-> t.group,
             nextGroup |-> t.nextGroup, nextSeq |-> len + 2]
    BY <2>1, <2>2
  <2> QED
    BY <1>1, <1>5, <2>2, <2>3 DEF TextTree
<1>9. Ordered(u)
  <2>1. Len(u.nodes) \in Nat /\ DOMAIN u.nodes = Nodes(u) /\ Nodes(u) = 1..(len + 1)
    BY <1>1, <1>4, <1>5 DEF Nodes
  <2>2. ASSUME NEW i \in 1..(len + 1)
        PROVE  nodes[i].seq = i /\ nodes[i].parent \in 0..(i - 1)
    <3>1. CASE i = len + 1
      <4>1. nodes[i] = node /\ i - 1 = len
        BY <1>1, <1>5, <3>1
      <4> QED
        BY <1>1, <1>7, <3>1, <4>1
    <3>2. CASE i \in 1..len
      BY <1>1, <1>5, <3>2 DEF Ordered, Nodes, len
    <3> QED
      BY <1>1, <3>1, <3>2
  <2> QED
    BY <1>4, <2>1, <2>2 DEF Ordered
<1>10. ASSUME ~foreign PROVE Replays(u, more)
  <2>1. Replays(t, seen)
    BY <1>10 DEF History
  <2>2. ASSUME NEW i \in 1..(len + 1)
        PROVE  /\ Leads(nodes[i].forward, more[nodes[i].parent + 1], more[i + 1])
               /\ Leads(nodes[i].inverse, more[i + 1], more[nodes[i].parent + 1])
    <3>1. CASE i = len + 1
      <4>1. nodes[i] = node /\ i + 1 = len + 2 /\ t.current + 1 \in 1..(len + 1)
        BY <1>1, <1>5, <3>1
      <4>2. more[i + 1] = txt /\ more[node.parent + 1] = seen[t.current + 1]
        BY <1>6, <1>7, <4>1
      <4>3. Leads(cs, seen[t.current + 1], txt) /\ Leads(inv, txt, seen[t.current + 1])
        BY <1>10 DEF JoinedBy
      <4> QED
        BY <1>7, <4>1, <4>2, <4>3
    <3>2. CASE i \in 1..len
      <4>1. nodes[i] = t.nodes[i] /\ i \in Nodes(t)
        BY <1>5, <3>2 DEF Nodes, len
      <4>2. PICK p \in 0..(i - 1) : t.nodes[i].parent = p
        BY <1>1, <4>1 DEF Ordered
      <4>3. p + 1 \in 1..(len + 1) /\ i + 1 \in 1..(len + 1)
        BY <1>1, <3>2
      <4>4. more[i + 1] = seen[i + 1] /\ more[nodes[i].parent + 1] = seen[t.nodes[i].parent + 1]
        BY <1>6, <4>1, <4>2, <4>3
      <4> QED
        BY <2>1, <4>1, <4>4 DEF Replays
    <3> QED
      BY <1>1, <3>1, <3>2
  <2>3. Nodes(u) = 1..(len + 1)
    BY <1>4, <1>5 DEF Nodes
  <2> QED
    BY <1>4, <2>2, <2>3 DEF Replays
<1>11. u.current \in 0..Len(u.nodes) /\ u.nextSeq = Len(u.nodes) + 1 /\ Len(more) = Len(u.nodes) + 1
  BY <1>1, <1>4, <1>5, <1>6
<1>12. History(u, more, foreign)
  BY <1>6, <1>8, <1>9, <1>10, <1>11 DEF History
<1>13. u.current + 1 = len + 2
  BY <1>1, <1>4
<1> QED
  BY <1>6, <1>12, <1>13 DEF u, more, Stands

-----------------------------------------------------------------------------
\* A window just opened on a document.
LEMMA FreshFits ==
  ASSUME NEW ds \in Seq(Texts), NEW d \in 1..Len(ds)
  PROVE  WindowFits(NewWindow(d, ds[d]), ds)
<1> DEFINE w == NewWindow(d, ds[d])  t == EmptyTree
<1>1. ds[d] \in Texts /\ d \in Nat
  BY ElementOfSeq
<1>2. t \in TextTree /\ t.nodes = <<>> /\ t.current = 0 /\ t.nextSeq = 1
  BY DEF EmptyTree, TextTree, Root
<1>3. Len(t.nodes) = 0 /\ DOMAIN t.nodes = {} /\ Nodes(t) = {}
  BY <1>2 DEF Nodes
<1>4. <<ds[d]>> \in Seq(Texts) /\ Len(<<ds[d]>>) = 1 /\ <<ds[d]>>[1] = ds[d]
  BY <1>1
<1>5. w = [doc |-> d, head |-> 0, undo |-> t, seen |-> <<ds[d]>>, foreign |-> FALSE]
  BY DEF NewWindow
<1> HIDE DEF t, w
<1>6. /\ w.doc = d /\ w.undo = t /\ w.seen = <<ds[d]>> /\ w.foreign = FALSE
      /\ w \in Window
  BY <1>1, <1>2, <1>4, <1>5 DEF Window
<1>7. History(w.undo, w.seen, w.foreign)
  <2>1. Ordered(t) /\ Replays(t, w.seen)
    BY <1>3 DEF Ordered, Replays
  <2> QED
    BY <1>2, <1>3, <1>4, <1>6, <2>1 DEF History
<1> QED
  BY <1>2, <1>4, <1>6, <1>7 DEF WindowFits, w

\* A window whose document another edit has changed to txt.
LEMMA DisturbedFits ==
  ASSUME NEW w \in Window, History(w.undo, w.seen, w.foreign), NEW txt \in Texts
  PROVE  LET e == Disturbed(w, txt)
         IN  /\ e \in Window /\ e.doc = w.doc /\ e.head = w.head
             /\ History(e.undo, e.seen, e.foreign)
             /\ ~e.foreign => txt = e.seen[e.undo.current + 1]
<1> DEFINE e == Disturbed(w, txt)
<1>1. CASE w.undo.nodes = <<>>
  <2>1. e = [w EXCEPT !.seen = <<txt>>]
    BY <1>1 DEF Disturbed
  <2>2. <<txt>> \in Seq(Texts) /\ Len(<<txt>>) = 1 /\ <<txt>>[1] = txt
    OBVIOUS
  <2> HIDE DEF e
  <2>3. e \in Window /\ e.doc = w.doc /\ e.head = w.head /\ e.undo = w.undo
        /\ e.seen = <<txt>> /\ e.foreign = w.foreign
    BY <2>1, <2>2 DEF Window
  <2>4. Len(w.undo.nodes) = 0 /\ w.undo.current = 0 /\ Nodes(w.undo) = {}
    BY <1>1 DEF History, Nodes
  <2>5. History(w.undo, <<txt>>, w.foreign)
    BY <2>2, <2>4 DEF History, Replays
  <2> QED
    BY <2>2, <2>3, <2>4, <2>5 DEF e
<1>2. CASE w.undo.nodes # <<>>
  <2>1. e = [w EXCEPT !.foreign = TRUE]
    BY <1>2 DEF Disturbed
  <2> HIDE DEF e
  <2>2. e \in Window /\ e.doc = w.doc /\ e.head = w.head /\ e.undo = w.undo
        /\ e.seen = w.seen /\ e.foreign = TRUE
    BY <2>1 DEF Window
  <2> QED
    BY <2>2 DEF History, e
<1> QED
  BY <1>1, <1>2

\* A cursor moved.
LEMMA HeadFits ==
  ASSUME NEW w, NEW ds, WindowFits(w, ds), NEW h \in Nat
  PROVE  WindowFits([w EXCEPT !.head = h], ds)
<1> DEFINE e == [w EXCEPT !.head = h]
<1>1. w \in Window
  BY DEF WindowFits
<1>2. /\ e \in Window /\ e.doc = w.doc /\ e.undo = w.undo
      /\ e.seen = w.seen /\ e.foreign = w.foreign
  BY <1>1 DEF Window
<1> HIDE DEF e
<1>3. WindowFits(e, ds)
  BY <1>2 DEF WindowFits
<1> QED
  BY <1>3 DEF e

\* A group begun or ended in a window.
LEMMA UndoTreeFits ==
  ASSUME NEW w, NEW ds, WindowFits(w, ds), NEW t, History(t, w.seen, w.foreign),
         t.current = w.undo.current
  PROVE  WindowFits([w EXCEPT !.undo = t], ds)
<1> DEFINE e == [w EXCEPT !.undo = t]
<1>1. w \in Window /\ t \in TextTree
  BY DEF WindowFits, History
<1>2. /\ e \in Window /\ e.doc = w.doc /\ e.undo = t
      /\ e.seen = w.seen /\ e.foreign = w.foreign
  BY <1>1 DEF Window
<1> HIDE DEF e
<1>3. WindowFits(e, ds)
  BY <1>2 DEF WindowFits
<1> QED
  BY <1>3 DEF e

\* What the invariant says of the focused window.
LEMMA FocusIs ==
  ASSUME EditorInv
  PROVE  /\ W \in Window /\ WindowFits(W, docs) /\ History(W.undo, W.seen, W.foreign)
         /\ W.doc \in 1..Len(docs) /\ W.head \in Nat /\ Text \in Texts
         /\ Len(docs) \in Nat /\ Len(windows) \in Nat /\ Len(Text) \in Nat
         /\ DOMAIN windows = 1..Len(windows) /\ DOMAIN docs = 1..Len(docs)
<1>1. WindowFits(W, docs) /\ docs \in Seq(Texts) /\ windows \in Seq(Window)
  BY DEF EditorInv, W
<1>2. W \in Window /\ W.doc \in 1..Len(docs) /\ History(W.undo, W.seen, W.foreign)
  BY <1>1 DEF WindowFits
<1>3. W.head \in Nat
  BY <1>2 DEF Window
<1>4. Text \in Texts
  BY <1>1, <1>2, ElementOfSeq DEF Text
<1>5. Len(docs) \in Nat /\ Len(windows) \in Nat /\ Len(Text) \in Nat
  BY <1>1, <1>4, LenProperties DEF Texts
<1> QED
  BY <1>1, <1>2, <1>3, <1>4, <1>5, LenProperties

\* One window changed.
LEMMA OneWindowFits ==
  ASSUME EditorInv, NEW i \in 1..Len(windows), NEW w, WindowFits(w, docs)
  PROVE  LET ws == [windows EXCEPT ![i] = w]
         IN  /\ ws \in Seq(Window) /\ Len(ws) = Len(windows)
             /\ \A j \in 1..Len(ws) : WindowFits(ws[j], docs)
<1> DEFINE ws == [windows EXCEPT ![i] = w]
<1>1. windows \in Seq(Window) /\ w \in Window
  BY DEF EditorInv, WindowFits
<1>2. /\ ws \in Seq(Window) /\ Len(ws) = Len(windows)
      /\ \A j \in 1..Len(windows) : ws[j] = IF j = i THEN w ELSE windows[j]
  BY <1>1, ExceptSeq
<1> HIDE DEF ws
<1>3. \A j \in 1..Len(windows) : WindowFits(ws[j], docs)
  BY <1>2 DEF EditorInv
<1> QED
  BY <1>2, <1>3 DEF ws

\* A document changed through the focused window, and what that does to the others.
LEMMA StoredFits ==
  ASSUME EditorInv, NEW w, NEW d \in 1..Len(docs), NEW txt \in Texts,
         WindowFits(w, [docs EXCEPT ![d] = txt])
  PROVE  LET ds == [docs EXCEPT ![d] = txt]
             ws == WindowsAfter(w, d, txt)
         IN  /\ ds \in Seq(Texts) /\ ws \in Seq(Window) /\ Len(ws) = Len(windows)
             /\ \A i \in 1..Len(ws) : WindowFits(ws[i], ds)
<1> DEFINE ds == [docs EXCEPT ![d] = txt]  ws == WindowsAfter(w, d, txt)
<1>1. /\ docs \in Seq(Texts) /\ windows \in Seq(Window) /\ WindowFits(w, ds)
      /\ Len(windows) \in Nat /\ DOMAIN windows = 1..Len(windows)
  BY FocusIs DEF EditorInv
<1>2. /\ ds \in Seq(Texts) /\ Len(ds) = Len(docs)
      /\ \A j \in 1..Len(docs) : ds[j] = IF j = d THEN txt ELSE docs[j]
  BY <1>1, ExceptSeq
<1>3. ws = [i \in 1..Len(windows) |->
              IF i = focus THEN w
              ELSE IF windows[i].doc = d /\ txt # docs[d] THEN Disturbed(windows[i], txt)
              ELSE windows[i]]
  BY <1>1 DEF WindowsAfter
<1> HIDE DEF ds, ws
<1>4. ASSUME NEW i \in 1..Len(windows) PROVE WindowFits(ws[i], ds)
  <2> DEFINE v == windows[i]
  <2>1. WindowFits(v, docs) /\ v \in Window /\ v.doc \in 1..Len(docs)
        /\ History(v.undo, v.seen, v.foreign)
    BY DEF EditorInv, WindowFits
  <2> HIDE DEF v
  <2>2. CASE i = focus
    BY <1>1, <1>3, <2>2
  <2>3. CASE i # focus /\ v.doc = d /\ txt # docs[d]
    <3> DEFINE e == Disturbed(v, txt)
    <3>1. ws[i] = e
      BY <1>3, <2>3 DEF v
    <3>2. /\ e \in Window /\ e.doc = v.doc
          /\ History(e.undo, e.seen, e.foreign)
          /\ ~e.foreign => txt = e.seen[e.undo.current + 1]
      BY <2>1, DisturbedFits
    <3> HIDE DEF e
    <3>3. ds[e.doc] = txt /\ e.doc \in 1..Len(ds)
      BY <1>2, <2>1, <2>3, <3>2
    <3> QED
      BY <3>1, <3>2, <3>3 DEF WindowFits
  <2>4. CASE i # focus /\ ~(v.doc = d /\ txt # docs[d])
    <3>1. ws[i] = v
      BY <1>3, <2>4 DEF v
    <3>2. ds[v.doc] = docs[v.doc]
      BY <1>2, <2>1, <2>4
    <3> QED
      BY <1>2, <2>1, <3>1, <3>2 DEF WindowFits
  <2> QED
    BY <2>2, <2>3, <2>4
<1>5. \A i \in 1..Len(windows) : ws[i] \in Window
  BY <1>4 DEF WindowFits
<1>6. ws \in [1..Len(windows) -> Window]
  BY <1>3, <1>5
<1>7. ws \in Seq(Window) /\ Len(ws) = Len(windows)
  BY <1>1, <1>6, SeqDef
<1> QED
  BY <1>2, <1>4, <1>7 DEF ds, ws

\* An edit of the focused document is recorded, and never fails, if its changeset was made
\* for the text (apply_and_push).
LEMMA PushEditKeeps ==
  ASSUME EditorInv, Running, NEW cs \in ChangesOf(Chars), Fitting(cs, Text),
         NEW head \in Nat, NEW opens, PushEdit(cs, head, opens)
  PROVE  EditorInv'
<1> DEFINE done == DocApply(cs, Text)  r == done.rope  inv == done.inverse
           pushed == Push(W.undo, cs, inv, W.head, head)
           t == Grouped(pushed, opens)  more == Append(W.seen, r)
           w == [W EXCEPT !.head = head, !.undo = t, !.seen = more]
           ds == [docs EXCEPT ![W.doc] = r]  ws == WindowsAfter(w, W.doc, r)
<1>1. /\ W \in Window /\ WindowFits(W, docs) /\ History(W.undo, W.seen, W.foreign)
      /\ W.doc \in 1..Len(docs) /\ W.head \in Nat /\ Text \in Texts
  BY FocusIs
<1>2. /\ done.status = "ok" /\ r \in Texts /\ inv \in ChangesOf(Chars)
      /\ Leads(cs, Text, r) /\ Leads(inv, r, Text)
  <2>1. Text \in Seq(Chars)
    BY <1>1 DEF Texts
  <2> QED
    BY <2>1, DocumentApplies DEF Leads, Texts
<1>3. docs' = ds /\ windows' = ws /\ focus' = focus /\ status' = "running"
  <2>1. Store(W.doc, r) /\ windows' = ws /\ UNCHANGED <<focus, status>>
    BY <1>2 DEF PushEdit
  <2> QED
    BY <2>1 DEF Store, Running
<1> HIDE DEF done
<1>4. ~W.foreign => W.seen[W.undo.current + 1] = Text
  BY <1>1 DEF WindowFits, Text
<1> HIDE DEF r, inv
<1>12. ~W.foreign => /\ Leads(cs, W.seen[W.undo.current + 1], r)
                     /\ Leads(inv, r, W.seen[W.undo.current + 1])
  BY <1>2, <1>4
<1>5. History(pushed, more, W.foreign) /\ more[pushed.current + 1] = r
  <2> DEFINE old == W.undo  past0 == W.seen  far == W.foreign  pos == W.head
  <2>1. History(old, past0, far) /\ pos \in Nat
    BY <1>1
  <2>2. JoinedBy(far, cs, inv, past0[old.current + 1], r)
    BY <1>12 DEF JoinedBy
  <2>3. pushed = Push(old, cs, inv, pos, head) /\ more = Append(past0, r)
    OBVIOUS
  <2> HIDE DEF old, past0, far, pos, pushed, more, t, w, ds, ws
  <2>4. Stands(Push(old, cs, inv, pos, head), Append(past0, r), far, r)
    BY <1>2, <2>1, <2>2, PushKeeps
  <2>5. History(pushed, more, far) /\ more[pushed.current + 1] = r
    BY <2>3, <2>4 DEF Stands
  <2> QED
    BY <2>5 DEF far
<1> HIDE DEF pushed
<1>6. History(t, more, W.foreign) /\ more[t.current + 1] = r
  BY <1>5, GroupsKeep
<1>7. t \in TextTree /\ more \in Seq(Texts)
  BY <1>6 DEF History
<1> HIDE DEF t, more
<1>8. /\ w \in Window /\ w.doc = W.doc /\ w.undo = t /\ w.seen = more /\ w.foreign = W.foreign
  BY <1>1, <1>7 DEF Window
<1>9. Len(ds) = Len(docs) /\ ds[W.doc] = r
  <2>1. docs \in Seq(Texts)
    BY DEF EditorInv
  <2> QED
    BY <1>1, <1>2, <2>1, ExceptSeq
<1> HIDE DEF w
<1>10. WindowFits(w, ds)
  <2> HIDE DEF ds
  <2> QED
    BY <1>1, <1>6, <1>8, <1>9 DEF WindowFits
<1>11. /\ ds \in Seq(Texts) /\ ws \in Seq(Window) /\ Len(ws) = Len(windows)
       /\ \A i \in 1..Len(ws) : WindowFits(ws[i], ds)
  BY <1>1, <1>2, <1>10, StoredFits
<1> HIDE DEF ds, ws
<1> QED
  BY <1>3, <1>11 DEF EditorInv

\* Undo and redo keep what they owe, whatever the walk (undo, redo, undo_older,
\* undo_newer of operators.rs).
LEMMA ReplayedKeeps ==
  ASSUME EditorInv, NEW e \in WalksOf(W.undo, W.seen, W.foreign), Replayed(e)
  PROVE  EditorInv'
<1>1. /\ W \in Window /\ WindowFits(W, docs) /\ History(W.undo, W.seen, W.foreign)
      /\ W.doc \in 1..Len(docs) /\ W.head \in Nat /\ W.undo \in TextTree
      /\ status = "running"
  BY FocusIs DEF Replayed, Normal, Running, History
<1>2. /\ e.text \in Texts /\ e.at \in 0..Len(W.undo.nodes) /\ e.sel \in Nat /\ e.at \in Nat
      /\ ~W.foreign => e.status = "ok" /\ e.text = W.seen[e.at + 1]
  BY DEF WalksOf
<1>3. CASE e.status = "panic"
  <2>1. W.foreign
    BY <1>2, <1>3
  <2>2. docs' = docs /\ windows' = windows /\ focus' = focus
    BY <1>3 DEF Replayed, Crash
  <2>3. W' = W /\ Text' = Text
    BY <2>2 DEF W, Text
  <2> QED
    BY <2>1, <2>2, <2>3 DEF EditorInv, Astray
<1>4. CASE e.status # "panic"
  <2> DEFINE head == IF e.status = "ok" THEN e.sel ELSE W.head
             t == [W.undo EXCEPT !.current = e.at]
             w == [W EXCEPT !.undo.current = e.at,
                            !.head = IF e.status = "ok" THEN e.sel ELSE @]
             ds == [docs EXCEPT ![W.doc] = e.text]  ws == WindowsAfter(w, W.doc, e.text)
  <2>1. docs' = ds /\ windows' = ws /\ focus' = focus /\ status' = "running"
    BY <1>1, <1>4 DEF Replayed, Store
  <2>2. head \in Nat
    BY <1>1, <1>2
  <2>3. /\ t \in TextTree /\ t.nodes = W.undo.nodes /\ t.nextSeq = W.undo.nextSeq
        /\ t.current = e.at
    BY <1>1, <1>2 DEF TextTree
  <2>4. w = [W EXCEPT !.undo = t, !.head = head]
    BY <1>1 DEF Window
  <2> HIDE DEF t, head, w
  <2>5. History(t, W.seen, W.foreign)
    BY <1>1, <1>2, <2>3, SameHistory
  <2>6. /\ w \in Window /\ w.doc = W.doc /\ w.undo = t /\ w.seen = W.seen
        /\ w.foreign = W.foreign
    BY <1>1, <2>2, <2>3, <2>4 DEF Window
  <2>7. Len(ds) = Len(docs) /\ ds[W.doc] = e.text
    <3>1. docs \in Seq(Texts)
      BY DEF EditorInv
    <3> QED
      BY <1>1, <1>2, <3>1, ExceptSeq
  <2>8. WindowFits(w, ds)
    <3> HIDE DEF ds
    <3> QED
      BY <1>1, <1>2, <2>3, <2>5, <2>6, <2>7 DEF WindowFits
  <2>9. /\ ds \in Seq(Texts) /\ ws \in Seq(Window) /\ Len(ws) = Len(windows)
        /\ \A i \in 1..Len(ws) : WindowFits(ws[i], ds)
    BY <1>1, <1>2, <2>8, StoredFits
  <2> HIDE DEF ds, ws
  <2> QED
    BY <2>1, <2>9 DEF EditorInv
<1> QED
  BY <1>3, <1>4

-----------------------------------------------------------------------------
\* The windows changed, the documents not.
LEMMA WindowsKeep ==
  ASSUME EditorInv, Running, docs' = docs, status' = status,
         NEW ws, ws \in Seq(Window), \A i \in 1..Len(ws) : WindowFits(ws[i], docs),
         windows' = ws, focus' \in 1..Len(ws)
  PROVE  EditorInv'
BY DEF EditorInv, Running

\* The focused window changed.
LEMMA FocusedKeeps ==
  ASSUME EditorInv, Running, NEW w, WindowFits(w, docs), windows' = [windows EXCEPT ![focus] = w],
         docs' = docs, focus' = focus, status' = status
  PROVE  EditorInv'
<1> DEFINE ws == [windows EXCEPT ![focus] = w]
<1>1. focus \in 1..Len(windows)
  BY DEF EditorInv
<1>2. /\ ws \in Seq(Window) /\ Len(ws) = Len(windows)
      /\ \A j \in 1..Len(ws) : WindowFits(ws[j], docs)
  BY <1>1, OneWindowFits
<1>3. windows' = ws
  OBVIOUS
<1> HIDE DEF ws
<1> QED
  BY <1>1, <1>2, <1>3, WindowsKeep

\* A crash is where the editor is astray.
LEMMA CrashKeeps ==
  ASSUME EditorInv, Astray, Crash
  PROVE  EditorInv'
<1>1. docs' = docs /\ windows' = windows /\ focus' = focus
  BY DEF Crash
<1>2. W' = W /\ Text' = Text
  BY <1>1 DEF W, Text
<1>3. Astray'
  BY <1>2 DEF Astray
<1> QED
  BY <1>1, <1>3 DEF EditorInv

\* A character typed is a text, and so is none.
LEMMA TypedIsText ==
  /\ \A c \in Ink : <<c>> \in Seq(Chars)
  /\ <<>> \in Seq(Chars)
  /\ \A q \in {<<>>} \cup {<<c>> : c \in Ink} : q \in Seq(Chars)
<1>1. ASSUME NEW c \in Ink PROVE <<c>> \in Seq(Chars)
  BY DEF Chars
<1>2. <<>> \in Seq(Chars)
  BY EmptySeq
<1> QED
  BY <1>1, <1>2

\* A range of the focused document replaced and pushed.
LEMMA SplicedKeeps ==
  ASSUME EditorInv, Running, NEW from \in Nat, NEW n \in Nat, from + n <= Len(Text),
         NEW q \in Seq(Chars), NEW head \in Nat, NEW opens,
         PushEdit(Splice(Len(Text), from, n, q), head, opens)
  PROVE  EditorInv'
<1> DEFINE cs == Splice(Len(Text), from, n, q)
<1>1. Text \in Seq(Chars)
  BY FocusIs DEF Texts
<1>2. cs \in ChangesOf(Chars) /\ Fitting(cs, Text)
  BY <1>1, SpliceFits
<1>3. PushEdit(cs, head, opens)
  OBVIOUS
<1> HIDE DEF cs
<1> QED
  BY <1>2, <1>3, PushEditKeeps

\* What a splice of the focused document is.
LEMMA SpliceIs ==
  ASSUME EditorInv, NEW d \in 1..Len(docs), NEW from \in Nat, NEW n \in Nat,
         from + n <= Len(docs[d]), NEW q \in Seq(Chars)
  PROVE  /\ Splice(Len(docs[d]), from, n, q) \in ChangesOf(Chars)
         /\ Splice(Len(docs[d]), from, n, q).after \in Nat
<1>1. docs[d] \in Seq(Chars)
  BY ElementOfSeq DEF EditorInv, Texts
<1>2. Splice(Len(docs[d]), from, n, q) \in ChangesOf(Chars)
  BY <1>1, SpliceFits
<1> QED
  BY <1>2 DEF ChangesOf

-----------------------------------------------------------------------------
\* Insert mode: a position past the end is where inserting goes down.
LEMMA TypingKeeps ==
  ASSUME EditorInv, NEW opens, InsertText(opens)
  PROVE  EditorInv'
<1>1. Running /\ W.head \in Nat /\ Len(Text) \in Nat
  BY FocusIs DEF InsertText, Typing
<1>2. CASE Stale /\ Crash
  BY <1>2, CrashKeeps DEF Astray, Stale
<1>3. ASSUME ~Stale, NEW c \in Ink,
             PushEdit(Splice(Len(Text), W.head, 0, <<c>>), W.head + 1, opens)
      PROVE  EditorInv'
  <2> DEFINE from == W.head  h == W.head + 1  q == <<c>>
  <2>1. from \in Nat /\ from + 0 <= Len(Text) /\ h \in Nat /\ q \in Seq(Chars)
    BY <1>1, <1>3, TypedIsText DEF Stale
  <2>2. PushEdit(Splice(Len(Text), from, 0, q), h, opens)
    BY <1>3
  <2> HIDE DEF from, h, q
  <2> QED
    BY <1>1, <2>1, <2>2, SplicedKeeps
<1> QED
  BY <1>2, <1>3 DEF InsertText

\* Backspace and Delete remove a character that is there.
LEMMA ErasingKeeps ==
  ASSUME EditorInv, Backspace \/ DeleteKey
  PROVE  EditorInv'
<1>1. Running /\ W.head \in Nat /\ Len(Text) \in Nat /\ <<>> \in Seq(Chars)
  BY FocusIs, TypedIsText DEF Backspace, DeleteKey, Typing
<1> DEFINE from == IF Backspace THEN W.head - 1 ELSE W.head
<1>2. /\ from \in Nat /\ from + 1 <= Len(Text)
      /\ PushEdit(Splice(Len(Text), from, 1, <<>>), from, TRUE)
  <2>1. CASE Backspace
    <3>1. from = W.head - 1
      BY <2>1
    <3>2. W.head > 0 /\ W.head - 1 < Len(Text)
      BY <2>1 DEF Backspace
    <3>3. PushEdit(Splice(Len(Text), W.head - 1, 1, <<>>), W.head - 1, TRUE)
      BY <2>1 DEF Backspace
    <3> HIDE DEF from
    <3>4. from \in Nat /\ from + 1 <= Len(Text)
      BY <1>1, <3>1, <3>2
    <3> QED
      BY <3>1, <3>3, <3>4
  <2>2. CASE ~Backspace
    <3>1. from = W.head /\ DeleteKey
      BY <2>2
    <3>2. W.head < Len(Text)
      BY <3>1 DEF DeleteKey
    <3>3. PushEdit(Splice(Len(Text), W.head, 1, <<>>), W.head, TRUE)
      BY <3>1 DEF DeleteKey
    <3> HIDE DEF from
    <3>4. from \in Nat /\ from + 1 <= Len(Text)
      BY <1>1, <3>1, <3>2
    <3> QED
      BY <3>1, <3>3, <3>4
  <2> QED
    BY <2>1, <2>2
<1> HIDE DEF from
<1> QED
  BY <1>1, <1>2, SplicedKeeps

\* The cursor put somewhere, and a group begun, ended or left alone.
LEMMA CursorKeeps ==
  ASSUME EditorInv, Running, NEW h \in Nat, NEW t, History(t, W.seen, W.foreign),
         t.current = W.undo.current,
         windows' = [windows EXCEPT ![focus] = [W EXCEPT !.head = h, !.undo = t]],
         docs' = docs, focus' = focus, status' = status
  PROVE  EditorInv'
<1> DEFINE v == [W EXCEPT !.head = h]  w == [v EXCEPT !.undo = t]
<1>1. WindowFits(W, docs) /\ W \in Window
  BY FocusIs
<1>2. WindowFits(v, docs)
  BY <1>1, HeadFits
<1>3. v.seen = W.seen /\ v.foreign = W.foreign /\ v.undo = W.undo
  BY <1>1 DEF Window
<1>4. w = [W EXCEPT !.head = h, !.undo = t]
  BY <1>1 DEF Window
<1> HIDE DEF v
<1>5. WindowFits(w, docs)
  BY <1>2, <1>3, UndoTreeFits
<1>6. windows' = [windows EXCEPT ![focus] = w]
  BY <1>4
<1> HIDE DEF w
<1> QED
  BY <1>5, <1>6, FocusedKeeps

\* Esc ends the group and may step left.
LEMMA EscapeKeeps ==
  ASSUME EditorInv, Escape
  PROVE  EditorInv'
<1>1. /\ Running /\ docs' = docs /\ focus' = focus /\ status' = status
      /\ W.head \in Nat /\ W \in Window /\ History(W.undo, W.seen, W.foreign)
      /\ focus \in DOMAIN windows
  BY FocusIs DEF Escape, EditorInv
<1>2. PICK h \in {W.head, W.head - 1} \cap Nat :
        windows' = [windows EXCEPT ![focus].head = h, ![focus].undo = EndGroup(@)]
  BY DEF Escape
<1> DEFINE t == EndGroup(W.undo)
<1>3. h \in Nat /\ windows' = [windows EXCEPT ![focus] = [W EXCEPT !.head = h, !.undo = t]]
  BY <1>1, <1>2 DEF W, Window
<1>4. History(t, W.seen, W.foreign) /\ t.current = W.undo.current
  BY <1>1, GroupsKeep
<1> HIDE DEF t
<1> QED
  BY <1>1, <1>3, <1>4, CursorKeeps

\* i, a, I and A begin a group and put the cursor in the text.
LEMMA EnterInsertKeeps ==
  ASSUME EditorInv, EnterInsert
  PROVE  EditorInv'
<1>1. /\ Running /\ docs' = docs /\ focus' = focus /\ status' = status
      /\ W.head \in Nat /\ W \in Window /\ History(W.undo, W.seen, W.foreign)
      /\ focus \in DOMAIN windows /\ Len(Text) \in Nat
  BY FocusIs DEF EnterInsert, EditorInv, Normal
<1>2. PICK h \in {W.head} \cup 0..Len(Text) :
        windows' = [windows EXCEPT ![focus].head = h, ![focus].undo = BeginGroup(@)]
  BY DEF EnterInsert
<1> DEFINE t == BeginGroup(W.undo)
<1>3. windows' = [windows EXCEPT ![focus] = [W EXCEPT !.head = h, !.undo = t]]
  BY <1>1, <1>2 DEF W, Window
<1>5. h \in Nat
  BY <1>1
<1>4. History(t, W.seen, W.foreign) /\ t.current = W.undo.current
  BY <1>1, GroupsKeep
<1> HIDE DEF t
<1> QED
  BY <1>1, <1>3, <1>4, <1>5, CursorKeeps

\* o and O push a character.
LEMMA OpenLineKeeps ==
  ASSUME EditorInv, OpenLine
  PROVE  EditorInv'
<1>1. Running /\ Len(Text) \in Nat
  BY FocusIs DEF OpenLine, Normal
<1>2. PICK pos \in 0..Len(Text), below \in {0, 1}, c \in Ink :
        PushEdit(Splice(Len(Text), pos, 0, <<c>>), pos + below, TRUE)
  BY DEF OpenLine
<1> DEFINE h == pos + below  q == <<c>>
<1>3. pos \in Nat /\ pos + 0 <= Len(Text) /\ h \in Nat /\ q \in Seq(Chars)
  BY <1>1, TypedIsText
<1>4. PushEdit(Splice(Len(Text), pos, 0, q), h, TRUE)
  BY <1>2
<1> HIDE DEF h, q
<1> QED
  BY <1>1, <1>3, <1>4, SplicedKeeps

\* What an operator selects is in the document.
LEMMA SelectedIsInText ==
  ASSUME EditorInv, NEW m \in Nat
  PROVE  LET e == Selected(m)
         IN  e.from \in Nat /\ e.n \in Nat /\ e.from + e.n <= Len(Text)
<1>1. W.head \in Nat /\ Len(Text) \in Nat
  BY FocusIs
<1> DEFINE from == Min2(Min2(W.head, m), Len(Text))
           to == Min2((IF W.head < m THEN m ELSE W.head) + 1, Len(Text))
           e == Selected(m)
<1>2. from \in Nat /\ to \in Nat /\ from <= to /\ to <= Len(Text)
  BY <1>1 DEF Min2
<1>3. e.from = from /\ e.n = SatSub(to, from)
  BY DEF Selected
<1> HIDE DEF from, to, e
<1>4. e.from \in Nat /\ e.n \in Nat /\ e.from + e.n <= Len(Text)
  BY <1>1, <1>2, <1>3 DEF SatSub
<1> QED
  BY <1>4 DEF e

\* A selection deleted: the cursor is put at a position.
LEMMA DeletedKeeps ==
  ASSUME EditorInv, Running, NEW m \in 0..Len(Text), NEW opens,
         PushEdit(Splice(Len(Text), Selected(m).from, Selected(m).n, <<>>),
                  OperatorHead(Splice(Len(Text), Selected(m).from, Selected(m).n, <<>>),
                               Selected(m).from), opens)
  PROVE  EditorInv'
<1> DEFINE from == Selected(m).from  n == Selected(m).n
           cs == Splice(Len(Text), from, n, <<>>)  h == OperatorHead(cs, from)
<1>1. m \in Nat /\ W.doc \in 1..Len(docs) /\ Text = docs[W.doc]
  BY FocusIs DEF Text
<1>2. from \in Nat /\ n \in Nat /\ from + n <= Len(Text)
  BY <1>1, SelectedIsInText
<1>3. PushEdit(Splice(Len(Text), from, n, <<>>), h, opens)
  OBVIOUS
<1> HIDE DEF from, n
<1>4. <<>> \in Seq(Chars)
  BY TypedIsText
<1>5. cs \in ChangesOf(Chars) /\ cs.after \in Nat
  BY <1>1, <1>2, <1>4, SpliceIs
<1>6. OperatorHead(cs, from) = Min2(MapPos(cs, from, "after"), SatSub(cs.after, 1))
  BY DEF OperatorHead
<1> HIDE DEF cs
<1>7. MapPos(cs, from, "after") \in Nat
  BY <1>2, <1>5, MappedIsPosition
<1>8. h \in Nat
  BY <1>5, <1>6, <1>7 DEF Min2, SatSub
<1> HIDE DEF h
<1> QED
  BY <1>2, <1>3, <1>4, <1>8, SplicedKeeps

\* d and x, and c, which begins a group even when nothing is selected.
LEMMA OperatorsKeep ==
  ASSUME EditorInv, DeleteOperator \/ ChangeOperator
  PROVE  EditorInv'
<1>1. CASE DeleteOperator
  <2>1. Running
    BY <1>1 DEF DeleteOperator, Normal
  <2>2. PICK m \in 0..Len(Text) :
          PushEdit(Splice(Len(Text), Selected(m).from, Selected(m).n, <<>>),
                   OperatorHead(Splice(Len(Text), Selected(m).from, Selected(m).n, <<>>),
                                Selected(m).from), FALSE)
    BY <1>1 DEF DeleteOperator
  <2> QED
    BY <2>1, <2>2, DeletedKeeps
<1>2. CASE ChangeOperator
  <2>1. Running
    BY <1>2 DEF ChangeOperator, Normal
  <2>2. PICK m \in 0..Len(Text) :
          \/ /\ windows' = [windows EXCEPT ![focus].undo = BeginGroup(@)]
             /\ UNCHANGED <<docs, focus, status, edits, had>>
          \/ PushEdit(Splice(Len(Text), Selected(m).from, Selected(m).n, <<>>),
                      OperatorHead(Splice(Len(Text), Selected(m).from, Selected(m).n, <<>>),
                                   Selected(m).from), TRUE)
    BY <1>2 DEF ChangeOperator
  <2>3. CASE /\ windows' = [windows EXCEPT ![focus].undo = BeginGroup(@)]
             /\ UNCHANGED <<docs, focus, status, edits, had>>
    <3> DEFINE t == BeginGroup(W.undo)  h == W.head
    <3>1. /\ h \in Nat /\ W \in Window /\ History(W.undo, W.seen, W.foreign)
          /\ focus \in DOMAIN windows
      BY FocusIs DEF EditorInv
    <3>2. windows' = [windows EXCEPT ![focus] = [W EXCEPT !.head = h, !.undo = t]]
      BY <2>3, <3>1 DEF W, Window
    <3>3. History(t, W.seen, W.foreign) /\ t.current = W.undo.current
      BY <3>1, GroupsKeep
    <3> HIDE DEF t, h
    <3> QED
      BY <2>1, <2>3, <3>1, <3>2, <3>3, CursorKeeps
  <2> QED
    BY <2>1, <2>2, <2>3, DeletedKeeps
<1> QED
  BY <1>1, <1>2

\* Motions move the cursor in the text.
LEMMA MoveKeeps ==
  ASSUME EditorInv, Move
  PROVE  EditorInv'
<1>1. /\ Running /\ docs' = docs /\ focus' = focus /\ status' = status
      /\ W \in Window /\ History(W.undo, W.seen, W.foreign)
      /\ focus \in DOMAIN windows /\ Len(Text) \in Nat
  BY FocusIs DEF Move, EditorInv, Normal
<1>2. PICK h \in 0..Len(Text) : windows' = [windows EXCEPT ![focus].head = h]
  BY DEF Move
<1> DEFINE w == [W EXCEPT !.head = h]
<1>3. windows' = [windows EXCEPT ![focus] = w]
  BY <1>1, <1>2 DEF W
<1>4. WindowFits(W, docs) /\ h \in Nat
  BY <1>1, FocusIs
<1>5. WindowFits(w, docs)
  BY <1>4, HeadFits
<1> HIDE DEF w
<1> QED
  BY <1>1, <1>3, <1>5, FocusedKeeps

\* :s replaces a range of the text and leaves the cursor where it was.
LEMMA SubstituteKeeps ==
  ASSUME EditorInv, Substitute
  PROVE  EditorInv'
<1>1. Running /\ Len(Text) \in Nat /\ W.head \in Nat
  BY FocusIs DEF Substitute, Normal
<1>2. PICK from \in 0..Len(Text), n \in Cuts \ {0}, q \in {<<>>} \cup {<<c>> : c \in Ink} :
        from + n <= Len(Text) /\ PushEdit(Splice(Len(Text), from, n, q), W.head, FALSE)
  BY DEF Substitute
<1>3. from \in Nat /\ n \in Nat /\ q \in Seq(Chars)
  BY <1>1, TypedIsText DEF Cuts
<1> QED
  BY <1>1, <1>2, <1>3, SplicedKeeps

-----------------------------------------------------------------------------
\* A walk starts at the tree's node with the text the document has.
LEMMA StartIsOne ==
  ASSUME EditorInv
  PROVE  /\ Start \in WalksOf(W.undo, W.seen, W.foreign) /\ Start.at = W.undo.current
         /\ History(W.undo, W.seen, W.foreign) /\ Ordered(W.undo)
         /\ W.undo.current \in 0..Len(W.undo.nodes)
<1>1. /\ WindowFits(W, docs) /\ History(W.undo, W.seen, W.foreign)
      /\ W.head \in Nat /\ Text \in Texts
  BY FocusIs
<1>2. Ordered(W.undo) /\ W.undo.current \in 0..Len(W.undo.nodes)
  BY <1>1 DEF History
<1>3. ~W.foreign => Text = W.seen[W.undo.current + 1]
  BY <1>1 DEF WindowFits, Text
<1>4. /\ Start.at = W.undo.current /\ Start.text = Text /\ Start.sel = W.head
      /\ Start.status = "ok"
      /\ Start = [at |-> W.undo.current, text |-> Text, sel |-> W.head, status |-> "ok"]
  BY DEF Start
<1>5. Start \in WalksOf(W.undo, W.seen, W.foreign)
  BY <1>1, <1>2, <1>3, <1>4 DEF WalksOf, Outcomes
<1> QED
  BY <1>1, <1>2, <1>4, <1>5

\* u, Ctrl-R, g- and g+.
LEMMA UndoKeysKeep ==
  ASSUME EditorInv, UndoKey \/ RedoKey \/ OlderKey \/ NewerKey
  PROVE  EditorInv'
<1> DEFINE t == W.undo  q == W.seen  far == W.foreign  at0 == W.undo.current  st == Start
<1>1. /\ st \in WalksOf(t, q, far) /\ st.at = at0
      /\ History(t, q, far) /\ Ordered(t) /\ at0 \in 0..Len(t.nodes)
  BY StartIsOne
<1>2. CASE UndoKey
  <2>1. at0 # Root /\ Replayed(UndoWalk(t, st))
    BY <1>2 DEF UndoKey
  <2> HIDE DEF t, q, far, at0, st
  <2>2. UndoWalk(t, st) \in WalksOf(t, q, far)
    BY <1>1, <2>1, UndoWalkKeeps
  <2> DEFINE e == UndoWalk(t, st)
  <2>3. Replayed(e) /\ e \in WalksOf(W.undo, W.seen, W.foreign)
    BY <2>1, <2>2 DEF t, q, far
  <2> HIDE DEF e
  <2> QED
    BY <2>3, ReplayedKeeps
<1>3. CASE RedoKey
  <2>1. Children(t, at0) # {} /\ Replayed(RedoWalk(t, st))
    BY <1>3 DEF RedoKey
  <2> HIDE DEF t, q, far, at0, st
  <2>2. RedoWalk(t, st) \in WalksOf(t, q, far)
    BY <1>1, <2>1, RedoWalkKeeps
  <2> DEFINE e == RedoWalk(t, st)
  <2>3. Replayed(e) /\ e \in WalksOf(W.undo, W.seen, W.foreign)
    BY <2>1, <2>2 DEF t, q, far
  <2> HIDE DEF e
  <2> QED
    BY <2>3, ReplayedKeeps
<1>4. CASE OlderKey
  <2>1. OlderNodes(t, at0) # {} /\ Replayed(SeekWalk(t, st, PrevInTime(t, at0)))
    BY <1>4 DEF OlderKey
  <2> HIDE DEF t, q, far, at0, st
  <2> DEFINE n == PrevInTime(t, at0)
  <2>2. n \in Nodes(t)
    BY <1>1, <2>1, TimeNeighbours
  <2> HIDE DEF n
  <2> DEFINE e == SeekWalk(t, st, n)
  <2>3. e \in WalksOf(t, q, far)
    BY <1>1, <2>2, SeekWalkKeeps
  <2>4. Replayed(e)
    BY <2>1 DEF n
  <2> HIDE DEF e
  <2>5. e \in WalksOf(W.undo, W.seen, W.foreign)
    BY <2>3 DEF t, q, far
  <2> QED
    BY <2>4, <2>5, ReplayedKeeps
<1>5. CASE NewerKey
  <2>1. NewerNodes(t, at0) # {} /\ Replayed(SeekWalk(t, st, NextInTime(t, at0)))
    BY <1>5 DEF NewerKey
  <2> HIDE DEF t, q, far, at0, st
  <2> DEFINE n == NextInTime(t, at0)
  <2>2. n \in Nodes(t)
    BY <1>1, <2>1, TimeNeighbours
  <2> HIDE DEF n
  <2> DEFINE e == SeekWalk(t, st, n)
  <2>3. e \in WalksOf(t, q, far)
    BY <1>1, <2>2, SeekWalkKeeps
  <2>4. Replayed(e)
    BY <2>1 DEF n
  <2> HIDE DEF e
  <2>5. e \in WalksOf(W.undo, W.seen, W.foreign)
    BY <2>3 DEF t, q, far
  <2> QED
    BY <2>4, <2>5, ReplayedKeeps
<1> QED
  BY <1>2, <1>3, <1>4, <1>5

-----------------------------------------------------------------------------
\* A second window on the focused document.
LEMMA SplitKeeps ==
  ASSUME EditorInv, Split
  PROVE  EditorInv'
<1> DEFINE w == NewWindow(W.doc, Text)  ws == Append(windows, w)
<1>1. /\ Running /\ docs' = docs /\ focus' = focus /\ status' = status
      /\ docs \in Seq(Texts) /\ W.doc \in 1..Len(docs) /\ Text = docs[W.doc]
      /\ windows \in Seq(Window) /\ focus \in 1..Len(windows) /\ Len(windows) \in Nat
      /\ \A i \in 1..Len(windows) : WindowFits(windows[i], docs)
      /\ windows' = ws
  BY FocusIs DEF Split, EditorInv, Normal, Text
<1>2. WindowFits(w, docs)
  BY <1>1, FreshFits
<1>3. w \in Window
  BY <1>2 DEF WindowFits
<1> HIDE DEF w
<1>4. /\ ws \in Seq(Window) /\ Len(ws) = Len(windows) + 1 /\ ws[Len(windows) + 1] = w
      /\ \A i \in 1..Len(windows) : ws[i] = windows[i]
  BY <1>1, <1>3, AppendProperties
<1> HIDE DEF ws
<1>5. \A i \in 1..Len(ws) : WindowFits(ws[i], docs)
  <2> TAKE i \in 1..Len(ws)
  <2>1. CASE i = Len(windows) + 1
    BY <1>2, <1>4, <2>1
  <2>2. CASE i # Len(windows) + 1
    <3>1. i \in 1..Len(windows)
      BY <1>1, <1>4, <2>2
    <3> QED
      BY <1>1, <1>4, <3>1
  <2> QED
    BY <2>1, <2>2
<1>6. focus' \in 1..Len(ws)
  BY <1>1, <1>4
<1> QED
  BY <1>1, <1>4, <1>5, <1>6, WindowsKeep

\* Another window focused, and clicked in.
LEMMA FocusKeeps ==
  ASSUME EditorInv, FocusWindow \/ Click
  PROVE  EditorInv'
<1>1. /\ Running /\ docs' = docs /\ status' = status /\ focus' \in 1..Len(windows)
      /\ windows \in Seq(Window) /\ docs \in Seq(Texts)
      /\ \A i \in 1..Len(windows) : WindowFits(windows[i], docs)
  BY FocusIs DEF FocusWindow, Click, EditorInv, Normal
<1>2. CASE FocusWindow
  <2>1. windows' = windows
    BY <1>2 DEF FocusWindow
  <2> QED
    BY <1>1, <2>1, WindowsKeep
<1>3. CASE Click
  <2>1. PICK h \in 0..SatSub(Len(docs[windows[focus'].doc]), 1) :
          windows' = [windows EXCEPT ![focus'].head = h]
    BY <1>3 DEF Click
  <2> DEFINE v == windows[focus']  w == [v EXCEPT !.head = h]  ws == [windows EXCEPT ![focus'] = w]
  <2>2. WindowFits(v, docs) /\ h \in Nat
    BY <1>1
  <2>3. windows' = ws
    BY <1>1, <2>1
  <2> HIDE DEF v
  <2>4. WindowFits(w, docs)
    BY <2>2, HeadFits
  <2> HIDE DEF w
  <2>5. /\ ws \in Seq(Window) /\ Len(ws) = Len(windows)
        /\ \A j \in 1..Len(ws) : WindowFits(ws[j], docs)
    BY <1>1, <2>4, OneWindowFits
  <2> HIDE DEF ws
  <2> QED
    BY <1>1, <2>3, <2>5, WindowsKeep
<1> QED
  BY <1>2, <1>3

\* The focused window shows another document of ds, which may be new: its tree stays, so
\* it is foreign unless empty.
LEMMA ShowKeeps ==
  ASSUME EditorInv, Running, NEW ds \in Seq(Texts), Len(docs) <= Len(ds),
         \A i \in 1..Len(docs) : ds[i] = docs[i],
         NEW d \in 1..Len(ds), docs' = ds, Show(d, ds[d])
  PROVE  EditorInv'
<1> DEFINE v == Disturbed(W, ds[d])  w == [v EXCEPT !.doc = d, !.head = 0]
           ws == [windows EXCEPT ![focus] = w]
<1>1. /\ W \in Window /\ History(W.undo, W.seen, W.foreign) /\ ds[d] \in Texts
      /\ windows \in Seq(Window) /\ focus \in 1..Len(windows) /\ d \in Nat
      /\ Len(docs) \in Nat /\ Len(ds) \in Nat
  BY FocusIs, ElementOfSeq, LenProperties DEF EditorInv
<1>2. /\ v \in Window /\ History(v.undo, v.seen, v.foreign)
      /\ ~v.foreign => ds[d] = v.seen[v.undo.current + 1]
  BY <1>1, DisturbedFits
<1>3. windows' = ws /\ focus' = focus /\ status' = "running"
  BY DEF Show, Running
<1> HIDE DEF v
<1>4. /\ w \in Window /\ w.doc = d /\ w.undo = v.undo /\ w.seen = v.seen
      /\ w.foreign = v.foreign
  BY <1>1, <1>2 DEF Window
<1> HIDE DEF w
<1>5. WindowFits(w, ds)
  BY <1>2, <1>4 DEF WindowFits
<1>6. /\ ws \in Seq(Window) /\ Len(ws) = Len(windows)
      /\ \A j \in 1..Len(windows) : ws[j] = IF j = focus THEN w ELSE windows[j]
  BY <1>1, <1>4, ExceptSeq
<1> HIDE DEF ws
<1>7. ASSUME NEW j \in 1..Len(ws) PROVE WindowFits(ws[j], ds)
  <2>1. CASE j = focus
    BY <1>5, <1>6, <2>1
  <2>2. CASE j # focus
    <3>1. ws[j] = windows[j] /\ WindowFits(windows[j], docs)
      BY <1>6, <2>2 DEF EditorInv
    <3>2. windows[j].doc \in 1..Len(docs)
      BY <3>1 DEF WindowFits
    <3>3. windows[j].doc \in 1..Len(ds) /\ ds[windows[j].doc] = docs[windows[j].doc]
      BY <1>1, <3>2
    <3> QED
      BY <3>1, <3>3 DEF WindowFits
  <2> QED
    BY <2>1, <2>2
<1> QED
  BY <1>1, <1>3, <1>6, <1>7 DEF EditorInv

\* What a file holds is a text.
LEMMA FilesAreTexts == Files \subseteq Texts
<1>1. ASSUME NEW file \in Files PROVE file \in Texts
  <2> DEFINE C == {file[i] : i \in 1..Len(file)}
  <2>1. file \in Seq(C)
    BY FilesAssumption
  <2>2. C \subseteq Chars
    BY DEF Chars
  <2> HIDE DEF C
  <2> QED
    BY <2>1, <2>2, SeqMonotonic DEF Texts
<1> QED
  BY <1>1

\* :e, :bnext, :bprev and a click on a tab.
LEMMA BuffersKeep ==
  ASSUME EditorInv, OpenFile \/ SwitchBuffer
  PROVE  EditorInv'
<1>1. Running /\ docs \in Seq(Texts) /\ Len(docs) \in Nat /\ DOMAIN docs = 1..Len(docs)
  BY FocusIs DEF OpenFile, SwitchBuffer, Normal, EditorInv
<1>2. CASE OpenFile
  <2>1. PICK file \in Files : docs' = Append(docs, file) /\ Show(Len(docs) + 1, file)
    BY <1>2 DEF OpenFile
  <2> DEFINE ds == Append(docs, file)  d == Len(docs) + 1
  <2>2. file \in Texts
    BY FilesAreTexts
  <2>3. /\ ds \in Seq(Texts) /\ Len(ds) = Len(docs) + 1 /\ ds[Len(docs) + 1] = file
        /\ \A i \in 1..Len(docs) : ds[i] = docs[i]
    BY <1>1, <2>2, AppendProperties
  <2>4. docs' = ds
    BY <2>1
  <2> HIDE DEF ds
  <2>5. d \in 1..Len(ds) /\ Len(docs) <= Len(ds)
    BY <1>1, <2>3
  <2>6. Show(d, ds[d])
    BY <2>1, <2>3
  <2> HIDE DEF d
  <2> QED
    BY <1>1, <2>3, <2>4, <2>5, <2>6, ShowKeeps
<1>3. CASE SwitchBuffer
  <2>1. docs' = docs /\ \E d \in 1..Len(docs) : Show(d, docs[d])
    BY <1>1, <1>3 DEF SwitchBuffer
  <2>2. PICK d \in 1..Len(docs) : Show(d, docs[d])
    BY <2>1
  <2>3. Len(docs) <= Len(docs) /\ \A i \in 1..Len(docs) : docs[i] = docs[i]
    BY <1>1
  <2> QED
    BY <1>1, <2>1, <2>2, <2>3, ShowKeeps
<1> QED
  BY <1>2, <1>3

-----------------------------------------------------------------------------
\* The edits of a language server and of plugins, which need not be of the focused
\* document (apply_lsp_edits, apply_plugin_calls).
LEMMA OutsideEditsKeep ==
  ASSUME EditorInv, LspEdit \/ PluginEdit
  PROVE  EditorInv'
<1>1. /\ Running /\ docs \in Seq(Texts) /\ Len(docs) \in Nat /\ DOMAIN docs = 1..Len(docs)
      /\ W \in Window /\ WindowFits(W, docs) /\ History(W.undo, W.seen, W.foreign)
      /\ W.head \in Nat /\ W.doc \in 1..Len(docs) /\ focus \in 1..Len(windows)
      /\ DOMAIN windows = 1..Len(windows)
  BY FocusIs DEF LspEdit, PluginEdit, EditorInv
<1>2. CASE LspEdit
  <2>20. PICK d \in DOMAIN docs, q \in {<<>>} \cup {<<c>> : c \in Ink} :
          \E from \in 0..Len(docs[d]), n \in Cuts :
            LET cs == Splice(Len(docs[d]), from, n, q)
            IN  /\ from + n <= Len(docs[d])
                /\ cs.ops # <<>>
                /\ IF W.doc = d
                   THEN PushEdit(cs, MapPos(cs, W.head, "after"), FALSE)
                   ELSE /\ CanEdit(cs)
                        /\ Store(d, ApplyChanges(cs, docs[d]).rope)
                        /\ windows' = WindowsAfter(W, d, ApplyChanges(cs, docs[d]).rope)
                        /\ UNCHANGED <<focus, status>>
    BY <1>2 DEF LspEdit
  <2>21. d \in 1..Len(docs)
    BY <1>1
  <2>1. PICK from \in 0..Len(docs[d]), n \in Cuts :
          /\ from + n <= Len(docs[d])
          /\ LET cs == Splice(Len(docs[d]), from, n, q)
             IN  IF W.doc = d
                 THEN PushEdit(cs, MapPos(cs, W.head, "after"), FALSE)
                 ELSE /\ Store(d, ApplyChanges(cs, docs[d]).rope)
                      /\ windows' = WindowsAfter(W, d, ApplyChanges(cs, docs[d]).rope)
                      /\ UNCHANGED <<focus, status>>
    BY <2>20
  <2> DEFINE cs == Splice(Len(docs[d]), from, n, q)
  <2>2. from \in Nat /\ n \in Nat /\ q \in Seq(Chars) /\ docs[d] \in Seq(Chars)
    <3>1. docs[d] \in Seq(Chars)
      BY <1>1, ElementOfSeq DEF Texts
    <3> QED
      BY <3>1, LenProperties, TypedIsText DEF Cuts
  <2>3. cs \in ChangesOf(Chars)
    BY <2>1, <2>2, <2>21, SpliceIs
  <2>4. CASE W.doc = d
    <3> DEFINE h == MapPos(cs, W.head, "after")
    <3>1. Text = docs[d] /\ cs = Splice(Len(Text), from, n, q)
      BY <2>4 DEF Text
    <3>2. PushEdit(cs, h, FALSE)
      BY <2>1, <2>4
    <3>3. h \in Nat
      <4> HIDE DEF cs
      <4> QED
        BY <1>1, <2>3, MappedIsPosition
    <3> HIDE DEF h, cs
    <3>4. from + n <= Len(Text)
      BY <2>1, <3>1
    <3>5. PushEdit(Splice(Len(Text), from, n, q), h, FALSE)
      BY <3>1, <3>2
    <3> QED
      BY <1>1, <2>2, <3>3, <3>4, <3>5, SplicedKeeps
  <2>5. CASE W.doc # d
    <3> DEFINE txt == ApplyChanges(cs, docs[d]).rope  ds == [docs EXCEPT ![d] = txt]
               ws == WindowsAfter(W, d, txt)
    <3>1. docs' = ds /\ windows' = ws /\ focus' = focus /\ status' = "running"
      BY <1>1, <2>1, <2>5 DEF Store, Running
    <3>2. txt \in Texts
      <4> HIDE DEF cs
      <4> QED
        BY <2>2, <2>3, DocumentStaysText DEF Texts
    <3> HIDE DEF cs, txt
    <3>3. Len(ds) = Len(docs) /\ ds[W.doc] = docs[W.doc]
      BY <1>1, <2>5, <3>2, ExceptSeq
    <3>4. WindowFits(W, ds)
      <4> HIDE DEF ds
      <4> QED
        BY <1>1, <3>3 DEF WindowFits
    <3>5. /\ ds \in Seq(Texts) /\ ws \in Seq(Window) /\ Len(ws) = Len(windows)
          /\ \A i \in 1..Len(ws) : WindowFits(ws[i], ds)
      BY <3>2, <3>4, StoredFits
    <3> HIDE DEF ds, ws
    <3> QED
      BY <1>1, <3>1, <3>5 DEF EditorInv
  <2> QED
    BY <2>4, <2>5
<1>3. CASE PluginEdit
  <2>20. PICK d \in DOMAIN docs, q \in {<<>>} \cup {<<c>> : c \in Ink} :
          \E from \in 0..Len(docs[d]), n \in Cuts :
            LET cs == Splice(Len(docs[d]), from, n, q)
                txt == ApplyChanges(cs, docs[d]).rope
            IN  /\ from + n <= Len(docs[d])
                /\ CanEdit(cs)
                /\ Store(d, txt)
                /\ windows' = [i \in DOMAIN windows |->
                                IF windows[i].doc = d /\ txt # docs[d]
                                THEN Disturbed(windows[i], txt) ELSE windows[i]]
    BY <1>3 DEF PluginEdit
  <2>21. d \in 1..Len(docs)
    BY <1>1
  <2>1. PICK from \in 0..Len(docs[d]), n \in Cuts :
          LET cs == Splice(Len(docs[d]), from, n, q)
              txt == ApplyChanges(cs, docs[d]).rope
          IN  /\ from + n <= Len(docs[d])
              /\ Store(d, txt)
              /\ windows' = [i \in DOMAIN windows |->
                              IF windows[i].doc = d /\ txt # docs[d]
                              THEN Disturbed(windows[i], txt) ELSE windows[i]]
    BY <2>20
  <2> DEFINE cs == Splice(Len(docs[d]), from, n, q)  txt == ApplyChanges(cs, docs[d]).rope
             w == IF W.doc = d /\ txt # docs[d] THEN Disturbed(W, txt) ELSE W
             ds == [docs EXCEPT ![d] = txt]  ws == WindowsAfter(w, d, txt)
  <2>2. from \in Nat /\ n \in Nat /\ q \in Seq(Chars) /\ docs[d] \in Seq(Chars)
    <3>1. docs[d] \in Seq(Chars)
      BY <1>1, ElementOfSeq DEF Texts
    <3> QED
      BY <3>1, LenProperties, TypedIsText DEF Cuts
  <2>3. cs \in ChangesOf(Chars)
    BY <2>1, <2>2, <2>21, SpliceIs
  <2>4. /\ docs' = ds /\ focus' = focus /\ status' = "running"
        /\ windows' = [i \in 1..Len(windows) |->
                        IF windows[i].doc = d /\ txt # docs[d]
                        THEN Disturbed(windows[i], txt) ELSE windows[i]]
    BY <1>1, <1>3, <2>1 DEF Store, Running, PluginEdit
  <2> HIDE DEF cs
  <2>5. txt \in Texts
    BY <2>2, <2>3, DocumentStaysText DEF Texts
  <2> HIDE DEF txt
  <2>6. windows' = ws
    <3>1. ws = [i \in 1..Len(windows) |->
                  IF i = focus THEN w
                  ELSE IF windows[i].doc = d /\ txt # docs[d] THEN Disturbed(windows[i], txt)
                  ELSE windows[i]]
      BY <1>1 DEF WindowsAfter
    <3>2. w = IF windows[focus].doc = d /\ txt # docs[d]
              THEN Disturbed(windows[focus], txt) ELSE windows[focus]
      BY DEF W
    <3> HIDE DEF w, ws
    <3> QED
      BY <2>4, <3>1, <3>2
  <2>7. /\ Len(ds) = Len(docs)
        /\ \A j \in 1..Len(docs) : ds[j] = IF j = d THEN txt ELSE docs[j]
    BY <1>1, <2>5, ExceptSeq
  <2>8. WindowFits(w, ds)
    <3>1. CASE W.doc = d /\ txt # docs[d]
      <4>1. w = Disturbed(W, txt)
        BY <3>1
      <4> DEFINE e == Disturbed(W, txt)
      <4>2. /\ e \in Window /\ e.doc = W.doc
            /\ History(e.undo, e.seen, e.foreign)
            /\ ~e.foreign => txt = e.seen[e.undo.current + 1]
        BY <1>1, <2>5, DisturbedFits
      <4> HIDE DEF e, w, ds
      <4>3. ds[e.doc] = txt /\ e.doc \in 1..Len(ds)
        BY <1>1, <2>7, <3>1, <4>2
      <4>4. WindowFits(e, ds)
        BY <4>2, <4>3 DEF WindowFits
      <4> QED
        BY <4>1, <4>4 DEF e
    <3>2. CASE ~(W.doc = d /\ txt # docs[d])
      <4>1. w = W
        BY <3>2
      <4> HIDE DEF ds
      <4>2. ds[W.doc] = docs[W.doc] /\ Len(ds) = Len(docs)
        BY <1>1, <2>7, <3>2
      <4>3. WindowFits(W, ds)
        BY <1>1, <4>2 DEF WindowFits
      <4> QED
        BY <4>1, <4>3
    <3> QED
      BY <3>1, <3>2
  <2> HIDE DEF w
  <2>9. /\ ds \in Seq(Texts) /\ ws \in Seq(Window) /\ Len(ws) = Len(windows)
        /\ \A i \in 1..Len(ws) : WindowFits(ws[i], ds)
    BY <2>5, <2>8, <2>21, StoredFits
  <2> HIDE DEF ds, ws
  <2> QED
    BY <1>1, <2>4, <2>6, <2>9 DEF EditorInv
<1> QED
  BY <1>2, <1>3

-----------------------------------------------------------------------------
\* The invariant holds when the editor starts, and whatever step it takes.
LEMMA EditorInvHolds == EditorSpec => []EditorInv
<1>1. EditorInit => EditorInv
  <2> SUFFICES ASSUME EditorInit PROVE EditorInv
    OBVIOUS
  <2>1. PICK file \in Files : /\ docs = <<file>> /\ windows = <<NewWindow(1, file)>>
                              /\ focus = 1 /\ status = "running"
    BY DEF EditorInit
  <2>2. docs \in Seq(Texts) /\ Len(docs) = 1 /\ docs[1] = file
    BY <2>1, FilesAreTexts
  <2> DEFINE w == NewWindow(1, docs[1])
  <2>3. WindowFits(w, docs)
    BY <2>2, FreshFits
  <2>4. w \in Window
    BY <2>3 DEF WindowFits
  <2>5. windows = <<w>>
    BY <2>1, <2>2
  <2> HIDE DEF w
  <2> QED
    BY <2>1, <2>2, <2>3, <2>4, <2>5 DEF EditorInv
<1>2. EditorInv /\ [EditorNext]_editorVars => EditorInv'
  <2> SUFFICES ASSUME EditorInv, [EditorNext]_editorVars PROVE EditorInv'
    OBVIOUS
  <2>1. CASE TypeChar \/ TypeEnter
    BY <2>1, TypingKeeps DEF TypeChar, TypeEnter
  <2>2. CASE Backspace \/ DeleteKey
    BY <2>2, ErasingKeeps
  <2>3. CASE Escape
    BY <2>3, EscapeKeeps
  <2>4. CASE EnterInsert
    BY <2>4, EnterInsertKeeps
  <2>5. CASE OpenLine
    BY <2>5, OpenLineKeeps
  <2>6. CASE DeleteOperator \/ ChangeOperator
    BY <2>6, OperatorsKeep
  <2>7. CASE Move
    BY <2>7, MoveKeeps
  <2>8. CASE Substitute
    BY <2>8, SubstituteKeeps
  <2>9. CASE UndoKey \/ RedoKey \/ OlderKey \/ NewerKey
    BY <2>9, UndoKeysKeep
  <2>10. CASE Split
    BY <2>10, SplitKeeps
  <2>11. CASE FocusWindow \/ Click
    BY <2>11, FocusKeeps
  <2>12. CASE OpenFile \/ SwitchBuffer
    BY <2>12, BuffersKeep
  <2>13. CASE LspEdit \/ PluginEdit
    BY <2>13, OutsideEditsKeep
  <2>14. CASE UNCHANGED editorVars
    <3>1. docs' = docs /\ windows' = windows /\ focus' = focus /\ status' = status
      BY <2>14 DEF editorVars
    <3>2. W' = W /\ Text' = Text
      BY <3>1 DEF W, Text
    <3> QED
      BY <3>1, <3>2 DEF EditorInv, Astray
  <2> QED
    BY <2>1, <2>2, <2>3, <2>4, <2>5, <2>6, <2>7, <2>8, <2>9, <2>10, <2>11, <2>12, <2>13, <2>14
       DEF EditorNext
<1> QED
  BY <1>1, <1>2, PTL DEF EditorSpec

\* Whatever is typed, undone, split, clicked, opened or edited from outside, in any order:
\* a document is the text its window's undo tree is at, unless something changed it behind
\* that tree; and a cursor past the end or such a change is all that can end the editor
\* (execute_action, handle_insert_key, apply_lsp_edits, apply_plugin_calls).
THEOREM OnlyStaleWindows == EditorSpec => []OnlyStaleWindowsFail
<1>1. EditorInv => OnlyStaleWindowsFail
  <2> SUFFICES ASSUME EditorInv PROVE OnlyStaleWindowsFail
    OBVIOUS
  <2>1. DOMAIN windows = 1..Len(windows) /\ W.doc \in 1..Len(docs)
    BY FocusIs
  <2>2. \A i \in 1..Len(windows) :
          ~windows[i].foreign => docs[windows[i].doc] = windows[i].seen[windows[i].undo.current + 1]
    BY DEF EditorInv, WindowFits
  <2>3. status = "crashed" => W.head > Len(Text) \/ W.foreign
    BY DEF EditorInv, Astray
  <2> QED
    BY <2>1, <2>2, <2>3 DEF OnlyStaleWindowsFail, Windows
<1> QED
  BY <1>1, EditorInvHolds, PTL

-----------------------------------------------------------------------------
\* One undo takes back an insert-mode run.  Groups are numbered upwards ...
Numbered(t) ==
  /\ t = [nodes |-> t.nodes, current |-> t.current, group |-> t.group,
          nextGroup |-> t.nextGroup, nextSeq |-> t.nextSeq]
  /\ t.nextGroup \in Nat \ {0} /\ t.group \in 0..(t.nextGroup - 1)
  /\ \A k \in Nodes(t) : t.nodes[k].group \in 0..(t.nextGroup - 1)

\* ... and only the focused window has one open, in insert mode.
GroupsClosed ==
  /\ "split" \in Features \/ Len(windows) = 1
  /\ \A i \in 1..Len(windows) : Numbered(windows[i].undo)
  /\ \A i \in 1..Len(windows) : i # focus \/ mode # "insert" => windows[i].undo.group = 0

\* The nodes after base are a run's, begun at node from with the text start: the node
\* before its next one, and the text at it.
Stop(from, base, k) == IF k = base THEN from ELSE k
Shown(start, seen, base, k) == IF k = base THEN start ELSE seen[k + 1]

\* Each is in group g, follows the one before and leads back to its text; the tree is at
\* the last, and txt is its text.
RecordedRun(t, seen, txt, from, start, base, g) ==
  /\ base \in 0..Len(t.nodes) /\ from \in 0..base /\ g > 0
  /\ from # Root => t.nodes[from].group # g
  /\ \A k \in (base + 1)..Len(t.nodes) :
       /\ t.nodes[k].group = g /\ t.nodes[k].parent = Stop(from, base, k - 1)
       /\ Leads(t.nodes[k].inverse, Shown(start, seen, base, k), Shown(start, seen, base, k - 1))
  /\ t.current = Stop(from, base, Len(t.nodes)) /\ txt = Shown(start, seen, base, Len(t.nodes))

RunFits(base, g) ==
  /\ RecordedRun(W.undo, W.seen, Text, run.from, run.start, base, g)
  /\ run.phase = "on" => mode = "insert" /\ W.undo.group = g
  /\ run.phase = "over" => mode # "insert"

RunInv ==
  /\ run = [kind |-> run.kind, start |-> run.start, from |-> run.from, phase |-> run.phase]
  /\ run.kind = "i" /\ run.phase \in {"on", "over"} => \E base, g \in Nat : RunFits(base, g)

\* A walk that went well as far as node n, and the text q.
Reached(t, seen, w, n, q) ==
  w \in WalksOf(t, seen, TRUE) /\ w.status = "ok" /\ w.at = n /\ w.text = q

\* A node of the run replayed backwards.
LEMMA BackOne ==
  ASSUME NEW t, NEW seen, History(t, seen, TRUE), NEW i \in Nodes(t), NEW p,
         NEW w, Reached(t, seen, w, i, p), NEW q, Leads(t.nodes[i].inverse, p, q)
  PROVE  Reached(t, seen, Up(t, w), t.nodes[i].parent, q)
<1>9. w \in WalksOf(t, seen, TRUE) /\ w.at = i /\ w.status = "ok" /\ w.text = p
  BY DEF Reached
<1> DEFINE n == t.nodes[i]  d == DocApply(n.inverse, w.text)
<1>1. w.at # Root
  BY <1>9 DEF Nodes, Root, History, Ordered
<1>2. Up(t, w) \in WalksOf(t, seen, TRUE)
  BY <1>1, <1>9, UpKeeps
<1>3. d.status = "ok" /\ d.rope = q
  BY <1>9 DEF Leads
<1>4. Up(t, w) = Replay(w, n.inverse, n.parent, n.before)
  BY <1>9 DEF Up
<1>5. Replay(w, n.inverse, n.parent, n.before)
        = [w EXCEPT !.text = d.rope, !.at = n.parent, !.sel = n.before]
  BY <1>3 DEF Replay
<1>6. w \in [at : 0..Len(t.nodes), text : Texts, sel : Nat, status : Outcomes]
  BY <1>9 DEF WalksOf
<1> HIDE DEF n, d
<1>7. Up(t, w) = [w EXCEPT !.text = q, !.at = n.parent, !.sel = n.before]
  BY <1>3, <1>4, <1>5
<1>8. Up(t, w).status = "ok" /\ Up(t, w).at = n.parent /\ Up(t, w).text = q
  BY <1>6, <1>7, <1>9
<1> QED
  BY <1>2, <1>8 DEF n, Reached

\* Undo replays the run backwards to where it began, and stops there.
LEMMA RunIsUndone ==
  ASSUME NEW t, NEW seen, History(t, seen, TRUE), NEW txt, NEW from, NEW start,
         NEW base \in Nat, NEW g \in Nat, RecordedRun(t, seen, txt, from, start, base, g),
         NEW w, Reached(t, seen, w, t.current, txt), from # t.current
  PROVE  Reached(t, seen, UndoWalk(t, w), from, start)
<1> DEFINE len == Len(t.nodes)  way == [by |-> "undo", to |-> t.nodes[w.at].group]
           u == Up(t, w)  e == UndoWalk(t, w)
           Is(x, k) == Reached(t, seen, x, Stop(from, base, k), Shown(start, seen, base, k))
<1>1. /\ len \in Nat /\ base \in 0..len /\ from \in 0..base /\ g > 0
      /\ from # Root => t.nodes[from].group # g
      /\ w.at = Stop(from, base, len) /\ Is(w, len)
  BY DEF RecordedRun, History, Ordered, Reached
<1>2. base < len /\ len \in (base + 1)..len /\ len \in Nodes(t)
      /\ w.at = len
  <2>1. base # len
    BY <1>1 DEF Stop, Reached
  <2> QED
    BY <1>1, <2>1 DEF Nodes, Stop
<1>3. \A k \in (base + 1)..len :
        /\ t.nodes[k].group = g /\ t.nodes[k].parent = Stop(from, base, k - 1)
        /\ Leads(t.nodes[k].inverse, Shown(start, seen, base, k), Shown(start, seen, base, k - 1))
  BY DEF RecordedRun
<1>4. Is(u, len - 1)
  <2> DEFINE p == Shown(start, seen, base, len)  q == Shown(start, seen, base, len - 1)
  <2>1. /\ t.nodes[len].parent = Stop(from, base, len - 1)
        /\ Leads(t.nodes[len].inverse, p, q)
    BY <1>2, <1>3
  <2>2. len \in Nodes(t) /\ Reached(t, seen, w, len, p)
    BY <1>1, <1>2
  <2> HIDE DEF len, way, e, p, q
  <2>3. Reached(t, seen, u, t.nodes[len].parent, q)
    BY <2>1, <2>2, BackOne
  <2> QED
    BY <2>1, <2>3 DEF q
<1>5. e = Walked(t, u, way) /\ way.by = "undo" /\ way.to = g
  BY <1>2, <1>3 DEF UndoWalk
<1> HIDE DEF u, way, e
<1>6. PICK f : /\ f[0] = u /\ \A k \in 1..len : f[k] = Onward(t, f[k - 1], way)
               /\ e = f[len]
  BY <1>1, <1>5, WalkedIs
<1> DEFINE S == {j \in Nat : \E k \in base..(len - 1) :
                                /\ Is(f[j], k)
                                /\ (k = base \/ k = len - 1 - j)}
<1> HIDE DEF len, Is
<1>7. 0 \in S
  <2>1. len - 1 \in base..(len - 1)
    BY <1>1, <1>2
  <2>2. len - 1 = len - 1 - 0
    BY <1>1
  <2> QED
    BY <1>4, <1>6, <2>1, <2>2
<1>8. ASSUME NEW j \in 1..len, j - 1 \in S PROVE j \in S
  <2> DEFINE x == f[j - 1]
  <2>1. PICK k \in base..(len - 1) : Is(x, k) /\ (k = base \/ k = len - 1 - (j - 1))
    BY <1>8
  <2>2. f[j] = Onward(t, x, way) /\ j \in Nat
    BY <1>6
  <2> HIDE DEF x
  <2>3. /\ x \in WalksOf(t, seen, TRUE) /\ x.status = "ok" /\ x.at = Stop(from, base, k)
        /\ Reached(t, seen, x, Stop(from, base, k), Shown(start, seen, base, k))
    BY <2>1 DEF Is, Reached
  <2>4. CASE k = base
    <3>1. x.at = from
      BY <2>3, <2>4 DEF Stop
    <3>2. ~WalksOn(t, x.at, way)
      BY <1>1, <1>5, <3>1 DEF WalksOn, InGroup
    <3>3. f[j] = x
      BY <2>2, <3>2 DEF Onward
    <3> QED
      BY <2>1, <2>2, <2>4, <3>3
  <2>5. CASE k # base
    <3>1. k \in (base + 1)..len /\ k \in Nodes(t) /\ k # Root /\ k \in Nat
          /\ k - 1 \in base..(len - 1)
      BY <1>1, <2>5 DEF Nodes, Root, len
    <3>2. x.at = k
      BY <2>3, <2>5 DEF Stop
    <3> DEFINE p == Shown(start, seen, base, k)  q == Shown(start, seen, base, k - 1)
    <3>3. /\ t.nodes[k].group = g /\ t.nodes[k].parent = Stop(from, base, k - 1)
          /\ Leads(t.nodes[k].inverse, p, q) /\ Reached(t, seen, x, k, p)
      BY <1>3, <2>3, <3>1, <3>2
    <3>4. WalksOn(t, x.at, way)
      BY <1>1, <1>5, <3>1, <3>2, <3>3 DEF WalksOn, InGroup
    <3>5. f[j] = Up(t, x)
      BY <1>5, <2>2, <2>3, <3>4 DEF Onward
    <3> HIDE DEF p, q
    <3>6. Reached(t, seen, Up(t, x), t.nodes[k].parent, q)
      BY <3>1, <3>3, BackOne
    <3>8. Is(f[j], k - 1)
      BY <3>3, <3>5, <3>6 DEF Is, q
    <3>7. k - 1 = len - 1 - j
      BY <1>1, <2>1, <2>5
    <3> QED
      BY <2>2, <3>1, <3>7, <3>8
  <2> QED
    BY <2>4, <2>5
<1> HIDE DEF S
<1>9. \A j \in 0..len : j \in S
  BY <1>1, <1>7, <1>8, UpTo
<1>10. Is(e, base)
  <2>1. len \in S
    BY <1>1, <1>9
  <2>2. PICK k \in base..(len - 1) : Is(e, k) /\ (k = base \/ k = len - 1 - len)
    BY <1>6, <2>1 DEF S
  <2>3. k = base
    BY <1>1, <2>2
  <2> QED
    BY <2>2, <2>3
<1> QED
  BY <1>10 DEF Is, Stop, Shown, e

-----------------------------------------------------------------------------
\* What becomes of the numbers of groups.
LEMMA NumbersStay ==
  ASSUME NEW t, Numbered(t)
  PROVE  /\ Numbered(BeginGroup(t)) /\ BeginGroup(t).nodes = t.nodes
         /\ BeginGroup(t).current = t.current
         /\ BeginGroup(t).group = IF t.group = 0 THEN t.nextGroup ELSE t.group
         /\ Numbered(EndGroup(t)) /\ EndGroup(t).nodes = t.nodes /\ EndGroup(t).group = 0
         /\ EndGroup(t).current = t.current
<1> DEFINE g == BeginGroup(t)  e == EndGroup(t)
<1>1. /\ t = [nodes |-> t.nodes, current |-> t.current, group |-> t.group,
              nextGroup |-> t.nextGroup, nextSeq |-> t.nextSeq]
      /\ t.nextGroup \in Nat \ {0} /\ t.group \in 0..(t.nextGroup - 1)
      /\ \A k \in Nodes(t) : t.nodes[k].group \in 0..(t.nextGroup - 1)
  BY DEF Numbered
<1>3. CASE t.group = 0
  <2>1. g = [t EXCEPT !.group = t.nextGroup, !.nextGroup = @ + 1]
    BY <1>3 DEF BeginGroup
  <2> HIDE DEF g
  <2>2. g = [nodes |-> t.nodes, current |-> t.current, group |-> t.nextGroup,
             nextGroup |-> t.nextGroup + 1, nextSeq |-> t.nextSeq]
    BY <1>1, <2>1
  <2>3. /\ g.nodes = t.nodes /\ g.group = t.nextGroup /\ g.nextGroup = t.nextGroup + 1
        /\ g.current = t.current /\ g.nextSeq = t.nextSeq
    BY <2>2
  <2>4. Nodes(g) = Nodes(t)
    BY <2>3 DEF Nodes
  <2>5. \A k \in Nodes(t) : t.nodes[k].group \in 0..t.nextGroup
    BY <1>1
  <2>10. t.nextGroup + 1 \in Nat \ {0} /\ t.nextGroup + 1 - 1 = t.nextGroup
    BY <1>1
  <2>6. Numbered(g)
    BY <2>2, <2>3, <2>4, <2>5, <2>10 DEF Numbered
  <2>7. e = [nodes |-> t.nodes, current |-> t.current, group |-> 0,
             nextGroup |-> t.nextGroup, nextSeq |-> t.nextSeq]
    BY <1>1 DEF EndGroup
  <2> HIDE DEF e
  <2>8. /\ e.nodes = t.nodes /\ e.group = 0 /\ e.nextGroup = t.nextGroup
        /\ e.current = t.current /\ e.nextSeq = t.nextSeq
    BY <2>7
  <2>9. Numbered(e)
    BY <1>1, <2>7, <2>8 DEF Numbered, Nodes
  <2> QED
    BY <1>3, <2>3, <2>6, <2>8, <2>9 DEF g, e
<1>4. CASE t.group # 0
  <2>1. g = t
    BY <1>4 DEF BeginGroup
  <2>7. e = [nodes |-> t.nodes, current |-> t.current, group |-> 0,
             nextGroup |-> t.nextGroup, nextSeq |-> t.nextSeq]
    BY <1>1 DEF EndGroup
  <2> HIDE DEF e, g
  <2>8. /\ e.nodes = t.nodes /\ e.group = 0 /\ e.nextGroup = t.nextGroup
        /\ e.current = t.current /\ e.nextSeq = t.nextSeq
    BY <2>7
  <2>9. Numbered(e)
    BY <1>1, <2>7, <2>8 DEF Numbered, Nodes
  <2> QED
    BY <1>4, <2>1, <2>8, <2>9 DEF g, e
<1> QED
  BY <1>3, <1>4

\* A node pushed is in the group that is open.
LEMMA PushNumbers ==
  ASSUME NEW t \in TextTree, Numbered(t), Len(t.nodes) \in Nat,
         NEW cs, NEW inv, NEW before, NEW after
  PROVE  LET u == Push(t, cs, inv, before, after)
         IN  /\ Numbered(u) /\ u.group = t.group /\ Len(u.nodes) = Len(t.nodes) + 1
             /\ u.current = Len(t.nodes) + 1
             /\ u.nodes[Len(t.nodes) + 1].group = t.group
             /\ u.nodes[Len(t.nodes) + 1].parent = t.current
             /\ u.nodes[Len(t.nodes) + 1].inverse = inv
             /\ \A k \in Nodes(t) : u.nodes[k] = t.nodes[k]
<1> DEFINE len == Len(t.nodes)
           node == [parent |-> t.current, seq |-> t.nextSeq, group |-> t.group,
                    forward |-> cs, inverse |-> inv, before |-> before, after |-> after]
           u == Push(t, cs, inv, before, after)  nodes == Append(t.nodes, node)
           All == TextNode \cup {node}
<1>1. u = [t EXCEPT !.nodes = nodes, !.current = len + 1, !.nextSeq = @ + 1]
  BY DEF Push
<1>2. node.group = t.group /\ node.parent = t.current /\ node.inverse = inv
  OBVIOUS
<1>3. /\ t.nodes \in Seq(TextNode)
      /\ t.nextGroup \in Nat \ {0} /\ t.group \in 0..(t.nextGroup - 1)
      /\ \A k \in 1..len : t.nodes[k].group \in 0..(t.nextGroup - 1)
  BY DEF TextTree, Numbered, Nodes
<1> HIDE DEF node, u
<1>4. t.nodes \in Seq(All) /\ node \in All
  <2>1. TextNode \subseteq All
    OBVIOUS
  <2> HIDE DEF All
  <2>2. t.nodes \in Seq(All)
    BY <1>3, <2>1, SeqMonotonic
  <2> QED
    BY <2>2 DEF All
<1> HIDE DEF All
<1>5. Len(nodes) = len + 1 /\ nodes[len + 1] = node /\ \A k \in 1..len : nodes[k] = t.nodes[k]
  BY <1>4, AppendProperties
<1>6. /\ u.nodes = nodes /\ u.group = t.group /\ u.nextGroup = t.nextGroup
      /\ u.current = len + 1
      /\ u = [nodes |-> u.nodes, current |-> u.current, group |-> u.group,
              nextGroup |-> u.nextGroup, nextSeq |-> u.nextSeq]
  BY <1>1 DEF TextTree
<1> HIDE DEF nodes
<1>7. ASSUME NEW k \in Nodes(u) PROVE u.nodes[k].group \in 0..(u.nextGroup - 1)
  <2>1. k \in 1..(len + 1)
    BY <1>5, <1>6 DEF Nodes
  <2>2. CASE k = len + 1
    <3>1. u.nodes[k] = node
      BY <1>5, <1>6, <2>2
    <3> QED
      BY <1>2, <1>3, <1>6, <3>1
  <2>3. CASE k # len + 1
    <3>1. k \in 1..len
      BY <2>1, <2>3
    <3>2. u.nodes[k] = t.nodes[k]
      BY <1>5, <1>6, <3>1
    <3> QED
      BY <1>3, <1>6, <3>1, <3>2
  <2> QED
    BY <2>2, <2>3
<1>8. Numbered(u)
  BY <1>3, <1>6, <1>7 DEF Numbered
<1> QED
  BY <1>2, <1>5, <1>6, <1>8 DEF Nodes, u

\* The trees of the other windows are left alone.
LEMMA OthersKeepTheirTree ==
  ASSUME EditorInv, NEW w, NEW d, NEW txt
  PROVE  LET ws == WindowsAfter(w, d, txt)
         IN  /\ DOMAIN ws = 1..Len(windows) /\ Len(ws) = Len(windows)
             /\ ws[focus] = w
             /\ \A j \in 1..Len(windows) : j # focus => ws[j].undo = windows[j].undo
<1> DEFINE ws == WindowsAfter(w, d, txt)
<1>1. /\ DOMAIN windows = 1..Len(windows) /\ Len(windows) \in Nat
      /\ focus \in 1..Len(windows) /\ \A j \in 1..Len(windows) : windows[j] \in Window
  BY FocusIs, ElementOfSeq DEF EditorInv
<1>2. ws = [i \in 1..Len(windows) |->
              IF i = focus THEN w
              ELSE IF windows[i].doc = d /\ txt # docs[d] THEN Disturbed(windows[i], txt)
              ELSE windows[i]]
  BY <1>1 DEF WindowsAfter
<1>3. \A v \in Window : Disturbed(v, txt).undo = v.undo
  <2> TAKE v \in Window
  <2>1. CASE v.undo.nodes = <<>>
    <3>1. Disturbed(v, txt) = [v EXCEPT !.seen = <<txt>>]
      BY <2>1 DEF Disturbed
    <3> QED
      BY <3>1 DEF Window
  <2>2. CASE v.undo.nodes # <<>>
    <3>1. Disturbed(v, txt) = [v EXCEPT !.foreign = TRUE]
      BY <2>2 DEF Disturbed
    <3> QED
      BY <3>1 DEF Window
  <2> QED
    BY <2>1, <2>2
<1> HIDE DEF ws
<1>4. DOMAIN ws = 1..Len(windows) /\ ws[focus] = w
  BY <1>1, <1>2
<1>5. Len(ws) = Len(windows)
  BY <1>1, <1>4, LenProperties
<1>6. ASSUME NEW j \in 1..Len(windows), j # focus PROVE ws[j].undo = windows[j].undo
  <2>1. ws[j] = Disturbed(windows[j], txt) \/ ws[j] = windows[j]
    BY <1>2, <1>6
  <2> QED
    BY <1>1, <1>3, <2>1
<1> QED
  BY <1>4, <1>5, <1>6 DEF ws

\* The tree of one window became t.
LEMMA GroupsKept ==
  ASSUME EditorInv, GroupsClosed, NEW t, Numbered(t), NEW ws, windows' = ws,
         Len(ws) = Len(windows), focus' = focus,
         \A j \in 1..Len(windows) : ws[j].undo = IF j = focus THEN t ELSE windows[j].undo,
         mode' = "insert" \/ t.group = 0
  PROVE  GroupsClosed'
<1>1. \A j \in 1..Len(ws) : Numbered(ws[j].undo)
  BY DEF GroupsClosed
<1>2. \A j \in 1..Len(ws) : j # focus \/ mode' # "insert" => ws[j].undo.group = 0
  BY DEF GroupsClosed
<1>3. "split" \in Features \/ Len(ws) = 1
  BY DEF GroupsClosed
<1> QED
  BY <1>1, <1>2, <1>3 DEF GroupsClosed

\* Nothing became of the trees.
LEMMA TreesLeftAlone ==
  ASSUME EditorInv, GroupsClosed, NEW ws, windows' = ws, Len(ws) = Len(windows),
         focus' = focus, \A j \in 1..Len(windows) : ws[j].undo = windows[j].undo,
         mode' = mode \/ mode' = "insert"
  PROVE  GroupsClosed'
<1>1. \A j \in 1..Len(ws) : Numbered(ws[j].undo)
  BY DEF GroupsClosed
<1>2. \A j \in 1..Len(ws) : j # focus \/ mode' # "insert" => ws[j].undo.group = 0
  BY DEF GroupsClosed
<1>3. "split" \in Features \/ Len(ws) = 1
  BY DEF GroupsClosed
<1> QED
  BY <1>1, <1>2, <1>3 DEF GroupsClosed

\* What the focused window's tree is known to be.
LEMMA FocusNumbered ==
  ASSUME EditorInv, GroupsClosed
  PROVE  /\ W.undo \in TextTree /\ Numbered(W.undo) /\ Len(W.undo.nodes) \in Nat
         /\ W \in Window /\ focus \in 1..Len(windows)
         /\ mode # "insert" => W.undo.group = 0
<1>1. focus \in 1..Len(windows) /\ W \in Window /\ History(W.undo, W.seen, W.foreign)
  BY FocusIs DEF EditorInv
<1> QED
  BY <1>1 DEF GroupsClosed, W, History, Ordered

\* A transaction pushed, and a group begun with it only in insert mode.
LEMMA PushGroups ==
  ASSUME EditorInv, GroupsClosed, NEW cs, NEW head, NEW opens, PushEdit(cs, head, opens),
         opens \in BOOLEAN, mode' = "insert" \/ (mode' = mode /\ (opens => mode = "insert"))
  PROVE  GroupsClosed'
<1> DEFINE done == DocApply(cs, Text)
<1>1. CASE done.status # "ok"
  <2>1. windows' = windows /\ focus' = focus
    BY <1>1 DEF PushEdit, Crash
  <2> QED
    BY <2>1, TreesLeftAlone
<1>2. CASE done.status = "ok"
  <2> DEFINE u == Push(W.undo, cs, done.inverse, W.head, head)
             t == Grouped(u, opens)  more == Append(W.seen, done.rope)
             w == [W EXCEPT !.head = head, !.undo = t, !.seen = more]
             ws == WindowsAfter(w, W.doc, done.rope)
  <2>1. windows' = ws /\ focus' = focus
    BY <1>2 DEF PushEdit
  <2>2. /\ W.undo \in TextTree /\ Numbered(W.undo) /\ Len(W.undo.nodes) \in Nat
        /\ W \in Window /\ (mode # "insert" => W.undo.group = 0)
    BY FocusNumbered
  <2>3. Numbered(u) /\ u.group = W.undo.group
    <3> HIDE DEF done
    <3> QED
      BY <2>2, PushNumbers
  <2>4. w.undo = t
    <3> HIDE DEF t, done, u
    <3> QED
      BY <2>2 DEF Window
  <2> HIDE DEF w
  <2>5. /\ Len(ws) = Len(windows) /\ ws[focus] = w
        /\ \A j \in 1..Len(windows) : j # focus => ws[j].undo = windows[j].undo
    <3> HIDE DEF done
    <3> QED
      BY OthersKeepTheirTree
  <2> HIDE DEF ws
  <2>6. \A j \in 1..Len(windows) : ws[j].undo = IF j = focus THEN t ELSE windows[j].undo
    BY <2>4, <2>5
  <2>7. CASE opens
    <3>1. t = BeginGroup(u) /\ mode' = "insert"
      BY <2>7 DEF Grouped
    <3>2. Numbered(t)
      <4> HIDE DEF u
      <4> QED
        BY <2>3, <3>1, NumbersStay
    <3> HIDE DEF t
    <3> QED
      BY <2>1, <2>5, <2>6, <3>1, <3>2, GroupsKept
  <2>8. CASE ~opens
    <3>1. t = u
      BY <2>8 DEF Grouped
    <3> HIDE DEF t, u
    <3>2. mode' = "insert" \/ t.group = 0
      BY <2>2, <2>3, <3>1
    <3>3. Numbered(t)
      BY <2>3, <3>1
    <3> QED
      BY <2>1, <2>5, <2>6, <3>2, <3>3, GroupsKept
  <2> QED
    BY <2>7, <2>8
<1> QED
  BY <1>1, <1>2

\* A transaction pushed in insert mode, or without a group.
LEMMA PushingGroups ==
  ASSUME EditorInv, GroupsClosed,
         TypeChar \/ TypeEnter \/ Backspace \/ DeleteKey \/ DeleteOperator \/ Substitute \/ OpenLine
  PROVE  GroupsClosed'
<1>1. CASE TypeChar \/ TypeEnter
  <2>1. mode = "insert" /\ mode' = "insert"
    BY <1>1 DEF TypeChar, TypeEnter, InsertText, Typing
  <2>2. CASE Crash
    <3>1. windows' = windows /\ focus' = focus
      BY <2>2 DEF Crash
    <3> QED
      BY <2>1, <3>1, TreesLeftAlone
  <2>3. ASSUME NEW opens \in BOOLEAN, NEW cs, NEW head, PushEdit(cs, head, opens)
        PROVE  GroupsClosed'
    BY <2>1, <2>3, PushGroups
  <2>4. Crash \/ \E c \in Ink : \E opens \in BOOLEAN :
          PushEdit(Splice(Len(Text), W.head, 0, <<c>>), W.head + 1, opens)
    BY <1>1 DEF TypeChar, TypeEnter, InsertText
  <2> QED
    BY <2>2, <2>3, <2>4
<1>2. CASE Backspace
  <2>1. mode = "insert" /\ mode' = "insert"
    BY <1>2 DEF Backspace, Typing
  <2>2. PushEdit(Splice(Len(Text), W.head - 1, 1, <<>>), W.head - 1, TRUE)
    BY <1>2 DEF Backspace
  <2> QED
    BY <2>1, <2>2, PushGroups
<1>3. CASE DeleteKey
  <2>1. mode = "insert" /\ mode' = "insert"
    BY <1>3 DEF DeleteKey, Typing
  <2>2. PushEdit(Splice(Len(Text), W.head, 1, <<>>), W.head, TRUE)
    BY <1>3 DEF DeleteKey
  <2> QED
    BY <2>1, <2>2, PushGroups
<1>4. CASE DeleteOperator
  <2>1. mode' = mode
    BY <1>4 DEF DeleteOperator
  <2>2. ASSUME NEW cs, NEW head, PushEdit(cs, head, FALSE) PROVE GroupsClosed'
    BY <2>1, <2>2, PushGroups
  <2> QED
    BY <1>4, <2>2 DEF DeleteOperator
<1>5. CASE Substitute
  <2>1. mode' = mode
    BY <1>5 DEF Substitute
  <2>2. ASSUME NEW cs, NEW head, PushEdit(cs, head, FALSE) PROVE GroupsClosed'
    BY <2>1, <2>2, PushGroups
  <2> QED
    BY <1>5, <2>2 DEF Substitute
<1>6. CASE OpenLine
  <2>1. mode' = "insert"
    BY <1>6 DEF OpenLine, StartRun
  <2>2. ASSUME NEW cs, NEW head, PushEdit(cs, head, TRUE) PROVE GroupsClosed'
    BY <2>1, <2>2, PushGroups
  <2> QED
    BY <1>6, <2>2 DEF OpenLine
<1> QED
  BY <1>1, <1>2, <1>3, <1>4, <1>5, <1>6

\* The focused window's tree and cursor became t and h, and nothing else.
LEMMA GroupsOfFocus ==
  ASSUME EditorInv, GroupsClosed, NEW t, Numbered(t), NEW h, focus' = focus,
         windows' = [windows EXCEPT ![focus] = [W EXCEPT !.head = h, !.undo = t]],
         mode' = "insert" \/ t.group = 0
  PROVE  GroupsClosed'
<1> DEFINE w == [W EXCEPT !.head = h, !.undo = t]  ws == [windows EXCEPT ![focus] = w]
<1>1. W \in Window /\ focus \in 1..Len(windows) /\ DOMAIN windows = 1..Len(windows)
      /\ Len(windows) \in Nat /\ windows' = ws
  BY FocusIs DEF EditorInv
<1>2. w.undo = t
  BY <1>1 DEF Window
<1> HIDE DEF w
<1>3. /\ DOMAIN ws = 1..Len(windows)
      /\ \A j \in 1..Len(windows) : ws[j].undo = IF j = focus THEN t ELSE windows[j].undo
  BY <1>1, <1>2
<1>4. Len(ws) = Len(windows)
  <2> HIDE DEF ws
  <2>1. windows \in Seq(Window)
    BY DEF EditorInv
  <2> QED
    BY <1>1, <1>3, LenProperties
<1> HIDE DEF ws
<1> QED
  BY <1>1, <1>3, <1>4, GroupsKept

\* Esc, i, a, I and A, and c with nothing selected.
LEMMA ModeGroups ==
  ASSUME EditorInv, GroupsClosed, Escape \/ EnterInsert \/ ChangeOperator
  PROVE  GroupsClosed'
<1>1. /\ W \in Window /\ Numbered(W.undo) /\ focus \in DOMAIN windows
  BY FocusNumbered, FocusIs
<1> DEFINE b0 == BeginGroup(W.undo)  e0 == EndGroup(W.undo)
<1>2. Numbered(b0) /\ Numbered(e0) /\ e0.group = 0
  BY <1>1, NumbersStay
<1>3. CASE Escape
  <2>1. PICK h \in {W.head, W.head - 1} \cap Nat :
          windows' = [windows EXCEPT ![focus].head = h, ![focus].undo = EndGroup(@)]
    BY <1>3 DEF Escape
  <2>2. windows' = [windows EXCEPT ![focus] = [W EXCEPT !.head = h, !.undo = e0]]
    BY <1>1, <2>1 DEF W, Window
  <2>3. focus' = focus
    BY <1>3 DEF Escape
  <2> HIDE DEF e0
  <2> QED
    BY <1>2, <2>2, <2>3, GroupsOfFocus
<1>4. CASE EnterInsert
  <2>1. PICK h \in {W.head} \cup 0..Len(Text) :
          windows' = [windows EXCEPT ![focus].head = h, ![focus].undo = BeginGroup(@)]
    BY <1>4 DEF EnterInsert
  <2>2. windows' = [windows EXCEPT ![focus] = [W EXCEPT !.head = h, !.undo = b0]]
    BY <1>1, <2>1 DEF W, Window
  <2>3. focus' = focus /\ mode' = "insert"
    BY <1>4 DEF EnterInsert, StartRun
  <2> HIDE DEF b0
  <2> QED
    BY <1>2, <2>2, <2>3, GroupsOfFocus
<1>5. CASE ChangeOperator
  <2>1. mode' = "insert"
    BY <1>5 DEF ChangeOperator, StartRun
  <2>2. ASSUME NEW cs, NEW head, PushEdit(cs, head, TRUE) PROVE GroupsClosed'
    BY <2>1, <2>2, PushGroups
  <2>3. CASE windows' = [windows EXCEPT ![focus].undo = BeginGroup(@)] /\ focus' = focus
    <3> DEFINE h == W.head
    <3>1. windows' = [windows EXCEPT ![focus] = [W EXCEPT !.head = h, !.undo = b0]]
      BY <1>1, <2>3 DEF W, Window
    <3> HIDE DEF b0, h
    <3> QED
      BY <1>2, <2>1, <2>3, <3>1, GroupsOfFocus
  <2>4. \/ windows' = [windows EXCEPT ![focus].undo = BeginGroup(@)] /\ focus' = focus
        \/ \E cs, head : PushEdit(cs, head, TRUE)
    BY <1>5 DEF ChangeOperator
  <2> QED
    BY <2>2, <2>3, <2>4
<1> QED
  BY <1>3, <1>4, <1>5

\* Undo and redo leave the groups as they are.
LEMMA ReplayedGroups ==
  ASSUME EditorInv, GroupsClosed, UndoKey \/ RedoKey \/ OlderKey \/ NewerKey
  PROVE  GroupsClosed'
<1>1. PICK e : Replayed(e)
  BY DEF UndoKey, RedoKey, OlderKey, NewerKey
<1>2. mode # "insert"
  BY <1>1 DEF Replayed, Normal
<1>3. CASE e.status = "panic"
  <2>1. windows' = windows /\ focus' = focus /\ mode' = mode
    BY <1>1, <1>3 DEF Replayed, Crash
  <2> QED
    BY <2>1, TreesLeftAlone
<1>4. CASE e.status # "panic"
  <2> DEFINE w == [W EXCEPT !.undo.current = e.at,
                            !.head = IF e.status = "ok" THEN e.sel ELSE @]
             t == [W.undo EXCEPT !.current = e.at]
             ws == WindowsAfter(w, W.doc, e.text)
  <2>1. windows' = ws /\ focus' = focus
    BY <1>1, <1>4 DEF Replayed
  <2>2. W \in Window /\ W.undo \in TextTree /\ Numbered(W.undo) /\ W.undo.group = 0
    BY <1>2, FocusNumbered
  <2>3. w.undo = t
    BY <2>2 DEF Window
  <2>4. t.nodes = W.undo.nodes /\ t.group = 0 /\ t.nextGroup = W.undo.nextGroup
        /\ t = [nodes |-> t.nodes, current |-> t.current, group |-> t.group,
                nextGroup |-> t.nextGroup, nextSeq |-> t.nextSeq]
    BY <2>2 DEF TextTree
  <2> HIDE DEF w, t
  <2>5. Numbered(t)
    BY <2>2, <2>4 DEF Numbered, Nodes
  <2>6. /\ Len(ws) = Len(windows) /\ ws[focus] = w
        /\ \A j \in 1..Len(windows) : j # focus => ws[j].undo = windows[j].undo
    BY OthersKeepTheirTree
  <2> HIDE DEF ws
  <2>7. \A j \in 1..Len(windows) : ws[j].undo = IF j = focus THEN t ELSE windows[j].undo
    BY <2>3, <2>6
  <2> QED
    BY <2>1, <2>4, <2>5, <2>6, <2>7, GroupsKept
<1> QED
  BY <1>3, <1>4

\* A tree just planted.
LEMMA FreshNumbers == Numbered(EmptyTree) /\ EmptyTree.group = 0
<1> DEFINE t == EmptyTree
<1>1. t = [nodes |-> <<>>, current |-> Root, group |-> 0, nextGroup |-> 1, nextSeq |-> 1]
  BY DEF EmptyTree
<1>2. Nodes(t) = {}
  BY <1>1 DEF Nodes
<1> HIDE DEF t
<1>3. Numbered(t) /\ t.group = 0
  BY <1>1, <1>2 DEF Numbered
<1> QED
  BY <1>3 DEF t

\* Windows opened, focused and moved in: the mouse, which also works in insert mode, has
\* one window to click in.
LEMMA FocusGroups ==
  ASSUME ~({"split", "mouse"} \subseteq Features), EditorInv, GroupsClosed,
         Move \/ Split \/ FocusWindow \/ Click
  PROVE  GroupsClosed'
<1>1. /\ W \in Window /\ focus \in 1..Len(windows) /\ DOMAIN windows = 1..Len(windows)
      /\ Numbered(W.undo) /\ Len(windows) \in Nat /\ windows \in Seq(Window)
      /\ mode # "insert" => W.undo.group = 0
  BY FocusIs, FocusNumbered DEF EditorInv
<1>2. ASSUME NEW h, windows' = [windows EXCEPT ![focus].head = h],
             focus' = focus, mode' = mode
      PROVE  GroupsClosed'
  <2> DEFINE w == [W EXCEPT !.head = h]  ws == [windows EXCEPT ![focus] = w]
  <2>1. windows' = ws
    BY <1>1, <1>2 DEF W
  <2>2. w.undo = W.undo
    BY <1>1 DEF Window
  <2> HIDE DEF w
  <2>3. /\ DOMAIN ws = 1..Len(windows)
        /\ \A j \in 1..Len(windows) : ws[j].undo = windows[j].undo
    BY <1>1, <2>2 DEF W
  <2> HIDE DEF ws
  <2>4. Len(ws) = Len(windows)
    BY <1>1, <2>3, LenProperties
  <2> QED
    BY <1>2, <2>1, <2>3, <2>4, TreesLeftAlone
<1>3. CASE Move
  <2>1. \E h \in 0..Len(Text) : windows' = [windows EXCEPT ![focus].head = h]
    BY <1>3 DEF Move
  <2>2. focus' = focus /\ mode' = mode
    BY <1>3 DEF Move
  <2> QED
    BY <1>2, <2>1, <2>2
<1>4. CASE Click
  <2>1. "split" \notin Features /\ Len(windows) = 1
    BY <1>4 DEF Click, GroupsClosed
  <2>2. focus' = focus /\ mode' = mode
    BY <1>1, <1>4, <2>1 DEF Click
  <2>3. \E h : windows' = [windows EXCEPT ![focus'].head = h]
    BY <1>4 DEF Click
  <2> QED
    BY <1>2, <2>2, <2>3
<1>5. CASE FocusWindow
  <2>1. windows' = windows /\ mode' = mode /\ mode # "insert"
    BY <1>5 DEF FocusWindow, Normal
  <2>2. \A i \in 1..Len(windows) : windows[i].undo.group = 0
    BY <2>1 DEF GroupsClosed
  <2> QED
    BY <2>1, <2>2 DEF GroupsClosed
<1>6. CASE Split
  <2> DEFINE w == NewWindow(W.doc, Text)  ws == Append(windows, w)
  <2>1. windows' = ws /\ focus' = focus /\ mode' = mode /\ "split" \in Features
    BY <1>6 DEF Split
  <2>2. w.undo = EmptyTree
    BY DEF NewWindow
  <2>3. w \in Window
    <3>1. WindowFits(NewWindow(W.doc, docs[W.doc]), docs)
      BY FreshFits, FocusIs DEF EditorInv
    <3> QED
      BY <3>1 DEF WindowFits, Text
  <2> HIDE DEF w
  <2>4. /\ Len(ws) = Len(windows) + 1 /\ ws[Len(windows) + 1] = w
        /\ \A i \in 1..Len(windows) : ws[i] = windows[i]
    BY <1>1, <2>3, AppendProperties
  <2> HIDE DEF ws
  <2>5. ASSUME NEW i \in 1..Len(ws)
        PROVE  Numbered(ws[i].undo) /\ (i # focus \/ mode # "insert" => ws[i].undo.group = 0)
    <3>1. CASE i = Len(windows) + 1
      <4>1. ws[i].undo = EmptyTree
        BY <2>2, <2>4, <3>1
      <4> QED
        BY <4>1, FreshNumbers
    <3>2. CASE i # Len(windows) + 1
      <4>1. i \in 1..Len(windows) /\ ws[i] = windows[i]
        BY <1>1, <2>4, <3>2
      <4> QED
        BY <4>1 DEF GroupsClosed
    <3> QED
      BY <3>1, <3>2
  <2> QED
    BY <2>1, <2>5 DEF GroupsClosed
<1> QED
  BY <1>3, <1>4, <1>5, <1>6

\* Buffers shown, and edits from outside: trees are told of them or left alone.
LEMMA OutsideGroups ==
  ASSUME EditorInv, GroupsClosed, OpenFile \/ SwitchBuffer \/ LspEdit \/ PluginEdit
  PROVE  GroupsClosed'
<1>1. /\ W \in Window /\ focus \in 1..Len(windows) /\ DOMAIN windows = 1..Len(windows)
      /\ Len(windows) \in Nat /\ windows \in Seq(Window)
  BY FocusIs DEF EditorInv
<1>2. ASSUME NEW v \in Window, NEW txt PROVE Disturbed(v, txt).undo = v.undo
  <2>1. CASE v.undo.nodes = <<>>
    <3>1. Disturbed(v, txt) = [v EXCEPT !.seen = <<txt>>]
      BY <2>1 DEF Disturbed
    <3> QED
      BY <3>1 DEF Window
  <2>2. CASE v.undo.nodes # <<>>
    <3>1. Disturbed(v, txt) = [v EXCEPT !.foreign = TRUE]
      BY <2>2 DEF Disturbed
    <3> QED
      BY <3>1 DEF Window
  <2> QED
    BY <2>1, <2>2
<1>3. ASSUME NEW d, NEW txt, Show(d, txt)  PROVE GroupsClosed' \/ mode' # mode
  <2> DEFINE v == Disturbed(W, txt)  w == [v EXCEPT !.doc = d, !.head = 0]
             ws == [windows EXCEPT ![focus] = w]
  <2>1. windows' = ws /\ focus' = focus /\ mode' = mode
    BY <1>3 DEF Show
  <2>2. v.undo = W.undo
    BY <1>1, <1>2
  <2>3. w.undo = v.undo
    OBVIOUS
  <2> HIDE DEF v, w
  <2>4. /\ DOMAIN ws = 1..Len(windows)
        /\ \A j \in 1..Len(windows) : ws[j].undo = windows[j].undo
    BY <1>1, <2>2, <2>3 DEF W
  <2> HIDE DEF ws
  <2>5. Len(ws) = Len(windows)
    BY <1>1, <2>4, LenProperties
  <2> QED
    BY <2>1, <2>4, <2>5, TreesLeftAlone
<1>4. CASE OpenFile \/ SwitchBuffer
  <2>1. \E d, txt : Show(d, txt)
    BY <1>4 DEF OpenFile, SwitchBuffer
  <2>2. \A d, txt : Show(d, txt) => mode' = mode
    BY DEF Show
  <2> QED
    BY <1>3, <2>1, <2>2
<1>5. CASE LspEdit
  <2>1. mode' = mode
    BY <1>5 DEF LspEdit
  <2>2. ASSUME NEW cs, NEW head, PushEdit(cs, head, FALSE) PROVE GroupsClosed'
    BY <2>1, <2>2, PushGroups
  <2>3. ASSUME NEW d, NEW txt, windows' = WindowsAfter(W, d, txt), focus' = focus
        PROVE  GroupsClosed'
    <3> DEFINE ws == WindowsAfter(W, d, txt)
    <3>1. /\ Len(ws) = Len(windows) /\ ws[focus] = W
          /\ \A j \in 1..Len(windows) : j # focus => ws[j].undo = windows[j].undo
      BY OthersKeepTheirTree
    <3>2. windows' = ws
      BY <2>3
    <3> HIDE DEF ws
    <3>3. \A j \in 1..Len(windows) : ws[j].undo = windows[j].undo
      BY <3>1 DEF W
    <3> QED
      BY <2>1, <2>3, <3>1, <3>2, <3>3, TreesLeftAlone
  <2>4. \/ \E cs, head : PushEdit(cs, head, FALSE)
        \/ \E d, txt : windows' = WindowsAfter(W, d, txt) /\ focus' = focus
    BY <1>5 DEF LspEdit
  <2> QED
    BY <2>2, <2>3, <2>4
<1>6. CASE PluginEdit
  <2>1. mode' = mode /\ focus' = focus
    BY <1>6 DEF PluginEdit
  <2>2. PICK d, txt : windows' = [i \in DOMAIN windows |->
                                    IF windows[i].doc = d /\ txt # docs[d]
                                    THEN Disturbed(windows[i], txt) ELSE windows[i]]
    BY <1>6 DEF PluginEdit
  <2> DEFINE ws == [i \in DOMAIN windows |->
                      IF windows[i].doc = d /\ txt # docs[d]
                      THEN Disturbed(windows[i], txt) ELSE windows[i]]
  <2>3. windows' = ws
    BY <2>2
  <2>4. DOMAIN ws = 1..Len(windows)
    BY <1>1
  <2>5. ASSUME NEW j \in 1..Len(windows) PROVE ws[j].undo = windows[j].undo
    <3>1. windows[j] \in Window
      BY <1>1, ElementOfSeq
    <3>2. ws[j] = Disturbed(windows[j], txt) \/ ws[j] = windows[j]
      BY <1>1
    <3> QED
      BY <1>2, <3>1, <3>2
  <2> HIDE DEF ws
  <2>6. Len(ws) = Len(windows)
    BY <1>1, <2>4, LenProperties
  <2> QED
    BY <2>1, <2>3, <2>5, <2>6, TreesLeftAlone
<1> QED
  BY <1>4, <1>5, <1>6

\* One step keeps groups closed but that of the run.
LEMMA GroupsClosedKeeps ==
  ASSUME ~({"split", "mouse"} \subseteq Features), EditorInv, GroupsClosed,
         [EditorNext]_editorVars
  PROVE  GroupsClosed'
<1>1. CASE \/ TypeChar \/ TypeEnter \/ Backspace \/ DeleteKey \/ DeleteOperator \/ Substitute
           \/ OpenLine
  BY <1>1, PushingGroups
<1>2. CASE Escape \/ EnterInsert \/ ChangeOperator
  BY <1>2, ModeGroups
<1>3. CASE UndoKey \/ RedoKey \/ OlderKey \/ NewerKey
  BY <1>3, ReplayedGroups
<1>4. CASE Move \/ Split \/ FocusWindow \/ Click
  BY <1>4, FocusGroups
<1>5. CASE OpenFile \/ SwitchBuffer \/ LspEdit \/ PluginEdit
  BY <1>5, OutsideGroups
<1>6. CASE UNCHANGED editorVars
  <2>1. windows' = windows /\ focus' = focus /\ mode' = mode
    BY <1>6 DEF editorVars
  <2> QED
    BY <2>1, TreesLeftAlone
<1> QED
  BY <1>1, <1>2, <1>3, <1>4, <1>5, <1>6 DEF EditorNext

-----------------------------------------------------------------------------
\* A node pushed into the run's group is its next.
LEMMA RunGrows ==
  ASSUME NEW t, NEW seen, History(t, seen, TRUE), Numbered(t), NEW txt, NEW from, NEW start,
         NEW base \in Nat, NEW g \in Nat, RecordedRun(t, seen, txt, from, start, base, g),
         t.group = g, NEW r \in Texts, NEW cs, NEW inv, Leads(inv, r, txt),
         NEW before, NEW after
  PROVE  RecordedRun(Push(t, cs, inv, before, after), Append(seen, r), r, from, start, base, g)
<1> DEFINE u == Push(t, cs, inv, before, after)  more == Append(seen, r)  len == Len(t.nodes)
<1>1. /\ t \in TextTree /\ len \in Nat /\ seen \in Seq(Texts) /\ Len(seen) = len + 1
  BY DEF History, Ordered
<1>2. /\ Len(u.nodes) = len + 1 /\ u.current = len + 1
      /\ u.nodes[len + 1].group = g /\ u.nodes[len + 1].parent = t.current
      /\ u.nodes[len + 1].inverse = inv
      /\ \A k \in 1..len : u.nodes[k] = t.nodes[k]
  BY <1>1, PushNumbers DEF Nodes
<1> HIDE DEF u
<1>3. Len(more) = len + 2 /\ more[len + 2] = r /\ \A k \in 1..(len + 1) : more[k] = seen[k]
  BY <1>1, AppendProperties
<1> HIDE DEF more, len
<1>4. /\ base \in 0..len /\ from \in 0..base /\ g > 0
      /\ from # Root => t.nodes[from].group # g
      /\ t.current = Stop(from, base, len) /\ txt = Shown(start, seen, base, len)
      /\ \A k \in (base + 1)..len :
           /\ t.nodes[k].group = g /\ t.nodes[k].parent = Stop(from, base, k - 1)
           /\ Leads(t.nodes[k].inverse, Shown(start, seen, base, k), Shown(start, seen, base, k - 1))
  BY DEF RecordedRun, len
<1>5. \A k \in base..len : Shown(start, more, base, k) = Shown(start, seen, base, k)
  BY <1>1, <1>3, <1>4 DEF Shown
<1>6. Shown(start, more, base, len + 1) = r /\ Stop(from, base, len + 1) = len + 1
  BY <1>1, <1>3, <1>4 DEF Shown, Stop
<1>7. ASSUME NEW k \in (base + 1)..(len + 1)
      PROVE  /\ u.nodes[k].group = g /\ u.nodes[k].parent = Stop(from, base, k - 1)
             /\ Leads(u.nodes[k].inverse, Shown(start, more, base, k),
                      Shown(start, more, base, k - 1))
  <2>1. CASE k = len + 1
    <3>1. k - 1 = len /\ len \in base..len
      BY <1>1, <1>4, <2>1
    <3>2. Shown(start, more, base, k) = r /\ Shown(start, more, base, k - 1) = txt
      BY <1>4, <1>5, <1>6, <2>1, <3>1
    <3> QED
      BY <1>2, <1>4, <2>1, <3>1, <3>2
  <2>2. CASE k # len + 1
    <3>1. k \in (base + 1)..len /\ k \in 1..len /\ k \in base..len /\ k - 1 \in base..len
      BY <1>1, <1>4, <2>2
    <3>2. u.nodes[k] = t.nodes[k]
      BY <1>2, <3>1
    <3> QED
      BY <1>4, <1>5, <3>1, <3>2
  <2> QED
    BY <2>1, <2>2
<1>8. from # Root => u.nodes[from].group # g
  <2>1. from # Root => from \in 1..len
    BY <1>1, <1>4 DEF Root
  <2> QED
    BY <1>2, <1>4, <2>1
<1>9. base \in 0..(len + 1)
  BY <1>1, <1>4
<1>10. RecordedRun(u, more, r, from, start, base, g)
  BY <1>2, <1>4, <1>6, <1>7, <1>8, <1>9 DEF RecordedRun
<1> QED
  BY <1>10 DEF u, more

\* A run just begun has no node.
LEMMA RunBegins ==
  ASSUME NEW t, NEW seen, History(t, seen, TRUE), Numbered(t), NEW txt
  PROVE  RecordedRun(t, seen, txt, t.current, txt, Len(t.nodes), t.nextGroup)
<1> DEFINE len == Len(t.nodes)  g == t.nextGroup
<1>1. len \in Nat /\ t.current \in 0..len /\ g \in Nat \ {0}
  BY DEF History, Ordered, Numbered
<1>2. t.current # Root => t.nodes[t.current].group # g
  <2>1. t.current # Root => t.current \in Nodes(t)
    BY <1>1 DEF Nodes, Root
  <2> QED
    BY <1>1, <2>1 DEF Numbered
<1>3. (len + 1)..len = {}
  BY <1>1
<1>4. Stop(t.current, len, len) = t.current /\ Shown(txt, seen, len, len) = txt
  BY DEF Stop, Shown
<1> HIDE DEF len, g
<1>5. RecordedRun(t, seen, txt, t.current, txt, len, g)
  BY <1>1, <1>2, <1>3, <1>4 DEF RecordedRun, len
<1> QED
  BY <1>5 DEF len, g

\* What typing does, if it does not end the editor: an edit made for the text.
LEMMA TypingPushes ==
  ASSUME EditorInv, TypeChar \/ TypeEnter \/ Backspace \/ DeleteKey
  PROVE  \/ Crash
         \/ \E cs \in ChangesOf(Chars) : \E head \in Nat : \E opens \in BOOLEAN :
              Fitting(cs, Text) /\ PushEdit(cs, head, opens)
<1>1. /\ W.head \in Nat /\ Len(Text) \in Nat /\ Text \in Seq(Chars)
      /\ <<>> \in Seq(Chars)
  BY FocusIs, TypedIsText DEF Texts
<1>2. ASSUME NEW from \in Nat, NEW n \in Nat, from + n <= Len(Text), NEW q \in Seq(Chars),
             NEW head \in Nat, NEW opens \in BOOLEAN,
             PushEdit(Splice(Len(Text), from, n, q), head, opens)
      PROVE  \E cs \in ChangesOf(Chars) : \E h \in Nat : \E o \in BOOLEAN :
               Fitting(cs, Text) /\ PushEdit(cs, h, o)
  <2> DEFINE cs == Splice(Len(Text), from, n, q)
  <2>1. cs \in ChangesOf(Chars) /\ Fitting(cs, Text)
    BY <1>1, <1>2, SpliceFits
  <2>2. PushEdit(cs, head, opens)
    BY <1>2
  <2> HIDE DEF cs
  <2> QED
    BY <2>1, <2>2
<1>3. CASE TypeChar \/ TypeEnter
  <2>1. ASSUME NEW opens \in BOOLEAN, InsertText(opens), ~Crash
        PROVE  \E cs \in ChangesOf(Chars) : \E h \in Nat : \E o \in BOOLEAN :
                 Fitting(cs, Text) /\ PushEdit(cs, h, o)
    <3>1. PICK c \in Ink : PushEdit(Splice(Len(Text), W.head, 0, <<c>>), W.head + 1, opens)
      BY <2>1 DEF InsertText
    <3>2. ~Stale
      BY <2>1 DEF InsertText
    <3> DEFINE from == W.head  h == W.head + 1  q == <<c>>
    <3>3. /\ from \in Nat /\ from + 0 <= Len(Text) /\ h \in Nat /\ q \in Seq(Chars)
          /\ PushEdit(Splice(Len(Text), from, 0, q), h, opens)
      BY <1>1, <3>1, <3>2, TypedIsText DEF Stale
    <3> HIDE DEF from, h, q
    <3> QED
      BY <1>2, <3>3
  <2> QED
    BY <1>3, <2>1 DEF TypeChar, TypeEnter
<1>4. CASE Backspace
  <2> DEFINE from == W.head - 1
  <2>1. W.head > 0 /\ W.head - 1 < Len(Text)
    BY <1>4 DEF Backspace
  <2>2. from \in Nat /\ from + 1 <= Len(Text)
    BY <1>1, <2>1
  <2>3. PushEdit(Splice(Len(Text), from, 1, <<>>), from, TRUE)
    BY <1>4 DEF Backspace
  <2> HIDE DEF from
  <2> QED
    BY <1>1, <1>2, <2>2, <2>3
<1>5. CASE DeleteKey
  <2> DEFINE from == W.head
  <2>1. W.head < Len(Text)
    BY <1>5 DEF DeleteKey
  <2>2. from \in Nat /\ from + 1 <= Len(Text)
    BY <1>1, <2>1
  <2>3. PushEdit(Splice(Len(Text), from, 1, <<>>), from, TRUE)
    BY <1>5 DEF DeleteKey
  <2> HIDE DEF from
  <2> QED
    BY <1>1, <1>2, <2>2, <2>3
<1> QED
  BY <1>3, <1>4, <1>5

\* What an edit made for the text leaves in the focused window.
LEMMA PushedIs ==
  ASSUME EditorInv, NEW cs \in ChangesOf(Chars), Fitting(cs, Text),
         NEW head \in Nat, NEW opens, PushEdit(cs, head, opens)
  PROVE  \E r \in Texts : \E inv :
           /\ Leads(inv, r, Text)
           /\ W'.undo = Grouped(Push(W.undo, cs, inv, W.head, head), opens)
           /\ W'.seen = Append(W.seen, r) /\ Text' = r
<1> DEFINE done == DocApply(cs, Text)  r == done.rope  inv == done.inverse
           t == Grouped(Push(W.undo, cs, inv, W.head, head), opens)  more == Append(W.seen, r)
           w == [W EXCEPT !.head = head, !.undo = t, !.seen = more]
           ds == [docs EXCEPT ![W.doc] = r]  ws == WindowsAfter(w, W.doc, r)
<1>1. W \in Window /\ W.doc \in 1..Len(docs) /\ Text \in Texts /\ docs \in Seq(Texts)
  BY FocusIs DEF EditorInv
<1>2. done.status = "ok" /\ r \in Texts /\ Leads(inv, r, Text)
  <2>1. Text \in Seq(Chars)
    BY <1>1 DEF Texts
  <2> QED
    BY <2>1, DocumentApplies DEF Leads, Texts
<1>3. docs' = ds /\ windows' = ws /\ focus' = focus
  <2>1. Store(W.doc, r) /\ windows' = ws /\ UNCHANGED <<focus, status>>
    BY <1>2 DEF PushEdit
  <2> QED
    BY <2>1 DEF Store
<1> HIDE DEF done, r, inv, t, more
<1>4. w.undo = t /\ w.seen = more /\ w.doc = W.doc
  BY <1>1 DEF Window
<1>5. ds[W.doc] = r
  BY <1>1, <1>2, ExceptSeq
<1> HIDE DEF w
<1>6. ws[focus] = w
  BY OthersKeepTheirTree
<1> HIDE DEF ds, ws
<1>7. W' = w
  BY <1>3, <1>6 DEF W
<1>8. Text' = r
  BY <1>3, <1>4, <1>5, <1>7 DEF Text
<1> QED
  BY <1>2, <1>4, <1>7, <1>8 DEF t, more

\* The run goes on, or is over, where the focused window's tree and document stay.
LEMMA RunStays ==
  ASSUME RunInv, W'.undo.nodes = W.undo.nodes, W'.undo.current = W.undo.current,
         W'.seen = W.seen, Text' = Text,
         \/ run' = run /\ mode' = mode /\ W'.undo.group = W.undo.group
         \/ run.phase = "on" /\ run' = [run EXCEPT !.phase = "over"] /\ mode' = "normal"
  PROVE  RunInv'
<1>1. run = [kind |-> run.kind, start |-> run.start, from |-> run.from, phase |-> run.phase]
  BY DEF RunInv
<1>2. \A base, g : RecordedRun(W.undo, W.seen, Text, run.from, run.start, base, g)
        => RecordedRun(W'.undo, W'.seen, Text', run.from, run.start, base, g)
  BY DEF RecordedRun
<1>3. CASE run' = run /\ mode' = mode /\ W'.undo.group = W.undo.group
  <2>1. \A base, g : RunFits(base, g) => RunFits(base, g)'
    BY <1>2, <1>3 DEF RunFits
  <2> QED
    BY <1>1, <1>3, <2>1 DEF RunInv
<1>4. CASE run.phase = "on" /\ run' = [run EXCEPT !.phase = "over"] /\ mode' = "normal"
  <2>1. run' = [kind |-> run.kind, start |-> run.start, from |-> run.from, phase |-> "over"]
    BY <1>1, <1>4
  <2>2. /\ run'.kind = run.kind /\ run'.start = run.start /\ run'.from = run.from
        /\ run'.phase = "over"
    BY <2>1
  <2>3. \A base, g : RunFits(base, g) => RunFits(base, g)'
    BY <1>2, <1>4, <2>2 DEF RunFits
  <2> QED
    BY <1>1, <2>1, <2>2, <2>3 DEF RunInv
<1> QED
  BY <1>3, <1>4

\* A run that is gone, or was not entered with i, a, I or A, owes nothing.
LEMMA RunGone ==
  ASSUME RunInv,
         \/ RunIs("gone")
         \/ \E kind \in {"o", "c"} : \E start, from :
              run' = [kind |-> kind, start |-> start, from |-> from, phase |-> "on"]
  PROVE  RunInv'
<1>1. CASE RunIs("gone")
  <2>1. run = [kind |-> run.kind, start |-> run.start, from |-> run.from, phase |-> run.phase]
    BY DEF RunInv
  <2>2. run' = [kind |-> run.kind, start |-> run.start, from |-> run.from, phase |-> "gone"]
    BY <1>1, <2>1 DEF RunIs
  <2>3. run' = [kind |-> run'.kind, start |-> run'.start, from |-> run'.from,
                phase |-> run'.phase] /\ run'.phase = "gone"
    BY <2>2
  <2> QED
    BY <2>3 DEF RunInv
<1>2. ASSUME NEW kind \in {"o", "c"}, NEW start, NEW from,
             run' = [kind |-> kind, start |-> start, from |-> from, phase |-> "on"]
      PROVE  RunInv'
  <2>1. run' = [kind |-> run'.kind, start |-> run'.start, from |-> run'.from,
                phase |-> run'.phase] /\ run'.kind # "i"
    BY <1>2
  <2> QED
    BY <2>1 DEF RunInv
<1> QED
  BY <1>1, <1>2

\* Typing adds to the run that is on.
LEMMA TypingRuns ==
  ASSUME EditorInv, GroupsClosed, RunInv, TypeChar \/ TypeEnter \/ Backspace \/ DeleteKey
  PROVE  RunInv'
<1>1. run' = run /\ mode' = mode /\ mode = "insert"
  BY DEF TypeChar, TypeEnter, InsertText, Backspace, DeleteKey, Typing
<1>2. CASE Crash
  <2>1. docs' = docs /\ windows' = windows /\ focus' = focus
    BY <1>2 DEF Crash
  <2>2. W' = W /\ Text' = Text
    BY <2>1 DEF W, Text
  <2> QED
    BY <1>1, <2>2, RunStays
<1>3. ASSUME NEW cs \in ChangesOf(Chars), NEW head \in Nat, NEW opens \in BOOLEAN,
             Fitting(cs, Text), PushEdit(cs, head, opens)
      PROVE  RunInv'
  <2>1. CASE ~(run.kind = "i" /\ run.phase \in {"on", "over"})
    BY <1>1, <2>1 DEF RunInv
  <2>2. CASE run.kind = "i" /\ run.phase \in {"on", "over"}
    <3>1. PICK base \in Nat, g \in Nat : RunFits(base, g)
      BY <2>2 DEF RunInv
    <3>2. /\ run.phase = "on" /\ W.undo.group = g /\ g > 0
          /\ RecordedRun(W.undo, W.seen, Text, run.from, run.start, base, g)
      BY <1>1, <2>2, <3>1 DEF RunFits, RecordedRun
    <3>3. \E r \in Texts : \E inv :
            /\ Leads(inv, r, Text)
            /\ W'.undo = Grouped(Push(W.undo, cs, inv, W.head, head), opens)
            /\ W'.seen = Append(W.seen, r) /\ Text' = r
      BY <1>3, PushedIs
    <3>4. PICK r \in Texts :
            \E inv :
              /\ Leads(inv, r, Text)
              /\ W'.undo = Grouped(Push(W.undo, cs, inv, W.head, head), opens)
              /\ W'.seen = Append(W.seen, r) /\ Text' = r
      BY <3>3
    <3>5. PICK inv : /\ Leads(inv, r, Text)
                     /\ W'.undo = Grouped(Push(W.undo, cs, inv, W.head, head), opens)
                     /\ W'.seen = Append(W.seen, r) /\ Text' = r
      BY <3>4
    <3> DEFINE t == W.undo  q == W.seen  pos == W.head  u == Push(t, cs, inv, pos, head)
               txt == Text  st == run.start  at0 == run.from
    <3>6. /\ t \in TextTree /\ Numbered(t) /\ Len(t.nodes) \in Nat /\ History(t, q, TRUE)
      BY FocusNumbered, FocusIs DEF History
    <3>7. t.group = g /\ RecordedRun(t, q, txt, at0, st, base, g) /\ Leads(inv, r, txt)
      BY <3>2, <3>5
    <3>8. W'.undo = Grouped(u, opens) /\ W'.seen = Append(q, r)
      BY <3>5
    <3> HIDE DEF t, q, pos, txt, st, at0
    <3>9. u.group = g
      BY <3>6, <3>7, PushNumbers
    <3>10. RecordedRun(u, Append(q, r), r, at0, st, base, g)
      BY <3>6, <3>7, RunGrows
    <3> HIDE DEF u
    <3>11. Grouped(u, opens) = u
      BY <3>2, <3>9 DEF Grouped, BeginGroup
    <3>12. RunFits(base, g)'
      BY <1>1, <3>2, <3>5, <3>8, <3>9, <3>10, <3>11 DEF RunFits, at0, st
    <3>13. run = [kind |-> run.kind, start |-> run.start, from |-> run.from,
                  phase |-> run.phase]
      BY DEF RunInv
    <3> QED
      BY <1>1, <3>12, <3>13 DEF RunInv
  <2> QED
    BY <2>1, <2>2
<1> QED
  BY <1>2, <1>3, TypingPushes

\* The run begins with i, a, I and A, and is over with Esc.
LEMMA ModeRuns ==
  ASSUME EditorInv, GroupsClosed, RunInv, EnterInsert \/ Escape
  PROVE  RunInv'
<1>1. /\ W \in Window /\ focus \in DOMAIN windows /\ Numbered(W.undo)
      /\ History(W.undo, W.seen, TRUE) /\ Len(W.undo.nodes) \in Nat
      /\ mode # "insert" => W.undo.group = 0
  BY FocusNumbered, FocusIs DEF History
<1> DEFINE b0 == BeginGroup(W.undo)  e0 == EndGroup(W.undo)
<1>2. /\ b0.nodes = W.undo.nodes /\ b0.current = W.undo.current
      /\ b0.group = IF W.undo.group = 0 THEN W.undo.nextGroup ELSE W.undo.group
      /\ e0.nodes = W.undo.nodes /\ e0.current = W.undo.current
  BY <1>1, NumbersStay
<1>3. ASSUME NEW h, NEW t, docs' = docs, focus' = focus,
             windows' = [windows EXCEPT ![focus] = [W EXCEPT !.head = h, !.undo = t]]
      PROVE  W'.undo = t /\ W'.seen = W.seen /\ Text' = Text
  <2> DEFINE w == [W EXCEPT !.head = h, !.undo = t]
  <2>1. w.undo = t /\ w.seen = W.seen /\ w.doc = W.doc
    BY <1>1 DEF Window
  <2>2. windows' = [windows EXCEPT ![focus] = w]
    BY <1>3
  <2> HIDE DEF w
  <2>3. W' = w
    BY <1>1, <1>3, <2>2 DEF W
  <2> QED
    BY <1>3, <2>1, <2>3 DEF Text
<1>4. CASE Escape
  <2>1. PICK h \in {W.head, W.head - 1} \cap Nat :
          windows' = [windows EXCEPT ![focus].head = h, ![focus].undo = EndGroup(@)]
    BY <1>4 DEF Escape
  <2>2. windows' = [windows EXCEPT ![focus] = [W EXCEPT !.head = h, !.undo = e0]]
    BY <1>1, <2>1 DEF W, Window
  <2>3. /\ docs' = docs /\ focus' = focus /\ mode' = "normal"
        /\ RunIs(IF run.phase = "on" THEN "over" ELSE "gone")
    BY <1>4 DEF Escape
  <2> HIDE DEF e0
  <2>4. W'.undo = e0 /\ W'.seen = W.seen /\ Text' = Text
    BY <1>3, <2>2, <2>3
  <2>5. CASE run.phase = "on"
    <3>1. run' = [run EXCEPT !.phase = "over"]
      BY <2>3, <2>5 DEF RunIs
    <3>2. W'.undo.nodes = W.undo.nodes /\ W'.undo.current = W.undo.current
      BY <1>2, <2>4
    <3> QED
      BY <2>3, <2>4, <2>5, <3>1, <3>2, RunStays
  <2>6. CASE run.phase # "on"
    BY <2>3, <2>6, RunGone
  <2> QED
    BY <2>5, <2>6
<1>5. CASE EnterInsert
  <2>1. PICK h \in {W.head} \cup 0..Len(Text) :
          windows' = [windows EXCEPT ![focus].head = h, ![focus].undo = BeginGroup(@)]
    BY <1>5 DEF EnterInsert
  <2>2. windows' = [windows EXCEPT ![focus] = [W EXCEPT !.head = h, !.undo = b0]]
    BY <1>1, <2>1 DEF W, Window
  <2>3. /\ docs' = docs /\ focus' = focus /\ mode' = "insert" /\ W.undo.group = 0
        /\ run' = [kind |-> "i", start |-> Text, from |-> W.undo.current, phase |-> "on"]
    BY <1>1, <1>5 DEF EnterInsert, StartRun, Normal
  <2> HIDE DEF b0
  <2>4. W'.undo = b0 /\ W'.seen = W.seen /\ Text' = Text
    BY <1>3, <2>2, <2>3
  <2>5. RecordedRun(W.undo, W.seen, Text, W.undo.current, Text,
                    Len(W.undo.nodes), W.undo.nextGroup)
    BY <1>1, RunBegins
  <2>6. PICK base \in Nat, g \in Nat : base = Len(W.undo.nodes) /\ g = W.undo.nextGroup
    BY <1>1 DEF Numbered
  <2>8. b0.group = g
    BY <1>2, <2>3, <2>6
  <2>9. RecordedRun(b0, W.seen, Text, W.undo.current, Text, base, g)
    BY <1>2, <2>5, <2>6 DEF RecordedRun
  <2>11. /\ run'.kind = "i" /\ run'.start = Text /\ run'.from = W.undo.current
         /\ run'.phase = "on"
         /\ run' = [kind |-> run'.kind, start |-> run'.start, from |-> run'.from,
                    phase |-> run'.phase]
    BY <2>3
  <2>10. RunFits(base, g)'
    BY <2>3, <2>4, <2>8, <2>9, <2>11 DEF RunFits
  <2> QED
    BY <2>10, <2>11 DEF RunInv
<1> QED
  BY <1>4, <1>5

\* A motion and a window opened leave the focused tree and document alone.
LEMMA ViewRuns ==
  ASSUME EditorInv, RunInv, Move \/ Split
  PROVE  RunInv'
<1>1. W \in Window /\ focus \in 1..Len(windows) /\ DOMAIN windows = 1..Len(windows)
  BY FocusIs DEF EditorInv
<1>2. run' = run /\ mode' = mode /\ docs' = docs /\ focus' = focus
  BY DEF Move, Split
<1>3. CASE Move
  <2>1. PICK h \in 0..Len(Text) : windows' = [windows EXCEPT ![focus].head = h]
    BY <1>3 DEF Move
  <2> DEFINE w == [W EXCEPT !.head = h]
  <2>2. w.undo = W.undo /\ w.seen = W.seen /\ w.doc = W.doc
    BY <1>1 DEF Window
  <2>3. W' = w
    BY <1>1, <1>2, <2>1 DEF W
  <2> HIDE DEF w
  <2>4. W'.undo = W.undo /\ W'.seen = W.seen /\ Text' = Text
    BY <1>2, <2>2, <2>3 DEF Text
  <2> QED
    BY <1>2, <2>4, RunStays
<1>4. CASE Split
  <2> DEFINE w == NewWindow(W.doc, Text)
  <2>1. windows' = Append(windows, w) /\ windows \in Seq(Window)
    BY <1>4 DEF Split, EditorInv
  <2>2. w \in Window
    <3>1. WindowFits(NewWindow(W.doc, docs[W.doc]), docs)
      BY FreshFits, FocusIs DEF EditorInv
    <3> QED
      BY <3>1 DEF WindowFits, Text
  <2> HIDE DEF w
  <2>3. W' = W /\ Text' = Text
    <3>1. windows'[focus] = windows[focus]
      BY <1>1, <2>1, <2>2, AppendProperties
    <3> QED
      BY <1>2, <3>1 DEF W, Text
  <2> QED
    BY <1>2, <2>3, RunStays
<1> QED
  BY <1>3, <1>4

\* One step keeps what is known of the run.
LEMMA RunInvKeeps ==
  ASSUME EditorInv, GroupsClosed, RunInv, [EditorNext]_editorVars
  PROVE  RunInv'
<1>1. CASE TypeChar \/ TypeEnter \/ Backspace \/ DeleteKey
  BY <1>1, TypingRuns
<1>2. CASE EnterInsert \/ Escape
  BY <1>2, ModeRuns
<1>3. CASE Move \/ Split
  BY <1>3, ViewRuns
<1>4. CASE OpenLine
  <2>1. run' = [kind |-> "o", start |-> Text, from |-> W.undo.current, phase |-> "on"]
    BY <1>4 DEF OpenLine, StartRun
  <2> QED
    BY <2>1, RunGone
<1>5. CASE ChangeOperator
  <2>1. run' = [kind |-> "c", start |-> Text, from |-> W.undo.current, phase |-> "on"]
    BY <1>5 DEF ChangeOperator, StartRun
  <2> QED
    BY <2>1, RunGone
<1>6. CASE UndoKey \/ RedoKey \/ OlderKey \/ NewerKey
  <2>1. RunIs("gone")
    BY <1>6 DEF UndoKey, RedoKey, OlderKey, NewerKey, Replayed
  <2> QED
    BY <2>1, RunGone
<1>7. CASE DeleteOperator \/ Substitute \/ FocusWindow \/ Click \/ LspEdit \/ PluginEdit
  <2>1. RunIs("gone")
    BY <1>7 DEF DeleteOperator, Substitute, FocusWindow, Click, LspEdit, PluginEdit
  <2> QED
    BY <2>1, RunGone
<1>8. CASE OpenFile \/ SwitchBuffer
  <2>1. RunIs("gone")
    BY <1>8 DEF OpenFile, SwitchBuffer, Show
  <2> QED
    BY <2>1, RunGone
<1>9. CASE UNCHANGED editorVars
  <2>1. docs' = docs /\ windows' = windows /\ focus' = focus /\ run' = run /\ mode' = mode
    BY <1>9 DEF editorVars
  <2>2. W' = W /\ Text' = Text
    BY <2>1 DEF W, Text
  <2> QED
    BY <2>1, <2>2, RunStays
<1> QED
  BY <1>1, <1>2, <1>3, <1>4, <1>5, <1>6, <1>7, <1>8, <1>9 DEF EditorNext

-----------------------------------------------------------------------------
\* A run entered with i, a, I or A is taken back by one undo (UndoTree::undo,
\* execute_action), unless windows are both split and clicked: a click in insert mode
\* leaves the group of the window it leaves open, for the next run there to join.
THEOREM InsertRunsAreOneStep ==
  ASSUME ~({"split", "mouse"} \subseteq Features)
  PROVE  EditorSpec => InsertRunIsOneStep
<1>1. EditorInit => GroupsClosed /\ RunInv
  <2> SUFFICES ASSUME EditorInit PROVE GroupsClosed /\ RunInv
    OBVIOUS
  <2>1. PICK file \in Files : windows = <<NewWindow(1, file)>>
    BY DEF EditorInit
  <2>2. windows[1].undo = EmptyTree /\ Len(windows) = 1 /\ run = NoRun /\ mode = "normal"
    BY <2>1 DEF NewWindow, EditorInit
  <2>3. GroupsClosed
    BY <2>2, FreshNumbers DEF GroupsClosed
  <2>4. RunInv
    BY <2>2 DEF RunInv, NoRun
  <2> QED
    BY <2>3, <2>4
<1>2. EditorInv /\ GroupsClosed /\ RunInv /\ [EditorNext]_editorVars => GroupsClosed' /\ RunInv'
  BY GroupsClosedKeeps, RunInvKeeps
<1>3. EditorInv /\ RunInv => [run.kind = "i" /\ run.phase = "over" /\ run.from # W.undo.current
                              => (UndoKey => docs'[W.doc] = run.start)]_editorVars
  <2> SUFFICES ASSUME EditorInv, RunInv, run.kind = "i", run.phase = "over",
                      run.from # W.undo.current, UndoKey
               PROVE  docs'[W.doc] = run.start
    OBVIOUS
  <2>1. PICK base \in Nat, g \in Nat : RunFits(base, g)
    BY DEF RunInv
  <2> DEFINE t == W.undo  q == W.seen  txt == Text  st == run.start  at0 == run.from
             w == Start  e == UndoWalk(t, w)
  <2>2. RecordedRun(t, q, txt, at0, st, base, g)
    BY <2>1 DEF RunFits
  <2>3. /\ History(t, q, TRUE) /\ Reached(t, q, w, t.current, txt) /\ at0 # t.current
    <3>1. /\ Start \in WalksOf(W.undo, W.seen, W.foreign) /\ Start.at = W.undo.current
          /\ History(W.undo, W.seen, W.foreign)
      BY StartIsOne
    <3>2. Start.status = "ok" /\ Start.text = Text
      BY DEF Start
    <3>3. Start \in WalksOf(W.undo, W.seen, TRUE) /\ History(W.undo, W.seen, TRUE)
      BY <3>1 DEF WalksOf, History
    <3> QED
      BY <3>1, <3>2, <3>3 DEF Reached
  <2>4. Replayed(e)
    BY DEF UndoKey
  <2> HIDE DEF t, q, txt, st, at0, w
  <2>8. Reached(t, q, UndoWalk(t, w), at0, st)
    BY <2>2, <2>3, RunIsUndone
  <2>5. e.status = "ok" /\ e.text = st
    BY <2>8 DEF Reached
  <2> HIDE DEF e
  <2>6. docs' = [docs EXCEPT ![W.doc] = e.text]
    BY <2>4, <2>5 DEF Replayed, Store
  <2>7. W.doc \in DOMAIN docs
    BY FocusIs
  <2> QED
    BY <2>5, <2>6, <2>7 DEF st
<1> QED
  BY <1>1, <1>2, <1>3, EditorInvHolds, PTL DEF EditorSpec, InsertRunIsOneStep
=============================================================================
