---------------------------- MODULE Core_proofs ----------------------------
(***************************************************************************)
(* The edit algebra for every text and every changeset, and the undo tree  *)
(* for every kind of document and transaction and any number of edits:     *)
(* proofs about the modules ChangeSet, ComposeLoop and UndoTree.           *)
(***************************************************************************)
EXTENDS UndoTree, ComposeLoop, Lemmas

\* The operations on texts over S, and the states of a changeset being applied.
Operations(S) ==
  {o \in [op : {"retain", "insert", "delete"}, n : Nat, text : Seq(S)] :
     IF o.op = "insert" THEN o.n = Len(o.text) ELSE o.text = <<>>}
States(S) == [status : {"ok", "panic", "out of bounds"}, rope : Seq(S), pos : Nat]
At(rope, pos) == [status |-> "ok", rope |-> rope, pos |-> pos]

-----------------------------------------------------------------------------
\* Sequences cut in two.
LEMMA CutInTwo ==
  ASSUME NEW S, NEW r \in Seq(S), NEW p \in 0..Len(r)
  PROVE  /\ SubSeq(r, 1, p) \in Seq(S) /\ Len(SubSeq(r, 1, p)) = p
         /\ SubSeq(r, p + 1, Len(r)) \in Seq(S) /\ Len(SubSeq(r, p + 1, Len(r))) = Len(r) - p
         /\ SubSeq(r, 1, p) \o SubSeq(r, p + 1, Len(r)) = r
<1>1. Len(r) \in Nat /\ p \in Nat /\ p <= Len(r)
  BY LenProperties
<1>2. \A i \in 1..p : r[i] \in S
  BY <1>1, ElementOfSeq
<1>3. \A i \in p + 1..Len(r) : r[i] \in S
  BY <1>1, ElementOfSeq
<1> DEFINE x == SubSeq(r, 1, p)  y == SubSeq(r, p + 1, Len(r))
<1>4. x \in Seq(S) /\ Len(x) = IF 1 <= p THEN p - 1 + 1 ELSE 0
  BY <1>1, <1>2, SubSeqProperties
<1>5. y \in Seq(S) /\ Len(y) = IF p + 1 <= Len(r) THEN Len(r) - (p + 1) + 1 ELSE 0
  BY <1>1, <1>3, SubSeqProperties
<1>6. x \o y = SubSeq(r, 1, Len(r))
  <2>1. 1 \in 1..Len(r) + 1 /\ p \in 1 - 1..Len(r) /\ Len(r) \in p..Len(r)
    BY <1>1
  <2> QED
    BY <2>1, ConcatAdjacentSubSeq
<1>7. SubSeq(r, 1, Len(r)) = r
  BY SubSeqFull
<1> HIDE DEF x, y
<1>8. Len(x) = p /\ Len(y) = Len(r) - p
  BY <1>1, <1>4, <1>5
<1> QED
  BY <1>4, <1>5, <1>6, <1>7, <1>8 DEF x, y

\* And put together: the first part and what is after it.
LEMMA TwoParts ==
  ASSUME NEW S, NEW x \in Seq(S), NEW y \in Seq(S)
  PROVE  /\ x \o y \in Seq(S) /\ Len(x \o y) = Len(x) + Len(y)
         /\ Len(x) \in Nat /\ Len(y) \in Nat
         /\ SubSeq(x \o y, 1, Len(x)) = x
         /\ SubSeq(x \o y, Len(x) + 1, Len(x \o y)) = y
<1> DEFINE r == x \o y
<1>1. /\ r \in Seq(S) /\ Len(r) = Len(x) + Len(y)
      /\ \A i \in 1..Len(x) + Len(y) : r[i] = IF i <= Len(x) THEN x[i] ELSE y[i - Len(x)]
  BY ConcatProperties
<1>2. Len(x) \in Nat /\ Len(y) \in Nat
  BY LenProperties
<1> HIDE DEF r
<1> DEFINE u == SubSeq(r, 1, Len(x))  w == SubSeq(r, Len(x) + 1, Len(r))
<1>3. Len(x) \in 0..Len(r)
  BY <1>1, <1>2
<1>4. /\ u \in Seq(S) /\ Len(u) = Len(x) /\ w \in Seq(S) /\ Len(w) = Len(r) - Len(x) /\ u \o w = r
  BY <1>1, <1>3, CutInTwo
<1> HIDE DEF u, w
<1>5. Len(w) = Len(y)
  BY <1>1, <1>2, <1>4
<1>6. \A i \in 1..Len(x) + Len(y) : r[i] = IF i <= Len(x) THEN u[i] ELSE w[i - Len(x)]
  <2>1. \A i \in 1..Len(u) + Len(w) : (u \o w)[i] = IF i <= Len(u) THEN u[i] ELSE w[i - Len(u)]
    <3>1. u \in Seq(S) /\ w \in Seq(S)
      BY <1>4
    <3> QED
      BY <3>1, ConcatProperties
  <2> QED
    BY <1>4, <1>5, <2>1
<1>7. \A i \in 1..Len(x) : u[i] = x[i]
  BY <1>1, <1>2, <1>6
<1>8. ASSUME NEW i \in 1..Len(y) PROVE w[i] = y[i]
  <2>1. Len(x) + i \in 1..Len(x) + Len(y) /\ ~(Len(x) + i <= Len(x)) /\ (Len(x) + i) - Len(x) = i
    BY <1>2
  <2> QED
    BY <1>1, <1>6, <2>1
<1>9. u = x
  BY <1>4, <1>7, SeqEqual
<1>10. w = y
  BY <1>4, <1>5, <1>8, SeqEqual
<1> QED
  BY <1>1, <1>2, <1>9, <1>10 DEF u, w, r

\* A sequence that is not empty has an end.
LEMMA EndOf ==
  ASSUME NEW S, NEW s \in Seq(S), s # <<>>
  PROVE  /\ Front(s) \in Seq(S) /\ Last(s) \in S /\ s = Append(Front(s), Last(s))
         /\ Len(Front(s)) + 1 = Len(s)
<1>1. Len(s) \in Nat /\ Len(s) # 0
  BY LenProperties, EmptySeq
<1> DEFINE n == Len(s) - 1  f == SubSeq(s, 1, n)
<1>2. n \in Nat /\ n \in 0..Len(s) /\ n + 1 = Len(s) /\ Len(s) \in 1..Len(s)
  BY <1>1
<1>3. f \in Seq(S) /\ Len(f) = n
  BY <1>2, CutInTwo
<1>4. s[Len(s)] \in S
  BY <1>2, ElementOfSeq
<1>5. \A i \in 1..n : f[i] = s[i]
  BY <1>2
<1> HIDE DEF f
<1>6. /\ Append(f, s[Len(s)]) \in Seq(S) /\ Len(Append(f, s[Len(s)])) = n + 1
      /\ \A i \in 1..n : Append(f, s[Len(s)])[i] = f[i]
      /\ Append(f, s[Len(s)])[n + 1] = s[Len(s)]
  BY <1>3, <1>4, AppendProperties
<1>7. \A i \in 1..Len(s) : s[i] = Append(f, s[Len(s)])[i]
  BY <1>2, <1>5, <1>6
<1>8. s = Append(f, s[Len(s)])
  BY <1>2, <1>6, <1>7, SeqEqual
<1>9. Front(s) = f /\ Last(s) = s[Len(s)]
  BY DEF Front, Last, f
<1> QED
  BY <1>2, <1>3, <1>4, <1>8, <1>9

\* Induction over sequences, one element at a time.
LEMMA ByAppending ==
  ASSUME NEW S, NEW P, <<>> \in P,
         \A s \in Seq(S), e \in S : s \in P => Append(s, e) \in P
  PROVE  Seq(S) \subseteq P
<1> DEFINE T == {n \in Nat : \A s \in Seq(S) : Len(s) = n => s \in P}
<1>1. 0 \in T
  <2>1. \A s \in Seq(S) : Len(s) = 0 => s = <<>>
    BY EmptySeq
  <2> QED
    BY <2>1
<1>2. ASSUME NEW n \in Nat, n \in T PROVE n + 1 \in T
  <2>1. SUFFICES ASSUME NEW s \in Seq(S), Len(s) = n + 1 PROVE s \in P
    OBVIOUS
  <2>2. s # <<>>
    BY <2>1
  <2>3. Front(s) \in Seq(S) /\ Last(s) \in S /\ s = Append(Front(s), Last(s)) /\ Len(Front(s)) = n
    <3>1. Len(Front(s)) \in Nat \/ Front(s) \notin Seq(S)
      BY LenProperties
    <3> QED
      BY <2>1, <2>2, <3>1, EndOf
  <2>4. Front(s) \in P
    BY <1>2, <2>3
  <2> QED
    BY <2>3, <2>4
<1>3. Nat \subseteq T
  <2> HIDE DEF T
  <2> QED
    BY <1>1, <1>2, SetInduction
<1> QED
  BY <1>3, LenProperties

\* The last element of a sequence appended to, and what it was appended to.
LEMMA LastOfAppend ==
  ASSUME NEW S, NEW s \in Seq(S), NEW e \in S
  PROVE  /\ Append(s, e) \in Seq(S) /\ Append(s, e) # <<>>
         /\ Len(Append(s, e)) = Len(s) + 1 /\ Len(s) \in Nat
         /\ Last(Append(s, e)) = e /\ Front(Append(s, e)) = s
<1> DEFINE t == Append(s, e)
<1>1. /\ t \in Seq(S) /\ t # <<>> /\ Len(t) = Len(s) + 1
      /\ \A i \in 1..Len(s) : t[i] = s[i]
      /\ t[Len(s) + 1] = e
  BY AppendProperties
<1>2. Len(s) \in Nat
  BY LenProperties
<1> HIDE DEF t
<1>3. Last(t) = e
  BY <1>1 DEF Last
<1> DEFINE f == SubSeq(t, 1, Len(s))
<1>4. Len(s) \in 0..Len(t)
  BY <1>1, <1>2
<1>5. f \in Seq(S) /\ Len(f) = Len(s)
  BY <1>1, <1>4, CutInTwo
<1>6. \A i \in 1..Len(s) : f[i] = t[i]
  BY <1>1, <1>2
<1> HIDE DEF f
<1>7. f = s
  BY <1>1, <1>5, <1>6, SeqEqual
<1>8. Front(t) = f
  <2>1. Len(t) - 1 = Len(s)
    BY <1>1, <1>2
  <2> QED
    BY <2>1 DEF Front, f
<1> QED
  BY <1>1, <1>2, <1>3, <1>7, <1>8 DEF t

-----------------------------------------------------------------------------
\* What the operations are.
LEMMA OperationIs ==
  ASSUME NEW S, NEW o \in Operations(S)
  PROVE  /\ o.n \in Nat /\ o.text \in Seq(S) /\ o.op \in {"retain", "insert", "delete"}
         /\ o.op = "insert" => o.n = Len(o.text)
         /\ o.op # "insert" => o.text = <<>>
  BY DEF Operations

\* The operations, made.
LEMMA OperationsMade ==
  ASSUME NEW S
  PROVE  /\ \A n \in Nat : Retain(n) \in Operations(S) /\ Delete(n) \in Operations(S)
         /\ \A s \in Seq(S) : Insert(s) \in Operations(S)
  BY LenProperties DEF Operations, Retain, Delete, Insert

\* The texts of operations on texts.
LEMMA ApplyingIsTyped ==
  ASSUME NEW S, NEW acc \in States(S), NEW o \in Operations(S)
  PROVE  ApplyOp(acc, o) \in States(S)
<1> DEFINE r == acc.rope  p == acc.pos
<1>1. r \in Seq(S) /\ p \in Nat /\ Len(r) \in Nat
  BY LenProperties DEF States
<1>2. o.n \in Nat /\ o.text \in Seq(S) /\ o.op \in {"retain", "insert", "delete"}
  BY OperationIs
<1>3. p <= Len(r) => SubSeq(r, 1, p) \in Seq(S) /\ SubSeq(r, p + 1, Len(r)) \in Seq(S)
  <2> HAVE p <= Len(r)
  <2>1. p \in 0..Len(r)
    BY <1>1
  <2> QED
    BY <1>1, <2>1, CutInTwo
<1>4. p + o.n <= Len(r) => SubSeq(r, p + o.n + 1, Len(r)) \in Seq(S)
  <2> HAVE p + o.n <= Len(r)
  <2>1. p + o.n \in 0..Len(r)
    BY <1>1, <1>2
  <2> QED
    BY <1>1, <2>1, CutInTwo
<1>5. p + o.n <= Len(r) => p <= Len(r)
  BY <1>1, <1>2
<1>6. CASE acc.status # "ok"
  BY <1>6 DEF ApplyOp
<1>7. CASE acc.status = "ok" /\ o.op = "retain"
  <2>1. ApplyOp(acc, o) = [acc EXCEPT !.pos = p + o.n] /\ p + o.n \in Nat
    BY <1>1, <1>2, <1>7 DEF ApplyOp
  <2> QED
    BY <2>1 DEF States
<1>8. CASE acc.status = "ok" /\ o.op = "insert"
  <2>1. CASE p > Len(r)
    BY <1>8, <2>1 DEF ApplyOp, States
  <2>2. CASE ~(p > Len(r))
    <3>1. p <= Len(r)
      BY <1>1, <2>2
    <3>2. SubSeq(r, 1, p) \o o.text \o SubSeq(r, p + 1, Len(r)) \in Seq(S)
      <4>1. SubSeq(r, 1, p) \o o.text \in Seq(S)
        BY <1>2, <1>3, <3>1, ConcatProperties
      <4> QED
        BY <1>3, <3>1, <4>1, ConcatProperties
    <3> DEFINE q == SubSeq(r, 1, p) \o o.text \o SubSeq(r, p + 1, Len(r))
    <3>3. ApplyOp(acc, o) = [acc EXCEPT !.rope = q, !.pos = p + o.n]
      BY <1>8, <2>2 DEF ApplyOp
    <3> HIDE DEF q
    <3>4. q \in Seq(S) /\ p + o.n \in Nat
      BY <1>1, <1>2, <3>2 DEF q
    <3> QED
      BY <3>3, <3>4 DEF States
  <2> QED
    BY <2>1, <2>2
<1>9. CASE acc.status = "ok" /\ o.op = "delete"
  <2>1. CASE p + o.n > Len(r)
    BY <1>9, <2>1 DEF ApplyOp, States
  <2>2. CASE ~(p + o.n > Len(r))
    <3>1. p + o.n <= Len(r)
      BY <1>1, <1>2, <2>2
    <3> DEFINE q == SubSeq(r, 1, p) \o SubSeq(r, p + o.n + 1, Len(r))
    <3>2. q \in Seq(S)
      BY <1>3, <1>4, <1>5, <3>1, ConcatProperties
    <3>3. ApplyOp(acc, o) = [acc EXCEPT !.rope = q]
      BY <1>9, <2>2 DEF ApplyOp
    <3> HIDE DEF q
    <3> QED
      BY <3>2, <3>3 DEF States
  <2> QED
    BY <2>1, <2>2
<1> QED
  BY <1>2, <1>6, <1>7, <1>8, <1>9

Applying(S) == [x \in States(S) \X Operations(S) |-> ApplyOp(x[1], x[2])]

\* Applying goes through the operations one by one (ChangeSet::apply).
LEMMA AppliedSteps ==
  ASSUME NEW S, NEW ops \in Seq(Operations(S)), NEW r \in Seq(S)
  PROVE  AllApplied(ops, r) = Stepped(At(r, 0), Applying(S), ops)
<1> DEFINE start == At(r, 0)
           P(f) == f = [i \in 0..Len(ops) |-> IF i = 0 THEN start ELSE ApplyOp(f[i - 1], ops[i])]
           run == CHOOSE f : f = [i \in 0..Len(ops) |-> IF i = 0 THEN start
                                                        ELSE ApplyOp(f[i - 1], ops[i])]
<1>1. start \in States(S)
  BY DEF States, At
<1>2. Applying(S) \in [States(S) \X Operations(S) -> States(S)]
  BY ApplyingIsTyped DEF Applying
<1>3. PICK g : IsRun(g, States(S), start, Applying(S), ops)
  BY <1>1, <1>2, RunOf
<1>4. /\ Len(ops) \in Nat
      /\ \A i \in 1..Len(ops) : ops[i] \in Operations(S) /\ i # 0 /\ i \in 0..Len(ops)
                               /\ i - 1 \in 0..Len(ops)
  BY LenProperties, ElementOfSeq
<1>5. g[0] = start /\ \A i \in 1..Len(ops) : g[i] = ApplyOp(g[i - 1], ops[i])
  <2>1. \A x \in States(S), o \in Operations(S) : Applying(S)[<<x, o>>] = ApplyOp(x, o)
    BY DEF Applying
  <2>2. \A i \in 1..Len(ops) : g[i - 1] \in States(S)
    BY <1>3, <1>4 DEF IsRun
  <2> QED
    BY <1>3, <1>4, <2>1, <2>2 DEF IsRun
<1>6. P(g)
  <2>1. g = [i \in 0..Len(ops) |-> g[i]]
    BY <1>3 DEF IsRun
  <2>2. \A i \in 0..Len(ops) : g[i] = IF i = 0 THEN start ELSE ApplyOp(g[i - 1], ops[i])
    BY <1>4, <1>5
  <2> HIDE DEF start
  <2> QED
    BY <2>1, <2>2
<1>7. P(run)
  <2>1. run = CHOOSE f : P(f)
    OBVIOUS
  <2> HIDE DEF P, run
  <2> QED
    BY <1>6, <2>1
<1>8. AllApplied(ops, r) = run[Len(ops)]
  BY DEF AllApplied, At
<1> HIDE DEF run, start
<1>9. run[0] = start /\ \A i \in 1..Len(ops) : run[i] = ApplyOp(run[i - 1], ops[i])
  BY <1>4, <1>7
<1>10. \A i \in 0..Len(ops) : run[i] = g[i]
  <2> DEFINE T == {i \in 0..Len(ops) : run[i] = g[i]}
  <2>1. 0 \in T
    BY <1>4, <1>5, <1>9
  <2>2. ASSUME NEW i \in 1..Len(ops), i - 1 \in T PROVE i \in T
    BY <1>4, <1>5, <1>9, <2>2
  <2> HIDE DEF T
  <2>3. \A i \in 0..Len(ops) : i \in T
    BY <1>4, <2>1, <2>2, UpTo
  <2> QED
    BY <2>3 DEF T
<1> QED
  BY <1>3, <1>4, <1>8, <1>10 DEF IsRun, start

\* An operation more is applied after the others.
LEMMA AppliedOn ==
  ASSUME NEW S, NEW ops \in Seq(Operations(S)), NEW r \in Seq(S),
         NEW o \in Operations(S)
  PROVE  /\ AllApplied(ops, r) \in States(S)
         /\ AllApplied(<<>>, r) = At(r, 0)
         /\ AllApplied(Append(ops, o), r) = ApplyOp(AllApplied(ops, r), o)
<1>1. At(r, 0) \in States(S)
  BY DEF States, At
<1>2. Applying(S) \in [States(S) \X Operations(S) -> States(S)]
  BY ApplyingIsTyped DEF Applying
<1>3. <<>> \in Seq(Operations(S)) /\ Append(ops, o) \in Seq(Operations(S))
  BY AppendProperties
<1>4. /\ AllApplied(ops, r) = Stepped(At(r, 0), Applying(S), ops)
      /\ AllApplied(<<>>, r) = Stepped(At(r, 0), Applying(S), <<>>)
      /\ AllApplied(Append(ops, o), r) = Stepped(At(r, 0), Applying(S), Append(ops, o))
  BY <1>3, AppliedSteps
<1>5. \A x \in States(S) : Applying(S)[<<x, o>>] = ApplyOp(x, o)
  BY DEF Applying
<1> DEFINE start == At(r, 0)
<1>6. start \in States(S)
  BY <1>1
<1> HIDE DEF start
<1>7. /\ Stepped(start, Applying(S), ops) \in States(S)
      /\ Stepped(start, Applying(S), <<>>) = start
      /\ Stepped(start, Applying(S), Append(ops, o)) =
           Applying(S)[<<Stepped(start, Applying(S), ops), o>>]
  <2> DEFINE V == States(S)  E == Operations(S)  step == Applying(S)
  <2>1. step \in [V \X E -> V] /\ ops \in Seq(E) /\ o \in E /\ start \in V
    BY <1>2, <1>6
  <2> HIDE DEF V, E, step
  <2>2. GoesOn(V, start, step, ops, o)
    BY <2>1, SteppedOn
  <2> QED
    BY <2>2 DEF GoesOn, V, E, step
<1> QED
  BY <1>4, <1>5, <1>7 DEF start

-----------------------------------------------------------------------------
\* The operations of a changeset, and the changesets an inversion has on its way.
ChangesOf(S) == [ops : Seq(Operations(S)), before : Nat, after : Nat]
Inversions(S) == [status : {"ok", "panic"}, inv : ChangesOf(S), pos : Nat]
Inverting(S, original) ==
  [x \in Inversions(S) \X Operations(S) |-> InvertOp(original, x[1], x[2])]

OperationFacts(S, o) ==
  /\ o.n \in Nat /\ o.text \in Seq(S) /\ o.op \in {"retain", "insert", "delete"}
  /\ o.op = "insert" => o.n = Len(o.text)
  /\ o.op # "insert" => o.text = <<>>

\* An operation pushed makes operations of operations.
LEMMA PushedIsTyped ==
  ASSUME NEW S, NEW ops \in Seq(Operations(S)), NEW o \in Operations(S)
  PROVE  /\ PushOp(ops, o) \in Seq(Operations(S))
         /\ ops # <<>> /\ Last(ops).op = o.op =>
              [o EXCEPT !.n = Last(ops).n + @, !.text = Last(ops).text \o @] \in Operations(S)
<1>1. OperationFacts(S, o)
  BY OperationIs DEF OperationFacts
<1>2. ops # <<>> /\ Last(ops).op = o.op =>
        /\ [o EXCEPT !.n = Last(ops).n + @, !.text = Last(ops).text \o @] \in Operations(S)
        /\ Front(ops) \in Seq(Operations(S))
  <2> SUFFICES ASSUME ops # <<>>, Last(ops).op = o.op
               PROVE  /\ [o EXCEPT !.n = Last(ops).n + @, !.text = Last(ops).text \o @]
                           \in Operations(S)
                      /\ Front(ops) \in Seq(Operations(S))
    OBVIOUS
  <2> DEFINE l == Last(ops)  n == l.n + o.n  t == l.text \o o.text
             m == [o EXCEPT !.n = l.n + @, !.text = l.text \o @]
  <2>1. l \in Operations(S) /\ Front(ops) \in Seq(Operations(S)) /\ l.op = o.op
    BY EndOf
  <2> HIDE DEF l
  <2>2. OperationFacts(S, l)
    BY <2>1, OperationIs DEF OperationFacts
  <2>3. n \in Nat
    BY <1>1, <2>2 DEF OperationFacts
  <2>4. t \in Seq(S) /\ Len(t) = Len(l.text) + Len(o.text)
    BY <1>1, <2>2, ConcatProperties DEF OperationFacts
  <2>5. <<>> \o <<>> = <<>>
    OBVIOUS
  <2>6. IF o.op = "insert" THEN n = Len(t) ELSE t = <<>>
    BY <1>1, <2>1, <2>2, <2>4, <2>5 DEF OperationFacts
  <2>7. m.op = o.op /\ m.n = n /\ m.text = t /\ m = [o EXCEPT !.n = n, !.text = t]
    BY DEF Operations
  <2> HIDE DEF n, t, m
  <2>8. m \in [op : {"retain", "insert", "delete"}, n : Nat, text : Seq(S)]
    BY <2>3, <2>4, <2>7 DEF Operations
  <2>9. m \in Operations(S)
    BY <2>6, <2>7, <2>8 DEF Operations
  <2> QED
    BY <2>1, <2>9 DEF l, m
<1> QED
  BY <1>2, AppendProperties DEF PushOp

\* What an inversion takes from the text, and what it pushes, is of the right kind.
LEMMA InvertingIsTyped ==
  ASSUME NEW S, NEW original \in Seq(S), NEW acc \in Inversions(S), NEW o \in Operations(S)
  PROVE  InvertOp(original, acc, o) \in Inversions(S)
<1> DEFINE p == acc.pos  cs == acc.inv
<1>1. /\ p \in Nat /\ cs \in ChangesOf(S) /\ Len(original) \in Nat
      /\ cs.ops \in Seq(Operations(S)) /\ cs.after \in Nat
  BY LenProperties DEF Inversions, ChangesOf
<1>2. OperationFacts(S, o)
  BY OperationIs DEF OperationFacts
<1>3. p + o.n \in Nat
  BY <1>1, <1>2 DEF OperationFacts
<1>4. SatSub(cs.after, o.n) \in Nat
  BY <1>1, <1>2 DEF OperationFacts, SatSub
<1>5. Retain(o.n) \in Operations(S) /\ Delete(o.n) \in Operations(S)
  BY <1>2, OperationsMade DEF OperationFacts
<1>6. CASE acc.status # "ok"
  BY <1>6 DEF InvertOp
<1>7. CASE acc.status = "ok" /\ o.op = "retain"
  <2> DEFINE c == PushRetain(cs, o.n)
  <2>1. c \in ChangesOf(S)
    <3>1. PushOp(cs.ops, Retain(o.n)) \in Seq(Operations(S))
      BY <1>1, <1>5, PushedIsTyped
    <3> QED
      BY <1>1, <3>1 DEF ChangesOf, PushRetain
  <2>2. InvertOp(original, acc, o) = [acc EXCEPT !.inv = c, !.pos = p + o.n]
    BY <1>7 DEF InvertOp
  <2> HIDE DEF c
  <2> QED
    BY <1>3, <2>1, <2>2 DEF Inversions
<1>8. CASE acc.status = "ok" /\ o.op = "insert"
  <2> DEFINE c == PushDelete(cs, o.n)
  <2>1. c \in ChangesOf(S)
    <3>1. PushOp(cs.ops, Delete(o.n)) \in Seq(Operations(S))
      BY <1>1, <1>5, PushedIsTyped
    <3> QED
      BY <1>1, <1>4, <3>1 DEF ChangesOf, PushDelete
  <2>2. InvertOp(original, acc, o) = [acc EXCEPT !.inv = c]
    BY <1>8 DEF InvertOp
  <2> HIDE DEF c
  <2> QED
    BY <2>1, <2>2 DEF Inversions
<1>9. CASE acc.status = "ok" /\ o.op = "delete"
  <2>1. CASE p > Len(original)
    BY <1>9, <2>1 DEF InvertOp, Inversions
  <2>2. CASE ~(p > Len(original))
    <3> DEFINE t == Taken(original, p, o.n)  c == PushInsert(cs, t)
    <3>1. t \in Seq(S)
      <4> DEFINE e == IF p + o.n < Len(original) THEN p + o.n ELSE Len(original)
      <4>1. e \in Nat /\ e <= Len(original)
        BY <1>1, <1>3
      <4> HIDE DEF e
      <4>2. p + 1 \in Nat /\ p + 1 >= 1
        BY <1>1
      <4>3. \A i \in (p + 1)..e : i \in 1..Len(original)
        BY <1>1, <4>1
      <4>4. \A i \in (p + 1)..e : original[i] \in S
        BY <4>3, ElementOfSeq
      <4>5. SubSeq(original, p + 1, e) \in Seq(S)
        BY <1>1, <4>1, <4>4, SubSeqProperties
      <4> QED
        BY <4>5 DEF Taken, e
    <3> HIDE DEF t
    <3>2. c \in ChangesOf(S)
      <4>1. Insert(t) \in Operations(S) /\ Len(t) \in Nat
        BY <3>1, OperationsMade, LenProperties
      <4>2. PushOp(cs.ops, Insert(t)) \in Seq(Operations(S))
        BY <1>1, <4>1, PushedIsTyped
      <4>3. cs.after + Len(t) \in Nat
        BY <1>1, <4>1
      <4> QED
        BY <1>1, <4>2, <4>3 DEF ChangesOf, PushInsert
    <3>3. InvertOp(original, acc, o) = [acc EXCEPT !.inv = c, !.pos = p + o.n]
      BY <1>9, <2>2 DEF InvertOp, t
    <3> HIDE DEF c
    <3> QED
      BY <1>3, <3>2, <3>3 DEF Inversions
  <2> QED
    BY <2>1, <2>2
<1> QED
  BY <1>2, <1>6, <1>7, <1>8, <1>9 DEF OperationFacts

Uninverted(len) == [status |-> "ok", inv |-> Identity(len), pos |-> 0]

\* Inverting goes through the operations one by one (ChangeSet::invert).
LEMMA InvertedSteps ==
  ASSUME NEW S, NEW ops \in Seq(Operations(S)), NEW original \in Seq(S), NEW len \in Nat
  PROVE  AllInverted(ops, original, len) = Stepped(Uninverted(len), Inverting(S, original), ops)
<1> DEFINE start == Uninverted(len)
           P(f) == f = [i \in 0..Len(ops) |-> IF i = 0 THEN start
                                              ELSE InvertOp(original, f[i - 1], ops[i])]
           run == CHOOSE f : f = [i \in 0..Len(ops) |-> IF i = 0 THEN start
                                     ELSE InvertOp(original, f[i - 1], ops[i])]
<1>1. start \in Inversions(S)
  BY DEF Inversions, ChangesOf, Uninverted, Identity
<1>2. Inverting(S, original) \in [Inversions(S) \X Operations(S) -> Inversions(S)]
  BY InvertingIsTyped DEF Inverting
<1>3. PICK g : IsRun(g, Inversions(S), start, Inverting(S, original), ops)
  <2> HIDE DEF start
  <2> QED
    BY <1>1, <1>2, RunOf
<1>4. /\ Len(ops) \in Nat
      /\ \A i \in 1..Len(ops) : /\ ops[i] \in Operations(S) /\ i # 0
                               /\ i \in 0..Len(ops) /\ i - 1 \in 0..Len(ops)
  BY LenProperties, ElementOfSeq
<1>5. g[0] = start /\ \A i \in 1..Len(ops) : g[i] = InvertOp(original, g[i - 1], ops[i])
  <2>1. \A x \in Inversions(S), o \in Operations(S) :
           Inverting(S, original)[<<x, o>>] = InvertOp(original, x, o)
    BY DEF Inverting
  <2>2. \A i \in 1..Len(ops) : g[i - 1] \in Inversions(S)
    BY <1>3, <1>4 DEF IsRun
  <2> HIDE DEF start
  <2> QED
    BY <1>3, <1>4, <2>1, <2>2 DEF IsRun
<1>6. P(g)
  <2>1. g = [i \in 0..Len(ops) |-> g[i]]
    BY <1>3 DEF IsRun
  <2> HIDE DEF start
  <2>2. \A i \in 0..Len(ops) : g[i] = IF i = 0 THEN start ELSE InvertOp(original, g[i - 1], ops[i])
    BY <1>4, <1>5
  <2> QED
    BY <2>1, <2>2
<1>7. P(run)
  <2>1. run = CHOOSE f : P(f)
    OBVIOUS
  <2> HIDE DEF P, run
  <2> QED
    BY <1>6, <2>1
<1>8. AllInverted(ops, original, len) = run[Len(ops)]
  BY DEF AllInverted, Uninverted
<1> HIDE DEF run, start
<1>9. run[0] = start /\ \A i \in 1..Len(ops) : run[i] = InvertOp(original, run[i - 1], ops[i])
  BY <1>4, <1>7
<1>10. \A i \in 0..Len(ops) : run[i] = g[i]
  <2> DEFINE T == {i \in 0..Len(ops) : run[i] = g[i]}
  <2>1. 0 \in T
    BY <1>4, <1>5, <1>9
  <2>2. ASSUME NEW i \in 1..Len(ops), i - 1 \in T PROVE i \in T
    BY <1>4, <1>5, <1>9, <2>2
  <2> HIDE DEF T
  <2>3. \A i \in 0..Len(ops) : i \in T
    BY <1>4, <2>1, <2>2, UpTo
  <2> QED
    BY <2>3 DEF T
<1> QED
  BY <1>3, <1>4, <1>8, <1>10 DEF IsRun, start

\* An operation more is inverted after the others.
LEMMA InvertedOn ==
  ASSUME NEW S, NEW ops \in Seq(Operations(S)), NEW original \in Seq(S), NEW len \in Nat,
         NEW o \in Operations(S)
  PROVE  /\ AllInverted(ops, original, len) \in Inversions(S)
         /\ AllInverted(<<>>, original, len) = Uninverted(len)
         /\ AllInverted(Append(ops, o), original, len) =
              InvertOp(original, AllInverted(ops, original, len), o)
<1>1. Uninverted(len) \in Inversions(S)
  BY DEF Inversions, ChangesOf, Uninverted, Identity
<1>2. Inverting(S, original) \in [Inversions(S) \X Operations(S) -> Inversions(S)]
  BY InvertingIsTyped DEF Inverting
<1>3. <<>> \in Seq(Operations(S)) /\ Append(ops, o) \in Seq(Operations(S))
  BY AppendProperties
<1>4. /\ AllInverted(ops, original, len) = Stepped(Uninverted(len), Inverting(S, original), ops)
      /\ AllInverted(<<>>, original, len) = Stepped(Uninverted(len), Inverting(S, original), <<>>)
      /\ AllInverted(Append(ops, o), original, len) =
           Stepped(Uninverted(len), Inverting(S, original), Append(ops, o))
  BY <1>3, InvertedSteps
<1>5. \A x \in Inversions(S) : Inverting(S, original)[<<x, o>>] = InvertOp(original, x, o)
  BY DEF Inverting
<1> DEFINE start == Uninverted(len)
<1>6. start \in Inversions(S)
  BY <1>1
<1> HIDE DEF start
<1>7. /\ Stepped(start, Inverting(S, original), ops) \in Inversions(S)
      /\ Stepped(start, Inverting(S, original), <<>>) = start
      /\ Stepped(start, Inverting(S, original), Append(ops, o)) =
           Inverting(S, original)[<<Stepped(start, Inverting(S, original), ops), o>>]
  <2> DEFINE V == Inversions(S)  E == Operations(S)  step == Inverting(S, original)
  <2>1. step \in [V \X E -> V] /\ ops \in Seq(E) /\ o \in E /\ start \in V
    BY <1>2, <1>6
  <2> HIDE DEF V, E, step
  <2>2. GoesOn(V, start, step, ops, o)
    BY <2>1, SteppedOn
  <2> QED
    BY <2>2 DEF GoesOn, V, E, step
<1> QED
  BY <1>4, <1>5, <1>7 DEF start

Positions == [orig : Int, new : Int, res : Int]
Mapping(S, pos, assoc) == [x \in Positions \X Operations(S) |-> MapOp(pos, assoc, x[1], x[2])]

\* A position on its way through the operations stays a position.
LEMMA MappingIsTyped ==
  ASSUME NEW S, NEW pos \in Int, NEW assoc, NEW acc \in Positions, NEW o \in Operations(S)
  PROVE  MapOp(pos, assoc, acc, o) \in Positions
<1>1. acc.orig \in Int /\ acc.new \in Int /\ acc.res \in Int /\ o.n \in Int
  BY OperationIs DEF Positions
<1>2. o.op \in {"retain", "insert", "delete"}
  BY OperationIs
<1>3. acc.orig + o.n \in Int /\ acc.new + o.n \in Int /\ acc.new + (pos - acc.orig) \in Int
  BY <1>1
<1> QED
  BY <1>1, <1>2, <1>3 DEF MapOp, Positions

Unmapped == [orig |-> 0, new |-> 0, res |-> -1]

\* A position goes through the operations one by one (ChangeSet::map_pos).
LEMMA MappedSteps ==
  ASSUME NEW S, NEW ops \in Seq(Operations(S)), NEW pos \in Int, NEW assoc
  PROVE  AllMapped(ops, pos, assoc) = Stepped(Unmapped, Mapping(S, pos, assoc), ops)
<1> DEFINE start == Unmapped
           P(f) == f = [i \in 0..Len(ops) |-> IF i = 0 THEN start
                                              ELSE MapOp(pos, assoc, f[i - 1], ops[i])]
           run == CHOOSE f : f = [i \in 0..Len(ops) |-> IF i = 0 THEN start
                                     ELSE MapOp(pos, assoc, f[i - 1], ops[i])]
<1>1. start \in Positions
  BY DEF Positions, Unmapped
<1>2. Mapping(S, pos, assoc) \in [Positions \X Operations(S) -> Positions]
  BY MappingIsTyped DEF Mapping
<1>3. PICK g : IsRun(g, Positions, start, Mapping(S, pos, assoc), ops)
  <2> HIDE DEF start
  <2> QED
    BY <1>1, <1>2, RunOf
<1>4. /\ Len(ops) \in Nat
      /\ \A i \in 1..Len(ops) : /\ ops[i] \in Operations(S) /\ i # 0
                               /\ i \in 0..Len(ops) /\ i - 1 \in 0..Len(ops)
  BY LenProperties, ElementOfSeq
<1>5. g[0] = start /\ \A i \in 1..Len(ops) : g[i] = MapOp(pos, assoc, g[i - 1], ops[i])
  <2>1. \A x \in Positions, o \in Operations(S) :
           Mapping(S, pos, assoc)[<<x, o>>] = MapOp(pos, assoc, x, o)
    BY DEF Mapping
  <2>2. \A i \in 1..Len(ops) : g[i - 1] \in Positions
    BY <1>3, <1>4 DEF IsRun
  <2> HIDE DEF start
  <2> QED
    BY <1>3, <1>4, <2>1, <2>2 DEF IsRun
<1>6. P(g)
  <2>1. g = [i \in 0..Len(ops) |-> g[i]]
    BY <1>3 DEF IsRun
  <2> HIDE DEF start
  <2>2. \A i \in 0..Len(ops) : g[i] = IF i = 0 THEN start ELSE MapOp(pos, assoc, g[i - 1], ops[i])
    BY <1>4, <1>5
  <2> QED
    BY <2>1, <2>2
<1>7. P(run)
  <2>1. run = CHOOSE f : P(f)
    OBVIOUS
  <2> HIDE DEF P, run
  <2> QED
    BY <1>6, <2>1
<1>8. AllMapped(ops, pos, assoc) = run[Len(ops)]
  BY DEF AllMapped, Unmapped
<1> HIDE DEF run, start
<1>9. run[0] = start /\ \A i \in 1..Len(ops) : run[i] = MapOp(pos, assoc, run[i - 1], ops[i])
  BY <1>4, <1>7
<1>10. \A i \in 0..Len(ops) : run[i] = g[i]
  <2> DEFINE T == {i \in 0..Len(ops) : run[i] = g[i]}
  <2>1. 0 \in T
    BY <1>4, <1>5, <1>9
  <2>2. ASSUME NEW i \in 1..Len(ops), i - 1 \in T PROVE i \in T
    BY <1>4, <1>5, <1>9, <2>2
  <2> HIDE DEF T
  <2>3. \A i \in 0..Len(ops) : i \in T
    BY <1>4, <2>1, <2>2, UpTo
  <2> QED
    BY <2>3 DEF T
<1> QED
  BY <1>3, <1>4, <1>8, <1>10 DEF IsRun, start

\* An operation more comes after the others.
LEMMA MappedOn ==
  ASSUME NEW S, NEW ops \in Seq(Operations(S)), NEW pos \in Int, NEW assoc,
         NEW o \in Operations(S)
  PROVE  /\ AllMapped(ops, pos, assoc) \in Positions
         /\ AllMapped(<<>>, pos, assoc) = Unmapped
         /\ AllMapped(Append(ops, o), pos, assoc) = MapOp(pos, assoc, AllMapped(ops, pos, assoc), o)
<1>1. Unmapped \in Positions
  BY DEF Positions, Unmapped
<1>2. Mapping(S, pos, assoc) \in [Positions \X Operations(S) -> Positions]
  BY MappingIsTyped DEF Mapping
<1>3. <<>> \in Seq(Operations(S)) /\ Append(ops, o) \in Seq(Operations(S))
  BY AppendProperties
<1>4. /\ AllMapped(ops, pos, assoc) = Stepped(Unmapped, Mapping(S, pos, assoc), ops)
      /\ AllMapped(<<>>, pos, assoc) = Stepped(Unmapped, Mapping(S, pos, assoc), <<>>)
      /\ AllMapped(Append(ops, o), pos, assoc) =
           Stepped(Unmapped, Mapping(S, pos, assoc), Append(ops, o))
  BY <1>3, MappedSteps
<1>5. \A x \in Positions : Mapping(S, pos, assoc)[<<x, o>>] = MapOp(pos, assoc, x, o)
  BY DEF Mapping
<1> DEFINE start == Unmapped
<1>6. start \in Positions
  BY <1>1
<1> HIDE DEF start
<1>7. /\ Stepped(start, Mapping(S, pos, assoc), ops) \in Positions
      /\ Stepped(start, Mapping(S, pos, assoc), <<>>) = start
      /\ Stepped(start, Mapping(S, pos, assoc), Append(ops, o)) =
           Mapping(S, pos, assoc)[<<Stepped(start, Mapping(S, pos, assoc), ops), o>>]
  <2> DEFINE V == Positions  E == Operations(S)  step == Mapping(S, pos, assoc)
  <2>1. step \in [V \X E -> V] /\ ops \in Seq(E) /\ o \in E /\ start \in V
    BY <1>2, <1>6
  <2> HIDE DEF V, E, step
  <2>2. GoesOn(V, start, step, ops, o)
    BY <2>1, SteppedOn
  <2> QED
    BY <2>2 DEF GoesOn, V, E, step
<1> QED
  BY <1>4, <1>5, <1>7 DEF start

Covering(S) == [x \in Nat \X Operations(S) |-> x[1] + Covered(x[2])]

\* An operation covers a number of characters.
LEMMA CoveringIsTyped ==
  ASSUME NEW S, NEW o \in Operations(S)
  PROVE  Covered(o) \in Nat
  BY OperationIs DEF Covered

\* The same in a function.
LEMMA CoveringIsFunction ==
  ASSUME NEW S
  PROVE  Covering(S) \in [Nat \X Operations(S) -> Nat]
<1>1. \A n \in Nat, o \in Operations(S) : n + Covered(o) \in Nat
  BY CoveringIsTyped
<1> QED
  BY <1>1 DEF Covering

\* The extent of operations adds up (the loops over ops in transaction.rs).
LEMMA ExtentSteps ==
  ASSUME NEW S, NEW ops \in Seq(Operations(S))
  PROVE  Extent(ops) = Stepped(0, Covering(S), ops)
<1> DEFINE start == 0
           P(f) == f = [i \in 0..Len(ops) |-> IF i = 0 THEN start ELSE f[i - 1] + Covered(ops[i])]
           run == CHOOSE f : f = [i \in 0..Len(ops) |-> IF i = 0 THEN start
                                     ELSE f[i - 1] + Covered(ops[i])]
<1>1. start \in Nat
  OBVIOUS
<1>2. Covering(S) \in [Nat \X Operations(S) -> Nat]
  BY CoveringIsFunction
<1>3. PICK g : IsRun(g, Nat, start, Covering(S), ops)
  <2> HIDE DEF start
  <2> QED
    BY <1>1, <1>2, RunOf
<1>4. /\ Len(ops) \in Nat
      /\ \A i \in 1..Len(ops) : /\ ops[i] \in Operations(S) /\ i # 0
                               /\ i \in 0..Len(ops) /\ i - 1 \in 0..Len(ops)
  BY LenProperties, ElementOfSeq
<1>5. g[0] = start /\ \A i \in 1..Len(ops) : g[i] = g[i - 1] + Covered(ops[i])
  <2>1. \A x \in Nat, o \in Operations(S) : Covering(S)[<<x, o>>] = x + Covered(o)
    BY DEF Covering
  <2>2. \A i \in 1..Len(ops) : g[i - 1] \in Nat
    BY <1>3, <1>4 DEF IsRun
  <2> HIDE DEF start
  <2> QED
    BY <1>3, <1>4, <2>1, <2>2 DEF IsRun
<1>6. P(g)
  <2>1. g = [i \in 0..Len(ops) |-> g[i]]
    BY <1>3 DEF IsRun
  <2> HIDE DEF start
  <2>2. \A i \in 0..Len(ops) : g[i] = IF i = 0 THEN start ELSE g[i - 1] + Covered(ops[i])
    BY <1>4, <1>5
  <2> QED
    BY <2>1, <2>2
<1>7. P(run)
  <2>1. run = CHOOSE f : P(f)
    OBVIOUS
  <2> HIDE DEF P, run
  <2> QED
    BY <1>6, <2>1
<1>8. Extent(ops) = run[Len(ops)]
  BY DEF Extent
<1> HIDE DEF run, start
<1>9. run[0] = start /\ \A i \in 1..Len(ops) : run[i] = run[i - 1] + Covered(ops[i])
  BY <1>4, <1>7
<1>10. \A i \in 0..Len(ops) : run[i] = g[i]
  <2> DEFINE T == {i \in 0..Len(ops) : run[i] = g[i]}
  <2>1. 0 \in T
    BY <1>4, <1>5, <1>9
  <2>2. ASSUME NEW i \in 1..Len(ops), i - 1 \in T PROVE i \in T
    BY <1>4, <1>5, <1>9, <2>2
  <2> HIDE DEF T
  <2>3. \A i \in 0..Len(ops) : i \in T
    BY <1>4, <2>1, <2>2, UpTo
  <2> QED
    BY <2>3 DEF T
<1> QED
  BY <1>3, <1>4, <1>8, <1>10 DEF IsRun, start

\* An operation more extends it.
LEMMA ExtentOn ==
  ASSUME NEW S, NEW ops \in Seq(Operations(S)),
         NEW o \in Operations(S)
  PROVE  /\ Extent(ops) \in Nat
         /\ Extent(<<>>) = 0
         /\ Extent(Append(ops, o)) = Extent(ops) + Covered(o)
<1>1. 0 \in Nat
  OBVIOUS
<1>2. Covering(S) \in [Nat \X Operations(S) -> Nat]
  BY CoveringIsFunction
<1>3. <<>> \in Seq(Operations(S)) /\ Append(ops, o) \in Seq(Operations(S))
  BY AppendProperties
<1>4. /\ Extent(ops) = Stepped(0, Covering(S), ops)
      /\ Extent(<<>>) = Stepped(0, Covering(S), <<>>)
      /\ Extent(Append(ops, o)) = Stepped(0, Covering(S), Append(ops, o))
  BY <1>3, ExtentSteps
<1>5. \A x \in Nat : Covering(S)[<<x, o>>] = x + Covered(o)
  BY DEF Covering
<1> DEFINE start == 0
<1>6. start \in Nat
  BY <1>1
<1> HIDE DEF start
<1>7. /\ Stepped(start, Covering(S), ops) \in Nat
      /\ Stepped(start, Covering(S), <<>>) = start
      /\ Stepped(start, Covering(S), Append(ops, o)) =
           Covering(S)[<<Stepped(start, Covering(S), ops), o>>]
  <2> DEFINE V == Nat  E == Operations(S)  step == Covering(S)
  <2>1. step \in [V \X E -> V] /\ ops \in Seq(E) /\ o \in E /\ start \in V
    BY <1>2, <1>6
  <2> HIDE DEF V, E, step
  <2>2. GoesOn(V, start, step, ops, o)
    BY <2>1, SteppedOn
  <2> QED
    BY <2>2 DEF GoesOn, V, E, step
<1> QED
  BY <1>4, <1>5, <1>7 DEF start

-----------------------------------------------------------------------------
CutAt(S, q, p) == \E x \in Seq(S), y \in Seq(S) : q = x \o y /\ Len(x) = p

\* Every place in a text cuts it.
LEMMA CutIsThere ==
  ASSUME NEW S, NEW q \in Seq(S), NEW p \in 0..Len(q)
  PROVE  CutAt(S, q, p)
<1> DEFINE x == SubSeq(q, 1, p)  y == SubSeq(q, p + 1, Len(q))
<1>1. x \in Seq(S) /\ Len(x) = p /\ y \in Seq(S) /\ x \o y = q
  BY CutInTwo
<1> HIDE DEF x, y
<1> QED
  BY <1>1 DEF CutAt

\* Text put in between two parts.
LEMMA InsertedAt ==
  ASSUME NEW S, NEW x \in Seq(S), NEW y \in Seq(S), NEW o, o.op = "insert"
  PROVE  ApplyOp(At(x \o y, Len(x)), o) = At(x \o o.text \o y, Len(x) + o.n)
<1>1. /\ Len(x \o y) = Len(x) + Len(y) /\ Len(x) \in Nat /\ Len(y) \in Nat
      /\ SubSeq(x \o y, 1, Len(x)) = x
      /\ SubSeq(x \o y, Len(x) + 1, Len(x \o y)) = y
  BY TwoParts
<1>2. ~(Len(x) > Len(x \o y))
  BY <1>1
<1> DEFINE q == x \o y  l == Len(x)
<1>3. ApplyOp(At(q, l), o)
        = [At(q, l) EXCEPT !.rope = SubSeq(q, 1, l) \o o.text \o SubSeq(q, l + 1, Len(q)),
                           !.pos = l + o.n]
  <2> HIDE DEF q, l
  <2>1. ~(l > Len(q)) => ApplyOp(At(q, l), o)
        = [At(q, l) EXCEPT !.rope = SubSeq(q, 1, l) \o o.text \o SubSeq(q, l + 1, Len(q)),
                           !.pos = l + o.n]
    BY DEF ApplyOp, At
  <2> QED
    BY <1>2, <2>1 DEF q, l
<1> QED
  BY <1>1, <1>3 DEF At

\* Text taken out between two parts.
LEMMA DeletedAt ==
  ASSUME NEW S, NEW x \in Seq(S), NEW d \in Seq(S), NEW y \in Seq(S),
         NEW o, o.op = "delete", o.n = Len(d)
  PROVE  ApplyOp(At(x \o (d \o y), Len(x)), o) = At(x \o y, Len(x))
<1>1. d \o y \in Seq(S) /\ x \o d \in Seq(S)
  BY ConcatProperties
<1>2. x \o (d \o y) = (x \o d) \o y
  BY ConcatAssociative
<1> DEFINE q == x \o (d \o y)  l == Len(x)
<1>3. SubSeq(q, 1, l) = x /\ l \in Nat
  BY <1>1, TwoParts
<1>4. /\ Len(q) = Len(x \o d) + Len(y) /\ Len(y) \in Nat
      /\ SubSeq(q, Len(x \o d) + 1, Len(q)) = y
  BY <1>1, <1>2, TwoParts
<1>5. Len(x \o d) = l + o.n /\ o.n \in Nat
  BY LenProperties, ConcatProperties
<1> HIDE DEF q, l
<1>6. ~(l + o.n > Len(q))
  BY <1>3, <1>4, <1>5
<1>7. ApplyOp(At(q, l), o)
        = [At(q, l) EXCEPT !.rope = SubSeq(q, 1, l) \o SubSeq(q, l + o.n + 1, Len(q))]
  BY <1>6 DEF ApplyOp, At
<1> QED
  BY <1>3, <1>4, <1>5, <1>7 DEF At, q, l

\* Text passed over.
LEMMA RetainedAt ==
  ASSUME NEW q, NEW p, NEW o, o.op = "retain"
  PROVE  ApplyOp(At(q, p), o) = At(q, p + o.n)
BY DEF ApplyOp, At

\* A state of a changeset being applied, all well.
LEMMA WellAt ==
  ASSUME NEW S, NEW acc \in States(S), acc.status = "ok"
  PROVE  acc = At(acc.rope, acc.pos)
BY DEF States, At

\* What ended badly stays as it is.
LEMMA BadStays ==
  ASSUME NEW acc, NEW o, ApplyOp(acc, o).status = "ok"
  PROVE  acc.status = "ok"
BY DEF ApplyOp

\* An operation of no characters changes nothing.
LEMMA EmptyChangesNothing ==
  ASSUME NEW S, NEW acc \in States(S), NEW o \in Operations(S), o.n = 0,
         ApplyOp(acc, o).status = "ok"
  PROVE  ApplyOp(acc, o) = acc
<1> DEFINE q == acc.rope  p == acc.pos
<1>1. acc = At(q, p) /\ q \in Seq(S) /\ p \in Nat /\ Len(q) \in Nat
  BY BadStays, WellAt, LenProperties DEF States
<1> HIDE DEF q, p
<1>2. OperationFacts(S, o)
  BY OperationIs DEF OperationFacts
<1>3. CASE o.op = "retain"
  <2>1. p + o.n = p
    BY <1>1
  <2> QED
    BY <1>1, <1>3, <2>1, RetainedAt
<1>4. p <= Len(q) => CutAt(S, q, p)
  <2> HAVE p <= Len(q)
  <2>1. p \in 0..Len(q)
    BY <1>1
  <2> QED
    BY <1>1, <2>1, CutIsThere
<1>5. CASE o.op = "insert"
  <2>1. p <= Len(q)
    <3>1. ~(p > Len(q))
      BY <1>1, <1>5 DEF ApplyOp, At
    <3> QED
      BY <1>1, <3>1
  <2>2. PICK x \in Seq(S), y \in Seq(S) : q = x \o y /\ Len(x) = p
    BY <1>4, <2>1 DEF CutAt
  <2>3. o.text = <<>>
    BY <1>2, <1>5, EmptySeq DEF OperationFacts
  <2>4. x \o <<>> = x /\ p + o.n = p
    BY <1>1, ConcatEmptySeq
  <2>5. ApplyOp(At(x \o y, Len(x)), o) = At(x \o o.text \o y, Len(x) + o.n)
    BY <1>5, InsertedAt
  <2> QED
    BY <1>1, <2>2, <2>3, <2>4, <2>5
<1>6. CASE o.op = "delete"
  <2>1. p <= Len(q)
    <3>1. ~(p + o.n > Len(q))
      BY <1>1, <1>6 DEF ApplyOp, At
    <3> QED
      BY <1>1, <3>1
  <2>2. PICK x \in Seq(S), y \in Seq(S) : q = x \o y /\ Len(x) = p
    BY <1>4, <2>1 DEF CutAt
  <2>3. <<>> \in Seq(S) /\ o.n = Len(<<>>) /\ <<>> \o y = y
    BY ConcatEmptySeq
  <2>4. ApplyOp(At(x \o (<<>> \o y), Len(x)), o) = At(x \o y, Len(x))
    BY <1>6, <2>3, DeletedAt
  <2> QED
    BY <1>1, <2>2, <2>3, <2>4
<1> QED
  BY <1>2, <1>3, <1>5, <1>6 DEF OperationFacts

\* A part of a sequence is what stands there.
LEMMA SameRange ==
  ASSUME NEW S, NEW q, NEW g, NEW i \in Int, NEW j \in Int,
         \A h \in i..j : q[h] = g[h] /\ g[h] \in S
  PROVE  SubSeq(q, i, j) = SubSeq(g, i, j)
<1> DEFINE x == SubSeq(q, i, j)  y == SubSeq(g, i, j)  n == IF i <= j THEN j - i + 1 ELSE 0
<1>1. x \in Seq(S) /\ Len(x) = n /\ \A h \in 1..j - i + 1 : x[h] = q[i + h - 1]
  BY SubSeqProperties
<1>2. y \in Seq(S) /\ Len(y) = n /\ \A h \in 1..j - i + 1 : y[h] = g[i + h - 1]
  BY SubSeqProperties
<1> HIDE DEF x, y
<1>3. \A h \in 1..n : h \in 1..j - i + 1 /\ (i + h - 1) \in i..j
  OBVIOUS
<1>4. \A h \in 1..n : x[h] = y[h]
  BY <1>1, <1>2, <1>3
<1>5. x = y
  BY <1>1, <1>2, <1>4, SeqEqual
<1> QED
  BY <1>5 DEF x, y

Regroups(x, y, z) == (x \o y) \o z = x \o (y \o z)

\* Sequences put together can be grouped either way.
LEMMA Regrouped ==
  ASSUME NEW S, NEW x \in Seq(S), NEW y \in Seq(S), NEW z \in Seq(S)
  PROVE  Regroups(x, y, z)
BY ConcatAssociative DEF Regroups

\* Two operations of a kind, one after the other, are one (the merging of push_retain,
\* push_insert and push_delete).
LEMMA MergedIsBoth ==
  ASSUME NEW S, NEW acc \in States(S), NEW l \in Operations(S), NEW o \in Operations(S),
         l.op = o.op, NEW m \in Operations(S), m.op = o.op, m.n = l.n + o.n,
         m.text = l.text \o o.text,
         ApplyOp(ApplyOp(acc, l), o).status = "ok"
  PROVE  ApplyOp(acc, m) = ApplyOp(ApplyOp(acc, l), o)
<1> DEFINE q == acc.rope  p == acc.pos
<1>1. ApplyOp(acc, l).status = "ok" /\ acc.status = "ok"
  BY BadStays
<1>2. acc = At(q, p) /\ q \in Seq(S) /\ p \in Nat /\ Len(q) \in Nat
  BY <1>1, WellAt, LenProperties DEF States
<1> HIDE DEF q, p
<1>3. OperationFacts(S, l) /\ OperationFacts(S, o)
  BY OperationIs DEF OperationFacts
<1>4. CASE o.op = "retain"
  <2>1. /\ ApplyOp(At(q, p), l) = At(q, p + l.n)
        /\ ApplyOp(At(q, p + l.n), o) = At(q, p + l.n + o.n)
        /\ ApplyOp(At(q, p), m) = At(q, p + m.n)
    BY <1>4, RetainedAt
  <2>2. p + l.n + o.n = p + m.n
    BY <1>2, <1>3 DEF OperationFacts
  <2> QED
    BY <1>2, <2>1, <2>2
<1>5. CASE o.op = "insert"
  <2>1. p \in 0..Len(q)
    <3>1. ~(p > Len(q))
      BY <1>1, <1>2, <1>5 DEF ApplyOp, At
    <3> QED
      BY <1>2, <3>1
  <2>2. PICK x \in Seq(S), y \in Seq(S) : q = x \o y /\ Len(x) = p
    BY <1>2, <2>1, CutIsThere DEF CutAt
  <2> DEFINE t == l.text  w == o.text
  <2>3. t \in Seq(S) /\ w \in Seq(S) /\ l.n = Len(t) /\ o.n = Len(w) /\ m.text = t \o w
    BY <1>3, <1>5 DEF OperationFacts
  <2>4. ApplyOp(At(x \o y, Len(x)), l) = At(x \o t \o y, Len(x) + l.n)
    BY <1>5, InsertedAt
  <2>5. x \o t \in Seq(S) /\ Len(x \o t) = Len(x) + l.n /\ l.n \in Nat /\ o.n \in Nat
    BY <2>3, ConcatProperties, LenProperties
  <2>6. ApplyOp(At((x \o t) \o y, Len(x \o t)), o) = At((x \o t) \o w \o y, Len(x \o t) + o.n)
    BY <1>5, <2>5, InsertedAt
  <2>7. ApplyOp(At(x \o y, Len(x)), m) = At(x \o (t \o w) \o y, Len(x) + m.n)
    BY <1>5, InsertedAt
  <2> HIDE DEF t, w
  <2>8. Regroups(x, t, w)
    BY <2>3, Regrouped
  <2>9. Len(x \o t) + o.n = Len(x) + m.n
    BY <1>2, <2>2, <2>5
  <2> QED
    BY <1>2, <2>2, <2>4, <2>5, <2>6, <2>7, <2>8, <2>9 DEF Regroups
<1>6. CASE o.op = "delete"
  <2>1. p + l.n <= Len(q) /\ l.n \in Nat /\ o.n \in Nat
    <3>1. ~(p + l.n > Len(q))
      BY <1>1, <1>2, <1>6 DEF ApplyOp, At
    <3> QED
      BY <1>2, <1>3, <3>1 DEF OperationFacts
  <2>2. p \in 0..Len(q)
    BY <1>2, <2>1
  <2>3. PICK x \in Seq(S), z \in Seq(S) : q = x \o z /\ Len(x) = p
    BY <1>2, <2>2, CutIsThere DEF CutAt
  <2>4. Len(z) \in Nat /\ Len(q) = Len(x) + Len(z)
    BY <2>3, ConcatProperties, LenProperties
  <2>5. l.n \in 0..Len(z)
    BY <1>2, <2>1, <2>3, <2>4
  <2>6. PICK d \in Seq(S), y \in Seq(S) : z = d \o y /\ Len(d) = l.n
    <3>1. CutAt(S, z, l.n)
      BY <2>5, CutIsThere
    <3> QED
      BY <3>1 DEF CutAt
  <2>7. ApplyOp(At(x \o (d \o y), Len(x)), l) = At(x \o y, Len(x))
    BY <1>6, <2>6, DeletedAt
  <2>8. Len(y) \in Nat /\ Len(x \o y) = Len(x) + Len(y) /\ x \o y \in Seq(S)
    BY ConcatProperties, LenProperties
  <2>9. ApplyOp(At(x \o y, Len(x)), o).status = "ok"
    BY <1>2, <2>3, <2>6, <2>7
  <2>10. o.n \in 0..Len(y)
    <3>1. ~(Len(x) + o.n > Len(x \o y))
      BY <1>6, <2>9 DEF ApplyOp, At
    <3> QED
      BY <1>2, <2>1, <2>3, <2>8, <3>1
  <2>11. PICK f \in Seq(S), g \in Seq(S) : y = f \o g /\ Len(f) = o.n
    <3>1. CutAt(S, y, o.n)
      BY <2>10, CutIsThere
    <3> QED
      BY <3>1 DEF CutAt
  <2>12. ApplyOp(At(x \o (f \o g), Len(x)), o) = At(x \o g, Len(x))
    BY <1>6, <2>11, DeletedAt
  <2>13. d \o f \in Seq(S) /\ Len(d \o f) = m.n
    <3>1. d \o f \in Seq(S) /\ Len(d \o f) = Len(d) + Len(f)
      BY TwoParts
    <3> QED
      BY <2>6, <2>11, <3>1
  <2>14. ApplyOp(At(x \o ((d \o f) \o g), Len(x)), m) = At(x \o g, Len(x))
    <3> DEFINE j == d \o f
    <3>1. j \in Seq(S) /\ Len(j) = m.n
      BY <2>13
    <3> HIDE DEF j
    <3>2. ApplyOp(At(x \o (j \o g), Len(x)), m) = At(x \o g, Len(x))
      BY <1>6, <3>1, DeletedAt
    <3> QED
      BY <3>2 DEF j
  <2>15. Regroups(d, f, g)
    BY Regrouped
  <2> QED
    BY <1>2, <2>3, <2>6, <2>7, <2>11, <2>12, <2>14, <2>15 DEF Regroups
<1> QED
  BY <1>3, <1>4, <1>5, <1>6 DEF OperationFacts

\* What is pushed is applied after what was there, if it can be.
LEMMA PushedApplies ==
  ASSUME NEW S, NEW ops \in Seq(Operations(S)), NEW o \in Operations(S), NEW r \in Seq(S),
         ApplyOp(AllApplied(ops, r), o).status = "ok"
  PROVE  AllApplied(PushOp(ops, o), r) = ApplyOp(AllApplied(ops, r), o)
<1>1. /\ AllApplied(ops, r) \in States(S)
      /\ AllApplied(Append(ops, o), r) = ApplyOp(AllApplied(ops, r), o)
  BY AppliedOn
<1>2. CASE o.n = 0
  <2>1. PushOp(ops, o) = ops
    BY <1>2 DEF PushOp
  <2> QED
    BY <1>1, <1>2, <2>1, EmptyChangesNothing
<1>3. CASE o.n # 0 /\ ops # <<>> /\ Last(ops).op = o.op
  <2> DEFINE f == Front(ops)  l == Last(ops)
             m == [o EXCEPT !.n = Last(ops).n + @, !.text = Last(ops).text \o @]
  <2>1. f \in Seq(Operations(S)) /\ l \in Operations(S) /\ ops = Append(f, l)
    BY <1>3, EndOf
  <2>2. m \in Operations(S)
    BY <1>3, PushedIsTyped
  <2>3. m.op = o.op /\ m.n = l.n + o.n /\ m.text = l.text \o o.text
    BY DEF Operations
  <2>4. PushOp(ops, o) = Append(f, m)
    BY <1>3 DEF PushOp
  <2>5. l.op = o.op
    BY <1>3
  <2> HIDE DEF f, l, m
  <2>6. /\ AllApplied(f, r) \in States(S)
        /\ AllApplied(Append(f, l), r) = ApplyOp(AllApplied(f, r), l)
        /\ AllApplied(Append(f, m), r) = ApplyOp(AllApplied(f, r), m)
    BY <2>1, <2>2, AppliedOn
  <2>7. AllApplied(ops, r) = ApplyOp(AllApplied(f, r), l)
    BY <2>1, <2>6
  <2>8. ApplyOp(AllApplied(f, r), m) = ApplyOp(ApplyOp(AllApplied(f, r), l), o)
    <3> DEFINE acc == AllApplied(f, r)
    <3>1. acc \in States(S) /\ ApplyOp(ApplyOp(acc, l), o).status = "ok"
      BY <2>6, <2>7
    <3> HIDE DEF acc
    <3>2. ApplyOp(acc, m) = ApplyOp(ApplyOp(acc, l), o)
      BY <2>1, <2>2, <2>3, <2>5, <3>1, MergedIsBoth
    <3> QED
      BY <3>2 DEF acc
  <2> QED
    BY <2>4, <2>6, <2>7, <2>8
<1>4. CASE o.n # 0 /\ ~(ops # <<>> /\ Last(ops).op = o.op)
  <2>1. PushOp(ops, o) = Append(ops, o)
    BY <1>4 DEF PushOp
  <2> QED
    BY <1>1, <2>1
<1> QED
  BY <1>2, <1>3, <1>4

\* What is pushed covers what it covers.
LEMMA PushedExtends ==
  ASSUME NEW S, NEW ops \in Seq(Operations(S)), NEW o \in Operations(S)
  PROVE  Extent(PushOp(ops, o)) = Extent(ops) + Covered(o)
<1>1. Extent(ops) \in Nat /\ Extent(Append(ops, o)) = Extent(ops) + Covered(o)
  BY ExtentOn
<1>2. CASE o.n = 0
  <2>1. PushOp(ops, o) = ops /\ Covered(o) = 0
    BY <1>2 DEF PushOp, Covered
  <2> QED
    BY <1>1, <2>1
<1>3. CASE o.n # 0 /\ ops # <<>> /\ Last(ops).op = o.op
  <2> DEFINE f == Front(ops)  l == Last(ops)
             m == [o EXCEPT !.n = Last(ops).n + @, !.text = Last(ops).text \o @]
  <2>1. f \in Seq(Operations(S)) /\ l \in Operations(S) /\ ops = Append(f, l)
    BY <1>3, EndOf
  <2>2. m \in Operations(S)
    BY <1>3, PushedIsTyped
  <2>3. m.op = o.op /\ m.n = l.n + o.n
    BY DEF Operations
  <2>4. PushOp(ops, o) = Append(f, m)
    BY <1>3 DEF PushOp
  <2>5. l.op = o.op
    BY <1>3
  <2> HIDE DEF f, l, m
  <2>6. /\ Extent(f) \in Nat
        /\ Extent(Append(f, l)) = Extent(f) + Covered(l)
        /\ Extent(Append(f, m)) = Extent(f) + Covered(m)
    BY <2>1, <2>2, ExtentOn
  <2>7. l.n \in Nat /\ o.n \in Nat
    BY <2>1, OperationIs
  <2>8. Covered(m) = Covered(l) + Covered(o) /\ Covered(l) \in Nat /\ Covered(o) \in Nat
    BY <2>3, <2>5, <2>7 DEF Covered
  <2>9. Extent(f) + Covered(m) = Extent(f) + Covered(l) + Covered(o)
    BY <2>6, <2>8
  <2>10. Extent(ops) = Extent(f) + Covered(l)
    BY <2>1, <2>6
  <2>11. Extent(PushOp(ops, o)) = Extent(f) + Covered(m)
    BY <2>4, <2>6
  <2> QED
    BY <2>9, <2>10, <2>11
<1>4. CASE o.n # 0 /\ ~(ops # <<>> /\ Last(ops).op = o.op)
  <2>1. PushOp(ops, o) = Append(ops, o)
    BY <1>4 DEF PushOp
  <2> QED
    BY <1>1, <2>1
<1> QED
  BY <1>2, <1>3, <1>4

-----------------------------------------------------------------------------
\* Undone(S, u, k, r, d, len): u turns k, and what follows it, into d; its inversion has
\* read k and turns d, whatever follows it, back into k.
Undone(S, u, k, r, d, len) ==
  LET v == AllInverted(u, k \o r, len)
  IN  /\ AllApplied(u, k \o r) = At(d \o r, Len(d))
      /\ v.status = "ok" /\ v.pos = Len(k) /\ Extent(v.inv.ops) = Len(d)
      /\ \A e \in Seq(S) : AllApplied(v.inv.ops, d \o e) = At(k \o e, Len(k))

\* What an operation makes of d and the text c after it.
NextText(d, c, o) ==
  IF o.op = "retain" THEN d \o c ELSE IF o.op = "insert" THEN d \o o.text ELSE d

\* Applied where d ends, an operation makes that of it.
LEMMA NextApplied ==
  ASSUME NEW S, NEW o \in Operations(S), NEW d \in Seq(S), NEW c \in Seq(S), NEW r \in Seq(S),
         Len(c) = Covered(o)
  PROVE  /\ NextText(d, c, o) \in Seq(S)
         /\ Len(NextText(d, c, o)) = Len(d) + IF o.op = "delete" THEN 0 ELSE o.n
         /\ ApplyOp(At(d \o (c \o r), Len(d)), o)
              = At(NextText(d, c, o) \o r, Len(NextText(d, c, o)))
<1>1. OperationFacts(S, o)
  BY OperationIs DEF OperationFacts
<1>2. Len(c) \in Nat /\ Len(d) \in Nat
  BY LenProperties
<1> DEFINE z == NextText(d, c, o)
<1>3. CASE o.op = "retain"
  <2>1. Len(c) = o.n /\ z = d \o c
    BY <1>3 DEF Covered, NextText
  <2>2. d \o c \in Seq(S) /\ Len(d \o c) = Len(d) + Len(c)
    BY TwoParts
  <2>3. Regroups(d, c, r)
    BY Regrouped
  <2>4. ApplyOp(At(d \o (c \o r), Len(d)), o) = At(d \o (c \o r), Len(d) + o.n)
    BY <1>3, RetainedAt
  <2>5. d \o (c \o r) = z \o r
    BY <2>1, <2>3 DEF Regroups
  <2> HIDE DEF z
  <2> QED
    BY <1>3, <2>1, <2>2, <2>4, <2>5 DEF z
<1>4. CASE o.op = "insert"
  <2>1. c = <<>> /\ z = d \o o.text /\ o.n = Len(o.text) /\ o.text \in Seq(S)
    BY <1>1, <1>4, EmptySeq DEF Covered, NextText, OperationFacts
  <2>2. d \o o.text \in Seq(S) /\ Len(d \o o.text) = Len(d) + o.n
    BY <2>1, TwoParts
  <2>3. <<>> \o r = r
    BY ConcatEmptySeq
  <2>4. ApplyOp(At(d \o r, Len(d)), o) = At(d \o o.text \o r, Len(d) + o.n)
    BY <1>4, InsertedAt
  <2> HIDE DEF z
  <2> QED
    BY <1>4, <2>1, <2>2, <2>3, <2>4 DEF z
<1>5. CASE o.op = "delete"
  <2>1. Len(c) = o.n /\ z = d
    BY <1>5 DEF Covered, NextText
  <2>2. ApplyOp(At(d \o (c \o r), Len(d)), o) = At(d \o r, Len(d))
    BY <1>5, <2>1, DeletedAt
  <2> HIDE DEF z
  <2> QED
    BY <1>2, <1>5, <2>1, <2>2 DEF z
<1> QED
  BY <1>1, <1>3, <1>4, <1>5 DEF OperationFacts

\* One operation more, on the text c after k.
LEMMA OneMoreUndone ==
  ASSUME NEW S, NEW u \in Seq(Operations(S)), NEW o \in Operations(S),
         NEW k \in Seq(S), NEW c \in Seq(S), Len(c) = Covered(o), NEW r \in Seq(S),
         NEW len \in Nat, NEW d \in Seq(S), Undone(S, u, k, c \o r, d, len)
  PROVE  Undone(S, Append(u, o), k \o c, r, NextText(d, c, o), len)
<1> DEFINE q == k \o (c \o r)  v == AllInverted(u, q, len)  w == AllInverted(Append(u, o), q, len)
<1>1. (k \o c) \o r = q
  <2>1. Regroups(k, c, r)
    BY Regrouped
  <2> QED
    BY <2>1 DEF Regroups
<1>2. q \in Seq(S) /\ c \o r \in Seq(S) /\ k \o c \in Seq(S) /\ Len(k \o c) = Len(k) + Len(c)
      /\ Len(k) \in Nat /\ Len(c) \in Nat /\ Len(r) \in Nat /\ Len(d) \in Nat
  BY ConcatProperties, LenProperties
<1>3. /\ AllApplied(u, q) = At(d \o (c \o r), Len(d))
      /\ v.status = "ok" /\ v.pos = Len(k) /\ Extent(v.inv.ops) = Len(d)
      /\ \A e \in Seq(S) : AllApplied(v.inv.ops, d \o e) = At(k \o e, Len(k))
  BY DEF Undone
<1> HIDE DEF q
<1>4. AllApplied(Append(u, o), q) = ApplyOp(AllApplied(u, q), o)
  BY <1>2, AppliedOn
<1>5. v \in Inversions(S) /\ w = InvertOp(q, v, o)
  BY <1>2, InvertedOn
<1>6. OperationFacts(S, o)
  BY OperationIs DEF OperationFacts
<1> HIDE DEF v, w
<1>7. v.inv.ops \in Seq(Operations(S))
  BY <1>5 DEF Inversions, ChangesOf
<1> DEFINE z == NextText(d, c, o)
<1>8. /\ z \in Seq(S) /\ Len(z) = Len(d) + IF o.op = "delete" THEN 0 ELSE o.n
      /\ AllApplied(Append(u, o), q) = At(z \o r, Len(z))
  BY <1>3, <1>4, NextApplied
<1> HIDE DEF z
<1>9. ASSUME w.status = "ok", w.pos = Len(k) + Len(c),
             NEW m \in Operations(S), w.inv.ops = PushOp(v.inv.ops, m),
             Len(z) = Len(d) + Covered(m),
             \A e \in Seq(S) : \E f \in Seq(S) :
                z \o e = d \o f
                /\ ApplyOp(At(k \o f, Len(k)), m) = At((k \o c) \o e, Len(k) + Len(c))
      PROVE  Undone(S, Append(u, o), k \o c, r, z, len)
  <2>1. ASSUME NEW e \in Seq(S)
        PROVE  AllApplied(w.inv.ops, z \o e) = At((k \o c) \o e, Len(k \o c))
    <3>1. PICK f \in Seq(S) :
             z \o e = d \o f /\ ApplyOp(At(k \o f, Len(k)), m) = At((k \o c) \o e, Len(k) + Len(c))
      BY <1>9
    <3>2. AllApplied(v.inv.ops, d \o f) = At(k \o f, Len(k)) /\ d \o f \in Seq(S)
      BY <1>3, ConcatProperties
    <3>3. ApplyOp(AllApplied(v.inv.ops, d \o f), m).status = "ok"
      BY <3>1, <3>2 DEF At
    <3>4. AllApplied(PushOp(v.inv.ops, m), d \o f) = ApplyOp(AllApplied(v.inv.ops, d \o f), m)
      BY <1>7, <3>2, <3>3, PushedApplies
    <3> QED
      BY <1>2, <1>9, <3>1, <3>2, <3>4
  <2>2. Extent(w.inv.ops) = Len(z)
    BY <1>3, <1>7, <1>9, PushedExtends
  <2> QED
    BY <1>1, <1>2, <1>8, <1>9, <2>1, <2>2 DEF Undone, w
<1>10. CASE o.op = "retain"
  <2> DEFINE m == Retain(o.n)
  <2>1. Len(c) = o.n /\ o.n \in Nat
    BY <1>6, <1>10 DEF Covered, OperationFacts
  <2>2. z = d \o c
    BY <1>10 DEF z, NextText
  <2>4. w = [v EXCEPT !.inv = PushRetain(@, o.n), !.pos = @ + o.n]
    BY <1>3, <1>5, <1>10 DEF InvertOp
  <2>5. w.status = "ok" /\ w.pos = Len(k) + Len(c) /\ w.inv.ops = PushOp(v.inv.ops, m)
    BY <1>3, <1>5, <2>1, <2>4 DEF Inversions, ChangesOf, PushRetain
  <2>6. m \in Operations(S)
    BY <2>1, OperationsMade
  <2>7. ASSUME NEW e \in Seq(S)
        PROVE  \E f \in Seq(S) :
                 z \o e = d \o f
                 /\ ApplyOp(At(k \o f, Len(k)), m) = At((k \o c) \o e, Len(k) + Len(c))
    <3>1. c \o e \in Seq(S) /\ z \o e = d \o (c \o e) /\ (k \o c) \o e = k \o (c \o e)
      <4>1. Regroups(d, c, e) /\ Regroups(k, c, e)
        BY Regrouped
      <4> QED
        BY <2>2, <4>1, TwoParts DEF Regroups
    <3>2. m.op = "retain" /\ m.n = Len(c)
      BY <2>1 DEF Retain
    <3> HIDE DEF m
    <3>3. ApplyOp(At(k \o (c \o e), Len(k)), m) = At(k \o (c \o e), Len(k) + Len(c))
      BY <3>2, RetainedAt
    <3> QED
      BY <3>1, <3>3
  <2>9. Len(z) = Len(d) + Covered(m)
    BY <1>8, <1>10 DEF Covered, Retain, Delete, Insert
  <2> HIDE DEF m
  <2>8. Undone(S, Append(u, o), k \o c, r, z, len)
    BY <1>9, <2>5, <2>6, <2>7, <2>9
  <2> QED
    BY <2>8 DEF z
<1>11. CASE o.op = "insert"
  <2> DEFINE t == o.text  m == Delete(o.n)
  <2>1. Len(t) = o.n /\ o.n \in Nat /\ t \in Seq(S) /\ c = <<>>
    BY <1>6, <1>11, EmptySeq DEF Covered, OperationFacts
  <2> HIDE DEF t
  <2>2. z = d \o t /\ k \o c = k /\ Len(c) = 0
    <3>1. k \o <<>> = k /\ Len(<<>>) = 0
      BY ConcatEmptySeq
    <3> QED
      BY <1>11, <2>1, <3>1 DEF z, NextText, t
  <2>4. w = [v EXCEPT !.inv = PushDelete(@, o.n)]
    BY <1>3, <1>5, <1>11 DEF InvertOp
  <2>5. w.status = "ok" /\ w.pos = Len(k) + Len(c) /\ w.inv.ops = PushOp(v.inv.ops, m)
    BY <1>2, <1>3, <1>5, <2>2, <2>4 DEF Inversions, ChangesOf, PushDelete
  <2>6. m \in Operations(S)
    BY <2>1, OperationsMade
  <2>7. ASSUME NEW e \in Seq(S)
        PROVE  \E f \in Seq(S) :
                 z \o e = d \o f
                 /\ ApplyOp(At(k \o f, Len(k)), m) = At((k \o c) \o e, Len(k) + Len(c))
    <3>1. t \o e \in Seq(S) /\ z \o e = d \o (t \o e)
      <4>1. Regroups(d, t, e)
        BY <2>1, Regrouped
      <4> QED
        BY <2>1, <2>2, <4>1, TwoParts DEF Regroups
    <3>2. m.op = "delete" /\ m.n = Len(t)
      BY <2>1 DEF Delete
    <3> HIDE DEF m
    <3>3. ApplyOp(At(k \o (t \o e), Len(k)), m) = At(k \o e, Len(k))
      BY <2>1, <3>2, DeletedAt
    <3>4. (k \o c) \o e = k \o e /\ Len(k) + Len(c) = Len(k)
      BY <1>2, <2>2
    <3> QED
      BY <3>1, <3>3, <3>4
  <2>9. Len(z) = Len(d) + Covered(m)
    BY <1>8, <1>11 DEF Covered, Retain, Delete, Insert
  <2> HIDE DEF m
  <2>8. Undone(S, Append(u, o), k \o c, r, z, len)
    BY <1>9, <2>5, <2>6, <2>7, <2>9
  <2> QED
    BY <2>8 DEF z
<1>12. CASE o.op = "delete"
  <2> DEFINE m == Insert(c)
  <2>1. Len(c) = o.n /\ o.n \in Nat
    BY <1>6, <1>12 DEF Covered, OperationFacts
  <2>2. z = d
    BY <1>12 DEF z, NextText
  <2>3. Taken(q, Len(k), o.n) = c /\ ~(Len(k) > Len(q))
    <3>1. Len(q) = Len(k) + Len(c \o r) /\ Len(c \o r) = Len(c) + Len(r)
      BY <1>2, ConcatProperties DEF q
    <3>2. (IF Len(k) + o.n < Len(q) THEN Len(k) + o.n ELSE Len(q)) = Len(k) + Len(c)
      BY <1>2, <2>1, <3>1
    <3>3. Taken(q, Len(k), o.n) = SubSeq(q, Len(k) + 1, Len(k) + Len(c))
      BY <3>2 DEF Taken
    <3>5. SubSeq(k \o c, Len(k) + 1, Len(k \o c)) = c
      BY TwoParts
    <3>6. SubSeq(q, Len(k) + 1, Len(k) + Len(c)) = SubSeq(k \o c, Len(k) + 1, Len(k) + Len(c))
      <4> DEFINE g == k \o c  i == Len(k) + 1  j == Len(k) + Len(c)
      <4>1. g \in Seq(S) /\ i \in Nat /\ j \in Nat /\ i >= 1 /\ Len(g) = j
        BY <1>2
      <4>2. q = g \o r
        BY <1>1
      <4> HIDE DEF g, i, j
      <4>3. \A h \in 1..Len(g) + Len(r) : q[h] = IF h <= Len(g) THEN g[h] ELSE r[h - Len(g)]
        BY <4>1, <4>2, ConcatProperties
      <4>4. \A h \in i..j : q[h] = g[h]
        <5>1. \A h \in i..j : h \in 1..Len(g) + Len(r) /\ h <= Len(g)
          BY <1>2, <4>1
        <5> QED
          BY <4>3, <5>1
      <4>5. \A h \in i..j : g[h] \in S
        <5>1. \A h \in i..j : h \in 1..Len(g)
          BY <4>1
        <5> QED
          BY <4>1, <5>1, ElementOfSeq
      <4>8. SubSeq(q, i, j) = SubSeq(g, i, j)
        BY <4>1, <4>4, <4>5, SameRange
      <4> QED
        BY <4>8 DEF g, i, j
    <3> QED
      <4>1. ~(Len(k) > Len(q))
        BY <1>2, <3>1
      <4>2. SubSeq(k \o c, Len(k) + 1, Len(k) + Len(c)) = c
        BY <1>2, <3>5
      <4> QED
        BY <3>3, <3>6, <4>1, <4>2
  <2>4. w = [v EXCEPT !.inv = PushInsert(@, c), !.pos = @ + o.n]
    BY <1>3, <1>5, <1>12, <2>3 DEF InvertOp
  <2>5. w.status = "ok" /\ w.pos = Len(k) + Len(c) /\ w.inv.ops = PushOp(v.inv.ops, m)
    BY <1>3, <1>5, <2>1, <2>4 DEF Inversions, ChangesOf, PushInsert
  <2>6. m \in Operations(S)
    BY OperationsMade
  <2>7. ASSUME NEW e \in Seq(S)
        PROVE  \E f \in Seq(S) :
                 z \o e = d \o f
                 /\ ApplyOp(At(k \o f, Len(k)), m) = At((k \o c) \o e, Len(k) + Len(c))
    <3>1. m.op = "insert" /\ m.text = c /\ m.n = Len(c)
      BY DEF Insert
    <3> HIDE DEF m
    <3>2. ApplyOp(At(k \o e, Len(k)), m) = At((k \o c) \o e, Len(k) + Len(c))
      BY <3>1, InsertedAt
    <3> QED
      BY <2>2, <3>2
  <2>9. Len(z) = Len(d) + Covered(m)
    BY <1>2, <2>2 DEF Covered, Insert
  <2> HIDE DEF m
  <2>8. Undone(S, Append(u, o), k \o c, r, z, len)
    BY <1>9, <2>5, <2>6, <2>7, <2>9
  <2> QED
    BY <2>8 DEF z
<1> QED
  BY <1>6, <1>10, <1>11, <1>12 DEF OperationFacts

-----------------------------------------------------------------------------
\* Moved(T, u, k, d): where the characters of k are in d.  A place of d is new text, from
\* T, or the place of a character of k, and map_pos has found it; a position after k is
\* still to come.
Moved(T, u, k, d) ==
  /\ \A pos \in Nat : pos >= Len(k) =>
       AllMapped(u, pos, "after") = [orig |-> Len(k), new |-> Len(d), res |-> -1]
  /\ \A j \in 1..Len(d) :
       \/ d[j] \in T
       \/ \E i \in 1..Len(k) : d[j] = k[i] /\ AllMapped(u, i - 1, "after").res = j - 1

\* One operation more, on the text c after k.
LEMMA OneMoreMoved ==
  ASSUME NEW S, NEW T, NEW u \in Seq(Operations(S)), NEW o \in Operations(S),
         o.text \in Seq(T), NEW k \in Seq(S), NEW c \in Seq(S), Len(c) = Covered(o),
         NEW d \in Seq(S), Moved(T, u, k, d)
  PROVE  Moved(T, Append(u, o), k \o c, NextText(d, c, o))
<1> DEFINE z == NextText(d, c, o)  g == k \o c
           M(pos) == AllMapped(u, pos, "after")
           N(pos) == AllMapped(Append(u, o), pos, "after")
<1>1. OperationFacts(S, o)
  BY OperationIs DEF OperationFacts
<1>2. /\ Len(k) \in Nat /\ Len(c) \in Nat /\ Len(d) \in Nat /\ o.n \in Nat
      /\ g \in Seq(S) /\ Len(g) = Len(k) + Len(c)
  BY <1>1, TwoParts, LenProperties DEF OperationFacts
<1>3. z \in Seq(S) /\ Len(z) = Len(d) + IF o.op = "delete" THEN 0 ELSE o.n
  BY NextApplied
<1>4. \A pos \in Nat : M(pos) \in Positions /\ N(pos) = MapOp(pos, "after", M(pos), o)
  BY MappedOn
<1>5. /\ \A pos \in Nat : pos >= Len(k) => M(pos) = [orig |-> Len(k), new |-> Len(d), res |-> -1]
      /\ \A j \in 1..Len(d) :
           d[j] \in T \/ \E i \in 1..Len(k) : d[j] = k[i] /\ M(i - 1).res = j - 1
  BY DEF Moved
<1> HIDE DEF M, N
<1>6. ASSUME NEW pos \in Nat, pos >= Len(g)
      PROVE  N(pos) = [orig |-> Len(g), new |-> Len(z), res |-> -1]
  <2>1. pos >= Len(k) /\ ~(Len(k) + Len(c) > pos)
    BY <1>2, <1>6
  <2>2. M(pos) = [orig |-> Len(k), new |-> Len(d), res |-> -1]
    BY <1>5, <2>1
  <2>3. N(pos) = MapOp(pos, "after", [orig |-> Len(k), new |-> Len(d), res |-> -1], o)
    BY <1>4, <2>2
  <2> DEFINE acc == [orig |-> Len(k), new |-> Len(d), res |-> -1]  n == N(pos)
  <2>4. /\ acc.orig = Len(k) /\ acc.new = Len(d) /\ acc.res = -1
        /\ acc \in [orig : Int, new : Int, res : Int]
    BY <1>2
  <2> HIDE DEF acc
  <2>5. n = MapOp(pos, "after", acc, o)
    BY <2>3 DEF acc
  <2>6. n \in Positions
    <3>1. acc \in Positions
      BY <2>4 DEF Positions
    <3> QED
      BY <2>5, <3>1, MappingIsTyped
  <2> HIDE DEF n
  <2>7. n.orig = Len(g) /\ n.new = Len(z) /\ n.res = -1
    <3>1. CASE o.op = "retain"
      <4>1. Len(c) = o.n /\ Len(g) = Len(k) + o.n /\ Len(z) = Len(d) + o.n /\ ~(Len(k) + o.n > pos)
        BY <1>2, <1>3, <2>1, <3>1 DEF Covered
      <4>2. n = [acc EXCEPT !.orig = Len(k) + o.n, !.new = Len(d) + o.n]
        BY <2>4, <2>5, <3>1, <4>1 DEF MapOp
      <4> QED
        BY <2>4, <4>1, <4>2
    <3>2. CASE o.op = "insert"
      <4>1. Len(c) = 0 /\ Len(g) = Len(k) /\ Len(z) = Len(d) + o.n
        BY <1>2, <1>3, <3>2 DEF Covered
      <4>2. n = [acc EXCEPT !.new = Len(d) + o.n]
        BY <2>4, <2>5, <3>2 DEF MapOp
      <4> QED
        BY <2>4, <4>1, <4>2
    <3>3. CASE o.op = "delete"
      <4>1. Len(c) = o.n /\ Len(g) = Len(k) + o.n /\ Len(z) = Len(d) /\ ~(Len(k) + o.n > pos)
        BY <1>2, <1>3, <2>1, <3>3 DEF Covered
      <4>2. n = [acc EXCEPT !.orig = Len(k) + o.n]
        BY <2>4, <2>5, <3>3, <4>1 DEF MapOp
      <4> QED
        BY <2>4, <4>1, <4>2
    <3> QED
      BY <1>1, <3>1, <3>2, <3>3 DEF OperationFacts
  <2>8. n = [orig |-> Len(g), new |-> Len(z), res |-> -1]
    BY <2>6, <2>7 DEF Positions
  <2> QED
    BY <2>8 DEF n
<1>7. \A pos \in Nat, j \in Nat : M(pos).res = j => N(pos).res = j
  <2> TAKE pos \in Nat, j \in Nat
  <2> HAVE M(pos).res = j
  <2>1. MapOp(pos, "after", M(pos), o) = M(pos)
    BY DEF MapOp
  <2> QED
    BY <1>4, <2>1
<1>8. \A i \in 1..Len(k) : g[i] = k[i] /\ i \in 1..Len(g)
  <2>1. \A i \in 1..Len(k) + Len(c) : g[i] = IF i <= Len(k) THEN k[i] ELSE c[i - Len(k)]
    BY ConcatProperties
  <2> HIDE DEF g
  <2> QED
    BY <1>2, <2>1
<1>9. ASSUME NEW j \in 1..Len(d), z[j] = d[j]
      PROVE  z[j] \in T \/ \E i \in 1..Len(g) : z[j] = g[i] /\ N(i - 1).res = j - 1
  <2>1. CASE d[j] \in T
    BY <1>9, <2>1
  <2>2. CASE \E i \in 1..Len(k) : d[j] = k[i] /\ M(i - 1).res = j - 1
    <3>1. PICK i \in 1..Len(k) : d[j] = k[i] /\ M(i - 1).res = j - 1
      BY <2>2
    <3>2. i - 1 \in Nat /\ j - 1 \in Nat
      BY <1>2
    <3>3. N(i - 1).res = j - 1
      BY <1>7, <3>1, <3>2
    <3> QED
      BY <1>8, <1>9, <3>1, <3>3
  <2> QED
    BY <1>5, <2>1, <2>2
<1>10. ASSUME NEW j \in 1..Len(z), ~(j <= Len(d))
       PROVE  z[j] \in T \/ \E i \in 1..Len(g) : z[j] = g[i] /\ N(i - 1).res = j - 1
  <2>1. j \in Nat /\ j > Len(d) /\ j - Len(d) \in 1..o.n /\ o.op # "delete"
    BY <1>2, <1>3, <1>10
  <2>2. CASE o.op = "retain"
    <3> DEFINE h == j - Len(d)  i == Len(k) + h
    <3>1. z = d \o c /\ Len(c) = o.n
      BY <2>2 DEF NextText, Covered
    <3>2. h \in 1..Len(c) /\ i \in 1..Len(g) /\ ~(i <= Len(k)) /\ i - Len(k) = h /\ i - 1 \in Nat
      BY <1>2, <2>1, <3>1
    <3>3. z[j] = c[h]
      <4>1. \A x \in 1..Len(d) + Len(c) : (d \o c)[x] = IF x <= Len(d) THEN d[x] ELSE c[x - Len(d)]
        BY ConcatProperties
      <4>2. j \in 1..Len(d) + Len(c)
        BY <1>2, <2>1, <3>1
      <4> QED
        BY <1>10, <3>1, <4>1, <4>2
    <3>4. g[i] = c[h]
      <4>1. \A x \in 1..Len(k) + Len(c) : g[x] = IF x <= Len(k) THEN k[x] ELSE c[x - Len(k)]
        BY ConcatProperties
      <4>2. i \in 1..Len(k) + Len(c)
        BY <1>2, <3>2
      <4> HIDE DEF g, i, h
      <4> QED
        BY <3>2, <4>1, <4>2
    <3>5. i - 1 >= Len(k) /\ Len(k) + o.n > i - 1 /\ Len(d) + ((i - 1) - Len(k)) = j - 1
      BY <1>2, <2>1, <3>1
    <3>6. N(i - 1) = MapOp(i - 1, "after", [orig |-> Len(k), new |-> Len(d), res |-> -1], o)
      BY <1>4, <1>5, <3>2, <3>5
    <3> HIDE DEF i
    <3>7. N(i - 1).res = j - 1
      BY <2>2, <3>5, <3>6 DEF MapOp
    <3> QED
      BY <3>2, <3>3, <3>4, <3>7
  <2>3. CASE o.op = "insert"
    <3> DEFINE t == o.text
    <3>1. z = d \o t /\ Len(t) = o.n /\ t \in Seq(S)
      BY <1>1, <2>3 DEF NextText, OperationFacts
    <3>2. j - Len(d) \in 1..Len(t)
      BY <2>1, <3>1
    <3>3. z[j] = t[j - Len(d)]
      <4> HIDE DEF t
      <4>1. \A x \in 1..Len(d) + Len(t) : (d \o t)[x] = IF x <= Len(d) THEN d[x] ELSE t[x - Len(d)]
        BY <3>1, ConcatProperties
      <4>2. j \in 1..Len(d) + Len(t)
        BY <1>2, <2>1, <3>1
      <4> QED
        BY <1>10, <3>1, <4>1, <4>2
    <3>4. t[j - Len(d)] \in T
      BY <3>2, ElementOfSeq
    <3> QED
      BY <3>3, <3>4
  <2> QED
    BY <1>1, <2>1, <2>2, <2>3 DEF OperationFacts
<1>11. \A j \in 1..Len(z) : j <= Len(d) => j \in 1..Len(d) /\ z[j] = d[j]
  <2> SUFFICES ASSUME NEW j \in 1..Len(z), j <= Len(d) PROVE j \in 1..Len(d) /\ z[j] = d[j]
    OBVIOUS
  <2>1. j \in 1..Len(d)
    BY <1>2
  <2>2. CASE z = d
    BY <2>1, <2>2
  <2>3. ASSUME NEW x \in Seq(S), z = d \o x PROVE z[j] = d[j]
    <3>1. Len(x) \in Nat /\ j \in 1..Len(d) + Len(x)
      BY <1>2, <2>1, LenProperties
    <3>2. (d \o x)[j] = IF j <= Len(d) THEN d[j] ELSE x[j - Len(d)]
      BY <3>1, ConcatProperties
    <3> QED
      BY <2>3, <3>2
  <2>4. z = d \/ z = d \o c \/ z = d \o o.text
    BY DEF NextText
  <2>5. o.text \in Seq(S)
    BY <1>1 DEF OperationFacts
  <2> QED
    BY <2>1, <2>2, <2>3, <2>4, <2>5
<1> HIDE DEF z, g
<1>12. \A j \in 1..Len(z) : z[j] \in T \/ \E i \in 1..Len(g) : z[j] = g[i] /\ N(i - 1).res = j - 1
  BY <1>9, <1>10, <1>11
<1> QED
  BY <1>6, <1>12 DEF Moved, N, z, g

\* What operations that cover k do to it, undone and with the characters followed.
LEMMA EditIsUndone ==
  ASSUME NEW S, NEW T, T \subseteq S, NEW u \in Seq(Operations(T)),
         NEW k \in Seq(S), Len(k) = Extent(u), NEW r \in Seq(S), NEW len \in Nat
  PROVE  \E d \in Seq(S) : Undone(S, u, k, r, d, len) /\ Moved(T, u, k, d)
<1> DEFINE Good(x) == \A y \in Seq(S), f \in Seq(S) :
                        Len(y) = Extent(x) =>
                          \E d \in Seq(S) : Undone(S, x, y, f, d, len) /\ Moved(T, x, y, d)
           P == {x \in Seq(Operations(T)) : Good(x)}
<1>1. Operations(T) \subseteq Operations(S)
  <2>1. Seq(T) \subseteq Seq(S)
    BY SeqMonotonic
  <2> QED
    BY <2>1 DEF Operations
<1>2. Seq(Operations(T)) \subseteq Seq(Operations(S))
  BY <1>1, SeqMonotonic
<1>3. Retain(0) \in Operations(S) /\ <<>> \in Seq(Operations(S)) /\ <<>> \in Seq(Operations(T))
  BY OperationsMade
<1>4. <<>> \in P
  <2>1. SUFFICES ASSUME NEW y \in Seq(S), NEW f \in Seq(S), Len(y) = Extent(<<>>)
                 PROVE  \E d \in Seq(S) : Undone(S, <<>>, y, f, d, len) /\ Moved(T, <<>>, y, d)
    BY <1>3
  <2>2. Extent(<<>>) = 0
    BY <1>3, ExtentOn
  <2>3. y = <<>>
    BY <2>1, <2>2, EmptySeq
  <2>4. \A e \in Seq(S) : AllApplied(<<>>, e) = At(e, 0)
    BY <1>3, AppliedOn
  <2>5. \A e \in Seq(S) : <<>> \o e = e
    BY ConcatEmptySeq
  <2>6. AllInverted(<<>>, f, len) = Uninverted(len)
    BY <1>3, InvertedOn
  <2>7. ASSUME NEW pos \in Nat PROVE AllMapped(<<>>, pos, "after") = Unmapped
    <3>1. pos \in Int
      OBVIOUS
    <3> QED
      BY <1>3, <3>1, MappedOn
  <2>8. <<>> \in Seq(S) /\ Len(<<>>) = 0
    OBVIOUS
  <2>9. Undone(S, <<>>, <<>>, f, <<>>, len)
    BY <2>2, <2>4, <2>5, <2>6, <2>8 DEF Undone, Uninverted, Identity
  <2>10. Moved(T, <<>>, <<>>, <<>>)
    BY <2>7, <2>8 DEF Moved, Unmapped
  <2> QED
    BY <2>3, <2>8, <2>9, <2>10
<1>5. ASSUME NEW x \in Seq(Operations(T)), NEW o \in Operations(T), x \in P
      PROVE  Append(x, o) \in P
  <2>1. Append(x, o) \in Seq(Operations(T)) /\ x \in Seq(Operations(S)) /\ o \in Operations(S)
    BY <1>1, <1>2, <1>5, AppendProperties
  <2>2. SUFFICES ASSUME NEW y \in Seq(S), NEW f \in Seq(S), Len(y) = Extent(Append(x, o))
                 PROVE  \E d \in Seq(S) :
                          Undone(S, Append(x, o), y, f, d, len) /\ Moved(T, Append(x, o), y, d)
    BY <2>1
  <2>3. Extent(x) \in Nat /\ Len(y) = Extent(x) + Covered(o) /\ Covered(o) \in Nat
    BY <2>1, <2>2, ExtentOn, CoveringIsTyped
  <2>4. Extent(x) \in 0..Len(y)
    BY <2>3
  <2>5. PICK h \in Seq(S), c \in Seq(S) : y = h \o c /\ Len(h) = Extent(x)
    <3>1. CutAt(S, y, Extent(x))
      BY <2>4, CutIsThere
    <3> QED
      BY <3>1 DEF CutAt
  <2>6. Len(c) = Covered(o)
    <3>1. Len(y) = Len(h) + Len(c) /\ Len(c) \in Nat
      BY <2>5, TwoParts
    <3> QED
      BY <2>3, <2>5, <3>1
  <2>7. c \o f \in Seq(S)
    BY TwoParts
  <2>8. PICK d \in Seq(S) : Undone(S, x, h, c \o f, d, len) /\ Moved(T, x, h, d)
    BY <1>5, <2>5, <2>7
  <2>9. o.text \in Seq(T)
    BY OperationIs
  <2>10. Undone(S, Append(x, o), y, f, NextText(d, c, o), len)
    BY <2>1, <2>5, <2>6, <2>8, OneMoreUndone
  <2>11. Moved(T, Append(x, o), y, NextText(d, c, o))
    BY <2>1, <2>5, <2>6, <2>8, <2>9, OneMoreMoved
  <2>12. NextText(d, c, o) \in Seq(S)
    BY <2>1, <2>6, NextApplied
  <2> QED
    BY <2>10, <2>11, <2>12
<1>6. Seq(Operations(T)) \subseteq P
  <2> HIDE DEF P
  <2> QED
    BY <1>4, <1>5, ByAppending
<1> QED
  BY <1>6

-----------------------------------------------------------------------------
\* A changeset for the text d.
Fitting(cs, d) ==
  /\ cs.before = Len(d) /\ Extent(cs.ops) <= Len(d)
  /\ cs.after = Len(ApplyChanges(cs, d).rope)

\* Whatever the text and the changeset for it: it applies, its inverse is a changeset for
\* the text it leaves, and gives the text back (ChangeSet::apply and ChangeSet::invert).
\* That is what UndoTree's InverseAssumption asks of the transactions it records.
THEOREM EditsAreUndone ==
  ASSUME NEW S, NEW d \in Seq(S), NEW cs \in ChangesOf(S), Fitting(cs, d)
  PROVE  LET e == ApplyChanges(cs, d)
             v == Invert(cs, d)
         IN  /\ AllInverted(cs.ops, d, cs.after).status = "ok"
             /\ e.status = "ok" /\ e.rope \in Seq(S)
             /\ v \in ChangesOf(S) /\ Fitting(v, e.rope)
             /\ ApplyChanges(v, e.rope).status = "ok"
             /\ ApplyChanges(v, e.rope).rope = d
<1> DEFINE u == cs.ops  w == AllInverted(u, d, cs.after)  v == Invert(cs, d)
<1>1. /\ u \in Seq(Operations(S)) /\ cs.before \in Nat /\ cs.after \in Nat
      /\ Extent(u) \in Nat /\ Len(d) \in Nat
  <2>1. u \in Seq(Operations(S)) /\ cs.before \in Nat /\ cs.after \in Nat
    BY DEF ChangesOf
  <2>2. Retain(0) \in Operations(S)
    BY OperationsMade
  <2> HIDE DEF u
  <2> QED
    BY <2>1, <2>2, ExtentOn, LenProperties
<1>2. Extent(u) \in 0..Len(d) /\ cs.before = Len(d)
  BY <1>1 DEF Fitting
<1>3. PICK k \in Seq(S), r \in Seq(S) : d = k \o r /\ Len(k) = Extent(u)
  <2>1. CutAt(S, d, Extent(u))
    BY <1>2, CutIsThere
  <2> QED
    BY <2>1 DEF CutAt
<1>4. PICK z \in Seq(S) : Undone(S, u, k, r, z, cs.after)
  <2> HIDE DEF u
  <2> QED
    BY <1>1, <1>3, EditIsUndone
<1>5. /\ AllApplied(u, d) = At(z \o r, Len(z))
      /\ w.status = "ok" /\ Extent(w.inv.ops) = Len(z)
      /\ AllApplied(w.inv.ops, z \o r) = At(d, Len(k))
  BY <1>3, <1>4 DEF Undone
<1>6. ApplyChanges(cs, d) = At(z \o r, Len(z))
  BY <1>2, <1>5 DEF ApplyChanges
<1>7. z \o r \in Seq(S) /\ Len(z \o r) = Len(z) + Len(r) /\ Len(z) \in Nat /\ Len(r) \in Nat
  BY TwoParts
<1>8. cs.after = Len(z \o r)
  BY <1>6 DEF Fitting, At
<1>9. w \in Inversions(S)
  <2>1. Retain(0) \in Operations(S)
    BY OperationsMade
  <2> HIDE DEF u
  <2> QED
    BY <1>1, <2>1, InvertedOn
<1>10. v = [w.inv EXCEPT !.before = cs.after, !.after = cs.before]
  BY DEF Invert
<1>14. AllInverted(cs.ops, d, cs.after).status = "ok"
  BY <1>5
<1> HIDE DEF w, v, u
<1>11. /\ v \in ChangesOf(S) /\ v.ops = w.inv.ops
       /\ v.before = cs.after /\ v.after = cs.before
  BY <1>1, <1>9, <1>10 DEF Inversions, ChangesOf
<1>12. ApplyChanges(v, z \o r) = At(d, Len(k))
  BY <1>5, <1>8, <1>11 DEF ApplyChanges
<1>13. Fitting(v, z \o r)
  <2>1. Extent(v.ops) <= Len(z \o r)
    BY <1>5, <1>7, <1>11
  <2> QED
    BY <1>2, <1>8, <1>11, <1>12, <2>1 DEF Fitting, At
<1> QED
  BY <1>6, <1>7, <1>11, <1>12, <1>13, <1>14 DEF At, v

-----------------------------------------------------------------------------
\* What a builder call makes of the changeset built so far.
LEMMA PushOntoIs ==
  ASSUME NEW S, NEW cs \in ChangesOf(S), NEW o \in Operations(S)
  PROVE  /\ PushOnto(cs, o) \in ChangesOf(S)
         /\ PushOnto(cs, o).ops = PushOp(cs.ops, o)
         /\ PushOnto(cs, o).before = cs.before
         /\ PushOnto(cs, o).after = IF o.op = "retain" THEN cs.after
                                    ELSE IF o.op = "insert" THEN cs.after + o.n
                                    ELSE SatSub(cs.after, o.n)
<1>1. OperationFacts(S, o)
  BY OperationIs DEF OperationFacts
<1>2. cs.ops \in Seq(Operations(S)) /\ cs.before \in Nat /\ cs.after \in Nat
  BY DEF ChangesOf
<1> DEFINE ops == PushOp(cs.ops, o)
<1>3. ops \in Seq(Operations(S))
  BY <1>2, PushedIsTyped
<1>4. cs.after + o.n \in Nat /\ SatSub(cs.after, o.n) \in Nat
  BY <1>1, <1>2 DEF SatSub, OperationFacts
<1>5. CASE o.op = "retain"
  <2>1. Retain(o.n) = o
    BY <1>1, <1>5 DEF Retain, OperationFacts, Operations
  <2>2. PushOnto(cs, o) = [cs EXCEPT !.ops = ops]
    BY <1>5, <2>1 DEF PushOnto, PushRetain
  <2> HIDE DEF ops
  <2>3. PushOnto(cs, o) \in ChangesOf(S) /\ PushOnto(cs, o).ops = ops
        /\ PushOnto(cs, o).before = cs.before /\ PushOnto(cs, o).after = cs.after
    BY <1>2, <1>3, <2>2 DEF ChangesOf
  <2> QED
    BY <1>5, <2>3 DEF ops
<1>6. CASE o.op = "insert"
  <2>1. Insert(o.text) = o /\ Len(o.text) = o.n
    BY <1>1, <1>6 DEF Insert, OperationFacts, Operations
  <2>2. PushOnto(cs, o) = [cs EXCEPT !.ops = ops, !.after = cs.after + o.n]
    BY <1>6, <2>1 DEF PushOnto, PushInsert
  <2> HIDE DEF ops
  <2>3. PushOnto(cs, o) \in ChangesOf(S) /\ PushOnto(cs, o).ops = ops
        /\ PushOnto(cs, o).before = cs.before /\ PushOnto(cs, o).after = cs.after + o.n
    BY <1>2, <1>3, <1>4, <2>2 DEF ChangesOf
  <2> QED
    BY <1>6, <2>3 DEF ops
<1>7. CASE o.op = "delete"
  <2>1. Delete(o.n) = o
    BY <1>1, <1>7 DEF Delete, OperationFacts, Operations
  <2>2. PushOnto(cs, o) = [cs EXCEPT !.ops = ops, !.after = SatSub(cs.after, o.n)]
    BY <1>7, <2>1 DEF PushOnto, PushDelete
  <2> HIDE DEF ops
  <2>3. PushOnto(cs, o) \in ChangesOf(S) /\ PushOnto(cs, o).ops = ops
        /\ PushOnto(cs, o).before = cs.before
        /\ PushOnto(cs, o).after = SatSub(cs.after, o.n)
    BY <1>2, <1>3, <1>4, <2>2 DEF ChangesOf
  <2> QED
    BY <1>7, <2>3 DEF ops
<1> QED
  BY <1>1, <1>5, <1>6, <1>7 DEF OperationFacts

PushingOnto(S) == [x \in ChangesOf(S) \X Operations(S) |-> PushOnto(x[1], x[2])]

\* A builder takes its calls one by one (ChangeSetBuilder).
LEMMA PushedSteps ==
  ASSUME NEW S, NEW ops \in Seq(Operations(S)), NEW len \in Nat
  PROVE  AllPushed(len, ops) = Stepped(Identity(len), PushingOnto(S), ops)
<1> DEFINE start == Identity(len)
           P(f) == f = [i \in 0..Len(ops) |-> IF i = 0 THEN start ELSE PushOnto(f[i - 1], ops[i])]
           run == CHOOSE f : f = [i \in 0..Len(ops) |-> IF i = 0 THEN start
                                     ELSE PushOnto(f[i - 1], ops[i])]
<1>1. start \in ChangesOf(S)
  BY DEF ChangesOf, Identity
<1>2. PushingOnto(S) \in [ChangesOf(S) \X Operations(S) -> ChangesOf(S)]
  BY PushOntoIs DEF PushingOnto
<1>3. PICK g : IsRun(g, ChangesOf(S), start, PushingOnto(S), ops)
  <2> HIDE DEF start
  <2> QED
    BY <1>1, <1>2, RunOf
<1>4. /\ Len(ops) \in Nat
      /\ \A i \in 1..Len(ops) : /\ ops[i] \in Operations(S) /\ i # 0
                               /\ i \in 0..Len(ops) /\ i - 1 \in 0..Len(ops)
  BY LenProperties, ElementOfSeq
<1>5. g[0] = start /\ \A i \in 1..Len(ops) : g[i] = PushOnto(g[i - 1], ops[i])
  <2>1. \A x \in ChangesOf(S), o \in Operations(S) : PushingOnto(S)[<<x, o>>] = PushOnto(x, o)
    BY DEF PushingOnto
  <2>2. \A i \in 1..Len(ops) : g[i - 1] \in ChangesOf(S)
    BY <1>3, <1>4 DEF IsRun
  <2> HIDE DEF start
  <2> QED
    BY <1>3, <1>4, <2>1, <2>2 DEF IsRun
<1>6. P(g)
  <2>1. g = [i \in 0..Len(ops) |-> g[i]]
    BY <1>3 DEF IsRun
  <2> HIDE DEF start
  <2>2. \A i \in 0..Len(ops) : g[i] = IF i = 0 THEN start ELSE PushOnto(g[i - 1], ops[i])
    BY <1>4, <1>5
  <2> QED
    BY <2>1, <2>2
<1>7. P(run)
  <2>1. run = CHOOSE f : P(f)
    OBVIOUS
  <2> HIDE DEF P, run
  <2> QED
    BY <1>6, <2>1
<1>8. AllPushed(len, ops) = run[Len(ops)]
  BY DEF AllPushed
<1> HIDE DEF run, start
<1>9. run[0] = start /\ \A i \in 1..Len(ops) : run[i] = PushOnto(run[i - 1], ops[i])
  BY <1>4, <1>7
<1>10. \A i \in 0..Len(ops) : run[i] = g[i]
  <2> DEFINE T == {i \in 0..Len(ops) : run[i] = g[i]}
  <2>1. 0 \in T
    BY <1>4, <1>5, <1>9
  <2>2. ASSUME NEW i \in 1..Len(ops), i - 1 \in T PROVE i \in T
    BY <1>4, <1>5, <1>9, <2>2
  <2> HIDE DEF T
  <2>3. \A i \in 0..Len(ops) : i \in T
    BY <1>4, <2>1, <2>2, UpTo
  <2> QED
    BY <2>3 DEF T
<1> QED
  BY <1>3, <1>4, <1>8, <1>10 DEF IsRun, start

\* A call more comes after the others.
LEMMA PushedOn ==
  ASSUME NEW S, NEW ops \in Seq(Operations(S)), NEW len \in Nat,
         NEW o \in Operations(S)
  PROVE  /\ AllPushed(len, ops) \in ChangesOf(S)
         /\ AllPushed(len, <<>>) = Identity(len)
         /\ AllPushed(len, Append(ops, o)) = PushOnto(AllPushed(len, ops), o)
<1>1. Identity(len) \in ChangesOf(S)
  BY DEF ChangesOf, Identity
<1>2. PushingOnto(S) \in [ChangesOf(S) \X Operations(S) -> ChangesOf(S)]
  BY PushOntoIs DEF PushingOnto
<1>3. <<>> \in Seq(Operations(S)) /\ Append(ops, o) \in Seq(Operations(S))
  BY AppendProperties
<1>4. /\ AllPushed(len, ops) = Stepped(Identity(len), PushingOnto(S), ops)
      /\ AllPushed(len, <<>>) = Stepped(Identity(len), PushingOnto(S), <<>>)
      /\ AllPushed(len, Append(ops, o)) = Stepped(Identity(len), PushingOnto(S), Append(ops, o))
  BY <1>3, PushedSteps
<1>5. \A x \in ChangesOf(S) : PushingOnto(S)[<<x, o>>] = PushOnto(x, o)
  BY DEF PushingOnto
<1> DEFINE start == Identity(len)
<1>6. start \in ChangesOf(S)
  BY <1>1
<1> HIDE DEF start
<1>7. /\ Stepped(start, PushingOnto(S), ops) \in ChangesOf(S)
      /\ Stepped(start, PushingOnto(S), <<>>) = start
      /\ Stepped(start, PushingOnto(S), Append(ops, o)) =
           PushingOnto(S)[<<Stepped(start, PushingOnto(S), ops), o>>]
  <2> DEFINE V == ChangesOf(S)  E == Operations(S)  step == PushingOnto(S)
  <2>1. step \in [V \X E -> V] /\ ops \in Seq(E) /\ o \in E /\ start \in V
    BY <1>2, <1>6
  <2> HIDE DEF V, E, step
  <2>2. GoesOn(V, start, step, ops, o)
    BY <2>1, SteppedOn
  <2> QED
    BY <2>2 DEF GoesOn, V, E, step
<1> QED
  BY <1>4, <1>5, <1>7 DEF start

\* WellMade(S, cs, len, n): cs is for texts of length len, its operations cover n of it.
WellMade(S, cs, len, n) ==
  /\ cs.before = len /\ Extent(cs.ops) = n
  /\ \A q \in Seq(S) : Len(q) = len => cs.after = Len(AllApplied(cs.ops, q).rope)

\* A call more, on what is left of the text, keeps it so.
LEMMA OneMoreMade ==
  ASSUME NEW S, NEW cs \in ChangesOf(S), NEW o \in Operations(S), NEW len \in Nat, NEW n \in Nat,
         WellMade(S, cs, len, n), n + Covered(o) <= len
  PROVE  WellMade(S, PushOnto(cs, o), len, n + Covered(o))
<1> DEFINE e == PushOnto(cs, o)  u == cs.ops
<1>1. /\ e.ops = PushOp(u, o) /\ e.before = cs.before
      /\ e.after = IF o.op = "retain" THEN cs.after
                   ELSE IF o.op = "insert" THEN cs.after + o.n ELSE SatSub(cs.after, o.n)
  BY PushOntoIs
<1>2. u \in Seq(Operations(S)) /\ Extent(u) = n /\ cs.before = len
  BY DEF ChangesOf, WellMade
<1>3. \A q \in Seq(S) : Len(q) = len => cs.after = Len(AllApplied(u, q).rope)
  BY DEF WellMade
<1> HIDE DEF e, u
<1>4. Extent(e.ops) = n + Covered(o)
  BY <1>1, <1>2, PushedExtends
<1>5. Covered(o) \in Nat /\ OperationFacts(S, o)
  BY CoveringIsTyped, OperationIs DEF OperationFacts
<1>6. ASSUME NEW q \in Seq(S), Len(q) = len
      PROVE  e.after = Len(AllApplied(e.ops, q).rope)
  <2>1. n \in 0..Len(q)
    BY <1>5, <1>6
  <2>2. PICK k \in Seq(S), f \in Seq(S) : q = k \o f /\ Len(k) = n
    <3>1. CutAt(S, q, n)
      BY <2>1, CutIsThere
    <3> QED
      BY <3>1 DEF CutAt
  <2>3. Len(q) = Len(k) + Len(f) /\ Len(f) \in Nat
    BY <2>2, TwoParts
  <2>4. Covered(o) \in 0..Len(f)
    BY <1>5, <1>6, <2>2, <2>3
  <2>5. PICK c \in Seq(S), r \in Seq(S) : f = c \o r /\ Len(c) = Covered(o)
    <3>1. CutAt(S, f, Covered(o))
      BY <2>4, CutIsThere
    <3> QED
      BY <3>1 DEF CutAt
  <2>6. PICK d \in Seq(S) : Undone(S, u, k, f, d, 0)
    BY <1>2, <2>2, EditIsUndone
  <2>7. AllApplied(u, q) = At(d \o (c \o r), Len(d))
    BY <2>2, <2>5, <2>6 DEF Undone
  <2> DEFINE z == NextText(d, c, o)
  <2>8. /\ z \in Seq(S) /\ Len(z) = Len(d) + IF o.op = "delete" THEN 0 ELSE o.n
        /\ ApplyOp(At(d \o (c \o r), Len(d)), o) = At(z \o r, Len(z))
    BY <2>5, NextApplied
  <2> HIDE DEF z
  <2>9. AllApplied(e.ops, q) = At(z \o r, Len(z))
    <3>1. ApplyOp(AllApplied(u, q), o).status = "ok"
      BY <2>7, <2>8 DEF At
    <3>2. AllApplied(PushOp(u, o), q) = ApplyOp(AllApplied(u, q), o)
      BY <1>2, <3>1, PushedApplies
    <3> QED
      BY <1>1, <2>7, <2>8, <3>2
  <2>10. Len(z \o r) = Len(z) + Len(r) /\ Len(r) \in Nat /\ Len(d) \in Nat /\ Len(c) \in Nat
    BY <2>8, TwoParts, LenProperties
  <2>11. Len(d \o (c \o r)) = Len(d) + Len(c) + Len(r)
    <3>1. c \o r \in Seq(S) /\ Len(c \o r) = Len(c) + Len(r)
      BY TwoParts
    <3>2. Len(d \o (c \o r)) = Len(d) + Len(c \o r)
      BY <3>1, TwoParts
    <3> QED
      BY <2>10, <3>1, <3>2
  <2>12. cs.after = Len(d) + Len(c) + Len(r)
    <3>1. cs.after = Len(AllApplied(u, q).rope)
      BY <1>3, <1>6
    <3>2. AllApplied(u, q).rope = d \o (c \o r)
      <4> DEFINE acc == AllApplied(u, q)  x == d \o (c \o r)
      <4>1. acc = At(x, Len(d))
        BY <2>7
      <4> HIDE DEF acc, x
      <4>2. acc.rope = x
        BY <4>1 DEF At
      <4> QED
        BY <4>2 DEF acc, x
    <3> QED
      BY <2>11, <3>1, <3>2
  <2>13. e.after = Len(z) + Len(r)
    <3>1. o.n \in Nat
      BY <1>5 DEF OperationFacts
    <3>2. CASE o.op = "retain"
      BY <1>1, <2>5, <2>8, <2>10, <2>12, <3>1, <3>2 DEF Covered
    <3>3. CASE o.op = "insert"
      BY <1>1, <2>5, <2>8, <2>10, <2>12, <3>1, <3>3 DEF Covered
    <3>4. CASE o.op = "delete"
      <4>1. Len(c) = o.n /\ e.after = SatSub(cs.after, o.n) /\ Len(z) = Len(d) + 0
        BY <1>1, <2>5, <2>8, <3>4 DEF Covered
      <4> DEFINE m == cs.after
      <4>2. m = Len(d) + o.n + Len(r)
        BY <2>12, <4>1
      <4>3. e.after = SatSub(m, o.n)
        BY <4>1
      <4> HIDE DEF m
      <4>4. e.after = Len(d) + Len(r)
        BY <2>10, <3>1, <4>2, <4>3 DEF SatSub
      <4> QED
        BY <2>10, <4>1, <4>4
    <3> QED
      BY <1>5, <3>2, <3>3, <3>4 DEF OperationFacts
  <2> QED
    BY <2>9, <2>10, <2>13 DEF At
<1> QED
  BY <1>1, <1>2, <1>4, <1>6 DEF WellMade, e

\* What a builder builds is a changeset for every text of its length, if its calls fit.
LEMMA BuiltFits ==
  ASSUME NEW S, NEW T, T \subseteq S, NEW len \in Nat, NEW calls \in Seq(Operations(T)),
         Extent(calls) <= len, NEW q \in Seq(S), Len(q) = len
  PROVE  Built(len, calls) \in ChangesOf(T) /\ Fitting(Built(len, calls), q)
<1>1. Operations(T) \subseteq Operations(S)
  <2>1. Seq(T) \subseteq Seq(S)
    BY SeqMonotonic
  <2> QED
    BY <2>1 DEF Operations
<1>2. Seq(Operations(T)) \subseteq Seq(Operations(S))
  BY <1>1, SeqMonotonic
<1>3. ChangesOf(T) \subseteq ChangesOf(S)
  BY <1>2 DEF ChangesOf
<1>4. Retain(0) \in Operations(T) /\ <<>> \in Seq(Operations(T))
  BY OperationsMade
<1> DEFINE P == {x \in Seq(Operations(T)) :
                   Extent(x) <= len => WellMade(S, AllPushed(len, x), len, Extent(x))}
<1>5. <<>> \in P
  <2>1. AllPushed(len, <<>>) = Identity(len) /\ Extent(<<>>) = 0
    BY <1>4, PushedOn, ExtentOn
  <2>2. \A y \in Seq(S) : AllApplied(<<>>, y) = At(y, 0)
    <3>1. Retain(0) \in Operations(S) /\ <<>> \in Seq(Operations(S))
      BY <1>1, <1>2, <1>4
    <3> QED
      BY <3>1, AppliedOn
  <2>3. WellMade(S, Identity(len), len, 0)
    BY <2>1, <2>2 DEF WellMade, Identity, At
  <2> QED
    BY <1>4, <2>1, <2>3
<1>6. ASSUME NEW x \in Seq(Operations(T)), NEW o \in Operations(T), x \in P
      PROVE  Append(x, o) \in P
  <2>1. /\ Append(x, o) \in Seq(Operations(T)) /\ x \in Seq(Operations(S)) /\ o \in Operations(S)
    BY <1>1, <1>2, AppendProperties
  <2>2. Extent(x) \in Nat /\ Extent(Append(x, o)) = Extent(x) + Covered(o) /\ Covered(o) \in Nat
    BY ExtentOn, CoveringIsTyped
  <2>3. /\ AllPushed(len, x) \in ChangesOf(T)
        /\ AllPushed(len, Append(x, o)) = PushOnto(AllPushed(len, x), o)
    BY PushedOn
  <2>4. SUFFICES ASSUME Extent(Append(x, o)) <= len
                 PROVE  WellMade(S, AllPushed(len, Append(x, o)), len, Extent(Append(x, o)))
    BY <2>1
  <2>5. Extent(x) <= len /\ Extent(x) + Covered(o) <= len
    BY <2>2, <2>4
  <2>6. WellMade(S, AllPushed(len, x), len, Extent(x))
    BY <1>6, <2>5
  <2>7. WellMade(S, PushOnto(AllPushed(len, x), o), len, Extent(x) + Covered(o))
    <3> DEFINE cs == AllPushed(len, x)  n == Extent(x)
    <3>1. cs \in ChangesOf(S) /\ WellMade(S, cs, len, n) /\ n \in Nat /\ n + Covered(o) <= len
      BY <1>3, <2>2, <2>3, <2>5, <2>6
    <3> HIDE DEF cs, n
    <3>2. WellMade(S, PushOnto(cs, o), len, n + Covered(o))
      BY <2>1, <3>1, OneMoreMade
    <3> QED
      BY <3>2 DEF cs, n
  <2> QED
    BY <2>2, <2>3, <2>7
<1>7. calls \in P
  <2> HIDE DEF P
  <2> QED
    BY <1>5, <1>6, ByAppending
<1> DEFINE cs == AllPushed(len, calls)  n == Extent(calls)  u == cs.ops
<1>8. cs \in ChangesOf(T) /\ WellMade(S, cs, len, n) /\ n \in Nat
  BY <1>4, <1>7, PushedOn, ExtentOn
<1> HIDE DEF cs, n
<1>9. /\ u \in Seq(Operations(T)) /\ cs.before = len /\ Extent(u) = n
      /\ cs.after = Len(AllApplied(u, q).rope)
  BY <1>8 DEF WellMade, ChangesOf
<1>10. n <= len
  BY DEF n
<1>11. Built(len, calls) = Build(cs)
  BY DEF Built, cs
<1>12. CASE u # <<>> /\ Last(u).op = "retain"
  <2> DEFINE f == Front(u)  l == Last(u)
  <2>1. f \in Seq(Operations(T)) /\ l \in Operations(T) /\ u = Append(f, l)
    BY <1>9, <1>12, EndOf
  <2>2. Build(cs) = [cs EXCEPT !.ops = f]
    BY <1>12 DEF Build
  <2>3. l.op = "retain"
    BY <1>12
  <2> HIDE DEF f, l, u
  <2>4. Build(cs) \in ChangesOf(T) /\ Build(cs).ops = f /\ Build(cs).before = cs.before
        /\ Build(cs).after = cs.after
    BY <1>8, <2>1, <2>2 DEF ChangesOf
  <2>5. Extent(f) \in Nat /\ Extent(u) = Extent(f) + Covered(l) /\ Covered(l) \in Nat
    BY <2>1, ExtentOn, CoveringIsTyped
  <2>6. AllApplied(u, q) = ApplyOp(AllApplied(f, q), l) /\ AllApplied(f, q) \in States(S)
    BY <1>1, <1>2, <2>1, AppliedOn
  <2>7. AllApplied(u, q).rope = AllApplied(f, q).rope
    BY <2>3, <2>6 DEF ApplyOp, States
  <2>8. Extent(f) <= len
    BY <1>8, <1>9, <1>10, <2>5
  <2>9. ApplyChanges(Build(cs), q) = AllApplied(f, q)
    BY <1>9, <2>4 DEF ApplyChanges
  <2> QED
    BY <1>9, <1>11, <2>4, <2>7, <2>8, <2>9 DEF Fitting
<1>13. CASE ~(u # <<>> /\ Last(u).op = "retain")
  <2>1. Build(cs) = cs
    BY <1>13 DEF Build
  <2>2. ApplyChanges(cs, q) = AllApplied(u, q)
    BY <1>9 DEF ApplyChanges
  <2> QED
    BY <1>8, <1>9, <1>10, <1>11, <2>1, <2>2 DEF Fitting
<1> QED
  BY <1>12, <1>13

-----------------------------------------------------------------------------
\* What a's calls insert, and the changesets composed: a is for the text, whose characters
\* are told apart, and from what a inserts too.
Inks == {-1, -2}
EditInv ==
  /\ text \in Seq(Int) /\ a \in ChangesOf(Inks) /\ Fitting(a, text)
  /\ \A i \in 1..Len(text) : text[i] = i

\* The text and the changesets stay what they are.
LEMMA ComposeKeepsInputs == [Iteration]_composeVars => UNCHANGED inputs
BY DEF Iteration, composeVars, InsertKept, InsertDeleted, InsertLeft, InsertMeetsInsert,
       InsertOfB, DrainA, DrainB, RetainThenB, DeletedByA, Both, OnlyA, OnlyB, inputs

\* A builder's changesets fit.
LEMMA ComposeInitFits == ComposeInit => EditInv
<1> SUFFICES ASSUME ComposeInit PROVE EditInv
  OBVIOUS
<1>1. PICK len \in 0..MaxLen : text = [i \in 1..len |-> i] /\ a \in ChangeSets(len, -1)
  BY DEF ComposeInit
<1>2. len \in Nat
  BY <1>1, ComposeAssumption
<1>3. text \in Seq(Int) /\ Len(text) = len /\ \A i \in 1..len : text[i] = i
  BY <1>1, <1>2
<1>4. PICK n \in 0..MaxCalls : \E s \in [1..n -> Calls(len, -1)] :
         Extent(s) <= len /\ a = Built(len, s)
  BY <1>1 DEF ChangeSets
<1> PICK calls \in [1..n -> Calls(len, -1)] : Extent(calls) <= len /\ a = Built(len, calls)
  BY <1>4
<1>5. Calls(len, -1) \subseteq Operations(Inks)
  <2>1. <<-1>> \in Seq(Inks) /\ <<-1, -1 - 1>> \in Seq(Inks)
    BY DEF Inks
  <2>2. \A m \in 1..len : m \in Nat
    BY <1>2
  <2> QED
    BY <2>1, <2>2, OperationsMade DEF Calls
<1>6. calls \in Seq(Operations(Inks))
  <2>1. n \in Nat
    BY ComposeAssumption
  <2>2. calls \in [1..n -> Operations(Inks)]
    BY <1>5
  <2> QED
    BY <2>1, <2>2, SeqDef
<1>7. Inks \subseteq Int
  BY DEF Inks
<1>8. a \in ChangesOf(Inks) /\ Fitting(a, text)
  BY <1>2, <1>3, <1>4, <1>6, <1>7, BuiltFits
<1> QED
  BY <1>3, <1>8 DEF EditInv

\* It holds throughout.
LEMMA EditsFit == ComposeSpec => []EditInv
<1>1. EditInv /\ UNCHANGED inputs => EditInv'
  BY DEF EditInv, inputs, Fitting
<1> QED
  BY <1>1, ComposeInitFits, ComposeKeepsInputs, PTL DEF ComposeSpec

\* A changeset over what a inserts is one over all characters.
LEMMA InkIsText == ChangesOf(Inks) \subseteq ChangesOf(Int) /\ Inks \subseteq Int
<1>1. Inks \subseteq Int
  BY DEF Inks
<1>2. Seq(Inks) \subseteq Seq(Int)
  BY <1>1, SeqMonotonic
<1>3. Operations(Inks) \subseteq Operations(Int)
  BY <1>2 DEF Operations
<1>4. Seq(Operations(Inks)) \subseteq Seq(Operations(Int))
  BY <1>3, SeqMonotonic
<1> QED
  BY <1>1, <1>4 DEF ChangesOf

\* Undo restores the text: an edit a builder made applies to the text it was built for,
\* and the inverse computed before it, applied after it, gives that text back, whatever
\* the text and the calls (ChangeSet::apply, ChangeSet::invert).
THEOREM UndoRestores == ComposeSpec => []InverseRestores
<1>1. EditInv => InverseRestores
  <2> SUFFICES ASSUME EditInv PROVE InverseRestores
    OBVIOUS
  <2>1. text \in Seq(Int) /\ a \in ChangesOf(Int) /\ Fitting(a, text)
    BY InkIsText DEF EditInv
  <2> DEFINE e == ApplyChanges(a, text)  v == Invert(a, text)
  <2>2. /\ e.status = "ok"
        /\ ApplyChanges(v, e.rope).status = "ok" /\ ApplyChanges(v, e.rope).rope = text
    BY <2>1, EditsAreUndone
  <2>3. Len(e.rope) = a.after
    BY <2>1 DEF Fitting
  <2> QED
    BY <2>2, <2>3 DEF InverseRestores, Edited
<1> QED
  BY <1>1, EditsFit, PTL

\* A cursor on a character the edit keeps stays on that character, whatever the text and
\* the calls (ChangeSet::map_pos).
THEOREM CursorFollows == ComposeSpec => []CursorFollowsItsCharacter
<1>1. EditInv => CursorFollowsItsCharacter
  <2> SUFFICES ASSUME EditInv,
                      NEW p \in 0..(Len(text) - 1), NEW q \in 0..(Len(Edited.rope) - 1),
                      Edited.rope[q + 1] = text[p + 1]
               PROVE  MapPos(a, p, "after") = q
    BY DEF CursorFollowsItsCharacter
  <2> DEFINE u == a.ops  m == AllMapped(u, p, "after")
  <2>1. /\ text \in Seq(Int) /\ Fitting(a, text) /\ u \in Seq(Operations(Inks))
        /\ Len(text) \in Nat /\ a.before = Len(text)
        /\ \A i \in 1..Len(text) : text[i] = i
    BY LenProperties DEF EditInv, ChangesOf, Fitting
  <2>2. Extent(u) \in 0..Len(text)
    <3>1. Retain(0) \in Operations(Inks)
      BY OperationsMade
    <3> HIDE DEF u
    <3>2. Extent(u) \in Nat
      BY <2>1, <3>1, ExtentOn
    <3> QED
      BY <2>1, <3>2 DEF Fitting, u
  <2> HIDE DEF u
  <2>3. PICK k \in Seq(Int), r \in Seq(Int) : text = k \o r /\ Len(k) = Extent(u)
    <3>1. CutAt(Int, text, Extent(u))
      BY <2>1, <2>2, CutIsThere
    <3> QED
      BY <3>1 DEF CutAt
  <2>4. PICK d \in Seq(Int) : Undone(Int, u, k, r, d, 0) /\ Moved(Inks, u, k, d)
    BY <2>1, <2>3, InkIsText, EditIsUndone
  <2>5. Edited.rope = d \o r
    BY <2>1, <2>3, <2>4 DEF Edited, ApplyChanges, Undone, At, u
  <2>6. /\ Len(k) \in Nat /\ Len(r) \in Nat /\ Len(d) \in Nat
        /\ Len(text) = Len(k) + Len(r) /\ Len(d \o r) = Len(d) + Len(r)
    <3>1. /\ Len(k) \in Nat /\ Len(r) \in Nat /\ Len(k \o r) = Len(k) + Len(r)
          /\ Len(d) \in Nat /\ Len(d \o r) = Len(d) + Len(r)
      BY TwoParts
    <3> QED
      BY <2>3, <3>1
  <2>7. p \in Nat /\ q \in Nat /\ p + 1 \in 1..Len(text) /\ q + 1 \in 1..Len(d) + Len(r)
    BY <2>1, <2>5, <2>6
  <2>8. \A i \in 1..Len(d) + Len(r) : (d \o r)[i] = IF i <= Len(d) THEN d[i] ELSE r[i - Len(d)]
    BY ConcatProperties
  <2>9. \A i \in 1..Len(k) + Len(r) : text[i] = IF i <= Len(k) THEN k[i] ELSE r[i - Len(k)]
    BY <2>3, ConcatProperties
  <2>10. text[p + 1] = p + 1
    BY <2>1, <2>7
  <2>11. CASE q + 1 <= Len(d)
    <3>1. q + 1 \in 1..Len(d) /\ d[q + 1] = p + 1
      BY <2>5, <2>6, <2>7, <2>8, <2>10, <2>11
    <3>2. d[q + 1] \notin Inks
      BY <2>7, <3>1 DEF Inks
    <3>3. PICK i \in 1..Len(k) : d[q + 1] = k[i] /\ AllMapped(u, i - 1, "after").res = (q + 1) - 1
      BY <2>4, <3>1, <3>2 DEF Moved
    <3>4. i = p + 1
      <4>1. i \in 1..Len(text) /\ i \in 1..Len(k) + Len(r) /\ i <= Len(k)
        BY <2>6
      <4>2. text[i] = i /\ text[i] = k[i]
        BY <2>1, <2>9, <4>1
      <4> QED
        BY <3>1, <3>3, <4>2
    <3>5. m.res = q
      <4>1. i - 1 = p /\ (q + 1) - 1 = q
        BY <2>7, <3>4
      <4> QED
        BY <3>3, <4>1
    <3> QED
      BY <2>7, <3>5 DEF MapPos, u
  <2>12. CASE ~(q + 1 <= Len(d))
    <3> DEFINE j == (q + 1) - Len(d)  i == Len(k) + j
    <3>1. j \in 1..Len(r) /\ i \in 1..Len(k) + Len(r) /\ ~(i <= Len(k)) /\ i - Len(k) = j
      BY <2>6, <2>7, <2>12
    <3>2. r[j] = p + 1
      BY <2>5, <2>7, <2>8, <2>10, <2>12
    <3>3. text[i] = i /\ text[i] = r[j]
      <4> HIDE DEF i, j
      <4>1. i \in 1..Len(text)
        BY <2>6, <3>1
      <4> QED
        BY <2>1, <2>9, <3>1, <4>1
    <3>4. i = p + 1
      BY <3>2, <3>3
    <3>5. p >= Len(k) /\ p = Len(k) + q - Len(d)
      <4>1. Len(k) + ((q + 1) - Len(d)) = p + 1 /\ q + 1 > Len(d)
        BY <2>6, <2>7, <2>12, <3>4
      <4>2. \A x, y \in Nat : x + ((q + 1) - y) = p + 1 /\ q + 1 > y => p >= x /\ p = x + q - y
        BY <2>7
      <4> QED
        BY <2>6, <4>1, <4>2
    <3>6. m = [orig |-> Len(k), new |-> Len(d), res |-> -1]
      BY <2>4, <2>7, <3>5 DEF Moved
    <3>7. Len(d) + SatSub(p, Len(k)) = q
      BY <2>6, <2>7, <3>5 DEF SatSub
    <3> QED
      BY <3>6, <3>7 DEF MapPos, u
  <2> QED
    BY <2>11, <2>12
<1> QED
  BY <1>1, EditsFit, PTL

-----------------------------------------------------------------------------
\* The selections a node holds lie in the documents on its two sides.
CursorsRecorded ==
  \A i \in NodeIds :
    /\ tree.nodes[i].before \in Cursors(past[tree.nodes[i].parent])
    /\ tree.nodes[i].after \in Cursors(past[i])

\* What the walk under way remembers: where it started, and that it has gone, or
\* is bound, in the direction its operation promises.
WalkInv ==
  /\ walk.op = "idle" => walk = Idle
  /\ walk.from \in 0..Len(tree.nodes)
  /\ walk.op = "undo" => tree.current < walk.from
  /\ walk.op = "redo" => tree.current > walk.from
  /\ walk.op = "older" => walk.target = walk.from - 1
  /\ walk.op = "newer" => walk.target = walk.from + 1

\* A walk climbs only below the root.
ClimbInv == walk.op \in {"older", "newer"} /\ ~walk.down => tree.current # Root

\* What the tree, the document and the selection owe each other ...
DataInv ==
  /\ tree \in [nodes : Seq(Node), current : Nat, group : Nat, nextGroup : Nat, nextSeq : Nat]
  /\ doc \in Docs
  /\ past \in [0..Len(tree.nodes) -> Docs]
  /\ WellFormed
  /\ NodesReplay
  /\ CursorsRecorded
  /\ DocMatchesHistory
  /\ CursorInDoc

\* ... and what a walk owes them.
ControlInv ==
  /\ walk \in Walk
  /\ left \in Nat
  /\ WalkInv
  /\ ClimbInv

\* The inductive invariant.
UndoInv == DataInv /\ ControlInv

-----------------------------------------------------------------------------
\* A tree whose nodes are numbered as they were made, each after its parent.
Nodes(t) == 1..Len(t.nodes)
Ordered(t) ==
  /\ Len(t.nodes) \in Nat /\ DOMAIN t.nodes = Nodes(t)
  /\ \A i \in Nodes(t) : t.nodes[i].seq = i /\ t.nodes[i].parent \in 0..(i - 1)

\* The tree of UndoTree is one.
LEMMA DataIsOrdered ==
  ASSUME DataInv
  PROVE  Ordered(tree) /\ Nodes(tree) = NodeIds
<1>1. tree.nodes \in Seq(Node)
  BY DEF DataInv
<1>2. Len(tree.nodes) \in Nat /\ DOMAIN tree.nodes = 1..Len(tree.nodes)
  BY <1>1, LenProperties
<1> QED
  BY <1>2 DEF DataInv, WellFormed, Ordered, Nodes, NodeIds

\* The newest node of a non-empty set of nodes is one of them, and none is newer.
LEMMA NewestIsIn ==
  ASSUME NEW t, Ordered(t), NEW S \in SUBSET Nodes(t), S # {}
  PROVE  Newest(t, S) \in S /\ \A j \in S : j <= Newest(t, S)
<1>1. Len(t.nodes) \in Nat
  BY DEF Ordered
<1>2. S \in SUBSET (0..Len(t.nodes))
  BY <1>1 DEF Nodes
<1>3. PICK x \in S : \A y \in S : y <= x
  BY <1>1, <1>2, GreatestElement
<1>4. \A i \in S : t.nodes[i].seq = i
  BY DEF Ordered
<1>5. \E i \in S : \A j \in S : t.nodes[j].seq <= t.nodes[i].seq
  BY <1>3, <1>4
<1>6. Newest(t, S) \in S
      /\ \A j \in S : t.nodes[j].seq <= t.nodes[Newest(t, S)].seq
  BY <1>5 DEF Newest
<1>7. QED
  BY <1>4, <1>6

\* The recursive function of PathFrom exists: a path is its first node and the path from
\* that node's parent.
LEMMA PathFromIs ==
  ASSUME NEW t, Ordered(t)
  PROVE  /\ PathFrom(t, Root) = {}
         /\ \A n \in Nodes(t) :
              PathFrom(t, n) = {n} \cup PathFrom(t, t.nodes[n].parent)
<1> DEFINE len == Len(t.nodes)
           up(f, i) == IF i = Root THEN {} ELSE {i} \cup f[t.nodes[i].parent]
           path == CHOOSE f : f = [i \in 0..len |-> up(f, i)]
           RunTo(m) == \E f \in [0..m -> SUBSET (1..m)] : \A i \in 0..m : f[i] = up(f, i)
           S == {m \in Nat : m <= len => RunTo(m)}
<1>1. len \in Nat /\ \A i \in 1..len : t.nodes[i].parent \in 0..(i - 1)
  BY DEF Ordered, Nodes
<1>2. 0 \in S
  <2>1. [i \in 0..0 |-> {}] \in [0..0 -> SUBSET (1..0)]
    OBVIOUS
  <2>2. \A i \in 0..0 : [j \in 0..0 |-> {}][i] = up([j \in 0..0 |-> {}], i)
    BY DEF Root
  <2>3. RunTo(0)
    BY <2>1, <2>2
  <2> HIDE DEF RunTo
  <2>4. QED
    BY <2>3
<1>3. ASSUME NEW m \in Nat, m \in S PROVE m + 1 \in S
  <2> HIDE DEF RunTo, up
  <2>1. SUFFICES ASSUME m + 1 <= len PROVE RunTo(m + 1)
    OBVIOUS
  <2>a. RunTo(m)
    BY <1>1, <1>3, <2>1
  <2>2. PICK f \in [0..m -> SUBSET (1..m)] : \A i \in 0..m : f[i] = up(f, i)
    BY <2>a DEF RunTo
  <2> USE DEF up
  <2> DEFINE p == t.nodes[m + 1].parent
             g == [i \in 0..(m + 1) |-> IF i = m + 1 THEN {m + 1} \cup f[p] ELSE f[i]]
  <2>3. p \in 0..m
    BY <1>1, <2>1
  <2>4. \A i \in 0..m : f[i] \in SUBSET (1..(m + 1))
    BY <2>2
  <2>5. g \in [0..(m + 1) -> SUBSET (1..(m + 1))]
    BY <2>3, <2>4
  <2>6. \A i \in 1..m : t.nodes[i].parent \in 0..m
    BY <1>1, <2>1
  <2>7. ASSUME NEW i \in 0..(m + 1) PROVE g[i] = up(g, i)
    <3>1. CASE i = m + 1
      BY <2>3, <3>1 DEF Root
    <3>2. CASE i \in 1..m
      <4>1. i # m + 1 /\ i \in 0..m /\ i # Root
        BY <3>2 DEF Root
      <4> DEFINE q == t.nodes[i].parent
      <4>2. q \in 0..m /\ q # m + 1
        BY <2>6, <3>2
      <4>3. f[i] = {i} \cup f[q]
        BY <2>2, <4>1
      <4>4. \A j \in 0..m : g[j] = f[j]
        OBVIOUS
      <4> QED
        BY <4>1, <4>2, <4>3, <4>4
    <3>3. CASE i = 0
      BY <2>2, <3>3 DEF Root
    <3>4. QED
      BY <3>1, <3>2, <3>3
  <2> HIDE DEF up
  <2>8. QED
    BY <2>5, <2>7 DEF RunTo
<1>4. Nat \subseteq S
  <2> HIDE DEF S
  <2> QED BY <1>2, <1>3, SetInduction
<1> HIDE DEF up
<1>5. PICK f \in [0..len -> SUBSET (1..len)] : \A i \in 0..len : f[i] = up(f, i)
  <2> HIDE DEF RunTo
  <2>1. len \in S
    BY <1>1, <1>4
  <2>2. RunTo(len)
    BY <1>1, <2>1
  <2>3. QED
    BY <2>2 DEF RunTo
<1>6. f = [i \in 0..len |-> up(f, i)]
  BY <1>5
<1>7. path = [i \in 0..len |-> up(path, i)]
  BY <1>6
<1> HIDE DEF path
<1>8. \A i \in 0..len : path[i] = up(path, i)
  BY <1>7
<1>9. \A n \in 0..len : PathFrom(t, n) = path[n]
  BY DEF PathFrom, path, up
<1>10. 0 \in 0..len /\ \A n \in 1..len : n \in 0..len /\ t.nodes[n].parent \in 0..len /\ n # 0
  BY <1>1
<1>11. PathFrom(t, 0) = {}
  BY <1>8, <1>9, <1>10 DEF up, Root
<1>12. ASSUME NEW n \in 1..len
       PROVE  PathFrom(t, n) = {n} \cup PathFrom(t, t.nodes[n].parent)
  BY <1>8, <1>9, <1>10 DEF up, Root
<1> QED
  BY <1>11, <1>12 DEF Root, Nodes

\* What holds of the root, and of a node when it does of its parent, holds of every node.
LEMMA FromParents ==
  ASSUME NEW t, Ordered(t), NEW T, Root \in T,
         \A n \in Nodes(t) : t.nodes[n].parent \in T => n \in T
  PROVE  0..Len(t.nodes) \subseteq T
<1> DEFINE len == Len(t.nodes)
           S == {m \in Nat : \A i \in 0..len : i <= m => i \in T}
<1>1. len \in Nat /\ \A i \in 1..len : t.nodes[i].parent \in 0..(i - 1)
  BY DEF Ordered, Nodes
<1>2. 0 \in S
  BY <1>1 DEF Root
<1>3. ASSUME NEW m \in Nat, m \in S PROVE m + 1 \in S
  <2>1. SUFFICES ASSUME m + 1 <= len PROVE m + 1 \in T
    BY <1>1, <1>3
  <2>2. m + 1 \in 1..len /\ t.nodes[m + 1].parent \in 0..m
    BY <1>1, <2>1
  <2>3. t.nodes[m + 1].parent \in T
    BY <1>1, <1>3, <2>2
  <2> QED
    BY <2>2, <2>3 DEF Nodes
<1>4. Nat \subseteq S
  <2> HIDE DEF S
  <2> QED BY <1>2, <1>3, SetInduction
<1>5. ASSUME NEW i \in 0..len PROVE i \in T
  <2>1. i \in Nat /\ i <= i /\ i \in S
    BY <1>1, <1>4
  <2> QED
    BY <2>1
<1> QED
  BY <1>5

\* The path from n stays among the nodes up to n.
LEMMA PathFromStays ==
  ASSUME NEW t, Ordered(t), NEW n \in 0..Len(t.nodes)
  PROVE  PathFrom(t, n) \subseteq 1..n
<1> DEFINE T == {m \in Nat : PathFrom(t, m) \subseteq 1..m}
<1>1. Root \in T
  BY PathFromIs DEF Root
<1>2. ASSUME NEW m \in Nodes(t), t.nodes[m].parent \in T PROVE m \in T
  <2>1. m \in Nat /\ m >= 1 /\ t.nodes[m].parent \in 0..(m - 1)
    BY DEF Ordered, Nodes
  <2>2. PathFrom(t, m) = {m} \cup PathFrom(t, t.nodes[m].parent)
    BY PathFromIs
  <2> QED
    BY <1>2, <2>1, <2>2
<1> HIDE DEF T
<1>3. 0..Len(t.nodes) \subseteq T
  BY <1>1, <1>2, FromParents
<1> QED
  BY <1>3 DEF T

\* Two paths meet at a node or at the root.
LEMMA MeetIsNode ==
  ASSUME NEW t, Ordered(t), NEW n \in 0..Len(t.nodes), NEW m \in 0..Len(t.nodes)
  PROVE  /\ Meet(t, n, m) \in Nat
         /\ Meet(t, n, m) \in {Root} \cup (PathFrom(t, n) \cap PathFrom(t, m))
<1> DEFINE common == PathFrom(t, n) \cap PathFrom(t, m)
<1>1. Len(t.nodes) \in Nat
  BY DEF Ordered
<1>2. common \in SUBSET (0..Len(t.nodes))
  BY <1>1, PathFromStays
<1>3. CASE common = {}
  BY <1>3 DEF Meet, Root
<1>4. CASE common # {}
  <2>1. PICK x \in common : \A y \in common : y <= x
    BY <1>1, <1>2, <1>4, GreatestElement
  <2>2. (CHOOSE i \in common : \A j \in common : j <= i) \in common
    BY <2>1
  <2>3. QED
    BY <1>1, <1>2, <1>4, <2>2 DEF Meet
<1>5. QED
  BY <1>3, <1>4

\* Paths from a node: it is on its own, and the path from a node on a path is part of it.
LEMMA PathsNest ==
  ASSUME NEW t, Ordered(t), NEW n \in 0..Len(t.nodes), NEW m \in PathFrom(t, n)
  PROVE  /\ m \in Nodes(t) /\ PathFrom(t, m) \subseteq PathFrom(t, n)
         /\ m \in PathFrom(t, m)
<1> DEFINE T == {x \in Nat : \A y \in PathFrom(t, x) :
                               y \in Nodes(t) /\ PathFrom(t, y) \subseteq PathFrom(t, x)}
<1>1. Root \in T
  BY PathFromIs DEF Root
<1>2. ASSUME NEW x \in Nodes(t), t.nodes[x].parent \in T PROVE x \in T
  BY <1>2, PathFromIs DEF Nodes
<1> HIDE DEF T
<1>3. 0..Len(t.nodes) \subseteq T
  BY <1>1, <1>2, FromParents
<1>4. m \in Nodes(t) /\ PathFrom(t, m) \subseteq PathFrom(t, n)
  BY <1>3 DEF T
<1> QED
  BY <1>4, PathFromIs

\* A path passes, on its way down from an ancestor, through a child of it.
LEMMA ChildOnPath ==
  ASSUME NEW t, Ordered(t), NEW n \in Nodes(t), NEW c \in PathFrom(t, n) \cup {Root}, c # n
  PROVE  \E j \in PathFrom(t, n) : j \in Nodes(t) /\ t.nodes[j].parent = c
<1> DEFINE Through(x) == \A y \in PathFrom(t, x) \cup {Root} : y # x =>
                           \E j \in PathFrom(t, x) : j \in Nodes(t) /\ t.nodes[j].parent = y
           T == {x \in Nat : Through(x)}
<1>1. Root \in T
  BY PathFromIs DEF Root
<1>2. ASSUME NEW x \in Nodes(t), t.nodes[x].parent \in T PROVE x \in T
  <2> DEFINE p == t.nodes[x].parent
  <2>1. PathFrom(t, x) = {x} \cup PathFrom(t, p) /\ x \in Nat
    BY PathFromIs DEF Nodes
  <2>2. ASSUME NEW y \in PathFrom(t, x) \cup {Root}, y # x
        PROVE  \E j \in PathFrom(t, x) : j \in Nodes(t) /\ t.nodes[j].parent = y
    <3>1. CASE y = p
      BY <2>1, <3>1
    <3>2. CASE y # p
      <4>1. y \in PathFrom(t, p) \cup {Root}
        BY <2>1, <2>2
      <4>2. Through(p)
        BY <1>2
      <4>3. \E j \in PathFrom(t, p) : j \in Nodes(t) /\ t.nodes[j].parent = y
        BY <3>2, <4>1, <4>2
      <4> QED
        BY <2>1, <4>3
    <3> QED
      BY <3>1, <3>2
  <2> QED
    BY <2>1, <2>2
<1> HIDE DEF T
<1>3. 0..Len(t.nodes) \subseteq T
  BY <1>1, <1>2, FromParents
<1>4. n \in 0..Len(t.nodes)
  BY DEF Ordered, Nodes
<1> QED
  BY <1>3, <1>4 DEF T

\* g- aims at the node created just before the current one.
LEMMA PrevInTimeIsOlder ==
  ASSUME DataInv, tree.current # Root, OlderNodes(tree, tree.current) # {}
  PROVE  PrevInTime(tree, tree.current) = tree.current - 1
         /\ tree.current - 1 \in NodeIds
<1>1. tree.current \in NodeIds
  BY DEF DataInv, WellFormed, NodeIds, Root
<1>2. OlderNodes(tree, tree.current) = {i \in NodeIds : i < tree.current}
  BY <1>1 DEF DataInv, WellFormed, OlderNodes, TimeOf, NodeIds, Root
<1>3. /\ PrevInTime(tree, tree.current) \in {i \in NodeIds : i < tree.current}
      /\ \A j \in {i \in NodeIds : i < tree.current} : j <= PrevInTime(tree, tree.current)
  BY <1>2, DataIsOrdered, NewestIsIn DEF PrevInTime
<1>4. tree.current - 1 \in {i \in NodeIds : i < tree.current}
  BY <1>1, <1>3 DEF NodeIds
<1>5. QED
  BY <1>1, <1>3, <1>4 DEF NodeIds

\* g+ aims at the node created just after the current one.
LEMMA NextInTimeIsNewer ==
  ASSUME DataInv, NewerNodes(tree, tree.current) # {}
  PROVE  NextInTime(tree, tree.current) = tree.current + 1
         /\ tree.current + 1 \in NodeIds
<1> DEFINE N == NewerNodes(tree, tree.current)
<1>1. TimeOf(tree, tree.current) = tree.current /\ tree.current \in Nat
  BY DEF DataInv, WellFormed, TimeOf, NodeIds, Root
<1>2. N = {i \in NodeIds : i > tree.current}
  BY <1>1 DEF DataInv, WellFormed, NewerNodes, NodeIds
<1>3. tree.current + 1 \in N
  BY <1>1, <1>2 DEF NodeIds
<1>4. \A i \in N : tree.current + 1 <= i
  BY <1>1, <1>2 DEF NodeIds
<1>5. \A i \in N : tree.nodes[i].seq = i
  BY <1>2 DEF DataInv, WellFormed
<1>6. NextInTime(tree, tree.current) \in N
      /\ \A j \in N : NextInTime(tree, tree.current) <= j
  BY <1>3, <1>4, <1>5 DEF NextInTime
<1>7. QED
  BY <1>2, <1>3, <1>4, <1>6 DEF NodeIds

-----------------------------------------------------------------------------
\* What the invariant says of one node.
LEMMA NodeFacts ==
  ASSUME DataInv, NEW i \in NodeIds
  PROVE  LET n == tree.nodes[i]
         IN  /\ n \in Node /\ n.seq = i /\ n.parent \in 0..(i - 1)
             /\ n.forward \in Txs /\ n.inverse \in Txs
             /\ Fits(n.forward, past[n.parent]) /\ Apply(n.forward, past[n.parent]) = past[i]
             /\ Fits(n.inverse, past[i]) /\ Apply(n.inverse, past[i]) = past[n.parent]
             /\ n.before \in Cursors(past[n.parent]) /\ n.after \in Cursors(past[i])
<1>1. tree.nodes[i] \in Node
  <2>1. tree.nodes \in Seq(Node)
    BY DEF DataInv
  <2>2. QED
    BY <2>1 DEF NodeIds
<1>2. tree.nodes[i].forward \in Txs /\ tree.nodes[i].inverse \in Txs
  BY <1>1 DEF Node
<1>3. tree.nodes[i].seq = i /\ tree.nodes[i].parent \in 0..(i - 1)
  BY DEF DataInv, WellFormed
<1>4. QED
  BY <1>1, <1>2, <1>3 DEF DataInv, NodesReplay, CursorsRecorded

\* Applying the inverse of the current node gives its parent's document.
LEMMA StepUpKeepsData ==
  ASSUME DataInv, tree.current # Root, StepUp
  PROVE  DataInv' /\ tree.nodes' = tree.nodes /\ tree.current' \in 0..(tree.current - 1)
<1>1. tree.current \in NodeIds
  BY DEF DataInv, WellFormed, NodeIds, Root
<1>2. /\ Here.parent \in 0..(tree.current - 1)
      /\ Here.inverse \in Txs
      /\ Fits(Here.inverse, doc)
      /\ Apply(Here.inverse, doc) = past[Here.parent]
      /\ Here.before \in Cursors(past[Here.parent])
  BY <1>1, NodeFacts DEF DataInv, DocMatchesHistory, Here
<1>3. /\ tree' = [tree EXCEPT !.current = Here.parent]
      /\ doc' = past[Here.parent] /\ sel' = Here.before /\ past' = past
  BY <1>2 DEF StepUp
<1>4. /\ tree'.nodes = tree.nodes /\ tree'.current = Here.parent
      /\ tree'.nextSeq = tree.nextSeq
      /\ tree' \in [nodes : Seq(Node), current : Nat, group : Nat, nextGroup : Nat, nextSeq : Nat]
  BY <1>1, <1>2, <1>3 DEF DataInv, NodeIds
<1>5. Here.parent \in 0..Len(tree.nodes)
  BY <1>1, <1>2 DEF NodeIds
<1>6. WellFormed' /\ NodesReplay' /\ CursorsRecorded'
  BY <1>3, <1>4, <1>5 DEF DataInv, WellFormed, NodesReplay, CursorsRecorded, NodeIds
<1>7. doc' \in Docs /\ (past \in [0..Len(tree.nodes) -> Docs])'
  BY <1>3, <1>4, <1>5 DEF DataInv
<1>8. DocMatchesHistory' /\ CursorInDoc'
  BY <1>2, <1>3, <1>4 DEF DocMatchesHistory, CursorInDoc
<1>9. QED
  BY <1>2, <1>4, <1>6, <1>7, <1>8 DEF DataInv

\* Applying a child's transaction gives the child's document.
LEMMA StepDownKeepsData ==
  ASSUME DataInv, NEW i \in Children(tree, tree.current), StepDown(i)
  PROVE  DataInv' /\ tree.nodes' = tree.nodes /\ tree.current' = i
         /\ i \in NodeIds /\ i > tree.current
<1>1. i \in NodeIds /\ tree.nodes[i].parent = tree.current
  BY DEF DataInv, Children, NodeIds
<1>2. /\ Fits(tree.nodes[i].forward, doc)
      /\ Apply(tree.nodes[i].forward, doc) = past[i]
      /\ tree.nodes[i].after \in Cursors(past[i])
      /\ i > tree.current
  BY <1>1, NodeFacts DEF DataInv, DocMatchesHistory, NodeIds
<1>3. /\ tree' = [tree EXCEPT !.current = i]
      /\ doc' = past[i] /\ sel' = tree.nodes[i].after /\ past' = past
  BY <1>2 DEF StepDown
<1>4. /\ tree'.nodes = tree.nodes /\ tree'.current = i /\ tree'.nextSeq = tree.nextSeq
      /\ tree' \in [nodes : Seq(Node), current : Nat, group : Nat, nextGroup : Nat, nextSeq : Nat]
  BY <1>1, <1>3 DEF DataInv, NodeIds
<1>5. i \in 0..Len(tree.nodes)
  BY <1>1 DEF NodeIds
<1>6. WellFormed' /\ NodesReplay' /\ CursorsRecorded'
  BY <1>3, <1>4, <1>5 DEF DataInv, WellFormed, NodesReplay, CursorsRecorded, NodeIds
<1>7. doc' \in Docs /\ (past \in [0..Len(tree.nodes) -> Docs])'
  BY <1>3, <1>4, <1>5 DEF DataInv
<1>8. DocMatchesHistory' /\ CursorInDoc'
  BY <1>2, <1>3, <1>4 DEF DocMatchesHistory, CursorInDoc
<1>9. QED
  BY <1>1, <1>2, <1>4, <1>6, <1>7, <1>8 DEF DataInv

\* A transaction pushed with its inverse: the new node leads from the document of
\* the current node to the new document and back, and the others are as before.
LEMMA EditKeepsData ==
  ASSUME DataInv, Edit
  PROVE  /\ DataInv'
         /\ Len(tree'.nodes) = Len(tree.nodes) + 1
         /\ tree'.current = Len(tree.nodes) + 1
<1> DEFINE len == Len(tree.nodes)
<1>1. /\ len \in Nat /\ tree.nodes \in Seq(Node)
      /\ tree.current \in 0..len /\ tree.nextSeq = len + 1
      /\ past \in [0..len -> Docs] /\ doc = past[tree.current]
  BY DEF DataInv, WellFormed, DocMatchesHistory
<1>2. PICK tx \in Txs :
        /\ Fits(tx, doc)
        /\ doc' = Apply(tx, doc)
        /\ sel' \in Cursors(doc')
        /\ tree' = Push(tree, tx, InverseOf(tx, doc), sel, sel')
  BY DEF Edit
<1>3. /\ doc' \in Docs /\ InverseOf(tx, doc) \in Txs
      /\ Fits(InverseOf(tx, doc), doc') /\ Apply(InverseOf(tx, doc), doc') = doc
  BY <1>2, InverseAssumption DEF DataInv
<1> DEFINE node == [parent |-> tree.current, seq |-> tree.nextSeq, group |-> tree.group,
                    forward |-> tx, inverse |-> InverseOf(tx, doc),
                    before |-> sel, after |-> sel']
<1>4. sel \in UNION {Cursors(d) : d \in Docs} /\ sel' \in UNION {Cursors(d) : d \in Docs}
  BY <1>2, <1>3 DEF DataInv, CursorInDoc
<1>5. node \in Node
  BY <1>1, <1>3, <1>4 DEF DataInv, Node
<1>6. tree' = [tree EXCEPT !.nodes = Append(@, node), !.current = Len(tree.nodes) + 1,
                           !.nextSeq = @ + 1]
  BY <1>2 DEF Push
<1>7. /\ tree'.nodes = Append(tree.nodes, node)
      /\ tree'.current = len + 1 /\ tree'.nextSeq = tree.nextSeq + 1
      /\ tree'.group = tree.group /\ tree'.nextGroup = tree.nextGroup
  BY <1>6 DEF DataInv
<1> HIDE DEF node
<1>8. /\ Len(tree'.nodes) = len + 1 /\ tree'.nodes \in Seq(Node)
      /\ \A i \in 1..len : tree'.nodes[i] = tree.nodes[i]
      /\ tree'.nodes[len + 1] = node
  BY <1>1, <1>5, <1>7
<1>9. tree' \in [nodes : Seq(Node), current : Nat, group : Nat, nextGroup : Nat, nextSeq : Nat]
  BY <1>1, <1>6, <1>8 DEF DataInv
<1>10. past' = [n \in 0..(len + 1) |-> IF n \in 0..len THEN past[n] ELSE doc']
  BY <1>1, <1>8 DEF Edit
<1>11. /\ past' \in [0..Len(tree'.nodes) -> Docs]
       /\ \A n \in 0..len : past'[n] = past[n]
       /\ past'[len + 1] = doc'
  BY <1>1, <1>3, <1>8, <1>10
<1>12. /\ node.parent = tree.current /\ node.seq = len + 1
       /\ node.forward = tx /\ node.inverse = InverseOf(tx, doc)
       /\ node.before = sel /\ node.after = sel'
  BY <1>1 DEF node
<1>13. ASSUME NEW i \in 1..(len + 1)
       PROVE  LET n == tree'.nodes[i]
              IN  /\ n.seq = i /\ n.parent \in 0..(i - 1)
                  /\ Fits(n.forward, past'[n.parent])
                  /\ Apply(n.forward, past'[n.parent]) = past'[i]
                  /\ Fits(n.inverse, past'[i]) /\ Apply(n.inverse, past'[i]) = past'[n.parent]
                  /\ n.before \in Cursors(past'[n.parent]) /\ n.after \in Cursors(past'[i])
  <2>1. CASE i \in 1..len
    <3>1. tree'.nodes[i] = tree.nodes[i] /\ i \in NodeIds
      BY <1>8, <2>1 DEF NodeIds
    <3>2. tree.nodes[i].parent \in 0..(i - 1)
      BY <3>1, NodeFacts
    <3>3. past'[i] = past[i] /\ past'[tree.nodes[i].parent] = past[tree.nodes[i].parent]
      BY <1>1, <1>11, <2>1, <3>2
    <3>4. QED
      BY <3>1, <3>3, NodeFacts
  <2>2. CASE i = len + 1
    <3>1. tree'.nodes[i] = node /\ past'[i] = doc' /\ past'[tree.current] = doc
      BY <1>1, <1>8, <1>11, <2>2
    <3>2. QED
      BY <1>1, <1>2, <1>3, <1>12, <2>2, <3>1 DEF DataInv, CursorInDoc
  <2>3. QED
    BY <1>1, <2>1, <2>2
<1>14. WellFormed'
  BY <1>1, <1>7, <1>8, <1>13 DEF WellFormed, NodeIds
<1>15. NodesReplay' /\ CursorsRecorded'
  BY <1>8, <1>13 DEF NodesReplay, CursorsRecorded, NodeIds
<1>16. DocMatchesHistory' /\ CursorInDoc'
  BY <1>2, <1>7, <1>11 DEF DocMatchesHistory, CursorInDoc
<1>17. QED
  BY <1>3, <1>7, <1>8, <1>9, <1>11, <1>14, <1>15, <1>16 DEF DataInv

-----------------------------------------------------------------------------
\* The newest child of the current node is a child.
LEMMA NewestChild ==
  ASSUME DataInv, Children(tree, tree.current) # {}
  PROVE  Newest(tree, Children(tree, tree.current)) \in Children(tree, tree.current)
<1>1. Children(tree, tree.current) \in SUBSET NodeIds
  BY DEF DataInv, Children, NodeIds
<1>2. QED
  BY <1>1, DataIsOrdered, NewestIsIn

\* The data does not depend on the walk, and only cursors that lie in the document
\* are taken.
LEMMA SameDocKeepsData ==
  ASSUME DataInv, doc' = doc, past' = past, sel' \in Cursors(doc),
         tree'.nodes = tree.nodes, tree'.current = tree.current, tree'.nextSeq = tree.nextSeq,
         tree' \in [nodes : Seq(Node), current : Nat, group : Nat, nextGroup : Nat, nextSeq : Nat]
  PROVE  DataInv'
BY DEF DataInv, WellFormed, NodesReplay, CursorsRecorded, DocMatchesHistory, CursorInDoc, NodeIds

\* Initially nothing is recorded.
LEMMA InitInv == Init => UndoInv
<1> SUFFICES ASSUME Init PROVE UndoInv
  OBVIOUS
<1>1. /\ tree = EmptyTree /\ Len(tree.nodes) = 0 /\ tree.current = 0 /\ tree.nextSeq = 1
      /\ tree \in [nodes : Seq(Node), current : Nat, group : Nat, nextGroup : Nat, nextSeq : Nat]
      /\ NodeIds = {}
  BY DEF Init, EmptyTree, Root, NodeIds
<1>2. doc \in Docs /\ sel \in Cursors(doc) /\ past = [n \in 0..0 |-> doc]
  BY DEF Init, Root
<1>3. DataInv
  BY <1>1, <1>2 DEF DataInv, WellFormed, NodesReplay, CursorsRecorded, DocMatchesHistory,
                    CursorInDoc
<1>4. ControlInv
  BY <1>1 DEF Init, ControlInv, Walk, Idle, WalkInv, ClimbInv, Root
<1>5. QED
  BY <1>3, <1>4 DEF UndoInv

\* An operation that ends a walk, or starts none, leaves nothing to a walk.
LEMMA IdleControl ==
  ASSUME DataInv', walk' = Idle, left' \in Nat
  PROVE  ControlInv'
BY DEF ControlInv, Walk, Idle, WalkInv, ClimbInv, DataInv, Root

\* Every step keeps the invariant.
LEMMA NextInv == UndoInv /\ [Next]_vars => UndoInv'
<1> SUFFICES ASSUME UndoInv, [Next]_vars PROVE UndoInv'
  OBVIOUS
<1> USE DEF UndoInv
<1>1. DataInv /\ ControlInv /\ sel \in Cursors(doc)
  BY DEF DataInv, CursorInDoc
<1>2. CASE Edit
  BY <1>2, EditKeepsData, IdleControl DEF Edit, ControlInv, Root
<1>3. CASE MoveCursor
  BY <1>3, SameDocKeepsData, IdleControl DEF MoveCursor, history, ControlInv, DataInv
<1>4. CASE Begin
  <2>1. DataInv'
    <3>1. tree' = tree \/ tree' = [tree EXCEPT !.group = tree.nextGroup, !.nextGroup = @ + 1]
      BY <1>4 DEF Begin, BeginGroup
    <3>2. /\ tree'.nodes = tree.nodes /\ tree'.current = tree.current
          /\ tree'.nextSeq = tree.nextSeq
          /\ tree' \in [nodes : Seq(Node), current : Nat, group : Nat, nextGroup : Nat,
                        nextSeq : Nat]
      <4>1. tree \in [nodes : Seq(Node), current : Nat, group : Nat, nextGroup : Nat,
                      nextSeq : Nat]
        BY DEF DataInv
      <4> HIDE DEF UndoInv
      <4>2. CASE tree' = tree
        BY <4>1, <4>2
      <4>3. CASE tree' = [tree EXCEPT !.group = tree.nextGroup, !.nextGroup = @ + 1]
        <5>1. tree.nextGroup \in Nat /\ tree.nextGroup + 1 \in Nat
          BY <4>1
        <5>2. QED
          BY <4>1, <4>3, <5>1
      <4>4. QED
        BY <3>1, <4>2, <4>3
    <3>3. QED
      BY <1>1, <1>4, <3>2, SameDocKeepsData DEF Begin, history
  <2>2. QED
    BY <1>4, <2>1, IdleControl DEF Begin, history, ControlInv
<1>5. CASE End
  <2>1. DataInv'
    BY <1>1, <1>5, SameDocKeepsData DEF End, EndGroup, history, DataInv
  <2>2. QED
    BY <1>5, <2>1, IdleControl DEF End, history, ControlInv
<1>6. CASE Undo
  <2>1. /\ DataInv' /\ tree.nodes' = tree.nodes /\ tree.current' \in 0..(tree.current - 1)
        /\ tree.current \in NodeIds
    BY <1>6, StepUpKeepsData DEF Undo, DataInv, WellFormed, NodeIds, Root
  <2>2. Here.group \in Nat
    BY <2>1, NodeFacts DEF Here, Node
  <2>3. ControlInv'
    <3>1. /\ walk' = [op |-> "undo", group |-> Here.group, from |-> tree.current, target |-> Root,
                      meet |-> Root, down |-> FALSE]
          /\ left' = left
      BY <1>6 DEF Undo, Idle
    <3>2. walk' \in Walk /\ left' \in Nat
      BY <2>1, <2>2, <3>1 DEF ControlInv, Walk, NodeIds, Root
    <3>3. WalkInv' /\ ClimbInv'
      BY <2>1, <3>1 DEF WalkInv, ClimbInv, NodeIds
    <3>4. QED
      BY <3>2, <3>3 DEF ControlInv
  <2>4. QED
    BY <2>1, <2>3
<1>7. CASE UndoMore
  <2>1. /\ DataInv' /\ tree.nodes' = tree.nodes /\ tree.current' \in 0..(tree.current - 1)
        /\ tree.current \in NodeIds
    BY <1>7, StepUpKeepsData DEF UndoMore, InGroup, DataInv, WellFormed, NodeIds, Root
  <2>2. ControlInv'
    BY <1>7, <2>1 DEF UndoMore, ControlInv, WalkInv, ClimbInv, NodeIds
  <2>3. QED
    BY <2>1, <2>2
<1>8. CASE UndoReturn
  BY <1>1, <1>8, SameDocKeepsData, IdleControl DEF UndoReturn, ControlInv, Walk, DataInv
<1>9. CASE Redo
  <2> DEFINE next == Newest(tree, Children(tree, tree.current))
  <2>1. next \in Children(tree, tree.current)
    BY <1>9, NewestChild DEF Redo
  <2>2. /\ DataInv' /\ tree.nodes' = tree.nodes /\ tree.current' = next
        /\ next \in NodeIds /\ next > tree.current
    BY <1>9, <2>1, StepDownKeepsData DEF Redo
  <2>3. tree.nodes[next].group \in Nat
    BY <2>2, NodeFacts DEF Node
  <2>4. /\ walk' = [Idle EXCEPT !.op = "redo", !.group = tree.nodes[next].group,
                                !.from = tree.current]
        /\ left' = left
    BY <1>9 DEF Redo
  <2>5. ControlInv'
    <3> HIDE DEF next
    <3> QED
      BY <2>2, <2>3, <2>4 DEF ControlInv, Walk, Idle, WalkInv, ClimbInv, NodeIds, Root,
                              DataInv, WellFormed
  <2>6. QED
    BY <2>2, <2>5
<1>10. CASE RedoMore
  <2> DEFINE next == Newest(tree, Children(tree, tree.current))
  <2>1. next \in Children(tree, tree.current)
    BY <1>10, NewestChild DEF RedoMore, RedoGoesOn
  <2>2. /\ DataInv' /\ tree.nodes' = tree.nodes /\ tree.current' = next
        /\ next \in NodeIds /\ next > tree.current
    BY <1>10, <2>1, StepDownKeepsData DEF RedoMore
  <2>3. walk' = walk /\ walk.op = "redo" /\ left' = left
    BY <1>10 DEF RedoMore
  <2>4. ControlInv'
    <3> HIDE DEF next
    <3> QED
      BY <2>2, <2>3 DEF ControlInv, Walk, WalkInv, ClimbInv, NodeIds, DataInv, WellFormed
  <2>5. QED
    BY <2>2, <2>4
<1>11. CASE RedoReturn
  BY <1>1, <1>11, SameDocKeepsData, IdleControl DEF RedoReturn, ControlInv, DataInv, Root
<1>12. CASE UndoOlder \/ UndoNewer
  <2>1. PICK op \in {"older", "newer"}, target \in NodeIds :
          /\ SeekTo(op, target)
          /\ op = "older" => target = tree.current - 1
          /\ op = "newer" => target = tree.current + 1
    BY <1>12, PrevInTimeIsOlder, NextInTimeIsNewer DEF UndoOlder, UndoNewer
  <2>2. tree.current \in 0..Len(tree.nodes) /\ target \in 0..Len(tree.nodes)
    BY DEF DataInv, WellFormed, NodeIds
  <2>3. Meet(tree, tree.current, target) \in Nat
    BY <2>2, DataIsOrdered, MeetIsNode
  <2>4. DataInv'
    BY <1>1, <2>1, SameDocKeepsData DEF SeekTo, DataInv
  <2>5. ControlInv'
    <3> DEFINE meet == Meet(tree, tree.current, target)
    <3>1. /\ walk' = [op |-> op, group |-> 0, from |-> tree.current, target |-> target,
                      meet |-> meet, down |-> tree.current \in {meet, Root}]
          /\ tree' = tree /\ left' = left
      BY <2>1 DEF SeekTo
    <3> HIDE DEF meet
    <3>2. walk' \in Walk /\ left' \in Nat
      BY <2>2, <2>3, <3>1 DEF ControlInv, Walk, meet
    <3>3. WalkInv' /\ ClimbInv'
      BY <2>1, <2>2, <3>1 DEF WalkInv, ClimbInv
    <3>4. QED
      BY <3>2, <3>3 DEF ControlInv
  <2>6. QED
    BY <2>4, <2>5
<1>13. CASE SeekUp
  <2>1. tree.current # Root
    BY <1>13 DEF SeekUp, Seeking, ControlInv, ClimbInv
  <2>2. /\ DataInv' /\ tree.nodes' = tree.nodes /\ tree.current' = Here.parent
        /\ tree.current \in NodeIds
    BY <1>13, <2>1, StepUpKeepsData DEF SeekUp, StepUp, DataInv, WellFormed, NodeIds, Root
  <2>3. ControlInv'
    <3>1. /\ walk \in Walk /\ walk.op \in {"older", "newer"} /\ WalkInv
          /\ walk' = [walk EXCEPT !.down = Here.parent \in {walk.meet, Root}]
          /\ left' \in Nat
      BY <1>13 DEF SeekUp, Seeking, ControlInv
    <3> DEFINE down == Here.parent \in {walk.meet, Root}
    <3>a. down \in BOOLEAN /\ (down <=> Here.parent \in {walk.meet, Root})
      OBVIOUS
    <3> HIDE DEF down
    <3>b. walk' = [walk EXCEPT !.down = down]
      BY <3>1 DEF down
    <3>2. /\ walk' \in Walk
          /\ walk'.op = walk.op /\ walk'.from = walk.from /\ walk'.target = walk.target
          /\ walk'.down = down
      BY <3>1, <3>a, <3>b DEF Walk
    <3>3. WalkInv' /\ ClimbInv'
      BY <2>2, <3>1, <3>2, <3>a DEF WalkInv, ClimbInv
    <3>4. QED
      BY <3>1, <3>2, <3>3 DEF ControlInv
  <2>4. QED
    BY <2>2, <2>3
<1>14. CASE SeekDown
  <2>1. PICK i \in Children(tree, tree.current) : StepDown(i)
    BY <1>14 DEF SeekDown
  <2>2. DataInv' /\ tree.nodes' = tree.nodes
    BY <2>1, StepDownKeepsData
  <2>3. ControlInv'
    BY <1>14, <2>2 DEF SeekDown, Seeking, ControlInv, Walk, WalkInv, ClimbInv, NodeIds
  <2>4. QED
    BY <2>2, <2>3
<1>15. CASE SeekReturn
  BY <1>1, <1>15, SameDocKeepsData, IdleControl DEF SeekReturn, ControlInv, DataInv, Root
<1>16. CASE UNCHANGED vars
  <2>1. DataInv'
    BY <1>1, <1>16, SameDocKeepsData DEF vars, DataInv
  <2>2. QED
    BY <1>16, <2>1 DEF vars, ControlInv, WalkInv, ClimbInv, NodeIds
<1>17. QED
  BY <1>2, <1>3, <1>4, <1>5, <1>6, <1>7, <1>8, <1>9, <1>10, <1>11, <1>12, <1>13, <1>14, <1>15,
     <1>16 DEF Next, WalkStep

\* The invariant holds in every state.
LEMMA Inductive == Spec => []UndoInv
BY InitInv, NextInv, PTL DEF Spec

-----------------------------------------------------------------------------
\* Type correctness.
THEOREM TypeCorrect == Spec => []TypeOK
<1>1. UndoInv => TypeOK
  BY DEF UndoInv, DataInv, ControlInv, TypeOK, CursorInDoc
<1>2. QED
  BY <1>1, Inductive, PTL

\* The tree stays well formed and every node keeps leading from its parent's
\* document to its own and back (UndoTree::push).
THEOREM TreeIsSound == Spec => [](WellFormed /\ NodesReplay)
<1>1. UndoInv => WellFormed /\ NodesReplay
  BY DEF UndoInv, DataInv
<1>2. QED
  BY <1>1, Inductive, PTL

\* At every step of undo(), redo(), undo_older() and undo_newer() the document is the
\* one the current node was recorded with.
THEOREM TextIsRestored == Spec => []DocMatchesHistory
<1>1. UndoInv => DocMatchesHistory
  BY DEF UndoInv, DataInv
<1>2. QED
  BY <1>1, Inductive, PTL

\* The selection undo() and redo() hand back lies in the document.
THEOREM CursorStaysInside == Spec => []CursorInDoc
<1>1. UndoInv => CursorInDoc
  BY DEF UndoInv, DataInv
<1>2. QED
  BY <1>1, Inductive, PTL

\* No transaction a walk applies is rejected: undo() and the others never stop
\* half-way.
THEOREM WalksComplete == Spec => []WalksNeverFail
<1>1. ASSUME UndoInv PROVE WalksNeverFail
  <2>1. DataInv /\ doc = past[tree.current]
    BY <1>1 DEF UndoInv, DataInv, DocMatchesHistory
  <2>2. ASSUME tree.current # Root PROVE Fits(Here.inverse, doc)
    <3>1. tree.current \in NodeIds
      BY <2>1, <2>2 DEF DataInv, WellFormed, NodeIds, Root
    <3>2. QED
      BY <2>1, <3>1, NodeFacts DEF Here
  <2>3. ASSUME NEW i \in Children(tree, tree.current) PROVE Fits(tree.nodes[i].forward, doc)
    <3>1. i \in NodeIds /\ tree.nodes[i].parent = tree.current
      BY <2>1 DEF Children, DataInv, NodeIds
    <3>2. QED
      BY <2>1, <3>1, NodeFacts
  <2>4. QED
    BY <2>2, <2>3 DEF WalksNeverFail
<1>2. QED
  BY <1>1, Inductive, PTL

\* g- and g+ go to the node created just before, and just after, the current one.
THEOREM TimeTravel == Spec => TimeTravelIsChronological
<1> DEFINE A == walk' = Idle =>
                  /\ walk.op = "older" => tree.current = walk.from - 1
                  /\ walk.op = "newer" => tree.current = walk.from + 1
<1>1. UndoInv /\ [Next]_vars => [A]_vars
  <2> SUFFICES ASSUME UndoInv, Next, walk' = Idle, walk.op \in {"older", "newer"}
               PROVE  /\ walk.op = "older" => tree.current = walk.from - 1
                      /\ walk.op = "newer" => tree.current = walk.from + 1
    OBVIOUS
  <2>1. walk.op # "idle" /\ walk.op # "undo" /\ walk.op # "redo" /\ walk # Idle
    BY DEF Idle
  <2>2. walk'.op = "idle"
    BY DEF Idle
  <2>3. ~ (Edit \/ MoveCursor \/ Begin \/ End \/ Undo \/ Redo \/ UndoOlder \/ UndoNewer)
    BY <2>1 DEF Edit, MoveCursor, Begin, End, Undo, Redo, UndoOlder, UndoNewer
  <2>4. ~ (UndoMore \/ UndoReturn \/ RedoMore \/ RedoReturn)
    BY <2>1 DEF UndoMore, UndoReturn, RedoMore, RedoReturn
  <2>5. ~ SeekDown
    BY <2>1 DEF SeekDown
  <2>6. ~ SeekUp
    <3>1. SUFFICES ASSUME SeekUp PROVE FALSE
      OBVIOUS
    <3>2. walk \in Walk /\ walk' = [walk EXCEPT !.down = Here.parent \in {walk.meet, Root}]
      BY <3>1 DEF SeekUp, UndoInv, ControlInv
    <3>3. walk'.op = walk.op
      BY <3>2 DEF Walk
    <3>4. QED
      BY <2>1, <2>2, <3>3
  <2>7. SeekReturn
    BY <2>3, <2>4, <2>5, <2>6 DEF Next, WalkStep
  <2>8. QED
    BY <2>7 DEF SeekReturn, UndoInv, ControlInv, WalkInv
<1>2. QED
  BY <1>1, Inductive, PTL DEF Spec, TimeTravelIsChronological

-----------------------------------------------------------------------------
\* The path as a function of the nodes alone.
PathOver(nodes, n) ==
  LET path[i \in 0..Len(nodes)] ==
        IF i = Root THEN {} ELSE {i} \cup path[nodes[i].parent]
  IN  path[n]

\* Trees with the same nodes have the same paths.
LEMMA SamePaths ==
  ASSUME NEW t, NEW u, t.nodes = u.nodes, NEW n
  PROVE  PathFrom(t, n) = PathFrom(u, n)
<1>1. PathFrom(t, n) = PathOver(t.nodes, n)
  BY DEF PathFrom, PathOver
<1>2. PathFrom(u, n) = PathOver(u.nodes, n)
  BY DEF PathFrom, PathOver
<1> HIDE DEF PathOver
<1> QED
  BY <1>1, <1>2

-----------------------------------------------------------------------------
\* The nodes of t above n that are not above m: TakenBack, for any tree.
Between(t, n, m) == PathFrom(t, n) \ PathFrom(t, m)

\* An undo from n to c has climbed through the group of n.
Climbed(t, n, c) ==
  /\ n \in 1..Len(t.nodes) /\ c < n /\ c \in PathFrom(t, n) \cup {Root}
  /\ \A i \in Between(t, n, c) : i = n \/ InGroup(t, i, t.nodes[n].group)

\* What it took back is the newest child at every fork.
NewestWay(t, n, c) ==
  \A i \in Between(t, n, c) : i = Newest(t, Children(t, t.nodes[i].parent))

\* A redo from c has come to m: on the way back to n, or past it in n's group.
CameBack(t, n, c, m) ==
  \/ m \in Between(t, n, c)
  \/ /\ n \in PathFrom(t, m)
     /\ \A i \in Between(t, m, n) : InGroup(t, i, t.nodes[n].group)

\* What is remembered of the last undo, when idle and by the walk that follows it.
RedoInv ==
  /\ walk.op = "undo" =>
       /\ Climbed(tree, walk.from, tree.current)
       /\ walk.group = tree.nodes[walk.from].group
  /\ walk.op = "idle" /\ left # Root => Climbed(tree, left, tree.current)
  /\ walk.op \in {"redo", "older", "newer"} /\ left # Root => Climbed(tree, left, walk.from)
  /\ walk.op = "redo" /\ left # Root /\ NewestWay(tree, left, walk.from) =>
       /\ walk.group = tree.nodes[left].group
       /\ CameBack(tree, left, walk.from, tree.current)

\* All of this is about the nodes alone.
LEMMA SameNodes ==
  ASSUME NEW t, NEW u, t.nodes = u.nodes, NEW n, NEW c
  PROVE  /\ Climbed(t, n, c) => Climbed(u, n, c)
         /\ NewestWay(t, n, c) => NewestWay(u, n, c)
         /\ \A m : CameBack(t, n, c, m) => CameBack(u, n, c, m)
<1>1. \A x : PathFrom(t, x) = PathFrom(u, x)
  BY SamePaths
<1>2. \A x, y : Between(t, x, y) = Between(u, x, y)
  BY <1>1 DEF Between
<1>3. \A x : Children(t, x) = Children(u, x)
  BY DEF Children
<1>4. \A x, g : InGroup(t, x, g) <=> InGroup(u, x, g)
  BY DEF InGroup
<1>5. \A S : Newest(t, S) = Newest(u, S)
  BY DEF Newest
<1>6. Climbed(t, n, c) => Climbed(u, n, c)
  BY <1>1, <1>2, <1>4 DEF Climbed
<1>7. NewestWay(t, n, c) => NewestWay(u, n, c)
  BY <1>2, <1>3, <1>5 DEF NewestWay
<1>8. \A m : CameBack(t, n, c, m) => CameBack(u, n, c, m)
  BY <1>1, <1>2, <1>4 DEF CameBack
<1> QED
  BY <1>6, <1>7, <1>8

\* An undo climbs from a node to its parent: from where it starts, or in the group.
LEMMA ClimbsOn ==
  ASSUME DataInv, NEW n \in NodeIds, NEW c \in NodeIds,
         c = n \/ (Climbed(tree, n, c) /\ InGroup(tree, c, tree.nodes[n].group))
  PROVE  Climbed(tree, n, tree.nodes[c].parent)
<1> DEFINE p == tree.nodes[c].parent
<1>1. /\ Len(tree.nodes) \in Nat /\ n \in 0..Len(tree.nodes) /\ c \in Nat /\ n \in Nat /\ c # Root
      /\ p \in 0..(c - 1) /\ p \in 0..Len(tree.nodes) /\ p < c
  BY DEF DataInv, WellFormed, NodeIds, Root
<1>2. c \in PathFrom(tree, n) /\ c <= n
  BY <1>1, DataIsOrdered, PathFromIs DEF Climbed
<1>3. /\ PathFrom(tree, c) = {c} \cup PathFrom(tree, p)
      /\ PathFrom(tree, c) \subseteq PathFrom(tree, n)
  BY <1>1, <1>2, DataIsOrdered, PathFromIs, PathsNest
<1>4. p \in PathFrom(tree, p) \cup {Root}
  BY <1>1, DataIsOrdered, PathFromIs DEF NodeIds, Root
<1>5. p \in PathFrom(tree, n) \cup {Root} /\ p < n
  BY <1>1, <1>2, <1>3, <1>4
<1>6. ASSUME NEW i \in Between(tree, n, p)
      PROVE  i = n \/ InGroup(tree, i, tree.nodes[n].group)
  <2>1. i = c \/ i \in Between(tree, n, c)
    BY <1>3, <1>6 DEF Between
  <2>2. CASE c = n
    BY <2>1, <2>2 DEF Between
  <2>3. CASE c # n
    BY <2>1, <2>3 DEF Climbed
  <2> QED
    BY <2>2, <2>3
<1> QED
  BY <1>5, <1>6 DEF Climbed, NodeIds

\* On the way back from c to n there is always a child to go to: the newest, in n's group
\* unless it is n itself.
LEMMA WayBack ==
  ASSUME DataInv, NEW n, NEW c, Climbed(tree, n, c), NewestWay(tree, n, c),
         NEW m, m = c \/ m \in Between(tree, n, c), m # n
  PROVE  LET j == Newest(tree, Children(tree, m))
         IN  /\ j \in Children(tree, m) /\ j \in Between(tree, n, c)
             /\ j = n \/ InGroup(tree, j, tree.nodes[n].group)
<1>1. /\ n \in NodeIds /\ c \in PathFrom(tree, n) \cup {Root} /\ c < n
      /\ n \in 0..Len(tree.nodes) /\ Len(tree.nodes) \in Nat
  BY DEF Climbed, DataInv, NodeIds
<1>2. m \in PathFrom(tree, n) \cup {Root}
  BY <1>1 DEF Between
<1>3. PICK j \in PathFrom(tree, n) : j \in NodeIds /\ tree.nodes[j].parent = m
  BY <1>1, <1>2, DataIsOrdered, ChildOnPath
<1>4. m < j /\ m \in 0..Len(tree.nodes) /\ j \in Nat
  BY <1>3 DEF DataInv, WellFormed, NodeIds
<1>5. j \notin PathFrom(tree, c)
  <2>1. CASE m = c
    <3>1. PathFrom(tree, c) \subseteq 1..c
      BY <1>4, <2>1, DataIsOrdered, PathFromStays
    <3> QED
      BY <1>4, <2>1, <3>1
  <2>2. CASE m \in Between(tree, n, c)
    <3>1. SUFFICES ASSUME j \in PathFrom(tree, c) PROVE FALSE
      OBVIOUS
    <3>2. c \in 0..Len(tree.nodes)
      BY <1>1, DataIsOrdered, PathFromStays DEF Root
    <3>3. PathFrom(tree, j) \subseteq PathFrom(tree, c)
      BY <3>1, <3>2, DataIsOrdered, PathsNest
    <3>4. m \in PathFrom(tree, m)
      BY <1>1, <2>2, DataIsOrdered, PathsNest DEF Between
    <3>5. m \in PathFrom(tree, j)
      BY <1>3, <3>4, DataIsOrdered, PathFromIs
    <3> QED
      BY <2>2, <3>3, <3>5 DEF Between
  <2> QED
    BY <2>1, <2>2
<1>6. j \in Between(tree, n, c)
  BY <1>3, <1>5 DEF Between
<1>7. j = Newest(tree, Children(tree, m))
  BY <1>3, <1>6 DEF NewestWay
<1>8. j \in Children(tree, m)
  BY <1>3 DEF Children, NodeIds, DataInv
<1>9. j = n \/ InGroup(tree, j, tree.nodes[n].group)
  BY <1>6 DEF Climbed
<1> QED
  BY <1>6, <1>7, <1>8, <1>9

\* A redo goes on to the newest child of m, in the group unless m is where it starts.
LEMMA GoesBack ==
  ASSUME DataInv, NEW n, NEW c, Climbed(tree, n, c), NewestWay(tree, n, c),
         NEW m, m = c \/ CameBack(tree, n, c, m),
         NEW j \in Children(tree, m), j = Newest(tree, Children(tree, m)),
         m = c \/ InGroup(tree, j, tree.nodes[n].group)
  PROVE  CameBack(tree, n, c, j)
<1>1. CASE (m = c \/ m \in Between(tree, n, c)) /\ m # n
  BY <1>1, WayBack DEF CameBack
<1>2. CASE ~((m = c \/ m \in Between(tree, n, c)) /\ m # n)
  <2>1. n \in NodeIds /\ n \in 0..Len(tree.nodes) /\ n \in PathFrom(tree, n) /\ c # n
    BY DataIsOrdered, PathFromIs DEF Climbed, DataInv, NodeIds
  <2>2. /\ n \in PathFrom(tree, m)
        /\ \A i \in Between(tree, m, n) : InGroup(tree, i, tree.nodes[n].group)
    BY <1>2, <2>1 DEF CameBack, Between
  <2>3. j \in NodeIds /\ tree.nodes[j].parent = m
    BY DEF Children, NodeIds, DataInv
  <2>4. PathFrom(tree, j) = {j} \cup PathFrom(tree, m)
    BY <2>3, DataIsOrdered, PathFromIs
  <2>5. m # c
    BY <1>2, <2>1
  <2> QED
    BY <2>2, <2>4, <2>5 DEF CameBack, Between
<1> QED
  BY <1>1, <1>2

\* Every step keeps what is remembered of the undo.
LEMMA NextRedo == UndoInv /\ RedoInv /\ [Next]_vars => RedoInv'
<1> SUFFICES ASSUME UndoInv, RedoInv, [Next]_vars PROVE RedoInv'
  OBVIOUS
<1>1. /\ DataInv /\ walk \in Walk /\ left \in Nat /\ WalkInv
      /\ tree.current \in 0..Len(tree.nodes) /\ Len(tree.nodes) \in Nat
      /\ tree.current # Root => tree.current \in NodeIds
      /\ tree \in [nodes : Seq(Node), current : Nat, group : Nat, nextGroup : Nat, nextSeq : Nat]
  BY DEF UndoInv, ControlInv, DataInv, WellFormed, NodeIds, Root
<1>2. CASE Edit
  BY <1>2 DEF Edit, RedoInv, Idle
<1>3. CASE MoveCursor \/ Begin \/ End \/ UNCHANGED vars
  <2>1. /\ tree'.nodes = tree.nodes /\ tree'.current = tree.current
        /\ walk' = walk /\ left' = left
    BY <1>1, <1>3 DEF MoveCursor, Begin, End, BeginGroup, EndGroup, history, vars
  <2>2. \A n, c : /\ Climbed(tree, n, c) => Climbed(tree', n, c)
                  /\ NewestWay(tree', n, c) => NewestWay(tree, n, c)
                  /\ \A m : CameBack(tree, n, c, m) => CameBack(tree', n, c, m)
    BY <2>1, SameNodes
  <2> QED
    BY <2>1, <2>2 DEF RedoInv
<1>4. CASE Undo \/ UndoMore
  <2> DEFINE n == IF walk.op = "idle" THEN tree.current ELSE walk.from
  <2>1. /\ tree' = [tree EXCEPT !.current = Here.parent] /\ tree.current \in NodeIds
        /\ walk'.op = "undo" /\ walk'.from = n /\ n \in NodeIds
        /\ walk'.group = tree.nodes[n].group
        /\ \/ tree.current = n
           \/ Climbed(tree, n, tree.current) /\ InGroup(tree, tree.current, tree.nodes[n].group)
    <3>1. CASE Undo
      <4>1. tree.current # Root /\ walk.op = "idle" /\ n = tree.current /\ StepUp
        BY <3>1 DEF Undo, Idle
      <4>2. walk' = [Idle EXCEPT !.op = "undo", !.group = Here.group, !.from = tree.current]
        BY <3>1 DEF Undo
      <4>3. walk'.op = "undo" /\ walk'.from = tree.current /\ walk'.group = Here.group
        BY <4>2 DEF Idle
      <4> QED
        BY <1>1, <4>1, <4>3 DEF StepUp, Here
    <3>2. CASE UndoMore
      BY <1>1, <3>2 DEF UndoMore, StepUp, Here, RedoInv, Climbed, InGroup, NodeIds
    <3> QED
      BY <1>4, <3>1, <3>2
  <2> HIDE DEF n
  <2>2. tree'.nodes = tree.nodes /\ tree'.current = tree.nodes[tree.current].parent
    BY <1>1, <2>1 DEF Here
  <2>3. Climbed(tree, n, tree'.current)
    BY <1>1, <2>1, <2>2, ClimbsOn
  <2>4. Climbed(tree', n, tree'.current)
    BY <2>2, <2>3, SameNodes
  <2> QED
    BY <2>1, <2>2, <2>4 DEF RedoInv
<1>5. CASE UndoReturn
  BY <1>5 DEF UndoReturn, RedoInv, Idle
<1>6. CASE Redo \/ RedoMore
  <2> DEFINE c == walk'.from  j == Newest(tree, Children(tree, tree.current))
  <2>1. /\ tree' = [tree EXCEPT !.current = j] /\ left' = left
        /\ walk'.op = "redo" /\ j \in Children(tree, tree.current)
        /\ left # Root => Climbed(tree, left, c)
        /\ \/ tree.current = c /\ walk'.group = tree.nodes[j].group
           \/ /\ walk.op = "redo" /\ walk' = walk /\ InGroup(tree, j, walk.group)
    <3>1. CASE Redo
      BY <1>1, <3>1, NewestChild DEF Redo, StepDown, Idle, RedoInv
    <3>2. CASE RedoMore
      BY <1>1, <3>2, NewestChild DEF RedoMore, RedoGoesOn, StepDown, RedoInv
    <3> QED
      BY <1>6, <3>1, <3>2
  <2> HIDE DEF c, j
  <2>2. tree'.nodes = tree.nodes /\ tree'.current = j
    BY <1>1, <2>1
  <2>3. ASSUME left # Root, NewestWay(tree', left, c)
        PROVE  walk'.group = tree.nodes[left].group /\ CameBack(tree', left, c, j)
    <3>1. NewestWay(tree, left, c) /\ Climbed(tree, left, c)
      BY <2>1, <2>2, <2>3, SameNodes
    <3>2. CASE tree.current = c /\ walk'.group = tree.nodes[j].group
      <4>1. c # left
        BY <1>1, <3>1, <3>2 DEF Climbed
      <4>2. j = left \/ InGroup(tree, j, tree.nodes[left].group)
        BY <1>1, <3>1, <3>2, <4>1, WayBack DEF j
      <4>3. walk'.group = tree.nodes[left].group
        BY <3>2, <4>2 DEF InGroup
      <4>4. CameBack(tree, left, c, j)
        BY <1>1, <2>1, <3>1, <3>2, GoesBack DEF j
      <4> QED
        BY <2>2, <4>3, <4>4, SameNodes
    <3>3. CASE walk.op = "redo" /\ walk' = walk /\ InGroup(tree, j, walk.group)
      <4>1. walk.group = tree.nodes[left].group /\ CameBack(tree, left, c, tree.current)
        BY <2>3, <3>1, <3>3 DEF RedoInv, c
      <4>2. CameBack(tree, left, c, j)
        BY <1>1, <2>1, <3>1, <3>3, <4>1, GoesBack DEF j
      <4> QED
        BY <2>2, <3>3, <4>1, <4>2, SameNodes
    <3> QED
      BY <2>1, <3>2, <3>3
  <2>4. left # Root => Climbed(tree', left, c)
    BY <2>1, <2>2, SameNodes
  <2> QED
    BY <2>1, <2>2, <2>3, <2>4 DEF RedoInv, c
<1>7. CASE RedoReturn \/ SeekReturn
  BY <1>7 DEF RedoReturn, SeekReturn, RedoInv, Idle
<1>8. CASE UndoOlder \/ UndoNewer
  <2>1. /\ walk = Idle /\ walk'.op \in {"older", "newer"} /\ walk'.from = tree.current
        /\ tree' = tree /\ left' = left
    BY <1>8 DEF UndoOlder, UndoNewer, SeekTo
  <2> QED
    BY <2>1 DEF RedoInv, Idle
<1>9. CASE SeekUp \/ SeekDown
  <2>1. /\ walk.op \in {"older", "newer"} /\ walk'.op = walk.op /\ walk'.from = walk.from
        /\ left' = left /\ tree'.nodes = tree.nodes
    <3>1. CASE SeekUp
      BY <1>1, <3>1 DEF SeekUp, Seeking, StepUp, Walk
    <3>2. CASE SeekDown
      BY <1>1, <3>2 DEF SeekDown, Seeking, StepDown
    <3> QED
      BY <1>9, <3>1, <3>2
  <2>2. left # Root => Climbed(tree', left, walk.from)
    BY <2>1, SameNodes DEF RedoInv
  <2> QED
    BY <2>1, <2>2 DEF RedoInv
<1> QED
  BY <1>2, <1>3, <1>4, <1>5, <1>6, <1>7, <1>8, <1>9 DEF Next, WalkStep

\* A redo right after an undo gives back all that was undone, and of what lies beyond only
\* the rest of that group, when what was undone is the newest child at every fork (redo).
THEOREM RedoRestores == Spec => RedoRestoresUndo
<1> DEFINE Given == /\ walk.op = "redo" /\ walk' = Idle /\ left # Root
                    /\ \A i \in TakenBack(left, walk.from) :
                         i = Newest(tree, Children(tree, tree.nodes[i].parent))
           Got == /\ left \in PathFrom(tree, tree.current)
                  /\ \A i \in TakenBack(tree.current, left) :
                       InGroup(tree, i, tree.nodes[left].group)
<1>1. Init => RedoInv
  BY DEF Init, RedoInv, Idle
<1>2. UndoInv /\ RedoInv /\ [Next]_vars => [Given => Got]_vars
  <2> SUFFICES ASSUME UndoInv, RedoInv, Next, Given PROVE Got
    OBVIOUS
  <2>1. ~RedoGoesOn /\ DataInv /\ tree.current # Root
    <3>1. walk.op = "redo" /\ walk'.op = "idle" /\ walk # Idle
      BY DEF Idle
    <3>2. walk \in Walk /\ WalkInv /\ DataInv
      BY DEF UndoInv, ControlInv
    <3>3. RedoReturn
      BY <3>1, <3>2 DEF Next, WalkStep, Edit, MoveCursor, Begin, End, Undo, Redo, UndoOlder,
         UndoNewer, UndoMore, UndoReturn, RedoMore, SeekUp, SeekDown, SeekReturn, Seeking
    <3> QED
      BY <3>1, <3>2, <3>3 DEF RedoReturn, WalkInv, DataInv, WellFormed, Root
  <2>2. /\ Climbed(tree, left, walk.from) /\ NewestWay(tree, left, walk.from)
        /\ walk.group = tree.nodes[left].group
        /\ CameBack(tree, left, walk.from, tree.current)
    BY DEF RedoInv, NewestWay, TakenBack, Between
  <2>3. CASE tree.current \in Between(tree, left, walk.from) /\ tree.current # left
    <3> DEFINE j == Newest(tree, Children(tree, tree.current))
    <3>1. /\ j \in Children(tree, tree.current)
          /\ j = left \/ InGroup(tree, j, tree.nodes[left].group)
      BY <2>1, <2>2, <2>3, WayBack
    <3>2. InGroup(tree, tree.current, tree.nodes[left].group)
      BY <2>2, <2>3 DEF Climbed
    <3>3. left # Root
      OBVIOUS
    <3> HIDE DEF j
    <3>4. InGroup(tree, j, walk.group)
      BY <2>2, <3>1, <3>2, <3>3 DEF InGroup
    <3> QED
      BY <2>1, <3>1, <3>4 DEF RedoGoesOn, j
  <2>4. CASE tree.current = left
    <3>1. left \in PathFrom(tree, left)
      BY <2>1, <2>2, DataIsOrdered, PathFromIs DEF Climbed, NodeIds
    <3> QED
      BY <2>4, <3>1 DEF TakenBack
  <2>5. CASE tree.current \notin Between(tree, left, walk.from)
    BY <2>2, <2>5 DEF CameBack, TakenBack, Between
  <2> QED
    BY <2>3, <2>4, <2>5
<1> QED
  BY <1>1, <1>2, Inductive, NextRedo, PTL DEF Spec, RedoRestoresUndo

-----------------------------------------------------------------------------
\* A step that shows the same state of the same history is a stutter of Timeline.
LEMMA Stutters ==
  ASSUME UNCHANGED <<past, ShownAt, ShownText>>
  PROVE  [TL!TLNext]_TL!tlVars
BY DEF TL!tlVars

\* Ending a walk at an earlier or at a later node is a Back or a Forward.
LEMMA Returns ==
  ASSUME UndoInv, UndoInv', walk # Idle, walk' = Idle, past' = past, tree' = tree,
         tree.current # walk.from
  PROVE  [TL!TLNext]_TL!tlVars
<1>1. /\ ShownAt = walk.from /\ ShownAt' = tree.current
      /\ ShownText' = past[tree.current]
  BY DEF ShownAt, ShownText, UndoInv, DataInv, DocMatchesHistory
<1>2. tree.current \in DOMAIN past /\ walk.from \in Nat /\ tree.current \in Nat
  BY DEF UndoInv, DataInv, WellFormed, ControlInv, WalkInv
<1>3. tree.current < walk.from \/ tree.current > walk.from
  BY <1>2
<1>4. QED
  BY <1>1, <1>2, <1>3 DEF TL!TLNext, TL!Back, TL!Forward

\* Every step is a Timeline step or a stutter.
LEMMA TimelineStep ==
  ASSUME UndoInv, UndoInv', [Next]_vars
  PROVE  [TL!TLNext]_TL!tlVars
<1>1. doc = past[tree.current] /\ doc' = past'[tree'.current]
  BY DEF UndoInv, DataInv, DocMatchesHistory
<1>2. CASE Edit
  <2> DEFINE n == Len(tree.nodes)
  <2>1. walk = Idle /\ walk' = Idle
    BY <1>2 DEF Edit
  <2>2. n \in Nat /\ DOMAIN past = 0..n /\ doc' \in Docs
    BY DEF UndoInv, DataInv
  <2>3. Len(tree'.nodes) = n + 1 /\ tree'.current = n + 1
    BY <1>2, EditKeepsData DEF UndoInv
  <2>4. past' = [m \in 0..(n + 1) |-> IF m \in 0..n THEN past[m] ELSE doc']
    BY <1>2, <2>2, <2>3 DEF Edit
  <2>5. ShownAt' = n + 1 /\ ShownText' = doc'
    BY <2>1, <2>3 DEF ShownAt, ShownText
  <2>6. n \in DOMAIN past
    BY <2>2
  <2> HIDE DEF n
  <2>7. TL!Record
    BY <2>2, <2>4, <2>5, <2>6 DEF TL!Record
  <2>8. QED
    BY <2>7 DEF TL!TLNext
<1>3. CASE MoveCursor \/ Begin \/ End
  <2>1. /\ walk = Idle /\ walk' = Idle /\ past' = past /\ doc' = doc
        /\ tree'.current = tree.current
    BY <1>3 DEF MoveCursor, Begin, End, BeginGroup, EndGroup, history, UndoInv, DataInv
  <2>2. QED
    BY <2>1, Stutters DEF ShownAt, ShownText
<1>4. CASE Undo \/ Redo \/ UndoOlder \/ UndoNewer
  <2>1. walk = Idle /\ walk'.op # "idle" /\ walk'.from = tree.current /\ past' = past
    <3>1. CASE Undo
      BY <3>1 DEF Undo, StepUp, Idle
    <3>2. CASE Redo
      BY <3>2 DEF Redo, StepDown, Idle
    <3>3. CASE UndoOlder \/ UndoNewer
      BY <3>3 DEF UndoOlder, UndoNewer, SeekTo
    <3>4. QED
      BY <1>4, <3>1, <3>2, <3>3
  <2>2. walk' # Idle
    BY <2>1 DEF Idle
  <2>3. QED
    BY <1>1, <2>1, <2>2, Stutters DEF ShownAt, ShownText
<1>5. CASE UndoMore \/ RedoMore \/ SeekUp \/ SeekDown
  <2>1. walk.op # "idle" /\ walk'.op = walk.op /\ walk'.from = walk.from /\ past' = past
    <3>1. walk \in Walk
      BY DEF UndoInv, ControlInv
    <3>2. CASE UndoMore \/ RedoMore \/ SeekDown
      BY <3>2 DEF UndoMore, RedoMore, SeekDown, Seeking, StepUp, StepDown
    <3>3. CASE SeekUp
      <4>1. /\ walk' = [walk EXCEPT !.down = Here.parent \in {walk.meet, Root}]
            /\ past' = past /\ walk.op \in {"older", "newer"}
        BY <3>3 DEF SeekUp, Seeking, StepUp
      <4>2. QED
        BY <3>1, <4>1 DEF Walk
    <3>4. QED
      BY <1>5, <3>2, <3>3
  <2>2. walk # Idle /\ walk' # Idle
    BY <2>1 DEF Idle
  <2>3. QED
    BY <2>1, <2>2, Stutters DEF ShownAt, ShownText
<1>6. CASE UndoReturn \/ RedoReturn \/ SeekReturn
  <2>1. /\ walk.op \in {"undo", "redo", "older", "newer"} /\ walk' = Idle
        /\ past' = past /\ tree' = tree
        /\ Seeking => tree.current = walk.target
    BY <1>6 DEF UndoReturn, RedoReturn, SeekReturn, Seeking
  <2>2. walk # Idle
    BY <2>1 DEF Idle
  <2>3. tree.current # walk.from
    BY <2>1 DEF Seeking, UndoInv, DataInv, WellFormed, ControlInv, WalkInv
  <2>4. QED
    BY <2>1, <2>2, <2>3, Returns
<1>7. CASE UNCHANGED vars
  BY <1>7, Stutters DEF vars, ShownAt, ShownText
<1>8. QED
  BY <1>2, <1>3, <1>4, <1>5, <1>6, <1>7 DEF Next, WalkStep

\* The undo tree implements the Timeline: whatever the branches, groups and jumps,
\* it shows one text after another of a history in which no text is lost or altered.
THEOREM UndoTreeIsTimeline == Spec => ImplementsTimeline
<1>1. Init => TL!TLInit
  BY DEF Init, TL!TLInit, ShownAt, ShownText, EmptyTree, Root
<1>2. UndoInv /\ UndoInv' /\ [Next]_vars => [TL!TLNext]_TL!tlVars
  BY TimelineStep
<1>3. QED
  BY <1>1, <1>2, Inductive, PTL DEF Spec, ImplementsTimeline, TL!TLSpec
=============================================================================
