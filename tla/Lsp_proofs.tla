------------------------------ MODULE Lsp_proofs ------------------------------
(***************************************************************************)
(* A language server follows the texts of every document in order, and the *)
(* answers to a request are made for its text, for any number of documents,*)
(* edits, requests and tasks: proofs about module Lsp.                     *)
(***************************************************************************)
EXTENDS Lsp, Lemmas

Tasks == [kind : {"open", "change", "format"}, doc : Docs, what : Nat]

\* The tasks that have not run, in the order they will if none is overtaken.
Pipe == lock \o spawned

Sends(t) == t.kind \in {"open", "change"}

LspTyped ==
  /\ rev \in [Docs -> Nat]
  /\ opened \in Docs /\ focus \in 1..opened
  /\ known \in [Docs -> Nat \cup {-1}]
  /\ lock \in Seq(Tasks) /\ spawned \in Seq(Tasks)
  /\ overtaken \in BOOLEAN

\* Nothing ahead of its document is sent or known, and a document that is not open was
\* not edited.
NoneAhead ==
  /\ \A d \in Docs : known[d] <= rev[d] /\ (d > opened => rev[d] = 0)
  /\ \A i \in 1..Len(Pipe) : Sends(Pipe[i]) => Pipe[i].what <= rev[Pipe[i].doc]

\* The texts of a document wait in their order, and the server knows none that is newer.
InLine ==
  ~overtaken =>
    /\ \A i \in 1..Len(Pipe) : Sends(Pipe[i]) => known[Pipe[i].doc] <= Pipe[i].what
    /\ \A i, j \in 1..Len(Pipe) :
         i < j /\ Sends(Pipe[i]) /\ Sends(Pipe[j]) /\ Pipe[i].doc = Pipe[j].doc
           => Pipe[i].what <= Pipe[j].what

LspInv == LspTyped /\ NoneAhead /\ InLine

-----------------------------------------------------------------------------
\* Starting the oldest task leaves the order of the pipe as it is.
LEMMA StartOldest ==
  ASSUME NEW S, NEW a \in Seq(S), NEW b \in Seq(S), b # <<>>
  PROVE  Append(a, b[1]) \o RemoveAt(b, 1) = a \o b
<1>1. RemoveAt(b, 1) = Tail(b)
  <2>1. SubSeq(b, 1, 0) = <<>>
    OBVIOUS
  <2>2. SubSeq(b, 2, Len(b)) = Tail(b) /\ Tail(b) \in Seq(S)
    OBVIOUS
  <2> QED  BY <2>1, <2>2, ConcatEmptySeq DEF RemoveAt
<1>2. Append(a, b[1]) \o Tail(b) = a \o b
  <2>1. b[1] \in S /\ <<b[1]>> \in Seq(S) /\ Tail(b) \in Seq(S)
    OBVIOUS
  <2>2. Append(a, b[1]) = a \o <<b[1]>>
    BY <2>1, AppendIsConcat
  <2>3. <<b[1]>> \o Tail(b) = b
    OBVIOUS
  <2> QED  BY <2>1, <2>2, <2>3, ConcatAssociative
<1> QED
  BY <1>1, <1>2

\* A task spawned is the last of the pipe.
LEMMA SpawnIsLast ==
  ASSUME NEW S, NEW a \in Seq(S), NEW b \in Seq(S), NEW x \in S
  PROVE  a \o Append(b, x) = Append(a \o b, x)
  OBVIOUS

\* The task at the lock is the first of the pipe.
LEMMA LockIsFirst ==
  ASSUME NEW S, NEW a \in Seq(S), NEW b \in Seq(S), a # <<>>
  PROVE  Tail(a) \o b = Tail(a \o b) /\ Head(a) = (a \o b)[1] /\ a \o b # <<>>
  OBVIOUS

-----------------------------------------------------------------------------
\* At the start the first document's opening is on its way (open_path_in_buffer).
LEMMA InitInLine == Init => LspInv
<1> SUFFICES ASSUME Init PROVE LspInv
  OBVIOUS
<1>1. 1 \in Docs
  BY LspAssumption DEF Docs
<1>2. Task("open", 1, 0) \in Tasks
  BY <1>1 DEF Task, Tasks
<1>3. lock = <<>> /\ spawned = <<Task("open", 1, 0)>>
  BY DEF Init
<1>4. <<>> \in Seq(Tasks) /\ <<Task("open", 1, 0)>> \in Seq(Tasks)
  BY <1>2
<1>5. LspTyped
  <2>1. rev \in [Docs -> Nat] /\ known \in [Docs -> Nat \cup {-1}]
    BY DEF Init
  <2>2. opened \in Docs /\ focus \in 1..opened
    BY <1>1 DEF Init
  <2>4. overtaken \in BOOLEAN
    BY DEF Init
  <2>3. lock \in Seq(Tasks) /\ spawned \in Seq(Tasks)
    BY <1>3, <1>4
  <2> QED  BY <2>1, <2>2, <2>3, <2>4 DEF LspTyped
<1>6. Pipe = <<Task("open", 1, 0)>>
  BY <1>3, <1>4, ConcatEmptySeq DEF Pipe
<1>7. Len(Pipe) = 1 /\ Pipe[1].doc = 1 /\ Pipe[1].what = 0
  BY <1>6 DEF Task
<1>8. NoneAhead
  BY <1>1, <1>7 DEF Init, NoneAhead
<1>9. InLine
  BY <1>1, <1>7 DEF Init, InLine
<1> QED
  BY <1>5, <1>8, <1>9 DEF LspInv

\* A turn of the event loop may edit the document in focus, move the focus or open a
\* document, and spawns at most one task, with the newest text.
LEMMA TurnInLine ==
  ASSUME LspInv,
         rev' \in [Docs -> Nat],
         \A d \in Docs : rev[d] <= rev'[d] /\ (d > opened => rev'[d] = rev[d]),
         opened' \in Docs, opened <= opened', focus' \in 1..opened',
         UNCHANGED <<known, lock, overtaken>>,
         \/ UNCHANGED spawned
         \/ \E t \in Tasks : /\ spawned' = Append(spawned, t)
                             /\ Sends(t) => t.what = rev'[t.doc]
  PROVE  LspInv'
<1> USE DEF LspInv
<1>1. Pipe \in Seq(Tasks)
  BY ConcatProperties DEF Pipe, LspTyped
<1>2. ASSUME NEW d \in Docs PROVE known'[d] <= rev'[d] /\ (d > opened' => rev'[d] = 0)
  <2>1. d \in Int /\ opened \in Int /\ opened' \in Int
    BY LspAssumption DEF LspTyped, Docs
  <2>2. rev[d] \in Nat /\ rev'[d] \in Nat /\ known[d] \in Int
    BY DEF LspTyped
  <2>3. known[d] <= rev[d] /\ (d > opened => rev[d] = 0)
    BY DEF NoneAhead
  <2> QED  BY <2>1, <2>2, <2>3
<1>3. CASE UNCHANGED spawned
  <2>1. Pipe' = Pipe
    BY <1>3 DEF Pipe
  <2>2. LspTyped'
    BY <1>3 DEF LspTyped
  <2>3. NoneAhead'
    <3>1. ASSUME NEW i \in 1..Len(Pipe), Sends(Pipe[i]) PROVE Pipe[i].what <= rev'[Pipe[i].doc]
      <4>1. Pipe[i] \in Tasks
        BY <1>1
      <4>2. Pipe[i].doc \in Docs /\ Pipe[i].what \in Nat
        BY <4>1 DEF Tasks
      <4> QED  BY <3>1, <4>2 DEF NoneAhead, LspTyped
    <3> QED  BY <2>1, <3>1, <1>2 DEF NoneAhead
  <2>4. InLine'
    BY <2>1 DEF InLine
  <2> QED  BY <2>2, <2>3, <2>4
<1>4. ASSUME NEW t \in Tasks, spawned' = Append(spawned, t), Sends(t) => t.what = rev'[t.doc]
      PROVE  LspInv'
  <2>1. Pipe' = Append(Pipe, t)
    BY <1>4, SpawnIsLast DEF Pipe, LspTyped
  <2>2. /\ Len(Pipe') = Len(Pipe) + 1 /\ Len(Pipe) \in Nat
        /\ Pipe'[Len(Pipe) + 1] = t
        /\ \A i \in 1..Len(Pipe) : Pipe'[i] = Pipe[i] /\ Pipe[i] \in Tasks
    BY <2>1, <1>1
  <2>3. spawned' \in Seq(Tasks)
    BY <1>4 DEF LspTyped
  <2>4. LspTyped'
    BY <2>3 DEF LspTyped
  <2>5. ASSUME NEW i \in 1..Len(Pipe), Sends(Pipe[i])
        PROVE  Pipe[i].what <= rev'[Pipe[i].doc]
    <3>1. Pipe[i].doc \in Docs /\ Pipe[i].what \in Nat
      BY <2>2 DEF Tasks
    <3> QED  BY <2>5, <3>1 DEF NoneAhead, LspTyped
  <2>6. t.doc \in Docs /\ t.what \in Nat
    BY DEF Tasks
  <2>7. NoneAhead'
    <3>1. ASSUME NEW i \in 1..Len(Pipe'), Sends(Pipe'[i]) PROVE Pipe'[i].what <= rev'[Pipe'[i].doc]
      <4>1. CASE i \in 1..Len(Pipe)
        BY <2>2, <2>5, <3>1, <4>1
      <4>2. CASE i = Len(Pipe) + 1
        BY <2>2, <1>4, <3>1, <4>2, <2>6
      <4> QED  BY <2>2, <4>1, <4>2
    <3> QED  BY <3>1, <1>2 DEF NoneAhead
  <2>8. InLine'
    <3> SUFFICES ASSUME ~overtaken
                 PROVE  /\ \A i \in 1..Len(Pipe') : Sends(Pipe'[i]) => known[Pipe'[i].doc] <= Pipe'[i].what
                        /\ \A i, j \in 1..Len(Pipe') :
                             i < j /\ Sends(Pipe'[i]) /\ Sends(Pipe'[j]) /\ Pipe'[i].doc = Pipe'[j].doc
                               => Pipe'[i].what <= Pipe'[j].what
      BY DEF InLine
    <3>1. ASSUME NEW i \in 1..Len(Pipe'), Sends(Pipe'[i]) PROVE known[Pipe'[i].doc] <= Pipe'[i].what
      <4>1. CASE i \in 1..Len(Pipe)
        BY <2>2, <3>1, <4>1 DEF InLine
      <4>2. CASE i = Len(Pipe) + 1
        <5>1. Pipe'[i] = t /\ t.what = rev'[t.doc]
          BY <2>2, <1>4, <3>1, <4>2
        <5> QED  BY <5>1, <1>2, <2>6
      <4> QED  BY <2>2, <4>1, <4>2
    <3>2. ASSUME NEW i \in 1..Len(Pipe'), NEW j \in 1..Len(Pipe'), i < j,
                 Sends(Pipe'[i]), Sends(Pipe'[j]), Pipe'[i].doc = Pipe'[j].doc
          PROVE  Pipe'[i].what <= Pipe'[j].what
      <4>1. i \in 1..Len(Pipe)
        BY <2>2, <3>2
      <4>2. CASE j \in 1..Len(Pipe)
        BY <2>2, <3>2, <4>1, <4>2 DEF InLine
      <4>3. CASE j = Len(Pipe) + 1
        <5>1. Pipe'[j] = t /\ t.what = rev'[t.doc]
          BY <2>2, <1>4, <3>2, <4>3
        <5>2. Pipe'[i] = Pipe[i] /\ Pipe[i].what <= rev'[Pipe[i].doc]
          BY <2>2, <2>5, <3>2, <4>1
        <5> QED  BY <5>1, <5>2, <3>2
      <4> QED  BY <2>2, <4>2, <4>3
    <3> QED  BY <3>1, <3>2
  <2> QED  BY <2>4, <2>7, <2>8
<1> QED
  BY <1>3, <1>4

\* A task started goes to the lock: it keeps its place, or another was overtaken (Start).
LEMMA StartInLine ==
  ASSUME LspInv, NEW n \in DOMAIN spawned, Start(n)
  PROVE  LspInv'
<1> USE DEF LspInv
<1>1. /\ spawned' = RemoveAt(spawned, n) /\ lock' = Append(lock, spawned[n])
      /\ overtaken' = (overtaken \/ n > 1)
      /\ UNCHANGED <<rev, opened, focus, known>>
  BY DEF Start, editor
<1>2. n \in 1..Len(spawned) /\ spawned[n] \in Tasks /\ spawned # <<>>
  BY DEF LspTyped
<1>3. spawned' \in Seq(Tasks) /\ lock' \in Seq(Tasks) /\ overtaken' \in BOOLEAN
  BY <1>1, <1>2, RemoveAtKeeps DEF LspTyped
<1>4. LspTyped'
  BY <1>1, <1>3 DEF LspTyped
<1>5. CASE n = 1
  <2>1. Pipe' = Pipe
    BY <1>1, <1>2, <1>5, StartOldest DEF Pipe, LspTyped
  <2>2. NoneAhead'
    BY <2>1, <1>1 DEF NoneAhead
  <2>3. InLine'
    BY <2>1, <1>1 DEF InLine
  <2> QED  BY <1>4, <2>2, <2>3
<1>6. CASE n # 1
  <2>1. overtaken'
    <3>1. n > 1
      BY <1>2, <1>6
    <3> QED  BY <1>1, <3>1
  <2>2. /\ Len(Pipe') = Len(lock') + Len(spawned')
        /\ \A i \in 1..(Len(lock') + Len(spawned')) :
             Pipe'[i] = IF i <= Len(lock') THEN lock'[i] ELSE spawned'[i - Len(lock')]
    BY <1>3, ConcatProperties DEF Pipe
  <2>3. /\ Len(Pipe) = Len(lock) + Len(spawned)
        /\ \A i \in 1..(Len(lock) + Len(spawned)) :
             Pipe[i] = IF i <= Len(lock) THEN lock[i] ELSE spawned[i - Len(lock)]
    BY ConcatProperties DEF Pipe, LspTyped
  <2>4. Len(lock) \in Nat /\ Len(spawned) \in Nat /\ Len(spawned') \in Nat
    BY <1>3 DEF LspTyped
  <2>5. /\ Len(lock') = Len(lock) + 1 /\ lock'[Len(lock) + 1] = spawned[n]
        /\ \A i \in 1..Len(lock) : lock'[i] = lock[i]
    BY <1>1, <1>2 DEF LspTyped
  <2>6. ASSUME NEW k \in 1..Len(spawned) PROVE \E m \in 1..Len(Pipe) : spawned[k] = Pipe[m]
    <3>1. Len(lock) + k \in 1..Len(Pipe) /\ Pipe[Len(lock) + k] = spawned[k]
      BY <2>3, <2>4
    <3> QED  BY <3>1
  <2>7. ASSUME NEW i \in 1..Len(Pipe') PROVE \E m \in 1..Len(Pipe) : Pipe'[i] = Pipe[m]
    <3>1. CASE i <= Len(lock)
      <4>1. Pipe'[i] = Pipe[i] /\ i \in 1..Len(Pipe)
        BY <2>2, <2>3, <2>4, <2>5, <3>1
      <4> QED  BY <4>1
    <3>2. CASE i = Len(lock) + 1
      <4>1. Pipe'[i] = spawned[n]
        BY <2>2, <2>4, <2>5, <3>2
      <4> QED  BY <4>1, <2>6, <1>2
    <3>3. CASE i > Len(lock) + 1
      <4>1. Pipe'[i] = spawned'[i - Len(lock')] /\ i - Len(lock') \in 1..Len(spawned')
        BY <2>2, <2>4, <2>5, <3>3
      <4>2. spawned \in Seq(Tasks) /\ n \in 1..Len(spawned) /\ spawned' = RemoveAt(spawned, n)
        BY <1>1, <1>2 DEF LspTyped
      <4>3. \A j \in 1..Len(RemoveAt(spawned, n)) :
              \E k \in 1..Len(spawned) : RemoveAt(spawned, n)[j] = spawned[k]
        BY <4>2, RemoveAtKeeps
      <4>4. \E k \in 1..Len(spawned) : Pipe'[i] = spawned[k]
        BY <4>1, <4>2, <4>3
      <4> QED  BY <4>4, <2>6
    <3> QED  BY <3>1, <3>2, <3>3, <2>4
  <2>8. NoneAhead'
    <3>1. ASSUME NEW i \in 1..Len(Pipe'), Sends(Pipe'[i]) PROVE Pipe'[i].what <= rev[Pipe'[i].doc]
      <4>1. PICK m \in 1..Len(Pipe) : Pipe'[i] = Pipe[m]
        BY <2>7
      <4> QED  BY <3>1, <4>1 DEF NoneAhead
    <3> QED  BY <3>1, <1>1 DEF NoneAhead
  <2>9. InLine'
    BY <2>1 DEF InLine
  <2> QED  BY <1>4, <2>8, <2>9
<1> QED
  BY <1>5, <1>6

\* What the task at the lock does to what the server knows.
Ran(t) ==
  known' = known \/ (Sends(t) /\ known' = [known EXCEPT ![t.doc] = t.what])

\* The task at the lock runs: it is the first of the pipe, and what it sends is no
\* older than what the server knows (RunOpen, RunChange, RunFormat).
LEMMA RunInLine ==
  ASSUME LspInv, RunTask
  PROVE  LspInv' /\ (~overtaken => \A d \in Docs : known'[d] >= known[d])
<1> USE DEF LspInv
<1> DEFINE t == Head(lock)
<1>1. /\ lock # <<>> /\ lock' = Tail(lock)
      /\ UNCHANGED <<rev, opened, focus, spawned, overtaken>>
  BY DEF RunTask, editor
<1>2. Ran(t)
  BY DEF RunTask, RunOpen, RunChange, RunFormat, Ran, Sends
<1>3. /\ Pipe' = Tail(Pipe) /\ t = Pipe[1] /\ Pipe # <<>>
      /\ lock' \in Seq(Tasks) /\ t \in Tasks
  BY <1>1, LockIsFirst DEF Pipe, LspTyped
<1>4. Pipe \in Seq(Tasks)
  BY ConcatProperties DEF Pipe, LspTyped
<1>5. /\ Len(Pipe) \in Nat \ {0} /\ Len(Pipe') = Len(Pipe) - 1
      /\ \A i \in 1..Len(Pipe') : Pipe'[i] = Pipe[i + 1] /\ i + 1 \in 1..Len(Pipe)
      /\ \A i \in 1..Len(Pipe) : Pipe[i] \in Tasks
  BY <1>3, <1>4
<1>6. t.doc \in Docs /\ t.what \in Nat /\ \A i \in 1..Len(Pipe) : Pipe[i].doc \in Docs /\ Pipe[i].what \in Nat
  BY <1>3, <1>5 DEF Tasks
<1>7. Sends(t) => t.what <= rev[t.doc] /\ (~overtaken => known[t.doc] <= t.what)
  BY <1>3, <1>5 DEF NoneAhead, InLine
<1> HIDE DEF t
<1>8. known' \in [Docs -> Nat \cup {-1}]
  BY <1>2, <1>6 DEF Ran, LspTyped
<1>9. LspTyped'
  BY <1>1, <1>3, <1>8 DEF LspTyped
<1>10. \A d \in Docs : known'[d] <= rev[d] /\ (~overtaken => known'[d] >= known[d])
  <2>1. \A d \in Docs : known[d] <= rev[d] /\ known[d] \in Int
    BY DEF LspTyped, NoneAhead
  <2>2. CASE known' = known
    BY <2>1, <2>2
  <2>3. CASE Sends(t) /\ known' = [known EXCEPT ![t.doc] = t.what]
    <3>1. \A d \in Docs : known'[d] = IF d = t.doc THEN t.what ELSE known[d]
      BY <2>3, <1>6 DEF LspTyped
    <3> QED  BY <2>1, <2>3, <3>1, <1>6, <1>7
  <2> QED  BY <1>2, <2>2, <2>3 DEF Ran
<1>11. NoneAhead'
  BY <1>1, <1>5, <1>10 DEF NoneAhead
<1>12. InLine'
  <2> SUFFICES ASSUME ~overtaken
               PROVE  /\ \A i \in 1..Len(Pipe') : Sends(Pipe'[i]) => known'[Pipe'[i].doc] <= Pipe'[i].what
                      /\ \A i, j \in 1..Len(Pipe') :
                           i < j /\ Sends(Pipe'[i]) /\ Sends(Pipe'[j]) /\ Pipe'[i].doc = Pipe'[j].doc
                             => Pipe'[i].what <= Pipe'[j].what
    BY <1>1 DEF InLine
  <2>1. ASSUME NEW i \in 1..Len(Pipe'), Sends(Pipe'[i]) PROVE known'[Pipe'[i].doc] <= Pipe'[i].what
    <3>1. known[Pipe'[i].doc] <= Pipe'[i].what /\ Pipe'[i].doc \in Docs
      BY <2>1, <1>5, <1>6 DEF InLine
    <3>2. Sends(t) /\ t.doc = Pipe'[i].doc => t.what <= Pipe'[i].what
      BY <2>1, <1>3, <1>5 DEF InLine
    <3> QED  BY <3>1, <3>2, <1>2, <1>6 DEF Ran, LspTyped
  <2>2. ASSUME NEW i \in 1..Len(Pipe'), NEW j \in 1..Len(Pipe'), i < j,
               Sends(Pipe'[i]), Sends(Pipe'[j]), Pipe'[i].doc = Pipe'[j].doc
        PROVE  Pipe'[i].what <= Pipe'[j].what
    BY <2>2, <1>5 DEF InLine
  <2> QED  BY <2>1, <2>2
<1> QED
  BY <1>9, <1>10, <1>11, <1>12

-----------------------------------------------------------------------------
\* What a turn of the event loop spawns for the document in focus (FlushSends).
LEMMA FlushSpawns ==
  ASSUME focus' \in Docs, rev' \in [Docs -> Nat], Flush
  PROVE  \/ UNCHANGED spawned
         \/ \E t \in Tasks : /\ spawned' = Append(spawned, t)
                             /\ Sends(t) => t.what = rev'[t.doc]
<1>1. CASE FlushSends
  <2>1. spawned' = Append(spawned, Task("change", focus', rev'[focus']))
    BY <1>1 DEF FlushSends, Spawn
  <2>2. Task("change", focus', rev'[focus']) \in Tasks
    BY DEF Task, Tasks
  <2> QED  BY <2>1, <2>2 DEF Task
<1>2. CASE NoTask
  BY <1>2 DEF NoTask
<1> QED
  BY <1>1, <1>2 DEF Flush

\* Every step keeps the texts in line.
LEMMA StepInLine ==
  LspInv /\ [Next]_vars => LspInv' /\ (overtaken' \/ \A d \in Docs : known'[d] >= known[d])
<1> SUFFICES ASSUME LspInv, [Next]_vars
             PROVE  LspInv' /\ (overtaken' \/ \A d \in Docs : known'[d] >= known[d])
  OBVIOUS
<1>0. /\ rev \in [Docs -> Nat] /\ opened \in Docs /\ focus \in 1..opened
      /\ focus \in Docs /\ MaxDocs \in Nat /\ \A d \in Docs : known[d] \in Int
  <2>1. MaxDocs \in Nat
    BY LspAssumption
  <2>2. rev \in [Docs -> Nat] /\ opened \in Docs /\ focus \in 1..opened
    BY DEF LspInv, LspTyped
  <2>3. focus \in Docs
    BY <2>1, <2>2 DEF Docs
  <2>4. \A d \in Docs : known[d] \in Int
    BY DEF LspInv, LspTyped
  <2> QED  BY <2>1, <2>2, <2>3, <2>4
<1>a. \A d \in Docs : rev[d] <= rev[d]
  BY <1>0
<1>b. known' = known => \A d \in Docs : known'[d] >= known[d]
  BY <1>0
<1>1. CASE Tick
  <2>1. UNCHANGED <<rev, opened, focus, known, lock, overtaken>> /\ Flush
    BY <1>1 DEF Tick, remote
  <2>2. LspInv'
    BY <2>1, <1>0, <1>a, FlushSpawns, TurnInLine
  <2> QED  BY <2>1, <2>2, <1>b
<1>2. CASE Edit
  <2>1. /\ UNCHANGED <<opened, focus, known, lock, overtaken>> /\ Flush
        /\ rev' = [rev EXCEPT ![focus] = @ + 1]
    BY <1>2 DEF Edit, remote
  <2>2. /\ rev' \in [Docs -> Nat]
        /\ \A d \in Docs : rev[d] <= rev'[d] /\ (d > opened => rev'[d] = rev[d])
    BY <2>1, <1>0 DEF Docs
  <2>3. LspInv'
    BY <2>1, <2>2, <1>0, FlushSpawns, TurnInLine
  <2> QED  BY <2>1, <2>3, <1>b
<1>3. CASE Switch
  <2>1. UNCHANGED <<rev, opened, known, lock, overtaken>> /\ Flush /\ focus' \in 1..opened
    BY <1>3 DEF Switch, remote
  <2>2. focus' \in Docs
    BY <2>1, <1>0 DEF Docs
  <2>3. LspInv'
    BY <2>1, <2>2, <1>0, <1>a, FlushSpawns, TurnInLine
  <2> QED  BY <2>1, <2>3, <1>b
<1>4. CASE Open
  <2>1. /\ UNCHANGED <<rev, known, lock, overtaken>>
        /\ opened < MaxDocs /\ opened' = opened + 1 /\ focus' = opened'
        /\ spawned' = Append(spawned, Task("open", opened', 0))
    BY <1>4 DEF Open, remote, Spawn
  <2>2. opened' \in Docs /\ opened <= opened' /\ focus' \in 1..opened'
    BY <2>1, <1>0 DEF Docs
  <2>3. Task("open", opened', 0) \in Tasks
    BY <2>2 DEF Task, Tasks
  <2>4. Task("open", opened', 0).what = rev'[Task("open", opened', 0).doc]
    BY <2>1, <2>2, <1>0 DEF Task, LspInv, NoneAhead, Docs
  <2>5. LspInv'
    BY <2>1, <2>2, <2>3, <2>4, <1>0, <1>a, TurnInLine
  <2> QED  BY <2>1, <2>5, <1>b
<1>5. CASE Format
  <2>1. /\ UNCHANGED <<rev, opened, focus, known, lock, overtaken>>
        /\ spawned' = Append(spawned, Task("format", focus, Len(requests')))
        /\ requests' = Append(requests, Request)
    BY <1>5 DEF Format, Spawn
  <2>2. Len(requests') \in Nat
    BY <2>1
  <2>3. Task("format", focus, Len(requests')) \in Tasks /\ ~Sends(Task("format", focus, Len(requests')))
    BY <2>2, <1>0 DEF Task, Tasks, Sends
  <2>4. LspInv'
    BY <2>1, <2>3, <1>0, <1>a, TurnInLine
  <2> QED  BY <2>1, <2>4, <1>b
<1>6. CASE StartTask
  <2>1. PICK n \in DOMAIN spawned : Start(n)
    BY <1>6 DEF StartTask
  <2>2. known' = known
    BY <2>1 DEF Start
  <2> QED  BY <2>1, <2>2, <1>b, StartInLine
<1>7. CASE RunTask
  BY <1>7, RunInLine DEF RunTask
<1>8. CASE CollectTask \/ ServerAnswers \/ ServerExits \/ OtherMessage \/ UNCHANGED vars
  <2>1. UNCHANGED <<rev, opened, focus, known, lock, spawned, overtaken>>
    BY <1>8 DEF CollectTask, Register, TimeOut, Collect, ServerAnswers, Answer, Becomes,
                ServerExits, OtherMessage, vars, editor, remote
  <2>2. LspInv'
    BY <2>1, <1>0, <1>a, TurnInLine
  <2> QED  BY <2>1, <2>2, <1>b
<1>9. CASE Handle
  <2>1. UNCHANGED <<opened, focus, known, lock, overtaken>>
    BY <1>9 DEF Handle
  <2>2. rev' = rev \/ rev' = [rev EXCEPT ![focus] = @ + 1]
    BY <1>9 DEF Handle
  <2>3. Flush \/ UNCHANGED spawned
    BY <1>9 DEF Handle, NoTask
  <2>4. /\ rev' \in [Docs -> Nat]
        /\ \A d \in Docs : rev[d] <= rev'[d] /\ (d > opened => rev'[d] = rev[d])
    BY <2>2, <1>0, <1>a DEF Docs
  <2>5. LspInv'
    BY <2>1, <2>3, <2>4, <1>0, FlushSpawns, TurnInLine
  <2> QED  BY <2>1, <2>5, <1>b
<1> QED
  BY <1>1, <1>2, <1>3, <1>4, <1>5, <1>6, <1>7, <1>8, <1>9 DEF Next

\* The server follows the texts of every document in order, however many documents,
\* edits, requests and tasks there are, unless a task overtook another (the manager's
\* lock, did_open, did_change).
THEOREM ServerFollowsInOrder == Spec => ServerFollows
<1>1. LspInv /\ [Next]_vars
        => LspInv' /\ [overtaken' \/ \A d \in Docs : known'[d] >= known[d]]_vars
  BY StepInLine
<1> QED
  BY InitInLine, <1>1, PTL DEF Spec, ServerFollows

-----------------------------------------------------------------------------
\* The requests and what is on its way to the server, for the answers.
Left == {"sent", "waiting", "answered", "delivered", "timed out"}

Reqs == [doc : Docs, rev : Nat \cup {-1}, text : Int,
         stage : Left \cup {"asked", "dropped", "shown"}, answered : BOOLEAN]

AskTyped ==
  /\ sent \in [Docs -> Nat \cup {-1}]
  /\ requests \in Seq(Reqs)
  /\ server \in {"none", "up", "gone"} /\ failed \in BOOLEAN

\* No task was overtaken, and the server was started and has not gone.
Orderly == ~overtaken /\ ~failed /\ server # "gone"

\* When the task in place k of the pipe runs, the server has been told of document d ...
Told(d, k) ==
  \/ known[d] # -1
  \/ \E j \in 1..(k - 1) : Pipe[j].kind = "open" /\ Pipe[j].doc = d

\* ... and has been given its revision r or a later one.
Given(d, r, k) ==
  \/ known[d] >= r
  \/ \E j \in 1..(k - 1) : Pipe[j].kind = "change" /\ Pipe[j].doc = d /\ Pipe[j].what >= r

\* Every open document is opened at the server before its texts are sent.
DocsAreTold ==
  /\ \A d \in 1..opened : Told(d, Len(Pipe) + 1)
  /\ \A k \in 1..Len(Pipe) : Pipe[k].kind = "change" => Told(Pipe[k].doc, k)
  /\ \A d \in Docs : known[d] # -1 => server = "up"

\* A text the editor holds for sent reached the server, or is on its way.
SentArrives == \A d \in Docs : sent[d] # -1 => Given(d, sent[d], Len(Pipe) + 1)

\* The request sent by the task in place k finds exactly the text it was made for.
Meets(k) ==
  /\ Pipe[k].what \in 1..Len(requests)
  /\ LET d == Pipe[k].doc
         r == requests[Pipe[k].what].rev
     IN  r # -1 =>
           /\ Given(d, r, k) /\ known[d] <= r
           /\ \A j \in 1..(k - 1) : Sends(Pipe[j]) /\ Pipe[j].doc = d => Pipe[j].what <= r

RequestsMeet == \A k \in 1..Len(Pipe) : Pipe[k].kind = "format" => Meets(k)

\* A request that has left carries the text it was made for.
LeftMeet ==
  ~overtaken /\ ~failed =>
    \A i \in 1..Len(requests) :
      requests[i].stage \in Left /\ requests[i].rev # -1 => requests[i].text = requests[i].rev

AskInv ==
  /\ AskTyped
  /\ Orderly => DocsAreTold /\ SentArrives /\ RequestsMeet
  /\ LeftMeet

\* The requests stay what they were made for.
SameRequests ==
  /\ requests' \in Seq(Reqs)
  /\ \A i \in 1..Len(requests) : i \in 1..Len(requests') /\ requests'[i].rev = requests[i].rev

\* No request leaves, and none that left gets another text.
NoneLeaves ==
  \A i \in 1..Len(requests') :
    requests'[i].stage \in Left /\ requests'[i].rev # -1 =>
      /\ i \in 1..Len(requests) /\ requests[i].stage \in Left
      /\ requests'[i].rev = requests[i].rev /\ requests'[i].text = requests[i].text

\* At the start the first document is about to be opened, and nothing was asked.
LEMMA InitAsks == Init => AskInv
<1> SUFFICES ASSUME Init PROVE AskInv
  OBVIOUS
<1>1. AskTyped
  <2>1. requests = <<>> /\ server = "none" /\ failed = FALSE /\ sent = [d \in Docs |-> -1]
    BY DEF Init
  <2>2. sent \in [Docs -> Nat \cup {-1}]
    BY <2>1
  <2>3. requests \in Seq(Reqs)
    BY <2>1
  <2> QED  BY <2>1, <2>2, <2>3 DEF AskTyped
<1>2. LeftMeet
  BY DEF Init, LeftMeet
<1>3. Pipe = <<Task("open", 1, 0)>>
  <2>1. Pipe = <<>> \o <<Task("open", 1, 0)>>
    BY DEF Init, Pipe
  <2> QED  BY <2>1
<1>4. Len(Pipe) = 1 /\ Pipe[1].kind = "open" /\ Pipe[1].doc = 1
  BY <1>3 DEF Task
<1>5. opened = 1 /\ \A d \in Docs : known[d] = -1 /\ sent[d] = -1
  BY DEF Init
<1>6. \A d \in 1..opened : Told(d, Len(Pipe) + 1)
  BY <1>4, <1>5 DEF Told
<1>7. DocsAreTold
  BY <1>4, <1>5, <1>6 DEF DocsAreTold
<1>8. SentArrives
  BY <1>5 DEF SentArrives
<1>9. RequestsMeet
  BY <1>4 DEF RequestsMeet
<1> QED
  BY <1>1, <1>2, <1>7, <1>8, <1>9 DEF AskInv

\* What leaves the requests that left as they were keeps them right.
LEMMA LeftStay ==
  ASSUME LeftMeet, NoneLeaves, overtaken \/ failed => overtaken' \/ failed'
  PROVE  LeftMeet'
  BY DEF LeftMeet, NoneLeaves

\* A step that spawns nothing and sends nothing keeps all in order.
LEMMA PipeSame ==
  ASSUME DocsAreTold, SentArrives, RequestsMeet, SameRequests,
         Pipe' = Pipe, UNCHANGED <<known, server, sent, opened>>
  PROVE  DocsAreTold' /\ SentArrives' /\ RequestsMeet'
<1>4. DocsAreTold'
  BY DEF DocsAreTold, Told
<1>5. SentArrives'
  BY DEF SentArrives, Given
<1>6. RequestsMeet'
  <2> SUFFICES ASSUME NEW k \in 1..Len(Pipe), Pipe[k].kind = "format" PROVE Meets(k)'
    BY DEF RequestsMeet
  <2>1. Meets(k)
    BY DEF RequestsMeet
  <2>2. /\ Pipe[k].what \in 1..Len(requests')
        /\ requests'[Pipe[k].what].rev = requests[Pipe[k].what].rev
    BY <2>1 DEF SameRequests, Meets
  <2> QED  BY <2>1, <2>2 DEF Meets, Given
<1> QED
  BY <1>4, <1>5, <1>6

\* The event loop appends a task to the pipe: an opening, the newest text of an open
\* document, or a request for the text in focus.
LEMMA PipeGrows ==
  ASSUME LspInv, AskTyped, DocsAreTold, SentArrives, RequestsMeet, SameRequests,
         NEW t \in Tasks, Pipe' = Append(Pipe, t), UNCHANGED <<known, server>>,
         opened' = opened \/ (t.kind = "open" /\ t.doc = opened' /\ opened' = opened + 1),
         \A d \in Docs : \/ sent'[d] = sent[d]
                         \/ t.kind = "change" /\ t.doc = d /\ t.what = sent'[d],
         t.kind = "change" => t.doc \in 1..opened,
         t.kind = "format" =>
           /\ t.what \in 1..Len(requests')
           /\ requests'[t.what].rev # -1 =>
                requests'[t.what].rev = rev[t.doc] /\ sent[t.doc] = rev[t.doc]
  PROVE  DocsAreTold' /\ SentArrives' /\ RequestsMeet'
<1>0. Pipe \in Seq(Tasks)
  BY ConcatProperties DEF LspInv, LspTyped, Pipe
<1>1. PICK n \in Nat : n = Len(Pipe)
  BY <1>0
<1>2. /\ Len(Pipe') = n + 1 /\ Pipe'[n + 1] = t
      /\ \A i \in 1..n : Pipe'[i] = Pipe[i] /\ Pipe[i] \in Tasks
  BY <1>0, <1>1
<1>3. /\ t.doc \in Docs /\ t.what \in Nat
      /\ \A i \in 1..n : Pipe[i].doc \in Docs /\ Pipe[i].what \in Nat
  BY <1>2 DEF Tasks
<1>4. /\ rev \in [Docs -> Nat] /\ opened \in Docs /\ Docs \subseteq Nat
      /\ known \in [Docs -> Nat \cup {-1}] /\ sent \in [Docs -> Nat \cup {-1}]
  BY LspAssumption DEF LspInv, LspTyped, AskTyped, Docs
<1>5. ASSUME NEW d, NEW k \in 1..(n + 1), NEW m \in 1..(n + 2), k <= m, Told(d, k)
      PROVE  Told(d, m)'
  BY <1>1, <1>2, <1>5 DEF Told
<1>6. ASSUME NEW d, NEW r, NEW k \in 1..(n + 1), NEW m \in 1..(n + 2), k <= m, Given(d, r, k)
      PROVE  Given(d, r, m)'
  BY <1>1, <1>2, <1>6 DEF Given
<1>7. DocsAreTold'
  <2>1. ASSUME NEW d \in 1..opened' PROVE Told(d, n + 2)'
    <3>1. CASE d \in 1..opened
      <4>1. Told(d, n + 1)
        BY <3>1, <1>1 DEF DocsAreTold
      <4> QED  BY <1>1, <4>1, <1>5
    <3>2. CASE d \notin 1..opened
      <4>1. t.kind = "open" /\ t.doc = d
        BY <3>2, <1>4
      <4> QED  BY <4>1, <1>1, <1>2 DEF Told
    <3> QED  BY <3>1, <3>2
  <2>2. ASSUME NEW k \in 1..(n + 1), Pipe'[k].kind = "change" PROVE Told(Pipe[k].doc, k)'
    <3>1. CASE k \in 1..n
      <4>1. Pipe'[k] = Pipe[k] /\ Told(Pipe[k].doc, k)
        BY <2>2, <3>1, <1>1, <1>2 DEF DocsAreTold
      <4> QED  BY <4>1, <3>1, <1>1, <1>2 DEF Told
    <3>2. CASE k = n + 1
      <4>1. Pipe'[k] = t /\ t.doc \in 1..opened
        BY <2>2, <3>2, <1>2
      <4>2. Told(t.doc, n + 1)
        BY <4>1, <1>1 DEF DocsAreTold
      <4> QED  BY <4>1, <4>2, <3>2, <1>1, <1>2 DEF Told
    <3> QED  BY <3>1, <3>2, <1>1
  <2>3. n + 1 + 1 = n + 2
    BY <1>1
  <2> QED  BY <2>1, <2>2, <2>3, <1>2 DEF DocsAreTold
<1>8. SentArrives'
  <2> SUFFICES ASSUME NEW d \in Docs, sent'[d] # -1 PROVE Given(d, sent[d], n + 2)'
    <3>1. n + 1 + 1 = n + 2
      BY <1>1
    <3> QED  BY <3>1, <1>2 DEF SentArrives
  <2>1. CASE sent'[d] = sent[d]
    <3>1. Given(d, sent[d], n + 1)
      BY <2>1, <1>1 DEF SentArrives
    <3> QED  BY <3>1, <2>1, <1>1, <1>2 DEF Given
  <2>2. CASE t.kind = "change" /\ t.doc = d /\ t.what = sent'[d]
    BY <2>2, <1>1, <1>2, <1>3 DEF Given
  <2> QED  BY <2>1, <2>2
<1>9. RequestsMeet'
  <2> SUFFICES ASSUME NEW k \in 1..(n + 1), Pipe'[k].kind = "format" PROVE Meets(k)'
    BY <1>2 DEF RequestsMeet
  <2>1. CASE k \in 1..n
    <3>1. Meets(k) /\ Pipe'[k] = Pipe[k]
      BY <2>1, <1>1, <1>2 DEF RequestsMeet
    <3>2. /\ Pipe[k].what \in 1..Len(requests')
          /\ requests'[Pipe[k].what].rev = requests[Pipe[k].what].rev
      BY <3>1 DEF SameRequests, Meets
    <3>3. \A j \in 1..(k - 1) : Pipe'[j] = Pipe[j]
      BY <2>1, <1>1, <1>2
    <3> QED  BY <3>1, <3>2, <3>3 DEF Meets, Given
  <2>2. CASE k = n + 1
    <3>1. Pipe'[k] = t /\ \A j \in 1..(k - 1) : j \in 1..n /\ Pipe'[j] = Pipe[j]
      BY <2>2, <1>1, <1>2
    <3>2. CASE requests'[t.what].rev = -1
      BY <2>2, <3>1, <3>2 DEF Meets
    <3>3. CASE requests'[t.what].rev # -1
      <4>0. PICK r \in Nat : r = rev[t.doc]
        BY <1>3, <1>4
      <4>1. /\ requests'[t.what].rev = r /\ sent[t.doc] = r
            /\ t.what \in 1..Len(requests') /\ r # -1
        BY <2>2, <3>1, <3>3, <4>0
      <4>2. Given(t.doc, r, n + 1)
        BY <4>1, <1>1, <1>3 DEF SentArrives
      <4>3. Given(t.doc, r, k)'
        BY <4>1, <4>2, <2>2, <3>1 DEF Given
      <4>4. /\ known[t.doc] <= r
            /\ \A j \in 1..n : Sends(Pipe[j]) => Pipe[j].what <= rev[Pipe[j].doc]
        BY <1>1, <1>3, <4>0 DEF LspInv, NoneAhead
      <4>5. ASSUME NEW j \in 1..(k - 1), Sends(Pipe'[j]), Pipe'[j].doc = t.doc
            PROVE  Pipe'[j].what <= r
        BY <3>1, <4>0, <4>4, <4>5
      <4>6. known'[t.doc] <= r
        BY <4>4
      <4> QED  BY <3>1, <4>1, <4>3, <4>5, <4>6 DEF Meets, Given
    <3> QED  BY <3>2, <3>3
  <2> QED  BY <2>1, <2>2, <1>1
<1> QED
  BY <1>7, <1>8, <1>9

\* The task at the lock runs: a change finds its document open at the server, and a
\* request leaves with the text it was made for (RunOpen, RunChange, RunFormat).
LEMMA RunMeets ==
  ASSUME LspInv, AskInv, RunTask
  PROVE  AskInv'
<1>1. /\ lock # <<>> /\ lock' = Tail(lock)
      /\ UNCHANGED <<opened, sent, spawned, overtaken>>
  BY DEF RunTask, editor
<1>2. Pipe' = Tail(Pipe) /\ Head(lock) = Pipe[1] /\ Pipe # <<>> /\ Head(lock) \in Tasks
  BY <1>1, LockIsFirst DEF Pipe, LspInv, LspTyped
<1>3. PICK t \in Tasks : t = Pipe[1] /\ (RunOpen(t) \/ RunChange(t) \/ RunFormat(t))
  BY <1>2 DEF RunTask
<1>4. Pipe \in Seq(Tasks)
  BY ConcatProperties DEF Pipe, LspInv, LspTyped
<1>5. PICK n \in Nat : n = Len(Pipe')
  BY <1>2, <1>4
<1>6. /\ Len(Pipe) = n + 1
      /\ \A i \in 1..n : Pipe'[i] = Pipe[i + 1]
      /\ \A i \in 1..(n + 1) : Pipe[i].doc \in Docs /\ Pipe[i].what \in Nat
      /\ \A i \in 1..(n + 1) : Pipe[i].kind \in {"open", "change", "format"}
  <2>1. Len(Pipe) = n + 1 /\ \A i \in 1..n : Pipe'[i] = Pipe[i + 1]
    BY <1>2, <1>4, <1>5
  <2>2. \A i \in 1..(n + 1) : Pipe[i] \in Tasks
    BY <1>4, <2>1
  <2> QED  BY <2>1, <2>2 DEF Tasks
<1>7. t.doc \in Docs /\ t.what \in Nat /\ t.kind \in {"open", "change", "format"}
  BY DEF Tasks
<1>8. /\ known \in [Docs -> Nat \cup {-1}] /\ sent \in [Docs -> Nat \cup {-1}]
      /\ requests \in Seq(Reqs) /\ opened \in Docs /\ 1..opened \subseteq Docs
      /\ server \in {"none", "up", "gone"} /\ failed \in BOOLEAN /\ overtaken \in BOOLEAN
  BY LspAssumption DEF LspInv, LspTyped, AskInv, AskTyped, Docs
<1>9. /\ SameRequests /\ Len(requests') = Len(requests)
      /\ ~RunFormat(t) => requests' = requests
      /\ RunFormat(t) => \A i \in 1..Len(requests) :
           requests'[i] = IF i = t.what
             THEN [requests[i] EXCEPT !.stage = IF server = "up" THEN "sent" ELSE "dropped",
                                      !.text = known[t.doc]]
             ELSE requests[i]
  <2>1. CASE RunFormat(t)
    <3>1. PICK out \in {"sent", "dropped"} : out = IF server = "up" THEN "sent" ELSE "dropped"
      OBVIOUS
    <3>2. PICK text \in Int : text = known[t.doc]
      BY <1>7, <1>8
    <3>3. /\ requests' = [requests EXCEPT ![t.what].stage = out, ![t.what].text = text]
          /\ \A i \in 1..Len(requests) : requests[i] \in Reqs
      BY <2>1, <3>1, <3>2, <1>8 DEF RunFormat
    <3>4. /\ DOMAIN requests' = 1..Len(requests)
          /\ \A i \in 1..Len(requests) :
               requests'[i] = IF i = t.what THEN [requests[i] EXCEPT !.stage = out, !.text = text]
                                            ELSE requests[i]
      <4>1. DOMAIN requests = 1..Len(requests)
        BY <1>8
      <4>2. DOMAIN requests' = DOMAIN requests
        BY <3>3
      <4>3. ASSUME NEW i \in 1..Len(requests), i # t.what PROVE requests'[i] = requests[i]
        BY <3>3, <4>1, <4>3
      <4>4. ASSUME NEW i \in 1..Len(requests), i = t.what
            PROVE  requests'[i] = [requests[i] EXCEPT !.stage = out, !.text = text]
        <5>1. requests[i] = [doc |-> requests[i].doc, rev |-> requests[i].rev,
                             text |-> requests[i].text, stage |-> requests[i].stage,
                             answered |-> requests[i].answered]
          BY <3>3 DEF Reqs
        <5> QED  BY <3>3, <4>1, <4>4, <5>1
      <4> QED  BY <4>1, <4>2, <4>3, <4>4
    <3>5. ASSUME NEW i \in 1..Len(requests)
          PROVE  requests'[i] \in Reqs /\ requests'[i].rev = requests[i].rev
      <4>1. out \in Left \cup {"asked", "dropped", "shown"}
        BY DEF Left
      <4>2. requests[i] \in Reqs
        BY <3>3
      <4>3. [requests[i] EXCEPT !.stage = out, !.text = text] \in Reqs
        BY <4>1, <4>2 DEF Reqs
      <4>4. [requests[i] EXCEPT !.stage = out, !.text = text].rev = requests[i].rev
        BY <4>2 DEF Reqs
      <4> QED  BY <3>4, <4>2, <4>3, <4>4
    <3>6. requests' \in Seq(Reqs) /\ Len(requests') = Len(requests)
      <4>1. Len(requests) \in Nat
        BY <1>8
      <4>2. requests' = [i \in 1..Len(requests) |-> requests'[i]]
        BY <3>3, <3>4, <1>8
      <4> QED  BY <4>1, <4>2, <3>5
    <3> QED  BY <2>1, <3>1, <3>2, <3>4, <3>5, <3>6 DEF SameRequests
  <2>2. CASE ~RunFormat(t)
    <3>1. requests' = requests
      BY <1>3, <2>2 DEF RunOpen, RunChange
    <3> QED  BY <3>1, <2>2, <1>8 DEF SameRequests
  <2> QED  BY <2>1, <2>2
<1>10. AskTyped'
  <2>1. server' \in {"none", "up", "gone"} /\ failed' \in BOOLEAN
    BY <1>3, <1>8 DEF RunOpen, RunChange, RunFormat
  <2> QED  BY <2>1, <1>1, <1>8, <1>9 DEF AskTyped, SameRequests
<1>11. Orderly' =>
         /\ Orderly
         /\ Sends(t) => server' = "up" /\ known' = [known EXCEPT ![t.doc] = t.what]
         /\ ~Sends(t) => UNCHANGED <<known, server>>
  <2> SUFFICES ASSUME Orderly'
               PROVE  /\ Orderly
                      /\ Sends(t) => server' = "up" /\ known' = [known EXCEPT ![t.doc] = t.what]
                      /\ ~Sends(t) => UNCHANGED <<known, server>>
    OBVIOUS
  <2>1. CASE RunOpen(t)
    BY <2>1, <1>1, <1>8 DEF RunOpen, Orderly, Sends
  <2>2. CASE RunChange(t)
    <3>1. Orderly
      BY <2>2, <1>1 DEF RunChange, Orderly
    <3>2. Told(t.doc, 1)
      <4>1. 1 \in 1..Len(Pipe) /\ Pipe[1].kind = "change"
        BY <2>2, <1>3, <1>6 DEF RunChange
      <4> QED  BY <4>1, <3>1, <1>3 DEF AskInv, DocsAreTold
    <3>3. known[t.doc] # -1
      BY <3>2 DEF Told
    <3>4. server = "up"
      BY <3>1, <3>3, <1>7 DEF AskInv, DocsAreTold
    <3> QED  BY <2>2, <3>1, <3>3, <3>4 DEF RunChange, Sends
  <2>3. CASE RunFormat(t)
    BY <2>3, <1>1 DEF RunFormat, Orderly, Sends
  <2> QED  BY <2>1, <2>2, <2>3, <1>3
<1>12. ASSUME Orderly' PROVE DocsAreTold' /\ SentArrives' /\ RequestsMeet'
  <2>0. ~overtaken /\ DocsAreTold /\ SentArrives /\ RequestsMeet
    BY <1>11, <1>12 DEF AskInv, Orderly
  <2>1. \A d \in Docs : known'[d] = IF Sends(t) /\ d = t.doc THEN t.what ELSE known[d]
    BY <1>7, <1>8, <1>11, <1>12
  <2>2. \A d \in Docs : known'[d] >= known[d] /\ known[d] \in Int /\ known'[d] \in Int
    BY <2>0, <2>1, <1>7, <1>8, RunInLine
  <2>3. ASSUME NEW d \in Docs, NEW k \in 1..(n + 1), Told(d, k + 1) PROVE Told(d, k)'
    <3>1. CASE known[d] # -1
      <4>1. known'[d] # -1
        BY <3>1, <2>1, <1>7
      <4> QED  BY <4>1 DEF Told
    <3>2. CASE Pipe[1].kind = "open" /\ Pipe[1].doc = d
      <4>1. known'[d] # -1
        BY <3>2, <2>1, <1>3, <1>7 DEF Sends
      <4> QED  BY <4>1 DEF Told
    <3>3. CASE \E j \in 2..k : Pipe[j].kind = "open" /\ Pipe[j].doc = d
      <4>1. PICK j \in 2..k : Pipe[j].kind = "open" /\ Pipe[j].doc = d
        BY <3>3
      <4>2. j - 1 \in 1..(k - 1) /\ Pipe'[j - 1] = Pipe[j]
        BY <1>6
      <4> QED  BY <4>1, <4>2 DEF Told
    <3>4. k + 1 - 1 = k /\ \A j \in 1..k : j = 1 \/ j \in 2..k
      OBVIOUS
    <3> QED  BY <2>3, <3>1, <3>2, <3>3, <3>4 DEF Told
  <2>4. ASSUME NEW d \in Docs, NEW r \in Int, NEW k \in 1..(n + 1), Given(d, r, k + 1)
        PROVE  Given(d, r, k)'
    <3>1. CASE known[d] >= r
      <4>1. known'[d] >= r
        BY <3>1, <2>2
      <4> QED  BY <4>1 DEF Given
    <3>2. CASE Pipe[1].kind = "change" /\ Pipe[1].doc = d /\ Pipe[1].what >= r
      <4>1. known'[d] >= r
        BY <3>2, <2>1, <1>3, <1>7 DEF Sends
      <4> QED  BY <4>1 DEF Given
    <3>3. CASE \E j \in 2..k : Pipe[j].kind = "change" /\ Pipe[j].doc = d /\ Pipe[j].what >= r
      <4>1. PICK j \in 2..k : Pipe[j].kind = "change" /\ Pipe[j].doc = d /\ Pipe[j].what >= r
        BY <3>3
      <4>2. j - 1 \in 1..(k - 1) /\ Pipe'[j - 1] = Pipe[j]
        BY <1>6
      <4> QED  BY <4>1, <4>2 DEF Given
    <3>4. k + 1 - 1 = k /\ \A j \in 1..k : j = 1 \/ j \in 2..k
      OBVIOUS
    <3> QED  BY <2>4, <3>1, <3>2, <3>3, <3>4 DEF Given
  <2>5. n + 1 \in 1..(n + 1) /\ Len(Pipe) + 1 = n + 1 + 1
    BY <1>6
  <2>6. DocsAreTold'
    <3>1. ASSUME NEW d \in 1..opened PROVE Told(d, n + 1)'
      <4>1. d \in Docs /\ Told(d, n + 1 + 1)
        BY <2>0, <2>5, <1>8 DEF DocsAreTold
      <4> QED  BY <4>1, <2>3, <2>5
    <3>2. ASSUME NEW k \in 1..n, Pipe'[k].kind = "change" PROVE Told(Pipe[k].doc, k)'
      <4>1. k + 1 \in 1..(n + 1) /\ Pipe'[k] = Pipe[k + 1]
        BY <1>6
      <4>2. PICK d \in Docs : d = Pipe[k + 1].doc
        BY <4>1, <1>6
      <4>3. Told(d, k + 1)
        BY <2>0, <3>2, <4>1, <4>2, <1>6 DEF DocsAreTold
      <4>4. Told(d, k)'
        BY <4>3, <2>3
      <4> QED  BY <4>1, <4>2, <4>4 DEF Told
    <3>3. ASSUME NEW d \in Docs, known'[d] # -1 PROVE server' = "up"
      BY <3>3, <2>0, <2>1, <1>11, <1>12 DEF DocsAreTold
    <3> QED  BY <3>1, <3>2, <3>3, <1>1, <1>5 DEF DocsAreTold
  <2>7. SentArrives'
    <3> SUFFICES ASSUME NEW d \in Docs, sent[d] # -1 PROVE Given(d, sent[d], n + 1)'
      BY <1>1, <1>5 DEF SentArrives
    <3>1. PICK r \in Int : r = sent[d]
      BY <1>8
    <3>2. Given(d, r, n + 1 + 1)
      BY <3>1, <2>0, <2>5 DEF SentArrives
    <3>3. Given(d, r, n + 1)'
      BY <3>2, <2>4, <2>5
    <3> QED  BY <3>1, <3>3, <1>1 DEF Given
  <2>8. RequestsMeet'
    <3> SUFFICES ASSUME NEW k \in 1..n, Pipe'[k].kind = "format" PROVE Meets(k)'
      BY <1>5 DEF RequestsMeet
    <3>1. k + 1 \in 1..(n + 1) /\ Pipe'[k] = Pipe[k + 1]
      BY <1>6
    <3>2. Meets(k + 1)
      BY <2>0, <3>1, <1>6 DEF RequestsMeet
    <3>3. PICK d \in Docs : d = Pipe[k + 1].doc
      BY <3>1, <1>6
    <3>4. PICK w \in Nat : w = Pipe[k + 1].what
      BY <3>1, <1>6
    <3>5. w \in 1..Len(requests) /\ w \in 1..Len(requests') /\ requests'[w].rev = requests[w].rev
      BY <3>2, <3>4, <1>9 DEF Meets, SameRequests
    <3>6. PICK r \in Int : r = requests[w].rev
      <4>1. requests[w] \in Reqs
        BY <3>5, <1>8
      <4> QED  BY <4>1 DEF Reqs
    <3>7. CASE r = -1
      BY <3>1, <3>4, <3>5, <3>6, <3>7 DEF Meets
    <3>8. CASE r # -1
      <4>1. /\ Given(d, r, k + 1) /\ known[d] <= r
            /\ \A j \in 1..k : Sends(Pipe[j]) /\ Pipe[j].doc = d => Pipe[j].what <= r
        <5>1. k + 1 - 1 = k
          OBVIOUS
        <5> QED  BY <5>1, <3>2, <3>3, <3>4, <3>6, <3>8 DEF Meets
      <4>2. Given(d, r, k)'
        BY <4>1, <2>4
      <4>3. known'[d] <= r
        BY <4>1, <2>1, <1>3, <1>7
      <4>4. ASSUME NEW j \in 1..(k - 1), Sends(Pipe'[j]), Pipe'[j].doc = d PROVE Pipe'[j].what <= r
        <5>1. j + 1 \in 1..k /\ Pipe'[j] = Pipe[j + 1]
          BY <1>6
        <5> QED  BY <5>1, <4>1, <4>4
      <4> QED  BY <3>1, <3>3, <3>4, <3>5, <3>6, <4>2, <4>3, <4>4 DEF Meets, Given
    <3> QED  BY <3>7, <3>8
  <2> QED  BY <2>6, <2>7, <2>8
<1>13. LeftMeet'
  <2> SUFFICES ASSUME ~overtaken, ~failed', NEW i \in 1..Len(requests),
                      requests'[i].stage \in Left, requests'[i].rev # -1
               PROVE  requests'[i].text = requests'[i].rev
    BY <1>1, <1>9 DEF LeftMeet
  <2>1. ~failed
    BY <1>3, <1>8 DEF RunOpen, RunChange, RunFormat
  <2>2. CASE requests'[i] = requests[i]
    BY <2>1, <2>2 DEF AskInv, LeftMeet
  <2>3. CASE RunFormat(t) /\ i = t.what
    <3>1. requests[i] \in Reqs
      BY <1>8
    <3>2. /\ requests'[i].stage = (IF server = "up" THEN "sent" ELSE "dropped")
          /\ requests'[i].text = known[t.doc] /\ requests'[i].rev = requests[i].rev
      BY <2>3, <3>1, <1>9 DEF Reqs
    <3>3. server = "up"
      BY <3>2 DEF Left
    <3>4. Meets(1)
      <4>1. Orderly
        BY <2>1, <3>3 DEF Orderly
      <4>2. 1 \in 1..Len(Pipe) /\ Pipe[1].kind = "format"
        BY <2>3, <1>3, <1>6 DEF RunFormat
      <4> QED  BY <4>1, <4>2 DEF AskInv, RequestsMeet
    <3>5. Given(t.doc, requests[i].rev, 1) /\ known[t.doc] <= requests[i].rev
      BY <2>3, <3>2, <3>4, <1>3 DEF Meets
    <3>6. known[t.doc] >= requests[i].rev
      BY <3>5 DEF Given
    <3>7. requests[i].rev \in Int /\ known[t.doc] \in Int
      BY <3>1, <1>7, <1>8 DEF Reqs
    <3> QED  BY <3>2, <3>5, <3>6, <3>7
  <2> QED  BY <2>2, <2>3, <1>9
<1> QED
  BY <1>10, <1>12, <1>13 DEF AskInv

\* A request may change its stage, not what it was made for nor the text it carries.
LEMMA RequestBecomes ==
  ASSUME requests \in Seq(Reqs), NEW i, NEW q,
         requests' = [requests EXCEPT ![i] = q],
         i \in 1..Len(requests) =>
           /\ q \in Reqs /\ q.rev = requests[i].rev /\ q.text = requests[i].text
           /\ q.stage \in Left => requests[i].stage \in Left
  PROVE  SameRequests /\ NoneLeaves
<1>1. Len(requests) \in Nat /\ DOMAIN requests' = 1..Len(requests)
  OBVIOUS
<1>2. \A k \in 1..Len(requests) : requests'[k] = IF k = i THEN q ELSE requests[k]
  OBVIOUS
<1>3. \A k \in 1..Len(requests) : requests'[k] \in Reqs /\ requests[k] \in Reqs
  BY <1>2
<1>4. requests' \in Seq(Reqs) /\ Len(requests') = Len(requests)
  <2>1. PICK n \in Nat : n = Len(requests)
    BY <1>1
  <2>2. requests' = [k \in 1..n |-> requests'[k]]
    BY <1>1, <2>1
  <2>3. requests' \in [1..n -> Reqs]
    BY <1>3, <2>1, <2>2
  <2> QED  BY <2>1, <2>3
<1> QED
  BY <1>2, <1>3, <1>4 DEF SameRequests, NoneLeaves

\* A turn of the event loop that opens and asks nothing may send the text in focus (Flush).
LEMMA TurnMeets ==
  ASSUME LspInv, AskInv, SameRequests, NoneLeaves,
         UNCHANGED <<opened, known, lock, server, failed, overtaken>>,
         focus' \in 1..opened, rev' \in [Docs -> Nat],
         Flush \/ UNCHANGED <<sent, spawned>>
  PROVE  AskInv'
<1>1. LeftMeet'
  BY LeftStay DEF AskInv
<1>2. 1..opened \subseteq Docs /\ sent \in [Docs -> Nat \cup {-1}]
  BY LspAssumption DEF LspInv, LspTyped, AskInv, AskTyped, Docs
<1>3. PICK r \in Nat : r = rev'[focus']
  BY <1>2
<1>4. CASE UNCHANGED <<sent, spawned>>
  <2>1. AskTyped'
    BY <1>4 DEF AskInv, AskTyped, SameRequests
  <2>2. Pipe' = Pipe
    BY <1>4 DEF Pipe
  <2>3. Orderly' = Orderly
    BY DEF Orderly
  <2>4. Orderly => DocsAreTold' /\ SentArrives' /\ RequestsMeet'
    BY <1>4, <2>2, PipeSame DEF AskInv
  <2> QED  BY <1>1, <2>1, <2>3, <2>4 DEF AskInv
<1>5. CASE FlushSends
  <2>1. /\ sent' = [sent EXCEPT ![focus'] = r]
        /\ spawned' = Append(spawned, Task("change", focus', r))
    BY <1>3, <1>5 DEF FlushSends, Spawn
  <2>2. PICK t \in Tasks : t = Task("change", focus', r)
    BY <1>2 DEF Task, Tasks
  <2>3. t.kind = "change" /\ t.doc = focus' /\ t.what = r
    BY <2>2 DEF Task
  <2>4. /\ sent' \in [Docs -> Nat \cup {-1}]
        /\ \A d \in Docs : sent'[d] = IF d = t.doc THEN t.what ELSE sent[d]
    BY <1>2, <2>1, <2>3
  <2>5. AskTyped'
    BY <2>4 DEF AskInv, AskTyped, SameRequests
  <2>6. Pipe' = Append(Pipe, t)
    <3>1. lock \in Seq(Tasks) /\ spawned \in Seq(Tasks) /\ spawned' = Append(spawned, t)
      BY <2>1, <2>2 DEF LspInv, LspTyped
    <3> QED  BY <3>1, SpawnIsLast DEF Pipe
  <2>7. Orderly' = Orderly
    BY DEF Orderly
  <2>8. Orderly => DocsAreTold' /\ SentArrives' /\ RequestsMeet'
    <3> SUFFICES ASSUME Orderly PROVE DocsAreTold' /\ SentArrives' /\ RequestsMeet'
      OBVIOUS
    <3>1. AskTyped /\ DocsAreTold /\ SentArrives /\ RequestsMeet
      BY DEF AskInv
    <3>2. \A d \in Docs : \/ sent'[d] = sent[d]
                          \/ t.kind = "change" /\ t.doc = d /\ t.what = sent'[d]
      BY <2>3, <2>4
    <3>3. t.doc \in 1..opened /\ t.kind # "format"
      BY <2>3
    <3> QED  BY <2>6, <3>1, <3>2, <3>3, PipeGrows
  <2> QED  BY <1>1, <2>5, <2>7, <2>8 DEF AskInv
<1>6. CASE FlushWaits /\ NoTask
  BY <1>4, <1>6 DEF FlushWaits, NoTask
<1> QED
  BY <1>4, <1>5, <1>6 DEF Flush

\* Opening a document sends its opening ahead of its texts (Open).
LEMMA OpenMeets ==
  ASSUME LspInv, AskInv, Open
  PROVE  AskInv'
<1>1. /\ UNCHANGED <<known, lock, server, failed, requests, overtaken, sent>>
      /\ opened < MaxDocs /\ opened' = opened + 1
      /\ spawned' = Append(spawned, Task("open", opened', 0))
  BY DEF Open, Spawn, FlushWaits, remote
<1>2. opened' \in Docs
  BY <1>1, LspAssumption DEF LspInv, LspTyped, Docs
<1>3. PICK t \in Tasks : t = Task("open", opened', 0)
  BY <1>2 DEF Task, Tasks
<1>4. t.kind = "open" /\ t.doc = opened'
  BY <1>3 DEF Task
<1>5. Pipe' = Append(Pipe, t)
  BY <1>1, <1>3, SpawnIsLast DEF Pipe, LspInv, LspTyped
<1>6. SameRequests /\ NoneLeaves /\ AskTyped'
  BY <1>1 DEF SameRequests, NoneLeaves, AskInv, AskTyped
<1>7. Orderly => DocsAreTold' /\ SentArrives' /\ RequestsMeet'
  <2> SUFFICES ASSUME Orderly PROVE DocsAreTold' /\ SentArrives' /\ RequestsMeet'
    OBVIOUS
  <2>1. AskTyped /\ DocsAreTold /\ SentArrives /\ RequestsMeet
    BY DEF AskInv
  <2>2. \A d \in Docs : sent'[d] = sent[d]
    BY <1>1
  <2> QED  BY <1>1, <1>4, <1>5, <1>6, <2>1, <2>2, PipeGrows
<1> QED
  BY <1>1, <1>6, <1>7, LeftStay DEF AskInv, Orderly

\* A request asked is made for the text in focus, if the editor holds it for sent (Format).
LEMMA FormatMeets ==
  ASSUME LspInv, AskInv, Format
  PROVE  AskInv'
<1>1. /\ UNCHANGED <<rev, opened, focus, known, lock, server, failed, overtaken, sent>>
      /\ requests' = Append(requests, Request)
      /\ spawned' = Append(spawned, Task("format", focus, Len(requests')))
  BY DEF Format, Spawn, FlushWaits
<1>2. /\ focus \in Docs /\ rev \in [Docs -> Nat] /\ requests \in Seq(Reqs)
      /\ sent \in [Docs -> Nat \cup {-1}]
  BY LspAssumption DEF LspInv, LspTyped, AskInv, AskTyped, Docs
<1>3. PICK n \in Nat : n = Len(requests)
  BY <1>2
<1>4. Request \in Reqs
  BY <1>2 DEF Request, Reqs
<1>5. /\ requests' \in Seq(Reqs) /\ Len(requests') = n + 1 /\ requests'[n + 1] = Request
      /\ \A i \in 1..n : requests'[i] = requests[i]
  BY <1>1, <1>2, <1>3, <1>4
<1>6. Request.stage \notin Left /\ (Request.rev # -1 => Request.rev = rev[focus] /\ sent[focus] = rev[focus])
  BY DEF Request, Left
<1>7. SameRequests /\ NoneLeaves
  <2>1. SameRequests
    BY <1>3, <1>5 DEF SameRequests
  <2>2. NoneLeaves
    BY <1>3, <1>5, <1>6 DEF NoneLeaves
  <2> QED  BY <2>1, <2>2
<1>8. PICK t \in Tasks : t = Task("format", focus, n + 1)
  <2>1. Task("format", focus, n + 1) \in Tasks
    BY <1>2 DEF Task, Tasks
  <2> QED  BY <2>1
<1>9. t.kind = "format" /\ t.doc = focus /\ t.what = n + 1
  BY <1>8 DEF Task
<1>10. Pipe' = Append(Pipe, t)
  BY <1>1, <1>5, <1>8, SpawnIsLast DEF Pipe, LspInv, LspTyped
<1>11. AskTyped'
  BY <1>1, <1>5 DEF AskInv, AskTyped
<1>12. Orderly => DocsAreTold' /\ SentArrives' /\ RequestsMeet'
  <2> SUFFICES ASSUME Orderly PROVE DocsAreTold' /\ SentArrives' /\ RequestsMeet'
    OBVIOUS
  <2>1. AskTyped /\ DocsAreTold /\ SentArrives /\ RequestsMeet
    BY DEF AskInv
  <2>2. \A d \in Docs : sent'[d] = sent[d]
    BY <1>1
  <2>3. /\ t.what \in 1..Len(requests')
        /\ requests'[t.what].rev # -1 =>
             requests'[t.what].rev = rev[t.doc] /\ sent[t.doc] = rev[t.doc]
    BY <1>5, <1>6, <1>9
  <2> QED  BY <1>1, <1>7, <1>9, <1>10, <2>1, <2>2, <2>3, PipeGrows
<1> QED
  BY <1>1, <1>7, <1>11, <1>12, LeftStay DEF AskInv, Orderly

\* Every step keeps the texts of the requests right.
LEMMA StepMeets == LspInv /\ AskInv /\ [Next]_vars => AskInv'
<1> SUFFICES ASSUME LspInv, AskInv, [Next]_vars PROVE AskInv'
  OBVIOUS
<1>0. /\ rev \in [Docs -> Nat] /\ focus \in 1..opened /\ requests \in Seq(Reqs)
      /\ \A i \in 1..Len(requests) : requests[i] \in Reqs
      /\ focus \in Docs
  <2>1. /\ rev \in [Docs -> Nat] /\ focus \in 1..opened /\ requests \in Seq(Reqs)
        /\ \A i \in 1..Len(requests) : requests[i] \in Reqs
    BY DEF LspInv, LspTyped, AskInv, AskTyped
  <2>2. focus \in Docs
    BY <2>1, LspAssumption DEF LspInv, LspTyped, Docs
  <2> QED  BY <2>1, <2>2
<1>a. requests' = requests => SameRequests /\ NoneLeaves
  BY <1>0 DEF SameRequests, NoneLeaves
<1>1. CASE Tick
  <2>1. UNCHANGED <<rev, opened, focus, known, lock, server, failed, requests, overtaken>> /\ Flush
    BY <1>1 DEF Tick, remote
  <2> QED  BY <2>1, <1>0, <1>a, TurnMeets
<1>2. CASE Edit
  <2>1. /\ UNCHANGED <<opened, focus, known, lock, server, failed, requests, overtaken>> /\ Flush
        /\ rev' = [rev EXCEPT ![focus] = @ + 1]
    BY <1>2 DEF Edit, remote
  <2>2. rev' \in [Docs -> Nat]
    BY <2>1, <1>0
  <2> QED  BY <2>1, <2>2, <1>0, <1>a, TurnMeets
<1>3. CASE Switch
  <2>1. /\ UNCHANGED <<rev, opened, known, lock, server, failed, requests, overtaken>> /\ Flush
        /\ focus' \in 1..opened
    BY <1>3 DEF Switch, remote
  <2> QED  BY <2>1, <1>0, <1>a, TurnMeets
<1>4. CASE Open
  BY <1>4, OpenMeets
<1>5. CASE Format
  BY <1>5, FormatMeets
<1>6. CASE StartTask
  <2>1. PICK n \in DOMAIN spawned : Start(n)
    BY <1>6 DEF StartTask
  <2>2. /\ spawned' = RemoveAt(spawned, n) /\ lock' = Append(lock, spawned[n])
        /\ overtaken' = (overtaken \/ n > 1)
        /\ UNCHANGED <<opened, sent, known, server, failed, requests>>
    BY <2>1 DEF Start, editor
  <2>3. AskTyped' /\ LeftMeet'
    BY <2>2, <1>a, LeftStay DEF AskInv, AskTyped
  <2>4. CASE n = 1
    <3>1. Pipe' = Pipe
      BY <2>2, <2>4, StartOldest DEF Pipe, LspInv, LspTyped
    <3>2. Orderly' => Orderly
      BY <2>2 DEF Orderly
    <3>3. Orderly => DocsAreTold' /\ SentArrives' /\ RequestsMeet'
      BY <2>2, <3>1, <1>a, PipeSame DEF AskInv
    <3> QED  BY <2>3, <3>2, <3>3 DEF AskInv
  <2>5. CASE n # 1
    <3>1. n > 1
      BY <2>5 DEF LspInv, LspTyped
    <3>2. ~Orderly'
      BY <2>2, <3>1 DEF Orderly
    <3> QED  BY <2>3, <3>2 DEF AskInv
  <2> QED  BY <2>4, <2>5
<1>7. CASE RunTask
  BY <1>7, RunMeets
<1>8. CASE CollectTask \/ ServerAnswers
  <2>1. PICK i \in DOMAIN requests : Register(i) \/ TimeOut(i) \/ Collect(i) \/ Answer(i)
    BY <1>8 DEF CollectTask, ServerAnswers
  <2>2. UNCHANGED <<rev, opened, focus, sent, known, lock, spawned, server, failed, overtaken>>
    BY <2>1 DEF Register, TimeOut, Collect, Answer, Becomes, editor
  <2>3. \E q : /\ requests' = [requests EXCEPT ![i] = q]
               /\ q \in Reqs /\ q.rev = requests[i].rev /\ q.text = requests[i].text
               /\ requests[i].stage \in Left
    <3>1. requests[i] \in Reqs
      BY <1>0
    <3>2. CASE Register(i)
      BY <3>1, <3>2 DEF Register, Becomes, Reqs, Left
    <3>3. CASE TimeOut(i)
      BY <3>1, <3>3 DEF TimeOut, Becomes, Reqs, Left
    <3>4. CASE Collect(i)
      BY <3>1, <3>4 DEF Collect, Becomes, Reqs, Left
    <3>5. CASE Answer(i)
      BY <3>1, <3>5 DEF Answer, Becomes, Reqs, Left
    <3> QED  BY <2>1, <3>2, <3>3, <3>4, <3>5
  <2>4. SameRequests /\ NoneLeaves
    BY <2>3, <1>0, RequestBecomes
  <2> QED  BY <2>2, <2>4, <1>0, TurnMeets
<1>9. CASE ServerExits
  <2>1. UNCHANGED <<sent, requests, failed, overtaken>> /\ server' = "gone"
    BY <1>9 DEF ServerExits, editor
  <2>2. AskTyped' /\ LeftMeet' /\ ~Orderly'
    BY <2>1, <1>a, LeftStay DEF AskInv, AskTyped, Orderly
  <2> QED  BY <2>2 DEF AskInv
<1>10. CASE OtherMessage \/ UNCHANGED vars
  <2>1. UNCHANGED <<rev, opened, focus, sent, known, lock, spawned, server, failed, requests, overtaken>>
    BY <1>10 DEF OtherMessage, vars, editor, remote
  <2> QED  BY <2>1, <1>0, <1>a, TurnMeets
<1>11. CASE Handle
  <2>1. UNCHANGED <<opened, focus, known, lock, server, failed, overtaken>>
    BY <1>11 DEF Handle
  <2>2. rev' = rev \/ rev' = [rev EXCEPT ![focus] = @ + 1]
    BY <1>11 DEF Handle
  <2>3. Flush \/ UNCHANGED <<sent, spawned>>
    BY <1>11 DEF Handle, NoTask
  <2>4. rev' \in [Docs -> Nat]
    BY <2>2, <1>0
  <2>5. SameRequests /\ NoneLeaves
    <3>1. CASE requests' = requests
      BY <3>1, <1>a
    <3>2. CASE requests' = [requests EXCEPT ![Head(inbox)].stage = "shown"]
      <4>1. PICK i : i = Head(inbox)
        OBVIOUS
      <4>2. PICK q : q = [requests[i] EXCEPT !.stage = "shown"]
        OBVIOUS
      <4>3. requests' = [requests EXCEPT ![i] = q]
        BY <3>2, <4>1, <4>2
      <4>4. i \in 1..Len(requests) =>
              /\ q \in Reqs /\ q.rev = requests[i].rev /\ q.text = requests[i].text
              /\ q.stage \notin Left
        BY <4>2, <1>0 DEF Reqs, Left
      <4> QED  BY <4>3, <4>4, <1>0, RequestBecomes
    <3> QED  BY <1>11, <3>1, <3>2 DEF Handle
  <2> QED  BY <2>1, <2>3, <2>4, <2>5, <1>0, TurnMeets
<1> QED
  BY <1>1, <1>2, <1>3, <1>4, <1>5, <1>6, <1>7, <1>8, <1>9, <1>10, <1>11 DEF Next

\* The edits of an answer are made for the text they are applied to, however many
\* documents, edits, requests and tasks there are: a request goes to the server behind
\* the text it was made for and ahead of every later one (lsp_format, the manager's lock,
\* formatting).
THEOREM AnswersMeet == Spec => AnswersMeetTheirText
<1>1. LspInv /\ AskInv /\ [Next]_vars => LspInv' /\ AskInv'
  BY StepInLine, StepMeets
<1>2. LspInv /\ AskInv /\ [Next]_vars =>
        [\A i \in DOMAIN requests :
           LET q == requests[i]
           IN  (/\ q.stage = "delivered" /\ requests'[i].stage = "shown"
                /\ focus = q.doc /\ rev[focus] = q.rev
                /\ ~overtaken /\ ~failed)
               => q.text = q.rev]_vars
  <2> SUFFICES ASSUME LspInv, AskInv, NEW i \in DOMAIN requests,
                      requests[i].stage = "delivered",
                      focus = requests[i].doc, rev[focus] = requests[i].rev,
                      ~overtaken, ~failed
               PROVE  requests[i].text = requests[i].rev
    OBVIOUS
  <2>1. i \in 1..Len(requests) /\ requests[i] \in Reqs
    BY DEF AskInv, AskTyped
  <2>2. requests[i].rev \in Nat
    BY <2>1 DEF Reqs, LspInv, LspTyped
  <2>3. requests[i].rev # -1 /\ requests[i].stage \in Left
    BY <2>2 DEF Left
  <2> QED  BY <2>1, <2>3 DEF AskInv, LeftMeet
<1> QED
  BY InitInLine, InitAsks, <1>1, <1>2, PTL DEF Spec, AnswersMeetTheirText
=============================================================================
