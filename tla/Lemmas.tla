------------------------------- MODULE Lemmas -------------------------------
(***************************************************************************)
(* Facts the proofs of several components rest on: induction over the      *)
(* natural numbers in first-order form, from the library's                 *)
(* well-foundedness of < on Nat; and what the community modules' operators *)
(* on sequences give.                                                      *)
(***************************************************************************)
EXTENDS Integers, SequencesExt, SequenceTheorems, FiniteSetTheorems, WellFoundedInduction, TLAPS

\* The library's relation < on Nat, written out as a set of pairs.
LEMMA LessThanRelation == OpToRel(<, Nat) = {s \in Nat \X Nat : s[1] < s[2]}
  BY DEF OpToRel

\* A non-empty set of natural numbers has a least element.
LEMMA LeastElement ==
  ASSUME NEW T \in SUBSET Nat, T # {}
  PROVE  \E x \in T : \A y \in T : x <= y
<1> DEFINE R == {s \in Nat \X Nat : s[1] < s[2]}
<1>1. IsWellFoundedOn(R, Nat)
  BY NatLessThanWellFounded, LessThanRelation
<1>2. \A a, b \in Nat : a < b => <<a, b>> \in R
  OBVIOUS
<1> HIDE DEF R
<1>3. PICK x \in T : \A y \in T : ~ (<<y, x>> \in R)
  BY <1>1, WFMin
<1>4. \A y \in T : ~ (y < x)
  BY <1>2, <1>3
<1>5. QED
  BY <1>3, <1>4

\* A non-empty set of natural numbers up to n has a greatest element.
LEMMA GreatestElement ==
  ASSUME NEW n \in Nat, NEW T \in SUBSET (0..n), T # {}
  PROVE  \E x \in T : \A y \in T : y <= x
<1> DEFINE D == {n - x : x \in T}
<1>1. D \in SUBSET Nat /\ D # {}
  <2>1. \A x \in T : n - x \in Nat
    OBVIOUS
  <2>2. PICK x \in T : TRUE
    OBVIOUS
  <2>3. n - x \in D
    OBVIOUS
  <2>4. QED
    BY <2>1, <2>3
<1>2. PICK d \in D : \A e \in D : d <= e
  BY <1>1, LeastElement
<1>3. PICK x \in T : d = n - x
  BY <1>2
<1>4. \A y \in T : n - x <= n - y
  BY <1>2, <1>3
<1>5. \A y \in T : y <= x
  BY <1>3, <1>4
<1>6. QED
  BY <1>5

\* Induction: a set with 0, closed under successor, holds every natural number.
LEMMA SetInduction ==
  ASSUME NEW S, 0 \in S, \A n \in Nat : n \in S => n + 1 \in S
  PROVE  Nat \subseteq S
<1>1. SUFFICES ASSUME Nat \ S # {} PROVE FALSE
  OBVIOUS
<1>2. PICK x \in Nat \ S : \A y \in Nat \ S : x <= y
  BY <1>1, LeastElement
<1>3. x # 0 /\ x - 1 \in Nat
  BY <1>2
<1>4. x - 1 \in S
  BY <1>2, <1>3
<1>5. QED
  BY <1>2, <1>3, <1>4

-----------------------------------------------------------------------------
\* Taking an element out of a sequence moves the later ones up: a task the runtime
\* starts, a blob of the undo store or a rule replaced (Start of Lsp, OtherBlobs of
\* Files, AddRule of Agent).
LEMMA RemoveAtShifts ==
  ASSUME NEW S, NEW b \in Seq(S), NEW i \in 1..Len(b)
  PROVE  /\ RemoveAt(b, i) \in Seq(S) /\ Len(RemoveAt(b, i)) = Len(b) - 1
         /\ \A j \in 1..(Len(b) - 1) : RemoveAt(b, i)[j] = b[IF j < i THEN j ELSE j + 1]
<1> DEFINE u == SubSeq(b, 1, i - 1)  v == SubSeq(b, i + 1, Len(b))
<1>1. u \in Seq(S) /\ Len(u) = i - 1 /\ \A j \in 1..(i - 1) : u[j] = b[j]
  OBVIOUS
<1>2. v \in Seq(S) /\ Len(v) = Len(b) - i /\ \A j \in 1..(Len(b) - i) : v[j] = b[i + j]
  OBVIOUS
<1>3. RemoveAt(b, i) = u \o v
  BY DEF RemoveAt
<1>4. i \in Int /\ Len(b) \in Nat
  OBVIOUS
<1> HIDE DEF u, v
<1>5. u \o v \in Seq(S) /\ Len(u \o v) = Len(u) + Len(v)
      /\ \A j \in 1..(Len(u) + Len(v)) : (u \o v)[j] = IF j <= Len(u) THEN u[j] ELSE v[j - Len(u)]
  BY <1>1, <1>2, ConcatProperties
<1>6. ASSUME NEW j \in 1..(Len(b) - 1) PROVE (u \o v)[j] = b[IF j < i THEN j ELSE j + 1]
  <2>1. CASE j < i
    BY <2>1, <1>1, <1>2, <1>4, <1>5
  <2>2. CASE j >= i
    <3>1. (u \o v)[j] = v[j - (i - 1)]
      BY <2>2, <1>1, <1>2, <1>4, <1>5
    <3>2. j - (i - 1) \in 1..(Len(b) - i) /\ i + (j - (i - 1)) = j + 1 /\ ~(j < i)
      BY <2>2, <1>4
    <3>3. v[j - (i - 1)] = b[j + 1]
      BY <3>2, <1>2
    <3>4. (IF j < i THEN j ELSE j + 1) = j + 1
      BY <3>2
    <3> QED  BY <3>1, <3>3, <3>4
  <2>3. j < i \/ j >= i
    BY <1>4
  <2> QED  BY <2>1, <2>2, <2>3
<1>7. Len(u) + Len(v) = Len(b) - 1
  BY <1>1, <1>2, <1>4
<1> QED
  BY <1>3, <1>5, <1>6, <1>7

\* So it adds none.
LEMMA RemoveAtKeeps ==
  ASSUME NEW S, NEW b \in Seq(S), NEW i \in 1..Len(b)
  PROVE  /\ RemoveAt(b, i) \in Seq(S)
         /\ \A j \in 1..Len(RemoveAt(b, i)) : \E k \in 1..Len(b) : RemoveAt(b, i)[j] = b[k]
<1>1. Len(b) \in Nat /\ i \in Nat
  OBVIOUS
<1>2. ASSUME NEW j \in 1..(Len(b) - 1)
      PROVE  (IF j < i THEN j ELSE j + 1) \in 1..Len(b)
  BY <1>1
<1> QED
  BY <1>2, RemoveAtShifts

\* A set's elements in some order: what SetToSeq gives is a sequence of them.
LEMMA SetInOrder ==
  ASSUME NEW S, IsFiniteSet(S)
  PROVE  /\ Cardinality(S) \in Nat
         /\ SetToSeq(S) \in [1..Cardinality(S) -> S]
         /\ SetToSeq(S) \in Seq(S) /\ Len(SetToSeq(S)) = Cardinality(S)
<1>1. Cardinality(S) \in Nat /\ ExistsBijection(1..Cardinality(S), S)
  BY FS_CardinalityType
<1>2. PICK f \in [1..Cardinality(S) -> S] : IsInjective(f)
  BY <1>1 DEF ExistsBijection, Bijection, Injection
<1>3. SetToSeq(S) \in [1..Cardinality(S) -> S]
  BY <1>2 DEF SetToSeq
<1> QED
  BY <1>1, <1>3

\* Induction up to n.
LEMMA UpTo ==
  ASSUME NEW n \in Nat, NEW S, 0 \in S, \A i \in 1..n : i - 1 \in S => i \in S
  PROVE  \A i \in 0..n : i \in S
<1> DEFINE T == {k \in Nat : k <= n => k \in S}
<1>1. 0 \in T
  OBVIOUS
<1>2. ASSUME NEW k \in Nat, k \in T PROVE k + 1 \in T
  <2>1. SUFFICES ASSUME k + 1 <= n PROVE k + 1 \in S
    OBVIOUS
  <2>2. k \in S
    BY <1>2, <2>1
  <2>3. k + 1 \in 1..n /\ (k + 1) - 1 = k
    BY <2>1
  <2> QED
    BY <2>2, <2>3
<1>3. Nat \subseteq T
  <2> HIDE DEF T
  <2> QED
    BY <1>1, <1>2, SetInduction
<1> QED
  BY <1>3

Iterates(g, A, start, Step, n) ==
  /\ g \in [0..n -> A]
  /\ g[0] = start
  /\ \A i \in 1..n : g[i] = Step[<<i, g[i - 1]>>]

\* A step taken again and again: the first i steps, for every i up to n.
LEMMA RunsExist ==
  ASSUME NEW A, NEW start \in A, NEW Step \in [Nat \X A -> A], NEW n \in Nat
  PROVE  \E g : Iterates(g, A, start, Step, n)
<1> DEFINE Run(g, k) == /\ g \in [0..k -> A] /\ g[0] = start
                        /\ \A i \in 1..k : g[i] = Step[<<i, g[i - 1]>>]
           T == {k \in Nat : \E g : Run(g, k)}
<1>1. 0 \in T
  <2>1. Run([i \in 0..0 |-> start], 0)
    OBVIOUS
  <2> HIDE DEF Run
  <2> QED
    BY <2>1
<1>2. ASSUME NEW k \in Nat, k \in T PROVE k + 1 \in T
  <2>1. PICK g : Run(g, k)
    <3> HIDE DEF Run
    <3> QED
      BY <1>2
  <2> DEFINE next == Step[<<k + 1, g[k]>>]
             h == [i \in 0..(k + 1) |-> IF i <= k THEN g[i] ELSE next]
  <2>2. next \in A
    BY <2>1
  <2> HIDE DEF next
  <2>3. h \in [0..(k + 1) -> A] /\ h[0] = start
    BY <2>1, <2>2
  <2>4. \A i \in 0..k : h[i] = g[i]
    OBVIOUS
  <2>5. h[k + 1] = next
    OBVIOUS
  <2> HIDE DEF h
  <2>6. ASSUME NEW i \in 1..(k + 1) PROVE h[i] = Step[<<i, h[i - 1]>>]
    <3>1. CASE i = k + 1
      <4>1. h[i - 1] = g[k]
        BY <2>4, <3>1
      <4> QED
        BY <2>5, <3>1, <4>1 DEF next
    <3>2. CASE i # k + 1
      <4>1. i \in 1..k /\ i \in 0..k /\ i - 1 \in 0..k
        BY <3>2
      <4> QED
        BY <2>1, <2>4, <4>1
    <3> QED
      BY <3>1, <3>2
  <2>7. Run(h, k + 1)
    BY <2>3, <2>6
  <2> HIDE DEF Run
  <2> QED
    BY <2>7
<1>3. n \in T
  <2> HIDE DEF T
  <2> QED
    BY <1>1, <1>2, SetInduction
<1>4. PICK g : Run(g, n)
  <2> HIDE DEF Run
  <2> QED
    BY <1>3
<1> QED
  BY <1>4 DEF Iterates

\* Elements of a sequence taken one after the other: what a loop over it computes.
Stepped(start, Step, s) ==
  LET after[i \in 0..Len(s)] ==
        IF i = 0 THEN start ELSE Step[<<after[i - 1], s[i]>>]
  IN  after[Len(s)]

IsRun(g, A, start, Step, s) ==
  /\ g \in [0..Len(s) -> A]
  /\ g[0] = start
  /\ \A i \in 1..Len(s) : g[i] = Step[<<g[i - 1], s[i]>>]
  /\ Stepped(start, Step, s) = g[Len(s)]

\* The loop has a run, it stays in A, and every run ends with the same result.
LEMMA RunOf ==
  ASSUME NEW A, NEW E, NEW start \in A, NEW Step \in [A \X E -> A], NEW s \in Seq(E)
  PROVE  \E g : IsRun(g, A, start, Step, s)
<1> DEFINE Next == [x \in Nat \X A |-> IF x[1] \in 1..Len(s) THEN Step[<<x[2], s[x[1]]>>] ELSE x[2]]
<1>1. Len(s) \in Nat /\ \A i \in 1..Len(s) : s[i] \in E
  BY LenProperties, ElementOfSeq
<1>2. Next \in [Nat \X A -> A]
  BY <1>1
<1>3. \A i \in 1..Len(s), y \in A : Next[<<i, y>>] = Step[<<y, s[i]>>]
  OBVIOUS
<1> HIDE DEF Next
<1>4. PICK h : Iterates(h, A, start, Next, Len(s))
  BY <1>1, <1>2, RunsExist
<1>5. /\ h[0] = start
      /\ \A i \in 1..Len(s) : h[i - 1] \in A /\ h[i] = Step[<<h[i - 1], s[i]>>]
  <2>1. \A i \in 1..Len(s) : h[i - 1] \in A
    BY <1>1, <1>4 DEF Iterates
  <2> QED
    BY <1>3, <1>4, <2>1 DEF Iterates
<1> DEFINE P(f) == f = [i \in 0..Len(s) |-> IF i = 0 THEN start ELSE Step[<<f[i - 1], s[i]>>]]
           run == CHOOSE f : f = [i \in 0..Len(s) |-> IF i = 0 THEN start
                                                     ELSE Step[<<f[i - 1], s[i]>>]]
<1>6. P(h)
  <2>1. h = [i \in 0..Len(s) |-> h[i]]
    BY <1>4 DEF Iterates
  <2>2. \A i \in 0..Len(s) : h[i] = IF i = 0 THEN start ELSE Step[<<h[i - 1], s[i]>>]
    BY <1>1, <1>5
  <2> QED
    BY <2>1, <2>2
<1>7. P(run)
  <2>1. run = CHOOSE f : P(f)
    OBVIOUS
  <2> HIDE DEF P, run
  <2> QED
    BY <1>6, <2>1
<1>8. Stepped(start, Step, s) = run[Len(s)]
  BY DEF Stepped
<1>9. run[0] = start /\ \A i \in 1..Len(s) : run[i] = Step[<<run[i - 1], s[i]>>]
  <2>1. 0 \in 0..Len(s) /\ \A i \in 1..Len(s) : i # 0 /\ i \in 0..Len(s)
    BY <1>1
  <2> HIDE DEF run
  <2> QED
    BY <1>7, <2>1
<1> HIDE DEF run, P
<1>10. \A i \in 0..Len(s) : run[i] = h[i]
  <2> DEFINE T == {i \in 0..Len(s) : run[i] = h[i]}
  <2>1. 0 \in T
    BY <1>1, <1>5, <1>9
  <2>2. ASSUME NEW i \in 1..Len(s), i - 1 \in T PROVE i \in T
    <3>1. i \in 0..Len(s) /\ run[i - 1] = h[i - 1]
      BY <1>1, <2>2
    <3> QED
      BY <1>5, <1>9, <3>1
  <2> HIDE DEF T
  <2>3. \A i \in 0..Len(s) : i \in T
    BY <1>1, <2>1, <2>2, UpTo
  <2> QED
    BY <2>3 DEF T
<1>11. Stepped(start, Step, s) = h[Len(s)]
  BY <1>1, <1>8, <1>10
<1> QED
  BY <1>4, <1>5, <1>11 DEF IsRun, Iterates

GoesOn(A, start, Step, s, e) ==
  /\ Stepped(start, Step, s) \in A
  /\ Stepped(start, Step, <<>>) = start
  /\ Stepped(start, Step, Append(s, e)) = Step[<<Stepped(start, Step, s), e>>]

\* One element more is one step more.
LEMMA SteppedOn ==
  ASSUME NEW A, NEW E, NEW start \in A, NEW Step \in [A \X E -> A], NEW s \in Seq(E), NEW e \in E
  PROVE  GoesOn(A, start, Step, s, e)
<1> DEFINE t == Append(s, e)
<1>1. /\ t \in Seq(E) /\ Len(t) = Len(s) + 1
      /\ \A i \in 1..Len(s) : t[i] = s[i]
      /\ t[Len(s) + 1] = e
  BY AppendProperties
<1>2. Len(s) \in Nat
  BY LenProperties
<1> HIDE DEF t
<1>3. PICK g : IsRun(g, A, start, Step, s)
  BY RunOf
<1>4. PICK h : IsRun(h, A, start, Step, t)
  BY <1>1, RunOf
<1>5. Len(s) \in 0..Len(s) /\ g[Len(s)] = h[Len(s)]
  <2> DEFINE T == {i \in 0..Len(s) : g[i] = h[i]}
  <2>1. 0 \in T
    BY <1>2, <1>3, <1>4 DEF IsRun
  <2>2. ASSUME NEW i \in 1..Len(s), i - 1 \in T PROVE i \in T
    <3>1. i \in 1..Len(t) /\ i \in 0..Len(s)
      BY <1>1, <1>2
    <3> QED
      BY <1>1, <1>3, <1>4, <2>2, <3>1 DEF IsRun
  <2> HIDE DEF T
  <2>3. \A i \in 0..Len(s) : i \in T
    BY <1>2, <2>1, <2>2, UpTo
  <2> QED
    BY <1>2, <2>3 DEF T
<1>6. h[Len(t)] = Step[<<h[Len(s)], e>>]
  <2>1. Len(t) \in 1..Len(t) /\ Len(t) - 1 = Len(s)
    BY <1>1, <1>2
  <2> QED
    BY <1>1, <1>4, <2>1 DEF IsRun
<1>7. Stepped(start, Step, <<>>) = start
  <2>1. <<>> \in Seq(E) /\ Len(<<>>) = 0
    OBVIOUS
  <2>2. PICK f : IsRun(f, A, start, Step, <<>>)
    BY <2>1, RunOf
  <2> QED
    BY <2>1, <2>2 DEF IsRun
<1>8. Stepped(start, Step, s) = g[Len(s)] /\ Stepped(start, Step, s) \in A
  BY <1>3, <1>5 DEF IsRun
<1>9. Stepped(start, Step, t) = h[Len(t)]
  BY <1>4 DEF IsRun
<1> QED
  BY <1>5, <1>6, <1>7, <1>8, <1>9 DEF GoesOn, t
=============================================================================
