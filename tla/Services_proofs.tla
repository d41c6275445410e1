--------------------------- MODULE Services_proofs ---------------------------
(***************************************************************************)
(* What the panel and the rules promise of agents, for any number of       *)
(* connections, prompts, requests and programs and any capacity of the     *)
(* queues (proofs about module Agent); that the breakpoints of the gutter  *)
(* reach the debug adapter, and that what the run view shows is about the  *)
(* stop the program is at, for any number of sessions, lines, stops and    *)
(* toggles (proofs about module Dap).                                      *)
(***************************************************************************)
EXTENDS Agent, Dap, Lemmas

Decisions == {"allow", "reject", "ask"}
Kinds == Decisions \cup {"cancelled", "done"}
Requests == {Initialize, NewSession}
Questions == [id : Nat, program : Programs, offers : Offers, kind : {"permission", "file"}]
Prompts == [kind : {"prompt"}, id : Nat \ {0}]
AgentAnswers == [kind : {"answer"}, id : Nat, outcome : Kinds, from : Nat, ask : Questions]
Commands == Prompts \cup AgentAnswers
Events == [kind : {"note", "ended"}] \cup [kind : {"permission", "file"}, ask : Questions]
Reports == [conn : Nat, event : Events \cup {Ready}]
Conversations ==
  [driver : {"running", "ended"}, handle : {"task", "bg", "app", "nobody"}, session : BOOLEAN,
   pending : SUBSET (Requests \cup Nat), commands : Seq(Commands), events : Seq(Events),
   bridge : BOOLEAN, agent : {"up", "gone"}, asks : SUBSET Questions, asked : Nat]
Rules == [program : Programs, decision : Decisions]

AgentTyped ==
  /\ conns \in Seq(Conversations)
  /\ client \in 0..Len(conns)
  /\ bg \in Seq(Reports) /\ \A i \in 1..Len(bg) : bg[i].conn \in 1..Len(conns)
  /\ busy \in BOOLEAN /\ eager \in BOOLEAN
  /\ perm = Nothing \/ perm \in [conn : Nat, ask : Questions]
  /\ rules \in Seq(Rules)
  /\ prompts \in Nat
  /\ choice \in [Programs -> Decisions]

\* A program has one rule at most, which is what was last decided for always.
RulesAreChoices ==
  /\ \A i, j \in 1..Len(rules) : rules[i].program = rules[j].program => i = j
  /\ \A i \in 1..Len(rules) : rules[i].decision = choice[rules[i].program]

-----------------------------------------------------------------------------
\* A turn is a prompt on its way to the agent, then one the agent works on, then the
\* news that it ended on its way back.
None(s, P) == \A i \in 1..Len(s) : s[i] \notin P
Once(s, P) == \A i, j \in 1..Len(s) : s[i] \in P /\ s[j] \in P => i = j

Sent(x) == ~None(x.commands, Prompts)
Working(x) == x.pending \ Requests # {}
TurnOver(x) == ~None(x.events, {Ended})
HasTurn(x) == Sent(x) \/ Working(x) \/ TurnOver(x)

\* A conversation with one turn at most.
OneTurn(x) ==
  /\ Once(x.commands, Prompts) /\ Once(x.events, {Ended})
  /\ \A r, s \in x.pending \ Requests : r = s
  /\ ~(Sent(x) /\ Working(x)) /\ ~(Sent(x) /\ TurnOver(x)) /\ ~(Working(x) /\ TurnOver(x))

EndReports == {b \in Reports : b.event = Ended}

\* While prompts are sent to an idle panel only, there is one turn at most, and none when
\* the panel is idle.
TurnsAreKnown ==
  ~eager =>
    /\ \A c \in 1..Len(conns) : OneTurn(conns[c])
    /\ \A c, d \in 1..Len(conns) : HasTurn(conns[c]) /\ HasTurn(conns[d]) => c = d
    /\ Once(bg, EndReports)
    /\ \A c \in 1..Len(conns) : HasTurn(conns[c]) => None(bg, EndReports)
    /\ ~busy => None(bg, EndReports) /\ \A c \in 1..Len(conns) : ~HasTurn(conns[c])

AgentInv == AgentTyped /\ RulesAreChoices /\ TurnsAreKnown

-----------------------------------------------------------------------------
\* Taking the first element of a queue.
LEMMA TailTakes ==
  ASSUME NEW S, NEW s \in Seq(S), s # <<>>, NEW P
  PROVE  /\ Tail(s) \in Seq(S) /\ Head(s) \in S /\ Head(s) = s[1] /\ 1 \in 1..Len(s)
         /\ None(s, P) => None(Tail(s), P) /\ Head(s) \notin P
         /\ Once(s, P) => Once(Tail(s), P)
         /\ Once(s, P) /\ Head(s) \in P => None(Tail(s), P)
<1>1. Len(s) \in Nat /\ Len(s) > 0 /\ Tail(s) \in Seq(S) /\ Head(s) = s[1] /\ s[1] \in S
  OBVIOUS
<1>2. Len(Tail(s)) = Len(s) - 1 /\ \A i \in 1..(Len(s) - 1) : Tail(s)[i] = s[i + 1]
  OBVIOUS
<1>3. \A i \in 1..(Len(s) - 1) : i + 1 \in 1..Len(s) /\ i + 1 # 1
  BY <1>1
<1>4. 1 \in 1..Len(s)
  BY <1>1
<1>5. None(s, P) => None(Tail(s), P) /\ Head(s) \notin P
  BY <1>1, <1>2, <1>3, <1>4 DEF None
<1>6. Once(s, P) => Once(Tail(s), P)
  <2> SUFFICES ASSUME Once(s, P), NEW i \in 1..(Len(s) - 1), NEW j \in 1..(Len(s) - 1),
                      Tail(s)[i] \in P, Tail(s)[j] \in P
               PROVE  i = j
    BY <1>2 DEF Once
  <2>1. i + 1 = j + 1
    BY <1>2, <1>3 DEF Once
  <2> QED  BY <2>1
<1>7. Once(s, P) /\ Head(s) \in P => None(Tail(s), P)
  BY <1>1, <1>2, <1>3, <1>4 DEF Once, None
<1> QED
  BY <1>1, <1>4, <1>5, <1>6, <1>7

\* Adding an element to a queue.
LEMMA AppendAdds ==
  ASSUME NEW S, NEW s \in Seq(S), NEW x \in S, NEW P
  PROVE  /\ Append(s, x) \in Seq(S)
         /\ x \notin P => (None(s, P) <=> None(Append(s, x), P))
         /\ x \notin P => (Once(s, P) => Once(Append(s, x), P))
         /\ None(s, P) => Once(Append(s, x), P)
<1>1. Append(s, x) \in Seq(S) /\ Len(s) \in Nat /\ Len(Append(s, x)) = Len(s) + 1
  OBVIOUS
<1>2. Append(s, x)[Len(s) + 1] = x /\ \A i \in 1..Len(s) : Append(s, x)[i] = s[i]
  OBVIOUS
<1>3. \A i \in 1..(Len(s) + 1) : i \in 1..Len(s) \/ i = Len(s) + 1
  BY <1>1
<1>4. 1..Len(s) \subseteq 1..(Len(s) + 1)
  BY <1>1
<1>5. x \notin P => (None(s, P) <=> None(Append(s, x), P))
  BY <1>1, <1>2, <1>3, <1>4 DEF None
<1>6. x \notin P => (Once(s, P) => Once(Append(s, x), P))
  BY <1>1, <1>2, <1>3, <1>4 DEF Once
<1>7. None(s, P) => Once(Append(s, x), P)
  BY <1>1, <1>2, <1>3, <1>4 DEF Once, None
<1> QED
  BY <1>1, <1>5, <1>6, <1>7

-----------------------------------------------------------------------------
\* A step within a conversation begins no turn.
Calmer(x, y) == (OneTurn(x) => OneTurn(y)) /\ (HasTurn(y) => HasTurn(x))

\* The driver stops.
LEMMA StoppedIsCalm ==
  ASSUME NEW x \in Conversations
  PROVE  Stopped(x) \in Conversations /\ Calmer(x, Stopped(x))
<1>1. /\ Stopped(x) \in Conversations
      /\ Stopped(x).commands = x.commands /\ Stopped(x).pending = x.pending
      /\ Stopped(x).events = x.events
  BY DEF Stopped, Conversations
<1> HIDE DEF Stopped
<1> QED
  BY <1>1 DEF Calmer, OneTurn, HasTurn, Sent, Working, TurnOver

\* What is reported is not the end of a turn.
LEMMA NewsIsCalm ==
  ASSUME NEW x \in Conversations, NEW e \in Events, e # Ended
  PROVE  /\ [x EXCEPT !.events = Append(@, e)] \in Conversations
         /\ Calmer(x, [x EXCEPT !.events = Append(@, e)])
<1> DEFINE y == [x EXCEPT !.events = Append(@, e)]
<1>1. x.events \in Seq(Events)
  BY DEF Conversations
<1>2. /\ Append(x.events, e) \in Seq(Events)
      /\ None(x.events, {Ended}) <=> None(Append(x.events, e), {Ended})
      /\ Once(x.events, {Ended}) => Once(Append(x.events, e), {Ended})
  <2>1. e \notin {Ended}
    OBVIOUS
  <2> QED  BY <1>1, <2>1, AppendAdds
<1>3. /\ y \in Conversations /\ y.commands = x.commands /\ y.pending = x.pending
      /\ y.events = Append(x.events, e)
  BY <1>2 DEF Conversations
<1> HIDE DEF y
<1>4. Calmer(x, y)
  BY <1>2, <1>3 DEF Calmer, OneTurn, HasTurn, Sent, Working, TurnOver
<1> QED
  BY <1>3, <1>4 DEF y

\* A step within a conversation is a step or two of those.
LEMMA CalmerTwice ==
  ASSUME NEW x, NEW y, NEW z, Calmer(x, y), Calmer(y, z)
  PROVE  Calmer(x, z)
  BY DEF Calmer

\* What the driver reports goes to the channel, or stops the driver when nobody listens.
LEMMA EmitIsCalm ==
  ASSUME AgentInv, NEW c \in 1..Len(conns), NEW x \in Conversations, NEW e \in Events, e # Ended,
         Emit(c, x, e), Calmer(conns[c], x)
  PROVE  \E y \in Conversations : conns' = [conns EXCEPT ![c] = y] /\ Calmer(conns[c], y)
<1> DEFINE y == IF conns[c].bridge THEN [x EXCEPT !.events = Append(@, e)] ELSE Stopped(x)
<1>1. conns' = [conns EXCEPT ![c] = y]
  BY DEF Emit, AgentInv, AgentTyped
<1>2. y \in Conversations /\ Calmer(x, y)
  BY NewsIsCalm, StoppedIsCalm
<1> HIDE DEF y
<1>3. Calmer(conns[c], y)
  BY <1>2, CalmerTwice
<1> QED
  BY <1>1, <1>2, <1>3

\* A step within one conversation keeps the invariant.
LEMMA ConversationStep ==
  ASSUME AgentInv, NEW c \in 1..Len(conns), NEW y \in Conversations,
         conns' = [conns EXCEPT ![c] = y], Calmer(conns[c], y), UNCHANGED editor
  PROVE  AgentInv'
<1>1. conns \in Seq(Conversations) /\ Len(conns) \in Nat
  BY DEF AgentInv, AgentTyped
<1>2. /\ conns' \in Seq(Conversations) /\ Len(conns') = Len(conns)
      /\ \A d \in 1..Len(conns) : conns'[d] = IF d = c THEN y ELSE conns[d]
  BY <1>1, ExceptSeq
<1>3. /\ UNCHANGED <<client, bg, busy, perm, rules, prompts, choice, eager>>
  BY DEF editor
<1>4. AgentTyped'
  BY <1>2, <1>3 DEF AgentInv, AgentTyped
<1>5. RulesAreChoices'
  BY <1>3 DEF AgentInv, RulesAreChoices
<1>6. TurnsAreKnown'
  <2>1. \A d \in 1..Len(conns) : Calmer(conns[d], conns'[d])
    BY <1>2 DEF Calmer
  <2> QED  BY <2>1, <1>2, <1>3 DEF AgentInv, TurnsAreKnown, Calmer
<1> QED
  BY <1>4, <1>5, <1>6 DEF AgentInv

-----------------------------------------------------------------------------
\* A connection as it is.
LEMMA ConnTyped ==
  ASSUME AgentInv
  PROVE  /\ conns \in Seq(Conversations) /\ Len(conns) \in Nat /\ DOMAIN conns = 1..Len(conns)
         /\ \A c \in 1..Len(conns) : conns[c] \in Conversations
  BY DEF AgentInv, AgentTyped

\* The end of a turn is told from other news.
LEMMA KindsOfEvents ==
  /\ Note \in Events /\ Ended \in Events /\ Note # Ended
  /\ \A e \in Events : e.kind # "ended" => e # Ended
  BY DEF Note, Ended, Events

\* The requests of the handshake are no turns.
LEMMA HandshakeIsCalm ==
  ASSUME NEW x \in Conversations, NEW P \in SUBSET (Requests \cup Nat), NEW b \in BOOLEAN,
         P \ Requests \subseteq x.pending \ Requests
  PROVE  /\ [x EXCEPT !.pending = P, !.session = b] \in Conversations
         /\ Calmer(x, [x EXCEPT !.pending = P, !.session = b])
<1> DEFINE y == [x EXCEPT !.pending = P, !.session = b]
<1>1. y \in Conversations /\ y.commands = x.commands /\ y.events = x.events /\ y.pending = P
  BY DEF Conversations
<1> HIDE DEF y
<1>2. Working(y) => Working(x)
  BY <1>1 DEF Working
<1>3. Sent(y) = Sent(x) /\ TurnOver(y) = TurnOver(x)
  BY <1>1 DEF Sent, TurnOver
<1>4. HasTurn(y) => HasTurn(x)
  BY <1>2, <1>3 DEF HasTurn
<1>5. OneTurn(x) => OneTurn(y)
  BY <1>1, <1>2, <1>3 DEF OneTurn
<1> QED
  BY <1>1, <1>4, <1>5 DEF y, Calmer

\* The agent ends a turn, and the driver says so.
LEMMA EndIsCalm ==
  ASSUME NEW x \in Conversations, NEW r \in x.pending \ Requests
  PROVE  LET y == [x EXCEPT !.pending = @ \ {r}, !.events = Append(@, Ended)]
         IN  y \in Conversations /\ Calmer(x, y)
<1> DEFINE y == [x EXCEPT !.pending = @ \ {r}, !.events = Append(@, Ended)]
<1>1. x.events \in Seq(Events) /\ x.pending \in SUBSET (Requests \cup Nat)
  BY DEF Conversations
<1>2. /\ Append(x.events, Ended) \in Seq(Events)
      /\ None(x.events, {Ended}) => Once(Append(x.events, Ended), {Ended})
  BY <1>1, KindsOfEvents, AppendAdds
<1>3. /\ y \in Conversations /\ y.commands = x.commands /\ y.pending = x.pending \ {r}
      /\ y.events = Append(x.events, Ended)
  BY <1>1, <1>2 DEF Conversations
<1> HIDE DEF y
<1>4. Working(x) /\ HasTurn(x)
  BY DEF Working, HasTurn
<1>5. ASSUME OneTurn(x) PROVE OneTurn(y)
  <2>1. ~Sent(x) /\ ~TurnOver(x) /\ \A p \in x.pending \ Requests : p = r
    BY <1>4, <1>5 DEF OneTurn
  <2>2. y.pending \ Requests = {}
    BY <1>3, <2>1
  <2>3. ~Sent(y) /\ ~Working(y)
    BY <1>3, <2>1, <2>2 DEF Sent, Working
  <2>4. Once(y.events, {Ended}) /\ Once(y.commands, Prompts)
    BY <1>2, <1>3, <1>5, <2>1 DEF TurnOver, OneTurn
  <2> QED  BY <2>2, <2>3, <2>4 DEF OneTurn
<1> QED
  BY <1>3, <1>4, <1>5 DEF Calmer, y

\* The agent answers (AgentSession::handle_response).
LEMMA AnsweredKeeps == ASSUME AgentInv, NEW c \in 1..Len(conns), Answered(c) PROVE AgentInv'
<1> DEFINE x == conns[c]
<1>1. x \in Conversations /\ x.pending \in SUBSET (Requests \cup Nat)
  BY ConnTyped DEF Conversations
<1>2. PICK r \in x.pending, ok \in BOOLEAN :
        LET conn == [x EXCEPT !.pending = @ \ {r}]
        IN  CASE ~ok -> Emit(c, conn, Note)
              [] ok /\ r = Initialize -> Emit(c, [conn EXCEPT !.pending = @ \cup {NewSession}], Note)
              [] ok /\ r = NewSession -> Emit(c, [conn EXCEPT !.session = TRUE], Note)
              [] OTHER -> Emit(c, conn, Ended)
  BY DEF Answered
<1> DEFINE conn == [x EXCEPT !.pending = @ \ {r}]
<1>3. CASE ~(ok /\ r \notin Requests)
  <2>1. PICK P \in SUBSET (Requests \cup Nat), b \in BOOLEAN :
          /\ P \ Requests \subseteq x.pending \ Requests
          /\ Emit(c, [x EXCEPT !.pending = P, !.session = b], Note)
    <3>0. x.session \in BOOLEAN /\ x = [x EXCEPT !.session = x.session]
      BY <1>1 DEF Conversations
    <3>1. CASE ~ok
      <4>1. conn = [x EXCEPT !.pending = x.pending \ {r}, !.session = x.session]
        BY <1>1 DEF Conversations
      <4>2. Emit(c, [x EXCEPT !.pending = x.pending \ {r}, !.session = x.session], Note)
        BY <1>2, <3>1, <4>1
      <4>3. x.pending \ {r} \in SUBSET (Requests \cup Nat)
            /\ (x.pending \ {r}) \ Requests \subseteq x.pending \ Requests
        BY <1>1
      <4> QED  BY <3>0, <4>2, <4>3
    <3>2. CASE ok /\ r = Initialize
      <4> DEFINE P == (x.pending \ {r}) \cup {NewSession}
      <4>1. [conn EXCEPT !.pending = @ \cup {NewSession}] = [x EXCEPT !.pending = P, !.session = x.session]
        BY <1>1 DEF Conversations
      <4>2. Emit(c, [x EXCEPT !.pending = P, !.session = x.session], Note)
        <5>1. Emit(c, [conn EXCEPT !.pending = @ \cup {NewSession}], Note)
          BY <1>2, <3>2 DEF Initialize, NewSession
        <5> HIDE DEF P, conn
        <5> QED  BY <4>1, <5>1
      <4>3. P \in SUBSET (Requests \cup Nat) /\ P \ Requests \subseteq x.pending \ Requests
        BY <1>1 DEF Requests
      <4> QED  BY <3>0, <4>2, <4>3
    <3>3. CASE ok /\ r = NewSession
      <4>1. [conn EXCEPT !.session = TRUE] = [x EXCEPT !.pending = x.pending \ {r}, !.session = TRUE]
        BY <1>1 DEF Conversations
      <4>2. Emit(c, [x EXCEPT !.pending = x.pending \ {r}, !.session = TRUE], Note)
        BY <1>2, <3>3, <4>1 DEF Initialize, NewSession
      <4>3. x.pending \ {r} \in SUBSET (Requests \cup Nat)
            /\ (x.pending \ {r}) \ Requests \subseteq x.pending \ Requests
        BY <1>1
      <4> QED  BY <4>2, <4>3
    <3> QED  BY <1>3, <3>1, <3>2, <3>3 DEF Requests
  <2>2. /\ [x EXCEPT !.pending = P, !.session = b] \in Conversations
        /\ Calmer(x, [x EXCEPT !.pending = P, !.session = b])
    BY <1>1, <2>1, HandshakeIsCalm
  <2>3. PICK y \in Conversations : conns' = [conns EXCEPT ![c] = y] /\ Calmer(conns[c], y)
    BY <2>1, <2>2, KindsOfEvents, EmitIsCalm
  <2> QED  BY <2>3, ConversationStep DEF Answered
<1>4. CASE ok /\ r \notin Requests
  <2>1. Emit(c, conn, Ended)
    BY <1>2, <1>4 DEF Requests
  <2>2. CASE x.bridge
    <3> DEFINE y == [x EXCEPT !.pending = @ \ {r}, !.events = Append(@, Ended)]
    <3>1. y \in Conversations /\ Calmer(x, y)
      BY <1>1, <1>4, EndIsCalm
    <3>2. [conn EXCEPT !.events = Append(@, Ended)] = y
      BY <1>1 DEF Conversations
    <3>3. conns' = [conns EXCEPT ![c] = y]
      BY <2>1, <2>2, <3>2, ConnTyped DEF Emit
    <3> QED  BY <3>1, <3>3, ConversationStep DEF Answered
  <2>3. CASE ~x.bridge
    <3>1. conn \in Conversations /\ Calmer(x, conn)
      <4>1. conn = [x EXCEPT !.pending = x.pending \ {r}, !.session = x.session] /\ x.session \in BOOLEAN
        BY <1>1 DEF Conversations
      <4>2. x.pending \ {r} \in SUBSET (Requests \cup Nat)
            /\ (x.pending \ {r}) \ Requests \subseteq x.pending \ Requests
        BY <1>1
      <4> HIDE DEF conn
      <4> QED  BY <1>1, <4>1, <4>2, HandshakeIsCalm
    <3>2. Stopped(conn) \in Conversations /\ Calmer(x, Stopped(conn))
      BY <3>1, StoppedIsCalm, CalmerTwice
    <3>3. conns' = [conns EXCEPT ![c] = Stopped(conn)]
      BY <2>1, <2>3, ConnTyped DEF Emit
    <3> QED  BY <3>2, <3>3, ConversationStep DEF Answered
  <2> QED  BY <2>2, <2>3
<1> QED
  BY <1>3, <1>4

\* What only the asks, the process or the driver's end change is calm.
LEMMA SameTurn ==
  ASSUME NEW x, NEW y, y.commands = x.commands, y.pending = x.pending, y.events = x.events
  PROVE  Calmer(x, y)
  BY DEF Calmer, OneTurn, HasTurn, Sent, Working, TurnOver

\* The agent asks for a permission or a file (AgentSession::handle_request).
LEMMA AsksKeeps == ASSUME AgentInv, NEW c \in 1..Len(conns), Asks(c) PROVE AgentInv'
<1> DEFINE x == conns[c]
<1>1. x \in Conversations /\ x.asked \in Nat /\ x.asks \in SUBSET Questions
  BY ConnTyped DEF Conversations
<1>2. PICK kind \in {"permission", "file"}, program \in Programs, offers \in Offers :
        LET ask == [id |-> x.asked + 1, program |-> program, offers |-> offers, kind |-> kind]
        IN  Emit(c, [x EXCEPT !.asks = @ \cup {ask}, !.asked = @ + 1], [kind |-> kind, ask |-> ask])
  BY DEF Asks
<1> DEFINE ask == [id |-> x.asked + 1, program |-> program, offers |-> offers, kind |-> kind]
           y == [x EXCEPT !.asks = @ \cup {ask}, !.asked = @ + 1]
           e == [kind |-> kind, ask |-> ask]
<1>3. ask \in Questions
  BY <1>1 DEF Questions
<1>4. Emit(c, y, e)
  BY <1>2
<1> HIDE DEF ask
<1>5. y \in Conversations /\ y.commands = x.commands /\ y.pending = x.pending /\ y.events = x.events
  <2>1. x.asks \cup {ask} \in SUBSET Questions /\ x.asked + 1 \in Nat
    BY <1>1, <1>3
  <2>2. y = [x EXCEPT !.asks = x.asks \cup {ask}, !.asked = x.asked + 1]
    BY <1>1 DEF Conversations
  <2> HIDE DEF x
  <2> QED  BY <1>1, <2>1, <2>2 DEF Conversations
<1>6. e \in Events /\ e.kind # "ended"
  BY <1>3 DEF Events
<1> HIDE DEF y, e
<1>7. Calmer(x, y)
  BY <1>5, SameTurn
<1>8. e # Ended
  BY <1>6, KindsOfEvents
<1>9. PICK z \in Conversations : conns' = [conns EXCEPT ![c] = z] /\ Calmer(x, z)
  BY <1>4, <1>5, <1>6, <1>7, <1>8, EmitIsCalm
<1> QED
  BY <1>9, ConversationStep DEF Asks

\* The agent's process ends.
LEMMA AgentExitsKeeps == ASSUME AgentInv, NEW c \in 1..Len(conns), AgentExits(c) PROVE AgentInv'
<1> DEFINE x == conns[c]  y == [x EXCEPT !.agent = "gone"]
<1>1. x \in Conversations
  BY ConnTyped
<1>2. y \in Conversations /\ y.commands = x.commands /\ y.pending = x.pending /\ y.events = x.events
  BY <1>1 DEF Conversations
<1>3. conns' = [conns EXCEPT ![c] = y]
  BY DEF AgentExits
<1> HIDE DEF y
<1>4. Calmer(x, y)
  BY <1>2, SameTurn
<1> QED
  BY <1>2, <1>3, <1>4, ConversationStep DEF AgentExits

\* The driver ends: with its agent, or because nobody can send commands (drive).
LEMMA DisconnectedKeeps == ASSUME AgentInv, NEW c \in 1..Len(conns), Disconnected(c) PROVE AgentInv'
<1>1. Stopped(conns[c]) \in Conversations /\ Calmer(conns[c], Stopped(conns[c]))
  BY ConnTyped, StoppedIsCalm
<1>2. PICK y \in Conversations : conns' = [conns EXCEPT ![c] = y] /\ Calmer(conns[c], y)
  BY <1>1, EmitIsCalm, KindsOfEvents DEF Disconnected
<1> QED
  BY <1>2, ConversationStep DEF Disconnected

\* The same when nobody can send commands any more.
LEMMA ClosedKeeps == ASSUME AgentInv, NEW c \in 1..Len(conns), Closed(c) PROVE AgentInv'
<1>1. Stopped(conns[c]) \in Conversations /\ Calmer(conns[c], Stopped(conns[c]))
  BY ConnTyped, StoppedIsCalm
<1>2. conns' = [conns EXCEPT ![c] = Stopped(conns[c])]
  BY DEF Closed
<1> QED
  BY <1>1, <1>2, ConversationStep DEF Closed

\* A command taken from the queue is no longer in it.
LEMMA TakenIsCalm ==
  ASSUME NEW x \in Conversations, x.commands # <<>>
  PROVE  LET y == [x EXCEPT !.commands = Tail(@)]
         IN  y \in Conversations /\ Calmer(x, y) /\ Head(x.commands) \in Commands
<1> DEFINE y == [x EXCEPT !.commands = Tail(@)]
<1>1. x.commands \in Seq(Commands)
  BY DEF Conversations
<1>2. /\ Tail(x.commands) \in Seq(Commands) /\ Head(x.commands) \in Commands
      /\ None(x.commands, Prompts) => None(Tail(x.commands), Prompts)
      /\ Once(x.commands, Prompts) => Once(Tail(x.commands), Prompts)
  BY <1>1, TailTakes
<1>3. /\ y \in Conversations /\ y.commands = Tail(x.commands) /\ y.pending = x.pending
      /\ y.events = x.events
  BY <1>2 DEF Conversations
<1> HIDE DEF y
<1>4. (Sent(y) => Sent(x)) /\ Working(y) = Working(x) /\ TurnOver(y) = TurnOver(x)
  BY <1>2, <1>3 DEF Sent, Working, TurnOver
<1>5. Calmer(x, y)
  BY <1>2, <1>3, <1>4 DEF Calmer, OneTurn, HasTurn
<1> QED
  BY <1>2, <1>3, <1>5 DEF y

\* A prompt taken goes to the agent, which works on it.
LEMMA PromptIsCalm ==
  ASSUME NEW x \in Conversations, x.commands # <<>>, Head(x.commands) \in Prompts
  PROVE  LET y == [x EXCEPT !.commands = Tail(@), !.pending = @ \cup {Head(x.commands).id}]
         IN  y \in Conversations /\ Calmer(x, y)
<1> DEFINE r == Head(x.commands).id
           y == [x EXCEPT !.commands = Tail(@), !.pending = @ \cup {r}]
<1>1. x.commands \in Seq(Commands) /\ x.pending \in SUBSET (Requests \cup Nat)
  BY DEF Conversations
<1>2. r \in Nat
  BY DEF Prompts
<1>3. /\ Tail(x.commands) \in Seq(Commands) /\ ~None(x.commands, Prompts)
      /\ Once(x.commands, Prompts) => Once(Tail(x.commands), Prompts) /\ None(Tail(x.commands), Prompts)
  BY <1>1, TailTakes
<1>4. /\ y \in Conversations /\ y.commands = Tail(x.commands) /\ y.pending = x.pending \cup {r}
      /\ y.events = x.events
  BY <1>1, <1>2, <1>3 DEF Conversations
<1> HIDE DEF y
<1>5. Sent(x) /\ HasTurn(x)
  BY <1>3 DEF Sent, HasTurn
<1>6. ASSUME OneTurn(x) PROVE OneTurn(y)
  <2>1. ~Working(x) /\ ~TurnOver(x) /\ ~Sent(y) /\ Once(y.commands, Prompts) /\ Once(y.events, {Ended})
    BY <1>3, <1>4, <1>5, <1>6 DEF OneTurn, Sent
  <2>2. ~TurnOver(y)
    BY <1>4, <2>1 DEF TurnOver
  <2>3. y.pending \ Requests \subseteq {r}
    BY <1>4, <2>1 DEF Working
  <2> QED  BY <2>1, <2>2, <2>3 DEF OneTurn
<1> QED
  BY <1>4, <1>5, <1>6 DEF Calmer, y

\* The driver performs a command (perform of AgentSession).
LEMMA PerformKeeps == ASSUME AgentInv, NEW c \in 1..Len(conns), Perform(c) PROVE AgentInv'
<1> DEFINE x == conns[c]
           command == Head(x.commands)
           conn == [x EXCEPT !.commands = Tail(@)]
<1>1. x \in Conversations /\ x.commands # <<>>
  BY ConnTyped DEF Perform
<1>2. conn \in Conversations /\ Calmer(x, conn) /\ command \in Commands
  BY <1>1, TakenIsCalm
<1>3. command.kind = "prompt" \/ command.kind = "answer"
  BY <1>2 DEF Commands, Prompts, AgentAnswers
<1>4. conn.agent = x.agent /\ conn.session = x.session /\ conn.bridge = x.bridge
      /\ conn.events = x.events /\ conn.pending = x.pending /\ conn.asks = x.asks
  BY <1>1 DEF Conversations
<1>5. PICK y \in Conversations : conns' = [conns EXCEPT ![c] = y] /\ Calmer(x, y)
  <2>1. CASE command.kind = "prompt" /\ ~conn.session
    <3> DEFINE y == IF conn.bridge THEN [conn EXCEPT !.events = Append(@, Note)] ELSE conn
    <3>1. conns' = [conns EXCEPT ![c] = y]
      BY <2>1 DEF Perform
    <3> HIDE DEF conn
    <3>2. y \in Conversations /\ Calmer(x, y)
      BY <1>2, NewsIsCalm, KindsOfEvents, CalmerTwice
    <3> QED  BY <3>1, <3>2
  <2>2. CASE command.kind = "prompt" /\ conn.session
    <3> DEFINE y == IF conn.agent = "up" THEN [conn EXCEPT !.pending = @ \cup {command.id}] ELSE conn
    <3>1. conns' = [conns EXCEPT ![c] = y]
      BY <2>2 DEF Perform
    <3>2. command \in Prompts
      BY <1>2, <2>2 DEF Commands, AgentAnswers
    <3>3. [conn EXCEPT !.pending = @ \cup {command.id}]
            = [x EXCEPT !.commands = Tail(@), !.pending = @ \cup {command.id}]
      BY <1>1 DEF Conversations
    <3>4. [conn EXCEPT !.pending = @ \cup {command.id}] \in Conversations
          /\ Calmer(x, [conn EXCEPT !.pending = @ \cup {command.id}])
      BY <1>1, <3>2, <3>3, PromptIsCalm
    <3>5. y \in Conversations /\ Calmer(x, y)
      BY <1>2, <3>4
    <3> QED  BY <3>1, <3>5
  <2>3. CASE command.kind = "answer"
    <3> DEFINE z == [conn EXCEPT !.asks = {a \in @ : a.id # command.id}]
               y == IF conn.agent = "up" THEN z ELSE conn
    <3>1. conns' = [conns EXCEPT ![c] = y]
      BY <2>3 DEF Perform
    <3> HIDE DEF conn
    <3>2. /\ z \in Conversations /\ z.commands = conn.commands /\ z.pending = conn.pending
          /\ z.events = conn.events
      BY <1>2 DEF Conversations
    <3> HIDE DEF z
    <3>3. Calmer(conn, z)
      BY <3>2, SameTurn
    <3>4. y \in Conversations /\ Calmer(x, y)
      BY <1>2, <3>2, <3>3, CalmerTwice
    <3> QED  BY <3>1, <3>4
  <2> QED  BY <1>3, <2>1, <2>2, <2>3
<1> QED
  BY <1>5, ConversationStep DEF Perform

-----------------------------------------------------------------------------
\* Steps of the editor that begin no turn: where no conversation has more of a turn than
\* before, nor the channel, the turns stay known.
LEMMA TurnsStayKnown ==
  ASSUME AgentInv, Len(conns') = Len(conns),
         \A d \in 1..Len(conns) : Calmer(conns[d], conns'[d]),
         None(bg, EndReports) => None(bg', EndReports),
         Once(bg, EndReports) => Once(bg', EndReports),
         ~busy' => ~busy, ~eager' => ~eager
  PROVE  TurnsAreKnown'
  BY DEF AgentInv, TurnsAreKnown, Calmer

\* Commands go to the conversation of the client, if they go anywhere (AgentClient::dispatch).
LEMMA DispatchAdds ==
  ASSUME AgentInv, NEW command \in Commands, Dispatch(command)
  PROVE  /\ conns' \in Seq(Conversations) /\ Len(conns') = Len(conns)
         /\ \A d \in 1..Len(conns) :
              \/ conns'[d] = conns[d]
              \/ /\ d = client /\ conns'[d].commands = Append(conns[d].commands, command)
                 /\ conns'[d].pending = conns[d].pending /\ conns'[d].events = conns[d].events
<1>1. CASE ~Accepts
  BY <1>1, ConnTyped DEF Dispatch
<1>2. CASE Accepts
  <2> DEFINE x == conns[client]  y == [x EXCEPT !.commands = Append(@, command)]
  <2>1. client \in 1..Len(conns)
    BY <1>2 DEF Accepts, AgentInv, AgentTyped
  <2>2. x \in Conversations /\ x.commands \in Seq(Commands)
    BY <2>1, ConnTyped DEF Conversations
  <2>3. Append(x.commands, command) \in Seq(Commands)
    BY <2>2
  <2>4. /\ y \in Conversations /\ y.commands = Append(x.commands, command)
        /\ y.pending = x.pending /\ y.events = x.events
    BY <2>2, <2>3 DEF Conversations
  <2>5. conns' = [conns EXCEPT ![client] = y]
    BY <1>2 DEF Dispatch
  <2> HIDE DEF y
  <2> QED  BY <2>1, <2>4, <2>5, ConnTyped, ExceptSeq
<1> QED
  BY <1>1, <1>2

\* An answer is no turn.
LEMMA AnswerIsCalm ==
  ASSUME AgentInv, NEW command \in AgentAnswers, Dispatch(command)
  PROVE  \A d \in 1..Len(conns) : Calmer(conns[d], conns'[d])
<1> SUFFICES ASSUME NEW d \in 1..Len(conns) PROVE Calmer(conns[d], conns'[d])
  OBVIOUS
<1>1. command \in Commands /\ command \notin Prompts
  BY DEF Commands, Prompts, AgentAnswers
<1>2. CASE conns'[d] = conns[d]
  BY <1>2 DEF Calmer
<1>3. CASE conns'[d] # conns[d]
  <2>1. /\ conns'[d].commands = Append(conns[d].commands, command)
        /\ conns'[d].pending = conns[d].pending /\ conns'[d].events = conns[d].events
    BY <1>1, <1>3, DispatchAdds
  <2>2. conns[d].commands \in Seq(Commands)
    BY ConnTyped DEF Conversations
  <2>3. /\ None(conns[d].commands, Prompts) <=> None(conns'[d].commands, Prompts)
        /\ Once(conns[d].commands, Prompts) => Once(conns'[d].commands, Prompts)
    BY <1>1, <2>1, <2>2, AppendAdds
  <2> QED  BY <2>1, <2>3 DEF Calmer, OneTurn, HasTurn, Sent, Working, TurnOver
<1> QED
  BY <1>2, <1>3

\* A prompt sent to an idle panel's agent is the only turn (agent_send).
LEMMA SendPromptKeeps == ASSUME AgentInv, SendPrompt PROVE AgentInv'
<1> DEFINE command == [kind |-> "prompt", id |-> prompts + 1]
<1>1. prompts \in Nat /\ busy \in BOOLEAN /\ eager \in BOOLEAN
  BY DEF AgentInv, AgentTyped
<1>2. command \in Prompts /\ command \in Commands
  BY <1>1 DEF Prompts, Commands
<1>3. /\ Dispatch(command) /\ prompts' = prompts + 1 /\ eager' = (eager \/ busy) /\ busy' = TRUE
      /\ UNCHANGED <<client, bg, perm, rules, choice>>
  BY DEF SendPrompt
<1> HIDE DEF command
<1>4. /\ conns' \in Seq(Conversations) /\ Len(conns') = Len(conns)
      /\ \A d \in 1..Len(conns) :
           \/ conns'[d] = conns[d]
           \/ /\ d = client /\ conns'[d].commands = Append(conns[d].commands, command)
              /\ conns'[d].pending = conns[d].pending /\ conns'[d].events = conns[d].events
  BY <1>2, <1>3, DispatchAdds
<1>5. AgentTyped'
  BY <1>1, <1>3, <1>4 DEF AgentInv, AgentTyped
<1>6. RulesAreChoices'
  BY <1>3 DEF AgentInv, RulesAreChoices
<1>7. ASSUME ~eager' PROVE TurnsAreKnown'
  <2>1. ~eager /\ ~busy
    BY <1>3, <1>7
  <2>2. /\ \A d \in 1..Len(conns) : OneTurn(conns[d]) /\ ~HasTurn(conns[d])
        /\ None(bg, EndReports) /\ Once(bg, EndReports)
    BY <2>1 DEF AgentInv, TurnsAreKnown
  <2>3. \A d \in 1..Len(conns) : HasTurn(conns'[d]) => d = client
    BY <1>4, <2>2
  <2>4. ASSUME NEW d \in 1..Len(conns) PROVE OneTurn(conns'[d])
    <3>1. CASE conns'[d] = conns[d]
      BY <2>2, <3>1
    <3>2. CASE conns'[d] # conns[d]
      <4>1. /\ conns'[d].commands = Append(conns[d].commands, command)
            /\ conns'[d].pending = conns[d].pending /\ conns'[d].events = conns[d].events
        BY <1>4, <3>2
      <4>2. OneTurn(conns[d]) /\ ~Sent(conns[d]) /\ ~Working(conns[d]) /\ ~TurnOver(conns[d])
        BY <2>2 DEF HasTurn
      <4>3. conns[d].commands \in Seq(Commands)
        BY ConnTyped DEF Conversations
      <4>4. Once(conns'[d].commands, Prompts)
        BY <1>2, <4>1, <4>2, <4>3, AppendAdds DEF Sent
      <4>5. ~Working(conns'[d]) /\ ~TurnOver(conns'[d])
        BY <4>1, <4>2 DEF Working, TurnOver
      <4>6. Once(conns'[d].events, {Ended}) /\ \A r, s \in conns'[d].pending \ Requests : r = s
        BY <4>1, <4>2 DEF OneTurn
      <4> QED  BY <4>4, <4>5, <4>6 DEF OneTurn
    <3> QED  BY <3>1, <3>2
  <2> QED  BY <1>3, <1>4, <2>2, <2>3, <2>4 DEF TurnsAreKnown
<1>8. TurnsAreKnown'
  BY <1>7 DEF TurnsAreKnown
<1> QED
  BY <1>5, <1>6, <1>8 DEF AgentInv

-----------------------------------------------------------------------------
\* A choice for always takes the place of the program's rule (PermissionStore::add_rule).
LEMMA RuleIsTheChoice ==
  ASSUME AgentInv, NEW p \in Programs, NEW d \in Decisions, AddRule(p, d),
         choice' = [choice EXCEPT ![p] = d]
  PROVE  rules' \in Seq(Rules) /\ choice' \in [Programs -> Decisions] /\ RulesAreChoices'
<1> DEFINE I == {i \in 1..Len(rules) : rules[i].program = p}
           others == RemoveFirstMatch(rules, LAMBDA r : r.program = p)
           new == [program |-> p, decision |-> d]
<1>1. /\ rules \in Seq(Rules) /\ Len(rules) \in Nat /\ choice \in [Programs -> Decisions]
      /\ \A i \in 1..Len(rules) : rules[i] \in Rules
  BY DEF AgentInv, AgentTyped
<1>2. /\ \A i, j \in 1..Len(rules) : rules[i].program = rules[j].program => i = j
      /\ \A i \in 1..Len(rules) : rules[i].decision = choice[rules[i].program]
  BY DEF AgentInv, RulesAreChoices
<1>3. /\ others \in Seq(Rules)
      /\ \A i \in 1..Len(others) : /\ others[i].program # p
                                   /\ others[i].decision = choice[others[i].program]
                                   /\ others[i].program \in Programs
      /\ \A i, j \in 1..Len(others) : others[i].program = others[j].program => i = j
  <2>1. CASE I = {}
    <3>1. others = rules
      BY <2>1 DEF RemoveFirstMatch
    <3>2. \A i \in 1..Len(rules) : rules[i].program # p /\ rules[i].program \in Programs
      BY <1>1, <2>1 DEF Rules
    <3> QED  BY <1>1, <1>2, <3>1, <3>2
  <2>2. CASE I # {}
    <3>1. PICK m \in I : others = RemoveAt(rules, m)
      <4>1. I \in SUBSET Nat
        BY <1>1
      <4>2. \E i \in I : \A j \in I : i <= j
        BY <2>2, <4>1, LeastElement
      <4>3. Min(I) \in I
        BY <4>2 DEF Min
      <4>4. others = RemoveAt(rules, Min(I))
        BY <2>2 DEF RemoveFirstMatch, SelectInSeq
      <4> QED  BY <4>3, <4>4
    <3> DEFINE at(j) == IF j < m THEN j ELSE j + 1
    <3> HIDE DEF others
    <3>2. m \in 1..Len(rules) /\ rules[m].program = p
      OBVIOUS
    <3> HIDE DEF I
    <3>3. /\ others \in Seq(Rules) /\ Len(others) = Len(rules) - 1
          /\ \A j \in 1..(Len(rules) - 1) : others[j] = rules[at(j)]
      BY <1>1, <3>1, <3>2, RemoveAtShifts
    <3>4. \A j \in 1..(Len(rules) - 1) : at(j) \in 1..Len(rules) /\ at(j) # m
      BY <1>1, <3>2
    <3>5. \A i, j \in 1..(Len(rules) - 1) : at(i) = at(j) => i = j
      BY <1>1, <3>2
    <3> HIDE DEF at
    <3>6. \A j \in 1..(Len(rules) - 1) : rules[at(j)] \in Rules /\ rules[at(j)].program # p
      BY <1>1, <1>2, <3>2, <3>4
    <3>7. \A j \in 1..Len(others) : /\ others[j].program # p
                                    /\ others[j].decision = choice[others[j].program]
                                    /\ others[j].program \in Programs
      BY <1>2, <3>3, <3>4, <3>6 DEF Rules
    <3>8. ASSUME NEW i \in 1..Len(others), NEW j \in 1..Len(others),
                 others[i].program = others[j].program
          PROVE  i = j
      <4>1. i \in 1..(Len(rules) - 1) /\ j \in 1..(Len(rules) - 1)
        BY <3>3
      <4>2. rules[at(i)].program = rules[at(j)].program
        BY <3>3, <3>8, <4>1
      <4>3. at(i) = at(j)
        BY <1>2, <3>4, <4>1, <4>2
      <4> QED  BY <3>5, <4>1, <4>3
    <3> QED  BY <3>3, <3>7, <3>8
  <2> QED  BY <2>1, <2>2
<1>4. rules' = Append(others, new)
  BY DEF AddRule
<1> HIDE DEF others
<1>5. new \in Rules /\ new.program = p /\ new.decision = d
  BY DEF Rules
<1> HIDE DEF new
<1>6. /\ rules' \in Seq(Rules) /\ Len(rules') = Len(others) + 1 /\ Len(others) \in Nat
      /\ rules'[Len(others) + 1] = new /\ \A i \in 1..Len(others) : rules'[i] = others[i]
  BY <1>3, <1>4, <1>5
<1>7. choice' \in [Programs -> Decisions] /\ choice'[p] = d
      /\ \A q \in Programs : q # p => choice'[q] = choice[q]
  BY <1>1
<1>8. \A i \in 1..Len(rules') : i \in 1..Len(others) \/ i = Len(others) + 1
  BY <1>6
<1>9. \A i \in 1..Len(rules') : rules'[i].decision = choice'[rules'[i].program]
  BY <1>3, <1>5, <1>6, <1>7, <1>8
<1>10. \A i, j \in 1..Len(rules') : rules'[i].program = rules'[j].program => i = j
  BY <1>3, <1>5, <1>6, <1>8
<1> QED
  BY <1>6, <1>7, <1>9, <1>10 DEF RulesAreChoices

\* An option given to the agent is a kind of option (agent_respond_permission).
LEMMA OutcomeIsKind ==
  ASSUME NEW offers \in Offers, NEW wanted \in Decisions
  PROVE  Outcome(offers, wanted) \in Kinds
<1>1. offers \in Seq({"allow", "reject"})
  BY AgentAssumption
<1>2. offers # <<>> => Head(offers) \in Kinds
  BY <1>1 DEF Kinds, Decisions
<1>3. "cancelled" \in Kinds
  BY DEF Kinds
<1>5. wanted \in Kinds
  BY DEF Kinds
<1>4. \/ Outcome(offers, wanted) = wanted \/ Outcome(offers, wanted) = "cancelled"
      \/ offers # <<>> /\ Outcome(offers, wanted) = Head(offers)
  BY DEF Outcome
<1> QED
  BY <1>2, <1>3, <1>4, <1>5

\* What is answered is an answer.
LEMMA AnswersTyped ==
  ASSUME NEW from \in Nat, NEW ask \in Questions, NEW outcome \in Kinds, Answer(from, ask, outcome)
  PROVE  \E command \in AgentAnswers : Dispatch(command) /\ command.outcome = outcome
                                 /\ command.from = from /\ command.ask = ask
<1> DEFINE command == [kind |-> "answer", id |-> ask.id, outcome |-> outcome, from |-> from, ask |-> ask]
<1>1. command \in AgentAnswers
  BY DEF AgentAnswers, Questions
<1>2. Dispatch(command)
  BY DEF Answer
<1> QED
  BY <1>1, <1>2

\* The user decides (agent_respond_permission).
LEMMA DecideKeeps ==
  ASSUME AgentInv, NEW d \in {"allow", "reject"}, NEW always \in BOOLEAN, Decide(d, always)
  PROVE  AgentInv'
<1>1. perm \in [conn : Nat, ask : Questions] /\ perm.ask \in Questions /\ perm.conn \in Nat
  BY DEF Decide, AgentInv, AgentTyped
<1>2. perm.ask.program \in Programs /\ perm.ask.offers \in Offers
  BY <1>1 DEF Questions
<1>3. Answer(perm.conn, perm.ask, Outcome(perm.ask.offers, d)) /\ perm' = Nothing
      /\ UNCHANGED <<client, bg, busy, prompts, eager>>
  BY DEF Decide
<1> DEFINE outcome == Outcome(perm.ask.offers, d)
<1>0. d \in Decisions
  BY DEF Decisions
<1>4. PICK command \in AgentAnswers : Dispatch(command)
  <2>1. outcome \in Kinds
    BY <1>0, <1>2, OutcomeIsKind
  <2>2. Answer(perm.conn, perm.ask, outcome)
    BY <1>3
  <2> HIDE DEF outcome
  <2> QED  BY <1>1, <2>1, <2>2, AnswersTyped
<1>5. conns' \in Seq(Conversations) /\ Len(conns') = Len(conns)
  BY <1>4, DispatchAdds DEF Commands
<1>6. \A c \in 1..Len(conns) : Calmer(conns[c], conns'[c])
  BY <1>4, AnswerIsCalm
<1>7. rules' \in Seq(Rules) /\ choice' \in [Programs -> Decisions] /\ RulesAreChoices'
  <2>1. CASE always
    <3>1. AddRule(perm.ask.program, d) /\ choice' = [choice EXCEPT ![perm.ask.program] = d]
      BY <2>1 DEF Decide
    <3> QED  BY <1>0, <1>2, <3>1, RuleIsTheChoice
  <2>2. CASE ~always
    BY <2>2 DEF Decide, AgentInv, AgentTyped, RulesAreChoices
  <2> QED  BY <2>1, <2>2
<1>8. AgentTyped'
  BY <1>3, <1>5, <1>7 DEF AgentInv, AgentTyped
<1>9. TurnsAreKnown'
  BY <1>3, <1>5, <1>6, TurnsStayKnown
<1> QED
  BY <1>7, <1>8, <1>9 DEF AgentInv

-----------------------------------------------------------------------------
\* A rule that decides says what was last decided for always (PermissionStore::check).
LEMMA CheckIsTheChoice ==
  ASSUME AgentInv, NEW p \in Programs
  PROVE  Check(p) \in Decisions /\ (Check(p) # "ask" => Check(p) = choice[p])
<1> DEFINE I == {i \in 1..Len(rules) : rules[i].program = p}
           last == SelectLastInSeq(rules, LAMBDA r : r.program = p)
<1>1. rules \in Seq(Rules) /\ Len(rules) \in Nat
  BY DEF AgentInv, AgentTyped
<1>2. Check(p) = IF last = 0 THEN "ask" ELSE rules[last].decision
  BY DEF Check
<1>3. last = 0 \/ last \in I
  <2>1. CASE I = {}
    BY <2>1 DEF SelectLastInSeq
  <2>2. CASE I # {}
    <3>1. I \in SUBSET (0..Len(rules))
      BY <1>1
    <3>2. \E i \in I : \A j \in I : j <= i
      <4> HIDE DEF I
      <4> QED  BY <1>1, <2>2, <3>1, GreatestElement
    <3>3. \E i \in I : \A j \in I : i >= j
      BY <1>1, <3>2
    <3>4. Max(I) \in I
      BY <3>3 DEF Max
    <3>5. last = Max(I)
      BY <2>2 DEF SelectLastInSeq
    <3> QED  BY <3>4, <3>5
  <2> QED  BY <2>1, <2>2
<1> HIDE DEF last
<1>4. CASE last = 0
  BY <1>2, <1>4 DEF Decisions
<1>5. CASE last \in I /\ last # 0
  <2>1. rules[last] \in Rules /\ rules[last].program = p /\ rules[last].decision = choice[rules[last].program]
    BY <1>1, <1>5 DEF AgentInv, RulesAreChoices
  <2> QED  BY <1>2, <1>5, <2>1 DEF Rules
<1> QED
  BY <1>3, <1>4, <1>5

\* The kinds of what the event loop is told (BackgroundEvent).
LEMMA KindsOfReports ==
  ASSUME NEW e \in Events \cup {Ready}
  PROVE  /\ e.kind \in {"ready", "note", "ended", "permission", "file"}
         /\ e.kind = "ended" => e = Ended
         /\ e.kind \in {"permission", "file"} => e.ask \in Questions
         /\ e = Ended => e.kind = "ended"
  BY DEF Events, Ready, Ended

\* What the event loop takes from its channel (on_background_event).
LEMMA DrainKeeps == ASSUME AgentInv, Drain PROVE AgentInv'
<1> DEFINE b == Head(bg)  c == b.conn  event == b.event
<1>1. bg \in Seq(Reports) /\ bg # <<>> /\ Len(bg) \in Nat /\ \A i \in 1..Len(bg) : bg[i].conn \in 1..Len(conns)
  BY DEF Drain, AgentInv, AgentTyped
<1>2. bg' = Tail(bg) /\ Receive(c, event) /\ UNCHANGED <<rules, prompts, choice, eager>>
  BY DEF Drain
<1>3. /\ bg' \in Seq(Reports) /\ b \in Reports /\ b = bg[1] /\ 1 \in 1..Len(bg)
      /\ None(bg, EndReports) => None(bg', EndReports) /\ b \notin EndReports
      /\ Once(bg, EndReports) => Once(bg', EndReports)
      /\ Once(bg, EndReports) /\ b \in EndReports => None(bg', EndReports)
  BY <1>1, <1>2, TailTakes
<1>4. \A i \in 1..Len(bg') : bg'[i].conn \in 1..Len(conns)
  <2>1. \A i \in 1..Len(bg') : i + 1 \in 1..Len(bg) /\ bg'[i] = bg[i + 1]
    BY <1>1, <1>2
  <2> QED  BY <1>1, <2>1
<1>5. c \in 1..Len(conns) /\ c \in Nat /\ event \in Events \cup {Ready}
  BY <1>1, <1>3 DEF Reports
<1>6. RulesAreChoices'
  BY <1>2 DEF AgentInv, RulesAreChoices
<1>7. ASSUME conns' = conns, busy' = busy, client' = client,
             perm' = perm \/ perm' \in [conn : Nat, ask : Questions]
      PROVE  AgentInv'
  <2>1. AgentTyped'
    BY <1>2, <1>3, <1>4, <1>7 DEF AgentInv, AgentTyped
  <2>2. TurnsAreKnown'
    BY <1>2, <1>3, <1>7, TurnsStayKnown DEF Calmer
  <2> QED  BY <1>6, <2>1, <2>2 DEF AgentInv
<1>8. ASSUME NEW ask \in Questions, NEW outcome \in Kinds, Answer(c, ask, outcome),
             busy' = busy, client' = client, perm' = perm
      PROVE  AgentInv'
  <2>1. PICK command \in AgentAnswers : Dispatch(command)
    BY <1>5, <1>8, AnswersTyped
  <2>2. conns' \in Seq(Conversations) /\ Len(conns') = Len(conns)
    BY <2>1, DispatchAdds DEF Commands
  <2>3. \A d \in 1..Len(conns) : Calmer(conns[d], conns'[d])
    BY <2>1, AnswerIsCalm
  <2>4. AgentTyped'
    BY <1>2, <1>3, <1>4, <1>8, <2>2 DEF AgentInv, AgentTyped
  <2>5. TurnsAreKnown'
    BY <1>2, <1>3, <1>8, <2>2, <2>3, TurnsStayKnown
  <2> QED  BY <1>6, <2>4, <2>5 DEF AgentInv
<1>9. CASE event.kind = "ready"
  <2> DEFINE at(d) == IF d = c THEN [conns[d] EXCEPT !.handle = "app"]
                      ELSE IF d = client THEN [conns[d] EXCEPT !.handle = "nobody"]
                      ELSE conns[d]
  <2>1. client' = c /\ conns' = [d \in DOMAIN conns |-> at(d)] /\ UNCHANGED <<busy, perm>>
    BY <1>2, <1>9 DEF Receive
  <2>2. \A d \in 1..Len(conns) : /\ at(d) \in Conversations /\ at(d).commands = conns[d].commands
                                 /\ at(d).pending = conns[d].pending /\ at(d).events = conns[d].events
    BY ConnTyped DEF Conversations
  <2> HIDE DEF at
  <2>3. conns' \in Seq(Conversations) /\ Len(conns') = Len(conns)
    <3>1. conns' \in [1..Len(conns) -> Conversations] /\ Len(conns) \in Nat
      BY <2>1, <2>2, ConnTyped
    <3> QED  BY <3>1, IsASeq
  <2>4. \A d \in 1..Len(conns) : Calmer(conns[d], conns'[d])
    <3>1. \A d \in 1..Len(conns) : conns'[d] = at(d)
      BY <2>1, ConnTyped
    <3> QED  BY <2>2, <3>1, SameTurn
  <2>5. AgentTyped'
    BY <1>2, <1>3, <1>4, <1>5, <2>1, <2>3 DEF AgentInv, AgentTyped
  <2>6. TurnsAreKnown'
    BY <1>2, <1>3, <2>1, <2>3, <2>4, TurnsStayKnown
  <2> QED  BY <1>6, <2>5, <2>6 DEF AgentInv
<1>10. CASE event.kind = "ended"
  <2>1. busy' = FALSE /\ UNCHANGED <<client, conns, perm>>
    BY <1>2, <1>10 DEF Receive
  <2>2. b \in EndReports
    BY <1>3, <1>5, <1>10, KindsOfReports DEF EndReports
  <2>3. AgentTyped'
    BY <1>2, <1>3, <1>4, <2>1 DEF AgentInv, AgentTyped
  <2>4. ASSUME ~eager PROVE None(bg', EndReports) /\ \A d \in 1..Len(conns) : OneTurn(conns[d]) /\ ~HasTurn(conns[d])
    BY <1>3, <2>2, <2>4 DEF AgentInv, TurnsAreKnown
  <2>5. ASSUME ~eager PROVE Once(bg', EndReports)
    BY <1>3, <2>5 DEF AgentInv, TurnsAreKnown
  <2>6. TurnsAreKnown'
    BY <1>2, <2>1, <2>4, <2>5 DEF TurnsAreKnown
  <2> QED  BY <1>6, <2>3, <2>6 DEF AgentInv
<1>11. CASE event.kind = "permission"
  <2>1. AskPermission(c, event.ask) /\ UNCHANGED <<client, busy>>
    BY <1>2, <1>11 DEF Receive
  <2>2. event.ask \in Questions /\ event.ask.program \in Programs /\ event.ask.offers \in Offers
    BY <1>5, <1>11, KindsOfReports DEF Questions
  <2>3. CASE Check(event.ask.program) # "ask"
    <3> DEFINE outcome == Outcome(event.ask.offers, Check(event.ask.program))
    <3>1. outcome \in Kinds
      BY <2>2, CheckIsTheChoice, OutcomeIsKind
    <3>2. Answer(c, event.ask, outcome) /\ perm' = perm
      BY <2>1, <2>3 DEF AskPermission
    <3> HIDE DEF outcome
    <3> QED  BY <1>8, <2>1, <2>2, <3>1, <3>2
  <2>4. CASE Check(event.ask.program) = "ask"
    <3>1. perm' = [conn |-> c, ask |-> event.ask] /\ conns' = conns
      BY <2>1, <2>4 DEF AskPermission
    <3>2. perm' \in [conn : Nat, ask : Questions]
      BY <1>5, <2>2, <3>1
    <3> QED  BY <1>7, <2>1, <3>1, <3>2
  <2> QED  BY <2>3, <2>4
<1>12. CASE event.kind = "file"
  <2>1. Answer(c, event.ask, "done") /\ UNCHANGED <<client, busy, perm>>
    BY <1>2, <1>12 DEF Receive
  <2>2. event.ask \in Questions /\ "done" \in Kinds
    BY <1>5, <1>12, KindsOfReports DEF Kinds
  <2> QED  BY <1>8, <2>1, <2>2
<1>13. CASE event.kind = "note"
  <2>1. UNCHANGED <<client, conns, busy, perm>>
    BY <1>2, <1>13 DEF Receive
  <2> QED  BY <1>7, <2>1
<1> QED
  BY <1>5, <1>9, <1>10, <1>11, <1>12, <1>13, KindsOfReports

-----------------------------------------------------------------------------
\* A conversation begins with no turn (agent_connect).
LEMMA NoTurnYet ==
  Connection \in Conversations /\ OneTurn(Connection) /\ ~HasTurn(Connection)
<1>1. Connection \in Conversations
  BY DEF Connection, Conversations, Requests
<1>2. Connection.commands = <<>> /\ Connection.events = <<>> /\ Connection.pending = {Initialize}
  BY DEF Connection
<1> QED
  BY <1>1, <1>2 DEF OneTurn, HasTurn, Sent, Working, TurnOver, None, Once, Requests

\* Another conversation (agent_connect).
LEMMA ConnectKeeps == ASSUME AgentInv, Connect PROVE AgentInv'
<1>1. /\ conns' = Append(conns, Connection)
      /\ UNCHANGED <<client, bg, busy, perm, rules, prompts, choice, eager>>
  BY DEF Connect
<1> DEFINE n == Len(conns)
<1>2. /\ conns' \in Seq(Conversations) /\ Len(conns') = n + 1 /\ n \in Nat
      /\ conns'[n + 1] = Connection /\ \A c \in 1..n : conns'[c] = conns[c]
  BY <1>1, NoTurnYet, ConnTyped
<1>3. \A c \in 1..Len(conns') : c \in 1..n \/ c = n + 1
  BY <1>2
<1>4. 1..n \subseteq 1..Len(conns') /\ 0..n \subseteq 0..Len(conns')
  BY <1>2
<1>5. AgentTyped'
  BY <1>1, <1>2, <1>4 DEF AgentInv, AgentTyped
<1>6. RulesAreChoices'
  BY <1>1 DEF AgentInv, RulesAreChoices
<1>7. \A c \in 1..Len(conns') : HasTurn(conns'[c]) => c \in 1..n /\ conns'[c] = conns[c]
  BY <1>2, <1>3, NoTurnYet
<1>8. TurnsAreKnown'
  BY <1>1, <1>2, <1>3, <1>7, NoTurnYet DEF AgentInv, TurnsAreKnown
<1> QED
  BY <1>5, <1>6, <1>8 DEF AgentInv

\* The client is handed over, or dropped at a full channel (agent_connect).
LEMMA HandOverKeeps == ASSUME AgentInv, NEW c \in 1..Len(conns), HandOver(c) PROVE AgentInv'
<1> DEFINE report == [conn |-> c, event |-> Ready]
           at(h) == [conns[c] EXCEPT !.handle = h]
<1>1. PICK h \in {"bg", "nobody"} :
        /\ conns' = [conns EXCEPT ![c] = at(h)]
        /\ bg' = bg \/ bg' = Append(bg, report)
  BY DEF HandOver
<1>2. UNCHANGED <<client, busy, perm, rules, prompts, choice, eager>>
  BY DEF HandOver
<1>3. /\ at(h) \in Conversations /\ at(h).commands = conns[c].commands
      /\ at(h).pending = conns[c].pending /\ at(h).events = conns[c].events
  BY ConnTyped DEF Conversations
<1> HIDE DEF at
<1>4. /\ conns' \in Seq(Conversations) /\ Len(conns') = Len(conns)
      /\ \A d \in 1..Len(conns) : conns'[d] = IF d = c THEN at(h) ELSE conns[d]
  BY <1>1, <1>3, ConnTyped, ExceptSeq
<1>5. \A d \in 1..Len(conns) : Calmer(conns[d], conns'[d])
  BY <1>3, <1>4, SameTurn
<1>6. c \in Nat /\ bg \in Seq(Reports) /\ Len(bg) \in Nat /\ \A i \in 1..Len(bg) : bg[i].conn \in 1..Len(conns)
  BY ConnTyped DEF AgentInv, AgentTyped
<1>7. report \in Reports /\ report.conn = c /\ report \notin EndReports
  BY <1>6 DEF Reports, EndReports, Ready, Ended
<1> HIDE DEF report
<1>8. /\ bg' \in Seq(Reports) /\ \A i \in 1..Len(bg') : bg'[i].conn \in 1..Len(conns)
      /\ None(bg, EndReports) => None(bg', EndReports)
      /\ Once(bg, EndReports) => Once(bg', EndReports)
  <2>1. CASE bg' = bg
    BY <1>6, <2>1
  <2>2. CASE bg' = Append(bg, report)
    <3>1. /\ bg' \in Seq(Reports)
          /\ None(bg, EndReports) => None(bg', EndReports)
          /\ Once(bg, EndReports) => Once(bg', EndReports)
      BY <1>6, <1>7, <2>2, AppendAdds
    <3>2. \A i \in 1..Len(bg') : (i \in 1..Len(bg) /\ bg'[i] = bg[i]) \/ bg'[i] = report
      BY <1>6, <1>7, <2>2
    <3> QED  BY <1>6, <1>7, <3>1, <3>2
  <2> QED  BY <1>1, <2>1, <2>2
<1>9. AgentTyped'
  BY <1>2, <1>4, <1>8 DEF AgentInv, AgentTyped
<1>10. RulesAreChoices'
  BY <1>2 DEF AgentInv, RulesAreChoices
<1>11. TurnsAreKnown'
  BY <1>2, <1>4, <1>5, <1>8, TurnsStayKnown
<1> QED
  BY <1>9, <1>10, <1>11 DEF AgentInv

\* The bridge passes an event on, the end of a turn too, or ends (agent_connect).
LEMMA BridgeKeeps == ASSUME AgentInv, NEW c \in 1..Len(conns), Bridge(c) PROVE AgentInv'
<1> DEFINE x == conns[c]  e == Head(x.events)
           report == [conn |-> c, event |-> e]
<1>1. /\ x \in Conversations /\ x.events \in Seq(Events) /\ x.events # <<>>
      /\ UNCHANGED <<client, busy, perm, rules, prompts, choice, eager>>
  BY ConnTyped DEF Bridge, Conversations
<1>2. c \in Nat /\ bg \in Seq(Reports) /\ Len(bg) \in Nat /\ \A i \in 1..Len(bg) : bg[i].conn \in 1..Len(conns)
  BY ConnTyped DEF AgentInv, AgentTyped
<1>3. RulesAreChoices'
  BY <1>1 DEF AgentInv, RulesAreChoices
<1>4. CASE ~(Len(bg) < BgSize)
  <2> DEFINE y == [x EXCEPT !.bridge = FALSE, !.events = <<>>]
  <2>1. conns' = [conns EXCEPT ![c] = y] /\ bg' = bg
    <3> DEFINE first == [conns EXCEPT ![c].bridge = FALSE]
    <3>1. conns' = [first EXCEPT ![c].events = <<>>] /\ bg' = bg
      BY <1>4 DEF Bridge
    <3>2. first[c] = [x EXCEPT !.bridge = FALSE]
      BY ConnTyped
    <3>3. conns' = [first EXCEPT ![c] = [first[c] EXCEPT !.events = <<>>]]
      BY <3>1
    <3>4. conns' = [first EXCEPT ![c] = y]
      BY <3>2, <3>3
    <3> HIDE DEF y
    <3> QED  BY <3>1, <3>4, ConnTyped
  <2>2. y \in Conversations /\ y.commands = x.commands /\ y.pending = x.pending /\ y.events = <<>>
    <3>1. <<>> \in Seq(Events)
      OBVIOUS
    <3> QED  BY <1>1, <3>1 DEF Conversations
  <2> HIDE DEF y
  <2>3. ~TurnOver(y) /\ Once(y.events, {Ended})
    BY <2>2 DEF TurnOver, None, Once
  <2>4. Calmer(x, y)
    BY <2>2, <2>3 DEF Calmer, OneTurn, HasTurn, Sent, Working
  <2>5. UNCHANGED editor
    BY <1>1, <2>1 DEF Bridge, editor
  <2> QED  BY <2>1, <2>2, <2>4, <2>5, ConversationStep
<1>5. CASE Len(bg) < BgSize
  <2> DEFINE y == [x EXCEPT !.events = Tail(@)]
  <2>1. conns' = [conns EXCEPT ![c] = y] /\ bg' = Append(bg, report)
    BY <1>5 DEF Bridge
  <2>2. /\ Tail(x.events) \in Seq(Events) /\ e \in Events
        /\ None(x.events, {Ended}) => None(Tail(x.events), {Ended}) /\ e \notin {Ended}
        /\ Once(x.events, {Ended}) => Once(Tail(x.events), {Ended})
        /\ Once(x.events, {Ended}) /\ e \in {Ended} => None(Tail(x.events), {Ended})
    BY <1>1, TailTakes
  <2>3. /\ y \in Conversations /\ y.commands = x.commands /\ y.pending = x.pending
        /\ y.events = Tail(x.events)
    BY <1>1, <2>2 DEF Conversations
  <2> HIDE DEF y
  <2>4. Calmer(x, y)
    BY <2>2, <2>3 DEF Calmer, OneTurn, HasTurn, Sent, Working, TurnOver
  <2>5. /\ conns' \in Seq(Conversations) /\ Len(conns') = Len(conns)
        /\ \A d \in 1..Len(conns) : conns'[d] = IF d = c THEN y ELSE conns[d]
    BY <2>1, <2>3, ConnTyped, ExceptSeq
  <2>6. \A d \in 1..Len(conns) : Calmer(conns[d], conns'[d])
    BY <2>4, <2>5 DEF Calmer
  <2>7. report \in Reports /\ report.conn = c /\ (report \in EndReports => e = Ended)
    BY <1>2, <2>2 DEF Reports, EndReports
  <2> HIDE DEF e, report
  <2>8. /\ bg' \in Seq(Reports)
        /\ report \notin EndReports => (None(bg, EndReports) <=> None(bg', EndReports))
        /\ report \notin EndReports => (Once(bg, EndReports) => Once(bg', EndReports))
        /\ None(bg, EndReports) => Once(bg', EndReports)
    BY <1>2, <2>1, <2>7, AppendAdds
  <2>9. \A i \in 1..Len(bg') : bg'[i].conn \in 1..Len(conns)
    <3>1. \A i \in 1..Len(bg') : (i \in 1..Len(bg) /\ bg'[i] = bg[i]) \/ bg'[i] = report
      BY <1>2, <2>1, <2>7
    <3> QED  BY <1>2, <2>7, <3>1
  <2>10. AgentTyped'
    BY <1>1, <2>5, <2>8, <2>9 DEF AgentInv, AgentTyped
  <2>11. CASE report \notin EndReports
    <3>1. TurnsAreKnown'
      BY <1>1, <2>5, <2>6, <2>8, <2>11, TurnsStayKnown
    <3> QED  BY <1>3, <2>10, <3>1 DEF AgentInv
  <2>12. CASE report \in EndReports
    <3>1. TurnOver(x) /\ HasTurn(x)
      BY <2>2, <2>7, <2>12 DEF TurnOver, HasTurn
    <3>2. ASSUME ~eager PROVE /\ busy /\ None(bg, EndReports) /\ OneTurn(x)
                              /\ \A d \in 1..Len(conns) : OneTurn(conns[d]) /\ (HasTurn(conns[d]) => d = c)
      BY <3>1, <3>2 DEF AgentInv, TurnsAreKnown
    <3>3. ASSUME ~eager PROVE ~HasTurn(y)
      <4>1. ~Sent(x) /\ ~Working(x) /\ Once(x.events, {Ended})
        BY <3>1, <3>2, <3>3 DEF OneTurn
      <4>2. None(y.events, {Ended})
        BY <2>2, <2>3, <2>7, <2>12, <4>1
      <4> QED  BY <2>3, <4>1, <4>2 DEF HasTurn, Sent, Working, TurnOver
    <3>4. ASSUME ~eager PROVE \A d \in 1..Len(conns) : OneTurn(conns'[d]) /\ ~HasTurn(conns'[d])
      BY <2>4, <2>5, <3>2, <3>3, <3>4 DEF Calmer
    <3>5. TurnsAreKnown'
      BY <1>1, <2>5, <2>8, <3>2, <3>4 DEF TurnsAreKnown
    <3> QED  BY <1>3, <2>10, <3>5 DEF AgentInv
  <2> QED  BY <2>11, <2>12
<1> QED
  BY <1>4, <1>5

\* The editor starts again: no conversation, and the rules as saved or none.
LEMMA RestartKeeps == ASSUME AgentInv, Restart PROVE AgentInv'
<1>1. /\ conns' = <<>> /\ client' = 0 /\ bg' = <<>> /\ busy' = FALSE /\ perm' = Nothing
      /\ rules' \in {rules, <<>>} /\ eager' = FALSE /\ UNCHANGED <<prompts, choice>>
  BY DEF Restart
<1>2. AgentTyped'
  <2>1. <<>> \in Seq(Conversations) /\ <<>> \in Seq(Reports) /\ <<>> \in Seq(Rules) /\ Len(<<>>) = 0
    OBVIOUS
  <2>2. rules' \in Seq(Rules) /\ prompts' \in Nat /\ choice' \in [Programs -> Decisions]
    BY <1>1, <2>1 DEF AgentInv, AgentTyped
  <2>3. client' \in 0..Len(conns') /\ \A i \in 1..Len(bg') : bg'[i].conn \in 1..Len(conns')
    BY <1>1, <2>1
  <2>4. conns' \in Seq(Conversations) /\ bg' \in Seq(Reports)
    BY <1>1, <2>1
  <2>5. busy' \in BOOLEAN /\ eager' \in BOOLEAN
    BY <1>1
  <2> QED  BY <1>1, <2>2, <2>3, <2>4, <2>5 DEF AgentTyped
<1>3. RulesAreChoices'
  <2>1. CASE rules' = rules
    BY <1>1, <2>1 DEF AgentInv, RulesAreChoices
  <2>2. CASE rules' = <<>>
    BY <2>2 DEF RulesAreChoices
  <2> QED  BY <1>1, <2>1, <2>2
<1>4. TurnsAreKnown'
  BY <1>1 DEF TurnsAreKnown, None, Once
<1> QED
  BY <1>2, <1>3, <1>4 DEF AgentInv

\* At the start there is no conversation.
LEMMA InitKeeps == Init => AgentInv
<1> SUFFICES ASSUME Init PROVE AgentInv
  OBVIOUS
<1>1. AgentTyped
  <2>1. <<>> \in Seq(Conversations) /\ <<>> \in Seq(Reports) /\ <<>> \in Seq(Rules) /\ Len(<<>>) = 0
    OBVIOUS
  <2>2. choice \in [Programs -> Decisions]
    BY DEF Init, Decisions
  <2>3. client \in 0..Len(conns) /\ \A i \in 1..Len(bg) : bg[i].conn \in 1..Len(conns)
    BY <2>1 DEF Init
  <2>4. conns \in Seq(Conversations) /\ bg \in Seq(Reports) /\ rules \in Seq(Rules)
    BY <2>1 DEF Init
  <2>5. busy \in BOOLEAN /\ eager \in BOOLEAN /\ perm = Nothing /\ prompts \in Nat
    BY DEF Init
  <2> QED  BY <2>2, <2>3, <2>4, <2>5 DEF AgentTyped
<1>2. RulesAreChoices
  BY DEF Init, RulesAreChoices
<1>3. TurnsAreKnown
  BY DEF Init, TurnsAreKnown, None, Once
<1> QED
  BY <1>1, <1>2, <1>3 DEF AgentInv

\* Every step keeps the rules the user's and the turns known.
LEMMA StepKeeps == AgentInv /\ [Next]_vars => AgentInv'
<1> SUFFICES ASSUME AgentInv, [Next]_vars PROVE AgentInv'
  OBVIOUS
<1>1. CASE Next
  <2>1. CASE Connect \/ SendPrompt \/ Drain \/ Restart
    BY <2>1, ConnectKeeps, SendPromptKeeps, DrainKeeps, RestartKeeps
  <2>2. CASE \E d \in {"allow", "reject"}, always \in BOOLEAN : Decide(d, always)
    BY <2>2, DecideKeeps
  <2>3. ASSUME NEW c \in DOMAIN conns,
               HandOver(c) \/ Answered(c) \/ Asks(c) \/ AgentExits(c) \/ Driver(c) \/ Bridge(c)
        PROVE  AgentInv'
    <3>1. c \in 1..Len(conns)
      BY ConnTyped
    <3>2. CASE HandOver(c) \/ Bridge(c)
      BY <3>1, <3>2, HandOverKeeps, BridgeKeeps
    <3>3. CASE Answered(c) \/ Asks(c) \/ AgentExits(c)
      BY <3>1, <3>3, AnsweredKeeps, AsksKeeps, AgentExitsKeeps
    <3>4. CASE Driver(c)
      BY <3>1, <3>4, PerformKeeps, DisconnectedKeeps, ClosedKeeps DEF Driver
    <3> QED  BY <2>3, <3>2, <3>3, <3>4
  <2> QED  BY <1>1, <2>1, <2>2, <2>3 DEF Next
<1>2. CASE UNCHANGED vars
  BY <1>2 DEF vars, AgentInv, AgentTyped, RulesAreChoices, TurnsAreKnown
<1> QED
  BY <1>1, <1>2

\* The panel is idle only when no agent works on a prompt, or has one to come (agent_busy),
\* through any restarts and reconnects, as long as prompts are sent when it is idle.
THEOREM IdlePanelIdleAgents == Spec => []IdleMeansNoTurn
<1>1. AgentInv => IdleMeansNoTurn
  <2> SUFFICES ASSUME AgentInv, ~busy, ~eager, NEW c \in DOMAIN conns
               PROVE  /\ conns[c].pending \subseteq {Initialize, NewSession}
                      /\ \A i \in DOMAIN conns[c].commands : conns[c].commands[i].kind = "answer"
    BY DEF IdleMeansNoTurn
  <2>1. c \in 1..Len(conns) /\ conns[c] \in Conversations
    BY ConnTyped
  <2>2. ~HasTurn(conns[c])
    BY <2>1 DEF AgentInv, TurnsAreKnown
  <2>3. conns[c].pending \subseteq {Initialize, NewSession}
    BY <2>2 DEF HasTurn, Working, Requests
  <2>4. ASSUME NEW i \in DOMAIN conns[c].commands PROVE conns[c].commands[i].kind = "answer"
    <3>1. conns[c].commands \in Seq(Commands) /\ i \in 1..Len(conns[c].commands)
      BY <2>1 DEF Conversations
    <3>2. conns[c].commands[i] \in Commands /\ conns[c].commands[i] \notin Prompts
      BY <2>2, <3>1 DEF HasTurn, Sent, None
    <3> QED  BY <3>2 DEF Commands, AgentAnswers
  <2> QED  BY <2>3, <2>4
<1> QED
  BY <1>1, InitKeeps, StepKeeps, PTL DEF Spec

-----------------------------------------------------------------------------
\* What is told to an agent is what has just been dispatched to it.
LEMMA ToldWhatWasSent ==
  ASSUME AgentInv, NEW c \in 1..Len(conns), NEW command \in Commands,
         Dispatch(command), NEW t \in Told(c)
  PROVE  t = command
<1>1. command \in Commands /\ Len(conns') = Len(conns)
  BY DispatchAdds DEF Commands
<1>2. conns[c].commands \in Seq(Commands) /\ Len(conns[c].commands) \in Nat
  BY ConnTyped DEF Conversations
<1>3. PICK i \in (Len(conns[c].commands) + 1)..Len(conns'[c].commands) : t = conns'[c].commands[i]
  BY DEF Told
<1>4. CASE conns'[c] = conns[c]
  BY <1>2, <1>3, <1>4
<1>5. CASE conns'[c].commands = Append(conns[c].commands, command)
  BY <1>1, <1>2, <1>3, <1>5
<1> QED
  BY <1>1, <1>4, <1>5, DispatchAdds

\* An agent is told nothing new when its queue does not grow.
LEMMA NothingTold ==
  ASSUME AgentInv, NEW c \in 1..Len(conns),
         Len(conns'[c].commands) \in Nat, Len(conns'[c].commands) <= Len(conns[c].commands)
  PROVE  Told(c) = {}
<1>1. Len(conns[c].commands) \in Nat
  BY ConnTyped DEF Conversations
<1> QED
  BY <1>1 DEF Told

\* A queue that stays tells its agent nothing.
LEMMA QueueStays ==
  ASSUME AgentInv, NEW c \in 1..Len(conns), conns'[c].commands = conns[c].commands
  PROVE  Told(c) = {}
<1>1. conns[c].commands \in Seq(Commands) /\ Len(conns[c].commands) \in Nat
  BY ConnTyped DEF Conversations
<1>2. Len(conns'[c].commands) \in Nat /\ Len(conns'[c].commands) <= Len(conns[c].commands)
  BY <1>1
<1> QED
  BY <1>2, NothingTold

\* Nor does one that loses its first command.
LEMMA QueueShrinks ==
  ASSUME AgentInv, NEW c \in 1..Len(conns), conns[c].commands # <<>>,
         conns'[c].commands = Tail(conns[c].commands)
  PROVE  Told(c) = {}
<1>1. conns[c].commands \in Seq(Commands)
  BY ConnTyped DEF Conversations
<1>2. Len(conns'[c].commands) \in Nat /\ Len(conns'[c].commands) <= Len(conns[c].commands)
  BY <1>1
<1> QED
  BY <1>2, NothingTold

\* What the driver reports is no command.
LEMMA EmitTellsNothing ==
  ASSUME AgentInv, NEW c \in 1..Len(conns), NEW d \in 1..Len(conns), NEW x \in Conversations, NEW e,
         Emit(d, x, e), x.commands = conns[d].commands
  PROVE  Told(c) = {}
<1> DEFINE y == IF conns[d].bridge THEN [x EXCEPT !.events = Append(@, e)] ELSE Stopped(x)
<1>1. conns' = [conns EXCEPT ![d] = y]
  BY ConnTyped DEF Emit
<1>2. y.commands = conns[d].commands
  BY DEF Stopped, Conversations
<1> HIDE DEF y
<1>3. conns'[c].commands = conns[c].commands
  BY <1>1, <1>2, ConnTyped
<1> QED
  BY <1>3, QueueStays

\* Only the editor tells an agent anything: no step of a driver, an agent or a bridge does.
LEMMA DriversTellNothing ==
  ASSUME AgentInv, NEW d \in 1..Len(conns), NEW c \in 1..Len(conns),
         HandOver(d) \/ Answered(d) \/ Asks(d) \/ AgentExits(d) \/ Driver(d) \/ Bridge(d)
  PROVE  Told(c) = {}
<1> DEFINE x == conns[d]
<1>1. x \in Conversations /\ conns \in Seq(Conversations)
  BY ConnTyped
<1>2. CASE HandOver(d) \/ AgentExits(d) \/ Closed(d)
  <2>1. \E y : conns' = [conns EXCEPT ![d] = y] /\ y.commands = x.commands
    <3>1. ASSUME NEW h PROVE [x EXCEPT !.handle = h].commands = x.commands
      BY <1>1 DEF Conversations
    <3>2. [x EXCEPT !.agent = "gone"].commands = x.commands
      BY <1>1 DEF Conversations
    <3>3. Stopped(x).commands = x.commands
      BY <1>1 DEF Conversations, Stopped
    <3>4. CASE HandOver(d)
      BY <3>1, <3>4 DEF HandOver
    <3>5. CASE AgentExits(d)
      BY <3>2, <3>5 DEF AgentExits
    <3>6. CASE Closed(d)
      BY <3>3, <3>6 DEF Closed
    <3> QED  BY <1>2, <3>4, <3>5, <3>6
  <2>2. conns'[c].commands = conns[c].commands
    BY <2>1, ConnTyped
  <2> QED  BY <2>2, QueueStays
<1>3. CASE Answered(d)
  <2>1. PICK y, e : y \in Conversations /\ y.commands = x.commands /\ Emit(d, y, e)
    <3>1. PICK r \in x.pending, ok \in BOOLEAN :
            LET conn == [x EXCEPT !.pending = @ \ {r}]
            IN  CASE ~ok -> Emit(d, conn, Note)
                  [] ok /\ r = Initialize -> Emit(d, [conn EXCEPT !.pending = @ \cup {NewSession}], Note)
                  [] ok /\ r = NewSession -> Emit(d, [conn EXCEPT !.session = TRUE], Note)
                  [] OTHER -> Emit(d, conn, Ended)
      BY <1>3 DEF Answered
    <3> DEFINE conn == [x EXCEPT !.pending = @ \ {r}]
               p == [conn EXCEPT !.pending = @ \cup {NewSession}]
               s == [conn EXCEPT !.session = TRUE]
    <3>2. \/ Emit(d, conn, Note) \/ Emit(d, conn, Ended)
          \/ Emit(d, p, Note) \/ Emit(d, s, Note)
      BY <3>1
    <3>3. conn \in Conversations /\ conn.commands = x.commands
      BY <1>1 DEF Conversations
    <3> HIDE DEF conn
    <3>4. p \in Conversations /\ p.commands = x.commands
      BY <3>3 DEF Conversations, Requests
    <3>5. s \in Conversations /\ s.commands = x.commands
      BY <3>3 DEF Conversations
    <3> HIDE DEF p, s
    <3> QED  BY <3>2, <3>3, <3>4, <3>5
  <2> QED  BY <2>1, EmitTellsNothing
<1>4. CASE Asks(d)
  <2>1. PICK ask, e :
          Emit(d, [x EXCEPT !.asks = @ \cup {ask}, !.asked = @ + 1], e) /\ ask \in Questions
    <3>1. PICK kind \in {"permission", "file"}, program \in Programs, offers \in Offers :
            LET ask == [id |-> x.asked + 1, program |-> program, offers |-> offers, kind |-> kind]
            IN  Emit(d, [x EXCEPT !.asks = @ \cup {ask}, !.asked = @ + 1], [kind |-> kind, ask |-> ask])
      BY <1>4 DEF Asks
    <3> DEFINE ask == [id |-> x.asked + 1, program |-> program, offers |-> offers, kind |-> kind]
    <3>2. x.asked \in Nat
      BY <1>1 DEF Conversations
    <3>3. ask \in Questions
      BY <3>2 DEF Questions
    <3>4. Emit(d, [x EXCEPT !.asks = @ \cup {ask}, !.asked = @ + 1], [kind |-> kind, ask |-> ask])
      BY <3>1
    <3> HIDE DEF ask
    <3> QED  BY <3>3, <3>4
  <2> DEFINE y == [x EXCEPT !.asks = @ \cup {ask}, !.asked = @ + 1]
  <2>2. y \in Conversations /\ y.commands = x.commands
    <3>1. x.asks \cup {ask} \in SUBSET Questions /\ x.asked + 1 \in Nat
      <4>1. x.asks \in SUBSET Questions /\ x.asked \in Nat
        BY <1>1 DEF Conversations
      <4> HIDE DEF x
      <4> QED  BY <2>1, <4>1
    <3>2. y = [x EXCEPT !.asks = x.asks \cup {ask}, !.asked = x.asked + 1]
      BY <1>1 DEF Conversations
    <3> HIDE DEF x
    <3> QED  BY <1>1, <3>1, <3>2 DEF Conversations
  <2>3. Emit(d, y, e)
    BY <2>1
  <2> HIDE DEF y
  <2> QED  BY <2>2, <2>3, EmitTellsNothing
<1>5. CASE Disconnected(d)
  <2>1. Stopped(x) \in Conversations /\ Stopped(x).commands = x.commands
    BY <1>1 DEF Conversations, Stopped
  <2> QED  BY <1>5, <2>1, EmitTellsNothing DEF Disconnected
<1>6. CASE Perform(d)
  <2> DEFINE conn == [x EXCEPT !.commands = Tail(@)]
             n == [conn EXCEPT !.events = Append(@, Note)]
             p == [conn EXCEPT !.pending = @ \cup {Head(x.commands).id}]
             a == [conn EXCEPT !.asks = {q \in @ : q.id # Head(x.commands).id}]
  <2>1. x.commands # <<>> /\ x.commands \in Seq(Commands)
    BY <1>1, <1>6 DEF Perform, Conversations
  <2>2. Head(x.commands) \in Commands
    BY <2>1
  <2>3. Head(x.commands).kind \in {"prompt", "answer"}
    BY <2>2 DEF Commands, Prompts, AgentAnswers
  <2>4. \/ conns' = [conns EXCEPT ![d] = n] \/ conns' = [conns EXCEPT ![d] = conn]
        \/ conns' = [conns EXCEPT ![d] = p] \/ conns' = [conns EXCEPT ![d] = a]
    BY <1>6, <2>3 DEF Perform
  <2>5. conn.commands = Tail(x.commands) /\ DOMAIN conn = DOMAIN x
    BY <1>1 DEF Conversations
  <2>6. n.commands = conn.commands /\ p.commands = conn.commands /\ a.commands = conn.commands
    BY <1>1 DEF Conversations
  <2> HIDE DEF conn, n, p, a
  <2>7. PICK y \in {n, conn, p, a} : conns' = [conns EXCEPT ![d] = y]
    BY <2>4
  <2>8. y.commands = Tail(x.commands)
    BY <2>5, <2>6
  <2>9. \/ conns'[c].commands = conns[c].commands
        \/ conns[c].commands # <<>> /\ conns'[c].commands = Tail(conns[c].commands)
    <3>1. conns'[c] = IF c = d THEN y ELSE conns[c]
      BY <2>7, ConnTyped
    <3>2. CASE c = d
      <4>1. conns'[c].commands = Tail(conns[c].commands) /\ conns[c].commands # <<>>
        BY <2>1, <2>8, <3>1, <3>2
      <4> QED  BY <4>1
    <3>3. CASE c # d
      BY <3>1, <3>3
    <3> QED  BY <3>2, <3>3
  <2> QED  BY <2>9, QueueStays, QueueShrinks
<1>7. CASE Bridge(d)
  <2>1. conns'[c].commands = conns[c].commands
    <3> DEFINE t == [x EXCEPT !.events = Tail(@)]
               f == [conns EXCEPT ![d].bridge = FALSE]
    <3>1. CASE conns' = [conns EXCEPT ![d].events = Tail(@)]
      <4>1. t.commands = x.commands /\ conns' = [conns EXCEPT ![d] = t]
        BY <1>1, <3>1 DEF Conversations
      <4> HIDE DEF t
      <4> QED  BY <4>1, ConnTyped
    <3>2. CASE conns' = [f EXCEPT ![d].events = <<>>]
      <4>1. f[d] = [x EXCEPT !.bridge = FALSE] /\ DOMAIN f = DOMAIN conns
            /\ \A b \in DOMAIN conns : b # d => f[b] = conns[b]
        BY ConnTyped
      <4>2. conns' = [f EXCEPT ![d] = [f[d] EXCEPT !.events = <<>>]]
        BY <3>2
      <4>3. [f[d] EXCEPT !.events = <<>>].commands = x.commands
        BY <1>1, <4>1 DEF Conversations
      <4> HIDE DEF f
      <4> QED  BY <4>1, <4>2, <4>3, ConnTyped
    <3> QED  BY <1>7, <3>1, <3>2 DEF Bridge
  <2> QED  BY <2>1, QueueStays
<1> QED
  BY <1>2, <1>3, <1>4, <1>5, <1>6, <1>7 DEF Driver

\* An agent is told that it may only if the user said so, to this request or for always,
\* or it left no other way (agent_handle_permission, PermissionStore), whatever rules are
\* saved, replaced and lost by restarts.
THEOREM ToldOnlyWhatIsAllowed == Spec => AllowedByTheUser
<1> DEFINE Told1 == \A c \in DOMAIN conns : c \in DOMAIN conns' =>
                      \A t \in Told(c) : t.kind = "answer" /\ t.outcome = "allow" => Allowed(t)
<1>1. ASSUME AgentInv, [Next]_vars PROVE [Told1]_vars
  <2> SUFFICES ASSUME Next, NEW c \in DOMAIN conns, c \in DOMAIN conns', NEW t \in Told(c),
                      t.kind = "answer", t.outcome = "allow"
               PROVE  Allowed(t)
    BY <1>1
  <2> USE <1>1
  <2>1. c \in 1..Len(conns) /\ Len(conns) \in Nat
    BY ConnTyped
  <2>2. CASE Connect
    <3>1. conns'[c] = conns[c]
      BY <2>1, <2>2, ConnTyped, NoTurnYet DEF Connect
    <3> QED  BY <2>1, <3>1, QueueStays
  <2>3. CASE SendPrompt
    <3> DEFINE command == [kind |-> "prompt", id |-> prompts + 1]
    <3>1. command \in Commands /\ command.kind = "prompt" /\ Dispatch(command)
      BY <2>3 DEF SendPrompt, Commands, Prompts, AgentInv, AgentTyped
    <3> HIDE DEF command
    <3>2. t = command
      BY <2>1, <3>1, ToldWhatWasSent
    <3> QED  BY <3>1, <3>2
  <2>4. CASE Restart
    BY <2>4 DEF Restart
  <2>5. CASE Drain
    <3> DEFINE from == Head(bg).conn  event == Head(bg).event
    <3>1. from \in Nat /\ event \in Events \cup {Ready}
      <4>1. Head(bg) \in Reports
        BY <2>5 DEF Drain, AgentInv, AgentTyped
      <4> QED  BY <4>1 DEF Reports
    <3>2. Receive(from, event)
      BY <2>5 DEF Drain
    <3> HIDE DEF from, event
    <3>3. CASE event.kind = "ready"
      <4> DEFINE at(d) == IF d = from THEN [conns[d] EXCEPT !.handle = "app"]
                          ELSE IF d = client THEN [conns[d] EXCEPT !.handle = "nobody"]
                          ELSE conns[d]
      <4>1. conns' = [d \in DOMAIN conns |-> at(d)]
        BY <3>2, <3>3 DEF Receive
      <4>2. at(c).commands = conns[c].commands
        BY <2>1, ConnTyped DEF Conversations
      <4> HIDE DEF at
      <4>3. conns'[c].commands = conns[c].commands
        BY <4>1, <4>2
      <4> QED  BY <2>1, <4>3, QueueStays
    <3>4. CASE event.kind \in {"ended", "note"}
      <4>1. conns' = conns
        BY <3>2, <3>4 DEF Receive
      <4> QED  BY <2>1, <4>1, QueueStays
    <3>5. CASE event.kind = "permission"
      <4>1. AskPermission(from, event.ask)
        BY <3>2, <3>5 DEF Receive
      <4>2. event.ask \in Questions /\ event.ask.program \in Programs /\ event.ask.offers \in Offers
        BY <3>1, <3>5, KindsOfReports DEF Questions
      <4>3. CASE Check(event.ask.program) = "ask"
        <5>1. conns' = conns
          BY <4>1, <4>3 DEF AskPermission
        <5> QED  BY <2>1, <5>1, QueueStays
      <4>4. CASE Check(event.ask.program) # "ask"
        <5> DEFINE wanted == Check(event.ask.program)
                   outcome == Outcome(event.ask.offers, wanted)
        <5>1. wanted = choice[event.ask.program] /\ wanted \in Decisions
          BY <4>2, <4>4, CheckIsTheChoice
        <5>2. outcome \in Kinds
          BY <4>2, <5>1, OutcomeIsKind
        <5>3. Answer(from, event.ask, outcome)
          BY <4>1, <4>4 DEF AskPermission
        <5>4. outcome = "allow" => wanted = "allow" \/ wanted \notin ToSet(event.ask.offers)
          BY DEF Outcome
        <5> HIDE DEF wanted, outcome
        <5>5. PICK command \in AgentAnswers : Dispatch(command) /\ command.outcome = outcome /\ command.ask = event.ask
          BY <3>1, <4>2, <5>2, <5>3, AnswersTyped
        <5>6. t = command
          BY <2>1, <5>5, ToldWhatWasSent DEF Commands
        <5>7. wanted = "allow" \/ wanted \notin ToSet(t.ask.offers)
          BY <5>4, <5>5, <5>6
        <5>8. wanted = "allow" \/ "reject" \notin ToSet(t.ask.offers)
          <6>1. wanted # "ask" /\ wanted \in Decisions
            BY <4>4, <5>1 DEF wanted
          <6> QED  BY <5>7, <6>1 DEF Decisions
        <5>9. wanted = "allow" => choice[t.ask.program] = "allow"
          BY <5>1, <5>5, <5>6
        <5> QED  BY <5>8, <5>9 DEF Allowed
      <4> QED  BY <4>3, <4>4
    <3>6. CASE event.kind = "file"
      <4>1. Answer(from, event.ask, "done") /\ event.ask \in Questions /\ "done" \in Kinds
        BY <3>1, <3>2, <3>6, KindsOfReports DEF Receive, Kinds
      <4>2. PICK command \in AgentAnswers : Dispatch(command) /\ command.outcome = "done"
        BY <3>1, <4>1, AnswersTyped
      <4>3. t = command
        BY <2>1, <4>2, ToldWhatWasSent DEF Commands
      <4> QED  BY <4>2, <4>3
    <3> QED  BY <3>1, <3>3, <3>4, <3>5, <3>6, KindsOfReports
  <2>6. ASSUME NEW d \in {"allow", "reject"}, NEW always \in BOOLEAN, Decide(d, always)
        PROVE  Allowed(t)
    <3> DEFINE outcome == Outcome(perm.ask.offers, d)
    <3>1. perm \in [conn : Nat, ask : Questions] /\ perm.ask \in Questions /\ perm.conn \in Nat
          /\ perm.ask.offers \in Offers
      BY <2>6 DEF Decide, AgentInv, AgentTyped, Questions
    <3>2. outcome \in Kinds
      BY <3>1, OutcomeIsKind DEF Decisions
    <3>3. Answer(perm.conn, perm.ask, outcome)
      BY <2>6 DEF Decide
    <3>4. outcome = "allow" => d = "allow" \/ d \notin ToSet(perm.ask.offers)
      BY DEF Outcome
    <3> HIDE DEF outcome
    <3>5. PICK command \in AgentAnswers : /\ Dispatch(command) /\ command.outcome = outcome
                                    /\ command.from = perm.conn /\ command.ask = perm.ask
      BY <3>1, <3>2, <3>3, AnswersTyped
    <3>6. t = command
      BY <2>1, <3>5, ToldWhatWasSent DEF Commands
    <3>7. perm = [conn |-> t.from, ask |-> t.ask]
      BY <3>1, <3>5, <3>6
    <3>8. d = "allow" \/ "reject" \notin ToSet(t.ask.offers)
      BY <3>4, <3>5, <3>6
    <3>9. CASE d = "allow"
      BY <2>6, <3>7, <3>9 DEF Allowed
    <3> QED  BY <3>8, <3>9 DEF Allowed
  <2>7. ASSUME NEW d \in DOMAIN conns,
               HandOver(d) \/ Answered(d) \/ Asks(d) \/ AgentExits(d) \/ Driver(d) \/ Bridge(d)
        PROVE  Allowed(t)
    BY <2>1, <2>7, DriversTellNothing, ConnTyped
  <2> QED  BY <2>2, <2>3, <2>4, <2>5, <2>6, <2>7 DEF Next
<1> QED
  BY <1>1, InitKeeps, StepKeeps, PTL DEF Spec, AllowedByTheUser

-----------------------------------------------------------------------------
\* The debugger.
Frames == Nat \X Nat
Args == Frames \cup SUBSET Lines
CommandKinds == {"initialize", "launch", "configured", "breakpoints", "stack", "scopes", "variables",
          "continue", "step", "disconnect"}
DapCommands == [kind : CommandKinds, arg : Args]
StackEvents == [kind : {"stack"}, arg : Frames, depth : Nat]
ArgEvents == [kind : {"scopes", "variables"}, arg : Args]
PlainEvents == [kind : {"note", "stopped", "continued", "terminated"}]
DapEvents == StackEvents \cup ArgEvents \cup PlainEvents
DapReports == [session : Nat, event : DapEvents \cup {DapReady}]
Sessions ==
  [driver : {"running", "ended"}, handle : {"task", "bg", "app", "nobody"},
   requests : Seq(DapCommands), commands : Seq(DapCommands), events : Seq(DapEvents), bridge : BOOLEAN,
   known : Args, configured : BOOLEAN,
   adapter : {"new", "launched", "running", "stopped", "terminated", "gone"},
   set : Args, stop : Nat, depth : Nat, hasty : BOOLEAN]
Views == [marker : Nat, stop : Nat, frames : Nat, selected : Nat, vars : Args]

\* No breakpoints on their way.
Plain(queue) == \A k \in 1..Len(queue) : queue[k].kind # "breakpoints"

\* Once all that is on its way has come, what was from is to.
Settles(queue, from, to) ==
  \/ Plain(queue) /\ from = to
  \/ \E k \in 1..Len(queue) :
       /\ queue[k].kind = "breakpoints" /\ queue[k].arg = to
       /\ \A l \in 1..Len(queue) : l > k => queue[l].kind # "breakpoints"

\* A client not yet taken was told nothing; an adapter not yet configured has nothing; one
\* that is gets what the driver knows.
IsTold(s) ==
  /\ s.handle \in {"task", "bg"} => s.commands = <<>> /\ s.known = {}
  /\ ~s.configured => s.set = {} /\ Plain(s.requests)
  /\ s.configured /\ Up(s) => Settles(s.requests, s.set, s.known)

\* The driver of the client gets what is in the gutter.
Following ==
  dapClient # 0 /\ ~dropped =>
    Settles(sessions[dapClient].commands, sessions[dapClient].known, breakpoints)

SessionsTold ==
  /\ sessions \in Seq(Sessions)
  /\ \A i \in 1..Len(sessions) : IsTold(sessions[i])
  /\ dapClient \in 0..Len(sessions)
  /\ \A i \in 1..Len(sessions) : sessions[i].handle = "app" <=> i = dapClient

\* A client reported ready waits for the event loop, which hears of it once.
ReadyOnce ==
  /\ dapBg \in Seq(DapReports)
  /\ \A k \in 1..Len(dapBg) : /\ dapBg[k].session \in 1..Len(sessions)
                              /\ dapBg[k].event.kind = "ready" => sessions[dapBg[k].session].handle = "bg"
  /\ \A k, l \in 1..Len(dapBg) :
       dapBg[k].event.kind = "ready" /\ dapBg[l].event.kind = "ready" /\ dapBg[k].session = dapBg[l].session
         => k = l

GutterTyped ==
  /\ breakpoints \in SUBSET Lines
  /\ toggles \in Nat
  /\ toggles = 0 => breakpoints = {}
  /\ view \in Views

DapInv == SessionsTold /\ Following /\ ReadyOnce /\ GutterTyped

-----------------------------------------------------------------------------
\* An empty queue brings nothing.
LEMMA SettledNow ==
  ASSUME NEW from, NEW to
  PROVE  Settles(<<>>, from, to) <=> from = to
  BY DEF Settles, Plain

\* Breakpoints put last in a queue are those that count.
LEMMA SettlesLast ==
  ASSUME NEW q \in Seq(DapCommands), NEW c \in DapCommands, c.kind = "breakpoints", NEW from
  PROVE  Settles(Append(q, c), from, c.arg)
<1>1. Len(Append(q, c)) = Len(q) + 1 /\ Append(q, c)[Len(q) + 1] = c /\ Len(q) \in Nat
  OBVIOUS
<1>2. Len(q) + 1 \in 1..Len(Append(q, c))
  BY <1>1
<1>3. \A l \in 1..Len(Append(q, c)) : ~(l > Len(q) + 1)
  BY <1>1
<1> QED
  BY <1>1, <1>2, <1>3 DEF Settles

\* Anything else put last changes nothing.
LEMMA SettlesOther ==
  ASSUME NEW q \in Seq(DapCommands), NEW c \in DapCommands, c.kind # "breakpoints", NEW from, NEW to,
         Settles(q, from, to)
  PROVE  Settles(Append(q, c), from, to)
<1> DEFINE p == Append(q, c)
<1>1. Len(p) = Len(q) + 1 /\ p[Len(q) + 1] = c /\ Len(q) \in Nat
      /\ \A k \in 1..Len(q) : p[k] = q[k]
  OBVIOUS
<1> HIDE DEF p
<1>2. \A k \in 1..Len(p) : k \in 1..Len(q) \/ p[k].kind # "breakpoints"
  BY <1>1
<1>3. CASE Plain(q) /\ from = to
  BY <1>1, <1>2, <1>3 DEF Settles, Plain, p
<1>4. ASSUME NEW k \in 1..Len(q), q[k].kind = "breakpoints", q[k].arg = to,
             \A l \in 1..Len(q) : l > k => q[l].kind # "breakpoints"
      PROVE  Settles(p, from, to)
  <2>1. k \in 1..Len(p) /\ p[k] = q[k]
    BY <1>1
  <2>2. \A l \in 1..Len(p) : l > k => p[l].kind # "breakpoints"
    BY <1>1, <1>2, <1>4
  <2> QED  BY <1>4, <2>1, <2>2 DEF Settles
<1> QED
  BY <1>3, <1>4 DEF Settles, p

\* A queue without its first.
LEMMA TailOf ==
  ASSUME NEW q \in Seq(DapCommands), q # <<>>
  PROVE  /\ Head(q) \in DapCommands /\ Head(q) = q[1] /\ Tail(q) \in Seq(DapCommands)
         /\ Len(q) \in Nat \ {0} /\ Len(Tail(q)) = Len(q) - 1
         /\ \A k \in 1..Len(Tail(q)) : Tail(q)[k] = q[k + 1]
  OBVIOUS

\* What comes first counts until something else comes.
LEMMA SettlesFirst ==
  ASSUME NEW q \in Seq(DapCommands), q # <<>>, NEW from, NEW to, Settles(q, from, to)
  PROVE  Settles(Tail(q), IF Head(q).kind = "breakpoints" THEN Head(q).arg ELSE from, to)
<1> DEFINE t == Tail(q)  now == IF Head(q).kind = "breakpoints" THEN Head(q).arg ELSE from
<1>1. /\ Head(q) = q[1] /\ Len(q) \in Nat \ {0} /\ Len(t) = Len(q) - 1
      /\ \A k \in 1..Len(t) : t[k] = q[k + 1]
  BY TailOf
<1> HIDE DEF t
<1>2. \A k \in 1..Len(t) : k + 1 \in 1..Len(q)
  BY <1>1
<1>3. ASSUME Plain(q), from = to PROVE Settles(t, now, to)
  <2>1. 1 \in 1..Len(q)
    BY <1>1
  <2>2. now = to
    BY <1>1, <1>3, <2>1 DEF Plain
  <2>3. Plain(t)
    BY <1>1, <1>2, <1>3 DEF Plain
  <2> QED  BY <2>2, <2>3 DEF Settles, t
<1>4. ASSUME NEW k \in 1..Len(q), q[k].kind = "breakpoints", q[k].arg = to,
             \A l \in 1..Len(q) : l > k => q[l].kind # "breakpoints"
      PROVE  Settles(t, now, to)
  <2>1. CASE k = 1
    <3>1. now = to
      BY <1>1, <1>4, <2>1
    <3>2. \A l \in 1..Len(t) : l + 1 > k
      BY <2>1
    <3>3. Plain(t)
      BY <1>1, <1>2, <1>4, <3>2 DEF Plain
    <3> QED  BY <3>1, <3>3 DEF Settles
  <2>2. CASE k # 1
    <3>1. k - 1 \in 1..Len(t) /\ (k - 1) + 1 = k
      BY <1>1, <2>2
    <3>2. t[k - 1] = q[k]
      BY <1>1, <3>1
    <3>3. \A l \in 1..Len(t) : l > k - 1 => l + 1 > k
      OBVIOUS
    <3>4. \A l \in 1..Len(t) : l > k - 1 => t[l].kind # "breakpoints"
      BY <1>1, <1>2, <1>4, <3>3
    <3> QED  BY <1>4, <3>1, <3>2, <3>4 DEF Settles
  <2> QED  BY <2>1, <2>2
<1> HIDE DEF now
<1>5. Settles(t, now, to)
  BY <1>3, <1>4 DEF Settles, t
<1> QED
  BY <1>5 DEF t, now

\* A queue without breakpoints stays so.
LEMMA PlainStays ==
  ASSUME NEW q \in Seq(DapCommands), Plain(q)
  PROVE  /\ \A c \in DapCommands : c.kind # "breakpoints" => Plain(Append(q, c))
         /\ q # <<>> => Plain(Tail(q)) /\ Head(q).kind # "breakpoints"
<1>1. ASSUME NEW c \in DapCommands, c.kind # "breakpoints" PROVE Plain(Append(q, c))
  <2> DEFINE p == Append(q, c)
  <2>1. Len(p) = Len(q) + 1 /\ p[Len(q) + 1] = c /\ Len(q) \in Nat
        /\ \A k \in 1..Len(q) : p[k] = q[k]
    OBVIOUS
  <2> HIDE DEF p
  <2>2. \A k \in 1..Len(p) : p[k].kind # "breakpoints"
    BY <1>1, <2>1 DEF Plain
  <2> QED  BY <2>2 DEF Plain, p
<1>2. ASSUME q # <<>> PROVE Plain(Tail(q)) /\ Head(q).kind # "breakpoints"
  <2>1. \A k \in 1..Len(Tail(q)) : k + 1 \in 1..Len(q)
    BY <1>2, TailOf
  <2>2. 1 \in 1..Len(q)
    BY <1>2, TailOf
  <2> QED  BY <1>2, <2>1, <2>2, TailOf DEF Plain
<1> QED
  BY <1>1, <1>2

-----------------------------------------------------------------------------
\* A session that may stand in the place of the one it was.
Stands(i, s) ==
  /\ s \in Sessions /\ IsTold(s)
  /\ s.handle = sessions[i].handle
  /\ i = dapClient /\ ~dropped => Settles(s.commands, s.known, breakpoints)

\* One session changes and may stand in its place: the invariant stays.
LEMMA OneSession ==
  ASSUME DapInv, UNCHANGED dapEditor, NEW i \in DOMAIN sessions, NEW s, Stands(i, s),
         sessions' = [sessions EXCEPT ![i] = s]
  PROVE  DapInv'
<1>1. sessions \in Seq(Sessions) /\ i \in 1..Len(sessions) /\ s \in Sessions
      /\ dapClient \in 0..Len(sessions) /\ Len(sessions) \in Nat
  BY DEF DapInv, SessionsTold, Stands
<1>2. sessions' \in Seq(Sessions) /\ Len(sessions') = Len(sessions)
      /\ \A j \in 1..Len(sessions) : sessions'[j] = IF j = i THEN s ELSE sessions[j]
  BY <1>1, ExceptSeq
<1>3. UNCHANGED <<dapClient, breakpoints, view, dapBg, toggles, dropped>>
  BY DEF dapEditor
<1>4. \A j \in 1..Len(sessions) : sessions'[j].handle = sessions[j].handle
  BY <1>2 DEF Stands
<1>5. SessionsTold'
  <2>1. \A j \in 1..Len(sessions) : IsTold(sessions[j])'
    BY <1>2 DEF Stands, DapInv, SessionsTold, IsTold, Up, DapRunning
  <2>2. \A j \in 1..Len(sessions) : sessions'[j].handle = "app" <=> j = dapClient
    BY <1>4 DEF DapInv, SessionsTold
  <2> QED  BY <1>1, <1>2, <1>3, <2>1, <2>2 DEF SessionsTold
<1>6. Following'
  <2>1. dapClient # 0 => dapClient \in 1..Len(sessions)
    BY <1>1
  <2> QED  BY <1>2, <1>3, <2>1 DEF Following, DapInv, Stands
<1>7. ReadyOnce'
  BY <1>2, <1>3, <1>4 DEF DapInv, ReadyOnce
<1>8. GutterTyped'
  BY <1>3 DEF DapInv, GutterTyped
<1> QED
  BY <1>5, <1>6, <1>7, <1>8 DEF DapInv

\* A session that ended is told nothing and told to nobody.
LEMMA StoppedStands ==
  ASSUME NEW i, NEW s, Stands(i, s)
  PROVE  Stands(i, DapStopped(s))
<1> DEFINE e == [s EXCEPT !.driver = "ended"]
           a == IF s.adapter = "terminated" THEN s.adapter ELSE "gone"
<1>1. s \in Sessions
  BY DEF Stands
<1>2. e \in Sessions /\ e.driver = "ended" /\ e.adapter = s.adapter /\ e.handle = s.handle
      /\ e.commands = s.commands /\ e.known = s.known /\ e.requests = s.requests
      /\ e.set = s.set /\ e.configured = s.configured
  BY <1>1 DEF Sessions
<1>3. DapStopped(s) = [e EXCEPT !.adapter = a]
  BY <1>2 DEF DapStopped
<1>4. a \in {"new", "launched", "running", "stopped", "terminated", "gone"}
  BY <1>1 DEF Sessions
<1> HIDE DEF e, a
<1>5. /\ DapStopped(s) \in Sessions /\ DapStopped(s).driver = "ended" /\ DapStopped(s).handle = s.handle
      /\ DapStopped(s).commands = s.commands /\ DapStopped(s).known = s.known
      /\ DapStopped(s).requests = s.requests /\ DapStopped(s).set = s.set
      /\ DapStopped(s).configured = s.configured
  BY <1>2, <1>3, <1>4 DEF Sessions
<1>6. IsTold(DapStopped(s))
  BY <1>5 DEF IsTold, Stands, Up, DapRunning
<1> QED
  BY <1>5, <1>6 DEF Stands

\* What a session says does not matter to what it was told.
LEMMA EventsStand ==
  ASSUME NEW i, NEW s, Stands(i, s), NEW e \in Seq(DapEvents)
  PROVE  Stands(i, [s EXCEPT !.events = e])
<1> DEFINE t == [s EXCEPT !.events = e]
<1>1. /\ t \in Sessions /\ t.driver = s.driver /\ t.handle = s.handle
      /\ t.commands = s.commands /\ t.known = s.known
      /\ t.requests = s.requests /\ t.set = s.set
      /\ t.configured = s.configured /\ t.adapter = s.adapter
  BY DEF Stands, Sessions
<1> HIDE DEF t
<1>2. IsTold(t)
  BY <1>1 DEF IsTold, Stands, Up, DapRunning
<1>3. Stands(i, t)
  BY <1>1, <1>2 DEF Stands
<1> QED
  BY <1>3 DEF t

\* What the driver does with or without an event (DapEmit, Quietly).
LEMMA EmitStands ==
  ASSUME DapInv, NEW i \in DOMAIN sessions, NEW s, Stands(i, s), NEW event \in DapEvents,
         DapEmit(i, s, event)
  PROVE  DapInv'
<1>1. s.events \in Seq(DapEvents)
  BY DEF Stands, Sessions
<1>2. Append(s.events, event) \in Seq(DapEvents)
  BY <1>1
<1>3. Stands(i, [s EXCEPT !.events = Append(s.events, event)]) /\ Stands(i, DapStopped(s))
  BY <1>2, EventsStand, StoppedStands
<1>4. UNCHANGED dapEditor
  BY DEF DapEmit
<1>5. \/ sessions' = [sessions EXCEPT ![i] = [s EXCEPT !.events = Append(s.events, event)]]
      \/ sessions' = [sessions EXCEPT ![i] = DapStopped(s)]
  BY DEF DapEmit
<1> QED
  BY <1>3, <1>4, <1>5, OneSession

\* A step of the driver or the adapter without an event.
LEMMA QuietlyStands ==
  ASSUME DapInv, NEW i \in DOMAIN sessions, NEW s, Stands(i, s), Quietly(i, s)
  PROVE  DapInv'
  BY OneSession DEF Quietly

\* A session as it is stands for itself.
LEMMA ItselfStands ==
  ASSUME DapInv, NEW i \in DOMAIN sessions
  PROVE  Stands(i, sessions[i])
<1>1. i \in 1..Len(sessions) /\ sessions[i] \in Sessions
  BY DEF DapInv, SessionsTold
<1> QED
  BY <1>1 DEF Stands, DapInv, SessionsTold, Following

\* What the adapter is at, as long as it was up before.
LEMMA AdapterStands ==
  ASSUME NEW i, NEW s, Stands(i, s), Up(s),
         NEW a \in {"new", "launched", "running", "stopped", "terminated", "gone"}
  PROVE  Stands(i, [s EXCEPT !.adapter = a])
<1> DEFINE t == [s EXCEPT !.adapter = a]
<1>1. /\ t \in Sessions /\ t.driver = s.driver /\ t.handle = s.handle
      /\ t.commands = s.commands /\ t.known = s.known
      /\ t.requests = s.requests /\ t.set = s.set
      /\ t.configured = s.configured
  BY DEF Stands, Sessions
<1> HIDE DEF t
<1>2. IsTold(t)
  BY <1>1 DEF IsTold, Stands, Up, DapRunning
<1>3. Stands(i, t)
  BY <1>1, <1>2 DEF Stands
<1> QED
  BY <1>3 DEF t

\* A request that is not about breakpoints.
LEMMA RequestStands ==
  ASSUME NEW i, NEW s, Stands(i, s), NEW c \in DapCommands, c.kind # "breakpoints"
  PROVE  Stands(i, [s EXCEPT !.requests = Append(s.requests, c)])
<1> DEFINE t == [s EXCEPT !.requests = Append(s.requests, c)]
<1>0. s.requests \in Seq(DapCommands) /\ Append(s.requests, c) \in Seq(DapCommands)
  BY DEF Stands, Sessions
<1>1. /\ t \in Sessions /\ t.driver = s.driver /\ t.handle = s.handle
      /\ t.commands = s.commands /\ t.known = s.known
      /\ t.requests = Append(s.requests, c) /\ t.set = s.set
      /\ t.configured = s.configured /\ t.adapter = s.adapter
  BY <1>0 DEF Stands, Sessions
<1> HIDE DEF t
<1>2. ~t.configured => t.set = {} /\ Plain(t.requests)
  BY <1>0, <1>1, PlainStays DEF IsTold, Stands
<1>3. t.configured /\ Up(t) => Settles(t.requests, t.set, t.known)
  BY <1>0, <1>1, SettlesOther DEF IsTold, Stands, Up, DapRunning
<1>4. Stands(i, t)
  BY <1>1, <1>2, <1>3 DEF Stands, IsTold
<1> QED
  BY <1>4 DEF t

\* The adapter's oldest request is answered.
LEMMA AnsweredStands ==
  ASSUME NEW i, NEW s, Stands(i, s), s.requests # <<>>
  PROVE  /\ Head(s.requests) \in DapCommands
         /\ Head(s.requests).kind # "breakpoints" => Stands(i, [s EXCEPT !.requests = Tail(s.requests)])
         /\ Head(s.requests).kind = "breakpoints"
              => Stands(i, [[s EXCEPT !.requests = Tail(s.requests)] EXCEPT !.set = Head(s.requests).arg])
<1> DEFINE r == Head(s.requests)
           q == Tail(s.requests)
           t == [s EXCEPT !.requests = q]
           u == [t EXCEPT !.set = r.arg]
<1>0. s.requests \in Seq(DapCommands) /\ r \in DapCommands /\ q \in Seq(DapCommands) /\ r.arg \in Args
  BY TailOf DEF Stands, Sessions, DapCommands
<1> HIDE DEF r, q
<1>1. /\ t \in Sessions /\ t.driver = s.driver /\ t.handle = s.handle
      /\ t.commands = s.commands /\ t.known = s.known
      /\ t.requests = q /\ t.set = s.set
      /\ t.configured = s.configured /\ t.adapter = s.adapter
  BY <1>0 DEF Stands, Sessions
<1> HIDE DEF t
<1>2. /\ u \in Sessions /\ u.driver = s.driver /\ u.handle = s.handle
      /\ u.commands = s.commands /\ u.known = s.known
      /\ u.requests = q /\ u.set = r.arg
      /\ u.configured = s.configured /\ u.adapter = s.adapter
  BY <1>0, <1>1 DEF Sessions
<1> HIDE DEF u
<1>3. ~s.configured => r.kind # "breakpoints" /\ Plain(q) /\ s.set = {}
  BY <1>0, PlainStays DEF IsTold, Stands, r, q
<1>4. s.configured /\ Up(s)
        => Settles(q, IF r.kind = "breakpoints" THEN r.arg ELSE s.set, s.known)
  BY <1>0, SettlesFirst DEF IsTold, Stands, r, q
<1>5. r.kind # "breakpoints" => Stands(i, t)
  BY <1>1, <1>3, <1>4 DEF Stands, IsTold, Up, DapRunning
<1>6. r.kind = "breakpoints" => Stands(i, u)
  BY <1>2, <1>3, <1>4 DEF Stands, IsTold, Up, DapRunning
<1> QED
  BY <1>0, <1>5, <1>6 DEF t, u, r, q

\* What is only shown is an event like another.
LEMMA NoteIsEvent == DapNote \in DapEvents
  BY DEF DapNote, DapEvents, PlainEvents

\* A request is a command of its kind, without breakpoints.
LEMMA RequestIsCommand ==
  ASSUME NEW kind \in CommandKinds
  PROVE  Request(kind) \in DapCommands /\ Request(kind).kind = kind
  BY DEF Request, DapCommands, NoFrame, Args, Frames

\* The adapter answers: breakpoints are set, the rest changes none.
LEMMA AnswersFollow == ASSUME DapInv, NEW i \in DOMAIN sessions, Answers(i) PROVE DapInv'
<1> DEFINE r == Head(sessions[i].requests)
           s == [sessions[i] EXCEPT !.requests = Tail(@)]
<1>1. Stands(i, sessions[i]) /\ sessions[i].requests # <<>> /\ Up(sessions[i])
      /\ sessions[i] \in Sessions
  BY ItselfStands DEF Answers, Stands
<1>2. /\ r \in DapCommands
      /\ r.kind # "breakpoints" => Stands(i, s)
      /\ r.kind = "breakpoints" => Stands(i, [s EXCEPT !.set = r.arg])
  BY <1>1, AnsweredStands
<1>3. r.arg \in Args /\ r.kind \in CommandKinds
  BY <1>2 DEF DapCommands
<1>4. s.stop \in Nat /\ s.depth \in Nat /\ Up(s)
      /\ s.requests = Tail(sessions[i].requests)
  BY <1>1 DEF Sessions, Up, DapRunning
<1>5. \/ r.kind = "initialize" /\ DapEmit(i, [s EXCEPT !.requests = Append(@, Request("launch"))], DapNote)
      \/ r.kind = "launch" /\ Quietly(i, [s EXCEPT !.adapter = "launched"])
      \/ r.kind = "breakpoints" /\ DapEmit(i, [s EXCEPT !.set = r.arg], DapNote)
      \/ r.kind = "configured" /\ Quietly(i, [s EXCEPT !.adapter = "running"])
      \/ /\ r.kind \in {"stack", "scopes", "variables"}
         /\ IF s.adapter # "stopped" THEN DapEmit(i, s, DapNote)
            ELSE IF r.kind = "stack"
            THEN DapEmit(i, s, [kind |-> "stack", arg |-> <<s.stop, 0>>, depth |-> s.depth])
            ELSE DapEmit(i, s, [kind |-> r.kind, arg |-> r.arg])
      \/ /\ r.kind = "continue"
         /\ IF s.adapter # "stopped" THEN DapEmit(i, s, DapNote)
            ELSE DapEmit(i, [s EXCEPT !.adapter = "running"], [kind |-> "continued"])
      \/ /\ r.kind = "step"
         /\ IF s.adapter # "stopped" THEN DapEmit(i, s, DapNote)
            ELSE Quietly(i, [s EXCEPT !.adapter = "running"])
  BY DEF Answers
<1> HIDE DEF s, r
<1>6. CASE r.kind = "initialize" /\ DapEmit(i, [s EXCEPT !.requests = Append(@, Request("launch"))], DapNote)
  <2>1. Stands(i, [s EXCEPT !.requests = Append(s.requests, Request("launch"))])
    <3>1. "launch" \in CommandKinds /\ "launch" # "breakpoints"
      BY DEF CommandKinds
    <3>2. Request("launch") \in DapCommands /\ Request("launch").kind # "breakpoints"
      BY <3>1, RequestIsCommand
    <3>3. Stands(i, s)
      BY <1>2, <1>6
    <3> QED  BY <3>2, <3>3, RequestStands
  <2> QED  BY <1>6, <2>1, NoteIsEvent, EmitStands
<1>7. CASE r.kind = "launch" /\ Quietly(i, [s EXCEPT !.adapter = "launched"])
  <2>1. Stands(i, [s EXCEPT !.adapter = "launched"])
    BY <1>2, <1>4, <1>7, AdapterStands
  <2> QED  BY <1>7, <2>1, QuietlyStands
<1>8. CASE r.kind = "breakpoints" /\ DapEmit(i, [s EXCEPT !.set = r.arg], DapNote)
  BY <1>2, <1>8, NoteIsEvent, EmitStands
<1>9. CASE r.kind = "configured" /\ Quietly(i, [s EXCEPT !.adapter = "running"])
  <2>1. Stands(i, [s EXCEPT !.adapter = "running"])
    BY <1>2, <1>4, <1>9, AdapterStands
  <2> QED  BY <1>9, <2>1, QuietlyStands
<1>10. CASE r.kind \in {"stack", "scopes", "variables"}
  <2>1. Stands(i, s)
    BY <1>2, <1>10
  <2>2. [kind |-> "stack", arg |-> <<s.stop, 0>>, depth |-> s.depth] \in DapEvents
    BY <1>4 DEF DapEvents, StackEvents, Frames
  <2>3. r.kind # "stack" => [kind |-> r.kind, arg |-> r.arg] \in DapEvents
    BY <1>3, <1>10 DEF DapEvents, ArgEvents
  <2>4. \/ DapEmit(i, s, DapNote)
        \/ DapEmit(i, s, [kind |-> "stack", arg |-> <<s.stop, 0>>, depth |-> s.depth])
        \/ r.kind # "stack" /\ DapEmit(i, s, [kind |-> r.kind, arg |-> r.arg])
    BY <1>5, <1>10
  <2> QED  BY <2>1, <2>2, <2>3, <2>4, NoteIsEvent, EmitStands
<1>11. CASE r.kind \in {"continue", "step"}
  <2>1. Stands(i, s)
    BY <1>2, <1>11
  <2>2. Stands(i, [s EXCEPT !.adapter = "running"])
    BY <1>4, <2>1, AdapterStands
  <2>3. [kind |-> "continued"] \in DapEvents
    BY DEF DapEvents, PlainEvents
  <2>4. \/ DapEmit(i, s, DapNote)
        \/ DapEmit(i, [s EXCEPT !.adapter = "running"], [kind |-> "continued"])
        \/ Quietly(i, [s EXCEPT !.adapter = "running"])
    BY <1>5, <1>11
  <2> QED  BY <2>1, <2>2, <2>3, <2>4, NoteIsEvent, EmitStands, QuietlyStands
<1> QED
  BY <1>5, <1>6, <1>7, <1>8, <1>9, <1>10, <1>11

\* The adapter is configured with what the driver knows by then.
LEMMA InitializedFollows == ASSUME DapInv, NEW i \in DOMAIN sessions, Initialized(i) PROVE DapInv'
<1> DEFINE s == sessions[i]
           c == [kind |-> "breakpoints", arg |-> s.known]
           told == IF s.known = {} THEN <<>> ELSE <<c>>
           q == s.requests \o told \o <<Request("configured")>>
           t == [s EXCEPT !.configured = TRUE]
           u == [t EXCEPT !.requests = q]
<1>1. Stands(i, s) /\ s \in Sessions /\ s.requests \in Seq(DapCommands) /\ s.known \in Args
      /\ ~s.configured /\ s.set = {} /\ Plain(s.requests)
  BY ItselfStands DEF Initialized, Stands, Sessions, IsTold
<1>2. DapEmit(i, [s EXCEPT !.configured = TRUE, !.requests = @ \o told \o <<Request("configured")>>], DapNote)
  BY DEF Initialized
<1>3. /\ t \in Sessions /\ t.driver = s.driver /\ t.handle = s.handle
      /\ t.commands = s.commands /\ t.known = s.known
      /\ t.requests = s.requests /\ t.set = s.set
      /\ t.configured /\ t.adapter = s.adapter
  BY <1>1 DEF Sessions
<1>4. [s EXCEPT !.configured = TRUE, !.requests = @ \o told \o <<Request("configured")>>] = u
  <2>1. [s EXCEPT !.configured = TRUE, !.requests = @ \o told \o <<Request("configured")>>]
          = [t EXCEPT !.requests = t.requests \o told \o <<Request("configured")>>]
    OBVIOUS
  <2>2. t.requests \o told \o <<Request("configured")>> = q
    <3>1. t.requests = s.requests
      BY <1>3
    <3> HIDE DEF t, told
    <3> QED  BY <3>1
  <2> HIDE DEF t, q, told, s
  <2> QED  BY <2>1, <2>2
<1>5. c \in DapCommands /\ c.kind = "breakpoints" /\ c.arg = s.known
  BY <1>1 DEF DapCommands, CommandKinds
<1> HIDE DEF c
<1>6. q \in Seq(DapCommands) /\ Settles(q, {}, s.known)
  <2> DEFINE d == Request("configured")
             p == s.requests \o told
  <2>0. d \in DapCommands /\ d.kind # "breakpoints"
    <3>1. "configured" \in CommandKinds /\ "configured" # "breakpoints"
      BY DEF CommandKinds
    <3> QED  BY <3>1, RequestIsCommand
  <2>1. CASE s.known = {}
    <3>0. told = <<>>
      BY <2>1
    <3>1. p = s.requests
      <4> HIDE DEF told, s
      <4> QED  BY <1>1, <3>0, ConcatEmptySeq
    <3>2. q = Append(s.requests, d)
      <4>1. q = p \o <<d>>
        OBVIOUS
      <4> HIDE DEF p, q, d, s
      <4> QED  BY <1>1, <2>0, <3>1, <4>1, AppendIsConcat
    <3> HIDE DEF q, d, s
    <3>3. Append(s.requests, d) \in Seq(DapCommands) /\ Plain(Append(s.requests, d))
      BY <1>1, <2>0, PlainStays
    <3> QED  BY <2>1, <3>2, <3>3 DEF Settles
  <2>2. CASE s.known # {}
    <3>0. told = <<c>>
      BY <2>2
    <3>1. p = Append(s.requests, c)
      <4> HIDE DEF told, s
      <4> QED  BY <1>1, <1>5, <3>0, AppendIsConcat
    <3>2. p \in Seq(DapCommands) /\ Settles(p, {}, s.known)
      <4> HIDE DEF p, s
      <4>1. Settles(Append(s.requests, c), {}, s.known)
        BY <1>1, <1>5, SettlesLast
      <4>2. Append(s.requests, c) \in Seq(DapCommands)
        BY <1>1, <1>5
      <4> QED  BY <3>1, <4>1, <4>2
    <3>3. q = p \o <<d>>
      OBVIOUS
    <3> HIDE DEF p, q, d, s
    <3>4. q = Append(p, d)
      BY <2>0, <3>2, <3>3, AppendIsConcat
    <3>5. Append(p, d) \in Seq(DapCommands)
      BY <2>0, <3>2
    <3> QED  BY <3>4, <3>5, <2>0, <3>2, <3>3, SettlesOther
  <2> QED  BY <2>1, <2>2
<1> HIDE DEF q, t, s
<1>7. /\ u \in Sessions /\ u.driver = s.driver /\ u.handle = s.handle
      /\ u.commands = s.commands /\ u.known = s.known
      /\ u.requests = q /\ u.set = s.set
      /\ u.configured /\ u.adapter = s.adapter
  BY <1>3, <1>6 DEF Sessions
<1> HIDE DEF u
<1>8. Stands(i, u)
  BY <1>1, <1>6, <1>7 DEF Stands, IsTold, Up, DapRunning
<1> QED
  BY <1>2, <1>4, <1>8, NoteIsEvent, EmitStands

\* The program stops, ends, or the adapter goes: what was told stays told.
LEMMA ProgramFollows ==
  ASSUME DapInv, NEW i \in DOMAIN sessions, Stops(i) \/ Terminates(i) \/ AdapterExits(i)
  PROVE  DapInv'
<1> DEFINE s == sessions[i]
<1>1. Stands(i, s) /\ Up(s) /\ s \in Sessions
  BY ItselfStands DEF Stops, Terminates, AdapterExits, Stands
<1>2. CASE AdapterExits(i)
  <2>1. Stands(i, [s EXCEPT !.adapter = "gone"])
    BY <1>1, AdapterStands
  <2> QED  BY <1>2, <2>1, QuietlyStands DEF AdapterExits
<1>3. CASE Terminates(i)
  <2> DEFINE t == [s EXCEPT !.adapter = "terminated"]
             u == [t EXCEPT !.hasty = (s.handle = "task")]
  <2>1. Stands(i, t) /\ t \in Sessions
    BY <1>1, AdapterStands DEF Stands
  <2>2. DapEmit(i, [s EXCEPT !.adapter = "terminated", !.hasty = (s.handle = "task")], [kind |-> "terminated"])
    BY <1>3 DEF Terminates
  <2>3. [s EXCEPT !.adapter = "terminated", !.hasty = (s.handle = "task")] = u
    OBVIOUS
  <2> HIDE DEF t, s
  <2>4. /\ u \in Sessions /\ u.driver = t.driver /\ u.handle = t.handle
        /\ u.commands = t.commands /\ u.known = t.known
        /\ u.requests = t.requests /\ u.set = t.set
        /\ u.configured = t.configured /\ u.adapter = t.adapter
    BY <2>1 DEF Sessions
  <2> HIDE DEF u
  <2>5. Stands(i, u)
    BY <2>1, <2>4 DEF Stands, IsTold, Up, DapRunning
  <2>6. [kind |-> "terminated"] \in DapEvents
    BY DEF DapEvents, PlainEvents
  <2> QED  BY <2>2, <2>3, <2>5, <2>6, EmitStands
<1>4. CASE Stops(i)
  <2> DEFINE t == [s EXCEPT !.adapter = "stopped"]
             u == [t EXCEPT !.stop = t.stop + 1]
  <2>1. Stands(i, t) /\ t \in Sessions /\ t.stop \in Nat /\ t.stop = s.stop
    <3>1. Stands(i, t)
      BY <1>1, AdapterStands
    <3>2. t \in Sessions
      BY <3>1 DEF Stands
    <3>3. t.stop = s.stop /\ s.stop \in Nat
      BY <1>1 DEF Sessions
    <3> QED  BY <3>1, <3>2, <3>3
  <2>2. PICK depth \in 1..2 :
          DapEmit(i, [s EXCEPT !.adapter = "stopped", !.stop = @ + 1, !.depth = depth], [kind |-> "stopped"])
    BY <1>4 DEF Stops
  <2> DEFINE v == [u EXCEPT !.depth = depth]
  <2>3. [s EXCEPT !.adapter = "stopped", !.stop = @ + 1, !.depth = depth] = v
    BY <2>1
  <2> HIDE DEF t, s
  <2>4. /\ u \in Sessions /\ u.driver = t.driver /\ u.handle = t.handle
        /\ u.commands = t.commands /\ u.known = t.known
        /\ u.requests = t.requests /\ u.set = t.set
        /\ u.configured = t.configured /\ u.adapter = t.adapter
    BY <2>1 DEF Sessions
  <2> HIDE DEF u
  <2>5. /\ v \in Sessions /\ v.driver = t.driver /\ v.handle = t.handle
        /\ v.commands = t.commands /\ v.known = t.known
        /\ v.requests = t.requests /\ v.set = t.set
        /\ v.configured = t.configured /\ v.adapter = t.adapter
    <3>1. depth \in Nat
      BY <2>2
    <3> QED  BY <2>4, <3>1 DEF Sessions
  <2> HIDE DEF v
  <2>6. Stands(i, v)
    BY <2>1, <2>5 DEF Stands, IsTold, Up, DapRunning
  <2>7. [kind |-> "stopped"] \in DapEvents
    BY DEF DapEvents, PlainEvents
  <2> QED  BY <2>2, <2>3, <2>6, <2>7, EmitStands
<1> QED
  BY <1>2, <1>3, <1>4

\* The driver performs a command: one about breakpoints it keeps, and passes on if the
\* adapter is configured.
LEMMA PerformFollows == ASSUME DapInv, NEW i \in DOMAIN sessions, DapPerform(i) PROVE DapInv'
<1> DEFINE x == sessions[i]
           c == Head(x.commands)
           q == Tail(x.commands)
           s == [x EXCEPT !.commands = q]
           sent == IF Up(s) THEN [s EXCEPT !.requests = Append(@, c)] ELSE s
           at == IF s.configured THEN sent ELSE s
           u == [at EXCEPT !.known = c.arg]
<1>1. Stands(i, x) /\ x \in Sessions /\ x.commands # <<>> /\ x.commands \in Seq(DapCommands)
  BY ItselfStands DEF DapPerform, Stands, Sessions
<1>2. c \in DapCommands /\ q \in Seq(DapCommands) /\ c.arg \in Args
      /\ \A to : Settles(x.commands, x.known, to)
                   => Settles(q, IF c.kind = "breakpoints" THEN c.arg ELSE x.known, to)
  BY <1>1, TailOf, SettlesFirst DEF DapCommands
<1>3. \/ c.kind = "disconnect" /\ Quietly(i, DapStopped(s))
      \/ c.kind = "breakpoints" /\ Quietly(i, u)
      \/ c.kind \notin {"disconnect", "breakpoints"} /\ Quietly(i, sent)
  BY DEF DapPerform
<1> HIDE DEF x, c, q
<1>4. /\ s \in Sessions /\ s.driver = x.driver /\ s.handle = x.handle
      /\ s.commands = q /\ s.known = x.known
      /\ s.requests = x.requests /\ s.set = x.set /\ s.requests \in Seq(DapCommands)
      /\ s.configured = x.configured /\ s.adapter = x.adapter
  BY <1>1, <1>2 DEF Sessions
<1>5. IsTold(x) /\ x.handle \notin {"task", "bg"}
  BY <1>1 DEF Stands, IsTold
<1> HIDE DEF s
<1>6. ASSUME c.kind # "breakpoints" PROVE Stands(i, s)
  <2>1. IsTold(s)
    BY <1>4, <1>5 DEF IsTold, Up, DapRunning
  <2>2. i = dapClient /\ ~dropped => Settles(q, x.known, breakpoints)
    BY <1>1, <1>2, <1>6 DEF Stands
  <2> QED  BY <1>1, <1>4, <2>1, <2>2 DEF Stands
<1>7. CASE c.kind = "disconnect" /\ Quietly(i, DapStopped(s))
  <2>1. Stands(i, DapStopped(s))
    BY <1>6, <1>7, StoppedStands
  <2> QED  BY <1>7, <2>1, QuietlyStands
<1>8. CASE c.kind \notin {"disconnect", "breakpoints"} /\ Quietly(i, sent)
  <2>1. Stands(i, s) /\ Stands(i, [s EXCEPT !.requests = Append(s.requests, c)])
    BY <1>2, <1>6, <1>8, RequestStands
  <2>2. Stands(i, sent)
    BY <2>1
  <2> QED  BY <1>8, <2>2, QuietlyStands
<1>9. CASE c.kind = "breakpoints" /\ Quietly(i, u)
  <2> DEFINE p == Append(s.requests, c)
  <2>1. p \in Seq(DapCommands) /\ Settles(p, s.set, c.arg)
    <3>1. s.requests \in Seq(DapCommands) /\ c \in DapCommands /\ c.kind = "breakpoints"
      BY <1>2, <1>4, <1>9
    <3>2. Settles(Append(s.requests, c), s.set, c.arg)
      BY <3>1, SettlesLast
    <3>3. Append(s.requests, c) \in Seq(DapCommands)
      BY <3>1
    <3> QED  BY <3>2, <3>3
  <2> HIDE DEF p
  <2>2. /\ [s EXCEPT !.requests = p] \in Sessions /\ [s EXCEPT !.requests = p].driver = s.driver
        /\ [s EXCEPT !.requests = p].handle = s.handle
        /\ [s EXCEPT !.requests = p].commands = s.commands
        /\ [s EXCEPT !.requests = p].requests = p /\ [s EXCEPT !.requests = p].set = s.set
        /\ [s EXCEPT !.requests = p].configured = s.configured
        /\ [s EXCEPT !.requests = p].adapter = s.adapter
    BY <1>4, <2>1 DEF Sessions
  <2>3. at = IF s.configured /\ Up(s) THEN [s EXCEPT !.requests = p] ELSE s
    BY DEF p
  <2>4. /\ at \in Sessions /\ at.driver = s.driver /\ at.handle = s.handle
        /\ at.commands = s.commands /\ at.set = s.set
        /\ at.configured = s.configured /\ at.adapter = s.adapter
        /\ at.requests = IF s.configured /\ Up(s) THEN p ELSE s.requests
    <3>1. CASE s.configured /\ Up(s)
      BY <2>2, <2>3, <3>1
    <3>2. CASE ~(s.configured /\ Up(s))
      BY <1>4, <2>3, <3>2
    <3> QED  BY <3>1, <3>2
  <2> HIDE DEF at
  <2>5. /\ u \in Sessions /\ u.driver = s.driver /\ u.handle = s.handle
        /\ u.commands = s.commands /\ u.set = s.set
        /\ u.configured = s.configured /\ u.adapter = s.adapter
        /\ u.requests = at.requests /\ u.known = c.arg
    BY <1>2, <2>4 DEF Sessions
  <2> HIDE DEF u
  <2>6. IsTold(u)
    <3>1. ~u.configured => u.set = {} /\ Plain(u.requests)
      BY <1>4, <1>5, <2>4, <2>5 DEF IsTold
    <3>2. u.configured /\ Up(u) => Settles(u.requests, u.set, u.known)
      BY <2>1, <2>4, <2>5 DEF Up, DapRunning
    <3> QED  BY <1>4, <1>5, <2>5, <3>1, <3>2 DEF IsTold
  <2>7. i = dapClient /\ ~dropped => Settles(q, c.arg, breakpoints)
    BY <1>1, <1>2, <1>9 DEF Stands
  <2>8. Stands(i, u)
    BY <1>1, <1>4, <2>5, <2>6, <2>7 DEF Stands
  <2> QED  BY <1>9, <2>8, QuietlyStands
<1> QED
  BY <1>3, <1>7, <1>8, <1>9

\* The driver performs a command or ends.
LEMMA DriverFollows == ASSUME DapInv, NEW i \in DOMAIN sessions, DapDriver(i) PROVE DapInv'
<1>1. Stands(i, DapStopped(sessions[i]))
  BY ItselfStands, StoppedStands
<1>2. CASE DapDisconnected(i)
  BY <1>1, <1>2, NoteIsEvent, EmitStands DEF DapDisconnected
<1>3. CASE DapClosed(i)
  BY <1>1, <1>3, QuietlyStands DEF DapClosed
<1> QED
  BY <1>2, <1>3, PerformFollows DEF DapDriver

-----------------------------------------------------------------------------
\* A client told one thing more.
LEMMA Commanded ==
  ASSUME NEW s \in Sessions, IsTold(s), s.handle \notin {"task", "bg"}, NEW c \in DapCommands
  PROVE  /\ [s EXCEPT !.commands = Append(s.commands, c)] \in Sessions
         /\ IsTold([s EXCEPT !.commands = Append(s.commands, c)])
         /\ [s EXCEPT !.commands = Append(s.commands, c)].handle = s.handle
         /\ [s EXCEPT !.commands = Append(s.commands, c)].known = s.known
         /\ [s EXCEPT !.commands = Append(s.commands, c)].commands = Append(s.commands, c)
<1> DEFINE q == Append(s.commands, c)
           t == [s EXCEPT !.commands = q]
<1>1. q \in Seq(DapCommands)
  BY DEF Sessions
<1> HIDE DEF q
<1>2. /\ t \in Sessions /\ t.driver = s.driver /\ t.handle = s.handle
      /\ t.commands = q /\ t.known = s.known
      /\ t.requests = s.requests /\ t.set = s.set
      /\ t.configured = s.configured /\ t.adapter = s.adapter
  BY <1>1 DEF Sessions
<1> HIDE DEF t
<1>3. IsTold(t)
  BY <1>2 DEF IsTold, Up, DapRunning
<1> QED
  BY <1>2, <1>3 DEF t, q

\* A client in other hands.
LEMMA Handed ==
  ASSUME NEW s \in Sessions, IsTold(s), NEW h \in {"bg", "app", "nobody"},
         h = "bg" => s.handle = "task"
  PROVE  /\ [s EXCEPT !.handle = h] \in Sessions /\ IsTold([s EXCEPT !.handle = h])
         /\ [s EXCEPT !.handle = h].handle = h
         /\ [s EXCEPT !.handle = h].known = s.known
         /\ [s EXCEPT !.handle = h].commands = s.commands
         /\ [s EXCEPT !.handle = h].events = s.events
<1> DEFINE t == [s EXCEPT !.handle = h]
<1>2. /\ t \in Sessions /\ t.driver = s.driver /\ t.handle = h
      /\ t.commands = s.commands /\ t.known = s.known /\ t.events = s.events
      /\ t.requests = s.requests /\ t.set = s.set
      /\ t.configured = s.configured /\ t.adapter = s.adapter
  BY DEF Sessions
<1> HIDE DEF t
<1>3. IsTold(t)
  BY <1>2 DEF IsTold, Up, DapRunning
<1> QED
  BY <1>2, <1>3 DEF t

\* The sessions after a command to the client of the dapEditor.
LEMMA DispatchTells ==
  ASSUME DapInv, NEW c \in DapCommands, DapDispatch(c)
  PROVE  /\ sessions' \in Seq(Sessions) /\ Len(sessions') = Len(sessions)
         /\ \A j \in 1..Len(sessions) : /\ IsTold(sessions'[j])
                                        /\ sessions'[j].handle = sessions[j].handle
         /\ ~dropped' => ~dropped /\ dapClient # 0
         /\ ~dropped' /\ c.kind = "breakpoints"
              => Settles(sessions'[dapClient].commands, sessions'[dapClient].known, c.arg)
         /\ ~dropped' /\ c.kind # "breakpoints"
              => Settles(sessions'[dapClient].commands, sessions'[dapClient].known, breakpoints)
<1>1. sessions \in Seq(Sessions) /\ dapClient \in 0..Len(sessions) /\ Len(sessions) \in Nat
      /\ \A j \in 1..Len(sessions) : IsTold(sessions[j]) /\ sessions[j] \in Sessions
  BY DEF DapInv, SessionsTold
<1>2. CASE ~DapAccepts
  <2>1. sessions' = sessions /\ dropped'
    BY <1>2 DEF DapDispatch
  <2> QED  BY <1>1, <2>1
<1>3. CASE DapAccepts
  <2> DEFINE s == sessions[dapClient]
             t == [s EXCEPT !.commands = Append(s.commands, c)]
  <2>1. dapClient \in 1..Len(sessions) /\ dapClient # 0
    BY <1>1, <1>3 DEF DapAccepts
  <2>2. sessions' = [sessions EXCEPT ![dapClient] = t] /\ (dropped' <=> dropped)
    BY <1>3 DEF DapDispatch
  <2>3. s.handle = "app" /\ s \in Sessions /\ IsTold(s) /\ s.commands \in Seq(DapCommands)
    BY <1>1, <2>1 DEF DapInv, SessionsTold, Sessions
  <2> HIDE DEF s
  <2>4. /\ t \in Sessions /\ IsTold(t) /\ t.handle = s.handle /\ t.known = s.known
        /\ t.commands = Append(s.commands, c)
    BY <2>3, Commanded
  <2> HIDE DEF t
  <2>5. sessions' \in Seq(Sessions) /\ Len(sessions') = Len(sessions)
        /\ \A j \in 1..Len(sessions) : sessions'[j] = IF j = dapClient THEN t ELSE sessions[j]
    BY <1>1, <2>1, <2>2, <2>4, ExceptSeq
  <2>6. ~dropped => Settles(s.commands, s.known, breakpoints)
    BY <2>1 DEF DapInv, Following, s
  <2>7. c.kind = "breakpoints" => Settles(t.commands, t.known, c.arg)
    BY <2>3, <2>4, SettlesLast
  <2>8. ~dropped /\ c.kind # "breakpoints" => Settles(t.commands, t.known, breakpoints)
    BY <2>3, <2>4, <2>6, SettlesOther
  <2>9. sessions'[dapClient] = t
    BY <2>1, <2>5
  <2>10. \A j \in 1..Len(sessions) : IsTold(sessions'[j]) /\ sessions'[j].handle = sessions[j].handle
    BY <1>1, <2>4, <2>5 DEF s
  <2> QED  BY <2>1, <2>2, <2>5, <2>7, <2>8, <2>9, <2>10
<1> QED
  BY <1>2, <1>3

\* What a step of the dapEditor leaves of the sessions and of the channel.
LEMMA ReadyKept ==
  ASSUME DapInv, UNCHANGED dapBg, Len(sessions') \in Nat, Len(sessions) <= Len(sessions'),
         \A j \in 1..Len(sessions) : sessions[j].handle = "bg" => sessions'[j].handle = "bg"
  PROVE  ReadyOnce'
<1>1. Len(sessions) \in Nat
  BY DEF DapInv, SessionsTold
<1>2. \A k \in 1..Len(dapBg) : dapBg[k].session \in 1..Len(sessions')
  BY <1>1 DEF DapInv, ReadyOnce
<1> QED
  BY <1>2 DEF DapInv, ReadyOnce

\* The channel without its first report.
LEMMA ReadyDrained ==
  ASSUME DapInv, dapBg # <<>>, dapBg' = Tail(dapBg), Len(sessions') = Len(sessions),
         \A j \in 1..Len(sessions) :
            sessions[j].handle = "bg" /\ ~(Head(dapBg).event.kind = "ready" /\ Head(dapBg).session = j)
              => sessions'[j].handle = "bg"
  PROVE  ReadyOnce'
<1>1. /\ dapBg \in Seq(DapReports)
      /\ \A k \in 1..Len(dapBg) : /\ dapBg[k].session \in 1..Len(sessions)
                                  /\ dapBg[k].event.kind = "ready" => sessions[dapBg[k].session].handle = "bg"
      /\ \A k, l \in 1..Len(dapBg) :
           dapBg[k].event.kind = "ready" /\ dapBg[l].event.kind = "ready" /\ dapBg[k].session = dapBg[l].session
             => k = l
  BY DEF DapInv, ReadyOnce
<1>2. /\ Head(dapBg) = dapBg[1] /\ dapBg' \in Seq(DapReports) /\ Len(dapBg) \in Nat \ {0}
      /\ Len(dapBg') = Len(dapBg) - 1 /\ \A k \in 1..Len(dapBg') : dapBg'[k] = dapBg[k + 1]
  BY <1>1
<1>3. \A k \in 1..Len(dapBg') : k + 1 \in 1..Len(dapBg) /\ k + 1 # 1 /\ 1 \in 1..Len(dapBg)
  BY <1>2
<1>4. \A k \in 1..Len(dapBg') : dapBg'[k].session \in 1..Len(sessions')
  BY <1>1, <1>2, <1>3
<1>5. ASSUME NEW k \in 1..Len(dapBg'), dapBg'[k].event.kind = "ready"
      PROVE  sessions'[dapBg'[k].session].handle = "bg"
  <2>1. dapBg'[k] = dapBg[k + 1] /\ k + 1 \in 1..Len(dapBg) /\ 1 \in 1..Len(dapBg) /\ k + 1 # 1
    BY <1>2, <1>3
  <2>2. ~(dapBg[1].event.kind = "ready" /\ dapBg[1].session = dapBg[k + 1].session)
    BY <1>1, <1>5, <2>1
  <2>3. dapBg[k + 1].session \in 1..Len(sessions) /\ sessions[dapBg[k + 1].session].handle = "bg"
    BY <1>1, <1>5, <2>1
  <2> QED  BY <1>2, <2>1, <2>2, <2>3
<1>6. ASSUME NEW k \in 1..Len(dapBg'), NEW l \in 1..Len(dapBg'), dapBg'[k].event.kind = "ready",
             dapBg'[l].event.kind = "ready", dapBg'[k].session = dapBg'[l].session
      PROVE  k = l
  <2>1. dapBg'[k] = dapBg[k + 1] /\ k + 1 \in 1..Len(dapBg) /\ dapBg'[l] = dapBg[l + 1] /\ l + 1 \in 1..Len(dapBg)
    BY <1>2, <1>3
  <2>2. k + 1 = l + 1
    BY <1>1, <1>6, <2>1
  <2> QED  BY <1>2, <2>2
<1> QED
  BY <1>2, <1>4, <1>5, <1>6 DEF ReadyOnce

\* The sessions keep their clients.
LEMMA ToldKept ==
  ASSUME DapInv, sessions' \in Seq(Sessions), Len(sessions') = Len(sessions), UNCHANGED dapClient,
         \A j \in 1..Len(sessions) : IsTold(sessions'[j]) /\ sessions'[j].handle = sessions[j].handle
  PROVE  SessionsTold'
<1>1. \A j \in 1..Len(sessions) : IsTold(sessions[j])'
  BY DEF IsTold, Up, DapRunning
<1> QED
  BY <1>1 DEF DapInv, SessionsTold

\* The user toggles a breakpoint.
LEMMA ToggleFollows == ASSUME DapInv, NEW line \in Lines, Toggle(line) PROVE DapInv'
<1>1. /\ breakpoints \in SUBSET Lines /\ toggles \in Nat /\ toggles' = toggles + 1
      /\ view \in Views
      /\ UNCHANGED <<dapClient, view, dapBg>>
  BY DEF Toggle, DapInv, GutterTyped
<1>2. breakpoints' \in SUBSET Lines
  BY <1>1 DEF Toggle
<1>3. GutterTyped'
  BY <1>1, <1>2 DEF GutterTyped
<1>4. CASE dapClient = 0
  <2>1. UNCHANGED <<sessions, dropped>>
    BY <1>4 DEF Toggle
  <2>2. SessionsTold'
    BY <1>1, <2>1 DEF DapInv, SessionsTold, IsTold, Up, DapRunning
  <2>3. Following' /\ ReadyOnce'
    BY <1>1, <1>4, <2>1 DEF DapInv, Following, ReadyOnce
  <2> QED  BY <1>3, <2>2, <2>3 DEF DapInv
<1>5. CASE dapClient # 0
  <2> DEFINE c == [kind |-> "breakpoints", arg |-> breakpoints']
  <2>1. c \in DapCommands /\ c.kind = "breakpoints" /\ c.arg = breakpoints'
    BY <1>2 DEF DapCommands, CommandKinds, Args
  <2>2. DapDispatch(c)
    BY <1>5 DEF Toggle
  <2> HIDE DEF c
  <2>3. /\ sessions' \in Seq(Sessions) /\ Len(sessions') = Len(sessions)
        /\ \A j \in 1..Len(sessions) : IsTold(sessions'[j]) /\ sessions'[j].handle = sessions[j].handle
        /\ ~dropped' => Settles(sessions'[dapClient].commands, sessions'[dapClient].known, breakpoints')
    BY <2>1, <2>2, DispatchTells
  <2>4. SessionsTold'
    BY <1>1, <2>3, ToldKept
  <2>5. Following'
    BY <1>1, <2>3 DEF Following
  <2>6. ReadyOnce'
    <3>1. Len(sessions') \in Nat /\ Len(sessions) <= Len(sessions')
      BY <2>3
    <3> QED  BY <1>1, <2>3, <3>1, ReadyKept
  <2> QED  BY <1>3, <2>4, <2>5, <2>6 DEF DapInv
<1> QED
  BY <1>4, <1>5

\* A command of the dapEditor that is not about breakpoints, whatever it does to the view and
\* whether or not it came with an event.
LEMMA SentFollows ==
  ASSUME DapInv, NEW c \in DapCommands, c.kind # "breakpoints", DapDispatch(c),
         UNCHANGED <<dapClient, breakpoints, toggles>>, view' \in Views,
         UNCHANGED dapBg \/ (dapBg # <<>> /\ dapBg' = Tail(dapBg))
  PROVE  DapInv'
<1>1. /\ sessions' \in Seq(Sessions) /\ Len(sessions') = Len(sessions) /\ Len(sessions') \in Nat
      /\ \A j \in 1..Len(sessions) : IsTold(sessions'[j]) /\ sessions'[j].handle = sessions[j].handle
      /\ ~dropped' => Settles(sessions'[dapClient].commands, sessions'[dapClient].known, breakpoints)
  BY DispatchTells
<1>2. SessionsTold'
  BY <1>1, ToldKept
<1>3. Following'
  BY <1>1 DEF Following
<1>4. CASE UNCHANGED dapBg
  <2>1. Len(sessions) <= Len(sessions')
    BY <1>1
  <2> QED  BY <1>1, <1>2, <1>3, <1>4, <2>1, ReadyKept DEF DapInv, GutterTyped
<1>5. CASE dapBg # <<>> /\ dapBg' = Tail(dapBg)
  BY <1>1, <1>2, <1>3, <1>5, ReadyDrained DEF DapInv, GutterTyped
<1> QED
  BY <1>4, <1>5

\* The commands of the run panel.
LEMMA PanelFollows ==
  ASSUME DapInv, (\E kind \in {"continue", "step"} : Control(kind)) \/ (\E index \in 0..1 : SelectFrame(index))
  PROVE  DapInv'
<1>0. view \in Views
  BY DEF DapInv, GutterTyped
<1>1. ASSUME NEW kind \in {"continue", "step"}, Control(kind) PROVE DapInv'
  <2>1. DapDispatch(Request(kind)) /\ UNCHANGED <<dapClient, breakpoints, toggles, dapBg>>
    BY <1>1 DEF Control
  <2>2. Request(kind) \in DapCommands /\ Request(kind).kind # "breakpoints"
    <3>1. kind \in CommandKinds
      BY DEF CommandKinds
    <3> QED  BY <3>1, RequestIsCommand
  <2>3. view' \in Views
    BY <1>0, <1>1 DEF Control, Views
  <2> QED  BY <2>1, <2>2, <2>3, SentFollows
<1>2. ASSUME NEW index \in 0..1, SelectFrame(index) PROVE DapInv'
  <2> DEFINE c == [kind |-> "scopes", arg |-> <<view.stop, index>>]
  <2>1. DapDispatch(c) /\ UNCHANGED <<dapClient, breakpoints, toggles, dapBg>>
    BY <1>2 DEF SelectFrame
  <2>2. c \in DapCommands /\ c.kind # "breakpoints"
    BY <1>0 DEF DapCommands, CommandKinds, Args, Frames, Views
  <2>3. view' \in Views
    BY <1>0, <1>2 DEF SelectFrame, Views
  <2> HIDE DEF c
  <2> QED  BY <2>1, <2>2, <2>3, SentFollows
<1> QED
  BY <1>1, <1>2

\* The sessions once the dapEditor gave up a client.
LEMMA WithoutTells ==
  ASSUME DapInv
  PROVE  /\ Without(dapClient) \in Seq(Sessions) /\ Len(Without(dapClient)) = Len(sessions)
         /\ \A j \in 1..Len(sessions) :
              /\ IsTold(Without(dapClient)[j])
              /\ j = dapClient => /\ Without(dapClient)[j].handle = "nobody"
                                  /\ Without(dapClient)[j].known = sessions[j].known
                                  /\ Without(dapClient)[j].commands = sessions[j].commands
              /\ j # dapClient => Without(dapClient)[j] = sessions[j]
<1> DEFINE W == Without(dapClient)
           n == Len(sessions)
<1>1. sessions \in Seq(Sessions) /\ n \in Nat /\ DOMAIN sessions = 1..n
      /\ \A j \in 1..n : IsTold(sessions[j]) /\ sessions[j] \in Sessions
  BY DEF DapInv, SessionsTold
<1>2. \A j \in 1..n :
         /\ [sessions[j] EXCEPT !.handle = "nobody"] \in Sessions
         /\ IsTold([sessions[j] EXCEPT !.handle = "nobody"])
         /\ [sessions[j] EXCEPT !.handle = "nobody"].handle = "nobody"
         /\ [sessions[j] EXCEPT !.handle = "nobody"].known = sessions[j].known
         /\ [sessions[j] EXCEPT !.handle = "nobody"].commands = sessions[j].commands
  BY <1>1, Handed
<1>3. W = [j \in 1..n |-> IF j = dapClient THEN [sessions[j] EXCEPT !.handle = "nobody"] ELSE sessions[j]]
  BY <1>1 DEF Without
<1>4. \A j \in 1..n : W[j] = IF j = dapClient THEN [sessions[j] EXCEPT !.handle = "nobody"] ELSE sessions[j]
  BY <1>3
<1>5. W \in [1..n -> Sessions]
  BY <1>1, <1>2, <1>3
<1> HIDE DEF W, n
<1>6. W \in Seq(Sessions) /\ Len(W) = n
  BY <1>1, <1>5, SeqDef
<1> QED
  BY <1>1, <1>2, <1>4, <1>6 DEF W, n

\* The user ends the session.
LEMMA DapStopFollows == ASSUME DapInv, DapStop PROVE DapInv'
<1> DEFINE W == Without(dapClient)
           s == W[dapClient]
           c == Request("disconnect")
           t == [s EXCEPT !.commands = Append(s.commands, c)]
<1>1. /\ W \in Seq(Sessions) /\ Len(W) = Len(sessions) /\ Len(sessions) \in Nat
      /\ dapClient \in 1..Len(sessions)
      /\ \A j \in 1..Len(sessions) : IsTold(W[j]) /\ W[j] \in Sessions
      /\ s.handle = "nobody"
      /\ \A j \in 1..Len(sessions) : j # dapClient => W[j] = sessions[j]
  BY WithoutTells DEF DapInv, SessionsTold, DapStop
<1>2. c \in DapCommands
  BY RequestIsCommand DEF CommandKinds
<1> HIDE DEF c
<1>3. \/ sessions' = [W EXCEPT ![dapClient] = t]
      \/ sessions' = [W EXCEPT ![dapClient] = s]
  <2>1. CASE DapAccepts
    <3>1. sessions' = [W EXCEPT ![dapClient].commands = Append(@, c)]
      BY <2>1 DEF DapStop, c
    <3> HIDE DEF W
    <3> QED  BY <3>1
  <2>2. CASE ~DapAccepts
    <3>1. sessions' = [W EXCEPT ![dapClient].commands = @]
      BY <2>2 DEF DapStop
    <3>2. s \in Sessions
      BY <1>1
    <3>3. [s EXCEPT !.commands = s.commands] = s
      BY <3>2 DEF Sessions
    <3>4. [W EXCEPT ![dapClient].commands = @] = [W EXCEPT ![dapClient] = [s EXCEPT !.commands = s.commands]]
      <4> HIDE DEF W
      <4> QED  OBVIOUS
    <3> HIDE DEF W, s
    <3> QED  BY <3>1, <3>3, <3>4
  <2> QED  BY <2>1, <2>2
<1> HIDE DEF W
<1>4. t \in Sessions /\ IsTold(t) /\ t.handle = "nobody" /\ s \in Sessions /\ IsTold(s)
  <2>1. s \in Sessions /\ IsTold(s) /\ s.handle = "nobody"
    BY <1>1
  <2> HIDE DEF s
  <2> QED  BY <1>2, <2>1, Commanded
<1> HIDE DEF t
<1>5. /\ sessions' \in Seq(Sessions) /\ Len(sessions') = Len(sessions)
      /\ \A j \in 1..Len(sessions) : IF j = dapClient THEN sessions'[j] \in {t, s} ELSE sessions'[j] = W[j]
  <2>1. CASE sessions' = [W EXCEPT ![dapClient] = t]
    BY <1>1, <1>4, <2>1, ExceptSeq
  <2>2. CASE sessions' = [W EXCEPT ![dapClient] = s]
    BY <1>1, <1>4, <2>2, ExceptSeq
  <2> QED  BY <1>3, <2>1, <2>2
<1>6. \A j \in 1..Len(sessions) : /\ IsTold(sessions'[j])
                                  /\ j = dapClient => sessions'[j].handle = "nobody"
                                  /\ j # dapClient => sessions'[j] = sessions[j]
  BY <1>1, <1>4, <1>5
<1>7. /\ dapClient' = 0 /\ UNCHANGED <<breakpoints, dapBg, toggles>>
      /\ view' = [view EXCEPT !.marker = 0]
  BY DEF DapStop
<1>8. SessionsTold'
  <2>1. \A j \in 1..Len(sessions) : IsTold(sessions[j])'
    BY <1>6 DEF IsTold, Up, DapRunning
  <2>2. \A j \in 1..Len(sessions) : sessions'[j].handle # "app" /\ j # 0
    BY <1>6 DEF DapInv, SessionsTold
  <2> QED  BY <1>1, <1>5, <1>7, <2>1, <2>2 DEF SessionsTold
<1>9. Following'
  BY <1>7 DEF Following
<1>10. ReadyOnce'
  <2>1. \A j \in 1..Len(sessions) : sessions[j].handle = "bg" => sessions'[j].handle = "bg"
    BY <1>6 DEF DapInv, SessionsTold
  <2>2. Len(sessions') \in Nat /\ Len(sessions) <= Len(sessions')
    BY <1>1, <1>5
  <2> QED  BY <1>7, <2>1, <2>2, ReadyKept
<1>11. GutterTyped'
  BY <1>7 DEF DapInv, GutterTyped, Views
<1> QED
  BY <1>8, <1>9, <1>10, <1>11 DEF DapInv

\* A session is launched.
LEMMA RunFollows == ASSUME DapInv, Run PROVE DapInv'
<1>1. /\ sessions \in Seq(Sessions) /\ Len(sessions) \in Nat /\ dapClient = 0
      /\ sessions' = Append(sessions, Launched)
      /\ UNCHANGED <<dapClient, breakpoints, view, dapBg, toggles, dropped>>
  BY DEF Run, DapInv, SessionsTold
<1>2. Request("initialize") \in DapCommands /\ Request("initialize").kind = "initialize"
  BY RequestIsCommand DEF CommandKinds
<1>3. Launched \in Sessions /\ Launched.handle = "task" /\ IsTold(Launched)
  <2> DEFINE r == Request("initialize")  q == <<r>>
  <2>1. q \in Seq(DapCommands) /\ Plain(q)
    BY <1>2 DEF Plain
  <2>2. Launched = [driver |-> "running", handle |-> "task", requests |-> q,
   commands |-> <<>>, events |-> <<>>, bridge |-> TRUE, known |-> {}, configured |-> FALSE,
   adapter |-> "new", set |-> {}, stop |-> 0, depth |-> 1, hasty |-> FALSE]
    BY DEF Launched
  <2> HIDE DEF q
  <2>3. {} \in Args /\ <<>> \in Seq(DapCommands) /\ <<>> \in Seq(DapEvents)
    BY DEF Args
  <2> QED  BY <2>1, <2>2, <2>3 DEF Sessions, IsTold
<1>4. /\ sessions' \in Seq(Sessions) /\ Len(sessions') = Len(sessions) + 1
      /\ sessions'[Len(sessions) + 1] = Launched
      /\ \A j \in 1..Len(sessions) : sessions'[j] = sessions[j]
  BY <1>1, <1>3, AppendProperties
<1>5. \A j \in 1..Len(sessions') : IsTold(sessions'[j]) /\ sessions'[j].handle # "app"
  BY <1>1, <1>3, <1>4 DEF DapInv, SessionsTold
<1>6. SessionsTold'
  <2>1. \A j \in 1..Len(sessions') : IsTold(sessions[j])'
    BY <1>5 DEF IsTold, Up, DapRunning
  <2>2. \A j \in 1..Len(sessions') : j # 0
    OBVIOUS
  <2> QED  BY <1>1, <1>4, <1>5, <2>1, <2>2 DEF SessionsTold
<1>7. Following'
  BY <1>1 DEF Following
<1>8. ReadyOnce'
  <2>1. Len(sessions') \in Nat /\ Len(sessions) <= Len(sessions')
    BY <1>1, <1>4
  <2> QED  BY <1>1, <1>4, <2>1, ReadyKept
<1>9. GutterTyped'
  BY <1>1 DEF DapInv, GutterTyped
<1> QED
  BY <1>6, <1>7, <1>8, <1>9 DEF DapInv

\* The channel with one report more.
LEMMA ReportedOnce ==
  ASSUME DapInv, NEW r \in DapReports, dapBg' = Append(dapBg, r), r.session \in 1..Len(sessions),
         Len(sessions') = Len(sessions),
         \A j \in 1..Len(sessions) : sessions[j].handle = "bg" => sessions'[j].handle = "bg",
         r.event.kind = "ready" => /\ sessions[r.session].handle # "bg"
                                   /\ sessions'[r.session].handle = "bg"
  PROVE  ReadyOnce'
<1>1. /\ dapBg \in Seq(DapReports)
      /\ \A k \in 1..Len(dapBg) : /\ dapBg[k].session \in 1..Len(sessions)
                                  /\ dapBg[k].event.kind = "ready" => sessions[dapBg[k].session].handle = "bg"
      /\ \A k, l \in 1..Len(dapBg) :
           dapBg[k].event.kind = "ready" /\ dapBg[l].event.kind = "ready" /\ dapBg[k].session = dapBg[l].session
             => k = l
  BY DEF DapInv, ReadyOnce
<1>2. /\ dapBg' \in Seq(DapReports) /\ Len(dapBg) \in Nat /\ Len(dapBg') = Len(dapBg) + 1
      /\ dapBg'[Len(dapBg) + 1] = r /\ \A k \in 1..Len(dapBg) : dapBg'[k] = dapBg[k]
  BY <1>1, AppendProperties
<1>3. \A k \in 1..Len(dapBg') : k \in 1..Len(dapBg) \/ k = Len(dapBg) + 1
  BY <1>2
<1>4. \A k \in 1..Len(dapBg') : /\ dapBg'[k].session \in 1..Len(sessions')
                                /\ dapBg'[k].event.kind = "ready" => sessions'[dapBg'[k].session].handle = "bg"
  BY <1>1, <1>2, <1>3
<1>5. ASSUME NEW k \in 1..Len(dapBg'), NEW l \in 1..Len(dapBg'), dapBg'[k].event.kind = "ready",
             dapBg'[l].event.kind = "ready", dapBg'[k].session = dapBg'[l].session
      PROVE  k = l
  BY <1>1, <1>2, <1>3, <1>5
<1> QED
  BY <1>2, <1>4, <1>5 DEF ReadyOnce

\* The launching task hands its client over, or nobody gets it.
LEMMA HandOverFollows == ASSUME DapInv, NEW i \in DOMAIN sessions, DapHandOver(i) PROVE DapInv'
<1>1. /\ sessions \in Seq(Sessions) /\ Len(sessions) \in Nat /\ i \in 1..Len(sessions)
      /\ dapClient \in 0..Len(sessions)
      /\ \A j \in 1..Len(sessions) : /\ IsTold(sessions[j]) /\ sessions[j] \in Sessions
                                     /\ sessions[j].handle = "app" <=> j = dapClient
      /\ sessions[i].handle = "task" /\ i # dapClient
  BY DEF DapInv, SessionsTold, DapHandOver
<1>2. UNCHANGED <<dapClient, breakpoints, view, toggles, dropped>>
  BY DEF DapHandOver
<1>3. ASSUME NEW h \in {"bg", "nobody"}, sessions' = [sessions EXCEPT ![i].handle = h]
      PROVE  /\ SessionsTold' /\ Following' /\ Len(sessions') = Len(sessions)
             /\ sessions'[i].handle = h
             /\ \A j \in 1..Len(sessions) : j # i => sessions'[j] = sessions[j]
  <2> DEFINE t == [sessions[i] EXCEPT !.handle = h]
  <2>1. t \in Sessions /\ IsTold(t) /\ t.handle = h
    <3>1. sessions[i] \in Sessions /\ IsTold(sessions[i]) /\ sessions[i].handle = "task"
      BY <1>1
    <3>2. h \in {"bg", "app", "nobody"}
      BY <1>3
    <3> QED  BY <3>1, <3>2, Handed
  <2>2. sessions' = [sessions EXCEPT ![i] = t]
    BY <1>3
  <2> HIDE DEF t
  <2>3. /\ sessions' \in Seq(Sessions) /\ Len(sessions') = Len(sessions)
        /\ \A j \in 1..Len(sessions) : sessions'[j] = IF j = i THEN t ELSE sessions[j]
    BY <1>1, <2>1, <2>2, ExceptSeq
  <2>4. \A j \in 1..Len(sessions) : IsTold(sessions'[j]) /\ (sessions'[j].handle = "app" <=> j = dapClient)
    BY <1>1, <1>3, <2>1, <2>3
  <2>5. SessionsTold'
    <3>1. \A j \in 1..Len(sessions) : IsTold(sessions[j])'
      BY <2>4 DEF IsTold, Up, DapRunning
    <3> QED  BY <1>1, <1>2, <2>3, <2>4, <3>1 DEF SessionsTold
  <2>6. Following'
    <3>1. dapClient # 0 => sessions'[dapClient] = sessions[dapClient]
      BY <1>1, <2>3
    <3> QED  BY <1>2, <3>1 DEF Following, DapInv
  <2> QED  BY <1>1, <2>1, <2>3, <2>5, <2>6
<1>4. GutterTyped'
  BY <1>2 DEF DapInv, GutterTyped
<1>5. CASE Len(dapBg) < DapBg
  <2> DEFINE r == [session |-> i, event |-> DapReady]
  <2>1. dapBg' = Append(dapBg, r) /\ sessions' = [sessions EXCEPT ![i].handle = "bg"]
    BY <1>5 DEF DapHandOver
  <2>2. r \in DapReports /\ r.session = i
    BY <1>1 DEF DapReports
  <2> HIDE DEF r
  <2>3. /\ SessionsTold' /\ Following' /\ Len(sessions') = Len(sessions)
        /\ sessions'[i].handle = "bg"
        /\ \A j \in 1..Len(sessions) : j # i => sessions'[j] = sessions[j]
    BY <1>3, <2>1
  <2>4. ReadyOnce'
    BY <1>1, <2>1, <2>2, <2>3, ReportedOnce
  <2> QED  BY <1>4, <2>3, <2>4 DEF DapInv
<1>6. CASE ~(Len(dapBg) < DapBg)
  <2>1. UNCHANGED dapBg /\ sessions' = [sessions EXCEPT ![i].handle = "nobody"]
    BY <1>6 DEF DapHandOver
  <2>2. /\ SessionsTold' /\ Following' /\ Len(sessions') = Len(sessions)
        /\ \A j \in 1..Len(sessions) : j # i => sessions'[j] = sessions[j]
    BY <1>3, <2>1
  <2>3. ReadyOnce'
    <3>1. \A j \in 1..Len(sessions) : sessions[j].handle = "bg" => sessions'[j].handle = "bg"
      BY <1>1, <2>2
    <3>2. Len(sessions') \in Nat /\ Len(sessions) <= Len(sessions')
      BY <1>1, <2>2
    <3> QED  BY <2>1, <3>1, <3>2, ReadyKept
  <2> QED  BY <1>4, <2>2, <2>3 DEF DapInv
<1> QED
  BY <1>5, <1>6

\* The bridge passes an event on, or gives up.
LEMMA BridgeFollows == ASSUME DapInv, NEW i \in DOMAIN sessions, DapBridge(i) PROVE DapInv'
<1> DEFINE s == sessions[i]
<1>1. /\ sessions \in Seq(Sessions) /\ Len(sessions) \in Nat /\ i \in 1..Len(sessions)
      /\ Stands(i, s) /\ s \in Sessions /\ s.events \in Seq(DapEvents) /\ s.events # <<>>
  <2>1. Stands(i, s)
    BY ItselfStands
  <2>2. sessions \in Seq(Sessions)
    BY DEF DapInv, SessionsTold
  <2>3. s \in Sessions
    BY <2>1 DEF Stands
  <2>4. s.events \in Seq(DapEvents)
    <3> HIDE DEF s
    <3> QED  BY <2>3 DEF Sessions
  <2> QED  BY <2>1, <2>2, <2>3, <2>4 DEF DapBridge
<1>2. UNCHANGED <<dapClient, breakpoints, view, toggles, controls, dropped, early>>
  BY DEF DapBridge
<1>3. Head(s.events) \in DapEvents /\ Tail(s.events) \in Seq(DapEvents) /\ <<>> \in Seq(DapEvents)
  BY <1>1
<1>4. ASSUME NEW t, Stands(i, t), sessions' = [sessions EXCEPT ![i] = t]
      PROVE  /\ SessionsTold' /\ Following' /\ Len(sessions') = Len(sessions)
             /\ \A j \in 1..Len(sessions) : sessions'[j].handle = sessions[j].handle
  <2>1. /\ sessions' \in Seq(Sessions) /\ Len(sessions') = Len(sessions)
        /\ \A j \in 1..Len(sessions) : sessions'[j] = IF j = i THEN t ELSE sessions[j]
    BY <1>1, <1>4, ExceptSeq DEF Stands
  <2>2. \A j \in 1..Len(sessions) : IsTold(sessions'[j]) /\ sessions'[j].handle = sessions[j].handle
    BY <1>4, <2>1 DEF Stands, DapInv, SessionsTold
  <2>3. SessionsTold'
    BY <1>2, <2>1, <2>2, ToldKept
  <2>4. Following'
    <3>1. dapClient # 0 => dapClient \in 1..Len(sessions)
      BY DEF DapInv, SessionsTold
    <3> QED  BY <1>2, <1>4, <2>1, <3>1 DEF Following, DapInv, Stands
  <2> QED  BY <2>1, <2>2, <2>3, <2>4
<1>5. GutterTyped'
  BY <1>2 DEF DapInv, GutterTyped
<1>6. CASE Len(dapBg) < DapBg
  <2> DEFINE r == [session |-> i, event |-> Head(s.events)]
             t == [s EXCEPT !.events = Tail(s.events)]
  <2>1. dapBg' = Append(dapBg, r) /\ sessions' = [sessions EXCEPT ![i] = t]
    BY <1>6 DEF DapBridge
  <2>2. Stands(i, t)
    BY <1>1, <1>3, EventsStand
  <2>3. r \in DapReports /\ r.session = i /\ r.event.kind # "ready"
    BY <1>1, <1>3 DEF DapReports, DapEvents, StackEvents, ArgEvents, PlainEvents
  <2> HIDE DEF r, t
  <2>4. /\ SessionsTold' /\ Following' /\ Len(sessions') = Len(sessions)
        /\ \A j \in 1..Len(sessions) : sessions'[j].handle = sessions[j].handle
    BY <1>4, <2>1, <2>2
  <2>5. ReadyOnce'
    BY <1>1, <2>1, <2>3, <2>4, ReportedOnce
  <2> QED  BY <1>5, <2>4, <2>5 DEF DapInv
<1>7. CASE ~(Len(dapBg) < DapBg)
  <2> DEFINE b == [s EXCEPT !.bridge = FALSE]
             t == [b EXCEPT !.events = <<>>]
  <2>1. UNCHANGED dapBg /\ sessions' = [sessions EXCEPT ![i].bridge = FALSE, ![i].events = <<>>]
    BY <1>7 DEF DapBridge
  <2>2. sessions' = [sessions EXCEPT ![i] = t]
    <3> DEFINE m == [sessions EXCEPT ![i].bridge = FALSE]
    <3>1. m \in Seq(Sessions) /\ m[i] = b /\ m = [sessions EXCEPT ![i] = b]
      <4>1. b \in Sessions
        BY <1>1 DEF Sessions
      <4>2. m = [sessions EXCEPT ![i] = b]
        OBVIOUS
      <4> HIDE DEF m, b
      <4> QED  BY <1>1, <4>1, <4>2, ExceptSeq
    <3>2. sessions' = [m EXCEPT ![i].events = <<>>]
      BY <2>1
    <3> HIDE DEF m, b
    <3>3. sessions' = [m EXCEPT ![i] = [b EXCEPT !.events = <<>>]]
      BY <3>1, <3>2
    <3>4. [[sessions EXCEPT ![i] = b] EXCEPT ![i] = t] = [sessions EXCEPT ![i] = t]
      <4> HIDE DEF t
      <4> QED  OBVIOUS
    <3> QED  BY <3>1, <3>3, <3>4
  <2>3. Stands(i, b)
    <3>1. /\ b \in Sessions /\ b.driver = s.driver /\ b.handle = s.handle
          /\ b.commands = s.commands /\ b.known = s.known
          /\ b.requests = s.requests /\ b.set = s.set
          /\ b.configured = s.configured /\ b.adapter = s.adapter
      BY <1>1 DEF Sessions
    <3> HIDE DEF b, s
    <3> QED  BY <1>1, <3>1 DEF Stands, IsTold, Up, DapRunning
  <2> HIDE DEF b
  <2>4. Stands(i, t)
    BY <1>3, <2>3, EventsStand
  <2> HIDE DEF t
  <2>5. /\ SessionsTold' /\ Following' /\ Len(sessions') = Len(sessions)
        /\ \A j \in 1..Len(sessions) : sessions'[j].handle = sessions[j].handle
    BY <1>4, <2>2, <2>4
  <2>6. ReadyOnce'
    <3>1. Len(sessions') \in Nat /\ Len(sessions) <= Len(sessions')
      BY <1>1, <2>5
    <3> QED  BY <2>1, <2>5, <3>1, ReadyKept
  <2> QED  BY <1>5, <2>5, <2>6 DEF DapInv
<1> QED
  BY <1>6, <1>7

\* The event loop takes the client that is ready: it alone has it, and it gets the
\* breakpoints of the gutter.
LEMMA TakeClientFollows ==
  ASSUME DapInv, dapBg # <<>>, dapBg' = Tail(dapBg), Head(dapBg).event.kind = "ready",
         TakeClient(Head(dapBg).session), UNCHANGED <<breakpoints, toggles>>
  PROVE  DapInv'
<1> DEFINE i == Head(dapBg).session
           W == Without(dapClient)
           s == W[i]
           t == [s EXCEPT !.handle = "app"]
           taken == [W EXCEPT ![i].handle = "app"]
           c == SetBreakpoints
           u == [t EXCEPT !.commands = Append(t.commands, c)]
<1>1. /\ i \in 1..Len(sessions) /\ sessions[i].handle = "bg" /\ Head(dapBg) = dapBg[1]
      /\ Len(sessions) \in Nat
  <2>1. 1 \in 1..Len(dapBg) /\ Head(dapBg) = dapBg[1]
    BY DEF DapInv, ReadyOnce
  <2> QED  BY <2>1 DEF DapInv, ReadyOnce, SessionsTold
<1>2. /\ W \in Seq(Sessions) /\ Len(W) = Len(sessions)
      /\ \A j \in 1..Len(sessions) : /\ IsTold(W[j]) /\ W[j] \in Sessions
                                     /\ j = dapClient => W[j].handle = "nobody"
                                     /\ j # dapClient => W[j] = sessions[j]
  BY WithoutTells
<1>3. \A j \in 1..Len(sessions) : W[j].handle # "app"
  BY <1>2 DEF DapInv, SessionsTold
<1>4. i # dapClient /\ s = sessions[i] /\ IsTold(s) /\ s \in Sessions /\ s.handle = "bg"
  <2>1. i # dapClient
    BY <1>1 DEF DapInv, SessionsTold
  <2> QED  BY <1>1, <1>2, <2>1
<1>5. s.commands = <<>> /\ s.known = {}
  BY <1>4 DEF IsTold
<1>6. /\ dapClient' = i
      /\ LET room == DapRunning(taken[i]) /\ Len(taken[i].commands) < DapQueue
         IN  /\ sessions' = IF room /\ toggles > 0
                            THEN [taken EXCEPT ![i].commands = Append(@, c)] ELSE taken
             /\ dropped' = (dropped \/ ~room)
      /\ UNCHANGED <<view, breakpoints, toggles>>
  BY DEF TakeClient
<1>7. taken = [W EXCEPT ![i] = t]
  <2> HIDE DEF W
  <2> QED  OBVIOUS
<1> HIDE DEF W, s
<1>8. t \in Sessions /\ IsTold(t) /\ t.handle = "app" /\ t.known = {} /\ t.commands = <<>>
  BY <1>4, <1>5, Handed
<1> HIDE DEF t, taken
<1>9. /\ taken \in Seq(Sessions) /\ Len(taken) = Len(sessions)
      /\ \A j \in 1..Len(sessions) : taken[j] = IF j = i THEN t ELSE W[j]
  BY <1>1, <1>2, <1>7, <1>8, ExceptSeq
<1>10. c \in DapCommands /\ c.kind = "breakpoints" /\ c.arg = breakpoints
  BY DEF SetBreakpoints, DapCommands, CommandKinds, Args, DapInv, GutterTyped
<1> HIDE DEF c
<1>11. u \in Sessions /\ IsTold(u) /\ u.handle = "app" /\ u.known = {} /\ u.commands = Append(<<>>, c)
  BY <1>8, <1>10, Commanded
<1>12. \/ /\ sessions' = [taken EXCEPT ![i] = u]
       \/ /\ sessions' = taken
          /\ ~dropped' => ~(toggles > 0)
  <2>1. [taken EXCEPT ![i].commands = Append(@, c)] = [taken EXCEPT ![i] = u]
    BY <1>1, <1>9
  <2> QED  BY <1>6, <2>1
<1> HIDE DEF u
<1>13. PICK v \in {t, u} :
         /\ \A j \in 1..Len(sessions) : sessions'[j] = IF j = i THEN v ELSE W[j]
         /\ sessions' \in Seq(Sessions) /\ Len(sessions') = Len(sessions)
         /\ ~dropped' /\ v = t => ~(toggles > 0) \/ t = u
  <2>1. CASE sessions' = taken /\ (~dropped' => ~(toggles > 0))
    BY <1>9, <2>1
  <2>2. CASE sessions' = [taken EXCEPT ![i] = u]
    <3>1. /\ sessions' \in Seq(Sessions) /\ Len(sessions') = Len(taken)
          /\ \A j \in 1..Len(sessions) : sessions'[j] = IF j = i THEN u ELSE taken[j]
      BY <1>1, <1>9, <1>11, <2>2, ExceptSeq
    <3> QED  BY <1>9, <3>1
  <2> QED  BY <1>12, <2>1, <2>2
<1>14. SessionsTold'
  <2>1. \A j \in 1..Len(sessions) : IsTold(sessions'[j]) /\ (sessions'[j].handle = "app" <=> j = i)
    BY <1>2, <1>3, <1>8, <1>11, <1>13
  <2>2. \A j \in 1..Len(sessions) : IsTold(sessions[j])'
    BY <2>1 DEF IsTold, Up, DapRunning
  <2>3. dapClient' \in 0..Len(sessions)
    BY <1>1, <1>6
  <2> QED  BY <1>6, <1>13, <2>1, <2>2, <2>3 DEF SessionsTold
<1>15. Following'
  <2>1. sessions'[i] = v
    BY <1>1, <1>13
  <2>2. Settles(u.commands, u.known, breakpoints)
    <3>1. <<>> \in Seq(DapCommands)
      OBVIOUS
    <3>2. Settles(Append(<<>>, c), {}, c.arg)
      BY <1>10, <3>1, SettlesLast
    <3> QED  BY <1>10, <1>11, <3>2
  <2>3. ~(toggles > 0) => Settles(t.commands, t.known, breakpoints)
    <3>1. ~(toggles > 0) => breakpoints = {}
      BY DEF DapInv, GutterTyped
    <3> QED  BY <1>8, <3>1, SettledNow
  <2>4. ~dropped' => Settles(v.commands, v.known, breakpoints)
    BY <1>13, <2>2, <2>3
  <2> QED  BY <1>6, <2>1, <2>4 DEF Following
<1>16. ReadyOnce'
  <2>1. \A j \in 1..Len(sessions) : sessions[j].handle = "bg" /\ j # i => sessions'[j].handle = "bg"
    BY <1>2, <1>13 DEF DapInv, SessionsTold
  <2> QED  BY <1>13, <2>1, ReadyDrained
<1>17. GutterTyped'
  BY <1>6 DEF DapInv, GutterTyped
<1> QED
  BY <1>14, <1>15, <1>16, <1>17 DEF DapInv

\* An event that leaves the sessions alone.
LEMMA ViewFollows ==
  ASSUME DapInv, dapBg # <<>>, dapBg' = Tail(dapBg), view' \in Views,
         UNCHANGED <<dapClient, sessions, dropped, breakpoints, toggles>>, Head(dapBg).event.kind # "ready"
  PROVE  DapInv'
<1>1. SessionsTold' /\ Following' /\ GutterTyped'
  BY DEF DapInv, SessionsTold, Following, GutterTyped, IsTold, Up, DapRunning
<1>2. ReadyOnce'
  BY ReadyDrained
<1> QED
  BY <1>1, <1>2 DEF DapInv

\* The end of the program: the client is given up.
LEMMA EndSessionFollows ==
  ASSUME DapInv, dapBg # <<>>, dapBg' = Tail(dapBg), Head(dapBg).event.kind = "terminated", EndSession,
         UNCHANGED <<breakpoints, toggles>>
  PROVE  DapInv'
<1>1. /\ sessions' \in Seq(Sessions) /\ Len(sessions') = Len(sessions)
      /\ \A j \in 1..Len(sessions) : /\ IsTold(sessions'[j])
                                     /\ j = dapClient => sessions'[j].handle = "nobody"
                                     /\ j # dapClient => sessions'[j] = sessions[j]
      /\ dapClient' = 0 /\ view' = Cleared
  BY WithoutTells DEF EndSession
<1>2. SessionsTold'
  <2>1. \A j \in 1..Len(sessions) : IsTold(sessions[j])'
    BY <1>1 DEF IsTold, Up, DapRunning
  <2>2. \A j \in 1..Len(sessions) : sessions'[j].handle # "app" /\ j # 0
    BY <1>1 DEF DapInv, SessionsTold
  <2>3. Len(sessions) \in Nat
    BY DEF DapInv, SessionsTold
  <2> QED  BY <1>1, <2>1, <2>2, <2>3 DEF SessionsTold
<1>3. Following'
  BY <1>1 DEF Following
<1>4. ReadyOnce'
  <2>1. \A j \in 1..Len(sessions) : sessions[j].handle = "bg" => sessions'[j].handle = "bg"
    BY <1>1 DEF DapInv, SessionsTold
  <2> QED  BY <1>1, <2>1, ReadyDrained
<1>5. GutterTyped'
  BY <1>1 DEF DapInv, GutterTyped, Cleared, Views, NoFrame, Args, Frames
<1> QED
  BY <1>2, <1>3, <1>4, <1>5 DEF DapInv

\* The event loop handles what the channel holds first.
LEMMA DrainFollows == ASSUME DapInv, DapDrain PROVE DapInv'
<1> DEFINE e == Head(dapBg).event
<1>1. /\ dapBg # <<>> /\ dapBg' = Tail(dapBg) /\ Handle(Head(dapBg).session, e)
      /\ UNCHANGED <<breakpoints, toggles>>
  BY DEF DapDrain
<1>2. e \in DapEvents \cup {DapReady} /\ view \in Views
  <2>1. Head(dapBg) \in DapReports
    BY <1>1 DEF DapInv, ReadyOnce
  <2> QED  BY <2>1 DEF DapReports, DapInv, GutterTyped
<1>3. CASE e.kind = "ready" /\ TakeClient(Head(dapBg).session)
  BY <1>1, <1>3, TakeClientFollows
<1>4. CASE e.kind = "terminated" /\ EndSession
  BY <1>1, <1>4, EndSessionFollows
<1> HIDE DEF e
<1>5. CASE e.kind = "stopped" /\ view' = [view EXCEPT !.selected = 0]
           /\ DapDispatch(Request("stack")) /\ UNCHANGED dapClient
  <2>1. Request("stack") \in DapCommands /\ Request("stack").kind # "breakpoints"
    BY RequestIsCommand DEF CommandKinds
  <2>2. view' \in Views
    BY <1>2, <1>5 DEF Views
  <2> QED  BY <1>1, <1>5, <2>1, <2>2, SentFollows
<1>6. CASE e.kind = "stack" /\ StackArrives(e.arg, e.depth) /\ UNCHANGED dapClient
  <2> DEFINE c == [kind |-> "scopes", arg |-> e.arg]
  <2>1. e.arg \in Frames /\ e.depth \in Nat
    BY <1>2, <1>6 DEF DapEvents, StackEvents, ArgEvents, PlainEvents, DapReady
  <2>2. e.arg[1] \in Nat
    BY <2>1 DEF Frames
  <2>3. view' \in Views
    BY <1>2, <1>6, <2>1, <2>2 DEF StackArrives, Views
  <2>4. DapDispatch(c)
    BY <1>6 DEF StackArrives
  <2>5. c \in DapCommands /\ c.kind # "breakpoints"
    BY <2>1 DEF DapCommands, CommandKinds, Args
  <2> HIDE DEF c
  <2> QED  BY <1>1, <1>6, <2>3, <2>4, <2>5, SentFollows
<1>7. CASE e.kind = "scopes" /\ DapDispatch([kind |-> "variables", arg |-> e.arg])
           /\ UNCHANGED <<dapClient, view>>
  <2> DEFINE c == [kind |-> "variables", arg |-> e.arg]
  <2>1. e.arg \in Args
    BY <1>2, <1>7 DEF DapEvents, StackEvents, ArgEvents, PlainEvents, DapReady
  <2>2. c \in DapCommands /\ c.kind # "breakpoints"
    BY <2>1 DEF DapCommands, CommandKinds
  <2>3. DapDispatch(c)
    BY <1>7
  <2> HIDE DEF c
  <2> QED  BY <1>1, <1>2, <1>7, <2>2, <2>3, SentFollows
<1>8. CASE e.kind = "variables" /\ view' = [view EXCEPT !.vars = e.arg]
           /\ UNCHANGED <<dapClient, sessions, dropped>>
  <2>1. e.arg \in Args
    BY <1>2, <1>8 DEF DapEvents, StackEvents, ArgEvents, PlainEvents, DapReady
  <2>2. view' \in Views
    BY <1>2, <1>8, <2>1 DEF Views
  <2> QED  BY <1>1, <1>8, <2>2, ViewFollows DEF e
<1>9. CASE e.kind = "continued" /\ view' = Cleared /\ UNCHANGED <<dapClient, sessions, dropped>>
  <2>1. view' \in Views
    BY <1>9 DEF Cleared, Views, NoFrame, Args, Frames
  <2> QED  BY <1>1, <1>9, <2>1, ViewFollows DEF e
<1>10. CASE e.kind = "note" /\ UNCHANGED <<dapClient, view, sessions, dropped>>
  BY <1>1, <1>2, <1>10, ViewFollows DEF e
<1> QED
  BY <1>1, <1>3, <1>4, <1>5, <1>6, <1>7, <1>8, <1>9, <1>10 DEF Handle

\* No session and no breakpoints at first.
LEMMA InitFollows == DapInit => DapInv
<1> SUFFICES ASSUME DapInit PROVE DapInv
  OBVIOUS
<1>1. sessions = <<>> /\ dapBg = <<>> /\ dapClient = 0 /\ breakpoints = {} /\ view = Cleared /\ toggles = 0
  BY DEF DapInit
<1>2. SessionsTold /\ Following /\ ReadyOnce
  BY <1>1 DEF SessionsTold, Following, ReadyOnce
<1>3. GutterTyped
  BY <1>1 DEF GutterTyped, Cleared, Views, NoFrame, Args, Frames
<1> QED
  BY <1>2, <1>3 DEF DapInv

\* Every step keeps the invariant.
LEMMA StepFollows == ASSUME DapInv, [DapNext]_dapVars PROVE DapInv'
<1>1. CASE UNCHANGED dapVars
  BY <1>1 DEF dapVars, DapInv, SessionsTold, Following, ReadyOnce, GutterTyped, IsTold, Up, DapRunning
<1>2. ASSUME NEW i \in DOMAIN sessions,
             \/ DapHandOver(i) \/ DapBridge(i) \/ DapDriver(i)
             \/ Answers(i) \/ Initialized(i) \/ Stops(i) \/ Terminates(i) \/ AdapterExits(i)
      PROVE  DapInv'
  BY <1>2, HandOverFollows, BridgeFollows, DriverFollows, AnswersFollow, InitializedFollows,
     ProgramFollows
<1>3. ASSUME NEW line \in Lines, Toggle(line) PROVE DapInv'
  BY <1>3, ToggleFollows
<1> QED
  BY <1>1, <1>2, <1>3, RunFollows, DrainFollows, DapStopFollows, PanelFollows DEF DapNext

\* Nothing on its way, nothing dropped, and the adapter has the breakpoints of the gutter.
LEMMA QuietSettles == ASSUME DapInv PROVE BreakpointsSettle
<1> SUFFICES ASSUME Live, Quiet, ~dropped, sessions[dapClient].configured
             PROVE  sessions[dapClient].set = breakpoints
  BY DEF BreakpointsSettle
<1> DEFINE s == sessions[dapClient]
<1>1. dapClient \in 1..Len(sessions) /\ s \in Sessions /\ Up(s) /\ DapRunning(s) /\ dapClient \in DOMAIN sessions
  BY DEF Live, DapInv, SessionsTold, Up
<1>2. s.requests \in Seq(DapCommands) /\ s.commands \in Seq(DapCommands) /\ <<>> = s.requests \o s.commands
  BY <1>1 DEF Quiet, Sessions
<1>3. s.requests = <<>> /\ s.commands = <<>>
  <2> DEFINE a == s.requests  b == s.commands
  <2>1. a \in Seq(DapCommands) /\ b \in Seq(DapCommands) /\ a \o b = <<>>
    BY <1>2
  <2> HIDE DEF a, b
  <2>2. a = <<>> /\ b = <<>>
    BY <2>1, ConcatEqualIffEmpty
  <2> QED  BY <2>2 DEF a, b
<1>4. Settles(s.requests, s.set, s.known) /\ Settles(s.commands, s.known, breakpoints)
  BY <1>1 DEF DapInv, SessionsTold, IsTold, Following
<1> QED
  BY <1>3, <1>4, SettledNow

\* For any lines, any number of sessions, toggles, stops and controls, and queues of any
\* size: once nothing is on its way, the adapter has the breakpoints of the gutter.
THEOREM BreakpointsReach == DapSpec => []BreakpointsSettle
<1>1. DapSpec => []DapInv
  BY InitFollows, StepFollows, PTL DEF DapSpec
<1> QED
  BY <1>1, QuietSettles, PTL

-----------------------------------------------------------------------------
\* The run view.  What is on its way from a session to the editor and from the editor to
\* its adapter, in the order in which it comes round: events in the background channel, in
\* the driver's, requests with the adapter, commands.
Things == DapCommands \cup DapEvents \cup {DapReady}
OfKind(K) == {x \in Things : x.kind \in K}
Marks == OfKind({"stopped", "continued", "stack", "scopes", "variables", "continue", "step"})

OwnOf(b, i) == [k \in 1..Len(b) |-> IF b[k].session = i THEN b[k].event ELSE DapNote]
LanesOf(b, s, i) == <<OwnOf(b, i), s.events, s.requests, s.commands>>
IsPipe(q) == \A k \in 1..4 : q[k] \in Seq(Things)
SameBut(K, p, q) == \A k \in 1..4 : k \notin K => p[k] = q[k]

\* In a queue, and in the four: nothing of A, nothing of A ahead of something of B, something
\* of A with nothing of B behind it.
Never(s, A, B) == \A k, l \in 1..Len(s) : k < l => ~(s[k] \in A /\ s[l] \in B)
Lately(s, A, B) == \E k \in 1..Len(s) : s[k] \in A /\ \A l \in 1..Len(s) : l > k => s[l] \notin B
NoneIn(q, A) == \A k \in 1..4 : None(q[k], A)
NeverIn(q, A, B) ==
  /\ \A k \in 1..4 : Never(q[k], A, B)
  /\ \A k, l \in 1..4 : k < l => None(q[k], A) \/ None(q[l], B)
LatelyIn(q, A, B) == \E k \in 1..4 : Lately(q[k], A, B) /\ \A l \in 1..4 : l > k => None(q[l], B)
Untold(q, A) == None(q[1], A) /\ None(q[2], A)

\* Taking the first of a queue.
LEMMA WithoutFirst ==
  ASSUME NEW s \in Seq(Things), s # <<>>, NEW A, NEW B
  PROVE  /\ Tail(s) \in Seq(Things) /\ Head(s) \in Things
         /\ None(s, A) <=> None(Tail(s), A) /\ Head(s) \notin A
         /\ Never(s, A, B) => Never(Tail(s), A, B) /\ (Head(s) \in A => None(Tail(s), B))
         /\ Lately(s, A, B) => Lately(Tail(s), A, B) \/ (Head(s) \in A /\ None(Tail(s), B))
<1> DEFINE t == Tail(s)
<1>1. /\ Len(s) \in Nat \ {0} /\ Head(s) = s[1] /\ t \in Seq(Things) /\ Head(s) \in Things
      /\ Len(t) = Len(s) - 1 /\ \A k \in 1..Len(t) : t[k] = s[k + 1]
  OBVIOUS
<1> HIDE DEF t
<1>2. \A k \in 1..Len(t) : k + 1 \in 1..Len(s) /\ k + 1 > 1
  BY <1>1
<1>3. 1 \in 1..Len(s) /\ \A k \in 1..Len(s) : k # 1 => k - 1 \in 1..Len(t) /\ s[k] = t[k - 1]
  <2> SUFFICES ASSUME NEW k \in 1..Len(s), k # 1 PROVE k - 1 \in 1..Len(t) /\ s[k] = t[k - 1]
    BY <1>1
  <2>1. k - 1 \in 1..Len(t) /\ (k - 1) + 1 = k
    BY <1>1
  <2> QED  BY <1>1, <2>1
<1>4. None(s, A) <=> None(t, A) /\ Head(s) \notin A
  <2>1. ASSUME None(t, A), Head(s) \notin A, NEW k \in 1..Len(s) PROVE s[k] \notin A
    BY <1>1, <1>3, <2>1 DEF None
  <2>2. None(s, A) => None(t, A) /\ Head(s) \notin A
    BY <1>1, <1>2, <1>3 DEF None
  <2> QED  BY <2>1, <2>2 DEF None
<1>5. ASSUME Never(s, A, B) PROVE Never(t, A, B) /\ (Head(s) \in A => None(t, B))
  <2>1. ASSUME NEW k \in 1..Len(t), NEW l \in 1..Len(t), k < l, t[k] \in A, t[l] \in B PROVE FALSE
    <3>1. k + 1 \in 1..Len(s) /\ l + 1 \in 1..Len(s) /\ k + 1 < l + 1
      BY <1>1, <1>2, <2>1
    <3> QED  BY <1>1, <1>5, <2>1, <3>1 DEF Never
  <2>2. ASSUME Head(s) \in A, NEW l \in 1..Len(t), t[l] \in B PROVE FALSE
    <3>1. l + 1 \in 1..Len(s) /\ 1 < l + 1
      BY <1>2
    <3> QED  BY <1>1, <1>3, <1>5, <2>2, <3>1 DEF Never
  <2> QED  BY <2>1, <2>2 DEF Never, None
<1>6. ASSUME Lately(s, A, B) PROVE Lately(t, A, B) \/ (Head(s) \in A /\ None(t, B))
  <2>1. PICK k \in 1..Len(s) : s[k] \in A /\ \A l \in 1..Len(s) : l > k => s[l] \notin B
    BY <1>6 DEF Lately
  <2>2. CASE k = 1
    <3>1. \A l \in 1..Len(t) : l + 1 \in 1..Len(s) /\ l + 1 > k /\ t[l] = s[l + 1]
      BY <1>1, <1>2, <2>2
    <3> QED  BY <1>1, <2>1, <2>2, <3>1 DEF None
  <2>3. CASE k # 1
    <3>1. k - 1 \in 1..Len(t) /\ t[k - 1] \in A
      BY <1>3, <2>1, <2>3
    <3>2. ASSUME NEW l \in 1..Len(t), l > k - 1 PROVE t[l] \notin B
      <4>1. l + 1 \in 1..Len(s) /\ l + 1 > k /\ t[l] = s[l + 1]
        BY <1>1, <1>2, <3>2
      <4> QED  BY <2>1, <4>1
    <3> QED  BY <2>1, <3>1, <3>2 DEF Lately
  <2> QED  BY <2>2, <2>3
<1> QED
  BY <1>1, <1>4, <1>5, <1>6 DEF t

\* Adding one to a queue.
LEMMA WithLast ==
  ASSUME NEW s \in Seq(Things), NEW x \in Things, NEW A, NEW B
  PROVE  /\ Append(s, x) \in Seq(Things)
         /\ None(Append(s, x), A) <=> None(s, A) /\ x \notin A
         /\ Never(Append(s, x), A, B) <=> Never(s, A, B) /\ (x \in B => None(s, A))
         /\ Lately(s, A, B) /\ x \notin B => Lately(Append(s, x), A, B)
         /\ x \in A => Lately(Append(s, x), A, B)
<1> DEFINE t == Append(s, x)
<1>1. /\ Len(s) \in Nat /\ t \in Seq(Things) /\ Len(t) = Len(s) + 1 /\ t[Len(s) + 1] = x
      /\ \A k \in 1..Len(s) : t[k] = s[k]
  OBVIOUS
<1> HIDE DEF t
<1>2. /\ Len(s) + 1 \in 1..Len(t)
      /\ \A k \in 1..Len(s) : k \in 1..Len(t) /\ k < Len(s) + 1
      /\ \A k \in 1..Len(t) : k \in 1..Len(s) \/ k = Len(s) + 1
  BY <1>1
<1>3. None(t, A) <=> None(s, A) /\ x \notin A
  BY <1>1, <1>2 DEF None
<1>4. ASSUME Never(t, A, B) PROVE Never(s, A, B) /\ (x \in B => None(s, A))
  BY <1>1, <1>2, <1>4 DEF Never, None
<1>5. ASSUME Never(s, A, B), x \in B => None(s, A) PROVE Never(t, A, B)
  <2> SUFFICES ASSUME NEW k \in 1..Len(t), NEW l \in 1..Len(t), k < l, t[k] \in A, t[l] \in B
               PROVE  FALSE
    BY DEF Never
  <2>1. k \in 1..Len(s) /\ t[k] = s[k]
    BY <1>1, <1>2
  <2>2. CASE l \in 1..Len(s)
    BY <1>1, <1>5, <2>1, <2>2 DEF Never
  <2>3. CASE l = Len(s) + 1
    BY <1>1, <1>5, <2>1, <2>3 DEF None
  <2> QED  BY <1>2, <2>2, <2>3
<1>6. ASSUME Lately(s, A, B), x \notin B PROVE Lately(t, A, B)
  <2>1. PICK k \in 1..Len(s) : s[k] \in A /\ \A l \in 1..Len(s) : l > k => s[l] \notin B
    BY <1>6 DEF Lately
  <2>2. k \in 1..Len(t) /\ t[k] \in A /\ \A l \in 1..Len(t) : l > k => t[l] \notin B
    BY <1>1, <1>2, <1>6, <2>1
  <2> QED  BY <2>2 DEF Lately
<1>7. ASSUME x \in A PROVE Lately(t, A, B)
  <2>1. \A l \in 1..Len(t) : ~(l > Len(s) + 1)
    BY <1>1
  <2> QED  BY <1>1, <1>2, <1>7, <2>1 DEF Lately
<1> QED
  BY <1>1, <1>3, <1>4, <1>5, <1>6, <1>7 DEF t

\* Nothing of a kind: adding one, taking one.
LEMMA NoneWithLast ==
  ASSUME NEW s \in Seq(Things), NEW x \in Things, NEW A
  PROVE  None(Append(s, x), A) <=> None(s, A) /\ x \notin A
  BY WithLast

\* Nothing of a kind: taking the first.
LEMMA NoneWithoutFirst ==
  ASSUME NEW s \in Seq(Things), s # <<>>, NEW A
  PROVE  None(s, A) <=> None(Tail(s), A) /\ Head(s) \notin A
  BY WithoutFirst

\* One more thing at the end of lane n.
LEMMA PutOn ==
  ASSUME NEW q, IsPipe(q), NEW n \in 1..4, NEW x \in Things, NEW p, SameBut({n}, p, q),
         p[n] = Append(q[n], x), NEW A, NEW B
  PROVE  /\ IsPipe(p)
         /\ NoneIn(p, A) <=> NoneIn(q, A) /\ x \notin A
         /\ (/\ NeverIn(q, A, B) /\ (x \in B => NoneIn(q, A))
             /\ x \in A => (\A k \in 1..4 : k > n => None(q[k], B)))
            => NeverIn(p, A, B)
         /\ LatelyIn(q, A, B) /\ x \notin B => LatelyIn(p, A, B)
         /\ x \in A /\ (\A k \in 1..4 : k > n => None(q[k], B)) => LatelyIn(p, A, B)
<1>1. q[n] \in Seq(Things) /\ \A k \in 1..4 : k # n => p[k] = q[k]
  BY DEF IsPipe, SameBut
<1>2a. ASSUME NEW C PROVE None(p[n], C) <=> None(q[n], C) /\ x \notin C
  BY <1>1, NoneWithLast
<1>2. /\ p[n] \in Seq(Things)
      /\ None(p[n], A) <=> None(q[n], A) /\ x \notin A
      /\ None(p[n], B) <=> None(q[n], B) /\ x \notin B
      /\ Never(p[n], A, B) <=> Never(q[n], A, B) /\ (x \in B => None(q[n], A))
      /\ Lately(q[n], A, B) /\ x \notin B => Lately(p[n], A, B)
      /\ x \in A => Lately(p[n], A, B)
  BY <1>1, <1>2a, WithLast
<1>3. IsPipe(p)
  BY <1>1, <1>2 DEF IsPipe
<1>4. NoneIn(p, A) <=> NoneIn(q, A) /\ x \notin A
  BY <1>1, <1>2 DEF NoneIn
<1>5. ASSUME NeverIn(q, A, B), x \in B => NoneIn(q, A),
             x \in A => \A k \in 1..4 : k > n => None(q[k], B)
      PROVE  NeverIn(p, A, B)
  <2>1. \A k \in 1..4 : Never(p[k], A, B)
    BY <1>1, <1>2, <1>5 DEF NeverIn, NoneIn
  <2>2. ASSUME NEW k \in 1..4, NEW l \in 1..4, k < l PROVE None(p[k], A) \/ None(p[l], B)
    <3>1. None(q[k], A) \/ None(q[l], B)
      BY <1>5, <2>2 DEF NeverIn
    <3>2. CASE k = n
      <4>1. l > n /\ p[l] = q[l]
        BY <1>1, <2>2, <3>2
      <4>2. x \in A => None(q[l], B)
        BY <1>5, <4>1
      <4> QED  BY <1>2, <3>1, <3>2, <4>1, <4>2
    <3>3. CASE l = n
      <4>1. p[k] = q[k] /\ (x \in B => None(q[k], A))
        BY <1>1, <1>5, <2>2, <3>3 DEF NoneIn
      <4> QED  BY <1>2, <3>1, <3>3, <4>1
    <3>4. CASE k # n /\ l # n
      BY <1>1, <3>1, <3>4
    <3> QED  BY <3>2, <3>3, <3>4
  <2> QED  BY <2>1, <2>2 DEF NeverIn
<1>6. ASSUME LatelyIn(q, A, B), x \notin B PROVE LatelyIn(p, A, B)
  <2>1. PICK k \in 1..4 : Lately(q[k], A, B) /\ \A l \in 1..4 : l > k => None(q[l], B)
    BY <1>6 DEF LatelyIn
  <2>2. Lately(p[k], A, B) /\ \A l \in 1..4 : l > k => None(p[l], B)
    BY <1>1, <1>2, <1>6, <2>1
  <2> QED  BY <2>2 DEF LatelyIn
<1>7. ASSUME x \in A, \A k \in 1..4 : k > n => None(q[k], B) PROVE LatelyIn(p, A, B)
  <2>1. ASSUME NEW k \in 1..4, k > n PROVE None(p[k], B)
    BY <1>1, <1>7, <2>1
  <2> QED  BY <1>2, <1>7, <2>1 DEF LatelyIn
<1> QED
  BY <1>3, <1>4, <1>5, <1>6, <1>7

\* The first of lane n gone.
LEMMA TakenOff ==
  ASSUME NEW q, IsPipe(q), NEW n \in 1..4, q[n] # <<>>, NEW p, SameBut({n}, p, q),
         p[n] = Tail(q[n]), NEW A, NEW B
  PROVE  /\ IsPipe(p) /\ Head(q[n]) \in Things
         /\ NoneIn(q, A) <=> NoneIn(p, A) /\ Head(q[n]) \notin A
         /\ NeverIn(q, A, B)
              => /\ NeverIn(p, A, B)
                 /\ n = 1 /\ Head(q[n]) \in A => NoneIn(p, B)
         /\ n = 1 /\ LatelyIn(q, A, B) => LatelyIn(p, A, B) \/ NoneIn(p, B)
         /\ LatelyIn(q, A, B) /\ Head(q[n]) \notin A => LatelyIn(p, A, B)
<1> DEFINE x == Head(q[n])
<1>1. q[n] \in Seq(Things) /\ \A k \in 1..4 : k # n => p[k] = q[k]
  BY DEF IsPipe, SameBut
<1>2a. ASSUME NEW C PROVE None(q[n], C) <=> None(p[n], C) /\ x \notin C
  BY <1>1, NoneWithoutFirst
<1>2. /\ p[n] \in Seq(Things) /\ x \in Things
      /\ None(q[n], A) <=> None(p[n], A) /\ x \notin A
      /\ None(q[n], B) <=> None(p[n], B) /\ x \notin B
      /\ Never(q[n], A, B) => Never(p[n], A, B) /\ (x \in A => None(p[n], B))
      /\ Lately(q[n], A, B) => Lately(p[n], A, B) \/ (x \in A /\ None(p[n], B))
  BY <1>1, <1>2a, WithoutFirst
<1> HIDE DEF x
<1>3. IsPipe(p)
  BY <1>1, <1>2 DEF IsPipe
<1>4. NoneIn(q, A) <=> NoneIn(p, A) /\ x \notin A
  BY <1>1, <1>2 DEF NoneIn
<1>5. ASSUME NeverIn(q, A, B) PROVE NeverIn(p, A, B)
  <2>1. \A k \in 1..4 : Never(p[k], A, B)
    BY <1>1, <1>2, <1>5 DEF NeverIn
  <2>2. ASSUME NEW k \in 1..4, NEW l \in 1..4, k < l PROVE None(p[k], A) \/ None(p[l], B)
    <3>1. None(q[k], A) \/ None(q[l], B)
      BY <1>5, <2>2 DEF NeverIn
    <3> QED  BY <1>1, <1>2, <3>1
  <2> QED  BY <2>1, <2>2 DEF NeverIn
<1>6. ASSUME NeverIn(q, A, B), n = 1, x \in A, NEW k \in 1..4 PROVE None(p[k], B)
  <2>1. CASE k = 1
    BY <1>2, <1>6, <2>1 DEF NeverIn
  <2>2. CASE k # 1
    <3>1. 1 < k /\ p[k] = q[k] /\ ~None(q[1], A)
      BY <1>1, <1>2, <1>6, <2>2
    <3> QED  BY <1>6, <3>1 DEF NeverIn
  <2> QED  BY <2>1, <2>2
<1>7. ASSUME LatelyIn(q, A, B), x \notin A PROVE LatelyIn(p, A, B)
  <2>1. PICK k \in 1..4 : Lately(q[k], A, B) /\ \A l \in 1..4 : l > k => None(q[l], B)
    BY <1>7 DEF LatelyIn
  <2>2. Lately(p[k], A, B) /\ \A l \in 1..4 : l > k => None(p[l], B)
    BY <1>1, <1>2, <1>7, <2>1
  <2> QED  BY <2>2 DEF LatelyIn
<1>8. ASSUME n = 1, LatelyIn(q, A, B) PROVE LatelyIn(p, A, B) \/ NoneIn(p, B)
  <2>1. PICK k \in 1..4 : Lately(q[k], A, B) /\ \A l \in 1..4 : l > k => None(q[l], B)
    BY <1>8 DEF LatelyIn
  <2>2. \A l \in 1..4 : l > k => None(p[l], B)
    BY <1>1, <1>2, <2>1
  <2>3. CASE Lately(p[k], A, B)
    BY <2>2, <2>3 DEF LatelyIn
  <2>4. CASE ~Lately(p[k], A, B)
    <3>1. k = 1 /\ None(p[1], B)
      BY <1>1, <1>2, <1>8, <2>1, <2>4
    <3>2. ASSUME NEW l \in 1..4 PROVE None(p[l], B)
      <4>1. l = 1 \/ l > 1
        OBVIOUS
      <4> QED  BY <2>2, <3>1, <4>1
    <3> QED  BY <3>2 DEF NoneIn
  <2> QED  BY <2>3, <2>4
<1>9. NeverIn(q, A, B) /\ n = 1 /\ x \in A => NoneIn(p, B)
  BY <1>6 DEF NoneIn
<1> QED
  BY <1>2, <1>3, <1>4, <1>5, <1>7, <1>8, <1>9 DEF x

\* The first of lane n + 1 passed on to lane n, as it is or answered.
LEMMA PassedOn ==
  ASSUME NEW q, IsPipe(q), NEW n \in 1..3, NEW m \in 1..4, m = n + 1, q[m] # <<>>, NEW p,
         SameBut({n, m}, p, q), NEW y \in Things, p[n] = Append(q[n], y), p[m] = Tail(q[m]),
         NEW A, NEW B, y \in A => Head(q[m]) \in A, y \in B => Head(q[m]) \in B
  PROVE  /\ IsPipe(p) /\ Head(q[m]) \in Things
         /\ NoneIn(q, A) => NoneIn(p, A)
         /\ (Head(q[m]) \in A => y \in A) /\ NoneIn(p, A) => NoneIn(q, A)
         /\ NeverIn(q, A, B) => NeverIn(p, A, B)
         /\ (Head(q[m]) \in A => y \in A) /\ LatelyIn(q, A, B) => LatelyIn(p, A, B)
<1> DEFINE x == Head(q[m])
<1>0. n \in 1..4 /\ m \in 1..4 /\ n < m /\ q[m] # <<>> /\ p[m] = Tail(q[m])
      /\ (y \in A => x \in A) /\ (y \in B => x \in B)
      /\ \A k \in 1..4 : k # n /\ k # m => p[k] = q[k] /\ (k < n \/ k > m)
  BY DEF SameBut
<1> HIDE DEF x
<1>1. q[n] \in Seq(Things) /\ q[m] \in Seq(Things)
  BY <1>0 DEF IsPipe
<1>2a. ASSUME NEW C PROVE None(q[m], C) <=> None(p[m], C) /\ x \notin C
  BY <1>0, <1>1, NoneWithoutFirst DEF x
<1>2. /\ p[m] \in Seq(Things) /\ x \in Things
      /\ None(q[m], A) <=> None(p[m], A) /\ x \notin A
      /\ None(q[m], B) <=> None(p[m], B) /\ x \notin B
      /\ Never(q[m], A, B) => Never(p[m], A, B) /\ (x \in A => None(p[m], B))
      /\ Lately(q[m], A, B) => Lately(p[m], A, B) \/ (x \in A /\ None(p[m], B))
  BY <1>0, <1>1, <1>2a, WithoutFirst DEF x
<1>3a. ASSUME NEW C PROVE None(p[n], C) <=> None(q[n], C) /\ y \notin C
  BY <1>1, NoneWithLast
<1>3. /\ p[n] \in Seq(Things)
      /\ None(p[n], A) <=> None(q[n], A) /\ y \notin A
      /\ None(p[n], B) <=> None(q[n], B) /\ y \notin B
      /\ Never(p[n], A, B) <=> Never(q[n], A, B) /\ (y \in B => None(q[n], A))
      /\ Lately(q[n], A, B) /\ y \notin B => Lately(p[n], A, B)
      /\ y \in A => Lately(p[n], A, B)
  BY <1>1, <1>3a, WithLast
<1>4. IsPipe(p)
  BY <1>0, <1>2, <1>3 DEF IsPipe
<1>5. NoneIn(q, A) => NoneIn(p, A)
  BY <1>0, <1>2, <1>3 DEF NoneIn
<1>6. (x \in A => y \in A) /\ NoneIn(p, A) => NoneIn(q, A)
  BY <1>0, <1>2, <1>3 DEF NoneIn
<1>7. ASSUME NeverIn(q, A, B) PROVE NeverIn(p, A, B)
  <2>1. \A k, l \in 1..4 : k < l => None(q[k], A) \/ None(q[l], B)
    BY <1>7 DEF NeverIn
  <2>2. Never(p[n], A, B) /\ Never(p[m], A, B)
    BY <1>0, <1>2, <1>3, <1>7, <2>1 DEF NeverIn
  <2>3. \A k \in 1..4 : Never(p[k], A, B)
    BY <1>0, <1>7, <2>2 DEF NeverIn
  <2>4. ASSUME NEW k \in 1..4, NEW l \in 1..4, k < l PROVE None(p[k], A) \/ None(p[l], B)
    <3>1. CASE k = n /\ l = m
      <4>1. None(q[n], A) \/ None(q[m], B)
        BY <1>0, <2>1
      <4>2. x \in A => None(p[m], B)
        BY <1>0, <1>2, <1>7 DEF NeverIn
      <4> QED  BY <1>0, <1>2, <1>3, <3>1, <4>1, <4>2
    <3>2. CASE k = n /\ l # m
      <4>1. l > m /\ p[l] = q[l] /\ (None(q[n], A) \/ None(q[l], B)) /\ (None(q[m], A) \/ None(q[l], B))
        BY <1>0, <2>1, <2>4, <3>2
      <4> QED  BY <1>0, <1>2, <1>3, <3>2, <4>1
    <3>3. CASE k = m
      <4>1. p[l] = q[l] /\ (None(q[m], A) \/ None(q[l], B))
        BY <1>0, <2>1, <2>4, <3>3
      <4> QED  BY <1>2, <3>3, <4>1
    <3>4. CASE k # n /\ k # m /\ l = n
      <4>1. p[k] = q[k] /\ (None(q[k], A) \/ None(q[n], B)) /\ (None(q[k], A) \/ None(q[m], B))
        BY <1>0, <2>1, <2>4, <3>4
      <4> QED  BY <1>0, <1>2, <1>3, <3>4, <4>1
    <3>5. CASE k # n /\ k # m /\ l = m
      <4>1. p[k] = q[k] /\ (None(q[k], A) \/ None(q[m], B))
        BY <1>0, <2>1, <2>4, <3>5
      <4> QED  BY <1>2, <3>5, <4>1
    <3>6. CASE k # n /\ k # m /\ l # n /\ l # m
      BY <1>0, <2>1, <2>4, <3>6
    <3> QED  BY <3>1, <3>2, <3>3, <3>4, <3>5, <3>6
  <2> QED  BY <2>3, <2>4 DEF NeverIn
<1>8. ASSUME x \in A => y \in A, LatelyIn(q, A, B) PROVE LatelyIn(p, A, B)
  <2>1. PICK k \in 1..4 : Lately(q[k], A, B) /\ \A l \in 1..4 : l > k => None(q[l], B)
    BY <1>8 DEF LatelyIn
  <2>2. CASE k = m
    <3>1. Lately(p[m], A, B) \/ (y \in A /\ None(p[m], B))
      BY <1>2, <1>8, <2>1, <2>2
    <3>2. \A l \in 1..4 : l > m => None(p[l], B)
      BY <1>0, <2>1, <2>2
    <3>3. Lately(p[m], A, B) => LatelyIn(p, A, B)
      BY <1>0, <3>2 DEF LatelyIn
    <3>4. y \in A /\ None(p[m], B) => LatelyIn(p, A, B)
      <4>1. ASSUME None(p[m], B), NEW l \in 1..4, l > n PROVE None(p[l], B)
        <5>1. l = m \/ l > m
          BY <1>0, <4>1
        <5> QED  BY <3>2, <4>1, <5>1
      <4> QED  BY <1>0, <1>3, <4>1 DEF LatelyIn
    <3> QED  BY <3>1, <3>3, <3>4
  <2>3. CASE k = n
    <3>1. None(q[m], B) /\ y \notin B
      BY <1>0, <1>2, <2>1, <2>3
    <3>2. Lately(p[n], A, B) /\ None(p[m], B)
      BY <1>2, <1>3, <2>1, <2>3, <3>1
    <3>3. \A l \in 1..4 : l > n => None(p[l], B)
      BY <1>0, <2>1, <2>3, <3>2
    <3> QED  BY <1>0, <3>2, <3>3 DEF LatelyIn
  <2>4. CASE k # n /\ k # m
    <3>1. p[k] = q[k] /\ (k < n \/ k > m)
      BY <1>0, <2>4
    <3>2. ASSUME NEW l \in 1..4, l > k PROVE None(p[l], B)
      <4>1. CASE l = n
        <5>1. m > k
          BY <1>0, <3>2, <4>1
        <5>2. None(q[n], B) /\ None(q[m], B)
          BY <1>0, <2>1, <3>2, <4>1, <5>1
        <5> QED  BY <1>0, <1>2, <1>3, <4>1, <5>2
      <4>2. CASE l = m
        BY <1>2, <2>1, <3>2, <4>2
      <4>3. CASE l # n /\ l # m
        BY <1>0, <2>1, <3>2, <4>3
      <4> QED  BY <4>1, <4>2, <4>3
    <3> QED  BY <2>1, <3>1, <3>2 DEF LatelyIn
  <2> QED  BY <2>2, <2>3, <2>4
<1> QED
  BY <1>2, <1>4, <1>5, <1>6, <1>7, <1>8 DEF x

\* What a session, and what the view, are about: stacks, scopes and variables, those of the
\* frame g and those of another, those of no frame with the index n; a stack that is not of the stop;
\* what sets the program going, and what says it goes; what a client not yet there is not sent.
Stacks == OfKind({"stack"})
Scopes == OfKind({"scopes"})
Variables == OfKind({"variables"})
Shown == OfKind({"scopes", "variables"})
ToShow == OfKind({"stack", "scopes", "variables"})
Asked == OfKind({"stack", "scopes"})
Controls == OfKind({"continue", "step"})
Back == OfKind({"continued"})
News == OfKind({"stopped", "stack"})
Loud == OfKind({"continued", "stack", "scopes", "variables", "continue", "step"})
Readies == OfKind({"ready"})
Shakes == OfKind({"initialize", "launch", "configured"})
Good(g) == {x \in Shown : x.arg = g}
Bad(g) == {x \in Shown : x.arg # g}
BadScopes(g) == {x \in Scopes : x.arg # g}
Astray(n) == {x \in Shown : x.arg \notin Nat \X {n}}
Odd(s) == {x \in Stacks : x.arg # <<s.stop, 0>> \/ x.depth # s.depth}

\* The program goes, or is told to: no answer of the stop before is on its way to the view.
Moving(q, s) == s.adapter # "stopped" \/ ~NoneIn(q, Controls)
Rolling(q) ==
  /\ Untold(q, ToShow)
  /\ NoneIn(q, Variables)
  /\ NeverIn(q, Asked, OfKind({"scopes", "continue", "step"}))

\* What is shown of the frame g comes last.
Lined(q, g) ==
  /\ NeverIn(q, Good(g), Bad(g))
  /\ NeverIn(q, BadScopes(g), Good(g))
  /\ NeverIn(q, Stacks, BadScopes(g))

\* The view is of the stop, its variables are or will be those of the frame selected.
Shows(q, s, v) ==
  LET g == <<s.stop, v.selected>> IN
  /\ v.marker = s.stop /\ v.stop = s.stop /\ v.frames = s.depth
  /\ NoneIn(q, Back) /\ NoneIn(q, BadScopes(g))
  /\ NoneIn(q, Good(g)) => NoneIn(q, Shown) /\ v.vars = g

ViewFits(q, s, v) ==
  /\ v.selected # 0 => NoneIn(q, Stacks) /\ NoneIn(q, Astray(v.selected))
  /\ Moving(q, s) => v.marker = 0 /\ Rolling(q)
  /\ ~Moving(q, s) => /\ Untold(q, Odd(s))
                      /\ Lined(q, <<s.stop, v.selected>>)
                      /\ LatelyIn(q, News, Back) \/ Shows(q, s, v)

\* Whatever holds of the one of what the view is about holds of the other.
Alike(p, q) ==
  \A A, B \in SUBSET Marks :
    /\ NoneIn(q, A) <=> NoneIn(p, A)
    /\ Untold(q, A) => Untold(p, A)
    /\ NeverIn(q, A, B) => NeverIn(p, A, B)
    /\ LatelyIn(q, A, B) => LatelyIn(p, A, B)

\* The sets are sets of marks.
LEMMA AllMarks ==
  /\ \A X \in {Stacks, Scopes, Variables, Shown, ToShow, Asked, Controls, Back, News, Loud,
               OfKind({"scopes", "continue", "step"})} : X \in SUBSET Marks
  /\ \A g : Good(g) \in SUBSET Marks /\ Bad(g) \in SUBSET Marks /\ BadScopes(g) \in SUBSET Marks
  /\ \A n : Astray(n) \in SUBSET Marks
  /\ \A s : Odd(s) \in SUBSET Marks
  BY DEF Stacks, Scopes, Variables, Shown, ToShow, Asked, Controls, Back, News, Loud, Good, Bad,
     BadScopes, Astray, Odd, OfKind, Marks

\* The view that fits the one fits the other.
LEMMA AlikeFits ==
  ASSUME NEW p, NEW q, Alike(p, q), NEW s, NEW t, NEW v, ViewFits(q, s, v),
         t.stop = s.stop, t.depth = s.depth, t.adapter = "stopped" <=> s.adapter = "stopped"
  PROVE  ViewFits(p, t, v)
<1> DEFINE g == <<s.stop, v.selected>>
<1>1. \A A, B \in SUBSET Marks :
        /\ NoneIn(q, A) <=> NoneIn(p, A)
        /\ Untold(q, A) => Untold(p, A)
        /\ NeverIn(q, A, B) => NeverIn(p, A, B)
        /\ LatelyIn(q, A, B) => LatelyIn(p, A, B)
  BY DEF Alike
<1>2. g = <<t.stop, v.selected>> /\ Odd(t) = Odd(s)
  BY DEF Odd
<1>3. Moving(p, t) <=> Moving(q, s)
  BY <1>1, AllMarks DEF Moving
<1>4. v.selected # 0 => NoneIn(p, Stacks) /\ NoneIn(p, Astray(v.selected))
  BY <1>1, AllMarks DEF ViewFits
<1>5. Rolling(q) => Rolling(p)
  BY <1>1, AllMarks DEF Rolling
<1>6. Lined(q, g) => Lined(p, g)
  BY <1>1, AllMarks DEF Lined
<1>7. Shows(q, s, v) => Shows(p, t, v)
  BY <1>1, <1>2, AllMarks DEF Shows
<1>8. Untold(q, Odd(s)) => Untold(p, Odd(t))
  BY <1>1, <1>2, AllMarks
<1>9. LatelyIn(q, News, Back) => LatelyIn(p, News, Back)
  BY <1>1, AllMarks
<1> QED
  BY <1>2, <1>3, <1>4, <1>5, <1>6, <1>7, <1>8, <1>9 DEF ViewFits

\* One more thing that is none of these.
LEMMA PlainPut ==
  ASSUME NEW q, IsPipe(q), NEW n \in 1..4, NEW x \in Things, x \notin Marks, NEW p,
         SameBut({n}, p, q), p[n] = Append(q[n], x)
  PROVE  IsPipe(p) /\ Alike(p, q)
<1>1. IsPipe(p)
  BY PutOn
<1>2. ASSUME NEW A \in SUBSET Marks, NEW B \in SUBSET Marks
      PROVE  /\ NoneIn(q, A) <=> NoneIn(p, A)
             /\ Untold(q, A) => Untold(p, A)
             /\ NeverIn(q, A, B) => NeverIn(p, A, B)
             /\ LatelyIn(q, A, B) => LatelyIn(p, A, B)
  <2>1. x \notin A /\ x \notin B
    OBVIOUS
  <2>2. /\ NoneIn(q, A) <=> NoneIn(p, A)
        /\ NeverIn(q, A, B) => NeverIn(p, A, B)
        /\ LatelyIn(q, A, B) => LatelyIn(p, A, B)
    BY <2>1, PutOn
  <2>3. \A k \in 1..4 : None(q[k], A) => None(p[k], A)
    <3>1. q[n] \in Seq(Things)
      BY DEF IsPipe
    <3>2. None(q[n], A) => None(p[n], A)
      BY <2>1, <3>1, NoneWithLast
    <3> QED  BY <3>2 DEF SameBut
  <2> QED  BY <2>2, <2>3 DEF Untold
<1> QED
  BY <1>1, <1>2 DEF Alike

\* One thing less that is none of these.
LEMMA PlainOff ==
  ASSUME NEW q, IsPipe(q), NEW n \in 1..4, q[n] # <<>>, Head(q[n]) \notin Marks, NEW p,
         SameBut({n}, p, q), p[n] = Tail(q[n])
  PROVE  IsPipe(p) /\ Alike(p, q)
<1>1. IsPipe(p)
  BY TakenOff
<1>2. ASSUME NEW A \in SUBSET Marks, NEW B \in SUBSET Marks
      PROVE  /\ NoneIn(q, A) <=> NoneIn(p, A)
             /\ Untold(q, A) => Untold(p, A)
             /\ NeverIn(q, A, B) => NeverIn(p, A, B)
             /\ LatelyIn(q, A, B) => LatelyIn(p, A, B)
  <2>1. Head(q[n]) \notin A /\ Head(q[n]) \notin B
    OBVIOUS
  <2>2. /\ NoneIn(q, A) <=> NoneIn(p, A)
        /\ NeverIn(q, A, B) => NeverIn(p, A, B)
        /\ LatelyIn(q, A, B) => LatelyIn(p, A, B)
    BY <2>1, TakenOff
  <2>3. \A k \in 1..4 : None(q[k], A) => None(p[k], A)
    <3>1. q[n] \in Seq(Things)
      BY DEF IsPipe
    <3>2. None(q[n], A) => None(p[n], A)
      BY <2>1, <3>1, NoneWithoutFirst
    <3> QED  BY <3>2 DEF SameBut
  <2> QED  BY <2>2, <2>3 DEF Untold
<1> QED
  BY <1>1, <1>2 DEF Alike

\* One thing passed on as it is, from the channel of the driver or from the commands.
LEMMA SamePassed ==
  ASSUME NEW q, IsPipe(q), NEW n \in {1, 3}, NEW m \in {2, 4}, m = n + 1, q[m] # <<>>, NEW p,
         SameBut({n, m}, p, q), NEW x, x = Head(q[m]), p[n] = Append(q[n], x), p[m] = Tail(q[m])
  PROVE  IsPipe(p) /\ Alike(p, q)
<1>0. n \in 1..3 /\ n \in 1..4 /\ m \in 1..4
  OBVIOUS
<1>1. q[n] \in Seq(Things) /\ q[m] \in Seq(Things) /\ x \in Things
  BY <1>0 DEF IsPipe
<1>2. IsPipe(p)
  <2>1. Append(q[n], x) \in Seq(Things) /\ Tail(q[m]) \in Seq(Things)
    BY <1>1
  <2> QED  BY <1>0, <2>1 DEF IsPipe, SameBut
<1>3. ASSUME NEW A \in SUBSET Marks, NEW B \in SUBSET Marks
      PROVE  /\ NoneIn(q, A) <=> NoneIn(p, A)
             /\ Untold(q, A) => Untold(p, A)
             /\ NeverIn(q, A, B) => NeverIn(p, A, B)
             /\ LatelyIn(q, A, B) => LatelyIn(p, A, B)
  <2>1. /\ NoneIn(q, A) <=> NoneIn(p, A)
        /\ NeverIn(q, A, B) => NeverIn(p, A, B)
        /\ LatelyIn(q, A, B) => LatelyIn(p, A, B)
    <3>1. (x \in A => Head(q[m]) \in A) /\ (Head(q[m]) \in A => x \in A)
          /\ (x \in B => Head(q[m]) \in B)
      OBVIOUS
    <3>2. NeverIn(q, A, B) => NeverIn(p, A, B)
      BY <1>0, <1>1, <3>1, PassedOn
    <3>3. LatelyIn(q, A, B) => LatelyIn(p, A, B)
      BY <1>0, <1>1, <3>1, PassedOn
    <3>4. NoneIn(q, A) <=> NoneIn(p, A)
      BY <1>0, <1>1, <3>1, PassedOn
    <3> QED  BY <3>2, <3>3, <3>4
  <2>2. None(q[m], A) <=> None(p[m], A) /\ x \notin A
    BY <1>1, NoneWithoutFirst
  <2>3. None(p[n], A) <=> None(q[n], A) /\ x \notin A
    BY <1>1, NoneWithLast
  <2>4. CASE n = 1
    <3>1. m = 2
      BY <2>4
    <3> QED  BY <2>1, <2>2, <2>3, <2>4, <3>1 DEF Untold
  <2>5. CASE n = 3
    <3>1. p[1] = q[1] /\ p[2] = q[2]
      BY <2>5 DEF SameBut
    <3> QED  BY <2>1, <3>1 DEF Untold
  <2> QED  BY <2>1, <2>4, <2>5
<1> QED
  BY <1>2, <1>3 DEF Alike

\* Nothing of a larger set.
LEMMA NoneOfMore ==
  ASSUME NEW q, NEW A, NEW B, NoneIn(q, B), A \subseteq B
  PROVE  NoneIn(q, A)
  BY DEF NoneIn, None

\* Nothing of either, nothing of both.
LEMMA NoneOfBoth ==
  ASSUME NEW q, NEW A, NEW B, NEW C, NoneIn(q, A), NoneIn(q, B), C \subseteq A \cup B
  PROVE  NoneIn(q, C)
  BY DEF NoneIn, None

\* What is not there is not ahead of anything, nor behind.
LEMMA NeverOfNone ==
  ASSUME NEW q, NEW A, NEW B, NoneIn(q, A) \/ NoneIn(q, B)
  PROVE  NeverIn(q, A, B)
  BY DEF NoneIn, None, NeverIn, Never

\* What is never ahead of more is never ahead of less; what is not there does not count.
LEMMA NeverOfMore ==
  ASSUME NEW q, NEW A, NEW B, NEW C, NEW D, NEW N, NeverIn(q, A, B), NoneIn(q, N),
         C \subseteq A \cup N, D \subseteq B \cup N
  PROVE  NeverIn(q, C, D)
<1>1. ASSUME NEW k \in 1..4 PROVE Never(q[k], C, D)
  <2>1. Never(q[k], A, B) /\ None(q[k], N)
    BY DEF NeverIn, NoneIn
  <2> QED  BY <2>1 DEF Never, None
<1>2. ASSUME NEW k \in 1..4, NEW l \in 1..4, k < l PROVE None(q[k], C) \/ None(q[l], D)
  <2>1. (None(q[k], A) \/ None(q[l], B)) /\ None(q[k], N) /\ None(q[l], N)
    BY <1>2 DEF NeverIn, NoneIn
  <2> QED  BY <2>1 DEF None
<1> QED
  BY <1>1, <1>2 DEF NeverIn

\* The frame first selected is that of a new stop: nothing of another's is on its way.
LEMMA Deselected ==
  ASSUME NEW q, NEW s, NEW v, ViewFits(q, s, v), ~Moving(q, s)
  PROVE  Lined(q, <<s.stop, 0>>)
<1> DEFINE g == <<s.stop, 0>>
<1>1. CASE v.selected = 0
  BY <1>1 DEF ViewFits
<1>2. CASE v.selected # 0
  <2>1. NoneIn(q, Stacks) /\ NoneIn(q, Astray(v.selected))
    BY <1>2 DEF ViewFits
  <2>2. Good(g) \subseteq Astray(v.selected)
    <3>1. g \notin Nat \X {v.selected}
      BY <1>2
    <3> QED  BY <3>1 DEF Good, Astray
  <2>3. NoneIn(q, Good(g))
    BY <2>1, <2>2, NoneOfMore
  <2> QED  BY <2>1, <2>3, NeverOfNone DEF Lined
<1> QED
  BY <1>1, <1>2

\* A session that begins: nothing is shown.
LEMMA BeginFits ==
  ASSUME NEW q, NoneIn(q, Marks), NEW s, s.adapter # "stopped", NEW v, v.marker = 0
  PROVE  ViewFits(q, s, v)
<1>1. \A A \in SUBSET Marks : NoneIn(q, A)
  BY NoneOfMore
<1>2. Moving(q, s) /\ NoneIn(q, Stacks) /\ NoneIn(q, Astray(v.selected)) /\ NoneIn(q, Variables)
      /\ NoneIn(q, ToShow) /\ NoneIn(q, Asked)
  BY <1>1, AllMarks DEF Moving
<1>3. Rolling(q)
  BY <1>2, NeverOfNone DEF Rolling, Untold, NoneIn
<1> QED
  BY <1>2, <1>3 DEF ViewFits

\* The view cleared for the program of a session left.
LEMMA SilentFits ==
  ASSUME NEW q, NoneIn(q, Loud), NEW s, s.adapter = "stopped" => s.stop # 0, NEW v, ViewFits(q, s, v),
         v.marker = 0
  PROVE  ViewFits(q, s, Cleared)
<1>1. \A A : A \subseteq Loud => NoneIn(q, A)
  BY NoneOfMore
<1>2. Stacks \subseteq Loud /\ Variables \subseteq Loud /\ ToShow \subseteq Loud /\ Asked \subseteq Loud
      /\ Controls \subseteq Loud
  BY DEF Stacks, Variables, ToShow, Asked, Controls, Loud, OfKind
<1>3. NoneIn(q, Stacks) /\ NoneIn(q, Variables) /\ NoneIn(q, ToShow) /\ NoneIn(q, Asked) /\ NoneIn(q, Controls)
  BY <1>1, <1>2
<1>4. Rolling(q)
  BY <1>3, NeverOfNone DEF Rolling, Untold, NoneIn
<1>5. Cleared.marker = 0 /\ Cleared.selected = 0
  BY DEF Cleared
<1>6. ASSUME ~Moving(q, s)
      PROVE  Untold(q, Odd(s)) /\ Lined(q, <<s.stop, 0>>) /\ LatelyIn(q, News, Back)
  <2>1. ~Shows(q, s, v)
    BY <1>6 DEF Shows, Moving
  <2>2. Untold(q, Odd(s)) /\ LatelyIn(q, News, Back)
    BY <1>6, <2>1 DEF ViewFits
  <2> QED  BY <1>6, <2>2, Deselected
<1> QED
  BY <1>4, <1>5, <1>6 DEF ViewFits

\* The kinds of what stands where: events, requests and commands.
LEMMA KindsApart ==
  /\ DapEvents \subseteq Things /\ DapCommands \subseteq Things /\ DapNote \in Things \ Marks
  /\ DapReady \in Readies /\ DapReady \in Things \ Marks
  /\ \A x \in DapEvents : x \notin Controls /\ x \notin Shakes /\ x \notin Readies
  /\ \A x \in DapCommands : x \notin Back
<1>1. \A x \in DapEvents : x.kind \in {"stack", "scopes", "variables", "note", "stopped", "continued", "terminated"}
  BY DEF DapEvents, StackEvents, ArgEvents, PlainEvents
<1>2. \A x \in DapCommands : x.kind \in CommandKinds
  BY DEF DapCommands
<1>3. DapNote \in Things \ Marks
  BY NoteIsEvent DEF DapNote, Things, Marks, OfKind
<1>4. DapReady \in Readies /\ DapReady \in Things \ Marks
  BY DEF DapReady, Things, Marks, OfKind, Readies
<1> QED
  BY <1>1, <1>2, <1>3, <1>4 DEF Things, Controls, Shakes, Readies, Back, OfKind, CommandKinds

Busy == OfKind({"scopes", "continue", "step"})

\* A thing less, or one more, on its way: what there is none of.
LEMMA NoneOff ==
  ASSUME NEW q, IsPipe(q), NEW n \in 1..4, q[n] # <<>>, NEW p, SameBut({n}, p, q), p[n] = Tail(q[n])
  PROVE  /\ IsPipe(p) /\ Head(q[n]) \in Things
         /\ \A A : NoneIn(q, A) <=> NoneIn(p, A) /\ Head(q[n]) \notin A
<1>1. ASSUME NEW A
      PROVE  IsPipe(p) /\ Head(q[n]) \in Things /\ (NoneIn(q, A) <=> NoneIn(p, A) /\ Head(q[n]) \notin A)
  <2>1. NeverIn(q, A, A) => NeverIn(p, A, A)
    BY TakenOff
  <2> QED  BY <2>1, TakenOff
<1> QED
  BY <1>1

\* One thing more, the same.
LEMMA NonePut ==
  ASSUME NEW q, IsPipe(q), NEW n \in 1..4, NEW x \in Things, NEW p, SameBut({n}, p, q),
         p[n] = Append(q[n], x)
  PROVE  /\ IsPipe(p)
         /\ \A A : NoneIn(p, A) <=> NoneIn(q, A) /\ x \notin A
<1>1. ASSUME NEW A PROVE IsPipe(p) /\ (NoneIn(p, A) <=> NoneIn(q, A) /\ x \notin A)
  <2>1. LatelyIn(q, A, A) /\ x \notin A => LatelyIn(p, A, A)
    BY PutOn
  <2> QED  BY <2>1, PutOn
<1> QED
  BY <1>1

\* The same of what is not told the editor.
LEMMA UntoldOff ==
  ASSUME NEW q, IsPipe(q), NEW n \in 1..4, q[n] # <<>>, NEW p, SameBut({n}, p, q), p[n] = Tail(q[n]),
         NEW A, Untold(q, A)
  PROVE  Untold(p, A)
<1>1. q[n] \in Seq(Things)
  BY DEF IsPipe
<1>2. None(q[n], A) => None(p[n], A)
  BY <1>1, NoneWithoutFirst
<1> QED
  <2>1. \A k \in {1, 2} : k # n => p[k] = q[k]
    BY DEF SameBut
  <2> QED  BY <1>2, <2>1 DEF Untold

\* One thing more of what is not told the editor.
LEMMA UntoldPut ==
  ASSUME NEW q, IsPipe(q), NEW n \in 1..4, NEW x \in Things, NEW p, SameBut({n}, p, q),
         p[n] = Append(q[n], x), NEW A, Untold(q, A), n \in {3, 4} \/ x \notin A
  PROVE  Untold(p, A)
<1>1. q[n] \in Seq(Things)
  BY DEF IsPipe
<1>2. x \notin A /\ None(q[n], A) => None(p[n], A)
  BY <1>1, NoneWithLast
<1>3. (n # 1 => p[1] = q[1]) /\ (n # 2 => p[2] = q[2])
  BY DEF SameBut
<1>4. n = 1 \/ n = 2 => x \notin A
  OBVIOUS
<1> QED
  BY <1>2, <1>3, <1>4 DEF Untold

\* The same of what is on its way while the program goes.
LEMMA RollingOff ==
  ASSUME NEW q, IsPipe(q), NEW n \in 1..4, q[n] # <<>>, NEW p, SameBut({n}, p, q), p[n] = Tail(q[n]),
         Rolling(q)
  PROVE  Rolling(p)
<1>1. NoneIn(p, Variables) /\ NeverIn(p, Asked, Busy)
  <2>1. NoneIn(q, Variables) /\ NeverIn(q, Asked, Busy)
    BY DEF Rolling, Busy
  <2> QED  BY <2>1, NoneOff, TakenOff
<1>2. Untold(p, ToShow)
  BY UntoldOff DEF Rolling
<1> QED
  BY <1>1, <1>2 DEF Rolling, Busy

\* One thing more while the program goes.
LEMMA RollingPut ==
  ASSUME NEW q, IsPipe(q), NEW n \in 1..4, NEW x \in Things, NEW p, SameBut({n}, p, q),
         p[n] = Append(q[n], x), Rolling(q), n \in {3, 4} \/ x \notin ToShow,
         x \notin Variables, x \in Busy => NoneIn(q, Asked), x \in Asked => n = 4
  PROVE  Rolling(p)
<1>1. NoneIn(p, Variables)
  BY PutOn DEF Rolling
<1>2. NeverIn(p, Asked, Busy)
  <2>1. NeverIn(q, Asked, Busy)
    BY DEF Rolling, Busy
  <2>2. x \in Asked => \A k \in 1..4 : k > n => None(q[k], Busy)
    OBVIOUS
  <2> QED  BY <2>1, <2>2, PutOn
<1>3. Untold(p, ToShow)
  BY UntoldPut DEF Rolling
<1> QED
  BY <1>1, <1>2, <1>3 DEF Rolling, Busy

\* The same of the order in which frames are shown.
LEMMA LinedOff ==
  ASSUME NEW q, IsPipe(q), NEW n \in 1..4, q[n] # <<>>, NEW p, SameBut({n}, p, q), p[n] = Tail(q[n]),
         NEW g, Lined(q, g)
  PROVE  Lined(p, g)
  BY TakenOff DEF Lined

\* One command more, the frames shown in their order.
LEMMA LinedPut ==
  ASSUME NEW q, IsPipe(q), NEW x \in Things, NEW p, SameBut({4}, p, q), p[4] = Append(q[4], x),
         NEW g, Lined(q, g), x \in Bad(g) => NoneIn(q, Good(g)), x \in Good(g) => NoneIn(q, BadScopes(g)),
         x \in BadScopes(g) => NoneIn(q, Stacks)
  PROVE  Lined(p, g)
<1>1. \A B : \A k \in 1..4 : k > 4 => None(q[k], B)
  OBVIOUS
<1>2. NeverIn(p, Good(g), Bad(g))
  BY <1>1, PutOn DEF Lined
<1>3. NeverIn(p, BadScopes(g), Good(g))
  BY <1>1, PutOn DEF Lined
<1>4. NeverIn(p, Stacks, BadScopes(g))
  BY <1>1, PutOn DEF Lined
<1> QED
  BY <1>2, <1>3, <1>4 DEF Lined

\* What a thing is of, by its kind.
LEMMA KindTells ==
  ASSUME NEW x \in Things
  PROVE  /\ x \in Stacks <=> x.kind = "stack"
         /\ x \in Scopes <=> x.kind = "scopes"
         /\ x \in Variables <=> x.kind = "variables"
         /\ x \in Shown <=> x.kind \in {"scopes", "variables"}
         /\ x \in ToShow <=> x.kind \in {"stack", "scopes", "variables"}
         /\ x \in Asked <=> x.kind \in {"stack", "scopes"}
         /\ x \in Controls <=> x.kind \in {"continue", "step"}
         /\ x \in Busy <=> x.kind \in {"scopes", "continue", "step"}
         /\ x \in Back <=> x.kind = "continued"
         /\ x \in News <=> x.kind \in {"stopped", "stack"}
         /\ x \in Loud <=> x.kind \in {"continued", "stack", "scopes", "variables", "continue", "step"}
         /\ x \in Marks <=> x.kind \in {"stopped", "continued", "stack", "scopes", "variables", "continue", "step"}
         /\ x \in Readies <=> x.kind = "ready"
         /\ x \in Shakes <=> x.kind \in {"initialize", "launch", "configured"}
         /\ \A g : /\ x \in Good(g) <=> x \in Shown /\ x.arg = g
                   /\ x \in Bad(g) <=> x \in Shown /\ x.arg # g
                   /\ x \in BadScopes(g) <=> x \in Scopes /\ x.arg # g
         /\ \A n : x \in Astray(n) <=> x \in Shown /\ x.arg \notin Nat \X {n}
         /\ \A s : x \in Odd(s) <=> x \in Stacks /\ (x.arg # <<s.stop, 0>> \/ x.depth # s.depth)
  BY DEF Stacks, Scopes, Variables, Shown, ToShow, Asked, Controls, Busy, Back, News, Loud, Marks, Readies,
     Shakes, Good, Bad, BadScopes, Astray, Odd, OfKind

\* A stop the editor hears of: it asks for the stack, and the frame first selected is its first.
LEMMA StoppedFits ==
  ASSUME NEW q, IsPipe(q), q[1] # <<>>, Head(q[1]) \notin Loud, NEW r, SameBut({1}, r, q), r[1] = Tail(q[1]),
         NEW c \in Things, c.kind = "stack", NEW p, SameBut({4}, p, r), p[4] = Append(r[4], c),
         NEW s, NEW v \in Views, ViewFits(q, s, v)
  PROVE  IsPipe(p) /\ ViewFits(p, s, [v EXCEPT !.selected = 0])
<1> DEFINE w == [v EXCEPT !.selected = 0]
<1>1. w.selected = 0 /\ w.marker = v.marker
  BY DEF Views
<1> HIDE DEF w
<1>2. IsPipe(r)
  BY NoneOff
<1>3. IsPipe(p)
  BY <1>2, NonePut
<1>4. /\ c \notin Variables /\ c \notin Busy /\ c \notin Controls /\ c \notin Shown /\ c \notin Scopes
      /\ c \in News
  BY KindTells
<1>5. \A g : c \notin Good(g) /\ c \notin Bad(g) /\ c \notin BadScopes(g)
  BY <1>4, KindTells
<1>6. Moving(p, s) <=> Moving(q, s)
  <2>1. Controls \subseteq Loud
    BY DEF Controls, Loud, OfKind
  <2>2. NoneIn(q, Controls) <=> NoneIn(r, Controls)
    BY <2>1, NoneOff
  <2>3. NoneIn(p, Controls) <=> NoneIn(r, Controls)
    BY <1>2, <1>4, NonePut
  <2> QED  BY <2>2, <2>3 DEF Moving
<1>7. ASSUME Rolling(q) PROVE Rolling(p)
  <2>1. Rolling(r)
    BY <1>7, RollingOff
  <2> QED  BY <1>2, <1>4, <2>1, RollingPut
<1>8. ASSUME ~Moving(q, s)
      PROVE  Untold(p, Odd(s)) /\ Lined(p, <<s.stop, 0>>) /\ LatelyIn(p, News, Back)
  <2>1. Lined(q, <<s.stop, 0>>) /\ Untold(q, Odd(s))
    BY <1>8, Deselected DEF ViewFits
  <2>2. Lined(r, <<s.stop, 0>>)
    BY <2>1, LinedOff
  <2>3. Untold(r, Odd(s))
    BY <2>1, UntoldOff
  <2>4. Lined(p, <<s.stop, 0>>)
    BY <1>2, <1>5, <2>2, LinedPut
  <2>5. Untold(p, Odd(s))
    BY <1>2, <2>3, UntoldPut
  <2>6. LatelyIn(p, News, Back)
    BY <1>2, <1>4, PutOn
  <2> QED  BY <2>4, <2>5, <2>6
<1>9. ViewFits(p, s, w)
  BY <1>1, <1>6, <1>7, <1>8 DEF ViewFits
<1> QED
  BY <1>3, <1>9 DEF w

\* A stack the editor hears of: it is that of the stop, and its first frame is asked for.
LEMMA StackFits ==
  ASSUME NEW q, IsPipe(q), q[1] # <<>>, Head(q[1]).kind = "stack", NEW r, SameBut({1}, r, q), r[1] = Tail(q[1]),
         NEW c \in Things, c.kind = "scopes", c.arg = Head(q[1]).arg, NEW p, SameBut({4}, p, r),
         p[4] = Append(r[4], c), NEW s, s.stop \in Nat, NEW v \in Views, ViewFits(q, s, v),
         NEW w, w = [v EXCEPT !.marker = c.arg[1], !.stop = c.arg[1], !.frames = Head(q[1]).depth,
                              !.selected = IF @ >= Head(q[1]).depth THEN 0 ELSE @]
  PROVE  IsPipe(p) /\ ViewFits(p, s, w)
<1> DEFINE e == Head(q[1])  g == <<s.stop, 0>>
<1>1. IsPipe(r) /\ e \in Things /\ \A A : NoneIn(q, A) <=> NoneIn(r, A) /\ e \notin A
  BY NoneOff
<1>2. IsPipe(p) /\ \A A : NoneIn(p, A) <=> NoneIn(r, A) /\ c \notin A
  BY <1>1, NonePut
<1>3. e \in Stacks /\ e \in ToShow /\ e \in News
  BY <1>1, KindTells
<1>4. ~Untold(q, ToShow) /\ ~NoneIn(q, Stacks)
  <2>1. q[1] \in Seq(Things)
    BY DEF IsPipe
  <2>2. ~None(q[1], ToShow) /\ ~None(q[1], Stacks)
    BY <1>3, <2>1, NoneWithoutFirst
  <2> QED  BY <2>2 DEF Untold, NoneIn
<1>5. v.selected = 0 /\ ~Moving(q, s) /\ Untold(q, Odd(s)) /\ (LatelyIn(q, News, Back) \/ Shows(q, s, v))
  BY <1>4 DEF ViewFits, Rolling
<1>6. e.arg = g /\ e.depth = s.depth
  <2>1. q[1] \in Seq(Things)
    BY DEF IsPipe
  <2>2. e \notin Odd(s)
    BY <1>5, <2>1, NoneWithoutFirst DEF Untold
  <2> QED  BY <1>1, <1>3, <2>2, KindTells
<1>7. w.marker = s.stop /\ w.stop = s.stop /\ w.frames = s.depth /\ w.selected = 0
  <2>1. c.arg[1] = s.stop
    BY <1>6
  <2>2. e = Head(q[1])
    OBVIOUS
  <2> HIDE DEF e
  <2> QED  BY <1>5, <1>6, <2>1, <2>2 DEF Views
<1>8. /\ c \in Scopes /\ c \in Good(g) /\ c \notin Bad(g) /\ c \notin BadScopes(g) /\ c \notin Controls
      /\ c \notin Back
  BY <1>6, KindTells
<1>9. ~Moving(p, s)
  BY <1>1, <1>2, <1>5, <1>8 DEF Moving
<1>10. Untold(p, Odd(s))
  <2>1. Untold(r, Odd(s))
    BY <1>5, UntoldOff
  <2> QED  BY <1>1, <2>1, UntoldPut
<1>11. Lined(q, g)
  BY <1>5, Deselected
<1>12. NoneIn(r, BadScopes(g))
  <2>1. NeverIn(q, Stacks, BadScopes(g))
    BY <1>11 DEF Lined
  <2> QED  BY <1>3, <2>1, TakenOff
<1>13. Lined(p, g)
  <2>1. Lined(r, g)
    BY <1>11, LinedOff
  <2> QED  BY <1>1, <1>8, <1>12, <2>1, LinedPut
<1>14. ASSUME ~LatelyIn(p, News, Back) PROVE NoneIn(r, Back)
  <2>0. LatelyIn(r, News, Back) => LatelyIn(p, News, Back)
    <3>1. IsPipe(r) /\ c \notin Back
      BY <1>1, <1>8
    <3> QED  BY <3>1, PutOn
  <2>1. ~LatelyIn(r, News, Back)
    BY <1>14, <2>0
  <2>2. CASE LatelyIn(q, News, Back)
    BY <2>1, <2>2, TakenOff
  <2>3. CASE Shows(q, s, v)
    BY <1>1, <2>3 DEF Shows
  <2> QED  BY <1>5, <2>2, <2>3
<1>15. LatelyIn(p, News, Back) \/ Shows(p, s, w)
  <2>1. ~NoneIn(p, Good(g)) /\ NoneIn(p, BadScopes(g))
    BY <1>2, <1>8, <1>12
  <2>2. NoneIn(r, Back) => NoneIn(p, Back)
    BY <1>2, <1>8
  <2> QED  BY <1>7, <1>14, <2>1, <2>2 DEF Shows
<1> QED
  BY <1>2, <1>7, <1>9, <1>10, <1>13, <1>15 DEF ViewFits

\* Scopes the editor hears of: it asks for their variables.
LEMMA ScopesFits ==
  ASSUME NEW q, IsPipe(q), q[1] # <<>>, Head(q[1]).kind = "scopes", NEW r, SameBut({1}, r, q), r[1] = Tail(q[1]),
         NEW c \in Things, c.kind = "variables", c.arg = Head(q[1]).arg, NEW p, SameBut({4}, p, r),
         p[4] = Append(r[4], c), NEW s, NEW v, ViewFits(q, s, v)
  PROVE  IsPipe(p) /\ ViewFits(p, s, v)
<1> DEFINE e == Head(q[1])  g == <<s.stop, v.selected>>
<1>1. IsPipe(r) /\ e \in Things /\ \A A : NoneIn(q, A) <=> NoneIn(r, A) /\ e \notin A
  BY NoneOff
<1>2. IsPipe(p) /\ \A A : NoneIn(p, A) <=> NoneIn(r, A) /\ c \notin A
  BY <1>1, NonePut
<1>3. e \in Scopes /\ e \in ToShow /\ e \in Shown /\ e \notin News /\ e \notin Stacks
  BY <1>1, KindTells
<1>4. ~Untold(q, ToShow)
  <2>1. q[1] \in Seq(Things)
    BY DEF IsPipe
  <2>2. ~None(q[1], ToShow)
    BY <1>3, <2>1, NoneWithoutFirst
  <2> QED  BY <2>2 DEF Untold
<1>5. ~Moving(q, s) /\ Untold(q, Odd(s)) /\ Lined(q, g) /\ (LatelyIn(q, News, Back) \/ Shows(q, s, v))
  BY <1>4 DEF ViewFits, Rolling
<1>6. /\ c \in Variables /\ c \in Shown /\ c \notin Scopes /\ c \notin Stacks /\ c \notin Controls
      /\ c \notin Back /\ c \notin BadScopes(g) /\ c \notin News
      /\ c \in Good(g) <=> c.arg = g
      /\ c \in Bad(g) <=> c.arg # g
      /\ c \in Astray(v.selected) <=> c.arg \notin Nat \X {v.selected}
  BY KindTells
<1>7. /\ e \in Good(g) <=> c.arg = g
      /\ e \in BadScopes(g) <=> c.arg # g
      /\ e \in Astray(v.selected) <=> c.arg \notin Nat \X {v.selected}
  BY <1>1, <1>3, KindTells
<1> HIDE DEF e, g
<1>8. v.selected # 0 => NoneIn(p, Stacks) /\ NoneIn(p, Astray(v.selected))
  BY <1>1, <1>2, <1>6, <1>7 DEF ViewFits
<1>9. ~Moving(p, s)
  BY <1>1, <1>2, <1>5, <1>6 DEF Moving
<1>10. Untold(p, Odd(s))
  <2>1. Untold(r, Odd(s))
    BY <1>5, UntoldOff
  <2> QED  BY <1>1, <2>1, UntoldPut
<1>11. (c.arg = g => NoneIn(r, Bad(g))) /\ (c.arg # g => NoneIn(r, Good(g)))
  <2>1. NeverIn(q, Good(g), Bad(g)) /\ NeverIn(q, BadScopes(g), Good(g))
    BY <1>5 DEF Lined
  <2>2. c.arg = g => NoneIn(r, Bad(g))
    BY <1>7, <2>1, TakenOff DEF e
  <2>3. c.arg # g => NoneIn(r, Good(g))
    BY <1>7, <2>1, TakenOff DEF e
  <2> QED  BY <2>2, <2>3
<1>12. Lined(p, g)
  <2>1. Lined(r, g)
    BY <1>5, LinedOff
  <2>2. BadScopes(g) \subseteq Bad(g)
    BY DEF BadScopes, Bad, Scopes, Shown, OfKind
  <2>3. c.arg = g => NoneIn(r, BadScopes(g))
    BY <1>11, <2>2, NoneOfMore
  <2> QED  BY <1>1, <1>6, <1>11, <2>1, <2>3, LinedPut
<1>13. LatelyIn(q, News, Back) => LatelyIn(p, News, Back)
  <2>1. LatelyIn(q, News, Back) => LatelyIn(r, News, Back)
    BY <1>3, TakenOff DEF e
  <2> QED  BY <1>1, <1>6, <2>1, PutOn
<1>14. Shows(q, s, v) => Shows(p, s, v)
  <2> SUFFICES ASSUME Shows(q, s, v) PROVE Shows(p, s, v)
    OBVIOUS
  <2>1. /\ v.marker = s.stop /\ v.stop = s.stop /\ v.frames = s.depth
        /\ NoneIn(q, Back) /\ NoneIn(q, BadScopes(g))
    BY DEF Shows, g
  <2>2. c \in Good(g)
    BY <1>1, <1>6, <1>7, <2>1
  <2>3. NoneIn(p, Back) /\ NoneIn(p, BadScopes(g)) /\ ~NoneIn(p, Good(g))
    BY <1>1, <1>2, <1>6, <2>1, <2>2
  <2> QED  BY <2>1, <2>3 DEF Shows, g
<1> QED
  BY <1>2, <1>5, <1>8, <1>9, <1>10, <1>12, <1>13, <1>14 DEF ViewFits, g

\* Variables the editor hears of.
LEMMA VariablesFit ==
  ASSUME NEW q, IsPipe(q), q[1] # <<>>, Head(q[1]).kind = "variables", NEW p, SameBut({1}, p, q),
         p[1] = Tail(q[1]), NEW s, NEW v \in Views, ViewFits(q, s, v),
         NEW w, w = [v EXCEPT !.vars = Head(q[1]).arg]
  PROVE  IsPipe(p) /\ ViewFits(p, s, w)
<1> DEFINE e == Head(q[1])  g == <<s.stop, v.selected>>
<1>1. IsPipe(p) /\ e \in Things /\ \A A : NoneIn(q, A) <=> NoneIn(p, A) /\ e \notin A
  BY NoneOff
<1>2. /\ w.selected = v.selected /\ w.marker = v.marker /\ w.stop = v.stop /\ w.frames = v.frames
      /\ w.vars = e.arg
  BY DEF Views
<1>3. /\ e \in Variables /\ e \in ToShow /\ e \in Shown /\ e \notin News
      /\ e \in Good(g) <=> e.arg = g
  BY <1>1, KindTells
<1>4. ~Untold(q, ToShow)
  <2>1. q[1] \in Seq(Things)
    BY DEF IsPipe
  <2>2. ~None(q[1], ToShow)
    BY <1>3, <2>1, NoneWithoutFirst
  <2> QED  BY <2>2 DEF Untold
<1>5. ~Moving(q, s) /\ Untold(q, Odd(s)) /\ Lined(q, g) /\ (LatelyIn(q, News, Back) \/ Shows(q, s, v))
  BY <1>4 DEF ViewFits, Rolling
<1> HIDE DEF e, g
<1>6. v.selected # 0 => NoneIn(p, Stacks) /\ NoneIn(p, Astray(v.selected))
  BY <1>1 DEF ViewFits
<1>7. Lined(p, g) /\ Untold(p, Odd(s))
  BY <1>5, LinedOff, UntoldOff
<1>9. ~Moving(p, s)
  BY <1>1, <1>5 DEF Moving
<1>10. LatelyIn(q, News, Back) => LatelyIn(p, News, Back)
  BY <1>3, TakenOff DEF e
<1>11. Shows(q, s, v) => Shows(p, s, w)
  <2> SUFFICES ASSUME Shows(q, s, v), NoneIn(p, Good(g)) PROVE NoneIn(p, Shown) /\ w.vars = g
    BY <1>1, <1>2 DEF Shows, g
  <2>1. NoneIn(q, Good(g)) => NoneIn(q, Shown)
    BY DEF Shows, g
  <2>2. e \in Good(g)
    BY <1>1, <1>3, <2>1
  <2>3. NoneIn(p, Bad(g))
    <3>1. NeverIn(q, Good(g), Bad(g))
      BY <1>5 DEF Lined
    <3> QED  BY <2>2, <3>1, TakenOff DEF e
  <2>4. Shown \subseteq Good(g) \cup Bad(g)
    BY DEF Good, Bad
  <2>5. NoneIn(p, Shown)
    BY <2>3, <2>4, NoneOfBoth
  <2> QED  BY <1>2, <1>3, <2>2, <2>5
<1> QED
  BY <1>1, <1>2, <1>5, <1>6, <1>7, <1>9, <1>10, <1>11 DEF ViewFits, g

\* The program goes on, so the editor hears.
LEMMA ContinuedFits ==
  ASSUME NEW q, IsPipe(q), q[1] # <<>>, Head(q[1]).kind = "continued", NEW p, SameBut({1}, p, q),
         p[1] = Tail(q[1]), NEW s, NEW v, ViewFits(q, s, v)
  PROVE  IsPipe(p) /\ ViewFits(p, s, Cleared)
<1> DEFINE e == Head(q[1])
<1>1. IsPipe(p) /\ e \in Things /\ \A A : NoneIn(q, A) <=> NoneIn(p, A) /\ e \notin A
  BY NoneOff
<1>2. e \in Back /\ e \notin News /\ e \notin Controls
  BY <1>1, KindTells
<1>3. Cleared.selected = 0 /\ Cleared.marker = 0
  BY DEF Cleared
<1>4. Moving(p, s) <=> Moving(q, s)
  BY <1>1, <1>2 DEF Moving
<1>5. Rolling(q) => Rolling(p)
  BY RollingOff
<1>6. ASSUME ~Moving(q, s)
      PROVE  Untold(p, Odd(s)) /\ Lined(p, <<s.stop, 0>>) /\ LatelyIn(p, News, Back)
  <2>1. ~Shows(q, s, v)
    BY <1>1, <1>2 DEF Shows
  <2>2. Untold(q, Odd(s)) /\ Lined(q, <<s.stop, 0>>) /\ LatelyIn(q, News, Back)
    BY <1>6, <2>1, Deselected DEF ViewFits
  <2>3. LatelyIn(p, News, Back)
    BY <1>2, <2>2, TakenOff
  <2> QED  BY <2>2, <2>3, UntoldOff, LinedOff
<1> QED
  BY <1>1, <1>3, <1>4, <1>5, <1>6 DEF ViewFits

\* Nothing on its way, and the user has the program go on.
LEMMA ControlFits ==
  ASSUME NEW q, IsPipe(q), \A A : NoneIn(q, A), NEW c \in Things, c.kind \in {"continue", "step"}, NEW p,
         SameBut({4}, p, q), p[4] = Append(q[4], c), NEW s, NEW v, v.marker = 0
  PROVE  ViewFits(p, s, v)
<1>1. IsPipe(p) /\ \A A : NoneIn(p, A) <=> c \notin A
  BY NonePut
<1>2. /\ c \in Controls /\ c \notin Variables /\ c \notin ToShow /\ c \notin Stacks /\ c \notin Asked
      /\ \A n : c \notin Astray(n)
  BY KindTells
<1>3. Moving(p, s)
  BY <1>1, <1>2 DEF Moving
<1>4. Rolling(p)
  BY <1>1, <1>2, NeverOfNone DEF Rolling, Untold, NoneIn
<1> QED
  BY <1>1, <1>2, <1>3, <1>4 DEF ViewFits

\* Nothing on its way, and the user selects a frame: its scopes are asked for.
LEMMA SelectFits ==
  ASSUME NEW q, IsPipe(q), \A A : NoneIn(q, A), NEW c \in Things, c.kind = "scopes", NEW p,
         SameBut({4}, p, q), p[4] = Append(q[4], c), NEW s, NEW v \in Views, ViewFits(q, s, v),
         NEW index \in Nat, c.arg = <<v.stop, index>>, NEW w, w = [v EXCEPT !.selected = index]
  PROVE  ViewFits(p, s, w)
<1> DEFINE g == <<s.stop, index>>
<1>1. IsPipe(p) /\ \A A : NoneIn(p, A) <=> c \notin A
  BY NonePut
<1>2. /\ w.selected = index /\ w.marker = v.marker /\ w.stop = v.stop /\ w.frames = v.frames
      /\ w.vars = v.vars /\ v.stop \in Nat
  BY DEF Views
<1>3. /\ c \in Scopes /\ c \in Shown /\ c \notin Variables /\ c \notin Stacks /\ c \notin Controls
      /\ c \notin Back
      /\ c \notin Astray(index)
  <2>1. c.arg \in Nat \X {index}
    BY <1>2
  <2> QED  BY <2>1, KindTells
<1>4. Moving(p, s) <=> Moving(q, s)
  BY <1>1, <1>3 DEF Moving
<1>5. w.selected # 0 => NoneIn(p, Stacks) /\ NoneIn(p, Astray(w.selected))
  BY <1>1, <1>2, <1>3
<1>6. ASSUME Moving(q, s) PROVE w.marker = 0 /\ Rolling(p)
  <2>1. v.marker = 0 /\ Rolling(q)
    BY <1>6 DEF ViewFits
  <2>2. Rolling(p)
    BY <1>3, <2>1, RollingPut
  <2> QED  BY <1>2, <2>1, <2>2
<1>7. ASSUME ~Moving(q, s)
      PROVE  Untold(p, Odd(s)) /\ Lined(p, <<s.stop, index>>) /\ Shows(p, s, w)
  <2>1. Untold(q, Odd(s)) /\ ~LatelyIn(q, News, Back)
    <3>1. ~LatelyIn(q, News, Back)
      BY DEF LatelyIn, Lately, NoneIn, None
    <3> QED  BY <1>7, <3>1 DEF ViewFits
  <2>2. v.marker = s.stop /\ v.stop = s.stop /\ v.frames = s.depth
    BY <1>7, <2>1 DEF ViewFits, Shows
  <2>3. c \in Good(g) /\ c \notin Bad(g) /\ c \notin BadScopes(g)
    BY <1>3, <2>2, KindTells
  <2>4. Untold(p, Odd(s))
    BY <2>1, UntoldPut
  <2>5. Lined(p, g)
    <3>1. NeverIn(p, Good(g), Bad(g)) /\ NeverIn(p, BadScopes(g), Good(g)) /\ NeverIn(p, Stacks, BadScopes(g))
      BY <1>1, <2>3, NeverOfNone
    <3> QED  BY <3>1 DEF Lined
  <2>6. ~NoneIn(p, Good(g)) /\ NoneIn(p, BadScopes(g)) /\ NoneIn(p, Back)
    BY <1>1, <1>3, <2>3
  <2> QED  BY <1>2, <2>2, <2>4, <2>5, <2>6 DEF Shows
<1> QED
  BY <1>2, <1>4, <1>5, <1>6, <1>7 DEF ViewFits

\* A request the adapter answers while its program is stopped: the answer in its place.
LEMMA AnswerFits ==
  ASSUME NEW q, IsPipe(q), q[3] # <<>>, NEW y \in Things, y.kind \in {"stack", "scopes", "variables"},
         Head(q[3]).kind = y.kind, NEW p, SameBut({2, 3}, p, q), p[2] = Append(q[2], y), p[3] = Tail(q[3]),
         None(q[1], Controls), None(q[2], Controls),
         NEW s, y.kind = "stack" => y.arg = <<s.stop, 0>> /\ y.depth = s.depth,
         y.kind # "stack" => y.arg = Head(q[3]).arg, s.adapter = "stopped", NEW v, ViewFits(q, s, v)
  PROVE  IsPipe(p) /\ ViewFits(p, s, v)
<1> DEFINE x == Head(q[3])  g == <<s.stop, v.selected>>
<1>1. q[2] \in Seq(Things) /\ q[3] \in Seq(Things) /\ x \in Things
      /\ p[1] = q[1] /\ p[4] = q[4]
  BY DEF IsPipe, SameBut
<1>2. x = Head(q[3]) /\ x.kind = y.kind /\ (y.kind # "stack" => y.arg = x.arg)
  OBVIOUS
<1> HIDE DEF x
<1>3. ASSUME NEW A, NEW B, x \in A <=> y \in A, x \in B <=> y \in B
      PROVE  /\ NoneIn(q, A) <=> NoneIn(p, A)
             /\ NeverIn(q, A, B) => NeverIn(p, A, B)
             /\ LatelyIn(q, A, B) => LatelyIn(p, A, B)
             /\ IsPipe(p)
  <2>1. 2 \in 1..3 /\ 3 \in 1..4 /\ 3 = 2 + 1
    OBVIOUS
  <2>2. NeverIn(q, A, B) => NeverIn(p, A, B)
    BY <1>1, <1>2, <1>3, <2>1, PassedOn
  <2>3. LatelyIn(q, A, B) => LatelyIn(p, A, B)
    BY <1>1, <1>2, <1>3, <2>1, PassedOn
  <2>5. IsPipe(p)
    <3>1. p[2] \in Seq(Things) /\ p[3] \in Seq(Things)
      BY <1>1
    <3> QED  BY <3>1 DEF IsPipe, SameBut
  <2>4. NoneIn(q, A) <=> NoneIn(p, A)
    <3>1. (x \in A => y \in A) /\ (y \in A => Head(q[3]) \in A) /\ (y \in B => Head(q[3]) \in B)
      BY <1>2, <1>3
    <3>2. NeverIn(q, A, B) => NeverIn(p, A, B)
      BY <2>2
    <3> QED  BY <1>1, <1>2, <2>1, <3>1, <3>2, PassedOn
  <2> QED  BY <2>2, <2>3, <2>4, <2>5
<1>4. /\ x \in Stacks <=> y \in Stacks
      /\ x \in Variables <=> y \in Variables
      /\ x \in Controls <=> y \in Controls
      /\ x \in Shown <=> y \in Shown
      /\ x \in Scopes <=> y \in Scopes
      /\ x \in News <=> y \in News
      /\ x \in Back <=> y \in Back
      /\ \A h : /\ x \in Good(h) <=> y \in Good(h)
                /\ x \in Bad(h) <=> y \in Bad(h)
                /\ x \in BadScopes(h) <=> y \in BadScopes(h)
      /\ \A n : x \in Astray(n) <=> y \in Astray(n)
  BY <1>1, <1>2, KindTells
<1>5. y \notin Odd(s) /\ y \notin Controls /\ (x \in Asked \/ x \in Variables) /\ x \notin Controls
  BY <1>1, <1>2, KindTells
<1>6. ~Moving(q, s)
  <2> SUFFICES ASSUME Moving(q, s) PROVE FALSE
    OBVIOUS
  <2>1. NoneIn(q, Variables) /\ NeverIn(q, Asked, Busy)
    BY DEF ViewFits, Rolling, Busy
  <2>2. ~NoneIn(q, Controls)
    BY DEF Moving
  <2>3. x \in Asked
    <3>1. None(q[3], Variables)
      BY <2>1 DEF NoneIn
    <3> QED  BY <1>1, <1>2, <1>5, <3>1, NoneWithoutFirst
  <2>4. Controls \subseteq Busy
    BY DEF Controls, Busy, OfKind
  <2>5. None(q[3], Controls)
    <3>1. Never(q[3], Asked, Busy)
      BY <2>1 DEF NeverIn
    <3>2. None(Tail(q[3]), Busy)
      BY <1>1, <1>2, <2>3, <3>1, WithoutFirst
    <3>3. None(Tail(q[3]), Controls)
      BY <2>4, <3>2 DEF None
    <3> QED  BY <1>1, <1>2, <1>5, <3>3, NoneWithoutFirst
  <2>6. None(q[4], Controls)
    <3>1. None(q[3], Asked) \/ None(q[4], Busy)
      BY <2>1 DEF NeverIn
    <3>2. ~None(q[3], Asked)
      BY <1>1, <1>2, <2>3, NoneWithoutFirst
    <3> QED  BY <2>4, <3>1, <3>2 DEF None
  <2> QED  BY <2>2, <2>5, <2>6 DEF NoneIn
<1>7. ~Moving(p, s)
  BY <1>3, <1>4, <1>6 DEF Moving
<1>8. Untold(p, Odd(s))
  <2>1. Untold(q, Odd(s))
    BY <1>6 DEF ViewFits
  <2> QED  BY <1>1, <1>5, <2>1, NoneWithLast DEF Untold
<1>9. v.selected # 0 => NoneIn(p, Stacks) /\ NoneIn(p, Astray(v.selected))
  BY <1>3, <1>4 DEF ViewFits
<1>10. Lined(p, g)
  BY <1>3, <1>4, <1>6 DEF Lined, ViewFits
<1>11. LatelyIn(q, News, Back) => LatelyIn(p, News, Back)
  BY <1>3, <1>4
<1>12. Shows(q, s, v) => Shows(p, s, v)
  BY <1>3, <1>4 DEF Shows
<1>13. IsPipe(p)
  BY <1>3, <1>4
<1> QED
  BY <1>6, <1>7, <1>8, <1>9, <1>10, <1>11, <1>12, <1>13 DEF ViewFits

\* An answer of no account while the program goes, or that sets it going again.
LEMMA GoingFits ==
  ASSUME NEW q, IsPipe(q), q[3] # <<>>, NEW r, SameBut({3}, r, q), r[3] = Tail(q[3]),
         NEW p, IF p = r THEN TRUE
                ELSE \E y \in Things : y \notin ToShow /\ y \notin Busy /\ SameBut({2}, p, r) /\ p[2] = Append(r[2], y),
         NEW s, NEW t, Moving(q, s), t.adapter # "stopped", NEW v, ViewFits(q, s, v)
  PROVE  IsPipe(p) /\ ViewFits(p, t, v)
<1>1. v.marker = 0 /\ Rolling(q)
  BY DEF ViewFits
<1>2. IsPipe(r) /\ Rolling(r) /\ \A A : NoneIn(q, A) => NoneIn(r, A)
  BY <1>1, NoneOff, RollingOff
<1>3. CASE p = r
  BY <1>1, <1>2, <1>3 DEF ViewFits, Moving
<1>4. CASE p # r
  <2>1. PICK y \in Things : y \notin ToShow /\ y \notin Busy /\ SameBut({2}, p, r) /\ p[2] = Append(r[2], y)
    BY <1>4
  <2>2. y \notin Variables /\ y \notin Asked /\ y \notin Stacks /\ \A n : y \notin Astray(n)
    BY <2>1, KindTells
  <2>3. IsPipe(p) /\ Rolling(p)
    BY <1>2, <2>1, <2>2, NonePut, RollingPut
  <2>4. \A A : NoneIn(r, A) /\ y \notin A => NoneIn(p, A)
    BY <1>2, <2>1, NonePut
  <2>5. v.selected # 0 => NoneIn(p, Stacks) /\ NoneIn(p, Astray(v.selected))
    BY <1>2, <2>2, <2>4 DEF ViewFits
  <2> QED  BY <1>1, <2>3, <2>5 DEF ViewFits, Moving
<1> QED
  BY <1>3, <1>4

\* The program stops: nothing is shown yet of the new stop, and the editor will hear of it.
LEMMA StopsFits ==
  ASSUME NEW q, IsPipe(q), None(q[3], Back), None(q[4], Back), NEW x \in Things, x.kind = "stopped", NEW p,
         SameBut({2}, p, q), p[2] = Append(q[2], x), NEW s, s.adapter # "stopped",
         NEW t, t.adapter = "stopped", NEW v, ViewFits(q, s, v)
  PROVE  IsPipe(p) /\ ViewFits(p, t, v)
<1> DEFINE g == <<t.stop, v.selected>>
<1>1. v.marker = 0 /\ Rolling(q)
  BY DEF ViewFits, Moving
<1>2. IsPipe(p) /\ \A A : NoneIn(p, A) <=> NoneIn(q, A) /\ x \notin A
  BY NonePut
<1>3. /\ x \notin ToShow /\ x \notin Variables /\ x \notin Busy /\ x \notin Asked /\ x \notin Stacks
      /\ x \notin Controls /\ x \in News /\ \A n : x \notin Astray(n)
  BY KindTells
<1>4. Rolling(p)
  BY <1>1, <1>3, RollingPut
<1>5. v.selected # 0 => NoneIn(p, Stacks) /\ NoneIn(p, Astray(v.selected))
  BY <1>2, <1>3 DEF ViewFits
<1>6. Untold(p, Odd(t))
  <2>1. Odd(t) \subseteq ToShow
    BY DEF Odd, Stacks, ToShow, OfKind
  <2>2. Untold(p, ToShow)
    BY <1>4 DEF Rolling
  <2> QED  BY <2>1, <2>2 DEF Untold, None
<1>7. Lined(p, g)
  <2>1. NeverIn(p, Asked, Busy) /\ NoneIn(p, Variables)
    BY <1>4 DEF Rolling, Busy
  <2>2. /\ Good(g) \subseteq Asked \cup Variables /\ Bad(g) \subseteq Busy \cup Variables
        /\ Good(g) \subseteq Busy \cup Variables /\ BadScopes(g) \subseteq Asked \cup Variables
        /\ BadScopes(g) \subseteq Busy \cup Variables /\ Stacks \subseteq Asked \cup Variables
    BY DEF Good, Bad, BadScopes, Stacks, Asked, Busy, Variables, Scopes, Shown, OfKind
  <2>3. NeverIn(p, Good(g), Bad(g)) /\ NeverIn(p, BadScopes(g), Good(g)) /\ NeverIn(p, Stacks, BadScopes(g))
    BY <2>1, <2>2, NeverOfMore
  <2> QED  BY <2>3 DEF Lined
<1>8. LatelyIn(p, News, Back)
  <2>1. \A k \in 1..4 : k > 2 => None(q[k], Back)
    <3>1. \A k \in 1..4 : k > 2 => k = 3 \/ k = 4
      OBVIOUS
    <3> QED  BY <3>1
  <2> QED  BY <1>3, <2>1, PutOn
<1> QED
  BY <1>1, <1>2, <1>4, <1>5, <1>6, <1>7, <1>8 DEF ViewFits

\* Nothing of a stop is asked of a session, and nothing of it reaches the editor.
Silent(q, s) == Untold(q, Loud) /\ (DapRunning(s) => NoneIn(q, Loud))

\* The handshake goes one request at a time; a program stopped has a stop.
InOrder(s) ==
  /\ s.adapter = "stopped" => s.stop # 0
  /\ None(s.commands, Shakes)
  /\ Up(s) => /\ Never(s.requests, Shakes, Shakes)
              /\ ~None(s.requests, OfKind({"initialize", "launch"})) => s.adapter = "new"
              /\ ~None(s.requests, OfKind({"configured"})) => s.adapter = "launched"
              /\ s.adapter = "new" => ~s.configured
              /\ s.adapter = "launched" /\ ~s.configured => None(s.requests, Shakes)

\* The session launched last, which the view is about; those before it are left alone.
Watched(q, s, v) ==
  /\ s.handle = "bg" => ~None(q[1], Readies)
  /\ s.handle \in {"task", "bg"} => Silent(q, s)
  /\ s.handle # "nobody" /\ Up(s) /\ s.bridge => ViewFits(q, s, v)
LeftAlone(q, s) == s.handle = "nobody" /\ Silent(q, s)

ViewInv ==
  /\ \A i \in 1..Len(sessions) : InOrder(sessions[i])
  /\ ~dropped /\ ~early =>
       /\ dapClient = 0 => view.marker = 0
       /\ \A i \in 1..Len(sessions) :
            i < Len(sessions) => LeftAlone(LanesOf(dapBg, sessions[i], i), sessions[i])
       /\ Len(sessions) # 0 => Watched(LanesOf(dapBg, sessions[Len(sessions)], Len(sessions)),
                                       sessions[Len(sessions)], view)

\* A session that goes on, the view as it is.
Follows(b, i, s, t, v) ==
  LET q == LanesOf(b, s, i)
      p == LanesOf(b, t, i)
  IN  /\ t.handle = s.handle
      /\ InOrder(t)
      /\ Silent(q, s) => Silent(p, t)
      /\ Up(t) /\ t.bridge => Up(s) /\ s.bridge /\ (ViewFits(q, s, v) => ViewFits(p, t, v))

\* The queues of a session are queues of things.
LEMMA LanesArePipe ==
  ASSUME NEW b \in Seq(DapReports), NEW s \in Sessions, NEW i
  PROVE  /\ IsPipe(LanesOf(b, s, i))
         /\ s.events \in Seq(Things) /\ s.requests \in Seq(Things) /\ s.commands \in Seq(Things)
         /\ OwnOf(b, i) \in Seq(Things)
         /\ None(OwnOf(b, i), Controls) /\ None(s.events, Controls) /\ None(s.events, Shakes)
         /\ None(s.requests, Back) /\ None(s.commands, Back)
<1>1. /\ s.events \in Seq(DapEvents) /\ s.requests \in Seq(DapCommands) /\ s.commands \in Seq(DapCommands)
  BY DEF Sessions
<1>2. s.events \in Seq(Things) /\ s.requests \in Seq(Things) /\ s.commands \in Seq(Things)
  BY <1>1 DEF Things
<1>3. ASSUME NEW k \in 1..Len(b)
      PROVE  (IF b[k].session = i THEN b[k].event ELSE DapNote) \in Things \ Controls
  <2>1. b[k] \in DapReports
    OBVIOUS
  <2>2. b[k].event \in DapEvents \cup {DapReady}
    BY <2>1 DEF DapReports
  <2>3. b[k].event \in Things /\ b[k].event \notin Controls
    <3>1. DapReady.kind = "ready"
      BY DEF DapReady
    <3>2. DapReady \in Things /\ DapReady \notin Controls
      BY <3>1, KindsApart, KindTells
    <3> QED  BY <2>2, <3>2, KindsApart
  <2>4. DapNote \in Things /\ DapNote \notin Controls
    BY KindsApart, NoteIsEvent
  <2> QED  BY <2>3, <2>4
<1>4. OwnOf(b, i) \in Seq(Things)
  BY <1>3 DEF OwnOf
<1>5. None(OwnOf(b, i), Controls)
  <2>1. Len(OwnOf(b, i)) = Len(b)
    BY <1>3 DEF OwnOf
  <2> QED  BY <1>3, <2>1 DEF None, OwnOf
<1>6. IsPipe(LanesOf(b, s, i))
  BY <1>2, <1>4 DEF IsPipe, LanesOf
<1>7. None(s.events, Controls) /\ None(s.events, Shakes)
  <2>1. \A k \in 1..Len(s.events) : s.events[k] \in DapEvents
    BY <1>1
  <2> QED  BY <2>1, KindsApart DEF None
<1>8. None(s.requests, Back) /\ None(s.commands, Back)
  <2>1. /\ \A k \in 1..Len(s.requests) : s.requests[k] \in DapCommands
        /\ \A k \in 1..Len(s.commands) : s.commands[k] \in DapCommands
    BY <1>1
  <2> QED  BY <2>1, KindsApart DEF None
<1> QED
  BY <1>2, <1>4, <1>5, <1>6, <1>7, <1>8

\* The four lanes, one changed or two.
LEMMA LaneAt ==
  ASSUME NEW a, NEW b, NEW c, NEW d
  PROVE  /\ <<a, b, c, d>>[1] = a /\ <<a, b, c, d>>[2] = b
         /\ <<a, b, c, d>>[3] = c /\ <<a, b, c, d>>[4] = d
         /\ \A x : /\ SameBut({1}, <<x, b, c, d>>, <<a, b, c, d>>)
                   /\ SameBut({2}, <<a, x, c, d>>, <<a, b, c, d>>)
                   /\ SameBut({3}, <<a, b, x, d>>, <<a, b, c, d>>)
                   /\ SameBut({4}, <<a, b, c, x>>, <<a, b, c, d>>)
         /\ \A x, y : /\ SameBut({1, 2}, <<x, y, c, d>>, <<a, b, c, d>>)
                      /\ SameBut({2, 3}, <<a, x, y, d>>, <<a, b, c, d>>)
                      /\ SameBut({3, 4}, <<a, b, x, y>>, <<a, b, c, d>>)
  BY DEF SameBut

\* What is silent stays silent.
LEMMA SilentStays ==
  ASSUME NEW q, NEW p, NEW s, NEW t, Silent(q, s), DapRunning(t) => DapRunning(s),
         Untold(q, Loud) => Untold(p, Loud), NoneIn(q, Loud) => NoneIn(p, Loud)
  PROVE  Silent(p, t)
  BY DEF Silent

\* One session follows: the invariant stays.
LEMMA OneFollows ==
  ASSUME ViewInv, DapInv, UNCHANGED dapEditor, NEW i \in DOMAIN sessions, NEW t,
         sessions' = [sessions EXCEPT ![i] = t], Follows(dapBg, i, sessions[i], t, view)
  PROVE  ViewInv'
<1>1. sessions \in Seq(Sessions) /\ i \in 1..Len(sessions) /\ Len(sessions) \in Nat
      /\ UNCHANGED <<dapClient, view, dapBg, dropped, early>>
  BY DEF DapInv, SessionsTold, dapEditor
<1>2. /\ Len(sessions') = Len(sessions) /\ sessions'[i] = t
      /\ \A j \in 1..Len(sessions) : j # i => sessions'[j] = sessions[j]
  BY <1>1
<1> DEFINE n == Len(sessions)  s == sessions[i]  q == LanesOf(dapBg, s, i)  p == LanesOf(dapBg, t, i)
<1>3. \A j \in 1..n : InOrder(sessions'[j])
  <2>1. InOrder(t)
    BY DEF Follows
  <2> QED  BY <1>2, <2>1 DEF ViewInv
<1>4. q[1] = p[1]
  BY LaneAt DEF LanesOf
<1>5. /\ t.handle = s.handle
      /\ Silent(q, s) => Silent(p, t)
      /\ Up(t) /\ t.bridge => Up(s) /\ s.bridge /\ (ViewFits(q, s, view) => ViewFits(p, t, view))
  BY DEF Follows
<1>6. ASSUME ~dropped, ~early
      PROVE  /\ dapClient = 0 => view.marker = 0
             /\ \A j \in 1..n : j < n => LeftAlone(LanesOf(dapBg, sessions'[j], j), sessions'[j])
             /\ n # 0 => Watched(LanesOf(dapBg, sessions'[n], n), sessions'[n], view)
  <2>1. /\ dapClient = 0 => view.marker = 0
        /\ \A j \in 1..n : j < n => LeftAlone(LanesOf(dapBg, sessions[j], j), sessions[j])
        /\ n # 0 => Watched(LanesOf(dapBg, sessions[n], n), sessions[n], view)
    BY <1>6 DEF ViewInv
  <2>2. LeftAlone(q, s) => LeftAlone(p, t)
    BY <1>5 DEF LeftAlone
  <2>3. Watched(q, s, view) => Watched(p, t, view)
    BY <1>4, <1>5 DEF Watched
  <2>4. CASE i = n
    BY <1>1, <1>2, <2>1, <2>3, <2>4
  <2>5. CASE i # n
    BY <1>1, <1>2, <2>1, <2>2, <2>5
  <2> QED  BY <2>4, <2>5
<1> QED
  BY <1>1, <1>2, <1>3, <1>6 DEF ViewInv

\* A session the driver ended.
LEMMA StoppedFollows ==
  ASSUME NEW b, NEW i, NEW s \in Sessions, NEW u, NEW v,
         u \in Sessions, u.handle = s.handle, u.events = s.events, InOrder(u)
  PROVE  Follows(b, i, s, DapStopped(u), v)
<1> DEFINE t == DapStopped(u)
<1>1. /\ t.handle = u.handle /\ t.events = u.events /\ t.commands = u.commands /\ t.driver = "ended"
      /\ t.adapter # "stopped"
  <2>1. u.adapter # "terminated" => t.adapter = "gone"
    BY DEF DapStopped, Sessions
  <2>2. u.adapter = "terminated" => t.adapter = "terminated"
    BY DEF DapStopped, Sessions
  <2> QED  BY <2>1, <2>2 DEF DapStopped, Sessions
<1> HIDE DEF t
<1>2. ~DapRunning(t) /\ ~Up(t)
  BY <1>1 DEF Up, DapRunning
<1>3. InOrder(t)
  BY <1>1, <1>2 DEF InOrder
<1>4. \A A : Untold(LanesOf(b, s, i), A) => Untold(LanesOf(b, t, i), A)
  BY <1>1, LaneAt DEF LanesOf, Untold
<1>5. Silent(LanesOf(b, s, i), s) => Silent(LanesOf(b, t, i), t)
  BY <1>2, <1>4 DEF Silent
<1> QED
  BY <1>1, <1>2, <1>3, <1>5 DEF Follows, t

\* What the driver does with an event: u is the session but for the event.
LEMMA EmitFollows ==
  ASSUME ViewInv, DapInv, NEW i \in DOMAIN sessions, NEW s, s = sessions[i], NEW u \in Sessions,
         NEW event \in DapEvents, NEW w, w = [u EXCEPT !.events = Append(u.events, event)],
         DapEmit(i, u, event),
         u.handle = s.handle, u.bridge = s.bridge, u.events = s.events, DapRunning(u) => DapRunning(s),
         Up(u) => Up(s), InOrder(u),
         Silent(LanesOf(dapBg, s, i), s) => Silent(LanesOf(dapBg, w, i), w),
         Up(u) /\ ViewFits(LanesOf(dapBg, s, i), s, view) => ViewFits(LanesOf(dapBg, w, i), w, view)
  PROVE  ViewInv'
<1>1. s \in Sessions
  BY DEF DapInv, SessionsTold
<1>2. sessions' = [sessions EXCEPT ![i] = IF u.bridge THEN w ELSE DapStopped(u)] /\ UNCHANGED dapEditor
  BY DEF DapEmit
<1>3. CASE u.bridge
  <2>1. /\ w.handle = u.handle /\ w.driver = u.driver /\ w.adapter = u.adapter /\ w.requests = u.requests
        /\ w.commands = u.commands /\ w.configured = u.configured /\ w.stop = u.stop /\ w.bridge = u.bridge
    BY DEF Sessions
  <2>2. Up(w) <=> Up(u)
    BY <2>1 DEF Up, DapRunning
  <2>3. InOrder(w)
    BY <2>1, <2>2 DEF InOrder
  <2>4. Follows(dapBg, i, s, w, view)
    BY <2>1, <2>2, <2>3 DEF Follows
  <2> QED  BY <1>2, <1>3, <2>4, OneFollows
<1>4. CASE ~u.bridge
  <2>1. Follows(dapBg, i, s, DapStopped(u), view)
    BY <1>1, StoppedFollows
  <2> QED  BY <1>2, <1>4, <2>1, OneFollows
<1> QED
  BY <1>3, <1>4

\* The adapter's oldest request gone.
LEMMA InOrderOff ==
  ASSUME NEW s \in Sessions, Up(s), InOrder(s), s.requests # <<>>, NEW r, r = Head(s.requests)
  PROVE  /\ r \in Things /\ Tail(s.requests) \in Seq(Things)
         /\ r \in Shakes => None(Tail(s.requests), Shakes)
         /\ r.kind \in {"initialize", "launch"} => s.adapter = "new" /\ ~s.configured
         /\ r.kind = "configured" => s.adapter = "launched"
         /\ \A u : /\ u.requests = Tail(s.requests) /\ u.commands = s.commands /\ u.configured = s.configured
                   /\ u.stop = s.stop
                   /\ u.adapter = s.adapter \/ (s.adapter = "stopped" /\ u.adapter = "running")
                 => InOrder(u)
<1> DEFINE q == s.requests  B == OfKind({"initialize", "launch"})  C == OfKind({"configured"})
<1>1. q \in Seq(DapCommands) /\ q # <<>>
  BY DEF Sessions
<1>2. q \in Seq(Things)
  BY <1>1, KindsApart
<1>3. /\ r \in Things /\ Tail(q) \in Seq(Things)
      /\ \A A : None(q, A) <=> None(Tail(q), A) /\ r \notin A
  BY <1>1, <1>2, WithoutFirst, NoneWithoutFirst
<1>4. Never(q, Shakes, Shakes) => Never(Tail(q), Shakes, Shakes) /\ (r \in Shakes => None(Tail(q), Shakes))
  BY <1>1, <1>2, WithoutFirst
<1>5. /\ Never(q, Shakes, Shakes)
      /\ ~None(q, B) => s.adapter = "new"
      /\ ~None(q, C) => s.adapter = "launched"
      /\ s.adapter = "new" => ~s.configured
      /\ s.adapter = "launched" /\ ~s.configured => None(q, Shakes)
  BY DEF InOrder
<1>6. (r.kind \in {"initialize", "launch"} => r \in B) /\ (r.kind = "configured" => r \in C)
  BY <1>3 DEF OfKind
<1> HIDE DEF q, B, C
<1>7. ASSUME NEW u, u.requests = Tail(q), u.commands = s.commands, u.configured = s.configured,
             u.stop = s.stop, u.adapter = s.adapter \/ (s.adapter = "stopped" /\ u.adapter = "running")
      PROVE  InOrder(u)
  <2>1. /\ Never(u.requests, Shakes, Shakes)
        /\ ~None(u.requests, B) => s.adapter = "new"
        /\ ~None(u.requests, C) => s.adapter = "launched"
        /\ u.adapter = "new" => ~u.configured
        /\ u.adapter = "launched" /\ ~u.configured => None(u.requests, Shakes)
    BY <1>3, <1>4, <1>5, <1>7
  <2>2. (s.adapter = "new" => u.adapter = "new") /\ (s.adapter = "launched" => u.adapter = "launched")
    BY <1>7
  <2>3. u.adapter = "stopped" => u.stop # 0
    BY <1>7 DEF InOrder
  <2>4. None(u.commands, Shakes)
    BY <1>7 DEF InOrder
  <2> QED  BY <2>1, <2>2, <2>3, <2>4 DEF InOrder, B, C
<1> QED
  BY <1>3, <1>4, <1>5, <1>6, <1>7 DEF q

\* No request of the handshake is on its way.
LEMMA InOrderCalm ==
  ASSUME NEW u, None(u.requests, Shakes), None(u.commands, Shakes), u.adapter # "stopped",
         u.adapter = "new" => ~u.configured
  PROVE  InOrder(u)
<1>1. \A A : A \subseteq Shakes => None(u.requests, A)
  BY DEF None
<1>2. OfKind({"initialize", "launch"}) \subseteq Shakes /\ OfKind({"configured"}) \subseteq Shakes
  BY DEF OfKind, Shakes
<1>3. Never(u.requests, Shakes, Shakes)
  BY DEF Never, None
<1> QED
  BY <1>1, <1>2, <1>3 DEF InOrder

\* An answer that is no stop's, a note with it or not.
LEMMA PlainAnswer ==
  ASSUME NEW b \in Seq(DapReports), NEW i, NEW s \in Sessions, s.requests # <<>>, Head(s.requests) \notin Marks,
         NEW w, w.commands = s.commands, w.stop = s.stop, w.depth = s.depth,
         w.adapter = "stopped" <=> s.adapter = "stopped", DapRunning(w) => DapRunning(s),
         \/ w.requests = Tail(s.requests)
         \/ w.requests = Append(Tail(s.requests), Request("launch")),
         w.events = s.events \/ w.events = Append(s.events, DapNote), NEW v
  PROVE  /\ Silent(LanesOf(b, s, i), s) => Silent(LanesOf(b, w, i), w)
         /\ ViewFits(LanesOf(b, s, i), s, v) => ViewFits(LanesOf(b, w, i), w, v)
<1> DEFINE o == OwnOf(b, i)
           q == <<o, s.events, s.requests, s.commands>>
           q1 == <<o, s.events, Tail(s.requests), s.commands>>
           q2 == <<o, s.events, w.requests, s.commands>>
           p == <<o, w.events, w.requests, s.commands>>
<1>1. IsPipe(q) /\ q[3] = s.requests /\ q[3] # <<>>
  BY LanesArePipe, LaneAt DEF LanesOf
<1>2. SameBut({3}, q1, q) /\ q1[3] = Tail(s.requests) /\ SameBut({3}, q2, q1) /\ q2[3] = w.requests
      /\ SameBut({2}, p, q2) /\ q2[2] = s.events /\ p[2] = w.events
  BY LaneAt
<1>3. DapNote \in Things /\ DapNote \notin Marks
      /\ Request("launch") \in Things /\ Request("launch") \notin Marks
  <2>1. Request("launch") \in DapCommands /\ Request("launch").kind = "launch"
    BY RequestIsCommand DEF CommandKinds
  <2> QED  BY <2>1, KindsApart, KindTells
<1> HIDE DEF q, q1, q2, p
<1>4. IsPipe(q1) /\ Alike(q1, q)
  BY <1>1, <1>2, PlainOff
<1>5. IsPipe(q2) /\ (q2 = q1 \/ Alike(q2, q1))
  <2>1. CASE w.requests = Tail(s.requests)
    BY <1>4, <2>1 DEF q1, q2
  <2>2. CASE w.requests = Append(Tail(s.requests), Request("launch"))
    <3>1. q2[3] = Append(q1[3], Request("launch"))
      BY <1>2, <2>2
    <3>2. IsPipe(q2) /\ Alike(q2, q1)
      <4>1. IsPipe(q1) /\ SameBut({3}, q2, q1) /\ 3 \in 1..4
        BY <1>2, <1>4
      <4> QED  BY <1>3, <3>1, <4>1, PlainPut
    <3> QED  BY <3>2
  <2> QED  BY <2>1, <2>2
<1>6. IsPipe(p) /\ (p = q2 \/ Alike(p, q2))
  <2>1. CASE w.events = s.events
    BY <1>5, <2>1 DEF p, q2
  <2>2. CASE w.events = Append(s.events, DapNote)
    <3>1. p[2] = Append(q2[2], DapNote)
      BY <1>2, <2>2
    <3>2. IsPipe(p) /\ Alike(p, q2)
      <4>1. IsPipe(q2) /\ SameBut({2}, p, q2) /\ 2 \in 1..4
        BY <1>2, <1>5
      <4> QED  BY <1>3, <3>1, <4>1, PlainPut
    <3> QED  BY <3>2
  <2> QED  BY <2>1, <2>2
<1>7. LanesOf(b, s, i) = q /\ LanesOf(b, w, i) = p
  BY DEF LanesOf, q, p
<1>8. \A A \in SUBSET Marks : (NoneIn(q, A) => NoneIn(p, A)) /\ (Untold(q, A) => Untold(p, A))
  <2>1. \A A \in SUBSET Marks : (NoneIn(q, A) => NoneIn(q1, A)) /\ (Untold(q, A) => Untold(q1, A))
    BY <1>4 DEF Alike
  <2>2. \A A \in SUBSET Marks : (NoneIn(q1, A) => NoneIn(q2, A)) /\ (Untold(q1, A) => Untold(q2, A))
    BY <1>5 DEF Alike
  <2>3. \A A \in SUBSET Marks : (NoneIn(q2, A) => NoneIn(p, A)) /\ (Untold(q2, A) => Untold(p, A))
    BY <1>6 DEF Alike
  <2> QED  BY <2>1, <2>2, <2>3
<1>9. Silent(q, s) => Silent(p, w)
  <2>1. Loud \in SUBSET Marks
    BY AllMarks
  <2> QED  BY <1>8, <2>1 DEF Silent
<1>10. ASSUME ViewFits(q, s, v) PROVE ViewFits(p, w, v)
  <2>1. ViewFits(q1, s, v)
    BY <1>4, <1>10, AlikeFits
  <2>2. ViewFits(q2, s, v)
    BY <1>5, <2>1, AlikeFits
  <2>3. CASE p = q2
    <3>1. Alike(p, q2)
      BY <2>3 DEF Alike
    <3> QED  BY <2>2, <3>1, AlikeFits
  <2>4. CASE Alike(p, q2)
    BY <2>2, <2>4, AlikeFits
  <2> QED  BY <1>6, <2>3, <2>4
<1> QED
  BY <1>7, <1>9, <1>10

\* An answer about a stop: told while the program is stopped, a note else.
LEMMA StopAnswer ==
  ASSUME NEW b \in Seq(DapReports), NEW i, NEW s \in Sessions, DapRunning(s), s.requests # <<>>,
         NEW r, r = Head(s.requests), r.kind \in {"stack", "scopes", "variables"},
         NEW event \in DapEvents,
         IF s.adapter # "stopped" THEN event = DapNote
         ELSE IF r.kind = "stack" THEN event = [kind |-> "stack", arg |-> <<s.stop, 0>>, depth |-> s.depth]
         ELSE event = [kind |-> r.kind, arg |-> r.arg],
         NEW w, w.events = Append(s.events, event), w.requests = Tail(s.requests), w.commands = s.commands,
         w.stop = s.stop, w.depth = s.depth, w.adapter = s.adapter, NEW v
  PROVE  /\ ~Silent(LanesOf(b, s, i), s)
         /\ ViewFits(LanesOf(b, s, i), s, v) => ViewFits(LanesOf(b, w, i), w, v)
<1> DEFINE o == OwnOf(b, i)
           q == <<o, s.events, s.requests, s.commands>>
           q1 == <<o, s.events, Tail(s.requests), s.commands>>
           p == <<o, w.events, Tail(s.requests), s.commands>>
<1>1. IsPipe(q) /\ q[3] = s.requests /\ q[3] # <<>> /\ s.requests \in Seq(Things) /\ r \in Things
  BY LanesArePipe, LaneAt DEF LanesOf
<1>2. SameBut({3}, q1, q) /\ q1[3] = Tail(s.requests) /\ SameBut({2, 3}, p, q) /\ q[2] = s.events
      /\ q[1] = o /\ SameBut({2}, p, q1) /\ q1[2] = s.events /\ p[2] = w.events /\ p[3] = Tail(s.requests)
  BY LaneAt
<1>3. event \in Things /\ None(q[1], Controls) /\ None(q[2], Controls)
  BY <1>2, KindsApart, LanesArePipe
<1> HIDE DEF o, q, q1, p
<1>4. LanesOf(b, s, i) = q /\ LanesOf(b, w, i) = p
  BY DEF LanesOf, q, p, o
<1>5. ~Silent(q, s)
  <2>1. r \in Loud
    BY <1>1, KindTells
  <2>2. ~NoneIn(q, Loud)
    BY <1>1, <2>1, NoneWithoutFirst DEF NoneIn
  <2> QED  BY <2>2 DEF Silent
<1>6. ASSUME ViewFits(q, s, v), s.adapter = "stopped" PROVE ViewFits(p, w, v)
  <2>1. event.kind = r.kind
    BY <1>6
  <2>2. event.kind = "stack" => event.arg = <<s.stop, 0>> /\ event.depth = s.depth
    BY <1>6
  <2>3. event.kind # "stack" => event.arg = r.arg
    BY <1>6
  <2>4. ViewFits(p, s, v)
    BY <1>1, <1>2, <1>3, <1>6, <2>1, <2>2, <2>3, AnswerFits
  <2>5. Alike(p, p)
    BY DEF Alike
  <2> QED  BY <2>4, <2>5, AlikeFits
<1>7. ASSUME ViewFits(q, s, v), s.adapter # "stopped" PROVE ViewFits(p, w, v)
  <2>1. event = DapNote /\ Moving(q, s)
    BY <1>7 DEF Moving
  <2>2. event \notin ToShow /\ event \notin Busy
    BY <1>3, <2>1, KindTells DEF DapNote
  <2>3. p # q1 => \E y \in Things : y \notin ToShow /\ y \notin Busy /\ SameBut({2}, p, q1) /\ p[2] = Append(q1[2], y)
    BY <1>2, <1>3, <2>2
  <2> QED  BY <1>1, <1>2, <1>7, <2>1, <2>3, GoingFits
<1> QED
  BY <1>4, <1>5, <1>6, <1>7

\* An answer to a step or to a continue.
LEMMA GoAnswer ==
  ASSUME NEW b \in Seq(DapReports), NEW i, NEW s \in Sessions, DapRunning(s), s.requests # <<>>,
         NEW r, r = Head(s.requests), r.kind \in {"continue", "step"},
         NEW w, w.requests = Tail(s.requests), w.commands = s.commands, w.adapter # "stopped",
         \/ w.events = s.events
         \/ w.events = Append(s.events, DapNote)
         \/ w.events = Append(s.events, [kind |-> "continued"]), NEW v
  PROVE  /\ ~Silent(LanesOf(b, s, i), s)
         /\ ViewFits(LanesOf(b, s, i), s, v) => ViewFits(LanesOf(b, w, i), w, v)
<1> DEFINE o == OwnOf(b, i)
           q == <<o, s.events, s.requests, s.commands>>
           q1 == <<o, s.events, Tail(s.requests), s.commands>>
           p == <<o, w.events, Tail(s.requests), s.commands>>
<1>1. IsPipe(q) /\ q[3] = s.requests /\ q[3] # <<>> /\ s.requests \in Seq(Things) /\ r \in Things
  BY LanesArePipe, LaneAt DEF LanesOf
<1>2. SameBut({3}, q1, q) /\ q1[3] = Tail(s.requests)
      /\ SameBut({2}, p, q1) /\ q1[2] = s.events /\ p[2] = w.events
  BY LaneAt
<1>3. w.events = s.events => p = q1
  OBVIOUS
<1> HIDE DEF o, q, q1, p
<1>4. LanesOf(b, s, i) = q /\ LanesOf(b, w, i) = p
  BY DEF LanesOf, q, p, o
<1>5. ~Silent(q, s) /\ Moving(q, s)
  <2>1. r \in Loud /\ r \in Controls
    BY <1>1, KindTells
  <2>2. ~NoneIn(q, Loud) /\ ~NoneIn(q, Controls)
    BY <1>1, <2>1, NoneWithoutFirst DEF NoneIn
  <2> QED  BY <2>2 DEF Silent, Moving
<1>6. p # q1 => \E y \in Things : y \notin ToShow /\ y \notin Busy /\ SameBut({2}, p, q1) /\ p[2] = Append(q1[2], y)
  <2>1. DapNote \in Things /\ DapNote \notin ToShow /\ DapNote \notin Busy
    BY KindsApart, KindTells DEF DapNote
  <2>2. [kind |-> "continued"] \in Things /\ [kind |-> "continued"] \notin ToShow /\ [kind |-> "continued"] \notin Busy
    <3>1. [kind |-> "continued"] \in DapEvents
      BY DEF DapEvents, PlainEvents
    <3> QED  BY <3>1, KindsApart, KindTells
  <2> QED  BY <1>2, <1>3, <2>1, <2>2
<1> QED
  BY <1>1, <1>2, <1>4, <1>5, <1>6, GoingFits

\* What the driver does without an event.
LEMMA QuietlyFollows ==
  ASSUME ViewInv, DapInv, NEW i \in DOMAIN sessions, NEW s, s = sessions[i], NEW u, Quietly(i, u),
         u.handle = s.handle, u.bridge = s.bridge, Up(u) => Up(s), InOrder(u),
         Silent(LanesOf(dapBg, s, i), s) => Silent(LanesOf(dapBg, u, i), u),
         Up(u) /\ ViewFits(LanesOf(dapBg, s, i), s, view) => ViewFits(LanesOf(dapBg, u, i), u, view)
  PROVE  ViewInv'
<1>1. Follows(dapBg, i, s, u, view)
  BY DEF Follows
<1> QED
  BY <1>1, OneFollows DEF Quietly

\* The adapter answers its oldest request.
LEMMA AnswersFit == ASSUME ViewInv, DapInv, NEW i \in DOMAIN sessions, Answers(i) PROVE ViewInv'
<1> DEFINE x == sessions[i]
           r == Head(x.requests)
           s == [x EXCEPT !.requests = Tail(x.requests)]
<1>1. x \in Sessions /\ InOrder(x) /\ dapBg \in Seq(DapReports)
  BY DEF DapInv, SessionsTold, ReadyOnce, ViewInv
<1>2. Up(x) /\ x.requests # <<>> /\ DapRunning(x)
  BY DEF Answers, Up
<1>3. /\ r \in Things /\ r \in DapCommands /\ Tail(x.requests) \in Seq(Things) /\ Tail(x.requests) \in Seq(DapCommands)
      /\ r \in Shakes => None(Tail(x.requests), Shakes)
      /\ r.kind \in {"initialize", "launch"} => x.adapter = "new" /\ ~x.configured
      /\ r.kind = "configured" => x.adapter = "launched"
  <2>1. x.requests \in Seq(DapCommands)
    BY <1>1 DEF Sessions
  <2> HIDE DEF x
  <2>2. r \in DapCommands /\ Tail(x.requests) \in Seq(DapCommands)
    BY <1>2, <2>1, TailOf
  <2>3. /\ r \in Things /\ Tail(x.requests) \in Seq(Things)
        /\ r \in Shakes => None(Tail(x.requests), Shakes)
        /\ r.kind \in {"initialize", "launch"} => x.adapter = "new" /\ ~x.configured
        /\ r.kind = "configured" => x.adapter = "launched"
    BY <1>1, <1>2, InOrderOff
  <2> QED  BY <2>2, <2>3
<1>4. \/ r.kind = "initialize" /\ DapEmit(i, [s EXCEPT !.requests = Append(@, Request("launch"))], DapNote)
      \/ r.kind = "launch" /\ Quietly(i, [s EXCEPT !.adapter = "launched"])
      \/ r.kind = "breakpoints" /\ DapEmit(i, [s EXCEPT !.set = r.arg], DapNote)
      \/ r.kind = "configured" /\ Quietly(i, [s EXCEPT !.adapter = "running"])
      \/ /\ r.kind \in {"stack", "scopes", "variables"}
         /\ IF s.adapter # "stopped" THEN DapEmit(i, s, DapNote)
            ELSE IF r.kind = "stack"
            THEN DapEmit(i, s, [kind |-> "stack", arg |-> <<s.stop, 0>>, depth |-> s.depth])
            ELSE DapEmit(i, s, [kind |-> r.kind, arg |-> r.arg])
      \/ /\ r.kind = "continue"
         /\ IF s.adapter # "stopped" THEN DapEmit(i, s, DapNote)
            ELSE DapEmit(i, [s EXCEPT !.adapter = "running"], [kind |-> "continued"])
      \/ /\ r.kind = "step"
         /\ IF s.adapter # "stopped" THEN DapEmit(i, s, DapNote)
            ELSE Quietly(i, [s EXCEPT !.adapter = "running"])
  BY DEF Answers
<1>5. /\ s \in Sessions /\ s.requests = Tail(x.requests) /\ s.events = x.events /\ s.commands = x.commands
      /\ s.handle = x.handle /\ s.bridge = x.bridge /\ s.adapter = x.adapter /\ s.driver = x.driver
      /\ s.configured = x.configured /\ s.stop = x.stop /\ s.depth = x.depth
  BY <1>1, <1>3 DEF Sessions
<1>6. None(x.commands, Shakes)
  BY <1>1 DEF InOrder
<1>x. x = sessions[i] /\ r = Head(x.requests)
  OBVIOUS
<1> HIDE DEF x, s, r
<1>7. DapNote \in DapEvents /\ DapNote.kind = "note"
  BY NoteIsEvent DEF DapNote
<1>8. r.kind \in {"initialize", "launch", "configured", "breakpoints"} => r \notin Marks
  BY <1>3, KindTells
<1>9. r.kind \in {"initialize", "launch", "configured"} => r \in Shakes
  BY <1>3, KindTells
<1>10. \A u : /\ u.requests = s.requests /\ u.commands = s.commands /\ u.configured = s.configured
              /\ u.stop = s.stop
              /\ u.adapter = s.adapter \/ (s.adapter = "stopped" /\ u.adapter = "running")
            => InOrder(u)
  BY <1>1, <1>2, <1>5, <1>x, InOrderOff
<1>11. CASE r.kind = "initialize" /\ DapEmit(i, [s EXCEPT !.requests = Append(@, Request("launch"))], DapNote)
  <2> DEFINE c == Request("launch")
             u == [s EXCEPT !.requests = Append(s.requests, c)]
             w == [u EXCEPT !.events = Append(u.events, DapNote)]
  <2>1. c \in DapCommands /\ c.kind = "launch" /\ c \in Things
    BY RequestIsCommand, KindsApart DEF CommandKinds
  <2>2. DapEmit(i, u, DapNote)
    BY <1>11
  <2> HIDE DEF c
  <2>3. /\ u \in Sessions /\ u.requests = Append(s.requests, c) /\ u.events = x.events /\ u.commands = x.commands
        /\ u.handle = x.handle /\ u.bridge = x.bridge /\ u.adapter = x.adapter /\ u.driver = x.driver
        /\ u.configured = x.configured /\ u.stop = x.stop /\ u.depth = x.depth
    <3>1. Append(s.requests, c) \in Seq(DapCommands)
      BY <1>3, <1>5, <2>1
    <3> QED  BY <1>5, <3>1 DEF Sessions
  <2> HIDE DEF u
  <2>4. /\ w.requests = u.requests /\ w.events = Append(x.events, DapNote) /\ w.commands = u.commands
        /\ w.adapter = u.adapter /\ w.driver = u.driver /\ w.stop = u.stop /\ w.depth = u.depth
    BY <2>3 DEF Sessions
  <2>w. w = [u EXCEPT !.events = Append(u.events, DapNote)]
    OBVIOUS
  <2> HIDE DEF w
  <2>5. x.adapter = "new" /\ ~x.configured /\ None(s.requests, Shakes)
    BY <1>3, <1>5, <1>9, <1>11
  <2>6. InOrder(u)
    <3> DEFINE I == OfKind({"initialize", "launch"})  C == OfKind({"configured"})
    <3>1. Never(s.requests, Shakes, Shakes) /\ C \subseteq Shakes
      BY <2>5 DEF Never, None, OfKind, Shakes
    <3>0. s.requests \in Seq(Things) /\ c \in Things
      BY <1>3, <1>5, <2>1
    <3>2. Never(u.requests, Shakes, Shakes)
      <4>1. Never(Append(s.requests, c), Shakes, Shakes)
        BY <2>5, <3>0, <3>1, WithLast
      <4> QED  BY <2>3, <4>1
    <3>3. None(s.requests, C) /\ c \notin C
      BY <2>1, <2>5, <3>1 DEF None, OfKind
    <3> HIDE DEF C
    <3>4. None(u.requests, C)
      <4>1. None(Append(s.requests, c), C)
        BY <3>0, <3>3, NoneWithLast
      <4> QED  BY <2>3, <4>1
    <3> QED  BY <1>6, <2>3, <2>5, <3>2, <3>4 DEF InOrder, C
  <2>7. /\ Silent(LanesOf(dapBg, x, i), x) => Silent(LanesOf(dapBg, w, i), w)
        /\ ViewFits(LanesOf(dapBg, x, i), x, view) => ViewFits(LanesOf(dapBg, w, i), w, view)
    <3>1. DapRunning(w) => DapRunning(x)
      BY <2>3, <2>4 DEF DapRunning
    <3>2. r \notin Marks
      BY <1>8, <1>11
    <3>3. u.requests = Append(Tail(x.requests), Request("launch"))
      BY <1>5, <2>3 DEF c
    <3> QED  BY <1>1, <1>2, <1>x, <2>3, <2>4, <3>1, <3>2, <3>3, PlainAnswer
  <2>8. (DapRunning(u) => DapRunning(x)) /\ (Up(u) => Up(x))
    BY <2>3 DEF DapRunning, Up
  <2> QED  BY <1>7, <1>x, <2>2, <2>3, <2>w, <2>6, <2>7, <2>8, EmitFollows
<1>12. CASE r.kind = "launch" /\ Quietly(i, [s EXCEPT !.adapter = "launched"])
  <2> DEFINE u == [s EXCEPT !.adapter = "launched"]
  <2>1. /\ u.requests = s.requests /\ u.events = x.events /\ u.commands = x.commands /\ u.adapter = "launched"
        /\ u.handle = x.handle /\ u.bridge = x.bridge /\ u.driver = x.driver
        /\ u.configured = x.configured /\ u.stop = x.stop /\ u.depth = x.depth
    BY <1>5 DEF Sessions
  <2>q. Quietly(i, u)
    BY <1>12
  <2> HIDE DEF u
  <2>2. None(s.requests, Shakes) /\ x.adapter = "new"
    BY <1>3, <1>5, <1>9, <1>12
  <2>3. InOrder(u)
    BY <1>6, <2>1, <2>2, InOrderCalm
  <2>4. /\ Silent(LanesOf(dapBg, x, i), x) => Silent(LanesOf(dapBg, u, i), u)
        /\ ViewFits(LanesOf(dapBg, x, i), x, view) => ViewFits(LanesOf(dapBg, u, i), u, view)
    <3>1. DapRunning(u) => DapRunning(x)
      BY <2>1 DEF DapRunning
    <3>2. r \notin Marks
      BY <1>8, <1>12
    <3> QED  BY <1>1, <1>2, <1>5, <1>x, <2>1, <2>2, <3>1, <3>2, PlainAnswer
  <2>5. Up(u) => Up(x)
    BY <1>2
  <2> QED  BY <1>x, <2>1, <2>q, <2>3, <2>4, <2>5, QuietlyFollows
<1>13. CASE r.kind = "breakpoints" /\ DapEmit(i, [s EXCEPT !.set = r.arg], DapNote)
  <2> DEFINE u == [s EXCEPT !.set = r.arg]
             w == [u EXCEPT !.events = Append(u.events, DapNote)]
  <2>0. r.arg \in Args
    BY <1>3 DEF DapCommands
  <2>1. /\ u \in Sessions /\ u.requests = s.requests /\ u.events = x.events /\ u.commands = x.commands
        /\ u.adapter = x.adapter /\ u.handle = x.handle /\ u.bridge = x.bridge /\ u.driver = x.driver
        /\ u.configured = x.configured /\ u.stop = x.stop /\ u.depth = x.depth
    BY <1>5, <2>0 DEF Sessions
  <2>q. DapEmit(i, u, DapNote)
    BY <1>13
  <2> HIDE DEF u
  <2>2. /\ w.requests = u.requests /\ w.events = Append(x.events, DapNote) /\ w.commands = u.commands
        /\ w.adapter = u.adapter /\ w.driver = u.driver /\ w.stop = u.stop /\ w.depth = u.depth
    BY <2>1 DEF Sessions
  <2>w. w = [u EXCEPT !.events = Append(u.events, DapNote)]
    OBVIOUS
  <2> HIDE DEF w
  <2>3. InOrder(u)
    BY <1>5, <1>10, <2>1
  <2>4. /\ Silent(LanesOf(dapBg, x, i), x) => Silent(LanesOf(dapBg, w, i), w)
        /\ ViewFits(LanesOf(dapBg, x, i), x, view) => ViewFits(LanesOf(dapBg, w, i), w, view)
    <3>1. DapRunning(w) => DapRunning(x)
      BY <2>1, <2>2 DEF DapRunning
    <3>2. r \notin Marks
      BY <1>8, <1>13
    <3> QED  BY <1>1, <1>2, <1>5, <1>x, <2>1, <2>2, <3>1, <3>2, PlainAnswer
  <2>5. (DapRunning(u) => DapRunning(x)) /\ (Up(u) => Up(x))
    BY <2>1 DEF DapRunning, Up
  <2> QED  BY <1>7, <1>x, <2>1, <2>q, <2>w, <2>3, <2>4, <2>5, EmitFollows
<1>14. CASE r.kind = "configured" /\ Quietly(i, [s EXCEPT !.adapter = "running"])
  <2> DEFINE u == [s EXCEPT !.adapter = "running"]
  <2>1. /\ u.requests = s.requests /\ u.events = x.events /\ u.commands = x.commands /\ u.adapter = "running"
        /\ u.handle = x.handle /\ u.bridge = x.bridge /\ u.driver = x.driver
        /\ u.configured = x.configured /\ u.stop = x.stop /\ u.depth = x.depth
    BY <1>5 DEF Sessions
  <2>q. Quietly(i, u)
    BY <1>14
  <2> HIDE DEF u
  <2>2. None(s.requests, Shakes) /\ x.adapter = "launched"
    BY <1>3, <1>5, <1>9, <1>14
  <2>3. InOrder(u)
    BY <1>6, <2>1, <2>2, InOrderCalm
  <2>4. /\ Silent(LanesOf(dapBg, x, i), x) => Silent(LanesOf(dapBg, u, i), u)
        /\ ViewFits(LanesOf(dapBg, x, i), x, view) => ViewFits(LanesOf(dapBg, u, i), u, view)
    <3>1. DapRunning(u) => DapRunning(x)
      BY <2>1 DEF DapRunning
    <3>2. r \notin Marks
      BY <1>8, <1>14
    <3> QED  BY <1>1, <1>2, <1>5, <1>x, <2>1, <2>2, <3>1, <3>2, PlainAnswer
  <2>5. Up(u) => Up(x)
    BY <1>2
  <2> QED  BY <1>x, <2>1, <2>q, <2>3, <2>4, <2>5, QuietlyFollows
<1>15. InOrder(s) /\ (DapRunning(s) => DapRunning(x)) /\ (Up(s) => Up(x))
  BY <1>2, <1>5, <1>10
<1>16. CASE r.kind \in {"stack", "scopes", "variables"}
  <2> DEFINE event == IF s.adapter # "stopped" THEN DapNote
                      ELSE IF r.kind = "stack"
                      THEN [kind |-> "stack", arg |-> <<s.stop, 0>>, depth |-> s.depth]
                      ELSE [kind |-> r.kind, arg |-> r.arg]
             w == [s EXCEPT !.events = Append(s.events, event)]
  <2>1. DapEmit(i, s, event)
    BY <1>4, <1>16
  <2>2. event \in DapEvents
    <3>1. s.stop \in Nat /\ s.depth \in Nat /\ r.arg \in Args
      BY <1>3, <1>5 DEF Sessions, DapCommands
    <3>2. [kind |-> "stack", arg |-> <<s.stop, 0>>, depth |-> s.depth] \in DapEvents
      BY <3>1 DEF DapEvents, StackEvents, Frames
    <3>3. r.kind # "stack" => [kind |-> r.kind, arg |-> r.arg] \in DapEvents
      BY <1>16, <3>1 DEF DapEvents, ArgEvents
    <3> QED  BY <1>7, <3>2, <3>3
  <2>3. IF x.adapter # "stopped" THEN event = DapNote
        ELSE IF r.kind = "stack" THEN event = [kind |-> "stack", arg |-> <<x.stop, 0>>, depth |-> x.depth]
        ELSE event = [kind |-> r.kind, arg |-> r.arg]
    BY <1>5
  <2> HIDE DEF event
  <2>4. /\ w.requests = s.requests /\ w.events = Append(x.events, event) /\ w.commands = s.commands
        /\ w.adapter = s.adapter /\ w.stop = s.stop /\ w.depth = s.depth
    BY <1>5 DEF Sessions
  <2>w. w = [s EXCEPT !.events = Append(s.events, event)]
    OBVIOUS
  <2> HIDE DEF w
  <2>5. /\ ~Silent(LanesOf(dapBg, x, i), x)
        /\ ViewFits(LanesOf(dapBg, x, i), x, view) => ViewFits(LanesOf(dapBg, w, i), w, view)
    BY <1>1, <1>2, <1>5, <1>x, <1>16, <2>2, <2>3, <2>4, StopAnswer
  <2> QED  BY <1>5, <1>15, <1>x, <2>1, <2>2, <2>w, <2>5, EmitFollows
<1>17. CASE r.kind \in {"continue", "step"} /\ s.adapter # "stopped" /\ DapEmit(i, s, DapNote)
  <2> DEFINE w == [s EXCEPT !.events = Append(s.events, DapNote)]
  <2>4. /\ w.requests = s.requests /\ w.events = Append(x.events, DapNote) /\ w.commands = s.commands
        /\ w.adapter = s.adapter
    BY <1>5 DEF Sessions
  <2>w. w = [s EXCEPT !.events = Append(s.events, DapNote)]
    OBVIOUS
  <2> HIDE DEF w
  <2>5. /\ ~Silent(LanesOf(dapBg, x, i), x)
        /\ ViewFits(LanesOf(dapBg, x, i), x, view) => ViewFits(LanesOf(dapBg, w, i), w, view)
    BY <1>1, <1>2, <1>5, <1>x, <1>17, <2>4, GoAnswer
  <2> QED  BY <1>5, <1>7, <1>15, <1>x, <1>17, <2>w, <2>5, EmitFollows
<1> DEFINE u == [s EXCEPT !.adapter = "running"]
<1>18. /\ u \in Sessions /\ u.requests = s.requests /\ u.events = x.events /\ u.commands = s.commands
       /\ u.adapter = "running" /\ u.handle = x.handle /\ u.bridge = x.bridge /\ u.driver = x.driver
       /\ u.configured = s.configured /\ u.stop = s.stop /\ u.depth = x.depth
  BY <1>5 DEF Sessions
<1>u. u = [s EXCEPT !.adapter = "running"]
  OBVIOUS
<1> HIDE DEF u
<1>19. (DapRunning(u) => DapRunning(x)) /\ (Up(u) => Up(x))
  BY <1>2
<1>20. CASE r.kind = "continue" /\ s.adapter = "stopped"
            /\ DapEmit(i, [s EXCEPT !.adapter = "running"], [kind |-> "continued"])
  <2> DEFINE event == [kind |-> "continued"]
             w == [u EXCEPT !.events = Append(u.events, event)]
  <2>1. event \in DapEvents
    BY DEF DapEvents, PlainEvents
  <2>2. DapEmit(i, u, event) /\ InOrder(u)
    BY <1>10, <1>18, <1>20, <1>u
  <2>4. /\ w.requests = s.requests /\ w.events = Append(x.events, [kind |-> "continued"]) /\ w.commands = s.commands
        /\ w.adapter = "running"
    BY <1>18 DEF Sessions
  <2>w. w = [u EXCEPT !.events = Append(u.events, event)]
    OBVIOUS
  <2> HIDE DEF w, event
  <2>5. /\ ~Silent(LanesOf(dapBg, x, i), x)
        /\ ViewFits(LanesOf(dapBg, x, i), x, view) => ViewFits(LanesOf(dapBg, w, i), w, view)
    BY <1>1, <1>2, <1>5, <1>x, <1>20, <2>4, GoAnswer
  <2> QED  BY <1>18, <1>19, <1>x, <2>1, <2>2, <2>w, <2>5, EmitFollows
<1>21. CASE r.kind = "step" /\ s.adapter = "stopped" /\ Quietly(i, [s EXCEPT !.adapter = "running"])
  <2>1. Quietly(i, u) /\ InOrder(u)
    BY <1>10, <1>18, <1>21, <1>u
  <2>2. /\ ~Silent(LanesOf(dapBg, x, i), x)
        /\ ViewFits(LanesOf(dapBg, x, i), x, view) => ViewFits(LanesOf(dapBg, u, i), u, view)
    BY <1>1, <1>2, <1>5, <1>18, <1>x, <1>21, GoAnswer
  <2> QED  BY <1>18, <1>19, <1>x, <2>1, <2>2, QuietlyFollows
<1> QED
  BY <1>4, <1>11, <1>12, <1>13, <1>14, <1>16, <1>17, <1>20, <1>21

\* The handshake's end: breakpoints, if there are any, and the configuration go to the adapter.
LEMMA InitializedFits == ASSUME ViewInv, DapInv, NEW i \in DOMAIN sessions, Initialized(i) PROVE ViewInv'
<1> DEFINE x == sessions[i]
           c == Request("configured")
           d == [kind |-> "breakpoints", arg |-> x.known]
           told == IF x.known = {} THEN x.requests ELSE Append(x.requests, d)
           u == [x EXCEPT !.configured = TRUE, !.requests = Append(told, c)]
           w == [u EXCEPT !.events = Append(u.events, DapNote)]
           o == OwnOf(dapBg, i)
           q == <<o, x.events, x.requests, x.commands>>
           q1 == <<o, x.events, told, x.commands>>
           q2 == <<o, x.events, u.requests, x.commands>>
           p == <<o, w.events, u.requests, x.commands>>
<1>1. x \in Sessions /\ InOrder(x) /\ dapBg \in Seq(DapReports) /\ x.requests \in Seq(DapCommands) /\ x.known \in Args
  <2>1. x \in Sessions /\ InOrder(x) /\ dapBg \in Seq(DapReports)
    BY DEF DapInv, SessionsTold, ReadyOnce, ViewInv
  <2> HIDE DEF x
  <2>2. x.requests \in Seq(DapCommands) /\ x.known \in Args
    BY <2>1 DEF Sessions
  <2> QED  BY <2>1, <2>2
<1>2. Up(x) /\ x.adapter = "launched" /\ ~x.configured /\ DapRunning(x)
  BY DEF Initialized, Up
<1>3. /\ c \in DapCommands /\ c.kind = "configured" /\ d \in DapCommands /\ d.kind = "breakpoints"
  BY <1>1, RequestIsCommand DEF CommandKinds, DapCommands
<1>4. DapEmit(i, u, DapNote)
  <2>1. DapEmit(i, [x EXCEPT !.configured = TRUE,
                !.requests = x.requests \o (IF x.known = {} THEN <<>> ELSE <<d>>) \o <<c>>], DapNote)
    BY DEF Initialized
  <2>2. x.requests \o (IF x.known = {} THEN <<>> ELSE <<d>>) \o <<c>> = Append(told, c)
    <3> DEFINE a == x.requests
    <3>0. a \in Seq(DapCommands)
      BY <1>1
    <3> HIDE DEF a, c, d, x
    <3>1. a \o <<>> = a /\ a \o <<d>> = Append(a, d) /\ Append(a, d) \in Seq(DapCommands)
      BY <1>3, <3>0
    <3>2. \A e \in Seq(DapCommands) : e \o <<c>> = Append(e, c)
      BY <1>3
    <3> QED  BY <3>0, <3>1, <3>2 DEF a
  <2> QED  BY <2>1, <2>2
<1>x. x = sessions[i]
  OBVIOUS
<1> HIDE DEF x, c, d
<1>5. told \in Seq(DapCommands) /\ Append(told, c) \in Seq(DapCommands) /\ told \in Seq(Things)
      /\ x.requests \in Seq(Things) /\ c \in Things /\ d \in Things /\ c \notin Marks /\ d \notin Marks
  <2>1. told \in Seq(DapCommands)
    BY <1>1, <1>3
  <2>2. told \in Seq(Things) /\ x.requests \in Seq(Things)
    BY <1>1, <2>1, KindsApart
  <2>3. c \in Things /\ d \in Things
    BY <1>3, KindsApart
  <2> HIDE DEF told
  <2>4. Append(told, c) \in Seq(DapCommands)
    BY <1>3, <2>1
  <2> QED  BY <1>3, <2>1, <2>2, <2>3, <2>4, KindTells
<1>t. told = x.requests \/ told = Append(x.requests, d)
  OBVIOUS
<1> HIDE DEF told
<1>6. /\ u \in Sessions /\ u.requests = Append(told, c) /\ u.events = x.events /\ u.commands = x.commands
      /\ u.handle = x.handle /\ u.bridge = x.bridge /\ u.adapter = x.adapter /\ u.driver = x.driver
      /\ u.configured = TRUE /\ u.stop = x.stop /\ u.depth = x.depth
  BY <1>1, <1>5 DEF Sessions
<1> HIDE DEF u
<1>7. /\ w.requests = u.requests /\ w.events = Append(x.events, DapNote) /\ w.commands = u.commands
      /\ w.adapter = u.adapter /\ w.driver = u.driver /\ w.stop = u.stop /\ w.depth = u.depth
  BY <1>6 DEF Sessions
<1>w. w = [u EXCEPT !.events = Append(u.events, DapNote)]
  OBVIOUS
<1> HIDE DEF w
<1>8. InOrder(u)
  <2>1. None(x.requests, Shakes) /\ None(x.commands, Shakes)
    BY <1>1, <1>2 DEF InOrder
  <2>2. d \notin Shakes
    BY <1>3, <1>5, KindTells
  <2>3. None(told, Shakes)
    <3>1. None(Append(x.requests, d), Shakes)
      BY <1>5, <2>1, <2>2, NoneWithLast
    <3> QED  BY <1>t, <2>1, <3>1
  <2>4. Never(told, Shakes, Shakes)
    BY <2>3 DEF Never, None
  <2>5. Never(Append(told, c), Shakes, Shakes)
    BY <1>5, <2>3, <2>4, WithLast
  <2> DEFINE I == OfKind({"initialize", "launch"})
  <2>6. None(told, I) /\ c \notin I
    BY <1>3, <2>3 DEF None, OfKind, Shakes
  <2> HIDE DEF I
  <2>7. None(Append(told, c), I)
    BY <1>5, <2>6, NoneWithLast
  <2> QED  BY <1>2, <1>6, <2>1, <2>5, <2>7 DEF InOrder, I
<1>9. IsPipe(q) /\ LanesOf(dapBg, x, i) = q /\ LanesOf(dapBg, w, i) = p
  BY <1>1, <1>6, <1>7, LanesArePipe DEF LanesOf
<1>10. /\ SameBut({3}, q1, q) /\ q1[3] = told /\ q[3] = x.requests
       /\ SameBut({3}, q2, q1) /\ q2[3] = u.requests /\ SameBut({2}, p, q2) /\ q2[2] = x.events /\ p[2] = w.events
  BY LaneAt
<1>11. told = x.requests => q1 = q
  OBVIOUS
<1> HIDE DEF q, q1, q2, p
<1>12. 3 \in 1..4 /\ 2 \in 1..4 /\ DapNote \in Things /\ DapNote \notin Marks
  BY KindsApart
<1>13. IsPipe(q1) /\ Alike(q1, q)
  <2>1. CASE told = x.requests
    BY <1>9, <1>11, <2>1 DEF Alike
  <2>2. CASE told = Append(x.requests, d)
    <3>1. q1[3] = Append(q[3], d)
      BY <1>10, <2>2
    <3> QED  BY <1>5, <1>9, <1>10, <1>12, <3>1, PlainPut
  <2> QED  BY <1>t, <2>1, <2>2
<1>14. IsPipe(q2) /\ Alike(q2, q1)
  <2>1. q2[3] = Append(q1[3], c)
    BY <1>6, <1>10
  <2> QED  BY <1>5, <1>10, <1>12, <1>13, <2>1, PlainPut
<1>15. IsPipe(p) /\ Alike(p, q2)
  <2>1. p[2] = Append(q2[2], DapNote)
    BY <1>7, <1>10
  <2> QED  BY <1>10, <1>12, <1>14, <2>1, PlainPut
<1>16. ViewFits(q, x, view) => ViewFits(p, w, view)
  <2> SUFFICES ASSUME ViewFits(q, x, view) PROVE ViewFits(p, w, view)
    OBVIOUS
  <2>1. ViewFits(q1, x, view)
    BY <1>13, AlikeFits
  <2>2. ViewFits(q2, x, view)
    BY <1>14, <2>1, AlikeFits
  <2> QED  BY <1>6, <1>7, <1>15, <2>2, AlikeFits
<1>17. Silent(q, x) => Silent(p, w)
  <2>1. Loud \in SUBSET Marks
    BY AllMarks
  <2>2. (NoneIn(q, Loud) => NoneIn(p, Loud)) /\ (Untold(q, Loud) => Untold(p, Loud))
    BY <1>13, <1>14, <1>15, <2>1 DEF Alike
  <2> QED  BY <1>2, <2>2, SilentStays
<1>18. (DapRunning(u) => DapRunning(x)) /\ (Up(u) => Up(x))
  BY <1>2
<1> QED
  BY <1>4, <1>6, <1>8, <1>9, <1>16, <1>17, <1>18, <1>w, <1>x, NoteIsEvent, EmitFollows

\* The program stops, comes to its end, or the adapter exits.
LEMMA ProgramFits ==
  ASSUME ViewInv, DapInv, NEW i \in DOMAIN sessions, Stops(i) \/ Terminates(i) \/ AdapterExits(i)
  PROVE  ViewInv'
<1> DEFINE x == sessions[i]
<1>1. x \in Sessions /\ InOrder(x) /\ dapBg \in Seq(DapReports)
  BY DEF DapInv, SessionsTold, ReadyOnce, ViewInv
<1>2. Up(x) /\ DapRunning(x) /\ None(x.commands, Shakes)
  BY <1>1 DEF Stops, Terminates, AdapterExits, Up, InOrder
<1>x. x = sessions[i]
  OBVIOUS
<1>3. CASE AdapterExits(i)
  <2> DEFINE u == [x EXCEPT !.adapter = "gone"]
  <2>1. Quietly(i, u)
    BY <1>3 DEF AdapterExits
  <2> HIDE DEF x
  <2>2. /\ u.events = x.events /\ u.commands = x.commands /\ u.requests = x.requests /\ u.handle = x.handle
        /\ u.bridge = x.bridge /\ u.adapter = "gone" /\ u.driver = x.driver
    BY <1>1 DEF Sessions
  <2> HIDE DEF u
  <2>3. ~Up(u) /\ InOrder(u)
    BY <1>2, <2>2 DEF Up, InOrder
  <2>4. LanesOf(dapBg, u, i) = LanesOf(dapBg, x, i) /\ (DapRunning(u) => DapRunning(x))
    BY <2>2 DEF LanesOf, DapRunning
  <2>5. Silent(LanesOf(dapBg, x, i), x) => Silent(LanesOf(dapBg, u, i), u)
    BY <2>4 DEF Silent
  <2> QED  BY <1>x, <2>1, <2>2, <2>3, <2>5, QuietlyFollows
<1> DEFINE o == OwnOf(dapBg, i)
           q == <<o, x.events, x.requests, x.commands>>
<1>4. ASSUME NEW event \in DapEvents, event \notin Loud, NEW u \in Sessions, DapEmit(i, u, event), InOrder(u),
             u.events = x.events, u.commands = x.commands, u.requests = x.requests, u.handle = x.handle,
             u.bridge = x.bridge, u.driver = x.driver,
             event.kind = "stopped" => x.adapter # "stopped" /\ u.adapter = "stopped",
             event.kind # "stopped" => u.adapter = "terminated"
      PROVE  ViewInv'
  <2> DEFINE w == [u EXCEPT !.events = Append(u.events, event)]
             p == <<o, w.events, x.requests, x.commands>>
  <2> HIDE DEF x
  <2>1. /\ w.requests = x.requests /\ w.events = Append(x.events, event) /\ w.commands = x.commands
        /\ w.adapter = u.adapter /\ w.driver = x.driver
    BY <1>4 DEF Sessions
  <2>w. w = [u EXCEPT !.events = Append(u.events, event)]
    OBVIOUS
  <2> HIDE DEF w
  <2>2. IsPipe(q) /\ LanesOf(dapBg, x, i) = q /\ LanesOf(dapBg, w, i) = p
    BY <1>1, <2>1, LanesArePipe DEF LanesOf
  <2>3. SameBut({2}, p, q) /\ p[2] = w.events /\ q[2] = x.events /\ q[3] = x.requests /\ q[4] = x.commands
    BY LaneAt
  <2> HIDE DEF o, p, q
  <2>4. event \in Things /\ p[2] = Append(q[2], event) /\ 2 \in 1..4
    BY <2>1, <2>3, KindsApart
  <2>5. (NoneIn(q, Loud) => NoneIn(p, Loud)) /\ (Untold(q, Loud) => Untold(p, Loud))
    BY <1>4, <2>2, <2>3, <2>4, NonePut, UntoldPut
  <2>6. Silent(q, x) => Silent(p, w)
    BY <1>2, <2>5, SilentStays
  <2>7. Up(u) /\ ViewFits(q, x, view) => ViewFits(p, w, view)
    <3> SUFFICES ASSUME Up(u), ViewFits(q, x, view) PROVE ViewFits(p, w, view)
      OBVIOUS
    <3>1. event.kind = "stopped"
      BY <1>4 DEF Up
    <3>2. None(q[3], Back) /\ None(q[4], Back)
      BY <1>1, <2>3, LanesArePipe
    <3>3. x.adapter # "stopped" /\ w.adapter = "stopped"
      BY <1>4, <2>1, <3>1
    <3> QED  BY <2>2, <2>3, <2>4, <3>1, <3>2, <3>3, StopsFits
  <2>8. (DapRunning(u) => DapRunning(x)) /\ (Up(u) => Up(x))
    BY <1>2
  <2> QED  BY <1>4, <1>x, <2>2, <2>w, <2>6, <2>7, <2>8, EmitFollows
<1>5. CASE Terminates(i)
  <2> DEFINE u == [x EXCEPT !.adapter = "terminated", !.hasty = (x.handle = "task")]
             event == [kind |-> "terminated"]
  <2>1. DapEmit(i, u, event)
    BY <1>5 DEF Terminates
  <2>2. /\ u \in Sessions /\ u.events = x.events /\ u.commands = x.commands /\ u.requests = x.requests
        /\ u.handle = x.handle /\ u.bridge = x.bridge /\ u.adapter = "terminated" /\ u.driver = x.driver
    BY <1>1 DEF Sessions
  <2> HIDE DEF u
  <2>3. InOrder(u)
    BY <1>2, <2>2 DEF Up, InOrder
  <2>4. event \in DapEvents /\ event \notin Loud /\ event.kind = "terminated"
    <3>1. event \in DapEvents
      BY DEF DapEvents, PlainEvents
    <3> QED  BY <3>1, KindsApart, KindTells
  <2> HIDE DEF event
  <2> QED  BY <1>4, <2>1, <2>2, <2>3, <2>4
<1>6. CASE Stops(i)
  <2>1. PICK depth \in 1..2 :
          DapEmit(i, [x EXCEPT !.adapter = "stopped", !.stop = @ + 1, !.depth = depth], [kind |-> "stopped"])
    BY <1>6 DEF Stops
  <2> DEFINE u == [x EXCEPT !.adapter = "stopped", !.stop = x.stop + 1, !.depth = depth]
             event == [kind |-> "stopped"]
  <2>2. DapEmit(i, u, event) /\ x.adapter = "running"
    BY <1>6, <2>1 DEF Stops
  <2>3. /\ u \in Sessions /\ u.events = x.events /\ u.commands = x.commands /\ u.requests = x.requests
        /\ u.handle = x.handle /\ u.bridge = x.bridge /\ u.adapter = "stopped" /\ u.driver = x.driver
        /\ u.stop # 0 /\ u.configured = x.configured
    <3> DEFINE next == x.stop + 1
    <3> HIDE DEF x
    <3>1. x.stop \in Nat /\ depth \in Nat
      BY <1>1 DEF Sessions
    <3>2. next \in Nat /\ next # 0
      BY <3>1
    <3>3. u = [x EXCEPT !.adapter = "stopped", !.stop = next, !.depth = depth]
      OBVIOUS
    <3> HIDE DEF next, u
    <3>4. u \in Sessions
      BY <1>1, <3>1, <3>2, <3>3 DEF Sessions
    <3> QED  BY <1>1, <3>2, <3>3, <3>4 DEF Sessions
  <2> HIDE DEF u
  <2>4. InOrder(u)
    BY <1>1, <1>2, <2>2, <2>3 DEF InOrder
  <2>5. event \in DapEvents /\ event \notin Loud /\ event.kind = "stopped"
    <3>1. event \in DapEvents
      BY DEF DapEvents, PlainEvents
    <3> QED  BY <3>1, KindsApart, KindTells
  <2> HIDE DEF event
  <2> QED  BY <1>4, <2>2, <2>3, <2>4, <2>5
<1> QED
  BY <1>3, <1>5, <1>6

\* The driver takes a command: the handshake is none of its.
LEMMA InOrderCommand ==
  ASSUME NEW s \in Sessions, InOrder(s), s.commands # <<>>, NEW c, c = Head(s.commands),
         NEW u, u.commands = Tail(s.commands), u.adapter = s.adapter, u.driver = s.driver,
         u.configured = s.configured, u.stop = s.stop,
         u.requests = s.requests \/ u.requests = Append(s.requests, c)
  PROVE  InOrder(u) /\ c \in Things /\ c \in DapCommands
<1> DEFINE q == s.requests  o == s.commands  B == OfKind({"initialize", "launch"})  C == OfKind({"configured"})
<1>1. o \in Seq(DapCommands) /\ q \in Seq(DapCommands) /\ o # <<>>
  BY DEF Sessions
<1>2. o \in Seq(Things) /\ q \in Seq(Things)
  BY <1>1, KindsApart
<1>3. c \in DapCommands /\ c \in Things
  BY <1>1, TailOf, KindsApart
<1>4. /\ s.adapter = "stopped" => s.stop # 0
      /\ None(o, Shakes)
      /\ Up(s) => /\ Never(q, Shakes, Shakes)
                  /\ ~None(q, B) => s.adapter = "new"
                  /\ ~None(q, C) => s.adapter = "launched"
                  /\ s.adapter = "new" => ~s.configured
                  /\ s.adapter = "launched" /\ ~s.configured => None(q, Shakes)
  BY DEF InOrder
<1>5. B \subseteq Shakes /\ C \subseteq Shakes
  BY DEF OfKind, Shakes
<1> HIDE DEF q, o, B, C
<1>6. None(Tail(o), Shakes) /\ c \notin Shakes
  BY <1>1, <1>2, <1>4, NoneWithoutFirst DEF o
<1>7. /\ Never(q, Shakes, Shakes) => Never(u.requests, Shakes, Shakes)
      /\ None(q, B) => None(u.requests, B)
      /\ None(q, C) => None(u.requests, C)
      /\ None(q, Shakes) => None(u.requests, Shakes)
  <2>1. /\ Never(q, Shakes, Shakes) => Never(Append(q, c), Shakes, Shakes)
        /\ None(q, B) => None(Append(q, c), B)
        /\ None(q, C) => None(Append(q, c), C)
        /\ None(q, Shakes) => None(Append(q, c), Shakes)
    <3>1. c \notin B /\ c \notin C
      BY <1>5, <1>6
    <3> QED  BY <1>2, <1>3, <1>6, <3>1, WithLast, NoneWithLast
  <2> QED  BY <2>1 DEF q
<1>8. Up(u) <=> Up(s)
  BY DEF Up, DapRunning
<1>9. u.commands = Tail(o)
  BY DEF o
<1> QED
  BY <1>3, <1>4, <1>6, <1>7, <1>8, <1>9 DEF InOrder, B, C

\* The driver performs a command.
LEMMA PerformFits == ASSUME ViewInv, DapInv, NEW i \in DOMAIN sessions, DapPerform(i) PROVE ViewInv'
<1> DEFINE x == sessions[i]
           c == Head(x.commands)
           s == [x EXCEPT !.commands = Tail(x.commands)]
           sent == IF Up(s) THEN [s EXCEPT !.requests = Append(@, c)] ELSE s
<1>1. x \in Sessions /\ InOrder(x) /\ dapBg \in Seq(DapReports)
  BY DEF DapInv, SessionsTold, ReadyOnce, ViewInv
<1>2. x.commands # <<>> /\ DapRunning(x)
  BY DEF DapPerform
<1>3. \/ c.kind = "disconnect" /\ Quietly(i, DapStopped(s))
      \/ /\ c.kind = "breakpoints"
         /\ Quietly(i, [(IF s.configured THEN sent ELSE s) EXCEPT !.known = c.arg])
      \/ c.kind \notin {"disconnect", "breakpoints"} /\ Quietly(i, sent)
  BY DEF DapPerform
<1>x. x = sessions[i] /\ c = Head(x.commands)
  OBVIOUS
<1> HIDE DEF x, c
<1>4. /\ x.commands \in Seq(DapCommands) /\ Tail(x.commands) \in Seq(DapCommands)
      /\ x.requests \in Seq(DapCommands)
  <2>1. x.commands \in Seq(DapCommands) /\ x.requests \in Seq(DapCommands)
    BY <1>1 DEF Sessions
  <2> QED  BY <1>2, <2>1, TailOf
<1>5. /\ s \in Sessions /\ s.commands = Tail(x.commands) /\ s.requests = x.requests /\ s.events = x.events
      /\ s.handle = x.handle /\ s.bridge = x.bridge /\ s.adapter = x.adapter /\ s.driver = x.driver
      /\ s.configured = x.configured /\ s.stop = x.stop /\ s.depth = x.depth
  BY <1>1, <1>4 DEF Sessions
<1> HIDE DEF s
<1>6. InOrder(s) /\ c \in Things /\ c \in DapCommands
  BY <1>1, <1>2, <1>5, <1>x, InOrderCommand
<1>7. CASE c.kind = "disconnect" /\ Quietly(i, DapStopped(s))
  <2>1. Follows(dapBg, i, x, DapStopped(s), view)
    BY <1>1, <1>5, <1>6, StoppedFollows
  <2> QED  BY <1>7, <1>x, <2>1, OneFollows DEF Quietly
<1> DEFINE q == LanesOf(dapBg, x, i)
<1>8. /\ IsPipe(q) /\ q[1] = OwnOf(dapBg, i) /\ q[2] = x.events /\ q[3] = x.requests /\ q[4] = x.commands
      /\ q = <<OwnOf(dapBg, i), x.events, x.requests, x.commands>>
  BY <1>1, LanesArePipe, LaneAt DEF LanesOf
<1> HIDE DEF q
<1>9. q = LanesOf(dapBg, x, i)
  BY DEF q
<1>10. ASSUME NEW u, Quietly(i, u), Up(x), u.commands = s.commands, u.requests = Append(x.requests, c),
              u.events = x.events, u.handle = x.handle, u.bridge = x.bridge, u.adapter = x.adapter,
              u.driver = x.driver, u.configured = x.configured, u.stop = x.stop, u.depth = x.depth
       PROVE  ViewInv'
  <2> DEFINE p == <<OwnOf(dapBg, i), x.events, Append(x.requests, c), Tail(x.commands)>>
  <2>1. LanesOf(dapBg, u, i) = p
    BY <1>5, <1>10 DEF LanesOf
  <2>2. SameBut({3, 4}, p, q) /\ p[3] = Append(q[3], c) /\ p[4] = Tail(q[4])
    BY <1>8, LaneAt
  <2> HIDE DEF p
  <2>3. IsPipe(p) /\ Alike(p, q)
    <3>1. c = Head(q[4]) /\ q[4] # <<>> /\ 4 = 3 + 1 /\ 3 \in {1, 3} /\ 4 \in {2, 4}
      BY <1>2, <1>8, <1>x
    <3> QED  BY <1>8, <2>2, <3>1, SamePassed
  <2>4. Loud \in SUBSET Marks
    BY AllMarks
  <2>5. (NoneIn(q, Loud) => NoneIn(p, Loud)) /\ (Untold(q, Loud) => Untold(p, Loud))
    BY <2>3, <2>4 DEF Alike
  <2>6. DapRunning(u) => DapRunning(x)
    BY <1>2
  <2>7. Silent(q, x) => Silent(p, u)
    BY <2>5, <2>6, SilentStays
  <2>8. ViewFits(q, x, view) => ViewFits(p, u, view)
    BY <1>10, <2>3, AlikeFits
  <2>9. InOrder(u)
    BY <1>1, <1>2, <1>5, <1>10, <1>x, InOrderCommand
  <2> QED  BY <1>9, <1>10, <1>x, <2>1, <2>7, <2>8, <2>9, QuietlyFollows
<1>11. ASSUME NEW u, Quietly(i, u), ~Up(x) \/ c.kind = "breakpoints", u.commands = s.commands,
              u.requests = x.requests,
              u.events = x.events, u.handle = x.handle, u.bridge = x.bridge, u.adapter = x.adapter,
              u.driver = x.driver, u.configured = x.configured, u.stop = x.stop, u.depth = x.depth
       PROVE  ViewInv'
  <2> DEFINE p == <<OwnOf(dapBg, i), x.events, x.requests, Tail(x.commands)>>
  <2>1. LanesOf(dapBg, u, i) = p
    BY <1>5, <1>11 DEF LanesOf
  <2>2. SameBut({4}, p, q) /\ p[4] = Tail(q[4])
    BY <1>8, LaneAt
  <2> HIDE DEF p
  <2>3. c = Head(q[4]) /\ q[4] # <<>> /\ 4 \in 1..4
    BY <1>2, <1>8, <1>x
  <2>4. NoneIn(q, Loud) => NoneIn(p, Loud)
    BY <1>8, <2>2, <2>3, NoneOff
  <2>5. Untold(q, Loud) => Untold(p, Loud)
    BY <1>8, <2>2, <2>3, UntoldOff
  <2>6. DapRunning(u) => DapRunning(x)
    BY <1>2
  <2>7. Silent(q, x) => Silent(p, u)
    BY <2>4, <2>5, <2>6, SilentStays
  <2>8. Up(u) <=> Up(x)
    BY <1>11 DEF Up, DapRunning
  <2>9. Up(u) /\ ViewFits(q, x, view) => ViewFits(p, u, view)
    <3> SUFFICES ASSUME Up(u), ViewFits(q, x, view) PROVE ViewFits(p, u, view)
      OBVIOUS
    <3>1. c \notin Marks
      BY <1>6, <1>11, <2>8, KindTells
    <3>2. IsPipe(p) /\ Alike(p, q)
      BY <1>8, <2>2, <2>3, <3>1, PlainOff
    <3> QED  BY <1>11, <3>2, AlikeFits
  <2>10. InOrder(u)
    BY <1>1, <1>2, <1>5, <1>11, <1>x, InOrderCommand
  <2> QED  BY <1>9, <1>11, <1>x, <2>1, <2>7, <2>8, <2>9, <2>10, QuietlyFollows
<1>12. Up(s) <=> Up(x)
  BY <1>5 DEF Up, DapRunning
<1> DEFINE t == [s EXCEPT !.requests = Append(s.requests, c)]
<1>13. /\ t \in Sessions /\ t.commands = s.commands /\ t.requests = Append(x.requests, c) /\ t.events = x.events
       /\ t.handle = x.handle /\ t.bridge = x.bridge /\ t.adapter = x.adapter /\ t.driver = x.driver
       /\ t.configured = x.configured /\ t.stop = x.stop /\ t.depth = x.depth
  <2> DEFINE r == Append(s.requests, c)
  <2>1. r \in Seq(DapCommands)
    BY <1>4, <1>5, <1>6
  <2>2. r = Append(x.requests, c)
    BY <1>5
  <2> HIDE DEF r
  <2> QED  BY <1>5, <2>1, <2>2 DEF Sessions
<1>14. sent = IF Up(x) THEN t ELSE s
  BY <1>12
<1> HIDE DEF t, sent
<1>15. CASE c.kind \notin {"disconnect", "breakpoints"} /\ Quietly(i, sent)
  <2>1. CASE Up(x)
    BY <1>10, <1>13, <1>14, <1>15, <2>1
  <2>2. CASE ~Up(x)
    BY <1>5, <1>11, <1>14, <1>15, <2>2
  <2> QED  BY <2>1, <2>2
<1>16. CASE /\ c.kind = "breakpoints"
            /\ Quietly(i, [(IF s.configured THEN sent ELSE s) EXCEPT !.known = c.arg])
  <2>1. ASSUME NEW y \in {s, t}
        PROVE  LET u == [y EXCEPT !.known = c.arg]
               IN  /\ u.commands = y.commands /\ u.requests = y.requests /\ u.events = y.events
                   /\ u.handle = y.handle /\ u.bridge = y.bridge /\ u.adapter = y.adapter /\ u.driver = y.driver
                   /\ u.configured = y.configured /\ u.stop = y.stop /\ u.depth = y.depth
    <3>1. y \in Sessions
      BY <1>5, <1>13
    <3> QED  BY <3>1 DEF Sessions
  <2>2. CASE s.configured /\ Up(x)
    <3>1. Quietly(i, [t EXCEPT !.known = c.arg])
      BY <1>14, <1>16, <2>2
    <3> DEFINE u == [t EXCEPT !.known = c.arg]
    <3>2. /\ u.commands = s.commands /\ u.requests = Append(x.requests, c) /\ u.events = x.events
          /\ u.handle = x.handle /\ u.bridge = x.bridge /\ u.adapter = x.adapter /\ u.driver = x.driver
          /\ u.configured = x.configured /\ u.stop = x.stop /\ u.depth = x.depth
      BY <1>13, <2>1
    <3> HIDE DEF u
    <3> QED  BY <1>10, <2>2, <3>1, <3>2 DEF u
  <2>3. CASE ~(s.configured /\ Up(x))
    <3>1. Quietly(i, [s EXCEPT !.known = c.arg])
      BY <1>14, <1>16, <2>3
    <3> DEFINE u == [s EXCEPT !.known = c.arg]
    <3>2. /\ u.commands = s.commands /\ u.requests = x.requests /\ u.events = x.events
          /\ u.handle = x.handle /\ u.bridge = x.bridge /\ u.adapter = x.adapter /\ u.driver = x.driver
          /\ u.configured = x.configured /\ u.stop = x.stop /\ u.depth = x.depth
      BY <1>5, <2>1
    <3> HIDE DEF u
    <3> QED  BY <1>11, <1>16, <3>1, <3>2 DEF u
  <2> QED  BY <2>2, <2>3
<1> QED
  BY <1>3, <1>7, <1>15, <1>16

\* The driver performs a command or ends.
LEMMA DriverFits == ASSUME ViewInv, DapInv, NEW i \in DOMAIN sessions, DapDriver(i) PROVE ViewInv'
<1> DEFINE x == sessions[i]
           u == DapStopped(x)
           w == [u EXCEPT !.events = Append(u.events, DapNote)]
<1>1. x \in Sessions /\ InOrder(x)
  BY DEF DapInv, SessionsTold, ViewInv
<1>2. CASE DapClosed(i)
  <2>1. Follows(dapBg, i, x, DapStopped(x), view)
    BY <1>1, StoppedFollows
  <2> QED  BY <1>2, <2>1, OneFollows DEF DapClosed, Quietly
<1>3. CASE DapDisconnected(i)
  <2>x. x = sessions[i] /\ u = DapStopped(x)
    OBVIOUS
  <2>0. DapEmit(i, u, DapNote)
    BY <1>3 DEF DapDisconnected
  <2> HIDE DEF x
  <2>1. Follows(dapBg, i, x, u, view)
    BY <1>1, StoppedFollows
  <2>2. u \in Sessions /\ u.handle = x.handle /\ u.bridge = x.bridge /\ u.events = x.events /\ u.driver = "ended"
    BY <1>1 DEF DapStopped, Sessions
  <2> HIDE DEF u
  <2>3. ~DapRunning(u) /\ ~Up(u)
    BY <2>2 DEF Up, DapRunning
  <2>4. InOrder(u)
    BY <2>1 DEF Follows
  <2>5. w.events = Append(x.events, DapNote) /\ w.driver = "ended"
    BY <2>2 DEF Sessions
  <2>w. w = [u EXCEPT !.events = Append(u.events, DapNote)]
    OBVIOUS
  <2> HIDE DEF w
  <2>6. Untold(LanesOf(dapBg, x, i), Loud) => Untold(LanesOf(dapBg, w, i), Loud)
    <3>1. x.events \in Seq(Things) /\ DapNote \in Things /\ DapNote \notin Loud
      <4>1. dapBg \in Seq(DapReports)
        BY DEF DapInv, ReadyOnce
      <4>2. DapNote \in Things /\ DapNote.kind = "note"
        BY KindsApart DEF DapNote
      <4> QED  BY <1>1, <4>1, <4>2, LanesArePipe, KindTells
    <3>2. None(x.events, Loud) => None(w.events, Loud)
      BY <2>5, <3>1, NoneWithLast
    <3> QED  BY <3>2, LaneAt DEF LanesOf, Untold
  <2>7. Silent(LanesOf(dapBg, x, i), x) => Silent(LanesOf(dapBg, w, i), w)
    BY <2>5, <2>6 DEF Silent, DapRunning
  <2>8. DapNote \in DapEvents
    BY NoteIsEvent
  <2> QED  BY <2>0, <2>x, <2>w, <2>2, <2>3, <2>4, <2>7, <2>8, EmitFollows
<1> QED
  BY <1>2, <1>3, PerformFits DEF DapDriver

\* What a session has in the channel: with the first report gone, with one report more.
LEMMA OwnOff ==
  ASSUME NEW b \in Seq(DapReports), b # <<>>, NEW i
  PROVE  /\ OwnOf(b, i) # <<>> /\ OwnOf(Tail(b), i) = Tail(OwnOf(b, i))
         /\ Head(OwnOf(b, i)) = IF Head(b).session = i THEN Head(b).event ELSE DapNote
         /\ Tail(b) \in Seq(DapReports) /\ Head(b) \in DapReports
<1> DEFINE o == OwnOf(b, i)  t == OwnOf(Tail(b), i)
<1>1. /\ Len(b) \in Nat \ {0} /\ Tail(b) \in Seq(DapReports) /\ Len(Tail(b)) = Len(b) - 1
      /\ Head(b) = b[1] /\ Head(b) \in DapReports /\ \A k \in 1..Len(Tail(b)) : Tail(b)[k] = b[k + 1]
  OBVIOUS
<1>2. /\ DOMAIN o = 1..Len(b) /\ \A k \in 1..Len(b) : o[k] = IF b[k].session = i THEN b[k].event ELSE DapNote
  BY DEF OwnOf
<1>3. /\ DOMAIN t = 1..Len(Tail(b))
      /\ \A k \in 1..Len(Tail(b)) : t[k] = IF Tail(b)[k].session = i THEN Tail(b)[k].event ELSE DapNote
  BY DEF OwnOf
<1>4. o \in Seq(Things) /\ t \in Seq(Things)
  <2>1. \A x \in DapReports : (IF x.session = i THEN x.event ELSE DapNote) \in Things
    BY KindsApart DEF DapReports
  <2> QED  BY <1>1, <2>1 DEF OwnOf
<1> HIDE DEF o, t
<1>5. Len(o) = Len(b) /\ Len(t) = Len(b) - 1
  <2>1. Len(o) \in Nat /\ Len(t) \in Nat /\ Len(Tail(b)) \in Nat /\ DOMAIN o = 1..Len(o) /\ DOMAIN t = 1..Len(t)
    BY <1>1, <1>4, LenProperties
  <2>2. Len(o) = Len(b)
    BY <1>1, <1>2, <2>1
  <2>3. Len(t) = Len(Tail(b))
    BY <1>3, <2>1
  <2> QED  BY <1>1, <2>2, <2>3
<1>6. o # <<>> /\ Tail(o) \in Seq(Things) /\ Len(Tail(o)) = Len(o) - 1 /\ Head(o) = o[1]
      /\ \A k \in 1..Len(Tail(o)) : Tail(o)[k] = o[k + 1]
  BY <1>1, <1>4, <1>5
<1>7. \A k \in 1..Len(t) : t[k] = Tail(o)[k]
  <2> SUFFICES ASSUME NEW k \in 1..Len(t) PROVE t[k] = Tail(o)[k]
    OBVIOUS
  <2>1. k \in 1..Len(Tail(b)) /\ k + 1 \in 1..Len(b) /\ k \in 1..Len(Tail(o))
    BY <1>1, <1>5, <1>6
  <2> QED  BY <1>1, <1>2, <1>3, <1>6, <2>1
<1>8. t = Tail(o)
  BY <1>4, <1>5, <1>6, <1>7
<1>9. o[1] = IF b[1].session = i THEN b[1].event ELSE DapNote
  BY <1>1, <1>2
<1> QED
  BY <1>1, <1>6, <1>8, <1>9 DEF o, t

\* What a session has in the channel with one report more.
LEMMA OwnPut ==
  ASSUME NEW b \in Seq(DapReports), NEW r \in DapReports, NEW i
  PROVE  /\ OwnOf(Append(b, r), i) = Append(OwnOf(b, i), IF r.session = i THEN r.event ELSE DapNote)
         /\ (IF r.session = i THEN r.event ELSE DapNote) \in Things
         /\ Append(b, r) \in Seq(DapReports)
<1> DEFINE o == OwnOf(b, i)  a == Append(b, r)  t == OwnOf(a, i)
           x == IF r.session = i THEN r.event ELSE DapNote
<1>1. /\ Len(b) \in Nat /\ a \in Seq(DapReports) /\ Len(a) = Len(b) + 1
      /\ a[Len(b) + 1] = r /\ \A k \in 1..Len(b) : a[k] = b[k]
  BY AppendProperties
<1> HIDE DEF a
<1>2. /\ DOMAIN o = 1..Len(b) /\ \A k \in 1..Len(b) : o[k] = IF b[k].session = i THEN b[k].event ELSE DapNote
  BY DEF OwnOf
<1>3. /\ DOMAIN t = 1..Len(a)
      /\ \A k \in 1..Len(a) : t[k] = IF a[k].session = i THEN a[k].event ELSE DapNote
  BY DEF OwnOf
<1>4. o \in Seq(Things) /\ t \in Seq(Things) /\ x \in Things
  <2>1. \A y \in DapReports : (IF y.session = i THEN y.event ELSE DapNote) \in Things
    BY KindsApart DEF DapReports
  <2> QED  BY <1>1, <2>1 DEF OwnOf
<1>x. x = IF r.session = i THEN r.event ELSE DapNote
  OBVIOUS
<1> HIDE DEF o, t, x
<1>5. Len(o) = Len(b) /\ Len(t) = Len(b) + 1
  BY <1>1, <1>2, <1>3, <1>4
<1>6. /\ Append(o, x) \in Seq(Things) /\ Len(Append(o, x)) = Len(o) + 1 /\ Append(o, x)[Len(o) + 1] = x
      /\ \A k \in 1..Len(o) : Append(o, x)[k] = o[k]
  BY <1>4, AppendProperties
<1>7. \A k \in 1..Len(t) : t[k] = Append(o, x)[k]
  <2> SUFFICES ASSUME NEW k \in 1..Len(t) PROVE t[k] = Append(o, x)[k]
    OBVIOUS
  <2>1. k \in 1..Len(a) /\ (k \in 1..Len(b) \/ k = Len(b) + 1)
    BY <1>1, <1>5
  <2> QED  BY <1>1, <1>2, <1>3, <1>5, <1>6, <1>x, <2>1
<1>8. t = Append(o, x)
  BY <1>4, <1>5, <1>6, <1>7
<1> QED
  BY <1>1, <1>4, <1>8 DEF o, t, x, a

\* The four queues of a session when the channel loses its first report.
LEMMA LanesOff ==
  ASSUME NEW b \in Seq(DapReports), b # <<>>, NEW s \in Sessions, NEW i,
         NEW q, q = LanesOf(b, s, i), NEW p, p = LanesOf(Tail(b), s, i)
  PROVE  /\ IsPipe(q) /\ IsPipe(p) /\ q[1] # <<>> /\ SameBut({1}, p, q) /\ p[1] = Tail(q[1])
         /\ Head(q[1]) = IF Head(b).session = i THEN Head(b).event ELSE DapNote
         /\ Silent(q, s) => Silent(p, s) /\ Head(q[1]) \notin Loud
         /\ ~None(q[1], Readies) /\ Head(q[1]) \notin Readies => ~None(p[1], Readies)
<1>1. /\ OwnOf(b, i) # <<>> /\ OwnOf(Tail(b), i) = Tail(OwnOf(b, i)) /\ Tail(b) \in Seq(DapReports)
      /\ Head(OwnOf(b, i)) = IF Head(b).session = i THEN Head(b).event ELSE DapNote
  BY OwnOff
<1>2. IsPipe(q) /\ IsPipe(p)
  BY <1>1, LanesArePipe
<1>3. q[1] = OwnOf(b, i) /\ p[1] = OwnOf(Tail(b), i) /\ SameBut({1}, p, q)
  BY LaneAt DEF LanesOf
<1>4. 1 \in 1..4 /\ q[1] # <<>> /\ p[1] = Tail(q[1])
  BY <1>1, <1>3
<1>5. /\ NoneIn(q, Loud) => NoneIn(p, Loud)
      /\ Untold(q, Loud) => Untold(p, Loud)
  BY <1>2, <1>3, <1>4, NoneOff, UntoldOff
<1>6. q[1] \in Seq(Things)
  BY <1>2, <1>4 DEF IsPipe
<1>7. Untold(q, Loud) => Head(q[1]) \notin Loud
  BY <1>4, <1>6, NoneWithoutFirst DEF Untold
<1>8. ~None(q[1], Readies) /\ Head(q[1]) \notin Readies => ~None(p[1], Readies)
  BY <1>4, <1>6, NoneWithoutFirst
<1> QED
  BY <1>1, <1>2, <1>3, <1>4, <1>5, <1>7, <1>8 DEF Silent

\* The four queues of a session when the channel gets a report of another.
LEMMA LanesHear ==
  ASSUME NEW b \in Seq(DapReports), NEW r \in DapReports, NEW s \in Sessions, NEW i, r.session # i,
         NEW q, q = LanesOf(b, s, i), NEW p, p = LanesOf(Append(b, r), s, i), NEW v
  PROVE  /\ LeftAlone(q, s) => LeftAlone(p, s)
         /\ Watched(q, s, v) => Watched(p, s, v)
<1>1. OwnOf(Append(b, r), i) = Append(OwnOf(b, i), DapNote) /\ Append(b, r) \in Seq(DapReports)
  BY OwnPut
<1>2. IsPipe(q)
  BY LanesArePipe
<1>3. q[1] = OwnOf(b, i) /\ p[1] = OwnOf(Append(b, r), i) /\ SameBut({1}, p, q)
  BY LaneAt DEF LanesOf
<1>4. DapNote \in Things /\ DapNote \notin Marks /\ 1 \in 1..4 /\ p[1] = Append(q[1], DapNote)
  BY <1>1, <1>3, KindsApart
<1>5. IsPipe(p) /\ Alike(p, q)
  BY <1>2, <1>3, <1>4, PlainPut
<1>6. Silent(q, s) => Silent(p, s)
  <2>1. Loud \in SUBSET Marks
    BY AllMarks
  <2> QED  BY <1>5, <2>1 DEF Alike, Silent
<1>7. ~None(q[1], Readies) => ~None(p[1], Readies)
  <2>1. q[1] \in Seq(Things)
    BY <1>2, <1>4 DEF IsPipe
  <2> QED  BY <1>4, <2>1, NoneWithLast
<1>8. ViewFits(q, s, v) => ViewFits(p, s, v)
  BY <1>5, AlikeFits
<1> QED
  BY <1>6, <1>7, <1>8 DEF LeftAlone, Watched

\* While nothing was lost and the user waits, the client of the editor is that of the
\* session launched last.
LEMMA ClientIsLast ==
  ASSUME ViewInv, DapInv, ~dropped, ~early, dapClient # 0
  PROVE  /\ dapClient = Len(sessions) /\ Len(sessions) \in Nat \ {0} /\ dapClient \in DOMAIN sessions
         /\ sessions[dapClient].handle = "app" /\ sessions[dapClient] \in Sessions
         /\ Watched(LanesOf(dapBg, sessions[dapClient], dapClient), sessions[dapClient], view)
<1>1. /\ sessions \in Seq(Sessions) /\ Len(sessions) \in Nat /\ dapClient \in 1..Len(sessions)
      /\ sessions[dapClient].handle = "app"
  BY DEF DapInv, SessionsTold
<1>2. /\ \A i \in 1..Len(sessions) : i < Len(sessions) => sessions[i].handle = "nobody"
      /\ Len(sessions) # 0 => Watched(LanesOf(dapBg, sessions[Len(sessions)], Len(sessions)),
                                       sessions[Len(sessions)], view)
  BY DEF ViewInv, LeftAlone
<1>3. dapClient = Len(sessions)
  BY <1>1, <1>2
<1> QED
  BY <1>1, <1>2, <1>3

\* A command that is not of the handshake: what it does to the sessions.
LEMMA DispatchInOrder ==
  ASSUME ViewInv, DapInv, NEW c \in DapCommands, c \notin Shakes, DapDispatch(c)
  PROVE  /\ Len(sessions') = Len(sessions) /\ sessions' \in Seq(Sessions)
         /\ \A j \in 1..Len(sessions) : /\ InOrder(sessions'[j])
                                        /\ sessions'[j].handle = sessions[j].handle
                                        /\ j # dapClient => sessions'[j] = sessions[j]
         /\ ~dropped' => /\ ~dropped /\ dapClient # 0
                         /\ sessions'[dapClient]
                              = [sessions[dapClient] EXCEPT !.commands = Append(sessions[dapClient].commands, c)]
<1>1. sessions \in Seq(Sessions) /\ dapClient \in 0..Len(sessions) /\ Len(sessions) \in Nat
      /\ \A j \in 1..Len(sessions) : InOrder(sessions[j]) /\ sessions[j] \in Sessions
  BY DEF DapInv, SessionsTold, ViewInv
<1>2. CASE ~DapAccepts
  <2>1. sessions' = sessions /\ dropped'
    BY <1>2 DEF DapDispatch
  <2> QED  BY <1>1, <2>1
<1>3. CASE DapAccepts
  <2> DEFINE s == sessions[dapClient]
             t == [s EXCEPT !.commands = Append(s.commands, c)]
  <2>1. dapClient \in 1..Len(sessions) /\ dapClient # 0
    BY <1>1, <1>3 DEF DapAccepts
  <2>2. sessions' = [sessions EXCEPT ![dapClient] = t] /\ (dropped' <=> dropped)
    BY <1>3 DEF DapDispatch
  <2>3. s \in Sessions /\ InOrder(s)
    BY <1>1, <2>1
  <2>s. s = sessions[dapClient]
    OBVIOUS
  <2> HIDE DEF s
  <2>4. s.commands \in Seq(DapCommands)
    BY <2>3 DEF Sessions
  <2> DEFINE q == Append(s.commands, c)
  <2>5. q \in Seq(DapCommands) /\ None(q, Shakes)
    <3>1. s.commands \in Seq(Things) /\ c \in Things /\ None(s.commands, Shakes)
      BY <2>3, <2>4, KindsApart DEF InOrder
    <3> QED  BY <2>4, <3>1, NoneWithLast
  <2>q. t = [s EXCEPT !.commands = q]
    OBVIOUS
  <2> HIDE DEF q, t
  <2>6. /\ t \in Sessions /\ t.handle = s.handle /\ t.adapter = s.adapter /\ t.driver = s.driver
        /\ t.requests = s.requests /\ t.configured = s.configured /\ t.stop = s.stop /\ t.commands = q
    BY <2>3, <2>5, <2>q DEF Sessions
  <2>7. InOrder(t)
    BY <2>3, <2>5, <2>6 DEF InOrder, Up, DapRunning
  <2>8. sessions' \in Seq(Sessions) /\ Len(sessions') = Len(sessions)
        /\ \A j \in 1..Len(sessions) : sessions'[j] = IF j = dapClient THEN t ELSE sessions[j]
    BY <1>1, <2>1, <2>2, <2>6, ExceptSeq
  <2>9. \A j \in 1..Len(sessions) : InOrder(sessions'[j]) /\ sessions'[j].handle = sessions[j].handle
    BY <1>1, <2>6, <2>7, <2>8, <2>s
  <2>10. sessions'[dapClient] = [sessions[dapClient] EXCEPT !.commands = Append(sessions[dapClient].commands, c)]
    BY <2>1, <2>8, <2>q, <2>s DEF q
  <2> QED  BY <2>1, <2>2, <2>8, <2>9, <2>10
<1> QED
  BY <1>2, <1>3

\* The queues of a session that gets a command.
LEMMA LanesPut ==
  ASSUME NEW b \in Seq(DapReports), NEW s \in Sessions, NEW i, NEW c \in DapCommands,
         NEW m, m = Append(s.commands, c), NEW t, t = [s EXCEPT !.commands = m]
  PROVE  /\ IsPipe(LanesOf(b, s, i)) /\ IsPipe(LanesOf(b, t, i)) /\ SameBut({4}, LanesOf(b, t, i), LanesOf(b, s, i))
         /\ t.commands = m /\ t.handle = s.handle /\ t.adapter = s.adapter /\ t.driver = s.driver
         /\ t.stop = s.stop /\ t.depth = s.depth /\ t.bridge = s.bridge
<1> DEFINE q == LanesOf(b, s, i)
           p == LanesOf(b, t, i)
<1>1. s.commands \in Seq(DapCommands)
  BY DEF Sessions
<1>2. m \in Seq(DapCommands)
  BY <1>1
<1>3. /\ t \in Sessions /\ t.handle = s.handle /\ t.adapter = s.adapter /\ t.driver = s.driver
      /\ t.stop = s.stop /\ t.depth = s.depth /\ t.bridge = s.bridge
      /\ t.commands = m /\ t.events = s.events /\ t.requests = s.requests
  BY <1>2 DEF Sessions
<1>4. IsPipe(q) /\ IsPipe(p)
  BY <1>3, LanesArePipe
<1>5. q = <<OwnOf(b, i), s.events, s.requests, s.commands>> /\ p = <<OwnOf(b, i), s.events, s.requests, m>>
  BY <1>3 DEF LanesOf
<1>6. SameBut({4}, p, q)
  <2> DEFINE a == OwnOf(b, i)  e == s.events  r == s.requests  d == s.commands
  <2>1. q = <<a, e, r, d>> /\ p = <<a, e, r, m>>
    BY <1>5
  <2> HIDE DEF a, e, r, d
  <2>2. SameBut({4}, <<a, e, r, m>>, <<a, e, r, d>>)
    BY LaneAt
  <2> QED  BY <2>1, <2>2
<1> QED
  BY <1>3, <1>4, <1>6

\* A view fits the same session with a command more.
LEMMA FitsAlike ==
  ASSUME NEW q, NEW s, NEW t, NEW v, t.stop = s.stop, t.depth = s.depth, t.adapter = s.adapter
  PROVE  ViewFits(q, t, v) <=> ViewFits(q, s, v)
<1>1. \A A : Odd(t) = Odd(s)
  BY DEF Odd
<1> QED
  BY <1>1 DEF ViewFits, Moving, Shows

\* A command of the editor, with the first report of the channel gone or not.
LEMMA SentFits ==
  ASSUME ViewInv, DapInv, NEW c \in DapCommands, c \notin Shakes, DapDispatch(c), UNCHANGED dapClient,
         ~early' => ~early, UNCHANGED dapBg \/ (dapBg # <<>> /\ dapBg' = Tail(dapBg)),
         \A s \in Sessions : \A q, p :
            /\ s = sessions[dapClient] /\ ~dropped /\ ~dropped' /\ ~early' /\ dapClient # 0
            /\ q = LanesOf(dapBg, s, dapClient)
            /\ ViewFits(q, s, view) /\ IsPipe(q) /\ IsPipe(p)
            /\ SameBut({4}, p, LanesOf(dapBg', s, dapClient))
            /\ p[4] = Append(LanesOf(dapBg', s, dapClient)[4], c)
            => ViewFits(p, s, view')
  PROVE  ViewInv'
<1>1. /\ Len(sessions') = Len(sessions) /\ sessions' \in Seq(Sessions)
      /\ \A j \in 1..Len(sessions) : /\ InOrder(sessions'[j])
                                     /\ sessions'[j].handle = sessions[j].handle
                                     /\ j # dapClient => sessions'[j] = sessions[j]
      /\ ~dropped' => /\ ~dropped /\ dapClient # 0
                      /\ sessions'[dapClient]
                           = [sessions[dapClient] EXCEPT !.commands = Append(sessions[dapClient].commands, c)]
  BY DispatchInOrder
<1>2. dapBg \in Seq(DapReports) /\ dapBg' \in Seq(DapReports)
  <2>1. dapBg \in Seq(DapReports)
    BY DEF DapInv, ReadyOnce
  <2> QED  BY <2>1, OwnOff
<1>3. /\ Len(sessions) \in Nat /\ \A j \in 1..Len(sessions) : sessions[j] \in Sessions
  BY DEF DapInv, SessionsTold
<1>4. ASSUME ~dropped', ~early'
      PROVE  /\ dapClient' # 0
             /\ \A j \in 1..Len(sessions) :
                  j < Len(sessions) => LeftAlone(LanesOf(dapBg', sessions'[j], j), sessions'[j])
             /\ Len(sessions) # 0 => Watched(LanesOf(dapBg', sessions'[Len(sessions)], Len(sessions)),
                                       sessions'[Len(sessions)], view')
  <2> DEFINE n == Len(sessions)
             s == sessions[dapClient]
             w == Append(s.commands, c)
             t == [s EXCEPT !.commands = w]
             q == LanesOf(dapBg, s, dapClient)
             r == LanesOf(dapBg', s, dapClient)
             p == LanesOf(dapBg', t, dapClient)
  <2>1. ~dropped /\ ~early /\ dapClient # 0 /\ dapClient' # 0
    BY <1>1, <1>4
  <2>2. dapClient = n /\ n \in Nat \ {0} /\ s.handle = "app" /\ s \in Sessions /\ Watched(q, s, view)
    BY <2>1, ClientIsLast
  <2>3. ASSUME NEW j \in 1..n, j < n
        PROVE  LeftAlone(LanesOf(dapBg', sessions'[j], j), sessions'[j])
    <3>1. sessions'[j] = sessions[j] /\ sessions[j] \in Sessions
      BY <1>1, <1>3, <2>2, <2>3
    <3>2. LeftAlone(LanesOf(dapBg, sessions[j], j), sessions[j])
      BY <2>1, <2>3 DEF ViewInv
    <3>3. CASE UNCHANGED dapBg
      BY <3>1, <3>2, <3>3
    <3>4. CASE dapBg # <<>> /\ dapBg' = Tail(dapBg)
      BY <1>2, <3>1, <3>2, <3>4, LanesOff DEF LeftAlone
    <3> QED  BY <3>3, <3>4
  <2>4. sessions'[n] = t
    BY <1>1, <1>4, <2>2
  <2>5. /\ IsPipe(r) /\ IsPipe(p) /\ SameBut({4}, p, r) /\ p[4] = Append(r[4], c)
        /\ t.handle = s.handle /\ t.adapter = s.adapter /\ t.driver = s.driver
        /\ t.stop = s.stop /\ t.depth = s.depth /\ t.bridge = s.bridge
    <3> DEFINE b == dapBg'  m == dapClient
    <3>1. /\ b \in Seq(DapReports) /\ s \in Sessions /\ r = LanesOf(b, s, m) /\ p = LanesOf(b, t, m)
          /\ w = Append(s.commands, c) /\ t = [s EXCEPT !.commands = w]
      BY <1>2, <2>2
    <3> HIDE DEF s, t, r, p, b, m, w
    <3>2. IsPipe(r) /\ IsPipe(p) /\ SameBut({4}, p, r)
      BY <3>1, LanesPut
    <3>6. t.commands = w
      BY <3>1, LanesPut
    <3>3. p[4] = w /\ r[4] = s.commands
      BY <3>1, <3>6, LaneAt DEF LanesOf
    <3>4. t.handle = s.handle /\ t.adapter = s.adapter /\ t.driver = s.driver
      BY <3>1, LanesPut
    <3>5. t.stop = s.stop /\ t.depth = s.depth /\ t.bridge = s.bridge
      BY <3>1, LanesPut
    <3> QED  BY <3>1, <3>2, <3>3, <3>4, <3>5
  <2>6. IsPipe(q)
    BY <1>2, <2>2, LanesArePipe
  <2>q. q = LanesOf(dapBg, s, dapClient) /\ r = LanesOf(dapBg', s, dapClient) /\ s = sessions[dapClient]
        /\ p = LanesOf(dapBg', t, dapClient)
    OBVIOUS
  <2> HIDE DEF s, t, q, r, p
  <2>7. ViewFits(q, s, view) => ViewFits(p, s, view')
    BY <1>4, <2>1, <2>2, <2>5, <2>6, <2>q
  <2>8. ViewFits(p, s, view') <=> ViewFits(p, t, view')
    BY <2>5, FitsAlike
  <2>9. Up(t) <=> Up(s)
    BY <2>5 DEF Up, DapRunning
  <2>10. Watched(p, t, view')
    BY <2>2, <2>5, <2>7, <2>8, <2>9 DEF Watched
  <2> QED  BY <2>1, <2>2, <2>3, <2>4, <2>10, <2>q
<1>5. \A j \in 1..Len(sessions') : InOrder(sessions'[j])
  BY <1>1
<1> QED
  BY <1>1, <1>4, <1>5 DEF ViewInv

\* With nothing on its way, the queues of a session that runs are empty.
LEMMA NothingThere ==
  ASSUME DapInv, NothingComes, NEW i \in DOMAIN sessions, NEW s, s = sessions[i],
         NEW q, q = LanesOf(dapBg, s, i)
  PROVE  /\ s.handle # "task" /\ s.events = <<>> /\ s \in Sessions /\ q[1] = <<>> /\ q[2] = <<>>
         /\ DapRunning(s) => \A A : NoneIn(q, A)
<1>1. s \in Sessions /\ s.handle # "task" /\ s.events = <<>> /\ dapBg = <<>>
  BY DEF DapInv, SessionsTold, NothingComes, Quiet
<1>2. OwnOf(dapBg, i) = <<>>
  BY <1>1 DEF OwnOf
<1>3. q = <<OwnOf(dapBg, i), s.events, s.requests, s.commands>>
  BY DEF LanesOf
<1>4. q[1] = OwnOf(dapBg, i) /\ q[2] = s.events /\ q[3] = s.requests /\ q[4] = s.commands
  BY LaneAt DEF LanesOf
<1>5. ASSUME DapRunning(s), NEW A PROVE NoneIn(q, A)
  <2> DEFINE a == s.requests  b == s.commands
  <2>1. a \in Seq(DapCommands) /\ b \in Seq(DapCommands)
    BY <1>1 DEF Sessions
  <2>2. a \o b = <<>>
    BY <1>5 DEF NothingComes, Quiet
  <2> HIDE DEF a, b
  <2>3. a = <<>> /\ b = <<>>
    BY <2>1, <2>2, ConcatEqualIffEmpty
  <2>4. q[1] = <<>> /\ q[2] = <<>> /\ q[3] = <<>> /\ q[4] = <<>>
    BY <1>1, <1>2, <1>4, <2>3 DEF a, b
  <2>5. \A k \in 1..4 : q[k] = <<>>
    BY <2>4
  <2> QED  BY <2>5 DEF NoneIn, None
<1> QED
  BY <1>1, <1>2, <1>4, <1>5

\* The user toggles a breakpoint.
LEMMA ToggleFits == ASSUME ViewInv, DapInv, NEW line \in Lines, Toggle(line) PROVE ViewInv'
<1>1. UNCHANGED <<dapClient, view, dapBg, early>>
  BY DEF Toggle
<1>2. CASE dapClient = 0
  BY <1>1, <1>2 DEF Toggle, ViewInv, InOrder, LeftAlone, Watched, Silent, ViewFits, Up, DapRunning
<1>3. CASE dapClient # 0
  <2> DEFINE c == [kind |-> "breakpoints", arg |-> breakpoints']
  <2>1. c \in DapCommands /\ c.kind = "breakpoints"
    <3>1. breakpoints' \in SUBSET Lines
      BY DEF Toggle, DapInv, GutterTyped
    <3> QED  BY <3>1 DEF DapCommands, CommandKinds, Args
  <2>2. DapDispatch(c)
    BY <1>3 DEF Toggle
  <2> HIDE DEF c
  <2>3. c \in Things /\ c \notin Shakes /\ c \notin Marks
    BY <2>1, KindsApart, KindTells
  <2>4. ASSUME NEW s \in Sessions, NEW q, NEW p,
            /\ q = LanesOf(dapBg, s, dapClient)
            /\ ViewFits(q, s, view) /\ IsPipe(q) /\ IsPipe(p)
            /\ SameBut({4}, p, LanesOf(dapBg', s, dapClient))
            /\ p[4] = Append(LanesOf(dapBg', s, dapClient)[4], c)
        PROVE ViewFits(p, s, view')
    <3>1. SameBut({4}, p, q) /\ p[4] = Append(q[4], c) /\ 4 \in 1..4
      BY <1>1, <2>4
    <3>2. Alike(p, q)
      BY <2>3, <2>4, <3>1, PlainPut
    <3>3. ViewFits(p, s, view)
      BY <2>4, <3>2, AlikeFits
    <3> QED  BY <1>1, <3>3
  <2> QED  BY <1>1, <2>1, <2>2, <2>3, <2>4, SentFits
<1> QED
  BY <1>2, <1>3

\* The commands of the run panel.
LEMMA PanelFits ==
  ASSUME ViewInv, DapInv, (\E kind \in {"continue", "step"} : Control(kind)) \/ (\E index \in 0..1 : SelectFrame(index))
  PROVE  ViewInv'
<1>0. view \in Views
  BY DEF DapInv, GutterTyped
<1>1. ASSUME NEW c \in DapCommands, DapDispatch(c), ~dropped', ~early', Acts, NEW s, s = sessions[dapClient],
             dapClient # 0, NEW q, q = LanesOf(dapBg, s, dapClient)
      PROVE  ~early /\ DapAccepts /\ \A A : NoneIn(q, A)
  <2>1. NothingComes /\ ~early
    BY <1>1 DEF Acts
  <2>2. DapAccepts /\ DapRunning(s)
    BY <1>1 DEF DapDispatch, DapAccepts
  <2>3. dapClient \in DOMAIN sessions
    BY <1>1 DEF DapInv, SessionsTold
  <2> QED  BY <1>1, <2>1, <2>2, <2>3, NothingThere
<1>2. ASSUME NEW kind \in {"continue", "step"}, Control(kind) PROVE ViewInv'
  <2> DEFINE c == Request(kind)
  <2>1. DapDispatch(c) /\ UNCHANGED <<dapClient, dapBg>> /\ Acts /\ dapClient # 0
    BY <1>2 DEF Control
  <2>2. c \in DapCommands /\ c.kind \in {"continue", "step"}
    <3>1. kind \in CommandKinds
      BY DEF CommandKinds
    <3> QED  BY <3>1, RequestIsCommand
  <2> HIDE DEF c
  <2>3. c \in Things /\ c \notin Shakes
    BY <2>2, KindsApart, KindTells
  <2>4. ASSUME NEW s \in Sessions, NEW q, NEW p,
            /\ s = sessions[dapClient] /\ ~dropped' /\ ~early'
            /\ q = LanesOf(dapBg, s, dapClient)
            /\ ViewFits(q, s, view) /\ IsPipe(q) /\ IsPipe(p)
            /\ SameBut({4}, p, LanesOf(dapBg', s, dapClient))
            /\ p[4] = Append(LanesOf(dapBg', s, dapClient)[4], c)
        PROVE ViewFits(p, s, view')
    <3>1. SameBut({4}, p, q) /\ p[4] = Append(q[4], c)
      BY <2>1, <2>4
    <3>2. DapAccepts /\ \A A : NoneIn(q, A)
      BY <1>1, <2>1, <2>2, <2>4
    <3>3. view'.marker = 0
      BY <1>0, <1>2, <3>2 DEF Control, Views
    <3> QED  BY <2>2, <2>3, <2>4, <3>1, <3>2, <3>3, ControlFits
  <2>5. ~early' => ~early
    BY <2>1 DEF Acts
  <2> QED  BY <2>1, <2>2, <2>3, <2>4, <2>5, SentFits
<1>3. ASSUME NEW index \in 0..1, SelectFrame(index) PROVE ViewInv'
  <2> DEFINE c == [kind |-> "scopes", arg |-> <<view.stop, index>>]
  <2>1. DapDispatch(c) /\ UNCHANGED <<dapClient, dapBg>> /\ Acts /\ view' = [view EXCEPT !.selected = index]
    BY <1>3 DEF SelectFrame
  <2>2. c \in DapCommands /\ c.kind = "scopes" /\ c.arg = <<view.stop, index>> /\ index \in Nat
    BY <1>0 DEF DapCommands, CommandKinds, Args, Frames, Views
  <2> HIDE DEF c
  <2>3. c \in Things /\ c \notin Shakes
    BY <2>2, KindsApart, KindTells
  <2>4. ASSUME NEW s \in Sessions, NEW q, NEW p,
            /\ s = sessions[dapClient] /\ ~dropped' /\ ~early' /\ dapClient # 0
            /\ q = LanesOf(dapBg, s, dapClient)
            /\ ViewFits(q, s, view) /\ IsPipe(q) /\ IsPipe(p)
            /\ SameBut({4}, p, LanesOf(dapBg', s, dapClient))
            /\ p[4] = Append(LanesOf(dapBg', s, dapClient)[4], c)
        PROVE ViewFits(p, s, view')
    <3>1. SameBut({4}, p, q) /\ p[4] = Append(q[4], c)
      BY <2>1, <2>4
    <3>2. DapAccepts /\ \A A : NoneIn(q, A)
      BY <1>1, <2>1, <2>2, <2>4
    <3> QED  BY <1>0, <2>1, <2>2, <2>3, <2>4, <3>1, <3>2, SelectFits
  <2>5. ~early' => ~early
    BY <2>1 DEF Acts
  <2> QED  BY <2>1, <2>2, <2>3, <2>4, <2>5, SentFits
<1> QED
  BY <1>2, <1>3

\* The user ends the session.
LEMMA DapStopFits == ASSUME ViewInv, DapInv, DapStop PROVE ViewInv'
<1> DEFINE n == Len(sessions)
           x == sessions[dapClient]
           h == [x EXCEPT !.handle = "nobody"]
           c == Request("disconnect")
<1>1. /\ sessions \in Seq(Sessions) /\ n \in Nat /\ dapClient \in 1..n /\ dapClient \in DOMAIN sessions
      /\ \A j \in 1..n : InOrder(sessions[j]) /\ sessions[j] \in Sessions
      /\ x \in Sessions
  BY DEF DapInv, SessionsTold, ViewInv, DapStop
<1>2. c \in DapCommands /\ c \in Things /\ c \notin Shakes
  <2>1. c \in DapCommands /\ c.kind = "disconnect"
    BY RequestIsCommand DEF CommandKinds
  <2> HIDE DEF c
  <2> QED  BY <2>1, KindsApart, KindTells
<1> HIDE DEF c
<1>3. /\ h.requests = x.requests /\ h.commands = x.commands /\ h.adapter = x.adapter /\ h.driver = x.driver
      /\ h.configured = x.configured /\ h.stop = x.stop /\ h.handle = "nobody" /\ h \in Sessions
  <2> HIDE DEF x
  <2> QED  BY <1>1 DEF Sessions
<1>x. x = sessions[dapClient] /\ h = [x EXCEPT !.handle = "nobody"]
  OBVIOUS
<1> DEFINE W == Without(dapClient)
<1>4. /\ \A j \in 1..n : W[j] = IF j = dapClient THEN h ELSE sessions[j]
      /\ DOMAIN W = 1..n
  BY <1>1 DEF Without
<1>5. sessions' = [W EXCEPT ![dapClient].commands = IF DapAccepts THEN Append(@, c) ELSE @]
  BY DEF DapStop, c
<1> HIDE DEF W
<1> DEFINE m == IF DapAccepts THEN Append(h.commands, c) ELSE h.commands
           t == [h EXCEPT !.commands = m]
<1>6. sessions' = [W EXCEPT ![dapClient] = t]
  <2>1. W[dapClient] = h
    BY <1>1, <1>4
  <2> HIDE DEF h
  <2> QED  BY <1>5, <2>1
<1>7. DOMAIN sessions' = 1..n /\ \A j \in 1..n : sessions'[j] = IF j = dapClient THEN t ELSE sessions[j]
  BY <1>4, <1>6
<1> HIDE DEF h, x
<1>8. m \in Seq(DapCommands) /\ None(m, Shakes)
  <2>1. h.commands \in Seq(DapCommands) /\ h.commands \in Seq(Things) /\ None(h.commands, Shakes)
    <3>1. h.commands \in Seq(DapCommands)
      BY <1>3 DEF Sessions
    <3>2. None(x.commands, Shakes)
      BY <1>1, <1>x DEF InOrder
    <3> QED  BY <1>3, <3>1, <3>2, KindsApart
  <2>2. Append(h.commands, c) \in Seq(DapCommands) /\ None(Append(h.commands, c), Shakes)
    BY <1>2, <2>1, NoneWithLast
  <2> QED  BY <2>1, <2>2
<1>t. t = [h EXCEPT !.commands = m]
  OBVIOUS
<1> HIDE DEF m, t
<1>9. /\ t.requests = x.requests /\ t.commands = m /\ t.adapter = x.adapter /\ t.driver = x.driver
      /\ t.configured = x.configured /\ t.stop = x.stop /\ t.handle = "nobody" /\ t \in Sessions
  BY <1>3, <1>8, <1>t DEF Sessions
<1>10. InOrder(t)
  <2>1. InOrder(x)
    BY <1>1, <1>x
  <2> QED  BY <1>8, <1>9, <2>1 DEF InOrder, Up, DapRunning
<1>11. Len(sessions') = n /\ \A j \in 1..n : InOrder(sessions'[j])
  <2>1. sessions' \in Seq(Sessions)
    <3>1. sessions' \in [1..n -> Sessions]
      BY <1>1, <1>4, <1>6, <1>7, <1>9
    <3> QED  BY <1>1, <3>1
  <2>2. Len(sessions') = n
    BY <1>1, <1>7, <2>1
  <2> QED  BY <1>1, <1>7, <1>10, <2>2
<1>12. dapClient' = 0 /\ UNCHANGED dapBg /\ view'.marker = 0 /\ (~dropped' => ~dropped) /\ (~early' => ~early)
  <2>1. view \in Views
    BY DEF DapInv, GutterTyped
  <2> QED  BY <2>1 DEF DapStop, Views
<1>13. ASSUME ~dropped', ~early'
       PROVE  /\ \A j \in 1..n : j < n => LeftAlone(LanesOf(dapBg', sessions'[j], j), sessions'[j])
              /\ n # 0 => Watched(LanesOf(dapBg', sessions'[n], n), sessions'[n], view')
  <2>1. dapClient = n /\ ~dropped /\ ~early
    BY <1>1, <1>12, <1>13, ClientIsLast
  <2>2. \A j \in 1..n : j < n => LeftAlone(LanesOf(dapBg, sessions[j], j), sessions[j])
    BY <2>1 DEF ViewInv
  <2>3. \A j \in 1..n : j < n => LeftAlone(LanesOf(dapBg', sessions'[j], j), sessions'[j])
    BY <1>1, <1>7, <1>12, <2>1, <2>2
  <2>4. sessions'[n] = t
    BY <1>1, <1>7, <2>1
  <2>5. Watched(LanesOf(dapBg', t, n), t, view')
    BY <1>9 DEF Watched
  <2> QED  BY <2>3, <2>4, <2>5
<1> QED
  BY <1>11, <1>12, <1>13 DEF ViewInv

\* A session launched: nothing is shown of it, and it begins the handshake.
LEMMA LaunchedWell ==
  ASSUME NEW b, b = <<>>, NEW i, NEW v, v.marker = 0
  PROVE  InOrder(Launched) /\ Watched(LanesOf(b, Launched, i), Launched, v)
<1> DEFINE r == Request("initialize")  e == <<>>  q == <<e, e, <<r>>, e>>
<1>1. r \in DapCommands /\ r.kind = "initialize" /\ r \in Things
  BY RequestIsCommand, KindsApart DEF CommandKinds
<1>2. /\ Launched.requests = <<r>> /\ Launched.commands = e /\ Launched.events = e /\ Launched.handle = "task"
      /\ Launched.adapter = "new" /\ Launched.configured = FALSE
  BY DEF Launched
<1>3. LanesOf(b, Launched, i) = q
  BY <1>2 DEF LanesOf, OwnOf
<1>4. r \notin Marks /\ r \notin Loud /\ r \notin OfKind({"configured"})
  BY <1>1, KindTells DEF OfKind
<1>5. q[1] = e /\ q[2] = e /\ q[3] = <<r>> /\ q[4] = e
  BY LaneAt
<1> HIDE DEF q, r
<1>6. ASSUME NEW A, r \notin A PROVE NoneIn(q, A) /\ Untold(q, A)
  <2>1. None(<<r>>, A) /\ None(e, A)
    BY <1>6 DEF None
  <2>2. \A k \in 1..4 : q[k] = <<r>> \/ q[k] = e
    BY <1>5
  <2> QED  BY <1>5, <2>1, <2>2 DEF NoneIn, Untold
<1>7. InOrder(Launched)
  <2>1. Never(<<r>>, Shakes, Shakes) /\ None(<<r>>, OfKind({"configured"})) /\ None(e, Shakes)
    BY <1>4 DEF Never, None
  <2> HIDE DEF e
  <2> QED  BY <1>2, <2>1 DEF InOrder
<1>8. Silent(q, Launched)
  BY <1>4, <1>6 DEF Silent
<1>9. ViewFits(q, Launched, v)
  BY <1>2, <1>4, <1>6, BeginFits
<1> QED
  BY <1>2, <1>3, <1>7, <1>8, <1>9 DEF Watched

\* A session is launched: those before it are left alone.
LEMMA RunFits == ASSUME ViewInv, DapInv, Run PROVE ViewInv'
<1> DEFINE n == Len(sessions)
<1>1. /\ sessions \in Seq(Sessions) /\ n \in Nat /\ dapClient = 0
      /\ sessions' = Append(sessions, Launched)
      /\ UNCHANGED <<dapClient, view, dapBg, dropped>>
      /\ \A j \in 1..n : InOrder(sessions[j])
  BY DEF Run, DapInv, SessionsTold, ViewInv
<1>2. Launched \in Sessions
  <2> DEFINE r == Request("initialize")  q == <<r>>
  <2>1. r \in DapCommands
    BY RequestIsCommand DEF CommandKinds
  <2>2. q \in Seq(DapCommands)
    BY <2>1
  <2>3. Launched = [driver |-> "running", handle |-> "task", requests |-> q,
   commands |-> <<>>, events |-> <<>>, bridge |-> TRUE, known |-> {}, configured |-> FALSE,
   adapter |-> "new", set |-> {}, stop |-> 0, depth |-> 1, hasty |-> FALSE]
    BY DEF Launched
  <2> HIDE DEF q
  <2>4. {} \in Args /\ <<>> \in Seq(DapCommands) /\ <<>> \in Seq(DapEvents)
    BY DEF Args
  <2> QED  BY <2>2, <2>3, <2>4 DEF Sessions
<1>3. /\ Len(sessions') = n + 1 /\ sessions'[n + 1] = Launched
      /\ \A j \in 1..n : sessions'[j] = sessions[j]
  BY <1>1, <1>2, AppendProperties
<1>4. InOrder(Launched)
  <2> DEFINE b == <<>>
  <2>1. b = <<>> /\ Cleared.marker = 0
    BY DEF Cleared
  <2> QED  BY <2>1, LaunchedWell
<1>5. \A j \in 1..n + 1 : j \in 1..n \/ j = n + 1
  BY <1>1
<1>6. \A j \in 1..n + 1 : InOrder(sessions'[j])
  BY <1>1, <1>3, <1>4, <1>5
<1>7. ASSUME ~dropped', ~early'
      PROVE  /\ dapClient' = 0 => view'.marker = 0
             /\ \A j \in 1..n + 1 :
                  j < n + 1 => LeftAlone(LanesOf(dapBg', sessions'[j], j), sessions'[j])
             /\ Watched(LanesOf(dapBg', sessions'[n + 1], n + 1), sessions'[n + 1], view')
  <2>1. ~dropped /\ ~early /\ NothingComes /\ dapBg = <<>>
    <3>1. ~dropped
      BY <1>1, <1>7
    <3>2. ~early /\ NothingComes
      BY <1>7 DEF Run
    <3>3. dapBg = <<>>
      BY <3>2 DEF NothingComes, Quiet
    <3> QED  BY <3>1, <3>2, <3>3
  <2>2. view.marker = 0
    BY <1>1, <2>1 DEF ViewInv
  <2>3. Watched(LanesOf(dapBg', Launched, n + 1), Launched, view')
    BY <1>1, <2>1, <2>2, LaunchedWell
  <2>4. ASSUME NEW j \in 1..n PROVE LeftAlone(LanesOf(dapBg, sessions[j], j), sessions[j])
    <3> DEFINE s == sessions[j]  q == LanesOf(dapBg, s, j)
    <3>1. j \in DOMAIN sessions /\ s.handle # "app" /\ j # 0
      BY <1>1 DEF DapInv, SessionsTold
    <3>2. /\ s.handle # "task" /\ s.events = <<>> /\ s \in Sessions /\ q[1] = <<>> /\ q[2] = <<>>
          /\ DapRunning(s) => \A A : NoneIn(q, A)
      BY <2>1, <3>1, NothingThere
    <3>3. j < n => LeftAlone(q, s)
      BY <2>1 DEF ViewInv
    <3>4. j = n => Watched(q, s, view)
      BY <2>1, <3>1 DEF ViewInv
    <3>q. s = sessions[j] /\ q = LanesOf(dapBg, s, j)
      OBVIOUS
    <3> HIDE DEF s, q
    <3>5. j = n => LeftAlone(q, s)
      <4> SUFFICES ASSUME Watched(q, s, view) PROVE LeftAlone(q, s)
        BY <3>4
      <4>1. \A A : None(q[1], A) /\ None(q[2], A)
        BY <3>2 DEF None
      <4>2. s.handle # "bg"
        BY <4>1 DEF Watched
      <4>3. s.handle = "nobody"
        BY <3>1, <3>2, <4>2 DEF Sessions
      <4>4. Silent(q, s)
        BY <3>2, <4>1 DEF Silent, Untold
      <4> QED  BY <4>3, <4>4 DEF LeftAlone
    <3>6. j < n \/ j = n
      BY <1>1
    <3> QED  BY <3>3, <3>5, <3>6, <3>q
  <2>5. \A j \in 1..n : LeftAlone(LanesOf(dapBg', sessions'[j], j), sessions'[j])
    BY <1>1, <1>3, <2>4
  <2>6. \A j \in 1..n + 1 : j < n + 1 => j \in 1..n
    BY <1>1
  <2> QED  BY <1>1, <1>3, <2>2, <2>3, <2>5, <2>6
<1> QED
  BY <1>3, <1>6, <1>7 DEF ViewInv

\* One session moves, and the channel hears of it or not.
LEMMA OneMoves ==
  ASSUME ViewInv, DapInv, UNCHANGED <<dapClient, view, dropped, early>>, NEW i \in DOMAIN sessions,
         NEW s, s = sessions[i], NEW t, sessions' = [sessions EXCEPT ![i] = t], InOrder(t),
         \/ UNCHANGED dapBg
         \/ \E r \in DapReports : r.session = i /\ dapBg' = Append(dapBg, r),
         LeftAlone(LanesOf(dapBg, s, i), s) => LeftAlone(LanesOf(dapBg', t, i), t),
         Watched(LanesOf(dapBg, s, i), s, view) => Watched(LanesOf(dapBg', t, i), t, view)
  PROVE  ViewInv'
<1> DEFINE n == Len(sessions)
<1>1. sessions \in Seq(Sessions) /\ i \in 1..n /\ n \in Nat /\ dapBg \in Seq(DapReports)
  BY DEF DapInv, SessionsTold, ReadyOnce
<1>2. /\ Len(sessions') = n /\ sessions'[i] = t
      /\ \A j \in 1..n : j # i => sessions'[j] = sessions[j]
  BY <1>1
<1>3. \A j \in 1..n : InOrder(sessions'[j])
  BY <1>2 DEF ViewInv
<1>4. ASSUME NEW j \in 1..n, j # i
      PROVE  /\ LeftAlone(LanesOf(dapBg, sessions[j], j), sessions[j])
                  => LeftAlone(LanesOf(dapBg', sessions[j], j), sessions[j])
             /\ Watched(LanesOf(dapBg, sessions[j], j), sessions[j], view)
                  => Watched(LanesOf(dapBg', sessions[j], j), sessions[j], view)
  <2>1. CASE UNCHANGED dapBg
    BY <2>1
  <2>2. CASE \E r \in DapReports : r.session = i /\ dapBg' = Append(dapBg, r)
    <3>1. PICK r \in DapReports : r.session = i /\ dapBg' = Append(dapBg, r)
      BY <2>2
    <3>2. sessions[j] \in Sessions /\ r.session # j
      BY <1>1, <1>4, <3>1
    <3> QED  BY <1>1, <3>1, <3>2, LanesHear
  <2> QED  BY <2>1, <2>2
<1>5. ASSUME ~dropped, ~early
      PROVE  /\ dapClient = 0 => view.marker = 0
             /\ \A j \in 1..n : j < n => LeftAlone(LanesOf(dapBg', sessions'[j], j), sessions'[j])
             /\ n # 0 => Watched(LanesOf(dapBg', sessions'[n], n), sessions'[n], view)
  <2>1. /\ dapClient = 0 => view.marker = 0
        /\ \A j \in 1..n : j < n => LeftAlone(LanesOf(dapBg, sessions[j], j), sessions[j])
        /\ n # 0 => Watched(LanesOf(dapBg, sessions[n], n), sessions[n], view)
    BY <1>5 DEF ViewInv
  <2>2. ASSUME NEW j \in 1..n, j < n PROVE LeftAlone(LanesOf(dapBg', sessions'[j], j), sessions'[j])
    <3>1. CASE j = i
      BY <1>2, <2>1, <2>2, <3>1
    <3>2. CASE j # i
      BY <1>2, <1>4, <2>1, <2>2, <3>2
    <3> QED  BY <3>1, <3>2
  <2>3. Watched(LanesOf(dapBg', sessions'[n], n), sessions'[n], view)
    <3>0. n \in 1..n
      BY <1>1
    <3>1. CASE n = i
      BY <1>2, <2>1, <3>0, <3>1
    <3>2. CASE n # i
      BY <1>2, <1>4, <2>1, <3>0, <3>2
    <3> QED  BY <3>1, <3>2
  <2> QED  BY <2>1, <2>2, <2>3
<1> QED
  BY <1>1, <1>2, <1>3, <1>5 DEF ViewInv

\* The launching task hands its client over, or nobody gets it.
LEMMA HandOverFits == ASSUME ViewInv, DapInv, NEW i \in DOMAIN sessions, DapHandOver(i) PROVE ViewInv'
<1> DEFINE s == sessions[i]
<1>1. s \in Sessions /\ InOrder(s) /\ dapBg \in Seq(DapReports) /\ s.handle = "task" /\ i \in Nat
  BY DEF DapInv, SessionsTold, ReadyOnce, ViewInv, DapHandOver
<1>2. UNCHANGED <<dapClient, view, dropped, early>>
  BY DEF DapHandOver
<1>s. s = sessions[i]
  OBVIOUS
<1>3. ASSUME NEW h \in {"bg", "nobody"}, NEW t, t = [s EXCEPT !.handle = h]
      PROVE  /\ t.requests = s.requests /\ t.commands = s.commands /\ t.adapter = s.adapter /\ t.driver = s.driver
             /\ t.configured = s.configured /\ t.stop = s.stop /\ t.depth = s.depth /\ t.handle = h
             /\ t.events = s.events /\ t.bridge = s.bridge /\ InOrder(t) /\ ~LeftAlone(LanesOf(dapBg, s, i), s)
  <2> HIDE DEF s
  <2>1. /\ t.requests = s.requests /\ t.commands = s.commands /\ t.adapter = s.adapter /\ t.driver = s.driver
        /\ t.configured = s.configured /\ t.stop = s.stop /\ t.depth = s.depth /\ t.handle = h
        /\ t.events = s.events /\ t.bridge = s.bridge
    BY <1>1, <1>3 DEF Sessions
  <2>2. InOrder(t)
    BY <1>1, <2>1 DEF InOrder, Up, DapRunning
  <2>3. ~LeftAlone(LanesOf(dapBg, s, i), s)
    BY <1>1 DEF LeftAlone
  <2> QED  BY <2>1, <2>2, <2>3
<1>4. CASE Len(dapBg) < DapBg
  <2> DEFINE r == [session |-> i, event |-> DapReady]
             t == [s EXCEPT !.handle = "bg"]
             q == LanesOf(dapBg, s, i)
             p == LanesOf(Append(dapBg, r), t, i)
  <2>1. dapBg' = Append(dapBg, r) /\ sessions' = [sessions EXCEPT ![i] = t]
    BY <1>4 DEF DapHandOver
  <2>2. r \in DapReports /\ r.session = i /\ r.event = DapReady
    BY <1>1 DEF DapReports
  <2>3. /\ t.requests = s.requests /\ t.commands = s.commands /\ t.adapter = s.adapter /\ t.driver = s.driver
        /\ t.configured = s.configured /\ t.stop = s.stop /\ t.depth = s.depth /\ t.handle = "bg"
        /\ t.events = s.events /\ t.bridge = s.bridge /\ InOrder(t) /\ ~LeftAlone(q, s)
    BY <1>3
  <2> HIDE DEF r
  <2>4. OwnOf(Append(dapBg, r), i) = Append(OwnOf(dapBg, i), DapReady)
    BY <1>1, <2>2, OwnPut
  <2>t. /\ t = [s EXCEPT !.handle = "bg"] /\ q = LanesOf(dapBg, s, i) /\ p = LanesOf(Append(dapBg, r), t, i)
        /\ q = <<OwnOf(dapBg, i), s.events, s.requests, s.commands>>
        /\ p = <<OwnOf(Append(dapBg, r), i), s.events, s.requests, s.commands>>
    BY <2>3 DEF LanesOf
  <2> DEFINE o == OwnOf(dapBg, i)
             y == Append(o, DapReady)
             e == s.events
             f == s.requests
             d == s.commands
             w == <<o, e, f, d>>
             z == <<y, e, f, d>>
  <2>5. q = w /\ p = z
    BY <2>4, <2>t
  <2>6. SameBut({1}, z, w) /\ z[1] = y /\ w[1] = o
    <3> HIDE DEF o, y, e, f, d
    <3> QED  BY LaneAt
  <2> HIDE DEF q, p, s, t, w, z
  <2>7. IsPipe(q) /\ SameBut({1}, p, q) /\ p[1] = Append(q[1], DapReady) /\ 1 \in 1..4
    <3>1. IsPipe(q)
      BY <1>1, <2>t, LanesArePipe
    <3>2. SameBut({1}, p, q) /\ p[1] = y /\ q[1] = o
      BY <2>5, <2>6
    <3> QED  BY <3>1, <3>2
  <2>8. DapReady \in Things /\ DapReady \notin Marks /\ DapReady \in Readies
    BY KindsApart
  <2>9. IsPipe(p) /\ Alike(p, q)
    BY <2>7, <2>8, PlainPut
  <2>10. ~None(p[1], Readies)
    <3>1. q[1] \in Seq(Things)
      BY <2>7 DEF IsPipe
    <3> QED  BY <2>7, <2>8, <3>1, NoneWithLast
  <2>11. Silent(q, s) => Silent(p, t)
    <3>1. Loud \in SUBSET Marks
      BY AllMarks
    <3> QED  BY <2>3, <2>9, <3>1 DEF Alike, Silent, DapRunning
  <2>12. ViewFits(q, s, view) => ViewFits(p, t, view)
    BY <2>3, <2>9, AlikeFits
  <2>13. Watched(q, s, view) => Watched(p, t, view)
    BY <1>1, <2>3, <2>10, <2>11, <2>12 DEF Watched, Up, DapRunning
  <2>14. \E a \in DapReports : a.session = i /\ dapBg' = Append(dapBg, a)
    BY <2>1, <2>2
  <2>15. Watched(LanesOf(dapBg, s, i), s, view) => Watched(LanesOf(dapBg', t, i), t, view)
    BY <2>1, <2>13, <2>t
  <2>16. InOrder(t) /\ ~LeftAlone(LanesOf(dapBg, s, i), s)
    BY <2>3, <2>t
  <2> QED  BY <1>2, <1>s, <2>1, <2>14, <2>15, <2>16, OneMoves
<1>5. CASE ~(Len(dapBg) < DapBg)
  <2> DEFINE t == [s EXCEPT !.handle = "nobody"]
  <2>1. UNCHANGED dapBg /\ sessions' = [sessions EXCEPT ![i] = t]
    BY <1>5 DEF DapHandOver
  <2>2. t.handle = "nobody" /\ InOrder(t) /\ ~LeftAlone(LanesOf(dapBg, s, i), s)
    BY <1>3
  <2> HIDE DEF t, s
  <2>3. Watched(LanesOf(dapBg', t, i), t, view)
    BY <2>2 DEF Watched
  <2> QED  BY <1>2, <1>s, <2>1, <2>2, <2>3, OneMoves
<1> QED
  BY <1>4, <1>5

\* The bridge passes an event on, or gives up.
LEMMA BridgeFits == ASSUME ViewInv, DapInv, NEW i \in DOMAIN sessions, DapBridge(i) PROVE ViewInv'
<1> DEFINE s == sessions[i]
           x == Head(s.events)
<1>1. s \in Sessions /\ InOrder(s) /\ dapBg \in Seq(DapReports) /\ s.events # <<>> /\ s.bridge /\ i \in Nat
  BY DEF DapInv, SessionsTold, ReadyOnce, ViewInv, DapBridge
<1>2. UNCHANGED <<dapClient, view, dropped, early>>
  BY DEF DapBridge
<1>s. s = sessions[i] /\ x = Head(s.events)
  OBVIOUS
<1>3. s.events \in Seq(DapEvents) /\ x \in DapEvents /\ Tail(s.events) \in Seq(DapEvents)
  <2> HIDE DEF s
  <2>1. s.events \in Seq(DapEvents)
    BY <1>1 DEF Sessions
  <2> QED  BY <1>1, <2>1
<1>4. CASE Len(dapBg) < DapBg
  <2> DEFINE r == [session |-> i, event |-> x]
             m == Tail(s.events)
             t == [s EXCEPT !.events = m]
             q == LanesOf(dapBg, s, i)
             p == LanesOf(Append(dapBg, r), t, i)
  <2>1. dapBg' = Append(dapBg, r) /\ sessions' = [sessions EXCEPT ![i] = t]
    BY <1>4 DEF DapBridge
  <2> HIDE DEF s, x
  <2>2. r \in DapReports /\ r.session = i /\ r.event = x
    BY <1>1, <1>3 DEF DapReports
  <2>m. m \in Seq(DapEvents) /\ m = Tail(s.events) /\ t = [s EXCEPT !.events = m]
    BY <1>3
  <2> HIDE DEF r, m, t
  <2>3. /\ t.requests = s.requests /\ t.commands = s.commands /\ t.adapter = s.adapter /\ t.driver = s.driver
        /\ t.configured = s.configured /\ t.stop = s.stop /\ t.depth = s.depth /\ t.handle = s.handle
        /\ t.events = m /\ t.bridge = s.bridge
    BY <1>1, <2>m DEF Sessions
  <2>4. InOrder(t)
    BY <1>1, <2>3 DEF InOrder, Up, DapRunning
  <2>5. OwnOf(Append(dapBg, r), i) = Append(OwnOf(dapBg, i), x)
    BY <1>1, <2>2, OwnPut
  <2> DEFINE o == OwnOf(dapBg, i)
             y == Append(o, x)
             e == s.events
             f == s.requests
             d == s.commands
             w == <<o, e, f, d>>
             z == <<y, m, f, d>>
  <2>6. q = w /\ p = z
    BY <2>3, <2>5 DEF LanesOf
  <2>7. SameBut({1, 2}, z, w) /\ z[1] = y /\ w[1] = o /\ w[2] = e /\ z[2] = m
    <3> HIDE DEF o, y, e, f, d
    <3> QED  BY LaneAt
  <2>8. IsPipe(q)
    BY <1>1, LanesArePipe
  <2>t. q = LanesOf(dapBg, s, i) /\ p = LanesOf(Append(dapBg, r), t, i)
    OBVIOUS
  <2>9. /\ SameBut({1, 2}, p, q) /\ q[2] # <<>> /\ x = Head(q[2]) /\ p[1] = Append(q[1], x) /\ p[2] = Tail(q[2])
        /\ 2 = 1 + 1 /\ 1 \in {1, 3} /\ 2 \in {2, 4} /\ 1 \in 1..4
    <3> HIDE DEF q, p, w, z
    <3>1. SameBut({1, 2}, p, q) /\ q[2] = s.events /\ p[1] = y /\ q[1] = o /\ p[2] = m
      BY <2>6, <2>7
    <3> QED  BY <1>1, <1>s, <2>m, <3>1
  <2> HIDE DEF q, p
  <2>10. IsPipe(p) /\ Alike(p, q)
    BY <2>8, <2>9, SamePassed
  <2>11. ~None(q[1], Readies) => ~None(p[1], Readies)
    <3>1. q[1] \in Seq(Things) /\ x \in Things
      BY <1>3, <2>8, <2>9, KindsApart DEF IsPipe
    <3> QED  BY <2>9, <3>1, NoneWithLast
  <2>12. Silent(q, s) => Silent(p, t)
    <3>1. Loud \in SUBSET Marks
      BY AllMarks
    <3> QED  BY <2>3, <2>10, <3>1 DEF Alike, Silent, DapRunning
  <2>13. ViewFits(q, s, view) => ViewFits(p, t, view)
    BY <2>3, <2>10, AlikeFits
  <2>14. /\ Watched(q, s, view) => Watched(p, t, view)
         /\ LeftAlone(q, s) => LeftAlone(p, t)
    BY <2>3, <2>11, <2>12, <2>13 DEF Watched, Up, DapRunning, LeftAlone
  <2> QED  BY <1>2, <1>s, <2>1, <2>2, <2>4, <2>14, <2>t, OneMoves
<1>5. CASE ~(Len(dapBg) < DapBg)
  <2> DEFINE b == [s EXCEPT !.bridge = FALSE]
             t == [b EXCEPT !.events = <<>>]
             q == LanesOf(dapBg, s, i)
             p == LanesOf(dapBg, t, i)
  <2>1. UNCHANGED dapBg /\ sessions' = [sessions EXCEPT ![i].bridge = FALSE, ![i].events = <<>>]
    BY <1>5 DEF DapBridge
  <2>2. sessions' = [sessions EXCEPT ![i] = t]
    <3> DEFINE m == [sessions EXCEPT ![i].bridge = FALSE]
    <3>0. sessions \in Seq(Sessions) /\ i \in 1..Len(sessions)
      BY DEF DapInv, SessionsTold
    <3>1. m \in Seq(Sessions) /\ m[i] = b /\ m = [sessions EXCEPT ![i] = b]
      <4>1. b \in Sessions
        BY <1>1 DEF Sessions
      <4>2. m = [sessions EXCEPT ![i] = b]
        OBVIOUS
      <4> HIDE DEF m, b
      <4> QED  BY <3>0, <4>1, <4>2, ExceptSeq
    <3>2. sessions' = [m EXCEPT ![i].events = <<>>]
      BY <2>1
    <3> HIDE DEF m, b
    <3>3. sessions' = [m EXCEPT ![i] = [b EXCEPT !.events = <<>>]]
      BY <3>1, <3>2
    <3>4. [[sessions EXCEPT ![i] = b] EXCEPT ![i] = t] = [sessions EXCEPT ![i] = t]
      <4> HIDE DEF t
      <4> QED  OBVIOUS
    <3> QED  BY <3>1, <3>3, <3>4
  <2> HIDE DEF s
  <2>3. /\ t.requests = s.requests /\ t.commands = s.commands /\ t.adapter = s.adapter /\ t.driver = s.driver
        /\ t.configured = s.configured /\ t.stop = s.stop /\ t.depth = s.depth /\ t.handle = s.handle
        /\ t.events = <<>> /\ t.bridge = FALSE
    BY <1>1 DEF Sessions
  <2>t. q = LanesOf(dapBg, s, i) /\ p = LanesOf(dapBg, t, i)
    OBVIOUS
  <2> HIDE DEF t
  <2>4. InOrder(t)
    BY <1>1, <2>3 DEF InOrder, Up, DapRunning
  <2>5. q[1] = p[1] /\ p[2] = <<>> /\ q[3] = p[3] /\ q[4] = p[4]
    BY <2>3, LaneAt DEF LanesOf
  <2> HIDE DEF q, p
  <2>6. (Untold(q, Loud) => Untold(p, Loud)) /\ (NoneIn(q, Loud) => NoneIn(p, Loud))
    <3>1. None(p[2], Loud)
      BY <2>5 DEF None
    <3>2. \A k \in 1..4 : k = 1 \/ k = 2 \/ k = 3 \/ k = 4
      OBVIOUS
    <3> QED  BY <2>5, <3>1, <3>2 DEF Untold, NoneIn
  <2>7. Silent(q, s) => Silent(p, t)
    BY <2>3, <2>6 DEF Silent, DapRunning
  <2>8. /\ Watched(q, s, view) => Watched(p, t, view)
        /\ LeftAlone(q, s) => LeftAlone(p, t)
    BY <2>3, <2>5, <2>7 DEF Watched, LeftAlone
  <2> QED  BY <1>2, <1>s, <2>1, <2>2, <2>4, <2>8, <2>t, OneMoves
<1> QED
  BY <1>4, <1>5

\* What the channel holds first, while nothing was lost and the user waits: the events of a
\* stop are of the session launched last, and of no client not yet there.
LEMMA FirstTold ==
  ASSUME ViewInv, DapInv, dapBg # <<>>, NEW i, i = Head(dapBg).session, NEW e, e = Head(dapBg).event
  PROVE  /\ i \in 1..Len(sessions) /\ Len(sessions) \in Nat /\ e \in DapEvents \cup {DapReady} /\ e \in Things
         /\ dapBg \in Seq(DapReports) /\ sessions \in Seq(Sessions) /\ Tail(dapBg) \in Seq(DapReports)
         /\ e.kind = "ready" => sessions[i].handle = "bg"
         /\ ~dropped /\ ~early =>
              /\ e \in Loud => i = Len(sessions) /\ sessions[i].handle \notin {"task", "bg"}
              /\ e.kind = "ready" => i = Len(sessions) /\ dapClient = 0
<1> DEFINE n == Len(sessions)  s == sessions[i]  q == LanesOf(dapBg, s, i)  p == LanesOf(Tail(dapBg), s, i)
<1>1. dapBg \in Seq(DapReports) /\ sessions \in Seq(Sessions) /\ n \in Nat
  BY DEF DapInv, SessionsTold, ReadyOnce
<1>2. Head(dapBg) \in DapReports /\ Tail(dapBg) \in Seq(DapReports) /\ Head(dapBg) = dapBg[1] /\ 1 \in 1..Len(dapBg)
  BY <1>1
<1>3. i \in 1..n /\ (e.kind = "ready" => s.handle = "bg")
  BY <1>2 DEF DapInv, ReadyOnce
<1>4. e \in DapEvents \cup {DapReady} /\ e \in Things
  BY <1>2, KindsApart DEF DapReports
<1>5. s \in Sessions
  BY <1>1, <1>3
<1>6. Silent(q, s) => e \notin Loud
  <2>1. Silent(q, s) => Head(q[1]) \notin Loud
    BY <1>1, <1>5, LanesOff
  <2>2. Head(q[1]) = e
    <3>1. Head(q[1]) = IF Head(dapBg).session = i THEN Head(dapBg).event ELSE DapNote
      BY <1>1, <1>5, LanesOff
    <3> QED  BY <3>1
  <2> QED  BY <2>1, <2>2
<1>7. ASSUME ~dropped, ~early
      PROVE  /\ e \in Loud => i = n /\ s.handle \notin {"task", "bg"}
             /\ e.kind = "ready" => i = n /\ dapClient = 0
  <2>1. i < n => LeftAlone(q, s)
    BY <1>3, <1>7 DEF ViewInv
  <2>2. i = n => Watched(q, s, view)
    BY <1>3, <1>7 DEF ViewInv
  <2>3. i < n \/ i = n
    BY <1>3
  <2>4. s.handle = "bg" => i = n /\ dapClient = 0
    <3>1. s.handle = "bg" => i = n
      BY <2>1, <2>3 DEF LeftAlone
    <3>2. dapClient # 0 => dapClient = n /\ sessions[dapClient].handle = "app"
      BY <1>7, ClientIsLast
    <3> QED  BY <3>1, <3>2
  <2>5. e \in Loud => ~Silent(q, s)
    BY <1>6
  <2>6. e \in Loud => i = n
    BY <2>1, <2>3, <2>5 DEF LeftAlone
  <2>7. e \in Loud => s.handle \notin {"task", "bg"}
    BY <2>2, <2>5, <2>6 DEF Watched
  <2> QED  BY <1>3, <2>4, <2>6, <2>7
<1> QED
  BY <1>1, <1>2, <1>3, <1>4, <1>7

\* An event that makes the editor send a command.
LEMMA ToldFits ==
  ASSUME ViewInv, DapInv, dapBg # <<>>, dapBg' = Tail(dapBg), UNCHANGED <<early, dapClient>>, NEW e, e = Head(dapBg).event,
         \/ /\ e.kind = "stopped"
            /\ view' = [view EXCEPT !.selected = 0]
            /\ DapDispatch(Request("stack"))
         \/ e.kind = "stack" /\ StackArrives(e.arg, e.depth)
         \/ /\ e.kind = "scopes"
            /\ DapDispatch([kind |-> "variables", arg |-> e.arg])
            /\ UNCHANGED view
  PROVE  ViewInv'
<1> DEFINE i == Head(dapBg).session
<1>1. /\ e \in DapEvents \cup {DapReady} /\ e \in Things /\ dapBg \in Seq(DapReports)
      /\ ~dropped /\ ~early /\ e \in Loud => i = Len(sessions)
  BY FirstTold
<1>2. view \in Views
  BY DEF DapInv, GutterTyped
<1>3. e.kind \in {"stack", "scopes"} => e \in Loud /\ e.arg \in Args
  BY <1>1, KindTells DEF DapEvents, StackEvents, ArgEvents, PlainEvents, DapReady, Args
<1>4. ASSUME NEW s \in Sessions, s = sessions[dapClient], ~dropped, ~early, dapClient # 0, NEW q, q = LanesOf(dapBg, s, dapClient),
             NEW r, r = LanesOf(dapBg', s, dapClient)
      PROVE  /\ q[1] # <<>> /\ SameBut({1}, r, q) /\ r[1] = Tail(q[1]) /\ s.stop \in Nat
             /\ Head(q[1]) = DapNote \/ Head(q[1]) = e
             /\ e \in Loud => Head(q[1]) = e
  <2> DEFINE t == Tail(dapBg)  m == dapClient
  <2>1. r = LanesOf(t, s, m) /\ q = LanesOf(dapBg, s, m)
    BY <1>4
  <2>2. e \in Loud => i = m
    BY <1>1, <1>4, ClientIsLast
  <2>3. s.stop \in Nat
    BY <1>4 DEF Sessions
  <2>4. q[1] # <<>> /\ SameBut({1}, r, q) /\ r[1] = Tail(q[1])
    BY <1>1, <2>1, LanesOff
  <2>5. Head(q[1]) = IF i = m THEN e ELSE DapNote
    <3>1. Head(q[1]) = IF Head(dapBg).session = m THEN Head(dapBg).event ELSE DapNote
      BY <1>1, <2>1, LanesOff
    <3> QED  BY <3>1
  <2> QED  BY <2>2, <2>3, <2>4, <2>5
<1>5. CASE e.kind = "stopped" /\ view' = [view EXCEPT !.selected = 0] /\ DapDispatch(Request("stack"))
  <2> DEFINE c == Request("stack")
  <2>1. c \in DapCommands /\ c.kind = "stack"
    BY RequestIsCommand DEF CommandKinds
  <2>2. DapDispatch(c)
    BY <1>5
  <2> HIDE DEF c
  <2>3. c \in Things /\ c \notin Shakes
    BY <2>1, KindsApart, KindTells
  <2>4. e \notin Loud /\ DapNote \notin Loud
    <3>1. DapNote \in Things /\ DapNote.kind = "note"
      BY KindsApart DEF DapNote
    <3> QED  BY <1>1, <1>5, <3>1, KindTells
  <2>5. ASSUME NEW s \in Sessions, NEW q, NEW p,
            /\ s = sessions[dapClient] /\ ~dropped /\ ~dropped' /\ ~early' /\ dapClient # 0
            /\ q = LanesOf(dapBg, s, dapClient)
            /\ ViewFits(q, s, view) /\ IsPipe(q) /\ IsPipe(p)
            /\ SameBut({4}, p, LanesOf(dapBg', s, dapClient))
            /\ p[4] = Append(LanesOf(dapBg', s, dapClient)[4], c)
        PROVE ViewFits(p, s, view')
    <3> DEFINE r == LanesOf(dapBg', s, dapClient)
    <3>1. /\ q[1] # <<>> /\ SameBut({1}, r, q) /\ r[1] = Tail(q[1]) /\ s.stop \in Nat
          /\ Head(q[1]) = DapNote \/ Head(q[1]) = e
      BY <1>4, <2>5
    <3>2. SameBut({4}, p, r) /\ p[4] = Append(r[4], c) /\ IsPipe(q) /\ ViewFits(q, s, view)
      BY <2>5
    <3> HIDE DEF r
    <3>3. Head(q[1]) \notin Loud
      BY <2>4, <3>1
    <3>4. ViewFits(p, s, [view EXCEPT !.selected = 0])
      BY <1>2, <2>1, <2>3, <3>1, <3>2, <3>3, StoppedFits
    <3> QED  BY <1>5, <3>4
  <2> QED  BY <2>1, <2>2, <2>3, <2>5, SentFits
<1>6. CASE e.kind = "stack" /\ StackArrives(e.arg, e.depth)
  <2> DEFINE c == [kind |-> "scopes", arg |-> e.arg]
  <2>1. c \in DapCommands /\ c.kind = "scopes" /\ c.arg = e.arg
    BY <1>3, <1>6 DEF DapCommands, CommandKinds
  <2>2. DapDispatch(c)
    BY <1>6 DEF StackArrives
  <2> HIDE DEF c
  <2>3. c \in Things /\ c \notin Shakes
    BY <2>1, KindsApart, KindTells
  <2>4. view' = [view EXCEPT !.marker = c.arg[1], !.stop = c.arg[1], !.frames = e.depth,
                             !.selected = IF @ >= e.depth THEN 0 ELSE @]
    BY <1>6, <2>1 DEF StackArrives
  <2>5. ASSUME NEW s \in Sessions, NEW q, NEW p,
            /\ s = sessions[dapClient] /\ ~dropped /\ ~dropped' /\ ~early' /\ dapClient # 0
            /\ q = LanesOf(dapBg, s, dapClient)
            /\ ViewFits(q, s, view) /\ IsPipe(q) /\ IsPipe(p)
            /\ SameBut({4}, p, LanesOf(dapBg', s, dapClient))
            /\ p[4] = Append(LanesOf(dapBg', s, dapClient)[4], c)
        PROVE ViewFits(p, s, view')
    <3> DEFINE r == LanesOf(dapBg', s, dapClient)
    <3>1. /\ q[1] # <<>> /\ SameBut({1}, r, q) /\ r[1] = Tail(q[1]) /\ s.stop \in Nat
          /\ Head(q[1]) = e
      BY <1>3, <1>4, <1>6, <2>5
    <3>2. SameBut({4}, p, r) /\ p[4] = Append(r[4], c) /\ IsPipe(q) /\ ViewFits(q, s, view)
      BY <2>5
    <3> HIDE DEF r
    <3> DEFINE w == view'
    <3>3. w = [view EXCEPT !.marker = c.arg[1], !.stop = c.arg[1], !.frames = Head(q[1]).depth,
                           !.selected = IF @ >= Head(q[1]).depth THEN 0 ELSE @]
      BY <2>4, <3>1
    <3>4. Head(q[1]).kind = "stack" /\ c.arg = Head(q[1]).arg
      BY <1>6, <2>1, <3>1
    <3> HIDE DEF w
    <3>5. ViewFits(p, s, w)
      BY <1>2, <2>1, <2>3, <3>1, <3>2, <3>3, <3>4, StackFits
    <3> QED  BY <3>5 DEF w
  <2> QED  BY <2>1, <2>2, <2>3, <2>5, SentFits
<1>7. CASE e.kind = "scopes" /\ DapDispatch([kind |-> "variables", arg |-> e.arg]) /\ UNCHANGED view
  <2> DEFINE c == [kind |-> "variables", arg |-> e.arg]
  <2>1. c \in DapCommands /\ c.kind = "variables" /\ c.arg = e.arg
    BY <1>3, <1>7 DEF DapCommands, CommandKinds
  <2>2. DapDispatch(c)
    BY <1>7
  <2> HIDE DEF c
  <2>3. c \in Things /\ c \notin Shakes
    BY <2>1, KindsApart, KindTells
  <2>5. ASSUME NEW s \in Sessions, NEW q, NEW p,
            /\ s = sessions[dapClient] /\ ~dropped /\ ~dropped' /\ ~early' /\ dapClient # 0
            /\ q = LanesOf(dapBg, s, dapClient)
            /\ ViewFits(q, s, view) /\ IsPipe(q) /\ IsPipe(p)
            /\ SameBut({4}, p, LanesOf(dapBg', s, dapClient))
            /\ p[4] = Append(LanesOf(dapBg', s, dapClient)[4], c)
        PROVE ViewFits(p, s, view')
    <3> DEFINE r == LanesOf(dapBg', s, dapClient)
    <3>1. /\ q[1] # <<>> /\ SameBut({1}, r, q) /\ r[1] = Tail(q[1]) /\ s.stop \in Nat
          /\ Head(q[1]) = e
      BY <1>3, <1>4, <1>7, <2>5
    <3>2. SameBut({4}, p, r) /\ p[4] = Append(r[4], c) /\ IsPipe(q) /\ ViewFits(q, s, view)
      BY <2>5
    <3> HIDE DEF r
    <3>3. ViewFits(p, s, view)
      BY <1>7, <2>1, <2>3, <3>1, <3>2, ScopesFits
    <3> QED  BY <1>7, <3>3
  <2> QED  BY <2>1, <2>2, <2>3, <2>5, SentFits
<1> QED
  BY <1>5, <1>6, <1>7

\* An event of which only the view hears.
LEMMA HeardFits ==
  ASSUME ViewInv, DapInv, dapBg # <<>>, dapBg' = Tail(dapBg), NEW e, e = Head(dapBg).event,
         UNCHANGED <<early, dapClient, sessions, dropped>>,
         \/ e.kind = "variables" /\ view' = [view EXCEPT !.vars = e.arg]
         \/ e.kind = "continued" /\ view' = Cleared
         \/ e.kind = "note" /\ UNCHANGED view
  PROVE  ViewInv'
<1> DEFINE i == Head(dapBg).session
           n == Len(sessions)
<1>1. /\ i \in 1..n /\ n \in Nat /\ e \in Things /\ dapBg \in Seq(DapReports) /\ sessions \in Seq(Sessions)
      /\ ~dropped /\ ~early => (e \in Loud => i = n /\ sessions[i].handle \notin {"task", "bg"})
  BY FirstTold
<1>2. view \in Views
  BY DEF DapInv, GutterTyped
<1>3. /\ e.kind \in {"variables", "continued"} => e \in Loud
      /\ e \notin Readies /\ (e.kind = "note" => e \notin Marks)
  BY <1>1, KindTells
<1>4. DapNote \in Things /\ DapNote \notin Marks /\ DapNote \notin Loud /\ DapNote \notin Readies
  <2>1. DapNote \in Things /\ DapNote.kind = "note"
    BY KindsApart DEF DapNote
  <2> QED  BY <2>1, KindTells
<1>5. \A j \in 1..n : InOrder(sessions'[j])
  BY DEF ViewInv
<1>6. ASSUME ~dropped, ~early
      PROVE  /\ dapClient = 0 => view'.marker = 0
             /\ \A j \in 1..n : j < n => LeftAlone(LanesOf(dapBg', sessions[j], j), sessions[j])
             /\ n # 0 => Watched(LanesOf(dapBg', sessions[n], n), sessions[n], view')
  <2>1. dapClient = 0 => view.marker = 0
    BY <1>6 DEF ViewInv
  <2>2. view'.marker \in {view.marker, 0}
    BY <1>2 DEF Cleared, Views
  <2>3. ASSUME NEW j \in 1..n, j < n PROVE LeftAlone(LanesOf(dapBg', sessions[j], j), sessions[j])
    <3>1. LeftAlone(LanesOf(dapBg, sessions[j], j), sessions[j]) /\ sessions[j] \in Sessions
      BY <1>1, <1>6, <2>3 DEF ViewInv
    <3> QED  BY <1>1, <3>1, LanesOff DEF LeftAlone
  <2> DEFINE s == sessions[n]
             t == Tail(dapBg)
             q == LanesOf(dapBg, s, n)
             p == LanesOf(t, s, n)
  <2>4. n \in 1..n /\ s \in Sessions /\ Watched(q, s, view)
    BY <1>1, <1>6 DEF ViewInv
  <2>5. /\ IsPipe(q) /\ IsPipe(p) /\ q[1] # <<>> /\ SameBut({1}, p, q) /\ p[1] = Tail(q[1])
        /\ Silent(q, s) => Silent(p, s) /\ Head(q[1]) \notin Loud
        /\ ~None(q[1], Readies) /\ Head(q[1]) \notin Readies => ~None(p[1], Readies)
    BY <1>1, <2>4, LanesOff
  <2>6. Head(q[1]) = IF i = n THEN e ELSE DapNote
    <3>1. Head(q[1]) = IF Head(dapBg).session = n THEN Head(dapBg).event ELSE DapNote
      BY <1>1, <2>4, LanesOff
    <3> QED  BY <3>1
  <2>7. Head(q[1]) \notin Readies
    BY <1>3, <1>4, <2>6
  <2>p. p = LanesOf(dapBg', s, n) /\ s = sessions[n]
    OBVIOUS
  <2> HIDE DEF p, q, s, t
  <2>8. ViewFits(q, s, view) => ViewFits(p, s, view')
    <3> SUFFICES ASSUME ViewFits(q, s, view) PROVE ViewFits(p, s, view')
      OBVIOUS
    <3>1. CASE e.kind = "variables" /\ view' = [view EXCEPT !.vars = e.arg]
      <4> DEFINE w == view'
      <4>1. Head(q[1]).kind = "variables" /\ w = [view EXCEPT !.vars = Head(q[1]).arg]
        BY <1>1, <1>3, <1>6, <2>6, <3>1
      <4> HIDE DEF w
      <4>2. ViewFits(p, s, w)
        BY <1>2, <2>5, <4>1, VariablesFit
      <4> QED  BY <4>2 DEF w
    <3>2. CASE e.kind = "continued" /\ view' = Cleared
      <4>1. Head(q[1]).kind = "continued"
        BY <1>1, <1>3, <1>6, <2>6, <3>2
      <4> QED  BY <2>5, <3>2, <4>1, ContinuedFits
    <3>3. CASE e.kind = "note" /\ UNCHANGED view
      <4>1. Head(q[1]) \notin Marks /\ 1 \in 1..4
        BY <1>3, <1>4, <2>6, <3>3
      <4>2. Alike(p, q)
        BY <2>5, <4>1, PlainOff
      <4> QED  BY <3>3, <4>2, AlikeFits
    <3> QED  BY <3>1, <3>2, <3>3
  <2>9. Watched(p, s, view')
    BY <2>4, <2>5, <2>7, <2>8 DEF Watched
  <2> QED  BY <2>1, <2>2, <2>3, <2>9, <2>p
<1> QED
  BY <1>1, <1>5, <1>6 DEF ViewInv

\* Giving up the client leaves every session in order.
LEMMA WithoutInOrder ==
  ASSUME ViewInv, DapInv PROVE \A j \in 1..Len(sessions) : InOrder(Without(dapClient)[j])
<1> DEFINE n == Len(sessions)
           W == Without(dapClient)
<1>1. n \in Nat /\ sessions \in Seq(Sessions)
  BY DEF DapInv, SessionsTold
<1>2. \A j \in 1..n : j # dapClient => W[j] = sessions[j]
  BY WithoutTells
<1> SUFFICES ASSUME NEW j \in 1..n, j = dapClient PROVE InOrder(W[j])
  BY <1>2 DEF ViewInv
<1> DEFINE x == sessions[j]  h == [x EXCEPT !.handle = "nobody"]
<1>3. InOrder(x) /\ x \in Sessions
  BY <1>1 DEF ViewInv
<1>4. W[j] = h
  BY <1>1 DEF Without
<1> HIDE DEF x, W
<1>5. /\ h.requests = x.requests /\ h.commands = x.commands /\ h.adapter = x.adapter /\ h.driver = x.driver
      /\ h.configured = x.configured /\ h.stop = x.stop
  BY <1>3 DEF Sessions
<1> HIDE DEF h
<1>6. InOrder(h)
  BY <1>3, <1>5 DEF InOrder, Up, DapRunning
<1> QED  BY <1>4, <1>6

\* The end of the program: the client is given up and the view cleared, whose end it may be.
LEMMA EndSessionFits ==
  ASSUME ViewInv, DapInv, dapBg # <<>>, dapBg' = Tail(dapBg), NEW e, e = Head(dapBg).event,
         e.kind = "terminated", EndSession, UNCHANGED early
  PROVE  ViewInv'
<1> DEFINE i == Head(dapBg).session
           n == Len(sessions)
           W == Without(dapClient)
<1>1. /\ i \in 1..n /\ n \in Nat /\ e \in Things /\ dapBg \in Seq(DapReports) /\ sessions \in Seq(Sessions)
  BY FirstTold
<1>2. /\ W \in Seq(Sessions) /\ Len(W) = n
      /\ \A j \in 1..n : /\ j = dapClient => W[j].handle = "nobody"
                         /\ j # dapClient => W[j] = sessions[j]
  BY WithoutTells
<1>3. sessions' = W /\ dapClient' = 0 /\ view' = Cleared /\ UNCHANGED dropped
  BY DEF EndSession
<1>4. \A j \in 1..n : InOrder(W[j])
  BY WithoutInOrder
<1> HIDE DEF W
<1>5. ASSUME ~dropped, ~early
      PROVE  /\ \A j \in 1..n : j < n => LeftAlone(LanesOf(dapBg', W[j], j), W[j])
             /\ n # 0 => Watched(LanesOf(dapBg', W[n], n), W[n], Cleared)
  <2>1. dapClient = 0 \/ dapClient = n
    BY <1>5, ClientIsLast
  <2>2. ASSUME NEW j \in 1..n, j < n PROVE LeftAlone(LanesOf(dapBg', W[j], j), W[j])
    <3>0. W[j] = sessions[j]
      BY <1>1, <1>2, <2>1, <2>2
    <3>1. LeftAlone(LanesOf(dapBg, sessions[j], j), sessions[j]) /\ sessions[j] \in Sessions
      BY <1>1, <1>5, <2>2 DEF ViewInv
    <3>2. LeftAlone(LanesOf(Tail(dapBg), sessions[j], j), sessions[j])
      BY <1>1, <3>1, LanesOff DEF LeftAlone
    <3> QED  BY <3>0, <3>2
  <2>3. CASE dapClient = n
    <3>1. W[n].handle = "nobody"
      BY <1>1, <1>2, <2>3
    <3>2. Watched(LanesOf(dapBg', W[n], n), W[n], Cleared)
      BY <3>1 DEF Watched
    <3> QED  BY <2>2, <3>2
  <2>4. CASE dapClient # n
    <3> DEFINE s == sessions[n]
               t == Tail(dapBg)
               q == LanesOf(dapBg, s, n)
               p == LanesOf(t, s, n)
    <3>1. n \in 1..n /\ s \in Sessions /\ Watched(q, s, view) /\ InOrder(s)
      BY <1>1, <1>5 DEF ViewInv
    <3>2. W[n] = s /\ s.handle # "app" /\ dapClient = 0
      BY <1>1, <1>2, <2>1, <2>4, <3>1 DEF DapInv, SessionsTold
    <3>3. view.marker = 0
      BY <1>5, <3>2 DEF ViewInv
    <3>4. /\ IsPipe(q) /\ IsPipe(p) /\ q[1] # <<>> /\ SameBut({1}, p, q) /\ p[1] = Tail(q[1])
          /\ Silent(q, s) => Silent(p, s)
          /\ ~None(q[1], Readies) /\ Head(q[1]) \notin Readies => ~None(p[1], Readies)
      BY <1>1, <3>1, LanesOff
    <3>5. Head(q[1]) \in {e, DapNote}
      <4>1. Head(q[1]) = IF Head(dapBg).session = n THEN Head(dapBg).event ELSE DapNote
        BY <1>1, <3>1, LanesOff
      <4> QED  BY <4>1
    <3>6. Head(q[1]) \notin Readies /\ Head(q[1]) \notin Marks
      <4>1. DapNote \in Things /\ DapNote.kind = "note"
        BY KindsApart DEF DapNote
      <4>2. DapNote \notin Readies /\ DapNote \notin Marks /\ e \notin Readies /\ e \notin Marks
        BY <1>1, <4>1, KindTells
      <4> QED  BY <3>5, <4>2
    <3>7. W[n] = s /\ LanesOf(dapBg', W[n], n) = p
      BY <3>2
    <3>8. s.handle \in {"task", "bg", "app", "nobody"}
      <4> HIDE DEF s
      <4> QED  BY <3>1 DEF Sessions
    <3> HIDE DEF p, q, s, t
    <3>9. s.handle # "nobody" /\ Up(s) /\ s.bridge => ViewFits(p, s, Cleared)
      <4> SUFFICES ASSUME s.handle # "nobody", Up(s), s.bridge PROVE ViewFits(p, s, Cleared)
        OBVIOUS
      <4>1. ViewFits(q, s, view) /\ Silent(q, s)
        BY <3>1, <3>2, <3>8 DEF Watched
      <4>2. DapRunning(s)
        BY DEF Up
      <4>3. NoneIn(p, Loud)
        BY <3>4, <4>1, <4>2 DEF Silent
      <4>4. Alike(p, q) /\ 1 \in 1..4
        BY <3>4, <3>6, PlainOff
      <4>5. ViewFits(p, s, view)
        BY <4>1, <4>4, AlikeFits
      <4> QED  BY <3>1, <3>3, <4>3, <4>5, SilentFits DEF InOrder
    <3>10. Watched(p, s, Cleared)
      BY <3>1, <3>4, <3>6, <3>9 DEF Watched
    <3> QED  BY <2>2, <3>7, <3>10
  <2> QED  BY <2>3, <2>4
<1>6. Cleared.marker = 0
  BY DEF Cleared
<1> QED
  BY <1>2, <1>3, <1>4, <1>5, <1>6 DEF ViewInv

\* The event loop takes the client that is ready, which is that of the session launched last.
LEMMA TakeClientFits ==
  ASSUME ViewInv, DapInv, dapBg # <<>>, dapBg' = Tail(dapBg), NEW e, e = Head(dapBg).event,
         e.kind = "ready", TakeClient(Head(dapBg).session), UNCHANGED early
  PROVE  ViewInv'
<1> DEFINE i == Head(dapBg).session
           n == Len(sessions)
           W == Without(dapClient)
           s == sessions[i]
           t == [s EXCEPT !.handle = "app"]
           taken == [W EXCEPT ![i].handle = "app"]
           c == SetBreakpoints
           m == Append(t.commands, c)
           u == [t EXCEPT !.commands = m]
<1>1. /\ i \in 1..n /\ n \in Nat /\ e \in Things /\ dapBg \in Seq(DapReports) /\ sessions \in Seq(Sessions)
      /\ s.handle = "bg" /\ s \in Sessions /\ Tail(dapBg) \in Seq(DapReports)
      /\ ~dropped /\ ~early => i = n /\ dapClient = 0
  BY FirstTold
<1>2. /\ W \in Seq(Sessions) /\ Len(W) = n
      /\ \A j \in 1..n : /\ j = dapClient => W[j].handle = "nobody"
                         /\ j # dapClient => W[j] = sessions[j]
  BY WithoutTells
<1>3. i # dapClient /\ W[i] = s
  <2>1. i # dapClient
    BY <1>1 DEF DapInv, SessionsTold
  <2> QED  BY <1>1, <1>2, <2>1
<1>4. \A j \in 1..n : InOrder(W[j])
  BY WithoutInOrder
<1>5. /\ dapClient' = i /\ UNCHANGED view
      /\ sessions' = taken \/ sessions' = [taken EXCEPT ![i].commands = Append(@, c)]
      /\ ~dropped' => ~dropped
  BY DEF TakeClient
<1>6. taken = [W EXCEPT ![i] = t]
  <2> HIDE DEF W, s
  <2> QED  BY <1>3
<1>7. c \in DapCommands /\ c.kind = "breakpoints" /\ c \in Things /\ c \notin Shakes /\ c \notin Marks
  <2>1. c \in DapCommands /\ c.kind = "breakpoints"
    BY DEF SetBreakpoints, DapCommands, CommandKinds, Args, DapInv, GutterTyped
  <2> HIDE DEF c
  <2> QED  BY <2>1, KindsApart, KindTells
<1>s. s = sessions[i] /\ InOrder(s)
  BY <1>1 DEF ViewInv
<1> HIDE DEF c, s, W, taken
<1>8. /\ t \in Sessions /\ t.requests = s.requests /\ t.commands = s.commands /\ t.adapter = s.adapter
      /\ t.driver = s.driver /\ t.configured = s.configured /\ t.stop = s.stop /\ t.depth = s.depth
      /\ t.events = s.events /\ t.bridge = s.bridge /\ t.handle = "app"
  BY <1>1 DEF Sessions
<1> HIDE DEF t
<1>9. t.commands \in Seq(DapCommands) /\ m \in Seq(DapCommands) /\ None(m, Shakes)
  <2>1. t.commands \in Seq(DapCommands)
    BY <1>8 DEF Sessions
  <2>2. t.commands \in Seq(Things) /\ None(t.commands, Shakes)
    BY <1>8, <1>s, <2>1, KindsApart DEF InOrder
  <2> QED  BY <1>7, <2>1, <2>2, NoneWithLast
<1>m. m = Append(t.commands, c) /\ u = [t EXCEPT !.commands = m]
  OBVIOUS
<1> HIDE DEF m, u
<1>10. /\ u \in Sessions /\ u.requests = s.requests /\ u.commands = m /\ u.adapter = s.adapter
       /\ u.driver = s.driver /\ u.configured = s.configured /\ u.stop = s.stop /\ u.depth = s.depth
       /\ u.events = s.events /\ u.bridge = s.bridge /\ u.handle = "app"
  BY <1>8, <1>9, <1>m DEF Sessions
<1>11. InOrder(t) /\ InOrder(u)
  BY <1>8, <1>9, <1>10, <1>s DEF InOrder, Up, DapRunning
<1>12. /\ taken \in Seq(Sessions) /\ Len(taken) = n
       /\ \A j \in 1..n : taken[j] = IF j = i THEN t ELSE W[j]
  BY <1>1, <1>2, <1>6, <1>8, ExceptSeq
<1>13. sessions' = taken \/ sessions' = [taken EXCEPT ![i] = u]
  <2>1. taken[i] = t
    BY <1>1, <1>12
  <2> QED  BY <1>5, <1>m, <2>1
<1>14. PICK v \in {t, u} : /\ Len(sessions') = n
                           /\ \A j \in 1..n : sessions'[j] = IF j = i THEN v ELSE W[j]
  <2>1. CASE sessions' = taken
    BY <1>12, <2>1
  <2>2. CASE sessions' = [taken EXCEPT ![i] = u]
    <3>1. /\ Len(sessions') = n
          /\ \A j \in 1..n : sessions'[j] = IF j = i THEN u ELSE taken[j]
      BY <1>1, <1>10, <1>12, <2>2, ExceptSeq
    <3> QED  BY <1>12, <3>1
  <2> QED  BY <1>13, <2>1, <2>2
<1>15. \A j \in 1..n : InOrder(sessions'[j])
  BY <1>4, <1>11, <1>14
<1>16. ASSUME ~dropped, ~early
       PROVE  /\ i = n
              /\ \A j \in 1..n : j < n => LeftAlone(LanesOf(dapBg', sessions'[j], j), sessions'[j])
              /\ Watched(LanesOf(dapBg', v, n), v, view)
  <2>1. i = n /\ dapClient = 0
    BY <1>1, <1>16
  <2>2. ASSUME NEW j \in 1..n, j < n PROVE LeftAlone(LanesOf(dapBg', sessions'[j], j), sessions'[j])
    <3>0. sessions'[j] = sessions[j]
      BY <1>1, <1>2, <1>14, <2>1, <2>2
    <3>1. LeftAlone(LanesOf(dapBg, sessions[j], j), sessions[j]) /\ sessions[j] \in Sessions
      BY <1>1, <1>16, <2>2 DEF ViewInv
    <3>2. LeftAlone(LanesOf(Tail(dapBg), sessions[j], j), sessions[j])
      BY <1>1, <3>1, LanesOff DEF LeftAlone
    <3> QED  BY <3>0, <3>2
  <2> DEFINE b == Tail(dapBg)
             q == LanesOf(dapBg, s, n)
             r == LanesOf(b, s, n)
             p == LanesOf(b, u, n)
  <2>3. Watched(q, s, view)
    BY <1>1, <1>16, <1>s, <2>1 DEF ViewInv
  <2>4. IsPipe(q) /\ IsPipe(r) /\ q[1] # <<>> /\ SameBut({1}, r, q) /\ r[1] = Tail(q[1])
    BY <1>1, LanesOff
  <2>5. Head(q[1]) = e
    <3>1. Head(q[1]) = IF Head(dapBg).session = n THEN Head(dapBg).event ELSE DapNote
      BY <1>1, LanesOff
    <3> QED  BY <2>1, <3>1
  <2>6. e \notin Marks /\ 1 \in 1..4 /\ 4 \in 1..4
    <3>1. e.kind = "ready" /\ e \in Things
      BY <1>1
    <3>2. e \notin Marks
      BY ONLY <3>1, KindTells
    <3> QED  BY <3>2
  <2>7. LanesOf(b, t, n) = r
    BY <1>8 DEF LanesOf
  <2>8. SameBut({4}, p, r) /\ p[4] = Append(r[4], c)
    <3> DEFINE o == OwnOf(b, n)  x == s.events  y == s.requests  d == s.commands
    <3>1. r = <<o, x, y, d>> /\ p = <<o, x, y, m>> /\ m = Append(d, c)
      BY <1>8, <1>10, <1>m DEF LanesOf
    <3> HIDE DEF o, x, y, d, r, p
    <3>2. SameBut({4}, <<o, x, y, m>>, <<o, x, y, d>>) /\ <<o, x, y, m>>[4] = m /\ <<o, x, y, d>>[4] = d
      BY LaneAt
    <3> QED  BY <3>1, <3>2
  <2>b. dapBg' = b /\ p = LanesOf(b, u, n)
    OBVIOUS
  <2> HIDE DEF b, q, r, p
  <2>9. Alike(r, q)
    BY <2>4, <2>5, <2>6, PlainOff
  <2>10. Alike(p, r)
    BY <1>7, <2>4, <2>6, <2>8, PlainPut
  <2>11. ViewFits(q, s, view) => ViewFits(r, t, view) /\ ViewFits(p, u, view)
    <3> SUFFICES ASSUME ViewFits(q, s, view) PROVE ViewFits(r, t, view) /\ ViewFits(p, u, view)
      OBVIOUS
    <3>1. ViewFits(r, t, view)
      BY <1>8, <2>9, AlikeFits
    <3>2. ViewFits(p, u, view)
      BY <1>8, <1>10, <2>10, <3>1, AlikeFits
    <3> QED  BY <3>1, <3>2
  <2>12. Up(s) /\ s.bridge => ViewFits(q, s, view)
    BY <1>1, <2>3 DEF Watched
  <2>13. Watched(r, t, view) /\ Watched(p, u, view)
    BY <1>8, <1>10, <2>11, <2>12 DEF Watched, Up, DapRunning
  <2>14. Watched(LanesOf(dapBg', v, n), v, view)
    BY <2>7, <2>13, <2>b
  <2> QED  BY <2>1, <2>2, <2>14
<1>17. i \in 1..n /\ i # 0
  BY <1>1
<1> QED
  BY <1>5, <1>14, <1>15, <1>16, <1>17 DEF ViewInv

\* The event loop handles what the channel holds first.
LEMMA DrainFits == ASSUME ViewInv, DapInv, DapDrain PROVE ViewInv'
<1> DEFINE e == Head(dapBg).event
<1>1. dapBg # <<>> /\ dapBg' = Tail(dapBg) /\ Handle(Head(dapBg).session, e) /\ UNCHANGED early
  BY DEF DapDrain
<1>e. e = Head(dapBg).event
  OBVIOUS
<1> HIDE DEF e
<1>2. CASE e.kind = "ready" /\ TakeClient(Head(dapBg).session)
  BY <1>1, <1>2, <1>e, TakeClientFits
<1>3. CASE e.kind = "terminated" /\ EndSession
  BY <1>1, <1>3, <1>e, EndSessionFits
<1>4. CASE \/ /\ e.kind = "stopped"
              /\ view' = [view EXCEPT !.selected = 0]
              /\ DapDispatch(Request("stack"))
              /\ UNCHANGED dapClient
           \/ e.kind = "stack" /\ StackArrives(e.arg, e.depth) /\ UNCHANGED dapClient
           \/ /\ e.kind = "scopes"
              /\ DapDispatch([kind |-> "variables", arg |-> e.arg])
              /\ UNCHANGED <<dapClient, view>>
  BY <1>1, <1>4, <1>e, ToldFits
<1>5. CASE \/ /\ e.kind = "variables"
              /\ view' = [view EXCEPT !.vars = e.arg]
              /\ UNCHANGED <<dapClient, sessions, dropped>>
           \/ e.kind = "continued" /\ view' = Cleared /\ UNCHANGED <<dapClient, sessions, dropped>>
           \/ e.kind = "note" /\ UNCHANGED <<dapClient, view, sessions, dropped>>
  BY <1>1, <1>5, <1>e, HeardFits
<1> QED
  BY <1>1, <1>2, <1>3, <1>4, <1>5 DEF Handle

\* No session, and nothing shown, at first.
LEMMA InitFits == DapInit => ViewInv
  BY DEF DapInit, ViewInv, Cleared

\* Every step keeps the view and what is on its way together.
LEMMA StepFits == ASSUME ViewInv, DapInv, [DapNext]_dapVars PROVE ViewInv'
<1>1. CASE UNCHANGED dapVars
  <2>1. UNCHANGED <<sessions, dapClient, view, dapBg, dropped, early>>
    BY <1>1 DEF dapVars
  <2> QED  BY <2>1 DEF ViewInv
<1>2. ASSUME NEW i \in DOMAIN sessions,
             \/ DapHandOver(i) \/ DapBridge(i) \/ DapDriver(i)
             \/ Answers(i) \/ Initialized(i) \/ Stops(i) \/ Terminates(i) \/ AdapterExits(i)
      PROVE  ViewInv'
  BY <1>2, HandOverFits, BridgeFits, DriverFits, AnswersFit, InitializedFits, ProgramFits
<1>3. ASSUME NEW line \in Lines, Toggle(line) PROVE ViewInv'
  BY <1>3, ToggleFits
<1> QED
  BY <1>1, <1>2, <1>3, RunFits, DrainFits, DapStopFits, PanelFits DEF DapNext

\* Nothing on its way: the view is of the stop.
LEMMA NothingComesSettles == ASSUME ViewInv, DapInv PROVE RunViewIsOfTheStop
<1> SUFFICES ASSUME Live, NothingComes, ~dropped, ~early
             PROVE  LET s == sessions[dapClient] IN
                    /\ s.adapter # "stopped" => view.marker = 0
                    /\ s.adapter = "stopped" =>
                         view = [marker |-> s.stop, stop |-> s.stop, frames |-> s.depth,
                                 selected |-> view.selected, vars |-> <<s.stop, view.selected>>]
  BY DEF RunViewIsOfTheStop
<1> DEFINE s == sessions[dapClient]
           q == LanesOf(dapBg, s, dapClient)
<1>1. dapClient # 0 /\ Up(s) /\ s.bridge /\ DapRunning(s)
  BY DEF Live, Up
<1>2. s.handle = "app" /\ Watched(q, s, view) /\ dapClient \in DOMAIN sessions
  BY <1>1, ClientIsLast
<1>3. \A A : NoneIn(q, A)
  BY <1>1, <1>2, NothingThere
<1>4. view \in Views
  BY DEF DapInv, GutterTyped
<1> HIDE DEF s, q
<1>5. ViewFits(q, s, view)
  BY <1>1, <1>2 DEF Watched
<1>6. Moving(q, s) <=> s.adapter # "stopped"
  BY <1>3 DEF Moving
<1>7. ~LatelyIn(q, News, Back)
  BY <1>3 DEF LatelyIn, Lately, NoneIn, None
<1>8. s.adapter # "stopped" => view.marker = 0
  BY <1>5, <1>6 DEF ViewFits
<1>9. s.adapter = "stopped" => Shows(q, s, view)
  BY <1>5, <1>6, <1>7 DEF ViewFits
<1>10. s.adapter = "stopped" =>
         /\ view.marker = s.stop /\ view.stop = s.stop /\ view.frames = s.depth
         /\ view.vars = <<s.stop, view.selected>>
  BY <1>3, <1>9 DEF Shows
<1>11. view = [marker |-> view.marker, stop |-> view.stop, frames |-> view.frames,
               selected |-> view.selected, vars |-> view.vars]
  BY <1>4 DEF Views
<1> QED
  BY <1>8, <1>10, <1>11 DEF s

\* For any lines, any number of sessions, toggles, stops and controls, and queues of any
\* size: once nothing is on its way, the run view is about the stop the program is at, if
\* the user waited for the answers and no command was dropped.
THEOREM RunViewSettles == DapSpec => []RunViewIsOfTheStop
<1>1. DapInit => DapInv /\ ViewInv
  BY InitFollows, InitFits
<1>2. (DapInv /\ ViewInv) /\ [DapNext]_dapVars => (DapInv /\ ViewInv)'
  BY StepFollows, StepFits
<1>3. DapInv /\ ViewInv => RunViewIsOfTheStop
  BY NothingComesSettles
<1> QED
  BY <1>1, <1>2, <1>3, PTL DEF DapSpec
=============================================================================
