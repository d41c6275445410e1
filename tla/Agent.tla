------------------------------- MODULE Agent -------------------------------
(***************************************************************************)
(* A conversation with an agent: its subprocess, the driver task of        *)
(* crates/onda-agent/src/lib.rs with the session of session.rs, the bridge *)
(* to the event loop, the panel of crates/onda/src/main.rs and the rules   *)
(* of permissions.rs.                                                      *)
(*                                                                         *)
(* The pipes between driver and agent keep order, and what is in them is   *)
(* seen by nobody else: the agent sends when the driver reads.  Of its     *)
(* messages those count that ask, answer or end a turn.  Reading and       *)
(* writing files is answered on the spot and told apart from nothing.      *)
(***************************************************************************)
EXTENDS Integers, Sequences, SequencesExt

CONSTANTS Programs,      \* what asks for permission; one agent, one kind of tool
          Offers,        \* the lists of options a permission request comes with
          MaxConnects,   \* bound on the connections made
          MaxPrompts,    \* bound on the prompts sent
          MaxAsks,       \* bound on the requests of one agent process
          QueueSize,     \* capacity of the command and event channels, 64 and 256
          BgSize         \* capacity of the background channel, 256

\* An option allows or it refuses, once or for always (PermissionOptionKind).
ASSUME AgentAssumption == Offers \subseteq Seq({"allow", "reject"})

VARIABLES conns,    \* the connections made, the latest last
          client,   \* App::agent_client, 0 for none
          bg,       \* the background channel
          busy,     \* App::agent_busy
          perm,     \* App::agent_pending_perm, or Nothing
          rules,    \* PermissionStore::rules, as saved
          prompts   \* the prompts sent so far

\* History: what was last decided for always; a prompt was sent during a turn; an
\* answer could not be given to its agent.
VARIABLES choice, eager, missed

vars == <<conns, client, bg, busy, perm, rules, prompts, choice, eager, missed>>

Nothing == [conn |-> 0]
Note == [kind |-> "note"]
Ended == [kind |-> "ended"]
Ready == [kind |-> "ready"]

\* The requests to the agent that wait for an answer: prompts by number, and before them
Initialize == -1
NewSession == 0

\* handle says who has the AgentClient: the connecting task, the channel, the App, nobody.
Connection ==
  [driver |-> "running", handle |-> "task", session |-> FALSE, pending |-> {Initialize},
   commands |-> <<>>, events |-> <<>>, bridge |-> TRUE, agent |-> "up", asks |-> {}, asked |-> 0]

Init ==
  /\ conns = <<>>
  /\ client = 0
  /\ bg = <<>>
  /\ busy = FALSE
  /\ perm = Nothing
  /\ rules = <<>>
  /\ prompts = 0
  /\ choice = [p \in Programs |-> "ask"]
  /\ eager = FALSE
  /\ missed = FALSE

-----------------------------------------------------------------------------
\* A mutant: a rule decides for every program.
CheckAny(program) == IF rules = <<>> THEN "ask" ELSE Last(rules).decision

\* permissions.rs: the latest rule that matches decides, and a rule has its scope alone.
Check(program) ==
  LET i == SelectLastInSeq(rules, LAMBDA r : r.program = program)
  IN  IF i = 0 THEN "ask" ELSE rules[i].decision

AddRule(program, decision) ==
  rules' = Append(RemoveFirstMatch(rules, LAMBDA r : r.program = program),
                  [program |-> program, decision |-> decision])

\* agent_respond_permission: an option of the kind wanted, else the first, else none.
Outcome(offers, wanted) ==
  IF wanted \in ToSet(offers) THEN wanted
  ELSE IF offers # <<>> THEN Head(offers) ELSE "cancelled"

-----------------------------------------------------------------------------
\* AgentClient::dispatch drops what finds the queue full or the driver gone.
Accepts == client # 0 /\ conns[client].driver = "running"
             /\ Len(conns[client].commands) < QueueSize
Dispatch(command) ==
  conns' = IF Accepts THEN [conns EXCEPT ![client].commands = Append(@, command)] ELSE conns

Answer(from, ask, outcome) ==
  /\ Dispatch([kind |-> "answer", id |-> ask.id, outcome |-> outcome, from |-> from, ask |-> ask])
  /\ missed' = (missed \/ ~Accepts \/ client # from)

\* agent_send
SendPrompt ==
  /\ client # 0
  /\ prompts < MaxPrompts
  /\ prompts' = prompts + 1
  /\ Dispatch([kind |-> "prompt", id |-> prompts + 1])
  /\ eager' = (eager \/ busy)
  /\ busy' = TRUE
  /\ UNCHANGED <<client, bg, perm, rules, choice, missed>>

\* a, A, d and D while a permission is pending
Decide(decision, always) ==
  /\ perm # Nothing
  /\ IF always
     THEN /\ AddRule(perm.ask.program, decision)
          /\ choice' = [choice EXCEPT ![perm.ask.program] = decision]
     ELSE UNCHANGED <<rules, choice>>
  /\ Answer(perm.conn, perm.ask, Outcome(perm.ask.offers, decision))
  /\ perm' = Nothing
  /\ UNCHANGED <<client, bg, busy, prompts, eager>>

\* agent_connect: the pending permission and the turn of the last agent stay.
Connect ==
  /\ Len(conns) < MaxConnects
  /\ conns' = Append(conns, Connection)
  /\ UNCHANGED <<client, bg, busy, perm, rules, prompts, choice, eager, missed>>

\* The connecting task hands the client over, or drops it at a full channel.
HandOver(c) ==
  /\ conns[c].handle = "task"
  /\ IF Len(bg) < BgSize
     THEN /\ bg' = Append(bg, [conn |-> c, event |-> Ready])
          /\ conns' = [conns EXCEPT ![c].handle = "bg"]
     ELSE /\ conns' = [conns EXCEPT ![c].handle = "nobody"]
          /\ UNCHANGED bg
  /\ UNCHANGED <<client, busy, perm, rules, prompts, choice, eager, missed>>

\* handle_agent_event and agent_handle_permission
AskPermission(c, ask) ==
  IF Check(ask.program) # "ask"
  THEN /\ Answer(c, ask, Outcome(ask.offers, Check(ask.program)))
       /\ UNCHANGED perm
  ELSE /\ perm' = [conn |-> c, ask |-> ask]
       /\ UNCHANGED <<conns, missed>>

\* A mutant: whatever the agent reports ends the turn in the panel.
ReceiveEnds(c, event) ==
  CASE event.kind = "ready" ->
         /\ client' = c
         /\ conns' = [d \in DOMAIN conns |->
                        IF d = c THEN [conns[d] EXCEPT !.handle = "app"]
                        ELSE IF d = client THEN [conns[d] EXCEPT !.handle = "nobody"]
                        ELSE conns[d]]
         /\ UNCHANGED <<busy, perm, missed>>
    [] event.kind = "ended" ->
         /\ busy' = FALSE
         /\ UNCHANGED <<client, conns, perm, missed>>
    [] event.kind = "permission" -> AskPermission(c, event.ask) /\ UNCHANGED <<client, busy>>
    [] event.kind = "file" -> Answer(c, event.ask, "done") /\ UNCHANGED <<client, busy, perm>>
    [] event.kind = "note" -> busy' = FALSE /\ UNCHANGED <<client, conns, perm, missed>>

Receive(c, event) ==
  CASE event.kind = "ready" ->
         /\ client' = c
         /\ conns' = [d \in DOMAIN conns |->
                        IF d = c THEN [conns[d] EXCEPT !.handle = "app"]
                        ELSE IF d = client THEN [conns[d] EXCEPT !.handle = "nobody"]
                        ELSE conns[d]]
         /\ UNCHANGED <<busy, perm, missed>>
    [] event.kind = "ended" ->
         /\ busy' = FALSE
         /\ UNCHANGED <<client, conns, perm, missed>>
    [] event.kind = "permission" -> AskPermission(c, event.ask) /\ UNCHANGED <<client, busy>>
    [] event.kind = "file" -> Answer(c, event.ask, "done") /\ UNCHANGED <<client, busy, perm>>
    [] event.kind = "note" -> UNCHANGED <<client, conns, busy, perm, missed>>

Drain ==
  /\ bg # <<>>
  /\ bg' = Tail(bg)
  /\ Receive(Head(bg).conn, Head(bg).event)
  /\ UNCHANGED <<rules, prompts, choice, eager>>

\* The editor ends and starts again; the rules come from their file, unless it was cut
\* short while it was written.
Restart ==
  /\ conns # <<>>
  /\ conns' = <<>>
  /\ client' = 0
  /\ bg' = <<>>
  /\ busy' = FALSE
  /\ perm' = Nothing
  /\ rules' \in {rules, <<>>}
  /\ eager' = FALSE
  /\ UNCHANGED <<prompts, choice, missed>>

editor == <<client, bg, busy, perm, rules, prompts, choice, eager, missed>>

-----------------------------------------------------------------------------
\* The driver.  An event waits for room; when the bridge is gone the driver ends too.
Stopped(conn) == [conn EXCEPT !.driver = "ended", !.agent = "gone"]

Emit(c, conn, event) ==
  /\ conns[c].bridge => Len(conns[c].events) < QueueSize
  /\ conns' = [conns EXCEPT ![c] =
                 IF @.bridge THEN [conn EXCEPT !.events = Append(@, event)] ELSE Stopped(conn)]

Running(c) == conns[c].driver = "running"
Talking(c) == Running(c) /\ conns[c].agent = "up"

\* The agent answers a request, with a result or an error.
Answered(c) ==
  /\ Talking(c)
  /\ \E r \in conns[c].pending, ok \in BOOLEAN :
       LET conn == [conns[c] EXCEPT !.pending = @ \ {r}]
       IN  CASE ~ok -> Emit(c, conn, Note)
             [] ok /\ r = Initialize -> Emit(c, [conn EXCEPT !.pending = @ \cup {NewSession}], Note)
             [] ok /\ r = NewSession -> Emit(c, [conn EXCEPT !.session = TRUE], Note)
             [] OTHER -> Emit(c, conn, Ended)
  /\ UNCHANGED editor

\* The agent asks for a permission or for a file.
Asks(c) ==
  /\ Talking(c)
  /\ conns[c].asked < MaxAsks
  /\ \E kind \in {"permission", "file"}, program \in Programs, offers \in Offers :
       LET ask == [id |-> conns[c].asked + 1, program |-> program, offers |-> offers, kind |-> kind]
       IN  /\ kind = "file" => program = CHOOSE p \in Programs : TRUE
           /\ kind = "file" => offers = CHOOSE o \in Offers : TRUE
           /\ Emit(c, [conns[c] EXCEPT !.asks = @ \cup {ask}, !.asked = @ + 1],
                   [kind |-> kind, ask |-> ask])
  /\ UNCHANGED editor

AgentExits(c) ==
  /\ Talking(c)
  /\ conns' = [conns EXCEPT ![c].agent = "gone"]
  /\ UNCHANGED editor

Disconnected(c) ==
  /\ Running(c)
  /\ conns[c].agent = "gone"
  /\ Emit(c, Stopped(conns[c]), Note)
  /\ UNCHANGED editor

\* A command; what is written to an agent that is gone is lost.
Perform(c) ==
  /\ Running(c)
  /\ conns[c].commands # <<>>
  /\ LET command == Head(conns[c].commands)
         conn == [conns[c] EXCEPT !.commands = Tail(@)]
         up == conn.agent = "up"
     IN  CASE command.kind = "prompt" /\ ~conn.session ->
                /\ conn.bridge => Len(conn.events) < QueueSize
                /\ conns' = [conns EXCEPT ![c] = IF conn.bridge THEN [conn EXCEPT !.events = Append(@, Note)]
                                                ELSE conn]
           [] command.kind = "prompt" /\ conn.session ->
                conns' = [conns EXCEPT ![c] = IF up THEN [conn EXCEPT !.pending = @ \cup {command.id}]
                                              ELSE conn]
           [] command.kind = "answer" ->
                conns' = [conns EXCEPT ![c] =
                            IF up THEN [conn EXCEPT !.asks = {a \in @ : a.id # command.id}] ELSE conn]
  /\ UNCHANGED editor

\* Nobody can send commands any more.
Closed(c) ==
  /\ Running(c)
  /\ conns[c].handle = "nobody" /\ conns[c].commands = <<>>
  /\ conns' = [conns EXCEPT ![c] = Stopped(@)]
  /\ UNCHANGED editor

\* A mutant: an event that finds the channel full is dropped, and the bridge goes on.
BridgeDrops(c) ==
  /\ conns[c].bridge /\ conns[c].events # <<>>
  /\ conns' = [conns EXCEPT ![c].events = Tail(@)]
  /\ bg' = IF Len(bg) < BgSize THEN Append(bg, [conn |-> c, event |-> Head(conns[c].events)]) ELSE bg
  /\ UNCHANGED <<client, busy, perm, rules, prompts, choice, eager, missed>>

\* The bridge passes an event on, and ends at a full channel.
Bridge(c) ==
  /\ conns[c].bridge /\ conns[c].events # <<>>
  /\ IF Len(bg) < BgSize
     THEN /\ bg' = Append(bg, [conn |-> c, event |-> Head(conns[c].events)])
          /\ conns' = [conns EXCEPT ![c].events = Tail(@)]
     ELSE /\ conns' = [conns EXCEPT ![c].bridge = FALSE, ![c].events = <<>>]
          /\ UNCHANGED bg
  /\ UNCHANGED <<client, busy, perm, rules, prompts, choice, eager, missed>>

Driver(c) == Perform(c) \/ Disconnected(c) \/ Closed(c)

Next ==
  \/ Connect \/ SendPrompt \/ Drain \/ Restart
  \/ \E d \in {"allow", "reject"}, always \in BOOLEAN : Decide(d, always)
  \/ \E c \in DOMAIN conns :
       HandOver(c) \/ Answered(c) \/ Asks(c) \/ AgentExits(c) \/ Driver(c) \/ Bridge(c)

\* The event loop drains the channel in every turn and the runtime goes on with the
\* tasks; the agent and the user may do nothing.
Fairness ==
  /\ WF_vars(Drain)
  /\ \A c \in 1..MaxConnects :
       /\ WF_vars(c \in DOMAIN conns /\ HandOver(c))
       /\ WF_vars(c \in DOMAIN conns /\ Driver(c))
       /\ WF_vars(c \in DOMAIN conns /\ Bridge(c))

Spec == Init /\ [][Next]_vars /\ Fairness

-----------------------------------------------------------------------------
\* An agent is told that it may only if the user said so to this very request, or has
\* said so for always and not since taken it back, or it left no other option.
Told(c) ==
  LET old == conns[c].commands  new == conns'[c].commands
  IN  {new[i] : i \in (Len(old) + 1)..Len(new)}
Allowed(t) ==
  \/ "reject" \notin ToSet(t.ask.offers)
  \/ choice[t.ask.program] = "allow"
  \/ perm = [conn |-> t.from, ask |-> t.ask] /\ \E always \in BOOLEAN : Decide("allow", always)
AllowedByTheUser ==
  [][\A c \in DOMAIN conns : c \in DOMAIN conns' =>
       \A t \in Told(c) : t.kind = "answer" /\ t.outcome = "allow" => Allowed(t)]_vars

\* The panel is not idle while an agent works on a prompt, or has one to come, as long
\* as prompts are sent when it is idle (agent_busy).
IdleMeansNoTurn ==
  ~busy /\ ~eager =>
    \A c \in DOMAIN conns :
      Talking(c) => /\ conns[c].pending \subseteq {Initialize, NewSession}
                    /\ \A i \in DOMAIN conns[c].commands : conns[c].commands[i].kind = "answer"

\* A request for a file is answered, unless the conversation ends or the answer found no
\* way: a full queue, a client not handed over yet, another agent in its place.
AsksAreAnswered ==
  \A c \in 1..MaxConnects :
    (c \in DOMAIN conns /\ \E a \in conns[c].asks : a.kind = "file")
      ~> (c \in DOMAIN conns => \/ \A a \in conns[c].asks : a.kind # "file"
                                \/ missed \/ conns[c].driver = "ended" \/ ~conns[c].bridge)
=============================================================================
