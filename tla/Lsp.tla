-------------------------------- MODULE Lsp --------------------------------
(***************************************************************************)
(* The editor and a language server: crates/onda/src/main.rs (opening,     *)
(* debounced changes, formatting), crates/onda-lsp/src/manager.rs and      *)
(* client.rs.                                                              *)
(*                                                                         *)
(* The event loop never waits: whatever concerns the server is a task it   *)
(* spawns.  A task first waits for the manager's lock, a tokio mutex,      *)
(* which serves in the order in which tasks came to it; the threads of     *)
(* the runtime may start tasks in any order.  Requests are answered in     *)
(* tasks of their own, which register a waiter after the request has left. *)
(*                                                                         *)
(* A text is its revision.  Formatting stands for all requests with an     *)
(* answer; the pipes to and from the server keep order and are left out.   *)
(***************************************************************************)
EXTENDS Integers, Sequences, SequencesExt

CONSTANTS MaxDocs,      \* bound on the documents opened, all of one workspace
          MaxEdits,     \* bound on the edits, of all documents
          MaxRequests,  \* bound on the requests made
          MaxTasks,     \* bound on the tasks that have not finished
          InboxSize     \* capacity of the background channel, 256 in the code

ASSUME LspAssumption ==
  /\ {MaxDocs, MaxTasks, InboxSize} \subseteq Nat \ {0}
  /\ {MaxEdits, MaxRequests} \subseteq Nat

Docs == 1..MaxDocs

VARIABLES rev,      \* Document::rev of every document
          opened,   \* how many documents are open
          focus,    \* the document of the focused window
          sent,     \* App::lsp_sent_rev, -1 without an entry
          due,      \* App::lsp_pending_change, -1 without an entry
          spawned,  \* tasks not started yet, in the order they were spawned
          lock,     \* the tasks at the manager's lock, in order
          server,   \* none, up, or gone
          known,    \* the texts the server was given, -1 for a document not open
          requests, \* the requests made, by their id
          inbox,    \* the background channel: request ids, 0 for another message
          bridge    \* the task that passes LSP events on to the inbox is alive

\* History: a task was started before an older one, and starting the server has failed.
VARIABLES overtaken, failed

editor == <<rev, opened, focus, sent, due>>
remote == <<lock, server, known, requests, failed>>
vars == <<editor, spawned, remote, inbox, bridge, overtaken>>

\* A task's "what" is the revision it sends or the id of its request.
Task(kind, d, what) == [kind |-> kind, doc |-> d, what |-> what]

Init ==
  /\ rev = [d \in Docs |-> 0]
  /\ opened = 1
  /\ focus = 1
  /\ sent = [d \in Docs |-> -1]
  /\ due = [d \in Docs |-> -1]
  /\ spawned = <<Task("open", 1, 0)>>
  /\ lock = <<>>
  /\ server = "none"
  /\ known = [d \in Docs |-> -1]
  /\ requests = <<>>
  /\ inbox = <<>>
  /\ bridge = TRUE
  /\ overtaken = FALSE
  /\ failed = FALSE

-----------------------------------------------------------------------------
\* The event loop.  Each turn ends in maybe_flush_lsp_change on the focused document:
\* a revision not sent yet is sent when it has been the same for the debounce time.
NoTask == UNCHANGED spawned
Spawn(kind, d, what) ==
  /\ Len(spawned) + Len(lock) < MaxTasks
  /\ spawned' = Append(spawned, Task(kind, d, what))

\* A mutant.
UnsentOnce == sent[focus'] = -1

Unsent == sent[focus'] # rev'[focus']

Waits == due[focus'] = rev'[focus']

\* A mutant.
FlushForgets ==
  /\ Unsent /\ Waits
  /\ due' = [due EXCEPT ![focus'] = -1]
  /\ sent' = [sent EXCEPT ![focus'] = rev'[focus']]
  /\ NoTask

FlushSends ==
  /\ Unsent /\ Waits
  /\ due' = [due EXCEPT ![focus'] = -1]
  /\ sent' = [sent EXCEPT ![focus'] = rev'[focus']]
  /\ Spawn("change", focus', rev'[focus'])

FlushWaits ==
  /\ due' = IF Unsent THEN [due EXCEPT ![focus'] = rev'[focus']] ELSE due
  /\ UNCHANGED sent

Flush == FlushSends \/ (FlushWaits /\ NoTask)

Tick == /\ UNCHANGED <<rev, opened, focus, remote, inbox, bridge, overtaken>>
        /\ Flush

Edits == FoldFunction(+, 0, rev)

Edit ==
  /\ Edits < MaxEdits
  /\ rev' = [rev EXCEPT ![focus] = @ + 1]
  /\ UNCHANGED <<opened, focus, remote, inbox, bridge, overtaken>>
  /\ Flush

Switch ==
  /\ focus' \in 1..opened
  /\ UNCHANGED <<rev, opened, remote, inbox, bridge, overtaken>>
  /\ Flush

\* open_path_in_buffer, ensure_lsp_for_doc: a new document has nothing sent, so that
\* the turn only starts its debounce time.
Open ==
  /\ opened < MaxDocs
  /\ opened' = opened + 1
  /\ focus' = opened'
  /\ UNCHANGED <<rev, remote, inbox, bridge, overtaken>>
  /\ Spawn("open", opened', 0)
  /\ FlushWaits

\* lsp_format; the debounce time goes on, so a change is sent in another turn.  The
\* request keeps what it was made for, which the code does not: the document and its
\* revision, -1 for one not sent yet.
Request == [doc |-> focus, rev |-> IF sent[focus] = rev[focus] THEN rev[focus] ELSE -1,
            text |-> -1, stage |-> "asked", answered |-> FALSE]

Format ==
  /\ Len(requests) < MaxRequests
  /\ requests' = Append(requests, Request)
  /\ Spawn("format", focus, Len(requests'))
  /\ UNCHANGED <<rev, opened, focus, lock, server, known, failed, inbox, bridge, overtaken>>
  /\ FlushWaits

-----------------------------------------------------------------------------
\* The runtime.
Start(i) ==
  /\ spawned' = RemoveAt(spawned, i)
  /\ lock' = Append(lock, spawned[i])
  /\ overtaken' = (overtaken \/ i > 1)
  /\ UNCHANGED <<editor, server, known, requests, failed, inbox, bridge>>

\* What the task at the lock does: ensure_server and did_open ...
RunOpen(t) ==
  /\ t.kind = "open"
  /\ UNCHANGED requests
  /\ \/ /\ server = "none"
        /\ failed' = TRUE
        /\ UNCHANGED <<server, known>>
     \/ /\ server \in {"none", "up"}
        /\ server' = "up"
        /\ known' = [known EXCEPT ![t.doc] = t.what]
        /\ UNCHANGED failed
     \/ /\ server = "gone"
        /\ UNCHANGED <<server, known, failed>>

\* ... did_change, which a server that was not told of the document ignores ...
RunChange(t) ==
  /\ t.kind = "change"
  /\ known' = IF server = "up" /\ known[t.doc] # -1
              THEN [known EXCEPT ![t.doc] = t.what] ELSE known
  /\ UNCHANGED <<server, requests, failed>>

\* ... and formatting, which sends the request and leaves the answer to a new task.
RunFormat(t) ==
  /\ t.kind = "format"
  /\ requests' = [requests EXCEPT ![t.what].stage = IF server = "up" THEN "sent" ELSE "dropped",
                                  ![t.what].text = known[t.doc]]
  /\ UNCHANGED <<server, known, failed>>

\* A mutant.
RunNewestTask ==
  /\ lock # <<>>
  /\ lock' = Front(lock)
  /\ RunOpen(Last(lock)) \/ RunChange(Last(lock)) \/ RunFormat(Last(lock))
  /\ UNCHANGED <<editor, spawned, inbox, bridge, overtaken>>

RunTask ==
  /\ lock # <<>>
  /\ lock' = Tail(lock)
  /\ RunOpen(Head(lock)) \/ RunChange(Head(lock)) \/ RunFormat(Head(lock))
  /\ UNCHANGED <<editor, spawned, inbox, bridge, overtaken>>

ServerExits ==
  /\ server = "up"
  /\ server' = "gone"
  /\ UNCHANGED <<editor, spawned, lock, known, requests, failed, inbox, bridge, overtaken>>

-----------------------------------------------------------------------------
\* A request's answer: collect_response and dispatcher_task.
Becomes(i, request) ==
  /\ requests' = [requests EXCEPT ![i] = request]
  /\ UNCHANGED <<editor, spawned, lock, server, known, failed, overtaken>>

Register(i) ==
  /\ requests[i].stage = "sent"
  /\ Becomes(i, [requests[i] EXCEPT !.stage = "waiting"])
  /\ UNCHANGED <<inbox, bridge>>

\* An answer finds its waiter, or is dropped; after a timeout it has nothing to find but
\* the waiter that was left behind.  The server may be gone by then.
Answer(i) ==
  /\ requests[i].stage \in {"sent", "waiting"} /\ ~requests[i].answered
  /\ Becomes(i, [requests[i] EXCEPT !.answered = TRUE,
                   !.stage = IF @ = "waiting" THEN "answered" ELSE @])
  /\ UNCHANGED <<inbox, bridge>>

\* A mutant.
TimeOutIfGone(i) ==
  /\ server = "gone"
  /\ requests[i].stage = "waiting"
  /\ Becomes(i, [requests[i] EXCEPT !.stage = "timed out"])
  /\ UNCHANGED <<inbox, bridge>>

TimeOut(i) ==
  /\ requests[i].stage = "waiting"
  /\ Becomes(i, [requests[i] EXCEPT !.stage = "timed out"])
  /\ UNCHANGED <<inbox, bridge>>

\* The result goes to the inbox over the bridge, which ends at a full inbox.
Collect(i) ==
  /\ requests[i].stage = "answered"
  /\ Becomes(i, [requests[i] EXCEPT !.stage = "delivered"])
  /\ bridge' = (bridge /\ Len(inbox) < InboxSize)
  /\ inbox' = IF bridge' THEN Append(inbox, i) ELSE inbox

\* Terminals, the agent and the debugger use the same channel.
OtherMessage ==
  /\ Len(inbox) < InboxSize
  /\ inbox' = Append(inbox, 0)
  /\ UNCHANGED <<editor, spawned, remote, bridge, overtaken>>

\* drain_bg_channel, handle_lsp_event: the edits of an answer are applied to the
\* document in focus; a server that does not know the document had none.  The turn ends
\* after the last message.
Handle ==
  /\ inbox # <<>>
  /\ inbox' = Tail(inbox)
  /\ LET i == Head(inbox)
     IN  \/ i = 0 /\ UNCHANGED <<rev, requests>>
         \/ /\ i # 0
            /\ requests' = [requests EXCEPT ![i].stage = "shown"]
            /\ \/ UNCHANGED rev
               \/ /\ requests[i].text # -1
                  /\ Edits < MaxEdits
                  /\ rev' = [rev EXCEPT ![focus] = @ + 1]
  /\ UNCHANGED <<opened, focus, lock, server, known, failed, bridge, overtaken>>
  /\ IF inbox' = <<>> THEN Flush ELSE UNCHANGED <<sent, due>> /\ NoTask

StartTask == \E i \in DOMAIN spawned : Start(i)
CollectTask == \E i \in DOMAIN requests : Register(i) \/ TimeOut(i) \/ Collect(i)
ServerAnswers == \E i \in DOMAIN requests : Answer(i)

Next ==
  \/ Tick \/ Edit \/ Switch \/ Open \/ Format
  \/ StartTask \/ RunTask \/ CollectTask
  \/ ServerAnswers \/ ServerExits \/ OtherMessage \/ Handle

Spec == Init /\ [][Next]_vars

\* The event loop turns, the runtime runs its tasks and clocks go on; the user may
\* rest, and the server need not answer.
FairSpec ==
  /\ Spec
  /\ WF_vars(Tick) /\ WF_vars(Handle)
  /\ WF_vars(StartTask) /\ WF_vars(RunTask) /\ WF_vars(CollectTask)

-----------------------------------------------------------------------------
\* A server is never given an older text of a document after a newer one, as long as the
\* runtime has started the tasks in the order they were spawned: the fair lock keeps it.
ServerFollows == [][overtaken' \/ \A d \in Docs : known'[d] >= known[d]]_vars

\* The edits of an answer are made for the text they are applied to, if the document is
\* still the one in focus and at its revision, and that revision had been sent when the
\* request was made.
AnswersMeetTheirText ==
  [][\A i \in DOMAIN requests :
       LET q == requests[i]
       IN  (/\ q.stage = "delivered" /\ requests'[i].stage = "shown"
            /\ focus = q.doc /\ rev[focus] = q.rev
            /\ ~overtaken /\ ~failed)
           => q.text = q.rev]_vars

\* A request that has left for the server ends, with a timeout or with its answer shown,
\* whatever the server does and even if the answer came before its waiter, unless the
\* bridge to the event loop has ended.
RequestsEnd ==
  \A i \in 1..MaxRequests :
    (i \in DOMAIN requests /\ requests[i].stage = "sent")
      ~> (~bridge \/ (i \in DOMAIN requests /\ requests[i].stage \in {"timed out", "shown"}))

\* When the focus stays on a document, a running server ends up with its last text,
\* unless tasks were started out of order or starting the server had failed.
ServerCatchesUp ==
  \A d \in Docs :
    <>[](focus = d) =>
      <>[]((server = "up" /\ ~overtaken /\ ~failed) => known[d] = rev[d])
=============================================================================
