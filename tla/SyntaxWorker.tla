---------------------------- MODULE SyntaxWorker ----------------------------
(***************************************************************************)
(* Highlighting one document: the editor asks for a parse over a bounded   *)
(* channel, and the worker task (crates/onda-syntax/src/worker.rs) parses  *)
(* the newest text it was sent and publishes what it found.  The editor    *)
(* (request_syntax_parse_for_doc, maybe_refresh_decorations in             *)
(* crates/onda/src/main.rs) decides when to ask.                           *)
(*                                                                         *)
(* A text is its revision and its length.  The editor and the worker run   *)
(* on different threads: each receive of the worker is a step of its own.  *)
(***************************************************************************)
EXTENDS Integers, Sequences, SequencesExt

CONSTANTS QueueSize,  \* capacity of the channel, 64 in the code
          Lengths,    \* the lengths the document can have
          MaxRevs     \* bound on the changes of the document

VARIABLES text,      \* the document: its revision and its length
          lastLen,   \* App::doc_last_len, -1 when it has no entry
          queue,     \* the channel: the revisions sent and not received
          worker,    \* the worker: what it does and the revision in its hands
          shown,     \* the revision of the highlights published, -1 for none
          accepted   \* history: the revision of the last request the channel took

vars == <<text, lastLen, queue, worker, shown, accepted>>

Idle == [at |-> "idle", rev |-> -1]

\* Opening the document spawns the worker and asks for a first parse.
Init ==
  /\ text \in [rev : {0}, len : Lengths]
  /\ lastLen = -1
  /\ queue = <<0>>
  /\ worker = Idle
  /\ shown = -1
  /\ accepted = 0

\* try_send: a request that finds the channel full is lost.
RequestParse(rev) ==
  IF Len(queue) < QueueSize
  THEN queue' = Append(queue, rev) /\ accepted' = rev
  ELSE UNCHANGED <<queue, accepted>>

NoRequest == UNCHANGED <<queue, accepted>>

Changed ==
  /\ text.rev < MaxRevs
  /\ text' \in [rev : {text.rev + 1}, len : Lengths]

\* maybe_refresh_decorations, after every key: ask when the length is another.
Refresh ==
  IF text'.len = lastLen THEN NoRequest /\ UNCHANGED lastLen
  ELSE lastLen' = text'.len /\ RequestParse(text'.rev)

Key ==
  /\ Changed \/ UNCHANGED text
  /\ Refresh
  /\ UNCHANGED <<worker, shown>>

\* The language server's edits ask by themselves, a plugin's do not.
LspEdit ==
  /\ Changed
  /\ RequestParse(text'.rev)
  /\ UNCHANGED <<lastLen, worker, shown>>

PluginEdit ==
  /\ Changed
  /\ NoRequest
  /\ UNCHANGED <<lastLen, worker, shown>>

-----------------------------------------------------------------------------
\* A mutant: the worker keeps what it received first.
DrainKeepsFirst ==
  /\ worker.at = "draining"
  /\ queue # <<>>
  /\ queue' = Tail(queue)
  /\ UNCHANGED <<text, lastLen, worker, shown, accepted>>

\* recv
Receive ==
  /\ worker.at = "idle"
  /\ queue # <<>>
  /\ worker' = [at |-> "draining", rev |-> Head(queue)]
  /\ queue' = Tail(queue)
  /\ UNCHANGED <<text, lastLen, shown, accepted>>

\* try_recv until the channel is empty: only the last request counts ...
Drain ==
  /\ worker.at = "draining"
  /\ queue # <<>>
  /\ worker' = [worker EXCEPT !.rev = Head(queue)]
  /\ queue' = Tail(queue)
  /\ UNCHANGED <<text, lastLen, shown, accepted>>

\* ... and the parse begins, on a thread of its own.
BeginParse ==
  /\ worker.at = "draining"
  /\ queue = <<>>
  /\ worker' = [worker EXCEPT !.at = "parsing"]
  /\ UNCHANGED <<text, lastLen, queue, shown, accepted>>

Publish ==
  /\ worker.at = "parsing"
  /\ shown' = worker.rev
  /\ worker' = Idle
  /\ UNCHANGED <<text, lastLen, queue, accepted>>

WorkerStep == Receive \/ Drain \/ BeginParse \/ Publish
EditorStep == Key \/ LspEdit \/ PluginEdit

\* The runtime keeps scheduling the worker; the user may stop typing.
Spec == Init /\ [][EditorStep \/ WorkerStep]_vars /\ WF_vars(WorkerStep)

-----------------------------------------------------------------------------
TypeOK ==
  /\ text \in [rev : Nat, len : Lengths]
  /\ lastLen \in Lengths \cup {-1}
  /\ queue \in Seq(Nat)
  /\ worker \in [at : {"idle", "draining", "parsing"}, rev : Nat \cup {-1}]
  /\ shown \in Nat \cup {-1}
  /\ accepted \in Nat

\* Highlights never go back to an older text (worker_task).
HighlightsNeverGoBack == [][shown <= shown']_vars

\* Once the user rests, the highlights are those of the last request the channel
\* took: the worker always comes to it, and to nothing older after it.  A request lost to
\* a full channel is not made up for.
LastAcceptedIsShown == <>[](shown = accepted)
=============================================================================
