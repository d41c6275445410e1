---------------------------- MODULE SourceControl ----------------------------
(***************************************************************************)
(* The Source Control view (crates/onda/src/scm.rs and the SCM part of     *)
(* crates/onda/src/main.rs): every git command runs on a thread of its     *)
(* own, which asks for the status afterwards and sends it to the editor.   *)
(* Nothing orders two such threads: the editor shows the status that       *)
(* comes last, whichever was read last.  A command that fails is logged.   *)
(*                                                                         *)
(* The repository is, per file, whether it has staged and other changes;   *)
(* the status is the sequence of the files that have some.                 *)
(***************************************************************************)
EXTENDS Integers, Sequences, FiniteSets

CONSTANTS Tracked,     \* the files, numbers, in the order of git status
          MaxThreads,  \* bound on the threads started
          MaxChanges   \* bound on the edits of files made elsewhere

\* A repository has finitely many files.
ASSUME GitAssumption == IsFiniteSet(Tracked)

VARIABLES repo,      \* file -> whether it has staged and other changes
          status,    \* App::scm_status
          selected,  \* App::scm_selected, counted from 1
          threads,   \* the threads: what each is to run, and how far it is
          inbox,     \* bg_rx: the statuses sent and not taken
          started,   \* number of threads started, for their names and the bound
          edits,     \* number of edits made elsewhere, for the bound
          alone,     \* history: the threads at work never met another
          stale      \* history: the repository changed since a thread last read it

gitVars == <<repo, status, selected, threads, inbox, started, edits, alone, stale>>

Clean == [staged |-> FALSE, other |-> FALSE]
NoCommand == [run |-> "none", file |-> 0]
Failed == <<[file |-> 0, is |-> Clean]>>  \* an error in place of a status

\* scm::status: one entry for each file that has changes, in order.
StatusOf(r) ==
  LET changed == {f \in Tracked : r[f] # Clean}
      At(i) == CHOOSE f \in changed : Cardinality({g \in changed : g <= f}) = i
  IN  [i \in 1..Cardinality(changed) |-> [file |-> At(i), is |-> r[At(i)]]]

GitInit ==
  /\ repo \in [Tracked -> {Clean, [staged |-> FALSE, other |-> TRUE]}]
  /\ status = <<>>
  /\ selected = 1
  /\ threads = {}
  /\ inbox = <<>>
  /\ started = 0
  /\ edits = 0
  /\ alone = TRUE
  /\ stale = TRUE

Quiet == threads = {} /\ inbox = <<>>

-----------------------------------------------------------------------------
\* scm_run_then_refresh, and refresh_scm when there is no command.
Spawn(command) ==
  /\ started < MaxThreads
  /\ started' = started + 1
  /\ threads' = threads \cup {[id |-> started, command |-> command,
                               at |-> "start", read |-> <<>>]}
  /\ alone' = Quiet

\* handle_scm_key and commit_prompt: a stages, u unstages what is highlighted, R.
ScmKey ==
  /\ \/ Spawn(NoCommand)
     \/ /\ selected <= Len(status)
        /\ \E run \in {"add", "reset"} : Spawn([run |-> run, file |-> status[selected].file])
     \/ Spawn([run |-> "commit", file |-> 0])
  /\ UNCHANGED <<repo, status, selected, inbox, edits, stale>>

\* j and k.
Select ==
  /\ selected' \in {IF status = <<>> \/ selected = Len(status) THEN selected ELSE selected + 1,
                    IF selected = 1 THEN 1 ELSE selected - 1}
  /\ UNCHANGED <<repo, status, threads, inbox, started, edits, alone, stale>>

\* What git does to the repository.
After(command) ==
  CASE command.run = "none" -> repo
    [] command.run = "add" ->
         [repo EXCEPT ![command.file] = [staged |-> @.staged \/ @.other, other |-> FALSE]]
    [] command.run = "reset" ->
         [repo EXCEPT ![command.file] = [staged |-> FALSE, other |-> @.staged \/ @.other]]
    [] command.run = "commit" -> [f \in Tracked |-> [repo[f] EXCEPT !.staged = FALSE]]

\* A thread: the command, which may fail; the status; the message.
RunGit(t) ==
  /\ t.at = "start"
  /\ repo' \in {After(t.command), repo}
  /\ threads' = (threads \ {t}) \cup {[t EXCEPT !.at = "ran"]}
  /\ UNCHANGED <<inbox, stale>>

ReadStatusFirst(t) ==  \* a mutant: the status is read before the command runs
  /\ t.at \in {"start", "ran"}
  /\ IF t.at = "ran" THEN UNCHANGED repo ELSE repo' \in {After(t.command), repo}
  /\ threads' = (threads \ {t}) \cup {[t EXCEPT !.at = "read", !.read = StatusOf(repo)]}
  /\ stale' = FALSE
  /\ UNCHANGED inbox

\* git status itself may fail.
ReadStatus(t) ==
  /\ t.at = "ran"
  /\ \E read \in {StatusOf(repo), Failed} :
       /\ threads' = (threads \ {t}) \cup {[t EXCEPT !.at = "read", !.read = read]}
       /\ stale' = (read = Failed)
  /\ UNCHANGED <<repo, inbox>>

Send(t) ==
  /\ t.at = "read"
  /\ inbox' = Append(inbox, t.read)
  /\ threads' = threads \ {t}
  /\ UNCHANGED <<repo, stale>>

Work ==
  /\ \E t \in threads : RunGit(t) \/ ReadStatus(t) \/ Send(t)
  /\ UNCHANGED <<status, selected, started, edits, alone>>

\* The highlight stays at its row while there is such a row.
Clamped(files) ==
  IF selected <= Len(files) THEN selected ELSE IF files = <<>> THEN 1 ELSE Len(files)

\* drain_bg_channel, ScmStatus: an error is a message.
Take ==
  /\ inbox # <<>>
  /\ IF Head(inbox) = Failed THEN UNCHANGED <<selected, status>>
     ELSE /\ selected' = Clamped(Head(inbox))
          /\ status' = Head(inbox)
  /\ inbox' = Tail(inbox)
  /\ UNCHANGED <<repo, threads, started, edits, alone, stale>>

\* A file is changed: by a save, in the explorer, by another program.
EditFile ==
  /\ edits < MaxChanges
  /\ edits' = edits + 1
  /\ \E f \in Tracked : repo' = [repo EXCEPT ![f].other = TRUE]
  /\ stale' = TRUE
  /\ UNCHANGED <<status, selected, threads, inbox, started, alone>>

GitNext == ScmKey \/ Select \/ Work \/ Take \/ EditFile

GitSpec == GitInit /\ [][GitNext]_gitVars

-----------------------------------------------------------------------------
\* When the last command ran alone and is done, and no file changed since its
\* status was read, the view shows the repository, with a file highlighted if
\* there is one (scm_run_then_refresh, drain_bg_channel).
PanelShowsTheRepository ==
  /\ Quiet /\ alone /\ ~stale => status = StatusOf(repo)
  /\ status # <<>> => selected \in 1..Len(status)
=============================================================================
