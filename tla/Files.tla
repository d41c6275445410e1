------------------------------- MODULE Files -------------------------------
(***************************************************************************)
(* What lives on disk and what the editor holds of it: documents with      *)
(* their modified flag and their saves (crates/onda-core/src/document.rs), *)
(* the session file, the persistent undo store (crates/onda-session) and   *)
(* the commands of crates/onda/src/main.rs that write, open, quit, restore *)
(* and start again, with crashes in the middle of a write.                 *)
(*                                                                         *)
(* A text is a number, fresh for every edit.  One window shows a document; *)
(* its undo tree is the line of texts it went through and the place in it  *)
(* (the tree itself is UndoTree's matter).  A tree is foreign once the     *)
(* window showed another document, or something else edited its own.       *)
(***************************************************************************)
EXTENDS Integers, Sequences, SequencesExt, FiniteSets

CONSTANTS Paths,      \* the files there are
          Images,     \* those the editor only previews
          MaxDocs,    \* bound on the documents open
          MaxTexts,   \* bound on the texts made by edits
          MaxBlobs,   \* undo trees the store keeps, 128
          MaxSteps    \* bound on the steps of a behaviour

VARIABLES disk,       \* the text of each file, or Missing
          session,    \* the session file: the buffers, or TornSession
          blobs,      \* the undo store, the latest written last
          running,
          docs,       \* App::docs
          shown,      \* the document of the window
          tree,       \* its undo tree
          previews,   \* the keys of App::preview_docs
          loaded,     \* App::undo_loaded
          texts,      \* texts made so far
          steps       \* steps taken so far

\* History: the texts that were ever in a file.
VARIABLES saved

onDisk == <<disk, session, blobs, saved>>
vars == <<disk, session, blobs, running, docs, shown, tree, previews, loaded, texts, steps, saved>>

Missing == -1
Torn == -2
NoPath == "none"
TornSession == <<[path |-> NoPath, unsaved |-> Torn]>>
Scratch == [path |-> NoPath, text |-> 0, modified |-> FALSE]
Fresh == [texts |-> <<>>, at |-> 0, foreign |-> FALSE]

\* Document::open
Opened(path) == [path |-> path, text |-> disk[path], modified |-> FALSE]

\* main opens the file it is given, or a scratch buffer.
Start(doc) ==
  /\ docs' = <<doc>>
  /\ shown' = 1
  /\ tree' = Fresh
  /\ previews' = {}
  /\ loaded' = {}
  /\ running' = TRUE

Init ==
  /\ disk \in [Paths -> {Missing, 0}]
  /\ session = <<>>
  /\ blobs = <<>>
  /\ running = TRUE
  /\ docs = <<Scratch>>
  /\ shown = 1
  /\ tree = Fresh
  /\ previews = {} /\ loaded = {}
  /\ texts = 0
  /\ steps = 0
  /\ saved = {0}

-----------------------------------------------------------------------------
Shown == docs[shown]
ReadOnly == shown \in previews

\* A save writes a temporary file and renames it: cut short, it is done or it is not.
Saved(path, text) == [disk EXCEPT ![path] = text]

\* A mutant: the file itself is written.
CutSaveInPlace(path, text) == {disk, Saved(path, text), Saved(path, Torn)}
CutSave(path, text) == {disk, Saved(path, text)}

\* A text has one blob, named by its hash: a new one takes its place.
OtherBlobs(text) == RemoveFirstMatch(blobs, LAMBDA b : b.text = text)

\* A mutant: the tree is stored under the text that was on disk before.
PersistedBefore(text) ==
  LET old == IF Shown.path = NoPath THEN text ELSE disk[Shown.path]
      all == Append(OtherBlobs(Shown.text), [text |-> old, tree |-> tree])
  IN  IF Len(all) > MaxBlobs THEN Tail(all) ELSE all

\* persist_undo_on_save: the window's tree under the text, and the oldest trees evicted.
Persisted(text) ==
  LET all == Append(OtherBlobs(text), [text |-> text, tree |-> tree])
  IN  IF Len(all) > MaxBlobs THEN Tail(all) ELSE all

\* The tree when something it does not know of changed what the window shows.
Estranged(text) == IF tree.texts = <<>> THEN tree ELSE [tree EXCEPT !.foreign = TRUE]

\* apply_transaction: an edit in the window, and one a plugin makes behind it.
Edit ==
  /\ running /\ texts < MaxTexts
  /\ texts' = texts + 1
  /\ docs' = [docs EXCEPT ![shown].text = texts', ![shown].modified = TRUE]
  /\ tree' = LET past == IF tree.texts = <<>> THEN <<Shown.text>> ELSE SubSeq(tree.texts, 1, tree.at)
             IN  [tree EXCEPT !.texts = Append(past, texts'), !.at = Len(past) + 1]
  /\ UNCHANGED <<onDisk, running, shown, previews, loaded>>

PluginEdit ==
  /\ running /\ texts < MaxTexts
  /\ texts' = texts + 1
  /\ docs' = [docs EXCEPT ![shown].text = texts', ![shown].modified = TRUE]
  /\ tree' = Estranged(texts')
  /\ UNCHANGED <<onDisk, running, shown, previews, loaded>>

\* maybe_load_persistent_undo: once per document, when the tree has nothing to undo.
Stored == {i \in DOMAIN blobs : blobs[i].text = Shown.text /\ blobs[i].tree # [torn |-> TRUE]}
TreeToUndo ==
  IF shown \in loaded \/ tree.at > 1 \/ Shown.path = NoPath \/ Stored = {} THEN tree
  ELSE blobs[CHOOSE i \in Stored : TRUE].tree

\* A foreign tree's inverse is applied to a text it was not made for: any text, or an error.
Undo ==
  /\ running
  /\ loaded' = loaded \cup {shown}
  /\ LET t == TreeToUndo IN
     IF t.at > 1
     THEN /\ tree' = [t EXCEPT !.at = @ - 1]
          /\ IF t.foreign
             THEN /\ texts < MaxTexts
                  /\ texts' = texts + 1
                  /\ docs' = [docs EXCEPT ![shown].text = texts', ![shown].modified = TRUE]
             ELSE /\ docs' = [docs EXCEPT ![shown].text = t.texts[t.at - 1], ![shown].modified = TRUE]
                  /\ UNCHANGED texts
     ELSE tree' = t /\ UNCHANGED <<docs, texts>>
  /\ UNCHANGED <<onDisk, running, shown, previews>>

Redo ==
  /\ running
  /\ tree.at \in 1..(Len(tree.texts) - 1) /\ ~tree.foreign
  /\ tree' = [tree EXCEPT !.at = @ + 1]
  /\ docs' = [docs EXCEPT ![shown].text = tree.texts[tree.at + 1], ![shown].modified = TRUE]
  /\ UNCHANGED <<onDisk, running, shown, previews, loaded, texts>>

-----------------------------------------------------------------------------
Shows(doc, index) ==
  /\ docs' = Append(docs, doc)
  /\ shown' = index
  /\ tree' = Estranged(doc.text)

\* :e and the other ways to open a file; images are previewed with an empty document.
Open(path) ==
  /\ running /\ Len(docs) < MaxDocs
  /\ \/ /\ path \in Images
        /\ Shows([path |-> path, text |-> 0, modified |-> FALSE], Len(docs) + 1)
        /\ previews' = previews \cup {Len(docs) + 1}
     \/ /\ path \notin Images /\ disk[path] # Missing
        /\ Shows(Opened(path), Len(docs) + 1)
        /\ UNCHANGED previews
  /\ UNCHANGED <<onDisk, running, loaded, texts>>

NextBuffer ==
  /\ running /\ Len(docs) > 1
  /\ shown' = 1 + (shown % Len(docs))
  /\ tree' = Estranged(docs[shown'].text)
  /\ UNCHANGED <<onDisk, running, docs, previews, loaded, texts>>

\* The document shown is saved under a path, which it keeps, whether that works or not.
SaveShown(path, works) ==
  /\ docs' = [docs EXCEPT ![shown].path = path, ![shown].modified = @ /\ ~works]
  /\ IF works
     THEN /\ disk' = Saved(path, Shown.text)
          /\ saved' = saved \cup {Shown.text}
          /\ blobs' = Persisted(Shown.text)
     ELSE UNCHANGED <<disk, saved, blobs>>

\* :w and :w path
Write(path) ==
  /\ running /\ ~ReadOnly
  /\ \E works \in BOOLEAN : SaveShown(path, works)
  /\ UNCHANGED <<session, running, shown, tree, previews, loaded, texts>>

\* build_session: the text of a scratch buffer is kept, of others the path.
BuildSession(all) ==
  [i \in DOMAIN all |->
     [path |-> all[i].path,
      unsaved |-> IF all[i].path = NoPath /\ all[i].modified THEN all[i].text ELSE Missing]]

\* :q and :q!, with the session that run saves at its end
Quit(force) ==
  /\ running
  /\ ~force => ~Shown.modified
  /\ running' = FALSE
  /\ session' = BuildSession(docs)
  /\ UNCHANGED <<disk, blobs, docs, shown, tree, previews, loaded, texts, saved>>

WriteQuit ==
  /\ running /\ ~ReadOnly /\ Shown.path # NoPath
  /\ SaveShown(Shown.path, TRUE)
  /\ running' = FALSE
  /\ session' = BuildSession(docs')
  /\ UNCHANGED <<shown, tree, previews, loaded, texts>>

\* :wqa saves in order what is modified; the first save that fails ends the command.
Unsaved == {i \in DOMAIN docs : docs[i].modified}
LastSaved(path, upTo) ==
  LET at == {i \in Unsaved : i <= upTo /\ docs[i].path = path}
  IN  IF at = {} THEN disk[path] ELSE docs[CHOOSE i \in at : \A j \in at : j <= i].text

WriteQuitAll ==
  /\ running
  /\ \E upTo \in 0..Len(docs) :
       /\ \A i \in Unsaved : i <= upTo => docs[i].path # NoPath
       /\ upTo < Len(docs) => upTo + 1 \in Unsaved
       /\ disk' = [p \in Paths |-> LastSaved(p, upTo)]
       /\ saved' = saved \cup {docs[i].text : i \in {j \in Unsaved : j <= upTo}}
       /\ docs' = [i \in DOMAIN docs |->
                     IF i <= upTo THEN [docs[i] EXCEPT !.modified = FALSE] ELSE docs[i]]
       /\ running' = (upTo < Len(docs))
       /\ session' = IF upTo = Len(docs) THEN BuildSession(docs') ELSE session
  /\ UNCHANGED <<blobs, shown, tree, previews, loaded, texts>>

\* :SessionSave, and :SessionRestore, which asks nothing and keeps the previews' indices.
SessionSave ==
  /\ running
  /\ session' = BuildSession(docs)
  /\ UNCHANGED <<disk, blobs, running, docs, shown, tree, previews, loaded, texts, saved>>

\* A mutant: scratch buffers come back as if they were saved.
RestoredClean(b) ==
  IF b.path # NoPath
  THEN IF disk[b.path] = Missing THEN Scratch ELSE Opened(b.path)
  ELSE IF b.unsaved = Missing THEN Scratch
  ELSE [path |-> NoPath, text |-> b.unsaved, modified |-> FALSE]

Restored(b) ==
  IF b.path # NoPath
  THEN IF disk[b.path] = Missing THEN Scratch ELSE Opened(b.path)
  ELSE IF b.unsaved = Missing THEN Scratch
  ELSE [path |-> NoPath, text |-> b.unsaved, modified |-> TRUE]

SessionRestore ==
  /\ running
  /\ session \notin {<<>>, TornSession}
  /\ docs' = [i \in DOMAIN session |-> Restored(session[i])]
  /\ shown' = 1
  /\ tree' = Fresh
  /\ UNCHANGED <<onDisk, running, previews, loaded, texts>>

-----------------------------------------------------------------------------
\* The process dies in the middle of a save, of the session file or of an undo tree,
\* which unlike a document are written in place; or between two writes.
Crash ==
  /\ running
  /\ running' = FALSE
  /\ \/ UNCHANGED <<disk, session, blobs, saved>>
     \/ /\ Shown.path # NoPath
        /\ disk' \in CutSave(Shown.path, Shown.text)
        /\ saved' = IF disk' = disk THEN saved ELSE saved \cup {Shown.text}
        /\ UNCHANGED <<session, blobs>>
     \/ session' = TornSession /\ UNCHANGED <<disk, blobs, saved>>
     \/ /\ Shown.path # NoPath
        /\ disk' = Saved(Shown.path, Shown.text)
        /\ saved' = saved \cup {Shown.text}
        /\ blobs' = Append(OtherBlobs(Shown.text), [text |-> Shown.text, tree |-> [torn |-> TRUE]])
        /\ UNCHANGED session
  /\ UNCHANGED <<docs, shown, tree, previews, loaded, texts>>

Restart ==
  /\ ~running
  /\ \/ Start(Scratch)
     \/ \E p \in Paths \ Images : disk[p] # Missing /\ Start(Opened(p))
  /\ UNCHANGED <<onDisk, texts>>

Next ==
  /\ steps < MaxSteps
  /\ steps' = steps + 1
  /\ \/ Edit \/ PluginEdit \/ Undo \/ Redo \/ NextBuffer
     \/ \E p \in Paths : Open(p) \/ Write(p)
     \/ \E force \in BOOLEAN : Quit(force)
     \/ WriteQuit \/ WriteQuitAll \/ SessionSave \/ SessionRestore \/ Crash \/ Restart

Spec == Init /\ [][Next]_vars

-----------------------------------------------------------------------------
\* Wherever the process dies, a file has a text that a document had, whole.
FilesAreWhole == \A p \in Paths : disk[p] # Torn

\* :q and :wq never leave behind a text of the document in view that was never in a file,
\* and :wqa none of any document; what a scratch buffer held counts when the session
\* file has it.
Kept(i) == docs[i].text \in saved' \/ \E k \in DOMAIN session' : session'[k].unsaved = docs[i].text
UnsavedIsAskedFor ==
  [][running /\ ~running' =>
       /\ Quit(FALSE) \/ WriteQuit => Kept(shown)
       /\ WriteQuitAll => \A i \in DOMAIN docs : Kept(i)]_vars

\* The undo tree of the window, made here or restored from the store, is at the text the
\* window shows, and every tree stored is at the text it is stored under: so undo never
\* gives a text the document did not have.  Trees are excepted whose window showed
\* another document or that a plugin edited behind (maybe_load_persistent_undo).
UndoFitsTheText ==
  /\ tree.at > 0 /\ ~tree.foreign => tree.texts[tree.at] = Shown.text
  /\ \A i \in DOMAIN blobs :
       LET t == blobs[i].tree IN
       t # [torn |-> TRUE] => (t.at > 0 /\ ~t.foreign => t.texts[t.at] = blobs[i].text)
=============================================================================
