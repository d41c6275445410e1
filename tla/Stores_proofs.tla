---------------------------- MODULE Stores_proofs ---------------------------
(***************************************************************************)
(* What is kept outside the editor and shown in it, for any packages,      *)
(* files, commands, starts, threads, edits, documents and trees: the       *)
(* session and undo stores (module Files: undo never gives a text the      *)
(* document did not have, across saves, crashes and restarts), the store   *)
(* of the plugins and the edits of a plugin (Plugins), the view of the     *)
(* repository (SourceControl), the file tree (Explorer).                   *)
(***************************************************************************)
EXTENDS Files, Plugins, SourceControl, Explorer, Lemmas

\* Files

\* What a file may hold: a text that is whole, or nothing.
OnFile == Nat \cup {Missing}

TornTree == [torn |-> TRUE]
Trees == [texts : Seq(Nat), at : Nat, foreign : BOOLEAN]
Docs == [path : Paths \cup {NoPath}, text : Nat, modified : BOOLEAN]
Buffers == [path : Paths \cup {NoPath}, unsaved : OnFile]
Sessions == Seq(Buffers) \cup {TornSession}
Blobs == [text : Nat, tree : Trees \cup {TornTree}]

\* A tree at the text it is about, unless it is foreign; without texts it is nowhere.
Fits(t, text) ==
  /\ t \in Trees
  /\ t.at \in 0..Len(t.texts)
  /\ t.texts # <<>> => t.at > 0
  /\ t.at > 0 /\ ~t.foreign => t.texts[t.at] = text

FilesTyped ==
  /\ disk \in [Paths -> OnFile]
  /\ session \in Sessions
  /\ blobs \in Seq(Blobs)
  /\ docs \in Seq(Docs) /\ shown \in 1..Len(docs)
  /\ texts \in Nat

TreesFit ==
  /\ Fits(tree, Shown.text)
  /\ \A i \in 1..Len(blobs) : blobs[i].tree # TornTree => Fits(blobs[i].tree, blobs[i].text)

FilesInv == FilesTyped /\ TreesFit

-----------------------------------------------------------------------------
\* What is left without a text's blob was stored before (UndoStore::save).
LEMMA OthersWereStored ==
  ASSUME FilesTyped, NEW text
  PROVE  /\ OtherBlobs(text) \in Seq(Blobs)
         /\ \A j \in 1..Len(OtherBlobs(text)) : \E k \in 1..Len(blobs) : OtherBlobs(text)[j] = blobs[k]
<1> DEFINE I == {i \in 1..Len(blobs) : blobs[i].text = text}
<1>1. blobs \in Seq(Blobs) /\ Len(blobs) \in Nat
  BY DEF FilesTyped
<1>2. CASE I = {}
  <2>1. OtherBlobs(text) = blobs
    BY <1>2 DEF OtherBlobs, RemoveFirstMatch
  <2> QED  BY <2>1, <1>1
<1>3. CASE I # {}
  <2>1. PICK i \in I : \A j \in I : i <= j
    <3>1. I \in SUBSET Nat
      BY <1>1
    <3> QED  BY <3>1, <1>3, LeastElement
  <2>2. PICK m \in 1..Len(blobs) : OtherBlobs(text) = RemoveAt(blobs, m)
    <3>1. Min(I) \in I
      BY <2>1 DEF Min
    <3>2. OtherBlobs(text) = RemoveAt(blobs, Min(I))
      BY <1>3 DEF OtherBlobs, RemoveFirstMatch, SelectInSeq
    <3> QED  BY <3>1, <3>2
  <2>3. RemoveAt(blobs, m) = SubSeq(blobs, 1, m - 1) \o SubSeq(blobs, m + 1, Len(blobs))
    BY DEF RemoveAt
  <2>4. SubSeq(blobs, 1, m - 1) \in Seq(Blobs) /\ SubSeq(blobs, m + 1, Len(blobs)) \in Seq(Blobs)
    BY <1>1
  <2>5. RemoveAt(blobs, m) \in Seq(Blobs)
    BY <2>3, <2>4, ConcatProperties
  <2>6. \A j \in 1..Len(RemoveAt(blobs, m)) : \E k \in 1..Len(blobs) : RemoveAt(blobs, m)[j] = blobs[k]
    <3>1. blobs \in Seq(Blobs)
      BY <1>1
    <3> QED
      BY <3>1, RemoveAtKeeps
  <2> QED  BY <2>2, <2>5, <2>6
<1> QED
  BY <1>2, <1>3

\* A blob added, and perhaps the oldest evicted, leaves every tree at its text.
LEMMA StoringFits ==
  ASSUME FilesInv, NEW text \in Nat, NEW t \in Trees \cup {TornTree},
         t # TornTree => Fits(t, text),
         NEW all, all = Append(OtherBlobs(text), [text |-> text, tree |-> t]),
         NEW kept, kept = all \/ kept = Tail(all)
  PROVE  /\ kept \in Seq(Blobs)
         /\ \A i \in 1..Len(kept) : kept[i].tree # TornTree => Fits(kept[i].tree, kept[i].text)
<1> DEFINE new == [text |-> text, tree |-> t]
<1> DEFINE Good(b) == b.tree # TornTree => Fits(b.tree, b.text)
<1>1. OtherBlobs(text) \in Seq(Blobs)
      /\ \A j \in 1..Len(OtherBlobs(text)) : Good(OtherBlobs(text)[j])
  BY OthersWereStored DEF FilesInv, TreesFit
<1>2. new \in Blobs /\ Good(new)
  BY DEF Blobs
<1> HIDE DEF new, Good
<1>3. all = Append(OtherBlobs(text), new)
  BY DEF new
<1>4. all \in Seq(Blobs) /\ all # <<>> /\ \A i \in 1..Len(all) : Good(all[i])
  BY <1>1, <1>2, <1>3
<1>5. Tail(all) \in Seq(Blobs) /\ \A i \in 1..Len(Tail(all)) : Good(Tail(all)[i])
  BY <1>4
<1> QED
  BY <1>4, <1>5 DEF Good

\* The editor starts with an empty tree (main).
LEMMA FreshFits == Fits(Fresh, 0) /\ \A x : Fits(Fresh, x)
  BY DEF Fits, Fresh, Trees

\* A tree the window keeps when something else changed the text (apply_plugin_calls).
LEMMA EstrangedFits ==
  ASSUME FilesInv, NEW x
  PROVE  Fits(Estranged(x), x)
<1>1. Fits(tree, Shown.text) /\ tree \in Trees
  BY DEF FilesInv, TreesFit, Fits
<1>2. CASE tree.texts = <<>>
  <2>1. tree.at = 0
    BY <1>1, <1>2 DEF Fits, Trees
  <2> QED  BY <1>1, <1>2, <2>1 DEF Fits, Estranged
<1>3. CASE tree.texts # <<>>
  <2> DEFINE t == [tree EXCEPT !.foreign = TRUE]
  <2>1. t \in Trees /\ t.texts = tree.texts /\ t.at = tree.at /\ t.foreign
    BY <1>1 DEF Trees
  <2>2. Estranged(x) = t
    BY <1>3 DEF Estranged
  <2> HIDE DEF t
  <2> QED  BY <1>1, <1>3, <2>1, <2>2 DEF Fits
<1> QED
  BY <1>2, <1>3

-----------------------------------------------------------------------------
\* The process starts with nothing open (main).
LEMMA InitFits == Init => FilesInv
<1> SUFFICES ASSUME Init PROVE FilesInv
  OBVIOUS
<1>1. Scratch \in Docs
  BY DEF Scratch, Docs
<1>2. docs \in Seq(Docs) /\ Len(docs) = 1
  BY <1>1 DEF Init
<1>3. disk \in [Paths -> OnFile]
  BY DEF Init, OnFile
<1>4. FilesTyped
  BY <1>2, <1>3 DEF Init, FilesTyped, Sessions
<1>5. TreesFit
  BY FreshFits DEF Init, TreesFit
<1> QED
  BY <1>4, <1>5 DEF FilesInv

\* What leaves the store as it is has only the window's tree to care for.
LEMMA WindowFits ==
  ASSUME FilesInv, UNCHANGED <<disk, session, blobs>>, texts' \in Nat,
         docs' \in Seq(Docs), shown' \in 1..Len(docs'), Fits(tree', docs'[shown'].text)
  PROVE  FilesInv'
<1>1. FilesTyped'
  BY DEF FilesInv, FilesTyped
<1>2. TreesFit'
  BY DEF FilesInv, TreesFit, Shown
<1> QED
  BY <1>1, <1>2 DEF FilesInv

\* What the window shows gets another text (apply_transaction).
LEMMA NewText ==
  ASSUME FilesInv, NEW x \in Nat, docs' = [docs EXCEPT ![shown].text = x, ![shown].modified = TRUE],
         shown' = shown
  PROVE  docs' \in Seq(Docs) /\ shown' \in 1..Len(docs') /\ docs'[shown'].text = x
<1> DEFINE doc == [docs[shown] EXCEPT !.text = x, !.modified = TRUE]
<1>1. docs \in Seq(Docs) /\ shown \in 1..Len(docs) /\ docs[shown] \in Docs
  BY DEF FilesInv, FilesTyped
<1>2. doc \in Docs /\ doc.text = x
  BY <1>1 DEF Docs
<1>3. docs' = [docs EXCEPT ![shown] = doc]
  <2> DEFINE first == [docs EXCEPT ![shown] = [docs[shown] EXCEPT !.text = x]]
  <2>1. docs' = [first EXCEPT ![shown] = [first[shown] EXCEPT !.modified = TRUE]]
    OBVIOUS
  <2>2. first[shown] = [docs[shown] EXCEPT !.text = x]
    BY <1>1
  <2>3. [first[shown] EXCEPT !.modified = TRUE] = doc
    BY <2>2
  <2>4. docs' = [first EXCEPT ![shown] = doc]
    BY <2>1, <2>3
  <2> HIDE DEF doc
  <2> QED  BY <1>1, <2>4
<1> HIDE DEF doc
<1> DEFINE new == [docs EXCEPT ![shown] = doc]
<1>4. new \in Seq(Docs) /\ Len(new) = Len(docs) /\ new[shown] = doc
  BY <1>1, <1>2, ExceptSeq
<1>5. docs' = new
  BY <1>3
<1> HIDE DEF new
<1> QED
  BY <1>1, <1>2, <1>4, <1>5

\* An edit adds its text where the tree is (apply_insert).
LEMMA EditFits == FilesInv /\ Edit => FilesInv'
<1> SUFFICES ASSUME FilesInv, Edit PROVE FilesInv'
  OBVIOUS
<1>1. texts' \in Nat /\ texts' \in Nat
  BY DEF Edit, FilesInv, FilesTyped
<1>2. docs' \in Seq(Docs) /\ shown' \in 1..Len(docs') /\ docs'[shown'].text = texts'
  BY <1>1, NewText DEF Edit
<1>3. Fits(tree', texts')
  <2> DEFINE past == IF tree.texts = <<>> THEN <<Shown.text>> ELSE SubSeq(tree.texts, 1, tree.at)
  <2>1. tree \in Trees /\ tree.texts \in Seq(Nat) /\ tree.at \in 0..Len(tree.texts)
    BY DEF FilesInv, TreesFit, Fits, Trees
  <2>2. Shown.text \in Nat
    <3>1. docs[shown] \in Docs
      BY DEF FilesInv, FilesTyped
    <3> QED  BY <3>1 DEF Shown, Docs
  <2>3. past \in Seq(Nat)
    <3>1. <<Shown.text>> \in Seq(Nat)
      BY <2>2
    <3>2. SubSeq(tree.texts, 1, tree.at) \in Seq(Nat)
      BY <2>1
    <3> QED  BY <3>1, <3>2
  <2>4. tree' = [tree EXCEPT !.texts = Append(past, texts'), !.at = Len(past) + 1]
    BY DEF Edit
  <2> HIDE DEF past
  <2>5. /\ Append(past, texts') \in Seq(Nat) /\ Len(past) + 1 \in Nat
        /\ Len(Append(past, texts')) = Len(past) + 1 /\ Append(past, texts')[Len(past) + 1] = texts'
        /\ Append(past, texts') # <<>> /\ Len(past) \in Nat
    BY <2>3, <1>1
  <2>6. /\ tree' \in Trees /\ tree'.texts = Append(past, texts') /\ tree'.at = Len(past) + 1
    BY <2>1, <2>4, <2>5 DEF Trees
  <2> QED  BY <2>5, <2>6 DEF Fits
<1> QED
  BY <1>1, <1>2, <1>3, WindowFits DEF Edit, onDisk

\* A plugin edits behind the tree (apply_plugin_calls).
LEMMA PluginEditFits == FilesInv /\ PluginEdit => FilesInv'
<1> SUFFICES ASSUME FilesInv, PluginEdit PROVE FilesInv'
  OBVIOUS
<1>1. texts' \in Nat /\ texts' \in Nat
  BY DEF PluginEdit, FilesInv, FilesTyped
<1>2. docs' \in Seq(Docs) /\ shown' \in 1..Len(docs') /\ docs'[shown'].text = texts'
  BY <1>1, NewText DEF PluginEdit
<1>3. Fits(tree', texts')
  BY EstrangedFits DEF PluginEdit
<1> QED
  BY <1>1, <1>2, <1>3, WindowFits DEF PluginEdit, onDisk

\* The tree that undo walks, of the window or of the store, is at the text on show
\* (maybe_load_persistent_undo).
LEMMA TreeToUndoFits == FilesInv => Fits(TreeToUndo, Shown.text)
<1> SUFFICES ASSUME FilesInv PROVE Fits(TreeToUndo, Shown.text)
  OBVIOUS
<1>1. CASE TreeToUndo = tree
  BY <1>1 DEF FilesInv, TreesFit
<1>2. CASE TreeToUndo # tree
  <2>1. Stored # {} /\ TreeToUndo = blobs[CHOOSE i \in Stored : TRUE].tree
    BY <1>2 DEF TreeToUndo
  <2>2. PICK i \in Stored : TreeToUndo = blobs[i].tree
    BY <2>1
  <2>3. i \in 1..Len(blobs) /\ blobs[i].text = Shown.text /\ blobs[i].tree # TornTree
    BY <2>2 DEF Stored, TornTree, FilesInv, FilesTyped
  <2>4. Fits(blobs[i].tree, blobs[i].text)
    BY <2>3 DEF FilesInv, TreesFit
  <2> QED  BY <2>2, <2>3, <2>4
<1> QED
  BY <1>1, <1>2

\* Undo goes to the text before, unless the tree is foreign (execute_action).
LEMMA UndoFits == FilesInv /\ Undo => FilesInv'
<1> SUFFICES ASSUME FilesInv, Undo PROVE FilesInv'
  OBVIOUS
<1> DEFINE t == TreeToUndo
<1>1. Fits(t, Shown.text) /\ t \in Trees
  BY TreeToUndoFits DEF Fits
<1>2. UNCHANGED <<disk, session, blobs, shown>> /\ texts \in Nat
  BY DEF Undo, onDisk, FilesInv, FilesTyped
<1>3. CASE t.at > 1
  <2> DEFINE u == [t EXCEPT !.at = @ - 1]
  <2>1. tree' = u
    BY <1>3 DEF Undo
  <2> HIDE DEF t
  <2>2. t.at \in Nat /\ t.texts \in Seq(Nat) /\ t.at \in 1..Len(t.texts) /\ t.at - 1 \in 1..Len(t.texts)
    BY <1>1, <1>3 DEF Fits, Trees
  <2>3. u \in Trees /\ u.texts = t.texts /\ u.at = t.at - 1 /\ u.foreign = t.foreign
    BY <1>1, <2>2 DEF Trees
  <2> USE DEF t
  <2>4. CASE t.foreign
    <3>1. texts' \in Nat /\ docs' = [docs EXCEPT ![shown].text = texts', ![shown].modified = TRUE]
      BY <1>2, <1>3, <2>4 DEF Undo
    <3> HIDE DEF t, u
    <3>2. texts' \in Nat
      BY <3>1
    <3>3. docs' \in Seq(Docs) /\ shown' \in 1..Len(docs')
      BY <1>2, <3>1, <3>2, NewText
    <3>4. Fits(u, docs'[shown'].text)
      BY <2>2, <2>3, <2>4 DEF Fits
    <3> QED  BY <1>2, <2>1, <3>1, <3>3, <3>4, WindowFits
  <2>5. CASE ~t.foreign
    <3>1. texts' = texts /\ docs' = [docs EXCEPT ![shown].text = t.texts[t.at - 1], ![shown].modified = TRUE]
      BY <1>3, <2>5 DEF Undo
    <3> HIDE DEF t, u
    <3>2. t.texts[t.at - 1] \in Nat
      BY <2>2
    <3>3. docs' \in Seq(Docs) /\ shown' \in 1..Len(docs') /\ docs'[shown'].text = t.texts[t.at - 1]
      BY <1>2, <3>1, <3>2, NewText
    <3>4. Fits(u, docs'[shown'].text)
      BY <2>2, <2>3, <3>3 DEF Fits
    <3> QED  BY <1>2, <2>1, <3>1, <3>3, <3>4, WindowFits
  <2> QED  BY <2>4, <2>5
<1>4. CASE ~(t.at > 1)
  <2>1. tree' = t /\ docs' = docs /\ texts' = texts
    BY <1>4 DEF Undo
  <2> HIDE DEF t
  <2>2. docs' \in Seq(Docs) /\ shown' \in 1..Len(docs') /\ docs'[shown'] = Shown
    BY <1>2, <2>1 DEF FilesInv, FilesTyped, Shown
  <2> QED  BY <1>1, <1>2, <2>1, <2>2, WindowFits
<1> QED
  BY <1>3, <1>4

\* Redo goes to the text after (execute_action).
LEMMA RedoFits == FilesInv /\ Redo => FilesInv'
<1> SUFFICES ASSUME FilesInv, Redo PROVE FilesInv'
  OBVIOUS
<1> DEFINE u == [tree EXCEPT !.at = @ + 1]
<1>1. tree \in Trees /\ tree.at \in 0..Len(tree.texts)
  BY DEF FilesInv, TreesFit, Fits
<1>2. tree' = u /\ tree.at \in 1..(Len(tree.texts) - 1) /\ UNCHANGED <<disk, session, blobs, shown, texts>>
      /\ docs' = [docs EXCEPT ![shown].text = tree.texts[tree.at + 1], ![shown].modified = TRUE]
  BY DEF Redo, onDisk
<1>3. tree.at \in Nat /\ tree.texts \in Seq(Nat) /\ tree.at + 1 \in 1..Len(tree.texts)
  BY <1>1, <1>2 DEF Trees
<1>4. u \in Trees /\ u.texts = tree.texts /\ u.at = tree.at + 1
  BY <1>1, <1>3 DEF Trees
<1> HIDE DEF u
<1>5. tree.texts[tree.at + 1] \in Nat
  BY <1>3
<1>6. docs' \in Seq(Docs) /\ shown' \in 1..Len(docs') /\ docs'[shown'].text = tree.texts[tree.at + 1]
  BY <1>2, <1>5, NewText
<1>7. Fits(u, docs'[shown'].text)
  BY <1>3, <1>4, <1>6 DEF Fits
<1>8. texts' \in Nat
  BY <1>2 DEF FilesInv, FilesTyped
<1> QED
  BY <1>2, <1>6, <1>7, <1>8, WindowFits

-----------------------------------------------------------------------------
\* The document shown gets a path, and perhaps loses its mark (Document::save_to).
LEMMA NewPath ==
  ASSUME FilesInv, NEW p \in Paths, NEW works \in BOOLEAN, shown' = shown,
         docs' = [docs EXCEPT ![shown].path = p, ![shown].modified = @ /\ ~works]
  PROVE  docs' \in Seq(Docs) /\ shown' \in 1..Len(docs') /\ docs'[shown'].text = Shown.text
<1> DEFINE doc == [docs[shown] EXCEPT !.path = p, !.modified = @ /\ ~works]
           new == [docs EXCEPT ![shown] = doc]
           first == [docs EXCEPT ![shown] = [docs[shown] EXCEPT !.path = p]]
<1>1. docs \in Seq(Docs) /\ shown \in 1..Len(docs) /\ docs[shown] \in Docs
  BY DEF FilesInv, FilesTyped
<1>2. doc \in Docs /\ doc.text = docs[shown].text
  <2>1. (docs[shown].modified /\ ~works) \in BOOLEAN
    OBVIOUS
  <2> QED  BY <1>1, <2>1 DEF Docs
<1>3. docs' = new
  <2>1. docs' = [first EXCEPT ![shown] = [first[shown] EXCEPT !.modified = @ /\ ~works]]
    OBVIOUS
  <2>2. first[shown] = [docs[shown] EXCEPT !.path = p]
    BY <1>1
  <2>3. [first[shown] EXCEPT !.modified = @ /\ ~works] = doc
    BY <2>2, <1>1 DEF Docs
  <2>4. docs' = [first EXCEPT ![shown] = doc]
    BY <2>1, <2>3
  <2> HIDE DEF doc
  <2> QED  BY <1>1, <2>4
<1> HIDE DEF doc
<1>4. new \in Seq(Docs) /\ Len(new) = Len(docs) /\ new[shown] = doc
  BY <1>1, <1>2, ExceptSeq
<1> HIDE DEF new
<1> QED
  BY <1>1, <1>2, <1>3, <1>4 DEF Shown

\* A session has the buffers there are (build_session).
LEMMA SessionsTyped ==
  ASSUME NEW all \in Seq(Docs)
  PROVE  BuildSession(all) \in Sessions
<1>1. \A i \in 1..Len(all) : all[i] \in Docs
  OBVIOUS
<1>2. \A i \in 1..Len(all) :
        [path |-> all[i].path,
         unsaved |-> IF all[i].path = NoPath /\ all[i].modified THEN all[i].text ELSE Missing] \in Buffers
  BY <1>1 DEF Docs, Buffers, OnFile
<1>3. BuildSession(all) \in [1..Len(all) -> Buffers] /\ Len(all) \in Nat
  BY <1>2 DEF BuildSession
<1> QED
  BY <1>3, IsASeq DEF Sessions

\* A save stores the window's tree under the text it is at (persist_undo_on_save).
LEMMA SaveFits ==
  ASSUME FilesInv, NEW p \in Paths, NEW works \in BOOLEAN, SaveShown(p, works),
         UNCHANGED <<shown, tree, texts>>, session' \in Sessions
  PROVE  FilesInv'
<1>1. docs' \in Seq(Docs) /\ shown' \in 1..Len(docs') /\ docs'[shown'].text = Shown.text
  BY NewPath DEF SaveShown
<1>2. Shown.text \in Nat
  <2>1. docs[shown] \in Docs
    BY DEF FilesInv, FilesTyped
  <2> QED  BY <2>1 DEF Shown, Docs
<1>3. disk' \in [Paths -> OnFile]
  BY <1>2 DEF SaveShown, Saved, FilesInv, FilesTyped, OnFile
<1>4. tree \in Trees /\ Fits(tree, Shown.text)
  BY DEF FilesInv, TreesFit, Fits
<1>5. /\ blobs' \in Seq(Blobs)
      /\ \A i \in 1..Len(blobs') : blobs'[i].tree # TornTree => Fits(blobs'[i].tree, blobs'[i].text)
  <2>1. CASE works
    <3> DEFINE all == Append(OtherBlobs(Shown.text), [text |-> Shown.text, tree |-> tree])
    <3>1. blobs' = all \/ blobs' = Tail(all)
      BY <2>1 DEF SaveShown, Persisted
    <3> QED  BY <3>1, <1>2, <1>4, StoringFits
  <2>2. CASE ~works
    BY <2>2 DEF SaveShown, FilesInv, FilesTyped, TreesFit
  <2> QED  BY <2>1, <2>2
<1>6. FilesTyped'
  BY <1>1, <1>3, <1>5 DEF FilesInv, FilesTyped
<1>7. TreesFit'
  BY <1>1, <1>4, <1>5 DEF TreesFit, Shown
<1> QED
  BY <1>6, <1>7 DEF FilesInv

\* :w and :w path
LEMMA WriteFits == ASSUME FilesInv, NEW p \in Paths, Write(p) PROVE FilesInv'
  BY SaveFits DEF Write, FilesInv, FilesTyped

\* :wq
LEMMA WriteQuitFits == ASSUME FilesInv, WriteQuit PROVE FilesInv'
<1>1. Shown.path \in Paths
  <2>1. docs[shown] \in Docs
    BY DEF FilesInv, FilesTyped
  <2> QED  BY <2>1 DEF WriteQuit, Shown, Docs
<1>2. docs' \in Seq(Docs)
  BY <1>1, NewPath DEF WriteQuit, SaveShown
<1>3. session' \in Sessions
  BY <1>2, SessionsTyped DEF WriteQuit
<1> QED
  BY <1>1, <1>3, SaveFits DEF WriteQuit

\* An opened document comes into view (open_path_in_buffer).
LEMMA OpenFits == ASSUME FilesInv, NEW p \in Paths, Open(p) PROVE FilesInv'
<1>0. Shows([path |-> p, text |-> 0, modified |-> FALSE], Len(docs) + 1)
      \/ (disk[p] # Missing /\ Shows(Opened(p), Len(docs) + 1))
  BY DEF Open
<1>1. PICK doc : doc \in Docs /\ Shows(doc, Len(docs) + 1)
  <2>1. CASE Shows([path |-> p, text |-> 0, modified |-> FALSE], Len(docs) + 1)
    <3>1. [path |-> p, text |-> 0, modified |-> FALSE] \in Docs
      BY DEF Docs
    <3> QED  BY <2>1, <3>1
  <2>2. CASE disk[p] # Missing /\ Shows(Opened(p), Len(docs) + 1)
    <3>1. disk[p] # Missing => Opened(p) \in Docs
      BY DEF Opened, Docs, FilesInv, FilesTyped, OnFile
    <3> QED  BY <1>0, <2>2, <3>1
  <2> QED  BY <1>0, <2>1, <2>2 DEF Open
<1>2. docs \in Seq(Docs)
  BY DEF FilesInv, FilesTyped
<1>3. docs' = Append(docs, doc) /\ shown' = Len(docs) + 1 /\ tree' = Estranged(doc.text)
  BY <1>1 DEF Shows
<1>4. docs' \in Seq(Docs) /\ shown' \in 1..Len(docs') /\ docs'[shown'] = doc
  BY <1>1, <1>2, <1>3
<1>5. Fits(tree', docs'[shown'].text)
  BY <1>3, <1>4, EstrangedFits
<1> QED
  BY <1>4, <1>5, WindowFits DEF Open, onDisk, FilesInv, FilesTyped

\* The next document comes into view (:bn).
LEMMA NextBufferFits == ASSUME FilesInv, NextBuffer PROVE FilesInv'
<1>1. docs \in Seq(Docs) /\ Len(docs) \in Nat /\ Len(docs) > 1 /\ shown \in Nat /\ texts \in Nat
  BY DEF NextBuffer, FilesInv, FilesTyped
<1>2. shown' = 1 + (shown % Len(docs)) /\ docs' = docs /\ tree' = Estranged(docs[shown'].text)
  BY DEF NextBuffer
<1>3. shown % Len(docs) \in 0..(Len(docs) - 1)
  BY <1>1
<1>4. shown' \in 1..Len(docs)
  BY <1>1, <1>2, <1>3
<1>5. Fits(tree', docs[shown'].text)
  BY <1>2, EstrangedFits
<1> QED
  BY <1>1, <1>2, <1>4, <1>5, WindowFits DEF NextBuffer, onDisk

-----------------------------------------------------------------------------
\* Marks and sessions do not matter to the trees (:q, :wqa, :SessionSave).
LEMMA StoreStays ==
  ASSUME FilesInv, UNCHANGED <<blobs, shown, tree, texts>>,
         disk' \in [Paths -> OnFile], session' \in Sessions,
         docs' \in Seq(Docs), Len(docs') = Len(docs), docs'[shown].text = Shown.text
  PROVE  FilesInv'
<1>1. FilesTyped'
  BY DEF FilesInv, FilesTyped
<1>2. TreesFit'
  BY DEF FilesInv, TreesFit, Shown
<1> QED
  BY <1>1, <1>2 DEF FilesInv

\* What stays as it is.
LEMMA NothingMoves ==
  ASSUME FilesInv
  PROVE  /\ docs \in Seq(Docs) /\ disk \in [Paths -> OnFile] /\ session \in Sessions
         /\ docs[shown].text = Shown.text
  BY DEF FilesInv, FilesTyped, Shown

\* :q, :q! and :SessionSave keep a session.
LEMMA QuitFits == ASSUME FilesInv, NEW force, Quit(force) PROVE FilesInv'
<1>1. BuildSession(docs) \in Sessions
  BY SessionsTyped, NothingMoves
<1> QED
  BY <1>1, NothingMoves, StoreStays DEF Quit

\* :SessionSave alone
LEMMA SessionSaveFits == ASSUME FilesInv, SessionSave PROVE FilesInv'
<1>1. BuildSession(docs) \in Sessions
  BY SessionsTyped, NothingMoves
<1> QED
  BY <1>1, NothingMoves, StoreStays DEF SessionSave

\* :wqa changes marks and files, no text.
LEMMA WriteQuitAllFits == ASSUME FilesInv, WriteQuitAll PROVE FilesInv'
<1> USE NothingMoves
<1>1. PICK upTo \in 0..Len(docs) :
        /\ disk' = [p \in Paths |-> LastSaved(p, upTo)]
        /\ docs' = [i \in DOMAIN docs |->
                      IF i <= upTo THEN [docs[i] EXCEPT !.modified = FALSE] ELSE docs[i]]
        /\ session' = IF upTo = Len(docs) THEN BuildSession(docs') ELSE session
  BY DEF WriteQuitAll
<1>2. \A i \in 1..Len(docs) : docs[i] \in Docs /\ [docs[i] EXCEPT !.modified = FALSE] \in Docs
                             /\ [docs[i] EXCEPT !.modified = FALSE].text = docs[i].text
  <2> SUFFICES ASSUME NEW i \in 1..Len(docs)
               PROVE  docs[i] \in Docs /\ [docs[i] EXCEPT !.modified = FALSE] \in Docs
                      /\ [docs[i] EXCEPT !.modified = FALSE].text = docs[i].text
    OBVIOUS
  <2>1. docs[i] \in Docs
    BY DEF FilesInv, FilesTyped
  <2> QED  BY <2>1 DEF Docs
<1>3. docs' \in Seq(Docs) /\ Len(docs') = Len(docs)
  <2>1. docs' \in [1..Len(docs) -> Docs] /\ Len(docs) \in Nat
    BY <1>1, <1>2
  <2> QED  BY <2>1, IsASeq
<1>4. docs'[shown].text = Shown.text
  <2>1. shown \in DOMAIN docs /\ shown \in 1..Len(docs)
    BY DEF FilesInv, FilesTyped
  <2>2. docs'[shown] = docs[shown] \/ docs'[shown] = [docs[shown] EXCEPT !.modified = FALSE]
    BY <1>1, <2>1
  <2> QED  BY <1>2, <2>1, <2>2
<1>5. disk' \in [Paths -> OnFile]
  <2>1. ASSUME NEW p \in Paths PROVE LastSaved(p, upTo) \in OnFile
    <3> DEFINE at == {i \in Unsaved : i <= upTo /\ docs[i].path = p}
    <3>1. CASE at = {}
      BY <3>1 DEF LastSaved, FilesInv, FilesTyped
    <3>2. CASE at # {}
      <4>1. at \in SUBSET (0..Len(docs)) /\ Len(docs) \in Nat
        BY DEF Unsaved, FilesInv, FilesTyped
      <4>2. \E i \in at : \A j \in at : j <= i
        <5> HIDE DEF at
        <5> QED  BY <3>2, <4>1, GreatestElement
      <4> DEFINE last == CHOOSE i \in at : \A j \in at : j <= i
      <4>3. LastSaved(p, upTo) = docs[last].text /\ last \in at
        BY <3>2, <4>2 DEF LastSaved
      <4> HIDE DEF last
      <4>4. docs[last] \in Docs
        BY <1>2, <4>3 DEF Unsaved
      <4> QED  BY <4>3, <4>4 DEF Docs, OnFile
    <3> QED  BY <3>1, <3>2
  <2> QED  BY <1>1, <2>1
<1>6. session' \in Sessions
  <2>1. BuildSession(docs') \in Sessions
    BY <1>3, SessionsTyped
  <2> QED  BY <1>1, <2>1
<1> QED
  BY <1>3, <1>4, <1>5, <1>6, StoreStays DEF WriteQuitAll

\* :SessionRestore starts anew with what the session has (apply_session).
LEMMA SessionRestoreFits == ASSUME FilesInv, SessionRestore PROVE FilesInv'
<1>1. session \in Seq(Buffers) /\ session # <<>>
  BY DEF SessionRestore, FilesInv, FilesTyped, Sessions
<1>2. \A i \in 1..Len(session) : Restored(session[i]) \in Docs
  <2> SUFFICES ASSUME NEW i \in 1..Len(session) PROVE Restored(session[i]) \in Docs
    OBVIOUS
  <2>1. session[i] \in Buffers
    BY <1>1
  <2>2. Scratch \in Docs
    BY DEF Scratch, Docs
  <2>3. session[i].path # NoPath /\ disk[session[i].path] # Missing
          => Opened(session[i].path) \in Docs
    BY <2>1 DEF Opened, Docs, Buffers, OnFile, FilesInv, FilesTyped
  <2>4. session[i].unsaved # Missing
          => [path |-> NoPath, text |-> session[i].unsaved, modified |-> TRUE] \in Docs
    BY <2>1 DEF Docs, Buffers, OnFile
  <2> QED  BY <2>2, <2>3, <2>4 DEF Restored
<1>3. docs' = [i \in DOMAIN session |-> Restored(session[i])] /\ shown' = 1 /\ tree' = Fresh
  BY DEF SessionRestore
<1>4. docs' \in Seq(Docs) /\ Len(docs') = Len(session)
  <2>1. docs' \in [1..Len(session) -> Docs] /\ Len(session) \in Nat
    BY <1>1, <1>2, <1>3
  <2> QED  BY <2>1, IsASeq
<1>5. shown' \in 1..Len(docs')
  BY <1>1, <1>3, <1>4
<1>6. Fits(tree', docs'[shown'].text)
  BY <1>3, FreshFits
<1> QED
  BY <1>4, <1>5, <1>6, WindowFits DEF SessionRestore, onDisk, FilesInv, FilesTyped

-----------------------------------------------------------------------------
\* A crash leaves a tree torn, a session torn, or a file as it was or as it should be.
LEMMA CrashFits == ASSUME FilesInv, Crash PROVE FilesInv'
<1> USE NothingMoves
<1>1. Shown.text \in Nat
  <2>1. docs[shown] \in Docs
    BY DEF FilesInv, FilesTyped
  <2> QED  BY <2>1 DEF Shown, Docs
<1>2. \A p : Saved(p, Shown.text) \in [Paths -> OnFile]
  BY <1>1 DEF Saved, OnFile
<1>3. TornSession \in Sessions
  BY DEF Sessions
<1>4. CASE blobs' = blobs
  <2>1. disk' \in [Paths -> OnFile]
    BY <1>2, <1>4 DEF Crash, CutSave
  <2>2. session' \in Sessions
    BY <1>3 DEF Crash
  <2> QED  BY <1>4, <2>1, <2>2, StoreStays DEF Crash
<1>5. CASE blobs' # blobs
  <2>1. /\ disk' = Saved(Shown.path, Shown.text) /\ session' = session
        /\ blobs' = Append(OtherBlobs(Shown.text), [text |-> Shown.text, tree |-> TornTree])
    BY <1>5 DEF Crash, TornTree
  <2>2. TornTree \in Trees \cup {TornTree}
    OBVIOUS
  <2>3. /\ blobs' \in Seq(Blobs)
        /\ \A i \in 1..Len(blobs') : blobs'[i].tree # TornTree => Fits(blobs'[i].tree, blobs'[i].text)
    BY <1>1, <2>1, <2>2, StoringFits
  <2>4. UNCHANGED <<docs, shown, tree, texts>>
    BY DEF Crash
  <2>5. FilesTyped'
    BY <1>2, <2>1, <2>3, <2>4 DEF FilesInv, FilesTyped
  <2>6. TreesFit'
    BY <2>3, <2>4 DEF FilesInv, TreesFit, Shown
  <2> QED  BY <2>5, <2>6 DEF FilesInv
<1> QED
  BY <1>4, <1>5

\* The editor starts with a file or with nothing (main).
LEMMA RestartFits == ASSUME FilesInv, Restart PROVE FilesInv'
<1>1. PICK doc \in Docs : Start(doc)
  <2>1. Scratch \in Docs
    BY DEF Scratch, Docs
  <2>2. \A p \in Paths : disk[p] # Missing => Opened(p) \in Docs
    BY DEF Opened, Docs, OnFile, FilesInv, FilesTyped
  <2> QED  BY <2>1, <2>2 DEF Restart
<1>2. docs' = <<doc>> /\ shown' = 1 /\ tree' = Fresh
  BY <1>1 DEF Start
<1>3. docs' \in Seq(Docs) /\ Len(docs') = 1
  BY <1>2
<1>4. Fits(tree', docs'[shown'].text) /\ shown' \in 1..Len(docs')
  BY <1>2, <1>3, FreshFits
<1> QED
  BY <1>3, <1>4, WindowFits DEF Restart, onDisk, FilesInv, FilesTyped

\* Every step keeps the trees at their texts.
LEMMA StepFits == FilesInv /\ [Next]_vars => FilesInv'
<1> SUFFICES ASSUME FilesInv, [Next]_vars PROVE FilesInv'
  OBVIOUS
<1>1. CASE Next
  <2>1. CASE Edit \/ PluginEdit \/ Undo \/ Redo
    BY <2>1, EditFits, PluginEditFits, UndoFits, RedoFits
  <2>2. CASE NextBuffer
    BY <2>2, NextBufferFits
  <2>3. CASE \E p \in Paths : Open(p) \/ Write(p)
    BY <2>3, OpenFits, WriteFits
  <2>4. CASE \E force \in BOOLEAN : Quit(force)
    BY <2>4, QuitFits
  <2>5. CASE WriteQuit \/ WriteQuitAll
    BY <2>5, WriteQuitFits, WriteQuitAllFits
  <2>6. CASE SessionSave \/ SessionRestore
    BY <2>6, SessionSaveFits, SessionRestoreFits
  <2>7. CASE Crash \/ Restart
    BY <2>7, CrashFits, RestartFits
  <2> QED  BY <1>1, <2>1, <2>2, <2>3, <2>4, <2>5, <2>6, <2>7 DEF Next
<1>2. CASE UNCHANGED vars
  BY <1>2 DEF vars, onDisk, FilesInv, FilesTyped, TreesFit, Shown
<1> QED
  BY <1>1, <1>2

\* The undo tree of the window is at the text the window shows and every tree stored at
\* the text it is stored under, whatever is saved, quit, restored or cut off by a crash
\* (UndoStore, maybe_load_persistent_undo), however many files and documents there are.
THEOREM UndoFitsItsText == Spec => []UndoFitsTheText
<1>1. FilesInv => UndoFitsTheText
  <2> SUFFICES ASSUME FilesInv PROVE UndoFitsTheText
    OBVIOUS
  <2>1. tree.at > 0 /\ ~tree.foreign => tree.texts[tree.at] = Shown.text
    BY DEF FilesInv, TreesFit, Fits
  <2>2. DOMAIN blobs = 1..Len(blobs)
    BY DEF FilesInv, FilesTyped
  <2>3. \A i \in 1..Len(blobs) : blobs[i].tree # [torn |-> TRUE] => Fits(blobs[i].tree, blobs[i].text)
    BY DEF FilesInv, TreesFit, TornTree
  <2> QED  BY <2>1, <2>2, <2>3 DEF UndoFitsTheText, Fits
<1> QED
  BY <1>1, InitFits, StepFits, PTL DEF Spec

\* Whatever a crash cuts off, the files have whole texts: a save writes a temporary file and
\* renames it (Document::save_to), and what a torn session file or undo tree holds never
\* gets into a document, hence into a file.
THEOREM FilesStayWhole == Spec => []FilesAreWhole
<1>1. FilesInv => FilesAreWhole
  BY DEF FilesInv, FilesTyped, OnFile, FilesAreWhole, Missing, Torn
<1> QED
  BY <1>1, InitFits, StepFits, PTL DEF Spec

-----------------------------------------------------------------------------
\* What is in a file is known to have been, and so is a text that is not marked modified.
SavedInv ==
  /\ 0 \in saved
  /\ \A p \in Paths : disk[p] = Missing \/ disk[p] \in saved
  /\ \A i \in 1..Len(docs) : docs[i].modified \/ docs[i].text \in saved

\* A text that is new is marked (apply_transaction).
LEMMA NewTextIsMarked ==
  ASSUME FilesInv, SavedInv, UNCHANGED <<disk, saved>>, NEW x,
         docs' = [docs EXCEPT ![shown].text = x, ![shown].modified = TRUE]
  PROVE  SavedInv'
<1> DEFINE first == [docs EXCEPT ![shown].text = x]
<1>1. docs \in Seq(Docs) /\ shown \in 1..Len(docs) /\ DOMAIN docs = 1..Len(docs) /\ docs[shown] \in Docs
  BY DEF FilesInv, FilesTyped
<1>2. first[shown] = [docs[shown] EXCEPT !.text = x] /\ DOMAIN first = 1..Len(docs)
      /\ \A i \in 1..Len(docs) : i # shown => first[i] = docs[i]
  BY <1>1
<1>3. docs' = [first EXCEPT ![shown] = [first[shown] EXCEPT !.modified = TRUE]]
  OBVIOUS
<1>4. [first[shown] EXCEPT !.modified = TRUE].modified
  BY <1>1, <1>2 DEF Docs
<1> HIDE DEF first
<1>5. docs'[shown].modified /\ \A i \in 1..Len(docs) : i # shown => docs'[i] = docs[i]
  BY <1>1, <1>2, <1>3, <1>4
<1>6. Len(docs') = Len(docs)
  <2>1. DOMAIN docs' = 1..Len(docs) /\ Len(docs) \in Nat
    BY <1>1, <1>2, <1>3
  <2> QED  BY <2>1
<1> QED
  BY <1>5, <1>6 DEF SavedInv

\* What changes neither documents nor files.
LEMMA NothingSaved ==
  ASSUME SavedInv, UNCHANGED <<disk, saved, docs>>
  PROVE  SavedInv'
  BY DEF SavedInv

\* A save that works puts the text of the document in view into its file; one that fails
\* leaves the mark (Document::save_to).
LEMMA SaveIsKnown ==
  ASSUME FilesInv, SavedInv, NEW p \in Paths, NEW works \in BOOLEAN, SaveShown(p, works)
  PROVE  SavedInv' /\ (works => Shown.text \in saved')
<1> DEFINE first == [docs EXCEPT ![shown] = [docs[shown] EXCEPT !.path = p]]
           doc == [docs[shown] EXCEPT !.path = p, !.modified = @ /\ ~works]
<1>1. docs \in Seq(Docs) /\ shown \in 1..Len(docs) /\ docs[shown] \in Docs /\ Len(docs) \in Nat
      /\ DOMAIN docs = 1..Len(docs) /\ disk \in [Paths -> OnFile]
  BY DEF FilesInv, FilesTyped
<1>2. docs' = [first EXCEPT ![shown] = [first[shown] EXCEPT !.modified = @ /\ ~works]]
  BY DEF SaveShown
<1>3. first[shown] = [docs[shown] EXCEPT !.path = p] /\ DOMAIN first = 1..Len(docs)
      /\ \A i \in 1..Len(docs) : i # shown => first[i] = docs[i]
  BY <1>1
<1>4. [first[shown] EXCEPT !.modified = @ /\ ~works] = doc
  BY <1>1, <1>3 DEF Docs
<1>5. doc.text = docs[shown].text /\ (doc.modified <=> docs[shown].modified /\ ~works)
  BY <1>1 DEF Docs
<1> HIDE DEF first, doc
<1>6. DOMAIN docs' = 1..Len(docs) /\ docs'[shown] = doc
      /\ \A i \in 1..Len(docs) : i # shown => docs'[i] = docs[i]
  BY <1>1, <1>2, <1>3, <1>4
<1>7. Len(docs') = Len(docs)
  BY <1>1, <1>6
<1>8. /\ saved \subseteq saved' /\ (works => Shown.text \in saved')
      /\ \A q \in Paths : disk'[q] = disk[q] \/ disk'[q] \in saved'
  <2>1. CASE works
    <3>1. disk' = [disk EXCEPT ![p] = Shown.text] /\ saved' = saved \cup {Shown.text}
      BY <2>1 DEF SaveShown, Saved
    <3> QED  BY <1>1, <3>1
  <2>2. CASE ~works
    BY <2>2 DEF SaveShown
  <2> QED  BY <2>1, <2>2
<1>9. \A i \in 1..Len(docs) : docs'[i].modified \/ docs'[i].text \in saved'
  BY <1>5, <1>6, <1>8 DEF SavedInv, Shown
<1> QED
  BY <1>7, <1>8, <1>9 DEF SavedInv

\* A document opened has the text of its file, or none (Document::open).
LEMMA OpenedIsKnown ==
  ASSUME SavedInv, NEW p \in Paths, disk[p] # Missing
  PROVE  Opened(p).text \in saved /\ ~Opened(p).modified
  BY DEF SavedInv, Opened

\* A scratch buffer that is not modified is empty.
LEMMA ScratchIsKnown == SavedInv => Scratch.text \in saved /\ ~Scratch.modified
  BY DEF SavedInv, Scratch

\* :wqa saves what is modified up to the save that fails.
LEMMA AllSavedIsKnown ==
  ASSUME FilesInv, SavedInv, WriteQuitAll
  PROVE  SavedInv' /\ (~running' => \A i \in DOMAIN docs : docs[i].text \in saved')
<1>1. PICK upTo \in 0..Len(docs) :
        /\ disk' = [p \in Paths |-> LastSaved(p, upTo)]
        /\ saved' = saved \cup {docs[i].text : i \in {j \in Unsaved : j <= upTo}}
        /\ docs' = [i \in DOMAIN docs |->
                      IF i <= upTo THEN [docs[i] EXCEPT !.modified = FALSE] ELSE docs[i]]
        /\ running' = (upTo < Len(docs))
  BY DEF WriteQuitAll
<1>2. docs \in Seq(Docs) /\ DOMAIN docs = 1..Len(docs) /\ Len(docs) \in Nat
      /\ \A i \in 1..Len(docs) : docs[i] \in Docs
  BY DEF FilesInv, FilesTyped
<1>3. ASSUME NEW i \in 1..Len(docs), i <= upTo PROVE docs[i].text \in saved'
  <2>1. CASE docs[i].modified
    BY <1>1, <1>2, <1>3, <2>1 DEF Unsaved
  <2>2. CASE ~docs[i].modified
    BY <1>1, <2>2 DEF SavedInv
  <2> QED  BY <2>1, <2>2
<1>4. ASSUME NEW i \in 1..Len(docs) PROVE docs'[i].modified \/ docs'[i].text \in saved'
  <2>1. CASE i <= upTo
    <3>1. docs'[i] = [docs[i] EXCEPT !.modified = FALSE]
      BY <1>1, <1>2, <2>1
    <3>2. docs'[i].text = docs[i].text
      BY <1>2, <3>1 DEF Docs
    <3> QED  BY <1>3, <2>1, <3>2
  <2>2. CASE ~(i <= upTo)
    <3>1. docs'[i] = docs[i]
      BY <1>1, <1>2, <2>2
    <3>2. docs[i].modified \/ docs[i].text \in saved
      BY DEF SavedInv
    <3>3. saved \subseteq saved'
      BY <1>1
    <3> QED  BY <3>1, <3>2, <3>3
  <2> QED  BY <2>1, <2>2
<1>5. Len(docs') = Len(docs)
  BY <1>1, <1>2
<1>6. ASSUME NEW p \in Paths PROVE disk'[p] = Missing \/ disk'[p] \in saved'
  <2> DEFINE at == {i \in Unsaved : i <= upTo /\ docs[i].path = p}
  <2>1. disk'[p] = LastSaved(p, upTo)
    BY <1>1
  <2>2. CASE at = {}
    <3>1. disk'[p] = disk[p]
      BY <2>1, <2>2 DEF LastSaved
    <3>2. disk[p] = Missing \/ disk[p] \in saved
      BY DEF SavedInv
    <3> QED  BY <1>1, <3>1, <3>2
  <2>3. CASE at # {}
    <3> DEFINE last == CHOOSE i \in at : \A j \in at : j <= i
    <3>1. at \in SUBSET (0..Len(docs))
      BY <1>2 DEF Unsaved
    <3>2. \E i \in at : \A j \in at : j <= i
      <4> HIDE DEF at
      <4> QED  BY <1>2, <2>3, <3>1, GreatestElement
    <3>3. last \in at /\ disk'[p] = docs[last].text
      BY <2>1, <2>3, <3>2 DEF LastSaved
    <3> HIDE DEF last
    <3>4. last \in 1..Len(docs) /\ last <= upTo
      BY <1>2, <3>3 DEF Unsaved
    <3> QED  BY <1>3, <3>3, <3>4
  <2> QED  BY <2>2, <2>3
<1>7. 0 \in saved'
  BY <1>1 DEF SavedInv
<1>8. SavedInv'
  BY <1>4, <1>5, <1>6, <1>7 DEF SavedInv
<1>9. ASSUME ~running' PROVE \A i \in DOMAIN docs : docs[i].text \in saved'
  <2>1. ~(upTo < Len(docs))
    BY <1>1, <1>9
  <2>2. upTo \in 0..Len(docs)
    BY <1>1
  <2>3. upTo = Len(docs)
    <3>1. \A n \in Nat : \A m \in 0..n : ~(m < n) => m = n
      OBVIOUS
    <3>2. Len(docs) \in Nat
      BY <1>2
    <3> QED  BY <2>1, <2>2, <3>1, <3>2, Zenon
  <2> QED  BY <1>2, <1>3, <2>3
<1> QED
  BY <1>8, <1>9

\* At the start nothing is open but an empty buffer.
LEMMA InitKnown == Init => SavedInv
<1> SUFFICES ASSUME Init PROVE SavedInv
  OBVIOUS
<1>1. docs = <<Scratch>> /\ saved = {0} /\ disk \in [Paths -> {Missing, 0}]
  BY DEF Init
<1>2. Len(docs) = 1 /\ docs[1] = Scratch
  BY <1>1
<1>3. \A i \in 1..Len(docs) : docs[i] = Scratch
  BY <1>2
<1> QED
  BY <1>1, <1>3 DEF SavedInv, Scratch

\* A document comes into view.
LEMMA OpenKnown == ASSUME FilesInv, SavedInv, NEW p \in Paths, Open(p) PROVE SavedInv'
<1>1. docs \in Seq(Docs) /\ Len(docs) \in Nat /\ UNCHANGED <<disk, saved>>
  BY DEF Open, onDisk, FilesInv, FilesTyped
<1>2. PICK doc : docs' = Append(docs, doc) /\ doc.text \in saved
  <2>1. CASE Shows([path |-> p, text |-> 0, modified |-> FALSE], Len(docs) + 1)
    BY <2>1 DEF Shows, SavedInv
  <2>2. CASE Shows(Opened(p), Len(docs) + 1) /\ disk[p] # Missing
    BY <2>2, OpenedIsKnown DEF Shows
  <2> QED  BY <2>1, <2>2 DEF Open
<1>3. /\ Len(docs') = Len(docs) + 1 /\ docs'[Len(docs) + 1] = doc
      /\ \A i \in 1..Len(docs) : docs'[i] = docs[i]
  BY <1>1, <1>2
<1>4. \A i \in 1..Len(docs') : i \in 1..Len(docs) \/ i = Len(docs) + 1
  BY <1>1, <1>3
<1> QED
  BY <1>1, <1>2, <1>3, <1>4 DEF SavedInv

\* A session's buffers come back (apply_session).
LEMMA SessionRestoreKnown == ASSUME FilesInv, SavedInv, SessionRestore PROVE SavedInv'
<1>1. session \in Seq(Buffers) /\ Len(session) \in Nat /\ UNCHANGED <<disk, saved>>
      /\ docs' = [i \in DOMAIN session |-> Restored(session[i])]
  BY DEF SessionRestore, onDisk, FilesInv, FilesTyped, Sessions
<1>2. ASSUME NEW i \in 1..Len(session)
      PROVE  Restored(session[i]).modified \/ Restored(session[i]).text \in saved
  <2> DEFINE b == session[i]
  <2>1. b \in Buffers
    BY <1>1
  <2>2. \/ Restored(b) = Scratch
        \/ b.path \in Paths /\ disk[b.path] # Missing /\ Restored(b) = Opened(b.path)
        \/ Restored(b) = [path |-> NoPath, text |-> b.unsaved, modified |-> TRUE]
    BY <2>1 DEF Restored, Buffers
  <2> HIDE DEF b
  <2> QED  BY <2>2, OpenedIsKnown, ScratchIsKnown DEF b
<1>3. \A i \in 1..Len(session) : docs'[i] = Restored(session[i])
  BY <1>1
<1>4. Len(docs') = Len(session)
  BY <1>1
<1> QED
  BY <1>1, <1>2, <1>3, <1>4 DEF SavedInv

\* Wherever a crash comes, what it wrote is known.
LEMMA CrashKnown == ASSUME FilesInv, SavedInv, Crash PROVE SavedInv'
<1>1. docs' = docs
  BY DEF Crash
<1>2. /\ saved \subseteq saved'
      /\ disk' = disk \/ (disk' = Saved(Shown.path, Shown.text) /\ Shown.text \in saved')
  BY DEF Crash, CutSave
<1>3. disk \in [Paths -> OnFile]
  BY DEF FilesInv, FilesTyped
<1>4. \A p \in Paths : disk'[p] = disk[p] \/ disk'[p] \in saved'
  BY <1>2, <1>3 DEF Saved
<1> QED
  BY <1>1, <1>2, <1>4 DEF SavedInv

\* The editor starts with a file or with nothing.
LEMMA RestartKnown == ASSUME FilesInv, SavedInv, Restart PROVE SavedInv'
<1>1. PICK doc : docs' = <<doc>> /\ doc.text \in saved
  <2>1. CASE Start(Scratch)
    BY <2>1, ScratchIsKnown DEF Start
  <2>2. CASE \E p \in Paths \ Images : disk[p] # Missing /\ Start(Opened(p))
    BY <2>2, OpenedIsKnown DEF Start
  <2> QED  BY <2>1, <2>2 DEF Restart
<1>2. Len(docs') = 1 /\ docs'[1] = doc
  BY <1>1
<1>3. \A i \in 1..Len(docs') : docs'[i] = doc
  BY <1>2
<1> QED
  BY <1>1, <1>3 DEF SavedInv, Restart, onDisk

\* Undo and redo give texts that are marked.
LEMMA UndoKnown == ASSUME FilesInv, SavedInv, Undo PROVE SavedInv'
<1>1. UNCHANGED <<disk, saved>>
  BY DEF Undo, onDisk
<1>2. docs' = docs \/ \E x : docs' = [docs EXCEPT ![shown].text = x, ![shown].modified = TRUE]
  <2>1. CASE TreeToUndo.at > 1 /\ TreeToUndo.foreign
    BY <2>1 DEF Undo
  <2>2. CASE TreeToUndo.at > 1 /\ ~TreeToUndo.foreign
    BY <2>2 DEF Undo
  <2>3. CASE ~(TreeToUndo.at > 1)
    BY <2>3 DEF Undo
  <2> QED  BY <2>1, <2>2, <2>3
<1> QED
  BY <1>1, <1>2, NothingSaved, NewTextIsMarked

\* The same steps, together with what they leave known.
LEMMA StepKnown == ASSUME FilesInv, SavedInv, [Next]_vars PROVE SavedInv'
<1>1. CASE Edit \/ PluginEdit \/ Redo
  <2>1. /\ UNCHANGED <<disk, saved>>
        /\ \E x : docs' = [docs EXCEPT ![shown].text = x, ![shown].modified = TRUE]
    BY <1>1 DEF Edit, PluginEdit, Redo, onDisk
  <2> QED  BY <2>1, NewTextIsMarked
<1>2. CASE Undo
  BY <1>2, UndoKnown
<1>3. CASE NextBuffer \/ SessionSave \/ \E force \in BOOLEAN : Quit(force)
  BY <1>3, NothingSaved DEF NextBuffer, SessionSave, Quit, onDisk
<1>4. CASE \E p \in Paths : Open(p) \/ Write(p)
  <2>1. ASSUME NEW p \in Paths, Write(p) PROVE SavedInv'
    <3>1. PICK works \in BOOLEAN : SaveShown(p, works)
      BY <2>1 DEF Write
    <3> QED  BY <3>1, SaveIsKnown
  <2> QED  BY <1>4, <2>1, OpenKnown
<1>5. CASE WriteQuit
  <2>1. Shown.path \in Paths
    <3>1. docs[shown] \in Docs
      BY DEF FilesInv, FilesTyped
    <3> QED  BY <1>5, <3>1 DEF WriteQuit, Shown, Docs
  <2> QED  BY <1>5, <2>1, SaveIsKnown DEF WriteQuit
<1>6. CASE WriteQuitAll
  BY <1>6, AllSavedIsKnown
<1>7. CASE SessionRestore \/ Crash \/ Restart
  BY <1>7, SessionRestoreKnown, CrashKnown, RestartKnown
<1>8. CASE UNCHANGED vars
  BY <1>8, NothingSaved DEF vars, onDisk
<1> QED
  BY <1>1, <1>2, <1>3, <1>4, <1>5, <1>6, <1>7, <1>8 DEF Next

\* :q and :wq never leave behind a text of the document in view that was in no file, nor
\* :wqa one of any document (execute_ex_command), with any failed saves, crashes and
\* restored sessions before.
THEOREM NothingLeftBehind == Spec => UnsavedIsAskedFor
<1> DEFINE Asked == running /\ ~running' =>
                      /\ Quit(FALSE) \/ WriteQuit => Kept(shown)
                      /\ WriteQuitAll => \A i \in DOMAIN docs : Kept(i)
<1>1. FilesInv /\ SavedInv /\ [Next]_vars => (FilesInv /\ SavedInv)'
  BY StepFits, StepKnown
<1>2. ASSUME FilesInv, SavedInv, [Next]_vars PROVE [Asked]_vars
  <2>1. ASSUME Quit(FALSE) PROVE Kept(shown)
    <3>1. ~docs[shown].modified /\ saved' = saved /\ shown \in 1..Len(docs)
      BY <1>2, <2>1 DEF Quit, Shown, onDisk, FilesInv, FilesTyped
    <3> QED  BY <1>2, <3>1 DEF SavedInv, Kept
  <2>2. ASSUME WriteQuit PROVE Kept(shown)
    <3>1. Shown.path \in Paths /\ SaveShown(Shown.path, TRUE)
      <4>1. docs[shown] \in Docs
        BY <1>2 DEF FilesInv, FilesTyped
      <4> QED  BY <2>2, <4>1 DEF WriteQuit, Shown, Docs
    <3>2. Shown.text \in saved'
      BY <1>2, <3>1, SaveIsKnown
    <3> QED  BY <3>2 DEF Kept, Shown
  <2>3. ASSUME WriteQuitAll, ~running' PROVE \A i \in DOMAIN docs : Kept(i)
    BY <1>2, <2>3, AllSavedIsKnown DEF Kept
  <2> QED  BY <2>1, <2>2, <2>3
<1>3. Init => FilesInv /\ SavedInv
  BY InitFits, InitKnown
<1> QED
  BY <1>1, <1>2, <1>3, PTL DEF Spec, UnsavedIsAskedFor

-----------------------------------------------------------------------------
\* Plugins

Dirs == Packages \cup {NoPackage}
Steps == {"none", "staged", "checked", "cleared", "promoted", "removed"}

StoreTyped ==
  /\ dirs \in [PluginNames -> Dirs]
  /\ lock \in SUBSET Packages
  /\ IsFiniteSet(lock)
  /\ cli \in [step : Steps, package : Dirs]
  /\ cli.step # "none" => cli.package \in Packages

\* The lockfile has just what is in the directory.
Agree(n) == {p \in lock : p.name = n} = {dirs[n]} \ {NoPackage}

\* A command changes the store, from the old directory's removal on.
Changing(n) == cli.step \notin {"none", "staged", "checked"} /\ cli.package.name = n

StoreInv ==
  /\ StoreTyped
  /\ \A n \in PluginNames : dirs[n] # NoPackage => dirs[n].name = n /\ Loadable(n)
  /\ \A n \in PluginNames : n \in cut \/ Changing(n) \/ Agree(n)
  /\ cli.step \in {"checked", "cleared", "promoted"} => cli.package.manifest /\ cli.package.entry
  /\ cli.step = "promoted" => dirs[cli.package.name] = cli.package
  /\ cli.step = "removed" => dirs[cli.package.name] = NoPackage

\* Every package has a name of the store.
LEMMA NameOfPackage == \A p \in Packages : p.name \in PluginNames
  BY DEF PluginNames

\* The store is empty at first.
LEMMA InitSound == PluginsInit => StoreInv
<1> SUFFICES ASSUME PluginsInit PROVE StoreInv
  OBVIOUS
<1>1. StoreTyped
  BY FS_EmptySet DEF PluginsInit, StoreTyped, Resting, Dirs, Steps
<1>2. cli.step = "none"
  BY DEF PluginsInit, Resting
<1>3. \A n \in PluginNames : dirs[n] = NoPackage /\ Agree(n)
  BY DEF PluginsInit, Agree
<1> QED
  BY <1>1, <1>2, <1>3 DEF StoreInv

\* A package is staged next to the store.
LEMMA StageSound == ASSUME StoreInv, NEW p \in Packages, Stage(p) PROVE StoreInv'
<1>1. cli' = [step |-> "staged", package |-> p] /\ UNCHANGED <<dirs, lock, cut>> /\ cli.step = "none"
  BY DEF Stage
<1>2. StoreTyped'
  BY <1>1 DEF StoreInv, StoreTyped, Dirs, Steps
<1>3. \A n \in PluginNames : n \in cut \/ Agree(n)
  BY <1>1 DEF StoreInv, Changing
<1> QED
  BY <1>1, <1>2, <1>3 DEF StoreInv, Changing, Agree, Loadable

\* What is staged is checked, or refused and thrown away.
LEMMA CheckSound == ASSUME StoreInv, Check PROVE StoreInv'
<1>1. UNCHANGED <<dirs, lock, cut>> /\ cli.step = "staged"
  BY DEF Check
<1>2. \/ cli' = Resting
      \/ cli.package.manifest /\ cli.package.entry /\ cli' = [step |-> "checked", package |-> cli.package]
  BY DEF Check, StoreInv, StoreTyped
<1>3. StoreTyped'
  BY <1>1, <1>2 DEF StoreInv, StoreTyped, Dirs, Steps, Resting
<1>4. \A n \in PluginNames : n \in cut \/ Agree(n)
  BY <1>1 DEF StoreInv, Changing
<1>5. cli'.step \in {"none", "checked"}
      /\ (cli'.step = "checked" => cli'.package.manifest /\ cli'.package.entry)
  BY <1>2 DEF Resting
<1>6. \A n \in PluginNames : dirs'[n] # NoPackage => dirs'[n].name = n /\ Loadable(n)'
  BY <1>1 DEF StoreInv, Loadable
<1> QED
  BY <1>1, <1>3, <1>4, <1>5, <1>6 DEF StoreInv, Changing, Agree

\* The directory in its place goes.
LEMMA RemoveOldSound == ASSUME StoreInv, RemoveOld PROVE StoreInv'
<1> DEFINE p == cli.package
<1>1. p \in Packages /\ p.name \in PluginNames /\ cli.step = "checked"
      /\ p.manifest /\ p.entry
  BY NameOfPackage DEF RemoveOld, StoreInv, StoreTyped
<1>2. UNCHANGED <<lock, cut>> /\ cli' = [step |-> "cleared", package |-> p]
      /\ dirs' = [dirs EXCEPT ![p.name] = NoPackage]
  BY DEF RemoveOld, StoreInv, StoreTyped
<1> HIDE DEF p
<1>3. \A n \in PluginNames : dirs'[n] = IF n = p.name THEN NoPackage ELSE dirs[n]
  BY <1>2 DEF StoreInv, StoreTyped
<1>4. StoreTyped'
  BY <1>1, <1>2 DEF StoreInv, StoreTyped, Dirs, Steps
<1>5. \A n \in PluginNames : n \in cut \/ Agree(n)
  BY <1>1 DEF StoreInv, Changing
<1>6. \A n \in PluginNames : n = p.name \/ n \in cut \/ Agree(n)'
  BY <1>2, <1>3, <1>5 DEF Agree
<1>7. \A n \in PluginNames : dirs'[n] # NoPackage => dirs'[n].name = n /\ Loadable(n)'
  BY <1>3 DEF StoreInv, Loadable
<1> QED
  BY <1>1, <1>2, <1>4, <1>6, <1>7 DEF StoreInv, Changing

\* What is staged takes its place.
LEMMA PromoteSound == ASSUME StoreInv, Promote PROVE StoreInv'
<1> DEFINE p == cli.package
<1>1. p \in Packages /\ p.name \in PluginNames /\ cli.step = "cleared"
      /\ p.manifest /\ p.entry
  BY NameOfPackage DEF Promote, StoreInv, StoreTyped
<1>2. UNCHANGED <<lock, cut>> /\ cli' = [step |-> "promoted", package |-> p]
      /\ dirs' = [dirs EXCEPT ![p.name] = p]
  BY DEF Promote, StoreInv, StoreTyped
<1>3. \A n \in PluginNames : Changing(n) <=> n = p.name
  BY <1>1 DEF Changing
<1> HIDE DEF p
<1>4. \A n \in PluginNames : dirs'[n] = IF n = p.name THEN p ELSE dirs[n]
  BY <1>2 DEF StoreInv, StoreTyped
<1>5. StoreTyped'
  BY <1>1, <1>2 DEF StoreInv, StoreTyped, Dirs, Steps
<1>6. \A n \in PluginNames : n = p.name \/ n \in cut \/ Agree(n)'
  BY <1>2, <1>3, <1>4 DEF StoreInv, Agree
<1>7. \A n \in PluginNames : dirs'[n] # NoPackage => dirs'[n].name = n /\ Loadable(n)'
  BY <1>1, <1>4 DEF StoreInv, Loadable
<1>8. \A n \in PluginNames : Changing(n)' <=> n = p.name
  BY <1>2 DEF Changing
<1>9. dirs'[p.name] = p
  BY <1>1, <1>4
<1> QED
  BY <1>1, <1>2, <1>5, <1>6, <1>7, <1>8, <1>9 DEF StoreInv

\* The lockfile is written with the package in its new version.
LEMMA WriteLockSound == ASSUME NoPackage \notin Packages, StoreInv, WriteLock PROVE StoreInv'
<1> DEFINE p == cli.package
<1>1. p \in Packages /\ p.name \in PluginNames /\ cli.step = "promoted" /\ dirs[p.name] = p
  BY NameOfPackage DEF WriteLock, StoreInv, StoreTyped
<1>2. dirs' = dirs /\ cli' = Resting /\ cut' = cut \ {p.name}
      /\ lock' = {q \in lock : q.name # p.name} \cup {p}
  BY DEF WriteLock
<1>3. \A n \in PluginNames : Changing(n) <=> n = p.name
  BY <1>1 DEF Changing
<1> HIDE DEF p
<1>4. StoreTyped'
  <2>1. IsFiniteSet(lock')
    <3>1. {q \in lock : q.name # p.name} \in SUBSET lock
      OBVIOUS
    <3>2. IsFiniteSet({q \in lock : q.name # p.name})
      BY <3>1, FS_Subset DEF StoreInv, StoreTyped
    <3> QED  BY <1>2, <3>2, FS_AddElement
  <2> QED  BY <1>1, <1>2, <2>1 DEF StoreInv, StoreTyped, Dirs, Steps, Resting
<1>5. \A n \in PluginNames : n \in cut' \/ Agree(n)'
  <2> SUFFICES ASSUME NEW n \in PluginNames, n \notin cut' PROVE Agree(n)'
    OBVIOUS
  <2>1. CASE n = p.name
    <3>1. {q \in lock' : q.name = n} = {p}
      BY <1>2, <2>1
    <3>2. {dirs'[n]} \ {NoPackage} = {p}
      BY <1>1, <1>2, <2>1
    <3> QED  BY <3>1, <3>2 DEF Agree
  <2>2. CASE n # p.name
    <3>1. Agree(n)
      BY <1>2, <1>3, <2>2 DEF StoreInv
    <3>2. {q \in lock' : q.name = n} = {q \in lock : q.name = n}
      BY <1>2, <2>2
    <3> QED  BY <1>2, <3>1, <3>2 DEF Agree
  <2> QED  BY <2>1, <2>2
<1>6. \A n \in PluginNames : dirs'[n] # NoPackage => dirs'[n].name = n /\ Loadable(n)'
  BY <1>2 DEF StoreInv, Loadable
<1>7. cli'.step = "none"
  BY <1>2 DEF Resting
<1> QED
  BY <1>4, <1>5, <1>6, <1>7 DEF StoreInv

\* A removal takes the directory away.
LEMMA RemoveDirSound ==
  ASSUME StoreInv, NEW p \in Packages, RemoveDir(p) PROVE StoreInv'
<1>1. cli.step = "none" /\ UNCHANGED <<lock, cut>> /\ p.name \in PluginNames
  BY NameOfPackage DEF RemoveDir
<1>2. CASE p \notin lock
  BY <1>1, <1>2 DEF RemoveDir, StoreInv, StoreTyped, Changing, Agree, Loadable
<1>3. CASE p \in lock
  <2>1. dirs' = [dirs EXCEPT ![p.name] = NoPackage] /\ cli' = [step |-> "removed", package |-> p]
    BY <1>3 DEF RemoveDir
  <2>2. \A n \in PluginNames : dirs'[n] = IF n = p.name THEN NoPackage ELSE dirs[n]
    BY <2>1 DEF StoreInv, StoreTyped
  <2>3. StoreTyped'
    BY <1>1, <2>1 DEF StoreInv, StoreTyped, Dirs, Steps
  <2>4. \A n \in PluginNames : n = p.name \/ n \in cut \/ Agree(n)'
    BY <1>1, <2>2 DEF StoreInv, Changing, Agree
  <2>5. \A n \in PluginNames : dirs'[n] # NoPackage => dirs'[n].name = n /\ Loadable(n)'
    BY <2>2 DEF StoreInv, Loadable
  <2>6. dirs'[p.name] = NoPackage
    BY <1>1, <2>2
  <2> QED  BY <1>1, <2>1, <2>3, <2>4, <2>5, <2>6 DEF StoreInv, Changing
<1> QED
  BY <1>2, <1>3

\* A removal ends with the lockfile.
LEMMA UnlockSound == ASSUME StoreInv, Unlock PROVE StoreInv'
<1> DEFINE p == cli.package
<1>1. p \in Packages /\ p.name \in PluginNames /\ cli.step = "removed" /\ dirs[p.name] = NoPackage
  BY NameOfPackage DEF Unlock, StoreInv, StoreTyped
<1>2. dirs' = dirs /\ cli' = Resting /\ cut' = cut \ {p.name}
      /\ lock' = {q \in lock : q.name # p.name}
  BY DEF Unlock
<1>3. \A n \in PluginNames : Changing(n) <=> n = p.name
  BY <1>1 DEF Changing
<1> HIDE DEF p
<1>4. StoreTyped'
  <2>1. IsFiniteSet(lock')
    <3>1. lock' \in SUBSET lock
      BY <1>2
    <3> QED  BY <3>1, FS_Subset DEF StoreInv, StoreTyped
  <2> QED  BY <1>1, <1>2, <2>1 DEF StoreInv, StoreTyped, Dirs, Steps, Resting
<1>5. \A n \in PluginNames : n \in cut' \/ Agree(n)'
  <2> SUFFICES ASSUME NEW n \in PluginNames, n \notin cut' PROVE Agree(n)'
    OBVIOUS
  <2>1. CASE n = p.name
    BY <1>1, <1>2, <2>1 DEF Agree
  <2>2. CASE n # p.name
    <3>1. Agree(n)
      BY <1>2, <1>3, <2>2 DEF StoreInv
    <3>2. {q \in lock' : q.name = n} = {q \in lock : q.name = n}
      BY <1>2, <2>2
    <3> QED  BY <1>2, <3>1, <3>2 DEF Agree
  <2> QED  BY <2>1, <2>2
<1>6. \A n \in PluginNames : dirs'[n] # NoPackage => dirs'[n].name = n /\ Loadable(n)'
  BY <1>2 DEF StoreInv, Loadable
<1>7. cli'.step = "none"
  BY <1>2 DEF Resting
<1> QED
  BY <1>4, <1>5, <1>6, <1>7 DEF StoreInv

\* A command cut short leaves what it did, under a name that is noted.
LEMMA CutShortSound == ASSUME StoreInv, CutShort PROVE StoreInv'
<1>1. UNCHANGED <<dirs, lock>> /\ cli' = Resting
  BY DEF CutShort
<1>2. \A n \in PluginNames : n \in cut' \/ Agree(n)
  BY DEF CutShort, StoreInv, StoreTyped, Changing, Steps
<1>3. StoreTyped'
  BY <1>1 DEF StoreInv, StoreTyped, Dirs, Steps, Resting
<1>4. cli'.step = "none"
  BY <1>1 DEF Resting
<1>5. \A n \in PluginNames : dirs'[n] # NoPackage => dirs'[n].name = n /\ Loadable(n)'
  BY <1>1 DEF StoreInv, Loadable
<1> QED
  BY <1>1, <1>2, <1>3, <1>4, <1>5 DEF StoreInv, Agree

\* The rest leaves the store alone.
LEMMA StoreRests == ASSUME StoreInv, UNCHANGED store PROVE StoreInv'
  BY DEF store, StoreInv, StoreTyped, Changing, Agree, Loadable

\* Every step keeps the store sound.
LEMMA StepSound == ASSUME NoPackage \notin Packages, StoreInv, [PluginsNext]_pluginVars PROVE StoreInv'
<1>1. CASE \E p \in Packages : Stage(p) \/ RemoveDir(p)
  BY <1>1, StageSound, RemoveDirSound
<1>2. CASE Check \/ RemoveOld \/ Promote \/ WriteLock \/ Unlock \/ CutShort
  BY <1>2, CheckSound, RemoveOldSound, PromoteSound, WriteLockSound, UnlockSound, CutShortSound
<1>3. CASE Discover \/ Tick \/ Handler \/ Apply \/ Type
  BY <1>3, StoreRests DEF Discover, Tick, Handler, Apply, Type
<1>4. CASE \E doc \in 1..2 : FireOpen(doc) \/ Focus(doc)
  BY <1>4, StoreRests DEF FireOpen, Focus
<1>5. CASE \E i \in 1..2 : RunCommand(i)
  BY <1>5, StoreRests DEF RunCommand
<1>6. CASE UNCHANGED pluginVars
  BY <1>6, StoreRests DEF pluginVars, store
<1> QED
  BY <1>1, <1>2, <1>3, <1>4, <1>5, <1>6 DEF PluginsNext

-----------------------------------------------------------------------------
Caps == {Granted(p) : p \in Packages}
Snaps == [doc : 1..2, text : Seq(Int)]
Loaded == [caps : Caps, name : PluginNames, disabled : BOOLEAN, snaps : SUBSET Snaps]
Handling == [plugin : Nat, doc : 1..2, snap : Seq(Int)]
Call == [doc : 1..2, at : Nat \ {0}, char : Int, fresh : BOOLEAN]

\* A call that no edit of its round came before names a character the buffer has there.
OnTarget(c) == c.fresh => c.at <= Len(buffers[c.doc]) /\ buffers[c.doc][c.at] = c.char

\* A handler still to be called has a plugin, and the buffer as it is.
Due(h) == h.plugin \in 1..Len(plugins) /\ h.snap = buffers[h.doc]

HostInv ==
  /\ plugins \in Seq(Loaded)
  /\ buffers \in [1..2 -> Seq(Int)] /\ focused \in 1..2
  /\ counts \in [ops : Nat, starts : Nat, ticks : Nat, edits : Nat]
  /\ todo \in Seq(Handling) /\ \A i \in 1..Len(todo) : Due(todo[i])
  /\ calls \in Seq(Call) /\ \A i \in 1..Len(calls) : OnTarget(calls[i])
  /\ landed.fresh => landed.hit

\* Whatever is asked for, what is granted lies in the project (resolve_within).
LEMMA GrantsInside ==
  ASSUME NEW caps \in Caps, NEW at \in caps.fs
  PROVE  IsPrefix(Project, at)
<1>1. PICK p \in Packages : caps = Granted(p)
  BY DEF Caps
<1>2. at \in ResolveWithin(p.fs)
  BY <1>1 DEF Granted
<1> QED
  BY <1>2 DEF ResolveWithin

\* The counters count.
LEMMA CountersCount ==
  ASSUME HostInv, NEW what \in {"ops", "starts", "ticks", "edits"}, NEW bound, Counted(what, bound)
  PROVE  counts' \in [ops : Nat, starts : Nat, ticks : Nat, edits : Nat]
<1>0. counts \in [ops : Nat, starts : Nat, ticks : Nat, edits : Nat]
  BY DEF HostInv
<1>1. CASE what = "ops"
  <2>1. counts' = [counts EXCEPT !.ops = counts.ops + 1]
    BY <1>1 DEF Counted
  <2> QED  BY <1>0, <2>1
<1>2. CASE what = "starts"
  <2>1. counts' = [counts EXCEPT !.starts = counts.starts + 1]
    BY <1>2 DEF Counted
  <2> QED  BY <1>0, <2>1
<1>3. CASE what = "ticks"
  <2>1. counts' = [counts EXCEPT !.ticks = counts.ticks + 1]
    BY <1>3 DEF Counted
  <2> QED  BY <1>0, <2>1
<1>4. CASE what = "edits"
  <2>1. counts' = [counts EXCEPT !.edits = counts.edits + 1]
    BY <1>4 DEF Counted
  <2> QED  BY <1>0, <2>1
<1> QED
  BY <1>1, <1>2, <1>3, <1>4

\* The texts the buffers start with.
LEMMA FirstTexts == <<<<1, 2>>, <<3>>>> \in [1..2 -> Seq(Int)]
<1>1. <<1, 2>> \in Seq(Int) /\ <<3>> \in Seq(Int)
  OBVIOUS
<1> DEFINE a == <<1, 2>>  b == <<3>>
<1> HIDE DEF a, b
<1>2. a \in Seq(Int) /\ b \in Seq(Int) => <<a, b>> \in [1..2 -> Seq(Int)]
  OBVIOUS
<1> QED
  BY <1>1, <1>2 DEF a, b

\* No plugin runs at first.
LEMMA InitHosts == PluginsInit => HostInv
<1> SUFFICES ASSUME PluginsInit PROVE HostInv
  OBVIOUS
<1>1. plugins \in Seq(Loaded) /\ todo \in Seq(Handling) /\ calls \in Seq(Call)
      /\ Len(todo) = 0 /\ Len(calls) = 0
  BY DEF PluginsInit
<1>2. buffers \in [1..2 -> Seq(Int)]
  BY FirstTexts DEF PluginsInit
<1>3. counts \in [ops : Nat, starts : Nat, ticks : Nat, edits : Nat] /\ ~landed.fresh /\ focused \in 1..2
  BY DEF PluginsInit
<1> QED
  BY <1>1, <1>2, <1>3 DEF HostInv

\* What a start loads is typed.
LEMMA DiscoverHosts == ASSUME StoreInv, HostInv, Discover PROVE HostInv'
<1> DEFINE valid == {p \in lock : Loadable(p.name)}
           names == {p.name : p \in valid}
           order == SetToSeq(names)
           new(i) == [caps |-> Granted(dirs[order[i]]), name |-> order[i],
                      disabled |-> FALSE, snaps |-> {}]
<1>1. IsFiniteSet(names)
  <2> DEFINE f == [p \in valid |-> p.name]
  <2>1. valid \in SUBSET lock /\ IsFiniteSet(lock)
    BY DEF StoreInv, StoreTyped
  <2>2. IsFiniteSet(valid)
    BY <2>1, FS_Subset
  <2>3. f \in Surjection(valid, names)
    BY DEF Surjection
  <2> HIDE DEF f, valid
  <2> QED  BY <2>2, <2>3, FS_Surjection
<1>2. order \in [1..Cardinality(names) -> names] /\ Cardinality(names) \in Nat
  <2> HIDE DEF names
  <2> QED  BY <1>1, SetInOrder
<1>3. \A n \in names : n \in PluginNames /\ dirs[n] \in Packages
  <2> SUFFICES ASSUME NEW p \in valid PROVE p.name \in PluginNames /\ dirs[p.name] \in Packages
    OBVIOUS
  <2>1. p \in Packages /\ p.name \in PluginNames
    BY NameOfPackage DEF StoreInv, StoreTyped
  <2>2. dirs[p.name] # NoPackage /\ dirs[p.name] \in Dirs
    BY <2>1 DEF Loadable, StoreInv, StoreTyped
  <2> QED  BY <2>1, <2>2 DEF Dirs
<1>4. plugins' = [i \in 1..Cardinality(names) |-> new(i)]
  <2>1. plugins' = [i \in DOMAIN order |-> new(i)]
    BY DEF Discover
  <2>2. DOMAIN order = 1..Cardinality(names)
    BY <1>2
  <2> QED  BY <2>1, <2>2
<1>5. \A i \in 1..Cardinality(names) : new(i) \in Loaded
  <2> SUFFICES ASSUME NEW i \in 1..Cardinality(names) PROVE new(i) \in Loaded
    OBVIOUS
  <2>1. order[i] \in names
    BY <1>2
  <2> HIDE DEF order, names
  <2>2. order[i] \in PluginNames /\ Granted(dirs[order[i]]) \in Caps
    BY <1>3, <2>1 DEF Caps
  <2> QED  BY <2>2 DEF Loaded
<1>6. plugins' \in Seq(Loaded)
  <2> HIDE DEF new, names
  <2>1. plugins' \in [1..Cardinality(names) -> Loaded]
    BY <1>4, <1>5
  <2> QED  BY <1>2, <2>1
<1>7. buffers' \in [1..2 -> Seq(Int)]
  BY FirstTexts DEF Discover
<1>8. counts' \in [ops : Nat, starts : Nat, ticks : Nat, edits : Nat]
  BY CountersCount DEF Discover
<1>9. todo' = <<>> /\ calls' = <<>> /\ ~landed'.fresh /\ focused' \in 1..2
  BY DEF Discover
<1> QED
  BY <1>6, <1>7, <1>8, <1>9 DEF HostInv

\* A handler of every plugin is due when an event is fired.
LEMMA HandlersDue ==
  ASSUME HostInv, NEW doc \in 1..2
  PROVE  /\ Handlers(doc) \in Seq(Handling)
         /\ \A i \in 1..Len(Handlers(doc)) : Due(Handlers(doc)[i])
<1>1. plugins \in Seq(Loaded) /\ Len(plugins) \in Nat /\ DOMAIN plugins = 1..Len(plugins)
      /\ buffers[doc] \in Seq(Int)
  BY DEF HostInv
<1>2. Handlers(doc) \in [1..Len(plugins) -> Handling]
  BY <1>1 DEF Handlers, Handling
<1>3. Handlers(doc) \in Seq(Handling) /\ Len(Handlers(doc)) = Len(plugins)
  BY <1>1, <1>2
<1>4. \A i \in 1..Len(plugins) : Due(Handlers(doc)[i])
  BY <1>1 DEF Handlers, Due
<1> QED
  BY <1>3, <1>4

\* An event is fired at every handler.
LEMMA TickHosts == ASSUME HostInv, Tick PROVE HostInv'
<1> DEFINE h == Handlers(focused)
<1>1. h \in Seq(Handling) /\ \A i \in 1..Len(h) : Due(h[i])
  BY HandlersDue DEF HostInv
<1>2. todo' = h \o h /\ UNCHANGED <<plugins, buffers, focused, calls, landed>>
  BY DEF Tick
<1> HIDE DEF h
<1>3. todo' \in Seq(Handling) /\ Len(todo') = Len(h) + Len(h) /\ Len(h) \in Nat
      /\ \A i \in 1..Len(todo') : todo'[i] = IF i <= Len(h) THEN h[i] ELSE h[i - Len(h)]
  BY <1>1, <1>2, ConcatProperties
<1>4. \A i \in 1..Len(todo') : \E k \in 1..Len(h) : todo'[i] = h[k]
  BY <1>3
<1>5. \A i \in 1..Len(todo') : Due(todo'[i])
  BY <1>1, <1>4
<1>6. counts' \in [ops : Nat, starts : Nat, ticks : Nat, edits : Nat]
  BY CountersCount DEF Tick
<1> QED
  BY <1>2, <1>3, <1>5, <1>6 DEF HostInv, Due, OnTarget

\* A document is opened, and the handlers hear of it.
LEMMA FireOpenHosts == ASSUME HostInv, NEW doc \in 1..2, FireOpen(doc) PROVE HostInv'
<1>1. counts' \in [ops : Nat, starts : Nat, ticks : Nat, edits : Nat]
  BY CountersCount DEF FireOpen
<1> QED
  BY <1>1, HandlersDue DEF FireOpen, HostInv, Due, OnTarget

\* The user runs a command of a plugin.
LEMMA RunCommandHosts == ASSUME HostInv, NEW i \in 1..2, RunCommand(i) PROVE HostInv'
<1> DEFINE h == [plugin |-> i, doc |-> focused, snap |-> buffers[focused]]
<1>1. todo' = <<h>> /\ UNCHANGED <<plugins, buffers, focused, calls, landed>> /\ i \in 1..Len(plugins)
  BY DEF RunCommand, HostInv
<1>2. h \in Handling /\ Due(h)
  BY <1>1 DEF Handling, HostInv, Due
<1>3. counts' \in [ops : Nat, starts : Nat, ticks : Nat, edits : Nat]
  BY CountersCount DEF RunCommand
<1> HIDE DEF h
<1>4. todo' \in Seq(Handling) /\ \A k \in 1..Len(todo') : todo'[k] = h
  BY <1>1, <1>2
<1> QED
  BY <1>1, <1>2, <1>3, <1>4 DEF HostInv, Due, OnTarget

\* A plugin in its place, with other snapshots or disabled.
LEMMA PluginStays ==
  ASSUME HostInv, NEW i \in 1..Len(plugins), NEW snaps \in SUBSET Snaps
  PROVE  /\ [plugins EXCEPT ![i].snaps = snaps] \in Seq(Loaded)
         /\ Len([plugins EXCEPT ![i].snaps = snaps]) = Len(plugins)
         /\ [plugins EXCEPT ![i].disabled = TRUE, ![i].snaps = snaps] \in Seq(Loaded)
         /\ Len([plugins EXCEPT ![i].disabled = TRUE, ![i].snaps = snaps]) = Len(plugins)
<1> DEFINE first == [plugins EXCEPT ![i] = [plugins[i] EXCEPT !.disabled = TRUE]]
<1>1. plugins \in Seq(Loaded) /\ plugins[i] \in Loaded
  BY DEF HostInv
<1>2. [plugins[i] EXCEPT !.snaps = snaps] \in Loaded /\ [plugins[i] EXCEPT !.disabled = TRUE] \in Loaded
  BY <1>1 DEF Loaded
<1>3. first \in Seq(Loaded) /\ Len(first) = Len(plugins)
  BY <1>1, <1>2, ExceptSeq
<1> HIDE DEF first
<1>4. i \in 1..Len(first) /\ first[i] \in Loaded
  BY <1>3
<1>5. [first[i] EXCEPT !.snaps = snaps] \in Loaded
  BY <1>4 DEF Loaded
<1>6. [first EXCEPT ![i] = [first[i] EXCEPT !.snaps = snaps]] \in Seq(Loaded)
      /\ Len([first EXCEPT ![i] = [first[i] EXCEPT !.snaps = snaps]]) = Len(first)
  BY <1>3, <1>4, <1>5, ExceptSeq
<1>7. [plugins EXCEPT ![i].snaps = snaps] \in Seq(Loaded)
      /\ Len([plugins EXCEPT ![i].snaps = snaps]) = Len(plugins)
  BY <1>1, <1>2, ExceptSeq
<1> QED
  BY <1>3, <1>6, <1>7 DEF first

\* A handler returns or traps; what it calls it calls on the buffer of now, or on one it
\* had a snapshot of.
LEMMA HandlerHosts == ASSUME HostInv, Handler PROVE HostInv'
<1> DEFINE h == Head(todo)
           snaps == Snapped(plugins[h.plugin].snaps, h.doc, h.snap)
<1>1. todo \in Seq(Handling) /\ todo # <<>> /\ h \in Handling /\ Due(h)
  <2>1. todo \in Seq(Handling) /\ todo # <<>> /\ h = todo[1] /\ 1 \in 1..Len(todo)
    BY DEF Handler, HostInv
  <2>2. todo[1] \in Handling /\ Due(todo[1])
    BY <2>1 DEF HostInv
  <2> QED  BY <2>1, <2>2
<1>2. todo' = Tail(todo) /\ UNCHANGED <<buffers, focused, landed, counts>>
  BY DEF Handler
<1>3. \/ UNCHANGED <<plugins, calls>>
      \/ plugins' = [plugins EXCEPT ![h.plugin].disabled = TRUE, ![h.plugin].snaps = snaps]
         /\ UNCHANGED calls
      \/ plugins' = [plugins EXCEPT ![h.plugin].snaps = snaps] /\ UNCHANGED calls
      \/ /\ plugins' = [plugins EXCEPT ![h.plugin].snaps = snaps]
         /\ \E s \in snaps : \E at \in DOMAIN s.text :
              calls' = Append(calls, [doc |-> s.doc, at |-> at, char |-> s.text[at],
                                      fresh |-> s.doc = h.doc])
  BY DEF Handler
<1>4. h.plugin \in 1..Len(plugins) /\ h.snap = buffers[h.doc] /\ h.doc \in 1..2 /\ h.snap \in Seq(Int)
  BY <1>1 DEF Due, Handling
<1> HIDE DEF h
<1>5. snaps \in SUBSET Snaps /\ \A s \in snaps : s.doc = h.doc => s.text = buffers[h.doc]
  <2>1. plugins[h.plugin].snaps \in SUBSET Snaps
    <3>1. plugins[h.plugin] \in Loaded
      BY <1>4 DEF HostInv
    <3> QED  BY <3>1 DEF Loaded
  <2>2. [doc |-> h.doc, text |-> h.snap] \in Snaps
    BY <1>4 DEF Snaps
  <2> QED  BY <1>4, <2>1, <2>2 DEF Snapped
<1> HIDE DEF snaps
<1>6. plugins' \in Seq(Loaded) /\ Len(plugins') = Len(plugins)
  <2>1. plugins \in Seq(Loaded)
    BY DEF HostInv
  <2>2. /\ [plugins EXCEPT ![h.plugin].snaps = snaps] \in Seq(Loaded)
        /\ Len([plugins EXCEPT ![h.plugin].snaps = snaps]) = Len(plugins)
        /\ [plugins EXCEPT ![h.plugin].disabled = TRUE, ![h.plugin].snaps = snaps] \in Seq(Loaded)
        /\ Len([plugins EXCEPT ![h.plugin].disabled = TRUE, ![h.plugin].snaps = snaps]) = Len(plugins)
    BY <1>4, <1>5, PluginStays
  <2> QED  BY <1>3, <2>1, <2>2
<1>7. todo' \in Seq(Handling) /\ \A i \in 1..Len(todo') : Due(todo'[i])
  <2>1. todo' \in Seq(Handling) /\ Len(todo') = Len(todo) - 1 /\ Len(todo) \in Nat
        /\ \A i \in 1..Len(todo') : todo'[i] = todo[i + 1]
    BY <1>1, <1>2, HeadTailProperties
  <2>2. \A i \in 1..Len(todo') : i + 1 \in 1..Len(todo)
    BY <2>1
  <2> QED  BY <2>1, <2>2 DEF HostInv
<1>8. \A i \in 1..Len(todo') : Due(todo[i])'
  BY <1>2, <1>6, <1>7 DEF Due
<1>9. CASE UNCHANGED calls
  BY <1>2, <1>6, <1>7, <1>8, <1>9 DEF HostInv, OnTarget
<1>10. ASSUME NEW s \in snaps, NEW at \in DOMAIN s.text,
              calls' = Append(calls, [doc |-> s.doc, at |-> at, char |-> s.text[at],
                                      fresh |-> s.doc = h.doc])
       PROVE  HostInv'
  <2> DEFINE c == [doc |-> s.doc, at |-> at, char |-> s.text[at], fresh |-> s.doc = h.doc]
  <2>1. s \in Snaps /\ s.text \in Seq(Int) /\ s.doc \in 1..2 /\ at \in 1..Len(s.text)
        /\ Len(s.text) \in Nat
    BY <1>5 DEF Snaps
  <2>2. s.text[at] \in Int
    BY <2>1
  <2>3. c \in Call
    BY <2>1, <2>2 DEF Call
  <2>4. OnTarget(c)
    <3>1. (c.fresh <=> s.doc = h.doc) /\ c.at = at /\ c.doc = s.doc /\ c.char = s.text[at]
      OBVIOUS
    <3> HIDE DEF c
    <3> QED  BY <1>5, <2>1, <3>1 DEF OnTarget
  <2> HIDE DEF c
  <2>5. calls' \in Seq(Call) /\ Len(calls') = Len(calls) + 1 /\ Len(calls) \in Nat
        /\ \A i \in 1..Len(calls') : calls'[i] = IF i = Len(calls) + 1 THEN c ELSE calls[i]
    BY <1>10, <2>3, AppendProperties DEF HostInv, c
  <2>6. \A i \in 1..Len(calls') : i \in 1..Len(calls) \/ calls'[i] = c
    BY <2>5
  <2>7. \A i \in 1..Len(calls') : OnTarget(calls'[i])
    BY <2>4, <2>5, <2>6 DEF HostInv
  <2> QED  BY <1>2, <1>6, <1>7, <1>8, <2>5, <2>7 DEF HostInv, OnTarget
<1> QED
  BY <1>3, <1>9, <1>10

\* A buffer without one character.
LEMMA WithoutTyped ==
  ASSUME NEW text \in Seq(Int), NEW at \in 1..Len(text)
  PROVE  Without(text, at) \in Seq(Int)
  BY DEF Without

\* A call is applied; those left for its buffer are no longer fresh.
LEMMA ApplyHosts == ASSUME HostInv, Apply PROVE HostInv'
<1> DEFINE c == Head(calls)
           inside == c.at <= Len(buffers[c.doc])
<1>1. calls \in Seq(Call) /\ calls # <<>> /\ c \in Call /\ OnTarget(c) /\ Len(calls) \in Nat \ {0}
  <2>1. calls \in Seq(Call) /\ calls # <<>> /\ c = calls[1] /\ 1 \in 1..Len(calls)
        /\ Len(calls) \in Nat \ {0}
    BY DEF Apply, HostInv
  <2>2. calls[1] \in Call /\ OnTarget(calls[1])
    BY <2>1 DEF HostInv
  <2> QED  BY <2>1, <2>2
<1>2. /\ buffers' = IF inside THEN [buffers EXCEPT ![c.doc] = Without(@, c.at)] ELSE buffers
      /\ calls' = [i \in 1..(Len(calls) - 1) |->
                     IF calls[i + 1].doc = c.doc THEN [calls[i + 1] EXCEPT !.fresh = FALSE]
                     ELSE calls[i + 1]]
      /\ landed' = [fresh |-> c.fresh, hit |-> inside /\ buffers[c.doc][c.at] = c.char]
      /\ todo = <<>> /\ UNCHANGED <<plugins, focused, todo, counts>>
  BY DEF Apply
<1> HIDE DEF c
<1>3. c.doc \in 1..2 /\ c.at \in Nat \ {0} /\ buffers \in [1..2 -> Seq(Int)] /\ buffers[c.doc] \in Seq(Int)
  BY <1>1 DEF Call, HostInv
<1>4. buffers' \in [1..2 -> Seq(Int)] /\ \A d \in 1..2 : d # c.doc => buffers'[d] = buffers[d]
  <2>1. CASE ~inside
    BY <1>2, <1>3, <2>1
  <2>2. CASE inside
    <3>1. c.at \in 1..Len(buffers[c.doc])
      BY <1>3, <2>2
    <3>2. Without(buffers[c.doc], c.at) \in Seq(Int)
      BY <1>3, <3>1, WithoutTyped
    <3> QED  BY <1>2, <1>3, <2>2, <3>2
  <2> QED  BY <2>1, <2>2
<1>5. \A i \in 1..(Len(calls) - 1) :
        /\ i + 1 \in 1..Len(calls) /\ calls[i + 1] \in Call /\ OnTarget(calls[i + 1])
        /\ [calls[i + 1] EXCEPT !.fresh = FALSE] \in Call
  <2> SUFFICES ASSUME NEW i \in 1..(Len(calls) - 1)
               PROVE  /\ i + 1 \in 1..Len(calls) /\ calls[i + 1] \in Call /\ OnTarget(calls[i + 1])
                      /\ [calls[i + 1] EXCEPT !.fresh = FALSE] \in Call
    OBVIOUS
  <2>1. i + 1 \in 1..Len(calls)
    BY <1>1
  <2>2. calls[i + 1] \in Call /\ OnTarget(calls[i + 1])
    BY <1>1, <2>1 DEF HostInv
  <2> QED  BY <2>1, <2>2 DEF Call
<1>6. calls' \in Seq(Call) /\ Len(calls') = Len(calls) - 1
  <2>1. calls' \in [1..(Len(calls) - 1) -> Call]
    BY <1>2, <1>5
  <2>2. Len(calls) - 1 \in Nat
    BY <1>1
  <2> QED  BY <2>1, <2>2
<1>7. ASSUME NEW i \in 1..Len(calls') PROVE OnTarget(calls[i])'
  <2> DEFINE d == calls[i + 1]
  <2>1. i \in 1..(Len(calls) - 1) /\ d \in Call /\ OnTarget(d)
    BY <1>5, <1>6
  <2>2. calls'[i] = IF d.doc = c.doc THEN [d EXCEPT !.fresh = FALSE] ELSE d
    BY <1>2, <2>1
  <2> HIDE DEF d
  <2>3. CASE d.doc = c.doc
    <3>1. ~calls'[i].fresh
      BY <2>1, <2>2, <2>3 DEF Call
    <3> QED  BY <3>1 DEF OnTarget
  <2>4. CASE d.doc # c.doc
    <3>1. calls'[i] = d /\ d.doc \in 1..2
      BY <2>1, <2>2, <2>4 DEF Call
    <3>2. buffers'[d.doc] = buffers[d.doc]
      BY <1>4, <2>4, <3>1
    <3> QED  BY <2>1, <3>1, <3>2 DEF OnTarget
  <2> QED  BY <2>3, <2>4
<1>8. landed'.fresh => landed'.hit
  BY <1>1, <1>2 DEF OnTarget
<1>9. todo' \in Seq(Handling) /\ Len(todo') = 0
  BY <1>2
<1>10. \A i \in 1..Len(todo') : Due(todo[i])'
  BY <1>9
<1>11. plugins' \in Seq(Loaded) /\ focused' \in 1..2
       /\ counts' \in [ops : Nat, starts : Nat, ticks : Nat, edits : Nat]
  BY <1>2 DEF HostInv
<1> QED
  BY <1>4, <1>6, <1>7, <1>8, <1>9, <1>10, <1>11 DEF HostInv

\* The user edits a buffer.
LEMMA TypeHosts == ASSUME HostInv, Type PROVE HostInv'
<1>1. counts' \in [ops : Nat, starts : Nat, ticks : Nat, edits : Nat]
  BY CountersCount DEF Type
<1>2. todo = <<>> /\ calls = <<>> /\ UNCHANGED <<plugins, focused, todo, calls, landed>>
      /\ buffers' = [buffers EXCEPT ![focused] = <<10 + counts.edits>> \o @]
  BY DEF Type, Idle
<1>3. counts.edits \in Nat /\ focused \in 1..2 /\ buffers[focused] \in Seq(Int)
  BY DEF HostInv
<1>4. <<10 + counts.edits>> \in Seq(Int)
  <2>1. 10 + counts.edits \in Int
    BY <1>3
  <2> QED  BY <2>1
<1>5. <<10 + counts.edits>> \o buffers[focused] \in Seq(Int)
  BY <1>3, <1>4, ConcatProperties
<1>6. buffers' \in [1..2 -> Seq(Int)]
  BY <1>2, <1>5 DEF HostInv
<1>7. Len(todo') = 0 /\ Len(calls') = 0
  BY <1>2
<1> QED
  BY <1>1, <1>2, <1>6, <1>7 DEF HostInv

\* Commands on the store leave the editor alone; showing a buffer too.
LEMMA HostRests ==
  ASSUME HostInv, UNCHANGED <<plugins, buffers, todo, calls, landed>>, focused' \in 1..2,
         counts' = counts \/ \E bound : Counted("ops", bound)
  PROVE  HostInv'
<1>1. counts' \in [ops : Nat, starts : Nat, ticks : Nat, edits : Nat]
  BY CountersCount DEF HostInv
<1> QED
  BY <1>1 DEF HostInv, Due, OnTarget

\* Every step keeps what is known of the calls under way.
LEMMA StepHosts == ASSUME StoreInv, HostInv, [PluginsNext]_pluginVars PROVE HostInv'
<1>0. focused \in 1..2
  BY DEF HostInv
<1>1. CASE \E p \in Packages : Stage(p) \/ RemoveDir(p)
  BY <1>0, <1>1, HostRests DEF Stage, RemoveDir, editor
<1>2. CASE Check \/ RemoveOld \/ Promote \/ WriteLock \/ Unlock \/ CutShort
  BY <1>0, <1>2, HostRests DEF Check, RemoveOld, Promote, WriteLock, Unlock, CutShort, editor
<1>3. CASE Discover \/ Tick \/ Handler \/ Apply \/ Type
  BY <1>3, DiscoverHosts, TickHosts, HandlerHosts, ApplyHosts, TypeHosts
<1>4. CASE \E doc \in 1..2 : FireOpen(doc) \/ Focus(doc)
  BY <1>4, FireOpenHosts, HostRests DEF Focus
<1>5. CASE \E i \in 1..2 : RunCommand(i)
  BY <1>5, RunCommandHosts
<1>6. CASE UNCHANGED pluginVars
  BY <1>0, <1>6, HostRests DEF pluginVars
<1> QED
  BY <1>1, <1>2, <1>3, <1>4, <1>5, <1>6 DEF PluginsNext

\* For any packages and any number of commands, starts and crashes: the lockfile and the
\* directories agree on a name unless a command on it is under way or was cut short, no
\* package that cannot be loaded gets in, and no plugin is granted a directory outside the
\* project (install, remove, resolve_within).
THEOREM StoreStaysSound == PluginsSpec => []StoreIsSound
<1>1. StoreInv /\ HostInv => StoreIsSound
  <2> SUFFICES ASSUME StoreInv, HostInv PROVE StoreIsSound
    OBVIOUS
  <2>1. ASSUME NEW n \in PluginNames, ~Busy(n), n \notin cut
        PROVE  {p \in lock : p.name = n} = {dirs[n]} \ {NoPackage}
    BY <2>1 DEF StoreInv, Busy, Changing, Agree
  <2>2. ASSUME NEW n \in PluginNames, dirs[n] # NoPackage PROVE Loadable(n)
    BY <2>2 DEF StoreInv
  <2>3. ASSUME NEW i \in DOMAIN plugins, NEW at \in plugins[i].caps.fs PROVE IsPrefix(Project, at)
    <3>1. plugins[i] \in Loaded
      BY DEF HostInv
    <3> QED  BY <3>1, GrantsInside DEF Loaded
  <2> QED  BY <2>1, <2>2, <2>3 DEF StoreIsSound
<1>2. PluginsInit => StoreInv /\ HostInv
  BY InitSound, InitHosts
<1>3. StoreInv /\ HostInv /\ [PluginsNext]_pluginVars => (StoreInv /\ HostInv)'
  BY PluginsAssumption, StepSound, StepHosts
<1> QED
  BY <1>1, <1>2, <1>3, PTL DEF PluginsSpec

\* For any packages and any number of events and edits: an edit made on the snapshot of an
\* event hits the character it was meant for, as long as no other edit of the same round
\* touched that buffer before it (apply_plugin_calls).
THEOREM EditsHit == PluginsSpec => []EditsHitTheirTarget
<1>1. HostInv => EditsHitTheirTarget
  BY DEF HostInv, EditsHitTheirTarget
<1>2. PluginsInit => StoreInv /\ HostInv
  BY InitSound, InitHosts
<1>3. StoreInv /\ HostInv /\ [PluginsNext]_pluginVars => (StoreInv /\ HostInv)'
  BY PluginsAssumption, StepSound, StepHosts
<1> QED
  BY <1>1, <1>2, <1>3, PTL DEF PluginsSpec

-----------------------------------------------------------------------------
Repos == [Tracked -> [staged : BOOLEAN, other : BOOLEAN]]
Messages == {StatusOf(r) : r \in Repos} \cup {Failed}

\* A thread is what RunGit, ReadStatus and Send take it for.
IsThread(t) ==
  \E id, command, at, read :
    /\ t = [id |-> id, command |-> command, at |-> at, read |-> read]
    /\ command.run \in {"none", "add", "reset", "commit"}
    /\ at = "read" => read \in Messages

PanelTyped ==
  /\ repo \in Repos
  /\ status \in Messages \cup {<<>>}
  /\ selected \in Nat \ {0}
  /\ status # <<>> => selected \in 1..Len(status)
  /\ \A t \in threads : IsThread(t)
  /\ inbox \in Seq(Messages)

\* A status that is of the repository as it is, unless that changed since.
OfNow(s) == ~stale => s = StatusOf(repo) /\ s # Failed

\* One thread on its own, one message, or none of them.
PanelInv ==
  /\ PanelTyped
  /\ alone => \/ Quiet /\ OfNow(status)
              \/ \E t : /\ threads = {t} /\ inbox = <<>>
                        /\ t.at = "read" => OfNow(t.read)
              \/ \E m \in Messages : threads = {} /\ inbox = <<m>> /\ OfNow(m)

\* A status lists so many files.
LEMMA StatusSized ==
  ASSUME IsFiniteSet(Tracked), NEW r
  PROVE  /\ Len(StatusOf(r)) \in Nat
         /\ StatusOf(r) # <<>> => Len(StatusOf(r)) > 0
<1> DEFINE S == {f \in Tracked : r[f] # Clean}
           At(i) == CHOOSE f \in S : Cardinality({g \in S : g <= f}) = i
           n == Cardinality(S)
<1>1. n \in Nat
  <2>1. S \in SUBSET Tracked
    OBVIOUS
  <2>2. IsFiniteSet(S)
    BY <2>1, FS_Subset
  <2> HIDE DEF S
  <2> QED  BY <2>2, FS_CardinalityType
<1>2. StatusOf(r) = [i \in 1..n |-> [file |-> At(i), is |-> r[At(i)]]]
  BY DEF StatusOf, Cardinality
<1> HIDE DEF n, At
<1>3. Len(StatusOf(r)) = n
  BY <1>1, <1>2
<1>4. n = 0 => StatusOf(r) = <<>>
  BY <1>2
<1> QED
  BY <1>1, <1>3, <1>4

\* What is shown has as many rows as it has; an error has one, which is none of a status.
LEMMA MessageSized ==
  ASSUME IsFiniteSet(Tracked), NEW m \in Messages \cup {<<>>}
  PROVE  Len(m) \in Nat /\ (m # <<>> => Len(m) > 0)
  BY StatusSized DEF Messages, Failed

\* No status is shown, and the repository is news.
LEMMA InitShown == GitInit => PanelInv
<1> SUFFICES ASSUME GitInit PROVE PanelInv
  OBVIOUS
<1>1. repo \in Repos
  <2>1. {Clean, [staged |-> FALSE, other |-> TRUE]} \subseteq [staged : BOOLEAN, other : BOOLEAN]
    BY DEF Clean
  <2> QED  BY <2>1 DEF GitInit, Repos
<1>2. inbox \in Seq(Messages) /\ threads = {} /\ Quiet /\ selected \in Nat \ {0}
      /\ status = <<>> /\ stale
  BY DEF GitInit, Quiet
<1> QED
  BY <1>1, <1>2 DEF PanelInv, PanelTyped, OfNow

\* A thread is known by what it is to run and how far it is.
LEMMA ThreadIs ==
  ASSUME NEW id, NEW command, NEW at, NEW read,
         command.run \in {"none", "add", "reset", "commit"}, at = "read" => read \in Messages
  PROVE  IsThread([id |-> id, command |-> command, at |-> at, read |-> read])
  BY Zenon DEF IsThread

\* A thread is started: alone, if there was neither a thread nor a message.
LEMMA SpawnShown ==
  ASSUME PanelInv, NEW command, command.run \in {"none", "add", "reset", "commit"}, Spawn(command),
         UNCHANGED <<repo, status, selected, inbox, edits, stale>>
  PROVE  PanelInv'
<1> DEFINE t == [id |-> started, command |-> command, at |-> "start", read |-> <<>>]
<1>1. threads' = threads \cup {t} /\ alone' = Quiet
  BY DEF Spawn
<1>2. IsThread(t) /\ t.at = "start"
  <2>1. t.at = "start" /\ "start" # "read"
    OBVIOUS
  <2> QED  BY <2>1, ThreadIs
<1> HIDE DEF t
<1>3. PanelTyped'
  BY <1>1, <1>2 DEF PanelInv, PanelTyped, Repos, Messages
<1>4. alone' => threads' = {t} /\ inbox' = <<>>
  BY <1>1 DEF Quiet
<1> QED
  BY <1>2, <1>3, <1>4 DEF PanelInv

\* What git makes of the flags of a file are flags.
LEMMA AfterTyped ==
  ASSUME repo \in Repos, NEW c, c.run \in {"none", "add", "reset", "commit"}
  PROVE  After(c) \in Repos
<1> DEFINE F == [staged : BOOLEAN, other : BOOLEAN]
<1>1. repo \in [Tracked -> F]
  BY DEF Repos
<1>2. CASE c.run = "none"
  BY <1>2 DEF After
<1>3. CASE c.run = "add"
  <2>1. \A f \in Tracked : [staged |-> repo[f].staged \/ repo[f].other, other |-> FALSE] \in F
    OBVIOUS
  <2> HIDE DEF F
  <2>2. [repo EXCEPT ![c.file] = [staged |-> @.staged \/ @.other, other |-> FALSE]] \in [Tracked -> F]
    BY <1>1, <2>1
  <2> QED  BY <1>3, <2>2 DEF After, Repos, F
<1>4. CASE c.run = "reset"
  <2>1. \A f \in Tracked : [staged |-> FALSE, other |-> repo[f].staged \/ repo[f].other] \in F
    OBVIOUS
  <2> HIDE DEF F
  <2>2. [repo EXCEPT ![c.file] = [staged |-> FALSE, other |-> @.staged \/ @.other]] \in [Tracked -> F]
    BY <1>1, <2>1
  <2> QED  BY <1>4, <2>2 DEF After, Repos, F
<1>5. CASE c.run = "commit"
  <2>1. \A f \in Tracked : [repo[f] EXCEPT !.staged = FALSE] \in F
    BY <1>1
  <2> QED  BY <1>5, <2>1 DEF After, Repos
<1> QED
  BY <1>2, <1>3, <1>4, <1>5

\* A thread goes on: it runs its command, reads the status, sends it.
LEMMA WorkShown == ASSUME PanelInv, Work PROVE PanelInv'
<1>1. PICK t \in threads : RunGit(t) \/ ReadStatus(t) \/ Send(t)
  BY DEF Work
<1>2. PICK id, command, at, read :
        t = [id |-> id, command |-> command, at |-> at, read |-> read]
        /\ command.run \in {"none", "add", "reset", "commit"}
        /\ (at = "read" => read \in Messages)
  BY DEF PanelInv, PanelTyped, IsThread
<1>0. t \in [id : {id}, command : {command}, at : {at}, read : {read}]
  BY <1>2
<1>3. UNCHANGED <<status, selected, alone>>
  BY DEF Work
<1>4. alone => (/\ threads = {t} /\ inbox = <<>>
                /\ t.at = "read" => OfNow(t.read))
  BY <1>1 DEF PanelInv, Quiet
<1>5. CASE RunGit(t)
  <2> DEFINE u == [id |-> id, command |-> command, at |-> "ran", read |-> read]
  <2>1. threads' = (threads \ {t}) \cup {u} /\ UNCHANGED <<inbox, stale>>
        /\ repo' \in {After(t.command), repo}
    <3>1. [t EXCEPT !.at = "ran"] = u
      BY <1>0
    <3> QED  BY <3>1, <1>5 DEF RunGit
  <2>2. IsThread(u) /\ u.at # "read"
    <3>1. u.at = "ran" /\ "ran" # "read"
      OBVIOUS
    <3> QED  BY <1>2, <3>1, ThreadIs
  <2> HIDE DEF u
  <2>3. repo' \in Repos
    <3>1. repo \in Repos
      BY DEF PanelInv, PanelTyped
    <3>2. After(command) \in Repos
      BY <1>2, <3>1, AfterTyped
    <3>3. t.command = command
      BY <1>2
    <3> QED  BY <2>1, <3>1, <3>2, <3>3
  <2>4. PanelTyped'
    BY <1>3, <2>1, <2>2, <2>3 DEF PanelInv, PanelTyped
  <2>5. alone' => threads' = {u} /\ inbox' = <<>>
    BY <1>3, <1>4, <2>1
  <2> QED  BY <2>2, <2>4, <2>5 DEF PanelInv
<1>6. CASE ReadStatus(t)
  <2>1. PICK now \in {StatusOf(repo), Failed} :
          threads' = (threads \ {t}) \cup {[t EXCEPT !.at = "read", !.read = now]}
          /\ stale' = (now = Failed) /\ UNCHANGED <<repo, inbox>>
    BY <1>6 DEF ReadStatus
  <2> DEFINE u == [id |-> id, command |-> command, at |-> "read", read |-> now]
  <2>2. threads' = (threads \ {t}) \cup {u}
    <3> DEFINE v == [t EXCEPT !.at = "read"]
    <3>1. v \in [id : {id}, command : {command}, at : {"read"}, read : {read}]
      BY <1>0
    <3>2. [t EXCEPT !.at = "read", !.read = now] = [v EXCEPT !.read = now]
      OBVIOUS
    <3> HIDE DEF v
    <3>3. [v EXCEPT !.read = now] = u
      BY <3>1
    <3> QED  BY <2>1, <3>2, <3>3
  <2>3. now \in Messages
    BY <2>1 DEF Messages, PanelInv, PanelTyped
  <2>4. IsThread(u) /\ u.read = now
    BY <1>2, <2>3, ThreadIs
  <2> HIDE DEF u
  <2>5. PanelTyped'
    BY <1>3, <2>1, <2>2, <2>4 DEF PanelInv, PanelTyped
  <2>6. alone' => threads' = {u} /\ inbox' = <<>>
    BY <1>3, <1>4, <2>1, <2>2
  <2>7. OfNow(now)'
    BY <2>1 DEF OfNow
  <2> QED  BY <2>4, <2>5, <2>6, <2>7 DEF PanelInv
<1>7. CASE Send(t)
  <2>1. t.at = "read" /\ inbox' = Append(inbox, read) /\ threads' = threads \ {t}
        /\ UNCHANGED <<repo, stale>> /\ t.read = read
    BY <1>2, <1>7 DEF Send
  <2>2. read \in Messages
    BY <1>2, <2>1
  <2>3. PanelTyped'
    BY <1>3, <2>1, <2>2 DEF PanelInv, PanelTyped
  <2>4. alone' => threads' = {} /\ inbox' = <<read>> /\ OfNow(read)
    BY <1>3, <1>4, <2>1
  <2>5. OfNow(read) => OfNow(read)'
    BY <2>1 DEF OfNow
  <2> QED  BY <2>2, <2>3, <2>4, <2>5 DEF PanelInv
<1> QED
  BY <1>1, <1>5, <1>6, <1>7

\* The highlight stays on a row.
LEMMA ClampedIsRow ==
  ASSUME IsFiniteSet(Tracked), selected \in Nat \ {0}, NEW m \in Messages
  PROVE  Clamped(m) \in Nat \ {0} /\ (m # <<>> => Clamped(m) \in 1..Len(m))
  BY MessageSized DEF Clamped

\* The editor takes the status that comes first.
LEMMA TakeShown == ASSUME IsFiniteSet(Tracked), PanelInv, Take PROVE PanelInv'
<1> DEFINE m == Head(inbox)
<1>1. inbox \in Seq(Messages) /\ inbox # <<>> /\ m \in Messages /\ inbox' = Tail(inbox)
      /\ inbox' \in Seq(Messages)
  BY DEF PanelInv, PanelTyped, Take
<1>2. UNCHANGED <<repo, threads, alone, stale>>
      /\ IF m = Failed THEN UNCHANGED <<selected, status>>
         ELSE selected' = Clamped(m) /\ status' = m
  BY DEF Take
<1> HIDE DEF m
<1>3. selected \in Nat \ {0} /\ (status # <<>> => selected \in 1..Len(status))
      /\ status \in Messages \cup {<<>>}
  BY DEF PanelInv, PanelTyped
<1>4. /\ selected' \in Nat \ {0} /\ (status' # <<>> => selected' \in 1..Len(status'))
      /\ status' \in Messages \cup {<<>>}
  BY <1>1, <1>2, <1>3, ClampedIsRow
<1>5. PanelTyped'
  BY <1>1, <1>2, <1>4 DEF PanelInv, PanelTyped
<1>6. alone' => Quiet' /\ OfNow(status)'
  <2> SUFFICES ASSUME alone' PROVE Quiet' /\ OfNow(status)'
    OBVIOUS
  <2>1. PICK n \in Messages : threads = {} /\ inbox = <<n>> /\ OfNow(n)
    BY <1>1, <1>2 DEF PanelInv, Quiet
  <2>2. m = n /\ inbox' = <<>>
    BY <1>1, <2>1 DEF m
  <2>3. Quiet'
    BY <1>2, <2>1, <2>2 DEF Quiet
  <2>4. ~stale => m # Failed /\ m = StatusOf(repo)
    BY <2>1, <2>2 DEF OfNow
  <2> QED  BY <1>2, <2>3, <2>4 DEF OfNow
<1> QED
  BY <1>5, <1>6 DEF PanelInv

\* j and k stay on the rows there are.
LEMMA SelectShown == ASSUME IsFiniteSet(Tracked), PanelInv, Select PROVE PanelInv'
<1>1. UNCHANGED <<repo, status, threads, inbox, alone, stale>>
      /\ selected' \in {IF status = <<>> \/ selected = Len(status) THEN selected ELSE selected + 1,
                        IF selected = 1 THEN 1 ELSE selected - 1}
  BY DEF Select
<1>2. selected \in Nat \ {0} /\ (status # <<>> => selected \in 1..Len(status))
      /\ status \in Messages \cup {<<>>}
  BY DEF PanelInv, PanelTyped
<1>3. Len(status) \in Nat
  BY <1>2, MessageSized
<1>4. selected' \in Nat \ {0} /\ (status # <<>> => selected' \in 1..Len(status))
  BY <1>1, <1>2, <1>3
<1>5. PanelTyped'
  BY <1>1, <1>4 DEF PanelInv, PanelTyped
<1> QED
  BY <1>1, <1>5 DEF PanelInv, Quiet, OfNow

\* A file changes: nothing that was read is of now.
LEMMA EditFileShown == ASSUME PanelInv, EditFile PROVE PanelInv'
<1>1. UNCHANGED <<status, selected, threads, inbox, alone>> /\ stale'
  BY DEF EditFile
<1>2. PICK f \in Tracked : repo' = [repo EXCEPT ![f].other = TRUE]
  BY DEF EditFile
<1>3. repo' \in Repos
  <2>1. repo \in Repos /\ repo[f] \in [staged : BOOLEAN, other : BOOLEAN]
    BY DEF PanelInv, PanelTyped, Repos
  <2>2. [repo[f] EXCEPT !.other = TRUE] \in [staged : BOOLEAN, other : BOOLEAN]
    BY <2>1
  <2> QED  BY <1>2, <2>1, <2>2 DEF Repos
<1>4. PanelTyped'
  BY <1>1, <1>3 DEF PanelInv, PanelTyped
<1> QED
  BY <1>1, <1>4 DEF PanelInv, Quiet, OfNow

\* Every step keeps what is known of the panel.
LEMMA StepShown == ASSUME IsFiniteSet(Tracked), PanelInv, [GitNext]_gitVars PROVE PanelInv'
<1>1. CASE ScmKey
  <2>1. PICK command : Spawn(command) /\ command.run \in {"none", "add", "reset", "commit"}
    <3>1. CASE Spawn(NoCommand)
      <4>1. NoCommand.run = "none"
        BY DEF NoCommand
      <4> QED  BY <3>1, <4>1
    <3>2. CASE \E run \in {"add", "reset"} : Spawn([run |-> run, file |-> status[selected].file])
      <4>1. PICK run \in {"add", "reset"} : Spawn([run |-> run, file |-> status[selected].file])
        BY <3>2
      <4>2. [run |-> run, file |-> status[selected].file].run = run
        OBVIOUS
      <4> QED  BY <4>1, <4>2
    <3>3. CASE Spawn([run |-> "commit", file |-> 0])
      <4>1. [run |-> "commit", file |-> 0].run = "commit"
        OBVIOUS
      <4> QED  BY <3>3, <4>1
    <3> QED  BY <1>1, <3>1, <3>2, <3>3 DEF ScmKey
  <2> QED  BY <1>1, <2>1, SpawnShown DEF ScmKey
<1>2. CASE UNCHANGED gitVars
  BY <1>2 DEF gitVars, PanelInv, PanelTyped, Quiet, OfNow
<1> QED
  BY <1>1, <1>2, SelectShown, WorkShown, TakeShown, EditFileShown DEF GitNext

\* For any files and any number of threads and edits: while git commands do not run
\* across each other, the panel at rest shows the repository as it is, and a file is
\* highlighted whenever files are listed (spawn_scm_refresh, refresh).
THEOREM PanelShows == GitSpec => []PanelShowsTheRepository
<1>1. PanelInv => PanelShowsTheRepository
  <2> SUFFICES ASSUME PanelInv PROVE PanelShowsTheRepository
    OBVIOUS
  <2>1. ASSUME Quiet, alone, ~stale PROVE status = StatusOf(repo)
    BY <2>1 DEF Quiet, OfNow, PanelInv
  <2>2. status # <<>> => selected \in 1..Len(status)
    BY DEF PanelInv, PanelTyped
  <2> QED  BY <2>1, <2>2 DEF PanelShowsTheRepository
<1>2. PanelInv /\ [GitNext]_gitVars => PanelInv'
  BY GitAssumption, StepShown
<1> QED
  BY <1>1, <1>2, InitShown, PTL DEF GitSpec

-----------------------------------------------------------------------------
\* The file tree.
Filed == Seq(Names)

TreeRows == [path : Filed, dir : BOOLEAN, expanded : BOOLEAN]

\* A tree: whatever a file or a directory is in is a directory.
IsTree(on) ==
  /\ IsFiniteSet(DOMAIN on)
  /\ DOMAIN on \subseteq Filed \ {<<>>}
  /\ \A p \in DOMAIN on : \A n \in 1..(Len(p) - 1) :
       SubSeq(p, 1, n) \in DOMAIN on /\ on[SubSeq(p, 1, n)] = "dir"

\* A prompt is about the row highlighted when it was asked for ...
PromptIsOfItsRow ==
  prompt # Nothing =>
    /\ prompt.kind \in Kinds /\ prompt.dir \in Filed /\ prompt.target \in Filed
    /\ prompt.asked = prompt.target

\* ... and so is the operation; what it makes was not there when it looked, and a
\* rename stays in its directory.
OpIsOfItsRow ==
  op # Nothing =>
    /\ op.kind \in Kinds /\ op.from \in Filed /\ op.asked = op.from
    /\ op.kind # "delete" => op.dest \in Filed \ {<<>>}
    /\ op.kind \in {"file", "rename"} => op.dest \notin DOMAIN op.seen
    /\ op.kind = "rename" => \E name \in Names : op.dest = Append(Front(op.from), name)

TreeInv == IsTree(found) /\ entries \in Seq(TreeRows) /\ PromptIsOfItsRow /\ OpIsOfItsRow

\* A path and one it is under, place by place.
LEMMA UnderIs ==
  ASSUME NEW p \in Filed, NEW q \in Filed
  PROVE  /\ Under(p, q) <=> Len(p) <= Len(q) /\ \A i \in 1..Len(p) : p[i] = q[i]
         /\ Under(p, q) => p = SubSeq(q, 1, Len(p))
<1>1. /\ Len(p) \in Nat /\ Len(q) \in Nat /\ SubSeq(p, 1, Len(p)) = p
  BY DEF Filed
<1>2. ASSUME Len(p) <= Len(q)
      PROVE  /\ Len(SubSeq(q, 1, Len(p))) = Len(p) /\ SubSeq(q, 1, Len(p)) \in Filed
             /\ \A i \in 1..Len(p) : SubSeq(q, 1, Len(p))[i] = q[i]
  BY <1>1, <1>2 DEF Filed
<1>3. ASSUME Len(p) <= Len(q), \A i \in 1..Len(p) : p[i] = q[i]
      PROVE  p = SubSeq(q, 1, Len(p))
  BY <1>1, <1>2, <1>3, SeqEqual DEF Filed
<1> QED
  BY <1>1, <1>2, <1>3 DEF Under, IsPrefix

\* The first places of a path.
LEMMA StartOfPath ==
  ASSUME NEW p \in Filed, NEW n \in 0..Len(p)
  PROVE  /\ SubSeq(p, 1, n) \in Filed /\ Len(SubSeq(p, 1, n)) = n
         /\ \A i \in 1..n : SubSeq(p, 1, n)[i] = p[i]
         /\ Under(SubSeq(p, 1, n), p)
         /\ n > 0 => SubSeq(p, 1, n) # <<>>
<1>1. Len(p) \in Nat /\ n \in Nat /\ n <= Len(p)
  BY DEF Filed
<1>2. SubSeq(p, 1, n) \in Filed /\ Len(SubSeq(p, 1, n)) = n
  BY <1>1 DEF Filed
<1>3. \A i \in 1..n : SubSeq(p, 1, n)[i] = p[i]
  BY <1>1 DEF Filed
<1>4. Under(SubSeq(p, 1, n), p)
  BY <1>1, <1>2, <1>3, UnderIs
<1> QED
  BY <1>1, <1>2, <1>3, <1>4

\* The directory of a path.
LEMMA FrontIsPath ==
  ASSUME NEW p \in Filed
  PROVE  Front(p) \in Filed
<1>1. Len(p) \in Nat
  BY DEF Filed
<1>2. ASSUME NEW i \in 1..Len(p) - 1 PROVE p[i] \in Names
  <2>1. i \in 1..Len(p)
    BY <1>1
  <2> QED
    BY <2>1, ElementOfSeq DEF Filed
<1>3. 1 \in Int /\ Len(p) - 1 \in Int
  BY <1>1
<1> QED
  BY <1>2, <1>3, SubSeqProperties DEF Front, Filed

\* What is not below p has nothing below p above it.
LEMMA StartNotUnder ==
  ASSUME NEW p \in Filed, NEW q \in Filed, NEW n \in 0..Len(q), ~Under(p, q)
  PROVE  ~Under(p, SubSeq(q, 1, n))
<1> DEFINE s == SubSeq(q, 1, n)
<1>1. s \in Filed /\ Len(s) = n /\ \A i \in 1..n : s[i] = q[i]
  BY StartOfPath
<1>2. SUFFICES ASSUME Under(p, s) PROVE Under(p, q)
  OBVIOUS
<1>3. Len(p) \in Nat /\ Len(q) \in Nat /\ n \in Nat /\ n <= Len(q)
  BY DEF Filed
<1> HIDE DEF s
<1>4. Len(p) <= n /\ \A i \in 1..Len(p) : p[i] = s[i]
  BY <1>1, <1>2, UnderIs
<1>5. \A i \in 1..Len(p) : p[i] = q[i]
  BY <1>1, <1>3, <1>4
<1>6. Len(p) <= Len(q)
  BY <1>3, <1>4
<1> QED
  BY <1>5, <1>6, UnderIs

\* What is above something in a tree is a directory.
LEMMA AboveIsDir ==
  ASSUME NEW on, IsTree(on), NEW p \in DOMAIN on,
         NEW q \in Filed, q # <<>>, Under(q, p), q # p
  PROVE  q \in DOMAIN on /\ on[q] = "dir"
<1>1. p \in Filed /\ Len(p) \in Nat /\ Len(q) \in Nat /\ SubSeq(p, 1, Len(p)) = p
  <2>1. p \in Filed
    BY DEF IsTree
  <2> QED
    BY <2>1 DEF Filed
<1>2. q = SubSeq(p, 1, Len(q)) /\ Len(q) <= Len(p)
  BY <1>1, UnderIs
<1>3. Len(q) # 0
  BY EmptySeq DEF Filed
<1>4. Len(q) # Len(p)
  <2>1. SUFFICES ASSUME Len(q) = Len(p) PROVE FALSE
    OBVIOUS
  <2>2. q = SubSeq(p, 1, Len(p))
    BY <1>2, <2>1
  <2> QED
    BY <1>1, <2>2
<1>5. Len(q) \in 1..(Len(p) - 1)
  <2>1. \A a, b \in Nat : a <= b /\ a # 0 /\ a # b => a \in 1..(b - 1)
    OBVIOUS
  <2>2. Len(p) \in Nat /\ Len(q) \in Nat /\ Len(q) <= Len(p)
    BY <1>1, <1>2
  <2> QED
    BY <2>1, <2>2, <1>3, <1>4
<1> DEFINE n == Len(q)
<1>6. SubSeq(p, 1, n) \in DOMAIN on /\ on[SubSeq(p, 1, n)] = "dir"
  BY <1>5 DEF IsTree
<1> QED
  BY <1>2, <1>6

\* Less of a tree is one when what is above each thing kept is kept.
LEMMA KeptIsTree ==
  ASSUME NEW on, IsTree(on), NEW D \in SUBSET DOMAIN on,
         \A p \in D : \A n \in 1..(Len(p) - 1) : SubSeq(p, 1, n) \in D
  PROVE  IsTree([q \in D |-> on[q]])
<1> DEFINE g == [q \in D |-> on[q]]
<1>1. DOMAIN g = D /\ \A q \in D : g[q] = on[q]
  OBVIOUS
<1>2. IsFiniteSet(D)
  BY FS_Subset DEF IsTree
<1>3. ASSUME NEW p \in D, NEW n \in 1..(Len(p) - 1)
      PROVE  SubSeq(p, 1, n) \in D /\ on[SubSeq(p, 1, n)] = "dir"
  BY DEF IsTree
<1> HIDE DEF g
<1>4. IsTree(g)
  BY <1>1, <1>2, <1>3 DEF IsTree
<1> QED
  BY <1>4 DEF g

\* Taking a path and what is below it away leaves a tree.
LEMMA RemovedIsTree ==
  ASSUME IsTree(found), NEW p \in Filed
  PROVE  IsTree(Removed(p))
<1> DEFINE D == {q \in DOMAIN found : ~Under(p, q)}
<1>1. ASSUME NEW q \in D, NEW n \in 1..(Len(q) - 1)
      PROVE  SubSeq(q, 1, n) \in D
  <2>1. q \in Filed /\ Len(q) \in Nat
    <3>1. q \in Filed
      BY DEF IsTree
    <3> QED
      BY <3>1 DEF Filed
  <2>2. SubSeq(q, 1, n) \in DOMAIN found
    BY DEF IsTree
  <2>3. n \in 0..Len(q)
    BY <2>1
  <2>4. ~Under(p, SubSeq(q, 1, n))
    BY <2>1, <2>3, StartNotUnder
  <2> QED
    BY <2>2, <2>4
<1>2. IsTree([q \in D |-> found[q]])
  BY <1>1, KeptIsTree
<1> QED
  BY <1>2 DEF Removed

\* So does putting something where nothing or a file was, in a directory.
LEMMA PutIsTree ==
  ASSUME IsTree(found), NEW p \in Filed \ {<<>>}, NEW kind, IsDir(Front(p)), ~IsDir(p)
  PROVE  IsTree(Put(p, kind))
<1> DEFINE g == Put(p, kind)
<1>1. /\ DOMAIN g = DOMAIN found \cup {p}
      /\ \A q \in DOMAIN found : q # p => g[q] = found[q]
  BY DEF Put
<1>2. IsFiniteSet(DOMAIN g)
  BY <1>1, FS_AddElement DEF IsTree
<1>3. DOMAIN g \subseteq Filed \ {<<>>}
  BY <1>1 DEF IsTree
<1>4. ASSUME NEW q \in DOMAIN g, NEW n \in 1..(Len(q) - 1)
      PROVE  SubSeq(q, 1, n) \in DOMAIN found /\ found[SubSeq(q, 1, n)] = "dir"
  <2>1. CASE q \in DOMAIN found
    BY <2>1 DEF IsTree
  <2>2. CASE q = p
    <3>1. Len(p) \in Nat /\ n \in 1..(Len(p) - 1) /\ Len(p) - 1 \in 0..Len(p)
      BY <2>2 DEF Filed
    <3> DEFINE a == Front(p)  m == Len(p) - 1
    <3>2. /\ a \in Filed /\ Len(a) = m /\ \A i \in 1..m : a[i] = p[i]
          /\ m > 0 => a # <<>>
      BY <3>1, StartOfPath DEF Front
    <3>3. a \in DOMAIN found /\ found[a] = "dir"
      BY <3>1, <3>2 DEF IsDir, Root
    <3>4. /\ SubSeq(p, 1, n) \in Filed /\ Len(SubSeq(p, 1, n)) = n
          /\ \A i \in 1..n : SubSeq(p, 1, n)[i] = p[i]
          /\ SubSeq(p, 1, n) # <<>>
      <4>1. n \in 0..Len(p) /\ n > 0 /\ p \in Filed
        BY <3>1
      <4> QED
        BY <4>1, StartOfPath
    <3>5. Under(SubSeq(p, 1, n), a)
      <4>1. n \in Nat /\ n <= m
        BY <3>1
      <4>2. \A i \in 1..n : SubSeq(p, 1, n)[i] = a[i]
        BY <4>1, <3>2, <3>4, <3>1
      <4> HIDE DEF a, m
      <4> QED
        BY <4>1, <4>2, <3>2, <3>4, UnderIs
    <3> HIDE DEF a, m
    <3>6. CASE SubSeq(p, 1, n) = a
      BY <3>3, <3>6, <2>2
    <3>7. CASE SubSeq(p, 1, n) # a
      BY <3>3, <3>4, <3>5, <3>7, <2>2, AboveIsDir
    <3> QED
      BY <3>6, <3>7
  <2> QED
    BY <1>1, <2>1, <2>2
<1>5. p \notin DOMAIN found \/ found[p] # "dir"
  BY DEF IsDir
<1>6. ASSUME NEW q \in DOMAIN g, NEW n \in 1..(Len(q) - 1)
      PROVE  SubSeq(q, 1, n) \in DOMAIN g /\ g[SubSeq(q, 1, n)] = "dir"
  <2>1. SubSeq(q, 1, n) # p
    BY <1>4, <1>5
  <2> QED
    BY <1>1, <1>4, <2>1
<1> HIDE DEF g
<1>7. IsTree(g)
  BY <1>2, <1>3, <1>6 DEF IsTree
<1> QED
  BY <1>7 DEF g

\* A path's last name changed.
LEMMA SiblingIs ==
  ASSUME NEW from \in Filed \ {<<>>}, NEW name \in Names
  PROVE  LET dest == Append(Front(from), name) IN
         /\ dest \in Filed \ {<<>>} /\ Len(dest) = Len(from) /\ Len(from) \in Nat \ {0}
         /\ dest[Len(from)] = name /\ \A i \in 1..(Len(from) - 1) : dest[i] = from[i]
<1> DEFINE a == Front(from)  m == Len(from)
<1>1. from \in Filed /\ m \in Nat \ {0} /\ m - 1 \in 0..Len(from)
  BY EmptySeq DEF Filed
<1>2. a \in Filed /\ Len(a) = m - 1 /\ \A i \in 1..(m - 1) : a[i] = from[i]
  BY <1>1, StartOfPath DEF Front
<1> HIDE DEF a
<1> DEFINE d == Append(a, name)
<1>3. /\ d \in Filed /\ d # <<>> /\ Len(d) = Len(a) + 1
      /\ \A i \in 1..Len(a) : d[i] = a[i]
      /\ d[Len(a) + 1] = name
  BY <1>2, AppendProperties DEF Filed
<1> HIDE DEF d, m
<1>4. Len(d) = m /\ d[m] = name /\ \A i \in 1..(m - 1) : d[i] = from[i]
  BY <1>1, <1>2, <1>3
<1> QED
  BY <1>1, <1>3, <1>4 DEF d, a, m

\* A path in two parts.
LEMMA PartsOfPath ==
  ASSUME NEW p \in Filed, NEW c \in Filed
  PROVE  /\ p \o c \in Filed /\ Len(p \o c) = Len(p) + Len(c)
         /\ \A i \in 1..Len(p) : (p \o c)[i] = p[i]
         /\ \A i \in 1..Len(c) : (p \o c)[Len(p) + i] = c[i]
         /\ SubSeq(p \o c, Len(p) + 1, Len(p \o c)) = c
<1> DEFINE t == p \o c
<1>1. /\ t \in Filed /\ Len(t) = Len(p) + Len(c)
      /\ \A i \in 1..(Len(p) + Len(c)) : t[i] = IF i <= Len(p) THEN p[i] ELSE c[i - Len(p)]
  BY ConcatProperties DEF Filed
<1>2. Len(p) \in Nat /\ Len(c) \in Nat
  BY DEF Filed
<1> HIDE DEF t
<1>3. \A i \in 1..Len(p) : t[i] = p[i]
  BY <1>1, <1>2
<1>4. ASSUME NEW i \in 1..Len(c)
      PROVE  t[Len(p) + i] = c[i]
  <2>1. /\ Len(p) + i \in 1..(Len(p) + Len(c)) /\ ~(Len(p) + i <= Len(p))
        /\ (Len(p) + i) - Len(p) = i
    BY <1>2
  <2> QED
    BY <1>1, <2>1
<1> DEFINE u == SubSeq(t, Len(p) + 1, Len(t))
<1>5. /\ u \in Filed
      /\ Len(u) = IF Len(p) + 1 <= Len(t) THEN Len(t) - (Len(p) + 1) + 1 ELSE 0
      /\ \A i \in 1..Len(t) - (Len(p) + 1) + 1 : u[i] = t[Len(p) + 1 + i - 1]
  <2>1. \A i \in Len(p) + 1..Len(t) : t[i] \in Names
    BY <1>1, <1>2, ElementOfSeq DEF Filed
  <2>2. Len(p) + 1 \in Int /\ Len(t) \in Int
    BY <1>1, <1>2
  <2> QED
    BY <2>1, <2>2, SubSeqProperties DEF Filed
<1> HIDE DEF u
<1>6. Len(u) = Len(c)
  BY <1>1, <1>2, <1>5
<1>7. ASSUME NEW i \in 1..Len(c)
      PROVE  u[i] = c[i]
  <2>1. i \in 1..Len(t) - (Len(p) + 1) + 1 /\ Len(p) + 1 + i - 1 = Len(p) + i
    BY <1>1, <1>2
  <2> QED
    BY <1>4, <1>5, <2>1
<1>8. u = c
  BY <1>5, <1>6, <1>7, SeqEqual DEF Filed
<1> QED
  BY <1>1, <1>3, <1>4, <1>8 DEF t, u

\* A path below another: the other, and the rest.
LEMMA RestOfPath ==
  ASSUME NEW p \in Filed, NEW q \in Filed, Under(p, q)
  PROVE  LET c == SubSeq(q, Len(p) + 1, Len(q)) IN
         c \in Filed /\ p \o c = q
<1>1. Len(p) \in Nat /\ Len(q) \in Nat /\ Len(p) <= Len(q) /\ p = SubSeq(q, 1, Len(p))
  BY UnderIs DEF Filed
<1> DEFINE m == Len(p)  c == SubSeq(q, m + 1, Len(q))
<1>2. 1 \in 1..Len(q) + 1 /\ m \in 1 - 1..Len(q) /\ Len(q) \in m..Len(q)
  BY <1>1
<1>3. SubSeq(q, 1, m) \o c = SubSeq(q, 1, Len(q))
  BY <1>2, ConcatAdjacentSubSeq DEF Filed
<1>4. SubSeq(q, 1, Len(q)) = q
  BY SubSeqFull DEF Filed
<1>5. c \in Filed
  <2>1. \A i \in m + 1..Len(q) : q[i] \in Names
    BY <1>1, ElementOfSeq DEF Filed
  <2>2. m + 1 \in Int /\ Len(q) \in Int
    BY <1>1
  <2> QED
    BY <2>1, <2>2, SubSeqProperties DEF Filed
<1> QED
  BY <1>1, <1>3, <1>4, <1>5

\* Where a rename puts what is below the renamed: the same path, but for the name.
LEMMA MovesTo ==
  ASSUME NEW from \in Filed \ {<<>>}, NEW name \in Names, NEW q \in Filed, Under(from, q)
  PROVE  LET dest == Append(Front(from), name)
             t == dest \o SubSeq(q, Len(from) + 1, Len(q)) IN
         /\ t \in Filed /\ Len(t) = Len(q)
         /\ t[Len(from)] = name /\ \A i \in 1..Len(q) : i # Len(from) => t[i] = q[i]
         /\ Under(dest, t)
         /\ from \o SubSeq(t, Len(dest) + 1, Len(t)) = q
<1> DEFINE m == Len(from)
           d == Append(Front(from), name)
           c == SubSeq(q, m + 1, Len(q))
           t == d \o c
<1>1. c \in Filed /\ from \o c = q /\ from \in Filed /\ m \in Nat \ {0}
  BY RestOfPath, SiblingIs
<1>2. /\ d \in Filed /\ Len(d) = m /\ d[m] = name
      /\ \A i \in 1..(m - 1) : d[i] = from[i]
  BY SiblingIs
<1> HIDE DEF c, d
<1>3. /\ Len(q) = m + Len(c) /\ Len(c) \in Nat
      /\ \A i \in 1..m : q[i] = from[i]
      /\ \A i \in 1..Len(c) : q[m + i] = c[i]
  BY <1>1, PartsOfPath DEF Filed
<1>4. /\ t \in Filed /\ Len(t) = Len(d) + Len(c)
      /\ \A i \in 1..Len(d) : t[i] = d[i]
      /\ \A i \in 1..Len(c) : t[Len(d) + i] = c[i]
      /\ SubSeq(t, Len(d) + 1, Len(t)) = c
  BY <1>1, <1>2, PartsOfPath
<1> HIDE DEF m, t
<1>5. Under(d, t)
  <2>1. Len(d) <= Len(t)
    BY <1>1, <1>2, <1>3, <1>4
  <2> QED
    BY <1>2, <1>4, <2>1, UnderIs
<1>6. t[m] = name
  BY <1>1, <1>2, <1>4
<1>7. ASSUME NEW i \in 1..Len(q), i # m
      PROVE  t[i] = q[i]
  <2>1. CASE i < m
    BY <1>1, <1>2, <1>3, <1>4, <2>1
  <2>2. CASE i > m
    <3>1. i - m \in 1..Len(c) /\ m + (i - m) = i
      BY <1>1, <1>3, <2>2
    <3> QED
      BY <1>2, <1>3, <1>4, <3>1
  <2> QED
    BY <1>1, <1>3, <1>7, <2>1, <2>2
<1> QED
  BY <1>1, <1>2, <1>3, <1>4, <1>5, <1>6, <1>7 DEF d, t, m, c

\* A rename, within its directory, of something there leaves a tree.
LEMMA MovedIsTree ==
  ASSUME IsTree(found), NEW from \in DOMAIN found, NEW name \in Names
  PROVE  IsTree(Moved(from, Append(Front(from), name)))
<1> DEFINE dest == Append(Front(from), name)
           To(q) == dest \o SubSeq(q, Len(from) + 1, Len(q))
           Was(q) == from \o SubSeq(q, Len(dest) + 1, Len(q))
           below == {q \in DOMAIN found : Under(from, q)}
           kept == {q \in DOMAIN found : ~Under(from, q) /\ ~Under(dest, q)}
           moved == {To(q) : q \in below}
           g == Moved(from, dest)
<1>1. from \in Filed \ {<<>>} /\ \A q \in DOMAIN found : q \in Filed /\ Len(q) \in Nat
  BY DEF IsTree, Filed
<1>2. ASSUME NEW q \in below
      PROVE  /\ dest \in Filed \ {<<>>} /\ Len(dest) = Len(from)
             /\ To(q) \in Filed /\ Len(To(q)) = Len(q)
             /\ To(q)[Len(from)] = name
             /\ \A i \in 1..Len(q) : i # Len(from) => To(q)[i] = q[i]
             /\ Under(dest, To(q))
             /\ Was(To(q)) = q
  <2>1. q \in Filed /\ Under(from, q)
    BY <1>1
  <2> DEFINE t == dest \o SubSeq(q, Len(from) + 1, Len(q))
  <2>2. /\ t \in Filed /\ Len(t) = Len(q)
        /\ t[Len(from)] = name /\ \A i \in 1..Len(q) : i # Len(from) => t[i] = q[i]
        /\ Under(dest, t)
        /\ from \o SubSeq(t, Len(dest) + 1, Len(t)) = q
    BY <1>1, <2>1, MovesTo
  <2>3. dest \in Filed \ {<<>>} /\ Len(dest) = Len(from)
    BY <1>1, SiblingIs
  <2> QED
    BY <2>2, <2>3
<1> HIDE DEF dest
<1>3. from \in below
  BY <1>1, UnderIs
<1>4. /\ Len(from) \in Nat \ {0} /\ dest \in Filed /\ Len(dest) = Len(from)
  <2>1. Len(from) \in Nat /\ Len(from) # 0
    BY <1>1, EmptySeq DEF Filed
  <2> QED
    BY <2>1, <1>2, <1>3
<1>5. /\ DOMAIN g = kept \cup moved
      /\ \A q \in below : g[To(q)] = found[q]
      /\ \A q \in kept : g[q] = found[q]
  <2>1. g = [q \in kept \cup moved |-> IF q \in moved THEN found[Was(q)] ELSE found[q]]
    BY DEF Moved
  <2> HIDE DEF g
  <2>2. ASSUME NEW q \in below PROVE g[To(q)] = found[q]
    <3>1. To(q) \in moved /\ Was(To(q)) = q
      BY <1>2
    <3> HIDE DEF To, Was, moved
    <3> QED
      BY <2>1, <3>1
  <2>3. ASSUME NEW q \in kept PROVE q \notin moved
    <3>1. \A r \in moved : Under(dest, r)
      <4>1. \A b \in below : Under(dest, To(b))
        BY <1>2
      <4> HIDE DEF To, below
      <4> QED
        BY <4>1
    <3> HIDE DEF moved
    <3> QED
      BY <3>1
  <2> HIDE DEF moved, kept
  <2> QED
    BY <2>1, <2>2, <2>3
<1> HIDE DEF g
<1>6. IsFiniteSet(DOMAIN g)
  <2> DEFINE f == [q \in below |-> To(q)]
  <2>1. IsFiniteSet(below) /\ IsFiniteSet(kept)
    BY FS_Subset DEF IsTree
  <2>2. f \in Surjection(below, moved)
    BY DEF Surjection
  <2>3. IsFiniteSet(moved)
    <3> HIDE DEF f, below, moved
    <3> QED
      BY <2>1, <2>2, FS_Surjection
  <2> QED
    BY <1>5, <2>1, <2>3, FS_Union
<1>7. DOMAIN g \subseteq Filed \ {<<>>}
  <2>1. ASSUME NEW q \in below PROVE To(q) \in Filed \ {<<>>}
    <3>1. To(q) \in Filed /\ Len(To(q)) = Len(q) /\ Under(from, q) /\ q \in Filed
      BY <1>1, <1>2
    <3>2. Len(q) # 0
      BY <1>1, <1>4, <3>1, UnderIs
    <3> HIDE DEF To
    <3> QED
      BY <3>1, <3>2
  <2> QED
    BY <1>1, <1>5, <2>1 DEF IsTree
<1>8. ASSUME NEW q \in kept, NEW n \in 1..(Len(q) - 1)
      PROVE  SubSeq(q, 1, n) \in DOMAIN g /\ g[SubSeq(q, 1, n)] = "dir"
  <2>1. q \in Filed /\ n \in 0..Len(q)
    BY <1>1
  <2>2. SubSeq(q, 1, n) \in DOMAIN found /\ found[SubSeq(q, 1, n)] = "dir"
    BY DEF IsTree
  <2>3. ~Under(from, SubSeq(q, 1, n)) /\ ~Under(dest, SubSeq(q, 1, n))
    BY <2>1, <1>1, <1>4, StartNotUnder
  <2>4. SubSeq(q, 1, n) \in kept
    BY <2>2, <2>3
  <2> HIDE DEF kept
  <2> QED
    BY <1>5, <2>2, <2>4
<1>9. ASSUME NEW q \in below, NEW n \in 1..(Len(q) - 1)
      PROVE  SubSeq(To(q), 1, n) \in DOMAIN g /\ g[SubSeq(To(q), 1, n)] = "dir"
  <2> DEFINE s == SubSeq(q, 1, n)  r == SubSeq(To(q), 1, n)
  <2>1. q \in Filed /\ n \in 0..Len(q) /\ n \in Nat \ {0} /\ Len(q) \in Nat
    BY <1>1
  <2>2. s \in DOMAIN found /\ found[s] = "dir"
    BY DEF IsTree
  <2>3. s \in Filed /\ Len(s) = n /\ \A i \in 1..n : s[i] = q[i]
    BY <2>1, StartOfPath
  <2>4. r \in Filed /\ Len(r) = n /\ \A i \in 1..n : r[i] = To(q)[i]
    <3>1. To(q) \in Filed /\ n \in 0..Len(To(q))
      BY <1>2, <2>1
    <3> QED
      BY <3>1, StartOfPath
  <2>5. \A i \in 1..n : IF i = Len(from) THEN r[i] = name ELSE r[i] = q[i]
    <3>1. \A i \in 1..Len(q) : i # Len(from) => To(q)[i] = q[i]
      BY <1>2
    <3>2. To(q)[Len(from)] = name
      BY <1>2
    <3> HIDE DEF r, To
    <3> QED
      BY <2>1, <2>4, <3>1, <3>2
  <2> HIDE DEF r, s
  <2>6. CASE n < Len(from)
    <3>1. r = s
      <4>1. \A i \in 1..n : r[i] = s[i]
        BY <1>4, <2>1, <2>3, <2>5, <2>6
      <4> QED
        BY <4>1, <2>3, <2>4, SeqEqual DEF Filed
    <3>2. ~Under(from, s) /\ ~Under(dest, s)
      BY <1>1, <1>4, <2>1, <2>3, <2>6, UnderIs
    <3>3. s \in kept
      BY <2>2, <3>2
    <3> HIDE DEF kept
    <3> QED
      BY <1>5, <2>2, <3>1, <3>3 DEF r
  <2>7. CASE n >= Len(from)
    <3>1. Len(from) <= n /\ \A i \in 1..Len(from) : from[i] = q[i]
      BY <1>1, <1>4, <2>1, <2>7, UnderIs
    <3>2. \A i \in 1..Len(from) : from[i] = s[i]
      BY <1>4, <2>1, <2>3, <3>1
    <3>3. s \in below
      BY <1>1, <1>4, <2>2, <2>3, <3>1, <3>2, UnderIs
    <3>4. r = To(s)
      <4>1. /\ To(s) \in Filed /\ Len(To(s)) = n
            /\ \A i \in 1..n : IF i = Len(from) THEN To(s)[i] = name ELSE To(s)[i] = s[i]
        BY <1>2, <2>3, <3>3
      <4> HIDE DEF To
      <4>2. \A i \in 1..n : r[i] = To(s)[i]
        BY <2>3, <2>5, <4>1
      <4> QED
        BY <4>1, <4>2, <2>4, SeqEqual DEF Filed
    <3>5. To(s) \in moved
      BY <3>3
    <3> HIDE DEF To, moved, below
    <3> QED
      BY <1>5, <2>2, <3>3, <3>4, <3>5 DEF r
  <2> QED
    BY <1>4, <2>1, <2>6, <2>7
<1>10. ASSUME NEW p \in DOMAIN g, NEW n \in 1..(Len(p) - 1)
       PROVE  SubSeq(p, 1, n) \in DOMAIN g /\ g[SubSeq(p, 1, n)] = "dir"
  <2>1. CASE p \in kept
    BY <1>8, <2>1
  <2>2. CASE p \in moved
    <3>1. PICK q \in below : p = To(q)
      BY <2>2
    <3>2. Len(p) = Len(q)
      BY <1>2, <3>1
    <3>3. n \in 1..(Len(q) - 1)
      BY <3>2
    <3> HIDE DEF To, below
    <3> QED
      BY <1>9, <3>1, <3>3
  <2> HIDE DEF kept, moved
  <2> QED
    BY <1>5, <2>1, <2>2
<1>11. IsTree(g)
  BY <1>6, <1>7, <1>10 DEF IsTree
<1> QED
  BY <1>11 DEF g, dest

-----------------------------------------------------------------------------
\* The names in a directory, in their order: directories come first.
LEMMA BeforeOrders ==
  ASSUME NEW on, IsTree(on), NEW dir \in Filed
  PROVE  \A p, q, r \in Children(on, dir) :
           /\ ~Before(on, p, p)
           /\ Before(on, p, q) /\ Before(on, q, r) => Before(on, p, r)
           /\ p # q => Before(on, p, q) \/ Before(on, q, p)
<1> SUFFICES ASSUME NEW p \in Children(on, dir), NEW q \in Children(on, dir),
                    NEW r \in Children(on, dir)
             PROVE  /\ ~Before(on, p, p)
                    /\ Before(on, p, q) /\ Before(on, q, r) => Before(on, p, r)
                    /\ p # q => Before(on, p, q) \/ Before(on, q, p)
  OBVIOUS
<1>1. ASSUME NEW c \in Children(on, dir)
      PROVE  /\ c \in Filed /\ Len(c) = Len(dir) + 1 /\ Len(dir) \in Nat /\ Last(c) \in Int
             /\ \A i \in 1..Len(dir) : dir[i] = c[i]
             /\ Last(c) = c[Len(dir) + 1]
  <2>1. c \in DOMAIN on /\ Len(c) = Len(dir) + 1 /\ Under(dir, c)
    BY DEF Children
  <2>2. c \in Filed
    BY <2>1 DEF IsTree
  <2>3. Len(dir) \in Nat
    BY DEF Filed
  <2>4. \A i \in 1..Len(dir) : dir[i] = c[i]
    BY <2>1, <2>2, UnderIs
  <2>5. Len(c) \in 1..Len(c)
    BY <2>1, <2>3
  <2>6. c[Len(c)] \in Names
    BY <2>2, <2>5, ElementOfSeq DEF Filed
  <2>7. c[Len(c)] \in Int
    <3>1. \A x \in Names : x \in Int
      BY TreeAssumption
    <3> QED
      BY <2>6, <3>1
  <2>8. Last(c) = c[Len(dir) + 1] /\ Last(c) \in Int
    BY <2>1, <2>7 DEF Last
  <2> QED
    BY <2>1, <2>2, <2>3, <2>4, <2>8
<1>2. p # q => Last(p) # Last(q)
  <2>1. SUFFICES ASSUME Last(p) = Last(q) PROVE p = q
    OBVIOUS
  <2>2. p \in Filed /\ q \in Filed /\ Len(p) = Len(dir) + 1 /\ Len(q) = Len(dir) + 1 /\ Len(dir) \in Nat
    BY <1>1
  <2>3. \A i \in 1..Len(dir) : p[i] = q[i]
    BY <1>1
  <2>4. p[Len(dir) + 1] = q[Len(dir) + 1]
    BY <1>1, <2>1
  <2>5. \A i \in 1..Len(p) : p[i] = q[i]
    BY <2>2, <2>3, <2>4
  <2> QED
    BY <2>2, <2>5, SeqEqual DEF Filed
<1>3. Last(p) \in Int /\ Last(q) \in Int /\ Last(r) \in Int
  BY <1>1
<1> DEFINE x == Last(p)  y == Last(q)  z == Last(r)
<1>4. /\ ~(x < x) /\ (x < y /\ y < z => x < z) /\ (x # y => x < y \/ y < x)
  BY <1>3
<1> HIDE DEF x, y, z
<1>5. ~Before(on, p, p)
  BY <1>4 DEF Before, x
<1>6. Before(on, p, q) /\ Before(on, q, r) => Before(on, p, r)
  BY <1>4 DEF Before, x, y, z
<1>7. p # q => Before(on, p, q) \/ Before(on, q, p)
  BY <1>2, <1>4 DEF Before, x, y
<1> QED
  BY <1>5, <1>6, <1>7

\* So each place in that order is taken, and what is read of a directory are rows.
LEMMA ChildrenInOrder ==
  ASSUME NEW on, IsTree(on), NEW dir \in Filed
  PROVE  /\ Cardinality(Children(on, dir)) \in Nat
         /\ \A i \in 1..Cardinality(Children(on, dir)) :
              \E p \in Children(on, dir) : Cardinality(Above(on, dir, p)) = i - 1
<1> DEFINE C == Children(on, dir)  n == Cardinality(C)
           rank == [p \in C |-> Cardinality(Above(on, dir, p))]
<1>1. IsFiniteSet(C) /\ n \in Nat
  <2>1. C \in SUBSET DOMAIN on
    BY DEF Children
  <2>2. IsFiniteSet(DOMAIN on)
    BY DEF IsTree
  <2> QED
    BY <2>1, <2>2, FS_Subset, FS_CardinalityType
<1>2. ASSUME NEW p \in C
      PROVE  /\ Above(on, dir, p) \in SUBSET (C \ {p})
             /\ IsFiniteSet(Above(on, dir, p))
             /\ Cardinality(Above(on, dir, p)) \in 0..(n - 1)
  <2>1. Above(on, dir, p) \in SUBSET (C \ {p})
    BY BeforeOrders DEF Above
  <2>2. IsFiniteSet(C \ {p}) /\ Cardinality(C \ {p}) = n - 1
    BY <1>1, FS_RemoveElement
  <2> DEFINE A == Above(on, dir, p)
  <2> HIDE DEF A, C, n
  <2>3. IsFiniteSet(A) /\ Cardinality(A) <= n - 1
    BY <2>1, <2>2, FS_Subset DEF A
  <2>4. Cardinality(A) \in Nat
    BY <2>3, FS_CardinalityType
  <2> QED
    BY <1>1, <2>1, <2>3, <2>4 DEF A
<1>3. ASSUME NEW p \in C, NEW q \in C, Before(on, p, q)
      PROVE  Cardinality(Above(on, dir, p)) < Cardinality(Above(on, dir, q))
  <2> DEFINE A == Above(on, dir, p)  B == Above(on, dir, q)
  <2>1. A \in SUBSET B /\ p \in B /\ p \notin A
    <3>1. p \in B
      BY <1>3 DEF Above
    <3>2. p \notin A
      BY <1>2
    <3>3. \A r \in A : r \in C /\ Before(on, r, p)
      BY DEF Above
    <3>4. \A r \in A : Before(on, r, q)
      BY <1>3, <3>3, BeforeOrders
    <3>5. \A r \in A : r \in B
      BY <3>3, <3>4 DEF Above
    <3> QED
      BY <3>1, <3>2, <3>5
  <2>2. IsFiniteSet(B) /\ Cardinality(A) \in Int /\ Cardinality(B) \in Int
    BY <1>1, <1>2
  <2> HIDE DEF A, B
  <2>3. Cardinality(A) <= Cardinality(B) /\ Cardinality(B) # Cardinality(A)
    BY <2>1, <2>2, FS_Subset
  <2> QED
    BY <2>2, <2>3 DEF A, B
<1>4. rank \in Injection(C, 0..(n - 1))
  <2>1. rank \in [C -> 0..(n - 1)]
    BY <1>2
  <2>2. ASSUME NEW p \in C, NEW q \in C, p # q
        PROVE  rank[p] # rank[q]
    <3>1. rank[p] = Cardinality(Above(on, dir, p)) /\ rank[q] = Cardinality(Above(on, dir, q))
      OBVIOUS
    <3>2. rank[p] \in Int /\ rank[q] \in Int
      BY <1>1, <2>1
    <3>3. Before(on, p, q) \/ Before(on, q, p)
      BY <2>2, BeforeOrders
    <3>4. rank[p] < rank[q] \/ rank[q] < rank[p]
      BY <1>3, <3>1, <3>3
    <3> HIDE DEF rank
    <3> QED
      BY <3>2, <3>4
  <2> HIDE DEF rank, C, n
  <2> QED
    BY <2>1, <2>2 DEF Injection, IsInjective
<1>5. rank \in Surjection(C, 0..(n - 1))
  <2>1. IsFiniteSet(0..(n - 1)) /\ Cardinality(0..(n - 1)) = n
    <3>1. 0 \in Int /\ n - 1 \in Int
      BY <1>1
    <3>2. Cardinality(0..(n - 1)) = IF 0 > n - 1 THEN 0 ELSE (n - 1) - 0 + 1
      BY <3>1, FS_Interval
    <3>3. IsFiniteSet(0..(n - 1))
      BY <3>1, FS_Interval
    <3> HIDE DEF n
    <3> QED
      BY <1>1, <3>2, <3>3
  <2> HIDE DEF rank
  <2> QED
    BY <1>4, <2>1, FS_Injection
<1>6. ASSUME NEW i \in 1..n
      PROVE  \E p \in C : Cardinality(Above(on, dir, p)) = i - 1
  <2>1. i - 1 \in 0..(n - 1)
    BY <1>1
  <2>2. PICK p \in C : rank[p] = i - 1
    <3> HIDE DEF rank, n, C
    <3> QED
      BY <1>5, <2>1 DEF Surjection
  <2> QED
    BY <2>2
<1> QED
  BY <1>1, <1>6

\* What is read of a directory are rows.
LEMMA ReadRows ==
  ASSUME NEW on, IsTree(on), NEW dir \in Filed
  PROVE  ReadChildren(on, dir) \in Seq(TreeRows)
<1> DEFINE n == Cardinality(Children(on, dir))
           Nth(i) == CHOOSE p \in Children(on, dir) : Cardinality(Above(on, dir, p)) = i - 1
           Row(p) == [path |-> p, dir |-> on[p] = "dir", expanded |-> FALSE]
           s == [i \in 1..n |-> Row(Nth(i))]
<1>1. n \in Nat
  BY ChildrenInOrder
<1>2. ASSUME NEW i \in 1..n
      PROVE  Row(Nth(i)) \in TreeRows
  <2>1. Nth(i) \in Children(on, dir)
    <3>1. \E p \in Children(on, dir) : Cardinality(Above(on, dir, p)) = i - 1
      BY ChildrenInOrder
    <3> QED
      BY <3>1
  <2> HIDE DEF Nth
  <2>2. Nth(i) \in Filed
    BY <2>1 DEF Children, IsTree
  <2> QED
    BY <2>2 DEF TreeRows
<1>3. s \in [1..n -> TreeRows]
  <2> HIDE DEF Row, Nth, n
  <2> QED
    BY <1>2
<1>4. s \in Seq(TreeRows)
  <2> HIDE DEF s, n
  <2> QED
    BY <1>1, <1>3
<1> QED
  BY <1>4 DEF ReadChildren

\* Part of the rows are rows.
LEMMA PartIsRows ==
  ASSUME entries \in Seq(TreeRows), NEW a \in Nat \ {0}, NEW b \in 0..Len(entries)
  PROVE  SubSeq(entries, a, b) \in Seq(TreeRows)
<1>1. Len(entries) \in Nat
  BY LenProperties
<1>2. ASSUME NEW j \in a..b PROVE entries[j] \in TreeRows
  <2>1. j \in 1..Len(entries)
    BY <1>1
  <2> QED
    BY <2>1, ElementOfSeq
<1>3. a \in Int /\ b \in Int
  BY <1>1
<1> QED
  BY <1>2, <1>3, SubSeqProperties

\* The rows stay rows when one is expanded or collapsed.
LEMMA ExpandedRows ==
  ASSUME IsTree(found), entries \in Seq(TreeRows), NEW i \in 1..Len(entries), ExpandAt(i)
  PROVE  entries' \in Seq(TreeRows)
<1>1. entries[i] \in TreeRows /\ Len(entries) \in Nat
  BY ElementOfSeq
<1> DEFINE a == SubSeq(entries, 1, i - 1)
           b == <<[entries[i] EXCEPT !.expanded = TRUE]>>
           c == ReadChildren(found, entries[i].path)
           d == SubSeq(entries, i + 1, Len(entries))
<1>2. a \in Seq(TreeRows) /\ d \in Seq(TreeRows)
  BY <1>1, PartIsRows
<1>3. b \in Seq(TreeRows)
  <2>1. [entries[i] EXCEPT !.expanded = TRUE] \in TreeRows
    BY <1>1 DEF TreeRows
  <2> QED
    BY <2>1
<1>4. c \in Seq(TreeRows)
  BY <1>1, ReadRows DEF TreeRows
<1>5. entries' = a \o b \o c \o d
  BY DEF ExpandAt
<1> HIDE DEF a, b, c, d
<1> QED
  BY <1>2, <1>3, <1>4, <1>5

\* They stay rows when one is collapsed: there is a first row that is not below it.
LEMMA CollapsedRows ==
  ASSUME entries \in Seq(TreeRows), NEW i \in 1..Len(entries), CollapseAt(i)
  PROVE  entries' \in Seq(TreeRows)
<1>1. entries[i] \in TreeRows /\ Len(entries) \in Nat
  BY ElementOfSeq
<1> DEFINE a == SubSeq(entries, 1, i - 1)
           b == <<[entries[i] EXCEPT !.expanded = FALSE]>>
           d == SubSeq(entries, EndOf(i), Len(entries))
<1>2. EndOf(i) \in i + 1 .. Len(entries) + 1
  <2> DEFINE T == {e \in i + 1 .. Len(entries) + 1 : e <= Len(entries) => Depth(e) <= Depth(i)}
  <2>1. Len(entries) + 1 \in T /\ T \in SUBSET Nat
    BY <1>1
  <2>2. PICK e \in T : \A f \in T : e <= f
    <3> HIDE DEF T
    <3> QED
      BY <2>1, LeastElement
  <2>3. ASSUME NEW j \in i + 1 .. e - 1
        PROVE  Depth(j) > Depth(i)
    <3>1. j \in i + 1 .. Len(entries) + 1 /\ ~(e <= j) /\ i \in Nat
      BY <1>1, <2>2
    <3>2. j \notin T
      BY <2>2, <3>1
    <3>3. j <= Len(entries) /\ ~(Depth(j) <= Depth(i))
      BY <3>1, <3>2
    <3>4. Depth(j) \in Nat /\ Depth(i) \in Nat
      <4>1. j \in 1..Len(entries)
        BY <1>1, <3>1, <3>3
      <4>2. entries[j] \in TreeRows
        BY <4>1, ElementOfSeq
      <4>3. \A r \in TreeRows : Len(r.path) \in Nat
        BY DEF TreeRows, Filed
      <4> QED
        BY <1>1, <4>2, <4>3 DEF Depth
    <3> QED
      BY <3>3, <3>4
  <2>4. /\ e \in i + 1 .. Len(entries) + 1
        /\ \A j \in i + 1 .. e - 1 : Depth(j) > Depth(i)
        /\ e <= Len(entries) => Depth(e) <= Depth(i)
    BY <2>2, <2>3
  <2> QED
    BY <2>4 DEF EndOf
<1>3. a \in Seq(TreeRows) /\ d \in Seq(TreeRows)
  <2>1. EndOf(i) \in Nat \ {0} /\ i \in Nat
    BY <1>1, <1>2
  <2> QED
    BY <1>1, <2>1, PartIsRows
<1>4. b \in Seq(TreeRows)
  <2>1. [entries[i] EXCEPT !.expanded = FALSE] \in TreeRows
    BY <1>1 DEF TreeRows
  <2> QED
    BY <2>1
<1>5. entries' = a \o b \o d
  BY DEF CollapseAt
<1> HIDE DEF a, b, d
<1> QED
  BY <1>3, <1>4, <1>5

-----------------------------------------------------------------------------
\* The row highlighted, and the directory a new file would go to, have a path.
LEMMA HighlightedIsPath ==
  ASSUME entries \in Seq(TreeRows)
  PROVE  Highlighted \in Filed /\ BaseDir \in Filed
<1>1. Root \in Filed
  BY DEF Root, Filed
<1>2. Highlighted \in Filed
  <2>1. CASE IsRow(row)
    <3>1. entries[row] \in TreeRows
      BY <2>1, ElementOfSeq DEF IsRow
    <3> QED
      BY <2>1, <3>1 DEF Highlighted, TreeRows
  <2> QED
    BY <1>1, <2>1 DEF Highlighted
<1>3. Front(Highlighted) \in Filed
  BY <1>2, FrontIsPath
<1> QED
  BY <1>1, <1>2, <1>3 DEF BaseDir

\* The tree is what the code has at the start, and the prompt and the operation are none.
LEMMA TreeInitSound == TreeInit => TreeInv
<1> SUFFICES ASSUME TreeInit PROVE TreeInv
  OBVIOUS
<1> DEFINE D == {<<1>>, <<1, 2>>, <<1, 2, 1>>, <<2>>}
<1>1. /\ DOMAIN found = D
      /\ found[<<1>>] = "dir" /\ found[<<1, 2>>] = "dir"
  BY DEF TreeInit
<1>2. 1 \in Names /\ 2 \in Names
  BY TreeAssumption
<1>3. D \subseteq Filed \ {<<>>}
  <2>1. <<1>> \in Filed /\ <<1, 2>> \in Filed /\ <<1, 2, 1>> \in Filed /\ <<2>> \in Filed
    BY <1>2 DEF Filed
  <2>2. <<1>> # <<>> /\ <<1, 2>> # <<>> /\ <<1, 2, 1>> # <<>> /\ <<2>> # <<>>
    OBVIOUS
  <2> QED
    BY <2>1, <2>2
<1>4. IsFiniteSet(D)
  <2>1. IsFiniteSet({<<1>>}) /\ IsFiniteSet({<<1, 2>>}) /\ IsFiniteSet({<<1, 2, 1>>}) /\ IsFiniteSet({<<2>>})
    BY FS_Singleton
  <2>2. D = (({<<1>>} \cup {<<1, 2>>}) \cup {<<1, 2, 1>>}) \cup {<<2>>}
    OBVIOUS
  <2> HIDE DEF D
  <2> QED
    BY <2>1, <2>2, FS_Union
<1>5. ASSUME NEW p \in D, NEW n \in 1..(Len(p) - 1)
      PROVE  SubSeq(p, 1, n) \in {<<1>>, <<1, 2>>}
  <2> DEFINE s == SubSeq(p, 1, n)
  <2>1. p \in Filed /\ n \in 0..Len(p)
    <3>1. p \in Filed
      BY <1>3
    <3>2. Len(p) \in Nat
      BY <3>1, LenProperties DEF Filed
    <3> HIDE DEF D
    <3> QED
      BY <3>1, <3>2
  <2>2. s \in Filed /\ Len(s) = n /\ \A i \in 1..n : s[i] = p[i]
    BY <2>1, StartOfPath
  <2>3. /\ n = 1 \/ (n = 2 /\ p = <<1, 2, 1>>)
        /\ p[1] = 1 /\ (p = <<1, 2, 1>> => p[2] = 2)
    <3>1. p # <<1>> /\ p # <<2>>
      OBVIOUS
    <3>2. CASE p = <<1, 2>>
      BY <3>2
    <3>3. CASE p = <<1, 2, 1>>
      BY <3>3
    <3> QED
      BY <3>1, <3>2, <3>3
  <2>4. p[1] = 1 /\ (p = <<1, 2, 1>> => p[2] = 2)
    BY <2>3
  <2>5. <<1>> \in Filed /\ <<1, 2>> \in Filed
    BY <1>3
  <2> HIDE DEF s, D
  <2>6. CASE n = 1
    <3>1. Len(s) = Len(<<1>>) /\ \A i \in 1..Len(s) : s[i] = <<1>>[i]
      BY <2>2, <2>4, <2>6
    <3>2. s = <<1>>
      BY <2>2, <2>5, <3>1, SeqEqual DEF Filed
    <3> QED
      BY <3>2 DEF s
  <2>7. CASE n = 2 /\ p = <<1, 2, 1>>
    <3>1. Len(s) = Len(<<1, 2>>) /\ s[1] = 1 /\ s[2] = 2
      BY <2>2, <2>4, <2>7
    <3>2. \A i \in 1..Len(s) : s[i] = <<1, 2>>[i]
      BY <2>2, <2>7, <3>1
    <3>3. s = <<1, 2>>
      BY <2>2, <2>5, <3>1, <3>2, SeqEqual DEF Filed
    <3> QED
      BY <3>3 DEF s
  <2> QED
    BY <2>3, <2>6, <2>7
<1>6. IsTree(found)
  <2>1. <<1>> \in D /\ <<1, 2>> \in D
    OBVIOUS
  <2>2. \A p \in D : \A n \in 1..(Len(p) - 1) : SubSeq(p, 1, n) \in D /\ found[SubSeq(p, 1, n)] = "dir"
    BY <1>1, <1>5, <2>1
  <2> HIDE DEF D
  <2> QED
    BY <1>1, <1>3, <1>4, <2>2 DEF IsTree
<1>7. entries \in Seq(TreeRows)
  <2>1. Root \in Filed
    BY DEF Root, Filed
  <2> QED
    BY <1>6, <2>1, ReadRows DEF TreeInit
<1>8. PromptIsOfItsRow /\ OpIsOfItsRow
  BY DEF TreeInit, PromptIsOfItsRow, OpIsOfItsRow
<1> QED
  BY <1>6, <1>7, <1>8 DEF TreeInv

\* A prompt opened is about the highlighted row.
LEMMA AskSound ==
  ASSUME TreeInv, NEW kind \in Kinds, Ask(kind)
  PROVE  PromptIsOfItsRow'
<1>1. Highlighted \in Filed /\ BaseDir \in Filed
  BY HighlightedIsPath DEF TreeInv
<1> DEFINE new == [kind |-> kind, dir |-> BaseDir, target |-> Highlighted, asked |-> Highlighted]
<1>2. prompt' = new
  BY DEF Ask
<1>3. new.kind = kind /\ new.dir = BaseDir /\ new.target = Highlighted /\ new.asked = Highlighted
  OBVIOUS
<1> HIDE DEF new
<1> QED
  BY <1>1, <1>2, <1>3 DEF PromptIsOfItsRow

\* What an answer starts is about the row the prompt is about.
LEMMA StartSound ==
  ASSUME TreeInv, prompt # Nothing, op = Nothing, NEW name \in Names \cup {0}, StartOp(name)
  PROVE  OpIsOfItsRow'
<1>1. /\ prompt.kind \in Kinds /\ prompt.dir \in Filed /\ prompt.target \in Filed
      /\ prompt.asked = prompt.target
  BY DEF TreeInv, PromptIsOfItsRow
<1> DEFINE dest == IF prompt.kind = "rename" THEN Append(Front(prompt.target), name)
                   ELSE IF prompt.kind = "delete" THEN prompt.target
                   ELSE Append(prompt.dir, name)
           refused == prompt.kind # "delete"
                      /\ (name \notin Names
                          \/ (prompt.kind \in {"file", "rename"} /\ dest \in DOMAIN found))
           new == [kind |-> prompt.kind, dest |-> dest, from |-> prompt.target,
                   wasDir |-> IsDir(dest), asked |-> prompt.asked, seen |-> found]
<1>2. CASE refused
  <2>1. op' = op
    BY <1>2 DEF StartOp
  <2> QED
    BY <2>1 DEF OpIsOfItsRow
<1>3. CASE ~refused
  <2>1. op' = new
    BY <1>3 DEF StartOp, Target
  <2>2. prompt.kind # "delete" => name \in Names
    BY <1>3
  <2>3. prompt.kind \in {"file", "rename"} => dest \notin DOMAIN found
    BY <1>3
  <2>4. prompt.kind # "delete" => dest \in Filed \ {<<>>}
    <3>1. SUFFICES ASSUME prompt.kind # "delete" PROVE dest \in Filed \ {<<>>}
      OBVIOUS
    <3>2. name \in Names
      BY <2>2, <3>1
    <3>3. Append(Front(prompt.target), name) \in Filed \ {<<>>}
      BY <1>1, <3>2, FrontIsPath, AppendProperties DEF Filed
    <3>4. Append(prompt.dir, name) \in Filed \ {<<>>}
      BY <1>1, <3>2, AppendProperties DEF Filed
    <3> QED
      BY <3>1, <3>3, <3>4
  <2>5. prompt.kind = "rename" => dest = Append(Front(prompt.target), name)
    OBVIOUS
  <2> HIDE DEF dest
  <2>6. /\ new.kind = prompt.kind /\ new.dest = dest /\ new.from = prompt.target
        /\ new.asked = prompt.asked /\ new.seen = found
    OBVIOUS
  <2> HIDE DEF new
  <2>7. /\ new.kind \in Kinds /\ new.from \in Filed /\ new.asked = new.from
        /\ new.kind # "delete" => new.dest \in Filed \ {<<>>}
        /\ new.kind \in {"file", "rename"} => new.dest \notin DOMAIN new.seen
        /\ new.kind = "rename" => \E k \in Names : new.dest = Append(Front(new.from), k)
    BY <1>1, <2>2, <2>3, <2>4, <2>5, <2>6
  <2> QED
    BY <2>1, <2>7 DEF OpIsOfItsRow
<1> QED
  BY <1>2, <1>3

\* The system call leaves a tree.
LEMMA ActSound ==
  ASSUME TreeInv, Act
  PROVE  IsTree(found')
<1>1. /\ IsTree(found)
      /\ op.kind \in Kinds /\ op.from \in Filed
      /\ op.kind # "delete" => op.dest \in Filed \ {<<>>}
      /\ op.kind = "rename" => \E name \in Names : op.dest = Append(Front(op.from), name)
  BY DEF TreeInv, OpIsOfItsRow, Act
<1>2. CASE op.kind = "file"
  <2>1. found' = Created
    BY <1>2 DEF Act
  <2>2. CASE IsDir(Front(op.dest)) /\ ~IsDir(op.dest)
    <3>1. found' = Put(op.dest, "empty")
      BY <2>1, <2>2 DEF Created
    <3>2. IsTree(Put(op.dest, "empty"))
      BY <1>1, <1>2, <2>2, PutIsTree
    <3> QED
      BY <3>1, <3>2
  <2> QED
    BY <1>1, <2>1, <2>2 DEF Created
<1>3. CASE op.kind = "dir"
  <2>1. found' = DirCreated
    BY <1>3 DEF Act
  <2>2. CASE IsDir(Front(op.dest)) /\ op.dest \notin DOMAIN found
    <3>1. found' = Put(op.dest, "dir")
      BY <2>1, <2>2 DEF DirCreated
    <3>2. ~IsDir(op.dest) /\ op.dest \in Filed \ {<<>>}
      BY <1>1, <1>3, <2>2 DEF IsDir, Root
    <3>3. IsTree(Put(op.dest, "dir"))
      BY <1>1, <2>2, <3>2, PutIsTree
    <3> QED
      BY <3>1, <3>3
  <2> QED
    BY <1>1, <2>1, <2>2 DEF DirCreated
<1>4. CASE op.kind = "rename"
  <2>1. found' = Renamed
    BY <1>4 DEF Act
  <2>2. CASE op.from \in DOMAIN found /\ MayReplace(op.from, op.dest)
    <3>1. PICK name \in Names : op.dest = Append(Front(op.from), name)
      BY <1>1, <1>4
    <3>2. IsTree(Moved(op.from, Append(Front(op.from), name)))
      BY <1>1, <2>2, MovedIsTree
    <3> QED
      BY <2>1, <2>2, <3>1, <3>2 DEF Renamed
  <2> QED
    BY <1>1, <2>1, <2>2 DEF Renamed
<1>5. CASE op.kind = "delete"
  <2>1. found' = Deleted
    BY <1>5 DEF Act
  <2> QED
    BY <1>1, <2>1, RemovedIsTree DEF Deleted
<1> QED
  BY <1>1, <1>2, <1>3, <1>4, <1>5 DEF Kinds

\* So do other programs.
LEMMA OutsideSound ==
  ASSUME TreeInv, Outside
  PROVE  IsTree(found')
<1>1. IsTree(found)
  BY DEF TreeInv
<1>2. ASSUME NEW p \in TreePaths \ DOMAIN found, NEW kind, IsDir(Front(p)), found' = Put(p, kind)
      PROVE  IsTree(found')
  <2>1. PICK n \in 1..MaxDepth : p \in [1..n -> Names]
    BY DEF TreePaths
  <2>2. n \in Nat \ {0}
    BY TreeAssumption
  <2>3. p \in Filed /\ Len(p) = n
    BY <2>1, <2>2 DEF Filed
  <2>4. p \in Filed \ {<<>>}
    BY <2>2, <2>3
  <2>5. ~IsDir(p)
    BY <2>4 DEF IsDir, Root
  <2> QED
    BY <1>1, <1>2, <2>4, <2>5, PutIsTree
<1>3. ASSUME NEW p \in DOMAIN found, found' = Removed(p)
      PROVE  IsTree(found')
  <2>1. p \in Filed
    BY <1>1 DEF IsTree
  <2> QED
    BY <1>1, <1>3, <2>1, RemovedIsTree
<1> QED
  BY <1>2, <1>3 DEF Outside

\* Each step keeps the invariant.
LEMMA TreeStep == TreeInv /\ [TreeNext]_treeVars => TreeInv'
<1> SUFFICES ASSUME TreeInv, [TreeNext]_treeVars PROVE TreeInv'
  OBVIOUS
<1>1. IsTree(found) /\ entries \in Seq(TreeRows) /\ PromptIsOfItsRow /\ OpIsOfItsRow
  BY DEF TreeInv
<1>2. ASSUME NEW on, IsTree(on), Refresh(on) PROVE entries' \in Seq(TreeRows)
  <2>1. Root \in Filed
    BY DEF Root, Filed
  <2> QED
    BY <1>2, <2>1, ReadRows DEF Refresh
<1>3. prompt' = prompt => PromptIsOfItsRow'
  BY <1>1 DEF PromptIsOfItsRow
<1>4. op' = op => OpIsOfItsRow'
  BY <1>1 DEF OpIsOfItsRow
<1>5. found' = found => IsTree(found')
  BY <1>1
<1>6. CASE Key
  <2>1. found' = found /\ op' = op
    BY <1>6 DEF Key
  <2>2. ASSUME NEW delta, MoveSelection(delta), prompt' = prompt PROVE TreeInv'
    <3>1. entries' = entries
      BY <2>2 DEF MoveSelection
    <3> QED
      BY <1>1, <1>3, <1>4, <1>5, <2>1, <2>2, <3>1 DEF TreeInv
  <2>3. CASE Activate /\ prompt' = prompt
    <3>1. entries' \in Seq(TreeRows)
      BY <1>1, <2>3, ExpandedRows, CollapsedRows DEF Activate, IsRow
    <3> QED
      BY <1>3, <1>4, <1>5, <2>1, <2>3, <3>1 DEF TreeInv
  <2>4. CASE CollapseOrParent /\ prompt' = prompt
    <3>1. entries' \in Seq(TreeRows)
      BY <1>1, <2>4, CollapsedRows DEF CollapseOrParent, IsRow
    <3> QED
      BY <1>3, <1>4, <1>5, <2>1, <2>4, <3>1 DEF TreeInv
  <2>5. CASE Refresh(found) /\ prompt' = prompt
    BY <1>1, <1>2, <1>3, <1>4, <1>5, <2>1, <2>5 DEF TreeInv
  <2>6. ASSUME NEW kind \in Kinds, Ask(kind) PROVE TreeInv'
    <3>1. PromptIsOfItsRow'
      BY <2>6, AskSound
    <3>2. entries' = entries
      BY <2>6 DEF Ask
    <3> QED
      BY <1>1, <1>4, <1>5, <2>1, <3>1, <3>2 DEF TreeInv
  <2> QED
    BY <1>6, <2>2, <2>3, <2>4, <2>5, <2>6 DEF Key
<1>7. CASE PromptKey
  <2>1. CASE Cancel
    <3>1. prompt' = Nothing /\ found' = found /\ entries' = entries /\ op' = op
      BY <2>1 DEF Cancel
    <3>2. PromptIsOfItsRow'
      BY <3>1 DEF PromptIsOfItsRow
    <3> QED
      BY <1>1, <1>4, <1>5, <3>1, <3>2 DEF TreeInv
  <2>2. ASSUME NEW name \in Names \cup {0}, StartOp(name) PROVE TreeInv'
    <3>1. prompt' = Nothing /\ found' = found
      BY <2>2 DEF StartOp
    <3>2. PromptIsOfItsRow'
      BY <3>1 DEF PromptIsOfItsRow
    <3>3. Refresh(found) \/ entries' = entries
      BY <2>2 DEF StartOp
    <3>4. entries' \in Seq(TreeRows)
      BY <1>1, <1>2, <3>3
    <3>5. OpIsOfItsRow'
      BY <1>7, <2>2, StartSound DEF PromptKey
    <3> QED
      BY <1>5, <3>1, <3>2, <3>4, <3>5 DEF TreeInv
  <2> QED
    BY <1>7, <2>1, <2>2 DEF PromptKey
<1>8. CASE ClickRow
  <2>1. found' = found /\ op' = op /\ prompt' = prompt /\ entries' = entries
    BY <1>8 DEF ClickRow, Click
  <2> QED
    BY <1>1, <1>3, <1>4, <1>5, <2>1 DEF TreeInv
<1>9. CASE Act
  <2>1. IsTree(found')
    BY <1>9, ActSound
  <2>2. entries' \in Seq(TreeRows)
    BY <1>2, <1>9, <2>1 DEF Act
  <2>3. prompt' = prompt /\ op' = Nothing
    BY <1>9 DEF Act
  <2>4. OpIsOfItsRow'
    BY <2>3 DEF OpIsOfItsRow
  <2> QED
    BY <1>3, <2>1, <2>2, <2>3, <2>4 DEF TreeInv
<1>10. CASE Outside
  <2>1. IsTree(found')
    BY <1>10, OutsideSound
  <2>2. entries' = entries /\ prompt' = prompt /\ op' = op
    BY <1>10 DEF Outside
  <2> QED
    BY <1>1, <1>3, <1>4, <2>1, <2>2 DEF TreeInv
<1>11. CASE UNCHANGED treeVars
  <2>1. found' = found /\ entries' = entries /\ prompt' = prompt /\ op' = op
    BY <1>11 DEF treeVars
  <2> QED
    BY <1>1, <1>3, <1>4, <1>5, <2>1 DEF TreeInv
<1> QED
  BY <1>6, <1>7, <1>8, <1>9, <1>10, <1>11 DEF TreeNext

\* What a rename leaves of a path that was not under the renamed.
LEMMA RenameKeeps ==
  ASSUME IsTree(found), NEW from \in DOMAIN found, NEW name \in Names,
         MayReplace(from, Append(Front(from), name)), NEW p \in DOMAIN found, ~Under(from, p)
  PROVE  LET dest == Append(Front(from), name) IN
         \/ p = dest
         \/ p \in DOMAIN Moved(from, dest) /\ Moved(from, dest)[p] = found[p]
<1> DEFINE dest == Append(Front(from), name)
           To(q) == dest \o SubSeq(q, Len(from) + 1, Len(q))
           Was(q) == from \o SubSeq(q, Len(dest) + 1, Len(q))
           moved == {To(q) : q \in {q \in DOMAIN found : Under(from, q)}}
           kept == {q \in DOMAIN found : ~Under(from, q) /\ ~Under(dest, q)}
<1>1. from \in Filed \ {<<>>} /\ p \in Filed
  BY DEF IsTree
<1>2. dest \in Filed \ {<<>>}
  BY <1>1, SiblingIs
<1>3. CASE Under(dest, p) /\ p # dest
  <2>1. dest \in DOMAIN found /\ found[dest] = "dir"
    BY <1>1, <1>2, <1>3, AboveIsDir
  <2>2. ~IsFile(dest)
    BY <2>1 DEF IsFile
  <2> QED
    BY <1>3, <2>1, <2>2 DEF MayReplace
<1>4. CASE ~Under(dest, p)
  <2>1. p \in kept
    BY <1>4
  <2>2. p \notin moved
    <3>1. ASSUME NEW q \in DOMAIN found, Under(from, q)
          PROVE  Under(dest, To(q))
      <4>1. q \in Filed
        BY DEF IsTree
      <4> QED
        BY <1>1, <3>1, <4>1, MovesTo
    <3> HIDE DEF To
    <3> QED
      BY <1>4, <3>1
  <2>3. Moved(from, dest) = [q \in kept \cup moved |-> IF q \in moved THEN found[Was(q)] ELSE found[q]]
    BY DEF Moved
  <2> HIDE DEF kept, moved, Was, dest
  <2>4. p \in DOMAIN Moved(from, dest) /\ Moved(from, dest)[p] = found[p]
    BY <2>1, <2>2, <2>3
  <2> QED
    BY <2>4 DEF dest
<1> QED
  BY <1>3, <1>4

\* What the system call leaves alone.
LEMMA ActTouches ==
  ASSUME TreeInv, Act, NEW p \in DOMAIN found
  PROVE  \/ op.kind \in {"rename", "delete"} /\ Under(op.asked, p)
         \/ p \notin DOMAIN op.seen
         \/ p \in DOMAIN found' /\ found'[p] = found[p]
<1>1. /\ IsTree(found)
      /\ op.kind \in Kinds /\ op.from \in Filed /\ op.asked = op.from
      /\ op.kind \in {"file", "rename"} => op.dest \notin DOMAIN op.seen
      /\ op.kind = "rename" => \E name \in Names : op.dest = Append(Front(op.from), name)
  BY DEF TreeInv, OpIsOfItsRow, Act
<1>2. ASSUME NEW q, NEW kind, p # q
      PROVE  p \in DOMAIN Put(q, kind) /\ Put(q, kind)[p] = found[p]
  BY <1>2 DEF Put
<1>3. CASE op.kind = "file"
  <2>1. found' = found \/ found' = Put(op.dest, "empty")
    BY <1>3 DEF Act, Created
  <2> QED
    BY <1>1, <1>2, <1>3, <2>1
<1>4. CASE op.kind = "dir"
  <2>1. found' = found \/ (op.dest \notin DOMAIN found /\ found' = Put(op.dest, "dir"))
    BY <1>4 DEF Act, DirCreated
  <2> QED
    BY <1>2, <2>1
<1>5. CASE op.kind = "rename"
  <2>1. PICK name \in Names : op.dest = Append(Front(op.from), name)
    BY <1>1, <1>5
  <2>2. \/ found' = found
        \/ /\ op.from \in DOMAIN found /\ MayReplace(op.from, op.dest)
           /\ found' = Moved(op.from, op.dest)
    BY <1>5 DEF Act, Renamed
  <2>3. ASSUME op.from \in DOMAIN found, MayReplace(op.from, op.dest), ~Under(op.from, p)
        PROVE  p = op.dest \/ (p \in DOMAIN Moved(op.from, op.dest) /\ Moved(op.from, op.dest)[p] = found[p])
    BY <1>1, <2>1, <2>3, RenameKeeps
  <2> QED
    BY <1>1, <1>5, <2>2, <2>3
<1>6. CASE op.kind = "delete"
  <2>1. found' = found \/ found' = Removed(op.from)
    BY <1>6 DEF Act, Deleted
  <2>2. ~Under(op.from, p) => p \in DOMAIN Removed(op.from) /\ Removed(op.from)[p] = found[p]
    BY DEF Removed
  <2> QED
    BY <1>1, <1>6, <2>1, <2>2
<1> QED
  BY <1>1, <1>3, <1>4, <1>5, <1>6 DEF Kinds

\* A rename or a delete touches what was highlighted when it was asked for, and no file
\* operation anything else that was there when it looked, whatever was clicked or changed
\* on disk meanwhile, for any names and any tree of any depth.
THEOREM OnlyTheNamed == TreeSpec => OnlyTheNamedIsTouched
<1>1. TreeInv /\ [TreeNext]_treeVars =>
        [op # Nothing /\ op' = Nothing =>
           \A p \in DOMAIN found :
             \/ op.kind \in {"rename", "delete"} /\ Under(op.asked, p)
             \/ p \notin DOMAIN op.seen
             \/ p \in DOMAIN found' /\ found'[p] = found[p]]_treeVars
  <2> SUFFICES ASSUME TreeInv, [TreeNext]_treeVars, op # Nothing, op' = Nothing,
                      NEW p \in DOMAIN found
               PROVE  \/ op.kind \in {"rename", "delete"} /\ Under(op.asked, p)
                      \/ p \notin DOMAIN op.seen
                      \/ p \in DOMAIN found' /\ found'[p] = found[p]
    OBVIOUS
  <2>1. Act
    BY DEF TreeNext, treeVars, Key, PromptKey, ClickRow, Outside
  <2> QED
    BY <2>1, ActTouches
<1> QED
  BY <1>1, TreeInitSound, TreeStep, PTL DEF TreeSpec, OnlyTheNamedIsTouched
=============================================================================
