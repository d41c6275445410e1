------------------------------ MODULE Explorer ------------------------------
(***************************************************************************)
(* The file tree of the sidebar (crates/onda/src/file_tree.rs), the keys   *)
(* and clicks it takes and the file operations asked for through its       *)
(* prompts (handle_explorer_key, handle_prompt_key, commit_prompt,         *)
(* handle_shell_click in crates/onda/src/main.rs).                         *)
(*                                                                         *)
(* The tree is the list of its visible rows.  A path is the sequence of    *)
(* its names below the root, and the depth of a row is the length of its   *)
(* path.  Nothing tells the tree of changes on disk: rows are what was     *)
(* read when their directory was expanded.  A file operation looks before  *)
(* it acts, and other programs run between the two.  Rows count from 1.    *)
(***************************************************************************)
EXTENDS Integers, Sequences, FiniteSets, SequencesExt

CONSTANTS Names,      \* the names of files, numbers, in alphabetical order
          Rows,       \* rows of the sidebar body
          MaxDepth,   \* bound on the depth of the tree
          MaxFileOps, \* bound on the file operations
          MaxOutside  \* bound on the changes other programs make

ASSUME TreeAssumption ==
  /\ {1, 2} \subseteq Names /\ Names \subseteq Nat \ {0}
  /\ MaxDepth \in Nat

VARIABLES found,     \* what exists: path -> "dir", "full" or "empty" (a file)
          entries,   \* FileTree::entries: the visible rows
          row,       \* FileTree::selected
          scroll,    \* FileTree::scroll
          prompt,    \* App::sidebar_prompt, and the row highlighted when it was asked for
          op,        \* the file operation under way, past its check
          count      \* operations and outside changes so far, for the bounds

treeVars == <<found, entries, row, scroll, prompt, op, count>>

Root == <<>>
TreePaths == UNION {[1..n -> Names] : n \in 1..MaxDepth}
Nothing == [kind |-> "none"]

Under(p, q) == IsPrefix(p, q)
Removed(p) == [q \in {q \in DOMAIN found : ~Under(p, q)} |-> found[q]]
Put(p, kind) == [q \in DOMAIN found \cup {p} |-> IF q = p THEN kind ELSE found[q]]
IsDir(p) == p = Root \/ (p \in DOMAIN found /\ found[p] = "dir")
IsFile(p) == p \in DOMAIN found /\ found[p] # "dir"

\* read_children: directories first, then by name.
Children(on, dir) == {p \in DOMAIN on : Len(p) = Len(dir) + 1 /\ Under(dir, p)}
Before(on, p, q) ==
  IF on[p] = "dir" /\ on[q] # "dir" THEN TRUE
  ELSE (on[p] = "dir" <=> on[q] = "dir") /\ Last(p) < Last(q)
Above(on, dir, p) == {q \in Children(on, dir) : Before(on, q, p)}

ReadChildren(on, dir) ==
  LET Nth(i) == CHOOSE p \in Children(on, dir) : Cardinality(Above(on, dir, p)) = i - 1
      Row(p) == [path |-> p, dir |-> on[p] = "dir", expanded |-> FALSE]
  IN  [i \in 1..Cardinality(Children(on, dir)) |-> Row(Nth(i))]

TreeInit ==
  /\ found = [p \in {<<1>>, <<1, 2>>, <<1, 2, 1>>, <<2>>} |->
                IF p \in {<<1>>, <<1, 2>>} THEN "dir" ELSE "full"]
  /\ entries = ReadChildren(found, Root)
  /\ row = 1
  /\ scroll = 0
  /\ prompt = Nothing
  /\ op = Nothing
  /\ count = [ops |-> 0, outside |-> 0]

-----------------------------------------------------------------------------
\* The rows, and moving among them.
Depth(i) == Len(entries[i].path)
IsRow(i) == i \in 1..Len(entries)
Least(a, b) == IF a < b THEN a ELSE b
Most(a, b) == IF a > b THEN a ELSE b

EnsureVisible(i) ==
  scroll' = IF i <= scroll THEN i - 1
            ELSE IF i > scroll + Rows THEN i - Rows ELSE scroll

\* j and k.
MoveSelection(delta) ==
  /\ entries # <<>>
  /\ row' = Most(1, Least(Len(entries), row + delta))
  /\ EnsureVisible(row')
  /\ UNCHANGED entries

ExpandAt(i) ==
  entries' = SubSeq(entries, 1, i - 1)
             \o <<[entries[i] EXCEPT !.expanded = TRUE]>>
             \o ReadChildren(found, entries[i].path)
             \o SubSeq(entries, i + 1, Len(entries))

\* The first row after i that is not below it.
EndOf(i) ==
  CHOOSE e \in i + 1 .. Len(entries) + 1 :
    /\ \A j \in i + 1 .. e - 1 : Depth(j) > Depth(i)
    /\ e <= Len(entries) => Depth(e) <= Depth(i)

CollapseAt(i) ==
  entries' = SubSeq(entries, 1, i - 1)
             \o <<[entries[i] EXCEPT !.expanded = FALSE]>>
             \o SubSeq(entries, EndOf(i), Len(entries))

\* l on a directory (on a file it opens it, see Files).
Activate ==
  /\ IsRow(row) /\ entries[row].dir
  /\ IF entries[row].expanded THEN CollapseAt(row) ELSE ExpandAt(row)
  /\ UNCHANGED <<row, scroll>>

\* h: collapse, or go to the row above that is less deep.
CollapseOrParent ==
  /\ IsRow(row)
  /\ IF entries[row].dir /\ entries[row].expanded
     THEN CollapseAt(row) /\ UNCHANGED row
     ELSE LET shallower == {j \in 1..row - 1 : Depth(j) < Depth(row)}
          IN  /\ row' = IF shallower = {} THEN row
                             ELSE CHOOSE j \in shallower : \A k \in shallower : k <= j
              /\ UNCHANGED entries
  /\ UNCHANGED scroll

\* R, and the end of every file operation: everything is collapsed.
Refresh(on) ==
  /\ entries' = ReadChildren(on, Root)
  /\ row' = Least(row, Most(1, Len(entries')))
  /\ scroll' = 0

\* A click on a row of the sidebar body; a prompt stays open.
Click(line) ==
  /\ row' = IF IsRow(scroll + line) THEN scroll + line ELSE row
  /\ UNCHANGED <<entries, scroll>>

-----------------------------------------------------------------------------
\* Prompts: a for a file, A for a directory, r to rename, d to delete.
Highlighted == IF IsRow(row) THEN entries[row].path ELSE Root

\* explorer_base_dir
BaseDir ==
  IF ~IsRow(row) THEN Root
  ELSE IF entries[row].dir THEN Highlighted ELSE Front(Highlighted)

Kinds == {"file", "dir", "rename", "delete"}

Ask(kind) ==
  /\ kind \in {"rename", "delete"} => IsRow(row)
  /\ prompt' = [kind |-> kind, dir |-> BaseDir, target |-> Highlighted, asked |-> Highlighted]
  /\ UNCHANGED <<entries, row, scroll>>

Cancel == prompt' = Nothing /\ UNCHANGED <<found, entries, row, scroll, op>>

TargetSelected(kind, target) == Highlighted  \* a mutant: what is highlighted by now

\* The entry a rename or a delete is about: the one the prompt was opened for.
Target(kind, target) == target

\* commit_prompt up to its look at the disk.  An operation that is refused
\* leaves the disk alone; the tree is refreshed all the same.
StartOp(name) ==
  LET dest == IF prompt.kind = "rename" THEN Append(Front(prompt.target), name)
              ELSE IF prompt.kind = "delete" THEN prompt.target
              ELSE Append(prompt.dir, name)
      refused == prompt.kind # "delete"
                 /\ (name \notin Names  \* valid_name
                     \/ (prompt.kind \in {"file", "rename"} /\ dest \in DOMAIN found))
  IN  /\ Len(dest) <= MaxDepth
      /\ prompt' = Nothing
      /\ IF refused THEN Refresh(found) /\ UNCHANGED op
         ELSE /\ op' = [kind |-> prompt.kind, dest |-> dest,
                        from |-> Target(prompt.kind, prompt.target),
                        wasDir |-> IsDir(dest),
                        asked |-> prompt.asked, seen |-> found]
              /\ UNCHANGED <<entries, row, scroll>>
      /\ UNCHANGED found

\* The system call.  A file is created over one that is there, a rename
\* replaces a file, or an empty directory by a directory.
Moved(from, dest) ==
  LET To(q) == dest \o SubSeq(q, Len(from) + 1, Len(q))
      Was(q) == from \o SubSeq(q, Len(dest) + 1, Len(q))
      kept == {q \in DOMAIN found : ~Under(from, q) /\ ~Under(dest, q)}
      moved == {To(q) : q \in {q \in DOMAIN found : Under(from, q)}}
  IN  [q \in kept \cup moved |-> IF q \in moved THEN found[Was(q)] ELSE found[q]]

MayReplace(from, dest) ==
  \/ dest \notin DOMAIN found
  \/ IsFile(from) /\ IsFile(dest)
  \/ IsDir(from) /\ IsDir(dest) /\ \A q \in DOMAIN found : Under(dest, q) => q = dest

Created ==
  IF IsDir(Front(op.dest)) /\ ~IsDir(op.dest) THEN Put(op.dest, "empty") ELSE found
DirCreated ==
  IF IsDir(Front(op.dest)) /\ op.dest \notin DOMAIN found THEN Put(op.dest, "dir") ELSE found
Renamed ==
  IF op.from \in DOMAIN found /\ MayReplace(op.from, op.dest)
  THEN Moved(op.from, op.dest) ELSE found
Deleted ==
  IF op.from \in DOMAIN found /\ (op.wasDir <=> IsDir(op.from))
  THEN Removed(op.from) ELSE found

Act ==
  /\ op # Nothing
  /\ found' = CASE op.kind = "file" -> Created
                [] op.kind = "dir" -> DirCreated
                [] op.kind = "rename" -> Renamed
                [] op.kind = "delete" -> Deleted
  /\ Refresh(found')
  /\ op' = Nothing
  /\ UNCHANGED <<prompt, count>>

-----------------------------------------------------------------------------
\* Other programs: at any time, between the check and the call too.
Outside ==
  /\ count.outside < MaxOutside
  /\ count' = [count EXCEPT !.outside = @ + 1]
  /\ \/ \E p \in TreePaths \ DOMAIN found, kind \in {"dir", "full"} :
          IsDir(Front(p)) /\ found' = Put(p, kind)
     \/ \E p \in DOMAIN found : found' = Removed(p)
  /\ UNCHANGED <<entries, row, scroll, prompt, op>>

\* handle_explorer_key
Key ==
  /\ op = Nothing /\ prompt = Nothing
  /\ \/ \E delta \in {-1, 1} : MoveSelection(delta) /\ UNCHANGED prompt
     \/ Activate /\ UNCHANGED prompt
     \/ CollapseOrParent /\ UNCHANGED prompt
     \/ Refresh(found) /\ UNCHANGED prompt
     \/ count.ops < MaxFileOps /\ \E kind \in Kinds : Ask(kind)
  /\ UNCHANGED <<found, op, count>>

\* handle_prompt_key: Esc or, for a delete, anything but y; Enter or y.
PromptKey ==
  /\ op = Nothing /\ prompt # Nothing
  /\ \/ Cancel /\ UNCHANGED count
     \/ /\ \E name \in Names \cup {0} : StartOp(name)
        /\ count' = [count EXCEPT !.ops = @ + 1]

ClickRow ==
  /\ op = Nothing
  /\ \E line \in 1..Rows : Click(line)
  /\ UNCHANGED <<found, prompt, op, count>>

TreeNext == Key \/ PromptKey \/ ClickRow \/ Act \/ Outside

TreeSpec == TreeInit /\ [][TreeNext]_treeVars

-----------------------------------------------------------------------------
\* A rename or a delete touches what was highlighted when it was asked for,
\* and no file operation touches anything else that was there when it looked,
\* whatever was clicked or changed on disk meanwhile (commit_prompt, rename_entry).
OnlyTheNamedIsTouched ==
  [][op # Nothing /\ op' = Nothing =>
       \A p \in DOMAIN found :
         \/ op.kind \in {"rename", "delete"} /\ Under(op.asked, p)
         \/ p \notin DOMAIN op.seen
         \/ p \in DOMAIN found' /\ found'[p] = found[p]]_treeVars
=============================================================================
