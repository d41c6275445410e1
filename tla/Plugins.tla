------------------------------ MODULE Plugins ------------------------------
(***************************************************************************)
(* Plugins: the store on disk of crates/onda-plugin/src/manager.rs as the  *)
(* command line works on it, what permission.rs grants, the host of        *)
(* crates/onda/src/plugin_host.rs with the snapshots of host.rs, and what  *)
(* the event loop does with the calls a plugin made.                       *)
(*                                                                         *)
(* A package is a record: its name, whether its manifest parses and its    *)
(* component is there, whether it asks to write buffers, and the directory *)
(* it asks for.  Of a plugin's calls those that edit a buffer are kept:    *)
(* each deletes one character of the snapshot it was made on.  What runs   *)
(* in the WebAssembly engine is the plugin's choice.                       *)
(***************************************************************************)
EXTENDS Integers, Sequences, SequencesExt, FiniteSetsExt

CONSTANTS Packages,   \* the packages there are to install
          MaxOps,     \* bound on the commands run on the store
          MaxStarts,  \* bound on the starts of the editor
          MaxTicks,   \* bound on the events fired
          MaxEdits    \* bound on the edits of the user

VARIABLES dirs,      \* the directories of the store: name -> package
          lock,      \* plugins.lock
          cli,       \* the command under way: its step and the package staged
          plugins,   \* PluginHost::plugins, in order
          buffers,   \* the buffers: sequences of characters, each its own
          focused,   \* the buffer in focus
          todo,      \* handlers that the event under way still calls
          calls,     \* calls drained and not yet applied
          counts     \* how often each bounded thing happened

\* History: names whose last command was cut short; how the last edit of a plugin landed.
VARIABLES cut, landed

store == <<dirs, lock, cli, cut>>
editor == <<plugins, buffers, focused, todo, calls, landed>>
pluginVars == <<dirs, lock, cli, plugins, buffers, focused, todo, calls, counts, cut, landed>>

PluginNames == {p.name : p \in Packages}
NoPackage == [name |-> "none"]

\* An empty directory is told from one that holds a package.
ASSUME PluginsAssumption == NoPackage \notin Packages

Resting == [step |-> "none", package |-> NoPackage]

PluginsInit ==
  /\ dirs = [n \in PluginNames |-> NoPackage]
  /\ lock = {}
  /\ cli = Resting
  /\ plugins = <<>>
  /\ buffers = <<<<1, 2>>, <<3>>>>
  /\ focused = 1
  /\ todo = <<>> /\ calls = <<>>
  /\ counts = [ops |-> 0, starts |-> 0, ticks |-> 0, edits |-> 0]
  /\ cut = {}
  /\ landed = [fresh |-> FALSE, hit |-> FALSE]

Counted(what, bound) == counts[what] < bound /\ counts' = [counts EXCEPT ![what] = @ + 1]

-----------------------------------------------------------------------------
(* permission.rs: a directory a manifest asks for, relative to the project, is resolved  *)
(* step by step; one that climbs out of the project is dropped.                          *)
Project == <<"home", "project">>
Nowhere == <<"/">>

Climb(at, step) ==
  CASE at = Nowhere -> Nowhere
    [] step = ".." -> IF at = <<>> THEN Nowhere ELSE Front(at)
    [] step = "." -> at
    [] OTHER -> Append(at, step)

ResolveWithin(asked) ==
  LET at == FoldLeft(Climb, <<>>, Project \o asked)
  IN  IF at # Nowhere /\ IsPrefix(Project, at) THEN {at} ELSE {}

\* GrantedCaps::resolve, with load_one, which approves all that is asked for
Granted(package) == [write |-> package.write, fs |-> ResolveWithin(package.fs)]

-----------------------------------------------------------------------------
\* install, up to the package in the staging directory
Stage(package) ==
  /\ cli.step = "none"
  /\ Counted("ops", MaxOps)
  /\ cli' = [step |-> "staged", package |-> package]
  /\ UNCHANGED <<dirs, lock, cut, editor>>

\* The manifest must parse and the component be there; else nothing else is touched.
Check ==
  /\ cli.step = "staged"
  /\ cli' = IF cli.package.manifest /\ cli.package.entry
            THEN [cli EXCEPT !.step = "checked"] ELSE Resting
  /\ UNCHANGED <<dirs, lock, cut, counts, editor>>

\* The old directory is removed, the staged one renamed, the lockfile written.
RemoveOld ==
  /\ cli.step = "checked"
  /\ cli' = [cli EXCEPT !.step = "cleared"]
  /\ dirs' = [dirs EXCEPT ![cli.package.name] = NoPackage]
  /\ UNCHANGED <<lock, cut, counts, editor>>

Promote ==
  /\ cli.step = "cleared"
  /\ cli' = [cli EXCEPT !.step = "promoted"]
  /\ dirs' = [dirs EXCEPT ![cli.package.name] = cli.package]
  /\ UNCHANGED <<lock, cut, counts, editor>>

\* A mutant: the entry of the version installed before stays.
WriteLockBoth ==
  /\ cli.step = "promoted"
  /\ cli' = Resting
  /\ lock' = lock \cup {cli.package}
  /\ cut' = cut \ {cli.package.name}
  /\ UNCHANGED <<dirs, counts, editor>>

WriteLock ==
  /\ cli.step = "promoted"
  /\ cli' = Resting
  /\ lock' = {p \in lock : p.name # cli.package.name} \cup {cli.package}
  /\ cut' = cut \ {cli.package.name}
  /\ UNCHANGED <<dirs, counts, editor>>

\* remove: the directory goes, then the entry of the lockfile read before.
RemoveDir(package) ==
  /\ cli.step = "none"
  /\ Counted("ops", MaxOps)
  /\ IF package \in lock
     THEN /\ dirs' = [dirs EXCEPT ![package.name] = NoPackage]
          /\ cli' = [step |-> "removed", package |-> package]
     ELSE UNCHANGED <<dirs, cli>>
  /\ UNCHANGED <<lock, cut, editor>>

Unlock ==
  /\ cli.step = "removed"
  /\ cli' = Resting
  /\ lock' = {p \in lock : p.name # cli.package.name}
  /\ cut' = cut \ {cli.package.name}
  /\ UNCHANGED <<dirs, counts, editor>>

\* The command is killed, or an operation of the file system fails.
CutShort ==
  /\ cli.step # "none"
  /\ cli' = Resting
  /\ cut' = IF cli.step \in {"staged", "checked"} THEN cut ELSE cut \cup {cli.package.name}
  /\ UNCHANGED <<dirs, lock, counts, editor>>

-----------------------------------------------------------------------------
Loadable(name) == dirs[name] # NoPackage /\ dirs[name].manifest /\ dirs[name].entry

\* discover: what the lockfile lists and loads, in the one order there is of the names.
Discover ==
  /\ Counted("starts", MaxStarts)
  /\ plugins' = LET found == {p \in lock : Loadable(p.name)}
                    order == SetToSeq({p.name : p \in found})
                IN  [i \in DOMAIN order |-> [caps |-> Granted(dirs[order[i]]), name |-> order[i],
                                             disabled |-> FALSE, snaps |-> {}]]
  /\ buffers' = <<<<1, 2>>, <<3>>>>
  /\ focused' = 1
  /\ todo' = <<>> /\ calls' = <<>>
  /\ landed' = [fresh |-> FALSE, hit |-> FALSE]
  /\ UNCHANGED store

\* A mutant: the next key does not wait for the calls.
Anytime == TRUE

\* The event loop does nothing else between firing an event and applying the calls.
Idle == todo = <<>> /\ calls = <<>>

\* fire, for one event on a buffer: every plugin, with a snapshot of now; Handler passes
\* over those that are disabled.
Handlers(doc) == [i \in DOMAIN plugins |-> [plugin |-> i, doc |-> doc, snap |-> buffers[doc]]]

\* tick_plugins fires two events with one snapshot; fire_plugin_open one for a buffer;
\* a command or a callback calls its own plugin, with the buffer in focus.
Tick ==
  /\ Idle /\ plugins # <<>>
  /\ Counted("ticks", MaxTicks)
  /\ todo' = Handlers(focused) \o Handlers(focused)
  /\ UNCHANGED <<plugins, buffers, focused, calls, landed, store>>

FireOpen(doc) ==
  /\ Idle /\ plugins # <<>>
  /\ Counted("ticks", MaxTicks)
  /\ todo' = Handlers(doc)
  /\ focused' = doc
  /\ UNCHANGED <<plugins, buffers, calls, landed, store>>

RunCommand(i) ==
  /\ Idle
  /\ i \in DOMAIN plugins /\ ~plugins[i].disabled
  /\ Counted("ticks", MaxTicks)
  /\ todo' = <<[plugin |-> i, doc |-> focused, snap |-> buffers[focused]]>>
  /\ UNCHANGED <<plugins, buffers, focused, calls, landed, store>>

\* The snapshots a plugin has: for each buffer the one last installed.
Snapped(snaps, doc, text) == {s \in snaps : s.doc # doc} \cup {[doc |-> doc, text |-> text]}

\* A handler returns, with or without a call, or traps: then it is disabled and what it
\* had queued is not drained.  buffer::apply checks the grant; the call names any buffer
\* the plugin has a snapshot of and a place in it.
Handler ==
  /\ todo # <<>>
  /\ todo' = Tail(todo)
  /\ LET h == Head(todo)
         snaps == Snapped(plugins[h.plugin].snaps, h.doc, h.snap)
     IN  IF plugins[h.plugin].disabled
         THEN UNCHANGED <<plugins, calls>>
         ELSE \/ /\ plugins' = [plugins EXCEPT ![h.plugin].disabled = TRUE,
                                              ![h.plugin].snaps = snaps]
                 /\ UNCHANGED calls
              \/ /\ plugins' = [plugins EXCEPT ![h.plugin].snaps = snaps]
                 /\ \/ UNCHANGED calls
                    \/ /\ plugins[h.plugin].caps.write
                       /\ \E s \in snaps : \E at \in DOMAIN s.text :
                            calls' = Append(calls, [doc |-> s.doc, at |-> at, char |-> s.text[at],
                                                    fresh |-> s.doc = h.doc])
  /\ UNCHANGED <<buffers, focused, landed, counts, store>>

Without(text, at) == SubSeq(text, 1, at - 1) \o SubSeq(text, at + 1, Len(text))

\* apply_plugin_calls, one call: an edit out of bounds is skipped, others land where they
\* say.  Afterwards the calls left for this buffer were made on an older text.
Apply ==
  /\ todo = <<>> /\ calls # <<>>
  /\ LET c == Head(calls)
         inside == c.at <= Len(buffers[c.doc])
     IN  /\ buffers' = IF inside THEN [buffers EXCEPT ![c.doc] = Without(@, c.at)] ELSE buffers
         /\ calls' = [i \in 1..(Len(calls) - 1) |->
                        IF calls[i + 1].doc = c.doc THEN [calls[i + 1] EXCEPT !.fresh = FALSE]
                        ELSE calls[i + 1]]
         /\ landed' = [fresh |-> c.fresh, hit |-> inside /\ buffers[c.doc][c.at] = c.char]
  /\ UNCHANGED <<plugins, focused, todo, counts, store>>

\* The user types at the start of the buffer in focus, or shows another one.
Type ==
  /\ Idle
  /\ Counted("edits", MaxEdits)
  /\ buffers' = [buffers EXCEPT ![focused] = <<10 + counts.edits>> \o @]
  /\ UNCHANGED <<plugins, focused, todo, calls, landed, store>>

Focus(doc) ==
  /\ Idle
  /\ doc # focused
  /\ focused' = doc
  /\ UNCHANGED <<plugins, buffers, todo, calls, landed, counts, store>>

PluginsNext ==
  \/ \E p \in Packages : Stage(p) \/ RemoveDir(p)
  \/ Check \/ RemoveOld \/ Promote \/ WriteLock \/ Unlock \/ CutShort
  \/ Discover \/ Tick \/ Handler \/ Apply \/ Type
  \/ \E doc \in 1..2 : FireOpen(doc) \/ Focus(doc)
  \/ \E i \in 1..2 : RunCommand(i)

PluginsSpec == PluginsInit /\ [][PluginsNext]_pluginVars

-----------------------------------------------------------------------------
Busy(name) == cli.step # "none" /\ cli.package.name = name

\* The lockfile and the directories agree: a plugin is listed exactly when its directory
\* holds that very package, unless a command on it is under way or was cut short and no
\* later one made up for it (install, remove).  A bad package never gets into the store,
\* at no moment and wherever a command is cut short ("so a bad manifest can't leave a
\* half-installed plugin in the store"), and whatever a manifest asks for, the
\* directories granted to what is loaded are inside the project (resolve_within).
StoreIsSound ==
  /\ \A n \in PluginNames :
       /\ ~Busy(n) /\ n \notin cut => {p \in lock : p.name = n} = {dirs[n]} \ {NoPackage}
       /\ dirs[n] # NoPackage => Loadable(n)
  /\ \A i \in DOMAIN plugins : \A at \in plugins[i].caps.fs : IsPrefix(Project, at)

\* An edit made on a snapshot of this event is applied to the very character it was meant
\* for, as long as no edit of the same round touched that buffer before it
\* (apply_plugin_calls, which runs when all handlers are done).
EditsHitTheirTarget == landed.fresh => landed.hit
=============================================================================
