-------------------------------- MODULE Dap --------------------------------
(***************************************************************************)
(* A debug session: the adapter's subprocess, the driver task of           *)
(* crates/onda-dap/src/lib.rs with the session of session.rs, the bridge   *)
(* to the event loop and the run view of crates/onda/src/main.rs.          *)
(*                                                                         *)
(* The adapter answers requests in the order they came, and the driver     *)
(* reads an answer when it is given.  One file holds all breakpoints.  A   *)
(* stop is a number, a frame of it <<stop, index>>, and so are its scopes  *)
(* and its variables.  Threads, output, evaluation and the verification of *)
(* breakpoints only change what is shown.                                  *)
(***************************************************************************)
EXTENDS Integers, Sequences, SequencesExt

CONSTANTS Lines,         \* where breakpoints are toggled
          MaxRuns,       \* bound on the sessions launched
          MaxToggles,    \* bound on the toggles
          MaxStops,      \* bound on the stops of one program
          MaxControls,   \* bound on steps, continues and frames selected
          DapQueue,      \* capacity of the command and event channels, 64 and 256
          DapBg         \* capacity of the background channel, 256

VARIABLES sessions,   \* the sessions launched, the latest last
          dapClient,  \* App::dap_client, 0 for none
          breakpoints,
          view,       \* dap_stop_line, the stop whose frames dap_frames holds and how
                      \* many, dap_selected_frame, and the frame dap_vars is of
          dapBg, toggles, controls

\* History: a command was dropped, for it found no client or a full queue; the user acted
\* before the answers, or what the sessions before had to say, were in.
VARIABLES dropped, early

dapVars == <<sessions, dapClient, breakpoints, view, dapBg, toggles, controls, dropped, early>>

NoFrame == <<0, 0>>
Cleared == [marker |-> 0, stop |-> 0, frames |-> 0, selected |-> 0, vars |-> NoFrame]
DapNote == [kind |-> "note"]
DapReady == [kind |-> "ready"]
Request(kind) == [kind |-> kind, arg |-> NoFrame]
SetBreakpoints == [kind |-> "breakpoints", arg |-> breakpoints]

\* handle says who has the DapClient: the launching task, the channel, the App, nobody.
\* A hasty program came to its end before the launching task handed the client over.
Launched ==
  [driver |-> "running", handle |-> "task", requests |-> <<Request("initialize")>>,
   commands |-> <<>>, events |-> <<>>, bridge |-> TRUE, known |-> {}, configured |-> FALSE,
   adapter |-> "new", set |-> {}, stop |-> 0, depth |-> 1, hasty |-> FALSE]

DapInit ==
  /\ sessions = <<>>
  /\ dapClient = 0
  /\ breakpoints = {}
  /\ view = Cleared
  /\ dapBg = <<>>
  /\ toggles = 0 /\ controls = 0
  /\ dropped = FALSE /\ early = FALSE

-----------------------------------------------------------------------------
DapRunning(s) == s.driver = "running"
Quiet ==
  dapBg = <<>> /\ \A i \in DOMAIN sessions :
    DapRunning(sessions[i]) => /\ sessions[i].handle # "task"
                               /\ <<>> = sessions[i].requests \o sessions[i].commands
                               /\ sessions[i].events = <<>>
NothingComes ==
  Quiet /\ \A i \in DOMAIN sessions : sessions[i].handle # "task" /\ sessions[i].events = <<>>

\* DapClient::dispatch drops what finds the queue full or the driver gone.
DapAccepts ==
  /\ dapClient # 0 /\ DapRunning(sessions[dapClient])
  /\ Len(sessions[dapClient].commands) < DapQueue

DapDispatch(command) ==
  /\ sessions' = IF DapAccepts
                 THEN [sessions EXCEPT ![dapClient].commands = Append(@, command)] ELSE sessions
  /\ dropped' = (dropped \/ ~DapAccepts)

\* dap_toggle_breakpoint and dap_send_breakpoints
Toggle(line) ==
  /\ toggles < MaxToggles
  /\ toggles' = toggles + 1
  /\ breakpoints' = IF line \in breakpoints THEN breakpoints \ {line} ELSE breakpoints \cup {line}
  /\ IF dapClient = 0 THEN UNCHANGED <<sessions, dropped>>
     ELSE DapDispatch([kind |-> "breakpoints", arg |-> breakpoints'])
  /\ UNCHANGED <<dapClient, view, dapBg, controls, early>>

\* dap_run, which looks at the client and not at a launch under way
Run ==
  /\ dapClient = 0
  /\ Len(sessions) < MaxRuns
  /\ sessions' = Append(sessions, Launched)
  /\ early' = (early \/ ~NothingComes)
  /\ UNCHANGED <<dapClient, breakpoints, view, dapBg, toggles, controls, dropped>>

Acts == controls < MaxControls /\ controls' = controls + 1 /\ early' = (early \/ ~NothingComes)

\* dap_control: continue, or one of the steps; the marker goes if the command did.
Control(kind) ==
  /\ dapClient # 0
  /\ Acts
  /\ DapDispatch(Request(kind))
  /\ view' = IF DapAccepts THEN [view EXCEPT !.marker = 0] ELSE view
  /\ UNCHANGED <<dapClient, breakpoints, dapBg, toggles>>

\* handle_run_key and dap_select_frame
SelectFrame(index) ==
  /\ index < view.frames
  /\ Acts
  /\ view' = [view EXCEPT !.selected = index]
  /\ DapDispatch([kind |-> "scopes", arg |-> <<view.stop, index>>])
  /\ UNCHANGED <<dapClient, breakpoints, dapBg, toggles>>

Without(client) ==
  [i \in DOMAIN sessions |->
     IF i = client THEN [sessions[i] EXCEPT !.handle = "nobody"] ELSE sessions[i]]

\* :DapStop; what the channel still holds comes later, and the frames stay.
DapStop ==
  /\ dapClient # 0
  /\ sessions' = [Without(dapClient) EXCEPT ![dapClient].commands =
                    IF DapAccepts THEN Append(@, Request("disconnect")) ELSE @]
  /\ dropped' = (dropped \/ ~DapAccepts)
  /\ early' = (early \/ ~NothingComes)
  /\ dapClient' = 0
  /\ view' = [view EXCEPT !.marker = 0]
  /\ UNCHANGED <<breakpoints, dapBg, toggles, controls>>

\* The launching task hands the client over, or drops it at a full channel.
DapHandOver(i) ==
  /\ sessions[i].handle = "task"
  /\ IF Len(dapBg) < DapBg
     THEN /\ dapBg' = Append(dapBg, [session |-> i, event |-> DapReady])
          /\ sessions' = [sessions EXCEPT ![i].handle = "bg"]
     ELSE /\ sessions' = [sessions EXCEPT ![i].handle = "nobody"]
          /\ UNCHANGED dapBg
  /\ UNCHANGED <<dapClient, breakpoints, view, toggles, controls, dropped, early>>

-----------------------------------------------------------------------------
\* A mutant: the breakpoints set before the client was there are not sent.
TakeClientOnly(i) ==
  /\ dapClient' = i
  /\ sessions' = [Without(dapClient) EXCEPT ![i].handle = "app"]
  /\ UNCHANGED <<view, dropped>>

\* DapClientReady: the client, and all breakpoints sent to it.
TakeClient(i) ==
  LET taken == [Without(dapClient) EXCEPT ![i].handle = "app"]
      room == DapRunning(taken[i]) /\ Len(taken[i].commands) < DapQueue
  IN  /\ dapClient' = i
      /\ sessions' = IF room /\ toggles > 0
                     THEN [taken EXCEPT ![i].commands = Append(@, SetBreakpoints)] ELSE taken
      /\ dropped' = (dropped \/ ~room)
      /\ UNCHANGED view

\* A mutant: the stack of a new stop keeps the variables it finds.
StackArrivesOnly(top, depth) ==
  /\ view' = [view EXCEPT !.marker = top[1], !.stop = top[1], !.frames = depth,
                          !.selected = IF @ >= depth THEN 0 ELSE @]
  /\ UNCHANGED <<sessions, dropped>>

StackArrives(top, depth) ==
  /\ view' = [view EXCEPT !.marker = top[1], !.stop = top[1], !.frames = depth,
                          !.selected = IF @ >= depth THEN 0 ELSE @]
  /\ DapDispatch([kind |-> "scopes", arg |-> top])

\* A mutant: the end of the program only clears the view.
EndSessionInView == view' = Cleared /\ UNCHANGED <<dapClient, sessions, dropped>>

\* DapEvent::Terminated
EndSession ==
  /\ view' = Cleared
  /\ dapClient' = 0
  /\ sessions' = Without(dapClient)
  /\ UNCHANGED dropped

\* handle_dap_event
Handle(i, event) ==
  \/ event.kind = "ready" /\ TakeClient(i)
  \/ event.kind = "terminated" /\ EndSession
  \/ /\ event.kind = "stopped"
     /\ view' = [view EXCEPT !.selected = 0]
     /\ DapDispatch(Request("stack"))
     /\ UNCHANGED dapClient
  \/ event.kind = "stack" /\ StackArrives(event.arg, event.depth) /\ UNCHANGED dapClient
  \/ /\ event.kind = "scopes"
     /\ DapDispatch([kind |-> "variables", arg |-> event.arg])
     /\ UNCHANGED <<dapClient, view>>
  \/ /\ event.kind = "variables"
     /\ view' = [view EXCEPT !.vars = event.arg]
     /\ UNCHANGED <<dapClient, sessions, dropped>>
  \/ event.kind = "continued" /\ view' = Cleared /\ UNCHANGED <<dapClient, sessions, dropped>>
  \/ event.kind = "note" /\ UNCHANGED <<dapClient, view, sessions, dropped>>

DapDrain ==
  /\ dapBg # <<>>
  /\ dapBg' = Tail(dapBg)
  /\ Handle(Head(dapBg).session, Head(dapBg).event)
  /\ UNCHANGED <<breakpoints, toggles, controls, early>>

\* The bridge passes an event on, and ends at a full channel.
DapBridge(i) ==
  /\ sessions[i].bridge /\ sessions[i].events # <<>>
  /\ IF Len(dapBg) < DapBg
     THEN /\ dapBg' = Append(dapBg, [session |-> i, event |-> Head(sessions[i].events)])
          /\ sessions' = [sessions EXCEPT ![i].events = Tail(@)]
     ELSE /\ sessions' = [sessions EXCEPT ![i].bridge = FALSE, ![i].events = <<>>]
          /\ UNCHANGED dapBg
  /\ UNCHANGED <<dapClient, breakpoints, view, toggles, controls, dropped, early>>

dapEditor == <<dapClient, breakpoints, view, dapBg, toggles, controls, dropped, early>>

-----------------------------------------------------------------------------
\* The driver.  An event waits for room; when the bridge is gone the driver ends too.
DapStopped(s) == [s EXCEPT !.driver = "ended",
                           !.adapter = IF @ = "terminated" THEN @ ELSE "gone"]

DapEmit(i, s, event) ==
  /\ s.bridge => Len(s.events) < DapQueue
  /\ sessions' = [sessions EXCEPT ![i] =
                    IF s.bridge THEN [s EXCEPT !.events = Append(@, event)] ELSE DapStopped(s)]
  /\ UNCHANGED dapEditor

Quietly(i, s) == sessions' = [sessions EXCEPT ![i] = s] /\ UNCHANGED dapEditor

Up(s) == DapRunning(s) /\ s.adapter \notin {"gone", "terminated"}

\* The adapter answers its oldest request, and DapSession makes an event of it.
Answers(i) ==
  /\ Up(sessions[i]) /\ sessions[i].requests # <<>>
  /\ LET r == Head(sessions[i].requests)
         s == [sessions[i] EXCEPT !.requests = Tail(@)]
     IN  \/ /\ r.kind = "initialize"
            /\ DapEmit(i, [s EXCEPT !.requests = Append(@, Request("launch"))], DapNote)
         \/ r.kind = "launch" /\ Quietly(i, [s EXCEPT !.adapter = "launched"])
         \/ r.kind = "breakpoints" /\ DapEmit(i, [s EXCEPT !.set = r.arg], DapNote)
         \/ r.kind = "configured" /\ Quietly(i, [s EXCEPT !.adapter = "running"])
         \/ /\ r.kind \in {"stack", "scopes", "variables"}
            /\ IF s.adapter # "stopped" THEN DapEmit(i, s, DapNote)
               ELSE IF r.kind = "stack"
               THEN DapEmit(i, s, [kind |-> "stack", arg |-> <<s.stop, 0>>, depth |-> s.depth])
               ELSE DapEmit(i, s, [kind |-> r.kind, arg |-> r.arg])
         \/ /\ r.kind = "continue"
            /\ IF s.adapter # "stopped" THEN DapEmit(i, s, DapNote)
               ELSE DapEmit(i, [s EXCEPT !.adapter = "running"], [kind |-> "continued"])
         \/ /\ r.kind = "step"
            /\ IF s.adapter # "stopped" THEN DapEmit(i, s, DapNote)
               ELSE Quietly(i, [s EXCEPT !.adapter = "running"])

\* The initialized event: the breakpoints known by now and configurationDone go out.
Initialized(i) ==
  /\ Up(sessions[i]) /\ sessions[i].adapter = "launched" /\ ~sessions[i].configured
  /\ DapEmit(i, [sessions[i] EXCEPT !.configured = TRUE,
                !.requests = @ \o (IF sessions[i].known = {} THEN <<>>
                                   ELSE <<[kind |-> "breakpoints", arg |-> sessions[i].known]>>)
                               \o <<Request("configured")>>], DapNote)

\* The program stops, or comes to its end.
Stops(i) ==
  /\ Up(sessions[i]) /\ sessions[i].adapter = "running" /\ sessions[i].stop < MaxStops
  /\ \E depth \in 1..2 :
       DapEmit(i, [sessions[i] EXCEPT !.adapter = "stopped", !.stop = @ + 1, !.depth = depth],
            [kind |-> "stopped"])

Terminates(i) ==
  /\ Up(sessions[i]) /\ sessions[i].adapter = "running"
  /\ DapEmit(i, [sessions[i] EXCEPT !.adapter = "terminated",
                                    !.hasty = (sessions[i].handle = "task")],
                [kind |-> "terminated"])

AdapterExits(i) ==
  /\ Up(sessions[i])
  /\ Quietly(i, [sessions[i] EXCEPT !.adapter = "gone"])

\* read_task ends with the process: an error event, and the driver with it.
DapDisconnected(i) ==
  /\ DapRunning(sessions[i]) /\ ~Up(sessions[i])
  /\ DapEmit(i, DapStopped(sessions[i]), DapNote)

\* A command; what is written to a process that is gone is lost.
DapPerform(i) ==
  /\ DapRunning(sessions[i]) /\ sessions[i].commands # <<>>
  /\ LET c == Head(sessions[i].commands)
         s == [sessions[i] EXCEPT !.commands = Tail(@)]
         sent == IF Up(s) THEN [s EXCEPT !.requests = Append(@, c)] ELSE s
     IN  \/ c.kind = "disconnect" /\ Quietly(i, DapStopped(s))
         \/ /\ c.kind = "breakpoints"
            /\ Quietly(i, [(IF s.configured THEN sent ELSE s) EXCEPT !.known = c.arg])
         \/ c.kind \notin {"disconnect", "breakpoints"} /\ Quietly(i, sent)

\* Nobody can send commands any more.
DapClosed(i) ==
  /\ DapRunning(sessions[i])
  /\ sessions[i].handle = "nobody" /\ sessions[i].commands = <<>>
  /\ Quietly(i, DapStopped(sessions[i]))

DapDriver(i) == DapPerform(i) \/ DapDisconnected(i) \/ DapClosed(i)

DapNext ==
  \/ Run \/ DapDrain \/ DapStop
  \/ \E line \in Lines : Toggle(line)
  \/ \E kind \in {"continue", "step"} : Control(kind)
  \/ \E index \in 0..1 : SelectFrame(index)
  \/ \E i \in DOMAIN sessions :
       \/ DapHandOver(i) \/ DapBridge(i) \/ DapDriver(i)
       \/ Answers(i) \/ Initialized(i) \/ Stops(i) \/ Terminates(i) \/ AdapterExits(i)

\* The event loop drains the channel in every turn and the runtime goes on with the
\* tasks; the adapter, the program and the user may do nothing.
DapFairness ==
  /\ WF_dapVars(DapDrain)
  /\ \A i \in 1..MaxRuns :
       /\ WF_dapVars(i \in DOMAIN sessions /\ DapHandOver(i))
       /\ WF_dapVars(i \in DOMAIN sessions /\ DapDriver(i))
       /\ WF_dapVars(i \in DOMAIN sessions /\ DapBridge(i))

DapSpec == DapInit /\ [][DapNext]_dapVars /\ DapFairness

-----------------------------------------------------------------------------
Live == dapClient # 0 /\ Up(sessions[dapClient]) /\ sessions[dapClient].bridge

\* Whenever nothing is on its way and no command was dropped, the adapter has the
\* breakpoints of the gutter, those toggled before and during the handshake included
\* (dap_send_breakpoints, DapClientReady, the driver's own map).
BreakpointsSettle ==
  Live /\ Quiet /\ ~dropped /\ sessions[dapClient].configured =>
    sessions[dapClient].set = breakpoints

\* Whenever nothing is on its way, the run view is about the stop the program is at: its
\* marker, its frames and the variables of the frame selected, as long as the user waits
\* for the answers (handle_dap_event, dap_select_frame).
RunViewIsOfTheStop ==
  Live /\ NothingComes /\ ~dropped /\ ~early =>
    LET s == sessions[dapClient] IN
    /\ s.adapter # "stopped" => view.marker = 0
    /\ s.adapter = "stopped" =>
         view = [marker |-> s.stop, stop |-> s.stop, frames |-> s.depth,
                 selected |-> view.selected, vars |-> <<s.stop, view.selected>>]

\* A session whose program came to its end, or which nobody drives any more, is closed:
\* its process is stopped and :DapRun may start another.  Excepted are
\* sessions whose bridge found the channel full, and programs that end before the client
\* is there, which leave :DapRun refused until :DapStop.
Over(i) == sessions[i].adapter = "terminated" \/ sessions[i].handle = "nobody"
SessionsEnd ==
  \A i \in 1..MaxRuns :
    (i \in DOMAIN sessions /\ Over(i))
      ~> (/\ i \in DOMAIN sessions /\ sessions[i].driver = "ended"
          /\ (dapClient # i \/ ~sessions[i].bridge \/ sessions[i].hasty))
=============================================================================
