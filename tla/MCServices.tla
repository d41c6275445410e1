----------------------------- MODULE MCServices -----------------------------
(***************************************************************************)
(* Agent and Dap for TLC.  The two drivers share nothing but the event     *)
(* loop, so a behaviour is of the one or of the other.                     *)
(***************************************************************************)
EXTENDS Agent, Dap

VARIABLE service

\* A request may come without an option to reject.
MCOffers == {<<"allow", "reject">>, <<"allow">>}

ServicesInit == service \in {"agent", "debugger"} /\ Init /\ DapInit

ServicesNext ==
  \/ service = "agent" /\ Next /\ UNCHANGED <<service, dapVars>>
  \/ service = "debugger" /\ DapNext /\ UNCHANGED <<service, vars>>

ServicesSpec ==
  ServicesInit /\ [][ServicesNext]_<<service, vars, dapVars>> /\ Fairness /\ DapFairness

-----------------------------------------------------------------------------
\* IdleMeansNoTurn, AllowedByTheUser and AsksAreAnswered stand in Agent
\* (agent_busy, agent_handle_permission, agent_serve_file_read).
\* BreakpointsSettle, RunViewIsOfTheStop and SessionsEnd in Dap (dap_send_breakpoints,
\* handle_dap_event, the driver's loop).
=============================================================================
