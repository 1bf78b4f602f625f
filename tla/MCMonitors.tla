----------------------------- MODULE MCMonitors -----------------------------
(***************************************************************************)
(* The three consumers of the contracts' events besides the watcher, and   *)
(* the inspection script.  They are separate programs that share nothing   *)
(* but the chain: a behaviour follows one of them, chosen in the initial   *)
(* state.                                                                  *)
(***************************************************************************)
EXTENDS AdminMonitor, ChainMonitor, Backend, InspectState

VARIABLE program
all_vars == <<program, admin_vars, chain_vars, backend_vars, inspect_vars>>

\* Tags the two contracts emit; no event carries a value.amount field.
MCEmitted == [gov |-> {[topic |-> "paused", amount |-> -1]},
              token |-> {[topic |-> "mint", amount |-> -1]}]

Init ==
  /\ program \in {"admin_monitor", "monitor", "backend", "inspect"}
  /\ startMonitor /\ MonitorInit /\ BackendInit /\ InspectInit
  \* The monitor's configuration is a choice only where it runs.
  /\ program # "monitor" => watched = Contracts /\ decodes

AdminTurn ==
  /\ program = "admin_monitor" /\ AdminNext
  /\ UNCHANGED <<program, chain_vars, backend_vars, inspect_vars>>
MonitorTurn ==
  /\ program = "monitor" /\ MonitorNext
  /\ UNCHANGED <<program, admin_vars, backend_vars, inspect_vars>>
BackendTurn ==
  /\ program = "backend" /\ BackendNext
  /\ UNCHANGED <<program, admin_vars, chain_vars, inspect_vars>>
InspectTurn ==
  /\ program = "inspect" /\ InspectNext
  /\ UNCHANGED <<program, admin_vars, chain_vars, backend_vars>>

Next == AdminTurn \/ MonitorTurn \/ BackendTurn \/ InspectTurn

\* The event loop runs the service's callbacks, and the RPC is not down for
\* ever.  start, stop, signals and failures are never obliged.
Loop(k) == LoopStep(k) /\ UNCHANGED <<program, admin_vars, chain_vars, inspect_vars>>
PollOk(k) == pollEvents(k) /\ UNCHANGED <<program, admin_vars, chain_vars, inspect_vars>>
Spec ==
  /\ Init /\ [][Next]_all_vars
  /\ \A k \in Chains : WF_all_vars(Loop(k)) /\ SF_all_vars(PollOk(k))
=============================================================================
