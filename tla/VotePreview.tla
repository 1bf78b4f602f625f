----------------------------- MODULE VotePreview -----------------------------
(***************************************************************************)
(* frontend/src/components/VoteSimulationPreview.tsx: a dry run of a vote, *)
(* simulated by the RPC, whose fee or rejection is shown.                  *)
(***************************************************************************)
EXTENDS Integers

CONSTANTS SimCalls   \* slots for simulations in flight

VOTE_OPTIONS == {"Yes", "No", "Abstain"}

VARIABLES
  selectedVote,
  preview,     \* the vote whose fee is shown, or "none"
  simError,    \* "none", "contract" or "network"
  simLoading,
  sim          \* sim[c]: the vote being simulated, or "none"

preview_vars == <<selectedVote, preview, simError, simLoading, sim>>

PreviewInit ==
  /\ selectedVote = "Yes" /\ preview = "none" /\ simError = "none"
  /\ simLoading = FALSE /\ sim = [c \in SimCalls |-> "none"]

\* The radio buttons stay enabled during a simulation and clear nothing.
SelectVote(v) ==
  /\ selectedVote' = v
  /\ UNCHANGED <<preview, simError, simLoading, sim>>

MaySimulate_Always == TRUE
MaySimulate == ~simLoading

handleSimulate(c) ==
  /\ MaySimulate /\ sim[c] = "none"
  /\ simLoading' = TRUE /\ preview' = "none" /\ simError' = "none"
  /\ sim' = [sim EXCEPT ![c] = selectedVote]
  /\ UNCHANGED selectedVote

SimulationEnds(c, outcome) ==
  /\ sim[c] # "none"
  /\ IF outcome = "ok" THEN preview' = sim[c] /\ UNCHANGED simError
     ELSE simError' = outcome /\ UNCHANGED preview
  /\ simLoading' = FALSE
  /\ sim' = [sim EXCEPT ![c] = "none"]
  /\ UNCHANGED selectedVote

PreviewNext ==
  \/ \E v \in VOTE_OPTIONS : SelectVote(v)
  \/ \E c \in SimCalls : \/ handleSimulate(c)
                         \/ \E o \in {"ok", "contract", "network"} : SimulationEnds(c, o)
PreviewSpec == PreviewInit /\ [][PreviewNext]_preview_vars
-----------------------------------------------------------------------------
(* At most one verdict is on screen, and none while a simulation runs,     *)
(* however often and for whichever vote the user simulates                 *)
(* (VoteSimulationPreview.tsx handleSimulate and its disabled button).     *)
OneVerdict ==
  /\ preview = "none" \/ simError = "none"
  /\ simLoading => preview = "none" /\ simError = "none"
=============================================================================
