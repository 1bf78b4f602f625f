---------------------------- MODULE InspectState -----------------------------
(***************************************************************************)
(* The proposal listing of scripts/inspect-state.js: one view call for the *)
(* count, then one per proposal, while the chain goes on.  Proposals are   *)
(* numbered from 0 by the contract (lib.rs create_proposal).               *)
(***************************************************************************)
EXTENDS Integers, Sequences, SequencesExt

CONSTANTS
  LIMIT,         \* --limit
  MaxCreated     \* bound on the proposals created

ASSUME InspectAssumption == LIMIT \in Nat \ {0} /\ MaxCreated \in Nat

VARIABLES
  created,       \* the contract's proposal_count
  istage,        \* "idle", "count", "list", "printed" or "failed"
  icount,        \* the count that was read
  inext,         \* the next id to ask for
  ilist          \* the ids listed

inspect_vars == <<created, istage, icount, inext, ilist>>

InspectInit ==
  /\ created = 0 /\ istage = "idle" /\ icount = 0 /\ inext = 0 /\ ilist = <<>>

create_proposal ==
  /\ created < MaxCreated /\ created' = created + 1
  /\ UNCHANGED <<istage, icount, inext, ilist>>

\* main: the command "proposals" (or "all") starts.
RunCommand ==
  /\ istage \in {"idle", "printed", "failed"}
  /\ istage' = "count" /\ icount' = 0 /\ inext' = 0 /\ ilist' = <<>>
  /\ UNCHANGED created

FirstId_OneEarlier(count) == IF count - LIMIT > 1 THEN count - LIMIT ELSE 1
FirstId(count) == IF count - LIMIT + 1 > 1 THEN count - LIMIT + 1 ELSE 1

\* fetchProposals: the count, and where the loop starts.
ReadCount ==
  /\ istage = "count"
  /\ istage' = "list" /\ icount' = created /\ inext' = FirstId(created)
  /\ UNCHANGED <<created, ilist>>

\* The loop, up to and including count.  invokeView answers null for an id
\* that the CLI reports as not found or missing, and null is left out.
GetProposal ==
  /\ istage = "list" /\ inext <= icount
  /\ ilist' = IF inext < created THEN Append(ilist, inext) ELSE ilist
  /\ inext' = inext + 1
  /\ UNCHANGED <<created, istage, icount>>

printProposals ==
  /\ istage = "list" /\ inext > icount
  /\ istage' = "printed"
  /\ UNCHANGED <<created, icount, inext, ilist>>

\* Any other failure of a view call ends the program.
ViewFails ==
  /\ istage = "count" \/ (istage = "list" /\ inext <= icount)
  /\ istage' = "failed"
  /\ UNCHANGED <<created, icount, inext, ilist>>

InspectNext ==
  \/ create_proposal \/ RunCommand \/ ReadCount \/ GetProposal
  \/ printProposals \/ ViewFails
InspectSpec == InspectInit /\ [][InspectNext]_inspect_vars
-----------------------------------------------------------------------------
(* What is printed are consecutive proposals, each once and in order, up   *)
(* to the latest that existed when the count was read or the one after it, *)
(* and no more than LIMIT of them, however many are created while the      *)
(* program asks.  With --limit 1 the one id asked for is the count, which  *)
(* no proposal has yet, so the listing may be empty; otherwise it is empty *)
(* only if there were fewer than two (inspect-state.js fetchProposals).    *)
ListingIsRecent ==
  istage = "printed" =>
    /\ \A i \in 1..(Len(ilist) - 1) : ilist[i + 1] = ilist[i] + 1
    /\ Len(ilist) <= LIMIT
    /\ ilist # <<>> => Last(ilist) \in {icount - 1, icount}
    /\ (icount > 1 /\ LIMIT > 1) => ilist # <<>>

(* The listing holds the last LIMIT proposals, or all of them if there are *)
(* fewer (inspect-state.js: "List proposals (default: last 10)").          *)
ListsLastProposals ==
  (istage = "printed" /\ created = icount) =>
    Len(ilist) = (IF icount < LIMIT THEN icount ELSE LIMIT)
=============================================================================
