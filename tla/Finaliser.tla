------------------------------- MODULE Finaliser -------------------------------
(***************************************************************************)
(* The off-chain finaliser beside the governance contract: the workflow    *)
(* .github/workflows/auto-finalise.yml and the script it runs, scripts/    *)
(* finalise-expired-proposals.sh.  A run of the script calls finalise on   *)
(* the ids it was given, in order, one transaction each, and under set -e  *)
(* stops at the first call that fails.  Transactions of everybody else     *)
(* fall between two calls of a run.                                        *)
(***************************************************************************)
EXTENDS Governance, Sequences, SequencesExt

VARIABLE argv       \* the ids the running script has still to finalise

fvars == <<vars, argv>>

FInit == Init /\ argv = <<>>

\* The daily cron: a scheduled event has no inputs, so PROPOSAL_IDS is empty
\* and the script ends with its usage message.
Schedule ==
    /\ argv = <<>>
    /\ UNCHANGED fvars

\* Someone dispatches the workflow with a list of ids.
Dispatch(ids) ==
    /\ argv = <<>>
    /\ ids # <<>>
    /\ argv' = ids
    /\ UNCHANGED vars

Expired == {id \in ProposalIds : IsActive(id) /\ VotingOver(proposals[id])}

\* The operator reads which proposals are expired and gives their ids in order.
DispatchExpired == Dispatch(SetToSortSeq(Expired, <))

\* The call for the first id left succeeds and the loop goes on.
Invoke(id) ==
    /\ argv # <<>>
    /\ id = Head(argv)
    /\ finalise(id)
    /\ argv' = Tail(argv)

\* The call for the first id left fails: the contract refuses it, or the RPC
\* does not answer (a finalise that took effect without an answer is Finalise
\* followed by this step).  set -e drops the ids behind it.
Abort ==
    /\ argv # <<>>
    /\ argv' = <<>>
    /\ UNCHANGED vars

\* What others do to the contract.  Left out are the operations that change
\* nothing finalise looks at: amend_proposal, update_quorum, execute, the
\* handover of the admin's role and the settings other than the pause; and
\* retract_vote, as it leaves the tallies of a ballot that was never cast.
Others ==
    \/ \E a \in Addr, t \in Token : initialize(a, t, 0, 0, 0, FALSE, None)
    \/ CreateProposal
    \/ CastVote
    \/ ChangeVote
    \/ Finalise
    \/ Cancel
    \/ \E a \in Addr, b \in BOOLEAN : set_paused(a, b)
    \/ Tick

\* bound: a dispatch with other than the expired ids gives one id
Lists == {<<id>> : id \in 0..(MaxProposals - 1)}

FNext ==
    \/ Others /\ UNCHANGED argv
    \/ Schedule
    \/ DispatchExpired
    \/ \E ids \in Lists : Dispatch(ids)
    \/ \E id \in 0..(MaxProposals - 1) : Invoke(id)
    \/ Abort

FSpec == FInit /\ [][FNext]_fvars

\* Ledgers keep closing and a run ends.  The rest is assumed of people and of
\* the network, as nothing in the repository sees to it: whenever there are
\* expired proposals, somebody keeps dispatching the workflow with their ids,
\* and a call that the contract would accept does not fail for ever.
FairSpec ==
    /\ FSpec
    /\ WF_fvars(Tick /\ UNCHANGED argv)
    /\ WF_fvars(Abort \/ \E id \in 0..(MaxProposals - 1) : Invoke(id))
    /\ SF_fvars(DispatchExpired)
    /\ \A id \in 0..(MaxProposals - 1) : SF_fvars(Invoke(id))

\* The tallies of an Active proposal can be added up.
Addable(id) == IsActive(id) => TotalVotes(proposals[id]) <= MaxI128

\* Proposal `id` does not stay Active, although every call of a run may fail
\* and take the ids behind it along, others finalise or cancel proposals that
\* a run still has before it, and runs are dispatched with any other list: if
\* the contract does not stay paused, and neither its own tallies nor those of
\* an earlier proposal, which comes before it in the list, overflow
\* (finalise-expired-proposals.sh:19-28, lib.rs:567-617, docs/lifecycle.md:45).
EventuallyDecided ==
    \A id \in 0..(MaxProposals - 1) :
        <>[](~paused /\ \A i \in 0..id : Addable(i))
            => (IsActive(id) ~> ~IsActive(id))
=============================================================================
