------------------------------ MODULE CosmosVote ------------------------------
(***************************************************************************)
(* The three contracts together.  Governance asks the token for supply,    *)
(* balances and delegations inside its own atomic call, and an execution   *)
(* calls the treasury, which calls the token: one transaction, one step.   *)
(* The treasury contract (contracts/treasury/src) is an account of the     *)
(* token that only ever moves tokens inside disburse.                      *)
(***************************************************************************)
EXTENDS Governance

CONSTANTS
    GovContract,     \* the governance contract's own address
    VotingToken,     \* the address of the token contract modelled by T
    Native,          \* Asset::Native
    InitialSupplies  \* initial supplies of the token

VARIABLES
    initialized, token_admin, token_pending_admin, token_paused,
    total_supply, balance, allowance, delegation, grants,
    treasury_governance  \* DataKey::Governance of each treasury, or None

T == INSTANCE Token WITH Account <- Addr \cup Treasury

ASSUME ActionAssumption ==
    Action \subseteq [recipient : Addr, amount : Amount,
                      asset : Token \cup {Native}]

ASSUME TokenAssumption ==
    /\ InitialSupplies \subseteq Answer
    /\ IsFiniteSet(Treasury)
    /\ None \notin T!Allowance

\* Users, treasuries and the governance contract have different addresses.
ASSUME AddressAssumption ==
    /\ Addr \cap Treasury = {}
    /\ GovContract \notin Addr

token_state == <<initialized, token_admin, token_pending_admin, token_paused,
                 total_supply, balance, allowance, delegation, grants>>
all_vars == <<vars, token_state, treasury_governance>>

CosmosInit ==
    /\ Init
    /\ T!TokenInit
    /\ treasury_governance = [t \in Treasury |-> None]

-----------------------------------------------------------------------------
(* The treasury contract *)

treasury_initialize(treas, governance) ==
    /\ treasury_governance[treas] = None
    /\ treasury_governance' = [treasury_governance EXCEPT ![treas] = governance]

\* `signers` authorise the call: the calling contract, or users who signed it.
\* A transfer of the native asset is addressed to the treasury itself, which
\* has no such function, and a token other than VotingToken is outside the
\* model: both trap.
disburse(treas, signers, action) ==
    /\ treasury_governance[treas] \in signers
    /\ action.asset = VotingToken
    /\ T!transfer(treas, action.recipient, action.amount)

-----------------------------------------------------------------------------
(* Governance calls, with the token's answers *)

TokenUntouched == UNCHANGED <<token_state, treasury_governance>>

GovCreateProposal ==
    /\ \E a \in Addr, x \in Text, q \in Amount, d \in 0..(MaxDuration + 1),
          act \in Action \cup {None} :
           create_proposal(a, x, q, d, act, total_supply, balance[a])
    /\ TokenUntouched

GovCastVote ==
    /\ \E a \in Addr, id \in ProposalIds, v \in Vote :
           cast_vote(a, id, v,
                     T!balance_at(a, proposals[id].snapshot_ledger),
                     delegation[a] # None)
    /\ TokenUntouched

GovUpdateQuorum ==
    /\ \E a \in Addr, id \in ProposalIds, q \in Amount :
           update_quorum(a, id, q, total_supply)
    /\ TokenUntouched

\* mutant: a payment that traps is caught and the execution recorded
GovExecute_Caught ==
    /\ \E a \in Addr, id \in ProposalIds :
           /\ execute(a, id)
           /\ \/ UNCHANGED token_state
              \/ /\ proposals[id].treasury_action # None /\ treasury # None
                 /\ disburse(treasury, {GovContract, a},
                             proposals[id].treasury_action)
    /\ UNCHANGED treasury_governance

GovExecute ==
    /\ \E a \in Addr, id \in ProposalIds :
           /\ execute(a, id)
           /\ IF proposals[id].treasury_action # None /\ treasury # None
              THEN disburse(treasury, {GovContract, a},
                            proposals[id].treasury_action)
              ELSE UNCHANGED token_state
    /\ UNCHANGED treasury_governance

\* The calls that ask the token nothing, and the closing of a ledger.
GovOther ==
    /\ \/ Initialize
       \/ AmendProposal
       \/ RetractVote
       \/ ChangeVote
       \/ Finalise
       \/ Cancel
       \/ AdminTransfer
       \/ Configure
       \/ Tick
    /\ TokenUntouched

-----------------------------------------------------------------------------
(* Calls on the token and the treasury by users *)

\* Users are Addr: the treasury contract signs for itself only in disburse,
\* but tokens may be sent to it.
TokenCall ==
    /\ \/ \E a \in Addr, b \in Addr \cup Treasury, n \in Amount :
              \/ T!transfer(a, b, n)
              \/ T!mint(a, b, n)
              \/ T!burn(a, b, n)
              \/ \E o \in Addr : T!transfer_from(a, o, b, n)
              \/ \E t \in Time : T!approve(a, b, n, t)
       \/ \E a \in Addr, n \in Amount : T!burn_self(a, n)
       \/ \E a \in Addr, b \in Addr \cup Treasury : T!delegate(a, b)
       \/ \E a \in Addr : T!undelegate(a)
       \/ \E a \in Addr, n \in InitialSupplies : T!initialize(a, n)
       \/ \E a \in Addr, b \in BOOLEAN : T!set_paused(a, b)
       \/ \E a \in Addr, b \in Addr \cup Treasury : T!propose_admin(a, b)
       \/ \E a \in Addr : T!accept_admin(a)
       \/ T!Eviction
    /\ UNCHANGED <<vars, treasury_governance>>

\* A treasury that was initialized with a user's address pays whatever that
\* user asks for.
TreasuryCall ==
    /\ \E t \in Treasury, a \in Addr :
           \/ /\ \E g \in Addr \cup {GovContract} : treasury_initialize(t, g)
              /\ UNCHANGED token_state
           \/ /\ \E action \in Action : disburse(t, {a}, action)
              /\ UNCHANGED treasury_governance
    /\ UNCHANGED vars

CosmosNext ==
    \/ GovCreateProposal
    \/ GovCastVote
    \/ GovUpdateQuorum
    \/ GovExecute
    \/ GovOther
    \/ TokenCall
    \/ TreasuryCall

CosmosSpec == CosmosInit /\ [][CosmosNext]_all_vars

-----------------------------------------------------------------------------
(* Properties *)

\* Whatever is proved of the governance contract for every token holds of the
\* composition: each step is one of Governance's, or leaves its state alone.
GovernanceImplemented == Spec

\* The composition is the token contract: calls made through the treasury are
\* token transfers like any other.
TokenImplemented == T!TokenSpec

\* What the execution of proposal p does to the ledger: the payload's amount
\* goes from the treasury to the recipient and nothing else moves, or there is
\* no payload or no treasury and no balance changes.
SettledWith(p) ==
    IF p.treasury_action # None /\ treasury # None
    THEN /\ p.treasury_action.asset = VotingToken
         /\ treasury_governance[treasury] \in {GovContract, admin}
         /\ balance' =
               [[balance EXCEPT ![treasury] = @ - p.treasury_action.amount]
                   EXCEPT ![p.treasury_action.recipient] =
                              @ + p.treasury_action.amount]
    ELSE UNCHANGED balance

\* Each contract does only what its own specification allows, and they move
\* together: whenever a proposal becomes Executed, its payment is on the token's
\* ledger in the same step, in full, so a payment that traps leaves the proposal
\* Passed (governance lib.rs:632-641, treasury lib.rs:68-88).  That no payment
\* is made without an execution is TreasuryPaysExecutedProposals.
ContractsImplemented ==
    /\ GovernanceImplemented
    /\ TokenImplemented
    /\ [][\A id \in ProposalIds :
             proposals[id].state # "Executed" /\ proposals'[id].state = "Executed"
                 => SettledWith(proposals[id])]_all_vars

\* Tokens leave a treasury bound to governance only in the step that executes
\* a Passed proposal, to the amount of its payload, or by an admin's burn
\* (treasury lib.rs:68-88, governance lib.rs:621-644).
TreasuryPaysExecutedProposals ==
    [][\A t \in Treasury :
          (treasury_governance[t] = GovContract /\ balance'[t] < balance[t]) =>
             \/ total_supply' < total_supply
             \/ \E id \in ProposalIds :
                   /\ proposals[id].state = "Passed"
                   /\ proposals'[id].state = "Executed"
                   /\ treasury = t
                   /\ proposals[id].treasury_action.amount
                         = balance[t] - balance'[t]]_all_vars

\* "total votes can never exceed total_supply" (governance lib.rs:428).
VotesWithinSupply ==
    [][\A id \in ProposalIds :
          LET total == TotalVotes(proposals'[id])
          IN total > TotalVotes(proposals[id]) => total <= total_supply]_all_vars
=============================================================================
