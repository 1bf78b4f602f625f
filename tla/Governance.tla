------------------------------ MODULE Governance ------------------------------
(***************************************************************************)
(* The governance contract (contracts/governance/src): proposals, token-   *)
(* weighted ballots, finalisation, execution and the admin operations.     *)
(*                                                                         *)
(* A Soroban invocation is atomic and an Err or a panic reverts it, so one *)
(* contract function is one action and its early returns are the action's  *)
(* guard.  The voting token is another contract: what it answers to        *)
(* total_supply, balance, balance_at and get_delegation is a parameter of  *)
(* the calling action, and Next lets it be anything, so what holds here    *)
(* holds for every token.  CosmosVote.tla binds the parameters to the real *)
(* token.                                                                  *)
(***************************************************************************)
EXTENDS Integers, FiniteSets

CONSTANTS
    Addr,            \* account and contract addresses that can authorise a call
    ZeroAddr,        \* the all-zeros account, for which nobody can sign
    Token,           \* addresses of token contracts
    Treasury,        \* addresses of treasury contracts
    Text,            \* titles with their descriptions
    ValidText,       \* those whose lengths are within 1..128 and 1..1024
    Action,          \* treasury disbursement payloads
    None             \* Option::None

CONSTANTS
    MinDuration,     \* 60 seconds in the code
    MaxDuration,     \* 2_592_000 seconds in the code
    MaxActive,       \* 50 in the code
    BpsDenominator,  \* 10_000 in the code
    WindowDivisor,   \* 10 in the code: quorum may change in the first tenth
    MaxI128,         \* i128::MAX
    MaxU32           \* u32::MAX

CONSTANTS
    MinBalances,     \* values given to min_proposal_balance
    Cooldowns,       \* values given to proposal_cooldown
    QuorumBps,       \* values given to min_quorum_bps
    MaxTime,         \* bound: the last ledger timestamp explored
    MaxProposals     \* bound: how many proposals are created

Amount == 0..MaxI128
Answer == (-MaxI128 - 1)..MaxI128   \* an i128 that a token may answer
Time == 0..MaxTime
Vote == {"Yes", "No", "Abstain"}
ProposalState == {"Active", "Passed", "Rejected", "Executed", "Cancelled"}
VoteRecord == [vote : Vote, weight : Amount \ {0}]

Proposal ==
    [ proposer        : Addr,
      text            : ValidText,
      votes           : [Vote -> Amount],
      quorum          : Amount \ {0},
      start_time      : Time,
      end_time        : Time,
      state           : ProposalState,
      snapshot_ledger : Time,
      voter_count     : 0..MaxU32,
      treasury_action : Action \cup {None} ]

ASSUME BoundsAssumption ==
    /\ {MinDuration, MaxDuration, MaxActive, MaxI128, MaxU32,
        MaxTime, MaxProposals} \subseteq Nat
    /\ {BpsDenominator, WindowDivisor} \subseteq Nat \ {0}
    /\ MinBalances \subseteq Int
    /\ Cooldowns \subseteq Nat
    /\ QuorumBps \subseteq Nat

ASSUME SetsAssumption ==
    /\ IsFiniteSet(Addr)
    /\ ZeroAddr \notin Addr
    /\ ValidText \subseteq Text

ASSUME NoneAssumption ==
    /\ None \notin Addr \cup {ZeroAddr}
    /\ None \notin Token
    /\ None \notin Treasury
    /\ None \notin Action
    /\ None \notin VoteRecord
    /\ None \notin Time

VARIABLES
    \* instance storage
    contract_state, admin, pending_admin, voting_token, treasury,
    proposal_count, active_proposal_count, min_proposal_balance,
    proposal_cooldown, min_quorum_bps, restrict_admin_vote, paused,
    \* persistent storage
    proposals, has_voted, vote_record, last_proposal_time,
    \* the ledger's close time, and the calls the treasury has accepted
    now, disbursements

config == <<contract_state, admin, pending_admin, voting_token, treasury,
            min_proposal_balance, proposal_cooldown, min_quorum_bps,
            restrict_admin_vote, paused>>
counters == <<proposal_count, active_proposal_count, last_proposal_time>>
ballots == <<has_voted, vote_record>>
vars == <<config, counters, ballots, proposals, now, disbursements>>

ProposalIds == 0..(proposal_count - 1)

-----------------------------------------------------------------------------
(* State *)

TypeOK ==
    /\ contract_state \in {"Uninitialized", "Ready"}
    /\ admin \in Addr \cup {None}
    /\ pending_admin \in Addr \cup {None}
    /\ voting_token \in Token \cup {None}
    /\ treasury \in Treasury \cup {None}
    /\ proposal_count \in 0..MaxProposals
    /\ active_proposal_count \in 0..MaxActive
    /\ min_proposal_balance \in Int
    /\ proposal_cooldown \in Nat
    /\ min_quorum_bps \in Nat
    /\ restrict_admin_vote \in BOOLEAN
    /\ paused \in BOOLEAN
    /\ proposals \in [ProposalIds -> Proposal]
    /\ has_voted \in [ProposalIds -> [Addr -> BOOLEAN]]
    /\ vote_record \in [ProposalIds -> [Addr -> VoteRecord \cup {None}]]
    /\ last_proposal_time \in [Addr -> Time \cup {None}]
    /\ now \in Time
    /\ disbursements \in [ProposalIds -> Nat]

\* A deployed contract: the accessors' unwrap_or defaults of storage.rs.
Init ==
    /\ contract_state = "Uninitialized"
    /\ admin = None
    /\ pending_admin = None
    /\ voting_token = None
    /\ treasury = None
    /\ proposal_count = 0
    /\ active_proposal_count = 0
    /\ min_proposal_balance = 0
    /\ proposal_cooldown = 0
    /\ min_quorum_bps = 0
    /\ restrict_admin_vote = FALSE
    /\ paused = FALSE
    /\ proposals = [i \in ProposalIds |-> None]
    /\ has_voted = [i \in ProposalIds |-> [a \in Addr |-> FALSE]]
    /\ vote_record = [i \in ProposalIds |-> [a \in Addr |-> None]]
    /\ last_proposal_time = [a \in Addr |-> None]
    /\ now = 0
    /\ disbursements = [i \in ProposalIds |-> 0]

-----------------------------------------------------------------------------
(* Guards and helpers shared by the entry points *)

assert_ready == contract_state = "Ready" /\ ~paused

assert_admin(caller) == admin = caller

IsActive(id) == id \in ProposalIds /\ proposals[id].state = "Active"

VotingOver_AtEnd(p) == now >= p.end_time                   \* mutant

VotingOver(p) == now > p.end_time

TotalVotes_NoAbstain(p) == p.votes["Yes"] + p.votes["No"]  \* mutant

\* Sum of all tallies, computed by checked_add.
TotalVotes(p) == p.votes["Yes"] + p.votes["No"] + p.votes["Abstain"]

\* Appends an entry for the new proposal `id` to a per-proposal map.
Extend(map, id, entry) ==
    [i \in 0..id |-> IF i = id THEN entry ELSE map[i]]

QuorumAllowed_Zero(quorum, supply) == quorum <= supply      \* mutant

\* The quorum a new proposal may ask for, given the token's supply: positive,
\* within the supply and not below min_quorum_bps of it.
QuorumAllowed(quorum, supply) ==
    /\ quorum > 0
    /\ quorum <= supply
    /\ min_quorum_bps > 0 =>
          /\ supply * min_quorum_bps <= MaxI128
          /\ quorum >= (supply * min_quorum_bps) \div BpsDenominator

\* mutant: one second early
ProposerAllowed_Early(proposer, balance) ==
    last_proposal_time[proposer] # None =>
        now + 1 >= last_proposal_time[proposer] + proposal_cooldown

\* The proposer's balance and the time since the proposer's last proposal.
ProposerAllowed(proposer, balance) ==
    /\ min_proposal_balance > 0 => balance >= min_proposal_balance
    /\ (proposal_cooldown > 0 /\ last_proposal_time[proposer] # None) =>
          now >= last_proposal_time[proposer] + proposal_cooldown

\* mutant: a tie passes
Outcome_TiePasses(p) ==
    IF TotalVotes(p) >= p.quorum /\ p.votes["Yes"] >= p.votes["No"]
    THEN "Passed" ELSE "Rejected"

\* mutant: below its quorum a proposal waits for more votes
Outcome_Waits(p) ==
    IF TotalVotes(p) < p.quorum THEN "Active"
    ELSE IF p.votes["Yes"] > p.votes["No"] THEN "Passed" ELSE "Rejected"

\* The outcome finalise gives a proposal of Yes/No/Abstain votes.
Outcome(p) ==
    IF TotalVotes(p) >= p.quorum /\ p.votes["Yes"] > p.votes["No"]
    THEN "Passed" ELSE "Rejected"

ReleaseSlot_Leaks == UNCHANGED active_proposal_count        \* mutant

ReleaseSlot_Resets == active_proposal_count' = 0            \* mutant

\* A proposal has left Active: give its slot back.
ReleaseSlot ==
    active_proposal_count' =
        IF active_proposal_count > 0 THEN active_proposal_count - 1
                                     ELSE active_proposal_count

-----------------------------------------------------------------------------
(* Proposals and ballots *)

initialize(a, token, min_balance, cooldown, bps, restrict, treas) ==
    /\ contract_state = "Uninitialized"
    /\ admin' = a
    /\ voting_token' = token
    /\ treasury' = treas
    /\ proposal_count' = 0
    /\ min_proposal_balance' = min_balance
    /\ proposal_cooldown' = cooldown
    /\ min_quorum_bps' = bps
    /\ restrict_admin_vote' = restrict
    /\ paused' = FALSE
    /\ contract_state' = "Ready"
    /\ UNCHANGED <<pending_admin, active_proposal_count, last_proposal_time,
                   ballots, proposals, now, disbursements>>

\* supply and balance are the voting token's answers.
create_proposal(proposer, text, quorum, duration, action, supply, balance) ==
    /\ assert_ready
    /\ text \in ValidText
    /\ MinDuration <= duration /\ duration <= MaxDuration
    /\ active_proposal_count < MaxActive
    /\ QuorumAllowed(quorum, supply)
    /\ ProposerAllowed(proposer, balance)
    /\ proposal_count < MaxProposals     \* bound
    /\ now + duration < MaxTime          \* bound: the end is explored too
    /\ LET id == proposal_count
           p == [ proposer |-> proposer, text |-> text,
                  votes |-> [v \in Vote |-> 0], quorum |-> quorum,
                  start_time |-> now, end_time |-> now + duration,
                  state |-> "Active", snapshot_ledger |-> now,
                  voter_count |-> 0, treasury_action |-> action ]
       IN /\ proposals' = Extend(proposals, id, p)
          /\ has_voted' = Extend(has_voted, id, [a \in Addr |-> FALSE])
          /\ vote_record' = Extend(vote_record, id, [a \in Addr |-> None])
          /\ disbursements' = Extend(disbursements, id, 0)
          /\ proposal_count' = id + 1
    /\ active_proposal_count' = active_proposal_count + 1
    /\ last_proposal_time' = [last_proposal_time EXCEPT ![proposer] = now]
    /\ UNCHANGED <<config, now>>

amend_proposal(proposer, id, text) ==
    /\ assert_ready
    /\ IsActive(id)
    /\ proposals[id].proposer = proposer
    /\ TotalVotes(proposals[id]) = 0
    /\ text \in ValidText
    /\ proposals' = [proposals EXCEPT ![id].text = text]
    /\ UNCHANGED <<config, counters, ballots, now, disbursements>>

OwnProposalOfAdmin(voter, id) ==
    restrict_admin_vote /\ voter = admin /\ proposals[id].proposer = admin

MayVote_Again(voter, id) == ~OwnProposalOfAdmin(voter, id)  \* mutant

MayVote(voter, id) == ~has_voted[id][voter] /\ ~OwnProposalOfAdmin(voter, id)

\* weight and delegated are the token's answers to balance_at(voter, snapshot)
\* and get_delegation(voter).is_some().
cast_vote(voter, id, vote, weight, delegated) ==
    /\ assert_ready
    /\ IsActive(id)
    /\ proposals[id].start_time <= now
    /\ ~VotingOver(proposals[id])
    /\ MayVote(voter, id)
    /\ ~delegated
    /\ weight > 0
    /\ proposals[id].votes[vote] + weight <= MaxI128   \* checked_add
    /\ proposals[id].voter_count < MaxU32              \* overflow-checks
    /\ has_voted' = [has_voted EXCEPT ![id][voter] = TRUE]
    /\ vote_record' = [vote_record EXCEPT
           ![id][voter] = [vote |-> vote, weight |-> weight]]
    /\ LET p == proposals[id]
       IN proposals' = [proposals EXCEPT
              ![id] = [p EXCEPT !.votes[vote] = @ + weight,
                                !.voter_count = @ + 1]]
    /\ UNCHANGED <<config, counters, now, disbursements>>

\* mutant: forgets to ask whether the proposal is still Active
HasLiveVote_AnyState(voter, id) ==
    /\ id \in ProposalIds
    /\ ~VotingOver(proposals[id])
    /\ vote_record[id][voter] # None

\* retract_vote and change_vote share the guard on the earlier ballot.
HasLiveVote(voter, id) ==
    /\ IsActive(id)
    /\ ~VotingOver(proposals[id])
    /\ has_voted[id][voter]
    /\ vote_record[id][voter] # None

retract_vote(voter, id) ==
    /\ assert_ready
    /\ HasLiveVote(voter, id)
    /\ LET p == proposals[id]
           record == vote_record[id][voter]
       IN proposals' = [proposals EXCEPT
              ![id] = [p EXCEPT !.votes[record.vote] = @ - record.weight]]
    /\ has_voted' = [has_voted EXCEPT ![id][voter] = FALSE]
    /\ vote_record' = [vote_record EXCEPT ![id][voter] = None]
    /\ UNCHANGED <<config, counters, now, disbursements>>

change_vote(voter, id, new_vote) ==
    /\ assert_ready
    /\ HasLiveVote(voter, id)
    /\ LET p == proposals[id]
           record == vote_record[id][voter]
       IN /\ record.vote # new_vote
          /\ p.votes[new_vote] + record.weight <= MaxI128
          /\ proposals' = [proposals EXCEPT
                 ![id] = [p EXCEPT !.votes[record.vote] = @ - record.weight,
                                   !.votes[new_vote] = @ + record.weight]]
    /\ vote_record' = [vote_record EXCEPT
           ![id][voter] = [vote |-> new_vote, weight |-> @.weight]]
    /\ UNCHANGED <<config, counters, has_voted, now, disbursements>>

\* Permissionless.
finalise(id) ==
    /\ assert_ready
    /\ IsActive(id)
    /\ VotingOver(proposals[id])
    /\ TotalVotes(proposals[id]) <= MaxI128            \* checked_add
    /\ proposals' = [proposals EXCEPT ![id].state = Outcome(proposals[id])]
    /\ ReleaseSlot
    /\ UNCHANGED <<config, proposal_count, last_proposal_time, ballots,
                   now, disbursements>>

\* mutant: an execution may be repeated
Executable_Again(id) ==
    id \in ProposalIds /\ proposals[id].state \in {"Passed", "Executed"}

Executable(id) == id \in ProposalIds /\ proposals[id].state = "Passed"

\* Not gated by the pause.  A disburse that traps reverts the whole call, so a
\* step is an execution whose disbursement, if one was made, succeeded.
execute(caller, id) ==
    /\ assert_admin(caller)
    /\ Executable(id)
    /\ disbursements' =
          IF proposals[id].treasury_action # None /\ treasury # None
          THEN [disbursements EXCEPT ![id] = @ + 1]
          ELSE disbursements
    /\ proposals' = [proposals EXCEPT ![id].state = "Executed"]
    /\ UNCHANGED <<config, counters, ballots, now>>

cancel(caller, id) ==
    /\ assert_admin(caller)
    /\ IsActive(id)
    /\ proposals' = [proposals EXCEPT ![id].state = "Cancelled"]
    /\ ReleaseSlot
    /\ UNCHANGED <<config, proposal_count, last_proposal_time, ballots,
                   now, disbursements>>

-----------------------------------------------------------------------------
(* Admin operations: none of them looks at the pause *)

update_quorum(caller, id, new_quorum, supply) ==
    /\ assert_admin(caller)
    /\ new_quorum > 0
    /\ new_quorum <= supply
    /\ IsActive(id)
    /\ LET p == proposals[id]
       IN now <= p.start_time + ((p.end_time - p.start_time) \div WindowDivisor)
    /\ proposals' = [proposals EXCEPT ![id].quorum = new_quorum]
    /\ UNCHANGED <<config, counters, ballots, now, disbursements>>

propose_admin(caller, new_admin) ==
    /\ assert_admin(caller)
    /\ new_admin # ZeroAddr
    /\ pending_admin' = new_admin
    /\ UNCHANGED <<contract_state, admin, voting_token, treasury,
                   min_proposal_balance, proposal_cooldown, min_quorum_bps,
                   restrict_admin_vote, paused, counters, ballots, proposals,
                   now, disbursements>>

accept_admin(caller) ==
    /\ pending_admin = caller
    /\ admin' = caller
    /\ pending_admin' = None
    /\ UNCHANGED <<contract_state, voting_token, treasury,
                   min_proposal_balance, proposal_cooldown, min_quorum_bps,
                   restrict_admin_vote, paused, counters, ballots, proposals,
                   now, disbursements>>

cancel_admin_transfer(caller) ==
    /\ assert_admin(caller)
    /\ pending_admin # None
    /\ pending_admin' = None
    /\ UNCHANGED <<contract_state, admin, voting_token, treasury,
                   min_proposal_balance, proposal_cooldown, min_quorum_bps,
                   restrict_admin_vote, paused, counters, ballots, proposals,
                   now, disbursements>>

update_voting_token(caller, new_token) ==
    /\ assert_admin(caller)
    /\ active_proposal_count = 0
    /\ voting_token' = new_token
    /\ UNCHANGED <<contract_state, admin, pending_admin, treasury,
                   min_proposal_balance, proposal_cooldown, min_quorum_bps,
                   restrict_admin_vote, paused, counters, ballots, proposals,
                   now, disbursements>>

\* pause (value = TRUE) and unpause (value = FALSE).
set_paused(caller, value) ==
    /\ assert_admin(caller)
    /\ paused # value
    /\ paused' = value
    /\ UNCHANGED <<contract_state, admin, pending_admin, voting_token,
                   treasury, min_proposal_balance, proposal_cooldown,
                   min_quorum_bps, restrict_admin_vote, counters, ballots,
                   proposals, now, disbursements>>

set_min_proposal_balance(caller, value) ==
    /\ assert_admin(caller)
    /\ value >= 0
    /\ min_proposal_balance' = value
    /\ UNCHANGED <<contract_state, admin, pending_admin, voting_token,
                   treasury, proposal_cooldown, min_quorum_bps,
                   restrict_admin_vote, paused, counters, ballots, proposals,
                   now, disbursements>>

set_proposal_cooldown(caller, value) ==
    /\ assert_admin(caller)
    /\ proposal_cooldown' = value
    /\ UNCHANGED <<contract_state, admin, pending_admin, voting_token,
                   treasury, min_proposal_balance, min_quorum_bps,
                   restrict_admin_vote, paused, counters, ballots, proposals,
                   now, disbursements>>

set_restrict_admin_vote(caller, value) ==
    /\ assert_admin(caller)
    /\ restrict_admin_vote' = value
    /\ UNCHANGED <<contract_state, admin, pending_admin, voting_token,
                   treasury, min_proposal_balance, proposal_cooldown,
                   min_quorum_bps, paused, counters, ballots, proposals,
                   now, disbursements>>

\* A later ledger closes; several transactions may share one close time.
Tick ==
    /\ \E t \in Time : t > now /\ now' = t
    /\ UNCHANGED <<config, counters, ballots, proposals, disbursements>>

-----------------------------------------------------------------------------
(* Specification *)

Initialize ==
    \E a \in Addr, t \in Token, mb \in MinBalances, cd \in Cooldowns,
       bps \in QuorumBps, r \in BOOLEAN, tr \in Treasury \cup {None} :
        initialize(a, t, mb, cd, bps, r, tr)

CreateProposal ==
    \E a \in Addr, x \in Text, q \in Amount, d \in 0..(MaxDuration + 1),
       act \in Action \cup {None}, s \in Answer, b \in Answer :
        create_proposal(a, x, q, d, act, s, b)

AmendProposal ==
    \E a \in Addr, id \in ProposalIds, x \in Text : amend_proposal(a, id, x)

CastVote ==
    \E a \in Addr, id \in ProposalIds, v \in Vote, w \in Answer,
       d \in BOOLEAN : cast_vote(a, id, v, w, d)

RetractVote == \E a \in Addr, id \in ProposalIds : retract_vote(a, id)

ChangeVote ==
    \E a \in Addr, id \in ProposalIds, v \in Vote : change_vote(a, id, v)

Finalise == \E id \in ProposalIds : finalise(id)

Execute == \E a \in Addr, id \in ProposalIds : execute(a, id)

Cancel == \E a \in Addr, id \in ProposalIds : cancel(a, id)

UpdateQuorum ==
    \E a \in Addr, id \in ProposalIds, q \in Amount, s \in Answer :
        update_quorum(a, id, q, s)

AdminTransfer ==
    \E a \in Addr :
        \/ \E b \in Addr \cup {ZeroAddr} : propose_admin(a, b)
        \/ accept_admin(a)
        \/ cancel_admin_transfer(a)

Configure ==
    \E a \in Addr :
        \/ \E t \in Token : update_voting_token(a, t)
        \/ \E b \in BOOLEAN : set_paused(a, b)
        \/ \E v \in MinBalances : set_min_proposal_balance(a, v)
        \/ \E v \in Cooldowns : set_proposal_cooldown(a, v)
        \/ \E b \in BOOLEAN : set_restrict_admin_vote(a, b)

Next ==
    \/ Initialize
    \/ CreateProposal
    \/ AmendProposal
    \/ CastVote
    \/ RetractVote
    \/ ChangeVote
    \/ Finalise
    \/ Execute
    \/ Cancel
    \/ UpdateQuorum
    \/ AdminTransfer
    \/ Configure
    \/ Tick

Spec == Init /\ [][Next]_vars

-----------------------------------------------------------------------------
(* What the ballots say *)

\* The ballots for choice c among `records`, one element per unit of weight: the
\* cardinality of this set is the total weight behind c.
Units(records, c) ==
    { u \in Addr \X (1..MaxI128) :
        /\ records[u[1]] # None
        /\ records[u[1]].vote = c
        /\ u[2] <= records[u[1]].weight }

Weight(id, c) == Cardinality(Units(vote_record[id], c))

ActiveIds == {id \in ProposalIds : proposals[id].state = "Active"}

-----------------------------------------------------------------------------
(* Properties *)

\* The counter that limits create_proposal and guards update_voting_token is
\* the number of proposals that are Active, whatever mix of finalise, cancel
\* and create led here (lib.rs:176-179, 612-615, 666-669, 783-786).
ActiveCountExact == active_proposal_count = Cardinality(ActiveIds)

\* The tallies that cast_vote, retract_vote and change_vote maintain one
\* delta at a time are the weights of the recorded ballots, and the has_voted
\* flag agrees with the presence of a record (lib.rs:430-442, 485-493, 530-546).
TallyExact ==
    \A id \in ProposalIds :
        /\ \A c \in Vote : proposals[id].votes[c] = Weight(id, c)
        /\ \A a \in Addr : has_voted[id][a] <=> vote_record[id][a] # None

\* A decision is what the recorded ballots say, for good: a Passed or Executed
\* proposal has more Yes than No and reached its quorum, a Rejected one does
\* not (finalise, lib.rs:607-608).
DecisionMatchesBallots ==
    \A id \in ProposalIds :
        LET p == proposals[id]
            carried == /\ Weight(id, "Yes") > Weight(id, "No")
                       /\ Weight(id, "Yes") + Weight(id, "No")
                            + Weight(id, "Abstain") >= p.quorum
        IN /\ p.state \in {"Passed", "Executed"} => carried
           /\ p.state = "Rejected" => ~carried

\* A payload is disbursed at most once, and only for an Executed proposal
\* (execute, lib.rs:621-644).
DisbursedOnce ==
    \A id \in ProposalIds :
        /\ disbursements[id] <= 1
        /\ disbursements[id] = 1 =>
              /\ proposals[id].state = "Executed"
              /\ proposals[id].treasury_action # None

\* What a step may do to one proposal: an Active one ends by finalise after
\* its end time or by cancel, a Passed one may only become Executed, and once
\* a proposal has left Active its ballots, tallies, quorum and text are frozen.
LifecycleStep(id) ==
    LET p == proposals[id]
        q == proposals'[id]
    IN /\ <<p.state, q.state>> \in
             {<<s, s>> : s \in ProposalState}
               \cup {<<"Active", "Passed">>, <<"Active", "Rejected">>,
                     <<"Active", "Cancelled">>, <<"Passed", "Executed">>}
       /\ (q.state # p.state /\ q.state \in {"Passed", "Rejected"}) =>
             now > p.end_time
       /\ p.state # "Active" =>
             /\ q = [p EXCEPT !.state = q.state]
             /\ vote_record'[id] = vote_record[id]
             /\ has_voted'[id] = has_voted[id]

\* No step leaves the lifecycle of docs/lifecycle.md or touches a decided
\* proposal (finalise's "No state corruption is possible", lib.rs:562).
LifecycleRespected == [][\A id \in ProposalIds : LifecycleStep(id)]_vars

\* Voters never see the text change under a recorded ballot: amend_proposal
\* tests the tallies, not the ballots (lib.rs:327-334).
TextFixedUnderBallots ==
    [][\A id \in ProposalIds :
          (\E a \in Addr : vote_record[id][a] # None) =>
              proposals'[id].text = proposals[id].text]_vars

\* All ballots of a proposal weigh the same token: voting_token does not
\* change while a proposal is Active (update_voting_token, lib.rs:783-786).
TokenFixedWhileActive ==
    [][voting_token' # voting_token => ActiveIds = {}]_vars

\* A proposer's proposals are at least the current cooldown apart, all of
\* them and not only the last two (lib.rs:212-220).
CooldownHonoured ==
    [][proposal_count' > proposal_count =>
          \A id \in ProposalIds :
             proposals[id].proposer = proposals'[proposal_count].proposer =>
                 now >= proposals[id].start_time + proposal_cooldown]_vars

\* The poll behind a proposal: tallies, flags and counters are left out, and
\* the ballots are the records.
Poll(id) ==
    [ wording |-> proposals[id].text, quorum |-> proposals[id].quorum,
      end |-> proposals[id].end_time, ballots |-> vote_record[id],
      state |-> proposals[id].state, paid |-> disbursements[id] ]
Polls == [id \in ProposalIds |-> Poll(id)]

Box == INSTANCE BallotBox WITH
    Voter <- Addr, Wording <- ValidText, Currency <- Token, None <- None,
    MaxWeight <- MaxI128, MaxOpen <- MaxActive, MaxClock <- MaxTime,
    polls <- Polls, currency <- voting_token, clock <- now

\* Every step of the contract is a step of the ballot box or none: verdicts
\* computed from increments are those of the ballots, the wording is settled
\* by the first ballot, and the currency changes only between polls
\* (lib.rs:176-179, 327-334, 395-546, 571-615, 783-786).
BallotBoxImplemented == Box!BoxSpec
=============================================================================
