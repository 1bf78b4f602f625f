-------------------------- MODULE CosmosVoteProofs --------------------------
(***************************************************************************)
(* The composition implements the specifications of its contracts, so that *)
(* their theorems hold of it, and pays only for executed proposals.        *)
(***************************************************************************)
EXTENDS CosmosVote, GovernanceProofs

\* The token's theorems, about the token of the composition.
P == INSTANCE TokenProofs WITH Account <- Addr \cup Treasury

-----------------------------------------------------------------------------
(* T and P are the same token *)

\* The token's assumptions hold of the composition's addresses and amounts.
LEMMA TokenAssumptions == P!TokenBounds /\ P!TokenSets
<1>1. P!Amount = Amount /\ P!Ledger = Time
    BY DEF P!Amount, P!Ledger, Amount, Time
<1>2. P!TokenBounds
    BY <1>1, BoundsAssumption, TokenAssumption
    DEF P!TokenBounds, P!I128, P!MinI128, Answer
<1>3. IsFiniteSet(Addr \cup Treasury)
    BY FS_Union, SetsAssumption, TokenAssumption
<1>4. P!IsFiniteSet(Addr \cup Treasury)
    BY <1>3 DEF P!IsFiniteSet, IsFiniteSet
<1>5. P!Allowance = T!Allowance
    BY DEF P!Allowance, T!Allowance, P!Amount, T!Amount, P!Ledger, T!Ledger
<1>6. P!TokenSets
    BY <1>4, <1>5, NoneAssumption, TokenAssumption DEF P!TokenSets
<1>7. QED
    BY <1>2, <1>6

\* The two instances name the same state and steps.
LEMMA SameToken ==
    /\ T!TokenInit = P!TokenInit
    /\ T!TokenNext = P!TokenNext
    /\ T!token_vars = P!token_vars
<1>1. T!TokenInit = P!TokenInit
    BY DEF T!TokenInit, P!TokenInit
<1>2. T!TokenNext = P!TokenNext
    BY
    DEF T!TokenNext, P!TokenNext, T!Transfers, P!Transfers,
        T!SupplyChanges, P!SupplyChanges, T!Delegations, P!Delegations,
        T!TokenAdmin, P!TokenAdmin, T!Eviction, P!Eviction,
        T!CloseLedger, P!CloseLedger, T!transfer, P!transfer,
        T!transfer_from, P!transfer_from, T!approve, P!approve, T!mint,
        P!mint, T!burn, P!burn, T!burn_self, P!burn_self, T!Destroy,
        P!Destroy, T!delegate, P!delegate, T!undelegate, P!undelegate,
        T!initialize, P!initialize, T!propose_admin, P!propose_admin,
        T!accept_admin, P!accept_admin, T!set_paused, P!set_paused,
        T!EvictAllowance, P!EvictAllowance, T!Move, P!Move, T!Spend,
        P!Spend, T!Covers, P!Covers, T!Fits, P!Fits, T!validate_amount,
        P!validate_amount, T!assert_admin, P!assert_admin,
        T!assert_not_paused, P!assert_not_paused, T!allowance_record,
        P!allowance_record, T!Amount, P!Amount, T!Ledger, P!Ledger,
        T!I128, P!I128, T!MinI128, P!MinI128,
        T!token_vars, P!token_vars, T!token_config, P!token_config
<1>3. T!token_vars = P!token_vars
    BY DEF T!token_vars, P!token_vars, T!token_config, P!token_config
<1>4. QED
    BY <1>1, <1>2, <1>3

\* The joint invariant: each contract's answers are well typed because of its
\* own invariant, which the other's steps must not disturb.
JointInv == GInv /\ P!TInv

\* What the invariants say of the values the contracts exchange.
LEMMA ExchangedTypes ==
    ASSUME JointInv
    PROVE  /\ total_supply \in Answer
           /\ \A a \in Addr \cup Treasury : balance[a] \in Answer
           /\ treasury # None => treasury \in Treasury
           /\ \A id \in ProposalIds :
                 proposals[id].treasury_action # None =>
                     /\ proposals[id].treasury_action.recipient \in Addr
                     /\ proposals[id].treasury_action.amount \in Amount
<1>1. P!I128 = Answer
    BY DEF P!I128, P!MinI128, Answer
<1>2. total_supply \in Answer /\ balance \in [Addr \cup Treasury -> Answer]
    BY <1>1 DEF JointInv, P!TInv, P!TokenTypeOK
<1>3. treasury # None => treasury \in Treasury
    BY DEF JointInv, GInv, TypeOK
<1>4. ASSUME NEW id \in ProposalIds, proposals[id].treasury_action # None
      PROVE  /\ proposals[id].treasury_action.recipient \in Addr
             /\ proposals[id].treasury_action.amount \in Amount
  <2>1. proposals[id].treasury_action \in Action
      BY <1>4 DEF JointInv, GInv, TypeOK, Proposal
  <2>2. QED
      BY <2>1, ActionAssumption
<1>5. QED
    BY <1>2, <1>3, <1>4

-----------------------------------------------------------------------------
(* Steps *)

\* The steps of the governance contract that edit one Active proposal.
Edits ==
    \/ AmendProposal \/ UpdateQuorum \/ CastVote \/ RetractVote \/ ChangeVote
    \/ Finalise \/ Cancel

\* All its steps but execute, and none at all.
NonExecute ==
    \/ Edits \/ CreateProposal \/ Initialize \/ AdminTransfer \/ Configure
    \/ Tick \/ UNCHANGED vars

\* What a step of the composition is to the governance contract.
LEMMA ContractStep ==
    ASSUME JointInv, [CosmosNext]_all_vars
    PROVE  GovExecute \/ NonExecute
<1>1. CASE GovCreateProposal
  <2>1. PICK a \in Addr, x \in Text, q \in Amount, d \in 0..(MaxDuration + 1),
             act \in Action \cup {None} :
                create_proposal(a, x, q, d, act, total_supply, balance[a])
      BY <1>1 DEF GovCreateProposal
  <2>2. total_supply \in Answer /\ balance[a] \in Answer
      BY ExchangedTypes
  <2>3. CreateProposal
      BY <2>1, <2>2 DEF CreateProposal
  <2>4. QED
      BY <2>3 DEF NonExecute
<1>2. CASE GovCastVote
  <2>1. PICK a \in Addr, id \in ProposalIds, v \in Vote :
            cast_vote(a, id, v, balance[a], delegation[a] # None)
      BY <1>2 DEF GovCastVote, T!balance_at
  <2>2. balance[a] \in Answer /\ (delegation[a] # None) \in BOOLEAN
      BY ExchangedTypes
  <2>3. CastVote
      BY <2>1, <2>2 DEF CastVote
  <2>4. QED
      BY <2>3 DEF NonExecute, Edits
<1>3. CASE GovUpdateQuorum
  <2>1. UpdateQuorum
      BY <1>3, ExchangedTypes DEF GovUpdateQuorum, UpdateQuorum
  <2>2. QED
      BY <2>1 DEF NonExecute, Edits
<1>4. CASE GovOther
    BY <1>4 DEF GovOther, NonExecute, Edits
<1>5. CASE TokenCall \/ TreasuryCall \/ UNCHANGED all_vars
    BY <1>5 DEF TokenCall, TreasuryCall, all_vars, NonExecute
<1>6. QED
    BY <1>1, <1>2, <1>3, <1>4, <1>5 DEF CosmosNext

\* Every step of the composition is one of the governance contract, or leaves
\* its state alone.
LEMMA GovernanceStep ==
    ASSUME JointInv, [CosmosNext]_all_vars
    PROVE  [Next]_vars
<1>1. CASE GovExecute
    BY <1>1 DEF GovExecute, Execute, Next
<1>2. CASE NonExecute
    BY <1>2 DEF NonExecute, Edits, Next
<1>3. QED
    BY <1>1, <1>2, ContractStep

\* A payment is a transfer out of the treasury.
LEMMA DisburseIsTransfer ==
    ASSUME NEW t \in Treasury, NEW signers, NEW action,
           action.recipient \in Addr, action.amount \in Amount,
           disburse(t, signers, action)
    PROVE  T!TokenNext
<1>1. action.recipient \in Addr \cup Treasury /\ t \in Addr \cup Treasury
    OBVIOUS
<1>2. action.amount \in T!Amount
    BY DEF T!Amount, Amount
<1>3. T!transfer(t, action.recipient, action.amount)
    BY DEF disburse
<1>4. T!Transfers
    BY <1>1, <1>2, <1>3 DEF T!Transfers
<1>5. QED
    BY <1>4 DEF T!TokenNext

\* The governance calls that pay nobody leave the token's state alone.
LEMMA TokenIdle ==
    ASSUME TokenUntouched
    PROVE  UNCHANGED T!token_vars
BY DEF TokenUntouched, token_state, T!token_vars, T!token_config

\* Only the closing of a ledger moves the clock.
LEMMA ClockStands ==
    ASSUME \/ Initialize \/ CreateProposal \/ AmendProposal \/ CastVote
           \/ RetractVote \/ ChangeVote \/ Finalise \/ Execute \/ Cancel
           \/ UpdateQuorum \/ AdminTransfer \/ Configure
    PROVE  now' = now
<1>1. CASE Initialize \/ CreateProposal \/ AmendProposal
  <2>1. CASE Initialize
      BY <2>1 DEF Initialize, initialize
  <2>2. CASE CreateProposal
      BY <2>2 DEF CreateProposal, create_proposal
  <2>3. CASE AmendProposal
      BY <2>3 DEF AmendProposal, amend_proposal
  <2>4. QED
      BY <1>1, <2>1, <2>2, <2>3
<1>2. CASE CastVote \/ RetractVote \/ ChangeVote
  <2>1. CASE CastVote
      BY <2>1 DEF CastVote, cast_vote
  <2>2. CASE RetractVote
      BY <2>2 DEF RetractVote, retract_vote
  <2>3. CASE ChangeVote
      BY <2>3 DEF ChangeVote, change_vote
  <2>4. QED
      BY <1>2, <2>1, <2>2, <2>3
<1>3. CASE Finalise \/ Execute \/ Cancel \/ UpdateQuorum
    BY <1>3 DEF Finalise, finalise, Execute, execute, Cancel, cancel,
                UpdateQuorum, update_quorum
<1>4. CASE AdminTransfer
    BY <1>4 DEF AdminTransfer, propose_admin, accept_admin,
                cancel_admin_transfer
<1>5. CASE Configure
    BY <1>5 DEF Configure, update_voting_token, set_paused,
                set_min_proposal_balance, set_proposal_cooldown,
                set_restrict_admin_vote
<1>6. QED
    BY <1>1, <1>2, <1>3, <1>4, <1>5

\* What users ask of the token are calls of its specification.
LEMMA TokenCallStep ==
    ASSUME TokenCall
    PROVE  T!TokenNext
<1>1. T!Amount = Amount /\ T!Ledger = Time
    BY DEF T!Amount, T!Ledger, Amount, Time
<1>2. ASSUME NEW a \in Addr, NEW b \in Addr \cup Treasury, NEW n \in Amount,
             \/ T!transfer(a, b, n)
             \/ T!mint(a, b, n)
             \/ T!burn(a, b, n)
             \/ \E o \in Addr : T!transfer_from(a, o, b, n)
             \/ \E t \in Time : T!approve(a, b, n, t)
      PROVE  T!TokenNext
  <2>1. T!Transfers \/ T!SupplyChanges
      BY <1>1, <1>2 DEF T!Transfers, T!SupplyChanges
  <2>2. QED
      BY <2>1 DEF T!TokenNext
<1>3. ASSUME NEW a \in Addr, NEW n \in Amount, T!burn_self(a, n)
      PROVE  T!TokenNext
    BY <1>1, <1>3 DEF T!TokenNext, T!SupplyChanges
<1>4. ASSUME NEW a \in Addr, NEW b \in Addr \cup Treasury,
             T!delegate(a, b) \/ T!undelegate(a)
      PROVE  T!TokenNext
    BY <1>4 DEF T!TokenNext, T!Delegations
<1>5. ASSUME NEW a \in Addr,
             \/ \E n \in InitialSupplies : T!initialize(a, n)
             \/ \E b \in BOOLEAN : T!set_paused(a, b)
             \/ \E b \in Addr \cup Treasury : T!propose_admin(a, b)
             \/ T!accept_admin(a)
      PROVE  T!TokenNext
    BY <1>5 DEF T!TokenNext, T!TokenAdmin
<1>6. CASE T!Eviction
    BY <1>6 DEF T!TokenNext
<1>7. QED
    BY <1>2, <1>3, <1>4, <1>5, <1>6 DEF TokenCall

\* Every step of the composition is one of the token contract, or leaves its
\* state alone.
LEMMA TokenContractStep ==
    ASSUME JointInv, [CosmosNext]_all_vars
    PROVE  [T!TokenNext]_<<T!token_vars, now>>
<1>1. CASE GovCreateProposal \/ GovCastVote \/ GovUpdateQuorum
  <2>1. TokenUntouched
      BY <1>1 DEF GovCreateProposal, GovCastVote, GovUpdateQuorum
  <2>2. now' = now
      BY <1>1 DEF GovCreateProposal, GovCastVote, GovUpdateQuorum,
                  create_proposal, cast_vote, update_quorum
  <2>3. QED
      BY <2>1, <2>2, TokenIdle
<1>2. CASE GovExecute
  <2>1. PICK a \in Addr, id \in ProposalIds :
           /\ execute(a, id)
           /\ IF proposals[id].treasury_action # None /\ treasury # None
              THEN disburse(treasury, {GovContract, a},
                            proposals[id].treasury_action)
              ELSE UNCHANGED token_state
      BY <1>2 DEF GovExecute
  <2>2. CASE proposals[id].treasury_action # None /\ treasury # None
      BY <2>1, <2>2, ExchangedTypes, DisburseIsTransfer
  <2>3. CASE ~(proposals[id].treasury_action # None /\ treasury # None)
    <3>1. UNCHANGED T!token_vars
        BY <2>1, <2>3 DEF token_state, T!token_vars, T!token_config
    <3>2. now' = now
        BY <2>1 DEF execute
    <3>3. QED
        BY <3>1, <3>2
  <2>4. QED
      BY <2>2, <2>3
<1>3. CASE GovOther
  <2>1. UNCHANGED T!token_vars
      BY <1>3, TokenIdle DEF GovOther
  <2>2. CASE Tick
    <3>1. T!CloseLedger
        BY <2>1, <2>2 DEF Tick, T!CloseLedger, T!Ledger, Time
    <3>2. QED
        BY <3>1 DEF T!TokenNext
  <2>3. CASE ~Tick
    <3>1. now' = now
        BY <1>3, <2>3, ClockStands DEF GovOther
    <3>2. QED
        BY <2>1, <3>1
  <2>4. QED
      BY <2>2, <2>3
<1>4. CASE TokenCall
    BY <1>4, TokenCallStep
<1>5. CASE TreasuryCall
  <2>1. PICK t \in Treasury, a \in Addr :
           \/ UNCHANGED token_state
           \/ \E action \in Action : disburse(t, {a}, action)
      BY <1>5 DEF TreasuryCall
  <2>2. CASE UNCHANGED token_state
    <3>1. UNCHANGED T!token_vars
        BY <2>2 DEF token_state, T!token_vars, T!token_config
    <3>2. now' = now
        BY <1>5 DEF TreasuryCall, vars
    <3>3. QED
        BY <3>1, <3>2
  <2>3. CASE \E action \in Action : disburse(t, {a}, action)
    <3>1. PICK action \in Action : disburse(t, {a}, action)
        BY <2>3
    <3>2. action.recipient \in Addr /\ action.amount \in Amount
        BY ActionAssumption
    <3>3. QED
        BY <3>1, <3>2, DisburseIsTransfer
  <2>4. QED
      BY <2>1, <2>2, <2>3
<1>6. CASE UNCHANGED all_vars
    BY <1>6 DEF all_vars, vars, token_state, T!token_vars, T!token_config
<1>7. QED
    BY <1>1, <1>2, <1>3, <1>4, <1>5, <1>6 DEF CosmosNext

\* Both contracts' steps preserve the joint invariant.
LEMMA NextJointInv ==
    ASSUME JointInv, [CosmosNext]_all_vars
    PROVE  JointInv'
<1>1. GInv'
    BY GovernanceStep, NextGInv DEF JointInv
<1>2. [P!TokenNext]_<<P!token_vars, now>>
  <2>1. [T!TokenNext]_<<T!token_vars, now>>
      BY TokenContractStep
  <2>2. T!token_vars' = T!token_vars => P!token_vars' = P!token_vars
      BY DEF T!token_vars, P!token_vars, T!token_config, P!token_config
  <2>3. QED
      BY <2>1, <2>2, SameToken
<1>3. P!TInv'
    BY <1>2, TokenAssumptions, P!NextTInv
    DEF JointInv, P!TokenBounds, P!TokenSets
<1>4. QED
    BY <1>1, <1>3 DEF JointInv

\* The joint invariant holds throughout.
LEMMA JointInvariant == CosmosSpec => []JointInv
<1>1. CosmosInit => JointInv
  <2> SUFFICES ASSUME CosmosInit PROVE JointInv
      OBVIOUS
  <2>1. GInv
      BY InitGInv DEF CosmosInit
  <2>2. P!TokenInit
      BY SameToken DEF CosmosInit
  <2>3. P!TInv
      BY <2>2, TokenAssumptions, P!InitTInv DEF P!TokenBounds, P!TokenSets
  <2>4. QED
      BY <2>1, <2>3 DEF JointInv
<1>2. QED
    BY <1>1, NextJointInv, PTL DEF CosmosSpec

-----------------------------------------------------------------------------
(* What leaves a treasury *)

\* Balances stay numbers.
LEMMA NextBalance ==
    ASSUME JointInv, CosmosNext, NEW t \in Treasury
    PROVE  balance'[t] \in Int
<1>1. JointInv'
    BY NextJointInv
<1>2. balance' \in [Addr \cup Treasury -> Answer]
    BY <1>1 DEF JointInv, P!TInv, P!TokenTypeOK, P!I128, P!MinI128, Answer
<1>3. QED
    BY <1>2, BoundsAssumption DEF Answer

\* The debit of a transfer between different accounts is its amount, and no
\* third account loses anything.
LEMMA TransferDebit ==
    ASSUME JointInv, NEW from \in Addr \cup Treasury,
           NEW to \in Addr \cup Treasury, NEW n \in Amount, from # to,
           T!Move(from, to, n)
    PROVE  /\ balance'[from] = balance[from] - n
           /\ \A x \in Addr \cup Treasury : x # from => balance'[x] >= balance[x]
<1>1. balance \in [Addr \cup Treasury -> Answer]
    BY DEF JointInv, P!TInv, P!TokenTypeOK, P!I128, P!MinI128, Answer
<1>2. \A x \in Addr \cup Treasury : balance[x] \in Int
    BY <1>1, BoundsAssumption DEF Answer
<1>3. n \in Nat
    BY BoundsAssumption DEF Amount
<1> DEFINE debited == [balance EXCEPT ![from] = @ - n]
<1>4. balance' = [debited EXCEPT ![to] = @ + n]
    BY DEF T!Move
<1>5. /\ debited \in [Addr \cup Treasury -> Int]
      /\ debited[from] = balance[from] - n
      /\ \A x \in Addr \cup Treasury : x # from => debited[x] = balance[x]
    BY <1>1, <1>2, <1>3
<1> HIDE DEF debited
<1>6. balance'[from] = debited[from]
    BY <1>4, <1>5
<1>7. \A x \in Addr \cup Treasury :
         balance'[x] = debited[x] \/ balance'[x] = debited[x] + n
    BY <1>4, <1>5
<1>8. QED
    BY <1>2, <1>3, <1>5, <1>6, <1>7

\* A payment takes its amount from its treasury and nothing from another.
LEMMA DisburseDebit ==
    ASSUME JointInv, NEW t \in Treasury, NEW signers, NEW action,
           action.recipient \in Addr, action.amount \in Amount,
           disburse(t, signers, action)
    PROVE  /\ balance'[t] = balance[t] - action.amount
           /\ \A x \in Treasury : x # t => balance'[x] >= balance[x]
<1>1. t # action.recipient
    BY AddressAssumption
<1>2. T!Move(t, action.recipient, action.amount)
    BY <1>1 DEF disburse, T!transfer
<1>3. QED
    BY <1>1, <1>2, TransferDebit

\* Users' calls on the token take nothing from a treasury, unless they burn.
LEMMA TokenCallDebit ==
    ASSUME JointInv, TokenCall, NEW t \in Treasury, balance'[t] < balance[t]
    PROVE  total_supply' < total_supply
<1>0. /\ balance \in [Addr \cup Treasury -> Answer]
      /\ balance[t] \in Int /\ total_supply \in Int
    BY BoundsAssumption
    DEF JointInv, P!TInv, P!TokenTypeOK, P!I128, P!MinI128, Answer
<1>1. ASSUME NEW a \in Addr, NEW b \in Addr \cup Treasury, NEW n \in Amount,
             T!transfer(a, b, n)
      PROVE  FALSE
  <2>1. a # t
      BY AddressAssumption
  <2>2. CASE a = b
      BY <1>0, <1>1, <2>2 DEF T!transfer
  <2>3. CASE a # b
    <3>1. balance'[t] >= balance[t]
        BY <1>1, <2>1, <2>3, TransferDebit DEF T!transfer
    <3>2. balance'[t] \in Int
        BY <1>0, <1>1, <2>3, BoundsAssumption DEF T!transfer, T!Move, Amount, Answer
    <3>3. QED
        BY <1>0, <3>1, <3>2
  <2>4. QED
      BY <2>2, <2>3
<1>2. ASSUME NEW a \in Addr, NEW o \in Addr, NEW b \in Addr \cup Treasury,
             NEW n \in Amount, T!transfer_from(a, o, b, n)
      PROVE  FALSE
  <2>1. o # t /\ T!Move(o, b, n)
      BY <1>2, AddressAssumption DEF T!transfer_from
  <2>2. CASE o = b
      BY <1>0, <2>1, <2>2 DEF T!Move
  <2>3. CASE o # b
    <3>1. balance'[t] >= balance[t]
        BY <2>1, <2>3, TransferDebit
    <3>2. balance'[t] \in Int
        BY <1>0, <2>1, BoundsAssumption DEF T!Move, Amount, Answer
    <3>3. QED
        BY <1>0, <3>1, <3>2
  <2>4. QED
      BY <2>2, <2>3
<1>3. ASSUME NEW a \in Addr, NEW b \in Addr \cup Treasury, NEW n \in Amount,
             T!mint(a, b, n)
      PROVE  FALSE
  <2>1. n \in Nat
      BY BoundsAssumption DEF Amount
  <2>2. QED
      BY <1>0, <1>3, <2>1 DEF T!mint
<1>4. ASSUME NEW b \in Addr \cup Treasury, NEW n \in Amount, T!Destroy(b, n)
      PROVE  total_supply' < total_supply
  <2>1. n \in Nat
      BY BoundsAssumption DEF Amount
  <2>2. QED
      BY <1>0, <1>4, <2>1 DEF T!Destroy, T!validate_amount
<1>5. ASSUME NEW a \in Addr, NEW n \in InitialSupplies, T!initialize(a, n)
      PROVE  FALSE
  <2>1. a # t
      BY AddressAssumption
  <2>2. QED
      BY <1>0, <1>5, <2>1 DEF T!initialize
<1>6. balance' # balance
    BY <1>0
<1>7. ASSUME NEW a \in Addr, NEW b \in Addr \cup Treasury,
             \/ \E n \in Amount, u \in Time : T!approve(a, b, n, u)
             \/ T!delegate(a, b) \/ T!undelegate(a)
             \/ \E v \in BOOLEAN : T!set_paused(a, v)
             \/ T!propose_admin(a, b) \/ T!accept_admin(a)
      PROVE  FALSE
    BY <1>6, <1>7 DEF T!approve, T!delegate, T!undelegate, T!set_paused,
                      T!propose_admin, T!accept_admin
<1>8. ~T!Eviction
    BY <1>6 DEF T!Eviction, T!EvictAllowance
<1>9. QED
    BY <1>1, <1>2, <1>3, <1>4, <1>5, <1>7, <1>8
    DEF TokenCall, T!burn, T!burn_self

\* The payment of one step, if any.
PaidFor(t) ==
    \/ total_supply' < total_supply
    \/ \E id \in ProposalIds :
          /\ proposals[id].state = "Passed"
          /\ proposals'[id].state = "Executed"
          /\ treasury = t
          /\ proposals[id].treasury_action.amount = balance[t] - balance'[t]

\* Whatever step takes tokens from a treasury bound to governance pays for an
\* executed proposal or burns them.
LEMMA TreasuryStep ==
    ASSUME JointInv, CosmosNext, NEW t \in Treasury,
           treasury_governance[t] = GovContract, balance'[t] < balance[t]
    PROVE  PaidFor(t)
<1>0. balance[t] \in Int
    BY ExchangedTypes, BoundsAssumption DEF Answer
<1>1. balance' # balance
    BY <1>0
<1>2. CASE \/ GovCreateProposal \/ GovCastVote \/ GovUpdateQuorum \/ GovOther
    BY <1>1, <1>2 DEF GovCreateProposal, GovCastVote, GovUpdateQuorum, GovOther,
                      TokenUntouched, token_state
<1>3. CASE TokenCall
    BY <1>3, TokenCallDebit DEF PaidFor
<1>4. CASE GovExecute
  <2>1. PICK a \in Addr, id \in ProposalIds :
           /\ execute(a, id)
           /\ IF proposals[id].treasury_action # None /\ treasury # None
              THEN disburse(treasury, {GovContract, a},
                            proposals[id].treasury_action)
              ELSE UNCHANGED token_state
      BY <1>4 DEF GovExecute
  <2> DEFINE pay == proposals[id].treasury_action
  <2>2. pay # None /\ treasury # None
      BY <1>1, <2>1 DEF token_state
  <2>3. /\ treasury \in Treasury /\ pay.recipient \in Addr
        /\ pay.amount \in Amount
      BY <2>2, ExchangedTypes
  <2>4. /\ balance'[treasury] = balance[treasury] - pay.amount
        /\ \A x \in Treasury : x # treasury => balance'[x] >= balance[x]
      BY <2>1, <2>2, <2>3, DisburseDebit
  <2>5. treasury = t
    <3>1. SUFFICES ASSUME treasury # t PROVE FALSE
        OBVIOUS
    <3>2. balance'[t] >= balance[t]
        BY <2>4, <3>1
    <3>3. balance'[t] \in Int
        BY NextBalance
    <3>4. QED
        BY <1>0, <3>2, <3>3
  <2>6. proposals[id].state = "Passed" /\ proposals'[id].state = "Executed"
      BY <2>1 DEF execute, Executable, JointInv, GInv, TypeOK, Proposal
  <2>7. pay.amount \in Int
      BY <2>3, BoundsAssumption DEF Amount
  <2>8. pay.amount = balance[t] - balance'[t]
      BY <1>0, <2>4, <2>5, <2>7
  <2>9. QED
      BY <2>5, <2>6, <2>8 DEF PaidFor
<1>5. CASE TreasuryCall
  <2>1. PICK u \in Treasury, a \in Addr :
           \/ UNCHANGED token_state
           \/ \E action \in Action : disburse(u, {a}, action)
      BY <1>5 DEF TreasuryCall
  <2>2. PICK action \in Action : disburse(u, {a}, action)
      BY <1>1, <2>1 DEF token_state
  <2>3. u # t
      BY <2>2, AddressAssumption DEF disburse
  <2>4. action.recipient \in Addr /\ action.amount \in Amount
      BY ActionAssumption
  <2>5. balance'[t] >= balance[t]
      BY <2>2, <2>3, <2>4, DisburseDebit
  <2>6. balance'[t] \in Int
      BY NextBalance
  <2>7. QED
      BY <1>0, <2>5, <2>6
<1>6. QED
    BY <1>2, <1>3, <1>4, <1>5 DEF CosmosNext

-----------------------------------------------------------------------------
(* What an execution pays *)

\* Only execute makes a proposal Executed.
LEMMA OnlyExecuteExecutes ==
    ASSUME GInv, NonExecute, NEW id \in ProposalIds,
           proposals[id].state # "Executed"
    PROVE  proposals'[id].state # "Executed"
<1> USE DEF GInv
<1>1. CASE proposals[id].state # "Passed"
  <2>1. [Next]_vars
      BY DEF NonExecute, Edits, Next
  <2>2. LifecycleStep(id)
      BY <2>1, StepLifecycle
  <2>3. QED
      BY <1>1, <2>2 DEF LifecycleStep
<1>2. CASE proposals[id].state = "Passed" /\ Edits
  <2>1. PICK i, q :
           /\ i \in ProposalIds
           /\ IsActive(i)
           /\ proposals' = [proposals EXCEPT ![i] = q]
    <3>1. CASE AmendProposal
      <4>1. PICK a \in Addr, i \in ProposalIds, x \in Text :
               amend_proposal(a, i, x)
          BY <3>1 DEF AmendProposal
      <4>2. QED
          BY <4>1 DEF amend_proposal
    <3>2. CASE UpdateQuorum
      <4>1. PICK a \in Addr, i \in ProposalIds, n \in Amount, u \in Answer :
               update_quorum(a, i, n, u)
          BY <3>2 DEF UpdateQuorum
      <4>2. QED
          BY <4>1 DEF update_quorum
    <3>3. CASE CastVote
      <4>1. PICK a \in Addr, i \in ProposalIds, v \in Vote, w \in Answer,
                 d \in BOOLEAN : cast_vote(a, i, v, w, d)
          BY <3>3 DEF CastVote
      <4>2. QED
          BY <4>1 DEF cast_vote
    <3>4. CASE RetractVote
      <4>1. PICK a \in Addr, i \in ProposalIds : retract_vote(a, i)
          BY <3>4 DEF RetractVote
      <4>2. QED
          BY <4>1 DEF retract_vote, HasLiveVote
    <3>5. CASE ChangeVote
      <4>1. PICK a \in Addr, i \in ProposalIds, v \in Vote :
               change_vote(a, i, v)
          BY <3>5 DEF ChangeVote
      <4>2. QED
          BY <4>1 DEF change_vote, HasLiveVote
    <3>6. CASE Finalise
      <4>1. PICK i \in ProposalIds : finalise(i)
          BY <3>6 DEF Finalise
      <4>2. QED
          BY <4>1 DEF finalise
    <3>7. CASE Cancel
      <4>1. PICK a \in Addr, i \in ProposalIds : cancel(a, i)
          BY <3>7 DEF Cancel
      <4>2. QED
          BY <4>1 DEF cancel
    <3>8. QED
        BY <1>2, <3>1, <3>2, <3>3, <3>4, <3>5, <3>6, <3>7 DEF Edits
  <2>2. i # id
      BY <1>2, <2>1 DEF IsActive
  <2>3. QED
      BY <1>2, <2>1, <2>2 DEF TypeOK
<1>3. CASE proposals[id].state = "Passed" /\ ~Edits
  <2>1. proposals'[id] = proposals[id]
    <3>1. CASE CreateProposal
      <4>1. PICK n, p : n = proposal_count /\ proposals' = Extend(proposals, n, p)
          BY <3>1 DEF CreateProposal, create_proposal
      <4>2. n \in Nat /\ id \in 0..n /\ id # n
          BY <4>1 DEF TypeOK, ProposalIds
      <4>3. QED
          BY <4>1, <4>2 DEF Extend
    <3>2. CASE Initialize
        BY <3>2 DEF Initialize, initialize
    <3>3. CASE AdminTransfer
        BY <3>3 DEF AdminTransfer, propose_admin, accept_admin,
                    cancel_admin_transfer
    <3>4. CASE Configure
        BY <3>4 DEF Configure, update_voting_token, set_paused,
                    set_min_proposal_balance, set_proposal_cooldown,
                    set_restrict_admin_vote
    <3>5. CASE Tick \/ UNCHANGED vars
        BY <3>5 DEF Tick, vars
    <3>6. QED
        BY <1>3, <3>1, <3>2, <3>3, <3>4, <3>5 DEF NonExecute
  <2>2. QED
      BY <1>3, <2>1
<1>4. QED
    BY <1>1, <1>2, <1>3

\* The step in which a proposal becomes Executed settles its payload.
LEMMA ExecutionSettles ==
    ASSUME JointInv, CosmosNext, NEW id \in ProposalIds,
           proposals[id].state # "Executed", proposals'[id].state = "Executed"
    PROVE  SettledWith(proposals[id])
<1>1. GovExecute
    BY ContractStep, OnlyExecuteExecutes DEF JointInv
<1>2. PICK a \in Addr, i \in ProposalIds :
         /\ execute(a, i)
         /\ IF proposals[i].treasury_action # None /\ treasury # None
            THEN disburse(treasury, {GovContract, a},
                          proposals[i].treasury_action)
            ELSE UNCHANGED token_state
    BY <1>1 DEF GovExecute
<1>3. i = id
  <2>1. proposals' = [proposals EXCEPT ![i].state = "Executed"]
      BY <1>2 DEF execute
  <2>2. proposals \in [ProposalIds -> Proposal]
      BY DEF JointInv, GInv, TypeOK
  <2>3. i # id => proposals'[id] = proposals[id]
      BY <2>1, <2>2
  <2>4. QED
      BY <2>3
<1>4. admin = a
    BY <1>2 DEF execute, assert_admin
<1> DEFINE pay == proposals[id].treasury_action
<1>5. CASE pay # None /\ treasury # None
  <2>1. disburse(treasury, {GovContract, a}, pay)
      BY <1>2, <1>3, <1>5
  <2>2. treasury \in Treasury /\ pay.recipient \in Addr
      BY <1>5, ExchangedTypes
  <2>3. treasury # pay.recipient
      BY <2>2, AddressAssumption
  <2>4. T!Move(treasury, pay.recipient, pay.amount)
      BY <2>1, <2>3 DEF disburse, T!transfer
  <2>5. balance' = [[balance EXCEPT ![treasury] = @ - pay.amount]
                       EXCEPT ![pay.recipient] = @ + pay.amount]
      BY <2>4 DEF T!Move
  <2>6. QED
      BY <1>4, <1>5, <2>1, <2>5 DEF SettledWith, disburse
<1>6. CASE ~(pay # None /\ treasury # None)
    BY <1>2, <1>3, <1>6 DEF SettledWith, token_state
<1>7. QED
    BY <1>5, <1>6

-----------------------------------------------------------------------------
(* The theorems *)

\* The composition implements the governance contract's specification: what is
\* proved there for every token holds with this one.
THEOREM GovernanceRefined == CosmosSpec => GovernanceImplemented
<1>1. CosmosInit => Init
    BY DEF CosmosInit
<1>2. QED
    BY <1>1, GovernanceStep, JointInvariant, PTL
    DEF CosmosSpec, GovernanceImplemented, Spec

\* The composition implements the token contract's specification: payments by
\* the treasury are transfers, and no governance call disturbs the ledger.
THEOREM TokenRefined == CosmosSpec => TokenImplemented
<1>1. CosmosInit => T!TokenInit
    BY DEF CosmosInit
<1>2. QED
    BY <1>1, TokenContractStep, JointInvariant, PTL
    DEF CosmosSpec, TokenImplemented, T!TokenSpec

\* A proposal becomes Executed only in the step that pays for it.
THEOREM ContractsRefined == CosmosSpec => ContractsImplemented
<1>1. JointInv /\ [CosmosNext]_all_vars =>
        [\A id \in ProposalIds :
            proposals[id].state # "Executed" /\ proposals'[id].state = "Executed"
                => SettledWith(proposals[id])]_all_vars
    BY ExecutionSettles
<1>2. CosmosSpec => [][\A id \in ProposalIds :
            proposals[id].state # "Executed" /\ proposals'[id].state = "Executed"
                => SettledWith(proposals[id])]_all_vars
    BY <1>1, JointInvariant, PTL DEF CosmosSpec
<1>3. QED
    BY <1>2, GovernanceRefined, TokenRefined, PTL DEF ContractsImplemented

\* So the ballots decide in the composition too, whatever the treasury does in
\* the step that executes a proposal.
THEOREM BallotBoxInComposition == CosmosSpec => BallotBoxImplemented
BY GovernanceRefined, BallotBoxRefined, PTL DEF GovernanceImplemented

\* And the token keeps its promises when governance pays through the treasury:
\* the supply is the sum of all balances, the treasury's included, and no
\* spender draws more than was approved.
THEOREM LedgerInComposition ==
    CosmosSpec => [](P!SupplyExact /\ P!AllowanceHonoured)
<1>1. TokenImplemented => P!TokenSpec
  <2>1. T!TokenInit => P!TokenInit
      BY SameToken
  <2>2. [T!TokenNext]_<<T!token_vars, now>> => [P!TokenNext]_<<P!token_vars, now>>
    <3>1. (UNCHANGED T!token_vars) <=> UNCHANGED P!token_vars
        BY DEF T!token_vars, P!token_vars, T!token_config, P!token_config
    <3>2. T!TokenNext => P!TokenNext
        BY SameToken
    <3>3. QED
        BY <3>1, <3>2
  <2>3. QED
      BY <2>1, <2>2, PTL DEF TokenImplemented, T!TokenSpec, P!TokenSpec
<1>2. P!TokenSpec => []P!SupplyExact
    BY TokenAssumptions, P!SupplyCorrect
<1>3. P!TokenSpec => []P!AllowanceHonoured
    BY TokenAssumptions, P!AllowanceCorrect
<1>4. QED
    BY <1>1, <1>2, <1>3, TokenRefined, PTL

\* Tokens leave a treasury bound to governance only for an executed proposal, in
\* the amount of its payload, or by an admin's burn.
THEOREM TreasuryCorrect == CosmosSpec => TreasuryPaysExecutedProposals
<1>1. JointInv /\ [CosmosNext]_all_vars =>
        [\A t \in Treasury :
            (treasury_governance[t] = GovContract /\ balance'[t] < balance[t])
               => PaidFor(t)]_all_vars
    BY TreasuryStep
<1>2. QED
    BY <1>1, JointInvariant, PTL
    DEF CosmosSpec, TreasuryPaysExecutedProposals, PaidFor

\* No payload is paid twice in the composition either.
THEOREM PaidOnce == CosmosSpec => []DisbursedOnce
BY GovernanceRefined, DisbursementCorrect, PTL DEF GovernanceImplemented
=============================================================================
