--------------------------- MODULE GovernanceProofs ---------------------------
(***************************************************************************)
(* Theorems about the governance contract, for every set of accounts, every*)
(* bound and whatever the voting token answers.                            *)
(***************************************************************************)
EXTENDS Governance, FiniteSetTheorems, TLAPS

-----------------------------------------------------------------------------
(* The weight behind a choice *)

Records == [Addr -> VoteRecord \cup {None}]

\* The units behind a choice are finitely many.
LEMMA UnitsFinite ==
    ASSUME NEW r, NEW c
    PROVE  /\ IsFiniteSet(Units(r, c))
           /\ Cardinality(Units(r, c)) \in Nat
<1>1. IsFiniteSet(1..MaxI128)
    BY FS_Interval, BoundsAssumption
<1>2. IsFiniteSet(Addr \X (1..MaxI128))
    BY <1>1, FS_Product, SetsAssumption
<1>3. Units(r, c) \subseteq Addr \X (1..MaxI128)
    BY DEF Units
<1>4. QED
    BY <1>2, <1>3, FS_Subset, FS_CardinalityType

\* The units of one ballot are as many as its weight.
LEMMA IntervalCard ==
    ASSUME NEW n \in Nat
    PROVE  IsFiniteSet(1..n) /\ Cardinality(1..n) = n
<1>1. /\ IsFiniteSet(1..n)
      /\ Cardinality(1..n) = IF 1 > n THEN 0 ELSE n - 1 + 1
    BY FS_Interval
<1>2. QED
    BY <1>1

\* Cardinalities of disjoint finite sets add up.
LEMMA DisjointUnion ==
    ASSUME NEW S, IsFiniteSet(S), NEW R, IsFiniteSet(R), S \cap R = {}
    PROVE  Cardinality(S \cup R) = Cardinality(S) + Cardinality(R)
<1>1. Cardinality(S \cup R)
         = Cardinality(S) + Cardinality(R) - Cardinality(S \cap R)
    BY FS_Union
<1>2. Cardinality(S) \in Nat /\ Cardinality(R) \in Nat
    BY FS_CardinalityType
<1>3. Cardinality(S \cap R) = 0
    BY FS_EmptySet
<1>4. QED
    BY <1>1, <1>2, <1>3

\* A new ballot adds its weight to its own choice and to no other.
LEMMA AddBallot ==
    ASSUME NEW r \in Records, NEW a \in Addr, r[a] = None,
           NEW b \in VoteRecord, NEW c \in Vote
    PROVE  Cardinality(Units([r EXCEPT ![a] = b], c))
              = Cardinality(Units(r, c)) + (IF c = b.vote THEN b.weight ELSE 0)
<1> DEFINE s == [r EXCEPT ![a] = b]
           new == {a} \X (1..b.weight)
<1>0. /\ b.weight \in Nat /\ b.weight <= MaxI128 /\ MaxI128 \in Nat
      /\ b # None
    BY BoundsAssumption, NoneAssumption DEF VoteRecord, Amount
<1>1. /\ s[a] = b
      /\ \A x \in Addr : x # a => s[x] = r[x]
    BY DEF Records
<1>2. CASE c = b.vote
  <2>1. Units(s, c) = Units(r, c) \cup new
    <3>1. ASSUME NEW u \in Addr \X (1..MaxI128)
          PROVE  u \in Units(s, c) <=> u \in Units(r, c) \/ u \in new
      <4>1. PICK x \in Addr, n \in 1..MaxI128 : u = <<x, n>>
          OBVIOUS
      <4>2. CASE x = a
          BY <4>1, <4>2, <1>0, <1>1, <1>2 DEF Units
      <4>3. CASE x # a
          BY <4>1, <4>3, <1>1 DEF Units
      <4>4. QED
          BY <4>2, <4>3
    <3>2. new \subseteq Addr \X (1..MaxI128)
        BY <1>0
    <3>3. QED
        BY <3>1, <3>2 DEF Units
  <2>2. Units(r, c) \cap new = {}
      BY DEF Units
  <2>3. IsFiniteSet(new) /\ Cardinality(new) = b.weight
    <3>1. IsFiniteSet(1..b.weight) /\ Cardinality(1..b.weight) = b.weight
        BY <1>0, IntervalCard
    <3>2. IsFiniteSet({a}) /\ Cardinality({a}) = 1
        BY FS_Singleton
    <3>3. QED
        BY <3>1, <3>2, <1>0, FS_Product
  <2>4. Cardinality(Units(s, c)) = Cardinality(Units(r, c)) + b.weight
    <3> HIDE DEF s, new
    <3>1. Cardinality(Units(r, c) \cup new)
             = Cardinality(Units(r, c)) + Cardinality(new)
        BY <2>2, <2>3, UnitsFinite, DisjointUnion
    <3>2. QED
        BY <3>1, <2>1, <2>3
  <2>5. QED
      BY <2>4, <1>2
<1>3. CASE c # b.vote
  <2>1. Units(s, c) = Units(r, c)
    <3>1. ASSUME NEW u \in Addr \X (1..MaxI128)
          PROVE  u \in Units(s, c) <=> u \in Units(r, c)
      <4>1. PICK x \in Addr, n \in 1..MaxI128 : u = <<x, n>>
          OBVIOUS
      <4>2. CASE x = a
          BY <4>1, <4>2, <1>1, <1>3 DEF Units
      <4>3. CASE x # a
          BY <4>1, <4>3, <1>1 DEF Units
      <4>4. QED
          BY <4>2, <4>3
    <3>2. QED
        BY <3>1 DEF Units
  <2>2. QED
      BY <2>1, <1>3, UnitsFinite
<1>4. QED
    BY <1>2, <1>3

\* Taking a ballot away takes its weight from its own choice only.
LEMMA RemoveBallot ==
    ASSUME NEW r \in Records, NEW a \in Addr, r[a] # None, NEW c \in Vote
    PROVE  Cardinality(Units(r, c))
              = Cardinality(Units([r EXCEPT ![a] = None], c))
                  + (IF c = r[a].vote THEN r[a].weight ELSE 0)
<1> DEFINE s == [r EXCEPT ![a] = None]
<1>1. s \in Records /\ s[a] = None /\ r[a] \in VoteRecord
    BY DEF Records
<1>2. [s EXCEPT ![a] = r[a]] = r
    BY DEF Records
<1> HIDE DEF s
<1>3. Cardinality(Units([s EXCEPT ![a] = r[a]], c))
         = Cardinality(Units(s, c)) + (IF c = r[a].vote THEN r[a].weight ELSE 0)
    BY <1>1, AddBallot
<1>4. QED
    BY <1>2, <1>3 DEF s

-----------------------------------------------------------------------------
(* The inductive invariant: retract_vote and change_vote subtract from a     *)
(* tally, so the tallies stay within their type only because they are exact. *)

\* initialize resets proposal_count: it must find it at zero.
EmptyUntilReady == contract_state = "Uninitialized" => proposal_count = 0

GInv == TypeOK /\ ActiveCountExact /\ TallyExact /\ EmptyUntilReady

\* There are finitely many Active proposals.
LEMMA ActiveFinite ==
    ASSUME TypeOK
    PROVE  IsFiniteSet(ActiveIds) /\ Cardinality(ActiveIds) \in Nat
<1>1. IsFiniteSet(ProposalIds)
    BY FS_Interval, BoundsAssumption DEF TypeOK, ProposalIds
<1>2. ActiveIds \subseteq ProposalIds
    BY DEF ActiveIds
<1>3. QED
    BY <1>1, <1>2, FS_Subset, FS_CardinalityType

\* A step that keeps the ballots and the tallies keeps the tallies exact.
LEMMA TallyFrame ==
    ASSUME TallyExact,
           UNCHANGED <<proposal_count, has_voted, vote_record>>,
           \A id \in ProposalIds : proposals'[id].votes = proposals[id].votes
    PROVE  TallyExact'
    BY DEF TallyExact, Weight, ProposalIds

\* A step that keeps every proposal's state keeps the count exact.
LEMMA ActiveFrame ==
    ASSUME ActiveCountExact,
           UNCHANGED <<proposal_count, active_proposal_count>>,
           \A id \in ProposalIds : proposals'[id].state = proposals[id].state
    PROVE  ActiveCountExact'
<1>1. ActiveIds' = ActiveIds
    BY DEF ActiveIds, ProposalIds
<1>2. QED
    BY <1>1 DEF ActiveCountExact

\* A proposal that leaves Active gives back exactly its own slot: the test for
\* a positive counter never fails.
LEMMA ActiveLeave ==
    ASSUME TypeOK, ActiveCountExact, NEW id \in ProposalIds,
           proposals[id].state = "Active", proposals'[id].state # "Active",
           \A j \in ProposalIds \ {id} : proposals'[j] = proposals[j],
           proposal_count' = proposal_count, ReleaseSlot
    PROVE  ActiveCountExact' /\ active_proposal_count' \in 0..MaxActive
<1>1. ActiveIds' = ActiveIds \ {id} /\ id \in ActiveIds
    BY DEF ActiveIds, ProposalIds
<1>2. Cardinality(ActiveIds') = Cardinality(ActiveIds) - 1
    BY <1>1, ActiveFinite, FS_RemoveElement
<1>3. Cardinality(ActiveIds) > 0
    BY <1>1, ActiveFinite, FS_EmptySet
<1>4. QED
    BY <1>2, <1>3, BoundsAssumption DEF ActiveCountExact, ReleaseSlot, TypeOK

\* A deployed contract satisfies the invariant.
LEMMA InitGInv == Init => GInv
<1> SUFFICES ASSUME Init PROVE GInv
    OBVIOUS
<1>1. ProposalIds = {}
    BY DEF Init, ProposalIds
<1>2. TypeOK
  <2>1. /\ proposals \in [ProposalIds -> Proposal]
        /\ has_voted \in [ProposalIds -> [Addr -> BOOLEAN]]
        /\ vote_record \in [ProposalIds -> [Addr -> VoteRecord \cup {None}]]
        /\ disbursements \in [ProposalIds -> Nat]
      BY <1>1 DEF Init
  <2>2. /\ proposal_count \in 0..MaxProposals
        /\ active_proposal_count \in 0..MaxActive
        /\ now \in Time
      BY BoundsAssumption DEF Init, Time
  <2>3. last_proposal_time \in [Addr -> Time \cup {None}]
      BY DEF Init
  <2>4. /\ min_proposal_balance \in Int
        /\ proposal_cooldown \in Nat
        /\ min_quorum_bps \in Nat
      BY DEF Init
  <2>5. /\ restrict_admin_vote \in BOOLEAN
        /\ paused \in BOOLEAN
      BY DEF Init
  <2>6. QED
      BY <2>1, <2>2, <2>3, <2>4, <2>5 DEF Init, TypeOK
<1>3. ActiveCountExact
  <2>1. ActiveIds = {}
      BY <1>1 DEF ActiveIds
  <2>2. QED
      BY <2>1, FS_EmptySet DEF Init, ActiveCountExact
<1>4. TallyExact
    BY <1>1 DEF TallyExact
<1>5. QED
    BY <1>2, <1>3, <1>4 DEF GInv, EmptyUntilReady, Init

\* cast_vote counts positive weights only, whatever i128 the token answers.
LEMMA WeightPositive ==
    ASSUME CastVote
    PROVE  \E a \in Addr, i \in ProposalIds, v \in Vote, w \in Amount,
              d \in BOOLEAN : cast_vote(a, i, v, w, d)
<1>1. PICK a \in Addr, i \in ProposalIds, v \in Vote, w \in Answer,
           d \in BOOLEAN : cast_vote(a, i, v, w, d)
    BY DEF CastVote
<1>2. w \in Amount
    BY <1>1, BoundsAssumption DEF cast_vote, Answer, Amount
<1>3. QED
    BY <1>1, <1>2

\* create_proposal: a fresh proposal takes one slot and starts with no ballots.
LEMMA CreateGInv ==
    ASSUME GInv, CreateProposal
    PROVE  GInv'
<1> USE DEF GInv
<1>1. PICK a \in Addr, x \in Text, q \in Amount, d \in 0..(MaxDuration + 1),
           act \in Action \cup {None}, su \in Answer, b \in Answer :
              create_proposal(a, x, q, d, act, su, b)
    BY DEF CreateProposal
<1> DEFINE n == proposal_count
           p == [ proposer |-> a, text |-> x,
                  votes |-> [v \in Vote |-> 0], quorum |-> q,
                  start_time |-> now, end_time |-> now + d,
                  state |-> "Active", snapshot_ledger |-> now,
                  voter_count |-> 0, treasury_action |-> act ]
<1>2. /\ n \in Nat /\ n < MaxProposals /\ proposal_count' = n + 1
      /\ ProposalIds = 0..(n - 1) /\ ProposalIds' = 0..n
      /\ n \notin ProposalIds /\ ProposalIds' = ProposalIds \cup {n}
    BY <1>1, BoundsAssumption DEF create_proposal, TypeOK, ProposalIds
<1>3. p \in Proposal
  <2>1. /\ x \in ValidText
        /\ q \in Amount \ {0}
        /\ [v \in Vote |-> 0] \in [Vote -> Amount]
        /\ 0 \in 0..MaxU32
      BY <1>1, BoundsAssumption DEF create_proposal, QuorumAllowed, Amount
  <2>2. now \in Time /\ now + d \in Time
      BY <1>1, BoundsAssumption DEF create_proposal, TypeOK, Time
  <2>3. QED
      BY <2>1, <2>2 DEF Proposal, ProposalState
<1>4. /\ proposals' = [i \in 0..n |-> IF i = n THEN p ELSE proposals[i]]
      /\ has_voted' = [i \in 0..n |-> IF i = n THEN [v \in Addr |-> FALSE]
                                               ELSE has_voted[i]]
      /\ vote_record' = [i \in 0..n |-> IF i = n THEN [v \in Addr |-> None]
                                                 ELSE vote_record[i]]
      /\ disbursements' = [i \in 0..n |-> IF i = n THEN 0
                                                   ELSE disbursements[i]]
    BY <1>1 DEF create_proposal, Extend
<1> HIDE DEF p
<1>5. TypeOK'
  <2>1. proposals' \in [ProposalIds' -> Proposal]
      BY <1>2, <1>3, <1>4 DEF TypeOK
  <2>2. has_voted' \in [ProposalIds' -> [Addr -> BOOLEAN]]
      BY <1>2, <1>4 DEF TypeOK
  <2>3. vote_record' \in [ProposalIds' -> [Addr -> VoteRecord \cup {None}]]
      BY <1>2, <1>4 DEF TypeOK
  <2>4. disbursements' \in [ProposalIds' -> Nat]
      BY <1>2, <1>4 DEF TypeOK
  <2>5. active_proposal_count' \in 0..MaxActive
      BY <1>1, BoundsAssumption DEF create_proposal, TypeOK
  <2>6. last_proposal_time' \in [Addr -> Time \cup {None}]
      BY <1>1 DEF create_proposal, TypeOK
  <2>7. proposal_count' \in 0..MaxProposals
      BY <1>2, BoundsAssumption
  <2>8. UNCHANGED <<config, now>>
      BY <1>1 DEF create_proposal
  <2>9. QED
      BY <2>1, <2>2, <2>3, <2>4, <2>5, <2>6, <2>7, <2>8 DEF TypeOK, config
<1>6. ActiveCountExact'
  <2>1. ActiveIds' = ActiveIds \cup {n} /\ n \notin ActiveIds
      BY <1>2, <1>4 DEF ActiveIds, p
  <2>2. Cardinality(ActiveIds') = Cardinality(ActiveIds) + 1
      BY <2>1, ActiveFinite, FS_AddElement
  <2>3. QED
      BY <2>2, <1>1 DEF ActiveCountExact, create_proposal
<1>7. TallyExact'
  <2>1. ASSUME NEW c \in Vote
        PROVE  Cardinality(Units([v \in Addr |-> None], c)) = 0
    <3>1. Units([v \in Addr |-> None], c) = {}
        BY DEF Units
    <3>2. QED
        BY <3>1, FS_EmptySet
  <2>2. \A i \in ProposalIds : /\ proposals'[i] = proposals[i]
                              /\ has_voted'[i] = has_voted[i]
                              /\ vote_record'[i] = vote_record[i]
      BY <1>2, <1>4
  <2>3. /\ proposals'[n] = p
        /\ has_voted'[n] = [v \in Addr |-> FALSE]
        /\ vote_record'[n] = [v \in Addr |-> None]
      BY <1>2, <1>4
  <2>4. \A c \in Vote : p.votes[c] = 0
      BY DEF p
  <2>5. ASSUME NEW i \in ProposalIds'
        PROVE  /\ \A c \in Vote : proposals'[i].votes[c] = Weight(i, c)'
               /\ \A v \in Addr : has_voted'[i][v] <=> vote_record'[i][v] # None
    <3>1. CASE i = n
        BY <3>1, <2>1, <2>3, <2>4 DEF Weight
    <3>2. CASE i \in ProposalIds
        BY <3>2, <2>2 DEF TallyExact, Weight
    <3>3. QED
        BY <3>1, <3>2, <1>2
  <2>6. QED
      BY <2>5 DEF TallyExact
<1>8. EmptyUntilReady'
    BY <1>1 DEF create_proposal, assert_ready, config, EmptyUntilReady
<1>9. QED
    BY <1>5, <1>6, <1>7, <1>8

\* A step that changes one proposal's text or quorum within their types.
LEMMA EditGInv ==
    ASSUME GInv, AmendProposal \/ UpdateQuorum
    PROVE  GInv'
<1> USE DEF GInv
<1>1. CASE AmendProposal
  <2>1. PICK a \in Addr, id \in ProposalIds, x \in Text : amend_proposal(a, id, x)
      BY <1>1 DEF AmendProposal
  <2>2. /\ proposals' = [proposals EXCEPT ![id].text = x]
        /\ x \in ValidText
        /\ UNCHANGED <<config, counters, ballots, now, disbursements>>
      BY <2>1 DEF amend_proposal
  <2>3. proposals' \in [ProposalIds -> Proposal]
    <3>1. [proposals[id] EXCEPT !.text = x] \in Proposal
        BY <2>2 DEF TypeOK, Proposal
    <3>2. QED
        BY <2>2, <3>1 DEF TypeOK
  <2>4. TypeOK'
      BY <2>2, <2>3 DEF TypeOK, config, counters, ballots, ProposalIds
  <2>5. \A j \in ProposalIds : /\ proposals'[j].votes = proposals[j].votes
                              /\ proposals'[j].state = proposals[j].state
      BY <2>2 DEF TypeOK, Proposal
  <2>6. QED
      BY <2>2, <2>4, <2>5, TallyFrame, ActiveFrame
         DEF config, counters, ballots, EmptyUntilReady
<1>2. CASE UpdateQuorum
  <2>1. PICK a \in Addr, id \in ProposalIds, q \in Amount, su \in Answer :
            update_quorum(a, id, q, su)
      BY <1>2 DEF UpdateQuorum
  <2>2. /\ proposals' = [proposals EXCEPT ![id].quorum = q]
        /\ q \in Amount \ {0}
        /\ UNCHANGED <<config, counters, ballots, now, disbursements>>
      BY <2>1 DEF update_quorum, Amount
  <2>3. proposals' \in [ProposalIds -> Proposal]
    <3>1. [proposals[id] EXCEPT !.quorum = q] \in Proposal
        BY <2>2 DEF TypeOK, Proposal
    <3>2. QED
        BY <2>2, <3>1 DEF TypeOK
  <2>4. TypeOK'
      BY <2>2, <2>3 DEF TypeOK, config, counters, ballots, ProposalIds
  <2>5. \A j \in ProposalIds : /\ proposals'[j].votes = proposals[j].votes
                              /\ proposals'[j].state = proposals[j].state
      BY <2>2 DEF TypeOK, Proposal
  <2>6. QED
      BY <2>2, <2>4, <2>5, TallyFrame, ActiveFrame
         DEF config, counters, ballots, EmptyUntilReady
<1>3. QED
    BY <1>1, <1>2

\* What cast_vote, retract_vote and change_vote have in common: one proposal's
\* tallies and one voter's ballot change, and the tallies follow the ballot.
LEMMA BallotGInv ==
    ASSUME GInv, NEW id \in ProposalIds, NEW a \in Addr,
           NEW rec \in VoteRecord \cup {None}, NEW flag \in BOOLEAN,
           flag <=> rec # None,
           NEW q \in Proposal, q.state = proposals[id].state,
           \A c \in Vote : q.votes[c] =
               Cardinality(Units([vote_record[id] EXCEPT ![a] = rec], c)),
           proposals' = [proposals EXCEPT ![id] = q],
           vote_record' = [vote_record EXCEPT ![id][a] = rec],
           has_voted' = [has_voted EXCEPT ![id][a] = flag],
           UNCHANGED <<config, counters, now, disbursements>>
    PROVE  GInv'
<1> USE DEF GInv
<1>1. proposals' \in [ProposalIds -> Proposal]
    BY DEF TypeOK
<1>2. vote_record' \in [ProposalIds -> [Addr -> VoteRecord \cup {None}]]
    BY DEF TypeOK
<1>3. has_voted' \in [ProposalIds -> [Addr -> BOOLEAN]]
    BY DEF TypeOK
<1>4. TypeOK'
    BY <1>1, <1>2, <1>3 DEF TypeOK, config, counters, ProposalIds
<1>5. ActiveCountExact'
  <2>1. \A j \in ProposalIds : proposals'[j].state = proposals[j].state
      BY DEF TypeOK
  <2>2. QED
      BY <2>1, ActiveFrame DEF counters
<1>6. TallyExact'
  <2>1. /\ vote_record'[id] = [vote_record[id] EXCEPT ![a] = rec]
        /\ has_voted'[id] = [has_voted[id] EXCEPT ![a] = flag]
        /\ proposals'[id] = q
      BY DEF TypeOK
  <2>2. \A j \in ProposalIds \ {id} : /\ proposals'[j] = proposals[j]
                                     /\ has_voted'[j] = has_voted[j]
                                     /\ vote_record'[j] = vote_record[j]
      BY DEF TypeOK
  <2>3. ASSUME NEW j \in ProposalIds
        PROVE  /\ \A c \in Vote : proposals'[j].votes[c] = Weight(j, c)'
               /\ \A v \in Addr : has_voted'[j][v] <=> vote_record'[j][v] # None
    <3>1. CASE j = id
      <4>1. \A c \in Vote : proposals'[j].votes[c] = Weight(j, c)'
          BY <3>1, <2>1 DEF Weight
      <4>2. ASSUME NEW v \in Addr
            PROVE  has_voted'[j][v] <=> vote_record'[j][v] # None
        <5>1. CASE v = a
            BY <5>1, <3>1, <2>1 DEF TypeOK
        <5>2. CASE v # a
            BY <5>2, <3>1, <2>1 DEF TypeOK, TallyExact
        <5>3. QED
            BY <5>1, <5>2
      <4>3. QED
          BY <4>1, <4>2
    <3>2. CASE j # id
      <4>1. /\ proposals'[j] = proposals[j]
            /\ has_voted'[j] = has_voted[j]
            /\ vote_record'[j] = vote_record[j]
          BY <3>2, <2>2
      <4>2. \A c \in Vote : proposals'[j].votes[c] = Weight(j, c)'
          BY <4>1 DEF TallyExact, Weight
      <4>3. \A v \in Addr : has_voted'[j][v] <=> vote_record'[j][v] # None
          BY <4>1 DEF TallyExact
      <4>4. QED
          BY <4>2, <4>3
    <3>3. QED
        BY <3>1, <3>2
  <2>4. QED
      BY <2>3 DEF TallyExact, counters, ProposalIds
<1>7. EmptyUntilReady'
    BY DEF config, counters, EmptyUntilReady
<1>8. QED
    BY <1>4, <1>5, <1>6, <1>7

\* cast_vote: a first ballot adds its weight to its choice.
LEMMA CastGInv ==
    ASSUME GInv, CastVote
    PROVE  GInv'
<1> USE DEF GInv
<1>1. PICK a \in Addr, id \in ProposalIds, v \in Vote, w \in Amount,
           d \in BOOLEAN : cast_vote(a, id, v, w, d)
    BY WeightPositive
<1> DEFINE p == proposals[id]
           r == vote_record[id]
           b == [vote |-> v, weight |-> w]
           q == [p EXCEPT !.votes[v] = @ + w, !.voter_count = @ + 1]
<1>2. p \in Proposal /\ r \in Records
    BY DEF TypeOK, Records
<1>3. /\ w > 0
      /\ p.votes[v] + w <= MaxI128
      /\ p.voter_count < MaxU32
      /\ ~has_voted[id][a]
    BY <1>1 DEF cast_vote, MayVote
<1>4. b \in VoteRecord /\ b # None
    BY <1>3, NoneAssumption DEF VoteRecord, Amount
<1>5. r[a] = None
    BY <1>3 DEF TallyExact
<1>6. /\ q = [p EXCEPT !.votes = [p.votes EXCEPT ![v] = @ + w],
                        !.voter_count = p.voter_count + 1]
      /\ [p.votes EXCEPT ![v] = @ + w] \in [Vote -> Amount]
      /\ p.voter_count + 1 \in 0..MaxU32
  <2>1. p.votes \in [Vote -> Amount] /\ p.voter_count \in 0..MaxU32
      BY <1>2 DEF Proposal
  <2>2. p.votes[v] + w \in Amount
      BY <1>3, <2>1, BoundsAssumption DEF Amount
  <2>3. [p.votes EXCEPT ![v] = @ + w] \in [Vote -> Amount]
      BY <2>1, <2>2
  <2>4. p.voter_count + 1 \in 0..MaxU32
      BY <1>3, <2>1, BoundsAssumption
  <2>5. QED
      BY <2>3, <2>4
<1>7. q \in Proposal /\ q.state = p.state
    BY <1>2, <1>6 DEF Proposal
<1>8. \A c \in Vote : q.votes[c] = Cardinality(Units([r EXCEPT ![a] = b], c))
  <2>1. ASSUME NEW c \in Vote
        PROVE  q.votes[c] = p.votes[c] + (IF c = v THEN w ELSE 0)
      BY <1>2, <1>6 DEF Proposal, Amount
  <2>2. ASSUME NEW c \in Vote
        PROVE  Cardinality(Units([r EXCEPT ![a] = b], c))
                  = Cardinality(Units(r, c)) + (IF c = v THEN w ELSE 0)
    <3>1. b.vote = v /\ b.weight = w
        OBVIOUS
    <3> HIDE DEF b, r
    <3>2. QED
        BY <1>2, <1>4, <1>5, <3>1, AddBallot
  <2>3. \A c \in Vote : p.votes[c] = Cardinality(Units(r, c))
      BY DEF TallyExact, Weight
  <2>4. QED
      BY <2>1, <2>2, <2>3
<1>9. /\ proposals' = [proposals EXCEPT ![id] = q]
      /\ vote_record' = [vote_record EXCEPT ![id][a] = b]
      /\ has_voted' = [has_voted EXCEPT ![id][a] = TRUE]
      /\ UNCHANGED <<config, counters, now, disbursements>>
  <2>1. proposals' = [proposals EXCEPT ![id] = q]
      BY <1>1 DEF cast_vote
  <2>2. vote_record' = [vote_record EXCEPT ![id][a] = b]
      BY <1>1 DEF cast_vote
  <2>3. has_voted' = [has_voted EXCEPT ![id][a] = TRUE]
      BY <1>1 DEF cast_vote
  <2>4. UNCHANGED <<config, counters, now, disbursements>>
      BY <1>1 DEF cast_vote
  <2>5. QED
      BY <2>1, <2>2, <2>3, <2>4
<1> HIDE DEF q, b
<1>10. QED
    BY <1>4, <1>7, <1>8, <1>9, BallotGInv

\* retract_vote: the ballot's weight is in its tally, so taking it out cannot
\* make the tally negative.
LEMMA RetractGInv ==
    ASSUME GInv, RetractVote
    PROVE  GInv'
<1> USE DEF GInv
<1>1. PICK a \in Addr, id \in ProposalIds : retract_vote(a, id)
    BY DEF RetractVote
<1> DEFINE p == proposals[id]
           r == vote_record[id]
           v == r[a].vote
           w == r[a].weight
           s == [r EXCEPT ![a] = None]
           q == [p EXCEPT !.votes[v] = @ - w]
<1>2. /\ p \in Proposal /\ r \in Records /\ r[a] # None
      /\ v \in Vote /\ w \in Amount /\ p.votes \in [Vote -> Amount]
  <2>1. p \in Proposal /\ r \in Records /\ r[a] # None
      BY <1>1 DEF TypeOK, Records, retract_vote, HasLiveVote
  <2>2. r[a] \in VoteRecord
      BY <2>1 DEF Records
  <2>3. v \in Vote /\ w \in Amount
      BY <2>2 DEF VoteRecord
  <2>4. p.votes \in [Vote -> Amount]
      BY <2>1 DEF Proposal
  <2>5. QED
      BY <2>1, <2>3, <2>4
<1>3. \A c \in Vote : /\ p.votes[c] = Cardinality(Units(s, c))
                                          + (IF c = v THEN w ELSE 0)
                     /\ Cardinality(Units(s, c)) \in Nat
  <2>1. \A c \in Vote : p.votes[c] = Cardinality(Units(r, c))
      BY DEF TallyExact, Weight
  <2> HIDE DEF r, p
  <2>2. ASSUME NEW c \in Vote
        PROVE  Cardinality(Units(r, c)) = Cardinality(Units(s, c))
                                            + (IF c = v THEN w ELSE 0)
      BY <1>2, RemoveBallot
  <2>3. QED
      BY <2>1, <2>2, UnitsFinite
<1>4. /\ [p.votes EXCEPT ![v] = @ - w] \in [Vote -> Amount]
      /\ \A c \in Vote : [p.votes EXCEPT ![v] = @ - w][c]
                            = Cardinality(Units(s, c))
  <2>1. p.votes[v] - w \in Amount
      BY <1>2, <1>3, BoundsAssumption DEF Amount
  <2>2. \A c \in Vote : [p.votes EXCEPT ![v] = @ - w][c]
                            = Cardinality(Units(s, c))
    <3> HIDE DEF s, p, v, w
    <3>1. QED
        BY <1>2, <1>3 DEF Amount
  <2>3. QED
      BY <1>2, <2>1, <2>2
<1>5. q \in Proposal /\ q.state = p.state
    BY <1>2, <1>4 DEF Proposal
<1>6. \A c \in Vote : q.votes[c] = Cardinality(Units(s, c))
    BY <1>2, <1>4 DEF Proposal
<1>7. /\ proposals' = [proposals EXCEPT ![id] = q]
      /\ vote_record' = [vote_record EXCEPT ![id][a] = None]
      /\ has_voted' = [has_voted EXCEPT ![id][a] = FALSE]
      /\ UNCHANGED <<config, counters, now, disbursements>>
    BY <1>1 DEF retract_vote
<1> HIDE DEF q
<1>8. None \in VoteRecord \cup {None} /\ (FALSE <=> None # None)
    OBVIOUS
<1>9. QED
    BY <1>5, <1>6, <1>7, <1>8, BallotGInv

\* change_vote: the ballot's weight moves from one tally to another.
LEMMA ChangeGInv ==
    ASSUME GInv, ChangeVote
    PROVE  GInv'
<1> USE DEF GInv
<1>1. PICK a \in Addr, id \in ProposalIds, nv \in Vote : change_vote(a, id, nv)
    BY DEF ChangeVote
<1> DEFINE p == proposals[id]
           r == vote_record[id]
           v == r[a].vote
           w == r[a].weight
           s == [r EXCEPT ![a] = None]
           b == [vote |-> nv, weight |-> w]
           votes == [p.votes EXCEPT ![v] = @ - w, ![nv] = @ + w]
           q == [p EXCEPT !.votes[v] = @ - w, !.votes[nv] = @ + w]
<1>2. /\ p \in Proposal /\ r \in Records /\ r[a] # None /\ has_voted[id][a]
      /\ v \in Vote /\ w \in Amount \ {0} /\ p.votes \in [Vote -> Amount]
      /\ v # nv /\ p.votes[nv] + w <= MaxI128
  <2>1. /\ p \in Proposal /\ r \in Records /\ r[a] # None /\ has_voted[id][a]
        /\ v # nv /\ p.votes[nv] + w <= MaxI128
      BY <1>1 DEF TypeOK, Records, change_vote, HasLiveVote
  <2>2. r[a] \in VoteRecord
      BY <2>1 DEF Records
  <2>3. v \in Vote /\ w \in Amount \ {0}
      BY <2>2 DEF VoteRecord
  <2>4. p.votes \in [Vote -> Amount]
      BY <2>1 DEF Proposal
  <2>5. QED
      BY <2>1, <2>3, <2>4
<1>3. /\ s \in Records /\ s[a] = None
      /\ [s EXCEPT ![a] = b] = [r EXCEPT ![a] = b]
    BY <1>2 DEF Records
<1>4. b \in VoteRecord /\ b # None /\ b.vote = nv /\ b.weight = w
    BY <1>2, NoneAssumption DEF VoteRecord
<1>5. \A c \in Vote : /\ p.votes[c] = Cardinality(Units(s, c))
                                          + (IF c = v THEN w ELSE 0)
                     /\ Cardinality(Units(s, c)) \in Nat
  <2>1. \A c \in Vote : p.votes[c] = Cardinality(Units(r, c))
      BY DEF TallyExact, Weight
  <2> HIDE DEF r, p
  <2>2. ASSUME NEW c \in Vote
        PROVE  Cardinality(Units(r, c)) = Cardinality(Units(s, c))
                                            + (IF c = v THEN w ELSE 0)
      BY <1>2, RemoveBallot
  <2>3. QED
      BY <2>1, <2>2, UnitsFinite
<1>6. \A c \in Vote : Cardinality(Units([r EXCEPT ![a] = b], c))
                        = Cardinality(Units(s, c)) + (IF c = nv THEN w ELSE 0)
  <2> HIDE DEF b, s
  <2>1. \A c \in Vote : Cardinality(Units([s EXCEPT ![a] = b], c))
                        = Cardinality(Units(s, c)) + (IF c = nv THEN w ELSE 0)
      BY <1>3, <1>4, AddBallot
  <2>2. QED
      BY <2>1, <1>3
<1>7. votes \in [Vote -> Amount]
  <2>1. p.votes[v] - w \in Amount /\ p.votes[nv] + w \in Amount
      BY <1>2, <1>5, BoundsAssumption DEF Amount
  <2>2. QED
      BY <1>2, <2>1
<1>8. \A c \in Vote : votes[c] = Cardinality(Units([r EXCEPT ![a] = b], c))
  <2>1. \A c \in Vote : votes[c] = IF c = nv THEN p.votes[c] + w
                                   ELSE IF c = v THEN p.votes[c] - w
                                   ELSE p.votes[c]
      BY <1>2
  <2>2. nv \in Vote /\ v \in Vote /\ w \in Int /\ v # nv
      BY <1>2 DEF Amount
  <2> HIDE DEF p, r, s, b, w, v, votes
  <2>3. ASSUME NEW c \in Vote
        PROVE  votes[c] = Cardinality(Units(s, c)) + (IF c = nv THEN w ELSE 0)
    <3>1. CASE c = nv
        BY <3>1, <2>1, <2>2, <1>5
    <3>2. CASE c = v
        BY <3>2, <2>1, <2>2, <1>5
    <3>3. CASE c # nv /\ c # v
        BY <3>3, <2>1, <2>2, <1>5
    <3>4. QED
        BY <3>1, <3>2, <3>3
  <2>4. QED
      BY <1>6, <2>3
<1>9. q \in Proposal /\ q.state = p.state /\ q.votes = votes
    BY <1>2, <1>7 DEF Proposal
<1>10. /\ proposals' = [proposals EXCEPT ![id] = q]
       /\ vote_record' = [vote_record EXCEPT ![id][a] = b]
       /\ UNCHANGED <<config, counters, now, disbursements>>
  <2>1. proposals' = [proposals EXCEPT ![id] = q]
      BY <1>1 DEF change_vote
  <2>2. vote_record' = [vote_record EXCEPT ![id][a] = b]
      BY <1>1 DEF change_vote
  <2>3. UNCHANGED <<config, counters, now, disbursements>>
      BY <1>1 DEF change_vote
  <2>4. QED
      BY <2>1, <2>2, <2>3
<1>11. has_voted' = [has_voted EXCEPT ![id][a] = TRUE]
  <2>1. has_voted' = has_voted /\ has_voted \in [ProposalIds -> [Addr -> BOOLEAN]]
      BY <1>1 DEF change_vote, TypeOK
  <2>2. has_voted[id] \in [Addr -> BOOLEAN] /\ has_voted[id][a] = TRUE
      BY <1>2, <2>1
  <2>3. [has_voted[id] EXCEPT ![a] = TRUE] = has_voted[id]
      BY <2>2
  <2>4. QED
      BY <2>1, <2>3
<1> HIDE DEF q, b, votes
<1>12. \A c \in Vote : q.votes[c] = Cardinality(Units([r EXCEPT ![a] = b], c))
    BY <1>8, <1>9
<1>13. QED
    BY <1>4, <1>9, <1>10, <1>11, <1>12, BallotGInv

\* A step that only changes the state of one proposal.
LEMMA StateGInv ==
    ASSUME GInv, NEW id \in ProposalIds, NEW st \in ProposalState,
           proposals' = [proposals EXCEPT ![id].state = st],
           disbursements' \in [ProposalIds -> Nat],
           active_proposal_count' \in 0..MaxActive, ActiveCountExact',
           UNCHANGED <<config, proposal_count, last_proposal_time, ballots, now>>
    PROVE  GInv'
<1> USE DEF GInv
<1>1. proposals' \in [ProposalIds -> Proposal]
  <2>1. [proposals[id] EXCEPT !.state = st] \in Proposal
      BY DEF TypeOK, Proposal
  <2>2. QED
      BY <2>1 DEF TypeOK
<1>2. TypeOK'
    BY <1>1 DEF TypeOK, config, ballots, ProposalIds
<1>3. \A j \in ProposalIds : proposals'[j].votes = proposals[j].votes
    BY DEF TypeOK, Proposal
<1>4. TallyExact'
    BY <1>3, TallyFrame DEF ballots
<1>5. QED
    BY <1>2, <1>4 DEF config, EmptyUntilReady

\* finalise and cancel: one proposal leaves Active.
LEMMA LeaveGInv ==
    ASSUME GInv, Finalise \/ Cancel
    PROVE  GInv'
<1> USE DEF GInv
<1>1. PICK id \in ProposalIds, st \in ProposalState \ {"Active"} :
         /\ proposals[id].state = "Active"
         /\ proposals' = [proposals EXCEPT ![id].state = st]
         /\ ReleaseSlot
         /\ UNCHANGED <<config, proposal_count, last_proposal_time, ballots,
                        now, disbursements>>
  <2>1. CASE Finalise
    <3>1. PICK id \in ProposalIds : finalise(id)
        BY <2>1 DEF Finalise
    <3>2. Outcome(proposals[id]) \in ProposalState \ {"Active"}
        BY DEF Outcome, ProposalState
    <3>3. QED
        BY <3>1, <3>2 DEF finalise, IsActive
  <2>2. CASE Cancel
    <3>1. PICK a \in Addr, id \in ProposalIds : cancel(a, id)
        BY <2>2 DEF Cancel
    <3>2. QED
        BY <3>1 DEF cancel, IsActive, ProposalState
  <2>3. QED
      BY <2>1, <2>2
<1>2. /\ proposals'[id].state # "Active"
      /\ \A j \in ProposalIds \ {id} : proposals'[j] = proposals[j]
    BY <1>1 DEF TypeOK, Proposal
<1>3. ActiveCountExact' /\ active_proposal_count' \in 0..MaxActive
    BY <1>1, <1>2, ActiveLeave
<1>4. disbursements' \in [ProposalIds -> Nat]
    BY <1>1 DEF TypeOK
<1>5. QED
    BY <1>1, <1>3, <1>4, StateGInv

\* execute: Passed and Executed are both outside Active.
LEMMA ExecuteGInv ==
    ASSUME GInv, Execute
    PROVE  GInv'
<1> USE DEF GInv
<1>1. PICK a \in Addr, id \in ProposalIds : execute(a, id)
    BY DEF Execute
<1>2. /\ proposals[id].state = "Passed"
      /\ proposals' = [proposals EXCEPT ![id].state = "Executed"]
      /\ UNCHANGED <<config, counters, ballots, now>>
    BY <1>1 DEF execute, Executable
<1>3. disbursements' \in [ProposalIds -> Nat]
    BY <1>1 DEF execute, TypeOK
<1>4. ActiveIds' = ActiveIds
    BY <1>2 DEF ActiveIds, ProposalIds, counters, TypeOK, Proposal
<1>5. ActiveCountExact' /\ active_proposal_count' \in 0..MaxActive
    BY <1>2, <1>4 DEF ActiveCountExact, counters, TypeOK
<1>6. QED
    BY <1>2, <1>3, <1>5, StateGInv DEF counters, ProposalState

\* Configuration, admin transfer, initialization and time leave proposals alone.
LEMMA ConfigGInv ==
    ASSUME GInv, Initialize \/ AdminTransfer \/ Configure \/ Tick \/ UNCHANGED vars
    PROVE  GInv'
<1> USE DEF GInv
<1>1. /\ UNCHANGED <<counters, ballots, proposals, disbursements>>
      /\ contract_state' \in {contract_state, "Ready"}
  <2>1. CASE Initialize
      BY <2>1 DEF Initialize, initialize, counters, EmptyUntilReady
  <2>2. CASE AdminTransfer
      BY <2>2 DEF AdminTransfer, propose_admin, accept_admin,
                  cancel_admin_transfer
  <2>3. CASE Configure
      BY <2>3 DEF Configure, update_voting_token, set_paused,
                  set_min_proposal_balance, set_proposal_cooldown,
                  set_restrict_admin_vote
  <2>4. CASE Tick
      BY <2>4 DEF Tick, config
  <2>5. CASE UNCHANGED vars
      BY <2>5 DEF vars, config
  <2>6. QED
      BY <2>1, <2>2, <2>3, <2>4, <2>5
<1>2. /\ contract_state' \in {"Uninitialized", "Ready"}
      /\ admin' \in Addr \cup {None}
      /\ pending_admin' \in Addr \cup {None}
      /\ voting_token' \in Token \cup {None}
      /\ treasury' \in Treasury \cup {None}
      /\ min_proposal_balance' \in Int
      /\ proposal_cooldown' \in Nat
      /\ min_quorum_bps' \in Nat
      /\ restrict_admin_vote' \in BOOLEAN
      /\ paused' \in BOOLEAN
      /\ now' \in Time
  <2>1. CASE Initialize
      BY <2>1, BoundsAssumption DEF Initialize, initialize, TypeOK
  <2>2. CASE AdminTransfer
      BY <2>2 DEF AdminTransfer, propose_admin, accept_admin,
                  cancel_admin_transfer, TypeOK
  <2>3. CASE Configure
      BY <2>3, BoundsAssumption
         DEF Configure, update_voting_token, set_paused,
             set_min_proposal_balance, set_proposal_cooldown,
             set_restrict_admin_vote, TypeOK
  <2>4. CASE Tick
      BY <2>4 DEF Tick, config, TypeOK
  <2>5. CASE UNCHANGED vars
      BY <2>5 DEF vars, config, TypeOK
  <2>6. QED
      BY <2>1, <2>2, <2>3, <2>4, <2>5
<1>3. TypeOK'
    BY <1>1, <1>2 DEF TypeOK, counters, ballots, ProposalIds
<1>4. TallyExact' /\ ActiveCountExact'
    BY <1>1, TallyFrame, ActiveFrame DEF counters, ballots
<1>5. EmptyUntilReady'
    BY <1>1 DEF EmptyUntilReady, counters
<1>6. QED
    BY <1>3, <1>4, <1>5

\* Every step of the contract preserves the invariant.
LEMMA NextGInv ==
    ASSUME GInv, [Next]_vars
    PROVE  GInv'
    BY CreateGInv, EditGInv, CastGInv, RetractGInv, ChangeGInv, LeaveGInv,
       ExecuteGInv, ConfigGInv DEF Next

\* The invariant holds of every reachable state.
LEMMA SpecGInv == Spec => []GInv
    BY InitGInv, NextGInv, PTL DEF Spec

-----------------------------------------------------------------------------
(* What a step does to one proposal *)

\* A proposal the step leaves alone, ballots included.
LEMMA FrameLifecycle ==
    ASSUME TypeOK, NEW id \in ProposalIds,
           proposals'[id] = proposals[id],
           vote_record'[id] = vote_record[id],
           has_voted'[id] = has_voted[id]
    PROVE  LifecycleStep(id)
<1>1. proposals[id] \in Proposal
    BY DEF TypeOK
<1>2. proposals[id].state \in ProposalState
    BY <1>1 DEF Proposal
<1>3. proposals[id] = [proposals[id] EXCEPT !.state = proposals[id].state]
    BY <1>1 DEF Proposal
<1>4. QED
    BY <1>2, <1>3 DEF LifecycleStep

\* A proposal that is and stays Active may change in any other way.
LEMMA OpenLifecycle ==
    ASSUME NEW id, proposals[id].state = "Active", proposals'[id].state = "Active"
    PROVE  LifecycleStep(id)
    BY DEF LifecycleStep, ProposalState

\* A proposal that is decided gets the outcome of its tallies; nothing else
\* about it changes.
DecidedStep(id) ==
    (/\ proposals'[id].state # proposals[id].state
     /\ proposals'[id].state \in {"Passed", "Rejected"}) =>
        /\ proposals[id].state = "Active"
        /\ proposals'[id] =
              [proposals[id] EXCEPT !.state = Outcome(proposals[id])]
        /\ vote_record'[id] = vote_record[id]

\* create_proposal, configuration and time touch no existing proposal.
LEMMA QuietStep ==
    ASSUME GInv,
           \/ CreateProposal \/ Initialize \/ AdminTransfer \/ Configure
           \/ Tick \/ UNCHANGED vars,
           NEW id \in ProposalIds
    PROVE  /\ id \in ProposalIds'
           /\ LifecycleStep(id) /\ DecidedStep(id)
<1> USE DEF GInv
<1>1. /\ proposals'[id] = proposals[id]
      /\ vote_record'[id] = vote_record[id]
      /\ has_voted'[id] = has_voted[id]
      /\ id \in ProposalIds'
  <2>1. CASE CreateProposal
    <3>1. PICK n, p, hv, vr :
             /\ n = proposal_count
             /\ proposals' = Extend(proposals, n, p)
             /\ has_voted' = Extend(has_voted, n, hv)
             /\ vote_record' = Extend(vote_record, n, vr)
             /\ proposal_count' = n + 1
        BY <2>1 DEF CreateProposal, create_proposal
    <3>2. n \in Nat /\ id \in 0..n /\ id # n
        BY <3>1 DEF TypeOK, ProposalIds
    <3>3. QED
        BY <3>1, <3>2 DEF Extend, ProposalIds
  <2>2. CASE Initialize
      BY <2>2 DEF Initialize, initialize, ballots, EmptyUntilReady, ProposalIds
  <2>3. CASE AdminTransfer
      BY <2>3 DEF AdminTransfer, propose_admin, accept_admin,
                  cancel_admin_transfer, ballots, counters, ProposalIds
  <2>4. CASE Configure
      BY <2>4 DEF Configure, update_voting_token, set_paused,
                  set_min_proposal_balance, set_proposal_cooldown,
                  set_restrict_admin_vote, ballots, counters, ProposalIds
  <2>5. CASE Tick
      BY <2>5 DEF Tick, ballots, counters, ProposalIds
  <2>6. CASE UNCHANGED vars
      BY <2>6 DEF vars, ballots, counters, ProposalIds
  <2>7. QED
      BY <2>1, <2>2, <2>3, <2>4, <2>5, <2>6
<1>2. LifecycleStep(id)
    BY <1>1, FrameLifecycle
<1>3. QED
    BY <1>1, <1>2 DEF DecidedStep

\* Amendments, quorum updates and ballots touch one Active proposal, which
\* stays Active.
LEMMA ActiveStep ==
    ASSUME GInv,
           \/ AmendProposal \/ UpdateQuorum \/ CastVote \/ RetractVote
           \/ ChangeVote,
           NEW id \in ProposalIds
    PROVE  /\ id \in ProposalIds'
           /\ LifecycleStep(id) /\ DecidedStep(id)
<1> USE DEF GInv
<1>1. PICK i, q :
         /\ i \in ProposalIds
         /\ proposals[i].state = "Active"
         /\ q.state = "Active"
         /\ proposals' = [proposals EXCEPT ![i] = q]
         /\ \A j \in ProposalIds \ {i} : /\ vote_record'[j] = vote_record[j]
                                         /\ has_voted'[j] = has_voted[j]
         /\ UNCHANGED counters
  <2> USE DEF TypeOK, Proposal, IsActive
  <2>1. CASE AmendProposal
    <3>1. PICK a \in Addr, i \in ProposalIds, x \in Text : amend_proposal(a, i, x)
        BY <2>1 DEF AmendProposal
    <3>2. WITNESS i, [proposals[i] EXCEPT !.text = x]
    <3>3. QED
        BY <3>1 DEF amend_proposal, ballots
  <2>2. CASE UpdateQuorum
    <3>1. PICK a \in Addr, i \in ProposalIds, n \in Amount, u \in Answer :
             update_quorum(a, i, n, u)
        BY <2>2 DEF UpdateQuorum
    <3>2. WITNESS i, [proposals[i] EXCEPT !.quorum = n]
    <3>3. QED
        BY <3>1 DEF update_quorum, ballots
  <2>3. CASE CastVote
    <3>1. PICK a \in Addr, i \in ProposalIds, v \in Vote, w \in Amount,
               d \in BOOLEAN : cast_vote(a, i, v, w, d)
        BY <2>3, WeightPositive
    <3>2. WITNESS i,
                  [proposals[i] EXCEPT !.votes[v] = @ + w, !.voter_count = @ + 1]
    <3>3. QED
        BY <3>1 DEF cast_vote
  <2>4. CASE RetractVote
    <3>1. PICK a \in Addr, i \in ProposalIds : retract_vote(a, i)
        BY <2>4 DEF RetractVote
    <3>2. WITNESS i,
                  [proposals[i] EXCEPT !.votes[vote_record[i][a].vote]
                                          = @ - vote_record[i][a].weight]
    <3>3. QED
        BY <3>1 DEF retract_vote, HasLiveVote
  <2>5. CASE ChangeVote
    <3>1. PICK a \in Addr, i \in ProposalIds, v \in Vote : change_vote(a, i, v)
        BY <2>5 DEF ChangeVote
    <3>2. WITNESS i,
                  [proposals[i] EXCEPT
                      !.votes[vote_record[i][a].vote]
                          = @ - vote_record[i][a].weight,
                      !.votes[v] = @ + vote_record[i][a].weight]
    <3>3. QED
        BY <3>1 DEF change_vote, HasLiveVote
  <2>6. QED
      BY <2>1, <2>2, <2>3, <2>4, <2>5
<1>2. id \in ProposalIds'
    BY <1>1 DEF counters, ProposalIds
<1>3. CASE id = i
  <2>1. proposals[id].state = "Active" /\ proposals'[id].state = "Active"
      BY <1>1, <1>3 DEF TypeOK
  <2>2. QED
      BY <1>2, <2>1, OpenLifecycle DEF DecidedStep
<1>4. CASE id # i
  <2>1. /\ proposals'[id] = proposals[id]
        /\ vote_record'[id] = vote_record[id]
        /\ has_voted'[id] = has_voted[id]
      BY <1>1, <1>4 DEF TypeOK
  <2>2. QED
      BY <1>2, <2>1, FrameLifecycle DEF DecidedStep
<1>5. QED
    BY <1>3, <1>4

\* finalise, cancel and execute change the state of one proposal and nothing
\* else about it.
LEMMA LeaveStep ==
    ASSUME GInv, Finalise \/ Cancel \/ Execute, NEW id \in ProposalIds
    PROVE  /\ id \in ProposalIds'
           /\ LifecycleStep(id) /\ DecidedStep(id)
<1> USE DEF GInv
<1>1. PICK i \in ProposalIds, st \in ProposalState :
         /\ proposals' = [proposals EXCEPT ![i].state = st]
         /\ UNCHANGED <<ballots, proposal_count>>
         /\ \/ /\ proposals[i].state = "Active"
               /\ now > proposals[i].end_time
               /\ st = Outcome(proposals[i])
            \/ proposals[i].state = "Active" /\ st = "Cancelled"
            \/ proposals[i].state = "Passed" /\ st = "Executed"
  <2>1. CASE Finalise
    <3>1. PICK i \in ProposalIds : finalise(i)
        BY <2>1 DEF Finalise
    <3>2. Outcome(proposals[i]) \in ProposalState
        BY DEF Outcome, ProposalState
    <3>3. QED
        BY <3>1, <3>2 DEF finalise, IsActive, VotingOver
  <2>2. CASE Cancel
      BY <2>2 DEF Cancel, cancel, IsActive, ProposalState
  <2>3. CASE Execute
      BY <2>3 DEF Execute, execute, Executable, counters, ProposalState
  <2>4. QED
      BY <2>1, <2>2, <2>3
<1>2. /\ id \in ProposalIds'
      /\ vote_record'[id] = vote_record[id]
      /\ has_voted'[id] = has_voted[id]
    BY <1>1 DEF ballots, ProposalIds
<1>3. CASE id = i
  <2> DEFINE p == proposals[id]
  <2>1. p \in Proposal /\ proposals'[id] = [p EXCEPT !.state = st]
      BY <1>1, <1>3 DEF TypeOK
  <2>2. proposals'[id].state = st
      BY <2>1 DEF Proposal
  <2>3. Outcome(p) \in {"Passed", "Rejected"}
      BY DEF Outcome
  <2> HIDE DEF p
  <2>4. LifecycleStep(id)
    <3>1. <<p.state, st>> \in
             {<<s, s>> : s \in ProposalState}
               \cup {<<"Active", "Passed">>, <<"Active", "Rejected">>,
                     <<"Active", "Cancelled">>, <<"Passed", "Executed">>}
        BY <1>1, <1>3, <2>3 DEF p
    <3>2. st \in {"Passed", "Rejected"} => now > p.end_time
        BY <1>1, <1>3 DEF p
    <3>3. QED
        BY <1>2, <2>1, <2>2, <3>1, <3>2 DEF LifecycleStep, p
  <2>5. DecidedStep(id)
    <3>1. st \in {"Passed", "Rejected"} =>
             p.state = "Active" /\ st = Outcome(p)
        BY <1>1, <1>3 DEF p
    <3>2. QED
        BY <1>2, <2>1, <2>2, <3>1 DEF DecidedStep, p
  <2>6. QED
      BY <1>2, <2>4, <2>5
<1>4. CASE id # i
  <2>1. proposals'[id] = proposals[id]
      BY <1>1, <1>4 DEF TypeOK
  <2>2. QED
      BY <1>2, <2>1, FrameLifecycle DEF DecidedStep
<1>5. QED
    BY <1>3, <1>4

\* Every step keeps every proposal within its lifecycle.
LEMMA StepLifecycle ==
    ASSUME GInv, [Next]_vars, NEW id \in ProposalIds
    PROVE  /\ id \in ProposalIds'
           /\ LifecycleStep(id) /\ DecidedStep(id)
    BY QuietStep, ActiveStep, LeaveStep DEF Next

\* A proposal that a step adds is Active.
LEMMA NewIsActive ==
    ASSUME GInv, [Next]_vars, NEW id \in ProposalIds', id \notin ProposalIds
    PROVE  proposals'[id].state = "Active"
<1> USE DEF GInv
<1>1. CASE CreateProposal
  <2>1. PICK n, p :
           /\ n = proposal_count
           /\ proposals' = Extend(proposals, n, p)
           /\ p.state = "Active"
           /\ proposal_count' = n + 1
      BY <1>1 DEF CreateProposal, create_proposal
  <2>2. n \in Nat /\ id \in 0..n /\ id = n
      BY <2>1 DEF TypeOK, ProposalIds
  <2>3. QED
      BY <2>1, <2>2 DEF Extend
<1>2. CASE ~CreateProposal
  <2>1. proposal_count' = proposal_count
    <3>1. CASE Initialize
        BY <3>1 DEF Initialize, initialize, EmptyUntilReady
    <3>2. CASE AmendProposal \/ CastVote \/ RetractVote \/ ChangeVote
        BY <3>2 DEF AmendProposal, amend_proposal, CastVote, cast_vote,
                    RetractVote, retract_vote, ChangeVote, change_vote, counters
    <3>3. CASE Finalise \/ Execute \/ Cancel \/ UpdateQuorum
        BY <3>3 DEF Finalise, finalise, Execute, execute, Cancel, cancel,
                    UpdateQuorum, update_quorum, counters
    <3>4. CASE AdminTransfer
        BY <3>4 DEF AdminTransfer, propose_admin, accept_admin,
                    cancel_admin_transfer, counters
    <3>5. CASE Configure
        BY <3>5 DEF Configure, update_voting_token, set_paused,
                    set_min_proposal_balance, set_proposal_cooldown,
                    set_restrict_admin_vote, counters
    <3>6. CASE Tick \/ UNCHANGED vars
        BY <3>6 DEF Tick, vars, counters
    <3>7. QED
        BY <1>2, <3>1, <3>2, <3>3, <3>4, <3>5, <3>6 DEF Next
  <2>2. QED
      BY <2>1 DEF ProposalIds
<1>3. QED
    BY <1>1, <1>2

-----------------------------------------------------------------------------
(* Decisions and ballots *)

\* What the ballots of one proposal say of it.
Carried(id) ==
    /\ Weight(id, "Yes") > Weight(id, "No")
    /\ Weight(id, "Yes") + Weight(id, "No") + Weight(id, "Abstain")
         >= proposals[id].quorum

Decided(id) ==
    /\ proposals[id].state \in {"Passed", "Executed"} => Carried(id)
    /\ proposals[id].state = "Rejected" => ~Carried(id)

\* A decision agrees with the ballots when it is taken, because the tallies do,
\* and afterwards, because nothing it depends on changes.
LEMMA NextDecided ==
    ASSUME GInv, DecisionMatchesBallots, [Next]_vars
    PROVE  DecisionMatchesBallots'
<1> SUFFICES ASSUME NEW id \in ProposalIds' PROVE Decided(id)'
    BY DEF DecisionMatchesBallots, Decided, Carried
<1>1. CASE id \notin ProposalIds
    BY <1>1, NewIsActive DEF Decided
<1>2. CASE id \in ProposalIds
  <2> DEFINE p == proposals[id]
             q == proposals'[id]
  <2>1. LifecycleStep(id) /\ DecidedStep(id) /\ Decided(id)
      BY <1>2, StepLifecycle DEF DecisionMatchesBallots, Decided, Carried
  <2>2. p \in Proposal
      BY <1>2 DEF GInv, TypeOK
  <2>3. CASE q.state # p.state /\ q.state \in {"Passed", "Rejected"}
    <3>1. /\ q = [p EXCEPT !.state = Outcome(p)]
          /\ vote_record'[id] = vote_record[id]
        BY <2>1, <2>3 DEF DecidedStep
    <3>2. q.state = Outcome(p) /\ q.quorum = p.quorum
        BY <2>2, <3>1 DEF Proposal
    <3>3. \A c \in Vote : p.votes[c] = Weight(id, c) /\ Weight(id, c)' = Weight(id, c)
        BY <1>2, <3>1 DEF GInv, TallyExact, Weight
    <3>4. (Outcome(p) = "Passed") <=> Carried(id)
        BY <3>3 DEF Outcome, TotalVotes, Carried, Vote
    <3>5. Carried(id)' <=> Carried(id)
        BY <3>2, <3>3 DEF Carried, Vote
    <3>6. QED
        BY <2>3, <3>2, <3>4, <3>5 DEF Decided
  <2>4. CASE p.state # "Active" /\ (q.state = p.state \/ q.state = "Executed")
    <3>1. q.quorum = p.quorum /\ vote_record'[id] = vote_record[id]
        BY <2>1, <2>2, <2>4 DEF LifecycleStep, Proposal
    <3>2. Carried(id)' <=> Carried(id)
        BY <3>1 DEF Carried, Weight
    <3>3. q.state = p.state \/ (p.state = "Passed" /\ q.state = "Executed")
        BY <2>1, <2>4 DEF LifecycleStep
    <3>4. QED
        BY <2>1, <3>2, <3>3 DEF Decided
  <2>5. CASE q.state \in {"Active", "Cancelled"}
      BY <2>5 DEF Decided
  <2>6. QED
      BY <2>1, <2>3, <2>4, <2>5 DEF LifecycleStep, ProposalState
<1>3. QED
    BY <1>1, <1>2

\* update_voting_token sees a zero counter, so no proposal is Active; and
\* initialize finds no proposal at all.
LEMMA TokenStep ==
    ASSUME GInv, [Next]_vars, voting_token' # voting_token
    PROVE  ActiveIds = {}
<1> USE DEF GInv
<1>1. CASE Initialize
  <2>1. proposal_count = 0
      BY <1>1 DEF Initialize, initialize, EmptyUntilReady
  <2>2. QED
      BY <2>1 DEF ActiveIds, ProposalIds
<1>2. CASE Configure
  <2>1. active_proposal_count = 0
      BY <1>2 DEF Configure, update_voting_token, set_paused,
                  set_min_proposal_balance, set_proposal_cooldown,
                  set_restrict_admin_vote
  <2>2. QED
      BY <2>1, ActiveFinite, FS_EmptySet DEF ActiveCountExact
<1>3. CASE CreateProposal
    BY <1>3 DEF CreateProposal, create_proposal, config
<1>4. CASE AmendProposal \/ CastVote \/ RetractVote \/ ChangeVote
  <2>1. UNCHANGED config
    <3>1. CASE AmendProposal
        BY <3>1 DEF AmendProposal, amend_proposal
    <3>2. CASE CastVote
        BY <3>2 DEF CastVote, cast_vote
    <3>3. CASE RetractVote
        BY <3>3 DEF RetractVote, retract_vote
    <3>4. CASE ChangeVote
        BY <3>4 DEF ChangeVote, change_vote
    <3>5. QED
        BY <1>4, <3>1, <3>2, <3>3, <3>4
  <2>2. QED
      BY <2>1 DEF config
<1>5. CASE Finalise \/ Execute \/ Cancel \/ UpdateQuorum
    BY <1>5 DEF Finalise, finalise, Execute, execute, Cancel, cancel,
                UpdateQuorum, update_quorum, config
<1>6. CASE AdminTransfer
    BY <1>6 DEF AdminTransfer, propose_admin, accept_admin,
                cancel_admin_transfer
<1>7. CASE Tick \/ UNCHANGED vars
    BY <1>7 DEF Tick, vars, config
<1>8. QED
    BY <1>1, <1>2, <1>3, <1>4, <1>5, <1>6, <1>7 DEF Next

-----------------------------------------------------------------------------
(* What no step changes about a proposal *)

\* Proposer, start and payload are fixed at creation; the text changes only
\* while all tallies are zero.
KeptStep(id) ==
    LET p == proposals[id]
        q == proposals'[id]
    IN /\ q.proposer = p.proposer
       /\ q.start_time = p.start_time
       /\ q.treasury_action = p.treasury_action
       /\ q.text = p.text \/ TotalVotes(p) = 0

\* An update of other fields of one proposal keeps them.
LEMMA UpdateKeeps ==
    ASSUME TypeOK, NEW i \in ProposalIds, NEW q, KeptStep(i),
           proposals' = [proposals EXCEPT ![i] = q],
           NEW id \in ProposalIds
    PROVE  KeptStep(id)
<1>1. CASE id = i
    BY <1>1
<1>2. CASE id # i
  <2>1. proposals'[id] = proposals[id]
      BY <1>2 DEF TypeOK
  <2>2. QED
      BY <2>1 DEF KeptStep
<1>3. QED
    BY <1>1, <1>2

\* A ballot cast, retracted or changed is one voter's, within the voting
\* period; a change keeps its weight; of the proposal the tallies and the
\* voter count change only.
LEMMA BallotStep ==
    ASSUME GInv, CastVote \/ RetractVote \/ ChangeVote
    PROVE  \E i, a, b, vs, n :
         /\ i \in ProposalIds /\ a \in Addr /\ b \in VoteRecord \cup {None}
         /\ IsActive(i) /\ ~VotingOver(proposals[i])
         /\ (vote_record[i][a] # None /\ b # None) =>
               b.weight = vote_record[i][a].weight
         /\ vote_record' = [vote_record EXCEPT ![i][a] = b]
         /\ proposals' = [proposals EXCEPT
                ![i] = [proposals[i] EXCEPT !.votes = vs, !.voter_count = n]]
<1> USE DEF GInv
<1>1. CASE CastVote
  <2>1. PICK a \in Addr, i \in ProposalIds, v \in Vote, w \in Amount,
             d \in BOOLEAN : cast_vote(a, i, v, w, d)
      BY <1>1, WeightPositive
  <2>2. [vote |-> v, weight |-> w] \in VoteRecord
      BY <2>1, BoundsAssumption DEF cast_vote, VoteRecord, Amount
  <2>3. vote_record[i][a] = None
      BY <2>1 DEF cast_vote, MayVote, TallyExact
  <2>4. proposals[i] \in Proposal
      BY DEF TypeOK
  <2>5. proposals' = [proposals EXCEPT ![i] =
           [proposals[i] EXCEPT
               !.votes = [proposals[i].votes EXCEPT ![v] = @ + w],
               !.voter_count = proposals[i].voter_count + 1]]
      BY <2>1, <2>4 DEF cast_vote, Proposal
  <2>6. /\ IsActive(i) /\ ~VotingOver(proposals[i])
        /\ vote_record' = [vote_record EXCEPT
               ![i][a] = [vote |-> v, weight |-> w]]
      BY <2>1 DEF cast_vote
  <2>7. QED
      BY <2>2, <2>3, <2>5, <2>6
<1>2. CASE RetractVote
  <2>1. PICK a \in Addr, i \in ProposalIds : retract_vote(a, i)
      BY <1>2 DEF RetractVote
  <2>2. proposals[i] \in Proposal
      BY DEF TypeOK
  <2> DEFINE r == vote_record[i][a]
  <2>3. proposals' = [proposals EXCEPT ![i] =
           [proposals[i] EXCEPT
               !.votes = [proposals[i].votes EXCEPT ![r.vote] = @ - r.weight],
               !.voter_count = proposals[i].voter_count]]
      BY <2>1, <2>2 DEF retract_vote, Proposal
  <2>4. /\ IsActive(i) /\ ~VotingOver(proposals[i])
        /\ vote_record' = [vote_record EXCEPT ![i][a] = None]
      BY <2>1 DEF retract_vote, HasLiveVote
  <2>5. QED
      BY <2>3, <2>4
<1>3. CASE ChangeVote
  <2>1. PICK a \in Addr, i \in ProposalIds, v \in Vote : change_vote(a, i, v)
      BY <1>3 DEF ChangeVote
  <2> DEFINE r == vote_record[i][a]
             b == [vote |-> v, weight |-> r.weight]
  <2>2. r \in VoteRecord /\ IsActive(i) /\ ~VotingOver(proposals[i])
      BY <2>1 DEF change_vote, HasLiveVote, TypeOK
  <2>3. b \in VoteRecord /\ b.weight = r.weight
      BY <2>2 DEF VoteRecord
  <2>4. vote_record' = [vote_record EXCEPT ![i][a] = b]
      BY <2>1 DEF change_vote, TypeOK
  <2>5. proposals[i] \in Proposal
      BY DEF TypeOK
  <2>6. proposals' = [proposals EXCEPT ![i] =
           [proposals[i] EXCEPT
               !.votes = [proposals[i].votes EXCEPT ![r.vote] = @ - r.weight,
                                                    ![v] = @ + r.weight],
               !.voter_count = proposals[i].voter_count]]
      BY <2>1, <2>5 DEF change_vote, Proposal
  <2>7. QED
      BY <2>2, <2>3, <2>4, <2>6
<1>4. QED
    BY <1>1, <1>2, <1>3

\* Ballots change tallies and the voter count only.
LEMMA BallotKeeps ==
    ASSUME GInv, CastVote \/ RetractVote \/ ChangeVote, NEW id \in ProposalIds
    PROVE  KeptStep(id)
<1>1. PICK i, a, b, vs, n :
         /\ i \in ProposalIds /\ a \in Addr /\ b \in VoteRecord \cup {None}
         /\ IsActive(i) /\ ~VotingOver(proposals[i])
         /\ (vote_record[i][a] # None /\ b # None) =>
               b.weight = vote_record[i][a].weight
         /\ vote_record' = [vote_record EXCEPT ![i][a] = b]
         /\ proposals' = [proposals EXCEPT
                ![i] = [proposals[i] EXCEPT !.votes = vs, !.voter_count = n]]
    BY BallotStep
<1>2. proposals[i] \in Proposal
    BY <1>1 DEF GInv, TypeOK
<1>3. KeptStep(i)
    BY <1>1, <1>2 DEF KeptStep, Proposal, GInv, TypeOK
<1>4. QED
    BY <1>1, <1>3, UpdateKeeps DEF GInv

\* Every step keeps them.
LEMMA StepKeeps ==
    ASSUME GInv, [Next]_vars, NEW id \in ProposalIds
    PROVE  KeptStep(id)
<1> USE DEF GInv
<1>1. CASE CastVote \/ RetractVote \/ ChangeVote
    BY <1>1, BallotKeeps
<1>2. CASE AmendProposal
  <2>1. PICK a \in Addr, i \in ProposalIds, x \in Text : amend_proposal(a, i, x)
      BY <1>2 DEF AmendProposal
  <2>2. /\ proposals[i] \in Proposal
        /\ proposals' = [proposals EXCEPT ![i] = [proposals[i] EXCEPT !.text = x]]
        /\ TotalVotes(proposals[i]) = 0
      BY <2>1 DEF amend_proposal, TypeOK
  <2>3. KeptStep(i)
      BY <2>2 DEF KeptStep, Proposal, TypeOK
  <2>4. QED
      BY <2>2, <2>3, UpdateKeeps
<1>3. CASE UpdateQuorum
  <2>1. PICK a \in Addr, i \in ProposalIds, x \in Amount, su \in Answer :
           update_quorum(a, i, x, su)
      BY <1>3 DEF UpdateQuorum
  <2>2. /\ proposals[i] \in Proposal
        /\ proposals' = [proposals EXCEPT ![i] = [proposals[i] EXCEPT !.quorum = x]]
      BY <2>1 DEF update_quorum, TypeOK
  <2>3. KeptStep(i)
      BY <2>2 DEF KeptStep, Proposal, TypeOK
  <2>4. QED
      BY <2>2, <2>3, UpdateKeeps
<1>4. CASE Finalise \/ Cancel \/ Execute
  <2>1. PICK i, st :
           /\ i \in ProposalIds
           /\ proposals' = [proposals EXCEPT ![i].state = st]
      BY <1>4 DEF Finalise, finalise, Cancel, cancel, Execute, execute
  <2>2. /\ proposals[i] \in Proposal
        /\ proposals' = [proposals EXCEPT ![i] = [proposals[i] EXCEPT !.state = st]]
      BY <2>1 DEF TypeOK
  <2>3. KeptStep(i)
      BY <2>2 DEF KeptStep, Proposal, TypeOK
  <2>4. QED
      BY <2>1, <2>2, <2>3, UpdateKeeps
<1>5. CASE CreateProposal
  <2>1. PICK n, p : n = proposal_count /\ proposals' = Extend(proposals, n, p)
      BY <1>5 DEF CreateProposal, create_proposal
  <2>2. n \in Nat /\ id \in 0..n /\ id # n
      BY <2>1 DEF TypeOK, ProposalIds
  <2>3. proposals'[id] = proposals[id]
      BY <2>1, <2>2 DEF Extend
  <2>4. QED
      BY <2>3 DEF KeptStep
<1>6. CASE Initialize \/ AdminTransfer \/ Configure \/ Tick \/ UNCHANGED vars
  <2>1. proposals' = proposals
      BY <1>6 DEF Initialize, initialize, AdminTransfer, propose_admin,
                  accept_admin, cancel_admin_transfer, Configure,
                  update_voting_token, set_paused, set_min_proposal_balance,
                  set_proposal_cooldown, set_restrict_admin_vote, Tick, vars
  <2>2. QED
      BY <2>1 DEF KeptStep
<1>7. QED
    BY <1>1, <1>2, <1>3, <1>4, <1>5, <1>6 DEF Next

-----------------------------------------------------------------------------
(* Texts, cooldowns and payments *)

\* A recorded ballot shows in the tallies, whatever it is for.
LEMMA BallotShows ==
    ASSUME GInv, NEW id \in ProposalIds, NEW a \in Addr,
           vote_record[id][a] # None
    PROVE  TotalVotes(proposals[id]) > 0
<1> DEFINE b == vote_record[id][a]
<1>1. b \in VoteRecord
    BY DEF GInv, TypeOK
<1>2. /\ b.vote \in Vote /\ 1 <= b.weight
      /\ MaxI128 \in Nat /\ 1 <= MaxI128
    BY <1>1, BoundsAssumption DEF VoteRecord, Amount
<1>3. <<a, 1>> \in Units(vote_record[id], b.vote)
    BY <1>2 DEF Units
<1>4. Cardinality(Units(vote_record[id], b.vote)) # 0
    BY <1>3, UnitsFinite, FS_EmptySet
<1>5. proposals[id].votes[b.vote] # 0
    BY <1>2, <1>4 DEF GInv, TallyExact, Weight
<1>6. \A c \in Vote : proposals[id].votes[c] \in Nat
    BY BoundsAssumption DEF GInv, TypeOK, Proposal, Amount
<1>7. /\ proposals[id].votes["Yes"] \in Nat
      /\ proposals[id].votes["No"] \in Nat
      /\ proposals[id].votes["Abstain"] \in Nat
    BY <1>6 DEF Vote
<1>8. b.vote = "Yes" \/ b.vote = "No" \/ b.vote = "Abstain"
    BY <1>2 DEF Vote
<1>9. \/ proposals[id].votes["Yes"] # 0
      \/ proposals[id].votes["No"] # 0
      \/ proposals[id].votes["Abstain"] # 0
    BY <1>5, <1>8
<1>10. QED
    BY <1>7, <1>9 DEF TotalVotes

\* The time a proposer last proposed bounds the start of all its proposals.
ProposerTimes ==
    /\ \A a \in Addr : last_proposal_time[a] # None =>
           last_proposal_time[a] <= now
    /\ \A id \in ProposalIds :
           LET last == last_proposal_time[proposals[id].proposer]
           IN last # None /\ proposals[id].start_time <= last

\* A new proposal is made now by a proposer whose cooldown is over.
LEMMA Creation ==
    ASSUME GInv, CreateProposal
    PROVE  \E a \in Addr :
              /\ proposal_count' = proposal_count + 1
              /\ proposals'[proposal_count].proposer = a
              /\ proposals'[proposal_count].start_time = now
              /\ \A id \in ProposalIds : proposals'[id] = proposals[id]
              /\ last_proposal_time' = [last_proposal_time EXCEPT ![a] = now]
              /\ now' = now
              /\ disbursements'[proposal_count] = 0
              /\ \A id \in ProposalIds : disbursements'[id] = disbursements[id]
              /\ (proposal_cooldown > 0 /\ last_proposal_time[a] # None) =>
                    now >= last_proposal_time[a] + proposal_cooldown
<1>1. PICK a \in Addr, x \in Text, q \in Amount, d \in 0..(MaxDuration + 1),
           act \in Action \cup {None}, su \in Answer, b \in Answer :
              create_proposal(a, x, q, d, act, su, b)
    BY DEF CreateProposal
<1>2. PICK p :
         /\ p.proposer = a /\ p.start_time = now
         /\ proposals' = Extend(proposals, proposal_count, p)
         /\ disbursements' = Extend(disbursements, proposal_count, 0)
         /\ proposal_count' = proposal_count + 1
    BY <1>1 DEF create_proposal
<1>3. /\ proposal_count \in Nat
      /\ proposal_count \in 0..proposal_count
      /\ \A id \in ProposalIds : id \in 0..proposal_count /\ id # proposal_count
    BY DEF GInv, TypeOK, ProposalIds
<1>4. /\ proposals'[proposal_count] = p
      /\ disbursements'[proposal_count] = 0
      /\ \A id \in ProposalIds :
            proposals'[id] = proposals[id] /\ disbursements'[id] = disbursements[id]
    BY <1>2, <1>3 DEF Extend
<1>5. /\ last_proposal_time' = [last_proposal_time EXCEPT ![a] = now]
      /\ now' = now
      /\ (proposal_cooldown > 0 /\ last_proposal_time[a] # None) =>
            now >= last_proposal_time[a] + proposal_cooldown
    BY <1>1 DEF create_proposal, ProposerAllowed
<1>6. QED
    BY <1>2, <1>4, <1>5

\* All other steps add no proposal and leave the proposers' times alone.
LEMMA NoCreation ==
    ASSUME GInv, [Next]_vars, ~CreateProposal
    PROVE  /\ proposal_count' = proposal_count
           /\ last_proposal_time' = last_proposal_time
           /\ now' >= now
<1> USE DEF GInv
<1>0. now \in Int
    BY BoundsAssumption DEF TypeOK, Time
<1>1. CASE Initialize
    BY <1>0, <1>1 DEF Initialize, initialize, EmptyUntilReady
<1>2. CASE AmendProposal \/ CastVote \/ RetractVote \/ ChangeVote
  <2>1. UNCHANGED <<counters, now>>
      BY <1>2 DEF AmendProposal, amend_proposal, CastVote, cast_vote,
                  RetractVote, retract_vote, ChangeVote, change_vote
  <2>2. QED
      BY <1>0, <2>1 DEF counters
<1>3. CASE Finalise \/ Execute \/ Cancel \/ UpdateQuorum
    BY <1>0, <1>3 DEF Finalise, finalise, Execute, execute, Cancel, cancel,
                UpdateQuorum, update_quorum, counters
<1>4. CASE AdminTransfer
    BY <1>0, <1>4 DEF AdminTransfer, propose_admin, accept_admin,
                cancel_admin_transfer, counters
<1>5. CASE Configure
    BY <1>0, <1>5 DEF Configure, update_voting_token, set_paused,
                set_min_proposal_balance, set_proposal_cooldown,
                set_restrict_admin_vote, counters
<1>6. CASE Tick \/ UNCHANGED vars
  <2>1. CASE Tick
    <3>1. PICK t \in Time : t > now /\ now' = t
        BY <2>1 DEF Tick
    <3>2. t \in Int
        BY BoundsAssumption DEF Time
    <3>3. QED
        BY <2>1, <3>1, <3>2, <1>0 DEF Tick, counters
  <2>2. CASE UNCHANGED vars
      BY <1>0, <2>2 DEF vars, counters
  <2>3. QED
      BY <1>6, <2>1, <2>2
<1>7. QED
    BY <1>1, <1>2, <1>3, <1>4, <1>5, <1>6 DEF Next

\* The proposers' times stay right.
LEMMA NextTimes ==
    ASSUME GInv, ProposerTimes, [Next]_vars
    PROVE  ProposerTimes'
<1>0. /\ now \in Nat
      /\ \A a \in Addr : last_proposal_time[a] # None =>
            last_proposal_time[a] \in Nat
      /\ \A id \in ProposalIds :
            proposals[id].start_time \in Nat /\ proposals[id].proposer \in Addr
      /\ None \notin Time /\ now \in Time
      /\ last_proposal_time \in [Addr -> Time \cup {None}]
    BY BoundsAssumption, NoneAssumption DEF GInv, TypeOK, Time, Proposal
<1>1. CASE CreateProposal
  <2>1. PICK a \in Addr :
           /\ proposal_count' = proposal_count + 1
           /\ proposals'[proposal_count].proposer = a
           /\ proposals'[proposal_count].start_time = now
           /\ \A id \in ProposalIds : proposals'[id] = proposals[id]
           /\ last_proposal_time' = [last_proposal_time EXCEPT ![a] = now]
           /\ now' = now
      BY <1>1, Creation
  <2>2. \A id \in ProposalIds' : id \in ProposalIds \/ id = proposal_count
      BY <2>1 DEF GInv, TypeOK, ProposalIds
  <2>3. \A x \in Addr : /\ x = a => last_proposal_time'[x] = now
                        /\ x # a => last_proposal_time'[x] = last_proposal_time[x]
      BY <2>1, <1>0
  <2>4. \A x \in Addr : last_proposal_time'[x] # None =>
                           last_proposal_time'[x] <= now'
      BY <2>1, <2>3, <1>0 DEF ProposerTimes
  <2>5. ASSUME NEW id \in ProposalIds'
        PROVE  LET last == last_proposal_time'[proposals'[id].proposer]
               IN last # None /\ proposals'[id].start_time <= last
    <3>1. CASE id = proposal_count
        BY <3>1, <2>1, <2>3, <1>0
    <3>2. CASE id \in ProposalIds
      <4> DEFINE x == proposals[id].proposer
      <4>1. /\ proposals'[id] = proposals[id] /\ x \in Addr
            /\ last_proposal_time[x] # None
            /\ proposals[id].start_time <= last_proposal_time[x]
            /\ last_proposal_time[x] <= now
          BY <3>2, <2>1, <1>0 DEF ProposerTimes
      <4>2. last_proposal_time'[x] = now
               \/ last_proposal_time'[x] = last_proposal_time[x]
          BY <4>1, <2>3
      <4>3. proposals[id].start_time \in Nat /\ last_proposal_time[x] \in Nat
          BY <3>2, <4>1, <1>0
      <4> HIDE DEF x
      <4>4. last_proposal_time'[x] # None
               /\ proposals[id].start_time <= last_proposal_time'[x]
          BY <4>1, <4>2, <4>3, <1>0
      <4>5. QED
          BY <4>1, <4>4 DEF x
    <3>3. QED
        BY <2>2, <3>1, <3>2
  <2>6. QED
      BY <2>4, <2>5 DEF ProposerTimes
<1>2. CASE ~CreateProposal
  <2>1. /\ proposal_count' = proposal_count
        /\ last_proposal_time' = last_proposal_time
        /\ now' >= now
      BY <1>2, NoCreation
  <2>2. now' \in Nat
      BY NextGInv, BoundsAssumption DEF GInv, TypeOK, Time
  <2>3. \A x \in Addr : last_proposal_time'[x] # None =>
                           last_proposal_time'[x] <= now'
      BY <2>1, <2>2, <1>0 DEF ProposerTimes
  <2>4. \A id \in ProposalIds : KeptStep(id)
      BY StepKeeps
  <2>5. QED
      BY <2>1, <2>3, <2>4 DEF ProposerTimes, KeptStep, ProposalIds
<1>3. QED
    BY <1>1, <1>2

\* A payment is counted only in the step that executes its proposal.
LEMMA PaymentStep ==
    ASSUME GInv, [Next]_vars, NEW id \in ProposalIds
    PROVE  \/ disbursements'[id] = disbursements[id]
           \/ /\ disbursements'[id] = disbursements[id] + 1
              /\ proposals[id].state = "Passed"
              /\ proposals'[id].state = "Executed"
              /\ proposals[id].treasury_action # None
<1> USE DEF GInv
<1>1. CASE Execute
  <2>1. PICK a \in Addr, i \in ProposalIds : execute(a, i)
      BY <1>1 DEF Execute
  <2>2. CASE id = i
    <3>1. proposals[id] \in Proposal /\ disbursements \in [ProposalIds -> Nat]
        BY DEF TypeOK
    <3>2. /\ proposals[id].state = "Passed"
          /\ proposals'[id].state = "Executed"
        BY <2>1, <2>2, <3>1 DEF execute, Executable, TypeOK, Proposal
    <3>3. QED
        BY <2>1, <2>2, <3>1, <3>2 DEF execute
  <2>3. CASE id # i
      BY <2>1, <2>3 DEF execute, TypeOK
  <2>4. QED
      BY <2>2, <2>3
<1>2. CASE CreateProposal
    BY <1>2, Creation
<1>3. CASE ~Execute /\ ~CreateProposal
  <2>1. disbursements' = disbursements
    <3>1. CASE Initialize \/ AdminTransfer
        BY <3>1 DEF Initialize, initialize, AdminTransfer, propose_admin,
                    accept_admin, cancel_admin_transfer
    <3>2. CASE AmendProposal \/ CastVote \/ RetractVote \/ ChangeVote
        BY <3>2 DEF AmendProposal, amend_proposal, CastVote, cast_vote,
                    RetractVote, retract_vote, ChangeVote, change_vote
    <3>3. CASE Finalise \/ Cancel \/ UpdateQuorum
        BY <3>3 DEF Finalise, finalise, Cancel, cancel, UpdateQuorum,
                    update_quorum
    <3>4. CASE Configure
        BY <3>4 DEF Configure, update_voting_token, set_paused,
                    set_min_proposal_balance, set_proposal_cooldown,
                    set_restrict_admin_vote
    <3>5. CASE Tick \/ UNCHANGED vars
        BY <3>5 DEF Tick, vars
    <3>6. QED
        BY <1>3, <3>1, <3>2, <3>3, <3>4, <3>5 DEF Next
  <2>2. QED
      BY <2>1
<1>4. QED
    BY <1>1, <1>2, <1>3

\* A proposal is paid for at most once: it can be executed only from Passed, and
\* nothing leads back there.
LEMMA NextDisbursed ==
    ASSUME GInv, DisbursedOnce, [Next]_vars
    PROVE  DisbursedOnce'
<1> SUFFICES ASSUME NEW id \in ProposalIds'
             PROVE  /\ disbursements'[id] <= 1
                    /\ disbursements'[id] = 1 =>
                          /\ proposals'[id].state = "Executed"
                          /\ proposals'[id].treasury_action # None
    BY DEF DisbursedOnce
<1>1. CASE id \in ProposalIds
  <2>1. /\ disbursements[id] \in Nat /\ disbursements[id] <= 1
        /\ disbursements[id] = 1 => /\ proposals[id].state = "Executed"
                                    /\ proposals[id].treasury_action # None
      BY <1>1 DEF GInv, TypeOK, DisbursedOnce
  <2>2. proposals[id].state = "Executed" => proposals'[id].state = "Executed"
      BY <1>1, StepLifecycle DEF LifecycleStep, ProposalState
  <2>3. proposals'[id].treasury_action = proposals[id].treasury_action
      BY <1>1, StepKeeps DEF KeptStep
  <2>4. CASE disbursements'[id] = disbursements[id]
      BY <2>1, <2>2, <2>3, <2>4
  <2>5. CASE /\ disbursements'[id] = disbursements[id] + 1
             /\ proposals[id].state = "Passed"
             /\ proposals'[id].state = "Executed"
             /\ proposals[id].treasury_action # None
    <3>1. disbursements[id] = 0
        BY <2>1, <2>5
    <3>2. QED
        BY <3>1, <2>3, <2>5
  <2>6. QED
      BY <1>1, <2>4, <2>5, PaymentStep
<1>2. CASE id \notin ProposalIds
  <2>1. CreateProposal
      BY <1>2, NoCreation DEF ProposalIds
  <2>2. id = proposal_count
      BY <1>2, <2>1, Creation DEF ProposalIds, GInv, TypeOK
  <2>3. disbursements'[id] = 0
      BY <2>1, <2>2, Creation
  <2>4. QED
      BY <2>3
<1>3. QED
    BY <1>1, <1>2

-----------------------------------------------------------------------------
(* The polls behind the proposals: every action is an action of the box *)

\* Steps that leave proposals, ballots and payments alone leave the polls.
LEMMA PollsFrame ==
    ASSUME UNCHANGED <<proposal_count, proposals, vote_record, disbursements>>
    PROVE  Polls' = Polls
BY DEF Polls, Poll, ProposalIds

\* The polls that are open are the Active proposals.
LEMMA OpenAreActive ==
    /\ DOMAIN Polls = ProposalIds
    /\ Box!OpenPolls = ActiveIds
    /\ \A id \in ProposalIds : Polls[id] = Poll(id)
<1>1. DOMAIN Polls = ProposalIds /\ \A id \in ProposalIds : Polls[id] = Poll(id)
    BY DEF Polls
<1>2. QED
    BY <1>1 DEF Box!OpenPolls, ActiveIds, Poll

\* A step that touches proposal i only changes poll i only.
LEMMA OnePoll ==
    ASSUME NEW i \in ProposalIds, proposal_count' = proposal_count,
           \A id \in ProposalIds : id # i =>
              /\ proposals'[id] = proposals[id]
              /\ vote_record'[id] = vote_record[id]
              /\ disbursements'[id] = disbursements[id],
           NEW q, Poll(i)' = q
    PROVE  Polls' = [Polls EXCEPT ![i] = q]
<1>1. ProposalIds' = ProposalIds
    BY DEF ProposalIds
<1>2. Polls' = [id \in ProposalIds |-> Poll(id)']
    BY <1>1 DEF Polls
<1>3. ASSUME NEW id \in ProposalIds, id # i PROVE Poll(id)' = Poll(id)
    BY <1>3 DEF Poll
<1>4. QED
    BY <1>2, <1>3 DEF Polls

\* The box counts as the contract's module does.
LEMMA SameCardinality ==
    ASSUME NEW S
    PROVE  Box!Cardinality(S) = Cardinality(S)
BY DEF Box!Cardinality, Cardinality

\* The tallies give the verdict that the ballots give.
LEMMA VerdictIsOutcome ==
    ASSUME GInv, NEW i \in ProposalIds
    PROVE  Box!Verdict(Poll(i)) = Outcome(proposals[i])
<1>1. ASSUME NEW c PROVE Box!Backing(vote_record[i], c) = Weight(i, c)
    BY SameCardinality DEF Box!Backing, Weight, Units
<1>2. /\ proposals[i].votes["Yes"] = Weight(i, "Yes")
      /\ proposals[i].votes["No"] = Weight(i, "No")
      /\ proposals[i].votes["Abstain"] = Weight(i, "Abstain")
    BY DEF GInv, TallyExact, Vote
<1>3. Poll(i).ballots = vote_record[i] /\ Poll(i).quorum = proposals[i].quorum
    BY DEF Poll
<1>4. Box!Carried(Poll(i)) <=>
         TotalVotes(proposals[i]) >= proposals[i].quorum
         /\ proposals[i].votes["Yes"] > proposals[i].votes["No"]
    BY <1>1, <1>2, <1>3 DEF Box!Carried, TotalVotes
<1>5. QED
    BY <1>4 DEF Box!Verdict, Outcome

\* The box takes it as a ballot filled in.
LEMMA FillStep ==
    ASSUME GInv, CastVote \/ RetractVote \/ ChangeVote
    PROVE  Box!BoxNext
<1> USE DEF GInv
<1>1. PICK i, a, b, vs, n :
         /\ i \in ProposalIds /\ a \in Addr /\ b \in VoteRecord \cup {None}
         /\ IsActive(i) /\ ~VotingOver(proposals[i])
         /\ (vote_record[i][a] # None /\ b # None) =>
               b.weight = vote_record[i][a].weight
         /\ vote_record' = [vote_record EXCEPT ![i][a] = b]
         /\ proposals' = [proposals EXCEPT
                ![i] = [proposals[i] EXCEPT !.votes = vs, !.voter_count = n]]
    BY BallotStep
<1>2. UNCHANGED <<config, counters, disbursements, now>>
  <2>1. CASE CastVote
      BY <2>1 DEF CastVote, cast_vote
  <2>2. CASE RetractVote
      BY <2>2 DEF RetractVote, retract_vote
  <2>3. CASE ChangeVote
      BY <2>3 DEF ChangeVote, change_vote
  <2>4. QED
      BY <2>1, <2>2, <2>3
<1>3. UNCHANGED <<proposal_count, disbursements, voting_token, now>>
    BY <1>2 DEF config, counters
<1>4. /\ proposals[i] \in Proposal /\ vote_record[i] \in Records
      /\ vote_record'[i] = [vote_record[i] EXCEPT ![a] = b]
      /\ proposals'[i] = [proposals[i] EXCEPT !.votes = vs, !.voter_count = n]
      /\ \A id \in ProposalIds : id # i =>
            proposals'[id] = proposals[id] /\ vote_record'[id] = vote_record[id]
    BY <1>1 DEF TypeOK, Records
<1>5. Poll(i)' = [Poll(i) EXCEPT !.ballots[a] = b]
    BY <1>3, <1>4 DEF Poll, Proposal
<1>6. Polls' = [Polls EXCEPT ![i] = [Polls[i] EXCEPT !.ballots[a] = b]]
  <2>1. Polls' = [Polls EXCEPT ![i] = [Poll(i) EXCEPT !.ballots[a] = b]]
      BY <1>1, <1>3, <1>4, <1>5, OnePoll
  <2>2. QED
      BY <1>1, <2>1, OpenAreActive
<1>7. /\ i \in Box!OpenPolls /\ i \in DOMAIN Polls
      /\ now <= Polls[i].end /\ Polls[i].ballots[a] = vote_record[i][a]
  <2>1. i \in ActiveIds /\ Polls[i] = Poll(i) /\ i \in DOMAIN Polls
      BY <1>1, OpenAreActive DEF IsActive, ActiveIds
  <2>2. now \in Int /\ proposals[i].end_time \in Int
      BY <1>4, BoundsAssumption DEF TypeOK, Proposal, Time
  <2>3. now <= proposals[i].end_time
      BY <1>1, <2>2 DEF VotingOver
  <2>4. QED
      BY <2>1, <2>3, OpenAreActive DEF Poll
<1>8. b \in Box!Ballot \cup {None}
    BY <1>1, BoundsAssumption DEF Box!Ballot, VoteRecord, Vote, Amount
<1>9. Box!Fill(i, a, b)
    BY <1>1, <1>3, <1>6, <1>7 DEF Box!Fill, Box!Edit
<1>10. QED
    BY <1>1, <1>7, <1>8, <1>9 DEF Box!BoxNext

\* The poll of proposal i, were it q.
PollOf(i, q) ==
    [ wording |-> q.text, quorum |-> q.quorum, end |-> q.end_time,
      ballots |-> vote_record[i], state |-> q.state, paid |-> disbursements[i] ]

\* A step that rewrites one Active proposal edits one open poll.
LEMMA EditStep ==
    ASSUME GInv, NEW i \in ProposalIds, proposals[i].state = "Active",
           NEW q, proposals' = [proposals EXCEPT ![i] = q],
           UNCHANGED <<proposal_count, vote_record, disbursements,
                       voting_token, now>>
    PROVE  /\ i \in DOMAIN Polls /\ i \in Box!OpenPolls /\ Polls[i] = Poll(i)
           /\ Box!Edit(i, PollOf(i, q))
<1>1. /\ proposals'[i] = q
      /\ \A id \in ProposalIds : id # i => proposals'[id] = proposals[id]
    BY DEF GInv, TypeOK
<1>2. Poll(i)' = PollOf(i, q)
    BY <1>1 DEF Poll, PollOf
<1>3. Polls' = [Polls EXCEPT ![i] = PollOf(i, q)]
    BY <1>1, <1>2, OnePoll
<1>4. i \in ActiveIds
    BY DEF ActiveIds
<1>5. QED
    BY <1>3, <1>4, OpenAreActive DEF Box!Edit

\* An amendment finds no ballot, since it finds no tally.
LEMMA RewordStep ==
    ASSUME GInv, AmendProposal
    PROVE  Box!BoxNext
<1>1. PICK a \in Addr, i \in ProposalIds, x \in Text : amend_proposal(a, i, x)
    BY DEF AmendProposal
<1> DEFINE q == [proposals[i] EXCEPT !.text = x]
<1>2. proposals[i] \in Proposal /\ vote_record[i] \in Records
    BY DEF GInv, TypeOK, Records
<1>3. /\ proposals[i].state = "Active" /\ x \in ValidText
      /\ TotalVotes(proposals[i]) = 0
      /\ proposals' = [proposals EXCEPT ![i] = q]
    BY <1>1 DEF amend_proposal, IsActive
<1>4. UNCHANGED <<proposal_count, vote_record, disbursements, voting_token, now>>
    BY <1>1 DEF amend_proposal, config, counters, ballots
<1>5. /\ i \in DOMAIN Polls /\ i \in Box!OpenPolls /\ Polls[i] = Poll(i)
      /\ Box!Edit(i, PollOf(i, q))
    BY <1>3, <1>4, EditStep
<1>6. PollOf(i, q) = [Polls[i] EXCEPT !.wording = x]
    BY <1>2, <1>5 DEF Poll, PollOf, Proposal
<1>7. \A v \in Addr : vote_record[i][v] = None
    BY <1>3, BallotShows
<1>8. Polls[i].ballots = Box!Empty
    BY <1>2, <1>5, <1>7 DEF Poll, Records, Box!Empty
<1>9. Box!Reword(i, x)
    BY <1>5, <1>6, <1>8 DEF Box!Reword
<1>10. QED
    BY <1>3, <1>5, <1>9 DEF Box!BoxNext

\* update_quorum.
LEMMA RequorumStep ==
    ASSUME GInv, UpdateQuorum
    PROVE  Box!BoxNext
<1>1. PICK a \in Addr, i \in ProposalIds, x \in Amount, su \in Answer :
         update_quorum(a, i, x, su)
    BY DEF UpdateQuorum
<1> DEFINE q == [proposals[i] EXCEPT !.quorum = x]
<1>2. proposals[i] \in Proposal
    BY DEF GInv, TypeOK
<1>3. /\ proposals[i].state = "Active" /\ x > 0
      /\ proposals' = [proposals EXCEPT ![i] = q]
    BY <1>1 DEF update_quorum, IsActive
<1>4. UNCHANGED <<proposal_count, vote_record, disbursements, voting_token, now>>
    BY <1>1 DEF update_quorum, config, counters, ballots
<1>5. /\ i \in DOMAIN Polls /\ i \in Box!OpenPolls /\ Polls[i] = Poll(i)
      /\ Box!Edit(i, PollOf(i, q))
    BY <1>3, <1>4, EditStep
<1>6. PollOf(i, q) = [Polls[i] EXCEPT !.quorum = x]
    BY <1>2, <1>5 DEF Poll, PollOf, Proposal
<1>7. x \in 1..MaxI128
    BY <1>3, BoundsAssumption DEF Amount
<1>8. QED
    BY <1>5, <1>6, <1>7 DEF Box!BoxNext, Box!Requorum

\* finalise gives the verdict of the ballots, cancel withdraws the poll.
LEMMA CloseStep ==
    ASSUME GInv, Finalise \/ Cancel
    PROVE  Box!BoxNext
<1>1. PICK i, st :
         /\ i \in ProposalIds /\ proposals[i].state = "Active"
         /\ proposals' = [proposals EXCEPT ![i] = [proposals[i] EXCEPT !.state = st]]
         /\ UNCHANGED <<proposal_count, vote_record, disbursements, voting_token, now>>
         /\ \/ st = Outcome(proposals[i]) /\ VotingOver(proposals[i])
            \/ st = "Cancelled"
    BY DEF Finalise, finalise, Cancel, cancel, IsActive, config, ballots
<1> DEFINE q == [proposals[i] EXCEPT !.state = st]
<1>2. proposals[i] \in Proposal
    BY <1>1 DEF GInv, TypeOK
<1>3. /\ i \in DOMAIN Polls /\ i \in Box!OpenPolls /\ Polls[i] = Poll(i)
      /\ Box!Edit(i, PollOf(i, q))
    BY <1>1, EditStep
<1>4. PollOf(i, q) = [Polls[i] EXCEPT !.state = st]
    BY <1>2, <1>3 DEF Poll, PollOf, Proposal
<1>5. CASE st = "Cancelled"
    BY <1>3, <1>4, <1>5 DEF Box!BoxNext, Box!Withdraw
<1>6. CASE st = Outcome(proposals[i]) /\ VotingOver(proposals[i])
  <2>1. st = Box!Verdict(Polls[i]) /\ now > Polls[i].end
      BY <1>1, <1>3, <1>6, VerdictIsOutcome DEF VotingOver, Poll
  <2>2. QED
      BY <1>3, <1>4, <2>1 DEF Box!BoxNext, Box!Close
<1>7. QED
    BY <1>1, <1>5, <1>6

\* An execution finds its poll unpaid, and pays at most once.
LEMMA CarryOutStep ==
    ASSUME GInv, DisbursedOnce, Execute
    PROVE  Box!BoxNext
<1>1. PICK a \in Addr, i \in ProposalIds : execute(a, i)
    BY DEF Execute
<1>2. /\ proposals[i] \in Proposal /\ disbursements \in [ProposalIds -> Nat]
      /\ proposals \in [ProposalIds -> Proposal]
    BY DEF GInv, TypeOK
<1>3. /\ proposals[i].state = "Passed"
      /\ proposals' = [proposals EXCEPT ![i].state = "Executed"]
      /\ disbursements' \in {disbursements, [disbursements EXCEPT ![i] = @ + 1]}
    BY <1>1 DEF execute, Executable
<1>4. UNCHANGED <<proposal_count, vote_record, voting_token, now>>
    BY <1>1 DEF execute, config, counters, ballots
<1>5. disbursements[i] = 0
    BY <1>2, <1>3 DEF DisbursedOnce
<1>6. PICK paid \in {0, 1} : disbursements'[i] = paid
    BY <1>2, <1>3, <1>5
<1>7. /\ proposals'[i] = [proposals[i] EXCEPT !.state = "Executed"]
      /\ \A id \in ProposalIds : id # i => /\ proposals'[id] = proposals[id]
                                           /\ disbursements'[id] = disbursements[id]
    BY <1>2, <1>3
<1>8. Poll(i)' = [Poll(i) EXCEPT !.state = "Executed", !.paid = paid]
  <2> DEFINE p == proposals[i]
             old == [ wording |-> p.text, quorum |-> p.quorum, end |-> p.end_time,
                      ballots |-> vote_record[i], state |-> p.state,
                      paid |-> disbursements[i] ]
             new == [ wording |-> p.text, quorum |-> p.quorum, end |-> p.end_time,
                      ballots |-> vote_record[i], state |-> "Executed",
                      paid |-> paid ]
  <2>1. Poll(i) = old
      BY DEF Poll
  <2>2. Poll(i)' = new
    <3>1. /\ proposals'[i].text = p.text /\ proposals'[i].quorum = p.quorum
          /\ proposals'[i].end_time = p.end_time
          /\ proposals'[i].state = "Executed"
        BY <1>2, <1>7 DEF Proposal
    <3>2. vote_record'[i] = vote_record[i]
        BY <1>4
    <3>3. QED
        BY <1>6, <3>1, <3>2 DEF Poll
  <2> DEFINE done == [ wording |-> p.text, quorum |-> p.quorum, end |-> p.end_time,
                       ballots |-> vote_record[i], state |-> "Executed",
                       paid |-> disbursements[i] ]
  <2>3. new = [old EXCEPT !.state = "Executed", !.paid = paid]
    <3>1. [old EXCEPT !.state = "Executed"] = done
        OBVIOUS
    <3>2. [done EXCEPT !.paid = paid] = new
        OBVIOUS
    <3>3. QED
        BY <3>1, <3>2
  <2>4. QED
      BY <2>1, <2>2, <2>3
<1>9. Polls' = [Polls EXCEPT ![i] = [Poll(i) EXCEPT !.state = "Executed", !.paid = paid]]
    BY <1>4, <1>7, <1>8, OnePoll
<1>10. /\ i \in DOMAIN Polls /\ Polls[i] = Poll(i)
       /\ Polls[i].state = "Passed" /\ Polls[i].paid = 0
    BY <1>3, <1>5, OpenAreActive DEF Poll
<1>11. Polls' = [Polls EXCEPT ![i].state = "Executed", ![i].paid = paid]
    BY <1>9, <1>10
<1>12. Box!CarryOut(i)
    BY <1>4, <1>10, <1>11 DEF Box!CarryOut
<1>13. QED
    BY <1>10, <1>12 DEF Box!BoxNext

\* create_proposal finds a slot free, since the counter is exact.
LEMMA OpenStep ==
    ASSUME GInv, CreateProposal
    PROVE  Box!BoxNext
<1> USE DEF GInv
<1>1. PICK a \in Addr, x \in Text, q \in Amount, d \in 0..(MaxDuration + 1),
           act \in Action \cup {None}, su \in Answer, b \in Answer :
              create_proposal(a, x, q, d, act, su, b)
    BY DEF CreateProposal
<1>n. PICK n : n = proposal_count
    OBVIOUS
<1>e. PICK e : e = now + d
    OBVIOUS
<1> DEFINE new == [wording |-> x, quorum |-> q, end |-> e, ballots |-> Box!Empty,
                   state |-> "Active", paid |-> 0]
<1>2. /\ x \in ValidText /\ q > 0 /\ e < MaxTime
      /\ active_proposal_count < MaxActive
      /\ UNCHANGED <<voting_token, now>>
    BY <1>1, <1>e DEF create_proposal, QuorumAllowed, config
<1>3. x \in ValidText /\ q \in 1..MaxI128 /\ e \in 0..MaxTime
    BY <1>2, <1>e, BoundsAssumption DEF Amount, TypeOK, Time
<1>4. PICK p :
         /\ proposals' = Extend(proposals, n, p)
         /\ vote_record' = Extend(vote_record, n, [v \in Addr |-> None])
         /\ disbursements' = Extend(disbursements, n, 0)
         /\ proposal_count' = n + 1
         /\ p.text = x /\ p.quorum = q /\ p.end_time = e /\ p.state = "Active"
    BY <1>1, <1>n, <1>e DEF create_proposal
<1>5. n \in Nat /\ ProposalIds' = 0..n /\ n \in 0..n
  <2>1. n \in Nat
      BY <1>n, BoundsAssumption DEF TypeOK
  <2>2. ProposalIds' = 0..n
      BY <1>4, <2>1 DEF ProposalIds
  <2>3. QED
      BY <2>1, <2>2
<1>6. Poll(n)' = new
  <2>1. /\ proposals'[n] = p /\ vote_record'[n] = Box!Empty
        /\ disbursements'[n] = 0
      BY <1>4, <1>5 DEF Extend, Box!Empty
  <2>2. QED
      BY <1>4, <2>1 DEF Poll
<1>7. ASSUME NEW id \in 0..n, id # n PROVE Poll(id)' = Polls[id]
  <2>1. id \in ProposalIds
      BY <1>n, <1>5, <1>7 DEF ProposalIds
  <2>2. /\ proposals'[id] = proposals[id] /\ vote_record'[id] = vote_record[id]
        /\ disbursements'[id] = disbursements[id]
      BY <1>4, <1>7 DEF Extend
  <2>3. QED
      BY <2>1, <2>2 DEF Poll, Polls
<1>8. Polls' = [i \in 0..n |-> IF i = n THEN new ELSE Polls[i]]
  <2>1. Polls' = [id \in 0..n |-> Poll(id)']
      BY <1>5 DEF Polls
  <2>2. QED
      BY <1>6, <1>7, <2>1
<1>9. Box!Cardinality(DOMAIN Polls) = n
  <2>1. Cardinality(0..(n - 1)) = n
      BY <1>5, FS_Interval
  <2>2. QED
      BY <1>n, <2>1, OpenAreActive, SameCardinality DEF ProposalIds
<1>10. Box!Cardinality(Box!OpenPolls) < MaxActive
    BY <1>2, OpenAreActive, SameCardinality DEF ActiveCountExact
<1>11. Box!Open(x, q, e)
    BY <1>2, <1>8, <1>9, <1>10 DEF Box!Open
<1>12. QED
    BY <1>3, <1>11 DEF Box!BoxNext

\* Every other step changes the token, between polls, or the time, or nothing
\* that the box shows.
LEMMA OtherStep ==
    ASSUME GInv, Initialize \/ AdminTransfer \/ Configure \/ Tick \/ UNCHANGED vars
    PROVE  [Box!BoxNext]_<<Polls, voting_token, now>>
<1> USE DEF GInv
<1>1. CASE Initialize \/ Configure
  <2>1. UNCHANGED <<proposal_count, proposals, vote_record, disbursements, now>>
    <3>1. CASE Initialize
        BY <3>1 DEF Initialize, initialize, EmptyUntilReady, ballots
    <3>2. CASE Configure
        BY <3>2 DEF Configure, update_voting_token, set_paused,
                    set_min_proposal_balance, set_proposal_cooldown,
                    set_restrict_admin_vote, counters, ballots
    <3>3. QED
        BY <1>1, <3>1, <3>2
  <2>2. Polls' = Polls
      BY <2>1, PollsFrame
  <2>3. CASE voting_token' # voting_token
    <3>1. Box!OpenPolls = {}
        BY <1>1, <2>3, TokenStep, OpenAreActive DEF Next
    <3>2. voting_token' \in Token
        BY <1>1, <2>3 DEF Initialize, initialize, Configure, update_voting_token,
              set_paused, set_min_proposal_balance, set_proposal_cooldown,
              set_restrict_admin_vote
    <3>3. QED
        BY <2>1, <2>2, <3>1, <3>2 DEF Box!BoxNext, Box!Exchange
  <2>4. QED
      BY <2>1, <2>2, <2>3
<1>2. CASE Tick
  <2>1. Polls' = Polls /\ voting_token' = voting_token
      BY <1>2, PollsFrame DEF Tick, config, counters, ballots
  <2>2. \E t \in 0..MaxTime : t > now /\ now' = t
      BY <1>2 DEF Tick, Time
  <2>3. QED
      BY <2>1, <2>2 DEF Box!BoxNext, Box!Pass
<1>3. CASE AdminTransfer \/ UNCHANGED vars
  <2>1. UNCHANGED <<proposal_count, proposals, vote_record, disbursements, now,
                    voting_token>>
      BY <1>3 DEF AdminTransfer, propose_admin, accept_admin,
                  cancel_admin_transfer, vars, config, counters, ballots
  <2>2. QED
      BY <2>1, PollsFrame
<1>4. QED
    BY <1>1, <1>2, <1>3

-----------------------------------------------------------------------------
(* The theorems *)

\* Every variable keeps its type: tallies never leave 0..i128::MAX.
THEOREM TypeCorrect == Spec => []TypeOK
    BY SpecGInv, PTL DEF GInv

\* active_proposal_count is the number of Active proposals.
THEOREM ActiveCountCorrect == Spec => []ActiveCountExact
    BY SpecGInv, PTL DEF GInv

\* The tallies are the recorded ballots, added up.
THEOREM TallyCorrect == Spec => []TallyExact
    BY SpecGInv, PTL DEF GInv

\* No step leaves the lifecycle, and a proposal that has left Active keeps its
\* ballots, tallies, quorum and text.
THEOREM LifecycleCorrect == Spec => LifecycleRespected
<1>1. ASSUME GInv, [Next]_vars
      PROVE  [\A id \in ProposalIds : LifecycleStep(id)]_vars
    BY <1>1, StepLifecycle
<1>2. QED
    BY <1>1, SpecGInv, PTL DEF Spec, LifecycleRespected

\* Every decision of finalise is, and remains, what the recorded ballots say.
THEOREM DecisionCorrect == Spec => []DecisionMatchesBallots
<1>1. Init => DecisionMatchesBallots
    BY DEF Init, ProposalIds, DecisionMatchesBallots
<1>2. QED
    BY <1>1, NextDecided, SpecGInv, PTL DEF Spec

\* The voting token never changes under an Active proposal.
THEOREM TokenFixed == Spec => TokenFixedWhileActive
<1>1. ASSUME GInv, [Next]_vars
      PROVE  [voting_token' # voting_token => ActiveIds = {}]_vars
    BY <1>1, TokenStep
<1>2. QED
    BY <1>1, SpecGInv, PTL DEF Spec, TokenFixedWhileActive

\* A payload is disbursed at most once and only for an Executed proposal.
THEOREM DisbursementCorrect == Spec => []DisbursedOnce
<1>1. Init => DisbursedOnce
    BY DEF Init, ProposalIds, DisbursedOnce
<1>2. QED
    BY <1>1, NextDisbursed, SpecGInv, PTL DEF Spec

\* No amendment under a recorded ballot, not even an abstention: the tallies
\* that amend_proposal tests are zero only without ballots.
THEOREM TextFixed == Spec => TextFixedUnderBallots
<1>1. ASSUME GInv, [Next]_vars, NEW id \in ProposalIds,
             \E a \in Addr : vote_record[id][a] # None
      PROVE  proposals'[id].text = proposals[id].text
  <2>1. TotalVotes(proposals[id]) # 0
    <3>1. TotalVotes(proposals[id]) > 0
        BY <1>1, BallotShows
    <3>2. QED
        BY <3>1
  <2>2. QED
      BY <1>1, <2>1, StepKeeps DEF KeptStep
<1>2. ASSUME GInv, [Next]_vars
      PROVE  [\A id \in ProposalIds :
                 (\E a \in Addr : vote_record[id][a] # None) =>
                     proposals'[id].text = proposals[id].text]_vars
    BY <1>1, <1>2
<1>3. QED
    BY <1>2, SpecGInv, PTL DEF Spec, TextFixedUnderBallots

\* A new proposal keeps the cooldown to all earlier ones of its proposer,
\* although the contract remembers only the time of the last one.
THEOREM CooldownCorrect == Spec => CooldownHonoured
<1> DEFINE Apart ==
        proposal_count' > proposal_count =>
           \A id \in ProposalIds :
              proposals[id].proposer = proposals'[proposal_count].proposer =>
                  now >= proposals[id].start_time + proposal_cooldown
<1>1. Init => ProposerTimes
    BY DEF Init, ProposalIds, ProposerTimes
<1>2. ASSUME GInv, ProposerTimes, [Next]_vars
      PROVE  Apart
  <2> SUFFICES ASSUME proposal_count' > proposal_count, NEW id \in ProposalIds,
                      proposals[id].proposer = proposals'[proposal_count].proposer
               PROVE  now >= proposals[id].start_time + proposal_cooldown
      OBVIOUS
  <2> DEFINE a == proposals[id].proposer
             last == last_proposal_time[a]
             start == proposals[id].start_time
  <2>1. CreateProposal
      BY <1>2, NoCreation DEF GInv, TypeOK
  <2>2. a \in Addr
      BY <1>2 DEF GInv, TypeOK, Proposal
  <2>3. last # None /\ start <= last /\ last <= now
      BY <1>2, <2>2 DEF ProposerTimes
  <2>4. (proposal_cooldown > 0 /\ last # None) => now >= last + proposal_cooldown
      BY <1>2, <2>1, Creation
  <2>5. start \in Nat /\ last \in Nat /\ now \in Nat /\ proposal_cooldown \in Nat
      BY <1>2, <2>2, <2>3, BoundsAssumption DEF GInv, TypeOK, Proposal, Time
  <2> HIDE DEF last, start, a
  <2>6. now >= start + proposal_cooldown
      BY <2>3, <2>4, <2>5
  <2>7. QED
      BY <2>6 DEF start
<1>3. Spec => []ProposerTimes
    BY <1>1, NextTimes, SpecGInv, PTL DEF Spec
<1>4. GInv /\ ProposerTimes /\ [Next]_vars => [Apart]_vars
    BY <1>2
<1>5. QED
    BY <1>3, <1>4, SpecGInv, PTL DEF Spec, CooldownHonoured

\* The contract is a ballot box: everything it keeps besides the ballots serves
\* to answer as one that reads every verdict off them.
THEOREM BallotBoxRefined == Spec => BallotBoxImplemented
<1>1. Init => Box!BoxInit
    BY OpenAreActive DEF Init, Box!BoxInit, ProposalIds
<1>2. ASSUME GInv, DisbursedOnce, [Next]_vars
      PROVE  [Box!BoxNext]_<<Polls, voting_token, now>>
    BY <1>2, FillStep, RewordStep, RequorumStep, CloseStep, CarryOutStep,
       OpenStep, OtherStep DEF Next
<1>3. Spec => []DisbursedOnce
    BY DisbursementCorrect
<1>4. QED
    BY <1>1, <1>2, <1>3, SpecGInv, PTL
    DEF Spec, BallotBoxImplemented, Box!BoxSpec, Box!box_vars
=============================================================================
