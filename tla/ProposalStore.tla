---------------------------- MODULE ProposalStore ----------------------------
(***************************************************************************)
(* frontend/src/store/proposalStore.ts over the read calls of api.ts: the  *)
(* list of proposals and the user's votes, each loaded by many calls that  *)
(* the chain answers one by one while it moves on.  Nothing stops two      *)
(* loads from overlapping, and the last one to end is the one shown.       *)
(***************************************************************************)
EXTENDS Integers, FiniteSets

CONSTANTS
  Accounts,    \* voters
  Nobody,      \* null
  MaxProposals,
  MaxVersion,  \* bound on a proposal's changes on chain
  Loads,       \* slots for loadProposals calls in flight
  VoteLoads    \* slots for loadVotesForUser calls in flight

ASSUME StoreAssumption == Nobody \notin Accounts

Ids == 0..(MaxProposals - 1)

VARIABLES
  onChain,     \* onChain[i]: version of proposal i, 0 before it is created
  ballots,     \* <<account, i>> pairs with a vote record on chain
  proposals,   \* the list shown: a set of <<id, version>>
  loading, failed,       \* the loading flag; an error is shown
  pload,       \* pload[l]: a loadProposals in flight
  votedMap,    \* [of, ids]: the votes shown and whose they are
  vload,       \* vload[l]: a loadVotesForUser in flight
  \* History, read by properties only.
  asked,       \* the account last asked for; Nobody after clearVotes
  overlap, voteOverlap   \* two loads were in flight; a vote load outlived its user

list_vars == <<proposals, loading, failed, pload, overlap>>
vote_vars == <<votedMap, vload, asked, voteOverlap>>
store_vars == <<onChain, ballots, list_vars, vote_vars>>

proposal_count == Cardinality({i \in Ids : onChain[i] > 0})
NoLoad == [stage |-> "none", todo |-> {}, got |-> {}]
NoVoteLoad == [of |-> Nobody, ask |-> {}, confirm |-> {}, got |-> {}]
NoVotes == [of |-> Nobody, ids |-> {}]

StoreInit ==
  /\ onChain = [i \in Ids |-> 0] /\ ballots = {}
  /\ proposals = {} /\ loading = FALSE /\ failed = FALSE
  /\ pload = [l \in Loads |-> NoLoad]
  /\ votedMap = NoVotes /\ vload = [l \in VoteLoads |-> NoVoteLoad]
  /\ asked = Nobody /\ overlap = FALSE /\ voteOverlap = FALSE
-----------------------------------------------------------------------------
(* The list: fetchAllProposals asks for the count and then for every       *)
(* proposal at once; a proposal whose call fails is left out of the list.  *)

loadProposals(l) ==
  /\ pload[l] = NoLoad
  /\ pload' = [pload EXCEPT ![l].stage = "count"]
  /\ loading' = TRUE /\ failed' = FALSE
  /\ overlap' = (overlap \/ \E m \in Loads : pload[m] # NoLoad)
  /\ UNCHANGED <<onChain, ballots, proposals, vote_vars>>

fetchProposalCount(l) ==
  /\ pload[l].stage = "count"
  /\ pload' = [pload EXCEPT ![l] = [stage |-> "items", todo |-> 0..(proposal_count - 1), got |-> {}]]
  /\ UNCHANGED <<onChain, ballots, proposals, loading, failed, overlap, vote_vars>>

fetchProposal(l, i, ok) ==
  /\ pload[l].stage = "items" /\ i \in pload[l].todo
  /\ pload' = [pload EXCEPT ![l].todo = @ \ {i},
                            ![l].got = IF ok THEN @ \cup {<<i, onChain[i]>>} ELSE @]
  /\ UNCHANGED <<onChain, ballots, proposals, loading, failed, overlap, vote_vars>>

LoadedList_Merged(l) == proposals \cup pload[l].got
LoadedList(l) == pload[l].got

\* All calls have settled and fetchTokenDecimals has answered.
LoadEnds(l) ==
  /\ pload[l].stage = "items" /\ pload[l].todo = {}
  /\ proposals' = LoadedList(l)
  /\ loading' = FALSE
  /\ pload' = [pload EXCEPT ![l] = NoLoad]
  /\ UNCHANGED <<onChain, ballots, failed, overlap, vote_vars>>

StillLoading_AfterError == TRUE
StillLoading == FALSE

\* The count or the decimals call fails: the error is shown and the rest
\* of the load is ignored.
LoadFails(l) ==
  /\ pload[l] # NoLoad
  /\ failed' = TRUE /\ loading' = StillLoading
  /\ pload' = [pload EXCEPT ![l] = NoLoad]
  /\ UNCHANGED <<onChain, ballots, proposals, overlap, vote_vars>>
-----------------------------------------------------------------------------
(* The votes: for every proposal of the list at the time of the call, first *)
(* fetchHasVoted, then fetchVoteRecord; a failed call counts as no vote.    *)

loadVotesForUser(l, u) ==
  /\ vload[l] = NoVoteLoad
  /\ vload' = [vload EXCEPT ![l] = [NoVoteLoad EXCEPT !.of = u, !.ask = {p[1] : p \in proposals}]]
  /\ asked' = u
  /\ voteOverlap' = (voteOverlap \/ \E m \in VoteLoads : vload[m] # NoVoteLoad)
  /\ UNCHANGED <<onChain, ballots, list_vars, votedMap>>

fetchHasVoted(l, i, ok) ==
  /\ i \in vload[l].ask
  /\ vload' = [vload EXCEPT ![l].ask = @ \ {i},
       ![l].confirm = IF ok /\ <<vload[l].of, i>> \in ballots THEN @ \cup {i} ELSE @]
  /\ UNCHANGED <<onChain, ballots, list_vars, votedMap, asked, voteOverlap>>

fetchVoteRecord(l, i, ok) ==
  /\ i \in vload[l].confirm
  /\ vload' = [vload EXCEPT ![l].confirm = @ \ {i},
       ![l].got = IF ok /\ <<vload[l].of, i>> \in ballots THEN @ \cup {i} ELSE @]
  /\ UNCHANGED <<onChain, ballots, list_vars, votedMap, asked, voteOverlap>>

VotesEnd(l) ==
  /\ vload[l].of # Nobody /\ vload[l].ask = {} /\ vload[l].confirm = {}
  /\ votedMap' = [of |-> vload[l].of, ids |-> vload[l].got]
  /\ vload' = [vload EXCEPT ![l] = NoVoteLoad]
  /\ UNCHANGED <<onChain, ballots, list_vars, asked, voteOverlap>>

VotesCleared_Kept == votedMap
VotesCleared == NoVotes

clearVotes ==
  /\ votedMap' = VotesCleared
  /\ asked' = Nobody
  /\ voteOverlap' = (voteOverlap \/ \E m \in VoteLoads : vload[m] # NoVoteLoad)
  /\ UNCHANGED <<onChain, ballots, list_vars, vload>>
-----------------------------------------------------------------------------
\* The governance contract moves on (external): a proposal is created or
\* changes; a vote is cast or retracted.
ProposalMoves ==
  /\ \E i \in Ids : /\ onChain[i] < MaxVersion
                    /\ \A j \in 0..(i - 1) : onChain[j] > 0
                    /\ onChain' = [onChain EXCEPT ![i] = @ + 1]
  /\ UNCHANGED <<ballots, list_vars, vote_vars>>

BallotMoves ==
  /\ \E u \in Accounts, i \in Ids :
       /\ onChain[i] > 0
       /\ ballots' = IF <<u, i>> \in ballots THEN ballots \ {<<u, i>>}
                     ELSE ballots \cup {<<u, i>>}
  /\ UNCHANGED <<onChain, list_vars, vote_vars>>

ListStep ==
  \E l \in Loads :
     \/ loadProposals(l) \/ fetchProposalCount(l) \/ LoadEnds(l) \/ LoadFails(l)
     \/ \E i \in Ids, ok \in BOOLEAN : fetchProposal(l, i, ok)

VoteStep ==
  \/ clearVotes
  \/ \E l \in VoteLoads :
       \/ VotesEnd(l)
       \/ \E u \in Accounts : loadVotesForUser(l, u)
       \/ \E i \in Ids, ok \in BOOLEAN : fetchHasVoted(l, i, ok) \/ fetchVoteRecord(l, i, ok)

StoreNext == ListStep \/ VoteStep \/ ProposalMoves \/ BallotMoves
StoreSpec == StoreInit /\ [][StoreNext]_store_vars
-----------------------------------------------------------------------------
(* Unless two loads overlapped, a proposal that stays on screen never goes *)
(* back to an earlier state, and no proposal is shown twice, although the  *)
(* calls of a load are answered at different times and any may fail        *)
(* (proposalStore.ts loadProposals, api.ts fetchAllProposals).             *)
ListNeverGoesBack ==
  [][~overlap' =>
       \A p \in proposals, q \in proposals' : p[1] = q[1] => p[2] <= q[2]]_store_vars

(* The spinner is honest: whenever the list says it is loading a load is   *)
(* in flight that will end it, overlapping loads and failures included     *)
(* (proposalStore.ts loadProposals).                                       *)
SpinnerHonest ==
  /\ loading => \E l \in Loads : pload[l] # NoLoad
  /\ ~overlap => (loading <=> \E l \in Loads : pload[l] # NoLoad)

(* With no vote load in flight the votes shown are those of the account    *)
(* asked for last, none after clearVotes, unless a load was still in       *)
(* flight when the next began or the votes were cleared                    *)
(* (proposalStore.ts loadVotesForUser, clearVotes).                        *)
VotesOfAskedUser ==
  (~voteOverlap /\ \A l \in VoteLoads : vload[l] = NoVoteLoad) => votedMap.of = asked
=============================================================================
