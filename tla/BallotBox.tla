------------------------------ MODULE BallotBox ------------------------------
(***************************************************************************)
(* What the governance contract promises to those who vote, without its    *)
(* mechanism: polls with at most one ballot per voter and a verdict that   *)
(* is read off the ballots.  There are no tallies, flags, counters, admin  *)
(* or pause.  Governance.tla is shown to implement this specification.     *)
(***************************************************************************)
EXTENDS Integers, FiniteSets

CONSTANTS
    Voter, Wording, Currency, None,
    MaxWeight, MaxOpen, MaxClock

VARIABLES
    polls,       \* polls[id]: the polls opened so far, numbered from 0
    currency,    \* what the ballots weigh
    clock

box_vars == <<polls, currency, clock>>

Ballot == [vote : {"Yes", "No", "Abstain"}, weight : 1..MaxWeight]
Empty == [v \in Voter |-> None]

\* The total weight of the ballots for c, as a number of units.
Backing(ballots, c) ==
    Cardinality({u \in Voter \X (1..MaxWeight) :
                    /\ ballots[u[1]] # None
                    /\ ballots[u[1]].vote = c
                    /\ u[2] <= ballots[u[1]].weight})

Carried(p) ==
    /\ Backing(p.ballots, "Yes") > Backing(p.ballots, "No")
    /\ Backing(p.ballots, "Yes") + Backing(p.ballots, "No")
         + Backing(p.ballots, "Abstain") >= p.quorum

Verdict(p) == IF Carried(p) THEN "Passed" ELSE "Rejected"

OpenPolls == {id \in DOMAIN polls : polls[id].state = "Active"}

BoxInit == DOMAIN polls = {} /\ currency = None /\ clock = 0

\* A poll opens, the next in number, without ballots.
Open(wording, quorum, end) ==
    /\ Cardinality(OpenPolls) < MaxOpen
    /\ LET id == Cardinality(DOMAIN polls)
           poll == [wording |-> wording, quorum |-> quorum, end |-> end,
                    ballots |-> Empty, state |-> "Active", paid |-> 0]
       IN polls' = [i \in 0..id |-> IF i = id THEN poll ELSE polls[i]]
    /\ UNCHANGED <<currency, clock>>

\* Poll id, which is still open, becomes p.
Edit(id, p) ==
    /\ id \in OpenPolls
    /\ polls' = [polls EXCEPT ![id] = p]
    /\ UNCHANGED <<currency, clock>>

\* A voter gives a first ballot, takes it back, or changes what it is for.
Fill(id, voter, ballot) ==
    LET old == polls[id].ballots[voter]
    IN /\ id \in OpenPolls
       /\ clock <= polls[id].end
       /\ (old # None /\ ballot # None) => ballot.weight = old.weight
       /\ Edit(id, [polls[id] EXCEPT !.ballots[voter] = ballot])

\* The wording is settled by the first ballot.
Reword(id, wording) ==
    /\ id \in OpenPolls /\ polls[id].ballots = Empty
    /\ Edit(id, [polls[id] EXCEPT !.wording = wording])

Requorum(id, quorum) ==
    id \in OpenPolls /\ Edit(id, [polls[id] EXCEPT !.quorum = quorum])

\* After its end a poll gets the verdict of its ballots.
Close(id) ==
    /\ id \in OpenPolls /\ clock > polls[id].end
    /\ Edit(id, [polls[id] EXCEPT !.state = Verdict(polls[id])])

Withdraw(id) ==
    id \in OpenPolls /\ Edit(id, [polls[id] EXCEPT !.state = "Cancelled"])

\* A poll that passed is carried out, once, and paid for at most once.
CarryOut(id) ==
    /\ polls[id].state = "Passed" /\ polls[id].paid = 0
    /\ \E paid \in {0, 1} :
          polls' = [polls EXCEPT ![id].state = "Executed", ![id].paid = paid]
    /\ UNCHANGED <<currency, clock>>

\* All ballots of a poll weigh the same currency.
Exchange(c) ==
    /\ OpenPolls = {}
    /\ currency' = c
    /\ UNCHANGED <<polls, clock>>

Pass ==
    /\ \E t \in 0..MaxClock : t > clock /\ clock' = t
    /\ UNCHANGED <<polls, currency>>

BoxNext ==
    \/ \E w \in Wording, q \in 1..MaxWeight, e \in 0..MaxClock : Open(w, q, e)
    \/ \E id \in DOMAIN polls :
          \/ \E v \in Voter, b \in Ballot \cup {None} : Fill(id, v, b)
          \/ \E w \in Wording : Reword(id, w)
          \/ \E q \in 1..MaxWeight : Requorum(id, q)
          \/ Close(id) \/ Withdraw(id) \/ CarryOut(id)
    \/ \E c \in Currency : Exchange(c)
    \/ Pass

BoxSpec == BoxInit /\ [][BoxNext]_box_vars
=============================================================================
