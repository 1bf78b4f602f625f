----------------------------- MODULE MCCosmosVote -----------------------------
(* Small instances of the composed contracts for TLC. *)
EXTENDS CosmosVote, TLC

CONSTANTS a1, a2, t1

\* One payload in the voting token, one in the native asset.
MCAction == {[recipient |-> a1, amount |-> 1, asset |-> t1],
             [recipient |-> a1, amount |-> 1, asset |-> Native]}

\* The parts of the token's state that Token's own runs explore in full.
Disturbed ==
    {f \in {"grant", "delegation", "pause", "transfer of admin"} :
        CASE f = "grant" -> \E o \in Addr, s \in Addr \cup Treasury :
                                \/ grants[o][s].approved > 0
                                \/ allowance[o][s] # None
          [] f = "delegation" -> \E a \in Addr : delegation[a] # None
          [] f = "pause" -> token_paused
          [] f = "transfer of admin" ->
                 token_pending_admin # None \/ token_admin \in Treasury}

\* Bound: one such disturbance at a time, of one unit if it is a grant, and
\* only before governance is initialized; governance is not paused, its admin
\* stays and may vote.
Quiet ==
    /\ Cardinality(Disturbed) <=
           IF contract_state = "Uninitialized" /\ now = 0 THEN 1 ELSE 0
    /\ \A o \in Addr, s \in Addr \cup Treasury : grants[o][s].approved <= 1
    /\ ~paused
    /\ ~restrict_admin_vote
    /\ pending_admin = None
=============================================================================
