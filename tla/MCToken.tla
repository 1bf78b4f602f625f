-------------------------------- MODULE MCToken --------------------------------
(* Small instances of the token contract for TLC. *)
EXTENDS Token, TLC

\* Accounts are interchangeable: TokenInit and TokenNext treat them alike.
AccountSymmetry == Permutations(Account)

\* A supply below zero, which initialize accepts, and one above.
MCSupplies == {-1, 2}

\* Bound: grants of different pairs do not interact, and neither do grants and
\* delegations, so at most one of all these exists at a time.
OneRelation ==
    Cardinality({p \in Account \X Account :
                     \/ allowance[p[1]][p[2]] # None
                     \/ grants[p[1]][p[2]].approved > 0})
      + Cardinality({a \in Account : delegation[a] # None}) <= 1
=============================================================================
