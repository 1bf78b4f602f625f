----------------------------- MODULE MCGovernance -----------------------------
(* Small instances of the governance contract for TLC. *)
EXTENDS Governance, TLC

\* Accounts are interchangeable: Init and Next treat them alike.
AddrSymmetry == Permutations(Addr)
=============================================================================
