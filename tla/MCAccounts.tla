----------------------------- MODULE MCAccounts -----------------------------
(* The instance of Accounts that TLC checks: accounts are interchangeable. *)
EXTENDS Accounts, TLC

Symmetry == Permutations(Users)
=============================================================================
