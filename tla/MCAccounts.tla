----------------------------- MODULE MCAccounts -----------------------------
(* The instance of Accounts that TLC checks.  Requests and aliases are interchangeable. *)
EXTENDS Accounts, TLC

RequestSymmetry == Permutations(Requests) \cup Permutations(AliasIds)
=============================================================================
