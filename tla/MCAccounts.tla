----------------------------- MODULE MCAccounts -----------------------------
(* Accounts with model values that are interchangeable.                    *)
EXTENDS Accounts, TLC

Symmetry == Permutations(Users) \cup Permutations(Emails)
            \cup Permutations(ProviderIds) \cup Permutations(Requests)
=============================================================================
