----------------------------- MODULE MCAccounts -----------------------------
EXTENDS Accounts, TLC

(* Requests are interchangeable, and so are users: Idle only fills a field.*)
RequestsAreAlike == Permutations(Requests)
=============================================================================
