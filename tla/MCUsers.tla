------------------------------- MODULE MCUsers -------------------------------
(* The two stores of users on small instances.                             *)
EXTENDS UsersStores, TLC

Symmetric == Permutations(Name) \cup Permutations(Password) \cup Permutations(Slots)

=============================================================================
