----------------------------- MODULE MCIdentity -----------------------------
(* Identities on small instances.                                          *)
EXTENDS MystIdentity, TLC

Symmetric == Permutations(Identity) \cup Permutations(Password) \cup Permutations(Slots)

=============================================================================
