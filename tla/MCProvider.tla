----------------------------- MODULE MCProvider -----------------------------
(* The provider lifecycle on small instances.                              *)
EXTENDS ProviderLifecycle, TLC

Symmetric == Permutations(Provider) \cup Permutations(Identity) \cup Permutations(Slots)

=============================================================================
