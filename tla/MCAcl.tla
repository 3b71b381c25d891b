-------------------------------- MODULE MCAcl -------------------------------
(* The access list on small instances.                                     *)
EXTENDS NginxAcl, TLC

Symmetric == Permutations(User) \cup Permutations(Port) \cup Permutations(Slots)

=============================================================================
