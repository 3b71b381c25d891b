------------------------------- MODULE MCPorts -------------------------------
(* The choice of host ports on small instances.                            *)
EXTENDS SocatPorts, TLC

ASSUME OrderAssumption == StringsInOrder

Symmetric == Permutations(Slots)

=============================================================================
