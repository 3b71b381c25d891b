----------------------------- MODULE MCCatalogue -----------------------------
EXTENDS Catalogue, TLC

(* What the agreement of the views is proved from holds of the constants.  *)
ASSUME PageAssumption == OnePage

Symmetric == Permutations(Slots) \cup Permutations(Provider \ Odd)
=============================================================================
