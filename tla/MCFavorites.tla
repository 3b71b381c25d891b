----------------------------- MODULE MCFavorites -----------------------------
(* Proxies open to users, and their marks, on small instances.             *)
EXTENDS Favorites, TLC

Symmetric == Permutations(User) \cup Permutations(Port) \cup Permutations(Kind)
               \cup Permutations(Slots)

=============================================================================
