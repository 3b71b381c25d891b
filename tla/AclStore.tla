------------------------------ MODULE AclStore ------------------------------
(***************************************************************************)
(* What the proxy access list promises, with neither file nor nginx: a set *)
(* of grants to which one is added when it does not collide with those     *)
(* there, and from which one is taken.  A store that breaks stays broken   *)
(* until somebody repairs it by hand.                                      *)
(***************************************************************************)
EXTENDS AclRules

VARIABLES grants, broken

storeVars == <<grants, broken>>

StoreInit == grants = {} /\ broken = FALSE

Add(g) ==
  /\ ~broken
  /\ \A h \in grants : ~Collides(g, h) /\ h.id # g.id
  /\ grants' = grants \cup {g}
  /\ UNCHANGED broken

Revoke(i) ==
  /\ ~broken
  /\ grants' = {g \in grants : g.id # i}
  /\ UNCHANGED broken

Break == grants' = {} /\ broken' = TRUE

StoreNext == (\E g \in Grant : Add(g)) \/ (\E i \in Id : Revoke(i)) \/ Break

StoreSpec == StoreInit /\ [][StoreNext]_storeVars

=============================================================================
