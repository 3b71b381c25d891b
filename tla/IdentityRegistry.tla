-------------------------- MODULE IdentityRegistry --------------------------
(***************************************************************************)
(* What the identity service promises, without files, rows or containers:  *)
(* a set of identities one may use, some of which are leased to a          *)
(* provider.  Only an identity that is known and free is leased, and only  *)
(* one that is free is given up.                                           *)
(***************************************************************************)
CONSTANT Identity

VARIABLES
  known,    \* identities with a row and a key
  leased    \* identities that serve a provider

vars == <<known, leased>>

Init == known = {} /\ leased = {}

Enter(i) == known' = known \cup {i} /\ UNCHANGED leased

Leave(i) ==
  /\ i \in known \ leased
  /\ known' = known \ {i}
  /\ UNCHANGED leased

Take(i) ==
  /\ i \in known \ leased
  /\ leased' = leased \cup {i}
  /\ UNCHANGED known

Release(i) ==
  /\ i \in leased
  /\ leased' = leased \ {i}
  /\ UNCHANGED known

Next == \E i \in Identity : Enter(i) \/ Leave(i) \/ Take(i) \/ Release(i)

Step == Next \/ UNCHANGED vars

=============================================================================
