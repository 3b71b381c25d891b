--------------------------- MODULE ProviderLease ---------------------------
(***************************************************************************)
(* What the provider side of the API promises its clients.  An identity    *)
(* is leased to a provider, one identity to one provider at a time, and a  *)
(* proxy may be opened on a lease.  A lease with a proxy is not given up.  *)
(*                                                                         *)
(* Containers, tunnels, requests and their failures are left out: the      *)
(* lease is what remains when they are forgotten.                          *)
(***************************************************************************)
CONSTANTS Provider, Identity

VARIABLES
  leases,    \* pairs <<identity, provider>>
  proxied    \* the leases with a proxy

leaseVars == <<leases, proxied>>

LeaseTypeOK == leases \subseteq Identity \X Provider /\ proxied \subseteq leases

LeaseInit == leases = {} /\ proxied = {}

Acquire(i, p) ==
  /\ \A l \in leases : l[1] # i /\ l[2] # p
  /\ leases' = leases \cup {<<i, p>>}
  /\ UNCHANGED proxied

Release(l) ==
  /\ l \in leases \ proxied
  /\ leases' = leases \ {l}
  /\ UNCHANGED proxied

OpenProxy(l) ==
  /\ l \in leases \ proxied
  /\ proxied' = proxied \cup {l}
  /\ UNCHANGED leases

CloseProxy(l) ==
  /\ l \in proxied
  /\ proxied' = proxied \ {l}
  /\ UNCHANGED leases

LeaseNext ==
  \/ \E i \in Identity, p \in Provider : Acquire(i, p)
  \/ \E l \in leases : Release(l) \/ OpenProxy(l) \/ CloseProxy(l)

LeaseSpec == LeaseInit /\ [][LeaseNext]_leaseVars

(* One provider per identity and one identity per provider.                *)
Exclusive ==
  \A l, m \in leases : l[1] = m[1] \/ l[2] = m[2] => l = m

=============================================================================
