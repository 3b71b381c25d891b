------------------------------ MODULE AclRules ------------------------------
(***************************************************************************)
(* Grants of the proxy access list and when two of them collide.           *)
(***************************************************************************)
EXTENDS Naturals

CONSTANTS User, Port, AllUsers, MaxOps

ASSUME AllUsersAssumption == AllUsers \notin User

Id == 1 .. MaxOps

(* ports = {} stands for every port.                                       *)
Grant ==
  {g \in [id : Id, user : User \cup {AllUsers}, ports : SUBSET Port] :
     g.user = AllUsers => g.ports = {}}

(* A grant is refused next to one that reaches all ports, or the same one; *)
(* a grant to all users is compared with everybody's.                      *)
Collides(g, h) ==
  /\ g.user = AllUsers \/ h.user \in {g.user, AllUsers}
  /\ h.ports = {} \/ h.ports \cap g.ports # {}

(* No two rows of a user name the same port, no user has all ports twice,  *)
(* and a grant to all users does not stand beside one of all ports to a    *)
(* single user.  (A user may have some ports by name and then get all.)    *)
Disjoint(rules) ==
  \A g, h \in rules :
    /\ g.user = h.user /\ g # h => g.ports \cap h.ports = {} /\ (g.ports # {} \/ h.ports # {})
    /\ g.user = AllUsers /\ h.user # AllUsers => h.ports # {}

=============================================================================
