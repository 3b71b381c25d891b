---------------------------- MODULE PortsProofs ----------------------------
(***************************************************************************)
(* The choice of host ports, for all sets of ports and any number of       *)
(* requests: first what NextBindPort returns, then the invariant.          *)
(***************************************************************************)
EXTENDS SocatPorts, FiniteSetTheorems, NaturalsInduction, WellFoundedInduction, TLAPS

(* A set of natural numbers has a least one.                               *)
Less == {ss \in Nat \X Nat : ss[1] < ss[2]}

LEMMA LeastOf ==
  ASSUME NEW T, T \subseteq Nat, T # {}
  PROVE  Min(T) \in T /\ \A y \in T : Min(T) =< y
<1>1. IsWellFoundedOn(Less, Nat)
  BY NatLessThanWellFounded DEF OpToRel, Less
<1>2. \E x \in T : \A y \in T : <<y, x>> \notin Less
  BY <1>1, WFMin
<1>3. PICK x \in T : \A y \in T : <<y, x>> \notin Less
  BY <1>2
<1>4. \A y \in T : ~(y < x)
  BY <1>3 DEF Less
<1>5. \A y \in T : x =< y
  BY <1>4
<1> QED
  BY <1>5 DEF Min

LEMMA PortsAreNumbers == Ports \subseteq Int /\ StartPort \in Int
  BY PortAssumption

LEMMA PortsFinite ==
  ASSUME NEW S, S \subseteq Ports \/ S \subseteq Foreign
  PROVE  IsFiniteSet(S) /\ Cardinality(S) \in Nat
<1>1. MaxPort \in Int
  BY DEF MaxPort
<1>2. IsFiniteSet(1 .. MaxPort)
  BY <1>1, FS_Interval
<1>3. S \in SUBSET (1 .. MaxPort)
  BY PortAssumption
<1> QED
  BY <1>2, <1>3, FS_Subset, FS_CardinalityType

-----------------------------------------------------------------------------
(* What Sorted and NextBindPort return.                                    *)

(* The rank of a port counts the smaller ones, so it grows with the port.  *)
LEMMA RanksGrow ==
  ASSUME StringsInOrder, NEW S, S \subseteq Ports
  PROVE  /\ Cardinality(S) \in Nat
         /\ \A p \in S : Rank(S, p) \in 0 .. Cardinality(S) - 1
         /\ \A p, q \in S : p < q => Rank(S, p) < Rank(S, q)
<1> DEFINE Below(p) == {q \in S : AsString(q) < AsString(p)}
<1>1. IsFiniteSet(S) /\ S \subseteq Int /\ Cardinality(S) \in Nat
  BY PortsFinite, PortsAreNumbers
<1>2. \A p \in S : /\ IsFiniteSet(Below(p)) /\ Cardinality(Below(p)) \in Nat
                   /\ Rank(S, p) = Cardinality(Below(p))
  BY <1>1, FS_Subset, FS_CardinalityType DEF Rank
<1>3. \A p, q \in S : q \in Below(p) <=> q < p
  BY DEF StringsInOrder
<1>4. \A p \in S : Below(p) \subseteq S
  OBVIOUS
<1> HIDE DEF Below
<1>5. ASSUME NEW p \in S, NEW T \in SUBSET S, Below(p) \cup {p} \subseteq T
      PROVE  Cardinality(Below(p)) + 1 =< Cardinality(T)
  <2>1. p \notin Below(p)
    BY <1>1, <1>3
  <2>2. Cardinality(Below(p) \cup {p}) = Cardinality(Below(p)) + 1
    BY <1>2, <2>1, FS_AddElement
  <2>3. IsFiniteSet(T)
    BY <1>1, FS_Subset
  <2> QED
    BY <1>5, <2>2, <2>3, FS_Subset
<1>6. ASSUME NEW p \in S PROVE Rank(S, p) \in 0 .. Cardinality(S) - 1
  BY <1>1, <1>2, <1>4, <1>5
<1>7. ASSUME NEW p \in S, NEW q \in S, p < q PROVE Rank(S, p) < Rank(S, q)
  <2>1. ASSUME NEW r \in Below(p) \cup {p} PROVE r \in Below(q)
    <3>1. r \in S /\ r \in Int /\ p \in Int /\ q \in Int /\ (r < p \/ r = p)
      BY <1>1, <1>3, <1>4
    <3>2. r < q
      BY <1>1, <1>7, <3>1
    <3> QED
      BY <1>3, <3>1, <3>2
  <2>2. Cardinality(Below(p)) + 1 =< Cardinality(Below(q))
    BY <1>4, <1>5, <2>1
  <2> QED
    BY <1>2, <2>2
<1> QED
  BY <1>1, <1>6, <1>7

(* Sorted lists the set, and in order.                                     *)
LEMMA SortedIs ==
  ASSUME StringsInOrder, NEW S, S \subseteq Ports
  PROVE  /\ \A n \in 1 .. Cardinality(S) : Sorted(S)[n] \in S
         /\ \A m, n \in 1 .. Cardinality(S) : m < n => Sorted(S)[m] < Sorted(S)[n]
         /\ \A p \in S : \E n \in 1 .. Cardinality(S) : Sorted(S)[n] = p
<1> DEFINE N == Cardinality(S)
           f == [p \in S |-> Rank(S, p) + 1]
<1>1. /\ N \in Nat /\ S \subseteq Int /\ IsFiniteSet(S)
      /\ \A p \in S : Rank(S, p) \in 0 .. N - 1
      /\ \A p, q \in S : p < q => Rank(S, p) < Rank(S, q)
  BY RanksGrow, PortsFinite, PortsAreNumbers
<1>2. \A p, q \in S : Rank(S, p) = Rank(S, q) => p = q
  BY <1>1
<1>3. f \in Surjection(S, 1 .. N)
  <2>1. f \in [S -> 1 .. N]
    BY <1>1
  <2>2. f \in Injection(S, 1 .. N)
    BY <1>1, <1>2, <2>1 DEF Injection, IsInjective
  <2>3. IsFiniteSet(1 .. N) /\ Cardinality(1 .. N) = N
    BY <1>1, FS_Interval
  <2> QED
    BY <2>2, <2>3, FS_Injection
<1>4. ASSUME NEW n \in 1 .. N PROVE \E p \in S : Rank(S, p) = n - 1
  <2>1. PICK p \in S : f[p] = n
    BY <1>3 DEF Surjection
  <2>2. f[p] = Rank(S, p) + 1 /\ Rank(S, p) \in Int
    BY <1>1
  <2> QED
    BY <2>1, <2>2
<1>5. ASSUME NEW n \in 1 .. N
      PROVE  Sorted(S)[n] \in S /\ Rank(S, Sorted(S)[n]) = n - 1
  <2>1. \E p \in S : Rank(S, p) = n - 1
    BY <1>4
  <2>2. Sorted(S)[n] = CHOOSE p \in S : Rank(S, p) = n - 1
    BY DEF Sorted
  <2> QED
    BY <2>1, <2>2
<1>6. ASSUME NEW m \in 1 .. N, NEW n \in 1 .. N, m < n PROVE Sorted(S)[m] < Sorted(S)[n]
  <2>1. /\ Sorted(S)[m] \in S /\ Rank(S, Sorted(S)[m]) = m - 1
        /\ Sorted(S)[n] \in S /\ Rank(S, Sorted(S)[n]) = n - 1
    BY <1>5
  <2> DEFINE x == Sorted(S)[m]
             y == Sorted(S)[n]
  <2> HIDE DEF x, y
  <2>2. x \in S /\ y \in S /\ x \in Int /\ y \in Int /\ Rank(S, x) < Rank(S, y)
    <3>1. x \in S /\ y \in S /\ Rank(S, x) = m - 1 /\ Rank(S, y) = n - 1
      BY <2>1 DEF x, y
    <3>2. x \in Int /\ y \in Int
      BY <1>1, <3>1
    <3>3. Rank(S, x) < Rank(S, y)
      BY <1>6, <3>1
    <3> QED
      BY <3>1, <3>2, <3>3
  <2>3. ~(Rank(S, y) < Rank(S, x)) /\ Rank(S, x) # Rank(S, y)
    BY <1>1, <2>2
  <2>4. y < x => Rank(S, y) < Rank(S, x)
    BY <1>1, <2>2
  <2>5. x < y
    BY <2>2, <2>3, <2>4
  <2> QED
    BY <2>5 DEF x, y
<1>7. ASSUME NEW p \in S PROVE \E n \in 1 .. N : Sorted(S)[n] = p
  <2>1. PICK n \in 1 .. N : Rank(S, p) = n - 1
    BY <1>1
  <2> QED
    BY <1>1, <1>2, <1>5, <2>1
<1> QED
  BY <1>5, <1>6, <1>7

(* The port NextBindPort returns is none of the set.                       *)
LEMMA NextIsFree ==
  ASSUME StringsInOrder, NEW S, S \subseteq Ports
  PROVE  NextBindPort(S) \notin S
<1> DEFINE n    == Cardinality(S)
           L    == Sorted(S)
           Idx  == 1 .. n
           gaps == {i \in 2 .. n : L[i] - L[i - 1] > 1}
           i    == Min(gaps)
           p    == L[i] - 1
<1>1. /\ n \in Nat
      /\ \A k \in Idx : L[k] \in S
      /\ \A j, k \in Idx : j < k => L[j] < L[k]
      /\ \A q \in S : \E k \in Idx : L[k] = q
  BY RanksGrow, SortedIs
<1>2. NextBindPort(S) = IF S = {} \/ StartPort < L[1] THEN StartPort
                        ELSE IF gaps = {} THEN L[n] + 1
                        ELSE IF p = L[n] THEN p + 1 ELSE p
  BY DEF NextBindPort
<1>3. SUFFICES ASSUME S # {} PROVE NextBindPort(S) \notin S
  OBVIOUS
<1>4. 1 \in Idx /\ n \in Idx /\ \A k \in Idx : k \in Int /\ 1 =< k /\ k =< n
  BY <1>1, <1>3
<1>5. /\ gaps \subseteq Nat
      /\ \A k \in gaps : k \in Idx /\ k - 1 \in Idx /\ L[k] - L[k - 1] > 1
  BY <1>1
<1> HIDE DEF n, L, Idx
<1>6. \A k \in Idx : L[k] \in Int
  BY <1>1, PortsAreNumbers
<1>7. \A k \in Idx : L[1] =< L[k] /\ L[k] =< L[n]
  BY <1>1, <1>4, <1>6
<1>8. \A q : (\A k \in Idx : L[k] # q) => q \notin S
  BY <1>1
<1>9. CASE StartPort < L[1]
  BY <1>2, <1>4, <1>6, <1>7, <1>8, <1>9, PortsAreNumbers
<1>10. CASE ~(StartPort < L[1]) /\ gaps = {}
  <2>1. NextBindPort(S) = L[n] + 1
    BY <1>2, <1>3, <1>10
  <2>2. \A k \in Idx : L[k] # L[n] + 1
    BY <1>4, <1>6, <1>7
  <2> QED
    BY <1>8, <2>1, <2>2
<1>11. CASE ~(StartPort < L[1]) /\ gaps # {}
  <2>1. i \in gaps
    BY <1>5, <1>11, LeastOf
  <2>2. i \in Idx /\ i - 1 \in Idx /\ L[i] - L[i - 1] > 1 /\ i \in Int
    BY <1>4, <1>5, <2>1
  <2> HIDE DEF i
  <2>3. p \in Int /\ L[i - 1] < p /\ p < L[i]
    BY <1>6, <2>2
  <2>4. ASSUME NEW k \in Idx PROVE L[k] # p
    <3>1. k < i - 1 \/ k = i - 1 \/ k = i \/ i < k
      BY <1>4, <2>2
    <3>2. L[k] =< L[i - 1] \/ L[i] =< L[k]
      BY <1>1, <1>6, <2>2, <3>1
    <3> QED
      BY <1>6, <2>2, <2>3, <3>2
  <2>5. NextBindPort(S) = p
    BY <1>2, <1>3, <1>4, <1>11, <2>4
  <2> QED
    BY <1>8, <2>4, <2>5
<1> QED
  BY <1>9, <1>10, <1>11

-----------------------------------------------------------------------------
(* What a request knows of its own containers.  Nobody else touches them,  *)
(* but for RemoveProxy, and that only takes running ones.                  *)

Own(r, C) == {c \in C : c.id = r.id}

Phase(r, M) ==
  /\ r.pc \notin {"idle", "done"} => \A c \in M : c.status # "running"
  /\ r.pc # "done" => r.out = "none"
  /\ r.pc = "clean" => r.tries = 0 /\ r.inUse = {}
  /\ r.pc = "pick" =>
       ~r.fixed /\ r.tries < MaxRetry /\ (M = {} => r.tries = 0 /\ r.inUse = {})
  /\ r.pc = "start" => M = {[id |-> r.id, port |-> r.port, status |-> "created"]}
  /\ r.pc = "giveUp" => r.fixed \/ r.tries = MaxRetry
  /\ ~r.stuck =>
       /\ r.pc \in {"clean", "create"} => M = {}
       /\ r.pc \in {"pick", "cleanAgain"} => \A c \in M : c.status = "refused"
       /\ r.pc = "done" /\ r.out # "Ok" => M = {}

(* Numbers are given out once.                                             *)
Numbers ==
  /\ \A c \in containers : c.id \in 1 .. ops
  /\ \A s \in Slots : req[s].pc # "idle" => req[s].id \in 1 .. ops
  /\ \A s, t \in Slots :
       s # t /\ req[s].pc # "idle" /\ req[t].pc # "idle" => req[s].id # req[t].id

PortsInv ==
  TypeOK /\ Numbers /\ \A s \in Slots : Phase(req[s], Own(req[s], containers))

(* Two sets of containers that only differ in those of request n.          *)
Elsewhere(C, D, n) == \A c \in C \cup D : c.id # n => c \in C /\ c \in D

LEMMA IdleOK == Idle \in Request
  BY PortAssumption, BoundAssumption DEF Idle, Request, PCs, Outcomes

LEMMA InitPorts == Init => PortsInv
<1> SUFFICES ASSUME Init PROVE PortsInv
  OBVIOUS
<1>1. Idle \in Request
  BY IdleOK
<1>2. TypeOK
  BY <1>1, BoundAssumption DEF Init, TypeOK
<1>3. \A s \in Slots : req[s].pc = "idle" /\ req[s].out = "none"
  BY DEF Init, Idle
<1>4. Numbers
  BY <1>3 DEF Init, Numbers
<1> QED
  BY <1>2, <1>3, <1>4 DEF PortsInv, Phase

(* A step of request s moves it to r and touches its own containers.       *)
LEMMA MovePorts ==
  ASSUME PortsInv, NEW s \in Slots, req[s].pc # "idle", NEW r \in Request,
         r.pc # "idle" => r.id = req[s].id, req' = [req EXCEPT ![s] = r],
         containers' \subseteq Container, Elsewhere(containers, containers', req[s].id),
         UNCHANGED ops, faults' \in 0 .. MaxFaults,
         Phase(r, Own(r, containers'))
  PROVE  PortsInv'
<1>1. req \in [Slots -> Request] /\ containers \subseteq Container /\ ops \in 0 .. MaxOps
  BY DEF PortsInv, TypeOK
<1>2. TypeOK'
  BY <1>1 DEF TypeOK
<1>3. req'[s] = r /\ \A t \in Slots : t # s => req'[t] = req[t]
  BY <1>1
<1>4. Numbers'
  <2>1. \A c \in containers' : c.id \in 1 .. ops
    BY DEF Elsewhere, PortsInv, Numbers
  <2>2. \A t \in Slots : req'[t].pc # "idle" => req[t].pc # "idle" /\ req'[t].id = req[t].id
    BY <1>3
  <2> QED
    BY <2>1, <2>2 DEF PortsInv, Numbers
<1>5. ASSUME NEW t \in Slots, t # s PROVE Phase(req'[t], Own(req'[t], containers'))
  <2>1. CASE req[t].pc = "idle"
    BY <1>3, <1>5, <2>1 DEF Phase, PortsInv
  <2>2. CASE req[t].pc # "idle"
    <3>1. req[t].id # req[s].id
      BY <1>5, <2>2 DEF PortsInv, Numbers
    <3>2. Own(req[t], containers') = Own(req[t], containers)
      BY <3>1 DEF Own, Elsewhere
    <3>3. Phase(req[t], Own(req[t], containers))
      BY DEF PortsInv
    <3> QED
      BY <1>3, <1>5, <3>2, <3>3 DEF Phase
  <2> QED
    BY <2>1, <2>2
<1> QED
  BY <1>2, <1>3, <1>4, <1>5 DEF PortsInv

(* What Goto and Answer leave of a request.                                *)
Alike(r, q) ==
  /\ r \in Request /\ r.id = q.id /\ r.fixed = q.fixed /\ r.port = q.port
  /\ r.inUse = q.inUse /\ r.tries = q.tries

LEMMA Goes ==
  ASSUME req \in [Slots -> Request], NEW s \in Slots, NEW l \in PCs, Goto(s, l)
  PROVE  \E r : /\ req' = [req EXCEPT ![s] = r] /\ Alike(r, req[s])
                /\ r.pc = l /\ r.out = req[s].out /\ r.stuck = req[s].stuck
<1> DEFINE r == [req[s] EXCEPT !.pc = l]
<1>1. req' = [req EXCEPT ![s] = r]
  BY DEF Goto
<1>2. req[s] \in Request
  OBVIOUS
<1>3. Alike(r, req[s]) /\ r.pc = l /\ r.out = req[s].out /\ r.stuck = req[s].stuck
  BY <1>2 DEF Alike, Request
<1> HIDE DEF r
<1> QED
  BY <1>1, <1>3

LEMMA Answers ==
  ASSUME req \in [Slots -> Request], NEW s \in Slots, NEW o \in Outcomes, Answer(s, o)
  PROVE  \E r : /\ req' = [req EXCEPT ![s] = r] /\ Alike(r, req[s])
                /\ r.pc = "done" /\ r.out = o
<1> DEFINE r == [req[s] EXCEPT !.pc = "done", !.out = o]
<1>1. req' = [req EXCEPT ![s] = r]
  BY DEF Answer
<1>2. req[s] \in Request
  OBVIOUS
<1>3. Alike(r, req[s]) /\ r.pc = "done" /\ r.out = o
  BY <1>2 DEF Alike, Request, PCs
<1> HIDE DEF r
<1> QED
  BY <1>1, <1>3

(* What the invariant says of one request.                                 *)
LEMMA PortsOf ==
  ASSUME PortsInv, NEW s \in Slots
  PROVE  /\ req \in [Slots -> Request] /\ req[s] \in Request
         /\ containers \subseteq Container
         /\ faults \in 0 .. MaxFaults /\ ops \in 0 .. MaxOps
         /\ Phase(req[s], Own(req[s], containers))
         /\ Mine(s) = Own(req[s], containers)
         /\ req[s].pc # "idle" => req[s].id \in 1 .. ops
  BY DEF PortsInv, TypeOK, Numbers, Mine, Own

(* What an answer with an error leaves of a request.                       *)
LEMMA CleanUps ==
  ASSUME PortsInv, NEW s \in Slots, req[s].pc \notin {"idle", "done"},
         NEW o \in Outcomes, o # "none", NEW gone, gone = {} \/ gone = Dropped(s),
         CleanUp(s, o, gone)
  PROVE  /\ containers' \subseteq containers
         /\ Elsewhere(containers, containers', req[s].id)
         /\ \E r : /\ req' = [req EXCEPT ![s] = r] /\ Alike(r, req[s])
                  /\ r.pc = "done" /\ r.out = o /\ Phase(r, Own(r, containers'))
<1> DEFINE M == Own(req[s], containers)
           r == [req[s] EXCEPT !.pc = "done", !.out = o, !.stuck = @ \/ gone # Dropped(s)]
<1>1. /\ req[s] \in Request /\ containers \subseteq Container /\ Mine(s) = M
      /\ Phase(req[s], M) /\ req \in [Slots -> Request]
  BY PortsOf
<1>2. req' = [req EXCEPT ![s] = r]
  BY DEF CleanUp
<1>3. Alike(r, req[s]) /\ r.pc = "done" /\ r.out = o
  BY <1>1 DEF Alike, Request, PCs
<1>4. ~r.stuck => ~req[s].stuck /\ gone = Dropped(s)
  BY <1>1 DEF Request
<1> HIDE DEF r
<1>5. Dropped(s) \subseteq M /\ containers' = containers \ gone
  BY <1>1 DEF Dropped, CleanUp
<1>6. containers' \subseteq containers /\ Elsewhere(containers, containers', req[s].id)
  BY <1>5 DEF Elsewhere, Own
<1>7. Own(r, containers') = M \ gone
  BY <1>3, <1>5 DEF Own, Alike
<1>8. ASSUME ~r.stuck PROVE M \ gone = {}
  <2>1. gone = Dropped(s) /\ ~req[s].stuck
    BY <1>4, <1>8
  <2>2. CASE req[s].pc \in {"clean", "create"}
    BY <1>1, <2>1, <2>2 DEF Phase
  <2>3. CASE req[s].pc \in {"pick", "cleanAgain"}
    <3>1. \A c \in M : c.status = "refused" /\ ~At(s, "clean")
      BY <1>1, <2>1, <2>3 DEF Phase, At
    <3> QED
      BY <1>1, <2>1, <3>1 DEF Dropped
  <2>4. CASE req[s].pc \in {"start", "giveUp"}
    BY <1>1, <2>1, <2>4 DEF Dropped, At
  <2> QED
    BY <1>1, <2>2, <2>3, <2>4 DEF Request, PCs
<1>9. Phase(r, Own(r, containers'))
  BY <1>3, <1>7, <1>8 DEF Phase
<1> QED
  BY <1>2, <1>3, <1>6, <1>9

LEMMA BeginPorts ==
  ASSUME PortsInv, NEW s \in Slots, Begin(s)
  PROVE  PortsInv'
<1>1. PICK p \in Ports, f \in BOOLEAN :
        req' = [req EXCEPT ![s] = [Idle EXCEPT
                  !.pc = "clean", !.id = ops + 1, !.fixed = f, !.port = p]]
  BY DEF Begin
<1>2. /\ req \in [Slots -> Request] /\ containers \subseteq Container
      /\ ops \in Nat /\ ops + 1 \in 0 .. MaxOps /\ UNCHANGED <<containers, faults>>
      /\ ops' = ops + 1
  BY BoundAssumption, PortsOf DEF Begin
<1> DEFINE r == [Idle EXCEPT !.pc = "clean", !.id = ops + 1, !.fixed = f, !.port = p]
<1>3. /\ r \in Request /\ r.pc = "clean" /\ r.id = ops + 1 /\ r.tries = 0
      /\ r.inUse = {} /\ r.out = "none"
  <2>1. /\ r.pc = "clean" /\ r.id = ops + 1 /\ r.tries = 0
        /\ r.inUse = {} /\ r.out = "none"
    BY DEF Idle
  <2>2. Idle \in Request
    BY IdleOK
  <2>3. r \in Request
    BY <1>2, <2>2 DEF Request, PCs
  <2> QED
    BY <2>1, <2>3
<1>4. req' = [req EXCEPT ![s] = r]
  BY <1>1
<1> HIDE DEF r
<1>5. req'[s] = r /\ \A t \in Slots : t # s => req'[t] = req[t]
  BY <1>2, <1>4
<1>6. TypeOK'
  BY <1>2, <1>3, <1>4 DEF TypeOK, PortsInv
<1>7. Numbers'
  <2>1. \A n \in 1 .. ops : n \in 1 .. ops' /\ n # ops + 1
    BY <1>2
  <2>2. ops + 1 \in 1 .. ops'
    BY <1>2
  <2>3. \A c \in containers' : c.id \in 1 .. ops'
    BY <1>2, <2>1 DEF PortsInv, Numbers
  <2>4. ASSUME NEW t \in Slots, req'[t].pc # "idle" PROVE req'[t].id \in 1 .. ops'
    BY <1>3, <1>5, <2>1, <2>2, <2>4 DEF PortsInv, Numbers
  <2>5. ASSUME NEW t \in Slots, NEW u \in Slots, t # u,
               req'[t].pc # "idle", req'[u].pc # "idle"
        PROVE  req'[t].id # req'[u].id
    BY <1>3, <1>5, <2>1, <2>5 DEF PortsInv, Numbers
  <2> QED
    BY <2>3, <2>4, <2>5 DEF Numbers
<1>8. Own(r, containers) = {}
  BY <1>2, <1>3 DEF Own, PortsInv, Numbers
<1>9. Phase(r, Own(r, containers))
  BY <1>3, <1>8 DEF Phase
<1> QED
  BY <1>2, <1>5, <1>6, <1>7, <1>9 DEF PortsInv

(* The sweeps and the end of a request.                                    *)
LEMMA SweepPorts ==
  ASSUME PortsInv, NEW s \in Slots, Clean(s) \/ CleanAgain(s)
  PROVE  PortsInv'
<1> DEFINE M == Own(req[s], containers)
<1>1. /\ req \in [Slots -> Request] /\ containers \subseteq Container
      /\ faults \in 0 .. MaxFaults /\ Phase(req[s], M) /\ Mine(s) = M
  BY PortsOf
<1>2. PICK l \in {"cleanAgain", "pick", "create"} :
        /\ Goto(s, l)
        /\ l = "create" <=> At(s, "cleanAgain")
        /\ At(s, "clean") \/ At(s, "cleanAgain")
        /\ l = "pick" => At(s, "clean") /\ ~req[s].fixed
  BY DEF Clean, CleanAgain, At
<1>3. containers' = Swept(s) /\ UNCHANGED <<ops, faults>>
  BY DEF Clean, CleanAgain
<1>4. l \in PCs /\ l \notin {"idle", "done"}
  BY <1>2 DEF PCs
<1>5. PICK r : /\ req' = [req EXCEPT ![s] = r] /\ Alike(r, req[s])
               /\ r.pc = l /\ r.out = req[s].out /\ r.stuck = req[s].stuck
  BY <1>1, <1>2, <1>4, Goes
<1>6. Elsewhere(containers, containers', req[s].id) /\ containers' \subseteq containers
  BY <1>1, <1>3 DEF Swept, Elsewhere, Own
<1>7. Own(r, containers') = {c \in M : c.status # "refused"}
  BY <1>1, <1>3, <1>5 DEF Swept, Own, Alike
<1>8. Phase(r, Own(r, containers'))
  BY <1>1, <1>2, <1>3, <1>5, <1>7, BoundAssumption DEF Phase, At, Alike
<1> QED
  BY <1>1, <1>2, <1>3, <1>4, <1>5, <1>6, <1>8, MovePorts DEF At, Alike

(* The port a request picks, and what it remembers.                        *)
Choice(s) == IF Labels = {} THEN StartPort ELSE NextBindPort(req[s].inUse \cup Labels)
Seen(s) == IF Labels = {} THEN req[s].inUse ELSE req[s].inUse \cup Labels

LEMMA Picks ==
  ASSUME PortsInv, NEW s \in Slots, Pick(s)
  PROVE  \E r \in Request :
           /\ req' = [req EXCEPT ![s] = r]
           /\ r.pc = "cleanAgain" /\ r.id = req[s].id /\ r.fixed = req[s].fixed
           /\ r.port = Choice(s) /\ r.inUse = Seen(s) /\ r.tries = req[s].tries + 1
           /\ r.out = req[s].out /\ r.stuck = req[s].stuck
<1> DEFINE r == [req[s] EXCEPT !.pc = "cleanAgain", !.port = Choice(s),
                              !.tries = @ + 1, !.inUse = Seen(s)]
<1>1. /\ req[s] \in Request /\ containers \subseteq Container
      /\ req \in [Slots -> Request] /\ At(s, "pick")
      /\ Phase(req[s], Own(req[s], containers))
  BY PortsOf DEF Pick
<1>2. Choice(s) \in Ports
  BY DEF Pick, Choice
<1>3. req' = [req EXCEPT ![s] = r]
  BY Zenon DEF Pick, Choice, Seen
<1>4. Seen(s) \subseteq Ports
  BY <1>1 DEF Seen, Labels, Container, Request
<1>5. req[s].tries + 1 \in 0 .. MaxRetry
  BY <1>1, BoundAssumption DEF Phase, At, Request
<1>6. /\ r \in Request /\ r.pc = "cleanAgain" /\ r.id = req[s].id /\ r.fixed = req[s].fixed
      /\ r.port = Choice(s) /\ r.inUse = Seen(s) /\ r.tries = req[s].tries + 1
      /\ r.out = req[s].out /\ r.stuck = req[s].stuck
  BY <1>1, <1>2, <1>4, <1>5 DEF Request, PCs
<1> HIDE DEF r
<1> QED
  BY <1>3, <1>6

LEMMA PickPorts ==
  ASSUME PortsInv, NEW s \in Slots, Pick(s)
  PROVE  PortsInv'
<1>1. /\ containers \subseteq Container /\ faults \in 0 .. MaxFaults /\ At(s, "pick")
      /\ Phase(req[s], Own(req[s], containers))
      /\ UNCHANGED <<containers, ops, faults>>
  BY PortsOf DEF Pick
<1>2. PICK r \in Request :
        /\ req' = [req EXCEPT ![s] = r]
        /\ r.pc = "cleanAgain" /\ r.id = req[s].id /\ r.out = req[s].out
        /\ r.stuck = req[s].stuck
  BY Picks
<1>3. Own(r, containers) = Own(req[s], containers)
  BY <1>2 DEF Own
<1>4. Phase(r, Own(r, containers))
  BY <1>1, <1>2, <1>3 DEF Phase, At
<1>5. Elsewhere(containers, containers, req[s].id)
  BY DEF Elsewhere
<1> QED
  BY <1>1, <1>2, <1>4, <1>5, MovePorts DEF At

LEMMA CreatePorts ==
  ASSUME PortsInv, NEW s \in Slots, Create(s)
  PROVE  PortsInv'
<1> DEFINE M == Own(req[s], containers)
           c == [id |-> req[s].id, port |-> req[s].port, status |-> "created"]
<1>1. /\ req \in [Slots -> Request] /\ req[s] \in Request /\ containers \subseteq Container
      /\ faults \in 0 .. MaxFaults /\ Phase(req[s], M) /\ Mine(s) = M
      /\ At(s, "create") /\ UNCHANGED <<ops, faults>> /\ req[s].id \in 1 .. ops
      /\ ops \in 0 .. MaxOps
  BY PortsOf DEF Create, At
<1>2. CASE M # {}
  <2>1. CleanUp(s, "Repository", Dropped(s))
    BY <1>1, <1>2 DEF Create
  <2>2. PICK r : /\ req' = [req EXCEPT ![s] = r] /\ Alike(r, req[s])
                 /\ r.pc = "done" /\ Phase(r, Own(r, containers'))
    BY <1>1, <2>1, CleanUps DEF Outcomes, At
  <2>3. containers' \subseteq Container /\ Elsewhere(containers, containers', req[s].id)
    BY <1>1, <2>1, CleanUps DEF Outcomes, At
  <2> QED
    BY <1>1, <2>2, <2>3, MovePorts DEF At, Alike
<1>3. CASE M = {}
  <2>1. Goto(s, "start") /\ containers' = containers \cup {c}
    BY <1>1, <1>3 DEF Create
  <2>2. PICK r : /\ req' = [req EXCEPT ![s] = r] /\ Alike(r, req[s])
                 /\ r.pc = "start" /\ r.out = req[s].out
    BY <1>1, <2>1, Goes DEF PCs
  <2>3. c \in Container /\ c.id = req[s].id
    BY <1>1 DEF Container, Request
  <2>4. containers' \subseteq Container /\ Elsewhere(containers, containers', req[s].id)
    BY <1>1, <2>1, <2>3 DEF Elsewhere
  <2>5. Own(r, containers') = {c}
    BY <1>3, <2>1, <2>2, <2>3 DEF Own, Alike
  <2>6. Phase(r, Own(r, containers'))
    BY <1>1, <2>2, <2>5 DEF Phase, At, Alike
  <2> QED
    BY <1>1, <2>1, <2>2, <2>4, <2>6, MovePorts DEF At, Alike
<1> QED
  BY <1>2, <1>3

(* The container of a request that starts gets another status.             *)
LEMMA Restatus ==
  ASSUME PortsInv, NEW s \in Slots, At(s, "start"), NEW t \in {"refused", "running"},
         containers' = WithStatus(s, t)
  PROVE  /\ Own(req[s], containers) =
              {[id |-> req[s].id, port |-> req[s].port, status |-> "created"]}
         /\ Own(req[s], containers') = {[id |-> req[s].id, port |-> req[s].port, status |-> t]}
         /\ containers' \subseteq Container
         /\ Elsewhere(containers, containers', req[s].id)
<1> DEFINE M == Own(req[s], containers)
           c == [id |-> req[s].id, port |-> req[s].port, status |-> "created"]
           d == [id |-> req[s].id, port |-> req[s].port, status |-> t]
<1>1. /\ req[s] \in Request /\ containers \subseteq Container /\ Mine(s) = M
      /\ M = {c} /\ req[s].id \in 1 .. MaxOps
  BY PortsOf, BoundAssumption DEF Phase, At
<1>2. [c EXCEPT !.status = t] = d /\ d.id = req[s].id /\ d \in Container
  BY <1>1 DEF Container, Request
<1>3. containers' = (containers \ {c}) \cup {d}
  BY <1>1, <1>2 DEF WithStatus
<1>4. c.id = req[s].id
  OBVIOUS
<1> HIDE DEF c, d
<1>5. Own(req[s], containers') = {d}
  BY <1>1, <1>2, <1>3 DEF Own
<1>6. containers' \subseteq Container /\ Elsewhere(containers, containers', req[s].id)
  BY <1>1, <1>2, <1>3, <1>4 DEF Elsewhere
<1> QED
  BY <1>1, <1>5, <1>6 DEF c, d

LEMMA StartPorts ==
  ASSUME PortsInv, NEW s \in Slots, Start(s) \/ StartRefused(s)
  PROVE  PortsInv'
<1>1. /\ req \in [Slots -> Request] /\ req[s] \in Request
      /\ faults \in 0 .. MaxFaults /\ At(s, "start") /\ UNCHANGED <<ops, faults>>
      /\ Phase(req[s], Own(req[s], containers))
  BY PortsOf DEF Start, StartRefused
<1>2. CASE Start(s)
  <2>1. containers' = WithStatus(s, "running") /\ Answer(s, "Ok")
    BY <1>2 DEF Start
  <2>2. PICK r : /\ req' = [req EXCEPT ![s] = r] /\ Alike(r, req[s])
                 /\ r.pc = "done" /\ r.out = "Ok"
    BY <1>1, <2>1, Answers DEF Outcomes
  <2>3. Phase(r, Own(r, containers'))
    BY <2>2 DEF Phase
  <2> QED
    BY <1>1, <2>1, <2>2, <2>3, Restatus, MovePorts DEF At, Alike
<1>3. CASE StartRefused(s)
  <2>1. PICK l \in {"giveUp", "pick"} :
          /\ Goto(s, l)
          /\ l = "giveUp" => req[s].fixed \/ req[s].tries = MaxRetry
          /\ l = "pick" => ~req[s].fixed /\ req[s].tries # MaxRetry
    BY <1>3 DEF StartRefused
  <2>2. containers' = WithStatus(s, "refused")
    BY <1>3 DEF StartRefused
  <2>3. PICK r : /\ req' = [req EXCEPT ![s] = r] /\ Alike(r, req[s])
                 /\ r.pc = l /\ r.out = req[s].out
    BY <1>1, <2>1, Goes DEF PCs
  <2>4. Own(r, containers') = {[id |-> req[s].id, port |-> req[s].port, status |-> "refused"]}
    <3>1. Own(r, containers') = Own(req[s], containers')
      BY <2>3 DEF Own, Alike
    <3> QED
      BY <1>1, <2>2, <3>1, Restatus
  <2>5. /\ l = "giveUp" => r.fixed \/ r.tries = MaxRetry
        /\ l = "pick" => ~r.fixed /\ r.tries < MaxRetry
    BY <1>1, <2>1, <2>3, BoundAssumption DEF Alike, Request
  <2>6. r.out = "none" /\ Own(r, containers') # {}
        /\ \A c \in Own(r, containers') : c.status = "refused"
    BY <1>1, <2>3, <2>4 DEF Phase, At
  <2>7. Phase(r, Own(r, containers'))
    BY <2>1, <2>3, <2>5, <2>6 DEF Phase
  <2> QED
    BY <1>1, <2>1, <2>2, <2>3, <2>7, Restatus, MovePorts DEF At, Alike
<1> QED
  BY <1>2, <1>3

(* It is done, and "Unknown" is the answer of all attempts used up only.   *)
Ended(s) ==
  \E r : /\ req' = [req EXCEPT ![s] = r] /\ Alike(r, req[s]) /\ r.pc = "done"
         /\ r.out = "Unknown" => At(s, "giveUp") /\ ~req[s].fixed

(* A request gives up or fails.                                            *)
LEMMA EndPorts ==
  ASSUME PortsInv, NEW s \in Slots, GiveUp(s) \/ Fail(s)
  PROVE  /\ req[s].pc \notin {"idle", "done"} /\ UNCHANGED ops
         /\ containers' \subseteq containers
         /\ Elsewhere(containers, containers', req[s].id)
         /\ Ended(s)
         /\ PortsInv'
<1>1. /\ containers \subseteq Container /\ faults \in 0 .. MaxFaults
  BY PortsOf
<1>2. /\ req[s].pc \notin {"idle", "done"} /\ UNCHANGED ops
      /\ faults' \in 0 .. MaxFaults
  BY <1>1, BoundAssumption DEF GiveUp, Fail, Faulty, At
<1>3. PICK o \in {"PortInUse", "Unknown", "Repository"}, gone \in {{}, Dropped(s)} :
        /\ CleanUp(s, o, gone)
        /\ o = "Unknown" => At(s, "giveUp") /\ ~req[s].fixed
  BY DEF GiveUp, Fail
<1>4. o \in Outcomes /\ o # "none" /\ (gone = {} \/ gone = Dropped(s))
  BY DEF Outcomes
<1>5. containers' \subseteq containers /\ Elsewhere(containers, containers', req[s].id)
  BY <1>2, <1>3, <1>4, CleanUps
<1>6. PICK r : /\ req' = [req EXCEPT ![s] = r] /\ Alike(r, req[s])
               /\ r.pc = "done" /\ r.out = o /\ Phase(r, Own(r, containers'))
  BY <1>2, <1>3, <1>4, CleanUps
<1>7. PortsInv'
  BY <1>1, <1>2, <1>5, <1>6, MovePorts DEF Alike
<1>8. Ended(s)
  BY <1>3, <1>6 DEF Ended
<1> QED
  BY <1>2, <1>5, <1>7, <1>8

LEMMA ReplyPorts ==
  ASSUME PortsInv, NEW s \in Slots, Reply(s)
  PROVE  PortsInv'
<1>1. /\ req \in [Slots -> Request] /\ containers \subseteq Container
      /\ faults \in 0 .. MaxFaults /\ UNCHANGED <<containers, ops, faults>>
      /\ req[s].pc # "idle"
  BY PortsOf DEF Reply, At
<1>2. req' = [req EXCEPT ![s] = Idle] /\ Idle \in Request
      /\ Idle.pc = "idle" /\ Idle.out = "none"
  BY IdleOK DEF Reply, Idle
<1>3. Phase(Idle, Own(Idle, containers'))
  BY <1>2 DEF Phase
<1>4. Elsewhere(containers, containers', req[s].id)
  BY <1>1 DEF Elsewhere
<1> QED
  BY <1>1, <1>2, <1>3, <1>4, MovePorts

LEMMA ClashPorts ==
  ASSUME PortsInv, NEW s \in Slots, StartClash(s)
  PROVE  PortsInv'
<1> DEFINE M == Own(req[s], containers)
           r == [req[s] EXCEPT !.pc = "clean", !.inUse = {}, !.tries = 0, !.stuck = TRUE]
<1>1. /\ req \in [Slots -> Request] /\ req[s] \in Request /\ containers \subseteq Container
      /\ faults \in 0 .. MaxFaults /\ Phase(req[s], M) /\ At(s, "start")
      /\ UNCHANGED <<containers, ops>> /\ faults' = faults + 1 /\ faults < MaxFaults
  BY PortsOf DEF StartClash, Faulty
<1>2. req' = [req EXCEPT ![s] = r]
  BY Zenon DEF StartClash
<1>3. /\ r \in Request /\ r.pc = "clean" /\ r.id = req[s].id /\ r.inUse = {} /\ r.tries = 0
      /\ r.out = req[s].out /\ r.stuck = TRUE
  <2>1. 0 \in 0 .. MaxRetry /\ {} \in SUBSET Ports
    BY BoundAssumption
  <2> QED
    BY <1>1, <2>1 DEF Request, PCs
<1> HIDE DEF r
<1>4. faults' \in 0 .. MaxFaults
  BY <1>1, BoundAssumption
<1>5. Own(r, containers') = M
  BY <1>1, <1>3 DEF Own
<1>6. Phase(r, Own(r, containers'))
  BY <1>1, <1>3, <1>4, <1>5 DEF Phase, At
<1>7. Elsewhere(containers, containers', req[s].id)
  BY <1>1 DEF Elsewhere
<1> QED
  BY <1>1, <1>2, <1>3, <1>4, <1>6, <1>7, MovePorts DEF At

LEMMA RemovePorts ==
  ASSUME PortsInv, NEW c \in containers, RemoveProxy(c)
  PROVE  PortsInv'
<1>1. /\ containers' = containers \ {c} /\ c.status = "running"
      /\ UNCHANGED <<req, ops, faults>>
  BY DEF RemoveProxy
<1>2. TypeOK' /\ Numbers'
  BY <1>1 DEF PortsInv, TypeOK, Numbers
<1>3. ASSUME NEW s \in Slots PROVE Phase(req[s], Own(req[s], containers'))
  <2> DEFINE M == Own(req[s], containers)
  <2>1. Phase(req[s], M)
    BY DEF PortsInv
  <2>2. Own(req[s], containers') = M \ {c}
    BY <1>1 DEF Own
  <2>3. req[s].pc \in {"idle", "done"} \/ Own(req[s], containers') = M
    BY <1>1, <2>1, <2>2 DEF Phase
  <2>4. CASE Own(req[s], containers') = M
    BY <2>1, <2>4
  <2>5. CASE req[s].pc \in {"idle", "done"}
    BY <2>1, <2>2, <2>5 DEF Phase
  <2> QED
    BY <2>3, <2>4, <2>5
<1> QED
  BY <1>1, <1>2, <1>3 DEF PortsInv

LEMMA CrashPorts ==
  ASSUME PortsInv, Crash
  PROVE  PortsInv'
<1>1. /\ req' = [s \in Slots |-> Idle] /\ UNCHANGED <<containers, ops>>
      /\ faults' \in 0 .. MaxFaults
  BY BoundAssumption DEF Crash, Faulty, PortsInv, TypeOK
<1>2. Idle \in Request /\ Idle.pc = "idle" /\ Idle.out = "none"
  BY IdleOK DEF Idle
<1>3. TypeOK' /\ Numbers'
  BY <1>1, <1>2 DEF PortsInv, TypeOK, Numbers
<1> QED
  BY <1>1, <1>2, <1>3 DEF PortsInv, Phase

LEMMA NextPorts == PortsInv /\ [Next]_vars => PortsInv'
<1> SUFFICES ASSUME PortsInv, [Next]_vars PROVE PortsInv'
  OBVIOUS
<1>1. CASE UNCHANGED vars
  BY <1>1 DEF vars, PortsInv, TypeOK, Numbers, Own
<1>2. ASSUME NEW s \in Slots, Begin(s) \/ Serve(s) \/ StartClash(s) \/ Fail(s)
      PROVE  PortsInv'
  BY <1>2, BeginPorts, SweepPorts, PickPorts, CreatePorts, StartPorts, EndPorts, ReplyPorts,
     ClashPorts DEF Serve
<1> QED
  BY <1>1, <1>2, RemovePorts, CrashPorts DEF Next

LEMMA AlwaysPorts == Spec => []PortsInv
  BY InitPorts, NextPorts, PTL DEF Spec

(* For any number of requests, ports, attempts and faults, a creation that *)
(* is refused has removed whatever it made that would count as a proxy,    *)
(* on every way out of its loops and from whatever its attempts left,      *)
(* except when a removal failed or the address was taken                   *)
(* (docker-runner-create-socat.repository.ts, create,                      *)
(* _createContainerWithoutPort).                                           *)
THEOREM RefusedIsClean == Spec => []RefusedLeavesNothing
<1>1. PortsInv => RefusedLeavesNothing
  BY PortsOf DEF RefusedLeavesNothing, Phase, At
<1> QED
  BY <1>1, AlwaysPorts, PTL

(* Unless the address of an earlier container was taken, the name of the   *)
(* container is free whenever a request creates it, however often it tried *)
(* before and whatever else fails                                          *)
(* (docker-runner-create-socat.repository.ts,                              *)
(* _removeFailedContainerByName).                                          *)
THEOREM NameIsFree == Spec => []NoSelfConflict
<1>1. PortsInv => NoSelfConflict
  BY PortsOf DEF NoSelfConflict, Phase, At
<1> QED
  BY <1>1, AlwaysPorts, PTL

-----------------------------------------------------------------------------
(* The attempts of a request.  Each one that was refused met a port held   *)
(* by another program or by a proxy of another request, and no two met the *)
(* same one.  That proxy may be gone again by now, so the argument needs   *)
(* to remember it: `ran` is the port each request got its container to run *)
(* on, 0 until it did.  A request runs its container at most once.         *)

Others(ran, n, o) == {ran[m] : m \in (1 .. o) \ {n}}

(* k ports of U were tried, in vain, by request n.                         *)
Tried(ran, n, o, U, k) ==
  \E T \in SUBSET U : T \subseteq Foreign \cup Others(ran, n, o) /\ Cardinality(T) = k

Effort(r, M, ran, o) ==
  /\ r.pc = "pick" => Tried(ran, r.id, o, r.inUse \cup {c.port : c \in M}, r.tries)
  /\ r.pc \in {"cleanAgain", "create", "start"} /\ ~r.fixed =>
       r.port \notin r.inUse /\ Tried(ran, r.id, o, r.inUse, r.tries - 1)
  /\ (r.pc = "giveUp" /\ ~r.fixed) \/ r.out = "Unknown" =>
       Tried(ran, r.id, o, Ports, MaxRetry)

RanOK(ran) ==
  /\ ran \in [1 .. MaxOps -> Int]
  /\ \A c \in containers : c.status = "running" => ran[c.id] = c.port
  /\ \A n \in 1 .. MaxOps : n > ops => ran[n] = 0
  /\ \A s \in Slots : req[s].pc \notin {"idle", "done"} => ran[req[s].id] = 0

AttemptsOK(ran) ==
  RanOK(ran) /\ \A s \in Slots : Effort(req[s], Own(req[s], containers), ran, ops)

AttemptsInv == \E ran : AttemptsOK(ran)

(* Nobody's port is forgotten.                                             *)
Remembers(ran, new) == \A m \in 1 .. MaxOps : new[m] = ran[m] \/ ran[m] = 0

LEMMA TriedGrows ==
  ASSUME NEW ran, NEW new, Remembers(ran, new), NEW n, NEW o \in Nat, NEW p \in 0 .. MaxOps,
         o =< p, NEW U, NEW V, U \subseteq V, V \subseteq Ports, NEW k, Tried(ran, n, o, U, k)
  PROVE  Tried(new, n, p, V, k)
<1>1. PICK T \in SUBSET U : T \subseteq Foreign \cup Others(ran, n, o) /\ Cardinality(T) = k
  BY DEF Tried
<1>2. ASSUME NEW x \in T, x \notin Foreign PROVE x \in Others(new, n, p)
  <2>1. x # 0
    BY PortAssumption
  <2>2. PICK m \in (1 .. o) \ {n} : x = ran[m]
    BY <1>1, <1>2 DEF Others
  <2>3. m \in 1 .. MaxOps /\ m \in (1 .. p) \ {n}
    BY BoundAssumption
  <2>4. x = new[m]
    BY <2>1, <2>2, <2>3 DEF Remembers
  <2> QED
    BY <2>3, <2>4 DEF Others
<1> QED
  BY <1>1, <1>2 DEF Tried

LEMMA EffortGrows ==
  ASSUME NEW ran, NEW new, Remembers(ran, new), NEW o \in Nat, NEW p \in 0 .. MaxOps, o =< p,
         NEW r \in Request, NEW M, M \subseteq Container, Effort(r, M, ran, o)
  PROVE  Effort(r, M, new, p)
<1>1. /\ r.inUse \cup {c.port : c \in M} \subseteq Ports
      /\ r.inUse \subseteq Ports
  BY DEF Container, Request
<1> QED
  BY <1>1, TriedGrows DEF Effort

(* A step of request s moves it to r.                                      *)
LEMMA MoveAttempts ==
  ASSUME PortsInv, NEW ran, AttemptsOK(ran), NEW s \in Slots, NEW r,
         req' = [req EXCEPT ![s] = r], Elsewhere(containers, containers', req[s].id),
         req[s].pc # "idle", UNCHANGED ops, NEW new, Remembers(ran, new), RanOK(new)',
         Effort(r, Own(r, containers'), new, ops)
  PROVE  AttemptsInv'
<1>1. /\ req \in [Slots -> Request] /\ containers \subseteq Container
      /\ ops \in Nat /\ ops \in 0 .. MaxOps
  BY BoundAssumption DEF PortsInv, TypeOK
<1>2. req'[s] = r /\ \A t \in Slots : t # s => req'[t] = req[t]
  BY <1>1
<1>3. ASSUME NEW t \in Slots, t # s
      PROVE  Effort(req[t], Own(req[t], containers'), new, ops)
  <2>1. CASE req[t].pc = "idle"
    BY <2>1 DEF Effort, PortsInv, Phase
  <2>2. CASE req[t].pc # "idle"
    <3>1. req[t].id # req[s].id
      BY <1>3, <2>2 DEF PortsInv, Numbers
    <3>2. Own(req[t], containers') = Own(req[t], containers)
      BY <3>1 DEF Own, Elsewhere
    <3>3. Effort(req[t], Own(req[t], containers), ran, ops)
      BY DEF AttemptsOK
    <3>4. Own(req[t], containers) \subseteq Container /\ req[t] \in Request /\ ops =< ops
      BY <1>1 DEF Own
    <3> QED
      BY <1>1, <3>2, <3>3, <3>4, EffortGrows
  <2> QED
    BY <2>1, <2>2
<1>4. \A t \in Slots : Effort(req'[t], Own(req'[t], containers'), new, ops')
  BY <1>2, <1>3
<1>5. AttemptsOK(new)'
  BY <1>4 DEF AttemptsOK
<1> QED
  BY <1>5 DEF AttemptsInv

(* Nothing starts to run.                                                  *)
LEMMA QuietRan ==
  ASSUME PortsInv, NEW ran, RanOK(ran), NEW s \in Slots, NEW r,
         req' = [req EXCEPT ![s] = r], req[s].pc \notin {"idle", "done"} \/ r.pc = "idle",
         r.pc \notin {"idle", "done"} => r.id = req[s].id, UNCHANGED ops,
         \A c \in containers' : c.status = "running" => c \in containers
  PROVE  RanOK(ran)' /\ Remembers(ran, ran)
<1>1. req \in [Slots -> Request]
  BY DEF PortsInv, TypeOK
<1>2. \A t \in Slots : req'[t] = IF t = s THEN r ELSE req[t]
  BY <1>1
<1> QED
  BY <1>2 DEF RanOK, Remembers

(* Nothing was tried yet.                                                  *)
LEMMA NoneTried ==
  ASSUME NEW ran, NEW n, NEW o, NEW U
  PROVE  Tried(ran, n, o, U, 0)
<1>1. {} \in SUBSET U /\ {} \subseteq Foreign \cup Others(ran, n, o) /\ Cardinality({}) = 0
  BY FS_EmptySet
<1> QED
  BY <1>1 DEF Tried

LEMMA InitAttempts == Init => AttemptsInv
<1> SUFFICES ASSUME Init PROVE AttemptsInv
  OBVIOUS
<1> DEFINE ran == [n \in 1 .. MaxOps |-> 0]
<1>1. \A s \in Slots : req[s].pc = "idle" /\ req[s].out = "none"
  BY DEF Init, Idle
<1>2. RanOK(ran)
  BY <1>1 DEF Init, RanOK
<1> HIDE DEF ran
<1>3. AttemptsOK(ran)
  BY <1>1, <1>2 DEF AttemptsOK, Effort
<1> QED
  BY <1>3 DEF AttemptsInv

LEMMA BeginAttempts ==
  ASSUME PortsInv, PortsInv', NEW ran, AttemptsOK(ran), NEW s \in Slots, Begin(s)
  PROVE  AttemptsInv'
<1>1. /\ req \in [Slots -> Request] /\ containers \subseteq Container
      /\ ops \in Nat /\ ops < MaxOps /\ ops' = ops + 1 /\ ops + 1 \in 0 .. MaxOps
      /\ UNCHANGED containers
  BY BoundAssumption, PortsOf DEF Begin
<1>2. PICK r : /\ req' = [req EXCEPT ![s] = r]
               /\ r.pc = "clean" /\ r.id = ops + 1 /\ r.out = "none"
  <2>1. PICK p \in Ports, f \in BOOLEAN :
          req' = [req EXCEPT ![s] = [Idle EXCEPT
                    !.pc = "clean", !.id = ops + 1, !.fixed = f, !.port = p]]
    BY DEF Begin
  <2> DEFINE r == [Idle EXCEPT !.pc = "clean", !.id = ops + 1, !.fixed = f, !.port = p]
  <2>2. r.pc = "clean" /\ r.id = ops + 1 /\ r.out = "none"
    BY DEF Idle
  <2>3. req' = [req EXCEPT ![s] = r]
    BY <2>1
  <2> HIDE DEF r
  <2> QED
    BY <2>2, <2>3
<1>3. req'[s] = r /\ \A t \in Slots : t # s => req'[t] = req[t]
  BY <1>1, <1>2
<1>4. RanOK(ran)'
  <2>1. \A n \in 1 .. MaxOps : n > ops' => ran[n] = 0
    BY <1>1 DEF AttemptsOK, RanOK
  <2>2. ran[ops + 1] = 0
    <3>1. \A n \in 1 .. MaxOps : n = ops + 1 => ran[n] = 0
      BY <1>1 DEF AttemptsOK, RanOK
    <3>2. PICK n \in 1 .. MaxOps : n = ops + 1
      BY <1>1
    <3> QED
      BY <3>1, <3>2
  <2>3. \A t \in Slots : req'[t].pc \notin {"idle", "done"} => ran[req'[t].id] = 0
    BY <1>2, <1>3, <2>2 DEF AttemptsOK, RanOK
  <2> QED
    BY <1>1, <2>1, <2>3 DEF AttemptsOK, RanOK
<1>5. ASSUME NEW t \in Slots PROVE Effort(req'[t], Own(req'[t], containers'), ran, ops')
  <2>1. CASE t = s
    BY <1>2, <1>3, <2>1 DEF Effort
  <2>2. CASE t # s
    <3>1. /\ req'[t] = req[t] /\ req[t] \in Request
          /\ Own(req[t], containers) \subseteq Container /\ ops =< ops'
      BY <1>1, <1>3, <2>2 DEF Own
    <3>2. Effort(req[t], Own(req[t], containers), ran, ops) /\ Remembers(ran, ran)
      BY DEF AttemptsOK, Remembers
    <3> QED
      BY <1>1, <3>1, <3>2, EffortGrows
  <2> QED
    BY <2>1, <2>2
<1>6. AttemptsOK(ran)'
  BY <1>4, <1>5 DEF AttemptsOK
<1> QED
  BY <1>6 DEF AttemptsInv

LEMMA SweepAttempts ==
  ASSUME PortsInv, NEW ran, AttemptsOK(ran), NEW s \in Slots,
         Clean(s) \/ CleanAgain(s) \/ (Create(s) /\ Mine(s) = {})
  PROVE  AttemptsInv'
<1>1. /\ req \in [Slots -> Request] /\ containers \subseteq Container /\ UNCHANGED ops
      /\ Phase(req[s], Own(req[s], containers)) /\ req[s] \in Request
      /\ req[s].pc \notin {"idle", "done"} /\ Mine(s) = Own(req[s], containers)
      /\ Effort(req[s], Own(req[s], containers), ran, ops) /\ RanOK(ran)
  BY PortsOf DEF Clean, CleanAgain, Create, At, AttemptsOK
<1>2. PICK l \in {"cleanAgain", "pick", "create", "start"} :
        /\ Goto(s, l)
        /\ l = "pick" => At(s, "clean")
        /\ l = "cleanAgain" => req[s].fixed
        /\ l = "create" => At(s, "cleanAgain")
        /\ l = "start" => At(s, "create")
  BY DEF Clean, CleanAgain, Create, At
<1>3. PICK r : /\ req' = [req EXCEPT ![s] = r] /\ Alike(r, req[s])
               /\ r.pc = l /\ r.out # "Unknown"
  <2>1. l \in PCs
    BY <1>2 DEF PCs
  <2>2. req[s].out # "Unknown"
    BY <1>1 DEF Phase
  <2> QED
    BY <1>1, <1>2, <2>1, <2>2, Goes
<1>4. /\ Elsewhere(containers, containers', req[s].id)
      /\ \A c \in containers' : c.status = "running" => c \in containers
  BY <1>1 DEF Clean, CleanAgain, Create, Swept, Elsewhere, Own
<1>5. Effort(r, Own(r, containers'), ran, ops)
  <2>1. CASE l = "pick"
    <3>1. r.tries = 0
      BY <1>1, <1>2, <1>3, <2>1 DEF Phase, At, Alike
    <3> QED
      BY <1>3, <2>1, <3>1, NoneTried DEF Effort
  <2>2. CASE l = "cleanAgain"
    BY <1>2, <1>3, <2>2 DEF Effort, Alike
  <2>3. CASE l = "create" \/ l = "start"
    BY <1>1, <1>2, <1>3, <2>3 DEF Effort, Alike, At
  <2> QED
    BY <1>2, <2>1, <2>2, <2>3
<1>6. RanOK(ran)' /\ Remembers(ran, ran)
  BY <1>1, <1>3, <1>4, QuietRan DEF Alike
<1> QED
  BY <1>1, <1>3, <1>4, <1>5, <1>6, MoveAttempts

LEMMA PickAttempts ==
  ASSUME StringsInOrder, PortsInv, NEW ran, AttemptsOK(ran), NEW s \in Slots, Pick(s)
  PROVE  AttemptsInv'
<1> DEFINE M == Own(req[s], containers)
<1>1. /\ req[s] \in Request /\ containers \subseteq Container
      /\ UNCHANGED <<containers, ops>> /\ At(s, "pick") /\ RanOK(ran)
      /\ Phase(req[s], M) /\ Effort(req[s], M, ran, ops)
      /\ ops \in Nat /\ ops \in 0 .. MaxOps
  <2>1. UNCHANGED <<containers, ops>> /\ At(s, "pick")
    BY DEF Pick
  <2>2. RanOK(ran) /\ Effort(req[s], M, ran, ops)
    BY DEF AttemptsOK
  <2> QED
    BY <2>1, <2>2, PortsOf, BoundAssumption
<1>2. PICK r \in Request :
        /\ req' = [req EXCEPT ![s] = r]
        /\ r.pc = "cleanAgain" /\ r.id = req[s].id
        /\ r.port = Choice(s) /\ r.inUse = Seen(s) /\ r.tries = req[s].tries + 1
        /\ r.out = req[s].out
  BY Picks
<1>3. r.tries - 1 = req[s].tries /\ r.out # "Unknown"
  BY <1>1, <1>2, BoundAssumption DEF Request, Phase, At
<1>4. Remembers(ran, ran)
  BY DEF Remembers
<1>5. r.port \notin r.inUse /\ Tried(ran, r.id, ops, r.inUse, r.tries - 1)
  <2>1. CASE Labels = {}
    <3>1. containers = {}
      BY <2>1 DEF Labels
    <3>2. req[s].tries = 0 /\ req[s].inUse = {}
      BY <1>1, <3>1 DEF Phase, At, Own
    <3>3. r.inUse = {}
      BY <1>2, <2>1, <3>2 DEF Seen
    <3> QED
      BY <1>3, <3>2, <3>3, NoneTried
  <2>2. CASE Labels # {}
    <3>1. r.port = NextBindPort(r.inUse) /\ r.inUse = req[s].inUse \cup Labels
      BY <1>2, <2>2 DEF Choice, Seen
    <3>2. r.inUse \subseteq Ports
      BY DEF Request
    <3>3. req[s].inUse \cup {c.port : c \in M} \subseteq r.inUse
      BY <3>1 DEF Labels, Own
    <3>4. Tried(ran, req[s].id, ops, req[s].inUse \cup {c.port : c \in M}, req[s].tries)
      BY <1>1 DEF Effort, At
    <3>5. Tried(ran, req[s].id, ops, r.inUse, req[s].tries)
      BY <1>1, <1>4, <3>2, <3>3, <3>4, TriedGrows
    <3> QED
      BY <1>2, <1>3, <3>1, <3>2, <3>5, NextIsFree
  <2> QED
    BY <2>1, <2>2
<1>6. Effort(r, Own(r, containers'), ran, ops)
  BY <1>2, <1>3, <1>5 DEF Effort
<1>7. RanOK(ran)'
  BY <1>1, <1>2, QuietRan DEF At
<1>8. Elsewhere(containers, containers', req[s].id)
  BY <1>1 DEF Elsewhere
<1> QED
  BY <1>1, <1>2, <1>4, <1>6, <1>7, <1>8, MoveAttempts DEF At

(* The container runs, and its request is done.                            *)
LEMMA StartAttempts ==
  ASSUME PortsInv, NEW ran, AttemptsOK(ran), NEW s \in Slots, Start(s)
  PROVE  AttemptsInv'
<1> DEFINE q == req[s]
<1>1. /\ req \in [Slots -> Request] /\ q \in Request /\ containers \subseteq Container
      /\ At(s, "start") /\ UNCHANGED <<ops, faults>> /\ RanOK(ran)
      /\ q.id \in 1 .. ops /\ q.id \in 1 .. MaxOps /\ q.port \in Int
      /\ ops \in 0 .. MaxOps
  <2>1. At(s, "start") /\ UNCHANGED <<ops, faults>>
    BY DEF Start
  <2>2. RanOK(ran)
    BY DEF AttemptsOK
  <2>3. /\ req \in [Slots -> Request] /\ q \in Request /\ containers \subseteq Container
        /\ q.id \in 1 .. ops /\ q.id \in 1 .. MaxOps /\ ops \in 0 .. MaxOps
    BY <2>1, PortsOf, BoundAssumption DEF At
  <2>4. q.port \in Int
    BY <2>3, PortsAreNumbers DEF Request
  <2> QED
    BY <2>1, <2>2, <2>3, <2>4
<1>2. containers' = WithStatus(s, "running") /\ Answer(s, "Ok")
  BY DEF Start
<1>3. PICK r : /\ req' = [req EXCEPT ![s] = r] /\ Alike(r, q)
               /\ r.pc = "done" /\ r.out = "Ok"
  BY <1>1, <1>2, Answers DEF Outcomes
<1>4. /\ Own(q, containers') = {[id |-> q.id, port |-> q.port, status |-> "running"]}
      /\ Elsewhere(containers, containers', q.id)
  BY <1>1, <1>2, Restatus
<1>5. ran[q.id] = 0
  BY <1>1 DEF RanOK, At
<1>6. PICK new \in [1 .. MaxOps -> Int] :
        /\ new[q.id] = q.port
        /\ \A n \in 1 .. MaxOps : n # q.id => new[n] = ran[n]
  <2>1. [ran EXCEPT ![q.id] = q.port] \in [1 .. MaxOps -> Int]
    BY <1>1 DEF RanOK
  <2> QED
    BY <1>1, <2>1 DEF RanOK
<1>7. Remembers(ran, new)
  BY <1>5, <1>6 DEF Remembers
<1>8. RanOK(new)'
  <2>1. ASSUME NEW c \in containers', c.status = "running" PROVE new[c.id] = c.port
    <3>1. CASE c.id = q.id
      BY <1>4, <1>6, <3>1 DEF Own
    <3>2. CASE c.id # q.id
      <4>1. c \in containers /\ c.id \in 1 .. MaxOps
        BY <1>1, <1>4, <3>2 DEF Elsewhere, Container
      <4> QED
        BY <1>1, <1>6, <2>1, <3>2, <4>1 DEF RanOK
    <3> QED
      BY <3>1, <3>2
  <2>2. \A n \in 1 .. MaxOps : n > ops => n # q.id
    BY <1>1, BoundAssumption
  <2>3. \A n \in 1 .. MaxOps : n > ops' => new[n] = 0
    BY <1>1, <1>6, <2>2 DEF RanOK
  <2>4. ASSUME NEW t \in Slots, req'[t].pc \notin {"idle", "done"}
        PROVE  new[req'[t].id] = 0
    <3>1. t # s /\ req'[t] = req[t]
      BY <1>1, <1>3, <2>4
    <3>2. req[t].id # q.id /\ req[t].id \in 1 .. MaxOps
      BY <1>1, <2>4, <3>1, BoundAssumption DEF PortsInv, Numbers, At
    <3> QED
      BY <1>1, <1>6, <2>4, <3>1, <3>2 DEF RanOK
  <2> QED
    BY <1>6, <2>1, <2>3, <2>4 DEF RanOK
<1>9. Effort(r, Own(r, containers'), new, ops)
  BY <1>3 DEF Effort
<1> QED
  BY <1>1, <1>3, <1>4, <1>7, <1>8, <1>9, MoveAttempts DEF At

(* The port was held by somebody else, and is one more that was tried.     *)
LEMMA RefusedAttempts ==
  ASSUME PortsInv, NEW ran, AttemptsOK(ran), NEW s \in Slots, StartRefused(s)
  PROVE  AttemptsInv'
<1> DEFINE q == req[s]
           M == Own(q, containers)
<1>1. /\ req \in [Slots -> Request] /\ q \in Request /\ containers \subseteq Container
      /\ At(s, "start") /\ UNCHANGED <<ops, faults>> /\ RanOK(ran)
      /\ Phase(q, M) /\ Effort(q, M, ran, ops) /\ ops \in 0 .. MaxOps
  BY PortsOf DEF StartRefused, AttemptsOK
<1>2. containers' = WithStatus(s, "refused") /\ Taken(q.port)
  BY DEF StartRefused
<1>3. PICK l \in {"giveUp", "pick"} :
        /\ Goto(s, l)
        /\ l = "giveUp" => q.fixed \/ q.tries = MaxRetry
        /\ l = "pick" => ~q.fixed
  BY DEF StartRefused
<1>4. PICK r : /\ req' = [req EXCEPT ![s] = r] /\ Alike(r, q) /\ r.pc = l /\ r.out = q.out
  BY <1>1, <1>3, Goes DEF PCs
<1>5. /\ Own(q, containers') = {[id |-> q.id, port |-> q.port, status |-> "refused"]}
      /\ Elsewhere(containers, containers', q.id)
  BY <1>1, <1>2, Restatus
<1>6. q.port \in Foreign \cup Others(ran, q.id, ops)
  <2>1. CASE q.port \in Foreign
    BY <2>1
  <2>2. CASE q.port \notin Foreign
    <3>1. PICK c \in containers : c.port = q.port /\ c.status = "running"
      BY <1>2, <2>2 DEF Taken
    <3>2. c.id # q.id /\ c.id \in 1 .. ops
      BY <1>1, <3>1 DEF Phase, At, Own, PortsInv, Numbers
    <3>3. ran[c.id] = q.port
      BY <1>1, <3>1 DEF RanOK
    <3> QED
      BY <3>2, <3>3 DEF Others
  <2> QED
    BY <2>1, <2>2
<1>7. ASSUME ~q.fixed PROVE Tried(ran, q.id, ops, q.inUse \cup {q.port}, q.tries)
  <2>1. q.port \notin q.inUse /\ Tried(ran, q.id, ops, q.inUse, q.tries - 1)
    BY <1>1, <1>7 DEF Effort, At
  <2>2. PICK T \in SUBSET q.inUse :
          T \subseteq Foreign \cup Others(ran, q.id, ops) /\ Cardinality(T) = q.tries - 1
    BY <2>1 DEF Tried
  <2>3. T \subseteq Ports /\ q.tries \in Int /\ q.port \notin T
    BY <1>1, <2>1, BoundAssumption DEF Request
  <2>4. Cardinality(T \cup {q.port}) = q.tries
    BY <2>2, <2>3, PortsFinite, FS_AddElement
  <2>5. T \cup {q.port} \in SUBSET (q.inUse \cup {q.port})
        /\ T \cup {q.port} \subseteq Foreign \cup Others(ran, q.id, ops)
    BY <1>6, <2>2
  <2> QED
    BY <2>4, <2>5 DEF Tried
<1>8. Effort(r, Own(r, containers'), ran, ops)
  <2>1. Own(r, containers') = Own(q, containers') /\ r.out # "Unknown"
    BY <1>1, <1>4 DEF Own, Alike, Phase, At
  <2>2. CASE l = "pick"
    <3>1. {c.port : c \in Own(r, containers')} = {q.port}
      BY <1>5, <2>1
    <3>2. Tried(ran, r.id, ops, r.inUse \cup {q.port}, r.tries)
      BY <1>3, <1>4, <1>7, <2>2 DEF Alike
    <3> QED
      BY <1>4, <2>1, <2>2, <3>1, <3>2 DEF Effort
  <2>3. CASE l = "giveUp"
    <3>1. ASSUME ~r.fixed PROVE Tried(ran, r.id, ops, Ports, MaxRetry)
      <4>1. ~q.fixed /\ q.tries = MaxRetry /\ r.id = q.id
        BY <1>3, <1>4, <2>3, <3>1 DEF Alike
      <4>2. q.inUse \cup {q.port} \subseteq Ports /\ ops \in Nat /\ ops =< ops
        BY <1>1, BoundAssumption DEF Request
      <4>3. Remembers(ran, ran)
        BY DEF Remembers
      <4> QED
        BY <1>1, <1>7, <4>1, <4>2, <4>3, TriedGrows
    <3> QED
      BY <1>4, <2>1, <2>3, <3>1 DEF Effort
  <2> QED
    BY <2>2, <2>3
<1>9. RanOK(ran)' /\ Remembers(ran, ran)
  <2>1. \A c \in containers' : c.status = "running" => c \in containers
    BY <1>5 DEF Own, Elsewhere
  <2> QED
    BY <1>1, <1>4, <2>1, QuietRan DEF At, Alike
<1> QED
  BY <1>1, <1>4, <1>5, <1>8, <1>9, MoveAttempts DEF At

(* A request is done, without having run anything.                         *)
LEMMA DoneAttempts ==
  ASSUME PortsInv, NEW ran, AttemptsOK(ran), NEW s \in Slots, UNCHANGED ops,
         req[s].pc \notin {"idle", "done"}, containers' \subseteq containers,
         Elsewhere(containers, containers', req[s].id), NEW r,
         req' = [req EXCEPT ![s] = r], Alike(r, req[s]), r.pc = "done",
         r.out = "Unknown" => At(s, "giveUp") /\ ~req[s].fixed
  PROVE  AttemptsInv'
<1>1. Effort(req[s], Own(req[s], containers), ran, ops) /\ RanOK(ran)
  BY DEF AttemptsOK
<1>2. r.out = "Unknown" => Tried(ran, r.id, ops, Ports, MaxRetry)
  BY <1>1 DEF Effort, At, Alike
<1>3. Effort(r, Own(r, containers'), ran, ops)
  BY <1>2 DEF Effort
<1>4. RanOK(ran)' /\ Remembers(ran, ran)
  BY <1>1, QuietRan
<1> QED
  BY <1>3, <1>4, MoveAttempts

LEMMA EndAttempts ==
  ASSUME PortsInv, NEW ran, AttemptsOK(ran), NEW s \in Slots, GiveUp(s) \/ Fail(s)
  PROVE  AttemptsInv'
<1>1. /\ req[s].pc \notin {"idle", "done"} /\ UNCHANGED ops
      /\ containers' \subseteq containers
      /\ Elsewhere(containers, containers', req[s].id)
  BY EndPorts
<1>2. PICK r : /\ req' = [req EXCEPT ![s] = r] /\ Alike(r, req[s]) /\ r.pc = "done"
               /\ r.out = "Unknown" => At(s, "giveUp") /\ ~req[s].fixed
  <2>1. Ended(s)
    BY EndPorts
  <2> QED
    BY <2>1 DEF Ended
<1> QED
  BY <1>1, <1>2, DoneAttempts

(* The name is taken.                                                      *)
LEMMA ConflictAttempts ==
  ASSUME PortsInv, NEW ran, AttemptsOK(ran), NEW s \in Slots, Create(s), Mine(s) # {}
  PROVE  AttemptsInv'
<1>1. /\ CleanUp(s, "Repository", Dropped(s)) /\ UNCHANGED ops
      /\ req[s].pc \notin {"idle", "done"} /\ "Repository" \in Outcomes
  BY DEF Create, At, Outcomes
<1>2. containers' \subseteq containers /\ Elsewhere(containers, containers', req[s].id)
  BY <1>1, CleanUps
<1>3. PICK r : /\ req' = [req EXCEPT ![s] = r] /\ Alike(r, req[s])
               /\ r.pc = "done" /\ r.out = "Repository"
  BY <1>1, CleanUps
<1> QED
  BY <1>1, <1>2, <1>3, DoneAttempts

LEMMA ReplyAttempts ==
  ASSUME PortsInv, NEW ran, AttemptsOK(ran), NEW s \in Slots, Reply(s)
  PROVE  AttemptsInv'
<1>1. /\ req' = [req EXCEPT ![s] = Idle] /\ Idle.pc = "idle" /\ Idle.out = "none"
      /\ req[s].pc # "idle" /\ UNCHANGED <<containers, ops>>
  BY DEF Reply, Idle, At
<1>2. Effort(Idle, Own(Idle, containers'), ran, ops)
  BY <1>1 DEF Effort
<1>3. RanOK(ran)' /\ Remembers(ran, ran)
  BY <1>1, QuietRan DEF AttemptsOK
<1>4. Elsewhere(containers, containers', req[s].id)
  BY <1>1 DEF Elsewhere
<1> QED
  BY <1>1, <1>2, <1>3, <1>4, MoveAttempts

(* The process dies, and the ports are remembered.                         *)
LEMMA CrashAttempts ==
  ASSUME PortsInv, NEW ran, AttemptsOK(ran), Crash
  PROVE  AttemptsInv'
<1>1. /\ req' = [s \in Slots |-> Idle] /\ Idle.pc = "idle" /\ Idle.out = "none"
      /\ UNCHANGED <<containers, ops>>
  BY DEF Crash, Idle
<1>2. RanOK(ran)'
  BY <1>1 DEF AttemptsOK, RanOK
<1>3. AttemptsOK(ran)'
  BY <1>1, <1>2 DEF AttemptsOK, Effort
<1> QED
  BY <1>3 DEF AttemptsInv

LEMMA ClashAttempts ==
  ASSUME PortsInv, NEW ran, AttemptsOK(ran), NEW s \in Slots, StartClash(s)
  PROVE  AttemptsInv'
<1> DEFINE r == [req[s] EXCEPT !.pc = "clean", !.inUse = {}, !.tries = 0, !.stuck = TRUE]
<1>1. /\ req[s] \in Request /\ At(s, "start") /\ UNCHANGED <<containers, ops>>
      /\ Phase(req[s], Own(req[s], containers))
  BY PortsOf DEF StartClash
<1>2. RanOK(ran)
  BY DEF AttemptsOK
<1>3. req' = [req EXCEPT ![s] = r]
  BY Zenon DEF StartClash
<1>4. r.pc = "clean" /\ r.id = req[s].id /\ r.out # "Unknown"
  BY <1>1 DEF Request, Phase, At
<1> HIDE DEF r
<1>5. Effort(r, Own(r, containers'), ran, ops)
  BY <1>4 DEF Effort
<1>6. RanOK(ran)' /\ Remembers(ran, ran)
  BY <1>1, <1>2, <1>3, <1>4, QuietRan DEF At
<1>7. Elsewhere(containers, containers', req[s].id)
  BY <1>1 DEF Elsewhere
<1> QED
  BY <1>1, <1>3, <1>5, <1>6, <1>7, MoveAttempts DEF At

(* A proxy goes, and its port is remembered.                               *)
LEMMA RemoveAttempts ==
  ASSUME PortsInv, NEW ran, AttemptsOK(ran), NEW c \in containers, RemoveProxy(c)
  PROVE  AttemptsInv'
<1>1. /\ containers' = containers \ {c} /\ c.status = "running"
      /\ UNCHANGED <<req, ops, faults>>
  BY DEF RemoveProxy
<1>2. RanOK(ran)'
  BY <1>1 DEF AttemptsOK, RanOK
<1>3. ASSUME NEW s \in Slots PROVE Effort(req[s], Own(req[s], containers'), ran, ops)
  <2>1. /\ Phase(req[s], Own(req[s], containers))
        /\ Effort(req[s], Own(req[s], containers), ran, ops)
    BY DEF PortsInv, AttemptsOK
  <2>2. CASE req[s].pc = "pick"
    <3>1. Own(req[s], containers') = Own(req[s], containers)
      BY <1>1, <2>1, <2>2 DEF Phase, Own
    <3> QED
      BY <2>1, <3>1
  <2>3. CASE req[s].pc # "pick"
    BY <2>1, <2>3 DEF Effort
  <2> QED
    BY <2>2, <2>3
<1>4. AttemptsOK(ran)'
  BY <1>1, <1>2, <1>3 DEF AttemptsOK
<1> QED
  BY <1>4 DEF AttemptsInv

LEMMA NextAttempts ==
  ASSUME StringsInOrder, PortsInv, PortsInv', AttemptsInv, [Next]_vars
  PROVE  AttemptsInv'
<1>1. PICK ran : AttemptsOK(ran)
  BY DEF AttemptsInv
<1>2. CASE UNCHANGED vars
  <2>1. AttemptsOK(ran)'
    BY <1>1, <1>2 DEF vars, AttemptsOK, RanOK, Own
  <2> QED
    BY <2>1 DEF AttemptsInv
<1>3. ASSUME NEW s \in Slots, Begin(s) \/ Serve(s) \/ StartClash(s) \/ Fail(s)
      PROVE  AttemptsInv'
  BY <1>1, <1>3, BeginAttempts, SweepAttempts, ConflictAttempts, PickAttempts, StartAttempts,
     RefusedAttempts, EndAttempts, ReplyAttempts, ClashAttempts DEF Serve
<1>4. ASSUME NEW c \in containers, RemoveProxy(c) PROVE AttemptsInv'
  BY <1>1, <1>4, RemoveAttempts
<1>5. CASE Crash
  BY <1>1, <1>5, CrashAttempts
<1> QED
  BY <1>2, <1>3, <1>4, <1>5 DEF Next

LEMMA AlwaysAttempts ==
  ASSUME StringsInOrder
  PROVE  Spec => [](PortsInv /\ AttemptsInv)
<1>1. PortsInv /\ AttemptsInv /\ [Next]_vars => (PortsInv /\ AttemptsInv)'
  BY NextPorts, NextAttempts
<1> QED
  BY <1>1, InitPorts, InitAttempts, PTL DEF Spec

(* The port a request picks is none that the labels or its own earlier     *)
(* attempts name, whatever gap of the ports it comes from                  *)
(* (docker-runner-create-socat.repository.ts, _getNextBindPort).           *)
THEOREM PickIsFree ==
  ASSUME StringsInOrder
  PROVE  Spec => []PickedIsFree
<1>1. AttemptsInv => PickedIsFree
  BY DEF AttemptsInv, AttemptsOK, Effort, PickedIsFree
<1> QED
  BY <1>1, AlwaysAttempts, PTL

LEMMA OthersAreFew ==
  ASSUME NEW ran, NEW o \in Nat, NEW n \in 1 .. o
  PROVE  IsFiniteSet(Others(ran, n, o)) /\ Cardinality(Others(ran, n, o)) =< o - 1
<1> DEFINE S == (1 .. o) \ {n}
           f == [m \in S |-> ran[m]]
<1>1. IsFiniteSet(1 .. o) /\ Cardinality(1 .. o) = o
  BY FS_Interval
<1>2. IsFiniteSet(S) /\ Cardinality(S) = o - 1
  BY <1>1, FS_RemoveElement
<1>3. f \in Surjection(S, Others(ran, n, o))
  BY DEF Surjection, Others
<1> HIDE DEF S, f
<1> QED
  BY <1>2, <1>3, FS_Surjection

LEMMA TriesAreFew ==
  ASSUME NEW ran, NEW o \in Nat, NEW n \in 1 .. o, Tried(ran, n, o, Ports, MaxRetry)
  PROVE  Cardinality(Foreign) + (o - 1) >= MaxRetry
<1> DEFINE U == Foreign \cup Others(ran, n, o)
<1>1. PICK T \in SUBSET Ports : T \subseteq U /\ Cardinality(T) = MaxRetry
  BY DEF Tried
<1>2. IsFiniteSet(Foreign) /\ IsFiniteSet(Others(ran, n, o))
      /\ Cardinality(Others(ran, n, o)) =< o - 1
  BY PortsFinite, OthersAreFew
<1>3. IsFiniteSet(U) /\ Cardinality(U) =< Cardinality(Foreign) + Cardinality(Others(ran, n, o))
  <2>1. /\ IsFiniteSet(U) /\ IsFiniteSet(Foreign \cap Others(ran, n, o))
        /\ Cardinality(U) = Cardinality(Foreign) + Cardinality(Others(ran, n, o))
             - Cardinality(Foreign \cap Others(ran, n, o))
    BY <1>2, FS_Union, FS_Intersection
  <2>2. /\ Cardinality(Foreign \cap Others(ran, n, o)) \in Nat
        /\ Cardinality(Foreign) \in Nat /\ Cardinality(Others(ran, n, o)) \in Nat
    BY <1>2, <2>1, FS_CardinalityType
  <2> QED
    BY <2>1, <2>2
<1>4. Cardinality(T) =< Cardinality(U)
  BY <1>1, <1>3, FS_Subset
<1>5. /\ Cardinality(U) \in Nat /\ Cardinality(Foreign) \in Nat
      /\ Cardinality(Others(ran, n, o)) \in Nat
  BY <1>2, <1>3, FS_CardinalityType
<1> QED
  BY <1>1, <1>2, <1>3, <1>4, <1>5, BoundAssumption

(* A request only gives up looking for a port when as many ports as it has *)
(* attempts are held by other programs and other requests, however its     *)
(* attempts interleave with theirs                                         *)
(* (docker-runner-create-socat.repository.ts, _createContainerWithoutPort).*)
THEOREM RetriesAreEnough ==
  ASSUME StringsInOrder
  PROVE  Spec => []RetriesSuffice
<1>1. ASSUME PortsInv, AttemptsInv, NEW s \in Slots, req[s].out = "Unknown"
      PROVE  Cardinality(Foreign) + (ops - 1) >= MaxRetry
  <2>1. PICK ran : AttemptsOK(ran)
    BY <1>1 DEF AttemptsInv
  <2>2. Tried(ran, req[s].id, ops, Ports, MaxRetry)
    BY <1>1, <2>1 DEF AttemptsOK, Effort
  <2>3. req[s].pc # "idle"
    BY <1>1 DEF PortsInv, Phase
  <2>4. req[s].id \in 1 .. ops /\ ops \in Nat
    BY <1>1, <2>3, BoundAssumption DEF PortsInv, TypeOK, Numbers
  <2> QED
    BY <2>2, <2>4, TriesAreFew
<1>2. PortsInv /\ AttemptsInv => RetriesSuffice
  BY <1>1 DEF RetriesSuffice
<1> QED
  BY <1>2, AlwaysAttempts, PTL

=============================================================================
