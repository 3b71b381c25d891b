----------------------------- MODULE SocatPorts -----------------------------
(***************************************************************************)
(* The host port of a proxy.  A SOCAT container publishes one; when the    *)
(* client names none, the API picks the next one from the labels of the    *)
(* SOCAT containers and tries again when Docker finds it taken.            *)
(*                                                                         *)
(* Every request here works on a proxy of its own, so only its own earlier *)
(* attempts can be in the way of its container's name.  A port may be      *)
(* taken by a proxy or, for good, by another program of the host.          *)
(***************************************************************************)
EXTENDS Integers, FiniteSets, FiniteSetsExt

CONSTANTS
  Slots,        \* requests the API may be serving at the same time
  StartPort,    \* PROXY_START_UPSTREAM_PORT
  Ports,        \* bound on the ports that come into play
  Foreign,      \* ports other programs listen on
  MaxRetry,     \* attempts per request
  MaxOps,       \* bound on the requests issued
  MaxFaults     \* bound on failing calls

MaxPort == 65535

ASSUME PortAssumption ==
  Ports \subseteq 1 .. MaxPort /\ StartPort \in Ports /\ Foreign \subseteq 1 .. MaxPort
(* With one attempt an address that is taken would end in no result at all.*)
ASSUME BoundAssumption == MaxOps \in Nat /\ MaxFaults \in Nat /\ MaxRetry \in Nat \ {0, 1}

VARIABLES
  containers,   \* SOCAT containers
  req,          \* req[s]: the request served in slot s
  ops,          \* requests issued so far; number n names the n-th request
  faults        \* faults so far

vars == <<containers, req, ops, faults>>

(* A container is named by its request.  "refused": Docker could not start *)
(* it because the port is allocated.                                       *)
Container == [id : 1 .. MaxOps, port : Ports, status : {"created", "refused", "running"}]

PCs == {"idle", "clean", "pick", "cleanAgain", "create", "start", "giveUp", "done"}
Outcomes == {"none", "Ok", "PortInUse", "Unknown", "Repository"}

(* fixed: the client named the port.  inUse: portInUseList.  stuck: history*)
(* variable, whether a container the request made was given up: its removal*)
(* failed, or its address was taken.                                       *)
Request ==
  [pc : PCs, id : 0 .. MaxOps, fixed : BOOLEAN, port : Ports, inUse : SUBSET Ports,
   tries : 0 .. MaxRetry, out : Outcomes, stuck : BOOLEAN]

Idle == [pc |-> "idle", id |-> 0, fixed |-> FALSE, port |-> StartPort, inUse |-> {},
         tries |-> 0, out |-> "none", stuck |-> FALSE]

TypeOK ==
  /\ containers \subseteq Container
  /\ req \in [Slots -> Request]
  /\ ops \in 0 .. MaxOps
  /\ faults \in 0 .. MaxFaults

Init ==
  /\ containers = {}
  /\ req = [s \in Slots |-> Idle]
  /\ ops = 0
  /\ faults = 0

-----------------------------------------------------------------------------
(* Choosing a port.                                                        *)

(* Array.sort without a comparison orders numbers as strings: 10000 comes  *)
(* before 9999.  A port has five digits at most.                           *)
Digits(p) == CHOOSE d \in 1 .. 5 : p < 10 ^ d /\ (d = 1 \/ p >= 10 ^ (d - 1))
AsString(p) == p * 10 ^ (6 - Digits(p)) + Digits(p)
Rank(S, p) == Cardinality({q \in S : AsString(q) < AsString(p)})
Sorted(S) == [n \in 1 .. Cardinality(S) |-> CHOOSE p \in S : Rank(S, p) = n - 1]

(* Mutant: the port after the first one in use is taken.                   *)
NextAfterFirst(S) == IF S = {} THEN StartPort ELSE Sorted(S)[1] + 1

(* The start port if it is below all others, else the last port of the     *)
(* first gap, else the one after the last.                                 *)
NextBindPort(S) ==
  LET n    == Cardinality(S)
      L    == Sorted(S)
      gaps == {i \in 2 .. n : L[i] - L[i - 1] > 1}
      p    == L[Min(gaps)] - 1
  IN  IF S = {} \/ StartPort < L[1] THEN StartPort
      ELSE IF gaps = {} THEN L[n] + 1
      ELSE IF p = L[n] THEN p + 1
      ELSE p

Labels == {c.port : c \in containers}
Mine(s) == {c \in containers : c.id = req[s].id}
Taken(p) == p \in Foreign \/ \E c \in containers : c.port = p /\ c.status = "running"

Faulty == faults < MaxFaults /\ faults' = faults + 1

-----------------------------------------------------------------------------
(* Control flow of a request.                                              *)

At(s, l) == req[s].pc = l
Goto(s, l) == req' = [req EXCEPT ![s].pc = l]
Answer(s, o) == req' = [req EXCEPT ![s].pc = "done", ![s].out = o]

(* Mutant: what the last refused attempt left is not removed in the end.   *)
DroppedOwn(s) == {c \in Mine(s) : At(s, "start") \/ (At(s, "giveUp") /\ req[s].fixed)}

(* What is removed before an error is answered: the container that could   *)
(* not start, or lastPortInUseContainerId if nothing has swept it yet.     *)
Dropped(s) ==
  {c \in Mine(s) : \/ At(s, "start") \/ At(s, "giveUp")
                   \/ c.status = "refused" /\ ~At(s, "clean")}

(* Whether this removal fails is not looked at: `gone` went.               *)
CleanUp(s, o, gone) ==
  /\ containers' = containers \ gone
  /\ req' = [req EXCEPT ![s].pc = "done", ![s].out = o,
                        ![s].stuck = @ \/ gone # Dropped(s)]

(* A proxy is created, on a port of the client's choice or on any.         *)
Begin(s) ==
  /\ At(s, "idle")
  /\ ops < MaxOps
  /\ ops' = ops + 1
  /\ \E p \in Ports, f \in BOOLEAN :
       /\ f \/ p = StartPort
       /\ req' = [req EXCEPT ![s] = [Idle EXCEPT
                    !.pc = "clean", !.id = ops + 1, !.fixed = f, !.port = p]]
  /\ UNCHANGED <<containers, faults>>

Reply(s) ==
  /\ At(s, "done")
  /\ req' = [req EXCEPT ![s] = Idle]
  /\ UNCHANGED <<containers, ops, faults>>

(* Mutant: a container left by an earlier attempt is not looked for.       *)
NotSwept(s) == containers

(* _removeFailedContainerByName: only a container that was refused for its *)
(* port is removed.                                                        *)
Swept(s) == containers \ {c \in Mine(s) : c.status = "refused"}

Clean(s) ==
  /\ At(s, "clean")
  /\ containers' = Swept(s)
  /\ Goto(s, IF req[s].fixed THEN "cleanAgain" ELSE "pick")
  /\ UNCHANGED <<ops, faults>>

(* Nothing carries a label: the start port, whatever was tried before.     *)
Pick(s) ==
  LET seen == req[s].inUse \cup Labels
      p    == IF Labels = {} THEN StartPort ELSE NextBindPort(seen)
  IN  /\ At(s, "pick")
      /\ p \in Ports
      /\ req' = [req EXCEPT ![s].pc = "cleanAgain", ![s].port = p, ![s].tries = @ + 1,
                            ![s].inUse = IF Labels = {} THEN @ ELSE seen]
      /\ UNCHANGED <<containers, ops, faults>>

CleanAgain(s) ==
  /\ At(s, "cleanAgain")
  /\ containers' = Swept(s)
  /\ Goto(s, "create")
  /\ UNCHANGED <<ops, faults>>

(* The name is taken by what an earlier attempt left.                      *)
Create(s) ==
  /\ At(s, "create")
  /\ \/ /\ Mine(s) # {}
        /\ CleanUp(s, "Repository", Dropped(s))
     \/ /\ Mine(s) = {}
        /\ containers' = containers \cup
             {[id |-> req[s].id, port |-> req[s].port, status |-> "created"]}
        /\ Goto(s, "start")
  /\ UNCHANGED <<ops, faults>>

WithStatus(s, t) == (containers \ Mine(s)) \cup {[c EXCEPT !.status = t] : c \in Mine(s)}

(* Docker allocates the port when the container starts.                    *)
Start(s) ==
  /\ At(s, "start")
  /\ ~Taken(req[s].port)
  /\ containers' = WithStatus(s, "running")
  /\ Answer(s, "Ok")
  /\ UNCHANGED <<ops, faults>>

(* "port is already allocated": on a port of the client's choice the       *)
(* container is removed and the client told; otherwise it stays for the    *)
(* next attempt to find, as long as there is one.                          *)
StartRefused(s) ==
  /\ At(s, "start")
  /\ Taken(req[s].port)
  /\ containers' = WithStatus(s, "refused")
  /\ Goto(s, IF req[s].fixed \/ req[s].tries = MaxRetry THEN "giveUp" ELSE "pick")
  /\ UNCHANGED <<ops, faults>>

(* The client learns of the port, also when the container stays.           *)
GiveUp(s) ==
  LET refusal == IF req[s].fixed THEN "PortInUse" ELSE "Unknown" IN
  /\ At(s, "giveUp")
  /\ \/ CleanUp(s, refusal, Dropped(s)) /\ UNCHANGED faults
     \/ CleanUp(s, refusal, {}) /\ Faulty
  /\ UNCHANGED ops

(* A proxy is removed, which frees its port.                               *)
RemoveProxy(c) ==
  /\ c.status = "running"
  /\ containers' = containers \ {c}
  /\ UNCHANGED <<req, ops, faults>>

(* The address given to the container is taken on the network: tried again *)
(* from the start, but the container stays where it is.                    *)
StartClash(s) ==
  /\ At(s, "start")
  /\ Faulty
  /\ req' = [req EXCEPT ![s].pc = "clean", ![s].inUse = {}, ![s].tries = 0, ![s].stuck = TRUE]
  /\ UNCHANGED <<containers, ops>>

(* A call fails for another reason; the clean-up may fail for the same one.*)
Fail(s) ==
  /\ req[s].pc \notin {"idle", "giveUp", "done"}
  /\ Faulty
  /\ \E gone \in {{}, Dropped(s)} : CleanUp(s, "Repository", gone)
  /\ UNCHANGED ops

(* The process dies: nobody is answered and nothing is cleaned up.         *)
Crash ==
  /\ \E s \in Slots : ~At(s, "idle")
  /\ Faulty
  /\ req' = [s \in Slots |-> Idle]
  /\ UNCHANGED <<containers, ops>>

-----------------------------------------------------------------------------
Serve(s) ==
  \/ Clean(s) \/ Pick(s) \/ CleanAgain(s) \/ Create(s)
  \/ Start(s) \/ StartRefused(s) \/ GiveUp(s) \/ Reply(s)

Next ==
  \/ \E s \in Slots : Begin(s) \/ Serve(s) \/ StartClash(s) \/ Fail(s)
  \/ \E c \in containers : RemoveProxy(c)
  \/ Crash

Spec == Init /\ [][Next]_vars

-----------------------------------------------------------------------------
(* The order of the strings is the order of the numbers, as among ports of *)
(* one number of digits.                                                   *)
StringsInOrder == \A p, q \in Ports : AsString(p) < AsString(q) <=> p < q

(* "select next port": the port picked is none that the labels or earlier  *)
(* attempts of the request name (_getNextBindPort), as long as the strings *)
(* are in order.                                                           *)
PickedIsFree ==
  \A s \in Slots :
    req[s].pc \in {"cleanAgain", "create"} /\ ~req[s].fixed => req[s].port \notin req[s].inUse

(* No attempt is wasted: a request only gives up when as many ports as it  *)
(* has attempts are held by others, each by another program or by another  *)
(* request (_createContainerWithoutPort).                                  *)
RetriesSuffice ==
  \A s \in Slots :
    req[s].out = "Unknown" => Cardinality(Foreign) + (ops - 1) >= MaxRetry

(* A creation that is refused, whatever it was doing, leaves no container: *)
(* it would count as a proxy and hold the connection.  That is all the code*)
(* does about it: when the removal fails, or the address of the container  *)
(* was taken, the container stays (create, _createContainerWithoutPort).   *)
RefusedLeavesNothing ==
  \A s \in Slots : At(s, "done") /\ req[s].out # "Ok" /\ ~req[s].stuck => Mine(s) = {}

(* Attempts of one request do not get in each other's way by name, unless  *)
(* an address was taken.                                                   *)
NoSelfConflict ==
  \A s \in Slots : At(s, "create") /\ ~req[s].stuck => Mine(s) = {}

=============================================================================
