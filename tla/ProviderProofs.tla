--------------------------- MODULE ProviderProofs ---------------------------
(***************************************************************************)
(* Theorems about ProviderLifecycle, for every set of providers,           *)
(* identities and request slots and every bound: the types of its states,  *)
(* what `up` spares, and what holds of requests served one at a time.      *)
(***************************************************************************)
EXTENDS ProviderLifecycle, TLAPS

(* Where the handlers have set the variables they use: a request that is   *)
(* being served has a number, one that works for a provider knows it, and  *)
(* one that chose an identity holds it.                                    *)
NoProviderYet == {"remove.get", "remove.read", "remove.containers", "done"}
HoldsIdentity == {"up.runner", "disconnect.list", "disconnect.remove",
                  "disconnect.tunnel", "connect", "connect.create", "connect.start",
                  "socat.start", "envoy.create", "envoy.start"}

RequestOK ==
  \A s \in Slots :
    /\ req[s].pc # "idle" => req[s].op \in 1 .. ops
    /\ req[s].pc # "idle" /\ req[s].kind # "remove" => req[s].prov \in Provider
    /\ req[s].kind = "remove" => req[s].pc \in NoProviderYet
    /\ req[s].pc \in HoldsIdentity => req[s].ident \in Identity

TypeInv == TypeOK /\ RequestOK

LEMMA IdleRequest == Idle \in Request
  BY BoundAssumption DEF Idle, Request, PCs, AllKinds, Outcomes

LEMMA InitTypeInv == Init => TypeInv
<1> SUFFICES ASSUME Init PROVE TypeInv
  OBVIOUS
<1>2. TypeOK
  BY IdleRequest, BoundAssumption DEF Init, TypeOK
<1>3. RequestOK
  BY DEF Init, RequestOK, Idle, NoProviderYet, HoldsIdentity
<1> QED
  BY <1>2, <1>3 DEF TypeInv

(* A step that leaves the world alone and moves one request.               *)
LEMMA MoveTypeInv ==
  ASSUME TypeInv, NEW s \in Slots, NEW r \in Request,
         req' = [req EXCEPT ![s] = r],
         containers' \subseteq Container,
         vpn' \in [Identity -> Provider \cup {NoProvider}],
         myst' \in [Identity -> BOOLEAN],
         ops' \in 0 .. MaxOps, ops <= ops', faults' \in 0 .. MaxFaults,
         r.pc # "idle" => r.op \in 1 .. ops',
         r.pc # "idle" /\ r.kind # "remove" => r.prov \in Provider,
         r.kind = "remove" => r.pc \in NoProviderYet,
         r.pc \in HoldsIdentity => r.ident \in Identity
  PROVE  TypeInv'
<1>1. TypeOK'
  BY DEF TypeInv, TypeOK
<1>2. RequestOK'
  <2> SUFFICES ASSUME NEW t \in Slots
               PROVE  /\ req'[t].pc # "idle" => req'[t].op \in 1 .. ops'
                      /\ req'[t].pc # "idle" /\ req'[t].kind # "remove"
                           => req'[t].prov \in Provider
                      /\ req'[t].kind = "remove" => req'[t].pc \in NoProviderYet
                      /\ req'[t].pc \in HoldsIdentity => req'[t].ident \in Identity
    BY DEF RequestOK
  <2>1. CASE t = s
    BY <2>1 DEF TypeInv, TypeOK
  <2>2. CASE t # s
    <3>1. req'[t] = req[t] /\ req[t] \in Request
      BY <2>2 DEF TypeInv, TypeOK
    <3> QED
      BY <3>1, BoundAssumption DEF TypeInv, TypeOK, RequestOK, Request
  <2> QED
    BY <2>1, <2>2
<1> QED
  BY <1>1, <1>2 DEF TypeInv

(* The rest of the state keeps its type and no request is issued.          *)
WorldTyped ==
  /\ containers' \subseteq Container
  /\ vpn' \in [Identity -> Provider \cup {NoProvider}]
  /\ myst' \in [Identity -> BOOLEAN]
  /\ ops' = ops
  /\ faults' \in 0 .. MaxFaults

(* A step of a request that keeps its number, its kind and its provider.   *)
LEMMA KeepTypeInv ==
  ASSUME TypeInv, NEW s \in Slots, NEW r \in Request, req[s].pc # "idle",
         req' = [req EXCEPT ![s] = r],
         r.op = req[s].op, r.kind = req[s].kind, r.prov = req[s].prov,
         r.kind = "remove" => r.pc \in NoProviderYet,
         r.pc \in HoldsIdentity => r.ident \in Identity,
         WorldTyped
  PROVE  TypeInv'
<1>1. ops \in 0 .. MaxOps
  BY DEF TypeInv, TypeOK
<1>2. /\ r.pc # "idle" => r.op \in 1 .. ops'
      /\ r.pc # "idle" /\ r.kind # "remove" => r.prov \in Provider
  BY DEF TypeInv, RequestOK, WorldTyped
<1>3. ops' \in 0 .. MaxOps /\ ops <= ops'
  BY <1>1, BoundAssumption DEF WorldTyped
<1>4. /\ containers' \subseteq Container
      /\ vpn' \in [Identity -> Provider \cup {NoProvider}]
      /\ myst' \in [Identity -> BOOLEAN]
      /\ faults' \in 0 .. MaxFaults
  BY DEF WorldTyped
<1> QED
  BY <1>2, <1>3, <1>4, MoveTypeInv

LEMMA AnswerTypeInv ==
  ASSUME TypeInv, NEW s \in Slots, NEW o \in Outcomes, req[s].pc # "idle",
         WorldTyped, Answer(s, o)
  PROVE  TypeInv'
<1> DEFINE r == [req[s] EXCEPT !.pc = "done", !.out = o]
<1>1. req[s] \in Request /\ req \in [Slots -> Request]
  BY DEF TypeInv, TypeOK
<1>2. r \in Request
  BY <1>1 DEF Request, PCs
<1>3. req' = [req EXCEPT ![s] = r]
  BY <1>1 DEF Answer, Request
<1>4. /\ r.pc = "done" /\ r.op = req[s].op /\ r.kind = req[s].kind
      /\ r.prov = req[s].prov
  BY <1>1 DEF Request
<1> HIDE DEF r
<1>5. "done" \in NoProviderYet /\ "done" \notin HoldsIdentity
  BY DEF NoProviderYet, HoldsIdentity
<1> QED
  BY <1>2, <1>3, <1>4, <1>5, KeepTypeInv

LEMMA GotoTypeInv ==
  ASSUME TypeInv, NEW s \in Slots, NEW l \in PCs, req[s].pc # "idle",
         l \in HoldsIdentity => req[s].ident \in Identity,
         req[s].kind = "remove" => l \in NoProviderYet,
         WorldTyped, Goto(s, l)
  PROVE  TypeInv'
<1> DEFINE r == [req[s] EXCEPT !.pc = l]
<1>1. req[s] \in Request /\ req \in [Slots -> Request]
  BY DEF TypeInv, TypeOK
<1>2. r \in Request
  BY <1>1 DEF Request
<1>3. req' = [req EXCEPT ![s] = r]
  BY <1>1 DEF Goto, Request
<1>4. /\ r.pc = l /\ r.op = req[s].op /\ r.kind = req[s].kind
      /\ r.prov = req[s].prov /\ r.ident = req[s].ident
  BY <1>1 DEF Request
<1> HIDE DEF r
<1> QED
  BY <1>2, <1>3, <1>4, KeepTypeInv

(* The container operations return containers.                             *)
LEMMA ContainerOps ==
  ASSUME containers \subseteq Container, NEW k \in {"connect", "socat", "envoy"}, NEW n
  PROVE  /\ Without(k, n) \subseteq Container
         /\ Started(k, n) \subseteq Container
         /\ \A r \in Request : r.op # 0 /\ r.ident \in Identity /\ r.prov \in Provider
              => NewContainer(k, r) \in Container
  BY BoundAssumption DEF Without, Started, NewContainer, Container, Request

LEMMA WorldUnchanged ==
  ASSUME TypeInv, containers' = containers, vpn' = vpn, myst' = myst, ops' = ops,
         faults' = faults
  PROVE  WorldTyped
  BY DEF TypeInv, TypeOK, WorldTyped

LEMMA ContainersTyped ==
  ASSUME TypeInv, containers' \subseteq Container, vpn' = vpn, myst' = myst,
         ops' = ops, faults' \in 0 .. MaxFaults
  PROVE  WorldTyped
  BY DEF TypeInv, TypeOK, WorldTyped

(* A provider as it is read: its identity is one, or none.                 *)
LEMMA ViewTyped ==
  ASSUME containers \subseteq Container, NEW p, NEW v \in Views(p)
  PROVE  v.ident \in Identity \cup {NoIdentity}
  BY DEF Views, ViewThrough, OfProvider, Container

LEMMA NextTypeInv == TypeInv /\ [Next]_vars => TypeInv'
<1> SUFFICES ASSUME TypeInv, [Next]_vars PROVE TypeInv'
  OBVIOUS
<1>0. /\ req \in [Slots -> Request] /\ ops \in 0 .. MaxOps /\ faults \in 0 .. MaxFaults
      /\ containers \subseteq Container
      /\ vpn \in [Identity -> Provider \cup {NoProvider}]
      /\ myst \in [Identity -> BOOLEAN]
  BY DEF TypeInv, TypeOK
<1>w. UNCHANGED <<containers, vpn, myst, ops, faults>> => WorldTyped
  BY WorldUnchanged
<1>1. ASSUME NEW s \in Slots, Begin(s) PROVE TypeInv'
  <2>0. ops < MaxOps /\ ops' = ops + 1
    BY <1>1 DEF Begin
  <2>1. ops + 1 \in 1 .. MaxOps /\ ops \in Nat /\ ops' = ops + 1
    BY <1>0, <2>0, BoundAssumption
  <2>2. ASSUME NEW k \in Kinds \ {"remove"}, NEW p \in Provider,
               req' = [req EXCEPT ![s] = [Idle EXCEPT !.pc = Entry[k], !.kind = k,
                                                      !.op = ops + 1, !.prov = p]]
        PROVE  TypeInv'
    <3> DEFINE r == [Idle EXCEPT !.pc = Entry[k], !.kind = k, !.op = ops + 1, !.prov = p]
    <3>1. k \in AllKinds \ {"remove"}
      BY <2>2, KindsAssumption
    <3>2. Entry[k] \in {"up.provider", "down.provider", "downAll.list", "create.provider"}
      BY <3>1 DEF Entry, AllKinds
    <3>a. Entry[k] \in PCs /\ ops + 1 \in 0 .. MaxOps
      BY <2>1, <3>2, BoundAssumption DEF PCs
    <3>3. r \in Request
      BY IdleRequest, <3>1, <3>a DEF Request
    <3>4. r.pc = Entry[k] /\ r.kind = k /\ r.op = ops + 1 /\ r.prov = p
      BY DEF Idle
    <3> HIDE DEF r
    <3>5. /\ r.pc # "idle" => r.op \in 1 .. ops'
          /\ r.pc # "idle" /\ r.kind # "remove" => r.prov \in Provider
          /\ r.kind = "remove" => r.pc \in NoProviderYet
          /\ r.pc \in HoldsIdentity => r.ident \in Identity
      BY <2>1, <3>1, <3>2, <3>4 DEF HoldsIdentity
    <3>6. ops' \in 0 .. MaxOps /\ ops <= ops'
      BY <2>1
    <3>7. UNCHANGED <<containers, vpn, myst, faults>>
      BY <1>1 DEF Begin
    <3>8. req' = [req EXCEPT ![s] = r]
      BY <2>2 DEF r
    <3> QED
      BY <3>3, <3>5, <3>6, <3>7, <3>8, <1>0, MoveTypeInv
  <2>3. ASSUME NEW c \in OfKind("socat"),
               req' = [req EXCEPT ![s] = [Idle EXCEPT !.pc = Entry["remove"],
                                                      !.kind = "remove", !.op = ops + 1,
                                                      !.proxy = c.id]]
        PROVE  TypeInv'
    <3> DEFINE r == [Idle EXCEPT !.pc = Entry["remove"], !.kind = "remove",
                                 !.op = ops + 1, !.proxy = c.id]
    <3>1. c.id \in 1 .. MaxOps
      BY <1>0 DEF OfKind, Container
    <3>2. Entry["remove"] = "remove.get"
      BY DEF Entry
    <3>a. Entry["remove"] \in PCs /\ ops + 1 \in 0 .. MaxOps /\ c.id \in 0 .. MaxOps
          /\ "remove" \in AllKinds
      BY <2>1, <3>1, <3>2, BoundAssumption DEF PCs, AllKinds
    <3>3. r \in Request
      BY IdleRequest, <3>a DEF Request
    <3>4. r.pc = "remove.get" /\ r.kind = "remove" /\ r.op = ops + 1
      BY <3>2 DEF Idle
    <3> HIDE DEF r
    <3>5. /\ r.pc # "idle" => r.op \in 1 .. ops'
          /\ r.pc # "idle" /\ r.kind # "remove" => r.prov \in Provider
          /\ r.kind = "remove" => r.pc \in NoProviderYet
          /\ r.pc \in HoldsIdentity => r.ident \in Identity
      BY <2>1, <3>4 DEF HoldsIdentity, NoProviderYet
    <3>6. ops' \in 0 .. MaxOps /\ ops <= ops'
      BY <2>1
    <3>7. UNCHANGED <<containers, vpn, myst, faults>>
      BY <1>1 DEF Begin
    <3>8. req' = [req EXCEPT ![s] = r]
      BY <2>3 DEF r
    <3> QED
      BY <3>3, <3>5, <3>6, <3>7, <3>8, <1>0, MoveTypeInv
  <2> QED
    BY <2>2, <2>3, <1>1 DEF Begin
<1>a. ASSUME NEW s \in Slots, req[s].pc \notin NoProviderYet, req[s].pc # "idle"
      PROVE  req[s].kind # "remove" /\ req[s].prov \in Provider /\ req[s].op \in 1 .. MaxOps
  <2>1. req[s].kind # "remove" /\ req[s].prov \in Provider /\ req[s].op \in 1 .. ops
    BY <1>a DEF TypeInv, RequestOK
  <2> QED
    BY <2>1, <1>0, BoundAssumption
<1>b. ASSUME NEW s \in Slots, req[s].pc \in HoldsIdentity PROVE req[s].ident \in Identity
  BY <1>b DEF TypeInv, RequestOK
<1>2. ASSUME NEW s \in Slots, UpReadProvider(s) PROVE TypeInv'
  <2>1. req[s].pc = "up.provider" /\ WorldTyped
    BY <1>2, <1>w DEF UpReadProvider, At
  <2>2. req[s].kind # "remove"
    BY <2>1, <1>a DEF NoProviderYet
  <2>3. \/ \E o \in Outcomes : Answer(s, o)
        \/ Goto(s, "up.identity")
    BY <1>2 DEF UpReadProvider, Outcomes
  <2>4. "up.identity" \in PCs \ HoldsIdentity
    BY DEF PCs, HoldsIdentity
  <2> QED
    BY <2>1, <2>2, <2>3, <2>4, AnswerTypeInv, GotoTypeInv
<1>3. ASSUME NEW s \in Slots, UpPickIdentity(s) PROVE TypeInv'
  <2>1. req[s].pc = "up.identity" /\ WorldTyped
    BY <1>3, <1>w DEF UpPickIdentity, At
  <2>2. req[s].kind # "remove"
    BY <2>1, <1>a DEF NoProviderYet
  <2>3. CASE Answer(s, "NotFoundMystIdentity")
    BY <2>1, <2>3, AnswerTypeInv DEF Outcomes
  <2>4. ASSUME NEW i \in FreeIdentities,
               req' = [req EXCEPT ![s].pc = "up.runner", ![s].ident = i,
                                  ![s].seen = {c.id : c \in OfKind("connect")}]
        PROVE  TypeInv'
    <3> DEFINE ids == {c.id : c \in OfKind("connect")}
               r == [req[s] EXCEPT !.pc = "up.runner", !.ident = i, !.seen = ids]
    <3>1. i \in Identity /\ "up.runner" \in PCs
      BY DEF FreeIdentities, PCs
    <3>2. ids \subseteq 1 .. MaxOps
      BY <1>0 DEF OfKind, Container
    <3> HIDE DEF ids
    <3>3. r \in Request
      BY <1>0, <3>1, <3>2 DEF Request
    <3>4. req' = [req EXCEPT ![s] = r]
      BY <1>0, <2>4 DEF Request, ids
    <3>5. r.op = req[s].op /\ r.kind = req[s].kind /\ r.prov = req[s].prov
          /\ r.ident = i
      BY <1>0 DEF Request
    <3> HIDE DEF r
    <3> QED
      BY <2>1, <2>2, <3>1, <3>3, <3>4, <3>5, KeepTypeInv
  <2> QED
    BY <1>3, <2>3, <2>4 DEF UpPickIdentity
<1>4. ASSUME NEW s \in Slots, UpCheckRunner(s) PROVE TypeInv'
  <2>1. req[s].pc = "up.runner" /\ WorldTyped
    BY <1>4, <1>w DEF UpCheckRunner, At
  <2>2. req[s].kind # "remove" /\ req[s].ident \in Identity
    BY <2>1, <1>a, <1>b DEF NoProviderYet, HoldsIdentity
  <2>3. Goto(s, "disconnect.list") \/ Answer(s, "NotRunning")
    BY <1>4 DEF UpCheckRunner
  <2>4. "disconnect.list" \in PCs /\ "NotRunning" \in Outcomes
    BY DEF PCs, Outcomes
  <2> QED
    BY <2>1, <2>2, <2>3, <2>4, AnswerTypeInv, GotoTypeInv
<1>5. ASSUME NEW s \in Slots, DisconnectList(s) PROVE TypeInv'
  <2>1. req[s].pc = "disconnect.list" /\ WorldTyped
    BY <1>5, <1>w DEF DisconnectList, At
  <2>2. req[s].kind # "remove" /\ req[s].ident \in Identity
    BY <2>1, <1>a, <1>b DEF NoProviderYet, HoldsIdentity
  <2>3. CASE Goto(s, "disconnect.tunnel")
    BY <2>1, <2>2, <2>3, GotoTypeInv DEF PCs
  <2>4. ASSUME NEW c \in OnIdentity("connect", req[s].ident),
               req' = [req EXCEPT ![s].pc = "disconnect.remove", ![s].target = c.id]
        PROVE  TypeInv'
    <3> DEFINE r == [req[s] EXCEPT !.pc = "disconnect.remove", !.target = c.id]
    <3>1. c.id \in 1 .. MaxOps /\ "disconnect.remove" \in PCs
      BY <1>0 DEF OnIdentity, OfKind, Container, PCs
    <3>2. c.id \in 0 .. MaxOps
      BY <3>1, BoundAssumption
    <3>3. r \in Request
      BY <1>0, <3>1, <3>2 DEF Request
    <3>4. req' = [req EXCEPT ![s] = r]
      BY <1>0, <2>4 DEF Request
    <3>5. r.op = req[s].op /\ r.kind = req[s].kind /\ r.prov = req[s].prov
          /\ r.ident = req[s].ident
      BY <1>0 DEF Request
    <3> HIDE DEF r
    <3> QED
      BY <2>1, <2>2, <3>3, <3>4, <3>5, KeepTypeInv
  <2> QED
    BY <1>5, <2>3, <2>4 DEF DisconnectList
<1>6. ASSUME NEW s \in Slots, DisconnectRemove(s) PROVE TypeInv'
  <2> DEFINE r == [req[s] EXCEPT !.pc = "disconnect.tunnel", !.target = 0]
  <2>1. req[s].pc = "disconnect.remove" /\ WorldTyped
    BY <1>6, <1>0, ContainerOps, ContainersTyped DEF DisconnectRemove, At
  <2>2. req[s].kind # "remove" /\ req[s].ident \in Identity
    BY <2>1, <1>a, <1>b DEF NoProviderYet, HoldsIdentity
  <2>3. "disconnect.tunnel" \in PCs /\ 0 \in 0 .. MaxOps
    BY BoundAssumption DEF PCs
  <2>4. r \in Request
    BY <1>0, <2>3 DEF Request
  <2>5. req' = [req EXCEPT ![s] = r]
    BY <1>0, <1>6 DEF DisconnectRemove, Request
  <2>6. r.op = req[s].op /\ r.kind = req[s].kind /\ r.prov = req[s].prov
        /\ r.ident = req[s].ident
    BY <1>0 DEF Request
  <2> HIDE DEF r
  <2> QED
    BY <2>1, <2>2, <2>4, <2>5, <2>6, KeepTypeInv
<1>7. ASSUME NEW s \in Slots, DisconnectTunnel(s) PROVE TypeInv'
  <2>1. req[s].pc = "disconnect.tunnel" /\ WorldTyped
    BY <1>7, <1>0 DEF DisconnectTunnel, At, WorldTyped
  <2>2. req[s].kind # "remove" /\ req[s].ident \in Identity
    BY <2>1, <1>a, <1>b DEF NoProviderYet, HoldsIdentity
  <2>3. \/ \E o \in Outcomes : Answer(s, o)
        \/ Goto(s, "connect")
    BY <1>7 DEF DisconnectTunnel, Outcomes
  <2>4. "connect" \in PCs
    BY DEF PCs
  <2> QED
    BY <2>1, <2>2, <2>3, <2>4, AnswerTypeInv, GotoTypeInv
<1>8. ASSUME NEW s \in Slots, Connect(s) PROVE TypeInv'
  <2>1. req[s].pc = "connect"
    BY <1>8 DEF Connect, At
  <2>2. req[s].kind # "remove" /\ req[s].ident \in Identity /\ req[s].prov \in Provider
    BY <2>1, <1>a, <1>b DEF NoProviderYet, HoldsIdentity
  <2>3. WorldTyped
    BY <1>8, <1>0, <2>2 DEF Connect, WorldTyped
  <2>4. \/ \E o \in Outcomes : Answer(s, o)
        \/ Goto(s, "connect.create")
    BY <1>8 DEF Connect, Outcomes
  <2>5. "connect.create" \in PCs
    BY DEF PCs
  <2> QED
    BY <2>1, <2>2, <2>3, <2>4, <2>5, AnswerTypeInv, GotoTypeInv
<1>9. ASSUME NEW s \in Slots, CreateConnect(s) PROVE TypeInv'
  <2>1. req[s].pc = "connect.create"
    BY <1>9 DEF CreateConnect, At
  <2>2. /\ req[s].kind # "remove" /\ req[s].ident \in Identity
        /\ req[s].prov \in Provider /\ req[s].op # 0
    BY <2>1, <1>a, <1>b DEF NoProviderYet, HoldsIdentity
  <2>3. NewContainer("connect", req[s]) \in Container
    BY <1>0, <2>2, ContainerOps
  <2>4. WorldTyped
    BY <1>9, <1>0, <2>3, ContainersTyped DEF CreateConnect
  <2>5. \/ \E o \in Outcomes : Answer(s, o)
        \/ Goto(s, "connect.start")
    BY <1>9 DEF CreateConnect, Outcomes
  <2>6. "connect.start" \in PCs
    BY DEF PCs
  <2> QED
    BY <2>1, <2>2, <2>4, <2>5, <2>6, AnswerTypeInv, GotoTypeInv
<1>10. ASSUME NEW s \in Slots, StartConnect(s) PROVE TypeInv'
  <2>1. req[s].pc = "connect.start" /\ WorldTyped
    BY <1>10, <1>0, ContainerOps, ContainersTyped DEF StartConnect, At
  <2>2. req[s].kind # "remove"
    BY <2>1, <1>a DEF NoProviderYet
  <2>3. \/ \E o \in Outcomes : Answer(s, o)
        \/ Goto(s, "create.provider")
    BY <1>10 DEF StartConnect, Outcomes
  <2>4. "create.provider" \in PCs \ HoldsIdentity
    BY DEF PCs, HoldsIdentity
  <2> QED
    BY <2>1, <2>2, <2>3, <2>4, AnswerTypeInv, GotoTypeInv
<1>11. ASSUME NEW s \in Slots, DownReadProvider(s) PROVE TypeInv'
  <2>1. req[s].pc = "down.provider" /\ WorldTyped
    BY <1>11, <1>w DEF DownReadProvider, At
  <2>2. req[s].kind # "remove"
    BY <2>1, <1>a DEF NoProviderYet
  <2>3. CASE \E o \in Outcomes : Answer(s, o)
    BY <2>1, <2>3, AnswerTypeInv
  <2>4. ASSUME NEW v \in Views(req[s].prov), v.ident # NoIdentity,
               req' = [req EXCEPT ![s].pc = "disconnect.list", ![s].ident = v.ident]
        PROVE  TypeInv'
    <3> DEFINE r == [req[s] EXCEPT !.pc = "disconnect.list", !.ident = v.ident]
    <3>1. v.ident \in Identity /\ "disconnect.list" \in PCs
      BY <2>4, ViewTyped DEF PCs, TypeInv, TypeOK
    <3>2. r \in Request
      BY <1>0, <3>1 DEF Request
    <3>3. req' = [req EXCEPT ![s] = r]
      BY <1>0, <2>4 DEF Request
    <3>4. r.op = req[s].op /\ r.kind = req[s].kind /\ r.prov = req[s].prov
          /\ r.ident = v.ident
      BY <1>0 DEF Request
    <3> HIDE DEF r
    <3> QED
      BY <2>1, <2>2, <3>1, <3>2, <3>3, <3>4, KeepTypeInv
  <2> QED
    BY <1>11, <2>3, <2>4 DEF DownReadProvider, Outcomes
<1>12. ASSUME NEW s \in Slots, CreateReadProvider(s) PROVE TypeInv'
  <2>1. req[s].pc = "create.provider" /\ WorldTyped
    BY <1>12, <1>w DEF CreateReadProvider, At
  <2>2. req[s].kind # "remove"
    BY <2>1, <1>a DEF NoProviderYet
  <2>3. \/ \E o \in Outcomes : Answer(s, o)
        \/ Goto(s, "create.read")
    BY <1>12 DEF CreateReadProvider, Outcomes
  <2>4. "create.read" \in PCs \ HoldsIdentity
    BY DEF PCs, HoldsIdentity
  <2> QED
    BY <2>1, <2>2, <2>3, <2>4, AnswerTypeInv, GotoTypeInv
<1>13. ASSUME NEW s \in Slots, CreateReadDependencies(s) PROVE TypeInv'
  <2>1. req[s].pc = "create.read" /\ WorldTyped
    BY <1>13, <1>w DEF CreateReadDependencies, At
  <2>2. req[s].kind # "remove"
    BY <2>1, <1>a DEF NoProviderYet
  <2>3. ASSUME NEW v \in Views(req[s].prov), NEW l \in PCs \ (HoldsIdentity \cup {"idle"}),
               NEW n \in 0 .. MaxOps,
               req' = [req EXCEPT ![s].pc = l, ![s].ident = v.ident, ![s].target = n]
        PROVE  TypeInv'
    <3> DEFINE r == [req[s] EXCEPT !.pc = l, !.ident = v.ident, !.target = n]
    <3>1. v.ident \in Identity \cup {NoIdentity}
      BY <1>0, ViewTyped
    <3>2. r \in Request
      BY <1>0, <3>1 DEF Request
    <3>3. req' = [req EXCEPT ![s] = r]
      BY <1>0, <2>3 DEF Request
    <3>4. r.op = req[s].op /\ r.kind = req[s].kind /\ r.prov = req[s].prov /\ r.pc = l
      BY <1>0 DEF Request
    <3> HIDE DEF r
    <3> QED
      BY <2>1, <2>2, <3>2, <3>3, <3>4, KeepTypeInv
  <2>4. CASE Answer(s, "Exist")
    BY <2>1, <2>4, AnswerTypeInv DEF Outcomes
  <2>5. ASSUME NEW v \in Views(req[s].prov), NEW e \in ProxiesOf("envoy", req[s].prov),
               req' = [req EXCEPT ![s].pc = "create.removeEnvoy", ![s].ident = v.ident,
                                  ![s].target = e.id]
        PROVE  TypeInv'
    <3>1. e.id \in 1 .. MaxOps
      BY <1>0 DEF ProxiesOf, OfKind, Container
    <3>2. e.id \in 0 .. MaxOps
      BY <3>1, BoundAssumption
    <3>3. "create.removeEnvoy" \in PCs \ (HoldsIdentity \cup {"idle"})
      BY DEF PCs, HoldsIdentity
    <3> QED
      BY <2>3, <2>5, <3>2, <3>3
  <2>6. ASSUME NEW v \in Views(req[s].prov),
               req' = [req EXCEPT ![s].pc = "socat.create", ![s].ident = v.ident]
        PROVE  TypeInv'
    <3>1. req' = [req EXCEPT ![s].pc = "socat.create", ![s].ident = v.ident,
                             ![s].target = req[s].target]
      BY <1>0, <2>6 DEF Request
    <3>2. req[s].target \in 0 .. MaxOps
      BY <1>0 DEF Request
    <3>3. "socat.create" \in PCs \ (HoldsIdentity \cup {"idle"})
      BY DEF PCs, HoldsIdentity
    <3> QED
      BY <2>3, <3>1, <3>2, <3>3
  <2> QED
    BY <1>13, <2>4, <2>5, <2>6 DEF CreateReadDependencies
<1>14. ASSUME NEW s \in Slots, CreateRemoveEnvoy(s) PROVE TypeInv'
  <2> DEFINE r == [req[s] EXCEPT !.pc = "socat.create", !.target = 0]
  <2>1. req[s].pc = "create.removeEnvoy" /\ WorldTyped
    BY <1>14, <1>0, ContainerOps, ContainersTyped DEF CreateRemoveEnvoy, At
  <2>2. req[s].kind # "remove"
    BY <2>1, <1>a DEF NoProviderYet
  <2>3. "socat.create" \in PCs \ HoldsIdentity /\ 0 \in 0 .. MaxOps
    BY BoundAssumption DEF PCs, HoldsIdentity
  <2>4. r \in Request
    BY <1>0, <2>3 DEF Request
  <2>5. req' = [req EXCEPT ![s] = r]
    BY <1>0, <1>14 DEF CreateRemoveEnvoy, Request
  <2>6. /\ r.op = req[s].op /\ r.kind = req[s].kind /\ r.prov = req[s].prov
        /\ r.pc = "socat.create"
    BY <1>0 DEF Request
  <2> HIDE DEF r
  <2> QED
    BY <2>1, <2>2, <2>3, <2>4, <2>5, <2>6, KeepTypeInv
<1>15. ASSUME NEW s \in Slots, CreateSocat(s) PROVE TypeInv'
  <2>1. req[s].pc = "socat.create"
    BY <1>15 DEF CreateSocat, At
  <2>2. req[s].kind # "remove" /\ req[s].prov \in Provider /\ req[s].op # 0
    BY <2>1, <1>a DEF NoProviderYet
  <2>3. CASE req[s].ident = NoIdentity
    <3>1. WorldTyped /\ Answer(s, "TypeError")
      BY <1>15, <1>w, <2>3 DEF CreateSocat
    <3> QED
      BY <2>1, <3>1, AnswerTypeInv DEF Outcomes
  <2>4. CASE req[s].ident # NoIdentity
    <3>1. req[s].ident \in Identity
      BY <1>0, <2>4 DEF Request
    <3>2. NewContainer("socat", req[s]) \in Container
      BY <1>0, <2>2, <3>1, ContainerOps
    <3>3. WorldTyped
      BY <1>15, <1>0, <3>2, ContainersTyped DEF CreateSocat
    <3>4. \/ \E o \in Outcomes : Answer(s, o)
          \/ Goto(s, "socat.start")
      BY <1>15 DEF CreateSocat, Outcomes
    <3>5. "socat.start" \in PCs
      BY DEF PCs
    <3> QED
      BY <2>1, <2>2, <3>1, <3>3, <3>4, <3>5, AnswerTypeInv, GotoTypeInv
  <2> QED
    BY <2>3, <2>4
<1>16. ASSUME NEW s \in Slots, StartSocat(s) PROVE TypeInv'
  <2>1. req[s].pc = "socat.start" /\ WorldTyped
    BY <1>16, <1>0, ContainerOps, ContainersTyped DEF StartSocat, At
  <2>2. req[s].kind # "remove" /\ req[s].ident \in Identity
    BY <2>1, <1>a, <1>b DEF NoProviderYet, HoldsIdentity
  <2>3. Goto(s, "envoy.create") /\ "envoy.create" \in PCs
    BY <1>16 DEF StartSocat, PCs
  <2> QED
    BY <2>1, <2>2, <2>3, GotoTypeInv
<1>f. ASSUME faults < MaxFaults, faults' = faults + 1 PROVE faults' \in 0 .. MaxFaults
  BY <1>0, <1>f, BoundAssumption
<1>17. ASSUME NEW s \in Slots, StartSocatFails(s) PROVE TypeInv'
  <2>1. req[s].pc = "socat.start" /\ Answer(s, "Repository")
    BY <1>17 DEF StartSocatFails, At
  <2>2. WorldTyped
    BY <1>17, <1>0, <1>f, ContainerOps, ContainersTyped DEF StartSocatFails
  <2> QED
    BY <2>1, <2>2, AnswerTypeInv DEF Outcomes
<1>18. ASSUME NEW s \in Slots, CreateEnvoy(s) PROVE TypeInv'
  <2>1. req[s].pc = "envoy.create"
    BY <1>18 DEF CreateEnvoy, At
  <2>2. /\ req[s].kind # "remove" /\ req[s].ident \in Identity
        /\ req[s].prov \in Provider /\ req[s].op # 0
    BY <2>1, <1>a, <1>b DEF NoProviderYet, HoldsIdentity
  <2>3. NewContainer("envoy", req[s]) \in Container
    BY <1>0, <2>2, ContainerOps
  <2>4. WorldTyped
    BY <1>18, <1>0, <2>3, ContainersTyped DEF CreateEnvoy
  <2>5. \/ \E o \in Outcomes : Answer(s, o)
        \/ Goto(s, "envoy.start")
    BY <1>18 DEF CreateEnvoy, Outcomes
  <2>6. "envoy.start" \in PCs
    BY DEF PCs
  <2> QED
    BY <2>1, <2>2, <2>4, <2>5, <2>6, AnswerTypeInv, GotoTypeInv
<1>19. ASSUME NEW s \in Slots, StartEnvoy(s) PROVE TypeInv'
  <2>1. req[s].pc = "envoy.start" /\ WorldTyped /\ Answer(s, "Ok")
    BY <1>19, <1>0, ContainerOps, ContainersTyped DEF StartEnvoy, At
  <2> QED
    BY <2>1, AnswerTypeInv DEF Outcomes
<1>20. ASSUME NEW s \in Slots, DownAllList(s) PROVE TypeInv'
  <2>1. req[s].pc = "downAll.list" /\ WorldTyped
    BY <1>20, <1>w DEF DownAllList, At
  <2>2. req[s].kind # "remove"
    BY <2>1, <1>a DEF NoProviderYet
  <2>3. CASE Goto(s, "down.provider")
    <3>1. "down.provider" \in PCs \ HoldsIdentity
      BY DEF PCs, HoldsIdentity
    <3> QED
      BY <2>1, <2>2, <2>3, <3>1, GotoTypeInv
  <2>4. ASSUME NEW c \in ListedProxies(req[s].prov),
               req' = [req EXCEPT ![s].pc = "remove.get", ![s].proxy = c.id]
        PROVE  TypeInv'
    <3> DEFINE r == [req[s] EXCEPT !.pc = "remove.get", !.proxy = c.id]
    <3>1. c.id \in 1 .. MaxOps /\ "remove.get" \in PCs \ HoldsIdentity
      BY <1>0 DEF ListedProxies, ProxiesOf, OfKind, Container, PCs, HoldsIdentity
    <3>2. c.id \in 0 .. MaxOps
      BY <3>1, BoundAssumption
    <3>3. r \in Request
      BY <1>0, <3>1, <3>2 DEF Request
    <3>4. req' = [req EXCEPT ![s] = r]
      BY <1>0, <2>4 DEF Request
    <3>5. /\ r.op = req[s].op /\ r.kind = req[s].kind /\ r.prov = req[s].prov
          /\ r.pc = "remove.get"
      BY <1>0 DEF Request
    <3> HIDE DEF r
    <3> QED
      BY <2>1, <2>2, <3>1, <3>3, <3>4, <3>5, KeepTypeInv
  <2> QED
    BY <1>20, <2>3, <2>4 DEF DownAllList
<1>21. ASSUME NEW s \in Slots, RemoveGet(s) PROVE TypeInv'
  <2>1. req[s].pc = "remove.get" /\ WorldTyped
    BY <1>21, <1>w DEF RemoveGet, At
  <2>2. \/ \E o \in Outcomes : Answer(s, o)
        \/ Goto(s, "remove.read")
    BY <1>21 DEF RemoveGet, Outcomes
  <2>3. "remove.read" \in (PCs \cap NoProviderYet) \ HoldsIdentity
    BY DEF PCs, NoProviderYet, HoldsIdentity
  <2> QED
    BY <2>1, <2>2, <2>3, AnswerTypeInv, GotoTypeInv
<1>d. ASSUME NEW s \in Slots, req[s].pc # "idle", WorldTyped, Removed(s) PROVE TypeInv'
  <2>1. "down.provider" \in PCs \ HoldsIdentity
    BY DEF PCs, HoldsIdentity
  <2>2. CASE req[s].kind = "remove" /\ Answer(s, "Ok")
    BY <1>d, <2>2, AnswerTypeInv DEF Outcomes
  <2>3. CASE req[s].kind # "remove" /\ Goto(s, "down.provider")
    BY <1>d, <2>1, <2>3, GotoTypeInv
  <2> QED
    BY <1>d, <2>2, <2>3 DEF Removed
<1>22. ASSUME NEW s \in Slots, RemoveRead(s) PROVE TypeInv'
  <2>1. req[s].pc = "remove.read" /\ WorldTyped
    BY <1>22, <1>w DEF RemoveRead, At
  <2>2. CASE Removed(s)
    BY <1>d, <2>1, <2>2
  <2>3. ASSUME NEW c \in OfKind("socat"),
               req' = [req EXCEPT ![s].pc = "remove.containers",
                                  ![s].todo = {e.id : e \in ProxiesOf("envoy", c.provider)}]
        PROVE  TypeInv'
    <3> DEFINE ids == {e.id : e \in ProxiesOf("envoy", c.provider)}
               r == [req[s] EXCEPT !.pc = "remove.containers", !.todo = ids]
    <3>1. "remove.containers" \in (PCs \cap NoProviderYet) \ HoldsIdentity
      BY DEF PCs, NoProviderYet, HoldsIdentity
    <3>2. ids \subseteq 1 .. MaxOps
      BY <1>0 DEF ProxiesOf, OfKind, Container
    <3> HIDE DEF ids
    <3>3. r \in Request
      BY <1>0, <3>1, <3>2 DEF Request
    <3>4. req' = [req EXCEPT ![s] = r]
      BY <1>0, <2>3 DEF Request, ids
    <3>5. /\ r.op = req[s].op /\ r.kind = req[s].kind /\ r.prov = req[s].prov
          /\ r.pc = "remove.containers"
      BY <1>0 DEF Request
    <3> HIDE DEF r
    <3> QED
      BY <2>1, <3>1, <3>3, <3>4, <3>5, KeepTypeInv
  <2> QED
    BY <1>22, <2>2, <2>3 DEF RemoveRead
<1>23. ASSUME NEW s \in Slots, RemoveEnvoy(s) PROVE TypeInv'
  <2>1. req[s].pc = "remove.containers"
    BY <1>23 DEF RemoveEnvoy, At
  <2>2. PICK n \in req[s].todo : /\ containers' = Without("envoy", n)
                                 /\ req' = [req EXCEPT ![s].todo = @ \ {n}]
    BY <1>23 DEF RemoveEnvoy
  <2>3. WorldTyped
    BY <1>23, <1>0, <2>2, ContainerOps, ContainersTyped DEF RemoveEnvoy
  <2> DEFINE r == [req[s] EXCEPT !.todo = @ \ {n}]
  <2>4. r \in Request
    BY <1>0 DEF Request
  <2>5. req' = [req EXCEPT ![s] = r]
    BY <1>0, <2>2 DEF Request
  <2>6. /\ r.op = req[s].op /\ r.kind = req[s].kind /\ r.prov = req[s].prov
        /\ r.pc = "remove.containers"
    BY <1>0, <2>1 DEF Request
  <2>7. "remove.containers" \in NoProviderYet \ HoldsIdentity
    BY DEF NoProviderYet, HoldsIdentity
  <2> HIDE DEF r
  <2> QED
    BY <2>1, <2>3, <2>4, <2>5, <2>6, <2>7, KeepTypeInv
<1>24. ASSUME NEW s \in Slots, RemoveSocat(s) PROVE TypeInv'
  <2>1. req[s].pc = "remove.containers" /\ WorldTyped /\ Removed(s)
    BY <1>24, <1>0, ContainerOps, ContainersTyped DEF RemoveSocat, At
  <2> QED
    BY <1>d, <2>1
<1>25. ASSUME NEW s \in Slots, Fail(s) PROVE TypeInv'
  <2>1. req[s].pc # "idle" /\ Answer(s, "Repository")
    BY <1>25 DEF Fail
  <2>2. WorldTyped
    BY <1>25, <1>0, <1>f, ContainersTyped DEF Fail
  <2> QED
    BY <2>1, <2>2, AnswerTypeInv DEF Outcomes
<1>26. ASSUME NEW s \in Slots, Reply(s) PROVE TypeInv'
  <2>1. /\ req' = [req EXCEPT ![s] = Idle]
        /\ UNCHANGED <<containers, vpn, myst, ops, faults>>
    BY <1>26 DEF Reply
  <2>2. Idle.pc = "idle" /\ Idle.kind # "remove" /\ "idle" \notin HoldsIdentity
    BY DEF Idle, HoldsIdentity
  <2>3. ops' \in 0 .. MaxOps /\ ops <= ops'
    BY <1>0, <2>1, BoundAssumption
  <2> QED
    BY <1>0, <2>1, <2>2, <2>3, IdleRequest, MoveTypeInv
<1>27. ASSUME UNCHANGED <<req, ops>>, containers' \subseteq Container,
              vpn' \in [Identity -> Provider \cup {NoProvider}],
              myst' \in [Identity -> BOOLEAN], faults' \in 0 .. MaxFaults
       PROVE  TypeInv'
  BY <1>27 DEF TypeInv, TypeOK, RequestOK
<1>28. ASSUME NEW i \in Identity, MystStop(i) \/ MystStart(i) \/ TunnelLost(i)
       PROVE  TypeInv'
  BY <1>28, <1>0, <1>f, <1>27 DEF MystStop, MystStart, TunnelLost
<1>29. ASSUME NEW c \in containers, Entrypoint(c) PROVE TypeInv'
  <2>1. c.provider \in Provider
    BY <1>0 DEF Container
  <2> QED
    BY <1>29, <1>0, <1>27, <2>1 DEF Entrypoint
<1>30. CASE UNCHANGED vars
  BY <1>30, <1>0, <1>27 DEF vars
<1>31. ASSUME NEW s \in Slots, Serve(s) PROVE TypeInv'
  BY <1>31, <1>2, <1>3, <1>4, <1>5, <1>6, <1>7, <1>8, <1>9, <1>10, <1>11, <1>12, <1>13,
     <1>14, <1>15, <1>16, <1>18, <1>19, <1>20, <1>21, <1>22, <1>23, <1>24, <1>26 DEF Serve
<1> QED
  BY <1>1, <1>17, <1>25, <1>28, <1>29, <1>30, <1>31 DEF Next

(* Whatever the interleaving, the faults and the numbers of providers,     *)
(* identities and requests, the containers stay well formed and a handler  *)
(* never acts on a variable it has not set: no proxy or connection         *)
(* container is created for an identity or a provider that does not exist. *)
THEOREM TypeCorrect == Spec => []TypeOK
<1>1. Init => TypeInv
  BY InitTypeInv
<1>2. TypeInv /\ [Next]_vars => TypeInv'
  BY NextTypeInv
<1>3. TypeInv => TypeOK
  BY DEF TypeInv
<1> QED
  BY <1>1, <1>2, <1>3, PTL DEF Spec

-----------------------------------------------------------------------------
(* `up` never tears down a connection that was established when it chose   *)
(* its identity, for any number of concurrent requests.                    *)

Up == {"up", "upCreate"}

(* Before a request creates its MYST_CONNECT container.                    *)
NotYetConnected ==
  {"up.provider", "up.identity", "up.runner", "disconnect.list", "disconnect.remove",
   "disconnect.tunnel", "connect", "connect.create", "down.provider", "downAll.list",
   "remove.get", "remove.read", "remove.containers"}

(* While `up` works on the identity it chose.                              *)
Chosen == {"up.runner", "disconnect.list", "disconnect.remove", "disconnect.tunnel",
           "connect"}

(* Where only the operations that end a connection or a proxy are.         *)
DownPCs == {"down.provider", "downAll.list", "remove.get", "remove.read",
            "remove.containers"}

(* Connections carry the numbers of requests that were issued, no two      *)
(* requests share one, and the number of a request that has not created    *)
(* its connection is neither on a container nor in anybody's history.      *)
NumbersOK ==
  /\ \A c \in OfKind("connect") : c.id \in 1 .. ops
  /\ \A s \in Slots : req[s].seen \subseteq 1 .. ops
  /\ \A s, t \in Slots :
       s # t /\ req[s].pc # "idle" /\ req[t].pc # "idle" => req[s].op # req[t].op
  /\ \A s \in Slots : req[s].pc \in NotYetConnected =>
       /\ \A c \in OfKind("connect") : c.id # req[s].op
       /\ \A t \in Slots : req[s].op \notin req[t].seen

(* The identity `up` works on has no connection among those it saw, and    *)
(* the one it is about to remove is a later one.                           *)
ChoiceOK ==
  \A s \in Slots :
    /\ req[s].pc \in DownPCs => req[s].kind \notin Up
    /\ req[s].kind \in Up /\ req[s].pc \in Chosen =>
         \A c \in OfKind("connect") : c.id \in req[s].seen => c.identity # req[s].ident
    /\ req[s].kind \in Up /\ req[s].pc = "disconnect.remove" =>
         req[s].target \notin req[s].seen

EstInv == TypeInv /\ NumbersOK /\ ChoiceOK

(* A step that registers no connection; it may start or remove some.       *)
NoNewConnection ==
  \A c \in containers' : c.kind = "connect" =>
    \E d \in containers : d.kind = "connect" /\ d.id = c.id /\ d.identity = c.identity

LEMMA NoNewByOps ==
  ASSUME containers \subseteq Container, NEW k, NEW n, NEW r,
         \/ containers' = containers
         \/ containers' = Without(k, n)
         \/ containers' = Started(k, n)
         \/ k # "connect" /\ containers' = containers \cup {NewContainer(k, r)}
  PROVE  NoNewConnection
<1>1. CASE containers' = containers \/ containers' = Without(k, n)
  BY <1>1 DEF NoNewConnection, Without
<1>2. CASE containers' = Started(k, n)
  <2> SUFFICES ASSUME NEW c \in containers', c.kind = "connect"
               PROVE  \E d \in containers : /\ d.kind = "connect" /\ d.id = c.id
                                            /\ d.identity = c.identity
    BY DEF NoNewConnection
  <2>1. PICK d \in containers : c = IF d.kind = k /\ d.id = n
                                    THEN [d EXCEPT !.status = "running"] ELSE d
    BY <1>2 DEF Started
  <2>2. d.kind = c.kind /\ d.id = c.id /\ d.identity = c.identity
    BY <2>1 DEF Container
  <2> QED
    BY <2>2
<1>3. CASE k # "connect" /\ containers' = containers \cup {NewContainer(k, r)}
  BY <1>3 DEF NoNewConnection, NewContainer
<1> QED
  BY <1>1, <1>2, <1>3

(* One request moves, keeping what the invariant is about.                 *)
LEMMA MoveEst ==
  ASSUME NumbersOK, ChoiceOK, TypeOK, NEW s \in Slots, NEW r \in Request,
         req' = [req EXCEPT ![s] = r], ops' = ops, NoNewConnection,
         req[s].pc # "idle", r.op = req[s].op, r.kind = req[s].kind,
         r.seen = req[s].seen,
         r.pc \in NotYetConnected => req[s].pc \in NotYetConnected,
         r.pc \in DownPCs => req[s].kind \notin Up,
         r.kind \in Up /\ r.pc \in Chosen => req[s].pc \in Chosen /\ r.ident = req[s].ident,
         r.kind \in Up /\ r.pc = "disconnect.remove" => r.target \notin r.seen
  PROVE  NumbersOK' /\ ChoiceOK'
<1>1. /\ req'[s] = r
      /\ \A t \in Slots : t # s => req'[t] = req[t]
      /\ \A t \in Slots : req'[t].seen = req[t].seen /\ req'[t].op = req[t].op
      /\ \A t \in Slots : req'[t].pc # "idle" => req[t].pc # "idle"
      /\ \A t \in Slots : req'[t].pc \in NotYetConnected => req[t].pc \in NotYetConnected
  BY DEF TypeOK
<1>2. \A c \in OfKind("connect")' :
        \E d \in OfKind("connect") : d.id = c.id /\ d.identity = c.identity
  BY DEF NoNewConnection, OfKind
<1>3. NumbersOK'
  <2>1. /\ \A c \in OfKind("connect")' : c.id \in 1 .. ops'
        /\ \A t \in Slots : req'[t].seen \subseteq 1 .. ops'
    BY <1>1, <1>2 DEF NumbersOK
  <2>2. \A t, u \in Slots :
          t # u /\ req'[t].pc # "idle" /\ req'[u].pc # "idle" => req'[t].op # req'[u].op
    BY <1>1 DEF NumbersOK
  <2>3. \A t \in Slots : req'[t].pc \in NotYetConnected =>
          /\ \A c \in OfKind("connect")' : c.id # req'[t].op
          /\ \A u \in Slots : req'[t].op \notin req'[u].seen
    BY <1>1, <1>2 DEF NumbersOK
  <2> QED
    BY <2>1, <2>2, <2>3 DEF NumbersOK
<1>4. ChoiceOK'
  <2> SUFFICES ASSUME NEW t \in Slots
               PROVE  /\ req'[t].pc \in DownPCs => req'[t].kind \notin Up
                      /\ req'[t].kind \in Up /\ req'[t].pc \in Chosen =>
                           \A c \in OfKind("connect")' :
                             c.id \in req'[t].seen => c.identity # req'[t].ident
                      /\ req'[t].kind \in Up /\ req'[t].pc = "disconnect.remove" =>
                           req'[t].target \notin req'[t].seen
    BY DEF ChoiceOK
  <2>1. CASE t = s
    BY <1>1, <1>2, <2>1 DEF ChoiceOK
  <2>2. CASE t # s
    BY <1>1, <1>2, <2>2 DEF ChoiceOK
  <2> QED
    BY <2>1, <2>2
<1> QED
  BY <1>3, <1>4

LEMMA AnswerEst ==
  ASSUME NumbersOK, ChoiceOK, TypeOK, NEW s \in Slots, NEW o \in Outcomes,
         req[s].pc # "idle", Answer(s, o), ops' = ops, NoNewConnection
  PROVE  NumbersOK' /\ ChoiceOK'
<1> DEFINE r == [req[s] EXCEPT !.pc = "done", !.out = o]
<1>1. req[s] \in Request /\ req \in [Slots -> Request]
  BY DEF TypeOK
<1>2. r \in Request
  BY <1>1 DEF Request, PCs
<1>3. req' = [req EXCEPT ![s] = r]
  BY <1>1 DEF Answer, Request
<1>4. r.pc = "done" /\ r.op = req[s].op /\ r.kind = req[s].kind /\ r.seen = req[s].seen
  BY <1>1 DEF Request
<1>5. "done" \notin NotYetConnected \cup DownPCs \cup Chosen
  BY DEF NotYetConnected, DownPCs, Chosen
<1> HIDE DEF r
<1> QED
  BY <1>2, <1>3, <1>4, <1>5, MoveEst

(* The places a request may move to without touching the choice.           *)
Onward(s, l) ==
  /\ l \in PCs \ {"disconnect.remove"}
  /\ l \in NotYetConnected => req[s].pc \in NotYetConnected
  /\ l \in DownPCs => req[s].kind \notin Up
  /\ l \in Chosen /\ req[s].kind \in Up => req[s].pc \in Chosen

LEMMA GotoEst ==
  ASSUME NumbersOK, ChoiceOK, TypeOK, NEW s \in Slots, NEW l,
         req[s].pc # "idle", Goto(s, l), ops' = ops, NoNewConnection, Onward(s, l)
  PROVE  NumbersOK' /\ ChoiceOK'
<1> DEFINE r == [req[s] EXCEPT !.pc = l]
<1>1. req[s] \in Request /\ req \in [Slots -> Request] /\ l \in PCs
  BY DEF TypeOK, Onward
<1>2. r \in Request
  BY <1>1 DEF Request
<1>3. req' = [req EXCEPT ![s] = r]
  BY <1>1 DEF Goto, Request
<1>4. /\ r.pc = l /\ r.op = req[s].op /\ r.kind = req[s].kind /\ r.seen = req[s].seen
      /\ r.ident = req[s].ident
  BY <1>1 DEF Request
<1> HIDE DEF r
<1> QED
  BY <1>2, <1>3, <1>4, MoveEst DEF Onward

LEMMA InitEst == Init => EstInv
<1> SUFFICES ASSUME Init PROVE EstInv
  OBVIOUS
<1>1. NumbersOK /\ ChoiceOK
  BY DEF Init, NumbersOK, ChoiceOK, Idle, OfKind, NotYetConnected, DownPCs, Chosen
<1> QED
  BY <1>1, InitTypeInv DEF EstInv

LEMMA NextEst == EstInv /\ [Next]_vars => EstInv'
<1> SUFFICES ASSUME EstInv, [Next]_vars PROVE NumbersOK' /\ ChoiceOK'
  BY NextTypeInv DEF EstInv
<1> USE DEF At
<1>0. /\ NumbersOK /\ ChoiceOK /\ TypeOK /\ TypeInv
      /\ req \in [Slots -> Request] /\ ops \in 0 .. MaxOps /\ containers \subseteq Container
  BY DEF EstInv, TypeInv, TypeOK
<1>t. req' \in [Slots -> Request]
  BY NextTypeInv DEF EstInv, TypeInv, TypeOK
<1>q. UNCHANGED containers => NoNewConnection
  BY <1>0, NoNewByOps
<1>1. ASSUME NEW s \in Slots, Begin(s) PROVE NumbersOK' /\ ChoiceOK'
  <2>1. /\ ops' = ops + 1 /\ ops < MaxOps /\ containers' = containers
        /\ req[s].pc = "idle"
    BY <1>1 DEF Begin
  <2>2. PICK r : /\ req' = [req EXCEPT ![s] = r] /\ r.op = ops + 1 /\ r.seen = {}
                 /\ r.pc \notin Chosen /\ r.pc # "disconnect.remove"
                 /\ r.pc \in DownPCs => r.kind \notin Up
    <3>1. CASE \E k \in Kinds \ {"remove"}, p \in Provider :
                 req' = [req EXCEPT ![s] = [Idle EXCEPT !.pc = Entry[k], !.kind = k,
                                                        !.op = ops + 1, !.prov = p]]
      <4>1. PICK k \in Kinds \ {"remove"}, p \in Provider :
                   req' = [req EXCEPT ![s] = [Idle EXCEPT !.pc = Entry[k], !.kind = k,
                                                          !.op = ops + 1, !.prov = p]]
        BY <3>1
      <4> DEFINE r == [Idle EXCEPT !.pc = Entry[k], !.kind = k, !.op = ops + 1, !.prov = p]
      <4>2. k \in AllKinds \ {"remove"}
        BY KindsAssumption
      <4>3. /\ Entry[k] \in {"up.provider", "down.provider", "downAll.list", "create.provider"}
            /\ Entry[k] \in DownPCs => k \notin Up
        BY <4>2 DEF Entry, AllKinds, DownPCs, Up
      <4>4. r.pc = Entry[k] /\ r.kind = k /\ r.op = ops + 1 /\ r.seen = {}
        BY DEF Idle
      <4>5. Entry[k] \notin Chosen /\ Entry[k] # "disconnect.remove"
        BY <4>3 DEF Chosen
      <4>6. req' = [req EXCEPT ![s] = r]
        BY <4>1
      <4> HIDE DEF r
      <4> QED
        BY <4>3, <4>4, <4>5, <4>6
    <3>2. CASE \E c \in OfKind("socat") :
                 req' = [req EXCEPT ![s] = [Idle EXCEPT !.pc = Entry["remove"],
                                                        !.kind = "remove", !.op = ops + 1,
                                                        !.proxy = c.id]]
      <4>1. PICK c \in OfKind("socat") :
                   req' = [req EXCEPT ![s] = [Idle EXCEPT !.pc = Entry["remove"],
                                                          !.kind = "remove", !.op = ops + 1,
                                                          !.proxy = c.id]]
        BY <3>2
      <4> DEFINE r == [Idle EXCEPT !.pc = Entry["remove"], !.kind = "remove",
                                   !.op = ops + 1, !.proxy = c.id]
      <4>2. /\ r.pc = "remove.get" /\ r.kind = "remove" /\ r.op = ops + 1 /\ r.seen = {}
            /\ req' = [req EXCEPT ![s] = r]
        BY <4>1 DEF Idle, Entry
      <4> HIDE DEF r
      <4> QED
        BY <4>2 DEF Chosen, Up
    <3> QED
      BY <1>1, <3>1, <3>2 DEF Begin
  <2>3. ops + 1 \notin 1 .. ops /\ 1 .. ops \subseteq 1 .. ops' /\ ops \in Nat
    BY <1>0, <2>1, BoundAssumption
  <2>4. /\ req'[s] = r
        /\ \A t \in Slots : t # s => req'[t] = req[t]
        /\ \A t \in Slots : t # s /\ req[t].pc # "idle" => req[t].op \in 1 .. ops
        /\ \A c \in OfKind("connect")' : c \in OfKind("connect") /\ c.id \in 1 .. ops
        /\ \A t \in Slots : req[t].seen \subseteq 1 .. ops
    BY <1>0, <2>1, <2>2 DEF TypeInv, RequestOK, OfKind, NumbersOK
  <2>5. NumbersOK'
    <3>1. /\ \A c \in OfKind("connect")' : c.id \in 1 .. ops'
          /\ \A t \in Slots : req'[t].seen \subseteq 1 .. ops'
      BY <2>2, <2>3, <2>4
    <3>2. \A t, u \in Slots :
            t # u /\ req'[t].pc # "idle" /\ req'[u].pc # "idle" => req'[t].op # req'[u].op
      <4> SUFFICES ASSUME NEW t \in Slots, NEW u \in Slots, t # u,
                          req'[t].pc # "idle", req'[u].pc # "idle"
                   PROVE  req'[t].op # req'[u].op
        OBVIOUS
      <4>1. CASE t # s /\ u # s
        BY <1>0, <2>4, <4>1 DEF NumbersOK
      <4>2. CASE t = s \/ u = s
        <5>1. ops + 1 \notin 1 .. ops /\ r.op = ops + 1
          BY <2>2, <2>3
        <5> QED
          BY <2>4, <4>2, <5>1
      <4> QED
        BY <4>1, <4>2
    <3>3. \A t \in Slots : req'[t].pc \in NotYetConnected =>
            /\ \A c \in OfKind("connect")' : c.id # req'[t].op
            /\ \A u \in Slots : req'[t].op \notin req'[u].seen
      <4> SUFFICES ASSUME NEW t \in Slots, req'[t].pc \in NotYetConnected
                   PROVE  /\ \A c \in OfKind("connect")' : c.id # req'[t].op
                          /\ \A u \in Slots : req'[t].op \notin req'[u].seen
        OBVIOUS
      <4>1. \A u \in Slots : req'[u].seen \subseteq req[u].seen
        BY <2>2, <2>4
      <4>2. CASE t = s
        <5>1. req'[t].op \notin 1 .. ops
          BY <2>2, <2>3, <2>4, <4>2
        <5> QED
          BY <2>4, <4>1, <5>1
      <4>3. CASE t # s
        BY <1>0, <2>4, <4>1, <4>3 DEF NumbersOK
      <4> QED
        BY <4>2, <4>3
    <3> QED
      BY <3>1, <3>2, <3>3 DEF NumbersOK
  <2>6. ChoiceOK'
    <3> SUFFICES ASSUME NEW t \in Slots
                 PROVE  /\ req'[t].pc \in DownPCs => req'[t].kind \notin Up
                        /\ req'[t].kind \in Up /\ req'[t].pc \in Chosen =>
                             \A c \in OfKind("connect")' :
                               c.id \in req'[t].seen => c.identity # req'[t].ident
                        /\ req'[t].kind \in Up /\ req'[t].pc = "disconnect.remove" =>
                             req'[t].target \notin req'[t].seen
      BY DEF ChoiceOK
    <3>1. CASE t = s
      BY <2>2, <2>4, <3>1
    <3>2. CASE t # s
      BY <1>0, <2>4, <3>2 DEF ChoiceOK
    <3> QED
      BY <3>1, <3>2
  <2> QED
    BY <2>5, <2>6
<1>2. ASSUME NEW s \in Slots, UpReadProvider(s) PROVE NumbersOK' /\ ChoiceOK'
  <2>1. req[s].pc = "up.provider" /\ ops' = ops /\ NoNewConnection
    BY <1>2, <1>0, <1>q DEF UpReadProvider
  <2>2. (\E o \in Outcomes : Answer(s, o)) \/ Goto(s, "up.identity")
    BY <1>2 DEF UpReadProvider, Outcomes
  <2>3. Onward(s, "up.identity")
    BY <2>1, <1>0 DEF Onward, PCs, NotYetConnected, DownPCs, Chosen, ChoiceOK
  <2> QED
    BY <1>0, <2>1, <2>2, <2>3, AnswerEst, GotoEst
<1>3. ASSUME NEW s \in Slots, UpPickIdentity(s) PROVE NumbersOK' /\ ChoiceOK'
  <2>1. /\ req[s].pc = "up.identity" /\ ops' = ops /\ containers' = containers
        /\ NoNewConnection
    BY <1>3, <1>q DEF UpPickIdentity
  <2>2. CASE Answer(s, "NotFoundMystIdentity")
    BY <1>0, <2>1, <2>2, AnswerEst DEF Outcomes
  <2>3. ASSUME NEW i \in FreeIdentities,
               req' = [req EXCEPT ![s].pc = "up.runner", ![s].ident = i,
                                  ![s].seen = {c.id : c \in OfKind("connect")}]
        PROVE  NumbersOK' /\ ChoiceOK'
    <3>1. /\ req'[s].pc = "up.runner" /\ req'[s].ident = i /\ req'[s].op = req[s].op
          /\ req'[s].kind = req[s].kind
          /\ req'[s].seen = {c.id : c \in OfKind("connect")}
          /\ \A u \in Slots : u # s => req'[u] = req[u]
      BY <1>0, <2>3 DEF Request
    <3>2. OfKind("connect")' = OfKind("connect")
      BY <2>1 DEF OfKind
    <3>3. \A u \in Slots : /\ req'[u].op = req[u].op
                           /\ req'[u].pc # "idle" => req[u].pc # "idle"
                           /\ req'[u].pc \in NotYetConnected => req[u].pc \in NotYetConnected
      BY <2>1, <3>1 DEF NotYetConnected
    <3>4. \A u \in Slots : req[u].pc \in NotYetConnected => req[u].op \notin req'[s].seen
      BY <1>0, <3>1 DEF NumbersOK
    <3>5. NumbersOK'
      <4>1. /\ \A c \in OfKind("connect")' : c.id \in 1 .. ops'
            /\ \A u \in Slots : req'[u].seen \subseteq 1 .. ops'
        BY <1>0, <2>1, <3>1, <3>2 DEF NumbersOK
      <4>2. \A u, v \in Slots :
              u # v /\ req'[u].pc # "idle" /\ req'[v].pc # "idle" => req'[u].op # req'[v].op
        BY <1>0, <3>3 DEF NumbersOK
      <4>3. \A u \in Slots : req'[u].pc \in NotYetConnected =>
              /\ \A c \in OfKind("connect")' : c.id # req'[u].op
              /\ \A v \in Slots : req'[u].op \notin req'[v].seen
        BY <1>0, <3>1, <3>2, <3>3, <3>4 DEF NumbersOK
      <4> QED
        BY <4>1, <4>2, <4>3 DEF NumbersOK
    <3>6. ChoiceOK'
      <4>1. \A c \in OfKind("connect") : c.identity # i
        BY DEF FreeIdentities, OnIdentity
      <4>2. "up.runner" \notin DownPCs
        BY DEF DownPCs
      <4> QED
        BY <1>0, <3>1, <3>2, <4>1, <4>2 DEF ChoiceOK
    <3> QED
      BY <3>5, <3>6
  <2> QED
    BY <1>3, <2>2, <2>3 DEF UpPickIdentity
<1>4. ASSUME NEW s \in Slots, UpCheckRunner(s) PROVE NumbersOK' /\ ChoiceOK'
  <2>1. req[s].pc = "up.runner" /\ ops' = ops /\ NoNewConnection
    BY <1>4, <1>0, <1>q DEF UpCheckRunner
  <2>2. (\E o \in Outcomes : Answer(s, o)) \/ Goto(s, "disconnect.list")
    BY <1>4 DEF UpCheckRunner, Outcomes
  <2>3. Onward(s, "disconnect.list")
    BY <2>1, <1>0 DEF Onward, PCs, NotYetConnected, DownPCs, Chosen, ChoiceOK
  <2> QED
    BY <1>0, <2>1, <2>2, <2>3, AnswerEst, GotoEst
<1>5. ASSUME NEW s \in Slots, DisconnectList(s) PROVE NumbersOK' /\ ChoiceOK'
  <2>1. req[s].pc = "disconnect.list" /\ ops' = ops /\ NoNewConnection
    BY <1>5, <1>0, <1>q DEF DisconnectList
  <2>2. CASE Goto(s, "disconnect.tunnel")
    <3>1. Onward(s, "disconnect.tunnel")
      BY <2>1 DEF Onward, PCs, NotYetConnected, DownPCs, Chosen
    <3> QED
      BY <1>0, <2>1, <2>2, <3>1, GotoEst
  <2>3. ASSUME NEW c \in OnIdentity("connect", req[s].ident),
               req' = [req EXCEPT ![s].pc = "disconnect.remove", ![s].target = c.id]
        PROVE  NumbersOK' /\ ChoiceOK'
    <3> DEFINE r == req'[s]
    <3>1. /\ r \in Request /\ req' = [req EXCEPT ![s] = r]
          /\ r.pc = "disconnect.remove" /\ r.target = c.id /\ r.op = req[s].op
          /\ r.kind = req[s].kind /\ r.seen = req[s].seen /\ r.ident = req[s].ident
      BY <1>0, <1>t, <2>3 DEF Request
    <3> HIDE DEF r
    <3>2. c \in OfKind("connect") /\ c.identity = req[s].ident
      BY DEF OnIdentity
    <3>3. /\ req[s].pc \in NotYetConnected /\ req[s].pc \in Chosen
          /\ "disconnect.remove" \notin DownPCs
      BY <2>1 DEF NotYetConnected, Chosen, DownPCs
    <3>4. r.kind \in Up => r.target \notin r.seen
      BY <1>0, <3>1, <3>2, <3>3 DEF ChoiceOK
    <3> QED
      BY <1>0, <2>1, <3>1, <3>3, <3>4, MoveEst
  <2> QED
    BY <1>5, <2>2, <2>3 DEF DisconnectList
<1>6. ASSUME NEW s \in Slots, DisconnectRemove(s) PROVE NumbersOK' /\ ChoiceOK'
  <2>1. req[s].pc = "disconnect.remove" /\ ops' = ops /\ NoNewConnection
    BY <1>6, <1>0, NoNewByOps DEF DisconnectRemove
  <2> DEFINE r == req'[s]
  <2>2. /\ r \in Request /\ req' = [req EXCEPT ![s] = r]
        /\ r.pc = "disconnect.tunnel" /\ r.op = req[s].op
        /\ r.kind = req[s].kind /\ r.seen = req[s].seen /\ r.ident = req[s].ident
    BY <1>0, <1>t, <1>6, <2>1 DEF DisconnectRemove, Request
  <2> HIDE DEF r
  <2>3. Onward(s, r.pc)
    BY <1>0, <2>1, <2>2 DEF Onward, PCs, NotYetConnected, Chosen, DownPCs, ChoiceOK
  <2> QED
    BY <1>0, <2>1, <2>2, <2>3, MoveEst DEF Onward
<1>7. ASSUME NEW s \in Slots, DisconnectTunnel(s) PROVE NumbersOK' /\ ChoiceOK'
  <2>1. req[s].pc = "disconnect.tunnel" /\ ops' = ops /\ NoNewConnection
    BY <1>7, <1>0, <1>q DEF DisconnectTunnel
  <2>2. (\E o \in Outcomes : Answer(s, o)) \/ Goto(s, "connect")
    BY <1>7 DEF DisconnectTunnel, Outcomes
  <2>3. Onward(s, "connect")
    BY <2>1, <1>0 DEF Onward, PCs, NotYetConnected, DownPCs, Chosen, ChoiceOK
  <2> QED
    BY <1>0, <2>1, <2>2, <2>3, AnswerEst, GotoEst
<1>8. ASSUME NEW s \in Slots, Connect(s) PROVE NumbersOK' /\ ChoiceOK'
  <2>1. req[s].pc = "connect" /\ ops' = ops /\ NoNewConnection
    BY <1>8, <1>0, <1>q DEF Connect
  <2>2. (\E o \in Outcomes : Answer(s, o)) \/ Goto(s, "connect.create")
    BY <1>8 DEF Connect, Outcomes
  <2>3. Onward(s, "connect.create")
    BY <2>1, <1>0 DEF Onward, PCs, NotYetConnected, DownPCs, Chosen, ChoiceOK
  <2> QED
    BY <1>0, <2>1, <2>2, <2>3, AnswerEst, GotoEst
<1>9. ASSUME NEW s \in Slots, CreateConnect(s) PROVE NumbersOK' /\ ChoiceOK'
  <2>1. req[s].pc = "connect.create" /\ ops' = ops
    BY <1>9 DEF CreateConnect
  <2>2. CASE UNCHANGED containers
    <3>1. \/ \E o \in Outcomes : Answer(s, o)
          \/ Goto(s, "connect.start")
      BY <1>9 DEF CreateConnect, Outcomes
    <3>2. Onward(s, "connect.start")
      BY DEF Onward, PCs, NotYetConnected, DownPCs, Chosen
    <3> QED
      BY <1>0, <1>q, <2>1, <2>2, <3>1, <3>2, AnswerEst, GotoEst
  <2>3. CASE /\ containers' = containers \cup {NewContainer("connect", req[s])}
             /\ Goto(s, "connect.start")
    <3> DEFINE n == NewContainer("connect", req[s])
    <3>1. n.id = req[s].op /\ req[s].op \in 1 .. ops
      BY <1>0, <2>1 DEF NewContainer, TypeInv, RequestOK
    <3>2. \A c \in OfKind("connect")' : c = n \/ c \in OfKind("connect")
      BY <2>3 DEF OfKind
    <3>3. /\ req'[s].pc = "connect.start"
          /\ \A u \in Slots : /\ req'[u].op = req[u].op /\ req'[u].kind = req[u].kind
                              /\ req'[u].seen = req[u].seen /\ req'[u].ident = req[u].ident
                              /\ req'[u].target = req[u].target
                              /\ u # s => req'[u].pc = req[u].pc
      BY <1>0, <2>3 DEF Goto, Request
    <3> HIDE DEF n
    <3>4. "connect.start" \notin NotYetConnected \cup Chosen \cup DownPCs
      BY DEF NotYetConnected, Chosen, DownPCs
    <3>5. \A u \in Slots : req[s].op \notin req[u].seen
      BY <1>0, <2>1 DEF NumbersOK, NotYetConnected
    <3>6. NumbersOK'
      <4>1. /\ \A c \in OfKind("connect")' : c.id \in 1 .. ops'
            /\ \A u \in Slots : req'[u].seen \subseteq 1 .. ops'
        BY <1>0, <2>1, <3>1, <3>2, <3>3 DEF NumbersOK
      <4>2. \A u, v \in Slots :
              u # v /\ req'[u].pc # "idle" /\ req'[v].pc # "idle" => req'[u].op # req'[v].op
        BY <1>0, <2>1, <3>3 DEF NumbersOK
      <4>3. \A u \in Slots : req'[u].pc \in NotYetConnected =>
              /\ \A c \in OfKind("connect")' : c.id # req'[u].op
              /\ \A v \in Slots : req'[u].op \notin req'[v].seen
        <5> SUFFICES ASSUME NEW u \in Slots, req'[u].pc \in NotYetConnected
                     PROVE  /\ \A c \in OfKind("connect")' : c.id # req'[u].op
                            /\ \A v \in Slots : req'[u].op \notin req'[v].seen
          OBVIOUS
        <5>1. u # s /\ req[u].pc \in NotYetConnected
          BY <3>3, <3>4
        <5>2. req[u].op # req[s].op
          BY <1>0, <2>1, <5>1 DEF NumbersOK, NotYetConnected
        <5> QED
          BY <1>0, <3>1, <3>2, <3>3, <5>1, <5>2 DEF NumbersOK
      <4> QED
        BY <4>1, <4>2, <4>3 DEF NumbersOK
    <3>7. ChoiceOK'
      BY <1>0, <3>1, <3>2, <3>3, <3>4, <3>5 DEF ChoiceOK
    <3> QED
      BY <3>6, <3>7
  <2> QED
    BY <1>9, <2>2, <2>3 DEF CreateConnect
<1>10. ASSUME NEW s \in Slots, StartConnect(s) PROVE NumbersOK' /\ ChoiceOK'
  <2>1. req[s].pc = "connect.start" /\ ops' = ops /\ NoNewConnection
    BY <1>10, <1>0, NoNewByOps DEF StartConnect
  <2>2. (\E o \in Outcomes : Answer(s, o)) \/ Goto(s, "create.provider")
    BY <1>10 DEF StartConnect, Outcomes
  <2>3. Onward(s, "create.provider")
    BY <2>1, <1>0 DEF Onward, PCs, NotYetConnected, DownPCs, Chosen, ChoiceOK
  <2> QED
    BY <1>0, <2>1, <2>2, <2>3, AnswerEst, GotoEst
<1>11. ASSUME NEW s \in Slots, DownReadProvider(s) PROVE NumbersOK' /\ ChoiceOK'
  <2>1. req[s].pc = "down.provider" /\ ops' = ops /\ NoNewConnection
    BY <1>11, <1>0, <1>q DEF DownReadProvider
  <2>2. CASE \E o \in Outcomes : Answer(s, o)
    BY <1>0, <2>1, <2>2, AnswerEst
  <2>3. ASSUME NEW i, req' = [req EXCEPT ![s].pc = "disconnect.list", ![s].ident = i]
        PROVE  NumbersOK' /\ ChoiceOK'
    <3> DEFINE r == req'[s]
    <3>1. /\ r \in Request /\ req' = [req EXCEPT ![s] = r]
          /\ r.pc = "disconnect.list" /\ r.op = req[s].op
          /\ r.kind = req[s].kind /\ r.seen = req[s].seen
      BY <1>0, <1>t, <2>3 DEF Request
    <3> HIDE DEF r
    <3>2. req[s].kind \notin Up
      BY <1>0, <2>1 DEF ChoiceOK, DownPCs
    <3>3. req[s].pc \in NotYetConnected
      BY <2>1 DEF NotYetConnected
    <3> QED
      BY <1>0, <2>1, <3>1, <3>2, <3>3, MoveEst
  <2> QED
    BY <1>11, <2>2, <2>3 DEF DownReadProvider, Outcomes
<1>12. ASSUME NEW s \in Slots, CreateReadProvider(s) PROVE NumbersOK' /\ ChoiceOK'
  <2>1. req[s].pc = "create.provider" /\ ops' = ops /\ NoNewConnection
    BY <1>12, <1>0, <1>q DEF CreateReadProvider
  <2>2. (\E o \in Outcomes : Answer(s, o)) \/ Goto(s, "create.read")
    BY <1>12 DEF CreateReadProvider, Outcomes
  <2>3. Onward(s, "create.read")
    BY <2>1, <1>0 DEF Onward, PCs, NotYetConnected, DownPCs, Chosen, ChoiceOK
  <2> QED
    BY <1>0, <2>1, <2>2, <2>3, AnswerEst, GotoEst
<1>13. ASSUME NEW s \in Slots, CreateReadDependencies(s) PROVE NumbersOK' /\ ChoiceOK'
  <2>1. req[s].pc = "create.read" /\ ops' = ops /\ NoNewConnection
    BY <1>13, <1>0, <1>q DEF CreateReadDependencies
  <2>2. CASE \E o \in Outcomes : Answer(s, o)
    BY <1>0, <2>1, <2>2, AnswerEst
  <2>3. CASE ~ \E o \in Outcomes : Answer(s, o)
    <3> DEFINE r == req'[s]
    <3>1. /\ r \in Request /\ req' = [req EXCEPT ![s] = r]
          /\ r.pc \in {"create.removeEnvoy", "socat.create"} /\ r.op = req[s].op
          /\ r.kind = req[s].kind /\ r.seen = req[s].seen
      BY <1>0, <1>t, <1>13, <2>3 DEF CreateReadDependencies, Request, Outcomes
    <3> HIDE DEF r
    <3>2. {"create.removeEnvoy", "socat.create"} \cap (NotYetConnected \cup Chosen \cup DownPCs) = {}
      BY DEF NotYetConnected, Chosen, DownPCs
    <3> QED
      BY <1>0, <2>1, <3>1, <3>2, MoveEst
  <2> QED
    BY <2>2, <2>3
<1>14. ASSUME NEW s \in Slots, CreateRemoveEnvoy(s) PROVE NumbersOK' /\ ChoiceOK'
  <2>1. req[s].pc = "create.removeEnvoy" /\ ops' = ops /\ NoNewConnection
    BY <1>14, <1>0, NoNewByOps DEF CreateRemoveEnvoy
  <2> DEFINE r == req'[s]
  <2>2. /\ r \in Request /\ req' = [req EXCEPT ![s] = r]
        /\ r.pc = "socat.create" /\ r.op = req[s].op
        /\ r.kind = req[s].kind /\ r.seen = req[s].seen /\ r.ident = req[s].ident
    BY <1>0, <1>t, <1>14, <2>1 DEF CreateRemoveEnvoy, Request
  <2> HIDE DEF r
  <2>3. Onward(s, r.pc)
    BY <1>0, <2>1, <2>2 DEF Onward, PCs, NotYetConnected, Chosen, DownPCs, ChoiceOK
  <2> QED
    BY <1>0, <2>1, <2>2, <2>3, MoveEst DEF Onward
<1>15. ASSUME NEW s \in Slots, CreateSocat(s) PROVE NumbersOK' /\ ChoiceOK'
  <2>1. req[s].pc = "socat.create" /\ ops' = ops /\ NoNewConnection
    BY <1>15, <1>0, NoNewByOps DEF CreateSocat
  <2>2. (\E o \in Outcomes : Answer(s, o)) \/ Goto(s, "socat.start")
    BY <1>15 DEF CreateSocat, Outcomes
  <2>3. Onward(s, "socat.start")
    BY <2>1, <1>0 DEF Onward, PCs, NotYetConnected, DownPCs, Chosen, ChoiceOK
  <2> QED
    BY <1>0, <2>1, <2>2, <2>3, AnswerEst, GotoEst
<1>16. ASSUME NEW s \in Slots, StartSocat(s) PROVE NumbersOK' /\ ChoiceOK'
  <2>1. req[s].pc = "socat.start" /\ ops' = ops /\ NoNewConnection
    BY <1>16, <1>0, NoNewByOps DEF StartSocat
  <2>2. (\E o \in Outcomes : Answer(s, o)) \/ Goto(s, "envoy.create")
    BY <1>16 DEF StartSocat, Outcomes
  <2>3. Onward(s, "envoy.create")
    BY <2>1, <1>0 DEF Onward, PCs, NotYetConnected, DownPCs, Chosen, ChoiceOK
  <2> QED
    BY <1>0, <2>1, <2>2, <2>3, AnswerEst, GotoEst
<1>17. ASSUME NEW s \in Slots, StartSocatFails(s) PROVE NumbersOK' /\ ChoiceOK'
  <2>1. req[s].pc = "socat.start" /\ ops' = ops /\ NoNewConnection
    BY <1>17, <1>0, NoNewByOps DEF StartSocatFails
  <2>2. \E o \in Outcomes : Answer(s, o)
    BY <1>17 DEF StartSocatFails, Outcomes
  <2> QED
    BY <1>0, <2>1, <2>2, AnswerEst
<1>18. ASSUME NEW s \in Slots, CreateEnvoy(s) PROVE NumbersOK' /\ ChoiceOK'
  <2>1. req[s].pc = "envoy.create" /\ ops' = ops /\ NoNewConnection
    BY <1>18, <1>0, NoNewByOps DEF CreateEnvoy
  <2>2. (\E o \in Outcomes : Answer(s, o)) \/ Goto(s, "envoy.start")
    BY <1>18 DEF CreateEnvoy, Outcomes
  <2>3. Onward(s, "envoy.start")
    BY <2>1, <1>0 DEF Onward, PCs, NotYetConnected, DownPCs, Chosen, ChoiceOK
  <2> QED
    BY <1>0, <2>1, <2>2, <2>3, AnswerEst, GotoEst
<1>19. ASSUME NEW s \in Slots, StartEnvoy(s) PROVE NumbersOK' /\ ChoiceOK'
  <2>1. req[s].pc = "envoy.start" /\ ops' = ops /\ NoNewConnection
    BY <1>19, <1>0, NoNewByOps DEF StartEnvoy
  <2>2. \E o \in Outcomes : Answer(s, o)
    BY <1>19 DEF StartEnvoy, Outcomes
  <2> QED
    BY <1>0, <2>1, <2>2, AnswerEst
<1>20. ASSUME NEW s \in Slots, DownAllList(s) PROVE NumbersOK' /\ ChoiceOK'
  <2>1. req[s].pc = "downAll.list" /\ ops' = ops /\ NoNewConnection
    BY <1>20, <1>0, <1>q DEF DownAllList
  <2> DEFINE r == req'[s]
  <2>2. /\ r \in Request /\ req' = [req EXCEPT ![s] = r]
        /\ r.pc \in {"down.provider", "remove.get"} /\ r.op = req[s].op
        /\ r.kind = req[s].kind /\ r.seen = req[s].seen
    BY <1>0, <1>t, <1>20 DEF DownAllList, Goto, Request
  <2> HIDE DEF r
  <2>3. Onward(s, r.pc) /\ r.pc \notin Chosen
    BY <1>0, <2>1, <2>2 DEF Onward, PCs, NotYetConnected, Chosen, DownPCs, ChoiceOK
  <2> QED
    BY <1>0, <2>1, <2>2, <2>3, MoveEst DEF Onward
<1>21. ASSUME NEW s \in Slots, RemoveGet(s) PROVE NumbersOK' /\ ChoiceOK'
  <2>1. req[s].pc = "remove.get" /\ ops' = ops /\ NoNewConnection
    BY <1>21, <1>0, <1>q DEF RemoveGet
  <2>2. (\E o \in Outcomes : Answer(s, o)) \/ Goto(s, "remove.read")
    BY <1>21 DEF RemoveGet, Outcomes
  <2>3. Onward(s, "remove.read")
    BY <2>1, <1>0 DEF Onward, PCs, NotYetConnected, DownPCs, Chosen, ChoiceOK
  <2> QED
    BY <1>0, <2>1, <2>2, <2>3, AnswerEst, GotoEst
<1>d. ASSUME NEW s \in Slots, req[s].pc \in DownPCs, Removed(s), ops' = ops, NoNewConnection
      PROVE  NumbersOK' /\ ChoiceOK'
  <2>1. (\E o \in Outcomes : Answer(s, o)) \/ Goto(s, "down.provider")
    BY <1>d DEF Removed, Outcomes
  <2>2. Onward(s, "down.provider") /\ req[s].pc # "idle"
    BY <1>0, <1>d DEF Onward, PCs, NotYetConnected, DownPCs, Chosen, ChoiceOK
  <2> QED
    BY <1>0, <1>d, <2>1, <2>2, AnswerEst, GotoEst
<1>22. ASSUME NEW s \in Slots, RemoveRead(s) PROVE NumbersOK' /\ ChoiceOK'
  <2>1. req[s].pc = "remove.read" /\ ops' = ops /\ NoNewConnection
    BY <1>22, <1>0, <1>q DEF RemoveRead
  <2>2. CASE Removed(s)
    BY <1>d, <2>1, <2>2 DEF DownPCs
  <2>3. CASE ~Removed(s)
    <3> DEFINE r == req'[s]
    <3>1. /\ r \in Request /\ req' = [req EXCEPT ![s] = r]
          /\ r.pc = "remove.containers" /\ r.op = req[s].op
          /\ r.kind = req[s].kind /\ r.seen = req[s].seen
      BY <1>0, <1>t, <1>22, <2>3 DEF RemoveRead, Request
    <3> HIDE DEF r
    <3>2. Onward(s, r.pc) /\ r.pc \notin Chosen
      BY <1>0, <2>1, <3>1 DEF Onward, PCs, NotYetConnected, Chosen, DownPCs, ChoiceOK
    <3> QED
      BY <1>0, <2>1, <3>1, <3>2, MoveEst DEF Onward
  <2> QED
    BY <2>2, <2>3
<1>23. ASSUME NEW s \in Slots, RemoveEnvoy(s) PROVE NumbersOK' /\ ChoiceOK'
  <2>1. req[s].pc = "remove.containers" /\ ops' = ops /\ NoNewConnection
    BY <1>23, <1>0, NoNewByOps DEF RemoveEnvoy
  <2> DEFINE r == req'[s]
  <2>2. /\ r \in Request /\ req' = [req EXCEPT ![s] = r]
        /\ r.pc = "remove.containers" /\ r.op = req[s].op
        /\ r.kind = req[s].kind /\ r.seen = req[s].seen /\ r.ident = req[s].ident
    BY <1>0, <1>t, <1>23, <2>1 DEF RemoveEnvoy, Request
  <2> HIDE DEF r
  <2>3. Onward(s, r.pc)
    BY <1>0, <2>1, <2>2 DEF Onward, PCs, NotYetConnected, Chosen, DownPCs, ChoiceOK
  <2> QED
    BY <1>0, <2>1, <2>2, <2>3, MoveEst DEF Onward
<1>24. ASSUME NEW s \in Slots, RemoveSocat(s) PROVE NumbersOK' /\ ChoiceOK'
  <2>1. req[s].pc = "remove.containers" /\ ops' = ops /\ NoNewConnection
    BY <1>24, <1>0, NoNewByOps DEF RemoveSocat
  <2> QED
    BY <1>24, <1>d, <2>1 DEF RemoveSocat, DownPCs
<1>25. ASSUME NEW s \in Slots, Fail(s) PROVE NumbersOK' /\ ChoiceOK'
  <2>1. /\ req[s].pc # "idle" /\ ops' = ops /\ NoNewConnection
        /\ \E o \in Outcomes : Answer(s, o)
    BY <1>25, <1>q DEF Fail, Outcomes
  <2> QED
    BY <1>0, <2>1, AnswerEst
<1>26. ASSUME NEW s \in Slots, Reply(s) PROVE NumbersOK' /\ ChoiceOK'
  <2>1. /\ ops' = ops /\ OfKind("connect")' = OfKind("connect")
        /\ req'[s].pc = "idle" /\ req'[s].seen = {}
        /\ \A u \in Slots : u # s => req'[u] = req[u]
    BY <1>0, <1>26 DEF Reply, OfKind, Idle
  <2>2. "idle" \notin NotYetConnected \cup Chosen \cup DownPCs
    BY DEF NotYetConnected, Chosen, DownPCs
  <2>3. NumbersOK'
    BY <1>0, <2>1, <2>2 DEF NumbersOK
  <2>4. ChoiceOK'
    BY <1>0, <2>1, <2>2 DEF ChoiceOK
  <2> QED
    BY <2>3, <2>4
<1>27. ASSUME UNCHANGED <<req, ops, containers>> PROVE NumbersOK' /\ ChoiceOK'
  BY <1>0, <1>27 DEF NumbersOK, ChoiceOK, OfKind
<1>28. ASSUME NEW i \in Identity, MystStop(i) \/ MystStart(i) \/ TunnelLost(i)
       PROVE  NumbersOK' /\ ChoiceOK'
  BY <1>27, <1>28 DEF MystStop, MystStart, TunnelLost
<1>29. ASSUME NEW c \in containers, Entrypoint(c) PROVE NumbersOK' /\ ChoiceOK'
  BY <1>27, <1>29 DEF Entrypoint
<1>30. CASE UNCHANGED vars
  BY <1>27, <1>30 DEF vars
<1>31. ASSUME NEW s \in Slots, Serve(s) PROVE NumbersOK' /\ ChoiceOK'
  BY <1>31, <1>2, <1>3, <1>4, <1>5, <1>6, <1>7, <1>8, <1>9, <1>10, <1>11, <1>12, <1>13,
     <1>14, <1>15, <1>16, <1>18, <1>19, <1>20, <1>21, <1>22, <1>23, <1>24, <1>26 DEF Serve
<1> QED
  BY <1>1, <1>17, <1>25, <1>28, <1>29, <1>30, <1>31 DEF Next

(* A step of one request leaves the other requests where they are.         *)
LEMMA OneRequestMoves ==
  ASSUME req \in [Slots -> Request], NEW t \in Slots, NEW s \in Slots, s # t,
         Begin(t) \/ Serve(t) \/ StartSocatFails(t) \/ Fail(t)
  PROVE  req'[s] = req[s]
<1> USE DEF Goto, Answer, Removed
<1>1. CASE Begin(t) \/ StartSocatFails(t) \/ Fail(t) \/ Reply(t)
  BY <1>1 DEF Begin, StartSocatFails, Fail, Reply
<1>2. CASE UpReadProvider(t) \/ UpPickIdentity(t) \/ UpCheckRunner(t)
  BY <1>2 DEF UpReadProvider, UpPickIdentity, UpCheckRunner
<1>3. CASE DisconnectList(t) \/ DisconnectRemove(t) \/ DisconnectTunnel(t)
  BY <1>3 DEF DisconnectList, DisconnectRemove, DisconnectTunnel
<1>4. CASE Connect(t) \/ CreateConnect(t) \/ StartConnect(t) \/ DownReadProvider(t)
  BY <1>4 DEF Connect, CreateConnect, StartConnect, DownReadProvider
<1>5. CASE CreateReadProvider(t) \/ CreateReadDependencies(t) \/ CreateRemoveEnvoy(t)
  BY <1>5 DEF CreateReadProvider, CreateReadDependencies, CreateRemoveEnvoy
<1>6. CASE CreateSocat(t) \/ StartSocat(t) \/ CreateEnvoy(t) \/ StartEnvoy(t)
  BY <1>6 DEF CreateSocat, StartSocat, CreateEnvoy, StartEnvoy
<1>7. CASE DownAllList(t) \/ RemoveGet(t) \/ RemoveRead(t) \/ RemoveEnvoy(t) \/ RemoveSocat(t)
  BY <1>7 DEF DownAllList, RemoveGet, RemoveRead, RemoveEnvoy, RemoveSocat
<1> QED
  BY <1>1, <1>2, <1>3, <1>4, <1>5, <1>6, <1>7 DEF Serve

(* `up` tears down what it finds on its identity when it gets there, not   *)
(* what it found when it chose it; for any number of providers, identities *)
(* and concurrent requests, and whatever fails, a connection that was      *)
(* registered when the identity was chosen keeps container and tunnel.     *)
THEOREM EstablishedIsSpared == Spec => EstablishedSurvivesUp
<1>1. Init => EstInv
  BY InitEst
<1>2. EstInv /\ [Next]_vars => EstInv'
  BY NextEst
<1>3. EstInv /\ [Next]_vars =>
        [\A s \in Slots : Allocating(s) /\ req'[s] # req[s] =>
           \A c \in Established(s) :
             c \in containers' /\ vpn'[c.identity] = vpn[c.identity]]_vars
  <2> SUFFICES ASSUME EstInv, Next, NEW s \in Slots, Allocating(s), req'[s] # req[s],
                      NEW c \in Established(s)
               PROVE  c \in containers' /\ vpn'[c.identity] = vpn[c.identity]
    BY DEF vars
  <2>1. /\ req \in [Slots -> Request] /\ vpn \in [Identity -> Provider \cup {NoProvider}]
        /\ ChoiceOK /\ TypeInv
    BY DEF EstInv, TypeInv, TypeOK
  <2>2. /\ c \in containers /\ c.id \in req[s].seen
        /\ c.identity # req[s].ident
    BY <2>1 DEF Established, OfKind, ChoiceOK, Allocating, Chosen, Up
  <2>3. /\ req[s].pc \in {"disconnect.remove", "disconnect.tunnel", "connect"}
        /\ req[s].ident \in Identity
    BY <2>1 DEF Allocating, TypeInv, RequestOK, HoldsIdentity
  <2>4. \/ DisconnectRemove(s) \/ DisconnectTunnel(s) \/ Connect(s) \/ Fail(s)
    <3>1. req' # req
      OBVIOUS
    <3>2. PICK t \in Slots : Begin(t) \/ Serve(t) \/ StartSocatFails(t) \/ Fail(t)
      BY <3>1 DEF Next, MystStop, MystStart, TunnelLost, Entrypoint
    <3>3. t = s
      BY <2>1, <3>2, OneRequestMoves
    <3> QED
      BY <2>3, <3>2, <3>3
         DEF At, Serve, Begin, StartSocatFails, UpReadProvider, UpPickIdentity,
             UpCheckRunner, DisconnectList, CreateConnect, StartConnect, DownReadProvider,
             CreateReadProvider, CreateReadDependencies, CreateRemoveEnvoy, CreateSocat,
             StartSocat, CreateEnvoy, StartEnvoy, DownAllList, RemoveGet, RemoveRead,
             RemoveEnvoy, RemoveSocat, Reply
  <2>5. CASE DisconnectRemove(s)
    <3>1. req[s].kind \in Up /\ req[s].pc = "disconnect.remove"
      BY <2>5 DEF DisconnectRemove, At, Allocating, Up
    <3>2. c.id # req[s].target
      BY <2>1, <2>2, <3>1 DEF ChoiceOK
    <3> QED
      BY <2>2, <2>5, <3>2 DEF DisconnectRemove, Without
  <2>6. CASE DisconnectTunnel(s) \/ Connect(s)
    BY <2>1, <2>2, <2>3, <2>6 DEF DisconnectTunnel, Connect, TypeOK, TypeInv, Container
  <2>7. CASE Fail(s)
    BY <2>2, <2>7 DEF Fail
  <2> QED
    BY <2>4, <2>5, <2>6, <2>7
<1> QED
  BY <1>1, <1>2, <1>3, PTL DEF Spec, EstablishedSurvivesUp

-----------------------------------------------------------------------------
(* What is promised when requests are served one at a time, for any number *)
(* of requests and whatever fails.                                         *)
(*                                                                         *)
(* WorldOK relates the containers to each other and to the tunnels; the    *)
(* other parts say what a request may rely on between two awaits, because  *)
(* nobody else changes containers: the identity it chose is still free     *)
(* (UpHeld), the connection it ends has no proxy (DownHeld), the           *)
(* connection below its proxy is there (CreateHeld), and no ENVOY it does  *)
(* not know of hides behind the SOCAT it removes (RemoveHeld).             *)
(* The implementation of the leases follows step by step from that;        *)
(* DownAllInv adds what "downAll" needs to leave nothing behind.           *)

(* Requests are served one at a time.                                      *)
OneSlot == \A s, t \in Slots : s = t

(* Providers and numbers are on one connection, numbers and identities on  *)
(* one SOCAT.                                                              *)
Distinct ==
  /\ \A c, d \in OfKind("connect") : c.provider = d.provider => c = d
  /\ \A c, d \in OfKind("connect") : c.id = d.id => c = d
  /\ \A x, y \in OfKind("socat") : x.id = y.id \/ x.identity = y.identity => x = y
  /\ \A x \in OfKind("socat") : x.id \in 1 .. ops

WorldOK ==
  NoSharedIdentity /\ Distinct /\ ProxyHasConnection /\ EnvoyBehindSocat /\ NoHijack

(* `up` between its choice of an identity and the connection on it.        *)
Reserving(s) ==
  \/ req[s].pc \in {"up.runner", "connect", "connect.create"}
  \/ req[s].kind \in Up /\ req[s].pc \in {"disconnect.list", "disconnect.tunnel"}

UpHeld(s) ==
  /\ req[s].pc \in {"up.provider", "up.identity", "up.runner"} => req[s].kind \in Up
  /\ Reserving(s) => OnIdentity("connect", req[s].ident) = {}
  /\ At(s, "disconnect.remove") => req[s].kind \notin Up
  /\ At(s, "connect") => vpn[req[s].ident] = NoProvider
  /\ At(s, "connect.create") => vpn[req[s].ident] \in {req[s].prov, NoProvider}

DownHeld(s) ==
  req[s].kind \notin Up =>
    /\ req[s].pc \in {"disconnect.list", "disconnect.remove"} =>
         ProxiesOf("socat", req[s].prov) = {}
    /\ At(s, "disconnect.list") =>
         \A c \in OnIdentity("connect", req[s].ident) : c.provider = req[s].prov
    /\ At(s, "disconnect.remove") =>
         \A c \in OfKind("connect") : c.id = req[s].target => c.provider = req[s].prov

(* Where a request has not created a SOCAT yet.                            *)
BeforeSocat == PCs \ {"idle", "done", "socat.start", "envoy.create", "envoy.start"}

CreateHeld(s) ==
  /\ req[s].pc \in BeforeSocat => \A x \in OfKind("socat") : x.id # req[s].op
  /\ req[s].pc \in {"create.removeEnvoy", "socat.create"} /\ req[s].ident # NoIdentity =>
       \E c \in OfKind("connect") : c.identity = req[s].ident /\ c.provider = req[s].prov
  /\ req[s].pc \in {"socat.start", "envoy.create"} =>
       \E x \in OfKind("socat") : x.identity = req[s].ident /\ x.provider = req[s].prov
  /\ At(s, "socat.start") =>
       /\ \A x \in OfKind("socat") : x.id = req[s].op => x.identity = req[s].ident
       /\ OnIdentity("envoy", req[s].ident) = {}

RemoveHeld(s) ==
  At(s, "remove.containers") =>
    \A x \in OfKind("socat") : x.id = req[s].proxy =>
      \A e \in ProxiesOf("envoy", x.provider) : e.id \in req[s].todo

Held(s) == UpHeld(s) /\ DownHeld(s) /\ CreateHeld(s) /\ RemoveHeld(s)

SeqInv == WorldOK /\ \A s \in Slots : Held(s)

-----------------------------------------------------------------------------
(* How a request moves.                                                    *)

LEMMA GotoFields ==
  ASSUME req \in [Slots -> Request], NEW s \in Slots, NEW l, Goto(s, l)
  PROVE  /\ req'[s].pc = l /\ req'[s].kind = req[s].kind /\ req'[s].op = req[s].op
         /\ req'[s].prov = req[s].prov /\ req'[s].ident = req[s].ident
         /\ req'[s].target = req[s].target /\ req'[s].proxy = req[s].proxy
         /\ req'[s].todo = req[s].todo
  BY DEF Goto, Request

LEMMA AnswerRests ==
  ASSUME req \in [Slots -> Request], NEW s \in Slots, NEW o, Answer(s, o)
  PROVE  req'[s].pc = "done"
  BY DEF Answer, Request

(* Nothing is asked of a request that is over.                             *)
LEMMA RestHeld ==
  ASSUME NEW s \in Slots, req'[s].pc \in {"idle", "done"}
  PROVE  Held(s)'
  BY DEF Held, UpHeld, DownHeld, CreateHeld, RemoveHeld, Reserving, At, BeforeSocat

-----------------------------------------------------------------------------
(* What a step does to the containers and tunnels.                         *)

LEMMA SameWorld ==
  ASSUME WorldOK, UNCHANGED <<containers, vpn>>, ops \in Nat, ops' \in Nat, ops <= ops'
  PROVE  WorldOK'
<1>1. \A k : OfKind(k)' = OfKind(k)
  BY DEF OfKind
<1>2. Distinct'
  BY <1>1 DEF WorldOK, Distinct
<1> QED
  BY <1>1, <1>2
     DEF WorldOK, NoSharedIdentity, ProxyHasConnection, EnvoyBehindSocat, NoHijack

(* Containers that are taken away: no connection while it has a SOCAT, no  *)
(* SOCAT while it has an ENVOY.                                            *)
LEMMA FewerWorld ==
  ASSUME WorldOK, containers' \subseteq containers, UNCHANGED <<vpn, ops>>,
         \A c \in OfKind("connect") \ containers' :
           \A x \in OfKind("socat")' : x.provider # c.provider,
         \A x \in OfKind("socat") \ containers' :
           \A e \in OfKind("envoy")' : e.identity = x.identity => e.provider # x.provider
  PROVE  WorldOK'
<1>1. \A k : OfKind(k)' \subseteq OfKind(k)
  BY DEF OfKind
<1>2. NoSharedIdentity' /\ Distinct' /\ NoHijack'
  BY <1>1 DEF WorldOK, NoSharedIdentity, Distinct, NoHijack
<1>3. \A k : \A c \in OfKind(k) : c \in containers' => c \in OfKind(k)'
  BY DEF OfKind
<1>4. ProxyHasConnection'
  BY <1>1, <1>3 DEF WorldOK, ProxyHasConnection
<1>5. EnvoyBehindSocat'
  BY <1>1, <1>3 DEF WorldOK, EnvoyBehindSocat
<1> QED
  BY <1>2, <1>4, <1>5 DEF WorldOK

(* A container that starts stays what it is.                               *)
LEMMA StartedAlike ==
  ASSUME containers \subseteq Container, NEW k, NEW n, containers' = Started(k, n)
  PROVE  /\ \A j : \A c \in OfKind(j)' : \E d \in OfKind(j) :
              /\ c.id = d.id /\ c.identity = d.identity /\ c.provider = d.provider
              /\ c = IF d.kind = k /\ d.id = n THEN [d EXCEPT !.status = "running"] ELSE d
         /\ \A j : \A d \in OfKind(j) : \E c \in OfKind(j)' :
              c.id = d.id /\ c.identity = d.identity /\ c.provider = d.provider
<1> DEFINE f(d) == IF d.kind = k /\ d.id = n THEN [d EXCEPT !.status = "running"] ELSE d
<1>1. \A d \in containers : /\ f(d).id = d.id /\ f(d).identity = d.identity
                            /\ f(d).provider = d.provider /\ f(d).kind = d.kind
  BY DEF Container
<1>2. containers' = {f(d) : d \in containers}
  BY DEF Started
<1> HIDE DEF f
<1>3. \A j : \A c \in OfKind(j)' : \E d \in OfKind(j) :
        /\ c.id = d.id /\ c.identity = d.identity /\ c.provider = d.provider /\ c = f(d)
  BY <1>1, <1>2 DEF OfKind
<1>4. \A j : \A d \in OfKind(j) : \E c \in OfKind(j)' :
        c.id = d.id /\ c.identity = d.identity /\ c.provider = d.provider
  BY <1>1, <1>2 DEF OfKind
<1> QED
  BY <1>3, <1>4 DEF f

LEMMA StartedWorld ==
  ASSUME WorldOK, containers \subseteq Container, UNCHANGED <<vpn, ops>>,
         NEW k, NEW n, containers' = Started(k, n)
  PROVE  WorldOK'
<1> DEFINE f(d) == IF d.kind = k /\ d.id = n THEN [d EXCEPT !.status = "running"] ELSE d
<1>1. /\ \A j : \A c \in OfKind(j)' : \E d \in OfKind(j) :
           /\ c.id = d.id /\ c.identity = d.identity /\ c.provider = d.provider
           /\ c = f(d)
      /\ \A j : \A d \in OfKind(j) : \E c \in OfKind(j)' :
           c.id = d.id /\ c.identity = d.identity /\ c.provider = d.provider
  BY StartedAlike
<1> HIDE DEF f
<1>2. NoSharedIdentity'
  BY <1>1 DEF WorldOK, NoSharedIdentity
<1>3. Distinct'
  <2>1. \A c, d \in OfKind("connect")' : c.provider = d.provider => c = d
    BY <1>1 DEF WorldOK, Distinct
  <2>2. \A c, d \in OfKind("connect")' : c.id = d.id => c = d
    BY <1>1 DEF WorldOK, Distinct
  <2>3. \A x, y \in OfKind("socat")' : x.id = y.id \/ x.identity = y.identity => x = y
    BY <1>1 DEF WorldOK, Distinct
  <2>4. \A x \in OfKind("socat")' : x.id \in 1 .. ops'
    BY <1>1 DEF WorldOK, Distinct
  <2> QED
    BY <2>1, <2>2, <2>3, <2>4 DEF Distinct
<1>4. ProxyHasConnection'
  <2> SUFFICES ASSUME NEW x \in OfKind("socat")'
               PROVE  \E c \in OfKind("connect")' :
                        c.identity = x.identity /\ c.provider = x.provider
    BY DEF ProxyHasConnection
  <2>1. PICK y \in OfKind("socat") : y.identity = x.identity /\ y.provider = x.provider
    BY <1>1
  <2>2. PICK c \in OfKind("connect") : c.identity = y.identity /\ c.provider = y.provider
    BY DEF WorldOK, ProxyHasConnection
  <2> QED
    BY <1>1, <2>1, <2>2
<1>5. EnvoyBehindSocat'
  <2> SUFFICES ASSUME NEW e \in OfKind("envoy")'
               PROVE  \E x \in OfKind("socat")' :
                        x.identity = e.identity /\ x.provider = e.provider
    BY DEF EnvoyBehindSocat
  <2>1. PICK d \in OfKind("envoy") : d.identity = e.identity /\ d.provider = e.provider
    BY <1>1
  <2>2. PICK x \in OfKind("socat") : x.identity = d.identity /\ x.provider = d.provider
    BY DEF WorldOK, EnvoyBehindSocat
  <2> QED
    BY <1>1, <2>1, <2>2
<1>6. NoHijack'
  BY <1>1 DEF WorldOK, NoHijack
<1> QED
  BY <1>2, <1>3, <1>4, <1>5, <1>6 DEF WorldOK

(* A tunnel that ends.                                                     *)
LEMMA TunnelGone ==
  ASSUME WorldOK, vpn \in [Identity -> Provider \cup {NoProvider}],
         containers \subseteq Container, UNCHANGED <<containers, ops>>,
         NEW i, vpn' = [vpn EXCEPT ![i] = NoProvider]
  PROVE  WorldOK'
<1>1. \A k : OfKind(k)' = OfKind(k)
  BY DEF OfKind
<1>2. NoHijack'
  BY <1>1 DEF WorldOK, NoHijack, OfKind, Container
<1>3. Distinct'
  BY <1>1 DEF WorldOK, Distinct
<1> QED
  BY <1>1, <1>2, <1>3 DEF WorldOK, NoSharedIdentity, ProxyHasConnection, EnvoyBehindSocat

(* A tunnel that is made for the one connection of the identity, or while  *)
(* the identity has none.                                                  *)
LEMMA TunnelMade ==
  ASSUME WorldOK, vpn \in [Identity -> Provider \cup {NoProvider}],
         containers \subseteq Container, UNCHANGED <<containers, ops>>,
         NEW i \in Identity, NEW p, vpn' = [vpn EXCEPT ![i] = p],
         \A c \in OnIdentity("connect", i) : c.provider = p
  PROVE  WorldOK'
<1>1. \A k : OfKind(k)' = OfKind(k)
  BY DEF OfKind
<1>2. NoHijack'
  <2> SUFFICES ASSUME NEW c \in OfKind("connect")
               PROVE  vpn'[c.identity] \in {c.provider, NoProvider}
    BY <1>1 DEF NoHijack
  <2>1. CASE c.identity = i
    BY <2>1 DEF OnIdentity
  <2>2. CASE c.identity # i
    BY <2>2 DEF WorldOK, NoHijack, OfKind, Container
  <2> QED
    BY <2>1, <2>2
<1>3. Distinct'
  BY <1>1 DEF WorldOK, Distinct
<1> QED
  BY <1>1, <1>2, <1>3 DEF WorldOK, NoSharedIdentity, ProxyHasConnection, EnvoyBehindSocat

-----------------------------------------------------------------------------
(* The steps of a request.                                                 *)

(* What the steps start from.                                              *)
LEMMA Basics ==
  ASSUME EstInv, SeqInv, NEW s \in Slots
  PROVE  /\ TypeInv /\ ChoiceOK /\ NumbersOK /\ WorldOK /\ Held(s)
         /\ req \in [Slots -> Request] /\ containers \subseteq Container
         /\ vpn \in [Identity -> Provider \cup {NoProvider}]
         /\ ops \in Nat /\ ops \in 0 .. MaxOps
  BY BoundAssumption DEF EstInv, SeqInv, TypeInv, TypeOK

(* The world stays as it is and the request ends.                          *)
LEMMA QuietAnswer ==
  ASSUME WorldOK, req \in [Slots -> Request], ops \in Nat, NEW s \in Slots, NEW o,
         Answer(s, o), UNCHANGED <<containers, vpn, ops>>
  PROVE  WorldOK' /\ Held(s)'
<1>1. req'[s].pc = "done"
  BY AnswerRests
<1>2. WorldOK'
  BY SameWorld
<1> QED
  BY <1>1, <1>2, RestHeld

(* Places that rely on nothing but the number of the request.              *)
Plain == {"create.provider", "create.read", "down.provider", "downAll.list", "remove.get",
          "remove.read", "envoy.start"}

LEMMA PlainHeld ==
  ASSUME NEW s \in Slots, req'[s].pc \in Plain,
         req'[s].pc # "envoy.start" => \A x \in OfKind("socat")' : x.id # req'[s].op
  PROVE  Held(s)'
  BY DEF Held, UpHeld, DownHeld, CreateHeld, RemoveHeld, Reserving, At, BeforeSocat, Plain

LEMMA QuietPlain ==
  ASSUME NEW s \in Slots, WorldOK, Held(s), req \in [Slots -> Request], ops \in Nat,
         NEW l \in Plain \ {"envoy.start"}, Goto(s, l), UNCHANGED <<containers, vpn, ops>>,
         req[s].pc \in BeforeSocat
  PROVE  WorldOK' /\ Held(s)'
<1>1. WorldOK'
  BY SameWorld
<1>2. req'[s].pc = l /\ req'[s].op = req[s].op
  BY GotoFields
<1>3. \A x \in OfKind("socat")' : x.id # req'[s].op
  BY <1>2 DEF Held, CreateHeld, OfKind
<1> QED
  BY <1>1, <1>2, <1>3, PlainHeld

LEMMA BeginSeq ==
  ASSUME EstInv, SeqInv, NEW s \in Slots, Begin(s)
  PROVE  WorldOK' /\ Held(s)'
<1>0. /\ WorldOK /\ req \in [Slots -> Request] /\ ops \in Nat
      /\ ops' = ops + 1 /\ UNCHANGED <<containers, vpn>>
  BY Basics DEF Begin
<1>1. WorldOK'
  BY <1>0, SameWorld
<1>2. /\ req'[s].op = ops + 1
      /\ \/ req'[s].pc \in {"down.provider", "downAll.list", "create.provider", "remove.get"}
         \/ req'[s].pc = "up.provider" /\ req'[s].kind \in Up
  <2>1. CASE \E k \in Kinds \ {"remove"}, p \in Provider :
               req' = [req EXCEPT ![s] = [Idle EXCEPT !.pc = Entry[k], !.kind = k,
                                                      !.op = ops + 1, !.prov = p]]
    <3>1. PICK k \in Kinds \ {"remove"}, p \in Provider :
                 req' = [req EXCEPT ![s] = [Idle EXCEPT !.pc = Entry[k], !.kind = k,
                                                        !.op = ops + 1, !.prov = p]]
      BY <2>1
    <3>2. k \in AllKinds \ {"remove"}
      BY KindsAssumption
    <3>3. \/ Entry[k] \in {"down.provider", "downAll.list", "create.provider"}
          \/ Entry[k] = "up.provider" /\ k \in Up
      BY <3>2 DEF Entry, AllKinds, Up
    <3>4. req'[s].op = ops + 1 /\ req'[s].pc = Entry[k] /\ req'[s].kind = k
      BY <1>0, <3>1 DEF Idle
    <3> QED
      BY <3>3, <3>4
  <2>2. CASE \E c \in OfKind("socat") :
               req' = [req EXCEPT ![s] = [Idle EXCEPT !.pc = Entry["remove"],
                                                      !.kind = "remove", !.op = ops + 1,
                                                      !.proxy = c.id]]
    BY <1>0, <2>2 DEF Idle, Entry
  <2> QED
    BY <2>1, <2>2 DEF Begin
<1>3. \A x \in OfKind("socat")' : x.id # req'[s].op
  <2>1. \A x \in OfKind("socat") : x.id \in 1 .. ops
    BY <1>0 DEF WorldOK, Distinct
  <2>2. OfKind("socat")' = OfKind("socat")
    BY <1>0 DEF OfKind
  <2> QED
    BY <1>0, <1>2, <2>1, <2>2
<1>4. CASE req'[s].pc = "up.provider" /\ req'[s].kind \in Up
  BY <1>1, <1>3, <1>4 DEF Held, UpHeld, DownHeld, CreateHeld, RemoveHeld, Reserving, At
<1>5. CASE req'[s].pc \in {"down.provider", "downAll.list", "create.provider", "remove.get"}
  BY <1>1, <1>3, <1>5, PlainHeld DEF Plain
<1> QED
  BY <1>1, <1>2, <1>4, <1>5

(* MystProviderService.up, up to the disconnection.                        *)
LEMMA UpSeq ==
  ASSUME EstInv, SeqInv, NEW s \in Slots,
         UpReadProvider(s) \/ UpPickIdentity(s) \/ UpCheckRunner(s)
  PROVE  WorldOK' /\ Held(s)'
<1>0. /\ WorldOK /\ Held(s) /\ req \in [Slots -> Request] /\ ops \in Nat
      /\ UNCHANGED <<containers, vpn, ops>>
      /\ req[s].pc \in BeforeSocat /\ req[s].kind \in Up
  BY Basics
     DEF UpReadProvider, UpPickIdentity, UpCheckRunner, At, BeforeSocat, PCs, Held, UpHeld
<1>1. WorldOK'
  BY <1>0, SameWorld
<1>2. CASE \E o : Answer(s, o)
  BY <1>0, <1>2, QuietAnswer
<1>n. \A x \in OfKind("socat")' : x.id # req[s].op
  BY <1>0 DEF Held, CreateHeld, OfKind
<1>3. CASE Goto(s, "up.identity")
  <2>1. req'[s].pc = "up.identity" /\ req'[s].kind = req[s].kind /\ req'[s].op = req[s].op
    BY <1>0, <1>3, GotoFields
  <2>2. Held(s)'
    BY <1>0, <1>n, <2>1 DEF Held, UpHeld, DownHeld, CreateHeld, RemoveHeld, Reserving, At
  <2> QED
    BY <1>1, <2>2
<1>4. ASSUME NEW i \in FreeIdentities,
             req' = [req EXCEPT ![s].pc = "up.runner", ![s].ident = i,
                                ![s].seen = {c.id : c \in OfKind("connect")}]
      PROVE  WorldOK' /\ Held(s)'
  <2>1. /\ req'[s].pc = "up.runner" /\ req'[s].kind = req[s].kind /\ req'[s].ident = i
        /\ req'[s].op = req[s].op
    BY <1>0, <1>4 DEF Request
  <2>2. OnIdentity("connect", i)' = {}
    BY <1>0 DEF FreeIdentities, OnIdentity, OfKind
  <2>3. Held(s)'
    BY <1>0, <1>n, <2>1, <2>2
       DEF Held, UpHeld, DownHeld, CreateHeld, RemoveHeld, Reserving, At, OnIdentity
  <2> QED
    BY <1>1, <2>3
<1>5. CASE UpCheckRunner(s) /\ Goto(s, "disconnect.list")
  <2>1. /\ req'[s].pc = "disconnect.list" /\ req'[s].kind = req[s].kind
        /\ req'[s].ident = req[s].ident /\ req'[s].op = req[s].op
    BY <1>0, <1>5, GotoFields
  <2>2. \A c \in OfKind("connect")' : c.identity # req[s].ident
    BY <1>0, <1>5 DEF UpCheckRunner, At, Held, UpHeld, Reserving, OnIdentity, OfKind
  <2>3. Held(s)'
    BY <1>0, <1>n, <2>1, <2>2
       DEF Held, UpHeld, DownHeld, CreateHeld, RemoveHeld, Reserving, At, OnIdentity
  <2> QED
    BY <1>1, <2>3
<1> QED
  BY <1>2, <1>3, <1>4, <1>5 DEF UpReadProvider, UpPickIdentity, UpCheckRunner

(* The disconnection, of `up` and of `down`.                               *)
LEMMA DisconnectSeq ==
  ASSUME EstInv, SeqInv, NEW s \in Slots,
         DisconnectList(s) \/ DisconnectRemove(s) \/ DisconnectTunnel(s)
  PROVE  WorldOK' /\ Held(s)'
<1>0. /\ WorldOK /\ Held(s) /\ req \in [Slots -> Request] /\ ops \in Nat
      /\ containers \subseteq Container
      /\ vpn \in [Identity -> Provider \cup {NoProvider}]
      /\ ops' = ops /\ req[s].pc \in BeforeSocat
  BY Basics DEF DisconnectList, DisconnectRemove, DisconnectTunnel, At, BeforeSocat, PCs
<1>n. ASSUME OfKind("socat")' = OfKind("socat")
      PROVE  \A x \in OfKind("socat")' : x.id # req[s].op
  BY <1>0, <1>n DEF Held, CreateHeld
<1>1. CASE DisconnectList(s) /\ Goto(s, "disconnect.tunnel")
  <2>1. /\ req'[s].pc = "disconnect.tunnel" /\ req'[s].kind = req[s].kind
        /\ req'[s].ident = req[s].ident /\ req'[s].op = req[s].op
    BY <1>0, <1>1, GotoFields
  <2>2. UNCHANGED <<containers, vpn>>
    BY <1>1 DEF DisconnectList
  <2>3. WorldOK'
    BY <1>0, <2>2, SameWorld
  <2>4. /\ \A k : OfKind(k)' = OfKind(k)
        /\ \A x \in OfKind("socat")' : x.id # req[s].op
    BY <1>n, <2>2 DEF OfKind
  <2>5. req[s].kind \in Up => \A c \in OfKind("connect") : c.identity # req[s].ident
    BY <1>0, <1>1 DEF DisconnectList, At, Held, UpHeld, Reserving, OnIdentity
  <2>6. Held(s)'
    BY <2>1, <2>4, <2>5
       DEF Held, UpHeld, DownHeld, CreateHeld, RemoveHeld, Reserving, At, OnIdentity
  <2> QED
    BY <2>3, <2>6
<1>2. ASSUME DisconnectList(s), NEW c \in OnIdentity("connect", req[s].ident),
             req' = [req EXCEPT ![s].pc = "disconnect.remove", ![s].target = c.id]
      PROVE  WorldOK' /\ Held(s)'
  <2>1. /\ req'[s].pc = "disconnect.remove" /\ req'[s].kind = req[s].kind
        /\ req'[s].prov = req[s].prov /\ req'[s].op = req[s].op /\ req'[s].target = c.id
    BY <1>0, <1>2 DEF Request
  <2>2. UNCHANGED <<containers, vpn>> /\ req[s].pc = "disconnect.list"
    BY <1>2 DEF DisconnectList, At
  <2>3. WorldOK'
    BY <1>0, <2>2, SameWorld
  <2>4. /\ \A k : OfKind(k)' = OfKind(k)
        /\ \A x \in OfKind("socat")' : x.id # req[s].op
    BY <1>n, <2>2 DEF OfKind
  <2>5. req[s].kind \notin Up
    BY <1>0, <1>2, <2>2 DEF Held, UpHeld, Reserving
  <2>6. ProxiesOf("socat", req[s].prov) = {} /\ c.provider = req[s].prov
    BY <1>0, <1>2, <2>2, <2>5 DEF Held, DownHeld, At
  <2>7. \A d \in OfKind("connect") : d.id = c.id => d.provider = req[s].prov
    BY <1>0, <2>6 DEF WorldOK, Distinct, OnIdentity
  <2>8. Held(s)'
    BY <2>1, <2>4, <2>5, <2>6, <2>7
       DEF Held, UpHeld, DownHeld, CreateHeld, RemoveHeld, Reserving, At, ProxiesOf
  <2> QED
    BY <2>3, <2>8
<1>3. CASE DisconnectRemove(s)
  <2>1. /\ req'[s].pc = "disconnect.tunnel" /\ req'[s].kind = req[s].kind
        /\ req'[s].prov = req[s].prov /\ req'[s].op = req[s].op
        /\ req[s].pc = "disconnect.remove" /\ vpn' = vpn
        /\ containers' = Without("connect", req[s].target)
    BY <1>0, <1>3 DEF DisconnectRemove, At, Request
  <2>2. req[s].kind \notin Up
    BY <1>0, <2>1 DEF Held, UpHeld, At
  <2>3. /\ ProxiesOf("socat", req[s].prov) = {}
        /\ \A c \in OfKind("connect") : c.id = req[s].target => c.provider = req[s].prov
    BY <1>0, <2>1, <2>2 DEF Held, DownHeld, At
  <2>4. /\ containers' \subseteq containers
        /\ \A c \in containers \ containers' : c.kind = "connect" /\ c.id = req[s].target
        /\ OfKind("socat")' = OfKind("socat")
    BY <2>1 DEF Without, OfKind
  <2>5. /\ \A c \in OfKind("connect") \ containers' :
             \A x \in OfKind("socat")' : x.provider # c.provider
        /\ OfKind("socat") \ containers' = {}
    BY <2>3, <2>4 DEF OfKind, ProxiesOf
  <2>6. WorldOK'
    BY <1>0, <2>1, <2>4, <2>5, FewerWorld
  <2>7. \A x \in OfKind("socat")' : x.id # req[s].op
    BY <1>n, <2>4
  <2>8. Held(s)'
    BY <2>1, <2>2, <2>7
       DEF Held, UpHeld, DownHeld, CreateHeld, RemoveHeld, Reserving, At
  <2> QED
    BY <2>6, <2>8
<1>4. CASE DisconnectTunnel(s)
  <2>1. containers' = containers /\ req[s].pc = "disconnect.tunnel"
    BY <1>4 DEF DisconnectTunnel, At
  <2>2. CASE vpn' = vpn /\ \E o : Answer(s, o)
    BY <1>0, <2>1, <2>2, QuietAnswer
  <2>3. CASE vpn' = [vpn EXCEPT ![req[s].ident] = NoProvider]
    <3>1. WorldOK'
      BY <1>0, <2>1, <2>3, TunnelGone
    <3>2. CASE \E o : Answer(s, o)
      BY <1>0, <3>1, <3>2, AnswerRests, RestHeld
    <3>3. CASE Goto(s, "connect") /\ req[s].kind \in Up
      <4>1. /\ req'[s].pc = "connect" /\ req'[s].kind = req[s].kind
            /\ req'[s].ident = req[s].ident /\ req'[s].op = req[s].op
        BY <1>0, <3>3, GotoFields
      <4>2. /\ \A k : OfKind(k)' = OfKind(k)
            /\ \A x \in OfKind("socat")' : x.id # req[s].op
        BY <1>n, <2>1 DEF OfKind
      <4>3. \A c \in OfKind("connect") : c.identity # req[s].ident
        BY <1>0, <2>1, <3>3 DEF Held, UpHeld, Reserving, OnIdentity
      <4>4. req[s].ident \in Identity
        BY <2>1, Basics DEF TypeInv, RequestOK, HoldsIdentity
      <4>5. vpn'[req[s].ident] = NoProvider
        BY <1>0, <2>3, <4>4
      <4>6. Held(s)'
        BY <4>1, <4>2, <4>3, <4>5
           DEF Held, UpHeld, DownHeld, CreateHeld, RemoveHeld, Reserving, At, OnIdentity
      <4> QED
        BY <3>1, <4>6
    <3> QED
      BY <1>4, <3>2, <3>3, <2>3, <2>2 DEF DisconnectTunnel, Up
  <2> QED
    BY <1>4, <2>2, <2>3 DEF DisconnectTunnel
<1> QED
  BY <1>1, <1>2, <1>3, <1>4 DEF DisconnectList

(* The tunnel and its container.                                           *)
LEMMA ConnectSeq ==
  ASSUME EstInv, SeqInv, NEW s \in Slots, Connect(s)
  PROVE  WorldOK' /\ Held(s)'
<1>0. /\ WorldOK /\ Held(s) /\ req \in [Slots -> Request] /\ ops \in Nat
      /\ containers \subseteq Container
      /\ vpn \in [Identity -> Provider \cup {NoProvider}]
      /\ UNCHANGED <<containers, ops>> /\ req[s].pc = "connect"
      /\ req[s].ident \in Identity
  BY Basics DEF Connect, At, TypeInv, RequestOK, HoldsIdentity
<1>1. CASE vpn' = vpn /\ \E o : Answer(s, o)
  BY <1>0, <1>1, QuietAnswer
<1>2. CASE /\ vpn' = [vpn EXCEPT ![req[s].ident] = req[s].prov]
           /\ Goto(s, "connect.create")
  <2>1. \A c \in OnIdentity("connect", req[s].ident) : c.provider = req[s].prov
    BY <1>0 DEF Held, UpHeld, Reserving
  <2>2. WorldOK'
    BY <1>0, <1>2, <2>1, TunnelMade
  <2>3. /\ req'[s].pc = "connect.create" /\ req'[s].prov = req[s].prov
        /\ req'[s].ident = req[s].ident /\ req'[s].op = req[s].op
    BY <1>0, <1>2, GotoFields
  <2>4. vpn'[req[s].ident] = req[s].prov
    BY <1>0, <1>2
  <2>5. /\ \A k : OfKind(k)' = OfKind(k)
        /\ \A c \in OfKind("connect") : c.identity # req[s].ident
        /\ \A x \in OfKind("socat") : x.id # req[s].op
    BY <1>0 DEF Held, UpHeld, CreateHeld, Reserving, OnIdentity, OfKind, BeforeSocat, PCs
  <2>6. Held(s)'
    BY <2>3, <2>4, <2>5
       DEF Held, UpHeld, DownHeld, CreateHeld, RemoveHeld, Reserving, At, OnIdentity
  <2> QED
    BY <2>2, <2>6
<1> QED
  BY <1>1, <1>2 DEF Connect

(* A connection on an identity that has none, for a provider that has none.*)
LEMMA NewConnectionWorld ==
  ASSUME WorldOK, UNCHANGED <<vpn, ops>>, NEW c, c.kind = "connect",
         containers' = containers \cup {c},
         \A d \in OfKind("connect") :
           d.identity # c.identity /\ d.provider # c.provider /\ d.id # c.id,
         vpn[c.identity] \in {c.provider, NoProvider}
  PROVE  WorldOK'
<1>1. /\ OfKind("connect")' = OfKind("connect") \cup {c}
      /\ OfKind("socat")' = OfKind("socat") /\ OfKind("envoy")' = OfKind("envoy")
  BY DEF OfKind
<1>2. NoSharedIdentity' /\ NoHijack'
  BY <1>1 DEF WorldOK, NoSharedIdentity, NoHijack
<1>3. Distinct'
  BY <1>1 DEF WorldOK, Distinct
<1>4. ProxyHasConnection' /\ EnvoyBehindSocat'
  BY <1>1 DEF WorldOK, ProxyHasConnection, EnvoyBehindSocat
<1> QED
  BY <1>2, <1>3, <1>4 DEF WorldOK

LEMMA CreateConnectSeq ==
  ASSUME EstInv, SeqInv, NEW s \in Slots, CreateConnect(s)
  PROVE  WorldOK' /\ Held(s)'
<1>0. /\ WorldOK /\ Held(s) /\ req \in [Slots -> Request] /\ ops \in Nat
      /\ UNCHANGED <<vpn, ops>> /\ req[s].pc = "connect.create"
  BY Basics DEF CreateConnect, At
<1>1. CASE containers' = containers /\ \E o : Answer(s, o)
  BY <1>0, <1>1, QuietAnswer
<1>2. CASE /\ ProxiesOf("connect", req[s].prov) = {}
           /\ containers' = containers \cup {NewContainer("connect", req[s])}
           /\ Goto(s, "connect.start")
  <2> DEFINE c == NewContainer("connect", req[s])
  <2>1. /\ c.kind = "connect" /\ c.id = req[s].op /\ c.identity = req[s].ident
        /\ c.provider = req[s].prov
    BY DEF NewContainer
  <2> HIDE DEF c
  <2>2. /\ \A d \in OfKind("connect") :
             d.identity # c.identity /\ d.provider # c.provider /\ d.id # c.id
        /\ vpn[c.identity] \in {c.provider, NoProvider}
    <3>1. \A d \in OfKind("connect") : d.id # c.id
      BY <1>0, <2>1, Basics DEF NumbersOK, NotYetConnected
    <3>2. \A d \in OfKind("connect") : d.identity # c.identity /\ d.provider # c.provider
      BY <1>0, <1>2, <2>1 DEF Held, UpHeld, Reserving, OnIdentity, ProxiesOf
    <3>3. vpn[c.identity] \in {c.provider, NoProvider}
      BY <1>0, <2>1 DEF Held, UpHeld, At
    <3> QED
      BY <3>1, <3>2, <3>3
  <2>3. WorldOK'
    BY <1>0, <1>2, <2>1, <2>2, NewConnectionWorld DEF c
  <2>4. req'[s].pc = "connect.start" /\ req'[s].op = req[s].op
    BY <1>0, <1>2, GotoFields
  <2>5. \A x \in OfKind("socat")' : x.id # req[s].op
    BY <1>0, <1>2, <2>1 DEF Held, CreateHeld, OfKind, BeforeSocat, PCs, c
  <2>6. Held(s)'
    BY <2>4, <2>5 DEF Held, UpHeld, DownHeld, CreateHeld, RemoveHeld, Reserving, At
  <2> QED
    BY <2>3, <2>6
<1> QED
  BY <1>1, <1>2 DEF CreateConnect

LEMMA StartConnectSeq ==
  ASSUME EstInv, SeqInv, NEW s \in Slots, StartConnect(s)
  PROVE  WorldOK' /\ Held(s)'
<1>0. /\ WorldOK /\ Held(s) /\ req \in [Slots -> Request] /\ ops \in Nat
      /\ containers \subseteq Container
      /\ UNCHANGED <<vpn, ops>> /\ req[s].pc = "connect.start"
  BY Basics DEF StartConnect, At
<1>1. CASE containers' = containers /\ \E o : Answer(s, o)
  BY <1>0, <1>1, QuietAnswer
<1>2. CASE containers' = Started("connect", req[s].op)
  <2>1. WorldOK'
    BY <1>0, <1>2, StartedWorld
  <2>2. CASE \E o : Answer(s, o)
    BY <1>0, <2>1, <2>2, AnswerRests, RestHeld
  <2>3. CASE Goto(s, "create.provider")
    <3>1. req'[s].pc = "create.provider" /\ req'[s].op = req[s].op
      BY <1>0, <2>3, GotoFields
    <3>2. \A x \in OfKind("socat")' : \E y \in OfKind("socat") : x.id = y.id
      BY <1>0, <1>2, StartedAlike
    <3>3. \A x \in OfKind("socat")' : x.id # req[s].op
      BY <1>0, <3>2 DEF Held, CreateHeld, BeforeSocat, PCs
    <3> QED
      BY <2>1, <3>1, <3>3, PlainHeld DEF Plain
  <2> QED
    BY <1>0, <2>2, <2>3, <1>1 DEF StartConnect
<1> QED
  BY <1>1, <1>2 DEF StartConnect

(* A provider that is shown with an identity has its connection there, and *)
(* is busy when it has proxies.                                            *)
LEMMA ViewMeans ==
  ASSUME NEW p, NEW v \in Views(p), v.ident # NoIdentity
  PROVE  /\ \E c \in OfKind("connect") : c.identity = v.ident /\ c.provider = p
         /\ v.busy <=> ProxiesOf("socat", p) # {}
<1>1. CASE OfProvider(p) = {}
  BY <1>1 DEF Views
<1>2. CASE OfProvider(p) # {}
  <2>1. PICK c \in OfProvider(p), api \in BOOLEAN : v = ViewThrough(p, c.identity, api)
    BY <1>2 DEF Views
  <2> DEFINE connected == \E d \in OnIdentity("connect", c.identity) : d.provider = p
  <2>2. /\ v.ident = IF connected THEN c.identity ELSE NoIdentity
        /\ v.busy = (connected /\ ProxiesOf("socat", p) # {})
    BY <2>1 DEF ViewThrough
  <2>3. connected
    BY <2>2
  <2> QED
    BY <2>2, <2>3 DEF OnIdentity
<1> QED
  BY <1>1, <1>2

(* `down` reads the provider: the connection is there, a proxy is not.     *)
LEMMA DownSeq ==
  ASSUME EstInv, SeqInv, NEW s \in Slots, DownReadProvider(s)
  PROVE  WorldOK' /\ Held(s)'
<1>0. /\ WorldOK /\ Held(s) /\ req \in [Slots -> Request] /\ ops \in Nat
      /\ UNCHANGED <<containers, vpn, ops>> /\ req[s].pc = "down.provider"
  BY Basics DEF DownReadProvider, At
<1>1. CASE \E o : Answer(s, o)
  BY <1>0, <1>1, QuietAnswer
<1>2. ASSUME NEW v \in Views(req[s].prov), v.ident # NoIdentity, ~v.busy,
             req' = [req EXCEPT ![s].pc = "disconnect.list", ![s].ident = v.ident]
      PROVE  WorldOK' /\ Held(s)'
  <2>1. WorldOK'
    BY <1>0, SameWorld
  <2>2. /\ req'[s].pc = "disconnect.list" /\ req'[s].kind = req[s].kind
        /\ req'[s].prov = req[s].prov /\ req'[s].op = req[s].op
        /\ req'[s].ident = v.ident
    BY <1>0, <1>2 DEF Request
  <2>3. req[s].kind \notin Up
    BY <1>0, Basics DEF ChoiceOK, DownPCs
  <2>4. /\ \E c \in OfKind("connect") : c.identity = v.ident /\ c.provider = req[s].prov
        /\ ProxiesOf("socat", req[s].prov) = {}
    BY <1>2, ViewMeans
  <2>5. \A c \in OfKind("connect") : c.identity = v.ident => c.provider = req[s].prov
    BY <1>0, <2>4 DEF WorldOK, NoSharedIdentity
  <2>6. /\ \A k : OfKind(k)' = OfKind(k)
        /\ \A x \in OfKind("socat") : x.id # req[s].op
    BY <1>0 DEF Held, CreateHeld, OfKind, BeforeSocat, PCs
  <2>7. Held(s)'
    BY <2>2, <2>3, <2>4, <2>5, <2>6
       DEF Held, UpHeld, DownHeld, CreateHeld, RemoveHeld, Reserving, At, OnIdentity,
           ProxiesOf
  <2> QED
    BY <2>1, <2>7
<1> QED
  BY <1>1, <1>2 DEF DownReadProvider

-----------------------------------------------------------------------------
(* ProxyService.create.                                                    *)

LEMMA CreateReadSeq ==
  ASSUME EstInv, SeqInv, NEW s \in Slots,
         CreateReadProvider(s) \/ CreateReadDependencies(s) \/ CreateRemoveEnvoy(s)
  PROVE  WorldOK' /\ Held(s)'
<1>0. /\ WorldOK /\ Held(s) /\ req \in [Slots -> Request] /\ ops \in Nat
      /\ UNCHANGED <<vpn, ops>> /\ req[s].pc \in BeforeSocat
      /\ containers \subseteq Container
  BY Basics
     DEF CreateReadProvider, CreateReadDependencies, CreateRemoveEnvoy, At, BeforeSocat, PCs
<1>1. CASE UNCHANGED containers /\ \E o : Answer(s, o)
  BY <1>0, <1>1, QuietAnswer
<1>2. CASE CreateReadProvider(s)
  <2>1. UNCHANGED containers /\ ((\E o : Answer(s, o)) \/ Goto(s, "create.read"))
    BY <1>2 DEF CreateReadProvider
  <2> QED
    BY <1>0, <1>1, <2>1, QuietPlain DEF Plain
<1>3. ASSUME CreateReadDependencies(s), ~ \E o : Answer(s, o)
      PROVE  WorldOK' /\ Held(s)'
  <2>1. UNCHANGED containers
    BY <1>3 DEF CreateReadDependencies
  <2>2. WorldOK'
    BY <1>0, <2>1, SameWorld
  <2>3. PICK v \in Views(req[s].prov) :
          /\ req'[s].pc \in {"create.removeEnvoy", "socat.create"} /\ req'[s].ident = v.ident
          /\ req'[s].prov = req[s].prov /\ req'[s].op = req[s].op
    <3>1. PICK v \in Views(req[s].prov) :
            \/ \E n : req' = [req EXCEPT ![s].pc = "create.removeEnvoy",
                                        ![s].ident = v.ident, ![s].target = n]
            \/ req' = [req EXCEPT ![s].pc = "socat.create", ![s].ident = v.ident]
      BY <1>3 DEF CreateReadDependencies
    <3> QED
      BY <1>0, <3>1 DEF Request
  <2>4. v.ident # NoIdentity =>
          \E c \in OfKind("connect") : c.identity = v.ident /\ c.provider = req[s].prov
    BY ViewMeans
  <2>5. /\ \A k : OfKind(k)' = OfKind(k)
        /\ \A x \in OfKind("socat") : x.id # req[s].op
    BY <1>0, <2>1 DEF Held, CreateHeld, OfKind
  <2>6. Held(s)'
    BY <2>3, <2>4, <2>5 DEF Held, UpHeld, DownHeld, CreateHeld, RemoveHeld, Reserving, At
  <2> QED
    BY <2>2, <2>6
<1>4. CASE CreateRemoveEnvoy(s)
  <2>1. /\ req'[s].pc = "socat.create" /\ req'[s].ident = req[s].ident
        /\ req'[s].prov = req[s].prov /\ req'[s].op = req[s].op
        /\ req[s].pc = "create.removeEnvoy"
        /\ containers' = Without("envoy", req[s].target)
    BY <1>0, <1>4 DEF CreateRemoveEnvoy, At, Request
  <2>2. /\ containers' \subseteq containers
        /\ OfKind("socat")' = OfKind("socat") /\ OfKind("connect")' = OfKind("connect")
    BY <2>1 DEF Without, OfKind
  <2>3. WorldOK'
    <3>1. OfKind("socat") \ containers' = {} /\ OfKind("connect") \ containers' = {}
      BY <2>1 DEF Without, OfKind
    <3> QED
      BY <1>0, <2>2, <3>1, FewerWorld
  <2>4. /\ req[s].ident # NoIdentity =>
             \E c \in OfKind("connect") :
               c.identity = req[s].ident /\ c.provider = req[s].prov
        /\ \A x \in OfKind("socat") : x.id # req[s].op
    BY <1>0, <2>1 DEF Held, CreateHeld
  <2>5. Held(s)'
    BY <2>1, <2>2, <2>4
       DEF Held, UpHeld, DownHeld, CreateHeld, RemoveHeld, Reserving, At
  <2> QED
    BY <2>3, <2>5
<1> QED
  BY <1>1, <1>2, <1>3, <1>4 DEF CreateReadDependencies

(* A SOCAT on a connection.                                                *)
LEMMA NewSocatWorld ==
  ASSUME WorldOK, UNCHANGED <<vpn, ops>>, NEW x, x.kind = "socat",
         containers' = containers \cup {x}, x.id \in 1 .. ops,
         \A y \in OfKind("socat") : y.id # x.id /\ y.identity # x.identity,
         \E c \in OfKind("connect") : c.identity = x.identity /\ c.provider = x.provider
  PROVE  WorldOK'
<1>1. /\ OfKind("socat")' = OfKind("socat") \cup {x}
      /\ OfKind("connect")' = OfKind("connect") /\ OfKind("envoy")' = OfKind("envoy")
  BY DEF OfKind
<1>2. NoSharedIdentity' /\ NoHijack'
  BY <1>1 DEF WorldOK, NoSharedIdentity, NoHijack
<1>3. Distinct'
  BY <1>1 DEF WorldOK, Distinct
<1>4. ProxyHasConnection' /\ EnvoyBehindSocat'
  BY <1>1 DEF WorldOK, ProxyHasConnection, EnvoyBehindSocat
<1> QED
  BY <1>2, <1>3, <1>4 DEF WorldOK

LEMMA CreateSocatSeq ==
  ASSUME EstInv, SeqInv, NEW s \in Slots, CreateSocat(s)
  PROVE  WorldOK' /\ Held(s)'
<1>0. /\ WorldOK /\ Held(s) /\ req \in [Slots -> Request] /\ ops \in Nat
      /\ UNCHANGED <<vpn, ops>> /\ req[s].pc = "socat.create"
      /\ req[s].op \in 1 .. ops
  BY Basics DEF CreateSocat, At, TypeInv, RequestOK
<1>1. CASE containers' = containers /\ \E o : Answer(s, o)
  BY <1>0, <1>1, QuietAnswer
<1>2. CASE /\ req[s].ident # NoIdentity /\ OnIdentity("socat", req[s].ident) = {}
           /\ containers' = containers \cup {NewContainer("socat", req[s])}
           /\ Goto(s, "socat.start")
  <2> DEFINE x == NewContainer("socat", req[s])
  <2>1. /\ x.kind = "socat" /\ x.id = req[s].op /\ x.identity = req[s].ident
        /\ x.provider = req[s].prov
    BY DEF NewContainer
  <2>2. containers' = containers \cup {x}
    BY <1>2
  <2> HIDE DEF x
  <2>3. /\ \A y \in OfKind("socat") : y.id # x.id /\ y.identity # x.identity
        /\ \E c \in OfKind("connect") : c.identity = x.identity /\ c.provider = x.provider
    BY <1>0, <1>2, <2>1 DEF Held, CreateHeld, BeforeSocat, PCs, OnIdentity
  <2>4. WorldOK'
    BY <1>0, <2>1, <2>2, <2>3, NewSocatWorld
  <2>5. /\ req'[s].pc = "socat.start" /\ req'[s].op = req[s].op
        /\ req'[s].ident = req[s].ident /\ req'[s].prov = req[s].prov
    BY <1>0, <1>2, GotoFields
  <2>6. /\ OfKind("socat")' = OfKind("socat") \cup {x} /\ OfKind("envoy")' = OfKind("envoy")
    BY <2>1, <2>2 DEF OfKind
  <2>7. \A e \in OfKind("envoy") : e.identity # req[s].ident
    BY <1>0, <1>2 DEF WorldOK, EnvoyBehindSocat, OnIdentity
  <2>8. Held(s)'
    BY <2>1, <2>3, <2>5, <2>6, <2>7
       DEF Held, UpHeld, DownHeld, CreateHeld, RemoveHeld, Reserving, At, OnIdentity,
           BeforeSocat
  <2> QED
    BY <2>4, <2>8
<1> QED
  BY <1>1, <1>2 DEF CreateSocat

LEMMA StartSocatSeq ==
  ASSUME EstInv, SeqInv, NEW s \in Slots, StartSocat(s)
  PROVE  WorldOK' /\ Held(s)'
<1>0. /\ WorldOK /\ Held(s) /\ req \in [Slots -> Request] /\ ops \in Nat
      /\ containers \subseteq Container
      /\ UNCHANGED <<vpn, ops>> /\ req[s].pc = "socat.start"
      /\ containers' = Started("socat", req[s].op)
  BY Basics DEF StartSocat, At
<1>1. WorldOK'
  BY <1>0, StartedWorld
<1>2. /\ req'[s].pc = "envoy.create" /\ req'[s].ident = req[s].ident
      /\ req'[s].prov = req[s].prov
  BY <1>0, GotoFields DEF StartSocat
<1>3. PICK x \in OfKind("socat") : x.identity = req[s].ident /\ x.provider = req[s].prov
  BY <1>0 DEF Held, CreateHeld
<1>4. \E y \in OfKind("socat")' : y.identity = req[s].ident /\ y.provider = req[s].prov
  BY <1>0, <1>3, StartedAlike
<1>5. Held(s)'
  BY <1>2, <1>4
     DEF Held, UpHeld, DownHeld, CreateHeld, RemoveHeld, Reserving, At, BeforeSocat
<1> QED
  BY <1>1, <1>5

(* The clean-up of a SOCAT that did not start: nothing is behind it yet.   *)
LEMMA StartSocatFailsSeq ==
  ASSUME EstInv, SeqInv, NEW s \in Slots, StartSocatFails(s)
  PROVE  WorldOK' /\ Held(s)'
<1>0. /\ WorldOK /\ Held(s) /\ req \in [Slots -> Request] /\ ops \in Nat
      /\ UNCHANGED <<vpn, ops>> /\ req[s].pc = "socat.start"
      /\ Answer(s, "Repository")
  BY Basics DEF StartSocatFails, At
<1>1. CASE containers' = containers
  BY <1>0, <1>1, QuietAnswer
<1>2. CASE containers' = Without("socat", req[s].op)
  <2>1. /\ containers' \subseteq containers
        /\ OfKind("connect") \ containers' = {}
        /\ \A x \in OfKind("socat") \ containers' : x.id = req[s].op
        /\ OfKind("envoy")' = OfKind("envoy")
    BY <1>2 DEF Without, OfKind
  <2>2. \A x \in OfKind("socat") \ containers' : x.identity = req[s].ident
    BY <1>0, <2>1 DEF Held, CreateHeld, At
  <2>3. \A e \in OfKind("envoy")' : e.identity # req[s].ident
    BY <1>0, <2>1 DEF Held, CreateHeld, At, OnIdentity
  <2>4. WorldOK'
    BY <1>0, <2>1, <2>2, <2>3, FewerWorld
  <2> QED
    BY <1>0, <2>4, AnswerRests, RestHeld
<1> QED
  BY <1>1, <1>2 DEF StartSocatFails

LEMMA EnvoySeq ==
  ASSUME EstInv, SeqInv, NEW s \in Slots, CreateEnvoy(s) \/ StartEnvoy(s)
  PROVE  WorldOK' /\ Held(s)'
<1>0. /\ WorldOK /\ Held(s) /\ req \in [Slots -> Request] /\ ops \in Nat
      /\ containers \subseteq Container /\ UNCHANGED <<vpn, ops>>
  BY Basics DEF CreateEnvoy, StartEnvoy
<1>1. CASE containers' = containers /\ \E o : Answer(s, o)
  BY <1>0, <1>1, QuietAnswer
<1>2. CASE /\ CreateEnvoy(s) /\ Goto(s, "envoy.start")
           /\ containers' = containers \cup {NewContainer("envoy", req[s])}
  <2> DEFINE e == NewContainer("envoy", req[s])
  <2>1. /\ e.kind = "envoy" /\ e.identity = req[s].ident /\ e.provider = req[s].prov
        /\ containers' = containers \cup {e} /\ req[s].pc = "envoy.create"
    BY <1>2 DEF NewContainer, CreateEnvoy, At
  <2> HIDE DEF e
  <2>2. /\ OfKind("envoy")' = OfKind("envoy") \cup {e}
        /\ OfKind("socat")' = OfKind("socat") /\ OfKind("connect")' = OfKind("connect")
    BY <2>1 DEF OfKind
  <2>3. \E x \in OfKind("socat") : x.identity = e.identity /\ x.provider = e.provider
    BY <1>0, <2>1 DEF Held, CreateHeld
  <2>4. NoSharedIdentity' /\ ProxyHasConnection' /\ NoHijack'
    BY <1>0, <2>2 DEF WorldOK, NoSharedIdentity, ProxyHasConnection, NoHijack
  <2>5. EnvoyBehindSocat'
    BY <1>0, <2>2, <2>3 DEF WorldOK, EnvoyBehindSocat
  <2>6. Distinct'
    BY <1>0, <2>2 DEF WorldOK, Distinct
  <2>7. req'[s].pc = "envoy.start"
    BY <1>0, <1>2, GotoFields
  <2> QED
    BY <2>4, <2>5, <2>6, <2>7, PlainHeld DEF WorldOK, Plain
<1>3. CASE StartEnvoy(s)
  <2>1. containers' = Started("envoy", req[s].op) /\ Answer(s, "Ok")
    BY <1>3 DEF StartEnvoy
  <2> QED
    BY <1>0, <2>1, StartedWorld, AnswerRests, RestHeld
<1> QED
  BY <1>1, <1>2, <1>3 DEF CreateEnvoy

-----------------------------------------------------------------------------
(* MystProviderProxyService.down and ProxyService.remove.                  *)

LEMMA RemoveReadSeq ==
  ASSUME EstInv, SeqInv, NEW s \in Slots,
         DownAllList(s) \/ RemoveGet(s) \/ RemoveRead(s)
  PROVE  WorldOK' /\ Held(s)'
<1>0. /\ WorldOK /\ Held(s) /\ req \in [Slots -> Request] /\ ops \in Nat
      /\ UNCHANGED <<containers, vpn, ops>> /\ req[s].pc \in BeforeSocat
  BY Basics DEF DownAllList, RemoveGet, RemoveRead, At, BeforeSocat, PCs
<1>1. CASE \E o : Answer(s, o)
  BY <1>0, <1>1, QuietAnswer
<1>2. CASE Goto(s, "down.provider") \/ Goto(s, "remove.read")
  BY <1>0, <1>2, QuietPlain DEF Plain
<1>n. WorldOK' /\ \A k : OfKind(k)' = OfKind(k)
  BY <1>0, SameWorld DEF OfKind
<1>m. \A x \in OfKind("socat")' : x.id # req[s].op
  BY <1>0, <1>n DEF Held, CreateHeld
<1>3. ASSUME NEW n, req' = [req EXCEPT ![s].pc = "remove.get", ![s].proxy = n]
      PROVE  WorldOK' /\ Held(s)'
  <2>1. req'[s].pc = "remove.get" /\ req'[s].op = req[s].op
    BY <1>0, <1>3 DEF Request
  <2> QED
    BY <1>n, <1>m, <2>1, PlainHeld DEF Plain
<1>4. ASSUME NEW c \in OfKind("socat"), c.id = req[s].proxy,
             req' = [req EXCEPT ![s].pc = "remove.containers",
                                ![s].todo = {e.id : e \in ProxiesOf("envoy", c.provider)}]
      PROVE  WorldOK' /\ Held(s)'
  <2>1. /\ req'[s].pc = "remove.containers" /\ req'[s].op = req[s].op
        /\ req'[s].proxy = c.id
        /\ req'[s].todo = {e.id : e \in ProxiesOf("envoy", c.provider)}
    BY <1>0, <1>4 DEF Request
  <2>2. \A x \in OfKind("socat") : x.id = c.id => x = c
    BY <1>0 DEF WorldOK, Distinct
  <2>3. \A x \in OfKind("socat")' : x.id = req'[s].proxy =>
          \A e \in ProxiesOf("envoy", x.provider)' : e.id \in req'[s].todo
    BY <1>n, <2>1, <2>2 DEF ProxiesOf
  <2>4. Held(s)'
    BY <1>m, <2>1, <2>3
       DEF Held, UpHeld, DownHeld, CreateHeld, RemoveHeld, Reserving, At
  <2> QED
    BY <1>n, <2>4
<1>5. CASE DownAllList(s)
  BY <1>2, <1>3, <1>5 DEF DownAllList
<1>6. CASE RemoveGet(s)
  BY <1>1, <1>2, <1>6 DEF RemoveGet
<1>7. CASE RemoveRead(s)
  BY <1>1, <1>2, <1>4, <1>7 DEF RemoveRead, Removed
<1> QED
  BY <1>5, <1>6, <1>7

LEMMA RemoveEnvoySeq ==
  ASSUME EstInv, SeqInv, NEW s \in Slots, RemoveEnvoy(s)
  PROVE  WorldOK' /\ Held(s)'
<1>0. /\ WorldOK /\ Held(s) /\ req \in [Slots -> Request] /\ ops \in Nat
      /\ UNCHANGED <<vpn, ops>> /\ req[s].pc = "remove.containers"
  BY Basics DEF RemoveEnvoy, At
<1>1. PICK n \in req[s].todo : /\ containers' = Without("envoy", n)
                               /\ req' = [req EXCEPT ![s].todo = @ \ {n}]
  BY DEF RemoveEnvoy
<1>2. /\ containers' \subseteq containers
      /\ OfKind("socat")' = OfKind("socat") /\ OfKind("connect")' = OfKind("connect")
      /\ OfKind("envoy")' = {e \in OfKind("envoy") : e.id # n}
      /\ OfKind("socat") \ containers' = {} /\ OfKind("connect") \ containers' = {}
  BY <1>1 DEF Without, OfKind
<1>3. WorldOK'
  BY <1>0, <1>2, FewerWorld
<1>4. /\ req'[s].pc = "remove.containers" /\ req'[s].op = req[s].op
      /\ req'[s].proxy = req[s].proxy /\ req'[s].todo = req[s].todo \ {n}
  BY <1>0, <1>1 DEF Request
<1>5. \A x \in OfKind("socat")' : x.id # req[s].op
  BY <1>0, <1>2 DEF Held, CreateHeld, BeforeSocat, PCs
<1>6. \A x \in OfKind("socat")' : x.id = req'[s].proxy =>
        \A e \in ProxiesOf("envoy", x.provider)' : e.id \in req'[s].todo
  BY <1>0, <1>2, <1>4 DEF Held, RemoveHeld, ProxiesOf, At
<1>7. Held(s)'
  BY <1>4, <1>5, <1>6 DEF Held, UpHeld, DownHeld, CreateHeld, RemoveHeld, Reserving, At
<1> QED
  BY <1>3, <1>7

(* The SOCAT goes last: its ENVOYs are gone.                               *)
LEMMA RemoveSocatSeq ==
  ASSUME EstInv, SeqInv, NEW s \in Slots, RemoveSocat(s)
  PROVE  WorldOK' /\ Held(s)'
<1>0. /\ WorldOK /\ Held(s) /\ req \in [Slots -> Request] /\ ops \in Nat
      /\ UNCHANGED <<vpn, ops>> /\ req[s].pc = "remove.containers" /\ req[s].todo = {}
      /\ containers' = Without("socat", req[s].proxy)
  BY Basics DEF RemoveSocat, At
<1>1. /\ containers' \subseteq containers
      /\ OfKind("socat")' \subseteq OfKind("socat") /\ OfKind("envoy")' = OfKind("envoy")
      /\ OfKind("connect") \ containers' = {}
      /\ \A x \in OfKind("socat") \ containers' : x.id = req[s].proxy
  BY <1>0 DEF Without, OfKind
<1>2. \A x \in OfKind("socat") \ containers' :
        \A e \in OfKind("envoy") : e.provider # x.provider
  BY <1>0, <1>1 DEF Held, RemoveHeld, ProxiesOf, At
<1>3. WorldOK'
  BY <1>0, <1>1, <1>2, FewerWorld
<1>4. \A x \in OfKind("socat")' : x.id # req[s].op
  BY <1>0, <1>1 DEF Held, CreateHeld, BeforeSocat, PCs
<1>5. CASE \E o : Answer(s, o)
  BY <1>0, <1>3, <1>5, AnswerRests, RestHeld
<1>6. CASE Goto(s, "down.provider")
  <2>1. req'[s].pc = "down.provider" /\ req'[s].op = req[s].op
    BY <1>0, <1>6, GotoFields
  <2> QED
    BY <1>3, <1>4, <2>1, PlainHeld DEF Plain
<1> QED
  BY <1>5, <1>6 DEF RemoveSocat, Removed

(* A handler that ends where it is leaves the world as it is.              *)
LEMMA EndSeq ==
  ASSUME EstInv, SeqInv, NEW s \in Slots, Fail(s) \/ Reply(s)
  PROVE  WorldOK' /\ Held(s)'
<1>0. /\ WorldOK /\ req \in [Slots -> Request] /\ ops \in Nat
      /\ UNCHANGED <<containers, vpn, ops>>
  BY Basics DEF Fail, Reply
<1>1. CASE Fail(s)
  BY <1>0, <1>1, QuietAnswer DEF Fail
<1>2. CASE Reply(s)
  <2>1. req'[s].pc = "idle"
    BY <1>0, <1>2 DEF Reply, Idle
  <2> QED
    BY <1>0, <2>1, SameWorld, RestHeld
<1> QED
  BY <1>1, <1>2

-----------------------------------------------------------------------------
(* Daemons and tunnels, and the whole.                                     *)

(* What a request holds does not depend on a tunnel that ends, or that is  *)
(* made on an identity with a connection.                                  *)
LEMMA TunnelHeld ==
  ASSUME SeqInv, vpn \in [Identity -> Provider \cup {NoProvider}],
         UNCHANGED <<containers, req, ops>>, NEW i \in Identity, NEW p,
         vpn' = [vpn EXCEPT ![i] = p],
         p = NoProvider \/ OnIdentity("connect", i) # {},
         \A s \in Slots : req[s].pc \in {"connect", "connect.create"} =>
           req[s].ident \in Identity
  PROVE  \A s \in Slots : Held(s)'
<1> SUFFICES ASSUME NEW s \in Slots PROVE Held(s)'
  OBVIOUS
<1>1. Held(s) /\ (\A k : OfKind(k)' = OfKind(k)) /\ req' = req
  BY DEF SeqInv, OfKind
<1>2. UpHeld(s)'
  <2>1. \A j : OnIdentity("connect", j)' = OnIdentity("connect", j)
    BY <1>1 DEF OnIdentity
  <2>2. ASSUME At(s, "connect") PROVE vpn'[req[s].ident] = NoProvider
    BY <1>1, <2>2 DEF Held, UpHeld, Reserving, At
  <2>3. ASSUME At(s, "connect.create")
        PROVE  vpn'[req[s].ident] \in {req[s].prov, NoProvider}
    BY <1>1, <2>3 DEF Held, UpHeld, Reserving, At
  <2> QED
    BY <1>1, <2>1, <2>2, <2>3 DEF Held, UpHeld, Reserving, At
<1>3. DownHeld(s)' /\ CreateHeld(s)' /\ RemoveHeld(s)'
  BY <1>1 DEF Held, DownHeld, CreateHeld, RemoveHeld, At, OnIdentity, ProxiesOf
<1> QED
  BY <1>2, <1>3 DEF Held

LEMMA WorldSeq ==
  ASSUME EstInv, SeqInv,
         \/ \E i \in Identity : MystStop(i) \/ MystStart(i) \/ TunnelLost(i)
         \/ \E c \in containers : Entrypoint(c)
         \/ UNCHANGED vars
  PROVE  SeqInv'
<1>0. /\ WorldOK /\ vpn \in [Identity -> Provider \cup {NoProvider}]
      /\ containers \subseteq Container /\ ops \in Nat
      /\ UNCHANGED <<containers, req, ops>>
      /\ \A s \in Slots : req[s].pc \in {"connect", "connect.create"} =>
           req[s].ident \in Identity
  BY BoundAssumption
     DEF EstInv, SeqInv, TypeInv, TypeOK, RequestOK, HoldsIdentity, MystStop, MystStart,
         TunnelLost, Entrypoint, vars
<1>1. ASSUME NEW i \in Identity, vpn' = [vpn EXCEPT ![i] = NoProvider]
      PROVE  SeqInv'
  BY <1>0, <1>1, TunnelGone, TunnelHeld DEF SeqInv
<1>2. CASE vpn' = vpn
  <2>1. WorldOK'
    BY <1>0, <1>2, SameWorld
  <2>2. \A s \in Slots : Held(s)'
    <3>1. \A k : OfKind(k)' = OfKind(k)
      BY <1>0 DEF OfKind
    <3> QED
      BY <1>0, <1>2, <3>1
         DEF SeqInv, Held, UpHeld, DownHeld, CreateHeld, RemoveHeld, Reserving, At,
             OnIdentity, ProxiesOf
  <2> QED
    BY <2>1, <2>2 DEF SeqInv
<1>3. ASSUME NEW c \in containers, Entrypoint(c)
      PROVE  SeqInv'
  <2>1. /\ c \in OnIdentity("connect", c.identity) /\ c.identity \in Identity
        /\ vpn' = [vpn EXCEPT ![c.identity] = c.provider]
    BY <1>0, <1>3 DEF Entrypoint, OnIdentity, OfKind, Container
  <2>2. \A d \in OnIdentity("connect", c.identity) : d.provider = c.provider
    BY <1>0, <2>1 DEF WorldOK, NoSharedIdentity, OnIdentity
  <2>3. WorldOK'
    BY <1>0, <2>1, <2>2, TunnelMade
  <2>4. \A s \in Slots : Held(s)'
    BY <1>0, <2>1, TunnelHeld
  <2> QED
    BY <2>3, <2>4 DEF SeqInv
<1> QED
  BY <1>1, <1>2, <1>3 DEF MystStop, MystStart, TunnelLost, vars

LEMMA InitSeq == Init => SeqInv
<1> SUFFICES ASSUME Init PROVE SeqInv
  OBVIOUS
<1>1. \A k : OfKind(k) = {}
  BY DEF Init, OfKind
<1>2. \A s \in Slots : req[s].pc = "idle"
  BY DEF Init, Idle
<1>3. WorldOK
  BY <1>1
     DEF WorldOK, NoSharedIdentity, Distinct, ProxyHasConnection, EnvoyBehindSocat, NoHijack
<1>4. \A s \in Slots : Held(s)
  BY <1>2 DEF Held, UpHeld, DownHeld, CreateHeld, RemoveHeld, Reserving, At, BeforeSocat
<1> QED
  BY <1>3, <1>4 DEF SeqInv

LEMMA NextSeq ==
  ASSUME OneSlot
  PROVE  EstInv /\ SeqInv /\ [Next]_vars => SeqInv'
<1> SUFFICES ASSUME EstInv, SeqInv, [Next]_vars PROVE SeqInv'
  OBVIOUS
<1>1. ASSUME NEW s \in Slots, Begin(s) \/ Serve(s) \/ StartSocatFails(s) \/ Fail(s)
      PROVE  SeqInv'
  <2>1. WorldOK' /\ Held(s)'
    BY <1>1, BeginSeq, UpSeq, DisconnectSeq, ConnectSeq, CreateConnectSeq,
       StartConnectSeq, DownSeq, CreateReadSeq, CreateSocatSeq, StartSocatSeq,
       StartSocatFailsSeq, EnvoySeq, RemoveReadSeq, RemoveEnvoySeq, RemoveSocatSeq, EndSeq
       DEF Serve
  <2>2. \A t \in Slots : t = s
    BY DEF OneSlot
  <2> QED
    BY <2>1, <2>2 DEF SeqInv
<1> QED
  BY <1>1, WorldSeq DEF Next

(* The whole invariant, for the theorems.                                  *)
LEMMA Sequentially ==
  ASSUME OneSlot
  PROVE  Spec => [](EstInv /\ SeqInv)
<1>1. Init => EstInv /\ SeqInv
  BY InitEst, InitSeq
<1>2. EstInv /\ SeqInv /\ [Next]_vars => (EstInv /\ SeqInv)'
  BY NextEst, NextSeq
<1> QED
  BY <1>1, <1>2, PTL DEF Spec
-----------------------------------------------------------------------------
(* Served one request at a time, no identity serves two providers, for all *)
(* sets of providers and identities, any number of requests, and whatever  *)
(* calls fail (myst-provider.service.ts, up).                              *)
THEOREM NoIdentityIsShared ==
  ASSUME OneSlot
  PROVE  Spec => []NoSharedIdentity
<1>1. SeqInv => NoSharedIdentity
  BY DEF SeqInv, WorldOK
<1> QED
  BY <1>1, Sequentially, PTL

(* Served one request at a time, a proxy always stands on the connection   *)
(* it was made for (proxy.service.ts, create, and                          *)
(* myst-provider.service.ts, down).                                        *)
THEOREM ProxyKeepsConnection ==
  ASSUME OneSlot
  PROVE  Spec => []ProxyHasConnection
<1>1. SeqInv => ProxyHasConnection
  BY DEF SeqInv, WorldOK
<1> QED
  BY <1>1, Sequentially, PTL

(* Served one request at a time, there is never an ENVOY without its       *)
(* SOCAT, wherever a creation or a removal is cut short                    *)
(* (proxy-aggregate.repository.ts, create and remove).                     *)
THEOREM NoEnvoyIsHidden ==
  ASSUME OneSlot
  PROVE  Spec => []EnvoyBehindSocat
<1>1. SeqInv => EnvoyBehindSocat
  BY DEF SeqInv, WorldOK
<1> QED
  BY <1>1, Sequentially, PTL

(* Served one request at a time, the daemon of a registered provider is    *)
(* connected to it or to nobody, with the scripts redialling and the       *)
(* daemons restarting (myst-provider-aggregate.repository.ts, connect).    *)
THEOREM NoTunnelIsHijacked ==
  ASSUME OneSlot
  PROVE  Spec => []NoHijack
<1>1. SeqInv => NoHijack
  BY DEF SeqInv, WorldOK
<1> QED
  BY <1>1, Sequentially, PTL

(* Served one request at a time, a tunnel that a failed `up` left open is  *)
(* gone when the next one connects                                         *)
(* (myst-provider-aggregate.repository.ts, disconnect with force).         *)
THEOREM LeftTunnelsAreReclaimed ==
  ASSUME OneSlot
  PROVE  Spec => []ConnectFindsNoTunnel
<1>1. SeqInv => ConnectFindsNoTunnel
  BY DEF SeqInv, Held, UpHeld, ConnectFindsNoTunnel
<1> QED
  BY <1>1, Sequentially, PTL

-----------------------------------------------------------------------------
(* The leases that the containers implement.                               *)

Pairs(k) == {<<c.identity, c.provider>> : c \in OfKind(k)}

LEMMA PairsAre ==
  /\ Lease!leaseVars = <<Pairs("connect"), Pairs("socat")>>
  /\ Lease!leaseVars' = <<Pairs("connect")', Pairs("socat")'>>
  BY DEF Lease!leaseVars, Pairs

LEMMA LeaseStutters ==
  ASSUME \A k \in {"connect", "socat"} : OfKind(k)' = OfKind(k)
  PROVE  UNCHANGED Lease!leaseVars
<1>1. Pairs("connect")' = Pairs("connect") /\ Pairs("socat")' = Pairs("socat")
  BY DEF Pairs
<1> QED
  BY <1>1, PairsAre

LEMMA StartStutters ==
  ASSUME containers \subseteq Container, NEW k, NEW n, containers' = Started(k, n)
  PROVE  UNCHANGED Lease!leaseVars
<1>1. /\ \A j : \A c \in OfKind(j)' : \E d \in OfKind(j) :
           c.identity = d.identity /\ c.provider = d.provider
      /\ \A j : \A d \in OfKind(j) : \E c \in OfKind(j)' :
           c.identity = d.identity /\ c.provider = d.provider
  BY StartedAlike
<1>2. \A j : Pairs(j)' = Pairs(j)
  <2> SUFFICES ASSUME NEW j PROVE Pairs(j)' = Pairs(j)
    OBVIOUS
  <2>1. ASSUME NEW l PROVE l \in Pairs(j)' => l \in Pairs(j)
    BY <1>1 DEF Pairs
  <2>2. ASSUME NEW l PROVE l \in Pairs(j) => l \in Pairs(j)'
    BY <1>1 DEF Pairs
  <2> QED
    BY <2>1, <2>2
<1> QED
  BY <1>2, PairsAre

(* Creating a connection acquires a lease.                                 *)
LEMMA AcquireMaps ==
  ASSUME EstInv, SeqInv, NEW s \in Slots, CreateConnect(s)
  PROVE  [Lease!LeaseNext]_(Lease!leaseVars)
<1>1. CASE containers' = containers
  BY <1>1, LeaseStutters DEF OfKind
<1>2. CASE /\ ProxiesOf("connect", req[s].prov) = {}
           /\ containers' = containers \cup {NewContainer("connect", req[s])}
  <2>1. req[s].ident \in Identity /\ req[s].prov \in Provider
    <3>1. req[s].pc = "connect.create"
      BY DEF CreateConnect, At
    <3> QED
      BY <3>1 DEF EstInv, TypeInv, RequestOK, HoldsIdentity, NoProviderYet
  <2>2. \A c \in OfKind("connect") :
          c.identity # req[s].ident /\ c.provider # req[s].prov
    BY <1>2 DEF SeqInv, Held, UpHeld, Reserving, CreateConnect, At, OnIdentity, ProxiesOf
  <2>3. /\ OfKind("connect")' = OfKind("connect") \cup {NewContainer("connect", req[s])}
        /\ OfKind("socat")' = OfKind("socat")
    BY <1>2 DEF OfKind, NewContainer
  <2>4. /\ Pairs("connect")' = Pairs("connect") \cup {<<req[s].ident, req[s].prov>>}
        /\ Pairs("socat")' = Pairs("socat")
    <3>1. /\ NewContainer("connect", req[s]).identity = req[s].ident
          /\ NewContainer("connect", req[s]).provider = req[s].prov
      BY DEF NewContainer
    <3> QED
      BY <2>3, <3>1 DEF Pairs
  <2>5. \A l \in Pairs("connect") : l[1] # req[s].ident /\ l[2] # req[s].prov
    BY <2>2 DEF Pairs
  <2>6. PICK i \in Identity, p \in Provider : i = req[s].ident /\ p = req[s].prov
    BY <2>1
  <2>7. Lease!Acquire(i, p)
    BY <2>4, <2>5, <2>6 DEF Lease!Acquire, Pairs
  <2> QED
    BY <2>7 DEF Lease!LeaseNext
<1> QED
  BY <1>1, <1>2 DEF CreateConnect

(* Removing one releases it; it has no proxy then.                         *)
LEMMA ReleaseMaps ==
  ASSUME EstInv, SeqInv, NEW s \in Slots, DisconnectRemove(s)
  PROVE  [Lease!LeaseNext]_(Lease!leaseVars)
<1>0. req[s].pc = "disconnect.remove" /\ containers' = Without("connect", req[s].target)
  BY DEF DisconnectRemove, At
<1>1. /\ OfKind("connect")' = {c \in OfKind("connect") : c.id # req[s].target}
      /\ OfKind("socat")' = OfKind("socat")
  BY <1>0 DEF Without, OfKind
<1>2. CASE \A c \in OfKind("connect") : c.id # req[s].target
  BY <1>1, <1>2, LeaseStutters
<1>3. ASSUME NEW c \in OfKind("connect"), c.id = req[s].target
      PROVE  [Lease!LeaseNext]_(Lease!leaseVars)
  <2> DEFINE l == <<c.identity, c.provider>>
  <2>1. /\ OfKind("connect")' = OfKind("connect") \ {c}
        /\ \A d \in OfKind("connect") : d # c => d.identity # c.identity
    BY <1>1, <1>3 DEF SeqInv, WorldOK, Distinct, NoSharedIdentity
  <2>2. Pairs("connect")' = Pairs("connect") \ {l}
    <3>1. ASSUME NEW m PROVE m \in Pairs("connect")' => m \in Pairs("connect") \ {l}
      BY <2>1 DEF Pairs
    <3>2. ASSUME NEW m PROVE m \in Pairs("connect") \ {l} => m \in Pairs("connect")'
      BY <2>1 DEF Pairs
    <3> QED
      BY <3>1, <3>2
  <2>3. Pairs("socat")' = Pairs("socat")
    BY <1>1 DEF Pairs
  <2>4. l \in Pairs("connect") /\ l \notin Pairs("socat")
    <3>1. req[s].kind \notin Up
      BY <1>0 DEF SeqInv, Held, UpHeld, At
    <3>2. ProxiesOf("socat", c.provider) = {}
      BY <1>0, <1>3, <3>1 DEF SeqInv, Held, DownHeld, At
    <3> QED
      BY <3>2 DEF Pairs, ProxiesOf
  <2>5. Lease!Release(l)
    BY <2>2, <2>3, <2>4 DEF Lease!Release, Pairs
  <2> QED
    BY <2>4, <2>5 DEF Lease!LeaseNext, Pairs
<1> QED
  BY <1>2, <1>3

(* Creating a SOCAT opens the proxy of a lease.                            *)
LEMMA OpenMaps ==
  ASSUME EstInv, SeqInv, NEW s \in Slots, CreateSocat(s)
  PROVE  [Lease!LeaseNext]_(Lease!leaseVars)
<1>1. CASE containers' = containers
  BY <1>1, LeaseStutters DEF OfKind
<1>2. CASE /\ req[s].ident # NoIdentity /\ OnIdentity("socat", req[s].ident) = {}
           /\ containers' = containers \cup {NewContainer("socat", req[s])}
  <2>l. PICK l : l = <<req[s].ident, req[s].prov>>
    OBVIOUS
  <2>1. /\ OfKind("socat")' = OfKind("socat") \cup {NewContainer("socat", req[s])}
        /\ OfKind("connect")' = OfKind("connect")
    BY <1>2 DEF OfKind, NewContainer
  <2>2. /\ Pairs("socat")' = Pairs("socat") \cup {l}
        /\ Pairs("connect")' = Pairs("connect")
    <3>1. /\ NewContainer("socat", req[s]).identity = req[s].ident
          /\ NewContainer("socat", req[s]).provider = req[s].prov
      BY DEF NewContainer
    <3> QED
      BY <2>l, <2>1, <3>1 DEF Pairs
  <2>3. l \in Pairs("connect")
    <3>1. PICK c \in OfKind("connect") :
                 c.identity = req[s].ident /\ c.provider = req[s].prov
      BY <1>2 DEF SeqInv, Held, CreateHeld, CreateSocat, At
    <3> QED
      BY <2>l, <3>1 DEF Pairs
  <2>4. l \notin Pairs("socat")
    BY <2>l, <1>2 DEF Pairs, OnIdentity
  <2>5. Lease!OpenProxy(l)
    BY <2>2, <2>3, <2>4 DEF Lease!OpenProxy, Pairs
  <2> QED
    BY <2>3, <2>5 DEF Lease!LeaseNext, Pairs
<1> QED
  BY <1>1, <1>2 DEF CreateSocat

(* Removing one closes it.                                                 *)
LEMMA CloseMaps ==
  ASSUME SeqInv, NEW n, containers' = Without("socat", n)
  PROVE  [Lease!LeaseNext]_(Lease!leaseVars)
<1>1. /\ OfKind("socat")' = {x \in OfKind("socat") : x.id # n}
      /\ OfKind("connect")' = OfKind("connect")
  BY DEF Without, OfKind
<1>2. CASE \A x \in OfKind("socat") : x.id # n
  BY <1>1, <1>2, LeaseStutters
<1>3. ASSUME NEW x \in OfKind("socat"), x.id = n
      PROVE  [Lease!LeaseNext]_(Lease!leaseVars)
  <2> DEFINE l == <<x.identity, x.provider>>
  <2>1. /\ OfKind("socat")' = OfKind("socat") \ {x}
        /\ \A y \in OfKind("socat") : y # x => y.identity # x.identity
    BY <1>1, <1>3 DEF SeqInv, WorldOK, Distinct
  <2>2. Pairs("socat")' = Pairs("socat") \ {l}
    <3>1. ASSUME NEW m PROVE m \in Pairs("socat")' => m \in Pairs("socat") \ {l}
      BY <2>1 DEF Pairs
    <3>2. ASSUME NEW m PROVE m \in Pairs("socat") \ {l} => m \in Pairs("socat")'
      BY <2>1 DEF Pairs
    <3> QED
      BY <3>1, <3>2
  <2>3. Pairs("connect")' = Pairs("connect") /\ l \in Pairs("socat")
    BY <1>1 DEF Pairs
  <2>4. l \in Pairs("connect")
    <3>1. PICK c \in OfKind("connect") :
                 c.identity = x.identity /\ c.provider = x.provider
      BY DEF SeqInv, WorldOK, ProxyHasConnection
    <3> QED
      BY <3>1 DEF Pairs
  <2>5. Lease!CloseProxy(l)
    BY <2>2, <2>3 DEF Lease!CloseProxy, Pairs
  <2> QED
    BY <2>4, <2>5 DEF Lease!LeaseNext, Pairs
<1> QED
  BY <1>2, <1>3

LEMMA StepLeases ==
  ASSUME EstInv, SeqInv, [Next]_vars
  PROVE  [Lease!LeaseNext]_(Lease!leaseVars)
<1>1. CASE containers' = containers
  BY <1>1, LeaseStutters DEF OfKind
<1>2. ASSUME NEW n, containers' = Without("envoy", n)
      PROVE  [Lease!LeaseNext]_(Lease!leaseVars)
  BY <1>2, LeaseStutters DEF Without, OfKind
<1>3. ASSUME NEW r, containers' = containers \cup {NewContainer("envoy", r)}
      PROVE  [Lease!LeaseNext]_(Lease!leaseVars)
  BY <1>3, LeaseStutters DEF NewContainer, OfKind
<1>4. ASSUME NEW k, NEW n, containers' = Started(k, n)
      PROVE  [Lease!LeaseNext]_(Lease!leaseVars)
  BY <1>4, StartStutters DEF EstInv, TypeInv, TypeOK
<1>5. ASSUME NEW s \in Slots, Serve(s)
      PROVE  [Lease!LeaseNext]_(Lease!leaseVars)
  <2>1. CASE UpReadProvider(s) \/ UpPickIdentity(s) \/ UpCheckRunner(s)
             \/ DisconnectList(s) \/ DisconnectTunnel(s) \/ Connect(s)
             \/ DownReadProvider(s) \/ CreateReadProvider(s) \/ CreateReadDependencies(s)
             \/ DownAllList(s) \/ RemoveGet(s) \/ RemoveRead(s) \/ Reply(s)
    <3>1. containers' = containers
      BY <2>1
         DEF UpReadProvider, UpPickIdentity, UpCheckRunner, DisconnectList,
             DisconnectTunnel, Connect, DownReadProvider, CreateReadProvider,
             CreateReadDependencies, DownAllList, RemoveGet, RemoveRead, Reply
    <3> QED
      BY <1>1, <3>1
  <2>2. CASE CreateRemoveEnvoy(s) \/ RemoveEnvoy(s)
    BY <1>2, <2>2 DEF CreateRemoveEnvoy, RemoveEnvoy
  <2>3. CASE CreateEnvoy(s)
    BY <1>1, <1>3, <2>3 DEF CreateEnvoy
  <2>4. CASE StartConnect(s) \/ StartSocat(s) \/ StartEnvoy(s)
    BY <1>1, <1>4, <2>4 DEF StartConnect, StartSocat, StartEnvoy
  <2>5. CASE CreateConnect(s) \/ DisconnectRemove(s) \/ CreateSocat(s) \/ RemoveSocat(s)
    BY <2>5, AcquireMaps, ReleaseMaps, OpenMaps, CloseMaps DEF RemoveSocat
  <2> QED
    BY <1>5, <2>1, <2>2, <2>3, <2>4, <2>5 DEF Serve
<1>6. ASSUME NEW s \in Slots, Begin(s) \/ StartSocatFails(s) \/ Fail(s)
      PROVE  [Lease!LeaseNext]_(Lease!leaseVars)
  BY <1>1, <1>6, CloseMaps DEF Begin, StartSocatFails, Fail
<1>7. CASE \/ \E i \in Identity : MystStop(i) \/ MystStart(i) \/ TunnelLost(i)
           \/ \E c \in containers : Entrypoint(c)
           \/ UNCHANGED vars
  BY <1>1, <1>7 DEF MystStop, MystStart, TunnelLost, Entrypoint, vars
<1> QED
  BY <1>5, <1>6, <1>7 DEF Next

(* Served one request at a time, the containers implement the leases: no   *)
(* identity or provider is leased twice and no lease with a proxy is given *)
(* up, for any sets of providers and identities and whatever fails         *)
(* (myst-provider.service.ts, up and down; proxy.service.ts).              *)
THEOREM ContainersImplementLeases ==
  ASSUME OneSlot
  PROVE  Spec => ImplementsLease
<1>1. Init => Lease!LeaseInit
  BY DEF Init, Lease!LeaseInit, OfKind
<1>2. EstInv /\ SeqInv /\ [Next]_vars => [Lease!LeaseNext]_(Lease!leaseVars)
  BY StepLeases
<1> QED
  BY <1>1, <1>2, Sequentially, PTL DEF Spec, ImplementsLease, Lease!LeaseSpec

-----------------------------------------------------------------------------
(* "downAll": what is left of the provider when the endpoint says it did.  *)

(* Where only `up` and `create` are.                                       *)
Building == {"up.provider", "up.identity", "up.runner", "connect", "connect.create",
             "connect.start", "create.provider", "create.read", "create.removeEnvoy",
             "socat.create", "socat.start", "envoy.create", "envoy.start"}

(* The disconnection of `down` knows its connection, and when it has       *)
(* removed it nothing of the provider is left.                             *)
DownAllHeld(s) ==
  /\ req[s].pc \in Building => req[s].kind # "downAll"
  /\ req[s].kind \notin Up =>
       /\ At(s, "disconnect.list") =>
            \E c \in OfKind("connect") :
              c.identity = req[s].ident /\ c.provider = req[s].prov
       /\ At(s, "disconnect.remove") => \E c \in OfKind("connect") : c.id = req[s].target
       /\ At(s, "disconnect.tunnel") => OfProvider(req[s].prov) = {}
  /\ At(s, "done") /\ req[s].kind = "downAll" /\ req[s].out = "Ok" =>
       OfProvider(req[s].prov) = {}

DownAllInv == \A s \in Slots : DownAllHeld(s)

(* Steps that neither disconnect nor finish a "downAll".                   *)
LEMMA ElsewhereDownAll ==
  ASSUME DownAllInv, NEW s \in Slots, req'[s].kind = req[s].kind,
         req'[s].pc \in {"disconnect.list", "disconnect.remove", "disconnect.tunnel"} =>
           req[s].kind \in Up,
         req'[s].pc \in Building => req[s].pc \in Building \/ req[s].kind \in Up,
         req'[s].pc = "done" => req'[s].out # "Ok" \/ req[s].kind # "downAll"
  PROVE  DownAllHeld(s)'
  BY DEF DownAllInv, DownAllHeld, At, Up

LEMMA AnswerDownAll ==
  ASSUME DownAllInv, NEW s \in Slots, req \in [Slots -> Request], NEW o, Answer(s, o),
         o # "Ok" \/ req[s].kind # "downAll"
  PROVE  DownAllHeld(s)'
<1>1. req'[s].kind = req[s].kind /\ req'[s].pc = "done" /\ req'[s].out = o
  BY DEF Answer, Request
<1> QED
  BY <1>1, ElsewhereDownAll DEF Building

LEMMA GotoDownAll ==
  ASSUME DownAllInv, NEW s \in Slots, req \in [Slots -> Request], NEW l, Goto(s, l),
         l \notin {"disconnect.remove", "disconnect.tunnel", "done"},
         l = "disconnect.list" => req[s].kind \in Up,
         l \in Building => req[s].pc \in Building \/ req[s].kind \in Up
  PROVE  DownAllHeld(s)'
<1>1. req'[s].kind = req[s].kind /\ req'[s].pc = l
  BY GotoFields
<1> QED
  BY <1>1, ElsewhereDownAll

LEMMA BeginDownAll ==
  ASSUME NEW s \in Slots, req \in [Slots -> Request], Begin(s)
  PROVE  DownAllHeld(s)'
<1>1. CASE \E k \in Kinds \ {"remove"}, p \in Provider :
             req' = [req EXCEPT ![s] = [Idle EXCEPT !.pc = Entry[k], !.kind = k,
                                                    !.op = ops + 1, !.prov = p]]
  <2>1. PICK k \in AllKinds \ {"remove"}, p \in Provider :
               req' = [req EXCEPT ![s] = [Idle EXCEPT !.pc = Entry[k], !.kind = k,
                                                      !.op = ops + 1, !.prov = p]]
    BY <1>1, KindsAssumption
  <2>2. req'[s].pc = Entry[k] /\ req'[s].kind = k
    BY <2>1 DEF Idle
  <2>3. /\ Entry[k] \notin {"disconnect.list", "disconnect.remove", "disconnect.tunnel",
                            "done"}
        /\ Entry[k] \in Building => k # "downAll"
    BY DEF Entry, AllKinds, Building
  <2> QED
    BY <2>2, <2>3 DEF DownAllHeld, At
<1>2. CASE \E c \in OfKind("socat") :
             req' = [req EXCEPT ![s] = [Idle EXCEPT !.pc = Entry["remove"],
                                                    !.kind = "remove", !.op = ops + 1,
                                                    !.proxy = c.id]]
  <2>1. req'[s].pc = "remove.get"
    BY <1>2 DEF Idle, Entry
  <2> QED
    BY <2>1 DEF DownAllHeld, At, Building
<1> QED
  BY <1>1, <1>2 DEF Begin

LEMMA UpDownAll ==
  ASSUME EstInv, SeqInv, DownAllInv, NEW s \in Slots,
         \/ UpReadProvider(s) \/ UpPickIdentity(s) \/ UpCheckRunner(s)
         \/ Connect(s) \/ CreateConnect(s) \/ StartConnect(s)
  PROVE  DownAllHeld(s)'
<1>0. /\ req \in [Slots -> Request] /\ req[s].pc \in Building
      /\ At(s, "up.runner") => req[s].kind \in Up
      /\ req[s].kind # "downAll"
  BY Basics
     DEF UpReadProvider, UpPickIdentity, UpCheckRunner, Connect, CreateConnect,
         StartConnect, At, Building, Held, UpHeld, DownAllInv, DownAllHeld
<1>1. CASE \E o : Answer(s, o)
  BY <1>0, <1>1, AnswerDownAll
<1>2. CASE \E l \in Building : Goto(s, l)
  BY <1>0, <1>2, GotoDownAll DEF Building
<1>3. CASE UpCheckRunner(s) /\ Goto(s, "disconnect.list")
  BY <1>0, <1>3, GotoDownAll DEF UpCheckRunner, Building
<1>4. ASSUME NEW i, NEW n,
             req' = [req EXCEPT ![s].pc = "up.runner", ![s].ident = i, ![s].seen = n]
      PROVE  DownAllHeld(s)'
  <2>1. req'[s].kind = req[s].kind /\ req'[s].pc = "up.runner"
    BY <1>0, <1>4 DEF Request
  <2> QED
    BY <1>0, <2>1, ElsewhereDownAll DEF Building
<1> QED
  BY <1>1, <1>2, <1>3, <1>4
     DEF UpReadProvider, UpPickIdentity, UpCheckRunner, Connect, CreateConnect,
         StartConnect, Building

LEMMA CreateDownAll ==
  ASSUME EstInv, SeqInv, DownAllInv, NEW s \in Slots,
         \/ CreateReadProvider(s) \/ CreateReadDependencies(s) \/ CreateRemoveEnvoy(s)
         \/ CreateSocat(s) \/ StartSocat(s) \/ StartSocatFails(s)
         \/ CreateEnvoy(s) \/ StartEnvoy(s)
  PROVE  DownAllHeld(s)'
<1>0. /\ req \in [Slots -> Request] /\ req[s].pc \in Building
      /\ req[s].kind # "downAll"
  BY Basics
     DEF CreateReadProvider, CreateReadDependencies, CreateRemoveEnvoy, CreateSocat,
         StartSocat, StartSocatFails, CreateEnvoy, StartEnvoy, At, Building,
         DownAllInv, DownAllHeld
<1>1. CASE \E o : Answer(s, o)
  BY <1>0, <1>1, AnswerDownAll
<1>2. CASE \E l \in Building : Goto(s, l)
  BY <1>0, <1>2, GotoDownAll DEF Building
<1>3. ASSUME NEW l \in Building, NEW i, NEW n,
             \/ req' = [req EXCEPT ![s].pc = l, ![s].ident = i, ![s].target = n]
             \/ req' = [req EXCEPT ![s].pc = l, ![s].ident = i]
             \/ req' = [req EXCEPT ![s].pc = l, ![s].target = n]
      PROVE  DownAllHeld(s)'
  <2>1. req'[s].kind = req[s].kind /\ req'[s].pc = l
    BY <1>0, <1>3 DEF Request
  <2> QED
    BY <1>0, <2>1, ElsewhereDownAll DEF Building
<1>4. CASE CreateReadDependencies(s) \/ CreateRemoveEnvoy(s)
  BY <1>1, <1>3, <1>4 DEF CreateReadDependencies, CreateRemoveEnvoy, Building
<1> QED
  BY <1>1, <1>2, <1>4
     DEF CreateReadProvider, CreateSocat, StartSocat, StartSocatFails, CreateEnvoy,
         StartEnvoy, Building

LEMMA RemoveDownAll ==
  ASSUME EstInv, SeqInv, DownAllInv, NEW s \in Slots,
         \/ DownAllList(s) \/ RemoveGet(s) \/ RemoveRead(s)
         \/ RemoveEnvoy(s) \/ RemoveSocat(s) \/ Fail(s) \/ Reply(s)
  PROVE  DownAllHeld(s)'
<1>0. req \in [Slots -> Request]
  BY Basics
<1>1. CASE \E o : Answer(s, o) /\ (o # "Ok" \/ req[s].kind # "downAll")
  BY <1>0, <1>1, AnswerDownAll
<1>2. CASE Goto(s, "down.provider") \/ Goto(s, "remove.read")
  BY <1>0, <1>2, GotoDownAll DEF Building
<1>3. ASSUME NEW l \in {"remove.get", "remove.containers"}, req'[s].pc = l
      PROVE  DownAllHeld(s)'
  BY <1>3 DEF DownAllHeld, At, Building
<1>4. CASE Reply(s)
  <2>1. req'[s].pc = "idle"
    BY <1>0, <1>4 DEF Reply, Idle
  <2> QED
    BY <2>1 DEF DownAllHeld, At, Building
<1>5. CASE DownAllList(s)
  <2>1. CASE \E n : req' = [req EXCEPT ![s].pc = "remove.get", ![s].proxy = n]
    BY <1>0, <1>3, <2>1 DEF Request
  <2> QED
    BY <1>2, <1>5, <2>1 DEF DownAllList
<1>6. CASE RemoveGet(s) \/ Fail(s)
  BY <1>1, <1>2, <1>6 DEF RemoveGet, Fail
<1>7. CASE RemoveRead(s)
  <2>1. CASE \E n : req' = [req EXCEPT ![s].pc = "remove.containers", ![s].todo = n]
    BY <1>0, <1>3, <2>1 DEF Request
  <2> QED
    BY <1>1, <1>2, <1>7, <2>1 DEF RemoveRead, Removed
<1>8. CASE RemoveEnvoy(s)
  <2>1. req'[s].pc = "remove.containers"
    BY <1>0, <1>8 DEF RemoveEnvoy, At, Request
  <2> QED
    BY <1>3, <2>1
<1>9. CASE RemoveSocat(s)
  BY <1>1, <1>2, <1>9 DEF RemoveSocat, Removed
<1> QED
  BY <1>4, <1>5, <1>6, <1>7, <1>8, <1>9

(* The disconnection: the connection it removes is the provider's only one.*)
LEMMA DisconnectDownAll ==
  ASSUME EstInv, SeqInv, DownAllInv, NEW s \in Slots,
         DownReadProvider(s) \/ DisconnectList(s) \/ DisconnectRemove(s)
           \/ DisconnectTunnel(s)
  PROVE  DownAllHeld(s)'
<1>0. /\ WorldOK /\ Held(s) /\ DownAllHeld(s) /\ req \in [Slots -> Request]
      /\ containers \subseteq Container
  BY Basics DEF DownAllInv
<1>1. CASE DownReadProvider(s)
  <2>1. CASE \E o : Answer(s, o) /\ o # "Ok"
    BY <1>0, <2>1, AnswerDownAll
  <2>2. ASSUME NEW v \in Views(req[s].prov), v.ident # NoIdentity,
               req' = [req EXCEPT ![s].pc = "disconnect.list", ![s].ident = v.ident]
        PROVE  DownAllHeld(s)'
    <3>1. /\ req'[s].pc = "disconnect.list" /\ req'[s].ident = v.ident
          /\ req'[s].prov = req[s].prov /\ req'[s].kind = req[s].kind
      BY <1>0, <2>2 DEF Request
    <3>2. \E c \in OfKind("connect") : c.identity = v.ident /\ c.provider = req[s].prov
      BY <2>2, ViewMeans
    <3>3. OfKind("connect")' = OfKind("connect")
      BY <1>1 DEF DownReadProvider, OfKind
    <3> QED
      BY <3>1, <3>2, <3>3 DEF DownAllHeld, At, Building
  <2> QED
    BY <1>1, <2>1, <2>2 DEF DownReadProvider
<1>2. CASE /\ DisconnectList(s) /\ OnIdentity("connect", req[s].ident) = {}
           /\ Goto(s, "disconnect.tunnel")
  <2>1. req'[s].kind = req[s].kind /\ req'[s].pc = "disconnect.tunnel"
    BY <1>0, <1>2, GotoFields
  <2>2. req[s].kind \in Up
    BY <1>0, <1>2 DEF DisconnectList, OnIdentity, DownAllHeld, At
  <2> QED
    BY <2>1, <2>2, ElsewhereDownAll DEF Building
<1>3. ASSUME DisconnectList(s), NEW c \in OnIdentity("connect", req[s].ident),
             req' = [req EXCEPT ![s].pc = "disconnect.remove", ![s].target = c.id]
      PROVE  DownAllHeld(s)'
  <2>1. req'[s].pc = "disconnect.remove" /\ req'[s].target = c.id
    BY <1>0, <1>3 DEF Request
  <2>2. c \in OfKind("connect")'
    BY <1>3 DEF DisconnectList, OnIdentity, OfKind
  <2> QED
    BY <2>1, <2>2 DEF DownAllHeld, At, Building
<1>4. CASE DisconnectRemove(s)
  <2>1. /\ req'[s].pc = "disconnect.tunnel" /\ req'[s].kind = req[s].kind
        /\ req'[s].prov = req[s].prov /\ At(s, "disconnect.remove")
        /\ containers' = Without("connect", req[s].target)
    BY <1>0, <1>4 DEF DisconnectRemove, Request
  <2>2. req[s].kind \notin Up
    BY <1>0, <2>1 DEF Held, UpHeld
  <2>3. PICK c \in OfKind("connect") : c.id = req[s].target /\ c.provider = req[s].prov
    BY <1>0, <2>1, <2>2 DEF DownAllHeld, Held, DownHeld, At
  <2>4. ProxiesOf("connect", req[s].prov)' = {}
    <3>1. \A d \in OfKind("connect") : d.provider = req[s].prov => d = c
      BY <1>0, <2>3 DEF WorldOK, Distinct
    <3>2. \A d \in OfKind("connect")' : d \in OfKind("connect") /\ d.id # req[s].target
      BY <2>1 DEF Without, OfKind
    <3> QED
      BY <2>1, <2>3, <3>1, <3>2 DEF ProxiesOf
  <2>5. ProxiesOf("socat", req[s].prov) = {}
    BY <1>0, <2>1, <2>2 DEF Held, DownHeld, At
  <2>6. ProxiesOf("envoy", req[s].prov) = {}
    BY <1>0, <2>5 DEF WorldOK, EnvoyBehindSocat, ProxiesOf
  <2>7. OfProvider(req[s].prov)' = {}
    <3>1. containers' \subseteq containers
      BY <2>1 DEF Without
    <3>2. \A d \in containers' : d.kind \in {"connect", "socat", "envoy"}
      BY <1>0, <3>1 DEF Container
    <3>3. \A d \in containers' : d.kind = "connect" => d.provider # req[s].prov
      BY <2>1, <2>4 DEF ProxiesOf, OfKind
    <3>4. \A d \in containers' : d.kind \in {"socat", "envoy"} => d.provider # req[s].prov
      BY <2>5, <2>6, <3>1 DEF ProxiesOf, OfKind
    <3> QED
      BY <2>1, <3>2, <3>3, <3>4 DEF OfProvider
  <2> QED
    BY <2>1, <2>7 DEF DownAllHeld, At, Building
<1>5. CASE DisconnectTunnel(s)
  <2>1. containers' = containers /\ At(s, "disconnect.tunnel")
    BY <1>5 DEF DisconnectTunnel
  <2>2. CASE Goto(s, "connect") /\ req[s].kind \in Up
    BY <1>0, <2>2, GotoDownAll
  <2>3. CASE Answer(s, "Repository")
    BY <1>0, <2>3, AnswerDownAll
  <2>4. CASE Answer(s, "Ok") /\ req[s].kind \notin Up
    <3>1. /\ req'[s].pc = "done" /\ req'[s].prov = req[s].prov
      BY <1>0, <2>4 DEF Answer, Request
    <3>2. OfProvider(req[s].prov) = {}
      BY <1>0, <2>1, <2>4 DEF DownAllHeld
    <3>3. OfProvider(req[s].prov)' = {}
      BY <2>1, <3>1, <3>2 DEF OfProvider
    <3> QED
      BY <3>1, <3>3 DEF DownAllHeld, At, Building
  <2> QED
    BY <1>5, <2>2, <2>3, <2>4 DEF DisconnectTunnel, Up
<1> QED
  BY <1>1, <1>2, <1>3, <1>4, <1>5 DEF DisconnectList

LEMMA NextDownAll ==
  ASSUME OneSlot
  PROVE  EstInv /\ SeqInv /\ DownAllInv /\ [Next]_vars => DownAllInv'
<1> SUFFICES ASSUME EstInv, SeqInv, DownAllInv, [Next]_vars PROVE DownAllInv'
  OBVIOUS
<1>1. ASSUME NEW s \in Slots, Begin(s) \/ Serve(s) \/ StartSocatFails(s) \/ Fail(s)
      PROVE  DownAllInv'
  <2>1. DownAllHeld(s)'
    BY <1>1, Basics, BeginDownAll, UpDownAll, CreateDownAll, RemoveDownAll,
       DisconnectDownAll DEF Serve
  <2>2. \A t \in Slots : t = s
    BY DEF OneSlot
  <2> QED
    BY <2>1, <2>2 DEF DownAllInv
<1>2. CASE \/ \E i \in Identity : MystStop(i) \/ MystStart(i) \/ TunnelLost(i)
           \/ \E c \in containers : Entrypoint(c)
           \/ UNCHANGED vars
  <2>1. UNCHANGED <<containers, req>>
    BY <1>2 DEF MystStop, MystStart, TunnelLost, Entrypoint, vars
  <2> QED
    BY <2>1 DEF DownAllInv, DownAllHeld, At, OfKind, OfProvider
<1> QED
  BY <1>1, <1>2 DEF Next

(* "Disconnect to myst vpn provider and remove all proxy": served one      *)
(* request at a time, when the endpoint says it did, no container of the   *)
(* provider is left, whatever earlier requests left half done              *)
(* (myst-provider-proxy.service.ts, down).                                 *)
THEOREM DownAllIsComplete ==
  ASSUME OneSlot
  PROVE  Spec => []DownAllLeavesNothing
<1>1. Init => DownAllInv
  BY DEF Init, Idle, DownAllInv, DownAllHeld, At, Building
<1>2. EstInv /\ SeqInv /\ DownAllInv /\ [Next]_vars => DownAllInv'
  BY NextDownAll
<1>3. DownAllInv => DownAllLeavesNothing
  BY DEF DownAllInv, DownAllHeld, DownAllLeavesNothing
<1> QED
  BY <1>1, <1>2, <1>3, Sequentially, PTL DEF Spec

=============================================================================
