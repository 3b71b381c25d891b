------------------------- MODULE ProviderLifecycle -------------------------
(***************************************************************************)
(* VPN providers, the identities that serve them and the proxies on top.   *)
(*                                                                         *)
(* The API keeps no table of registered providers.  A provider is          *)
(* registered when a MYST_CONNECT container carries its label, a proxy     *)
(* exists when a SOCAT container does, and every request works out the     *)
(* current situation by listing containers.  No request takes a lock: each *)
(* `await` of a handler is a step here, and what the handler read before   *)
(* an await it still uses after it.                                        *)
(*                                                                         *)
(* Every identity has one MYST container, which runs the Mysterium daemon  *)
(* and holds at most one tunnel.  Creating and deleting identities is not  *)
(* part of this module.                                                    *)
(***************************************************************************)
EXTENDS Naturals, FiniteSets

CONSTANTS
  Provider,     \* provider ids of the Mysterium market
  Identity,     \* identities with a MYST container
  NoProvider,
  NoIdentity,
  Slots,        \* requests the API may be serving at the same time
  Kinds,        \* the operations the clients use
  MaxOps,       \* bound on the requests issued
  MaxFaults     \* bound on failing calls and daemon stops

AllKinds == {"up", "down", "create", "remove", "upCreate", "downAll"}

ASSUME NoneAssumption == NoProvider \notin Provider /\ NoIdentity \notin Identity
ASSUME BoundAssumption == MaxOps \in Nat /\ MaxFaults \in Nat
ASSUME KindsAssumption == Kinds \subseteq AllKinds

VARIABLES
  containers,   \* MYST_CONNECT, SOCAT and ENVOY containers known to Docker
  vpn,          \* vpn[i]: the provider the daemon of identity i is connected to
  myst,         \* myst[i]: TRUE while the MYST container of i is running
  req,          \* req[s]: the request served in slot s
  ops,          \* requests issued so far; number n names the n-th request
  faults        \* faults so far

vars == <<containers, vpn, myst, req, ops, faults>>

(* A container is named after the request that created it: a request       *)
(* creates at most one container of each kind.                             *)
Container ==
  [kind : {"connect", "socat", "envoy"}, id : 1 .. MaxOps,
   identity : Identity, provider : Provider, status : {"created", "running"}]

PCs == {"idle", "up.provider", "up.identity", "up.runner", "disconnect.list",
        "disconnect.remove", "disconnect.tunnel", "connect", "connect.create",
        "connect.start", "down.provider", "create.provider", "create.read",
        "create.removeEnvoy", "socat.create", "socat.start", "envoy.create",
        "envoy.start", "downAll.list", "remove.get", "remove.read",
        "remove.containers", "done"}

Outcomes == {"none", "Ok", "NotFound", "ProviderIdentityInUse", "NotFoundMystIdentity",
             "NotRunning", "NotConnecting", "ProxyProviderInUse",
             "TooManyProxyRegistered", "Exist", "TypeError", "Repository"}

(* What a handler holds in its local variables; `seen` is a history        *)
(* variable: the connections that were registered when the request chose   *)
(* its identity.                                                           *)
Request ==
  [pc : PCs, kind : AllKinds, op : 0 .. MaxOps, prov : Provider \cup {NoProvider},
   ident : Identity \cup {NoIdentity}, target : 0 .. MaxOps, proxy : 0 .. MaxOps,
   todo : SUBSET (1 .. MaxOps), seen : SUBSET (1 .. MaxOps), out : Outcomes]

Idle == [pc |-> "idle", kind |-> "up", op |-> 0, prov |-> NoProvider,
         ident |-> NoIdentity, target |-> 0, proxy |-> 0, todo |-> {}, seen |-> {},
         out |-> "none"]

TypeOK ==
  /\ containers \subseteq Container
  /\ vpn \in [Identity -> Provider \cup {NoProvider}]
  /\ myst \in [Identity -> BOOLEAN]
  /\ req \in [Slots -> Request]
  /\ ops \in 0 .. MaxOps
  /\ faults \in 0 .. MaxFaults

Init ==
  /\ containers = {}
  /\ vpn = [i \in Identity |-> NoProvider]
  /\ myst = [i \in Identity |-> TRUE]
  /\ req = [s \in Slots |-> Idle]
  /\ ops = 0
  /\ faults = 0

-----------------------------------------------------------------------------
(* What a request learns by listing containers.                            *)

OfKind(k) == {c \in containers : c.kind = k}
OfProvider(p) == {c \in containers : c.provider = p}
(* Mutant: Docker lists running containers only, unless asked for all.     *)
RunningOnIdentity(k, i) ==
  {c \in containers : c.kind = k /\ c.identity = i /\ c.status = "running"}

OnIdentity(k, i) == {c \in OfKind(k) : c.identity = i}
ProxiesOf(k, p) == {c \in OfKind(k) : c.provider = p}

Without(k, n) == {c \in containers : ~(c.kind = k /\ c.id = n)}
Started(k, n) == {IF c.kind = k /\ c.id = n THEN [c EXCEPT !.status = "running"] ELSE c :
                    c \in containers}
NewContainer(k, r) ==
  [kind |-> k, id |-> r.op, identity |-> r.ident, provider |-> r.prov,
   status |-> "created"]

(* The provider as getById assembles it.  The MYST runner is looked up by  *)
(* the identity label of whichever container of the provider Docker lists  *)
(* first, and the market may or may not answer for the provider: `api`.    *)
(* When it does not, the default model claims the provider is registered.  *)
ViewThrough(p, i, api) ==
  LET connected == \E c \in OnIdentity("connect", i) : c.provider = p
  IN  [found |-> TRUE,
       reg   |-> connected \/ ~api,
       ident |-> IF connected THEN i ELSE NoIdentity,
       busy  |-> connected /\ ProxiesOf("socat", p) # {}]

Views(p) ==
  IF OfProvider(p) = {}
  THEN {[found |-> api, reg |-> FALSE, ident |-> NoIdentity, busy |-> FALSE] :
          api \in BOOLEAN}
  ELSE {ViewThrough(p, c.identity, api) : c \in OfProvider(p), api \in BOOLEAN}

(* Mutant: the identities are not filtered by their use.                   *)
AllIdentities == Identity

FreeIdentities == {i \in Identity : OnIdentity("connect", i) = {}}

-----------------------------------------------------------------------------
(* Control flow of a request.                                              *)

At(s, l) == req[s].pc = l
Goto(s, l) == req' = [req EXCEPT ![s].pc = l]
Answer(s, o) == req' = [req EXCEPT ![s].pc = "done", ![s].out = o]

Entry == [up |-> "up.provider", upCreate |-> "up.provider", down |-> "down.provider",
          downAll |-> "downAll.list", create |-> "create.provider",
          remove |-> "remove.get"]

(* A client calls an endpoint; a proxy is removed by its id.               *)
Begin(s) ==
  /\ At(s, "idle")
  /\ ops < MaxOps
  /\ ops' = ops + 1
  /\ \/ \E k \in Kinds \ {"remove"}, p \in Provider :
          req' = [req EXCEPT ![s] = [Idle EXCEPT !.pc = Entry[k], !.kind = k,
                                                 !.op = ops + 1, !.prov = p]]
     \/ \E c \in OfKind("socat") :
          /\ "remove" \in Kinds
          /\ req' = [req EXCEPT ![s] = [Idle EXCEPT !.pc = Entry["remove"],
                                                    !.kind = "remove", !.op = ops + 1,
                                                    !.proxy = c.id]]
  /\ UNCHANGED <<containers, vpn, myst, faults>>

(* The response is sent.                                                   *)
Reply(s) ==
  /\ At(s, "done")
  /\ req' = [req EXCEPT ![s] = Idle]
  /\ UNCHANGED <<containers, vpn, myst, ops, faults>>

-----------------------------------------------------------------------------
(* MystProviderService.up                                                  *)

UpReadProvider(s) ==
  /\ At(s, "up.provider")
  /\ \E v \in Views(req[s].prov) :
       IF ~v.found THEN Answer(s, "NotFound")
       ELSE IF v.reg THEN Answer(s, "ProviderIdentityInUse")
       ELSE Goto(s, "up.identity")
  /\ UNCHANGED <<containers, vpn, myst, ops, faults>>

UpPickIdentity(s) ==
  /\ At(s, "up.identity")
  /\ \/ FreeIdentities = {} /\ Answer(s, "NotFoundMystIdentity")
     \/ \E i \in FreeIdentities :
          req' = [req EXCEPT ![s].pc = "up.runner", ![s].ident = i,
                             ![s].seen = {c.id : c \in OfKind("connect")}]
  /\ UNCHANGED <<containers, vpn, myst, ops, faults>>

UpCheckRunner(s) ==
  /\ At(s, "up.runner")
  /\ IF myst[req[s].ident] THEN Goto(s, "disconnect.list") ELSE Answer(s, "NotRunning")
  /\ UNCHANGED <<containers, vpn, myst, ops, faults>>

(* Mutant: nothing is listed, so there is nothing to disconnect.           *)
DisconnectListed(s) ==
  /\ At(s, "disconnect.list")
  /\ LET listed == OnIdentity("connect", req[s].ident)
     IN  \/ listed = {} /\ Goto(s, "connect")
         \/ \E c \in listed :
              req' = [req EXCEPT ![s].pc = "disconnect.remove", ![s].target = c.id]
  /\ UNCHANGED <<containers, vpn, myst, ops, faults>>

(* disconnect(runner, force): only the first connection of the identity is *)
(* removed, and the list is read before the removal.                       *)
DisconnectList(s) ==
  /\ At(s, "disconnect.list")
  /\ LET listed == OnIdentity("connect", req[s].ident)
     IN  \/ listed = {} /\ Goto(s, "disconnect.tunnel")
         \/ \E c \in listed :
              req' = [req EXCEPT ![s].pc = "disconnect.remove", ![s].target = c.id]
  /\ UNCHANGED <<containers, vpn, myst, ops, faults>>

DisconnectRemove(s) ==
  /\ At(s, "disconnect.remove")
  /\ containers' = Without("connect", req[s].target)
  /\ req' = [req EXCEPT ![s].pc = "disconnect.tunnel", ![s].target = 0]
  /\ UNCHANGED <<vpn, myst, ops, faults>>

DisconnectTunnel(s) ==
  /\ At(s, "disconnect.tunnel")
  /\ IF myst[req[s].ident]
     THEN /\ vpn' = [vpn EXCEPT ![req[s].ident] = NoProvider]
          /\ IF req[s].kind \in {"up", "upCreate"} THEN Goto(s, "connect")
                                                   ELSE Answer(s, "Ok")
     ELSE Answer(s, "Repository") /\ UNCHANGED vpn
  /\ UNCHANGED <<containers, myst, ops, faults>>

(* The tunnel first, its container afterwards.                             *)
Connect(s) ==
  LET i == req[s].ident IN
  /\ At(s, "connect")
  /\ \/ ~myst[i] /\ Answer(s, "Repository") /\ UNCHANGED vpn
     \/ /\ myst[i] /\ vpn[i] # NoProvider
        /\ Answer(s, "ProviderIdentityInUse") /\ UNCHANGED vpn
     \/ /\ myst[i] /\ vpn[i] = NoProvider
        /\ vpn' = [vpn EXCEPT ![i] = req[s].prov]
        /\ Goto(s, "connect.create")
  /\ UNCHANGED <<containers, myst, ops, faults>>

(* The container is named after the provider and joins the network of the  *)
(* running MYST container.                                                 *)
CreateConnect(s) ==
  /\ At(s, "connect.create")
  /\ \/ ~myst[req[s].ident] /\ Answer(s, "NotRunning") /\ UNCHANGED containers
     \/ /\ myst[req[s].ident]
        /\ IF ProxiesOf("connect", req[s].prov) # {}
           THEN Answer(s, "Repository") /\ UNCHANGED containers
           ELSE /\ containers' = containers \cup {NewContainer("connect", req[s])}
                /\ Goto(s, "connect.start")
  /\ UNCHANGED <<vpn, myst, ops, faults>>

StartConnect(s) ==
  /\ At(s, "connect.start")
  /\ \/ ~myst[req[s].ident] /\ Answer(s, "Repository") /\ UNCHANGED containers
     \/ /\ myst[req[s].ident]
        /\ containers' = Started("connect", req[s].op)
        /\ IF req[s].kind = "up" THEN Answer(s, "Ok") ELSE Goto(s, "create.provider")
  /\ UNCHANGED <<vpn, myst, ops, faults>>

-----------------------------------------------------------------------------
(* MystProviderService.down; the disconnection is the one above.           *)

(* Mutant: the proxies are not counted.                                    *)
DownIgnoringProxies(s) ==
  /\ At(s, "down.provider")
  /\ \E v \in Views(req[s].prov) :
       IF v.ident = NoIdentity THEN Answer(s, "NotConnecting")
       ELSE req' = [req EXCEPT ![s].pc = "disconnect.list", ![s].ident = v.ident]
  /\ UNCHANGED <<containers, vpn, myst, ops, faults>>

DownReadProvider(s) ==
  /\ At(s, "down.provider")
  /\ \E v \in Views(req[s].prov) :
       IF ~v.found THEN Answer(s, "NotFound")
       ELSE IF v.ident = NoIdentity THEN Answer(s, "NotConnecting")
       ELSE IF v.busy THEN Answer(s, "ProxyProviderInUse")
       ELSE IF ~myst[v.ident] THEN Answer(s, "NotRunning")
       ELSE req' = [req EXCEPT ![s].pc = "disconnect.list", ![s].ident = v.ident]
  /\ UNCHANGED <<containers, vpn, myst, ops, faults>>

-----------------------------------------------------------------------------
(* ProxyService.create                                                     *)

CreateReadProvider(s) ==
  /\ At(s, "create.provider")
  /\ \E v \in Views(req[s].prov) :
       IF ~v.found THEN Answer(s, "NotFound")
       ELSE IF ~v.reg THEN Answer(s, "NotConnecting")
       ELSE IF v.busy THEN Answer(s, "TooManyProxyRegistered")
       ELSE Goto(s, "create.read")
  /\ UNCHANGED <<containers, vpn, myst, ops, faults>>

(* The containers of the provider and the provider itself, once more.      *)
CreateReadDependencies(s) ==
  LET envoys == ProxiesOf("envoy", req[s].prov)
      socats == ProxiesOf("socat", req[s].prov) IN
  /\ At(s, "create.read")
  /\ \E v \in Views(req[s].prov) :
       \/ envoys # {} /\ socats # {} /\ Answer(s, "Exist")
       \/ /\ envoys # {} /\ socats = {}
          /\ \E e \in envoys :
               req' = [req EXCEPT ![s].pc = "create.removeEnvoy", ![s].ident = v.ident,
                                  ![s].target = e.id]
       \/ /\ envoys = {}
          /\ req' = [req EXCEPT ![s].pc = "socat.create", ![s].ident = v.ident]
  /\ UNCHANGED <<containers, vpn, myst, ops, faults>>

CreateRemoveEnvoy(s) ==
  /\ At(s, "create.removeEnvoy")
  /\ containers' = Without("envoy", req[s].target)
  /\ req' = [req EXCEPT ![s].pc = "socat.create", ![s].target = 0]
  /\ UNCHANGED <<vpn, myst, ops, faults>>

(* Mutant: the runner read before is taken to be there.                    *)
CreateSocatUnchecked(s) ==
  /\ At(s, "socat.create")
  /\ containers' = containers \cup {NewContainer("socat", req[s])}
  /\ Goto(s, "socat.start")
  /\ UNCHANGED <<vpn, myst, ops, faults>>

(* Both proxy containers are named after the identity.  A provider without *)
(* a runner makes the handler throw.                                       *)
CreateSocat(s) ==
  LET i == req[s].ident IN
  /\ At(s, "socat.create")
  /\ \/ i = NoIdentity /\ Answer(s, "TypeError") /\ UNCHANGED containers
     \/ /\ i # NoIdentity
        /\ \/ ~myst[i] /\ Answer(s, "NotRunning") /\ UNCHANGED containers
           \/ /\ myst[i] /\ OnIdentity("socat", i) # {}
              /\ Answer(s, "Repository") /\ UNCHANGED containers
           \/ /\ myst[i] /\ OnIdentity("socat", i) = {}
              /\ containers' = containers \cup {NewContainer("socat", req[s])}
              /\ Goto(s, "socat.start")
  /\ UNCHANGED <<vpn, myst, ops, faults>>

StartSocat(s) ==
  /\ At(s, "socat.start")
  /\ containers' = Started("socat", req[s].op)
  /\ Goto(s, "envoy.create")
  /\ UNCHANGED <<vpn, myst, ops, faults>>

(* A start that fails is cleaned up, unless the clean-up fails as well or  *)
(* the container failed on its address: the second try then stops at the   *)
(* name the first one still holds, and that error removes nothing.         *)
StartSocatFails(s) ==
  /\ At(s, "socat.start")
  /\ faults < MaxFaults
  /\ faults' = faults + 1
  /\ \/ containers' = Without("socat", req[s].op)
     \/ UNCHANGED containers
  /\ Answer(s, "Repository")
  /\ UNCHANGED <<vpn, myst, ops>>

CreateEnvoy(s) ==
  LET i == req[s].ident IN
  /\ At(s, "envoy.create")
  /\ \/ ~myst[i] /\ Answer(s, "NotRunning") /\ UNCHANGED containers
     \/ /\ myst[i] /\ OnIdentity("envoy", i) # {}
        /\ Answer(s, "Repository") /\ UNCHANGED containers
     \/ /\ myst[i] /\ OnIdentity("envoy", i) = {}
        /\ containers' = containers \cup {NewContainer("envoy", req[s])}
        /\ Goto(s, "envoy.start")
  /\ UNCHANGED <<vpn, myst, ops, faults>>

StartEnvoy(s) ==
  /\ At(s, "envoy.start")
  /\ containers' = Started("envoy", req[s].op)
  /\ Answer(s, "Ok")
  /\ UNCHANGED <<vpn, myst, ops, faults>>

-----------------------------------------------------------------------------
(* MystProviderProxyService.down and ProxyService.remove                   *)

(* The proxies are found by the provider of their ENVOY, so a SOCAT whose  *)
(* ENVOY is missing is not among them; of several SOCATs only one is.      *)
ListedProxies(p) == IF ProxiesOf("envoy", p) = {} THEN {} ELSE ProxiesOf("socat", p)

DownAllList(s) ==
  LET listed == ListedProxies(req[s].prov) IN
  /\ At(s, "downAll.list")
  /\ \/ listed = {} /\ Goto(s, "down.provider")
     \/ \E c \in listed :
          req' = [req EXCEPT ![s].pc = "remove.get", ![s].proxy = c.id]
  /\ UNCHANGED <<containers, vpn, myst, ops, faults>>

(* Merging a proxy throws when its MYST runner is not the one getById      *)
(* found, the ENVOY runs and the provider has a connection.                *)
MergeThrows(c, v) ==
  /\ v.ident # c.identity
  /\ ProxiesOf("connect", c.provider) # {}
  /\ \E e \in ProxiesOf("envoy", c.provider) : e.status = "running"

RemoveGet(s) ==
  LET found == {c \in OfKind("socat") : c.id = req[s].proxy} IN
  /\ At(s, "remove.get")
  /\ \/ found = {} /\ Answer(s, "NotFound")
     \/ \E c \in found : \E v \in Views(c.provider) :
          IF MergeThrows(c, v) THEN Answer(s, "TypeError") ELSE Goto(s, "remove.read")
  /\ UNCHANGED <<containers, vpn, myst, ops, faults>>

(* Mutant: removing the proxies is all "downAll" does.                     *)
RemovedOnly(s) == Answer(s, "Ok")

(* The end of a removal: the answer, or the next step of "downAll".        *)
Removed(s) ==
  IF req[s].kind = "remove" THEN Answer(s, "Ok") ELSE Goto(s, "down.provider")

RemoveRead(s) ==
  LET found == {c \in OfKind("socat") : c.id = req[s].proxy} IN
  /\ At(s, "remove.read")
  /\ \/ found = {} /\ Removed(s)
     \/ \E c \in found :
          req' = [req EXCEPT ![s].pc = "remove.containers",
                             ![s].todo = {e.id : e \in ProxiesOf("envoy", c.provider)}]
  /\ UNCHANGED <<containers, vpn, myst, ops, faults>>

RemoveEnvoy(s) ==
  /\ At(s, "remove.containers")
  /\ \E n \in req[s].todo :
       /\ containers' = Without("envoy", n)
       /\ req' = [req EXCEPT ![s].todo = @ \ {n}]
  /\ UNCHANGED <<vpn, myst, ops, faults>>

(* Mutant: the SOCAT is removed without waiting for its ENVOYs.            *)
RemoveSocatFirst(s) ==
  /\ At(s, "remove.containers")
  /\ containers' = Without("socat", req[s].proxy)
  /\ Removed(s)
  /\ UNCHANGED <<vpn, myst, ops, faults>>

RemoveSocat(s) ==
  /\ At(s, "remove.containers")
  /\ req[s].todo = {}
  /\ containers' = Without("socat", req[s].proxy)
  /\ Removed(s)
  /\ UNCHANGED <<vpn, myst, ops, faults>>

-----------------------------------------------------------------------------
(* Failures and the containers' own behaviour.                             *)

(* A call to Docker, to the daemon or to the market fails, or the API      *)
(* process dies: the handler ends where it is and undoes nothing.          *)
Fail(s) ==
  /\ req[s].pc \notin {"idle", "done", "socat.start"}
  /\ faults < MaxFaults
  /\ faults' = faults + 1
  /\ Answer(s, "Repository")
  /\ UNCHANGED <<containers, vpn, myst, ops>>

(* The daemon of an identity stops and its tunnel is gone; Docker's        *)
(* restart policy starts it again.                                         *)
MystStop(i) ==
  /\ myst[i]
  /\ faults < MaxFaults
  /\ faults' = faults + 1
  /\ myst' = [myst EXCEPT ![i] = FALSE]
  /\ vpn' = [vpn EXCEPT ![i] = NoProvider]
  /\ UNCHANGED <<containers, req, ops>>

MystStart(i) ==
  /\ ~myst[i]
  /\ myst' = [myst EXCEPT ![i] = TRUE]
  /\ UNCHANGED <<containers, vpn, req, ops, faults>>

(* The script in the MYST_CONNECT container finds the daemon unconnected   *)
(* and connects it; a daemon that is connected it leaves alone.  Module    *)
(* MystConnect has the script itself.                                      *)
Entrypoint(c) ==
  /\ c.kind = "connect" /\ c.status = "running"
  /\ myst[c.identity] /\ vpn[c.identity] = NoProvider
  /\ vpn' = [vpn EXCEPT ![c.identity] = c.provider]
  /\ UNCHANGED <<containers, myst, req, ops, faults>>

(* The tunnel ends while its daemon runs, or the script gives it up        *)
(* because its traffic leaves from the address of the host.                *)
TunnelLost(i) ==
  /\ vpn[i] # NoProvider
  /\ vpn' = [vpn EXCEPT ![i] = NoProvider]
  /\ UNCHANGED <<containers, myst, req, ops, faults>>

-----------------------------------------------------------------------------

Serve(s) ==
  \/ UpReadProvider(s) \/ UpPickIdentity(s) \/ UpCheckRunner(s)
  \/ DisconnectList(s) \/ DisconnectRemove(s) \/ DisconnectTunnel(s)
  \/ Connect(s) \/ CreateConnect(s) \/ StartConnect(s)
  \/ DownReadProvider(s)
  \/ CreateReadProvider(s) \/ CreateReadDependencies(s) \/ CreateRemoveEnvoy(s)
  \/ CreateSocat(s) \/ StartSocat(s) \/ CreateEnvoy(s) \/ StartEnvoy(s)
  \/ DownAllList(s) \/ RemoveGet(s) \/ RemoveRead(s)
  \/ RemoveEnvoy(s) \/ RemoveSocat(s)
  \/ Reply(s)

Next ==
  \/ \E s \in Slots : Begin(s) \/ Serve(s) \/ StartSocatFails(s) \/ Fail(s)
  \/ \E i \in Identity : MystStop(i) \/ MystStart(i) \/ TunnelLost(i)
  \/ \E c \in containers : Entrypoint(c)

Spec == Init /\ [][Next]_vars

-----------------------------------------------------------------------------
(* Safety when requests come one at a time (Slots a singleton), whatever   *)
(* calls fail and whenever the process dies.                               *)

(* No identity serves two providers: `up` takes an identity that has no    *)
(* connection and a failed request never leaves one behind unnoticed       *)
(* (myst-provider.service.ts, up).                                         *)
NoSharedIdentity ==
  \A c, d \in OfKind("connect") : c.identity = d.identity => c = d

(* A proxy stands on the connection it was made for: `down` refuses while  *)
(* a SOCAT is counted, so no sequence of half-done creations and removals  *)
(* takes the connection away from under a proxy.                           *)
ProxyHasConnection ==
  \A x \in OfKind("socat") :
    \E c \in OfKind("connect") : c.identity = x.identity /\ c.provider = x.provider

(* There is never an ENVOY without its SOCAT: the creation makes the SOCAT *)
(* first and the removal removes it last, so the entry that clients and    *)
(* `down` see outlives what hides behind it.                               *)
EnvoyBehindSocat ==
  \A e \in OfKind("envoy") :
    \E x \in OfKind("socat") : x.identity = e.identity /\ x.provider = e.provider

(* The daemon never carries the traffic of a registered provider over the  *)
(* tunnel of another one.                                                  *)
NoHijack ==
  \A c \in OfKind("connect") : vpn[c.identity] \in {c.provider, NoProvider}

(* The forced disconnection reclaims tunnels that earlier requests left    *)
(* open when they failed between connecting and creating the container:    *)
(* `connect` is never refused for a tunnel that exists.                    *)
ConnectFindsNoTunnel ==
  \A s \in Slots : At(s, "connect") => vpn[req[s].ident] = NoProvider

(* "Disconnect to myst vpn provider and remove all proxy": when the        *)
(* endpoint says it did, no container of the provider is left and no       *)
(* identity is connected to it through one.                                *)
DownAllLeavesNothing ==
  \A s \in Slots :
    At(s, "done") /\ req[s].kind = "downAll" /\ req[s].out = "Ok"
      => OfProvider(req[s].prov) = {}

(* The same endpoint should not refuse because of the proxies it is meant  *)
(* to remove.  (It does, after a creation that failed at its ENVOY.)       *)
DownAllNotStoppedByProxies ==
  \A s \in Slots :
    At(s, "done") /\ req[s].kind = "downAll" => req[s].out # "ProxyProviderInUse"

-----------------------------------------------------------------------------
(* Forgetting containers, tunnels and requests leaves the leases.          *)
Lease == INSTANCE ProviderLease WITH
  leases  <- {<<c.identity, c.provider>> : c \in OfKind("connect")},
  proxied <- {<<x.identity, x.provider>> : x \in OfKind("socat")}

(* Served one request at a time, the containers implement the leases: each *)
(* step of a handler, each fault and each restart is a lease operation or  *)
(* nothing at all.                                                         *)
ImplementsLease == Lease!LeaseSpec

-----------------------------------------------------------------------------
(* Safety under any number of concurrent requests.                         *)

(* `up` picks a free identity first and tears its connection down later,   *)
(* by a list it reads again.  Whatever the interleaving, the teardown only *)
(* hits connections registered since the choice: one that was established  *)
(* when `up` chose keeps its container and its tunnel.                     *)
Allocating(s) ==
  /\ req[s].kind \in {"up", "upCreate"}
  /\ req[s].pc \in {"disconnect.remove", "disconnect.tunnel", "connect"}

Established(s) == {c \in OfKind("connect") : c.id \in req[s].seen}

EstablishedSurvivesUp ==
  [][\A s \in Slots : Allocating(s) /\ req'[s] # req[s] =>
       \A c \in Established(s) : c \in containers' /\ vpn'[c.identity] = vpn[c.identity]]_vars

(* "Should error disconnect from vpn when the list of proxy run on         *)
(* provider": `down` does not take the connection from under a proxy.  (It *)
(* does: the count it checks is read before the proxy is created.)         *)
DownSparesProxiedProvider ==
  \A s \in Slots :
    req[s].kind \in {"down", "downAll"} /\ At(s, "disconnect.remove")
      => ProxiesOf("socat", req[s].prov) = {}

=============================================================================
