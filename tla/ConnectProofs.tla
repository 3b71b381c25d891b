---------------------------- MODULE ConnectProofs ----------------------------
(***************************************************************************)
(* The scripts of the MYST_CONNECT containers and what restarts them are,  *)
(* to the requests, the steps of ProviderLifecycle that stand for them.    *)
(***************************************************************************)
EXTENDS MystConnect, ProviderProofs, TLAPS

(* What a script, a dial or a lapse does to the state the requests see:    *)
(* nothing, or it connects a daemon for a running connection, or it gives  *)
(* a tunnel up.                                                            *)
LEMMA ScriptStepMaps ==
  ASSUME vpn \in [Identity -> Provider \cup {NoProvider}],
         NEW c \in containers, ScriptStep(c), c.identity \in Identity
  PROVE  Next \/ UNCHANGED vars
<1>1. CASE CheckConnected(c) \/ CompareAddress(c) \/ LoseDaemon(c)
  BY <1>1 DEF CheckConnected, CompareAddress, LoseDaemon
<1>2. CASE DropConnection(c)
  <2>1. CASE vpn[c.identity] = NoProvider
    <3>1. vpn' = vpn
      BY <1>2, <2>1 DEF DropConnection
    <3> QED
      BY <1>2, <3>1 DEF DropConnection, vars
  <2>2. CASE vpn[c.identity] # NoProvider
    BY <1>2, <2>2 DEF DropConnection, TunnelLost, Next
  <2> QED
    BY <2>1, <2>2
<1>3. CASE ConnectVpn(c)
  <2>1. CASE vpn[c.identity] = NoProvider
    <3>1. Entrypoint(c)
      BY <1>3, <2>1 DEF ConnectVpn, Entrypoint, ScriptAt, Reaches
    <3> QED
      BY <3>1 DEF Next
  <2>2. CASE vpn[c.identity] # NoProvider
    BY <1>3, <2>2 DEF ConnectVpn, vars
  <2> QED
    BY <2>1, <2>2
<1> QED
  BY <1>1, <1>2, <1>3 DEF ScriptStep

LEMMA DaemonStepMaps ==
  ASSUME vpn \in [Identity -> Provider \cup {NoProvider}], NEW i \in Identity,
         DialSucceeds(i) \/ DialFails(i) \/ TunnelDrops(i) \/ TunnelLeaks(i)
  PROVE  Next \/ UNCHANGED vars
<1>1. CASE DialSucceeds(i) \/ TunnelLeaks(i)
  BY <1>1 DEF DialSucceeds, TunnelLeaks
<1>2. CASE DialFails(i) \/ TunnelDrops(i)
  <2>1. /\ vpn' = [vpn EXCEPT ![i] = NoProvider]
        /\ UNCHANGED <<containers, myst, req, ops, faults>>
    BY <1>2 DEF DialFails, TunnelDrops
  <2>2. CASE vpn[i] = NoProvider
    <3>1. vpn' = vpn
      BY <2>1, <2>2
    <3> QED
      BY <2>1, <3>1 DEF vars
  <2>3. CASE vpn[i] # NoProvider
    BY <2>1, <2>3 DEF TunnelLost, Next
  <2> QED
    BY <2>2, <2>3
<1> QED
  BY <1>1, <1>2

(* Every step is a step of ProviderLifecycle, or leaves its variables      *)
(* alone.                                                                  *)
LEMMA StepMaps ==
  ASSUME TypeOK, [ConnectNext]_allVars
  PROVE  [Next]_vars
<1>1. vpn \in [Identity -> Provider \cup {NoProvider}]
  BY DEF TypeOK
<1>2. ASSUME NEW s \in Slots, RequestStep(s) PROVE Next
  BY <1>2 DEF RequestStep, Next
<1>3. ASSUME NEW i \in Identity, DaemonStops(i) \/ MystStart(i) PROVE Next
  BY <1>3 DEF DaemonStops, Next
<1>4. ASSUME NEW c \in containers, RestartPolicy(c) \/ Autoheal(c) PROVE UNCHANGED vars
  BY <1>4 DEF RestartPolicy, Autoheal
<1>5. ASSUME NEW c \in containers PROVE c.identity \in Identity
  BY <1>5 DEF TypeOK, Container
<1>6. CASE UNCHANGED allVars
  BY <1>6 DEF allVars
<1> QED
  BY <1>1, <1>2, <1>3, <1>4, <1>5, <1>6, ScriptStepMaps, DaemonStepMaps DEF ConnectNext

(* For all numbers of providers, identities, requests, faults and lapses   *)
(* the scripts, the restarts and the daemons do nothing the requests do    *)
(* not expect of them (docker-entrypoint.sh, docker-healcheck.sh).         *)
THEOREM ScriptsImplementLifecycle == ConnectSpec => ImplementsLifecycle
<1>1. ConnectInit => Init /\ TypeInv
  BY InitTypeInv DEF ConnectInit
<1>2. TypeInv /\ [ConnectNext]_allVars => [Next]_vars
  BY StepMaps DEF TypeInv
<1>3. TypeInv /\ [ConnectNext]_allVars => TypeInv'
  BY <1>2, NextTypeInv
<1> QED
  BY <1>1, <1>2, <1>3, PTL DEF ConnectSpec, ImplementsLifecycle, Spec

(* So a connection that was there when `up` chose its identity is spared   *)
(* by `up`, with all scripts running                                       *)
(* (myst-provider.service.ts, up).                                         *)
COROLLARY EstablishedIsSparedWithScripts == ConnectSpec => EstablishedSurvivesUp
<1>1. ConnectSpec => Spec
  BY ScriptsImplementLifecycle DEF ImplementsLifecycle
<1> QED
  BY <1>1, EstablishedIsSpared, PTL

-----------------------------------------------------------------------------
(* What the script takes down.  Between the comparison of the addresses    *)
(* and the disconnection it decided on, the daemon must not have got a     *)
(* tunnel that works.  Who could give it one: another script, but an       *)
(* identity has one connection (NoSharedIdentity) and a container one      *)
(* script; or `up`, but it connects on an identity that has no connection  *)
(* (UpHeld).  That needs one request at a time.                            *)

LinksOK ==
  /\ script \in [1 .. MaxOps -> Script]
  /\ link \in [Identity -> Links]
  /\ lapses \in Nat
  /\ \A i \in Identity : vpn[i] = NoProvider => link[i] = "none"

(* What the daemon can be doing while a script with this state asks it.    *)
Judged(c, sc, l) ==
  c.kind = "connect" /\ c.status = "running" =>
    /\ sc.pc = "compare" => l # "dialing"
    /\ sc.pc = "drop" => l \in {"leaking", "none"}

TunnelInv ==
  LinksOK /\ \A c \in containers : Judged(c, script[c.id], link[c.identity])

(* Containers as TypeOK knows them, with one connection per number and per *)
(* identity.                                                               *)
LEMMA OneConnection ==
  ASSUME EstInv, SeqInv
  PROVE  /\ \A c \in containers : c.id \in 1 .. MaxOps /\ c.identity \in Identity
                                  /\ c.provider \in Provider
         /\ \A c, d \in containers :
              c.kind = "connect" /\ d.kind = "connect"
              /\ (c.id = d.id \/ c.identity = d.identity) => c = d
<1>1. containers \subseteq Container
  BY DEF EstInv, TypeInv, TypeOK
<1>2. WorldOK
  BY DEF SeqInv
<1> QED
  BY <1>1, <1>2 DEF Container, WorldOK, NoSharedIdentity, Distinct, OfKind

(* A call of a handler gives an identity a tunnel where nobody is          *)
(* connected, or takes one away, or changes no tunnel.                     *)
LEMMA CallsOnTunnels ==
  ASSUME EstInv, SeqInv, NEW s \in Slots, RequestStep(s), vpn' # vpn
  PROVE  /\ containers' = containers /\ req' # req
         /\ \E i \in Identity, p \in Provider \cup {NoProvider} :
              /\ vpn' = [vpn EXCEPT ![i] = p]
              /\ p = NoProvider \/ OnIdentity("connect", i) = {}
<1>1. /\ req \in [Slots -> Request] /\ Held(s) /\ TypeInv
      /\ vpn \in [Identity -> Provider \cup {NoProvider}]
  BY Basics
<1>2. RequestOK
  BY <1>1 DEF TypeInv
<1>3. DisconnectTunnel(s) \/ Connect(s)
  BY DEF RequestStep, Serve, Begin, Fail, StartSocatFails, UpReadProvider, UpPickIdentity,
         UpCheckRunner, DisconnectList, DisconnectRemove, CreateConnect, StartConnect,
         DownReadProvider, CreateReadProvider, CreateReadDependencies, CreateRemoveEnvoy,
         CreateSocat, StartSocat, CreateEnvoy, StartEnvoy, DownAllList, RemoveGet,
         RemoveRead, RemoveEnvoy, RemoveSocat, Reply
<1>4. CASE DisconnectTunnel(s)
  <2>1. At(s, "disconnect.tunnel") /\ req[s].ident \in Identity
    BY <1>2, <1>4 DEF DisconnectTunnel, At, RequestOK, HoldsIdentity
  <2>2. vpn' = [vpn EXCEPT ![req[s].ident] = NoProvider] /\ containers' = containers
    BY <1>4 DEF DisconnectTunnel
  <2>3. req'[s].pc \in {"connect", "done"}
    BY <1>1, <1>4, GotoFields, AnswerRests DEF DisconnectTunnel
  <2> QED
    BY <2>1, <2>2, <2>3 DEF At
<1>5. CASE Connect(s)
  <2>1. At(s, "connect") /\ req[s].ident \in Identity
    BY <1>2, <1>5 DEF Connect, At, RequestOK, HoldsIdentity
  <2>2. req[s].prov \in Provider \cup {NoProvider}
    BY <1>1 DEF Request
  <2>3. OnIdentity("connect", req[s].ident) = {}
    BY <1>1, <2>1 DEF Held, UpHeld, Reserving, At
  <2>4. vpn' = [vpn EXCEPT ![req[s].ident] = req[s].prov] /\ containers' = containers
    BY <1>5 DEF Connect
  <2>5. req'[s].pc \in {"connect.create", "done"}
    BY <1>1, <1>5, GotoFields, AnswerRests DEF Connect
  <2> QED
    BY <2>1, <2>2, <2>3, <2>4, <2>5 DEF At
<1> QED
  BY <1>3, <1>4, <1>5

(* A connection that a call leaves running ran before under the same       *)
(* number, or its script is a new one.                                     *)
LEMMA CallsOnScripts ==
  ASSUME EstInv, SeqInv, NEW s \in Slots, RequestStep(s), Follow, NEW c \in containers',
         c.kind = "connect", c.status = "running"
  PROVE  \/ c \in containers /\ script'[c.id] = script[c.id]
         \/ script'[c.id] = Fresh
<1>1. containers \subseteq Container /\ containers' \subseteq Container
  <2>1. TypeInv
    BY DEF EstInv
  <2>2. Next
    BY DEF RequestStep, Next
  <2> QED
    BY <2>1, <2>2, NextTypeInv DEF TypeInv, TypeOK
<1>2. c.id \in 1 .. MaxOps
  BY <1>1 DEF Container
<1>3. c.id \in RunningConnects'
  BY DEF RunningConnects, OfKind
<1>4. CASE c.id \notin RunningConnects
  BY <1>2, <1>3, <1>4 DEF Follow
<1>5. CASE c.id \in RunningConnects
  <2>1. script'[c.id] = script[c.id]
    BY <1>2, <1>3, <1>5 DEF Follow
  <2>2. PICK d \in containers : d.kind = "connect" /\ d.status = "running" /\ d.id = c.id
    BY <1>5 DEF RunningConnects, OfKind
  <2>3. CASE containers' \subseteq containers
    BY <2>1, <2>3
  <2>4. ASSUME NEW k, NEW r, containers' = containers \cup {NewContainer(k, r)}
        PROVE  c \in containers
    BY <2>4 DEF NewContainer
  <2>5. ASSUME NEW k, NEW n, containers' = Started(k, n)
        PROVE  c \in containers
    <3>1. PICK e \in containers : /\ c.id = e.id
                 /\ c = IF e.kind = k /\ e.id = n THEN [e EXCEPT !.status = "running"] ELSE e
      <4>1. c \in OfKind("connect")'
        BY DEF OfKind
      <4> QED
        BY <1>1, <2>5, <4>1, StartedAlike DEF OfKind
    <3>2. e.kind = "connect" /\ e.id = d.id
      BY <1>1, <2>2, <3>1 DEF Container
    <3>3. e = d
      BY <2>2, <3>2, OneConnection
    <3> QED
      BY <1>1, <2>2, <3>1, <3>3 DEF Container
  <2>6. \/ containers' \subseteq containers
        \/ \E k, r : containers' = containers \cup {NewContainer(k, r)}
        \/ \E k, n : containers' = Started(k, n)
    <3>1. ASSUME NEW k, NEW n, containers' = Without(k, n) PROVE containers' \subseteq containers
      BY <3>1 DEF Without
    <3>2. CASE Begin(s) \/ Fail(s) \/ StartSocatFails(s)
      BY <3>1, <3>2 DEF Begin, Fail, StartSocatFails
    <3>3. CASE UpReadProvider(s) \/ UpPickIdentity(s) \/ UpCheckRunner(s)
               \/ DisconnectList(s) \/ DisconnectTunnel(s) \/ Connect(s)
               \/ DownReadProvider(s) \/ CreateReadProvider(s) \/ CreateReadDependencies(s)
               \/ DownAllList(s) \/ RemoveGet(s) \/ RemoveRead(s) \/ Reply(s)
      BY <3>3
         DEF UpReadProvider, UpPickIdentity, UpCheckRunner, DisconnectList,
             DisconnectTunnel, Connect, DownReadProvider, CreateReadProvider,
             CreateReadDependencies, DownAllList, RemoveGet, RemoveRead, Reply
    <3>4. CASE DisconnectRemove(s) \/ CreateRemoveEnvoy(s) \/ RemoveEnvoy(s) \/ RemoveSocat(s)
      BY <3>1, <3>4 DEF DisconnectRemove, CreateRemoveEnvoy, RemoveEnvoy, RemoveSocat
    <3>5. CASE CreateConnect(s) \/ CreateSocat(s) \/ CreateEnvoy(s)
      BY <3>5 DEF CreateConnect, CreateSocat, CreateEnvoy
    <3>6. CASE StartConnect(s) \/ StartSocat(s) \/ StartEnvoy(s)
      BY <3>6 DEF StartConnect, StartSocat, StartEnvoy
    <3> QED
      BY <3>2, <3>3, <3>4, <3>5, <3>6 DEF RequestStep, Serve
  <2> QED
    BY <2>1, <2>3, <2>4, <2>5, <2>6
<1> QED
  BY <1>4, <1>5

(* What a call of a handler does to the tunnels.                           *)
LEMMA CallsOnLinks ==
  ASSUME EstInv, SeqInv, LinksOK, NEW s \in Slots, RequestStep(s), Follow,
         NEW i \in Identity
  PROVE  \/ link'[i] = link[i]
         \/ req' # req /\ link'[i] = "none"
         \/ /\ req' # req /\ containers' = containers
            /\ \A c \in containers : c.kind = "connect" => c.identity # i
<1>1. vpn \in [Identity -> Provider \cup {NoProvider}]
  BY DEF EstInv, TypeInv, TypeOK
<1>2. CASE vpn'[i] = vpn[i]
  BY <1>2 DEF Follow
<1>3. CASE vpn'[i] # vpn[i]
  <2>1. vpn' # vpn
    BY <1>3
  <2>2. PICK j \in Identity, p \in Provider \cup {NoProvider} :
          /\ vpn' = [vpn EXCEPT ![j] = p]
          /\ p = NoProvider \/ OnIdentity("connect", j) = {}
    BY <2>1, CallsOnTunnels
  <2>3. i = j /\ vpn'[i] = p
    BY <1>1, <1>3, <2>2
  <2>4. req' # req /\ containers' = containers
    BY <2>1, CallsOnTunnels
  <2>5. CASE p = NoProvider
    BY <1>3, <2>3, <2>4, <2>5 DEF Follow
  <2>6. CASE OnIdentity("connect", j) = {}
    BY <2>3, <2>4, <2>6 DEF OnIdentity, OfKind
  <2> QED
    BY <2>2, <2>5, <2>6
<1> QED
  BY <1>2, <1>3

(* The invariant is kept by the requests, *)
LEMMA CallsKeepTunnels ==
  ASSUME EstInv, SeqInv, TunnelInv, NEW s \in Slots, RequestStep(s), Follow
  PROVE  TunnelInv'
<1>1. LinksOK /\ vpn \in [Identity -> Provider \cup {NoProvider}]
  BY DEF TunnelInv, EstInv, TypeInv, TypeOK
<1>2. LinksOK'
  <2>1. script' \in [1 .. MaxOps -> Script]
    BY <1>1 DEF Follow, LinksOK, Off, Fresh, Script
  <2>2. link' \in [Identity -> Links]
    BY <1>1 DEF Follow, LinksOK, Links
  <2>3. ASSUME NEW i \in Identity, vpn'[i] = NoProvider PROVE link'[i] = "none"
    BY <1>1, <2>3 DEF Follow, LinksOK
  <2>4. lapses' \in Nat
    BY <1>1 DEF Follow, LinksOK
  <2> QED
    BY <2>1, <2>2, <2>3, <2>4 DEF LinksOK
<1>3. ASSUME NEW c \in containers', c.kind = "connect", c.status = "running"
      PROVE  Judged(c, script'[c.id], link'[c.identity])
  <2>1. CASE script'[c.id] = Fresh
    BY <2>1 DEF Judged, Fresh
  <2>2. CASE c \in containers /\ script'[c.id] = script[c.id]
    <3>1. Judged(c, script[c.id], link[c.identity]) /\ c.identity \in Identity
      BY <2>2, OneConnection DEF TunnelInv
    <3>2. link'[c.identity] \in {link[c.identity], "none"}
      BY <1>1, <1>3, <2>2, <3>1, CallsOnLinks
    <3> QED
      BY <2>2, <3>1, <3>2 DEF Judged
  <2> QED
    BY <1>3, <2>1, <2>2, CallsOnScripts
<1> QED
  BY <1>2, <1>3 DEF TunnelInv, Judged

(* by the daemons, *)
LEMMA DaemonsKeepTunnels ==
  ASSUME EstInv, SeqInv, TunnelInv, NEW i \in Identity,
         \/ DaemonStops(i) \/ (MystStart(i) /\ UNCHANGED scriptVars)
         \/ DialSucceeds(i) \/ DialFails(i) \/ TunnelDrops(i) \/ TunnelLeaks(i)
  PROVE  TunnelInv'
<1>1. /\ script \in [1 .. MaxOps -> Script] /\ link \in [Identity -> Links]
      /\ lapses \in Nat /\ \A j \in Identity : vpn[j] = NoProvider => link[j] = "none"
      /\ vpn \in [Identity -> Provider \cup {NoProvider}]
  BY DEF TunnelInv, LinksOK, EstInv, TypeInv, TypeOK
<1>2. containers' = containers
  BY DEF DaemonStops, MystStop, MystStart, DialSucceeds, DialFails, TunnelDrops, TunnelLeaks,
         vars
<1>3. LinksOK'
  <2>1. CASE DaemonStops(i)
    BY <1>1, <2>1 DEF DaemonStops, MystStop, LinksOK, Script, Links
  <2>2. CASE MystStart(i) /\ UNCHANGED scriptVars
    BY <1>1, <2>2 DEF MystStart, scriptVars, LinksOK
  <2>3. CASE DialSucceeds(i)
    BY <1>1, <2>3 DEF DialSucceeds, vars, LinksOK, Settle, Script, Links
  <2>4. CASE DialFails(i)
    BY <1>1, <2>4 DEF DialFails, LinksOK, Script, Links
  <2>5. CASE TunnelDrops(i)
    BY <1>1, <2>5 DEF TunnelDrops, LinksOK, Links
  <2>6. CASE TunnelLeaks(i)
    BY <1>1, <2>6 DEF TunnelLeaks, vars, LinksOK, Links
  <2> QED
    BY <2>1, <2>2, <2>3, <2>4, <2>5, <2>6
<1>4. ASSUME NEW n \in 1 .. MaxOps
      PROVE  script'[n].pc \in {script[n].pc, "run", "exited"}
  <2>1. script[n] \in Script
    BY <1>1
  <2>2. CASE DaemonStops(i)
    BY <2>1, <2>2 DEF DaemonStops, Script
  <2>3. CASE DialSucceeds(i)
    BY <2>1, <2>3 DEF DialSucceeds, Settle, Script
  <2>4. CASE DialFails(i)
    BY <2>1, <2>4 DEF DialFails, Script
  <2> QED
    BY <2>2, <2>3, <2>4 DEF MystStart, scriptVars, TunnelDrops, TunnelLeaks
<1>5. \A j \in Identity :
        \/ link'[j] \in {link[j], "none"}
        \/ link[j] = "dialing"
        \/ link'[j] = "leaking"
  BY <1>1 DEF DaemonStops, MystStart, scriptVars, DialSucceeds, DialFails, TunnelDrops,
              TunnelLeaks
<1>6. ASSUME NEW c \in containers PROVE Judged(c, script'[c.id], link'[c.identity])
  <2>1. Judged(c, script[c.id], link[c.identity])
        /\ c.identity \in Identity /\ c.id \in 1 .. MaxOps
    BY OneConnection DEF TunnelInv
  <2>2. /\ script'[c.id].pc \in {script[c.id].pc, "run", "exited"}
        /\ \/ link'[c.identity] \in {link[c.identity], "none"}
           \/ link[c.identity] = "dialing"
           \/ link'[c.identity] = "leaking"
    BY <1>4, <1>5, <2>1
  <2> QED
    BY <2>1, <2>2 DEF Judged
<1> QED
  BY <1>2, <1>3, <1>6 DEF TunnelInv

(* and by the scripts and their restarts.                                  *)
LEMMA ScriptsKeepTunnels ==
  ASSUME EstInv, SeqInv, TunnelInv, NEW c \in containers,
         ScriptStep(c) \/ RestartPolicy(c) \/ Autoheal(c)
  PROVE  TunnelInv'
<1>1. /\ script \in [1 .. MaxOps -> Script] /\ link \in [Identity -> Links]
      /\ lapses \in Nat /\ \A i \in Identity : vpn[i] = NoProvider => link[i] = "none"
      /\ vpn \in [Identity -> Provider \cup {NoProvider}]
  BY DEF TunnelInv, LinksOK, EstInv, TypeInv, TypeOK
<1>2. c.id \in 1 .. MaxOps /\ c.identity \in Identity /\ c.provider \in Provider
  BY OneConnection
<1>3. c.kind = "connect" /\ c.status = "running"
  BY DEF ScriptStep, CheckConnected, CompareAddress, DropConnection, ConnectVpn, LoseDaemon,
         RestartPolicy, Autoheal, ScriptAt
<1>4. containers' = containers
  BY DEF ScriptStep, CheckConnected, CompareAddress, DropConnection, ConnectVpn, LoseDaemon,
         RestartPolicy, Autoheal, vars
<1>5. \A n \in 1 .. MaxOps : n # c.id => script'[n] = script[n]
  BY <1>1 DEF ScriptStep, CheckConnected, CompareAddress, DropConnection, ConnectVpn,
              LoseDaemon, RestartPolicy, Autoheal, Step
<1>6. \A i \in Identity : i # c.identity => link'[i] = link[i]
  BY <1>1 DEF ScriptStep, CheckConnected, CompareAddress, DropConnection, ConnectVpn,
              LoseDaemon, RestartPolicy, Autoheal
<1> DEFINE Kept == LinksOK' /\ Judged(c, script'[c.id], link'[c.identity])
<1>7. \A l \in {"compare", "connect", "drop", "wait", "exited"} : Step(c, l) =>
        script' \in [1 .. MaxOps -> Script] /\ script'[c.id].pc = l
  BY <1>1, <1>2 DEF Step, Script
<1>8. ASSUME CheckConnected(c) PROVE Kept
  <2>1. /\ script' \in [1 .. MaxOps -> Script]
        /\ script'[c.id].pc = IF link[c.identity] \in {"up", "leaking"} THEN "compare"
                                                                      ELSE "connect"
    BY <1>7, <1>8 DEF CheckConnected
  <2> QED
    BY <1>1, <1>8, <2>1 DEF CheckConnected, vars, LinksOK, Judged
<1>9. ASSUME CompareAddress(c) PROVE Kept
  <2>1. link[c.identity] # "dialing"
    BY <1>3, <1>9 DEF CompareAddress, ScriptAt, TunnelInv, Judged
  <2>2. CASE script' = [script EXCEPT ![c.id] = Settle(c.id)]
    <3>1. script' \in [1 .. MaxOps -> Script] /\ script'[c.id].pc = "run"
      BY <1>1, <1>2, <2>2 DEF Settle, Script
    <3> QED
      BY <1>1, <1>9, <3>1 DEF CompareAddress, vars, LinksOK, Judged
  <2>3. CASE link[c.identity] # "up" /\ Step(c, "drop")
    <3>1. script' \in [1 .. MaxOps -> Script] /\ script'[c.id].pc = "drop"
      BY <1>7, <2>3
    <3>2. link[c.identity] \in {"leaking", "none"}
      BY <1>1, <1>2, <2>1, <2>3 DEF Links
    <3> QED
      BY <1>1, <1>9, <3>1, <3>2 DEF CompareAddress, vars, LinksOK, Judged
  <2> QED
    BY <1>9, <2>2, <2>3 DEF CompareAddress
<1>10. ASSUME DropConnection(c) PROVE Kept
  <2>1. script' \in [1 .. MaxOps -> Script] /\ script'[c.id].pc = "connect"
    BY <1>7, <1>10 DEF DropConnection
  <2> QED
    BY <1>1, <1>2, <1>10, <2>1 DEF DropConnection, LinksOK, Judged, Links
<1>11. ASSUME ConnectVpn(c) PROVE Kept
  <2>1. script' \in [1 .. MaxOps -> Script] /\ script'[c.id].pc \in {"wait", "exited"}
    BY <1>7, <1>11 DEF ConnectVpn
  <2>2. CASE vpn' = vpn /\ link' = link
    BY <1>1, <1>11, <2>1, <2>2 DEF ConnectVpn, LinksOK, Judged
  <2>3. CASE /\ vpn' = [vpn EXCEPT ![c.identity] = c.provider]
             /\ link' = [link EXCEPT ![c.identity] = "dialing"]
    BY <1>1, <1>2, <1>11, <2>1, <2>3, NoneAssumption
       DEF ConnectVpn, LinksOK, Judged, Links
  <2> QED
    BY <1>11, <2>2, <2>3 DEF ConnectVpn
<1>12. ASSUME LoseDaemon(c) PROVE Kept
  <2>1. script' \in [1 .. MaxOps -> Script] /\ script'[c.id].pc = "exited"
    BY <1>7, <1>12 DEF LoseDaemon
  <2> QED
    BY <1>1, <1>12, <2>1 DEF LoseDaemon, vars, LinksOK, Judged
<1>13. ASSUME RestartPolicy(c) \/ Autoheal(c) PROVE Kept
  <2>1. script' = [script EXCEPT ![c.id] = Fresh]
        /\ UNCHANGED <<vpn, link, lapses>>
    BY <1>13 DEF RestartPolicy, Autoheal, vars
  <2>2. script' \in [1 .. MaxOps -> Script] /\ script'[c.id].pc = "start"
    BY <1>1, <1>2, <2>1 DEF Fresh, Script
  <2> QED
    BY <1>1, <2>1, <2>2 DEF LinksOK, Judged
<1>14. Kept
  BY <1>8, <1>9, <1>10, <1>11, <1>12, <1>13 DEF ScriptStep
<1>15. ASSUME NEW d \in containers PROVE Judged(d, script'[d.id], link'[d.identity])
  <2>1. CASE d.kind = "connect" /\ d # c
    <3>1. d.id # c.id /\ d.identity # c.identity
          /\ d.id \in 1 .. MaxOps /\ d.identity \in Identity
      BY <1>3, <2>1, OneConnection
    <3> QED
      BY <1>5, <1>6, <3>1 DEF TunnelInv
  <2> QED
    BY <1>14, <2>1 DEF Judged
<1> QED
  BY <1>4, <1>14, <1>15 DEF TunnelInv

LEMMA InitTunnels == ConnectInit => TunnelInv
  BY DEF ConnectInit, Init, TunnelInv, LinksOK, Off, Script, Links

LEMMA NextTunnels ==
  ASSUME EstInv, SeqInv, TunnelInv, [ConnectNext]_allVars
  PROVE  TunnelInv'
<1>1. CASE UNCHANGED allVars
  BY <1>1 DEF allVars, vars, TunnelInv, LinksOK
<1> QED
  BY <1>1, CallsKeepTunnels, DaemonsKeepTunnels, ScriptsKeepTunnels DEF ConnectNext

(* A step that ends a tunnel that works is a request's, a fault or a lapse.*)
LEMMA StepSpares ==
  ASSUME EstInv, SeqInv, TunnelInv, [ConnectNext]_allVars, NEW i \in Identity,
         link[i] = "up", link'[i] # "up"
  PROVE  req' # req \/ faults' # faults \/ lapses' # lapses
<1>1. /\ LinksOK /\ link \in [Identity -> Links] /\ vpn[i] # NoProvider
      /\ faults \in Nat /\ lapses \in Nat
  BY BoundAssumption DEF TunnelInv, LinksOK, EstInv, TypeInv, TypeOK
<1>2. ASSUME NEW s \in Slots, RequestStep(s), Follow PROVE req' # req
  BY <1>1, <1>2, CallsOnLinks
<1>3. ASSUME NEW j \in Identity, DaemonStops(j) PROVE faults' # faults
  BY <1>1, <1>3 DEF DaemonStops, MystStop
<1>4. ASSUME NEW c \in containers, ScriptStep(c) \/ RestartPolicy(c) \/ Autoheal(c)
      PROVE  FALSE
  <2>1. c.identity \in Identity
    BY OneConnection
  <2>2. CASE DropConnection(c)
    <3>1. link[c.identity] # "up"
      BY <2>2 DEF DropConnection, ScriptAt, TunnelInv, Judged
    <3> QED
      BY <1>1, <2>1, <2>2, <3>1 DEF DropConnection
  <2>3. CASE ConnectVpn(c)
    BY <1>1, <2>1, <2>3 DEF ConnectVpn
  <2> QED
    BY <1>4, <2>2, <2>3
       DEF ScriptStep, CheckConnected, CompareAddress, LoseDaemon, RestartPolicy, Autoheal
<1> QED
  BY <1>1, <1>2, <1>3, <1>4
     DEF ConnectNext, allVars, scriptVars, DialSucceeds, DialFails, TunnelDrops, TunnelLeaks

(* Served one request at a time, a script never takes down a tunnel that   *)
(* works, although it compares the addresses in one call and disconnects   *)
(* in a later one, and whatever the daemons, the restarts and the faults   *)
(* do in between (docker-entrypoint.sh of myst-connect,                    *)
(* disconnect_vpn_if_ip_not_match).                                        *)
THEOREM WorkingTunnelsAreSpared ==
  ASSUME OneSlot
  PROVE  ConnectSpec => SparesWorkingTunnel
<1>1. ConnectInit => TunnelInv
  BY InitTunnels
<1>2. EstInv /\ SeqInv /\ TunnelInv /\ [ConnectNext]_allVars => TunnelInv'
  BY NextTunnels
<1>3. EstInv /\ SeqInv /\ TunnelInv /\ [ConnectNext]_allVars =>
        [\A i \in Identity :
           link[i] = "up" /\ link'[i] # "up"
             => req' # req \/ faults' # faults \/ lapses' # lapses]_allVars
  BY StepSpares
<1>4. ConnectSpec => [](EstInv /\ SeqInv)
  BY ScriptsImplementLifecycle, Sequentially, PTL DEF ImplementsLifecycle
<1> QED
  BY <1>1, <1>2, <1>3, <1>4, PTL DEF ConnectSpec, SparesWorkingTunnel

=============================================================================
