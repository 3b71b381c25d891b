----------------------------- MODULE MystConnect -----------------------------
(***************************************************************************)
(* The script of a MYST_CONNECT container, its health check and the        *)
(* restarts that follow from them, next to the requests of                 *)
(* ProviderLifecycle.                                                      *)
(*                                                                         *)
(* A MYST_CONNECT container lives in the network of a MYST container.      *)
(* When that one stops, its network is gone for good: the script only      *)
(* reaches the daemon again after its own container was restarted.  Two    *)
(* parties restart it: Docker, when the script exits, and autoheal, when   *)
(* the health check fails.  ProviderLifecycle knows of all this only that  *)
(* a daemon without a tunnel may get the one of its connection             *)
(* (Entrypoint) and that a tunnel may be given up (TunnelLost).            *)
(***************************************************************************)
EXTENDS ProviderLifecycle

CONSTANT MaxLapses    \* bound on tunnels that fail while their daemon runs

ASSUME LapsesAssumption == MaxLapses \in Nat

VARIABLES
  script,   \* script[n]: the script of the connection made by request n
  link,     \* link[i]: how the connection the daemon of identity i has fares
  lapses    \* tunnels that failed so far

scriptVars == <<script, link, lapses>>
allVars == <<vars, script, link, lapses>>

(* `lock` is CONNECTED_LOCK_FILE.  `joined`: the container is in the       *)
(* network the MYST container has now.                                     *)
Script ==
  [pc : {"off", "start", "compare", "drop", "connect", "wait", "run", "exited"},
   lock : BOOLEAN, joined : BOOLEAN]

Off == [pc |-> "off", lock |-> FALSE, joined |-> FALSE]

(* A container that was just (re)started: the lock of an earlier run is    *)
(* the first thing the script removes.                                     *)
Fresh == [pc |-> "start", lock |-> FALSE, joined |-> TRUE]

(* "leaking": the daemon says Connected and the traffic leaves from the    *)
(* address of the host.                                                    *)
Links == {"none", "dialing", "up", "leaking"}

ConnectTypeOK ==
  /\ TypeOK
  /\ script \in [1 .. MaxOps -> Script]
  /\ link \in [Identity -> Links]
  /\ lapses \in 0 .. MaxLapses

ConnectInit ==
  /\ Init
  /\ script = [n \in 1 .. MaxOps |-> Off]
  /\ link = [i \in Identity |-> "none"]
  /\ lapses = 0

-----------------------------------------------------------------------------
(* The requests of the API: containers they start get a script, containers *)
(* they remove lose theirs, in whatever call it is.                        *)

RunningConnects == {c.id : c \in {d \in OfKind("connect") : d.status = "running"}}

Follow ==
  /\ script' = [n \in 1 .. MaxOps |->
                  IF n \notin RunningConnects' THEN Off
                  ELSE IF n \notin RunningConnects THEN Fresh ELSE script[n]]
  /\ link' = [i \in Identity |->
                IF vpn'[i] = vpn[i] THEN link[i]
                ELSE IF vpn'[i] = NoProvider THEN "none" ELSE "up"]
  /\ lapses' = lapses

(* The MYST container stops: whoever shares its network is cut off.        *)
DaemonStops(i) ==
  /\ MystStop(i)
  /\ link' = [link EXCEPT ![i] = "none"]
  /\ script' = [n \in 1 .. MaxOps |->
                  IF \E c \in OnIdentity("connect", i) : c.id = n
                  THEN [script[n] EXCEPT !.joined = FALSE] ELSE script[n]]
  /\ lapses' = lapses

-----------------------------------------------------------------------------
(* docker-entrypoint.sh of MYST_CONNECT: one action per call it makes.     *)

ScriptAt(c, l) == c.kind = "connect" /\ c.status = "running" /\ script[c.id].pc = l

Reaches(c) == myst[c.identity] /\ script[c.id].joined

Step(c, l) == script' = [script EXCEPT ![c.id].pc = l]
Settle(n) == [script[n] EXCEPT !.pc = "run", !.lock = TRUE]

(* check_vpn_connected: a daemon that is still dialing is not connected.   *)
CheckConnected(c) ==
  /\ ScriptAt(c, "start") /\ Reaches(c)
  /\ Step(c, IF link[c.identity] \in {"up", "leaking"} THEN "compare" ELSE "connect")
  /\ UNCHANGED <<vars, link, lapses>>

(* Mutant: the comparison is the other way round.                          *)
CompareInverted(c) ==
  /\ ScriptAt(c, "compare") /\ Reaches(c)
  /\ \/ link[c.identity] # "up"
        /\ script' = [script EXCEPT ![c.id] = Settle(c.id)]
     \/ link[c.identity] = "up" /\ Step(c, "drop")
  /\ UNCHANGED <<vars, link, lapses>>

(* The first half of disconnect_vpn_if_ip_not_match: the connection is     *)
(* kept, and the lock set, unless the address is the one of the host.      *)
CompareAddress(c) ==
  /\ ScriptAt(c, "compare") /\ Reaches(c)
  /\ \/ link[c.identity] = "up"
        /\ script' = [script EXCEPT ![c.id] = Settle(c.id)]
     \/ link[c.identity] # "up" /\ Step(c, "drop")
  /\ UNCHANGED <<vars, link, lapses>>

(* The second half; that nothing was connected any more is no error.       *)
DropConnection(c) ==
  /\ ScriptAt(c, "drop") /\ Reaches(c)
  /\ vpn' = [vpn EXCEPT ![c.identity] = NoProvider]
  /\ link' = [link EXCEPT ![c.identity] = "none"]
  /\ Step(c, "connect")
  /\ UNCHANGED <<containers, myst, req, ops, faults, lapses>>

(* Mutant: the answer of the daemon is not looked at, as if every call     *)
(* made the connection asked for.                                          *)
ConnectBlindly(c) ==
  /\ ScriptAt(c, "connect")
  /\ vpn' = [vpn EXCEPT ![c.identity] = c.provider]
  /\ link' = [link EXCEPT ![c.identity] = "dialing"]
  /\ Step(c, "wait")
  /\ UNCHANGED <<containers, myst, req, ops, faults, lapses>>

(* connect_vpn: the daemon starts to dial, unless it has a connection or   *)
(* makes one already.                                                      *)
ConnectVpn(c) ==
  /\ ScriptAt(c, "connect") /\ Reaches(c)
  /\ IF vpn[c.identity] = NoProvider
     THEN /\ vpn' = [vpn EXCEPT ![c.identity] = c.provider]
          /\ link' = [link EXCEPT ![c.identity] = "dialing"]
          /\ Step(c, "wait")
     ELSE Step(c, "exited") /\ UNCHANGED <<vpn, link>>
  /\ UNCHANGED <<containers, myst, req, ops, faults, lapses>>

(* Any of the calls, or the loop that stores the address, finds no daemon. *)
LoseDaemon(c) ==
  /\ \E l \in {"start", "compare", "drop", "connect", "wait", "run"} : ScriptAt(c, l)
  /\ ~Reaches(c)
  /\ Step(c, "exited")
  /\ UNCHANGED <<vars, link, lapses>>

ScriptStep(c) ==
  \/ CheckConnected(c) \/ CompareAddress(c) \/ DropConnection(c)
  \/ ConnectVpn(c) \/ LoseDaemon(c)

-----------------------------------------------------------------------------
(* The daemon.  It goes on dialing when the script that asked is gone; the *)
(* answer reaches a script that still waits.                               *)

Waiting(n, i) ==
  script[n].pc = "wait" /\ \E c \in OnIdentity("connect", i) : c.id = n

DialSucceeds(i) ==
  /\ link[i] = "dialing"
  /\ link' = [link EXCEPT ![i] = "up"]
  /\ script' = [n \in 1 .. MaxOps |-> IF Waiting(n, i) THEN Settle(n) ELSE script[n]]
  /\ UNCHANGED <<vars, lapses>>

DialFails(i) ==
  /\ link[i] = "dialing" /\ lapses < MaxLapses
  /\ lapses' = lapses + 1
  /\ vpn' = [vpn EXCEPT ![i] = NoProvider]
  /\ link' = [link EXCEPT ![i] = "none"]
  /\ script' = [n \in 1 .. MaxOps |->
                  IF Waiting(n, i) THEN [script[n] EXCEPT !.pc = "exited"] ELSE script[n]]
  /\ UNCHANGED <<containers, myst, req, ops, faults>>

(* The session ends, or the daemon does not notice that it did.            *)
TunnelDrops(i) ==
  /\ link[i] \in {"up", "leaking"} /\ lapses < MaxLapses
  /\ lapses' = lapses + 1
  /\ vpn' = [vpn EXCEPT ![i] = NoProvider]
  /\ link' = [link EXCEPT ![i] = "none"]
  /\ UNCHANGED <<containers, myst, req, ops, faults, script>>

TunnelLeaks(i) ==
  /\ link[i] = "up" /\ lapses < MaxLapses
  /\ lapses' = lapses + 1
  /\ link' = [link EXCEPT ![i] = "leaking"]
  /\ UNCHANGED <<vars, script>>

-----------------------------------------------------------------------------
(* Restarts.  Neither party gets a container up while the one whose        *)
(* network it joins is down; both try again.                               *)

RestartPolicy(c) ==
  /\ ScriptAt(c, "exited") /\ myst[c.identity]
  /\ script' = [script EXCEPT ![c.id] = Fresh]
  /\ UNCHANGED <<vars, link, lapses>>

(* Mutant: a connection that is gone altogether passes for healthy.        *)
UnhealthyByLeak(c) ==
  \/ ~script[c.id].joined
  \/ script[c.id].lock /\ link[c.identity] = "leaking"

(* docker-healcheck.sh: the interface of the MYST container is there, and  *)
(* once the script connected the address is not the one of the host.       *)
Unhealthy(c) ==
  \/ ~script[c.id].joined
  \/ script[c.id].lock /\ link[c.identity] # "up"

Autoheal(c) ==
  /\ \E l \in {"start", "compare", "drop", "connect", "wait", "run"} : ScriptAt(c, l)
  /\ Unhealthy(c) /\ myst[c.identity]
  /\ script' = [script EXCEPT ![c.id] = Fresh]
  /\ UNCHANGED <<vars, link, lapses>>

-----------------------------------------------------------------------------

RequestStep(s) == Begin(s) \/ Serve(s) \/ StartSocatFails(s) \/ Fail(s)

ConnectNext ==
  \/ \E s \in Slots : RequestStep(s) /\ Follow
  \/ \E i \in Identity :
       \/ DaemonStops(i)
       \/ MystStart(i) /\ UNCHANGED scriptVars
       \/ DialSucceeds(i) \/ DialFails(i) \/ TunnelDrops(i) \/ TunnelLeaks(i)
  \/ \E c \in containers : ScriptStep(c) \/ RestartPolicy(c) \/ Autoheal(c)

ConnectSpec == ConnectInit /\ [][ConnectNext]_allVars

(* Node runs every promise that settled and Docker and the daemon answer   *)
(* every call, so a request that was accepted is served and a script goes  *)
(* on; a dial ends; `RestartPolicy: always` brings back MYST and           *)
(* MYST_CONNECT containers, and the autoheal service of docker-compose.yml *)
(* the unhealthy ones.  Nobody owes us a request, a fault or a lapse.      *)
Fairness ==
  /\ \A s \in Slots : WF_allVars(Serve(s) /\ Follow)
  /\ \A i \in Identity :
       /\ WF_allVars(MystStart(i) /\ UNCHANGED scriptVars)
       /\ WF_allVars(DialSucceeds(i))
  /\ \A n \in 1 .. MaxOps :
       /\ WF_allVars(\E c \in containers : c.id = n /\ ScriptStep(c))
       /\ WF_allVars(\E c \in containers : c.id = n /\ RestartPolicy(c))
       /\ WF_allVars(\E c \in containers : c.id = n /\ Autoheal(c))

FairSpec == ConnectSpec /\ Fairness

-----------------------------------------------------------------------------
(* A registered connection whose container and whose daemon stay up        *)
(* carries traffic through its provider again after the daemon restarted,  *)
(* the session ended, the address leaked or a dial failed                  *)
(* (docker-entrypoint.sh and docker-healcheck.sh of myst-connect).         *)
TunnelRecovers ==
  \A i \in Identity, p \in Provider :
    LET up == /\ myst[i]
              /\ \E c \in OnIdentity("connect", i) : c.provider = p /\ c.status = "running"
    IN  up ~> (vpn[i] = p /\ link[i] = "up") \/ ~up

(* What the script takes down is a tunnel that leaks or none: it compares  *)
(* the address in one call and disconnects in a later one, and no tunnel   *)
(* that works has come up in between (requests one at a time).             *)
SparesWorkingTunnel ==
  [][\A i \in Identity :
       link[i] = "up" /\ link'[i] # "up"
         => req' # req \/ faults' # faults \/ lapses' # lapses]_allVars

(* To the requests, all this is Entrypoint and TunnelLost: what holds of   *)
(* ProviderLifecycle holds with the scripts running.                       *)
ImplementsLifecycle == Spec

=============================================================================
