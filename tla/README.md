# Verification of the Mysterium proxy API

The repository is a NestJS API that runs Mysterium VPN consumers and HTTP
proxies on one host. It creates and removes Docker containers, drives the
Mysterium daemon in them, writes the files an nginx front end reads, and keeps
users, identities and favourites in PostgreSQL. This directory holds TLA+
modules of its core logic, TLC configurations that check them on small
instances, and theorems that TLAPS checks for every instance.

## The system

| Part | State it keeps | Operations | Source |
|---|---|---|---|
| VPN provider service | none: MYST_CONNECT containers *are* the registrations; the tunnel lives in the daemon | getAll, getById, up, down | `core/service/myst-provider.service.ts`, `infrastructure/repository/myst-provider-aggregate.repository.ts`, `myst-provider-api.repository.ts` |
| Proxy service | none: SOCAT and ENVOY containers are the proxies | create, remove, getById, getAll | `core/service/proxy.service.ts`, `infrastructure/repository/proxy-aggregate.repository.ts` |
| Provider-proxy service | none | create (up, then create), down (remove proxies, then down) | `core/service/myst-provider-proxy.service.ts` |
| Docker runners | the containers Docker knows | list, create per kind, remove | `infrastructure/repository/docker-runner*.ts` |
| MYST_CONNECT entrypoint | the tunnel of one daemon, a lock file, the address in redis | connect, disconnect a leaking tunnel, refresh the address; health check and restarts | `docker/images/myst-connect/docker-entrypoint.sh`, `docker-healcheck.sh`, `docker-compose.yml` (autoheal) |
| Identity service | key files, PostgreSQL rows, MYST containers and volumes | create, remove, getAll, getById | `core/service/myst-identity.service.ts`, `myst-identity-{aggregate,pg,file}.repository.ts`, `docker-runner-create-myst.repository.ts` |
| Provider cache | redis: names under provider ids, which expire, and addresses, which do not | getAll, getById | `myst-provider-cache-api.repository.ts` |
| Users | PostgreSQL rows and an htpasswd file, written one after the other | add, update, remove | `core/service/users.service.ts`, `users-{adapter,pg,htpasswd-file}.repository.ts` |
| Proxy access list | an nginx ACL file, the configuration nginx loaded | getAll, create, remove | `core/service/proxy-acl.service.ts`, `nginx-proxy-acl{,-aggregate}.repository.ts` |
| Users' proxies, favourites | PostgreSQL rows joined with the proxies | getByUserId; bulk add, update, remove | `users-proxy-aggregate`, `favorites-{pg,aggregate}.repository.ts` |
| Lists | none | filter, sort, page | `filterAndSort*.ts`, `filter.model.ts` |
| HTTP layer | JWT, roles, validation | controllers, guards, interceptors | `api/http/` |

What makes each part correct, in one line:

* provider service: an identity serves one provider at a time, and `up` never takes
  a connection that it did not choose as free;
* proxy service: a proxy has the connection of its provider behind it, and no ENVOY
  is left that no SOCAT leads to;
* entrypoint: a registered connection gets its tunnel back;
* proxy ports: a creation ends with a port of its own or leaves nothing behind;
* access list: rows of the file do not contradict each other, a write adds or takes
  one row and keeps the others, and nginx works by what is in the file;
* users: a success means the same in the database and in the htpasswd file, and a
  name belongs to one live row;
* identity service: key file, row and container exist together, and an identity in
  use is not removed; a removal that failed can be completed;
* provider cache: a look-up through the cache answers what the daemon would;
* favourites: a proxy has one favourite per owner, and bulk operations happen whole;
* filters and pages: the pages of a list partition it.

Every request is an asynchronous handler: at each `await` other requests may
run, and there is no lock and no transaction across two stores. The hard parts
are therefore

* decisions taken from a list of containers that is stale when it is acted on;
* operations that write several stores or containers in turn, any of which can
  fail, with little undone afterwards;
* a process or a daemon that dies in between, with no journal;
* files that are read, changed in memory and written back by concurrent
  requests.

## ProviderLifecycle: providers, identities, proxies

State, and what it stands for:

* `containers`: the MYST_CONNECT, SOCAT and ENVOY containers, each with the
  identity and provider in its labels and its status (`created` or `running`).
  A container is named by the number of the request that created it.
* `vpn[i]`: the provider the daemon of identity `i` is connected to.
* `myst[i]`: whether the MYST container of `i` runs.
* `req[s]`: the request in slot `s`: its place in the handler and the local
  variables that live across an await.

Each action is the piece of a handler between two awaits. `up` is
`UpReadProvider`, `UpPickIdentity`, `UpCheckRunner`, `DisconnectList`,
`DisconnectRemove`, `DisconnectTunnel`, `Connect`, `CreateConnect`,
`StartConnect`; `down` is `DownReadProvider` and the same disconnection;
`create` runs from `CreateReadProvider` to `StartEnvoy`; `remove` from
`RemoveGet` to `RemoveSocat`; "upCreate" and "downAll" are the two operations of
the provider-proxy service, which chain the others. `Fail` ends a handler
wherever it is (an error of Docker, of the daemon or of the market, or the death
of the process) and undoes nothing, which is what the code does. `MystStop` and
`MystStart` are the daemon; `Entrypoint` and `TunnelLost` are all the requests see of the
script in the MYST_CONNECT container: a daemon without a tunnel may get the one of its
connection, and a tunnel may be given up. `Views(p)` is what `getById` may answer: it depends
on which container of the provider Docker lists first and on whether the market still
knows it.

Reads that directly follow each other with no decision to write between them
(`Promise.all`, or a look-up followed by the reading of its dependencies) are one
step. Identities are neither created nor deleted in this module (see `MystIdentity`).

`ProviderLease` is the abstract promise: an identity is leased to one provider,
a proxy may be opened on a lease, a lease with a proxy is not released. The
detailed module implements it under the mapping "a lease is a MYST_CONNECT
container, a proxied lease a SOCAT".

### Runs

| Run | Instance | What it shows |
|---|---|---|
| `provider_sequential` | 2 providers, 2 identities, one request at a time, 5 requests, 2 faults | `NoSharedIdentity`, `ProxyHasConnection`, `EnvoyBehindSocat`, `NoHijack`, `ConnectFindsNoTunnel`, `DownAllLeavesNothing`, and the refinement `ImplementsLease`: without concurrency no failure and no crash breaks the promise |
| `provider_concurrent` | two requests at a time, 3 requests, 1 fault | `EstablishedSurvivesUp` (and the type invariant) under every interleaving |

Two providers and two identities are enough for each to be taken from or confused
with the other; five sequential requests allow up, create, a half-done removal, a
second creation and a disconnection, and two faults let a clean-up fail as well.
The concurrent run has one request establish a state and two race on it. Deadlock is
not checked: the bound on requests ends every behaviour.

### Proofs

`ProviderProofs` proves `TypeCorrect`, `Spec => []TypeOK`, for all constants. `TypeOK`
alone is not inductive: creating a container needs the request's identity and
provider to be real ones. `RequestOK` adds where the handlers have set the variables
they use. Its second part proves `EstablishedIsSpared`,
`Spec => EstablishedSurvivesUp`, for any number of slots. The strengthening has two
parts. `NumbersOK`: connections carry the numbers of issued requests, two active
requests never share one, and the number of a request that has not created its
connection is on no container and in nobody's history, so a container created later is
never mistaken for one seen earlier. `ChoiceOK`: while `up` works on an identity none of
the connections it saw is on that identity, and the one it is about to remove is not one
it saw. Assumptions used: `NoneAssumption` (the null values are no identities or
providers), `BoundAssumption`, `KindsAssumption`.

The third part proves the rest of the table above for requests served one at a time
(`OneSlot`), with any number of providers, identities, requests and faults:
`NoIdentityIsShared`, `ProxyKeepsConnection`, `NoEnvoyIsHidden`, `NoTunnelIsHijacked`,
`LeftTunnelsAreReclaimed`, `DownAllIsComplete` and the refinement
`ContainersImplementLeases`. The strengthening `SeqInv` has two parts as well. `WorldOK`
relates the containers: the properties themselves, and that a provider has one connection
and an identity one SOCAT. `Held` says what a handler may rely on across an await because
nobody else changes containers meanwhile: the identity `up` chose is still free and its
tunnel closed (`UpHeld`), the connection `down` ends has no proxy (`DownHeld`), the
connection and the SOCAT that `create` builds on are there (`CreateHeld`), and the ENVOYs
behind the SOCAT that `remove` takes away are all on its list (`RemoveHeld`).
`DownAllIsComplete` needs one more part, `DownAllInv`. None of it holds for two slots: that
is what `DownSparesProxiedProvider` is about (see the known divergences). Since the scripts
implement `ProviderLifecycle` (next section), all of it holds with them running.

## MystConnect: the script behind a connection

`MystConnect` EXTENDS `ProviderLifecycle` and puts in the place of `Entrypoint` and
`TunnelLost` the script of the MYST_CONNECT image, its health check and what restarts it.

* `script[n]`: the script of the connection made by request `n`: the call it makes next
  (`start`, `compare`, `drop`, `connect`, `wait`), or that it has settled (`run`) or has
  `exited`; `lock` is the file CONNECTED_LOCK_FILE; `joined` says whether its container is
  in the network the MYST container has now.
* `link[i]`: what is behind the daemon's "connected": `none`, `dialing`, `up`, or `leaking`,
  when traffic leaves from the address of the host.
* `lapses` counts tunnels that fail while their daemon runs; `MaxLapses` bounds it.

`CheckConnected` is `check_vpn_connected`, `CompareAddress` and `DropConnection` are the two
halves of `disconnect_vpn_if_ip_not_match`, `ConnectVpn` is `connect_vpn`; `LoseDaemon` is any
of these calls, or the loop that stores the address, when nobody answers. A dial goes on
when the script that asked is gone (`DialSucceeds`, `DialFails`). `DaemonStops` cuts off
everybody in the network of the MYST container; `Unhealthy` is `docker-healcheck.sh`, on
which `Autoheal` restarts the container; `RestartPolicy` is Docker after an exit. A step of
the API is one of `ProviderLifecycle` together with `Follow`: a container that was started
gets a script, one that was removed loses it. Neither party gets a container up while
the one whose network it joins is down, and both try again (assumption about Docker).

| Run | Instance | What it shows |
|---|---|---|
| `provider_recovery` | 2 providers, 1 identity, `up` and `down` one at a time, 3 requests, 2 faults, 2 lapses, with fairness | `TunnelRecovers`: a registered connection gets a working tunnel again; `SparesWorkingTunnel`: the script takes no working tunnel down; `ImplementsLifecycle` |

Fairness (`FairSpec`), and why it is due: a request that was accepted is served and a script
goes on (Node runs every settled promise; Docker and the daemon answer every call); a
dial ends; `RestartPolicy: always` brings back MYST and MYST_CONNECT containers that
stopped, and the autoheal service of `docker-compose.yml` the unhealthy ones. No request,
fault or lapse is owed. One identity is enough: scripts of different identities share
nothing, and the requests that could mix identities up are in `provider_sequential`. With
two faults and two lapses the daemon can die while its tunnel is being repaired and the
repaired tunnel fail again. `SparesWorkingTunnel` does not hold with two requests at a
time: a script that compared before an `up` reconnected disconnects the new tunnel.
The branch of the script for a connect that is refused is not taken one at a time, since
only its own container asks for its daemon.

Proved in `ConnectProofs`: `ScriptsImplementLifecycle` (`ConnectSpec => ImplementsLifecycle`):
every step maps to a step of `ProviderLifecycle` or leaves its variables alone, so all that
is proved there holds with the scripts running; the corollary
`EstablishedIsSparedWithScripts` is an instance. It needs the inductive `TypeInv` (a
container's identity is one). `WorkingTunnelsAreSpared` (`SparesWorkingTunnel`, for
`OneSlot`) comes from `TunnelInv`, which says what the daemon can be doing while a script
judges it (`Judged`): it is not dialing when a script compares addresses, and it has no
tunnel or a leaking one when a script is about to drop it. Only two could give it a
working one in between. Another script cannot, because an identity has one connection and
a connection one script; `up` cannot, because it connects on an identity that has no
connection. Both facts are invariants of `ProviderProofs`. Only `TunnelRecovers`
(liveness) is model-checked alone.

## AclRules, AclStore, NginxAcl: the proxy access list

The list is a `map` block in a file nginx reads. `AclRules` says when two grants
collide (`_checkAclExist`). `AclStore` is the abstract promise: a set of grants, to
which one is added when it collides with none and from which one is taken, and which
a crash may break for good. `NginxAcl` is the code:

* `file` is the text, by what the parser makes of it: `whole`; `tail` and `ragged`, the
  remains of a longer text behind a shorter one; `headless`, rows without the line
  that opens the map; `empty`. Names and ports are opaque values, so the regular
  expressions are exact matches, and a row is there as a whole or not at all.
* `nginx`, `loaded`, `signalled`: the container, the rules it works by, and a HUP not yet
  handled. nginx is external: it keeps its rules when the file is no good.
* `missed` is a history variable: a change was not followed by a HUP (the container was
  not found before the change, had stopped, or the error of the reload was ignored).
* `req[s]`: where the request is, the text it computed, whether it found nginx.

`create` is `CreateUser`, `FindRunner`, `CreateCheck`, `CreateRead`, `Truncate`, `Write`,
`Reload`; `remove` joins at `RemoveRead`. `writeFile` empties the file when it opens it and
fills it later, hence two steps; `Over` is what a write leaves when another one
happened in between. `Fail` may stop a request anywhere.

| Run | Instance | What it shows |
|---|---|---|
| `acl_sequential` | 2 users, 2 ports, one request at a time, 4 requests, 2 faults | `NoDuplicateGrant`, `FileIntact`, `ImplementsStore`: no failure makes rows collide or loses a row of another grant, except that a write cut in half empties the file |
| `acl_concurrent` | 2 users, 1 port, two requests at a time, 3 requests, 1 fault | `NginxAgrees` (and the type invariant): writers do not eat each other's reload |

Two ports let a grant of one, of the other, of both and of all ports meet; four
requests add two rows that do not collide, try one that does and remove one. Two
faults let a request stop and nginx stop as well.

Proved in `AclProofs`, for all users, ports, bounds and numbers of slots: `TypeCorrect`;
`NginxAgreement` (`Spec => []NginxAgrees`) from `AgreeInv`, that a difference between
the file and nginx is always announced by a signal, a request about to reload or a
missed reload, which holds under any concurrency although the file itself may be lost;
and `NoDuplicateAlone`, `NoDuplicateGrant` for one request at a time, from
`AloneInv`: the file and the text about to be written are free of collisions, a creation
past its check collides with nothing, and the file is empty between the halves of a
write. Also for one request at a time, from `StoreInv`: `FileStaysIntact`
(`FileIntact`) and `FileImplementsStore` (`ImplementsStore`). `StoreInv` says what a text
about to be written does to the file, namely add one grant that collides with none
(`Adds`) or take one number away (`Takes`), and that a number is in the file only after the
request that brings it has written, so that a grant is never added twice. The abstract
step is the truncation: the file is empty from there to the write, but what it will hold is
settled.

## UsersStores: users in two stores

A user is a row in PostgreSQL (`rows`, deleted softly, unique by name among live ones)
and an entry of the htpasswd file (`fileExists`, `entries`). `add` is `AddLook`,
`AddInsert`, `FileCheck`, `FileCreate`, `FileRead`, `FileWrite`; `update` and `remove` begin
with the two look-ups `Find` and `Get`, change the row (`RowFind`, `RowSave`, `RowDelete`)
and then the file. `RowSave` writes the whole entity as it was loaded, so it can bring
back a row removed in between; `FileWrite` puts back the whole file that `FileRead` read,
as the program htpasswd does. The reload of nginx, roles and time stamps are left out,
and reads in parallel (`Promise.all`) are one step. `overlapped` is a history variable:
the code has no means against two requests at a time, so what it promises about both
stores is stated for requests that did not overlap.

| Run | Instance | What it shows |
|---|---|---|
| `users_requests` | 2 names, 2 passwords, two requests at a time, 4 requests, 2 faults | `OkMeansBoth`: a success holds in both stores even after earlier requests stopped half-way, so adding the user again repairs it; `InStep`: only a fault makes the stores differ; both as long as no two requests overlapped; `UniqueName` under every interleaving |

A half-done request, one that repairs it and one on the other name need three requests;
the fourth lets a removed row be revived while its name is taken.

Proved in `UsersProofs`, for all names, passwords and slots: `TypeCorrect` and
`NamesStayUnique`. The inductive invariant says that a row an addition is about to insert
is new (`NumbersOK`: its number is on no row, on none that another request has loaded and
may still save, and no other addition has it), so that the unique index is asked about
the right row whenever a removed one is brought back. `OkIsTrueOfBoth` (`OkMeansBoth`) and
`StoresStayInStep` (`InStep`) come from `AloneInv`, which speaks of runs in which no two
requests overlapped so far: `Keeps` is what a request that is alone may rely on after each
await (what it read is still so, what it wrote is still there), and `Agreement` that without
faults only the name it is writing may differ between the stores. Faults and half-done
requests are allowed in the first of the two theorems, which is why it is about the
repeated addition and not only about the first.

## SocatPorts: the port of a proxy

`ProviderLifecycle` takes the port of a proxy as given; this module is the choice. A
container carries a port in its label and holds it once it runs (`containers`), other
programs hold `Foreign`. A creation sweeps what its last attempt left (`Clean`,
`CleanAgain`), picks a port from the labels and the ports it tried (`Pick`,
`NextBindPort`), creates and starts the container (`Create`, `Start`), and picks again when
Docker finds the port taken (`StartRefused`), `MaxRetry` times (`GiveUp`). `StartClash` is the
address of the container being taken, after which all begins anew. Ports are sorted the
way the code sorts them, as strings.

Every way out with an error removes what the code tries to remove there (`Dropped`): the
container that could not start, or the one of the last conflict
(`lastPortInUseContainerId`), also when a later pick, sweep or creation fails (`Fail`) or the
name turns out to be taken (`Create`). Whether that removal fails is ignored at both places
(`create`:97 and `_createContainerWithoutPort`:399), so `CleanUp` answers the same error with
the container gone or still there. `stuck` is a history variable of the request: a removal of
its own failed, or the address of one of its containers was taken. `Crash` ends the process
in the middle of any number of creations; what is there stays.

| Run | Instance | What it shows |
|---|---|---|
| `ports_requests` | 2 slots, 6 ports of four digits of which another program holds the start port and the next, 3 attempts, 3 requests, 2 faults | `PickedIsFree`: an attempt never picks a port it knows to be taken; `RetriesSuffice`: a request only gives up when that many ports are held by others; `RefusedLeavesNothing`: a creation that is refused, at whichever step, leaves no container, unless it is `stuck`; `NoSelfConflict`: its name is free when it creates, with the same exception |

Three attempts and two foreign ports are the smallest instance in which a request
succeeds on its last attempt, and in which one other proxy makes it give up. Two faults
are an address that is taken followed by a failing call, or a failed call and a crash. The
code's own number of attempts is a parameter; it has to be two at least, since with one
`_createContainer` has neither an error nor a result after `StartClash`.

`Array.sort` is written by ranks (`Rank`, `Sorted`): the n-th element has n - 1 smaller ones,
smaller as strings. `StringsInOrder` says that on the ports of the instance the order of
strings is the order of numbers, as it is as long as no port of four digits and one of five
are in use together; where it fails `PickedIsFree` fails too (see the known divergences).

Proved in `PortsProofs`, for all ports, slots and bounds: `RefusedIsClean`
(`RefusedLeavesNothing`) and `NameIsFree` (`NoSelfConflict`) from `PortsInv`, which holds
`TypeOK` and says for each place of the handler which containers of its own a request can
have left as long as it is not `stuck` (`Phase`), whatever failed and whoever crashed before; and under `StringsInOrder` `PickIsFree` (`PickedIsFree`) and
`RetriesAreEnough` (`RetriesSuffice`) from `AttemptsInv`. That one is about ports other
requests may have given back since, so it speaks of a history, and says that one exists:
`ran` gives the port on which each request got its container to run, and every attempt that
was refused met one of those or a foreign port, no two the same. What `NextBindPort` returns
is a lemma of its own (the end of a gap, the start or the end of the list is in no list),
with the first gap found by the least-number principle (`LeastOf`). `TypeOK` is no part of
the run.

## IdentityRegistry and MystIdentity: identities in three stores

An identity is usable when it has a row, a directory with its key, and a MYST container.
`IdentityRegistry` is the abstract promise: identities are entered and given up, leased and
released; only one that is known and free is leased or given up. `MystIdentity` is the code:

* `uploads`, `dirs`, `keys`: the file store. A key is the passphrase that unlocks it.
* `rows`: the table, soft deletes and the unique index included.
* `containers`: MYST and MYST_CONNECT containers, the label with the id of the row (`row`)
  and the network they joined (`on`) included.
* `tasks`: the calls a removal makes in parallel (`Promise.all`), each of which runs on its
  own or fails, also after the handler has gone.
* `req[s]` as in the other modules; a creation that is rolled back becomes a removal and
  remembers why. `erased` and `overlapped` are history variables.

`create` is `AddLook` to `RegisterIdentity`: the file is parsed and moved by a copy and an
unlink (`CopyKey`, `UnlinkUpload`), the row found or inserted, an old MYST container removed
and a new one created and started (with the tidying of containers that were never
started, which may be somebody else's), and the identity unlocked and registered at the
daemon; a refusal there rolls everything back. `remove` is `RemoveFindRow` to `JoinTasks`, or,
for what an earlier removal left, `RestFindRow` to `RestRemoveFile`. `up` and `down` are kept as
far as they concern the identity. `Fail` ends a handler at any call, `TaskFails` one of the
parallel calls, `Crash` all of them.

| Run | Instance | What it shows |
|---|---|---|
| `identity_requests` | 2 identities, 2 passphrases, 2 slots, 4 requests (2 once two were served at a time), 2 faults | `KeyNotLost` under every interleaving; one at a time `CreatedIsWhole`, `RefusedLeavesNothing`, `AddHeals`, `RemovedIsGone`, `InStep` and the refinement `ImplementsRegistry`, whatever earlier requests left half done |
| `identity_existing` | violation: 1 identity, 1 slot, 3 requests, 1 fault | `ExistingRefused`: see Findings |

Four requests in a row are a creation, a removal that stops half-way, one that completes
it or a creation that repairs it, and a use of the result. Two at a time are two
creations of one identity, or a removal under either. `RetryAssumption` keeps the
retries of the MYST container (three, after "Address already in use") from running out:
each of them is a fault, and two faults are all there are.

Proved in `IdentityProofs`: `KeyIsNotLost` (`Spec => []KeyNotLost`), for all constants. A
creation must own its upload (`Numbers`), may unlink it only once the key is in the store,
and when it is rolled back and so becomes a removal it takes its identity from the row
with the id it kept, which therefore has to be the row of this identity (`KeyOK`).
`TypeCorrect` (`Spec => []TypeOK`) also says that a key never lies outside a directory.
`ServiceImplementsRegistry` (`Spec => ImplementsRegistry`) comes from `AloneInv`, which speaks
of runs without overlaps so far: the parts of a removal belong to the one request that
waits for them and concern an identity that serves nobody (`TasksOK`), what a removal or an
`up` has read still holds when it acts (`SlotOK`), and connections with one number are of
one identity (`ConnectsOK`), so that a `down` releases one lease at most. The proof then
says for each action what it does to the identities that are known and leased (`Entered`,
`Left`, `Taken`, `Released`, `Unseen`).

What the answers promise, `CreationIsWhole` (`CreatedIsWhole`), `RefusalLeavesNothing`
(`RefusedLeavesNothing`), `CreationHeals` (`AddHeals`), `RemovalIsGone` (`RemovedIsGone`) and
`StoresInStep` (`InStep`), comes from `StageInv`, on top of the three invariants above. It
speaks of a request nobody overlapped with, and says for each place of its handler what it
has found in the stores or put there by now (`StageOK`): the upload, the key, the row and the
container of a creation; which parts of a removal are done and which wait. `DoneOK` is what
the answers mean, `RefusedOK` that a creation the daemon refused still has everything when
its own removal begins (which is why that removal finds it all), and `SyncOK` that without
faults the stores may differ only about the identity that is being worked on. Faults of earlier requests are all allowed: a creation
must work from whatever is left, so no part may assume that the stores agree at its start,
except for `InStep` itself.

## Favorites: users' proxies and marks

`proxies`, `grants` and `users` are the surroundings: proxies come and go, rules of the
access list and users change between any two steps (`CreateProxy`, `Change`). `rows` is the
table of marks: a row names a proxy by id and the unique index is on the proxy alone.
`told` is a history variable: the marks there are according to the answers sent. `Open(u)`
is `UsersProxyAggregateRepository.getByUserId`, which looks at the first page of the proxies
only; `ListUser`, `ListRead` are `getByUserId` of the service; `AddOpen`, `AddInsert` are `createBulk`;
`UpdateGet` to `UpdateSave` are `update`; `BulkUpdate` and `BulkRemove` are single statements over the
ids of rows.

| Run | Instance | What it shows |
|---|---|---|
| `favorites_requests` | 2 users, 3 ports, 2 kinds, 2 proxies at first and 3 at most, pages of 2, 2 slots, 4 events | `AllOrNothing` under every interleaving: a refused bulk addition left no row; one at a time `ListShowsTold` (a list shows exactly what the answers said) and `StaysRemoved` |

An event is a request, a change of the surroundings or a fault. Four of them add two
marks, let a proxy go and a new one take its port, and list. There are as many proxies at
first as a page shows; a third one on the third port, with a new id at the head of the list,
pushes the oldest off the page, whose mark is then listed no more, until one of
the others goes. A bulk change or removal names up to two rows, or none at all when
its ids are of no row (`IdLists`): an empty list must not be taken for no condition, or the
rows would change of which nobody was told (`ListShowsTold`). `TypeOK` holds and is no part of
the run.

Proved in `FavoritesProofs`, for all users, ports, bounds and slots: `ListsAreWhole`
(`AllOrNothing`) under any interleaving, and `RemovalsStay` (`StaysRemoved`) and `ListsAreTrue`
(`ListShowsTold`) while no two requests overlapped. A row is named by the addition that made
it. `RequestsOK` says that the names in the table grow by nobody else's additions: before its
insertion none is named after a request, after it all of its marks are or none (`Sound`).
`RowsOK` says that names are unique, and proxies among live rows. `AloneInv` says that what
the answers told is exactly the live rows, and that a row an update has loaded is still live
when it is saved, so that saving it never brings a removed one back.

## Listing and Catalogue: what is shown of providers and proxies

`Listing` has the filters, the stable sort and the pages as operators. `Catalogue` puts the
views of providers and proxies together from the three places they come from:

* `market`, `runners`: the offers as the API lists them and the containers as Docker lists
  them; both change between any two steps. `Odd` providers have a kind of address the
  program does not know and are dropped.
* `tmp`, `ttl`, `pending`: the cached names, the keys that expire, and the commands that set an
  expiry and that nobody waits for; `info`: the addresses, which nothing removes.
* `req[s]`: the query, the offers and containers read, the answer.

`ListRead` and `ListSave` are the two `getAll`, `GetCache` to `GetMerge` is `getById` through the
cache. `Merged`, `ProviderList`, `ProviderGet`, `ProxyList`, `UsersProxies` are the merges of the
aggregate repositories. `Crash` loses the commands not sent yet, `GetCacheFails` is an error
of redis, which the code takes for a miss.

| Run | Instance | What it shows |
|---|---|---|
| `catalogue_requests` | 3 providers of which one is odd, up to 2 proxies each, 2 slots, 3 events | `CacheTransparent`: what is cached, expired or left behind never changes what a look-up finds; `ViewsAgree`: listed, looked up and as seen by its proxies a provider is in the same state; `PagesPartition`: the pages of a list hold each record once and in order (and the type invariant) |
| `market_pages` | violation: 1 event | `MarketPages`: see Findings |

The initial states already hold one provider on every stage of its way to two proxies, one
with a proxy, and every order of the market, so that three events are three deviations
from it: a list, an expiry or a change, and a look-up. Pages are cut in sizes 1 and 2 out
of lists of up to three records.

Proved in `CatalogueProofs`: `CacheIsTransparent` (`Spec => CacheTransparent`) from the
invariant that a name is only ever kept under its own id and that a look-up leaves the
cache with none or the one asked for. `CatalogueTypes` (`Spec => []TypeOK`) from `TInv`, which
knows the shape of every list and of each request. `PagesCoverLists` (`PagesPartition`) for
every list and every size of a page: what a filter keeps, written by ranks (`Kept`), is
shown to hold each record once and in order, and the first k pages joined to be the first
so many records (`JoinedPages`), by the least k for which they would not be.
`TheViewsAgree` (`ViewsAgree`) under `OnePage`, that the containers of one provider fit on one
page: the look-up asks Docker for them with the default page of the filter model, 100
(`filter.model.ts:18`), and would miss the rest. `RunnersOK` says that Docker lists each
container once and a provider has one of each kind but of proxies, so that the look-up by
provider and the listing of all find the same ones.

## Bounds and deadlock

`MaxOps`, `MaxEvents`, `MaxFaults`, `MaxLapses` and `MaxParallel` limit how many requests, changes and
faults there are; no code corresponds to them. They end every behaviour, so deadlock is not
checked in any run. Sets of names, passwords, identities and providers are symmetric where
no operator orders them and no liveness is checked (`Symmetric` in the MC modules).

## Findings

* `identity_existing`: the look-up that should refuse an identity that exists
  (`myst-identity-aggregate.repository.ts:111`) is made with the placeholder the controller
  put there, before the file says which identity it is. A second upload overwrites the key,
  keeps the old row with its passphrase, and replaces the running MYST container.
* `market_pages`: the list of offers is cut into pages twice, by the API repository and by
  `filterAndSortVpnProvider` (`myst-provider-aggregate.repository.ts:68`): every page but the
  first is empty. The test's API returns everything on every page.

## Known divergences without a run

Five statements were checked as violations before and keep their definitions; the
constants bring them back:

| Property | Module and constants | What happens |
|---|---|---|
| `DownAllNotStoppedByProxies` | `MCProvider`: 2 providers, 2 identities, 1 slot, `Kinds` up, create, downAll; `MaxOps` 3, `MaxFaults` 1 | a creation failed between SOCAT and ENVOY: the proxy has no ENVOY and is not found by the provider, but is counted, and the removal of all proxies is refused because of it |
| `DownSparesProxiedProvider` | `MCProvider`: 1 provider, 2 identities, 2 slots, `Kinds` up, down, create; 3, 0 | `down` reads the count of proxies and disconnects several awaits later |
| `CreatedIsListed` | `MCAcl`: 2 users, 1 port, 2 slots, 2, 0 | two creations that read the file before either writes it are both answered with success; one row is there |
| `DuplicateResolved` | `MCUsers`: 1 name, 2 passwords, 2 slots, 2, 0 | a duplicate met by the insertion is reported by another class of exception than the branch of `add` asks for |
| `PickedIsFree` | `MCPorts`: 1 slot, `StartPort` 9999, `Ports` 9998 to 10001, `Foreign` empty, `MaxRetry` 3, 3, 0 | ports are sorted as strings; with 9999 and 10000 in use one of them is picked, on every retry |

Met while reading, modelled where a property depends on it:

* `skip` is `page - 1` without the size of a page in `users-pg.repository.ts:89`,
  `myst-identity-pg.repository.ts:51` and `favorites-pg.repository.ts:58`: pages overlap.
* A page past the end of the market ends in an error of redis (`mset` of no keys).
* The second proxy of a provider is listed as disabled; with the daemon's container gone
  the list of proxies throws; a user's proxies come from the first page of all proxies;
  the address of a provider stays in redis after its connection is gone.
* The result of `_removeCreatedContainerById` is ignored in
  `docker-runner-create-socat.repository.ts:97` and `:399`: when the removal fails, the client
  is told `PortInUseException` or `UnknownException` and the refused container stays, counted
  as a proxy, until the next creation under its name sweeps it. After "Address already in
  use" the sweep leaves the container, and the creation ends in a conflict of names.
* The documentation of the bulk change and removal of favourites speaks of ids of proxies;
  the code takes ids of rows.
* `docker-runner-create-envoy.repository.ts:85-86` sets `ENABLE_WAIT_STARTUP` twice and never
  `ENABLE_HEALTHCHECK`, so the health check of an ENVOY always succeeds and one that is left
  in the network of a MYST container that restarted is not restarted.

## What is proved and what is only checked

| Module | Proved for all constants | Checked by TLC only |
|---|---|---|
| ProviderLifecycle | `TypeOK`, `EstablishedSurvivesUp`; for one slot all properties of `provider_sequential`, `ImplementsLease` included | |
| MystConnect | `ImplementsLifecycle`; for one slot `SparesWorkingTunnel` | `TunnelRecovers` (liveness) |
| NginxAcl | `TypeOK`, `NginxAgrees`; for one slot `NoDuplicateGrant`, `FileIntact`, `ImplementsStore` | |
| UsersStores | `TypeOK`, `UniqueName`, `OkMeansBoth`, `InStep` | |
| SocatPorts | `RefusedLeavesNothing`, `NoSelfConflict`; under `StringsInOrder` `PickedIsFree`, `RetriesSuffice` | |
| MystIdentity | `TypeOK`, `KeyNotLost`, `CreatedIsWhole`, `RefusedLeavesNothing`, `AddHeals`, `RemovedIsGone`, `InStep`, `ImplementsRegistry` | |
| Favorites | `AllOrNothing`, `StaysRemoved`, `ListShowsTold` | |
| Catalogue | `TypeOK`, `CacheTransparent`, `PagesPartition`; under `OnePage` `ViewsAgree` | |

Every proof uses only the named assumptions on the constants, except for three hypotheses
that the theorems state themselves, because the property is not meant, or does not hold,
without them: `OneSlot` (one request at a time: see `DownSparesProxiedProvider` and
`CreatedIsListed` above for two), `StringsInOrder` (see `PickedIsFree` above) and `OnePage`
(the code's page of containers is 100). The instances that TLC checks satisfy them.

Liveness under fairness stays with TLC: it needs ENABLED, which the prover does not handle.
The library's induction theorems cannot be used with the provers at hand, since they take an
operator; where a proof needs induction over data (pages, ranks, the first gap) it takes a
least counterexample instead, with `WFMin` and `NatLessThanWellFounded`.

## Not modelled

* Commands: one-shot scripts over library code; the seed of the first user is an addition
  as in `UsersStores`.
* Docker and system adapters: thin wrappers; what they return is an input of the handlers.
* Container images other than MYST_CONNECT: start-up scripts that hand over to a server.
* HTTP layer: validation, guards, tokens and the shape of responses keep no state; the
  contents of requests are modelled as far as a handler branches on them.
* Configuration, modules, entities, migrations: wiring and schema; the unique indexes are
  part of the modules of their tables.
* Of modelled parts: roles and the password check of users, the layout of the ACL rows,
  container options, notes and dates of favourites, filters by country and kind of address.

`PROJECT.json` has the reasons one by one.

## Plan

Done: the provider lifecycle and its scripts, the access list, users, ports, identities,
favourites, the catalogue with its cache and lists; every safety invariant, action property
and refinement the passing runs check is a theorem. Left for the proofs:

* the part of recovery that is no liveness: a step a script takes is never one away from a
  working tunnel (a measure that `ConnectVpn` and the restarts bring down);
* `SparesWorkingTunnel` for several slots as long as no `up` runs on the identity of the
  script;
* shorter proofs where one step per action repeats what a lemma about the frame could say once
  (`IdentityProofs`, `CatalogueProofs`).
