------------------------------ MODULE Catalogue ------------------------------
(***************************************************************************)
(* The listings and look-ups of VPN providers and proxies.  A provider is  *)
(* put together from three places: the offers of the market (the API of    *)
(* Mysterium), a cache in Redis, and the containers Docker lists.  The     *)
(* cache has two parts: for every provider that was listed its name under  *)
(* its id, for five minutes, and for every provider that was connected its *)
(* address, which the entrypoint of MYST_CONNECT puts there and nothing    *)
(* removes.  The id of a provider is a hash of its name: a provider stands *)
(* for both, and the cache may in principle hold the wrong name.           *)
(*                                                                         *)
(* The market and the containers change on their own; the requests of this *)
(* module change the cache only.  What a handler awaits in parallel        *)
(* (Promise.all) it reads in one step.  All containers of a provider run   *)
(* on one identity, so that "myst" of a provider is the daemon of that     *)
(* identity.  Filters by country and kind of address work as the one by    *)
(* name and are left out.                                                  *)
(***************************************************************************)
EXTENDS Listing, Functions

CONSTANTS
  Provider,
  Odd,          \* providers whose kind of address the program does not know
  None,         \* no provider
  MaxProxies,   \* bound on the proxies of a provider
  Slots,        \* requests the API may be serving at the same time
  MaxEvents     \* bound on requests, changes of the surroundings and faults

ASSUME CatalogueAssumption ==
  /\ IsFiniteSet(Provider) /\ Odd \subseteq Provider /\ None \notin Provider
  /\ MaxProxies \in Nat \ {0} /\ MaxEvents \in Nat

VARIABLES
  market,       \* the providers on offer, as the API lists them
  runners,      \* the containers, as Docker lists them: the newest first
  tmp,          \* tmp[p]: the name cached under the id of p, or None
  ttl,          \* the keys of tmp that expire
  info,         \* the providers with an address in Redis
  pending,      \* keys of tmp whose expiry is to be set: nobody waits for it
  req,          \* req[s]: the request served in slot s
  events        \* requests, changes and faults so far

world == <<market, runners, info>>
cache == <<tmp, ttl, pending>>
vars == <<market, runners, tmp, ttl, info, pending, req, events>>

Services == {"myst", "connect", "envoy", "socat"}

(* "exited" stands for all states in which a container does not run.       *)
Runner == [service : Services, of : Provider, status : {"creating", "running", "exited"}, n : Nat]

Ids(list) == {list[i].of : i \in DOMAIN list}

ProviderView == [of : Provider, providerIdentity : Provider, isRegister : BOOLEAN, proxyCount : Nat,
                 status : {"none", "pending", "online", "offline"}, ip : BOOLEAN]
ProxyView == [of : Provider, listenPort : Nat, ip : BOOLEAN,
              status : {"disable", "offline", "online"}]

PCs == {"idle", "list.read", "list.mset", "get.cache", "get.api", "get.info", "get.merge", "done"}
Outcomes == {"none", "Ok", "NotFound", "Repository", "Unknown"}

(* The locals of a handler: the query, the offers read and whether they    *)
(* have an address, the containers read, and the answer.                   *)
Idle == [pc |-> "idle", kind |-> "none", of |-> None, q |-> FilterModel(0, 0, TRUE, <<>>, "none"),
         offers |-> <<>>, ip |-> FALSE, seen |-> <<>>, answer |-> <<>>, out |-> "none"]

TypeOK ==
  /\ market \in Seq(Provider) /\ runners \in Seq(Runner)
  /\ tmp \in [Provider -> Provider \cup {None}]
  /\ ttl \subseteq {p \in Provider : tmp[p] # None}
  /\ info \subseteq Provider /\ pending \subseteq Provider
  /\ \A s \in Slots :
       /\ req[s].pc \in PCs /\ req[s].out \in Outcomes
       /\ req[s].kind \in {"none", "providers", "proxies", "provider"}
       /\ req[s].of \in Provider \cup {None}
       /\ req[s].offers \in Seq(Provider) /\ req[s].ip \in BOOLEAN
       /\ req[s].seen \in Seq(Runner)
       /\ Range(req[s].answer) \subseteq ProviderView \cup ProxyView
  /\ events \in 0 .. MaxEvents

-----------------------------------------------------------------------------
(* What is made of the data that was read.                                 *)

WholeList == FilterModel(0, 0, TRUE, <<>>, "none")

(* MystProviderApiRepository._fillModel: an offer, not connected yet.      *)
Offer(p, ip) == [of |-> p, providerIdentity |-> p, isRegister |-> FALSE, proxyCount |-> 0,
                 status |-> "none", ip |-> ip]

(* The model getById falls back to for a provider that is not on offer.    *)
DefaultOffer(p) == [Offer(p, FALSE) EXCEPT !.isRegister = TRUE]

Has(list, p, service) == \E r \in Range(list) : r.of = p /\ r.service = service
Status(list, p, service) == (CHOOSE r \in Range(list) : r.of = p /\ r.service = service).status
Registered(list, p) == Has(list, p, "connect") /\ Has(list, p, "myst")
Socats(list, p) == {r.n : r \in {x \in Range(list) : x.of = p /\ x.service = "socat"}}

(* Mutant: the state of the container is passed on.                        *)
ViewStatusRaw(v, list, onOffer) == Status(list, v.of, "connect")

ViewStatus(v, list, onOffer) ==
  IF ~onOffer \/ Status(list, v.of, "myst") # "running" THEN "offline"
  ELSE CASE Status(list, v.of, "connect") = "creating" -> "pending"
         [] Status(list, v.of, "connect") = "running" -> "online"
         [] OTHER -> "offline"

(* _mergeData: without a connection the address is taken out.              *)
Merged(v, list, onOffer) ==
  IF ~Registered(list, v.of) THEN [v EXCEPT !.ip = FALSE]
  ELSE [v EXCEPT !.isRegister = TRUE, !.proxyCount = Cardinality(Socats(list, v.of)),
                 !.status = ViewStatus(v, list, onOffer)]

(* What the API is asked for.  Offers that cannot be read are dropped.     *)
Asked(q) ==
  Kept(market, {i \in DOMAIN market :
    /\ market[i] \notin Odd
    /\ "providerIdentity" \notin DOMAIN q.cond \/ q.cond.providerIdentity = market[i]})

(* Mutant: the API cuts the page out in every case.                        *)
ApiPageAlways(offers, q) == Slice(offers, q.page, q.limit)

(* Of what the API returns a page is cut out, unless the query is about    *)
(* registration, which only Docker knows.                                  *)
ApiPage(offers, q) ==
  IF "isRegister" \in DOMAIN q.cond THEN offers ELSE Slice(offers, q.page, q.limit)

(* MystProviderAggregateRepository.getAll, given what was read: the page   *)
(* of the API, the containers and the addresses.                           *)
ProviderList(page, list, ips, q) ==
  LET views == [i \in DOMAIN page |-> Merged(Offer(page[i], page[i] \in ips), list, TRUE)]
  IN  IF "isRegister" \in DOMAIN q.cond /\ q.cond.isRegister /\ list = <<>>
      THEN [list |-> <<>>, total |-> 0]
      ELSE FilterAndSortVpnProvider(views, q)

(* MystProviderAggregateRepository.getById: the containers with the label  *)
(* of the provider, then the daemon of their identity.                     *)
ProviderGet(p, offer, list, daemons) ==
  LET base == IF offer = <<>> THEN DefaultOffer(p) ELSE offer[1]
  IN  IF list = <<>> THEN offer
      ELSE IF ~Has(daemons, p, "myst") THEN <<base>>
      ELSE <<Merged(base, list \o daemons, offer # <<>>)>>

(* All containers of a provider fit on the first page of them.             *)
OnePage == MaxProxies + 2 <= DefaultLimit

(* The containers that carry the id of the provider in a label (the daemon *)
(* only has that of its identity), and the daemons: the first page of them.*)
FirstPage == FilterModel(0, 0, FALSE, <<>>, "none")

OfProvider(p) ==
  LET carries == {i \in DOMAIN runners : runners[i].of = p /\ runners[i].service # "myst"}
  IN  FilterAndSortRunner(Kept(runners, carries), FirstPage).list

DaemonsOf(p) ==
  LET daemons == {i \in DOMAIN runners : runners[i].of = p /\ runners[i].service = "myst"}
  IN  FilterAndSortRunner(Kept(runners, daemons), FirstPage).list

(* Mutant: the daemon is not looked at.                                    *)
ProxyStatusBlind(list, p) ==
  IF ~Has(list, p, "envoy") THEN "disable"
  ELSE IF /\ Status(list, p, "envoy") = "running"
          /\ Has(list, p, "connect") /\ Status(list, p, "connect") = "running"
  THEN "online" ELSE "offline"

ProxyStatus(list, p) ==
  IF ~Has(list, p, "envoy") THEN "disable"
  ELSE IF /\ Has(list, p, "connect") /\ Has(list, p, "myst")
          /\ \A service \in {"envoy", "connect", "myst"} : Status(list, p, service) = "running"
  THEN "online" ELSE "offline"

(* The daemon is looked up by its index; without one the status of nothing *)
(* is read, once the envoy is found to run.                                *)
MergeThrows(list) ==
  \E p \in Ids(list) :
    /\ Socats(list, p) # {} /\ ~Has(list, p, "myst") /\ Has(list, p, "connect")
    /\ Has(list, p, "envoy") /\ Status(list, p, "envoy") = "running"

(* ProxyAggregateRepository.getAll.  The entry of a provider is used up by *)
(* the first of its proxies on the list: a second one is shown without a   *)
(* provider behind it.                                                     *)
ProxyList(list, providers, q) ==
  LET socats == Kept(list, {i \in DOMAIN list : list[i].service = "socat"})
      First(i) == \A j \in 1 .. i - 1 : socats[j].of # socats[i].of
      View(i) ==
        LET p == socats[i].of
            behind == First(i) /\ Has(list, p, "envoy")
        IN  [of |-> p, listenPort |-> socats[i].n,
             ip |-> behind /\ \E v \in Range(providers) : v.of = p /\ v.ip,
             status |-> IF behind THEN ProxyStatus(list, p) ELSE "disable"]
  IN  FilterAndSortProxyUpstream([i \in DOMAIN socats |-> View(i)], q)

(* The proxies of a user who may use all of them: those of the first page. *)
UsersProxies(list, providers, q) ==
  FilterAndSortUsersProxy(ProxyList(list, providers, FirstPage).list, q)

(* The query of the proxies for the providers.                             *)
AllRegistered == FilterModel(0, 0, TRUE, [isRegister |-> TRUE], "none")

-----------------------------------------------------------------------------
(* The surroundings.                                                       *)

Counted == events < MaxEvents /\ events' = events + 1

Join(p) ==
  /\ Counted /\ p \notin Range(market)
  /\ market' = Append(market, p)
  /\ UNCHANGED <<runners, info, cache, req>>

Withdraw(p) ==
  /\ Counted /\ p \in Range(market)
  /\ market' = Kept(market, {i \in DOMAIN market : market[i] # p})
  /\ UNCHANGED <<runners, info, cache, req>>

(* What a container is created behind: `up` needs the daemon, a proxy the  *)
(* connection.                                                             *)
CanStart(p, service) ==
  CASE service = "myst" -> ~Has(runners, p, "myst")
    [] service = "connect" -> Has(runners, p, "myst") /\ ~Has(runners, p, "connect")
    [] service = "envoy" -> Has(runners, p, "connect") /\ ~Has(runners, p, "envoy")
    [] service = "socat" -> Has(runners, p, "connect") /\ Cardinality(Socats(runners, p)) < MaxProxies

NextPort == LET ports == {0} \cup UNION {Socats(runners, p) : p \in Provider}
            IN  1 + (CHOOSE n \in ports : \A m \in ports : m <= n)

StartRunner(p, service) ==
  /\ Counted /\ CanStart(p, service)
  /\ runners' = <<[service |-> service, of |-> p, status |-> "creating",
                   n |-> IF service = "socat" THEN NextPort ELSE 0]>> \o runners
  /\ UNCHANGED <<market, info, cache, req>>

ChangeRunner(i, status) ==
  /\ Counted /\ runners[i].status # status /\ runners[i].service # "socat"
  /\ runners' = [runners EXCEPT ![i].status = status]
  /\ UNCHANGED <<market, info, cache, req>>

RemoveRunner(i) ==
  /\ Counted
  /\ runners' = Kept(runners, DOMAIN runners \ {i})
  /\ UNCHANGED <<market, info, cache, req>>

(* store_ip_in_redis of the entrypoint.                                    *)
StoreIp(p) ==
  /\ Counted /\ p \notin info
  /\ Has(runners, p, "connect") /\ Status(runners, p, "connect") = "running"
  /\ info' = info \cup {p}
  /\ UNCHANGED <<market, runners, cache, req>>

Expire(p) ==
  /\ Counted /\ p \in ttl
  /\ tmp' = [tmp EXCEPT ![p] = None] /\ ttl' = ttl \ {p}
  /\ UNCHANGED <<world, pending, req>>

-----------------------------------------------------------------------------
(* The requests.                                                           *)

At(s, pc) == req[s].pc = pc
Goto(s, pc) == req' = [req EXCEPT ![s].pc = pc]
Answer(s, out) == req' = [req EXCEPT ![s] = [@ EXCEPT !.pc = "done", !.out = out, !.offers = <<>>,
                                                     !.ip = FALSE, !.seen = <<>>]]

(* The queries a client sends: with a page and a size, or with neither.    *)
Cuts == {<<0, 0>>, <<2, 1>>}
Queries(kind) ==
  {FilterModel(cut[1], cut[2], FALSE, cond, "none") : cut \in Cuts,
     cond \in IF kind = "proxies" THEN {<<>>, [status |-> "online"]}
              ELSE {<<>>, [isRegister |-> TRUE, proxyCount |-> 1]}}

BeginList(s, kind) ==
  /\ Counted /\ At(s, "idle")
  /\ \E q \in Queries(kind) :
       req' = [req EXCEPT ![s].pc = "list.read", ![s].kind = kind, ![s].q = q]
  /\ UNCHANGED <<world, cache>>

BeginGet(s) ==
  /\ Counted /\ At(s, "idle")
  /\ \E p \in Provider :
       req' = [req EXCEPT ![s].pc = "get.cache", ![s].kind = "provider", ![s].of = p]
  /\ UNCHANGED <<world, cache>>

Reply(s) ==
  /\ At(s, "done")
  /\ req' = [req EXCEPT ![s] = Idle]
  /\ UNCHANGED <<world, cache, events>>

(* The answer to a listing, or that putting it together threw.             *)
ListAnswer(r, page) ==
  IF r.kind = "providers" THEN ProviderList(page, runners, info, r.q).list
  ELSE ProxyList(runners, ProviderList(page, runners, info, AllRegistered).list, r.q).list

Query(s) == IF req[s].kind = "providers" THEN req[s].q ELSE AllRegistered

(* The market, the addresses and the containers are read at once.  Without *)
(* any offer there is nothing to put into the cache.                       *)
ListRead(s) ==
  /\ At(s, "list.read")
  /\ LET page == ApiPage(Asked(Query(s)), Query(s))
         none == Asked(Query(s)) = <<>>
         throws == req[s].kind = "proxies" /\ MergeThrows(runners)
     IN  req' = [req EXCEPT ![s] = [@ EXCEPT
                   !.pc = IF none THEN "done" ELSE "list.mset",
                   !.offers = IF none THEN <<>> ELSE page,
                   !.answer = IF throws THEN <<>> ELSE ListAnswer(req[s], page),
                   !.out = IF throws THEN "Unknown" ELSE "Ok"]]
  /\ UNCHANGED <<world, cache, events>>

(* Docker alone fails: what the market has is still put into the cache.    *)
ListRunnersFails(s) ==
  /\ Counted /\ At(s, "list.read") /\ Asked(Query(s)) # <<>>
  /\ req' = [req EXCEPT ![s] = [@ EXCEPT !.pc = "list.mset", !.out = "Repository",
                                         !.offers = ApiPage(Asked(Query(s)), Query(s))]]
  /\ UNCHANGED <<world, cache>>

(* Mutant: every id gets the name of the next one.                         *)
SavedMisaligned(page) ==
  [p \in Provider |-> IF p \in Range(page)
                      THEN page[1 + ((CHOOSE i \in DOMAIN page : page[i] = p) % Len(page))]
                      ELSE tmp[p]]

Saved(page) == [p \in Provider |-> IF p \in Range(page) THEN p ELSE tmp[p]]

(* All keys are written at once, which ends their expiry; it is set again  *)
(* by commands nobody waits for.  Without a key the command is an error.   *)
ListSave(s) ==
  /\ At(s, "list.mset")
  /\ IF req[s].offers = <<>>
     THEN /\ req' = [req EXCEPT ![s] = [@ EXCEPT !.pc = "done", !.answer = <<>>, !.out = "Repository"]]
          /\ UNCHANGED cache
     ELSE /\ tmp' = Saved(req[s].offers)
          /\ ttl' = ttl \ Range(req[s].offers)
          /\ pending' = pending \cup Range(req[s].offers)
          /\ Answer(s, req[s].out)
  /\ UNCHANGED <<world, events>>

SetExpiry(p) ==
  /\ p \in pending
  /\ pending' = pending \ {p}
  /\ ttl' = ttl \cup ({p} \cap {x \in Provider : tmp[x] # None})
  /\ UNCHANGED <<world, tmp, req, events>>

(* The cached name, or that in the address; the containers are listed in   *)
(* parallel.  With a name the API is asked for it, else for everything.    *)
GetCache(s) ==
  /\ At(s, "get.cache")
  /\ LET p == req[s].of
         name == IF tmp[p] # None THEN tmp[p] ELSE IF p \in info THEN p ELSE None
     IN  req' = [req EXCEPT ![s].pc = "get.api", ![s].seen = OfProvider(p),
                            ![s].offers = IF name = None THEN <<>> ELSE <<name>>]
  /\ UNCHANGED <<world, cache, events>>

(* An error of Redis is taken for a name that is not cached.               *)
GetCacheFails(s) ==
  /\ Counted /\ At(s, "get.cache")
  /\ req' = [req EXCEPT ![s].pc = "get.api", ![s].seen = OfProvider(req[s].of)]
  /\ UNCHANGED <<world, cache>>

(* Found by name the address is looked up next, found by id it is not.     *)
GetApi(s) ==
  /\ At(s, "get.api")
  /\ LET cached == req[s].offers # <<>>
         name == IF cached THEN req[s].offers[1] ELSE req[s].of
         found == IF name \in Range(Asked(WholeList)) THEN <<name>> ELSE <<>>
     IN  req' = [req EXCEPT ![s].offers = found,
                            ![s].pc = IF cached /\ found # <<>> THEN "get.info" ELSE "get.merge"]
  /\ UNCHANGED <<world, cache, events>>

GetInfo(s) ==
  /\ At(s, "get.info")
  /\ req' = [req EXCEPT ![s].pc = "get.merge", ![s].ip = req[s].offers[1] \in info]
  /\ UNCHANGED <<world, cache, events>>

(* The daemon is listed when there are containers, and all is merged.      *)
GetMerge(s) ==
  /\ At(s, "get.merge")
  /\ LET offers == req[s].offers
         view == ProviderGet(req[s].of, [i \in DOMAIN offers |-> Offer(offers[i], req[s].ip)],
                             req[s].seen, DaemonsOf(req[s].of))
     IN  req' = [req EXCEPT ![s] = [@ EXCEPT !.pc = "done", !.offers = <<>>, !.ip = FALSE,
                   !.seen = <<>>, !.answer = view,
                   !.out = IF view = <<>> THEN "NotFound" ELSE "Ok"]]
  /\ UNCHANGED <<world, cache, events>>

(* The daemon, Redis or Docker answers with an error.                      *)
Fail(s) ==
  /\ Counted
  /\ req[s].pc \in {"list.read", "list.mset", "get.api", "get.info", "get.merge"}
  /\ req' = [req EXCEPT ![s] = [@ EXCEPT !.pc = "done", !.out = "Repository", !.offers = <<>>,
                !.ip = FALSE, !.seen = <<>>, !.answer = <<>>]]
  /\ UNCHANGED <<world, cache>>

(* The process dies, with the commands not sent yet.                       *)
Crash ==
  /\ Counted /\ pending # {}
  /\ pending' = {} /\ req' = [s \in Slots |-> Idle]
  /\ UNCHANGED <<world, tmp, ttl>>

-----------------------------------------------------------------------------
(* At first everything is on offer, one provider is on any stage of its    *)
(* way to two proxies, and another has one.  An address may be left from a *)
(* connection there was, or not be there yet.                              *)
Built(p, stage, port) ==
  LET R(service, n) == [service |-> service, of |-> p, status |-> "running", n |-> n]
      all == <<R("socat", port + 1), R("socat", port), R("envoy", 0), R("connect", 0), R("myst", 0)>>
  IN  SubSeq(all, 6 - stage, 5)

Init ==
  /\ \E p, o \in Provider \ Odd, stage \in 0 .. 5 :
       /\ p # o /\ stage <= 3 + MaxProxies
       /\ runners = Built(p, stage, 3) \o Built(o, 4, 1)
       /\ info \in {{}, {p, o}}
  /\ \E m \in [1 .. Cardinality(Provider) -> Provider] :
       /\ \A k, l \in DOMAIN m : m[k] = m[l] => k = l
       /\ m[1] \notin Odd /\ m[Len(m)] \notin Odd
       /\ market = m
  /\ tmp = [p \in Provider |-> None] /\ ttl = {} /\ pending = {}
  /\ req = [s \in Slots |-> Idle] /\ events = 0

Surroundings ==
  \/ \E p \in Provider : Join(p) \/ Withdraw(p) \/ StoreIp(p) \/ Expire(p)
  \/ \E p \in Provider \ Odd, service \in Services : StartRunner(p, service)
  \/ \E i \in DOMAIN runners : RemoveRunner(i) \/ \E st \in {"running", "exited"} : ChangeRunner(i, st)

Serve(s) ==
  \/ \E kind \in {"providers", "proxies"} : BeginList(s, kind)
  \/ BeginGet(s) \/ ListRead(s) \/ ListRunnersFails(s) \/ ListSave(s)
  \/ GetCache(s) \/ GetCacheFails(s) \/ GetApi(s) \/ GetInfo(s) \/ GetMerge(s)
  \/ Fail(s) \/ Reply(s)

Next == Surroundings \/ (\E s \in Slots : Serve(s)) \/ (\E p \in Provider : SetExpiry(p)) \/ Crash

Spec == Init /\ [][Next]_vars

-----------------------------------------------------------------------------
(* Properties.  Those about the surroundings, which no request changes,    *)
(* are stated where none is served.                                        *)

Quiet == \A s \in Slots : At(s, "idle")

(* myst-provider-cache-api.repository.ts, getById: the cache only changes  *)
(* how the API is asked.  Whatever was cached, expired or left behind, the *)
(* look-up finds the provider asked for when it is on offer, and no other. *)
CacheTransparent ==
  [][\A s \in Slots :
       At(s, "get.api") /\ req'[s].pc \in {"get.info", "get.merge"} =>
         req'[s].offers = IF req[s].of \in Range(Asked(WholeList)) THEN <<req[s].of>> ELSE <<>>]_vars

(* myst-provider-aggregate.repository.ts, getAll and getById, and          *)
(* proxy-aggregate.repository.ts, getAll: the three views of a provider    *)
(* agree.  Listed and looked up it is as much registered, in the same      *)
(* state and with as many proxies; and a proxy is listed as online only    *)
(* when its provider is registered and online or no longer on offer.       *)
ViewsAgree ==
  LET listed == ProviderList(Asked(WholeList), runners, info, WholeList).list
      proxies == ProxyList(runners, listed, WholeList).list
      Get(p) == ProviderGet(p, <<Offer(p, p \in info)>>, OfProvider(p), DaemonsOf(p))[1]
  IN  Quiet =>
      /\ \A v \in Range(listed) : [Get(v.of) EXCEPT !.ip = v.ip] = v
      /\ \A v \in Range(listed), x \in Range(proxies) :
           v.of = x.of /\ x.status = "online" => v.status = "online"

(* filterAndSortVpnProvider.ts, filterAndSortProxyUpstream.ts and          *)
(* filterAndSortUsersProxy.ts behind the repositories: the pages of a      *)
(* listing hold each of its records once, in the order of the whole list.  *)
PagesPartition ==
  LET Registered1(q) == ProviderList(ApiPage(Asked(q), q), runners, info, q)
      listed == Registered1(AllRegistered).list
      Proxies(q) == ProxyList(runners, listed, q)
      OfUser(q) == UsersProxies(runners, listed, q)
      Cut(Listed(_), cond, sort) ==
        LET whole == Listed(FilterModel(0, 0, TRUE, cond, sort)).list
        IN  \A limit \in 1 .. 2 : Pages(Listed, limit, cond, sort, Len(whole)) = whole
  IN  Quiet =>
      /\ Cut(Registered1, [isRegister |-> TRUE], "none")
      /\ \A st \in {"online", "offline", "disable"} : Cut(Proxies, [status |-> st], "none")
      /\ \A sort \in {"asc", "desc"} : Cut(OfUser, <<>>, sort)

(* myst-provider-aggregate.repository.ts, getAll, as its test has it: the  *)
(* second page of the market holds the offers the first one does not.      *)
(* Does not hold: the page is cut out twice.                               *)
MarketPages ==
  LET Market(q) == ProviderList(ApiPage(Asked(q), q), runners, info, q)
      Names(list) == [i \in DOMAIN list |-> list[i].of]
  IN  Names(Pages(Market, 1, <<>>, "none", Len(market))) = Asked(WholeList)
=============================================================================
