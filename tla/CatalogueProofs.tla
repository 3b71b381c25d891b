--------------------------- MODULE CatalogueProofs ---------------------------
(***************************************************************************)
(* Proofs about the listings and the look-ups, for any market, any number  *)
(* of concurrent requests, and whatever expires, fails or dies in between. *)
(*                                                                         *)
(* 1. The cache of names is transparent.  The invariant says that a name   *)
(*    is only ever kept under its own id (NamesRight), that a look-up      *)
(*    carries no name into the cache, and that it leaves it with none or   *)
(*    with the one asked for (LookUpOK).                                   *)
(* 2. Docker lists every container once, and none of them gets a port      *)
(*    another one has (RunnersOK).                                         *)
(* 3. The pages of a listing, put together, are the whole list.  This is   *)
(*    an induction over the number of pages; it goes by the least number   *)
(*    of pages for which it would be wrong.                                *)
(* 4. The state and the requests have their types.                         *)
(* 5. The look-up of a provider sees the containers the listing sees of    *)
(*    it, so that the views agree.                                         *)
(***************************************************************************)
EXTENDS Catalogue, FiniteSetTheorems, FunctionTheorems, SequenceTheorems, NaturalsInduction,
        WellFoundedInduction, TLAPS

NamesRight ==
  /\ DOMAIN tmp = Provider
  /\ \A p \in Provider : tmp[p] \in {p, None}

(* The slots hold requests: records with the fields of an idle one.        *)
Fields == {"pc", "kind", "of", "q", "offers", "ip", "seen", "answer", "out"}
Shaped == DOMAIN req = Slots /\ \A s \in Slots : DOMAIN req[s] = Fields

LookUp(r) ==
  /\ r.pc \in {"idle", "get.cache"} => r.offers = <<>>
  /\ r.pc \in {"get.cache", "get.api"} => r.of \in Provider
  /\ r.pc = "get.api" => r.offers \in {<<>>, <<r.of>>}

LookUpOK == \A s \in Slots : LookUp(req[s])

IInv == NamesRight /\ Shaped /\ LookUpOK

-----------------------------------------------------------------------------
LEMMA IdleOK == DOMAIN Idle = Fields /\ LookUp(Idle)
  BY DEF Idle, Fields, LookUp

LEMMA InitInv == Init => IInv
  <1> SUFFICES ASSUME Init PROVE IInv
    OBVIOUS
  <1>1. tmp = [p \in Provider |-> None] /\ req = [s \in Slots |-> Idle]
    BY DEF Init
  <1> QED
    BY <1>1, IdleOK DEF IInv, NamesRight, Shaped, LookUpOK

(* A step that puts a request into one slot keeps the requests in order.   *)
LEMMA PutRequest ==
  ASSUME Shaped, LookUpOK, NEW s \in Slots, NEW r,
         DOMAIN r = Fields, LookUp(r), req' = [req EXCEPT ![s] = r]
  PROVE  Shaped' /\ LookUpOK'
  BY DEF Shaped, LookUpOK

(* Saving a page keeps names under their ids.                              *)
LEMMA SavedRight ==
  ASSUME NamesRight, NEW page, tmp' = Saved(page)
  PROVE  NamesRight'
  BY DEF NamesRight, Saved

-----------------------------------------------------------------------------
(* The steps that read or write the cache, one by one.                     *)

LEMMA GetCacheStep ==
  ASSUME IInv, NEW s \in Slots, GetCache(s)
  PROVE  IInv'
  <1> DEFINE p == req[s].of
             name == IF tmp[p] # None THEN tmp[p] ELSE IF p \in info THEN p ELSE None
             found == IF name = None THEN <<>> ELSE <<name>>
             r == [req[s] EXCEPT !.pc = "get.api", !.seen = OfProvider(p), !.offers = found]
  <1>1. p \in Provider
    BY DEF IInv, LookUpOK, LookUp, GetCache, At
  <1>2. found \in {<<>>, <<p>>}
    BY <1>1 DEF IInv, NamesRight
  <1>3. DOMAIN req[s] = Fields /\ DOMAIN req = Slots
    BY DEF IInv, Shaped
  <1>4. req' = [req EXCEPT ![s] = r]
    BY <1>3, Zenon DEF GetCache
  <1>5. r.pc = "get.api" /\ r.offers = found /\ r.of = p /\ DOMAIN r = Fields
    BY <1>3 DEF Fields
  <1>6. LookUp(r)
    BY <1>1, <1>2, <1>5 DEF LookUp
  <1> HIDE DEF r
  <1>7. Shaped' /\ LookUpOK'
    BY <1>4, <1>5, <1>6, PutRequest DEF IInv
  <1>8. NamesRight'
    BY DEF GetCache, cache, IInv, NamesRight
  <1> QED
    BY <1>7, <1>8 DEF IInv

(* Found or not, the name looked for is the one asked for.                 *)
LEMMA GetApiStep ==
  ASSUME IInv, NEW s \in Slots, GetApi(s)
  PROVE  req'[s].offers = IF req[s].of \in Range(Asked(WholeList)) THEN <<req[s].of>> ELSE <<>>
  <1> DEFINE p == req[s].of
             cached == req[s].offers # <<>>
             name == IF cached THEN req[s].offers[1] ELSE p
             found == IF name \in Range(Asked(WholeList)) THEN <<name>> ELSE <<>>
  <1>1. req[s].offers \in {<<>>, <<p>>}
    BY DEF IInv, LookUpOK, LookUp, GetApi, At
  <1>2. name = p
    BY <1>1
  <1>3. DOMAIN req[s] = Fields /\ DOMAIN req = Slots
    BY DEF IInv, Shaped
  <1>4. req'[s].offers = found
    <2> DEFINE l == IF cached /\ found # <<>> THEN "get.info" ELSE "get.merge"
    <2>1. req' = [req EXCEPT ![s].offers = found, ![s].pc = l]
      BY DEF GetApi
    <2> HIDE DEF found, l
    <2> QED
      BY <1>3, <2>1 DEF Fields
  <1> QED
    BY <1>2, <1>4

(* The other steps of a request.  Once it is past the look-up it matters   *)
(* no more what it carries.                                                *)
LEMMA PastLookUp ==
  ASSUME IInv, NEW s \in Slots, NEW r, DOMAIN r = Fields,
         r.pc \notin {"idle", "get.cache", "get.api"}, req' = [req EXCEPT ![s] = r]
  PROVE  Shaped' /\ LookUpOK'
  <1>1. LookUp(r)
    BY DEF LookUp
  <1> QED
    BY <1>1, PutRequest DEF IInv

LEMMA BeginStep ==
  ASSUME IInv, NEW s \in Slots,
         BeginGet(s) \/ \E kind \in {"providers", "proxies"} : BeginList(s, kind)
  PROVE  Shaped' /\ LookUpOK'
  <1>d. DOMAIN req[s] = Fields /\ DOMAIN req = Slots
    BY DEF IInv, Shaped
  <1>1. CASE BeginGet(s)
    <2>1. PICK p \in Provider :
            req' = [req EXCEPT ![s].pc = "get.cache", ![s].kind = "provider", ![s].of = p]
      BY <1>1 DEF BeginGet
    <2> DEFINE r == [req[s] EXCEPT !.pc = "get.cache", !.kind = "provider", !.of = p]
    <2>2. req' = [req EXCEPT ![s] = r]
      BY <1>d, <2>1, Zenon
    <2>3. req[s].offers = <<>>
      BY <1>1 DEF BeginGet, At, IInv, LookUpOK, LookUp
    <2>4. DOMAIN r = Fields /\ r.pc = "get.cache" /\ r.of = p /\ r.offers = <<>>
      BY <1>d, <2>3 DEF Fields
    <2>5. LookUp(r)
      BY <2>4 DEF LookUp
    <2> HIDE DEF r
    <2> QED
      BY <2>2, <2>4, <2>5, PutRequest DEF IInv
  <1>2. ASSUME NEW kind \in {"providers", "proxies"}, BeginList(s, kind)
        PROVE  Shaped' /\ LookUpOK'
    <2>1. PICK q \in Queries(kind) :
            req' = [req EXCEPT ![s].pc = "list.read", ![s].kind = kind, ![s].q = q]
      BY <1>2 DEF BeginList
    <2> DEFINE r == [req[s] EXCEPT !.pc = "list.read", !.kind = kind, !.q = q]
    <2>2. req' = [req EXCEPT ![s] = r]
      BY <1>d, <2>1, Zenon
    <2>3. DOMAIN r = Fields /\ r.pc = "list.read"
      BY <1>d DEF Fields
    <2> HIDE DEF r
    <2> QED
      BY <2>2, <2>3, PastLookUp
  <1> QED
    BY <1>1, <1>2

LEMMA GetCacheFailsStep ==
  ASSUME IInv, NEW s \in Slots, GetCacheFails(s)
  PROVE  Shaped' /\ LookUpOK'
  <1> DEFINE r == [req[s] EXCEPT !.pc = "get.api", !.seen = OfProvider(req[s].of)]
  <1>d. DOMAIN req[s] = Fields /\ DOMAIN req = Slots
    BY DEF IInv, Shaped
  <1>1. req[s].of \in Provider /\ req[s].offers = <<>>
    BY DEF GetCacheFails, At, IInv, LookUpOK, LookUp
  <1>2. req' = [req EXCEPT ![s] = r]
    BY <1>d, Zenon DEF GetCacheFails
  <1>3. DOMAIN r = Fields /\ r.pc = "get.api" /\ r.of = req[s].of /\ r.offers = <<>>
    BY <1>d, <1>1 DEF Fields
  <1>4. LookUp(r)
    BY <1>1, <1>3 DEF LookUp
  <1> HIDE DEF r
  <1> QED
    BY <1>2, <1>3, <1>4, PutRequest DEF IInv

LEMMA LookUpEnds ==
  ASSUME IInv, NEW s \in Slots, GetApi(s) \/ GetInfo(s) \/ GetMerge(s) \/ Fail(s)
  PROVE  Shaped' /\ LookUpOK'
  <1>d. DOMAIN req[s] = Fields /\ DOMAIN req = Slots
    BY DEF IInv, Shaped
  <1>1. CASE GetApi(s)
    <2> DEFINE cached == req[s].offers # <<>>
               name == IF cached THEN req[s].offers[1] ELSE req[s].of
               found == IF name \in Range(Asked(WholeList)) THEN <<name>> ELSE <<>>
               l == IF cached /\ found # <<>> THEN "get.info" ELSE "get.merge"
               r == [req[s] EXCEPT !.offers = found, !.pc = l]
    <2>1. req' = [req EXCEPT ![s].offers = found, ![s].pc = l]
      BY <1>1 DEF GetApi
    <2>2. l \in {"get.info", "get.merge"}
      OBVIOUS
    <2> HIDE DEF found, l
    <2>3. req' = [req EXCEPT ![s] = r]
      BY <1>d, <2>1, Zenon
    <2>4. DOMAIN r = Fields /\ r.pc = l
      BY <1>d DEF Fields
    <2> HIDE DEF r
    <2> QED
      BY <2>2, <2>3, <2>4, PastLookUp
  <1>2. CASE GetInfo(s)
    <2> DEFINE r == [req[s] EXCEPT !.pc = "get.merge", !.ip = req[s].offers[1] \in info]
    <2>1. req' = [req EXCEPT ![s] = r]
      BY <1>d, <1>2, Zenon DEF GetInfo
    <2>2. DOMAIN r = Fields /\ r.pc = "get.merge"
      BY <1>d DEF Fields
    <2> HIDE DEF r
    <2> QED
      BY <2>1, <2>2, PastLookUp
  <1>3. CASE GetMerge(s)
    <2>1. PICK view, out :
            req' = [req EXCEPT ![s] = [@ EXCEPT !.pc = "done", !.offers = <<>>, !.ip = FALSE,
                                                !.seen = <<>>, !.answer = view, !.out = out]]
      BY <1>3 DEF GetMerge
    <2> DEFINE r == [req[s] EXCEPT !.pc = "done", !.offers = <<>>, !.ip = FALSE,
                                   !.seen = <<>>, !.answer = view, !.out = out]
    <2>2. req' = [req EXCEPT ![s] = r]
      BY <2>1
    <2>3. DOMAIN r = Fields /\ r.pc = "done"
      BY <1>d DEF Fields
    <2> HIDE DEF r
    <2> QED
      BY <2>2, <2>3, PastLookUp
  <1>4. CASE Fail(s)
    <2> DEFINE r == [req[s] EXCEPT !.pc = "done", !.out = "Repository", !.offers = <<>>,
                                   !.ip = FALSE, !.seen = <<>>, !.answer = <<>>]
    <2>1. req' = [req EXCEPT ![s] = r]
      BY <1>4 DEF Fail
    <2>2. DOMAIN r = Fields /\ r.pc = "done"
      BY <1>d DEF Fields
    <2> HIDE DEF r
    <2> QED
      BY <2>1, <2>2, PastLookUp
  <1> QED
    BY <1>1, <1>2, <1>3, <1>4

LEMMA ListStep ==
  ASSUME IInv, NEW s \in Slots, ListRead(s) \/ ListRunnersFails(s) \/ ListSave(s)
  PROVE  Shaped' /\ LookUpOK'
  <1>d. DOMAIN req[s] = Fields /\ DOMAIN req = Slots
    BY DEF IInv, Shaped
  <1>1. CASE ListRead(s)
    <2>1. ASSUME NEW l \in {"done", "list.mset"}, NEW offers, NEW answer, NEW out,
                 req' = [req EXCEPT ![s] = [@ EXCEPT !.pc = l, !.offers = offers,
                                                     !.answer = answer, !.out = out]]
          PROVE  Shaped' /\ LookUpOK'
      <3> DEFINE r == [req[s] EXCEPT !.pc = l, !.offers = offers, !.answer = answer, !.out = out]
      <3>1. req' = [req EXCEPT ![s] = r]
        BY <2>1
      <3>2. DOMAIN r = Fields /\ r.pc = l
        BY <1>d DEF Fields
      <3> HIDE DEF r
      <3> QED
        BY <3>1, <3>2, PastLookUp
    <2> QED
      BY <1>1, <2>1 DEF ListRead
  <1>2. CASE ListRunnersFails(s)
    <2> DEFINE r == [req[s] EXCEPT !.pc = "list.mset", !.out = "Repository",
                       !.offers = ApiPage(Asked(Query(s)), Query(s))]
    <2>1. req' = [req EXCEPT ![s] = r]
      BY <1>2 DEF ListRunnersFails
    <2>2. DOMAIN r = Fields /\ r.pc = "list.mset"
      BY <1>d DEF Fields
    <2> HIDE DEF r
    <2> QED
      BY <2>1, <2>2, PastLookUp
  <1>3. ASSUME req' = [req EXCEPT ![s] = [@ EXCEPT !.pc = "done", !.answer = <<>>, !.out = "Repository"]]
        PROVE  Shaped' /\ LookUpOK'
    <2> DEFINE r == [req[s] EXCEPT !.pc = "done", !.answer = <<>>, !.out = "Repository"]
    <2>1. req' = [req EXCEPT ![s] = r]
      BY <1>3
    <2>2. DOMAIN r = Fields /\ r.pc = "done"
      BY <1>d DEF Fields
    <2> HIDE DEF r
    <2> QED
      BY <2>1, <2>2, PastLookUp
  <1>4. ASSUME NEW o, Answer(s, o) PROVE Shaped' /\ LookUpOK'
    <2> DEFINE r == [req[s] EXCEPT !.pc = "done", !.out = o, !.offers = <<>>, !.ip = FALSE,
                                   !.seen = <<>>]
    <2>1. req' = [req EXCEPT ![s] = r]
      BY <1>4 DEF Answer
    <2>2. DOMAIN r = Fields /\ r.pc = "done"
      BY <1>d DEF Fields
    <2> HIDE DEF r
    <2> QED
      BY <2>1, <2>2, PastLookUp
  <1> QED
    BY <1>1, <1>2, <1>3, <1>4 DEF ListSave

LEMMA ServeStep ==
  ASSUME IInv, NEW s \in Slots, Serve(s)
  PROVE  IInv'
  <1>1. CASE GetCache(s)
    BY <1>1, GetCacheStep
  <1>2. CASE ListSave(s)
    <2>1. NamesRight'
      <3>1. CASE UNCHANGED cache
        BY <3>1 DEF cache, IInv, NamesRight
      <3>2. CASE tmp' = Saved(req[s].offers)
        BY <3>2, SavedRight DEF IInv
      <3> QED
        BY <1>2, <3>1, <3>2 DEF ListSave
    <2> QED
      BY <1>2, <2>1, ListStep DEF IInv
  <1>3. CASE Reply(s)
    <2>1. req' = [req EXCEPT ![s] = Idle]
      BY <1>3 DEF Reply
    <2>2. Shaped' /\ LookUpOK'
      BY <2>1, IdleOK, PutRequest DEF IInv
    <2> QED
      BY <1>3, <2>2 DEF Reply, cache, IInv, NamesRight
  <1>4. ASSUME UNCHANGED cache, Shaped' /\ LookUpOK' PROVE IInv'
    BY <1>4 DEF cache, IInv, NamesRight
  <1>5. CASE BeginGet(s) \/ \E kind \in {"providers", "proxies"} : BeginList(s, kind)
    <2>1. UNCHANGED cache
      BY <1>5 DEF BeginGet, BeginList
    <2> QED
      BY <1>4, <1>5, <2>1, BeginStep
  <1>6. CASE ListRead(s) \/ ListRunnersFails(s)
    <2>1. UNCHANGED cache
      BY <1>6 DEF ListRead, ListRunnersFails
    <2> QED
      BY <1>4, <1>6, <2>1, ListStep
  <1>7. CASE GetCacheFails(s)
    <2>1. UNCHANGED cache
      BY <1>7 DEF GetCacheFails
    <2> QED
      BY <1>4, <1>7, <2>1, GetCacheFailsStep
  <1>8. CASE GetApi(s) \/ GetInfo(s) \/ GetMerge(s) \/ Fail(s)
    <2>1. UNCHANGED cache
      BY <1>8 DEF GetApi, GetInfo, GetMerge, Fail
    <2> QED
      BY <1>4, <1>8, <2>1, LookUpEnds
  <1> QED
    BY <1>1, <1>2, <1>3, <1>5, <1>6, <1>7, <1>8 DEF Serve

LEMMA SurroundingsStep ==
  ASSUME IInv, Surroundings
  PROVE  IInv' /\ UNCHANGED req
  <1>1. ASSUME NEW p \in Provider, Expire(p) PROVE IInv' /\ UNCHANGED req
    <2>1. tmp' = [tmp EXCEPT ![p] = None] /\ UNCHANGED req
      BY <1>1 DEF Expire
    <2>2. NamesRight'
      BY <2>1 DEF IInv, NamesRight
    <2> QED
      BY <2>1, <2>2 DEF IInv, Shaped, LookUpOK
  <1>2. ASSUME UNCHANGED <<cache, req>> PROVE IInv' /\ UNCHANGED req
    BY <1>2 DEF cache, IInv, NamesRight, Shaped, LookUpOK
  <1>3. ASSUME NEW p \in Provider, Join(p) \/ Withdraw(p) \/ StoreIp(p)
        PROVE  IInv' /\ UNCHANGED req
    BY <1>2, <1>3 DEF Join, Withdraw, StoreIp
  <1>4. ASSUME NEW p, NEW service, StartRunner(p, service) PROVE IInv' /\ UNCHANGED req
    BY <1>2, <1>4 DEF StartRunner
  <1>5. ASSUME NEW i, RemoveRunner(i) PROVE IInv' /\ UNCHANGED req
    BY <1>2, <1>5 DEF RemoveRunner
  <1>6. ASSUME NEW i, NEW st, ChangeRunner(i, st) PROVE IInv' /\ UNCHANGED req
    BY <1>2, <1>6 DEF ChangeRunner
  <1> QED
    BY <1>1, <1>3, <1>4, <1>5, <1>6 DEF Surroundings

LEMMA NextInv == IInv /\ [Next]_vars => IInv'
  <1> SUFFICES ASSUME IInv, [Next]_vars PROVE IInv'
    OBVIOUS
  <1>1. ASSUME NEW p \in Provider, SetExpiry(p) PROVE IInv'
    BY <1>1 DEF SetExpiry, IInv, NamesRight, Shaped, LookUpOK
  <1>2. CASE Crash
    <2>1. req' = [s \in Slots |-> Idle] /\ UNCHANGED tmp
      BY <1>2 DEF Crash
    <2> QED
      BY <2>1, IdleOK DEF IInv, NamesRight, Shaped, LookUpOK
  <1>3. CASE UNCHANGED vars
    BY <1>3 DEF vars, IInv, NamesRight, Shaped, LookUpOK
  <1> QED
    BY <1>1, <1>2, <1>3, ServeStep, SurroundingsStep DEF Next

LEMMA Invariance == Spec => []IInv
  BY InitInv, NextInv, PTL DEF Spec

-----------------------------------------------------------------------------
(* A request is changed by its own steps only, and only GetApi leads from  *)
(* the API to what follows it.                                             *)
LEMMA ServeOther ==
  ASSUME Shaped, NEW s \in Slots, NEW t \in Slots, t # s, Serve(t)
  PROVE  req'[s] = req[s]
  <1>d. DOMAIN req = Slots
    BY DEF Shaped
  <1>1. CASE BeginGet(t) \/ \E kind \in {"providers", "proxies"} : BeginList(t, kind)
    BY <1>d, <1>1 DEF BeginGet, BeginList
  <1>2. CASE ListRead(t) \/ ListRunnersFails(t) \/ ListSave(t)
    BY <1>d, <1>2 DEF ListRead, ListRunnersFails, ListSave, Answer
  <1>3. CASE GetCache(t) \/ GetCacheFails(t) \/ GetApi(t)
    BY <1>d, <1>3 DEF GetCache, GetCacheFails, GetApi
  <1>4. CASE GetInfo(t) \/ GetMerge(t) \/ Fail(t) \/ Reply(t)
    BY <1>d, <1>4 DEF GetInfo, GetMerge, Fail, Reply
  <1> QED
    BY <1>1, <1>2, <1>3, <1>4 DEF Serve

LEMMA OnlyGetApi ==
  ASSUME IInv, [Next]_vars, NEW s \in Slots,
         At(s, "get.api"), req'[s].pc \in {"get.info", "get.merge"}
  PROVE  GetApi(s)
  <1>1. req'[s] # req[s]
    BY DEF At
  <1>2. \A t \in Slots : Serve(t) => t = s
    BY <1>1, ServeOther DEF IInv
  <1>3. ~Crash
    <2> SUFFICES ASSUME Crash PROVE FALSE
      OBVIOUS
    <2>1. req'[s] = Idle
      BY DEF Crash
    <2> QED
      BY <2>1 DEF Idle
  <1>4. ~Surroundings /\ ~UNCHANGED vars /\ ~\E p \in Provider : SetExpiry(p)
    BY <1>1, SurroundingsStep DEF vars, SetExpiry
  <1>5. Serve(s)
    BY <1>2, <1>3, <1>4 DEF Next
  <1>6. ~Fail(s)
    <2> SUFFICES ASSUME Fail(s) PROVE FALSE
      OBVIOUS
    <2>1. DOMAIN req = Slots /\ DOMAIN req[s] = Fields
      BY DEF IInv, Shaped
    <2>2. req'[s].pc = "done"
      BY <2>1 DEF Fail, Fields
    <2> QED
      BY <2>2
  <1> QED
    BY <1>5, <1>6 DEF At, Serve, BeginGet, BeginList, ListRead, ListRunnersFails, ListSave,
                      GetCache, GetCacheFails, GetInfo, GetMerge, Reply

(* The cache only changes how the API is asked: whatever was cached,       *)
(* expired or left behind, and whatever runs at the same time, a look-up   *)
(* finds the provider asked for when it is on offer, and no other          *)
(* (myst-provider-cache-api.repository.ts, getById).                       *)
THEOREM CacheIsTransparent == Spec => CacheTransparent
  <1>1. ASSUME IInv, [Next]_vars
        PROVE  [\A s \in Slots :
                  At(s, "get.api") /\ req'[s].pc \in {"get.info", "get.merge"} =>
                    req'[s].offers = IF req[s].of \in Range(Asked(WholeList))
                                     THEN <<req[s].of>> ELSE <<>>]_vars
    BY <1>1, OnlyGetApi, GetApiStep
  <1> QED
    BY <1>1, Invariance, PTL DEF Spec, CacheTransparent

-----------------------------------------------------------------------------
(* What Kept returns.  Each place is listed where as many others are ahead *)
(* of it as its number less one.                                           *)
Ahead(I, i) == Cardinality(I \cap 1 .. i - 1)

LEMMA AheadGrows ==
  ASSUME NEW n \in Nat, NEW I \in SUBSET (1 .. n)
  PROVE  /\ Cardinality(I) \in Nat /\ IsFiniteSet(I) /\ I \subseteq Int
         /\ \A i \in I : Ahead(I, i) \in 0 .. Cardinality(I) - 1
         /\ \A i, j \in I : i < j => Ahead(I, i) < Ahead(I, j)
<1> DEFINE Below(i) == I \cap 1 .. i - 1
<1>1. IsFiniteSet(I) /\ I \subseteq Int /\ Cardinality(I) \in Nat
  <2>1. IsFiniteSet(1 .. n)
    BY FS_Interval
  <2>2. IsFiniteSet(I)
    BY <2>1, FS_Subset
  <2>3. I \subseteq Int
    OBVIOUS
  <2> QED
    BY <2>2, <2>3, FS_CardinalityType
<1>2. \A i \in I : /\ IsFiniteSet(Below(i)) /\ Cardinality(Below(i)) \in Nat
                   /\ Ahead(I, i) = Cardinality(Below(i))
  BY <1>1, FS_Subset, FS_CardinalityType DEF Ahead
<1>3. \A i, j \in I : j \in Below(i) <=> j < i
  BY <1>1
<1>4. \A i \in I : Below(i) \subseteq I
  OBVIOUS
<1> HIDE DEF Below
<1>5. ASSUME NEW i \in I, NEW T \in SUBSET I, Below(i) \cup {i} \subseteq T
      PROVE  Cardinality(Below(i)) + 1 =< Cardinality(T)
  <2>1. i \notin Below(i)
    BY <1>1, <1>3
  <2>2. Cardinality(Below(i) \cup {i}) = Cardinality(Below(i)) + 1
    BY <1>2, <2>1, FS_AddElement
  <2>3. IsFiniteSet(T)
    BY <1>1, FS_Subset
  <2> QED
    BY <1>5, <2>2, <2>3, FS_Subset
<1>6. ASSUME NEW i \in I PROVE Ahead(I, i) \in 0 .. Cardinality(I) - 1
  BY <1>1, <1>2, <1>4, <1>5
<1>7. ASSUME NEW i \in I, NEW j \in I, i < j PROVE Ahead(I, i) < Ahead(I, j)
  <2>1. ASSUME NEW k \in Below(i) \cup {i} PROVE k \in Below(j)
    <3>1. k \in I /\ k \in Int /\ i \in Int /\ j \in Int /\ (k < i \/ k = i)
      BY <1>1, <1>3, <1>4
    <3>2. k < j
      BY <1>7, <3>1
    <3> QED
      BY <1>3, <3>1, <3>2
  <2>2. Cardinality(Below(i)) + 1 =< Cardinality(Below(j))
    BY <1>4, <1>5, <2>1
  <2> QED
    BY <1>2, <2>2
<1> QED
  BY <1>1, <1>6, <1>7

LEMMA AheadAll ==
  ASSUME NEW n \in Nat, NEW I \in SUBSET (1 .. n)
  PROVE  /\ \A k \in 1 .. Cardinality(I) : \E i \in I : Ahead(I, i) = k - 1
         /\ \A i, j \in I : Ahead(I, i) = Ahead(I, j) => i = j
<1> DEFINE N == Cardinality(I)
           f == [i \in I |-> Ahead(I, i) + 1]
<1>1. /\ N \in Nat /\ I \subseteq Int /\ IsFiniteSet(I)
      /\ \A i \in I : Ahead(I, i) \in 0 .. N - 1
      /\ \A i, j \in I : i < j => Ahead(I, i) < Ahead(I, j)
  BY AheadGrows
<1>2. \A i, j \in I : Ahead(I, i) = Ahead(I, j) => i = j
  BY <1>1
<1>3. f \in Surjection(I, 1 .. N)
  <2>1. f \in [I -> 1 .. N]
    BY <1>1
  <2>2. f \in Injection(I, 1 .. N)
    BY <1>1, <1>2, <2>1 DEF Injection, IsInjective
  <2>3. IsFiniteSet(1 .. N) /\ Cardinality(1 .. N) = N
    BY <1>1, FS_Interval
  <2> QED
    BY <2>2, <2>3, FS_Injection
<1>4. ASSUME NEW k \in 1 .. N PROVE \E i \in I : Ahead(I, i) = k - 1
  <2>1. PICK i \in I : f[i] = k
    BY <1>3 DEF Surjection
  <2>2. f[i] = Ahead(I, i) + 1 /\ Ahead(I, i) \in Int
    BY <1>1
  <2> QED
    BY <2>1, <2>2
<1> QED
  BY <1>2, <1>4

(* g numbers the places that are kept.                                     *)
Numbered(g, list, I) ==
  /\ g \in [1 .. Cardinality(I) -> I]
  /\ \A j, k \in 1 .. Cardinality(I) : g[j] = g[k] => j = k
  /\ \A i \in I : \E k \in 1 .. Cardinality(I) : g[k] = i
  /\ Kept(list, I) = [k \in 1 .. Cardinality(I) |-> list[g[k]]]

LEMMA KeptIs ==
  ASSUME NEW n \in Nat, NEW I \in SUBSET (1 .. n), NEW list
  PROVE  \E g : Numbered(g, list, I)
<1> DEFINE N == Cardinality(I)
           ahead == [i \in I |-> Cardinality(I \cap 1 .. i - 1)]
           g == [k \in 1 .. N |-> CHOOSE i \in I : ahead[i] = k - 1]
<1>1. N \in Nat /\ \A i \in I : Ahead(I, i) \in 0 .. N - 1
  BY AheadGrows
<1>2. /\ \A k \in 1 .. N : \E i \in I : Ahead(I, i) = k - 1
      /\ \A i, j \in I : Ahead(I, i) = Ahead(I, j) => i = j
  BY AheadAll
<1>4. Kept(list, I) = [k \in 1 .. N |-> list[g[k]]]
  <2> DEFINE h(k) == CHOOSE i \in I : ahead[i] = k - 1
  <2>1. Kept(list, I) = [k \in 1 .. N |-> list[h(k)]]
    BY Zenon DEF Kept
  <2>2. \A k \in 1 .. N : g[k] = h(k)
    OBVIOUS
  <2> HIDE DEF g, h
  <2> QED
    BY <2>1, <2>2
<1>3. \A k \in 1 .. N : g[k] \in I /\ Ahead(I, g[k]) = k - 1
  <2>1. \A i \in I : ahead[i] = Ahead(I, i)
    BY DEF Ahead
  <2> HIDE DEF ahead
  <2> QED
    BY <1>2, <2>1
<1>5. g \in [1 .. N -> I]
  BY <1>3
<1> HIDE DEF g
<1>6. \A j, k \in 1 .. N : g[j] = g[k] => j = k
  BY <1>1, <1>3
<1>7. ASSUME NEW i \in I PROVE \E k \in 1 .. N : g[k] = i
  <2>1. Ahead(I, i) + 1 \in 1 .. N
    BY <1>1
  <2>2. PICK k \in 1 .. N : Ahead(I, i) = k - 1
    BY <1>1, <2>1
  <2> QED
    BY <1>2, <1>3, <2>2
<1> QED
  BY <1>4, <1>5, <1>6, <1>7 DEF Numbered

LEMMA KeptSeq ==
  ASSUME NEW S, NEW list \in Seq(S), NEW I \in SUBSET DOMAIN list
  PROVE  /\ Kept(list, I) \in Seq(S)
         /\ Cardinality(I) \in Nat /\ Len(Kept(list, I)) = Cardinality(I)
         /\ Range(Kept(list, I)) = {list[i] : i \in I}
<1>1. Len(list) \in Nat /\ I \in SUBSET (1 .. Len(list)) /\ \A i \in I : list[i] \in S
  OBVIOUS
<1>2. Cardinality(I) \in Nat
  BY <1>1, AheadGrows
<1>3. PICK g : Numbered(g, list, I)
  BY <1>1, KeptIs
<1>4. \A k \in 1 .. Cardinality(I) : g[k] \in I
  BY <1>3 DEF Numbered
<1>5. Kept(list, I) \in Seq(S) /\ Len(Kept(list, I)) = Cardinality(I)
  <2> DEFINE N == Cardinality(I)
  <2>1. Kept(list, I) = [k \in 1 .. N |-> list[g[k]]]
    BY <1>3 DEF Numbered
  <2>2. \A k \in 1 .. N : list[g[k]] \in S
    BY <1>1, <1>4
  <2>3. N \in Nat
    BY <1>2
  <2> HIDE DEF N
  <2>4. Kept(list, I) \in Seq(S) /\ Len(Kept(list, I)) = N
    BY <2>1, <2>2, <2>3
  <2> QED
    BY <2>4 DEF N
<1>6. DOMAIN Kept(list, I) = 1 .. Cardinality(I)
  BY <1>3 DEF Numbered
<1>7. \A k \in 1 .. Cardinality(I) : Kept(list, I)[k] = list[g[k]]
  BY <1>3 DEF Numbered
<1>8. Range(Kept(list, I)) = {list[i] : i \in I}
  BY <1>3, <1>4, <1>6, <1>7 DEF Range, Numbered
<1> QED
  BY <1>2, <1>5, <1>8

(* A page of a list.                                                       *)
LEMMA SliceSeq ==
  ASSUME NEW S, NEW list \in Seq(S), NEW page \in Nat \ {0}, NEW limit \in Nat \ {0}
  PROVE  /\ Slice(list, page, limit) \in Seq(S)
         /\ Range(Slice(list, page, limit)) \subseteq Range(list)
<1> DEFINE m == (page - 1) * limit + 1
           n == IF page * limit < Len(list) THEN page * limit ELSE Len(list)
<1>1. m \in Int /\ m >= 1 /\ n \in Int /\ n =< Len(list)
  <2>1. (page - 1) * limit \in Nat /\ page * limit \in Int
    OBVIOUS
  <2> QED
    BY <2>1
<1>2. Slice(list, page, limit) = SubSeq(list, m, n)
  BY DEF Slice
<1> HIDE DEF m, n
<1>3. \A i \in m .. n : i \in 1 .. Len(list)
  BY <1>1
<1>4. \A i \in m .. n : list[i] \in S /\ list[i] \in Range(list)
  BY <1>3 DEF Range
<1>5. SubSeq(list, m, n) \in Seq(S) /\ SubSeq(list, m, n) \in Seq(Range(list))
  BY <1>1, <1>4, SubSeqProperties
<1>6. \A i \in DOMAIN SubSeq(list, m, n) : SubSeq(list, m, n)[i] \in Range(list)
  BY <1>5
<1> QED
  BY <1>2, <1>5, <1>6 DEF Range

LEMMA PagedSeq ==
  ASSUME NEW S, NEW list \in Seq(S), NEW q, q.page \in Nat \ {0}, q.limit \in Nat \ {0}
  PROVE  /\ Paged(list, q).list \in Seq(S)
         /\ Range(Paged(list, q).list) \subseteq Range(list)
<1>1. Slice(list, q.page, q.limit) \in Seq(S)
      /\ Range(Slice(list, q.page, q.limit)) \subseteq Range(list)
  BY SliceSeq
<1>2. Paged(list, q).list = IF q.skip THEN list ELSE Slice(list, q.page, q.limit)
  BY DEF Paged
<1> QED
  BY <1>1, <1>2

(* The first so many pages of a list are its beginning, and as many pages  *)
(* as there are records hold all of it.                                    *)
Joins(f, list, limit) ==
  f = [k \in 0 .. Len(list) |-> IF k = 0 THEN <<>> ELSE f[k - 1] \o Slice(list, k, limit)]

LEMMA JoinedPages ==
  ASSUME NEW S, NEW list \in Seq(S), NEW limit \in Nat \ {0}, NEW f, Joins(f, list, limit)
  PROVE  f[Len(list)] = list
<1> DEFINE N == Len(list)
           End(k) == IF k * limit < N THEN k * limit ELSE N
<1>1. N \in Nat
  OBVIOUS
<1>f. f[0] = <<>> /\ \A k \in 1 .. N : f[k] = f[k - 1] \o Slice(list, k, limit)
  <2>1. 0 \in 0 .. N /\ \A k \in 1 .. N : k \in 0 .. N /\ k # 0
    BY <1>1
  <2> QED
    BY <2>1 DEF Joins
<1>2. f[0] = SubSeq(list, 1, End(0))
  <2>1. 0 \in 0 .. N /\ End(0) = 0
    BY <1>1
  <2>2. SubSeq(list, 1, 0) = <<>>
    BY SubSeqEmpty
  <2> QED
    BY <1>f, <2>1, <2>2
<1>3. ASSUME NEW k \in 1 .. N, f[k - 1] = SubSeq(list, 1, End(k - 1))
      PROVE  f[k] = SubSeq(list, 1, End(k))
  <2> DEFINE c == (k - 1) * limit
             d == k * limit
             a == End(k - 1)
             b == End(k)
  <2>1. c \in Nat /\ d = c + limit
    OBVIOUS
  <2>2. a = (IF c < N THEN c ELSE N) /\ b = (IF d < N THEN d ELSE N)
    OBVIOUS
  <2>3. f[k] = SubSeq(list, 1, a) \o SubSeq(list, c + 1, b)
    BY <1>3, <1>f DEF Slice
  <2> HIDE DEF a, b, c, d
  <2>4. /\ a \in 0 .. N /\ b \in a .. N
        /\ c # a => a = N /\ b = N /\ b < c + 1
    BY <1>1, <2>1, <2>2
  <2>5. f[k] = SubSeq(list, 1, b)
    <3>1. CASE c = a
      <4>1. SubSeq(list, 1, a) \o SubSeq(list, a + 1, b) = SubSeq(list, 1, b)
        <5>1. 1 \in 1 .. N + 1 /\ a \in 1 - 1 .. N
          BY <1>1, <2>4
        <5> QED
          BY <2>4, <5>1, ConcatAdjacentSubSeq
      <4> QED
        BY <2>3, <3>1, <4>1
    <3>2. CASE c # a
      <4>1. SubSeq(list, c + 1, b) = <<>>
        <5>1. c + 1 \in Int /\ b \in Int
          BY <1>1, <2>1, <2>4
        <5> QED
          BY <2>4, <3>2, <5>1, SubSeqEmpty
      <4>2. SubSeq(list, 1, a) = list /\ SubSeq(list, 1, b) = list
        BY <2>4, <3>2, SubSeqFull
      <4> QED
        BY <2>3, <4>1, <4>2, ConcatEmptySeq
    <3> QED
      BY <3>1, <3>2
  <2> QED
    BY <2>5 DEF b
<1> DEFINE Less == {ss \in Nat \X Nat : ss[1] < ss[2]}
           Wrong == {k \in 0 .. N : f[k] # SubSeq(list, 1, End(k))}
<1> HIDE DEF End
<1>4. Wrong = {}
  <2> SUFFICES ASSUME Wrong # {} PROVE FALSE
    OBVIOUS
  <2>0. \A k : k \in Wrong <=> k \in 0 .. N /\ f[k] # SubSeq(list, 1, End(k))
    OBVIOUS
  <2> HIDE DEF Wrong
  <2>1. IsWellFoundedOn(Less, Nat)
    BY NatLessThanWellFounded DEF OpToRel
  <2>2. Wrong \subseteq Nat
    BY <1>1, <2>0
  <2>3. PICK k \in Wrong : \A j \in Wrong : <<j, k>> \notin Less
    BY <2>1, <2>2, WFMin
  <2>4. k # 0 /\ k \in 1 .. N
    BY <1>1, <1>2, <2>0
  <2>5. k - 1 \notin Wrong
    <3>1. <<k - 1, k>> \in Less
      BY <1>1, <2>4
    <3> QED
      BY <2>3, <3>1
  <2>6. f[k - 1] = SubSeq(list, 1, End(k - 1))
    BY <1>1, <2>0, <2>4, <2>5
  <2> QED
    BY <1>3, <2>0, <2>4, <2>6
<1>5. End(N) = N
  BY <1>1 DEF End
<1>6. f[N] = SubSeq(list, 1, N)
  BY <1>1, <1>4, <1>5
<1> QED
  BY <1>6, SubSeqFull

-----------------------------------------------------------------------------
(* The containers: Docker lists each of them once, and there are no more   *)
(* of a provider than the bound allows.                                    *)
Key(r) == <<r.service, r.of, r.n>>

RunnersOK(list) ==
  /\ list \in Seq(Runner)
  /\ \A i \in DOMAIN list : list[i].service # "socat" => list[i].n = 0
  /\ \A i, j \in DOMAIN list : Key(list[i]) = Key(list[j]) => i = j
  /\ \A p \in Provider : Cardinality(Socats(list, p)) =< MaxProxies

LEMMA SocatsAre ==
  ASSUME NEW list \in Seq(Runner), NEW p
  PROVE  /\ Socats(list, p) = {list[i].n : i \in {j \in DOMAIN list :
                                 list[j].of = p /\ list[j].service = "socat"}}
         /\ Socats(list, p) \subseteq Nat
         /\ IsFiniteSet(Socats(list, p)) /\ Cardinality(Socats(list, p)) \in Nat
<1> DEFINE I == {j \in DOMAIN list : list[j].of = p /\ list[j].service = "socat"}
           f == [i \in I |-> list[i].n]
<1>1. Socats(list, p) = {list[i].n : i \in I}
  BY DEF Socats, Range
<1>2. \A i \in DOMAIN list : list[i] \in Runner
  OBVIOUS
<1>3. Socats(list, p) \subseteq Nat
  BY <1>1, <1>2 DEF Runner
<1>4. IsFiniteSet(I)
  <2>1. PICK n \in Nat : I \in SUBSET (1 .. n)
    <3>1. Len(list) \in Nat /\ DOMAIN list = 1 .. Len(list)
      OBVIOUS
    <3> QED
      BY <3>1
  <2> QED
    BY <2>1, AheadGrows
<1>5. f \in Surjection(I, Socats(list, p))
  BY <1>1 DEF Surjection
<1> HIDE DEF f, I
<1>6. IsFiniteSet(Socats(list, p))
  BY <1>4, <1>5, FS_Surjection
<1> QED
  BY <1>1, <1>3, <1>6, FS_CardinalityType DEF I

LEMMA KeptRunners ==
  ASSUME NEW list, RunnersOK(list), NEW I \in SUBSET DOMAIN list
  PROVE  RunnersOK(Kept(list, I))
<1> DEFINE new == Kept(list, I)
<1>1. list \in Seq(Runner)
  BY DEF RunnersOK
<1>2. new \in Seq(Runner) /\ Range(new) = {list[i] : i \in I} /\ Len(new) = Cardinality(I)
      /\ Cardinality(I) \in Nat
  BY <1>1, KeptSeq
<1>3. PICK g : Numbered(g, list, I)
  <2>1. PICK n \in Nat : I \in SUBSET (1 .. n)
    <3>1. Len(list) \in Nat /\ DOMAIN list = 1 .. Len(list)
      BY <1>1
    <3> QED
      BY <3>1
  <2> QED
    BY <2>1, KeptIs
<1>4. \A k \in DOMAIN new : g[k] \in DOMAIN list /\ new[k] = list[g[k]]
  BY <1>3 DEF Numbered
<1>5. \A j, k \in DOMAIN new : g[j] = g[k] => j = k
  BY <1>3 DEF Numbered
<1>6. ASSUME NEW p \in Provider PROVE Cardinality(Socats(new, p)) =< MaxProxies
  <2>1. Socats(new, p) \subseteq Socats(list, p)
    <3>1. Range(new) \subseteq Range(list)
      BY <1>2 DEF Range
    <3> QED
      BY <3>1 DEF Socats
  <2>2. /\ Cardinality(Socats(new, p)) =< Cardinality(Socats(list, p))
        /\ Cardinality(Socats(new, p)) \in Nat /\ Cardinality(Socats(list, p)) \in Nat
    BY <1>1, <1>2, <2>1, SocatsAre, FS_Subset
  <2>3. Cardinality(Socats(list, p)) =< MaxProxies
    BY DEF RunnersOK
  <2> QED
    BY <2>2, <2>3, CatalogueAssumption
<1> HIDE DEF new
<1>7. \A i \in DOMAIN new : new[i].service # "socat" => new[i].n = 0
  BY <1>4 DEF RunnersOK
<1>8. \A i, j \in DOMAIN new : Key(new[i]) = Key(new[j]) => i = j
  BY <1>4, <1>5 DEF RunnersOK
<1> QED
  BY <1>2, <1>6, <1>7, <1>8 DEF RunnersOK, new

(* The next port is above those there are.                                 *)
LEMMA LargestOf ==
  ASSUME NEW N \in Nat, NEW f, \A i \in 1 .. N : f[i] \in Nat
  PROVE  \E n \in {0} \cup {f[i] : i \in 1 .. N} : \A i \in 1 .. N : f[i] =< n
<1> DEFINE Less == {ss \in Nat \X Nat : ss[1] < ss[2]}
           Right(k) == \E n \in {0} \cup {f[i] : i \in 1 .. k} : \A i \in 1 .. k : f[i] =< n
           Wrong == {k \in 0 .. N : ~Right(k)}
<1>1. Right(0)
  OBVIOUS
<1>2. ASSUME NEW k \in 1 .. N, Right(k - 1) PROVE Right(k)
  <2>1. PICK n \in {0} \cup {f[i] : i \in 1 .. k - 1} : \A i \in 1 .. k - 1 : f[i] =< n
    BY <1>2
  <2>2. /\ n \in Nat /\ f[k] \in Nat /\ n \in {0} \cup {f[i] : i \in 1 .. k}
        /\ f[k] \in {0} \cup {f[i] : i \in 1 .. k}
    OBVIOUS
  <2>3. \A i \in 1 .. k : i \in 1 .. k - 1 \/ i = k
    OBVIOUS
  <2>4. CASE f[k] =< n
    <3>1. \A i \in 1 .. k : f[i] =< n
      BY <2>1, <2>3, <2>4
    <3> QED
      BY <2>2, <3>1
  <2>5. CASE n < f[k]
    <3>1. \A i \in 1 .. k : f[i] =< f[k]
      BY <2>1, <2>2, <2>3, <2>5
    <3> QED
      BY <2>2, <3>1
  <2> QED
    BY <2>2, <2>4, <2>5
<1> HIDE DEF Right
<1>3. Wrong = {}
  <2> SUFFICES ASSUME Wrong # {} PROVE FALSE
    OBVIOUS
  <2>1. IsWellFoundedOn(Less, Nat)
    BY NatLessThanWellFounded DEF OpToRel
  <2>2. Wrong \subseteq Nat
    OBVIOUS
  <2>3. PICK k \in Wrong : \A j \in Wrong : <<j, k>> \notin Less
    BY <2>1, <2>2, WFMin
  <2>4. k \in 1 .. N
    BY <1>1
  <2>5. <<k - 1, k>> \in Less
    BY <2>4
  <2>6. k - 1 \in 0 .. N /\ k - 1 \notin Wrong
    BY <2>3, <2>4, <2>5
  <2> QED
    BY <1>2, <2>4, <2>6
<1>4. Right(N)
  BY <1>3
<1> QED
  BY <1>4 DEF Right

LEMMA NextPortIs ==
  ASSUME RunnersOK(runners)
  PROVE  /\ NextPort \in Nat \ {0}
         /\ \A i \in DOMAIN runners : runners[i].n < NextPort
<1> DEFINE N == Len(runners)
           f == [i \in 1 .. N |-> runners[i].n]
           ports == {0} \cup UNION {Socats(runners, p) : p \in Provider}
<1>1. N \in Nat /\ DOMAIN runners = 1 .. N /\ \A i \in 1 .. N : runners[i] \in Runner
  BY DEF RunnersOK
<1>2. \A i \in 1 .. N : f[i] = runners[i].n /\ f[i] \in Nat /\ f[i] \in ports
  <2>1. ASSUME NEW i \in 1 .. N, runners[i].service = "socat"
        PROVE  runners[i].n \in ports
    <3>1. runners[i].of \in Provider
      BY <1>1 DEF Runner
    <3>2. runners[i].n \in Socats(runners, runners[i].of)
      BY <1>1, <2>1 DEF Socats, Range
    <3> QED
      BY <3>1, <3>2
  <2>2. ASSUME NEW i \in 1 .. N, runners[i].service # "socat"
        PROVE  runners[i].n \in ports
    BY <1>1, <2>2 DEF RunnersOK
  <2> QED
    BY <1>1, <2>1, <2>2 DEF Runner
<1>3. \A n \in ports : n = 0 \/ \E i \in 1 .. N : n = f[i]
  <2>1. ASSUME NEW p \in Provider, NEW n \in Socats(runners, p)
        PROVE  \E i \in 1 .. N : n = f[i]
    BY <1>1, <2>1 DEF Socats, Range
  <2> QED
    BY <2>1
<1> HIDE DEF f, ports
<1>4. PICK n \in {0} \cup {f[i] : i \in 1 .. N} : \A i \in 1 .. N : f[i] =< n
  BY <1>1, <1>2, LargestOf
<1>5. n \in ports /\ n \in Nat
  BY <1>2 DEF ports
<1>6. \A m \in ports : m =< n
  BY <1>3, <1>4, <1>5
<1>7. NextPort = 1 + (CHOOSE x \in ports : \A m \in ports : m =< x)
  BY DEF NextPort, ports
<1>8. PICK x \in ports : NextPort = 1 + x /\ \A m \in ports : m =< x
  BY <1>5, <1>6, <1>7
<1>9. x \in Nat
  BY <1>2, <1>3, <1>8
<1> QED
  BY <1>1, <1>2, <1>8, <1>9

LEMMA StartKeeps ==
  ASSUME RunnersOK(runners), NEW p \in Provider, NEW service \in Services,
         StartRunner(p, service)
  PROVE  RunnersOK(runners')
<1> DEFINE N == Len(runners)
           r == [service |-> service, of |-> p, status |-> "creating",
                 n |-> IF service = "socat" THEN NextPort ELSE 0]
           new == <<r>> \o runners
<1>1. /\ N \in Nat /\ DOMAIN runners = 1 .. N /\ runners \in Seq(Runner)
      /\ NextPort \in Nat /\ \A i \in DOMAIN runners : runners[i].n < NextPort
  BY NextPortIs DEF RunnersOK
<1>2. r \in Runner /\ r.of = p /\ r.service = service
      /\ (service # "socat" => r.n = 0) /\ (service = "socat" => r.n = NextPort)
  BY <1>1 DEF Runner, Services
<1>3. runners' = new /\ CanStart(p, service)
  BY DEF StartRunner
<1> HIDE DEF r
<1>4. /\ new \in Seq(Runner) /\ DOMAIN new = 1 .. N + 1 /\ new[1] = r
      /\ \A i \in 2 .. N + 1 : i - 1 \in 1 .. N /\ new[i] = runners[i - 1]
  BY <1>1, <1>2
<1> HIDE DEF new
<1>5. \A i \in DOMAIN new : i = 1 \/ i \in 2 .. N + 1
  BY <1>1, <1>4
<1>6. \A i \in DOMAIN new : new[i].service # "socat" => new[i].n = 0
  BY <1>1, <1>2, <1>4, <1>5 DEF RunnersOK
<1>7. ASSUME NEW i \in 1 .. N PROVE Key(runners[i]) # Key(r)
  <2> SUFFICES ASSUME Key(runners[i]) = Key(r) PROVE FALSE
    OBVIOUS
  <2>1. runners[i].service = service /\ runners[i].of = p /\ runners[i].n = r.n
    BY <1>2 DEF Key
  <2>2. service # "socat"
    BY <1>1, <1>2, <2>1
  <2>3. Has(runners, p, service)
    BY <1>1, <2>1 DEF Has, Range
  <2> QED
    BY <1>3, <2>2, <2>3 DEF CanStart, Services
<1>8. ASSUME NEW i \in DOMAIN new, NEW j \in DOMAIN new, Key(new[i]) = Key(new[j])
      PROVE  i = j
  <2>1. CASE i = 1 \/ j = 1
    BY <1>4, <1>5, <1>7, <1>8, <2>1
  <2>2. CASE i # 1 /\ j # 1
    <3>1. i - 1 \in DOMAIN runners /\ j - 1 \in DOMAIN runners
          /\ Key(runners[i - 1]) = Key(runners[j - 1])
      BY <1>1, <1>4, <1>5, <1>8, <2>2
    <3>2. i - 1 = j - 1
      BY <3>1 DEF RunnersOK
    <3> QED
      BY <1>1, <1>4, <3>2
  <2> QED
    BY <2>1, <2>2
<1>9. ASSUME NEW q \in Provider PROVE Cardinality(Socats(new, q)) =< MaxProxies
  <2>1. Cardinality(Socats(runners, q)) \in Nat /\ IsFiniteSet(Socats(runners, q))
        /\ Cardinality(Socats(runners, q)) =< MaxProxies
    BY <1>1, SocatsAre DEF RunnersOK
  <2>2. Range(new) = {r} \cup Range(runners)
    <3>1. \A i \in 1 .. N : i + 1 \in 2 .. N + 1 /\ i + 1 \in DOMAIN new /\ new[i + 1] = runners[i]
      BY <1>1, <1>4
    <3>2. 1 \in DOMAIN new
      BY <1>1, <1>4
    <3>3. ASSUME NEW i \in DOMAIN new PROVE new[i] = r \/ new[i] \in Range(runners)
      <4>1. CASE i = 1
        BY <1>4, <4>1
      <4>2. CASE i # 1
        <5>1. i - 1 \in DOMAIN runners /\ new[i] = runners[i - 1]
          BY <1>1, <1>4, <1>5, <4>2
        <5> QED
          BY <5>1 DEF Range
      <4> QED
        BY <4>1, <4>2
    <3>4. \A x \in Range(runners) : x \in Range(new)
      BY <1>1, <3>1 DEF Range
    <3>5. r \in Range(new)
      BY <1>4, <3>2 DEF Range
    <3> QED
      BY <3>3, <3>4, <3>5 DEF Range
  <2>3. CASE service = "socat" /\ q = p
    <3>1. Socats(new, q) = Socats(runners, q) \cup {r.n}
      BY <1>2, <2>2, <2>3 DEF Socats
    <3>2. Cardinality(Socats(new, q)) =< Cardinality(Socats(runners, q)) + 1
      BY <2>1, <3>1, FS_AddElement
    <3>3. Cardinality(Socats(runners, q)) < MaxProxies
      BY <1>3, <2>3 DEF CanStart
    <3>4. Cardinality(Socats(new, q)) \in Nat
      BY <1>4, SocatsAre
    <3> QED
      BY <2>1, <3>2, <3>3, <3>4, CatalogueAssumption
  <2>4. CASE service # "socat" \/ q # p
    <3>1. Socats(new, q) = Socats(runners, q)
      BY <1>2, <2>2, <2>4 DEF Socats
    <3> QED
      BY <2>1, <3>1
  <2> QED
    BY <2>3, <2>4
<1> QED
  BY <1>3, <1>4, <1>6, <1>8, <1>9 DEF RunnersOK

LEMMA ChangeKeeps ==
  ASSUME RunnersOK(runners), NEW i \in DOMAIN runners, NEW st \in {"running", "exited"},
         ChangeRunner(i, st)
  PROVE  RunnersOK(runners')
<1>1. runners \in Seq(Runner) /\ runners' = [runners EXCEPT ![i].status = st]
      /\ runners[i] \in Runner
  BY DEF RunnersOK, ChangeRunner
<1> DEFINE r == [runners[i] EXCEPT !.status = st]
<1>2. r \in Runner /\ r.service = runners[i].service /\ r.of = runners[i].of /\ r.n = runners[i].n
  BY <1>1 DEF Runner
<1>3. runners' = [runners EXCEPT ![i] = r]
  BY <1>1
<1> HIDE DEF r
<1>4. /\ runners' \in Seq(Runner) /\ DOMAIN runners' = DOMAIN runners
      /\ runners'[i] = r /\ \A j \in DOMAIN runners : j # i => runners'[j] = runners[j]
  BY <1>1, <1>2, <1>3
<1>5. \A j \in DOMAIN runners : /\ Key(runners'[j]) = Key(runners[j])
                                /\ runners'[j].service = runners[j].service
                                /\ runners'[j].of = runners[j].of
                                /\ runners'[j].n = runners[j].n
  BY <1>2, <1>4 DEF Key
<1>6. \A p : Socats(runners', p) = Socats(runners, p)
  BY <1>4, <1>5 DEF Socats, Range
<1> QED
  BY <1>4, <1>5, <1>6 DEF RunnersOK

LEMMA RemoveKeeps ==
  ASSUME RunnersOK(runners), NEW i \in DOMAIN runners, RemoveRunner(i)
  PROVE  RunnersOK(runners')
  BY KeptRunners DEF RemoveRunner

(* The containers there are at first.                                      *)
Staged(b, p, stage, port) ==
  /\ b \in Seq(Runner) /\ Len(b) = stage
  /\ \A i \in 1 .. stage :
       /\ b[i].of = p
       /\ b[i].service # "socat" => b[i].n = 0
       /\ b[i].service = "socat" => b[i].n = port \/ (b[i].n = port + 1 /\ stage = 5)
  /\ \A i, j \in 1 .. stage : Key(b[i]) = Key(b[j]) => i = j

LEMMA BuiltIs ==
  ASSUME NEW p \in Provider, NEW stage \in 0 .. 5, NEW port \in Nat
  PROVE  Staged(Built(p, stage, port), p, stage, port)
<1> DEFINE R(service, n) == [service |-> service, of |-> p, status |-> "running", n |-> n]
           all == <<R("socat", port + 1), R("socat", port), R("envoy", 0), R("connect", 0), R("myst", 0)>>
           b == SubSeq(all, 6 - stage, 5)
<1>1. /\ all[1] = R("socat", port + 1) /\ all[2] = R("socat", port) /\ all[3] = R("envoy", 0)
      /\ all[4] = R("connect", 0) /\ all[5] = R("myst", 0)
  OBVIOUS
<1>2. ASSUME NEW service \in Services, NEW n \in Nat
      PROVE  R(service, n) \in Runner /\ R(service, n).of = p /\ R(service, n).service = service
             /\ R(service, n).n = n
  BY DEF Runner, Services
<1>3. Built(p, stage, port) = b
  BY DEF Built
<1> HIDE DEF all, R
<1>4. \A i \in 1 .. 5 : i \in {1, 2, 3, 4, 5}
  OBVIOUS
<1>5. \A i \in 1 .. 5 : /\ all[i] \in Runner /\ all[i].of = p
                        /\ all[i].service # "socat" => all[i].n = 0
                        /\ all[i].service = "socat" =>
                             (all[i].n = port /\ i # 1) \/ (all[i].n = port + 1 /\ i = 1)
  BY <1>1, <1>2, <1>4 DEF Services
<1>6. \A i, j \in 1 .. 5 : Key(all[i]) = Key(all[j]) => i = j
  <2>1. \A i, j \in 1 .. 5 : all[i].service = all[j].service /\ all[i].n = all[j].n => i = j
    BY <1>1, <1>2, <1>4 DEF Services
  <2> QED
    BY <2>1 DEF Key
<1>7. b \in Seq(Runner) /\ Len(b) = stage /\ \A i \in 1 .. stage : b[i] = all[5 - stage + i]
  <2>1. \A i \in 6 - stage .. 5 : all[i] \in Runner
    BY <1>5
  <2>2. /\ b \in Seq(Runner) /\ Len(b) = (IF 6 - stage =< 5 THEN 5 - (6 - stage) + 1 ELSE 0)
        /\ \A i \in 1 .. 5 - (6 - stage) + 1 : b[i] = all[6 - stage + i - 1]
    BY <2>1, SubSeqProperties
  <2> QED
    BY <2>2
<1>8. \A i \in 1 .. stage : 5 - stage + i \in 1 .. 5 /\ (5 - stage + i = 1 => stage = 5)
  OBVIOUS
<1> HIDE DEF b
<1>9. ASSUME NEW i \in 1 .. stage, NEW j \in 1 .. stage, Key(b[i]) = Key(b[j]) PROVE i = j
  <2>1. Key(all[5 - stage + i]) = Key(all[5 - stage + j])
    BY <1>7, <1>9
  <2>2. 5 - stage + i \in 1 .. 5 /\ 5 - stage + j \in 1 .. 5
    BY <1>8
  <2>3. 5 - stage + i = 5 - stage + j
    BY <1>6, <2>1, <2>2
  <2> QED
    BY <2>3
<1>10. ASSUME NEW i \in 1 .. stage
       PROVE  /\ b[i].of = p
              /\ b[i].service # "socat" => b[i].n = 0
              /\ b[i].service = "socat" => b[i].n = port \/ (b[i].n = port + 1 /\ stage = 5)
  BY <1>5, <1>7, <1>8
<1> QED
  BY <1>3, <1>7, <1>9, <1>10 DEF Staged

LEMMA InitRunners == Init => RunnersOK(runners) /\ market \in Seq(Provider)
<1> SUFFICES ASSUME Init PROVE RunnersOK(runners) /\ market \in Seq(Provider)
  OBVIOUS
<1>1. PICK p \in Provider, o \in Provider, stage \in 0 .. 5 :
        /\ p # o /\ stage =< 3 + MaxProxies
        /\ runners = Built(p, stage, 3) \o Built(o, 4, 1)
  BY DEF Init
<1> DEFINE a == Built(p, stage, 3)
           b == Built(o, 4, 1)
<1>2. Staged(a, p, stage, 3) /\ Staged(b, o, 4, 1)
  <2>1. 4 \in 0 .. 5 /\ 1 \in Nat /\ 3 \in Nat
    OBVIOUS
  <2> QED
    BY <2>1, BuiltIs
<1>3. runners = a \o b
  BY <1>1
<1> HIDE DEF a, b
<1>4. /\ a \in Seq(Runner) /\ Len(a) = stage
      /\ b \in Seq(Runner) /\ Len(b) = 4
  BY <1>2 DEF Staged
<1>5. /\ runners \in Seq(Runner) /\ DOMAIN runners = 1 .. stage + 4
      /\ \A i \in 1 .. stage : runners[i] = a[i]
      /\ \A i \in stage + 1 .. stage + 4 : i - stage \in 1 .. 4 /\ runners[i] = b[i - stage]
  <2>1. /\ a \o b \in Seq(Runner) /\ Len(a \o b) = Len(a) + Len(b)
        /\ \A i \in 1 .. Len(a) + Len(b) :
              (a \o b)[i] = IF i <= Len(a) THEN a[i] ELSE b[i - Len(a)]
    BY <1>4, ConcatProperties
  <2>2. /\ runners \in Seq(Runner) /\ Len(runners) = stage + 4
        /\ \A i \in 1 .. stage + 4 : runners[i] = IF i =< stage THEN a[i] ELSE b[i - stage]
    BY <1>3, <1>4, <2>1
  <2>3. stage \in Nat /\ DOMAIN runners = 1 .. stage + 4
    BY <2>2
  <2>4. \A i \in 1 .. stage : i \in 1 .. stage + 4 /\ i =< stage
    BY <2>3
  <2>5. \A i \in stage + 1 .. stage + 4 :
          i \in 1 .. stage + 4 /\ ~(i =< stage) /\ i - stage \in 1 .. 4
    BY <2>3
  <2> QED
    BY <2>2, <2>3, <2>4, <2>5
<1>6. \A i \in DOMAIN runners : i \in 1 .. stage \/ i \in stage + 1 .. stage + 4
  BY <1>5
<1>7. ASSUME NEW i \in DOMAIN runners
      PROVE  /\ runners[i].service # "socat" => runners[i].n = 0
             /\ i \in 1 .. stage => runners[i].of = p
             /\ i \in stage + 1 .. stage + 4 => runners[i].of = o
  BY <1>2, <1>5, <1>6 DEF Staged
<1>9. ASSUME NEW i \in DOMAIN runners, NEW j \in DOMAIN runners, Key(runners[i]) = Key(runners[j])
      PROVE  i = j
  <2>1. runners[i].of = runners[j].of
    BY <1>9 DEF Key
  <2>2. CASE i \in 1 .. stage /\ j \in 1 .. stage
    BY <1>2, <1>5, <1>9, <2>2 DEF Staged
  <2>3. CASE i \in stage + 1 .. stage + 4 /\ j \in stage + 1 .. stage + 4
    <3>1. i - stage = j - stage
      BY <1>2, <1>5, <1>9, <2>3 DEF Staged
    <3> QED
      BY <2>3, <3>1
  <2> QED
    BY <1>1, <1>6, <1>7, <2>1, <2>2, <2>3
<1>10. ASSUME NEW x \in Provider PROVE Cardinality(Socats(runners, x)) =< MaxProxies
  <2>1. \A n \in Socats(runners, x) : \/ x = p /\ (n = 3 \/ (n = 4 /\ stage = 5))
                                      \/ x = o /\ n = 1
    <3>1. ASSUME NEW i \in DOMAIN runners, runners[i].of = x, runners[i].service = "socat"
          PROVE  \/ x = p /\ (runners[i].n = 3 \/ (runners[i].n = 4 /\ stage = 5))
                 \/ x = o /\ runners[i].n = 1
      <4>1. CASE i \in 1 .. stage
        BY <1>2, <1>5, <3>1, <4>1 DEF Staged
      <4>2. CASE i \in stage + 1 .. stage + 4
        BY <1>2, <1>5, <3>1, <4>2 DEF Staged
      <4> QED
        BY <1>6, <4>1, <4>2
    <3> QED
      BY <1>5, <3>1, SocatsAre
  <2>2. Socats(runners, x) \subseteq {1} \/ Socats(runners, x) \subseteq {3}
        \/ (Socats(runners, x) \subseteq {3, 4} /\ stage = 5)
    BY <1>1, <2>1
  <2>3. /\ IsFiniteSet({1}) /\ Cardinality({1}) = 1
        /\ IsFiniteSet({3}) /\ Cardinality({3}) = 1
        /\ IsFiniteSet({3, 4}) /\ Cardinality({3, 4}) = 2
    <3>1. {3, 4} = {3} \cup {4} /\ 4 \notin {3}
      OBVIOUS
    <3>2. IsFiniteSet({1}) /\ Cardinality({1}) = 1 /\ IsFiniteSet({3}) /\ Cardinality({3}) = 1
      BY FS_Singleton
    <3>3. IsFiniteSet({3} \cup {4}) /\ Cardinality({3} \cup {4}) = Cardinality({3}) + 1
      BY <3>1, <3>2, FS_AddElement
    <3> QED
      BY <3>1, <3>2, <3>3
  <2>4. Cardinality(Socats(runners, x)) \in Nat
    BY <1>5, SocatsAre
  <2>5. Cardinality(Socats(runners, x)) =< 1
        \/ (Cardinality(Socats(runners, x)) =< 2 /\ stage = 5)
    BY <2>2, <2>3, FS_Subset
  <2> QED
    BY <1>1, <2>4, <2>5, CatalogueAssumption
<1>11. market \in Seq(Provider)
  <2>1. Cardinality(Provider) \in Nat
    BY CatalogueAssumption, FS_CardinalityType
  <2>2. PICK m \in [1 .. Cardinality(Provider) -> Provider] : market = m
    BY DEF Init
  <2> QED
    BY <2>1, <2>2
<1> QED
  BY <1>5, <1>7, <1>9, <1>10, <1>11 DEF RunnersOK

(* The surroundings keep the lists in order.                               *)
ListsOK == RunnersOK(runners) /\ market \in Seq(Provider)

LEMMA JoinKeeps ==
  ASSUME ListsOK, NEW p \in Provider, Join(p) \/ Withdraw(p) \/ StoreIp(p) \/ Expire(p)
  PROVE  ListsOK'
<1>1. UNCHANGED runners
  BY DEF Join, Withdraw, StoreIp, Expire, world
<1>2. market' \in Seq(Provider)
  <2>1. CASE Join(p)
    BY <2>1 DEF Join, ListsOK
  <2>2. CASE Withdraw(p)
    <3>1. Kept(market, {i \in DOMAIN market : market[i] # p}) \in Seq(Provider)
      BY KeptSeq DEF ListsOK
    <3> QED
      BY <2>2, <3>1 DEF Withdraw
  <2>3. CASE StoreIp(p) \/ Expire(p)
    BY <2>3 DEF StoreIp, Expire, world, ListsOK
  <2> QED
    BY <2>1, <2>2, <2>3
<1> QED
  BY <1>1, <1>2 DEF ListsOK

LEMMA NextLists == ListsOK /\ [Next]_vars => ListsOK'
<1> SUFFICES ASSUME ListsOK, [Next]_vars PROVE ListsOK'
  OBVIOUS
<1>1. ASSUME UNCHANGED <<market, runners>> PROVE ListsOK'
  BY <1>1 DEF ListsOK
<1>2. CASE Surroundings
  <2>1. ASSUME NEW p \in Provider, NEW service \in Services, StartRunner(p, service)
        PROVE  ListsOK'
    <3>1. UNCHANGED market
      BY <2>1 DEF StartRunner
    <3> QED
      BY <2>1, <3>1, StartKeeps DEF ListsOK
  <2>2. ASSUME NEW i \in DOMAIN runners, RemoveRunner(i) PROVE ListsOK'
    <3>1. UNCHANGED market
      BY <2>2 DEF RemoveRunner
    <3> QED
      BY <2>2, <3>1, RemoveKeeps DEF ListsOK
  <2>3. ASSUME NEW i \in DOMAIN runners, NEW st \in {"running", "exited"}, ChangeRunner(i, st)
        PROVE  ListsOK'
    <3>1. UNCHANGED market
      BY <2>3 DEF ChangeRunner
    <3> QED
      BY <2>3, <3>1, ChangeKeeps DEF ListsOK
  <2> QED
    BY <1>2, <2>1, <2>2, <2>3, JoinKeeps, CatalogueAssumption DEF Surroundings
<1>3. ASSUME NEW s \in Slots, Serve(s) PROVE UNCHANGED <<market, runners>>
  BY <1>3 DEF Serve, BeginList, BeginGet, ListRead, ListRunnersFails, ListSave, GetCache,
              GetCacheFails, GetApi, GetInfo, GetMerge, Fail, Reply, world
<1>4. CASE Crash \/ UNCHANGED vars \/ \E p \in Provider : SetExpiry(p)
  BY <1>1, <1>4 DEF Crash, vars, SetExpiry, world
<1> QED
  BY <1>1, <1>2, <1>3, <1>4 DEF Next

LEMMA AlwaysLists == Spec => []ListsOK
<1>1. Init => ListsOK
  BY InitRunners DEF ListsOK
<1> QED
  BY <1>1, NextLists, PTL DEF Spec

-----------------------------------------------------------------------------
(* What the listings are made of.                                          *)

QueryOK(q) == q.page \in Nat \ {0} /\ q.limit \in Nat \ {0}

LEMMA QueryIs ==
  ASSUME NEW page \in Nat, NEW limit \in Nat, NEW skip, NEW cond, NEW sort
  PROVE  /\ QueryOK(FilterModel(page, limit, skip, cond, sort))
         /\ FilterModel(page, limit, skip, cond, sort).skip = skip
         /\ FilterModel(page, limit, skip, cond, sort).cond = cond
         /\ FilterModel(page, limit, skip, cond, sort).sort = sort
         /\ page > 0 => FilterModel(page, limit, skip, cond, sort).page = page
         /\ limit > 0 => FilterModel(page, limit, skip, cond, sort).limit = limit
  BY LimitAssumption DEF QueryOK, FilterModel

LEMMA FixedQueries ==
  /\ QueryOK(WholeList) /\ QueryOK(FirstPage) /\ QueryOK(AllRegistered)
  /\ WholeList.cond = <<>> /\ AllRegistered.cond = [isRegister |-> TRUE]
  /\ WholeList.skip = TRUE /\ AllRegistered.skip = TRUE /\ FirstPage.skip = FALSE
  /\ FirstPage.page = 1 /\ FirstPage.limit = DefaultLimit
  BY LimitAssumption DEF WholeList, FirstPage, AllRegistered, FilterModel, QueryOK

LEMMA ApiSeq ==
  ASSUME market \in Seq(Provider), NEW q, QueryOK(q)
  PROVE  /\ Asked(q) \in Seq(Provider)
         /\ ApiPage(Asked(q), q) \in Seq(Provider)
         /\ Range(Asked(q)) \subseteq Provider
<1>1. Asked(q) \in Seq(Provider)
  BY KeptSeq DEF Asked
<1>2. Slice(Asked(q), q.page, q.limit) \in Seq(Provider)
  BY <1>1, SliceSeq DEF QueryOK
<1>3. ApiPage(Asked(q), q) \in Seq(Provider)
  BY <1>1, <1>2 DEF ApiPage
<1> QED
  BY <1>1, <1>3 DEF Range

LEMMA OfferType ==
  ASSUME NEW p \in Provider, NEW ip \in BOOLEAN
  PROVE  Offer(p, ip) \in ProviderView /\ DefaultOffer(p) \in ProviderView /\ Offer(p, ip).of = p
  BY DEF Offer, DefaultOffer, ProviderView

LEMMA MergedType ==
  ASSUME NEW v \in ProviderView, NEW list \in Seq(Runner), NEW onOffer
  PROVE  Merged(v, list, onOffer) \in ProviderView /\ Merged(v, list, onOffer).of = v.of
<1>1. Cardinality(Socats(list, v.of)) \in Nat
  BY SocatsAre
<1>2. ViewStatus(v, list, onOffer) \in {"offline", "pending", "online"}
  BY DEF ViewStatus
<1> QED
  BY <1>1, <1>2 DEF Merged, ProviderView

(* The list of what was merged, before the query is applied.               *)
MergedOffers(page, list, ips) ==
  [i \in DOMAIN page |-> Merged(Offer(page[i], page[i] \in ips), list, TRUE)]

LEMMA MergedOffersSeq ==
  ASSUME NEW page \in Seq(Provider), NEW list \in Seq(Runner), NEW ips
  PROVE  /\ MergedOffers(page, list, ips) \in Seq(ProviderView)
         /\ DOMAIN MergedOffers(page, list, ips) = DOMAIN page
         /\ \A i \in DOMAIN page : MergedOffers(page, list, ips)[i].of = page[i]
<1> DEFINE El(i) == Merged(Offer(page[i], page[i] \in ips), list, TRUE)
<1>1. ASSUME NEW i \in DOMAIN page PROVE El(i) \in ProviderView /\ El(i).of = page[i]
  <2>1. page[i] \in Provider
    OBVIOUS
  <2> DEFINE ip == page[i] \in ips
  <2>2. ip \in BOOLEAN
    BY SMT
  <2>3. Offer(page[i], ip) \in ProviderView /\ Offer(page[i], ip).of = page[i]
    <3> HIDE DEF ip
    <3> QED
      BY <2>1, <2>2, OfferType
  <2>4. El(i) = Merged(Offer(page[i], ip), list, TRUE)
    OBVIOUS
  <2> HIDE DEF El, ip
  <2> QED
    BY <2>3, <2>4, MergedType
<1>2. MergedOffers(page, list, ips) = [i \in DOMAIN page |-> El(i)]
  BY DEF MergedOffers
<1>3. Len(page) \in Nat /\ DOMAIN page = 1 .. Len(page)
  OBVIOUS
<1> HIDE DEF El
<1> QED
  BY <1>1, <1>2, <1>3

ProviderFields == {"providerIdentity", "isRegister", "proxyCount"}
Matching(list, q, fields) == Kept(list, {i \in DOMAIN list : Satisfies(list[i], q, fields)})

LEMMA ProviderListIs ==
  ASSUME NEW page \in Seq(Provider), NEW list \in Seq(Runner), NEW ips, NEW q, QueryOK(q)
  PROVE  /\ ProviderList(page, list, ips, q).list \in Seq(ProviderView)
         /\ ~("isRegister" \in DOMAIN q.cond /\ q.cond.isRegister /\ list = <<>>) =>
              ProviderList(page, list, ips, q) =
                Paged(Matching(MergedOffers(page, list, ips), q, ProviderFields), q)
<1> DEFINE views == MergedOffers(page, list, ips)
           base == Matching(views, q, ProviderFields)
<1>1. base \in Seq(ProviderView)
  BY MergedOffersSeq, KeptSeq DEF Matching
<1>2. FilterAndSortVpnProvider(views, q) = Paged(base, q)
  BY DEF FilterAndSortVpnProvider, Matching, ProviderFields
<1>3. Paged(base, q).list \in Seq(ProviderView)
  BY <1>1, PagedSeq DEF QueryOK
<1>4. ProviderList(page, list, ips, q) =
        IF "isRegister" \in DOMAIN q.cond /\ q.cond.isRegister /\ list = <<>>
        THEN [list |-> <<>>, total |-> 0] ELSE FilterAndSortVpnProvider(views, q)
  BY DEF ProviderList, MergedOffers
<1> HIDE DEF views, base
<1>5. <<>> \in Seq(ProviderView)
  OBVIOUS
<1> QED
  BY <1>2, <1>3, <1>4, <1>5 DEF views, base

(* The proxies of a list of containers, before the query is applied.       *)
SocatsOf(list) == Kept(list, {i \in DOMAIN list : list[i].service = "socat"})
Shown(list, providers) ==
  LET socats == SocatsOf(list)
      First(i) == \A j \in 1 .. i - 1 : socats[j].of # socats[i].of
      View(i) ==
        LET p == socats[i].of
            behind == First(i) /\ Has(list, p, "envoy")
        IN  [of |-> p, listenPort |-> socats[i].n,
             ip |-> behind /\ \E v \in Range(providers) : v.of = p /\ v.ip,
             status |-> IF behind THEN ProxyStatus(list, p) ELSE "disable"]
  IN  [i \in DOMAIN socats |-> View(i)]

LEMMA ShownSeq ==
  ASSUME NEW list \in Seq(Runner), NEW providers
  PROVE  /\ Shown(list, providers) \in Seq(ProxyView)
         /\ \A i \in DOMAIN Shown(list, providers) :
              Shown(list, providers)[i].status = "online" =>
                ProxyStatus(list, Shown(list, providers)[i].of) = "online"
<1> DEFINE socats == SocatsOf(list)
           First(i) == \A j \in 1 .. i - 1 : socats[j].of # socats[i].of
           Behind(i) == First(i) /\ Has(list, socats[i].of, "envoy")
           View(i) == [of |-> socats[i].of, listenPort |-> socats[i].n,
                       ip |-> Behind(i) /\ \E v \in Range(providers) : v.of = socats[i].of /\ v.ip,
                       status |-> IF Behind(i) THEN ProxyStatus(list, socats[i].of) ELSE "disable"]
<1>1. socats \in Seq(Runner)
  BY KeptSeq DEF SocatsOf
<1>2. Shown(list, providers) = [i \in DOMAIN socats |-> View(i)]
  BY DEF Shown
<1> HIDE DEF socats
<1>3. \A p : ProxyStatus(list, p) \in {"disable", "offline", "online"}
  BY DEF ProxyStatus
<1>4. ASSUME NEW i \in DOMAIN socats
      PROVE  View(i) \in ProxyView /\ (View(i).status = "online" => ProxyStatus(list, View(i).of) = "online")
  <2>1. socats[i] \in Runner
    BY <1>1
  <2> DEFINE ip == Behind(i) /\ \E v \in Range(providers) : v.of = socats[i].of /\ v.ip
             st == IF Behind(i) THEN ProxyStatus(list, socats[i].of) ELSE "disable"
  <2>2. ip \in BOOLEAN
    OBVIOUS
  <2>3. st \in {"disable", "offline", "online"}
        /\ (st = "online" => ProxyStatus(list, socats[i].of) = "online")
    BY <1>3
  <2>4. View(i) = [of |-> socats[i].of, listenPort |-> socats[i].n, ip |-> ip, status |-> st]
    OBVIOUS
  <2> HIDE DEF View, ip, st
  <2> QED
    BY <2>1, <2>2, <2>3, <2>4 DEF Runner, ProxyView
<1>5. Len(socats) \in Nat /\ DOMAIN socats = 1 .. Len(socats)
  BY <1>1
<1> HIDE DEF View
<1> QED
  BY <1>2, <1>4, <1>5

ProxyFields == {"listenPort", "status"}

LEMMA ProxyListIs ==
  ASSUME NEW list \in Seq(Runner), NEW providers, NEW q, QueryOK(q)
  PROVE  /\ Matching(Shown(list, providers), q, ProxyFields) \in Seq(ProxyView)
         /\ ProxyList(list, providers, q) =
              Paged(Matching(Shown(list, providers), q, ProxyFields), q)
         /\ ProxyList(list, providers, q).list \in Seq(ProxyView)
         /\ Range(ProxyList(list, providers, q).list) \subseteq Range(Shown(list, providers))
<1> DEFINE views == Shown(list, providers)
           I == {i \in DOMAIN views : Satisfies(views[i], q, ProxyFields)}
           base == Kept(views, I)
<1>1. views \in Seq(ProxyView)
  BY ShownSeq
<1>2. ProxyList(list, providers, q) = FilterAndSortProxyUpstream(views, q)
  BY DEF ProxyList, Shown, SocatsOf
<1>3. FilterAndSortProxyUpstream(views, q) = Paged(base, q) /\ base = Matching(views, q, ProxyFields)
  BY DEF FilterAndSortProxyUpstream, Matching, ProxyFields
<1>4. I \in SUBSET DOMAIN views
  OBVIOUS
<1> HIDE DEF views, I
<1>5. base \in Seq(ProxyView) /\ Range(base) = {views[i] : i \in I}
  BY <1>1, <1>4, KeptSeq
<1> HIDE DEF base
<1>6. Range(base) \subseteq Range(views)
  BY <1>4, <1>5 DEF Range
<1>7. Paged(base, q).list \in Seq(ProxyView) /\ Range(Paged(base, q).list) \subseteq Range(base)
  BY <1>5, PagedSeq DEF QueryOK
<1> QED
  BY <1>2, <1>3, <1>5, <1>6, <1>7 DEF views

-----------------------------------------------------------------------------
(* Pages.                                                                  *)

LEMMA JoinsExist ==
  ASSUME NEW S, NEW list \in Seq(S), NEW limit \in Nat \ {0}
  PROVE  \E f : Joins(f, list, limit)
<1> DEFINE N == Len(list)
           End(k) == IF k * limit < N THEN k * limit ELSE N
           f == [k \in 0 .. N |-> SubSeq(list, 1, End(k))]
           g == [k \in 0 .. N |-> IF k = 0 THEN <<>> ELSE f[k - 1] \o Slice(list, k, limit)]
<1>1. N \in Nat
  OBVIOUS
<1>2. f[0] = <<>> /\ g[0] = <<>>
  <2>1. 0 \in 0 .. N /\ End(0) = 0
    BY <1>1
  <2>2. SubSeq(list, 1, 0) = <<>>
    BY SubSeqEmpty
  <2> QED
    BY <2>1, <2>2
<1>3. ASSUME NEW k \in 1 .. N PROVE f[k] = g[k]
  <2> DEFINE c == (k - 1) * limit
             d == k * limit
             a == End(k - 1)
             b == End(k)
  <2>1. c \in Nat /\ d = c + limit
    OBVIOUS
  <2>2. a = (IF c < N THEN c ELSE N) /\ b = (IF d < N THEN d ELSE N)
    OBVIOUS
  <2>3. g[k] = SubSeq(list, 1, a) \o SubSeq(list, c + 1, b) /\ f[k] = SubSeq(list, 1, b)
    <3>1. k \in 0 .. N /\ k - 1 \in 0 .. N /\ k # 0
      BY <1>1
    <3>2. f[k - 1] = SubSeq(list, 1, a) /\ f[k] = SubSeq(list, 1, b)
      BY <3>1
    <3>3. g[k] = f[k - 1] \o Slice(list, k, limit)
      BY <3>1
    <3> HIDE DEF f
    <3> QED
      BY <3>2, <3>3 DEF Slice
  <2> HIDE DEF a, b, c, d, f, g
  <2>4. /\ a \in 0 .. N /\ b \in a .. N
        /\ c # a => a = N /\ b = N /\ b < c + 1
    BY <1>1, <2>1, <2>2
  <2>5. CASE c = a
    <3>1. 1 \in 1 .. N + 1 /\ a \in 1 - 1 .. N
      BY <1>1, <2>4
    <3>2. SubSeq(list, 1, a) \o SubSeq(list, a + 1, b) = SubSeq(list, 1, b)
      BY <2>4, <3>1, ConcatAdjacentSubSeq
    <3> QED
      BY <2>3, <2>5, <3>2
  <2>6. CASE c # a
    <3>1. c + 1 \in Int /\ b \in Int
      BY <1>1, <2>1, <2>4
    <3>2. SubSeq(list, c + 1, b) = <<>>
      BY <2>4, <2>6, <3>1, SubSeqEmpty
    <3>3. SubSeq(list, 1, a) = list /\ SubSeq(list, 1, b) = list
      BY <2>4, <2>6, SubSeqFull
    <3> QED
      BY <2>3, <3>2, <3>3, ConcatEmptySeq
  <2> QED
    BY <2>5, <2>6
<1>4. \A k \in 0 .. N : f[k] = g[k]
  <2>1. \A k \in 0 .. N : k = 0 \/ k \in 1 .. N
    BY <1>1
  <2> HIDE DEF f, g
  <2> QED
    BY <1>2, <1>3, <2>1
<1>5. DOMAIN f = 0 .. N /\ DOMAIN g = 0 .. N
  OBVIOUS
<1>6. f = g
  <2>1. f = [k \in 0 .. N |-> f[k]] /\ g = [k \in 0 .. N |-> g[k]]
    OBVIOUS
  <2> HIDE DEF f, g
  <2> QED
    BY <1>4, <2>1
<1>7. Joins(f, list, limit)
  <2>1. f = [k \in 0 .. N |-> IF k = 0 THEN <<>> ELSE f[k - 1] \o Slice(list, k, limit)]
    BY <1>6
  <2> HIDE DEF f
  <2> QED
    BY <2>1 DEF Joins
<1> QED
  BY <1>7

(* The listing of the registered providers, whole and by the page.         *)
RegisteredPage(q) == ProviderList(ApiPage(Asked(q), q), runners, info, q)
Whole(cond, sort) == FilterModel(0, 0, TRUE, cond, sort)
Nth(k, limit, cond, sort) == FilterModel(k, limit, FALSE, cond, sort)

LEMMA WholeIs ==
  ASSUME NEW cond, NEW sort
  PROVE  /\ QueryOK(Whole(cond, sort)) /\ Whole(cond, sort).skip = TRUE
         /\ Whole(cond, sort).cond = cond /\ Whole(cond, sort).sort = sort
  BY LimitAssumption DEF QueryOK, FilterModel, Whole

LEMMA NthIs ==
  ASSUME NEW cond, NEW sort, NEW k \in Nat \ {0}, NEW limit \in Nat \ {0}
  PROVE  /\ QueryOK(Nth(k, limit, cond, sort)) /\ Nth(k, limit, cond, sort).skip = FALSE
         /\ Nth(k, limit, cond, sort).cond = cond /\ Nth(k, limit, cond, sort).sort = sort
         /\ Nth(k, limit, cond, sort).page = k /\ Nth(k, limit, cond, sort).limit = limit
  BY LimitAssumption DEF QueryOK, FilterModel, Nth

LEMMA SliceEmpty ==
  ASSUME NEW k \in Nat \ {0}, NEW limit \in Nat \ {0}
  PROVE  Slice(<<>>, k, limit) = <<>>
<1> DEFINE c == (k - 1) * limit
           d == k * limit
<1>1. c \in Nat /\ d \in Nat
  OBVIOUS
<1>2. Slice(<<>>, k, limit) = SubSeq(<<>>, c + 1, IF d < 0 THEN d ELSE 0)
  BY DEF Slice
<1> HIDE DEF c, d
<1>3. Slice(<<>>, k, limit) = SubSeq(<<>>, c + 1, 0)
  BY <1>1, <1>2
<1> QED
  BY <1>1, <1>3, SubSeqEmpty

LEMMA RegisteredPages ==
  ASSUME ListsOK
  PROVE  \E list \in Seq(ProviderView) :
           /\ RegisteredPage(Whole([isRegister |-> TRUE], "none")).list = list
           /\ \A k, limit \in Nat \ {0} :
                RegisteredPage(Nth(k, limit, [isRegister |-> TRUE], "none")).list
                  = Slice(list, k, limit)
<1> DEFINE cond == [isRegister |-> TRUE]
           all == Kept(market, {i \in DOMAIN market : market[i] \notin Odd})
           views == MergedOffers(all, runners, info)
           base == Kept(views, {i \in DOMAIN views : views[i].isRegister = TRUE})
           list == IF runners = <<>> THEN <<>> ELSE base
<1>1. all \in Seq(Provider)
  BY KeptSeq DEF ListsOK
<1>2. runners \in Seq(Runner) /\ market \in Seq(Provider)
  BY DEF ListsOK, RunnersOK
<1>3. ASSUME NEW q, QueryOK(q), q.cond = cond
      PROVE  RegisteredPage(q).list = IF runners = <<>> THEN <<>> ELSE Paged(base, q).list
  <2>1. /\ DOMAIN q.cond = {"isRegister"} /\ q.cond.isRegister = TRUE
        /\ "isRegister" \in DOMAIN q.cond /\ "providerIdentity" \notin DOMAIN q.cond
    BY <1>3
  <2>2. Asked(q) = all
    BY <2>1, Zenon DEF Asked
  <2>3. ApiPage(Asked(q), q) = all
    BY <2>1, <2>2 DEF ApiPage
  <2>4. RegisteredPage(q) = ProviderList(all, runners, info, q)
    BY <2>3 DEF RegisteredPage
  <2>5. CASE runners = <<>>
    <3>1. ProviderList(all, runners, info, q) = [list |-> <<>>, total |-> 0]
      BY <2>1, <2>5 DEF ProviderList
    <3> QED
      BY <2>4, <2>5, <3>1
  <2>6. CASE runners # <<>>
    <3> HIDE DEF all
    <3>1. ProviderList(all, runners, info, q) = Paged(Matching(views, q, ProviderFields), q)
      BY <1>1, <1>2, <1>3, <2>6, ProviderListIs
    <3>2. Matching(views, q, ProviderFields) = base
      <4>1. \A v : Satisfies(v, q, ProviderFields) <=> v.isRegister = TRUE
        <5>1. ProviderFields \cap DOMAIN q.cond = {"isRegister"}
          BY <2>1 DEF ProviderFields
        <5>2. q.cond["isRegister"] = TRUE
          BY <2>1
        <5> QED
          BY <5>1, <5>2 DEF Satisfies
      <4> HIDE DEF views
      <4>2. {i \in DOMAIN views : Satisfies(views[i], q, ProviderFields)}
              = {i \in DOMAIN views : views[i].isRegister = TRUE}
        BY <4>1
      <4> QED
        BY <4>2 DEF Matching
    <3> HIDE DEF base, views
    <3> QED
      BY <2>4, <2>6, <3>1, <3>2
  <2> QED
    BY <2>5, <2>6
<1>4. base \in Seq(ProviderView)
  <2> HIDE DEF all
  <2>1. views \in Seq(ProviderView)
    BY <1>1, <1>2, MergedOffersSeq
  <2> HIDE DEF views
  <2> QED
    BY <2>1, KeptSeq
<1> HIDE DEF base
<1>5. list \in Seq(ProviderView)
  BY <1>4
<1>6. RegisteredPage(Whole(cond, "none")).list = list
  <2>1. Paged(base, Whole(cond, "none")).list = base
    BY WholeIs DEF Paged
  <2> HIDE DEF cond
  <2> QED
    BY <1>3, <2>1, WholeIs
<1>7. ASSUME NEW k \in Nat \ {0}, NEW limit \in Nat \ {0}
      PROVE  RegisteredPage(Nth(k, limit, cond, "none")).list = Slice(list, k, limit)
  <2> HIDE DEF cond
  <2> DEFINE q == Nth(k, limit, cond, "none")
  <2>0. QueryOK(q) /\ q.skip = FALSE /\ q.cond = cond /\ q.page = k /\ q.limit = limit
    BY LimitAssumption DEF QueryOK, FilterModel, Nth
  <2> HIDE DEF q
  <2>1. Paged(base, q).list = Slice(base, k, limit)
    BY <2>0 DEF Paged
  <2>2. RegisteredPage(q).list = IF runners = <<>> THEN <<>> ELSE Paged(base, q).list
    BY <1>3, <2>0
  <2> QED
    BY <2>1, <2>2, SliceEmpty DEF q
<1> HIDE DEF list
<1> QED
  BY <1>5, <1>6, <1>7

LEMMA RegisteredJoin ==
  ASSUME ListsOK, NEW limit \in Nat \ {0}
  PROVE  LET whole == RegisteredPage(Whole([isRegister |-> TRUE], "none")).list
             N == Len(whole)
             u == CHOOSE f : f = [k \in 0 .. N |-> IF k = 0 THEN <<>> ELSE f[k - 1] \o
                    RegisteredPage(Nth(k, limit, [isRegister |-> TRUE], "none")).list]
         IN  u[N] = whole
<1>1. PICK list \in Seq(ProviderView) :
           /\ RegisteredPage(Whole([isRegister |-> TRUE], "none")).list = list
           /\ \A k, l \in Nat \ {0} :
                RegisteredPage(Nth(k, l, [isRegister |-> TRUE], "none")).list
                  = Slice(list, k, l)
  BY RegisteredPages
<1> DEFINE N == Len(list)
           One(k) == RegisteredPage(Nth(k, limit, [isRegister |-> TRUE], "none")).list
           P(f) == f = [k \in 0 .. N |-> IF k = 0 THEN <<>> ELSE f[k - 1] \o One(k)]
<1>2. \A k \in 0 .. N : k = 0 \/ One(k) = Slice(list, k, limit)
  BY <1>1
<1>3. ASSUME NEW f PROVE P(f) <=> Joins(f, list, limit)
  <2> HIDE DEF One
  <2> DEFINE a == [k \in 0 .. N |-> IF k = 0 THEN <<>> ELSE f[k - 1] \o One(k)]
             b == [k \in 0 .. N |-> IF k = 0 THEN <<>> ELSE f[k - 1] \o Slice(list, k, limit)]
  <2>1. \A k \in 0 .. N : a[k] = b[k]
    BY <1>2
  <2>2. a = [k \in 0 .. N |-> a[k]] /\ b = [k \in 0 .. N |-> b[k]]
    OBVIOUS
  <2>3. a = b
    <3> HIDE DEF a, b
    <3> QED
      BY <2>1, <2>2
  <2>4. (P(f) <=> f = a) /\ (Joins(f, list, limit) <=> f = b)
    BY Zenon DEF Joins
  <2> HIDE DEF P, a, b
  <2> QED
    BY <2>3, <2>4
<1> HIDE DEF P
<1>4. P(CHOOSE f : P(f))
  BY <1>3, JoinsExist
<1>5. (CHOOSE f : P(f))[N] = list
  BY <1>3, <1>4, JoinedPages
<1>6. (CHOOSE f : f = [k \in 0 .. N |-> IF k = 0 THEN <<>> ELSE f[k - 1] \o
          RegisteredPage(Nth(k, limit, [isRegister |-> TRUE], "none")).list])[N] = list
  BY <1>5, Zenon DEF P
<1> QED
  BY <1>1, <1>6, Zenon

(* Which records match, and their order, is a matter of the conditions and *)
(* of the sort; the rest of the query cuts out the page.                   *)
MatchingOf(list, cond, fields) ==
  Kept(list, {i \in DOMAIN list : \A f \in fields \cap DOMAIN cond : list[i][f] = cond[f]})

LEMMA MatchingIs ==
  ASSUME NEW list, NEW q, NEW fields
  PROVE  Matching(list, q, fields) = MatchingOf(list, q.cond, fields)
  BY Zenon DEF Matching, MatchingOf, Satisfies

SortBy(list, sort, key) ==
  LET Before(i, j) ==
        \/ sort = "asc" /\ list[i][key] < list[j][key]
        \/ sort = "desc" /\ list[i][key] > list[j][key]
        \/ (sort = "none" \/ list[i][key] = list[j][key]) /\ i < j
      Rank(i) == Cardinality({j \in DOMAIN list : Before(j, i)}) + 1
  IN  [k \in DOMAIN list |-> list[CHOOSE i \in DOMAIN list : Rank(i) = k]]

LEMMA SortIs ==
  ASSUME NEW list, NEW q, NEW key
  PROVE  SortListObject(list, q, key) = SortBy(list, q.sort, key)
  BY Zenon DEF SortListObject, SortBy

LEMMA SortSeq ==
  ASSUME NEW S, NEW list \in Seq(S), NEW sort, NEW key
  PROVE  \E T : SortBy(list, sort, key) \in Seq(T)
<1> DEFINE Before(i, j) ==
             \/ sort = "asc" /\ list[i][key] < list[j][key]
             \/ sort = "desc" /\ list[i][key] > list[j][key]
             \/ (sort = "none" \/ list[i][key] = list[j][key]) /\ i < j
           Rank(i) == Cardinality({j \in DOMAIN list : Before(j, i)}) + 1
           El(k) == list[CHOOSE i \in DOMAIN list : Rank(i) = k]
<1>1. SortBy(list, sort, key) = [k \in DOMAIN list |-> El(k)]
  BY Zenon DEF SortBy
<1> HIDE DEF El
<1>2. Len(list) \in Nat /\ DOMAIN list = 1 .. Len(list)
  OBVIOUS
<1>3. SortBy(list, sort, key) \in Seq({El(k) : k \in DOMAIN list})
  BY <1>1, <1>2
<1> QED
  BY <1>3

LEMMA ProxyPages ==
  ASSUME ListsOK, NEW providers, NEW cond
  PROVE  \E list \in Seq(ProxyView) :
           /\ ProxyList(runners, providers, Whole(cond, "none")).list = list
           /\ \A k, limit \in Nat \ {0} :
                ProxyList(runners, providers, Nth(k, limit, cond, "none")).list
                  = Slice(list, k, limit)
<1> DEFINE views == Shown(runners, providers)
           list == MatchingOf(views, cond, ProxyFields)
<1>1. runners \in Seq(Runner)
  BY DEF ListsOK, RunnersOK
<1>2. ASSUME NEW q, QueryOK(q), q.cond = cond
      PROVE  list \in Seq(ProxyView) /\ ProxyList(runners, providers, q).list = Paged(list, q).list
  <2>1. Matching(views, q, ProxyFields) = list
    BY <1>2, MatchingIs
  <2>2. Matching(views, q, ProxyFields) \in Seq(ProxyView)
    BY <1>1, <1>2, ProxyListIs
  <2>3. ProxyList(runners, providers, q) = Paged(Matching(views, q, ProxyFields), q)
    BY <1>1, <1>2, ProxyListIs
  <2> QED
    BY <2>1, <2>2, <2>3
<1> HIDE DEF list
<1>3. list \in Seq(ProxyView) /\ ProxyList(runners, providers, Whole(cond, "none")).list = list
  <2> DEFINE q == Whole(cond, "none")
  <2>1. QueryOK(q) /\ q.cond = cond /\ q.skip = TRUE
    BY WholeIs
  <2> HIDE DEF q
  <2>2. Paged(list, q).list = list
    BY <2>1 DEF Paged
  <2> QED
    BY <1>2, <2>1, <2>2 DEF q
<1>4. ASSUME NEW k \in Nat \ {0}, NEW limit \in Nat \ {0}
      PROVE  ProxyList(runners, providers, Nth(k, limit, cond, "none")).list = Slice(list, k, limit)
  <2> DEFINE q == Nth(k, limit, cond, "none")
  <2>1. QueryOK(q) /\ q.cond = cond /\ q.skip = FALSE /\ q.page = k /\ q.limit = limit
    BY LimitAssumption DEF QueryOK, FilterModel, Nth
  <2> HIDE DEF q
  <2>2. Paged(list, q).list = Slice(list, k, limit)
    BY <2>1 DEF Paged
  <2> QED
    BY <1>2, <2>1, <2>2 DEF q
<1> QED
  BY <1>3, <1>4

LEMMA UserPages ==
  ASSUME ListsOK, NEW providers, NEW sort
  PROVE  \E S : \E list \in Seq(S) :
           /\ UsersProxies(runners, providers, Whole(<<>>, sort)).list = list
           /\ \A k, limit \in Nat \ {0} :
                UsersProxies(runners, providers, Nth(k, limit, <<>>, sort)).list
                  = Slice(list, k, limit)
<1> DEFINE first == ProxyList(runners, providers, FirstPage).list
           list == SortBy(first, sort, "listenPort")
<1>1. first \in Seq(ProxyView)
  BY ProxyListIs, FixedQueries DEF ListsOK, RunnersOK
<1>2. PICK S : list \in Seq(S)
  BY <1>1, SortSeq
<1>3. ASSUME NEW q, q.sort = sort
      PROVE  UsersProxies(runners, providers, q).list = Paged(list, q).list
  <2>1. UsersProxies(runners, providers, q) = Paged(SortListObject(first, q, "listenPort"), q)
    BY Zenon DEF UsersProxies, FilterAndSortUsersProxy
  <2>2. SortListObject(first, q, "listenPort") = list
    BY <1>3, SortIs
  <2> QED
    BY <2>1, <2>2
<1> HIDE DEF list
<1>4. UsersProxies(runners, providers, Whole(<<>>, sort)).list = list
  <2> DEFINE q == Whole(<<>>, sort)
  <2>1. q.sort = sort /\ q.skip = TRUE
    BY WholeIs
  <2> HIDE DEF q
  <2>2. Paged(list, q).list = list
    BY <2>1 DEF Paged
  <2> QED
    BY <1>3, <2>1, <2>2 DEF q
<1>5. ASSUME NEW k \in Nat \ {0}, NEW limit \in Nat \ {0}
      PROVE  UsersProxies(runners, providers, Nth(k, limit, <<>>, sort)).list = Slice(list, k, limit)
  <2> DEFINE q == Nth(k, limit, <<>>, sort)
  <2>1. q.sort = sort /\ q.skip = FALSE /\ q.page = k /\ q.limit = limit
    BY LimitAssumption DEF FilterModel, Nth
  <2> HIDE DEF q
  <2>2. Paged(list, q).list = Slice(list, k, limit)
    BY <2>1 DEF Paged
  <2> QED
    BY <1>3, <2>1, <2>2 DEF q
<1> QED
  BY <1>2, <1>4, <1>5

LEMMA ProxyJoin ==
  ASSUME ListsOK, NEW providers, NEW cond, NEW limit \in Nat \ {0}
  PROVE  LET whole == ProxyList(runners, providers, Whole(cond, "none")).list
             N == Len(whole)
             u == CHOOSE f : f = [k \in 0 .. N |-> IF k = 0 THEN <<>> ELSE f[k - 1] \o
                    ProxyList(runners, providers, Nth(k, limit, cond, "none")).list]
         IN  u[N] = whole
<1>1. PICK list \in Seq(ProxyView) :
           /\ ProxyList(runners, providers, Whole(cond, "none")).list = list
           /\ \A k, l \in Nat \ {0} :
                ProxyList(runners, providers, Nth(k, l, cond, "none")).list = Slice(list, k, l)
  BY ProxyPages
<1> DEFINE N == Len(list)
           One(k) == ProxyList(runners, providers, Nth(k, limit, cond, "none")).list
           P(f) == f = [k \in 0 .. N |-> IF k = 0 THEN <<>> ELSE f[k - 1] \o One(k)]
<1>2. \A k \in 0 .. N : k = 0 \/ One(k) = Slice(list, k, limit)
  BY <1>1
<1>3. ASSUME NEW f PROVE P(f) <=> Joins(f, list, limit)
  <2> HIDE DEF One
  <2> DEFINE a == [k \in 0 .. N |-> IF k = 0 THEN <<>> ELSE f[k - 1] \o One(k)]
             b == [k \in 0 .. N |-> IF k = 0 THEN <<>> ELSE f[k - 1] \o Slice(list, k, limit)]
  <2>1. \A k \in 0 .. N : a[k] = b[k]
    BY <1>2
  <2>2. a = [k \in 0 .. N |-> a[k]] /\ b = [k \in 0 .. N |-> b[k]]
    OBVIOUS
  <2>3. a = b
    <3> HIDE DEF a, b
    <3> QED
      BY <2>1, <2>2
  <2>4. (P(f) <=> f = a) /\ (Joins(f, list, limit) <=> f = b)
    BY Zenon DEF Joins
  <2> HIDE DEF P, a, b
  <2> QED
    BY <2>3, <2>4
<1> HIDE DEF P
<1>4. P(CHOOSE f : P(f))
  BY <1>3, JoinsExist
<1>5. (CHOOSE f : P(f))[N] = list
  BY <1>3, <1>4, JoinedPages
<1>6. (CHOOSE f : f = [k \in 0 .. N |-> IF k = 0 THEN <<>> ELSE f[k - 1] \o
          ProxyList(runners, providers, Nth(k, limit, cond, "none")).list])[N] = list
  BY <1>5, Zenon DEF P
<1> QED
  BY <1>1, <1>6, Zenon

LEMMA UserJoin ==
  ASSUME ListsOK, NEW providers, NEW sort, NEW limit \in Nat \ {0}
  PROVE  LET whole == UsersProxies(runners, providers, Whole(<<>>, sort)).list
             N == Len(whole)
             u == CHOOSE f : f = [k \in 0 .. N |-> IF k = 0 THEN <<>> ELSE f[k - 1] \o
                    UsersProxies(runners, providers, Nth(k, limit, <<>>, sort)).list]
         IN  u[N] = whole
<1>1. PICK S : \E list \in Seq(S) :
           /\ UsersProxies(runners, providers, Whole(<<>>, sort)).list = list
           /\ \A k, l \in Nat \ {0} :
                UsersProxies(runners, providers, Nth(k, l, <<>>, sort)).list = Slice(list, k, l)
  BY UserPages
<1>1a. PICK list \in Seq(S) :
           /\ UsersProxies(runners, providers, Whole(<<>>, sort)).list = list
           /\ \A k, l \in Nat \ {0} :
                UsersProxies(runners, providers, Nth(k, l, <<>>, sort)).list = Slice(list, k, l)
  BY <1>1
<1> DEFINE N == Len(list)
           One(k) == UsersProxies(runners, providers, Nth(k, limit, <<>>, sort)).list
           P(f) == f = [k \in 0 .. N |-> IF k = 0 THEN <<>> ELSE f[k - 1] \o One(k)]
<1>2. \A k \in 0 .. N : k = 0 \/ One(k) = Slice(list, k, limit)
  BY <1>1a
<1>3. ASSUME NEW f PROVE P(f) <=> Joins(f, list, limit)
  <2> HIDE DEF One
  <2> DEFINE a == [k \in 0 .. N |-> IF k = 0 THEN <<>> ELSE f[k - 1] \o One(k)]
             b == [k \in 0 .. N |-> IF k = 0 THEN <<>> ELSE f[k - 1] \o Slice(list, k, limit)]
  <2>1. \A k \in 0 .. N : a[k] = b[k]
    BY <1>2
  <2>2. a = [k \in 0 .. N |-> a[k]] /\ b = [k \in 0 .. N |-> b[k]]
    OBVIOUS
  <2>3. a = b
    <3> HIDE DEF a, b
    <3> QED
      BY <2>1, <2>2
  <2>4. (P(f) <=> f = a) /\ (Joins(f, list, limit) <=> f = b)
    BY Zenon DEF Joins
  <2> HIDE DEF P, a, b
  <2> QED
    BY <2>3, <2>4
<1> HIDE DEF P
<1>4. P(CHOOSE f : P(f))
  BY <1>3, JoinsExist
<1>5. (CHOOSE f : P(f))[N] = list
  BY <1>3, <1>4, JoinedPages
<1>6. (CHOOSE f : f = [k \in 0 .. N |-> IF k = 0 THEN <<>> ELSE f[k - 1] \o
          UsersProxies(runners, providers, Nth(k, limit, <<>>, sort)).list])[N] = list
  BY <1>5, Zenon DEF P
<1> QED
  BY <1>1a, <1>6, Zenon

THEOREM PagesCoverLists == Spec => []PagesPartition
<1>1. ListsOK => PagesPartition
  <2> SUFFICES ASSUME ListsOK PROVE PagesPartition
    OBVIOUS
  <2>1. \A limit \in 1 .. 2 : limit \in Nat \ {0}
    OBVIOUS
  <2> QED
    BY <2>1, RegisteredJoin, ProxyJoin, UserJoin, Zenon
    DEF PagesPartition, Pages, Whole, Nth, RegisteredPage
<1> QED
  BY <1>1, AlwaysLists, PTL

-----------------------------------------------------------------------------
(* The types of the state and of the requests.                             *)
Answers == ProviderView \cup ProxyView

Typed(r) ==
  /\ r.pc \in PCs /\ r.out \in Outcomes
  /\ r.kind \in {"none", "providers", "proxies", "provider"}
  /\ r.of \in Provider \cup {None}
  /\ r.pc \in {"get.cache", "get.api", "get.info", "get.merge"} => r.of \in Provider
  /\ r.offers \in Seq(Provider) /\ r.ip \in BOOLEAN
  /\ r.seen \in Seq(Runner) /\ QueryOK(r.q)
  /\ Range(r.answer) \subseteq Answers

AllTyped == \A s \in Slots : Typed(req[s])

CacheTyped ==
  /\ tmp \in [Provider -> Provider \cup {None}]
  /\ ttl \subseteq {p \in Provider : tmp[p] # None}
  /\ info \subseteq Provider /\ pending \subseteq Provider
  /\ events \in 0 .. MaxEvents

LEMMA IdleTyped == Typed(Idle)
<1>1. /\ Idle.pc = "idle" /\ Idle.kind = "none" /\ Idle.of = None /\ Idle.q = WholeList
      /\ Idle.offers = <<>> /\ Idle.ip = FALSE /\ Idle.seen = <<>> /\ Idle.answer = <<>>
      /\ Idle.out = "none"
  BY DEF Idle, WholeList
<1>2. QueryOK(WholeList)
  BY FixedQueries
<1>3. Range(<<>>) = {}
  BY DEF Range
<1>4. <<>> \in Seq(Provider) /\ <<>> \in Seq(Runner)
  OBVIOUS
<1> HIDE DEF Idle
<1> QED
  BY <1>1, <1>2, <1>3, <1>4 DEF Typed, PCs, Outcomes

LEMMA PutTyped ==
  ASSUME Shaped, AllTyped, NEW s \in Slots, NEW r, Typed(r), req' = [req EXCEPT ![s] = r]
  PROVE  AllTyped'
  BY DEF Shaped, AllTyped

LEMMA InitTyped == Init => AllTyped /\ CacheTyped
<1> SUFFICES ASSUME Init PROVE AllTyped /\ CacheTyped
  OBVIOUS
<1>1. AllTyped
  BY IdleTyped DEF Init, AllTyped
<1>2. info \subseteq Provider
  BY DEF Init
<1> QED
  BY <1>1, <1>2, CatalogueAssumption DEF Init, CacheTyped

(* The lists of containers a look-up reads, and what it makes of them.     *)
LEMMA ReadTyped ==
  ASSUME ListsOK, NEW p
  PROVE  OfProvider(p) \in Seq(Runner) /\ DaemonsOf(p) \in Seq(Runner)
<1> DEFINE carries == {i \in DOMAIN runners : runners[i].of = p /\ runners[i].service # "myst"}
           daemons == {i \in DOMAIN runners : runners[i].of = p /\ runners[i].service = "myst"}
<1>1. runners \in Seq(Runner) /\ carries \in SUBSET DOMAIN runners /\ daemons \in SUBSET DOMAIN runners
  BY DEF ListsOK, RunnersOK
<1>2. /\ OfProvider(p) = Paged(Kept(runners, carries), FirstPage).list
      /\ DaemonsOf(p) = Paged(Kept(runners, daemons), FirstPage).list
  BY DEF OfProvider, DaemonsOf, FilterAndSortRunner
<1> HIDE DEF carries, daemons
<1>3. Kept(runners, carries) \in Seq(Runner) /\ Kept(runners, daemons) \in Seq(Runner)
  BY <1>1, KeptSeq
<1> QED
  BY <1>2, <1>3, PagedSeq, FixedQueries DEF QueryOK

LEMMA SeqRange ==
  ASSUME NEW S, NEW list \in Seq(S)
  PROVE  Range(list) \subseteq S
  BY DEF Range

LEMMA GetTyped ==
  ASSUME NEW p \in Provider, NEW offers \in Seq(Provider), NEW ip \in BOOLEAN,
         NEW list \in Seq(Runner), NEW daemons \in Seq(Runner)
  PROVE  Range(ProviderGet(p, [i \in DOMAIN offers |-> Offer(offers[i], ip)], list, daemons))
           \subseteq ProviderView
<1> DEFINE offer == [i \in DOMAIN offers |-> Offer(offers[i], ip)]
           base == IF offer = <<>> THEN DefaultOffer(p) ELSE offer[1]
<1>1. \A i \in DOMAIN offers : Offer(offers[i], ip) \in ProviderView
  <2>1. \A i \in DOMAIN offers : offers[i] \in Provider
    OBVIOUS
  <2> QED
    BY <2>1, OfferType
<1>2. Len(offers) \in Nat /\ DOMAIN offers = 1 .. Len(offers)
  OBVIOUS
<1>3. offer \in Seq(ProviderView)
  BY <1>1, <1>2
<1>4. ProviderGet(p, offer, list, daemons) =
        IF list = <<>> THEN offer
        ELSE IF ~Has(daemons, p, "myst") THEN <<base>>
        ELSE <<Merged(base, list \o daemons, offer # <<>>)>>
  BY Zenon DEF ProviderGet
<1> HIDE DEF offer
<1>5. base \in ProviderView
  <2>1. offer # <<>> => offer[1] \in ProviderView
    BY <1>3
  <2>2. DefaultOffer(p) \in ProviderView
    BY OfferType
  <2> QED
    BY <2>1, <2>2
<1>6. list \o daemons \in Seq(Runner)
  OBVIOUS
<1> HIDE DEF base
<1>7. Merged(base, list \o daemons, offer # <<>>) \in ProviderView
  <2> DEFINE on == offer # <<>>
             all == list \o daemons
  <2>1. all \in Seq(Runner)
    BY <1>6
  <2> HIDE DEF all, on
  <2>2. Merged(base, all, on) \in ProviderView
    BY <1>5, <2>1, MergedType
  <2> QED
    BY <2>2 DEF all, on
<1>8. ProviderGet(p, offer, list, daemons) \in Seq(ProviderView)
  <2> DEFINE m == Merged(base, list \o daemons, offer # <<>>)
  <2>1. <<base>> \in Seq(ProviderView)
    BY <1>5
  <2>2. m \in ProviderView
    BY <1>7
  <2> HIDE DEF m
  <2>3. <<m>> \in Seq(ProviderView)
    BY <2>2
  <2>4. ProviderGet(p, offer, list, daemons) \in {offer, <<base>>, <<m>>}
    BY <1>4 DEF m
  <2> QED
    BY <1>3, <2>1, <2>3, <2>4
<1> QED
  BY <1>8, SeqRange DEF offer

(* The requests keep their types, step by step.                            *)
TInv == IInv /\ ListsOK /\ AllTyped /\ CacheTyped

LEMMA BeginTyped ==
  ASSUME TInv, NEW s \in Slots,
         BeginGet(s) \/ \E kind \in {"providers", "proxies"} : BeginList(s, kind)
  PROVE  AllTyped'
<1>d. DOMAIN req[s] = Fields /\ DOMAIN req = Slots /\ Typed(req[s])
  BY DEF TInv, IInv, Shaped, AllTyped
<1>1. CASE BeginGet(s)
  <2>1. PICK p \in Provider :
          req' = [req EXCEPT ![s].pc = "get.cache", ![s].kind = "provider", ![s].of = p]
    BY <1>1 DEF BeginGet
  <2> DEFINE r == [req[s] EXCEPT !.pc = "get.cache", !.kind = "provider", !.of = p]
  <2>2. req' = [req EXCEPT ![s] = r]
    BY <1>d, <2>1, Zenon
  <2>3. /\ r.pc = "get.cache" /\ r.kind = "provider" /\ r.of = p /\ r.q = req[s].q
        /\ r.offers = req[s].offers /\ r.ip = req[s].ip /\ r.seen = req[s].seen
        /\ r.answer = req[s].answer /\ r.out = req[s].out
    BY <1>d DEF Fields
  <2> HIDE DEF r
  <2>4. Typed(r)
    BY <1>d, <2>3 DEF Typed, PCs
  <2> QED
    BY <2>2, <2>4, PutTyped DEF TInv, IInv
<1>2. ASSUME NEW kind \in {"providers", "proxies"}, BeginList(s, kind)
      PROVE  AllTyped'
  <2>1. PICK q \in Queries(kind) :
          req' = [req EXCEPT ![s].pc = "list.read", ![s].kind = kind, ![s].q = q]
    BY <1>2 DEF BeginList
  <2> DEFINE r == [req[s] EXCEPT !.pc = "list.read", !.kind = kind, !.q = q]
  <2>2. req' = [req EXCEPT ![s] = r]
    BY <1>d, <2>1, Zenon
  <2>3. /\ r.pc = "list.read" /\ r.kind = kind /\ r.of = req[s].of /\ r.q = q
        /\ r.offers = req[s].offers /\ r.ip = req[s].ip /\ r.seen = req[s].seen
        /\ r.answer = req[s].answer /\ r.out = req[s].out
    BY <1>d DEF Fields
  <2>4. QueryOK(q)
    <3> DEFINE conds == IF kind = "proxies" THEN {<<>>, [status |-> "online"]}
                        ELSE {<<>>, [isRegister |-> TRUE, proxyCount |-> 1]}
               F(cut, cond) == FilterModel(cut[1], cut[2], FALSE, cond, "none")
    <3>1. Queries(kind) = {F(cut, cond) : cut \in Cuts, cond \in conds}
      BY DEF Queries
    <3>2. \A cut \in Cuts : cut[1] \in Nat /\ cut[2] \in Nat
      BY DEF Cuts
    <3>3. \A cut \in Cuts, cond \in conds : QueryOK(F(cut, cond))
      BY <3>2, LimitAssumption DEF FilterModel, QueryOK
    <3> HIDE DEF conds, F
    <3> QED
      BY <2>1, <3>1, <3>3
  <2> HIDE DEF r
  <2>5. Typed(r)
    BY <1>d, <2>3, <2>4 DEF Typed, PCs
  <2> QED
    BY <2>2, <2>5, PutTyped DEF TInv, IInv
<1> QED
  BY <1>1, <1>2

(* A request that is over.                                                 *)
LEMMA DoneTyped ==
  ASSUME TInv, NEW s \in Slots, NEW o \in Outcomes, NEW answer, Range(answer) \subseteq Answers,
         req' = [req EXCEPT ![s] = [@ EXCEPT !.pc = "done", !.offers = <<>>, !.ip = FALSE,
                                             !.seen = <<>>, !.answer = answer, !.out = o]]
  PROVE  AllTyped'
<1> DEFINE r == [req[s] EXCEPT !.pc = "done", !.offers = <<>>, !.ip = FALSE,
                               !.seen = <<>>, !.answer = answer, !.out = o]
<1>d. DOMAIN req[s] = Fields /\ DOMAIN req = Slots /\ Typed(req[s])
  BY DEF TInv, IInv, Shaped, AllTyped
<1>1. req' = [req EXCEPT ![s] = r]
  OBVIOUS
<1>2. /\ r.pc = "done" /\ r.kind = req[s].kind /\ r.of = req[s].of /\ r.q = req[s].q
      /\ r.offers = <<>> /\ r.ip = FALSE /\ r.seen = <<>> /\ r.answer = answer /\ r.out = o
  BY <1>d DEF Fields
<1>e. <<>> \in Seq(Provider) /\ <<>> \in Seq(Runner)
  OBVIOUS
<1> HIDE DEF r
<1>3. Typed(r)
  BY <1>d, <1>e, <1>2 DEF Typed, PCs
<1> QED
  BY <1>1, <1>3, PutTyped DEF TInv, IInv

LEMMA ReadStepTyped ==
  ASSUME TInv, NEW s \in Slots, ListRead(s) \/ ListRunnersFails(s)
  PROVE  AllTyped'
<1>d. DOMAIN req[s] = Fields /\ DOMAIN req = Slots /\ Typed(req[s])
  BY DEF TInv, IInv, Shaped, AllTyped
<1> DEFINE page == ApiPage(Asked(Query(s)), Query(s))
<1>1. page \in Seq(Provider)
  <2>1. QueryOK(Query(s))
    BY <1>d, FixedQueries DEF Query, Typed
  <2> QED
    BY <2>1, ApiSeq DEF TInv, ListsOK
<1>2. runners \in Seq(Runner)
  BY DEF TInv, ListsOK, RunnersOK
<1>3. Range(ListAnswer(req[s], page)) \subseteq Answers
  <2>1. QueryOK(req[s].q) /\ QueryOK(AllRegistered)
    BY <1>d, FixedQueries DEF Typed
  <2> HIDE DEF page
  <2>2. ProviderList(page, runners, info, req[s].q).list \in Seq(ProviderView)
    BY <1>1, <1>2, <2>1, ProviderListIs
  <2> DEFINE providers == ProviderList(page, runners, info, AllRegistered).list
  <2>3. ProxyList(runners, providers, req[s].q).list \in Seq(ProxyView)
    <3> HIDE DEF providers
    <3> QED
      BY <1>2, <2>1, ProxyListIs
  <2>4. ListAnswer(req[s], page) \in Seq(ProviderView) \/ ListAnswer(req[s], page) \in Seq(ProxyView)
    BY <2>2, <2>3 DEF ListAnswer
  <2> QED
    BY <2>4, SeqRange DEF Answers
<1>4. Range(<<>>) \subseteq Answers /\ <<>> \in Seq(Provider)
  BY DEF Range
<1>5. ASSUME NEW l \in {"done", "list.mset"}, NEW offers \in Seq(Provider), NEW answer,
             Range(answer) \subseteq Answers, NEW o \in Outcomes,
             req' = [req EXCEPT ![s] = [@ EXCEPT !.pc = l, !.offers = offers,
                                                 !.answer = answer, !.out = o]]
      PROVE  AllTyped'
  <2> DEFINE r == [req[s] EXCEPT !.pc = l, !.offers = offers, !.answer = answer, !.out = o]
  <2>1. req' = [req EXCEPT ![s] = r]
    BY <1>5
  <2>2. /\ r.pc = l /\ r.kind = req[s].kind /\ r.of = req[s].of /\ r.q = req[s].q
        /\ r.offers = offers /\ r.ip = req[s].ip /\ r.seen = req[s].seen
        /\ r.answer = answer /\ r.out = o
    BY <1>d DEF Fields
  <2> HIDE DEF r
  <2>3. Typed(r)
    BY <1>5, <1>d, <2>2 DEF Typed, PCs
  <2> QED
    BY <2>1, <2>3, PutTyped DEF TInv, IInv
<1>6. CASE ListRead(s)
  <2> DEFINE none == Asked(Query(s)) = <<>>
             throws == req[s].kind = "proxies" /\ MergeThrows(runners)
             l == IF none THEN "done" ELSE "list.mset"
             offers == IF none THEN <<>> ELSE page
             answer == IF throws THEN <<>> ELSE ListAnswer(req[s], page)
             o == IF throws THEN "Unknown" ELSE "Ok"
  <2>1. req' = [req EXCEPT ![s] = [@ EXCEPT !.pc = l, !.offers = offers,
                                            !.answer = answer, !.out = o]]
    BY <1>6 DEF ListRead
  <2>2. /\ l \in {"done", "list.mset"} /\ offers \in Seq(Provider)
        /\ Range(answer) \subseteq Answers /\ o \in Outcomes
    BY <1>1, <1>3, <1>4 DEF Outcomes
  <2> HIDE DEF l, offers, answer, o
  <2> QED
    BY <1>5, <2>1, <2>2
<1>7. CASE ListRunnersFails(s)
  <2> DEFINE r == [req[s] EXCEPT !.pc = "list.mset", !.out = "Repository", !.offers = page]
  <2>1. req' = [req EXCEPT ![s] = r]
    BY <1>7 DEF ListRunnersFails
  <2>2. /\ r.pc = "list.mset" /\ r.kind = req[s].kind /\ r.of = req[s].of /\ r.q = req[s].q
        /\ r.offers = page /\ r.ip = req[s].ip /\ r.seen = req[s].seen
        /\ r.answer = req[s].answer /\ r.out = "Repository"
    BY <1>d DEF Fields
  <2> HIDE DEF r, page
  <2>3. Typed(r)
    BY <1>1, <1>d, <2>2 DEF Typed, PCs, Outcomes
  <2> QED
    BY <2>1, <2>3, PutTyped DEF TInv, IInv
<1> QED
  BY <1>6, <1>7

LEMMA SaveTyped ==
  ASSUME TInv, NEW s \in Slots, ListSave(s)
  PROVE  AllTyped' /\ CacheTyped'
<1>d. DOMAIN req[s] = Fields /\ DOMAIN req = Slots /\ Typed(req[s])
  BY DEF TInv, IInv, Shaped, AllTyped
<1>0. UNCHANGED <<info, events>>
  BY DEF ListSave, world
<1>1. CASE req[s].offers = <<>>
  <2> DEFINE r == [req[s] EXCEPT !.pc = "done", !.answer = <<>>, !.out = "Repository"]
  <2>1. req' = [req EXCEPT ![s] = r] /\ UNCHANGED cache
    BY <1>1 DEF ListSave
  <2>2. /\ r.pc = "done" /\ r.kind = req[s].kind /\ r.of = req[s].of /\ r.q = req[s].q
        /\ r.offers = req[s].offers /\ r.ip = req[s].ip /\ r.seen = req[s].seen
        /\ r.answer = <<>> /\ r.out = "Repository"
    BY <1>d DEF Fields
  <2>3. Range(<<>>) \subseteq Answers
    BY DEF Range
  <2> HIDE DEF r
  <2>4. Typed(r)
    BY <1>d, <2>2, <2>3 DEF Typed, PCs, Outcomes
  <2>5. AllTyped'
    BY <2>1, <2>4, PutTyped DEF TInv, IInv
  <2> QED
    BY <1>0, <2>1, <2>5 DEF cache, TInv, CacheTyped
<1>2. CASE req[s].offers # <<>>
  <2> DEFINE page == req[s].offers
  <2>1. /\ tmp' = Saved(page) /\ ttl' = ttl \ Range(page)
        /\ pending' = pending \cup Range(page) /\ Answer(s, req[s].out)
    BY <1>2 DEF ListSave
  <2>2. Range(page) \subseteq Provider
    BY <1>d, SeqRange DEF Typed
  <2>3. CacheTyped'
    <3> HIDE DEF page
    <3>1. /\ tmp \in [Provider -> Provider \cup {None}] /\ pending \subseteq Provider
          /\ ttl \subseteq {p \in Provider : tmp[p] # None}
          /\ info \subseteq Provider /\ events \in 0 .. MaxEvents
      BY DEF TInv, CacheTyped
    <3>2. /\ tmp' \in [Provider -> Provider \cup {None}]
          /\ \A p \in Provider : p \notin Range(page) => tmp'[p] = tmp[p]
      BY <2>1, <3>1 DEF Saved
    <3>3. ttl' \subseteq {p \in Provider : tmp'[p] # None}
      BY <2>1, <3>1, <3>2
    <3>4. pending' \subseteq Provider
      BY <2>1, <2>2, <3>1
    <3> QED
      BY <1>0, <3>1, <3>2, <3>3, <3>4 DEF CacheTyped
  <2> DEFINE r == [req[s] EXCEPT !.pc = "done", !.out = req[s].out, !.offers = <<>>,
                                 !.ip = FALSE, !.seen = <<>>]
  <2>4. req' = [req EXCEPT ![s] = r]
    BY <2>1 DEF Answer
  <2>5. /\ r.pc = "done" /\ r.kind = req[s].kind /\ r.of = req[s].of /\ r.q = req[s].q
        /\ r.offers = <<>> /\ r.ip = FALSE /\ r.seen = <<>>
        /\ r.answer = req[s].answer /\ r.out = req[s].out
    BY <1>d DEF Fields
  <2> HIDE DEF r
  <2>e. <<>> \in Seq(Provider) /\ <<>> \in Seq(Runner)
    OBVIOUS
  <2>6. Typed(r)
    BY <1>d, <2>e, <2>5 DEF Typed, PCs
  <2>7. AllTyped'
    BY <2>4, <2>6, PutTyped DEF TInv, IInv
  <2> QED
    BY <2>3, <2>7
<1> QED
  BY <1>1, <1>2

LEMMA LookUpTyped ==
  ASSUME TInv, NEW s \in Slots,
         GetCache(s) \/ GetCacheFails(s) \/ GetApi(s) \/ GetInfo(s) \/ GetMerge(s)
  PROVE  AllTyped'
<1>d. DOMAIN req[s] = Fields /\ DOMAIN req = Slots /\ Typed(req[s])
  BY DEF TInv, IInv, Shaped, AllTyped
<1>0. ListsOK
  BY DEF TInv
<1>1. CASE GetCache(s)
  <2> DEFINE p == req[s].of
             name == IF tmp[p] # None THEN tmp[p] ELSE IF p \in info THEN p ELSE None
             found == IF name = None THEN <<>> ELSE <<name>>
             seen == OfProvider(p)
             r == [req[s] EXCEPT !.pc = "get.api", !.seen = seen, !.offers = found]
  <2>1. p \in Provider
    BY <1>1, <1>d DEF GetCache, At, Typed
  <2>2. name \in Provider \cup {None}
    BY <2>1 DEF TInv, CacheTyped
  <2>3. found \in Seq(Provider)
    <3> HIDE DEF name
    <3> QED
      BY <2>2
  <2>4. req' = [req EXCEPT ![s] = r]
    BY <1>1, <1>d, Zenon DEF GetCache
  <2>5. seen \in Seq(Runner)
    BY <1>0, ReadTyped
  <2> HIDE DEF found, seen, name
  <2>6. /\ r.pc = "get.api" /\ r.kind = req[s].kind /\ r.of = p /\ r.q = req[s].q
        /\ r.offers = found /\ r.ip = req[s].ip /\ r.seen = seen
        /\ r.answer = req[s].answer /\ r.out = req[s].out
    BY <1>d DEF Fields
  <2> HIDE DEF r, p
  <2>7. Typed(r)
    BY <1>d, <2>1, <2>3, <2>5, <2>6 DEF Typed, PCs
  <2> QED
    BY <2>4, <2>7, PutTyped DEF TInv, IInv
<1>2. CASE GetCacheFails(s)
  <2> DEFINE p == req[s].of
             seen == OfProvider(p)
             r == [req[s] EXCEPT !.pc = "get.api", !.seen = seen]
  <2>1. p \in Provider
    BY <1>2, <1>d DEF GetCacheFails, At, Typed
  <2>2. req' = [req EXCEPT ![s] = r]
    BY <1>2, <1>d, Zenon DEF GetCacheFails
  <2>3. seen \in Seq(Runner)
    BY <1>0, ReadTyped
  <2> HIDE DEF seen
  <2>4. /\ r.pc = "get.api" /\ r.kind = req[s].kind /\ r.of = p /\ r.q = req[s].q
        /\ r.offers = req[s].offers /\ r.ip = req[s].ip /\ r.seen = seen
        /\ r.answer = req[s].answer /\ r.out = req[s].out
    BY <1>d DEF Fields
  <2> HIDE DEF r, p
  <2>5. Typed(r)
    BY <1>d, <2>1, <2>3, <2>4 DEF Typed, PCs
  <2> QED
    BY <2>2, <2>5, PutTyped DEF TInv, IInv
<1>3. CASE GetApi(s)
  <2> DEFINE cached == req[s].offers # <<>>
             name == IF cached THEN req[s].offers[1] ELSE req[s].of
             found == IF name \in Range(Asked(WholeList)) THEN <<name>> ELSE <<>>
             l == IF cached /\ found # <<>> THEN "get.info" ELSE "get.merge"
             r == [req[s] EXCEPT !.offers = found, !.pc = l]
  <2>1. req' = [req EXCEPT ![s].offers = found, ![s].pc = l]
    BY <1>3 DEF GetApi
  <2>2. l \in {"get.info", "get.merge"}
    OBVIOUS
  <2>3. req[s].of \in Provider
    BY <1>3, <1>d DEF GetApi, At, Typed
  <2>4. found \in Seq(Provider)
    <3>1. Range(Asked(WholeList)) \subseteq Provider
      BY <1>0, ApiSeq, FixedQueries DEF ListsOK
    <3> HIDE DEF name
    <3> QED
      BY <3>1
  <2> HIDE DEF found, l
  <2>5. req' = [req EXCEPT ![s] = r]
    BY <1>d, <2>1, Zenon
  <2>6. /\ r.pc = l /\ r.kind = req[s].kind /\ r.of = req[s].of /\ r.q = req[s].q
        /\ r.offers = found /\ r.ip = req[s].ip /\ r.seen = req[s].seen
        /\ r.answer = req[s].answer /\ r.out = req[s].out
    BY <1>d DEF Fields
  <2> HIDE DEF r
  <2>7. Typed(r)
    BY <1>d, <2>2, <2>3, <2>4, <2>6 DEF Typed, PCs
  <2> QED
    BY <2>5, <2>7, PutTyped DEF TInv, IInv
<1>4. CASE GetInfo(s)
  <2> DEFINE ip == req[s].offers[1] \in info
             r == [req[s] EXCEPT !.pc = "get.merge", !.ip = ip]
  <2>1. req' = [req EXCEPT ![s] = r]
    BY <1>d, <1>4, Zenon DEF GetInfo
  <2>2. ip \in BOOLEAN
    BY SMT
  <2> HIDE DEF ip
  <2>3. /\ r.pc = "get.merge" /\ r.kind = req[s].kind /\ r.of = req[s].of /\ r.q = req[s].q
        /\ r.offers = req[s].offers /\ r.ip = ip /\ r.seen = req[s].seen
        /\ r.answer = req[s].answer /\ r.out = req[s].out
    BY <1>d DEF Fields
  <2>4. req[s].of \in Provider
    BY <1>4, <1>d DEF GetInfo, At, Typed
  <2> HIDE DEF r
  <2>5. Typed(r)
    BY <1>d, <2>2, <2>3, <2>4 DEF Typed, PCs
  <2> QED
    BY <2>1, <2>5, PutTyped DEF TInv, IInv
<1>5. CASE GetMerge(s)
  <2> DEFINE offers == req[s].offers
             view == ProviderGet(req[s].of, [i \in DOMAIN offers |-> Offer(offers[i], req[s].ip)],
                                 req[s].seen, DaemonsOf(req[s].of))
             o == IF view = <<>> THEN "NotFound" ELSE "Ok"
  <2>1. req' = [req EXCEPT ![s] = [@ EXCEPT !.pc = "done", !.offers = <<>>, !.ip = FALSE,
                                            !.seen = <<>>, !.answer = view, !.out = o]]
    BY <1>5 DEF GetMerge
  <2>2. /\ req[s].of \in Provider /\ offers \in Seq(Provider) /\ req[s].ip \in BOOLEAN
        /\ req[s].seen \in Seq(Runner)
    BY <1>5, <1>d DEF GetMerge, At, Typed
  <2>3. DaemonsOf(req[s].of) \in Seq(Runner)
    BY <1>0, ReadTyped
  <2>4. Range(view) \subseteq ProviderView
    BY <2>2, <2>3, GetTyped
  <2>5. Range(view) \subseteq Answers /\ o \in Outcomes
    BY <2>4 DEF Answers, Outcomes
  <2> HIDE DEF view, o
  <2> QED
    BY <2>1, <2>5, DoneTyped
<1> QED
  BY <1>1, <1>2, <1>3, <1>4, <1>5

LEMMA ServeTyped ==
  ASSUME TInv, NEW s \in Slots, Serve(s)
  PROVE  AllTyped' /\ CacheTyped'
<1>0. CacheTyped
  BY DEF TInv
<1>1. ASSUME UNCHANGED <<world, cache>>, events' \in 0 .. MaxEvents PROVE CacheTyped'
  BY <1>0, <1>1 DEF world, cache, CacheTyped
<1>2. Counted => events' \in 0 .. MaxEvents
  BY <1>0, CatalogueAssumption DEF Counted, CacheTyped
<1>3. UNCHANGED events => events' \in 0 .. MaxEvents
  BY <1>0 DEF CacheTyped
<1>4. CASE BeginGet(s) \/ \E kind \in {"providers", "proxies"} : BeginList(s, kind)
  <2>1. Counted /\ UNCHANGED <<world, cache>>
    BY <1>4 DEF BeginGet, BeginList
  <2> QED
    BY <1>1, <1>2, <1>4, <2>1, BeginTyped
<1>5. CASE ListRead(s) \/ ListRunnersFails(s)
  <2>1. (Counted \/ UNCHANGED events) /\ UNCHANGED <<world, cache>>
    BY <1>5 DEF ListRead, ListRunnersFails
  <2> QED
    BY <1>1, <1>2, <1>3, <1>5, <2>1, ReadStepTyped
<1>6. CASE ListSave(s)
  BY <1>6, SaveTyped
<1>7. CASE GetCache(s) \/ GetCacheFails(s) \/ GetApi(s) \/ GetInfo(s) \/ GetMerge(s)
  <2>1. (Counted \/ UNCHANGED events) /\ UNCHANGED <<world, cache>>
    BY <1>7 DEF GetCache, GetCacheFails, GetApi, GetInfo, GetMerge
  <2> QED
    BY <1>1, <1>2, <1>3, <1>7, <2>1, LookUpTyped
<1>8. CASE Fail(s)
  <2>1. Counted /\ UNCHANGED <<world, cache>>
    BY <1>8 DEF Fail
  <2>2. req' = [req EXCEPT ![s] = [@ EXCEPT !.pc = "done", !.offers = <<>>, !.ip = FALSE,
                                            !.seen = <<>>, !.answer = <<>>, !.out = "Repository"]]
    <3> DEFINE a == [req[s] EXCEPT !.pc = "done", !.out = "Repository", !.offers = <<>>,
                                   !.ip = FALSE, !.seen = <<>>, !.answer = <<>>]
               b == [req[s] EXCEPT !.pc = "done", !.offers = <<>>, !.ip = FALSE,
                                   !.seen = <<>>, !.answer = <<>>, !.out = "Repository"]
    <3>1. a = b
      OBVIOUS
    <3>2. req' = [req EXCEPT ![s] = a]
      BY <1>8 DEF Fail
    <3> HIDE DEF a
    <3> QED
      BY <3>1, <3>2
  <2>3. Range(<<>>) \subseteq Answers /\ "Repository" \in Outcomes
    BY DEF Range, Outcomes
  <2>4. AllTyped'
    BY <2>2, <2>3, DoneTyped
  <2> QED
    BY <1>1, <1>2, <2>1, <2>4
<1>9. CASE Reply(s)
  <2>1. req' = [req EXCEPT ![s] = Idle] /\ UNCHANGED events /\ UNCHANGED <<world, cache>>
    BY <1>9 DEF Reply
  <2>2. AllTyped'
    BY <2>1, IdleTyped, PutTyped DEF TInv, IInv
  <2> QED
    BY <1>1, <1>3, <2>1, <2>2
<1> QED
  BY <1>4, <1>5, <1>6, <1>7, <1>8, <1>9 DEF Serve

LEMMA OtherTyped ==
  ASSUME TInv, Surroundings \/ (\E p \in Provider : SetExpiry(p)) \/ Crash \/ UNCHANGED vars
  PROVE  AllTyped' /\ CacheTyped'
<1>0. /\ AllTyped /\ CacheTyped
      /\ Counted => events' \in 0 .. MaxEvents
      /\ UNCHANGED events => events' \in 0 .. MaxEvents
  BY CatalogueAssumption DEF TInv, Counted, CacheTyped
<1>1. ASSUME UNCHANGED req PROVE AllTyped'
  BY <1>0, <1>1 DEF AllTyped
<1>2. ASSUME UNCHANGED <<info, cache>>, events' \in 0 .. MaxEvents PROVE CacheTyped'
  BY <1>0, <1>2 DEF cache, CacheTyped
<1>3. ASSUME NEW p \in Provider, Join(p) \/ Withdraw(p) PROVE AllTyped' /\ CacheTyped'
  BY <1>0, <1>1, <1>2, <1>3 DEF Join, Withdraw
<1>4. ASSUME NEW p \in Provider, StoreIp(p) PROVE AllTyped' /\ CacheTyped'
  <2>1. Counted /\ UNCHANGED <<cache, req>> /\ info' = info \cup {p}
    BY <1>4 DEF StoreIp
  <2>2. CacheTyped'
    BY <1>0, <2>1 DEF cache, CacheTyped
  <2> QED
    BY <1>1, <2>1, <2>2
<1>5. ASSUME NEW p \in Provider, Expire(p) PROVE AllTyped' /\ CacheTyped'
  <2>1. /\ Counted /\ tmp' = [tmp EXCEPT ![p] = None] /\ ttl' = ttl \ {p}
        /\ UNCHANGED <<world, pending, req>>
    BY <1>5 DEF Expire
  <2>2. CacheTyped'
    BY <1>0, <2>1 DEF world, CacheTyped
  <2> QED
    BY <1>1, <2>1, <2>2
<1>6. ASSUME NEW p, NEW service, StartRunner(p, service) PROVE AllTyped' /\ CacheTyped'
  BY <1>0, <1>1, <1>2, <1>6 DEF StartRunner
<1>7. ASSUME NEW i, RemoveRunner(i) PROVE AllTyped' /\ CacheTyped'
  BY <1>0, <1>1, <1>2, <1>7 DEF RemoveRunner
<1>8. ASSUME NEW i, NEW st, ChangeRunner(i, st) PROVE AllTyped' /\ CacheTyped'
  BY <1>0, <1>1, <1>2, <1>8 DEF ChangeRunner
<1>9. ASSUME NEW p \in Provider, SetExpiry(p) PROVE AllTyped' /\ CacheTyped'
  <2>1. /\ pending' = pending \ {p} /\ UNCHANGED <<world, tmp, req, events>>
        /\ ttl' = ttl \cup ({p} \cap {x \in Provider : tmp[x] # None})
    BY <1>9 DEF SetExpiry
  <2>2. CacheTyped'
    BY <1>0, <2>1 DEF world, CacheTyped
  <2> QED
    BY <1>1, <2>1, <2>2
<1>10. CASE Crash
  <2>1. /\ Counted /\ pending' = {} /\ req' = [s \in Slots |-> Idle]
        /\ UNCHANGED <<world, tmp, ttl>>
    BY <1>10 DEF Crash
  <2>2. CacheTyped'
    BY <1>0, <2>1 DEF world, CacheTyped
  <2>3. AllTyped'
    BY <2>1, IdleTyped DEF AllTyped
  <2> QED
    BY <2>2, <2>3
<1>11. CASE UNCHANGED vars
  BY <1>0, <1>1, <1>2, <1>11 DEF vars, cache
<1> QED
  BY <1>3, <1>4, <1>5, <1>6, <1>7, <1>8, <1>9, <1>10, <1>11 DEF Surroundings

(* The state has its type, and so has every request: what a listing or a   *)
(* look-up answers are views of providers or of proxies, and a key of the  *)
(* cache only expires when it has a value (myst-provider-aggregate,        *)
(* myst-provider-cache-api and proxy-aggregate repositories).              *)
THEOREM CatalogueTypes == Spec => []TypeOK
<1>1. Init => TInv
  BY InitInv, InitRunners, InitTyped DEF TInv, ListsOK
<1>2. TInv /\ [Next]_vars => TInv'
  <2> SUFFICES ASSUME TInv, [Next]_vars PROVE TInv'
    OBVIOUS
  <2>1. IInv' /\ ListsOK'
    BY NextInv, NextLists DEF TInv
  <2>2. AllTyped' /\ CacheTyped'
    BY ServeTyped, OtherTyped DEF Next
  <2> QED
    BY <2>1, <2>2 DEF TInv
<1>3. TInv => TypeOK
  BY DEF TInv, ListsOK, RunnersOK, AllTyped, Typed, CacheTyped, TypeOK, Answers
<1> QED
  BY <1>1, <1>2, <1>3, PTL DEF Spec

-----------------------------------------------------------------------------
(* The three views of a provider agree.  All containers of a provider fit  *)
(* on the first page of them, so that the look-up sees what the listing    *)
(* sees of it; and of each service but the proxies there is one.           *)

LEMMA OneMore ==
  ASSUME NEW A, IsFiniteSet(A), NEW B, \A x, y \in B : x = y
  PROVE  /\ IsFiniteSet(A \cup B) /\ Cardinality(A) \in Nat /\ Cardinality(A \cup B) \in Nat
         /\ Cardinality(A \cup B) =< Cardinality(A) + 1
<1>1. Cardinality(A) \in Nat
  BY FS_CardinalityType
<1>2. CASE B = {}
  BY <1>1, <1>2
<1>3. CASE B # {}
  <2>1. PICK b : b \in B
    BY <1>3
  <2>2. A \cup B = A \cup {b}
    BY <2>1
  <2>3. /\ IsFiniteSet(A \cup {b})
        /\ Cardinality(A \cup {b}) = Cardinality(A) \/ Cardinality(A \cup {b}) = Cardinality(A) + 1
    BY FS_AddElement
  <2> QED
    BY <1>1, <2>2, <2>3
<1> QED
  BY <1>2, <1>3

LEMMA SameContainer ==
  ASSUME RunnersOK(runners), NEW i \in DOMAIN runners, NEW j \in DOMAIN runners,
         runners[i].of = runners[j].of, runners[i].service = runners[j].service,
         runners[i].service # "socat" \/ runners[i].n = runners[j].n
  PROVE  i = j
<1>1. runners[i].n = runners[j].n
  BY DEF RunnersOK
<1>2. Key(runners[i]) = Key(runners[j])
  BY <1>1 DEF Key
<1> QED
  BY <1>2 DEF RunnersOK

Carrying(p) == {i \in DOMAIN runners : runners[i].of = p /\ runners[i].service # "myst"}
DaemonsAt(p) == {i \in DOMAIN runners : runners[i].of = p /\ runners[i].service = "myst"}

LEMMA FewContainers ==
  ASSUME RunnersOK(runners), NEW p \in Provider
  PROVE  /\ Cardinality(Carrying(p)) \in Nat /\ Cardinality(Carrying(p)) =< MaxProxies + 2
         /\ Cardinality(DaemonsAt(p)) \in Nat /\ Cardinality(DaemonsAt(p)) =< 1
<1> DEFINE At1(service) == {i \in DOMAIN runners : runners[i].of = p /\ runners[i].service = service}
           socats == At1("socat")
           f == [i \in socats |-> runners[i].n]
<1>1. runners \in Seq(Runner)
  BY DEF RunnersOK
<1>2. Carrying(p) = (socats \cup At1("connect")) \cup At1("envoy")
  <2>1. \A i \in DOMAIN runners : runners[i].service \in Services
    <3>1. \A i \in DOMAIN runners : runners[i] \in Runner
      BY <1>1
    <3> QED
      BY <3>1 DEF Runner
  <2> QED
    BY <2>1 DEF Carrying, Services
<1>3. ASSUME NEW service, service # "socat" PROVE \A i, j \in At1(service) : i = j
  BY <1>3, SameContainer
<1>4. \A i, j \in socats : runners[i].n = runners[j].n => i = j
  BY SameContainer
<1>5. /\ Socats(runners, p) = {runners[i].n : i \in socats}
      /\ IsFiniteSet(Socats(runners, p)) /\ Cardinality(Socats(runners, p)) \in Nat
  BY <1>1, SocatsAre
<1>6. Cardinality(Socats(runners, p)) =< MaxProxies
  BY DEF RunnersOK
<1>7. IsFiniteSet(socats) /\ Cardinality(socats) =< Cardinality(Socats(runners, p))
  <2>1. f \in [socats -> Socats(runners, p)]
    BY <1>5
  <2>2. f \in Injection(socats, Socats(runners, p))
    BY <1>4, <2>1 DEF Injection, IsInjective
  <2> HIDE DEF f, socats
  <2> QED
    BY <1>5, <2>2, FS_Injection
<1>8. \A i, j \in DaemonsAt(p) : i = j
  BY SameContainer DEF DaemonsAt
<1>9. Cardinality(DaemonsAt(p)) \in Nat /\ Cardinality(DaemonsAt(p)) =< 1
  <2>1. IsFiniteSet({}) /\ Cardinality({}) = 0
    BY FS_EmptySet
  <2>2. {} \cup DaemonsAt(p) = DaemonsAt(p)
    OBVIOUS
  <2> QED
    BY <1>8, <2>1, <2>2, OneMore
<1>10. (\A i, j \in At1("connect") : i = j) /\ (\A i, j \in At1("envoy") : i = j)
  BY <1>3
<1> DEFINE connects == At1("connect")
<1>s. IsFiniteSet(socats)
  BY <1>7
<1>c. \A i, j \in connects : i = j
  BY <1>10
<1> HIDE DEF At1, socats, connects, f
<1>11. /\ IsFiniteSet(socats \cup connects) /\ Cardinality(socats) \in Nat
       /\ Cardinality(socats \cup connects) \in Nat
       /\ Cardinality(socats \cup connects) =< Cardinality(socats) + 1
  BY <1>s, <1>c, OneMore
<1>12. /\ Cardinality((socats \cup connects) \cup At1("envoy")) \in Nat
       /\ Cardinality((socats \cup connects) \cup At1("envoy"))
            =< Cardinality(socats \cup connects) + 1
  BY <1>10, <1>11, OneMore
<1> QED
  BY <1>2, <1>5, <1>6, <1>7, <1>9, <1>11, <1>12, CatalogueAssumption DEF connects

LEMMA FirstPageWhole ==
  ASSUME NEW S, NEW list \in Seq(S), Len(list) =< DefaultLimit
  PROVE  Paged(list, FirstPage).list = list
<1>1. Paged(list, FirstPage).list = Slice(list, 1, DefaultLimit)
  BY FixedQueries DEF Paged
<1>2. Slice(list, 1, DefaultLimit) = SubSeq(list, 1, Len(list))
  <2>1. /\ (1 - 1) * DefaultLimit + 1 = 1
        /\ (IF 1 * DefaultLimit < Len(list) THEN 1 * DefaultLimit ELSE Len(list)) = Len(list)
    BY LimitAssumption
  <2> QED
    BY <2>1, Zenon DEF Slice
<1> QED
  BY <1>1, <1>2, SubSeqFull

LEMMA LookUpReads ==
  ASSUME RunnersOK(runners), OnePage, NEW p \in Provider
  PROVE  /\ OfProvider(p) \in Seq(Runner) /\ DaemonsOf(p) \in Seq(Runner)
         /\ Range(OfProvider(p)) = {runners[i] : i \in Carrying(p)}
         /\ Range(DaemonsOf(p)) = {runners[i] : i \in DaemonsAt(p)}
<1>1. /\ runners \in Seq(Runner)
      /\ Carrying(p) \in SUBSET DOMAIN runners /\ DaemonsAt(p) \in SUBSET DOMAIN runners
  BY DEF RunnersOK, Carrying, DaemonsAt
<1>2. /\ OfProvider(p) = Paged(Kept(runners, Carrying(p)), FirstPage).list
      /\ DaemonsOf(p) = Paged(Kept(runners, DaemonsAt(p)), FirstPage).list
  BY DEF OfProvider, DaemonsOf, FilterAndSortRunner, Carrying, DaemonsAt
<1>3. /\ Kept(runners, Carrying(p)) \in Seq(Runner)
      /\ Len(Kept(runners, Carrying(p))) = Cardinality(Carrying(p))
      /\ Range(Kept(runners, Carrying(p))) = {runners[i] : i \in Carrying(p)}
  BY <1>1, KeptSeq
<1>4. /\ Kept(runners, DaemonsAt(p)) \in Seq(Runner)
      /\ Len(Kept(runners, DaemonsAt(p))) = Cardinality(DaemonsAt(p))
      /\ Range(Kept(runners, DaemonsAt(p))) = {runners[i] : i \in DaemonsAt(p)}
  BY <1>1, KeptSeq
<1>5. Cardinality(Carrying(p)) =< DefaultLimit /\ Cardinality(DaemonsAt(p)) =< DefaultLimit
  BY FewContainers, LimitAssumption, CatalogueAssumption DEF OnePage
<1> QED
  BY <1>2, <1>3, <1>4, <1>5, FirstPageWhole

LEMMA ConcatRange ==
  ASSUME NEW S, NEW a \in Seq(S), NEW b \in Seq(S)
  PROVE  a \o b \in Seq(S) /\ Range(a \o b) = Range(a) \cup Range(b)
<1> DEFINE c == a \o b
<1>1. /\ c \in Seq(S) /\ Len(c) = Len(a) + Len(b)
      /\ \A i \in 1 .. Len(a) + Len(b) : c[i] = IF i =< Len(a) THEN a[i] ELSE b[i - Len(a)]
  BY ConcatProperties
<1>2. Len(a) \in Nat /\ Len(b) \in Nat /\ DOMAIN a = 1 .. Len(a) /\ DOMAIN b = 1 .. Len(b)
      /\ DOMAIN c = 1 .. Len(a) + Len(b)
  BY <1>1
<1> HIDE DEF c
<1>3. ASSUME NEW i \in DOMAIN c PROVE c[i] \in Range(a) \cup Range(b)
  <2>1. CASE i =< Len(a)
    <3>1. i \in DOMAIN a /\ c[i] = a[i]
      BY <1>1, <1>2, <2>1
    <3> QED
      BY <3>1 DEF Range
  <2>2. CASE ~(i =< Len(a))
    <3>1. i - Len(a) \in DOMAIN b /\ c[i] = b[i - Len(a)]
      BY <1>1, <1>2, <2>2
    <3> QED
      BY <3>1 DEF Range
  <2> QED
    BY <2>1, <2>2
<1>4. ASSUME NEW i \in DOMAIN a PROVE a[i] \in Range(c)
  <2>1. i \in DOMAIN c /\ c[i] = a[i]
    BY <1>1, <1>2
  <2> QED
    BY <2>1 DEF Range
<1>5. ASSUME NEW i \in DOMAIN b PROVE b[i] \in Range(c)
  <2>1. i + Len(a) \in 1 .. Len(a) + Len(b) /\ ~(i + Len(a) =< Len(a)) /\ (i + Len(a)) - Len(a) = i
    BY <1>2
  <2>2. i + Len(a) \in DOMAIN c /\ c[i + Len(a)] = b[i]
    BY <1>1, <1>2, <2>1
  <2> QED
    BY <2>2 DEF Range
<1>6. Range(c) = Range(a) \cup Range(b)
  BY <1>3, <1>4, <1>5 DEF Range
<1> QED
  BY <1>1, <1>6 DEF c

(* Two lists with the same containers of a provider show the same of it.   *)
LEMMA SameView ==
  ASSUME RunnersOK(runners), NEW p \in Provider, NEW list,
         \A r : (r \in Range(list) /\ r.of = p) <=> (r \in Range(runners) /\ r.of = p)
  PROVE  /\ Socats(list, p) = Socats(runners, p)
         /\ \A service : Has(list, p, service) <=> Has(runners, p, service)
         /\ \A service \in {"myst", "connect", "envoy"} :
              Has(runners, p, service) => Status(list, p, service) = Status(runners, p, service)
<1>1. Socats(list, p) = Socats(runners, p)
  <2>1. {x \in Range(list) : x.of = p /\ x.service = "socat"}
          = {x \in Range(runners) : x.of = p /\ x.service = "socat"}
    OBVIOUS
  <2> QED
    BY <2>1 DEF Socats
<1>2. ASSUME NEW service PROVE Has(list, p, service) <=> Has(runners, p, service)
  BY DEF Has
<1>3. ASSUME NEW service \in {"myst", "connect", "envoy"}, Has(runners, p, service)
      PROVE  Status(list, p, service) = Status(runners, p, service)
  <2>1. PICK a \in Range(list) : a.of = p /\ a.service = service /\ Status(list, p, service) = a.status
    BY <1>2, <1>3 DEF Has, Status
  <2>2. PICK b \in Range(runners) : b.of = p /\ b.service = service
                                    /\ Status(runners, p, service) = b.status
    BY <1>3 DEF Has, Status
  <2>3. a \in Range(runners)
    BY <2>1
  <2>4. PICK i \in DOMAIN runners, j \in DOMAIN runners : a = runners[i] /\ b = runners[j]
    BY <2>2, <2>3 DEF Range
  <2>5. i = j
    BY <2>1, <2>2, <2>4, SameContainer
  <2> QED
    BY <2>1, <2>2, <2>4, <2>5
<1> QED
  BY <1>1, <1>2, <1>3

(* What the listing shows of a provider.                                   *)
LEMMA ListedAre ==
  ASSUME ListsOK, NEW v \in Range(ProviderList(Asked(WholeList), runners, info, WholeList).list)
  PROVE  \E p \in Provider : v = Merged(Offer(p, p \in info), runners, TRUE)
<1> DEFINE page == Asked(WholeList)
           views == MergedOffers(page, runners, info)
           I == {i \in DOMAIN views : Satisfies(views[i], WholeList, ProviderFields)}
<1>1. page \in Seq(Provider) /\ runners \in Seq(Runner)
  BY ApiSeq, FixedQueries DEF ListsOK, RunnersOK
<1> HIDE DEF page
<1>2. ProviderList(page, runners, info, WholeList) = Paged(Matching(views, WholeList, ProviderFields), WholeList)
  <2>1. "isRegister" \notin DOMAIN WholeList.cond
    BY FixedQueries
  <2> QED
    BY <1>1, <2>1, ProviderListIs, FixedQueries
<1>3. Paged(Kept(views, I), WholeList).list = Kept(views, I)
  BY FixedQueries DEF Paged
<1>4. v \in Range(Kept(views, I))
  BY <1>2, <1>3, Zenon DEF Matching, page
<1>5. Range(Kept(views, I)) = {views[i] : i \in I}
  <2>1. views \in Seq(ProviderView)
    BY <1>1, MergedOffersSeq
  <2> HIDE DEF views
  <2> QED
    BY <2>1, KeptSeq
<1>6. PICK i \in DOMAIN views : v = views[i]
  BY <1>4, <1>5
<1>7. i \in DOMAIN page /\ page[i] \in Provider
  BY <1>1 DEF MergedOffers
<1>8. views[i] = Merged(Offer(page[i], page[i] \in info), runners, TRUE)
  BY <1>7 DEF MergedOffers
<1> QED
  BY <1>6, <1>7, <1>8

LEMMA ListedOf ==
  ASSUME NEW p, NEW ip
  PROVE  Merged(Offer(p, ip), runners, TRUE).of = p
  BY DEF Merged, Offer

(* The look-up of a provider on offer shows what the listing shows.        *)
LEMMA LookUpAgrees ==
  ASSUME RunnersOK(runners), OnePage, NEW p \in Provider, NEW ip \in BOOLEAN
  PROVE  LET v == Merged(Offer(p, ip), runners, TRUE)
             w == ProviderGet(p, <<Offer(p, ip)>>, OfProvider(p), DaemonsOf(p))[1]
         IN  [w EXCEPT !.ip = v.ip] = v
<1> DEFINE o == Offer(p, ip)
           list == OfProvider(p)
           daemons == DaemonsOf(p)
           both == list \o daemons
           v == Merged(o, runners, TRUE)
           w == ProviderGet(p, <<o>>, list, daemons)[1]
           fields == {"of", "providerIdentity", "isRegister", "proxyCount", "status", "ip"}
<1>1. /\ o = [of |-> p, providerIdentity |-> p, isRegister |-> FALSE, proxyCount |-> 0,
              status |-> "none", ip |-> ip]
      /\ o.of = p /\ DOMAIN o = fields
  BY DEF Offer
<1>2. /\ list \in Seq(Runner) /\ daemons \in Seq(Runner)
      /\ Range(list) = {runners[i] : i \in Carrying(p)}
      /\ Range(daemons) = {runners[i] : i \in DaemonsAt(p)}
  BY LookUpReads
<1> HIDE DEF o, list, daemons
<1>3. Range(both) = Range(list) \cup Range(daemons)
  BY <1>2, ConcatRange
<1>4. \A r : (r \in Range(both) /\ r.of = p) <=> (r \in Range(runners) /\ r.of = p)
  BY <1>2, <1>3 DEF Range, Carrying, DaemonsAt
<1> HIDE DEF both
<1>5. /\ Socats(both, p) = Socats(runners, p)
      /\ \A service : Has(both, p, service) <=> Has(runners, p, service)
      /\ \A service \in {"myst", "connect", "envoy"} :
           Has(runners, p, service) => Status(both, p, service) = Status(runners, p, service)
  BY <1>4, SameView
<1>6. ~Registered(runners, p) => v = [o EXCEPT !.ip = FALSE]
  BY <1>1 DEF Merged
<1>7. ASSUME list = <<>> PROVE [w EXCEPT !.ip = v.ip] = v
  <2>1. Range(list) = {}
    BY <1>7 DEF Range
  <2>2. ~Has(runners, p, "connect")
    BY <1>2, <2>1 DEF Has, Range, Carrying
  <2>3. w = o
    BY <1>7, Zenon DEF ProviderGet
  <2> HIDE DEF v, w
  <2> QED
    BY <1>1, <1>6, <2>2, <2>3 DEF Registered
<1>8. ASSUME list # <<>> /\ ~Has(daemons, p, "myst") PROVE [w EXCEPT !.ip = v.ip] = v
  <2>1. ~Has(runners, p, "myst")
    BY <1>2, <1>8 DEF Has, Range, DaemonsAt
  <2>2. w = o
    BY <1>8 DEF ProviderGet
  <2> HIDE DEF v, w
  <2> QED
    BY <1>1, <1>6, <2>1, <2>2 DEF Registered
<1>9. ASSUME list # <<>> /\ Has(daemons, p, "myst") PROVE [w EXCEPT !.ip = v.ip] = v
  <2>1. w = Merged(o, both, TRUE)
    BY <1>9 DEF ProviderGet, both
  <2>2. Registered(both, p) <=> Registered(runners, p)
    BY <1>5 DEF Registered
  <2>3. Merged(o, both, TRUE) = v
    <3>1. CASE ~Registered(runners, p)
      BY <1>1, <2>2, <3>1 DEF Merged
    <3>2. CASE Registered(runners, p)
      <4>1. /\ Status(both, p, "myst") = Status(runners, p, "myst")
            /\ Status(both, p, "connect") = Status(runners, p, "connect")
        BY <1>5, <3>2 DEF Registered
      <4>2. ViewStatus(o, both, TRUE) = ViewStatus(o, runners, TRUE)
        BY <1>1, <4>1 DEF ViewStatus
      <4> QED
        BY <1>1, <1>5, <2>2, <3>2, <4>2 DEF Merged
    <3> QED
      BY <3>1, <3>2
  <2>4. [v EXCEPT !.ip = v.ip] = v
    <3>1. CASE ~Registered(runners, p)
      BY <1>1, <1>6, <3>1
    <3>2. CASE Registered(runners, p)
      BY <1>1, <3>2 DEF Merged
    <3> QED
      BY <3>1, <3>2
  <2> HIDE DEF v, w
  <2> QED
    BY <2>1, <2>3, <2>4
<1> QED
  BY <1>7, <1>8, <1>9, Zenon DEF o, list, daemons

LEMMA OnlineAgrees ==
  ASSUME NEW p \in Provider, NEW ip \in BOOLEAN, ProxyStatus(runners, p) = "online"
  PROVE  Merged(Offer(p, ip), runners, TRUE).status = "online"
<1>1. /\ Has(runners, p, "connect") /\ Has(runners, p, "myst")
      /\ Status(runners, p, "connect") = "running" /\ Status(runners, p, "myst") = "running"
  BY DEF ProxyStatus
<1>2. Registered(runners, p) /\ Offer(p, ip).of = p
  BY <1>1 DEF Registered, Offer
<1>3. ViewStatus(Offer(p, ip), runners, TRUE) = "online"
  BY <1>1, <1>2 DEF ViewStatus
<1> QED
  BY <1>2, <1>3 DEF Merged, Offer

(* The three views of a provider agree, as long as its containers fit on   *)
(* one page: listed and looked up it is as much registered, in the same    *)
(* state and with as many proxies, and none of its proxies is listed as    *)
(* online while it is not (myst-provider-aggregate.repository.ts, getAll   *)
(* and getById, and proxy-aggregate.repository.ts, getAll).                *)
THEOREM TheViewsAgree ==
  ASSUME OnePage
  PROVE  Spec => []ViewsAgree
<1>1. ListsOK => ViewsAgree
  <2> SUFFICES ASSUME ListsOK PROVE ViewsAgree
    OBVIOUS
  <2> DEFINE listed == ProviderList(Asked(WholeList), runners, info, WholeList).list
             proxies == ProxyList(runners, listed, WholeList).list
             Get(p) == ProviderGet(p, <<Offer(p, p \in info)>>, OfProvider(p), DaemonsOf(p))[1]
  <2>0. RunnersOK(runners) /\ runners \in Seq(Runner)
    BY DEF ListsOK, RunnersOK
  <2>1. ASSUME NEW v \in Range(listed) PROVE [Get(v.of) EXCEPT !.ip = v.ip] = v
    <3>1. PICK p \in Provider : v = Merged(Offer(p, p \in info), runners, TRUE)
      BY <2>1, ListedAre
    <3> DEFINE ip == p \in info
    <3>2. ip \in BOOLEAN
      BY SMT
    <3> HIDE DEF ip
    <3>3. LET u == Merged(Offer(p, ip), runners, TRUE)
              w == ProviderGet(p, <<Offer(p, ip)>>, OfProvider(p), DaemonsOf(p))[1]
          IN  [w EXCEPT !.ip = u.ip] = u
      BY <2>0, <3>2, LookUpAgrees
    <3>4. v.of = p
      BY <3>1, ListedOf
    <3> QED
      BY <3>1, <3>3, <3>4 DEF ip
  <2>2. ASSUME NEW v \in Range(listed), NEW x \in Range(proxies), v.of = x.of, x.status = "online"
        PROVE  v.status = "online"
    <3>1. PICK p \in Provider : v = Merged(Offer(p, p \in info), runners, TRUE)
      BY <2>2, ListedAre
    <3>2. PICK ip \in BOOLEAN : v = Merged(Offer(p, ip), runners, TRUE)
      <4> DEFINE ip == p \in info
      <4>1. ip \in BOOLEAN
        BY SMT
      <4>2. v = Merged(Offer(p, ip), runners, TRUE)
        BY <3>1
      <4> HIDE DEF ip
      <4> QED
        BY <4>1, <4>2
    <3>3. v.of = p
      BY <3>1, ListedOf
    <3>4. ProxyStatus(runners, x.of) = "online"
      <4> HIDE DEF listed
      <4>1. Range(proxies) \subseteq Range(Shown(runners, listed))
        BY <2>0, ProxyListIs, FixedQueries
      <4>2. PICK i \in DOMAIN Shown(runners, listed) : x = Shown(runners, listed)[i]
        BY <2>2, <4>1 DEF Range
      <4> QED
        BY <2>0, <2>2, <4>2, ShownSeq
    <3> QED
      BY <2>2, <3>2, <3>3, <3>4, OnlineAgrees
  <2> QED
    BY <2>1, <2>2, Zenon DEF ViewsAgree
<1> QED
  BY <1>1, AlwaysLists, PTL
=============================================================================
