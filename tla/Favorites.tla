------------------------------ MODULE Favorites ------------------------------
(***************************************************************************)
(* The proxies open to a user and the lists the user keeps of them.  A     *)
(* proxy is open when a rule of the access list names its port or all of   *)
(* them; a mark (FAVORITE, TODAY) is a row in PostgreSQL that names the    *)
(* proxy by its id.  A list joins the two by id; a proxy without a mark is *)
(* listed as OTHER.                                                        *)
(*                                                                         *)
(* The proxies, the rules and the users change on their own, between any   *)
(* two steps of a request: this module only reads them.  A new proxy has a *)
(* new id, also on a port that had one.  Rows are deleted softly and a     *)
(* proxy has one live row at most, whoever it belongs to.  Notes and dates *)
(* are left out, and reads made in parallel (Promise.all) are one step.    *)
(***************************************************************************)
EXTENDS Naturals, Sequences, FiniteSets

CONSTANTS
  User,
  Nobody,       \* the user of an idle slot
  Port,
  Kind,         \* the kinds of marks: FAVORITE and TODAY
  Other,        \* the kind of a proxy without a mark
  All,          \* the rule that opens every proxy
  PageLimit,    \* proxies on a page when no page is asked for
  MaxProxies,   \* bound on the proxies ever created
  Slots,        \* requests the API may be serving at the same time
  MaxEvents     \* bound on requests, changes of the surroundings and faults

ASSUME KindAssumption == Other \notin Kind /\ All \notin Port /\ Nobody \notin User
ASSUME BoundAssumption ==
  /\ PageLimit \in Nat \ {0} /\ MaxEvents \in Nat
  /\ MaxProxies \in Nat /\ PageLimit <= MaxProxies

VARIABLES
  proxies,      \* the proxies as they are listed, the newest first
  created,      \* proxies created so far
  grants,       \* grants[u]: the ports open to u, or All
  users,        \* the users there are
  rows,         \* the table of marks
  req,          \* req[s]: the request served in slot s
  told,         \* history: the marks there are according to the answers sent
  overlapped,   \* whether two requests were ever served at the same time
  ops,          \* requests issued so far
  events        \* requests, changes and faults so far

world == <<proxies, created, grants, users>>
vars == <<proxies, created, grants, users, rows, req, told, overlapped, ops, events>>

ProxyId == 1 .. MaxProxies

(* A row is named after the request that added it and its proxy.           *)
Mark == [op : 1 .. MaxEvents, proxy : ProxyId, user : User, kind : Kind]
Row == [op : 1 .. MaxEvents, proxy : ProxyId, user : User, kind : Kind, live : BOOLEAN]

Id(r) == [op |-> r.op, proxy |-> r.proxy, user |-> r.user]
Ids == {Id(r) : r \in rows}

Item == [proxy : ProxyId, kind : Kind \cup {Other}]

PCs == {"idle", "list.user", "list.read", "add.open", "add.insert", "update.get",
        "update.open", "update.find", "update.save", "bulk.update", "bulk.remove", "done"}
Outcomes == {"none", "Ok", "NotFound", "Repository"}

(* The locals of a handler: the models of an addition, the ids of rows, the*)
(* row it loaded ({} when none) and the list it answers with.              *)
Request ==
  [pc : PCs, op : 0 .. MaxEvents, user : User \cup {Nobody}, kind : Kind \cup {Other},
   models : Seq(ProxyId),
   ids : SUBSET [op : 1 .. MaxEvents, proxy : ProxyId, user : User],
   row : SUBSET Row, list : SUBSET Item, out : Outcomes]

Idle == [pc |-> "idle", op |-> 0, user |-> Nobody, kind |-> Other, models |-> <<>>,
         ids |-> {}, row |-> {}, list |-> {}, out |-> "none"]

TypeOK ==
  /\ proxies \in Seq([id : ProxyId, port : Port])
  /\ created \in 0 .. MaxProxies
  /\ grants \in [User -> SUBSET (Port \cup {All})]
  /\ users \subseteq User
  /\ rows \subseteq Row
  /\ \A s \in Slots :
       /\ req[s].pc \in PCs /\ req[s].out \in Outcomes
       /\ req[s].op \in 0 .. MaxEvents
       /\ req[s].user \in User \cup {Nobody} /\ req[s].kind \in Kind \cup {Other}
       /\ req[s].models \in Seq(ProxyId)
       /\ req[s].ids \subseteq Ids /\ req[s].row \subseteq Row
       /\ req[s].list \subseteq Item
  /\ told \subseteq Mark
  /\ ops \in 0 .. MaxEvents /\ events \in 0 .. MaxEvents
  /\ overlapped \in BOOLEAN

(* At first there are the proxies of one full page, which one user may use *)
(* by a rule for all proxies and the others by a rule for each port.       *)
Init ==
  /\ created = PageLimit
  /\ \E p \in [1 .. created -> Port] :
       /\ \A i, j \in DOMAIN p : p[i] = p[j] => i = j
       /\ proxies = [i \in DOMAIN p |-> [id |-> created + 1 - i, port |-> p[i]]]
  /\ \E u \in User : grants = [v \in User |-> IF v = u THEN {All} ELSE Port]
  /\ users = User
  /\ rows = {} /\ told = {}
  /\ req = [s \in Slots |-> Idle]
  /\ overlapped = FALSE /\ ops = 0 /\ events = 0

-----------------------------------------------------------------------------
(* What a request reads.                                                   *)

Live == {r \in rows : r.live}

(* Mutant: the marks of every user are read.                               *)
MarksOfAll(u) == Live

(* The rows of user u: they are joined with a user that is not deleted.    *)
MarksOf(u) == {r \in Live : r.user = u /\ u \in users}

(* UsersProxyAggregateRepository.getByUserId asks for the proxies without  *)
(* a filter, that is for the first page of them.                           *)
FirstPage == {proxies[i] : i \in 1 .. (IF Len(proxies) < PageLimit THEN Len(proxies) ELSE PageLimit)}

Open(u) ==
  IF u \notin users THEN {}
  ELSE {p.id : p \in {q \in FirstPage : All \in grants[u] \/ q.port \in grants[u]}}

(* _mergeData: the mark of the proxy, or the proxy as Other.               *)
Merged(p, marks) ==
  IF \E r \in marks : r.proxy = p
  THEN {[proxy |-> p, kind |-> r.kind] : r \in {x \in marks : x.proxy = p}}
  ELSE {[proxy |-> p, kind |-> Other]}

-----------------------------------------------------------------------------
(* The table.                                                              *)

(* Whether a live row outside S has proxy p: what the unique index forbids.*)
Taken(p, S) == \E r \in Live \ S : r.proxy = p

-----------------------------------------------------------------------------
(* The surroundings.                                                       *)

Untouched == <<rows, req, told, overlapped, ops>>

Counted == events < MaxEvents /\ events' = events + 1

CreateProxy ==
  /\ Counted
  /\ created < MaxProxies
  /\ created' = created + 1
  /\ \E p \in Port :
       /\ \A i \in 1 .. Len(proxies) : proxies[i].port # p
       /\ proxies' = <<[id |-> created + 1, port |-> p]>> \o proxies
  /\ UNCHANGED <<grants, users, Untouched>>

Change ==
  /\ Counted
  /\ \/ \E i \in 1 .. Len(proxies) :
          /\ proxies' = SelectSeq(proxies, LAMBDA p : p # proxies[i])
          /\ UNCHANGED <<grants, users>>
     \/ \E u \in User :
          /\ \E g \in Port \cup {All} :
               grants' = [grants EXCEPT ![u] = IF g \in @ THEN @ \ {g} ELSE @ \cup {g}]
          /\ UNCHANGED <<proxies, users>>
     \/ \E u \in users : users' = users \ {u} /\ UNCHANGED <<proxies, grants>>
  /\ UNCHANGED <<created, Untouched>>

-----------------------------------------------------------------------------
(* Control flow of a request.                                              *)

At(s, l) == req[s].pc = l
Goto(s, l) == req' = [req EXCEPT ![s].pc = l]
Answer(s, o) == req' = [req EXCEPT ![s].pc = "done", ![s].out = o]

(* The ids of a bulk change or removal.  Those that are of no row are left *)
(* out, so there may be none.                                              *)
IdLists == {{i, j} : i, j \in Ids} \cup {{}}

(* A client lists or adds marks of a user, or changes and removes them by  *)
(* their ids; they may have been removed before.  A proxy to mark may be   *)
(* gone, and may be named twice.                                           *)
Begin(s) ==
  LET start(r) == req' = [req EXCEPT ![s] = [r EXCEPT !.op = ops + 1]]  IN
  /\ At(s, "idle")
  /\ Counted /\ ops' = ops + 1
  /\ overlapped' = (overlapped \/ \E t \in Slots : ~At(t, "idle"))
  /\ \/ \E u \in User : start([Idle EXCEPT !.pc = "list.user", !.user = u])
     \/ \E u \in User, k \in Kind, p \in 1 .. created : \E q \in 0 .. p :
          start([Idle EXCEPT !.pc = "add.open", !.user = u, !.kind = k,
                             !.models = IF q = 0 THEN <<p>> ELSE <<p, q>>])
     \/ \E i \in Ids, k \in Kind :
          start([Idle EXCEPT !.pc = "update.get", !.kind = k, !.ids = {i}])
     \/ \E I \in IdLists, k \in Kind :
          \/ start([Idle EXCEPT !.pc = "bulk.update", !.kind = k, !.ids = I])
          \/ start([Idle EXCEPT !.pc = "bulk.remove", !.ids = I])
  /\ UNCHANGED <<world, rows, told>>

(* The response is sent.                                                   *)
Reply(s) ==
  /\ At(s, "done")
  /\ req' = [req EXCEPT ![s] = Idle]
  /\ UNCHANGED <<world, rows, told, overlapped, ops, events>>

-----------------------------------------------------------------------------
(* FavoritesService.getByUserId.                                           *)

ListUser(s) ==
  /\ At(s, "list.user")
  /\ IF req[s].user \in users THEN Goto(s, "list.read") ELSE Answer(s, "NotFound")
  /\ UNCHANGED <<world, rows, told, overlapped, ops, events>>

ListRead(s) ==
  LET u == req[s].user IN
  /\ At(s, "list.read")
  /\ req' = [req EXCEPT ![s].pc = "done", ![s].out = "Ok",
                        ![s].list = UNION {Merged(p, MarksOf(u)) : p \in Open(u)}]
  /\ UNCHANGED <<world, rows, told, overlapped, ops, events>>

-----------------------------------------------------------------------------
(* createBulk.                                                             *)

(* Each model must have its own proxy among those open to the user.        *)
AddOpen(s) ==
  LET models == req[s].models
      match == Open(req[s].user) \cap {models[i] : i \in 1 .. Len(models)}
  IN  /\ At(s, "add.open")
      /\ IF match = {} \/ Cardinality(match) # Len(models)
         THEN Answer(s, "NotFound") ELSE Goto(s, "add.insert")
      /\ UNCHANGED <<world, rows, told, overlapped, ops, events>>

NewMarks(r) ==
  {[op |-> r.op, proxy |-> r.models[i], user |-> r.user, kind |-> r.kind] :
    i \in 1 .. Len(r.models)}

Stored(m) == [op |-> m.op, proxy |-> m.proxy, user |-> m.user, kind |-> m.kind, live |-> TRUE]

(* Mutant: the rows are inserted one by one, up to the first that clashes. *)
AddInsertEach(s) ==
  LET new == NewMarks(req[s])
      bad == {m \in new : Taken(m.proxy, {})}
  IN  /\ At(s, "add.insert")
      /\ rows' = rows \cup {Stored(m) : m \in new \ bad}
      /\ Answer(s, IF bad = {} THEN "Ok" ELSE "Repository")
      /\ told' = IF bad = {} THEN told \cup new ELSE told
      /\ UNCHANGED <<world, overlapped, ops, events>>

(* One INSERT of all rows: a proxy that is marked, by whomever, refuses it.*)
AddInsert(s) ==
  LET new == NewMarks(req[s]) IN
  /\ At(s, "add.insert")
  /\ \/ /\ \E m \in new : Taken(m.proxy, {})
        /\ Answer(s, "Repository")
        /\ UNCHANGED <<rows, told>>
     \/ /\ \A m \in new : ~Taken(m.proxy, {})
        /\ rows' = rows \cup {Stored(m) : m \in new}
        /\ told' = told \cup new
        /\ Answer(s, "Ok")
  /\ UNCHANGED <<world, overlapped, ops, events>>

-----------------------------------------------------------------------------
(* update.                                                                 *)

Chosen(s) == {r \in rows : Id(r) \in req[s].ids}

(* The row of a user who is gone cannot be turned into a model.            *)
UpdateGet(s) ==
  LET found == {r \in Chosen(s) : r.live} IN
  /\ At(s, "update.get")
  /\ \/ found = {} /\ Answer(s, "NotFound")
     \/ \E r \in found : IF r.user \in users THEN Goto(s, "update.open")
                         ELSE Answer(s, "Repository")
  /\ UNCHANGED <<world, rows, told, overlapped, ops, events>>

(* Only the mark of a proxy that is open can be changed.                   *)
UpdateOpen(s) ==
  /\ At(s, "update.open")
  /\ IF \A i \in req[s].ids : i.proxy \in Open(i.user)
     THEN Goto(s, "update.find") ELSE Answer(s, "NotFound")
  /\ UNCHANGED <<world, rows, told, overlapped, ops, events>>

(* A row that went in between is no error.                                 *)
UpdateFind(s) ==
  LET found == {r \in Chosen(s) : r.live} IN
  /\ At(s, "update.find")
  /\ IF found = {} THEN Answer(s, "Ok")
     ELSE req' = [req EXCEPT ![s].pc = "update.save", ![s].row = found]
  /\ UNCHANGED <<world, rows, told, overlapped, ops, events>>

Told(s, k) == {IF Id(m) \in req[s].ids THEN [m EXCEPT !.kind = k] ELSE m : m \in told}

(* save writes what differs from the row in the table: the kind, and the   *)
(* time of deletion when it was deleted since it was loaded.               *)
UpdateSave(s) ==
  /\ At(s, "update.save")
  /\ \E r \in req[s].row :
       \/ /\ Taken(r.proxy, Chosen(s))
          /\ Answer(s, "Repository")
          /\ UNCHANGED <<rows, told>>
       \/ /\ ~Taken(r.proxy, Chosen(s))
          /\ rows' = (rows \ Chosen(s)) \cup {[r EXCEPT !.kind = req[s].kind]}
          /\ told' = Told(s, req[s].kind)
          /\ Answer(s, "Ok")
  /\ UNCHANGED <<world, overlapped, ops, events>>

-----------------------------------------------------------------------------
(* updateBulkKind and removeBulk: one statement each, by the ids alone.    *)

(* Mutant: the statement writes the time of deletion as well.              *)
BulkRestore(s) ==
  /\ At(s, "bulk.update")
  /\ rows' = (rows \ Chosen(s))
               \cup {[r EXCEPT !.kind = req[s].kind, !.live = TRUE] : r \in Chosen(s)}
  /\ told' = Told(s, req[s].kind)
  /\ Answer(s, "Ok")
  /\ UNCHANGED <<world, overlapped, ops, events>>

BulkUpdate(s) ==
  /\ At(s, "bulk.update")
  /\ rows' = (rows \ Chosen(s)) \cup {[r EXCEPT !.kind = req[s].kind] : r \in Chosen(s)}
  /\ told' = Told(s, req[s].kind)
  /\ Answer(s, "Ok")
  /\ UNCHANGED <<world, overlapped, ops, events>>

BulkRemove(s) ==
  /\ At(s, "bulk.remove")
  /\ rows' = (rows \ Chosen(s)) \cup {[r EXCEPT !.live = FALSE] : r \in Chosen(s)}
  /\ told' = {m \in told : Id(m) \notin req[s].ids}
  /\ Answer(s, "Ok")
  /\ UNCHANGED <<world, overlapped, ops, events>>

(* A call fails or the process dies; what was done stays done.             *)
Fail(s) ==
  /\ req[s].pc \notin {"idle", "done"}
  /\ Counted
  /\ Answer(s, "Repository")
  /\ UNCHANGED <<world, rows, told, overlapped, ops>>

-----------------------------------------------------------------------------
Serve(s) ==
  \/ ListUser(s) \/ ListRead(s) \/ AddOpen(s) \/ AddInsert(s) \/ UpdateGet(s)
  \/ UpdateOpen(s) \/ UpdateFind(s) \/ UpdateSave(s) \/ BulkUpdate(s) \/ BulkRemove(s)
  \/ Reply(s)

Next ==
  \/ \E s \in Slots : Begin(s) \/ Serve(s) \/ Fail(s)
  \/ CreateProxy
  \/ Change

Spec == Init /\ [][Next]_vars

-----------------------------------------------------------------------------
(* Safety under any number of concurrent requests.                         *)

(* A list is stored as a whole or not at all: one that was refused, by a   *)
(* proxy that is marked already or by a fault, has left no row             *)
(* (favorites-pg.repository.ts, addBulk).                                  *)
AllOrNothing ==
  \A s \in Slots :
    At(s, "done") /\ req[s].models # <<>> =>
      LET mine == {m \in NewMarks(req[s]) : \E r \in rows : Id(r) = Id(m)}
      IN  mine = IF req[s].out = "Ok" THEN NewMarks(req[s]) ELSE {}

-----------------------------------------------------------------------------
(* Safety when requests come one at a time, whatever the surroundings do   *)
(* during them.                                                            *)

(* What a user is shown is what the answers so far have said: every proxy  *)
(* that is open to the user is listed with the mark it was last given, and *)
(* nothing is listed as marked that the user has not marked, or has        *)
(* unmarked (favorites-aggregate.repository.ts, getAll).  A proxy beyond   *)
(* the first page does not count as open.                                  *)
ListShowsTold ==
  [][\A s \in Slots :
         ~overlapped /\ At(s, "list.read") /\ req'[s].out = "Ok"
       => LET u == req[s].user  list == req'[s].list
          IN  /\ \A p \in Open(u) : Cardinality({i \in list : i.proxy = p}) = 1
              /\ \A m \in told : m.user = u /\ m.proxy \in Open(u) =>
                   [proxy |-> m.proxy, kind |-> m.kind] \in list
              /\ \A i \in list : i.kind # Other =>
                   \E m \in told : m.user = u /\ m.proxy = i.proxy /\ m.kind = i.kind]_vars

(* A mark that was removed stays removed (favorites-pg.repository.ts).     *)
StaysRemoved ==
  [][~overlapped => \A r \in rows : ~r.live => \A q \in rows' : Id(q) = Id(r) => ~q.live]_vars

=============================================================================
