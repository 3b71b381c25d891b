--------------------------- MODULE FavoritesProofs ---------------------------
(***************************************************************************)
(* Theorems about Favorites, for all users, ports, bounds and slots.       *)
(*                                                                         *)
(* A row is named by the request that added it, its proxy and its user;    *)
(* no statement renames a row or takes one off the table, so that all that *)
(* another request can do to the names (Ids) is to add its own.  From that *)
(* a list is whole or absent under any interleaving (Sound).  Alone, the   *)
(* live rows are the marks the answers told of, and the row an update has  *)
(* loaded is still the one it saves over (AloneInv).                       *)
(***************************************************************************)
EXTENDS Favorites, FiniteSetTheorems, TLAPS

Fields == {"pc", "op", "user", "kind", "models", "ids", "row", "list", "out"}

Adding == {"add.open", "add.insert"}
Updating == {"update.get", "update.open", "update.find", "update.save"}

IsRow(r) ==
  r = [op |-> r.op, proxy |-> r.proxy, user |-> r.user, kind |-> r.kind, live |-> r.live]

(* The rows of the list of r are all there when it was told so, else none. *)
Whole(r, I) ==
  IF r.out = "Ok" THEN \A m \in NewMarks(r) : Id(m) \in I
  ELSE \A m \in NewMarks(r) : Id(m) \notin I

(* What holds of one request r, of the names I of the rows and of the      *)
(* number n of requests so far.                                            *)
Sound(r, I, n) ==
  /\ DOMAIN r = Fields
  /\ r.pc # "idle" => r.op \in 1 .. n
  /\ r.models # <<>> => r.pc \in Adding \cup {"done"}
  /\ r.pc \in Adding => \A i \in I : i.op # r.op
  /\ r.pc = "done" /\ r.models # <<>> => Whole(r, I)
  /\ r.pc \in Updating => \E i \in I : r.ids = {i}
  /\ r.pc = "update.save" => \A x \in r.row : IsRow(x) /\ Id(x) \in r.ids
  /\ r.pc # "done" => r.out = "none"

RequestsOK ==
  /\ DOMAIN req = Slots
  /\ \A s \in Slots : Sound(req[s], Ids, ops)
  /\ \A s, t \in Slots :
       s # t /\ ~At(s, "idle") /\ ~At(t, "idle") => req[s].op # req[t].op
  /\ ops \in Nat /\ \A i \in Ids : i.op \in 1 .. ops

RowsOK ==
  /\ \A r \in rows : IsRow(r)
  /\ \A q, r \in rows : Id(q) = Id(r) => q = r
  /\ \A q, r \in Live : q.proxy = r.proxy => q = r

AsMark(r) == [op |-> r.op, proxy |-> r.proxy, user |-> r.user, kind |-> r.kind]

AloneInv ==
  ~overlapped =>
    /\ \A s, t \in Slots : ~At(s, "idle") /\ ~At(t, "idle") => s = t
    /\ told = {AsMark(r) : r \in Live}
    /\ \A s \in Slots : At(s, "update.save") => req[s].row \subseteq Live

IInv == RequestsOK /\ RowsOK /\ AloneInv

-----------------------------------------------------------------------------
(* One request, and the names.                                             *)

LEMMA IdleSound == \A I, n : Sound(Idle, I, n)
  BY DEF Sound, Idle, Fields, Adding, Updating

LEMMA NamesOfMarks ==
  ASSUME NEW r, NEW m \in NewMarks(r)
  PROVE  Id(m).op = r.op
  BY DEF NewMarks, Id

(* What the others add to the table is not named after r.                  *)
LEMMA SoundGrows ==
  ASSUME NEW r, NEW I, NEW J, NEW n \in Nat, NEW k \in Nat, n <= k, Sound(r, I, n),
         I \subseteq J, \A j \in J \ I : r.pc = "idle" \/ j.op # r.op
  PROVE  Sound(r, J, k)
  <1>1. r.pc # "idle" => r.op \in 1 .. k
    BY DEF Sound
  <1>2. r.pc \in Adding => \A i \in J : i.op # r.op
    BY DEF Sound, Adding
  <1>3. ASSUME r.pc = "done", r.models # <<>>
        PROVE  Whole(r, J)
    <2>1. Whole(r, I)
      BY <1>3 DEF Sound
    <2>2. \A m \in NewMarks(r) : Id(m) \in J => Id(m) \in I
      BY <1>3, NamesOfMarks
    <2> QED
      BY <2>1, <2>2 DEF Whole
  <1>4. r.pc \in Updating => \E i \in J : r.ids = {i}
    BY DEF Sound
  <1> QED
    BY <1>1, <1>2, <1>3, <1>4 DEF Sound

(* A step of one request: the names it adds are named after it.            *)
LEMMA RequestMoves ==
  ASSUME RequestsOK, NEW s \in Slots, ~At(s, "idle"), NEW r, req' = [req EXCEPT ![s] = r],
         ops' = ops, Ids \subseteq Ids', \A j \in Ids' \ Ids : j.op = req[s].op,
         Sound(r, Ids', ops), r.pc # "idle" => r.op = req[s].op
  PROVE  RequestsOK'
  <1>1. req[s].op \in 1 .. ops /\ ops \in Nat
    BY DEF RequestsOK, Sound, At
  <1>2. ASSUME NEW t \in Slots, t # s
        PROVE  Sound(req[t], Ids', ops)
    <2>1. Sound(req[t], Ids, ops)
      BY DEF RequestsOK
    <2>2. \A j \in Ids' \ Ids : req[t].pc = "idle" \/ j.op # req[t].op
      BY <1>2 DEF RequestsOK, At
    <2> QED
      BY <1>1, <2>1, <2>2, SoundGrows
  <1>3. req'[s] = r /\ \A t \in Slots : t # s => req'[t] = req[t]
    BY DEF RequestsOK
  <1>4. \A t \in Slots : Sound(req'[t], Ids', ops')
    BY <1>2, <1>3
  <1>5. \A t, v \in Slots :
          t # v /\ req'[t].pc # "idle" /\ req'[v].pc # "idle" => req'[t].op # req'[v].op
    BY <1>3 DEF RequestsOK, At
  <1>6. \A i \in Ids' : i.op \in 1 .. ops
    BY <1>1 DEF RequestsOK
  <1> QED
    BY <1>1, <1>4, <1>5, <1>6 DEF RequestsOK, At

LEMMA AnswerMoves ==
  ASSUME RequestsOK, NEW s \in Slots, NEW o, Answer(s, o), ~At(s, "idle"), ~At(s, "done"),
         req[s].pc \in Adding => o # "Ok", UNCHANGED <<rows, ops>>
  PROVE  RequestsOK'
  <1> DEFINE r == [req[s] EXCEPT !.pc = "done", !.out = o]
  <1>d. Sound(req[s], Ids, ops) /\ DOMAIN req = Slots
    BY DEF RequestsOK
  <1>f. DOMAIN req[s] = Fields
    BY <1>d DEF Sound
  <1>1. req' = [req EXCEPT ![s] = r]
    BY <1>d, Zenon DEF Answer
  <1>2. /\ DOMAIN r = Fields /\ r.pc = "done" /\ r.out = o /\ r.op = req[s].op
        /\ r.models = req[s].models /\ r.user = req[s].user /\ r.kind = req[s].kind
    BY <1>f DEF Fields
  <1>3. NewMarks(r) = NewMarks(req[s])
    BY <1>2 DEF NewMarks
  <1>4. ASSUME r.models # <<>>
        PROVE  Whole(r, Ids)
    <2>1. req[s].pc \in Adding
      BY <1>4, <1>2, <1>d DEF Sound, At
    <2>2. \A m \in NewMarks(r) : Id(m) \notin Ids
      BY <2>1, <1>d, <1>3, NamesOfMarks DEF Sound
    <2> QED
      BY <2>1, <2>2, <1>2 DEF Whole
  <1>5. req[s].op \in 1 .. ops
    BY <1>d DEF Sound, At
  <1> HIDE DEF r
  <1>6. Sound(r, Ids, ops)
    BY <1>2, <1>4, <1>5 DEF Sound, Adding, Updating
  <1>7. Ids' = Ids
    BY DEF Ids
  <1> QED
    BY <1>1, <1>2, <1>6, <1>7, RequestMoves

LEMMA GotoMoves ==
  ASSUME RequestsOK, NEW s \in Slots, NEW l, Goto(s, l),
         \/ req[s].pc \in Adding /\ l \in Adding
         \/ req[s].pc \in Updating /\ l \in Updating \ {"update.save"}
         \/ At(s, "list.user") /\ l = "list.read",
         UNCHANGED <<rows, ops>>
  PROVE  RequestsOK'
  <1> DEFINE r == [req[s] EXCEPT !.pc = l]
  <1>d. Sound(req[s], Ids, ops) /\ DOMAIN req = Slots
    BY DEF RequestsOK
  <1>f. DOMAIN req[s] = Fields
    BY <1>d DEF Sound
  <1>1. req' = [req EXCEPT ![s] = r]
    BY <1>d, Zenon DEF Goto
  <1>2. /\ DOMAIN r = Fields /\ r.pc = l /\ r.out = req[s].out /\ r.op = req[s].op
        /\ r.models = req[s].models /\ r.ids = req[s].ids
    BY <1>f DEF Fields
  <1>3. ~At(s, "idle") /\ ~At(s, "done")
    BY DEF Adding, Updating, At
  <1> HIDE DEF r
  <1>6. Sound(r, Ids, ops)
    BY <1>d, <1>2, <1>3 DEF Sound, Adding, Updating, At
  <1>7. Ids' = Ids
    BY DEF Ids
  <1> QED
    BY <1>1, <1>2, <1>3, <1>6, <1>7, RequestMoves

LEMMA BeginMoves ==
  ASSUME RequestsOK, NEW s \in Slots, Begin(s)
  PROVE  RequestsOK'
  <1>d. DOMAIN req = Slots /\ ops \in Nat /\ ops' = ops + 1 /\ Ids' = Ids
    BY DEF RequestsOK, Begin, Ids
  <1>1. ASSUME NEW r, DOMAIN r = Fields, r.op = ops + 1, r.out = "none", r.pc # "done",
               r.pc \notin Adding => r.models = <<>>,
               r.pc \in Updating => r.pc = "update.get" /\ \E i \in Ids : r.ids = {i},
               req' = [req EXCEPT ![s] = r]
        PROVE  RequestsOK'
    <2>1. \A i \in Ids : i.op \in 1 .. ops
      BY DEF RequestsOK
    <2>2. Sound(r, Ids', ops')
      BY <1>d, <1>1, <2>1 DEF Sound, Updating
    <2>3. \A t \in Slots : Sound(req[t], Ids', ops')
      <3> SUFFICES ASSUME NEW t \in Slots PROVE Sound(req[t], Ids', ops')
        OBVIOUS
      <3>1. Sound(req[t], Ids, ops)
        BY DEF RequestsOK
      <3> QED
        BY <1>d, <3>1, SoundGrows
    <2>4. \A t \in Slots : ~At(t, "idle") => req[t].op \in 1 .. ops
      BY DEF RequestsOK, Sound, At
    <2>5. req'[s] = r /\ \A t \in Slots : t # s => req'[t] = req[t]
      BY <1>d, <1>1
    <2>6. \A t \in Slots : Sound(req'[t], Ids', ops')
      BY <2>2, <2>3, <2>5
    <2>7. \A t, v \in Slots :
            t # v /\ req'[t].pc # "idle" /\ req'[v].pc # "idle" => req'[t].op # req'[v].op
      BY <1>d, <1>1, <2>4, <2>5 DEF RequestsOK, At
    <2>8. DOMAIN req' = Slots
      BY <1>d, <1>1
    <2> QED
      BY <1>d, <2>1, <2>6, <2>7, <2>8 DEF RequestsOK, At
  <1>2. \/ \E u \in User :
             req' = [req EXCEPT ![s] = [Idle EXCEPT !.pc = "list.user", !.user = u,
                                                    !.op = ops + 1]]
        \/ \E models : \E u \in User, k \in Kind :
             req' = [req EXCEPT ![s] = [Idle EXCEPT !.pc = "add.open", !.user = u,
                                          !.kind = k, !.models = models, !.op = ops + 1]]
        \/ \E i \in Ids, k \in Kind :
             req' = [req EXCEPT ![s] = [Idle EXCEPT !.pc = "update.get", !.kind = k,
                                                    !.ids = {i}, !.op = ops + 1]]
        \/ \E I : \E k \in Kind :
             \/ req' = [req EXCEPT ![s] = [Idle EXCEPT !.pc = "bulk.update", !.kind = k,
                                                       !.ids = I, !.op = ops + 1]]
             \/ req' = [req EXCEPT ![s] = [Idle EXCEPT !.pc = "bulk.remove", !.ids = I,
                                                       !.op = ops + 1]]
    BY DEF Begin, Idle
  <1> DEFINE Start(r) == req' = [req EXCEPT ![s] = r]
  <1>3. ASSUME NEW u \in User,
               Start([Idle EXCEPT !.pc = "list.user", !.user = u, !.op = ops + 1])
        PROVE  RequestsOK'
    BY <1>1, <1>3 DEF Idle, Fields, Adding, Updating
  <1>4. ASSUME NEW u \in User, NEW k \in Kind, NEW models,
               Start([Idle EXCEPT !.pc = "add.open", !.user = u, !.kind = k,
                                  !.models = models, !.op = ops + 1])
        PROVE  RequestsOK'
    BY <1>1, <1>4 DEF Idle, Fields, Adding, Updating
  <1>5. ASSUME NEW i \in Ids, NEW k \in Kind,
               Start([Idle EXCEPT !.pc = "update.get", !.kind = k, !.ids = {i}, !.op = ops + 1])
        PROVE  RequestsOK'
    BY <1>1, <1>5 DEF Idle, Fields, Adding, Updating
  <1>6. ASSUME NEW I, NEW k \in Kind,
               \/ Start([Idle EXCEPT !.pc = "bulk.update", !.kind = k, !.ids = I,
                                     !.op = ops + 1])
               \/ Start([Idle EXCEPT !.pc = "bulk.remove", !.ids = I, !.op = ops + 1])
        PROVE  RequestsOK'
    BY <1>1, <1>6 DEF Idle, Fields, Adding, Updating
  <1> QED
    BY <1>2, <1>3, <1>4, <1>5, <1>6

(* The steps that only read the table.                                     *)
LEMMA ReadMoves ==
  ASSUME RequestsOK, RowsOK, NEW s \in Slots,
         \/ Reply(s) \/ ListUser(s) \/ ListRead(s) \/ AddOpen(s) \/ UpdateGet(s)
         \/ UpdateOpen(s) \/ UpdateFind(s) \/ Fail(s)
  PROVE  RequestsOK'
  <1>d. Sound(req[s], Ids, ops) /\ DOMAIN req = Slots /\ DOMAIN req[s] = Fields
    BY DEF RequestsOK, Sound
  <1>r. UNCHANGED <<rows, ops>> /\ Ids' = Ids
    BY DEF Reply, ListUser, ListRead, AddOpen, UpdateGet, UpdateOpen, UpdateFind, Fail, Ids
  <1>1. CASE Reply(s)
    BY <1>1, <1>r, IdleSound, RequestMoves DEF Reply, At, Idle
  <1>2. CASE ListUser(s)
    <2>1. Goto(s, "list.read") \/ Answer(s, "NotFound")
      BY <1>2 DEF ListUser
    <2> QED
      BY <1>2, <1>r, <2>1, GotoMoves, AnswerMoves DEF ListUser, At
  <1>3. CASE ListRead(s)
    <2> DEFINE L == UNION {Merged(p, MarksOf(req[s].user)) : p \in Open(req[s].user)}
               r == [req[s] EXCEPT !.pc = "done", !.out = "Ok", !.list = L]
    <2>1. req' = [req EXCEPT ![s].pc = "done", ![s].out = "Ok", ![s].list = L]
      BY <1>3 DEF ListRead
    <2> HIDE DEF L
    <2>2. req' = [req EXCEPT ![s] = r]
      BY <1>d, <2>1, Zenon
    <2>3. DOMAIN r = Fields /\ r.pc = "done" /\ r.op = req[s].op /\ r.models = req[s].models
      BY <1>d DEF Fields
    <2>4. At(s, "list.read")
      BY <1>3 DEF ListRead
    <2> HIDE DEF r
    <2>5. Sound(r, Ids, ops)
      BY <1>d, <2>3, <2>4 DEF Sound, At, Adding, Updating
    <2> QED
      BY <1>r, <2>2, <2>3, <2>4, <2>5, RequestMoves DEF At
  <1>4. CASE AddOpen(s)
    <2>1. At(s, "add.open") /\ (Goto(s, "add.insert") \/ Answer(s, "NotFound"))
      BY <1>4 DEF AddOpen
    <2> QED
      BY <1>r, <2>1, GotoMoves, AnswerMoves DEF At, Adding
  <1>5. CASE UpdateGet(s)
    <2>1. /\ At(s, "update.get")
          /\ Answer(s, "NotFound") \/ Goto(s, "update.open") \/ Answer(s, "Repository")
      BY <1>5 DEF UpdateGet
    <2> QED
      BY <1>r, <2>1, GotoMoves, AnswerMoves DEF At, Updating
  <1>6. CASE UpdateOpen(s)
    <2>1. At(s, "update.open") /\ (Answer(s, "NotFound") \/ Goto(s, "update.find"))
      BY <1>6 DEF UpdateOpen
    <2> QED
      BY <1>r, <2>1, GotoMoves, AnswerMoves DEF At, Updating
  <1>8. CASE Fail(s)
    <2>1. ~At(s, "idle") /\ ~At(s, "done") /\ Answer(s, "Repository")
      BY <1>8 DEF Fail, At
    <2> QED
      BY <1>r, <2>1, AnswerMoves
  <1>7. CASE UpdateFind(s)
    <2> DEFINE found == {x \in Chosen(s) : x.live}
               r == [req[s] EXCEPT !.pc = "update.save", !.row = found]
    <2>1. At(s, "update.find")
      BY <1>7 DEF UpdateFind
    <2>2. CASE Answer(s, "Ok")
      BY <1>r, <2>1, <2>2, AnswerMoves DEF At, Adding
    <2>3. CASE req' = [req EXCEPT ![s].pc = "update.save", ![s].row = found]
      <3>1. \A x \in found : IsRow(x) /\ Id(x) \in req[s].ids
        BY DEF RowsOK, Chosen
      <3> HIDE DEF found
      <3>2. req' = [req EXCEPT ![s] = r]
        BY <1>d, <2>3, Zenon
      <3>3. /\ DOMAIN r = Fields /\ r.pc = "update.save" /\ r.op = req[s].op
            /\ r.models = req[s].models /\ r.row = found /\ r.ids = req[s].ids
            /\ r.out = req[s].out
        BY <1>d DEF Fields
      <3> HIDE DEF r
      <3>4. Sound(r, Ids, ops)
        BY <1>d, <2>1, <3>1, <3>3 DEF Sound, At, Adding, Updating
      <3> QED
        BY <1>r, <2>1, <3>2, <3>3, <3>4, RequestMoves DEF At
    <2> QED
      BY <1>7, <2>2, <2>3 DEF UpdateFind
  <1> QED
    BY <1>1, <1>2, <1>3, <1>4, <1>5, <1>6, <1>7, <1>8

-----------------------------------------------------------------------------
(* The statements that write the table.                                    *)

(* Replacing the chosen rows by others of the same names renames nothing.  *)
LEMMA NamesKept ==
  ASSUME NEW s \in Slots, NEW S, rows' = (rows \ Chosen(s)) \cup S,
         {Id(r) : r \in S} = {Id(r) : r \in Chosen(s)}
  PROVE  Ids' = Ids
  BY DEF Ids, Chosen

LEMMA RewriteKind ==
  ASSUME NEW r, IsRow(r), NEW k
  PROVE  /\ Id([r EXCEPT !.kind = k]) = Id(r) /\ IsRow([r EXCEPT !.kind = k])
         /\ [r EXCEPT !.kind = k].live = r.live /\ [r EXCEPT !.kind = k].proxy = r.proxy
         /\ AsMark([r EXCEPT !.kind = k]) = [AsMark(r) EXCEPT !.kind = k]
         /\ Id(AsMark(r)) = Id(r)
  <1>1. r = [op |-> r.op, proxy |-> r.proxy, user |-> r.user, kind |-> r.kind,
             live |-> r.live]
    BY DEF IsRow
  <1>2. [r EXCEPT !.kind = k] = [op |-> r.op, proxy |-> r.proxy, user |-> r.user,
                                 kind |-> k, live |-> r.live]
    BY <1>1
  <1> QED
    BY <1>2 DEF Id, IsRow, AsMark

LEMMA RewriteLive ==
  ASSUME NEW r, IsRow(r)
  PROVE  /\ Id([r EXCEPT !.live = FALSE]) = Id(r) /\ IsRow([r EXCEPT !.live = FALSE])
         /\ ~[r EXCEPT !.live = FALSE].live /\ [r EXCEPT !.live = FALSE].proxy = r.proxy
         /\ Id(AsMark(r)) = Id(r)
  <1>1. r = [op |-> r.op, proxy |-> r.proxy, user |-> r.user, kind |-> r.kind,
             live |-> r.live]
    BY DEF IsRow
  <1>0. \A l : [r EXCEPT !.live = l] = [op |-> r.op, proxy |-> r.proxy, user |-> r.user,
                                       kind |-> r.kind, live |-> l]
    BY <1>1
  <1>2. [r EXCEPT !.live = FALSE] = [op |-> r.op, proxy |-> r.proxy, user |-> r.user,
                                     kind |-> r.kind, live |-> FALSE]
    BY <1>0, Zenon
  <1>3. [r EXCEPT !.live = FALSE].live = FALSE
    BY <1>2
  <1> QED
    BY <1>2, <1>3 DEF Id, IsRow, AsMark

LEMMA StoredIs ==
  ASSUME NEW r, NEW m \in NewMarks(r)
  PROVE  /\ IsRow(Stored(m)) /\ Id(Stored(m)) = Id(m) /\ Stored(m).live
         /\ Stored(m).proxy = m.proxy /\ AsMark(Stored(m)) = m
  BY DEF NewMarks, IsRow, Id, Stored, AsMark

LEMMA AddInsertMoves ==
  ASSUME RequestsOK, NEW s \in Slots, AddInsert(s)
  PROVE  RequestsOK'
  <1>d. Sound(req[s], Ids, ops) /\ DOMAIN req = Slots /\ DOMAIN req[s] = Fields
    BY DEF RequestsOK, Sound
  <1>a. At(s, "add.insert") /\ ops' = ops
    BY DEF AddInsert
  <1>1. CASE Answer(s, "Repository") /\ UNCHANGED rows
    BY <1>1, <1>a, AnswerMoves DEF At
  <1>2. CASE /\ rows' = rows \cup {Stored(m) : m \in NewMarks(req[s])}
             /\ Answer(s, "Ok")
    <2> DEFINE r == [req[s] EXCEPT !.pc = "done", !.out = "Ok"]
    <2>1. req' = [req EXCEPT ![s] = r]
      BY <1>d, <1>2, Zenon DEF Answer
    <2>2. /\ DOMAIN r = Fields /\ r.pc = "done" /\ r.out = "Ok" /\ r.op = req[s].op
          /\ r.models = req[s].models /\ r.user = req[s].user /\ r.kind = req[s].kind
      BY <1>d DEF Fields
    <2> HIDE DEF r
    <2>3. NewMarks(r) = NewMarks(req[s])
      BY <2>2 DEF NewMarks
    <2>4. Ids' = Ids \cup {Id(m) : m \in NewMarks(req[s])}
      BY <1>2, StoredIs DEF Ids
    <2>5. \A j \in Ids' \ Ids : j.op = req[s].op
      BY <2>4, NamesOfMarks
    <2>6. Whole(r, Ids')
      BY <2>2, <2>3, <2>4 DEF Whole
    <2>7. Sound(r, Ids', ops)
      BY <1>a, <1>d, <2>2, <2>6 DEF Sound, At, Adding, Updating
    <2> QED
      BY <1>a, <2>1, <2>2, <2>4, <2>5, <2>7, RequestMoves DEF At
  <1> QED
    BY <1>1, <1>2 DEF AddInsert

LEMMA AnswerRenamed ==
  ASSUME RequestsOK, NEW s \in Slots, NEW o, Answer(s, o), ~At(s, "idle"), ~At(s, "done"),
         req[s].pc \notin Adding, Ids' = Ids, ops' = ops
  PROVE  RequestsOK'
  <1> DEFINE r == [req[s] EXCEPT !.pc = "done", !.out = o]
  <1>d. Sound(req[s], Ids, ops) /\ DOMAIN req = Slots /\ DOMAIN req[s] = Fields
    BY DEF RequestsOK, Sound
  <1>1. req' = [req EXCEPT ![s] = r]
    BY <1>d, Zenon DEF Answer
  <1>2. /\ DOMAIN r = Fields /\ r.pc = "done" /\ r.out = o /\ r.op = req[s].op
        /\ r.models = req[s].models
    BY <1>d DEF Fields
  <1> HIDE DEF r
  <1>3. Sound(r, Ids, ops)
    BY <1>d, <1>2 DEF Sound, At, Adding, Updating
  <1> QED
    BY <1>1, <1>2, <1>3, RequestMoves

LEMMA BulkMoves ==
  ASSUME RequestsOK, RowsOK, NEW s \in Slots, BulkUpdate(s) \/ BulkRemove(s)
  PROVE  RequestsOK'
  <1>1. \A x \in Chosen(s) : IsRow(x)
    BY DEF RowsOK, Chosen
  <1>2. Ids' = Ids
    <2>1. CASE BulkUpdate(s)
      <3> DEFINE S == {[x EXCEPT !.kind = req[s].kind] : x \in Chosen(s)}
      <3>0. \A x \in Chosen(s) : Id([x EXCEPT !.kind = req[s].kind]) = Id(x)
        BY <1>1, RewriteKind
      <3>1. {Id(x) : x \in S} = {Id(x) : x \in Chosen(s)}
        BY <3>0
      <3>2. rows' = (rows \ Chosen(s)) \cup S
        BY <2>1 DEF BulkUpdate
      <3> QED
        BY <3>1, <3>2, NamesKept
    <2>2. CASE BulkRemove(s)
      <3> DEFINE S == {[x EXCEPT !.live = FALSE] : x \in Chosen(s)}
      <3>0. \A x \in Chosen(s) : Id([x EXCEPT !.live = FALSE]) = Id(x)
        BY <1>1, RewriteLive
      <3>1. {Id(x) : x \in S} = {Id(x) : x \in Chosen(s)}
        BY <3>0
      <3>2. rows' = (rows \ Chosen(s)) \cup S
        BY <2>2 DEF BulkRemove
      <3> QED
        BY <3>1, <3>2, NamesKept
    <2> QED
      BY <2>1, <2>2
  <1>3. req[s].pc \in {"bulk.update", "bulk.remove"} /\ Answer(s, "Ok") /\ ops' = ops
    BY DEF BulkUpdate, BulkRemove, At
  <1> QED
    BY <1>2, <1>3, AnswerRenamed DEF At, Adding

(* The row an update has loaded is one of those it chose.                  *)
LEMMA LoadedRow ==
  ASSUME RequestsOK, NEW s \in Slots, At(s, "update.save"), NEW r \in req[s].row
  PROVE  IsRow(r) /\ req[s].ids = {Id(r)} /\ Id(r) \in Ids
  <1>1. Sound(req[s], Ids, ops)
    BY DEF RequestsOK
  <1>2. PICK i \in Ids : req[s].ids = {i}
    BY <1>1 DEF Sound, At, Updating
  <1> QED
    BY <1>1, <1>2 DEF Sound, At

LEMMA UpdateSaveMoves ==
  ASSUME RequestsOK, NEW s \in Slots, UpdateSave(s)
  PROVE  RequestsOK'
  <1>1. At(s, "update.save") /\ ops' = ops
    BY DEF UpdateSave
  <1>2. PICK r \in req[s].row :
          \/ Answer(s, "Repository") /\ UNCHANGED rows
          \/ /\ rows' = (rows \ Chosen(s)) \cup {[r EXCEPT !.kind = req[s].kind]}
             /\ Answer(s, "Ok")
    BY DEF UpdateSave
  <1>3. CASE Answer(s, "Repository") /\ UNCHANGED rows
    BY <1>1, <1>3, AnswerMoves DEF At
  <1>4. CASE /\ rows' = (rows \ Chosen(s)) \cup {[r EXCEPT !.kind = req[s].kind]}
             /\ Answer(s, "Ok")
    <2>1. IsRow(r) /\ req[s].ids = {Id(r)} /\ Id(r) \in Ids
      BY <1>1, LoadedRow
    <2>2. {Id(x) : x \in Chosen(s)} = {Id(r)}
      BY <2>1 DEF Chosen, Ids
    <2> DEFINE z == [r EXCEPT !.kind = req[s].kind]
    <2>3. Id(z) = Id(r)
      BY <2>1, RewriteKind
    <2>4. rows' = (rows \ Chosen(s)) \cup {z}
      BY <1>4
    <2> HIDE DEF z
    <2>5. {Id(x) : x \in {z}} = {Id(x) : x \in Chosen(s)}
      BY <2>2, <2>3
    <2>6. Ids' = Ids
      BY <2>4, <2>5, NamesKept
    <2> QED
      BY <1>1, <1>4, <2>6, AnswerRenamed DEF At, Adding
  <1> QED
    BY <1>2, <1>3, <1>4

-----------------------------------------------------------------------------
(* What the statements do to the rows and, when nobody overlaps, to what   *)
(* the answers have told.                                                  *)

LEMMA RowsRewritten ==
  ASSUME RowsOK, NEW g, rows' = {g[x] : x \in rows},
         \A x \in rows : /\ IsRow(g[x]) /\ Id(g[x]) = Id(x) /\ g[x].proxy = x.proxy
                         /\ g[x].live => x.live
  PROVE  RowsOK'
  BY DEF RowsOK, Live

LEMMA AddInsertRows ==
  ASSUME RequestsOK, RowsOK, NEW s \in Slots, AddInsert(s)
  PROVE  RowsOK' /\ (told = {AsMark(r) : r \in Live} => told' = {AsMark(r) : r \in Live'})
  <1> DEFINE new == NewMarks(req[s])
  <1>1. CASE UNCHANGED <<rows, told>>
    BY <1>1 DEF RowsOK, Live
  <1>2. CASE /\ \A m \in new : ~Taken(m.proxy, {})
             /\ rows' = rows \cup {Stored(m) : m \in new}
             /\ told' = told \cup new
    <2>1. Sound(req[s], Ids, ops) /\ req[s].pc \in Adding
      BY DEF RequestsOK, AddInsert, At, Adding
    <2>2. \A m \in new : Id(m) \notin Ids
      BY <2>1, NamesOfMarks DEF Sound
    <2>3. \A m \in new : /\ IsRow(Stored(m)) /\ Id(Stored(m)) = Id(m) /\ Stored(m).live
                         /\ Stored(m).proxy = m.proxy /\ AsMark(Stored(m)) = m
      BY StoredIs
    <2>4. \A m, k \in new : m.proxy = k.proxy => m = k
      BY DEF NewMarks
    <2>5. \A m, k \in new : Id(m) = Id(k) => m = k
      BY <2>4 DEF Id
    <2>6. \A q \in rows, m \in new : Id(q) # Id(m) /\ (q.live => q.proxy # m.proxy)
      BY <1>2, <2>2 DEF Ids, Taken, Live
    <2>7. Live' = Live \cup {Stored(m) : m \in new}
      BY <1>2, <2>3 DEF Live
    <2>8. \A q, r \in rows' : Id(q) = Id(r) => q = r
      BY <1>2, <2>3, <2>5, <2>6 DEF RowsOK
    <2>9. \A q, r \in Live' : q.proxy = r.proxy => q = r
      BY <2>3, <2>4, <2>6, <2>7 DEF RowsOK, Live
    <2>10. RowsOK'
      BY <1>2, <2>3, <2>8, <2>9 DEF RowsOK
    <2>11. ASSUME told = {AsMark(r) : r \in Live}
           PROVE  told' = {AsMark(r) : r \in Live'}
      <3>1. {AsMark(r) : r \in Live'} = {AsMark(r) : r \in Live} \cup new
        BY <2>3, <2>7
      <3> QED
        BY <1>2, <2>11, <3>1
    <2> QED
      BY <2>10, <2>11
  <1> QED
    BY <1>1, <1>2 DEF AddInsert

LEMMA BulkUpdateRows ==
  ASSUME RowsOK, NEW s \in Slots, BulkUpdate(s)
  PROVE  RowsOK' /\ (told = {AsMark(r) : r \in Live} => told' = {AsMark(r) : r \in Live'})
  <1> DEFINE k == req[s].kind
             g == [x \in rows |-> IF x \in Chosen(s) THEN [x EXCEPT !.kind = k] ELSE x]
  <1>1. rows' = {g[x] : x \in rows}
    BY DEF BulkUpdate, Chosen
  <1>2. \A x \in rows : /\ Id([x EXCEPT !.kind = k]) = Id(x) /\ IsRow([x EXCEPT !.kind = k])
                        /\ [x EXCEPT !.kind = k].live = x.live
                        /\ [x EXCEPT !.kind = k].proxy = x.proxy
                        /\ AsMark([x EXCEPT !.kind = k]) = [AsMark(x) EXCEPT !.kind = k]
                        /\ Id(AsMark(x)) = Id(x)
    BY RewriteKind DEF RowsOK
  <1>3. \A x \in rows : /\ IsRow(g[x]) /\ Id(g[x]) = Id(x) /\ g[x].proxy = x.proxy
                        /\ g[x].live = x.live
    BY <1>2 DEF RowsOK
  <1>4. \A x \in rows :
          AsMark(g[x]) = IF Id(x) \in req[s].ids THEN [AsMark(x) EXCEPT !.kind = k]
                         ELSE AsMark(x)
    BY <1>2 DEF Chosen
  <1>5. told' = {IF Id(m) \in req[s].ids THEN [m EXCEPT !.kind = k] ELSE m : m \in told}
    BY DEF BulkUpdate, Told
  <1> HIDE DEF g, k
  <1>6. RowsOK'
    BY <1>1, <1>3, RowsRewritten
  <1>7. Live' = {g[x] : x \in Live}
    BY <1>1, <1>3 DEF Live
  <1>8. ASSUME told = {AsMark(r) : r \in Live}
        PROVE  told' = {AsMark(r) : r \in Live'}
    <2>1. \A x \in Live : Id(AsMark(x)) = Id(x)
      BY <1>2 DEF Live
    <2>2. told' = {IF Id(x) \in req[s].ids THEN [AsMark(x) EXCEPT !.kind = k]
                   ELSE AsMark(x) : x \in Live}
      BY <1>5, <1>8, <2>1
    <2>3. {AsMark(r) : r \in Live'} = {AsMark(g[x]) : x \in Live}
      BY <1>7
    <2>4. \A x \in Live :
            AsMark(g[x]) = IF Id(x) \in req[s].ids THEN [AsMark(x) EXCEPT !.kind = k]
                           ELSE AsMark(x)
      BY <1>4 DEF Live
    <2> QED
      BY <2>2, <2>3, <2>4
  <1> QED
    BY <1>6, <1>8

LEMMA BulkRemoveRows ==
  ASSUME RowsOK, NEW s \in Slots, BulkRemove(s)
  PROVE  RowsOK' /\ (told = {AsMark(r) : r \in Live} => told' = {AsMark(r) : r \in Live'})
  <1> DEFINE g == [x \in rows |-> IF x \in Chosen(s) THEN [x EXCEPT !.live = FALSE] ELSE x]
  <1>1. rows' = {g[x] : x \in rows}
    BY DEF BulkRemove, Chosen
  <1>2. \A x \in rows : /\ Id([x EXCEPT !.live = FALSE]) = Id(x)
                        /\ IsRow([x EXCEPT !.live = FALSE])
                        /\ ~[x EXCEPT !.live = FALSE].live
                        /\ [x EXCEPT !.live = FALSE].proxy = x.proxy
                        /\ Id(AsMark(x)) = Id(x)
    BY RewriteLive DEF RowsOK
  <1>3. \A x \in rows : /\ IsRow(g[x]) /\ Id(g[x]) = Id(x) /\ g[x].proxy = x.proxy
                        /\ x \in Chosen(s) => ~g[x].live
                        /\ x \notin Chosen(s) => g[x] = x
    BY <1>2 DEF RowsOK
  <1> HIDE DEF g
  <1>4. RowsOK'
    BY <1>1, <1>3, RowsRewritten
  <1>5. Live' = {x \in Live : Id(x) \notin req[s].ids}
    BY <1>1, <1>3 DEF Live, Chosen
  <1>6. told' = {m \in told : Id(m) \notin req[s].ids}
    BY DEF BulkRemove
  <1>7. \A x \in Live : Id(AsMark(x)) = Id(x)
    BY <1>2 DEF Live
  <1>8. ASSUME told = {AsMark(r) : r \in Live}
        PROVE  told' = {AsMark(r) : r \in Live'}
    BY <1>5, <1>6, <1>7, <1>8
  <1> QED
    BY <1>4, <1>8

LEMMA UpdateSaveRows ==
  ASSUME RequestsOK, RowsOK, NEW s \in Slots, UpdateSave(s)
  PROVE  /\ RowsOK'
         /\ told = {AsMark(r) : r \in Live} /\ req[s].row \subseteq Live
              => told' = {AsMark(r) : r \in Live'}
  <1> DEFINE k == req[s].kind
  <1>1. CASE UNCHANGED <<rows, told>>
    BY <1>1 DEF RowsOK, Live
  <1>2. ASSUME NEW r \in req[s].row, ~Taken(r.proxy, Chosen(s)),
               rows' = (rows \ Chosen(s)) \cup {[r EXCEPT !.kind = k]},
               told' = Told(s, k)
        PROVE  /\ RowsOK'
               /\ told = {AsMark(x) : x \in Live} /\ req[s].row \subseteq Live
                    => told' = {AsMark(x) : x \in Live'}
    <2> DEFINE z == [r EXCEPT !.kind = k]
    <2>1. IsRow(r) /\ req[s].ids = {Id(r)} /\ Id(r) \in Ids
      BY LoadedRow DEF UpdateSave
    <2>2. /\ IsRow(z) /\ Id(z) = Id(r) /\ z.proxy = r.proxy /\ z.live = r.live
          /\ AsMark(z) = [AsMark(r) EXCEPT !.kind = k]
      BY <2>1, RewriteKind
    <2>3. rows' = (rows \ Chosen(s)) \cup {z}
      BY <1>2
    <2>4. \A x \in rows \ Chosen(s) : Id(x) # Id(r) /\ (x.live => x.proxy # r.proxy)
      BY <1>2, <2>1 DEF Chosen, Taken, Live
    <2> HIDE DEF z
    <2>5. RowsOK'
      <3>1. \A x \in rows' : IsRow(x)
        BY <2>2, <2>3 DEF RowsOK
      <3>2. \A x, y \in rows' : Id(x) = Id(y) => x = y
        BY <2>2, <2>3, <2>4 DEF RowsOK
      <3>3. \A x, y \in rows' : x.live /\ y.live /\ x.proxy = y.proxy => x = y
        BY <2>2, <2>3, <2>4 DEF RowsOK, Live
      <3> QED
        BY <3>1, <3>2, <3>3 DEF RowsOK, Live
    <2>6. ASSUME told = {AsMark(x) : x \in Live}, req[s].row \subseteq Live
          PROVE  told' = {AsMark(x) : x \in Live'}
      <3>1. r \in rows /\ r.live /\ Chosen(s) = {r}
        BY <2>1, <2>6 DEF Live, Chosen, RowsOK
      <3>2. Live' = (Live \ {r}) \cup {z}
        BY <2>2, <2>3, <3>1 DEF Live
      <3>3. \A x \in Live : Id(AsMark(x)) = Id(x) /\ (Id(x) = Id(r) => x = r)
        BY <3>1, RewriteKind DEF Live, RowsOK
      <3>4. told' = {IF Id(m) = Id(r) THEN [m EXCEPT !.kind = k] ELSE m : m \in told}
        BY <1>2, <2>1 DEF Told
      <3>5. told' = {IF x = r THEN AsMark(z) ELSE AsMark(x) : x \in Live}
        <4>1. \A x \in Live : (Id(AsMark(x)) = Id(r)) = (x = r)
          BY <3>3
        <4>2. told' = {IF Id(AsMark(x)) = Id(r) THEN [AsMark(x) EXCEPT !.kind = k]
                       ELSE AsMark(x) : x \in Live}
          BY <2>6, <3>4
        <4> QED
          BY <2>2, <4>1, <4>2
      <3>6. r \in Live
        BY <3>1 DEF Live
      <3> QED
        BY <3>2, <3>5, <3>6
    <2> QED
      BY <2>5, <2>6
  <1> QED
    BY <1>1, <1>2 DEF UpdateSave

-----------------------------------------------------------------------------
(* Nobody else.                                                            *)

LEMMA AloneMoves ==
  ASSUME RequestsOK, AloneInv, NEW s \in Slots, ~At(s, "idle"), NEW r,
         req' = [req EXCEPT ![s] = r], overlapped' = overlapped,
         ~overlapped => told' = {AsMark(x) : x \in Live'},
         ~overlapped /\ r.pc = "update.save" => r.row \subseteq Live'
  PROVE  AloneInv'
  <1> SUFFICES ASSUME ~overlapped' PROVE AloneInv'
    BY DEF AloneInv
  <1>1. \A t \in Slots : t # s => At(t, "idle")
    BY DEF AloneInv
  <1>2. DOMAIN req = Slots /\ req'[s] = r /\ \A t \in Slots : t # s => req'[t] = req[t]
    BY DEF RequestsOK
  <1>3. \A t \in Slots : t # s => req'[t].pc = "idle"
    BY <1>1, <1>2 DEF At
  <1> QED
    BY <1>2, <1>3 DEF AloneInv, At

LEMMA AnswerGoto ==
  ASSUME RequestsOK, NEW s \in Slots, NEW l,
         l # "update.save", Goto(s, l) \/ \E o : l = "done" /\ Answer(s, o)
  PROVE  \E r : r.pc = l /\ req' = [req EXCEPT ![s] = r]
  <1>d. DOMAIN req = Slots /\ DOMAIN req[s] = Fields
    BY DEF RequestsOK, Sound
  <1>1. CASE Goto(s, l)
    <2> DEFINE r == [req[s] EXCEPT !.pc = l]
    <2>1. req' = [req EXCEPT ![s] = r]
      BY <1>d, <1>1, Zenon DEF Goto
    <2>2. r.pc = l
      BY <1>d DEF Fields
    <2> QED
      BY <2>1, <2>2
  <1>2. ASSUME NEW o, l = "done", Answer(s, o)
        PROVE  \E r : r.pc = l /\ req' = [req EXCEPT ![s] = r]
    <2> DEFINE r == [req[s] EXCEPT !.pc = "done", !.out = o]
    <2>1. req' = [req EXCEPT ![s] = r]
      BY <1>d, <1>2, Zenon DEF Answer
    <2>2. r.pc = l
      BY <1>d, <1>2 DEF Fields
    <2> QED
      BY <2>1, <2>2
  <1> QED
    BY <1>1, <1>2

LEMMA BeginAlone ==
  ASSUME RequestsOK, AloneInv, NEW s \in Slots, Begin(s)
  PROVE  AloneInv'
  <1> SUFFICES ASSUME ~overlapped' PROVE AloneInv'
    BY DEF AloneInv
  <1>1. ~overlapped /\ \A t \in Slots : At(t, "idle")
    BY DEF Begin
  <1>2. told' = told /\ Live' = Live
    BY DEF Begin, Live
  <1>3. \E r : r.pc # "update.save" /\ req' = [req EXCEPT ![s] = r]
    BY DEF Begin, Idle
  <1>4. PICK r : r.pc # "update.save" /\ req' = [req EXCEPT ![s] = r]
    BY <1>3
  <1>5. req'[s] = r /\ \A t \in Slots : t # s => req'[t] = req[t]
    BY <1>4 DEF RequestsOK
  <1>6. \A t \in Slots : t # s => req'[t].pc = "idle"
    BY <1>1, <1>5 DEF At
  <1> QED
    BY <1>1, <1>2, <1>4, <1>5, <1>6 DEF AloneInv, At

LEMMA ServeAlone ==
  ASSUME RequestsOK, RowsOK, AloneInv, NEW s \in Slots, Serve(s) \/ Fail(s)
  PROVE  RowsOK' /\ AloneInv'
  <1>o. overlapped' = overlapped
    BY DEF Serve, AddInsert, ListUser, ListRead, AddOpen, UpdateGet, UpdateOpen,
           UpdateFind, UpdateSave, BulkUpdate, BulkRemove, Reply, Fail
  <1>i. ~At(s, "idle")
    BY DEF Serve, AddInsert, ListUser, ListRead, AddOpen, UpdateGet, UpdateOpen,
           UpdateFind, UpdateSave, BulkUpdate, BulkRemove, Reply, Fail, At
  <1>a. ~overlapped => told = {AsMark(x) : x \in Live}
    BY DEF AloneInv
  <1>d. DOMAIN req = Slots /\ DOMAIN req[s] = Fields
    BY DEF RequestsOK, Sound
  <1>r. ASSUME NEW r, r.pc # "update.save", req' = [req EXCEPT ![s] = r],
               told = {AsMark(x) : x \in Live} => told' = {AsMark(x) : x \in Live'}
        PROVE  AloneInv'
    BY <1>o, <1>i, <1>a, <1>r, AloneMoves
  <1>w. ASSUME \E o : Answer(s, o),
               told = {AsMark(x) : x \in Live} => told' = {AsMark(x) : x \in Live'}
        PROVE  AloneInv'
    <2>1. PICK r : r.pc = "done" /\ req' = [req EXCEPT ![s] = r]
      BY <1>w, AnswerGoto
    <2> QED
      BY <1>r, <1>w, <2>1
  <1>1. ASSUME AddInsert(s) PROVE RowsOK' /\ AloneInv'
    <2>1. \E o : Answer(s, o)
      BY <1>1 DEF AddInsert
    <2> QED
      BY <1>1, <1>w, <2>1, AddInsertRows
  <1>2. ASSUME BulkUpdate(s) PROVE RowsOK' /\ AloneInv'
    <2>1. \E o : Answer(s, o)
      BY <1>2 DEF BulkUpdate
    <2> QED
      BY <1>2, <1>w, <2>1, BulkUpdateRows
  <1>3. ASSUME BulkRemove(s) PROVE RowsOK' /\ AloneInv'
    <2>1. \E o : Answer(s, o)
      BY <1>3 DEF BulkRemove
    <2> QED
      BY <1>3, <1>w, <2>1, BulkRemoveRows
  <1>4. ASSUME UpdateSave(s) PROVE RowsOK' /\ AloneInv'
    <2>1. RowsOK' /\ (told = {AsMark(r) : r \in Live} /\ req[s].row \subseteq Live
                        => told' = {AsMark(r) : r \in Live'})
      BY <1>4, UpdateSaveRows
    <2>2. \E o : Answer(s, o)
      BY <1>4 DEF UpdateSave
    <2>3. PICK r : r.pc = "done" /\ req' = [req EXCEPT ![s] = r]
      BY <2>2, AnswerGoto
    <2>4. ~overlapped => req[s].row \subseteq Live
      BY <1>4 DEF AloneInv, UpdateSave
    <2> QED
      BY <1>a, <1>i, <1>o, <2>1, <2>3, <2>4, AloneMoves
  <1>5. ASSUME \/ Reply(s) \/ ListUser(s) \/ ListRead(s) \/ AddOpen(s) \/ UpdateGet(s)
               \/ UpdateOpen(s) \/ UpdateFind(s) \/ Fail(s)
        PROVE  RowsOK' /\ AloneInv'
    <2>1. UNCHANGED <<rows, told>>
      BY <1>5 DEF Reply, ListUser, ListRead, AddOpen, UpdateGet, UpdateOpen, UpdateFind, Fail
    <2>2. RowsOK' /\ Live' = Live
      BY <2>1 DEF RowsOK, Live
    <2>3. told = {AsMark(x) : x \in Live} => told' = {AsMark(x) : x \in Live'}
      BY <2>1, <2>2
    <2>4. CASE Reply(s)
      <3>1. req' = [req EXCEPT ![s] = Idle] /\ Idle.pc # "update.save"
        BY <2>4 DEF Reply, Idle
      <3> QED
        BY <1>r, <2>2, <2>3, <3>1
    <2>5. CASE ListRead(s)
      <3> DEFINE L == UNION {Merged(p, MarksOf(req[s].user)) : p \in Open(req[s].user)}
                 r == [req[s] EXCEPT !.pc = "done", !.out = "Ok", !.list = L]
      <3>1. req' = [req EXCEPT ![s].pc = "done", ![s].out = "Ok", ![s].list = L]
        BY <2>5 DEF ListRead
      <3> HIDE DEF L
      <3>2. req' = [req EXCEPT ![s] = r]
        BY <1>d, <3>1, Zenon
      <3>3. r.pc = "done"
        BY <1>d DEF Fields
      <3> HIDE DEF r
      <3> QED
        BY <1>r, <2>2, <2>3, <3>2, <3>3
    <2>6. CASE UpdateFind(s) /\ ~\E o : Answer(s, o)
      <3> DEFINE found == {x \in Chosen(s) : x.live}
                 r == [req[s] EXCEPT !.pc = "update.save", !.row = found]
      <3>1. req' = [req EXCEPT ![s].pc = "update.save", ![s].row = found]
        BY <2>6 DEF UpdateFind
      <3>2. found \subseteq Live
        BY DEF Chosen, Live
      <3> HIDE DEF found
      <3>3. req' = [req EXCEPT ![s] = r]
        BY <1>d, <3>1, Zenon
      <3>4. r.row = found
        BY <1>d DEF Fields
      <3> HIDE DEF r
      <3> QED
        BY <1>a, <1>i, <1>o, <2>2, <2>3, <3>2, <3>3, <3>4, AloneMoves
    <2>7. CASE \/ \E o : Answer(s, o)
               \/ \E l \in {"list.read", "add.insert", "update.open", "update.find"} :
                    Goto(s, l)
      <3>1. PICK r : r.pc # "update.save" /\ req' = [req EXCEPT ![s] = r]
        <4>1. PICK l : l # "update.save" /\ (Goto(s, l) \/ \E o : l = "done" /\ Answer(s, o))
          BY <2>7
        <4> QED
          BY <4>1, AnswerGoto
      <3> QED
        BY <1>r, <2>2, <2>3, <3>1
    <2>8. \/ Reply(s) \/ ListRead(s) \/ (UpdateFind(s) /\ ~\E o : Answer(s, o))
          \/ \E o : Answer(s, o)
          \/ \E l \in {"list.read", "add.insert", "update.open", "update.find"} : Goto(s, l)
      BY <1>5 DEF ListUser, AddOpen, UpdateGet, UpdateOpen, UpdateFind, Fail
    <2> QED
      BY <2>4, <2>5, <2>6, <2>7, <2>8
  <1> QED
    BY <1>1, <1>2, <1>3, <1>4, <1>5 DEF Serve

-----------------------------------------------------------------------------
LEMMA InitIInv == Init => IInv
  <1> SUFFICES ASSUME Init PROVE IInv
    OBVIOUS
  <1>1. /\ rows = {} /\ told = {} /\ req = [s \in Slots |-> Idle] /\ ops = 0
        /\ overlapped = FALSE
    BY DEF Init
  <1>2. \A s \in Slots : Sound(req[s], Ids, ops) /\ req[s].pc = "idle"
    BY <1>1, IdleSound DEF Idle
  <1>3. RequestsOK
    BY <1>1, <1>2 DEF RequestsOK, Ids, At
  <1>4. RowsOK /\ AloneInv
    BY <1>1, <1>2 DEF RowsOK, AloneInv, Live, At
  <1> QED
    BY <1>3, <1>4 DEF IInv

LEMMA NextIInv == IInv /\ [Next]_vars => IInv'
  <1> SUFFICES ASSUME IInv, [Next]_vars PROVE IInv'
    OBVIOUS
  <1> USE DEF IInv
  <1>1. ASSUME NEW s \in Slots, Begin(s) PROVE IInv'
    <2>1. RowsOK'
      BY <1>1 DEF Begin, RowsOK, Live
    <2> QED
      BY <1>1, <2>1, BeginMoves, BeginAlone
  <1>2. ASSUME NEW s \in Slots, Serve(s) \/ Fail(s) PROVE IInv'
    <2>1. RequestsOK'
      BY <1>2, ReadMoves, AddInsertMoves, UpdateSaveMoves, BulkMoves DEF Serve
    <2> QED
      BY <1>2, <2>1, ServeAlone
  <1>3. CASE CreateProxy \/ Change \/ UNCHANGED vars
    <2>1. UNCHANGED <<rows, req, told, overlapped, ops>>
      BY <1>3 DEF CreateProxy, Change, Untouched, vars
    <2> QED
      BY <2>1 DEF RequestsOK, RowsOK, AloneInv, Ids, Live, At
  <1> QED
    BY <1>1, <1>2, <1>3 DEF Next

LEMMA Invariance == Spec => []IInv
  <1> QED
    BY InitIInv, NextIInv, PTL DEF Spec

(* Under any interleaving of requests, faults and changes around them, a   *)
(* list of marks is in the table as a whole once it was accepted, and has  *)
(* left no row when it was refused or hit by a fault                       *)
(* (favorites-pg.repository.ts, addBulk).                                  *)
THEOREM ListsAreWhole == Spec => []AllOrNothing
  <1>1. IInv => AllOrNothing
    <2> SUFFICES ASSUME IInv, NEW s \in Slots, At(s, "done"), req[s].models # <<>>
                 PROVE  {m \in NewMarks(req[s]) : \E r \in rows : Id(r) = Id(m)}
                          = IF req[s].out = "Ok" THEN NewMarks(req[s]) ELSE {}
      BY DEF AllOrNothing
    <2>1. Whole(req[s], Ids)
      BY DEF IInv, RequestsOK, Sound, At
    <2>2. \A m \in NewMarks(req[s]) : (\E r \in rows : Id(r) = Id(m)) <=> Id(m) \in Ids
      BY DEF Ids
    <2>3. {m \in NewMarks(req[s]) : \E r \in rows : Id(r) = Id(m)}
            = {m \in NewMarks(req[s]) : Id(m) \in Ids}
      BY <2>2
    <2>4. {m \in NewMarks(req[s]) : Id(m) \in Ids}
            = IF req[s].out = "Ok" THEN NewMarks(req[s]) ELSE {}
      BY <2>1 DEF Whole
    <2> QED
      BY <2>3, <2>4
  <1> QED
    BY <1>1, Invariance, PTL

(* As long as no two requests overlapped, a mark that was removed stays    *)
(* removed (favorites-pg.repository.ts): the row an update saves over is   *)
(* the live one it has loaded.                                             *)
THEOREM RemovalsStay == Spec => StaysRemoved
  <1> DEFINE Kept == ~overlapped => \A r \in rows : ~r.live =>
                       \A q \in rows' : Id(q) = Id(r) => ~q.live
  <1>1. ASSUME IInv, [Next]_vars
        PROVE  Kept
    <2> SUFFICES ASSUME ~overlapped, NEW r \in rows, ~r.live, NEW q \in rows', Id(q) = Id(r)
                 PROVE  ~q.live
      OBVIOUS
    <2>r. \A x, y \in rows : Id(x) = Id(y) => x = y
      BY <1>1 DEF IInv, RowsOK
    <2>1. CASE q \in rows
      BY <2>1, <2>r
    <2>2. ASSUME NEW s \in Slots, AddInsert(s), q \notin rows
          PROVE  FALSE
      <3>1. PICK m \in NewMarks(req[s]) : q = Stored(m)
        BY <2>2 DEF AddInsert
      <3>2. Id(q).op = req[s].op
        BY <3>1, StoredIs, NamesOfMarks
      <3>3. \A i \in Ids : i.op # req[s].op
        BY <1>1, <2>2 DEF IInv, RequestsOK, Sound, AddInsert, At, Adding
      <3> QED
        BY <3>2, <3>3 DEF Ids
    <2>3. ASSUME NEW s \in Slots, BulkUpdate(s), q \notin rows
          PROVE  ~q.live
      <3>1. PICK x \in Chosen(s) : q = [x EXCEPT !.kind = req[s].kind]
        BY <2>3 DEF BulkUpdate
      <3>2. IsRow(x) /\ x \in rows
        BY <1>1 DEF Chosen, IInv, RowsOK
      <3>3. Id(q) = Id(x) /\ q.live = x.live
        BY <3>1, <3>2, RewriteKind
      <3> QED
        BY <2>r, <3>2, <3>3
    <2>4. ASSUME NEW s \in Slots, BulkRemove(s), q \notin rows
          PROVE  ~q.live
      <3>1. PICK x \in Chosen(s) : q = [x EXCEPT !.live = FALSE]
        BY <2>4 DEF BulkRemove
      <3>2. IsRow(x)
        BY <1>1 DEF Chosen, IInv, RowsOK
      <3> QED
        BY <3>1, <3>2, RewriteLive
    <2>5. ASSUME NEW s \in Slots, UpdateSave(s), q \notin rows
          PROVE  ~q.live
      <3>1. PICK x \in req[s].row : q = [x EXCEPT !.kind = req[s].kind]
        BY <2>5 DEF UpdateSave
      <3>2. IsRow(x)
        BY <1>1, <2>5, LoadedRow DEF IInv, UpdateSave
      <3>3. x \in rows
        BY <1>1, <2>5 DEF IInv, AloneInv, UpdateSave, Live
      <3>4. Id(q) = Id(x) /\ q.live = x.live
        BY <3>1, <3>2, RewriteKind
      <3> QED
        BY <2>r, <3>3, <3>4
    <2>6. \/ rows' = rows
          \/ \E s \in Slots : AddInsert(s) \/ BulkUpdate(s) \/ BulkRemove(s) \/ UpdateSave(s)
      BY <1>1 DEF Next, Begin, Serve, Reply, ListUser, ListRead, AddOpen, UpdateGet,
                  UpdateOpen, UpdateFind, Fail, CreateProxy, Change, Untouched, vars
    <2> QED
      BY <2>1, <2>2, <2>3, <2>4, <2>5, <2>6
  <1>2. IInv /\ [Next]_vars => [Kept]_vars
    BY <1>1
  <1> QED
    BY <1>2, Invariance, PTL DEF Spec, StaysRemoved

-----------------------------------------------------------------------------
(* What a list shows.                                                      *)

LEMMA OneSlotMoves ==
  ASSUME NEW t \in Slots, Begin(t) \/ Serve(t) \/ Fail(t), DOMAIN req = Slots
  PROVE  \A s \in Slots : s # t => req'[s] = req[s]
  <1> SUFFICES ASSUME NEW s \in Slots, s # t PROVE req'[s] = req[s]
    OBVIOUS
  <1>1. CASE Begin(t)
    BY <1>1 DEF Begin
  <1>2. CASE \E o : Answer(t, o) \/ Goto(t, o)
    BY <1>2 DEF Answer, Goto
  <1>3. CASE Reply(t)
    BY <1>3 DEF Reply
  <1>4. CASE ListRead(t)
    BY <1>4 DEF ListRead
  <1>5. CASE UpdateFind(t)
    BY <1>5 DEF UpdateFind, Answer
  <1>6. CASE \/ ListUser(t) \/ AddOpen(t) \/ AddInsert(t) \/ UpdateGet(t) \/ UpdateOpen(t)
             \/ UpdateSave(t) \/ BulkUpdate(t) \/ BulkRemove(t) \/ Fail(t)
    BY <1>2, <1>6 DEF ListUser, AddOpen, AddInsert, UpdateGet, UpdateOpen, UpdateSave,
                      BulkUpdate, BulkRemove, Fail
  <1> QED
    BY <1>1, <1>3, <1>4, <1>5, <1>6 DEF Serve

(* A proxy is shown once: it has one live row at most.                     *)
LEMMA MergedOnce ==
  ASSUME RowsOK, NEW u, NEW p
  PROVE  \E i : Merged(p, MarksOf(u)) = {i} /\ i.proxy = p
  <1>1. CASE \E r \in MarksOf(u) : r.proxy = p
    <2>1. PICK r \in MarksOf(u) : r.proxy = p
      BY <1>1
    <2>2. \A x \in MarksOf(u) : x.proxy = p => x = r
      BY <2>1 DEF MarksOf, RowsOK
    <2>3. {x \in MarksOf(u) : x.proxy = p} = {r}
      BY <2>1, <2>2
    <2> DEFINE i == [proxy |-> p, kind |-> r.kind]
    <2>4. Merged(p, MarksOf(u)) = {i} /\ i.proxy = p
      BY <1>1, <2>3 DEF Merged
    <2> HIDE DEF i
    <2> QED
      BY <2>4
  <1>2. CASE ~\E r \in MarksOf(u) : r.proxy = p
    <2> DEFINE i == [proxy |-> p, kind |-> Other]
    <2>1. Merged(p, MarksOf(u)) = {i} /\ i.proxy = p
      BY <1>2 DEF Merged
    <2> HIDE DEF i
    <2> QED
      BY <2>1
  <1> QED
    BY <1>1, <1>2

LEMMA MergedShows ==
  ASSUME RowsOK, NEW u, NEW list, list = UNION {Merged(p, MarksOf(u)) : p \in Open(u)}
  PROVE  /\ \A p \in Open(u) : Cardinality({i \in list : i.proxy = p}) = 1
         /\ \A r \in MarksOf(u) : r.proxy \in Open(u) =>
              [proxy |-> r.proxy, kind |-> r.kind] \in list
         /\ \A i \in list : i.kind # Other =>
              \E r \in MarksOf(u) : r.proxy = i.proxy /\ r.kind = i.kind
  <1>1. ASSUME NEW p \in Open(u)
        PROVE  Cardinality({i \in list : i.proxy = p}) = 1
    <2>1. PICK i : Merged(p, MarksOf(u)) = {i} /\ i.proxy = p
      BY MergedOnce
    <2>2. i \in list
      BY <2>1
    <2>3. ASSUME NEW j \in list, j.proxy = p
          PROVE  j = i
      <3>1. PICK q \in Open(u) : j \in Merged(q, MarksOf(u))
        OBVIOUS
      <3>2. j.proxy = q
        BY <3>1, MergedOnce
      <3> QED
        BY <2>1, <2>3, <3>1, <3>2
    <2>4. {j \in list : j.proxy = p} = {i}
      BY <2>1, <2>2, <2>3
    <2> QED
      BY <2>4, FS_Singleton
  <1>2. ASSUME NEW r \in MarksOf(u), r.proxy \in Open(u)
        PROVE  [proxy |-> r.proxy, kind |-> r.kind] \in list
    <2>1. [proxy |-> r.proxy, kind |-> r.kind] \in Merged(r.proxy, MarksOf(u))
      BY DEF Merged
    <2> QED
      BY <1>2, <2>1
  <1>3. ASSUME NEW i \in list, i.kind # Other
        PROVE  \E r \in MarksOf(u) : r.proxy = i.proxy /\ r.kind = i.kind
    <2>1. PICK p \in Open(u) : i \in Merged(p, MarksOf(u))
      OBVIOUS
    <2> QED
      BY <1>3, <2>1 DEF Merged
  <1> QED
    BY <1>1, <1>2, <1>3

(* As long as no two requests overlapped, whatever changes around them, a  *)
(* list shows each proxy that is open to the user once, with the mark the  *)
(* answers so far have told of (favorites-aggregate.repository.ts,         *)
(* getAll).                                                                *)
THEOREM ListsAreTrue == Spec => ListShowsTold
  <1> DEFINE Shows(s) ==
        ~overlapped /\ At(s, "list.read") /\ req'[s].out = "Ok" =>
          /\ \A p \in Open(req[s].user) :
               Cardinality({i \in req'[s].list : i.proxy = p}) = 1
          /\ \A m \in told : m.user = req[s].user /\ m.proxy \in Open(req[s].user) =>
               [proxy |-> m.proxy, kind |-> m.kind] \in req'[s].list
          /\ \A i \in req'[s].list : i.kind # Other =>
               \E m \in told : m.user = req[s].user /\ m.proxy = i.proxy /\ m.kind = i.kind
  <1>1. ASSUME IInv, [Next]_vars, NEW s \in Slots
        PROVE  Shows(s)
    <2> SUFFICES ASSUME ~overlapped, At(s, "list.read"), req'[s].out = "Ok"
                 PROVE  Shows(s)
      OBVIOUS
    <2> DEFINE u == req[s].user
               list == req'[s].list
    <2>d. DOMAIN req = Slots /\ DOMAIN req[s] = Fields /\ req[s].out = "none"
      BY <1>1 DEF IInv, RequestsOK, Sound, At
    <2>1. ListRead(s)
      <3>1. req'[s] # req[s]
        BY <2>d
      <3>2. \A t \in Slots : t # s => ~(Begin(t) \/ Serve(t) \/ Fail(t))
        BY <2>d, <3>1, OneSlotMoves
      <3>3. ~(CreateProxy \/ Change \/ UNCHANGED vars)
        BY <3>1 DEF CreateProxy, Change, Untouched, vars
      <3>4. ~(Begin(s) \/ AddInsert(s) \/ ListUser(s) \/ AddOpen(s) \/ UpdateGet(s)
                \/ UpdateOpen(s) \/ UpdateFind(s) \/ UpdateSave(s) \/ BulkUpdate(s)
                \/ BulkRemove(s) \/ Reply(s))
        BY DEF Begin, AddInsert, ListUser, AddOpen, UpdateGet, UpdateOpen, UpdateFind,
               UpdateSave, BulkUpdate, BulkRemove, Reply, At
      <3>5. ~Fail(s)
        BY <2>d DEF Fail, Answer, Fields
      <3> QED
        BY <1>1, <3>2, <3>3, <3>4, <3>5 DEF Next, Serve
    <2>2. list = UNION {Merged(p, MarksOf(u)) : p \in Open(u)}
      BY <2>1, <2>d DEF ListRead, Fields
    <2>3. told = {AsMark(r) : r \in Live}
      BY <1>1 DEF IInv, AloneInv
    <2>4. /\ \A p \in Open(u) : Cardinality({i \in list : i.proxy = p}) = 1
          /\ \A r \in MarksOf(u) : r.proxy \in Open(u) =>
               [proxy |-> r.proxy, kind |-> r.kind] \in list
          /\ \A i \in list : i.kind # Other =>
               \E r \in MarksOf(u) : r.proxy = i.proxy /\ r.kind = i.kind
      BY <1>1, <2>2, MergedShows DEF IInv
    <2> HIDE DEF list
    <2>5. ASSUME NEW m \in told, m.user = u, m.proxy \in Open(u)
          PROVE  [proxy |-> m.proxy, kind |-> m.kind] \in list
      <3>1. PICK r \in Live : m = AsMark(r)
        BY <2>3
      <3>2. m.proxy = r.proxy /\ m.kind = r.kind /\ r \in MarksOf(u)
        BY <2>5, <3>1 DEF AsMark, MarksOf, Open
      <3> QED
        BY <2>4, <2>5, <3>2
    <2>6. ASSUME NEW i \in list, i.kind # Other
          PROVE  \E m \in told : m.user = u /\ m.proxy = i.proxy /\ m.kind = i.kind
      <3>1. PICK r \in MarksOf(u) : r.proxy = i.proxy /\ r.kind = i.kind
        BY <2>4, <2>6
      <3>2. AsMark(r) \in told /\ AsMark(r).user = u
        BY <2>3 DEF MarksOf, AsMark
      <3>3. AsMark(r).proxy = i.proxy /\ AsMark(r).kind = i.kind
        BY <3>1 DEF AsMark
      <3> QED
        BY <3>2, <3>3
    <2> QED
      BY <2>4, <2>5, <2>6 DEF list
  <1>2. IInv /\ [Next]_vars => [\A s \in Slots : Shows(s)]_vars
    BY <1>1
  <1> QED
    BY <1>2, Invariance, PTL DEF Spec, ListShowsTold
=============================================================================
