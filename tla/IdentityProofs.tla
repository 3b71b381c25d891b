---------------------------- MODULE IdentityProofs ----------------------------
(***************************************************************************)
(* Proofs about identities: types, that the key of an accepted upload is   *)
(* never lost by its move, that requests served one at a time implement    *)
(* the registry, and that their answers say what the stores hold, each for *)
(* any number of requests, failing calls and crashes.                      *)
(*                                                                         *)
(* The move is a copy and an unlink, so a creation must own its upload     *)
(* (Numbers: no other request has its number) and may unlink it only once  *)
(* the key is in the store.  A creation that is rolled back becomes a      *)
(* removal and takes its identity from the row it finds by the id it kept, *)
(* so that also has to be the row of this identity: rows with one id are   *)
(* of one identity, and the number of a creation is on no row until it has *)
(* inserted its own.                                                       *)
(*                                                                         *)
(* For the registry, AloneInv says that the parts of a removal run while   *)
(* its request waits for them and nobody else is served, so that the       *)
(* identity found free is still free when its row and its key go; and that *)
(* what an `up` has picked is still known and free when it connects.       *)
(*                                                                         *)
(* For the answers, StageInv says of every place in a handler what it has  *)
(* found or put in the stores when nobody else was served since it began,  *)
(* and of every answer what it promises (DoneOK).  A creation that is      *)
(* refused still has everything when its removal begins, so this takes the *)
(* way that removes everything (RefusedOK); without faults every identity  *)
(* but the one being changed is in all stores or in none (SyncOK).         *)
(***************************************************************************)
EXTENDS MystIdentity, TLAPS

Fields == {"pc", "kind", "op", "content", "locked", "password", "ident", "id", "row",
           "target", "path", "failed", "why", "clean", "out"}
RowFields == {"id", "identity", "password", "live"}

Uploaded == {"add.look", "add.parse", "add.mkdir", "add.copy", "add.unlink"}
NotInserted == Uploaded \cup {"add.row", "add.insert"}

Key(store, i) == i \in Identity /\ store[i] # NoPassword

(* What is known of a request r when the uploads, the store of keys, the   *)
(* erased identities and the table are up, store, gone and table.          *)
KeyOK(r, up, store, gone, table) ==
  /\ r.pc \in NotInserted =>
       /\ r.kind = "add" /\ r.op # 0 /\ r.id = 0
       /\ r.locked \in Password /\ r.content \in Identity \cup {NoIdentity}
       /\ \A x \in table : x.id # r.op
  /\ r.pc = "up.pick" => r.kind = "up"
  /\ r.kind = "add" =>
       /\ r.pc \in Uploaded => r.op \in up
       /\ r.pc \in {"add.mkdir", "add.copy", "add.unlink"} => r.ident \in Identity
       /\ r.pc = "add.unlink" => r.ident \in gone \/ Key(store, r.ident)
       /\ r.ident = NoIdentity \/ r.ident \in gone \/ r.op \in up \/ Key(store, r.ident)
       /\ r.id # 0 => \E x \in table : x.id = r.id
       /\ \A x \in table : x.id = r.id => x.identity = r.ident

Shaped ==
  /\ DOMAIN req = Slots /\ \A s \in Slots : DOMAIN req[s] = Fields
  /\ \A x \in rows : DOMAIN x = RowFields
  /\ DOMAIN keys = Identity

Numbers ==
  /\ ops \in Nat
  /\ \A s \in Slots : req[s].op \in 0 .. ops
  /\ \A s, t \in Slots : req[s].op = req[t].op => s = t \/ req[s].op = 0
  /\ \A x \in rows : x.id \in 1 .. ops
  /\ \A x, y \in rows : x.id = y.id => x.identity = y.identity

RequestsOK == \A s \in Slots : KeyOK(req[s], uploads, keys, erased, rows)

IInv == Shaped /\ Numbers /\ RequestsOK

-----------------------------------------------------------------------------
LEMMA IdleOK ==
  ASSUME NEW up, NEW store, NEW gone, NEW table, \A x \in table : x.id # 0
  PROVE  DOMAIN Idle = Fields /\ Idle.op = 0 /\ KeyOK(Idle, up, store, gone, table)
  BY DEF Idle, Fields, KeyOK, NotInserted, Uploaded

LEMMA InitInv == Init => IInv
  <1> SUFFICES ASSUME Init PROVE IInv
    OBVIOUS
  <1>1. /\ req = [s \in Slots |-> Idle] /\ rows = {} /\ ops = 0
        /\ keys = [i \in Identity |-> NoPassword]
    BY DEF Init
  <1> QED
    BY <1>1, IdleOK DEF IInv, Shaped, Numbers, RequestsOK

(* Steps that put a request into a slot and leave the stores alone.        *)
LEMMA PutRequest ==
  ASSUME IInv, NEW s \in Slots, NEW r, DOMAIN r = Fields,
         r.op = req[s].op \/ r.op = 0,
         KeyOK(r, uploads, keys, erased, rows),
         req' = [req EXCEPT ![s] = r],
         UNCHANGED <<uploads, keys, erased, rows, ops>>
  PROVE  IInv'
  <1>1. DOMAIN req = Slots /\ req'[s] = r /\ \A t \in Slots \ {s} : req'[t] = req[t]
    BY DEF IInv, Shaped
  <1>2. Shaped'
    BY <1>1 DEF IInv, Shaped
  <1>3. Numbers'
    BY <1>1 DEF IInv, Numbers
  <1>4. RequestsOK'
    BY <1>1 DEF IInv, RequestsOK
  <1> QED
    BY <1>2, <1>3, <1>4 DEF IInv

Same(r, q) == r.kind = q.kind /\ r.op = q.op /\ r.ident = q.ident /\ r.id = q.id

(* Once the row is there, or the request is over, a request only has to    *)
(* keep what it is about.                                                  *)
LEMMA Later ==
  ASSUME IInv, NEW s \in Slots, NEW r, DOMAIN r = Fields,
         Same(r, req[s]), r.pc \notin NotInserted \cup {"up.pick"},
         req' = [req EXCEPT ![s] = r],
         UNCHANGED <<uploads, keys, erased, rows, ops>>
  PROVE  IInv'
  <1>1. KeyOK(req[s], uploads, keys, erased, rows)
    BY DEF IInv, RequestsOK
  <1>2. KeyOK(r, uploads, keys, erased, rows)
    BY <1>1 DEF KeyOK, Same, NotInserted, Uploaded
  <1> QED
    BY <1>2, PutRequest DEF Same

LEMMA GotoLater ==
  ASSUME IInv, NEW s \in Slots, NEW l, Goto(s, l), l \notin NotInserted \cup {"up.pick"},
         UNCHANGED <<uploads, keys, erased, rows, ops>>
  PROVE  IInv'
  <1> DEFINE r == [req[s] EXCEPT !.pc = l]
  <1>1. DOMAIN req[s] = Fields
    BY DEF IInv, Shaped
  <1>2. req' = [req EXCEPT ![s] = r]
    BY DEF Goto
  <1>3. DOMAIN r = Fields /\ Same(r, req[s]) /\ r.pc = l
    BY <1>1 DEF Same, Fields
  <1> HIDE DEF r
  <1> QED
    BY <1>2, <1>3, Later

LEMMA AnswerLater ==
  ASSUME IInv, NEW s \in Slots, NEW o, Answer(s, o),
         UNCHANGED <<uploads, keys, erased, rows, ops>>
  PROVE  IInv'
  <1> DEFINE r == [req[s] EXCEPT !.pc = "done", !.out = o]
  <1>1. DOMAIN req[s] = Fields /\ DOMAIN req = Slots
    BY DEF IInv, Shaped
  <1>2. req' = [req EXCEPT ![s] = r]
    BY <1>1, Zenon DEF Answer
  <1>3. DOMAIN r = Fields /\ Same(r, req[s]) /\ r.pc = "done"
    BY <1>1 DEF Same, Fields
  <1> HIDE DEF r
  <1> QED
    BY <1>2, <1>3, Later DEF NotInserted, Uploaded

LEMMA RollbackLater ==
  ASSUME IInv, NEW s \in Slots, NEW o, Rollback(s, o),
         UNCHANGED <<uploads, keys, erased, rows, ops>>
  PROVE  IInv'
  <1> DEFINE r == [req[s] EXCEPT !.pc = "remove.row", !.why = o]
  <1>1. DOMAIN req[s] = Fields /\ DOMAIN req = Slots
    BY DEF IInv, Shaped
  <1>2. req' = [req EXCEPT ![s] = r]
    BY <1>1, Zenon DEF Rollback
  <1>3. DOMAIN r = Fields /\ Same(r, req[s]) /\ r.pc = "remove.row"
    BY <1>1 DEF Same, Fields
  <1> HIDE DEF r
  <1> QED
    BY <1>2, <1>3, Later DEF NotInserted, Uploaded

(* Two more fields beside the place in the handler may be set on the way.  *)
LEMMA TargetLater ==
  ASSUME IInv, NEW s \in Slots, NEW l, NEW n, l \notin NotInserted \cup {"up.pick"},
         req' = [req EXCEPT ![s].pc = l, ![s].target = n],
         UNCHANGED <<uploads, keys, erased, rows, ops>>
  PROVE  IInv'
  <1> DEFINE r == [req[s] EXCEPT !.pc = l, !.target = n]
  <1>1. DOMAIN req[s] = Fields /\ DOMAIN req = Slots
    BY DEF IInv, Shaped
  <1>2. req' = [req EXCEPT ![s] = r]
    BY <1>1, Zenon
  <1>3. DOMAIN r = Fields /\ Same(r, req[s]) /\ r.pc = l
    BY <1>1 DEF Same, Fields
  <1> HIDE DEF r
  <1> QED
    BY <1>2, <1>3, Later

(* The same for a single field.                                            *)
LEMMA FieldLater ==
  ASSUME IInv, NEW s \in Slots, NEW l, NEW v, l \notin NotInserted \cup {"up.pick"},
         \/ req' = [req EXCEPT ![s].pc = l, ![s].failed = v]
         \/ req' = [req EXCEPT ![s].pc = l, ![s].path = v],
         UNCHANGED <<uploads, keys, erased, rows, ops>>
  PROVE  IInv'
  <1>1. DOMAIN req[s] = Fields /\ DOMAIN req = Slots
    BY DEF IInv, Shaped
  <1>2. CASE req' = [req EXCEPT ![s].pc = l, ![s].failed = v]
    <2> DEFINE r == [req[s] EXCEPT !.pc = l, !.failed = v]
    <2>1. req' = [req EXCEPT ![s] = r]
      BY <1>1, <1>2, Zenon
    <2>2. DOMAIN r = Fields /\ Same(r, req[s]) /\ r.pc = l
      BY <1>1 DEF Same, Fields
    <2> HIDE DEF r
    <2> QED
      BY <2>1, <2>2, Later
  <1>3. CASE req' = [req EXCEPT ![s].pc = l, ![s].path = v]
    <2> DEFINE r == [req[s] EXCEPT !.pc = l, !.path = v]
    <2>1. req' = [req EXCEPT ![s] = r]
      BY <1>1, <1>3, Zenon
    <2>2. DOMAIN r = Fields /\ Same(r, req[s]) /\ r.pc = l
      BY <1>1 DEF Same, Fields
    <2> HIDE DEF r
    <2> QED
      BY <2>1, <2>2, Later
  <1> QED
    BY <1>2, <1>3

-----------------------------------------------------------------------------
(* The key file.                                                           *)

(* A step that stays before the insertion of the row.                      *)
LEMMA GotoBefore ==
  ASSUME IInv, NEW s \in Slots, NEW l, Goto(s, l),
         req[s].pc \in NotInserted, l \in NotInserted \ {"add.unlink"},
         l \in Uploaded => req[s].pc \in Uploaded,
         l \in {"add.mkdir", "add.copy"} => req[s].ident \in Identity,
         UNCHANGED <<uploads, keys, erased, rows, ops>>
  PROVE  IInv'
  <1> DEFINE r == [req[s] EXCEPT !.pc = l]
  <1>1. DOMAIN req[s] = Fields
    BY DEF IInv, Shaped
  <1>2. req' = [req EXCEPT ![s] = r]
    BY DEF Goto
  <1>3. /\ DOMAIN r = Fields /\ Same(r, req[s]) /\ r.pc = l
        /\ r.locked = req[s].locked /\ r.content = req[s].content
    BY <1>1 DEF Same, Fields
  <1>4. KeyOK(req[s], uploads, keys, erased, rows)
    BY DEF IInv, RequestsOK
  <1> HIDE DEF r
  <1>5. KeyOK(r, uploads, keys, erased, rows)
    BY <1>3, <1>4 DEF KeyOK, Same, NotInserted, Uploaded
  <1> QED
    BY <1>2, <1>3, <1>5, PutRequest DEF Same

LEMMA AddLookStep == ASSUME IInv, NEW s \in Slots, AddLook(s) PROVE IInv'
  <1>1. UNCHANGED <<uploads, keys, erased, rows, ops>> /\ req[s].pc = "add.look"
    BY DEF AddLook, stores, At
  <1>2. CASE Answer(s, "Exist")
    BY <1>1, <1>2, AnswerLater
  <1>3. CASE Goto(s, "add.parse")
    BY <1>1, <1>3, GotoBefore DEF NotInserted, Uploaded
  <1> QED
    BY <1>2, <1>3 DEF AddLook

(* No row has the id 0 of a creation that has not inserted its own yet.    *)
LEMMA ReadKeyStep == ASSUME IInv, NEW s \in Slots, ReadKey(s) PROVE IInv'
  <1>1. UNCHANGED <<uploads, keys, erased, rows, ops>> /\ req[s].pc = "add.parse"
    BY DEF ReadKey, stores, At
  <1>2. CASE Answer(s, "BadKey")
    BY <1>1, <1>2, AnswerLater
  <1>3. CASE /\ req[s].content # NoIdentity
             /\ req' = [req EXCEPT ![s].pc = "add.mkdir", ![s].ident = req[s].content]
    <2> DEFINE i == req[s].content
               r == [req[s] EXCEPT !.pc = "add.mkdir", !.ident = i]
    <2>1. DOMAIN req[s] = Fields /\ DOMAIN req = Slots
      BY DEF IInv, Shaped
    <2>2. req' = [req EXCEPT ![s] = r]
      BY <1>3, <2>1, Zenon
    <2>3. /\ DOMAIN r = Fields /\ r.pc = "add.mkdir" /\ r.ident = i
          /\ r.kind = req[s].kind /\ r.op = req[s].op /\ r.id = req[s].id
          /\ r.locked = req[s].locked /\ r.content = i
      BY <2>1 DEF Fields
    <2>4. KeyOK(req[s], uploads, keys, erased, rows)
      BY DEF IInv, RequestsOK
    <2>5. \A x \in rows : x.id # 0
      BY DEF IInv, Numbers
    <2> HIDE DEF r
    <2>6. KeyOK(r, uploads, keys, erased, rows)
      BY <1>1, <1>3, <2>3, <2>4, <2>5 DEF KeyOK, NotInserted, Uploaded
    <2> QED
      BY <1>1, <2>2, <2>3, <2>6, PutRequest
  <1> QED
    BY <1>2, <1>3 DEF ReadKey

LEMMA MakeDirStep == ASSUME IInv, NEW s \in Slots, MakeDir(s) PROVE IInv'
  <1>1. UNCHANGED <<uploads, keys, erased, rows, ops>> /\ req[s].pc = "add.mkdir"
    BY DEF MakeDir, At
  <1>2. req[s].pc \in NotInserted /\ req[s].pc \in Uploaded /\ req[s].ident \in Identity
    <2>1. req[s].pc \in NotInserted /\ req[s].pc \in Uploaded
      BY <1>1 DEF NotInserted, Uploaded
    <2> QED
      BY <1>1, <2>1 DEF IInv, RequestsOK, KeyOK
  <1>3. "add.copy" \in NotInserted \ {"add.unlink"}
    BY DEF NotInserted, Uploaded
  <1> QED
    BY <1>1, <1>2, <1>3, GotoBefore DEF MakeDir

(* The copy only adds to the store, and is what the unlink waits for.      *)
LEMMA CopyKeyStep == ASSUME IInv, NEW s \in Slots, CopyKey(s) PROVE IInv'
  <1> DEFINE i == req[s].ident
             r == [req[s] EXCEPT !.pc = "add.unlink"]
  <1>1. UNCHANGED <<uploads, erased, rows, ops>> /\ req[s].pc = "add.copy"
    BY DEF CopyKey, At
  <1>2. CASE Answer(s, "Repository") /\ UNCHANGED keys
    BY <1>1, <1>2, AnswerLater
  <1>3. CASE keys' = [keys EXCEPT ![i] = req[s].locked] /\ Goto(s, "add.unlink")
    <2>1. DOMAIN req[s] = Fields /\ DOMAIN req = Slots /\ DOMAIN keys = Identity
      BY DEF IInv, Shaped
    <2>2. \A t \in Slots : KeyOK(req[t], uploads, keys, erased, rows)
      BY DEF IInv, RequestsOK
    <2>3. i \in Identity /\ req[s].locked \in Password /\ req[s].kind = "add"
      BY <1>1, <2>2 DEF KeyOK, NotInserted, Uploaded
    <2>4. keys'[i] # NoPassword
      BY <1>3, <2>1, <2>3, NoneAssumption
    <2>5. \A j : Key(keys, j) => Key(keys', j)
      BY <1>3, <2>1, <2>3, NoneAssumption DEF Key
    <2>6. req' = [req EXCEPT ![s] = r]
      BY <1>3 DEF Goto
    <2>7. /\ DOMAIN r = Fields /\ r.pc = "add.unlink" /\ Same(r, req[s])
          /\ r.locked = req[s].locked /\ r.content = req[s].content
      BY <2>1 DEF Fields, Same
    <2> HIDE DEF r
    <2>8. req'[s] = r /\ \A t \in Slots \ {s} : req'[t] = req[t]
      BY <2>1, <2>6
    <2>9. KeyOK(req[s], uploads, keys, erased, rows)
      BY <2>2
    <2>10. KeyOK(r, uploads', keys', erased', rows')
      BY <1>1, <2>3, <2>4, <2>7, <2>9 DEF KeyOK, Key, Same, NotInserted, Uploaded
    <2>11. ASSUME NEW t \in Slots \ {s} PROVE KeyOK(req[t], uploads', keys', erased', rows')
      <3>1. KeyOK(req[t], uploads, keys, erased, rows)
        BY <2>2
      <3> QED
        BY <1>1, <2>5, <3>1 DEF KeyOK
    <2>12. RequestsOK'
      BY <2>8, <2>10, <2>11 DEF RequestsOK
    <2>13. Shaped'
      BY <1>1, <1>3, <2>1, <2>6, <2>7, <2>8 DEF IInv, Shaped
    <2>14. Numbers'
      BY <1>1, <2>7, <2>8 DEF IInv, Numbers, Same
    <2> QED
      BY <2>12, <2>13, <2>14 DEF IInv
  <1> QED
    BY <1>2, <1>3 DEF CopyKey

(* The upload that goes is the request's own, and its key is in the store. *)
LEMMA UnlinkUploadStep == ASSUME IInv, NEW s \in Slots, UnlinkUpload(s) PROVE IInv'
  <1> DEFINE r == [req[s] EXCEPT !.pc = "add.row"]
  <1>1. /\ UNCHANGED <<keys, erased, rows, ops>> /\ req[s].pc = "add.unlink"
        /\ uploads' = uploads \ {req[s].op} /\ Goto(s, "add.row")
    BY DEF UnlinkUpload, At
  <1>2. DOMAIN req[s] = Fields /\ DOMAIN req = Slots
    BY DEF IInv, Shaped
  <1>3. \A t \in Slots : KeyOK(req[t], uploads, keys, erased, rows)
    BY DEF IInv, RequestsOK
  <1>4. req[s].op # 0
    BY <1>1, <1>3 DEF KeyOK, NotInserted, Uploaded
  <1>5. \A t \in Slots \ {s} : req[t].op # req[s].op
    BY <1>4 DEF IInv, Numbers
  <1>6. req' = [req EXCEPT ![s] = r]
    BY <1>1 DEF Goto
  <1>7. /\ DOMAIN r = Fields /\ r.pc = "add.row" /\ Same(r, req[s])
        /\ r.locked = req[s].locked /\ r.content = req[s].content
    BY <1>2 DEF Fields, Same
  <1> HIDE DEF r
  <1>8. req'[s] = r /\ \A t \in Slots \ {s} : req'[t] = req[t]
    BY <1>2, <1>6
  <1>9. KeyOK(r, uploads', keys', erased', rows')
    <2>1. KeyOK(req[s], uploads, keys, erased, rows)
      BY <1>3
    <2> QED
      BY <1>1, <1>7, <2>1 DEF KeyOK, Same, NotInserted, Uploaded
  <1>10. ASSUME NEW t \in Slots \ {s} PROVE KeyOK(req[t], uploads', keys', erased', rows')
    <2>1. KeyOK(req[t], uploads, keys, erased, rows)
      BY <1>3
    <2>2. req[t].op \in uploads => req[t].op \in uploads'
      BY <1>1, <1>5
    <2> QED
      BY <1>1, <2>1, <2>2 DEF KeyOK
  <1>11. RequestsOK'
    BY <1>8, <1>9, <1>10 DEF RequestsOK
  <1>12. Shaped' /\ Numbers'
    BY <1>1, <1>2, <1>7, <1>8, <1>6 DEF IInv, Shaped, Numbers, Same
  <1> QED
    BY <1>11, <1>12 DEF IInv

-----------------------------------------------------------------------------
(* The row.                                                                *)

(* A row that is taken or inserted is one of the identity.                 *)
LEMMA TakesRow ==
  ASSUME NEW r, NEW q, NEW up, NEW store, NEW gone, NEW table, NEW x \in table,
         KeyOK(q, up, store, gone, table), q.kind = "add",
         r.pc = "runner.list", r.kind = q.kind, r.op = q.op, r.ident = q.ident, r.id = x.id,
         x.identity = q.ident,
         \A y, z \in table : y.id = z.id => y.identity = z.identity
  PROVE  KeyOK(r, up, store, gone, table)
  BY DEF KeyOK, NotInserted, Uploaded

LEMMA AddFindRowStep == ASSUME IInv, NEW s \in Slots, AddFindRow(s) PROVE IInv'
  <1>1. UNCHANGED <<uploads, keys, erased, rows, ops>> /\ req[s].pc = "add.row"
    BY DEF AddFindRow, stores, At
  <1>2. CASE Goto(s, "add.insert")
    BY <1>1, <1>2, GotoBefore DEF NotInserted, Uploaded
  <1>3. ASSUME NEW x \in RowsOf(req[s].ident),
               req' = [req EXCEPT ![s].pc = "runner.list", ![s].row = {x}, ![s].id = x.id]
        PROVE  IInv'
    <2> DEFINE n == x.id
               r == [req[s] EXCEPT !.pc = "runner.list", !.row = {x}, !.id = n]
    <2>1. DOMAIN req[s] = Fields /\ DOMAIN req = Slots
      BY DEF IInv, Shaped
    <2>2. req' = [req EXCEPT ![s] = r]
      BY <1>3, <2>1, Zenon
    <2>3. /\ DOMAIN r = Fields /\ r.pc = "runner.list" /\ r.kind = req[s].kind
          /\ r.op = req[s].op /\ r.ident = req[s].ident /\ r.id = n
      BY <2>1 DEF Fields
    <2>4. KeyOK(req[s], uploads, keys, erased, rows)
      BY DEF IInv, RequestsOK
    <2>5. req[s].kind = "add"
      BY <1>1, <2>4 DEF KeyOK, NotInserted, Uploaded
    <2>6. x \in rows /\ x.identity = req[s].ident
      BY DEF RowsOf, Live
    <2>7. \A y, z \in rows : y.id = z.id => y.identity = z.identity
      BY DEF IInv, Numbers
    <2> HIDE DEF r
    <2>8. KeyOK(r, uploads, keys, erased, rows)
      BY <2>3, <2>4, <2>5, <2>6, <2>7, TakesRow
    <2> QED
      BY <1>1, <2>2, <2>3, <2>8, PutRequest
  <1> QED
    BY <1>2, <1>3 DEF AddFindRow

(* The new row has the number of its creation, which is on no row and is   *)
(* no other request's.                                                     *)
LEMMA AddInsertRowStep == ASSUME IInv, NEW s \in Slots, AddInsertRow(s) PROVE IInv'
  <1> DEFINE new == [id |-> req[s].op, identity |-> req[s].ident,
                     password |-> req[s].password, live |-> TRUE]
             n == new.id
             r == [req[s] EXCEPT !.pc = "runner.list", !.row = {new}, !.id = n]
  <1>1. UNCHANGED <<uploads, keys, erased, ops>> /\ req[s].pc = "add.insert"
    BY DEF AddInsertRow, At
  <1>2. CASE Answer(s, "Repository") /\ UNCHANGED rows
    BY <1>1, <1>2, AnswerLater
  <1>3. CASE /\ rows' = rows \cup {new}
             /\ req' = [req EXCEPT ![s].pc = "runner.list", ![s].row = {new}, ![s].id = new.id]
    <2>1. DOMAIN req[s] = Fields /\ DOMAIN req = Slots
      BY DEF IInv, Shaped
    <2>2. req' = [req EXCEPT ![s] = r]
      BY <1>3, <2>1, Zenon
    <2>3. /\ DOMAIN r = Fields /\ r.pc = "runner.list" /\ r.kind = req[s].kind
          /\ r.op = req[s].op /\ r.ident = req[s].ident /\ r.id = n
      BY <2>1 DEF Fields
    <2>4. DOMAIN new = RowFields /\ n = req[s].op /\ new.identity = req[s].ident
      BY DEF RowFields
    <2>5. \A t \in Slots : KeyOK(req[t], uploads, keys, erased, rows)
      BY DEF IInv, RequestsOK
    <2>6. req[s].kind = "add" /\ n # 0 /\ \A x \in rows : x.id # n
      <3>1. KeyOK(req[s], uploads, keys, erased, rows)
        BY <2>5
      <3> QED
        BY <1>1, <2>4, <3>1 DEF KeyOK, NotInserted, Uploaded
    <2>7. \A t \in Slots \ {s} : req[t].op # n
      BY <2>4, <2>6 DEF IInv, Numbers
    <2>8. \A x, y \in rows : x.id = y.id => x.identity = y.identity
      BY DEF IInv, Numbers
    <2>9. n \in 1 .. ops
      BY <2>4, <2>6 DEF IInv, Numbers
    <2> HIDE DEF r, new, n
    <2>10. req'[s] = r /\ \A t \in Slots \ {s} : req'[t] = req[t]
      BY <2>1, <2>2
    <2>n. n = new.id
      BY DEF n
    <2>11. ASSUME NEW t \in Slots \ {s} PROVE KeyOK(req[t], uploads', keys', erased', rows')
      <3>1. KeyOK(req[t], uploads, keys, erased, rows)
        BY <2>5
      <3>2. req[t].kind = "add" => req[t].id # n
        BY <2>6, <3>1 DEF KeyOK
      <3> QED
        BY <1>1, <1>3, <2>7, <2>n, <3>1, <3>2 DEF KeyOK
    <2>12. KeyOK(r, uploads', keys', erased', rows')
      <3>1. KeyOK(req[s], uploads, keys, erased, rows)
        BY <2>5
      <3>2. r.pc \notin NotInserted \cup {"up.pick"}
        BY <2>3 DEF NotInserted, Uploaded
      <3>3. /\ r.pc \notin Uploaded \cup {"add.mkdir", "add.copy", "add.unlink"}
            /\ r.pc # "add.unlink"
        BY <2>3 DEF Uploaded
      <3>4. r.ident = NoIdentity \/ r.ident \in erased \/ r.op \in uploads \/ Key(keys, r.ident)
        BY <2>3, <2>6, <3>1 DEF KeyOK
      <3>5. \E x \in rows' : x.id = r.id
        BY <1>3, <2>3, <2>n
      <3>6. \A x \in rows' : x.id = r.id => x.identity = r.ident
        BY <1>3, <2>3, <2>4, <2>6, <2>n
      <3> QED
        BY <1>1, <3>2, <3>3, <3>4, <3>5, <3>6 DEF KeyOK
    <2>13. RequestsOK'
      BY <2>10, <2>11, <2>12 DEF RequestsOK
    <2>14. Shaped'
      BY <1>1, <1>3, <2>1, <2>2, <2>3, <2>4, <2>10 DEF IInv, Shaped
    <2>15. Numbers'
      <3>1. /\ ops \in Nat /\ \A t \in Slots : req[t].op \in 0 .. ops
            /\ \A t, u \in Slots : req[t].op = req[u].op => t = u \/ req[t].op = 0
            /\ \A x \in rows : x.id \in 1 .. ops
        BY DEF IInv, Numbers
      <3>2. \A t \in Slots : req'[t].op = req[t].op
        BY <2>3, <2>10
      <3>3. \A x \in rows' : x.id \in 1 .. ops
        BY <1>3, <2>9, <2>n, <3>1
      <3>4. \A x, y \in rows' : x.id = y.id => x.identity = y.identity
        BY <1>3, <2>6, <2>8, <2>n
      <3> QED
        BY <1>1, <3>1, <3>2, <3>3, <3>4 DEF Numbers
    <2> QED
      BY <2>13, <2>14, <2>15 DEF IInv
  <1> QED
    BY <1>2, <1>3 DEF AddInsertRow

(* A rolled-back creation goes on with the row it finds by its id, which   *)
(* is one of its identity.                                                 *)
LEMMA RemoveFindRowStep == ASSUME IInv, NEW s \in Slots, RemoveFindRow(s) PROVE IInv'
  <1>1. UNCHANGED <<uploads, keys, erased, rows, ops>>
    BY DEF RemoveFindRow, stores
  <1>2. CASE Goto(s, "rest.row")
    BY <1>1, <1>2, GotoLater DEF NotInserted, Uploaded
  <1>3. ASSUME NEW x \in WithId(req[s].id),
               req' = [req EXCEPT ![s].pc = "remove.state", ![s].row = {x},
                                  ![s].ident = x.identity]
        PROVE  IInv'
    <2> DEFINE i == x.identity
               r == [req[s] EXCEPT !.pc = "remove.state", !.row = {x}, !.ident = i]
    <2>1. DOMAIN req[s] = Fields /\ DOMAIN req = Slots
      BY DEF IInv, Shaped
    <2>2. req' = [req EXCEPT ![s] = r]
      BY <1>3, <2>1, Zenon
    <2>3. /\ DOMAIN r = Fields /\ r.pc = "remove.state" /\ r.kind = req[s].kind
          /\ r.op = req[s].op /\ r.ident = i /\ r.id = req[s].id
      BY <2>1 DEF Fields
    <2>4. KeyOK(req[s], uploads, keys, erased, rows)
      BY DEF IInv, RequestsOK
    <2>5. x \in rows /\ x.id = req[s].id
      BY DEF WithId, Live
    <2> HIDE DEF r
    <2>6. KeyOK(r, uploads, keys, erased, rows)
      BY <2>3, <2>4, <2>5 DEF KeyOK, NotInserted, Uploaded
    <2> QED
      BY <1>1, <2>2, <2>3, <2>6, PutRequest
  <1> QED
    BY <1>2, <1>3 DEF RemoveFindRow

(* Only a request of another kind takes an identity that is free.          *)
LEMMA UpPickIdentityStep == ASSUME IInv, NEW s \in Slots, UpPickIdentity(s) PROVE IInv'
  <1>1. UNCHANGED <<uploads, keys, erased, rows, ops>> /\ req[s].pc = "up.pick"
    BY DEF UpPickIdentity, stores, At
  <1>2. CASE Answer(s, "NotFound")
    BY <1>1, <1>2, AnswerLater
  <1>3. ASSUME NEW i, NEW x,
               req' = [req EXCEPT ![s].pc = "up.runner", ![s].ident = i, ![s].id = x.id]
        PROVE  IInv'
    <2> DEFINE n == x.id
               r == [req[s] EXCEPT !.pc = "up.runner", !.ident = i, !.id = n]
    <2>1. DOMAIN req[s] = Fields /\ DOMAIN req = Slots
      BY DEF IInv, Shaped
    <2>2. req' = [req EXCEPT ![s] = r]
      BY <1>3, <2>1, Zenon
    <2>3. DOMAIN r = Fields /\ r.pc = "up.runner" /\ r.kind = req[s].kind /\ r.op = req[s].op
      BY <2>1 DEF Fields
    <2>4. req[s].kind = "up"
      BY <1>1 DEF IInv, RequestsOK, KeyOK
    <2> HIDE DEF r
    <2>5. KeyOK(r, uploads, keys, erased, rows)
      BY <2>3, <2>4 DEF KeyOK, NotInserted, Uploaded
    <2> QED
      BY <1>1, <2>2, <2>3, <2>5, PutRequest
  <1> QED
    BY <1>2, <1>3 DEF UpPickIdentity

-----------------------------------------------------------------------------
(* The container, the daemon and the removal: nothing that a request is    *)
(* about changes any more.                                                 *)

LEMMA LaterPlaces ==
  \A l \in {"runner.remove", "unlock", "remove.wait", "rest.list", "rest.remove", "rest.file"} :
    l \notin NotInserted \cup {"up.pick"}
  BY DEF NotInserted, Uploaded

LEMMA RemovedLater ==
  ASSUME IInv, NEW s \in Slots, NEW o, Removed(s, o),
         UNCHANGED <<uploads, keys, erased, rows, ops>>
  PROVE  IInv'
  BY AnswerLater DEF Removed

LEMMA RunnerSteps ==
  ASSUME IInv, NEW s \in Slots,
         ListOldRunner(s) \/ RemoveOldRunner(s) \/ CreateMyst(s) \/ StartMyst(s)
  PROVE  IInv'
  <1>1. CASE ListOldRunner(s)
    <2>1. UNCHANGED <<uploads, keys, erased, rows, ops>>
      BY <1>1 DEF ListOldRunner, stores
    <2>2. CASE Goto(s, "runner.create")
      BY <2>1, <2>2, GotoLater DEF NotInserted, Uploaded
    <2>3. ASSUME NEW m, req' = [req EXCEPT ![s].pc = "runner.remove", ![s].target = m.id]
          PROVE  IInv'
      BY <2>1, <2>3, TargetLater, LaterPlaces, Zenon
    <2> QED
      BY <1>1, <2>2, <2>3 DEF ListOldRunner
  <1>2. CASE RemoveOldRunner(s)
    BY <1>2, GotoLater DEF RemoveOldRunner, NotInserted, Uploaded
  <1>3. CASE CreateMyst(s)
    <2>1. UNCHANGED <<uploads, keys, erased, rows, ops>>
      BY <1>3 DEF CreateMyst
    <2>2. CASE Answer(s, "Repository")
      BY <2>1, <2>2, AnswerLater
    <2>3. CASE Goto(s, "runner.start")
      BY <2>1, <2>3, GotoLater DEF NotInserted, Uploaded
    <2> QED
      BY <1>3, <2>2, <2>3 DEF CreateMyst
  <1>4. CASE StartMyst(s)
    <2>1. UNCHANGED <<uploads, keys, erased, rows, ops>>
      BY <1>4 DEF StartMyst
    <2>2. CASE Answer(s, "Repository")
      BY <2>1, <2>2, AnswerLater
    <2>3. CASE Goto(s, "add.check")
      BY <2>1, <2>3, GotoLater DEF NotInserted, Uploaded
    <2> QED
      BY <1>4, <2>2, <2>3 DEF StartMyst
  <1> QED
    BY <1>1, <1>2, <1>3, <1>4

LEMMA StartMystFailsStep == ASSUME IInv, NEW s \in Slots, StartMystFails(s) PROVE IInv'
  <1>1. UNCHANGED <<uploads, keys, erased, rows, ops>>
    BY DEF StartMystFails
  <1>2. CASE Goto(s, "runner.create")
    BY <1>1, <1>2, GotoLater DEF NotInserted, Uploaded
  <1>3. CASE req' = [req EXCEPT ![s].pc = "done", ![s].out = "Repository", ![s].clean = FALSE]
    <2> DEFINE r == [req[s] EXCEPT !.pc = "done", !.out = "Repository", !.clean = FALSE]
    <2>1. DOMAIN req[s] = Fields /\ DOMAIN req = Slots
      BY DEF IInv, Shaped
    <2>2. req' = [req EXCEPT ![s] = r]
      BY <1>3, <2>1, Zenon
    <2>3. DOMAIN r = Fields /\ Same(r, req[s]) /\ r.pc = "done"
      BY <2>1 DEF Same, Fields
    <2> HIDE DEF r
    <2> QED
      BY <1>1, <2>2, <2>3, Later DEF NotInserted, Uploaded
  <1> QED
    BY <1>2, <1>3 DEF StartMystFails

LEMMA DaemonSteps ==
  ASSUME IInv, NEW s \in Slots, CheckRunner(s) \/ UnlockIdentity(s) \/ RegisterIdentity(s)
  PROVE  IInv'
  <1>1. UNCHANGED <<uploads, keys, erased, rows, ops>>
    BY DEF CheckRunner, UnlockIdentity, RegisterIdentity, stores
  <1>2. ASSUME NEW o, Answer(s, o) PROVE IInv'
    BY <1>1, <1>2, AnswerLater
  <1>3. ASSUME NEW o, Rollback(s, o) PROVE IInv'
    BY <1>1, <1>3, RollbackLater
  <1>4. CASE CheckRunner(s)
    <2>1. ASSUME NEW n, req' = [req EXCEPT ![s].pc = "unlock", ![s].target = n] PROVE IInv'
      BY <1>1, <2>1, TargetLater, LaterPlaces, Zenon
    <2> QED
      BY <1>2, <1>4, <2>1 DEF CheckRunner
  <1>5. CASE UnlockIdentity(s)
    <2>1. CASE Goto(s, "register")
      BY <1>1, <2>1, GotoLater DEF NotInserted, Uploaded
    <2> QED
      BY <1>3, <1>5, <2>1 DEF UnlockIdentity
  <1>6. CASE RegisterIdentity(s)
    BY <1>2, <1>3, <1>6 DEF RegisterIdentity
  <1> QED
    BY <1>4, <1>5, <1>6

LEMMA RemoveSteps ==
  ASSUME IInv, NEW s \in Slots, RemoveReadState(s) \/ StartTasks(s) \/ JoinTasks(s)
  PROVE  IInv'
  <1>1. UNCHANGED <<uploads, keys, erased, rows, ops>>
    BY DEF RemoveReadState, StartTasks, JoinTasks, stores
  <1>2. ASSUME NEW o, Removed(s, o) PROVE IInv'
    BY <1>1, <1>2, RemovedLater
  <1>3. ASSUME NEW l \in {"rest.row", "remove.list"}, Goto(s, l) PROVE IInv'
    BY <1>1, <1>3, GotoLater DEF NotInserted, Uploaded
  <1>4. CASE RemoveReadState(s)
    BY <1>2, <1>3, <1>4 DEF RemoveReadState
  <1>5. CASE StartTasks(s)
    <2>1. CASE Answer(s, "TypeError")
      BY <1>1, <2>1, AnswerLater
    <2>2. CASE req' = [req EXCEPT ![s].pc = "remove.wait", ![s].failed = FALSE]
      BY <1>1, <2>2, FieldLater, LaterPlaces, Zenon
    <2> QED
      BY <1>5, <2>1, <2>2 DEF StartTasks
  <1>6. CASE JoinTasks(s)
    BY <1>2, <1>6 DEF JoinTasks
  <1> QED
    BY <1>4, <1>5, <1>6

LEMMA RestSteps ==
  ASSUME IInv, NEW s \in Slots,
         RestFindRow(s) \/ RestList(s) \/ RestRemoveRunner(s) \/ RestRemoveFile(s)
  PROVE  IInv'
  <1>1. UNCHANGED <<uploads, keys, erased, rows, ops>>
    BY DEF RestFindRow, RestList, RestRemoveRunner, RestRemoveFile, stores
  <1>2. ASSUME NEW l \in {"rest.list", "rest.file"}, NEW v,
               req' = [req EXCEPT ![s].pc = l, ![s].path = v]
        PROVE  IInv'
    BY <1>1, <1>2, FieldLater DEF NotInserted, Uploaded
  <1>3. CASE RestFindRow(s)
    BY <1>2, <1>3 DEF RestFindRow
  <1>4. CASE RestList(s)
    <2>1. CASE Goto(s, "rest.file")
      BY <1>1, <2>1, GotoLater DEF NotInserted, Uploaded
    <2>2. ASSUME NEW m, req' = [req EXCEPT ![s].pc = "rest.remove", ![s].target = m.id]
          PROVE  IInv'
      BY <1>1, <2>2, TargetLater, LaterPlaces, Zenon
    <2> QED
      BY <1>4, <2>1, <2>2 DEF RestList
  <1>5. CASE RestRemoveRunner(s)
    BY <1>2, <1>5 DEF RestRemoveRunner
  <1>6. CASE RestRemoveFile(s)
    BY <1>1, <1>6, RemovedLater DEF RestRemoveFile
  <1> QED
    BY <1>3, <1>4, <1>5, <1>6

LEMMA ProviderSteps ==
  ASSUME IInv, NEW s \in Slots, UpCheckRunner(s) \/ UpConnect(s) \/ DownRemove(s)
  PROVE  IInv'
  <1>1. UNCHANGED <<uploads, keys, erased, rows, ops>>
    BY DEF UpCheckRunner, UpConnect, DownRemove, stores
  <1>2. ASSUME NEW o, Answer(s, o) PROVE IInv'
    BY <1>1, <1>2, AnswerLater
  <1>3. CASE Goto(s, "up.connect")
    BY <1>1, <1>3, GotoLater DEF NotInserted, Uploaded
  <1> QED
    BY <1>2, <1>3 DEF UpCheckRunner, UpConnect, DownRemove

-----------------------------------------------------------------------------
(* The beginning and the end of a request.                                 *)

LEMMA ReplyStep == ASSUME IInv, NEW s \in Slots, Reply(s) PROVE IInv'
  <1>1. UNCHANGED <<uploads, keys, erased, rows, ops>> /\ req' = [req EXCEPT ![s] = Idle]
    BY DEF Reply, stores
  <1>2. \A x \in rows : x.id # 0
    BY DEF IInv, Numbers
  <1> QED
    BY <1>1, <1>2, IdleOK, PutRequest

(* A request gets a number that nothing has had before.                    *)
LEMMA NewRequest ==
  ASSUME IInv, NEW s \in Slots, NEW r, DOMAIN r = Fields, r.op = ops + 1,
         KeyOK(r, uploads', keys, erased, rows),
         req' = [req EXCEPT ![s] = r], ops' = ops + 1,
         uploads \subseteq uploads', UNCHANGED <<keys, erased, rows>>
  PROVE  IInv'
  <1>1. /\ DOMAIN req = Slots /\ \A t \in Slots : DOMAIN req[t] = Fields
        /\ DOMAIN keys = Identity /\ \A x \in rows : DOMAIN x = RowFields
    BY DEF IInv, Shaped
  <1>2. req'[s] = r /\ \A t \in Slots \ {s} : req'[t] = req[t]
    BY <1>1
  <1>3. /\ ops \in Nat /\ \A t \in Slots : req[t].op \in 0 .. ops
        /\ \A t, u \in Slots : req[t].op = req[u].op => t = u \/ req[t].op = 0
        /\ \A x \in rows : x.id \in 1 .. ops
        /\ \A x, y \in rows : x.id = y.id => x.identity = y.identity
    BY DEF IInv, Numbers
  <1>4. Shaped'
    BY <1>1, <1>2 DEF Shaped
  <1>5. Numbers'
    <2>1. ops' \in Nat /\ \A t \in Slots : req'[t].op \in 0 .. ops'
      BY <1>2, <1>3
    <2>2. \A t, u \in Slots : req'[t].op = req'[u].op => t = u \/ req'[t].op = 0
      BY <1>2, <1>3
    <2>3. \A x \in rows' : x.id \in 1 .. ops'
      BY <1>3
    <2> QED
      BY <1>3, <2>1, <2>2, <2>3 DEF Numbers
  <1>6. RequestsOK'
    <2>1. ASSUME NEW t \in Slots \ {s} PROVE KeyOK(req[t], uploads', keys', erased', rows')
      <3>1. KeyOK(req[t], uploads, keys, erased, rows)
        BY DEF IInv, RequestsOK
      <3> QED
        BY <3>1 DEF KeyOK
    <2> QED
      BY <1>2, <2>1 DEF RequestsOK
  <1> QED
    BY <1>4, <1>5, <1>6 DEF IInv

LEMMA BeginStep == ASSUME IInv, NEW s \in Slots, Begin(s) PROVE IInv'
  <1>1. UNCHANGED <<keys, erased, rows>> /\ ops' = ops + 1
    BY DEF Begin
  <1>2. ops \in Nat /\ \A x \in rows : x.id \in 1 .. ops
    BY DEF IInv, Numbers
  <1>3. ASSUME NEW i \in Identity \cup {NoIdentity}, NEW k \in Password, NEW w \in Password,
               req' = [req EXCEPT ![s] =
                         [Idle EXCEPT !.pc = "add.look", !.op = ops + 1, !.content = i,
                                      !.locked = k, !.password = w]],
               uploads' = uploads \cup {ops + 1}
        PROVE  IInv'
    <2> DEFINE r == [Idle EXCEPT !.pc = "add.look", !.op = ops + 1, !.content = i,
                                 !.locked = k, !.password = w]
    <2>1. /\ DOMAIN r = Fields /\ r.pc = "add.look" /\ r.kind = "add" /\ r.op = ops + 1
          /\ r.id = 0 /\ r.content = i /\ r.locked = k /\ r.ident = NoIdentity
      BY DEF Idle, Fields
    <2>2. req' = [req EXCEPT ![s] = r]
      BY <1>3
    <2> HIDE DEF r
    <2>3. KeyOK(r, uploads', keys, erased, rows)
      BY <1>2, <1>3, <2>1 DEF KeyOK, NotInserted, Uploaded
    <2>4. uploads \subseteq uploads'
      BY <1>3
    <2> QED
      BY <1>1, <2>1, <2>2, <2>3, <2>4, NewRequest
  <1>4. ASSUME NEW r, DOMAIN r = Fields, r.op = ops + 1, r.kind # "add",
               r.pc \notin NotInserted, r.pc = "up.pick" => r.kind = "up",
               req' = [req EXCEPT ![s] = r], UNCHANGED uploads
        PROVE  IInv'
    <2>1. KeyOK(r, uploads', keys, erased, rows)
      BY <1>4 DEF KeyOK
    <2> QED
      BY <1>1, <1>4, <2>1, NewRequest
  <1>5. ASSUME NEW n, NEW i, UNCHANGED uploads,
               req' = [req EXCEPT ![s] =
                         [Idle EXCEPT !.pc = "remove.row", !.kind = "remove", !.op = ops + 1,
                                      !.id = n, !.ident = i]]
        PROVE  IInv'
    <2> DEFINE r == [Idle EXCEPT !.pc = "remove.row", !.kind = "remove", !.op = ops + 1,
                                 !.id = n, !.ident = i]
    <2>1. DOMAIN r = Fields /\ r.pc = "remove.row" /\ r.kind = "remove" /\ r.op = ops + 1
      BY DEF Idle, Fields
    <2>2. req' = [req EXCEPT ![s] = r]
      BY <1>5
    <2> HIDE DEF r
    <2> QED
      BY <1>4, <1>5, <2>1, <2>2 DEF NotInserted, Uploaded
  <1>6. ASSUME UNCHANGED uploads,
               req' = [req EXCEPT ![s] =
                         [Idle EXCEPT !.pc = "up.pick", !.kind = "up", !.op = ops + 1]]
        PROVE  IInv'
    <2> DEFINE r == [Idle EXCEPT !.pc = "up.pick", !.kind = "up", !.op = ops + 1]
    <2>1. DOMAIN r = Fields /\ r.pc = "up.pick" /\ r.kind = "up" /\ r.op = ops + 1
      BY DEF Idle, Fields
    <2>2. req' = [req EXCEPT ![s] = r]
      BY <1>6
    <2> HIDE DEF r
    <2> QED
      BY <1>4, <1>6, <2>1, <2>2 DEF NotInserted, Uploaded
  <1>7. ASSUME NEW n, UNCHANGED uploads,
               req' = [req EXCEPT ![s] =
                         [Idle EXCEPT !.pc = "down.remove", !.kind = "down", !.op = ops + 1,
                                      !.target = n]]
        PROVE  IInv'
    <2> DEFINE r == [Idle EXCEPT !.pc = "down.remove", !.kind = "down", !.op = ops + 1,
                                 !.target = n]
    <2>1. DOMAIN r = Fields /\ r.pc = "down.remove" /\ r.kind = "down" /\ r.op = ops + 1
      BY DEF Idle, Fields
    <2>2. req' = [req EXCEPT ![s] = r]
      BY <1>7
    <2> HIDE DEF r
    <2> QED
      BY <1>4, <1>7, <2>1, <2>2 DEF NotInserted, Uploaded
  <1> QED
    BY <1>3, <1>5, <1>6, <1>7 DEF Begin

-----------------------------------------------------------------------------
(* Tasks, failures and crashes.                                            *)

(* The removal of a directory is what the property excuses; a row that is  *)
(* removed keeps its number and its identity.                              *)
LEMMA RunTaskStep == ASSUME IInv, NEW t \in tasks, RunTask(t) PROVE IInv'
  <1>1. UNCHANGED <<uploads, req, ops>>
    BY DEF RunTask
  <1>2. /\ DOMAIN req = Slots /\ \A s \in Slots : DOMAIN req[s] = Fields
        /\ DOMAIN keys = Identity /\ \A x \in rows : DOMAIN x = RowFields
    BY DEF IInv, Shaped
  <1>3. \A s \in Slots : KeyOK(req[s], uploads, keys, erased, rows)
    BY DEF IInv, RequestsOK
  <1>4. CASE /\ rows' = {IF x.id = t.id THEN [x EXCEPT !.live = FALSE] ELSE x : x \in rows}
             /\ UNCHANGED <<keys, erased>>
    <2> DEFINE gone(x) == [x EXCEPT !.live = FALSE]
    <2>1. ASSUME NEW x \in rows
          PROVE  DOMAIN gone(x) = RowFields /\ gone(x).id = x.id /\ gone(x).identity = x.identity
      BY <1>2 DEF RowFields
    <2>2. rows' = {IF x.id = t.id THEN gone(x) ELSE x : x \in rows}
      BY <1>4
    <2> HIDE DEF gone
    <2>3. \A y \in rows' : \E x \in rows :
            DOMAIN y = RowFields /\ y.id = x.id /\ y.identity = x.identity
      BY <1>2, <2>1, <2>2
    <2>4. \A x \in rows : \E y \in rows' : y.id = x.id
      BY <2>1, <2>2
    <2>5. ASSUME NEW s \in Slots PROVE KeyOK(req[s], uploads, keys, erased, rows')
      <3>1. KeyOK(req[s], uploads, keys, erased, rows)
        BY <1>3
      <3>2. (\A x \in rows : x.id # req[s].op) => \A y \in rows' : y.id # req[s].op
        BY <2>3
      <3>3. (\A x \in rows : x.id = req[s].id => x.identity = req[s].ident)
              => \A y \in rows' : y.id = req[s].id => y.identity = req[s].ident
        BY <2>3
      <3>4. (\E x \in rows : x.id = req[s].id) => \E y \in rows' : y.id = req[s].id
        BY <2>4
      <3> HIDE <1>4, <2>2, <2>3, <2>4
      <3> QED
        BY <3>1, <3>2, <3>3, <3>4 DEF KeyOK
    <2>6. RequestsOK'
      BY <1>1, <1>4, <2>5 DEF RequestsOK
    <2>7. Shaped'
      BY <1>1, <1>2, <1>4, <2>3 DEF Shaped
    <2>8. Numbers'
      <3>1. /\ ops \in Nat /\ \A s \in Slots : req[s].op \in 0 .. ops
            /\ \A r, s \in Slots : req[r].op = req[s].op => r = s \/ req[r].op = 0
            /\ \A x \in rows : x.id \in 1 .. ops
            /\ \A x, y \in rows : x.id = y.id => x.identity = y.identity
        BY DEF IInv, Numbers
      <3>2. \A y \in rows' : y.id \in 1 .. ops
        BY <2>3, <3>1
      <3>3. \A x, y \in rows' : x.id = y.id => x.identity = y.identity
        BY <2>3, <3>1
      <3> QED
        BY <1>1, <3>1, <3>2, <3>3 DEF Numbers
    <2> QED
      BY <2>6, <2>7, <2>8 DEF IInv
  <1>5. CASE /\ keys' = [keys EXCEPT ![t.identity] = NoPassword]
             /\ erased' = erased \cup {t.identity} /\ UNCHANGED rows
    <2>1. DOMAIN keys' = Identity /\ \A i : Key(keys, i) => Key(keys', i) \/ i \in erased'
      BY <1>2, <1>5 DEF Key
    <2>2. erased \subseteq erased'
      BY <1>5
    <2>3. ASSUME NEW s \in Slots PROVE KeyOK(req[s], uploads, keys', erased', rows)
      <3>1. KeyOK(req[s], uploads, keys, erased, rows)
        BY <1>3
      <3> QED
        BY <2>1, <2>2, <3>1 DEF KeyOK
    <2>4. RequestsOK'
      BY <1>1, <1>5, <2>3 DEF RequestsOK
    <2>5. Shaped' /\ Numbers'
      BY <1>1, <1>5, <2>1 DEF IInv, Shaped, Numbers
    <2> QED
      BY <2>4, <2>5 DEF IInv
  <1>6. CASE UNCHANGED <<keys, erased, rows>>
    BY <1>1, <1>6 DEF IInv, Shaped, Numbers, RequestsOK
  <1> QED
    BY <1>4, <1>5, <1>6 DEF RunTask

(* Whatever happens to several requests at once, each stays where it is or *)
(* goes on after the insertion, and keeps what it is about.                *)
LEMMA Kept ==
  ASSUME IInv, DOMAIN req' = Slots, UNCHANGED <<uploads, keys, erased, rows, ops>>,
         \A s \in Slots :
           /\ DOMAIN req'[s] = Fields /\ Same(req'[s], req[s])
           /\ \/ req'[s].pc \in {"remove.row", "done"}
              \/ /\ req'[s].pc = req[s].pc /\ req'[s].locked = req[s].locked
                 /\ req'[s].content = req[s].content
  PROVE  IInv'
  <1>1. ASSUME NEW s \in Slots PROVE KeyOK(req'[s], uploads, keys, erased, rows)
    <2>1. KeyOK(req[s], uploads, keys, erased, rows)
      BY DEF IInv, RequestsOK
    <2> QED
      BY <2>1 DEF KeyOK, Same, NotInserted, Uploaded
  <1>2. RequestsOK'
    BY <1>1 DEF RequestsOK
  <1>3. Shaped'
    BY DEF IInv, Shaped
  <1>4. Numbers'
    BY DEF IInv, Numbers, Same
  <1> QED
    BY <1>2, <1>3, <1>4 DEF IInv

LEMMA TaskFailsStep == ASSUME IInv, NEW t \in tasks, TaskFails(t) PROVE IInv'
  <1>1. UNCHANGED <<uploads, keys, erased, rows, ops>>
    BY DEF TaskFails
  <1>2. req' = [s \in Slots |->
                  IF req[s].op = t.op
                  THEN [req[s] EXCEPT !.failed = TRUE, !.clean = FALSE] ELSE req[s]]
    BY DEF TaskFails
  <1>3. \A s \in Slots : DOMAIN req[s] = Fields
    BY DEF IInv, Shaped
  <1>4. ASSUME NEW s \in Slots
        PROVE  /\ DOMAIN req'[s] = Fields /\ Same(req'[s], req[s]) /\ req'[s].pc = req[s].pc
               /\ req'[s].locked = req[s].locked /\ req'[s].content = req[s].content
    BY <1>2, <1>3 DEF Fields, Same
  <1>5. DOMAIN req' = Slots
    BY <1>2
  <1> QED
    BY <1>1, <1>4, <1>5, Kept

LEMMA CrashStep == ASSUME IInv, Crash PROVE IInv'
  <1>1. UNCHANGED <<uploads, keys, erased, rows, ops>>
    BY DEF Crash
  <1>2. req' = [s \in Slots |->
                  IF At(s, "idle") THEN req[s]
                  ELSE [req[s] EXCEPT !.pc = "done", !.out = "Repository", !.clean = FALSE]]
    BY DEF Crash
  <1>3. \A s \in Slots : DOMAIN req[s] = Fields
    BY DEF IInv, Shaped
  <1>4. ASSUME NEW s \in Slots
        PROVE  /\ DOMAIN req'[s] = Fields /\ Same(req'[s], req[s])
               /\ req'[s].pc = "done" \/ req'[s] = req[s]
    BY <1>2, <1>3 DEF Fields, Same
  <1>5. DOMAIN req' = Slots
    BY <1>2
  <1> QED
    BY <1>1, <1>4, <1>5, Kept

(* A creation whose daemon cannot be asked becomes a removal, any other    *)
(* request that meets an error is over.                                    *)
LEMMA FailStep == ASSUME IInv, NEW s \in Slots, Fail(s) PROVE IInv'
  <1>1. UNCHANGED <<uploads, keys, erased, rows, ops>>
    BY DEF Fail, stores
  <1>2. DOMAIN req[s] = Fields /\ DOMAIN req = Slots
    BY DEF IInv, Shaped
  <1> DEFINE l == IF req[s].pc \in {"unlock", "register"} THEN "remove.row" ELSE "done"
             w == IF At(s, "unlock") \/ At(s, "register") THEN "Repository" ELSE req[s].why
             o == IF At(s, "unlock") \/ At(s, "register") THEN req[s].out
                  ELSE IF req[s].why = "none" THEN "Repository" ELSE "Combine"
             r == [req[s] EXCEPT !.clean = FALSE, !.pc = l, !.why = w, !.out = o]
  <1>3. /\ DOMAIN req' = Slots /\ \A t \in Slots \ {s} : req'[t] = req[t]
        /\ req'[s] = r
    BY <1>2 DEF Fail, Fields
  <1>4. l \in {"remove.row", "done"}
    OBVIOUS
  <1> HIDE DEF l, w, o
  <1>5. DOMAIN r = Fields /\ Same(r, req[s]) /\ r.pc = l
    BY <1>2 DEF Fields, Same
  <1> HIDE DEF r
  <1>6. \A t \in Slots \ {s} : DOMAIN req'[t] = Fields /\ Same(req'[t], req[t])
    BY <1>3 DEF IInv, Shaped, Same
  <1> QED
    BY <1>1, <1>3, <1>4, <1>5, <1>6, Kept

-----------------------------------------------------------------------------
LEMMA NextInv == IInv /\ [Next]_vars => IInv'
  <1> SUFFICES ASSUME IInv, [Next]_vars PROVE IInv'
    OBVIOUS
  <1>1. ASSUME NEW s \in Slots, Add(s) PROVE IInv'
    BY <1>1, AddLookStep, ReadKeyStep, MakeDirStep, CopyKeyStep, UnlinkUploadStep,
       AddFindRowStep, AddInsertRowStep, RunnerSteps, StartMystFailsStep, DaemonSteps
       DEF Add
  <1>2. ASSUME NEW s \in Slots, Remove(s) PROVE IInv'
    BY <1>2, RemoveFindRowStep, RemoveSteps, RestSteps DEF Remove
  <1>3. ASSUME NEW s \in Slots, UpDown(s) PROVE IInv'
    BY <1>3, UpPickIdentityStep, ProviderSteps DEF UpDown
  <1>4. ASSUME NEW s \in Slots, Begin(s) \/ Fail(s) \/ Reply(s) PROVE IInv'
    BY <1>4, BeginStep, FailStep, ReplyStep
  <1>5. ASSUME NEW t \in tasks, RunTask(t) \/ TaskFails(t) PROVE IInv'
    BY <1>5, RunTaskStep, TaskFailsStep
  <1>6. CASE Crash
    BY <1>6, CrashStep
  <1>7. CASE UNCHANGED vars
    BY <1>7 DEF vars, stores, IInv, Shaped, Numbers, RequestsOK
  <1> QED
    BY <1>1, <1>2, <1>3, <1>4, <1>5, <1>6, <1>7 DEF Next

LEMMA Invariance == Spec => []IInv
  BY InitInv, NextInv, PTL DEF Spec

LEMMA InvImplies == IInv => KeyNotLost
  <1> SUFFICES ASSUME IInv, NEW s \in Slots,
                      req[s].kind = "add", req[s].ident # NoIdentity,
                      req[s].ident \notin erased
               PROVE  req[s].op \in uploads \/ HasKey(req[s].ident)
    BY DEF KeyNotLost
  <1>1. KeyOK(req[s], uploads, keys, erased, rows)
    BY DEF IInv, RequestsOK
  <1> QED
    BY <1>1 DEF KeyOK, Key, HasKey

(* Whatever fails or dies between the copy and the unlink of a key file,   *)
(* and however many requests are served at the same time, the key of an    *)
(* identity that was read from an upload is in the store or still where it *)
(* was uploaded, until a removal takes the directory                       *)
(* (myst-identity-file.repository.ts, moveAndRenameFile).                  *)
THEOREM KeyIsNotLost == Spec => []KeyNotLost
  BY Invariance, InvImplies, PTL

-----------------------------------------------------------------------------
(* Types.  A request has a number; a creation has a passphrase until its   *)
(* row is there; and handlers have found the identity they work on.        *)
Knowing == {"add.mkdir", "add.copy", "add.unlink", "add.row", "add.insert", "runner.list",
            "runner.remove", "runner.create", "runner.start", "add.check", "unlock",
            "register", "remove.state", "remove.list", "up.runner", "up.connect"}

Formed(r) ==
  /\ r.pc # "idle" => r.op # 0
  /\ r.pc \in NotInserted => r.password \in Password
  /\ r.pc \in Knowing => r.ident \in Identity

RequestsTyped == req \in [Slots -> Request] /\ \A s \in Slots : Formed(req[s])

TypeInv == TypeOK /\ RequestsTyped

LEMMA IdleTyped == Idle \in Request /\ Formed(Idle)
  BY BoundAssumption DEF Idle, Request, PCs, Outcomes, Formed, NotInserted, Uploaded, Knowing

(* One request of the slots is replaced.                                   *)
LEMMA PutTyped ==
  ASSUME RequestsTyped, NEW s \in Slots, NEW r \in Request, Formed(r),
         req' = [req EXCEPT ![s] = r]
  PROVE  RequestsTyped'
  <1>1. req' \in [Slots -> Request]
    BY DEF RequestsTyped
  <1>2. \A t \in Slots : req'[t] = IF t = s THEN r ELSE req[t]
    BY DEF RequestsTyped
  <1>3. \A t \in Slots : Formed(req'[t])
    BY <1>2 DEF RequestsTyped
  <1> QED
    BY <1>1, <1>3 DEF RequestsTyped

(* A request that goes on keeps its number; it has its passphrase and its  *)
(* identity when it had them before.                                       *)
Follows(l, s) ==
  /\ l \in PCs /\ req[s].pc # "idle"
  /\ l \in NotInserted => req[s].pc \in NotInserted
  /\ l \in Knowing => req[s].pc \in Knowing

LEMMA GotoTyped ==
  ASSUME RequestsTyped, NEW s \in Slots, NEW l, Follows(l, s), Goto(s, l)
  PROVE  RequestsTyped'
  <1> DEFINE r == [req[s] EXCEPT !.pc = l]
  <1>1. req[s] \in Request /\ Formed(req[s])
    BY DEF RequestsTyped
  <1>2. req' = [req EXCEPT ![s] = r]
    BY DEF Goto
  <1>3. /\ r \in Request /\ r.pc = l /\ r.op = req[s].op /\ r.password = req[s].password
        /\ r.ident = req[s].ident
    BY <1>1 DEF Request, Follows
  <1> HIDE DEF r
  <1>4. Formed(r)
    BY <1>1, <1>3 DEF Formed, Follows
  <1> QED
    BY <1>2, <1>3, <1>4, PutTyped

LEMMA AnswerTyped ==
  ASSUME RequestsTyped, NEW s \in Slots, req[s].pc # "idle", NEW o \in Outcomes, Answer(s, o)
  PROVE  RequestsTyped'
  <1> DEFINE r == [req[s] EXCEPT !.pc = "done", !.out = o]
  <1>1. req[s] \in Request /\ Formed(req[s]) /\ DOMAIN req = Slots
    BY DEF RequestsTyped
  <1>2. req' = [req EXCEPT ![s] = r]
    BY <1>1, Zenon DEF Answer
  <1>3. "done" \in PCs
    BY DEF PCs
  <1>4. r \in Request /\ r.pc = "done" /\ r.op = req[s].op
    BY <1>1, <1>3 DEF Request
  <1> HIDE DEF r
  <1>5. Formed(r)
    BY <1>1, <1>4 DEF Formed, NotInserted, Uploaded, Knowing
  <1> QED
    BY <1>2, <1>4, <1>5, PutTyped

LEMMA RollbackTyped ==
  ASSUME RequestsTyped, NEW s \in Slots, req[s].pc # "idle", NEW o \in Outcomes,
         Rollback(s, o)
  PROVE  RequestsTyped'
  <1> DEFINE r == [req[s] EXCEPT !.pc = "remove.row", !.why = o]
  <1>1. req[s] \in Request /\ Formed(req[s]) /\ DOMAIN req = Slots
    BY DEF RequestsTyped
  <1>2. req' = [req EXCEPT ![s] = r]
    BY <1>1, Zenon DEF Rollback
  <1>3. "remove.row" \in PCs
    BY DEF PCs
  <1>4. r \in Request /\ r.pc = "remove.row" /\ r.op = req[s].op
    BY <1>1, <1>3 DEF Request
  <1> HIDE DEF r
  <1>5. Formed(r)
    BY <1>1, <1>4 DEF Formed, NotInserted, Uploaded, Knowing
  <1> QED
    BY <1>2, <1>4, <1>5, PutTyped

LEMMA RemovedTyped ==
  ASSUME RequestsTyped, NEW s \in Slots, req[s].pc # "idle", NEW o \in Outcomes,
         Removed(s, o)
  PROVE  RequestsTyped'
  <1>1. req[s].why \in Outcomes /\ "Combine" \in Outcomes
    BY DEF RequestsTyped, Request, Outcomes
  <1> QED
    BY <1>1, AnswerTyped DEF Removed

(* The places a handler may set a local on the way to.                     *)
LEMMA LocalTyped ==
  ASSUME RequestsTyped, NEW s \in Slots, NEW l, NEW n, Follows(l, s),
         \/ n \in 0 .. MaxOps /\ req' = [req EXCEPT ![s].pc = l, ![s].target = n]
         \/ n \in BOOLEAN /\ req' = [req EXCEPT ![s].pc = l, ![s].failed = n]
         \/ n \in BOOLEAN /\ req' = [req EXCEPT ![s].pc = l, ![s].path = n]
  PROVE  RequestsTyped'
  <1>1. req[s] \in Request /\ Formed(req[s]) /\ DOMAIN req = Slots
    BY DEF RequestsTyped
  <1> DEFINE r1 == [req[s] EXCEPT !.pc = l, !.target = n]
             r2 == [req[s] EXCEPT !.pc = l, !.failed = n]
             r3 == [req[s] EXCEPT !.pc = l, !.path = n]
  <1>2. ASSUME NEW r, r \in {r1, r2, r3}, r \in Request, req' = [req EXCEPT ![s] = r]
        PROVE  RequestsTyped'
    <2>1. r.pc = l /\ r.op = req[s].op /\ r.password = req[s].password /\ r.ident = req[s].ident
      BY <1>1, <1>2 DEF Request
    <2>2. Formed(r)
      BY <1>1, <2>1 DEF Formed, Follows
    <2> QED
      BY <1>2, <2>2, PutTyped
  <1>3. CASE n \in 0 .. MaxOps /\ req' = [req EXCEPT ![s].pc = l, ![s].target = n]
    <2>1. req' = [req EXCEPT ![s] = r1]
      BY <1>1, <1>3, Zenon
    <2>2. r1 \in Request
      BY <1>1, <1>3 DEF Request, Follows
    <2> QED
      BY <1>2, <2>1, <2>2
  <1>4. CASE n \in BOOLEAN /\ req' = [req EXCEPT ![s].pc = l, ![s].failed = n]
    <2>1. req' = [req EXCEPT ![s] = r2]
      BY <1>1, <1>4, Zenon
    <2>2. r2 \in Request
      BY <1>1, <1>4 DEF Request, Follows
    <2> QED
      BY <1>2, <2>1, <2>2
  <1>5. CASE n \in BOOLEAN /\ req' = [req EXCEPT ![s].pc = l, ![s].path = n]
    <2>1. req' = [req EXCEPT ![s] = r3]
      BY <1>1, <1>5, Zenon
    <2>2. r3 \in Request
      BY <1>1, <1>5 DEF Request, Follows
    <2> QED
      BY <1>2, <2>1, <2>2
  <1> QED
    BY <1>3, <1>4, <1>5

LEMMA SameStores ==
  ASSUME TypeInv, RequestsTyped', UNCHANGED <<stores, overlapped, ops, faults>>
  PROVE  TypeInv'
  BY DEF TypeInv, TypeOK, RequestsTyped, stores

(* The outcomes and places named one by one, for the steps below.          *)
LEMMA Vocabulary ==
  /\ {"Ok", "Exist", "BadKey", "NotFound", "NotRunning", "Unlock", "InUse",
      "InvalidFileType", "TypeError", "Combine", "Repository", "none"} \subseteq Outcomes
  /\ NotInserted \cup Knowing \cup {"idle", "remove.row", "remove.wait", "rest.row", "rest.list",
       "rest.remove", "rest.file", "up.pick", "down.remove", "done"} \subseteq PCs
  BY DEF Outcomes, PCs, NotInserted, Uploaded, Knowing

LEMMA AddFileTyped ==
  ASSUME TypeInv, NEW s \in Slots,
         AddLook(s) \/ ReadKey(s) \/ MakeDir(s) \/ CopyKey(s) \/ UnlinkUpload(s)
  PROVE  TypeInv'
  <1>t. RequestsTyped /\ req[s] \in Request /\ Formed(req[s]) /\ DOMAIN req = Slots
    BY DEF TypeInv, RequestsTyped
  <1>1. CASE AddLook(s)
    <2>1. req[s].pc = "add.look" /\ Follows("add.parse", s)
      BY <1>1, Vocabulary DEF AddLook, At, Follows, NotInserted, Uploaded, Knowing
    <2>2. RequestsTyped'
      BY <1>1, <1>t, <2>1, GotoTyped, AnswerTyped, Vocabulary DEF AddLook
    <2> QED
      BY <1>1, <2>2, SameStores DEF AddLook
  <1>2. CASE ReadKey(s)
    <2>1. req[s].pc = "add.parse"
      BY <1>2 DEF ReadKey, At
    <2>2. ASSUME Answer(s, "BadKey") PROVE RequestsTyped'
      BY <1>t, <2>1, <2>2, AnswerTyped, Vocabulary
    <2>3. ASSUME req[s].content # NoIdentity,
                 req' = [req EXCEPT ![s].pc = "add.mkdir", ![s].ident = req[s].content]
          PROVE  RequestsTyped'
      <3> DEFINE r == [req[s] EXCEPT !.pc = "add.mkdir", !.ident = req[s].content]
      <3>1. req' = [req EXCEPT ![s] = r]
        BY <1>t, <2>3, Zenon
      <3>2. "add.mkdir" \in PCs /\ req[s].content \in Identity
        BY <1>t, <2>3 DEF PCs, Request
      <3>3. r \in Request /\ r.pc = "add.mkdir" /\ r.op = req[s].op /\ r.ident \in Identity
            /\ r.password = req[s].password
        BY <1>t, <3>2 DEF Request
      <3> HIDE DEF r
      <3>4. Formed(r)
        BY <1>t, <2>1, <3>3 DEF Formed, NotInserted, Uploaded
      <3> QED
        BY <1>t, <3>1, <3>3, <3>4, PutTyped
    <2>4. RequestsTyped'
      BY <1>2, <2>2, <2>3 DEF ReadKey
    <2> QED
      BY <1>2, <2>4, SameStores DEF ReadKey
  <1>3. CASE MakeDir(s)
    <2>1. req[s].pc = "add.mkdir" /\ Follows("add.copy", s)
      BY <1>3, Vocabulary DEF MakeDir, At, Follows, NotInserted, Uploaded, Knowing
    <2>2. RequestsTyped'
      BY <1>3, <1>t, <2>1, GotoTyped DEF MakeDir
    <2>3. req[s].ident \in Identity
      BY <1>t, <2>1 DEF Formed, Knowing
    <2> QED
      BY <1>3, <2>2, <2>3 DEF MakeDir, TypeInv, TypeOK, RequestsTyped
  <1>4. CASE CopyKey(s)
    <2>1. req[s].pc = "add.copy" /\ Follows("add.unlink", s)
      BY <1>4, Vocabulary DEF CopyKey, At, Follows, NotInserted, Uploaded, Knowing
    <2>2. RequestsTyped'
      BY <1>4, <1>t, <2>1, GotoTyped, AnswerTyped, Vocabulary DEF CopyKey
    <2>3. req[s].ident \in Identity /\ req[s].locked \in Password \cup {NoPassword}
      BY <1>t, <2>1 DEF Formed, Knowing, Request
    <2>4. keys \in [Identity -> Password \cup {NoPassword}]
          /\ \A i \in Identity : keys[i] # NoPassword => i \in dirs
      BY DEF TypeInv, TypeOK
    <2>5. keys' \in [Identity -> Password \cup {NoPassword}]
          /\ \A i \in Identity : keys'[i] # NoPassword => i \in dirs
      BY <1>4, <2>3, <2>4 DEF CopyKey
    <2> QED
      BY <1>4, <2>2, <2>5 DEF CopyKey, TypeInv, TypeOK, RequestsTyped
  <1>5. CASE UnlinkUpload(s)
    <2>1. req[s].pc = "add.unlink" /\ Follows("add.row", s)
      BY <1>5, Vocabulary DEF UnlinkUpload, At, Follows, NotInserted, Uploaded, Knowing
    <2>2. RequestsTyped'
      BY <1>5, <1>t, <2>1, GotoTyped DEF UnlinkUpload
    <2> QED
      BY <1>5, <2>2 DEF UnlinkUpload, TypeInv, TypeOK, RequestsTyped
  <1> QED
    BY <1>1, <1>2, <1>3, <1>4, <1>5

LEMMA AddRowTyped ==
  ASSUME TypeInv, NEW s \in Slots, AddFindRow(s) \/ AddInsertRow(s)
  PROVE  TypeInv'
  <1>t. RequestsTyped /\ req[s] \in Request /\ Formed(req[s]) /\ DOMAIN req = Slots
    BY DEF TypeInv, RequestsTyped
  <1>a. ASSUME NEW x \in Row, req[s].pc \in {"add.row", "add.insert"},
               req' = [req EXCEPT ![s].pc = "runner.list", ![s].row = {x}, ![s].id = x.id]
        PROVE  RequestsTyped'
    <2> DEFINE r == [req[s] EXCEPT !.pc = "runner.list", !.row = {x}, !.id = x.id]
    <2>1. req' = [req EXCEPT ![s] = r]
      BY <1>a, <1>t, Zenon
    <2>2. "runner.list" \in PCs /\ x.id \in 0 .. MaxOps
      BY <1>a, BoundAssumption DEF PCs, Row
    <2>3. /\ r \in Request /\ r.pc = "runner.list" /\ r.op = req[s].op
          /\ r.ident = req[s].ident
      BY <1>a, <1>t, <2>2 DEF Request
    <2> HIDE DEF r
    <2>4. Formed(r)
      BY <1>a, <1>t, <2>3 DEF Formed, NotInserted, Uploaded, Knowing
    <2> QED
      BY <1>t, <2>1, <2>3, <2>4, PutTyped
  <1>1. CASE AddFindRow(s)
    <2>1. req[s].pc = "add.row" /\ Follows("add.insert", s)
      BY <1>1, Vocabulary DEF AddFindRow, At, Follows, NotInserted, Uploaded, Knowing
    <2>2. RowsOf(req[s].ident) \subseteq Row
      BY DEF RowsOf, Live, TypeInv, TypeOK
    <2>3. RequestsTyped'
      BY <1>1, <1>t, <1>a, <2>1, <2>2, GotoTyped DEF AddFindRow
    <2> QED
      BY <1>1, <2>3, SameStores DEF AddFindRow
  <1>2. CASE AddInsertRow(s)
    <2> DEFINE x == [id |-> req[s].op, identity |-> req[s].ident,
                     password |-> req[s].password, live |-> TRUE]
    <2>1. req[s].pc = "add.insert"
      BY <1>2 DEF AddInsertRow, At
    <2>2. req[s].op \in 1 .. MaxOps /\ req[s].ident \in Identity /\ req[s].password \in Password
      BY <1>t, <2>1, BoundAssumption DEF Formed, NotInserted, Knowing, Request
    <2>3. x \in Row
      BY <2>2 DEF Row
    <2>4. \/ Answer(s, "Repository") /\ UNCHANGED rows
          \/ /\ rows' = rows \cup {x}
             /\ req' = [req EXCEPT ![s].pc = "runner.list", ![s].row = {x}, ![s].id = x.id]
      BY <1>2 DEF AddInsertRow
    <2> HIDE DEF x
    <2>5. RequestsTyped'
      BY <1>t, <1>a, <2>1, <2>3, <2>4, AnswerTyped, Vocabulary
    <2>6. rows' \subseteq Row
      BY <2>3, <2>4 DEF TypeInv, TypeOK
    <2> QED
      BY <1>2, <2>5, <2>6 DEF AddInsertRow, TypeInv, TypeOK, RequestsTyped
  <1> QED
    BY <1>1, <1>2

(* Containers come and go, the other stores stay.                          *)
LEMMA ContainersTyped ==
  ASSUME TypeInv, RequestsTyped', containers' \subseteq Container, faults' \in 0 .. MaxFaults,
         UNCHANGED <<uploads, dirs, keys, rows, tasks, erased, overlapped, ops>>
  PROVE  TypeInv'
  BY DEF TypeInv, TypeOK, RequestsTyped

LEMMA AddRunnerTyped ==
  ASSUME TypeInv, NEW s \in Slots,
         \/ ListOldRunner(s) \/ RemoveOldRunner(s) \/ CreateMyst(s)
         \/ StartMyst(s) \/ StartMystFails(s)
  PROVE  TypeInv'
  <1>t. /\ RequestsTyped /\ req[s] \in Request /\ Formed(req[s]) /\ DOMAIN req = Slots
        /\ containers \subseteq Container /\ faults \in 0 .. MaxFaults
    BY DEF TypeInv, TypeOK, RequestsTyped
  <1>i. \A i : Tidied(i) \subseteq Container
    BY <1>t DEF Tidied
  <1>1. CASE ListOldRunner(s)
    <2>1. req[s].pc = "runner.list"
      BY <1>1 DEF ListOldRunner, At
    <2>2. Follows("runner.create", s) /\ Follows("runner.remove", s)
      BY <2>1, Vocabulary DEF Follows, NotInserted, Uploaded, Knowing
    <2>3. \A m \in OnIdentity("myst", req[s].ident) : m.id \in 0 .. MaxOps
      BY <1>t, BoundAssumption DEF OnIdentity, OfKind, Container
    <2>4. RequestsTyped'
      BY <1>1, <1>t, <2>2, <2>3, GotoTyped, LocalTyped DEF ListOldRunner
    <2> QED
      BY <1>1, <2>4, SameStores DEF ListOldRunner
  <1>2. CASE RemoveOldRunner(s)
    <2>1. req[s].pc = "runner.remove" /\ Follows("runner.create", s)
      BY <1>2, Vocabulary DEF RemoveOldRunner, At, Follows, NotInserted, Uploaded, Knowing
    <2>2. RequestsTyped'
      BY <1>2, <1>t, <2>1, GotoTyped DEF RemoveOldRunner
    <2>3. containers' \subseteq Container /\ faults' = faults
      BY <1>2, <1>t DEF RemoveOldRunner, Without
    <2> QED
      BY <1>2, <1>t, <2>2, <2>3, ContainersTyped DEF RemoveOldRunner
  <1>3. CASE CreateMyst(s)
    <2>1. req[s].pc = "runner.create" /\ Follows("runner.start", s)
      BY <1>3, Vocabulary DEF CreateMyst, At, Follows, NotInserted, Uploaded, Knowing
    <2>2. RequestsTyped'
      BY <1>3, <1>t, <2>1, GotoTyped, AnswerTyped, Vocabulary DEF CreateMyst
    <2>3. req[s].op \in 1 .. MaxOps /\ req[s].ident \in Identity /\ req[s].id \in 0 .. MaxOps
      BY <1>t, <2>1, BoundAssumption DEF Formed, Knowing, Request
    <2>4. [kind |-> "myst", id |-> req[s].op, identity |-> req[s].ident, row |-> req[s].id,
           on |-> 0, status |-> "created"] \in Container
      BY <2>3, BoundAssumption DEF Container
    <2>5. containers' \subseteq Container /\ faults' = faults
      BY <1>3, <1>i, <2>4 DEF CreateMyst
    <2> QED
      BY <1>3, <1>t, <2>2, <2>5, ContainersTyped DEF CreateMyst
  <1>4. CASE StartMyst(s)
    <2>1. req[s].pc = "runner.start" /\ Follows("add.check", s)
      BY <1>4, Vocabulary DEF StartMyst, At, Follows, NotInserted, Uploaded, Knowing
    <2>2. RequestsTyped'
      BY <1>4, <1>t, <2>1, GotoTyped, AnswerTyped, Vocabulary DEF StartMyst
    <2>3. \A c \in Container : [c EXCEPT !.status = "running"] \in Container
      BY DEF Container
    <2>4. containers' \subseteq Container /\ faults' = faults
      BY <1>4, <1>i, <1>t, <2>3 DEF StartMyst, OfKind
    <2> QED
      BY <1>4, <1>t, <2>2, <2>4, ContainersTyped DEF StartMyst
  <1>5. CASE StartMystFails(s)
    <2>1. req[s].pc = "runner.start" /\ Follows("runner.create", s)
      BY <1>5, Vocabulary DEF StartMystFails, At, Follows, NotInserted, Uploaded, Knowing
    <2>2. ASSUME Goto(s, "runner.create") PROVE RequestsTyped'
      BY <1>t, <2>1, <2>2, GotoTyped
    <2>3. ASSUME req' = [req EXCEPT ![s].pc = "done", ![s].out = "Repository",
                                    ![s].clean = FALSE]
          PROVE  RequestsTyped'
      <3> DEFINE r == [req[s] EXCEPT !.pc = "done", !.out = "Repository", !.clean = FALSE]
      <3>1. req' = [req EXCEPT ![s] = r]
        BY <1>t, <2>3, Zenon
      <3>2. "done" \in PCs /\ "Repository" \in Outcomes
        BY Vocabulary
      <3>3. r \in Request /\ r.pc = "done" /\ r.op = req[s].op
        BY <1>t, <3>2 DEF Request
      <3> HIDE DEF r
      <3>4. Formed(r)
        BY <1>t, <2>1, <3>3 DEF Formed, NotInserted, Uploaded, Knowing
      <3> QED
        BY <1>t, <3>1, <3>3, <3>4, PutTyped
    <2>4. RequestsTyped'
      BY <1>5, <2>2, <2>3 DEF StartMystFails
    <2>5. containers' \subseteq Container /\ faults' \in 0 .. MaxFaults
      BY <1>5, <1>t, <1>i, BoundAssumption DEF StartMystFails
    <2> QED
      BY <1>5, <2>4, <2>5, ContainersTyped DEF StartMystFails
  <1> QED
    BY <1>1, <1>2, <1>3, <1>4, <1>5

LEMMA AddDaemonTyped ==
  ASSUME TypeInv, NEW s \in Slots, CheckRunner(s) \/ UnlockIdentity(s) \/ RegisterIdentity(s)
  PROVE  TypeInv'
  <1>t. /\ RequestsTyped /\ containers \subseteq Container
    BY DEF TypeInv, TypeOK
  <1>1. req[s].pc \in {"add.check", "unlock", "register"}
    BY DEF CheckRunner, UnlockIdentity, RegisterIdentity, At
  <1>2. Follows("unlock", s) /\ Follows("register", s)
    BY <1>1, Vocabulary DEF Follows, NotInserted, Uploaded, Knowing
  <1>3. RequestsTyped'
    <2>1. CASE CheckRunner(s)
      <3>1. \A c \in NewestFirst(req[s].ident) : (IF c.kind = "myst" THEN c.id ELSE 0) \in 0 .. MaxOps
        BY <1>t, BoundAssumption DEF NewestFirst, OnIdentity, OfKind, Container
      <3> QED
        BY <2>1, <1>t, <1>1, <1>2, <3>1, AnswerTyped, LocalTyped, Vocabulary DEF CheckRunner
    <2>2. CASE UnlockIdentity(s)
      BY <2>2, <1>t, <1>1, <1>2, GotoTyped, RollbackTyped, Vocabulary DEF UnlockIdentity
    <2>3. CASE RegisterIdentity(s)
      BY <2>3, <1>t, <1>1, AnswerTyped, RollbackTyped, Vocabulary DEF RegisterIdentity
    <2> QED
      BY <2>1, <2>2, <2>3
  <1>4. UNCHANGED <<stores, overlapped, ops, faults>>
    BY DEF CheckRunner, UnlockIdentity, RegisterIdentity
  <1> QED
    BY <1>3, <1>4, SameStores

LEMMA RemoveTyped ==
  ASSUME TypeInv, NEW s \in Slots,
         RemoveFindRow(s) \/ RemoveReadState(s) \/ StartTasks(s) \/ JoinTasks(s)
  PROVE  TypeInv'
  <1>t. /\ RequestsTyped /\ req[s] \in Request /\ Formed(req[s]) /\ DOMAIN req = Slots
        /\ containers \subseteq Container /\ rows \subseteq Row /\ tasks \subseteq Task
    BY DEF TypeInv, TypeOK, RequestsTyped
  <1>1. CASE RemoveFindRow(s)
    <2>1. req[s].pc = "remove.row" /\ Follows("rest.row", s)
      BY <1>1, Vocabulary DEF RemoveFindRow, At, Follows, NotInserted, Uploaded, Knowing
    <2>2. ASSUME NEW x \in Row,
                 req' = [req EXCEPT ![s].pc = "remove.state", ![s].row = {x},
                                    ![s].ident = x.identity]
          PROVE  RequestsTyped'
      <3> DEFINE r == [req[s] EXCEPT !.pc = "remove.state", !.row = {x}, !.ident = x.identity]
      <3>1. req' = [req EXCEPT ![s] = r]
        BY <2>2, <1>t, Zenon
      <3>2. "remove.state" \in PCs /\ x.identity \in Identity
        BY DEF PCs, Row
      <3>3. /\ r \in Request /\ r.pc = "remove.state" /\ r.op = req[s].op
            /\ r.ident \in Identity
        BY <1>t, <3>2 DEF Request
      <3> HIDE DEF r
      <3>4. Formed(r)
        BY <1>t, <2>1, <3>3 DEF Formed, NotInserted, Uploaded, Knowing
      <3> QED
        BY <1>t, <3>1, <3>3, <3>4, PutTyped
    <2>3. WithId(req[s].id) \subseteq Row
      BY <1>t DEF WithId, Live
    <2>4. RequestsTyped'
      BY <1>1, <1>t, <2>1, <2>2, <2>3, GotoTyped DEF RemoveFindRow
    <2> QED
      BY <1>1, <2>4, SameStores DEF RemoveFindRow
  <1>2. CASE RemoveReadState(s)
    <2>1. req[s].pc = "remove.state"
      BY <1>2 DEF RemoveReadState, At
    <2>2. Follows("rest.row", s) /\ Follows("remove.list", s)
      BY <2>1, Vocabulary DEF Follows, NotInserted, Uploaded, Knowing
    <2>3. RequestsTyped'
      BY <1>2, <1>t, <2>1, <2>2, GotoTyped, RemovedTyped, Vocabulary DEF RemoveReadState
    <2> QED
      BY <1>2, <2>3, SameStores DEF RemoveReadState
  <1>3. CASE StartTasks(s)
    <2>1. req[s].pc = "remove.list" /\ Follows("remove.wait", s)
      BY <1>3, Vocabulary DEF StartTasks, At, Follows, NotInserted, Uploaded, Knowing
    <2>2. RequestsTyped'
      BY <1>3, <1>t, <2>1, AnswerTyped, LocalTyped, Vocabulary DEF StartTasks
    <2>3. req[s].op \in 1 .. MaxOps /\ req[s].ident \in Identity /\ req[s].id \in 0 .. MaxOps
      BY <1>t, <2>1, BoundAssumption DEF Formed, Knowing, Request
    <2>4. \A w \in {"row", "dir", "container"}, n \in 0 .. MaxOps :
            [op |-> req[s].op, what |-> w, id |-> n, identity |-> req[s].ident] \in Task
      BY <2>3 DEF Task
    <2>5. \A m \in OnIdentity("myst", req[s].ident) : m.id \in 0 .. MaxOps
      BY <1>t, BoundAssumption DEF OnIdentity, OfKind, Container
    <2>6. 0 \in 0 .. MaxOps
      BY BoundAssumption
    <2>7. tasks' \subseteq Task
      BY <1>3, <1>t, <2>3, <2>4, <2>5, <2>6 DEF StartTasks
    <2> QED
      BY <1>3, <2>2, <2>7 DEF StartTasks, TypeInv, TypeOK, RequestsTyped
  <1>4. CASE JoinTasks(s)
    <2>1. req[s].pc = "remove.wait"
      BY <1>4 DEF JoinTasks, At
    <2>2. RequestsTyped'
      BY <1>4, <1>t, <2>1, RemovedTyped, Vocabulary DEF JoinTasks
    <2> QED
      BY <1>4, <2>2, SameStores DEF JoinTasks
  <1> QED
    BY <1>1, <1>2, <1>3, <1>4

LEMMA RestTyped ==
  ASSUME TypeInv, NEW s \in Slots,
         RestFindRow(s) \/ RestList(s) \/ RestRemoveRunner(s) \/ RestRemoveFile(s)
  PROVE  TypeInv'
  <1>t. RequestsTyped /\ containers \subseteq Container /\ faults \in 0 .. MaxFaults
    BY DEF TypeInv, TypeOK
  <1>1. req[s].pc \in {"rest.row", "rest.list", "rest.remove", "rest.file"}
    BY DEF RestFindRow, RestList, RestRemoveRunner, RestRemoveFile, At
  <1>2. Follows("rest.list", s) /\ Follows("rest.remove", s) /\ Follows("rest.file", s)
    BY <1>1, Vocabulary DEF Follows, NotInserted, Uploaded, Knowing
  <1>3. CASE RestFindRow(s)
    <2>1. (WithId(req[s].id) # {}) \in BOOLEAN
      OBVIOUS
    <2>2. RequestsTyped'
      BY <1>3, <1>t, <1>2, <2>1, LocalTyped DEF RestFindRow
    <2> QED
      BY <1>3, <2>2, SameStores DEF RestFindRow
  <1>4. CASE RestList(s)
    <2>1. \A m \in OfKind("myst") : m.id \in 0 .. MaxOps
      BY <1>t, BoundAssumption DEF OfKind, Container
    <2>2. RequestsTyped'
      BY <1>4, <1>t, <1>2, <2>1, GotoTyped, LocalTyped DEF RestList
    <2> QED
      BY <1>4, <2>2, SameStores DEF RestList
  <1>5. CASE RestRemoveRunner(s)
    <2>1. RequestsTyped'
      BY <1>5, <1>t, <1>2, LocalTyped DEF RestRemoveRunner
    <2>2. containers' \subseteq Container /\ faults' = faults
      BY <1>5, <1>t DEF RestRemoveRunner, Without
    <2> QED
      BY <1>5, <1>t, <2>1, <2>2, ContainersTyped DEF RestRemoveRunner
  <1>6. CASE RestRemoveFile(s)
    <2>1. RequestsTyped'
      BY <1>6, <1>t, <1>1, RemovedTyped, Vocabulary DEF RestRemoveFile
    <2> QED
      BY <1>6, <2>1, SameStores DEF RestRemoveFile
  <1> QED
    BY <1>3, <1>4, <1>5, <1>6

LEMMA UpDownTyped ==
  ASSUME TypeInv, NEW s \in Slots, UpDown(s)
  PROVE  TypeInv'
  <1>t. /\ RequestsTyped /\ req[s] \in Request /\ Formed(req[s]) /\ DOMAIN req = Slots
        /\ containers \subseteq Container /\ rows \subseteq Row /\ faults \in 0 .. MaxFaults
    BY DEF TypeInv, TypeOK, RequestsTyped
  <1>1. CASE UpPickIdentity(s)
    <2>1. req[s].pc = "up.pick"
      BY <1>1 DEF UpPickIdentity, At
    <2>2. ASSUME NEW i \in Identity, NEW n \in 0 .. MaxOps,
                 req' = [req EXCEPT ![s].pc = "up.runner", ![s].ident = i, ![s].id = n]
          PROVE  RequestsTyped'
      <3> DEFINE r == [req[s] EXCEPT !.pc = "up.runner", !.ident = i, !.id = n]
      <3>1. req' = [req EXCEPT ![s] = r]
        BY <2>2, <1>t, Zenon
      <3>2. "up.runner" \in PCs
        BY DEF PCs
      <3>3. r \in Request /\ r.pc = "up.runner" /\ r.op = req[s].op /\ r.ident = i
        BY <1>t, <3>2 DEF Request
      <3> HIDE DEF r
      <3>4. Formed(r)
        BY <1>t, <2>1, <3>3 DEF Formed, NotInserted, Uploaded
      <3> QED
        BY <1>t, <3>1, <3>3, <3>4, PutTyped
    <2>3. \A i : \A x \in RowsOf(i) : x.id \in 0 .. MaxOps
      BY <1>t, BoundAssumption DEF RowsOf, Live, Row
    <2>a. \/ Answer(s, "NotFound")
          \/ \E i \in Identity : \E x \in RowsOf(i) :
               req' = [req EXCEPT ![s].pc = "up.runner", ![s].ident = i, ![s].id = x.id]
      BY <1>1 DEF UpPickIdentity
    <2>b. ASSUME NEW i \in Identity, NEW x \in RowsOf(i),
                 req' = [req EXCEPT ![s].pc = "up.runner", ![s].ident = i, ![s].id = x.id]
          PROVE  RequestsTyped'
      BY <2>2, <2>3, <2>b
    <2>4. RequestsTyped'
      BY <1>t, <2>1, <2>a, <2>b, AnswerTyped, Vocabulary
    <2> QED
      BY <1>1, <2>4, SameStores DEF UpPickIdentity
  <1>2. CASE UpCheckRunner(s)
    <2>1. req[s].pc = "up.runner" /\ Follows("up.connect", s)
      BY <1>2, Vocabulary DEF UpCheckRunner, At, Follows, NotInserted, Uploaded, Knowing
    <2>2. RequestsTyped'
      BY <1>2, <1>t, <2>1, GotoTyped, AnswerTyped, Vocabulary DEF UpCheckRunner
    <2> QED
      BY <1>2, <2>2, SameStores DEF UpCheckRunner
  <1>3. CASE UpConnect(s)
    <2>1. req[s].pc = "up.connect"
      BY <1>3 DEF UpConnect, At
    <2>2. RequestsTyped'
      BY <1>3, <1>t, <2>1, AnswerTyped, Vocabulary DEF UpConnect
    <2>3. req[s].op \in 1 .. MaxOps /\ req[s].ident \in Identity
      BY <1>t, <2>1, BoundAssumption DEF Formed, Knowing, Request
    <2>4. \A m \in containers :
            [kind |-> "connect", id |-> req[s].op, identity |-> req[s].ident, row |-> 0,
             on |-> m.id, status |-> "running"] \in Container
      BY <1>t, <2>3, BoundAssumption DEF Container
    <2>5. containers' \subseteq Container /\ faults' = faults
      BY <1>3, <1>t, <2>4 DEF UpConnect, OnIdentity, OfKind
    <2> QED
      BY <1>3, <1>t, <2>2, <2>5, ContainersTyped DEF UpConnect
  <1>4. CASE DownRemove(s)
    <2>1. req[s].pc = "down.remove"
      BY <1>4 DEF DownRemove, At
    <2>2. RequestsTyped'
      BY <1>4, <1>t, <2>1, AnswerTyped, Vocabulary DEF DownRemove
    <2>3. containers' \subseteq Container /\ faults' = faults
      BY <1>4, <1>t DEF DownRemove, Without
    <2> QED
      BY <1>4, <1>t, <2>2, <2>3, ContainersTyped DEF DownRemove
  <1> QED
    BY <1>1, <1>2, <1>3, <1>4 DEF UpDown

LEMMA BeginTyped ==
  ASSUME TypeInv, NEW s \in Slots, Begin(s)
  PROVE  TypeInv'
  <1>t. /\ RequestsTyped /\ ops \in 0 .. MaxOps /\ uploads \subseteq 1 .. MaxOps
        /\ rows \subseteq Row /\ containers \subseteq Container
    BY DEF TypeInv, TypeOK
  <1>1. /\ ops' = ops + 1 /\ ops' <= IF overlapped' THEN MaxParallel ELSE MaxOps
        /\ overlapped' = (overlapped \/ \E t \in Slots : ~At(t, "idle"))
        /\ UNCHANGED <<dirs, keys, rows, containers, tasks, erased, faults>>
    BY DEF Begin
  <1>2. ops' \in 1 .. MaxOps
    BY <1>t, <1>1, BoundAssumption
  <1>3. overlapped' \in BOOLEAN
    BY <1>1 DEF TypeInv, TypeOK
  <1>d. DOMAIN req = Slots
    BY <1>t DEF RequestsTyped
  <1>4. ASSUME NEW r \in Request, r.op = ops + 1, r.pc \notin Knowing,
               r.pc \in NotInserted => r.password \in Password,
               req' = [req EXCEPT ![s] = r], uploads' \subseteq uploads \cup {ops + 1}
        PROVE  TypeInv'
    <2>1. Formed(r)
      BY <1>1, <1>2, <1>4 DEF Formed
    <2>2. RequestsTyped'
      BY <1>t, <1>4, <2>1, PutTyped
    <2>3. uploads' \subseteq 1 .. MaxOps
      BY <1>t, <1>1, <1>2, <1>4
    <2> QED
      BY <1>1, <1>2, <1>3, <2>2, <2>3 DEF TypeInv, TypeOK, RequestsTyped
  <1>5. ASSUME NEW i \in Identity \cup {NoIdentity}, NEW k \in Password, NEW w \in Password,
               req' = [req EXCEPT ![s] = [Idle EXCEPT
                 !.pc = "add.look", !.op = ops + 1, !.content = i, !.locked = k,
                 !.password = w]],
               uploads' = uploads \cup {ops + 1}
        PROVE  TypeInv'
    <2> DEFINE r == [Idle EXCEPT !.pc = "add.look", !.op = ops + 1, !.content = i,
                                 !.locked = k, !.password = w]
    <2>1. /\ r \in Request /\ r.op = ops + 1 /\ r.pc = "add.look" /\ r.password = w
      <3>1. "add.look" \in PCs /\ ops + 1 \in 0 .. MaxOps
        BY <1>1, <1>2 DEF PCs
      <3> QED
        BY <3>1, IdleTyped DEF Request
    <2>2. req' = [req EXCEPT ![s] = r]
      BY <1>5
    <2> HIDE DEF r
    <2> QED
      BY <1>4, <1>5, <2>1, <2>2 DEF Knowing
  <1>6. ASSUME NEW x \in rows,
               req' = [req EXCEPT ![s] = [Idle EXCEPT
                 !.pc = "remove.row", !.kind = "remove", !.op = ops + 1, !.id = x.id,
                 !.ident = x.identity]],
               UNCHANGED uploads
        PROVE  TypeInv'
    <2>2. x.id \in 0 .. MaxOps /\ x.identity \in Identity
      BY <1>t, BoundAssumption DEF Row
    <2> DEFINE r == [Idle EXCEPT !.pc = "remove.row", !.kind = "remove", !.op = ops + 1,
                                 !.id = x.id, !.ident = x.identity]
    <2>3. r \in Request /\ r.op = ops + 1 /\ r.pc = "remove.row"
      <3>1. "remove.row" \in PCs /\ ops + 1 \in 0 .. MaxOps
        BY <1>1, <1>2, Vocabulary
      <3> QED
        BY <3>1, IdleTyped, <2>2 DEF Request
    <2>4. req' = [req EXCEPT ![s] = r]
      BY <1>6
    <2> HIDE DEF r
    <2> QED
      BY <1>4, <1>6, <2>3, <2>4 DEF Knowing, NotInserted, Uploaded
  <1>7. ASSUME req' = [req EXCEPT ![s] = [Idle EXCEPT
                 !.pc = "up.pick", !.kind = "up", !.op = ops + 1]],
               UNCHANGED uploads
        PROVE  TypeInv'
    <2> DEFINE r == [Idle EXCEPT !.pc = "up.pick", !.kind = "up", !.op = ops + 1]
    <2>3. r \in Request /\ r.op = ops + 1 /\ r.pc = "up.pick"
      <3>1. "up.pick" \in PCs /\ ops + 1 \in 0 .. MaxOps
        BY <1>1, <1>2, Vocabulary
      <3> QED
        BY <3>1, IdleTyped DEF Request
    <2>4. req' = [req EXCEPT ![s] = r]
      BY <1>7
    <2> HIDE DEF r
    <2> QED
      BY <1>4, <1>7, <2>3, <2>4 DEF Knowing, NotInserted, Uploaded
  <1>8. ASSUME NEW c \in OfKind("connect"),
               req' = [req EXCEPT ![s] = [Idle EXCEPT
                 !.pc = "down.remove", !.kind = "down", !.op = ops + 1, !.target = c.id]],
               UNCHANGED uploads
        PROVE  TypeInv'
    <2>2. c.id \in 0 .. MaxOps
      BY <1>t, BoundAssumption DEF OfKind, Container
    <2> DEFINE r == [Idle EXCEPT !.pc = "down.remove", !.kind = "down", !.op = ops + 1,
                                 !.target = c.id]
    <2>3. r \in Request /\ r.op = ops + 1 /\ r.pc = "down.remove"
      <3>1. "down.remove" \in PCs /\ ops + 1 \in 0 .. MaxOps
        BY <1>1, <1>2, Vocabulary
      <3> QED
        BY <3>1, IdleTyped, <2>2 DEF Request
    <2>4. req' = [req EXCEPT ![s] = r]
      BY <1>8
    <2> HIDE DEF r
    <2> QED
      BY <1>4, <1>8, <2>3, <2>4 DEF Knowing, NotInserted, Uploaded
  <1> QED
    BY <1>5, <1>6, <1>7, <1>8 DEF Begin

LEMMA ReplyTyped == ASSUME TypeInv, NEW s \in Slots, Reply(s) PROVE TypeInv'
  <1>1. RequestsTyped'
    BY IdleTyped, PutTyped DEF Reply, TypeInv
  <1> QED
    BY <1>1, SameStores DEF Reply

LEMMA FailTyped == ASSUME TypeInv, NEW s \in Slots, Fail(s) PROVE TypeInv'
  <1>t. RequestsTyped /\ req[s] \in Request /\ Formed(req[s]) /\ DOMAIN req = Slots
    BY DEF TypeInv, RequestsTyped
  <1> DEFINE l == IF req[s].pc \in {"unlock", "register"} THEN "remove.row" ELSE "done"
             w == IF At(s, "unlock") \/ At(s, "register") THEN "Repository" ELSE req[s].why
             o == IF At(s, "unlock") \/ At(s, "register") THEN req[s].out
                  ELSE IF req[s].why = "none" THEN "Repository" ELSE "Combine"
             r == [req[s] EXCEPT !.clean = FALSE, !.pc = l, !.why = w, !.out = o]
  <1>2. DOMAIN req' = Slots /\ (\A t \in Slots \ {s} : req'[t] = req[t]) /\ req'[s] = r
    BY <1>t DEF Fail, Request
  <1>3. l \in PCs /\ w \in Outcomes /\ o \in Outcomes /\ l \in {"remove.row", "done"}
    BY <1>t, Vocabulary DEF Request
  <1>4. req[s].pc # "idle" /\ faults < MaxFaults /\ faults' = faults + 1
        /\ UNCHANGED <<stores, overlapped, ops>>
    BY DEF Fail
  <1> HIDE DEF l, w, o
  <1>5. r \in Request /\ r.pc = l /\ r.op = req[s].op
    BY <1>t, <1>3 DEF Request
  <1> HIDE DEF r
  <1>6. Formed(r)
    BY <1>t, <1>3, <1>4, <1>5 DEF Formed, NotInserted, Uploaded, Knowing
  <1>7. req' = [req EXCEPT ![s] = r]
    BY <1>t, <1>2 DEF Fail
  <1>8. RequestsTyped'
    BY <1>t, <1>5, <1>6, <1>7, PutTyped
  <1>9. faults' \in 0 .. MaxFaults
    BY <1>4, BoundAssumption DEF TypeInv, TypeOK
  <1> QED
    BY <1>4, <1>8, <1>9 DEF TypeInv, TypeOK, RequestsTyped, stores

LEMMA RunTaskTyped == ASSUME TypeInv, NEW t \in tasks, RunTask(t) PROVE TypeInv'
  <1>t. /\ TypeOK /\ t \in Task /\ t.identity \in Identity
    BY DEF TypeInv, TypeOK, Task
  <1>1. /\ UNCHANGED <<uploads, req, overlapped, ops, faults>>
        /\ tasks' \subseteq Task
    BY <1>t DEF RunTask, TypeOK
  <1>2. RequestsTyped'
    BY <1>1 DEF TypeInv, RequestsTyped
  <1>3. CASE /\ rows' = {IF x.id = t.id THEN [x EXCEPT !.live = FALSE] ELSE x : x \in rows}
             /\ UNCHANGED <<dirs, keys, containers, erased>>
    <2>1. \A x \in Row : [x EXCEPT !.live = FALSE] \in Row
      BY DEF Row
    <2>2. rows' \subseteq Row
      BY <1>t, <1>3, <2>1 DEF TypeOK
    <2> QED
      BY <1>t, <1>1, <1>2, <1>3, <2>2 DEF TypeInv, TypeOK, RequestsTyped
  <1>4. CASE /\ dirs' = dirs \ {t.identity}
             /\ keys' = [keys EXCEPT ![t.identity] = NoPassword]
             /\ erased' = erased \cup {t.identity}
             /\ UNCHANGED <<rows, containers>>
    <2>1. keys \in [Identity -> Password \cup {NoPassword}]
          /\ \A i \in Identity : keys[i] # NoPassword => i \in dirs
      BY <1>t DEF TypeOK
    <2>2. keys' \in [Identity -> Password \cup {NoPassword}]
          /\ \A i \in Identity : keys'[i] # NoPassword => i \in dirs'
      BY <1>t, <1>4, <2>1
    <2> QED
      BY <1>t, <1>1, <1>2, <1>4, <2>2 DEF TypeInv, TypeOK, RequestsTyped
  <1>5. CASE containers' = Without("myst", t.id) /\ UNCHANGED <<dirs, keys, rows, erased>>
    <2>1. containers' \subseteq Container
      BY <1>t, <1>5 DEF Without, TypeOK
    <2> QED
      BY <1>t, <1>1, <1>2, <1>5, <2>1 DEF TypeInv, TypeOK, RequestsTyped
  <1> QED
    BY <1>3, <1>4, <1>5 DEF RunTask

LEMMA TaskFailsTyped == ASSUME TypeInv, NEW t \in tasks, TaskFails(t) PROVE TypeInv'
  <1>t. RequestsTyped
    BY DEF TypeInv
  <1>1. ASSUME NEW q \in Request
        PROVE  LET r == [q EXCEPT !.failed = TRUE, !.clean = FALSE]
               IN  /\ r \in Request /\ r.pc = q.pc /\ r.op = q.op
                   /\ r.password = q.password /\ r.ident = q.ident
    BY DEF Request
  <1>2. ASSUME NEW s \in Slots
        PROVE  /\ req'[s] \in Request /\ req'[s].pc = req[s].pc /\ req'[s].op = req[s].op
               /\ req'[s].password = req[s].password /\ req'[s].ident = req[s].ident
    <2>1. req[s] \in Request
      BY <1>t DEF RequestsTyped
    <2>2. CASE req[s].op = t.op
      <3>1. req'[s] = [req[s] EXCEPT !.failed = TRUE, !.clean = FALSE]
        BY <2>2 DEF TaskFails
      <3> QED
        BY <1>1, <2>1, <3>1
    <2>3. CASE req[s].op # t.op
      BY <2>1, <2>3 DEF TaskFails
    <2> QED
      BY <2>2, <2>3
  <1>3. req' \in [Slots -> Request]
    BY <1>2 DEF TaskFails
  <1>4. RequestsTyped'
    BY <1>t, <1>2, <1>3 DEF RequestsTyped, Formed
  <1>5. faults' \in 0 .. MaxFaults
    <2>1. faults \in 0 .. MaxFaults /\ faults < MaxFaults /\ faults' = faults + 1
      BY DEF TaskFails, TypeInv, TypeOK
    <2> QED
      BY <2>1, BoundAssumption
  <1>6. tasks' \subseteq Task
    BY DEF TaskFails, TypeInv, TypeOK
  <1> QED
    BY <1>4, <1>5, <1>6 DEF TaskFails, TypeInv, TypeOK, RequestsTyped

LEMMA CrashTyped == ASSUME TypeInv, Crash PROVE TypeInv'
  <1>t. RequestsTyped
    BY DEF TypeInv
  <1>1. "done" \in PCs /\ "Repository" \in Outcomes
    BY Vocabulary
  <1>2. ASSUME NEW q \in Request
        PROVE  LET r == [q EXCEPT !.pc = "done", !.out = "Repository", !.clean = FALSE]
               IN  r \in Request /\ r.pc = "done" /\ r.op = q.op
    BY <1>1 DEF Request
  <1>3. ASSUME NEW s \in Slots
        PROVE  /\ req'[s] \in Request
               /\ \/ req'[s] = req[s]
                  \/ req'[s].pc = "done" /\ req'[s].op = req[s].op /\ req[s].pc # "idle"
    <2>1. req[s] \in Request
      BY <1>t DEF RequestsTyped
    <2>2. CASE At(s, "idle")
      BY <2>1, <2>2 DEF Crash
    <2>3. CASE ~At(s, "idle")
      <3>1. req'[s] = [req[s] EXCEPT !.pc = "done", !.out = "Repository", !.clean = FALSE]
        BY <2>3 DEF Crash
      <3> QED
        BY <1>2, <2>1, <2>3, <3>1 DEF At
    <2> QED
      BY <2>2, <2>3
  <1>4. req' \in [Slots -> Request]
    BY <1>3 DEF Crash
  <1>5. RequestsTyped'
    BY <1>t, <1>3, <1>4 DEF RequestsTyped, Formed, NotInserted, Uploaded, Knowing
  <1>6. faults' \in 0 .. MaxFaults
    <2>1. faults \in 0 .. MaxFaults /\ faults < MaxFaults /\ faults' = faults + 1
      BY DEF Crash, TypeInv, TypeOK
    <2> QED
      BY <2>1, BoundAssumption
  <1>7. tasks' \subseteq Task
    BY DEF Crash
  <1> QED
    BY <1>5, <1>6, <1>7 DEF Crash, TypeInv, TypeOK, RequestsTyped

LEMMA TypesHold == Spec => []TypeInv
  <1>1. Init => TypeInv
    <2> SUFFICES ASSUME Init PROVE TypeInv
      OBVIOUS
    <2>1. RequestsTyped
      BY IdleTyped DEF Init, RequestsTyped
    <2>2. keys \in [Identity -> Password \cup {NoPassword}]
      BY DEF Init
    <2>3. TypeOK
      <3>1. ops \in 0 .. MaxOps /\ faults \in 0 .. MaxFaults /\ overlapped \in BOOLEAN
        <4>1. ops = 0 /\ faults = 0
          BY DEF Init
        <4>2. ops \in 0 .. MaxOps /\ faults \in 0 .. MaxFaults
          BY <4>1, BoundAssumption
        <4>3. overlapped \in BOOLEAN
          BY Zenon DEF Init
        <4> QED
          BY <4>2, <4>3
      <3>2. /\ uploads = {} /\ dirs = {} /\ rows = {} /\ containers = {} /\ tasks = {}
            /\ erased = {} /\ \A i \in Identity : keys[i] = NoPassword
        BY DEF Init
      <3>3. req \in [Slots -> Request]
        BY <2>1 DEF RequestsTyped
      <3> QED
        BY <2>2, <3>1, <3>2, <3>3 DEF TypeOK
    <2> QED
      BY <2>1, <2>3 DEF TypeInv
  <1>2. TypeInv /\ [Next]_vars => TypeInv'
    <2> SUFFICES ASSUME TypeInv, [Next]_vars PROVE TypeInv'
      OBVIOUS
    <2>1. ASSUME UNCHANGED vars PROVE TypeInv'
      BY <2>1 DEF vars, stores, TypeInv, TypeOK, RequestsTyped
    <2> QED
      BY <2>1, BeginTyped, AddFileTyped, AddRowTyped, AddRunnerTyped, AddDaemonTyped,
         RemoveTyped, RestTyped, UpDownTyped, FailTyped, ReplyTyped, RunTaskTyped,
         TaskFailsTyped, CrashTyped DEF Next, Add, Remove
  <1> QED
    BY <1>1, <1>2, PTL DEF Spec

(* Uploads, rows, keys, containers, tasks and requests keep their types,   *)
(* and a key lies in a directory that is there, whatever overlaps or fails *)
(* (myst-identity-aggregate.repository.ts, add and remove).                *)
THEOREM TypeCorrect == Spec => []TypeOK
  <1>1. TypeInv => TypeOK
    BY DEF TypeInv
  <1> QED
    BY <1>1, TypesHold, PTL

-----------------------------------------------------------------------------
(* The registry.  While no two requests overlapped so far: the parts of a  *)
(* removal belong to the one request that waits for them, and their        *)
(* identity serves no provider; what a removal or an `up` has read of an   *)
(* identity still holds when it acts on it; and a connection is known by   *)
(* its number.                                                             *)
Connects == OfKind("connect")

Fits(x) == \A y \in rows : y.id = x.id => y.identity = x.identity

TasksOK ==
  \A t \in tasks :
    /\ \E s \in Slots : At(s, "remove.wait") /\ req[s].op = t.op
    /\ ~InUse(t.identity)
    /\ t.what = "row" => Fits(t)

SlotOK(s) ==
  LET r == req[s] IN
  /\ r.pc \in {"remove.state", "remove.list"} =>
       \A y \in rows : y.id = r.id => y.identity = r.ident
  /\ r.pc = "remove.list" => ~InUse(r.ident) /\ OnIdentity("myst", r.ident) # {}
  /\ r.pc \in {"up.runner", "up.connect"} =>
       RowsOf(r.ident) # {} /\ HasKey(r.ident) /\ ~InUse(r.ident)
  /\ r.pc \in {"up.pick", "up.runner", "up.connect"} => \A c \in Connects : c.id # r.op

ConnectsOK ==
  /\ \A c \in Connects : c.id <= ops
  /\ \A c, d \in Connects : c.id = d.id => c.identity = d.identity

Alone == \A s, t \in Slots : s = t \/ At(s, "idle") \/ At(t, "idle")

AloneInv ==
  ~overlapped => Alone /\ TasksOK /\ ConnectsOK /\ \A s \in Slots : SlotOK(s)

(* Other slots are idle while one is not.                                  *)
LEMMA OthersIdle ==
  ASSUME AloneInv, ~overlapped, NEW s \in Slots, ~At(s, "idle")
  PROVE  /\ \A t \in Slots \ {s} : At(t, "idle")
         /\ ~At(s, "remove.wait") => tasks = {}
         /\ TasksOK /\ ConnectsOK /\ SlotOK(s)
  <1>1. Alone /\ TasksOK /\ ConnectsOK /\ SlotOK(s)
    BY DEF AloneInv
  <1>2. \A t \in Slots \ {s} : At(t, "idle")
    BY <1>1 DEF Alone
  <1>3. ~At(s, "remove.wait") => tasks = {}
    BY <1>1, <1>2 DEF TasksOK, At
  <1> QED
    BY <1>1, <1>2, <1>3

Others(s) == \A t \in Slots \ {s} : req'[t] = req[t]

LEMMA OneMoves ==
  ASSUME AloneInv, ~overlapped', UNCHANGED <<overlapped, ops>>, NEW s \in Slots,
         ~At(s, "idle"), Others(s), tasks' = {}, Connects' \subseteq Connects, SlotOK(s)'
  PROVE  AloneInv'
  <1>1. /\ \A t \in Slots \ {s} : At(t, "idle")
        /\ ConnectsOK
    BY OthersIdle
  <1>2. \A t \in Slots \ {s} : At(t, "idle")'
    BY <1>1 DEF Others, At
  <1>3. Alone'
    BY <1>2 DEF Alone
  <1>4. ASSUME NEW t \in Slots PROVE SlotOK(t)'
    <2>1. CASE t = s
      BY <2>1
    <2>2. CASE t # s
      <3>1. At(t, "idle")'
        BY <1>2, <2>2
      <3> QED
        BY <3>1 DEF SlotOK, At
    <2> QED
      BY <2>1, <2>2
  <1>5. TasksOK'
    BY DEF TasksOK
  <1>6. ConnectsOK'
    BY <1>1 DEF ConnectsOK
  <1> QED
    BY <1>3, <1>4, <1>5, <1>6 DEF AloneInv

(* Places at which a request relies on nothing.                            *)
Watched == {"remove.state", "remove.list", "up.pick", "up.runner", "up.connect"}

LEMMA Unwatched ==
  ASSUME NEW s \in Slots, req'[s].pc \notin Watched PROVE SlotOK(s)'
  BY DEF SlotOK, Watched

LEMMA OneRests ==
  ASSUME AloneInv, ~overlapped', UNCHANGED <<overlapped, ops>>, NEW s \in Slots,
         ~At(s, "idle"), Others(s), tasks' = tasks, ~At(s, "remove.wait") \/ tasks = {},
         Connects' \subseteq Connects, req'[s].pc \notin Watched
  PROVE  AloneInv'
  <1>1. ~overlapped
    OBVIOUS
  <1>2. tasks = {}
    BY <1>1, OthersIdle
  <1> QED
    BY <1>2, OneMoves, Unwatched

(* What the ways to leave a place do to the requests.                      *)
LEMMA Leaving ==
  ASSUME RequestsTyped, NEW s \in Slots
  PROVE  /\ \A l : Goto(s, l) =>
              /\ Others(s) /\ req'[s].pc = l /\ req'[s].ident = req[s].ident
              /\ req'[s].id = req[s].id /\ req'[s].op = req[s].op
         /\ \A o : Answer(s, o) => Others(s) /\ req'[s].pc = "done"
         /\ \A o : Rollback(s, o) => Others(s) /\ req'[s].pc = "remove.row"
         /\ \A o : Removed(s, o) => Others(s) /\ req'[s].pc = "done"
  <1>1. req \in [Slots -> Request]
    BY DEF RequestsTyped
  <1>2. \A o : Answer(s, o) => Others(s) /\ req'[s].pc = "done"
    BY <1>1 DEF Answer, Others, Request
  <1>3. \A o : Rollback(s, o) => Others(s) /\ req'[s].pc = "remove.row"
    BY <1>1 DEF Rollback, Others, Request
  <1>4. \A l : Goto(s, l) =>
              /\ Others(s) /\ req'[s].pc = l /\ req'[s].ident = req[s].ident
              /\ req'[s].id = req[s].id /\ req'[s].op = req[s].op
    BY <1>1 DEF Goto, Others, Request
  <1> QED
    BY <1>2, <1>3, <1>4 DEF Removed

(* MYST containers come and go without their connections.                  *)
LEMMA ConnectsStay ==
  ASSUME TypeOK
  PROVE  /\ \A i : {c \in Tidied(i) : c.kind = "connect"} = Connects
         /\ \A n : {c \in Without("myst", n) : c.kind = "connect"} = Connects
         /\ \A n : {c \in Without("connect", n) : c.kind = "connect"} =
                     {c \in Connects : c.id # n}
  BY DEF Tidied, Without, Connects, OfKind

AddStays(s) ==
  \/ AddLook(s) \/ ReadKey(s) \/ MakeDir(s) \/ CopyKey(s) \/ UnlinkUpload(s)
  \/ AddFindRow(s) \/ AddInsertRow(s) \/ ListOldRunner(s)
  \/ CheckRunner(s) \/ UnlockIdentity(s) \/ RegisterIdentity(s)

LEMMA AddStaysMoves ==
  ASSUME TypeInv, NEW s \in Slots, AddStays(s)
  PROVE  Others(s) /\ req'[s].pc \notin Watched
  <1>t. RequestsTyped /\ req \in [Slots -> Request]
    BY DEF TypeInv, RequestsTyped
  <1>1. CASE AddLook(s) \/ MakeDir(s) \/ CopyKey(s) \/ UnlinkUpload(s)
    BY <1>1, <1>t, Leaving DEF AddLook, MakeDir, CopyKey, UnlinkUpload, Watched
  <1>2. CASE ReadKey(s)
    <2>1. ASSUME req' = [req EXCEPT ![s].pc = "add.mkdir", ![s].ident = req[s].content]
          PROVE  Others(s) /\ req'[s].pc = "add.mkdir"
      BY <2>1, <1>t DEF Others, Request
    <2> QED
      BY <1>2, <1>t, <2>1, Leaving DEF ReadKey, Watched
  <1>3. CASE AddFindRow(s) \/ AddInsertRow(s)
    <2>1. ASSUME NEW x,
                 req' = [req EXCEPT ![s].pc = "runner.list", ![s].row = {x}, ![s].id = x.id]
          PROVE  Others(s) /\ req'[s].pc = "runner.list"
      BY <2>1, <1>t DEF Others, Request
    <2>2. CASE AddFindRow(s)
      <3>1. \/ Goto(s, "add.insert")
            \/ \E x \in RowsOf(req[s].ident) :
                 req' = [req EXCEPT ![s].pc = "runner.list", ![s].row = {x}, ![s].id = x.id]
        BY <2>2 DEF AddFindRow
      <3>2. ASSUME NEW x \in RowsOf(req[s].ident),
                   req' = [req EXCEPT ![s].pc = "runner.list", ![s].row = {x}, ![s].id = x.id]
            PROVE  Others(s) /\ req'[s].pc = "runner.list"
        BY <2>1, <3>2
      <3>3. Goto(s, "add.insert") => Others(s) /\ req'[s].pc = "add.insert"
        BY <1>t, Leaving
      <3>4. Others(s) /\ req'[s].pc \in {"add.insert", "runner.list"}
        BY <3>1, <3>2, <3>3
      <3> QED
        BY <3>4 DEF Watched
    <2>3. CASE AddInsertRow(s)
      <3> DEFINE x == [id |-> req[s].op, identity |-> req[s].ident,
                       password |-> req[s].password, live |-> TRUE]
      <3>1. \/ Answer(s, "Repository")
            \/ req' = [req EXCEPT ![s].pc = "runner.list", ![s].row = {x}, ![s].id = x.id]
        BY <2>3 DEF AddInsertRow
      <3> HIDE DEF x
      <3> QED
        BY <1>t, <2>1, <3>1, Leaving DEF Watched
    <2> QED
      BY <1>3, <2>2, <2>3
  <1>4. CASE ListOldRunner(s) \/ CheckRunner(s)
    <2>1. ASSUME NEW l, NEW n, req' = [req EXCEPT ![s].pc = l, ![s].target = n]
          PROVE  Others(s) /\ req'[s].pc = l
      BY <2>1, <1>t DEF Others, Request
    <2> QED
      BY <1>4, <1>t, <2>1, Leaving DEF ListOldRunner, CheckRunner, Watched
  <1>5. CASE UnlockIdentity(s) \/ RegisterIdentity(s)
    BY <1>5, <1>t, Leaving DEF UnlockIdentity, RegisterIdentity, Watched
  <1> QED
    BY <1>1, <1>2, <1>3, <1>4, <1>5 DEF AddStays

LEMMA AddStaysAlone ==
  ASSUME TypeInv, AloneInv, ~overlapped', NEW s \in Slots, AddStays(s)
  PROVE  AloneInv' /\ Connects' = Connects
  <1>1. UNCHANGED <<overlapped, ops, tasks, containers>>
    BY DEF AddStays, stores, AddLook, ReadKey, MakeDir, CopyKey, UnlinkUpload, AddFindRow,
           AddInsertRow, ListOldRunner, CheckRunner, UnlockIdentity, RegisterIdentity
  <1>2. ~At(s, "idle") /\ ~At(s, "remove.wait")
    BY DEF AddStays, At, AddLook, ReadKey, MakeDir, CopyKey, UnlinkUpload, AddFindRow,
           AddInsertRow, ListOldRunner, CheckRunner, UnlockIdentity, RegisterIdentity
  <1>3. Connects' = Connects
    BY <1>1 DEF Connects, OfKind
  <1> QED
    BY <1>1, <1>2, <1>3, AddStaysMoves, OneRests

(* The MYST container of a creation.                                       *)
LEMMA RunnerAlone ==
  ASSUME TypeInv, AloneInv, ~overlapped', NEW s \in Slots,
         RemoveOldRunner(s) \/ CreateMyst(s) \/ StartMyst(s) \/ StartMystFails(s)
  PROVE  AloneInv' /\ Connects' = Connects
  <1>t. RequestsTyped /\ req \in [Slots -> Request] /\ TypeOK /\ containers \subseteq Container
    BY DEF TypeInv, RequestsTyped, TypeOK
  <1>1. UNCHANGED <<overlapped, ops, tasks>>
    BY DEF RemoveOldRunner, CreateMyst, StartMyst, StartMystFails
  <1>2. ~At(s, "idle") /\ ~At(s, "remove.wait")
    BY DEF RemoveOldRunner, CreateMyst, StartMyst, StartMystFails, At
  <1>3. Others(s) /\ req'[s].pc \notin Watched
    <2>1. CASE RemoveOldRunner(s) \/ CreateMyst(s) \/ StartMyst(s)
      BY <2>1, <1>t, Leaving DEF RemoveOldRunner, CreateMyst, StartMyst, Watched
    <2>2. CASE StartMystFails(s)
      <3>1. ASSUME req' = [req EXCEPT ![s].pc = "done", ![s].out = "Repository",
                                      ![s].clean = FALSE]
            PROVE  Others(s) /\ req'[s].pc = "done"
        BY <3>1, <1>t DEF Others, Request
      <3> QED
        BY <2>2, <3>1, <1>t, Leaving DEF StartMystFails, Watched
    <2> QED
      BY <2>1, <2>2
  <1>4. Connects' = Connects
    <2>0. Connects' = {c \in containers' : c.kind = "connect"}
      BY DEF Connects, OfKind
    <2>1. CASE RemoveOldRunner(s)
      BY <2>1, <2>0, <1>t, ConnectsStay DEF RemoveOldRunner
    <2>2. CASE CreateMyst(s)
      <3> DEFINE m == [kind |-> "myst", id |-> req[s].op, identity |-> req[s].ident,
                       row |-> req[s].id, on |-> 0, status |-> "created"]
      <3>1. containers' = Tidied(req[s].ident) \/ containers' = Tidied(req[s].ident) \cup {m}
        BY <2>2 DEF CreateMyst
      <3>2. m.kind = "myst"
        OBVIOUS
      <3> HIDE DEF m
      <3>3. {c \in containers' : c.kind = "connect"} =
              {c \in Tidied(req[s].ident) : c.kind = "connect"}
        BY <3>1, <3>2
      <3> QED
        BY <2>0, <3>3, <1>t, ConnectsStay
    <2>3. CASE StartMyst(s)
      <3> DEFINE mine == {c \in OfKind("myst") : c.id = req[s].op}
                 up(c) == [c EXCEPT !.status = "running"]
      <3>1. \/ containers' = Tidied(req[s].ident)
            \/ containers' = (containers \ mine) \cup {up(c) : c \in mine}
        BY <2>3 DEF StartMyst
      <3>2. \A c \in mine : c.kind = "myst" /\ up(c).kind = "myst"
        BY <1>t DEF OfKind, Container
      <3> HIDE DEF mine, up
      <3>3. CASE containers' = (containers \ mine) \cup {up(c) : c \in mine}
        BY <2>0, <3>2, <3>3 DEF Connects, OfKind
      <3>4. CASE containers' = Tidied(req[s].ident)
        BY <2>0, <3>4, <1>t, ConnectsStay
      <3> QED
        BY <3>1, <3>3, <3>4
    <2>4. CASE StartMystFails(s)
      BY <2>4, <2>0, <1>t, ConnectsStay DEF StartMystFails, Connects, OfKind
    <2> QED
      BY <2>1, <2>2, <2>3, <2>4
  <1> QED
    BY <1>1, <1>2, <1>3, <1>4, OneRests

(* Removals.                                                               *)
LEMMA RemoveAlone ==
  ASSUME TypeInv, IInv, AloneInv, ~overlapped', NEW s \in Slots, Remove(s)
  PROVE  AloneInv' /\ Connects' = Connects
  <1>o. overlapped' = overlapped
    BY DEF Remove, RemoveFindRow, RemoveReadState, StartTasks, JoinTasks, RestFindRow,
           RestList, RestRemoveRunner, RestRemoveFile
  <1>t. RequestsTyped /\ req \in [Slots -> Request] /\ TypeOK /\ ~overlapped
    BY <1>o DEF TypeInv, RequestsTyped
  <1>r. \A x, y \in rows : x.id = y.id => x.identity = y.identity
    BY DEF IInv, Numbers
  <1>1. CASE RemoveFindRow(s)
    <2>1. /\ UNCHANGED <<overlapped, ops, tasks, containers, rows>>
          /\ ~At(s, "idle") /\ ~At(s, "remove.wait")
      BY <1>1 DEF RemoveFindRow, stores, At
    <2>2. Connects' = Connects
      BY <2>1 DEF Connects, OfKind
    <2>3. CASE Goto(s, "rest.row")
      BY <1>t, <2>1, <2>2, <2>3, Leaving, OneRests DEF Watched
    <2>4. ASSUME NEW x \in WithId(req[s].id),
                 req' = [req EXCEPT ![s].pc = "remove.state", ![s].row = {x},
                                    ![s].ident = x.identity]
          PROVE  AloneInv'
      <3>1. Others(s) /\ req'[s].pc = "remove.state" /\ req'[s].ident = x.identity
            /\ req'[s].id = req[s].id
        BY <2>4, <1>t DEF Others, Request
      <3>2. x \in rows /\ x.id = req[s].id
        BY DEF WithId, Live
      <3>3. SlotOK(s)'
        BY <1>r, <2>1, <3>1, <3>2 DEF SlotOK
      <3>4. tasks = {}
        BY <1>t, <2>1, OthersIdle
      <3> QED
        BY <2>1, <2>2, <3>1, <3>3, <3>4, OneMoves
    <2> QED
      BY <1>1, <2>2, <2>3, <2>4 DEF RemoveFindRow
  <1>2. CASE RemoveReadState(s)
    <2>1. /\ UNCHANGED <<overlapped, ops, tasks, containers, rows>>
          /\ ~At(s, "idle") /\ ~At(s, "remove.wait")
      BY <1>2 DEF RemoveReadState, stores, At
    <2>2. Connects' = Connects
      BY <2>1 DEF Connects, OfKind
    <2>3. CASE \/ Goto(s, "rest.row") \/ \E o \in {"Repository", "InUse"} : Removed(s, o)
      BY <1>t, <2>1, <2>2, <2>3, Leaving, OneRests DEF Watched
    <2>4. CASE /\ Goto(s, "remove.list") /\ ~InUse(req[s].ident)
               /\ OnIdentity("myst", req[s].ident) # {}
      <3>1. /\ Others(s) /\ req'[s].pc = "remove.list" /\ req'[s].ident = req[s].ident
            /\ req'[s].id = req[s].id
        BY <1>t, <2>4, Leaving
      <3>2. \A y \in rows : y.id = req[s].id => y.identity = req[s].ident
        BY <1>2, <1>t, OthersIdle, <2>1 DEF SlotOK, RemoveReadState, At
      <3>3. InUse(req[s].ident)' = InUse(req[s].ident)
            /\ OnIdentity("myst", req[s].ident)' = OnIdentity("myst", req[s].ident)
        BY <2>1, <3>1 DEF InUse, OnIdentity, OfKind
      <3>4. SlotOK(s)'
        BY <2>1, <2>4, <3>1, <3>2, <3>3 DEF SlotOK, InUse, OnIdentity, OfKind
      <3>5. tasks = {}
        BY <1>t, <2>1, OthersIdle
      <3> QED
        BY <2>1, <2>2, <3>1, <3>4, <3>5, OneMoves
    <2>5. \/ Goto(s, "rest.row") \/ \E o \in {"Repository", "InUse"} : Removed(s, o)
          \/ /\ Goto(s, "remove.list") /\ ~InUse(req[s].ident)
             /\ OnIdentity("myst", req[s].ident) # {}
      BY <1>2 DEF RemoveReadState
    <2> QED
      BY <2>2, <2>3, <2>4, <2>5
  <1>3. CASE StartTasks(s)
    <2> DEFINE i == req[s].ident
    <2>1. /\ UNCHANGED <<overlapped, ops, containers, rows>> /\ At(s, "remove.list")
      BY <1>3 DEF StartTasks
    <2>2. Connects' = Connects
      BY <2>1 DEF Connects, OfKind
    <2>3. /\ \A t \in Slots \ {s} : At(t, "idle")
          /\ tasks = {} /\ ConnectsOK /\ SlotOK(s)
      BY <1>t, <2>1, OthersIdle DEF At
    <2>4. /\ \A y \in rows : y.id = req[s].id => y.identity = i
          /\ ~InUse(i) /\ OnIdentity("myst", i) # {}
      BY <2>1, <2>3 DEF SlotOK, At
    <2>5. PICK m \in OnIdentity("myst", i) :
            /\ tasks' = tasks \cup
                 {[op |-> req[s].op, what |-> "row", id |-> req[s].id, identity |-> i],
                  [op |-> req[s].op, what |-> "dir", id |-> 0, identity |-> i]} \cup
                 {[op |-> req[s].op, what |-> "container", id |-> m.id, identity |-> i]}
            /\ req' = [req EXCEPT ![s].pc = "remove.wait", ![s].failed = FALSE]
      BY <1>3, <2>4 DEF StartTasks
    <2>6. Others(s) /\ req'[s].pc = "remove.wait" /\ req'[s].op = req[s].op
      BY <1>t, <2>5 DEF Others, Request
    <2>7. \A t \in tasks' : /\ t.op = req[s].op /\ t.identity = i
                            /\ t.what = "row" => t.id = req[s].id
      BY <2>3, <2>5
    <2>8. \A j : (OnIdentity("connect", j) = {}) = (OnIdentity("connect", j) = {})'
      BY <2>1 DEF OnIdentity, OfKind
    <2>9. TasksOK'
      <3> SUFFICES ASSUME NEW t \in tasks'
                   PROVE  /\ \E q \in Slots : req'[q].pc = "remove.wait" /\ req'[q].op = t.op
                          /\ OnIdentity("connect", t.identity)' = {}
                          /\ t.what = "row" => \A y \in rows' : y.id = t.id => y.identity = t.identity
        BY DEF TasksOK, At, InUse, Fits
      <3>1. \E q \in Slots : req'[q].pc = "remove.wait" /\ req'[q].op = t.op
        BY <2>6, <2>7
      <3>2. OnIdentity("connect", t.identity)' = {}
        BY <2>4, <2>7, <2>8 DEF InUse
      <3> QED
        BY <2>1, <2>4, <2>7, <3>1, <3>2
    <2>10. \A t \in Slots \ {s} : At(t, "idle")'
      BY <2>3, <2>6 DEF Others, At
    <2>11. Alone' /\ \A t \in Slots : SlotOK(t)'
      BY <2>6, <2>10 DEF Alone, SlotOK, At
    <2>12. ConnectsOK'
      BY <2>1, <2>2, <2>3 DEF ConnectsOK
    <2> QED
      BY <2>2, <2>9, <2>11, <2>12 DEF AloneInv
  <1>4. CASE JoinTasks(s)
    <2>1. /\ UNCHANGED <<overlapped, ops, tasks, containers>> /\ ~At(s, "idle")
          /\ \A t \in tasks : t.op # req[s].op
      BY <1>4 DEF JoinTasks, stores, At
    <2>2. Connects' = Connects
      BY <2>1 DEF Connects, OfKind
    <2>3. tasks = {}
      <3>1. (\A t \in Slots \ {s} : At(t, "idle")) /\ TasksOK
        BY <1>t, <2>1, OthersIdle
      <3> QED
        BY <2>1, <3>1 DEF TasksOK, At
    <2>4. Others(s) /\ req'[s].pc = "done"
      BY <1>4, <1>t, Leaving DEF JoinTasks
    <2> QED
      BY <2>1, <2>2, <2>3, <2>4, OneRests DEF Watched
  <1>5. CASE RestFindRow(s) \/ RestList(s) \/ RestRemoveFile(s)
    <2>1. /\ UNCHANGED <<overlapped, ops, tasks, containers>>
          /\ ~At(s, "idle") /\ ~At(s, "remove.wait")
      BY <1>5 DEF RestFindRow, RestList, RestRemoveFile, stores, At
    <2>2. Connects' = Connects
      BY <2>1 DEF Connects, OfKind
    <2>3. ASSUME NEW l, NEW n, \/ req' = [req EXCEPT ![s].pc = l, ![s].target = n]
                               \/ req' = [req EXCEPT ![s].pc = l, ![s].path = n]
          PROVE  Others(s) /\ req'[s].pc = l
      BY <2>3, <1>t DEF Others, Request
    <2>4. Others(s) /\ req'[s].pc \notin Watched
      BY <1>5, <1>t, <2>3, Leaving DEF RestFindRow, RestList, RestRemoveFile, Watched
    <2> QED
      BY <2>1, <2>2, <2>4, OneRests
  <1>6. CASE RestRemoveRunner(s)
    <2>1. /\ UNCHANGED <<overlapped, ops, tasks>>
          /\ ~At(s, "idle") /\ ~At(s, "remove.wait")
      BY <1>6 DEF RestRemoveRunner, At
    <2>2. Connects' = Connects
      <3>1. Connects' = {c \in Without("myst", req[s].target) : c.kind = "connect"}
        BY <1>6 DEF RestRemoveRunner, Connects, OfKind
      <3> QED
        BY <3>1, <1>t, ConnectsStay
    <2>3. Others(s) /\ req'[s].pc \notin Watched
      BY <1>6, <1>t DEF RestRemoveRunner, Others, Request, Watched
    <2> QED
      BY <2>1, <2>2, <2>3, OneRests
  <1> QED
    BY <1>1, <1>2, <1>3, <1>4, <1>5, <1>6 DEF Remove

(* Providers.                                                              *)
LEMMA UpDownAlone ==
  ASSUME TypeInv, IInv, AloneInv, ~overlapped', NEW s \in Slots, UpDown(s)
  PROVE  AloneInv'
  <1>o. UNCHANGED <<overlapped, ops, tasks, rows, keys>> /\ ~At(s, "idle") /\ ~At(s, "remove.wait")
    BY DEF UpDown, UpPickIdentity, UpCheckRunner, UpConnect, DownRemove, stores, At
  <1>t. RequestsTyped /\ req \in [Slots -> Request] /\ TypeOK /\ ~overlapped
    BY <1>o DEF TypeInv, RequestsTyped
  <1>a. /\ \A t \in Slots \ {s} : At(t, "idle")
        /\ tasks = {} /\ ConnectsOK /\ SlotOK(s)
    BY <1>o, <1>t, OthersIdle
  <1>1. CASE UpPickIdentity(s)
    <2>1. Connects' = Connects /\ UNCHANGED containers
      BY <1>1 DEF UpPickIdentity, stores, Connects, OfKind
    <2>2. \/ Answer(s, "NotFound")
          \/ \E i \in {j \in Identity : Whole(j) /\ ~InUse(j)} : \E x \in RowsOf(i) :
               req' = [req EXCEPT ![s].pc = "up.runner", ![s].ident = i, ![s].id = x.id]
      BY <1>1 DEF UpPickIdentity
    <2>3. CASE Answer(s, "NotFound")
      BY <1>o, <1>t, <2>1, <2>3, Leaving, OneRests DEF Watched
    <2>4. ASSUME NEW i \in Identity, Whole(i), ~InUse(i), NEW x \in RowsOf(i),
                 req' = [req EXCEPT ![s].pc = "up.runner", ![s].ident = i, ![s].id = x.id]
          PROVE  AloneInv'
      <3>1. /\ Others(s) /\ req'[s].pc = "up.runner" /\ req'[s].ident = i
            /\ req'[s].op = req[s].op
        BY <1>t, <2>4 DEF Others, Request
      <3>2. \A c \in Connects : c.id # req[s].op
        BY <1>1, <1>a DEF UpPickIdentity, SlotOK, At
      <3>3. RowsOf(i) # {} /\ HasKey(i) /\ OnIdentity("connect", i) = {}
        BY <2>4 DEF Whole, InUse
      <3>4. /\ RowsOf(i)' = RowsOf(i) /\ HasKey(i)' = HasKey(i)
            /\ OnIdentity("connect", i)' = OnIdentity("connect", i)
        BY <1>o, <2>1 DEF RowsOf, Live, HasKey, OnIdentity, OfKind
      <3>5. SlotOK(s)'
        BY <1>o, <2>1, <3>1, <3>2, <3>3, <3>4
           DEF SlotOK, InUse, RowsOf, Live, HasKey, OnIdentity, OfKind
      <3> QED
        BY <1>o, <1>a, <2>1, <3>1, <3>5, OneMoves
    <2> QED
      BY <2>2, <2>3, <2>4
  <1>2. CASE UpCheckRunner(s)
    <2>1. Connects' = Connects /\ UNCHANGED containers
      BY <1>2 DEF UpCheckRunner, stores, Connects, OfKind
    <2>2. Answer(s, "NotRunning") \/ Goto(s, "up.connect")
      BY <1>2 DEF UpCheckRunner
    <2>3. CASE Answer(s, "NotRunning")
      BY <1>o, <1>t, <2>1, <2>3, Leaving, OneRests DEF Watched
    <2>4. CASE Goto(s, "up.connect")
      <3>1. /\ Others(s) /\ req'[s].pc = "up.connect" /\ req'[s].ident = req[s].ident
            /\ req'[s].op = req[s].op
        BY <1>t, <2>4, Leaving
      <3>2. req[s].pc = "up.runner"
        BY <1>2 DEF UpCheckRunner, At
      <3>3. SlotOK(s)'
        BY <1>o, <1>a, <2>1, <3>1, <3>2
           DEF SlotOK, InUse, RowsOf, Live, HasKey, OnIdentity, OfKind
      <3> QED
        BY <1>o, <1>a, <2>1, <3>1, <3>3, OneMoves
    <2> QED
      BY <2>2, <2>3, <2>4
  <1>3. CASE UpConnect(s)
    <2>1. Others(s) /\ req'[s].pc = "done"
      BY <1>3, <1>t, Leaving DEF UpConnect
    <2>2. SlotOK(s)'
      BY <2>1, Unwatched DEF Watched
    <2>3. req[s].op <= ops /\ \A c \in Connects : c.id # req[s].op
      <3>1. req[s].op \in 0 .. ops
        BY DEF IInv, Numbers
      <3> QED
        BY <1>3, <1>a, <3>1 DEF UpConnect, SlotOK, At
    <2>4. \E n : Connects' \subseteq Connects \cup
             {[kind |-> "connect", id |-> req[s].op, identity |-> req[s].ident, row |-> 0,
               on |-> n, status |-> "running"]}
      BY <1>3 DEF UpConnect, Connects, OfKind
    <2>5. \A d \in Connects' : d \in Connects \/ (d.id = req[s].op /\ d.identity = req[s].ident)
      BY <2>4
    <2>6. ConnectsOK'
      BY <1>a, <1>o, <2>3, <2>5 DEF ConnectsOK
    <2>7. \A t \in Slots \ {s} : At(t, "idle")'
      BY <1>a, <2>1 DEF Others, At
    <2>8. Alone' /\ \A t \in Slots : SlotOK(t)'
      BY <2>2, <2>7 DEF Alone, SlotOK, At
    <2>9. TasksOK'
      BY <1>a, <1>o DEF TasksOK
    <2> QED
      BY <2>6, <2>8, <2>9 DEF AloneInv
  <1>4. CASE DownRemove(s)
    <2>1. Connects' \subseteq Connects
      <3>1. Connects' = {c \in Without("connect", req[s].target) : c.kind = "connect"}
        BY <1>4 DEF DownRemove, Connects, OfKind
      <3> QED
        BY <3>1, <1>t, ConnectsStay
    <2>2. Others(s) /\ req'[s].pc = "done"
      BY <1>4, <1>t, Leaving DEF DownRemove
    <2> QED
      BY <1>o, <2>1, <2>2, OneRests DEF Watched
  <1> QED
    BY <1>1, <1>2, <1>3, <1>4 DEF UpDown

(* Requests begin when nobody is served, or overlap.                       *)
LEMMA BeginAlone ==
  ASSUME TypeInv, IInv, AloneInv, ~overlapped', NEW s \in Slots, Begin(s)
  PROVE  AloneInv' /\ Connects' = Connects
  <1>1. /\ ops' = ops + 1 /\ overlapped' = (overlapped \/ \E t \in Slots : ~At(t, "idle"))
        /\ UNCHANGED <<rows, keys, containers, tasks>>
    BY DEF Begin
  <1>2. ~overlapped /\ \A t \in Slots : At(t, "idle")
    BY <1>1
  <1>3. Connects' = Connects
    BY <1>1 DEF Connects, OfKind
  <1>4. TasksOK /\ ConnectsOK /\ ops \in Nat
    BY <1>2 DEF AloneInv, IInv, Numbers
  <1>5. tasks = {}
    BY <1>2, <1>4 DEF TasksOK, At
  <1>6. DOMAIN req = Slots
    BY DEF IInv, Shaped
  <1>7. Others(s)
    BY <1>6 DEF Begin, Others
  <1>8. \/ req'[s].pc \notin Watched
        \/ req'[s].pc = "up.pick" /\ req'[s].op = ops + 1
    <2>1. ASSUME NEW x, req' = [req EXCEPT ![s] = [Idle EXCEPT
                   !.pc = "remove.row", !.kind = "remove", !.op = ops + 1, !.id = x.id,
                   !.ident = x.identity]]
          PROVE  req'[s].pc = "remove.row"
      BY <1>6, <2>1 DEF Idle
    <2>2. ASSUME req' = [req EXCEPT ![s] = [Idle EXCEPT
                   !.pc = "up.pick", !.kind = "up", !.op = ops + 1]]
          PROVE  req'[s].pc = "up.pick" /\ req'[s].op = ops + 1
      BY <1>6, <2>2 DEF Idle
    <2>3. ASSUME NEW c, req' = [req EXCEPT ![s] = [Idle EXCEPT
                   !.pc = "down.remove", !.kind = "down", !.op = ops + 1, !.target = c.id]]
          PROVE  req'[s].pc = "down.remove"
      BY <1>6, <2>3 DEF Idle
    <2>4. ASSUME NEW i, NEW k, NEW w, req' = [req EXCEPT ![s] = [Idle EXCEPT
                   !.pc = "add.look", !.op = ops + 1, !.content = i, !.locked = k,
                   !.password = w]]
          PROVE  req'[s].pc = "add.look"
      BY <1>6, <2>4 DEF Idle
    <2> QED
      BY <2>1, <2>2, <2>3, <2>4 DEF Begin, Watched
  <1>9. \A c \in Connects : c.id <= ops /\ c.id \in Nat
    BY <1>4 DEF ConnectsOK, Connects, OfKind, TypeInv, TypeOK, Container
  <1>10. SlotOK(s)'
    <2>1. \A c \in Connects' : c.id # ops + 1
      BY <1>3, <1>4, <1>9
    <2> QED
      BY <1>8, <2>1, Unwatched DEF SlotOK
  <1>11. ConnectsOK'
    BY <1>1, <1>3, <1>4, <1>9 DEF ConnectsOK
  <1>12. TasksOK'
    BY <1>1, <1>5 DEF TasksOK
  <1>13. \A t \in Slots \ {s} : At(t, "idle")'
    BY <1>2, <1>7 DEF Others, At
  <1>14. Alone' /\ \A t \in Slots : SlotOK(t)'
    BY <1>10, <1>13 DEF Alone, SlotOK, At
  <1> QED
    BY <1>3, <1>11, <1>12, <1>14 DEF AloneInv

LEMMA EndAlone ==
  ASSUME TypeInv, AloneInv, ~overlapped', NEW s \in Slots, Reply(s) \/ Fail(s)
  PROVE  AloneInv' /\ Connects' = Connects
  <1>t. RequestsTyped /\ req \in [Slots -> Request] /\ req[s] \in Request
    BY DEF TypeInv, RequestsTyped
  <1>1. /\ UNCHANGED <<overlapped, ops, tasks, containers>>
        /\ ~At(s, "idle") /\ ~At(s, "remove.wait")
    BY DEF Reply, Fail, stores, At
  <1>2. Connects' = Connects
    BY <1>1 DEF Connects, OfKind
  <1>3. Others(s) /\ req'[s].pc \in {"idle", "done", "remove.row"}
    <2>1. CASE Reply(s)
      BY <2>1, <1>t DEF Reply, Others, Idle
    <2>2. CASE Fail(s)
      <3>1. Others(s)
        BY <2>2, <1>t DEF Fail, Others
      <3>2. req'[s].pc = IF req[s].pc \in {"unlock", "register"} THEN "remove.row" ELSE "done"
        BY <2>2, <1>t DEF Fail, Request
      <3> QED
        BY <3>1, <3>2
    <2> QED
      BY <2>1, <2>2
  <1> QED
    BY <1>1, <1>2, <1>3, OneRests DEF Watched

(* The parts of a removal, and what may happen to all at once.             *)
LEMMA TaskAlone ==
  ASSUME TypeInv, AloneInv, ~overlapped', NEW t \in tasks, RunTask(t) \/ TaskFails(t)
  PROVE  AloneInv' /\ Connects' = Connects
  <1>o. UNCHANGED <<overlapped, ops>> /\ tasks' = tasks \ {t}
    BY DEF RunTask, TaskFails
  <1>t. TypeOK /\ ~overlapped /\ req \in [Slots -> Request]
    BY <1>o DEF TypeInv, RequestsTyped
  <1>1. \A s \in Slots : req'[s].pc = req[s].pc /\ req'[s].op = req[s].op
    <2>1. CASE RunTask(t)
      BY <2>1 DEF RunTask
    <2>2. CASE TaskFails(t)
      <3>1. ASSUME NEW q \in Request
            PROVE  LET r == [q EXCEPT !.failed = TRUE, !.clean = FALSE]
                   IN  r.pc = q.pc /\ r.op = q.op
        BY DEF Request
      <3>2. \A s \in Slots : \/ req'[s] = req[s]
                             \/ req'[s] = [req[s] EXCEPT !.failed = TRUE, !.clean = FALSE]
        BY <2>2 DEF TaskFails
      <3> QED
        BY <1>t, <3>1, <3>2
    <2> QED
      BY <2>1, <2>2
  <1>2. Connects' = Connects
    <2>1. CASE containers' = Without("myst", t.id)
      <3>1. Connects' = {c \in Without("myst", t.id) : c.kind = "connect"}
        BY <2>1 DEF Connects, OfKind
      <3> QED
        BY <3>1, <1>t, ConnectsStay
    <2>2. CASE UNCHANGED containers
      BY <2>2 DEF Connects, OfKind
    <2> QED
      BY <2>1, <2>2 DEF RunTask, TaskFails
  <1>3. Alone /\ TasksOK /\ ConnectsOK
    BY <1>t DEF AloneInv
  <1>4. \A y \in rows' : \E x \in rows : y.id = x.id /\ y.identity = x.identity
    <2>1. CASE rows' = {IF x.id = t.id THEN [x EXCEPT !.live = FALSE] ELSE x : x \in rows}
      <3> DEFINE gone(x) == [x EXCEPT !.live = FALSE]
      <3>1. \A x \in rows : gone(x).id = x.id /\ gone(x).identity = x.identity
        BY <1>t DEF TypeOK, Row
      <3>2. rows' = {IF x.id = t.id THEN gone(x) ELSE x : x \in rows}
        BY <2>1
      <3> HIDE DEF gone
      <3> QED
        BY <3>1, <3>2
    <2>2. CASE UNCHANGED rows
      BY <2>2
    <2> QED
      BY <2>1, <2>2 DEF RunTask, TaskFails
  <1>5. PICK w \in Slots : At(w, "remove.wait")
    BY <1>3 DEF TasksOK
  <1>6. \A s \in Slots \ {w} : At(s, "idle")
    BY <1>3, <1>5 DEF Alone, At
  <1>7. Alone'
    BY <1>1, <1>3 DEF Alone, At
  <1>8. \A s \in Slots : SlotOK(s)'
    BY <1>1, <1>5, <1>6 DEF SlotOK, At
  <1>9. ConnectsOK'
    BY <1>o, <1>2, <1>3 DEF ConnectsOK
  <1>10. \A i : InUse(i)' = InUse(i)
    <2>1. \A i : InUse(i) <=> \E c \in Connects : c.identity = i
      BY DEF InUse, OnIdentity, Connects
    <2>2. \A i : InUse(i)' <=> \E c \in Connects' : c.identity = i
      BY DEF InUse, OnIdentity, Connects
    <2> QED
      BY <1>2, <2>1, <2>2
  <1>11. TasksOK'
    <2> SUFFICES ASSUME NEW u \in tasks'
                 PROVE  /\ \E s \in Slots : At(s, "remove.wait")' /\ req'[s].op = u.op
                        /\ InUse(u.identity)' = FALSE
                        /\ u.what = "row" => \A y \in rows' : y.id = u.id => y.identity = u.identity
      BY DEF TasksOK, Fits
    <2>1. /\ \E s \in Slots : At(s, "remove.wait") /\ req[s].op = u.op
          /\ ~InUse(u.identity)
          /\ u.what = "row" => \A y \in rows : y.id = u.id => y.identity = u.identity
      BY <1>o, <1>3 DEF TasksOK, Fits
    <2>2. \E s \in Slots : At(s, "remove.wait")' /\ req'[s].op = u.op
      BY <1>1, <2>1 DEF At
    <2>3. InUse(u.identity)' = FALSE
      BY <1>10, <2>1
    <2>4. u.what = "row" => \A y \in rows' : y.id = u.id => y.identity = u.identity
      BY <1>4, <2>1
    <2> QED
      BY <2>2, <2>3, <2>4
  <1> QED
    BY <1>2, <1>7, <1>8, <1>9, <1>11 DEF AloneInv

LEMMA CrashAlone ==
  ASSUME TypeInv, AloneInv, ~overlapped', Crash
  PROVE  AloneInv' /\ Connects' = Connects
  <1>o. UNCHANGED <<overlapped, ops, containers>> /\ tasks' = {}
    BY DEF Crash
  <1>t. ~overlapped /\ req \in [Slots -> Request]
    BY <1>o DEF TypeInv, RequestsTyped
  <1>1. Connects' = Connects
    BY <1>o DEF Connects, OfKind
  <1>2. Alone /\ ConnectsOK
    BY <1>t DEF AloneInv
  <1>3. \A s \in Slots : IF At(s, "idle") THEN req'[s] = req[s] ELSE req'[s].pc = "done"
    <2>1. ASSUME NEW q \in Request
          PROVE  [q EXCEPT !.pc = "done", !.out = "Repository", !.clean = FALSE].pc = "done"
      BY DEF Request
    <2>2. \A s \in Slots : IF At(s, "idle") THEN req'[s] = req[s]
            ELSE req'[s] = [req[s] EXCEPT !.pc = "done", !.out = "Repository", !.clean = FALSE]
      BY DEF Crash
    <2> QED
      BY <1>t, <2>1, <2>2
  <1>4. Alone' /\ \A s \in Slots : SlotOK(s)'
    BY <1>2, <1>3 DEF Alone, SlotOK, At
  <1>5. ConnectsOK' /\ TasksOK'
    BY <1>o, <1>1, <1>2 DEF ConnectsOK, TasksOK
  <1> QED
    BY <1>1, <1>4, <1>5 DEF AloneInv

LEMMA AloneStep ==
  ASSUME TypeInv, IInv, AloneInv, ~overlapped', [Next]_vars
  PROVE  AloneInv'
  <1>1. ASSUME UNCHANGED vars PROVE AloneInv'
    BY <1>1 DEF vars, stores, AloneInv, Alone, TasksOK, ConnectsOK, SlotOK, At, InUse, Fits,
                Connects, OnIdentity, OfKind, RowsOf, Live, HasKey
  <1>2. ASSUME NEW s \in Slots, Add(s) PROVE AloneInv'
    BY <1>2, AddStaysAlone, RunnerAlone DEF Add, AddStays
  <1> QED
    BY <1>1, <1>2, RemoveAlone, UpDownAlone, BeginAlone, EndAlone, TaskAlone, CrashAlone
       DEF Next

(* What the registry sees of a state.                                      *)
KnownNow == {i \in Identity : RowsOf(i) # {} /\ HasKey(i)}
LeasedNow == {c.identity : c \in Connects}

Entered == \E i \in Identity : KnownNow' = KnownNow \cup {i} /\ LeasedNow' = LeasedNow
Left ==
  \E i \in Identity : i \in KnownNow \ LeasedNow /\ KnownNow' = KnownNow \ {i}
                      /\ LeasedNow' = LeasedNow
Taken ==
  \E i \in Identity : i \in KnownNow \ LeasedNow /\ LeasedNow' = LeasedNow \cup {i}
                      /\ KnownNow' = KnownNow
Released ==
  \E i \in Identity : i \in LeasedNow /\ LeasedNow' = LeasedNow \ {i} /\ KnownNow' = KnownNow
Unseen == KnownNow' = KnownNow /\ LeasedNow' = LeasedNow

Moves == Entered \/ Left \/ Taken \/ Released \/ Unseen

LEMMA Leases ==
  /\ \A i : InUse(i) <=> i \in LeasedNow
  /\ Connects' = Connects => LeasedNow' = LeasedNow
  BY DEF InUse, OnIdentity, LeasedNow, Connects

LEMMA SameKnown ==
  ASSUME UNCHANGED <<rows, keys>> PROVE KnownNow' = KnownNow
  BY DEF KnownNow, RowsOf, Live, HasKey

(* Rows or keys of one identity may come.                                  *)
LEMMA KnownComes ==
  ASSUME NEW i \in Identity, Connects' = Connects,
         \A j \in Identity \ {i} : j \in KnownNow' <=> j \in KnownNow,
         i \in KnownNow => i \in KnownNow'
  PROVE  Entered \/ Unseen
  <1>1. KnownNow' \subseteq Identity /\ KnownNow \subseteq Identity
    BY DEF KnownNow
  <1>2. KnownNow' = KnownNow \/ KnownNow' = KnownNow \cup {i}
    BY <1>1
  <1> QED
    BY <1>2, Leases DEF Entered, Unseen

(* ... and go when it serves no provider.                                  *)
LEMMA KnownGoes ==
  ASSUME NEW i \in Identity, Connects' = Connects, ~InUse(i),
         \A j \in Identity \ {i} : j \in KnownNow' <=> j \in KnownNow,
         i \in KnownNow' => i \in KnownNow
  PROVE  Left \/ Unseen
  <1>1. KnownNow' \subseteq Identity /\ KnownNow \subseteq Identity
    BY DEF KnownNow
  <1>2. KnownNow' = KnownNow \/ (i \in KnownNow /\ KnownNow' = KnownNow \ {i})
    BY <1>1
  <1> QED
    BY <1>2, Leases DEF Left, Unseen

LEMMA AddMoves ==
  ASSUME TypeInv, IInv, AloneInv, ~overlapped', NEW s \in Slots, Add(s)
  PROVE  Moves
  <1>t. TypeOK /\ req[s] \in Request /\ Formed(req[s])
    BY DEF TypeInv, RequestsTyped
  <1>i. req[s].pc \in NotInserted => req[s].locked \in Password
    BY DEF IInv, RequestsOK, KeyOK
  <1>c. Connects' = Connects
    BY AddStaysAlone, RunnerAlone DEF Add, AddStays
  <1>1. CASE CopyKey(s)
    <2> DEFINE i == req[s].ident
    <2>1. rows' = rows /\ req[s].pc = "add.copy"
      BY <1>1 DEF CopyKey, At
    <2>2. i \in Identity /\ req[s].locked \in Password \cup {NoPassword}
      BY <1>t, <2>1 DEF Formed, Knowing, Request
    <2>3. CASE UNCHANGED keys
      BY <1>c, <2>1, <2>3, SameKnown, Leases DEF Moves, Unseen
    <2>4. CASE keys' = [keys EXCEPT ![i] = req[s].locked]
      <3>1. \A j \in Identity \ {i} : keys'[j] = keys[j]
        BY <1>t, <2>4 DEF TypeOK
      <3>2. \A j : RowsOf(j)' = RowsOf(j)
        BY <2>1 DEF RowsOf, Live
      <3>3. \A j \in Identity \ {i} : j \in KnownNow' <=> j \in KnownNow
        BY <3>1, <3>2 DEF KnownNow, HasKey
      <3>4. req[s].locked # NoPassword
        BY <1>i, <2>1, NoneAssumption DEF NotInserted, Uploaded
      <3>5. keys'[i] # NoPassword
        BY <1>t, <2>2, <2>4, <3>4 DEF TypeOK
      <3>6. i \in KnownNow => i \in KnownNow'
        BY <3>2, <3>5 DEF KnownNow, HasKey
      <3> QED
        BY <1>c, <2>2, <3>3, <3>6, KnownComes DEF Moves
    <2> QED
      BY <1>1, <2>3, <2>4 DEF CopyKey
  <1>2. CASE AddInsertRow(s)
    <2> DEFINE i == req[s].ident
               x == [id |-> req[s].op, identity |-> i, password |-> req[s].password,
                     live |-> TRUE]
    <2>1. keys' = keys /\ i \in Identity
      BY <1>2, <1>t DEF AddInsertRow, At, Formed, Knowing
    <2>2. rows' = rows \/ rows' = rows \cup {x}
      BY <1>2 DEF AddInsertRow
    <2>3. x.identity = i
      OBVIOUS
    <2> HIDE DEF x
    <2>4. \A j : RowsOf(j) \subseteq RowsOf(j)' /\ (j # i => RowsOf(j)' = RowsOf(j))
      BY <2>2, <2>3 DEF RowsOf, Live
    <2>5. /\ \A j \in Identity \ {i} : j \in KnownNow' <=> j \in KnownNow
          /\ i \in KnownNow => i \in KnownNow'
      BY <2>1, <2>4 DEF KnownNow, HasKey
    <2> QED
      BY <1>c, <2>1, <2>5, KnownComes DEF Moves
  <1>3. CASE ~CopyKey(s) /\ ~AddInsertRow(s)
    <2>1. UNCHANGED <<rows, keys>>
      BY <1>3 DEF Add, stores, AddLook, ReadKey, MakeDir, UnlinkUpload, AddFindRow,
         ListOldRunner, RemoveOldRunner, CreateMyst, StartMyst, StartMystFails, CheckRunner,
         UnlockIdentity, RegisterIdentity
    <2> QED
      BY <1>c, <2>1, SameKnown, Leases DEF Moves, Unseen
  <1> QED
    BY <1>1, <1>2, <1>3

LEMMA RunTaskMoves ==
  ASSUME TypeInv, AloneInv, ~overlapped', NEW t \in tasks, RunTask(t)
  PROVE  Moves
  <1>o. ~overlapped
    BY DEF RunTask
  <1>t. TypeOK /\ t \in Task /\ t.identity \in Identity
    BY DEF TypeInv, TypeOK, Task
  <1>c. Connects' = Connects
    BY TaskAlone
  <1>u. ~InUse(t.identity) /\ (t.what = "row" => Fits(t))
    BY <1>o DEF AloneInv, TasksOK
  <1>1. CASE /\ t.what = "row" /\ UNCHANGED keys
             /\ rows' = {IF x.id = t.id THEN [x EXCEPT !.live = FALSE] ELSE x : x \in rows}
    <2> DEFINE gone(x) == [x EXCEPT !.live = FALSE]
    <2>1. \A x \in rows : gone(x).live = FALSE
      BY <1>t DEF TypeOK, Row
    <2>2. rows' = {IF x.id = t.id THEN gone(x) ELSE x : x \in rows}
      BY <1>1
    <2> HIDE DEF gone
    <2>3. \A j : RowsOf(j)' \subseteq RowsOf(j)
      BY <2>1, <2>2 DEF RowsOf, Live
    <2>4. \A j : \A x \in RowsOf(j) : j # t.identity => x.id # t.id
      BY <1>1, <1>u DEF RowsOf, Live, Fits
    <2>5. \A j : \A x \in RowsOf(j) : j # t.identity => x \in RowsOf(j)'
      BY <2>2, <2>4 DEF RowsOf, Live
    <2>6. /\ \A j \in Identity \ {t.identity} : j \in KnownNow' <=> j \in KnownNow
          /\ t.identity \in KnownNow' => t.identity \in KnownNow
      BY <1>1, <2>3, <2>5 DEF KnownNow, HasKey
    <2> QED
      BY <1>t, <1>c, <1>u, <2>6, KnownGoes DEF Moves
  <1>2. CASE keys' = [keys EXCEPT ![t.identity] = NoPassword] /\ UNCHANGED rows
    <2>1. /\ \A j \in Identity \ {t.identity} : keys'[j] = keys[j]
          /\ keys'[t.identity] = NoPassword
      BY <1>t, <1>2 DEF TypeOK
    <2>2. \A j : RowsOf(j)' = RowsOf(j)
      BY <1>2 DEF RowsOf, Live
    <2>3. /\ \A j \in Identity \ {t.identity} : j \in KnownNow' <=> j \in KnownNow
          /\ t.identity \in KnownNow' => t.identity \in KnownNow
      BY <2>1, <2>2 DEF KnownNow, HasKey
    <2> QED
      BY <1>t, <1>c, <1>u, <2>3, KnownGoes DEF Moves
  <1>3. CASE UNCHANGED <<rows, keys>>
    BY <1>3, <1>c, SameKnown, Leases DEF Moves, Unseen
  <1> QED
    BY <1>1, <1>2, <1>3 DEF RunTask

LEMMA UpDownMoves ==
  ASSUME TypeInv, AloneInv, ~overlapped', NEW s \in Slots, UpDown(s)
  PROVE  Moves
  <1>o. UNCHANGED <<overlapped, rows, keys>> /\ ~At(s, "idle")
    BY DEF UpDown, UpPickIdentity, UpCheckRunner, UpConnect, DownRemove, stores, At
  <1>t. TypeOK /\ req[s] \in Request /\ Formed(req[s]) /\ ~overlapped
    BY <1>o DEF TypeInv, RequestsTyped
  <1>k. KnownNow' = KnownNow
    BY <1>o, SameKnown
  <1>a. SlotOK(s) /\ ConnectsOK
    BY <1>o, <1>t, OthersIdle
  <1>1. CASE UpPickIdentity(s) \/ UpCheckRunner(s)
    <2>1. Connects' = Connects
      BY <1>1 DEF UpPickIdentity, UpCheckRunner, stores, Connects, OfKind
    <2> QED
      BY <1>k, <2>1, Leases DEF Moves, Unseen
  <1>2. CASE UpConnect(s)
    <2> DEFINE i == req[s].ident
    <2>1. req[s].pc = "up.connect" /\ i \in Identity
      BY <1>2, <1>t DEF UpConnect, At, Formed, Knowing
    <2>2. RowsOf(i) # {} /\ HasKey(i) /\ ~InUse(i)
      BY <1>a, <2>1 DEF SlotOK
    <2>3. i \in KnownNow \ LeasedNow
      BY <2>1, <2>2, Leases DEF KnownNow
    <2>4. CASE UNCHANGED containers
      BY <1>k, <2>4, Leases DEF Moves, Unseen, Connects, OfKind
    <2>5. ASSUME NEW n, containers' = containers \cup
                   {[kind |-> "connect", id |-> req[s].op, identity |-> i, row |-> 0,
                     on |-> n, status |-> "running"]}
          PROVE  Moves
      <3> DEFINE c == [kind |-> "connect", id |-> req[s].op, identity |-> i, row |-> 0,
                       on |-> n, status |-> "running"]
      <3>1. c.kind = "connect" /\ c.identity = i
        OBVIOUS
      <3>2. containers' = containers \cup {c}
        BY <2>5
      <3> HIDE DEF c
      <3>3. Connects' = Connects \cup {c}
        BY <3>1, <3>2 DEF Connects, OfKind
      <3>4. LeasedNow' = LeasedNow \cup {i}
        BY <3>1, <3>3 DEF LeasedNow
      <3> QED
        BY <1>k, <2>1, <2>3, <3>4 DEF Moves, Taken
    <2> QED
      BY <1>2, <2>4, <2>5 DEF UpConnect
  <1>3. CASE DownRemove(s)
    <2> DEFINE n == req[s].target
    <2>1. Connects' = {c \in Connects : c.id # n}
      <3>1. Connects' = {c \in Without("connect", n) : c.kind = "connect"}
        BY <1>3 DEF DownRemove, Connects, OfKind
      <3> QED
        BY <3>1, <1>t, ConnectsStay
    <2>2. CASE \A c \in Connects : c.id # n
      <3>1. Connects' = Connects
        BY <2>1, <2>2
      <3> QED
        BY <1>k, <3>1, Leases DEF Moves, Unseen
    <2>3. ASSUME NEW d \in Connects, d.id = n PROVE Moves
      <3>1. \A c \in Connects : c.id = n => c.identity = d.identity
        BY <1>a, <2>3 DEF ConnectsOK
      <3>2. d.identity \in Identity /\ d.identity \in LeasedNow
        BY <1>t DEF TypeOK, Connects, OfKind, Container, LeasedNow
      <3>3. LeasedNow' = LeasedNow \/ LeasedNow' = LeasedNow \ {d.identity}
        <4>1. LeasedNow' = {c.identity : c \in Connects'}
          BY DEF LeasedNow
        <4>2. LeasedNow' \subseteq LeasedNow
          BY <2>1, <4>1 DEF LeasedNow
        <4>3. \A i \in LeasedNow : i # d.identity => i \in LeasedNow'
          BY <2>1, <3>1, <4>1 DEF LeasedNow
        <4> QED
          BY <4>2, <4>3
      <3> QED
        BY <1>k, <3>2, <3>3 DEF Moves, Unseen, Released
    <2> QED
      BY <2>2, <2>3
  <1> QED
    BY <1>1, <1>2, <1>3 DEF UpDown

LEMMA StepMoves ==
  ASSUME TypeInv, IInv, AloneInv, ~overlapped', [Next]_vars
  PROVE  Moves
  <1>1. ASSUME Connects' = Connects, UNCHANGED <<rows, keys>> PROVE Moves
    BY <1>1, SameKnown, Leases DEF Moves, Unseen
  <1>2. ASSUME NEW s \in Slots, Remove(s) PROVE Moves
    <2>1. UNCHANGED <<rows, keys>>
      BY <1>2 DEF Remove, stores, RemoveFindRow, RemoveReadState, StartTasks, JoinTasks,
                  RestFindRow, RestList, RestRemoveRunner, RestRemoveFile
    <2> QED
      BY <1>1, <1>2, <2>1, RemoveAlone
  <1>3. ASSUME NEW s \in Slots, Begin(s) PROVE Moves
    <2>1. UNCHANGED <<rows, keys>>
      BY <1>3 DEF Begin
    <2> QED
      BY <1>1, <1>3, <2>1, BeginAlone
  <1>4. ASSUME NEW s \in Slots, Reply(s) \/ Fail(s) PROVE Moves
    <2>1. UNCHANGED <<rows, keys>>
      BY <1>4 DEF Reply, Fail, stores
    <2> QED
      BY <1>1, <1>4, <2>1, EndAlone
  <1>5. ASSUME NEW t \in tasks, TaskFails(t) PROVE Moves
    <2>1. UNCHANGED <<rows, keys>>
      BY <1>5 DEF TaskFails
    <2> QED
      BY <1>1, <1>5, <2>1, TaskAlone
  <1>6. CASE Crash
    <2>1. UNCHANGED <<rows, keys>>
      BY <1>6 DEF Crash
    <2> QED
      BY <1>1, <1>6, <2>1, CrashAlone
  <1>7. CASE UNCHANGED vars
    BY <1>1, <1>7 DEF vars, stores, Connects, OfKind
  <1> QED
    BY <1>2, <1>3, <1>4, <1>5, <1>6, <1>7, AddMoves, RunTaskMoves, UpDownMoves DEF Next

LEMMA AloneInit == Init => AloneInv
  BY DEF Init, AloneInv, Alone, TasksOK, ConnectsOK, SlotOK, At, Idle, Connects, OfKind

LEMMA AloneHolds == TypeInv /\ IInv /\ AloneInv /\ [Next]_vars => AloneInv'
  <1> SUFFICES ASSUME TypeInv, IInv, AloneInv, [Next]_vars PROVE AloneInv'
    OBVIOUS
  <1>1. CASE overlapped'
    BY <1>1 DEF AloneInv
  <1> QED
    BY <1>1, AloneStep

(* As long as no two requests overlapped, every step of the service is one *)
(* of the registry: a provider gets an identity that is known and free,    *)
(* and an identity that serves one loses neither row nor key, whatever     *)
(* failed or died before (myst-identity-aggregate.repository.ts, remove;   *)
(* myst-provider.service.ts, up).                                          *)
THEOREM ServiceImplementsRegistry == Spec => ImplementsRegistry
  <1>1. Init => Registry!Init
    <2> SUFFICES ASSUME Init PROVE Registry!Init
      OBVIOUS
    <2>1. KnownNow = {} /\ LeasedNow = {}
      BY DEF Init, KnownNow, LeasedNow, RowsOf, Live, Connects, OfKind
    <2> QED
      BY <2>1 DEF Registry!Init, KnownNow, LeasedNow, Connects
  <1>2. TypeInv /\ IInv /\ AloneInv /\ [Next]_vars => [overlapped' \/ Registry!Step]_vars
    <2> SUFFICES ASSUME TypeInv, IInv, AloneInv, [Next]_vars, ~overlapped'
                 PROVE  Registry!Step
      OBVIOUS
    <2>1. Moves
      BY StepMoves
    <2>2. CASE Unseen
      BY <2>2 DEF Unseen, Registry!Step, Registry!vars, KnownNow, LeasedNow, Connects
    <2>3. ASSUME NEW i \in Identity, KnownNow' = KnownNow \cup {i}, LeasedNow' = LeasedNow
          PROVE  Registry!Step
      BY <2>3 DEF Registry!Step, Registry!Next, Registry!Enter, KnownNow, LeasedNow, Connects
    <2>4. ASSUME NEW i \in Identity, i \in KnownNow \ LeasedNow, KnownNow' = KnownNow \ {i},
                 LeasedNow' = LeasedNow
          PROVE  Registry!Step
      BY <2>4 DEF Registry!Step, Registry!Next, Registry!Leave, KnownNow, LeasedNow, Connects
    <2>5. ASSUME NEW i \in Identity, i \in KnownNow \ LeasedNow, KnownNow' = KnownNow,
                 LeasedNow' = LeasedNow \cup {i}
          PROVE  Registry!Step
      BY <2>5 DEF Registry!Step, Registry!Next, Registry!Take, KnownNow, LeasedNow, Connects
    <2>6. ASSUME NEW i \in Identity, i \in LeasedNow, KnownNow' = KnownNow,
                 LeasedNow' = LeasedNow \ {i}
          PROVE  Registry!Step
      BY <2>6 DEF Registry!Step, Registry!Next, Registry!Release, KnownNow, LeasedNow, Connects
    <2> QED
      BY <2>1, <2>2, <2>3, <2>4, <2>5, <2>6 DEF Moves, Entered, Left, Taken, Released
  <1> QED
    BY <1>1, <1>2, AloneInit, AloneHolds, TypesHold, Invariance, PTL DEF Spec, ImplementsRegistry
-----------------------------------------------------------------------------
(* What a served request knows of the stores and what its answers mean,    *)
(* while no two requests overlapped so far.  The predicates take the       *)
(* request r, the directories D, the keys K, the table T, the containers C *)
(* and the parts of removals J as arguments.                               *)
RowsIn(T, i) == {x \in T : x.live /\ x.identity = i}
IdIn(T, n) == {x \in T : x.live /\ x.id = n}
MystsIn(C) == {c \in C : c.kind = "myst"}
MystsOn(C, i) == {c \in C : c.kind = "myst" /\ c.identity = i}

Filed == {"add.unlink", "add.row", "add.insert"}
Rowed == {"runner.list", "runner.remove", "runner.create", "runner.start", "add.check",
          "unlock", "register"}
Answering == {"add.check", "unlock", "register"}
Unmade == NotInserted \cup {"runner.list", "runner.remove"}
Adding == NotInserted \cup Rowed
Resting == {"rest.row", "rest.list", "rest.remove", "rest.file"}
Untouched == {"remove.row", "remove.state", "remove.list"}
Removing == Untouched \cup Resting \cup {"remove.wait"}
Uppers == {"up.pick", "up.runner", "up.connect"}

(* A container has a number of its own and a row of its own identity, and  *)
(* there is one MYST container and one live row of an identity at most.    *)
Uniq(T, C, n) ==
  /\ \A l, m \in MystsIn(C) : l.identity = m.identity \/ l.id = m.id => l = m
  /\ \A m \in MystsIn(C) : m.id <= n /\ \E x \in T : x.id = m.row /\ x.identity = m.identity
  /\ \A c \in C : c.on <= n
  /\ \A x, y \in T : x.live /\ y.live /\ x.identity = y.identity => x = y
  /\ \A x, y \in T : x.id = y.id => x = y

(* Who is where, and why a creation is being rolled back.                  *)
RoleOK(r) ==
  /\ r.pc \in Adding => r.kind = "add" /\ r.why = "none"
  /\ r.pc \in Removing =>
       \/ r.kind = "add" /\ r.why \in {"Repository", "Unlock"} /\ (r.clean => r.why = "Unlock")
       \/ r.kind = "remove" /\ r.why = "none"
  /\ r.pc \in Uppers => r.kind = "up"
  /\ r.pc = "down.remove" => r.kind = "down"

(* What a creation has found in the stores, or put there.                  *)
AddOK(r, D, K, T) ==
  /\ r.pc = "add.look" => r.ident = NoIdentity
  /\ r.pc \in {"add.copy"} \cup Filed \cup Rowed => r.ident \in D
  /\ r.pc \in Filed \cup Rowed => Key(K, r.ident) /\ K[r.ident] = r.locked
  /\ r.pc = "add.insert" => RowsIn(T, r.ident) = {}
  /\ r.pc \in Rowed => \E x \in T : x.live /\ x.identity = r.ident /\ x.id = r.id /\ r.row = {x}
  /\ r.pc = "register" => \A x \in r.row : x.password = r.locked

(* Its container: nobody has its number before it is made, and nobody is   *)
(* connected through it.                                                   *)
RunnerOK(r, C) ==
  /\ r.pc \in Adding => \A c \in C : c.kind = "connect" => c.on # r.op
  /\ r.pc \in Unmade => \A m \in MystsIn(C) : m.id # r.op
  /\ r.pc = "runner.remove" => \A m \in MystsIn(C) : m.identity = r.ident <=> m.id = r.target
  /\ r.pc = "runner.create" =>
       /\ \A m \in MystsOn(C, r.ident) : m.status = "created"
       /\ \A m \in MystsIn(C) : m.id = r.op => m.identity = r.ident
  /\ r.pc = "runner.start" =>
       \E m \in MystsOn(C, r.ident) : m.id = r.op /\ m.row = r.id /\ m.status = "created"
  /\ r.pc \in Answering =>
       \E m \in MystsOn(C, r.ident) : m.id = r.op /\ m.row = r.id /\ m.status = "running"
  /\ r.pc \in {"unlock", "register"} => r.target = r.op

(* A refused creation still has everything when its removal begins.        *)
RefusedOK(r, D, K, T, C) ==
  r.why = "Unlock" =>
    /\ r.pc \notin Resting
    /\ r.pc \in Removing => \E x \in r.row : x.password # r.locked
    /\ r.pc \in Untouched =>
         /\ r.ident \in D /\ Key(K, r.ident)
         /\ \E x \in T : x.live /\ x.identity = r.ident /\ x.id = r.id /\ r.row = {x}
         /\ \E m \in MystsOn(C, r.ident) : m.status = "running"

(* A removal knows its row.  What no part of it has left to do is done.    *)
RemoveOK(r, D, T, C, J) ==
  /\ r.pc \in {"remove.state", "remove.list", "remove.wait"} =>
       /\ \A x \in T : x.id = r.id => x.identity = r.ident
       /\ \A x \in RowsIn(T, r.ident) : x.id = r.id
  /\ r.pc = "remove.wait" =>
       /\ \A t \in J :
            /\ t.identity = r.ident
            /\ t.what = "row" => t.id = r.id
            /\ t.what = "container" => \A m \in MystsIn(C) : m.id = t.id => m.identity = r.ident
       /\ ~r.failed =>
            /\ IdIn(T, r.id) = {} \/ \E t \in J : t.what = "row"
            /\ r.ident \notin D \/ \E t \in J : t.what = "dir"
            /\ \A m \in MystsOn(C, r.ident) : \E t \in J : t.what = "container" /\ t.id = m.id
  /\ r.pc \in {"rest.list", "rest.file"} => r.path \/ IdIn(T, r.id) = {}
  /\ r.pc = "rest.file" => r.path \/ \A m \in MystsIn(C) : m.row # r.id

(* What the answers say.                                                   *)
Created(r, K, T, C) ==
  /\ \E x \in RowsIn(T, r.ident) : x.password = K[r.ident]
  /\ \E m \in MystsOn(C, r.ident) :
       m.status = "running" /\ IdIn(T, m.row) = RowsIn(T, r.ident)

TakenBack(i, D, T, C) == RowsIn(T, i) = {} /\ i \notin D /\ MystsOn(C, i) = {}

Excused(r) == ~r.clean \/ r.content = NoIdentity \/ \E x \in r.row : x.password # r.locked

DoneOK(r, D, K, T, C) ==
  r.pc = "done" =>
    /\ r.kind = "add" /\ r.out = "Ok" => Created(r, K, T, C)
    /\ r.out = "Unlock" => TakenBack(r.ident, D, T, C)
    /\ r.kind = "add" => r.out = "Ok" \/ Excused(r)
    /\ r.kind = "remove" /\ r.out = "Ok" =>
         IdIn(T, r.id) = {} /\ \A m \in MystsIn(C) : m.row # r.id

(* Without faults an identity is in all stores or in none, unless the      *)
(* request is on its way from one to the other.                            *)
Synced(i, D, K, T, C) ==
  \/ TakenBack(i, D, T, C)
  \/ /\ Key(K, i) /\ i \in D
     /\ \E x \in RowsIn(T, i), m \in MystsOn(C, i) : m.status = "running" /\ m.row = x.id

Midway == Filed \cup {"add.copy", "runner.list", "runner.remove", "runner.create",
                      "runner.start", "remove.wait"}

SyncOK(r, D, K, T, C) ==
  /\ \A i \in Identity : Synced(i, D, K, T, C) \/ (r.pc \in Midway /\ r.ident = i)
  /\ r.pc = "remove.state" => RowsIn(T, r.ident) # {}
  /\ r.pc = "remove.wait" => ~r.failed
  /\ r.pc \in {"rest.row", "rest.list", "rest.file"} => IdIn(T, r.id) = {}
  /\ r.pc # "rest.remove"

StageOK(r, D, K, T, C, J) ==
  /\ RoleOK(r) /\ AddOK(r, D, K, T) /\ RunnerOK(r, C)
  /\ RefusedOK(r, D, K, T, C) /\ RemoveOK(r, D, T, C, J) /\ DoneOK(r, D, K, T, C)

(* While nobody is served only the stores matter.                          *)
SlotStage(s) ==
  /\ StageOK(req[s], dirs, keys, rows, containers, tasks)
  /\ faults = 0 /\ ~At(s, "idle") => SyncOK(req[s], dirs, keys, rows, containers)

AllSynced == \A i \in Identity : Synced(i, dirs, keys, rows, containers)

StageInv ==
  ~overlapped =>
    /\ Uniq(rows, containers, ops)
    /\ \A s \in Slots : SlotStage(s)
    /\ faults = 0 /\ (\A s \in Slots : At(s, "idle")) => AllSynced

-----------------------------------------------------------------------------
LEMMA StageIdle ==
  ASSUME NEW r, r.pc = "idle", NEW D, NEW K, NEW T, NEW C, NEW J
  PROVE  StageOK(r, D, K, T, C, J)
  BY DEF StageOK, RoleOK, AddOK, RunnerOK, RefusedOK, RemoveOK, DoneOK, Filed, Rowed, Answering,
         Unmade, Adding, Resting, Untouched, Removing, Uppers, NotInserted, Uploaded

(* One request is served, and what it does is all that happens.            *)
LEMMA Serving ==
  ASSUME AloneInv, StageInv, ~overlapped, NEW s \in Slots, ~At(s, "idle")
  PROVE  /\ \A t \in Slots \ {s} : At(t, "idle")
         /\ Uniq(rows, containers, ops)
         /\ StageOK(req[s], dirs, keys, rows, containers, tasks)
         /\ faults = 0 => SyncOK(req[s], dirs, keys, rows, containers)
  BY OthersIdle DEF StageInv, SlotStage

LEMMA Served ==
  ASSUME NEW s \in Slots, \A t \in Slots \ {s} : req'[t].pc = "idle",
         Uniq(rows', containers', ops'),
         StageOK(req'[s], dirs', keys', rows', containers', tasks'),
         faults' = 0 => \/ req'[s].pc # "idle" /\ SyncOK(req'[s], dirs', keys', rows', containers')
                        \/ req'[s].pc = "idle" /\ AllSynced'
  PROVE  StageInv'
  <1>2. \A t \in Slots : SlotStage(t)'
    BY StageIdle DEF SlotStage, At
  <1>3. faults' = 0 /\ (\A t \in Slots : At(t, "idle")') => AllSynced'
    BY DEF At
  <1> QED
    BY <1>2, <1>3 DEF StageInv

(* A step of the request that leaves the stores alone.                     *)
LEMMA ServedQuietly ==
  ASSUME AloneInv, StageInv, ~overlapped, NEW s \in Slots, ~At(s, "idle"), Others(s),
         UNCHANGED <<dirs, keys, rows, containers, tasks, ops, faults>>,
         req'[s].pc # "idle",
         StageOK(req'[s], dirs, keys, rows, containers, tasks),
         SyncOK(req[s], dirs, keys, rows, containers) =>
           SyncOK(req'[s], dirs, keys, rows, containers)
  PROVE  StageInv'
  <1>1. \A t \in Slots \ {s} : req'[t].pc = "idle"
    BY Serving DEF Others, At
  <1> QED
    BY <1>1, Serving, Served

(* The fields a request keeps.                                             *)
Alike(r, q) ==
  /\ r.kind = q.kind /\ r.op = q.op /\ r.content = q.content /\ r.locked = q.locked
  /\ r.password = q.password /\ r.clean = q.clean

Locals(r, q) ==
  /\ Alike(r, q) /\ r.ident = q.ident /\ r.id = q.id /\ r.row = q.row /\ r.target = q.target
  /\ r.path = q.path /\ r.failed = q.failed

LEMMA Stepping ==
  ASSUME RequestsTyped, NEW s \in Slots
  PROVE  /\ \A l : Goto(s, l) =>
              Others(s) /\ Locals(req'[s], req[s]) /\ req'[s].pc = l /\ req'[s].why = req[s].why
         /\ \A o : Answer(s, o) =>
              /\ Others(s) /\ Locals(req'[s], req[s]) /\ req'[s].pc = "done"
              /\ req'[s].out = o /\ req'[s].why = req[s].why
         /\ \A o : Rollback(s, o) =>
              Others(s) /\ Locals(req'[s], req[s]) /\ req'[s].pc = "remove.row" /\ req'[s].why = o
  <1>1. req \in [Slots -> Request]
    BY DEF RequestsTyped
  <1>2. \A o : Answer(s, o) =>
              /\ Others(s) /\ Locals(req'[s], req[s]) /\ req'[s].pc = "done"
              /\ req'[s].out = o /\ req'[s].why = req[s].why
    BY <1>1 DEF Answer, Others, Request, Locals, Alike
  <1>3. \A o : Rollback(s, o) =>
              Others(s) /\ Locals(req'[s], req[s]) /\ req'[s].pc = "remove.row" /\ req'[s].why = o
    BY <1>1 DEF Rollback, Others, Request, Locals, Alike
  <1>4. \A l : Goto(s, l) =>
              Others(s) /\ Locals(req'[s], req[s]) /\ req'[s].pc = l /\ req'[s].why = req[s].why
    BY <1>1 DEF Goto, Others, Request, Locals, Alike
  <1> QED
    BY <1>2, <1>3, <1>4

LEMMA AddLookStage ==
  ASSUME NEW r, NEW q, NEW D, NEW K, NEW T, NEW C, NEW J, StageOK(r, D, K, T, C, J),
         Locals(q, r), q.why = r.why, r.pc = "add.look", q.pc = "add.parse"
  PROVE  /\ StageOK(q, D, K, T, C, J)
         /\ SyncOK(r, D, K, T, C) => SyncOK(q, D, K, T, C)
  BY DEF StageOK, RoleOK, AddOK, RunnerOK, RefusedOK, RemoveOK, DoneOK, SyncOK, Locals, Alike,
         Filed, Rowed, Answering, Unmade, Adding, Resting, Untouched, Removing, Uppers, NotInserted,
         Uploaded, Midway

(* What the handlers read is what the predicates speak of.                 *)
LEMMA Views ==
  /\ \A i : RowsOf(i) = RowsIn(rows, i) /\ OnIdentity("myst", i) = MystsOn(containers, i)
  /\ \A i : HasKey(i) = Key(keys, i)
  /\ \A n : WithId(n) = IdIn(rows, n)
  /\ OfKind("myst") = MystsIn(containers)
  /\ \A i : InUse(i) <=> \E c \in containers : c.kind = "connect" /\ c.identity = i
  BY DEF RowsOf, Live, WithId, OnIdentity, OfKind, HasKey, Key, InUse, RowsIn, IdIn, MystsIn,
         MystsOn

(* An answer that neither promises nor refuses anything.                   *)
LEMMA EndStage ==
  ASSUME NEW q, NEW D, NEW K, NEW T, NEW C, NEW J, q.pc = "done",
         q.out \notin {"Ok", "Unlock"}, q.kind = "add" => Excused(q)
  PROVE  StageOK(q, D, K, T, C, J)
  BY DEF StageOK, RoleOK, AddOK, RunnerOK, RefusedOK, RemoveOK, DoneOK, Filed, Rowed, Answering,
         Unmade, Adding, Resting, Untouched, Removing, Uppers, NotInserted, Uploaded

LEMMA ReadKeyStage ==
  ASSUME NEW r, NEW q, NEW D, NEW K, NEW T, NEW C, NEW J, StageOK(r, D, K, T, C, J),
         Alike(q, r), q.why = r.why, r.pc = "add.parse", q.pc = "add.mkdir"
  PROVE  /\ StageOK(q, D, K, T, C, J)
         /\ SyncOK(r, D, K, T, C) => SyncOK(q, D, K, T, C)
  BY DEF StageOK, RoleOK, AddOK, RunnerOK, RefusedOK, RemoveOK, DoneOK, SyncOK, Alike,
         Filed, Rowed, Answering, Unmade, Adding, Resting, Untouched, Removing, Uppers, NotInserted,
         Uploaded, Midway

(* Answers in places where every identity is in all stores or in none.     *)
LEMMA EndSync ==
  ASSUME NEW r, NEW q, NEW D, NEW K, NEW T, NEW C, r.pc \notin Midway, q.pc = "done",
         SyncOK(r, D, K, T, C)
  PROVE  SyncOK(q, D, K, T, C)
  BY DEF SyncOK, Midway, Filed

LEMMA AddRowStage ==
  ASSUME NEW r, NEW q, NEW D, NEW K, NEW T, NEW C, NEW J, StageOK(r, D, K, T, C, J),
         Alike(q, r), q.why = r.why, q.ident = r.ident, r.pc = "add.row",
         \/ q.pc = "add.insert" /\ RowsIn(T, r.ident) = {}
         \/ /\ q.pc = "runner.list"
            /\ \E x \in RowsIn(T, r.ident) : q.row = {x} /\ q.id = x.id
  PROVE  /\ StageOK(q, D, K, T, C, J)
         /\ SyncOK(r, D, K, T, C) => SyncOK(q, D, K, T, C)
  BY DEF StageOK, RoleOK, AddOK, RunnerOK, RefusedOK, RemoveOK, DoneOK, SyncOK, Alike, RowsIn,
         Filed, Rowed, Answering, Unmade, Adding, Resting, Untouched, Removing, Uppers, NotInserted,
         Uploaded, Midway

LEMMA ListOldStage ==
  ASSUME NEW r, NEW q, NEW D, NEW K, NEW T, NEW C, NEW J, StageOK(r, D, K, T, C, J),
         Alike(q, r), q.why = r.why, q.ident = r.ident, q.id = r.id, q.row = r.row,
         r.pc = "runner.list",
         \A l, m \in MystsIn(C) : l.identity = m.identity \/ l.id = m.id => l = m,
         \/ q.pc = "runner.create" /\ MystsOn(C, r.ident) = {}
         \/ q.pc = "runner.remove" /\ \E m \in MystsOn(C, r.ident) : q.target = m.id
  PROVE  /\ StageOK(q, D, K, T, C, J)
         /\ SyncOK(r, D, K, T, C) => SyncOK(q, D, K, T, C)
  <1>1. \A m \in MystsOn(C, r.ident) : m \in MystsIn(C) /\ m.identity = r.ident
    BY DEF MystsOn, MystsIn
  <1>2. \A m \in MystsIn(C) : m.id # r.op
    BY DEF StageOK, RunnerOK, Unmade
  <1> QED
    BY <1>1, <1>2
       DEF StageOK, RoleOK, AddOK, RunnerOK, RefusedOK, RemoveOK, DoneOK, SyncOK, Alike,
           Filed, Rowed, Answering, Unmade, Adding, Resting, Untouched, Removing, Uppers, NotInserted,
           Uploaded, Midway

(* With its container up a creation has put its identity into all stores.  *)
LEMMA AnsweringSynced ==
  ASSUME NEW r, NEW D, NEW K, NEW T, NEW C, AddOK(r, D, K, T), RunnerOK(r, C),
         r.pc \in Answering
  PROVE  Synced(r.ident, D, K, T, C)
  <1>1. r.pc \in Rowed
    BY DEF Answering, Rowed
  <1>2. PICK x \in T : x.live /\ x.identity = r.ident /\ x.id = r.id
    BY <1>1 DEF AddOK
  <1>3. PICK m \in MystsOn(C, r.ident) : m.row = r.id /\ m.status = "running"
    BY DEF RunnerOK
  <1>4. x \in RowsIn(T, r.ident)
    BY <1>2 DEF RowsIn
  <1>5. r.ident \in D /\ Key(K, r.ident)
    BY <1>1 DEF AddOK
  <1> QED
    BY <1>2, <1>3, <1>4, <1>5 DEF Synced

LEMMA CheckStage ==
  ASSUME NEW r, NEW q, NEW D, NEW K, NEW T, NEW C, NEW J, StageOK(r, D, K, T, C, J),
         Alike(q, r), q.why = r.why, q.ident = r.ident, q.id = r.id, q.row = r.row,
         r.pc = "add.check", q.pc = "unlock", q.target = r.op
  PROVE  /\ StageOK(q, D, K, T, C, J)
         /\ SyncOK(r, D, K, T, C) => SyncOK(q, D, K, T, C)
  BY DEF StageOK, RoleOK, AddOK, RunnerOK, RefusedOK, RemoveOK, DoneOK, SyncOK, Alike,
         Filed, Rowed, Answering, Unmade, Adding, Resting, Untouched, Removing, Uppers, NotInserted,
         Uploaded, Midway

LEMMA UnlockStage ==
  ASSUME NEW r, NEW q, NEW D, NEW K, NEW T, NEW C, NEW J, StageOK(r, D, K, T, C, J),
         Locals(q, r), r.pc = "unlock",
         \/ /\ q.pc = "register" /\ q.why = r.why
            /\ \A x \in r.row : x.password = K[r.ident]
         \/ /\ q.pc = "remove.row" /\ q.why = "Unlock"
            /\ \E x \in r.row : x.password # K[r.ident]
  PROVE  /\ StageOK(q, D, K, T, C, J)
         /\ SyncOK(r, D, K, T, C) => SyncOK(q, D, K, T, C)
  <1>1. /\ AddOK(r, D, K, T) /\ RunnerOK(r, C) /\ RoleOK(r)
        /\ r.pc \in Rowed /\ r.pc \in Adding /\ r.pc \in Answering
    BY DEF StageOK, Rowed, Adding, Answering
  <1>2. /\ K[r.ident] = r.locked /\ r.ident \in D /\ Key(K, r.ident)
        /\ \E x \in T : x.live /\ x.identity = r.ident /\ x.id = r.id /\ r.row = {x}
        /\ r.kind = "add" /\ r.why = "none"
    BY <1>1 DEF AddOK, RoleOK
  <1>3. /\ \E m \in MystsOn(C, r.ident) : m.id = r.op /\ m.row = r.id /\ m.status = "running"
        /\ r.target = r.op
    BY <1>1 DEF RunnerOK
  <1>4. SyncOK(r, D, K, T, C) => SyncOK(q, D, K, T, C)
    BY DEF SyncOK, Locals, Midway, Filed
  <1>5. CASE q.pc = "register"
    <2>1. RunnerOK(q, C)
      BY <1>1, <1>3, <1>5 DEF RunnerOK, Locals, Alike, Unmade, NotInserted, Uploaded, Adding
    <2>2. RoleOK(q) /\ AddOK(q, D, K, T)
      BY <1>2, <1>5 DEF RoleOK, AddOK, Locals, Alike, Rowed, Filed, Removing, Untouched, Resting,
                        Uppers, Adding
    <2> QED
      BY <1>4, <1>5, <1>2, <2>1, <2>2
         DEF StageOK, RefusedOK, RemoveOK, DoneOK, Removing, Untouched, Resting
  <1>6. CASE q.pc = "remove.row"
    <2>1. RunnerOK(q, C) /\ RoleOK(q) /\ AddOK(q, D, K, T)
      BY <1>2, <1>6 DEF RunnerOK, RoleOK, AddOK, Locals, Alike, Unmade, NotInserted, Uploaded,
                        Adding, Answering, Rowed, Filed, Removing, Untouched, Uppers
    <2>2. RefusedOK(q, D, K, T, C)
      BY <1>2, <1>3, <1>6 DEF RefusedOK, Locals, Alike, Resting, Removing, Untouched
    <2> QED
      BY <1>4, <1>6, <2>1, <2>2 DEF StageOK, RemoveOK, DoneOK
  <1> QED
    BY <1>5, <1>6

LEMMA RegisterStage ==
  ASSUME NEW r, NEW q, NEW D, NEW K, NEW T, NEW C, NEW J, NEW n, StageOK(r, D, K, T, C, J),
         Uniq(T, C, n), Locals(q, r), r.pc = "register", q.pc = "done", q.out = "Ok"
  PROVE  StageOK(q, D, K, T, C, J)
  <1>1. /\ AddOK(r, D, K, T) /\ RunnerOK(r, C) /\ RoleOK(r)
        /\ r.pc \in Rowed /\ r.pc \in Adding /\ r.pc \in Answering
    BY DEF StageOK, Rowed, Adding, Answering
  <1>2. PICK x \in T : x.live /\ x.identity = r.ident /\ x.id = r.id /\ r.row = {x}
    BY <1>1 DEF AddOK
  <1>3. K[r.ident] = r.locked /\ x.password = r.locked
    BY <1>1, <1>2 DEF AddOK
  <1>4. PICK m \in MystsOn(C, r.ident) : m.row = r.id /\ m.status = "running"
    BY <1>1 DEF RunnerOK
  <1>5. RowsIn(T, r.ident) = {x} /\ IdIn(T, r.id) = {x}
    BY <1>2 DEF RowsIn, IdIn, Uniq
  <1>6. Created(q, K, T, C)
    BY <1>3, <1>4, <1>5 DEF Created, Locals
  <1>7. q.kind = "add"
    BY <1>1 DEF RoleOK, Locals, Alike
  <1> QED
    BY <1>6, <1>7
       DEF StageOK, RoleOK, AddOK, RunnerOK, RefusedOK, RemoveOK, DoneOK, Filed, Rowed, Answering,
           Unmade, Adding, Resting, Untouched, Removing, Uppers, NotInserted, Uploaded

(* Removals, and creations that are rolled back.                           *)
LEMMA FoundStage ==
  ASSUME NEW r, NEW q, NEW D, NEW K, NEW T, NEW C, NEW J, NEW n, StageOK(r, D, K, T, C, J),
         Uniq(T, C, n), Alike(q, r), q.why = r.why, q.id = r.id, r.pc = "remove.row",
         q.pc = "remove.state", NEW x \in T, x.live, x.id = r.id,
         q.row = {x}, q.ident = x.identity
  PROVE  /\ StageOK(q, D, K, T, C, J)
         /\ SyncOK(r, D, K, T, C) => SyncOK(q, D, K, T, C)
  <1>1. RoleOK(q)
    BY DEF StageOK, RoleOK, Alike, Adding, NotInserted, Uploaded, Rowed, Removing, Untouched, Uppers
  <1>2. AddOK(q, D, K, T) /\ RunnerOK(q, C) /\ DoneOK(q, D, K, T, C)
    BY DEF AddOK, RunnerOK, DoneOK, Filed, Rowed, Answering, Unmade, Adding, NotInserted, Uploaded
  <1>3. RefusedOK(q, D, K, T, C)
    <2>1. CASE r.why = "Unlock"
      <3>1. RefusedOK(r, D, K, T, C)
        BY DEF StageOK
      <3>2. /\ \E y \in r.row : y.password # r.locked
            /\ r.ident \in D /\ Key(K, r.ident)
            /\ \E y \in T : y.live /\ y.identity = r.ident /\ y.id = r.id /\ r.row = {y}
            /\ \E m \in MystsOn(C, r.ident) : m.status = "running"
        BY <2>1, <3>1 DEF RefusedOK, Removing, Untouched
      <3>3. r.row = {x} /\ x.identity = r.ident
        BY <3>2 DEF Uniq
      <3> QED
        BY <3>2, <3>3 DEF RefusedOK, Alike, Resting, Removing, Untouched
    <2>2. CASE r.why # "Unlock"
      BY <2>2 DEF RefusedOK
    <2> QED
      BY <2>1, <2>2
  <1>4. RemoveOK(q, D, T, C, J)
    BY DEF RemoveOK, Uniq, RowsIn
  <1>5. RowsIn(T, q.ident) # {}
    BY DEF RowsIn
  <1> QED
    BY <1>1, <1>2, <1>3, <1>4, <1>5 DEF StageOK, SyncOK, Midway, Filed

(* The row is gone, so this is not a creation that was refused.            *)
LEMMA NotFoundStage ==
  ASSUME NEW r, NEW q, NEW D, NEW K, NEW T, NEW C, NEW J, StageOK(r, D, K, T, C, J),
         Locals(q, r), q.why = r.why, r.pc = "remove.row",
         q.pc = "rest.row", IdIn(T, r.id) = {}
  PROVE  /\ StageOK(q, D, K, T, C, J)
         /\ SyncOK(r, D, K, T, C) => SyncOK(q, D, K, T, C)
  <1>1. r.why # "Unlock"
    <2> SUFFICES ASSUME r.why = "Unlock" PROVE FALSE
      OBVIOUS
    <2>1. \E x \in T : x.live /\ x.id = r.id
      BY DEF StageOK, RefusedOK, Untouched
    <2> QED
      BY <2>1 DEF IdIn
  <1> QED
    BY <1>1
       DEF StageOK, RoleOK, AddOK, RunnerOK, RefusedOK, RemoveOK, DoneOK, SyncOK, Locals, Alike,
           Filed, Rowed, Answering, Unmade, Adding, Resting, Untouched, Removing, Uppers, NotInserted,
           Uploaded, Midway

(* An identity in all stores has what a removal wants to see.              *)
LEMMA ReadStateStage ==
  ASSUME NEW r, NEW q, NEW D, NEW K, NEW T, NEW C, NEW J, StageOK(r, D, K, T, C, J),
         Locals(q, r), q.why = r.why, r.pc = "remove.state",
         \/ q.pc = "remove.list"
         \/ /\ q.pc = "rest.row"
            /\ ~(Key(K, r.ident) /\ \E m \in MystsOn(C, r.ident) : m.status # "created")
  PROVE  StageOK(q, D, K, T, C, J)
  <1>1. q.pc = "rest.row" => r.why # "Unlock"
    <2> SUFFICES ASSUME q.pc = "rest.row", r.why = "Unlock" PROVE FALSE
      OBVIOUS
    <2>1. Key(K, r.ident) /\ \E m \in MystsOn(C, r.ident) : m.status = "running"
      BY DEF StageOK, RefusedOK, Untouched
    <2> QED
      BY <2>1
  <1> QED
    BY <1>1
       DEF StageOK, RoleOK, AddOK, RunnerOK, RefusedOK, RemoveOK, DoneOK, Locals, Alike,
           Filed, Rowed, Answering, Unmade, Adding, Resting, Untouched, Removing, Uppers, NotInserted,
           Uploaded

LEMMA ReadStateSync ==
  ASSUME NEW r, NEW q, NEW D, NEW K, NEW T, NEW C, SyncOK(r, D, K, T, C),
         q.ident = r.ident, r.pc = "remove.state", r.ident \in Identity
  PROVE  /\ q.pc = "remove.list" => SyncOK(q, D, K, T, C)
         /\ r.ident \in D /\ Key(K, r.ident)
         /\ \E m \in MystsOn(C, r.ident) : m.status # "created"
  <1>1. Synced(r.ident, D, K, T, C) /\ RowsIn(T, r.ident) # {}
    BY DEF SyncOK, Midway, Filed
  <1>2. /\ Key(K, r.ident) /\ r.ident \in D
        /\ \E m \in MystsOn(C, r.ident) : m.status = "running"
    BY <1>1 DEF Synced, TakenBack
  <1>3. q.pc = "remove.list" => SyncOK(q, D, K, T, C)
    BY DEF SyncOK, Midway, Filed
  <1> QED
    BY <1>2, <1>3

(* The parts of a removal, before any of them has run.                     *)
LEMMA StartStage ==
  ASSUME NEW r, NEW q, NEW D, NEW K, NEW T, NEW C, NEW J, NEW n, StageOK(r, D, K, T, C, {}),
         Uniq(T, C, n), Alike(q, r), q.why = r.why, q.id = r.id, q.ident = r.ident, q.row = r.row,
         r.pc = "remove.list", q.pc = "remove.wait", q.failed = FALSE,
         NEW m \in MystsOn(C, r.ident),
         \A t \in J : /\ t.identity = r.ident
                      /\ t.what = "row" => t.id = r.id
                      /\ t.what = "container" => t.id = m.id,
         \E t \in J : t.what = "row", \E t \in J : t.what = "dir",
         \E t \in J : t.what = "container" /\ t.id = m.id
  PROVE  /\ StageOK(q, D, K, T, C, J)
         /\ SyncOK(r, D, K, T, C) => SyncOK(q, D, K, T, C)
  <1>1. RoleOK(q)
    BY DEF StageOK, RoleOK, Alike, Adding, NotInserted, Uploaded, Rowed, Removing, Untouched, Uppers
  <1>2. AddOK(q, D, K, T) /\ RunnerOK(q, C) /\ DoneOK(q, D, K, T, C)
    BY DEF AddOK, RunnerOK, DoneOK, Filed, Rowed, Answering, Unmade, Adding, NotInserted, Uploaded
  <1>3. RefusedOK(q, D, K, T, C)
    BY DEF StageOK, RefusedOK, Alike, Resting, Removing, Untouched
  <1>4. m \in MystsIn(C) /\ \A l \in MystsOn(C, r.ident) : l \in MystsIn(C) /\ l.identity = r.ident
    BY DEF MystsIn, MystsOn
  <1>5. RemoveOK(q, D, T, C, J)
    <2>1. /\ \A x \in T : x.id = r.id => x.identity = r.ident
          /\ \A x \in RowsIn(T, r.ident) : x.id = r.id
      BY DEF StageOK, RemoveOK
    <2>2. \A l \in MystsIn(C) : l.id = m.id => l = m
      BY <1>4 DEF Uniq
    <2>3. \A l \in MystsOn(C, r.ident) : l = m
      BY <1>4 DEF Uniq
    <2> QED
      BY <1>4, <2>1, <2>2, <2>3 DEF RemoveOK
  <1>6. SyncOK(r, D, K, T, C) => SyncOK(q, D, K, T, C)
    BY DEF SyncOK, Midway, Filed
  <1> QED
    BY <1>1, <1>2, <1>3, <1>5, <1>6 DEF StageOK

(* The result of a removal, or of the creation that is rolled back.        *)
Resulting(q, r, o) ==
  /\ q.pc = "done"
  /\ q.out = IF r.why = "none" THEN o ELSE IF o = "Ok" THEN r.why ELSE "Combine"

LEMMA FailedRemoval ==
  ASSUME NEW r, NEW q, NEW D, NEW K, NEW T, NEW C, NEW J, StageOK(r, D, K, T, C, J),
         Locals(q, r), r.pc \in Removing, NEW o, o \notin {"Ok", "Unlock"}, Resulting(q, r, o)
  PROVE  StageOK(q, D, K, T, C, J)
  <1>1. RoleOK(r) /\ RefusedOK(r, D, K, T, C)
    BY DEF StageOK
  <1>2. q.out \notin {"Ok", "Unlock"}
    BY DEF Resulting
  <1>3. q.kind = "add" => Excused(q)
    BY <1>1 DEF RoleOK, RefusedOK, Excused, Locals, Alike
  <1> QED
    BY <1>2, <1>3, EndStage DEF Resulting

LEMMA DoneRemoval ==
  ASSUME NEW r, NEW q, NEW D, NEW K, NEW T, NEW C, NEW J, StageOK(r, D, K, T, C, J),
         Locals(q, r), r.pc \in Removing, Resulting(q, r, "Ok"),
         r.why = "Unlock" => TakenBack(r.ident, D, T, C),
         r.kind = "remove" => IdIn(T, r.id) = {} /\ \A m \in MystsIn(C) : m.row # r.id
  PROVE  StageOK(q, D, K, T, C, J)
  <1>1. RoleOK(r) /\ RefusedOK(r, D, K, T, C)
    BY DEF StageOK
  <1>2. \/ r.kind = "add" /\ r.why \in {"Repository", "Unlock"} /\ (r.clean => r.why = "Unlock")
        \/ r.kind = "remove" /\ r.why = "none"
    BY <1>1 DEF RoleOK
  <1>3. r.why = "Unlock" => \E x \in r.row : x.password # r.locked
    BY <1>1 DEF RefusedOK
  <1>4. DoneOK(q, D, K, T, C)
    BY <1>2, <1>3 DEF DoneOK, Excused, Locals, Alike, Resulting
  <1>5. q.pc = "done"
    BY DEF Resulting
  <1> QED
    BY <1>4, <1>5
       DEF StageOK, RoleOK, AddOK, RunnerOK, RefusedOK, RemoveOK, Filed, Rowed, Answering,
           Unmade, Adding, Resting, Untouched, Removing, Uppers, NotInserted, Uploaded

(* Nothing left to do: everything is gone.                                 *)
LEMMA WaitedFor ==
  ASSUME NEW r, NEW D, NEW K, NEW T, NEW C, NEW n, StageOK(r, D, K, T, C, {}), Uniq(T, C, n),
         r.pc = "remove.wait", ~r.failed
  PROVE  /\ TakenBack(r.ident, D, T, C)
         /\ IdIn(T, r.id) = {} /\ \A m \in MystsIn(C) : m.row # r.id
  <1>1. RemoveOK(r, D, T, C, {})
    BY DEF StageOK
  <1>2. /\ \A x \in T : x.id = r.id => x.identity = r.ident
        /\ \A x \in RowsIn(T, r.ident) : x.id = r.id
        /\ IdIn(T, r.id) = {} /\ r.ident \notin D /\ MystsOn(C, r.ident) = {}
    BY <1>1 DEF RemoveOK
  <1>3. RowsIn(T, r.ident) = {}
    BY <1>2 DEF RowsIn, IdIn
  <1>4. ASSUME NEW m \in MystsIn(C), m.row = r.id PROVE FALSE
    <2>1. PICK x \in T : x.id = m.row /\ x.identity = m.identity
      BY DEF Uniq
    <2>2. m \in MystsOn(C, r.ident)
      BY <1>2, <1>4, <2>1 DEF MystsIn, MystsOn
    <2> QED
      BY <1>2, <2>2
  <1> QED
    BY <1>2, <1>3, <1>4 DEF TakenBack

LEMMA WaitedSync ==
  ASSUME NEW r, NEW q, NEW D, NEW K, NEW T, NEW C, NEW n, StageOK(r, D, K, T, C, {}),
         Uniq(T, C, n), r.pc = "remove.wait", q.pc = "done", SyncOK(r, D, K, T, C)
  PROVE  ~r.failed /\ SyncOK(q, D, K, T, C)
  <1>1. ~r.failed /\ \A i \in Identity : Synced(i, D, K, T, C) \/ r.ident = i
    BY DEF SyncOK
  <1>2. TakenBack(r.ident, D, T, C)
    BY <1>1, WaitedFor
  <1>3. \A i \in Identity : Synced(i, D, K, T, C)
    BY <1>1, <1>2 DEF Synced
  <1> QED
    BY <1>1, <1>3 DEF SyncOK, Midway, Filed

(* What an earlier removal left.                                           *)
LEMMA RestStage ==
  ASSUME NEW r, NEW q, NEW D, NEW K, NEW T, NEW C, NEW J, StageOK(r, D, K, T, C, J),
         Alike(q, r), q.why = r.why, q.id = r.id, q.ident = r.ident, r.pc \in Resting,
         \/ r.pc = "rest.row" /\ q.pc = "rest.list" /\ (q.path <=> IdIn(T, r.id) # {})
         \/ /\ r.pc = "rest.list" /\ q.pc = "rest.file" /\ q.path = r.path
            /\ \A m \in MystsIn(C) : m.row # r.id
         \/ r.pc = "rest.list" /\ q.pc = "rest.remove"
  PROVE  StageOK(q, D, K, T, C, J)
  BY DEF StageOK, RoleOK, AddOK, RunnerOK, RefusedOK, RemoveOK, DoneOK, Alike,
         Filed, Rowed, Answering, Unmade, Adding, Resting, Untouched, Removing, Uppers, NotInserted,
         Uploaded

(* Without faults there is nothing to clean up.                            *)
LEMMA RestSync ==
  ASSUME NEW r, NEW q, NEW D, NEW K, NEW T, NEW C, SyncOK(r, D, K, T, C), q.id = r.id,
         q.ident = r.ident, r.pc \in {"rest.row", "rest.list"}, q.pc \in {"rest.list", "rest.file"}
  PROVE  SyncOK(q, D, K, T, C)
  BY DEF SyncOK, Midway, Filed

LEMMA NoRest ==
  ASSUME NEW r, NEW D, NEW K, NEW T, NEW C, NEW n, SyncOK(r, D, K, T, C), Uniq(T, C, n),
         r.pc \in {"rest.row", "rest.list", "rest.file"}, MystsIn(C) \subseteq Container
  PROVE  \A m \in MystsIn(C) : m.row # r.id
  <1> SUFFICES ASSUME NEW m \in MystsIn(C), m.row = r.id PROVE FALSE
    OBVIOUS
  <1>1. m.identity \in Identity /\ m \in MystsOn(C, m.identity)
    BY DEF MystsIn, MystsOn, Container
  <1>2. Synced(m.identity, D, K, T, C) /\ IdIn(T, r.id) = {}
    BY <1>1 DEF SyncOK, Midway, Filed
  <1>3. PICK x \in RowsIn(T, m.identity), l \in MystsOn(C, m.identity) : l.row = x.id
    BY <1>1, <1>2 DEF Synced, TakenBack
  <1>4. l = m
    BY <1>1, <1>3 DEF Uniq, MystsOn, MystsIn
  <1>5. x \in IdIn(T, r.id)
    BY <1>3, <1>4 DEF RowsIn, IdIn
  <1> QED
    BY <1>2, <1>5

LEMMA UpStage ==
  ASSUME NEW r, NEW q, NEW D, NEW K, NEW T, NEW C, NEW J, StageOK(r, D, K, T, C, J),
         q.kind = r.kind, q.why = r.why, r.pc \in Uppers, q.pc \in {"up.runner", "up.connect"}
  PROVE  /\ StageOK(q, D, K, T, C, J)
         /\ SyncOK(r, D, K, T, C) => SyncOK(q, D, K, T, C)
  <1>1. RefusedOK(q, D, K, T, C)
    BY DEF RefusedOK, Resting, Removing, Untouched
  <1> QED
    BY <1>1
       DEF StageOK, RoleOK, AddOK, RunnerOK, RemoveOK, DoneOK, SyncOK,
           Filed, Rowed, Answering, Unmade, Adding, Resting, Untouched, Removing, Uppers, NotInserted,
           Uploaded, Midway

(* Steps that change a store.                                              *)
LEMMA UniqFewer ==
  ASSUME NEW T, NEW C, NEW n, Uniq(T, C, n), NEW C2, C2 \subseteq C
  PROVE  Uniq(T, C2, n)
  BY DEF Uniq, MystsIn

LEMMA MakeDirStage ==
  ASSUME NEW r, NEW q, NEW D, NEW K, NEW T, NEW C, NEW J, StageOK(r, D, K, T, C, J),
         Locals(q, r), q.why = r.why, r.pc = "add.mkdir", q.pc = "add.copy"
  PROVE  /\ StageOK(q, D \cup {r.ident}, K, T, C, J)
         /\ SyncOK(r, D, K, T, C) => SyncOK(q, D \cup {r.ident}, K, T, C)
  <1>1. StageOK(q, D \cup {r.ident}, K, T, C, J)
    BY DEF StageOK, RoleOK, AddOK, RunnerOK, RefusedOK, RemoveOK, DoneOK, Locals, Alike,
           Filed, Rowed, Answering, Unmade, Adding, Resting, Untouched, Removing, Uppers,
           NotInserted, Uploaded
  <1>2. \A i : i # r.ident => Synced(i, D \cup {r.ident}, K, T, C) = Synced(i, D, K, T, C)
    BY DEF Synced, TakenBack
  <1> QED
    BY <1>1, <1>2 DEF SyncOK, Locals, Midway, Filed

LEMMA CopyKeyStage ==
  ASSUME NEW r, NEW q, NEW D, NEW K, NEW T, NEW C, NEW J, StageOK(r, D, K, T, C, J),
         Locals(q, r), q.why = r.why, r.pc = "add.copy", q.pc = "add.unlink",
         r.ident \in Identity, r.locked \in Password,
         NEW L, L[r.ident] = r.locked, \A i \in Identity \ {r.ident} : L[i] = K[i]
  PROVE  /\ StageOK(q, D, L, T, C, J)
         /\ SyncOK(r, D, K, T, C) => SyncOK(q, D, L, T, C)
  <1>1. Key(L, r.ident) /\ L[r.ident] = r.locked /\ \A i \in Identity \ {r.ident} : L[i] = K[i]
    BY NoneAssumption DEF Key
  <1>2. StageOK(q, D, L, T, C, J)
    BY <1>1
       DEF StageOK, RoleOK, AddOK, RunnerOK, RefusedOK, RemoveOK, DoneOK, Locals, Alike,
           Filed, Rowed, Answering, Unmade, Adding, Resting, Untouched, Removing, Uppers,
           NotInserted, Uploaded
  <1>3. \A i \in Identity \ {r.ident} : Synced(i, D, K, T, C) => Synced(i, D, L, T, C)
    BY <1>1 DEF Synced, Key
  <1> QED
    BY <1>2, <1>3 DEF SyncOK, Locals, Midway, Filed

LEMMA UnlinkStage ==
  ASSUME NEW r, NEW q, NEW D, NEW K, NEW T, NEW C, NEW J, StageOK(r, D, K, T, C, J),
         Locals(q, r), q.why = r.why, r.pc = "add.unlink", q.pc = "add.row"
  PROVE  /\ StageOK(q, D, K, T, C, J)
         /\ SyncOK(r, D, K, T, C) => SyncOK(q, D, K, T, C)
  BY DEF StageOK, RoleOK, AddOK, RunnerOK, RefusedOK, RemoveOK, DoneOK, SyncOK, Locals, Alike,
         Filed, Rowed, Answering, Unmade, Adding, Resting, Untouched, Removing, Uppers, NotInserted,
         Uploaded, Midway

(* The new row is the only one of its id and the only live one of its      *)
(* identity.                                                               *)
LEMMA InsertStage ==
  ASSUME NEW r, NEW q, NEW D, NEW K, NEW T, NEW C, NEW J, NEW n, StageOK(r, D, K, T, C, J),
         Uniq(T, C, n), Alike(q, r), q.why = r.why, q.ident = r.ident,
         r.pc = "add.insert", q.pc = "runner.list",
         NEW x, x.live, x.identity = r.ident, q.id = x.id, q.row = {x},
         \A y \in T : y.id # x.id, NEW W, W = T \cup {x}
  PROVE  /\ Uniq(W, C, n)
         /\ StageOK(q, D, K, W, C, J)
         /\ SyncOK(r, D, K, T, C) => SyncOK(q, D, K, W, C)
  <1>1. RowsIn(T, r.ident) = {}
    BY DEF StageOK, AddOK
  <1>2. Uniq(W, C, n)
    <2>1. \A y \in T : y.live => y.identity # x.identity
      BY <1>1 DEF RowsIn
    <2>2. \A m \in MystsIn(C) : \E y \in W : y.id = m.row /\ y.identity = m.identity
      BY DEF Uniq
    <2> QED
      BY <2>1, <2>2 DEF Uniq
  <1>3. StageOK(q, D, K, W, C, J)
    BY DEF StageOK, RoleOK, AddOK, RunnerOK, RefusedOK, RemoveOK, DoneOK, Alike,
           Filed, Rowed, Answering, Unmade, Adding, Resting, Untouched, Removing, Uppers,
           NotInserted, Uploaded
  <1>4. \A i : i # r.ident => RowsIn(W, i) = RowsIn(T, i)
    BY DEF RowsIn
  <1>5. \A i : i # r.ident /\ Synced(i, D, K, T, C) => Synced(i, D, K, W, C)
    BY <1>4 DEF Synced, TakenBack
  <1> QED
    BY <1>2, <1>3, <1>5 DEF SyncOK, Midway, Filed

LEMMA RemoveOldStage ==
  ASSUME NEW r, NEW q, NEW D, NEW K, NEW T, NEW C, NEW J, StageOK(r, D, K, T, C, J),
         Locals(q, r), q.why = r.why, r.pc = "runner.remove", q.pc = "runner.create",
         NEW B, B = {c \in C : ~(c.kind = "myst" /\ c.id = r.target)}
  PROVE  /\ StageOK(q, D, K, T, B, J)
         /\ SyncOK(r, D, K, T, C) => SyncOK(q, D, K, T, B)
  <1>1. \A m \in MystsIn(C) : m.identity = r.ident <=> m.id = r.target
    BY DEF StageOK, RunnerOK
  <1>2. MystsOn(B, r.ident) = {} /\ \A i : i # r.ident => MystsOn(B, i) = MystsOn(C, i)
    BY <1>1 DEF MystsOn, MystsIn
  <1>3. MystsIn(B) \subseteq MystsIn(C) /\ B \subseteq C
    BY DEF MystsIn
  <1>4. RunnerOK(q, B)
    BY <1>2, <1>3 DEF StageOK, RunnerOK, Locals, Alike, Unmade, NotInserted, Uploaded, Adding,
                      Rowed, Answering
  <1>5. StageOK(q, D, K, T, B, J)
    BY <1>4
       DEF StageOK, RoleOK, AddOK, RefusedOK, RemoveOK, DoneOK, Locals, Alike,
           Filed, Rowed, Adding, Resting, Untouched, Removing, Uppers, NotInserted, Uploaded
  <1>6. \A i : i # r.ident /\ Synced(i, D, K, T, C) => Synced(i, D, K, T, B)
    BY <1>2 DEF Synced, TakenBack
  <1> QED
    BY <1>5, <1>6 DEF SyncOK, Locals, Midway, Filed

(* What Docker is asked to clear leaves room for the new container.        *)
Cleared(C, i) == {c \in C : ~(c.kind = "myst" /\ c.identity = i /\ c.status = "created")}

LEMMA CreateMystStage ==
  ASSUME NEW r, NEW q, NEW D, NEW K, NEW T, NEW C, NEW J, NEW n, StageOK(r, D, K, T, C, J),
         Uniq(T, C, n), Locals(q, r), q.why = r.why, r.pc = "runner.create", q.pc = "runner.start",
         NEW m, m.kind = "myst", m.id = r.op, m.identity = r.ident, m.row = r.id, m.on = 0,
         m.status = "created", n \in Nat, r.op \in 0 .. n,
         NEW B, B = Cleared(C, r.ident) \cup {m}
  PROVE  /\ Uniq(T, B, n) /\ StageOK(q, D, K, T, B, J)
         /\ SyncOK(r, D, K, T, C) => SyncOK(q, D, K, T, B)
  <1>1. /\ \A l \in MystsOn(C, r.ident) : l.status = "created"
        /\ \A l \in MystsIn(C) : l.id = r.op => l.identity = r.ident
        /\ \E x \in T : x.live /\ x.identity = r.ident /\ x.id = r.id /\ r.row = {x}
    BY DEF StageOK, RunnerOK, AddOK, Rowed
  <1>2. \A l \in MystsIn(B) : l = m \/ (l \in MystsIn(C) /\ l.identity # r.ident /\ l.id # r.op)
    BY <1>1 DEF MystsIn, MystsOn, Cleared
  <1>3. \A c \in B : c = m \/ c \in C
    BY DEF Cleared
  <1>4. Uniq(T, B, n)
    <2>1. \A k, l \in MystsIn(B) : k.identity = l.identity \/ k.id = l.id => k = l
      BY <1>2 DEF Uniq
    <2>2. \A l \in MystsIn(B) : l.id <= n /\ \E x \in T : x.id = l.row /\ x.identity = l.identity
      BY <1>1, <1>2 DEF Uniq
    <2>3. \A c \in B : c.on <= n
      BY <1>3 DEF Uniq
    <2> QED
      BY <2>1, <2>2, <2>3 DEF Uniq
  <1>5. MystsOn(B, r.ident) = {m} /\ \A i : i # r.ident => MystsOn(B, i) = MystsOn(C, i)
    BY <1>1 DEF MystsOn, Cleared
  <1>6. RunnerOK(q, B)
    BY <1>3, <1>5 DEF StageOK, RunnerOK, Locals, Alike, Unmade, NotInserted, Uploaded, Adding,
                      Rowed, Answering
  <1>7. StageOK(q, D, K, T, B, J)
    BY <1>6
       DEF StageOK, RoleOK, AddOK, RefusedOK, RemoveOK, DoneOK, Locals, Alike,
           Filed, Rowed, Adding, Resting, Untouched, Removing, Uppers, NotInserted, Uploaded
  <1>8. \A i : i # r.ident /\ Synced(i, D, K, T, C) => Synced(i, D, K, T, B)
    BY <1>5 DEF Synced, TakenBack
  <1> QED
    BY <1>4, <1>7, <1>8 DEF SyncOK, Locals, Midway, Filed

LEMMA StartMystStage ==
  ASSUME NEW r, NEW q, NEW D, NEW K, NEW T, NEW C, NEW J, NEW n, StageOK(r, D, K, T, C, J),
         Uniq(T, C, n), Locals(q, r), q.why = r.why, r.pc = "runner.start", q.pc = "add.check",
         NEW l \in MystsOn(C, r.ident), l.id = r.op,
         NEW m, m.kind = "myst", m.id = l.id, m.identity = l.identity, m.row = l.row,
         m.on = l.on, m.status = "running",
         NEW B, B = (C \ {l}) \cup {m}
  PROVE  /\ Uniq(T, B, n) /\ StageOK(q, D, K, T, B, J)
         /\ SyncOK(r, D, K, T, C) => SyncOK(q, D, K, T, B)
  <1>1. l \in MystsIn(C) /\ l \in C /\ l.identity = r.ident
    BY DEF MystsOn, MystsIn
  <1>2. MystsIn(B) = (MystsIn(C) \ {l}) \cup {m}
    BY DEF MystsIn
  <1>3. l.row = r.id
    <2>1. PICK k \in MystsOn(C, r.ident) : k.id = r.op /\ k.row = r.id
      BY DEF StageOK, RunnerOK
    <2>2. k = l
      BY <1>1, <2>1 DEF Uniq, MystsOn, MystsIn
    <2> QED
      BY <2>1, <2>2
  <1>4. Uniq(T, B, n)
    <2>1. \A k, p \in MystsIn(B) : k.identity = p.identity \/ k.id = p.id => k = p
      BY <1>1, <1>2 DEF Uniq
    <2>2. \A p \in MystsIn(B) : p.id <= n /\ \E x \in T : x.id = p.row /\ x.identity = p.identity
      BY <1>1, <1>2 DEF Uniq
    <2>3. \A c \in B : c.on <= n
      BY <1>1 DEF Uniq
    <2> QED
      BY <2>1, <2>2, <2>3 DEF Uniq
  <1>5. m \in MystsOn(B, r.ident) /\ \A i : i # r.ident => MystsOn(B, i) = MystsOn(C, i)
    BY <1>1 DEF MystsOn
  <1>6. RunnerOK(q, B)
    BY <1>3, <1>5 DEF StageOK, RunnerOK, Locals, Alike, Unmade, NotInserted, Uploaded, Adding,
                      Rowed, Answering
  <1>7. StageOK(q, D, K, T, B, J)
    BY <1>6
       DEF StageOK, RoleOK, AddOK, RefusedOK, RemoveOK, DoneOK, Locals, Alike,
           Filed, Rowed, Adding, Resting, Untouched, Removing, Uppers, NotInserted, Uploaded
  <1>8. \A i : i # r.ident /\ Synced(i, D, K, T, C) => Synced(i, D, K, T, B)
    BY <1>5 DEF Synced, TakenBack
  <1>9. Synced(r.ident, D, K, T, B)
    BY <1>6, <1>7, AnsweringSynced DEF StageOK, Answering, Locals
  <1> QED
    BY <1>4, <1>7, <1>8, <1>9 DEF SyncOK, Locals, Midway, Filed

(* An address in use: the container is still there and is made again.      *)
LEMMA StartAgainStage ==
  ASSUME NEW r, NEW q, NEW D, NEW K, NEW T, NEW C, NEW J, NEW n, StageOK(r, D, K, T, C, J),
         Uniq(T, C, n), Locals(q, r), q.why = r.why, r.pc = "runner.start", q.pc = "runner.create"
  PROVE  StageOK(q, D, K, T, C, J)
  <1>1. PICK m \in MystsOn(C, r.ident) : m.id = r.op /\ m.status = "created"
    BY DEF StageOK, RunnerOK
  <1>2. /\ \A l \in MystsOn(C, r.ident) : l = m
        /\ \A l \in MystsIn(C) : l.id = r.op => l = m
        /\ m.identity = r.ident
    BY <1>1 DEF Uniq, MystsOn, MystsIn
  <1>3. RunnerOK(q, C)
    BY <1>1, <1>2 DEF StageOK, RunnerOK, Locals, Alike, Unmade, NotInserted, Uploaded, Adding,
                      Rowed, Answering
  <1> QED
    BY <1>3
       DEF StageOK, RoleOK, AddOK, RefusedOK, RemoveOK, DoneOK, Locals, Alike,
           Filed, Rowed, Adding, Resting, Untouched, Removing, Uppers, NotInserted, Uploaded

(* The parts of a removal, one after the other in any order.               *)
(* The table W is T with the row n no longer live.                         *)
Retired(T, W, n) ==
  /\ \A y \in W : /\ \E x \in T : y.id = x.id /\ y.identity = x.identity
                  /\ y.live => y \in T /\ y.id # n
  /\ \A x \in T : /\ \E y \in W : y.id = x.id /\ y.identity = x.identity
                  /\ x.id # n => x \in W
  /\ \A x, y \in W : x.id = y.id => x = y

LEMMA RowPartStage ==
  ASSUME NEW r, NEW D, NEW K, NEW T, NEW C, NEW J, NEW n,
         StageOK(r, D, K, T, C, J), Uniq(T, C, n), r.pc = "remove.wait",
         NEW t \in J, t.what = "row", NEW W, Retired(T, W, t.id)
  PROVE  /\ Uniq(W, C, n) /\ StageOK(r, D, K, W, C, J \ {t})
         /\ SyncOK(r, D, K, T, C) => SyncOK(r, D, K, W, C)
  <1>1. RemoveOK(r, D, T, C, J) /\ RoleOK(r) /\ RefusedOK(r, D, K, T, C)
    BY DEF StageOK
  <1>2. t.id = r.id /\ \A x \in T : x.id = r.id => x.identity = r.ident
    BY <1>1 DEF RemoveOK
  <1>3. Uniq(W, C, n)
    <2>1. \A m \in MystsIn(C) : \E y \in W : y.id = m.row /\ y.identity = m.identity
      BY DEF Uniq, Retired
    <2>2. \A x, y \in W : x.live /\ y.live /\ x.identity = y.identity => x = y
      BY DEF Uniq, Retired
    <2> QED
      BY <2>1, <2>2 DEF Uniq, Retired
  <1>4. IdIn(W, r.id) = {}
    BY <1>2 DEF IdIn, Retired
  <1>5. \A i : i # r.ident => RowsIn(W, i) = RowsIn(T, i)
    BY <1>2 DEF RowsIn, Retired
  <1>6. RemoveOK(r, D, W, C, J \ {t})
    <2>1. \A x \in W : x.id = r.id => x.identity = r.ident
      BY <1>2 DEF Retired
    <2>2. \A x \in RowsIn(W, r.ident) : x.id = r.id
      BY <1>1 DEF RemoveOK, RowsIn, Retired
    <2> QED
      BY <1>1, <1>4, <2>1, <2>2 DEF RemoveOK
  <1>7. StageOK(r, D, K, W, C, J \ {t})
    BY <1>1, <1>6
       DEF StageOK, AddOK, RunnerOK, RefusedOK, DoneOK, Filed, Rowed, Answering, Unmade, Adding,
           Resting, Untouched, NotInserted, Uploaded
  <1>8. \A i : i # r.ident /\ Synced(i, D, K, T, C) => Synced(i, D, K, W, C)
    BY <1>5 DEF Synced, TakenBack
  <1> QED
    BY <1>3, <1>7, <1>8 DEF SyncOK, Midway

LEMMA DirPartStage ==
  ASSUME NEW r, NEW D, NEW K \in [Identity -> Password \cup {NoPassword}], NEW T, NEW C, NEW J,
         StageOK(r, D, K, T, C, J), r.pc = "remove.wait",
         NEW t \in J, t.what = "dir",
         NEW L, L = [K EXCEPT ![t.identity] = NoPassword]
  PROVE  /\ StageOK(r, D \ {t.identity}, L, T, C, J \ {t})
         /\ SyncOK(r, D, K, T, C) => SyncOK(r, D \ {t.identity}, L, T, C)
  <1>1. RemoveOK(r, D, T, C, J) /\ RoleOK(r) /\ RefusedOK(r, D, K, T, C)
    BY DEF StageOK
  <1>2. t.identity = r.ident
    BY <1>1 DEF RemoveOK
  <1>3. RemoveOK(r, D \ {t.identity}, T, C, J \ {t})
    BY <1>1, <1>2 DEF RemoveOK
  <1>4. StageOK(r, D \ {t.identity}, L, T, C, J \ {t})
    BY <1>1, <1>3
       DEF StageOK, AddOK, RunnerOK, RefusedOK, DoneOK, Filed, Rowed, Answering, Unmade, Adding,
           Resting, Untouched, NotInserted, Uploaded
  <1>5. \A i \in Identity \ {r.ident} : L[i] = K[i]
    BY <1>2
  <1>6. \A i \in Identity \ {r.ident} : Synced(i, D, K, T, C) =>
          Synced(i, D \ {t.identity}, L, T, C)
    BY <1>2, <1>5 DEF Synced, TakenBack, Key
  <1> QED
    BY <1>4, <1>6 DEF SyncOK, Midway

LEMMA RunnerPartStage ==
  ASSUME NEW r, NEW D, NEW K, NEW T, NEW C, NEW J,
         StageOK(r, D, K, T, C, J), r.pc = "remove.wait",
         NEW t \in J, t.what = "container",
         NEW B, B = {c \in C : ~(c.kind = "myst" /\ c.id = t.id)}
  PROVE  /\ StageOK(r, D, K, T, B, J \ {t})
         /\ SyncOK(r, D, K, T, C) => SyncOK(r, D, K, T, B)
  <1>1. RemoveOK(r, D, T, C, J) /\ RoleOK(r) /\ RefusedOK(r, D, K, T, C)
    BY DEF StageOK
  <1>2. \A m \in MystsIn(C) : m.id = t.id => m.identity = r.ident
    BY <1>1 DEF RemoveOK
  <1>3. /\ MystsIn(B) \subseteq MystsIn(C)
        /\ \A m \in MystsOn(B, r.ident) : m \in MystsOn(C, r.ident) /\ m.id # t.id
    BY DEF MystsIn, MystsOn
  <1>4. \A i : i # r.ident => MystsOn(B, i) = MystsOn(C, i)
    BY <1>2 DEF MystsIn, MystsOn
  <1>5. RemoveOK(r, D, T, B, J \ {t})
    BY <1>1, <1>3 DEF RemoveOK
  <1>6. StageOK(r, D, K, T, B, J \ {t})
    BY <1>1, <1>5
       DEF StageOK, AddOK, RunnerOK, RefusedOK, DoneOK, Filed, Rowed, Answering, Unmade, Adding,
           Resting, Untouched, NotInserted, Uploaded
  <1>7. \A i : i # r.ident /\ Synced(i, D, K, T, C) => Synced(i, D, K, T, B)
    BY <1>4 DEF Synced, TakenBack
  <1> QED
    BY <1>6, <1>7 DEF SyncOK, Midway

(* A part that fails leaves its store as it is.                            *)
LEMMA PartFailsStage ==
  ASSUME NEW r, NEW q, NEW D, NEW K, NEW T, NEW C, NEW J, StageOK(r, D, K, T, C, J),
         r.pc = "remove.wait", q.pc = r.pc, q.kind = r.kind, q.why = r.why, q.id = r.id,
         q.ident = r.ident, q.row = r.row, q.locked = r.locked, q.failed, ~q.clean, NEW t
  PROVE  StageOK(q, D, K, T, C, J \ {t})
  <1>1. RemoveOK(r, D, T, C, J) /\ RoleOK(r) /\ RefusedOK(r, D, K, T, C)
    BY DEF StageOK
  <1>2. RoleOK(q)
    BY <1>1 DEF RoleOK, Adding, NotInserted, Uploaded, Rowed, Removing, Untouched, Resting, Uppers
  <1>3. RemoveOK(q, D, T, C, J \ {t})
    BY <1>1 DEF RemoveOK
  <1> QED
    BY <1>1, <1>2, <1>3
       DEF StageOK, AddOK, RunnerOK, RefusedOK, DoneOK, Filed, Rowed, Answering, Unmade, Adding,
           Removing, Resting, Untouched, NotInserted, Uploaded

LEMMA RestRunnerStage ==
  ASSUME NEW r, NEW q, NEW D, NEW K, NEW T, NEW C, NEW B, NEW J, StageOK(r, D, K, T, C, J),
         Alike(q, r), q.why = r.why, r.pc = "rest.remove", q.pc = "rest.file", q.path
  PROVE  StageOK(q, D, K, T, B, J)
  <1>1. RoleOK(r) /\ RefusedOK(r, D, K, T, C)
    BY DEF StageOK
  <1> QED
    BY <1>1
       DEF StageOK, RoleOK, AddOK, RunnerOK, RefusedOK, RemoveOK, DoneOK, Alike, Filed, Rowed,
           Answering, Unmade, Adding, Removing, Resting, Untouched, Uppers, NotInserted, Uploaded

(* A connection joins a daemon that is there.                              *)
LEMMA ConnectUniq ==
  ASSUME NEW T, NEW C, NEW n, Uniq(T, C, n), NEW c, c.kind = "connect",
         NEW m \in MystsIn(C), c.on = m.id
  PROVE  Uniq(T, C \cup {c}, n)
  <1>1. MystsIn(C \cup {c}) = MystsIn(C)
    BY DEF MystsIn
  <1> QED
    BY <1>1 DEF Uniq

(* Connections are not what the three stores are about.                    *)
LEMMA ConnectSync ==
  ASSUME NEW r, NEW D, NEW K, NEW T, NEW C, NEW B, MystsIn(B) = MystsIn(C),
         SyncOK(r, D, K, T, C)
  PROVE  SyncOK(r, D, K, T, B)
  <1>1. \A i : MystsOn(B, i) = MystsOn(C, i)
    BY DEF MystsOn, MystsIn
  <1> QED
    BY <1>1 DEF SyncOK, Synced, TakenBack

(* A call that fails before a removal could begin.                         *)
LEMMA FailStage ==
  ASSUME NEW r, NEW q, NEW D, NEW K, NEW T, NEW C, NEW J, StageOK(r, D, K, T, C, J),
         r.pc \in {"unlock", "register"}, q.pc = "remove.row", q.kind = r.kind,
         q.why = "Repository", ~q.clean
  PROVE  StageOK(q, D, K, T, C, J)
  <1>1. r.kind = "add"
    BY DEF StageOK, RoleOK, Adding, Rowed
  <1> QED
    BY <1>1
       DEF StageOK, RoleOK, AddOK, RunnerOK, RefusedOK, RemoveOK, DoneOK, Filed, Rowed,
           Answering, Unmade, Adding, Removing, Resting, Untouched, Uppers, NotInserted, Uploaded

(* A new request has a number nobody has.                                  *)
LEMMA BeginStage ==
  ASSUME NEW q, NEW D, NEW K, NEW T, NEW C \in SUBSET Container, NEW J, NEW n \in Nat,
         Uniq(T, C, n), q.op = n + 1, q.why = "none", q.pc \in
           {"add.look", "remove.row", "up.pick", "down.remove"},
         q.kind = CASE q.pc = "add.look" -> "add" [] q.pc = "remove.row" -> "remove"
                    [] q.pc = "up.pick" -> "up" [] OTHER -> "down",
         q.pc = "add.look" => q.ident = NoIdentity
  PROVE  /\ Uniq(T, C, n + 1) /\ StageOK(q, D, K, T, C, J)
         /\ (\A i \in Identity : Synced(i, D, K, T, C)) => SyncOK(q, D, K, T, C)
  <1>1. \A c \in C : c.id \in Nat /\ c.on \in Nat
    BY BoundAssumption DEF Container
  <1>2. Uniq(T, C, n + 1)
    BY <1>1 DEF Uniq, MystsIn
  <1>3. (\A m \in MystsIn(C) : m.id # q.op) /\ \A c \in C : c.on # q.op
    BY <1>1 DEF Uniq, MystsIn
  <1>4. RoleOK(q)
    BY DEF RoleOK, Adding, Rowed, NotInserted, Uploaded, Removing, Resting, Untouched, Uppers
  <1>5. StageOK(q, D, K, T, C, J)
    BY <1>3, <1>4
       DEF StageOK, AddOK, RunnerOK, RefusedOK, RemoveOK, DoneOK, Filed, Rowed,
           Answering, Unmade, Adding, Removing, Resting, Untouched, NotInserted, Uploaded
  <1> QED
    BY <1>2, <1>5 DEF SyncOK, Midway, Filed

-----------------------------------------------------------------------------
(* The steps.                                                              *)
LEMMA RemovedResults ==
  ASSUME RequestsTyped, NEW s \in Slots, NEW o, Removed(s, o)
  PROVE  /\ Others(s) /\ Locals(req'[s], req[s]) /\ req'[s].pc = "done"
         /\ Resulting(req'[s], req[s], o)
  BY Stepping DEF Removed, Resulting

(* The request s moves on, the store it changes moved with it.             *)
LEMMA ServedOn ==
  ASSUME AloneInv, StageInv, ~overlapped, NEW s \in Slots, ~At(s, "idle"), Others(s),
         UNCHANGED faults, req'[s].pc # "idle",
         Uniq(rows', containers', ops'),
         StageOK(req'[s], dirs', keys', rows', containers', tasks'),
         SyncOK(req[s], dirs, keys, rows, containers) =>
           SyncOK(req'[s], dirs', keys', rows', containers')
  PROVE  StageInv'
  <1>1. \A t \in Slots \ {s} : req'[t].pc = "idle"
    BY Serving DEF Others, At
  <1> QED
    BY <1>1, Serving, Served

(* ... and a fault makes the other stores no matter.                       *)
LEMMA ServedFaulty ==
  ASSUME AloneInv, StageInv, ~overlapped, NEW s \in Slots, ~At(s, "idle"), faults \in Nat,
         \A t \in Slots \ {s} : At(t, "idle") => req'[t].pc = "idle",
         faults' = faults + 1, req'[s].pc # "idle",
         Uniq(rows', containers', ops'),
         StageOK(req'[s], dirs', keys', rows', containers', tasks')
  PROVE  StageInv'
  <1>1. \A t \in Slots \ {s} : req'[t].pc = "idle"
    BY Serving
  <1> QED
    BY <1>1, Serving, Served

LEMMA AddFileStage ==
  ASSUME TypeInv, IInv, AloneInv, StageInv, ~overlapped', NEW s \in Slots,
         AddLook(s) \/ ReadKey(s) \/ MakeDir(s) \/ CopyKey(s) \/ UnlinkUpload(s)
  PROVE  StageInv'
  <1>t. /\ RequestsTyped /\ req \in [Slots -> Request] /\ req[s] \in Request /\ Formed(req[s])
        /\ keys \in [Identity -> Password \cup {NoPassword}]
        /\ KeyOK(req[s], uploads, keys, erased, rows)
    BY DEF TypeInv, TypeOK, RequestsTyped, IInv, RequestsOK
  <1>o. ~overlapped /\ ~At(s, "idle")
    BY DEF AddLook, ReadKey, MakeDir, CopyKey, UnlinkUpload, At
  <1>s. /\ Uniq(rows, containers, ops)
        /\ StageOK(req[s], dirs, keys, rows, containers, tasks)
    BY <1>o, Serving
  <1>1. CASE AddLook(s)
    <2>1. req[s].pc = "add.look" /\ UNCHANGED <<dirs, keys, rows, containers, tasks, ops, faults>>
      BY <1>1 DEF AddLook, At, stores
    <2>2. req[s].ident = NoIdentity
      BY <1>s, <2>1 DEF StageOK, AddOK
    <2>3. Goto(s, "add.parse")
      BY <1>1, <2>2, NoneAssumption DEF AddLook, Whole, HasKey
    <2>4. /\ Others(s) /\ Locals(req'[s], req[s]) /\ req'[s].pc = "add.parse"
          /\ req'[s].why = req[s].why
      BY <1>t, <2>3, Stepping
    <2> QED
      BY <1>o, <1>s, <2>1, <2>4, AddLookStage, ServedQuietly
  <1>2. CASE ReadKey(s)
    <2>1. req[s].pc = "add.parse" /\ UNCHANGED <<dirs, keys, rows, containers, tasks, ops, faults>>
      BY <1>2 DEF ReadKey, At, stores
    <2>2. CASE req[s].content = NoIdentity
      <3>1. Answer(s, "BadKey")
        BY <1>2, <2>2 DEF ReadKey
      <3>2. /\ Others(s) /\ Locals(req'[s], req[s]) /\ req'[s].pc = "done"
            /\ req'[s].out = "BadKey"
        BY <1>t, <3>1, Stepping
      <3>3. Excused(req'[s])
        BY <2>2, <3>2 DEF Excused, Locals, Alike
      <3>4. StageOK(req'[s], dirs, keys, rows, containers, tasks)
        BY <3>2, <3>3, EndStage
      <3>5. SyncOK(req[s], dirs, keys, rows, containers) =>
              SyncOK(req'[s], dirs, keys, rows, containers)
        BY <2>1, <3>2, EndSync DEF Midway, Filed
      <3> QED
        BY <1>o, <2>1, <3>2, <3>4, <3>5, ServedQuietly
    <2>3. CASE req[s].content # NoIdentity
      <3>1. req' = [req EXCEPT ![s].pc = "add.mkdir", ![s].ident = req[s].content]
        BY <1>2, <2>3 DEF ReadKey
      <3>2. /\ Others(s) /\ Alike(req'[s], req[s]) /\ req'[s].pc = "add.mkdir"
            /\ req'[s].why = req[s].why
        BY <1>t, <3>1 DEF Others, Alike, Request
      <3> QED
        BY <1>o, <1>s, <2>1, <3>2, ReadKeyStage, ServedQuietly
    <2> QED
      BY <2>2, <2>3
  <1>3. CASE MakeDir(s)
    <2>1. /\ req[s].pc = "add.mkdir" /\ dirs' = dirs \cup {req[s].ident}
          /\ UNCHANGED <<keys, rows, containers, tasks, ops, faults>>
      BY <1>3 DEF MakeDir, At
    <2>2. /\ Others(s) /\ Locals(req'[s], req[s]) /\ req'[s].pc = "add.copy"
          /\ req'[s].why = req[s].why
      BY <1>3, <1>t, Stepping DEF MakeDir
    <2>3. /\ StageOK(req'[s], dirs', keys, rows, containers, tasks)
          /\ SyncOK(req[s], dirs, keys, rows, containers) =>
               SyncOK(req'[s], dirs', keys, rows, containers)
      BY <1>s, <2>1, <2>2, MakeDirStage
    <2> QED
      BY <1>o, <1>s, <2>1, <2>2, <2>3, ServedOn
  <1>4. CASE CopyKey(s)
    <2>1. req[s].pc = "add.copy" /\ UNCHANGED <<dirs, rows, containers, tasks, ops, faults>>
      BY <1>4 DEF CopyKey, At
    <2>2. req[s].ident \in dirs
      BY <1>s, <2>1 DEF StageOK, AddOK
    <2>3. /\ keys' = [keys EXCEPT ![req[s].ident] = req[s].locked] /\ Goto(s, "add.unlink")
      BY <1>4, <2>2 DEF CopyKey
    <2>4. /\ Others(s) /\ Locals(req'[s], req[s]) /\ req'[s].pc = "add.unlink"
          /\ req'[s].why = req[s].why
      BY <1>t, <2>3, Stepping
    <2>5. req[s].ident \in Identity /\ req[s].locked \in Password
      BY <1>t, <2>1 DEF Formed, Knowing, KeyOK, NotInserted, Uploaded
    <2>6. /\ StageOK(req'[s], dirs, keys', rows, containers, tasks)
          /\ SyncOK(req[s], dirs, keys, rows, containers) =>
               SyncOK(req'[s], dirs, keys', rows, containers)
      <3>1. /\ keys'[req[s].ident] = req[s].locked
            /\ \A i \in Identity \ {req[s].ident} : keys'[i] = keys[i]
        BY <1>t, <2>3, <2>5
      <3> QED
        BY <1>s, <2>1, <2>4, <2>5, <3>1, CopyKeyStage
    <2> QED
      BY <1>o, <1>s, <2>1, <2>4, <2>6, ServedOn
  <1>5. CASE UnlinkUpload(s)
    <2>1. /\ req[s].pc = "add.unlink"
          /\ UNCHANGED <<dirs, keys, rows, containers, tasks, ops, faults>>
      BY <1>5 DEF UnlinkUpload, At
    <2>2. /\ Others(s) /\ Locals(req'[s], req[s]) /\ req'[s].pc = "add.row"
          /\ req'[s].why = req[s].why
      BY <1>5, <1>t, Stepping DEF UnlinkUpload
    <2> QED
      BY <1>o, <1>s, <2>1, <2>2, UnlinkStage, ServedQuietly
  <1> QED
    BY <1>1, <1>2, <1>3, <1>4, <1>5

LEMMA AddRowStep ==
  ASSUME TypeInv, IInv, AloneInv, StageInv, ~overlapped', NEW s \in Slots,
         AddFindRow(s) \/ AddInsertRow(s)
  PROVE  StageInv'
  <1>t. /\ RequestsTyped /\ req \in [Slots -> Request]
        /\ KeyOK(req[s], uploads, keys, erased, rows)
    BY DEF TypeInv, RequestsTyped, IInv, RequestsOK
  <1>o. ~overlapped /\ ~At(s, "idle")
    <2>1. CASE AddFindRow(s)
      BY <2>1 DEF AddFindRow, At
    <2>2. CASE AddInsertRow(s)
      BY <2>2 DEF AddInsertRow, At
    <2> QED
      BY <2>1, <2>2
  <1>s. /\ Uniq(rows, containers, ops)
        /\ StageOK(req[s], dirs, keys, rows, containers, tasks)
    BY <1>o, Serving
  <1>1. CASE AddFindRow(s)
    <2>1. req[s].pc = "add.row" /\ UNCHANGED <<dirs, keys, rows, containers, tasks, ops, faults>>
      BY <1>1 DEF AddFindRow, At, stores
    <2>2. CASE RowsOf(req[s].ident) = {} /\ Goto(s, "add.insert")
      <3>1. /\ Others(s) /\ Locals(req'[s], req[s]) /\ req'[s].pc = "add.insert"
            /\ req'[s].why = req[s].why
        BY <1>t, <2>2, Stepping
      <3>2. RowsIn(rows, req[s].ident) = {}
        BY <2>2, Views
      <3> QED
        BY <1>o, <1>s, <2>1, <3>1, <3>2, AddRowStage, ServedQuietly DEF Locals
    <2>3. ASSUME NEW x \in RowsOf(req[s].ident),
                 req' = [req EXCEPT ![s].pc = "runner.list", ![s].row = {x}, ![s].id = x.id]
          PROVE  StageInv'
      <3>1. /\ Others(s) /\ Alike(req'[s], req[s]) /\ req'[s].pc = "runner.list"
            /\ req'[s].why = req[s].why /\ req'[s].ident = req[s].ident
            /\ req'[s].row = {x} /\ req'[s].id = x.id
        BY <1>t, <2>3 DEF Others, Alike, Request
      <3>2. x \in RowsIn(rows, req[s].ident)
        BY Views
      <3> QED
        BY <1>o, <1>s, <2>1, <3>1, <3>2, AddRowStage, ServedQuietly
    <2> QED
      BY <1>1, <2>2, <2>3 DEF AddFindRow
  <1>2. CASE AddInsertRow(s)
    <2> DEFINE x == [id |-> req[s].op, identity |-> req[s].ident, password |-> req[s].password,
                     live |-> TRUE]
    <2>1. req[s].pc = "add.insert" /\ UNCHANGED <<dirs, keys, containers, tasks, ops, faults>>
      BY <1>2 DEF AddInsertRow, At
    <2>2. RowsOf(x.identity) = {}
      BY <1>s, <2>1, Views DEF StageOK, AddOK
    <2>3. /\ rows' = rows \cup {x}
          /\ req' = [req EXCEPT ![s].pc = "runner.list", ![s].row = {x}, ![s].id = x.id]
      BY <1>2, <2>2 DEF AddInsertRow
    <2>4. x.live /\ x.identity = req[s].ident /\ x.id = req[s].op
      OBVIOUS
    <2>5. \A y \in rows : y.id # x.id
      BY <1>t, <2>1, <2>4 DEF KeyOK, NotInserted
    <2> HIDE DEF x
    <2>6. /\ Others(s) /\ Alike(req'[s], req[s]) /\ req'[s].pc = "runner.list"
          /\ req'[s].why = req[s].why /\ req'[s].ident = req[s].ident
          /\ req'[s].row = {x} /\ req'[s].id = x.id
      BY <1>t, <2>3 DEF Others, Alike, Request
    <2>7. /\ Uniq(rows', containers, ops)
          /\ StageOK(req'[s], dirs, keys, rows', containers, tasks)
          /\ SyncOK(req[s], dirs, keys, rows, containers) =>
               SyncOK(req'[s], dirs, keys, rows', containers)
      <3>1. rows' = rows \cup {x}
        BY <2>3
      <3>2. req[s].pc = "add.insert" /\ req'[s].id = x.id
        BY <2>1, <2>6
      <3> QED
        BY <1>s, <2>4, <2>5, <2>6, <3>1, <3>2, InsertStage
    <2> QED
      BY <1>o, <2>1, <2>6, <2>7, ServedOn
  <1> QED
    BY <1>1, <1>2

LEMMA AddRunnerStep ==
  ASSUME TypeInv, IInv, AloneInv, StageInv, ~overlapped', NEW s \in Slots,
         ListOldRunner(s) \/ RemoveOldRunner(s) \/ CreateMyst(s)
  PROVE  StageInv'
  <1>t. /\ RequestsTyped /\ req \in [Slots -> Request] /\ ops \in Nat
        /\ req[s].op \in 0 .. ops
    BY DEF TypeInv, RequestsTyped, IInv, Numbers
  <1>o. ~overlapped /\ ~At(s, "idle")
    <2>1. CASE ListOldRunner(s)
      BY <2>1 DEF ListOldRunner, At
    <2>2. CASE RemoveOldRunner(s)
      BY <2>2 DEF RemoveOldRunner, At
    <2>3. CASE CreateMyst(s)
      BY <2>3 DEF CreateMyst, At
    <2> QED
      BY <2>1, <2>2, <2>3
  <1>s. /\ Uniq(rows, containers, ops)
        /\ StageOK(req[s], dirs, keys, rows, containers, tasks)
    BY <1>o, Serving
  <1>1. CASE ListOldRunner(s)
    <2>1. req[s].pc = "runner.list" /\ UNCHANGED <<dirs, keys, rows, containers, tasks, ops, faults>>
      BY <1>1 DEF ListOldRunner, At, stores
    <2>2. \A l, m \in MystsIn(containers) : l.identity = m.identity \/ l.id = m.id => l = m
      BY <1>s DEF Uniq
    <2>3. CASE OnIdentity("myst", req[s].ident) = {} /\ Goto(s, "runner.create")
      <3>1. /\ Others(s) /\ Locals(req'[s], req[s]) /\ req'[s].pc = "runner.create"
            /\ req'[s].why = req[s].why
        BY <1>t, <2>3, Stepping
      <3>2. MystsOn(containers, req[s].ident) = {}
        BY <2>3, Views
      <3> QED
        BY <1>o, <1>s, <2>1, <2>2, <3>1, <3>2, ListOldStage, ServedQuietly DEF Locals
    <2>4. ASSUME NEW m \in OnIdentity("myst", req[s].ident),
                 req' = [req EXCEPT ![s].pc = "runner.remove", ![s].target = m.id]
          PROVE  StageInv'
      <3>1. /\ Others(s) /\ Alike(req'[s], req[s]) /\ req'[s].pc = "runner.remove"
            /\ req'[s].why = req[s].why /\ req'[s].ident = req[s].ident
            /\ req'[s].id = req[s].id /\ req'[s].row = req[s].row /\ req'[s].target = m.id
        BY <1>t, <2>4 DEF Others, Alike, Request
      <3>2. m \in MystsOn(containers, req[s].ident)
        BY Views
      <3> QED
        BY <1>o, <1>s, <2>1, <2>2, <3>1, <3>2, ListOldStage, ServedQuietly
    <2> QED
      BY <1>1, <2>3, <2>4 DEF ListOldRunner
  <1>2. CASE RemoveOldRunner(s)
    <2>1. /\ req[s].pc = "runner.remove" /\ UNCHANGED <<dirs, keys, rows, tasks, ops, faults>>
          /\ containers' = {c \in containers : ~(c.kind = "myst" /\ c.id = req[s].target)}
      BY <1>2 DEF RemoveOldRunner, At, Without
    <2>2. /\ Others(s) /\ Locals(req'[s], req[s]) /\ req'[s].pc = "runner.create"
          /\ req'[s].why = req[s].why
      BY <1>2, <1>t, Stepping DEF RemoveOldRunner
    <2>3. Uniq(rows, containers', ops)
      BY <1>s, <2>1, UniqFewer
    <2>4. /\ StageOK(req'[s], dirs, keys, rows, containers', tasks)
          /\ SyncOK(req[s], dirs, keys, rows, containers) =>
               SyncOK(req'[s], dirs, keys, rows, containers')
      BY <1>s, <2>1, <2>2, RemoveOldStage
    <2> QED
      BY <1>o, <2>1, <2>2, <2>3, <2>4, ServedOn
  <1>3. CASE CreateMyst(s)
    <2> DEFINE i == req[s].ident
               m == [kind |-> "myst", id |-> req[s].op, identity |-> i, row |-> req[s].id,
                     on |-> 0, status |-> "created"]
    <2>1. req[s].pc = "runner.create" /\ UNCHANGED <<dirs, keys, rows, tasks, ops, faults>>
      BY <1>3 DEF CreateMyst, At
    <2>2. \A l \in MystsOn(containers, i) : l.status = "created"
      BY <1>s, <2>1 DEF StageOK, RunnerOK
    <2>3. ~ \E c \in Tidied(i) : c.kind = "myst" /\ c.identity = i
      BY <2>2 DEF Tidied, MystsOn
    <2>4. Goto(s, "runner.start") /\ containers' = Tidied(i) \cup {m}
      BY <1>3, <2>3 DEF CreateMyst
    <2>5. /\ m.kind = "myst" /\ m.id = req[s].op /\ m.identity = req[s].ident
          /\ m.row = req[s].id /\ m.on = 0 /\ m.status = "created"
      OBVIOUS
    <2> HIDE DEF m
    <2>6. containers' = Cleared(containers, req[s].ident) \cup {m}
      BY <2>4 DEF Tidied, Cleared
    <2>7. /\ Others(s) /\ Locals(req'[s], req[s]) /\ req'[s].pc = "runner.start"
          /\ req'[s].why = req[s].why
      BY <2>4, <1>t, Stepping
    <2>8. /\ Uniq(rows, containers', ops)
          /\ StageOK(req'[s], dirs, keys, rows, containers', tasks)
          /\ SyncOK(req[s], dirs, keys, rows, containers) =>
               SyncOK(req'[s], dirs, keys, rows, containers')
      BY <1>s, <1>t, <2>1, <2>5, <2>6, <2>7, CreateMystStage
    <2> QED
      BY <1>o, <2>1, <2>7, <2>8, ServedOn
  <1> QED
    BY <1>1, <1>2, <1>3

LEMMA StartMystStep ==
  ASSUME TypeInv, IInv, AloneInv, StageInv, ~overlapped', NEW s \in Slots, StartMyst(s)
  PROVE  StageInv'
  <1>t. /\ RequestsTyped /\ containers \subseteq Container
    BY DEF TypeInv, TypeOK
  <1>o. /\ ~overlapped /\ ~At(s, "idle") /\ req[s].pc = "runner.start"
        /\ UNCHANGED <<dirs, keys, rows, tasks, ops, faults>>
    BY DEF StartMyst, At
  <1>s. /\ Uniq(rows, containers, ops)
        /\ StageOK(req[s], dirs, keys, rows, containers, tasks)
    BY <1>o, Serving
  <1> DEFINE up(c) == [c EXCEPT !.status = "running"]
             mine == {c \in OfKind("myst") : c.id = req[s].op}
  <1>1. PICK l \in MystsOn(containers, req[s].ident) : l.id = req[s].op
    BY <1>o, <1>s DEF StageOK, RunnerOK
  <1>2. l \in containers /\ l \in MystsIn(containers)
    BY DEF MystsOn, MystsIn
  <1>3. mine = {l}
    <2>1. \A c \in OfKind("myst") : c \in MystsIn(containers)
      BY DEF OfKind, MystsIn
    <2>2. \A c \in MystsIn(containers) : c.id = l.id => c = l
      BY <1>s, <1>2 DEF Uniq
    <2>3. l \in OfKind("myst")
      BY <1>2, Views
    <2> QED
      BY <1>1, <2>1, <2>2, <2>3
  <1>4. req[s].ident \in dirs
    BY <1>o, <1>s DEF StageOK, AddOK, Rowed
  <1>5. containers' = (containers \ mine) \cup {up(c) : c \in mine} /\ Goto(s, "add.check")
    BY <1>3, <1>4 DEF StartMyst
  <1>6. /\ up(l).kind = "myst" /\ up(l).id = l.id /\ up(l).identity = l.identity
        /\ up(l).row = l.row /\ up(l).on = l.on /\ up(l).status = "running"
    BY <1>t, <1>2 DEF Container, MystsIn
  <1> DEFINE m == up(l)
  <1>7. containers' = (containers \ {l}) \cup {m}
    BY <1>3, <1>5
  <1>8. /\ m.kind = "myst" /\ m.id = l.id /\ m.identity = l.identity
        /\ m.row = l.row /\ m.on = l.on /\ m.status = "running"
    BY <1>6
  <1> HIDE DEF m, mine, up
  <1>9. /\ Others(s) /\ Locals(req'[s], req[s]) /\ req'[s].pc = "add.check"
        /\ req'[s].why = req[s].why
    BY <1>5, <1>t, Stepping
  <1>10. /\ Uniq(rows, containers', ops)
         /\ StageOK(req'[s], dirs, keys, rows, containers', tasks)
         /\ SyncOK(req[s], dirs, keys, rows, containers) =>
              SyncOK(req'[s], dirs, keys, rows, containers')
    BY <1>o, <1>s, <1>1, <1>7, <1>8, <1>9, StartMystStage
  <1> QED
    BY <1>o, <1>9, <1>10, ServedOn

LEMMA StartMystFailsStage ==
  ASSUME TypeInv, IInv, AloneInv, StageInv, ~overlapped', NEW s \in Slots, StartMystFails(s)
  PROVE  StageInv'
  <1>t. RequestsTyped /\ req \in [Slots -> Request] /\ faults \in Nat
    BY BoundAssumption DEF TypeInv, TypeOK, RequestsTyped
  <1>o. /\ ~overlapped /\ ~At(s, "idle") /\ req[s].pc = "runner.start"
        /\ UNCHANGED <<dirs, keys, rows, tasks, ops>> /\ faults' = faults + 1
    BY DEF StartMystFails, At
  <1>s. /\ Uniq(rows, containers, ops)
        /\ StageOK(req[s], dirs, keys, rows, containers, tasks)
    BY <1>o, Serving
  <1>1. CASE Goto(s, "runner.create") /\ UNCHANGED containers
    <2>1. /\ Others(s) /\ Locals(req'[s], req[s]) /\ req'[s].pc = "runner.create"
          /\ req'[s].why = req[s].why
      BY <1>1, <1>t, Stepping
    <2>2. StageOK(req'[s], dirs, keys, rows, containers, tasks)
      BY <1>o, <1>s, <2>1, StartAgainStage
    <2> QED
      BY <1>1, <1>o, <1>s, <1>t, <2>1, <2>2, ServedFaulty DEF Others, At
  <1>2. CASE /\ req' = [req EXCEPT ![s].pc = "done", ![s].out = "Repository", ![s].clean = FALSE]
             /\ containers' = Tidied(req[s].ident) \/ UNCHANGED containers
    <2>1. /\ Others(s) /\ req'[s].pc = "done" /\ req'[s].out = "Repository" /\ ~req'[s].clean
      BY <1>2, <1>t DEF Others, Request
    <2>2. containers' \subseteq containers
      BY <1>2 DEF Tidied
    <2>3. Uniq(rows, containers', ops)
      BY <1>s, <2>2, UniqFewer
    <2>4. StageOK(req'[s], dirs, keys, rows, containers', tasks)
      BY <2>1, EndStage DEF Excused
    <2> QED
      BY <1>o, <1>t, <2>1, <2>3, <2>4, ServedFaulty DEF Others, At
  <1> QED
    BY <1>1, <1>2 DEF StartMystFails

(* The newest container of the identity is the one just started: nobody is *)
(* connected through it yet.                                               *)
LEMMA NewestIsMine ==
  ASSUME Uniq(rows, containers, ops), NEW i, NEW m \in MystsOn(containers, i),
         \A c \in containers : c.kind = "connect" => c.on # m.id
  PROVE  NewestFirst(i) = {m}
  <1>1. OnIdentity("myst", i) = {m}
    <2>1. \A l \in MystsOn(containers, i) : l = m
      BY DEF Uniq, MystsOn, MystsIn
    <2> QED
      BY <2>1, Views
  <1>2. {c \in OnIdentity("connect", i) : \E l \in {m} : c.on = l.id} = {}
    BY DEF OnIdentity, OfKind
  <1> QED
    BY <1>1, <1>2 DEF NewestFirst

LEMMA AddDaemonStep ==
  ASSUME TypeInv, IInv, AloneInv, StageInv, ~overlapped', NEW s \in Slots,
         CheckRunner(s) \/ UnlockIdentity(s) \/ RegisterIdentity(s)
  PROVE  StageInv'
  <1>t. RequestsTyped /\ req \in [Slots -> Request]
    BY DEF TypeInv, RequestsTyped
  <1>o. /\ ~overlapped /\ ~At(s, "idle") /\ req[s].pc \in Answering
        /\ UNCHANGED <<dirs, keys, rows, containers, tasks, ops, faults>>
    <2>1. CASE CheckRunner(s)
      BY <2>1 DEF CheckRunner, At, Answering, stores
    <2>2. CASE UnlockIdentity(s)
      BY <2>2 DEF UnlockIdentity, At, Answering, stores
    <2>3. CASE RegisterIdentity(s)
      BY <2>3 DEF RegisterIdentity, At, Answering, stores
    <2> QED
      BY <2>1, <2>2, <2>3
  <1>s. /\ Uniq(rows, containers, ops)
        /\ StageOK(req[s], dirs, keys, rows, containers, tasks)
    BY <1>o, Serving
  <1>m. PICK m \in MystsOn(containers, req[s].ident) : m.id = req[s].op /\ m.status = "running"
    BY <1>o, <1>s DEF StageOK, RunnerOK
  <1>1. CASE CheckRunner(s)
    <2>1. req[s].pc = "add.check"
      BY <1>1 DEF CheckRunner, At
    <2>2. \A c \in containers : c.kind = "connect" => c.on # m.id
      BY <1>m, <1>s, <2>1 DEF StageOK, RunnerOK, Adding, Rowed
    <2>3. NewestFirst(req[s].ident) = {m}
      BY <1>s, <2>2, NewestIsMine
    <2>4. m.kind = "myst"
      BY DEF MystsOn
    <2>5. req' = [req EXCEPT ![s].pc = "unlock", ![s].target = m.id]
      BY <1>1, <1>m, <2>3, <2>4 DEF CheckRunner
    <2>6. /\ Others(s) /\ Alike(req'[s], req[s]) /\ req'[s].pc = "unlock"
          /\ req'[s].why = req[s].why /\ req'[s].ident = req[s].ident
          /\ req'[s].id = req[s].id /\ req'[s].row = req[s].row /\ req'[s].target = req[s].op
      BY <1>t, <1>m, <2>5 DEF Others, Alike, Request
    <2> QED
      BY <1>o, <1>s, <2>1, <2>6, CheckStage, ServedQuietly
  <1>a. req[s].pc \in {"unlock", "register"} => Answers(s)
    <2>1. req[s].pc \in {"unlock", "register"} => req[s].target = req[s].op
      BY <1>s DEF StageOK, RunnerOK
    <2>2. m \in OfKind("myst")
      BY DEF OfKind, MystsOn
    <2> QED
      BY <1>m, <2>1, <2>2 DEF Answers
  <1>2. CASE UnlockIdentity(s)
    <2>1. req[s].pc = "unlock" /\ Answers(s)
      BY <1>2, <1>a DEF UnlockIdentity, At
    <2>2. HasKey(req[s].ident)
      BY <1>s, <2>1, Views DEF StageOK, AddOK, Rowed
    <2>3. CASE Rollback(s, "Unlock") /\ \E x \in req[s].row : x.password # keys[req[s].ident]
      <3>1. /\ Others(s) /\ Locals(req'[s], req[s]) /\ req'[s].pc = "remove.row"
            /\ req'[s].why = "Unlock"
        BY <1>t, <2>3, Stepping
      <3> QED
        BY <1>o, <1>s, <2>1, <2>3, <3>1, UnlockStage, ServedQuietly
    <2>4. CASE Goto(s, "register") /\ \A x \in req[s].row : x.password = keys[req[s].ident]
      <3>1. /\ Others(s) /\ Locals(req'[s], req[s]) /\ req'[s].pc = "register"
            /\ req'[s].why = req[s].why
        BY <1>t, <2>4, Stepping
      <3> QED
        BY <1>o, <1>s, <2>1, <2>4, <3>1, UnlockStage, ServedQuietly
    <2> QED
      BY <1>2, <2>1, <2>2, <2>3, <2>4 DEF UnlockIdentity
  <1>3. CASE RegisterIdentity(s)
    <2>1. req[s].pc = "register" /\ Answer(s, "Ok")
      BY <1>3, <1>a DEF RegisterIdentity, At
    <2>2. /\ Others(s) /\ Locals(req'[s], req[s]) /\ req'[s].pc = "done" /\ req'[s].out = "Ok"
      BY <1>t, <2>1, Stepping
    <2>3. StageOK(req'[s], dirs, keys, rows, containers, tasks)
      BY <1>s, <2>1, <2>2, RegisterStage
    <2>4. SyncOK(req[s], dirs, keys, rows, containers) =>
            SyncOK(req'[s], dirs, keys, rows, containers)
      BY <2>1, <2>2, EndSync DEF Midway, Filed
    <2> QED
      BY <1>o, <2>2, <2>3, <2>4, ServedQuietly
  <1> QED
    BY <1>1, <1>2, <1>3

LEMMA RemoveStep ==
  ASSUME TypeInv, IInv, AloneInv, StageInv, ~overlapped', NEW s \in Slots,
         RemoveFindRow(s) \/ RemoveReadState(s) \/ StartTasks(s)
  PROVE  StageInv'
  <1>t. /\ RequestsTyped /\ req \in [Slots -> Request] /\ Formed(req[s])
    BY DEF TypeInv, RequestsTyped
  <1>o. /\ ~overlapped /\ ~At(s, "idle") /\ ~At(s, "remove.wait")
        /\ UNCHANGED <<dirs, keys, rows, containers, ops, faults>>
    <2>1. CASE RemoveFindRow(s)
      BY <2>1 DEF RemoveFindRow, At, stores
    <2>2. CASE RemoveReadState(s)
      BY <2>2 DEF RemoveReadState, At, stores
    <2>3. CASE StartTasks(s)
      BY <2>3 DEF StartTasks, At
    <2> QED
      BY <2>1, <2>2, <2>3
  <1>s. /\ Uniq(rows, containers, ops)
        /\ StageOK(req[s], dirs, keys, rows, containers, tasks)
    BY <1>o, Serving
  <1>1. CASE RemoveFindRow(s)
    <2>1. req[s].pc = "remove.row" /\ tasks' = tasks
      BY <1>1 DEF RemoveFindRow, At, stores
    <2>2. CASE WithId(req[s].id) = {} /\ Goto(s, "rest.row")
      <3>1. /\ Others(s) /\ Locals(req'[s], req[s]) /\ req'[s].pc = "rest.row"
            /\ req'[s].why = req[s].why
        BY <1>t, <2>2, Stepping
      <3>2. IdIn(rows, req[s].id) = {}
        BY <2>2, Views
      <3> QED
        BY <1>o, <1>s, <2>1, <3>1, <3>2, NotFoundStage, ServedQuietly
    <2>3. ASSUME NEW x \in WithId(req[s].id),
                 req' = [req EXCEPT ![s].pc = "remove.state", ![s].row = {x},
                                    ![s].ident = x.identity]
          PROVE  StageInv'
      <3>1. /\ Others(s) /\ Alike(req'[s], req[s]) /\ req'[s].pc = "remove.state"
            /\ req'[s].why = req[s].why /\ req'[s].id = req[s].id
            /\ req'[s].row = {x} /\ req'[s].ident = x.identity
        BY <1>t, <2>3 DEF Others, Alike, Request
      <3>2. x \in rows /\ x.live /\ x.id = req[s].id
        BY DEF WithId, Live
      <3>3. /\ StageOK(req'[s], dirs, keys, rows, containers, tasks)
            /\ SyncOK(req[s], dirs, keys, rows, containers) =>
                 SyncOK(req'[s], dirs, keys, rows, containers)
        BY <1>s, <2>1, <3>1, <3>2, FoundStage
      <3> QED
        BY <1>o, <2>1, <3>1, <3>3, ServedQuietly
    <2> QED
      BY <1>1, <2>2, <2>3 DEF RemoveFindRow
  <1>2. CASE RemoveReadState(s)
    <2> DEFINE i == req[s].ident
    <2>1. req[s].pc = "remove.state" /\ tasks' = tasks
      BY <1>2 DEF RemoveReadState, At, stores
    <2>2. i \in Identity
      BY <1>t, <2>1 DEF Formed, Knowing
    <2>3. ASSUME NEW o \in {"Repository", "InUse"}, Removed(s, o) PROVE StageInv'
      <3>1. /\ Others(s) /\ Locals(req'[s], req[s]) /\ req'[s].pc = "done"
            /\ Resulting(req'[s], req[s], o)
        BY <1>t, <2>3, RemovedResults
      <3>2. StageOK(req'[s], dirs, keys, rows, containers, tasks)
        BY <1>s, <2>1, <3>1, FailedRemoval DEF Removing, Untouched
      <3>3. SyncOK(req[s], dirs, keys, rows, containers) =>
              SyncOK(req'[s], dirs, keys, rows, containers)
        BY <2>1, <3>1, EndSync DEF Midway, Filed
      <3> QED
        BY <1>o, <2>1, <3>1, <3>2, <3>3, ServedQuietly
    <2>4. ASSUME NEW l, Goto(s, l),
                 \/ l = "remove.list"
                 \/ /\ l = "rest.row"
                    /\ ~(HasKey(i) /\ \E m \in OnIdentity("myst", i) : m.status # "created")
          PROVE  StageInv'
      <3>1. /\ Others(s) /\ Locals(req'[s], req[s]) /\ req'[s].pc = l
            /\ req'[s].why = req[s].why
        BY <1>t, <2>4, Stepping
      <3>2. l = "rest.row" => ~(Key(keys, i) /\ \E m \in MystsOn(containers, i) :
                                                  m.status # "created")
        BY <2>4, Views
      <3>3. StageOK(req'[s], dirs, keys, rows, containers, tasks)
        BY <1>s, <2>1, <2>4, <3>1, <3>2, ReadStateStage
      <3>4. SyncOK(req[s], dirs, keys, rows, containers) =>
              SyncOK(req'[s], dirs, keys, rows, containers)
        BY <2>1, <2>2, <2>4, <3>1, <3>2, ReadStateSync DEF Locals
      <3>5. req'[s].pc # "idle"
        BY <2>4, <3>1
      <3> QED
        BY <1>o, <2>1, <3>1, <3>3, <3>4, <3>5, ServedQuietly
    <2> QED
      BY <1>2, <2>3, <2>4 DEF RemoveReadState
  <1>3. CASE StartTasks(s)
    <2> DEFINE i == req[s].ident
    <2>1. req[s].pc = "remove.list" /\ tasks = {}
      BY <1>3, <1>o, OthersIdle DEF StartTasks, At
    <2>2. OnIdentity("myst", i) # {}
      BY <1>o, <2>1, OthersIdle DEF SlotOK, At
    <2>3. PICK m \in OnIdentity("myst", i) :
            /\ tasks' = tasks \cup
                 {[op |-> req[s].op, what |-> "row", id |-> req[s].id, identity |-> i],
                  [op |-> req[s].op, what |-> "dir", id |-> 0, identity |-> i]} \cup
                 {[op |-> req[s].op, what |-> "container", id |-> m.id, identity |-> i]}
            /\ req' = [req EXCEPT ![s].pc = "remove.wait", ![s].failed = FALSE]
      BY <1>3, <2>2 DEF StartTasks
    <2>4. m \in MystsOn(containers, req[s].ident)
      BY Views
    <2>5. /\ Others(s) /\ Alike(req'[s], req[s]) /\ req'[s].pc = "remove.wait"
          /\ req'[s].why = req[s].why /\ req'[s].id = req[s].id /\ req'[s].ident = req[s].ident
          /\ req'[s].row = req[s].row /\ req'[s].failed = FALSE
      BY <1>t, <2>3 DEF Others, Alike, Request
    <2>6. /\ \A t \in tasks' : /\ t.identity = req[s].ident
                               /\ t.what = "row" => t.id = req[s].id
                               /\ t.what = "container" => t.id = m.id
          /\ \E t \in tasks' : t.what = "row"
          /\ \E t \in tasks' : t.what = "dir"
          /\ \E t \in tasks' : t.what = "container" /\ t.id = m.id
      BY <2>1, <2>3
    <2>7. StageOK(req[s], dirs, keys, rows, containers, {})
      BY <1>s, <2>1
    <2>8. /\ StageOK(req'[s], dirs, keys, rows, containers, tasks')
          /\ SyncOK(req[s], dirs, keys, rows, containers) =>
               SyncOK(req'[s], dirs, keys, rows, containers)
      BY <1>s, <2>1, <2>4, <2>5, <2>6, <2>7, StartStage
    <2> QED
      BY <1>o, <1>s, <2>5, <2>8, ServedOn
  <1> QED
    BY <1>1, <1>2, <1>3

LEMMA JoinStep ==
  ASSUME TypeInv, IInv, AloneInv, StageInv, ~overlapped', NEW s \in Slots, JoinTasks(s)
  PROVE  StageInv'
  <1>t. RequestsTyped
    BY DEF TypeInv
  <1>o. /\ ~overlapped /\ ~At(s, "idle") /\ req[s].pc = "remove.wait"
        /\ UNCHANGED <<dirs, keys, rows, containers, tasks, ops, faults>>
        /\ \A t \in tasks : t.op # req[s].op
        /\ Removed(s, IF req[s].failed THEN "Repository" ELSE "Ok")
    BY DEF JoinTasks, At, stores
  <1>1. tasks = {}
    <2>1. (\A t \in Slots \ {s} : At(t, "idle")) /\ TasksOK
      BY <1>o, OthersIdle
    <2> QED
      BY <1>o, <2>1 DEF TasksOK, At
  <1>s. /\ Uniq(rows, containers, ops)
        /\ StageOK(req[s], dirs, keys, rows, containers, {})
    BY <1>o, <1>1, Serving
  <1>2. /\ Others(s) /\ Locals(req'[s], req[s]) /\ req'[s].pc = "done"
        /\ Resulting(req'[s], req[s], IF req[s].failed THEN "Repository" ELSE "Ok")
    BY <1>o, <1>t, RemovedResults
  <1>3. req[s].pc \in Removing
    BY <1>o DEF Removing
  <1>4. StageOK(req'[s], dirs, keys, rows, containers, {})
    <2>1. CASE req[s].failed
      <3>1. Resulting(req'[s], req[s], "Repository")
        BY <1>2, <2>1
      <3> QED
        BY <1>s, <1>2, <1>3, <3>1, FailedRemoval
    <2>2. CASE ~req[s].failed
      <3>1. Resulting(req'[s], req[s], "Ok")
        BY <1>2, <2>2
      <3>2. /\ TakenBack(req[s].ident, dirs, rows, containers)
            /\ IdIn(rows, req[s].id) = {} /\ \A m \in MystsIn(containers) : m.row # req[s].id
        BY <1>o, <1>s, <2>2, WaitedFor
      <3> QED
        BY <1>s, <1>2, <1>3, <3>1, <3>2, DoneRemoval
    <2> QED
      BY <2>1, <2>2
  <1>5. SyncOK(req[s], dirs, keys, rows, containers) =>
          SyncOK(req'[s], dirs, keys, rows, containers)
    BY <1>o, <1>s, <1>2, WaitedSync
  <1> QED
    BY <1>o, <1>1, <1>2, <1>4, <1>5, ServedQuietly

LEMMA RestStep ==
  ASSUME TypeInv, IInv, AloneInv, StageInv, ~overlapped', NEW s \in Slots,
         RestFindRow(s) \/ RestList(s) \/ RestRemoveRunner(s) \/ RestRemoveFile(s)
  PROVE  StageInv'
  <1>t. /\ RequestsTyped /\ req \in [Slots -> Request] /\ containers \subseteq Container
    BY DEF TypeInv, TypeOK, RequestsTyped
  <1>o. /\ ~overlapped /\ ~At(s, "idle") /\ req[s].pc \in Resting
        /\ UNCHANGED <<dirs, keys, rows, tasks, ops, faults>>
    <2>1. CASE RestFindRow(s)
      BY <2>1 DEF RestFindRow, At, stores, Resting
    <2>2. CASE RestList(s)
      BY <2>2 DEF RestList, At, stores, Resting
    <2>3. CASE RestRemoveRunner(s)
      BY <2>3 DEF RestRemoveRunner, At, Resting
    <2>4. CASE RestRemoveFile(s)
      BY <2>4 DEF RestRemoveFile, At, stores, Resting
    <2> QED
      BY <2>1, <2>2, <2>3, <2>4
  <1>s. /\ Uniq(rows, containers, ops)
        /\ StageOK(req[s], dirs, keys, rows, containers, tasks)
        /\ faults = 0 => SyncOK(req[s], dirs, keys, rows, containers)
    BY <1>o, Serving
  <1>1. CASE RestFindRow(s)
    <2>1. /\ req[s].pc = "rest.row" /\ containers' = containers
          /\ req' = [req EXCEPT ![s].pc = "rest.list", ![s].path = (WithId(req[s].id) # {})]
      BY <1>1 DEF RestFindRow, At, stores
    <2>2. /\ Others(s) /\ Alike(req'[s], req[s]) /\ req'[s].pc = "rest.list"
          /\ req'[s].why = req[s].why /\ req'[s].id = req[s].id /\ req'[s].ident = req[s].ident
      BY <1>t, <2>1 DEF Others, Alike, Request
    <2>3. req'[s].path <=> IdIn(rows, req[s].id) # {}
      <3>1. req'[s].path = (WithId(req[s].id) # {})
        BY <1>t, <2>1 DEF Request
      <3> QED
        BY <3>1, Views
    <2>4. StageOK(req'[s], dirs, keys, rows, containers, tasks)
      BY <1>o, <1>s, <2>1, <2>2, <2>3, RestStage
    <2>5. SyncOK(req[s], dirs, keys, rows, containers) =>
            SyncOK(req'[s], dirs, keys, rows, containers)
      BY <2>1, <2>2, RestSync
    <2> QED
      BY <1>o, <2>1, <2>2, <2>4, <2>5, ServedQuietly
  <1>2. CASE RestList(s)
    <2>1. req[s].pc = "rest.list" /\ containers' = containers
      BY <1>2 DEF RestList, At, stores
    <2>2. CASE {m \in OfKind("myst") : m.row = req[s].id} = {} /\ Goto(s, "rest.file")
      <3>1. /\ Others(s) /\ Locals(req'[s], req[s]) /\ req'[s].pc = "rest.file"
            /\ req'[s].why = req[s].why
        BY <1>t, <2>2, Stepping
      <3>2. \A m \in MystsIn(containers) : m.row # req[s].id
        BY <2>2, Views
      <3>3. StageOK(req'[s], dirs, keys, rows, containers, tasks)
        BY <1>o, <1>s, <2>1, <3>1, <3>2, RestStage DEF Locals
      <3>4. SyncOK(req[s], dirs, keys, rows, containers) =>
              SyncOK(req'[s], dirs, keys, rows, containers)
        BY <2>1, <3>1, RestSync DEF Locals
      <3> QED
        BY <1>o, <2>1, <3>1, <3>3, <3>4, ServedQuietly
    <2>3. ASSUME NEW m \in OfKind("myst"), m.row = req[s].id,
                 req' = [req EXCEPT ![s].pc = "rest.remove", ![s].target = m.id]
          PROVE  StageInv'
      <3>1. /\ Others(s) /\ Alike(req'[s], req[s]) /\ req'[s].pc = "rest.remove"
            /\ req'[s].why = req[s].why /\ req'[s].id = req[s].id
            /\ req'[s].ident = req[s].ident
        BY <1>t, <2>3 DEF Others, Alike, Request
      <3>2. m \in MystsIn(containers) /\ MystsIn(containers) \subseteq Container
        BY <1>t, Views DEF MystsIn
      <3>3. StageOK(req'[s], dirs, keys, rows, containers, tasks)
        BY <1>o, <1>s, <2>1, <3>1, RestStage
      <3>4. ~SyncOK(req[s], dirs, keys, rows, containers)
        BY <1>s, <2>1, <2>3, <3>2, NoRest
      <3> QED
        BY <1>o, <2>1, <3>1, <3>3, <3>4, ServedQuietly
    <2> QED
      BY <1>2, <2>2, <2>3 DEF RestList
  <1>3. CASE RestRemoveRunner(s)
    <2>1. /\ req[s].pc = "rest.remove"
          /\ containers' = {c \in containers : ~(c.kind = "myst" /\ c.id = req[s].target)}
          /\ req' = [req EXCEPT ![s].pc = "rest.file", ![s].path = TRUE]
      BY <1>3 DEF RestRemoveRunner, At, Without
    <2>2. /\ Others(s) /\ Alike(req'[s], req[s]) /\ req'[s].pc = "rest.file"
          /\ req'[s].why = req[s].why /\ req'[s].path
      BY <1>t, <2>1 DEF Others, Alike, Request
    <2>3. Uniq(rows, containers', ops)
      BY <1>s, <2>1, UniqFewer
    <2>4. StageOK(req'[s], dirs, keys, rows, containers', tasks)
      BY <1>s, <2>1, <2>2, RestRunnerStage
    <2>5. ~SyncOK(req[s], dirs, keys, rows, containers)
      BY <2>1 DEF SyncOK
    <2> QED
      BY <1>o, <2>2, <2>3, <2>4, <2>5, ServedOn
  <1>4. CASE RestRemoveFile(s)
    <2>1. req[s].pc = "rest.file" /\ containers' = containers
      BY <1>4 DEF RestRemoveFile, At, stores
    <2>2. ASSUME NEW o, Removed(s, o),
                 \/ o = "InvalidFileType"
                 \/ o = "Ok" /\ ~req[s].path
          PROVE  StageInv'
      <3>1. /\ Others(s) /\ Locals(req'[s], req[s]) /\ req'[s].pc = "done"
            /\ Resulting(req'[s], req[s], o)
        BY <1>t, <2>2, RemovedResults
      <3>2. req[s].pc \in Removing
        BY <1>o DEF Removing
      <3>3. CASE o = "InvalidFileType"
        <4>1. StageOK(req'[s], dirs, keys, rows, containers, tasks)
          BY <1>s, <3>1, <3>2, <3>3, FailedRemoval
        <4> QED
          BY <1>o, <2>1, <3>1, <4>1, EndSync, ServedQuietly DEF Midway, Filed
      <3>4. CASE o = "Ok" /\ ~req[s].path
        <4>1. IdIn(rows, req[s].id) = {} /\ \A m \in MystsIn(containers) : m.row # req[s].id
          BY <1>s, <2>1, <3>4 DEF StageOK, RemoveOK
        <4>2. req[s].why # "Unlock"
          BY <1>o, <1>s DEF StageOK, RefusedOK
        <4>3. Resulting(req'[s], req[s], "Ok")
          BY <3>1, <3>4
        <4>4. StageOK(req'[s], dirs, keys, rows, containers, tasks)
          BY <1>s, <3>1, <3>2, <4>1, <4>2, <4>3, DoneRemoval
        <4> QED
          BY <1>o, <2>1, <3>1, <4>4, EndSync, ServedQuietly DEF Midway, Filed
      <3> QED
        BY <2>2, <3>3, <3>4
    <2> QED
      BY <1>4, <2>2 DEF RestRemoveFile
  <1> QED
    BY <1>1, <1>2, <1>3, <1>4

LEMMA UpDownStep ==
  ASSUME TypeInv, IInv, AloneInv, StageInv, ~overlapped', NEW s \in Slots, UpDown(s)
  PROVE  StageInv'
  <1>t. /\ RequestsTyped /\ req \in [Slots -> Request]
    BY DEF TypeInv, RequestsTyped
  <1>o. /\ ~overlapped /\ ~At(s, "idle") /\ req[s].pc \in Uppers \cup {"down.remove"}
        /\ UNCHANGED <<dirs, keys, rows, tasks, ops, faults>>
    <2>1. CASE UpPickIdentity(s)
      BY <2>1 DEF UpPickIdentity, At, stores, Uppers
    <2>2. CASE UpCheckRunner(s)
      BY <2>2 DEF UpCheckRunner, At, stores, Uppers
    <2>3. CASE UpConnect(s)
      BY <2>3 DEF UpConnect, At, Uppers
    <2>4. CASE DownRemove(s)
      BY <2>4 DEF DownRemove, At, Uppers
    <2> QED
      BY <2>1, <2>2, <2>3, <2>4 DEF UpDown
  <1>s. /\ Uniq(rows, containers, ops)
        /\ StageOK(req[s], dirs, keys, rows, containers, tasks)
    BY <1>o, Serving
  <1>k. req[s].kind \in {"up", "down"}
    BY <1>o, <1>s DEF StageOK, RoleOK
  <1>n. req[s].pc \notin Midway
    BY <1>o DEF Uppers, Midway, Filed
  (* An answer, with MYST containers as they were.                         *)
  <1>1. ASSUME NEW o \in {"NotFound", "NotRunning", "Ok"}, Answer(s, o),
               MystsIn(containers') = MystsIn(containers), Uniq(rows, containers', ops)
        PROVE  StageInv'
    <2>1. /\ Others(s) /\ Locals(req'[s], req[s]) /\ req'[s].pc = "done" /\ req'[s].out = o
      BY <1>t, <1>1, Stepping
    <2>2. StageOK(req'[s], dirs, keys, rows, containers', tasks)
      BY <1>k, <2>1
         DEF StageOK, RoleOK, AddOK, RunnerOK, RefusedOK, RemoveOK, DoneOK, Locals, Alike,
             Filed, Rowed, Answering, Unmade, Adding, Resting, Untouched, Removing, Uppers,
             NotInserted, Uploaded
    <2>3. SyncOK(req[s], dirs, keys, rows, containers) =>
            SyncOK(req'[s], dirs, keys, rows, containers')
      BY <1>1, <1>n, <2>1, EndSync, ConnectSync
    <2> QED
      BY <1>o, <1>1, <2>1, <2>2, <2>3, ServedOn
  <1>2. CASE UpPickIdentity(s)
    <2>1. req[s].pc = "up.pick" /\ containers' = containers
      BY <1>2 DEF UpPickIdentity, At, stores
    <2>2. ASSUME NEW i, NEW x,
                 req' = [req EXCEPT ![s].pc = "up.runner", ![s].ident = i, ![s].id = x.id]
          PROVE  StageInv'
      <3>1. /\ Others(s) /\ req'[s].kind = req[s].kind /\ req'[s].why = req[s].why
            /\ req'[s].pc = "up.runner"
        BY <1>t, <2>2 DEF Others, Request
      <3> QED
        BY <1>o, <1>s, <2>1, <3>1, UpStage, ServedQuietly DEF Uppers
    <2> QED
      BY <1>1, <1>2, <1>s, <2>1, <2>2 DEF UpPickIdentity
  <1>3. CASE UpCheckRunner(s)
    <2>1. req[s].pc = "up.runner" /\ containers' = containers
      BY <1>3 DEF UpCheckRunner, At, stores
    <2>2. CASE Goto(s, "up.connect")
      <3>1. /\ Others(s) /\ Locals(req'[s], req[s]) /\ req'[s].why = req[s].why
            /\ req'[s].pc = "up.connect"
        BY <1>t, <2>2, Stepping
      <3> QED
        BY <1>o, <1>s, <2>1, <3>1, UpStage, ServedQuietly DEF Uppers, Locals, Alike
    <2>3. Goto(s, "up.connect") \/ Answer(s, "NotRunning")
      BY <1>3 DEF UpCheckRunner
    <2> QED
      BY <1>1, <1>s, <2>1, <2>2, <2>3
  <1>4. CASE UpConnect(s)
    <2>1. CASE Answer(s, "NotRunning") /\ UNCHANGED containers
      BY <1>1, <1>s, <2>1
    <2>2. ASSUME NEW m \in OnIdentity("myst", req[s].ident), Answer(s, "Ok"),
                 containers' = containers \cup
                   {[kind |-> "connect", id |-> req[s].op, identity |-> req[s].ident, row |-> 0,
                     on |-> m.id, status |-> "running"]}
          PROVE  StageInv'
      <3>1. m \in MystsIn(containers)
        BY Views DEF MystsOn, MystsIn
      <3>2. MystsIn(containers') = MystsIn(containers)
        BY <2>2 DEF MystsIn
      <3>3. Uniq(rows, containers', ops)
        BY <1>s, <2>2, <3>1, ConnectUniq
      <3> QED
        BY <1>1, <2>2, <3>2, <3>3
    <2> QED
      BY <1>4, <2>1, <2>2 DEF UpConnect
  <1>5. CASE DownRemove(s)
    <2>1. /\ Answer(s, "Ok")
          /\ containers' = {c \in containers : ~(c.kind = "connect" /\ c.id = req[s].target)}
      BY <1>5 DEF DownRemove, Without
    <2>2. MystsIn(containers') = MystsIn(containers)
      BY <2>1 DEF MystsIn
    <2>3. Uniq(rows, containers', ops)
      BY <1>s, <2>1, UniqFewer
    <2> QED
      BY <1>1, <2>1, <2>2, <2>3
  <1> QED
    BY <1>2, <1>3, <1>4, <1>5 DEF UpDown

LEMMA ReplyStage ==
  ASSUME TypeInv, AloneInv, StageInv, ~overlapped', NEW s \in Slots, Reply(s)
  PROVE  StageInv'
  <1>1. /\ ~overlapped /\ ~At(s, "idle") /\ req[s].pc = "done"
        /\ UNCHANGED <<dirs, keys, rows, containers, tasks, ops, faults>>
        /\ req' = [req EXCEPT ![s] = Idle]
    BY DEF Reply, At, stores
  <1>2. /\ Uniq(rows, containers, ops)
        /\ faults = 0 => SyncOK(req[s], dirs, keys, rows, containers)
        /\ \A t \in Slots \ {s} : At(t, "idle")
    BY <1>1, Serving
  <1>3. \A t \in Slots : req'[t].pc = "idle"
    BY <1>1, <1>2 DEF TypeInv, RequestsTyped, At, Idle
  <1>4. SyncOK(req[s], dirs, keys, rows, containers) => AllSynced
    BY <1>1 DEF SyncOK, AllSynced, Midway, Filed
  <1>5. AllSynced => AllSynced'
    BY <1>1 DEF AllSynced
  <1>6. StageOK(req'[s], dirs', keys', rows', containers', tasks')
    BY <1>3, StageIdle
  <1> QED
    BY <1>1, <1>2, <1>3, <1>4, <1>5, <1>6, Served

LEMMA FailServed ==
  ASSUME TypeInv, AloneInv, StageInv, ~overlapped', NEW s \in Slots, Fail(s)
  PROVE  StageInv'
  <1>t. /\ RequestsTyped /\ req \in [Slots -> Request] /\ req[s] \in Request /\ faults \in Nat
    BY BoundAssumption DEF TypeInv, TypeOK, RequestsTyped
  <1>o. /\ ~overlapped /\ ~At(s, "idle") /\ faults' = faults + 1
        /\ UNCHANGED <<dirs, keys, rows, containers, tasks, ops>>
    BY DEF Fail, At, stores
  <1>s. /\ Uniq(rows, containers, ops)
        /\ StageOK(req[s], dirs, keys, rows, containers, tasks)
    BY <1>o, Serving
  <1>1. /\ Others(s) /\ req'[s].kind = req[s].kind /\ ~req'[s].clean
        /\ IF req[s].pc \in {"unlock", "register"}
           THEN req'[s].pc = "remove.row" /\ req'[s].why = "Repository"
           ELSE req'[s].pc = "done" /\ req'[s].out \in {"Repository", "Combine"}
    BY <1>t DEF Fail, At, Others, Request
  <1>2. StageOK(req'[s], dirs, keys, rows, containers, tasks)
    <2>1. CASE req[s].pc \in {"unlock", "register"}
      BY <1>s, <1>1, <2>1, FailStage
    <2>2. CASE req[s].pc \notin {"unlock", "register"}
      <3>1. req'[s].pc = "done" /\ req'[s].out \notin {"Ok", "Unlock"} /\ Excused(req'[s])
        BY <1>1, <2>2 DEF Excused
      <3> QED
        BY <3>1, EndStage
    <2> QED
      BY <2>1, <2>2
  <1>3. req'[s].pc # "idle"
    BY <1>1
  <1>4. \A t \in Slots \ {s} : At(t, "idle") => req'[t].pc = "idle"
    BY <1>1 DEF Others, At
  <1>5. /\ Uniq(rows', containers', ops')
        /\ StageOK(req'[s], dirs', keys', rows', containers', tasks')
    BY <1>o, <1>s, <1>2
  <1>6. ~overlapped /\ ~At(s, "idle") /\ faults' = faults + 1
    BY <1>o
  <1> QED
    BY <1>t, <1>3, <1>4, <1>5, <1>6, ServedFaulty

LEMMA CrashStage ==
  ASSUME TypeInv, AloneInv, StageInv, ~overlapped', Crash
  PROVE  StageInv'
  <1>t. /\ req \in [Slots -> Request] /\ faults \in Nat
    BY BoundAssumption DEF TypeInv, TypeOK, RequestsTyped
  <1>1. PICK s \in Slots : ~At(s, "idle")
    BY DEF Crash
  <1>2. /\ ~overlapped /\ faults' = faults + 1
        /\ UNCHANGED <<dirs, keys, rows, containers, ops>>
    BY DEF Crash
  <1>3. \A r \in Request :
          LET q == [r EXCEPT !.pc = "done", !.out = "Repository", !.clean = FALSE]
          IN  q.pc = "done" /\ q.out = "Repository" /\ ~q.clean
    BY DEF Request
  <1>4. req'[s].pc = "done" /\ req'[s].out = "Repository" /\ ~req'[s].clean
    <2>1. req'[s] = [req[s] EXCEPT !.pc = "done", !.out = "Repository", !.clean = FALSE]
      BY <1>1 DEF Crash
    <2> QED
      BY <1>t, <1>3, <2>1
  <1>5. \A t \in Slots \ {s} : At(t, "idle") => req'[t].pc = "idle"
    BY DEF Crash, At
  <1>6. StageOK(req'[s], dirs', keys', rows', containers', tasks')
    BY <1>4, EndStage DEF Excused
  <1>7. Uniq(rows', containers', ops')
    BY <1>1, <1>2, Serving
  <1> QED
    BY <1>t, <1>1, <1>2, <1>4, <1>5, <1>6, <1>7, ServedFaulty

(* The parts of a removal are those of the request that waits.             *)
LEMMA RunTaskStage ==
  ASSUME TypeInv, AloneInv, StageInv, ~overlapped', NEW t \in tasks, RunTask(t)
  PROVE  StageInv'
  <1>t. /\ keys \in [Identity -> Password \cup {NoPassword}] /\ rows \in SUBSET Row
    BY DEF TypeInv, TypeOK
  <1>o. /\ ~overlapped /\ UNCHANGED <<req, ops, faults>> /\ tasks' = tasks \ {t}
    BY DEF RunTask
  <1>1. PICK s \in Slots : At(s, "remove.wait")
    BY <1>o DEF AloneInv, TasksOK
  <1>s. /\ Uniq(rows, containers, ops) /\ req[s].pc = "remove.wait" /\ ~At(s, "idle")
        /\ StageOK(req[s], dirs, keys, rows, containers, tasks)
    BY <1>o, <1>1, Serving DEF At
  <1>2. Others(s) /\ req'[s] = req[s] /\ req'[s].pc # "idle"
    BY <1>o, <1>s DEF Others
  <1>3. CASE /\ t.what = "row" /\ UNCHANGED <<dirs, keys, containers>>
             /\ rows' = {IF x.id = t.id THEN [x EXCEPT !.live = FALSE] ELSE x : x \in rows}
    <2> DEFINE gone(x) == [x EXCEPT !.live = FALSE]
    <2>1. /\ \A x \in rows : gone(x).id = x.id /\ gone(x).identity = x.identity /\ ~gone(x).live
          /\ rows' = {IF x.id = t.id THEN gone(x) ELSE x : x \in rows}
      BY <1>t, <1>3 DEF Row
    <2> HIDE DEF gone
    <2>2. /\ \A y \in rows' : \E x \in rows : y = IF x.id = t.id THEN gone(x) ELSE x
          /\ \A x \in rows : (IF x.id = t.id THEN gone(x) ELSE x) \in rows'
      BY <2>1
    <2>3. /\ \A y \in rows' : /\ \E x \in rows : y.id = x.id /\ y.identity = x.identity
                              /\ y.live => y \in rows /\ y.id # t.id
          /\ \A x \in rows : /\ \E y \in rows' : y.id = x.id /\ y.identity = x.identity
                             /\ x.id # t.id => x \in rows'
      BY <2>1, <2>2
    <2>4. \A x, y \in rows' : x.id = y.id => x = y
      <3>1. \A x, y \in rows : x.id = y.id => x = y
        BY <1>s DEF Uniq
      <3> QED
        BY <2>1, <2>2, <3>1
    <2>5. /\ Uniq(rows', containers, ops)
          /\ StageOK(req[s], dirs, keys, rows', containers, tasks \ {t})
          /\ SyncOK(req[s], dirs, keys, rows, containers) =>
               SyncOK(req[s], dirs, keys, rows', containers)
      <3>1. Retired(rows, rows', t.id)
        BY <2>3, <2>4 DEF Retired
      <3>2. t.what = "row"
        BY <1>3
      <3> QED
        BY <1>s, <3>1, <3>2, RowPartStage
    <2> QED
      BY <1>o, <1>s, <1>2, <1>3, <2>5, ServedOn
  <1>4. CASE /\ t.what = "dir" /\ UNCHANGED <<rows, containers>>
             /\ dirs' = dirs \ {t.identity}
             /\ keys' = [keys EXCEPT ![t.identity] = NoPassword]
    <2>1. /\ StageOK(req[s], dirs', keys', rows, containers, tasks \ {t})
          /\ SyncOK(req[s], dirs, keys, rows, containers) =>
               SyncOK(req[s], dirs', keys', rows, containers)
      BY <1>s, <1>t, <1>4, DirPartStage
    <2> QED
      BY <1>o, <1>s, <1>2, <1>4, <2>1, ServedOn
  <1>5. CASE /\ t.what = "container" /\ UNCHANGED <<dirs, keys, rows>>
             /\ containers' = {c \in containers : ~(c.kind = "myst" /\ c.id = t.id)}
    <2>1. Uniq(rows, containers', ops)
      BY <1>s, <1>5, UniqFewer
    <2>2. /\ StageOK(req[s], dirs, keys, rows, containers', tasks \ {t})
          /\ SyncOK(req[s], dirs, keys, rows, containers) =>
               SyncOK(req[s], dirs, keys, rows, containers')
      BY <1>s, <1>5, RunnerPartStage
    <2> QED
      BY <1>o, <1>s, <1>2, <1>5, <2>1, <2>2, ServedOn
  <1> QED
    BY <1>3, <1>4, <1>5 DEF RunTask, Without

LEMMA TaskFailsStage ==
  ASSUME TypeInv, AloneInv, StageInv, ~overlapped', NEW t \in tasks, TaskFails(t)
  PROVE  StageInv'
  <1>t. /\ req \in [Slots -> Request] /\ faults \in Nat
    BY BoundAssumption DEF TypeInv, TypeOK, RequestsTyped
  <1>o. /\ ~overlapped /\ tasks' = tasks \ {t} /\ faults' = faults + 1
        /\ UNCHANGED <<dirs, keys, rows, containers, ops>>
    BY DEF TaskFails
  <1>1. PICK s \in Slots : At(s, "remove.wait") /\ req[s].op = t.op
    BY <1>o DEF AloneInv, TasksOK
  <1>s. /\ Uniq(rows, containers, ops) /\ req[s].pc = "remove.wait" /\ ~At(s, "idle")
        /\ StageOK(req[s], dirs, keys, rows, containers, tasks)
    BY <1>o, <1>1, Serving DEF At
  <1>2. ASSUME NEW u \in Slots, req'[u] = [req[u] EXCEPT !.failed = TRUE, !.clean = FALSE]
        PROVE  /\ req'[u].pc = req[u].pc /\ req'[u].kind = req[u].kind /\ req'[u].why = req[u].why
               /\ req'[u].id = req[u].id /\ req'[u].ident = req[u].ident
               /\ req'[u].row = req[u].row /\ req'[u].locked = req[u].locked
               /\ req'[u].failed /\ ~req'[u].clean
    BY <1>t, <1>2 DEF Request
  <1>3. \A u \in Slots : \/ req'[u] = req[u] /\ u # s
                         \/ req'[u] = [req[u] EXCEPT !.failed = TRUE, !.clean = FALSE]
    BY <1>1 DEF TaskFails
  <1>4. \A u \in Slots \ {s} : At(u, "idle") => req'[u].pc = "idle"
    BY <1>2, <1>3 DEF At
  <1>5. StageOK(req'[s], dirs, keys, rows, containers, tasks \ {t})
    <2>1. /\ req'[s].pc = req[s].pc /\ req'[s].kind = req[s].kind /\ req'[s].why = req[s].why
          /\ req'[s].id = req[s].id /\ req'[s].ident = req[s].ident /\ req'[s].row = req[s].row
          /\ req'[s].locked = req[s].locked /\ req'[s].failed /\ ~req'[s].clean
      BY <1>2, <1>3
    <2> QED
      BY <1>s, <2>1, PartFailsStage
  <1>6. req'[s].pc # "idle"
    BY <1>2, <1>3, <1>s
  <1> QED
    BY <1>o, <1>s, <1>t, <1>4, <1>5, <1>6, ServedFaulty

LEMMA BeginServed ==
  ASSUME TypeInv, IInv, AloneInv, StageInv, ~overlapped', NEW s \in Slots, Begin(s)
  PROVE  StageInv'
  <1>t. /\ req \in [Slots -> Request] /\ containers \in SUBSET Container /\ ops \in Nat
    BY DEF TypeInv, TypeOK, RequestsTyped, IInv, Numbers
  <1>1. /\ ops' = ops + 1 /\ overlapped' = (overlapped \/ \E t \in Slots : ~At(t, "idle"))
        /\ UNCHANGED <<dirs, rows, keys, containers, tasks, faults>>
    BY DEF Begin
  <1>2. ~overlapped /\ \A t \in Slots : At(t, "idle")
    BY <1>1
  <1>3. Uniq(rows, containers, ops) /\ (faults = 0 => AllSynced)
    BY <1>2 DEF StageInv
  <1>4. Others(s)
    BY <1>t DEF Begin, Others
  <1>5. /\ req'[s].op = ops + 1 /\ req'[s].why = "none"
        /\ req'[s].pc \in {"add.look", "remove.row", "up.pick", "down.remove"}
        /\ req'[s].kind = CASE req'[s].pc = "add.look" -> "add"
                            [] req'[s].pc = "remove.row" -> "remove"
                            [] req'[s].pc = "up.pick" -> "up" [] OTHER -> "down"
        /\ req'[s].pc = "add.look" => req'[s].ident = NoIdentity
    <2>1. ASSUME NEW x, req' = [req EXCEPT ![s] = [Idle EXCEPT
                   !.pc = "remove.row", !.kind = "remove", !.op = ops + 1, !.id = x.id,
                   !.ident = x.identity]]
          PROVE  /\ req'[s].op = ops + 1 /\ req'[s].why = "none"
                 /\ req'[s].pc = "remove.row" /\ req'[s].kind = "remove"
      BY <1>t, <2>1 DEF Idle
    <2>2. ASSUME req' = [req EXCEPT ![s] = [Idle EXCEPT
                   !.pc = "up.pick", !.kind = "up", !.op = ops + 1]]
          PROVE  /\ req'[s].op = ops + 1 /\ req'[s].why = "none"
                 /\ req'[s].pc = "up.pick" /\ req'[s].kind = "up"
      BY <1>t, <2>2 DEF Idle
    <2>3. ASSUME NEW c, req' = [req EXCEPT ![s] = [Idle EXCEPT
                   !.pc = "down.remove", !.kind = "down", !.op = ops + 1, !.target = c.id]]
          PROVE  /\ req'[s].op = ops + 1 /\ req'[s].why = "none"
                 /\ req'[s].pc = "down.remove" /\ req'[s].kind = "down"
      BY <1>t, <2>3 DEF Idle
    <2>4. ASSUME NEW i, NEW k, NEW w, req' = [req EXCEPT ![s] = [Idle EXCEPT
                   !.pc = "add.look", !.op = ops + 1, !.content = i, !.locked = k,
                   !.password = w]]
          PROVE  /\ req'[s].op = ops + 1 /\ req'[s].why = "none"
                 /\ req'[s].pc = "add.look" /\ req'[s].kind = "add"
                 /\ req'[s].ident = NoIdentity
      BY <1>t, <2>4 DEF Idle
    <2>5. \/ \E i \in Identity \cup {NoIdentity}, k, w \in Password :
               req' = [req EXCEPT ![s] = [Idle EXCEPT
                   !.pc = "add.look", !.op = ops + 1, !.content = i, !.locked = k,
                   !.password = w]]
          \/ \E x \in rows : req' = [req EXCEPT ![s] = [Idle EXCEPT
                   !.pc = "remove.row", !.kind = "remove", !.op = ops + 1, !.id = x.id,
                   !.ident = x.identity]]
          \/ req' = [req EXCEPT ![s] = [Idle EXCEPT
                   !.pc = "up.pick", !.kind = "up", !.op = ops + 1]]
          \/ \E c \in OfKind("connect") : req' = [req EXCEPT ![s] = [Idle EXCEPT
                   !.pc = "down.remove", !.kind = "down", !.op = ops + 1, !.target = c.id]]
      BY DEF Begin
    <2>6. CASE \E i \in Identity \cup {NoIdentity}, k, w \in Password :
               req' = [req EXCEPT ![s] = [Idle EXCEPT
                   !.pc = "add.look", !.op = ops + 1, !.content = i, !.locked = k,
                   !.password = w]]
      BY <2>4, <2>6
    <2>7. CASE \E x \in rows : req' = [req EXCEPT ![s] = [Idle EXCEPT
                   !.pc = "remove.row", !.kind = "remove", !.op = ops + 1, !.id = x.id,
                   !.ident = x.identity]]
      BY <2>1, <2>7
    <2>8. CASE \E c \in OfKind("connect") : req' = [req EXCEPT ![s] = [Idle EXCEPT
                   !.pc = "down.remove", !.kind = "down", !.op = ops + 1, !.target = c.id]]
      BY <2>3, <2>8
    <2> QED
      BY <2>2, <2>5, <2>6, <2>7, <2>8
  <1>6. /\ Uniq(rows, containers, ops + 1)
        /\ StageOK(req'[s], dirs, keys, rows, containers, tasks)
        /\ (\A i \in Identity : Synced(i, dirs, keys, rows, containers)) =>
             SyncOK(req'[s], dirs, keys, rows, containers)
    BY <1>t, <1>3, <1>5, BeginStage
  <1>7. \A t \in Slots \ {s} : req'[t].pc = "idle"
    BY <1>2, <1>4 DEF Others, At
  <1>8. /\ Uniq(rows', containers', ops')
        /\ StageOK(req'[s], dirs', keys', rows', containers', tasks')
    BY <1>1, <1>6
  <1>9. faults' = 0 => SyncOK(req'[s], dirs', keys', rows', containers')
    BY <1>1, <1>3, <1>6 DEF AllSynced
  <1>10. req'[s].pc # "idle"
    BY <1>5
  <1> QED
    BY <1>7, <1>8, <1>9, <1>10, Served

LEMMA StageStep ==
  ASSUME TypeInv, IInv, AloneInv, StageInv, [Next]_vars
  PROVE  StageInv'
  <1>1. CASE overlapped'
    BY <1>1 DEF StageInv
  <1>2. ASSUME ~overlapped', UNCHANGED vars PROVE StageInv'
    BY <1>2 DEF vars, stores, StageInv, SlotStage, AllSynced, At
  <1>3. ASSUME ~overlapped', NEW s \in Slots, Add(s) PROVE StageInv'
    BY <1>3, AddFileStage, AddRowStep, AddRunnerStep, StartMystStep, StartMystFailsStage,
       AddDaemonStep DEF Add
  <1>4. ASSUME ~overlapped', NEW s \in Slots, Remove(s) PROVE StageInv'
    BY <1>4, RemoveStep, JoinStep, RestStep DEF Remove
  <1> QED
    BY <1>1, <1>2, <1>3, <1>4, UpDownStep, BeginServed, ReplyStage, FailServed, RunTaskStage,
       TaskFailsStage, CrashStage DEF Next

LEMMA StageInit == Init => StageInv
  <1> SUFFICES ASSUME Init PROVE StageInv
    OBVIOUS
  <1>1. rows = {} /\ dirs = {} /\ containers = {} /\ \A s \in Slots : req[s].pc = "idle"
    BY DEF Init, Idle
  <1>2. Uniq(rows, containers, ops)
    BY <1>1 DEF Uniq, MystsIn
  <1>3. AllSynced
    BY <1>1 DEF AllSynced, Synced, TakenBack, RowsIn, MystsOn
  <1> QED
    BY <1>1, <1>2, <1>3, StageIdle DEF StageInv, SlotStage, At

LEMMA StagesHold == Spec => [](TypeInv /\ StageInv)
  <1>1. TypeInv /\ IInv /\ AloneInv /\ StageInv /\ [Next]_vars => StageInv'
    BY StageStep
  <1> QED
    BY <1>1, StageInit, AloneInit, AloneHolds, TypesHold, Invariance, PTL DEF Spec

(* Whoever is told "Ok" of a creation that nobody overlapped has a row     *)
(* whose passphrase unlocks the key in the store and a running container   *)
(* labelled with that row, whatever earlier requests, failures and crashes *)
(* left behind (myst-identity.service.ts, create).                         *)
THEOREM CreationIsWhole == Spec => []CreatedIsWhole
  <1>1. StageInv => CreatedIsWhole
    <2> SUFFICES ASSUME StageInv, ~overlapped, NEW s \in Slots, At(s, "done"),
                        req[s].kind = "add", req[s].out = "Ok"
                 PROVE  /\ \E r \in RowsOf(req[s].ident) : r.password = keys[req[s].ident]
                        /\ \E m \in OnIdentity("myst", req[s].ident) :
                             m.status = "running" /\ WithId(m.row) = RowsOf(req[s].ident)
      BY DEF CreatedIsWhole
    <2>1. Created(req[s], keys, rows, containers)
      BY DEF StageInv, SlotStage, StageOK, DoneOK, At
    <2> QED
      BY <2>1, Views DEF Created
  <1> QED
    BY <1>1, StagesHold, PTL

(* A client who is told that the daemon could not unlock the identity      *)
(* finds nothing of it left: neither row nor directory nor container.  The *)
(* roll-back goes through the removal of a whole identity, because until   *)
(* then the creation has everything (RefusedOK)                            *)
(* (myst-identity.service.ts, create).                                     *)
THEOREM RefusalLeavesNothing == Spec => []RefusedLeavesNothing
  <1>1. StageInv => RefusedLeavesNothing
    <2> SUFFICES ASSUME StageInv, ~overlapped, NEW s \in Slots, At(s, "done"),
                        req[s].out = "Unlock"
                 PROVE  /\ RowsOf(req[s].ident) = {} /\ req[s].ident \notin dirs
                        /\ OnIdentity("myst", req[s].ident) = {}
      BY DEF RefusedLeavesNothing
    <2>1. TakenBack(req[s].ident, dirs, rows, containers)
      BY DEF StageInv, SlotStage, StageOK, DoneOK, At
    <2> QED
      BY <2>1, Views DEF TakenBack
  <1> QED
    BY <1>1, StagesHold, PTL

(* A creation that meets no fault and whose row knows the passphrase of    *)
(* the key succeeds, whatever half-made or half-removed identity it starts *)
(* from (myst-identity-aggregate.repository.ts, add).                      *)
THEOREM CreationHeals == Spec => []AddHeals
  <1>1. TypeInv /\ StageInv => AddHeals
    <2> SUFFICES ASSUME TypeInv, StageInv, ~overlapped, NEW s \in Slots, At(s, "done"),
                        req[s].kind = "add", req[s].clean, req[s].content # NoIdentity,
                        \A r \in req[s].row : r.password = req[s].locked
                 PROVE  req[s].out = "Ok"
      BY DEF AddHeals
    <2>1. req[s].out = "Ok" \/ Excused(req[s])
      BY DEF StageInv, SlotStage, StageOK, DoneOK, At
    <2> QED
      BY <2>1 DEF Excused
  <1> QED
    BY <1>1, StagesHold, PTL

(* A removal that reports success has removed the row and the container of *)
(* its id, also when earlier removals stopped half-way                     *)
(* (myst-identity-aggregate.repository.ts, remove).                        *)
THEOREM RemovalIsGone == Spec => []RemovedIsGone
  <1>1. StageInv => RemovedIsGone
    <2> SUFFICES ASSUME StageInv, ~overlapped, NEW s \in Slots, At(s, "done"),
                        req[s].kind = "remove", req[s].out = "Ok"
                 PROVE  /\ WithId(req[s].id) = {}
                        /\ \A m \in OfKind("myst") : m.row # req[s].id
      BY DEF RemovedIsGone
    <2>1. IdIn(rows, req[s].id) = {} /\ \A m \in MystsIn(containers) : m.row # req[s].id
      BY DEF StageInv, SlotStage, StageOK, DoneOK, At
    <2> QED
      BY <2>1, Views
  <1> QED
    BY <1>1, StagesHold, PTL

(* As long as no call failed and no two requests overlapped, the table,    *)
(* the key store and Docker hold the same identities whenever no request   *)
(* is changing them (myst-identity-aggregate.repository.ts).               *)
THEOREM StoresInStep == Spec => []InStep
  <1>1. TypeInv /\ StageInv => InStep
    <2> SUFFICES ASSUME TypeInv, StageInv, ~overlapped, faults = 0,
                        \A s \in Slots : req[s].pc \in {"idle", "done"}, NEW i \in Identity
                 PROVE  /\ HasKey(i) <=> RowsOf(i) # {}
                        /\ HasKey(i) <=> \E m \in OnIdentity("myst", i) : m.status = "running"
                        /\ HasKey(i) <=> i \in dirs
      BY DEF InStep
    <2>1. Synced(i, dirs, keys, rows, containers)
      <3>1. CASE \A s \in Slots : At(s, "idle")
        BY <3>1 DEF StageInv, AllSynced
      <3>2. ASSUME NEW s \in Slots, ~At(s, "idle") PROVE Synced(i, dirs, keys, rows, containers)
        <4>1. req[s].pc \notin Midway
          BY DEF Midway, Filed
        <4>2. SyncOK(req[s], dirs, keys, rows, containers)
          BY <3>2 DEF StageInv, SlotStage
        <4> QED
          BY <4>1, <4>2 DEF SyncOK
      <3> QED
        BY <3>1, <3>2
    <2>2. keys[i] # NoPassword => i \in dirs
      BY DEF TypeInv, TypeOK
    <2>3. CASE TakenBack(i, dirs, rows, containers)
      BY <2>2, <2>3, Views DEF TakenBack, HasKey
    <2>4. CASE /\ Key(keys, i) /\ i \in dirs
               /\ \E x \in RowsIn(rows, i), m \in MystsOn(containers, i) :
                    m.status = "running" /\ m.row = x.id
      BY <2>4, Views
    <2> QED
      BY <2>1, <2>3, <2>4 DEF Synced
  <1> QED
    BY <1>1, StagesHold, PTL

=============================================================================
