----------------------------- MODULE UsersProofs -----------------------------
(***************************************************************************)
(* Proofs about the two stores of users.  For any number of concurrent     *)
(* requests: type correctness, and that a name has one live row at most.   *)
(* For requests one at a time: what "Ok" means, and that the stores agree. *)
(*                                                                         *)
(* UniqueName needs to know that the row an addition inserts is a new one. *)
(* Rows are named after requests, so NumbersOK says that the number of an  *)
(* addition on its way to the table is on no row, on no row another        *)
(* request has loaded and may still save, and is that of no other addition.*)
(*                                                                         *)
(* OkMeansBoth and InStep speak of requests that do not overlap.  AloneInv *)
(* says what such a request may rely on after each await (Keeps), and that *)
(* without faults nothing but the name it is writing is out of step        *)
(* (Agreement).                                                            *)
(***************************************************************************)
EXTENDS UsersStores, TLAPS

Adding(s) == req[s].pc \in {"add.look", "add.insert"}

(* Handlers have set the variables they use: an addition has a number and  *)
(* a password until it is in the table.                                    *)
AddingOK == \A s \in Slots : Adding(s) => req[s].id \in 1 .. MaxOps /\ req[s].password \in Password

NumbersOK ==
  /\ \A r \in rows : r.id <= ops
  /\ \A s \in Slots : req[s].id <= ops /\ \A r \in req[s].row : r.id <= ops
  /\ \A s \in Slots : Adding(s) =>
       /\ \A r \in rows : r.id # req[s].id
       /\ \A t \in Slots : \A r \in req[t].row : r.id # req[s].id
       /\ \A t \in Slots : Adding(t) /\ req[t].id = req[s].id => t = s

WellFormed == TypeOK /\ AddingOK

IInv == WellFormed /\ NumbersOK /\ UniqueName

-----------------------------------------------------------------------------
(* The helpers stay within the types.                                      *)

LEMMA NoEntriesType == NoEntries \in Entries
  BY DEF NoEntries, Entries, MaybePassword

LEMMA IdleRequest == ASSUME NEW n \in Name PROVE Idle(n) \in Request
  BY BoundAssumption, NoEntriesType, SMT DEF Idle, Request, PCs, Outcomes, MaybePassword

LEMMA AfterRowPC == ASSUME NEW r PROVE AfterRow(r) \in {"file.check", "file.read", "done"}
  BY DEF AfterRow

(* What a step makes of the request it serves, given what it puts where.   *)
LEMMA GotoRequest ==
  ASSUME req \in [Slots -> Request], NEW s \in Slots, NEW l \in PCs, Goto(s, l)
  PROVE  req' \in [Slots -> Request]
  BY DEF Goto, Request

LEMMA AnswerRequest ==
  ASSUME req \in [Slots -> Request], NEW s \in Slots, NEW o \in Outcomes, Answer(s, o)
  PROVE  req' \in [Slots -> Request]
  <1>1. "done" \in PCs
    BY DEF PCs
  <1> QED
    BY <1>1 DEF Answer, Request

LEMMA IdRequest ==
  ASSUME req \in [Slots -> Request], NEW s \in Slots, NEW l \in PCs, NEW i \in 0 .. MaxOps,
         req' = [req EXCEPT ![s].pc = l, ![s].id = i]
  PROVE  req' \in [Slots -> Request]
  BY DEF Request

LEMMA KnownRequest ==
  ASSUME req \in [Slots -> Request], NEW s \in Slots, NEW l \in PCs, NEW k \in BOOLEAN,
         req' = [req EXCEPT ![s].pc = l, ![s].known = k]
  PROVE  req' \in [Slots -> Request]
  BY DEF Request

LEMMA RowRequest ==
  ASSUME req \in [Slots -> Request], NEW s \in Slots, NEW l \in PCs, NEW found \in SUBSET Row,
         req' = [req EXCEPT ![s].row = found, ![s].pc = l]
  PROVE  req' \in [Slots -> Request]
  BY DEF Request

LEMMA CopyRequest ==
  ASSUME req \in [Slots -> Request], NEW s \in Slots, NEW l \in PCs, NEW e \in Entries,
         req' = [req EXCEPT ![s].pc = l, ![s].copy = e]
  PROVE  req' \in [Slots -> Request]
  BY DEF Request

(* A new request is an idle one with some fields set.                      *)
LEMMA AddRequest ==
  ASSUME NEW r \in Request, NEW l \in PCs, NEW i \in 0 .. MaxOps, NEW w \in MaybePassword
  PROVE  [r EXCEPT !.pc = l, !.kind = "add", !.id = i, !.password = w] \in Request
  BY DEF Request

LEMMA UpdateRequest ==
  ASSUME NEW r \in Request, NEW l \in PCs, NEW i \in 0 .. MaxOps, NEW w \in MaybePassword
  PROVE  [r EXCEPT !.pc = l, !.kind = "update", !.id = i, !.password = w] \in Request
  BY DEF Request

LEMMA RemoveRequest ==
  ASSUME NEW r \in Request, NEW l \in PCs, NEW i \in 0 .. MaxOps
  PROVE  [r EXCEPT !.pc = l, !.id = i] \in Request
  BY DEF Request

LEMMA ProceedRequest ==
  ASSUME req \in [Slots -> Request], NEW s \in Slots, Proceed(s)
  PROVE  req' \in [Slots -> Request] /\ req'[s].pc \in {"file.check", "file.read", "done"}
  <1> DEFINE l == AfterRow(req[s])
             o == IF l = "done" THEN "Ok" ELSE req[s].out
  <1>1. l \in PCs /\ l \in {"file.check", "file.read", "done"}
    BY AfterRowPC DEF PCs
  <1>2. o \in Outcomes
    BY DEF Request, Outcomes
  <1>3. req' = [req EXCEPT ![s].pc = l, ![s].out = o]
    BY DEF Proceed
  <1> HIDE DEF l, o
  <1> QED
    BY <1>1, <1>2, <1>3 DEF Request

(* A row that is saved is a row.                                           *)
LEMMA SavedRows ==
  ASSUME rows \subseteq Row, NEW r \in Row, NEW w \in MaybePassword
  PROVE  Saved(r, w) \subseteq Row
  <1>1. [r EXCEPT !.password = IF w = NoPassword THEN @ ELSE w] \in Row
    BY DEF Row, MaybePassword
  <1> QED
    BY <1>1 DEF Saved

-----------------------------------------------------------------------------
(* What a step of a request in service changes, as far as numbers go: it   *)
(* works on, loads and writes rows that are there or that it has loaded,   *)
(* except that an addition may write its own and is no addition then.      *)
Effect(s) ==
  /\ req' \in [Slots -> Request]
  /\ \A t \in Slots \ {s} : req'[t] = req[t]
  /\ req'[s].id <= ops
  /\ req'[s].row \subseteq req[s].row \cup rows
  /\ Adding(s)' => Adding(s) /\ req'[s].id = req[s].id /\ req'[s].password = req[s].password
  /\ \A r \in rows' :
       \/ \E q \in rows \cup req[s].row : q.id = r.id
       \/ Adding(s) /\ ~Adding(s)' /\ r.id = req[s].id
  /\ ops' = ops

(* The last disjunct of Effect is the one that needs NumbersOK.            *)
LEMMA EffectNumbers ==
  ASSUME WellFormed, NumbersOK, NEW s \in Slots, Effect(s)
  PROVE  AddingOK' /\ NumbersOK'
  <1>e. /\ \A t \in Slots \ {s} : req'[t] = req[t]
        /\ req'[s].id <= ops
        /\ req'[s].row \subseteq req[s].row \cup rows
        /\ Adding(s)' => Adding(s) /\ req'[s].id = req[s].id /\ req'[s].password = req[s].password
        /\ \A r \in rows' : \/ \E q \in rows \cup req[s].row : q.id = r.id
                            \/ Adding(s) /\ ~Adding(s)' /\ r.id = req[s].id
        /\ ops' = ops
    BY DEF Effect
  <1>a. \A t \in Slots : Adding(t)' =>
          Adding(t) /\ req'[t].id = req[t].id /\ req'[t].password = req[t].password
    BY <1>e DEF Adding
  <1>1. AddingOK'
    BY <1>a DEF WellFormed, AddingOK
  <1>2. \A r \in rows : r.id <= ops
    BY DEF NumbersOK
  <1>3. \A t \in Slots : req[t].id <= ops /\ \A r \in req[t].row : r.id <= ops
    BY DEF NumbersOK
  <1>4. \A t \in Slots : Adding(t) =>
          /\ \A r \in rows : r.id # req[t].id
          /\ \A u \in Slots : \A r \in req[u].row : r.id # req[t].id
          /\ \A u \in Slots : Adding(u) /\ req[u].id = req[t].id => u = t
    BY DEF NumbersOK
  <1>5. \A r \in rows' : r.id <= ops'
    BY <1>e, <1>2, <1>3
  <1>6. \A t \in Slots : req'[t].id <= ops' /\ \A r \in req'[t].row : r.id <= ops'
    BY <1>e, <1>2, <1>3
  <1>7. ASSUME NEW t \in Slots, Adding(t)'
        PROVE  /\ \A r \in rows' : r.id # req'[t].id
               /\ \A u \in Slots : \A r \in req'[u].row : r.id # req'[t].id
               /\ \A u \in Slots : Adding(u)' /\ req'[u].id = req'[t].id => u = t
    <2>1. Adding(t) /\ req'[t].id = req[t].id
      BY <1>a, <1>7
    <2>2. ASSUME NEW r \in rows' PROVE r.id # req[t].id
      <3>1. CASE \E q \in rows \cup req[s].row : q.id = r.id
        BY <1>4, <2>1, <3>1
      <3>2. CASE Adding(s) /\ ~Adding(s)' /\ r.id = req[s].id
        BY <1>4, <1>7, <2>1, <3>2
      <3> QED
        BY <1>e, <3>1, <3>2
    <2>3. ASSUME NEW u \in Slots, NEW r \in req'[u].row PROVE r.id # req[t].id
      BY <1>e, <1>4, <2>1, <2>3
    <2>4. ASSUME NEW u \in Slots, Adding(u)', req'[u].id = req'[t].id PROVE u = t
      BY <1>a, <1>4, <2>1, <2>4
    <2> QED
      BY <2>1, <2>2, <2>3, <2>4
  <1> QED
    BY <1>1, <1>5, <1>6, <1>7 DEF NumbersOK, Adding

(* Serving a request.                                                      *)
LEMMA ServeEffect ==
  ASSUME IInv, NEW s \in Slots, Serve(s) \/ Fail(s)
  PROVE  Effect(s) /\ TypeOK' /\ UniqueName'
  <1>t. /\ rows \subseteq Row /\ fileExists \in BOOLEAN /\ entries \in Entries
        /\ req \in [Slots -> Request] /\ overlapped \in BOOLEAN
        /\ ops \in 0 .. MaxOps /\ faults \in 0 .. MaxFaults
    BY DEF IInv, WellFormed, TypeOK
  <1>r. /\ req[s].id \in 0 .. MaxOps /\ req[s].name \in Name /\ req[s].row \subseteq Row
        /\ req[s].password \in MaybePassword /\ req[s].copy \in Entries
    BY <1>t DEF Request
  <1>p. PCs = {"idle", "add.look", "add.insert", "find", "get", "row.find", "row.save",
               "row.delete", "file.check", "file.create", "file.read", "file.write", "done"}
    BY DEF PCs
  <1>o. {"Ok", "NotFound", "Exist", "Repository"} \subseteq Outcomes
    BY DEF Outcomes
  <1>n. req[s].id <= ops /\ \A r \in rows : r.id <= ops
    BY DEF IInv, NumbersOK
  <1>u. UniqueName
    BY DEF IInv
  (* Steps that leave the table alone.                                     *)
  <1>k. ASSUME req' \in [Slots -> Request], UNCHANGED <<rows, ops, overlapped>>,
               \A t \in Slots \ {s} : req'[t] = req[t],
               req'[s].id <= ops, req'[s].row \subseteq req[s].row \cup rows,
               Adding(s)' => Adding(s) /\ req'[s].id = req[s].id /\ req'[s].password = req[s].password,
               fileExists' \in BOOLEAN, entries' \in Entries, faults' \in 0 .. MaxFaults
        PROVE  Effect(s) /\ TypeOK' /\ UniqueName'
    <2>1. Effect(s)
      BY <1>k DEF Effect
    <2>2. TypeOK'
      BY <1>t, <1>k DEF TypeOK
    <2>3. UniqueName'
      BY <1>u, <1>k DEF UniqueName, Live
    <2> QED
      BY <2>1, <2>2, <2>3
  <1>g. ASSUME NEW l \in PCs, Goto(s, l)
        PROVE  /\ req' \in [Slots -> Request] /\ \A t \in Slots \ {s} : req'[t] = req[t]
               /\ req'[s].id = req[s].id /\ req'[s].row = req[s].row /\ req'[s].pc = l
               /\ req'[s].password = req[s].password
    BY <1>t, <1>g, GotoRequest DEF Goto, Request
  <1>a. ASSUME NEW o \in Outcomes, Answer(s, o)
        PROVE  /\ req' \in [Slots -> Request] /\ \A t \in Slots \ {s} : req'[t] = req[t]
               /\ req'[s].id = req[s].id /\ req'[s].row = req[s].row /\ req'[s].pc = "done"
    BY <1>t, <1>a, AnswerRequest DEF Answer, Request
  <1>c. ASSUME Proceed(s)
        PROVE  /\ req' \in [Slots -> Request] /\ \A t \in Slots \ {s} : req'[t] = req[t]
               /\ req'[s].id = req[s].id /\ req'[s].row = req[s].row
               /\ req'[s].pc \in {"file.check", "file.read", "done"}
    BY <1>t, <1>c, ProceedRequest DEF Proceed, Request
  <1>1. CASE AddLook(s)
    <2>1. UNCHANGED <<rows, fileExists, entries, overlapped, ops, faults>> /\ At(s, "add.look")
      BY <1>1 DEF AddLook
    <2>2. CASE Goto(s, "add.insert")
      BY <1>t, <1>k, <1>g, <1>n, <1>p, <2>1, <2>2 DEF Adding, At
    <2>3. CASE Answer(s, "Exist")
      BY <1>t, <1>k, <1>a, <1>n, <1>o, <2>1, <2>3 DEF Adding
    <2>4. ASSUME NEW r \in Named(req[s].name),
                 req' = [req EXCEPT ![s].pc = "row.find", ![s].id = r.id]
          PROVE  Effect(s) /\ TypeOK' /\ UniqueName'
      <3>1. r \in rows
        BY DEF Named, Live
      <3>2. r.id \in 1 .. MaxOps /\ r.id <= ops
        BY <1>t, <1>n, <3>1 DEF Row
      <3>3. req' \in [Slots -> Request]
        <4>1. "row.find" \in PCs /\ r.id \in 0 .. MaxOps
          BY <1>p, <3>2
        <4> QED
          BY <1>t, <2>4, <4>1, IdRequest
      <3>4. \A t \in Slots \ {s} : req'[t] = req[t]
        BY <1>t, <2>4
      <3>5. req'[s].id = r.id /\ req'[s].row = req[s].row /\ req'[s].pc = "row.find"
        BY <1>t, <2>4 DEF Request
      <3> QED
        BY <1>t, <1>k, <2>1, <3>2, <3>3, <3>4, <3>5 DEF Adding
    <2> QED
      BY <1>1, <2>2, <2>3, <2>4 DEF AddLook
  <1>2. CASE AddInsert(s)
    <2> DEFINE added == [id |-> req[s].id, name |-> req[s].name, password |-> req[s].password,
                         live |-> TRUE]
    <2>1. UNCHANGED <<fileExists, entries, overlapped, ops, faults>> /\ At(s, "add.insert")
      BY <1>2 DEF AddInsert
    <2>2. CASE Answer(s, "Exist") /\ UNCHANGED rows
      BY <1>t, <1>k, <1>a, <1>n, <1>o, <2>1, <2>2 DEF Adding
    <2>3. CASE ~Clashes(added) /\ rows' = rows \cup {added} /\ Goto(s, "file.check")
      <3>1. Adding(s)
        BY <2>1 DEF Adding, At
      <3>2. added \in Row
        BY <1>r, <3>1 DEF IInv, WellFormed, AddingOK, Row
      <3>3. /\ req' \in [Slots -> Request] /\ \A t \in Slots \ {s} : req'[t] = req[t]
            /\ req'[s].id = req[s].id /\ req'[s].row = req[s].row /\ ~Adding(s)'
        BY <1>g, <1>p, <2>3 DEF Adding
      <3>4. Effect(s)
        BY <1>n, <2>1, <2>3, <3>1, <3>3 DEF Effect
      <3>5. TypeOK'
        BY <1>t, <2>1, <2>3, <3>2, <3>3 DEF TypeOK
      <3>6. \A x \in Live : x.id # req[s].id /\ x.name # req[s].name
        BY <2>3, <3>1 DEF Clashes, Named, Live, IInv, NumbersOK
      <3>7. added.name = req[s].name /\ \A x \in Live' : x = added \/ x \in Live
        BY <2>3 DEF Live
      <3> HIDE DEF added
      <3>8. UniqueName'
        BY <1>u, <3>6, <3>7 DEF UniqueName
      <3> QED
        BY <3>4, <3>5, <3>8
    <2> QED
      BY <1>2, <2>2, <2>3 DEF AddInsert
  <1>3. CASE Find(s)
    <2>1. UNCHANGED <<rows, fileExists, entries, overlapped, ops, faults>>
      BY <1>3 DEF Find
    <2>2. CASE Answer(s, "NotFound")
      BY <1>t, <1>k, <1>a, <1>n, <1>o, <2>1, <2>2 DEF Adding
    <2>3. CASE Goto(s, "get")
      BY <1>t, <1>k, <1>g, <1>n, <1>p, <2>1, <2>3 DEF Adding
    <2> QED
      BY <1>3, <2>2, <2>3 DEF Find
  <1>4. CASE Get(s)
    <2> DEFINE known == WithId(req[s].id) # {}
    <2>1. UNCHANGED <<rows, fileExists, entries, overlapped, ops, faults>>
      BY <1>4 DEF Get
    <2>2. req' = [req EXCEPT ![s].pc = "row.find", ![s].known = known]
      BY <1>4 DEF Get
    <2>3. known \in BOOLEAN
      OBVIOUS
    <2> HIDE DEF known
    <2>4. req' \in [Slots -> Request]
      <3>1. "row.find" \in PCs
        BY <1>p
      <3> QED
        BY <1>t, <2>2, <2>3, <3>1, KnownRequest
    <2>5. \A t \in Slots \ {s} : req'[t] = req[t]
      BY <1>t, <2>2
    <2>6. req'[s].id = req[s].id /\ req'[s].row = req[s].row /\ req'[s].pc = "row.find"
      BY <1>t, <2>2 DEF Request
    <2> QED
      BY <1>t, <1>k, <1>n, <2>1, <2>4, <2>5, <2>6 DEF Adding
  <1>5. CASE RowFind(s)
    <2> DEFINE found == WithId(req[s].id)
               l == IF req[s].kind = "remove" THEN "row.delete" ELSE "row.save"
    <2>1. UNCHANGED <<rows, fileExists, entries, overlapped, ops, faults>>
      BY <1>5 DEF RowFind
    <2>2. CASE Proceed(s)
      BY <1>t, <1>k, <1>c, <1>n, <2>1, <2>2 DEF Adding
    <2>3. CASE req' = [req EXCEPT ![s].row = found, ![s].pc = l]
      <3>1. found \subseteq rows
        BY DEF WithId, Live
      <3>2. l \in {"row.delete", "row.save"}
        OBVIOUS
      <3> HIDE DEF found, l
      <3>3. req' \in [Slots -> Request]
        <4>1. l \in PCs /\ found \in SUBSET Row
          BY <1>t, <1>p, <3>1, <3>2
        <4> QED
          BY <1>t, <2>3, <4>1, RowRequest
      <3>4. \A t \in Slots \ {s} : req'[t] = req[t]
        BY <1>t, <2>3
      <3>5. req'[s].id = req[s].id /\ req'[s].row = found /\ req'[s].pc = l
        BY <1>t, <2>3 DEF Request
      <3> QED
        BY <1>t, <1>k, <1>n, <2>1, <3>1, <3>2, <3>3, <3>4, <3>5 DEF Adding
    <2> QED
      BY <1>5, <2>2, <2>3 DEF RowFind
  <1>6. CASE RowSave(s)
    <2>1. UNCHANGED <<fileExists, entries, overlapped, ops, faults>>
      BY <1>6 DEF RowSave
    <2>2. CASE Answer(s, "Exist") /\ UNCHANGED rows
      BY <1>t, <1>k, <1>a, <1>n, <1>o, <2>1, <2>2 DEF Adding
    <2>3. ASSUME NEW loaded \in req[s].row, ~Clashes(loaded),
                 rows' = Saved(loaded, req[s].password), Proceed(s)
          PROVE  Effect(s) /\ TypeOK' /\ UniqueName'
      <3> DEFINE saved == [loaded EXCEPT !.password =
                             IF req[s].password = NoPassword THEN @ ELSE req[s].password]
      <3>1. loaded \in Row
        BY <1>r
      <3>2. saved.id = loaded.id /\ saved.name = loaded.name /\ saved.live = loaded.live
        BY <3>1 DEF Row
      <3>3. rows' = {x \in rows : x.id # loaded.id} \cup {saved}
        BY <2>3 DEF Saved
      <3> HIDE DEF saved
      <3>4. Effect(s)
        BY <1>c, <1>n, <2>1, <2>3, <3>2, <3>3 DEF Effect, Adding
      <3>5. TypeOK'
        BY <1>t, <1>r, <1>c, <2>1, <2>3, <3>1, SavedRows DEF TypeOK
      <3>6. \A x \in rows : x.live /\ x.id # loaded.id => x.name # loaded.name
        BY <2>3 DEF Clashes, Named, Live
      <3>7. UniqueName'
        BY <1>u, <3>2, <3>3, <3>6 DEF UniqueName, Live
      <3> QED
        BY <3>4, <3>5, <3>7
    <2> QED
      BY <1>6, <2>2, <2>3 DEF RowSave
  <1>7. CASE RowDelete(s)
    <2> DEFINE Deleted(r) == IF r.id = req[s].id THEN [r EXCEPT !.live = FALSE] ELSE r
    <2>1. UNCHANGED <<fileExists, entries, overlapped, ops, faults>> /\ Proceed(s)
      BY <1>7 DEF RowDelete
    <2>2. rows' = {Deleted(r) : r \in rows}
      BY <1>7 DEF RowDelete
    <2>3. \A r \in rows : /\ Deleted(r) \in Row /\ Deleted(r).id = r.id
                          /\ Deleted(r).live => Deleted(r) = r
      BY <1>t DEF Row
    <2> HIDE DEF Deleted
    <2>4. Effect(s)
      BY <1>c, <1>n, <2>1, <2>2, <2>3 DEF Effect, Adding
    <2>5. TypeOK'
      BY <1>t, <1>c, <2>1, <2>2, <2>3 DEF TypeOK
    <2>6. UniqueName'
      BY <1>u, <2>2, <2>3 DEF UniqueName, Live
    <2> QED
      BY <2>4, <2>5, <2>6
  <1>8. CASE FileCheck(s)
    <2>1. UNCHANGED <<rows, fileExists, entries, overlapped, ops, faults>>
      BY <1>8 DEF FileCheck
    <2>2. CASE Goto(s, "file.read") \/ Goto(s, "file.create")
      BY <1>t, <1>k, <1>g, <1>n, <1>p, <2>1, <2>2 DEF Adding
    <2>3. CASE Answer(s, "Ok")
      BY <1>t, <1>k, <1>a, <1>n, <1>o, <2>1, <2>3 DEF Adding
    <2> QED
      BY <1>8, <2>2, <2>3 DEF FileCheck
  <1>9. CASE FileCreate(s)
    <2>1. /\ UNCHANGED <<rows, overlapped, ops, faults>> /\ Goto(s, "file.read")
          /\ fileExists' \in BOOLEAN /\ entries' \in Entries
      BY <1>9, NoEntriesType DEF FileCreate
    <2> QED
      BY <1>t, <1>k, <1>g, <1>n, <1>p, <2>1 DEF Adding
  <1>10. CASE FileRead(s)
    <2>1. UNCHANGED <<rows, fileExists, entries, overlapped, ops, faults>>
      BY <1>10 DEF FileRead
    <2>2. CASE Answer(s, "Repository") \/ Answer(s, "Ok")
      BY <1>t, <1>k, <1>a, <1>n, <1>o, <2>1, <2>2 DEF Adding
    <2>3. CASE req' = [req EXCEPT ![s].pc = "file.write", ![s].copy = entries]
      <3>1. req' \in [Slots -> Request]
        <4>1. "file.write" \in PCs
          BY <1>p
        <4> QED
          BY <1>t, <2>3, <4>1, CopyRequest
      <3>2. \A t \in Slots \ {s} : req'[t] = req[t]
        BY <1>t, <2>3
      <3>3. req'[s].id = req[s].id /\ req'[s].row = req[s].row /\ req'[s].pc = "file.write"
        BY <1>t, <2>3 DEF Request
      <3> QED
        BY <1>t, <1>k, <1>n, <2>1, <3>1, <3>2, <3>3 DEF Adding
    <2> QED
      BY <1>10, <2>2, <2>3 DEF FileRead
  <1>11. CASE FileWrite(s)
    <2> DEFINE w == IF req[s].kind = "remove" THEN NoPassword ELSE req[s].password
    <2>1. UNCHANGED <<rows, overlapped, ops, faults>> /\ Answer(s, "Ok") /\ fileExists' \in BOOLEAN
      BY <1>11 DEF FileWrite
    <2>2. entries' = [req[s].copy EXCEPT ![req[s].name] = w]
      BY <1>11 DEF FileWrite
    <2>3. w \in MaybePassword
      BY <1>r DEF MaybePassword
    <2> HIDE DEF w
    <2>4. entries' \in Entries
      BY <1>r, <2>2, <2>3 DEF Entries
    <2> QED
      BY <1>t, <1>k, <1>a, <1>n, <1>o, <2>1, <2>4 DEF Adding
  <1>12. CASE Reply(s)
    <2>1. UNCHANGED <<rows, fileExists, entries, overlapped, ops, faults>>
      BY <1>12 DEF Reply
    <2>2. req' = [req EXCEPT ![s] = Idle(req[s].name)] /\ Idle(req[s].name) \in Request
      BY <1>r, <1>12, IdleRequest DEF Reply
    <2>3. /\ req' \in [Slots -> Request] /\ \A t \in Slots \ {s} : req'[t] = req[t]
          /\ req'[s].id = 0 /\ req'[s].row = {} /\ req'[s].pc = "idle"
      BY <1>t, <2>2 DEF Idle
    <2> QED
      BY <1>t, <1>k, <2>1, <2>3 DEF Adding
  <1>13. CASE Fail(s)
    <2>1. UNCHANGED <<rows, fileExists, entries, overlapped, ops>> /\ Answer(s, "Repository")
      BY <1>13 DEF Fail
    <2>2. faults' \in 0 .. MaxFaults
      BY <1>t, <1>13, BoundAssumption DEF Fail
    <2> QED
      BY <1>t, <1>k, <1>a, <1>n, <1>o, <2>1, <2>2 DEF Adding
  <1> QED
    BY <1>1, <1>2, <1>3, <1>4, <1>5, <1>6, <1>7, <1>8, <1>9, <1>10, <1>11, <1>12, <1>13 DEF Serve

(* A new request.  Only an addition is "adding", with the next number.     *)
LEMMA BeginInv ==
  ASSUME IInv, NEW s \in Slots, Begin(s)
  PROVE  IInv'
  <1>t. /\ rows \subseteq Row /\ fileExists \in BOOLEAN /\ entries \in Entries
        /\ req \in [Slots -> Request] /\ overlapped \in BOOLEAN
        /\ ops \in 0 .. MaxOps /\ faults \in 0 .. MaxFaults
    BY DEF IInv, WellFormed, TypeOK
  <1>b. /\ UNCHANGED <<rows, fileExists, entries, faults>>
        /\ ops < MaxOps /\ ops' = ops + 1
    BY DEF Begin
  <1>o. ops' \in 1 .. MaxOps
    BY <1>t, <1>b, BoundAssumption
  <1>v. overlapped' \in BOOLEAN
    <2>1. overlapped' = (overlapped \/ \E t \in Slots : ~At(t, "idle"))
      BY DEF Begin
    <2> QED
      BY <1>t, <2>1
  <1> DEFINE Starts(v) ==
        /\ req' = [req EXCEPT ![s] = v]
        /\ v.row = {} /\ v.id <= ops + 1
        /\ v.pc \in {"add.look", "add.insert"} => v.id = ops + 1 /\ v.password \in Password
  <1>1. PICK v \in Request : Starts(v)
    <2>p. {"add.look", "find"} \subseteq PCs
      BY DEF PCs
    <2>1. ASSUME NEW n \in Name, NEW w \in Password,
                 req' = [req EXCEPT ![s] = [Idle(n) EXCEPT
                   !.pc = "add.look", !.kind = "add", !.id = ops + 1, !.password = w]]
          PROVE  \E v \in Request : Starts(v)
      <3> DEFINE v == [Idle(n) EXCEPT
                   !.pc = "add.look", !.kind = "add", !.id = ops + 1, !.password = w]
      <3>1. ops + 1 \in 0 .. MaxOps /\ w \in MaybePassword
        BY <1>b, <1>o DEF MaybePassword
      <3>4. v \in Request
        BY <2>p, <3>1, IdleRequest, AddRequest
      <3>2. v.row = {} /\ v.id = ops + 1 /\ v.password = w
        BY DEF Idle
      <3>3. Starts(v)
        BY <1>t, <2>1, <3>2
      <3> HIDE DEF v, Starts
      <3> QED
        BY <3>3, <3>4
    <2>2. ASSUME NEW r \in rows, NEW w \in MaybePassword,
                 req' = [req EXCEPT ![s] = [Idle(r.name) EXCEPT
                   !.pc = "find", !.kind = "update", !.id = r.id, !.password = w]]
          PROVE  \E v \in Request : Starts(v)
      <3> DEFINE v == [Idle(r.name) EXCEPT
                   !.pc = "find", !.kind = "update", !.id = r.id, !.password = w]
      <3>1. r.name \in Name /\ r.id \in 0 .. MaxOps /\ r.id <= ops + 1
        BY <1>t DEF Row, IInv, NumbersOK
      <3>2. v \in Request
        BY <2>p, <3>1, IdleRequest, UpdateRequest
      <3>3. v.row = {} /\ v.id = r.id /\ v.pc = "find"
        BY DEF Idle
      <3>4. Starts(v)
        BY <2>2, <3>1, <3>3
      <3> HIDE DEF v, Starts
      <3> QED
        BY <3>2, <3>4
    <2>3. ASSUME NEW r \in rows,
                 req' = [req EXCEPT ![s] = [Idle(r.name) EXCEPT !.pc = "find", !.id = r.id]]
          PROVE  \E v \in Request : Starts(v)
      <3> DEFINE v == [Idle(r.name) EXCEPT !.pc = "find", !.id = r.id]
      <3>1. r.name \in Name /\ r.id \in 0 .. MaxOps /\ r.id <= ops + 1
        BY <1>t DEF Row, IInv, NumbersOK
      <3>2. v \in Request
        BY <2>p, <3>1, IdleRequest, RemoveRequest
      <3>3. v.row = {} /\ v.id = r.id /\ v.pc = "find"
        BY DEF Idle
      <3>4. Starts(v)
        BY <2>3, <3>1, <3>3
      <3> HIDE DEF v, Starts
      <3> QED
        BY <3>2, <3>4
    <2> HIDE DEF Starts
    <2> QED
      BY <2>1, <2>2, <2>3 DEF Begin
  <1>2. /\ req' \in [Slots -> Request] /\ req'[s] = v
        /\ \A t \in Slots \ {s} : req'[t] = req[t]
    BY <1>t, <1>1
  <1>3. TypeOK'
    BY <1>t, <1>b, <1>o, <1>v, <1>2 DEF TypeOK
  <1>4. \A t \in Slots : Adding(t)' =>
          \/ t # s /\ Adding(t) /\ req'[t] = req[t]
          \/ t = s /\ req'[t].id = ops + 1 /\ req'[t].password \in Password
    BY <1>1, <1>2 DEF Adding
  <1>5. AddingOK'
    BY <1>b, <1>o, <1>4 DEF IInv, WellFormed, AddingOK
  <1>6. /\ \A r \in rows : r.id <= ops /\ r.id \in Nat
        /\ \A t \in Slots : req[t].id <= ops /\ \A r \in req[t].row : r.id <= ops /\ r.id \in Nat
    BY <1>t DEF IInv, NumbersOK, Request, Row
  <1>7. /\ \A r \in rows : r.id < ops'
        /\ \A t \in Slots : req'[t].id <= ops' /\ \A r \in req'[t].row : r.id < ops'
        /\ \A t \in Slots \ {s} : req'[t].id < ops'
    <2>1. \A t \in Slots : req[t].id \in Nat
      BY <1>t DEF Request
    <2> QED
      BY <1>t, <1>b, <1>1, <1>2, <1>6, <2>1
  <1>8. ASSUME NEW t \in Slots, Adding(t)'
        PROVE  /\ \A r \in rows' : r.id # req'[t].id
               /\ \A u \in Slots : \A r \in req'[u].row : r.id # req'[t].id
               /\ \A u \in Slots : Adding(u)' /\ req'[u].id = req'[t].id => u = t
    <2>1. CASE t = s
      BY <1>b, <1>4, <1>6, <1>7, <1>8, <2>1, <1>t
    <2>2. CASE t # s
      <3>1. Adding(t) /\ req'[t] = req[t]
        BY <1>4, <1>8, <2>2
      <3>2. /\ \A r \in rows : r.id # req[t].id
            /\ \A u \in Slots : \A r \in req[u].row : r.id # req[t].id
            /\ \A u \in Slots : Adding(u) /\ req[u].id = req[t].id => u = t
        BY <3>1 DEF IInv, NumbersOK
      <3>3. \A u \in Slots : \A r \in req'[u].row : r.id # req'[t].id
        BY <1>1, <1>2, <3>1, <3>2
      <3>4. \A u \in Slots : Adding(u)' /\ req'[u].id = req'[t].id => u = t
        BY <1>t, <1>b, <1>4, <1>7, <2>2, <3>1, <3>2
      <3> QED
        BY <1>b, <3>1, <3>2, <3>3, <3>4
    <2> QED
      BY <2>1, <2>2
  <1>9. NumbersOK'
    <2>1. \A r \in rows' : r.id <= ops'
      BY <1>t, <1>b, <1>6, <1>7
    <2>2. \A t \in Slots : req'[t].id <= ops' /\ \A r \in req'[t].row : r.id <= ops'
      <3>1. \A t \in Slots : req'[t].row \subseteq Row
        BY <1>2 DEF Request
      <3> QED
        BY <1>t, <1>b, <1>7, <3>1 DEF Row
    <2> QED
      BY <1>8, <2>1, <2>2 DEF NumbersOK, Adding
  <1>10. UniqueName'
    BY <1>b DEF IInv, UniqueName, Live
  <1> QED
    BY <1>3, <1>5, <1>9, <1>10 DEF IInv, WellFormed

-----------------------------------------------------------------------------
LEMMA InitInv == Init => IInv
  <1> SUFFICES ASSUME Init PROVE IInv
    OBVIOUS
  <1>1. PICK n \in Name : req = [s \in Slots |-> Idle(n)]
    BY DEF Init
  <1>2. rows = {} /\ ops = 0 /\ \A s \in Slots : req[s] = Idle(n)
    BY <1>1 DEF Init
  <1>3. TypeOK
    <2>1. req \in [Slots -> Request]
      BY <1>1, IdleRequest
    <2>2. 0 \in 0 .. MaxOps /\ 0 \in 0 .. MaxFaults
      BY BoundAssumption
    <2> QED
      BY <2>1, <2>2, NoEntriesType DEF Init, TypeOK
  <1>4. \A s \in Slots : ~Adding(s) /\ req[s].id = 0 /\ req[s].row = {}
    BY <1>2 DEF Adding, Idle
  <1>5. AddingOK /\ NumbersOK
    BY <1>2, <1>4 DEF AddingOK, NumbersOK
  <1>6. UniqueName
    BY <1>2 DEF UniqueName, Live
  <1> QED
    BY <1>3, <1>5, <1>6 DEF IInv, WellFormed

LEMMA NextInv == IInv /\ [Next]_vars => IInv'
  <1> SUFFICES ASSUME IInv, [Next]_vars PROVE IInv'
    OBVIOUS
  <1>1. ASSUME NEW s \in Slots, Serve(s) \/ Fail(s) PROVE IInv'
    <2>1. Effect(s) /\ TypeOK' /\ UniqueName'
      BY <1>1, ServeEffect
    <2>2. AddingOK' /\ NumbersOK'
      BY <2>1, EffectNumbers DEF IInv
    <2> QED
      BY <2>1, <2>2 DEF IInv, WellFormed
  <1>2. CASE UNCHANGED vars
    BY <1>2 DEF vars, IInv, WellFormed, TypeOK, AddingOK, NumbersOK, UniqueName, Live, Adding
  <1> QED
    BY <1>1, <1>2, BeginInv DEF Next

LEMMA Invariance == Spec => []IInv
  BY InitInv, NextInv, PTL DEF Spec

(* Users, their two stores and the requests keep their types, whatever     *)
(* overlaps and whatever fails (users-adapter.repository.ts).              *)
THEOREM TypeCorrect == Spec => []TypeOK
  <1>1. IInv => TypeOK
    BY DEF IInv, WellFormed
  <1> QED
    BY Invariance, <1>1, PTL

(* A name has one live row at most under every interleaving, although an   *)
(* update writes the row back as it loaded it and can bring back one that  *)
(* was removed in between (users-pg.repository.ts).                        *)
THEOREM NamesStayUnique == Spec => []UniqueName
  <1>1. IInv => UniqueName
    BY DEF IInv
  <1> QED
    BY Invariance, <1>1, PTL
-----------------------------------------------------------------------------
(* One request at a time: what "Ok" means, and that the stores agree.      *)

RowIds == \A q, r \in rows : q.id = r.id => q = r

Alone == \A s, t \in Slots : ~At(s, "idle") /\ ~At(t, "idle") => s = t

OnFile(s) == req[s].pc \in {"file.check", "file.create", "file.read", "file.write"}

(* The database half of the operation is done.                             *)
RowReady(s) ==
  /\ req[s].kind = "remove" => Named(req[s].name) = {}
  /\ req[s].kind # "remove" =>
       /\ req[s].password # NoPassword
       /\ \E r \in Named(req[s].name) : r.password = req[s].password

Both(s) ==
  LET n == req[s].name  w == req[s].password
  IN  \/ req[s].kind = "remove" /\ Named(n) = {} /\ entries[n] = NoPassword
      \/ req[s].kind # "remove" /\ w = NoPassword
      \/ req[s].kind # "remove" /\ entries[n] = w /\ \E r \in Named(n) : r.password = w

(* What a handler may rely on after an await, alone.                       *)
Keeps(s) ==
  /\ req[s].pc \in {"add.look", "add.insert", "file.create"} => req[s].kind = "add"
  /\ req[s].pc \in {"find", "get", "row.delete"} => req[s].kind # "add"
  /\ req[s].pc \in {"find", "get", "row.find", "row.save", "row.delete"} =>
       \A r \in rows : r.id = req[s].id => r.name = req[s].name
  /\ req[s].pc \in {"get", "row.find", "row.save", "row.delete"} =>
       WithId(req[s].id) # {}
  /\ req[s].pc \in {"row.find", "row.save", "row.delete"} =>
       IF req[s].kind = "add" THEN req[s].password # NoPassword ELSE req[s].known
  /\ At(s, "row.save") => req[s].kind # "remove" /\ req[s].row = WithId(req[s].id)
  /\ At(s, "row.delete") => req[s].kind = "remove"
  /\ At(s, "file.check") => req[s].kind # "update"
  /\ At(s, "file.create") => ~fileExists
  /\ req[s].pc \in {"file.read", "file.write"} /\ req[s].kind # "update" => fileExists
  /\ At(s, "file.write") => req[s].copy = entries
  /\ OnFile(s) => RowReady(s)
  /\ At(s, "done") /\ req[s].out = "Ok" => Both(s)

Agrees(n) ==
  IF Named(n) = {} THEN entries[n] = NoPassword
  ELSE \A r \in Named(n) : entries[n] = r.password

(* Without faults only the name being written may disagree.                *)
Agreement ==
  faults = 0 =>
    /\ \A n \in Name : Agrees(n) \/ \E s \in Slots : OnFile(s) /\ req[s].name = n
    /\ \A s \in Slots : At(s, "file.read") => fileExists

AloneInv ==
  /\ RowIds
  /\ ~fileExists => entries = NoEntries
  /\ ~overlapped => Alone /\ Agreement /\ \A s \in Slots : Keeps(s)

-----------------------------------------------------------------------------
LEMMA GotoKeeps ==
  ASSUME req \in [Slots -> Request], NEW s \in Slots, NEW l, Goto(s, l)
  PROVE  /\ req'[s].pc = l /\ req'[s].kind = req[s].kind /\ req'[s].id = req[s].id
         /\ req'[s].name = req[s].name /\ req'[s].password = req[s].password
         /\ req'[s].row = req[s].row /\ req'[s].known = req[s].known
         /\ req'[s].copy = req[s].copy /\ req'[s].out = req[s].out
  BY DEF Goto, Request

LEMMA AnswerKeeps ==
  ASSUME req \in [Slots -> Request], NEW s \in Slots, NEW o, Answer(s, o)
  PROVE  /\ req'[s].pc = "done" /\ req'[s].kind = req[s].kind
         /\ req'[s].name = req[s].name /\ req'[s].password = req[s].password
         /\ req'[s].out = o
  BY DEF Answer, Request

LEMMA ProceedKeeps ==
  ASSUME req \in [Slots -> Request], NEW s \in Slots, Proceed(s)
  PROVE  /\ req'[s].pc = AfterRow(req[s]) /\ req'[s].kind = req[s].kind
         /\ req'[s].name = req[s].name /\ req'[s].password = req[s].password
  BY DEF Proceed, Request

(* An answer that promises nothing asks for nothing.                       *)
LEMMA OtherAnswer ==
  ASSUME req \in [Slots -> Request], NEW s \in Slots, NEW o, o # "Ok", Answer(s, o)
  PROVE  Keeps(s)'
  <1>1. req'[s].pc = "done" /\ req'[s].out = o
    BY AnswerKeeps
  <1> QED
    BY <1>1 DEF Keeps, At, OnFile

(* Rows are never two with one number.                                     *)
LEMMA NextRowIds ==
  ASSUME IInv, RowIds, NEW s \in Slots, Serve(s) \/ Fail(s) \/ Begin(s)
  PROVE  RowIds'
  <1>1. CASE rows' = rows
    BY <1>1 DEF RowIds
  <1>2. CASE AddInsert(s)
    <2> DEFINE r == [id |-> req[s].id, name |-> req[s].name, password |-> req[s].password,
                     live |-> TRUE]
    <2>1. \A x \in rows : x.id # r.id
      BY <1>2 DEF AddInsert, At, IInv, NumbersOK, Adding
    <2>2. rows' = rows \/ rows' = rows \cup {r}
      BY <1>2 DEF AddInsert
    <2> HIDE DEF r
    <2> QED
      BY <2>1, <2>2 DEF RowIds
  <1>3. CASE RowSave(s)
    <2>1. CASE \E r \in req[s].row : rows' = Saved(r, req[s].password)
      <3>1. PICK r \in req[s].row : rows' = Saved(r, req[s].password)
        BY <2>1
      <3>2. r \in Row
        BY DEF IInv, WellFormed, TypeOK, Request
      <3>3. PICK y \in Row : y.id = r.id /\ rows' = {x \in rows : x.id # r.id} \cup {y}
        BY <3>1, <3>2 DEF Saved, Row, IInv, WellFormed, TypeOK, Request, MaybePassword
      <3> QED
        BY <3>3 DEF RowIds
    <2> QED
      BY <1>1, <1>3, <2>1 DEF RowSave
  <1>4. CASE RowDelete(s)
    <2> DEFINE Deleted(r) == IF r.id = req[s].id THEN [r EXCEPT !.live = FALSE] ELSE r
    <2>1. rows' = {Deleted(r) : r \in rows}
      BY <1>4 DEF RowDelete
    <2>2. \A r \in rows : Deleted(r).id = r.id
      BY DEF IInv, WellFormed, TypeOK, Row
    <2> HIDE DEF Deleted
    <2> QED
      BY <2>1, <2>2 DEF RowIds
  <1> QED
    BY <1>1, <1>2, <1>3, <1>4
       DEF Serve, AddLook, Find, Get, RowFind, FileCheck, FileCreate, FileRead, FileWrite,
           Reply, Fail, Begin

(* No file, no entries.                                                    *)
LEMMA NextNoFile ==
  ASSUME ~fileExists => entries = NoEntries, NEW s \in Slots,
         Serve(s) \/ Fail(s) \/ Begin(s)
  PROVE  ~fileExists' => entries' = NoEntries
  BY DEF Serve, AddLook, AddInsert, Find, Get, RowFind, RowSave, RowDelete, FileCheck,
         FileCreate, FileRead, FileWrite, Reply, Fail, Begin, NoEntries

(* What the steps of the only request start from.                          *)
LEMMA AloneBasics ==
  ASSUME IInv, AloneInv, ~overlapped, NEW s \in Slots
  PROVE  /\ req \in [Slots -> Request] /\ req[s].name \in Name /\ rows \subseteq Row
         /\ entries \in Entries /\ UniqueName /\ RowIds /\ Keeps(s)
         /\ ~fileExists => entries = NoEntries
         /\ req[s].kind \in {"add", "update", "remove"} /\ req[s].known \in BOOLEAN
         /\ req[s].copy \in Entries
         /\ Adding(s) => req[s].password # NoPassword
  BY NoPasswordAssumption
     DEF IInv, WellFormed, TypeOK, AddingOK, AloneInv, Request

LEMMA LookKeeps ==
  ASSUME IInv, AloneInv, ~overlapped, NEW s \in Slots, AddLook(s) \/ Find(s) \/ Get(s)
  PROVE  Keeps(s)'
  <1>0. /\ req \in [Slots -> Request] /\ Keeps(s) /\ UNCHANGED <<rows, entries, fileExists>>
        /\ Adding(s) => req[s].password # NoPassword
        /\ RowIds
    BY AloneBasics DEF AddLook, Find, Get
  <1>w. \A i : WithId(i)' = WithId(i)
    BY <1>0 DEF WithId, Live
  <1>1. CASE \E o : o # "Ok" /\ Answer(s, o)
    BY <1>0, <1>1, OtherAnswer
  <1>2. CASE AddLook(s) /\ Goto(s, "add.insert")
    <2>1. req'[s].pc = "add.insert" /\ req'[s].kind = "add"
      BY <1>0, <1>2, GotoKeeps DEF AddLook, At, Keeps
    <2> QED
      BY <2>1 DEF Keeps, At, OnFile
  <1>3. ASSUME AddLook(s), NEW r \in Named(req[s].name),
               req' = [req EXCEPT ![s].pc = "row.find", ![s].id = r.id]
        PROVE  Keeps(s)'
    <2>1. /\ req'[s].pc = "row.find" /\ req'[s].kind = "add" /\ req'[s].id = r.id
          /\ req'[s].name = req[s].name /\ req'[s].password = req[s].password
          /\ req[s].password # NoPassword
      BY <1>0, <1>3 DEF AddLook, At, Keeps, Adding, Request
    <2>2. r \in WithId(r.id) /\ r \in rows /\ r.name = req[s].name
      BY DEF Named, WithId, Live
    <2>3. \A q \in rows : q.id = r.id => q.name = req[s].name
      BY <1>0, <2>2 DEF RowIds
    <2>4. WithId(r.id)' # {}
      BY <1>w, <2>2
    <2> QED
      BY <1>0, <2>1, <2>3, <2>4 DEF Keeps, At, OnFile
  <1>4. CASE Find(s) /\ Goto(s, "get") /\ WithId(req[s].id) # {}
    <2>1. /\ req'[s].pc = "get" /\ req'[s].kind = req[s].kind /\ req'[s].id = req[s].id
          /\ req'[s].name = req[s].name /\ req[s].pc = "find"
      BY <1>0, <1>4, GotoKeeps DEF Find, At
    <2>2. WithId(req[s].id)' # {}
      BY <1>0, <1>4, <2>1 DEF WithId, Live
    <2> QED
      BY <1>0, <2>1, <2>2, <1>w, <1>4 DEF Keeps, At, OnFile
  <1>5. CASE Get(s)
    <2>1. /\ req'[s].pc = "row.find" /\ req'[s].kind = req[s].kind /\ req'[s].id = req[s].id
          /\ req'[s].name = req[s].name /\ req[s].pc = "get"
          /\ req'[s].known = (WithId(req[s].id) # {})
      BY <1>0, <1>5 DEF Get, At, Request
    <2>2. WithId(req[s].id) # {} /\ req[s].kind # "add"
      BY <1>0, <2>1 DEF Keeps
    <2> QED
      BY <1>0, <1>w, <2>1, <2>2 DEF Keeps, At, OnFile
  <1> QED
    BY <1>1, <1>2, <1>3, <1>4, <1>5 DEF AddLook, Find

(* The row of an addition or a change is in the table with the password    *)
(* given, that of a removal is not.                                        *)
LEMMA ProceedReady ==
  ASSUME req \in [Slots -> Request], NEW s \in Slots, Proceed(s),
         req[s].kind = "add" \/ req[s].known = TRUE,
         req[s].kind = "remove" => Named(req[s].name)' = {},
         req[s].kind # "remove" /\ req[s].password # NoPassword =>
           \E r \in Named(req[s].name)' : r.password = req[s].password,
         req[s].kind = "add" => req[s].password # NoPassword,
         req[s].kind \in {"add", "update", "remove"}
  PROVE  Keeps(s)'
  <1>1. /\ req'[s].pc = AfterRow(req[s]) /\ req'[s].kind = req[s].kind
        /\ req'[s].name = req[s].name /\ req'[s].password = req[s].password
    BY ProceedKeeps
  <1>2. CASE req[s].kind # "update"
    <2>1. req'[s].pc = "file.check"
      BY <1>1, <1>2 DEF AfterRow
    <2>2. RowReady(s)'
      BY <1>1, <1>2 DEF RowReady, Named
    <2> QED
      BY <1>1, <1>2, <2>1, <2>2 DEF Keeps, At, OnFile
  <1>3. CASE req[s].kind = "update" /\ req[s].password # NoPassword
    <2>1. req'[s].pc = "file.read"
      BY <1>1, <1>3 DEF AfterRow
    <2>2. RowReady(s)'
      BY <1>1, <1>3 DEF RowReady, Named
    <2> QED
      BY <1>1, <1>3, <2>1, <2>2 DEF Keeps, At, OnFile
  <1>4. CASE req[s].kind = "update" /\ req[s].password = NoPassword
    <2>1. req'[s].pc = "done"
      BY <1>1, <1>4 DEF AfterRow
    <2>2. Both(s)'
      BY <1>1, <1>4 DEF Both
    <2> QED
      BY <2>1, <2>2 DEF Keeps, At, OnFile
  <1> QED
    BY <1>2, <1>3, <1>4

LEMMA InsertKeeps ==
  ASSUME IInv, AloneInv, ~overlapped, NEW s \in Slots, AddInsert(s)
  PROVE  Keeps(s)'
  <1>0. /\ req \in [Slots -> Request] /\ Keeps(s) /\ req[s].pc = "add.insert"
        /\ req[s].password # NoPassword /\ req[s].kind = "add"
    BY AloneBasics DEF AddInsert, At, Adding, Keeps
  <1>1. CASE Answer(s, "Exist")
    BY <1>0, <1>1, OtherAnswer
  <1>2. ASSUME NEW r, r.name = req[s].name, r.password = req[s].password, r.live = TRUE,
               rows' = rows \cup {r}, Goto(s, "file.check")
        PROVE  Keeps(s)'
    <2>1. /\ req'[s].pc = "file.check" /\ req'[s].kind = "add"
          /\ req'[s].name = req[s].name /\ req'[s].password = req[s].password
      BY <1>0, <1>2, GotoKeeps
    <2>2. r \in Named(req[s].name)'
      BY <1>2, <2>1 DEF Named, Live
    <2>3. RowReady(s)'
      BY <1>0, <1>2, <2>1, <2>2 DEF RowReady, Named
    <2> QED
      BY <2>1, <2>3 DEF Keeps, At, OnFile
  <1> QED
    BY <1>1, <1>2 DEF AddInsert

LEMMA RowKeeps ==
  ASSUME IInv, AloneInv, ~overlapped, NEW s \in Slots,
         RowFind(s) \/ RowSave(s) \/ RowDelete(s)
  PROVE  Keeps(s)'
  <1>0. /\ req \in [Slots -> Request] /\ Keeps(s) /\ rows \subseteq Row
        /\ req[s].kind \in {"add", "update", "remove"}
        /\ UniqueName /\ RowIds
        /\ \A r \in rows : r.id = req[s].id => r.name = req[s].name
        /\ IF req[s].kind = "add" THEN req[s].password # NoPassword ELSE req[s].known
        /\ req[s].known \in BOOLEAN
    BY AloneBasics DEF RowFind, RowSave, RowDelete, At, Keeps
  <1>1. CASE RowFind(s)
    <2>1. /\ WithId(req[s].id) # {} /\ UNCHANGED <<rows, entries, fileExists>>
          /\ req' = [req EXCEPT ![s].row = WithId(req[s].id),
                                ![s].pc = IF req[s].kind = "remove" THEN "row.delete"
                                          ELSE "row.save"]
      BY <1>0, <1>1 DEF RowFind, At, Keeps
    <2>2. /\ req'[s].pc = (IF req[s].kind = "remove" THEN "row.delete" ELSE "row.save")
          /\ req'[s].row = WithId(req[s].id)
          /\ req'[s].kind = req[s].kind /\ req'[s].id = req[s].id
          /\ req'[s].name = req[s].name /\ req'[s].password = req[s].password
          /\ req'[s].known = req[s].known
      BY <1>0, <2>1 DEF Request
    <2>3. WithId(req[s].id)' = WithId(req[s].id)
      BY <2>1, <2>2 DEF WithId, Live
    <2> QED
      BY <1>0, <2>1, <2>2, <2>3 DEF Keeps, At, OnFile
  <1>2. CASE RowSave(s)
    <2>1. req[s].kind # "remove" /\ req[s].row = WithId(req[s].id)
      BY <1>0, <1>2 DEF RowSave, At, Keeps
    <2>2. CASE Answer(s, "Exist")
      BY <1>0, <2>2, OtherAnswer
    <2>3. ASSUME NEW r \in req[s].row, rows' = Saved(r, req[s].password), Proceed(s)
          PROVE  Keeps(s)'
      <3>1. r \in Row /\ r.live /\ r.name = req[s].name
        BY <1>0, <2>1, <2>3 DEF WithId, Live
      <3>2. req[s].password # NoPassword =>
              \E x \in Named(req[s].name)' : x.password = req[s].password
        <4> DEFINE x == [r EXCEPT !.password =
                           IF req[s].password = NoPassword THEN @ ELSE req[s].password]
        <4>1. /\ x.name = req[s].name /\ x.live
              /\ req[s].password # NoPassword => x.password = req[s].password
          BY <3>1 DEF Row
        <4>2. x \in rows'
          BY <2>3 DEF Saved
        <4> HIDE DEF x
        <4>3. req'[s].name = req[s].name
          BY <1>0, <2>3, ProceedKeeps
        <4> QED
          BY <4>1, <4>2, <4>3 DEF Named, Live
      <3> QED
        BY <1>0, <2>1, <2>3, <3>2, ProceedReady
    <2> QED
      BY <1>2, <2>2, <2>3 DEF RowSave
  <1>3. CASE RowDelete(s)
    <2> DEFINE Deleted(r) == IF r.id = req[s].id THEN [r EXCEPT !.live = FALSE] ELSE r
    <2>1. /\ rows' = {Deleted(r) : r \in rows} /\ Proceed(s) /\ req[s].kind = "remove"
      BY <1>0, <1>3 DEF RowDelete, At, Keeps
    <2>2. \A r \in rows : /\ Deleted(r).name = r.name
                          /\ Deleted(r).live => r.live /\ r.id # req[s].id
      BY <1>0 DEF Row
    <2> HIDE DEF Deleted
    <2>3. Named(req[s].name)' = {}
      <3>1. req'[s].name = req[s].name
        BY <1>0, <2>1, ProceedKeeps
      <3>2. \A r \in rows : r.live /\ r.name = req[s].name => r.id = req[s].id
        <4>1. PICK x \in rows : x.live /\ x.id = req[s].id
          BY <1>0, <1>3 DEF RowDelete, At, Keeps, WithId, Live
        <4> QED
          BY <1>0, <4>1 DEF UniqueName, Live
      <3> QED
        BY <2>1, <2>2, <3>1, <3>2 DEF Named, Live
    <2> QED
      BY <1>0, <2>1, <2>3, ProceedReady
  <1> QED
    BY <1>1, <1>2, <1>3

LEMMA FileKeeps ==
  ASSUME IInv, AloneInv, ~overlapped, NEW s \in Slots,
         FileCheck(s) \/ FileCreate(s) \/ FileRead(s) \/ FileWrite(s)
  PROVE  Keeps(s)'
  <1>0. /\ req \in [Slots -> Request] /\ Keeps(s) /\ rows' = rows
        /\ req[s].name \in Name /\ entries \in Entries /\ RowReady(s)
        /\ ~fileExists => entries = NoEntries
        /\ req[s].kind \in {"add", "update", "remove"}
    BY AloneBasics DEF FileCheck, FileCreate, FileRead, FileWrite, At, Keeps, OnFile
  <1>n. \A n : Named(n)' = Named(n)
    BY <1>0 DEF Named, Live
  <1>r. ASSUME req'[s].kind = req[s].kind, req'[s].name = req[s].name,
               req'[s].password = req[s].password
        PROVE  RowReady(s)'
    BY <1>0, <1>r DEF RowReady, Named, Live
  <1>1. CASE FileCheck(s)
    <2>1. req[s].kind # "update" /\ UNCHANGED <<entries, fileExists>>
      BY <1>0, <1>1 DEF FileCheck, At, Keeps
    <2>2. CASE Goto(s, "file.read") /\ fileExists
      <3>1. /\ req'[s].pc = "file.read" /\ req'[s].kind = req[s].kind
            /\ req'[s].name = req[s].name /\ req'[s].password = req[s].password
        BY <1>0, <2>2, GotoKeeps
      <3> QED
        BY <1>r, <2>1, <2>2, <3>1 DEF Keeps, At, OnFile
    <2>3. CASE Goto(s, "file.create") /\ ~fileExists /\ req[s].kind = "add"
      <3>1. /\ req'[s].pc = "file.create" /\ req'[s].kind = req[s].kind
            /\ req'[s].name = req[s].name /\ req'[s].password = req[s].password
        BY <1>0, <2>3, GotoKeeps
      <3> QED
        BY <1>r, <2>1, <2>3, <3>1 DEF Keeps, At, OnFile
    <2>4. CASE Answer(s, "Ok") /\ ~fileExists /\ req[s].kind # "add"
      <3>1. /\ req'[s].pc = "done" /\ req'[s].kind = "remove"
            /\ req'[s].name = req[s].name
        BY <1>0, <2>1, <2>4, AnswerKeeps
      <3>2. Named(req[s].name) = {} /\ entries[req[s].name] = NoPassword
        BY <1>0, <2>1, <2>4 DEF RowReady, NoEntries
      <3>3. Both(s)'
        BY <1>0, <2>1, <3>1, <3>2 DEF Both, Named, Live
      <3> QED
        BY <3>1, <3>3 DEF Keeps, At, OnFile
    <2> QED
      BY <1>1, <2>2, <2>3, <2>4 DEF FileCheck
  <1>2. CASE FileCreate(s)
    <2>1. /\ req'[s].pc = "file.read" /\ req'[s].kind = req[s].kind
          /\ req'[s].name = req[s].name /\ req'[s].password = req[s].password
          /\ fileExists'
      BY <1>0, <1>2, GotoKeeps DEF FileCreate
    <2> QED
      BY <1>r, <2>1 DEF Keeps, At, OnFile
  <1>3. CASE FileRead(s)
    <2>0. UNCHANGED <<entries, fileExists>>
      BY <1>3 DEF FileRead
    <2>1. CASE Answer(s, "Repository")
      BY <1>0, <2>1, OtherAnswer
    <2>2. CASE Answer(s, "Ok") /\ req[s].kind = "remove" /\ entries[req[s].name] = NoPassword
      <3>1. /\ req'[s].pc = "done" /\ req'[s].kind = "remove"
            /\ req'[s].name = req[s].name
        BY <1>0, <2>2, AnswerKeeps
      <3>2. Both(s)'
        BY <1>0, <2>0, <2>2, <3>1 DEF Both, RowReady, Named, Live
      <3> QED
        BY <3>1, <3>2 DEF Keeps, At, OnFile
    <2>3. CASE fileExists /\ req' = [req EXCEPT ![s].pc = "file.write", ![s].copy = entries]
      <3>1. /\ req'[s].pc = "file.write" /\ req'[s].kind = req[s].kind
            /\ req'[s].name = req[s].name /\ req'[s].password = req[s].password
            /\ req'[s].copy = entries
        BY <1>0, <2>3 DEF Request
      <3> QED
        BY <1>r, <2>0, <2>3, <3>1 DEF Keeps, At, OnFile
    <2> QED
      BY <1>3, <2>1, <2>2, <2>3 DEF FileRead
  <1>4. CASE FileWrite(s)
    <2>1. /\ req'[s].pc = "done" /\ req'[s].kind = req[s].kind
          /\ req'[s].name = req[s].name /\ req'[s].password = req[s].password
      BY <1>0, <1>4, AnswerKeeps DEF FileWrite
    <2>2. entries'[req[s].name] =
            IF req[s].kind = "remove" THEN NoPassword ELSE req[s].password
      BY <1>4, AloneBasics DEF FileWrite, Entries
    <2>3. Both(s)'
      BY <1>0, <2>1, <2>2 DEF Both, RowReady, Named, Live
    <2> QED
      BY <2>1, <2>3 DEF Keeps, At, OnFile
  <1> QED
    BY <1>1, <1>2, <1>3, <1>4

LEMMA BeginKeeps ==
  ASSUME IInv, RowIds, NEW s \in Slots, Begin(s)
  PROVE  Keeps(s)'
  <1>0. req \in [Slots -> Request] /\ rows' = rows
    BY DEF Begin, IInv, WellFormed, TypeOK
  <1>1. ASSUME NEW n, NEW w,
               req' = [req EXCEPT ![s] = [Idle(n) EXCEPT
                 !.pc = "add.look", !.kind = "add", !.id = ops + 1, !.password = w]]
        PROVE  Keeps(s)'
    <2>1. req'[s].pc = "add.look" /\ req'[s].kind = "add"
      BY <1>0, <1>1 DEF Idle
    <2> QED
      BY <2>1 DEF Keeps, At, OnFile
  <1>2. ASSUME NEW r \in rows, req'[s].pc = "find", req'[s].kind # "add",
               req'[s].id = r.id, req'[s].name = r.name
        PROVE  Keeps(s)'
    BY <1>0, <1>2 DEF Keeps, At, OnFile, RowIds
  <1>3. ASSUME NEW r \in rows, NEW w,
               req' = [req EXCEPT ![s] = [Idle(r.name) EXCEPT
                 !.pc = "find", !.kind = "update", !.id = r.id, !.password = w]]
        PROVE  Keeps(s)'
    <2>1. /\ req'[s].pc = "find" /\ req'[s].kind # "add" /\ req'[s].id = r.id
          /\ req'[s].name = r.name
      BY <1>0, <1>3 DEF Idle
    <2> QED
      BY <1>2, <2>1
  <1>4. ASSUME NEW r \in rows,
               req' = [req EXCEPT ![s] = [Idle(r.name) EXCEPT !.pc = "find", !.id = r.id]]
        PROVE  Keeps(s)'
    <2>1. /\ req'[s].pc = "find" /\ req'[s].kind # "add" /\ req'[s].id = r.id
          /\ req'[s].name = r.name
      BY <1>0, <1>4 DEF Idle
    <2> QED
      BY <1>2, <2>1
  <1> QED
    BY <1>1, <1>3, <1>4 DEF Begin

(* Nobody else is there, before or after.                                  *)
LEMMA OthersIdle ==
  ASSUME req \in [Slots -> Request], ~overlapped', ~overlapped => Alone, NEW s \in Slots,
         Begin(s) \/ Serve(s) \/ Fail(s)
  PROVE  /\ ~overlapped
         /\ \A t \in Slots \ {s} : At(t, "idle") /\ req'[t] = req[t]
         /\ Begin(s) => \A t \in Slots : At(t, "idle")
         /\ Alone'
  <1>1. \A t \in Slots \ {s} : req'[t] = req[t]
    BY DEF Begin, Serve, AddLook, AddInsert, Find, Get, RowFind, RowSave, RowDelete,
           FileCheck, FileCreate, FileRead, FileWrite, Reply, Fail, Goto, Answer, Proceed
  <1>2. CASE Begin(s)
    <2>1. ~overlapped /\ \A t \in Slots : At(t, "idle")
      BY <1>2 DEF Begin
    <2> QED
      BY <1>1, <2>1 DEF Alone, At
  <1>3. CASE Serve(s) \/ Fail(s)
    <2>1. overlapped' = overlapped /\ ~At(s, "idle")
      BY <1>3
         DEF Serve, AddLook, AddInsert, Find, Get, RowFind, RowSave, RowDelete, FileCheck,
             FileCreate, FileRead, FileWrite, Reply, Fail, At
    <2>2. \A t \in Slots \ {s} : At(t, "idle")
      BY <2>1 DEF Alone
    <2>3. ~Begin(s)
      BY <2>1 DEF Begin
    <2> QED
      BY <1>1, <2>1, <2>2, <2>3 DEF Alone, At
  <1> QED
    BY <1>2, <1>3

LEMMA StepKeeps ==
  ASSUME IInv, AloneInv, ~overlapped', NEW s \in Slots, Begin(s) \/ Serve(s) \/ Fail(s)
  PROVE  Alone' /\ \A t \in Slots : Keeps(t)'
  <1>1. req \in [Slots -> Request]
    BY DEF IInv, WellFormed, TypeOK
  <1>2. /\ ~overlapped /\ Alone'
        /\ \A t \in Slots \ {s} : At(t, "idle") /\ req'[t] = req[t]
    BY <1>1, OthersIdle DEF AloneInv
  <1>3. CASE Reply(s)
    <2>1. req'[s].pc = "idle"
      BY <1>1, <1>3 DEF Reply, Idle
    <2> QED
      BY <1>2, <2>1 DEF Keeps, At, OnFile
  <1>4. CASE Fail(s)
    <2>1. Keeps(s)'
      BY <1>1, <1>4, OtherAnswer DEF Fail
    <2> QED
      BY <1>2, <2>1 DEF Keeps, At, OnFile
  <1>5. CASE Begin(s) \/ (Serve(s) /\ ~Reply(s))
    <2>1. Keeps(s)'
      BY <1>2, <1>5, LookKeeps, InsertKeeps, RowKeeps, FileKeeps, BeginKeeps
         DEF Serve, AloneInv
    <2>2. \A t \in Slots \ {s} : Keeps(t)'
      BY <1>2 DEF Keeps, At, OnFile
    <2> QED
      BY <1>2, <2>1, <2>2
  <1> QED
    BY <1>3, <1>4, <1>5

-----------------------------------------------------------------------------
(* The stores agree.                                                       *)

(* Alone, only the request itself can be the one that is writing.          *)
AgreesBut(s) ==
  /\ \A n \in Name : Agrees(n) \/ (OnFile(s) /\ req[s].name = n)
  /\ At(s, "file.read") => fileExists

LEMMA ButIsAgreement ==
  ASSUME NEW s \in Slots, \A t \in Slots \ {s} : At(t, "idle")
  PROVE  Agreement <=> (faults = 0 => AgreesBut(s))
  BY DEF Agreement, AgreesBut, OnFile, At

(* Steps that leave the stores alone, off the file.                        *)
LEMMA QuietAgrees ==
  ASSUME NEW s \in Slots, AgreesBut(s), UNCHANGED <<rows, entries, fileExists>>,
         ~OnFile(s), ~OnFile(s)'
  PROVE  AgreesBut(s)'
  <1>1. \A n : Named(n)' = Named(n)
    BY DEF Named, Live
  <1>2. \A n : Agrees(n) => Agrees(n)'
    BY <1>1 DEF Agrees
  <1> QED
    BY <1>2 DEF AgreesBut, OnFile, At

(* Steps that change the row of the name only and go on with the file.     *)
LEMMA RowAgrees ==
  ASSUME NEW s \in Slots, AgreesBut(s), UNCHANGED <<entries, fileExists>>,
         req'[s].name = req[s].name, req[s].name \in Name,
         \A n \in Name : n # req[s].name => Named(n)' = Named(n),
         \/ OnFile(s)' /\ (At(s, "file.read")' => fileExists)
         \/ ~OnFile(s)' /\ ~OnFile(s) /\ Named(req[s].name)' = Named(req[s].name)
  PROVE  AgreesBut(s)'
  <1>1. \A n \in Name : n # req[s].name => Agrees(n)'
    BY DEF Agrees, AgreesBut
  <1>2. Agrees(req[s].name)' \/ OnFile(s)'
    BY DEF Agrees, AgreesBut
  <1> QED
    BY <1>1, <1>2 DEF AgreesBut, At, OnFile

LEMMA RowStepAgrees ==
  ASSUME IInv, AloneInv, ~overlapped, NEW s \in Slots, AgreesBut(s),
         AddInsert(s) \/ RowSave(s) \/ RowDelete(s)
  PROVE  AgreesBut(s)'
  <1>0. /\ req \in [Slots -> Request] /\ Keeps(s) /\ rows \subseteq Row
        /\ req[s].name \in Name /\ UNCHANGED <<entries, fileExists>>
        /\ ~OnFile(s) /\ RowIds
        /\ ~fileExists => entries = NoEntries
        /\ req[s].kind \in {"add", "update", "remove"}
    BY AloneBasics DEF AddInsert, RowSave, RowDelete, At, OnFile
  <1>1. CASE UNCHANGED rows /\ \E o : Answer(s, o)
    <2>1. req'[s].pc = "done"
      BY <1>0, <1>1, AnswerKeeps
    <2> QED
      BY <1>0, <1>1, <2>1, QuietAgrees DEF OnFile
  <1>2. ASSUME NEW r, r.name = req[s].name, rows' = rows \cup {r}, Goto(s, "file.check")
        PROVE  AgreesBut(s)'
    <2>1. req'[s].pc = "file.check" /\ req'[s].name = req[s].name
      BY <1>0, <1>2, GotoKeeps
    <2>2. \A n \in Name : n # req[s].name => Named(n)' = Named(n)
      BY <1>2 DEF Named, Live
    <2> QED
      BY <1>0, <2>1, <2>2, RowAgrees DEF OnFile, At
  <1>3. ASSUME RowSave(s), NEW r \in req[s].row, rows' = Saved(r, req[s].password), Proceed(s)
        PROVE  AgreesBut(s)'
    <2>1. /\ r \in rows /\ r.live /\ r.name = req[s].name /\ req[s].kind # "remove"
          /\ req[s].kind = "add" \/ req[s].known
          /\ req[s].kind = "add" => req[s].password # NoPassword
      BY <1>0, <1>3 DEF RowSave, At, Keeps, WithId, Live
    <2> DEFINE x == [r EXCEPT !.password =
                       IF req[s].password = NoPassword THEN @ ELSE req[s].password]
    <2>2. /\ x.name = req[s].name /\ x.live = r.live
          /\ req[s].password = NoPassword => x = r
      BY <1>0, <2>1 DEF Row
    <2>3. rows' = {q \in rows : q.id # r.id} \cup {x}
      BY <1>3 DEF Saved
    <2> HIDE DEF x
    <2>4. /\ req'[s].pc = AfterRow(req[s]) /\ req'[s].name = req[s].name
      BY <1>0, <1>3, ProceedKeeps
    <2>5. \A n \in Name : n # req[s].name => Named(n)' = Named(n)
      <3>1. \A q \in rows : q.id = r.id => q = r
        BY <1>0, <2>1 DEF RowIds
      <3>2. \A q : q \in rows /\ q.name # req[s].name <=> q \in rows' /\ q.name # req[s].name
        BY <2>1, <2>2, <2>3, <3>1
      <3> QED
        BY <3>2 DEF Named, Live
    <2>6. CASE req[s].password = NoPassword
      <3>1. rows' = rows
        BY <1>0, <2>1, <2>2, <2>3, <2>6 DEF RowIds
      <3>2. req'[s].pc = "done"
        BY <2>1, <2>4, <2>6, <1>0 DEF AfterRow
      <3> QED
        BY <1>0, <3>1, <3>2, QuietAgrees DEF OnFile
    <2>7. CASE req[s].password # NoPassword
      <3>1. req'[s].pc \in {"file.check", "file.read"}
        BY <1>0, <2>1, <2>4, <2>7 DEF AfterRow
      <3>2. fileExists
        <4>1. r \in Named(req[s].name) /\ r.password \in Password
          BY <1>0, <2>1 DEF Named, Live, Row
        <4>2. entries[req[s].name] = r.password
          BY <1>0, <4>1 DEF AgreesBut, Agrees
        <4> QED
          BY <1>0, <4>1, <4>2, NoPasswordAssumption DEF NoEntries
      <3> QED
        BY <1>0, <2>4, <2>5, <3>1, <3>2, RowAgrees DEF OnFile, At
    <2> QED
      BY <2>6, <2>7
  <1>4. CASE RowDelete(s)
    <2> DEFINE Deleted(r) == IF r.id = req[s].id THEN [r EXCEPT !.live = FALSE] ELSE r
    <2>1. /\ rows' = {Deleted(r) : r \in rows} /\ Proceed(s) /\ req[s].kind = "remove"
          /\ req[s].known
          /\ \A r \in rows : r.id = req[s].id => r.name = req[s].name
      BY <1>0, <1>4 DEF RowDelete, At, Keeps
    <2>2. \A r \in rows : /\ Deleted(r).name = r.name
                          /\ r.name # req[s].name => Deleted(r) = r
      BY <1>0, <2>1 DEF Row
    <2> HIDE DEF Deleted
    <2>3. req'[s].pc = "file.check" /\ req'[s].name = req[s].name
      BY <1>0, <2>1, ProceedKeeps DEF AfterRow
    <2>4. \A n \in Name : n # req[s].name => Named(n)' = Named(n)
      <3>1. \A q : q \in rows /\ q.name # req[s].name <=> q \in rows' /\ q.name # req[s].name
        BY <2>1, <2>2
      <3> QED
        BY <3>1 DEF Named, Live
    <2> QED
      BY <1>0, <2>3, <2>4, RowAgrees DEF OnFile, At
  <1> QED
    BY <1>1, <1>2, <1>3, <1>4 DEF AddInsert, RowSave

LEMMA FileStepAgrees ==
  ASSUME IInv, AloneInv, ~overlapped, NEW s \in Slots, AgreesBut(s),
         FileCheck(s) \/ FileCreate(s) \/ FileRead(s) \/ FileWrite(s)
  PROVE  AgreesBut(s)'
  <1>0. /\ req \in [Slots -> Request] /\ Keeps(s) /\ Keeps(s)' /\ rows' = rows
        /\ req[s].name \in Name /\ entries \in Entries /\ RowReady(s) /\ OnFile(s)
        /\ ~fileExists => entries = NoEntries
        /\ UniqueName
    BY AloneBasics, FileKeeps
       DEF FileCheck, FileCreate, FileRead, FileWrite, At, Keeps, OnFile
  <1>n. \A n : Named(n)' = Named(n)
    BY <1>0 DEF Named, Live
  (* The operation ends well: the name agrees again.                       *)
  <1>b. ASSUME Answer(s, "Ok"),
               \A n \in Name : n # req[s].name => entries'[n] = entries[n]
        PROVE  AgreesBut(s)'
    <2>1. /\ req'[s].pc = "done" /\ req'[s].out = "Ok" /\ req'[s].name = req[s].name
          /\ req'[s].kind = req[s].kind /\ req'[s].password = req[s].password
      BY <1>0, <1>b, AnswerKeeps
    <2>2. Both(s)'
      BY <1>0, <2>1 DEF Keeps, At
    <2>3. Agrees(req[s].name)'
      <3>1. CASE Named(req[s].name) = {}
        <4>1. req[s].kind = "remove"
          BY <1>0, <3>1 DEF RowReady
        <4>2. entries'[req[s].name] = NoPassword
          BY <2>1, <2>2, <4>1 DEF Both
        <4> QED
          BY <1>n, <2>1, <3>1, <4>2 DEF Agrees, Named, Live
      <3>2. CASE Named(req[s].name) # {}
        <4>1. req[s].kind # "remove" /\ req[s].password # NoPassword
          BY <1>0, <3>2 DEF RowReady
        <4>2. entries'[req[s].name] = req[s].password
          BY <2>1, <2>2, <4>1 DEF Both
        <4>3. \A r \in Named(req[s].name) : r.password = req[s].password
          BY <1>0, <4>1 DEF RowReady, UniqueName, Named
        <4> QED
          BY <1>0, <2>1, <3>2, <4>2, <4>3 DEF Agrees, Named, Live
      <3> QED
        BY <3>1, <3>2
    <2>4. \A n \in Name : n # req[s].name => Agrees(n)'
      BY <1>n, <1>b DEF AgreesBut, Agrees
    <2> QED
      BY <2>1, <2>3, <2>4 DEF AgreesBut, At
  (* It goes on.                                                           *)
  <1>g. ASSUME OnFile(s)', req'[s].name = req[s].name, entries' = entries,
               At(s, "file.read")' => fileExists'
        PROVE  AgreesBut(s)'
    <2>1. \A n \in Name : n # req[s].name => Agrees(n)'
      BY <1>n, <1>g DEF AgreesBut, Agrees
    <2> QED
      BY <1>g, <2>1 DEF AgreesBut, At, OnFile
  <1>1. CASE FileCheck(s)
    <2>1. UNCHANGED <<entries, fileExists>>
      BY <1>1 DEF FileCheck
    <2>2. CASE Goto(s, "file.read") /\ fileExists
      BY <1>0, <1>g, <2>1, <2>2, GotoKeeps DEF OnFile, At
    <2>3. CASE Goto(s, "file.create")
      BY <1>0, <1>g, <2>1, <2>3, GotoKeeps DEF OnFile, At
    <2> QED
      BY <1>1, <1>b, <2>1, <2>2, <2>3 DEF FileCheck
  <1>2. CASE FileCreate(s)
    <2>1. fileExists' /\ entries' = entries
      BY <1>0, <1>2 DEF FileCreate, Keeps
    <2>2. req'[s].pc = "file.read" /\ req'[s].name = req[s].name
      BY <1>0, <1>2, GotoKeeps DEF FileCreate
    <2> QED
      BY <1>g, <2>1, <2>2 DEF OnFile, At
  <1>3. CASE FileRead(s)
    <2>1. UNCHANGED <<entries, fileExists>> /\ fileExists
      BY <1>3 DEF FileRead, AgreesBut
    <2>2. CASE req' = [req EXCEPT ![s].pc = "file.write", ![s].copy = entries]
      <3>1. req'[s].pc = "file.write" /\ req'[s].name = req[s].name
        BY <1>0, <2>2 DEF Request
      <3> QED
        BY <1>g, <2>1, <3>1 DEF OnFile, At
    <2> QED
      BY <1>3, <1>b, <2>1, <2>2 DEF FileRead
  <1>4. CASE FileWrite(s)
    <2>1. \A n \in Name : n # req[s].name => entries'[n] = entries[n]
      BY <1>0, <1>4 DEF FileWrite, Keeps, Entries
    <2> QED
      BY <1>4, <1>b, <2>1 DEF FileWrite
  <1> QED
    BY <1>1, <1>2, <1>3, <1>4

LEMMA StepAgrees ==
  ASSUME IInv, AloneInv, ~overlapped', NEW s \in Slots, Begin(s) \/ Serve(s) \/ Fail(s)
  PROVE  Agreement'
  <1>1. req \in [Slots -> Request] /\ faults \in Nat
    BY BoundAssumption DEF IInv, WellFormed, TypeOK
  <1>2. /\ ~overlapped
        /\ \A t \in Slots \ {s} : At(t, "idle") /\ req'[t] = req[t]
        /\ Begin(s) => \A t \in Slots : At(t, "idle")
    BY <1>1, OthersIdle DEF AloneInv
  <1>3. (faults = 0 => AgreesBut(s)) /\ (Agreement' <=> (faults' = 0 => AgreesBut(s)'))
    <2>1. Agreement <=> (faults = 0 => AgreesBut(s))
      BY <1>2, ButIsAgreement
    <2>2. \A t \in Slots \ {s} : At(t, "idle")'
      BY <1>2 DEF At
    <2>3. Agreement' <=> (faults' = 0 => AgreesBut(s)')
      BY <2>2, ButIsAgreement DEF Agreement, AgreesBut, OnFile, At, Agrees
    <2> QED
      BY <1>2, <2>1, <2>3 DEF AloneInv
  <1>4. CASE Fail(s)
    <2>1. faults' # 0
      BY <1>1, <1>4 DEF Fail
    <2> QED
      BY <1>3, <2>1
  <1> SUFFICES ASSUME faults' = 0, ~Fail(s) PROVE AgreesBut(s)'
    BY <1>3, <1>4
  <1>5. AgreesBut(s)
    BY <1>3
       DEF Begin, Serve, AddLook, AddInsert, Find, Get, RowFind, RowSave, RowDelete,
           FileCheck, FileCreate, FileRead, FileWrite, Reply
  <1>6. CASE \/ Begin(s) \/ AddLook(s) \/ Find(s) \/ Get(s) \/ RowFind(s) \/ Reply(s)
    <2>1. UNCHANGED <<rows, entries, fileExists>> /\ ~OnFile(s)
      BY <1>6 DEF Begin, AddLook, Find, Get, RowFind, Reply, OnFile, At
    <2>2. ~OnFile(s)'
      <3>1. CASE AddLook(s) \/ Find(s) \/ Get(s) \/ RowFind(s)
        <4>1. CASE RowFind(s)
          <5>1. WithId(req[s].id) # {}
            BY <1>2, <4>1, AloneBasics DEF RowFind, At, Keeps
          <5> QED
            BY <1>1, <4>1, <5>1 DEF RowFind, OnFile, Request
        <4>2. CASE AddLook(s) \/ Find(s) \/ Get(s)
          BY <1>1, <4>2 DEF AddLook, Find, Get, OnFile, Goto, Answer, Request
        <4> QED
          BY <3>1, <4>1, <4>2
      <3>2. CASE Reply(s)
        BY <1>1, <3>2 DEF Reply, Idle, OnFile
      <3>3. CASE Begin(s)
        <4>1. req'[s].pc \in {"add.look", "find"}
          BY <1>1, <3>3 DEF Begin, Idle
        <4> QED
          BY <4>1 DEF OnFile
      <3> QED
        BY <1>6, <3>1, <3>2, <3>3
    <2> QED
      BY <1>5, <2>1, <2>2, QuietAgrees
  <1>7. CASE AddInsert(s) \/ RowSave(s) \/ RowDelete(s)
    BY <1>2, <1>5, <1>7, RowStepAgrees
  <1>8. CASE FileCheck(s) \/ FileCreate(s) \/ FileRead(s) \/ FileWrite(s)
    BY <1>2, <1>5, <1>8, FileStepAgrees
  <1> QED
    BY <1>6, <1>7, <1>8 DEF Serve

LEMMA NextAlone == IInv /\ AloneInv /\ [Next]_vars => AloneInv'
  <1> SUFFICES ASSUME IInv, AloneInv, [Next]_vars PROVE AloneInv'
    OBVIOUS
  <1>1. ASSUME NEW s \in Slots, Begin(s) \/ Serve(s) \/ Fail(s) PROVE AloneInv'
    BY <1>1, NextRowIds, NextNoFile, StepKeeps, StepAgrees DEF AloneInv
  <1>2. CASE UNCHANGED vars
    BY <1>2
       DEF vars, AloneInv, RowIds, Alone, Agreement, Keeps, At, OnFile, RowReady, Both,
           Agrees, Named, WithId, Live, NoEntries
  <1> QED
    BY <1>1, <1>2 DEF Next

LEMMA AloneInvariance == Spec => [](IInv /\ AloneInv)
  <1>1. Init => AloneInv
    <2> SUFFICES ASSUME Init PROVE AloneInv
      OBVIOUS
    <2>1. rows = {} /\ entries = NoEntries /\ \A s \in Slots : req[s].pc = "idle"
      BY DEF Init, Idle
    <2>2. Agreement
      BY <2>1 DEF Agreement, Agrees, Named, Live, NoEntries, At
    <2> QED
      BY <2>1, <2>2 DEF AloneInv, RowIds, Alone, Keeps, At, OnFile
  <1> QED
    BY <1>1, InitInv, NextInv, NextAlone, PTL DEF Spec

(* While no two requests were served at the same time "Ok" speaks of both  *)
(* stores, whatever earlier requests left half done, for all names,        *)
(* passwords and numbers of faults (users-adapter.repository.ts).          *)
THEOREM OkIsTrueOfBoth == Spec => []OkMeansBoth
  <1>1. AloneInv => OkMeansBoth
    BY DEF AloneInv, OkMeansBoth, Keeps, Both
  <1> QED
    BY AloneInvariance, <1>1, PTL

(* Without overlaps and faults the table and the htpasswd file hold the    *)
(* same users and passwords whenever nobody is changing them               *)
(* (users-adapter.repository.ts).                                          *)
THEOREM StoresStayInStep == Spec => []InStep
  <1>1. AloneInv => InStep
    BY DEF AloneInv, InStep, Agreement, Agrees, OnFile
  <1> QED
    BY AloneInvariance, <1>1, PTL

=============================================================================
