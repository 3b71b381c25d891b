----------------------------- MODULE UsersStores -----------------------------
(***************************************************************************)
(* Users: a row in PostgreSQL, which the API logs them in by, and an entry *)
(* in the htpasswd file, which the proxy does.  Each operation changes the *)
(* row first and the entry afterwards; no transaction spans the two.       *)
(*                                                                         *)
(* Rows are deleted softly and user names are unique among live rows.  The *)
(* file is changed by the program htpasswd, which reads it and puts back a *)
(* whole new one.  The reload of nginx at the end of an operation is       *)
(* ignored when it fails and changes neither store, so it is left out, and *)
(* so are roles and the time stamps.  Reads made in parallel (Promise.all) *)
(* are one step.                                                           *)
(***************************************************************************)
EXTENDS Naturals

CONSTANTS
  Name,         \* user names
  Password,
  NoPassword,   \* no entry; in an update: leave the password alone
  Slots,        \* requests the API may be serving at the same time
  MaxOps,       \* bound on the requests issued
  MaxFaults     \* bound on failing calls and crashes

ASSUME NoPasswordAssumption == NoPassword \notin Password
ASSUME BoundAssumption == MaxOps \in Nat /\ MaxFaults \in Nat

VARIABLES
  rows,         \* the table: rows are named after the request that added them
  fileExists,   \* whether the htpasswd file is there
  entries,      \* entries[n]: the password of n in it
  req,          \* req[s]: the request served in slot s
  overlapped,   \* whether two requests were ever served at the same time
  ops,          \* requests issued so far
  faults        \* faults so far

vars == <<rows, fileExists, entries, req, overlapped, ops, faults>>

MaybePassword == Password \cup {NoPassword}
Entries == [Name -> MaybePassword]
NoEntries == [n \in Name |-> NoPassword]

Row == [id : 1 .. MaxOps, name : Name, password : Password, live : BOOLEAN]

PCs == {"idle", "add.look", "add.insert", "find", "get", "row.find", "row.save",
        "row.delete", "file.check", "file.create", "file.read", "file.write", "done"}
Outcomes == {"none", "Ok", "NotFound", "Exist", "Repository"}

(* The locals of a handler: the id it works on, the row it loaded ({} when *)
(* there was none), whether the user was known, and the file htpasswd read.*)
Request ==
  [pc : PCs, kind : {"add", "update", "remove"}, id : 0 .. MaxOps, name : Name,
   password : MaybePassword, row : SUBSET Row, known : BOOLEAN, copy : Entries,
   out : Outcomes]

Idle(n) == [pc |-> "idle", kind |-> "remove", id |-> 0, name |-> n,
            password |-> NoPassword, row |-> {}, known |-> FALSE, copy |-> NoEntries,
            out |-> "none"]

TypeOK ==
  /\ rows \subseteq Row
  /\ fileExists \in BOOLEAN
  /\ entries \in Entries
  /\ req \in [Slots -> Request]
  /\ overlapped \in BOOLEAN
  /\ ops \in 0 .. MaxOps
  /\ faults \in 0 .. MaxFaults

Init ==
  /\ rows = {}
  /\ fileExists = FALSE
  /\ entries = NoEntries
  /\ \E n \in Name : req = [s \in Slots |-> Idle(n)]
  /\ overlapped = FALSE
  /\ ops = 0
  /\ faults = 0

-----------------------------------------------------------------------------
(* The table.                                                              *)

Live == {r \in rows : r.live}
WithId(i) == {r \in Live : r.id = i}
Named(n) == {r \in Live : r.name = n}

(* Mutant: a password that is not given is written.                        *)
SavedRaw(r, w) == {x \in rows : x.id # r.id} \cup {[r EXCEPT !.password = w]}

(* save writes the entity as it was loaded and changed, every column of    *)
(* it: a row that was deleted since then is alive again, unless the unique *)
(* index forbids.                                                          *)
Saved(r, w) ==
  {x \in rows : x.id # r.id}
    \cup {[r EXCEPT !.password = IF w = NoPassword THEN @ ELSE w]}

(* Mutant: rows may share a name.                                          *)
NeverClashes(r) == FALSE

Clashes(r) == \E x \in Named(r.name) : x.id # r.id

-----------------------------------------------------------------------------
(* Control flow of a request.                                              *)

At(s, l) == req[s].pc = l
Goto(s, l) == req' = [req EXCEPT ![s].pc = l]
Answer(s, o) == req' = [req EXCEPT ![s].pc = "done", ![s].out = o]

(* A client adds a user, or changes or removes one by its id; there may be *)
(* no such user any more.                                                  *)
Begin(s) ==
  /\ At(s, "idle")
  /\ ops < MaxOps
  /\ ops' = ops + 1
  /\ overlapped' = (overlapped \/ \E t \in Slots : ~At(t, "idle"))
  /\ \/ \E n \in Name, w \in Password :
          req' = [req EXCEPT ![s] = [Idle(n) EXCEPT
            !.pc = "add.look", !.kind = "add", !.id = ops + 1, !.password = w]]
     \/ \E r \in rows, w \in MaybePassword :
          req' = [req EXCEPT ![s] = [Idle(r.name) EXCEPT
            !.pc = "find", !.kind = "update", !.id = r.id, !.password = w]]
     \/ \E r \in rows :
          req' = [req EXCEPT ![s] = [Idle(r.name) EXCEPT !.pc = "find", !.id = r.id]]
  /\ UNCHANGED <<rows, fileExists, entries, faults>>

(* The response is sent.                                                   *)
Reply(s) ==
  /\ At(s, "done")
  /\ req' = [req EXCEPT ![s] = Idle(req[s].name)]
  /\ UNCHANGED <<rows, fileExists, entries, overlapped, ops, faults>>

-----------------------------------------------------------------------------
(* The database half.                                                      *)

(* Whether the file knows a user: htpasswd is made to verify a password    *)
(* that cannot be right, and says whether the name or the password was not.*)
InFile(n) == entries[n] # NoPassword

(* Mutant: one that is only in the table just gets an entry.               *)
AddLookOnly(s) ==
  LET n == req[s].name
  IN  /\ At(s, "add.look")
      /\ IF Named(n) = {} THEN Goto(s, "add.insert")
         ELSE IF InFile(n) THEN Answer(s, "Exist")
         ELSE \E r \in Named(n) : req' = [req EXCEPT ![s].pc = "file.check", ![s].id = r.id]
      /\ UNCHANGED <<rows, fileExists, entries, overlapped, ops, faults>>

(* add: a user in both stores is refused; one that is only in the table is *)
(* given the new password and its entry.                                   *)
AddLook(s) ==
  LET n == req[s].name
  IN  /\ At(s, "add.look")
      /\ IF Named(n) = {} THEN Goto(s, "add.insert")
         ELSE IF InFile(n) THEN Answer(s, "Exist")
         ELSE \E r \in Named(n) : req' = [req EXCEPT ![s].pc = "row.find", ![s].id = r.id]
      /\ UNCHANGED <<rows, fileExists, entries, overlapped, ops, faults>>

(* A duplicate is meant to be turned into an update, but the repository    *)
(* reports it by an exception that only carries the name of ExistException,*)
(* so the operation ends.                                                  *)
AddInsert(s) ==
  LET r == [id |-> req[s].id, name |-> req[s].name, password |-> req[s].password,
            live |-> TRUE]
  IN  /\ At(s, "add.insert")
      /\ \/ Clashes(r) /\ Answer(s, "Exist") /\ UNCHANGED rows
         \/ ~Clashes(r) /\ rows' = rows \cup {r} /\ Goto(s, "file.check")
      /\ UNCHANGED <<fileExists, entries, overlapped, ops, faults>>

(* UsersService looks the user up, and the adapter once more.              *)
Find(s) ==
  /\ At(s, "find")
  /\ IF WithId(req[s].id) = {} THEN Answer(s, "NotFound") ELSE Goto(s, "get")
  /\ UNCHANGED <<rows, fileExists, entries, overlapped, ops, faults>>

Get(s) ==
  /\ At(s, "get")
  /\ req' = [req EXCEPT ![s].pc = "row.find", ![s].known = (WithId(req[s].id) # {})]
  /\ UNCHANGED <<rows, fileExists, entries, overlapped, ops, faults>>

(* What follows the database half.  An update of the file does not make    *)
(* sure first that there is one.                                           *)
AfterRow(r) ==
  IF r.kind = "add" THEN "file.check"
  ELSE IF ~r.known THEN "done"
  ELSE IF r.kind = "remove" THEN "file.check"
  ELSE IF r.password # NoPassword THEN "file.read"
  ELSE "done"

Proceed(s) ==
  req' = [req EXCEPT ![s].pc = AfterRow(req[s]),
                     ![s].out = IF AfterRow(req[s]) = "done" THEN "Ok" ELSE @]

(* A row that is gone is no error.                                         *)
RowFind(s) ==
  /\ At(s, "row.find")
  /\ IF WithId(req[s].id) = {} THEN Proceed(s)
     ELSE req' = [req EXCEPT ![s].row = WithId(req[s].id),
                             ![s].pc = IF req[s].kind = "remove" THEN "row.delete"
                                       ELSE "row.save"]
  /\ UNCHANGED <<rows, fileExists, entries, overlapped, ops, faults>>

RowSave(s) ==
  /\ At(s, "row.save")
  /\ \E r \in req[s].row :
       \/ Clashes(r) /\ Answer(s, "Exist") /\ UNCHANGED rows
       \/ ~Clashes(r) /\ rows' = Saved(r, req[s].password) /\ Proceed(s)
  /\ UNCHANGED <<fileExists, entries, overlapped, ops, faults>>

(* softRemove writes the time of deletion only.                            *)
RowDelete(s) ==
  /\ At(s, "row.delete")
  /\ rows' = {IF r.id = req[s].id THEN [r EXCEPT !.live = FALSE] ELSE r : r \in rows}
  /\ Proceed(s)
  /\ UNCHANGED <<fileExists, entries, overlapped, ops, faults>>

-----------------------------------------------------------------------------
(* The file half.                                                          *)

FileCheck(s) ==
  /\ At(s, "file.check")
  /\ IF fileExists THEN Goto(s, "file.read")
     ELSE IF req[s].kind = "add" THEN Goto(s, "file.create")
     ELSE Answer(s, "Ok")
  /\ UNCHANGED <<rows, fileExists, entries, overlapped, ops, faults>>

(* open with "w": a file that came to be since the check is emptied.       *)
FileCreate(s) ==
  /\ At(s, "file.create")
  /\ fileExists' = TRUE
  /\ entries' = NoEntries
  /\ Goto(s, "file.read")
  /\ UNCHANGED <<rows, overlapped, ops, faults>>

(* htpasswd refuses to work on a file that is not there, and has nothing   *)
(* to do when the user to remove is not in it.                             *)
FileRead(s) ==
  /\ At(s, "file.read")
  /\ IF ~fileExists THEN Answer(s, "Repository")
     ELSE IF req[s].kind = "remove" /\ entries[req[s].name] = NoPassword
     THEN Answer(s, "Ok")
     ELSE req' = [req EXCEPT ![s].pc = "file.write", ![s].copy = entries]
  /\ UNCHANGED <<rows, fileExists, entries, overlapped, ops, faults>>

(* Mutant: the file is opened for the one entry only.                      *)
FileWriteAlone(s) ==
  /\ At(s, "file.write")
  /\ entries' = [NoEntries EXCEPT ![req[s].name] =
                   IF req[s].kind = "remove" THEN NoPassword ELSE req[s].password]
  /\ fileExists' = TRUE
  /\ Answer(s, "Ok")
  /\ UNCHANGED <<rows, overlapped, ops, faults>>

FileWrite(s) ==
  /\ At(s, "file.write")
  /\ entries' = [req[s].copy EXCEPT ![req[s].name] =
                   IF req[s].kind = "remove" THEN NoPassword ELSE req[s].password]
  /\ fileExists' = TRUE
  /\ Answer(s, "Ok")
  /\ UNCHANGED <<rows, overlapped, ops, faults>>

(* A call fails or the process dies; what was done stays done.             *)
Fail(s) ==
  /\ req[s].pc \notin {"idle", "done"}
  /\ faults < MaxFaults
  /\ faults' = faults + 1
  /\ Answer(s, "Repository")
  /\ UNCHANGED <<rows, fileExists, entries, overlapped, ops>>

-----------------------------------------------------------------------------
Serve(s) ==
  \/ AddLook(s) \/ AddInsert(s) \/ Find(s) \/ Get(s) \/ RowFind(s) \/ RowSave(s)
  \/ RowDelete(s) \/ FileCheck(s) \/ FileCreate(s) \/ FileRead(s) \/ FileWrite(s)
  \/ Reply(s)

Next == \E s \in Slots : Begin(s) \/ Serve(s) \/ Fail(s)

Spec == Init /\ [][Next]_vars

-----------------------------------------------------------------------------
(* Safety when requests come one at a time.                                *)

(* "Ok" speaks of both stores, whatever earlier requests left half done:   *)
(* the user logs in and passes the proxy with the password just set, and   *)
(* does neither once removed (users-adapter.repository.ts).                *)
OkMeansBoth ==
  ~overlapped =>
    \A s \in Slots :
      At(s, "done") /\ req[s].out = "Ok" =>
        LET n == req[s].name  w == req[s].password
        IN  \/ req[s].kind = "remove" /\ Named(n) = {} /\ entries[n] = NoPassword
            \/ req[s].kind # "remove" /\ w = NoPassword
            \/ req[s].kind # "remove" /\ entries[n] = w /\ \E r \in Named(n) : r.password = w

(* Without faults the two stores hold the same users and passwords         *)
(* whenever nobody is changing them (users-adapter.repository.ts).         *)
InStep ==
  ~overlapped /\ faults = 0 /\ (\A s \in Slots : req[s].pc \in {"idle", "done"}) =>
    \A n \in Name :
      IF Named(n) = {} THEN entries[n] = NoPassword
      ELSE \A r \in Named(n) : entries[n] = r.password

-----------------------------------------------------------------------------
(* Safety under concurrency.                                               *)

(* A name has one live row at most, although an update can bring a removed *)
(* row back while another user has taken the name (users-pg.repository.ts).*)
UniqueName == \A q, r \in Live : q.name = r.name => q = r

(* "Should successfully add new user when duplicate record on database and *)
(* user not exist on squid": a duplicate found by the insertion is         *)
(* resolved.  (It is not: the branch that would resolve it is never taken.)*)
DuplicateResolved ==
  [][\A s \in Slots : At(s, "add.insert") => req'[s].out # "Exist"]_vars

=============================================================================
