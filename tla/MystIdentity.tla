---------------------------- MODULE MystIdentity ----------------------------
(***************************************************************************)
(* Identities: a row in PostgreSQL, a directory with the encrypted key and *)
(* a MYST container that runs the daemon.  An identity is usable when it   *)
(* has all three; no transaction spans them and nothing is locked.         *)
(*                                                                         *)
(* Creation uploads a key file, whose content says which identity it is;   *)
(* removal takes the three away in parallel, or finishes a removal that    *)
(* did not.  Providers go up on identities that are free and come down     *)
(* again: of these requests only what concerns the identity is kept, the   *)
(* rest is ProviderLifecycle.  The wait for the daemon's port, the IP      *)
(* address of a container and the volume through which the daemon sees the *)
(* directory change no state of this module and are left out.              *)
(***************************************************************************)
EXTENDS Naturals

CONSTANTS
  Identity,
  Password,     \* passphrases
  NoIdentity,   \* the placeholder of a new model, or a file that is no key
  NoPassword,   \* no key in a directory
  Slots,        \* requests the API may be serving at the same time
  MaxOps,       \* bound on the requests issued
  MaxParallel,  \* bound on them when some are served at the same time
  MaxFaults     \* bound on failing calls and crashes

ASSUME NoneAssumption == NoIdentity \notin Identity /\ NoPassword \notin Password
ASSUME BoundAssumption == MaxOps \in Nat /\ MaxParallel \in 0 .. MaxOps /\ MaxFaults \in Nat
(* Every "Address already in use" counts as a fault, so the retries of the *)
(* MYST container (_maxRetry, 3) never run out.                            *)
ASSUME RetryAssumption == MaxFaults < 3

VARIABLES
  uploads,      \* creations whose uploaded file still lies where it arrived
  dirs,         \* identities that have a directory in the store
  keys,         \* keys[i]: the passphrase that unlocks the key in it
  rows,         \* the table: rows are named after the request that added them
  containers,   \* MYST and MYST_CONNECT containers
  tasks,        \* parallel parts of removals that have not run yet
  req,          \* req[s]: the request served in slot s
  erased,       \* history: identities whose directory was ever removed
  overlapped,   \* history: two requests were served at the same time
  ops,          \* requests issued so far
  faults        \* faults so far

stores == <<uploads, dirs, keys, rows, containers, tasks, erased>>
vars == <<stores, req, overlapped, ops, faults>>

Row == [id : 1 .. MaxOps, identity : Identity, password : Password, live : BOOLEAN]

(* A container is named after the request that made it.  `row` is its      *)
(* label, `on` the MYST container whose network it joined.                 *)
Container ==
  [kind : {"myst", "connect"}, id : 1 .. MaxOps, identity : Identity,
   row : 0 .. MaxOps, on : 0 .. MaxOps, status : {"created", "running"}]

Task == [op : 1 .. MaxOps, what : {"row", "dir", "container"}, id : 0 .. MaxOps,
         identity : Identity]

PCs == {"idle", "add.look", "add.parse", "add.mkdir", "add.copy", "add.unlink",
        "add.row", "add.insert", "runner.list", "runner.remove", "runner.create",
        "runner.start", "add.check", "unlock", "register", "remove.row",
        "remove.state", "remove.list", "remove.wait", "rest.row", "rest.list",
        "rest.remove", "rest.file", "up.pick", "up.runner", "up.connect",
        "down.remove", "done"}

Outcomes == {"none", "Ok", "Exist", "BadKey", "NotFound", "NotRunning", "Unlock", "InUse",
             "InvalidFileType", "TypeError", "Combine", "Repository"}

(* The locals of a handler: the uploaded file (the identity it is the key  *)
(* of, the passphrase that unlocks it) and the passphrase sent with it,    *)
(* the row it works with, the id of a row, the container it chose, whether *)
(* a path is known, and the error that is being rolled back.  `clean` is a *)
(* history variable: no fault hit this request.                            *)
Request ==
  [pc : PCs, kind : {"add", "remove", "up", "down"}, op : 0 .. MaxOps,
   content : Identity \cup {NoIdentity}, locked : Password \cup {NoPassword},
   password : Password \cup {NoPassword}, ident : Identity \cup {NoIdentity},
   id : 0 .. MaxOps, row : SUBSET Row, target : 0 .. MaxOps, path : BOOLEAN,
   failed : BOOLEAN, why : Outcomes, clean : BOOLEAN, out : Outcomes]

Idle == [pc |-> "idle", kind |-> "add", op |-> 0, content |-> NoIdentity,
         locked |-> NoPassword, password |-> NoPassword, ident |-> NoIdentity,
         id |-> 0, row |-> {}, target |-> 0, path |-> FALSE, failed |-> FALSE,
         why |-> "none", clean |-> TRUE, out |-> "none"]

TypeOK ==
  /\ uploads \subseteq 1 .. MaxOps
  /\ dirs \subseteq Identity
  /\ keys \in [Identity -> Password \cup {NoPassword}]
  /\ rows \subseteq Row
  /\ containers \subseteq Container
  /\ tasks \subseteq Task
  /\ req \in [Slots -> Request]
  /\ erased \subseteq Identity
  /\ overlapped \in BOOLEAN
  /\ ops \in 0 .. MaxOps
  /\ faults \in 0 .. MaxFaults
  /\ \A i \in Identity : keys[i] # NoPassword => i \in dirs

Init ==
  /\ uploads = {} /\ dirs = {} /\ rows = {} /\ containers = {} /\ tasks = {}
  /\ keys = [i \in Identity |-> NoPassword]
  /\ req = [s \in Slots |-> Idle]
  /\ erased = {}
  /\ overlapped = FALSE
  /\ ops = 0
  /\ faults = 0

-----------------------------------------------------------------------------
(* What a request learns from the stores.                                  *)

Live == {r \in rows : r.live}
WithId(n) == {r \in Live : r.id = n}
RowsOf(i) == {r \in Live : r.identity = i}
HasKey(i) == i \in Identity /\ keys[i] # NoPassword

OfKind(k) == {c \in containers : c.kind = k}
OnIdentity(k, i) == {c \in OfKind(k) : c.identity = i}
Without(k, n) == {c \in containers : ~(c.kind = k /\ c.id = n)}

(* The join of the three stores: an identity is listed when all have it    *)
(* and its MYST container has been started.                                *)
Whole(i) ==
  /\ RowsOf(i) # {}
  /\ HasKey(i)
  /\ \E m \in OnIdentity("myst", i) : m.status # "created"

(* Mutant: the label of the connection is not looked at.                   *)
NeverInUse(i) == FALSE

InUse(i) == OnIdentity("connect", i) # {}

-----------------------------------------------------------------------------
(* Control flow of a request.                                              *)

At(s, l) == req[s].pc = l
Goto(s, l) == req' = [req EXCEPT ![s].pc = l]
Answer(s, o) == req' = [req EXCEPT ![s].pc = "done", ![s].out = o]

(* A creation that fails at the daemon removes what it added.              *)
Rollback(s, o) == req' = [req EXCEPT ![s].pc = "remove.row", ![s].why = o]

(* The end of a removal: the answer, or the end of a creation that is      *)
(* rolled back.                                                            *)
Removed(s, o) ==
  Answer(s, IF req[s].why = "none" THEN o
            ELSE IF o = "Ok" THEN req[s].why ELSE "Combine")

(* A client uploads a key file with a passphrase, removes an identity by   *)
(* its id, which may have been removed before, or moves a provider up or   *)
(* down.                                                                   *)
Begin(s) ==
  LET start(r) == req' = [req EXCEPT ![s] = r]  IN
  /\ At(s, "idle")
  /\ ops' = ops + 1
  /\ overlapped' = (overlapped \/ \E t \in Slots : ~At(t, "idle"))
  /\ ops' <= IF overlapped' THEN MaxParallel ELSE MaxOps
  /\ \/ \E i \in Identity \cup {NoIdentity}, k, w \in Password :
          /\ start([Idle EXCEPT !.pc = "add.look", !.op = ops + 1, !.content = i,
                                !.locked = k, !.password = w])
          /\ uploads' = uploads \cup {ops + 1}
     \/ /\ \/ \E r \in rows :
                start([Idle EXCEPT !.pc = "remove.row", !.kind = "remove", !.op = ops + 1,
                                   !.id = r.id, !.ident = r.identity])
           \/ start([Idle EXCEPT !.pc = "up.pick", !.kind = "up", !.op = ops + 1])
           \/ \E c \in OfKind("connect") :
                start([Idle EXCEPT !.pc = "down.remove", !.kind = "down", !.op = ops + 1,
                                   !.target = c.id])
        /\ UNCHANGED uploads
  /\ UNCHANGED <<dirs, keys, rows, containers, tasks, erased, faults>>

(* The response is sent.                                                   *)
Reply(s) ==
  /\ At(s, "done")
  /\ req' = [req EXCEPT ![s] = Idle]
  /\ UNCHANGED <<stores, overlapped, ops, faults>>

-----------------------------------------------------------------------------
(* MystIdentityAggregateRepository.add: the key file.                      *)

(* The identity is not known yet: what is looked for is the placeholder    *)
(* of the new model, which no identity has.                                *)
AddLook(s) ==
  /\ At(s, "add.look")
  /\ IF Whole(req[s].ident) THEN Answer(s, "Exist") ELSE Goto(s, "add.parse")
  /\ UNCHANGED <<stores, overlapped, ops, faults>>

ReadKey(s) ==
  /\ At(s, "add.parse")
  /\ IF req[s].content = NoIdentity THEN Answer(s, "BadKey")
     ELSE req' = [req EXCEPT ![s].pc = "add.mkdir", ![s].ident = req[s].content]
  /\ UNCHANGED <<stores, overlapped, ops, faults>>

MakeDir(s) ==
  /\ At(s, "add.mkdir")
  /\ dirs' = dirs \cup {req[s].ident}
  /\ Goto(s, "add.copy")
  /\ UNCHANGED <<uploads, keys, rows, containers, tasks, erased, overlapped, ops, faults>>

(* Mutant: the file is moved by hand, the upload deleted first.            *)
CopyLate(s) ==
  /\ At(s, "add.copy")
  /\ uploads' = uploads \ {req[s].op}
  /\ Goto(s, "add.unlink")
  /\ UNCHANGED <<dirs, keys, rows, containers, tasks, erased, overlapped, ops, faults>>

(* Mutant: the copy makes the directory it needs.                          *)
CopyAnywhere(s) ==
  /\ At(s, "add.copy")
  /\ keys' = [keys EXCEPT ![req[s].ident] = req[s].locked]
  /\ Goto(s, "add.unlink")
  /\ UNCHANGED <<uploads, dirs, rows, containers, tasks, erased, overlapped, ops, faults>>

(* A key of the same identity that is there already is overwritten.        *)
CopyKey(s) ==
  LET i == req[s].ident IN
  /\ At(s, "add.copy")
  /\ \/ i \notin dirs /\ Answer(s, "Repository") /\ UNCHANGED keys
     \/ /\ i \in dirs
        /\ keys' = [keys EXCEPT ![i] = req[s].locked]
        /\ Goto(s, "add.unlink")
  /\ UNCHANGED <<uploads, dirs, rows, containers, tasks, erased, overlapped, ops, faults>>

UnlinkUpload(s) ==
  /\ At(s, "add.unlink")
  /\ uploads' = uploads \ {req[s].op}
  /\ Goto(s, "add.row")
  /\ UNCHANGED <<dirs, keys, rows, containers, tasks, erased, overlapped, ops, faults>>

-----------------------------------------------------------------------------
(* ... the row ...                                                         *)

(* A row that is there already is taken as it is, its passphrase included. *)
AddFindRow(s) ==
  LET found == RowsOf(req[s].ident) IN
  /\ At(s, "add.row")
  /\ \/ found = {} /\ Goto(s, "add.insert")
     \/ \E r \in found :
          req' = [req EXCEPT ![s].pc = "runner.list", ![s].row = {r}, ![s].id = r.id]
  /\ UNCHANGED <<stores, overlapped, ops, faults>>

(* The unique index refuses a second live row; the branch that would take  *)
(* the other one waits for an exception the repository never returns.      *)
AddInsertRow(s) ==
  LET r == [id |-> req[s].op, identity |-> req[s].ident, password |-> req[s].password,
            live |-> TRUE]
  IN  /\ At(s, "add.insert")
      /\ \/ RowsOf(r.identity) # {} /\ Answer(s, "Repository") /\ UNCHANGED rows
         \/ /\ RowsOf(r.identity) = {}
            /\ rows' = rows \cup {r}
            /\ req' = [req EXCEPT ![s].pc = "runner.list", ![s].row = {r}, ![s].id = r.id]
      /\ UNCHANGED <<uploads, dirs, keys, containers, tasks, erased, overlapped, ops, faults>>

-----------------------------------------------------------------------------
(* ... and the container.                                                  *)

(* Container names are unique, so there is one old MYST container at most. *)
ListOldRunner(s) ==
  LET found == OnIdentity("myst", req[s].ident) IN
  /\ At(s, "runner.list")
  /\ \/ found = {} /\ Goto(s, "runner.create")
     \/ \E m \in found :
          req' = [req EXCEPT ![s].pc = "runner.remove", ![s].target = m.id]
  /\ UNCHANGED <<stores, overlapped, ops, faults>>

(* Mutant: nothing is removed.                                             *)
KeepOldRunner(s) ==
  /\ At(s, "runner.remove")
  /\ Goto(s, "runner.create")
  /\ UNCHANGED <<stores, overlapped, ops, faults>>

(* Whether a provider is connected through it is not asked.                *)
RemoveOldRunner(s) ==
  /\ At(s, "runner.remove")
  /\ containers' = Without("myst", req[s].target)
  /\ Goto(s, "runner.create")
  /\ UNCHANGED <<uploads, dirs, keys, rows, tasks, erased, overlapped, ops, faults>>

(* _removeCreatedContainer: the container of the identity that was never   *)
(* started, whoever made it.                                               *)
Tidied(i) == {c \in containers :
                ~(c.kind = "myst" /\ c.identity = i /\ c.status = "created")}

CreateMyst(s) ==
  LET i == req[s].ident
      m == [kind |-> "myst", id |-> req[s].op, identity |-> i, row |-> req[s].id,
            on |-> 0, status |-> "created"]
  IN  /\ At(s, "runner.create")
      /\ IF \E c \in Tidied(i) : c.kind = "myst" /\ c.identity = i
         THEN Answer(s, "Repository") /\ containers' = Tidied(i)
         ELSE Goto(s, "runner.start") /\ containers' = Tidied(i) \cup {m}
      /\ UNCHANGED <<uploads, dirs, keys, rows, tasks, erased, overlapped, ops, faults>>

(* Another creation may have taken the container for a leftover; this one  *)
(* then does the same.  Without the directory the volume does not mount.   *)
StartMyst(s) ==
  LET mine == {c \in OfKind("myst") : c.id = req[s].op} IN
  /\ At(s, "runner.start")
  /\ IF mine = {} \/ req[s].ident \notin dirs
     THEN containers' = Tidied(req[s].ident) /\ Answer(s, "Repository")
     ELSE /\ containers' = (containers \ mine) \cup {[c EXCEPT !.status = "running"] : c \in mine}
          /\ Goto(s, "add.check")
  /\ UNCHANGED <<uploads, dirs, keys, rows, tasks, erased, overlapped, ops, faults>>

(* The start fails: an address in use is tried again, another error is     *)
(* cleaned up, unless the clean-up fails as well.                          *)
StartMystFails(s) ==
  /\ At(s, "runner.start")
  /\ faults < MaxFaults
  /\ faults' = faults + 1
  /\ \/ Goto(s, "runner.create") /\ UNCHANGED containers
     \/ /\ req' = [req EXCEPT ![s].pc = "done", ![s].out = "Repository", ![s].clean = FALSE]
        /\ \/ containers' = Tidied(req[s].ident)
           \/ UNCHANGED containers
  /\ UNCHANGED <<uploads, dirs, keys, rows, tasks, erased, overlapped, ops>>

-----------------------------------------------------------------------------
(* MystIdentityService.create: unlock and register.                        *)

(* Docker lists the newest container first, whatever its kind: connections *)
(* made through the MYST container come before it, older ones after it.    *)
NewestFirst(i) ==
  LET mysts == OnIdentity("myst", i)
      later == {c \in OnIdentity("connect", i) : \E m \in mysts : c.on = m.id}
  IN  IF later # {} THEN later
      ELSE IF mysts # {} THEN mysts ELSE OnIdentity("connect", i)

(* Mutant: a container that was created is good enough.                    *)
CheckRunnerLoosely(s) ==
  /\ At(s, "add.check")
  /\ Answer(s, "Ok")
  /\ UNCHANGED <<stores, overlapped, ops, faults>>

(* Three exits of the creation leave what was added in place.              *)
CheckRunner(s) ==
  LET listed == NewestFirst(req[s].ident) IN
  /\ At(s, "add.check")
  /\ \/ listed = {} /\ Answer(s, "NotFound")
     \/ \E c \in listed :
          IF c.status # "running" THEN Answer(s, "NotRunning")
          ELSE req' = [req EXCEPT ![s].pc = "unlock",
                                  ![s].target = IF c.kind = "myst" THEN c.id ELSE 0]
  /\ UNCHANGED <<stores, overlapped, ops, faults>>

(* Whether a daemon answers at the address of the chosen container; a      *)
(* MYST_CONNECT has no port.                                               *)
Answers(s) == \E m \in OfKind("myst") : m.id = req[s].target /\ m.status = "running"

(* Mutant: an identity that cannot be unlocked is kept.                    *)
UnlockOrLeave(s) ==
  LET i == req[s].ident IN
  /\ At(s, "unlock")
  /\ IF ~Answers(s) \/ ~HasKey(i) THEN Rollback(s, "Repository")
     ELSE IF \E r \in req[s].row : r.password # keys[i] THEN Answer(s, "Unlock")
     ELSE Goto(s, "register")
  /\ UNCHANGED <<stores, overlapped, ops, faults>>

(* The daemon tries the passphrase of the row on the key in the store.     *)
UnlockIdentity(s) ==
  LET i == req[s].ident IN
  /\ At(s, "unlock")
  /\ IF ~Answers(s) \/ ~HasKey(i) THEN Rollback(s, "Repository")
     ELSE IF \E r \in req[s].row : r.password # keys[i] THEN Rollback(s, "Unlock")
     ELSE Goto(s, "register")
  /\ UNCHANGED <<stores, overlapped, ops, faults>>

RegisterIdentity(s) ==
  /\ At(s, "register")
  /\ IF Answers(s) THEN Answer(s, "Ok") ELSE Rollback(s, "Repository")
  /\ UNCHANGED <<stores, overlapped, ops, faults>>

-----------------------------------------------------------------------------
(* MystIdentityAggregateRepository.remove, of a whole identity.            *)

RemoveFindRow(s) ==
  LET found == WithId(req[s].id) IN
  /\ At(s, "remove.row")
  /\ \/ found = {} /\ Goto(s, "rest.row")
     \/ \E r \in found : req' = [req EXCEPT ![s].pc = "remove.state", ![s].row = {r},
                                            ![s].ident = r.identity]
  /\ UNCHANGED <<stores, overlapped, ops, faults>>

(* A directory that is gone cannot be read, which is an error; one without *)
(* a key means that an earlier removal got so far.                         *)
RemoveReadState(s) ==
  LET i == req[s].ident IN
  /\ At(s, "remove.state")
  /\ IF i \notin dirs THEN Removed(s, "Repository")
     ELSE IF ~(HasKey(i) /\ \E m \in OnIdentity("myst", i) : m.status # "created")
     THEN Goto(s, "rest.row")
     ELSE IF InUse(i) THEN Removed(s, "InUse")
     ELSE Goto(s, "remove.list")
  /\ UNCHANGED <<stores, overlapped, ops, faults>>

(* Mutant: the key stays, as does its directory.                           *)
StartTasksNoFile(s) ==
  LET i == req[s].ident
      task(w, n) == [op |-> req[s].op, what |-> w, id |-> n, identity |-> i]
  IN  /\ At(s, "remove.list")
      /\ \E m \in OnIdentity("myst", i) :
           /\ tasks' = tasks \cup {task("row", req[s].id), task("container", m.id)}
           /\ req' = [req EXCEPT ![s].pc = "remove.wait", ![s].failed = FALSE]
      /\ UNCHANGED <<uploads, dirs, keys, rows, containers, erased, overlapped, ops, faults>>

(* Promise.all over row, directory and container.  When the container went *)
(* in the meantime the handler throws, with two of the calls under way.    *)
StartTasks(s) ==
  LET i == req[s].ident
      mysts == OnIdentity("myst", i)
      task(w, n) == [op |-> req[s].op, what |-> w, id |-> n, identity |-> i]
      both == {task("row", req[s].id), task("dir", 0)}
  IN  /\ At(s, "remove.list")
      /\ \/ mysts = {} /\ tasks' = tasks \cup both /\ Answer(s, "TypeError")
         \/ \E m \in mysts :
              /\ tasks' = tasks \cup both \cup {task("container", m.id)}
              /\ req' = [req EXCEPT ![s].pc = "remove.wait", ![s].failed = FALSE]
      /\ UNCHANGED <<uploads, dirs, keys, rows, containers, erased, overlapped, ops, faults>>

RunTask(t) ==
  /\ tasks' = tasks \ {t}
  /\ \/ /\ t.what = "row"
        /\ rows' = {IF r.id = t.id THEN [r EXCEPT !.live = FALSE] ELSE r : r \in rows}
        /\ UNCHANGED <<dirs, keys, containers, erased>>
     \/ /\ t.what = "dir"
        /\ dirs' = dirs \ {t.identity}
        /\ keys' = [keys EXCEPT ![t.identity] = NoPassword]
        /\ erased' = erased \cup {t.identity}
        /\ UNCHANGED <<rows, containers>>
     \/ /\ t.what = "container"
        /\ containers' = Without("myst", t.id)
        /\ UNCHANGED <<dirs, keys, rows, erased>>
  /\ UNCHANGED <<uploads, req, overlapped, ops, faults>>

(* One call fails; the others are not stopped.                             *)
TaskFails(t) ==
  /\ faults < MaxFaults
  /\ faults' = faults + 1
  /\ tasks' = tasks \ {t}
  /\ req' = [s \in Slots |->
               IF req[s].op = t.op
               THEN [req[s] EXCEPT !.failed = TRUE, !.clean = FALSE] ELSE req[s]]
  /\ UNCHANGED <<uploads, dirs, keys, rows, containers, erased, overlapped, ops>>

(* Mutant: the results of the tasks are not looked at.                     *)
JoinBlindly(s) ==
  /\ At(s, "remove.wait")
  /\ \A t \in tasks : t.op # req[s].op
  /\ Removed(s, "Ok")
  /\ UNCHANGED <<stores, overlapped, ops, faults>>

JoinTasks(s) ==
  /\ At(s, "remove.wait")
  /\ \A t \in tasks : t.op # req[s].op
  /\ Removed(s, IF req[s].failed THEN "Repository" ELSE "Ok")
  /\ UNCHANGED <<stores, overlapped, ops, faults>>

-----------------------------------------------------------------------------
(* ... and of one that an earlier removal left in parts.  The row stays.   *)

RestFindRow(s) ==
  /\ At(s, "rest.row")
  /\ req' = [req EXCEPT ![s].pc = "rest.list", ![s].path = (WithId(req[s].id) # {})]
  /\ UNCHANGED <<stores, overlapped, ops, faults>>

(* The container is found by the id of the row it is labelled with.        *)
RestList(s) ==
  LET found == {m \in OfKind("myst") : m.row = req[s].id} IN
  /\ At(s, "rest.list")
  /\ \/ found = {} /\ Goto(s, "rest.file")
     \/ \E m \in found :
          req' = [req EXCEPT ![s].pc = "rest.remove", ![s].target = m.id]
  /\ UNCHANGED <<stores, overlapped, ops, faults>>

(* Its volume names the directory.                                         *)
RestRemoveRunner(s) ==
  /\ At(s, "rest.remove")
  /\ containers' = Without("myst", req[s].target)
  /\ req' = [req EXCEPT ![s].pc = "rest.file", ![s].path = TRUE]
  /\ UNCHANGED <<uploads, dirs, keys, rows, tasks, erased, overlapped, ops, faults>>

(* A path at this point is that of a directory, and only the path of a     *)
(* .json file is accepted.                                                 *)
RestRemoveFile(s) ==
  /\ At(s, "rest.file")
  /\ Removed(s, IF req[s].path THEN "InvalidFileType" ELSE "Ok")
  /\ UNCHANGED <<stores, overlapped, ops, faults>>

-----------------------------------------------------------------------------
(* Providers on top (MystProviderService.up and down).                     *)

UpPickIdentity(s) ==
  LET free == {i \in Identity : Whole(i) /\ ~InUse(i)} IN
  /\ At(s, "up.pick")
  /\ \/ free = {} /\ Answer(s, "NotFound")
     \/ \E i \in free : \E r \in RowsOf(i) :
          req' = [req EXCEPT ![s].pc = "up.runner", ![s].ident = i, ![s].id = r.id]
  /\ UNCHANGED <<stores, overlapped, ops, faults>>

(* The daemon is looked up by the id of the row its label carries.         *)
UpCheckRunner(s) ==
  LET mysts == {m \in OfKind("myst") : m.row = req[s].id} IN
  /\ At(s, "up.runner")
  /\ \/ mysts = {} /\ Answer(s, "NotRunning")
     \/ \E m \in mysts : IF m.status = "running" THEN Goto(s, "up.connect")
                         ELSE Answer(s, "NotRunning")
  /\ UNCHANGED <<stores, overlapped, ops, faults>>

UpConnect(s) ==
  LET i == req[s].ident
      hosts == {m \in OnIdentity("myst", i) : m.status = "running"}
  IN  /\ At(s, "up.connect")
      /\ \/ hosts = {} /\ Answer(s, "NotRunning") /\ UNCHANGED containers
         \/ \E m \in hosts :
              /\ containers' = containers \cup
                   {[kind |-> "connect", id |-> req[s].op, identity |-> i, row |-> 0,
                     on |-> m.id, status |-> "running"]}
              /\ Answer(s, "Ok")
      /\ UNCHANGED <<uploads, dirs, keys, rows, tasks, erased, overlapped, ops, faults>>

DownRemove(s) ==
  /\ At(s, "down.remove")
  /\ containers' = Without("connect", req[s].target)
  /\ Answer(s, "Ok")
  /\ UNCHANGED <<uploads, dirs, keys, rows, tasks, erased, overlapped, ops, faults>>

-----------------------------------------------------------------------------
(* Failures.                                                               *)

(* A call of the handler fails, having done nothing.                       *)
Fail(s) ==
  /\ req[s].pc \notin {"idle", "done", "runner.start", "remove.wait"}
  /\ faults < MaxFaults
  /\ faults' = faults + 1
  /\ req' = [req EXCEPT ![s].clean = FALSE,
       ![s].pc  = IF @ \in {"unlock", "register"} THEN "remove.row" ELSE "done",
       ![s].why = IF At(s, "unlock") \/ At(s, "register") THEN "Repository" ELSE @,
       ![s].out = IF At(s, "unlock") \/ At(s, "register") THEN @
                  ELSE IF req[s].why = "none" THEN "Repository" ELSE "Combine"]
  /\ UNCHANGED <<stores, overlapped, ops>>

(* The process dies, and with it every request and task.                   *)
Crash ==
  /\ \E s \in Slots : ~At(s, "idle")
  /\ faults < MaxFaults
  /\ faults' = faults + 1
  /\ tasks' = {}
  /\ req' = [s \in Slots |->
               IF At(s, "idle") THEN req[s]
               ELSE [req[s] EXCEPT !.pc = "done", !.out = "Repository", !.clean = FALSE]]
  /\ UNCHANGED <<uploads, dirs, keys, rows, containers, erased, overlapped, ops>>

-----------------------------------------------------------------------------
Add(s) ==
  \/ AddLook(s) \/ ReadKey(s) \/ MakeDir(s) \/ CopyKey(s) \/ UnlinkUpload(s)
  \/ AddFindRow(s) \/ AddInsertRow(s) \/ ListOldRunner(s) \/ RemoveOldRunner(s)
  \/ CreateMyst(s) \/ StartMyst(s) \/ StartMystFails(s)
  \/ CheckRunner(s) \/ UnlockIdentity(s) \/ RegisterIdentity(s)

Remove(s) ==
  \/ RemoveFindRow(s) \/ RemoveReadState(s) \/ StartTasks(s) \/ JoinTasks(s)
  \/ RestFindRow(s) \/ RestList(s) \/ RestRemoveRunner(s) \/ RestRemoveFile(s)

UpDown(s) == UpPickIdentity(s) \/ UpCheckRunner(s) \/ UpConnect(s) \/ DownRemove(s)

Next ==
  \/ \E s \in Slots : Begin(s) \/ Add(s) \/ Remove(s) \/ UpDown(s) \/ Fail(s) \/ Reply(s)
  \/ \E t \in tasks : RunTask(t) \/ TaskFails(t)
  \/ Crash

Spec == Init /\ [][Next]_vars

-----------------------------------------------------------------------------
(* Safety under any number of concurrent requests.                         *)

(* A key that was accepted is never lost by its move: whatever fails or    *)
(* dies, and however many creations of the identity run, it lies in the    *)
(* store or still where it was uploaded, unless a removal took the         *)
(* directory (myst-identity-file.repository.ts, moveAndRenameFile).        *)
KeyNotLost ==
  \A s \in Slots :
      /\ req[s].kind = "add" /\ req[s].ident # NoIdentity
      /\ req[s].ident \notin erased
    => req[s].op \in uploads \/ HasKey(req[s].ident)

-----------------------------------------------------------------------------
(* Safety when requests come one at a time.                                *)

(* "Ok" speaks of all three stores, whatever earlier requests left half    *)
(* done: the row's passphrase unlocks the key in the store and the daemon  *)
(* that runs is the one of this row (myst-identity.service.ts, create).    *)
CreatedIsWhole ==
  ~overlapped =>
    \A s \in Slots :
      At(s, "done") /\ req[s].kind = "add" /\ req[s].out = "Ok" =>
        /\ \E r \in RowsOf(req[s].ident) : r.password = keys[req[s].ident]
        /\ \E m \in OnIdentity("myst", req[s].ident) :
             m.status = "running" /\ WithId(m.row) = RowsOf(req[s].ident)

(* An identity that the daemon could not unlock is taken back completely   *)
(* when the client is told just that (myst-identity.service.ts, create).   *)
RefusedLeavesNothing ==
  ~overlapped =>
    \A s \in Slots :
      At(s, "done") /\ req[s].out = "Unlock" =>
        LET i == req[s].ident
        IN  RowsOf(i) = {} /\ i \notin dirs /\ OnIdentity("myst", i) = {}

(* A creation repairs whatever earlier ones and earlier removals left:     *)
(* when no call of its own fails and the row knows the passphrase of the   *)
(* key, it succeeds (myst-identity-aggregate.repository.ts, add).          *)
AddHeals ==
  ~overlapped =>
    \A s \in Slots :
        /\ At(s, "done") /\ req[s].kind = "add" /\ req[s].clean
        /\ req[s].content # NoIdentity
        /\ \A r \in req[s].row : r.password = req[s].locked
      => req[s].out = "Ok"

(* A removal that says so has removed the row and the container of its id, *)
(* in one go or after any sequence of removals that stopped half-way       *)
(* (myst-identity-aggregate.repository.ts, remove).                        *)
RemovedIsGone ==
  ~overlapped =>
    \A s \in Slots :
      At(s, "done") /\ req[s].kind = "remove" /\ req[s].out = "Ok" =>
        WithId(req[s].id) = {} /\ \A m \in OfKind("myst") : m.row # req[s].id

(* Without faults the three stores hold the same identities whenever       *)
(* nobody is changing them (myst-identity-aggregate.repository.ts).        *)
InStep ==
  ~overlapped /\ faults = 0 /\ tasks = {} /\ (\A s \in Slots : req[s].pc \in {"idle", "done"}) =>
    \A i \in Identity :
      /\ HasKey(i) <=> RowsOf(i) # {}
      /\ HasKey(i) <=> \E m \in OnIdentity("myst", i) : m.status = "running"
      /\ HasKey(i) <=> i \in dirs

(* Forgetting how an identity is stored leaves the registry.               *)
Registry == INSTANCE IdentityRegistry WITH
  known  <- {i \in Identity : RowsOf(i) # {} /\ HasKey(i)},
  leased <- {c.identity : c \in OfKind("connect")}

(* Served one request at a time, the service implements the registry: a    *)
(* provider gets an identity that is known and free, and an identity that  *)
(* serves one loses neither its row nor its key, whatever failed before.   *)
ImplementsRegistry ==
  Registry!Init /\ [][overlapped' \/ Registry!Step]_vars

-----------------------------------------------------------------------------
(* "Should error add new identity when identity is exist": an identity     *)
(* that is known and usable is not added again.  (It is: the look-up is    *)
(* made before the address was read from the file.)                        *)
ExistingRefused ==
  \A s \in Slots :
    At(s, "add.mkdir") /\ ~overlapped => ~Whole(req[s].ident)

=============================================================================
