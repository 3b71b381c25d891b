------------------------------ MODULE NginxAcl ------------------------------
(***************************************************************************)
(* The proxy access list: grants kept as rows of an nginx `map` file, and  *)
(* the copy nginx loaded.                                                  *)
(*                                                                         *)
(* A request reads the file, works out the new text and writes it back.    *)
(* `create` reads twice, once to look for collisions and once to edit; a   *)
(* write truncates the file first and fills it later.  Nothing locks the   *)
(* file.  After the write nginx is told to load it again, if its container *)
(* was there when the request began.                                       *)
(*                                                                         *)
(* Names of users and ports are opaque, so one never matches inside        *)
(* another; users are neither created nor removed here, and a row is       *)
(* written or missing as a whole.                                          *)
(***************************************************************************)
EXTENDS AclRules

CONSTANTS
  Slots,        \* requests the API may be serving at the same time
  MaxFaults     \* bound on failing calls, crashes and stops of nginx

ASSUME BoundAssumption == MaxOps \in Nat \ {0} /\ MaxFaults \in Nat

VARIABLES
  file,         \* the map file
  nginx,        \* "absent", "stopped" or "up": the container
  loaded,       \* the rules nginx works by
  signalled,    \* a HUP was sent that nginx has not handled yet
  missed,       \* history: a change of the file was not followed by a HUP
  req,          \* req[s]: the request served in slot s
  ops,          \* requests issued so far; number n names the n-th request
  faults        \* faults so far

vars == <<file, nginx, loaded, signalled, missed, req, ops, faults>>

(* What is in the file.  "whole": the map and nothing else.  "tail": after *)
(* the map come remains of a longer text that the API still parses, `rest` *)
(* being the rules among them.  "ragged": remains that it does not parse.  *)
(* "headless": rows without the line that opens the map.                   *)
Text ==
  [form : {"whole", "tail", "ragged", "headless", "empty"}, rules : SUBSET Grant,
   rest : SUBSET Grant]

Empty == [form |-> "empty", rules |-> {}, rest |-> {}]
NoRule == [id |-> 1, user |-> AllUsers, ports |-> {}]

PCs == {"idle", "create.user", "runner", "create.check", "create.read", "remove.read",
        "truncate", "write", "reload", "done"}
Outcomes == {"none", "Ok", "NotFound", "InvalidAclFile", "Exist", "Repository"}

(* A request: `rule` is the grant to add (for a removal, only its id       *)
(* matters), `runner` whether the nginx container was found, `text` what   *)
(* will be written.                                                        *)
Request ==
  [pc : PCs, kind : {"create", "remove"}, rule : Grant, runner : BOOLEAN, text : Text,
   out : Outcomes]

Idle == [pc |-> "idle", kind |-> "remove", rule |-> NoRule, runner |-> FALSE,
         text |-> Empty, out |-> "none"]

TypeOK ==
  /\ file \in Text
  /\ nginx \in {"absent", "stopped", "up"}
  /\ loaded \in SUBSET Grant
  /\ signalled \in BOOLEAN
  /\ missed \in BOOLEAN
  /\ req \in [Slots -> Request]
  /\ ops \in 0 .. MaxOps
  /\ faults \in 0 .. MaxFaults

(* The deployment ships a map with no rows.                                *)
Init ==
  /\ file = [Empty EXCEPT !.form = "whole"]
  /\ nginx \in {"absent", "up"}
  /\ loaded = {}
  /\ signalled = FALSE
  /\ missed = FALSE
  /\ req = [s \in Slots |-> Idle]
  /\ ops = 0
  /\ faults = 0

-----------------------------------------------------------------------------
(* Reading and editing the file.                                           *)

Parses(f) == f.form \in {"whole", "tail"}
Rows(f) == f.rules \cup f.rest

(* Mutant: only the rows of the same user are compared.                    *)
OwnRowExists(f, g) == \E h \in Rows(f) : h.user = g.user /\ Collides(g, h)

(* What create compares with: the rows of the user and of all users, or    *)
(* every row for a grant to all users.                                     *)
Exists(f, g) == \E h \in Rows(f) : Collides(g, h)

(* Mutant: the rows that were compared are written, not the file's.        *)
Filtered(f, g) ==
  [form |-> "whole", rules |-> {h \in f.rules : h.user = g.user} \cup {g}, rest |-> {}]

(* Mutant: the text is not cut, the row goes to the end of the file.       *)
AtTheEnd(f, g) == [f EXCEPT !.form = "tail", !.rest = @ \cup {g}]

(* The text is cut at the first closing brace and the row and a brace are  *)
(* appended.  A text without a map gets rows but no opening line.          *)
Appended(f, g) ==
  IF f.form \in {"empty", "headless"} THEN [Empty EXCEPT !.form = "headless"]
  ELSE [form |-> "whole", rules |-> f.rules \cup {g}, rest |-> {}]

(* The last row with the id goes, all others stay as they are.             *)
Dropped(f, i) ==
  IF \E g \in f.rest : g.id = i
  THEN [f EXCEPT !.rest = {g \in @ : g.id # i}]
  ELSE [f EXCEPT !.rules = {g \in @ : g.id # i}]

(* What is in the file once t is written at its start.  When somebody      *)
(* else has written since it was truncated, the end of a longer text       *)
(* remains behind a shorter one.                                           *)
Over(t, f) ==
  {t} \cup
  (IF f.form = "empty" \/ t.form = "headless" \/ Rows(f) \subseteq Rows(t) THEN {}
   ELSE {[t EXCEPT !.form = "tail", !.rest = @ \cup r] : r \in SUBSET Rows(f)}
        \cup {[form |-> "ragged", rules |-> t.rules, rest |-> {}]})

-----------------------------------------------------------------------------
(* Control flow of a request.                                              *)

At(s, l) == req[s].pc = l
Goto(s, l) == req' = [req EXCEPT ![s].pc = l]
Answer(s, o) == req' = [req EXCEPT ![s].pc = "done", ![s].out = o]
WriteBack(s, t) == req' = [req EXCEPT ![s].pc = "truncate", ![s].text = t]

(* Mutant: the ports that came with a grant of all ports are kept.         *)
AskedRaw(n) == [id : {n}, user : User \cup {AllUsers}, ports : SUBSET Port]

(* The bodies the endpoint lets through: ports only beside a user.         *)
Asked(n) == {g \in Grant : g.id = n}

(* A client adds a grant, or removes one by the number it was given; the   *)
(* grant of that number may never have come to be.                         *)
Begin(s) ==
  /\ At(s, "idle")
  /\ ops < MaxOps
  /\ ops' = ops + 1
  /\ \/ \E g \in Asked(ops + 1) :
          req' = [req EXCEPT ![s] = [Idle EXCEPT
            !.pc = IF g.user = AllUsers THEN "runner" ELSE "create.user",
            !.kind = "create", !.rule = g]]
     \/ \E i \in 1 .. ops :
          req' = [req EXCEPT ![s] = [Idle EXCEPT !.pc = "runner", !.rule.id = i]]
  /\ UNCHANGED <<file, nginx, loaded, signalled, missed, faults>>

(* The response is sent.                                                   *)
Reply(s) ==
  /\ At(s, "done")
  /\ req' = [req EXCEPT ![s] = Idle]
  /\ UNCHANGED <<file, nginx, loaded, signalled, missed, ops, faults>>

(* ProxyAclService.create looks the user up.                               *)
CreateUser(s) ==
  /\ At(s, "create.user")
  /\ Goto(s, "runner") \/ Answer(s, "NotFound")
  /\ UNCHANGED <<file, nginx, loaded, signalled, missed, ops, faults>>

(* _getRunner: the container is looked up before the file is touched.      *)
FindRunner(s) ==
  /\ At(s, "runner")
  /\ req' = [req EXCEPT ![s].pc = IF req[s].kind = "create" THEN "create.check"
                                  ELSE "remove.read",
                        ![s].runner = (nginx # "absent")]
  /\ UNCHANGED <<file, nginx, loaded, signalled, missed, ops, faults>>

CreateCheck(s) ==
  /\ At(s, "create.check")
  /\ IF ~Parses(file) THEN Answer(s, "InvalidAclFile")
     ELSE IF Exists(file, req[s].rule) THEN Answer(s, "Exist")
     ELSE Goto(s, "create.read")
  /\ UNCHANGED <<file, nginx, loaded, signalled, missed, ops, faults>>

CreateRead(s) ==
  /\ At(s, "create.read")
  /\ WriteBack(s, Appended(file, req[s].rule))
  /\ UNCHANGED <<file, nginx, loaded, signalled, missed, ops, faults>>

(* Removing an id that is not there is a success, and reloads.             *)
RemoveRead(s) ==
  /\ At(s, "remove.read")
  /\ IF ~Parses(file) THEN Answer(s, "InvalidAclFile")
     ELSE IF \E g \in Rows(file) : g.id = req[s].rule.id
     THEN WriteBack(s, Dropped(file, req[s].rule.id))
     ELSE Goto(s, "reload")
  /\ UNCHANGED <<file, nginx, loaded, signalled, missed, ops, faults>>

(* writeFile opens with "w", which empties the file, and then writes.      *)
Truncate(s) ==
  /\ At(s, "truncate")
  /\ file' = Empty
  /\ Goto(s, "write")
  /\ UNCHANGED <<nginx, loaded, signalled, missed, ops, faults>>

Write(s) ==
  /\ At(s, "write")
  /\ file' \in Over(req[s].text, file)
  /\ Goto(s, "reload")
  /\ UNCHANGED <<nginx, loaded, signalled, missed, ops, faults>>

(* Mutant: only a creation reloads.                                        *)
ReloadCreated(s) ==
  /\ At(s, "reload")
  /\ LET sent == req[s].runner /\ nginx = "up" /\ req[s].kind = "create"
     IN  /\ signalled' = (signalled \/ sent)
         /\ missed' = (missed \/ ~(req[s].runner /\ nginx = "up"))
  /\ Answer(s, "Ok")
  /\ UNCHANGED <<file, nginx, loaded, ops, faults>>

(* An error of the reload is ignored, and the container found before may   *)
(* be gone or one that was not there may have come.                        *)
Reload(s) ==
  /\ At(s, "reload")
  /\ LET sent == req[s].runner /\ nginx = "up"
     IN  signalled' = (signalled \/ sent) /\ missed' = (missed \/ ~sent)
  /\ Answer(s, "Ok")
  /\ UNCHANGED <<file, nginx, loaded, ops, faults>>

(* A call fails or the process dies: before the write nothing happened,    *)
(* between its two halves the file stays empty, after it nginx is not told.*)
(* A failing reload is not reported.                                       *)
Fail(s) ==
  /\ req[s].pc \notin {"idle", "done"}
  /\ faults < MaxFaults
  /\ faults' = faults + 1
  /\ missed' = (missed \/ At(s, "reload"))
  /\ Answer(s, IF At(s, "reload") THEN "Ok" ELSE "Repository")
  /\ UNCHANGED <<file, nginx, loaded, signalled, ops>>

-----------------------------------------------------------------------------
(* nginx.  It checks the file and keeps its rules when the file is no good.*)

LoadFile == loaded' = file.rules /\ missed' = FALSE

NginxReload ==
  /\ signalled
  /\ signalled' = FALSE
  /\ IF file.form = "whole" THEN LoadFile ELSE UNCHANGED <<loaded, missed>>
  /\ UNCHANGED <<file, nginx, req, ops, faults>>

NginxStop ==
  /\ nginx = "up"
  /\ faults < MaxFaults
  /\ faults' = faults + 1
  /\ nginx' \in {"stopped", "absent"}
  /\ signalled' = FALSE
  /\ UNCHANGED <<file, loaded, missed, req, ops>>

NginxStart ==
  /\ nginx # "up"
  /\ file.form = "whole"
  /\ nginx' = "up"
  /\ LoadFile
  /\ UNCHANGED <<file, signalled, req, ops, faults>>

-----------------------------------------------------------------------------
Serve(s) ==
  \/ CreateUser(s) \/ FindRunner(s) \/ CreateCheck(s) \/ CreateRead(s) \/ RemoveRead(s)
  \/ Truncate(s) \/ Write(s) \/ Reload(s) \/ Reply(s)

Next ==
  \/ \E s \in Slots : Begin(s) \/ Serve(s) \/ Fail(s)
  \/ NginxReload \/ NginxStop \/ NginxStart

Spec == Init /\ [][Next]_vars

-----------------------------------------------------------------------------
(* Safety when requests come one at a time.                                *)

(* "The user access is already exist": what create compared with is what   *)
(* it writes next to, so the rows of the file never overlap                *)
(* (nginx-proxy-acl.repository.ts, create and _checkAclExist).             *)
NoDuplicateGrant == Disjoint(Rows(file))

(* Without a fault the file is whole whenever nobody is writing it: every  *)
(* text that create and remove compute from a good file is a good file.    *)
FileIntact ==
  faults = 0 /\ (\A s \in Slots : ~At(s, "write")) => file.form = "whole"

Writing == \E s \in Slots : At(s, "write")

(* A write counts from the moment it empties the file.                     *)
Store == INSTANCE AclStore WITH
  grants <- IF Writing THEN req[CHOOSE s \in Slots : At(s, "write")].text.rules ELSE file.rules,
  broken <- ~Parses(file) /\ ~Writing

(* The file implements the abstract store: every write adds the one grant  *)
(* or takes the one grant it was asked for and keeps all others, and only  *)
(* a write that stops half-way breaks it.                                  *)
ImplementsStore == Store!StoreSpec

-----------------------------------------------------------------------------
(* Safety under any number of concurrent requests.                         *)

(* The rules nginx works by are those of the file, once the requests that  *)
(* wrote it have passed their reload and nginx has handled it: concurrent  *)
(* writers do not eat each other's reload, and one that truncated the file *)
(* and never filled it does not hide what the others wrote.                *)
NginxAgrees ==
  /\ nginx = "up" /\ file.form = "whole"
  /\ ~signalled /\ ~missed /\ (\A s \in Slots : ~At(s, "reload"))
  => loaded = file.rules

(* A grant that was answered and that no request set out to remove is in   *)
(* the file.  (It need not be, when two requests write.)                   *)
CreatedIsListed ==
  \A s \in Slots :
    /\ At(s, "done") /\ req[s].kind = "create" /\ req[s].out = "Ok"
    /\ faults = 0 /\ Parses(file)
    /\ \A t \in Slots \ {s} : req[t].kind = "create" \/ req[t].rule.id # req[s].rule.id
    => req[s].rule \in Rows(file)

=============================================================================
