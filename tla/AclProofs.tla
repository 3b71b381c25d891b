----------------------------- MODULE AclProofs ------------------------------
(***************************************************************************)
(* Proofs about the access list: type correctness and the agreement of     *)
(* nginx with the file for any number of concurrent requests; when         *)
(* requests come one at a time, that rows never collide, that the file     *)
(* stays intact, and that it implements the abstract store.                *)
(***************************************************************************)
EXTENDS NginxAcl, TLAPS

(* The helpers stay within the types.                                      *)
LEMMA EmptyText == Empty \in Text
  BY DEF Empty, Text

LEMMA IdleRequest == Idle \in Request
  BY BoundAssumption, EmptyText, SMT DEF Idle, Request, PCs, Outcomes, NoRule, Grant, Id

LEMMA AppendedText ==
  ASSUME NEW f \in Text, NEW g \in Grant PROVE Appended(f, g) \in Text
  BY DEF Appended, Empty, Text

LEMMA DroppedText ==
  ASSUME NEW f \in Text, NEW i PROVE Dropped(f, i) \in Text
  BY DEF Dropped, Text

LEMMA OverText ==
  ASSUME NEW t \in Text, NEW f \in Text PROVE Over(t, f) \subseteq Text
  <1>1. Rows(f) \subseteq Grant
    BY DEF Rows, Text
  <1>2. \A r \in SUBSET Rows(f) : [t EXCEPT !.form = "tail", !.rest = @ \cup r] \in Text
    BY <1>1 DEF Text
  <1>3. [form |-> "ragged", rules |-> t.rules, rest |-> {}] \in Text
    BY DEF Text
  <1> QED
    BY <1>2, <1>3 DEF Over

(* A request is changed in one slot only, and stays a request.             *)
LEMMA GotoRequest ==
  ASSUME req \in [Slots -> Request], NEW s \in Slots, NEW l \in PCs, Goto(s, l)
  PROVE  req' \in [Slots -> Request]
  BY DEF Goto, Request

LEMMA AnswerRequest ==
  ASSUME req \in [Slots -> Request], NEW s \in Slots, NEW o \in Outcomes, Answer(s, o)
  PROVE  req' \in [Slots -> Request]
  <1>1. "done" \in PCs
    BY DEF PCs
  <1> QED
    BY <1>1 DEF Answer, Request

LEMMA WriteBackRequest ==
  ASSUME req \in [Slots -> Request], NEW s \in Slots, NEW t \in Text, WriteBack(s, t)
  PROVE  req' \in [Slots -> Request]
  <1>1. "truncate" \in PCs
    BY DEF PCs
  <1> QED
    BY <1>1 DEF WriteBack, Request

LEMMA BeginRequest ==
  ASSUME TypeOK, NEW s \in Slots, Begin(s)
  PROVE  req' \in [Slots -> Request] /\ ops' \in 0 .. MaxOps
  <1>1. req \in [Slots -> Request] /\ ops \in 0 .. MaxOps
    BY DEF TypeOK
  <1>2. ops' = ops + 1 /\ ops < MaxOps
    BY DEF Begin
  <1>3. ops' \in 0 .. MaxOps
    BY <1>1, <1>2, BoundAssumption
  <1>4. ASSUME NEW g \in Asked(ops + 1),
               req' = [req EXCEPT ![s] = [Idle EXCEPT
                 !.pc = IF g.user = AllUsers THEN "runner" ELSE "create.user",
                 !.kind = "create", !.rule = g]]
        PROVE  req' \in [Slots -> Request]
    <2>1. g \in Grant
      BY DEF Asked
    <2>2. "runner" \in PCs /\ "create.user" \in PCs
      BY DEF PCs
    <2> QED
      BY <1>1, <1>4, <2>1, <2>2, IdleRequest DEF Request
  <1>5. ASSUME NEW i \in 1 .. ops,
               req' = [req EXCEPT ![s] = [Idle EXCEPT !.pc = "runner", !.rule.id = i]]
        PROVE  req' \in [Slots -> Request]
    <2>1. i \in Id
      BY <1>1, BoundAssumption DEF Id
    <2>2. [Idle.rule EXCEPT !.id = i] \in Grant
      BY <2>1, IdleRequest DEF Grant, Request
    <2>3. "runner" \in PCs
      BY DEF PCs
    <2> QED
      BY <1>1, <1>5, <2>2, <2>3, IdleRequest DEF Request
  <1> QED
    BY <1>3, <1>4, <1>5 DEF Begin

LEMMA TypeStep == TypeOK /\ [Next]_vars => TypeOK'
  <1> SUFFICES ASSUME TypeOK, [Next]_vars PROVE TypeOK'
    OBVIOUS
  <1>t. /\ file \in Text /\ nginx \in {"absent", "stopped", "up"} /\ loaded \in SUBSET Grant
        /\ signalled \in BOOLEAN /\ missed \in BOOLEAN /\ req \in [Slots -> Request]
        /\ ops \in 0 .. MaxOps /\ faults \in 0 .. MaxFaults
    BY DEF TypeOK
  <1>r. \A s \in Slots : req[s].rule \in Grant /\ req[s].text \in Text
    BY <1>t DEF Request
  <1>p. {"runner", "create.check", "create.read", "remove.read", "truncate", "write",
         "reload", "done"} \subseteq PCs
    BY DEF PCs
  <1>o. {"Ok", "NotFound", "InvalidAclFile", "Exist", "Repository"} \subseteq Outcomes
    BY DEF Outcomes
  <1>1. ASSUME NEW s \in Slots, Begin(s) PROVE TypeOK'
    BY <1>t, <1>1, BeginRequest DEF Begin, TypeOK
  <1>2. ASSUME NEW s \in Slots, Reply(s) PROVE TypeOK'
    BY <1>t, <1>2, IdleRequest DEF Reply, TypeOK
  <1>3. ASSUME NEW s \in Slots, CreateUser(s) PROVE TypeOK'
    <2>1. req' \in [Slots -> Request]
      BY <1>t, <1>3, <1>p, <1>o, GotoRequest, AnswerRequest DEF CreateUser
    <2> QED
      BY <1>t, <1>3, <2>1 DEF CreateUser, TypeOK
  <1>4. ASSUME NEW s \in Slots, FindRunner(s) PROVE TypeOK'
    <2> DEFINE l == IF req[s].kind = "create" THEN "create.check" ELSE "remove.read"
               b == nginx # "absent"
    <2>a. l \in PCs /\ b \in BOOLEAN
      BY <1>p
    <2>b. req' = [req EXCEPT ![s].pc = l, ![s].runner = b]
      BY <1>4 DEF FindRunner
    <2> HIDE DEF l, b
    <2>1. req' \in [Slots -> Request]
      BY <1>t, <2>a, <2>b DEF Request
    <2> QED
      BY <1>t, <1>4, <2>1 DEF FindRunner, TypeOK
  <1>5. ASSUME NEW s \in Slots, CreateCheck(s) PROVE TypeOK'
    <2>1. req' \in [Slots -> Request]
      BY <1>t, <1>5, <1>p, <1>o, GotoRequest, AnswerRequest DEF CreateCheck
    <2> QED
      BY <1>t, <1>5, <2>1 DEF CreateCheck, TypeOK
  <1>6. ASSUME NEW s \in Slots, CreateRead(s) PROVE TypeOK'
    <2>1. Appended(file, req[s].rule) \in Text
      BY <1>t, <1>r, AppendedText
    <2>2. req' \in [Slots -> Request]
      BY <1>t, <1>6, <2>1, WriteBackRequest DEF CreateRead
    <2> QED
      BY <1>t, <1>6, <2>2 DEF CreateRead, TypeOK
  <1>7. ASSUME NEW s \in Slots, RemoveRead(s) PROVE TypeOK'
    <2>1. Dropped(file, req[s].rule.id) \in Text
      BY <1>t, DroppedText
    <2>2. req' \in [Slots -> Request]
      BY <1>t, <1>7, <1>p, <1>o, <2>1, GotoRequest, AnswerRequest, WriteBackRequest
         DEF RemoveRead
    <2> QED
      BY <1>t, <1>7, <2>2 DEF RemoveRead, TypeOK
  <1>8. ASSUME NEW s \in Slots, Truncate(s) PROVE TypeOK'
    <2>1. req' \in [Slots -> Request]
      BY <1>t, <1>8, <1>p, GotoRequest DEF Truncate
    <2> QED
      BY <1>t, <1>8, <2>1, EmptyText DEF Truncate, TypeOK
  <1>9. ASSUME NEW s \in Slots, Write(s) PROVE TypeOK'
    <2>1. req' \in [Slots -> Request]
      BY <1>t, <1>9, <1>p, GotoRequest DEF Write
    <2>2. file' \in Text
      BY <1>t, <1>r, <1>9, OverText DEF Write
    <2> QED
      BY <1>t, <1>9, <2>1, <2>2 DEF Write, TypeOK
  <1>10. ASSUME NEW s \in Slots, Reload(s) PROVE TypeOK'
    <2>1. req' \in [Slots -> Request]
      BY <1>t, <1>10, <1>o, AnswerRequest DEF Reload
    <2>2. signalled' \in BOOLEAN /\ missed' \in BOOLEAN
      BY <1>t, <1>10 DEF Reload
    <2> QED
      BY <1>t, <1>10, <2>1, <2>2 DEF Reload, TypeOK
  <1>11. ASSUME NEW s \in Slots, Fail(s) PROVE TypeOK'
    <2>1. req' \in [Slots -> Request]
      BY <1>t, <1>11, <1>o, AnswerRequest DEF Fail
    <2>2. missed' \in BOOLEAN /\ faults' \in 0 .. MaxFaults
      BY <1>t, <1>11, BoundAssumption DEF Fail
    <2> QED
      BY <1>t, <1>11, <2>1, <2>2 DEF Fail, TypeOK
  <1>12. CASE NginxReload
    <2>1. loaded' \in SUBSET Grant /\ missed' \in BOOLEAN
      BY <1>t, <1>12 DEF NginxReload, LoadFile, Text
    <2> QED
      BY <1>t, <1>12, <2>1 DEF NginxReload, TypeOK
  <1>13. CASE NginxStop
    <2>1. faults' \in 0 .. MaxFaults
      BY <1>t, <1>13, BoundAssumption DEF NginxStop
    <2> QED
      BY <1>t, <1>13, <2>1 DEF NginxStop, TypeOK
  <1>14. CASE NginxStart
    <2>1. loaded' \in SUBSET Grant /\ missed' \in BOOLEAN
      BY <1>t, <1>14 DEF NginxStart, LoadFile, Text
    <2> QED
      BY <1>t, <1>14, <2>1 DEF NginxStart, TypeOK
  <1>15. CASE UNCHANGED vars
    BY <1>t, <1>15 DEF vars, TypeOK
  <1> QED
    BY <1>1, <1>2, <1>3, <1>4, <1>5, <1>6, <1>7, <1>8, <1>9, <1>10, <1>11, <1>12, <1>13,
       <1>14, <1>15 DEF Next, Serve

(* Every reachable state is well typed, for all users, ports and numbers   *)
(* of concurrent requests.                                                 *)
THEOREM TypeCorrect == Spec => []TypeOK
  <1>1. Init => TypeOK
    <2> SUFFICES ASSUME Init PROVE TypeOK
      OBVIOUS
    <2>1. file \in Text
      BY EmptyText DEF Init, Text
    <2>2. req \in [Slots -> Request]
      BY IdleRequest DEF Init
    <2>3. ops \in 0 .. MaxOps /\ faults \in 0 .. MaxFaults
      BY BoundAssumption DEF Init
    <2> QED
      BY <2>1, <2>2, <2>3 DEF Init, TypeOK
  <1> QED
    BY <1>1, TypeStep, PTL DEF Spec

-----------------------------------------------------------------------------
(* Nginx agrees with the file.  The invariant: a difference between the    *)
(* two is always announced, by a request about to reload, by a signal or   *)
(* by a reload that is known to have been missed.                          *)
Announced == signalled \/ missed \/ \E s \in Slots : At(s, "reload")
AgreeInv == nginx = "up" /\ file.form = "whole" /\ loaded # file.rules => Announced

(* A step that leaves nginx and the file alone keeps every announcement,   *)
(* unless it is the reload itself.                                         *)
LEMMA AnnouncedStays ==
  ASSUME TypeOK, AgreeInv, UNCHANGED <<file, nginx, loaded, signalled>>,
         missed' = missed, NEW s \in Slots, ~At(s, "reload"),
         \A t \in Slots \ {s} : req'[t] = req[t]
  PROVE  AgreeInv'
  BY DEF AgreeInv, Announced, At

LEMMA AgreeStep == TypeOK /\ AgreeInv /\ [Next]_vars => AgreeInv'
  <1> SUFFICES ASSUME TypeOK, AgreeInv, [Next]_vars PROVE AgreeInv'
    OBVIOUS
  <1>t. req \in [Slots -> Request]
    BY DEF TypeOK
  <1>1. ASSUME NEW s \in Slots,
               Begin(s) \/ Reply(s) \/ CreateUser(s) \/ FindRunner(s) \/ CreateCheck(s)
               \/ CreateRead(s) \/ RemoveRead(s)
        PROVE  AgreeInv'
    <2>1. ~At(s, "reload")
      BY <1>1 DEF Begin, Reply, CreateUser, FindRunner, CreateCheck, CreateRead,
                  RemoveRead, At
    <2>2. UNCHANGED <<file, nginx, loaded, signalled>> /\ missed' = missed
      BY <1>1 DEF Begin, Reply, CreateUser, FindRunner, CreateCheck, CreateRead, RemoveRead
    <2>3. \A t \in Slots \ {s} : req'[t] = req[t]
      BY <1>1, <1>t DEF Begin, Reply, CreateUser, FindRunner, CreateCheck, CreateRead,
                        RemoveRead, Goto, Answer, WriteBack
    <2> QED
      BY <2>1, <2>2, <2>3, AnnouncedStays
  <1>2. ASSUME NEW s \in Slots, Truncate(s) PROVE AgreeInv'
    BY <1>2 DEF Truncate, AgreeInv, Empty
  <1>3. ASSUME NEW s \in Slots, Write(s) PROVE AgreeInv'
    <2>1. req'[s].pc = "reload"
      BY <1>3, <1>t DEF Write, Goto, Request
    <2> QED
      BY <2>1 DEF AgreeInv, Announced, At
  <1>4. ASSUME NEW s \in Slots, Reload(s) PROVE AgreeInv'
    BY <1>4 DEF Reload, AgreeInv, Announced
  <1>5. ASSUME NEW s \in Slots, Fail(s) PROVE AgreeInv'
    <2>1. CASE At(s, "reload")
      BY <1>5, <2>1 DEF Fail, AgreeInv, Announced
    <2>2. CASE ~At(s, "reload")
      <3>1. UNCHANGED <<file, nginx, loaded, signalled>>
        BY <1>5 DEF Fail
      <3>2. \A t \in Slots \ {s} : req'[t] = req[t]
        BY <1>5, <1>t DEF Fail, Answer
      <3>3. missed' = missed
        BY <1>5, <2>2 DEF Fail, TypeOK
      <3> QED
        BY <2>2, <3>1, <3>2, <3>3, AnnouncedStays
    <2> QED
      BY <2>1, <2>2
  <1>6. CASE NginxReload
    BY <1>6 DEF NginxReload, LoadFile, AgreeInv
  <1>7. CASE NginxStop
    BY <1>7 DEF NginxStop, AgreeInv
  <1>8. CASE NginxStart
    BY <1>8 DEF NginxStart, LoadFile, AgreeInv
  <1>9. CASE UNCHANGED vars
    BY <1>9 DEF vars, AgreeInv, Announced, At
  <1> QED
    BY <1>1, <1>2, <1>3, <1>4, <1>5, <1>6, <1>7, <1>8, <1>9 DEF Next, Serve

(* However many requests write the file at once, nginx works by the rules  *)
(* of the file unless the difference is announced                          *)
(* (nginx-proxy-acl-aggregate.repository.ts, create and remove).           *)
THEOREM NginxAgreement == Spec => []NginxAgrees
  <1>1. Init => AgreeInv
    BY DEF Init, AgreeInv, Empty
  <1>2. AgreeInv => NginxAgrees
    BY DEF AgreeInv, NginxAgrees, Announced
  <1> QED
    BY <1>1, <1>2, TypeCorrect, AgreeStep, PTL DEF Spec

-----------------------------------------------------------------------------
(* One request at a time.                                                  *)

(* What is true of the request under way: nobody else touches the file, so *)
(* what it read is still there, and what it is about to write is sound.    *)
Sound(t) == t.form \in {"whole", "headless"} /\ t.rest = {} /\ Disjoint(t.rules)

RequestSound(s) ==
  /\ At(s, "create.read") => Parses(file) /\ ~Exists(file, req[s].rule)
  /\ At(s, "truncate") \/ At(s, "write") => Sound(req[s].text)
  /\ At(s, "write") => file = Empty

AloneInv ==
  /\ Sound(file) \/ file = Empty
  /\ \A s \in Slots : RequestSound(s)

(* A grant that collides with no row may be added.                         *)
LEMMA DisjointAdd ==
  ASSUME NEW R \in SUBSET Grant, NEW g \in Grant, Disjoint(R),
         \A h \in R : ~Collides(g, h)
  PROVE  Disjoint(R \cup {g})
  <1>1. \A h \in Grant : h.user = AllUsers => h.ports = {}
    BY DEF Grant
  <1>2. \A h \in R : h.user = g.user => g.ports \cap h.ports = {} /\ h.ports # {}
    BY DEF Collides
  <1>3. \A h \in R : g.user = AllUsers => h.ports # {}
    BY DEF Collides
  <1>4. \A h \in R : h.user # AllUsers
    BY <1>1 DEF Collides
  <1> QED
    BY <1>2, <1>3, <1>4 DEF Disjoint

(* Rows can always be taken away.                                          *)
LEMMA DisjointSubset ==
  ASSUME NEW R, NEW Q \in SUBSET R, Disjoint(R) PROVE Disjoint(Q)
  BY DEF Disjoint

LEMMA AloneStep ==
  ASSUME \A s, t \in Slots : s = t
  PROVE  TypeOK /\ AloneInv /\ [Next]_vars => AloneInv'
  <1> SUFFICES ASSUME TypeOK, AloneInv, [Next]_vars PROVE AloneInv'
    OBVIOUS
  <1>t. file \in Text /\ req \in [Slots -> Request]
    BY DEF TypeOK
  <1>a. ASSUME NEW s \in Slots, NEW f, Sound(f) \/ f = Empty, file' = f, RequestSound(s)'
        PROVE  AloneInv'
    BY <1>a DEF AloneInv
  <1>f. Sound(file) \/ file = Empty
    BY DEF AloneInv
  <1>1. ASSUME NEW s \in Slots,
               Begin(s) \/ Reply(s) \/ CreateUser(s) \/ FindRunner(s) \/ Reload(s) \/ Fail(s)
        PROVE  AloneInv'
    <2>1. file' = file
      BY <1>1 DEF Begin, Reply, CreateUser, FindRunner, Reload, Fail
    <2>2. req'[s].pc \notin {"create.read", "truncate", "write"}
      <3>1. CASE Begin(s)
        <4>1. ASSUME NEW g \in Asked(ops + 1),
                     req' = [req EXCEPT ![s] = [Idle EXCEPT
                       !.pc = IF g.user = AllUsers THEN "runner" ELSE "create.user",
                       !.kind = "create", !.rule = g]]
              PROVE  req'[s].pc \in {"runner", "create.user"}
          BY <1>t, <4>1 DEF Idle
        <4>2. ASSUME NEW i \in 1 .. ops,
                     req' = [req EXCEPT ![s] = [Idle EXCEPT !.pc = "runner", !.rule.id = i]]
              PROVE  req'[s].pc = "runner"
          BY <1>t, <4>2 DEF Idle
        <4> QED
          BY <3>1, <4>1, <4>2 DEF Begin
      <3>2. CASE Reply(s)
        BY <1>t, <3>2 DEF Reply, Idle
      <3>3. CASE FindRunner(s)
        <4>1. req'[s].pc = IF req[s].kind = "create" THEN "create.check" ELSE "remove.read"
          BY <1>t, <3>3 DEF FindRunner, Request
        <4> QED
          BY <4>1
      <3>4. CASE CreateUser(s) \/ Reload(s) \/ Fail(s)
        BY <1>t, <3>4 DEF CreateUser, Reload, Fail, Goto, Answer, Request
      <3> QED
        BY <1>1, <3>1, <3>2, <3>3, <3>4
    <2> QED
      BY <1>a, <1>f, <2>1, <2>2 DEF RequestSound, At
  <1>2. ASSUME NEW s \in Slots, CreateCheck(s) PROVE AloneInv'
    <2>1. file' = file
      BY <1>2 DEF CreateCheck
    <2>2. req'[s].pc \notin {"truncate", "write"} /\ req'[s].rule = req[s].rule
      BY <1>2, <1>t DEF CreateCheck, Goto, Answer, Request
    <2>3. req'[s].pc = "create.read" => Parses(file) /\ ~Exists(file, req[s].rule)
      BY <1>2, <1>t DEF CreateCheck, Goto, Answer, Request
    <2>4. Parses(file)' = Parses(file) /\ Exists(file, req[s].rule)' = Exists(file, req[s].rule)
      BY <2>1, <2>2 DEF Parses, Exists, Rows
    <2>5. RequestSound(s)'
      BY <2>2, <2>3, <2>4 DEF RequestSound, At
    <2> QED
      BY <1>a, <1>f, <2>1, <2>5
  <1>3. ASSUME NEW s \in Slots, CreateRead(s) PROVE AloneInv'
    <2> DEFINE g == req[s].rule
    <2>1. file' = file /\ req'[s].pc = "truncate" /\ req'[s].text = Appended(file, g)
      BY <1>3, <1>t DEF CreateRead, WriteBack, Request
    <2>2. Parses(file) /\ ~Exists(file, g)
      BY <1>3 DEF CreateRead, AloneInv, RequestSound
    <2>3. Sound(file)
      BY <1>f, <2>2 DEF Parses, Empty
    <2>4. g \in Grant /\ file.rules \in SUBSET Grant
      BY <1>t DEF Request, Text
    <2>5. \A h \in file.rules : ~Collides(g, h)
      BY <2>2 DEF Exists, Rows
    <2>6. Disjoint(file.rules \cup {g})
      BY <2>3, <2>4, <2>5, DisjointAdd DEF Sound
    <2>7. Sound(Appended(file, g))
      BY <2>2, <2>6 DEF Sound, Appended, Parses
    <2> QED
      BY <1>a, <1>f, <2>1, <2>7 DEF RequestSound, At
  <1>4. ASSUME NEW s \in Slots, RemoveRead(s) PROVE AloneInv'
    <2> DEFINE i == req[s].rule.id
    <2>1. file' = file
      BY <1>4 DEF RemoveRead
    <2>2. req'[s].pc \notin {"create.read", "write"}
      BY <1>4, <1>t DEF RemoveRead, Goto, Answer, WriteBack, Request
    <2>3. req'[s].pc = "truncate" => Parses(file) /\ req'[s].text = Dropped(file, i)
      BY <1>4, <1>t DEF RemoveRead, Goto, Answer, WriteBack, Request
    <2>4. ASSUME Parses(file) PROVE Sound(Dropped(file, i))
      <3>1. Sound(file)
        BY <1>f, <2>4 DEF Parses, Empty
      <3>2. Disjoint({g \in file.rules : g.id # i})
        BY <3>1, DisjointSubset DEF Sound
      <3>3. Dropped(file, i) = [file EXCEPT !.rules = {g \in @ : g.id # i}]
        BY <3>1 DEF Dropped, Sound
      <3> QED
        BY <1>t, <3>1, <3>2, <3>3 DEF Sound, Text
    <2> QED
      BY <1>a, <1>f, <2>1, <2>2, <2>3, <2>4 DEF RequestSound, At
  <1>5. ASSUME NEW s \in Slots, Truncate(s) PROVE AloneInv'
    <2>1. file' = Empty /\ req'[s].pc = "write" /\ req'[s].text = req[s].text
      BY <1>5, <1>t DEF Truncate, Goto, Request
    <2>2. Sound(req[s].text)
      BY <1>5 DEF Truncate, AloneInv, RequestSound
    <2> QED
      BY <1>a, <2>1, <2>2 DEF RequestSound, At
  <1>6. ASSUME NEW s \in Slots, Write(s) PROVE AloneInv'
    <2>1. req'[s].pc = "reload"
      BY <1>6, <1>t DEF Write, Goto, Request
    <2>2. file = Empty /\ Sound(req[s].text)
      BY <1>6 DEF Write, AloneInv, RequestSound
    <2>3. file' = req[s].text
      BY <1>6, <2>2 DEF Write, Over, Empty
    <2> QED
      BY <1>a, <2>1, <2>2, <2>3 DEF RequestSound, At
  <1>7. ASSUME UNCHANGED <<file, req>> PROVE AloneInv'
    BY <1>7 DEF AloneInv, RequestSound, At, Parses, Exists, Rows
  <1>8. NginxReload \/ NginxStop \/ NginxStart \/ UNCHANGED vars => AloneInv'
    BY <1>7 DEF NginxReload, NginxStop, NginxStart, vars
  <1> QED
    BY <1>1, <1>2, <1>3, <1>4, <1>5, <1>6, <1>8 DEF Next, Serve

(* When requests are served one at a time, no two rows of the file ever    *)
(* collide, whatever fails or crashes in between                           *)
(* (nginx-proxy-acl.repository.ts, create and _checkAclExist).             *)
THEOREM NoDuplicateAlone ==
  ASSUME \A s, t \in Slots : s = t PROVE Spec => []NoDuplicateGrant
  <1>1. Init => AloneInv
    BY DEF Init, AloneInv, RequestSound, Sound, Disjoint, At, Idle, Empty
  <1>2. AloneInv => NoDuplicateGrant
    BY DEF AloneInv, Sound, NoDuplicateGrant, Rows, Empty, Disjoint
  <1>3. TypeOK /\ AloneInv /\ [Next]_vars => AloneInv'
    BY AloneStep
  <1> QED
    BY <1>1, <1>2, <1>3, TypeCorrect, PTL DEF Spec

-----------------------------------------------------------------------------
(* The file against the abstract store, one request at a time.             *)

(* A grant that is on its way to the file.                                 *)
Coming(s) ==
  \/ req[s].pc \in {"create.user", "create.check", "create.read"}
  \/ At(s, "runner") /\ req[s].kind = "create"

(* What the text about to be written does to the file: it adds one grant   *)
(* that was not there, or it takes one number away.                        *)
Adds(s) ==
  \E g \in Grant :
    /\ \A h \in file.rules : ~Collides(g, h) /\ h.id # g.id
    /\ req[s].text.rules = file.rules \cup {g}

Takes(s) == \E i \in Id : req[s].text.rules = {g \in file.rules : g.id # i}

(* Numbers are given once, so the grant of a request is not in the file    *)
(* before its text is; a text is only computed from a file that parses,    *)
(* which is still what it was when the text replaces it.                   *)
Fits(s) ==
  /\ Coming(s) => req[s].rule.id <= ops /\ \A g \in file.rules : g.id # req[s].rule.id
  /\ At(s, "truncate") => Parses(file) /\ (Adds(s) \/ Takes(s))
  /\ At(s, "truncate") \/ At(s, "write") =>
       req[s].text.form = "whole" /\ \A g \in req[s].text.rules : g.id <= ops

StoreInv ==
  /\ \A g \in file.rules : g.id <= ops
  /\ \A s \in Slots : Fits(s)
  /\ FileIntact

-----------------------------------------------------------------------------
(* A step of the only slot that neither writes nor has something to write. *)
LEMMA ElsewhereStore ==
  ASSUME \A s, t \in Slots : s = t, TypeOK, StoreInv, NEW s \in Slots,
         file' = file, ops' \in Nat, ops <= ops', faults' = 0 => faults = 0,
         ~At(s, "write"), ~At(s, "truncate")', ~At(s, "write")',
         Coming(s)' => /\ req'[s].rule.id <= ops'
                       /\ \A g \in file.rules : g.id # req'[s].rule.id
  PROVE  StoreInv'
  <1>1. \A g \in file.rules : g.id <= ops /\ g.id \in Nat
    BY DEF StoreInv, TypeOK, Text, Grant, Id
  <1>2. ops \in Nat
    BY DEF TypeOK
  <1>3. \A g \in file'.rules : g.id <= ops'
    BY <1>1, <1>2
  <1>4. Fits(s)'
    BY DEF Fits
  <1>5. FileIntact'
    BY DEF FileIntact, StoreInv
  <1> QED
    BY <1>3, <1>4, <1>5 DEF StoreInv

LEMMA StoreStep ==
  ASSUME \A s, t \in Slots : s = t
  PROVE  TypeOK /\ AloneInv /\ StoreInv /\ [Next]_vars => StoreInv'
  <1> SUFFICES ASSUME TypeOK, AloneInv, StoreInv, [Next]_vars PROVE StoreInv'
    OBVIOUS
  <1>t. /\ file \in Text /\ req \in [Slots -> Request] /\ ops \in Nat
        /\ \A g \in file.rules : g.id \in Nat /\ g.id <= ops
    BY DEF TypeOK, StoreInv, Text, Grant, Id
  <1>1. ASSUME NEW s \in Slots, Begin(s) PROVE StoreInv'
    <2>1. file' = file /\ faults' = faults /\ ops' = ops + 1 /\ ~At(s, "write")
      BY <1>1 DEF Begin, At
    <2>2. ASSUME NEW g \in Asked(ops + 1),
                 req' = [req EXCEPT ![s] = [Idle EXCEPT
                   !.pc = IF g.user = AllUsers THEN "runner" ELSE "create.user",
                   !.kind = "create", !.rule = g]]
          PROVE  StoreInv'
      <3>1. req'[s].rule.id = ops + 1 /\ req'[s].pc \in {"runner", "create.user"}
        BY <1>t, <2>2 DEF Idle, Asked
      <3>2. ~At(s, "truncate")' /\ ~At(s, "write")'
        BY <3>1 DEF At
      <3> QED
        BY <1>t, <2>1, <3>1, <3>2, ElsewhereStore
    <2>3. ASSUME NEW i \in 1 .. ops,
                 req' = [req EXCEPT ![s] = [Idle EXCEPT !.pc = "runner", !.rule.id = i]]
          PROVE  StoreInv'
      <3>1. req'[s].pc = "runner" /\ req'[s].kind = "remove"
        BY <1>t, <2>3 DEF Idle
      <3>2. ~At(s, "truncate")' /\ ~At(s, "write")' /\ ~Coming(s)'
        BY <3>1 DEF At, Coming
      <3> QED
        BY <1>t, <2>1, <3>2, ElsewhereStore
    <2> QED
      BY <1>1, <2>2, <2>3 DEF Begin
  <1>2. ASSUME NEW s \in Slots, Reply(s) \/ Reload(s) PROVE StoreInv'
    <2>1. file' = file /\ faults' = faults /\ ops' = ops /\ ~At(s, "write")
      BY <1>2 DEF Reply, Reload, At
    <2>2. req'[s].pc \in {"idle", "done"}
      BY <1>2, <1>t DEF Reply, Reload, Answer, Idle, Request
    <2>3. ~At(s, "truncate")' /\ ~At(s, "write")' /\ ~Coming(s)'
      BY <2>2 DEF At, Coming
    <2> QED
      BY <1>t, <2>1, <2>3, ElsewhereStore
  <1>3. ASSUME NEW s \in Slots, CreateUser(s) \/ FindRunner(s) \/ CreateCheck(s)
        PROVE  StoreInv'
    <2>1. file' = file /\ faults' = faults /\ ops' = ops /\ ~At(s, "write")
      BY <1>3 DEF CreateUser, FindRunner, CreateCheck, At
    <2>2. /\ req'[s].rule = req[s].rule /\ req'[s].kind = req[s].kind
          /\ req'[s].pc \in {"runner", "done", "create.check", "create.read", "remove.read"}
          /\ req'[s].pc # "done" => Coming(s) \/ req[s].kind # "create"
          /\ req'[s].pc \in {"create.check", "create.read"} => Coming(s)
      <3>1. CASE CreateUser(s)
        BY <3>1, <1>t DEF CreateUser, Goto, Answer, Coming, At, Request
      <3>2. CASE FindRunner(s)
        BY <3>2, <1>t DEF FindRunner, Coming, At, Request
      <3>3. CASE CreateCheck(s)
        BY <3>3, <1>t DEF CreateCheck, Goto, Answer, Coming, At, Request
      <3> QED
        BY <1>3, <3>1, <3>2, <3>3
    <2>3. ~At(s, "truncate")' /\ ~At(s, "write")'
      BY <2>2 DEF At
    <2>4. Coming(s)' => Coming(s)
      BY <2>2 DEF Coming, At
    <2>5. Coming(s) => req[s].rule.id <= ops /\ \A g \in file.rules : g.id # req[s].rule.id
      BY DEF StoreInv, Fits
    <2> QED
      BY <1>t, <2>1, <2>2, <2>3, <2>4, <2>5, ElsewhereStore
  <1>4. ASSUME NEW s \in Slots, CreateRead(s) PROVE StoreInv'
    <2> DEFINE g == req[s].rule
    <2>1. /\ UNCHANGED <<file, faults, ops>> /\ At(s, "create.read")
          /\ req'[s].pc = "truncate" /\ req'[s].text = Appended(file, g)
      BY <1>4, <1>t DEF CreateRead, WriteBack, Request
    <2>2. Parses(file) /\ ~Exists(file, g) /\ file.form = "whole" /\ g \in Grant
      <3>1. Parses(file) /\ ~Exists(file, g)
        BY <2>1 DEF AloneInv, RequestSound
      <3> QED
        BY <3>1, <1>t DEF AloneInv, Sound, Parses, Empty, Request
    <2>3. Appended(file, g) = [form |-> "whole", rules |-> file.rules \cup {g}, rest |-> {}]
      BY <2>2 DEF Appended
    <2>4. g.id <= ops /\ \A h \in file.rules : h.id # g.id /\ ~Collides(g, h)
      BY <2>1, <2>2 DEF StoreInv, Fits, Coming, At, Exists, Rows
    <2>5. Adds(s)'
      BY <2>1, <2>2, <2>3, <2>4 DEF Adds
    <2>6. Fits(s)'
      BY <1>t, <2>1, <2>2, <2>3, <2>4, <2>5 DEF Fits, Coming, At, Parses
    <2>7. FileIntact'
      BY <2>1, <2>2 DEF FileIntact
    <2> QED
      BY <1>t, <2>1, <2>6, <2>7 DEF StoreInv
  <1>5. ASSUME NEW s \in Slots, RemoveRead(s) PROVE StoreInv'
    <2> DEFINE i == req[s].rule.id
    <2>1. UNCHANGED <<file, faults, ops>> /\ At(s, "remove.read")
      BY <1>5 DEF RemoveRead
    <2>2. CASE req'[s].pc = "truncate" /\ req'[s].text = Dropped(file, i) /\ Parses(file)
      <3>1. Sound(file) /\ file.form = "whole"
        BY <2>2 DEF AloneInv, Sound, Parses, Empty
      <3>2. Dropped(file, i) = [file EXCEPT !.rules = {g \in @ : g.id # i}]
        BY <3>1 DEF Dropped, Sound
      <3>3. /\ req'[s].text.rules = {g \in file.rules : g.id # i}
            /\ req'[s].text.form = "whole"
        BY <1>t, <2>2, <3>1, <3>2 DEF Text
      <3>4. i \in Id
        BY <1>t DEF Request, Grant
      <3>5. Takes(s)'
        BY <2>1, <3>3, <3>4 DEF Takes
      <3>6. Fits(s)'
        BY <1>t, <2>1, <2>2, <3>3, <3>5 DEF Fits, Coming, At, Parses
      <3>7. FileIntact'
        BY <2>1, <3>1 DEF FileIntact
      <3> QED
        BY <1>t, <2>1, <3>6, <3>7 DEF StoreInv
    <2>3. CASE req'[s].pc \in {"done", "reload"}
      <3>1. ~At(s, "truncate")' /\ ~At(s, "write")' /\ ~Coming(s)' /\ ~At(s, "write")
        BY <2>1, <2>3 DEF At, Coming
      <3> QED
        BY <1>t, <2>1, <3>1, ElsewhereStore
    <2>4. \/ req'[s].pc = "truncate" /\ req'[s].text = Dropped(file, i) /\ Parses(file)
          \/ req'[s].pc \in {"done", "reload"}
      BY <1>5, <1>t DEF RemoveRead, Goto, Answer, WriteBack, Request
    <2> QED
      BY <2>2, <2>3, <2>4
  <1>6. ASSUME NEW s \in Slots, Truncate(s) PROVE StoreInv'
    <2>1. /\ file' = Empty /\ UNCHANGED <<faults, ops>> /\ req'[s].pc = "write"
          /\ req'[s].text = req[s].text /\ At(s, "truncate")
      BY <1>6, <1>t DEF Truncate, Goto, Request
    <2>2. Fits(s)'
      BY <2>1 DEF StoreInv, Fits, Coming, At
    <2>3. FileIntact'
      BY <2>1 DEF FileIntact, At
    <2> QED
      BY <2>1, <2>2, <2>3 DEF StoreInv, Empty
  <1>7. ASSUME NEW s \in Slots, Write(s) PROVE StoreInv'
    <2>1. UNCHANGED <<faults, ops>> /\ req'[s].pc = "reload" /\ At(s, "write")
      BY <1>7, <1>t DEF Write, Goto, Request
    <2>2. file' = req[s].text
      <3>1. file = Empty
        BY <2>1 DEF AloneInv, RequestSound
      <3> QED
        BY <1>7, <3>1 DEF Write, Over, Empty
    <2>3. req[s].text.form = "whole" /\ \A g \in req[s].text.rules : g.id <= ops
      BY <2>1 DEF StoreInv, Fits
    <2>4. Fits(s)'
      BY <2>1 DEF Fits, Coming, At
    <2>5. FileIntact'
      BY <2>2, <2>3 DEF FileIntact
    <2> QED
      BY <2>1, <2>2, <2>3, <2>4, <2>5 DEF StoreInv
  <1>8. ASSUME NEW s \in Slots, Fail(s) PROVE StoreInv'
    <2>1. file' = file /\ ops' = ops /\ faults' = faults + 1 /\ faults \in Nat
      BY <1>8 DEF Fail, TypeOK
    <2>2. req'[s].pc = "done"
      BY <1>8, <1>t DEF Fail, Answer
    <2>3. Fits(s)'
      BY <2>2 DEF Fits, Coming, At
    <2>4. FileIntact'
      BY <2>1 DEF FileIntact
    <2> QED
      BY <1>t, <2>1, <2>3, <2>4 DEF StoreInv
  <1>9. ASSUME UNCHANGED <<file, req, ops>>, faults' = 0 => faults = 0 PROVE StoreInv'
    BY <1>9 DEF StoreInv, Fits, Coming, At, Adds, Takes, Parses, FileIntact
  <1>10. CASE NginxStop
    BY <1>9, <1>10 DEF NginxStop, TypeOK
  <1>11. NginxReload \/ NginxStart \/ UNCHANGED vars => StoreInv'
    BY <1>9 DEF NginxReload, NginxStart, vars
  <1> QED
    BY <1>1, <1>2, <1>3, <1>4, <1>5, <1>6, <1>7, <1>8, <1>10, <1>11 DEF Next, Serve

LEMMA OneAtATime ==
  ASSUME \A s, t \in Slots : s = t
  PROVE  Spec => [](TypeOK /\ AloneInv /\ StoreInv)
  <1>1. Init => AloneInv
    BY DEF Init, AloneInv, RequestSound, Sound, Disjoint, At, Idle, Empty
  <1>2. Init => StoreInv
    BY DEF Init, StoreInv, Fits, Coming, FileIntact, At, Idle, Empty
  <1>3. TypeOK /\ AloneInv /\ [Next]_vars => AloneInv'
    BY AloneStep
  <1>4. TypeOK /\ AloneInv /\ StoreInv /\ [Next]_vars => StoreInv'
    BY StoreStep
  <1> QED
    BY <1>1, <1>2, <1>3, <1>4, TypeCorrect, PTL DEF Spec

(* Served one request at a time and without faults, the file is a map the  *)
(* API and nginx understand whenever nobody is writing it: no text that    *)
(* create or remove computes spoils it (nginx-proxy-acl.repository.ts).    *)
THEOREM FileStaysIntact ==
  ASSUME \A s, t \in Slots : s = t PROVE Spec => []FileIntact
  <1>1. StoreInv => FileIntact
    BY DEF StoreInv
  <1> QED
    BY <1>1, OneAtATime, PTL

-----------------------------------------------------------------------------
(* The refinement.  What the abstract store sees of a state.               *)
Granted == IF Writing THEN req[CHOOSE s \in Slots : At(s, "write")].text.rules ELSE file.rules
Broken == ~Parses(file) /\ ~Writing

LEMMA StoreView ==
  ASSUME \A s, t \in Slots : s = t, NEW s \in Slots
  PROVE  /\ At(s, "write") => Granted = req[s].text.rules /\ Broken = FALSE
         /\ ~At(s, "write") => Granted = file.rules /\ Broken = ~Parses(file)
  <1>1. ASSUME At(s, "write") PROVE (CHOOSE t \in Slots : At(t, "write")) = s
    BY <1>1
  <1>2. Writing <=> At(s, "write")
    BY DEF Writing
  <1> QED
    BY <1>1, <1>2 DEF Granted, Broken

LEMMA StoreViewNext ==
  ASSUME \A s, t \in Slots : s = t, NEW s \in Slots
  PROVE  /\ At(s, "write")' => Granted' = req'[s].text.rules /\ Broken' = FALSE
         /\ ~At(s, "write")' => Granted' = file'.rules /\ Broken' = ~Parses(file')
  <1>1. ASSUME At(s, "write")' PROVE (CHOOSE t \in Slots : At(t, "write")') = s
    BY <1>1
  <1>2. Writing' <=> At(s, "write")'
    BY DEF Writing
  <1> QED
    BY <1>1, <1>2 DEF Granted, Broken, Parses

StoreMoves ==
  \/ \E g \in Grant :
       /\ ~Broken /\ \A h \in Granted : ~Collides(g, h) /\ h.id # g.id
       /\ Granted' = Granted \cup {g} /\ Broken' = Broken
  \/ \E i \in Id :
       ~Broken /\ Granted' = {g \in Granted : g.id # i} /\ Broken' = Broken
  \/ Granted' = {} /\ Broken' = TRUE
  \/ UNCHANGED <<Granted, Broken>>

LEMMA StepStores ==
  ASSUME \A s, t \in Slots : s = t, TypeOK, AloneInv, StoreInv, [Next]_vars
  PROVE  StoreMoves
  <1>t. file \in Text /\ req \in [Slots -> Request]
    BY DEF TypeOK
  <1>0. ASSUME NEW s \in Slots, file' = file, ~At(s, "write"), ~At(s, "write")'
        PROVE  UNCHANGED <<Granted, Broken>>
    <2>1. Granted = file.rules /\ Broken = ~Parses(file)
      BY <1>0, StoreView
    <2>2. Granted' = file'.rules /\ Broken' = ~Parses(file')
      BY <1>0, StoreViewNext
    <2>3. file'.rules = file.rules /\ Parses(file') = Parses(file)
      BY <1>0 DEF Parses
    <2> QED
      BY <2>1, <2>2, <2>3
  <1>1. ASSUME NEW s \in Slots,
               Begin(s) \/ Reply(s) \/ CreateUser(s) \/ FindRunner(s) \/ CreateCheck(s)
               \/ CreateRead(s) \/ RemoveRead(s) \/ Reload(s)
        PROVE  UNCHANGED <<Granted, Broken>>
    <2>1. file' = file /\ ~At(s, "write")
      BY <1>1 DEF Begin, Reply, CreateUser, FindRunner, CreateCheck, CreateRead, RemoveRead,
                  Reload, At
    <2>2. ~At(s, "write")'
      <3>1. CASE Begin(s)
        <4>1. ASSUME NEW g \in Asked(ops + 1),
                     req' = [req EXCEPT ![s] = [Idle EXCEPT
                       !.pc = IF g.user = AllUsers THEN "runner" ELSE "create.user",
                       !.kind = "create", !.rule = g]]
              PROVE  req'[s].pc # "write"
          BY <1>t, <4>1 DEF Idle
        <4>2. ASSUME NEW i \in 1 .. ops,
                     req' = [req EXCEPT ![s] = [Idle EXCEPT !.pc = "runner", !.rule.id = i]]
              PROVE  req'[s].pc # "write"
          BY <1>t, <4>2 DEF Idle
        <4> QED
          BY <3>1, <4>1, <4>2 DEF Begin, At
      <3>2. CASE Reply(s)
        BY <1>t, <3>2 DEF Reply, Idle, At
      <3>3. CASE FindRunner(s)
        BY <1>t, <3>3 DEF FindRunner, Request, At
      <3>4. CASE CreateUser(s) \/ CreateCheck(s) \/ Reload(s)
        BY <1>t, <3>4 DEF CreateUser, CreateCheck, Reload, Goto, Answer, At, Request
      <3>5. CASE CreateRead(s) \/ RemoveRead(s)
        BY <1>t, <3>5 DEF CreateRead, RemoveRead, Goto, Answer, WriteBack, At, Request
      <3> QED
        BY <1>1, <3>1, <3>2, <3>3, <3>4, <3>5
    <2> QED
      BY <1>0, <2>1, <2>2
  <1>2. ASSUME NEW s \in Slots, Truncate(s) PROVE StoreMoves
    <2>1. /\ At(s, "truncate") /\ ~At(s, "write") /\ At(s, "write")'
          /\ req'[s].text = req[s].text
      BY <1>2, <1>t DEF Truncate, Goto, Request, At
    <2>2. Parses(file) /\ (Adds(s) \/ Takes(s))
      BY <2>1 DEF StoreInv, Fits
    <2>3. /\ Granted = file.rules /\ Broken = FALSE
          /\ Granted' = req[s].text.rules /\ Broken' = FALSE
      BY <2>1, <2>2, StoreView, StoreViewNext
    <2>4. CASE Adds(s)
      <3>1. PICK g \in Grant : /\ \A h \in file.rules : ~Collides(g, h) /\ h.id # g.id
                               /\ req[s].text.rules = file.rules \cup {g}
        BY <2>4 DEF Adds
      <3>2. /\ ~Broken /\ \A h \in Granted : ~Collides(g, h) /\ h.id # g.id
            /\ Granted' = Granted \cup {g} /\ Broken' = Broken
        BY <2>3, <3>1
      <3> QED
        BY <3>2 DEF StoreMoves
    <2>5. CASE Takes(s)
      <3>1. PICK i \in Id : req[s].text.rules = {g \in file.rules : g.id # i}
        BY <2>5 DEF Takes
      <3>2. ~Broken /\ Granted' = {g \in Granted : g.id # i} /\ Broken' = Broken
        BY <2>3, <3>1
      <3> QED
        BY <3>2 DEF StoreMoves
    <2> QED
      BY <2>2, <2>4, <2>5
  <1>3. ASSUME NEW s \in Slots, Write(s) PROVE UNCHANGED <<Granted, Broken>>
    <2>1. At(s, "write") /\ ~At(s, "write")'
      BY <1>3, <1>t DEF Write, Goto, Request, At
    <2>2. file' = req[s].text /\ req[s].text.form = "whole"
      <3>1. file = Empty /\ req[s].text.form = "whole"
        BY <2>1 DEF AloneInv, RequestSound, StoreInv, Fits
      <3> QED
        BY <1>3, <3>1 DEF Write, Over, Empty
    <2>3. Parses(file')
      BY <2>2 DEF Parses
    <2> QED
      BY <2>1, <2>2, <2>3, StoreView, StoreViewNext
  <1>4. ASSUME NEW s \in Slots, Fail(s) PROVE StoreMoves
    <2>1. file' = file /\ ~At(s, "write")'
      BY <1>4, <1>t DEF Fail, Answer, At
    <2>2. CASE At(s, "write")
      <3>1. file' = Empty
        BY <2>1, <2>2 DEF AloneInv, RequestSound
      <3>2. file'.rules = {} /\ ~Parses(file')
        BY <3>1 DEF Empty, Parses
      <3>3. Granted' = {} /\ Broken' = TRUE
        BY <2>1, <3>2, StoreViewNext
      <3> QED
        BY <3>3 DEF StoreMoves
    <2>3. CASE ~At(s, "write")
      BY <1>0, <2>1, <2>3 DEF StoreMoves
    <2> QED
      BY <2>2, <2>3
  <1>5. ASSUME UNCHANGED <<file, req>> PROVE UNCHANGED <<Granted, Broken>>
    BY <1>5 DEF Granted, Broken, Writing, At, Parses
  <1>6. NginxReload \/ NginxStop \/ NginxStart \/ UNCHANGED vars => UNCHANGED <<Granted, Broken>>
    BY <1>5 DEF NginxReload, NginxStop, NginxStart, vars
  <1>7. UNCHANGED <<Granted, Broken>> => StoreMoves
    BY DEF StoreMoves
  <1> QED
    BY <1>1, <1>2, <1>3, <1>4, <1>6, <1>7 DEF Next, Serve

(* Served one request at a time, the file implements the abstract store:   *)
(* every write adds the one grant or takes the one number it was asked     *)
(* for, grants never collide, and only a write that stops half-way breaks  *)
(* the list (nginx-proxy-acl.repository.ts, create and remove).            *)
THEOREM FileImplementsStore ==
  ASSUME \A s, t \in Slots : s = t PROVE Spec => ImplementsStore
  <1>1. Init => Store!StoreInit
    <2> SUFFICES ASSUME Init PROVE Store!StoreInit
      OBVIOUS
    <2>1. ~Writing
      BY DEF Init, Writing, At, Idle
    <2> QED
      BY <2>1 DEF Init, Store!StoreInit, Empty, Parses
  <1>2. TypeOK /\ AloneInv /\ StoreInv /\ [Next]_vars => [Store!StoreNext]_(Store!storeVars)
    <2> SUFFICES ASSUME TypeOK, AloneInv, StoreInv, [Next]_vars
                 PROVE  [Store!StoreNext]_(Store!storeVars)
      OBVIOUS
    <2>1. StoreMoves
      BY StepStores
    <2>2. ASSUME NEW g \in Grant,
                 /\ ~Broken /\ \A h \in Granted : ~Collides(g, h) /\ h.id # g.id
                 /\ Granted' = Granted \cup {g} /\ Broken' = Broken
          PROVE  Store!StoreNext
      <3>1. Store!Add(g)
        BY <2>2 DEF Store!Add, Store!Collides, Collides, Granted, Broken
      <3> QED
        BY <3>1 DEF Store!StoreNext, Store!Grant, Grant, Store!Id, Id
    <2>3. ASSUME NEW i \in Id,
                 ~Broken /\ Granted' = {g \in Granted : g.id # i} /\ Broken' = Broken
          PROVE  Store!StoreNext
      <3>1. Store!Revoke(i)
        BY <2>3 DEF Store!Revoke, Granted, Broken
      <3> QED
        BY <3>1 DEF Store!StoreNext, Store!Id, Id
    <2>4. CASE Granted' = {} /\ Broken' = TRUE
      BY <2>4 DEF Store!StoreNext, Store!Break, Granted, Broken
    <2>5. CASE UNCHANGED <<Granted, Broken>>
      BY <2>5 DEF Store!storeVars, Granted, Broken
    <2> QED
      BY <2>1, <2>2, <2>3, <2>4, <2>5 DEF StoreMoves
  <1> QED
    BY <1>1, <1>2, OneAtATime, PTL DEF Spec, ImplementsStore, Store!StoreSpec

=============================================================================
