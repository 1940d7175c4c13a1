---------------------- MODULE ApplicationRequestsProofs ----------------------
(***************************************************************************)
(* ApplicationApi implements ApplicationRequests, for any host configs,    *)
(* namespaces, lattices, applications, credentials, requests and bounds.   *)
(***************************************************************************)
EXTENDS ApplicationApiProofs

(***************************************************************************)
(* What a handler does is what its request asks for.                       *)
(***************************************************************************)
Done == {"idle", "answered"}

\* The handler of each operation goes through its own requests to wadm, a patch
\* has read a version and a creation none, and the version stored is its own.
StageOK(q, versions, now) ==
  /\ q.pc \notin Done => q.op \in Ops
  /\ q.pc = "get" => q.op \in {"get", "patch"}
  /\ q.pc = "status" => q.op = "get"
  /\ q.pc \in {"put", "deploy"} => q.op \in {"create", "patch"}
  /\ q.pc = "put" => (q.base = 0 <=> q.op = "create")
  /\ q.pc = "delete" => q.op = "delete"
  /\ q.base <= now
  /\ q.pc = "deploy" => q.num # 0
  /\ q.num # 0 =>
       /\ q.pc = "deploy" /\ q.num <= now
       /\ \A k \in Keys : \A v \in versions[k] : v.num = q.num => v.by = q.id

StageInv == \A r \in Requests : StageOK(req[r], store, clock)

\* Versions to come have numbers to come.
Later ==
  /\ clock' \in Nat /\ clock <= clock'
  /\ \A k \in Keys : \A v \in store'[k] : v \in store[k] \/ v.num > clock

\* What a request has done stays done.
LEMMA KeepsStage ==
  ASSUME StateOK, Later, NEW q \in Request, StageOK(q, store, clock)
  PROVE  StageOK(q, store', clock')
<1>1. /\ clock \in Nat /\ clock' \in Nat /\ clock <= clock'
      /\ q.base \in Nat /\ q.num \in Nat
      /\ \A k \in Keys : \A v \in store'[k] : v \in store[k] \/ v.num > clock
  BY DEF StateOK, Later, Request
<1>2. q.base <= clock' /\ (q.num # 0 => q.num <= clock')
  BY <1>1 DEF StageOK
<1>3. ASSUME q.num # 0, NEW k \in Keys, NEW v \in store'[k], v.num = q.num
      PROVE  v.by = q.id
  <2>1. q.num <= clock
    BY <1>3 DEF StageOK
  <2>2. v \in store[k]
    BY <1>1, <1>3, <2>1
  <2> QED BY <1>3, <2>2 DEF StageOK
<1> QED BY <1>2, <1>3 DEF StageOK

\* An answered request has no stage.
LEMMA AnsweredStage ==
  ASSUME NEW r \in Requests, NEW code, NEW versions, NEW now \in Nat
  PROVE  StageOK(Answered(r, code), versions, now)
BY AnsweredFields DEF StageOK, Done

\* What becomes of one request is enough.
LEMMA UpdateStage ==
  ASSUME StateOK, StageInv, Later, NEW r \in Requests, NEW q, Update(r, q),
         StageOK(q, store', clock')
  PROVE  StageInv'
<1>1. ASSUME NEW s \in Requests PROVE StageOK(req'[s], store', clock')
  <2>1. CASE s = r
    BY <2>1 DEF Update, StateOK
  <2>2. CASE s # r
    <3>1. req'[s] = req[s] /\ req[s] \in Request /\ StageOK(req[s], store, clock)
      BY <2>2 DEF Update, StateOK, StageInv
    <3> QED BY <3>1, KeepsStage
  <2> QED BY <2>1, <2>2
<1> QED BY <1>1 DEF StageInv

\* A request that has read and stored nothing, or what it has already.
LEMMA GoesOnStage ==
  ASSUME StateOK, StageInv, NEW r \in Requests, NEW q,
         req[r].pc \notin Done, q.pc \notin Done,
         q.op = req[r].op, q.id = req[r].id,
         q.base \in {0, req[r].base}, q.num = 0,
         q.pc = "get" => q.op \in {"get", "patch"},
         q.pc \notin {"status", "deploy"},
         q.pc = "put" => q.op = "create" /\ q.base = 0,
         q.pc = "delete" => q.op = "delete"
  PROVE  StageOK(q, store, clock)
<1>1. clock \in Nat /\ StageOK(req[r], store, clock)
  BY DEF StateOK, StageInv
<1> QED BY <1>1 DEF StageOK

\* With versions and clock as they are, or with fewer versions, all are later.
LEMMA LaterFacts ==
  ASSUME StateOK
  PROVE  /\ UNCHANGED <<store, clock>> => Later
         /\ clock' = clock + 1 /\ store' = store => Later
         /\ \A r \in Requests :
              clock' = clock /\ store' = [store EXCEPT ![Key(r)] = {}] => Later
         /\ \A r \in Requests :
              clock' = clock + 1
              /\ store' = [store EXCEPT ![Key(r)] = @ \cup {Stored(r)}] => Later
<1>1. clock \in Nat /\ \A r \in Requests : Stored(r).num = clock + 1
  BY StoredType DEF StateOK
<1> QED BY <1>1 DEF Later, StateOK

\* A handler's step, up to wadm.
LEMMA ConnectStage ==
  ASSUME StateOK, PhaseInv, VersionInv, StageInv, NEW r \in Requests,
         \/ ListConfigs(r) \/ (\E c \in Configs : Lookup(r, c)) \/ ListApps(r)
         \/ Connect(r) \/ (\E as \in As : NoneLeft(r, as))
  PROVE  StageInv'
<1>a. /\ req[r] \in Request /\ PhaseOK(req[r]) /\ VersionOK(req[r])
      /\ StageOK(req[r], store, clock)
  BY DEF StateOK, PhaseInv, VersionInv, StageInv
<1>b. UNCHANGED <<store, clock>> /\ Later /\ clock \in Nat
  BY LaterFacts DEF ListConfigs, Lookup, ListApps, Connect, NoneLeft, Unchanged, StateOK
<1>c. ASSUME NEW code, Update(r, Answered(r, code)) PROVE StageInv'
  BY <1>b, <1>c, AnsweredStage, UpdateStage
<1>d. ASSUME NEW q, Update(r, q), q.pc \in {"next", "listing", "connecting"},
             req[r].pc \in {"configs", "next", "listing"},
             q.op = req[r].op, q.id = req[r].id, q.base = req[r].base,
             q.num = req[r].num
      PROVE  StageInv'
  <2>1. q.num = 0
    BY <1>a, <1>d DEF StageOK
  <2>2. StageOK(q, store, clock)
    BY <1>d, <2>1, GoesOnStage DEF Done
  <2> QED BY <1>b, <1>d, <2>2, UpdateStage
<1>1. CASE ListConfigs(r)
  <2> DEFINE configs == [c \in Configs |->
                           IF c \in Scope(req[r].op, req[r].ns) /\ Present(c)
                           THEN cfg[c].lattice ELSE None]
             q == [req[r] EXCEPT !.pc = "next", !.configs = configs]
  <2>1. Update(r, q) /\ req[r].pc = "configs"
    BY <1>1 DEF ListConfigs
  <2> HIDE DEF configs
  <2>2. /\ q.pc = "next" /\ q.op = req[r].op /\ q.id = req[r].id
        /\ q.base = req[r].base /\ q.num = req[r].num
    BY <1>a DEF Request
  <2> HIDE DEF q
  <2> QED BY <1>d, <2>1, <2>2
<1>2. ASSUME NEW c \in Configs, Lookup(r, c) PROVE StageInv'
  <2> DEFINE q == [req[r] EXCEPT !.at = c, !.lattice = req[r].configs[c],
                                 !.creds = cache[c]]
             busy(pc) == [q EXCEPT !.pc = pc, !.held = TRUE]
             less == [req[r] EXCEPT !.configs[c] = None]
  <2>1. req[r].pc = "next"
    BY <1>2 DEF Lookup
  <2>2. /\ less.pc = "next" /\ less.op = req[r].op /\ less.id = req[r].id
        /\ less.base = req[r].base /\ less.num = req[r].num
    BY <1>a, <2>1 DEF Request
  <2>3. ASSUME NEW pc \in {"listing", "connecting"}
        PROVE  /\ busy(pc).pc = pc /\ busy(pc).op = req[r].op
               /\ busy(pc).id = req[r].id /\ busy(pc).base = req[r].base
               /\ busy(pc).num = req[r].num
    BY <1>a, <2>1 DEF Request
  <2>4. \/ Update(r, less)
        \/ \E code \in {"500", "panic"} : Update(r, Answered(r, code))
        \/ \E pc \in {"listing", "connecting"} : Update(r, busy(pc))
    BY <1>2 DEF Lookup, Answer
  <2> HIDE DEF busy, less
  <2> QED BY <1>c, <1>d, <2>1, <2>2, <2>3, <2>4
<1>3. CASE ListApps(r)
  <2> DEFINE items == [k \in Keys |-> req[r].items[k] +
                         IF k[1] = req[r].lattice /\ store[k] # {} THEN 1 ELSE 0]
             configs == [req[r].configs EXCEPT ![req[r].at] = None]
             seen == req[r].seen \cup {req[r].lattice}
             q == [req[r] EXCEPT !.pc = "next", !.held = FALSE,
                     !.configs = configs, !.seen = seen, !.items = items]
  <2>1. Update(r, q) /\ req[r].pc = "listing"
    BY <1>3 DEF ListApps
  <2> HIDE DEF items, configs, seen
  <2>2. /\ q.pc = "next" /\ q.op = req[r].op /\ q.id = req[r].id
        /\ q.base = req[r].base /\ q.num = req[r].num
    BY <1>a DEF Request
  <2> HIDE DEF q
  <2> QED BY <1>d, <2>1, <2>2
<1>4. CASE Connect(r)
  <2> DEFINE step == CASE req[r].op \in {"get", "patch"} -> "get"
                       [] req[r].op = "create" -> "put"
                       [] OTHER -> "delete"
             q == [req[r] EXCEPT !.pc = step, !.held = FALSE]
  <2>1. Update(r, q) /\ req[r].pc = "connecting"
    BY <1>4 DEF Connect
  <2>2. /\ step \in {"get", "put", "delete"}
        /\ step = "get" => req[r].op \in {"get", "patch"}
        /\ step = "put" => req[r].op = "create"
        /\ step = "delete" => req[r].op = "delete"
    BY <1>a, <2>1 DEF PhaseOK, StageOK, Asking, Ops, Done
  <2> HIDE DEF step
  <2>3. /\ q.pc = step /\ q.op = req[r].op /\ q.id = req[r].id
        /\ q.base = 0 /\ q.num = 0
    BY <1>a, <2>1 DEF Request, VersionOK, StageOK
  <2> HIDE DEF q
  <2>4. StageOK(q, store, clock)
    BY <2>1, <2>2, <2>3, GoesOnStage DEF Done
  <2> QED BY <1>b, <2>1, <2>4, UpdateStage
<1>5. ASSUME NEW as \in As, NoneLeft(r, as) PROVE StageInv'
  <2> DEFINE q == [Answered(r, "200") EXCEPT !.op = req[r].op,
                                             !.items = req[r].items]
  <2>1. q.pc = "answered" /\ q.base = 0 /\ q.num = 0
    BY AnsweredType, AnsweredFields DEF Request
  <2>2. Update(r, q) \/ \E code \in {"500", "blank"} : Update(r, Answered(r, code))
    BY <1>5 DEF NoneLeft, Answer
  <2> HIDE DEF q
  <2>3. StageOK(q, store', clock')
    BY <1>b, <2>1 DEF StageOK, Done
  <2> QED BY <1>b, <1>c, <2>2, <2>3, UpdateStage
<1> QED BY <1>1, <1>2, <1>3, <1>4, <1>5

\* A version that is stored is its request's, by its number.
LEMMA StoresStage ==
  ASSUME StateOK, PhaseInv, VersionInv, StageInv, NEW r \in Requests, NEW q,
         req[r].pc = "put", Update(r, q), clock' = clock + 1,
         store' = [store EXCEPT ![Key(r)] = @ \cup {Stored(r)}],
         \/ q = [req[r] EXCEPT !.pc = "deploy", !.num = clock + 1]
         \/ q = Answered(r, "500")
  PROVE  StageInv'
<1>0. Later
  BY LaterFacts
<1>1. Later /\ clock' \in Nat /\ clock \in Nat
  BY <1>0 DEF StateOK, Later
<1>2. CASE q = Answered(r, "500")
  <2>1. StageOK(q, store', clock')
    BY <1>1, <1>2, AnsweredStage
  <2> QED BY <1>1, <2>1, UpdateStage
<1>3. CASE q = [req[r] EXCEPT !.pc = "deploy", !.num = clock + 1]
  <2>1. /\ req[r] \in Request /\ StageOK(req[r], store, clock)
    BY DEF StateOK, StageInv
  <2>2. /\ q.pc = "deploy" /\ q.num = clock + 1 /\ q.id = req[r].id
        /\ q.base = req[r].base /\ q.op = req[r].op
    BY <1>3, <2>1 DEF Request
  <2>3. ASSUME NEW k \in Keys, NEW v \in store'[k], v.num = q.num
        PROVE  v.by = q.id
    <3>1. v \in store[k] => v.num \in Nat /\ v.num <= clock
      BY DEF StateOK, Version, PhaseInv, NewestInv
    <3>2. v = Stored(r)
      BY <1>1, <2>2, <2>3, <3>1 DEF StateOK
    <3> QED BY <2>2, <3>2 DEF Stored
  <2>4. StageOK(q, store', clock')
    BY <1>1, <2>1, <2>2, <2>3 DEF StageOK, Request, Done, Ops
  <2> QED BY <1>1, <2>4, UpdateStage
<1> QED BY <1>2, <1>3

\* A handler's requests to wadm.
LEMMA WadmStage ==
  ASSUME StateOK, PhaseInv, VersionInv, StageInv, NEW r \in Requests,
         \/ GetManifest(r) \/ (\E as \in As : GetManifestStatus(r, as))
         \/ BadBody(r) \/ PutManifest(r) \/ DeployManifest(r) \/ DeleteManifest(r)
  PROVE  StageInv'
<1>a. /\ req[r] \in Request /\ VersionOK(req[r])
      /\ StageOK(req[r], store, clock) /\ clock \in Nat
  BY DEF StateOK, VersionInv, StageInv
<1>b. ASSUME NEW code, Update(r, Answered(r, code)), Later PROVE StageInv'
  <2>1. clock' \in Nat
    BY <1>b DEF Later
  <2> QED BY <1>b, <2>1, AnsweredStage, UpdateStage
<1>1. CASE GetManifest(r)
  <2>1. req[r].pc = "get" /\ UNCHANGED <<store, clock>> /\ Later
    BY <1>1, LaterFacts DEF GetManifest, Unchanged
  <2>2. CASE store[Key(r)] = {}
    BY <1>1, <1>b, <2>1, <2>2 DEF GetManifest, Answer
  <2>3. CASE store[Key(r)] # {}
    <3> DEFINE n == Newest(store[Key(r)]).num
               pc == IF req[r].op = "get" THEN "status" ELSE "put"
               q == [req[r] EXCEPT !.base = n, !.pc = pc]
    <3>1. Key(r) \in Keys
      BY <2>1, KeyType DEF Asking
    <3>2. Newest(store[Key(r)]) \in store[Key(r)] /\ n \in Nat
      BY <2>3, <3>1, NewestIsOne
    <3>3. n > 0 /\ n <= clock
      BY <3>1, <3>2 DEF PhaseInv, NewestInv
    <3>4. Update(r, q)
      BY <1>1, <2>3 DEF GetManifest
    <3> HIDE DEF n
    <3>5. /\ q.base = n /\ q.num = 0 /\ q.op = req[r].op
          /\ q.pc = pc
      BY <1>a, <2>1 DEF Request, StageOK
    <3> HIDE DEF q
    <3>6. req[r].op \in {"get", "patch"}
      BY <1>a, <2>1 DEF StageOK
    <3>7. StageOK(q, store', clock')
      BY <2>1, <3>2, <3>3, <3>5, <3>6 DEF StageOK, Ops, n
    <3> QED BY <2>1, <3>4, <3>7, UpdateStage
  <2> QED BY <2>2, <2>3
<1>2. ASSUME NEW as \in As, GetManifestStatus(r, as) PROVE StageInv'
  BY <1>2, <1>b, LaterFacts DEF GetManifestStatus, Answer, Unchanged
<1>3. CASE BadBody(r)
  BY <1>3, <1>b, LaterFacts DEF BadBody, Answer, Unchanged
<1>4. CASE PutManifest(r)
  BY <1>4, StoresStage DEF PutManifest
<1>5. CASE DeployManifest(r)
  BY <1>5, <1>b, LaterFacts DEF DeployManifest, Answer
<1>6. CASE DeleteManifest(r)
  BY <1>6, <1>b, LaterFacts DEF DeleteManifest, Answer
<1> QED BY <1>1, <1>2, <1>3, <1>4, <1>5, <1>6

\* No step takes a request to where its operation does not go.
LEMMA StepStage ==
  StateOK /\ PhaseInv /\ VersionInv /\ StageInv /\ [Next]_vars => StageInv'
<1> SUFFICES ASSUME StateOK, PhaseInv, VersionInv, StageInv, [Next]_vars
             PROVE  StageInv'
  OBVIOUS
<1>1. ASSUME UNCHANGED <<req, store, clock>> PROVE StageInv'
  BY <1>1 DEF StageInv
<1>a. ASSUME NEW r \in Requests, NEW code, Update(r, Answered(r, code)), Later
      PROVE  StageInv'
  <2>1. clock' \in Nat
    BY <1>a DEF Later
  <2> QED BY <1>a, <2>1, AnsweredStage, UpdateStage
<1>2. CASE Step
  <2>1. ASSUME NEW c \in Configs, Change(c) \/ WriteCreds(c) PROVE StageInv'
    BY <1>1, <2>1
       DEF Change, DeleteConfig, Cleanup, EditConfig, ReadCreds, WriteCreds
  <2>2. ASSUME NEW r \in Requests, NEW op \in Ops,
               NEW ns \in Namespaces \cup {None}, NEW a \in Apps \cup {None},
               Begin(r, op, ns, a)
        PROVE  StageInv'
    <3> DEFINE q == [NoRequest EXCEPT !.pc = "configs", !.op = op, !.ns = ns,
                                      !.app = a, !.id = clock + 1]
    <3>1. q.pc = "configs" /\ q.op = op /\ q.base = 0 /\ q.num = 0
      BY DEF NoRequest
    <3>2. Update(r, q) /\ Later /\ clock' \in Nat
      BY <2>2, LaterFacts DEF Begin, Later
    <3> HIDE DEF q
    <3>3. StageOK(q, store', clock')
      BY <3>1, <3>2 DEF StageOK
    <3> QED BY <3>2, <3>3, UpdateStage
  <2>3. ASSUME NEW r \in Requests, Handle(r) PROVE StageInv'
    BY <2>3, ConnectStage, WadmStage DEF Handle
  <2>4. ASSUME NEW r \in Requests, ConnectFails(r) PROVE StageInv'
    <3> DEFINE configs == [req[r].configs EXCEPT ![req[r].at] = None]
               q == [req[r] EXCEPT !.pc = "next", !.held = FALSE,
                       !.configs = configs, !.lattice = None, !.creds = None]
    <3>1. /\ req[r] \in Request /\ req[r].pc = "connecting"
          /\ StageOK(req[r], store, clock)
      BY <2>4 DEF ConnectFails, StateOK, StageInv
    <3>2. Update(r, q) /\ UNCHANGED <<store, clock>> /\ Later
      BY <2>4, LaterFacts DEF ConnectFails
    <3> HIDE DEF configs
    <3>3. /\ q.pc = "next" /\ q.id = req[r].id /\ q.op = req[r].op
          /\ q.base = req[r].base /\ q.num = 0
      BY <3>1 DEF Request, StageOK
    <3> HIDE DEF q
    <3>4. StageOK(q, store, clock)
      BY <3>1, <3>3, GoesOnStage DEF Done
    <3> QED BY <3>2, <3>4, UpdateStage
  <2>5. ASSUME NEW r \in Requests, Fails(r) PROVE StageInv'
    BY <2>5, <1>a, LaterFacts DEF Fails, Answer
  <2>6. ASSUME NEW r \in Requests, ReplyLost(r) PROVE StageInv'
    <3>1. CASE req[r].pc = "put"
      BY <2>6, <3>1, StoresStage DEF ReplyLost, Answer
    <3>2. CASE req[r].pc = "deploy"
      BY <2>6, <3>2, <1>a, LaterFacts DEF ReplyLost, Answer
    <3>3. CASE req[r].pc = "delete"
      BY <2>6, <3>3, <1>a, LaterFacts DEF ReplyLost, Answer
    <3> QED BY <2>6, <3>1, <3>2, <3>3 DEF ReplyLost
  <2>7. CASE Restart
    <3>1. clock \in Nat /\ UNCHANGED <<store, clock>>
      BY <2>7 DEF Restart, StateOK
    <3>2. \A r \in Requests : StageOK(req'[r], store, clock)
      BY <2>7, <3>1, AnsweredStage DEF Restart, StageInv
    <3> QED BY <3>1, <3>2 DEF StageInv
  <2> QED BY <1>2, <2>1, <2>2, <2>3, <2>4, <2>5, <2>6, <2>7 DEF Step
<1>3. CASE UNCHANGED vars
  BY <1>1, <1>3 DEF vars
<1> QED BY <1>2, <1>3 DEF Next
-----------------------------------------------------------------------------
(***************************************************************************)
(* The refinement: what is requested, answered and reached, and each step. *)
(***************************************************************************)
\* What a request that is not answered asks for is in its record.
LEMMA RequestedFacts ==
  ASSUME NEW r \in Requests
  PROVE  /\ req[r].pc \in Done => Requested[r] = Promise!Nothing
         /\ req[r].pc \notin Done =>
              /\ Requested[r].id = req[r].id /\ Requested[r].op = req[r].op
              /\ Requested[r].ns = req[r].ns /\ Requested[r].app = req[r].app
              /\ Requested[r].num = req[r].num
         /\ Answers[r] = req[r].answer
BY DEF Requested, Answers, Free, Done, Promise!Nothing

\* What a step makes of one request is all it changes of them.
LEMMA RequestedUpdate ==
  ASSUME StateOK, NEW r \in Requests, NEW q, Update(r, q)
  PROVE  /\ q.pc \in Done =>
              Requested' = [Requested EXCEPT ![r] = Promise!Nothing]
         /\ q.pc \notin Done =>
              Requested' = [Requested EXCEPT ![r] =
                [id |-> q.id, op |-> q.op, ns |-> q.ns, app |-> q.app,
                 num |-> q.num]]
         /\ Answers' = [Answers EXCEPT ![r] = q.answer]
<1>1. req' = [req EXCEPT ![r] = q] /\ req \in [Requests -> Request]
  BY DEF Update, StateOK
<1>2. req'[r] = q /\ \A s \in Requests : s # r => req'[s] = req[s]
  BY <1>1
<1> QED BY <1>2 DEF Requested, Answers, Free, Done, Promise!Nothing

\* A handler that asks wadm does so in a lattice its namespace was given.
LEMMA Reached ==
  ASSUME StateOK, PhaseInv, RouteInv, NEW r \in Requests, req[r].pc \in Asking
  PROVE  /\ req[r].lattice \in Lattices /\ req[r].app \in Apps
         /\ <<req[r].ns, req[r].lattice>> \in Reach
<1>1. /\ req[r] \in Request /\ PhaseOK(req[r]) /\ RouteOK(req[r])
  BY DEF StateOK, PhaseInv, RouteInv
<1>2. req[r].lattice \in Lattices /\ req[r].op # "list_all" /\ req[r].app \in Apps
  BY <1>1 DEF PhaseOK, Asking, Busy, Request
<1>3. PICK c \in Configs : NsOf[c] = req[r].ns /\ <<c, req[r].lattice>> \in named
  BY <1>1, <1>2, ApiAssumption DEF RouteOK
<1>4. NsOf[c] \in Namespaces
  BY ApiAssumption
<1> QED BY <1>2, <1>3, <1>4 DEF Reach

\* A handler that goes on, between its requests, is nobody's business.
LEMMA GoesOnPromise ==
  ASSUME StateOK, NEW r \in Requests, NEW q, Update(r, q),
         req[r].pc \notin Done, q.pc \notin Done,
         q.id = req[r].id, q.op = req[r].op, q.ns = req[r].ns,
         q.app = req[r].app, q.num = req[r].num, q.answer = req[r].answer,
         UNCHANGED <<store, running, clock, named>>
  PROVE  UNCHANGED Promise!vars
<1>1. req'[r] = q /\ \A s \in Requests : s # r => req'[s] = req[s]
  BY DEF Update, StateOK
<1>2. Requested' = Requested /\ Answers' = Answers
  BY <1>1 DEF Requested, Answers, Free, Done
<1>3. Reach' = Reach
  BY DEF Reach
<1> QED BY <1>2, <1>3 DEF Promise!vars

\* An answer that says no more than is true finishes a request.
LEMMA FinishPromise ==
  ASSUME StateOK, PhaseInv, RouteInv, StageInv, NEW r \in Requests, NEW q,
         Update(r, q), req[r].pc \notin Done, q.pc = "answered",
         q.answer \in {"200", "blank", "404", "500", "panic"},
         UNCHANGED <<store, running, clock, named>>,
         q.answer = "200" =>
           \/ Listing(r)
           \/ req[r].op = "get" /\ req[r].pc \in Asking /\ store[Key(r)] # {},
         q.answer = "404" =>
           /\ req[r].op \in {"get", "patch"} /\ req[r].pc \in Asking
           /\ req[r].num = 0 => store[Key(r)] = {}
           /\ \A k \in Keys : \A v \in store[k] : v.by # req[r].id,
         q.answer = "blank" => Listing(r)
  PROVE  Promise!Next
<1>1. /\ Requested' = [Requested EXCEPT ![r] = Promise!Nothing]
      /\ Answers' = [Answers EXCEPT ![r] = q.answer]
  BY RequestedUpdate DEF Done
<1>2. /\ Requested[r].id = req[r].id /\ Requested[r].op = req[r].op
      /\ Requested[r].ns = req[r].ns /\ Requested[r].app = req[r].app
      /\ Requested[r].num = req[r].num
  BY RequestedFacts
<1>3. req[r].op # None
  BY ApiAssumption DEF StageInv, StageOK
<1>4. Reach' = Reach
  BY DEF Reach
<1>5. req[r].pc \in Asking =>
        /\ req[r].lattice \in Lattices
        /\ Promise!Mine(r, req[r].lattice)
        /\ Promise!At(r, req[r].lattice) = Key(r)
  BY <1>2, Reached DEF Promise!Mine, Promise!At, Key
<1>6. q.answer = "200" =>
        \/ Requested[r].op \in Promise!Lists
        \/ /\ Requested[r].op = "get"
           /\ \E l \in Lattices : Promise!Mine(r, l) /\ store[Promise!At(r, l)] # {}
  BY <1>2, <1>5 DEF Listing, Promise!Lists
<1>7. q.answer = "404" =>
        /\ Requested[r].op \in {"get", "patch"}
        /\ Requested[r].num = 0 =>
             \E l \in Lattices : Promise!Mine(r, l) /\ store[Promise!At(r, l)] = {}
        /\ \A k \in Promise!Keys : \A v \in store[k] : v.by # Requested[r].id
  BY <1>2, <1>5 DEF Promise!Keys, Keys
<1>8. q.answer = "blank" => Requested[r].op \in Promise!Lists
  BY <1>2 DEF Listing, Promise!Lists
<1>9. Promise!Finish(r, q.answer)
  BY <1>1, <1>2, <1>3, <1>4, <1>6, <1>7, <1>8 DEF Promise!Finish, Promise!Reply
<1> QED BY <1>9 DEF Promise!Next

\* Handlers list host configs and connect, and lists are answered.
LEMMA ConnectPromise ==
  ASSUME StateOK, PhaseInv, RouteInv, StageInv, NEW r \in Requests,
         \/ ListConfigs(r) \/ (\E c \in Configs : Lookup(r, c)) \/ ListApps(r)
         \/ Connect(r) \/ (\E as \in As : NoneLeft(r, as))
  PROVE  Promise!Next \/ UNCHANGED Promise!vars
<1>a. req[r] \in Request
  BY DEF StateOK
<1>b. /\ UNCHANGED <<store, running, clock, named>>
      /\ req[r].pc \in {"configs", "next", "listing", "connecting"}
      /\ req[r].pc \notin Done
  BY DEF ListConfigs, Lookup, ListApps, Connect, NoneLeft, Unchanged, Done
<1>c. ASSUME NEW code \in {"500", "panic"}, Update(r, Answered(r, code))
      PROVE  Promise!Next
  <2> DEFINE q == Answered(r, code)
  <2>1. q.pc = "answered" /\ q.answer = code
    BY AnsweredFields
  <2> HIDE DEF q
  <2>2. Update(r, q)
    BY <1>c DEF q
  <2> QED BY <1>b, <2>1, <2>2, FinishPromise
<1>d. ASSUME NEW q, Update(r, q), q.pc \notin Done,
             q.id = req[r].id, q.op = req[r].op, q.ns = req[r].ns,
             q.app = req[r].app, q.num = req[r].num, q.answer = req[r].answer
      PROVE  UNCHANGED Promise!vars
  BY <1>b, <1>d, GoesOnPromise
<1>1. CASE ListConfigs(r)
  <2> DEFINE configs == [c \in Configs |->
                           IF c \in Scope(req[r].op, req[r].ns) /\ Present(c)
                           THEN cfg[c].lattice ELSE None]
             q == [req[r] EXCEPT !.pc = "next", !.configs = configs]
  <2>1. Update(r, q)
    BY <1>1 DEF ListConfigs
  <2> HIDE DEF configs
  <2>2. /\ q.pc \notin Done /\ q.id = req[r].id /\ q.op = req[r].op
        /\ q.ns = req[r].ns /\ q.app = req[r].app /\ q.num = req[r].num
        /\ q.answer = req[r].answer
    BY <1>a DEF Request, Done
  <2> HIDE DEF q
  <2> QED BY <1>d, <2>1, <2>2
<1>2. ASSUME NEW c \in Configs, Lookup(r, c)
      PROVE  Promise!Next \/ UNCHANGED Promise!vars
  <2> DEFINE q == [req[r] EXCEPT !.at = c, !.lattice = req[r].configs[c],
                                 !.creds = cache[c]]
             busy(pc) == [q EXCEPT !.pc = pc, !.held = TRUE]
             less == [req[r] EXCEPT !.configs[c] = None]
  <2>1. /\ less.pc \notin Done /\ less.id = req[r].id /\ less.op = req[r].op
        /\ less.ns = req[r].ns /\ less.app = req[r].app /\ less.num = req[r].num
        /\ less.answer = req[r].answer
    BY <1>a, <1>b DEF Request
  <2>2. ASSUME NEW pc \in {"listing", "connecting"}
        PROVE  /\ busy(pc).pc \notin Done /\ busy(pc).id = req[r].id
               /\ busy(pc).op = req[r].op /\ busy(pc).ns = req[r].ns
               /\ busy(pc).app = req[r].app /\ busy(pc).num = req[r].num
               /\ busy(pc).answer = req[r].answer
    BY <1>a DEF Request, Done
  <2>3. \/ Update(r, less)
        \/ \E code \in {"500", "panic"} : Update(r, Answered(r, code))
        \/ \E pc \in {"listing", "connecting"} : Update(r, busy(pc))
    BY <1>2 DEF Lookup, Answer
  <2> HIDE DEF busy, less
  <2> QED BY <1>c, <1>d, <2>1, <2>2, <2>3
<1>3. CASE ListApps(r)
  <2> DEFINE items == [k \in Keys |-> req[r].items[k] +
                         IF k[1] = req[r].lattice /\ store[k] # {} THEN 1 ELSE 0]
             configs == [req[r].configs EXCEPT ![req[r].at] = None]
             seen == req[r].seen \cup {req[r].lattice}
             q == [req[r] EXCEPT !.pc = "next", !.held = FALSE,
                     !.configs = configs, !.seen = seen, !.items = items]
  <2>1. Update(r, q)
    BY <1>3 DEF ListApps
  <2> HIDE DEF items, configs, seen
  <2>2. /\ q.pc \notin Done /\ q.id = req[r].id /\ q.op = req[r].op
        /\ q.ns = req[r].ns /\ q.app = req[r].app /\ q.num = req[r].num
        /\ q.answer = req[r].answer
    BY <1>a DEF Request, Done
  <2> HIDE DEF q
  <2> QED BY <1>d, <2>1, <2>2
<1>4. CASE Connect(r)
  <2> DEFINE q(pc) == [req[r] EXCEPT !.pc = pc, !.held = FALSE]
  <2>1. \E pc \in {"get", "put", "delete"} : Update(r, q(pc))
    BY <1>4 DEF Connect
  <2>2. ASSUME NEW pc \in {"get", "put", "delete"}
        PROVE  /\ q(pc).pc \notin Done /\ q(pc).id = req[r].id
               /\ q(pc).op = req[r].op /\ q(pc).ns = req[r].ns
               /\ q(pc).app = req[r].app /\ q(pc).num = req[r].num
               /\ q(pc).answer = req[r].answer
    BY <1>a DEF Request, Done
  <2> HIDE DEF q
  <2> QED BY <1>d, <2>1, <2>2
<1>5. ASSUME NEW as \in As, NoneLeft(r, as)
      PROVE  Promise!Next \/ UNCHANGED Promise!vars
  <2>1. CASE ~Listing(r)
    BY <1>5, <1>c, <2>1 DEF NoneLeft, Answer
  <2>2. CASE Listing(r) /\ as \in {"Table", "NotSpecified"}
    <3> DEFINE q == [Answered(r, "200") EXCEPT !.op = req[r].op,
                                               !.items = req[r].items]
    <3>1. q.pc = "answered" /\ q.answer = "200"
      BY AnsweredType, AnsweredFields DEF Request
    <3>2. Update(r, q)
      BY <1>5, <2>2 DEF NoneLeft
    <3> HIDE DEF q
    <3> QED BY <1>b, <2>2, <3>1, <3>2, FinishPromise
  <2>3. CASE Listing(r) /\ as \notin {"Table", "NotSpecified"}
    <3> DEFINE q == Answered(r, "blank")
    <3>1. q.pc = "answered" /\ q.answer = "blank"
      BY AnsweredFields
    <3>2. Update(r, q)
      BY <1>5, <2>3 DEF NoneLeft, Answer
    <3> HIDE DEF q
    <3> QED BY <1>b, <2>3, <3>1, <3>2, FinishPromise
  <2> QED BY <2>1, <2>2, <2>3
<1> QED BY <1>1, <1>2, <1>3, <1>4, <1>5

\* A handler stores one version, whether it hears of it or not.
LEMMA PutPromise ==
  ASSUME StateOK, PhaseInv, RouteInv, VersionInv, StageInv, NEW r \in Requests,
         NEW q, req[r].pc = "put", Update(r, q), clock' = clock + 1,
         store' = [store EXCEPT ![Key(r)] = @ \cup {Stored(r)}],
         \/ q = [req[r] EXCEPT !.pc = "deploy", !.num = clock + 1]
         \/ q = Answered(r, "500"),
         UNCHANGED <<running, named>>
  PROVE  Promise!Next
<1>1. /\ req[r] \in Request /\ StageOK(req[r], store, clock)
      /\ VersionOK(req[r]) /\ clock \in Nat
  BY DEF StateOK, StageInv, VersionInv
<1>2. /\ Requested[r].id = req[r].id /\ Requested[r].op = req[r].op
      /\ Requested[r].ns = req[r].ns /\ Requested[r].app = req[r].app
      /\ Requested[r].num = req[r].num
  BY RequestedFacts DEF Done
<1>3. /\ req[r].op \in {"create", "patch"} /\ req[r].num = 0
      /\ req[r].base = 0 <=> req[r].op = "create"
      /\ req[r].base \in 0..clock
  BY <1>1 DEF StageOK, Request
<1>4. /\ req[r].lattice \in Lattices /\ Promise!Mine(r, req[r].lattice)
      /\ Promise!At(r, req[r].lattice) = Key(r)
  BY <1>2, Reached DEF Promise!Mine, Promise!At, Key, Asking
<1>5. Reach' = Reach
  BY DEF Reach
<1>6. req[r].op = "patch" =>
        \A w \in store[Key(r)] : w.num < req[r].id => w.num <= req[r].base
  BY <1>1, <1>3 DEF VersionOK, Key
<1>7. \/ /\ Requested' = [Requested EXCEPT ![r].num = clock + 1]
         /\ Answers' = Answers
      \/ Promise!Reply(r, "500")
  <2>1. CASE q = Answered(r, "500")
    <3>1. q.pc \in Done /\ q.answer = "500"
      BY <2>1, AnsweredFields DEF Done
    <3> QED BY <3>1, RequestedUpdate DEF Promise!Reply
  <2>2. CASE q = [req[r] EXCEPT !.pc = "deploy", !.num = clock + 1]
    <3>1. /\ q.pc \notin Done /\ q.num = clock + 1 /\ q.id = req[r].id
          /\ q.op = req[r].op /\ q.ns = req[r].ns /\ q.app = req[r].app
          /\ q.answer = req[r].answer
      BY <1>1, <2>2 DEF Request, Done
    <3>2. /\ Requested' = [Requested EXCEPT ![r] =
               [id |-> req[r].id, op |-> req[r].op, ns |-> req[r].ns,
                app |-> req[r].app, num |-> clock + 1]]
          /\ Answers' = [Answers EXCEPT ![r] = req[r].answer]
      BY <3>1, RequestedUpdate
    <3>3. Requested[r] = [id |-> req[r].id, op |-> req[r].op, ns |-> req[r].ns,
                          app |-> req[r].app, num |-> req[r].num]
      BY DEF Requested, Free
    <3>4. Answers' = Answers
      BY <3>2 DEF Answers
    <3>5. [Requested[r] EXCEPT !.num = clock + 1] =
               [id |-> req[r].id, op |-> req[r].op, ns |-> req[r].ns,
                app |-> req[r].app, num |-> clock + 1]
      BY <3>3
    <3> QED BY <3>2, <3>4, <3>5
  <2> QED BY <2>1, <2>2
<1>8. Promise!Put(r, req[r].lattice)
  BY <1>2, <1>3, <1>4, <1>5, <1>6, <1>7 DEF Promise!Put, Promise!Puts, Stored
<1> QED BY <1>4, <1>8 DEF Promise!Next

\* A handler deploys the version it has stored, whether it hears of it or not.
LEMMA DeployPromise ==
  ASSUME StateOK, PhaseInv, RouteInv, StageInv, NEW r \in Requests,
         NEW code \in {"200", "500"},
         req[r].pc = "deploy", Answer(r, code),
         \E v \in store[Key(r)] : v.num = req[r].num,
         running' = [running EXCEPT ![Key(r)] = req[r].num],
         UNCHANGED <<store, clock, named>>
  PROVE  Promise!Next
<1>1. StageOK(req[r], store, clock)
  BY DEF StageInv
<1>2. /\ Requested[r].id = req[r].id /\ Requested[r].op = req[r].op
      /\ Requested[r].ns = req[r].ns /\ Requested[r].app = req[r].app
      /\ Requested[r].num = req[r].num
  BY RequestedFacts DEF Done
<1>3. /\ req[r].lattice \in Lattices /\ Promise!Mine(r, req[r].lattice)
      /\ Promise!At(r, req[r].lattice) = Key(r) /\ Key(r) \in Keys
  BY <1>2, Reached, KeyType DEF Promise!Mine, Promise!At, Key, Asking
<1>4. Reach' = Reach
  BY DEF Reach
<1>5. \E v \in store[Key(r)] : v.num = req[r].num /\ v.by = req[r].id
  BY <1>1, <1>3 DEF StageOK
<1>6. Promise!Reply(r, code)
  <2> DEFINE q == Answered(r, code)
  <2>1. q.pc \in Done /\ q.answer = code
    BY AnsweredFields DEF Done
  <2>2. Update(r, q)
    BY DEF Answer
  <2> HIDE DEF q
  <2> QED BY <2>1, <2>2, RequestedUpdate DEF Promise!Reply
<1>7. Promise!Deploy(r, req[r].lattice)
  BY <1>1, <1>2, <1>3, <1>4, <1>5, <1>6 DEF Promise!Deploy, Promise!Puts, StageOK
<1> QED BY <1>3, <1>7 DEF Promise!Next

\* A handler deletes all versions, whether it hears of it or not.
LEMMA DeletePromise ==
  ASSUME StateOK, PhaseInv, RouteInv, StageInv, NEW r \in Requests,
         NEW code, req[r].pc = "delete", Answer(r, code),
         code \in {IF store[Key(r)] = {} THEN "404" ELSE "200", "500"},
         store' = [store EXCEPT ![Key(r)] = {}],
         running' = [running EXCEPT ![Key(r)] = 0],
         UNCHANGED <<clock, named>>
  PROVE  Promise!Next
<1>1. req[r].op = "delete"
  BY DEF StageInv, StageOK
<1>2. /\ Requested[r].op = req[r].op
      /\ Requested[r].ns = req[r].ns /\ Requested[r].app = req[r].app
  BY RequestedFacts DEF Done
<1>3. /\ req[r].lattice \in Lattices /\ Promise!Mine(r, req[r].lattice)
      /\ Promise!At(r, req[r].lattice) = Key(r)
  BY <1>2, Reached DEF Promise!Mine, Promise!At, Key, Asking
<1>4. Reach' = Reach
  BY DEF Reach
<1>5. Promise!Reply(r, code)
  <2> DEFINE q == Answered(r, code)
  <2>1. q.pc \in Done /\ q.answer = code
    BY AnsweredFields DEF Done
  <2>2. Update(r, q)
    BY DEF Answer
  <2> HIDE DEF q
  <2> QED BY <2>1, <2>2, RequestedUpdate DEF Promise!Reply
<1>6. Promise!Delete(r, req[r].lattice)
  BY <1>1, <1>2, <1>3, <1>4, <1>5 DEF Promise!Delete
<1> QED BY <1>3, <1>6 DEF Promise!Next

\* A handler's requests to wadm.
LEMMA WadmPromise ==
  ASSUME StateOK, PhaseInv, RouteInv, VersionInv, StageInv, NEW r \in Requests,
         \/ GetManifest(r) \/ (\E as \in As : GetManifestStatus(r, as))
         \/ BadBody(r) \/ PutManifest(r) \/ DeployManifest(r) \/ DeleteManifest(r)
  PROVE  Promise!Next \/ UNCHANGED Promise!vars
<1>a. /\ req[r] \in Request /\ VersionOK(req[r]) /\ StageOK(req[r], store, clock)
  BY DEF StateOK, VersionInv, StageInv
<1>b. req[r].pc \in Asking /\ req[r].pc \notin Done
  BY DEF GetManifest, GetManifestStatus, BadBody, PutManifest, DeployManifest,
         DeleteManifest, Asking, Done
<1>c. ASSUME NEW code \in {"200", "404", "500"}, Answer(r, code),
             UNCHANGED <<store, running, clock, named>>,
             code = "200" => req[r].op = "get" /\ store[Key(r)] # {},
             code = "404" =>
               /\ req[r].op \in {"get", "patch"}
               /\ req[r].num = 0 => store[Key(r)] = {}
               /\ \A k \in Keys : \A v \in store[k] : v.by # req[r].id
      PROVE  Promise!Next
  <2> DEFINE q == Answered(r, code)
  <2>1. q.pc = "answered" /\ q.answer = code
    BY AnsweredFields
  <2>2. Update(r, q)
    BY <1>c DEF Answer
  <2> HIDE DEF q
  <2> QED BY <1>b, <1>c, <2>1, <2>2, FinishPromise
<1>d. req[r].pc # "deploy"
        => \A k \in Keys : \A v \in store[k] : v.by # req[r].id
  BY <1>a, <1>b DEF VersionOK, Request, Done
<1>1. CASE GetManifest(r)
  <2>1. req[r].pc = "get" /\ UNCHANGED <<store, running, clock, named>>
    BY <1>1 DEF GetManifest, Unchanged
  <2>2. CASE store[Key(r)] = {}
    <3>1. req[r].op \in {"get", "patch"} /\ Answer(r, "404")
      BY <1>1, <1>a, <2>1, <2>2 DEF GetManifest, StageOK
    <3> QED BY <1>c, <1>d, <2>1, <2>2, <3>1
  <2>3. CASE store[Key(r)] # {}
    <3> DEFINE n == Newest(store[Key(r)]).num
               q(pc) == [req[r] EXCEPT !.base = n, !.pc = pc]
    <3>1. \E pc \in {"status", "put"} : Update(r, q(pc))
      BY <1>1, <2>3 DEF GetManifest
    <3> HIDE DEF n
    <3>2. ASSUME NEW pc \in {"status", "put"}
          PROVE  /\ q(pc).pc \notin Done /\ q(pc).id = req[r].id
                 /\ q(pc).op = req[r].op /\ q(pc).ns = req[r].ns
                 /\ q(pc).app = req[r].app /\ q(pc).num = req[r].num
                 /\ q(pc).answer = req[r].answer
      BY <1>a DEF Request, Done
    <3> HIDE DEF q
    <3> QED BY <1>b, <2>1, <3>1, <3>2, GoesOnPromise
  <2> QED BY <2>2, <2>3
<1>2. ASSUME NEW as \in As, GetManifestStatus(r, as) PROVE Promise!Next
  <2>1. /\ req[r].pc = "status" /\ req[r].op = "get"
        /\ UNCHANGED <<store, running, clock, named>>
    BY <1>2, <1>a DEF GetManifestStatus, Unchanged, StageOK
  <2>2. \/ Answer(r, "404") /\ store[Key(r)] = {}
        \/ Answer(r, "200") /\ store[Key(r)] # {}
        \/ Answer(r, "500")
    BY <1>2 DEF GetManifestStatus
  <2> QED BY <1>c, <1>d, <2>1, <2>2
<1>3. CASE BadBody(r)
  BY <1>3, <1>c DEF BadBody, Unchanged
<1>4. CASE PutManifest(r)
  BY <1>4, PutPromise DEF PutManifest
<1>5. CASE DeployManifest(r)
  <2>1. /\ req[r].pc = "deploy" /\ UNCHANGED <<store, clock, named>>
    BY <1>5 DEF DeployManifest
  <2>2. CASE \E v \in store[Key(r)] : v.num = req[r].num
    BY <1>5, <2>1, <2>2, DeployPromise DEF DeployManifest
  <2>3. CASE ~\E v \in store[Key(r)] : v.num = req[r].num
    <3>1. \A k \in Keys : \A v \in store[k] : v.by # req[r].id
      BY <1>a, <1>b, <2>3 DEF VersionOK, Key, Request, Done
    <3>2. req[r].num # 0 /\ req[r].op \in {"create", "patch"}
      BY <1>a, <2>1 DEF StageOK
    <3>3. running' = running /\ Answer(r, IF req[r].op = "patch" THEN "404" ELSE "500")
      BY <1>5, <2>3 DEF DeployManifest
    <3>4. CASE req[r].op = "patch"
      BY <1>c, <2>1, <3>1, <3>2, <3>3, <3>4
    <3>5. CASE req[r].op # "patch"
      BY <1>c, <2>1, <3>3, <3>5
    <3> QED BY <3>4, <3>5
  <2> QED BY <2>2, <2>3
<1>6. CASE DeleteManifest(r)
  BY <1>6, DeletePromise DEF DeleteManifest
<1> QED BY <1>1, <1>2, <1>3, <1>4, <1>5, <1>6

\* Every step of ApplicationApi is a step of ApplicationRequests or a stutter.
LEMMA NextPromise ==
  StateOK /\ StateOK' /\ PhaseInv /\ RouteInv /\ VersionInv /\ StageInv /\ [Next]_vars
    => [Promise!Next]_(Promise!vars)
<1> SUFFICES ASSUME StateOK, StateOK', PhaseInv, RouteInv, VersionInv, StageInv,
                    [Next]_vars
             PROVE  Promise!Next \/ UNCHANGED Promise!vars
  OBVIOUS
<1>1. ASSUME UNCHANGED <<req, store, running, clock>>, named \subseteq named'
      PROVE  Promise!Next \/ UNCHANGED Promise!vars
  <2>1. Requested' = Requested /\ Answers' = Answers
    BY <1>1 DEF Requested, Answers, Free
  <2>2. Reach \subseteq Reach' /\ Reach' \subseteq Namespaces \X Lattices
    BY <1>1 DEF Reach
  <2>3. Promise!Give
    BY <1>1, <2>1, <2>2 DEF Promise!Give
  <2> QED BY <2>3 DEF Promise!Next
<1>2. CASE Step
  <2>1. ASSUME NEW c \in Configs, Change(c) \/ WriteCreds(c)
        PROVE  Promise!Next \/ UNCHANGED Promise!vars
    BY <1>1, <2>1
       DEF Change, DeleteConfig, Cleanup, EditConfig, ReadCreds, WriteCreds
  <2>2. ASSUME NEW r \in Requests, NEW op \in Ops,
               NEW ns \in Namespaces \cup {None}, NEW a \in Apps \cup {None},
               Begin(r, op, ns, a)
        PROVE  Promise!Next
    <3> DEFINE q == [NoRequest EXCEPT !.pc = "configs", !.op = op, !.ns = ns,
                                      !.app = a, !.id = clock + 1]
    <3>1. /\ q.pc \notin Done /\ q.id = clock + 1 /\ q.op = op /\ q.ns = ns
          /\ q.app = a /\ q.num = 0 /\ q.answer = "none"
      BY DEF NoRequest, Done
    <3>2. /\ Update(r, q) /\ req[r].pc \in Done /\ clock' = clock + 1
          /\ UNCHANGED <<store, running, named>>
      BY <2>2 DEF Begin, Free, Done
    <3> HIDE DEF q
    <3>3. /\ Requested' = [Requested EXCEPT ![r] =
                [id |-> clock + 1, op |-> op, ns |-> ns, app |-> a, num |-> 0]]
          /\ Answers' = [Answers EXCEPT ![r] = "none"]
      BY <3>1, <3>2, RequestedUpdate
    <3>4. Requested[r] = Promise!Nothing
      BY <3>2, RequestedFacts
    <3>5. Reach' = Reach
      BY <3>2 DEF Reach
    <3>6. op \in Promise!Lists \cup Promise!Puts \cup {"get", "delete"}
      BY DEF Ops, Promise!Lists, Promise!Puts
    <3>7. Promise!Ask(r)
      BY <3>2, <3>3, <3>4, <3>5, <3>6 DEF Promise!Ask
    <3> QED BY <3>7 DEF Promise!Next
  <2>3. ASSUME NEW r \in Requests, Handle(r)
        PROVE  Promise!Next \/ UNCHANGED Promise!vars
    BY <2>3, ConnectPromise, WadmPromise DEF Handle
  <2>4. ASSUME NEW r \in Requests, ConnectFails(r) PROVE UNCHANGED Promise!vars
    <3> DEFINE configs == [req[r].configs EXCEPT ![req[r].at] = None]
               q == [req[r] EXCEPT !.pc = "next", !.held = FALSE,
                       !.configs = configs, !.lattice = None, !.creds = None]
    <3>1. /\ req[r] \in Request /\ req[r].pc \notin Done
          /\ UNCHANGED <<store, running, clock, named>>
      BY <2>4 DEF ConnectFails, StateOK, Done
    <3>2. Update(r, q)
      BY <2>4 DEF ConnectFails
    <3> HIDE DEF configs
    <3>3. /\ q.pc \notin Done /\ q.id = req[r].id /\ q.op = req[r].op
          /\ q.ns = req[r].ns /\ q.app = req[r].app /\ q.num = req[r].num
          /\ q.answer = req[r].answer
      BY <3>1 DEF Request, Done
    <3> HIDE DEF q
    <3> QED BY <3>1, <3>2, <3>3, GoesOnPromise
  <2>5. ASSUME NEW r \in Requests, Fails(r) PROVE Promise!Next
    <3> DEFINE q == Answered(r, "500")
    <3>1. q.pc = "answered" /\ q.answer = "500"
      BY AnsweredFields
    <3>2. /\ Update(r, q) /\ req[r].pc \notin Done
          /\ UNCHANGED <<store, running, clock, named>>
      BY <2>5 DEF Fails, Answer, Done
    <3> HIDE DEF q
    <3> QED BY <3>1, <3>2, FinishPromise
  <2>6. ASSUME NEW r \in Requests, ReplyLost(r) PROVE Promise!Next
    <3>1. CASE req[r].pc = "put"
      BY <2>6, <3>1, PutPromise DEF ReplyLost, Answer
    <3>2. CASE req[r].pc = "deploy"
      BY <2>6, <3>2, DeployPromise DEF ReplyLost
    <3>3. CASE req[r].pc = "delete"
      BY <2>6, <3>3, DeletePromise DEF ReplyLost
    <3> QED BY <2>6, <3>1, <3>2, <3>3 DEF ReplyLost
  <2>7. CASE Restart
    <3>1. \A r \in Requests :
            req'[r] = IF Free(r) THEN req[r] ELSE Answered(r, "panic")
      BY <2>7 DEF Restart
    <3>2. \A r \in Requests :
            /\ Answered(r, "panic").pc = "answered"
            /\ Answered(r, "panic").answer = "panic"
      BY AnsweredFields
    <3>3. Requested' = [r \in Requests |-> Promise!Nothing]
      BY <3>1, <3>2 DEF Requested, Free, Promise!Nothing
    <3>4. \A r \in Requests : Free(r) <=> Requested[r].op = None
      BY ApiAssumption DEF Requested, Free, StageInv, StageOK, Done
    <3>5. Answers' = [r \in Requests |->
             IF Requested[r].op = None THEN Answers[r] ELSE "panic"]
      BY <3>1, <3>2, <3>4 DEF Answers
    <3>6. Reach' = Reach /\ UNCHANGED <<store, running, clock>>
      BY <2>7 DEF Restart, Reach
    <3>7. Promise!Lose
      BY <3>3, <3>5, <3>6 DEF Promise!Lose
    <3> QED BY <3>7 DEF Promise!Next
  <2> QED BY <1>2, <2>1, <2>2, <2>3, <2>4, <2>5, <2>6, <2>7 DEF Step
<1>3. CASE UNCHANGED vars
  BY <1>1, <1>3 DEF vars
<1> QED BY <1>2, <1>3 DEF Next

\* In the beginning nobody asks.
LEMMA InitPromise == Init => StageInv /\ Promise!Init
<1> SUFFICES ASSUME Init PROVE StageInv /\ Promise!Init
  OBVIOUS
<1>1. \A r \in Requests :
        /\ req[r].pc = "idle" /\ req[r].base = 0 /\ req[r].num = 0
        /\ req[r].answer = "none"
  BY DEF Init, NoRequest
<1>2. StageInv
  BY <1>1 DEF StageInv, StageOK, Done, Init
<1>3. Promise!Init
  BY <1>1 DEF Promise!Init, Requested, Answers, Reach, Free, Promise!Nothing,
              Promise!Keys, Keys, Init
<1> QED BY <1>2, <1>3

\* The invariant with the stages of requests holds throughout.
LEMMA StageCorrect == Spec => [](Inv /\ StageInv)
<1>1. Init => Inv /\ StageInv
  BY InitInv, InitPromise
<1>2. Inv => StateOK /\ PhaseInv /\ VersionInv
  BY DEF Inv, TypeOK, StateOK
<1>3. Inv /\ StageInv /\ [Next]_vars => (Inv /\ StageInv)'
  BY <1>2, StepInv, StepStage
<1> QED BY <1>1, <1>3, PTL DEF Spec

\* ApplicationApi implements ApplicationRequests: whatever fails, restarts or
\* comes between a handler's calls, an application changes only as a request
\* asks, and answers say what was done.
THEOREM DoesAsAskedCorrect == Spec => DoesAsAsked
<1>1. Init => Promise!Init
  BY InitPromise
<1>2. Inv => StateOK /\ PhaseInv /\ RouteInv /\ VersionInv
  BY DEF Inv, TypeOK, StateOK
<1>3. Inv' => StateOK'
  BY DEF Inv, TypeOK, StateOK
<1>4. (Inv /\ StageInv) /\ (Inv /\ StageInv)' /\ [Next]_vars
        => [Promise!Next]_(Promise!vars)
  BY <1>2, <1>3, NextPromise
<1> QED BY <1>1, <1>4, StageCorrect, PTL DEF Spec, DoesAsAsked, Promise!Spec
=============================================================================
