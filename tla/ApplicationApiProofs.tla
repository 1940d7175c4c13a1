------------------------ MODULE ApplicationApiProofs ------------------------
(***************************************************************************)
(* Proofs about ApplicationApi, for any host configs, namespaces,          *)
(* lattices, applications, credentials, requests and bounds.               *)
(***************************************************************************)
EXTENDS ApplicationApi, TLAPS

\* TypeOK, but for what has been shown to the requests.
StateOK ==
  /\ cfg \in [Configs -> Config]
  /\ cache \in [Configs -> Creds \cup {None}]
  /\ queued \in [Configs -> Write \cup {None}]
  /\ req \in [Requests -> Request]
  /\ store \in [Keys -> SUBSET Version]
  /\ running \in [Keys -> Nat]
  /\ clock \in Nat
  /\ budget \in [requests: Nat, changes: Nat, failures: Nat]
  /\ named \subseteq Configs \X Lattices
  /\ keyed \subseteq Configs \X Creds

\* Requests to wadm, and all that are past the host configs.
Asking == {"get", "status", "put", "deploy", "delete"}
Busy == Asking \cup {"connecting", "listing"}

\* How far a request is says what it has.
PhaseOK(q) ==
  /\ q.pc \in Busy => q.lattice # None
  /\ q.pc \in Asking \cup {"connecting"} => q.op \notin {"list", "list_all"}
  /\ q.pc \notin {"idle", "answered"} /\ q.op \notin {"list", "list_all"}
       => q.app # None
  /\ q.pc = "listing" => /\ q.op \in {"list", "list_all"}
                         /\ q.at # None /\ q.configs[q.at] = q.lattice

\* Versions are numbered in the order they are stored, and one is the newest.
NewestInv ==
  \A k \in Keys :
    /\ \A v \in store[k] : v.num <= clock /\ v.num > 0
    /\ store[k] # {} => \E v \in store[k] : \A w \in store[k] : w.num <= v.num

PhaseInv == NewestInv /\ \A r \in Requests : PhaseOK(req[r])

\* A request that has nothing is one.
LEMMA NoRequestType == NoRequest \in Request
BY ApiAssumption DEF NoRequest, Request, NoConfigs, Keys

\* Any field of a request may be replaced.
LEMMA FieldTypes ==
  ASSUME NEW q \in Request
  PROVE  /\ \A x \in {"idle", "configs", "next", "connecting", "listing", "get",
                    "status", "put", "deploy", "delete", "answered"} :
              [q EXCEPT !.pc = x] \in Request
         /\ \A x \in Ops \cup {None} : [q EXCEPT !.op = x] \in Request
         /\ \A x \in Namespaces \cup {None} : [q EXCEPT !.ns = x] \in Request
         /\ \A x \in Apps \cup {None} : [q EXCEPT !.app = x] \in Request
         /\ \A x \in Nat : [q EXCEPT !.id = x] \in Request
         /\ \A x \in BOOLEAN : [q EXCEPT !.held = x] \in Request
         /\ \A x \in [Configs -> Lattices \cup {None}] :
              [q EXCEPT !.configs = x] \in Request
         /\ \A x \in Configs \cup {None} : [q EXCEPT !.at = x] \in Request
         /\ \A x \in Lattices \cup {None} :
              [q EXCEPT !.lattice = x] \in Request
         /\ \A x \in Creds \cup {None} : [q EXCEPT !.creds = x] \in Request
         /\ \A x \in SUBSET Lattices : [q EXCEPT !.seen = x] \in Request
         /\ \A x \in [Keys -> Nat] : [q EXCEPT !.items = x] \in Request
         /\ \A x \in Nat : [q EXCEPT !.base = x] \in Request
         /\ \A x \in Nat : [q EXCEPT !.num = x] \in Request
         /\ \A x \in {"none", "200", "blank", "404", "500", "panic"} :
              [q EXCEPT !.answer = x] \in Request
<1>1. ASSUME NEW x \in {"idle", "configs", "next", "connecting", "listing", "get", "status",
              "put", "deploy", "delete", "answered"}
      PROVE  [q EXCEPT !.pc = x] \in Request
  BY DEF Request
<1>2. ASSUME NEW x \in Ops \cup {None}
      PROVE  [q EXCEPT !.op = x] \in Request
  BY DEF Request
<1>3. ASSUME NEW x \in Namespaces \cup {None}
      PROVE  [q EXCEPT !.ns = x] \in Request
  BY DEF Request
<1>4. ASSUME NEW x \in Apps \cup {None}
      PROVE  [q EXCEPT !.app = x] \in Request
  BY DEF Request
<1>5. ASSUME NEW x \in Nat
      PROVE  [q EXCEPT !.id = x] \in Request
  BY DEF Request
<1>6. ASSUME NEW x \in BOOLEAN
      PROVE  [q EXCEPT !.held = x] \in Request
  BY DEF Request
<1>7. ASSUME NEW x \in [Configs -> Lattices \cup {None}]
      PROVE  [q EXCEPT !.configs = x] \in Request
  BY DEF Request
<1>8. ASSUME NEW x \in Configs \cup {None}
      PROVE  [q EXCEPT !.at = x] \in Request
  BY DEF Request
<1>9. ASSUME NEW x \in Lattices \cup {None}
      PROVE  [q EXCEPT !.lattice = x] \in Request
  BY DEF Request
<1>10. ASSUME NEW x \in Creds \cup {None}
      PROVE  [q EXCEPT !.creds = x] \in Request
  BY DEF Request
<1>11. ASSUME NEW x \in SUBSET Lattices
      PROVE  [q EXCEPT !.seen = x] \in Request
  BY DEF Request
<1>12. ASSUME NEW x \in [Keys -> Nat]
      PROVE  [q EXCEPT !.items = x] \in Request
  BY DEF Request
<1>13. ASSUME NEW x \in Nat
      PROVE  [q EXCEPT !.base = x] \in Request
  BY DEF Request
<1>14. ASSUME NEW x \in Nat
      PROVE  [q EXCEPT !.num = x] \in Request
  BY DEF Request
<1>15. ASSUME NEW x \in {"none", "200", "blank", "404", "500", "panic"}
      PROVE  [q EXCEPT !.answer = x] \in Request
  BY DEF Request
<1> QED BY <1>1, <1>2, <1>3, <1>4, <1>5, <1>6, <1>7, <1>8,
          <1>9, <1>10, <1>11, <1>12, <1>13, <1>14, <1>15

\* So is an answered one.
LEMMA AnsweredType ==
  ASSUME StateOK, NEW r \in Requests,
         NEW code \in {"200", "blank", "404", "500", "panic"}
  PROVE  Answered(r, code) \in Request
<1>1. (IF code = "404" THEN req[r].id ELSE 0) \in Nat
  BY DEF StateOK, Request
<1>2. [NoRequest EXCEPT !.pc = "answered"] \in Request
  BY NoRequestType, FieldTypes
<1>3. [NoRequest EXCEPT !.pc = "answered", !.answer = code] \in Request
  BY <1>2, FieldTypes
<1> QED BY <1>1, <1>3, FieldTypes DEF Answered

\* A request that handles what it has, and nothing else.
LEMMA UpdateType ==
  ASSUME StateOK, NEW r \in Requests, NEW q \in Request, Update(r, q), Unchanged
  PROVE  StateOK'
BY DEF StateOK, Update, Unchanged

\* What is spent was there.
LEMMA SpendType ==
  ASSUME StateOK, NEW what \in {"requests", "changes", "failures"}, Spend(what)
  PROVE  budget' \in [requests: Nat, changes: Nat, failures: Nat]
BY DEF StateOK, Spend

\* An application a request may ask for has a key in its lattice.
LEMMA ConfigsType ==
  ASSUME StateOK, NEW r \in Requests, NEW c \in Configs
  PROVE  /\ req[r].configs \in [Configs -> Lattices \cup {None}]
         /\ [req[r].configs EXCEPT ![c] = None] \in [Configs -> Lattices \cup {None}]
BY DEF StateOK, Request

\* The host configs' own steps.
LEMMA ChangeType ==
  ASSUME StateOK, NEW c \in Configs, Change(c) \/ WriteCreds(c)
  PROVE  StateOK'
<1> USE ApiAssumption
<1>1. CASE DeleteConfig(c)
  BY <1>1, SpendType DEF DeleteConfig, StateOK, Config
<1>2. CASE Cleanup(c)
  BY <1>2 DEF Cleanup, StateOK, Write
<1>3. ASSUME NEW l \in Lattices, EditConfig(c, l) PROVE StateOK'
  BY <1>3, SpendType DEF EditConfig, StateOK, Config
<1>4. ASSUME NEW v \in Creds, ReadCreds(c, v) PROVE StateOK'
  BY <1>4, SpendType DEF ReadCreds, StateOK, Write
<1>5. CASE WriteCreds(c)
  <2>1. queued[c].creds \in Creds \cup {None}
    BY <1>5 DEF WriteCreds, StateOK, Write, Removal, Store
  <2> QED BY <1>5, <2>1 DEF WriteCreds, StateOK, Config
<1> QED BY <1>1, <1>2, <1>3, <1>4, <1>5 DEF Change

\* Requests begin and fail.
LEMMA BeginType ==
  ASSUME StateOK, NEW r \in Requests, NEW op \in Ops,
         NEW ns \in Namespaces \cup {None}, NEW a \in Apps \cup {None},
         Begin(r, op, ns, a)
  PROVE  StateOK'
<1> DEFINE q == [NoRequest EXCEPT !.pc = "configs", !.op = op, !.ns = ns,
                                  !.app = a, !.id = clock + 1]
<1>1. [NoRequest EXCEPT !.pc = "configs", !.op = op] \in Request
  BY NoRequestType, FieldTypes
<1>2. [NoRequest EXCEPT !.pc = "configs", !.op = op, !.ns = ns, !.app = a]
        \in Request
  BY <1>1, FieldTypes
<1>3. clock + 1 \in Nat
  BY DEF StateOK
<1>4. q \in Request
  BY <1>2, <1>3, FieldTypes
<1> QED BY <1>4, SpendType DEF Begin, Update, StateOK

\* What failed is answered, or tries the next host config.
LEMMA FailureType ==
  ASSUME StateOK, NEW r \in Requests,
         ConnectFails(r) \/ Fails(r) \/ ReplyLost(r)
  PROVE  StateOK'
<1>1. CASE ConnectFails(r)
  <2> DEFINE q == [req[r] EXCEPT !.pc = "next", !.held = FALSE,
                                 !.configs[req[r].at] = None,
                                 !.lattice = None, !.creds = None]
  <2> DEFINE n == [req[r] EXCEPT !.pc = "next", !.held = FALSE]
  <2>1. n \in Request
    BY FieldTypes DEF StateOK
  <2>2. [n.configs EXCEPT ![req[r].at] = None] \in [Configs -> Lattices \cup {None}]
    BY <2>1 DEF Request
  <2> HIDE DEF n
  <2>3. [n EXCEPT !.configs = [n.configs EXCEPT ![req[r].at] = None]] \in Request
    BY <2>1, <2>2, FieldTypes
  <2>4. [n EXCEPT !.configs = [n.configs EXCEPT ![req[r].at] = None],
                  !.lattice = None, !.creds = None] \in Request
    BY <2>3, FieldTypes
  <2>5. q \in Request
    BY <2>4 DEF n
  <2> QED BY <1>1, <2>5, SpendType DEF ConnectFails, Update, StateOK
<1>2. CASE Fails(r)
  BY <1>2, SpendType, AnsweredType DEF Fails, Answer, Update, StateOK
<1>3. CASE ReplyLost(r)
  <2>1. Stored(r) \in Version
    BY DEF Stored, Version, StateOK, Request
  <2>2. store' \in [Keys -> SUBSET Version]
    BY <1>3, <2>1 DEF ReplyLost, StateOK
  <2>3. running' \in [Keys -> Nat] /\ clock' \in Nat
    BY <1>3 DEF ReplyLost, StateOK, Request
  <2> QED BY <1>3, <2>2, <2>3, SpendType, AnsweredType
          DEF ReplyLost, Answer, Update, StateOK
<1> QED BY <1>1, <1>2, <1>3

\* A restart answers what was under way.
LEMMA RestartType == ASSUME StateOK, Restart PROVE StateOK'
<1>1. req' \in [Requests -> Request]
  BY AnsweredType DEF Restart, StateOK
<1> QED BY <1>1, SpendType DEF Restart, StateOK

\* The handlers, up to wadm.
LEMMA ConnectType ==
  ASSUME StateOK, PhaseInv, NEW r \in Requests,
         \/ ListConfigs(r) \/ (\E c \in Configs : Lookup(r, c)) \/ ListApps(r)
         \/ Connect(r) \/ (\E as \in As : NoneLeft(r, as))
  PROVE  StateOK'
<1> USE ApiAssumption
<1>1. CASE ListConfigs(r)
  <2> DEFINE configs == [c \in Configs |->
                           IF c \in Scope(req[r].op, req[r].ns) /\ Present(c)
                           THEN cfg[c].lattice ELSE None]
  <2>1. configs \in [Configs -> Lattices \cup {None}]
    BY DEF StateOK, Config
  <2> HIDE DEF configs
  <2>2. [req[r] EXCEPT !.pc = "next", !.configs = configs] \in Request
    BY <2>1, FieldTypes DEF StateOK
  <2> QED BY <1>1, <2>2, UpdateType DEF ListConfigs, configs
<1>2. ASSUME NEW c \in Configs, Lookup(r, c) PROVE StateOK'
  <2> DEFINE q == [req[r] EXCEPT !.at = c, !.lattice = req[r].configs[c],
                                 !.creds = cache[c]]
  <2>1. /\ req[r] \in Request
        /\ req[r].configs[c] \in Lattices \cup {None}
        /\ [req[r].configs EXCEPT ![c] = None] \in [Configs -> Lattices \cup {None}]
        /\ cache[c] \in Creds \cup {None}
    BY DEF Request, StateOK
  <2>2. [req[r] EXCEPT !.at = c, !.lattice = req[r].configs[c]] \in Request
    BY <2>1, FieldTypes
  <2>3. q \in Request
    BY <2>1, <2>2, FieldTypes
  <2> HIDE DEF q
  <2>4. \A pc \in {"listing", "connecting"} :
          [q EXCEPT !.pc = pc, !.held = TRUE] \in Request
    BY <2>3, FieldTypes
  <2>5. [req[r] EXCEPT !.configs[c] = None] \in Request
    BY <2>1, FieldTypes
  <2>6. \/ Update(r, [req[r] EXCEPT !.configs[c] = None])
        \/ \E code \in {"500", "panic"} : Update(r, Answered(r, code))
        \/ \E pc \in {"listing", "connecting"} :
             Update(r, [q EXCEPT !.pc = pc, !.held = TRUE])
    BY <1>2 DEF Lookup, Answer, q
  <2>7. Unchanged
    BY <1>2 DEF Lookup
  <2> QED BY <2>4, <2>5, <2>6, <2>7, UpdateType, AnsweredType
<1>3. CASE ListApps(r)
  <2> DEFINE items == [k \in Keys |-> req[r].items[k] +
                         IF k[1] = req[r].lattice /\ store[k] # {} THEN 1 ELSE 0]
             configs == [req[r].configs EXCEPT ![req[r].at] = None]
             seen == req[r].seen \cup {req[r].lattice}
  <2>1. /\ items \in [Keys -> Nat]
        /\ configs \in [Configs -> Lattices \cup {None}]
        /\ seen \in SUBSET Lattices
    BY <1>3 DEF ListApps, StateOK, Request, PhaseInv, PhaseOK, Busy
  <2> HIDE DEF items, configs, seen
  <2>2. [req[r] EXCEPT !.pc = "next", !.held = FALSE, !.configs = configs] \in Request
    BY <2>1, FieldTypes DEF StateOK
  <2>3. [req[r] EXCEPT !.pc = "next", !.held = FALSE, !.configs = configs,
                       !.seen = seen, !.items = items] \in Request
    BY <2>1, <2>2, FieldTypes
  <2>4. Update(r, [req[r] EXCEPT !.pc = "next", !.held = FALSE,
                     !.configs = configs, !.seen = seen, !.items = items])
    BY <1>3 DEF ListApps, items, configs, seen
  <2> QED BY <1>3, <2>3, <2>4, UpdateType DEF ListApps
<1>4. CASE Connect(r)
  <2>1. \A pc \in {"get", "put", "delete"} :
          [req[r] EXCEPT !.pc = pc, !.held = FALSE] \in Request
    BY FieldTypes DEF StateOK
  <2> QED BY <1>4, <2>1, UpdateType DEF Connect
<1>5. ASSUME NEW as \in As, NoneLeft(r, as) PROVE StateOK'
  <2>1. req[r].op \in Ops \cup {None} /\ req[r].items \in [Keys -> Nat]
    BY DEF StateOK, Request
  <2>2. [Answered(r, "200") EXCEPT !.op = req[r].op, !.items = req[r].items]
          \in Request
    BY <2>1, AnsweredType, FieldTypes
  <2> QED BY <1>5, <2>2, UpdateType, AnsweredType DEF NoneLeft, Answer
<1> QED BY <1>1, <1>2, <1>3, <1>4, <1>5

\* What a request asks wadm for is an application of a lattice.
LEMMA KeyType ==
  ASSUME StateOK, PhaseInv, NEW r \in Requests, req[r].pc \in Asking
  PROVE  Key(r) \in Keys
BY DEF StateOK, PhaseInv, PhaseOK, Request, Key, Keys, Asking, Busy

\* Where there are versions, Newest is one, and none is newer.
LEMMA NewestIsOne ==
  ASSUME StateOK, PhaseInv, NEW k \in Keys, store[k] # {}
  PROVE  /\ Newest(store[k]) \in store[k]
         /\ Newest(store[k]).num \in Nat
         /\ \A w \in store[k] : w.num <= Newest(store[k]).num
<1>1. \E v \in store[k] : \A w \in store[k] : w.num <= v.num
  BY DEF PhaseInv, NewestInv
<1>2. /\ Newest(store[k]) \in store[k]
      /\ \A w \in store[k] : w.num <= Newest(store[k]).num
  BY <1>1 DEF Newest
<1>3. store[k] \subseteq Version
  BY DEF StateOK
<1> QED BY <1>2, <1>3 DEF Version

\* What is stored is a version.
LEMMA StoredType ==
  ASSUME StateOK, NEW r \in Requests
  PROVE  Stored(r) \in Version /\ Stored(r).num = clock + 1
BY DEF Stored, Version, StateOK, Request

\* The requests to wadm.
LEMMA WadmType ==
  ASSUME StateOK, PhaseInv, NEW r \in Requests,
         \/ GetManifest(r) \/ (\E as \in As : GetManifestStatus(r, as))
         \/ BadBody(r) \/ PutManifest(r) \/ DeployManifest(r) \/ DeleteManifest(r)
  PROVE  StateOK'
<1>1. CASE GetManifest(r)
  <2>1. CASE store[Key(r)] = {}
    BY <1>1, <2>1, UpdateType, AnsweredType DEF GetManifest, Answer
  <2>2. CASE store[Key(r)] # {}
    <3> DEFINE n == Newest(store[Key(r)]).num
               pc == IF req[r].op = "get" THEN "status" ELSE "put"
    <3>1. n \in Nat
      BY <1>1, <2>2, KeyType, NewestIsOne DEF GetManifest, Asking
    <3> HIDE DEF n
    <3>2. [req[r] EXCEPT !.base = n, !.pc = pc] \in Request
      BY <3>1, FieldTypes DEF StateOK
    <3> QED BY <1>1, <2>2, <3>2, UpdateType DEF GetManifest, n
  <2> QED BY <2>1, <2>2
<1>2. ASSUME NEW as \in As, GetManifestStatus(r, as) PROVE StateOK'
  BY <1>2, UpdateType, AnsweredType DEF GetManifestStatus, Answer
<1>3. CASE BadBody(r)
  BY <1>3, UpdateType, AnsweredType DEF BadBody, Answer
<1>4. CASE PutManifest(r)
  <2>1. req[r] \in Request /\ clock + 1 \in Nat
    BY DEF StateOK
  <2>2. [req[r] EXCEPT !.pc = "deploy", !.num = clock + 1] \in Request
    BY <2>1, FieldTypes
  <2>3. req' \in [Requests -> Request]
    BY <1>4, <2>2 DEF PutManifest, Update, StateOK
  <2>4. store' \in [Keys -> SUBSET Version]
    BY <1>4, StoredType DEF PutManifest, StateOK
  <2> QED BY <1>4, <2>1, <2>3, <2>4 DEF PutManifest, StateOK
<1>5. CASE DeployManifest(r)
  <2>1. req' \in [Requests -> Request]
    BY <1>5, AnsweredType DEF DeployManifest, Answer, Update, StateOK
  <2>2. running' \in [Keys -> Nat]
    BY <1>5 DEF DeployManifest, StateOK, Request
  <2> QED BY <1>5, <2>1, <2>2 DEF DeployManifest, StateOK
<1>6. CASE DeleteManifest(r)
  <2>1. req' \in [Requests -> Request]
    BY <1>6, AnsweredType DEF DeleteManifest, Answer, Update, StateOK
  <2> QED BY <1>6, <2>1 DEF DeleteManifest, StateOK
<1> QED BY <1>1, <1>2, <1>3, <1>4, <1>5, <1>6

\* No step of the system leaves the types.
LEMMA StepType == StateOK /\ PhaseInv /\ [Next]_vars => StateOK'
<1> SUFFICES ASSUME StateOK, PhaseInv, [Next]_vars PROVE StateOK'
  OBVIOUS
<1>1. CASE Step
  <2>1. ASSUME NEW c \in Configs, Change(c) \/ WriteCreds(c) PROVE StateOK'
    BY <2>1, ChangeType
  <2>2. ASSUME NEW r \in Requests, NEW op \in Ops,
               NEW ns \in Namespaces \cup {None}, NEW a \in Apps \cup {None},
               Begin(r, op, ns, a)
        PROVE  StateOK'
    BY <2>2, BeginType
  <2>3. ASSUME NEW r \in Requests, Handle(r) PROVE StateOK'
    BY <2>3, ConnectType, WadmType DEF Handle
  <2>4. ASSUME NEW r \in Requests, ConnectFails(r) \/ Fails(r) \/ ReplyLost(r)
        PROVE  StateOK'
    BY <2>4, FailureType
  <2>5. CASE Restart
    BY <2>5, RestartType
  <2> QED BY <1>1, <2>1, <2>2, <2>3, <2>4, <2>5 DEF Step
<1>2. CASE UNCHANGED vars
  BY <1>2 DEF vars, StateOK
<1> QED BY <1>1, <1>2 DEF Next
-----------------------------------------------------------------------------
(***************************************************************************)
(* The phases of requests, and the newest version.                         *)
(***************************************************************************)
\* An answered request has nothing left but its answer.
LEMMA AnsweredFields ==
  ASSUME NEW r \in Requests, NEW code
  PROVE  LET q == Answered(r, code)
         IN /\ q.pc = "answered" /\ q.answer = code
            /\ q.op = None /\ q.ns = None /\ q.lattice = None /\ q.creds = None
            /\ q.configs = NoConfigs /\ q.base = 0 /\ q.num = 0
            /\ q.id = IF code = "404" THEN req[r].id ELSE 0
BY DEF Answered, NoRequest

\* An answered request is in no phase that has anything.
LEMMA AnsweredPhase ==
  ASSUME NEW r \in Requests, NEW code PROVE PhaseOK(Answered(r, code))
BY AnsweredFields DEF PhaseOK, Asking, Busy

\* What becomes of one request is enough.
LEMMA UpdatePhase ==
  ASSUME StateOK, PhaseInv, NEW r \in Requests, NEW q, PhaseOK(q), Update(r, q),
         NewestInv'
  PROVE  PhaseInv'
<1>1. \A s \in Requests : PhaseOK(req[s])'
  BY DEF Update, StateOK, PhaseInv, PhaseOK
<1> QED BY <1>1 DEF PhaseInv

\* Versions stay numbered, stored or deleted.
LEMMA SameVersions ==
  ASSUME StateOK, PhaseInv, store' = store, clock' = clock \/ clock' = clock + 1
  PROVE  NewestInv'
<1>1. \A k \in Keys : \A v \in store[k] : v.num \in Nat
  BY DEF StateOK, Version
<1> QED BY <1>1 DEF StateOK, PhaseInv, NewestInv

\* What is stored is newer than all there was.
LEMMA MoreVersions ==
  ASSUME StateOK, PhaseInv, NEW r \in Requests, clock' = clock + 1,
         store' = [store EXCEPT ![Key(r)] = @ \cup {Stored(r)}]
  PROVE  NewestInv'
<1> SUFFICES ASSUME NEW k \in Keys
             PROVE  /\ \A v \in store'[k] : v.num <= clock' /\ v.num > 0
                    /\ store'[k] # {} =>
                         \E v \in store'[k] : \A w \in store'[k] : w.num <= v.num
  BY DEF NewestInv
<1>1. \A v \in store[k] : v.num \in Nat /\ v.num <= clock /\ v.num > 0
  BY DEF StateOK, Version, PhaseInv, NewestInv
<1>2. clock \in Nat /\ Stored(r).num = clock + 1
  BY StoredType DEF StateOK
<1>3. CASE k = Key(r)
  <2>1. store'[k] = store[k] \cup {Stored(r)}
    BY <1>3 DEF StateOK
  <2> QED BY <1>1, <1>2, <2>1
<1>4. CASE k # Key(r)
  <2>1. store'[k] = store[k]
    BY <1>4 DEF StateOK
  <2> QED BY <1>1, <1>2, <2>1 DEF PhaseInv, NewestInv
<1> QED BY <1>3, <1>4

\* Without versions there is none to be the newest.
LEMMA NoVersions ==
  ASSUME StateOK, PhaseInv, NEW r \in Requests, clock' = clock,
         store' = [store EXCEPT ![Key(r)] = {}]
  PROVE  NewestInv'
<1>1. \A k \in Keys : store'[k] = {} \/ store'[k] = store[k]
  BY DEF StateOK
<1> QED BY <1>1 DEF PhaseInv, NewestInv

\* A handler's step.
LEMMA HandlePhase ==
  ASSUME StateOK, PhaseInv, NEW r \in Requests, Handle(r)
  PROVE  PhaseInv'
<1> USE ApiAssumption
<1>0. Unchanged => NewestInv'
  BY SameVersions DEF Unchanged
<1>a. req[r] \in Request /\ PhaseOK(req[r])
  BY DEF StateOK, PhaseInv
<1>b. ASSUME NEW code, Update(r, Answered(r, code)), NewestInv' PROVE PhaseInv'
  BY <1>b, AnsweredPhase, UpdatePhase
<1>1. CASE ListConfigs(r)
  <2> DEFINE configs == [c \in Configs |->
                           IF c \in Scope(req[r].op, req[r].ns) /\ Present(c)
                           THEN cfg[c].lattice ELSE None]
             q == [req[r] EXCEPT !.pc = "next", !.configs = configs]
  <2> HIDE DEF configs
  <2>1. PhaseOK(q)
    BY <1>1, <1>a DEF ListConfigs, PhaseOK, Asking, Busy, Request
  <2>2. Update(r, q)
    BY <1>1 DEF ListConfigs, configs
  <2> QED BY <1>0, <1>1, <2>1, <2>2, UpdatePhase DEF ListConfigs
<1>2. ASSUME NEW c \in Configs, Lookup(r, c) PROVE PhaseInv'
  <2> DEFINE q == [req[r] EXCEPT !.at = c, !.lattice = req[r].configs[c],
                                 !.creds = cache[c]]
             busy(pc) == [q EXCEPT !.pc = pc, !.held = TRUE]
  <2>1. NewestInv'
    BY <1>0, <1>2 DEF Lookup
  <2>2. req[r].configs[c] # None /\ req[r].pc = "next"
    BY <1>2 DEF Lookup, Turn
  <2>3. CASE Update(r, [req[r] EXCEPT !.configs[c] = None])
    <3>1. PhaseOK([req[r] EXCEPT !.configs[c] = None])
      BY <1>a, <2>2 DEF PhaseOK, Asking, Busy, Request
    <3> QED BY <2>1, <2>3, <3>1, UpdatePhase
  <2>4. CASE Listing(r) /\ Update(r, busy("listing"))
    <3>1. PhaseOK(busy("listing"))
      BY <1>a, <2>2, <2>4 DEF PhaseOK, Asking, Busy, Request, Listing
    <3> QED BY <2>1, <2>4, <3>1, UpdatePhase
  <2>5. CASE ~Listing(r) /\ Update(r, busy("connecting"))
    <3>1. PhaseOK(busy("connecting"))
      BY <1>a, <2>2, <2>5 DEF PhaseOK, Asking, Busy, Request, Listing
    <3> QED BY <2>1, <2>5, <3>1, UpdatePhase
  <2>6. CASE \E code \in {"500", "panic"} : Update(r, Answered(r, code))
    BY <1>b, <2>1, <2>6
  <2> QED BY <1>2, <2>3, <2>4, <2>5, <2>6 DEF Lookup, Answer
<1>3. CASE ListApps(r)
  <2> DEFINE items == [k \in Keys |-> req[r].items[k] +
                         IF k[1] = req[r].lattice /\ store[k] # {} THEN 1 ELSE 0]
             configs == [req[r].configs EXCEPT ![req[r].at] = None]
             seen == req[r].seen \cup {req[r].lattice}
             q == [req[r] EXCEPT !.pc = "next", !.held = FALSE,
                     !.configs = configs, !.seen = seen, !.items = items]
  <2> HIDE DEF items, configs, seen
  <2>1. PhaseOK(q)
    BY <1>3, <1>a DEF ListApps, PhaseOK, Asking, Busy, Request
  <2>2. Update(r, q)
    BY <1>3 DEF ListApps, items, configs, seen
  <2> QED BY <1>0, <1>3, <2>1, <2>2, UpdatePhase DEF ListApps
<1>4. CASE Connect(r)
  <2>1. \A pc \in {"get", "put", "delete"} :
          PhaseOK([req[r] EXCEPT !.pc = pc, !.held = FALSE])
    BY <1>4, <1>a DEF Connect, PhaseOK, Asking, Busy, Request
  <2> QED BY <1>0, <1>4, <2>1, UpdatePhase DEF Connect
<1>5. ASSUME NEW as \in As, NoneLeft(r, as) PROVE PhaseInv'
  <2> DEFINE q == [Answered(r, "200") EXCEPT !.op = req[r].op,
                                             !.items = req[r].items]
  <2>1. PhaseOK(q)
    <3>1. Answered(r, "200") \in Request
      BY AnsweredType
    <3>2. q.pc = "answered"
      BY <3>1, AnsweredFields DEF Request
    <3> QED BY <3>2 DEF PhaseOK, Asking, Busy
  <2> QED BY <1>0, <1>b, <1>5, <2>1, UpdatePhase DEF NoneLeft, Answer
<1>6. CASE GetManifest(r)
  <2> DEFINE n == Newest(store[Key(r)]).num
             pc == IF req[r].op = "get" THEN "status" ELSE "put"
             q == [req[r] EXCEPT !.base = n, !.pc = pc]
  <2> HIDE DEF n
  <2>1. PhaseOK(q)
    BY <1>6, <1>a DEF GetManifest, PhaseOK, Asking, Busy, Request
  <2>2. Update(r, q) \/ Update(r, Answered(r, "404"))
    BY <1>6 DEF GetManifest, Answer, n
  <2> QED BY <1>0, <1>b, <1>6, <2>1, <2>2, UpdatePhase DEF GetManifest
<1>7. ASSUME NEW as \in As, GetManifestStatus(r, as) PROVE PhaseInv'
  BY <1>0, <1>b, <1>7 DEF GetManifestStatus, Answer
<1>8. CASE BadBody(r)
  BY <1>0, <1>b, <1>8 DEF BadBody, Answer
<1>9. CASE PutManifest(r)
  <2>1. PhaseOK([req[r] EXCEPT !.pc = "deploy", !.num = clock + 1])
    BY <1>9, <1>a DEF PutManifest, PhaseOK, Asking, Busy, Request
  <2> QED BY <1>9, <2>1, MoreVersions, UpdatePhase DEF PutManifest
<1>10. CASE DeployManifest(r)
  BY <1>b, <1>10, SameVersions DEF DeployManifest, Answer
<1>11. CASE DeleteManifest(r)
  BY <1>b, <1>11, NoVersions DEF DeleteManifest, Answer
<1> QED BY <1>1, <1>2, <1>3, <1>4, <1>5, <1>6, <1>7, <1>8, <1>9, <1>10, <1>11
        DEF Handle

\* Requests begin, and fail.
LEMMA BeginPhase ==
  ASSUME StateOK, PhaseInv, NEW r \in Requests, NEW op \in Ops,
         NEW ns \in Namespaces \cup {None}, NEW a \in Apps \cup {None},
         Begin(r, op, ns, a)
  PROVE  PhaseInv'
<1> DEFINE q == [NoRequest EXCEPT !.pc = "configs", !.op = op, !.ns = ns,
                                  !.app = a, !.id = clock + 1]
<1>1. q.pc = "configs" /\ q.op = op /\ q.app = a
  BY DEF NoRequest
<1>2. PhaseOK(q)
  BY <1>1 DEF Begin, PhaseOK, Asking, Busy
<1>3. NewestInv'
  BY SameVersions DEF Begin
<1> QED BY <1>2, <1>3, UpdatePhase DEF Begin

\* What fails moves on with nothing a phase asks for.
LEMMA FailurePhase ==
  ASSUME StateOK, PhaseInv, NEW r \in Requests,
         ConnectFails(r) \/ Fails(r) \/ ReplyLost(r)
  PROVE  PhaseInv'
<1>1. CASE ConnectFails(r)
  <2> DEFINE configs == [req[r].configs EXCEPT ![req[r].at] = None]
             q == [req[r] EXCEPT !.pc = "next", !.held = FALSE,
                     !.configs = configs, !.lattice = None, !.creds = None]
  <2> HIDE DEF configs
  <2>1. req[r] \in Request /\ PhaseOK(req[r])
    BY DEF StateOK, PhaseInv
  <2>2. PhaseOK(q)
    BY <1>1, <2>1 DEF ConnectFails, PhaseOK, Asking, Busy, Request
  <2>3. Update(r, q)
    BY <1>1, <2>1 DEF ConnectFails, configs, Request
  <2> QED BY <1>1, <2>2, <2>3, SameVersions, UpdatePhase DEF ConnectFails
<1>2. CASE Fails(r)
  BY <1>2, SameVersions, AnsweredPhase, UpdatePhase DEF Fails, Answer
<1>3. CASE ReplyLost(r)
  <2>1. NewestInv'
    <3>1. CASE req[r].pc = "put"
      BY <1>3, <3>1, MoreVersions DEF ReplyLost
    <3>2. CASE req[r].pc = "deploy"
      BY <1>3, <3>2, SameVersions DEF ReplyLost
    <3>3. CASE req[r].pc = "delete"
      BY <1>3, <3>3, NoVersions DEF ReplyLost
    <3> QED BY <1>3, <3>1, <3>2, <3>3 DEF ReplyLost
  <2> QED BY <1>3, <2>1, AnsweredPhase, UpdatePhase DEF ReplyLost, Answer
<1> QED BY <1>1, <1>2, <1>3

\* The phases hold in every step.
LEMMA StepPhase == StateOK /\ PhaseInv /\ [Next]_vars => PhaseInv'
<1> SUFFICES ASSUME StateOK, PhaseInv, [Next]_vars PROVE PhaseInv'
  OBVIOUS
<1>1. ASSUME UNCHANGED req, UNCHANGED store, UNCHANGED clock PROVE PhaseInv'
  BY <1>1 DEF PhaseInv, NewestInv, PhaseOK
<1>2. CASE Step
  <2>1. ASSUME NEW c \in Configs, Change(c) \/ WriteCreds(c) PROVE PhaseInv'
    BY <1>1, <2>1
       DEF Change, DeleteConfig, Cleanup, EditConfig, ReadCreds, WriteCreds
  <2>2. ASSUME NEW r \in Requests, NEW op \in Ops,
               NEW ns \in Namespaces \cup {None}, NEW a \in Apps \cup {None},
               Begin(r, op, ns, a)
        PROVE  PhaseInv'
    BY <2>2, BeginPhase
  <2>3. ASSUME NEW r \in Requests,
               Handle(r) \/ ConnectFails(r) \/ Fails(r) \/ ReplyLost(r)
        PROVE  PhaseInv'
    BY <2>3, HandlePhase, FailurePhase
  <2>4. CASE Restart
    <3>1. \A r \in Requests : PhaseOK(req'[r])
      BY <2>4, AnsweredPhase DEF Restart, PhaseInv
    <3>2. NewestInv'
      BY <2>4, SameVersions DEF Restart
    <3> QED BY <3>1, <3>2 DEF PhaseInv, PhaseOK
  <2> QED BY <1>2, <2>1, <2>2, <2>3, <2>4 DEF Step
<1>3. CASE UNCHANGED vars
  BY <1>1, <1>3 DEF vars
<1> QED BY <1>2, <1>3 DEF Next
-----------------------------------------------------------------------------
(***************************************************************************)
(* Lattices and credentials come from host configs of the namespace.       *)
(***************************************************************************)
\* What a request has of the host configs was once theirs, and is of its scope.
RouteOK(q) ==
  /\ \A c \in Configs : q.configs[c] # None =>
       /\ <<c, q.configs[c]>> \in named
       /\ q.op # "list_all" => NsOf[c] = q.ns
  /\ (q.lattice # None /\ q.op # "list_all") =>
       \E c \in Configs :
         /\ NsOf[c] = q.ns /\ <<c, q.lattice>> \in named
         /\ q.creds # None => <<c, q.creds>> \in keyed

\* The host configs and the cache are covered by the histories.
SourcesInv ==
  \A c \in Configs :
    /\ cfg[c].lattice # None => <<c, cfg[c].lattice>> \in named
    /\ cache[c] # None => <<c, cache[c]>> \in keyed

RouteInv == SourcesInv /\ \A r \in Requests : RouteOK(req[r])

\* An answered request names no lattice.
LEMMA AnsweredRoute ==
  ASSUME NEW r \in Requests, NEW code PROVE RouteOK(Answered(r, code))
BY AnsweredFields DEF RouteOK, NoConfigs

\* The histories only grow, so what becomes of one request is enough.
LEMMA UpdateRoute ==
  ASSUME StateOK, RouteInv, NEW r \in Requests, NEW q, RouteOK(q), Update(r, q),
         UNCHANGED <<cfg, cache, named, keyed>>
  PROVE  RouteInv'
<1>1. \A s \in Requests : RouteOK(req[s])'
  BY DEF Update, StateOK, RouteInv, RouteOK
<1> QED BY <1>1 DEF RouteInv, SourcesInv

\* Requests that stay as they are stay covered by histories that grow.
LEMMA SameRoutes ==
  ASSUME StateOK, RouteInv, UNCHANGED req, named \subseteq named',
         keyed \subseteq keyed', SourcesInv'
  PROVE  RouteInv'
BY DEF RouteInv, RouteOK

\* A request that keeps what it has of the host configs.
LEMMA KeepsRoute ==
  ASSUME RouteInv, NEW r \in Requests, NEW q, q.configs = req[r].configs,
         q.op = req[r].op, q.ns = req[r].ns, q.lattice = req[r].lattice,
         q.creds = req[r].creds
  PROVE  RouteOK(q)
BY DEF RouteInv, RouteOK

\* A host config's lattice and credentials enter the histories with it.
LEMMA ChangeRoute ==
  ASSUME StateOK, RouteInv, NEW c \in Configs, Change(c) \/ WriteCreds(c)
  PROVE  RouteInv'
<1>1. CASE DeleteConfig(c)
  <2>1. SourcesInv'
    BY <1>1 DEF DeleteConfig, StateOK, Config, RouteInv, SourcesInv
  <2> QED BY <1>1, <2>1, SameRoutes DEF DeleteConfig
<1>2. CASE Cleanup(c)
  BY <1>2, SameRoutes DEF Cleanup, RouteInv, SourcesInv
<1>3. ASSUME NEW l \in Lattices, EditConfig(c, l) PROVE RouteInv'
  <2>1. SourcesInv'
    BY <1>3 DEF EditConfig, StateOK, RouteInv, SourcesInv
  <2> QED BY <1>3, <2>1, SameRoutes DEF EditConfig
<1>4. ASSUME NEW v \in Creds, ReadCreds(c, v) PROVE RouteInv'
  BY <1>4, SameRoutes DEF ReadCreds, RouteInv, SourcesInv
<1>5. CASE WriteCreds(c)
  <2>1. SourcesInv'
    <3> SUFFICES ASSUME NEW d \in Configs
                 PROVE  /\ cfg'[d].lattice # None => <<d, cfg'[d].lattice>> \in named'
                        /\ cache'[d] # None => <<d, cache'[d]>> \in keyed'
      BY DEF SourcesInv
    <3>1. CASE d = c
      BY <1>5, <3>1 DEF WriteCreds, StateOK, RouteInv, SourcesInv
    <3>2. CASE d # c
      BY <1>5, <3>2 DEF WriteCreds, StateOK, RouteInv, SourcesInv
    <3> QED BY <3>1, <3>2
  <2>2. req' = req /\ named' = named /\ keyed \subseteq keyed'
    BY <1>5 DEF WriteCreds
  <2> QED BY <2>1, <2>2, SameRoutes
<1> QED BY <1>1, <1>2, <1>3, <1>4, <1>5 DEF Change

\* A handler takes lattice and credentials of one host config in its scope.
LEMMA HandleRoute ==
  ASSUME StateOK, PhaseInv, RouteInv, NEW r \in Requests, Handle(r)
  PROVE  RouteInv'
<1> USE ApiAssumption
<1>a. req[r] \in Request /\ RouteOK(req[r])
  BY DEF StateOK, RouteInv
<1>s. UNCHANGED <<cfg, cache, named, keyed>>
  BY DEF Handle, ListConfigs, Lookup, ListApps, Connect, NoneLeft,
         GetManifestStatus, GetManifest, BadBody, PutManifest, DeployManifest,
         DeleteManifest, Unchanged
<1>b. ASSUME NEW code, Update(r, Answered(r, code)) PROVE RouteInv'
  BY <1>s, <1>b, AnsweredRoute, UpdateRoute
<1>1. CASE ListConfigs(r)
  <2> DEFINE configs == [c \in Configs |->
                           IF c \in Scope(req[r].op, req[r].ns) /\ Present(c)
                           THEN cfg[c].lattice ELSE None]
             q == [req[r] EXCEPT !.pc = "next", !.configs = configs]
  <2>1. \A c \in Configs : configs[c] # None =>
          /\ <<c, configs[c]>> \in named
          /\ req[r].op # "list_all" => NsOf[c] = req[r].ns
    BY DEF RouteInv, SourcesInv, Scope
  <2> HIDE DEF configs
  <2>2. /\ q.configs = configs /\ q.op = req[r].op /\ q.ns = req[r].ns
        /\ q.lattice = req[r].lattice /\ q.creds = req[r].creds
    BY <1>a DEF Request
  <2> HIDE DEF q
  <2>3. RouteOK(q)
    BY <1>a, <2>1, <2>2 DEF RouteOK
  <2>4. Update(r, q)
    BY <1>1 DEF ListConfigs, configs, q
  <2> QED BY <1>s, <2>3, <2>4, UpdateRoute
<1>2. ASSUME NEW c \in Configs, Lookup(r, c) PROVE RouteInv'
  <2> DEFINE q == [req[r] EXCEPT !.at = c, !.lattice = req[r].configs[c],
                                 !.creds = cache[c]]
             busy(pc) == [q EXCEPT !.pc = pc, !.held = TRUE]
             less == [req[r] EXCEPT !.configs[c] = None]
  <2>1. req[r].configs[c] # None
    BY <1>2 DEF Lookup, Turn
  <2>2. RouteOK(less)
    <3>1. /\ \A d \in Configs : less.configs[d] \in {None, req[r].configs[d]}
          /\ less.op = req[r].op /\ less.ns = req[r].ns
          /\ less.lattice = req[r].lattice /\ less.creds = req[r].creds
      BY <1>a DEF Request
    <3> HIDE DEF less
    <3> QED BY <1>a, <3>1 DEF RouteOK
  <2>3. ASSUME NEW pc PROVE RouteOK(busy(pc))
    <3>1. /\ busy(pc).configs = req[r].configs
          /\ busy(pc).op = req[r].op /\ busy(pc).ns = req[r].ns
          /\ busy(pc).lattice = req[r].configs[c] /\ busy(pc).creds = cache[c]
      BY <1>a DEF Request
    <3>2. cache[c] # None => <<c, cache[c]>> \in keyed
      BY DEF RouteInv, SourcesInv
    <3> HIDE DEF busy
    <3> QED BY <1>a, <2>1, <3>1, <3>2 DEF RouteOK
  <2>4. \/ Update(r, less)
        \/ \E code \in {"500", "panic"} : Update(r, Answered(r, code))
        \/ \E pc \in {"listing", "connecting"} : Update(r, busy(pc))
    BY <1>2 DEF Lookup, Answer
  <2> QED BY <1>b, <1>s, <2>2, <2>3, <2>4, UpdateRoute
<1>3. CASE ListApps(r)
  <2> DEFINE items == [k \in Keys |-> req[r].items[k] +
                         IF k[1] = req[r].lattice /\ store[k] # {} THEN 1 ELSE 0]
             configs == [req[r].configs EXCEPT ![req[r].at] = None]
             seen == req[r].seen \cup {req[r].lattice}
             q == [req[r] EXCEPT !.pc = "next", !.held = FALSE,
                     !.configs = configs, !.seen = seen, !.items = items]
  <2>1. \A c \in Configs : configs[c] \in {None, req[r].configs[c]}
    BY <1>a DEF Request
  <2> HIDE DEF items, configs, seen
  <2>2. /\ q.configs = configs /\ q.op = req[r].op /\ q.ns = req[r].ns
        /\ q.lattice = req[r].lattice /\ q.creds = req[r].creds
    BY <1>a DEF Request
  <2>3. Update(r, q)
    BY <1>3 DEF ListApps, items, configs, seen
  <2> HIDE DEF q
  <2>4. RouteOK(q)
    BY <1>a, <2>1, <2>2 DEF RouteOK
  <2> QED BY <1>s, <2>3, <2>4, UpdateRoute
<1>4. CASE Connect(r)
  <2>1. ASSUME NEW pc PROVE RouteOK([req[r] EXCEPT !.pc = pc, !.held = FALSE])
    BY <1>a, KeepsRoute DEF Request
  <2> QED BY <1>4, <1>s, <2>1, UpdateRoute DEF Connect
<1>5. ASSUME NEW as \in As, NoneLeft(r, as) PROVE RouteInv'
  <2> DEFINE q == [Answered(r, "200") EXCEPT !.op = req[r].op,
                                             !.items = req[r].items]
  <2>1. q.configs = NoConfigs /\ q.lattice = None
    BY AnsweredType, AnsweredFields DEF Request
  <2> HIDE DEF q
  <2>2. RouteOK(q)
    BY <2>1 DEF RouteOK, NoConfigs
  <2> QED BY <1>b, <1>5, <1>s, <2>2, UpdateRoute DEF NoneLeft, Answer, q
<1>6. CASE GetManifest(r)
  <2>1. ASSUME NEW n, NEW pc PROVE RouteOK([req[r] EXCEPT !.base = n, !.pc = pc])
    BY <1>a, KeepsRoute DEF Request
  <2> QED BY <1>b, <1>6, <1>s, <2>1, UpdateRoute DEF GetManifest, Answer
<1>7. ASSUME NEW as \in As, GetManifestStatus(r, as) PROVE RouteInv'
  BY <1>b, <1>7 DEF GetManifestStatus, Answer
<1>8. CASE BadBody(r)
  BY <1>b, <1>8 DEF BadBody, Answer
<1>9. CASE PutManifest(r)
  <2>1. ASSUME NEW n, NEW pc PROVE RouteOK([req[r] EXCEPT !.pc = pc, !.num = n])
    BY <1>a, KeepsRoute DEF Request
  <2> QED BY <1>9, <1>s, <2>1, UpdateRoute DEF PutManifest
<1>10. CASE DeployManifest(r)
  BY <1>b, <1>10 DEF DeployManifest, Answer
<1>11. CASE DeleteManifest(r)
  BY <1>b, <1>11 DEF DeleteManifest, Answer
<1> QED BY <1>1, <1>2, <1>3, <1>4, <1>5, <1>6, <1>7, <1>8, <1>9, <1>10, <1>11
        DEF Handle

\* Every step keeps requests to the host configs of their scope.
LEMMA StepRoute == StateOK /\ PhaseInv /\ RouteInv /\ [Next]_vars => RouteInv'
<1> SUFFICES ASSUME StateOK, PhaseInv, RouteInv, [Next]_vars PROVE RouteInv'
  OBVIOUS
<1>1. CASE Step
  <2>1. ASSUME NEW c \in Configs, Change(c) \/ WriteCreds(c) PROVE RouteInv'
    BY <2>1, ChangeRoute
  <2>2. ASSUME NEW r \in Requests, NEW op \in Ops,
               NEW ns \in Namespaces \cup {None}, NEW a \in Apps \cup {None},
               Begin(r, op, ns, a)
        PROVE  RouteInv'
    <3> DEFINE q == [NoRequest EXCEPT !.pc = "configs", !.op = op, !.ns = ns,
                                      !.app = a, !.id = clock + 1]
    <3>1. q.configs = NoConfigs /\ q.lattice = None
      BY DEF NoRequest
    <3>2. Update(r, q) /\ UNCHANGED <<cfg, cache, named, keyed>>
      BY <2>2 DEF Begin
    <3> HIDE DEF q
    <3> QED BY <3>1, <3>2, UpdateRoute DEF RouteOK, NoConfigs
  <2>3. ASSUME NEW r \in Requests, Handle(r) PROVE RouteInv'
    BY <2>3, HandleRoute
  <2>4. ASSUME NEW r \in Requests, ConnectFails(r) PROVE RouteInv'
    <3> DEFINE configs == [req[r].configs EXCEPT ![req[r].at] = None]
               q == [req[r] EXCEPT !.pc = "next", !.held = FALSE,
                       !.configs = configs, !.lattice = None, !.creds = None]
    <3>1. /\ req[r] \in Request /\ RouteOK(req[r])
          /\ \A c \in Configs : configs[c] \in {None, req[r].configs[c]}
      BY DEF StateOK, RouteInv, Request
    <3> HIDE DEF configs
    <3>2. /\ q.configs = configs /\ q.op = req[r].op /\ q.ns = req[r].ns
          /\ q.lattice = None
      BY <3>1 DEF Request
    <3>3. Update(r, q)
      BY <2>4, <3>1 DEF ConnectFails, configs, Request
    <3> HIDE DEF q
    <3>4. RouteOK(q)
      BY <3>1, <3>2 DEF RouteOK
    <3> QED BY <2>4, <3>3, <3>4, UpdateRoute DEF ConnectFails
  <2>5. ASSUME NEW r \in Requests, Fails(r) \/ ReplyLost(r) PROVE RouteInv'
    BY <2>5, AnsweredRoute, UpdateRoute DEF Fails, ReplyLost, Answer
  <2>6. CASE Restart
    <3>1. \A r \in Requests : RouteOK(req'[r])
      BY <2>6, AnsweredRoute DEF Restart, RouteInv
    <3>2. UNCHANGED <<cfg, named, keyed>> /\ \A c \in Configs : cache'[c] = None
      BY <2>6 DEF Restart
    <3> QED BY <3>1, <3>2 DEF RouteInv, RouteOK, SourcesInv
  <2> QED BY <1>1, <2>1, <2>2, <2>3, <2>4, <2>5, <2>6 DEF Step
<1>2. CASE UNCHANGED vars
  BY <1>2, SameRoutes DEF vars, RouteInv, SourcesInv
<1> QED BY <1>1, <1>2 DEF Next
-----------------------------------------------------------------------------
(***************************************************************************)
(* Versions: what they are made from, and whose they are.                  *)
(***************************************************************************)
\* The version a patch has read is no older than any there was when it began;
\* only the version a request waits to deploy is its own.
VersionOK(q) ==
  /\ q.id <= clock
  /\ q.pc \notin {"idle", "answered"} => q.id > 0
  /\ q.base # 0 =>
       /\ q.pc \in {"status", "put", "deploy"}
       /\ \A w \in store[<<q.lattice, q.app>>] : w.num < q.id => w.num <= q.base
  /\ q.id # 0 => \A k \in Keys : \A v \in store[k] : v.by = q.id =>
       q.pc = "deploy" /\ k = <<q.lattice, q.app>> /\ v.num = q.num
  /\ q.answer = "404" => q.id # 0 /\ q.pc = "answered"

\* No two requests have one number, nor does a version have one to come.
NumbersInv ==
  /\ \A k \in Keys : \A v \in store[k] : v.by <= clock
  /\ \A r, s \in Requests : r # s /\ req[r].id # 0 => req[r].id # req[s].id

VersionInv ==
  NumbersInv /\ PatchesBuildOn /\ \A r \in Requests : VersionOK(req[r])

\* An answer "404" comes while no version is the request's own.
LEMMA AnsweredVersion ==
  ASSUME StateOK, VersionInv, NEW r \in Requests, NEW code,
         req[r].pc \notin {"idle", "answered"},
         code = "404" => \A k \in Keys : \A v \in store[k] : v.by # req[r].id
  PROVE  VersionOK(Answered(r, code)) /\ Answered(r, code).id \in {0, req[r].id}
<1>1. req[r].id > 0 /\ req[r].id <= clock /\ req[r].id \in Nat /\ clock \in Nat
  BY DEF StateOK, VersionInv, VersionOK, Request
<1> QED BY <1>1, AnsweredFields DEF VersionOK

\* With the versions as they are, what becomes of one request is enough.
LEMMA UpdateVersion ==
  ASSUME StateOK, VersionInv, NEW r \in Requests, NEW q, VersionOK(q),
         q.id \in {0, req[r].id}, Update(r, q), UNCHANGED <<store, clock>>
  PROVE  VersionInv'
<1>1. \A s \in Requests : VersionOK(req[s])'
  BY DEF Update, StateOK, VersionInv, VersionOK
<1>2. NumbersInv'
  BY DEF Update, StateOK, VersionInv, NumbersInv
<1> QED BY <1>1, <1>2 DEF VersionInv, PatchesBuildOn

\* Nor do deleted versions make a difference.
LEMMA FewerVersions ==
  ASSUME StateOK, VersionInv, NEW r \in Requests, NEW code,
         req[r].pc = "delete", Update(r, Answered(r, code)), clock' = clock,
         store' = [store EXCEPT ![Key(r)] = {}]
  PROVE  VersionInv'
<1>1. \A k \in Keys : store'[k] \subseteq store[k]
  BY DEF StateOK
<1>0. VersionOK(req[r]) /\ req[r].id \in Nat
  BY DEF StateOK, VersionInv, Request
<1>2. \A k \in Keys : \A v \in store[k] : v.by # req[r].id
  BY <1>0 DEF VersionOK
<1>3. VersionOK(Answered(r, code)) /\ Answered(r, code).id \in {0, req[r].id}
  BY <1>2, AnsweredVersion
<1> DEFINE q == Answered(r, code)
<1> HIDE DEF q
<1>4. req' = [req EXCEPT ![r] = q] /\ VersionOK(q) /\ q.id \in {0, req[r].id}
  BY <1>3 DEF Update, q
<1>5. q.base = 0
  BY AnsweredFields DEF q
<1>6. \A s \in Requests : VersionOK(req[s])'
  <2> SUFFICES ASSUME NEW s \in Requests PROVE VersionOK(req[s])'
    OBVIOUS
  <2>1. CASE s = r
    BY <1>1, <1>4, <1>5, <2>1 DEF StateOK, VersionOK
  <2>2. CASE s # r
    <3>1. req'[s] = req[s] /\ VersionOK(req[s])
      BY <1>4, <2>2 DEF StateOK, VersionInv
    <3>2. req[s].base # 0 => store'[<<req[s].lattice, req[s].app>>]
                               \subseteq store[<<req[s].lattice, req[s].app>>]
      BY DEF StateOK
    <3> QED BY <1>1, <3>1, <3>2 DEF VersionOK
  <2> QED BY <2>1, <2>2
<1>7. NumbersInv'
  BY <1>1, <1>4 DEF StateOK, VersionInv, NumbersInv
<1>8. PatchesBuildOn'
  BY <1>1 DEF VersionInv, PatchesBuildOn
<1> QED BY <1>6, <1>7, <1>8 DEF VersionInv

\* A stored version is made from what its request has read.
LEMMA StoresVersion ==
  ASSUME StateOK, PhaseInv, VersionInv, NEW r \in Requests, NEW q,
         req[r].pc = "put", Update(r, q), clock' = clock + 1,
         store' = [store EXCEPT ![Key(r)] = @ \cup {Stored(r)}],
         \/ q = [req[r] EXCEPT !.pc = "deploy", !.num = clock + 1]
         \/ q = Answered(r, "500")
  PROVE  VersionInv'
<1>a. /\ clock \in Nat /\ req[r] \in Request /\ VersionOK(req[r])
      /\ Key(r) \in Keys /\ req[r].id > 0
  BY KeyType DEF StateOK, VersionInv, VersionOK, Asking
<1>b. \A k \in Keys : \A v \in store[k] :
        /\ v.num \in Nat /\ v.by \in Nat /\ v.base \in Nat
        /\ v.num <= clock /\ v.by <= clock
  BY DEF StateOK, Version, PhaseInv, NewestInv, VersionInv, NumbersInv
<1>c. /\ Stored(r).num = clock + 1 /\ Stored(r).by = req[r].id
      /\ Stored(r).base = req[r].base
  BY DEF Stored
<1>d. \A k \in Keys : store'[k] = IF k = Key(r) THEN store[k] \cup {Stored(r)}
                                                ELSE store[k]
  BY DEF StateOK
<1>e. \A s \in Requests : req[s].id \in Nat /\ req[s].id <= clock
  BY DEF StateOK, Request, VersionInv, VersionOK
<1>1. NumbersInv'
  <2>1. q.id \in {0, req[r].id}
    <3>1. Answered(r, "500").id = 0
      BY AnsweredFields
    <3>2. [req[r] EXCEPT !.pc = "deploy", !.num = clock + 1].id = req[r].id
      BY <1>a DEF Request
    <3> QED BY <3>1, <3>2
  <2>2. \A s \in Requests : s # r => req'[s] = req[s]
    BY DEF Update, StateOK
  <2>3. req'[r] = q
    BY DEF Update, StateOK
  <2>4. \A s, t \in Requests : s # t /\ req'[s].id # 0 => req'[s].id # req'[t].id
    BY <2>1, <2>2, <2>3 DEF VersionInv, NumbersInv
  <2>5. \A k \in Keys : \A v \in store'[k] : v.by <= clock'
    BY <1>a, <1>b, <1>c, <1>d, <1>e
  <2> QED BY <2>4, <2>5 DEF NumbersInv
<1>2. PatchesBuildOn'
  <2> SUFFICES ASSUME NEW k \in Keys, NEW v \in store'[k], NEW w \in store'[k],
                      v.base # 0, w.num < v.by
               PROVE  w.num <= v.base
    BY DEF PatchesBuildOn
  <2>1. w \in store[k]
    BY <1>a, <1>b, <1>c, <1>d, <1>e
  <2>2. CASE v \in store[k]
    BY <2>1, <2>2 DEF VersionInv, PatchesBuildOn
  <2>3. CASE v = Stored(r) /\ k = Key(r)
    BY <1>a, <1>c, <2>1, <2>3 DEF VersionOK, Key
  <2> QED BY <1>d, <2>2, <2>3
<1>3. \A s \in Requests : VersionOK(req[s])'
  <2> SUFFICES ASSUME NEW s \in Requests PROVE VersionOK(req[s])'
    OBVIOUS
  <2>1. CASE s # r
    <3>1. req'[s] = req[s] /\ VersionOK(req[s]) /\ req[s] \in Request
      BY <2>1 DEF Update, StateOK, VersionInv
    <3>2. req[s].id # 0 => Stored(r).by # req[s].id
      BY <1>c, <2>1 DEF VersionInv, NumbersInv
    <3>3. req[s].base # 0 => <<req[s].lattice, req[s].app>> \in Keys
      BY <3>1, KeyType DEF VersionOK, Asking, Key
    <3> QED BY <1>a, <1>b, <1>c, <1>d, <1>e, <3>1, <3>2, <3>3 DEF VersionOK
  <2>2. CASE s = r /\ q = Answered(r, "500")
    <3>1. req'[r] = Answered(r, "500")
      BY <2>2 DEF Update, StateOK
    <3> QED BY <1>a, <2>2, <3>1, AnsweredFields DEF VersionOK
  <2>3. CASE s = r /\ q = [req[r] EXCEPT !.pc = "deploy", !.num = clock + 1]
    <3>1. /\ req'[r] = q
          /\ q.pc = "deploy" /\ q.num = clock + 1 /\ q.id = req[r].id
          /\ q.base = req[r].base /\ q.lattice = req[r].lattice
          /\ q.app = req[r].app /\ q.answer = req[r].answer
      BY <1>a, <2>3 DEF Update, StateOK, Request
    <3>2. \A k \in Keys : \A v \in store[k] : v.by # req[r].id
      BY <1>a DEF VersionOK
    <3> QED BY <1>a, <1>b, <1>c, <1>d, <1>e, <2>3, <3>1, <3>2 DEF VersionOK, Key
  <2> QED BY <2>1, <2>2, <2>3
<1> QED BY <1>1, <1>2, <1>3 DEF VersionInv

\* A request that goes on with its number and without a version read.
LEMMA KeepsVersion ==
  ASSUME StateOK, VersionInv, NEW r \in Requests, NEW q,
         req[r].pc \notin {"idle", "answered", "deploy"},
         q.pc \notin {"idle", "answered"}, q.id = req[r].id,
         q.answer = req[r].answer,
         q.base = 0 \/ (/\ q.pc \in {"status", "put"}
                        /\ \A w \in store[<<q.lattice, q.app>>] : w.num <= q.base)
  PROVE  VersionOK(q)
<1>1. VersionOK(req[r]) /\ req[r].id \in Nat
  BY DEF StateOK, VersionInv, Request
<1> QED BY <1>1 DEF VersionOK

\* A handler stores what it made from what it read, under its own number.
LEMMA HandleVersion ==
  ASSUME StateOK, PhaseInv, VersionInv, NEW r \in Requests, Handle(r)
  PROVE  VersionInv'
<1> USE ApiAssumption
<1>a. req[r] \in Request /\ VersionOK(req[r])
  BY DEF StateOK, VersionInv
<1>b. ASSUME NEW code, Update(r, Answered(r, code)), UNCHANGED <<store, clock>>,
             req[r].pc \notin {"idle", "answered"},
             code = "404" => \A k \in Keys : \A v \in store[k] : v.by # req[r].id
      PROVE  VersionInv'
  BY <1>b, AnsweredVersion, UpdateVersion
<1>c. req[r].pc \notin {"idle", "answered", "deploy"}
        => \A k \in Keys : \A v \in store[k] : v.by # req[r].id
  BY <1>a DEF VersionOK, Request
<1>1. CASE ListConfigs(r)
  <2> DEFINE configs == [c \in Configs |->
                           IF c \in Scope(req[r].op, req[r].ns) /\ Present(c)
                           THEN cfg[c].lattice ELSE None]
             q == [req[r] EXCEPT !.pc = "next", !.configs = configs]
  <2> HIDE DEF configs
  <2>1. /\ q.pc = "next" /\ q.id = req[r].id /\ q.answer = req[r].answer
        /\ q.base = 0 /\ req[r].pc = "configs"
    BY <1>1, <1>a DEF ListConfigs, VersionOK, Request
  <2>2. Update(r, q) /\ UNCHANGED <<store, clock>>
    BY <1>1 DEF ListConfigs, Unchanged, configs
  <2> HIDE DEF q
  <2> QED BY <2>1, <2>2, KeepsVersion, UpdateVersion
<1>2. ASSUME NEW c \in Configs, Lookup(r, c) PROVE VersionInv'
  <2> DEFINE q == [req[r] EXCEPT !.at = c, !.lattice = req[r].configs[c],
                                 !.creds = cache[c]]
             busy(pc) == [q EXCEPT !.pc = pc, !.held = TRUE]
             less == [req[r] EXCEPT !.configs[c] = None]
  <2>1. req[r].pc = "next" /\ req[r].base = 0 /\ UNCHANGED <<store, clock>>
    BY <1>2, <1>a DEF Lookup, Unchanged, VersionOK
  <2>2. /\ less.pc = "next" /\ less.id = req[r].id
        /\ less.answer = req[r].answer /\ less.base = 0
    BY <1>a, <2>1 DEF Request
  <2>3. ASSUME NEW pc \in {"listing", "connecting"}
        PROVE  /\ busy(pc).pc = pc /\ busy(pc).id = req[r].id
               /\ busy(pc).answer = req[r].answer /\ busy(pc).base = 0
    BY <1>a, <2>1 DEF Request
  <2>4. \/ Update(r, less)
        \/ \E code \in {"500", "panic"} : Update(r, Answered(r, code))
        \/ \E pc \in {"listing", "connecting"} : Update(r, busy(pc))
    BY <1>2 DEF Lookup, Answer
  <2> HIDE DEF busy, less
  <2>5. CASE Update(r, less)
    BY <2>1, <2>2, <2>5, KeepsVersion, UpdateVersion
  <2>6. ASSUME NEW pc \in {"listing", "connecting"}, Update(r, busy(pc))
        PROVE  VersionInv'
    <3>1. VersionOK(busy(pc)) /\ busy(pc).id = req[r].id
      BY <2>1, <2>3, KeepsVersion
    <3> QED BY <2>1, <2>6, <3>1, UpdateVersion
  <2> QED BY <1>b, <2>1, <2>4, <2>5, <2>6
<1>3. CASE ListApps(r)
  <2> DEFINE items == [k \in Keys |-> req[r].items[k] +
                         IF k[1] = req[r].lattice /\ store[k] # {} THEN 1 ELSE 0]
             configs == [req[r].configs EXCEPT ![req[r].at] = None]
             seen == req[r].seen \cup {req[r].lattice}
             q == [req[r] EXCEPT !.pc = "next", !.held = FALSE,
                     !.configs = configs, !.seen = seen, !.items = items]
  <2> HIDE DEF items, configs, seen
  <2>1. /\ q.pc = "next" /\ q.id = req[r].id /\ q.answer = req[r].answer
        /\ q.base = 0 /\ req[r].pc = "listing"
    BY <1>3, <1>a DEF ListApps, VersionOK, Request
  <2>2. Update(r, q) /\ UNCHANGED <<store, clock>>
    BY <1>3 DEF ListApps, Unchanged, items, configs, seen
  <2> HIDE DEF q
  <2> QED BY <2>1, <2>2, KeepsVersion, UpdateVersion
<1>4. CASE Connect(r)
  <2>1. req[r].pc = "connecting" /\ req[r].base = 0 /\ UNCHANGED <<store, clock>>
    BY <1>4, <1>a DEF Connect, VersionOK, Unchanged
  <2>2. ASSUME NEW pc \in {"get", "put", "delete"}
        PROVE  /\ VersionOK([req[r] EXCEPT !.pc = pc, !.held = FALSE])
               /\ [req[r] EXCEPT !.pc = pc, !.held = FALSE].id = req[r].id
    <3> DEFINE q == [req[r] EXCEPT !.pc = pc, !.held = FALSE]
    <3>1. q.pc = pc /\ q.id = req[r].id /\ q.answer = req[r].answer /\ q.base = 0
      BY <1>a, <2>1 DEF Request
    <3> HIDE DEF q
    <3>2. VersionOK(q) /\ q.id = req[r].id
      BY <2>1, <3>1, KeepsVersion
    <3> QED BY <3>2 DEF q
  <2>3. \E pc \in {"get", "put", "delete"} :
          Update(r, [req[r] EXCEPT !.pc = pc, !.held = FALSE])
    BY <1>4 DEF Connect
  <2> QED BY <2>1, <2>2, <2>3, UpdateVersion
<1>5. ASSUME NEW as \in As, NoneLeft(r, as) PROVE VersionInv'
  <2> DEFINE q == [Answered(r, "200") EXCEPT !.op = req[r].op,
                                             !.items = req[r].items]
  <2>1. /\ q.pc = "answered" /\ q.id = 0 /\ q.base = 0 /\ q.answer = "200"
    BY AnsweredType, AnsweredFields DEF Request
  <2>2. UNCHANGED <<store, clock>> /\ req[r].pc = "next" /\ clock \in Nat
    BY <1>5 DEF NoneLeft, Unchanged, StateOK
  <2>3. Update(r, q) \/ \E code \in {"500", "blank"} : Update(r, Answered(r, code))
    BY <1>5 DEF NoneLeft, Answer
  <2> HIDE DEF q
  <2>4. VersionOK(q)
    BY <2>1, <2>2 DEF VersionOK
  <2> QED BY <1>b, <2>1, <2>2, <2>3, <2>4, UpdateVersion
<1>6. CASE GetManifest(r)
  <2>1. req[r].pc = "get" /\ UNCHANGED <<store, clock>>
    BY <1>6 DEF GetManifest, Unchanged
  <2>2. CASE store[Key(r)] = {}
    BY <1>6, <1>b, <1>c, <2>1, <2>2 DEF GetManifest, Answer
  <2>3. CASE store[Key(r)] # {}
    <3> DEFINE n == Newest(store[Key(r)]).num
               pc == IF req[r].op = "get" THEN "status" ELSE "put"
               q == [req[r] EXCEPT !.base = n, !.pc = pc]
    <3>1. \A w \in store[Key(r)] : w.num <= n
      BY <2>1, <2>3, KeyType, NewestIsOne DEF Asking
    <3>2. Update(r, q)
      BY <1>6, <2>3 DEF GetManifest
    <3> HIDE DEF n
    <3>3. /\ q.pc \in {"status", "put"} /\ q.id = req[r].id /\ q.base = n
          /\ q.answer = req[r].answer /\ <<q.lattice, q.app>> = Key(r)
      BY <1>a DEF Request, Key
    <3> HIDE DEF q
    <3>4. VersionOK(q)
      BY <2>1, <3>1, <3>3, KeepsVersion
    <3> QED BY <2>1, <3>2, <3>3, <3>4, UpdateVersion
  <2> QED BY <2>2, <2>3
<1>7. ASSUME NEW as \in As, GetManifestStatus(r, as) PROVE VersionInv'
  BY <1>7, <1>b, <1>c DEF GetManifestStatus, Answer, Unchanged
<1>8. CASE BadBody(r)
  BY <1>8, <1>b DEF BadBody, Answer, Unchanged
<1>9. CASE PutManifest(r)
  BY <1>9, StoresVersion DEF PutManifest
<1>10. CASE DeployManifest(r)
  <2>1. CASE \E v \in store[Key(r)] : v.num = req[r].num
    BY <1>10, <1>b, <2>1 DEF DeployManifest, Answer
  <2>2. CASE ~\E v \in store[Key(r)] : v.num = req[r].num
    <3>1. \A k \in Keys : \A v \in store[k] : v.by # req[r].id
      BY <1>10, <1>a, <2>2 DEF DeployManifest, VersionOK, Key, Request
    <3> QED BY <1>10, <1>b, <2>2, <3>1 DEF DeployManifest, Answer
  <2> QED BY <2>1, <2>2
<1>11. CASE DeleteManifest(r)
  BY <1>11, FewerVersions DEF DeleteManifest, Answer
<1> QED BY <1>1, <1>2, <1>3, <1>4, <1>5, <1>6, <1>7, <1>8, <1>9, <1>10, <1>11
        DEF Handle

\* Every step keeps versions apart and patches up to date.
LEMMA StepVersion ==
  StateOK /\ PhaseInv /\ VersionInv /\ [Next]_vars => VersionInv'
<1> SUFFICES ASSUME StateOK, PhaseInv, VersionInv, [Next]_vars PROVE VersionInv'
  OBVIOUS
<1>1. ASSUME UNCHANGED <<req, store, clock>> PROVE VersionInv'
  BY <1>1 DEF VersionInv, NumbersInv, PatchesBuildOn, VersionOK
<1>2. CASE Step
  <2>1. ASSUME NEW c \in Configs, Change(c) \/ WriteCreds(c) PROVE VersionInv'
    BY <1>1, <2>1
       DEF Change, DeleteConfig, Cleanup, EditConfig, ReadCreds, WriteCreds
  <2>2. ASSUME NEW r \in Requests, NEW op \in Ops,
               NEW ns \in Namespaces \cup {None}, NEW a \in Apps \cup {None},
               Begin(r, op, ns, a)
        PROVE  VersionInv'
    <3> DEFINE q == [NoRequest EXCEPT !.pc = "configs", !.op = op, !.ns = ns,
                                      !.app = a, !.id = clock + 1]
    <3>1. q.pc = "configs" /\ q.id = clock + 1 /\ q.base = 0 /\ q.answer = "none"
      BY DEF NoRequest
    <3>2. req' = [req EXCEPT ![r] = q] /\ clock' = clock + 1 /\ store' = store
      BY <2>2 DEF Begin, Update
    <3> HIDE DEF q
    <3>3. clock \in Nat /\ \A k \in Keys : \A v \in store[k] :
            v.by \in Nat /\ v.by <= clock
      BY DEF StateOK, Version, VersionInv, NumbersInv
    <3>4. \A s \in Requests : /\ req[s].id \in Nat /\ req[s].id <= clock
                              /\ VersionOK(req[s])
      BY DEF StateOK, Request, VersionInv, VersionOK
    <3>5. \A s \in Requests : VersionOK(req[s])'
      <4> SUFFICES ASSUME NEW s \in Requests PROVE VersionOK(req[s])'
        OBVIOUS
      <4>1. CASE s = r
        BY <3>1, <3>2, <3>3, <4>1 DEF StateOK, VersionOK
      <4>2. CASE s # r
        BY <3>2, <3>3, <3>4, <4>2 DEF StateOK, VersionOK
      <4> QED BY <4>1, <4>2
    <3>6. NumbersInv'
      BY <3>1, <3>2, <3>3, <3>4 DEF StateOK, VersionInv, NumbersInv
    <3> QED BY <3>2, <3>5, <3>6 DEF VersionInv, PatchesBuildOn
  <2>3. ASSUME NEW r \in Requests, Handle(r) PROVE VersionInv'
    BY <2>3, HandleVersion
  <2>4. ASSUME NEW r \in Requests, ConnectFails(r) PROVE VersionInv'
    <3> DEFINE configs == [req[r].configs EXCEPT ![req[r].at] = None]
               q == [req[r] EXCEPT !.pc = "next", !.held = FALSE,
                       !.configs = configs, !.lattice = None, !.creds = None]
    <3>1. req[r] \in Request /\ VersionOK(req[r]) /\ req[r].pc = "connecting"
      BY <2>4 DEF ConnectFails, StateOK, VersionInv
    <3> HIDE DEF configs
    <3>2. /\ q.pc = "next" /\ q.id = req[r].id /\ q.answer = req[r].answer
          /\ q.base = 0
      BY <3>1 DEF VersionOK, Request
    <3>3. Update(r, q) /\ UNCHANGED <<store, clock>>
      BY <2>4, <3>1 DEF ConnectFails, configs, Request
    <3> HIDE DEF q
    <3> QED BY <3>1, <3>2, <3>3, KeepsVersion, UpdateVersion
  <2>5. ASSUME NEW r \in Requests, Fails(r) PROVE VersionInv'
    BY <2>5, AnsweredVersion, UpdateVersion DEF Fails, Answer
  <2>6. ASSUME NEW r \in Requests, ReplyLost(r) PROVE VersionInv'
    <3>1. CASE req[r].pc = "put"
      BY <2>6, <3>1, StoresVersion DEF ReplyLost, Answer
    <3>2. CASE req[r].pc = "deploy"
      BY <2>6, <3>2, AnsweredVersion, UpdateVersion DEF ReplyLost, Answer
    <3>3. CASE req[r].pc = "delete"
      BY <2>6, <3>3, FewerVersions DEF ReplyLost, Answer
    <3> QED BY <2>6, <3>1, <3>2, <3>3 DEF ReplyLost
  <2>7. CASE Restart
    <3>1. \A r \in Requests : /\ VersionOK(req'[r]) /\ req'[r].id \in {0, req[r].id}
      BY <2>7, AnsweredVersion DEF Restart, Free, VersionInv
    <3>2. UNCHANGED <<store, clock>>
      BY <2>7 DEF Restart
    <3>3. NumbersInv'
      BY <3>1, <3>2 DEF VersionInv, NumbersInv
    <3> QED BY <3>1, <3>2, <3>3 DEF VersionInv, VersionOK, PatchesBuildOn
  <2> QED BY <1>2, <2>1, <2>2, <2>3, <2>4, <2>5, <2>6, <2>7 DEF Step
<1>3. CASE UNCHANGED vars
  BY <1>1, <1>3 DEF vars
<1> QED BY <1>2, <1>3 DEF Next
-----------------------------------------------------------------------------
(***************************************************************************)
(* Listings: what is counted, and what is still to come.                   *)
(***************************************************************************)
IsListing(op) == op \in {"list", "list_all"}

\* Of the lattices listed everything is counted, and once; a lattice that has
\* shown an application all the time and is not listed is still to come.
Counted(q, shown) ==
  \A k \in Keys :
    /\ q.items[k] \in {0, 1}
    /\ k[1] \notin q.seen => q.items[k] = 0
    /\ k \in shown => \/ k[1] \in q.seen /\ q.items[k] = 1
                      \/ k[1] \notin q.seen /\ \E c \in Configs : q.configs[c] = k[1]

ListOK(q, shown) ==
  IsListing(q.op) =>
    /\ q.pc = "configs" => q.seen = {} /\ \A k \in Keys : q.items[k] = 0
    /\ q.pc \in {"next", "listing"} => Counted(q, shown)
    /\ q.pc = "listing" => q.lattice \notin q.seen
    /\ q.answer = "200" =>
         /\ q.pc = "answered"
         /\ \A k \in Keys : /\ q.items[k] <= 1
                            /\ k \in shown => q.items[k] = 1
    /\ q.pc # "answered" => q.answer = "none"

ListInv ==
  \A r \in Requests :
    /\ ListOK(req[r], always[r])
    /\ (IsListing(req[r].op) /\ req[r].pc # "answered")
         => always[r] \subseteq Shown(req[r].op, req[r].ns)

\* A request that goes on has shown less and less.
LEMMA ObserveShown ==
  ASSUME Observe, NEW r \in Requests, IsListing(req'[r].op)
  PROVE  /\ req'[r].pc # "answered" => always'[r] \subseteq Shown(req[r].op, req[r].ns)'
         /\ req'[r].pc = "answered" \/ req'[r].id = req[r].id
              => always'[r] \subseteq always[r]
<1>1. Listing(r)'
  BY DEF Listing, IsListing
<1>2. always'[r] = IF req'[r].pc = "answered" THEN always[r]
                   ELSE IF req'[r].id # req[r].id THEN Shown(req[r].op, req[r].ns)'
                   ELSE always[r] \cap Shown(req[r].op, req[r].ns)'
  BY <1>1 DEF Observe
<1> QED BY <1>1, <1>2

\* What holds of more that was shown holds of less.
LEMMA FewerShown ==
  ASSUME NEW q, NEW shown, NEW fewer, fewer \subseteq shown, ListOK(q, shown)
  PROVE  ListOK(q, fewer)
BY DEF ListOK, Counted

\* One request moves on, and the others see less.
LEMMA UpdateList ==
  ASSUME StateOK, ListInv, Observe, NEW r \in Requests, NEW q, Update(r, q),
         ListOK(q, always[r]), q.pc = "answered" \/ q.id = req[r].id
  PROVE  ListInv'
<1>1. \A s \in Requests : req'[s] = IF s = r THEN q ELSE req[s]
  BY DEF StateOK, Update
<1> SUFFICES ASSUME NEW s \in Requests
             PROVE  /\ ListOK(req'[s], always'[s])
                    /\ (IsListing(req'[s].op) /\ req'[s].pc # "answered")
                         => always'[s] \subseteq Shown(req[s].op, req[s].ns)'
  BY DEF ListInv
<1>2. ListOK(req'[s], always[s])
  BY <1>1 DEF ListInv
<1>3. CASE IsListing(req'[s].op)
  <2>1. req'[s].pc = "answered" \/ req'[s].id = req[s].id
    BY <1>1
  <2>2. always'[s] \subseteq always[s]
    BY <1>3, <2>1, ObserveShown
  <2>3. req'[s].pc # "answered" => always'[s] \subseteq Shown(req[s].op, req[s].ns)'
    BY <1>3, ObserveShown
  <2> QED BY <1>2, <2>2, <2>3, FewerShown
<1>4. CASE ~IsListing(req'[s].op)
  BY <1>4 DEF ListOK
<1> QED BY <1>3, <1>4

\* No request moves on.
LEMMA SameList ==
  ASSUME StateOK, ListInv, Observe, req' = req PROVE ListInv'
<1> SUFFICES ASSUME NEW s \in Requests
             PROVE  /\ ListOK(req'[s], always'[s])
                    /\ (IsListing(req'[s].op) /\ req'[s].pc # "answered")
                         => always'[s] \subseteq Shown(req[s].op, req[s].ns)'
  BY DEF ListInv
<1>1. CASE IsListing(req'[s].op)
  BY <1>1, ObserveShown, FewerShown DEF ListInv
<1>2. CASE ~IsListing(req'[s].op)
  BY <1>2 DEF ListOK
<1> QED BY <1>1, <1>2

\* An answer other than a list is none.
LEMMA AnsweredList ==
  ASSUME NEW r \in Requests, NEW code, NEW shown
  PROVE  ListOK(Answered(r, code), shown) /\ Answered(r, code).pc = "answered"
BY ApiAssumption, AnsweredFields DEF ListOK, IsListing, Ops

\* A request for something else is none.
LEMMA OtherList ==
  ASSUME NEW q, NEW shown, ~IsListing(q.op) PROVE ListOK(q, shown)
BY DEF ListOK

\* A listing asks each lattice once, and counts what has been there all the time.
LEMMA HandleList ==
  ASSUME StateOK, PhaseInv, ListInv, Observe, NEW r \in Requests, Handle(r)
  PROVE  ListInv'
<1> USE ApiAssumption
<1>a. req[r] \in Request /\ ListOK(req[r], always[r])
  BY DEF StateOK, ListInv
<1>b. (IsListing(req[r].op) /\ req[r].pc # "answered")
        => always[r] \subseteq Shown(req[r].op, req[r].ns)
  BY DEF ListInv
<1>c. ASSUME NEW code, Update(r, Answered(r, code)) PROVE ListInv'
  BY <1>c, AnsweredList, UpdateList
<1>d. ASSUME NEW q, Update(r, q), ~IsListing(q.op), q.id = req[r].id PROVE ListInv'
  BY <1>d, OtherList, UpdateList
<1>1. CASE ListConfigs(r)
  <2> DEFINE configs == [c \in Configs |->
                           IF c \in Scope(req[r].op, req[r].ns) /\ Present(c)
                           THEN cfg[c].lattice ELSE None]
             q == [req[r] EXCEPT !.pc = "next", !.configs = configs]
  <2>1. \A k \in Keys : k \in Shown(req[r].op, req[r].ns)
          => \E c \in Configs : configs[c] = k[1]
    BY DEF Shown, Scope
  <2> HIDE DEF configs
  <2>2. /\ q.pc = "next" /\ q.id = req[r].id /\ q.answer = req[r].answer
        /\ q.op = req[r].op /\ q.seen = req[r].seen /\ q.items = req[r].items
        /\ q.configs = configs /\ req[r].pc = "configs"
    BY <1>1, <1>a DEF ListConfigs, Request
  <2>3. Update(r, q)
    BY <1>1 DEF ListConfigs, configs
  <2> HIDE DEF q
  <2>4. CASE IsListing(q.op)
    <3>1. req[r].seen = {} /\ \A k \in Keys : req[r].items[k] = 0
      BY <1>a, <2>2, <2>4 DEF ListOK
    <3>2. \A k \in Keys : k \in always[r] => \E c \in Configs : q.configs[c] = k[1]
      BY <1>b, <2>1, <2>2, <2>4
    <3>3. Counted(q, always[r])
      BY <2>2, <3>1, <3>2 DEF Counted
    <3>4. ListOK(q, always[r])
      BY <1>a, <2>2, <3>3 DEF ListOK
    <3> QED BY <2>2, <2>3, <3>4, UpdateList
  <2> QED BY <1>d, <2>2, <2>3, <2>4
<1>2. ASSUME NEW c \in Configs, Lookup(r, c) PROVE ListInv'
  <2> DEFINE q == [req[r] EXCEPT !.at = c, !.lattice = req[r].configs[c],
                                 !.creds = cache[c]]
             list == [q EXCEPT !.pc = "listing", !.held = TRUE]
             connect == [q EXCEPT !.pc = "connecting", !.held = TRUE]
             less == [req[r] EXCEPT !.configs[c] = None]
  <2>1. req[r].pc = "next" /\ (Listing(r) <=> IsListing(req[r].op))
    BY <1>2 DEF Lookup, Listing, IsListing
  <2>2. \/ Update(r, less) /\ req[r].configs[c] \in req[r].seen
        \/ \E code \in {"500", "panic"} : Update(r, Answered(r, code))
        \/ Update(r, list) /\ req[r].configs[c] \notin req[r].seen
        \/ Update(r, connect) /\ ~IsListing(req[r].op)
    BY <1>2, <1>a, <2>1 DEF Lookup, Answer, Request
  <2>3. /\ list.pc = "listing" /\ list.id = req[r].id /\ list.op = req[r].op
        /\ list.seen = req[r].seen /\ list.items = req[r].items
        /\ list.configs = req[r].configs /\ list.answer = req[r].answer
        /\ list.lattice = req[r].configs[c]
    BY <1>a DEF Request
  <2>4. connect.id = req[r].id /\ connect.op = req[r].op
    BY <1>a DEF Request
  <2>5. /\ less.pc = "next" /\ less.id = req[r].id /\ less.op = req[r].op
        /\ less.seen = req[r].seen /\ less.items = req[r].items
        /\ less.answer = req[r].answer
        /\ less.configs = [req[r].configs EXCEPT ![c] = None]
        /\ req[r].configs \in [Configs -> Lattices \cup {None}]
    BY <1>a, <2>1 DEF Request
  <2> HIDE DEF list, connect, less
  <2>6. ASSUME IsListing(req[r].op) PROVE Counted(req[r], always[r])
    BY <1>a, <2>1, <2>6 DEF ListOK
  <2>7. CASE Update(r, less) /\ req[r].configs[c] \in req[r].seen
    <3>1. CASE IsListing(req[r].op)
      <4>1. Counted(less, always[r])
        BY <2>5, <2>6, <2>7, <3>1 DEF Counted
      <4>2. ListOK(less, always[r])
        BY <1>a, <2>1, <2>5, <4>1 DEF ListOK
      <4> QED BY <2>5, <2>7, <4>2, UpdateList
    <3> QED BY <1>d, <2>5, <2>7, <3>1
  <2>8. CASE Update(r, list) /\ req[r].configs[c] \notin req[r].seen
    <3>1. CASE IsListing(req[r].op)
      <4>1. Counted(list, always[r])
        BY <2>3, <2>6, <3>1 DEF Counted
      <4>2. ListOK(list, always[r])
        BY <1>a, <2>1, <2>3, <2>8, <4>1 DEF ListOK
      <4> QED BY <2>3, <2>8, <4>2, UpdateList
    <3> QED BY <1>d, <2>3, <2>8, <3>1
  <2> QED BY <1>c, <1>d, <2>2, <2>4, <2>7, <2>8
<1>3. CASE ListApps(r)
  <2> DEFINE items == [k \in Keys |-> req[r].items[k] +
                         IF k[1] = req[r].lattice /\ store[k] # {} THEN 1 ELSE 0]
             configs == [req[r].configs EXCEPT ![req[r].at] = None]
             seen == req[r].seen \cup {req[r].lattice}
             q == [req[r] EXCEPT !.pc = "next", !.held = FALSE,
                     !.configs = configs, !.seen = seen, !.items = items]
  <2> HIDE DEF items, configs, seen
  <2>1. /\ q.pc = "next" /\ q.id = req[r].id /\ q.answer = req[r].answer
        /\ q.op = req[r].op /\ q.configs = configs /\ q.seen = seen
        /\ q.items = items /\ req[r].pc = "listing"
    BY <1>3, <1>a DEF ListApps, Request
  <2>2. Update(r, q)
    BY <1>3 DEF ListApps, items, configs, seen
  <2> HIDE DEF q
  <2>3. /\ IsListing(req[r].op) /\ req[r].at \in Configs
        /\ req[r].configs[req[r].at] = req[r].lattice
    BY <1>a, <2>1 DEF PhaseInv, PhaseOK, IsListing, Request
  <2>4. Counted(req[r], always[r]) /\ req[r].lattice \notin req[r].seen
    BY <1>a, <2>1, <2>3 DEF ListOK
  <2>5. \A k \in Keys : k \in always[r] => store[k] # {}
    BY <1>b, <2>1, <2>3 DEF Shown
  <2>6. Counted(q, always[r])
    <3> SUFFICES ASSUME NEW k \in Keys
                 PROVE  /\ items[k] \in {0, 1}
                        /\ k[1] \notin seen => items[k] = 0
                        /\ k \in always[r] =>
                             \/ k[1] \in seen /\ items[k] = 1
                             \/ k[1] \notin seen
                                /\ \E c \in Configs : configs[c] = k[1]
      BY <2>1 DEF Counted
    <3>1. CASE k[1] = req[r].lattice
      <4>1. req[r].items[k] = 0
        BY <2>4, <3>1 DEF Counted
      <4>2. items[k] = IF store[k] # {} THEN 1 ELSE 0
        BY <3>1, <4>1 DEF items
      <4>3. k[1] \in seen
        BY <3>1 DEF seen
      <4> QED BY <2>5, <4>2, <4>3
    <3>2. CASE k[1] # req[r].lattice
      <4>1. items[k] = req[r].items[k] /\ req[r].items[k] \in {0, 1}
        BY <2>4, <3>2 DEF items, Counted
      <4>2. k[1] \in seen <=> k[1] \in req[r].seen
        BY <3>2 DEF seen
      <4>3. ASSUME NEW c \in Configs, req[r].configs[c] = k[1]
            PROVE  configs[c] = k[1]
        BY <1>a, <2>3, <3>2, <4>3 DEF configs, Request
      <4> QED BY <2>4, <4>1, <4>2, <4>3 DEF Counted
    <3> QED BY <3>1, <3>2
  <2>7. ListOK(q, always[r])
    BY <1>a, <2>1, <2>3, <2>6 DEF ListOK
  <2> QED BY <2>1, <2>2, <2>7, UpdateList
<1>4. CASE Connect(r)
  <2>1. ~IsListing(req[r].op)
    BY <1>4 DEF Connect, PhaseInv, PhaseOK, IsListing
  <2>2. ASSUME NEW pc PROVE /\ [req[r] EXCEPT !.pc = pc, !.held = FALSE].op = req[r].op
                            /\ [req[r] EXCEPT !.pc = pc, !.held = FALSE].id = req[r].id
    BY <1>a DEF Request
  <2>3. \E pc : Update(r, [req[r] EXCEPT !.pc = pc, !.held = FALSE])
    BY <1>4 DEF Connect
  <2> QED BY <1>d, <2>1, <2>2, <2>3
<1>5. ASSUME NEW as \in As, NoneLeft(r, as) PROVE ListInv'
  <2> DEFINE q == [Answered(r, "200") EXCEPT !.op = req[r].op,
                                             !.items = req[r].items]
  <2>1. req[r].pc = "next" /\ req[r].configs = NoConfigs
    BY <1>5 DEF NoneLeft
  <2>2. q.pc = "answered" /\ q.answer = "200" /\ q.items = req[r].items
    BY AnsweredType, AnsweredFields DEF Request
  <2>3. Update(r, q) \/ \E code \in {"500", "blank"} : Update(r, Answered(r, code))
    BY <1>5 DEF NoneLeft, Answer
  <2>4. q.op = req[r].op
    BY AnsweredType DEF Request
  <2> HIDE DEF q
  <2>5. ListOK(q, always[r])
    <3>1. CASE IsListing(req[r].op)
      <4>1. Counted(req[r], always[r])
        BY <1>a, <2>1, <3>1 DEF ListOK
      <4>2. \A k \in Keys : \A c \in Configs : req[r].configs[c] # k[1]
        BY <2>1 DEF NoConfigs, Keys
      <4>3. \A k \in Keys : /\ req[r].items[k] <= 1
                            /\ k \in always[r] => req[r].items[k] = 1
        BY <4>1, <4>2 DEF Counted
      <4> QED BY <2>2, <4>3 DEF ListOK
    <3> QED BY <2>4, <3>1 DEF ListOK
  <2> QED BY <1>c, <2>2, <2>3, <2>5, UpdateList
<1>6. CASE req[r].pc \in Asking /\
           (\/ GetManifest(r) \/ (\E as \in As : GetManifestStatus(r, as))
            \/ BadBody(r) \/ PutManifest(r) \/ DeployManifest(r)
            \/ DeleteManifest(r))
  <2>1. ~IsListing(req[r].op)
    BY <1>6 DEF PhaseInv, PhaseOK, IsListing
  <2>2. CASE \E code : Update(r, Answered(r, code))
    BY <1>c, <2>2
  <2>3. CASE GetManifest(r) /\ store[Key(r)] # {}
    <3> DEFINE n == Newest(store[Key(r)]).num
               pc == IF req[r].op = "get" THEN "status" ELSE "put"
               q == [req[r] EXCEPT !.base = n, !.pc = pc]
    <3>1. Update(r, q)
      BY <2>3 DEF GetManifest
    <3>2. q.op = req[r].op /\ q.id = req[r].id
      BY <1>a DEF Request
    <3> HIDE DEF q
    <3> QED BY <1>d, <2>1, <3>1, <3>2
  <2>4. CASE PutManifest(r)
    <3> DEFINE q == [req[r] EXCEPT !.pc = "deploy", !.num = clock + 1]
    <3>1. Update(r, q)
      BY <2>4 DEF PutManifest
    <3>2. q.op = req[r].op /\ q.id = req[r].id
      BY <1>a DEF Request
    <3> HIDE DEF q
    <3> QED BY <1>d, <2>1, <3>1, <3>2
  <2> QED BY <1>6, <2>2, <2>3, <2>4 DEF GetManifest, GetManifestStatus, BadBody,
             DeployManifest, DeleteManifest, Answer
<1>7. \/ GetManifest(r) \/ (\E as \in As : GetManifestStatus(r, as))
      \/ BadBody(r) \/ PutManifest(r) \/ DeployManifest(r) \/ DeleteManifest(r)
      => req[r].pc \in Asking
  BY DEF GetManifest, GetManifestStatus, BadBody, PutManifest, DeployManifest,
         DeleteManifest, Asking
<1> QED BY <1>1, <1>2, <1>3, <1>4, <1>5, <1>6, <1>7 DEF Handle

\* Nothing a step does makes a listing forget or repeat.
LEMMA StepList ==
  StateOK /\ PhaseInv /\ ListInv /\ [Next]_vars => ListInv'
<1> SUFFICES ASSUME StateOK, PhaseInv, ListInv, [Next]_vars PROVE ListInv'
  OBVIOUS
<1>1. CASE Step /\ Observe
  <2>1. ASSUME NEW c \in Configs, Change(c) \/ WriteCreds(c) PROVE ListInv'
    BY <1>1, <2>1, SameList
       DEF Change, DeleteConfig, Cleanup, EditConfig, ReadCreds, WriteCreds
  <2>2. ASSUME NEW r \in Requests, NEW op \in Ops,
               NEW ns \in Namespaces \cup {None}, NEW a \in Apps \cup {None},
               Begin(r, op, ns, a)
        PROVE  ListInv'
    <3> DEFINE q == [NoRequest EXCEPT !.pc = "configs", !.op = op, !.ns = ns,
                                      !.app = a, !.id = clock + 1]
    <3>1. /\ q.pc = "configs" /\ q.answer = "none" /\ q.seen = {}
          /\ \A k \in Keys : q.items[k] = 0
      BY DEF NoRequest
    <3>2. \A s \in Requests : req'[s] = IF s = r THEN q ELSE req[s]
      BY <2>2 DEF Begin, Update, StateOK
    <3> HIDE DEF q
    <3>3. \A shown : ListOK(q, shown)
      BY <3>1 DEF ListOK
    <3> SUFFICES ASSUME NEW s \in Requests
                 PROVE  /\ ListOK(req'[s], always'[s])
                        /\ (IsListing(req'[s].op) /\ req'[s].pc # "answered")
                             => always'[s] \subseteq Shown(req[s].op, req[s].ns)'
      BY DEF ListInv
    <3>4. CASE ~IsListing(req'[s].op)
      BY <3>4, OtherList
    <3>5. CASE IsListing(req'[s].op)
      <4>1. req'[s].pc # "answered"
              => always'[s] \subseteq Shown(req[s].op, req[s].ns)'
        BY <1>1, <3>5, ObserveShown
      <4>2. CASE s = r
        BY <3>2, <3>3, <4>1, <4>2
      <4>3. CASE s # r
        BY <1>1, <3>2, <3>5, <4>1, <4>3, ObserveShown, FewerShown DEF ListInv
      <4> QED BY <4>2, <4>3
    <3> QED BY <3>4, <3>5
  <2>3. ASSUME NEW r \in Requests, Handle(r) PROVE ListInv'
    BY <1>1, <2>3, HandleList
  <2>4. ASSUME NEW r \in Requests, ConnectFails(r) PROVE ListInv'
    <3> DEFINE configs == [req[r].configs EXCEPT ![req[r].at] = None]
               q == [req[r] EXCEPT !.pc = "next", !.held = FALSE,
                       !.configs = configs, !.lattice = None, !.creds = None]
    <3>1. req[r] \in Request /\ req[r].pc = "connecting" /\ ~IsListing(req[r].op)
      BY <2>4 DEF ConnectFails, StateOK, PhaseInv, PhaseOK, IsListing
    <3>2. Update(r, q)
      BY <2>4 DEF ConnectFails
    <3>3. q.op = req[r].op /\ q.id = req[r].id
      BY <3>1 DEF Request
    <3> HIDE DEF q
    <3> QED BY <1>1, <3>1, <3>2, <3>3, OtherList, UpdateList
  <2>5. ASSUME NEW r \in Requests, Fails(r) \/ ReplyLost(r) PROVE ListInv'
    BY <1>1, <2>5, AnsweredList, UpdateList DEF Fails, ReplyLost, Answer
  <2>6. CASE Restart
    <3> SUFFICES ASSUME NEW s \in Requests
                 PROVE  /\ ListOK(req'[s], always'[s])
                        /\ (IsListing(req'[s].op) /\ req'[s].pc # "answered")
                             => always'[s] \subseteq Shown(req[s].op, req[s].ns)'
      BY DEF ListInv
    <3>1. CASE req'[s] = req[s]
      BY <1>1, <3>1, ObserveShown, FewerShown, OtherList DEF ListInv
    <3>2. CASE req'[s] = Answered(s, "panic")
      BY <3>2, AnsweredList
    <3> QED BY <2>6, <3>1, <3>2 DEF Restart
  <2> QED BY <1>1, <2>1, <2>2, <2>3, <2>4, <2>5, <2>6 DEF Step
<1>2. CASE UNCHANGED vars
  BY <1>2 DEF vars, ListInv, Shown, Scope, Present
<1> QED BY <1>1, <1>2 DEF Next
-----------------------------------------------------------------------------
(***************************************************************************)
(* What every reachable state satisfies, and the theorems.                 *)
(***************************************************************************)
Inv == TypeOK /\ PhaseInv /\ RouteInv /\ VersionInv /\ ListInv

\* In the beginning nothing has been asked for.
LEMMA InitInv == Init => Inv
<1> SUFFICES ASSUME Init PROVE Inv
  OBVIOUS
<1> USE ApiAssumption DEF Init
<1>1. \A r \in Requests : req[r] = NoRequest
  OBVIOUS
<1>2. \A k \in Keys : store[k] = {[num |-> 1, by |-> 0, base |-> 0]}
  OBVIOUS
<1>3. TypeOK
  <2>1. cfg \in [Configs -> Config]
    BY DEF Config
  <2>2. store \in [Keys -> SUBSET Version]
    BY DEF Version
  <2>3. cache \in [Configs -> Creds \cup {None}] /\ queued \in [Configs -> Write \cup {None}]
    BY DEF NoConfigs
  <2>4. req \in [Requests -> Request]
    BY NoRequestType
  <2>5. /\ budget \in [requests: Nat, changes: Nat, failures: Nat]
        /\ running \in [Keys -> Nat] /\ clock \in Nat
        /\ named \subseteq Configs \X Lattices /\ keyed \subseteq Configs \X Creds
        /\ always \in [Requests -> SUBSET Keys]
    OBVIOUS
  <2> QED BY <2>1, <2>2, <2>3, <2>4, <2>5 DEF TypeOK
<1>4. PhaseInv
  BY <1>1, <1>2 DEF PhaseInv, NewestInv, PhaseOK, NoRequest, Busy, Asking
<1>5. RouteInv
  BY <1>1 DEF RouteInv, SourcesInv, RouteOK, NoRequest, NoConfigs
<1>6. VersionInv
  BY <1>1, <1>2 DEF VersionInv, NumbersInv, PatchesBuildOn, VersionOK, NoRequest
<1>7. ListInv
  BY <1>1 DEF ListInv, ListOK, IsListing, NoRequest, Ops
<1> QED BY <1>3, <1>4, <1>5, <1>6, <1>7 DEF Inv

\* What has been shown to a listing are applications of lattices.
LEMMA AlwaysType ==
  ASSUME TypeOK, [Next]_vars PROVE always' \in [Requests -> SUBSET Keys]
<1>1. CASE Observe
  <2>1. \A r \in Requests : Shown(req[r].op, req[r].ns)' \subseteq Keys
    BY DEF Shown, Keys
  <2>2. \A r \in Requests : always'[r] \subseteq Keys
    BY <1>1, <2>1 DEF Observe, TypeOK
  <2>3. always' = [r \in Requests |-> always'[r]]
    BY <1>1 DEF Observe
  <2> QED BY <2>2, <2>3
<1>2. CASE UNCHANGED vars
  BY <1>2 DEF vars, TypeOK
<1> QED BY <1>1, <1>2 DEF Next

\* Every step keeps it.
LEMMA StepInv == Inv /\ [Next]_vars => Inv'
<1> SUFFICES ASSUME Inv, [Next]_vars PROVE Inv'
  OBVIOUS
<1>1. StateOK /\ PhaseInv /\ RouteInv /\ VersionInv /\ ListInv
  BY DEF Inv, TypeOK, StateOK
<1>2. StateOK' /\ PhaseInv' /\ RouteInv' /\ VersionInv' /\ ListInv'
  BY <1>1, StepType, StepPhase, StepRoute, StepVersion, StepList
<1>3. always' \in [Requests -> SUBSET Keys]
  BY AlwaysType DEF Inv
<1> QED BY <1>2, <1>3 DEF Inv, TypeOK, StateOK

\* The invariant holds throughout.
THEOREM InvCorrect == Spec => []Inv
BY InitInv, StepInv, PTL DEF Spec

\* Requests, versions, cache and host configs keep the shapes the code's types
\* give them.
THEOREM TypeCorrect == Spec => []TypeOK
<1>1. Inv => TypeOK
  BY DEF Inv
<1> QED BY <1>1, InvCorrect, PTL

\* A request for a namespace reaches no lattice, and uses no credentials, but
\* those of a host config of that namespace.
THEOREM RoutedCorrect == Spec => []Routed
<1>1. Inv => Routed
  BY DEF Inv, RouteInv, RouteOK, Routed
<1> QED BY <1>1, InvCorrect, PTL

\* A patch is made from a version no older than any that was stored before it
\* was asked for.
THEOREM PatchesBuildOnCorrect == Spec => []PatchesBuildOn
<1>1. Inv => PatchesBuildOn
  BY DEF Inv, VersionInv
<1> QED BY <1>1, InvCorrect, PTL

\* A request that is answered with "not found" has left nothing behind.
THEOREM NotFoundCorrect == Spec => []NotFoundLeavesNothing
<1>1. Inv => NotFoundLeavesNothing
  BY DEF Inv, VersionInv, VersionOK, NotFoundLeavesNothing
<1> QED BY <1>1, InvCorrect, PTL

\* A listing has every application once that was shown all the time, and none
\* twice.
THEOREM ListedOnceCorrect == Spec => []ListedOnce
<1>1. Inv => ListedOnce
  BY DEF Inv, ListInv, ListOK, IsListing, Listing, ListedOnce
<1> QED BY <1>1, InvCorrect, PTL
=============================================================================
