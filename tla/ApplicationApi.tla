--------------------------- MODULE ApplicationApi ---------------------------
(***************************************************************************)
(* The aggregated API server: the HTTP handlers for the applications of a  *)
(* namespace (application.rs), which kube-apiserver calls side by side     *)
(* (router.rs).  A handler lists the namespace's host configs, connects to *)
(* NATS with the credentials the reconciliations cache, and forwards the   *)
(* request to wadm, one call after the other.  The cache is behind a lock  *)
(* that a handler holds while it connects.                                 *)
(*                                                                         *)
(* wadm is external: it keeps the versions of every application, and which *)
(* one is deployed.  A version is abstracted to its number and the number  *)
(* of the version it was made from; what a request's body says, and the    *)
(* Accept header, matter only where they are looked at, and are chosen     *)
(* there.                                                                  *)
(***************************************************************************)
EXTENDS Naturals

CONSTANTS
  Configs,      \* host configs, numbered in the order they are listed in
  Namespaces,   \* Kubernetes namespaces
  NsOf,         \* the namespace of each host config
  Lattices,     \* lattice ids
  Apps,         \* application names
  Creds,        \* NATS credentials
  Malformed,    \* the ones among them that ConnectOptions cannot parse
  None,         \* "not there", wherever the code has an Option
  Requests,     \* slots for requests in flight, numbered
  InitLattice,  \* the lattice each host config names to begin with
  MaxRequests,  \* bound: requests in a behaviour
  MaxChanges,   \* bound: changes of host configs and credentials
  MaxFailures   \* bound: calls that fail, restarts

Ops == {"create", "list_all", "list", "get", "patch", "delete"}

ASSUME ApiAssumption ==
  /\ Configs \subseteq Nat /\ Requests \subseteq Nat
  /\ NsOf \in [Configs -> Namespaces]
  /\ InitLattice \in [Configs -> Lattices \cup {None}]
  /\ Malformed \subseteq Creds
  /\ None \notin Creds \cup Lattices \cup Configs \cup Namespaces \cup Apps
  /\ None \notin Ops
  /\ MaxRequests \in Nat /\ MaxChanges \in Nat /\ MaxFailures \in Nat

Removal == [creds |-> None]
Store(v) == [creds |-> v]

VARIABLES
  cfg,      \* host configs as the Kubernetes API stores them
  cache,    \* State.nats_creds
  queued,   \* the write each config's reconciliation waits to make to the cache
  req,      \* the requests
  store,    \* wadm: the versions of each application
  running,  \* wadm: the deployed version of each application, or 0
  clock,    \* numbers requests and versions, in the order they come
  budget,   \* requests, changes and failures still allowed
  named,    \* history: (config, lattice) pairs there ever were
  keyed,    \* history: (config, credentials) pairs ever cached
  always    \* history: what each request's scope has shown ever since it began

vars == <<cfg, cache, queued, req, store, running, clock, budget, named, keyed,
          always>>
-----------------------------------------------------------------------------
Keys == Lattices \X Apps

\* What the Accept header asks the answer to be.
As == {"APIGroupDiscoveryList", "PartialObjectMetadataList", "Table",
       "NotSpecified"}

Config == [state: {"absent", "live", "deleting"}, lattice: Lattices \cup {None}]

Write == {Removal} \cup {Store(v) : v \in Creds}

Version == [num: Nat, by: Nat, base: Nat]

\* held: a read guard of nats_creds; configs: what is left of the list of host
\* configs; seen: the lattices listed; items: how often each application is in
\* the answer; base: the version a patch has read; num: the version stored.  What
\* an answered request no longer needs is reset.
Request ==
  [pc: {"idle", "configs", "next", "connecting", "listing", "get", "status",
        "put", "deploy", "delete", "answered"},
   op: Ops \cup {None}, ns: Namespaces \cup {None}, app: Apps \cup {None},
   id: Nat, held: BOOLEAN, configs: [Configs -> Lattices \cup {None}],
   at: Configs \cup {None}, lattice: Lattices \cup {None},
   creds: Creds \cup {None}, seen: SUBSET Lattices, items: [Keys -> Nat],
   base: Nat, num: Nat,
   answer: {"none", "200", "blank", "404", "500", "panic"}]

NoConfigs == [c \in Configs |-> None]
NoRequest ==
  [pc |-> "idle", op |-> None, ns |-> None, app |-> None, id |-> 0,
   held |-> FALSE, configs |-> NoConfigs, at |-> None, lattice |-> None,
   creds |-> None, seen |-> {}, items |-> [k \in Keys |-> 0],
   base |-> 0, num |-> 0, answer |-> "none"]

Present(c) == cfg[c].state # "absent"

\* Api::namespaced or Api::all.
Scope(op, ns) == {c \in Configs : op # "list_all" => NsOf[c] = ns}

\* The applications of the lattices that the host configs in scope name.
Shown(op, ns) ==
  {k \in Keys : /\ store[k] # {}
                /\ \E c \in Scope(op, ns) : Present(c) /\ cfg[c].lattice = k[1]}

Spend(what) == /\ budget[what] > 0
               /\ budget' = [budget EXCEPT ![what] = @ - 1]

\* Every application is deployed once already.
Init ==
  /\ cfg = [c \in Configs |->
              [state |-> IF InitLattice[c] = None THEN "absent" ELSE "live",
               lattice |-> InitLattice[c]]]
  /\ cache = NoConfigs
  /\ queued = NoConfigs
  /\ req = [r \in Requests |-> NoRequest]
  /\ store = [k \in Keys |-> {[num |-> 1, by |-> 0, base |-> 0]}]
  /\ running = [k \in Keys |-> 1]
  /\ clock = 1
  /\ budget = [requests |-> MaxRequests, changes |-> MaxChanges,
               failures |-> MaxFailures]
  /\ named = {x \in Configs \X Lattices : InitLattice[x[1]] = x[2]}
  /\ keyed = {}
  /\ always = [r \in Requests |-> {}]
-----------------------------------------------------------------------------
(***************************************************************************)
(* Host configs and their credentials.  A reconciliation asks for the      *)
(* write lock and gets it when no handler holds a guard; tokio lets no new *)
(* reader in before a writer that waits.  cleanup removes the credentials  *)
(* before the finalizer lets a config go.                                  *)
(***************************************************************************)
EditConfig(c, l) ==
  /\ cfg[c].state # "deleting" /\ cfg[c].lattice # l
  /\ Spend("changes")
  /\ cfg' = [cfg EXCEPT ![c] = [state |-> "live", lattice |-> l]]
  /\ named' = named \cup {<<c, l>>}
  /\ UNCHANGED <<cache, queued, req, store, running, clock, keyed>>

DeleteConfig(c) ==
  /\ cfg[c].state = "live"
  /\ Spend("changes")
  /\ cfg' = [cfg EXCEPT ![c].state = "deleting"]
  /\ UNCHANGED <<cache, queued, req, store, running, clock, named, keyed>>

Cleanup(c) ==
  /\ cfg[c].state = "deleting" /\ queued[c] = None
  /\ queued' = [queued EXCEPT ![c] = Removal]
  /\ UNCHANGED <<cfg, cache, req, store, running, clock, budget, named, keyed>>

ReadCreds(c, v) ==
  /\ cfg[c].state = "live" /\ queued[c] = None
  /\ Spend("changes")
  /\ queued' = [queued EXCEPT ![c] = Store(v)]
  /\ UNCHANGED <<cfg, cache, req, store, running, clock, named, keyed>>

\* Mutant: caches what the reconciliation holds, not the credentials in it.
WriteCredsWhole(c) ==
  /\ queued[c] # None
  /\ \A r \in Requests : ~req[r].held
  /\ cache' = [cache EXCEPT ![c] = queued[c]]
  /\ queued' = [queued EXCEPT ![c] = None]
  /\ UNCHANGED <<cfg, req, store, running, clock, budget, named, keyed>>

WriteCreds(c) ==
  LET v == queued[c].creds
  IN /\ queued[c] # None
     /\ \A r \in Requests : ~req[r].held
     /\ cache' = [cache EXCEPT ![c] = v]
     /\ queued' = [queued EXCEPT ![c] = None]
     /\ cfg' = [cfg EXCEPT ![c] = IF v = None
                                  THEN [state |-> "absent", lattice |-> None]
                                  ELSE @]
     /\ keyed' = IF v = None THEN keyed ELSE keyed \cup {<<c, v>>}
     /\ UNCHANGED <<req, store, running, clock, budget, named>>
-----------------------------------------------------------------------------
(***************************************************************************)
(* The handlers, up to wadm.                                               *)
(***************************************************************************)
Update(r, q) == req' = [req EXCEPT ![r] = q]

\* internal_error, not_found_error or a document; a guard the handler has is
\* dropped with all else.
Answered(r, code) ==
  [NoRequest EXCEPT !.pc = "answered", !.answer = code,
                    !.id = IF code = "404" THEN req[r].id ELSE 0]

Answer(r, code) == Update(r, Answered(r, code))

Unchanged == UNCHANGED <<cfg, cache, queued, store, running, clock, budget,
                         named, keyed>>

Free(r) == req[r].pc \in {"idle", "answered"}

\* setup routes the request to the handler of its method and path; a name is in
\* the path, or in the manifest that is created.  Slots mean nothing: the first
\* that is free is taken.
Begin(r, op, ns, a) ==
  /\ Free(r) /\ \A s \in Requests : s < r => ~Free(s)
  /\ ns = None <=> op = "list_all"
  /\ a = None <=> op \in {"list", "list_all"}
  /\ Spend("requests")
  /\ clock' = clock + 1
  /\ Update(r, [NoRequest EXCEPT !.pc = "configs", !.op = op, !.ns = ns,
                                 !.app = a, !.id = clock + 1])
  /\ UNCHANGED <<cfg, cache, queued, store, running, named, keyed>>

\* Mutant: Api::all for every request.
ListAllConfigs(r) ==
  /\ req[r].pc = "configs"
  /\ Update(r, [req[r] EXCEPT !.pc = "next",
       !.configs = [c \in Configs |->
                      IF Present(c) THEN cfg[c].lattice ELSE None]])
  /\ Unchanged

ListConfigs(r) ==
  /\ req[r].pc = "configs"
  /\ Update(r, [req[r] EXCEPT !.pc = "next",
       !.configs = [c \in Configs |->
                      IF c \in Scope(req[r].op, req[r].ns) /\ Present(c)
                      THEN cfg[c].lattice ELSE None]])
  /\ Unchanged

Listing(r) == req[r].op \in {"list", "list_all"}

\* The host config whose turn it is.
Turn(r, c) ==
  /\ req[r].configs[c] # None
  /\ \A d \in Configs : req[r].configs[d] # None => c <= d

\* read(): behind any writer that waits already.
ReadLock == \A c \in Configs : queued[c] = None

\* Mutant: without the set of lattices listed already.
LookupEvery(r, c) ==
  LET q == [req[r] EXCEPT !.at = c, !.lattice = req[r].configs[c],
                          !.creds = cache[c]]
  IN /\ req[r].pc = "next" /\ Turn(r, c)
     /\ ReadLock
     /\ IF Listing(r) THEN Update(r, [q EXCEPT !.pc = "listing", !.held = TRUE])
                      ELSE Update(r, [q EXCEPT !.pc = "connecting", !.held = TRUE])
     /\ Unchanged

\* The lock is taken and the credentials looked up.  A lattice that is listed
\* already is passed over.  Malformed credentials are an error in list_apps and
\* a panic in get_nats_client, which ends the handler's task and no other.
Lookup(r, c) ==
  LET q == [req[r] EXCEPT !.at = c, !.lattice = req[r].configs[c],
                          !.creds = cache[c]]
  IN /\ req[r].pc = "next" /\ Turn(r, c)
     /\ ReadLock
     /\ \/ /\ Listing(r) /\ q.lattice \in req[r].seen
           /\ Update(r, [req[r] EXCEPT !.configs[c] = None])
        \/ /\ Listing(r) /\ q.lattice \notin req[r].seen
           /\ IF q.creds \in Malformed THEN Answer(r, "500")
              ELSE Update(r, [q EXCEPT !.pc = "listing", !.held = TRUE])
        \/ /\ ~Listing(r)
           /\ IF q.creds \in Malformed THEN Answer(r, "panic")
              ELSE Update(r, [q EXCEPT !.pc = "connecting", !.held = TRUE])
     /\ Unchanged

\* Mutant: the guard lives as long as the loop.
ListAppsKeepsGuard(r) ==
  LET q == req[r]
  IN /\ q.pc = "listing"
     /\ Update(r, [q EXCEPT !.pc = "next", !.configs[q.at] = None,
          !.seen = @ \cup {q.lattice},
          !.items = [k \in Keys |->
             @[k] + IF k[1] = q.lattice /\ store[k] # {} THEN 1 ELSE 0]])
     /\ Unchanged

\* list_apps: connects and asks wadm, all under the guard.
ListApps(r) ==
  LET q == req[r]
  IN /\ q.pc = "listing"
     /\ Update(r, [q EXCEPT !.pc = "next", !.held = FALSE, !.configs[q.at] = None,
          !.seen = @ \cup {q.lattice},
          !.items = [k \in Keys |->
             @[k] + IF k[1] = q.lattice /\ store[k] # {} THEN 1 ELSE 0]])
     /\ Unchanged

\* get_nats_client has connected: get_lattice_connection returns.
Connect(r) ==
  LET step == CASE req[r].op \in {"get", "patch"} -> "get"
                [] req[r].op = "create" -> "put"
                [] OTHER -> "delete"
  IN /\ req[r].pc = "connecting"
     /\ Update(r, [req[r] EXCEPT !.pc = step, !.held = FALSE])
     /\ Unchanged

\* The next host config may do.
ConnectFails(r) ==
  /\ req[r].pc = "connecting"
  /\ Spend("failures")
  /\ Update(r, [req[r] EXCEPT !.pc = "next", !.held = FALSE,
                              !.configs[req[r].at] = None,
                              !.lattice = None, !.creds = None])
  /\ UNCHANGED <<cfg, cache, queued, store, running, clock, named, keyed>>

\* No host config is left: a listing is complete, though forms other than a Table
\* and an unspecified one are answered with ""; anything else has no connection.
NoneLeft(r, as) ==
  /\ req[r].pc = "next" /\ req[r].configs = NoConfigs
  /\ IF ~Listing(r) THEN Answer(r, "500")
     ELSE IF as \in {"Table", "NotSpecified"}
     THEN Update(r, [Answered(r, "200") EXCEPT !.op = req[r].op,
                                               !.items = req[r].items])
     ELSE Answer(r, "blank")
  /\ Unchanged
-----------------------------------------------------------------------------
(***************************************************************************)
(* The handlers' requests to wadm.                                         *)
(***************************************************************************)
Key(r) == <<req[r].lattice, req[r].app>>

Newest(S) == CHOOSE v \in S : \A w \in S : w.num <= v.num

\* Mutant: reads the version that runs.
GetRunningManifest(r) ==
  /\ req[r].pc = "get"
  /\ IF running[Key(r)] = 0 THEN Answer(r, "404")
     ELSE Update(r, [req[r] EXCEPT !.base = running[Key(r)],
                       !.pc = IF req[r].op = "get" THEN "status" ELSE "put"])
  /\ Unchanged

\* get_manifest(name, None): the newest version, whether it runs or not.
GetManifest(r) ==
  /\ req[r].pc = "get"
  /\ IF store[Key(r)] = {} THEN Answer(r, "404")
     ELSE Update(r, [req[r] EXCEPT !.base = Newest(store[Key(r)]).num,
                       !.pc = IF req[r].op = "get" THEN "status" ELSE "put"])
  /\ Unchanged

\* get_manifest_status, a request of its own.
GetManifestStatus(r, as) ==
  /\ req[r].pc = "status"
  /\ IF store[Key(r)] = {} THEN Answer(r, "404")
     ELSE IF as \in {"Table", "NotSpecified"} THEN Answer(r, "200")
     ELSE Answer(r, "500")
  /\ Unchanged

\* A body that is no manifest, or no patch, or makes no manifest of what it is
\* merged into.
BadBody(r) ==
  /\ req[r].pc = "put"
  /\ Answer(r, "500")
  /\ Unchanged

\* put_and_deploy_manifest is two requests; this is what the first stores.
Stored(r) == [num |-> clock + 1, by |-> req[r].id, base |-> req[r].base]

PutManifest(r) ==
  /\ req[r].pc = "put"
  /\ clock' = clock + 1
  /\ store' = [store EXCEPT ![Key(r)] = @ \cup {Stored(r)}]
  /\ Update(r, [req[r] EXCEPT !.pc = "deploy", !.num = clock + 1])
  /\ UNCHANGED <<cfg, cache, queued, running, budget, named, keyed>>

\* Mutant: deploys the newest version, whoever stored it.
DeployNewest(r) ==
  /\ req[r].pc = "deploy"
  /\ IF store[Key(r)] # {}
     THEN /\ running' = [running EXCEPT ![Key(r)] = Newest(store[Key(r)]).num]
          /\ Answer(r, "200")
     ELSE /\ Answer(r, IF req[r].op = "patch" THEN "404" ELSE "500")
          /\ UNCHANGED running
  /\ UNCHANGED <<cfg, cache, queued, store, clock, budget, named, keyed>>

\* The second deploys that version; only patch_application tells a version that
\* is gone from other errors.
DeployManifest(r) ==
  /\ req[r].pc = "deploy"
  /\ IF \E v \in store[Key(r)] : v.num = req[r].num
     THEN running' = [running EXCEPT ![Key(r)] = req[r].num] /\ Answer(r, "200")
     ELSE /\ Answer(r, IF req[r].op = "patch" THEN "404" ELSE "500")
          /\ UNCHANGED running
  /\ UNCHANGED <<cfg, cache, queued, store, clock, budget, named, keyed>>

\* delete_manifest(name, None): all versions.
DeleteManifest(r) ==
  /\ req[r].pc = "delete"
  /\ Answer(r, IF store[Key(r)] = {} THEN "404" ELSE "200")
  /\ store' = [store EXCEPT ![Key(r)] = {}]
  /\ running' = [running EXCEPT ![Key(r)] = 0]
  /\ UNCHANGED <<cfg, cache, queued, clock, budget, named, keyed>>

\* Mutant: an error of put_and_deploy_manifest is taken for a missing version.
FailsAsNotFound(r) ==
  /\ req[r].pc \notin {"idle", "next", "connecting", "answered"}
  /\ Spend("failures")
  /\ Answer(r, IF req[r].op = "patch" THEN "404" ELSE "500")
  /\ UNCHANGED <<cfg, cache, queued, store, running, clock, named, keyed>>

\* A call fails, without an effect: the Kubernetes API, NATS, or wadm.
Fails(r) ==
  /\ req[r].pc \notin {"idle", "next", "connecting", "answered"}
  /\ Spend("failures")
  /\ Answer(r, "500")
  /\ UNCHANGED <<cfg, cache, queued, store, running, clock, named, keyed>>

\* wadm did as asked, but its reply does not come in time.
ReplyLost(r) ==
  /\ req[r].pc \in {"put", "deploy", "delete"}
  /\ Spend("failures")
  /\ Answer(r, "500")
  /\ \/ /\ req[r].pc = "put"
        /\ clock' = clock + 1
        /\ store' = [store EXCEPT ![Key(r)] = @ \cup {Stored(r)}]
        /\ UNCHANGED running
     \/ /\ req[r].pc = "deploy" /\ \E v \in store[Key(r)] : v.num = req[r].num
        /\ running' = [running EXCEPT ![Key(r)] = req[r].num]
        /\ UNCHANGED <<store, clock>>
     \/ /\ req[r].pc = "delete"
        /\ store' = [store EXCEPT ![Key(r)] = {}]
        /\ running' = [running EXCEPT ![Key(r)] = 0]
        /\ UNCHANGED clock
  /\ UNCHANGED <<cfg, cache, queued, named, keyed>>

\* The operator is restarted: the handlers and the cache are gone.  What a
\* reconciliation was about to write, the next one will be.
Restart ==
  /\ Spend("failures")
  /\ cache' = [c \in Configs |-> None]
  /\ req' = [r \in Requests |->
       IF Free(r) THEN req[r]
       ELSE Answered(r, "panic")]
  /\ UNCHANGED <<cfg, queued, store, running, clock, named, keyed>>
-----------------------------------------------------------------------------
Handle(r) ==
  \/ ListConfigs(r) \/ (\E c \in Configs : Lookup(r, c)) \/ ListApps(r)
  \/ Connect(r) \/ (\E as \in As : NoneLeft(r, as) \/ GetManifestStatus(r, as))
  \/ GetManifest(r) \/ BadBody(r) \/ PutManifest(r) \/ DeployManifest(r)
  \/ DeleteManifest(r)

Change(c) ==
  \/ DeleteConfig(c) \/ Cleanup(c)
  \/ (\E l \in Lattices : EditConfig(c, l)) \/ (\E v \in Creds : ReadCreds(c, v))

Step ==
  \/ \E c \in Configs : Change(c) \/ WriteCreds(c)
  \/ \E r \in Requests :
       \/ \E op \in Ops, ns \in Namespaces \cup {None},
            a \in Apps \cup {None} : Begin(r, op, ns, a)
       \/ Handle(r) \/ ConnectFails(r) \/ Fails(r) \/ ReplyLost(r)
  \/ Restart

\* What a listing's scope has shown ever since it was asked for.
Observe ==
  always' = [r \in Requests |->
    LET shown == Shown(req[r].op, req[r].ns)'
    IN IF ~Listing(r)' THEN {}
       ELSE IF req'[r].pc = "answered" THEN always[r]
       ELSE IF req'[r].id # req[r].id THEN shown
       ELSE always[r] \cap shown]

Next == Step /\ Observe

Spec == Init /\ [][Next]_vars

\* Handlers are polled, and every call they make ends or times out; the lock is
\* handed on in the order it was asked for.
Fairness == /\ \A r \in Requests : WF_req(Handle(r))
            /\ \A c \in Configs : WF_queued(WriteCreds(c))

FairSpec == Spec /\ Fairness
-----------------------------------------------------------------------------
(***************************************************************************)
(* Properties.                                                             *)
(***************************************************************************)
\* Every variable keeps the shape the code's types give it.
TypeOK ==
  /\ cfg \in [Configs -> Config]
  /\ cache \in [Configs -> Creds \cup {None}]
  /\ queued \in [Configs -> Write \cup {None}]
  /\ req \in [Requests -> Request]
  /\ store \in [Keys -> SUBSET Version]
  /\ running \in [Keys -> Nat]
  /\ clock \in Nat
  /\ budget \in [requests: Nat, changes: Nat, failures: Nat]
  /\ named \subseteq Configs \X Lattices
  /\ keyed \subseteq Configs \X Creds
  /\ always \in [Requests -> SUBSET Keys]

\* A request for a namespace only ever reaches a lattice that a host config of
\* that namespace has named, and only with credentials that were cached for
\* that same config: get_lattice_connection pairs what it read from the
\* Kubernetes API with what it finds, later, in the shared cache.
Routed ==
  \A r \in Requests :
    (req[r].lattice # None /\ req[r].op # "list_all") =>
      \E c \in Configs :
        /\ NsOf[c] = req[r].ns
        /\ <<c, req[r].lattice>> \in named
        /\ req[r].creds # None => <<c, req[r].creds>> \in keyed

\* "we don't list a lattice more than once", and nothing is left out: the answer
\* to a listing has every application once that its host configs showed all the
\* time the request ran, whatever came and went meanwhile, and none twice.
ListedOnce ==
  \A r \in Requests :
    (Listing(r) /\ req[r].answer = "200")
      => \A k \in Keys : /\ req[r].items[k] <= 1
                         /\ k \in always[r] => req[r].items[k] = 1

\* patch_application reads, merges and stores in separate requests, yet it can
\* only undo what ran at the same time: a version made by a patch is made from
\* one no older than any that was stored before the patch was asked for, even
\* if that one was never deployed.
PatchesBuildOn ==
  \A k \in Keys : \A v, w \in store[k] :
    (v.base # 0 /\ w.num < v.by) => w.num <= v.base

\* "not found" is the truth: a request answered 404 has left no version of its
\* own behind, even if its patch was stored before a deletion overtook it.
NotFoundLeavesNothing ==
  \A r \in Requests : req[r].answer = "404" =>
    \A k \in Keys : \A v \in store[k] : v.by # req[r].id

\* ApplicationApi implements ApplicationRequests.  A request is answered "200"
\* only if it did what it asked for, stores one version at the most and deploys
\* that one only, in a lattice of its namespace, and nothing but a request
\* changes an application, whatever fails, restarts or comes in between the
\* handler's calls.
Requested ==
  [r \in Requests |->
     IF Free(r) THEN [id |-> 0, op |-> None, ns |-> None, app |-> None, num |-> 0]
     ELSE [id |-> req[r].id, op |-> req[r].op, ns |-> req[r].ns,
           app |-> req[r].app, num |-> req[r].num]]

Answers == [r \in Requests |-> req[r].answer]

Reach == {x \in Namespaces \X Lattices :
            \E c \in Configs : NsOf[c] = x[1] /\ <<c, x[2]>> \in named}

Promise == INSTANCE ApplicationRequests WITH
  requests <- Requested, answers <- Answers, reach <- Reach

DoesAsAsked == Promise!Spec

\* Nobody waits for ever: every request is answered, though handlers hold the
\* credentials' lock while they talk to NATS, reconciliations wait for them to let
\* go of it, and other handlers queue up behind the reconciliations that wait.
NobodyStuck ==
  \A r \in Requests : req[r].pc # "idle" ~> req[r].pc = "answered"
=============================================================================
