---------------------------- MODULE ServiceSync ----------------------------
(***************************************************************************)
(* How the operator keeps Kubernetes Services in step with the wadm        *)
(* applications of the lattices its WasmCloudHostConfigs name.             *)
(*                                                                         *)
(* Four kinds of actors interleave:                                        *)
(*  - one reconciliation per host config (controller.rs), which registers  *)
(*    the config's namespace with the lattice's Watcher, replays the       *)
(*    deployed applications, and undoes the registration in cleanup;       *)
(*  - one spawned task per Watcher (services.rs), which turns JetStream    *)
(*    events into commands, using the copy of the namespaces it was cloned *)
(*    with;                                                                *)
(*  - the command loop, which applies the commands to the Kubernetes API;  *)
(*  - the environment: users editing host configs, wadm deploying and      *)
(*    undeploying applications, and disturbances (lost acks, API errors,   *)
(*    a restart of the operator, ...).                                     *)
(*                                                                         *)
(* A manifest is abstracted to what http_server_component and the address  *)
(* parser make of it: the port of its Service, or NoHttp.                  *)
(***************************************************************************)
EXTENDS Naturals, Sequences

CONSTANTS
  Configs,      \* WasmCloudHostConfig objects, each a (name, namespace)
  Namespaces,   \* Kubernetes namespaces
  NsOf,         \* the namespace of each host config
  Lattices,     \* lattice ids
  Apps,         \* application names, which are also Service names
  Ports,        \* ports an httpserver component may listen on
  NoHttp,       \* a manifest for which no Service is wanted
  None,         \* "not there", wherever the code has an Option
  Tasks,        \* slots for spawned Watcher tasks (bounds the lingering ones)
  Foreign,      \* (namespace, name) pairs whose Service somebody else made
  MaxDeliver,   \* max_deliver of the consumer
  MaxEvents,    \* bound: events wadm publishes in a behaviour
  MaxUserOps,   \* bound: changes users make to host configs
  MaxPending,   \* bound: a reconciliation starts with at most this queue
  Disturbances, \* the kinds of disturbance that may happen
  MaxDisturb,   \* bound: how many of them happen in a behaviour
  Calm          \* TRUE: wadm changes a lattice only while no reconciliation
                \* holds a list of that lattice's applications

ASSUME ConstantsAssumption ==
  /\ NsOf \in [Configs -> Namespaces]
  /\ None \notin Lattices \cup Tasks \cup Ports \cup {NoHttp}
  /\ NoHttp \notin Ports
  /\ Foreign \subseteq Namespaces \X Apps
  /\ MaxDeliver \in Nat /\ MaxEvents \in Nat /\ MaxUserOps \in Nat
  /\ MaxPending \in Nat /\ MaxDisturb \in Nat
  /\ Disturbances \subseteq {"edit", "late", "ackLost", "kubeError",
                             "reconcileError", "taskEnds", "otherEvent",
                             "restart"}
  /\ Calm \in BOOLEAN

VARIABLES
  cfg,        \* host configs as the Kubernetes API stores them
  rec,        \* the running reconciliation of each host config
  watchers,   \* ServiceWatcher.watchers, per lattice
  tasks,      \* the spawned tasks, each with its clone of the Watcher
  stream,     \* events of each lattice its durable consumer has not acked
  deployed,   \* wadm: the deployed manifest of each application
  chan,       \* the unbounded channel of WatcherCommands
  exec,       \* the command the loop is executing, and what it has left
  services,   \* Services in the cluster
  lastSeq,    \* sequence number of the last event wadm published
  budget,     \* user changes and disturbances still allowed
  granted,    \* history: (namespace, lattice) pairs some host config asked for
  revoked,    \* history: namespaces in which a host config was deleted
  published,  \* history: (lattice, app, port) wadm ever deployed
  withdrawn   \* history: (lattice, app) wadm ever undeployed

vars == <<cfg, rec, watchers, tasks, stream, deployed, chan, exec, services,
          lastSeq, budget, granted, revoked, published, withdrawn>>

\* What only the environment touches.
envVars == <<deployed, lastSeq, granted, revoked, published, withdrawn>>
-----------------------------------------------------------------------------
Manifest == Ports \cup {NoHttp}

Config == [state: {"absent", "live", "deleting"}, fin: BOOLEAN,
           lattice: Lattices \cup {None}]

Phase == {"idle", "get", "list", "watch", "enter", "services",
          "stop", "unfinalize"}

Reconciliation == [pc: Phase, lattice: Lattices \cup {None},
                   apps: [Apps -> Manifest \cup {None}]]

Watcher == [task: Tasks \cup {None}, namespaces: SUBSET Namespaces]

Task == [st: {"free", "ready", "acking", "ended"},
         lattice: Lattices \cup {None},
         namespaces: SUBSET Namespaces, msg: Nat]

Message == [seq: Nat, kind: {"published", "unpublished", "other", "garbled"},
            name: Apps, manifest: Manifest, tries: Nat]

UpsertService == [kind: {"UpsertService"}, name: Apps, port: Ports,
                  lattice: Lattices, namespaces: SUBSET Namespaces]

RemoveService == [kind: {"RemoveService"}, name: Apps,
                  namespaces: SUBSET Namespaces]

RemoveServices == [kind: {"RemoveServices"}, namespaces: SUBSET Namespaces]

WatcherCommand == UpsertService \cup RemoveService \cup RemoveServices

NoCommand == [kind |-> "none"]

\* A Service is missing, somebody else's, or carries the operator's
\* managed-by label; lattice is that of the command that wrote it last, whose
\* hosts the command then lists in the EndpointSlice of the same name.
NoService == [owner |-> "none"]
ForeignService == [owner |-> "other"]
ManagedService == [owner: {"operator"}, port: Ports, lattice: Lattices]
Service == {NoService, ForeignService} \cup ManagedService

NoConfig == [state |-> "absent", fin |-> FALSE, lattice |-> None]
NoApps == [a \in Apps |-> None]
Idle == [pc |-> "idle", lattice |-> None, apps |-> NoApps]
NoWatcher == [task |-> None, namespaces |-> {}]
FreeTask == [st |-> "free", lattice |-> None, namespaces |-> {}, msg |-> 0]
ExecIdle == [cmd |-> NoCommand, todo |-> {}]

Registered(l) == watchers[l].task # None

\* Dropping the Watcher from the map cancels the token its task selects on.
Cancelled(t) == \A l \in Lattices : watchers[l].task # t

\* reconcile_services holds the read lock for the length of its loop.
ReadLocked == \E c \in Configs : rec[c].pc = "services"

Disturb(kind) ==
  /\ kind \in Disturbances
  /\ budget.disturb > 0
  /\ budget' = [budget EXCEPT !.disturb = @ - 1]

UserChange ==
  /\ budget.user > 0
  /\ budget' = [budget EXCEPT !.user = @ - 1]
-----------------------------------------------------------------------------
Init ==
  /\ cfg = [c \in Configs |-> NoConfig]
  /\ rec = [c \in Configs |-> Idle]
  /\ watchers = [l \in Lattices |-> NoWatcher]
  /\ tasks = [t \in Tasks |-> FreeTask]
  /\ stream = [l \in Lattices |-> {}]
  /\ deployed = [l \in Lattices |-> NoApps]
  /\ chan = <<>>
  /\ exec = ExecIdle
  /\ services = [k \in Namespaces \X Apps |->
                   IF k \in Foreign THEN ForeignService ELSE NoService]
  /\ lastSeq = 0
  /\ budget = [user |-> MaxUserOps, disturb |-> MaxDisturb]
  /\ granted = {} /\ revoked = {}
  /\ published = {} /\ withdrawn = {}
-----------------------------------------------------------------------------
(***************************************************************************)
(* Users.  A config with the finalizer is only marked for deletion.        *)
(***************************************************************************)
CreateConfig(c, l) ==
  /\ cfg[c].state = "absent"
  /\ UserChange
  /\ cfg' = [cfg EXCEPT ![c] = [state |-> "live", fin |-> FALSE, lattice |-> l]]
  /\ granted' = granted \cup {<<NsOf[c], l>>}
  /\ UNCHANGED <<rec, watchers, tasks, stream, deployed, chan, exec, services,
                 lastSeq, revoked, published, withdrawn>>

EditLattice(c, l) ==
  /\ cfg[c].state # "absent"
  /\ cfg[c].lattice # l
  /\ Disturb("edit")
  /\ cfg' = [cfg EXCEPT ![c].lattice = l]
  /\ granted' = granted \cup {<<NsOf[c], l>>}
  /\ UNCHANGED <<rec, watchers, tasks, stream, deployed, chan, exec, services,
                 lastSeq, revoked, published, withdrawn>>

DeleteConfig(c) ==
  /\ cfg[c].state = "live"
  /\ UserChange
  /\ cfg' = [cfg EXCEPT ![c] = IF @.fin THEN [@ EXCEPT !.state = "deleting"]
                                        ELSE NoConfig]
  /\ revoked' = revoked \cup {NsOf[c]}
  /\ UNCHANGED <<rec, watchers, tasks, stream, deployed, chan, exec, services,
                 lastSeq, granted, published, withdrawn>>

(***************************************************************************)
(* wadm.  Every change of a lattice's deployments is published on the      *)
(* lattice's event subject; the operator's stream mirrors it.              *)
(***************************************************************************)
CalmLattice(l) ==
  Calm => \A c \in Configs : \/ rec[c].lattice # l
                             \/ rec[c].pc \notin {"watch", "enter", "services"}

Publish(l, kind, a, m) ==
  /\ lastSeq < MaxEvents
  /\ lastSeq' = lastSeq + 1
  /\ stream' = [stream EXCEPT ![l] = @ \cup
       {[seq |-> lastSeq + 1, kind |-> kind, name |-> a, manifest |-> m,
         tries |-> 0]}]
  /\ UNCHANGED <<cfg, rec, watchers, tasks, chan, exec, services, granted,
                 revoked>>

Deploy(l, a, m) ==
  /\ deployed[l][a] # m
  /\ CalmLattice(l)
  /\ deployed' = [deployed EXCEPT ![l][a] = m]
  /\ published' = IF m \in Ports THEN published \cup {<<l, a, m>>}
                                 ELSE published
  /\ Publish(l, "published", a, m)
  /\ UNCHANGED <<withdrawn, budget>>

Undeploy(l, a) ==
  /\ deployed[l][a] # None
  /\ CalmLattice(l)
  /\ deployed' = [deployed EXCEPT ![l][a] = None]
  /\ withdrawn' = withdrawn \cup {<<l, a>>}
  /\ Publish(l, "unpublished", a, NoHttp)
  /\ UNCHANGED <<published, budget>>

\* Any other event, or a payload that is not a cloudevent.
PublishOther(l, kind, a) ==
  /\ Disturb("otherEvent")
  /\ Publish(l, kind, a, NoHttp)
  /\ UNCHANGED <<deployed, published, withdrawn>>
-----------------------------------------------------------------------------
(***************************************************************************)
(* Reconciliation of a host config.  kube's finalizer helper picks the     *)
(* branch from the object; periodic requeues and retries make a start      *)
(* possible at any time.                                                   *)
(***************************************************************************)
Goto(c, pc) == rec' = [rec EXCEPT ![c].pc = pc]
Finish(c) == rec' = [rec EXCEPT ![c] = Idle]

AddFinalizer(c) ==
  /\ rec[c].pc = "idle" /\ cfg[c].state = "live" /\ ~cfg[c].fin
  /\ cfg' = [cfg EXCEPT ![c].fin = TRUE]
  /\ UNCHANGED <<rec, watchers, tasks, stream, chan, exec, services, budget,
                 envVars>>

BeginApply(c) ==
  /\ rec[c].pc = "idle" /\ cfg[c].state = "live" /\ cfg[c].fin
  /\ Len(chan) <= MaxPending
  /\ Goto(c, "get")
  /\ UNCHANGED <<cfg, watchers, tasks, stream, chan, exec, services, budget,
                 envVars>>

\* cleanup works on the object the reconciliation was started with.
BeginCleanup(c) ==
  /\ rec[c].pc = "idle" /\ cfg[c].state = "deleting" /\ cfg[c].fin
  /\ rec' = [rec EXCEPT ![c].pc = "stop", ![c].lattice = cfg[c].lattice]
  /\ UNCHANGED <<cfg, watchers, tasks, stream, chan, exec, services, budget,
                 envVars>>

\* reconcile_crd works on a fresh copy, and provisions the hosts with it.
GetConfig(c) ==
  /\ rec[c].pc = "get"
  /\ rec' = [rec EXCEPT ![c].pc = "list", ![c].lattice = cfg[c].lattice]
  /\ UNCHANGED <<cfg, watchers, tasks, stream, chan, exec, services, budget,
                 envVars>>

ListApps(c) ==
  /\ rec[c].pc = "list"
  /\ rec' = [rec EXCEPT ![c].pc = "watch",
                        ![c].apps = deployed[rec[c].lattice]]
  /\ UNCHANGED <<cfg, watchers, tasks, stream, chan, exec, services, budget,
                 envVars>>

\* The spawned task keeps a clone of the Watcher as it was when created.
Watch(c) ==
  LET l == rec[c].lattice
      ns == NsOf[c]
  IN /\ rec[c].pc = "watch"
     /\ ~ReadLocked
     /\ Goto(c, "enter")
     /\ \/ /\ Registered(l)
           /\ watchers' = [watchers EXCEPT ![l].namespaces = @ \cup {ns}]
           /\ UNCHANGED tasks
        \/ /\ ~Registered(l)
           /\ \E t \in Tasks :
                /\ tasks[t].st = "free"
                /\ tasks' = [tasks EXCEPT ![t] =
                     [st |-> "ready", lattice |-> l, namespaces |-> {ns},
                      msg |-> 0]]
                /\ watchers' = [watchers EXCEPT ![l] =
                     [task |-> t, namespaces |-> {ns}]]
     /\ UNCHANGED <<cfg, stream, chan, exec, services, budget, envVars>>

EnterServices(c) ==
  /\ rec[c].pc = "enter"
  /\ IF Registered(rec[c].lattice) THEN Goto(c, "services") ELSE Finish(c)
  /\ UNCHANGED <<cfg, watchers, tasks, stream, chan, exec, services, budget,
                 envVars>>

\* Mutant: the Service is upserted without looking at the parsed address.
UpsertsUnparsed(l, nss, a, m) ==
  <<[kind |-> "UpsertService", name |-> a, port |-> m, lattice |-> l,
     namespaces |-> nss]>>

\* handle_manifest_published, for the event task and for reconcile_services.
Upserts(l, nss, a, m) ==
  IF m \in Ports
  THEN <<[kind |-> "UpsertService", name |-> a, port |-> m, lattice |-> l,
          namespaces |-> nss]>>
  ELSE <<>>

\* One turn of the loop: get_manifest still answers with the listed version.
ReconcileApp(c, a) ==
  LET l == rec[c].lattice
  IN /\ rec[c].pc = "services"
     /\ rec[c].apps[a] # None
     /\ rec' = [rec EXCEPT ![c].apps[a] = None]
     /\ chan' = chan \o Upserts(l, watchers[l].namespaces, a, rec[c].apps[a])
     /\ UNCHANGED <<cfg, watchers, tasks, stream, exec, services, budget,
                    envVars>>

GetManifestFails(c, a) ==
  /\ rec[c].pc = "services"
  /\ rec[c].apps[a] # None
  /\ Disturb("reconcileError")
  /\ rec' = [rec EXCEPT ![c].apps[a] = None]
  /\ UNCHANGED <<cfg, watchers, tasks, stream, chan, exec, services, envVars>>

EndReconcile(c) ==
  /\ rec[c].pc = "services"
  /\ rec[c].apps = NoApps
  /\ Finish(c)
  /\ UNCHANGED <<cfg, watchers, tasks, stream, chan, exec, services, budget,
                 envVars>>

\* Mutants: the namespace stays registered, the namespace's Services are left
\* behind, a lattice that is not watched is an error, the Services of every
\* namespace of the Watcher go.
StopWatchKeepsNamespace(c) ==
  /\ rec[c].pc = "stop"
  /\ ~ReadLocked
  /\ Goto(c, "unfinalize")
  /\ chan' = Append(chan, [kind |-> "RemoveServices", namespaces |-> {NsOf[c]}])
  /\ UNCHANGED <<cfg, watchers, tasks, stream, exec, services, budget, envVars>>

StopWatchKeepsServices(c) ==
  LET l == rec[c].lattice
      rest == watchers[l].namespaces \ {NsOf[c]}
  IN /\ rec[c].pc = "stop"
     /\ ~ReadLocked
     /\ Goto(c, "unfinalize")
     /\ watchers' = [watchers EXCEPT ![l] =
          IF rest = {} THEN NoWatcher ELSE [@ EXCEPT !.namespaces = rest]]
     /\ UNCHANGED <<cfg, tasks, stream, chan, exec, services, budget, envVars>>

StopWatchUnknownFails(c) ==
  /\ rec[c].pc = "stop"
  /\ ~ReadLocked
  /\ IF Registered(rec[c].lattice) THEN Goto(c, "unfinalize") ELSE Finish(c)
  /\ watchers' = [watchers EXCEPT ![rec[c].lattice] = NoWatcher]
  /\ UNCHANGED <<cfg, tasks, stream, chan, exec, services, budget, envVars>>

StopWatchEverywhere(c) ==
  LET l == rec[c].lattice
      rest == watchers[l].namespaces \ {NsOf[c]}
  IN /\ rec[c].pc = "stop"
     /\ ~ReadLocked
     /\ Goto(c, "unfinalize")
     /\ IF Registered(l)
        THEN /\ watchers' = [watchers EXCEPT ![l] =
                  IF rest = {} THEN NoWatcher
                               ELSE [@ EXCEPT !.namespaces = rest]]
             /\ chan' = Append(chan, [kind |-> "RemoveServices",
                                      namespaces |-> watchers[l].namespaces])
        ELSE UNCHANGED <<watchers, chan>>
     /\ UNCHANGED <<cfg, tasks, stream, exec, services, budget, envVars>>

StopWatch(c) ==
  LET l == rec[c].lattice
      rest == watchers[l].namespaces \ {NsOf[c]}
  IN /\ rec[c].pc = "stop"
     /\ ~ReadLocked
     /\ Goto(c, "unfinalize")
     /\ IF Registered(l)
        THEN /\ watchers' = [watchers EXCEPT ![l] =
                  IF rest = {} THEN NoWatcher
                               ELSE [@ EXCEPT !.namespaces = rest]]
             /\ chan' = Append(chan, [kind |-> "RemoveServices",
                                      namespaces |-> {NsOf[c]}])
        ELSE UNCHANGED <<watchers, chan>>
     /\ UNCHANGED <<cfg, tasks, stream, exec, services, budget, envVars>>

\* The last finalizer gone, the API server removes the object.
RemoveFinalizer(c) ==
  /\ rec[c].pc = "unfinalize"
  /\ cfg' = [cfg EXCEPT ![c] = NoConfig]
  /\ Finish(c)
  /\ UNCHANGED <<watchers, tasks, stream, chan, exec, services, budget,
                 envVars>>

\* An error of the Kubernetes API or of NATS: error_policy requeues.
ReconcileFails(c) ==
  /\ rec[c].pc \in {"get", "list", "watch", "unfinalize"}
  /\ Disturb("reconcileError")
  /\ Finish(c)
  /\ UNCHANGED <<cfg, watchers, tasks, stream, chan, exec, services, envVars>>
-----------------------------------------------------------------------------
(***************************************************************************)
(* The task of a Watcher.                                                  *)
(***************************************************************************)
InHand(l, m) == \E t \in Tasks : /\ tasks[t].st = "acking"
                                 /\ tasks[t].lattice = l
                                 /\ tasks[t].msg = m.seq

\* New messages come in order; an unacked one comes again after ack_wait.
Deliverable(l, m) ==
  /\ m.tries < MaxDeliver
  /\ ~InHand(l, m)
  /\ m.tries = 0 => \A n \in stream[l] : n.tries = 0 => m.seq <= n.seq

Delivered(l, m) ==
  stream' = [stream EXCEPT ![l] = (@ \ {m}) \cup {[m EXCEPT !.tries = @ + 1]}]

\* Mutant: only manifest_published events are handled.
CommandsIgnoreUnpublished(t, m) ==
  IF m.kind = "published"
  THEN Upserts(tasks[t].lattice, tasks[t].namespaces, m.name, m.manifest)
  ELSE <<>>

\* The commands handle_event sends, with the namespaces of the task's clone.
Commands(t, m) ==
  CASE m.kind = "published" ->
         Upserts(tasks[t].lattice, tasks[t].namespaces, m.name, m.manifest)
    [] m.kind = "unpublished" ->
         <<[kind |-> "RemoveService", name |-> m.name,
            namespaces |-> tasks[t].namespaces]>>
    [] OTHER -> <<>>

\* Mutant: the consumer's filter subject keeps its wildcard.
ReceiveAnyLattice(t, m) ==
  /\ tasks[t].st = "ready"
  /\ \E l \in Lattices : m \in stream[l] /\ Delivered(l, m)
  /\ m.tries < MaxDeliver
  /\ chan' = chan \o Commands(t, m)
  /\ tasks' = [tasks EXCEPT ![t].st = "acking", ![t].msg = m.seq]
  /\ UNCHANGED <<cfg, rec, watchers, exec, services, envVars>>

Receive(t, m) ==
  /\ tasks[t].st = "ready"
  /\ m \in stream[tasks[t].lattice]
  /\ Deliverable(tasks[t].lattice, m)
  /\ Delivered(tasks[t].lattice, m)
  /\ chan' = chan \o Commands(t, m)
  /\ tasks' = IF m.kind = "garbled" THEN tasks  \* handle_event fails: nak
              ELSE [tasks EXCEPT ![t].st = "acking", ![t].msg = m.seq]
  /\ UNCHANGED <<cfg, rec, watchers, exec, services, envVars>>

HandleEvent(t, m) == ~Cancelled(t) /\ Receive(t, m) /\ UNCHANGED budget

\* select! may poll watch_events once more before it sees the cancellation.
LateHandleEvent(t, m) == Cancelled(t) /\ Disturb("late") /\ Receive(t, m)

Ready(t) == tasks' = [tasks EXCEPT ![t].st = "ready", ![t].msg = 0]

Ack(t) ==
  LET l == tasks[t].lattice
  IN /\ tasks[t].st = "acking"
     /\ stream' = [stream EXCEPT ![l] = {m \in @ : m.seq # tasks[t].msg}]
     /\ Ready(t)
     /\ UNCHANGED <<cfg, rec, watchers, chan, exec, services, budget, envVars>>

\* The ack fails, or comes after ack_wait: the error is only logged.
AckLost(t) ==
  /\ tasks[t].st = "acking"
  /\ Disturb("ackLost")
  /\ Ready(t)
  /\ UNCHANGED <<cfg, rec, watchers, stream, chan, exec, services, envVars>>

\* The message stream ends: the task stops, its Watcher stays in the map.
WatchEventsEnds(t) ==
  /\ tasks[t].st = "ready" /\ ~Cancelled(t)
  /\ Disturb("taskEnds")
  /\ tasks' = [tasks EXCEPT ![t].st = "ended"]
  /\ UNCHANGED <<cfg, rec, watchers, stream, chan, exec, services, envVars>>

\* The task sees the cancellation, in an await, and is dropped.
Shutdown(t) ==
  /\ tasks[t].st # "free" /\ Cancelled(t)
  /\ tasks' = [tasks EXCEPT ![t] = FreeTask]
  /\ UNCHANGED <<cfg, rec, watchers, stream, chan, exec, services, budget,
                 envVars>>
-----------------------------------------------------------------------------
(***************************************************************************)
(* The command loop.  It runs one command at a time, namespace by          *)
(* namespace in the arbitrary order of a HashSet.                          *)
(***************************************************************************)
\* Mutant: lists Services without the managed-by label, too.
TargetsOfAny(cmd) ==
  IF cmd.kind = "RemoveServices"
  THEN {k \in cmd.namespaces \X Apps : services[k] # NoService}
  ELSE cmd.namespaces \X {cmd.name}

Targets(cmd) ==
  IF cmd.kind = "RemoveServices"
  THEN {k \in cmd.namespaces \X Apps : services[k].owner = "operator"}
  ELSE cmd.namespaces \X {cmd.name}

TakeCommand ==
  /\ exec = ExecIdle
  /\ chan # <<>>
  /\ exec' = [cmd |-> Head(chan), todo |-> Targets(Head(chan))]
  /\ chan' = Tail(chan)
  /\ UNCHANGED <<cfg, rec, watchers, tasks, stream, services, budget, envVars>>

Progress(todo) ==
  exec' = IF todo = {} THEN ExecIdle ELSE [exec EXCEPT !.todo = todo]

\* A command with nothing to do: no namespace, or no managed Service.
NothingToDo ==
  /\ exec # ExecIdle
  /\ exec.todo = {}
  /\ Progress({})
  /\ UNCHANGED <<cfg, rec, watchers, tasks, stream, chan, services, budget,
                 envVars>>

\* What an UpsertService leaves under a key.
Upserted == [owner |-> "operator", port |-> exec.cmd.port,
             lattice |-> exec.cmd.lattice]

\* Mutant: an existing Service is taken to be up to date.
CreateServiceOnly(k) ==
  /\ exec.cmd.kind = "UpsertService"
  /\ k \in exec.todo
  /\ services' = [services EXCEPT ![k] = IF @ = NoService THEN Upserted ELSE @]
  /\ Progress(exec.todo \ {k})
  /\ UNCHANGED <<cfg, rec, watchers, tasks, stream, chan, budget, envVars>>

\* Server-side apply without force creates or updates the operator's own
\* Service and conflicts with anybody else's; an error ends the command.
CreateOrUpdateService(k) ==
  /\ exec.cmd.kind = "UpsertService"
  /\ k \in exec.todo
  /\ IF services[k].owner = "other"
     THEN Progress({}) /\ UNCHANGED services
     ELSE /\ services' = [services EXCEPT ![k] = Upserted]
          /\ Progress(exec.todo \ {k})
  /\ UNCHANGED <<cfg, rec, watchers, tasks, stream, chan, budget, envVars>>

\* delete_service gets the Service by name only; a missing one is an error,
\* which RemoveService logs and skips.
DeleteService(k) ==
  /\ exec.cmd.kind \in {"RemoveService", "RemoveServices"}
  /\ k \in exec.todo
  /\ services' = [services EXCEPT ![k] = NoService]
  /\ Progress(exec.todo \ {k})
  /\ UNCHANGED <<cfg, rec, watchers, tasks, stream, chan, budget, envVars>>

\* An API error, before or after the request took effect (an upsert still has
\* the EndpointSlice to write), ends an UpsertService and a RemoveServices;
\* RemoveService goes on with the next namespace.  Nothing is retried.
KubeFails(k) ==
  /\ exec # ExecIdle
  /\ k \in exec.todo
  /\ Disturb("kubeError")
  /\ Progress(IF exec.cmd.kind = "RemoveService" THEN exec.todo \ {k} ELSE {})
  /\ \/ UNCHANGED services
     \/ /\ exec.cmd.kind = "UpsertService" /\ services[k].owner # "other"
        /\ services' = [services EXCEPT ![k] = Upserted]
     \/ /\ exec.cmd.kind \in {"RemoveService", "RemoveServices"}
        /\ services' = [services EXCEPT ![k] = NoService]
  /\ UNCHANGED <<cfg, rec, watchers, tasks, stream, chan, envVars>>
-----------------------------------------------------------------------------
\* The operator stops, or a reconciliation panics, and the pod is restarted:
\* everything in memory is lost.
Restart ==
  /\ Disturb("restart")
  /\ rec' = [c \in Configs |-> Idle]
  /\ watchers' = [l \in Lattices |-> NoWatcher]
  /\ tasks' = [t \in Tasks |-> FreeTask]
  /\ chan' = <<>>
  /\ exec' = ExecIdle
  /\ UNCHANGED <<cfg, stream, services, envVars>>
-----------------------------------------------------------------------------
User(c) == \/ DeleteConfig(c)
           \/ \E l \in Lattices : CreateConfig(c, l) \/ EditLattice(c, l)

Wadm(l, a) == \/ \E m \in Manifest : Deploy(l, a, m)
              \/ Undeploy(l, a)
              \/ \E kind \in {"other", "garbled"} : PublishOther(l, kind, a)

Reconcile(c) ==
  \/ AddFinalizer(c) \/ BeginApply(c) \/ BeginCleanup(c)
  \/ GetConfig(c) \/ ListApps(c) \/ Watch(c) \/ EnterServices(c)
  \/ (\E a \in Apps : ReconcileApp(c, a)) \/ EndReconcile(c)
  \/ StopWatch(c) \/ RemoveFinalizer(c)

TaskStep(t) ==
  \/ \E l \in Lattices : \E m \in stream[l] : HandleEvent(t, m)
  \/ Ack(t) \/ Shutdown(t)

ExecStep ==
  \/ TakeCommand \/ NothingToDo
  \/ \E k \in Namespaces \X Apps : CreateOrUpdateService(k) \/ DeleteService(k)

Disturbance ==
  \/ \E c \in Configs : \/ ReconcileFails(c)
                        \/ \E a \in Apps : GetManifestFails(c, a)
  \/ \E t \in Tasks : \/ AckLost(t) \/ WatchEventsEnds(t)
                      \/ \E l \in Lattices : \E m \in stream[l] :
                           LateHandleEvent(t, m)
  \/ \E k \in Namespaces \X Apps : KubeFails(k)
  \/ Restart

Next ==
  \/ \E c \in Configs : User(c)
  \/ \E l \in Lattices, a \in Apps : Wadm(l, a)
  \/ \E c \in Configs : Reconcile(c)
  \/ \E t \in Tasks : TaskStep(t)
  \/ ExecStep
  \/ Disturbance

Spec == Init /\ [][Next]_vars

(***************************************************************************)
(* Users, wadm and disturbances owe nothing.  The controller requeues      *)
(* every config (after 5 minutes, or after 1 second on an error) and       *)
(* tokio's RwLock is fair, so a reconciliation that can act again and      *)
(* again does: strong fairness.  Tasks and the command loop are polled     *)
(* whenever they can go on: weak fairness.                                 *)
(***************************************************************************)
Fairness ==
  /\ \A c \in Configs : SF_vars(Reconcile(c))
  /\ \A t \in Tasks : WF_vars(TaskStep(t))
  /\ WF_vars(ExecStep)

FairSpec == Spec /\ Fairness
-----------------------------------------------------------------------------
(***************************************************************************)
(* Properties.                                                             *)
(***************************************************************************)
\* Every variable keeps the shape the code's types give it.
TypeOK ==
  /\ cfg \in [Configs -> Config]
  /\ rec \in [Configs -> Reconciliation]
  /\ watchers \in [Lattices -> Watcher]
  /\ tasks \in [Tasks -> Task]
  /\ stream \in [Lattices -> SUBSET Message]
  /\ deployed \in [Lattices -> [Apps -> Manifest \cup {None}]]
  /\ chan \in Seq(WatcherCommand)
  /\ exec \in [cmd: WatcherCommand \cup {NoCommand},
               todo: SUBSET (Namespaces \X Apps)]
  /\ services \in [Namespaces \X Apps -> Service]
  /\ lastSeq \in Nat
  /\ budget \in [user: Nat, disturb: Nat]
  /\ granted \subseteq Namespaces \X Lattices
  /\ revoked \subseteq Namespaces
  /\ published \subseteq Lattices \X Apps \X Ports
  /\ withdrawn \subseteq Lattices \X Apps

\* Every Service the operator wrote is justified: some host config of that
\* very namespace asked for the lattice, and wadm did deploy the application
\* with that port in that lattice.  Whatever is lost, repeated, reordered or
\* restarted between a config or an event and the Service, the operator never
\* mixes up namespaces, lattices, applications or ports.
Justified ==
  \A ns \in Namespaces, a \in Apps :
    LET s == services[<<ns, a>>]
    IN s.owner = "operator" => /\ <<ns, s.lattice>> \in granted
                               /\ <<s.lattice, a, s.port>> \in published

\* The whole machinery refines ServiceMirror: every change of a Service, after
\* any interleaving and any disturbance, is one the abstract specification has
\* grounds for.
Mirror == INSTANCE ServiceMirror WITH services <- services,
            granted <- granted, revoked <- revoked,
            published <- published, withdrawn <- withdrawn

\* Every write and every removal of a Service has a cause that happened: a
\* grant and a deployment behind each write, and, behind each removal, an
\* undeployment in a lattice of the namespace or the deletion of one of the
\* namespace's host configs; a redelivered, late or queued event or command
\* never touches a Service on no grounds (handle_event, the command loop).
MirrorsApplications == Mirror!Spec

\* stop_watch's comment: a lattice is watched for a namespace only while some
\* host config of that namespace, not yet gone, names that lattice.
WatcherNeeded ==
  \A l \in Lattices : \A ns \in watchers[l].namespaces :
    \E c \in Configs : /\ NsOf[c] = ns
                       /\ cfg[c].state # "absent"
                       /\ cfg[c].lattice = l

\* stop_watch's comment, the other way round: while a reconciled host config
\* that nobody is deleting names a lattice, that lattice is being watched.
WatchedWhileNeeded ==
  \A c \in Configs :
    (cfg[c].state = "live" /\ rec[c].pc \in {"enter", "services"})
      => NsOf[c] \in watchers[rec[c].lattice].namespaces

\* Once the last host config of a namespace is gone and the command loop has
\* run dry, no Service of the operator is left in the namespace.
Empty(ns) == \A a \in Apps : services[<<ns, a>>].owner # "operator"

CleanedUp(ns) ==
  (/\ chan = <<>> /\ exec = ExecIdle
   /\ \A c \in Configs : NsOf[c] = ns => cfg[c].state = "absent") => Empty(ns)

NoOrphans == \A ns \in Namespaces : CleanedUp(ns)

\* "The operator automatically creates Kubernetes Services": if from some
\* point on a host config stays and its lattice keeps an httpserver
\* application deployed on a port, its namespace comes to have, for good, a
\* Service of that name with that port, written for that lattice.
Served ==
  \A c \in Configs, l \in Lattices, a \in Apps, p \in Ports :
    <>[](cfg[c].state = "live" /\ cfg[c].lattice = l /\ deployed[l][a] = p)
      => <>[](\/ <<NsOf[c], a>> \in Foreign
              \/ /\ services[<<NsOf[c], a>>].owner = "operator"
                 /\ services[<<NsOf[c], a>>].port = p
                 /\ services[<<NsOf[c], a>>].lattice = l)

\* "update or remove services based on manifest deploy/undeploy events": an
\* application that stays undeployed ends up without a Service of its lattice,
\* as long as no host config is deleted (a task cancelled with an event unacked
\* has that event, however old, delivered again to the next one).
UndeployedRemoved ==
  \A l \in Lattices, a \in Apps :
    <>[](deployed[l][a] = None /\ revoked = {})
      => <>[](\A ns \in Namespaces :
                services[<<ns, a>>].owner = "operator"
                  => services[<<ns, a>>].lattice # l)

\* A deleted host config goes away: cleanup gets the write lock in the end,
\* whatever the other reconciliations do, and the finalizer is removed.
CleanupCompletes ==
  \A c \in Configs : cfg[c].state = "deleting" ~> cfg[c].state = "absent"
-----------------------------------------------------------------------------
(***************************************************************************)
(* The inductive invariant behind Justified and WatcherNeeded: where a     *)
(* namespace, a lattice or a port is held on its way from a host config or *)
(* an event to a Service, it is still one that was asked for or published. *)
(***************************************************************************)
Asked(nss, l) == \A ns \in nss : <<ns, l>> \in granted

JustifiedCommand(cmd) ==
  /\ cmd.kind = "UpsertService" =>
       /\ Asked(cmd.namespaces, cmd.lattice)
       /\ <<cmd.lattice, cmd.name, cmd.port>> \in published
  /\ cmd.kind = "RemoveService" =>
       \E l \in Lattices : /\ Asked(cmd.namespaces, l)
                           /\ <<l, cmd.name>> \in withdrawn
  /\ cmd.kind = "RemoveServices" => cmd.namespaces \subseteq revoked

ConfigInv ==
  \A c \in Configs :
    /\ cfg[c].state # "absent" => /\ cfg[c].lattice \in Lattices
                                  /\ <<NsOf[c], cfg[c].lattice>> \in granted
    /\ cfg[c].state = "deleting" => NsOf[c] \in revoked

\* The finalizer keeps a config whose reconciliation runs, and from GetConfig
\* or BeginCleanup on the reconciliation has a lattice.
RecInv ==
  \A c \in Configs :
    /\ rec[c].pc # "idle" => cfg[c].state # "absent" /\ cfg[c].fin
    /\ rec[c].pc \notin {"idle", "get"} =>
         /\ rec[c].lattice \in Lattices
         /\ <<NsOf[c], rec[c].lattice>> \in granted
    /\ rec[c].pc \in {"stop", "unfinalize"} => NsOf[c] \in revoked
    /\ \A a \in Apps : rec[c].apps[a] # None =>
         /\ rec[c].pc \notin {"idle", "get"}
         /\ rec[c].apps[a] \in Ports =>
              <<rec[c].lattice, a, rec[c].apps[a]>> \in published

WatcherInv ==
  /\ \A l \in Lattices : /\ Asked(watchers[l].namespaces, l)
                         /\ ~Registered(l) => watchers[l].namespaces = {}
  /\ \A t \in Tasks : tasks[t].st # "free" =>
       /\ tasks[t].lattice \in Lattices
       /\ Asked(tasks[t].namespaces, tasks[t].lattice)

StreamInv ==
  \A l \in Lattices :
    /\ \A a \in Apps : deployed[l][a] \in Ports =>
         <<l, a, deployed[l][a]>> \in published
    /\ \A m \in stream[l] : (m.kind = "published" /\ m.manifest \in Ports) =>
         <<l, m.name, m.manifest>> \in published
    /\ \A m \in stream[l] : m.kind = "unpublished" =>
         <<l, m.name>> \in withdrawn

CommandInv ==
  /\ \A i \in 1..Len(chan) : JustifiedCommand(chan[i])
  /\ JustifiedCommand(exec.cmd)
  /\ exec.cmd.kind \in {"UpsertService", "RemoveService"} =>
       exec.todo \subseteq exec.cmd.namespaces \X {exec.cmd.name}
  /\ exec.cmd.kind = "RemoveServices" =>
       exec.todo \subseteq {k \in exec.cmd.namespaces \X Apps :
                             services[k].owner = "operator"}

Inv == /\ TypeOK /\ ConfigInv /\ RecInv /\ WatcherInv /\ StreamInv
       /\ CommandInv /\ Justified

\* Without edits: a registration has a config with the finalizer on to undo it.
NoEdits == "edit" \notin Disturbances

RecCurrent ==
  \A c \in Configs :
    /\ rec[c].pc \notin {"idle", "get"} => rec[c].lattice = cfg[c].lattice
    /\ rec[c].pc \in {"stop", "unfinalize"} => cfg[c].state = "deleting"

WatcherHeld ==
  \A l \in Lattices : \A ns \in watchers[l].namespaces :
    \E c \in Configs : /\ NsOf[c] = ns /\ cfg[c].lattice = l
                       /\ cfg[c].state # "absent" /\ cfg[c].fin
                       /\ rec[c].pc # "unfinalize"

HeldInv == NoEdits => RecCurrent /\ WatcherHeld

(***************************************************************************)
(* The inductive invariant behind NoOrphans: a namespace no Watcher has is *)
(* clean, or a command that cleans it up is on its way, and nothing behind *)
(* that command writes a Service into it.                                  *)
(***************************************************************************)
\* No disturbance that by itself leaves Services behind.
Quiet == Disturbances \cap {"edit", "late", "kubeError", "restart"} = {}

\* The namespace shares none of its lattices with another one.
Private(ns) ==
  \A l \in Lattices, n \in Namespaces :
    (<<ns, l>> \in granted /\ <<n, l>> \in granted) => n = ns

\* A task that runs for a Watcher has the clone of that Watcher, which knows no
\* private namespace that the Watcher has let go.
CloneInv ==
  \A l \in Lattices : Registered(l) =>
    LET task == tasks[watchers[l].task]
    IN /\ task.st # "free" /\ task.lattice = l
       /\ \A ns \in task.namespaces :
            Private(ns) => ns \in watchers[l].namespaces

Writes(cmd, ns) == cmd.kind = "UpsertService" /\ ns \in cmd.namespaces
Clears(cmd, ns) == cmd.kind = "RemoveServices" /\ ns \in cmd.namespaces

ClearQueued(ns) ==
  \E i \in 1..Len(chan) :
    /\ Clears(chan[i], ns)
    /\ \A j \in (i + 1)..Len(chan) : ~Writes(chan[j], ns)

\* The command being executed has all that is left in its list.
Cleared(ns) ==
  /\ \A j \in 1..Len(chan) : ~Writes(chan[j], ns)
  /\ ~Writes(exec.cmd, ns)
  /\ \/ Empty(ns)
     \/ /\ Clears(exec.cmd, ns)
        /\ \A a \in Apps : services[<<ns, a>>].owner = "operator"
                             => <<ns, a>> \in exec.todo

Watched(ns) == \E l \in Lattices : ns \in watchers[l].namespaces

ClearInv ==
  \A ns \in Namespaces :
    (Private(ns) /\ ~Watched(ns)) => ClearQueued(ns) \/ Cleared(ns)

CleanupInv == Quiet => CloneInv /\ ClearInv
=============================================================================
