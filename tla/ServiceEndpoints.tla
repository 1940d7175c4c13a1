-------------------------- MODULE ServiceEndpoints --------------------------
(***************************************************************************)
(* What stands behind a Service (services.rs): how a manifest is searched  *)
(* for the address of an httpserver and for host labels, and how           *)
(* create_or_update_service and delete_service keep the Service and, where *)
(* it selects no pods, its EndpointSlice, request by request, while the    *)
(* pods of the hosts come, fail, go, and leave their IPs to others.        *)
(*                                                                         *)
(* One application in one namespace of one lattice.  Which commands reach  *)
(* the loop, and in which order, is ServiceSync's subject; here a command  *)
(* is sent when the event happens, and again whenever a config is          *)
(* reconciled.  What becomes of a Service with a selector is up to         *)
(* Kubernetes.                                                             *)
(***************************************************************************)
EXTENDS Naturals, SequencesExt

CONSTANTS
  Configs,      \* host configs of the namespace
  Lattices,     \* lattice ids
  Lattice,      \* the one whose application this is
  InitLattice,  \* the lattice each config names to begin with
  Pods,         \* names of pods
  ConfigOf,     \* the config whose host a pod runs
  InitIp,       \* the address of each pod that runs to begin with
  Ips,          \* addresses of pods
  Ports,        \* ports an address may name
  Labels,       \* host labels, each a key with its value
  Manifests,    \* the manifests of the application
  None,         \* "not there", wherever the code has an Option
  MaxUid,       \* bound: Services that are ever created
  MaxChan,      \* bound: commands that wait
  MaxDeploys,   \* bound: deployments and undeployments
  MaxPodSteps,  \* bound: steps in the lives of pods, edits of configs
  MaxFailures   \* bound: requests that fail, restarts, deletions by hand

ASSUME EndpointsAssumption ==
  /\ Lattice \in Lattices /\ InitLattice \in [Configs -> Lattices \cup {None}]
  /\ ConfigOf \in [Pods -> Configs] /\ InitIp \in [Pods -> Ips \cup {None}]
  /\ None \notin Configs \cup Lattices \cup Ips \cup Ports
  /\ {MaxUid, MaxChan, MaxDeploys, MaxPodSteps, MaxFailures} \subseteq Nat

VARIABLES
  deployed,  \* the deployed manifest
  cfg,       \* the lattice of each host config
  pods,      \* the pods of the namespace
  service,   \* the Service of the application's name
  slice,     \* the EndpointSlice of that name
  uids,      \* Services created so far
  chan,      \* commands that wait
  exec,      \* the command the loop executes
  budget,    \* deployments, steps of pods, failures still allowed
  asked,     \* history: manifests ever deployed
  named,     \* history: configs that ever named the application's lattice
  hosted     \* history: (config, address) pairs of pods that ever ran

vars == <<deployed, cfg, pods, service, slice, uids, chan, exec, budget, asked,
          named, hosted>>
-----------------------------------------------------------------------------
(***************************************************************************)
(* Manifests.  A manifest is a sequence of components; a component says    *)
(* whether its image is the http-server's, and its traits in order.  What  *)
(* the properties of a trait decode as does not depend on the trait's      *)
(* type: links are tried first, then scalers.                              *)
(***************************************************************************)
Trait == [type : {"link", "daemonscaler", "spreadscaler"},
          decodes : {"link", "scaler"}, http : BOOLEAN,
          addresses : Seq(Ports \cup {None}), labels : SUBSET Labels]

Component == [httpServer : BOOLEAN, traits : Seq(Trait)]

ASSUME ManifestsAssumption == Manifests \subseteq Seq(Component)

\* The first trait of a type, if there is one.
FirstTrait(c, type) ==
  {c.traits[i] : i \in {j \in DOMAIN c.traits :
     c.traits[j].type = type /\ \A k \in 1..(j - 1) : c.traits[k].type # type}}

\* The ports of the addresses in the configuration of a link's source, if it is
\* wasi:http/incoming-handler; None for one that is no address with a port.
Addresses(t) == IF t.decodes = "link" /\ t.http THEN t.addresses ELSE <<>>

\* What the components at some places ask for: the last address of their first
\* links, and the requirements of those that are really scalers.
Details(m, places) ==
  LET links(i) == FirstTrait(m[i], "link")
      found == UNION {{<<i, t>> : t \in {u \in links(i) : Addresses(u) # <<>>}} :
                        i \in places}
      last == {f \in found : \A g \in found : g[1] <= f[1]}
      labels == UNION {t.labels :
        t \in {u \in UNION {links(j) : j \in places} : u.decodes = "scaler"}}
  IN IF last = {} \/ \A i \in places : FirstTrait(m[i], "daemonscaler") = {}
     THEN None
     ELSE [address |-> Last(Addresses((CHOOSE f \in last : TRUE)[2])),
           labels |-> IF labels = {} THEN None ELSE labels]

\* Mutant: looks at all components.
HttpServerOfAny(m) == Details(m, DOMAIN m)

\* http_server_component: only the components with the http-server's image count.
HttpServerComponent(m) == Details(m, {i \in DOMAIN m : m[i].httpServer})

\* Mutant: sends what does not parse, too.
PublishedUnparsed(m) ==
  LET server == HttpServerComponent(m)
  IN IF server = None THEN <<>>
     ELSE <<[kind |-> "UpsertService", port |-> server.address,
             labels |-> server.labels]>>

\* handle_manifest_published: the command it sends, if any.
Published(m) ==
  LET server == HttpServerComponent(m)
  IN IF server = None \/ server.address = None THEN <<>>
     ELSE <<[kind |-> "UpsertService", port |-> server.address,
             labels |-> server.labels]>>

Upserts == [m \in Manifests |-> Published(m)]

RemoveService == [kind |-> "RemoveService"]
-----------------------------------------------------------------------------
(***************************************************************************)
(* State.                                                                  *)
(***************************************************************************)
Selector == {None} \cup SUBSET Labels

Command == [kind : {"UpsertService"}, port : Ports, labels : Selector]
             \cup {RemoveService}

Pod == [phase : {"absent", "Pending", "Running", "Failed"}, ip : Ips \cup {None}]

Service == [uid : Nat, port : Ports, labels : Selector, finalizer : BOOLEAN,
            terminating : BOOLEAN]

EndpointSlice == [owner : Nat, addresses : SUBSET Ips, port : Ports]

\* cmd: the command; uid: the Service as the patch returned it; configs: host
\* configs whose pods are not listed yet; ips: the addresses found; svc: the
\* Service as delete_service has read it.
Idle == [pc |-> "idle", cmd |-> None, uid |-> 0, configs |-> {}, ips |-> {},
         svc |-> None]

Init ==
  /\ deployed = None
  /\ cfg = InitLattice
  /\ pods = [p \in Pods |->
               [phase |-> IF InitIp[p] = None THEN "absent" ELSE "Running",
                ip |-> InitIp[p]]]
  /\ service = None /\ slice = None /\ uids = 0
  /\ chan = <<>> /\ exec = Idle
  /\ budget = [deploys |-> MaxDeploys, podSteps |-> MaxPodSteps,
               failures |-> MaxFailures]
  /\ asked = {}
  /\ named = {c \in Configs : cfg[c] = Lattice}
  /\ hosted = {<<ConfigOf[p], InitIp[p]>> : p \in {q \in Pods : InitIp[q] # None}}

Spend(what) == /\ budget[what] > 0
               /\ budget' = [budget EXCEPT ![what] = @ - 1]

Cluster == <<cfg, pods, named, hosted>>
Objects == <<service, slice, uids>>

\* The addresses of the lattice's hosts.
HostIps == {pods[p].ip : p \in {q \in Pods :
              pods[q].phase = "Running" /\ cfg[ConfigOf[q]] = Lattice}}
-----------------------------------------------------------------------------
(***************************************************************************)
(* Events, and the reconciliations that send the command again.            *)
(***************************************************************************)
Deploy(m) ==
  /\ Len(chan) < MaxChan
  /\ Spend("deploys")
  /\ deployed' = m
  /\ asked' = asked \cup {m}
  /\ chan' = chan \o Upserts[m]
  /\ UNCHANGED <<Cluster, Objects, exec>>

Undeploy ==
  /\ deployed # None /\ Len(chan) < MaxChan
  /\ Spend("deploys")
  /\ deployed' = None
  /\ chan' = Append(chan, RemoveService)
  /\ UNCHANGED <<Cluster, Objects, exec, asked>>

\* reconcile_services, of a config with the lattice; while a command waits, another
\* adds nothing.
Reconcile ==
  /\ deployed # None /\ chan = <<>>
  /\ \E c \in Configs : cfg[c] = Lattice
  /\ Upserts[deployed] # <<>>
  /\ chan' = Upserts[deployed]
  /\ UNCHANGED <<deployed, Cluster, Objects, exec, budget, asked>>

\* Pods.  An address is free once its pod has failed, though the status of the
\* failed pod keeps it.
PodStep ==
  /\ Spend("podSteps")
  /\ \E p \in Pods :
       \/ /\ pods[p].phase = "absent"
          /\ \E ip \in Ips :
               /\ \A q \in Pods : pods[q].ip = ip => pods[q].phase = "Failed"
               /\ pods' = [pods EXCEPT ![p] = [phase |-> "Pending", ip |-> ip]]
          /\ UNCHANGED hosted
       \/ /\ pods[p].phase = "Pending"
          /\ pods' = [pods EXCEPT ![p].phase = "Running"]
          /\ hosted' = hosted \cup {<<ConfigOf[p], pods[p].ip>>}
       \/ /\ pods[p].phase \in {"Pending", "Running"}
          /\ pods' = [pods EXCEPT ![p].phase = "Failed"]
          /\ UNCHANGED hosted
       \/ /\ pods[p].phase # "absent"
          /\ pods' = [pods EXCEPT ![p] = [phase |-> "absent", ip |-> None]]
          /\ UNCHANGED hosted
  /\ UNCHANGED <<deployed, cfg, Objects, chan, exec, asked, named>>

EditConfig(c, l) ==
  /\ cfg[c] # l
  /\ Spend("podSteps")
  /\ cfg' = [cfg EXCEPT ![c] = l]
  /\ named' = IF l = Lattice THEN named \cup {c} ELSE named
  /\ UNCHANGED <<deployed, pods, Objects, chan, exec, asked, hosted>>

\* Somebody deletes the Service: while it has the finalizer, it stays.
DeleteByHand ==
  /\ service # None
  /\ Spend("failures")
  /\ service' = IF service.finalizer THEN [service EXCEPT !.terminating = TRUE]
                                     ELSE None
  /\ UNCHANGED <<deployed, Cluster, slice, uids, chan, exec, asked>>

\* Kubernetes removes what belongs to an object that is gone.
CollectGarbage ==
  /\ slice # None /\ slice.owner # 0
  /\ ~(service # None /\ service.uid = slice.owner)
  /\ slice' = None
  /\ UNCHANGED <<deployed, Cluster, service, uids, chan, exec, budget, asked>>
-----------------------------------------------------------------------------
(***************************************************************************)
(* The command loop.                                                       *)
(***************************************************************************)
TakeCommand ==
  /\ exec.pc = "idle" /\ chan # <<>>
  /\ chan' = Tail(chan)
  /\ exec' = [Idle EXCEPT !.cmd = Head(chan),
                !.pc = IF Head(chan) = RemoveService THEN "get" ELSE "service"]
  /\ UNCHANGED <<deployed, Cluster, Objects, budget, asked>>

\* The Service is applied, be it on its way out; a selector spares it the
\* EndpointSlice.
ApplyService ==
  LET uid == IF service = None THEN uids + 1 ELSE service.uid
  IN /\ exec.pc = "service"
     /\ uid <= MaxUid
     /\ service' = [uid |-> uid, port |-> exec.cmd.port,
                    labels |-> exec.cmd.labels, finalizer |-> TRUE,
                    terminating |-> service # None /\ service.terminating]
     /\ uids' = IF service = None THEN uid ELSE uids
     /\ exec' = IF exec.cmd.labels = None
                THEN [exec EXCEPT !.pc = "configs", !.uid = uid] ELSE Idle
     /\ UNCHANGED <<deployed, Cluster, slice, chan, budget, asked>>

ListConfigs ==
  /\ exec.pc = "configs"
  /\ exec' = [exec EXCEPT !.pc = "pods",
                          !.configs = {c \in Configs : cfg[c] = Lattice}]
  /\ UNCHANGED <<deployed, Cluster, Objects, chan, budget, asked>>

\* Mutant: pods whatever their phase.
ListAnyPods(c) ==
  /\ exec.pc = "pods" /\ c \in exec.configs
  /\ exec' = [exec EXCEPT !.configs = @ \ {c},
       !.ips = @ \cup {pods[p].ip : p \in {q \in Pods :
                  ConfigOf[q] = c /\ pods[q].phase # "absent"}}]
  /\ UNCHANGED <<deployed, Cluster, Objects, chan, budget, asked>>

\* The addresses of a config's Running pods.
ListPods(c) ==
  /\ exec.pc = "pods" /\ c \in exec.configs
  /\ exec' = [exec EXCEPT !.configs = @ \ {c},
       !.ips = @ \cup {pods[p].ip : p \in {q \in Pods :
                  ConfigOf[q] = c /\ pods[q].phase = "Running"}}]
  /\ UNCHANGED <<deployed, Cluster, Objects, chan, budget, asked>>

\* Mutants: without an owner, adding to the addresses of the last time, and
\* without addresses.
ApplySliceUnowned ==
  /\ exec.pc = "pods" /\ exec.configs = {}
  /\ slice' = IF exec.ips = {} THEN slice
              ELSE [owner |-> 0, addresses |-> exec.ips, port |-> exec.cmd.port]
  /\ exec' = Idle
  /\ UNCHANGED <<deployed, Cluster, service, uids, chan, budget, asked>>

ApplySliceAdding ==
  LET old == IF slice = None THEN {} ELSE slice.addresses
  IN /\ exec.pc = "pods" /\ exec.configs = {}
     /\ slice' = IF exec.ips = {} THEN slice
                 ELSE [owner |-> exec.uid, addresses |-> old \cup exec.ips,
                       port |-> exec.cmd.port]
     /\ exec' = Idle
     /\ UNCHANGED <<deployed, Cluster, service, uids, chan, budget, asked>>

ApplySliceEmpty ==
  /\ exec.pc = "pods" /\ exec.configs = {}
  /\ slice' = [owner |-> exec.uid, addresses |-> exec.ips, port |-> exec.cmd.port]
  /\ exec' = Idle
  /\ UNCHANGED <<deployed, Cluster, service, uids, chan, budget, asked>>

\* With no address the EndpointSlice stays as it is.
ApplySlice ==
  /\ exec.pc = "pods" /\ exec.configs = {}
  /\ slice' = IF exec.ips = {} THEN slice
              ELSE [owner |-> exec.uid, addresses |-> exec.ips,
                    port |-> exec.cmd.port]
  /\ exec' = Idle
  /\ UNCHANGED <<deployed, Cluster, service, uids, chan, budget, asked>>

\* delete_service: get, take the finalizer away, delete.  Any error ends it.
GetService ==
  /\ exec.pc = "get"
  /\ exec' = IF service = None THEN Idle
             ELSE [exec EXCEPT !.pc = "finalizer", !.svc = service]
  /\ UNCHANGED <<deployed, Cluster, Objects, chan, budget, asked>>

\* What is applied is what was read, with its resource version: any change in
\* between is a conflict.  A Service on its way out is gone with its finalizer.
RemoveFinalizer ==
  /\ exec.pc = "finalizer"
  /\ IF service # exec.svc THEN exec' = Idle /\ UNCHANGED service
     ELSE /\ service' = IF service.terminating THEN None
                        ELSE [service EXCEPT !.finalizer = FALSE]
          /\ exec' = [exec EXCEPT !.pc = "delete", !.svc = None]
  /\ UNCHANGED <<deployed, Cluster, slice, uids, chan, budget, asked>>

DeleteService ==
  /\ exec.pc = "delete"
  /\ service' = None
  /\ exec' = Idle
  /\ UNCHANGED <<deployed, Cluster, slice, uids, chan, budget, asked>>

\* A request fails: the command is given up, whatever it has done so far.
Fails ==
  /\ exec.pc # "idle"
  /\ Spend("failures")
  /\ exec' = Idle
  /\ UNCHANGED <<deployed, Cluster, Objects, chan, asked>>

\* The operator restarts.
Restart ==
  /\ Spend("failures")
  /\ chan' = <<>> /\ exec' = Idle
  /\ UNCHANGED <<deployed, Cluster, Objects, asked>>
-----------------------------------------------------------------------------
Execute ==
  \/ TakeCommand \/ ApplyService \/ ListConfigs
  \/ (\E c \in Configs : ListPods(c))
  \/ ApplySlice \/ GetService \/ RemoveFinalizer \/ DeleteService

Next ==
  \/ (\E m \in Manifests : Deploy(m)) \/ Undeploy \/ Reconcile
  \/ PodStep
  \/ \E c \in Configs, l \in Lattices \cup {None} : EditConfig(c, l)
  \/ DeleteByHand \/ CollectGarbage \/ Execute \/ Fails \/ Restart

Spec == Init /\ [][Next]_vars

\* The loop runs, configs are reconciled again and again, and the garbage
\* collector of Kubernetes works.
Fairness ==
  WF_vars(Execute) /\ WF_vars(Reconcile) /\ WF_vars(CollectGarbage)

FairSpec == Spec /\ Fairness
-----------------------------------------------------------------------------
(***************************************************************************)
(* Properties.                                                             *)
(***************************************************************************)
\* Every variable keeps the shape the code's types give it.
TypeOK ==
  /\ deployed \in Manifests \cup {None}
  /\ cfg \in [Configs -> Lattices \cup {None}]
  /\ pods \in [Pods -> Pod]
  /\ service \in Service \cup {None}
  /\ slice \in EndpointSlice \cup {None}
  /\ uids \in Nat
  /\ chan \in Seq(Command)
  /\ exec \in [pc : {"idle", "service", "configs", "pods", "get", "finalizer",
                     "delete"},
               cmd : Command \cup {None}, uid : Nat, configs : SUBSET Configs,
               ips : SUBSET Ips, svc : Service \cup {None}]
  /\ budget \in [deploys : Nat, podSteps : Nat, failures : Nat]
  /\ asked \subseteq Manifests
  /\ named \subseteq Configs /\ hosted \subseteq Configs \X Ips

\* A host has run there, of a config that has named the lattice.
Hosted(ip) == \E c \in named : <<c, ip>> \in hosted

\* However configs and pods change between the requests that list them, the
\* EndpointSlice only ever sends traffic to addresses at which a host has run, and
\* of a config that has named the application's lattice: never to one of a pod
\* that did not get to run, or of a config that has always been another lattice's.
AddressesHosted == slice # None => \A ip \in slice.addresses : Hosted(ip)

\* What a Service needs: an httpserver with a daemonscaler, and one with a link
\* over http that names the port.
Declares(m, port) ==
  LET servers == {i \in DOMAIN m : m[i].httpServer}
  IN /\ \E i \in servers : \E t \in ToSet(m[i].traits) : t.type = "daemonscaler"
     /\ \E i \in servers : \E t \in ToSet(m[i].traits) :
          t.type = "link" /\ port \in ToSet(Addresses(t))

Declarations == [m \in Manifests |-> {p \in Ports : Declares(m, p)}]

Declared == UNION {Declarations[m] : m \in asked}

\* Only an application that has an httpserver with a daemonscaler gets a Service,
\* and the port is one that a wasi:http link of an httpserver names: first links
\* and last addresses, in whatever order the manifest has them, do not pick an
\* address of something else.
PortDeclared == service # None => service.port \in Declared

\* ServiceEndpoints implements ServiceTraffic: the ports and addresses it may
\* use are those of the manifests deployed and of the hosts that ran.
Traffic == INSTANCE ServiceTraffic WITH
  Selectors <- Selector, declared <- Declared,
  hosted <- {ip \in Ips : Hosted(ip)}

\* Whatever fails, restarts, is deleted by hand or changes between the requests
\* of a command: a deleted Service is never brought back by a patch of what was
\* read before, the one that is there never loses its EndpointSlice or all of
\* its addresses, none is without an owner, and what is written has its grounds
\* (create_or_update_service, delete_service).
KeepsTraffic == Traffic!Spec

\* "make sure that the endpoints are up to date" never depends on one command:
\* once an application without host labels stays deployed and the hosts stay as
\* they are, one of them running at least, the EndpointSlice comes to have
\* exactly their addresses, and the port of the Service, whatever was stale,
\* failed, deleted by hand or lost before.
Steady == [][FALSE]_<<deployed, cfg, pods>>

Wanted == /\ deployed # None /\ HostIps # {}
          /\ \E p \in Ports :
               Upserts[deployed] = <<[kind |-> "UpsertService", port |-> p,
                                        labels |-> None]>>

Current ==
  /\ service # None /\ slice # None
  /\ slice.owner = service.uid /\ slice.port = service.port
  /\ Wanted => service.port = Upserts[deployed][1].port
  /\ slice.addresses = HostIps

EndpointsCurrent == (<>Steady /\ <>[]Wanted) => <>[]Current

\* An EndpointSlice goes with its Service: once there is none for good, traffic
\* is sent nowhere.
SliceFollows == <>[](service = None) => <>[](slice = None)
-----------------------------------------------------------------------------
(***************************************************************************)
(* The inductive invariant behind AddressesHosted and PortDeclared: what   *)
(* waits in the channel or has been read by the command under way has the  *)
(* same grounds as what it becomes.                                        *)
(***************************************************************************)
JustifiedCommand(cmd) == cmd.kind = "UpsertService" => cmd.port \in Declared

CommandInv ==
  /\ deployed # None => deployed \in asked
  /\ \A i \in 1..Len(chan) : JustifiedCommand(chan[i])

\* How far a command is says what it has.
PhaseInv ==
  /\ exec.pc \in {"service", "configs", "pods"} =>
       /\ exec.cmd \in Command /\ exec.cmd.kind = "UpsertService"
       /\ exec.cmd.port \in Declared
  /\ exec.pc = "finalizer" => exec.svc # None
  /\ exec.pc = "delete" => service = None \/ ~service.finalizer

\* Running pods, and what has been read of them, are in the histories.
HostInv ==
  /\ \A p \in Pods : /\ pods[p].phase # "absent" => pods[p].ip \in Ips
                     /\ pods[p].phase = "Running" =>
                          <<ConfigOf[p], pods[p].ip>> \in hosted
  /\ \A c \in Configs : cfg[c] = Lattice => c \in named
  /\ exec.configs \subseteq named
  /\ \A ip \in exec.ips : Hosted(ip)

\* Owners are Services that have been created.
OwnerInv ==
  /\ service # None => service.uid \in 1..uids
  /\ exec.pc \in {"configs", "pods"} => exec.uid \in 1..uids
  /\ slice # None => slice.owner \in 1..uids

Inv == /\ TypeOK /\ CommandInv /\ PhaseInv /\ HostInv /\ OwnerInv
       /\ AddressesHosted /\ PortDeclared
=============================================================================
