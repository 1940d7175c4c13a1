-------------------------- MODULE HostProvisioning --------------------------
(***************************************************************************)
(* How reconcile_crd (controller.rs) turns a WasmCloudHostConfig into the  *)
(* objects that run its hosts: read the Secrets it names, cache the NATS   *)
(* credentials, apply the ConfigMap, the ServiceAccount with its Role and  *)
(* RoleBinding, the Deployment or DaemonSet and the Service, one API call  *)
(* after the other, then report the lattice's applications and connect.    *)
(* What comes after that is in ServiceSync.                                *)
(*                                                                         *)
(* Every call may fail, Secrets and configs change between two calls, and  *)
(* a config may be deleted and created again under its name: the objects   *)
(* of the old one (its uid) go when the garbage collector gets to them.    *)
(***************************************************************************)
EXTENDS Naturals

CONSTANTS
  Configs,      \* WasmCloudHostConfig names, each in its namespace
  Secrets,      \* names of Secrets
  Creds,        \* NATS credentials
  Malformed,    \* the ones among them that ConnectOptions cannot parse
  None,         \* "not there", wherever the code has an Option
  Specs,        \* the specs users choose from
  Contents,     \* the contents users give Secrets
  MaxUid,       \* bound: how often a config is created
  MaxUserOps,   \* bound: edits of configs and Secrets
  MaxFailures   \* bound: API errors and restarts

Kinds == {"ConfigMap", "ServiceAccount", "Role", "RoleBinding", "Deployment",
          "DaemonSet", "Service"}

Prerequisites == {"ConfigMap", "ServiceAccount", "Role", "RoleBinding"}

\* What of a spec decides which Secrets are read and what is applied.
HostSpec == [secret: Secrets \cup {None}, registry: Secrets \cup {None},
          authority: Secrets \cup {None}, daemonset: BOOLEAN]

\* What a Secret's data is good for: a nats.creds key, the registries of a
\* .dockerconfigjson key ("bad": no such key or not its format), .crt keys.
\* The data itself is optional too.
Content == [data: BOOLEAN, creds: Creds \cup {None},
            auths: {"bad", "none", "one", "many"}, crt: BOOLEAN]

ASSUME ProvisioningAssumption ==
  /\ None \notin Creds \cup Secrets /\ Malformed \subseteq Creds
  /\ Specs \subseteq HostSpec /\ Contents \subseteq Content /\ None \notin Content
  /\ MaxUid \in Nat /\ MaxUserOps \in Nat /\ MaxFailures \in Nat

VARIABLES
  cfg,       \* host configs as the Kubernetes API stores them
  objs,      \* the objects named after each config, by kind
  secrets,   \* the Secrets
  cache,     \* Context.nats_creds
  rec,       \* the running reconciliation of each config
  budget,    \* user changes and failures still allowed
  history    \* history: every (Secret, content) there ever was

vars == <<cfg, objs, secrets, cache, rec, budget, history>>
-----------------------------------------------------------------------------
NoSpec == [secret |-> None, registry |-> None, authority |-> None,
           daemonset |-> FALSE]

\* reported: the status subresource lists the lattice's applications.
Config == [state: {"absent", "live", "deleting"}, fin: BOOLEAN, uid: Nat,
           spec: HostSpec, reported: BOOLEAN]

NoConfig(uid) == [state |-> "absent", fin |-> FALSE, uid |-> uid,
                  spec |-> NoSpec, reported |-> FALSE]

\* owner is the uid of the owner reference (0: none); credentials is what the ConfigMap's
\* nats.conf says, the rest is what the pods mount or get in their environment.
Object == [owner: Nat, credentials: BOOLEAN, secret: Secrets \cup {None},
           registry: Secrets \cup {None}, authority: Secrets \cup {None}]

ASSUME ObjectAssumption == None \notin Object

Bare(uid) == [owner |-> uid, credentials |-> FALSE, secret |-> None,
              registry |-> None, authority |-> None]

Phase == {"idle", "get", "secret", "store", "ConfigMap", "ServiceAccount",
          "Role", "RoleBinding", "registry", "authority", "hosts", "Service",
          "list", "status", "connect", "cleanup", "unfinalize"}

Reconciliation == [pc: Phase, uid: Nat, spec: HostSpec, creds: Creds \cup {None},
                   authority: Secrets \cup {None}]

Idle == [pc |-> "idle", uid |-> 0, spec |-> NoSpec, creds |-> None,
         authority |-> None]

Goto(c, pc) == rec' = [rec EXCEPT ![c].pc = pc]
Finish(c) == rec' = [rec EXCEPT ![c] = Idle]

UserChange == /\ budget.user > 0
              /\ budget' = [budget EXCEPT !.user = @ - 1]

Failure == /\ budget.fail > 0
           /\ budget' = [budget EXCEPT !.fail = @ - 1]

Init ==
  /\ cfg = [c \in Configs |-> NoConfig(0)]
  /\ objs = [c \in Configs |-> [k \in Kinds |-> None]]
  /\ secrets = [s \in Secrets |-> None]
  /\ cache = [c \in Configs |-> None]
  /\ rec = [c \in Configs |-> Idle]
  /\ budget = [user |-> MaxUserOps, fail |-> MaxFailures]
  /\ history = {}
-----------------------------------------------------------------------------
(***************************************************************************)
(* Users and the garbage collector.                                        *)
(***************************************************************************)
CreateConfig(c, spec) ==
  /\ cfg[c].state = "absent" /\ cfg[c].uid < MaxUid
  /\ cfg' = [cfg EXCEPT ![c] = [state |-> "live", fin |-> FALSE,
               uid |-> @.uid + 1, spec |-> spec, reported |-> FALSE]]
  /\ UNCHANGED <<objs, secrets, cache, rec, budget, history>>

EditConfig(c, spec) ==
  /\ cfg[c].state # "absent" /\ cfg[c].spec # spec
  /\ UserChange
  /\ cfg' = [cfg EXCEPT ![c].spec = spec]
  /\ UNCHANGED <<objs, secrets, cache, rec, history>>

DeleteConfig(c) ==
  /\ cfg[c].state = "live"
  /\ cfg' = [cfg EXCEPT ![c] = IF @.fin THEN [@ EXCEPT !.state = "deleting"]
                                        ELSE NoConfig(@.uid)]
  /\ UNCHANGED <<objs, secrets, cache, rec, budget, history>>

WriteSecret(s, d) ==
  /\ secrets[s] # d
  /\ UserChange
  /\ secrets' = [secrets EXCEPT ![s] = d]
  /\ history' = history \cup {<<s, d>>}
  /\ UNCHANGED <<cfg, objs, cache, rec>>

DeleteSecret(s) ==
  /\ secrets[s] # None
  /\ UserChange
  /\ secrets' = [secrets EXCEPT ![s] = None]
  /\ UNCHANGED <<cfg, objs, cache, rec, history>>

Current(c, k) == objs[c][k] # None /\ objs[c][k].owner = cfg[c].uid
                                   /\ cfg[c].state # "absent"

\* An object whose owner is gone goes, some time.
CollectGarbage(c, k) ==
  /\ objs[c][k] # None /\ objs[c][k].owner # 0 /\ ~Current(c, k)
  /\ objs' = [objs EXCEPT ![c][k] = None]
  /\ UNCHANGED <<cfg, secrets, cache, rec, budget, history>>
-----------------------------------------------------------------------------
(***************************************************************************)
(* Reconciliation, inside kube's finalizer helper.                         *)
(***************************************************************************)
AddFinalizer(c) ==
  /\ rec[c].pc = "idle" /\ cfg[c].state = "live" /\ ~cfg[c].fin
  /\ cfg' = [cfg EXCEPT ![c].fin = TRUE]
  /\ UNCHANGED <<objs, secrets, cache, rec, budget, history>>

\* Mutant: reconciles a config that has no finalizer yet.
BeginApplyUnguarded(c) ==
  /\ rec[c].pc = "idle" /\ cfg[c].state = "live"
  /\ Goto(c, "get")
  /\ UNCHANGED <<cfg, objs, secrets, cache, budget, history>>

BeginApply(c) ==
  /\ rec[c].pc = "idle" /\ cfg[c].state = "live" /\ cfg[c].fin
  /\ Goto(c, "get")
  /\ UNCHANGED <<cfg, objs, secrets, cache, budget, history>>

GetConfig(c) ==
  /\ rec[c].pc = "get"
  /\ rec' = [rec EXCEPT ![c].pc = "secret", ![c].uid = cfg[c].uid,
                        ![c].spec = cfg[c].spec]
  /\ UNCHANGED <<cfg, objs, secrets, cache, budget, history>>

\* A Secret is there and has data.
Usable(s) == secrets[s] # None /\ secrets[s].data

\* Secrets::from_k8s_secret: without a usable Secret the reconciliation ends.
ReadSecret(c) ==
  LET s == rec[c].spec.secret
  IN /\ rec[c].pc = "secret"
     /\ \/ s = None /\ Goto(c, "ConfigMap")
        \/ s # None /\ ~Usable(s) /\ Finish(c)
        \/ /\ s # None /\ Usable(s)
           /\ rec' = [rec EXCEPT ![c].creds = secrets[s].creds,
                ![c].pc = IF secrets[s].creds = None THEN "ConfigMap" ELSE "store"]
     /\ UNCHANGED <<cfg, objs, secrets, cache, budget, history>>

\* Mutant: caches the name of the Secret, a String as well.
StoreSecretName(c) ==
  /\ rec[c].pc = "store"
  /\ cache' = [cache EXCEPT ![c] = rec[c].spec.secret]
  /\ Goto(c, "ConfigMap")
  /\ UNCHANGED <<cfg, objs, secrets, budget, history>>

\* Mutant: entry(nst).or_insert(..).
StoreNatsCredsOnce(c) ==
  /\ rec[c].pc = "store"
  /\ cache' = [cache EXCEPT ![c] = IF @ = None THEN rec[c].creds ELSE @]
  /\ Goto(c, "ConfigMap")
  /\ UNCHANGED <<cfg, objs, secrets, budget, history>>

StoreNatsCreds(c) ==
  /\ rec[c].pc = "store"
  /\ cache' = [cache EXCEPT ![c] = rec[c].creds]
  /\ Goto(c, "ConfigMap")
  /\ UNCHANGED <<cfg, objs, secrets, budget, history>>

\* Server-side apply: the object now has exactly what the operator says,
\* the owner reference included.
Apply(c, kind, obj, next) ==
  /\ objs' = [objs EXCEPT ![c][kind] = obj]
  /\ Goto(c, next)
  /\ UNCHANGED <<cfg, secrets, cache, budget, history>>

ConfigureConfigMap(c) ==
  /\ rec[c].pc = "ConfigMap"
  /\ Apply(c, "ConfigMap",
           [Bare(rec[c].uid) EXCEPT !.credentials = rec[c].creds # None],
           "ServiceAccount")

\* Mutant: leaves a service account that is already there alone.
ConfigureAuthOnce(c) ==
  \/ /\ rec[c].pc = "ServiceAccount" /\ objs[c]["ServiceAccount"] # None
     /\ Goto(c, "Role")
     /\ UNCHANGED <<cfg, objs, secrets, cache, budget, history>>
  \/ /\ rec[c].pc = "ServiceAccount" /\ objs[c]["ServiceAccount"] = None
     /\ Apply(c, "ServiceAccount", Bare(rec[c].uid), "Role")
  \/ /\ rec[c].pc = "Role"
     /\ Apply(c, "Role", Bare(rec[c].uid), "RoleBinding")
  \/ /\ rec[c].pc = "RoleBinding"
     /\ Apply(c, "RoleBinding", Bare(rec[c].uid), "registry")

ConfigureAuth(c) ==
  \/ /\ rec[c].pc = "ServiceAccount"
     /\ Apply(c, "ServiceAccount", Bare(rec[c].uid), "Role")
  \/ /\ rec[c].pc = "Role"
     /\ Apply(c, "Role", Bare(rec[c].uid), "RoleBinding")
  \/ /\ rec[c].pc = "RoleBinding"
     /\ Apply(c, "RoleBinding", Bare(rec[c].uid), "registry")

\* A panic in a reconciliation takes the operator down; its pod is restarted.
LoseMemory ==
  /\ rec' = [d \in Configs |-> Idle]
  /\ cache' = [d \in Configs |-> None]

\* DockerConfigJson::from_secret, "bad" if that is an error.
Registries(s) == IF Usable(s) THEN secrets[s].auths ELSE "bad"

\* Mutant: without the check for more than one registry.
ReadFirstRegistry(c) ==
  LET s == rec[c].spec.registry
  IN /\ rec[c].pc = "registry"
     /\ \/ s = None /\ Goto(c, "authority") /\ UNCHANGED cache
        \/ /\ s # None /\ Registries(s) \in {"one", "many"}
           /\ Goto(c, "authority") /\ UNCHANGED cache
        \/ s # None /\ Registries(s) = "bad" /\ Finish(c) /\ UNCHANGED cache
        \/ s # None /\ Registries(s) = "none" /\ LoseMemory
     /\ UNCHANGED <<cfg, objs, secrets, budget, history>>

\* configure_hosts, first part: the registry's user and password.  No registry
\* at all is the unwrap of a None.
ReadRegistry(c) ==
  LET s == rec[c].spec.registry
  IN /\ rec[c].pc = "registry"
     /\ \/ s = None /\ Goto(c, "authority") /\ UNCHANGED cache
        \/ /\ s # None /\ Registries(s) = "one"
           /\ Goto(c, "authority") /\ UNCHANGED cache
        \/ /\ s # None /\ Registries(s) \in {"bad", "many"}
           /\ Finish(c) /\ UNCHANGED cache
        \/ s # None /\ Registries(s) = "none" /\ LoseMemory
     /\ UNCHANGED <<cfg, objs, secrets, budget, history>>

\* pod_template: the Secret (or ConfigMap) of a certificate authority is mounted
\* if it has certificates; there need not be data in it.
DiscoverCertificates(c) ==
  LET s == rec[c].spec.authority
  IN /\ rec[c].pc = "authority"
     /\ \/ s = None /\ Goto(c, "hosts")
        \/ s # None /\ secrets[s] = None /\ Finish(c)
        \/ /\ s # None /\ secrets[s] # None
           /\ rec' = [rec EXCEPT ![c].pc = "hosts",
                        ![c].authority = IF secrets[s].data /\ secrets[s].crt THEN s ELSE None]
     /\ UNCHANGED <<cfg, objs, secrets, cache, budget, history>>

Hosts(c) == [Bare(rec[c].uid) EXCEPT !.secret = rec[c].spec.secret,
                                     !.registry = rec[c].spec.registry,
                                     !.authority = rec[c].authority]

\* Mutant: creates the Deployment or DaemonSet, never updates it.
ConfigureHostsOnce(c) ==
  LET k == IF rec[c].spec.daemonset THEN "DaemonSet" ELSE "Deployment"
  IN /\ rec[c].pc = "hosts"
     /\ Apply(c, k, IF Current(c, k) THEN objs[c][k] ELSE Hosts(c), "Service")

\* Mutant: takes the old Deployment's owner references off instead of leaving
\* it to its owner, when the config switches to a DaemonSet.
ConfigureHostsDisowns(c) ==
  LET new == [objs[c] EXCEPT !["DaemonSet"] = Hosts(c),
                !["Deployment"] = IF @ = None THEN @ ELSE [@ EXCEPT !.owner = 0]]
  IN /\ rec[c].pc = "hosts"
     /\ IF rec[c].spec.daemonset
        THEN /\ objs' = [objs EXCEPT ![c] = new]
             /\ Goto(c, "Service")
             /\ UNCHANGED <<cfg, secrets, cache, budget, history>>
        ELSE Apply(c, "Deployment", Hosts(c), "Service")

ConfigureHosts(c) ==
  /\ rec[c].pc = "hosts"
  /\ Apply(c, IF rec[c].spec.daemonset THEN "DaemonSet" ELSE "Deployment",
           Hosts(c), "Service")

\* Mutant: creates the Service, never updates it.
ConfigureServiceOnce(c) ==
  /\ rec[c].pc = "Service"
  /\ Apply(c, "Service",
           IF objs[c]["Service"] # None THEN objs[c]["Service"]
                                        ELSE Bare(rec[c].uid), "list")

ConfigureService(c) ==
  /\ rec[c].pc = "Service"
  /\ Apply(c, "Service", Bare(rec[c].uid), "list")

\* list_apps, with the credentials just read.
ListApps(c) ==
  /\ rec[c].pc = "list"
  /\ IF rec[c].creds \in Malformed THEN Finish(c) ELSE Goto(c, "status")
  /\ UNCHANGED <<cfg, objs, secrets, cache, budget, history>>

PatchStatus(c) ==
  /\ rec[c].pc = "status"
  /\ cfg' = [cfg EXCEPT ![c].reported = TRUE]
  /\ Goto(c, "connect")
  /\ UNCHANGED <<objs, secrets, cache, budget, history>>

\* get_nats_client, with the credentials in the cache; the rest of the
\* reconciliation hands the client to the Watcher.  Malformed ones panic.
Connect(c) ==
  /\ rec[c].pc = "connect"
  /\ IF cache[c] \in Malformed THEN LoseMemory ELSE Finish(c) /\ UNCHANGED cache
  /\ UNCHANGED <<cfg, objs, secrets, budget, history>>

BeginCleanup(c) ==
  /\ rec[c].pc = "idle" /\ cfg[c].state = "deleting" /\ cfg[c].fin
  /\ Goto(c, "cleanup")
  /\ UNCHANGED <<cfg, objs, secrets, cache, budget, history>>

\* Mutant: cleanup without the remove.
CleanupKeepsCreds(c) ==
  /\ rec[c].pc = "cleanup"
  /\ Goto(c, "unfinalize")
  /\ UNCHANGED <<cfg, objs, secrets, cache, budget, history>>

\* cleanup, up to stop_watch.
Cleanup(c) ==
  /\ rec[c].pc = "cleanup"
  /\ cache' = [cache EXCEPT ![c] = None]
  /\ Goto(c, "unfinalize")
  /\ UNCHANGED <<cfg, objs, secrets, budget, history>>

RemoveFinalizer(c) ==
  /\ rec[c].pc = "unfinalize"
  /\ cfg' = [cfg EXCEPT ![c] = NoConfig(@.uid)]
  /\ Finish(c)
  /\ UNCHANGED <<objs, secrets, cache, budget, history>>

\* A call to the Kubernetes API or to NATS fails; error_policy tries again.
ReconcileFails(c) ==
  /\ rec[c].pc \notin {"idle", "store", "cleanup"}
  /\ Failure
  /\ Finish(c)
  /\ UNCHANGED <<cfg, objs, secrets, cache, history>>

Restart ==
  /\ Failure
  /\ LoseMemory
  /\ UNCHANGED <<cfg, objs, secrets, history>>
-----------------------------------------------------------------------------
User ==
  \/ \E c \in Configs : \/ DeleteConfig(c)
                        \/ \E spec \in Specs : \/ CreateConfig(c, spec)
                                               \/ EditConfig(c, spec)
  \/ \E s \in Secrets : \/ DeleteSecret(s)
                        \/ \E d \in Contents : WriteSecret(s, d)

Reconcile(c) ==
  \/ AddFinalizer(c) \/ BeginApply(c) \/ GetConfig(c) \/ ReadSecret(c)
  \/ StoreNatsCreds(c) \/ ConfigureConfigMap(c) \/ ConfigureAuth(c)
  \/ ReadRegistry(c) \/ DiscoverCertificates(c) \/ ConfigureHosts(c)
  \/ ConfigureService(c) \/ ListApps(c) \/ PatchStatus(c) \/ Connect(c)
  \/ BeginCleanup(c) \/ Cleanup(c) \/ RemoveFinalizer(c)

Next ==
  \/ User
  \/ \E c \in Configs : Reconcile(c) \/ ReconcileFails(c)
  \/ \E c \in Configs, k \in Kinds : CollectGarbage(c, k)
  \/ Restart

Spec == Init /\ [][Next]_vars

\* Failed and finished reconciliations are requeued; the garbage collector of
\* Kubernetes gets to every orphan.
Fairness ==
  /\ \A c \in Configs : WF_vars(Reconcile(c))
  /\ \A c \in Configs, k \in Kinds : WF_vars(CollectGarbage(c, k))

FairSpec == Spec /\ Fairness
-----------------------------------------------------------------------------
(***************************************************************************)
(* Properties.                                                             *)
(***************************************************************************)
\* Every variable keeps the shape the code's types give it.
TypeOK ==
  /\ cfg \in [Configs -> Config]
  /\ objs \in [Configs -> [Kinds -> Object \cup {None}]]
  /\ secrets \in [Secrets -> Content \cup {None}]
  /\ cache \in [Configs -> Creds \cup {None}]
  /\ rec \in [Configs -> Reconciliation]
  /\ budget \in [user: Nat, fail: Nat]
  /\ history \subseteq Secrets \X Content

HostsRun(c) == Current(c, "Deployment") \/ Current(c, "DaemonSet")

\* Hosts are never started before what their pods need: while a config has a
\* Deployment or DaemonSet of its own, its nats.conf, service account, role and
\* role binding are its own too, and not left over from a deleted namesake
\* that the garbage collector is about to remove.
PrerequisitesFirst ==
  \A c \in Configs : HostsRun(c) => \A k \in Prerequisites : Current(c, k)

\* A status is reported only for a config whose hosts have all they need and
\* can be reached: an error anywhere in between leaves the status alone.
ReportedMeansProvisioned ==
  \A c \in Configs : cfg[c].reported =>
    /\ HostsRun(c) /\ Current(c, "Service")
    /\ \A k \in Prerequisites : Current(c, k)

\* What Secrets held, some time.
HeldData(s) == \E d \in Content : d.data /\ <<s, d>> \in history
HeldRegistry(s) ==
  \E d \in Content : d.data /\ d.auths = "one" /\ <<s, d>> \in history
HeldCertificates(s) ==
  \E d \in Content : d.data /\ d.crt /\ <<s, d>> \in history
HeldCreds(v) == \E s \in Secrets, d \in Content : d.creds = v /\ <<s, d>> \in history

\* "The operator will fail to provision the wasmCloud Deployment if any of
\* these secrets are missing": no pod template names a Secret that was not
\* there, with usable content, when the operator looked.
SecretsRequired ==
  \A c \in Configs, k \in {"Deployment", "DaemonSet"} :
    objs[c][k] # None =>
      /\ objs[c][k].secret # None => HeldData(objs[c][k].secret)
      /\ objs[c][k].registry # None => HeldRegistry(objs[c][k].registry)
      /\ objs[c][k].authority # None => HeldCertificates(objs[c][k].authority)

\* The cache holds credentials only for a config that is still there, under
\* the finalizer whose cleanup removes them, and only ones some Secret held.
CacheOwned ==
  \A c \in Configs : cache[c] # None =>
    /\ cfg[c].state # "absent" /\ cfg[c].fin
    /\ HeldCreds(cache[c])

\* Credentials that a reconciliation has read, and has listed the applications
\* with, are those get_nats_client finds in the shared cache much later, however
\* often the Secret changes, the operator restarts or the config is replaced.
SameCreds ==
  \A c \in Configs : rec[c].pc = "connect" /\ rec[c].creds # None
                      => cache[c] = rec[c].creds

\* HostProvisioning implements HostObjects.  Whatever is edited, deleted, created
\* again, fails or restarts between the calls of a reconciliation: it applies
\* objects only for the incarnation that is there, which its finalizer keeps,
\* in an order in which nothing is missing, and an object stays as long as the
\* config it was applied for.
Uids == [c \in Configs |-> cfg[c].uid]

LiveUids == [c \in Configs |-> IF cfg[c].state = "absent" THEN 0 ELSE cfg[c].uid]

Owners ==
  [c \in Configs |-> [k \in Kinds |->
     IF objs[c][k] = None THEN {} ELSE {objs[c][k].owner}]]

Guarded == {c \in Configs : cfg[c].fin}
Doomed == {c \in Configs : cfg[c].state = "deleting"}
Reported == {c \in Configs : cfg[c].reported}
Cached == {c \in Configs : cache[c] # None}

Kept == INSTANCE HostObjects WITH
  HostKinds <- {"Deployment", "DaemonSet"},
  uid <- LiveUids, last <- Uids, guarded <- Guarded, doomed <- Doomed,
  owners <- Owners, reported <- Reported, cached <- Cached

KeepsHosts == Kept!Spec

\* The Secrets of a config can be used.
Satisfiable(c) ==
  LET spec == cfg[c].spec
  IN /\ cfg[c].state = "live"
     /\ spec.secret # None => /\ Usable(spec.secret)
                              /\ secrets[spec.secret].creds \notin Malformed
     /\ spec.registry # None => Registries(spec.registry) = "one"
     /\ spec.authority # None => secrets[spec.authority] # None

\* No config names a registry Secret without a registry.
NoPanic == \A c \in Configs : LET s == cfg[c].spec.registry
                              IN s # None => Registries(s) # "none"

\* The objects of a config say what its spec and its Secrets say.
UpToDate(c) ==
  LET spec == cfg[c].spec
      k == IF spec.daemonset THEN "DaemonSet" ELSE "Deployment"
      s == spec.secret
      a == spec.authority
  IN /\ \A p \in Prerequisites \cup {k, "Service"} : Current(c, p)
     /\ objs[c]["ConfigMap"].credentials =
          (s # None /\ Usable(s) /\ secrets[s].creds # None)
     /\ objs[c][k].secret = s
     /\ objs[c][k].registry = spec.registry
     /\ objs[c][k].authority =
          IF a # None /\ Usable(a) /\ secrets[a].crt THEN a ELSE None
     /\ cfg[c].reported

\* Whatever fails, is edited or restarts meanwhile: a config that stays, with
\* Secrets that can be used, ends up with its objects all there and up to date,
\* for good.
Provisioned ==
  \A c \in Configs : <>[](Satisfiable(c) /\ NoPanic) => <>[]UpToDate(c)

\* Nothing of a deleted config stays: every object applied for it is owned by
\* it, and no late step of a reconciliation applies one after it is gone.
NothingLeft ==
  \A c \in Configs : <>[](cfg[c].state = "absent")
    => <>[](cache[c] = None /\ \A k \in Kinds : objs[c][k] = None)

\* "Run hosts as a DaemonSet instead of a Deployment": a config that stays a
\* DaemonSet's ends up without a Deployment.
InsteadOfDeployment ==
  \A c \in Configs :
    <>[](Satisfiable(c) /\ NoPanic /\ cfg[c].spec.daemonset)
      => <>[](objs[c]["Deployment"] = None)
-----------------------------------------------------------------------------
(***************************************************************************)
(* The inductive invariant.  A reconciliation works for one incarnation of *)
(* its config, which the finalizer keeps from going away under it, and     *)
(* what the steps behind it applied is still there.                        *)
(***************************************************************************)
Reachable == {"list", "status", "connect"}
Started == Reachable \cup {"Service"}
Authorized == Started \cup {"registry", "authority", "hosts"}
Mounted == Authorized \cup {"ServiceAccount", "Role", "RoleBinding"}
Read == Mounted \cup {"ConfigMap", "store"}
Provisioning == Read \cup {"secret"}

\* Finalizers, uids and owner references.
OwnerInv ==
  \A c \in Configs :
    /\ rec[c].pc = "idle" => rec[c] = Idle
    /\ rec[c].pc # "idle" => cfg[c].state # "absent" /\ cfg[c].fin
    /\ rec[c].pc \in Provisioning => rec[c].uid = cfg[c].uid
    /\ \A k \in Kinds : objs[c][k] # None => objs[c][k].owner <= cfg[c].uid
    /\ cfg[c].state = "absent" => ~cfg[c].reported

\* What each phase finds applied.
AppliedInv ==
  \A c \in Configs :
    /\ rec[c].pc \in Mounted => Current(c, "ConfigMap")
    /\ rec[c].pc \in Authorized \cup {"Role", "RoleBinding"}
         => Current(c, "ServiceAccount")
    /\ rec[c].pc \in Authorized \cup {"RoleBinding"} => Current(c, "Role")
    /\ rec[c].pc \in Authorized => Current(c, "RoleBinding")
    /\ rec[c].pc \in Started => HostsRun(c)
    /\ rec[c].pc \in Reachable => Current(c, "Service")

\* What a reconciliation has read, some Secret held.
SecretInv ==
  /\ \A s \in Secrets : secrets[s] # None => <<s, secrets[s]>> \in history
  /\ \A c \in Configs :
       /\ rec[c].pc \in Read /\ rec[c].spec.secret # None
            => HeldData(rec[c].spec.secret)
       /\ rec[c].creds # None => HeldCreds(rec[c].creds)
       /\ rec[c].pc \in {"authority", "hosts"} /\ rec[c].spec.registry # None
            => HeldRegistry(rec[c].spec.registry)
       /\ rec[c].authority # None => HeldCertificates(rec[c].authority)

\* Nothing stays in the cache when the finalizer goes, and what a
\* reconciliation has stored there is not replaced before it is used.
CacheInv ==
  \A c \in Configs :
    /\ rec[c].pc = "unfinalize" => cache[c] = None
    /\ rec[c].pc \in {"get", "secret"} => rec[c].creds = None
    /\ rec[c].pc \in Mounted \cup {"ConfigMap"} /\ rec[c].creds # None
         => cache[c] = rec[c].creds

Inv ==
  /\ TypeOK /\ OwnerInv /\ AppliedInv /\ SecretInv /\ CacheInv
  /\ PrerequisitesFirst /\ ReportedMeansProvisioned /\ SecretsRequired /\ CacheOwned
=============================================================================
