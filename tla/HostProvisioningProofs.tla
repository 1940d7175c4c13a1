---------------------- MODULE HostProvisioningProofs ----------------------
(***************************************************************************)
(* Proofs about HostProvisioning, for any host configs, Secrets, specs,    *)
(* contents and bounds: hosts start only with all they need, the status is *)
(* reported only for provisioned hosts, no pod names a Secret that was     *)
(* never there, and the credentials cache holds no leftovers.              *)
(***************************************************************************)
EXTENDS HostProvisioning, TLAPS

\* What Inv says of one config whose reconciliation is in state r.
RecOK(c, r) ==
  /\ r.pc = "idle" => r = Idle
  /\ r.pc # "idle" => cfg[c].state # "absent" /\ cfg[c].fin
  /\ r.pc \in Provisioning => r.uid = cfg[c].uid
  /\ r.pc \in Mounted => Current(c, "ConfigMap")
  /\ r.pc \in Authorized \cup {"Role", "RoleBinding"} => Current(c, "ServiceAccount")
  /\ r.pc \in Authorized \cup {"RoleBinding"} => Current(c, "Role")
  /\ r.pc \in Authorized => Current(c, "RoleBinding")
  /\ r.pc \in Started => HostsRun(c)
  /\ r.pc \in Reachable => Current(c, "Service")
  /\ r.pc \in Read /\ r.spec.secret # None => HeldData(r.spec.secret)
  /\ r.creds # None => HeldCreds(r.creds)
  /\ r.pc \in {"authority", "hosts"} /\ r.spec.registry # None
       => HeldRegistry(r.spec.registry)
  /\ r.authority # None => HeldCertificates(r.authority)
  /\ r.pc = "unfinalize" => cache[c] = None
  /\ r.pc \in {"get", "secret"} => r.creds = None
  /\ r.pc \in Mounted \cup {"ConfigMap"} /\ r.creds # None => cache[c] = r.creds

\* Inv says that much of every config.
LEMMA InvRecOK == ASSUME Inv, NEW c \in Configs PROVE RecOK(c, rec[c])
BY DEF Inv, OwnerInv, AppliedInv, SecretInv, CacheInv, RecOK

\* An idle loop satisfies it, whatever else is the case.
LEMMA IdleOK == ASSUME NEW c \in Configs PROVE RecOK(c, Idle)
BY DEF RecOK, Idle, Provisioning, Read, Mounted, Authorized, Started, Reachable

\* The state the loop rests in is one of a reconciliation's.
LEMMA IdleType == Idle \in Reconciliation
BY DEF Idle, Reconciliation, NoSpec, HostSpec, Phase

\* A step that moves one reconciliation to r and changes no object, config,
\* Secret or cache entry.
LEMMA OnlyRec ==
  ASSUME Inv, NEW c \in Configs, NEW r \in Reconciliation, RecOK(c, r),
         rec' = [rec EXCEPT ![c] = r], budget' \in [user: Nat, fail: Nat],
         UNCHANGED <<cfg, objs, secrets, cache, history>>
  PROVE  Inv'
<1>1. TypeOK'
  BY DEF Inv, TypeOK
<1>2. /\ \A d \in Configs : \A k : Current(d, k)' <=> Current(d, k)
      /\ \A d \in Configs : HostsRun(d)' <=> HostsRun(d)
      /\ \A s : /\ HeldData(s)' <=> HeldData(s)
                /\ HeldRegistry(s)' <=> HeldRegistry(s)
                /\ HeldCertificates(s)' <=> HeldCertificates(s)
                /\ HeldCreds(s)' <=> HeldCreds(s)
  BY DEF Current, HostsRun, HeldData, HeldRegistry, HeldCertificates, HeldCreds
<1>3. \A d \in Configs : RecOK(d, rec'[d])
  BY InvRecOK DEF Inv, TypeOK
<1>4. OwnerInv' /\ AppliedInv' /\ SecretInv' /\ CacheInv'
  <2>1. OwnerInv'
    BY <1>3 DEF Inv, OwnerInv, RecOK
  <2>2. AppliedInv'
    BY <1>2, <1>3 DEF AppliedInv, RecOK
  <2>3. SecretInv'
    BY <1>2, <1>3 DEF Inv, SecretInv, RecOK
  <2>4. CacheInv'
    BY <1>3 DEF CacheInv, RecOK
  <2> QED BY <2>1, <2>2, <2>3, <2>4
<1>5. PrerequisitesFirst' /\ ReportedMeansProvisioned' /\ SecretsRequired' /\ CacheOwned'
  BY <1>2 DEF Inv, PrerequisitesFirst, ReportedMeansProvisioned, SecretsRequired,
         CacheOwned
<1> QED BY <1>1, <1>4, <1>5 DEF Inv

\* What a user's change or a failure does to the budget.
LEMMA BudgetType ==
  ASSUME TypeOK, UserChange \/ Failure
  PROVE  budget' \in [user: Nat, fail: Nat]
BY DEF TypeOK, UserChange, Failure
-----------------------------------------------------------------------------
\* No config, object, Secret or cache entry to begin with.
LEMMA InitInv == Init => Inv
<1> SUFFICES ASSUME Init PROVE Inv
  OBVIOUS
<1>1. TypeOK
  <2>1. NoConfig(0) \in Config
    BY DEF NoConfig, Config, NoSpec, HostSpec
  <2> QED BY <2>1, IdleType, ProvisioningAssumption DEF Init, TypeOK
<1>2. OwnerInv /\ AppliedInv /\ SecretInv /\ CacheInv
  BY IdleOK DEF Init, OwnerInv, AppliedInv, SecretInv, CacheInv, NoConfig,
         Idle, Mounted, Read, Provisioning, Authorized, Started, Reachable
<1>3. PrerequisitesFirst /\ ReportedMeansProvisioned /\ SecretsRequired /\ CacheOwned
  <2>1. \A c \in Configs : ~HostsRun(c)
    BY DEF Init, HostsRun, Current, Kinds
  <2> QED BY <2>1 DEF Init, PrerequisitesFirst, ReportedMeansProvisioned,
            SecretsRequired, CacheOwned, NoConfig, Kinds
<1> QED BY <1>1, <1>2, <1>3 DEF Inv
-----------------------------------------------------------------------------
\* Moving on to another phase of the same reconciliation.
LEMMA GotoInv ==
  ASSUME Inv, NEW c \in Configs, NEW pc \in Phase, Goto(c, pc),
         RecOK(c, [rec[c] EXCEPT !.pc = pc]), budget' \in [user: Nat, fail: Nat],
         UNCHANGED <<cfg, objs, secrets, cache, history>>
  PROVE  Inv'
<1> DEFINE r == [rec[c] EXCEPT !.pc = pc]
<1>1. r \in Reconciliation /\ rec' = [rec EXCEPT ![c] = r]
  BY DEF Inv, TypeOK, Reconciliation, Goto
<1> HIDE DEF r
<1> QED BY <1>1, OnlyRec DEF r

\* The end of a reconciliation, by an error or not.
LEMMA FinishInv ==
  ASSUME Inv, NEW c \in Configs, Finish(c), budget' \in [user: Nat, fail: Nat],
         UNCHANGED <<cfg, objs, secrets, cache, history>>
  PROVE  Inv'
BY OnlyRec, IdleOK, IdleType DEF Finish

\* A restart or a panic keeps what Kubernetes stores.
LEMMA LoseMemoryInv ==
  ASSUME Inv, LoseMemory, budget' \in [user: Nat, fail: Nat],
         UNCHANGED <<cfg, objs, secrets, history>>
  PROVE  Inv'
<1>1. TypeOK'
  BY IdleType DEF Inv, TypeOK, LoseMemory
<1>2. OwnerInv' /\ AppliedInv' /\ CacheInv'
  BY DEF Inv, OwnerInv, AppliedInv, CacheInv, LoseMemory, Idle, Mounted,
         Provisioning, Read, Authorized, Started, Reachable
<1>3. SecretInv'
  BY DEF Inv, SecretInv, LoseMemory, Idle, Read, Mounted, Authorized, Started,
         Reachable
<1>4. PrerequisitesFirst' /\ ReportedMeansProvisioned'
  BY DEF Inv, PrerequisitesFirst, ReportedMeansProvisioned, HostsRun, Current
<1>5. SecretsRequired' /\ CacheOwned'
  BY DEF Inv, SecretsRequired, HeldData, HeldRegistry, HeldCertificates,
         CacheOwned, LoseMemory
<1> QED BY <1>1, <1>2, <1>3, <1>4, <1>5 DEF Inv

\* Applying an object makes it the config's own and takes no other away.
LEMMA Applied ==
  ASSUME Inv, NEW c \in Configs, NEW kind \in Kinds, NEW obj \in Object,
         NEW next, Apply(c, kind, obj, next),
         obj.owner = cfg[c].uid, cfg[c].state # "absent"
  PROVE  /\ Current(c, kind)'
         /\ \A d \in Configs, k \in Kinds : Current(d, k) => Current(d, k)'
         /\ \A d \in Configs, k \in Kinds :
              Current(d, k)' => Current(d, k) \/ (d = c /\ k = kind)
BY ObjectAssumption DEF Apply, Current, Inv, TypeOK

\* A step of a reconciliation that applies an object of its config.
LEMMA ApplyInv ==
  ASSUME Inv, NEW c \in Configs, NEW kind \in Kinds, NEW obj \in Object,
         NEW next \in Phase, Apply(c, kind, obj, next),
         obj.owner = cfg[c].uid, rec[c].pc \in Provisioning,
         next \in Provisioning,
         RecOK(c, [rec[c] EXCEPT !.pc = next])',
         kind \in {"Deployment", "DaemonSet"} =>
           /\ \A k \in Prerequisites : Current(c, k)
           /\ obj.secret # None => HeldData(obj.secret)
           /\ obj.registry # None => HeldRegistry(obj.registry)
           /\ obj.authority # None => HeldCertificates(obj.authority)
  PROVE  Inv'
<1> DEFINE r == [rec[c] EXCEPT !.pc = next]
<1>1. r \in Reconciliation /\ rec' = [rec EXCEPT ![c] = r]
  BY DEF Inv, TypeOK, Reconciliation, Apply, Goto
<1>2. TypeOK'
  BY <1>1 DEF Inv, TypeOK, Apply
<1>3. cfg[c].state # "absent"
  BY DEF Inv, OwnerInv, Provisioning, Read, Mounted, Authorized, Started, Reachable
<1>4. /\ Current(c, kind)'
      /\ \A d \in Configs, k \in Kinds : Current(d, k) => Current(d, k)'
      /\ \A d \in Configs, k \in Kinds :
           Current(d, k)' => Current(d, k) \/ (d = c /\ k = kind)
  BY <1>3, Applied
<1>5. \A d \in Configs : HostsRun(d) => HostsRun(d)'
  BY <1>4 DEF HostsRun, Kinds
<1>6. \A s : /\ HeldData(s)' <=> HeldData(s)
             /\ HeldRegistry(s)' <=> HeldRegistry(s)
             /\ HeldCertificates(s)' <=> HeldCertificates(s)
             /\ HeldCreds(s)' <=> HeldCreds(s)
  BY DEF Apply, HeldData, HeldRegistry, HeldCertificates, HeldCreds
<1>7. \A d \in Configs : RecOK(d, rec[d])'
  <2> SUFFICES ASSUME NEW d \in Configs PROVE RecOK(d, rec[d])'
    OBVIOUS
  <2>1. CASE d = c
    <3>1. rec'[c] = r
      BY <1>1 DEF Inv, TypeOK
    <3>2. rec'[c].pc = next
      BY <3>1 DEF Inv, TypeOK, Reconciliation
    <3>3. [rec'[c] EXCEPT !.pc = next] = rec'[c]
      BY <3>2, <1>2 DEF TypeOK, Reconciliation
    <3> QED BY <2>1, <3>3
  <2>2. CASE d # c
    <3>1. RecOK(d, rec[d]) /\ rec'[d] = rec[d]
      BY <2>2, <1>1, InvRecOK DEF Inv, TypeOK
    <3> QED BY <3>1, <1>4, <1>5, <1>6 DEF RecOK, Apply, Kinds
  <2> QED BY <2>1, <2>2
<1>8. OwnerInv'
  <2>1. \A d \in Configs, k \in Kinds :
          objs'[d][k] # None => objs'[d][k].owner <= cfg[d].uid
    BY DEF Apply, Inv, TypeOK, OwnerInv, Object, Config
  <2> QED BY <2>1, <1>7 DEF Apply, Inv, OwnerInv, RecOK
<1>9. AppliedInv' /\ CacheInv'
  BY <1>7 DEF AppliedInv, CacheInv, RecOK
<1>10. SecretInv'
  BY <1>7 DEF Apply, Inv, SecretInv, RecOK
<1>11. PrerequisitesFirst'
  <2> SUFFICES ASSUME NEW d \in Configs, HostsRun(d)', NEW k \in Prerequisites
               PROVE  Current(d, k)'
    BY DEF PrerequisitesFirst
  <2>1. HostsRun(d) \/ (d = c /\ kind \in {"Deployment", "DaemonSet"})
    BY <1>4 DEF HostsRun, Kinds
  <2>2. Current(d, k)
    BY <2>1 DEF Inv, PrerequisitesFirst
  <2> QED BY <2>2, <1>4 DEF Prerequisites, Kinds
<1>12. ReportedMeansProvisioned'
  BY <1>4, <1>5 DEF Inv, ReportedMeansProvisioned, Apply, Prerequisites, Kinds
<1>13. SecretsRequired'
  <2> SUFFICES ASSUME NEW d \in Configs, NEW k \in {"Deployment", "DaemonSet"},
                      objs'[d][k] # None
               PROVE  /\ objs'[d][k].secret # None => HeldData(objs'[d][k].secret)
                      /\ objs'[d][k].registry # None
                           => HeldRegistry(objs'[d][k].registry)
                      /\ objs'[d][k].authority # None
                           => HeldCertificates(objs'[d][k].authority)
    BY <1>6 DEF SecretsRequired
  <2>1. CASE d = c /\ k = kind
    <3>1. objs'[d][k] = obj
      BY <2>1 DEF Apply, Inv, TypeOK, Kinds
    <3> QED BY <2>1, <3>1
  <2>2. CASE ~(d = c /\ k = kind)
    <3>1. objs'[d][k] = objs[d][k]
      BY <2>2 DEF Apply, Inv, TypeOK, Kinds
    <3> QED BY <3>1 DEF Inv, SecretsRequired
  <2> QED BY <2>1, <2>2
<1>14. CacheOwned'
  BY <1>6 DEF Inv, CacheOwned, Apply
<1> QED BY <1>2, <1>8, <1>9, <1>10, <1>11, <1>12, <1>13, <1>14 DEF Inv
-----------------------------------------------------------------------------
\* A new config has a uid no object is owned by, and no reconciliation.
LEMMA CreateConfigInv ==
  ASSUME Inv, NEW c \in Configs, NEW spec \in Specs, CreateConfig(c, spec)
  PROVE  Inv'
<1>1. TypeOK'
  <2>1. [state |-> "live", fin |-> FALSE, uid |-> cfg[c].uid + 1,
         spec |-> spec, reported |-> FALSE] \in Config
    BY ProvisioningAssumption DEF Inv, TypeOK, Config
  <2> QED BY <2>1 DEF CreateConfig, Inv, TypeOK
<1>2. /\ rec[c].pc = "idle" /\ cache[c] = None
      /\ \A k \in Kinds : objs[c][k] # None => objs[c][k].owner <= cfg[c].uid
  BY DEF CreateConfig, Inv, OwnerInv, CacheOwned
<1>3. /\ cfg'[c].uid = cfg[c].uid + 1 /\ ~cfg'[c].reported
      /\ cfg'[c].state = "live"
      /\ \A d \in Configs : d # c => cfg'[d] = cfg[d]
  BY DEF CreateConfig, Inv, TypeOK
<1>4. \A k \in Kinds : ~Current(c, k)'
  <2> SUFFICES ASSUME NEW k \in Kinds, objs[c][k] # None
               PROVE  objs[c][k].owner # cfg[c].uid + 1
    BY <1>3 DEF Current, CreateConfig
  <2>1. objs[c][k].owner \in Nat /\ cfg[c].uid \in Nat
    BY DEF Inv, TypeOK, Object, Config
  <2> QED BY <1>2, <2>1
<1>5. /\ \A d \in Configs, k \in Kinds : d # c => (Current(d, k)' <=> Current(d, k))
      /\ \A d \in Configs : d # c => (HostsRun(d)' <=> HostsRun(d))
      /\ ~HostsRun(c)'
  BY <1>3, <1>4 DEF Current, HostsRun, CreateConfig, Kinds
<1>6. OwnerInv'
  <2> SUFFICES ASSUME NEW d \in Configs
               PROVE  /\ rec[d].pc = "idle" => rec[d] = Idle
                      /\ rec[d].pc # "idle" => cfg'[d].state # "absent" /\ cfg'[d].fin
                      /\ rec[d].pc \in Provisioning => rec[d].uid = cfg'[d].uid
                      /\ \A k \in Kinds : objs[d][k] # None
                           => objs[d][k].owner <= cfg'[d].uid
                      /\ cfg'[d].state = "absent" => ~cfg'[d].reported
    BY DEF OwnerInv, CreateConfig
  <2>1. CASE d = c
    <3>1. \A k \in Kinds : objs[c][k] # None => objs[c][k].owner \in Nat
      BY DEF Inv, TypeOK, Object
    <3> QED BY <2>1, <3>1, <1>2, <1>3 DEF Inv, TypeOK, Config, Provisioning, Read,
              Mounted, Authorized, Started, Reachable, OwnerInv
  <2>2. CASE d # c
    BY <2>2, <1>3 DEF Inv, OwnerInv
  <2> QED BY <2>1, <2>2
<1>7. AppliedInv'
  BY <1>2, <1>5 DEF Inv, AppliedInv, CreateConfig, Mounted, Authorized, Started,
         Reachable, Kinds
<1>8. SecretInv' /\ CacheInv' /\ SecretsRequired'
  <2>1. \A s : /\ HeldData(s) => HeldData(s)'
               /\ HeldRegistry(s) => HeldRegistry(s)'
               /\ HeldCertificates(s) => HeldCertificates(s)'
               /\ HeldCreds(s) => HeldCreds(s)'
    BY DEF CreateConfig, HeldData, HeldRegistry, HeldCertificates, HeldCreds
  <2>2. SecretInv' /\ CacheInv'
    BY <2>1 DEF Inv, SecretInv, CacheInv, CreateConfig
  <2>3. SecretsRequired'
    BY <2>1 DEF Inv, SecretsRequired, CreateConfig
  <2> QED BY <2>2, <2>3
<1>9. PrerequisitesFirst' /\ ReportedMeansProvisioned'
  BY <1>3, <1>5 DEF Inv, PrerequisitesFirst, ReportedMeansProvisioned,
         Prerequisites, Kinds
<1>10. CacheOwned'
  BY <1>2, <1>3 DEF Inv, CacheOwned, CreateConfig, HeldCreds
<1> QED BY <1>1, <1>6, <1>7, <1>8, <1>9, <1>10 DEF Inv

\* A step that keeps every config's state, finalizer and uid (an edit, the
\* finalizer added, the deletion timestamp set) and reports no status.
LEMMA SameConfigInv ==
  ASSUME Inv, cfg' \in [Configs -> Config],
         \A c \in Configs :
           /\ cfg'[c].uid = cfg[c].uid /\ cfg'[c].reported = cfg[c].reported
           /\ cfg'[c].state = "absent" <=> cfg[c].state = "absent"
           /\ cfg[c].fin => cfg'[c].fin,
         budget' \in [user: Nat, fail: Nat],
         UNCHANGED <<objs, secrets, cache, rec, history>>
  PROVE  Inv'
<1>1. TypeOK'
  BY DEF Inv, TypeOK
<1>2. /\ \A d \in Configs : \A k : Current(d, k)' <=> Current(d, k)
      /\ \A d \in Configs : HostsRun(d)' <=> HostsRun(d)
  BY DEF Current, HostsRun
<1>3. OwnerInv' /\ AppliedInv'
  BY <1>2 DEF Inv, OwnerInv, AppliedInv
<1>4. SecretInv' /\ CacheInv' /\ SecretsRequired' /\ CacheOwned'
  <2>1. \A s : /\ HeldData(s) => HeldData(s)'
               /\ HeldRegistry(s) => HeldRegistry(s)'
               /\ HeldCertificates(s) => HeldCertificates(s)'
               /\ HeldCreds(s) => HeldCreds(s)'
    BY DEF HeldData, HeldRegistry, HeldCertificates, HeldCreds
  <2>2. SecretInv' /\ CacheInv'
    BY <2>1 DEF Inv, SecretInv, CacheInv
  <2>3. SecretsRequired' /\ CacheOwned'
    BY <2>1 DEF Inv, SecretsRequired, CacheOwned
  <2> QED BY <2>2, <2>3
<1>5. PrerequisitesFirst' /\ ReportedMeansProvisioned'
  BY <1>2 DEF Inv, PrerequisitesFirst, ReportedMeansProvisioned
<1> QED BY <1>1, <1>3, <1>4, <1>5 DEF Inv

\* A config that goes for good has no reconciliation after the step and leaves
\* nothing in the cache; its objects are not current any more.
LEMMA GoneInv ==
  ASSUME Inv, NEW c \in Configs, cfg' = [cfg EXCEPT ![c] = NoConfig(cfg[c].uid)],
         cache[c] = None, Finish(c),
         UNCHANGED <<objs, secrets, cache, budget, history>>
  PROVE  Inv'
<1>1. TypeOK'
  <2>1. NoConfig(cfg[c].uid) \in Config
    BY DEF Inv, TypeOK, NoConfig, Config, NoSpec, HostSpec
  <2> QED BY <2>1, IdleType DEF Inv, TypeOK, Finish
<1>2. /\ cfg'[c] = NoConfig(cfg[c].uid) /\ rec'[c] = Idle
      /\ \A d \in Configs : d # c => cfg'[d] = cfg[d] /\ rec'[d] = rec[d]
  BY DEF Inv, TypeOK, Finish
<1>3. /\ cfg'[c].uid = cfg[c].uid /\ cfg'[c].state = "absent" /\ ~cfg'[c].reported
      /\ rec'[c].pc = "idle" /\ rec'[c].creds = None /\ rec'[c].authority = None
  BY <1>2 DEF NoConfig, Idle
<1>4. /\ \A d \in Configs : \A k : d # c => (Current(d, k)' <=> Current(d, k))
      /\ \A d \in Configs : d # c => (HostsRun(d)' <=> HostsRun(d))
      /\ ~HostsRun(c)'
  BY <1>2, <1>3 DEF Current, HostsRun
<1>5. OwnerInv'
  BY <1>2, <1>3 DEF Inv, OwnerInv, Provisioning, Read, Mounted, Authorized, Started,
         Reachable
<1>6. AppliedInv' /\ CacheInv'
  BY <1>2, <1>3, <1>4 DEF Inv, AppliedInv, CacheInv, Mounted, Authorized,
         Started, Reachable
<1>7. SecretInv' /\ SecretsRequired'
  <2>1. \A s : /\ HeldData(s) => HeldData(s)'
               /\ HeldRegistry(s) => HeldRegistry(s)'
               /\ HeldCertificates(s) => HeldCertificates(s)'
               /\ HeldCreds(s) => HeldCreds(s)'
    BY DEF HeldData, HeldRegistry, HeldCertificates, HeldCreds
  <2>2. SecretInv'
    BY <1>2, <1>3, <2>1 DEF Inv, SecretInv, Read, Mounted, Authorized, Started,
           Reachable
  <2>3. SecretsRequired'
    BY <2>1 DEF Inv, SecretsRequired
  <2> QED BY <2>2, <2>3
<1>8. PrerequisitesFirst' /\ ReportedMeansProvisioned'
  BY <1>3, <1>4, <1>2 DEF Inv, PrerequisitesFirst, ReportedMeansProvisioned
<1>9. CacheOwned'
  BY <1>2 DEF Inv, CacheOwned, HeldCreds
<1> QED BY <1>1, <1>5, <1>6, <1>7, <1>8, <1>9 DEF Inv

\* A deletion under the finalizer only marks the config.
LEMMA DeleteConfigInv ==
  ASSUME Inv, NEW c \in Configs, DeleteConfig(c)
  PROVE  Inv'
<1>0. cfg[c] \in Config /\ budget \in [user: Nat, fail: Nat]
  BY DEF Inv, TypeOK
<1>1. CASE cfg[c].fin
  <2> DEFINE e == [cfg[c] EXCEPT !.state = "deleting"]
  <2>1. /\ e \in Config /\ e.uid = cfg[c].uid /\ e.reported = cfg[c].reported
        /\ e.state = "deleting" /\ e.fin = cfg[c].fin
    BY <1>0 DEF Config
  <2>2. cfg' = [cfg EXCEPT ![c] = e]
    BY <1>1 DEF DeleteConfig
  <2> HIDE DEF e
  <2>3. cfg' \in [Configs -> Config]
    BY <2>1, <2>2 DEF Inv, TypeOK
  <2>4. cfg[c].state # "absent"
    BY DEF DeleteConfig
  <2> QED BY <2>1, <2>2, <2>3, <2>4, <1>0, SameConfigInv DEF DeleteConfig, Inv, TypeOK
<1>2. CASE ~cfg[c].fin
  <2>1. rec[c] = Idle /\ cache[c] = None
    BY <1>2 DEF Inv, OwnerInv, CacheOwned
  <2>2. cfg' = [cfg EXCEPT ![c] = NoConfig(cfg[c].uid)]
    BY <1>2 DEF DeleteConfig
  <2>3. Finish(c)
    BY <2>1 DEF Finish, DeleteConfig, Inv, TypeOK
  <2> QED BY <2>1, <2>2, <2>3, GoneInv DEF DeleteConfig
<1> QED BY <1>1, <1>2

\* Edits of the spec.
LEMMA EditConfigInv ==
  ASSUME Inv, NEW c \in Configs, NEW spec \in Specs, EditConfig(c, spec)
  PROVE  Inv'
<1> DEFINE e == [cfg[c] EXCEPT !.spec = spec]
<1>1. /\ e \in Config /\ e.uid = cfg[c].uid /\ e.reported = cfg[c].reported
      /\ e.state = cfg[c].state /\ e.fin = cfg[c].fin
  <2>1. spec \in HostSpec
    BY ProvisioningAssumption
  <2>2. cfg[c] \in Config
    BY DEF Inv, TypeOK
  <2> QED BY <2>1, <2>2 DEF Config
<1>2. cfg' = [cfg EXCEPT ![c] = e]
  BY DEF EditConfig
<1> HIDE DEF e
<1>3. cfg' \in [Configs -> Config]
  BY <1>1, <1>2 DEF Inv, TypeOK
<1>4. budget' \in [user: Nat, fail: Nat]
  BY BudgetType DEF EditConfig, Inv
<1> QED BY <1>1, <1>2, <1>3, <1>4, SameConfigInv DEF EditConfig, Inv, TypeOK

\* The finalizer is added.
LEMMA AddFinalizerInv ==
  ASSUME Inv, NEW c \in Configs, AddFinalizer(c)
  PROVE  Inv'
<1> DEFINE e == [cfg[c] EXCEPT !.fin = TRUE]
<1>1. /\ e \in Config /\ e.uid = cfg[c].uid /\ e.reported = cfg[c].reported
      /\ e.state = cfg[c].state /\ e.fin = TRUE
  <2>1. cfg[c] \in Config
    BY DEF Inv, TypeOK
  <2> QED BY <2>1 DEF Config
<1>2. cfg' = [cfg EXCEPT ![c] = e]
  BY DEF AddFinalizer
<1> HIDE DEF e
<1>3. cfg' \in [Configs -> Config] /\ budget \in [user: Nat, fail: Nat]
  BY <1>1, <1>2 DEF Inv, TypeOK
<1> QED BY <1>1, <1>2, <1>3, SameConfigInv DEF AddFinalizer, Inv, TypeOK

\* Secrets change; what they held before is remembered.
LEMMA SecretStepInv ==
  ASSUME Inv, secrets' \in [Secrets -> Content \cup {None}],
         history' \subseteq Secrets \X Content, history \subseteq history',
         \A s \in Secrets : secrets'[s] # None => <<s, secrets'[s]>> \in history',
         budget' \in [user: Nat, fail: Nat], UNCHANGED <<cfg, objs, cache, rec>>
  PROVE  Inv'
<1>1. TypeOK'
  BY DEF Inv, TypeOK
<1>2. OwnerInv' /\ CacheInv'
  BY DEF Inv, OwnerInv, CacheInv
<1>3. AppliedInv' /\ PrerequisitesFirst' /\ ReportedMeansProvisioned'
  BY DEF Inv, AppliedInv, PrerequisitesFirst, ReportedMeansProvisioned, HostsRun,
         Current
<1>4. \A s : /\ HeldData(s) => HeldData(s)'
             /\ HeldRegistry(s) => HeldRegistry(s)'
             /\ HeldCertificates(s) => HeldCertificates(s)'
             /\ HeldCreds(s) => HeldCreds(s)'
  BY DEF HeldData, HeldRegistry, HeldCertificates, HeldCreds
<1>5. SecretInv'
  BY <1>4 DEF Inv, SecretInv
<1>6. SecretsRequired' /\ CacheOwned'
  BY <1>4 DEF Inv, SecretsRequired, CacheOwned
<1> QED BY <1>1, <1>2, <1>3, <1>5, <1>6 DEF Inv

\* A Secret is written.
LEMMA WriteSecretInv ==
  ASSUME Inv, NEW s \in Secrets, NEW d \in Contents, WriteSecret(s, d)
  PROVE  Inv'
<1>1. d \in Content
  BY ProvisioningAssumption
<1>2. secrets' \in [Secrets -> Content \cup {None}]
  BY <1>1 DEF WriteSecret, Inv, TypeOK
<1>3. history' \subseteq Secrets \X Content /\ history \subseteq history'
  BY <1>1 DEF WriteSecret, Inv, TypeOK
<1>4. \A t \in Secrets : secrets'[t] # None => <<t, secrets'[t]>> \in history'
  BY DEF WriteSecret, Inv, TypeOK, SecretInv
<1>5. budget' \in [user: Nat, fail: Nat]
  BY BudgetType DEF WriteSecret, Inv
<1> QED BY <1>2, <1>3, <1>4, <1>5, SecretStepInv DEF WriteSecret

\* A Secret is deleted.
LEMMA DeleteSecretInv ==
  ASSUME Inv, NEW s \in Secrets, DeleteSecret(s)
  PROVE  Inv'
<1>1. secrets' \in [Secrets -> Content \cup {None}]
  BY DEF DeleteSecret, Inv, TypeOK
<1>2. history' \subseteq Secrets \X Content /\ history \subseteq history'
  BY DEF DeleteSecret, Inv, TypeOK
<1>3. \A t \in Secrets : secrets'[t] # None => <<t, secrets'[t]>> \in history'
  BY DEF DeleteSecret, Inv, TypeOK, SecretInv
<1>4. budget' \in [user: Nat, fail: Nat]
  BY BudgetType DEF DeleteSecret, Inv
<1> QED BY <1>1, <1>2, <1>3, <1>4, SecretStepInv DEF DeleteSecret

\* The garbage collector takes only what no config owns any more.
LEMMA CollectGarbageInv ==
  ASSUME Inv, NEW c \in Configs, NEW kind \in Kinds, CollectGarbage(c, kind)
  PROVE  Inv'
<1>1. TypeOK'
  BY DEF CollectGarbage, Inv, TypeOK
<1>2. /\ objs'[c][kind] = None
      /\ \A d \in Configs, k \in Kinds : ~(d = c /\ k = kind) => objs'[d][k] = objs[d][k]
  BY DEF CollectGarbage, Inv, TypeOK
<1>3. \A d \in Configs, k \in Kinds : Current(d, k)' <=> Current(d, k)
  BY <1>2 DEF CollectGarbage, Current
<1>4. \A d \in Configs : HostsRun(d)' <=> HostsRun(d)
  BY <1>3 DEF HostsRun, Kinds
<1>5. OwnerInv' /\ CacheInv'
  BY <1>2 DEF CollectGarbage, Inv, OwnerInv, CacheInv
<1>6. AppliedInv' /\ PrerequisitesFirst' /\ ReportedMeansProvisioned'
  BY <1>3, <1>4 DEF CollectGarbage, Inv, AppliedInv, PrerequisitesFirst,
         ReportedMeansProvisioned, Prerequisites, Kinds
<1>7. \A s : /\ HeldData(s) => HeldData(s)'
             /\ HeldRegistry(s) => HeldRegistry(s)'
             /\ HeldCertificates(s) => HeldCertificates(s)'
             /\ HeldCreds(s) => HeldCreds(s)'
  BY DEF CollectGarbage, HeldData, HeldRegistry, HeldCertificates, HeldCreds
<1>8. SecretInv' /\ CacheOwned'
  BY <1>7 DEF CollectGarbage, Inv, SecretInv, CacheOwned
<1>9. SecretsRequired'
  BY <1>2, <1>7 DEF CollectGarbage, Inv, SecretsRequired, Kinds
<1> QED BY <1>1, <1>5, <1>6, <1>8, <1>9 DEF Inv
-----------------------------------------------------------------------------
\* The reconciler starts; reads the config; ends on an error.
LEMMA BeginInv ==
  ASSUME Inv, NEW c \in Configs, BeginApply(c) \/ BeginCleanup(c)
  PROVE  Inv'
<1>1. rec[c] = Idle /\ budget' \in [user: Nat, fail: Nat]
  BY DEF BeginApply, BeginCleanup, Inv, TypeOK, OwnerInv
<1>2. RecOK(c, [rec[c] EXCEPT !.pc = "get"]) /\ RecOK(c, [rec[c] EXCEPT !.pc = "cleanup"])
  BY <1>1 DEF BeginApply, BeginCleanup, RecOK, Idle, Provisioning, Read, Mounted,
         Authorized, Started, Reachable
<1> QED BY <1>1, <1>2, GotoInv DEF BeginApply, BeginCleanup, Phase

\* config.get: from here on the reconciliation is about this uid.
LEMMA GetConfigInv ==
  ASSUME Inv, NEW c \in Configs, GetConfig(c)
  PROVE  Inv'
<1> DEFINE r == [rec[c] EXCEPT !.pc = "secret", !.uid = cfg[c].uid, !.spec = cfg[c].spec]
<1>0. rec[c] \in Reconciliation /\ cfg[c] \in Config
  BY DEF Inv, TypeOK
<1>1. r \in Reconciliation /\ rec' = [rec EXCEPT ![c] = r]
  <2>1. r \in Reconciliation
    BY <1>0 DEF Reconciliation, Config, Phase
  <2>2. rec' = [rec EXCEPT ![c] = r]
    BY DEF Inv, TypeOK, GetConfig
  <2> QED BY <2>1, <2>2
<1>2. /\ r.pc = "secret" /\ r.uid = cfg[c].uid
      /\ r.creds = rec[c].creds /\ r.authority = rec[c].authority
  BY DEF Inv, TypeOK, Reconciliation
<1> HIDE DEF r
<1>3. RecOK(c, r)
  BY <1>2, InvRecOK DEF RecOK, GetConfig, Provisioning, Read, Mounted, Authorized,
         Started, Reachable
<1>4. budget' \in [user: Nat, fail: Nat]
  BY DEF GetConfig, Inv, TypeOK
<1> QED BY <1>1, <1>3, <1>4, OnlyRec DEF GetConfig

\* The Secret with the NATS credentials is read.
LEMMA ReadSecretInv ==
  ASSUME Inv, NEW c \in Configs, ReadSecret(c)
  PROVE  Inv'
<1> DEFINE s == rec[c].spec.secret
<1>0. /\ rec[c].pc = "secret" /\ budget' \in [user: Nat, fail: Nat]
      /\ UNCHANGED <<cfg, objs, secrets, cache, history>>
      /\ RecOK(c, rec[c]) /\ rec[c] \in Reconciliation
      /\ s \in Secrets \cup {None}
  BY InvRecOK DEF ReadSecret, Inv, TypeOK, Reconciliation, HostSpec
<1>1. CASE s = None /\ Goto(c, "ConfigMap")
  <2> DEFINE r == [rec[c] EXCEPT !.pc = "ConfigMap"]
  <2>1. /\ r.pc = "ConfigMap" /\ r.uid = rec[c].uid /\ r.spec = rec[c].spec
        /\ r.creds = rec[c].creds /\ r.authority = rec[c].authority
    BY <1>0 DEF Reconciliation
  <2> HIDE DEF r
  <2>2. RecOK(c, r)
    BY <1>0, <1>1, <2>1 DEF RecOK, Provisioning, Read, Mounted, Authorized, Started,
           Reachable
  <2> QED BY <1>0, <1>1, <2>2, GotoInv DEF Phase, r
<1>2. CASE Finish(c)
  BY <1>0, <1>2, FinishInv
<1>3. CASE /\ s # None /\ Usable(s)
           /\ rec' = [rec EXCEPT ![c].creds = secrets[s].creds,
                ![c].pc = IF secrets[s].creds = None THEN "ConfigMap" ELSE "store"]
  <2> DEFINE pc == IF secrets[s].creds = None THEN "ConfigMap" ELSE "store"
             r == [rec[c] EXCEPT !.creds = secrets[s].creds, !.pc = pc]
  <2>1. /\ s \in Secrets /\ secrets[s] \in Content /\ secrets[s].data
        /\ <<s, secrets[s]>> \in history
    BY <1>0, <1>3 DEF Usable, Inv, TypeOK, SecretInv
  <2>2. HeldData(s) /\ HeldCreds(secrets[s].creds)
    BY <2>1 DEF HeldData, HeldCreds
  <2>3. /\ pc \in {"ConfigMap", "store"} /\ secrets[s].creds \in Creds \cup {None}
        /\ pc = "ConfigMap" => secrets[s].creds = None
    BY <2>1 DEF Content
  <2> HIDE DEF pc
  <2>4. rec' = [rec EXCEPT ![c] = r]
    BY <1>3 DEF Inv, TypeOK, pc
  <2>5. /\ r \in Reconciliation /\ r.pc = pc /\ r.uid = rec[c].uid
        /\ r.spec = rec[c].spec /\ r.creds = secrets[s].creds
        /\ r.authority = rec[c].authority
    BY <1>0, <2>3 DEF Reconciliation, Phase
  <2> HIDE DEF r
  <2>6. RecOK(c, r)
    BY <1>0, <2>2, <2>3, <2>5 DEF RecOK, Provisioning, Read, Mounted, Authorized,
           Started, Reachable
  <2> QED BY <1>0, <2>4, <2>5, <2>6, OnlyRec
<1> QED BY <1>0, <1>1, <1>2, <1>3 DEF ReadSecret

\* A step that writes or clears one cache entry and moves on.
LEMMA CacheStepInv ==
  ASSUME Inv, NEW c \in Configs, NEW v \in Creds \cup {None}, NEW pc \in Phase,
         v # None => HeldCreds(v) /\ cfg[c].state # "absent" /\ cfg[c].fin,
         cache' = [cache EXCEPT ![c] = v], Goto(c, pc),
         pc \in {"ConfigMap", "unfinalize"}, pc = "unfinalize" => v = None,
         pc = "ConfigMap" => v = rec[c].creds,
         rec[c].pc \in {"store", "cleanup"}, pc = "ConfigMap" => rec[c].pc = "store",
         UNCHANGED <<cfg, objs, secrets, budget, history>>
  PROVE  Inv'
<1> DEFINE r == [rec[c] EXCEPT !.pc = pc]
<1>1. /\ r \in Reconciliation /\ rec' = [rec EXCEPT ![c] = r]
      /\ r.pc = pc /\ r.uid = rec[c].uid /\ r.spec = rec[c].spec
      /\ r.creds = rec[c].creds /\ r.authority = rec[c].authority
  BY DEF Inv, TypeOK, Reconciliation, Goto
<1> HIDE DEF r
<1>2. TypeOK'
  BY <1>1 DEF Inv, TypeOK
<1>3. /\ rec'[c] = r /\ cache'[c] = v
      /\ \A d \in Configs : d # c => rec'[d] = rec[d] /\ cache'[d] = cache[d]
  BY <1>1 DEF Inv, TypeOK
<1>4. /\ \A d \in Configs : \A k : Current(d, k)' <=> Current(d, k)
      /\ \A d \in Configs : HostsRun(d)' <=> HostsRun(d)
  BY DEF Current, HostsRun
<1>5. \A s : /\ HeldData(s) => HeldData(s)'
             /\ HeldRegistry(s) => HeldRegistry(s)'
             /\ HeldCertificates(s) => HeldCertificates(s)'
             /\ HeldCreds(s) => HeldCreds(s)'
  BY DEF HeldData, HeldRegistry, HeldCertificates, HeldCreds
<1>6. OwnerInv'
  BY <1>1, <1>3 DEF Inv, OwnerInv, Provisioning, Read, Mounted, Authorized, Started,
         Reachable
<1>7. AppliedInv' /\ CacheInv'
  BY <1>1, <1>3, <1>4 DEF Inv, AppliedInv, CacheInv, Mounted, Authorized,
         Started, Reachable
<1>8. SecretInv'
  BY <1>1, <1>3, <1>5 DEF Inv, SecretInv, Read, Mounted, Authorized, Started,
         Reachable
<1>9. PrerequisitesFirst' /\ ReportedMeansProvisioned'
  BY <1>4 DEF Inv, PrerequisitesFirst, ReportedMeansProvisioned
<1>10. SecretsRequired' /\ CacheOwned'
  BY <1>3, <1>5 DEF Inv, SecretsRequired, CacheOwned
<1> QED BY <1>2, <1>6, <1>7, <1>8, <1>9, <1>10 DEF Inv

\* The credentials read are cached.
LEMMA StoreNatsCredsInv ==
  ASSUME Inv, NEW c \in Configs, StoreNatsCreds(c)
  PROVE  Inv'
<1>1. rec[c].creds \in Creds \cup {None}
  BY DEF Inv, TypeOK, Reconciliation
<1>2. rec[c].creds # None => HeldCreds(rec[c].creds)
  BY DEF Inv, SecretInv
<1>3. cfg[c].state # "absent" /\ cfg[c].fin
  BY DEF StoreNatsCreds, Inv, OwnerInv
<1> QED BY <1>1, <1>2, <1>3, CacheStepInv DEF StoreNatsCreds, Phase

\* cleanup removes them.
LEMMA CleanupInv ==
  ASSUME Inv, NEW c \in Configs, Cleanup(c)
  PROVE  Inv'
BY CacheStepInv DEF Cleanup, Phase

\* The phases a reconciliation applies objects in.
LEMMA ApplyStep ==
  ASSUME Inv, NEW c \in Configs, NEW kind \in Kinds, NEW obj \in Object,
         NEW next \in Phase, Apply(c, kind, obj, next),
         obj.owner = rec[c].uid,
         \/ rec[c].pc = "ConfigMap" /\ kind = "ConfigMap" /\ next = "ServiceAccount"
         \/ rec[c].pc = "ServiceAccount" /\ kind = "ServiceAccount" /\ next = "Role"
         \/ rec[c].pc = "Role" /\ kind = "Role" /\ next = "RoleBinding"
         \/ rec[c].pc = "RoleBinding" /\ kind = "RoleBinding" /\ next = "registry"
         \/ rec[c].pc = "hosts" /\ kind \in {"Deployment", "DaemonSet"} /\ next = "Service"
         \/ rec[c].pc = "Service" /\ kind = "Service" /\ next = "list",
         kind \in {"Deployment", "DaemonSet"} =>
           /\ obj.secret # None => HeldData(obj.secret)
           /\ obj.registry # None => HeldRegistry(obj.registry)
           /\ obj.authority # None => HeldCertificates(obj.authority)
  PROVE  Inv'
<1> DEFINE r == [rec[c] EXCEPT !.pc = next]
<1>1. /\ rec[c].pc \in Provisioning /\ next \in Provisioning
      /\ rec[c].pc # "idle" /\ next \notin {"idle", "unfinalize"}
  BY DEF Provisioning, Read, Mounted, Authorized, Started, Reachable
<1>2. RecOK(c, rec[c])
  BY InvRecOK
<1>3. obj.owner = cfg[c].uid /\ cfg[c].state # "absent"
  BY <1>1, <1>2 DEF RecOK
<1>4. /\ Current(c, kind)'
      /\ \A d \in Configs, k \in Kinds : Current(d, k) => Current(d, k)'
  BY <1>3, Applied
<1>5. /\ HostsRun(c) => HostsRun(c)'
      /\ kind \in {"Deployment", "DaemonSet"} => HostsRun(c)'
  BY <1>4 DEF HostsRun, Kinds
<1>6. \A s : /\ HeldData(s) => HeldData(s)'
             /\ HeldRegistry(s) => HeldRegistry(s)'
             /\ HeldCertificates(s) => HeldCertificates(s)'
             /\ HeldCreds(s) => HeldCreds(s)'
  BY DEF Apply, HeldData, HeldRegistry, HeldCertificates, HeldCreds
<1>7. rec'[c] = r /\ [rec'[c] EXCEPT !.pc = next] = r
  BY DEF Apply, Goto, Inv, TypeOK, Reconciliation
<1>8. /\ r.pc = next /\ r.uid = rec[c].uid /\ r.spec = rec[c].spec
      /\ r.creds = rec[c].creds /\ r.authority = rec[c].authority
  BY DEF Inv, TypeOK, Reconciliation
<1>9. RecOK(c, [rec[c] EXCEPT !.pc = next])'
  <2> HIDE DEF r
  <2>0. PICK q : q = rec'[c]
    OBVIOUS
  <2>1. /\ q.pc = next /\ q.uid = rec[c].uid /\ q.spec = rec[c].spec
        /\ q.creds = rec[c].creds /\ q.authority = rec[c].authority
        /\ [rec'[c] EXCEPT !.pc = next] = q
    BY <1>7, <1>8, <2>0
  <2>2. /\ q.pc # "idle" => cfg'[c].state # "absent" /\ cfg'[c].fin
        /\ q.pc \in Provisioning => q.uid = cfg'[c].uid
    BY <1>1, <1>2, <2>1 DEF RecOK, Apply
  <2>3. /\ q.pc \in Mounted => Current(c, "ConfigMap")'
        /\ q.pc \in Authorized \cup {"Role", "RoleBinding"} => Current(c, "ServiceAccount")'
        /\ q.pc \in Authorized \cup {"RoleBinding"} => Current(c, "Role")'
        /\ q.pc \in Authorized => Current(c, "RoleBinding")'
    BY <1>2, <1>4, <2>1 DEF RecOK, Kinds, Mounted, Authorized, Started, Reachable
  <2>4. /\ q.pc \in Started => HostsRun(c)'
        /\ q.pc \in Reachable => Current(c, "Service")'
    BY <1>2, <1>4, <1>5, <2>1 DEF RecOK, Kinds, Started, Reachable
  <2>5. /\ q.pc \in Read /\ q.spec.secret # None => HeldData(q.spec.secret)'
        /\ q.creds # None => HeldCreds(q.creds)'
        /\ q.pc \in {"authority", "hosts"} /\ q.spec.registry # None
             => HeldRegistry(q.spec.registry)'
        /\ q.authority # None => HeldCertificates(q.authority)'
    BY <1>2, <1>6, <2>1 DEF RecOK, Read, Mounted, Authorized, Started, Reachable
  <2>6. /\ q.pc \in {"get", "secret"} => q.creds = None
        /\ q.pc \in Mounted \cup {"ConfigMap"} /\ q.creds # None => cache'[c] = q.creds
    BY <1>2, <2>1 DEF RecOK, Apply, Mounted, Authorized, Started, Reachable
  <2>7. q.pc # "idle" /\ q.pc # "unfinalize"
    BY <1>1, <2>1
  <2>8. RecOK(c, q)'
    BY <2>2, <2>3, <2>4, <2>5, <2>6, <2>7 DEF RecOK
  <2> QED BY <2>1, <2>8
<1>10. kind \in {"Deployment", "DaemonSet"} => \A k \in Prerequisites : Current(c, k)
  <2>1. kind \in {"Deployment", "DaemonSet"} => rec[c].pc = "hosts"
    OBVIOUS
  <2>2. rec[c].pc = "hosts" =>
          /\ Current(c, "ConfigMap") /\ Current(c, "ServiceAccount")
          /\ Current(c, "Role") /\ Current(c, "RoleBinding")
    BY <1>2 DEF RecOK, Mounted, Authorized
  <2> QED BY <2>1, <2>2 DEF Prerequisites
<1> HIDE DEF r
<1> QED BY <1>1, <1>3, <1>9, <1>10, ApplyInv

\* An object with nothing in it but its owner.
LEMMA BareType ==
  ASSUME NEW uid \in Nat
  PROVE  /\ Bare(uid) \in Object /\ Bare(uid).owner = uid
         /\ \A b \in BOOLEAN : LET o == [Bare(uid) EXCEPT !.credentials = b]
                               IN  o \in Object /\ o.owner = uid
BY DEF Bare, Object

\* The ConfigMap, the ServiceAccount, the Role, the RoleBinding, the Service.
LEMMA ConfigureInv ==
  ASSUME Inv, NEW c \in Configs,
         ConfigureConfigMap(c) \/ ConfigureAuth(c) \/ ConfigureService(c)
  PROVE  Inv'
<1>1. rec[c].uid \in Nat
  BY DEF Inv, TypeOK, Reconciliation
<1>2. CASE ConfigureConfigMap(c)
  <2> DEFINE obj == [Bare(rec[c].uid) EXCEPT !.credentials = rec[c].creds # None]
  <2>1. obj \in Object /\ obj.owner = rec[c].uid
    BY <1>1, BareType
  <2>2. Apply(c, "ConfigMap", obj, "ServiceAccount") /\ rec[c].pc = "ConfigMap"
    BY <1>2 DEF ConfigureConfigMap
  <2> HIDE DEF obj
  <2> QED BY <2>1, <2>2, ApplyStep DEF Kinds, Phase
<1>3. CASE ConfigureAuth(c)
  BY <1>1, <1>3, BareType, ApplyStep DEF ConfigureAuth, Kinds, Phase
<1>4. CASE ConfigureService(c)
  BY <1>1, <1>4, BareType, ApplyStep DEF ConfigureService, Kinds, Phase
<1> QED BY <1>2, <1>3, <1>4

\* The Deployment or DaemonSet names the Secrets the reconciliation has read.
LEMMA ConfigureHostsInv ==
  ASSUME Inv, NEW c \in Configs, ConfigureHosts(c)
  PROVE  Inv'
<1> DEFINE kind == IF rec[c].spec.daemonset THEN "DaemonSet" ELSE "Deployment"
           obj == Hosts(c)
<1>1. rec[c] \in Reconciliation /\ rec[c].pc = "hosts" /\ RecOK(c, rec[c])
  BY InvRecOK DEF Inv, TypeOK, ConfigureHosts
<1>2. /\ obj \in Object /\ obj.owner = rec[c].uid /\ obj.secret = rec[c].spec.secret
      /\ obj.registry = rec[c].spec.registry /\ obj.authority = rec[c].authority
  BY <1>1 DEF Hosts, Bare, Object, Reconciliation, HostSpec
<1>3. kind \in {"Deployment", "DaemonSet"} /\ Apply(c, kind, obj, "Service")
  BY DEF ConfigureHosts
<1> HIDE DEF kind, obj
<1>4. /\ obj.secret # None => HeldData(obj.secret)
      /\ obj.registry # None => HeldRegistry(obj.registry)
      /\ obj.authority # None => HeldCertificates(obj.authority)
  BY <1>1, <1>2 DEF RecOK, Read, Mounted, Authorized
<1> QED BY <1>1, <1>2, <1>3, <1>4, ApplyStep DEF Kinds, Phase

\* The registry Secret is read: the hosts go on only with one registry.
LEMMA ReadRegistryInv ==
  ASSUME Inv, NEW c \in Configs, ReadRegistry(c)
  PROVE  Inv'
<1> DEFINE s == rec[c].spec.registry
<1>0. /\ rec[c].pc = "registry" /\ budget' \in [user: Nat, fail: Nat]
      /\ UNCHANGED <<cfg, objs, secrets, history>>
      /\ RecOK(c, rec[c]) /\ rec[c] \in Reconciliation /\ s \in Secrets \cup {None}
  BY InvRecOK DEF ReadRegistry, Inv, TypeOK, Reconciliation, HostSpec
<1>1. CASE /\ s = None \/ (s # None /\ Registries(s) = "one")
           /\ Goto(c, "authority") /\ UNCHANGED cache
  <2> DEFINE r == [rec[c] EXCEPT !.pc = "authority"]
  <2>1. s # None => HeldRegistry(s)
    <3> SUFFICES ASSUME s # None PROVE HeldRegistry(s)
      OBVIOUS
    <3>1. s \in Secrets /\ Usable(s) /\ secrets[s].auths = "one"
      BY <1>0, <1>1 DEF Registries
    <3>2. secrets[s] \in Content /\ secrets[s].data /\ <<s, secrets[s]>> \in history
      BY <3>1 DEF Usable, Inv, TypeOK, SecretInv
    <3> QED BY <3>1, <3>2 DEF HeldRegistry
  <2>2. /\ r.pc = "authority" /\ r.uid = rec[c].uid /\ r.spec = rec[c].spec
        /\ r.creds = rec[c].creds /\ r.authority = rec[c].authority
    BY <1>0 DEF Reconciliation
  <2> HIDE DEF r
  <2>3. RecOK(c, r)
    BY <1>0, <2>1, <2>2 DEF RecOK, Provisioning, Read, Mounted, Authorized, Started,
           Reachable
  <2> QED BY <1>0, <1>1, <2>3, GotoInv DEF Phase, r
<1>2. CASE Finish(c) /\ UNCHANGED cache
  BY <1>0, <1>2, FinishInv
<1>3. CASE LoseMemory
  BY <1>0, <1>3, LoseMemoryInv
<1> QED BY <1>1, <1>2, <1>3 DEF ReadRegistry

\* The certificate authority's Secret is looked into.
LEMMA DiscoverCertificatesInv ==
  ASSUME Inv, NEW c \in Configs, DiscoverCertificates(c)
  PROVE  Inv'
<1> DEFINE s == rec[c].spec.authority
<1>0. /\ rec[c].pc = "authority" /\ budget' \in [user: Nat, fail: Nat]
      /\ UNCHANGED <<cfg, objs, secrets, cache, history>>
      /\ RecOK(c, rec[c]) /\ rec[c] \in Reconciliation /\ s \in Secrets \cup {None}
  BY InvRecOK DEF DiscoverCertificates, Inv, TypeOK, Reconciliation, HostSpec
<1>1. CASE Goto(c, "hosts")
  <2> DEFINE r == [rec[c] EXCEPT !.pc = "hosts"]
  <2>1. /\ r.pc = "hosts" /\ r.uid = rec[c].uid /\ r.spec = rec[c].spec
        /\ r.creds = rec[c].creds /\ r.authority = rec[c].authority
    BY <1>0 DEF Reconciliation
  <2> HIDE DEF r
  <2>2. RecOK(c, r)
    BY <1>0, <2>1 DEF RecOK, Provisioning, Read, Mounted, Authorized, Started,
           Reachable
  <2> QED BY <1>0, <1>1, <2>2, GotoInv DEF Phase, r
<1>2. CASE Finish(c)
  BY <1>0, <1>2, FinishInv
<1>3. CASE /\ s # None /\ secrets[s] # None
           /\ rec' = [rec EXCEPT ![c].pc = "hosts",
                ![c].authority = IF secrets[s].data /\ secrets[s].crt THEN s ELSE None]
  <2> DEFINE a == IF secrets[s].data /\ secrets[s].crt THEN s ELSE None
             r == [rec[c] EXCEPT !.pc = "hosts", !.authority = a]
  <2>1. a \in Secrets \cup {None} /\ (a # None => a = s /\ secrets[s].data /\ secrets[s].crt)
    BY <1>0
  <2>2. s \in Secrets /\ secrets[s] \in Content /\ <<s, secrets[s]>> \in history
    BY <1>0, <1>3 DEF Inv, TypeOK, SecretInv
  <2> HIDE DEF a
  <2>3. a # None => HeldCertificates(a)
    BY <2>1, <2>2 DEF HeldCertificates
  <2>4. rec' = [rec EXCEPT ![c] = r]
    BY <1>3 DEF Inv, TypeOK, a
  <2>5. /\ r \in Reconciliation /\ r.pc = "hosts" /\ r.uid = rec[c].uid
        /\ r.spec = rec[c].spec /\ r.creds = rec[c].creds /\ r.authority = a
    BY <1>0, <2>1 DEF Reconciliation, Phase
  <2> HIDE DEF r
  <2>6. RecOK(c, r)
    BY <1>0, <2>3, <2>5 DEF RecOK, Provisioning, Read, Mounted, Authorized, Started,
           Reachable
  <2> QED BY <1>0, <2>4, <2>5, <2>6, OnlyRec
<1> QED BY <1>1, <1>2, <1>3 DEF DiscoverCertificates

\* list_apps succeeds or ends the reconciliation.
LEMMA ListAppsInv ==
  ASSUME Inv, NEW c \in Configs, ListApps(c)
  PROVE  Inv'
<1>0. /\ rec[c].pc = "list" /\ budget' \in [user: Nat, fail: Nat]
      /\ UNCHANGED <<cfg, objs, secrets, cache, history>>
      /\ RecOK(c, rec[c]) /\ rec[c] \in Reconciliation
  BY InvRecOK DEF ListApps, Inv, TypeOK
<1>1. CASE Goto(c, "status")
  <2> DEFINE r == [rec[c] EXCEPT !.pc = "status"]
  <2>1. /\ r.pc = "status" /\ r.uid = rec[c].uid /\ r.spec = rec[c].spec
        /\ r.creds = rec[c].creds /\ r.authority = rec[c].authority
    BY <1>0 DEF Reconciliation
  <2> HIDE DEF r
  <2>2. RecOK(c, r)
    BY <1>0, <2>1 DEF RecOK, Provisioning, Read, Mounted, Authorized, Started,
           Reachable
  <2> QED BY <1>0, <1>1, <2>2, GotoInv DEF Phase, r
<1>2. CASE Finish(c)
  BY <1>0, <1>2, FinishInv
<1> QED BY <1>1, <1>2 DEF ListApps

\* The status is reported when all is applied.
LEMMA PatchStatusInv ==
  ASSUME Inv, NEW c \in Configs, PatchStatus(c)
  PROVE  Inv'
<1> DEFINE r == [rec[c] EXCEPT !.pc = "connect"]
           e == [cfg[c] EXCEPT !.reported = TRUE]
<1>0. rec[c].pc = "status" /\ RecOK(c, rec[c]) /\ cfg[c] \in Config
      /\ rec[c] \in Reconciliation
  BY InvRecOK DEF PatchStatus, Inv, TypeOK
<1>1. /\ r \in Reconciliation /\ rec' = [rec EXCEPT ![c] = r]
      /\ r.pc = "connect" /\ r.uid = rec[c].uid /\ r.spec = rec[c].spec
      /\ r.creds = rec[c].creds /\ r.authority = rec[c].authority
  BY <1>0 DEF Inv, TypeOK, Reconciliation, Phase, Goto, PatchStatus
<1>2. /\ e \in Config /\ e.uid = cfg[c].uid /\ e.state = cfg[c].state
      /\ e.fin = cfg[c].fin /\ cfg' = [cfg EXCEPT ![c] = e]
  BY <1>0 DEF Config, PatchStatus
<1> HIDE DEF r, e
<1>3. TypeOK'
  BY <1>1, <1>2 DEF PatchStatus, Inv, TypeOK
<1>4. /\ rec'[c] = r /\ cfg'[c] = e
      /\ \A d \in Configs : d # c => rec'[d] = rec[d] /\ cfg'[d] = cfg[d]
  BY <1>1, <1>2 DEF Inv, TypeOK
<1>5. /\ \A d \in Configs : /\ cfg'[d].uid = cfg[d].uid /\ cfg'[d].state = cfg[d].state
                            /\ cfg'[d].fin = cfg[d].fin
      /\ \A d \in Configs : \A k : Current(d, k)' <=> Current(d, k)
      /\ \A d \in Configs : HostsRun(d)' <=> HostsRun(d)
  BY <1>2, <1>4 DEF PatchStatus, Current, HostsRun
<1>6. \A s : /\ HeldData(s) => HeldData(s)'
             /\ HeldRegistry(s) => HeldRegistry(s)'
             /\ HeldCertificates(s) => HeldCertificates(s)'
             /\ HeldCreds(s) => HeldCreds(s)'
  BY DEF PatchStatus, HeldData, HeldRegistry, HeldCertificates, HeldCreds
<1>7. /\ cfg[c].state # "absent" /\ HostsRun(c) /\ Current(c, "Service")
      /\ \A k \in Prerequisites : Current(c, k)
  BY <1>0 DEF RecOK, Prerequisites, Mounted, Authorized, Started, Reachable
<1>8. OwnerInv'
  BY <1>0, <1>1, <1>4, <1>5, <1>7 DEF PatchStatus, Inv, OwnerInv, Provisioning, Read,
         Mounted, Authorized, Started, Reachable
<1>9. AppliedInv' /\ CacheInv'
  BY <1>0, <1>1, <1>4, <1>5 DEF PatchStatus, Inv, AppliedInv, CacheInv, Mounted,
         Authorized, Started, Reachable
<1>10. SecretInv'
  BY <1>0, <1>1, <1>4, <1>6 DEF PatchStatus, Inv, SecretInv, Read, Mounted,
         Authorized, Started, Reachable
<1>11. PrerequisitesFirst' /\ ReportedMeansProvisioned'
  BY <1>4, <1>5, <1>7 DEF Inv, PrerequisitesFirst, ReportedMeansProvisioned
<1>12. SecretsRequired' /\ CacheOwned'
  BY <1>5, <1>6 DEF PatchStatus, Inv, SecretsRequired, CacheOwned
<1> QED BY <1>3, <1>8, <1>9, <1>10, <1>11, <1>12 DEF Inv

\* The finalizer goes when the cache entry has gone.
LEMMA RemoveFinalizerInv ==
  ASSUME Inv, NEW c \in Configs, RemoveFinalizer(c)
  PROVE  Inv'
<1>1. cache[c] = None
  BY DEF RemoveFinalizer, Inv, CacheInv
<1> QED BY <1>1, GoneInv DEF RemoveFinalizer
-----------------------------------------------------------------------------
\* Every step keeps the invariant.
LEMMA NextInv == Inv /\ [Next]_vars => Inv'
<1> SUFFICES ASSUME Inv, [Next]_vars PROVE Inv'
  OBVIOUS
<1>0. budget \in [user: Nat, fail: Nat]
  BY DEF Inv, TypeOK
<1>1. CASE User
  BY <1>1, CreateConfigInv, EditConfigInv, DeleteConfigInv, WriteSecretInv,
     DeleteSecretInv DEF User
<1>2. CASE \E c \in Configs : Reconcile(c)
  <2> PICK c \in Configs : Reconcile(c)
    BY <1>2
  <2>1. CASE Connect(c)
    <3>1. CASE LoseMemory
      BY <1>0, <2>1, <3>1, LoseMemoryInv DEF Connect
    <3>2. CASE Finish(c) /\ UNCHANGED cache
      BY <1>0, <2>1, <3>2, FinishInv DEF Connect
    <3> QED BY <2>1, <3>1, <3>2 DEF Connect
  <2> QED BY <2>1, AddFinalizerInv, BeginInv, GetConfigInv, ReadSecretInv,
            StoreNatsCredsInv, ConfigureInv, ReadRegistryInv,
            DiscoverCertificatesInv, ConfigureHostsInv, ListAppsInv,
            PatchStatusInv, CleanupInv, RemoveFinalizerInv DEF Reconcile
<1>3. CASE \E c \in Configs : ReconcileFails(c)
  <2> PICK c \in Configs : ReconcileFails(c)
    BY <1>3
  <2>1. budget' \in [user: Nat, fail: Nat]
    BY BudgetType DEF ReconcileFails, Inv
  <2> QED BY <2>1, FinishInv DEF ReconcileFails
<1>4. CASE \E c \in Configs, k \in Kinds : CollectGarbage(c, k)
  BY <1>4, CollectGarbageInv
<1>5. CASE Restart
  <2>1. budget' \in [user: Nat, fail: Nat]
    BY <1>5, BudgetType DEF Restart, Inv
  <2> QED BY <1>5, <2>1, LoseMemoryInv DEF Restart
<1>6. CASE UNCHANGED vars
  <2>1. TypeOK' /\ OwnerInv' /\ CacheInv'
    BY <1>6 DEF vars, Inv, TypeOK, OwnerInv, CacheInv
  <2>2. AppliedInv' /\ PrerequisitesFirst' /\ ReportedMeansProvisioned'
    BY <1>6 DEF vars, Inv, AppliedInv, PrerequisitesFirst, ReportedMeansProvisioned,
           HostsRun, Current
  <2>3. \A s : /\ HeldData(s) => HeldData(s)'
               /\ HeldRegistry(s) => HeldRegistry(s)'
               /\ HeldCertificates(s) => HeldCertificates(s)'
               /\ HeldCreds(s) => HeldCreds(s)'
    BY <1>6 DEF vars, HeldData, HeldRegistry, HeldCertificates, HeldCreds
  <2>4. SecretInv'
    BY <1>6, <2>3 DEF vars, Inv, SecretInv
  <2>5. SecretsRequired' /\ CacheOwned'
    BY <1>6, <2>3 DEF vars, Inv, SecretsRequired, CacheOwned
  <2> QED BY <2>1, <2>2, <2>4, <2>5 DEF Inv
<1> QED BY <1>1, <1>2, <1>3, <1>4, <1>5, <1>6 DEF Next

\* The inductive invariant holds: a reconciliation works for one incarnation of
\* its config and finds what it applied still there.
THEOREM InvCorrect == Spec => []Inv
BY InitInv, NextInv, PTL DEF Spec

\* Objects, Secrets, cache and reconciliations keep the shapes the code's types
\* give them, on every path.
THEOREM TypeCorrect == Spec => []TypeOK
<1>1. Inv => TypeOK
  BY DEF Inv
<1> QED BY <1>1, InvCorrect, PTL

\* Hosts are never started before what their pods need, whatever fails and
\* whatever a deleted namesake left.
THEOREM PrerequisitesFirstCorrect == Spec => []PrerequisitesFirst
<1>1. Inv => PrerequisitesFirst
  BY DEF Inv
<1> QED BY <1>1, InvCorrect, PTL

\* A reported status means provisioned hosts.
THEOREM ReportedCorrect == Spec => []ReportedMeansProvisioned
<1>1. Inv => ReportedMeansProvisioned
  BY DEF Inv
<1> QED BY <1>1, InvCorrect, PTL

\* No pod template names a Secret that was not there when the operator looked.
THEOREM SecretsRequiredCorrect == Spec => []SecretsRequired
<1>1. Inv => SecretsRequired
  BY DEF Inv
<1> QED BY <1>1, InvCorrect, PTL

\* The credentials cache holds no entry without a config whose cleanup removes it.
THEOREM CacheOwnedCorrect == Spec => []CacheOwned
<1>1. Inv => CacheOwned
  BY DEF Inv
<1> QED BY <1>1, InvCorrect, PTL

\* A reconciliation connects the Watcher with the credentials it has read and
\* listed the applications with.
THEOREM SameCredsCorrect == Spec => []SameCreds
<1>1. Inv => SameCreds
  BY DEF Inv, CacheInv, SameCreds, Mounted, Authorized, Started, Reachable
<1>2. QED
  BY <1>1, InvCorrect, PTL
===========================================================================
