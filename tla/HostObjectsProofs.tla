-------------------------- MODULE HostObjectsProofs --------------------------
(***************************************************************************)
(* HostProvisioning implements HostObjects, for any host configs, Secrets, *)
(* specs, contents and bounds.                                             *)
(***************************************************************************)
EXTENDS HostProvisioningProofs

(***************************************************************************)
(* What Inv does not say of the incarnations of configs.                   *)
(***************************************************************************)
IncarnationOK(c) ==
  /\ cfg[c].state = "absent" => ~cfg[c].fin
  /\ cfg[c].state # "absent" => cfg[c].uid > 0
  /\ rec[c].pc \in {"cleanup", "unfinalize"} => cfg[c].state = "deleting"

IncarnationInv == \A c \in Configs : IncarnationOK(c)

\* With the configs as they are, only the beginning of a cleanup matters.
LEMMA SameIncarnations ==
  ASSUME IncarnationInv, cfg' = cfg,
         \A c \in Configs : rec'[c].pc \in {"cleanup", "unfinalize"} =>
           \/ rec[c].pc \in {"cleanup", "unfinalize"}
           \/ cfg[c].state = "deleting"
  PROVE  IncarnationInv'
BY DEF IncarnationInv, IncarnationOK

\* What a reconciliation that goes on or ends is up to.
LEMMA RecSteps ==
  ASSUME TypeOK, NEW c \in Configs, NEW pc
  PROVE  /\ Goto(c, pc) => /\ rec'[c].pc = pc
                           /\ \A d \in Configs : d # c => rec'[d] = rec[d]
         /\ Finish(c) => /\ rec'[c].pc = "idle"
                         /\ \A d \in Configs : d # c => rec'[d] = rec[d]
         /\ LoseMemory => \A d \in Configs : rec'[d].pc = "idle"
BY DEF TypeOK, Goto, Finish, LoseMemory, Idle, Reconciliation

\* A step of a reconciliation leaves the incarnations in order.
LEMMA ReconcileIncarnation ==
  ASSUME TypeOK, OwnerInv, IncarnationInv, NEW c \in Configs,
         Reconcile(c) \/ ReconcileFails(c)
  PROVE  IncarnationInv'
<1>a. cfg[c] \in Config /\ IncarnationOK(c)
  BY DEF TypeOK, IncarnationInv
<1>b. ASSUME cfg' = cfg, NEW pc \in Phase \ {"cleanup", "unfinalize"}, Goto(c, pc)
      PROVE  IncarnationInv'
  BY <1>b, RecSteps, SameIncarnations
<1>c. ASSUME cfg' = cfg, Finish(c) PROVE IncarnationInv'
  BY <1>c, RecSteps, SameIncarnations
<1>d. ASSUME cfg' = cfg, LoseMemory PROVE IncarnationInv'
  BY <1>d, RecSteps, SameIncarnations
<1>1. CASE AddFinalizer(c)
  BY <1>1, <1>a DEF AddFinalizer, IncarnationInv, IncarnationOK, TypeOK, Config
<1>2. CASE BeginApply(c)
  BY <1>2, <1>b DEF BeginApply, Phase
<1>3. CASE GetConfig(c)
  <2>1. /\ rec'[c].pc = "secret" /\ cfg' = cfg
        /\ \A d \in Configs : d # c => rec'[d] = rec[d]
    BY <1>3 DEF GetConfig, TypeOK, Reconciliation
  <2> QED BY <2>1, SameIncarnations
<1>4. CASE ReadSecret(c)
  <2>1. CASE /\ rec[c].spec.secret # None /\ Usable(rec[c].spec.secret)
    <3>1. /\ rec'[c].pc \in {"ConfigMap", "store"} /\ cfg' = cfg
          /\ \A d \in Configs : d # c => rec'[d] = rec[d]
      BY <1>4, <2>1 DEF ReadSecret, TypeOK, Reconciliation
    <3> QED BY <3>1, SameIncarnations
  <2>2. CASE ~(/\ rec[c].spec.secret # None /\ Usable(rec[c].spec.secret))
    BY <1>4, <2>2, <1>b, <1>c DEF ReadSecret, Phase
  <2> QED BY <2>1, <2>2
<1>5. CASE StoreNatsCreds(c)
  BY <1>5, <1>b DEF StoreNatsCreds, Phase
<1>6. CASE ConfigureConfigMap(c) \/ ConfigureAuth(c) \/ ConfigureHosts(c) \/ ConfigureService(c)
  BY <1>6, <1>b
     DEF ConfigureConfigMap, ConfigureAuth, ConfigureHosts, ConfigureService, Apply, Phase
<1>7. CASE ReadRegistry(c)
  BY <1>7, <1>b, <1>c, <1>d DEF ReadRegistry, Phase
<1>8. CASE DiscoverCertificates(c)
  <2>1. CASE rec[c].spec.authority # None /\ secrets[rec[c].spec.authority] # None
    <3>1. /\ rec'[c].pc = "hosts" /\ cfg' = cfg
          /\ \A d \in Configs : d # c => rec'[d] = rec[d]
      BY <1>8, <2>1 DEF DiscoverCertificates, TypeOK, Reconciliation
    <3> QED BY <3>1, SameIncarnations
  <2>2. CASE ~(rec[c].spec.authority # None /\ secrets[rec[c].spec.authority] # None)
    BY <1>8, <2>2, <1>b, <1>c DEF DiscoverCertificates, Phase
  <2> QED BY <2>1, <2>2
<1>9. CASE ListApps(c)
  BY <1>9, <1>b, <1>c DEF ListApps, Phase
<1>10. CASE PatchStatus(c)
  <2>1. /\ rec'[c].pc = "connect"
        /\ \A d \in Configs : d # c => rec'[d] = rec[d]
    BY <1>10, RecSteps DEF PatchStatus
  <2>2. \A d \in Configs : /\ cfg'[d].state = cfg[d].state
                           /\ cfg'[d].fin = cfg[d].fin /\ cfg'[d].uid = cfg[d].uid
    BY <1>10 DEF PatchStatus, TypeOK, Config
  <2> QED BY <2>1, <2>2 DEF IncarnationInv, IncarnationOK
<1>11. CASE Connect(c)
  BY <1>11, <1>c, <1>d DEF Connect
<1>12. CASE BeginCleanup(c)
  BY <1>12, RecSteps, SameIncarnations DEF BeginCleanup
<1>13. CASE Cleanup(c)
  BY <1>13, RecSteps, SameIncarnations DEF Cleanup
<1>14. CASE RemoveFinalizer(c)
  <2>1. /\ rec'[c].pc = "idle"
        /\ \A d \in Configs : d # c => rec'[d] = rec[d]
    BY <1>14, RecSteps DEF RemoveFinalizer
  <2>2. /\ cfg'[c].state = "absent" /\ ~cfg'[c].fin
        /\ \A d \in Configs : d # c => cfg'[d] = cfg[d]
    BY <1>14 DEF RemoveFinalizer, TypeOK, NoConfig
  <2> QED BY <2>1, <2>2 DEF IncarnationInv, IncarnationOK
<1>15. CASE ReconcileFails(c)
  BY <1>15, <1>c DEF ReconcileFails
<1> QED BY <1>1, <1>2, <1>3, <1>4, <1>5, <1>6, <1>7, <1>8, <1>9, <1>10, <1>11,
          <1>12, <1>13, <1>14, <1>15 DEF Reconcile

\* Nor do users, the garbage collector or a restart.
LEMMA StepIncarnation == Inv /\ IncarnationInv /\ [Next]_vars => IncarnationInv'
<1> SUFFICES ASSUME Inv, IncarnationInv, [Next]_vars PROVE IncarnationInv'
  OBVIOUS
<1>a. TypeOK /\ OwnerInv
  BY DEF Inv
<1>1. ASSUME NEW c \in Configs, NEW spec \in Specs, CreateConfig(c, spec)
      PROVE  IncarnationInv'
  <2>1. /\ cfg'[c].state = "live" /\ cfg'[c].uid = cfg[c].uid + 1 /\ cfg[c].uid \in Nat
        /\ \A d \in Configs : d # c => cfg'[d] = cfg[d]
        /\ rec' = rec
    BY <1>1, <1>a DEF CreateConfig, TypeOK, Config
  <2>2. rec[c].pc = "idle"
    BY <1>1, <1>a DEF CreateConfig, OwnerInv
  <2> QED BY <2>1, <2>2 DEF IncarnationInv, IncarnationOK
<1>2. ASSUME NEW c \in Configs, NEW spec \in Specs, EditConfig(c, spec)
      PROVE  IncarnationInv'
  <2>1. \A d \in Configs : /\ cfg'[d].state = cfg[d].state /\ rec'[d] = rec[d]
                           /\ cfg'[d].fin = cfg[d].fin /\ cfg'[d].uid = cfg[d].uid
    BY <1>2, <1>a DEF EditConfig, TypeOK, Config
  <2> QED BY <2>1 DEF IncarnationInv, IncarnationOK
<1>3. ASSUME NEW c \in Configs, DeleteConfig(c) PROVE IncarnationInv'
  <2>1. /\ \A d \in Configs : d # c => cfg'[d] = cfg[d]
        /\ rec' = rec
    BY <1>3, <1>a DEF DeleteConfig, TypeOK
  <2>2. CASE cfg[c].fin
    <3>1. cfg'[c].state = "deleting" /\ cfg'[c].uid = cfg[c].uid
      BY <1>3, <1>a, <2>2 DEF DeleteConfig, TypeOK, Config
    <3> QED BY <1>3, <2>1, <3>1 DEF DeleteConfig, IncarnationInv, IncarnationOK
  <2>3. CASE ~cfg[c].fin
    <3>1. cfg'[c].state = "absent" /\ ~cfg'[c].fin
      BY <1>3, <1>a, <2>3 DEF DeleteConfig, TypeOK, NoConfig
    <3>2. rec[c].pc = "idle"
      BY <1>a, <2>3 DEF OwnerInv
    <3> QED BY <2>1, <3>1, <3>2 DEF IncarnationInv, IncarnationOK
  <2> QED BY <2>2, <2>3
<1>4. ASSUME NEW s \in Secrets, DeleteSecret(s) \/ \E d \in Contents : WriteSecret(s, d)
      PROVE  IncarnationInv'
  BY <1>4, SameIncarnations DEF DeleteSecret, WriteSecret
<1>5. ASSUME NEW c \in Configs, Reconcile(c) \/ ReconcileFails(c)
      PROVE  IncarnationInv'
  BY <1>5, <1>a, ReconcileIncarnation
<1>6. ASSUME NEW c \in Configs, NEW k \in Kinds, CollectGarbage(c, k)
      PROVE  IncarnationInv'
  BY <1>6, SameIncarnations DEF CollectGarbage
<1>7. CASE Restart
  BY <1>7, <1>a DEF Restart, LoseMemory, Idle, IncarnationInv, IncarnationOK
<1>8. CASE UNCHANGED vars
  BY <1>8, SameIncarnations DEF vars
<1> QED BY <1>1, <1>2, <1>3, <1>4, <1>5, <1>6, <1>7, <1>8 DEF Next, User
-----------------------------------------------------------------------------
(***************************************************************************)
(* The refinement.                                                         *)
(***************************************************************************)
\* An object belongs to the incarnation that is there.
LEMMA OwnsCurrent ==
  ASSUME IncarnationInv, NEW c \in Configs, NEW k \in Kinds
  PROVE  Kept!Owns(c, k) <=> Current(c, k)
BY DEF IncarnationInv, IncarnationOK, Kept!Owns, LiveUids, Owners, Current

\* What is mapped from what does not change does not change.
LEMMA KeptFrame ==
  /\ cfg' = cfg => UNCHANGED <<LiveUids, Uids, Guarded, Doomed, Reported>>
  /\ objs' = objs => Owners' = Owners
  /\ cache' = cache => Cached' = Cached
BY DEF LiveUids, Uids, Guarded, Doomed, Reported, Owners, Cached

\* Two functions that differ at one argument.
LEMMA Except1 ==
  ASSUME NEW S, NEW f, NEW g, NEW c \in S, NEW v,
         f = [x \in S |-> f[x]], g = [x \in S |-> g[x]],
         g[c] = v, \A x \in S : x # c => g[x] = f[x]
  PROVE  g = [f EXCEPT ![c] = v]
OBVIOUS

\* A change of one config changes what is mapped from it.
LEMMA KeptConfig ==
  ASSUME TypeOK, NEW c \in Configs, NEW d \in Config, cfg' = [cfg EXCEPT ![c] = d]
  PROVE  /\ LiveUids' = [LiveUids EXCEPT ![c] = IF d.state = "absent" THEN 0 ELSE d.uid]
         /\ Uids' = [Uids EXCEPT ![c] = d.uid]
         /\ Guarded' = IF d.fin THEN Guarded \cup {c} ELSE Guarded \ {c}
         /\ Doomed' = IF d.state = "deleting" THEN Doomed \cup {c} ELSE Doomed \ {c}
         /\ Reported' = IF d.reported THEN Reported \cup {c} ELSE Reported \ {c}
<1>1. cfg'[c] = d /\ \A x \in Configs : x # c => cfg'[x] = cfg[x]
  BY DEF TypeOK
<1>2. LiveUids' = [LiveUids EXCEPT ![c] = IF d.state = "absent" THEN 0 ELSE d.uid]
  <2> DEFINE new == IF d.state = "absent" THEN 0 ELSE d.uid
  <2>1. LiveUids' = [x \in Configs |-> IF cfg'[x].state = "absent" THEN 0 ELSE cfg'[x].uid]
    BY DEF LiveUids
  <2>2. LiveUids'[c] = new
    BY <1>1, <2>1
  <2>3. \A x \in Configs : x # c => LiveUids'[x] = LiveUids[x]
    BY <1>1, <2>1 DEF LiveUids
  <2>4. /\ LiveUids' = [x \in Configs |-> LiveUids'[x]]
        /\ LiveUids = [x \in Configs |-> LiveUids[x]]
    BY <2>1 DEF LiveUids
  <2> QED BY <2>2, <2>3, <2>4, Except1
<1>3. Uids' = [Uids EXCEPT ![c] = d.uid]
  <2>1. Uids' = [x \in Configs |-> cfg'[x].uid]
    BY DEF Uids
  <2>2. Uids'[c] = d.uid
    BY <1>1, <2>1
  <2>3. \A x \in Configs : x # c => Uids'[x] = Uids[x]
    BY <1>1, <2>1 DEF Uids
  <2>4. /\ Uids' = [x \in Configs |-> Uids'[x]]
        /\ Uids = [x \in Configs |-> Uids[x]]
    BY <2>1 DEF Uids
  <2> QED BY <2>2, <2>3, <2>4, Except1
<1>4. Guarded' = IF d.fin THEN Guarded \cup {c} ELSE Guarded \ {c}
  BY <1>1 DEF Guarded
<1>5. Doomed' = IF d.state = "deleting" THEN Doomed \cup {c} ELSE Doomed \ {c}
  BY <1>1 DEF Doomed
<1>6. Reported' = IF d.reported THEN Reported \cup {c} ELSE Reported \ {c}
  BY <1>1 DEF Reported
<1> QED BY <1>2, <1>3, <1>4, <1>5, <1>6

\* What is mapped from one config, read back.
LEMMA KeptFacts ==
  ASSUME TypeOK, NEW c \in Configs
  PROVE  /\ LiveUids[c] = IF cfg[c].state = "absent" THEN 0 ELSE cfg[c].uid
         /\ Uids[c] = cfg[c].uid
         /\ c \in Guarded <=> cfg[c].fin
         /\ c \in Doomed <=> cfg[c].state = "deleting"
         /\ c \in Reported <=> cfg[c].reported
         /\ c \in Cached <=> cache[c] # None
BY DEF LiveUids, Uids, Guarded, Doomed, Reported, Cached

\* A step that changes neither configs, objects nor cache changes nothing.
LEMMA KeptStutter ==
  ASSUME UNCHANGED <<cfg, objs, cache>> PROVE UNCHANGED Kept!vars
BY KeptFrame DEF Kept!vars

\* A cache that only loses entries is forgotten.
LEMMA KeptForget ==
  ASSUME UNCHANGED <<cfg, objs>>,
         \A c \in Configs : cache'[c] # None => cache[c] # None
  PROVE  Kept!Next
<1>1. Cached' \subseteq Cached
  BY DEF Cached
<1>2. Kept!Forget
  BY <1>1, KeptFrame DEF Kept!Forget
<1> QED BY <1>2 DEF Kept!Next

\* A config goes under the name it had.
LEMMA KeptGone ==
  ASSUME TypeOK, NEW c \in Configs, cache[c] = None,
         cfg' = [cfg EXCEPT ![c] = NoConfig(cfg[c].uid)], UNCHANGED <<objs, cache>>
  PROVE  Kept!Gone(c)
<1> DEFINE d == NoConfig(cfg[c].uid)
<1>1. /\ cfg' = [cfg EXCEPT ![c] = d] /\ d \in Config
      /\ d.state = "absent" /\ ~d.fin /\ d.uid = cfg[c].uid /\ ~d.reported
  BY DEF TypeOK, Config, NoConfig, NoSpec, HostSpec
<1> HIDE DEF d
<1>2. /\ LiveUids' = [LiveUids EXCEPT ![c] = IF d.state = "absent" THEN 0 ELSE d.uid]
      /\ Uids' = [Uids EXCEPT ![c] = d.uid]
      /\ Guarded' = IF d.fin THEN Guarded \cup {c} ELSE Guarded \ {c}
      /\ Doomed' = IF d.state = "deleting" THEN Doomed \cup {c} ELSE Doomed \ {c}
      /\ Reported' = IF d.reported THEN Reported \cup {c} ELSE Reported \ {c}
  BY <1>1, KeptConfig
<1>3. Uids[c] = cfg[c].uid /\ c \notin Cached
  BY KeptFacts
<1>4. Uids' = Uids
  BY <1>1, <1>2, <1>3 DEF Uids
<1>5. Owners' = Owners /\ Cached' = Cached
  BY KeptFrame
<1> QED BY <1>1, <1>2, <1>3, <1>4, <1>5 DEF Kept!Gone

\* A config that is there changes, and stays the incarnation it is.
LEMMA KeptSame ==
  ASSUME TypeOK, NEW c \in Configs, NEW d \in Config, cfg' = [cfg EXCEPT ![c] = d],
         d.uid = cfg[c].uid, d.state = cfg[c].state
  PROVE  /\ LiveUids' = LiveUids /\ Uids' = Uids /\ Doomed' = Doomed
         /\ Guarded' = IF d.fin THEN Guarded \cup {c} ELSE Guarded \ {c}
         /\ Reported' = IF d.reported THEN Reported \cup {c} ELSE Reported \ {c}
<1>1. cfg'[c] = d /\ \A x \in Configs : x # c => cfg'[x] = cfg[x]
  BY DEF TypeOK
<1>2. \A x \in Configs : cfg'[x].uid = cfg[x].uid /\ cfg'[x].state = cfg[x].state
  BY <1>1
<1>3. LiveUids' = LiveUids /\ Uids' = Uids /\ Doomed' = Doomed
  BY <1>2 DEF LiveUids, Uids, Doomed
<1> QED BY <1>3, KeptConfig

\* Users' changes.
LEMMA UserKept ==
  ASSUME Inv, IncarnationInv, User
  PROVE  Kept!Next \/ UNCHANGED Kept!vars
<1>a. TypeOK /\ OwnerInv
  BY DEF Inv
<1>1. ASSUME NEW c \in Configs, NEW spec \in Specs, CreateConfig(c, spec)
      PROVE  Kept!Next
  <2> DEFINE d == [state |-> "live", fin |-> FALSE, uid |-> cfg[c].uid + 1,
                   spec |-> spec, reported |-> FALSE]
  <2>1. cfg[c] \in Config /\ cfg[c].state = "absent" /\ cfg' = [cfg EXCEPT ![c] = d]
    BY <1>1, <1>a DEF CreateConfig, TypeOK
  <2>2. /\ d \in Config /\ d.state = "live" /\ ~d.fin /\ ~d.reported
        /\ d.uid = cfg[c].uid + 1
    BY <2>1, ProvisioningAssumption DEF Config
  <2> HIDE DEF d
  <2>3. c \notin Guarded /\ c \notin Doomed /\ c \notin Reported
        /\ LiveUids[c] = 0 /\ Uids[c] = cfg[c].uid
    BY <1>a, <2>1, KeptFacts DEF IncarnationInv, IncarnationOK, OwnerInv
  <2>4. /\ LiveUids' = [LiveUids EXCEPT ![c] = cfg[c].uid + 1]
        /\ Uids' = [Uids EXCEPT ![c] = cfg[c].uid + 1]
        /\ Guarded' = Guarded /\ Doomed' = Doomed /\ Reported' = Reported
    <3>1. /\ LiveUids' = [LiveUids EXCEPT ![c] = IF d.state = "absent" THEN 0 ELSE d.uid]
          /\ Uids' = [Uids EXCEPT ![c] = d.uid]
          /\ Guarded' = IF d.fin THEN Guarded \cup {c} ELSE Guarded \ {c}
          /\ Doomed' = IF d.state = "deleting" THEN Doomed \cup {c} ELSE Doomed \ {c}
          /\ Reported' = IF d.reported THEN Reported \cup {c} ELSE Reported \ {c}
      BY <1>a, <2>1, <2>2, KeptConfig
    <3> QED BY <2>2, <2>3, <3>1
  <2>5. Owners' = Owners /\ Cached' = Cached
    BY <1>1, KeptFrame DEF CreateConfig
  <2>6. Kept!Create(c)
    BY <2>3, <2>4, <2>5 DEF Kept!Create, Uids
  <2> QED BY <2>6 DEF Kept!Next
<1>2. ASSUME NEW c \in Configs, NEW spec \in Specs, EditConfig(c, spec)
      PROVE  UNCHANGED Kept!vars
  <2>1. \A x \in Configs : /\ cfg'[x].state = cfg[x].state /\ cfg'[x].fin = cfg[x].fin
                           /\ cfg'[x].uid = cfg[x].uid
                           /\ cfg'[x].reported = cfg[x].reported
    BY <1>2, <1>a DEF EditConfig, TypeOK, Config
  <2>2. UNCHANGED <<LiveUids, Uids, Guarded, Doomed, Reported>>
    BY <2>1 DEF LiveUids, Uids, Guarded, Doomed, Reported
  <2>3. Owners' = Owners /\ Cached' = Cached
    BY <1>2, KeptFrame DEF EditConfig
  <2> QED BY <2>2, <2>3 DEF Kept!vars
<1>3. ASSUME NEW c \in Configs, DeleteConfig(c) PROVE Kept!Next
  <2>1. /\ cfg[c] \in Config /\ cfg[c].state = "live" /\ cfg[c].uid > 0
        /\ Owners' = Owners /\ Cached' = Cached
    BY <1>3, <1>a, KeptFrame DEF DeleteConfig, TypeOK, IncarnationInv, IncarnationOK
  <2>2. CASE cfg[c].fin
    <3> DEFINE d == [cfg[c] EXCEPT !.state = "deleting"]
    <3>1. /\ cfg' = [cfg EXCEPT ![c] = d] /\ d \in Config
          /\ d.state = "deleting" /\ d.fin = cfg[c].fin /\ d.uid = cfg[c].uid
          /\ d.reported = cfg[c].reported
      BY <1>3, <2>1, <2>2 DEF DeleteConfig, Config
    <3> HIDE DEF d
    <3>2. /\ Doomed' = Doomed \cup {c} /\ Guarded' = Guarded
          /\ Reported' = Reported /\ Uids' = Uids /\ LiveUids' = LiveUids
      <4>1. /\ LiveUids' = [LiveUids EXCEPT ![c] = IF d.state = "absent" THEN 0 ELSE d.uid]
            /\ Uids' = [Uids EXCEPT ![c] = d.uid]
            /\ Guarded' = IF d.fin THEN Guarded \cup {c} ELSE Guarded \ {c}
            /\ Doomed' = IF d.state = "deleting" THEN Doomed \cup {c} ELSE Doomed \ {c}
            /\ Reported' = IF d.reported THEN Reported \cup {c} ELSE Reported \ {c}
        BY <1>a, <3>1, KeptConfig
      <4>2. /\ LiveUids[c] = cfg[c].uid /\ Uids[c] = cfg[c].uid
            /\ c \in Guarded /\ (c \in Reported <=> cfg[c].reported)
        BY <1>a, <2>1, <2>2, KeptFacts
      <4>3. LiveUids' = LiveUids
        BY <2>1, <3>1, <4>1, <4>2 DEF LiveUids
      <4>4. Uids' = Uids
        BY <3>1, <4>1, <4>2 DEF Uids
      <4> QED BY <2>2, <3>1, <4>1, <4>2, <4>3, <4>4
    <3>3. c \in Guarded \ Doomed
      BY <1>a, <2>1, <2>2, KeptFacts
    <3>4. Kept!Delete(c)
      BY <2>1, <3>2, <3>3 DEF Kept!Delete
    <3> QED BY <3>4 DEF Kept!Next
  <2>3. CASE ~cfg[c].fin
    <3>1. cache[c] = None
      BY <1>a, <2>3 DEF Inv, CacheOwned
    <3>2. Kept!Gone(c)
      BY <1>3, <1>a, <2>3, <3>1, KeptGone DEF DeleteConfig
    <3>3. c \notin Guarded /\ LiveUids[c] # 0
      BY <1>a, <2>1, <2>3, KeptFacts
    <3>4. Kept!Delete(c)
      BY <3>2, <3>3 DEF Kept!Delete
    <3> QED BY <3>4 DEF Kept!Next
  <2> QED BY <2>2, <2>3
<1>4. ASSUME NEW s \in Secrets, DeleteSecret(s) \/ \E d \in Contents : WriteSecret(s, d)
      PROVE  UNCHANGED Kept!vars
  BY <1>4, KeptStutter DEF DeleteSecret, WriteSecret
<1> QED BY <1>1, <1>2, <1>3, <1>4 DEF User

\* One object changes.
LEMMA KeptObject ==
  ASSUME TypeOK, NEW c \in Configs, NEW k \in Kinds, NEW o,
         objs' = [objs EXCEPT ![c][k] = o]
  PROVE  Owners' = [Owners EXCEPT ![c][k] = IF o = None THEN {} ELSE {o.owner}]
<1>1. /\ \A x \in Configs : x # c => objs'[x] = objs[x]
      /\ \A y \in Kinds : objs'[c][y] = IF y = k THEN o ELSE objs[c][y]
  BY DEF TypeOK
<1> DEFINE mapped(x) == [y \in Kinds |-> IF objs[x][y] = None THEN {}
                                                          ELSE {objs[x][y].owner}]
           new == IF o = None THEN {} ELSE {o.owner}
<1>2. Owners = [x \in Configs |-> mapped(x)]
  BY DEF Owners
<1>3. Owners' = [x \in Configs |-> [y \in Kinds |->
          IF objs'[x][y] = None THEN {} ELSE {objs'[x][y].owner}]]
  BY DEF Owners
<1>4. \A x \in Configs : x # c => Owners'[x] = mapped(x)
  BY <1>1, <1>3
<1>5. Owners'[c] = [mapped(c) EXCEPT ![k] = new]
  <2>1. Owners'[c] = [y \in Kinds |->
          IF objs'[c][y] = None THEN {} ELSE {objs'[c][y].owner}]
    BY <1>3
  <2>2. \A y \in Kinds : (IF objs'[c][y] = None THEN {} ELSE {objs'[c][y].owner})
                            = IF y = k THEN new ELSE mapped(c)[y]
    BY <1>1
  <2>3. Owners'[c] = [y \in Kinds |-> IF y = k THEN new ELSE mapped(c)[y]]
    BY <2>1, <2>2
  <2>4. mapped(c) = [y \in Kinds |-> mapped(c)[y]]
    OBVIOUS
  <2> HIDE DEF mapped, new
  <2> QED BY <2>3, <2>4
<1> HIDE DEF mapped, new
<1>6. Owners' = [Owners EXCEPT ![c] = [mapped(c) EXCEPT ![k] = new]]
  BY <1>2, <1>3, <1>4, <1>5
<1>7. Owners[c] = mapped(c)
  BY <1>2
<1> QED BY <1>6, <1>7 DEF new

\* Objects are applied for the incarnation that is there.
LEMMA ApplyKept ==
  ASSUME Inv, IncarnationInv, NEW c \in Configs, NEW k \in Kinds, NEW o \in Object,
         NEW next, Apply(c, k, o, next), o.owner = rec[c].uid,
         \/ k \in Prerequisites /\ rec[c].pc \in Provisioning
         \/ k \in {"Deployment", "DaemonSet"} /\ rec[c].pc = "hosts"
         \/ k = "Service" /\ rec[c].pc = "Service"
  PROVE  Kept!Next
<1>1. RecOK(c, rec[c]) /\ TypeOK
  BY InvRecOK DEF Inv
<1>2. rec[c].pc \in Provisioning /\ rec[c].pc # "idle"
  BY DEF Provisioning, Read, Mounted, Authorized, Started, Reachable
<1>3. /\ cfg[c].state # "absent" /\ cfg[c].fin /\ o.owner = cfg[c].uid /\ cfg[c].uid > 0
  BY <1>1, <1>2 DEF RecOK, IncarnationInv, IncarnationOK
<1>4. Owners' = [Owners EXCEPT ![c][k] = {o.owner}]
  <2>1. o # None
    BY ObjectAssumption
  <2>2. objs' = [objs EXCEPT ![c][k] = o]
    BY DEF Apply
  <2> QED BY <1>1, <2>1, <2>2, KeptObject
<1>5. LiveUids[c] = o.owner /\ LiveUids[c] # 0 /\ c \in Guarded
  BY <1>1, <1>3, KeptFacts DEF TypeOK, Config
<1>6. k \notin Prerequisites => Kept!Ready(c)
  <2>1. k \notin Prerequisites => \A p \in Prerequisites : Current(c, p)
    BY <1>1 DEF RecOK, Prerequisites, Authorized, Mounted, Started, Reachable
  <2>2. Prerequisites \subseteq Kinds
    BY DEF Prerequisites, Kinds
  <2> QED BY <2>1, <2>2, OwnsCurrent DEF Kept!Ready
<1>7. k \notin Prerequisites \cup {"Deployment", "DaemonSet"} => Kept!Running(c)
  <2>1. k \notin Prerequisites \cup {"Deployment", "DaemonSet"} => HostsRun(c)
    BY <1>1 DEF RecOK, Started, Reachable
  <2> QED BY <2>1, OwnsCurrent DEF Kept!Running, HostsRun, Kinds
<1>8. Kept!Apply(c, k)
  <2>1. k \in {"Deployment", "DaemonSet"} => k \notin Prerequisites
    BY DEF Prerequisites
  <2>2. UNCHANGED <<LiveUids, Uids, Guarded, Doomed, Reported, Cached>>
    BY KeptFrame DEF Apply
  <2> QED BY <1>4, <1>5, <1>6, <1>7, <2>1, <2>2 DEF Kept!Apply
<1> QED BY <1>8 DEF Kept!Next
-----------------------------------------------------------------------------
\* The finalizer is added.
LEMMA AddFinalizerKept ==
  ASSUME Inv, IncarnationInv, NEW c \in Configs, AddFinalizer(c) PROVE Kept!Next
<1> DEFINE d == [cfg[c] EXCEPT !.fin = TRUE]
<1>1. TypeOK /\ cfg[c] \in Config /\ cfg[c].state = "live" /\ cfg[c].uid > 0
  BY DEF AddFinalizer, Inv, TypeOK, IncarnationInv, IncarnationOK
<1>2. /\ cfg' = [cfg EXCEPT ![c] = d] /\ d \in Config /\ d.fin
      /\ d.state = cfg[c].state /\ d.uid = cfg[c].uid /\ d.reported = cfg[c].reported
  BY <1>1 DEF AddFinalizer, Config
<1> HIDE DEF d
<1>3. /\ LiveUids' = LiveUids /\ Uids' = Uids /\ Doomed' = Doomed
      /\ Guarded' = IF d.fin THEN Guarded \cup {c} ELSE Guarded \ {c}
      /\ Reported' = IF d.reported THEN Reported \cup {c} ELSE Reported \ {c}
  BY <1>1, <1>2, KeptSame
<1>4. LiveUids[c] # 0 /\ c \notin Doomed /\ (c \in Reported <=> cfg[c].reported)
  BY <1>1, KeptFacts
<1>5. Owners' = Owners /\ Cached' = Cached
  BY KeptFrame DEF AddFinalizer
<1>6. Guarded' = Guarded \cup {c} /\ Reported' = Reported
  <2>1. Reported \subseteq Configs /\ d.reported = cfg[c].reported
    BY <1>2 DEF Reported
  <2> QED BY <1>2, <1>3, <1>4, <2>1
<1>7. Kept!Guard(c)
  BY <1>3, <1>4, <1>5, <1>6 DEF Kept!Guard
<1> QED BY <1>7 DEF Kept!Next

\* The credentials are cached.
LEMMA StoreKept ==
  ASSUME Inv, NEW c \in Configs, StoreNatsCreds(c) PROVE Kept!Next
<1>1. /\ TypeOK /\ cfg[c].fin
      /\ cache'[c] = rec[c].creds
      /\ \A x \in Configs : x # c => cache'[x] = cache[x]
  BY DEF StoreNatsCreds, Inv, OwnerInv, TypeOK
<1>2. CASE rec[c].creds = None
  BY <1>1, <1>2, KeptForget DEF StoreNatsCreds
<1>3. CASE rec[c].creds # None
  <2>1. Cached' = Cached \cup {c}
    BY <1>1, <1>3 DEF Cached
  <2>2. c \in Guarded
    BY <1>1 DEF Guarded
  <2>3. UNCHANGED <<LiveUids, Uids, Guarded, Doomed, Reported, Owners>>
    BY KeptFrame DEF StoreNatsCreds
  <2>4. Kept!Remember(c)
    BY <2>1, <2>2, <2>3 DEF Kept!Remember
  <2> QED BY <2>4 DEF Kept!Next
<1> QED BY <1>2, <1>3

\* The objects are applied.
LEMMA ConfigureKept ==
  ASSUME Inv, IncarnationInv, NEW c \in Configs,
         \/ ConfigureConfigMap(c) \/ ConfigureAuth(c)
         \/ ConfigureHosts(c) \/ ConfigureService(c)
  PROVE  Kept!Next
<1>1. rec[c] \in Reconciliation /\ rec[c].uid \in Nat
  BY DEF Inv, TypeOK, Reconciliation
<1>2. {"ConfigMap", "ServiceAccount", "Role", "RoleBinding"} \subseteq Provisioning
  BY DEF Provisioning, Read, Mounted
<1>3. CASE ConfigureConfigMap(c)
  <2> DEFINE obj == [Bare(rec[c].uid) EXCEPT !.credentials = rec[c].creds # None]
  <2>1. obj \in Object /\ obj.owner = rec[c].uid
    BY <1>1, BareType
  <2>2. Apply(c, "ConfigMap", obj, "ServiceAccount") /\ rec[c].pc = "ConfigMap"
    BY <1>3 DEF ConfigureConfigMap
  <2> HIDE DEF obj
  <2> QED BY <1>2, <2>1, <2>2, ApplyKept DEF Kinds, Prerequisites
<1>4. CASE ConfigureAuth(c)
  BY <1>1, <1>2, <1>4, BareType, ApplyKept DEF ConfigureAuth, Kinds, Prerequisites
<1>5. CASE ConfigureHosts(c)
  <2> DEFINE kind == IF rec[c].spec.daemonset THEN "DaemonSet" ELSE "Deployment"
             obj == Hosts(c)
  <2>1. obj \in Object /\ obj.owner = rec[c].uid
    BY <1>1 DEF Hosts, Bare, Object, Reconciliation, HostSpec
  <2>2. /\ kind \in {"Deployment", "DaemonSet"} /\ Apply(c, kind, obj, "Service")
        /\ rec[c].pc = "hosts"
    BY <1>5 DEF ConfigureHosts
  <2> HIDE DEF kind, obj
  <2> QED BY <2>1, <2>2, ApplyKept DEF Kinds
<1>6. CASE ConfigureService(c)
  BY <1>1, <1>6, BareType, ApplyKept DEF ConfigureService, Kinds
<1> QED BY <1>3, <1>4, <1>5, <1>6

\* The status is written.
LEMMA PatchStatusKept ==
  ASSUME Inv, IncarnationInv, NEW c \in Configs, PatchStatus(c) PROVE Kept!Next
<1> DEFINE d == [cfg[c] EXCEPT !.reported = TRUE]
<1>1. /\ TypeOK /\ cfg[c] \in Config /\ rec[c].pc = "status" /\ RecOK(c, rec[c])
  BY InvRecOK DEF PatchStatus, Inv, TypeOK
<1>2. /\ cfg' = [cfg EXCEPT ![c] = d] /\ d \in Config /\ d.reported
      /\ d.state = cfg[c].state /\ d.uid = cfg[c].uid /\ d.fin = cfg[c].fin
  BY <1>1 DEF PatchStatus, Config
<1> HIDE DEF d
<1>3. /\ LiveUids' = LiveUids /\ Uids' = Uids /\ Doomed' = Doomed
      /\ Guarded' = IF d.fin THEN Guarded \cup {c} ELSE Guarded \ {c}
      /\ Reported' = IF d.reported THEN Reported \cup {c} ELSE Reported \ {c}
  BY <1>1, <1>2, KeptSame
<1>4. /\ cfg[c].fin /\ HostsRun(c) /\ Current(c, "Service")
      /\ \A k \in Prerequisites : Current(c, k)
  BY <1>1 DEF RecOK, Prerequisites, Mounted, Authorized, Started, Reachable
<1>5. \A k \in Kinds : Current(c, k) => Kept!Owns(c, k)
  BY OwnsCurrent
<1>6. \A k \in Prerequisites \cup {"Service"} : Kept!Owns(c, k)
  BY <1>4, <1>5 DEF Prerequisites, Kinds
<1>7. Kept!Running(c)
  BY <1>4, <1>5 DEF Kept!Running, HostsRun, Kinds
<1>8. Owners' = Owners /\ Cached' = Cached /\ Guarded' = Guarded /\ c \in Guarded
  <2>1. Guarded' = Guarded /\ c \in Guarded
    BY <1>2, <1>3, <1>4 DEF Guarded
  <2> QED BY <2>1, KeptFrame DEF PatchStatus
<1>9. \A k \in Kinds \ {"Deployment", "DaemonSet"} : k \in Prerequisites \cup {"Service"}
  BY DEF Kinds, Prerequisites
<1>10. Kept!Report(c)
  BY <1>2, <1>3, <1>6, <1>7, <1>8, <1>9 DEF Kept!Report, Kept!Ready
<1> QED BY <1>10 DEF Kept!Next

\* The finalizer goes, and the config with it.
LEMMA RemoveFinalizerKept ==
  ASSUME Inv, IncarnationInv, NEW c \in Configs, RemoveFinalizer(c) PROVE Kept!Next
<1>1. /\ TypeOK /\ rec[c].pc = "unfinalize" /\ cfg[c].state = "deleting"
      /\ cfg[c].fin /\ cache[c] = None
  BY DEF RemoveFinalizer, Inv, IncarnationInv, IncarnationOK, OwnerInv, CacheInv
<1>2. c \in Doomed \cap Guarded
  BY <1>1, KeptFacts
<1>3. Kept!Gone(c)
  BY <1>1, KeptGone DEF RemoveFinalizer
<1>4. Kept!Release(c)
  BY <1>2, <1>3 DEF Kept!Release
<1> QED BY <1>4 DEF Kept!Next

\* The operator forgets what it had in memory.
LEMMA LoseMemoryKept ==
  ASSUME LoseMemory, UNCHANGED <<cfg, objs>> PROVE Kept!Next
BY KeptForget DEF LoseMemory

\* A step of a reconciliation is one of HostObjects, or none.
LEMMA ReconcileKept ==
  ASSUME Inv, IncarnationInv, NEW c \in Configs, Reconcile(c) \/ ReconcileFails(c)
  PROVE  Kept!Next \/ UNCHANGED Kept!vars
<1>1. CASE AddFinalizer(c) \/ StoreNatsCreds(c) \/ PatchStatus(c) \/ RemoveFinalizer(c)
  BY <1>1, AddFinalizerKept, StoreKept, PatchStatusKept, RemoveFinalizerKept
<1>2. CASE \/ ConfigureConfigMap(c) \/ ConfigureAuth(c)
           \/ ConfigureHosts(c) \/ ConfigureService(c)
  BY <1>2, ConfigureKept
<1>3. CASE \/ BeginApply(c) \/ GetConfig(c) \/ ReadSecret(c) \/ DiscoverCertificates(c)
           \/ ListApps(c) \/ BeginCleanup(c) \/ ReconcileFails(c)
  BY <1>3, KeptStutter DEF BeginApply, GetConfig, ReadSecret, DiscoverCertificates,
         ListApps, BeginCleanup, ReconcileFails
<1>4. CASE ReadRegistry(c)
  BY <1>4, KeptStutter, LoseMemoryKept DEF ReadRegistry
<1>5. CASE Connect(c)
  BY <1>5, KeptStutter, LoseMemoryKept DEF Connect
<1>6. CASE Cleanup(c)
  <2>1. \A x \in Configs : cache'[x] # None => cache[x] # None
    BY <1>6 DEF Cleanup, Inv, TypeOK
  <2> QED BY <1>6, <2>1, KeptForget DEF Cleanup
<1> QED BY <1>1, <1>2, <1>3, <1>4, <1>5, <1>6 DEF Reconcile

\* The garbage collector takes only what no incarnation owns.
LEMMA CollectGarbageKept ==
  ASSUME Inv, IncarnationInv, NEW c \in Configs, NEW k \in Kinds, CollectGarbage(c, k)
  PROVE  Kept!Next
<1>1. Owners' = [Owners EXCEPT ![c][k] = {}]
  BY KeptObject DEF CollectGarbage, Inv
<1>2. ~Kept!Owns(c, k)
  BY OwnsCurrent DEF CollectGarbage
<1>3. UNCHANGED <<LiveUids, Uids, Guarded, Doomed, Reported, Cached>>
  BY KeptFrame DEF CollectGarbage
<1>4. Kept!Collect(c, k)
  BY <1>1, <1>2, <1>3 DEF Kept!Collect
<1> QED BY <1>4 DEF Kept!Next

\* Every step is one of HostObjects, or none.
LEMMA NextKept ==
  ASSUME Inv, IncarnationInv, [Next]_vars
  PROVE  [Kept!Next]_(Kept!vars)
<1>1. CASE User
  BY <1>1, UserKept
<1>2. ASSUME NEW c \in Configs, Reconcile(c) \/ ReconcileFails(c)
      PROVE  Kept!Next \/ UNCHANGED Kept!vars
  BY <1>2, ReconcileKept
<1>3. ASSUME NEW c \in Configs, NEW k \in Kinds, CollectGarbage(c, k) PROVE Kept!Next
  BY <1>3, CollectGarbageKept
<1>4. CASE Restart
  BY <1>4, LoseMemoryKept DEF Restart
<1>5. CASE UNCHANGED vars
  BY <1>5, KeptStutter DEF vars
<1> QED BY <1>1, <1>2, <1>3, <1>4, <1>5 DEF Next

\* In the beginning there is nothing.
LEMMA InitKept == Init => IncarnationInv /\ Kept!Init
<1> SUFFICES ASSUME Init PROVE IncarnationInv /\ Kept!Init
  OBVIOUS
<1>1. \A c \in Configs :
        /\ cfg[c].state = "absent" /\ ~cfg[c].fin /\ cfg[c].uid = 0
        /\ ~cfg[c].reported /\ rec[c].pc = "idle" /\ cache[c] = None
        /\ \A k \in Kinds : objs[c][k] = None
  BY DEF Init, NoConfig, Idle
<1>2. IncarnationInv
  BY <1>1 DEF IncarnationInv, IncarnationOK
<1>3. LiveUids = [c \in Configs |-> 0] /\ Uids = [c \in Configs |-> 0]
  BY <1>1 DEF LiveUids, Uids
<1>4. Guarded = {} /\ Doomed = {} /\ Reported = {} /\ Cached = {}
  BY <1>1 DEF Guarded, Doomed, Reported, Cached
<1>5. Owners = [c \in Configs |-> [k \in Kinds |-> {}]]
  BY <1>1 DEF Owners
<1>6. Kept!Init
  BY <1>3, <1>4, <1>5 DEF Kept!Init
<1> QED BY <1>2, <1>6

\* The invariant with the incarnations holds throughout.
LEMMA IncarnationCorrect == Spec => [](Inv /\ IncarnationInv)
<1>1. Init => Inv /\ IncarnationInv
  BY InitInv, InitKept
<1>2. Inv /\ IncarnationInv /\ [Next]_vars => (Inv /\ IncarnationInv)'
  BY NextInv, StepIncarnation
<1> QED BY <1>1, <1>2, PTL DEF Spec

\* HostProvisioning implements HostObjects: whatever fails, restarts or is
\* edited, deleted and created again between the calls of a reconciliation, an
\* object is applied for the incarnation that is there, when what it needs is,
\* and stays as long as that one does.
THEOREM KeepsHostsCorrect == Spec => KeepsHosts
<1>1. Init => Kept!Init
  BY InitKept
<1>2. (Inv /\ IncarnationInv) /\ [Next]_vars => [Kept!Next]_(Kept!vars)
  BY NextKept
<1> QED BY <1>1, <1>2, IncarnationCorrect, PTL DEF Spec, KeepsHosts, Kept!Spec
=============================================================================
