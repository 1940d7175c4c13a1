----------------------- MODULE ServiceEndpointsProofs -----------------------
(***************************************************************************)
(* Proofs about ServiceEndpoints, for any configs, pods, addresses, ports, *)
(* labels and manifests and any bounds: the state keeps its types, the     *)
(* EndpointSlice sends traffic to hosts of the lattice only, and the       *)
(* Service has a port that an httpserver of a deployed manifest declares.  *)
(***************************************************************************)
EXTENDS ServiceEndpoints, TLAPS

(***************************************************************************)
(* The manifest algorithm.                                                 *)
(***************************************************************************)
\* A first trait is one of the component's traits, and of the type.
LEMMA FirstTraitIn ==
  ASSUME NEW c, NEW type, NEW t \in FirstTrait(c, type)
  PROVE  t \in ToSet(c.traits) /\ t.type = type
BY DEF FirstTrait, ToSet

\* The traits of a component.
LEMMA TraitType ==
  ASSUME NEW c \in Component, NEW t \in ToSet(c.traits)
  PROVE  t \in Trait
BY DEF Component, ToSet

\* The last address of a link is one of its addresses.
LEMMA LastAddress ==
  ASSUME NEW t \in Trait, Addresses(t) # <<>>
  PROVE  /\ Last(Addresses(t)) \in Ports \cup {None}
         /\ Last(Addresses(t)) \in ToSet(Addresses(t))
<1>1. Addresses(t) \in Seq(Ports \cup {None})
  BY DEF Trait, Addresses
<1> DEFINE s == Addresses(t)
<1>2. s \in Seq(Ports \cup {None}) /\ s # <<>>
  BY <1>1
<1> HIDE DEF s
<1>3. Len(s) \in 1..Len(s) /\ DOMAIN s = 1..Len(s)
  BY <1>2
<1> QED BY <1>2, <1>3 DEF Last, ToSet, s

\* What Details finds in some components: the labels are labels, the address
\* is an address of a link of one of them, and one of them is to run everywhere.
LEMMA DetailsFound ==
  ASSUME NEW m \in Seq(Component), NEW places \in SUBSET DOMAIN m,
         Details(m, places) # None
  PROVE  /\ Details(m, places).labels \in Selector
         /\ Details(m, places).address \in Ports \cup {None}
         /\ \E i \in places : \E t \in ToSet(m[i].traits) :
              t.type = "daemonscaler"
         /\ \E i \in places : \E t \in ToSet(m[i].traits) :
              /\ t.type = "link"
              /\ Details(m, places).address \in ToSet(Addresses(t))
<1> DEFINE links(i) == FirstTrait(m[i], "link")
           found == UNION {{<<i, t>> : t \in {u \in links(i) : Addresses(u) # <<>>}} :
                             i \in places}
           last == {f \in found : \A g \in found : g[1] <= f[1]}
           labels == UNION {t.labels :
             t \in {u \in UNION {links(j) : j \in places} : u.decodes = "scaler"}}
           f == CHOOSE h \in last : TRUE
<1>1. /\ last # {}
      /\ ~ \A i \in places : FirstTrait(m[i], "daemonscaler") = {}
      /\ Details(m, places) =
           [address |-> Last(Addresses(f[2])),
            labels |-> IF labels = {} THEN None ELSE labels]
  BY Zenon DEF Details
<1>2. \A i \in places : m[i] \in Component
  OBVIOUS
<1>3. \A i \in places : \A t \in links(i) :
        t \in Trait /\ t \in ToSet(m[i].traits) /\ t.type = "link"
  BY <1>2, FirstTraitIn, TraitType
<1>4. f \in found
  BY <1>1
<1>5. f[1] \in places /\ f[2] \in links(f[1]) /\ Addresses(f[2]) # <<>>
  <2>1. PICK i \in places : f \in {<<i, t>> : t \in {u \in links(i) : Addresses(u) # <<>>}}
    BY <1>4
  <2>2. PICK t \in links(i) : f = <<i, t>> /\ Addresses(t) # <<>>
    BY <2>1
  <2> HIDE DEF f
  <2>3. f[1] = i /\ f[2] = t
    BY <2>2
  <2> QED BY <2>2, <2>3
<1>6. /\ f[2] \in Trait /\ f[2] \in ToSet(m[f[1]].traits)
      /\ f[2].type = "link"
  BY <1>3, <1>5
<1>7. labels \subseteq Labels
  BY <1>3 DEF Trait
<1>8. \E i \in places : \E t \in ToSet(m[i].traits) : t.type = "daemonscaler"
  BY <1>1, FirstTraitIn
<1> HIDE DEF f, labels, last, found
<1>9. /\ Last(Addresses(f[2])) \in Ports \cup {None}
      /\ Last(Addresses(f[2])) \in ToSet(Addresses(f[2]))
  BY <1>5, <1>6, LastAddress
<1>10. /\ Details(m, places).address = Last(Addresses(f[2]))
       /\ Details(m, places).labels = IF labels = {} THEN None ELSE labels
  BY <1>1
<1> QED BY <1>5, <1>6, <1>7, <1>8, <1>9, <1>10 DEF Selector

\* A command to upsert carries a port of an httpserver of the manifest.
LEMMA UpsertsDeclared ==
  ASSUME NEW m \in Manifests
  PROVE  /\ Upserts[m] \in Seq(Command)
         /\ \/ Upserts[m] = <<>>
            \/ \E cmd \in Command : /\ Upserts[m] = <<cmd>>
                                    /\ cmd.kind = "UpsertService"
                                    /\ cmd.port \in Declarations[m]
<1> DEFINE servers == {i \in DOMAIN m : m[i].httpServer}
           server == HttpServerComponent(m)
<1>1. m \in Seq(Component)
  BY ManifestsAssumption
<1>2. server = Details(m, servers) /\ servers \in SUBSET DOMAIN m
  BY DEF HttpServerComponent
<1>3. Upserts[m] = Published(m)
  BY DEF Upserts
<1>4. CASE server = None \/ server.address = None
  BY <1>3, <1>4 DEF Published
<1>5. CASE server # None /\ server.address # None
  <2> DEFINE cmd == [kind |-> "UpsertService", port |-> server.address,
                     labels |-> server.labels]
  <2>1. Upserts[m] = <<cmd>>
    BY <1>3, <1>5 DEF Published
  <2>a. server # None /\ server.address # None
    BY <1>5
  <2>2. /\ server.labels \in Selector /\ server.address \in Ports
        /\ Declares(m, server.address)
    <3> HIDE DEF server
    <3> QED BY <1>1, <1>2, <2>a, DetailsFound DEF Declares
  <2>3. cmd \in Command
    BY <2>2 DEF Command
  <2>4. cmd.port \in Declarations[m]
    BY <2>2 DEF Declarations
  <2> QED BY <2>1, <2>3, <2>4
<1> QED BY <1>4, <1>5
-----------------------------------------------------------------------------
(***************************************************************************)
(* The invariant is inductive.                                             *)
(***************************************************************************)
\* What the constants are.
LEMMA ConstantsType ==
  /\ ConfigOf \in [Pods -> Configs]
  /\ MaxDeploys \in Nat /\ MaxPodSteps \in Nat /\ MaxFailures \in Nat
BY EndpointsAssumption

LEMMA InitInv == Init => Inv
<1> SUFFICES ASSUME Init PROVE Inv
  OBVIOUS
<1> USE DEF Init
<1>1. InitIp \in [Pods -> Ips \cup {None}] /\ None \notin Ips
  BY EndpointsAssumption
<1>2. pods \in [Pods -> Pod]
  BY <1>1 DEF Pod
<1>3. hosted \subseteq Configs \X Ips
  BY <1>1, ConstantsType
<1>4. TypeOK
  BY <1>2, <1>3, ConstantsType, EndpointsAssumption DEF TypeOK, Idle
<1>5. HostInv
  BY <1>1 DEF HostInv, Idle
<1>6. CommandInv /\ PhaseInv /\ OwnerInv /\ AddressesHosted /\ PortDeclared
  BY DEF CommandInv, PhaseInv, OwnerInv, AddressesHosted, PortDeclared, Idle
<1> QED BY <1>4, <1>5, <1>6 DEF Inv

\* What is spent of a budget leaves a budget.
LEMMA SpendType ==
  ASSUME TypeOK, NEW what \in {"deploys", "podSteps", "failures"}, Spend(what)
  PROVE  budget' \in [deploys : Nat, podSteps : Nat, failures : Nat]
<1>1. budget \in [deploys : Nat, podSteps : Nat, failures : Nat]
  BY DEF TypeOK
<1> QED BY <1>1 DEF Spend

\* A command that is justified once the step is done.
StillJustified(cmd) == cmd.kind = "UpsertService" => cmd.port \in Declared'

\* Grounds stay grounds while the histories grow.
LEMMA GroundsGrow ==
  ASSUME asked \subseteq asked', named \subseteq named', hosted \subseteq hosted'
  PROVE  /\ Declared \subseteq Declared'
         /\ \A ip : Hosted(ip) => Hosted(ip)'
         /\ \A cmd : JustifiedCommand(cmd) => StillJustified(cmd)
BY DEF Declared, Hosted, JustifiedCommand, StillJustified

\* A queue that is extended by commands of a manifest that was asked for.
LEMMA Sent ==
  ASSUME TypeOK, CommandInv, NEW m \in asked', asked \subseteq asked',
         asked' \subseteq Manifests, UNCHANGED <<named, hosted>>,
         chan' = chan \o Upserts[m]
  PROVE  /\ chan' \in Seq(Command)
         /\ \A i \in 1..Len(chan') : StillJustified(chan'[i])
<1>1. chan \in Seq(Command) /\ \A i \in 1..Len(chan) : StillJustified(chan[i])
  BY GroundsGrow DEF TypeOK, CommandInv
<1>2. CASE Upserts[m] = <<>>
  <2>1. chan' = chan
    BY <1>1, <1>2
  <2> QED BY <1>1, <2>1
<1>3. CASE Upserts[m] # <<>>
  <2>1. PICK cmd \in Command : /\ Upserts[m] = <<cmd>>
                               /\ cmd.port \in Declarations[m]
    BY <1>3, UpsertsDeclared
  <2>2. StillJustified(cmd)
    BY <2>1 DEF StillJustified, Declared
  <2>3. /\ chan' \in Seq(Command) /\ Len(chan') = Len(chan) + 1
        /\ \A i \in 1..Len(chan) : chan'[i] = chan[i]
        /\ chan'[Len(chan) + 1] = cmd
    BY <1>1, <2>1
  <2>4. ASSUME NEW i \in 1..Len(chan') PROVE StillJustified(chan'[i])
    <3>1. i \in 1..Len(chan) \/ i = Len(chan) + 1
      BY <1>1, <2>3
    <3> QED BY <1>1, <2>2, <2>3, <3>1
  <2> QED BY <2>3, <2>4
<1> QED BY <1>2, <1>3

\* Deployments and undeployments.
LEMMA DeployInv ==
  ASSUME Inv, (\E m \in Manifests : Deploy(m)) \/ Undeploy \/ Reconcile
  PROVE  Inv'
<1>1. CASE \E m \in Manifests : Deploy(m)
  <2>1. PICK m \in Manifests : Deploy(m)
    BY <1>1
  <2>2. /\ asked' = asked \cup {m} /\ deployed' = m /\ asked' \subseteq Manifests
        /\ chan' = chan \o Upserts[m]
        /\ UNCHANGED <<cfg, pods, named, hosted, service, slice, uids, exec>>
    BY <2>1 DEF Deploy, Inv, TypeOK, Cluster, Objects
  <2>3. /\ chan' \in Seq(Command)
        /\ \A i \in 1..Len(chan') : StillJustified(chan'[i])
    BY <2>2, Sent DEF Inv
  <2>4. budget' \in [deploys : Nat, podSteps : Nat, failures : Nat]
    BY <2>1, SpendType DEF Deploy, Inv
  <2>5. TypeOK'
    BY <2>2, <2>3, <2>4 DEF Inv, TypeOK
  <2>6. /\ Declared \subseteq Declared'
        /\ \A ip : Hosted(ip) => Hosted(ip)'
    BY <2>2, GroundsGrow
  <2>7. CommandInv'
    BY <2>2, <2>3 DEF CommandInv, StillJustified, JustifiedCommand
  <2>8. PhaseInv' /\ HostInv' /\ OwnerInv'
    BY <2>2, <2>6 DEF Inv, PhaseInv, HostInv, OwnerInv
  <2>9. AddressesHosted' /\ PortDeclared'
    BY <2>2, <2>6 DEF Inv, AddressesHosted, PortDeclared
  <2> QED BY <2>5, <2>7, <2>8, <2>9 DEF Inv
<1>2. CASE Undeploy \/ Reconcile
  <2>1. UNCHANGED <<cfg, pods, named, hosted, service, slice, uids, exec, asked>>
    BY <1>2 DEF Undeploy, Reconcile, Cluster, Objects
  <2>2. budget' \in [deploys : Nat, podSteps : Nat, failures : Nat]
    BY <1>2, SpendType DEF Undeploy, Reconcile, Inv, TypeOK
  <2>3. /\ deployed' \in {None, deployed}
        /\ chan' \in Seq(Command)
        /\ \A i \in 1..Len(chan') : StillJustified(chan'[i])
    <3>1. CASE Undeploy
      <4>1. RemoveService \in Command /\ StillJustified(RemoveService)
        BY DEF Command, RemoveService, StillJustified
      <4>2. /\ chan \in Seq(Command)
            /\ \A i \in 1..Len(chan) : StillJustified(chan[i])
        BY <2>1, GroundsGrow DEF Inv, TypeOK, CommandInv
      <4>3. /\ chan' = Append(chan, RemoveService) /\ deployed' = None
        BY <3>1 DEF Undeploy
      <4>4. /\ chan' \in Seq(Command) /\ Len(chan') = Len(chan) + 1
            /\ \A i \in 1..Len(chan) : chan'[i] = chan[i]
            /\ chan'[Len(chan) + 1] = RemoveService
        BY <4>1, <4>2, <4>3
      <4>5. ASSUME NEW i \in 1..Len(chan') PROVE StillJustified(chan'[i])
        <5>1. i \in 1..Len(chan) \/ i = Len(chan) + 1
          BY <4>2, <4>4
        <5> QED BY <4>1, <4>2, <4>4, <5>1
      <4> QED BY <4>3, <4>4, <4>5
    <3>2. CASE Reconcile
      <4>1. deployed \in asked /\ deployed' = deployed /\ asked \subseteq Manifests
        BY <3>2 DEF Reconcile, Inv, CommandInv, TypeOK
      <4>2. chan' = chan \o Upserts[deployed]
        BY <3>2, <4>1, UpsertsDeclared DEF Reconcile
      <4> QED BY <2>1, <4>1, <4>2, Sent DEF Inv
    <3> QED BY <1>2, <3>1, <3>2
  <2>4. TypeOK'
    BY <2>1, <2>2, <2>3 DEF Inv, TypeOK
  <2>5. CommandInv'
    BY <2>1, <2>3 DEF Inv, CommandInv, StillJustified, JustifiedCommand
  <2>6. PhaseInv' /\ HostInv' /\ OwnerInv' /\ AddressesHosted' /\ PortDeclared'
    BY <2>1 DEF Inv, PhaseInv, HostInv, Hosted, OwnerInv, AddressesHosted,
                PortDeclared, Declared
  <2> QED BY <2>4, <2>5, <2>6 DEF Inv
<1> QED BY <1>1, <1>2

\* A step of pods or configs leaves commands, the Service and the slice alone.
LEMMA ClusterFrame ==
  ASSUME Inv, named \subseteq named', hosted \subseteq hosted',
         UNCHANGED <<deployed, service, slice, uids, chan, exec, asked>>
  PROVE  /\ CommandInv' /\ PhaseInv' /\ OwnerInv'
         /\ AddressesHosted' /\ PortDeclared'
         /\ exec'.configs \subseteq named' /\ \A ip \in exec'.ips : Hosted(ip)'
<1>1. Declared' = Declared /\ \A ip : Hosted(ip) => Hosted(ip)'
  BY DEF Declared, Hosted
<1>2. CommandInv' /\ PhaseInv' /\ OwnerInv'
  BY <1>1 DEF Inv, CommandInv, JustifiedCommand, PhaseInv, OwnerInv
<1>3. AddressesHosted' /\ PortDeclared'
  BY <1>1 DEF Inv, AddressesHosted, PortDeclared
<1> QED BY <1>1, <1>2, <1>3 DEF Inv, HostInv

\* Pods come with an address, run, fail and go: a pod that runs is recorded.
LEMMA PodStepInv ==
  ASSUME Inv, PodStep
  PROVE  Inv'
<1>1. /\ UNCHANGED <<deployed, cfg, service, slice, uids, chan, exec, asked, named>>
      /\ budget' \in [deploys : Nat, podSteps : Nat, failures : Nat]
  BY SpendType DEF PodStep, Objects, Inv
<1>2. /\ pods \in [Pods -> Pod] /\ hosted \subseteq Configs \X Ips
      /\ \A p \in Pods : /\ pods[p].phase # "absent" => pods[p].ip \in Ips
                         /\ pods[p].phase = "Running" =>
                              <<ConfigOf[p], pods[p].ip>> \in hosted
  BY DEF Inv, TypeOK, HostInv
<1> DEFINE Next1(p) ==
      /\ pods'[p] \in Pod
      /\ pods'[p].phase # "absent" => pods'[p].ip \in Ips
      /\ pods'[p].phase = "Running" => <<ConfigOf[p], pods'[p].ip>> \in hosted'
<1>3. /\ hosted \subseteq hosted' /\ hosted' \subseteq Configs \X Ips
      /\ pods' \in [Pods -> Pod] /\ \A p \in Pods : Next1(p)
  <2>1. PICK p \in Pods :
          \/ \E ip \in Ips :
               /\ pods' = [pods EXCEPT ![p] = [phase |-> "Pending", ip |-> ip]]
               /\ UNCHANGED hosted
          \/ /\ pods[p].phase = "Pending"
             /\ pods' = [pods EXCEPT ![p].phase = "Running"]
             /\ hosted' = hosted \cup {<<ConfigOf[p], pods[p].ip>>}
          \/ /\ pods[p].phase \in {"Pending", "Running"}
             /\ pods' = [pods EXCEPT ![p].phase = "Failed"]
             /\ UNCHANGED hosted
          \/ /\ pods' = [pods EXCEPT ![p] = [phase |-> "absent", ip |-> None]]
             /\ UNCHANGED hosted
    BY DEF PodStep
  <2>2. pods[p] \in Pod /\ ConfigOf[p] \in Configs
    BY <1>2, ConstantsType
  <2>3. CASE \E ip \in Ips :
               /\ pods' = [pods EXCEPT ![p] = [phase |-> "Pending", ip |-> ip]]
               /\ UNCHANGED hosted
    BY <1>2, <2>3 DEF Pod
  <2>4. CASE /\ pods[p].phase = "Pending"
             /\ pods' = [pods EXCEPT ![p].phase = "Running"]
             /\ hosted' = hosted \cup {<<ConfigOf[p], pods[p].ip>>}
    <3>1. pods[p].ip \in Ips
      BY <1>2, <2>4
    <3>2. /\ pods'[p] = [phase |-> "Running", ip |-> pods[p].ip]
          /\ \A q \in Pods : q # p => pods'[q] = pods[q]
          /\ pods' \in [Pods -> Pod]
      BY <1>2, <2>2, <2>4 DEF Pod
    <3> QED BY <1>2, <2>2, <2>4, <3>1, <3>2
  <2>5. CASE /\ pods[p].phase \in {"Pending", "Running"}
             /\ pods' = [pods EXCEPT ![p].phase = "Failed"]
             /\ UNCHANGED hosted
    <3>1. /\ pods'[p] = [phase |-> "Failed", ip |-> pods[p].ip]
          /\ \A q \in Pods : q # p => pods'[q] = pods[q]
          /\ pods' \in [Pods -> Pod]
      BY <1>2, <2>2, <2>5 DEF Pod
    <3>2. pods[p].ip \in Ips /\ UNCHANGED hosted
      BY <1>2, <2>5
    <3>3. Next1(p)
      BY <3>1, <3>2, <2>2 DEF Pod
    <3>4. ASSUME NEW q \in Pods, q # p PROVE Next1(q)
      BY <1>2, <3>1, <3>2, <3>4
    <3> QED BY <1>2, <3>1, <3>2, <3>3, <3>4
  <2>6. CASE /\ pods' = [pods EXCEPT ![p] = [phase |-> "absent", ip |-> None]]
             /\ UNCHANGED hosted
    <3>1. /\ pods'[p].phase = "absent"
          /\ \A q \in Pods : q # p => pods'[q] = pods[q]
          /\ pods' \in [Pods -> Pod]
      BY <1>2, <2>6 DEF Pod
    <3> QED BY <1>2, <2>6, <3>1
  <2> QED BY <2>1, <2>3, <2>4, <2>5, <2>6
<1> HIDE DEF Next1
<1>4. TypeOK'
  BY <1>1, <1>3 DEF Inv, TypeOK
<1>5. HostInv'
  BY <1>1, <1>3, ClusterFrame DEF Next1, HostInv, Inv
<1> QED BY <1>1, <1>3, <1>4, <1>5, ClusterFrame DEF Inv

\* Configs change their lattices: one that names the application's is recorded.
LEMMA EditConfigInv ==
  ASSUME Inv, NEW c \in Configs, NEW l \in Lattices \cup {None}, EditConfig(c, l)
  PROVE  Inv'
<1>1. /\ UNCHANGED <<deployed, pods, service, slice, uids, chan, exec, asked, hosted>>
      /\ budget' \in [deploys : Nat, podSteps : Nat, failures : Nat]
      /\ cfg' = [cfg EXCEPT ![c] = l]
      /\ named' = IF l = Lattice THEN named \cup {c} ELSE named
  BY SpendType DEF EditConfig, Objects, Inv
<1>2. TypeOK'
  BY <1>1 DEF Inv, TypeOK
<1>3. \A d \in Configs : cfg'[d] = Lattice => d \in named'
  BY <1>1 DEF Inv, TypeOK, HostInv
<1>4. /\ exec'.configs \subseteq named' /\ \A ip \in exec'.ips : Hosted(ip)'
      /\ CommandInv' /\ PhaseInv' /\ OwnerInv' /\ AddressesHosted' /\ PortDeclared'
  BY <1>1, ClusterFrame
<1>5. HostInv'
  BY <1>1, <1>3, <1>4 DEF Inv, HostInv
<1> QED BY <1>2, <1>4, <1>5 DEF Inv

\* What is done to the Service and the slice from outside.
LEMMA OutsideInv ==
  ASSUME Inv, DeleteByHand \/ CollectGarbage
  PROVE  Inv'
<1>1. /\ UNCHANGED <<deployed, cfg, pods, named, hosted, uids, chan, exec, asked>>
      /\ budget' \in [deploys : Nat, podSteps : Nat, failures : Nat]
  BY SpendType DEF DeleteByHand, CollectGarbage, Cluster, Inv, TypeOK
<1>2. /\ service' = None \/ /\ service' \in Service /\ service # None
                            /\ service'.uid = service.uid
                            /\ service'.port = service.port
                            /\ service'.finalizer = service.finalizer
      /\ slice' = None \/ slice' = slice
      /\ service' \in Service \cup {None}
  <2>1. service \in Service \cup {None}
    BY DEF Inv, TypeOK
  <2>2. CASE DeleteByHand
    BY <2>1, <2>2 DEF DeleteByHand, Service
  <2>3. CASE CollectGarbage
    BY <2>1, <2>3 DEF CollectGarbage, Service
  <2> QED BY <2>2, <2>3
<1>3. TypeOK'
  BY <1>1, <1>2 DEF Inv, TypeOK
<1>4. CommandInv' /\ PhaseInv' /\ HostInv' /\ OwnerInv'
  BY <1>1, <1>2 DEF Inv, CommandInv, JustifiedCommand, Declared, PhaseInv, HostInv,
                    Hosted, OwnerInv
<1>5. AddressesHosted' /\ PortDeclared'
  BY <1>1, <1>2 DEF Inv, AddressesHosted, Hosted, PortDeclared, Declared
<1> QED BY <1>3, <1>4, <1>5 DEF Inv

\* A command given up, or everything in memory lost.
LEMMA GivenUpInv ==
  ASSUME Inv, Fails \/ Restart
  PROVE  Inv'
<1>1. /\ UNCHANGED <<deployed, cfg, pods, named, hosted, service, slice, uids, asked>>
      /\ budget' \in [deploys : Nat, podSteps : Nat, failures : Nat]
      /\ chan' = chan \/ chan' = <<>>
      /\ exec' = Idle
  BY SpendType DEF Fails, Restart, Cluster, Objects, Inv
<1>2. TypeOK'
  <2>1. chan' \in Seq(Command)
    <3>1. chan \in Seq(Command) /\ <<>> \in Seq(Command)
      BY DEF Inv, TypeOK
    <3> QED BY <1>1, <3>1
  <2>2. exec' \in [pc : {"idle"}, cmd : {None}, uid : Nat, configs : SUBSET Configs,
                   ips : SUBSET Ips, svc : {None}]
    BY <1>1 DEF Idle
  <2> QED BY <1>1, <2>1, <2>2 DEF Inv, TypeOK
<1>3. CommandInv' /\ PhaseInv' /\ HostInv' /\ OwnerInv'
  BY <1>1 DEF Inv, CommandInv, JustifiedCommand, Declared, PhaseInv, HostInv,
              Hosted, OwnerInv, Idle
<1>4. AddressesHosted' /\ PortDeclared'
  BY <1>1 DEF Inv, AddressesHosted, Hosted, PortDeclared, Declared
<1> QED BY <1>2, <1>3, <1>4 DEF Inv
-----------------------------------------------------------------------------
(***************************************************************************)
(* The command loop.                                                       *)
(***************************************************************************)
\* A step of the command under way changes neither the channel's grounds nor
\* the cluster.
LEMMA ExecuteFrame ==
  ASSUME Inv, UNCHANGED <<deployed, cfg, pods, named, hosted, asked>>
  PROVE  /\ Declared' = Declared /\ \A ip : Hosted(ip)' = Hosted(ip)
         /\ chan' = chan => CommandInv'
         /\ (/\ exec'.configs \subseteq named
             /\ \A ip \in exec'.ips : Hosted(ip)) => HostInv'
         /\ slice' = slice => AddressesHosted'
         /\ service' = service => PortDeclared'
BY DEF Inv, Declared, Hosted, CommandInv, JustifiedCommand, HostInv,
       AddressesHosted, PortDeclared

\* The loop takes a command: one to upsert has a declared port.
LEMMA TakeCommandInv ==
  ASSUME Inv, TakeCommand
  PROVE  Inv'
<1>1. UNCHANGED <<deployed, cfg, pods, named, hosted, asked, service, slice, uids, budget>>
  BY DEF TakeCommand, Cluster, Objects
<1>2. chan \in Seq(Command) /\ chan # <<>> /\ chan' = Tail(chan)
  BY DEF TakeCommand, Inv, TypeOK
<1>3. /\ Head(chan) \in Command /\ chan' \in Seq(Command)
      /\ Head(chan) = chan[1] /\ 1 \in 1..Len(chan)
      /\ Len(chan') = Len(chan) - 1
      /\ \A i \in 1..Len(chan') : i + 1 \in 1..Len(chan) /\ chan'[i] = chan[i + 1]
  BY <1>2
<1>4. CommandInv'
  BY <1>1, <1>3 DEF Inv, CommandInv, JustifiedCommand, Declared
<1>5. JustifiedCommand(Head(chan))
  BY <1>3 DEF Inv, CommandInv
<1>6. /\ exec'.pc \in {"get", "service"} /\ exec'.cmd = Head(chan)
      /\ exec'.configs = {} /\ exec'.ips = {}
      /\ exec'.pc = "service" => Head(chan) # RemoveService
      /\ exec' \in [pc : {"get", "service"}, cmd : Command, uid : Nat,
                     configs : SUBSET Configs, ips : SUBSET Ips, svc : {None}]
  BY <1>3 DEF TakeCommand, Idle
<1>7. TypeOK'
  BY <1>1, <1>3, <1>6 DEF Inv, TypeOK
<1>8. Head(chan) # RemoveService =>
        Head(chan).kind = "UpsertService"
  BY <1>3 DEF Command
<1>9. PhaseInv'
  BY <1>1, <1>3, <1>5, <1>6, <1>8, ExecuteFrame DEF PhaseInv, JustifiedCommand
<1>10. OwnerInv'
  BY <1>1, <1>6 DEF Inv, OwnerInv
<1> QED BY <1>1, <1>4, <1>6, <1>7, <1>9, <1>10, ExecuteFrame DEF Inv

\* The Service is applied with the command's port, under its own uid or a new
\* one.
LEMMA ApplyServiceInv ==
  ASSUME Inv, ApplyService
  PROVE  Inv'
<1> DEFINE uid == IF service = None THEN uids + 1 ELSE service.uid
<1>1. UNCHANGED <<deployed, cfg, pods, named, hosted, asked, slice, chan, budget>>
  BY DEF ApplyService, Cluster
<1>2. /\ exec.pc = "service" /\ exec.cmd \in Command
      /\ exec.cmd.kind = "UpsertService" /\ exec.cmd.port \in Declared
  BY DEF ApplyService, Inv, PhaseInv
<1>3. exec.cmd.port \in Ports /\ exec.cmd.labels \in Selector
  BY <1>2 DEF Command, RemoveService
<1>4. /\ service # None => service \in Service /\ service.uid \in 1..uids
      /\ uids \in Nat
  BY DEF Inv, TypeOK, OwnerInv
<1>5. /\ service' = [uid |-> uid, port |-> exec.cmd.port,
                     labels |-> exec.cmd.labels, finalizer |-> TRUE,
                     terminating |-> service # None /\ service.terminating]
      /\ uids' = IF service = None THEN uid ELSE uids
      /\ exec' = IF exec.cmd.labels = None
                 THEN [exec EXCEPT !.pc = "configs", !.uid = uid] ELSE Idle
  BY DEF ApplyService
<1>6. uid \in 1..uids' /\ uids' \in Nat /\ uids <= uids'
  BY <1>4, <1>5
<1>7. service' \in Service /\ service'.uid = uid /\ service'.port = exec.cmd.port
  <2>1. (service # None /\ service.terminating) \in BOOLEAN
    BY <1>4 DEF Service
  <2> HIDE DEF uid
  <2> QED BY <1>3, <1>5, <1>6, <2>1 DEF Service
<1> HIDE DEF uid
<1>8. /\ exec' \in [pc : {"configs", "idle"}, cmd : Command \cup {None}, uid : Nat,
                     configs : SUBSET Configs, ips : SUBSET Ips,
                     svc : Service \cup {None}]
      /\ exec'.configs \subseteq exec.configs /\ exec'.ips \subseteq exec.ips
      /\ exec'.pc = "configs" => exec'.uid = uid /\ exec'.cmd = exec.cmd
  <2>1. CASE exec.cmd.labels = None
    <3>1. uid \in Nat
      BY <1>6
    <3>2. exec' = [exec EXCEPT !.pc = "configs", !.uid = uid]
      BY <1>5, <2>1
    <3>3. exec \in [pc : {"idle", "service", "configs", "pods", "get", "finalizer",
                         "delete"},
                   cmd : Command \cup {None}, uid : Nat, configs : SUBSET Configs,
                   ips : SUBSET Ips, svc : Service \cup {None}]
      BY DEF Inv, TypeOK
    <3> QED BY <3>1, <3>2, <3>3
  <2>2. CASE exec.cmd.labels # None
    BY <1>5, <2>2 DEF Idle
  <2> QED BY <2>1, <2>2
<1>9. TypeOK'
  BY <1>1, <1>6, <1>7, <1>8 DEF Inv, TypeOK
<1>10. PhaseInv'
  BY <1>1, <1>2, <1>8, ExecuteFrame DEF PhaseInv
<1>11. OwnerInv'
  BY <1>1, <1>4, <1>6, <1>7, <1>8 DEF Inv, OwnerInv
<1>12. PortDeclared'
  BY <1>1, <1>2, <1>7, ExecuteFrame DEF PortDeclared
<1>13. HostInv'
  BY <1>1, <1>8, ExecuteFrame DEF Inv, HostInv
<1> QED BY <1>1, <1>9, <1>10, <1>11, <1>12, <1>13, ExecuteFrame DEF Inv

\* A step that only reads: what it has read is in the histories.
LEMMA ReadInv ==
  ASSUME Inv,
         UNCHANGED <<deployed, cfg, pods, named, hosted, asked, service, slice, uids,
                     chan, budget>>,
         exec' \in [pc : {"pods", "idle", "finalizer"}, cmd : Command \cup {None},
                    uid : Nat, configs : SUBSET Configs, ips : SUBSET Ips,
                    svc : Service \cup {None}],
         exec'.pc = "pods" => /\ exec.pc \in {"configs", "pods"}
                              /\ exec'.cmd = exec.cmd /\ exec'.uid = exec.uid,
         exec'.pc = "finalizer" => exec'.svc # None,
         exec'.configs \subseteq named, \A ip \in exec'.ips : Hosted(ip)
  PROVE  Inv'
<1>1. TypeOK'
  BY DEF Inv, TypeOK
<1>2. PhaseInv' /\ OwnerInv'
  BY ExecuteFrame DEF Inv, PhaseInv, OwnerInv
<1> QED BY <1>1, <1>2, ExecuteFrame DEF Inv

\* The requests that list configs and pods, and the one that gets the Service.
LEMMA ListInv ==
  ASSUME Inv, ListConfigs \/ (\E c \in Configs : ListPods(c)) \/ GetService
  PROVE  Inv'
<1>1. UNCHANGED <<deployed, cfg, pods, named, hosted, asked, service, slice, uids,
                  chan, budget>>
  BY DEF ListConfigs, ListPods, GetService, Cluster, Objects
<1>2. exec \in [pc : {"idle", "service", "configs", "pods", "get", "finalizer",
                     "delete"},
               cmd : Command \cup {None}, uid : Nat, configs : SUBSET Configs,
               ips : SUBSET Ips, svc : Service \cup {None}]
  BY DEF Inv, TypeOK
<1>3. exec.configs \subseteq named /\ \A ip \in exec.ips : Hosted(ip)
  BY DEF Inv, HostInv
<1>4. CASE ListConfigs
  <2> DEFINE listed == {c \in Configs : cfg[c] = Lattice}
  <2>1. listed \subseteq named /\ listed \subseteq Configs
    BY DEF Inv, HostInv
  <2>2. /\ exec.pc = "configs"
        /\ exec' = [exec EXCEPT !.pc = "pods", !.configs = listed]
    BY <1>4 DEF ListConfigs
  <2> HIDE DEF listed
  <2> QED BY <1>1, <1>2, <1>3, <2>1, <2>2, ReadInv
<1>5. CASE \E c \in Configs : ListPods(c)
  <2>1. PICK c \in Configs : ListPods(c)
    BY <1>5
  <2> DEFINE read == {pods[p].ip : p \in {q \in Pods :
                       ConfigOf[q] = c /\ pods[q].phase = "Running"}}
  <2>2. /\ exec.pc = "pods" /\ c \in exec.configs
        /\ exec' = [exec EXCEPT !.configs = @ \ {c}, !.ips = @ \cup read]
    BY <2>1 DEF ListPods
  <2>3. read \subseteq Ips /\ \A ip \in read : Hosted(ip)
    BY <1>3, <2>2 DEF Inv, HostInv, Hosted
  <2> HIDE DEF read
  <2>4. /\ exec'.configs = exec.configs \ {c} /\ exec'.ips = exec.ips \cup read
        /\ exec'.pc = "pods" /\ exec'.cmd = exec.cmd /\ exec'.uid = exec.uid
        /\ exec' \in [pc : {"pods", "idle", "finalizer"}, cmd : Command \cup {None},
                      uid : Nat, configs : SUBSET Configs, ips : SUBSET Ips,
                      svc : Service \cup {None}]
    BY <1>2, <2>2, <2>3
  <2> QED BY <1>1, <1>3, <2>2, <2>3, <2>4, ReadInv
<1>6. CASE GetService
  <2>1. CASE service = None
    <3>1. exec' = Idle
      BY <1>6, <2>1 DEF GetService
    <3> QED BY <1>1, <3>1, ReadInv DEF Idle
  <2>2. CASE service # None
    <3>1. service \in Service
      BY <2>2 DEF Inv, TypeOK
    <3>2. exec' = [exec EXCEPT !.pc = "finalizer", !.svc = service]
      BY <1>6, <2>2 DEF GetService
    <3> QED BY <1>1, <1>2, <1>3, <2>2, <3>1, <3>2, ReadInv
  <2> QED BY <2>1, <2>2
<1> QED BY <1>4, <1>5, <1>6

\* The slice is applied with the addresses read, for the Service applied before.
LEMMA ApplySliceInv ==
  ASSUME Inv, ApplySlice
  PROVE  Inv'
<1>1. UNCHANGED <<deployed, cfg, pods, named, hosted, asked, service, uids, chan, budget>>
  BY DEF ApplySlice, Cluster
<1>2. /\ exec.pc = "pods" /\ exec.cmd \in Command
      /\ exec.cmd.kind = "UpsertService" /\ exec.cmd.port \in Declared
      /\ exec.uid \in 1..uids /\ exec.ips \subseteq Ips /\ uids \in Nat
      /\ \A ip \in exec.ips : Hosted(ip)
  BY DEF ApplySlice, Inv, PhaseInv, OwnerInv, TypeOK, HostInv
<1>3. exec.cmd.port \in Ports
  BY <1>2 DEF Command, RemoveService
<1>4. /\ exec' = Idle
      /\ slice' = IF exec.ips = {} THEN slice
                  ELSE [owner |-> exec.uid, addresses |-> exec.ips,
                        port |-> exec.cmd.port]
  BY DEF ApplySlice
<1>5. \/ slice' = slice
      \/ /\ slice' \in EndpointSlice /\ slice'.owner \in 1..uids
         /\ \A ip \in slice'.addresses : Hosted(ip)
  BY <1>2, <1>3, <1>4 DEF EndpointSlice
<1>6. exec' \in [pc : {"idle"}, cmd : {None}, uid : Nat, configs : {{}},
                 ips : {{}}, svc : {None}]
  BY <1>4 DEF Idle
<1>7. TypeOK'
  BY <1>1, <1>5, <1>6 DEF Inv, TypeOK
<1>8. PhaseInv'
  BY <1>6 DEF PhaseInv
<1>9. OwnerInv' /\ AddressesHosted'
  BY <1>1, <1>5, <1>6, ExecuteFrame DEF Inv, OwnerInv, AddressesHosted
<1>10. HostInv' /\ CommandInv' /\ PortDeclared'
  BY <1>1, <1>6, ExecuteFrame
<1> QED BY <1>7, <1>8, <1>9, <1>10 DEF Inv

\* The two writes of delete_service: the Service keeps its port or goes.
LEMMA DeleteInv ==
  ASSUME Inv, RemoveFinalizer \/ DeleteService
  PROVE  Inv'
<1>1. UNCHANGED <<deployed, cfg, pods, named, hosted, asked, slice, uids, chan, budget>>
  BY DEF RemoveFinalizer, DeleteService, Cluster
<1>2. /\ exec' \in [pc : {"idle", "delete"}, cmd : Command \cup {None}, uid : Nat,
                     configs : SUBSET Configs, ips : SUBSET Ips, svc : {None}]
      /\ exec'.configs \subseteq exec.configs /\ exec'.ips \subseteq exec.ips
  <2>1. CASE exec' = Idle
    BY <2>1 DEF Idle
  <2>2. CASE exec' = [exec EXCEPT !.pc = "delete", !.svc = None]
    BY <2>2 DEF Inv, TypeOK
  <2> QED BY <2>1, <2>2 DEF RemoveFinalizer, DeleteService
<1>3. \/ service' = service /\ exec'.pc # "delete"
      \/ service' = None
      \/ /\ service # None /\ service' \in Service /\ ~service'.finalizer
         /\ service'.uid = service.uid /\ service'.port = service.port
  <2>1. CASE DeleteService
    BY <2>1 DEF DeleteService
  <2>2. CASE RemoveFinalizer /\ service # exec.svc
    BY <2>2 DEF RemoveFinalizer, Idle
  <2>3. CASE RemoveFinalizer /\ service = exec.svc
    <3>1. service # None /\ service \in Service
      BY <2>3 DEF RemoveFinalizer, Inv, PhaseInv, TypeOK
    <3> QED BY <2>3, <3>1 DEF RemoveFinalizer, Service
  <2> QED BY <2>1, <2>2, <2>3
<1>4. TypeOK'
  BY <1>1, <1>2, <1>3 DEF Inv, TypeOK
<1>5. PhaseInv'
  BY <1>2, <1>3 DEF PhaseInv
<1>6. OwnerInv' /\ PortDeclared'
  BY <1>1, <1>2, <1>3, ExecuteFrame DEF Inv, OwnerInv, PortDeclared
<1>7. HostInv' /\ CommandInv' /\ AddressesHosted'
  BY <1>1, <1>2, ExecuteFrame DEF Inv, HostInv
<1> QED BY <1>4, <1>5, <1>6, <1>7 DEF Inv
-----------------------------------------------------------------------------
\* Every step preserves the invariant.
LEMMA NextInv == Inv /\ [Next]_vars => Inv'
<1> SUFFICES ASSUME Inv, [Next]_vars PROVE Inv'
  OBVIOUS
<1>1. CASE UNCHANGED vars
  <2>1. UNCHANGED <<deployed, cfg, pods, service, slice, uids, chan, exec,
                    asked, named, hosted, budget>>
    BY <1>1 DEF vars
  <2>2. TypeOK' /\ CommandInv' /\ PhaseInv' /\ OwnerInv'
    BY <2>1 DEF Inv, TypeOK, CommandInv, JustifiedCommand, PhaseInv, OwnerInv,
                Declared
  <2>3. HostInv' /\ AddressesHosted' /\ PortDeclared'
    BY <2>1 DEF Inv, HostInv, AddressesHosted, Hosted, PortDeclared, Declared
  <2> QED BY <2>2, <2>3 DEF Inv
<1>2. CASE Execute
  BY <1>2, TakeCommandInv, ApplyServiceInv, ListInv, ApplySliceInv, DeleteInv
     DEF Execute
<1> QED BY <1>1, <1>2, DeployInv, PodStepInv, EditConfigInv, OutsideInv, GivenUpInv
        DEF Next

\* The inductive invariant holds throughout.
THEOREM InvCorrect == Spec => []Inv
BY InitInv, NextInv, PTL DEF Spec

\* The types of the state, for all constants.
THEOREM TypeCorrect == Spec => []TypeOK
<1>1. Inv => TypeOK
  BY DEF Inv
<1> QED BY <1>1, InvCorrect, PTL

\* However pods, configs, errors and restarts fall between the requests of
\* create_or_update_service, traffic is only sent where a host of a config of the
\* lattice has run.
THEOREM AddressesHostedCorrect == Spec => []AddressesHosted
<1>1. Inv => AddressesHosted
  BY DEF Inv
<1> QED BY <1>1, InvCorrect, PTL

\* A Service has a port that an httpserver of a deployed manifest declares,
\* whatever manifests look like.
THEOREM PortDeclaredCorrect == Spec => []PortDeclared
<1>1. Inv => PortDeclared
  BY DEF Inv
<1> QED BY <1>1, InvCorrect, PTL
-----------------------------------------------------------------------------
(***************************************************************************)
(* ServiceEndpoints implements ServiceTraffic.                             *)
(***************************************************************************)
\* A step of users, wadm or pods is one of the grounds', or none.
LEMMA LearnTraffic ==
  ASSUME Inv, Inv', asked \subseteq asked', named \subseteq named',
         hosted \subseteq hosted', UNCHANGED <<service, slice, uids>>
  PROVE  Traffic!Learn
<1>1. Declared \subseteq Declared' /\ \A ip : Hosted(ip) => Hosted(ip)'
  BY GroundsGrow
<1>2. asked' \subseteq Manifests
  BY DEF Inv, TypeOK
<1>3. \A m \in Manifests : Declarations[m] \subseteq Ports
  BY DEF Declarations
<1>4. Declared' \subseteq Ports
  BY <1>2, <1>3 DEF Declared
<1> QED BY <1>1, <1>4 DEF Traffic!Learn

\* What of the abstract state a step of the loop leaves alone.
LEMMA GroundsFrame ==
  ASSUME UNCHANGED <<named, hosted, asked>>
  PROVE  Declared' = Declared /\ {ip \in Ips : Hosted(ip)}' = {ip \in Ips : Hosted(ip)}
BY DEF Declared, Hosted

\* Writing the Service.
LEMMA ApplyTraffic ==
  ASSUME Inv, ApplyService
  PROVE  Traffic!Next
<1>1. UNCHANGED <<named, hosted, asked, slice>>
  BY DEF ApplyService, Cluster
<1>2. exec.cmd \in Command /\ exec.cmd.kind = "UpsertService" /\ exec.cmd.port \in Declared
  BY DEF ApplyService, Inv, PhaseInv
<1>3. exec.cmd.port \in Ports /\ exec.cmd.labels \in Selector
  BY <1>2 DEF Command, RemoveService
<1>4. /\ uids' = IF service = None THEN uids + 1 ELSE uids
      /\ service' = [uid |-> IF service = None THEN uids' ELSE service.uid,
                     port |-> exec.cmd.port, labels |-> exec.cmd.labels,
                     finalizer |-> TRUE,
                     terminating |-> service # None /\ service.terminating]
  BY Zenon DEF ApplyService
<1>5. Traffic!Apply(exec.cmd.port, exec.cmd.labels)
  BY <1>1, <1>2, <1>4, GroundsFrame DEF Traffic!Apply
<1> QED BY <1>3, <1>5 DEF Traffic!Next

\* Writing the slice, or leaving it as it is.
LEMMA PublishTraffic ==
  ASSUME Inv, ApplySlice
  PROVE  Traffic!Next \/ UNCHANGED Traffic!vars
<1>1. UNCHANGED <<named, hosted, asked, service, uids>>
  BY DEF ApplySlice, Cluster
<1>2. /\ exec.cmd \in Command /\ exec.cmd.kind = "UpsertService"
      /\ exec.cmd.port \in Declared /\ exec.uid \in 1..uids
      /\ exec.ips \in SUBSET Ips /\ exec.ips \subseteq {ip \in Ips : Hosted(ip)}
  BY DEF ApplySlice, Inv, PhaseInv, OwnerInv, TypeOK, HostInv
<1>3. exec.cmd.port \in Ports
  BY <1>2 DEF Command, RemoveService
<1>4. CASE exec.ips = {}
  BY <1>1, <1>4, GroundsFrame DEF ApplySlice, Traffic!vars
<1>5. CASE exec.ips # {}
  <2>1. slice' = [owner |-> exec.uid, addresses |-> exec.ips, port |-> exec.cmd.port]
    BY <1>5 DEF ApplySlice
  <2>2. Traffic!Publish(exec.uid, exec.ips, exec.cmd.port)
    BY <1>1, <1>2, <1>5, <2>1, GroundsFrame DEF Traffic!Publish
  <2> QED BY <1>2, <1>3, <2>2 DEF Traffic!Next
<1> QED BY <1>4, <1>5

\* Taking the Service away, by hand or by the loop: never past its finalizer.
LEMMA GoneTraffic ==
  ASSUME Inv, DeleteByHand \/ CollectGarbage \/ RemoveFinalizer \/ DeleteService
  PROVE  Traffic!Next \/ UNCHANGED Traffic!vars
<1>1. UNCHANGED <<named, hosted, asked, uids>>
  BY DEF DeleteByHand, CollectGarbage, RemoveFinalizer, DeleteService, Cluster
<1>2. service # None => service \in Service
  BY DEF Inv, TypeOK
<1>3. CASE DeleteByHand
  <2>1. service # None /\ slice' = slice
    BY <1>3 DEF DeleteByHand
  <2>2. CASE service.finalizer
    <3>1. Traffic!Doom
      BY <1>1, <1>3, <2>1, <2>2, GroundsFrame DEF DeleteByHand, Traffic!Doom
    <3> QED BY <3>1 DEF Traffic!Next
  <2>3. CASE ~service.finalizer
    <3>1. Traffic!Delete
      BY <1>1, <1>3, <2>1, <2>3, GroundsFrame DEF DeleteByHand, Traffic!Delete
    <3> QED BY <3>1 DEF Traffic!Next
  <2> QED BY <2>2, <2>3
<1>4. CASE CollectGarbage
  <2>1. Traffic!Collect
    BY <1>1, <1>4, GroundsFrame DEF CollectGarbage, Traffic!Collect
  <2> QED BY <2>1 DEF Traffic!Next
<1>5. CASE RemoveFinalizer
  <2>1. slice' = slice
    BY <1>5 DEF RemoveFinalizer
  <2>2. CASE service # exec.svc
    BY <1>1, <1>5, <2>1, <2>2, GroundsFrame DEF RemoveFinalizer, Traffic!vars
  <2>3. CASE service = exec.svc
    <3>1. service # None /\ service \in Service
      BY <1>2, <1>5, <2>3 DEF RemoveFinalizer, Inv, PhaseInv
    <3>2. service' = IF service.terminating THEN None
                     ELSE [service EXCEPT !.finalizer = FALSE]
      BY <1>5, <2>3 DEF RemoveFinalizer
    <3>3. CASE service.finalizer
      <4>1. Traffic!Release
        BY <1>1, <2>1, <3>1, <3>2, <3>3, GroundsFrame DEF Traffic!Release
      <4> QED BY <4>1 DEF Traffic!Next
    <3>4. CASE ~service.finalizer /\ service.terminating
      <4>1. Traffic!Delete
        BY <1>1, <2>1, <3>1, <3>2, <3>4, GroundsFrame DEF Traffic!Delete
      <4> QED BY <4>1 DEF Traffic!Next
    <3>5. CASE ~service.finalizer /\ ~service.terminating
      <4>1. service' = service
        BY <3>1, <3>2, <3>5 DEF Service
      <4> QED BY <1>1, <2>1, <4>1, GroundsFrame DEF Traffic!vars
    <3> QED BY <3>3, <3>4, <3>5
  <2> QED BY <2>2, <2>3
<1>6. CASE DeleteService
  <2>1. slice' = slice /\ service' = None /\ (service = None \/ ~service.finalizer)
    BY <1>6 DEF DeleteService, Inv, PhaseInv
  <2>2. CASE service = None
    BY <1>1, <2>1, <2>2, GroundsFrame DEF Traffic!vars
  <2>3. CASE service # None
    <3>1. Traffic!Delete
      BY <1>1, <2>1, <2>3, GroundsFrame DEF Traffic!Delete
    <3> QED BY <3>1 DEF Traffic!Next
  <2> QED BY <2>2, <2>3
<1> QED BY <1>3, <1>4, <1>5, <1>6

\* Every step of ServiceEndpoints is a step of ServiceTraffic or a stutter.
LEMMA NextTraffic ==
  ASSUME Inv, Inv', [Next]_vars
  PROVE  [Traffic!Next]_(Traffic!vars)
<1>1. CASE /\ asked \subseteq asked' /\ named \subseteq named' /\ hosted \subseteq hosted'
           /\ UNCHANGED <<service, slice, uids>>
  <2>1. Traffic!Learn
    BY <1>1, LearnTraffic
  <2> QED BY <2>1 DEF Traffic!Next
<1>2. CASE \/ UNCHANGED vars \/ (\E m \in Manifests : Deploy(m)) \/ Undeploy \/ Reconcile
           \/ Fails \/ Restart \/ TakeCommand \/ ListConfigs
           \/ (\E c \in Configs : ListPods(c)) \/ GetService
  <2>1. /\ asked \subseteq asked' /\ named \subseteq named' /\ hosted \subseteq hosted'
        /\ UNCHANGED <<service, slice, uids>>
    BY <1>2 DEF vars, Deploy, Undeploy, Reconcile, Fails, Restart, TakeCommand,
       ListConfigs, ListPods, GetService, Cluster, Objects
  <2> QED BY <1>1, <2>1
<1>3. CASE PodStep \/ \E c \in Configs, l \in Lattices \cup {None} : EditConfig(c, l)
  <2>1. /\ asked \subseteq asked' /\ named \subseteq named' /\ hosted \subseteq hosted'
        /\ UNCHANGED <<service, slice, uids>>
    BY <1>3 DEF PodStep, EditConfig, Objects
  <2> QED BY <1>1, <2>1
<1> QED BY <1>2, <1>3, ApplyTraffic, PublishTraffic, GoneTraffic DEF Next, Execute

\* ServiceEndpoints implements ServiceTraffic: whatever fails, restarts, is
\* deleted by hand or changes between the requests of a command, a Service or a
\* slice is written on grounds that exist, keeps its identity, its way out and
\* its owner, and goes only when nothing holds it.
THEOREM TrafficCorrect == Spec => KeepsTraffic
<1>1. Init => Traffic!Init
  BY DEF Init, Traffic!Init, Declared
<1>2. Inv /\ Inv' /\ [Next]_vars => [Traffic!Next]_(Traffic!vars)
  BY NextTraffic
<1> QED BY <1>1, <1>2, InvCorrect, PTL DEF Spec, KeepsTraffic, Traffic!Spec
=============================================================================
