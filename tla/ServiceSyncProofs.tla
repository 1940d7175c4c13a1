------------------------- MODULE ServiceSyncProofs -------------------------
(***************************************************************************)
(* Proofs about ServiceSync, for any number of host configs, namespaces,   *)
(* lattices, applications, ports and tasks and any bounds: the state keeps *)
(* its types, every Service of the operator is justified, and without      *)
(* edits of a config's lattice every registered namespace is needed.       *)
(***************************************************************************)
EXTENDS ServiceSync, TLAPS

\* Every host config lives in one of the namespaces.
LEMMA NsType == ASSUME NEW c \in Configs PROVE NsOf[c] \in Namespaces
BY ConstantsAssumption

\* The histories only grow.
HistoriesGrow ==
  /\ granted \subseteq granted' /\ revoked \subseteq revoked'
  /\ published \subseteq published' /\ withdrawn \subseteq withdrawn'

\* A justified command stays justified.
LEMMA Grows ==
  ASSUME NEW cmd, JustifiedCommand(cmd), HistoriesGrow
  PROVE  JustifiedCommand(cmd)'
BY DEF JustifiedCommand, Asked, HistoriesGrow

\* A step that leaves what the environment touches alone.
LEMMA GrowsEnv == UNCHANGED envVars => HistoriesGrow
BY DEF HistoriesGrow, envVars

\* The command queue survives growing histories.
LEMMA GrowsCommands ==
  ASSUME CommandInv, UNCHANGED <<chan, exec, services>>, HistoriesGrow
  PROVE  CommandInv'
<1>1. \A i \in 1..Len(chan) : JustifiedCommand(chan[i])'
  BY Grows DEF CommandInv
<1>2. JustifiedCommand(exec.cmd)'
  BY Grows DEF CommandInv
<1> QED BY <1>1, <1>2 DEF CommandInv, JustifiedCommand

\* Sending one justified command (tx.send) keeps the queue well-typed and
\* justified.
LEMMA Sent ==
  ASSUME TypeOK, CommandInv, NEW cmd \in WatcherCommand, JustifiedCommand(cmd),
         chan' = chan \o <<cmd>>, UNCHANGED <<exec, services, envVars>>
  PROVE  chan' \in Seq(WatcherCommand) /\ CommandInv'
<1>1. chan \in Seq(WatcherCommand)
  BY DEF TypeOK
<1>2. /\ chan' \in Seq(WatcherCommand) /\ Len(chan') = Len(chan) + 1
      /\ \A i \in 1..Len(chan) : chan'[i] = chan[i]
      /\ chan'[Len(chan) + 1] = cmd
  BY <1>1
<1>3. \A i \in 1..Len(chan') : JustifiedCommand(chan'[i])
  <2> TAKE i \in 1..Len(chan')
  <2>1. i \in 1..Len(chan) \/ i = Len(chan) + 1
    BY <1>1, <1>2
  <2> QED BY <1>2, <2>1 DEF CommandInv
<1>4. CommandInv'
  BY <1>3 DEF CommandInv, JustifiedCommand, Asked, envVars
<1> QED BY <1>2, <1>4

\* What handle_manifest_published sends is justified when its namespaces asked
\* for the lattice and the manifest was published there.
LEMMA UpsertsSent ==
  ASSUME TypeOK, CommandInv, NEW l \in Lattices,
         NEW nss \in SUBSET Namespaces, NEW a \in Apps, NEW m,
         Asked(nss, l), m \in Ports => <<l, a, m>> \in published,
         chan' = chan \o Upserts(l, nss, a, m),
         UNCHANGED <<exec, services, envVars>>
  PROVE  chan' \in Seq(WatcherCommand) /\ CommandInv'
<1>1. CASE m \in Ports
  <2> DEFINE cmd == [kind |-> "UpsertService", name |-> a, port |-> m,
                     lattice |-> l, namespaces |-> nss]
  <2>1. cmd \in WatcherCommand /\ JustifiedCommand(cmd)
    BY <1>1 DEF WatcherCommand, UpsertService, JustifiedCommand
  <2>2. chan' = chan \o <<cmd>>
    BY <1>1 DEF Upserts
  <2> HIDE DEF cmd
  <2> QED BY <2>1, <2>2, Sent
<1>2. CASE m \notin Ports
  <2>1. chan' = chan
    BY <1>2 DEF Upserts, TypeOK
  <2> QED BY <2>1, GrowsCommands, GrowsEnv DEF TypeOK
<1> QED BY <1>1, <1>2

\* A step of one reconciliation that only moves it on.
LEMMA OnlyRec ==
  ASSUME Inv, NEW c \in Configs, NEW r \in Reconciliation,
         rec' = [rec EXCEPT ![c] = r],
         r.pc # "idle" => cfg[c].state # "absent" /\ cfg[c].fin,
         r.pc \notin {"idle", "get"} =>
           r.lattice \in Lattices /\ <<NsOf[c], r.lattice>> \in granted,
         r.pc \in {"stop", "unfinalize"} => NsOf[c] \in revoked,
         \A a \in Apps : r.apps[a] # None =>
           /\ r.pc \notin {"idle", "get"}
           /\ r.apps[a] \in Ports => <<r.lattice, a, r.apps[a]>> \in published,
         budget' \in [user: Nat, disturb: Nat],
         UNCHANGED <<cfg, watchers, tasks, stream, chan, exec, services, envVars>>
  PROVE  Inv'
<1>1. TypeOK'
  BY DEF Inv, TypeOK, envVars
<1>2. RecInv'
  BY DEF Inv, TypeOK, RecInv, envVars
<1>3. ConfigInv' /\ WatcherInv' /\ StreamInv' /\ Justified'
  BY DEF Inv, ConfigInv, WatcherInv, Asked, Registered, StreamInv, Justified,
         envVars
<1>4. CommandInv'
  BY GrowsCommands, GrowsEnv DEF Inv
<1> QED BY <1>1, <1>2, <1>3, <1>4 DEF Inv

\* A step that changes, of what Inv is about, only the tasks.
LEMMA OnlyTasks ==
  ASSUME Inv, tasks' \in [Tasks -> Task], 
         \A t \in Tasks : tasks'[t].st # "free" =>
           /\ tasks[t].st # "free" /\ tasks'[t].lattice = tasks[t].lattice
           /\ tasks'[t].namespaces = tasks[t].namespaces,
         budget' \in [user: Nat, disturb: Nat],
         UNCHANGED <<cfg, rec, watchers, stream, chan, exec, services, envVars>>
  PROVE  Inv'
<1>1. TypeOK'
  BY DEF Inv, TypeOK, envVars
<1>2. WatcherInv'
  BY DEF Inv, WatcherInv, Asked, Registered, envVars
<1>3. ConfigInv' /\ RecInv' /\ StreamInv' /\ Justified'
  BY DEF Inv, ConfigInv, RecInv, StreamInv, Justified, envVars
<1>4. CommandInv'
  BY GrowsCommands, GrowsEnv DEF Inv
<1> QED BY <1>1, <1>2, <1>3, <1>4 DEF Inv

\* What a disturbance does to the budget.
LEMMA DisturbType ==
  ASSUME TypeOK, NEW kind, Disturb(kind)
  PROVE  budget' \in [user: Nat, disturb: Nat]
<1>1. budget \in [user: Nat, disturb: Nat]
  BY DEF TypeOK
<1> QED BY <1>1 DEF Disturb

\* What a user's change does to the budget.
LEMMA UserChangeType ==
  ASSUME TypeOK, UserChange
  PROVE  budget' \in [user: Nat, disturb: Nat]
<1>1. budget \in [user: Nat, disturb: Nat]
  BY DEF TypeOK
<1> QED BY <1>1 DEF UserChange
-----------------------------------------------------------------------------
\* No host config, reconciled or not, application or event to begin with.
LEMMA InitInv == Init => Inv
<1> SUFFICES ASSUME Init PROVE Inv
  OBVIOUS
<1>1. TypeOK
  <2>1. cfg \in [Configs -> Config] /\ rec \in [Configs -> Reconciliation]
    BY DEF Init, Config, Reconciliation, Phase, NoConfig, Idle, NoApps
  <2>2. watchers \in [Lattices -> Watcher] /\ tasks \in [Tasks -> Task]
    BY DEF Init, Watcher, NoWatcher, Task, FreeTask
  <2>3. /\ stream \in [Lattices -> SUBSET Message]
        /\ deployed \in [Lattices -> [Apps -> Manifest \cup {None}]]
    BY DEF Init, NoApps
  <2>4. /\ chan \in Seq(WatcherCommand)
        /\ exec \in [cmd: WatcherCommand \cup {NoCommand},
                     todo: SUBSET (Namespaces \X Apps)]
    BY DEF Init, ExecIdle
  <2>5. services \in [Namespaces \X Apps -> Service]
    BY DEF Init, Service
  <2>6. lastSeq \in Nat /\ budget \in [user: Nat, disturb: Nat]
    BY ConstantsAssumption DEF Init
  <2> QED BY <2>1, <2>2, <2>3, <2>4, <2>5, <2>6 DEF TypeOK, Init
<1>2. ConfigInv /\ RecInv
  BY ConstantsAssumption DEF Init, ConfigInv, RecInv, NoConfig, Idle, NoApps
<1>3. WatcherInv
  BY DEF Init, WatcherInv, Asked, Registered, NoWatcher, FreeTask
<1>4. StreamInv
  BY ConstantsAssumption DEF Init, StreamInv, NoApps
<1>5. CommandInv
  BY DEF Init, CommandInv, JustifiedCommand, ExecIdle, NoCommand
<1>6. Justified
  BY DEF Init, Justified, NoService, ForeignService
<1> QED BY <1>1, <1>2, <1>3, <1>4, <1>5, <1>6 DEF Inv
-----------------------------------------------------------------------------
\* Users: a config that is reconciled has the finalizer, so none disappears
\* under its reconciliation.
LEMMA UserInv ==
  ASSUME Inv, NEW c \in Configs, User(c)
  PROVE  Inv'
<1>1. ASSUME NEW l \in Lattices, CreateConfig(c, l) \/ EditLattice(c, l)
      PROVE  Inv'
  <2>0. PICK new \in Config :
          /\ cfg' = [cfg EXCEPT ![c] = new]
          /\ new.lattice = l /\ new.state # "absent"
          /\ cfg[c].state # "absent" => new.fin = cfg[c].fin
          /\ new.state \in {"live", cfg[c].state}
    <3>1. CASE CreateConfig(c, l)
      <4>1. [state |-> "live", fin |-> FALSE, lattice |-> l] \in Config
        BY DEF Config
      <4> WITNESS [state |-> "live", fin |-> FALSE, lattice |-> l] \in Config
      <4> QED BY <3>1 DEF CreateConfig
    <3>2. CASE EditLattice(c, l)
      <4>0. cfg[c] \in Config
        BY DEF Inv, TypeOK
      <4>1. [cfg[c] EXCEPT !.lattice = l] \in Config
        BY <4>0 DEF Config
      <4> WITNESS [cfg[c] EXCEPT !.lattice = l] \in Config
      <4> QED BY <3>2 DEF EditLattice, Inv, TypeOK, Config
    <3> QED BY <1>1, <3>1, <3>2
  <2>1. cfg' \in [Configs -> Config]
    BY <2>0 DEF Inv, TypeOK
  <2>2. budget' \in [user: Nat, disturb: Nat]
    <3>1. CASE CreateConfig(c, l)
      BY <3>1, UserChangeType DEF Inv, CreateConfig
    <3>2. CASE EditLattice(c, l)
      BY <3>2, DisturbType DEF Inv, EditLattice
    <3> QED BY <1>1, <3>1, <3>2
  <2>3. /\ granted' = granted \cup {<<NsOf[c], l>>}
        /\ granted' \subseteq Namespaces \X Lattices
    BY <1>1, NsType DEF Inv, TypeOK, CreateConfig, EditLattice
  <2>4. UNCHANGED <<rec, watchers, tasks, stream, deployed, chan, exec, services,
                    lastSeq, revoked, published, withdrawn>>
    BY <1>1 DEF CreateConfig, EditLattice
  <2>5. TypeOK'
    BY <2>1, <2>2, <2>3, <2>4 DEF Inv, TypeOK
  <2>6. ConfigInv'
    BY <2>0, <2>3, <2>4 DEF Inv, TypeOK, ConfigInv
  <2>7. RecInv'
    BY <2>0, <2>3, <2>4 DEF Inv, TypeOK, RecInv
  <2>8. WatcherInv' /\ StreamInv' /\ Justified'
    BY <2>3, <2>4 DEF Inv, WatcherInv, Asked, Registered, StreamInv, Justified
  <2>9. CommandInv'
    BY <2>3, <2>4, GrowsCommands DEF Inv, HistoriesGrow
  <2> QED BY <2>5, <2>6, <2>7, <2>8, <2>9 DEF Inv
<1>2. ASSUME DeleteConfig(c)
      PROVE  Inv'
  <2>1. TypeOK'
    <3>1. cfg' \in [Configs -> Config]
      <4>1. cfg \in [Configs -> Config] /\ cfg[c] \in Config
        BY DEF Inv, TypeOK
      <4>2. /\ [cfg[c] EXCEPT !.state = "deleting"] \in Config
            /\ NoConfig \in Config
        BY <4>1 DEF Config, NoConfig
      <4> QED BY <1>2, <4>1, <4>2 DEF DeleteConfig
    <3>2. budget' \in [user: Nat, disturb: Nat]
      BY <1>2, UserChangeType DEF Inv, DeleteConfig
    <3>3. revoked' \subseteq Namespaces
      BY <1>2, NsType DEF Inv, TypeOK, DeleteConfig
    <3> QED BY <1>2, <3>1, <3>2, <3>3 DEF Inv, TypeOK, DeleteConfig
  <2>0. /\ \A d \in Configs : d # c => cfg'[d] = cfg[d]
        /\ cfg[c].fin => cfg'[c] = [cfg[c] EXCEPT !.state = "deleting"]
        /\ ~cfg[c].fin => cfg'[c] = NoConfig
        /\ cfg[c] \in Config /\ cfg[c].state = "live"
    BY <1>2 DEF Inv, TypeOK, DeleteConfig
  <2>5. /\ cfg[c].fin => cfg'[c].fin /\ cfg'[c].state = "deleting"
                          /\ cfg'[c].lattice = cfg[c].lattice
        /\ ~cfg[c].fin => rec[c].pc = "idle"
    <3>1. cfg[c].fin => cfg'[c].fin /\ cfg'[c].state = "deleting"
                        /\ cfg'[c].lattice = cfg[c].lattice
      BY <2>0 DEF Config
    <3>2. ~cfg[c].fin => rec[c].pc = "idle"
      BY DEF Inv, RecInv
    <3> QED BY <3>1, <3>2
  <2>6. /\ UNCHANGED <<rec, granted, published, withdrawn, deployed>>
        /\ revoked' = revoked \cup {NsOf[c]}
    BY <1>2 DEF DeleteConfig
  <2>7. ConfigInv'
    BY <2>0, <2>5, <2>6 DEF Inv, ConfigInv, NoConfig
  <2>8. RecInv'
    BY <2>0, <2>5, <2>6 DEF Inv, RecInv
  <2>2. ConfigInv' /\ RecInv'
    BY <2>7, <2>8
  <2>3. WatcherInv' /\ StreamInv' /\ Justified'
    BY <1>2 DEF Inv, WatcherInv, Asked, Registered, StreamInv, Justified,
                DeleteConfig
  <2>4. CommandInv'
    BY <1>2, GrowsCommands DEF Inv, DeleteConfig, HistoriesGrow
  <2> QED BY <2>1, <2>2, <2>3, <2>4 DEF Inv
<1> QED BY <1>1, <1>2 DEF User

\* wadm: what an event carries is recorded as published with it.
LEMMA WadmInv ==
  ASSUME Inv, NEW l \in Lattices, NEW a \in Apps, Wadm(l, a)
  PROVE  Inv'
<1>2. ASSUME NEW kind \in {"published", "unpublished", "other", "garbled"},
             NEW m \in Manifest, Publish(l, kind, a, m),
             deployed' \in [Lattices -> [Apps -> Manifest \cup {None}]],
             budget' \in [user: Nat, disturb: Nat],
             published \subseteq published',
             published' \subseteq Lattices \X Apps \X Ports,
             (kind = "published" /\ m \in Ports) => <<l, a, m>> \in published',
             withdrawn \subseteq withdrawn',
             withdrawn' \subseteq Lattices \X Apps,
             kind = "unpublished" => <<l, a>> \in withdrawn',
             \A k \in Lattices, b \in Apps :
               deployed'[k][b] \in Ports => <<k, b, deployed'[k][b]>> \in published'
      PROVE  Inv'
  <2> DEFINE e == [seq |-> lastSeq + 1, kind |-> kind, name |-> a,
                   manifest |-> m, tries |-> 0]
  <2>1. e \in Message /\ lastSeq' \in Nat
    BY <1>2 DEF Inv, TypeOK, Message, Publish
  <2>2. /\ stream' = [stream EXCEPT ![l] = @ \cup {e}]
        /\ UNCHANGED <<cfg, rec, watchers, tasks, chan, exec, services, granted,
                       revoked>>
    BY <1>2 DEF Publish
  <2>3. e.kind = kind /\ e.name = a /\ e.manifest = m
    OBVIOUS
  <2> HIDE DEF e
  <2>4. TypeOK'
    BY <1>2, <2>1, <2>2 DEF Inv, TypeOK
  <2>5. StreamInv'
    BY <1>2, <2>2, <2>3 DEF Inv, TypeOK, StreamInv
  <2>6. ConfigInv' /\ RecInv' /\ WatcherInv' /\ Justified'
    BY <1>2, <2>2 DEF Inv, ConfigInv, RecInv, WatcherInv, Asked, Registered,
                      Justified
  <2>7. CommandInv'
    BY <1>2, <2>2, GrowsCommands DEF Inv, HistoriesGrow
  <2> QED BY <2>4, <2>5, <2>6, <2>7 DEF Inv
<1>3. ASSUME NEW m \in Manifest, Deploy(l, a, m)
      PROVE  Inv'
  <2>1. deployed' \in [Lattices -> [Apps -> Manifest \cup {None}]]
    BY <1>3 DEF Inv, TypeOK, Deploy
  <2>2. /\ published \subseteq published'
        /\ published' \subseteq Lattices \X Apps \X Ports
        /\ m \in Ports => <<l, a, m>> \in published'
    BY <1>3 DEF Inv, TypeOK, Deploy
  <2>3. \A k \in Lattices, b \in Apps :
          deployed'[k][b] \in Ports => <<k, b, deployed'[k][b]>> \in published'
    BY <1>3, <2>2 DEF Inv, TypeOK, StreamInv, Deploy
  <2> QED BY <1>2, <1>3, <2>1, <2>2, <2>3 DEF Deploy, Inv, TypeOK
<1>4. ASSUME Undeploy(l, a)
      PROVE  Inv'
  <2>1. deployed' \in [Lattices -> [Apps -> Manifest \cup {None}]]
    BY <1>4 DEF Inv, TypeOK, Undeploy
  <2>2. \A k \in Lattices, b \in Apps :
          deployed'[k][b] \in Ports => <<k, b, deployed'[k][b]>> \in published
    BY <1>4, ConstantsAssumption DEF Inv, TypeOK, StreamInv, Undeploy
  <2>3. /\ withdrawn' \subseteq Lattices \X Apps
        /\ withdrawn \subseteq withdrawn' /\ <<l, a>> \in withdrawn'
    BY <1>4 DEF Inv, TypeOK, Undeploy
  <2> QED BY <1>2, <1>4, <2>1, <2>2, <2>3 DEF Undeploy, Inv, TypeOK, Manifest
<1>5. ASSUME NEW kind \in {"other", "garbled"}, PublishOther(l, kind, a)
      PROVE  Inv'
  <2>1. budget' \in [user: Nat, disturb: Nat]
    BY <1>5, DisturbType DEF PublishOther, Inv
  <2> QED BY <1>2, <1>5, <2>1 DEF PublishOther, Inv, TypeOK, StreamInv, Manifest
<1> QED BY <1>3, <1>4, <1>5 DEF Wadm
-----------------------------------------------------------------------------
\* A reconciliation that ends.
LEMMA FinishInv ==
  ASSUME Inv, NEW c \in Configs, Finish(c),
         budget' \in [user: Nat, disturb: Nat],
         UNCHANGED <<cfg, watchers, tasks, stream, chan, exec, services, envVars>>
  PROVE  Inv'
<1>1. Idle \in Reconciliation
  BY DEF Idle, NoApps, Reconciliation, Phase
<1>2. Idle.pc = "idle" /\ \A a \in Apps : Idle.apps[a] = None
  BY DEF Idle, NoApps
<1> QED BY <1>1, <1>2, OnlyRec DEF Finish

\* The steps of a reconciliation that only move it on.
LEMMA RecMovesInv ==
  ASSUME Inv, NEW c \in Configs,
         \/ BeginApply(c) \/ BeginCleanup(c) \/ GetConfig(c) \/ ListApps(c)
         \/ EnterServices(c) \/ EndReconcile(c)
  PROVE  Inv'
<1> DEFINE l == cfg[c].lattice
<1>1. rec \in [Configs -> Reconciliation] /\ rec[c] \in Reconciliation
  BY DEF Inv, TypeOK
<1>2. /\ rec[c].pc \in {"idle", "get"} => rec[c].apps = NoApps
      /\ NoApps \in [Apps -> Manifest \cup {None}]
  <2>1. rec[c].apps \in [Apps -> Manifest \cup {None}]
    BY <1>1 DEF Reconciliation
  <2>2. rec[c].pc \in {"idle", "get"} => \A a \in Apps : rec[c].apps[a] = None
    BY DEF Inv, RecInv
  <2> QED BY <2>1, <2>2 DEF NoApps
<1>3. \A a \in Apps : NoApps[a] = None
  BY DEF NoApps
<1>4. cfg[c].state # "absent" => l \in Lattices /\ <<NsOf[c], l>> \in granted
  BY DEF Inv, ConfigInv
<1>5. CASE BeginApply(c)
  <2> DEFINE r == [rec[c] EXCEPT !.pc = "get"]
  <2>1. r \in Reconciliation /\ r.pc = "get" /\ r.apps = NoApps
    BY <1>1, <1>2, <1>5 DEF BeginApply, Reconciliation, Phase
  <2>2. rec' = [rec EXCEPT ![c] = r]
    BY <1>1, <1>5 DEF BeginApply, Goto
  <2>3. cfg[c].state # "absent" /\ cfg[c].fin
    BY <1>5 DEF BeginApply
  <2> HIDE DEF r
  <2> QED BY <1>3, <1>5, <2>1, <2>2, <2>3, OnlyRec DEF BeginApply, Inv, TypeOK
<1>6. CASE BeginCleanup(c) \/ GetConfig(c)
  <2>1. cfg[c].state # "absent" /\ cfg[c].fin
    BY <1>6 DEF BeginCleanup, GetConfig, Inv, RecInv
  <2>2. PICK r \in Reconciliation : /\ r.pc \in {"stop", "list"}
                                    /\ r.lattice = l /\ r.apps = NoApps
                                    /\ rec' = [rec EXCEPT ![c] = r]
                                    /\ r.pc = "stop" => BeginCleanup(c)
    <3> DEFINE q(pc) == [rec[c] EXCEPT !.pc = pc, !.lattice = l]
    <3>1. \A pc \in {"stop", "list"} :
            /\ q(pc) \in Reconciliation /\ q(pc).pc = pc /\ q(pc).lattice = l
            /\ rec[c].pc \in {"idle", "get"} => q(pc).apps = NoApps
      BY <1>1, <1>2, <1>4, <2>1 DEF Reconciliation, Phase
    <3>2. CASE BeginCleanup(c)
      <4>1. rec' = [rec EXCEPT ![c] = q("stop")] /\ rec[c].pc = "idle"
        BY <1>1, <3>2 DEF BeginCleanup
      <4> HIDE DEF q
      <4> QED BY <3>1, <3>2, <4>1
    <3>3. CASE GetConfig(c)
      <4>1. rec' = [rec EXCEPT ![c] = q("list")] /\ rec[c].pc = "get"
        BY <1>1, <3>3 DEF GetConfig
      <4> HIDE DEF q
      <4> QED BY <3>1, <4>1
    <3> QED BY <1>6, <3>2, <3>3
  <2>3. UNCHANGED <<cfg, watchers, tasks, stream, chan, exec, services, budget,
                    envVars>>
    BY <1>6 DEF BeginCleanup, GetConfig
  <2>4. r.pc = "stop" => NsOf[c] \in revoked
    BY <2>2 DEF BeginCleanup, Inv, ConfigInv
  <2> QED BY <1>3, <1>4, <2>1, <2>2, <2>3, <2>4, OnlyRec DEF Inv, TypeOK
<1>7. CASE ListApps(c)
  <2> DEFINE k == rec[c].lattice
             r == [rec[c] EXCEPT !.pc = "watch", !.apps = deployed[k]]
  <2>1. k \in Lattices /\ <<NsOf[c], k>> \in granted
        /\ cfg[c].state # "absent" /\ cfg[c].fin
    BY <1>7 DEF ListApps, Inv, RecInv
  <2>2. deployed[k] \in [Apps -> Manifest \cup {None}]
    BY <2>1 DEF Inv, TypeOK
  <2>3. \A a \in Apps : deployed[k][a] \in Ports =>
          <<k, a, deployed[k][a]>> \in published
    BY <2>1 DEF Inv, StreamInv
  <2>4. /\ r \in Reconciliation /\ r.pc = "watch" /\ r.lattice = k
        /\ r.apps = deployed[k]
    BY <1>1, <2>2 DEF Reconciliation, Phase
  <2>5. rec' = [rec EXCEPT ![c] = r]
    BY <1>1, <1>7 DEF ListApps
  <2> HIDE DEF r
  <2>6. /\ budget' \in [user: Nat, disturb: Nat]
        /\ UNCHANGED <<cfg, watchers, tasks, stream, chan, exec, services, envVars>>
    BY <1>7 DEF ListApps, Inv, TypeOK
  <2> QED BY <2>1, <2>3, <2>4, <2>5, <2>6, OnlyRec
<1>8. CASE EnterServices(c)
  <2>1. CASE Goto(c, "services")
    <3> DEFINE r == [rec[c] EXCEPT !.pc = "services"]
    <3>1. /\ r \in Reconciliation /\ r.pc = "services"
          /\ r.lattice = rec[c].lattice /\ r.apps = rec[c].apps
      BY <1>1 DEF Reconciliation, Phase
    <3>2. rec' = [rec EXCEPT ![c] = r]
      BY <1>1, <2>1 DEF Goto
    <3> HIDE DEF r
    <3>3. /\ r.lattice \in Lattices /\ <<NsOf[c], r.lattice>> \in granted
          /\ cfg[c].state # "absent" /\ cfg[c].fin
          /\ \A a \in Apps : r.apps[a] \in Ports =>
               <<r.lattice, a, r.apps[a]>> \in published
      BY <1>8, <3>1, ConstantsAssumption DEF EnterServices, Inv, RecInv
    <3> QED BY <1>8, <3>1, <3>2, <3>3, OnlyRec DEF EnterServices, Inv, TypeOK
  <2>2. CASE Finish(c)
    BY <1>8, <2>2, FinishInv DEF EnterServices, Inv, TypeOK
  <2> QED BY <1>8, <2>1, <2>2 DEF EnterServices
<1>9. CASE EndReconcile(c)
  BY <1>9, FinishInv DEF EndReconcile, Inv, TypeOK
<1> QED BY <1>5, <1>6, <1>7, <1>8, <1>9

\* The finalizer goes on before a reconciliation starts and comes off as it ends.
LEMMA FinalizerInv ==
  ASSUME Inv, NEW c \in Configs, AddFinalizer(c) \/ RemoveFinalizer(c)
  PROVE  Inv'
<1>1. cfg \in [Configs -> Config] /\ cfg[c] \in Config
  BY DEF Inv, TypeOK
<1>2. UNCHANGED <<watchers, tasks, stream, chan, exec, services, budget, envVars>>
  BY DEF AddFinalizer, RemoveFinalizer
<1>3. CASE AddFinalizer(c)
  <2>1. /\ cfg' \in [Configs -> Config]
        /\ \A d \in Configs : /\ cfg'[d].state = cfg[d].state
                              /\ cfg'[d].lattice = cfg[d].lattice
                              /\ cfg[d].fin => cfg'[d].fin
    BY <1>1, <1>3 DEF AddFinalizer, Config
  <2>2. rec' = rec
    BY <1>3 DEF AddFinalizer
  <2>3. TypeOK'
    BY <1>2, <2>1, <2>2 DEF Inv, TypeOK, envVars
  <2>4. ConfigInv' /\ RecInv'
    BY <1>2, <2>1, <2>2 DEF Inv, ConfigInv, RecInv, envVars
  <2>5. WatcherInv' /\ StreamInv' /\ Justified' /\ CommandInv'
    BY <1>2, GrowsCommands, GrowsEnv
       DEF Inv, WatcherInv, Asked, Registered, StreamInv, Justified, envVars
  <2> QED BY <2>3, <2>4, <2>5 DEF Inv
<1>4. CASE RemoveFinalizer(c)
  <2>1. NoConfig \in Config /\ NoConfig.state = "absent"
    BY DEF NoConfig, Config
  <2>2. /\ Idle \in Reconciliation /\ Idle.pc = "idle"
        /\ \A a \in Apps : Idle.apps[a] = None
    BY DEF Idle, NoApps, Reconciliation, Phase
  <2>3. /\ cfg' = [cfg EXCEPT ![c] = NoConfig]
        /\ rec' = [rec EXCEPT ![c] = Idle]
    BY <1>4 DEF RemoveFinalizer, Finish
  <2>4. TypeOK'
    BY <1>2, <2>1, <2>2, <2>3 DEF Inv, TypeOK, envVars
  <2>5. ConfigInv'
    BY <1>1, <1>2, <2>1, <2>3 DEF Inv, ConfigInv, envVars
  <2>6. RecInv'
    BY <1>1, <1>2, <2>2, <2>3 DEF Inv, TypeOK, RecInv, envVars
  <2>7. WatcherInv' /\ StreamInv' /\ Justified' /\ CommandInv'
    BY <1>2, GrowsCommands, GrowsEnv
       DEF Inv, WatcherInv, Asked, Registered, StreamInv, Justified, envVars
  <2> QED BY <2>4, <2>5, <2>6, <2>7 DEF Inv
<1> QED BY <1>3, <1>4

\* Moving a reconciliation on, when the lattice and the list stay.
LEMMA GotoInv ==
  ASSUME Inv, NEW c \in Configs, NEW pc \in Phase \ {"idle", "get"},
         rec[c].pc \notin {"idle", "get"}, Goto(c, pc),
         pc \in {"stop", "unfinalize"} => rec[c].pc \in {"stop", "unfinalize"},
         UNCHANGED <<cfg, envVars>>
  PROVE  rec' \in [Configs -> Reconciliation] /\ ConfigInv' /\ RecInv'
<1>1. rec \in [Configs -> Reconciliation] /\ rec[c] \in Reconciliation
  BY DEF Inv, TypeOK
<1>2. /\ rec' \in [Configs -> Reconciliation]
      /\ \A d \in Configs : /\ rec'[d].lattice = rec[d].lattice
                            /\ rec'[d].apps = rec[d].apps
                            /\ rec'[d].pc = IF d = c THEN pc ELSE rec[d].pc
  BY <1>1 DEF Goto, Reconciliation
<1>3. RecInv'
  BY <1>2 DEF Inv, RecInv, envVars
<1> QED BY <1>2, <1>3 DEF Inv, ConfigInv, envVars

\* watch registers the namespace of a config that asked for the lattice.
LEMMA WatchInv ==
  ASSUME Inv, NEW c \in Configs, Watch(c)
  PROVE  Inv'
<1> DEFINE l == rec[c].lattice
           ns == NsOf[c]
<1>1. l \in Lattices /\ ns \in Namespaces /\ <<ns, l>> \in granted
  BY NsType DEF Inv, RecInv, Watch
<1>2. watchers \in [Lattices -> Watcher] /\ tasks \in [Tasks -> Task]
  BY DEF Inv, TypeOK
<1>3. rec' \in [Configs -> Reconciliation] /\ ConfigInv' /\ RecInv'
  BY GotoInv DEF Watch, Phase
<1>4. UNCHANGED <<cfg, stream, chan, exec, services, budget, envVars>>
  BY DEF Watch
<1>5. /\ watchers' \in [Lattices -> Watcher] /\ tasks' \in [Tasks -> Task]
      /\ WatcherInv'
  <2>1. CASE Registered(l)
    <3>1. /\ watchers' = [watchers EXCEPT ![l].namespaces = @ \cup {ns}]
          /\ tasks' = tasks
      BY <2>1 DEF Watch
    <3> HIDE DEF l, ns
    <3>2. \A k \in Lattices :
            /\ watchers'[k].task = watchers[k].task
            /\ watchers'[k].namespaces \subseteq
                 watchers[k].namespaces \cup (IF k = l THEN {ns} ELSE {})
      BY <1>1, <1>2, <3>1 DEF Watcher
    <3>3. \A k \in Lattices :
            /\ Asked(watchers[k].namespaces, k)'
            /\ (Registered(k) \/ watchers[k].namespaces = {})'
      BY <1>1, <1>4, <2>1, <3>2
         DEF Inv, WatcherInv, Asked, Registered, envVars
    <3>4. WatcherInv'
      BY <1>4, <3>1, <3>3 DEF Inv, WatcherInv, Asked, envVars
    <3>5. watchers' \in [Lattices -> Watcher]
      BY <1>1, <1>2, <3>1 DEF Watcher
    <3> QED BY <1>2, <3>1, <3>4, <3>5
  <2>2. CASE ~Registered(l)
    <3>1. PICK t \in Tasks :
            /\ tasks' = [tasks EXCEPT ![t] =
                 [st |-> "ready", lattice |-> l, namespaces |-> {ns}, msg |-> 0]]
            /\ watchers' = [watchers EXCEPT ![l] =
                 [task |-> t, namespaces |-> {ns}]]
      BY <2>2 DEF Watch
    <3> HIDE DEF l, ns
    <3>2. watchers' \in [Lattices -> Watcher] /\ tasks' \in [Tasks -> Task]
      BY <1>1, <1>2, <3>1 DEF Watcher, Task
    <3>3. WatcherInv'
      BY <1>1, <1>2, <1>4, <3>1, ConstantsAssumption
         DEF Inv, WatcherInv, Asked, Registered, Watcher, Task, envVars
    <3> QED BY <3>2, <3>3
  <2> QED BY <2>1, <2>2
<1>6. TypeOK'
  BY <1>3, <1>4, <1>5 DEF Inv, TypeOK, envVars
<1>7. StreamInv' /\ Justified' /\ CommandInv'
  BY <1>4, GrowsCommands, GrowsEnv DEF Inv, StreamInv, Justified, envVars
<1> QED BY <1>3, <1>5, <1>6, <1>7 DEF Inv

\* One application out of the list.
LEMMA TakeAppInv ==
  ASSUME Inv, NEW c \in Configs, NEW a \in Apps,
         rec' = [rec EXCEPT ![c].apps[a] = None],
         UNCHANGED <<cfg, envVars>>
  PROVE  rec' \in [Configs -> Reconciliation] /\ ConfigInv' /\ RecInv'
<1>1. rec \in [Configs -> Reconciliation] /\ rec[c] \in Reconciliation
  BY DEF Inv, TypeOK
<1>2. rec[c].apps \in [Apps -> Manifest \cup {None}]
  BY <1>1 DEF Reconciliation
<1>3. /\ rec' \in [Configs -> Reconciliation]
      /\ \A d \in Configs : /\ rec'[d].lattice = rec[d].lattice
                            /\ rec'[d].pc = rec[d].pc
                            /\ \A b \in Apps : rec'[d].apps[b] \in
                                                 {rec[d].apps[b], None}
  BY <1>1, <1>2 DEF Reconciliation
<1>4. RecInv'
  BY <1>3, ConstantsAssumption DEF Inv, RecInv, envVars
<1> QED BY <1>3, <1>4 DEF Inv, ConfigInv, envVars

\* reconcile_services: the listed manifest, the Watcher's namespaces.
LEMMA ReconcileAppInv ==
  ASSUME Inv, NEW c \in Configs, NEW a \in Apps,
         ReconcileApp(c, a) \/ GetManifestFails(c, a)
  PROVE  Inv'
<1>1. /\ rec' \in [Configs -> Reconciliation] /\ ConfigInv' /\ RecInv'
      /\ UNCHANGED <<cfg, watchers, tasks, stream, exec, services, envVars>>
  BY TakeAppInv DEF ReconcileApp, GetManifestFails
<1>2. chan' \in Seq(WatcherCommand) /\ CommandInv'
  <2>1. CASE ReconcileApp(c, a)
    <3> DEFINE l == rec[c].lattice
               nss == watchers[l].namespaces
               m == rec[c].apps[a]
    <3>1. /\ l \in Lattices /\ Asked(nss, l) /\ nss \in SUBSET Namespaces
          /\ m \in Ports => <<l, a, m>> \in published
      BY <2>1 DEF ReconcileApp, Inv, TypeOK, RecInv, WatcherInv, Watcher
    <3>2. chan' = chan \o Upserts(l, nss, a, m)
      BY <2>1 DEF ReconcileApp
    <3> HIDE DEF l, nss, m
    <3> QED BY <1>1, <3>1, <3>2, UpsertsSent DEF Inv
  <2>2. CASE GetManifestFails(c, a)
    BY <1>1, <2>2, GrowsCommands, GrowsEnv DEF GetManifestFails, Inv, TypeOK
  <2> QED BY <2>1, <2>2
<1>3. budget' \in [user: Nat, disturb: Nat]
  BY DisturbType DEF ReconcileApp, GetManifestFails, Inv, TypeOK
<1>4. TypeOK'
  BY <1>1, <1>2, <1>3 DEF Inv, TypeOK, envVars
<1>5. WatcherInv' /\ StreamInv' /\ Justified'
  BY <1>1 DEF Inv, WatcherInv, Asked, Registered, StreamInv, Justified, envVars
<1> QED BY <1>1, <1>2, <1>4, <1>5 DEF Inv

\* stop_watch only shrinks a Watcher, and sends a command that writes nothing.
LEMMA StopWatchInv ==
  ASSUME Inv, NEW c \in Configs, StopWatch(c)
  PROVE  Inv'
<1> DEFINE l == rec[c].lattice
           ns == NsOf[c]
           rest == watchers[l].namespaces \ {ns}
           cmd == [kind |-> "RemoveServices", namespaces |-> {ns}]
<1>1. l \in Lattices /\ ns \in Namespaces /\ ns \in revoked
  BY NsType DEF Inv, RecInv, StopWatch
<1>2. rec' \in [Configs -> Reconciliation] /\ ConfigInv' /\ RecInv'
  BY GotoInv DEF StopWatch, Phase
<1>3. UNCHANGED <<cfg, tasks, stream, exec, services, budget, envVars>>
  BY DEF StopWatch
<1>4. watchers \in [Lattices -> Watcher]
  BY DEF Inv, TypeOK
<1>5. CASE Registered(l)
  <2>1. /\ watchers' = [watchers EXCEPT ![l] =
             IF rest = {} THEN NoWatcher ELSE [@ EXCEPT !.namespaces = rest]]
        /\ chan' = Append(chan, cmd)
    BY <1>5 DEF StopWatch
  <2>2. cmd \in WatcherCommand /\ JustifiedCommand(cmd)
    BY <1>1 DEF WatcherCommand, RemoveServices, JustifiedCommand
  <2>3. chan' = chan \o <<cmd>>
    <3>1. chan \in Seq(WatcherCommand)
      BY DEF Inv, TypeOK
    <3> HIDE DEF cmd
    <3> QED BY <2>1, <2>2, <3>1
  <2>4. chan' \in Seq(WatcherCommand) /\ CommandInv'
    BY <1>3, <2>2, <2>3, Sent DEF Inv
  <2> HIDE DEF l, ns, cmd
  <2>5. /\ watchers' \in [Lattices -> Watcher]
        /\ \A k \in Lattices :
             /\ watchers'[k].namespaces \subseteq watchers[k].namespaces
             /\ \/ watchers'[k].task = watchers[k].task
                \/ watchers'[k].namespaces = {}
    <3>1. watchers[l] \in Watcher /\ rest \subseteq watchers[l].namespaces
      BY <1>1, <1>4
    <3> HIDE DEF rest
    <3>2. PICK w \in Watcher :
            /\ watchers' = [watchers EXCEPT ![l] = w]
            /\ w.namespaces \subseteq watchers[l].namespaces
            /\ w.task = watchers[l].task \/ w.namespaces = {}
      <4>1. CASE rest = {}
        <5>1. NoWatcher \in Watcher /\ NoWatcher.namespaces = {}
          BY DEF Watcher, NoWatcher
        <5> QED BY <2>1, <4>1, <5>1
      <4>2. CASE rest # {}
        <5>1. /\ [watchers[l] EXCEPT !.namespaces = rest] \in Watcher
              /\ [watchers[l] EXCEPT !.namespaces = rest].namespaces = rest
              /\ [watchers[l] EXCEPT !.namespaces = rest].task = watchers[l].task
          BY <3>1 DEF Watcher
        <5> QED BY <2>1, <3>1, <4>2, <5>1
      <4> QED BY <4>1, <4>2
    <3> QED BY <1>1, <1>4, <3>2
  <2>6. WatcherInv'
    BY <1>3, <2>5 DEF Inv, WatcherInv, Asked, Registered, envVars
  <2>7. TypeOK'
    BY <1>2, <1>3, <2>4, <2>5 DEF Inv, TypeOK, envVars
  <2>8. StreamInv' /\ Justified'
    BY <1>3 DEF Inv, StreamInv, Justified, envVars
  <2> QED BY <1>2, <2>4, <2>6, <2>7, <2>8 DEF Inv
<1>6. CASE ~Registered(l)
  <2>1. UNCHANGED <<watchers, chan>>
    BY <1>6 DEF StopWatch
  <2>2. TypeOK'
    BY <1>2, <1>3, <2>1 DEF Inv, TypeOK, envVars
  <2>3. WatcherInv' /\ StreamInv' /\ Justified' /\ CommandInv'
    BY <1>3, <2>1, GrowsCommands, GrowsEnv
       DEF Inv, WatcherInv, Asked, Registered, StreamInv, Justified, envVars
  <2> QED BY <1>2, <2>2, <2>3 DEF Inv
<1> QED BY <1>5, <1>6

\* Every step of a reconciliation.
LEMMA ReconcileInv ==
  ASSUME Inv, NEW c \in Configs, Reconcile(c) \/ ReconcileFails(c)
  PROVE  Inv'
<1>1. CASE ReconcileFails(c)
  BY <1>1, FinishInv, DisturbType DEF ReconcileFails, Inv
<1> QED BY <1>1, FinalizerInv, RecMovesInv, WatchInv, ReconcileAppInv,
           StopWatchInv DEF Reconcile
-----------------------------------------------------------------------------
\* Receiving a message: the command carries the lattice and namespaces of the
\* task, and the manifest of the message.
LEMMA ReceiveInv ==
  ASSUME Inv, NEW t \in Tasks, NEW m, Receive(t, m),
         budget' \in [user: Nat, disturb: Nat]
  PROVE  Inv'
<1> DEFINE l == tasks[t].lattice
           nss == tasks[t].namespaces
<1>1. l \in Lattices /\ Asked(nss, l) /\ nss \in SUBSET Namespaces
  BY DEF Receive, Inv, TypeOK, WatcherInv, Task
<1>2. m \in stream[l] /\ m \in Message
  BY <1>1 DEF Receive, Inv, TypeOK
<1>3. UNCHANGED <<cfg, rec, watchers, exec, services, envVars>>
  BY DEF Receive
<1>4. chan' \in Seq(WatcherCommand) /\ CommandInv'
  <2>1. chan' = chan \o Commands(t, m)
    BY DEF Receive
  <2>2. m.name \in Apps
    BY <1>2 DEF Message
  <2>3. CASE m.kind = "published"
    <3>1. m.manifest \in Ports => <<l, m.name, m.manifest>> \in published
      BY <1>1, <1>2, <2>3 DEF Inv, StreamInv
    <3>2. chan' = chan \o Upserts(l, nss, m.name, m.manifest)
      BY <2>1, <2>3 DEF Commands
    <3> HIDE DEF l, nss
    <3> QED BY <1>1, <1>3, <2>2, <3>1, <3>2, UpsertsSent DEF Inv
  <2>4. CASE m.kind = "unpublished"
    <3> DEFINE cmd == [kind |-> "RemoveService", name |-> m.name,
                       namespaces |-> nss]
    <3>1. cmd \in WatcherCommand /\ JustifiedCommand(cmd)
      <4>1. <<l, m.name>> \in withdrawn
        BY <1>1, <1>2, <2>4 DEF Inv, StreamInv
      <4> QED BY <1>1, <2>2, <4>1
              DEF WatcherCommand, RemoveService, JustifiedCommand
    <3>2. chan' = chan \o <<cmd>>
      BY <2>1, <2>4 DEF Commands
    <3> HIDE DEF cmd
    <3> QED BY <1>3, <3>1, <3>2, Sent DEF Inv
  <2>5. CASE m.kind \notin {"published", "unpublished"}
    <3>1. chan' = chan
      BY <2>1, <2>5 DEF Commands, Inv, TypeOK
    <3> QED BY <1>3, <3>1, GrowsCommands, GrowsEnv DEF Inv, TypeOK
  <2> QED BY <2>3, <2>4, <2>5
<1>5. stream' \in [Lattices -> SUBSET Message] /\ StreamInv'
  <2> DEFINE n == [m EXCEPT !.tries = @ + 1]
  <2>1. /\ n \in Message /\ n.kind = m.kind /\ n.name = m.name
        /\ n.manifest = m.manifest
    BY <1>2 DEF Message
  <2>2. stream' = [stream EXCEPT ![l] = (@ \ {m}) \cup {n}]
    BY DEF Receive, Delivered
  <2>3. stream \in [Lattices -> SUBSET Message]
    BY DEF Inv, TypeOK
  <2> HIDE DEF n, l
  <2>4. stream' \in [Lattices -> SUBSET Message]
    BY <1>1, <2>1, <2>2, <2>3
  <2>5. StreamInv'
    BY <1>1, <1>2, <1>3, <2>1, <2>2, <2>3 DEF Inv, StreamInv, envVars
  <2> QED BY <2>4, <2>5
<1>6. /\ tasks' \in [Tasks -> Task]
      /\ \A u \in Tasks : /\ tasks'[u].st # "free" => tasks[u].st # "free"
                          /\ tasks'[u].lattice = tasks[u].lattice
                          /\ tasks'[u].namespaces = tasks[u].namespaces
  <2>1. tasks \in [Tasks -> Task] /\ m.seq \in Nat
    BY <1>2 DEF Inv, TypeOK, Message
  <2>2. CASE tasks' = tasks
    BY <2>1, <2>2
  <2>3. CASE tasks' = [tasks EXCEPT ![t].st = "acking", ![t].msg = m.seq]
    <3> DEFINE u == [tasks[t] EXCEPT !.st = "acking", !.msg = m.seq]
    <3>1. /\ u \in Task /\ u.lattice = tasks[t].lattice
          /\ u.namespaces = tasks[t].namespaces
      BY <2>1 DEF Task
    <3>2. tasks' = [tasks EXCEPT ![t] = u]
      BY <2>1, <2>3
    <3>3. tasks[t].st # "free"
      BY DEF Receive
    <3> HIDE DEF u
    <3> QED BY <2>1, <3>1, <3>2, <3>3
  <2> QED BY <2>2, <2>3 DEF Receive
<1>7. TypeOK'
  BY <1>3, <1>4, <1>5, <1>6 DEF Inv, TypeOK, envVars
<1>8. ConfigInv' /\ RecInv' /\ Justified' /\ WatcherInv'
  BY <1>3, <1>6 DEF Inv, ConfigInv, RecInv, Justified, WatcherInv, Asked,
                    Registered, envVars
<1> QED BY <1>4, <1>5, <1>7, <1>8 DEF Inv

\* Every step of a Watcher's task.
LEMMA TaskInv ==
  ASSUME Inv, NEW t \in Tasks,
         \/ TaskStep(t) \/ AckLost(t) \/ WatchEventsEnds(t)
         \/ \E l \in Lattices : \E m \in stream[l] : LateHandleEvent(t, m)
  PROVE  Inv'
<1>1. tasks \in [Tasks -> Task] /\ tasks[t] \in Task
  BY DEF Inv, TypeOK
<1>2. ASSUME NEW m, HandleEvent(t, m) \/ LateHandleEvent(t, m)
      PROVE  Inv'
  <2>1. budget' \in [user: Nat, disturb: Nat]
    BY <1>2, DisturbType DEF HandleEvent, LateHandleEvent, Inv, TypeOK
  <2> QED BY <1>2, <2>1, ReceiveInv DEF HandleEvent, LateHandleEvent
<1>3. CASE Ack(t)
  <2>1. /\ tasks' \in [Tasks -> Task]
        /\ \A u \in Tasks : /\ tasks'[u].st # "free" => tasks[u].st # "free"
                            /\ tasks'[u].lattice = tasks[u].lattice
                            /\ tasks'[u].namespaces = tasks[u].namespaces
    BY <1>1, <1>3 DEF Ack, Ready, Task
  <2>2. /\ stream' \in [Lattices -> SUBSET Message]
        /\ \A k \in Lattices : stream'[k] \subseteq stream[k]
    BY <1>3 DEF Ack, Inv, TypeOK
  <2>3. UNCHANGED <<cfg, rec, watchers, chan, exec, services, budget, envVars>>
    BY <1>3 DEF Ack
  <2>4. TypeOK'
    BY <2>1, <2>2, <2>3 DEF Inv, TypeOK, envVars
  <2>5. StreamInv'
    BY <2>2, <2>3 DEF Inv, StreamInv, envVars
  <2>6. ConfigInv' /\ RecInv' /\ Justified' /\ WatcherInv' /\ CommandInv'
    BY <2>1, <2>3, GrowsCommands, GrowsEnv DEF Inv, ConfigInv, RecInv, Justified,
       WatcherInv, Asked, Registered, envVars
  <2> QED BY <2>4, <2>5, <2>6 DEF Inv
<1>4. CASE AckLost(t)
  <2>1. /\ tasks' \in [Tasks -> Task]
        /\ \A u \in Tasks : tasks'[u].st # "free" =>
             /\ tasks[u].st # "free" /\ tasks'[u].lattice = tasks[u].lattice
             /\ tasks'[u].namespaces = tasks[u].namespaces
    BY <1>1, <1>4 DEF AckLost, Ready, Task
  <2> QED BY <1>4, <2>1, OnlyTasks, DisturbType DEF AckLost, Inv
<1>5. CASE WatchEventsEnds(t)
  <2>1. /\ tasks' \in [Tasks -> Task]
        /\ \A u \in Tasks : tasks'[u].st # "free" =>
             /\ tasks[u].st # "free" /\ tasks'[u].lattice = tasks[u].lattice
             /\ tasks'[u].namespaces = tasks[u].namespaces
    BY <1>1, <1>5 DEF WatchEventsEnds, Task
  <2> QED BY <1>5, <2>1, OnlyTasks, DisturbType DEF WatchEventsEnds, Inv
<1>6. CASE Shutdown(t)
  <2>1. /\ tasks' \in [Tasks -> Task]
        /\ \A u \in Tasks : tasks'[u].st # "free" =>
             /\ tasks[u].st # "free" /\ tasks'[u].lattice = tasks[u].lattice
             /\ tasks'[u].namespaces = tasks[u].namespaces
    BY <1>1, <1>6 DEF Shutdown, FreeTask, Task
  <2> QED BY <1>6, <2>1, OnlyTasks DEF Shutdown, Inv, TypeOK
<1> QED BY <1>2, <1>3, <1>4, <1>5, <1>6 DEF TaskStep
-----------------------------------------------------------------------------
\* Taking the next command off the queue.
LEMMA TakeCommandInv == Inv /\ TakeCommand => Inv'
<1> SUFFICES ASSUME Inv, TakeCommand PROVE Inv'
  OBVIOUS
<1> DEFINE cmd == Head(chan)
<1>1. chan \in Seq(WatcherCommand) /\ chan # <<>>
  BY DEF TakeCommand, Inv, TypeOK
<1>2. /\ cmd \in WatcherCommand /\ cmd = chan[1] /\ 1 \in 1..Len(chan)
      /\ Tail(chan) \in Seq(WatcherCommand)
      /\ \A i \in 1..Len(Tail(chan)) : Tail(chan)[i] = chan[i + 1]
                                       /\ i + 1 \in 1..Len(chan)
  BY <1>1
<1>3. /\ exec' = [cmd |-> cmd, todo |-> Targets(cmd)] /\ chan' = Tail(chan)
      /\ UNCHANGED <<cfg, rec, watchers, tasks, stream, services, budget, envVars>>
  BY DEF TakeCommand
<1> HIDE DEF cmd
<1>4. /\ Targets(cmd) \subseteq Namespaces \X Apps
      /\ cmd.kind \in {"UpsertService", "RemoveService"} =>
           Targets(cmd) \subseteq cmd.namespaces \X {cmd.name}
      /\ cmd.kind = "RemoveServices" =>
           Targets(cmd) \subseteq {k \in cmd.namespaces \X Apps :
                                    services[k].owner = "operator"}
  BY <1>2 DEF Targets, WatcherCommand, UpsertService, RemoveService, RemoveServices
<1>5. TypeOK'
  BY <1>2, <1>3, <1>4 DEF Inv, TypeOK, envVars
<1>6. CommandInv'
  <2>1. JustifiedCommand(cmd)
    BY <1>2 DEF Inv, CommandInv
  <2>2. \A i \in 1..Len(Tail(chan)) : JustifiedCommand(Tail(chan)[i])
    BY <1>2 DEF Inv, CommandInv
  <2> QED BY <1>3, <1>4, <2>1, <2>2 DEF CommandInv, JustifiedCommand, Asked, envVars
<1>7. ConfigInv' /\ RecInv' /\ WatcherInv' /\ StreamInv' /\ Justified'
  BY <1>3 DEF Inv, ConfigInv, RecInv, WatcherInv, Asked, Registered, StreamInv,
              Justified, envVars
<1> QED BY <1>5, <1>6, <1>7 DEF Inv

\* A step that works on one Service of the command: whatever an upsert writes
\* the command justifies.
LEMMA OneServiceInv ==
  ASSUME Inv, NEW todo \in SUBSET exec.todo, Progress(todo),
         \/ services' = services
         \/ \E k \in exec.todo \ todo :
              \/ services' = [services EXCEPT ![k] = NoService]
              \/ /\ exec.cmd.kind = "UpsertService"
                 /\ services' = [services EXCEPT ![k] = Upserted],
         budget' \in [user: Nat, disturb: Nat],
         UNCHANGED <<cfg, rec, watchers, tasks, stream, chan, envVars>>
  PROVE  Inv'
<1>1. exec \in [cmd: WatcherCommand \cup {NoCommand},
                todo: SUBSET (Namespaces \X Apps)]
  BY DEF Inv, TypeOK
<1>2. /\ exec' \in [cmd: WatcherCommand \cup {NoCommand},
                    todo: SUBSET (Namespaces \X Apps)]
      /\ \/ exec' = ExecIdle
         \/ exec'.cmd = exec.cmd /\ exec'.todo = todo
  BY <1>1 DEF Progress, ExecIdle
<1>3. CommandInv'
  <2>1. \A i \in 1..Len(chan) : JustifiedCommand(chan[i])'
    BY Grows, GrowsEnv DEF Inv, CommandInv
  <2>2. JustifiedCommand(exec.cmd)'
    <3>1. /\ UNCHANGED <<granted, revoked, published, withdrawn>>
          /\ JustifiedCommand(exec.cmd)
      BY DEF Inv, CommandInv, envVars
    <3>2. CASE exec' = ExecIdle
      BY <3>2 DEF JustifiedCommand, ExecIdle, NoCommand
    <3>3. CASE exec'.cmd = exec.cmd
      BY <3>1, <3>3 DEF JustifiedCommand, Asked
    <3> QED BY <1>2, <3>2, <3>3
  <2>3. exec'.cmd.kind \in {"UpsertService", "RemoveService"} =>
          exec'.todo \subseteq exec'.cmd.namespaces \X {exec'.cmd.name}
    BY <1>2 DEF Inv, CommandInv, ExecIdle, NoCommand
  <2>4. exec'.cmd.kind = "RemoveServices" =>
          exec'.todo \subseteq {k \in exec'.cmd.namespaces \X Apps :
                                services'[k].owner = "operator"}
    <3>1. CASE exec' = ExecIdle
      BY <3>1 DEF ExecIdle, NoCommand
    <3>2. CASE exec'.cmd = exec.cmd /\ exec'.todo = todo
      <4>1. \A k \in todo : services'[k] = services[k]
        BY <1>1 DEF Inv, TypeOK
      <4> QED BY <3>2, <4>1 DEF Inv, CommandInv
    <3> QED BY <1>2, <3>1, <3>2
  <2> QED BY <2>1, <2>2, <2>3, <2>4 DEF CommandInv, JustifiedCommand
<1>4. services' \in [Namespaces \X Apps -> Service] /\ Justified'
  <2>1. services \in [Namespaces \X Apps -> Service]
    BY DEF Inv, TypeOK
  <2>2. CASE services' = services
    BY <2>1, <2>2 DEF Inv, Justified, envVars
  <2>3. ASSUME NEW k \in exec.todo,
               services' = [services EXCEPT ![k] = NoService]
        PROVE  services' \in [Namespaces \X Apps -> Service] /\ Justified'
    <3>1. NoService \in Service /\ NoService.owner # "operator"
      BY DEF NoService, Service
    <3> QED BY <2>1, <2>3, <3>1 DEF Inv, Justified, envVars
  <2>4. ASSUME NEW k \in exec.todo, exec.cmd.kind = "UpsertService",
               services' = [services EXCEPT ![k] = Upserted]
        PROVE  services' \in [Namespaces \X Apps -> Service] /\ Justified'
    <3>1. exec.cmd \in UpsertService
      BY <1>1, <2>4 DEF WatcherCommand, UpsertService, RemoveService,
                        RemoveServices, NoCommand
    <3>2. /\ Upserted \in Service /\ Upserted.lattice = exec.cmd.lattice
          /\ Upserted.port = exec.cmd.port
      BY <3>1 DEF Upserted, UpsertService, Service, ManagedService
    <3>3. /\ <<exec.cmd.lattice, exec.cmd.name, exec.cmd.port>> \in published
          /\ Asked(exec.cmd.namespaces, exec.cmd.lattice)
          /\ k \in exec.cmd.namespaces \X {exec.cmd.name}
      BY <2>4 DEF Inv, CommandInv, JustifiedCommand
    <3>4. PICK ns \in exec.cmd.namespaces : k = <<ns, exec.cmd.name>>
      BY <3>3
    <3> QED BY <2>1, <2>4, <3>2, <3>3, <3>4 DEF Inv, Justified, Asked, envVars
  <2> QED BY <2>2, <2>3, <2>4
<1>5. TypeOK'
  BY <1>2, <1>4 DEF Inv, TypeOK, envVars
<1>6. ConfigInv' /\ RecInv' /\ WatcherInv' /\ StreamInv'
  BY DEF Inv, ConfigInv, RecInv, WatcherInv, Asked, Registered, StreamInv, envVars
<1> QED BY <1>3, <1>4, <1>5, <1>6 DEF Inv

\* Every step of the command loop.
LEMMA ExecInv ==
  ASSUME Inv, ExecStep \/ \E k \in Namespaces \X Apps : KubeFails(k)
  PROVE  Inv'
<1>1. CASE TakeCommand
  BY <1>1, TakeCommandInv
<1>2. CASE NothingToDo
  BY <1>2, OneServiceInv DEF NothingToDo, Inv, TypeOK
<1>3. ASSUME NEW k \in Namespaces \X Apps,
             CreateOrUpdateService(k) \/ DeleteService(k)
      PROVE  Inv'
  BY <1>3, OneServiceInv DEF CreateOrUpdateService, DeleteService, Inv, TypeOK
<1>4. ASSUME NEW k \in Namespaces \X Apps, KubeFails(k)
      PROVE  Inv'
  <2>1. budget' \in [user: Nat, disturb: Nat]
    BY <1>4, DisturbType DEF KubeFails, Inv
  <2>2. \E todo \in SUBSET exec.todo : Progress(todo)
    BY <1>4 DEF KubeFails
  <2> QED BY <1>4, <2>1, <2>2, OneServiceInv DEF KubeFails
<1> QED BY <1>1, <1>2, <1>3, <1>4 DEF ExecStep

\* A restart forgets everything that is not in the cluster.
LEMMA RestartInv == Inv /\ Restart => Inv'
<1> SUFFICES ASSUME Inv, Restart PROVE Inv'
  OBVIOUS
<1>1. UNCHANGED <<cfg, stream, services, envVars>>
      /\ budget' \in [user: Nat, disturb: Nat]
  BY DisturbType DEF Restart, Inv
<1>2. /\ rec' \in [Configs -> Reconciliation] /\ watchers' \in [Lattices -> Watcher]
      /\ tasks' \in [Tasks -> Task]
  BY DEF Restart, Reconciliation, Phase, Idle, NoApps, Watcher, NoWatcher, Task,
         FreeTask
<1>3. /\ chan' \in Seq(WatcherCommand)
      /\ exec' \in [cmd: WatcherCommand \cup {NoCommand},
                    todo: SUBSET (Namespaces \X Apps)]
  BY DEF Restart, ExecIdle
<1>4. TypeOK'
  BY <1>1, <1>2, <1>3 DEF Inv, TypeOK, envVars
<1>5. RecInv' /\ WatcherInv'
  BY DEF Restart, RecInv, Idle, NoApps, WatcherInv, Asked, Registered, NoWatcher,
         FreeTask
<1>6. CommandInv'
  BY DEF Restart, CommandInv, JustifiedCommand, ExecIdle, NoCommand
<1>7. ConfigInv' /\ StreamInv' /\ Justified'
  BY <1>1 DEF Inv, ConfigInv, StreamInv, Justified, envVars
<1> QED BY <1>4, <1>5, <1>6, <1>7 DEF Inv

\* Every step preserves the invariant.
LEMMA NextInv == Inv /\ [Next]_vars => Inv'
<1> SUFFICES ASSUME Inv, [Next]_vars PROVE Inv'
  OBVIOUS
<1>1. CASE UNCHANGED vars
  BY <1>1, GrowsCommands
     DEF HistoriesGrow, vars, Inv, TypeOK, ConfigInv, RecInv, WatcherInv, Asked, Registered,
         StreamInv, Justified
<1>2. CASE \E c \in Configs : User(c)
  BY <1>2, UserInv
<1>3. CASE \E l \in Lattices, a \in Apps : Wadm(l, a)
  BY <1>3, WadmInv
<1>4. CASE \E c \in Configs : Reconcile(c)
  BY <1>4, ReconcileInv
<1>5. CASE \E t \in Tasks : TaskStep(t)
  BY <1>5, TaskInv
<1>6. CASE ExecStep
  BY <1>6, ExecInv
<1>7. CASE Disturbance
  BY <1>7, ReconcileInv, ReconcileAppInv, TaskInv, ExecInv, RestartInv
     DEF Disturbance
<1> QED BY <1>1, <1>2, <1>3, <1>4, <1>5, <1>6, <1>7 DEF Next

\* The inductive invariant holds throughout: nothing that is lost, repeated,
\* reordered or restarted makes the operator mix up what it holds.
THEOREM InvCorrect == Spec => []Inv
BY InitInv, NextInv, PTL DEF Spec

\* The types of the state, for all constants.
THEOREM TypeCorrect == Spec => []TypeOK
<1>1. Inv => TypeOK
  BY DEF Inv
<1> QED BY <1>1, InvCorrect, PTL

\* Every Service the operator wrote was asked for by a host config of its
\* namespace and published in its lattice, for all constants.
THEOREM JustifiedCorrect == Spec => []Justified
<1>1. Inv => Justified
  BY DEF Inv
<1> QED BY <1>1, InvCorrect, PTL
-----------------------------------------------------------------------------
(***************************************************************************)
(* Without edits, stop_watch is called with the very lattice that watch    *)
(* was called with, before the finalizer lets go of the config.            *)
(***************************************************************************)

\* A step that leaves configs and Watchers alone, and a reconciliation's
\* lattice too, and starts no cleanup, keeps HeldInv.
LEMMA HeldFrame ==
  ASSUME HeldInv, UNCHANGED <<cfg, watchers>>,
         \A c \in Configs : \/ rec'[c].pc \in {"idle", "get"}
                            \/ /\ rec'[c].pc \notin {"stop", "unfinalize"}
                               /\ rec[c].pc \notin {"idle", "get"}
                               /\ rec'[c].lattice = rec[c].lattice
                            \/ rec'[c] = rec[c]
  PROVE  HeldInv'
BY DEF HeldInv, NoEdits, RecCurrent, WatcherHeld

\* Users: deleting a config with the finalizer only marks it.
LEMMA UserHeld ==
  ASSUME Inv, HeldInv, NEW c \in Configs, User(c)
  PROVE  HeldInv'
<1> SUFFICES ASSUME NoEdits PROVE RecCurrent' /\ WatcherHeld'
  BY DEF HeldInv, NoEdits
<1>1. cfg \in [Configs -> Config] /\ cfg[c] \in Config
  BY DEF Inv, TypeOK
<1>2. UNCHANGED <<rec, watchers>>
  BY DEF User, CreateConfig, EditLattice, DeleteConfig
<1> DEFINE Kept == \A d \in Configs : (cfg[d].state # "absent" /\ cfg[d].fin) =>
              /\ cfg'[d].lattice = cfg[d].lattice /\ cfg'[d].fin
              /\ cfg'[d].state # "absent"
              /\ cfg[d].state = "deleting" => cfg'[d].state = "deleting"
<1>3. Kept
  <2>1. ASSUME NEW l \in Lattices, CreateConfig(c, l)
        PROVE  Kept
    BY <1>1, <2>1 DEF CreateConfig
  <2>2. CASE DeleteConfig(c)
    BY <1>1, <2>2 DEF DeleteConfig, Config
  <2> QED BY <2>1, <2>2 DEF User, EditLattice, Disturb, NoEdits
<1>4. RecCurrent'
  BY <1>2, <1>3 DEF Inv, RecInv, HeldInv, RecCurrent
<1>5. WatcherHeld'
  BY <1>2, <1>3 DEF HeldInv, WatcherHeld
<1> QED BY <1>4, <1>5

\* Reconciliations: watch registers for a config that is there, stop_watch
\* takes back what the config leaves, and only then the config goes.
LEMMA ReconcileHeld ==
  ASSUME Inv, HeldInv, NEW c \in Configs, Reconcile(c) \/ ReconcileFails(c)
  PROVE  HeldInv'
<1> SUFFICES ASSUME NoEdits PROVE RecCurrent' /\ WatcherHeld'
  BY DEF HeldInv, NoEdits
<1> DEFINE l == rec[c].lattice
           ns == NsOf[c]
<1>1. /\ rec \in [Configs -> Reconciliation] /\ rec[c] \in Reconciliation
      /\ cfg \in [Configs -> Config] /\ cfg[c] \in Config
      /\ watchers \in [Lattices -> Watcher]
  BY DEF Inv, TypeOK
<1>2. RecCurrent /\ WatcherHeld
  BY DEF HeldInv
<1>3. CASE AddFinalizer(c)
  <2>1. /\ UNCHANGED <<rec, watchers>>
        /\ \A d \in Configs : /\ cfg'[d].lattice = cfg[d].lattice
                              /\ cfg'[d].state = cfg[d].state
                              /\ cfg[d].fin => cfg'[d].fin
    BY <1>1, <1>3 DEF AddFinalizer, Config
  <2> QED BY <1>2, <2>1 DEF RecCurrent, WatcherHeld
<1>4. CASE BeginCleanup(c) \/ GetConfig(c)
  <2>1. /\ UNCHANGED <<cfg, watchers>>
        /\ \A d \in Configs : d # c => rec'[d] = rec[d]
        /\ rec'[c].lattice = cfg[c].lattice
        /\ \/ rec'[c].pc = "stop" /\ cfg[c].state = "deleting"
           \/ rec'[c].pc = "list"
    BY <1>1, <1>4 DEF BeginCleanup, GetConfig, Reconciliation
  <2> QED BY <1>2, <2>1 DEF RecCurrent, WatcherHeld
<1>5. CASE \/ BeginApply(c) \/ ListApps(c) \/ EnterServices(c)
           \/ (\E a \in Apps : ReconcileApp(c, a)) \/ EndReconcile(c)
           \/ ReconcileFails(c)
  <2> DEFINE Moved == /\ UNCHANGED <<cfg, watchers>>
                      /\ \A d \in Configs : d # c => rec'[d] = rec[d]
                      /\ \/ rec'[c].pc \in {"idle", "get"}
                         \/ /\ rec'[c].pc \in {"watch", "services"}
                            /\ rec[c].pc \notin {"idle", "get"}
                            /\ rec'[c].lattice = rec[c].lattice
  <2>1. Moved
    <3>1. UNCHANGED <<cfg, watchers>>
      BY <1>5 DEF BeginApply, ListApps, EnterServices, ReconcileApp,
         EndReconcile, ReconcileFails
    <3>2. CASE BeginApply(c) \/ Finish(c)
      BY <1>1, <3>1, <3>2 DEF BeginApply, Goto, Finish, Idle, Reconciliation
    <3>3. CASE ListApps(c)
      BY <1>1, <3>1, <3>3 DEF ListApps, Reconciliation
    <3>4. CASE EnterServices(c) /\ Goto(c, "services")
      BY <1>1, <3>1, <3>4 DEF EnterServices, Goto, Reconciliation
    <3>5. ASSUME NEW a \in Apps, ReconcileApp(c, a)
          PROVE  Moved
      BY <1>1, <3>1, <3>5 DEF ReconcileApp, Reconciliation
    <3> QED BY <1>5, <3>2, <3>3, <3>4, <3>5
            DEF EnterServices, EndReconcile, ReconcileFails
  <2>2. HeldInv'
    BY <2>1, HeldFrame
  <2> QED BY <2>2 DEF HeldInv, NoEdits
<1>6. CASE Watch(c)
  <2>1. /\ cfg[c].state # "absent" /\ cfg[c].fin /\ cfg[c].lattice = l
        /\ rec[c].pc = "watch" /\ l \in Lattices /\ cfg' = cfg
    BY <1>2, <1>6 DEF Watch, Inv, RecInv, RecCurrent
  <2>2. \A d \in Configs : /\ d # c => rec'[d] = rec[d]
                           /\ rec'[c].pc = "enter" /\ rec'[c].lattice = l
    BY <1>1, <1>6 DEF Watch, Goto, Reconciliation
  <2>3. \A k \in Lattices : watchers'[k].namespaces \subseteq
          watchers[k].namespaces \cup (IF k = l THEN {ns} ELSE {})
    <3>1. CASE Registered(l)
      <4>1. watchers' = [watchers EXCEPT ![l].namespaces = @ \cup {ns}]
        BY <1>6, <3>1 DEF Watch
      <4> HIDE DEF l, ns
      <4> QED BY <1>1, <2>1, <4>1 DEF Watcher
    <3>2. CASE ~Registered(l)
      <4>1. PICK t \in Tasks : watchers' = [watchers EXCEPT ![l] =
                                 [task |-> t, namespaces |-> {ns}]]
        BY <1>6, <3>2 DEF Watch
      <4> HIDE DEF l, ns
      <4> QED BY <1>1, <2>1, <4>1
    <3> QED BY <3>1, <3>2
  <2>4. RecCurrent'
    BY <1>2, <2>1, <2>2 DEF RecCurrent
  <2>5. WatcherHeld'
    BY <1>2, <2>1, <2>2, <2>3 DEF WatcherHeld
  <2> QED BY <2>4, <2>5
<1>7. CASE StopWatch(c)
  <2>1. /\ cfg[c].lattice = l /\ cfg[c].state = "deleting" /\ l \in Lattices
        /\ cfg' = cfg
    BY <1>2, <1>7 DEF StopWatch, Inv, RecInv, RecCurrent
  <2>2. \A d \in Configs : /\ d # c => rec'[d] = rec[d]
                           /\ rec'[c].pc = "unfinalize" /\ rec'[c].lattice = l
    BY <1>1, <1>7 DEF StopWatch, Goto, Reconciliation
  <2>3. \A k \in Lattices : watchers'[k].namespaces \subseteq
          watchers[k].namespaces \ (IF k = l THEN {ns} ELSE {})
    <3>1. CASE Registered(l)
      <4> DEFINE rest == watchers[l].namespaces \ {ns}
      <4>1. watchers' = [watchers EXCEPT ![l] =
              IF rest = {} THEN NoWatcher ELSE [@ EXCEPT !.namespaces = rest]]
        BY <1>7, <3>1 DEF StopWatch
      <4>2. NoWatcher.namespaces = {}
        BY DEF NoWatcher
      <4>3. [watchers[l] EXCEPT !.namespaces = rest].namespaces = rest
        BY <1>1, <2>1 DEF Watcher
      <4>4. \A k \in Lattices : k # l => watchers'[k] = watchers[k]
        BY <1>1, <4>1
      <4>5. watchers'[l] = IF rest = {} THEN NoWatcher
                           ELSE [watchers[l] EXCEPT !.namespaces = rest]
        BY <1>1, <2>1, <4>1
      <4>6. watchers'[l].namespaces \subseteq rest
        BY <4>2, <4>3, <4>5
      <4> QED BY <4>4, <4>6
    <3>2. CASE ~Registered(l)
      <4>1. watchers[l].namespaces = {}
        BY <2>1, <3>2 DEF Inv, WatcherInv
      <4> QED BY <1>7, <3>2, <4>1 DEF StopWatch
    <3> QED BY <3>1, <3>2
  <2>4. RecCurrent'
    BY <1>2, <2>1, <2>2 DEF RecCurrent
  <2>5. WatcherHeld'
    BY <1>2, <2>1, <2>2, <2>3 DEF WatcherHeld
  <2> QED BY <2>4, <2>5
<1>8. CASE RemoveFinalizer(c)
  <2>1. /\ rec[c].pc = "unfinalize" /\ watchers' = watchers
        /\ \A d \in Configs : d # c => rec'[d] = rec[d] /\ cfg'[d] = cfg[d]
        /\ rec'[c].pc = "idle"
    BY <1>1, <1>8 DEF RemoveFinalizer, Finish, Idle
  <2> QED BY <1>2, <2>1 DEF RecCurrent, WatcherHeld
<1> QED BY <1>3, <1>4, <1>5, <1>6, <1>7, <1>8 DEF Reconcile

\* Every step preserves it.
LEMMA NextHeld == Inv /\ HeldInv /\ [Next]_vars => HeldInv'
<1> SUFFICES ASSUME Inv, HeldInv, [Next]_vars PROVE HeldInv'
  OBVIOUS
<1>1. CASE UNCHANGED vars
  BY <1>1, HeldFrame DEF vars
<1>2. CASE \E c \in Configs : User(c)
  BY <1>2, UserHeld
<1>3. CASE \E l \in Lattices, a \in Apps : Wadm(l, a)
  BY <1>3, HeldFrame DEF Wadm, Deploy, Undeploy, PublishOther, Publish
<1>4. CASE \E c \in Configs : Reconcile(c) \/ ReconcileFails(c)
  BY <1>4, ReconcileHeld
<1>5. CASE \E t \in Tasks : TaskStep(t)
  BY <1>5, HeldFrame DEF TaskStep, HandleEvent, Receive, Ack, Shutdown
<1>6. CASE ExecStep
  BY <1>6, HeldFrame DEF ExecStep, TakeCommand, NothingToDo,
     CreateOrUpdateService, DeleteService
<1>7. CASE \E c \in Configs : \E a \in Apps : GetManifestFails(c, a)
  <2> PICK c \in Configs, a \in Apps : GetManifestFails(c, a)
    BY <1>7
  <2>1. rec \in [Configs -> Reconciliation]
    BY DEF Inv, TypeOK
  <2>2. UNCHANGED <<cfg, watchers>>
    BY DEF GetManifestFails
  <2>3. /\ \A d \in Configs : d # c => rec'[d] = rec[d]
        /\ rec'[c].pc = "services" /\ rec[c].pc = "services"
        /\ rec'[c].lattice = rec[c].lattice
    BY <2>1 DEF GetManifestFails, Reconciliation
  <2> QED BY <2>2, <2>3, HeldFrame
<1>8. CASE \E t \in Tasks : \/ AckLost(t) \/ WatchEventsEnds(t)
                            \/ \E l \in Lattices : \E m \in stream[l] :
                                 LateHandleEvent(t, m)
  BY <1>8, HeldFrame DEF AckLost, WatchEventsEnds, LateHandleEvent, Receive
<1>9. CASE \E k \in Namespaces \X Apps : KubeFails(k)
  BY <1>9, HeldFrame DEF KubeFails
<1>10. CASE Restart
  BY <1>10 DEF Restart, HeldInv, RecCurrent, WatcherHeld, NoWatcher, Idle
<1> QED BY <1>1, <1>2, <1>3, <1>4, <1>5, <1>6, <1>7, <1>8, <1>9, <1>10
        DEF Next, Disturbance

\* When no lattice is ever edited, a lattice is watched for a namespace only
\* while a host config of that namespace names it: stop_watch's comment holds
\* across restarts, failures and any interleaving of cleanups.
THEOREM WatcherNeededCorrect == Spec => [](NoEdits => WatcherNeeded)
<1>1. Init => HeldInv
  BY DEF Init, HeldInv, RecCurrent, WatcherHeld, NoWatcher, Idle
<1>2. HeldInv => (NoEdits => WatcherNeeded)
  BY DEF HeldInv, WatcherHeld, WatcherNeeded
<1> QED BY <1>1, <1>2, InvCorrect, NextHeld, PTL DEF Spec
-----------------------------------------------------------------------------
(***************************************************************************)
(* ServiceSync implements ServiceMirror.                                   *)
(***************************************************************************)

\* A write of the command loop is a write the mirror allows.
LEMMA WriteMirrored ==
  ASSUME Inv, NEW k \in exec.todo, exec.cmd.kind = "UpsertService",
         services[k].owner # "other",
         services' = [services EXCEPT ![k] = Upserted], UNCHANGED envVars
  PROVE  Mirror!Next
<1>1. exec.cmd \in UpsertService /\ k \in Namespaces \X Apps
  BY DEF Inv, TypeOK, WatcherCommand, UpsertService, RemoveService,
         RemoveServices, NoCommand
<1>2. /\ <<exec.cmd.lattice, exec.cmd.name, exec.cmd.port>> \in published
      /\ Asked(exec.cmd.namespaces, exec.cmd.lattice)
      /\ k \in exec.cmd.namespaces \X {exec.cmd.name}
  BY DEF Inv, CommandInv, JustifiedCommand
<1>3. PICK ns \in Namespaces, a \in Apps : k = <<ns, a>>
  BY <1>1
<1>4. ns \in exec.cmd.namespaces /\ a = exec.cmd.name
  BY <1>2, <1>3
<1>5. exec.cmd.lattice \in Lattices /\ exec.cmd.port \in Ports
  BY <1>1 DEF UpsertService
<1>6. Mirror!Write(ns, a, exec.cmd.lattice, exec.cmd.port)
  BY <1>2, <1>3, <1>4 DEF Mirror!Write, Upserted, Asked, envVars
<1> QED BY <1>5, <1>6 DEF Mirror!Next

\* A deletion of the command loop has a cause the mirror accepts.
LEMMA RemoveMirrored ==
  ASSUME Inv, NEW k \in exec.todo,
         exec.cmd.kind \in {"RemoveService", "RemoveServices"},
         services' = [services EXCEPT ![k] = NoService], UNCHANGED envVars
  PROVE  Mirror!Next
<1>1. k \in Namespaces \X Apps
  BY DEF Inv, TypeOK
<1>2. PICK ns \in Namespaces, a \in Apps : k = <<ns, a>>
  BY <1>1
<1>3. \/ ns \in revoked /\ services[<<ns, a>>].owner = "operator"
      \/ \E l \in Lattices : <<ns, l>> \in granted /\ <<l, a>> \in withdrawn
  <2>1. CASE exec.cmd.kind = "RemoveService"
    <3>1. k \in exec.cmd.namespaces \X {exec.cmd.name}
      BY <2>1 DEF Inv, CommandInv
    <3>2. ns \in exec.cmd.namespaces /\ a = exec.cmd.name
      BY <1>2, <3>1
    <3> QED BY <2>1, <3>2 DEF Inv, CommandInv, JustifiedCommand, Asked
  <2>2. CASE exec.cmd.kind = "RemoveServices"
    <3>1. k \in exec.cmd.namespaces \X Apps /\ services[k].owner = "operator"
      BY <2>2 DEF Inv, CommandInv
    <3>2. exec.cmd.namespaces \subseteq revoked
      BY <2>2 DEF Inv, CommandInv, JustifiedCommand
    <3> QED BY <1>2, <3>1, <3>2
  <2> QED BY <2>1, <2>2
<1>4. Mirror!Remove(ns, a)
  BY <1>2, <1>3 DEF Mirror!Remove, Mirror!NoService, NoService, envVars
<1> QED BY <1>4 DEF Mirror!Next

\* Every step is a step of the mirror, or leaves what it shows alone.
LEMMA StepMirrored ==
  Inv /\ [Next]_vars => [Mirror!Next]_(Mirror!vars)
<1> SUFFICES ASSUME Inv, [Next]_vars, ~UNCHANGED Mirror!vars
             PROVE  Mirror!Next
  OBVIOUS
<1>1. ASSUME NEW c \in Configs, User(c)
      PROVE  Mirror!Next
  <2>1. ASSUME NEW l \in Lattices, CreateConfig(c, l) \/ EditLattice(c, l)
        PROVE  Mirror!Next
    <3>1. Mirror!Grant(NsOf[c], l)
      BY <2>1 DEF CreateConfig, EditLattice, Mirror!Grant
    <3> QED BY <3>1, NsType DEF Mirror!Next
  <2>2. CASE DeleteConfig(c)
    <3>1. Mirror!Revoke(NsOf[c])
      BY <2>2 DEF DeleteConfig, Inv, ConfigInv, Mirror!Revoke
    <3> QED BY <3>1, NsType DEF Mirror!Next
  <2> QED BY <1>1, <2>1, <2>2 DEF User
<1>2. ASSUME NEW l \in Lattices, NEW a \in Apps, Wadm(l, a)
      PROVE  Mirror!Next
  <2>1. ASSUME NEW m \in Manifest, Deploy(l, a, m)
        PROVE  Mirror!Next
    <3>1. CASE m \in Ports
      BY <2>1, <3>1 DEF Deploy, Publish, Mirror!Publish, Mirror!Next
    <3>2. CASE m \notin Ports
      BY <2>1, <3>2 DEF Deploy, Publish, Mirror!vars
    <3> QED BY <3>1, <3>2
  <2>2. CASE Undeploy(l, a)
    BY <2>2 DEF Undeploy, Publish, Mirror!Withdraw, Mirror!Next
  <2>3. ASSUME NEW kind, PublishOther(l, kind, a)
        PROVE  Mirror!Next
    BY <2>3 DEF PublishOther, Publish, Mirror!vars
  <2> QED BY <1>2, <2>1, <2>2, <2>3 DEF Wadm
<1>3. ASSUME UNCHANGED <<services, envVars>>
      PROVE  FALSE
  BY <1>3 DEF envVars, Mirror!vars
<1>4. ASSUME NEW c \in Configs,
             \/ Reconcile(c) \/ ReconcileFails(c)
             \/ \E a \in Apps : GetManifestFails(c, a)
      PROVE  FALSE
  BY <1>3, <1>4 DEF Reconcile, AddFinalizer, BeginApply, BeginCleanup, GetConfig,
     ListApps, Watch, EnterServices, ReconcileApp, EndReconcile, StopWatch,
     RemoveFinalizer, ReconcileFails, GetManifestFails
<1>5. ASSUME NEW t \in Tasks,
             \/ TaskStep(t) \/ AckLost(t) \/ WatchEventsEnds(t)
             \/ \E l \in Lattices : \E m \in stream[l] : LateHandleEvent(t, m)
      PROVE  FALSE
  BY <1>3, <1>5 DEF TaskStep, HandleEvent, Receive, Ack, Shutdown, AckLost,
     WatchEventsEnds, LateHandleEvent
<1>6. ASSUME ExecStep
      PROVE  Mirror!Next
  <2>1. CASE TakeCommand \/ NothingToDo
    BY <1>3, <2>1 DEF TakeCommand, NothingToDo
  <2>2. ASSUME NEW k \in Namespaces \X Apps, CreateOrUpdateService(k)
        PROVE  Mirror!Next
    BY <1>3, <2>2, WriteMirrored DEF CreateOrUpdateService
  <2>3. ASSUME NEW k \in Namespaces \X Apps, DeleteService(k)
        PROVE  Mirror!Next
    BY <2>3, RemoveMirrored DEF DeleteService
  <2> QED BY <1>6, <2>1, <2>2, <2>3 DEF ExecStep
<1>7. ASSUME NEW k \in Namespaces \X Apps, KubeFails(k)
      PROVE  Mirror!Next
  <2>1. k \in exec.todo /\ UNCHANGED envVars
    BY <1>7 DEF KubeFails
  <2>3. CASE services' = services
    BY <1>3, <2>1, <2>3
  <2>4. CASE /\ exec.cmd.kind = "UpsertService" /\ services[k].owner # "other"
             /\ services' = [services EXCEPT ![k] = Upserted]
    BY <2>1, <2>4, WriteMirrored
  <2>5. CASE /\ exec.cmd.kind \in {"RemoveService", "RemoveServices"}
             /\ services' = [services EXCEPT ![k] = NoService]
    BY <2>1, <2>5, RemoveMirrored
  <2> QED BY <1>7, <2>3, <2>4, <2>5 DEF KubeFails
<1>8. CASE Restart
  BY <1>3, <1>8 DEF Restart
<1>9. CASE UNCHANGED vars
  BY <1>9 DEF vars, Mirror!vars
<1> QED BY <1>1, <1>2, <1>4, <1>5, <1>6, <1>7, <1>8, <1>9 DEF Next, Disturbance

\* ServiceSync implements ServiceMirror, for all constants: no interleaving,
\* loss, repetition, reordering or restart makes the operator write or remove a
\* Service without grounds.
THEOREM MirrorCorrect == Spec => MirrorsApplications
<1>1. Init => Mirror!Init
  BY DEF Init, Mirror!Init, Mirror!NoService, Mirror!ForeignService, NoService,
         ForeignService
<1> QED BY <1>1, InvCorrect, StepMirrored, PTL
        DEF Spec, MirrorsApplications, Mirror!Spec
=============================================================================
