---------------------- MODULE ServiceSyncCleanupProofs ----------------------
(***************************************************************************)
(* A proof about the cleanup in ServiceSync, for all constants: where no   *)
(* disturbance leaves Services behind, a namespace that shares no lattice  *)
(* with another one is empty once its host configs are gone and the        *)
(* command loop has nothing left to do.                                    *)
(***************************************************************************)
EXTENDS ServiceSyncProofs

\* Granting more makes no namespace private.
LEMMA PrivateShrinks ==
  ASSUME granted \subseteq granted', NEW ns, Private(ns)'
  PROVE  Private(ns)
BY DEF Private

\* The task of a registered Watcher is one that nobody has cancelled.
LEMMA RegisteredTask ==
  ASSUME TypeOK, NEW l \in Lattices, Registered(l)
  PROVE  watchers[l].task \in Tasks /\ ~Cancelled(watchers[l].task)
BY DEF TypeOK, Watcher, Registered, Cancelled

\* A task whose Watcher is registered keeps its clone, whatever it does.
LEMMA CloneFrame ==
  ASSUME TypeOK, CloneInv, granted \subseteq granted', UNCHANGED watchers,
         \A t \in Tasks : \/ Cancelled(t)
                          \/ /\ tasks'[t].lattice = tasks[t].lattice
                             /\ tasks'[t].namespaces = tasks[t].namespaces
                             /\ tasks[t].st # "free" => tasks'[t].st # "free"
  PROVE  CloneInv'
<1> SUFFICES ASSUME NEW l \in Lattices, Registered(l)'
             PROVE  /\ tasks'[watchers'[l].task].st # "free"
                    /\ tasks'[watchers'[l].task].lattice = l
                    /\ \A ns \in tasks'[watchers'[l].task].namespaces :
                         Private(ns)' => ns \in watchers'[l].namespaces
  BY DEF CloneInv
<1>1. Registered(l)
  BY DEF Registered
<1> DEFINE t == watchers[l].task
<1>2. t \in Tasks /\ ~Cancelled(t)
  BY <1>1, RegisteredTask
<1>3. /\ tasks[t].st # "free" /\ tasks[t].lattice = l
      /\ \A ns \in tasks[t].namespaces : Private(ns) => ns \in watchers[l].namespaces
  BY <1>1 DEF CloneInv
<1>4. \A ns : Private(ns)' => Private(ns)
  BY PrivateShrinks
<1> HIDE DEF t
<1>5. /\ tasks'[t].st # "free" /\ tasks'[t].lattice = l
      /\ tasks'[t].namespaces = tasks[t].namespaces
  BY <1>2, <1>3
<1>6. watchers'[l].task = t /\ watchers'[l].namespaces = watchers[l].namespaces
  BY DEF t
<1> QED BY <1>3, <1>4, <1>5, <1>6

\* Commands that write nothing into a namespace may follow what clears it.
LEMMA SentClear ==
  ASSUME TypeOK, NEW ns, NEW cmds \in Seq(WatcherCommand),
         \A i \in 1..Len(cmds) : ~Writes(cmds[i], ns),
         chan' = chan \o cmds, UNCHANGED <<exec, services>>,
         ClearQueued(ns) \/ Cleared(ns)
  PROVE  ClearQueued(ns)' \/ Cleared(ns)'
<1>1. chan \in Seq(WatcherCommand)
  BY DEF TypeOK
<1>2. /\ Len(chan') = Len(chan) + Len(cmds)
      /\ Len(chan) \in Nat /\ Len(cmds) \in Nat
      /\ \A i \in 1..Len(chan) : chan'[i] = chan[i]
  BY <1>1
<1>3. \A j \in 1..Len(chan') : j > Len(chan) => ~Writes(chan'[j], ns)
  <2> SUFFICES ASSUME NEW j \in 1..Len(chan'), j > Len(chan)
               PROVE  ~Writes(chan'[j], ns)
    OBVIOUS
  <2>1. j - Len(chan) \in 1..Len(cmds) /\ chan'[j] = cmds[j - Len(chan)]
    BY <1>1, <1>2
  <2> QED BY <2>1
<1>4. CASE ClearQueued(ns)
  <2>1. PICK i \in 1..Len(chan) :
          /\ Clears(chan[i], ns)
          /\ \A j \in (i + 1)..Len(chan) : ~Writes(chan[j], ns)
    BY <1>4 DEF ClearQueued
  <2>2. i \in 1..Len(chan') /\ Clears(chan'[i], ns)
    BY <1>2, <2>1
  <2>3. ASSUME NEW j \in (i + 1)..Len(chan')
        PROVE  ~Writes(chan'[j], ns)
    <3>1. CASE j > Len(chan)
      BY <1>2, <1>3, <2>1, <3>1
    <3>2. CASE j <= Len(chan)
      <4>1. j \in (i + 1)..Len(chan) /\ j \in 1..Len(chan)
        BY <1>2, <2>1, <3>2
      <4> QED BY <1>2, <2>1, <4>1
    <3> QED BY <1>2, <2>1, <3>1, <3>2
  <2> QED BY <2>2, <2>3 DEF ClearQueued, Clears, Writes
<1>5. CASE Cleared(ns)
  <2>1. ASSUME NEW j \in 1..Len(chan')
        PROVE  ~Writes(chan'[j], ns)
    <3>1. CASE j > Len(chan)
      BY <1>3, <3>1
    <3>2. CASE j <= Len(chan)
      <4>1. j \in 1..Len(chan)
        BY <1>2, <3>2
      <4> QED BY <1>2, <1>5, <4>1 DEF Cleared
    <3> QED BY <1>2, <3>1, <3>2
  <2> QED BY <1>5, <2>1 DEF Cleared, Clears, Writes, Empty
<1> QED BY <1>4, <1>5

\* A step that lets no namespace go and sends commands, perhaps none, that
\* write only into namespaces that are watched.
LEMMA ClearFrame ==
  ASSUME TypeOK, ClearInv, granted \subseteq granted',
         \A l \in Lattices : watchers[l].namespaces \subseteq watchers'[l].namespaces,
         NEW cmds \in Seq(WatcherCommand), chan' = chan \o cmds,
         \A i \in 1..Len(cmds) : \A ns \in Namespaces :
           (Private(ns) /\ Writes(cmds[i], ns)) => Watched(ns),
         UNCHANGED <<exec, services>>
  PROVE  ClearInv'
<1> SUFFICES ASSUME NEW ns \in Namespaces, Private(ns)', ~Watched(ns)'
             PROVE  ClearQueued(ns)' \/ Cleared(ns)'
  BY DEF ClearInv
<1>1. Private(ns) /\ ~Watched(ns)
  BY PrivateShrinks DEF Watched
<1>2. ClearQueued(ns) \/ Cleared(ns)
  BY <1>1 DEF ClearInv
<1> QED BY <1>1, <1>2, SentClear

\* Nothing is sent.
LEMMA QuietFrame ==
  ASSUME TypeOK, ClearInv, granted \subseteq granted',
         UNCHANGED <<chan, exec, services>>,
         \A l \in Lattices : watchers[l].namespaces \subseteq watchers'[l].namespaces
  PROVE  ClearInv'
<1> DEFINE cmds == <<>>
<1>1. chan \in Seq(WatcherCommand) /\ cmds \in Seq(WatcherCommand)
  BY DEF TypeOK
<1>2. chan' = chan \o cmds
  BY <1>1
<1>3. \A i \in 1..Len(cmds) : \A ns \in Namespaces :
        (Private(ns) /\ Writes(cmds[i], ns)) => Watched(ns)
  OBVIOUS
<1> HIDE DEF cmds
<1> QED BY <1>1, <1>2, <1>3, ClearFrame

\* What handle_manifest_published sends writes into the given namespaces.
LEMMA UpsertsWrite ==
  ASSUME NEW l \in Lattices, NEW nss \in SUBSET Namespaces, NEW a \in Apps, NEW m
  PROVE  /\ Upserts(l, nss, a, m) \in Seq(WatcherCommand)
         /\ \A i \in 1..Len(Upserts(l, nss, a, m)) : \A ns :
              Writes(Upserts(l, nss, a, m)[i], ns) => ns \in nss
<1> DEFINE cmd == [kind |-> "UpsertService", name |-> a, port |-> m,
                   lattice |-> l, namespaces |-> nss]
<1>1. CASE m \in Ports
  <2>1. Upserts(l, nss, a, m) = <<cmd>> /\ cmd \in WatcherCommand
    BY <1>1 DEF Upserts, WatcherCommand, UpsertService
  <2>2. cmd.namespaces = nss
    OBVIOUS
  <2> HIDE DEF cmd
  <2> QED BY <2>1, <2>2 DEF Writes
<1>2. CASE m \notin Ports
  BY <1>2 DEF Upserts
<1> QED BY <1>1, <1>2
-----------------------------------------------------------------------------
(***************************************************************************)
(* The actions that decide: reconcile_services and the events, which write *)
(* into the namespaces they hold, watch and stop_watch, and the commands.  *)
(***************************************************************************)
\* The loop of reconcile_services writes only into what its Watcher has.
LEMMA ReconcileAppCleanup ==
  ASSUME Inv, CloneInv, ClearInv, NEW c \in Configs, NEW a \in Apps,
         ReconcileApp(c, a)
  PROVE  CloneInv' /\ ClearInv'
<1> DEFINE l == rec[c].lattice
           nss == watchers[l].namespaces
           m == rec[c].apps[a]
           cmds == Upserts(l, nss, a, m)
<1>1. l \in Lattices /\ nss \in SUBSET Namespaces
  BY DEF ReconcileApp, Inv, TypeOK, RecInv, Watcher
<1>2. /\ chan' = chan \o cmds
      /\ UNCHANGED <<watchers, tasks, exec, services, granted>>
  BY DEF ReconcileApp, envVars
<1>3. /\ cmds \in Seq(WatcherCommand)
      /\ \A i \in 1..Len(cmds) : \A ns : Writes(cmds[i], ns) => ns \in nss
  BY <1>1, UpsertsWrite
<1>4. \A ns \in nss : Watched(ns)
  BY <1>1 DEF Watched
<1> HIDE DEF cmds, l, nss, m
<1>5. ClearInv'
  BY <1>2, <1>3, <1>4, ClearFrame DEF Inv
<1> QED BY <1>2, <1>5, CloneFrame DEF Inv

\* A task that is not cancelled holds no private namespace that is not watched,
\* so what handle_event sends finds nothing to dirty.
LEMMA HandleEventCleanup ==
  ASSUME Inv, CloneInv, ClearInv, NEW t \in Tasks, NEW l \in Lattices,
         NEW m \in stream[l], HandleEvent(t, m)
  PROVE  CloneInv' /\ ClearInv'
<1> DEFINE nss == tasks[t].namespaces
           cmds == Commands(t, m)
<1>1. /\ chan' = chan \o cmds /\ ~Cancelled(t)
      /\ UNCHANGED <<watchers, exec, services, granted>>
      /\ tasks[t].st = "ready"
      /\ \/ tasks' = tasks
         \/ tasks' = [tasks EXCEPT ![t].st = "acking", ![t].msg = m.seq]
  BY DEF HandleEvent, Receive, envVars
<1>2. tasks \in [Tasks -> Task] /\ tasks[t] \in Task /\ m \in Message
  BY DEF Inv, TypeOK
<1>3. tasks[t].lattice \in Lattices /\ nss \in SUBSET Namespaces /\ m.name \in Apps
  BY <1>1, <1>2 DEF Inv, WatcherInv, Task, Message
<1>4. /\ cmds \in Seq(WatcherCommand)
      /\ \A i \in 1..Len(cmds) : \A ns : Writes(cmds[i], ns) => ns \in nss
  <2>1. CASE m.kind = "published"
    <3>1. cmds = Upserts(tasks[t].lattice, nss, m.name, m.manifest)
      BY <2>1 DEF Commands
    <3> QED BY <1>3, <3>1, UpsertsWrite
  <2>2. CASE m.kind = "unpublished"
    <3> DEFINE cmd == [kind |-> "RemoveService", name |-> m.name,
                       namespaces |-> nss]
    <3>1. cmds = <<cmd>>
      BY <2>2 DEF Commands
    <3>2. cmd \in WatcherCommand /\ cmd.kind # "UpsertService"
      BY <1>3 DEF WatcherCommand, RemoveService
    <3> HIDE DEF cmd
    <3> QED BY <3>1, <3>2 DEF Writes
  <2>3. CASE m.kind \notin {"published", "unpublished"}
    <3>1. cmds = <<>>
      BY <2>3 DEF Commands
    <3> QED BY <3>1
  <2> QED BY <2>1, <2>2, <2>3
<1>5. ASSUME NEW ns \in nss, Private(ns)
      PROVE  Watched(ns)
  <2>1. PICK k \in Lattices : watchers[k].task = t
    BY <1>1 DEF Cancelled
  <2>2. t # None
    BY ConstantsAssumption
  <2> QED BY <1>5, <2>1, <2>2 DEF CloneInv, Registered, Watched
<1> HIDE DEF cmds, nss
<1>6. ClearInv'
  BY <1>1, <1>4, <1>5, ClearFrame DEF Inv
<1>7. \A s \in Tasks : /\ tasks'[s].lattice = tasks[s].lattice
                       /\ tasks'[s].namespaces = tasks[s].namespaces
                       /\ tasks[s].st # "free" => tasks'[s].st # "free"
  BY <1>1, <1>2 DEF Task
<1> QED BY <1>1, <1>6, <1>7, CloneFrame DEF Inv

\* watch registers the namespace, and gives the task it spawns just this one.
LEMMA WatchCleanup ==
  ASSUME Inv, CloneInv, ClearInv, NEW c \in Configs, Watch(c)
  PROVE  CloneInv' /\ ClearInv'
<1> DEFINE l == rec[c].lattice
           n == NsOf[c]
<1>1. l \in Lattices /\ n \in Namespaces
  BY NsType DEF Watch, Inv, RecInv
<1>2. /\ watchers \in [Lattices -> Watcher] /\ watchers[l] \in Watcher
      /\ tasks \in [Tasks -> Task]
  BY <1>1 DEF Inv, TypeOK
<1>3. UNCHANGED <<chan, exec, services, granted>>
  BY DEF Watch, envVars
<1>4. CASE Registered(l)
  <2>1. watchers' = [watchers EXCEPT ![l].namespaces = @ \cup {n}] /\ tasks' = tasks
    BY <1>4 DEF Watch
  <2> HIDE DEF l, n
  <2>2. \A k \in Lattices : /\ watchers'[k].task = watchers[k].task
                            /\ watchers[k].namespaces \subseteq watchers'[k].namespaces
    BY <1>1, <1>2, <2>1 DEF Watcher
  <2>3. CloneInv'
    BY <1>3, <2>1, <2>2 DEF CloneInv, Registered, Private
  <2> QED BY <1>3, <2>2, <2>3, QuietFrame DEF Inv
<1>5. CASE ~Registered(l)
  <2>1. PICK t \in Tasks :
          /\ tasks[t].st = "free"
          /\ tasks' = [tasks EXCEPT ![t] =
               [st |-> "ready", lattice |-> l, namespaces |-> {n}, msg |-> 0]]
          /\ watchers' = [watchers EXCEPT ![l] = [task |-> t, namespaces |-> {n}]]
    BY <1>5 DEF Watch
  <2>2. watchers[l].namespaces = {}
    BY <1>1, <1>5 DEF Inv, WatcherInv
  <2> HIDE DEF l, n
  <2>3. /\ \A k \in Lattices : k # l => watchers'[k] = watchers[k]
        /\ watchers'[l] = [task |-> t, namespaces |-> {n}]
        /\ \A s \in Tasks : s # t => tasks'[s] = tasks[s]
        /\ tasks'[t] = [st |-> "ready", lattice |-> l, namespaces |-> {n},
                        msg |-> 0]
    BY <1>1, <1>2, <2>1
  <2>4. ASSUME NEW k \in Lattices, Registered(k)'
        PROVE  /\ tasks'[watchers'[k].task].st # "free"
               /\ tasks'[watchers'[k].task].lattice = k
               /\ \A ns \in tasks'[watchers'[k].task].namespaces :
                    Private(ns)' => ns \in watchers'[k].namespaces
    <3>1. CASE k = l
      BY <2>3, <3>1
    <3>2. CASE k # l
      <4>1. Registered(k) /\ watchers'[k] = watchers[k]
        BY <2>3, <2>4, <3>2 DEF Registered
      <4>2. watchers[k].task \in Tasks /\ watchers[k].task # t
        BY <2>1, <4>1, RegisteredTask DEF Inv, CloneInv
      <4>3. \A ns : Private(ns)' => Private(ns)
        BY <1>3 DEF Private
      <4> QED BY <2>3, <4>1, <4>2, <4>3 DEF CloneInv
    <3> QED BY <3>1, <3>2
  <2>5. CloneInv'
    BY <2>4 DEF CloneInv
  <2>6. \A k \in Lattices : watchers[k].namespaces \subseteq watchers'[k].namespaces
    BY <2>2, <2>3
  <2> QED BY <1>3, <2>5, <2>6, QuietFrame DEF Inv
<1> QED BY <1>4, <1>5

\* stop_watch queues what clears the namespace it lets go.  If the Watcher
\* stays, for others, its task stays with a namespace that is not private.
LEMMA StopWatchCleanup ==
  ASSUME Inv, CloneInv, ClearInv, NEW c \in Configs, StopWatch(c)
  PROVE  CloneInv' /\ ClearInv'
<1> DEFINE l == rec[c].lattice
           n == NsOf[c]
           rest == watchers[l].namespaces \ {n}
           cmd == [kind |-> "RemoveServices", namespaces |-> {n}]
<1>1. l \in Lattices /\ n \in Namespaces /\ <<n, l>> \in granted
  BY NsType DEF StopWatch, Inv, RecInv
<1>2. watchers \in [Lattices -> Watcher] /\ watchers[l] \in Watcher
  BY <1>1 DEF Inv, TypeOK
<1>3. UNCHANGED <<tasks, exec, services, granted>>
  BY DEF StopWatch, envVars
<1>4. CASE ~Registered(l)
  <2>1. UNCHANGED <<watchers, chan>>
    BY <1>4 DEF StopWatch
  <2> QED BY <1>3, <2>1, CloneFrame, QuietFrame DEF Inv
<1>5. CASE Registered(l)
  <2>1. /\ watchers' = [watchers EXCEPT ![l] =
             IF rest = {} THEN NoWatcher ELSE [@ EXCEPT !.namespaces = rest]]
        /\ chan' = Append(chan, cmd)
    BY <1>5 DEF StopWatch
  <2>2. \A k \in Lattices : k # l => watchers'[k] = watchers[k]
    BY <1>2, <2>1
  <2>3. \/ /\ rest = {} /\ watchers'[l].task = None
           /\ watchers'[l].namespaces = rest
        \/ /\ rest # {} /\ watchers'[l].task = watchers[l].task
           /\ watchers'[l].namespaces = rest
    <3>1. watchers'[l] = IF rest = {} THEN NoWatcher
                         ELSE [watchers[l] EXCEPT !.namespaces = rest]
      BY <1>1, <1>2, <2>1
    <3> HIDE DEF l
    <3> QED BY <1>2, <3>1 DEF Watcher, NoWatcher
  <2>4. ASSUME NEW k \in Lattices, Registered(k)'
        PROVE  /\ tasks'[watchers'[k].task].st # "free"
               /\ tasks'[watchers'[k].task].lattice = k
               /\ \A ns \in tasks'[watchers'[k].task].namespaces :
                    Private(ns)' => ns \in watchers'[k].namespaces
    <3>1. Registered(k) /\ watchers'[k].task = watchers[k].task
      BY <2>2, <2>3, <2>4 DEF Registered
    <3>2. ASSUME NEW ns \in tasks[watchers[k].task].namespaces, Private(ns)
          PROVE  ns \in watchers'[k].namespaces
      <4>1. ns \in watchers[k].namespaces
        BY <3>1, <3>2 DEF CloneInv
      <4>2. CASE k = l
        <5>1. rest # {} /\ watchers'[l].namespaces = rest
          BY <2>3, <2>4, <4>2 DEF Registered
        <5>2. PICK o \in watchers[l].namespaces : o # n
          BY <5>1
        <5>3. <<o, l>> \in granted /\ o \in Namespaces
          BY <1>1, <1>2, <5>2 DEF Inv, WatcherInv, Asked, Watcher
        <5>4. ns # n
          BY <1>1, <3>2, <5>2, <5>3 DEF Private
        <5> QED BY <4>1, <4>2, <5>1, <5>4
      <4>3. CASE k # l
        BY <2>2, <4>1, <4>3
      <4> QED BY <4>2, <4>3
    <3>3. \A ns : Private(ns)' => Private(ns)
      BY <1>3 DEF Private
    <3> QED BY <1>3, <3>1, <3>2, <3>3 DEF CloneInv
  <2>5. CloneInv'
    BY <2>4 DEF CloneInv
  <2>6. chan \in Seq(WatcherCommand) /\ cmd \in WatcherCommand
    BY <1>1 DEF Inv, TypeOK, WatcherCommand, RemoveServices
  <2>7. ASSUME NEW ns \in Namespaces, Private(ns)', ~Watched(ns)'
        PROVE  ClearQueued(ns)' \/ Cleared(ns)'
    <3>1. CASE ns = n
      <4>1. Clears(cmd, ns)
        BY <3>1 DEF Clears
      <4> HIDE DEF cmd
      <4>2. /\ Len(chan') = Len(chan) + 1 /\ Len(chan) \in Nat
            /\ chan'[Len(chan')] = cmd /\ Len(chan') \in 1..Len(chan')
        BY <2>1, <2>6
      <4>3. (Len(chan') + 1)..Len(chan') = {}
        BY <4>2
      <4>4. Clears(chan'[Len(chan')], ns)
        BY <4>1, <4>2
      <4> QED BY <4>2, <4>3, <4>4 DEF ClearQueued, Clears, Writes
    <3>2. CASE ns # n
      <4>1. ~Watched(ns)
        <5>1. \A k \in Lattices : ns \notin watchers'[k].namespaces
          BY <2>7 DEF Watched
        <5> QED BY <2>2, <2>3, <3>2, <5>1 DEF Watched
      <4>2. Private(ns)
        BY <1>3, <2>7 DEF Private
      <4>3. ClearQueued(ns) \/ Cleared(ns)
        BY <4>1, <4>2 DEF ClearInv
      <4>4. cmd.kind # "UpsertService"
        OBVIOUS
      <4> HIDE DEF cmd
      <4>5. /\ <<cmd>> \in Seq(WatcherCommand) /\ chan' = chan \o <<cmd>>
            /\ \A i \in 1..Len(<<cmd>>) : ~Writes(<<cmd>>[i], ns)
        BY <2>1, <2>6, <4>4 DEF Writes
      <4> QED BY <1>3, <4>3, <4>5, SentClear DEF Inv
    <3> QED BY <3>1, <3>2
  <2> QED BY <2>5, <2>7 DEF ClearInv
<1> QED BY <1>4, <1>5

\* Taking what clears a namespace takes the list of all its Services.
LEMMA TakeCommandCleanup ==
  ASSUME Inv, CloneInv, ClearInv, TakeCommand
  PROVE  CloneInv' /\ ClearInv'
<1> DEFINE cmd == Head(chan)
<1>1. chan \in Seq(WatcherCommand) /\ chan # <<>> /\ exec = ExecIdle
  BY DEF TakeCommand, Inv, TypeOK
<1>2. /\ cmd = chan[1] /\ 1 \in 1..Len(chan)
      /\ Len(Tail(chan)) = Len(chan) - 1 /\ Len(chan) \in Nat
      /\ \A i \in 1..Len(Tail(chan)) : /\ Tail(chan)[i] = chan[i + 1]
                                       /\ i + 1 \in 1..Len(chan)
  BY <1>1
<1>3. /\ exec' = [cmd |-> cmd, todo |-> Targets(cmd)] /\ chan' = Tail(chan)
      /\ UNCHANGED <<watchers, tasks, services, granted>>
  BY DEF TakeCommand, envVars
<1> HIDE DEF cmd
<1>4. CloneInv'
  BY <1>3, CloneFrame DEF Inv
<1>5. ASSUME NEW ns \in Namespaces, ClearQueued(ns) \/ Cleared(ns)
      PROVE  ClearQueued(ns)' \/ Cleared(ns)'
  <2>1. CASE ClearQueued(ns)
    <3>1. PICK i \in 1..Len(chan) :
            /\ Clears(chan[i], ns)
            /\ \A j \in (i + 1)..Len(chan) : ~Writes(chan[j], ns)
      BY <2>1 DEF ClearQueued
    <3>2. \A j \in 1..Len(chan') : j >= i => ~Writes(chan'[j], ns)
      <4> SUFFICES ASSUME NEW j \in 1..Len(chan'), j >= i
                   PROVE  ~Writes(chan'[j], ns)
        OBVIOUS
      <4>1. j + 1 \in (i + 1)..Len(chan) /\ chan'[j] = chan[j + 1]
        BY <1>2, <1>3, <3>1
      <4> QED BY <3>1, <4>1
    <3>3. CASE i = 1
      <4>1. Clears(cmd, ns) /\ ~Writes(cmd, ns)
        BY <1>2, <3>1, <3>3 DEF Clears, Writes
      <4>2. \A a \in Apps : services[<<ns, a>>].owner = "operator"
                              => <<ns, a>> \in Targets(cmd)
        BY <4>1 DEF Targets, Clears
      <4>3. \A j \in 1..Len(chan') : ~Writes(chan'[j], ns)
        BY <1>2, <1>3, <3>2, <3>3
      <4>4. exec'.cmd = cmd /\ exec'.todo = Targets(cmd)
        BY <1>3
      <4> QED BY <1>3, <4>1, <4>2, <4>3, <4>4 DEF Cleared, Clears, Writes
    <3>4. CASE i # 1
      <4>1. /\ i - 1 \in 1..Len(chan') /\ chan'[i - 1] = chan[i]
            /\ ((i - 1) + 1)..Len(chan') \subseteq 1..Len(chan')
            /\ \A j \in ((i - 1) + 1)..Len(chan') : j >= i
        BY <1>2, <1>3, <3>1, <3>4
      <4> QED BY <3>1, <3>2, <4>1 DEF ClearQueued, Clears, Writes
    <3> QED BY <3>3, <3>4
  <2>2. CASE Cleared(ns)
    <3>1. Empty(ns)
      BY <1>1, <2>2 DEF Cleared, Clears, ExecIdle, NoCommand
    <3>2. ~Writes(cmd, ns) /\ \A j \in 1..Len(chan') : ~Writes(chan'[j], ns)
      BY <1>2, <1>3, <2>2 DEF Cleared
    <3> QED BY <1>3, <3>1, <3>2 DEF Cleared, Writes, Empty
  <2> QED BY <1>5, <2>1, <2>2
<1>6. ClearInv'
  BY <1>3, <1>5 DEF ClearInv, Watched, Private
<1> QED BY <1>4, <1>6

\* A step on the list of the command: it writes where the command may, or takes
\* a Service away.
LEMMA WorkCleanup ==
  ASSUME Inv, CloneInv, ClearInv, NEW todo, Progress(todo),
         UNCHANGED <<watchers, tasks, chan, granted>>,
         \/ exec.todo = {} /\ todo = {} /\ services' = services
         \/ \E k \in exec.todo :
              \/ /\ exec.cmd.kind = "UpsertService"
                 /\ services' = services \/ services' = [services EXCEPT ![k] = Upserted]
              \/ /\ services' = [services EXCEPT ![k] = NoService]
                 /\ todo = exec.todo \ {k}
  PROVE  CloneInv' /\ ClearInv'
<1>1. CloneInv'
  BY CloneFrame DEF Inv
<1>2. /\ exec \in [cmd: WatcherCommand \cup {NoCommand},
                   todo: SUBSET (Namespaces \X Apps)]
      /\ services \in [Namespaces \X Apps -> Service]
  BY DEF Inv, TypeOK
<1>3. \/ todo = {} /\ exec' = ExecIdle
      \/ todo # {} /\ exec'.cmd = exec.cmd /\ exec'.todo = todo
  BY <1>2 DEF Progress
<1>4. ASSUME NEW ns \in Namespaces, Cleared(ns)
      PROVE  Cleared(ns)'
  <2>1. /\ \A j \in 1..Len(chan') : ~Writes(chan'[j], ns)
        /\ ~Writes(exec.cmd, ns) /\ ~Writes(exec'.cmd, ns)
    BY <1>3, <1>4 DEF Cleared, Writes, ExecIdle, NoCommand
  <2>2. CASE exec.todo = {} /\ todo = {} /\ services' = services
    BY <1>4, <2>1, <2>2 DEF Cleared, Writes, Empty
  <2>3. ASSUME NEW k \in exec.todo, exec.cmd.kind = "UpsertService",
               services' = services \/ services' = [services EXCEPT ![k] = Upserted]
        PROVE  Cleared(ns)'
    <3>1. k \in exec.cmd.namespaces \X {exec.cmd.name} /\ ns \notin exec.cmd.namespaces
      BY <2>1, <2>3 DEF Inv, CommandInv, Writes
    <3>2. \A a \in Apps : k # <<ns, a>>
      BY <3>1
    <3>3. \A a \in Apps : services'[<<ns, a>>] = services[<<ns, a>>]
      BY <1>2, <2>3, <3>2
    <3>4. Empty(ns)
      BY <1>4, <2>3 DEF Cleared, Clears
    <3>5. Empty(ns)'
      BY <3>3, <3>4 DEF Empty
    <3> QED BY <2>1, <3>5 DEF Cleared, Writes
  <2>4. ASSUME NEW k \in exec.todo, services' = [services EXCEPT ![k] = NoService],
               todo = exec.todo \ {k}
        PROVE  Cleared(ns)'
    <3>1. \A a \in Apps : \/ services'[<<ns, a>>] = services[<<ns, a>>]
                             /\ <<ns, a>> # k
                          \/ services'[<<ns, a>>].owner # "operator"
      BY <1>2, <2>4 DEF NoService
    <3>2. CASE Empty(ns)
      <4>1. Empty(ns)'
        BY <3>1, <3>2 DEF Empty
      <4> QED BY <2>1, <4>1 DEF Cleared, Writes
    <3>3. CASE /\ Clears(exec.cmd, ns)
               /\ \A a \in Apps : services[<<ns, a>>].owner = "operator"
                                    => <<ns, a>> \in exec.todo
      <4>1. \A a \in Apps : services'[<<ns, a>>].owner = "operator"
                              => <<ns, a>> \in todo
        BY <2>4, <3>1, <3>3
      <4>2. CASE todo = {}
        <5>1. Empty(ns)'
          BY <4>1, <4>2 DEF Empty
        <5> QED BY <2>1, <5>1 DEF Cleared, Writes
      <4>3. CASE todo # {}
        BY <1>3, <2>1, <3>3, <4>1, <4>3 DEF Cleared, Writes, Clears
      <4> QED BY <4>2, <4>3
    <3> QED BY <1>4, <3>2, <3>3 DEF Cleared
  <2> QED BY <2>2, <2>3, <2>4
<1>5. \A ns \in Namespaces : ClearQueued(ns) => ClearQueued(ns)'
  BY DEF ClearQueued, Clears, Writes
<1>6. ClearInv'
  BY <1>4, <1>5 DEF ClearInv, Watched, Private
<1> QED BY <1>1, <1>6

\* Every step of the command loop.
LEMMA ExecCleanup ==
  ASSUME Inv, CloneInv, ClearInv, ExecStep
  PROVE  CloneInv' /\ ClearInv'
<1>1. CASE TakeCommand
  BY <1>1, TakeCommandCleanup
<1>2. CASE NothingToDo
  BY <1>2, WorkCleanup DEF NothingToDo, envVars
<1>3. ASSUME NEW k \in Namespaces \X Apps,
             CreateOrUpdateService(k) \/ DeleteService(k)
      PROVE  CloneInv' /\ ClearInv'
  <2>1. CASE CreateOrUpdateService(k)
    BY <2>1, WorkCleanup DEF CreateOrUpdateService, envVars
  <2>2. CASE DeleteService(k)
    BY <2>2, WorkCleanup DEF DeleteService, envVars
  <2> QED BY <1>3, <2>1, <2>2
<1> QED BY <1>1, <1>2, <1>3 DEF ExecStep
-----------------------------------------------------------------------------
\* Every other step sends nothing, registers nothing and keeps the clones.
LEMMA OtherCleanup ==
  ASSUME Inv, CloneInv, ClearInv, granted \subseteq granted',
         UNCHANGED <<watchers, chan, exec, services>>,
         \A t \in Tasks : \/ Cancelled(t)
                          \/ /\ tasks'[t].lattice = tasks[t].lattice
                             /\ tasks'[t].namespaces = tasks[t].namespaces
                             /\ tasks[t].st # "free" => tasks'[t].st # "free"
  PROVE  CloneInv' /\ ClearInv'
<1>1. CloneInv'
  BY CloneFrame DEF Inv
<1>2. ClearInv'
  BY QuietFrame DEF Inv
<1> QED BY <1>1, <1>2

\* Every step preserves the invariant of the cleanup.
LEMMA NextCleanup == Inv /\ CleanupInv /\ [Next]_vars => CleanupInv'
<1> SUFFICES ASSUME Inv, CloneInv, ClearInv, Quiet, [Next]_vars
             PROVE  CloneInv' /\ ClearInv'
  BY DEF CleanupInv, Quiet
<1>a. tasks \in [Tasks -> Task]
  BY DEF Inv, TypeOK
<1>1. CASE UNCHANGED vars
  BY <1>1, OtherCleanup DEF vars
<1>2. CASE \E c \in Configs : User(c)
  BY <1>2, OtherCleanup DEF User, CreateConfig, EditLattice, DeleteConfig
<1>3. CASE \E l \in Lattices, a \in Apps : Wadm(l, a)
  BY <1>3, OtherCleanup DEF Wadm, Deploy, Undeploy, PublishOther, Publish
<1>4. CASE \E c \in Configs : Reconcile(c)
  <2> PICK c \in Configs : Reconcile(c)
    BY <1>4
  <2>1. CASE \/ AddFinalizer(c) \/ BeginApply(c) \/ BeginCleanup(c) \/ GetConfig(c)
             \/ ListApps(c) \/ EnterServices(c) \/ EndReconcile(c)
             \/ RemoveFinalizer(c)
    BY <2>1, OtherCleanup DEF AddFinalizer, BeginApply, BeginCleanup, GetConfig,
       ListApps, EnterServices, EndReconcile, RemoveFinalizer, envVars
  <2> QED BY <2>1, WatchCleanup, StopWatchCleanup, ReconcileAppCleanup DEF Reconcile
<1>5. CASE \E t \in Tasks : TaskStep(t)
  <2> PICK t \in Tasks : TaskStep(t)
    BY <1>5
  <2>1. CASE \E l \in Lattices : \E m \in stream[l] : HandleEvent(t, m)
    BY <2>1, HandleEventCleanup
  <2>2. CASE Ack(t)
    <3>1. \A s \in Tasks : /\ tasks'[s].lattice = tasks[s].lattice
                           /\ tasks'[s].namespaces = tasks[s].namespaces
                           /\ tasks[s].st # "free" => tasks'[s].st # "free"
      BY <1>a, <2>2 DEF Ack, Ready, Task
    <3> QED BY <2>2, <3>1, OtherCleanup DEF Ack, envVars
  <2>3. CASE Shutdown(t)
    <3>1. Cancelled(t) /\ \A s \in Tasks : s # t => tasks'[s] = tasks[s]
      BY <1>a, <2>3 DEF Shutdown
    <3> QED BY <2>3, <3>1, OtherCleanup DEF Shutdown, envVars
  <2> QED BY <2>1, <2>2, <2>3 DEF TaskStep
<1>6. CASE ExecStep
  BY <1>6, ExecCleanup
<1>7. CASE \E c \in Configs : \/ ReconcileFails(c)
                              \/ \E a \in Apps : GetManifestFails(c, a)
  BY <1>7, OtherCleanup DEF ReconcileFails, GetManifestFails, envVars
<1>8. CASE \E t \in Tasks : AckLost(t) \/ WatchEventsEnds(t)
  <2> PICK t \in Tasks : AckLost(t) \/ WatchEventsEnds(t)
    BY <1>8
  <2>1. \A s \in Tasks : /\ tasks'[s].lattice = tasks[s].lattice
                         /\ tasks'[s].namespaces = tasks[s].namespaces
                         /\ tasks[s].st # "free" => tasks'[s].st # "free"
    BY <1>a DEF AckLost, WatchEventsEnds, Ready, Task
  <2> QED BY <2>1, OtherCleanup DEF AckLost, WatchEventsEnds, envVars
<1>9. CASE \/ \E t \in Tasks : \E l \in Lattices : \E m \in stream[l] :
                LateHandleEvent(t, m)
           \/ \E k \in Namespaces \X Apps : KubeFails(k)
           \/ Restart
  BY <1>9 DEF Quiet, Disturb, LateHandleEvent, KubeFails, Restart
<1> QED BY <1>1, <1>2, <1>3, <1>4, <1>5, <1>6, <1>7, <1>8, <1>9
        DEF Next, Disturbance

\* Initially nobody is watched and the operator has no Service.
LEMMA InitCleanup == Init => CleanupInv
<1> SUFFICES ASSUME Init PROVE CloneInv /\ ClearInv
  BY DEF CleanupInv
<1>1. CloneInv
  BY DEF Init, CloneInv, Registered, NoWatcher
<1>2. ASSUME NEW ns \in Namespaces
      PROVE  Cleared(ns)
  <2>1. Empty(ns)
    BY DEF Init, Empty, ForeignService, NoService
  <2> QED BY <2>1 DEF Init, Cleared, Writes, ExecIdle, NoCommand
<1> QED BY <1>1, <1>2 DEF ClearInv

\* Without edits of a lattice, Kubernetes errors, restarts and handlers that
\* outlive their cancellation, stop_watch and the command loop together leave
\* nothing behind in a namespace that shares no lattice with another one:
\* whatever events, replays and retries are under way when its host configs go.
THEOREM PrivateCleanedUp ==
  Spec => [](Quiet => \A ns \in Namespaces : Private(ns) => CleanedUp(ns))
<1>1. Inv /\ HeldInv /\ CleanupInv
        => (Quiet => \A ns \in Namespaces : Private(ns) => CleanedUp(ns))
  <2> SUFFICES ASSUME HeldInv, CleanupInv, Quiet, NEW ns \in Namespaces, Private(ns),
                      chan = <<>>, exec = ExecIdle,
                      \A c \in Configs : NsOf[c] = ns => cfg[c].state = "absent"
               PROVE  Empty(ns)
    BY DEF CleanedUp
  <2>1. WatcherHeld
    BY DEF Quiet, HeldInv, NoEdits
  <2>2. ~Watched(ns)
    BY <2>1 DEF WatcherHeld, Watched
  <2>3. ClearQueued(ns) \/ Cleared(ns)
    BY <2>2 DEF CleanupInv, ClearInv
  <2> QED BY <2>3 DEF ClearQueued, Cleared, Clears, ExecIdle, NoCommand
<1>2. Init => HeldInv
  BY DEF Init, HeldInv, RecCurrent, WatcherHeld, NoWatcher, Idle
<1> QED BY <1>1, <1>2, InitCleanup, NextCleanup, NextHeld, InvCorrect, PTL DEF Spec

\* The same for all namespaces: where no two of them ever ask for one lattice,
\* no Service of the operator outlives the host configs of its namespace.
THEOREM NoOrphansCorrect ==
  Spec => [](Quiet /\ (\A ns \in Namespaces : Private(ns)) => NoOrphans)
<1>1. (Quiet => \A ns \in Namespaces : Private(ns) => CleanedUp(ns))
        => (Quiet /\ (\A ns \in Namespaces : Private(ns)) => NoOrphans)
  BY DEF NoOrphans
<1> QED BY <1>1, PrivateCleanedUp, PTL
=============================================================================
