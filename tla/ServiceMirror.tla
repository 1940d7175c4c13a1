--------------------------- MODULE ServiceMirror ---------------------------
(***************************************************************************)
(* What the operator promises about the Services it manages, with nothing  *)
(* said of watchers, tasks, queues or retries: which grounds a Service is  *)
(* written on, and which grounds one is removed on.                        *)
(***************************************************************************)
EXTENDS Naturals

CONSTANTS Namespaces, Lattices, Apps, Ports, Foreign

VARIABLES
  services,   \* Services in the cluster
  granted,    \* (namespace, lattice) pairs some host config asked for
  revoked,    \* namespaces in which a host config was deleted
  published,  \* (lattice, app, port) wadm ever deployed
  withdrawn   \* (lattice, app) wadm ever undeployed

vars == <<services, granted, revoked, published, withdrawn>>

NoService == [owner |-> "none"]
ForeignService == [owner |-> "other"]

Init ==
  /\ services = [k \in Namespaces \X Apps |->
                   IF k \in Foreign THEN ForeignService ELSE NoService]
  /\ granted = {} /\ revoked = {} /\ published = {} /\ withdrawn = {}

Grant(ns, l) ==
  /\ granted' = granted \cup {<<ns, l>>}
  /\ UNCHANGED <<services, revoked, published, withdrawn>>

Revoke(ns) ==
  /\ \E l \in Lattices : <<ns, l>> \in granted
  /\ revoked' = revoked \cup {ns}
  /\ UNCHANGED <<services, granted, published, withdrawn>>

Publish(l, a, p) ==
  /\ published' = published \cup {<<l, a, p>>}
  /\ UNCHANGED <<services, granted, revoked, withdrawn>>

Withdraw(l, a) ==
  /\ withdrawn' = withdrawn \cup {<<l, a>>}
  /\ UNCHANGED <<services, granted, revoked, published>>

\* A Service is written only for a lattice its own namespace was granted and
\* for a port that was published there, and never over somebody else's.
Write(ns, a, l, p) ==
  /\ services[<<ns, a>>].owner # "other"
  /\ <<ns, l>> \in granted
  /\ <<l, a, p>> \in published
  /\ services' = [services EXCEPT ![<<ns, a>>] =
                    [owner |-> "operator", port |-> p, lattice |-> l]]
  /\ UNCHANGED <<granted, revoked, published, withdrawn>>

\* The operator's own Service goes when its namespace lost a host config.  An
\* application withdrawn from a lattice the namespace was granted takes the
\* Service of its name along, whoever made it: deletion goes by name alone.
Remove(ns, a) ==
  /\ \/ ns \in revoked /\ services[<<ns, a>>].owner = "operator"
     \/ \E l \in Lattices : <<ns, l>> \in granted /\ <<l, a>> \in withdrawn
  /\ services' = [services EXCEPT ![<<ns, a>>] = NoService]
  /\ UNCHANGED <<granted, revoked, published, withdrawn>>

Next ==
  \/ \E ns \in Namespaces : Revoke(ns) \/ \E l \in Lattices : Grant(ns, l)
  \/ \E l \in Lattices, a \in Apps :
       Withdraw(l, a) \/ \E p \in Ports : Publish(l, a, p)
  \/ \E ns \in Namespaces, a \in Apps :
       Remove(ns, a) \/ \E l \in Lattices, p \in Ports : Write(ns, a, l, p)

Spec == Init /\ [][Next]_vars
=============================================================================
