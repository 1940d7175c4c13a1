--------------------------- MODULE ServiceTraffic ---------------------------
(***************************************************************************)
(* What the operator promises about one Service and its EndpointSlice,     *)
(* with nothing said of commands, requests, pods or manifests: what may be *)
(* written into them, and when each may go.                                *)
(***************************************************************************)
EXTENDS Naturals

CONSTANTS Ports, Ips, Selectors, None

VARIABLES
  service,   \* the Service
  slice,     \* its EndpointSlice
  uids,      \* Services created so far
  declared,  \* ports that deployed manifests have declared
  hosted     \* addresses at which hosts of the lattice have run

vars == <<service, slice, uids, declared, hosted>>

Init == /\ service = None /\ slice = None /\ uids = 0
        /\ declared = {} /\ hosted \subseteq Ips

\* Manifests are deployed and hosts run.
Learn ==
  /\ UNCHANGED <<service, slice, uids>>
  /\ declared \subseteq declared' /\ declared' \subseteq Ports
  /\ hosted \subseteq hosted' /\ hosted' \subseteq Ips

\* A Service that is created is a new one, not one that was deleted; one that
\* is updated stays itself, and stays on its way out when it is.
Apply(port, labels) ==
  /\ uids' = IF service = None THEN uids + 1 ELSE uids
  /\ service' = [uid |-> IF service = None THEN uids' ELSE service.uid,
                 port |-> port, labels |-> labels, finalizer |-> TRUE,
                 terminating |-> service # None /\ service.terminating]
  /\ port \in declared
  /\ UNCHANGED <<slice, declared, hosted>>

\* Somebody wants the Service gone; its finalizer keeps it.
Doom ==
  /\ service # None /\ service.finalizer
  /\ service' = [service EXCEPT !.terminating = TRUE]
  /\ UNCHANGED <<slice, uids, declared, hosted>>

\* The finalizer goes, and nothing else of the Service changes.
Release ==
  /\ service # None /\ service.finalizer
  /\ service' = IF service.terminating THEN None
                ELSE [service EXCEPT !.finalizer = FALSE]
  /\ UNCHANGED <<slice, uids, declared, hosted>>

\* A Service goes only when it has no finalizer.
Delete ==
  /\ service # None /\ ~service.finalizer
  /\ service' = None
  /\ UNCHANGED <<slice, uids, declared, hosted>>

\* An EndpointSlice belongs to a Service that was created, and has addresses,
\* all of them of hosts.
Publish(owner, ips, port) ==
  /\ slice' = [owner |-> owner, addresses |-> ips, port |-> port]
  /\ ips # {} /\ ips \subseteq hosted
  /\ port \in declared
  /\ UNCHANGED <<service, uids, declared, hosted>>

\* It goes only when its Service is gone.
Collect ==
  /\ slice # None
  /\ service # None => service.uid # slice.owner
  /\ slice' = None
  /\ UNCHANGED <<service, uids, declared, hosted>>

Next ==
  \/ Learn \/ Doom \/ Release \/ Delete \/ Collect
  \/ \E port \in Ports, labels \in Selectors : Apply(port, labels)
  \/ \E owner \in 1..uids, ips \in SUBSET Ips, port \in Ports :
       Publish(owner, ips, port)

Spec == Init /\ [][Next]_vars
=============================================================================
