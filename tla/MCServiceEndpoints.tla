------------------------- MODULE MCServiceEndpoints -------------------------
(***************************************************************************)
(* Topology and manifests for model checking ServiceEndpoints.             *)
(***************************************************************************)
EXTENDS ServiceEndpoints, TLC

CONSTANTS l1, l2, c1, c2, h1, h2, i1, i2

MCInitLattice == c1 :> l1 @@ c2 :> l2
MCConfigOf == h1 :> c1 @@ h2 :> c2
MCInitIp == h1 :> i1 @@ h2 :> None

\* Traits.
Daemon == [type |-> "daemonscaler", decodes |-> "scaler", http |-> FALSE,
           addresses |-> <<>>, labels |-> {"zone"}]
Link(as) == [type |-> "link", decodes |-> "link", http |-> TRUE,
             addresses |-> as, labels |-> {}]
OtherLink == [Link(<<3>>) EXCEPT !.http = FALSE]
ScalerAsLink == [Daemon EXCEPT !.type = "link"]

Server(traits) == [httpServer |-> TRUE, traits |-> traits]
Plain(traits) == [httpServer |-> FALSE, traits |-> traits]

\* A component that links over http itself beside an httpserver; two addresses
\* and a link that comes too late; host labels in a link; an address without a
\* port.
MCManifests ==
  {<<Server(<<Link(<<1>>), Daemon>>), Plain(<<Daemon, Link(<<3>>)>>)>>,
   <<Server(<<Daemon, Link(<<1, 2>>), Link(<<3>>)>>)>>,
   <<Server(<<Link(<<1>>), Daemon>>), Server(<<ScalerAsLink>>)>>,
   <<Server(<<Daemon, Link(<<None>>)>>)>>}
=============================================================================
