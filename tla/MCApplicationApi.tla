-------------------------- MODULE MCApplicationApi --------------------------
(***************************************************************************)
(* Topology for model checking ApplicationApi: two host configs in one     *)
(* namespace, which may come to share a lattice, and a namespace without.  *)
(***************************************************************************)
EXTENDS ApplicationApi, TLC

CONSTANTS n1, l1, l2

MCNsOf == 1 :> n1 @@ 2 :> n1
MCInitLattice == 1 :> l1 @@ 2 :> l2
=============================================================================
