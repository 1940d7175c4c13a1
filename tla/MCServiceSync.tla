--------------------------- MODULE MCServiceSync ---------------------------
(***************************************************************************)
(* Topologies and bounds for model checking ServiceSync.                   *)
(***************************************************************************)
EXTENDS ServiceSync, TLC

CONSTANTS c1, c2, n1, n2, a1, t1, t2

\* Every host config in one namespace, or each in its own.
MCOneNamespace == [c \in Configs |-> n1]
MCTwoNamespaces == c1 :> n1 @@ c2 :> n2

\* Somebody else's Service with the name of an application.
MCForeign == {<<n1, a1>>}

\* Two configs in two namespaces are interchangeable together with their
\* namespaces, two configs of one namespace by themselves, and so are the
\* task slots.
SwapTasks == t1 :> t2 @@ t2 :> t1
KeepTasks == t1 :> t1 @@ t2 :> t2
SwapConfigs == c1 :> c2 @@ c2 :> c1
KeepConfigs == c1 :> c1 @@ c2 :> c2
SwapNamespaces == n1 :> n2 @@ n2 :> n1
KeepNamespaces == n1 :> n1 @@ n2 :> n2

MCSymTwoNamespaces ==
  {f @@ g : f \in {SwapConfigs @@ SwapNamespaces,
                   KeepConfigs @@ KeepNamespaces},
            g \in {SwapTasks, KeepTasks}}

MCSymOneNamespace ==
  {f @@ g : f \in {SwapConfigs, KeepConfigs}, g \in {SwapTasks, KeepTasks}}
=============================================================================
